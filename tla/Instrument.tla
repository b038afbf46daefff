----------------------------- MODULE Instrument -----------------------------
(***************************************************************************)
(* The state of the SCPI server for the CGR-101 and the vocabulary of its  *)
(* events, commands and device messages.  The modules Device, Receiver,    *)
(* Commands and Server give this state its steps.                          *)
(*                                                                         *)
(* The server is one thread.  Around it run the client at the other end of *)
(* stdin/stdout, the device at the other end of the pipes of the spawned   *)
(* helper program, and the signals.                                        *)
(***************************************************************************)
EXTENDS Integers, Sequences

CONSTANTS
  Lines,          \* the program lines the client may send: sequences of commands
  MaxLines,       \* bound: how many lines the client sends
  Lockstep,       \* TRUE: the client awaits the answers to a line before the next
  ImmTrigger,     \* TRUE: the trigger source is IMM, INITiate triggers by itself
  EventCounts,    \* the values of the count argument of the digital event commands
  EventChans,     \* the channel lists they name: sets of "INT" and "DIN"
  MaxReports,     \* bound: how many unsolicited reports the device sends
  Signals         \* the signals that may arrive: a subset of {"SIGINT"}

(* "refused" stands for a command of the digital input whose argument is   *)
(* out of its range, "bad" for a syntax error.                             *)
Command ==
  { "*CLS", "*IDN?", "*OPC?", "*RST", "*WAI", "SYST:VERS?", "SYST:INT:SLE",
    "SYST:INT:QUI", "ABOR", "SENS:FUNC:ON", "SENS:FUNC:OFF", "INIT", "INIT:IMM",
    "SENS:DATA?", "SENS:STAT?", "CONF:DIG:DATA", "FETC:DIG:DATA?",
    "READ:DIG:DATA?", "MEAS:DIG:DATA?", "CONF:DIG:EVEN", "FETC:DIG:EVEN?",
    "READ:DIG:EVEN?", "MEAS:DIG:EVEN?", "refused", "bad", "EOF" }

(* What an answer on the client's stdout is the answer to.                 *)
Answer == { "IDN", "OPC", "VERS", "DATA", "STAT", "READ", "EVEN" }

AnswerOf ==
  [ c \in Command |->
      CASE c = "*IDN?"      -> <<"IDN">>
        [] c = "*OPC?"      -> <<"OPC">>
        [] c = "SYST:VERS?" -> <<"VERS">>
        [] c = "SENS:DATA?" -> <<"DATA">>
        [] c = "SENS:STAT?" -> <<"STAT">>
        [] c \in {"FETC:DIG:DATA?", "READ:DIG:DATA?", "MEAS:DIG:DATA?"} -> <<"READ">>
        [] c \in {"FETC:DIG:EVEN?", "READ:DIG:EVEN?", "MEAS:DIG:EVEN?"} -> <<"EVEN">>
        [] OTHER            -> << >> ]

EndOfFile == << "EOF" >>

ASSUME ConstantsAssumption ==
  /\ Lines \subseteq Seq(Command \ {"EOF"})
  /\ MaxLines \in Nat
  /\ Lockstep \in BOOLEAN
  /\ ImmTrigger \in BOOLEAN
  /\ EventCounts \subseteq Nat
  /\ EventChans \subseteq SUBSET {"INT", "DIN"}
  /\ MaxReports \in Nat
  /\ Signals \subseteq {"SIGINT"}

(* The one-byte tokens of the event pipe.                                  *)
EventId ==
  { "IDENTIFY_COMPLETE", "IDENTIFY_OUTPUT", "DIGITAL_READ_COMPLETE",
    "DIGITAL_READ_OUTPUT", "SCOPE_STATUS_OUTPUT", "SCOPE_STATUS_COMPLETE",
    "SCOPE_OFFSET_START", "UNBLOCK", "OUTPUT_FLUSH", "PROCESS_LINE" }

(* The registered workers that matter, in the order they are called.       *)
Worker == { "event", "device", "stdin" }

(* What the server writes to the device, and what the device sends back.   *)
Request == { "i", "D I", "S S", "S O", "S G", "S D", "S B", "D A", "D !" }
Message == { "*", "I", "S", "O", "A", "D", "!" }

VARIABLES
  (* server.c, worker.c, event.c *)
  pc,             \* "loop", "exec" (a line's handlers are running), "exited", "failed"
  ready,          \* the workers select() reported that were not called yet
  evq,            \* the event pipe
  quit,           \* server_exit || info->quit
  (* parser.c *)
  lines,          \* the lines of cli_line not processed yet; <<>> is cli_line == NULL
  prog,           \* the commands of the current line that are still to run
  blockUntil,     \* parser_block_until_active
  timer,          \* the SIGALRM timer: "off", "running", or "disarmed", set to no time
  (* scpi_core.c, scpi_output.c *)
  blockInput,     \* info->block_input
  opcq,           \* info->scpi->opcq
  out,            \* the answers in the output buffer
  (* cgr101.c, digitizer *)
  sweep,          \* info->sweep_status
  overlapped,     \* info->overlapped
  enabled,        \* an input channel is enabled
  scopePend,      \* scope.output_pending
  addrState,      \* scope.addr_state: "IDLE", "EXPECT", "COMPLETE"
  dataState,      \* scope.data_state: "IDLE", "EXPECT", "COMPLETE"
  statState,      \* scope.status_state
  offset,         \* info->offset_status
  (* cgr101.c, digital input *)
  digEv,          \* info->digital_event_status
  chanMask,       \* event.chan_mask
  evCur,          \* event.current
  evMax,          \* event.max
  evPend,         \* event.output_pending
  digReq,         \* digital_read_requested
  digState,       \* digital_read_state
  identState,     \* identify_state
  identReq,       \* identify_output_requested
  rcv,            \* rcv_state: the message being received, or "IDLE"
  failed,         \* the assertion that stopped the program, or ""
  (* the device *)
  devReq, devOut, armed, intArmed, reports,
  (* the client *)
  stdin, nsent, asked, received

loopVars   == << pc, ready, quit, failed >>
inputVars  == << lines, prog, blockUntil, timer >>
blockVars  == << blockInput, opcq >>
sweepVars  == << sweep, overlapped, dataState >>
sleepVars  == << blockUntil, timer >>
scopeVars  == << sweep, overlapped, enabled, scopePend, addrState, dataState,
                 statState, offset >>
digEvVars  == << digEv, chanMask, evCur, evMax, evPend >>
digitalVars == << digEv, chanMask, evCur, evMax, evPend, digReq, digState >>
identVars  == << identState, identReq >>
deviceVars == << devReq, devOut, armed, intArmed, reports >>
clientVars == << stdin, nsent, asked, received >>
vars == << loopVars, evq, inputVars, blockVars, out, scopeVars, digitalVars,
           identVars, rcv, deviceVars, clientVars >>

(* The state server_run() enters its loop with: the device was opened and  *)
(* asked for its offsets through the event pipe.                           *)
Init ==
  /\ pc = "loop" /\ ready = {} /\ quit = FALSE /\ failed = ""
  /\ evq = << "SCOPE_OFFSET_START" >>
  /\ lines = << >> /\ prog = << >> /\ blockUntil = FALSE /\ timer = "off"
  /\ blockInput = FALSE /\ opcq = FALSE /\ out = << >>
  /\ sweep = FALSE /\ overlapped = FALSE /\ enabled = FALSE
  /\ scopePend = FALSE /\ addrState = "IDLE" /\ dataState = "IDLE"
  /\ statState = "IDLE" /\ offset = TRUE
  /\ digEv = FALSE /\ chanMask = {} /\ evCur = 0 /\ evMax = 0 /\ evPend = FALSE
  /\ digReq = FALSE /\ digState = "IDLE"
  /\ identState = "IDLE" /\ identReq = FALSE
  /\ rcv = "IDLE"
  /\ devReq = << >> /\ devOut = << >> /\ armed = FALSE /\ intArmed = FALSE
  /\ reports = 0
  /\ stdin = << >> /\ nsent = 0 /\ asked = << >> /\ received = << >>

Queued(e) == \E i \in 1..Len(evq) : evq[i] = e

Phase == { "IDLE", "PENDING", "COMPLETE" }
Timer == { "off", "running", "disarmed" }

(* The function whose assert() has failed, if one has.                     *)
Failure ==
  { "", "cgr101_scope_data_done", "cgr101_rcv_scope_data",
    "cgr101_digital_event", "cgr101_identify_completion",
    "cgr101_digitizer_data_output", "cgr101_configure_digital_event",
    "scpi_system_internal_sleep" }

TypeOK ==
  /\ pc \in { "loop", "exec", "exited", "failed" }
  /\ ready \subseteq Worker
  /\ evq \in Seq(EventId)
  /\ quit \in BOOLEAN
  /\ failed \in Failure
  /\ lines \in Seq(Seq(Command))
  /\ prog \in Seq(Command)
  /\ blockUntil \in BOOLEAN /\ timer \in Timer
  /\ blockInput \in BOOLEAN /\ opcq \in BOOLEAN
  /\ out \in Seq(Answer)
  /\ sweep \in BOOLEAN /\ overlapped \in BOOLEAN /\ enabled \in BOOLEAN
  /\ scopePend \in BOOLEAN /\ offset \in BOOLEAN
  /\ addrState \in { "IDLE", "EXPECT", "COMPLETE" }
  /\ dataState \in { "IDLE", "EXPECT", "COMPLETE" }
  /\ statState \in Phase
  /\ digEv \in BOOLEAN /\ chanMask \subseteq {"INT", "DIN"}
  /\ evCur \in Nat /\ evMax \in Nat /\ evPend \in BOOLEAN
  /\ digReq \in BOOLEAN /\ digState \in Phase
  /\ identState \in Phase /\ identReq \in BOOLEAN
  /\ rcv \in Message \cup {"IDLE"}
  /\ devReq \in Seq(Request) /\ devOut \in Seq(Message)
  /\ armed \in BOOLEAN /\ intArmed \in BOOLEAN /\ reports \in Nat
  /\ stdin \in Seq(Seq(Command)) /\ nsent \in Nat
  /\ received \in Seq(Answer)
=============================================================================
