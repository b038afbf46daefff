-------------------------- MODULE ServerProperties --------------------------
(***************************************************************************)
(* The correctness properties of the server.                               *)
(***************************************************************************)
EXTENDS Server, FiniteSets

(* The answers that reach the client are the ones it asked for, in order,  *)
(* none lost and none twice (scpi_output.c, parser.c and the handlers of   *)
(* the event pipe between a query and its flush).                          *)
Stream == INSTANCE AnswerStream

AnswersInOrder == Stream!Safe

(* And each of them arrives in the end.                                    *)
AnswersArrive == Stream!Spec

(* A line that was read and not processed always has a PROCESS_LINE token  *)
(* in the event pipe; without one nothing would ever look at it again      *)
(* (parser_cli_line, parser_process_line, parser_cli_read).                *)
NoLostLine == pc = "loop" /\ ~quit /\ lines # << >> => Queued("PROCESS_LINE")

(* Blocked input has something that will release it: the operation it      *)
(* waits for, or the UNBLOCK token its end has sent, or the alarm timer    *)
(* (the commands that block, cgr101_abort, the receiver, scpi_core_unblock).*)
(* The one exception is SLEep with less than a microsecond, which disarms  *)
(* the timer: that block has no release (scpi_system_internal_sleep).      *)
BlockHasRelease ==
  /\ blockInput => sweep \/ digEv \/ Queued("UNBLOCK")
  /\ blockUntil => timer = "running" \/ timer = "disarmed"

(* An answer in the buffer has a flush coming, in the pipe or at the end   *)
(* of the line that runs.  The answer to SENSe:STATus? is the exception:   *)
(* cgr101_scope_status_output sends none.                                  *)
FlushFollows ==
  pc \in { "loop", "exited" } /\ (\E i \in 1..Len(out) : out[i] # "STAT")
    => Queued("OUTPUT_FLUSH") \/ Queued("UNBLOCK")

(* A record of digital events that still records has room for one more:    *)
(* the assertion of cgr101_digital_event.                                  *)
RecordHasRoom == chanMask # {} => evCur < evMax

(* The data of a capture is received with its address known: the assertion *)
(* of cgr101_scope_data_done, for the sweeps the device completes.         *)
DataAfterAddress == rcv = "D" => addrState = "COMPLETE"

(* The workers that are to be called and have nothing to read: the read()  *)
(* of the first of them blocks the only thread there is.                   *)
CalledInVain ==
  { w \in ready : \/ w = "event"  /\ evq = << >>
                  \/ w = "device" /\ devOut = << >>
                  \/ w = "stdin"  /\ stdin = << >> }

(* Only a signal that interrupts select() makes the loop call a worker     *)
(* that has nothing to read: no worker takes what another was called for,  *)
(* in whatever order the device and the client go on meanwhile             *)
(* (server_select, worker_run_ready).                                      *)
OnlySignalsCallInVain ==
  [][CalledInVain' \subseteq CalledInVain \/ SigAlrm \/ SigInt]_vars

(* Blocked input is released only when no sweep is pending: what *WAI and  *)
(* *OPC? promise.                                                          *)
ReleasedWhenComplete == [][blockInput /\ ~blockInput' => ~overlapped']_vars

(* The output buffer is emptied by writing it, never by clearing it while  *)
(* it holds answers (parser_send clears it at the start of each line).     *)
AnswersNotCleared ==
  [][out # << >> /\ Len(out') < Len(out) => received' = received \o out]_vars

(* While no command blocks, one line is processed per token and flushed    *)
(* before the next: the pipe never holds two PROCESS_LINE tokens.          *)
OneLineToken ==
  Cardinality({ i \in 1..Len(evq) : evq[i] = "PROCESS_LINE" }) <= 1

(* A client that closes its stream has its answers before the server exits. *)
AnsweredBeforeExit ==
  pc = "exited" /\ lines # << >> /\ Head(lines) = EndOfFile => received = asked

(* Input that is blocked is released.                                      *)
BlockingEnds == Blocked ~> (~Blocked \/ pc = "failed")

(* Every line the client sent is processed.                                *)
LinesProcessed ==
  stdin # << >> \/ lines # << >>
    ~> (stdin = << >> /\ lines = << >>) \/ pc \in { "exited", "failed" }

(* While interrupts are being recorded, the next one will be noticed: the   *)
(* device is armed, or about to be, or has sent one that will re-arm it     *)
(* (cgr101_initiate, cgr101_digital_event).                                 *)
InterruptArmed ==
  pc = "loop" /\ digEv /\ "INT" \in chanMask
    => \/ intArmed
       \/ \E i \in 1..Len(devReq) : devReq[i] = "D !"
       \/ \E i \in 1..Len(devOut) : devOut[i] = "!"

(* The assertion of cgr101_digital_event: no event comes too many.         *)
RecordAssertion == failed # "cgr101_digital_event"

(* A client that waits for the end of what it starts makes no assertion of *)
(* the code fail.                                                          *)
NoAssertionFails == failed = ""
=============================================================================
