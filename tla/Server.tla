------------------------------- MODULE Server -------------------------------
(***************************************************************************)
(* The server's loop: select(), the workers in their order, the event pipe *)
(* and its handlers, and the lines of the client (server.c, worker.c,      *)
(* event.c, parser.c, scpi_core.c).  With the client and the signals it    *)
(* makes the whole system's specification.                                 *)
(***************************************************************************)
EXTENDS Commands

Blocked == blockUntil \/ blockInput

----------------------------------------------------------------------------
(* select() and the loop.                                                  *)

(* A seeded fault: workers are called without FD_ISSET().                  *)
Readable_All == Worker

(* The workers whose descriptor has something to read.                     *)
Readable ==
  { w \in Worker : \/ w = "event"  /\ evq # << >>
                   \/ w = "device" /\ devOut # << >>
                   \/ w = "stdin"  /\ stdin # << >> }

outsideLoop == << evq, inputVars, blockVars, out, scopeVars, digitalVars,
                  identVars, rcv, deviceVars, clientVars >>

InSelect == pc = "loop" /\ ready = {} /\ ~quit

Select ==
  /\ InSelect /\ Readable # {}
  /\ ready' = Readable
  /\ UNCHANGED << pc, quit, failed, outsideLoop >>

(* The ten milliseconds of select() pass and nothing came.                 *)
SelectTimeout == InSelect /\ Readable = {} /\ UNCHANGED vars

(* A signal ends a select() that waits: the descriptor sets are left as    *)
(* they were passed in, and every worker is taken to be ready.             *)
Interrupted ==
  \/ InSelect /\ Readable = {} /\ ready' = Worker
  \/ UNCHANGED ready

SigAlrm ==
  /\ timer = "running"
  /\ timer' = "off" /\ blockUntil' = FALSE
  /\ Interrupted
  /\ UNCHANGED << pc, quit, failed, evq, lines, prog, blockVars, out, scopeVars,
                  digitalVars, identVars, rcv, deviceVars, clientVars >>

SigInt ==
  /\ "SIGINT" \in Signals /\ ~quit /\ pc \in { "loop", "exec" }
  /\ quit' = TRUE
  /\ Interrupted
  /\ UNCHANGED << pc, failed, outsideLoop >>

Exit ==
  /\ pc = "loop" /\ ready = {} /\ quit
  /\ pc' = "exited"
  /\ UNCHANGED << ready, quit, failed, outsideLoop >>

Stopped == pc \in { "exited", "failed" } /\ UNCHANGED vars

----------------------------------------------------------------------------
(* The event worker reads one token of the pipe and calls its handler.     *)

Event(e) ==
  /\ Turn("event") /\ evq # << >> /\ Head(evq) = e
  /\ Return("event")
  /\ UNCHANGED << quit, sleepVars, rcv, devOut, armed, intArmed, reports, stdin,
                  nsent, asked >>

Then(events) == evq' = Tail(evq) \o events

(* The rest of the state, for the handlers that leave the lines alone.     *)
lineState == << pc, failed, lines, prog >>

(* The completion of an identify; a second one finds COMPLETE.             *)
IdentifyCompletion ==
  /\ identState = "PENDING"
  /\ Event("IDENTIFY_COMPLETE")
  /\ identState' = "COMPLETE"
  /\ Then(If(identReq, << "IDENTIFY_OUTPUT" >>))
  /\ UNCHANGED << lineState, identReq, blockVars, out, scopeVars, digitalVars,
                  devReq, received >>

IdentifyCompletionFails ==
  /\ Turn("event") /\ evq # << >> /\ Head(evq) = "IDENTIFY_COMPLETE"
  /\ identState # "PENDING"
  /\ Fail("cgr101_identify_completion")

IdentifyOutput ==
  /\ Event("IDENTIFY_OUTPUT")
  /\ \/ /\ identState = "IDLE"
        /\ devReq' = Append(devReq, "i")
        /\ Then(<< >>) /\ UNCHANGED out
     \/ /\ identState = "PENDING"
        /\ Then(<< "IDENTIFY_OUTPUT" >>)
        /\ UNCHANGED << devReq, out >>
     \/ /\ identState = "COMPLETE"
        /\ out' = Append(out, "IDN")
        /\ Then(<< "OUTPUT_FLUSH" >>)
        /\ UNCHANGED devReq
  /\ UNCHANGED << lineState, identVars, blockVars, scopeVars, digitalVars,
                  received >>

DigitalReadCompletion ==
  /\ Event("DIGITAL_READ_COMPLETE")
  /\ digState' = "COMPLETE"
  /\ Then(<< >>)
  /\ UNCHANGED << lineState, identVars, blockVars, out, scopeVars, digEvVars,
                  digReq, devReq, received >>

(* A seeded fault: the answer is written and no flush scheduled.           *)
DigitalReadOutput_NoFlush ==
  /\ Event("DIGITAL_READ_OUTPUT")
  /\ \/ /\ digState # "COMPLETE"
        /\ Then(<< "DIGITAL_READ_OUTPUT" >>)
        /\ UNCHANGED out
     \/ /\ digState = "COMPLETE"
        /\ out' = Append(out, "READ")
        /\ Then(<< >>)
  /\ UNCHANGED << lineState, identVars, blockVars, scopeVars, digitalVars,
                  devReq, received >>

(* A seeded fault: the event is sent again although it was answered.       *)
DigitalReadOutput_Again ==
  /\ Event("DIGITAL_READ_OUTPUT")
  /\ \/ /\ digState # "COMPLETE"
        /\ Then(<< "DIGITAL_READ_OUTPUT" >>)
        /\ UNCHANGED out
     \/ /\ digState = "COMPLETE"
        /\ out' = Append(out, "READ")
        /\ Then(<< "OUTPUT_FLUSH", "DIGITAL_READ_OUTPUT" >>)
  /\ UNCHANGED << lineState, identVars, blockVars, scopeVars, digitalVars,
                  devReq, received >>

DigitalReadOutput ==
  /\ Event("DIGITAL_READ_OUTPUT")
  /\ \/ /\ digState # "COMPLETE"
        /\ Then(<< "DIGITAL_READ_OUTPUT" >>)
        /\ UNCHANGED out
     \/ /\ digState = "COMPLETE"
        /\ out' = Append(out, "READ")
        /\ Then(<< "OUTPUT_FLUSH" >>)
  /\ UNCHANGED << lineState, identVars, blockVars, scopeVars, digitalVars,
                  devReq, received >>

(* The answer is written to the buffer and no flush is scheduled.          *)
ScopeStatusOutput ==
  /\ Event("SCOPE_STATUS_OUTPUT")
  /\ \/ /\ statState = "IDLE"
        /\ devReq' = Append(devReq, "S S")
        /\ statState' = "PENDING"
        /\ Then(<< >>) /\ UNCHANGED out
     \/ /\ statState = "PENDING"
        /\ Then(<< "SCOPE_STATUS_OUTPUT" >>)
        /\ UNCHANGED << devReq, statState, out >>
     \/ /\ statState = "COMPLETE"
        /\ out' = Append(out, "STAT")
        /\ Then(<< >>)
        /\ UNCHANGED << devReq, statState >>
  /\ UNCHANGED << lineState, identVars, blockVars, sweep, overlapped, enabled,
                  scopePend, addrState, dataState, offset, digitalVars,
                  received >>

ScopeStatusCompletion ==
  /\ Event("SCOPE_STATUS_COMPLETE")
  /\ Then(<< "SCOPE_STATUS_OUTPUT" >>)
  /\ UNCHANGED << lineState, identVars, blockVars, out, scopeVars, digitalVars,
                  devReq, received >>

ScopeOffsetStart ==
  /\ Event("SCOPE_OFFSET_START")
  /\ devReq' = Append(devReq, "S O")
  /\ Then(<< >>)
  /\ UNCHANGED << lineState, identVars, blockVars, out, scopeVars, digitalVars,
                  received >>

(* A seeded fault: the input is unblocked and the output not flushed.      *)
Unblock_NoFlush ==
  /\ Event("UNBLOCK")
  /\ blockInput' = FALSE /\ opcq' = FALSE
  /\ out' = IF opcq THEN Append(out, "OPC") ELSE out
  /\ Then(<< "PROCESS_LINE" >>)
  /\ UNCHANGED << lineState, identVars, scopeVars, digitalVars, devReq,
                  received >>

(* An operation ended.  Whichever it was, the input is unblocked.          *)
Unblock ==
  /\ Event("UNBLOCK")
  /\ blockInput' = FALSE /\ opcq' = FALSE
  /\ out' = IF opcq THEN Append(out, "OPC") ELSE out
  /\ Then(<< "OUTPUT_FLUSH", "PROCESS_LINE" >>)
  /\ UNCHANGED << lineState, identVars, scopeVars, digitalVars, devReq,
                  received >>

OutputFlush ==
  /\ Event("OUTPUT_FLUSH")
  /\ received' = received \o out
  /\ out' = << >>
  /\ Then(<< >>)
  /\ UNCHANGED << lineState, identVars, blockVars, scopeVars, digitalVars,
                  devReq >>

----------------------------------------------------------------------------
(* The lines of the client.                                                *)

(* A seeded fault: the event of a blocked line is not sent again.          *)
ProcessNoLine_Dropped ==
  /\ Event("PROCESS_LINE")
  /\ lines = << >> \/ Blocked
  /\ Then(<< >>)
  /\ UNCHANGED << lineState, identVars, blockVars, out, scopeVars, digitalVars,
                  devReq, received >>

(* The event of a line that cannot be processed now, or is not there.      *)
ProcessNoLine ==
  /\ Event("PROCESS_LINE")
  /\ \/ lines = << >> /\ Then(<< >>)
     \/ lines # << >> /\ Blocked /\ Then(<< "PROCESS_LINE" >>)
  /\ UNCHANGED << lineState, identVars, blockVars, out, scopeVars, digitalVars,
                  devReq, received >>

(* A seeded fault: the last line sends for another one.                    *)
NextLine_Always == << "PROCESS_LINE" >>

(* A seeded fault: the last line but one does not send for the last.       *)
NextLine_OffByOne == If(Len(lines) > 2, << "PROCESS_LINE" >>)

(* parser_cli_line(): an empty line is skipped.                            *)
NextLine == If(Len(lines) > 1, << "PROCESS_LINE" >>)

ProcessEmptyLine ==
  /\ lines # << >> /\ ~Blocked /\ Head(lines) = << >>
  /\ Event("PROCESS_LINE")
  /\ lines' = Tail(lines)
  /\ Then(NextLine)
  /\ UNCHANGED << pc, failed, prog, identVars, blockVars, out, scopeVars,
                  digitalVars, devReq, received >>

(* Any other is parsed, after the output buffer was cleared.               *)
ProcessLine ==
  /\ lines # << >> /\ ~Blocked /\ Head(lines) # << >>
  /\ Event("PROCESS_LINE")
  /\ pc' = "exec"
  /\ prog' = Head(lines)
  /\ out' = << >>
  /\ Then(<< >>)
  /\ UNCHANGED << failed, lines, identVars, blockVars, scopeVars, digitalVars,
                  devReq, received >>

(* A seeded fault: the next line's event is sent before the flush.         *)
LineDone_FlushLast ==
  /\ pc = "exec" /\ prog = << >>
  /\ pc' = "loop"
  /\ IF Head(lines) = EndOfFile
     THEN Send(<< "OUTPUT_FLUSH" >>) /\ UNCHANGED lines
     ELSE Send(NextLine \o << "OUTPUT_FLUSH" >>) /\ lines' = Tail(lines)
  /\ UNCHANGED << ready, quit, failed, prog, sleepVars, blockVars, out,
                  scopeVars, digitalVars, identVars, rcv, deviceVars,
                  clientVars >>

(* Its handlers are done: flush the output, and go on with the next line.  *)
(* At the end of the stream the line stays; quit is set.                   *)
LineDone ==
  /\ pc = "exec" /\ prog = << >>
  /\ pc' = "loop"
  /\ IF Head(lines) = EndOfFile
     THEN Send(<< "OUTPUT_FLUSH" >>) /\ UNCHANGED lines
     ELSE Send(<< "OUTPUT_FLUSH" >> \o NextLine) /\ lines' = Tail(lines)
  /\ UNCHANGED << ready, quit, failed, prog, sleepVars, blockVars, out,
                  scopeVars, digitalVars, identVars, rcv, deviceVars,
                  clientVars >>

stdinFrame == << pc, quit, failed, prog, sleepVars, blockVars, out, scopeVars,
                 digitalVars, identVars, rcv, deviceVars, nsent, asked,
                 received >>

(* The client's stream is read when no line is left and none is awaited.   *)
CliRead ==
  /\ Turn("stdin") /\ Return("stdin")
  /\ lines = << >> /\ ~Blocked /\ stdin # << >>
  /\ \E n \in 1..Len(stdin) :
       /\ n = 1 \/ \A i \in 1..n : stdin[i] # EndOfFile
       /\ lines' = SubSeq(stdin, 1, n)
       /\ stdin' = SubSeq(stdin, n + 1, Len(stdin))
  /\ Send(<< "PROCESS_LINE" >>)
  /\ UNCHANGED stdinFrame

CliNoRead ==
  /\ Turn("stdin") /\ Return("stdin")
  /\ lines # << >> \/ Blocked
  /\ UNCHANGED << evq, lines, stdin, stdinFrame >>

EventWorker ==
  \/ IdentifyCompletion \/ IdentifyCompletionFails \/ IdentifyOutput
  \/ DigitalReadCompletion \/ DigitalReadOutput
  \/ ScopeStatusOutput \/ ScopeStatusCompletion \/ ScopeOffsetStart
  \/ Unblock \/ OutputFlush
  \/ ProcessNoLine \/ ProcessEmptyLine \/ ProcessLine

StdinWorker == CliRead \/ CliNoRead

ServerStep ==
  \/ Select \/ Exit \/ EventWorker \/ DeviceWorker \/ StdinWorker
  \/ Handler \/ LineDone

----------------------------------------------------------------------------
(* The client.                                                             *)

(* The answers a line calls for: those of the queries before its first     *)
(* syntax error.                                                           *)
AnswersTo(line) ==
  LET owed[n \in 0..Len(line)] ==      \* by its last n commands
        IF n = 0 \/ line[Len(line) - n + 1] = "bad" THEN << >>
        ELSE AnswerOf[line[Len(line) - n + 1]] \o owed[n - 1]
  IN  owed[Len(line)]

clientFrame == << loopVars, evq, inputVars, blockVars, out, scopeVars,
                  digitalVars, identVars, rcv, deviceVars, received >>

Awaited == Len(received) >= Len(asked)

ClientSends(line) ==
  /\ nsent < MaxLines
  /\ Lockstep => Awaited
  /\ nsent' = nsent + 1
  /\ stdin' = Append(stdin, line)
  /\ asked' = asked \o AnswersTo(line)
  /\ UNCHANGED clientFrame

(* The end of the client's stream is the last thing it sends.              *)
ClientCloses ==
  /\ nsent <= MaxLines
  /\ Lockstep => Awaited
  /\ nsent' = MaxLines + 1
  /\ stdin' = Append(stdin, EndOfFile)
  /\ UNCHANGED << asked, clientFrame >>

Client == ClientCloses \/ \E line \in Lines : ClientSends(line)

DeviceSelf == DeviceTriggered \/ DeviceReportsInput \/ DeviceInterrupts

Next ==
  \/ ServerStep \/ SelectTimeout \/ Stopped
  \/ SigAlrm \/ SigInt
  \/ DeviceAnswers \/ DeviceSelf
  \/ Client

Safe == Init /\ [][Next]_vars

(* The server runs, the device answers, and a timer that runs expires.     *)
(* Nothing obliges the client to send, a signal to come or an input to     *)
(* change.                                                                 *)
Spec == Safe /\ WF_vars(ServerStep) /\ WF_vars(DeviceAnswers) /\ WF_vars(SigAlrm)
=============================================================================
