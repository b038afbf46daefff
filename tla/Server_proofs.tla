---------------------------- MODULE Server_proofs ----------------------------
(***************************************************************************)
(* What is proved of the server, for any client, any number of lines and   *)
(* reports, any trigger source and any signals: the type invariant, that   *)
(* no line is left without its token, that answers have a flush coming,    *)
(* that blocked input has a release coming, and that a record of digital   *)
(* events is never written past its end when no count of 0 is configured.  *)
(***************************************************************************)
EXTENDS ServerProperties, SequenceTheorems, TLAPS

----------------------------------------------------------------------------
(* The types of the server's state, preserved by every action.             *)

(* What is being received is still in the device's pipe, and the line that *)
(* is being processed is still the first of the lines.                     *)
Underway == /\ rcv # "IDLE" => devOut # << >>
            /\ pc = "exec" => lines # << >>

(* The type invariant, action by action.  The sequences are dealt with in  *)
(* the steps before the actions.                                           *)
LEMMA TypeStep == ASSUME TypeOK, Underway, [Next]_vars PROVE TypeOK'
<1>1. /\ evq \in Seq(EventId) /\ out \in Seq(Answer) /\ received \in Seq(Answer)
      /\ devReq \in Seq(Request) /\ devOut \in Seq(Message) /\ prog \in Seq(Command)
      /\ lines \in Seq(Seq(Command)) /\ stdin \in Seq(Seq(Command))
  BY DEF TypeOK
<1>evq. /\ \A s \in Seq(EventId) : evq \o s \in Seq(EventId)
        /\ evq # << >> => \A s \in Seq(EventId) : Tail(evq) \o s \in Seq(EventId)
  BY <1>1
<1>e. /\ << >> \in Seq(EventId)
      /\ \A e \in EventId : << e >> \in Seq(EventId)
      /\ \A e, f \in EventId : << e, f >> \in Seq(EventId)
      /\ \A e, f \in Seq(EventId) : e \o f \in Seq(EventId)
      /\ \A c, s : s \in Seq(EventId) => If(c, s) \in Seq(EventId)
      /\ "IDENTIFY_COMPLETE" \in EventId /\ "IDENTIFY_OUTPUT" \in EventId
      /\ "DIGITAL_READ_COMPLETE" \in EventId /\ "DIGITAL_READ_OUTPUT" \in EventId
      /\ "SCOPE_STATUS_OUTPUT" \in EventId /\ "SCOPE_STATUS_COMPLETE" \in EventId
      /\ "SCOPE_OFFSET_START" \in EventId /\ "UNBLOCK" \in EventId
      /\ "OUTPUT_FLUSH" \in EventId /\ "PROCESS_LINE" \in EventId
  BY DEF EventId, If
<1>out. out \in Seq(Answer) /\ \A a \in Answer : Append(out, a) \in Seq(Answer)
  BY <1>1
<1>a. /\ << >> \in Seq(Answer)
      /\ \A a \in Answer : << a >> \in Seq(Answer)
      /\ \A e, f \in Seq(Answer) : e \o f \in Seq(Answer)
      /\ \A c, s : s \in Seq(Answer) => If(c, s) \in Seq(Answer)
      /\ "IDN" \in Answer /\ "OPC" \in Answer /\ "VERS" \in Answer /\ "DATA" \in Answer
      /\ "STAT" \in Answer /\ "READ" \in Answer /\ "EVEN" \in Answer
  BY DEF Answer, If
<1>devReq. devReq \in Seq(Request) /\ (devReq # << >> => Tail(devReq) \in Seq(Request))
           /\ \A r \in Request : Append(devReq, r) \in Seq(Request)
  BY <1>1
<1>r. /\ << >> \in Seq(Request)
      /\ \A r \in Request : << r >> \in Seq(Request)
      /\ \A e, f \in Seq(Request) : e \o f \in Seq(Request)
      /\ \A c, s : s \in Seq(Request) => If(c, s) \in Seq(Request)
  BY DEF If
<1>rr. /\ "i" \in Request /\ "D I" \in Request /\ "S S" \in Request /\ "S O" \in Request
      /\ "S G" \in Request /\ "S D" \in Request /\ "S B" \in Request /\ "D A" \in Request
      /\ "D !" \in Request
  BY DEF Request
<1>devOut. devOut \in Seq(Message) /\ (devOut # << >> => Tail(devOut) \in Seq(Message))
           /\ \A m \in Message : Append(devOut, m) \in Seq(Message)
  BY <1>1
<1>m. "I" \in Message /\ "A" \in Message /\ "!" \in Message
  BY DEF Message
<1>prog. prog # << >> => Tail(prog) \in Seq(Command)
  BY <1>1
<1>received. received \o out \in Seq(Answer)
  BY <1>1
<1>lines. lines # << >> => /\ Tail(lines) \in Seq(Seq(Command))
                           /\ Head(lines) \in Seq(Command)
  BY <1>1
<1>stdin. /\ \A n \in 1..Len(stdin) : SubSeq(stdin, 1, n) \in Seq(Seq(Command))
          /\ \A n \in 1..Len(stdin) : SubSeq(stdin, n + 1, Len(stdin))
                                         \in Seq(Seq(Command))
          /\ \A line \in Seq(Command) : Append(stdin, line) \in Seq(Seq(Command))
  BY <1>1
<1>c. /\ \A s \in Seq(Command) : prog # << >> => s \o Tail(prog) \in Seq(Command)
      /\ << "ABOR", "INIT", "FETC:DIG:DATA?" >> \in Seq(Command)
      /\ << "CONF:DIG:DATA", "ABOR", "INIT", "FETC:DIG:DATA?" >> \in Seq(Command)
      /\ << "ABOR", "INIT", "FETC:DIG:EVEN?" >> \in Seq(Command)
      /\ << "CONF:DIG:EVEN", "ABOR", "INIT", "FETC:DIG:EVEN?" >> \in Seq(Command)
      /\ EndOfFile \in Seq(Command)
  BY <1>1 DEF Command, EndOfFile
<1> USE DEF At

<1> USE DEF vars, loopVars, inputVars, sleepVars, blockVars, sweepVars, scopeVars,
            digEvVars, digitalVars, identVars, deviceVars, clientVars
<1>Select. CASE Select
  <2>1. ready' \subseteq Worker
    BY <1>Select DEF Select, InSelect, Readable, outsideLoop, TypeOK, Worker
  <2> QED BY <2>1, <1>Select DEF Select, InSelect, Readable, outsideLoop, TypeOK
<1>Exit. CASE Exit
  <2>1. pc' \in { "loop", "exec", "exited", "failed" }
    BY <1>Exit DEF Exit, outsideLoop, TypeOK
  <2> QED BY <2>1, <1>Exit DEF Exit, outsideLoop, TypeOK
<1>IdentifyCompletion. CASE IdentifyCompletion
  <2>1. evq # << >>
    BY <1>IdentifyCompletion DEF IdentifyCompletion, Event
  <2>2. evq' \in Seq(EventId)
    BY Zenon, <1>IdentifyCompletion, <1>evq, <1>e, <2>1 DEF IdentifyCompletion, Then
  <2>3. /\ ready' \subseteq Worker
        /\ identState' \in Phase
    BY <1>IdentifyCompletion DEF IdentifyCompletion, Event, Then, Turn, Return,
       lineState, If, TypeOK, Worker, Phase
  <2> QED BY <2>2, <2>3, <1>IdentifyCompletion DEF IdentifyCompletion, Event, Then,
         Turn, Return, lineState, If, TypeOK
<1>IdentifyOutput. CASE IdentifyOutput
  <2>1. evq # << >>
    BY <1>IdentifyOutput DEF IdentifyOutput, Event
  <2>2. evq' \in Seq(EventId)
    BY Zenon, <1>IdentifyOutput, <1>evq, <1>e, <2>1 DEF IdentifyOutput, Then
  <2>3. devReq' \in Seq(Request)
    BY Zenon, <1>IdentifyOutput, <1>devReq, <1>r, <1>rr DEF IdentifyOutput
  <2>4. out' \in Seq(Answer)
    BY Zenon, <1>IdentifyOutput, <1>out, <1>a DEF IdentifyOutput
  <2>5. ready' \subseteq Worker
    BY <1>IdentifyOutput DEF IdentifyOutput, Event, Then, Turn, Return, lineState,
       If, TypeOK, Worker
  <2> QED BY <2>2, <2>3, <2>4, <2>5, <1>IdentifyOutput DEF IdentifyOutput, Event,
         Then, Turn, Return, lineState, If, TypeOK
<1>DigitalReadCompletion. CASE DigitalReadCompletion
  <2>1. evq # << >>
    BY <1>DigitalReadCompletion DEF DigitalReadCompletion, Event
  <2>2. evq' \in Seq(EventId)
    BY Zenon, <1>DigitalReadCompletion, <1>evq, <1>e, <2>1 DEF DigitalReadCompletion, Then
  <2>3. /\ ready' \subseteq Worker
        /\ digState' \in Phase
    BY <1>DigitalReadCompletion DEF DigitalReadCompletion, Event, Then, Turn, Return,
       lineState, If, TypeOK, Worker, Phase
  <2> QED BY <2>2, <2>3, <1>DigitalReadCompletion DEF DigitalReadCompletion, Event,
         Then, Turn, Return, lineState, If, TypeOK
<1>DigitalReadOutput. CASE DigitalReadOutput
  <2>1. evq # << >>
    BY <1>DigitalReadOutput DEF DigitalReadOutput, Event
  <2>2. evq' \in Seq(EventId)
    BY Zenon, <1>DigitalReadOutput, <1>evq, <1>e, <2>1 DEF DigitalReadOutput, Then
  <2>3. out' \in Seq(Answer)
    BY Zenon, <1>DigitalReadOutput, <1>out, <1>a DEF DigitalReadOutput
  <2>4. ready' \subseteq Worker
    BY <1>DigitalReadOutput DEF DigitalReadOutput, Event, Then, Turn, Return,
       lineState, If, TypeOK, Worker
  <2> QED BY <2>2, <2>3, <2>4, <1>DigitalReadOutput DEF DigitalReadOutput, Event,
         Then, Turn, Return, lineState, If, TypeOK
<1>ScopeStatusOutput. CASE ScopeStatusOutput
  <2>1. evq # << >>
    BY <1>ScopeStatusOutput DEF ScopeStatusOutput, Event
  <2>2. evq' \in Seq(EventId)
    BY Zenon, <1>ScopeStatusOutput, <1>evq, <1>e, <2>1 DEF ScopeStatusOutput, Then
  <2>3. out' \in Seq(Answer)
    BY Zenon, <1>ScopeStatusOutput, <1>out, <1>a DEF ScopeStatusOutput
  <2>4. devReq' \in Seq(Request)
    BY Zenon, <1>ScopeStatusOutput, <1>devReq, <1>r, <1>rr DEF ScopeStatusOutput
  <2>5. /\ ready' \subseteq Worker
        /\ statState' \in Phase
    BY <1>ScopeStatusOutput DEF ScopeStatusOutput, Event, Then, Turn, Return,
       lineState, If, TypeOK, Worker, Phase
  <2>6. UNCHANGED << pc, quit, failed, inputVars, blockVars, sweep, overlapped,
                     enabled, scopePend, addrState, dataState, offset, digitalVars,
                     identVars, rcv, devOut, armed, intArmed, reports, stdin, nsent,
                     received >>
    BY <1>ScopeStatusOutput DEF ScopeStatusOutput, Event, Then, Turn, Return,
       lineState, If
  <2> QED BY <2>2, <2>3, <2>4, <2>5, <2>6 DEF TypeOK
<1>ScopeStatusCompletion. CASE ScopeStatusCompletion
  <2>1. evq # << >>
    BY <1>ScopeStatusCompletion DEF ScopeStatusCompletion, Event
  <2>2. evq' \in Seq(EventId)
    BY Zenon, <1>ScopeStatusCompletion, <1>evq, <1>e, <2>1 DEF ScopeStatusCompletion, Then
  <2>3. ready' \subseteq Worker
    BY <1>ScopeStatusCompletion DEF ScopeStatusCompletion, Event, Then, Turn, Return,
       lineState, If, TypeOK, Worker
  <2> QED BY <2>2, <2>3, <1>ScopeStatusCompletion DEF ScopeStatusCompletion, Event,
         Then, Turn, Return, lineState, If, TypeOK
<1>ScopeOffsetStart. CASE ScopeOffsetStart
  <2>1. evq # << >>
    BY <1>ScopeOffsetStart DEF ScopeOffsetStart, Event
  <2>2. evq' \in Seq(EventId)
    BY Zenon, <1>ScopeOffsetStart, <1>evq, <1>e, <2>1 DEF ScopeOffsetStart, Then
  <2>3. devReq' \in Seq(Request)
    BY Zenon, <1>ScopeOffsetStart, <1>devReq, <1>r, <1>rr DEF ScopeOffsetStart
  <2>4. ready' \subseteq Worker
    BY <1>ScopeOffsetStart DEF ScopeOffsetStart, Event, Then, Turn, Return,
       lineState, If, TypeOK, Worker
  <2>5. UNCHANGED << pc, quit, failed, inputVars, blockVars, out, scopeVars,
                     digitalVars, identVars, rcv, devOut, armed, intArmed, reports,
                     stdin, nsent, received >>
    BY <1>ScopeOffsetStart DEF ScopeOffsetStart, Event, Then, Turn, Return,
       lineState, If
  <2> QED BY <2>2, <2>3, <2>4, <2>5 DEF TypeOK
<1>Unblock. CASE Unblock
  <2>1. evq # << >>
    BY <1>Unblock DEF Unblock, Event
  <2>2. evq' \in Seq(EventId)
    BY Zenon, <1>Unblock, <1>evq, <1>e, <2>1 DEF Unblock, Then
  <2>3. out' \in Seq(Answer)
    BY Zenon, <1>Unblock, <1>out, <1>a DEF Unblock
  <2>4. /\ ready' \subseteq Worker
        /\ blockInput' \in BOOLEAN
        /\ opcq' \in BOOLEAN
    BY <1>Unblock DEF Unblock, Event, Then, Turn, Return, lineState, If, TypeOK,
       Worker
  <2> QED BY <2>2, <2>3, <2>4, <1>Unblock DEF Unblock, Event, Then, Turn, Return,
         lineState, If, TypeOK
<1>OutputFlush. CASE OutputFlush
  <2>1. evq # << >>
    BY <1>OutputFlush DEF OutputFlush, Event
  <2>2. evq' \in Seq(EventId)
    BY Zenon, <1>OutputFlush, <1>evq, <1>e, <2>1 DEF OutputFlush, Then
  <2>3. out' \in Seq(Answer)
    BY Zenon, <1>OutputFlush, <1>out, <1>a DEF OutputFlush
  <2>4. received' \in Seq(Answer)
    BY Zenon, <1>OutputFlush, <1>received DEF OutputFlush
  <2>5. ready' \subseteq Worker
    BY <1>OutputFlush DEF OutputFlush, Event, Then, Turn, Return, lineState, If,
       TypeOK, Worker
  <2> QED BY <2>2, <2>3, <2>4, <2>5, <1>OutputFlush DEF OutputFlush, Event, Then,
         Turn, Return, lineState, If, TypeOK
<1>ProcessNoLine. CASE ProcessNoLine
  <2>1. evq # << >>
    BY <1>ProcessNoLine DEF ProcessNoLine, Event
  <2>2. evq' \in Seq(EventId)
    BY Zenon, <1>ProcessNoLine, <1>evq, <1>e, <2>1 DEF ProcessNoLine, Then
  <2>3. ready' \subseteq Worker
    BY <1>ProcessNoLine DEF ProcessNoLine, Event, Then, Turn, Return, lineState, If,
       TypeOK, Worker
  <2> QED BY <2>2, <2>3, <1>ProcessNoLine DEF ProcessNoLine, Event, Then, Turn,
         Return, lineState, If, TypeOK
<1>IdentifyCompletionFails. CASE IdentifyCompletionFails
  <2>1. /\ pc' \in { "loop", "exec", "exited", "failed" }
        /\ failed' \in Failure
    BY <1>IdentifyCompletionFails DEF IdentifyCompletionFails, Fail, TypeOK, Failure
  <2> QED BY <2>1, <1>IdentifyCompletionFails DEF IdentifyCompletionFails, Fail,
         TypeOK
<1>ProcessEmptyLine. CASE ProcessEmptyLine
  <2>1. evq # << >>
    BY <1>ProcessEmptyLine DEF ProcessEmptyLine, Event
  <2>2. evq' \in Seq(EventId)
    BY Zenon, <1>ProcessEmptyLine, <1>evq, <1>e, <2>1 DEF ProcessEmptyLine, Then, NextLine
  <2>3. lines' \in Seq(Seq(Command))
    BY Zenon, <1>ProcessEmptyLine, <1>lines DEF ProcessEmptyLine
  <2>4. ready' \subseteq Worker
    BY <1>ProcessEmptyLine DEF ProcessEmptyLine, NextLine, Event, Then, Turn, Return,
       lineState, If, TypeOK, Worker
  <2>5. UNCHANGED << pc, quit, failed, prog, sleepVars, blockVars, out, scopeVars,
                     digitalVars, identVars, rcv, deviceVars, stdin, nsent, received >>
    BY <1>ProcessEmptyLine DEF ProcessEmptyLine, NextLine, Event, Then, Turn, Return,
       lineState, If
  <2> QED BY <2>2, <2>3, <2>4, <2>5 DEF TypeOK
<1>ProcessLine. CASE ProcessLine
  <2>1. evq # << >>
    BY <1>ProcessLine DEF ProcessLine, Event
  <2>2. evq' \in Seq(EventId)
    BY Zenon, <1>ProcessLine, <1>evq, <1>e, <2>1 DEF ProcessLine, Then
  <2>3. prog' \in Seq(Command)
    BY Zenon, <1>ProcessLine, <1>lines DEF ProcessLine
  <2>4. out' \in Seq(Answer)
    BY Zenon, <1>ProcessLine, <1>out, <1>a DEF ProcessLine
  <2>5. /\ ready' \subseteq Worker
        /\ pc' \in { "loop", "exec", "exited", "failed" }
    BY <1>ProcessLine DEF ProcessLine, Event, Then, Turn, Return, lineState, If,
       TypeOK, Worker
  <2> QED BY <2>2, <2>3, <2>4, <2>5, <1>ProcessLine DEF ProcessLine, Event, Then,
         Turn, Return, lineState, If, TypeOK
<1>RcvStart. CASE RcvStart
  <2>1. /\ ready' \subseteq Worker
        /\ rcv' \in Message \cup {"IDLE"}
        /\ identState' \in Phase
        /\ digState' \in Phase
        /\ statState' \in Phase
        /\ addrState' \in { "IDLE", "EXPECT", "COMPLETE" }
        /\ dataState' \in { "IDLE", "EXPECT", "COMPLETE" }
    <3>1. Head(devOut) \in Message /\ rcv' = Head(devOut)
      BY <1>RcvStart, <1>1 DEF RcvStart
    <3>2. ready' \subseteq Worker
      BY <1>RcvStart DEF RcvStart, ReturnOrGoOn, Return, TypeOK
    <3> QED BY <1>RcvStart, <3>1, <3>2 DEF RcvStart, TypeOK, Phase
  <2> QED BY <2>1, <1>RcvStart DEF RcvStart, ReturnOrGoOn, Return, Turn, Message,
         TypeOK
<1>RcvIdent. CASE RcvIdent
  <2>1. evq' \in Seq(EventId)
    BY Zenon, <1>RcvIdent, <1>evq, <1>e DEF RcvIdent, Send
  <2>2. devOut' \in Seq(Message)
    BY Zenon, <1>RcvIdent, <1>devOut, <1>m, Underway DEF RcvIdent, Received, Underway
  <2>3. /\ ready' \subseteq Worker
        /\ rcv' \in Message \cup {"IDLE"}
    BY <1>RcvIdent DEF RcvIdent, Received, ReturnOrGoOn, Return, Turn, Send, TypeOK,
       Message, Worker
  <2> QED BY <2>1, <2>2, <2>3, <1>RcvIdent DEF RcvIdent, Received, ReturnOrGoOn,
         Return, Turn, Send, TypeOK
<1>RcvScopeStatus. CASE RcvScopeStatus
  <2>1. evq' \in Seq(EventId)
    BY Zenon, <1>RcvScopeStatus, <1>evq, <1>e DEF RcvScopeStatus, Send
  <2>2. devOut' \in Seq(Message)
    BY Zenon, <1>RcvScopeStatus, <1>devOut, <1>m, Underway DEF RcvScopeStatus, Received,
       Underway
  <2>3. /\ ready' \subseteq Worker
        /\ rcv' \in Message \cup {"IDLE"}
        /\ statState' \in Phase
    BY <1>RcvScopeStatus DEF RcvScopeStatus, Received, ReturnOrGoOn, Return, Turn,
       Send, TypeOK, Message, Worker, Phase
  <2> QED BY <2>1, <2>2, <2>3, <1>RcvScopeStatus DEF RcvScopeStatus, Received,
         ReturnOrGoOn, Return, Turn, Send, TypeOK
<1>RcvScopeOffset. CASE RcvScopeOffset
  <2>1. devOut' \in Seq(Message)
    BY Zenon, <1>RcvScopeOffset, <1>devOut, <1>m, Underway DEF RcvScopeOffset, Received,
       Underway
  <2>2. /\ ready' \subseteq Worker
        /\ rcv' \in Message \cup {"IDLE"}
        /\ offset' \in BOOLEAN
    BY <1>RcvScopeOffset DEF RcvScopeOffset, Received, ReturnOrGoOn, Return, Turn,
       Send, TypeOK, Message, Worker
  <2> QED BY <2>1, <2>2, <1>RcvScopeOffset DEF RcvScopeOffset, Received,
         ReturnOrGoOn, Return, Turn, Send, TypeOK
<1>RcvScopeAddr. CASE RcvScopeAddr
  <2>1. devReq' \in Seq(Request)
    BY Zenon, <1>RcvScopeAddr, <1>devReq, <1>r, <1>rr DEF RcvScopeAddr
  <2>2. devOut' \in Seq(Message)
    BY Zenon, <1>RcvScopeAddr, <1>devOut, <1>m, Underway DEF RcvScopeAddr, Received,
       Underway
  <2>3. /\ ready' \subseteq Worker
        /\ rcv' \in Message \cup {"IDLE"}
        /\ addrState' \in { "IDLE", "EXPECT", "COMPLETE" }
    BY <1>RcvScopeAddr DEF RcvScopeAddr, Received, ReturnOrGoOn, Return, Turn, Send,
       TypeOK, Message, Worker
  <2>4. UNCHANGED << pc, quit, failed, evq, inputVars, blockVars, out, sweep,
                     overlapped, enabled, scopePend, dataState, statState, offset,
                     digitalVars, identVars, armed, intArmed, reports, stdin, nsent,
                     received >>
    BY <1>RcvScopeAddr DEF RcvScopeAddr, Received, ReturnOrGoOn, Return, Turn, Send
  <2> QED BY <2>1, <2>2, <2>3, <2>4 DEF TypeOK
<1>RcvScopeData. CASE RcvScopeData
  <2>1. evq' \in Seq(EventId)
    BY Zenon, <1>RcvScopeData, <1>evq, <1>e DEF RcvScopeData, Send
  <2>2. out' \in Seq(Answer)
    BY Zenon, <1>RcvScopeData, <1>out, <1>a DEF RcvScopeData
  <2>3. devOut' \in Seq(Message)
    BY Zenon, <1>RcvScopeData, <1>devOut, <1>m, Underway DEF RcvScopeData, Received,
       Underway
  <2>4. /\ ready' \subseteq Worker
        /\ rcv' \in Message \cup {"IDLE"}
        /\ scopePend' \in BOOLEAN
        /\ dataState' \in { "IDLE", "EXPECT", "COMPLETE" }
        /\ overlapped' \in BOOLEAN
        /\ sweep' \in BOOLEAN
    BY <1>RcvScopeData DEF RcvScopeData, ScopeDataDone, Received, ReturnOrGoOn,
       Return, Turn, Send, TypeOK, Message, Worker
  <2> QED BY <2>1, <2>2, <2>3, <2>4, <1>RcvScopeData DEF RcvScopeData,
         ScopeDataDone, Received, ReturnOrGoOn, Return, Turn, Send,
         TypeOK
<1>RcvScopeDataFails. CASE RcvScopeDataFails
  <2>1. /\ pc' \in { "loop", "exec", "exited", "failed" }
        /\ failed' \in Failure
    BY <1>RcvScopeDataFails DEF RcvScopeDataFails, Fail, TypeOK, Failure
  <2> QED BY <2>1, <1>RcvScopeDataFails DEF RcvScopeDataFails, Fail, TypeOK
<1>RcvDigitalRead. CASE RcvDigitalRead
  <2>1. evq' \in Seq(EventId)
    BY Zenon, <1>RcvDigitalRead, <1>evq, <1>e DEF RcvDigitalRead, DigitalEvent,
       NoDigitalEvent, Send
  <2>2. out' \in Seq(Answer)
    BY Zenon, <1>RcvDigitalRead, <1>out, <1>a DEF RcvDigitalRead, DigitalEvent,
       NoDigitalEvent
  <2>3. devReq' \in Seq(Request)
    BY Zenon, <1>RcvDigitalRead, <1>devReq, <1>r, <1>rr DEF RcvDigitalRead, DigitalEvent,
       NoDigitalEvent
  <2>4. devOut' \in Seq(Message)
    BY Zenon, <1>RcvDigitalRead, <1>devOut, <1>m, Underway DEF RcvDigitalRead, Received,
       Underway
  <2>5. /\ ready' \subseteq Worker
        /\ rcv' \in Message \cup {"IDLE"}
        /\ evCur' \in Nat
        /\ chanMask' \subseteq {"INT", "DIN"}
        /\ digEv' \in BOOLEAN
    <3>1. ready' \subseteq Worker /\ rcv' \in Message \cup {"IDLE"}
      BY <1>RcvDigitalRead DEF RcvDigitalRead, Received, ReturnOrGoOn, Return, TypeOK
    <3>2. evCur' \in Nat
      <4>1. evCur' = evCur \/ evCur' = evCur + 1
        BY <1>RcvDigitalRead DEF RcvDigitalRead, DigitalEvent, NoDigitalEvent, digEvVars
      <4> QED BY <4>1 DEF TypeOK
    <3>3. chanMask' \subseteq {"INT", "DIN"}
      BY <1>RcvDigitalRead DEF RcvDigitalRead, DigitalEvent, NoDigitalEvent,
         DigitalEventDone, TypeOK
    <3>4. digEv' \in BOOLEAN
      BY <1>RcvDigitalRead DEF RcvDigitalRead, DigitalEvent, NoDigitalEvent,
         DigitalEventDone, TypeOK
    <3> QED BY <3>1, <3>2, <3>3, <3>4
  <2>6. UNCHANGED << pc, quit, failed, inputVars, blockVars, scopeVars, evMax,
                     evPend, digReq, digState, identVars, armed, intArmed, reports,
                     stdin, nsent, received >>
    BY <1>RcvDigitalRead DEF RcvDigitalRead, DigitalEvent, NoDigitalEvent,
       DigitalEventDone, Received, ReturnOrGoOn, Return, Turn, Send
  <2> QED BY <2>1, <2>2, <2>3, <2>4, <2>5, <2>6 DEF TypeOK
<1>RcvInterrupt. CASE RcvInterrupt
  <2>1. evq' \in Seq(EventId)
    BY Zenon, <1>RcvInterrupt, <1>evq, <1>e DEF RcvInterrupt, DigitalEvent,
       NoDigitalEvent,
       Send
  <2>2. out' \in Seq(Answer)
    BY Zenon, <1>RcvInterrupt, <1>out, <1>a DEF RcvInterrupt, DigitalEvent, NoDigitalEvent
  <2>3. devReq' \in Seq(Request)
    BY Zenon, <1>RcvInterrupt, <1>devReq, <1>r, <1>rr DEF RcvInterrupt, DigitalEvent,
       NoDigitalEvent
  <2>4. devOut' \in Seq(Message)
    BY Zenon, <1>RcvInterrupt, <1>devOut, <1>m, Underway DEF RcvInterrupt, Received,
       Underway
  <2>5. /\ ready' \subseteq Worker
        /\ rcv' \in Message \cup {"IDLE"}
        /\ evCur' \in Nat
        /\ chanMask' \subseteq {"INT", "DIN"}
        /\ digEv' \in BOOLEAN
    <3>1. ready' \subseteq Worker /\ rcv' \in Message \cup {"IDLE"}
      BY <1>RcvInterrupt DEF RcvInterrupt, Received, ReturnOrGoOn, Return, TypeOK
    <3>2. evCur' \in Nat
      <4>1. evCur' = evCur \/ evCur' = evCur + 1
        BY <1>RcvInterrupt DEF RcvInterrupt, DigitalEvent, NoDigitalEvent, digEvVars
      <4> QED BY <4>1 DEF TypeOK
    <3>3. chanMask' \subseteq {"INT", "DIN"}
      BY <1>RcvInterrupt DEF RcvInterrupt, DigitalEvent, NoDigitalEvent,
         DigitalEventDone, TypeOK
    <3>4. digEv' \in BOOLEAN
      BY <1>RcvInterrupt DEF RcvInterrupt, DigitalEvent, NoDigitalEvent,
         DigitalEventDone, TypeOK
    <3> QED BY <3>1, <3>2, <3>3, <3>4
  <2>6. UNCHANGED << pc, quit, failed, inputVars, blockVars, scopeVars, evMax,
                     evPend, digReq, digState, identVars, armed, intArmed, reports,
                     stdin, nsent, received >>
    BY <1>RcvInterrupt DEF RcvInterrupt, DigitalEvent, NoDigitalEvent,
       DigitalEventDone, Received, ReturnOrGoOn, Return, Turn, Send
  <2> QED BY <2>1, <2>2, <2>3, <2>4, <2>5, <2>6 DEF TypeOK
<1>RcvDigitalEventFails. CASE RcvDigitalEventFails
  <2>1. /\ pc' \in { "loop", "exec", "exited", "failed" }
        /\ failed' \in Failure
    BY <1>RcvDigitalEventFails DEF RcvDigitalEventFails, Fail, TypeOK, Failure
  <2> QED BY <2>1, <1>RcvDigitalEventFails DEF RcvDigitalEventFails, Fail, TypeOK
<1>CliRead. CASE CliRead
  <2>1. evq' \in Seq(EventId)
    BY Zenon, <1>CliRead, <1>evq, <1>e DEF CliRead, Send
  <2>2. lines' \in Seq(Seq(Command))
    <3>1. PICK n \in 1..Len(stdin) : lines' = SubSeq(stdin, 1, n)
      BY <1>CliRead DEF CliRead
    <3> QED BY <3>1, <1>stdin
  <2>3. stdin' \in Seq(Seq(Command))
    <3>1. PICK n \in 1..Len(stdin) : stdin' = SubSeq(stdin, n + 1, Len(stdin))
      BY <1>CliRead DEF CliRead
    <3> QED BY <3>1, <1>stdin
  <2>4. ready' \subseteq Worker
    BY <1>CliRead DEF CliRead, Turn, Return, Send, stdinFrame, TypeOK, Worker
  <2> QED BY <2>1, <2>2, <2>3, <2>4, <1>CliRead DEF CliRead, Turn, Return, Send,
         stdinFrame, TypeOK
<1>CliNoRead. CASE CliNoRead
  <2>1. ready' \subseteq Worker
    BY <1>CliNoRead DEF CliNoRead, Turn, Return, stdinFrame, TypeOK, Worker
  <2> QED BY <2>1, <1>CliNoRead DEF CliNoRead, Turn, Return, stdinFrame, TypeOK
<1>VersionQ. CASE VersionQ
  <2>1. prog' \in Seq(Command)
    BY Zenon, <1>VersionQ, <1>prog DEF VersionQ, Run, At
  <2>2. out' \in Seq(Answer)
    BY Zenon, <1>VersionQ, <1>out, <1>a DEF VersionQ
  <2> QED BY <2>1, <2>2, <1>VersionQ DEF VersionQ, Run, At, Send, If, TypeOK
<1>Cls. CASE Cls
  <2>1. prog' \in Seq(Command)
    BY Zenon, <1>Cls, <1>prog DEF Cls, Run, At
  <2>2. out' \in Seq(Answer)
    BY Zenon, <1>Cls, <1>out, <1>a DEF Cls
  <2> QED BY <2>1, <2>2, <1>Cls DEF Cls, Run, At, Send, If, TypeOK
<1>Rst. CASE Rst
  <2>1. prog' \in Seq(Command)
    BY Zenon, <1>Rst, <1>prog DEF Rst, Run, At
  <2>2. enabled' \in BOOLEAN
    BY <1>Rst DEF Rst, Run, At, Send, If, TypeOK
  <2> QED BY <2>1, <2>2, <1>Rst DEF Rst, Run, At, Send, If, TypeOK
<1>Wai. CASE Wai
  <2>1. prog' \in Seq(Command)
    BY Zenon, <1>Wai, <1>prog DEF Wai, Run, At
  <2>2. blockInput' \in BOOLEAN
    BY <1>Wai DEF Wai, Run, At, Send, If, TypeOK
  <2> QED BY <2>1, <2>2, <1>Wai DEF Wai, Run, At, Send, If, TypeOK
<1>OpcQ. CASE OpcQ
  <2>1. prog' \in Seq(Command)
    BY Zenon, <1>OpcQ, <1>prog DEF OpcQ, Run, At
  <2>2. out' \in Seq(Answer)
    BY Zenon, <1>OpcQ, <1>out, <1>a DEF OpcQ
  <2>3. /\ blockInput' \in BOOLEAN
        /\ opcq' \in BOOLEAN
    BY <1>OpcQ DEF OpcQ, Run, At, Send, If, TypeOK
  <2> QED BY <2>1, <2>2, <2>3, <1>OpcQ DEF OpcQ, Run, At, Send, If, TypeOK
<1>Sleep. CASE Sleep
  <2>1. prog' \in Seq(Command)
    BY Zenon, <1>Sleep, <1>prog DEF Sleep, Run, At
  <2>2. /\ blockUntil' \in BOOLEAN
        /\ timer' \in Timer
    BY <1>Sleep DEF Sleep, Run, At, Send, If, TypeOK, Timer
  <2> QED BY <2>1, <2>2, <1>Sleep DEF Sleep, Run, At, Send, If, TypeOK
<1>Quit. CASE Quit
  <2>1. prog' \in Seq(Command)
    BY Zenon, <1>Quit, <1>prog DEF Quit, Run, At
  <2>2. quit' \in BOOLEAN
    BY <1>Quit DEF Quit, Run, At, Send, If, TypeOK
  <2> QED BY <2>1, <2>2, <1>Quit DEF Quit, Run, At, Send, If, TypeOK
<1>IdnQ. CASE IdnQ
  <2>1. prog' \in Seq(Command)
    BY Zenon, <1>IdnQ, <1>prog DEF IdnQ, Run, At
  <2>2. evq' \in Seq(EventId)
    BY Zenon, <1>IdnQ, <1>evq, <1>e DEF IdnQ, Send
  <2>3. identReq' \in BOOLEAN
    BY <1>IdnQ DEF IdnQ, Run, At, Send, If, TypeOK
  <2> QED BY <2>1, <2>2, <2>3, <1>IdnQ DEF IdnQ, Run, At, Send, If, TypeOK
<1>ScopeDataQ. CASE ScopeDataQ
  <2>1. prog' \in Seq(Command)
    BY Zenon, <1>ScopeDataQ, <1>prog DEF ScopeDataQ, Run, At
  <2>2. out' \in Seq(Answer)
    BY Zenon, <1>ScopeDataQ, <1>out, <1>a DEF ScopeDataQ
  <2>3. /\ blockInput' \in BOOLEAN
        /\ scopePend' \in BOOLEAN
    BY <1>ScopeDataQ DEF ScopeDataQ, Run, At, Send, If, TypeOK
  <2> QED BY <2>1, <2>2, <2>3, <1>ScopeDataQ DEF ScopeDataQ, Run, At, Send, If,
         TypeOK
<1>ScopeStatusQ. CASE ScopeStatusQ
  <2>1. prog' \in Seq(Command)
    BY Zenon, <1>ScopeStatusQ, <1>prog DEF ScopeStatusQ, Run, At
  <2>2. evq' \in Seq(EventId)
    BY Zenon, <1>ScopeStatusQ, <1>evq, <1>e DEF ScopeStatusQ, Send
  <2> QED BY <2>1, <2>2, <1>ScopeStatusQ DEF ScopeStatusQ, Run, At, Send, If,
         TypeOK
<1>ConfigureDigitalData. CASE ConfigureDigitalData
  <2>1. prog' \in Seq(Command)
    BY Zenon, <1>ConfigureDigitalData, <1>prog DEF ConfigureDigitalData, Run, At
  <2>2. digReq' \in BOOLEAN
    BY <1>ConfigureDigitalData DEF ConfigureDigitalData, Run, At, Send, If, TypeOK
  <2> QED BY <2>1, <2>2, <1>ConfigureDigitalData DEF ConfigureDigitalData, Run, At,
         Send, If, TypeOK
<1>DigitalEventRefused. CASE DigitalEventRefused
  <2>1. prog' \in Seq(Command)
    BY Zenon, <1>DigitalEventRefused, <1>prog DEF DigitalEventRefused, Run, At
  <2> QED BY <2>1, <1>DigitalEventRefused DEF DigitalEventRefused, Run, At, TypeOK
<1>FetchDigitalData. CASE FetchDigitalData
  <2>1. prog' \in Seq(Command)
    BY Zenon, <1>FetchDigitalData, <1>prog DEF FetchDigitalData, Run, At
  <2>2. evq' \in Seq(EventId)
    <3>1. evq' = evq \o << "DIGITAL_READ_OUTPUT" >> \/ evq' = evq \o << >>
      BY Zenon, <1>FetchDigitalData DEF FetchDigitalData, Send, If
    <3> QED BY Zenon, <3>1, <1>evq, <1>e
  <2> QED BY <2>1, <2>2, <1>FetchDigitalData DEF FetchDigitalData, Run, At, Send,
         If, TypeOK
<1>ConfigureDigitalEvent. CASE ConfigureDigitalEvent
  <2>1. prog' \in Seq(Command)
    BY Zenon, <1>ConfigureDigitalEvent, <1>prog DEF ConfigureDigitalEvent, Run, At
  <2>2. /\ evMax' \in Nat
        /\ chanMask' \subseteq {"INT", "DIN"}
        /\ evCur' \in Nat
        /\ evPend' \in BOOLEAN
    BY <1>ConfigureDigitalEvent, ConstantsAssumption DEF ConfigureDigitalEvent, Run,
       At, Send, If, TypeOK
  <2> QED BY <2>1, <2>2, <1>ConfigureDigitalEvent DEF ConfigureDigitalEvent, Run,
         At, Send, If, TypeOK
<1>FetchDigitalEvent. CASE FetchDigitalEvent
  <2>1. prog' \in Seq(Command)
    BY Zenon, <1>FetchDigitalEvent, <1>prog DEF FetchDigitalEvent, Run, At
  <2>2. out' \in Seq(Answer)
    BY Zenon, <1>FetchDigitalEvent, <1>out, <1>a DEF FetchDigitalEvent
  <2>3. /\ blockInput' \in BOOLEAN
        /\ evPend' \in BOOLEAN
    BY <1>FetchDigitalEvent DEF FetchDigitalEvent, Run, At, Send, If, TypeOK
  <2> QED BY <2>1, <2>2, <2>3, <1>FetchDigitalEvent DEF FetchDigitalEvent, Run, At,
         Send, If, TypeOK
<1>SyntaxError. CASE SyntaxError
  <2>1. prog' \in Seq(Command)
    BY <1>SyntaxError DEF SyntaxError
  <2> QED BY <2>1, <1>SyntaxError DEF SyntaxError, At, TypeOK
<1>ChannelState. CASE ChannelState
  <2>1. prog' \in Seq(Command)
    BY Zenon, <1>ChannelState, <1>prog DEF ChannelState, Enable, Run, At
  <2>2. enabled' \in BOOLEAN
    BY <1>ChannelState DEF ChannelState, Enable, Run, At, Send, If, TypeOK
  <2>3. UNCHANGED << loopVars, evq, lines, sleepVars, blockVars, out, sweep,
                     overlapped, scopePend, addrState, dataState, statState, offset,
                     digitalVars, identVars, rcv, deviceVars, stdin, nsent, received >>
    BY <1>ChannelState DEF ChannelState, Enable, Run, At, Send, If
  <2> QED BY <2>1, <2>2, <2>3 DEF TypeOK
<1>Initiate. CASE Initiate
  <2>1. prog' \in Seq(Command)
    BY Zenon, <1>Initiate, <1>prog DEF Initiate, Run, At
  <2>2. devReq' \in Seq(Request)
    BY Zenon, <1>Initiate, <1>devReq, <1>r, <1>rr DEF Initiate, DigitizerStart
  <2>3. /\ sweep' \in BOOLEAN
        /\ overlapped' \in BOOLEAN
        /\ digEv' \in BOOLEAN
    BY <1>Initiate DEF Initiate, DigitizerStart, Run, At, Send, If, TypeOK
  <2>4. UNCHANGED << loopVars, evq, lines, sleepVars, blockVars, out, enabled,
                     scopePend, addrState, dataState, statState, offset, chanMask,
                     evCur, evMax, evPend, digReq, digState, identVars, rcv, devOut,
                     armed, intArmed, reports, stdin, nsent, received >>
    BY <1>Initiate DEF Initiate, DigitizerStart, Run, At, Send, If
  <2> QED BY <2>1, <2>2, <2>3, <2>4 DEF TypeOK
<1>InitiateImmediate. CASE InitiateImmediate
  <2>1. prog' \in Seq(Command)
    BY Zenon, <1>InitiateImmediate, <1>prog DEF InitiateImmediate, Run, At
  <2>2. devReq' \in Seq(Request)
    BY Zenon, <1>InitiateImmediate, <1>devReq, <1>r, <1>rr DEF InitiateImmediate,
       DigitizerStart
  <2>3. /\ sweep' \in BOOLEAN
        /\ overlapped' \in BOOLEAN
    BY <1>InitiateImmediate DEF InitiateImmediate, DigitizerStart, Run, At, Send, If,
       TypeOK
  <2>4. UNCHANGED << loopVars, evq, lines, sleepVars, blockVars, out, enabled,
                     scopePend, addrState, dataState, statState, offset, digitalVars,
                     identVars, rcv, devOut, armed, intArmed, reports, stdin, nsent,
                     received >>
    BY <1>InitiateImmediate DEF InitiateImmediate, DigitizerStart, Run, At, Send, If
  <2> QED BY <2>1, <2>2, <2>3, <2>4 DEF TypeOK
<1>Abort. CASE Abort
  <2>1. prog' \in Seq(Command)
    BY Zenon, <1>Abort, <1>prog DEF Abort, Run, At
  <2>2. evq' \in Seq(EventId)
    BY Zenon, <1>Abort, <1>evq, <1>e DEF Abort, Send
  <2>3. /\ dataState' \in { "IDLE", "EXPECT", "COMPLETE" }
        /\ overlapped' \in BOOLEAN
        /\ sweep' \in BOOLEAN
        /\ chanMask' \subseteq {"INT", "DIN"}
        /\ digEv' \in BOOLEAN
    BY <1>Abort DEF Abort, ScopeDataDone, DigitalEventDone, Run, At, Send, If, TypeOK
  <2> QED BY <2>1, <2>2, <2>3, <1>Abort DEF Abort, ScopeDataDone, DigitalEventDone,
         Run, At, Send, If, TypeOK
<1>SleepFails. CASE SleepFails
  <2>1. /\ pc' \in { "loop", "exec", "exited", "failed" }
        /\ failed' \in Failure
    BY <1>SleepFails DEF SleepFails, At, Fail, TypeOK, Failure
  <2> QED BY <2>1, <1>SleepFails DEF SleepFails, At, Fail, TypeOK
<1>AbortFails. CASE AbortFails
  <2>1. /\ pc' \in { "loop", "exec", "exited", "failed" }
        /\ failed' \in Failure
    BY <1>AbortFails DEF AbortFails, At, Fail, TypeOK, Failure
  <2> QED BY <2>1, <1>AbortFails DEF AbortFails, At, Fail, TypeOK
<1>ScopeDataQFails. CASE ScopeDataQFails
  <2>1. /\ pc' \in { "loop", "exec", "exited", "failed" }
        /\ failed' \in Failure
    BY <1>ScopeDataQFails DEF ScopeDataQFails, At, Fail, TypeOK, Failure
  <2> QED BY <2>1, <1>ScopeDataQFails DEF ScopeDataQFails, At, Fail, TypeOK
<1>ConfigureDigitalEventFails. CASE ConfigureDigitalEventFails
  <2>1. /\ pc' \in { "loop", "exec", "exited", "failed" }
        /\ failed' \in Failure
    BY <1>ConfigureDigitalEventFails
    DEF ConfigureDigitalEventFails, At, Fail, TypeOK, Failure
  <2> QED
    BY <2>1, <1>ConfigureDigitalEventFails
    DEF ConfigureDigitalEventFails, At, Fail, TypeOK
<1>ReadOrMeasure. CASE ReadOrMeasure
  <2>1. prog' \in Seq(Command)
    BY <1>ReadOrMeasure, <1>prog, <1>c DEF ReadOrMeasure, Expand
  <2>2. UNCHANGED << loopVars, evq, lines, sleepVars, blockVars, out, scopeVars,
                     digitalVars, identVars, rcv, deviceVars, stdin, nsent, received >>
    BY <1>ReadOrMeasure DEF ReadOrMeasure, Expand, At
  <2> QED BY <2>1, <2>2 DEF TypeOK
<1>LineDone. CASE LineDone
  <2>1. evq' \in Seq(EventId)
    BY Zenon, <1>LineDone, <1>evq, <1>e DEF LineDone, NextLine, Send
  <2>2. lines' \in Seq(Seq(Command))
    <3>1. lines' = lines \/ lines' = Tail(lines)
      BY <1>LineDone DEF LineDone
    <3> QED BY <3>1, <1>LineDone, <1>1, <1>lines, Underway DEF LineDone, Underway
  <2>3. pc' \in { "loop", "exec", "exited", "failed" }
    BY <1>LineDone DEF LineDone, NextLine, Send, If, TypeOK
  <2> QED BY <2>1, <2>2, <2>3, <1>LineDone DEF LineDone, NextLine, Send, If, TypeOK
<1>SelectTimeout. CASE SelectTimeout
  BY <1>SelectTimeout DEF SelectTimeout, TypeOK, vars, loopVars, inputVars,
     sleepVars, blockVars, sweepVars, scopeVars, digEvVars, digitalVars, identVars,
     deviceVars, clientVars
<1>Stopped. CASE Stopped
  BY <1>Stopped DEF Stopped, TypeOK, vars, loopVars, inputVars, sleepVars,
     blockVars, sweepVars, scopeVars, digEvVars, digitalVars, identVars, deviceVars,
     clientVars
<1>SigAlrm. CASE SigAlrm
  <2>1. /\ ready' \subseteq Worker
        /\ timer' \in Timer
        /\ blockUntil' \in BOOLEAN
    BY <1>SigAlrm DEF SigAlrm, Interrupted, InSelect, TypeOK, Worker, Timer
  <2> QED BY <2>1, <1>SigAlrm DEF SigAlrm, Interrupted, InSelect, TypeOK
<1>SigInt. CASE SigInt
  <2>1. /\ ready' \subseteq Worker
        /\ quit' \in BOOLEAN
    BY <1>SigInt DEF SigInt, Interrupted, InSelect, outsideLoop, TypeOK, Worker
  <2> QED BY <2>1, <1>SigInt DEF SigInt, Interrupted, InSelect, outsideLoop, TypeOK
<1>DeviceAnswers. CASE DeviceAnswers
  <2>1. devReq' \in Seq(Request)
    BY Zenon, <1>DeviceAnswers, <1>devReq, <1>r, <1>rr DEF DeviceAnswers
  <2>2. devOut' \in Seq(Message)
    BY Zenon, <1>DeviceAnswers, <1>devOut, <1>m DEF DeviceAnswers
  <2>3. /\ armed' \in BOOLEAN
        /\ intArmed' \in BOOLEAN
    BY <1>DeviceAnswers DEF DeviceAnswers, serverSide, TypeOK
  <2>4. UNCHANGED << loopVars, evq, inputVars, blockVars, out, scopeVars,
                     digitalVars, identVars, rcv, reports, stdin, nsent, received >>
    BY <1>DeviceAnswers DEF DeviceAnswers, serverSide
  <2> QED BY <2>1, <2>2, <2>3, <2>4 DEF TypeOK
<1>DeviceTriggered. CASE DeviceTriggered
  <2>1. devOut' \in Seq(Message)
    BY Zenon, <1>DeviceTriggered, <1>devOut, <1>m DEF DeviceTriggered
  <2>2. armed' \in BOOLEAN
    BY <1>DeviceTriggered DEF DeviceTriggered, serverSide, TypeOK
  <2> QED BY <2>1, <2>2, <1>DeviceTriggered DEF DeviceTriggered, serverSide, TypeOK
<1>DeviceReportsInput. CASE DeviceReportsInput
  <2>1. devOut' \in Seq(Message)
    BY Zenon, <1>DeviceReportsInput, <1>devOut, <1>m DEF DeviceReportsInput
  <2>2. reports' \in Nat
    BY <1>DeviceReportsInput DEF DeviceReportsInput, serverSide, TypeOK
  <2> QED BY <2>1, <2>2, <1>DeviceReportsInput DEF DeviceReportsInput, serverSide,
         TypeOK
<1>DeviceInterrupts. CASE DeviceInterrupts
  <2>1. devOut' \in Seq(Message)
    BY Zenon, <1>DeviceInterrupts, <1>devOut, <1>m DEF DeviceInterrupts
  <2>2. /\ intArmed' \in BOOLEAN
        /\ reports' \in Nat
    <3>1. intArmed' \in BOOLEAN
      BY <1>DeviceInterrupts DEF DeviceInterrupts
    <3>2. reports' \in Nat
      BY <1>DeviceInterrupts DEF DeviceInterrupts, TypeOK
    <3> QED BY <3>1, <3>2
  <2> QED BY <2>1, <2>2, <1>DeviceInterrupts DEF DeviceInterrupts, serverSide,
         TypeOK
<1>ClientCloses. CASE ClientCloses
  <2>1. stdin' \in Seq(Seq(Command))
    BY <1>ClientCloses, <1>stdin, <1>c DEF ClientCloses
  <2>2. nsent' \in Nat
    BY <1>ClientCloses, ConstantsAssumption DEF ClientCloses, clientFrame, EndOfFile,
       TypeOK
  <2> QED BY <2>1, <2>2, <1>ClientCloses DEF ClientCloses, clientFrame, EndOfFile,
         TypeOK
<1>ClientSends. ASSUME NEW line \in Lines, ClientSends(line) PROVE TypeOK'
  <2>1. stdin' \in Seq(Seq(Command))
    <3>1. line \in Seq(Command)
      BY ConstantsAssumption, SeqMonotonic
    <3> QED BY Zenon, <3>1, <1>ClientSends, <1>stdin DEF ClientSends
  <2>2. nsent' \in Nat
    BY <1>ClientSends DEF ClientSends, TypeOK
  <2> QED BY <2>1, <2>2, <1>ClientSends DEF ClientSends, clientFrame, TypeOK
<1>stutter. CASE UNCHANGED vars
  BY <1>stutter DEF TypeOK, vars, loopVars, inputVars, sleepVars, blockVars,
     sweepVars, scopeVars,
              digEvVars, digitalVars, identVars, deviceVars, clientVars
<1> QED
  BY <1>Select, <1>Exit, <1>IdentifyCompletion, <1>IdentifyOutput,
     <1>DigitalReadCompletion, <1>DigitalReadOutput, <1>ScopeStatusOutput,
     <1>ScopeStatusCompletion, <1>ScopeOffsetStart, <1>Unblock,
     <1>OutputFlush, <1>ProcessNoLine, <1>IdentifyCompletionFails,
     <1>ProcessEmptyLine, <1>ProcessLine, <1>RcvStart, <1>RcvIdent,
     <1>RcvScopeStatus, <1>RcvScopeOffset, <1>RcvScopeAddr, <1>RcvScopeData,
     <1>RcvScopeDataFails, <1>RcvDigitalRead, <1>RcvInterrupt,
     <1>RcvDigitalEventFails, <1>CliRead, <1>CliNoRead, <1>VersionQ, <1>DigitalEventRefused, <1>Cls,
     <1>Rst, <1>Wai, <1>OpcQ, <1>Sleep, <1>Quit, <1>IdnQ, <1>ScopeDataQ,
     <1>ScopeStatusQ, <1>ConfigureDigitalData, <1>FetchDigitalData,
     <1>ConfigureDigitalEvent, <1>FetchDigitalEvent, <1>SyntaxError,
     <1>ChannelState, <1>Initiate, <1>InitiateImmediate, <1>Abort,
     <1>SleepFails, <1>AbortFails, <1>ScopeDataQFails,
     <1>ConfigureDigitalEventFails, <1>ReadOrMeasure,
     <1>LineDone, <1>SelectTimeout, <1>Stopped, <1>SigAlrm, <1>SigInt,
     <1>DeviceAnswers, <1>DeviceTriggered, <1>DeviceReportsInput,
     <1>DeviceInterrupts, <1>ClientCloses,
     <1>ClientSends, <1>stutter
  DEF Next, ServerStep, EventWorker, DeviceWorker, StdinWorker, Handler, DeviceSelf,
     Client

----------------------------------------------------------------------------
(* Two kinds of steps.                                                     *)

(* The event handlers that have nothing to do with the client's lines.     *)
PlainEvent ==
  \/ IdentifyCompletion \/ IdentifyOutput \/ DigitalReadCompletion
  \/ DigitalReadOutput \/ ScopeStatusOutput \/ ScopeStatusCompletion
  \/ ScopeOffsetStart \/ Unblock \/ OutputFlush
(* The steps that leave the pipe, the lines and the operations alone.      *)
Other ==
  \/ Select \/ Exit \/ SelectTimeout \/ Stopped \/ SigAlrm \/ SigInt
  \/ IdentifyCompletionFails \/ CliNoRead
  \/ DeviceAnswers \/ DeviceSelf \/ Client \/ UNCHANGED vars

----------------------------------------------------------------------------
(* The event pipe.  A token stays in it until it is the one that is read.  *)
LEMMA Kept ==
  ASSUME NEW e, NEW s \in Seq(EventId), evq \in Seq(EventId), evq' \in Seq(EventId), Queued(e),
         \/ evq' = evq \o s
         \/ evq # << >> /\ Head(evq) # e /\ evq' = Tail(evq) \o s
  PROVE  Queued(e)'
<1>1. PICK i \in 1..Len(evq) : evq[i] = e
  BY DEF Queued
<1>2. CASE evq' = evq \o s
  <2>1. i \in 1..Len(evq') /\ evq'[i] = e
    BY <1>1, <1>2
  <2> QED BY <2>1 DEF Queued
<1>3. CASE evq # << >> /\ Head(evq) # e /\ evq' = Tail(evq) \o s
  <2>1. i # 1
    BY <1>1, <1>3
  <2>2. i - 1 \in 1..Len(evq') /\ evq'[i - 1] = e
    BY <1>1, <1>3, <2>1
  <2> QED BY <2>2 DEF Queued
<1> QED BY <1>2, <1>3

(* The token is one of those that are sent.                                *)
Has(s, e) == \E i \in 1..Len(s) : s[i] = e

(* A token that is sent is in the pipe.                                    *)
LEMMA Put ==
  ASSUME NEW p \in Seq(EventId), NEW s \in Seq(EventId), NEW e, Has(s, e), evq' = p \o s
  PROVE  Queued(e)'
<1>1. PICK i \in 1..Len(s) : s[i] = e
  BY DEF Has
<1>2. Len(p) + i \in 1..Len(evq') /\ evq'[Len(p) + i] = e
  BY <1>1
<1> QED BY <1>2 DEF Queued

(* The tokens that matter below.                                           *)
LEMMA Tokens ==
  /\ << "PROCESS_LINE" >> \in Seq(EventId)
  /\ Has(<< "PROCESS_LINE" >>, "PROCESS_LINE")
  /\ << "OUTPUT_FLUSH" >> \in Seq(EventId)
  /\ Has(<< "OUTPUT_FLUSH" >>, "OUTPUT_FLUSH")
  /\ << "OUTPUT_FLUSH", "PROCESS_LINE" >> \in Seq(EventId)
  /\ Has(<< "OUTPUT_FLUSH", "PROCESS_LINE" >>, "PROCESS_LINE")
  /\ Has(<< "OUTPUT_FLUSH", "PROCESS_LINE" >>, "OUTPUT_FLUSH")
  /\ << "UNBLOCK" >> \in Seq(EventId) /\ Has(<< "UNBLOCK" >>, "UNBLOCK")
  /\ << "UNBLOCK", "UNBLOCK" >> \in Seq(EventId)
  /\ Has(<< "UNBLOCK", "UNBLOCK" >>, "UNBLOCK")
  /\ << "UNBLOCK", "DIGITAL_READ_COMPLETE" >> \in Seq(EventId)
  /\ Has(<< "UNBLOCK", "DIGITAL_READ_COMPLETE" >>, "UNBLOCK")
  /\ << >> \in Seq(EventId)
<1>1. /\ \A e : Has(<< e >>, e)
      /\ \A e, f : Has(<< e, f >>, e) /\ Has(<< e, f >>, f)
  BY DEF Has
<1>2. /\ << "PROCESS_LINE" >> \in Seq(EventId) /\ << "OUTPUT_FLUSH" >> \in Seq(EventId)
      /\ << "OUTPUT_FLUSH", "PROCESS_LINE" >> \in Seq(EventId)
      /\ << "UNBLOCK" >> \in Seq(EventId) /\ << "UNBLOCK", "UNBLOCK" >> \in Seq(EventId)
      /\ << "UNBLOCK", "DIGITAL_READ_COMPLETE" >> \in Seq(EventId)
      /\ << >> \in Seq(EventId)
  BY DEF EventId
<1> QED BY <1>1, <1>2

----------------------------------------------------------------------------
(* What each kind of step changes.  A handler runs in the line's turn and  *)
(* leaves the lines and the receiver alone; the end of the stream sets     *)
(* quit.                                                                   *)
LEMMA HandlerFrame ==
  ASSUME Handler
  PROVE  /\ pc = "exec" /\ pc' \in { "exec", "failed" } /\ prog # << >>
         /\ UNCHANGED << ready, lines, rcv, devOut, armed, intArmed, reports,
                         clientVars >>
         /\ Head(prog) = "EOF" => quit'
         /\ quit => quit'
<1>1. ASSUME NEW c, Run(c)
      PROVE  /\ pc = "exec" /\ pc' = "exec" /\ prog # << >> /\ c = Head(prog)
             /\ UNCHANGED << ready, lines, rcv, devOut, armed, intArmed, reports,
                             clientVars >>
  BY <1>1 DEF Run, At
<1>2. ASSUME NEW c, NEW w, At(c), Fail(w)
      PROVE  /\ pc = "exec" /\ pc' = "failed" /\ prog # << >> /\ c = Head(prog)
             /\ UNCHANGED << ready, lines, rcv, devOut, armed, intArmed, reports,
                             clientVars >> /\ UNCHANGED quit
  BY <1>2 DEF Fail, At, inputVars, deviceVars
<1>3. CASE VersionQ \/ DigitalEventRefused \/ Cls \/ Rst \/ Wai \/ OpcQ \/ Sleep
  BY <1>3, <1>1 DEF VersionQ, DigitalEventRefused, Cls, Rst, Wai, OpcQ, Sleep
<1>4. CASE Quit
  BY <1>4, <1>1 DEF Quit
<1>5. CASE IdnQ \/ ChannelState
  <2>1. (Run("*IDN?") \/ Run("SENS:FUNC:ON") \/ Run("SENS:FUNC:OFF")) /\ UNCHANGED quit
    BY <1>5, Zenon DEF IdnQ, ChannelState, Enable
  <2> QED BY <2>1, <1>1
<1>9. CASE Initiate
  <2>1. Run("INIT") /\ UNCHANGED quit
    BY <1>9 DEF Initiate
  <2> QED BY <2>1, <1>1
<1>10. CASE InitiateImmediate
  <2>1. Run("INIT:IMM") /\ UNCHANGED quit
    BY <1>10 DEF InitiateImmediate
  <2> QED BY <2>1, <1>1
<1>11. CASE Abort
  BY <1>11, <1>1 DEF Abort
<1>6. CASE ScopeDataQ \/ ScopeStatusQ \/ ConfigureDigitalData \/ FetchDigitalData
           \/ ConfigureDigitalEvent \/ FetchDigitalEvent
  BY <1>6, <1>1 DEF ScopeDataQ, ScopeStatusQ, ConfigureDigitalData, FetchDigitalData,
     ConfigureDigitalEvent, FetchDigitalEvent
<1>7. CASE SyntaxError \/ ReadOrMeasure
  BY <1>7 DEF SyntaxError, ReadOrMeasure, Expand, At, loopVars, deviceVars
<1>8. CASE \/ SleepFails \/ AbortFails \/ ScopeDataQFails
           \/ ConfigureDigitalEventFails
  BY <1>8, <1>2 DEF SleepFails, AbortFails, ScopeDataQFails, ConfigureDigitalEventFails
<1> QED BY <1>3, <1>4, <1>5, <1>6, <1>7, <1>8, <1>9, <1>10, <1>11 DEF Handler

(* An event handler runs in the loop, for the first token of the pipe.     *)
LEMMA EventFrame ==
  ASSUME NEW e, Event(e)
  PROVE  /\ pc = "loop" /\ evq # << >> /\ Head(evq) = e
         /\ UNCHANGED << quit, blockUntil, timer, rcv, devOut, armed, intArmed,
                         reports, stdin, nsent, asked >>
BY DEF Event, Turn, sleepVars

(* A plain handler takes that token and sends others.                      *)
LEMMA PlainEventFrame ==
  ASSUME PlainEvent
  PROVE  /\ pc = "loop" /\ evq # << >> /\ Head(evq) # "PROCESS_LINE"
         /\ UNCHANGED << pc, quit, lines, prog, rcv, devOut, blockUntil, timer >>
         /\ \E s \in Seq(EventId) : evq' = Tail(evq) \o s
<1> USE DEF PlainEvent
<1>1. PICK e \in EventId : e # "PROCESS_LINE" /\ Event(e)
  BY DEF IdentifyCompletion, IdentifyOutput, DigitalReadCompletion, DigitalReadOutput,
         ScopeStatusOutput, ScopeStatusCompletion, ScopeOffsetStart, Unblock,
         OutputFlush, EventId
<1>2. UNCHANGED << pc, lines, prog >>
  BY DEF IdentifyCompletion, IdentifyOutput, DigitalReadCompletion, DigitalReadOutput,
         ScopeStatusOutput, ScopeStatusCompletion, ScopeOffsetStart, Unblock,
         OutputFlush, lineState
<1>3. \E s \in Seq(EventId) : evq' = Tail(evq) \o s
  <2>1. \A c, s : s \in Seq(EventId) => If(c, s) \in Seq(EventId)
    BY DEF If
  <2>2. /\ << >> \in Seq(EventId) /\ << "IDENTIFY_OUTPUT" >> \in Seq(EventId)
        /\ << "DIGITAL_READ_OUTPUT" >> \in Seq(EventId)
        /\ << "OUTPUT_FLUSH" >> \in Seq(EventId)
        /\ << "SCOPE_STATUS_OUTPUT" >> \in Seq(EventId)
        /\ << "OUTPUT_FLUSH", "PROCESS_LINE" >> \in Seq(EventId)
    BY DEF EventId
  <2> QED
    BY Zenon, <2>1, <2>2
    DEF IdentifyCompletion, IdentifyOutput, DigitalReadCompletion, DigitalReadOutput,
        ScopeStatusOutput, ScopeStatusCompletion, ScopeOffsetStart, Unblock,
        OutputFlush, Then
<1> QED BY <1>1, <1>2, <1>3, EventFrame

(* The receiver sends tokens, and begins or ends the receiving of a        *)
(* message.                                                                *)
LEMMA DeviceFrame ==
  ASSUME DeviceWorker
  PROVE  /\ pc = "loop" /\ pc' \in { "loop", "failed" }
         /\ UNCHANGED << quit, lines, prog, blockUntil, timer, blockInput, opcq >>
         /\ evq' = evq \/ \E s \in Seq(EventId) : evq' = evq \o s
         /\ \/ UNCHANGED << rcv, devOut >>
            \/ rcv' # "IDLE" /\ devOut' = devOut /\ devOut # << >>
            \/ rcv' = "IDLE"
<1> USE DEF inputVars, blockVars, deviceVars
<1>1. /\ \A e \in EventId : << e >> \in Seq(EventId)
      /\ << >> \in Seq(EventId)
      /\ \A s, t \in Seq(EventId) : s \o t \in Seq(EventId)
      /\ "IDENTIFY_COMPLETE" \in EventId /\ "SCOPE_STATUS_COMPLETE" \in EventId
      /\ "UNBLOCK" \in EventId /\ "DIGITAL_READ_COMPLETE" \in EventId
  BY DEF EventId
<1>2. CASE RcvStart
  BY <1>2 DEF RcvStart, Turn
<1>3. ASSUME NEW m, Received(m)
      PROVE  /\ pc = "loop" /\ pc' = "loop" /\ rcv' = "IDLE"
             /\ UNCHANGED << quit, lines, prog, blockUntil, timer, blockInput, opcq >>
  BY <1>3 DEF Received, Turn
<1>4. CASE RcvIdent \/ RcvScopeStatus \/ RcvScopeOffset
  BY <1>1, <1>3, <1>4 DEF RcvIdent, RcvScopeStatus, RcvScopeOffset, Send
<1>5. CASE RcvScopeAddr \/ RcvScopeData
  BY <1>1, <1>3, <1>5 DEF RcvScopeAddr, RcvScopeData, Send
<1>6. CASE RcvDigitalRead
  BY <1>1, <1>3, <1>6 DEF RcvDigitalRead, DigitalEvent, NoDigitalEvent, Send
<1>7. CASE RcvInterrupt
  BY <1>1, <1>3, <1>7 DEF RcvInterrupt, DigitalEvent, NoDigitalEvent, Send
<1>8. CASE RcvScopeDataFails \/ RcvDigitalEventFails
  BY <1>8 DEF RcvScopeDataFails, RcvDigitalEventFails, Fail, Turn
<1> QED BY <1>2, <1>4, <1>5, <1>6, <1>7, <1>8 DEF DeviceWorker

(* The other steps change at most pc, quit, the timer and the device's     *)
(* side.                                                                   *)
LEMMA OtherFrame ==
  ASSUME Other
  PROVE  /\ UNCHANGED << evq, lines, prog, rcv, blockInput, opcq, out, received,
                         scopeVars, digitalVars >>
         /\ quit => quit'
         /\ pc' = pc \/ pc' = "failed" \/ (pc = "loop" /\ pc' = "exited")
         /\ devOut' = devOut \/ \E m \in Message : devOut' = Append(devOut, m)
         /\ UNCHANGED << blockUntil, timer >> \/ ~blockUntil'
<1> USE DEF vars, loopVars, inputVars, sleepVars, blockVars, deviceVars, clientVars, identVars
<1> USE DEF Other
<1>1. CASE Select \/ Exit \/ SelectTimeout \/ Stopped
  BY <1>1 DEF Select, Exit, SelectTimeout, Stopped, outsideLoop
<1>2. CASE SigAlrm
  BY <1>2 DEF SigAlrm
<1>3. CASE SigInt
  BY <1>3 DEF SigInt, outsideLoop
<1>4. CASE IdentifyCompletionFails \/ CliNoRead
  BY <1>4 DEF IdentifyCompletionFails, Fail, CliNoRead, stdinFrame
<1>5. CASE DeviceAnswers
  BY <1>5 DEF DeviceAnswers, serverSide
<1>6. CASE DeviceSelf
  <2>1. "I" \in Message /\ "A" \in Message /\ "!" \in Message
    BY DEF Message
  <2> QED
    BY <1>6, <2>1
    DEF DeviceSelf, DeviceTriggered, DeviceReportsInput, DeviceInterrupts, serverSide
<1>7. CASE Client
  BY <1>7 DEF Client, ClientCloses, ClientSends, clientFrame
<1>8. CASE UNCHANGED vars
  BY <1>8
<1> QED BY <1>1, <1>2, <1>3, <1>4, <1>5, <1>6, <1>7, <1>8

(* Every step is of one of these kinds.                                    *)
LEMMA Cases ==
  ASSUME [Next]_vars
  PROVE  \/ Handler \/ LineDone \/ DeviceWorker
         \/ ProcessNoLine \/ ProcessEmptyLine \/ ProcessLine \/ CliRead
         \/ PlainEvent \/ Other
BY DEF Next, ServerStep, EventWorker, StdinWorker, PlainEvent, Other

----------------------------------------------------------------------------
(* The message and the line that are underway stay where they are.         *)
LEMMA UnderwayStep ==
  ASSUME TypeOK, Underway, [Next]_vars PROVE Underway'
<1>1. devOut \in Seq(Message)
  BY DEF TypeOK
<1>2. CASE Handler
  BY <1>2, HandlerFrame DEF Underway
<1>3. CASE LineDone
  BY <1>3 DEF LineDone, Underway, deviceVars
<1>4. CASE DeviceWorker
  BY <1>4, DeviceFrame DEF Underway
<1>5. CASE ProcessNoLine \/ ProcessEmptyLine
  BY <1>5, EventFrame DEF ProcessNoLine, ProcessEmptyLine, lineState, Underway
<1>6. CASE ProcessLine
  BY <1>6, EventFrame DEF ProcessLine, Underway
<1>7. CASE CliRead
  BY <1>7 DEF CliRead, Turn, stdinFrame, deviceVars, Underway
<1>8. ASSUME PlainEvent PROVE Underway'
  BY <1>8, PlainEventFrame DEF Underway
<1>9. ASSUME Other PROVE Underway'
  <2>1. ASSUME NEW m \in Message PROVE Append(devOut, m) # << >>
    BY <1>1, AppendProperties, EmptySeq
  <2>2. devOut # << >> => devOut' # << >>
    BY <1>9, OtherFrame, <2>1
  <2> QED BY <1>9, <2>2, OtherFrame DEF Underway
<1> QED BY <1>2, <1>3, <1>4, <1>5, <1>6, <1>7, <1>8, <1>9, Cases

(* The line that is the end of the client's stream sets quit: the line     *)
(* stays there when it is done, but the loop is left.                      *)
AtEnd == pc = "exec" /\ Head(lines) = EndOfFile => quit \/ prog = EndOfFile

(* A line that waits has its token, and the end of the stream ends the     *)
(* loop.                                                                   *)
LEMMA LineStep ==
  ASSUME TypeOK, TypeOK', Underway, NoLostLine, AtEnd, [Next]_vars
  PROVE  NoLostLine' /\ AtEnd'
<1>1. evq \in Seq(EventId) /\ evq' \in Seq(EventId) /\ lines \in Seq(Seq(Command))
  BY DEF TypeOK
<1>3. CASE Handler
  <2>1. Head(EndOfFile) = "EOF"
    BY DEF EndOfFile
  <2> QED BY <1>3, <2>1, HandlerFrame DEF NoLostLine, AtEnd
<1>4. CASE LineDone
  <2>1. pc' = "loop" /\ prog = << >> /\ UNCHANGED quit /\ pc = "exec"
    BY <1>4 DEF LineDone
  <2>2. CASE Head(lines) = EndOfFile
    BY <2>1, <2>2 DEF AtEnd, NoLostLine, EndOfFile
  <2>3. CASE Head(lines) # EndOfFile /\ Len(lines) > 1
    <3>1. evq' = evq \o (<< "OUTPUT_FLUSH" >> \o << "PROCESS_LINE" >>)
      BY <1>4, <2>3 DEF LineDone, Send, NextLine, If
    <3>2. evq' = evq \o << "OUTPUT_FLUSH", "PROCESS_LINE" >>
      BY <3>1
    <3>3. Queued("PROCESS_LINE")'
      BY <1>1, Tokens, <3>2, Put
    <3> QED BY <2>1, <3>3 DEF NoLostLine, AtEnd
  <2>4. CASE Head(lines) # EndOfFile /\ ~(Len(lines) > 1)
    <3>1. lines' = << >>
      BY <1>1, <1>4, <2>1, <2>4 DEF LineDone, Underway
    <3> QED BY <2>1, <3>1 DEF NoLostLine, AtEnd
  <2> QED BY <2>2, <2>3, <2>4
<1>5. CASE DeviceWorker
  <2>1. Queued("PROCESS_LINE") => Queued("PROCESS_LINE")'
    BY <1>1, <1>5, DeviceFrame, Kept DEF Queued
  <2> QED BY <1>5, <2>1, DeviceFrame DEF NoLostLine, AtEnd
<1>6. CASE ProcessNoLine
  <2>1. pc = "loop" /\ UNCHANGED << pc, lines, quit >> /\ evq # << >>
    BY <1>6, EventFrame DEF ProcessNoLine, lineState
  <2>2. lines # << >> => evq' = Tail(evq) \o << "PROCESS_LINE" >>
    BY <1>6 DEF ProcessNoLine, Then
  <2>3. lines # << >> => Queued("PROCESS_LINE")'
    <3>1. Tail(evq) \in Seq(EventId)
      BY <1>1, <2>1
    <3> QED BY Tokens, <2>2, <3>1, Put
  <2> QED BY <2>1, <2>3 DEF NoLostLine, AtEnd
<1>7. CASE ProcessEmptyLine
  <2>1. /\ pc = "loop" /\ UNCHANGED << pc, quit >> /\ evq # << >>
        /\ lines # << >> /\ lines' = Tail(lines)
    BY <1>7, EventFrame DEF ProcessEmptyLine
  <2>2. CASE Len(lines) > 1
    <3>1. Tail(evq) \in Seq(EventId)
      BY <1>1, <2>1
    <3>3. evq' = Tail(evq) \o << "PROCESS_LINE" >>
      BY <1>7, <2>2 DEF ProcessEmptyLine, NextLine, If, Then
    <3>2. Queued("PROCESS_LINE")'
      BY Tokens, <3>1, <3>3, Put
    <3> QED BY <2>1, <3>2 DEF NoLostLine, AtEnd
  <2>3. CASE ~(Len(lines) > 1)
    <3>1. lines' = << >>
      BY <1>1, <2>1, <2>3
    <3> QED BY <2>1, <3>1 DEF NoLostLine, AtEnd
  <2> QED BY <2>2, <2>3
<1>8. CASE ProcessLine
  BY <1>8 DEF ProcessLine, NoLostLine, AtEnd
<1>9. CASE CliRead
  <2>1. evq' = evq \o << "PROCESS_LINE" >> /\ pc = "loop" /\ pc' = pc
    BY <1>9 DEF CliRead, Send, Turn, stdinFrame
  <2>2. Queued("PROCESS_LINE")'
    BY <1>1, Tokens, <2>1, Put
  <2> QED BY <2>1, <2>2 DEF NoLostLine, AtEnd
<1>10. ASSUME PlainEvent PROVE NoLostLine' /\ AtEnd'
  <2>1. Queued("PROCESS_LINE") => Queued("PROCESS_LINE")'
    BY <1>1, <1>10, PlainEventFrame, Kept
  <2> QED BY <1>10, <2>1, PlainEventFrame DEF NoLostLine, AtEnd
<1>11. ASSUME Other PROVE NoLostLine' /\ AtEnd'
  <2>1. Queued("PROCESS_LINE") => Queued("PROCESS_LINE")'
    BY <1>11, OtherFrame DEF Queued
  <2> QED BY <1>11, <2>1, OtherFrame DEF NoLostLine, AtEnd
<1> QED
  BY <1>3, <1>4, <1>5, <1>6, <1>7, <1>8, <1>9, <1>10, <1>11, Cases

----------------------------------------------------------------------------
(* What ends an operation, or completes an answer, in the receiver also    *)
(* sends the unblock.                                                      *)
LEMMA ReceiverSends ==
  ASSUME DeviceWorker, evq \in Seq(EventId)
  PROVE  \/ Queued("UNBLOCK")'
         \/ UNCHANGED << out, sweep, overlapped, digEv, chanMask >>
<1> USE DEF scopeVars, digitalVars, digEvVars
<1>1. CASE RcvScopeData
  <2>1. evq' = evq \o << "UNBLOCK" >>
    BY <1>1 DEF RcvScopeData, Send
  <2> QED BY <2>1, Tokens, Put
<1>2. ASSUME NEW chan, NEW after \in Seq(EventId), DigitalEvent(chan, after)
      PROVE  \/ Queued("UNBLOCK")'
             \/ UNCHANGED << out, digEv, chanMask >>
  <2>1. \/ UNCHANGED << out, digEv, chanMask >>
        \/ evq' = evq \o (<< "UNBLOCK" >> \o after)
    BY <1>2 DEF DigitalEvent, Send
  <2>2. ASSUME evq' = evq \o (<< "UNBLOCK" >> \o after) PROVE Queued("UNBLOCK")'
    <3>1. /\ << "UNBLOCK" >> \o after \in Seq(EventId)
          /\ Has(<< "UNBLOCK" >> \o after, "UNBLOCK")
      <4>1. /\ Len(<< "UNBLOCK" >> \o after) >= 1
            /\ (<< "UNBLOCK" >> \o after)[1] = "UNBLOCK"
            /\ << "UNBLOCK" >> \o after \in Seq(EventId)
        BY Tokens
      <4> QED BY <4>1 DEF Has
    <3> QED BY <2>2, <3>1, Put
  <2> QED BY <2>1, <2>2
<1>3. CASE RcvDigitalRead
  <2>1. << "DIGITAL_READ_COMPLETE" >> \in Seq(EventId)
    BY DEF EventId
  <2> QED BY <1>2, <1>3, <2>1 DEF RcvDigitalRead, NoDigitalEvent
<1>4. CASE RcvInterrupt
  BY <1>2, <1>4, Tokens DEF RcvInterrupt, NoDigitalEvent
<1>5. CASE RcvStart \/ RcvIdent \/ RcvScopeStatus \/ RcvScopeOffset \/ RcvScopeAddr
  BY <1>5 DEF RcvStart, RcvIdent, RcvScopeStatus, RcvScopeOffset, RcvScopeAddr
<1>6. CASE RcvScopeDataFails \/ RcvDigitalEventFails
  BY <1>6 DEF RcvScopeDataFails, RcvDigitalEventFails, Fail
<1> QED BY <1>1, <1>3, <1>4, <1>5, <1>6 DEF DeviceWorker

(* An answer in the buffer keeps its flush.                                *)
LEMMA FlushStep ==
  ASSUME TypeOK, TypeOK', FlushFollows, [Next]_vars
  PROVE  FlushFollows'
<1> DEFINE Coming == Queued("OUTPUT_FLUSH") \/ Queued("UNBLOCK")
<1>1. /\ evq \in Seq(EventId) /\ evq' \in Seq(EventId) /\ out \in Seq(Answer)
      /\ evq # << >> => Tail(evq) \in Seq(EventId)
  BY DEF TypeOK
<1>2. SUFFICES \/ pc' \notin { "loop", "exited" } \/ Coming'
               \/ out' = << >>
               \/ /\ (pc' \in { "loop", "exited" } => pc \in { "loop", "exited" })
                  /\ Coming => Coming'
                  /\ \/ out' = out
                     \/ out' = Append(out, "STAT")
  BY <1>1 DEF FlushFollows
<1>3. CASE Handler
  BY <1>3, HandlerFrame
<1>4. CASE LineDone
  <2>1. CASE Head(lines) = EndOfFile \/ NextLine = << >>
    <3>1. evq' = evq \o << "OUTPUT_FLUSH" >>
      BY <1>4, <2>1 DEF LineDone, Send
    <3> QED BY <1>1, <3>1, Tokens, Put
  <2>2. CASE Head(lines) # EndOfFile /\ NextLine = << "PROCESS_LINE" >>
    <3>1. evq' = evq \o (<< "OUTPUT_FLUSH" >> \o << "PROCESS_LINE" >>)
      BY <1>4, <2>2 DEF LineDone, Send
    <3>2. evq' = evq \o << "OUTPUT_FLUSH", "PROCESS_LINE" >>
      BY <3>1
    <3> QED BY <1>1, <3>2, Tokens, Put
  <2> QED BY <2>1, <2>2 DEF NextLine, If
<1>5. CASE DeviceWorker
  <2>1. Coming => Coming'
    BY <1>1, <1>5, DeviceFrame, Kept DEF Queued
  <2>2. out' = out \/ Queued("UNBLOCK")'
    BY <1>1, <1>5, ReceiverSends
  <2> QED BY <1>5, <2>1, <2>2, DeviceFrame
<1>6. CASE ProcessNoLine \/ ProcessEmptyLine
  <2>1. /\ pc = "loop" /\ pc' = pc /\ out' = out
        /\ evq # << >> /\ Head(evq) = "PROCESS_LINE"
    BY <1>6, EventFrame DEF ProcessNoLine, ProcessEmptyLine, lineState
  <2>2. \E s \in Seq(EventId) : evq' = Tail(evq) \o s
    BY <1>6, Tokens DEF ProcessNoLine, ProcessEmptyLine, Then, NextLine, If
  <2>3. \A e \in { "OUTPUT_FLUSH", "UNBLOCK" } : Queued(e) => Queued(e)'
    <3>1. PICK s \in Seq(EventId) : evq' = Tail(evq) \o s
      BY <2>2
    <3> QED BY <1>1, <2>1, <3>1, Kept
  <2> QED BY <2>1, <2>3
<1>7. CASE ProcessLine
  BY <1>7 DEF ProcessLine
<1>8. CASE CliRead
  <2>1. pc' = pc /\ out' = out /\ evq' = evq \o << "PROCESS_LINE" >>
    BY <1>8 DEF CliRead, Send, stdinFrame
  <2> QED BY <1>1, <2>1, Tokens, Kept
<1>9. ASSUME PlainEvent, Head(evq) # "OUTPUT_FLUSH", Head(evq) # "UNBLOCK"
      PROVE  Coming => Coming'
  <2>1. PICK s \in Seq(EventId) : evq' = Tail(evq) \o s
    BY <1>9, PlainEventFrame
  <2>2. evq # << >>
    BY <1>9, PlainEventFrame
  <2>3. Queued("OUTPUT_FLUSH") => Queued("OUTPUT_FLUSH")'
    BY <1>1, <1>9, <2>1, <2>2, Kept
  <2>4. Queued("UNBLOCK") => Queued("UNBLOCK")'
    BY <1>1, <1>9, <2>1, <2>2, Kept
  <2> QED BY <2>3, <2>4
<1>14. CASE IdentifyCompletion \/ DigitalReadCompletion \/ ScopeStatusCompletion \/ ScopeOffsetStart
  <2>1. out' = out
    BY <1>14 DEF IdentifyCompletion, DigitalReadCompletion,
       ScopeStatusCompletion, ScopeOffsetStart
  <2>2. PICK e : e # "OUTPUT_FLUSH" /\ e # "UNBLOCK" /\ Event(e)
    BY <1>14 DEF IdentifyCompletion, DigitalReadCompletion,
       ScopeStatusCompletion, ScopeOffsetStart
  <2> QED BY <1>14, <1>9, <2>1, <2>2, EventFrame, PlainEventFrame DEF PlainEvent
<1>15. CASE ScopeStatusOutput
  <2>1. out' = out \/ out' = Append(out, "STAT")
    BY <1>15 DEF ScopeStatusOutput
  <2>2. Event("SCOPE_STATUS_OUTPUT")
    BY <1>15 DEF ScopeStatusOutput
  <2> QED BY <1>15, <1>9, <2>1, <2>2, EventFrame, PlainEventFrame DEF PlainEvent
<1>10. CASE IdentifyOutput \/ DigitalReadOutput
  <2>1. /\ Head(evq) # "OUTPUT_FLUSH" /\ Head(evq) # "UNBLOCK" /\ evq # << >>
    BY <1>10, EventFrame DEF IdentifyOutput, DigitalReadOutput
  <2>4. out' = out \/ evq' = Tail(evq) \o << "OUTPUT_FLUSH" >>
    BY <1>10 DEF IdentifyOutput, DigitalReadOutput, Then
  <2>2. CASE out' = out
    BY <1>9, <1>10, <2>1, <2>2, PlainEventFrame DEF PlainEvent
  <2>3. CASE evq' = Tail(evq) \o << "OUTPUT_FLUSH" >>
    BY <1>1, <2>1, <2>3, Tokens, Put
  <2> QED BY <2>2, <2>3, <2>4
<1>11. CASE Unblock
  <2>1. evq # << >> /\ evq' = Tail(evq) \o << "OUTPUT_FLUSH", "PROCESS_LINE" >>
    BY <1>11, EventFrame DEF Unblock, Then
  <2> QED BY <1>1, <2>1, Tokens, Put
<1>12. CASE OutputFlush
  BY <1>12 DEF OutputFlush
<1>13. ASSUME Other PROVE \/ pc' = "failed"
                          \/ /\ pc' \in { "loop", "exited" } => pc \in { "loop", "exited" }
                             /\ Coming => Coming'
                             /\ out' = out
  BY <1>13, OtherFrame DEF Queued
<1> QED
  BY <1>3, <1>4, <1>5, <1>6, <1>7, <1>8, <1>9, <1>10, <1>11, <1>12, <1>13, <1>14, <1>15, Cases
  DEF PlainEvent

----------------------------------------------------------------------------
(* What *WAI and *OPC? wait for is a sweep that is in progress.            *)
SweepOverlaps == overlapped => sweep

(* What the input may be blocked for, and what blocks it.                  *)
operation == << sweep, overlapped, digEv >>
block == << blockInput, blockUntil, timer >>

(* The commands that neither block nor start or stop an operation.         *)
QuietHandler ==
  \/ VersionQ \/ DigitalEventRefused \/ Cls \/ Rst \/ Quit \/ SyntaxError \/ IdnQ \/ ChannelState
  \/ ScopeStatusQ \/ ConfigureDigitalData \/ FetchDigitalData
  \/ ConfigureDigitalEvent \/ ReadOrMeasure
  \/ SleepFails \/ AbortFails \/ ScopeDataQFails \/ ConfigureDigitalEventFails

(* They leave those alone.                                                 *)
LEMMA QuietHandlerFrame ==
  ASSUME QuietHandler
  PROVE  /\ UNCHANGED << operation, block >>
         /\ evq' = evq \/ \E s \in Seq(EventId) : evq' = evq \o s
<1> USE DEF operation, block, QuietHandler, sleepVars, blockVars, scopeVars,
        digitalVars, digEvVars, inputVars
<1>1. << "IDENTIFY_OUTPUT" >> \in Seq(EventId) /\ << "SCOPE_STATUS_OUTPUT" >> \in Seq(EventId)
      /\ << "DIGITAL_READ_OUTPUT" >> \in Seq(EventId)
  BY DEF EventId
<1>2. CASE \/ VersionQ \/ DigitalEventRefused \/ Cls \/ Rst \/ Quit \/ ChannelState
           \/ ConfigureDigitalData \/ ConfigureDigitalEvent
  BY <1>2 DEF VersionQ, DigitalEventRefused, Cls, Rst, Quit, ChannelState, Enable,
     ConfigureDigitalData,
     ConfigureDigitalEvent
<1>3. CASE IdnQ \/ ScopeStatusQ \/ FetchDigitalData
  <2>1. IdnQ \/ ScopeStatusQ \/ FetchDigitalData => UNCHANGED << operation, block >>
    BY DEF IdnQ, ScopeStatusQ, FetchDigitalData
  <2>2. << >> \in Seq(EventId)
    OBVIOUS
  <2> QED BY <1>1, <1>3, <2>1, <2>2, Zenon DEF IdnQ, ScopeStatusQ, FetchDigitalData, Send, If
<1>4. CASE SyntaxError \/ ReadOrMeasure
  BY <1>4 DEF SyntaxError, ReadOrMeasure, Expand
<1>5. CASE \/ SleepFails \/ AbortFails \/ ScopeDataQFails
           \/ ConfigureDigitalEventFails
  BY <1>5 DEF SleepFails, AbortFails, ScopeDataQFails, ConfigureDigitalEventFails, Fail
<1> QED BY <1>2, <1>3, <1>4, <1>5

(* Blocked input keeps a release: the operation goes on, or its end has    *)
(* sent the unblock.                                                       *)
LEMMA BlockStep ==
  ASSUME TypeOK, TypeOK', BlockHasRelease, SweepOverlaps, [Next]_vars
  PROVE  BlockHasRelease' /\ SweepOverlaps'
<1> DEFINE Release == sweep \/ digEv \/ Queued("UNBLOCK")
<1>1. /\ evq \in Seq(EventId) /\ evq' \in Seq(EventId)
      /\ evq # << >> => Tail(evq) \in Seq(EventId)
  BY DEF TypeOK
<1>2. /\ sweep \in BOOLEAN /\ overlapped \in BOOLEAN /\ digEv \in BOOLEAN
      /\ blockInput \in BOOLEAN /\ blockUntil \in BOOLEAN
      /\ enabled \in BOOLEAN
  BY DEF TypeOK
<1>3. ASSUME UNCHANGED << operation, block >>,
             Queued("UNBLOCK") => Queued("UNBLOCK")'
      PROVE  BlockHasRelease' /\ SweepOverlaps'
  BY <1>3 DEF BlockHasRelease, SweepOverlaps, operation, block
<1>4. ASSUME evq' = evq \/ \E s \in Seq(EventId) : evq' = evq \o s
      PROVE  Queued("UNBLOCK") => Queued("UNBLOCK")'
  BY <1>1, <1>4, Kept DEF Queued
<1>5. ASSUME evq' = evq \/ evq' = evq \o << "PROCESS_LINE" >>
             \/ evq' = evq \o << "OUTPUT_FLUSH" >>
             \/ evq' = evq \o << "OUTPUT_FLUSH", "PROCESS_LINE" >>
      PROVE  Queued("UNBLOCK") => Queued("UNBLOCK")'
  BY <1>4, <1>5, Tokens
<1>6. ASSUME evq # << >>, Head(evq) # "UNBLOCK", \E s \in Seq(EventId) : evq' = Tail(evq) \o s
      PROVE  Queued("UNBLOCK") => Queued("UNBLOCK")'
  BY <1>1, <1>6, Kept
<1>7. CASE QuietHandler
  BY <1>3, <1>4, <1>7, QuietHandlerFrame
<1>8. CASE Sleep
  <2>1. blockUntil' /\ timer' \in { "running", "disarmed" } /\ evq' = evq /\ UNCHANGED << operation, blockInput >>
    BY <1>8 DEF Sleep, operation, blockVars, scopeVars, digitalVars
  <2> QED BY <1>5, <2>1 DEF BlockHasRelease, SweepOverlaps, operation
<1>9. CASE Wai \/ OpcQ
  <2>1. /\ blockInput' => overlapped \/ blockInput
        /\ evq' = evq /\ UNCHANGED << operation, blockUntil, timer >>
    BY <1>2, <1>9 DEF Wai, OpcQ, operation, blockVars, scopeVars, digitalVars, sleepVars
  <2> QED BY <1>5, <2>1 DEF BlockHasRelease, SweepOverlaps, operation
<1>10. CASE ScopeDataQ \/ FetchDigitalEvent
  <2>1. /\ blockInput' => sweep \/ digEv \/ blockInput
        /\ evq' = evq /\ UNCHANGED << operation, blockUntil, timer >>
    BY <1>10 DEF ScopeDataQ, FetchDigitalEvent, operation, scopeVars, digitalVars,
       digEvVars, sleepVars
  <2> QED BY <1>5, <2>1 DEF BlockHasRelease, SweepOverlaps, operation
<1>11. CASE Initiate \/ InitiateImmediate
  <2>1. /\ sweep => sweep'
        /\ overlapped' => overlapped \/ sweep'
        /\ digEv => digEv'
        /\ evq' = evq /\ UNCHANGED << blockInput, blockUntil, timer >>
    BY <1>2, <1>11 DEF Initiate, InitiateImmediate, blockVars, sleepVars, digitalVars
  <2> QED BY <1>5, <2>1 DEF BlockHasRelease, SweepOverlaps
<1>12. CASE Abort
  <2>1. UNCHANGED << blockInput, blockUntil, timer >>
    BY <1>12 DEF Abort, blockVars, sleepVars
  <2>2. overlapped' => overlapped /\ ~sweep
    BY <1>12 DEF Abort, ScopeDataDone, sweepVars
  <2>3. CASE sweep \/ digEv
    <3>1. evq' = evq \o (<< "UNBLOCK" >> \o << "UNBLOCK" >>)
          \/ evq' = evq \o (<< "UNBLOCK" >> \o << >>)
          \/ evq' = evq \o (<< >> \o << "UNBLOCK" >>)
      BY <1>12, <2>3 DEF Abort, Send, If
    <3>2. evq' = evq \o << "UNBLOCK", "UNBLOCK" >> \/ evq' = evq \o << "UNBLOCK" >>
      BY <3>1
    <3>3. Queued("UNBLOCK")'
      BY <1>1, <3>2, Tokens, Put
    <3> QED BY <2>1, <2>2, <3>3 DEF BlockHasRelease, SweepOverlaps
  <2>4. CASE ~sweep /\ ~digEv
    <3>1. evq' = evq \o (<< >> \o << >>) /\ UNCHANGED operation
      BY <1>12, <2>4 DEF Abort, Send, If, sweepVars, operation
    <3>2. evq' = evq
      BY <1>1, <3>1
    <3> QED BY <1>3, <1>5, <2>1, <3>1, <3>2 DEF block
  <2> QED BY <2>3, <2>4
<1>13. CASE LineDone
  <2>1. UNCHANGED << operation, block >>
    BY <1>13 DEF LineDone, operation, block, sleepVars, blockVars, scopeVars, digitalVars
  <2>2. evq' = evq \o << "OUTPUT_FLUSH" >>
        \/ evq' = evq \o (<< "OUTPUT_FLUSH" >> \o << "PROCESS_LINE" >>)
        \/ evq' = evq \o (<< "OUTPUT_FLUSH" >> \o << >>)
    BY <1>13 DEF LineDone, Send, NextLine, If
  <2>3. evq' = evq \o << "OUTPUT_FLUSH" >>
        \/ evq' = evq \o << "OUTPUT_FLUSH", "PROCESS_LINE" >>
    BY <2>2
  <2> QED BY <1>3, <1>5, <2>1, <2>3
<1>14. CASE DeviceWorker
  <2>1. UNCHANGED << blockInput, blockUntil, timer >>
    BY <1>14, DeviceFrame
  <2>2. SweepOverlaps'
    <3>1. overlapped' = FALSE \/ UNCHANGED << sweep, overlapped >>
      BY <1>14 DEF DeviceWorker, RcvStart, RcvIdent, RcvScopeStatus, RcvScopeOffset,
         RcvScopeAddr, RcvScopeData, ScopeDataDone, RcvDigitalRead, RcvInterrupt,
         RcvScopeDataFails, RcvDigitalEventFails, Fail, scopeVars
    <3> QED BY <3>1 DEF SweepOverlaps
  <2>3. Queued("UNBLOCK") => Queued("UNBLOCK")'
    BY <1>4, <1>14, DeviceFrame
  <2> QED BY <1>1, <1>14, <2>1, <2>2, <2>3, ReceiverSends DEF BlockHasRelease
<1>15. CASE ProcessNoLine \/ ProcessEmptyLine \/ ProcessLine
  <2>1. Event("PROCESS_LINE") /\ UNCHANGED << operation, blockInput >>
    BY <1>15 DEF ProcessNoLine, ProcessEmptyLine, ProcessLine, operation, blockVars,
       scopeVars, digitalVars
  <2>2. \E s \in Seq(EventId) : evq' = Tail(evq) \o s
    BY <1>15, Tokens DEF ProcessNoLine, ProcessEmptyLine, ProcessLine, Then, NextLine, If
  <2> QED BY <1>3, <1>6, <2>1, <2>2, EventFrame DEF block
<1>16. CASE CliRead
  <2>1. UNCHANGED << operation, block >> /\ evq' = evq \o << "PROCESS_LINE" >>
    BY <1>16 DEF CliRead, Send, stdinFrame, operation, block, sleepVars, blockVars,
       scopeVars, digitalVars
  <2> QED BY <1>3, <1>5, <2>1
<1>17. CASE Unblock
  <2>1. ~blockInput' /\ UNCHANGED operation
    BY <1>17 DEF Unblock, operation, scopeVars, digitalVars
  <2>2. UNCHANGED << blockUntil, timer >>
    BY <1>17, PlainEventFrame DEF PlainEvent
  <2> QED BY <2>1, <2>2 DEF BlockHasRelease, SweepOverlaps, operation
<1>18. ASSUME PlainEvent, ~Unblock PROVE BlockHasRelease' /\ SweepOverlaps'
  <2>1. PICK e : e # "UNBLOCK" /\ Event(e)
    BY <1>18 DEF PlainEvent, IdentifyCompletion, IdentifyOutput, DigitalReadCompletion,
       DigitalReadOutput, ScopeStatusOutput, ScopeStatusCompletion, ScopeOffsetStart,
       OutputFlush
  <2>2. UNCHANGED << operation, blockInput >>
    BY <1>18 DEF PlainEvent, IdentifyCompletion, IdentifyOutput, DigitalReadCompletion,
       DigitalReadOutput, ScopeStatusOutput, ScopeStatusCompletion, ScopeOffsetStart,
       OutputFlush, operation, blockVars, scopeVars, digitalVars, digEvVars
  <2> QED BY <1>3, <1>6, <1>18, <2>1, <2>2, EventFrame, PlainEventFrame DEF block
<1>19. ASSUME Other PROVE BlockHasRelease' /\ SweepOverlaps'
  <2>1. UNCHANGED << operation, blockInput, evq >>
    BY <1>19, OtherFrame DEF operation, scopeVars, digitalVars
  <2> QED BY <1>5, <1>19, <2>1, OtherFrame DEF BlockHasRelease, SweepOverlaps, operation
<1>20. CASE Handler
  BY <1>7, <1>8, <1>9, <1>10, <1>11, <1>12, <1>20 DEF Handler, QuietHandler
<1> QED
  BY <1>13, <1>14, <1>15, <1>16, <1>17, <1>18, <1>19, <1>20, Cases

----------------------------------------------------------------------------

(* A record has room, and the assertion that it has does not fail.         *)
RecordInv == RecordHasRoom /\ RecordAssertion

(* No step takes the room of a record that still records.                  *)
LEMMA RecordStep ==
  ASSUME 0 \notin EventCounts, TypeOK, RecordInv, [Next]_vars
  PROVE  RecordInv'
<1> DEFINE record == << chanMask, evCur, evMax >>
<1> USE DEF RecordInv, RecordHasRoom, RecordAssertion, digEvVars, digitalVars, loopVars
<1>1. evCur \in Nat /\ evMax \in Nat
  BY DEF TypeOK
<1>2. ASSUME NEW c, Run(c) PROVE failed' = failed
  BY <1>2 DEF Run
<1>3. CASE ConfigureDigitalEvent
  <2>1. evCur' = 0 /\ evMax' \in EventCounts /\ failed' = failed
    BY <1>2, <1>3 DEF ConfigureDigitalEvent
  <2>2. evMax' \in Nat /\ evMax' # 0
    BY <2>1, ConstantsAssumption
  <2> QED BY <2>1, <2>2
<1>4. CASE Abort
  BY <1>2, <1>4 DEF Abort, DigitalEventDone
<1>5. CASE RcvDigitalRead \/ RcvInterrupt
  <2>1. failed' = failed
    BY <1>5 DEF RcvDigitalRead, RcvInterrupt, Received
  <2>2. ASSUME NEW chan, NEW after, DigitalEvent(chan, after)
        PROVE  chanMask' = {} \/ evCur' < evMax'
    <3>1. evCur < evMax /\ evCur' = evCur + 1 /\ evMax' = evMax
      BY <2>2 DEF DigitalEvent
    <3>2. chanMask' = {} \/ evCur + 1 # evMax
      BY <2>2 DEF DigitalEvent, DigitalEventDone
    <3> QED BY <1>1, <3>1, <3>2
  <2>3. \/ UNCHANGED record
        \/ chanMask' = {} \/ evCur' < evMax'
    BY <1>5, <2>2 DEF RcvDigitalRead, RcvInterrupt, NoDigitalEvent
  <2> QED BY <2>1, <2>3
<1>6. CASE RcvDigitalEventFails
  BY <1>1, <1>6 DEF RcvDigitalEventFails
<1>7. ASSUME UNCHANGED record, failed' = failed \/ failed' # "cgr101_digital_event"
      PROVE  RecordInv'
  BY <1>7
<1>8. CASE \/ VersionQ \/ DigitalEventRefused \/ Cls \/ Rst \/ Wai \/ OpcQ \/ Sleep \/ Quit
           \/ IdnQ
           \/ ChannelState \/ InitiateImmediate \/ Initiate
  BY <1>2, <1>7, <1>8 DEF VersionQ, DigitalEventRefused, Cls, Rst, Wai, OpcQ, Sleep, Quit, IdnQ,
     ChannelState, Enable, InitiateImmediate, Initiate
<1>9. CASE \/ ScopeDataQ \/ ScopeStatusQ \/ ConfigureDigitalData
           \/ FetchDigitalData \/ FetchDigitalEvent
  BY <1>2, <1>7, <1>9 DEF ScopeDataQ, ScopeStatusQ, ConfigureDigitalData,
     FetchDigitalData, FetchDigitalEvent
<1>10. CASE SyntaxError \/ ReadOrMeasure
  BY <1>7, <1>10 DEF SyntaxError, ReadOrMeasure, Expand
<1>11. ASSUME NEW w, w # "cgr101_digital_event", Fail(w) PROVE RecordInv'
  BY <1>7, <1>11 DEF Fail
<1>12. CASE \/ SleepFails \/ AbortFails \/ ScopeDataQFails \/ ConfigureDigitalEventFails
            \/ RcvScopeDataFails \/ IdentifyCompletionFails
  BY <1>11, <1>12 DEF SleepFails, AbortFails, ScopeDataQFails, RcvScopeDataFails,
     ConfigureDigitalEventFails, IdentifyCompletionFails
<1>13. CASE Handler
  BY <1>3, <1>4, <1>8, <1>9, <1>10, <1>12, <1>13 DEF Handler
<1>14. CASE \/ RcvStart \/ RcvIdent \/ RcvScopeStatus \/ RcvScopeOffset \/ RcvScopeAddr
            \/ RcvScopeData
  BY <1>7, <1>14 DEF RcvStart, RcvIdent, RcvScopeStatus, RcvScopeOffset, RcvScopeAddr,
     RcvScopeData, Received
<1>15. CASE DeviceWorker
  BY <1>5, <1>6, <1>12, <1>14, <1>15 DEF DeviceWorker
<1>16. CASE LineDone \/ CliRead \/ ProcessEmptyLine \/ ProcessLine
  BY <1>7, <1>16 DEF LineDone, CliRead, stdinFrame, ProcessEmptyLine, ProcessLine
<1>17. CASE PlainEvent \/ ProcessNoLine
  BY <1>7, <1>17 DEF PlainEvent, IdentifyCompletion, IdentifyOutput, ProcessNoLine,
     DigitalReadCompletion, DigitalReadOutput, ScopeStatusOutput, ScopeStatusCompletion,
     ScopeOffsetStart, Unblock, OutputFlush, lineState
<1>18. ASSUME Other PROVE RecordInv'
  <2>1. UNCHANGED record
    BY <1>18, OtherFrame
  <2>2. CASE IdentifyCompletionFails
    BY <1>12, <2>2
  <2>3. CASE ~IdentifyCompletionFails
    <3>1. failed' = failed
      BY <1>18, <2>3 DEF Other, Select, Exit, SelectTimeout, Stopped, SigAlrm, SigInt,
         CliNoRead, stdinFrame, DeviceAnswers, DeviceSelf, DeviceTriggered,
         DeviceReportsInput, DeviceInterrupts, serverSide, Client, ClientCloses,
         ClientSends, clientFrame, vars
    <3> QED BY <1>7, <2>1, <3>1
  <2> QED BY <2>2, <2>3
<1> QED BY <1>13, <1>15, <1>16, <1>17, <1>18, Cases

----------------------------------------------------------------------------
(* The inductive invariant.                                                *)
IInv ==
  /\ TypeOK /\ Underway
  /\ NoLostLine /\ AtEnd
  /\ FlushFollows
  /\ BlockHasRelease /\ SweepOverlaps

(* It holds in the state the loop is entered with.                         *)
LEMMA InitIInv == ASSUME Init PROVE IInv /\ RecordInv
<1>1. /\ \A S : << >> \in Seq(S)
      /\ << "SCOPE_OFFSET_START" >> \in Seq(EventId)
  BY DEF EventId
<1>2. TypeOK
  BY <1>1 DEF Init, TypeOK, Phase, Failure, Timer
<1>3. Underway /\ NoLostLine /\ AtEnd
  BY DEF Init, Underway, NoLostLine, AtEnd
<1>4. FlushFollows
  <2>1. Len(out) = 0
    BY DEF Init
  <2> QED BY <2>1 DEF FlushFollows
<1>5. BlockHasRelease /\ SweepOverlaps
  BY DEF Init, BlockHasRelease, SweepOverlaps
<1>6. RecordInv
  BY DEF Init, RecordInv, RecordHasRoom, RecordAssertion
<1> QED BY <1>2, <1>3, <1>4, <1>5, <1>6 DEF IInv

(* Every step of the system preserves it.                                  *)
LEMMA NextIInv == ASSUME IInv, [Next]_vars PROVE IInv'
<1>1. TypeOK'
  BY TypeStep DEF IInv
<1> QED
  BY <1>1, UnderwayStep, LineStep, FlushStep, BlockStep DEF IInv

(* So it holds always.                                                     *)
LEMMA Invariance == Safe => []IInv
<1>1. Init => IInv
  BY InitIInv
<1>2. IInv /\ [Next]_vars => IInv'
  BY NextIInv
<1> QED BY <1>1, <1>2, PTL DEF Safe

(* The state of the server, the device and the client keeps its type; in   *)
(* particular the commands run are commands, the tokens tokens.            *)
THEOREM TypeCorrect == Safe => []TypeOK
<1>1. IInv => TypeOK
  BY DEF IInv
<1> QED BY <1>1, Invariance, PTL

(* Whatever the client sends: a line that was read and not processed has   *)
(* its PROCESS_LINE token in the pipe (parser_cli_line,                    *)
(* parser_process_line).                                                   *)
THEOREM LinesAreKept == Safe => []NoLostLine
<1>1. IInv => NoLostLine
  BY DEF IInv
<1> QED BY <1>1, Invariance, PTL

(* Whatever the client sends: an answer left in the output buffer, but     *)
(* that of SENSe:STATus?, is followed by a flush (scpi_output.c,           *)
(* cgr101.c).                                                              *)
THEOREM AnswersAreFlushed == Safe => []FlushFollows
<1>1. IInv => FlushFollows
  BY DEF IInv
<1> QED BY <1>1, Invariance, PTL

(* Whatever the client sends: input that is blocked has an operation or an *)
(* unblock that will release it, and a sleep its timer, unless it was to   *)
(* last less than a microsecond, which sets none (scpi_core.c).            *)
THEOREM BlocksAreReleased == Safe => []BlockHasRelease
<1>1. IInv => BlockHasRelease
  BY DEF IInv
<1> QED BY <1>1, Invariance, PTL

(* When no record of zero events is configured, cgr101_digital_event()     *)
(* always has room for the event it records and its assertion never fails. *)
THEOREM RecordsHaveRoom ==
  ASSUME 0 \notin EventCounts
  PROVE  Safe => [](RecordHasRoom /\ RecordAssertion)
<1>1. Init => RecordInv
  BY InitIInv
<1>2. TypeOK /\ RecordInv /\ [Next]_vars => RecordInv'
  BY RecordStep
<1>3. RecordInv => RecordHasRoom /\ RecordAssertion
  BY DEF RecordInv
<1> QED BY <1>1, <1>2, <1>3, TypeCorrect, PTL DEF Safe
=============================================================================
