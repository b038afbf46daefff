---------------------------- MODULE Clients_proofs ---------------------------
(***************************************************************************)
(* What is proved of the server for any client, of the requests it writes  *)
(* and the messages it receives, and for the clients of some classes,      *)
(* which the hypotheses of the theorems describe by the lines they send.   *)
(***************************************************************************)
EXTENDS Server_proofs, Clients, FiniteSetTheorems

----------------------------------------------------------------------------
(* The requests to the device and its messages, in two queues.             *)

LEMMA HasConcat ==
  ASSUME NEW S, NEW s \in Seq(S), NEW t \in Seq(S), NEW e
  PROVE  Has(s \o t, e) <=> Has(s, e) \/ Has(t, e)
<1> DEFINE u == s \o t
<1>1. /\ Len(s) \in Nat /\ Len(t) \in Nat /\ Len(u) = Len(s) + Len(t)
      /\ \A i \in 1..Len(s) + Len(t) : u[i] = IF i <= Len(s) THEN s[i] ELSE t[i - Len(s)]
  BY ConcatProperties, LenProperties
<1> HIDE DEF u
<1>2. ASSUME NEW i \in 1..Len(s) PROVE i \in 1..Len(u) /\ u[i] = s[i]
  BY <1>1
<1>3. ASSUME NEW i \in 1..Len(t)
      PROVE  Len(s) + i \in 1..Len(u) /\ u[Len(s) + i] = t[i]
  <2>1. /\ Len(s) + i \in 1..Len(s) + Len(t) /\ ~(Len(s) + i <= Len(s))
        /\ (Len(s) + i) - Len(s) = i
    BY <1>1
  <2> QED BY <1>1, <2>1
<1>4. ASSUME NEW i \in 1..Len(u)
      PROVE  \/ i \in 1..Len(s) /\ u[i] = s[i]
             \/ i - Len(s) \in 1..Len(t) /\ u[i] = t[i - Len(s)]
  BY <1>1
<1>5. Has(u, e) <=> Has(s, e) \/ Has(t, e)
  BY <1>2, <1>3, <1>4, Zenon DEF Has
<1> QED BY <1>5 DEF u

LEMMA HasAppend ==
  ASSUME NEW S, NEW s \in Seq(S), NEW x \in S, NEW e
  PROVE  Has(Append(s, x), e) <=> Has(s, e) \/ x = e
<1>1. Append(s, x) = s \o << x >>
  BY AppendIsConcat
<1>2. << x >> \in Seq(S)
  OBVIOUS
<1>3. Has(<< x >>, e) <=> x = e
  BY DEF Has
<1>4. Has(s \o << x >>, e) <=> Has(s, e) \/ Has(<< x >>, e)
  BY <1>2, HasConcat, Zenon
<1> QED BY <1>1, <1>3, <1>4

LEMMA HasOne ==
  ASSUME NEW S, NEW x \in S
  PROVE  << x >> \in Seq(S) /\ \A e : Has(<< x >>, e) <=> x = e
BY DEF Has

(* What is in several sequences one after the other is in one of them.     *)
LEMMA HasConcats ==
  ASSUME NEW s \in Seq(Request), NEW a \in Seq(Request), NEW b \in Seq(Request), NEW e
  PROVE  /\ s \o a \o b \in Seq(Request)
         /\ Has(s \o a \o b, e) <=> Has(s, e) \/ Has(a, e) \/ Has(b, e)
<1>1. s \o a \in Seq(Request)
  BY ConcatProperties, Zenon
<1>2. s \o a \o b \in Seq(Request)
  BY <1>1, ConcatProperties, Zenon
<1>3. Has(s \o a \o b, e) <=> Has(s \o a, e) \/ Has(b, e)
  BY <1>1, HasConcat, Zenon
<1>4. Has(s \o a, e) <=> Has(s, e) \/ Has(a, e)
  BY HasConcat, Zenon
<1> QED BY <1>2, <1>3, <1>4

LEMMA HasTail ==
  ASSUME NEW S, NEW s \in Seq(S), s # << >>, NEW e
  PROVE  /\ Head(s) \in S /\ Tail(s) \in Seq(S)
         /\ Has(s, e) <=> Head(s) = e \/ Has(Tail(s), e)
<1>1. Head(s) \in S /\ Tail(s) \in Seq(S)
  BY HeadTailProperties, Zenon
<1>2. << Head(s) >> \in Seq(S)
  BY <1>1
<1>3. s = << Head(s) >> \o Tail(s)
  OBVIOUS
<1>4. Has(<< Head(s) >>, e) <=> Head(s) = e
  BY DEF Has
<1>5. Has(<< Head(s) >> \o Tail(s), e) <=> Has(<< Head(s) >>, e) \/ Has(Tail(s), e)
  BY <1>1, <1>2, HasConcat, Zenon
<1> QED BY <1>1, <1>3, <1>4, <1>5

(* The requests of an operation that is started.                           *)
LEMMA StartRequests ==
  ASSUME NEW c, NEW r \in Request, NEW manual \in BOOLEAN
  PROVE  /\ If(c, << r >>) \in Seq(Request)
         /\ \A e : Has(If(c, << r >>), e) => c /\ e = r
         /\ DigitizerStart(manual) \in Seq(Request)
         /\ \A e : Has(DigitizerStart(manual), e) => enabled /\ e \in { "S G", "S D" }
<1>1. /\ << >> \in Seq(Request) /\ << r >> \in Seq(Request)
      /\ \A e : ~Has(<< >>, e)
      /\ \A e : Has(<< r >>, e) => e = r
  BY DEF Has
<1>2. /\ << "S G" >> \in Seq(Request) /\ << "S D" >> \in Seq(Request)
      /\ \A e : Has(<< "S G" >>, e) => e = "S G"
      /\ \A e : Has(<< "S D" >>, e) => e = "S D"
  <2>1. "S G" \in Request /\ "S D" \in Request
    BY DEF Request
  <2> QED BY <2>1, HasOne, Zenon
<1>3. /\ If(c, << r >>) \in Seq(Request)
      /\ \A e : Has(If(c, << r >>), e) => c /\ e = r
  BY <1>1, Zenon DEF If
<1> DEFINE t == If(ImmTrigger \/ manual, << "S D" >>)
<1>4. t \in Seq(Request) /\ \A e : Has(t, e) => e = "S D"
  BY <1>1, <1>2, Zenon DEF If
<1> HIDE DEF t
<1>5. /\ << "S G" >> \o t \in Seq(Request)
      /\ \A e : Has(<< "S G" >> \o t, e) => e \in { "S G", "S D" }
  <2>1. << "S G" >> \o t \in Seq(Request)
    BY <1>2, <1>4, ConcatProperties, Zenon
  <2>2. ASSUME NEW e, Has(<< "S G" >> \o t, e) PROVE e = "S G" \/ e = "S D"
    <3>1. Has(<< "S G" >>, e) \/ Has(t, e)
      BY <1>2, <1>4, <2>2, HasConcat, Zenon
    <3> QED BY <1>2, <1>4, <3>1, Zenon
  <2> QED BY <2>1, <2>2
<1>6. DigitizerStart(manual) = IF enabled THEN << "S G" >> \o t ELSE << >>
  BY Zenon DEF DigitizerStart, If, t
<1> QED BY <1>1, <1>3, <1>5, <1>6

(* What the handlers ask of the device: a capture only of enabled          *)
(* channels, an interrupt only of recorded ones, never a buffer.           *)
LEMMA HandlerRequests ==
  ASSUME TypeOK, Handler
  PROVE  /\ addrState' = addrState
         /\ \A e \in Request : Has(devReq', e) =>
              \/ Has(devReq, e) \/ e = "D I" \/ e = "D A"
              \/ e \in { "S G", "S D" } /\ enabled
              \/ e = "D !" /\ "INT" \in chanMask
<1> USE DEF scopeVars, deviceVars
<1>1. CASE \/ VersionQ \/ DigitalEventRefused \/ Cls \/ Rst \/ Wai \/ OpcQ \/ Sleep \/ Quit
           \/ IdnQ
           \/ ChannelState \/ Abort
  BY <1>1 DEF VersionQ, DigitalEventRefused, Cls, Rst, Wai, OpcQ, Sleep, Quit, IdnQ,
     ChannelState, Enable, Abort
<1>2. CASE \/ ScopeDataQ \/ ScopeStatusQ \/ ConfigureDigitalData \/ FetchDigitalData
           \/ ConfigureDigitalEvent \/ FetchDigitalEvent
  BY <1>2 DEF ScopeDataQ, ScopeStatusQ, ConfigureDigitalData, FetchDigitalData,
     ConfigureDigitalEvent, FetchDigitalEvent
<1>3. CASE SyntaxError \/ ReadOrMeasure
  BY <1>3 DEF SyntaxError, ReadOrMeasure, Expand
<1>4. CASE SleepFails \/ AbortFails \/ ScopeDataQFails \/ ConfigureDigitalEventFails
  BY <1>4 DEF SleepFails, AbortFails, ScopeDataQFails, ConfigureDigitalEventFails, Fail
<1>5. /\ devReq \in Seq(Request)
      /\ "D I" \in Request /\ "D !" \in Request /\ "D A" \in Request
  BY DEF TypeOK, Request
<1> DEFINE a == If(digReq, << "D I" >>)
           b(manual) == DigitizerStart(manual)
           c == If("INT" \in chanMask, << "D !" >>)
           d == If("DIN" \in chanMask, << "D A" >>)
<1>6. /\ a \in Seq(Request) /\ \A e : Has(a, e) => e = "D I"
      /\ c \in Seq(Request) /\ \A e : Has(c, e) => "INT" \in chanMask /\ e = "D !"
      /\ d \in Seq(Request) /\ \A e : Has(d, e) => e = "D A"
      /\ \A manual \in BOOLEAN :
           b(manual) \in Seq(Request)
           /\ \A e : Has(b(manual), e) => enabled /\ e \in { "S G", "S D" }
  BY <1>5, StartRequests
<1>7. CASE Initiate
  <2>1. /\ addrState' = addrState
        /\ devReq' = devReq \o a \o b(FALSE) \o c \o d
    BY <1>7 DEF Initiate
  <2>2. b(FALSE) \in Seq(Request) /\ \A e : Has(b(FALSE), e) => enabled /\ e \in { "S G", "S D" }
    BY <1>6
  <2>3. PICK g \in Seq(Request) : g = b(FALSE)
    BY <2>2
  <2> HIDE DEF a, b, c, d
  <2>4. ASSUME NEW e \in Request, Has(devReq', e)
        PROVE  Has(devReq, e) \/ Has(a, e) \/ Has(g, e) \/ Has(c, e) \/ Has(d, e)
    <3>1. devReq' = (devReq \o a \o g) \o c \o d
      BY <2>1, <2>3
    <3>2. /\ devReq \o a \o g \in Seq(Request)
          /\ Has(devReq \o a \o g, e) <=> Has(devReq, e) \/ Has(a, e) \/ Has(g, e)
      BY <1>5, <1>6, HasConcats
    <3>3. Has(devReq', e) <=> Has(devReq \o a \o g, e) \/ Has(c, e) \/ Has(d, e)
      BY <1>6, <3>1, <3>2, HasConcats
    <3> QED BY <2>4, <3>2, <3>3
  <2> QED BY <1>6, <2>1, <2>2, <2>3, <2>4, Zenon
<1>8. CASE InitiateImmediate
  <2>1. addrState' = addrState /\ devReq' = devReq \o a \o b(TRUE)
    BY <1>8 DEF InitiateImmediate
  <2>2. b(TRUE) \in Seq(Request) /\ \A e : Has(b(TRUE), e) => enabled /\ e \in { "S G", "S D" }
    BY <1>6
  <2>3. PICK g \in Seq(Request) : g = b(TRUE)
    BY <2>2
  <2> HIDE DEF a, b, c, d
  <2>4. ASSUME NEW e \in Request, Has(devReq', e)
        PROVE  Has(devReq, e) \/ Has(a, e) \/ Has(g, e)
    <3>1. devReq' = devReq \o a \o g
      BY <2>1, <2>3
    <3> QED BY <1>5, <1>6, <2>4, <3>1, HasConcats
  <2> QED BY <1>6, <2>1, <2>2, <2>3, <2>4, Zenon
<1> QED BY <1>1, <1>2, <1>3, <1>4, <1>7, <1>8 DEF Handler

----------------------------------------------------------------------------
(* Any client: the address of a capture comes before its data.             *)

(* The buffer is asked for, and its data is on the way, only when the      *)
(* address has been received.  A new capture expects another address only  *)
(* while that is being received, so that no data is.                       *)
AddrInv ==
  /\ addrState = "EXPECT" => rcv = "A"
  /\ rcv # "IDLE" => rcv = Head(devOut)
  /\ Has(devReq, "S B") \/ Has(devOut, "D") => addrState # "IDLE"

(* What the device adds to its messages; data only for the buffer.         *)
LEMMA DeviceSays ==
  ASSUME TypeOK, DeviceAnswers \/ DeviceSelf
  PROVE  /\ UNCHANGED << rcv, addrState >>
         /\ \/ devOut' = devOut
            \/ \E m \in Message : /\ devOut' = Append(devOut, m)
                                  /\ m = "D" => Has(devReq, "S B")
         /\ \A e : Has(devReq', e) => Has(devReq, e)
<1>1. devReq \in Seq(Request) /\ devOut \in Seq(Message)
  BY DEF TypeOK
<1>2. CASE DeviceAnswers
  <2>1. devReq # << >> /\ devReq' = Tail(devReq) /\ UNCHANGED << rcv, addrState >>
    BY <1>2 DEF DeviceAnswers, serverSide, scopeVars
  <2>2. ASSUME NEW e PROVE Has(devReq, e) <=> Head(devReq) = e \/ Has(Tail(devReq), e)
    BY <1>1, <2>1, HasTail
  <2>3. \/ devOut' = devOut
        \/ \E m \in Message : /\ devOut' = Append(devOut, m)
                              /\ << Head(devReq), m >> \in Reply
    BY <1>2 DEF DeviceAnswers
  <2>4. ASSUME NEW m, << Head(devReq), m >> \in Reply, m = "D"
        PROVE  Head(devReq) = "S B"
    BY <2>4 DEF Reply
  <2> QED BY <2>1, <2>2, <2>3, <2>4
<1>3. CASE DeviceSelf
  <2>1. /\ UNCHANGED << rcv, addrState, devReq >>
        /\ \/ devOut' = Append(devOut, "A")
           \/ devOut' = Append(devOut, "I")
           \/ devOut' = Append(devOut, "!")
    BY <1>3 DEF DeviceSelf, DeviceTriggered, DeviceReportsInput, DeviceInterrupts, serverSide,
       scopeVars
  <2>2. "A" \in Message /\ "I" \in Message /\ "!" \in Message
    BY DEF Message
  <2> QED BY <2>1, <2>2
<1> QED BY <1>2, <1>3

(* The device's side moves and the server does not.                        *)
LEMMA AddrMessages ==
  ASSUME TypeOK, Underway, AddrInv, UNCHANGED << rcv, addrState >>,
         \/ devOut' = devOut
         \/ \E m \in Message : /\ devOut' = Append(devOut, m)
                               /\ m = "D" => Has(devReq, "S B"),
         Has(devReq', "S B") => Has(devReq, "S B")
  PROVE  AddrInv'
<1>1. devOut \in Seq(Message)
  BY DEF TypeOK
<1>2. CASE devOut' = devOut
  BY <1>2 DEF AddrInv
<1>3. ASSUME NEW m \in Message, devOut' = Append(devOut, m), m = "D" => Has(devReq, "S B")
      PROVE  AddrInv'
  <2>1. Has(devOut', "D") <=> Has(devOut, "D") \/ m = "D"
    BY <1>1, <1>3, HasAppend
  <2>2. rcv # "IDLE" => Head(devOut') = Head(devOut)
    BY <1>1, <1>3, HeadTailAppend DEF Underway
  <2> QED BY <1>3, <2>1, <2>2 DEF AddrInv
<1> QED BY <1>2, <1>3

(* A message is begun, received or a failure: the steps of the receiver.   *)
LEMMA AddrReceived ==
  ASSUME TypeOK, Underway, AddrInv, DeviceWorker
  PROVE  AddrInv'
<1>1. devOut \in Seq(Message) /\ devReq \in Seq(Request)
  BY DEF TypeOK
<1>2. CASE RcvStart
  <2>1. /\ rcv = "IDLE" /\ devOut # << >> /\ rcv' = Head(devOut)
        /\ UNCHANGED << devOut, devReq >>
        /\ addrState' = IF Head(devOut) = "A" THEN "EXPECT" ELSE addrState
    BY <1>2 DEF RcvStart, deviceVars
  <2>2. addrState # "EXPECT"
    BY <2>1 DEF AddrInv
  <2> QED BY <2>1, <2>2 DEF AddrInv
<1>3. ASSUME NEW m, Received(m), rcv # "IDLE"
      PROVE  /\ rcv = m /\ rcv' = "IDLE" /\ devOut # << >> /\ m = Head(devOut)
             /\ \A e : Has(devOut, e) <=> m = e \/ Has(devOut', e)
  <2>1. rcv = m /\ rcv' = "IDLE" /\ devOut' = Tail(devOut)
    BY <1>3 DEF Received
  <2>2. devOut # << >> /\ m = Head(devOut)
    BY <1>3, <2>1 DEF Underway, AddrInv
  <2>3. ASSUME NEW e PROVE Has(devOut, e) <=> Head(devOut) = e \/ Has(Tail(devOut), e)
    BY <1>1, <2>2, HasTail
  <2> QED BY <2>1, <2>2, <2>3
<1>4. ASSUME NEW m \in Message, m # "A", Received(m), addrState' = addrState,
             Has(devReq', "S B") => Has(devReq, "S B")
      PROVE  AddrInv'
  <2>1. rcv # "IDLE"
    BY <1>4 DEF Received, Message
  <2> QED BY <1>3, <1>4, <2>1 DEF AddrInv
<1>5. /\ "*" \in Message /\ "S" \in Message /\ "O" \in Message /\ "D" \in Message
      /\ "I" \in Message /\ "!" \in Message
  BY DEF Message
<1>6. CASE RcvIdent \/ RcvScopeStatus \/ RcvScopeOffset \/ RcvScopeData
  <2>1. \E m \in Message : m # "A" /\ Received(m)
    BY <1>5, <1>6 DEF RcvIdent, RcvScopeStatus, RcvScopeOffset, RcvScopeData
  <2>2. UNCHANGED << addrState, devReq >>
    BY <1>6 DEF RcvIdent, RcvScopeStatus, RcvScopeOffset, RcvScopeData, scopeVars
  <2> QED BY <1>4, <2>1, <2>2
<1>7. CASE RcvScopeAddr
  <2>1. Received("A") /\ addrState' = "COMPLETE" /\ rcv' = "IDLE"
    BY <1>7 DEF RcvScopeAddr, Received
  <2> QED BY <2>1 DEF AddrInv
<1>8. CASE RcvDigitalRead \/ RcvInterrupt
  <2>1. addrState' = addrState /\ \E m \in Message : m # "A" /\ Received(m)
    BY <1>5, <1>8 DEF RcvDigitalRead, RcvInterrupt, scopeVars
  <2>2. devReq' = devReq \/ devReq' = Append(devReq, "D !")
    BY <1>8 DEF RcvDigitalRead, RcvInterrupt, DigitalEvent, NoDigitalEvent
  <2>3. "D !" \in Request /\ "D !" # "S B"
    BY DEF Request
  <2>4. Has(devReq', "S B") => Has(devReq, "S B")
    BY <1>1, <2>2, <2>3, HasAppend
  <2> QED BY <1>4, <2>1, <2>4
<1>9. CASE RcvScopeDataFails \/ RcvDigitalEventFails
  BY <1>9 DEF RcvScopeDataFails, RcvDigitalEventFails, Fail, scopeVars, deviceVars, AddrInv
<1> QED BY <1>2, <1>6, <1>7, <1>8, <1>9 DEF DeviceWorker

LEMMA AddrStep ==
  ASSUME TypeOK, Underway, AddrInv, [Next]_vars
  PROVE  AddrInv'
<1>1. devReq \in Seq(Request)
  BY DEF TypeOK
<1>2. ASSUME UNCHANGED << rcv, devOut, addrState >>,
             Has(devReq', "S B") => Has(devReq, "S B")
      PROVE  AddrInv'
  BY <1>2 DEF AddrInv
<1>3. CASE Handler
  <2>1. "S B" \in Request /\ "S B" \notin { "D I", "D A", "S G", "S D", "D !" }
    BY DEF Request
  <2>2. Has(devReq', "S B") => Has(devReq, "S B")
    BY <1>3, <2>1, HandlerRequests
  <2> QED BY <1>2, <1>3, <2>2, HandlerRequests, HandlerFrame
<1>4. CASE LineDone \/ ProcessNoLine \/ ProcessEmptyLine \/ ProcessLine \/ CliRead
  BY <1>2, <1>4 DEF LineDone, ProcessNoLine, ProcessEmptyLine, ProcessLine, CliRead, Event,
     stdinFrame, scopeVars, deviceVars
<1>5. CASE DeviceWorker
  BY <1>5, AddrReceived
<1>6. ASSUME PlainEvent PROVE AddrInv'
  <2>1. /\ addrState' = addrState
        /\ \/ devReq' = devReq \/ devReq' = Append(devReq, "i")
           \/ devReq' = Append(devReq, "S S") \/ devReq' = Append(devReq, "S O")
    BY <1>6 DEF PlainEvent, IdentifyCompletion, IdentifyOutput, DigitalReadCompletion,
       DigitalReadOutput, ScopeStatusOutput, ScopeStatusCompletion, ScopeOffsetStart,
       Unblock, OutputFlush, scopeVars
  <2>2. /\ "i" \in Request /\ "S S" \in Request /\ "S O" \in Request
        /\ "S B" \notin { "i", "S S", "S O" }
    BY DEF Request
  <2>3. ASSUME NEW r \in Request, r # "S B", devReq' = Append(devReq, r)
        PROVE  Has(devReq', "S B") => Has(devReq, "S B")
    BY <1>1, <2>3, HasAppend
  <2>4. Has(devReq', "S B") => Has(devReq, "S B")
    BY <2>1, <2>2, <2>3
  <2> QED BY <1>2, <1>6, <2>1, <2>4, PlainEventFrame
<1>7. ASSUME Other PROVE AddrInv'
  <2>1. CASE DeviceAnswers \/ DeviceSelf
    BY <2>1, DeviceSays, AddrMessages
  <2>2. CASE ~(DeviceAnswers \/ DeviceSelf)
    <3>1. UNCHANGED << rcv, devOut, addrState, devReq >>
      BY <1>7, <2>2 DEF Other, Select, Exit, SelectTimeout, Stopped, SigAlrm, SigInt,
         IdentifyCompletionFails, Fail, CliNoRead, Client, ClientCloses, ClientSends,
         outsideLoop, stdinFrame, clientFrame, vars, deviceVars, scopeVars
    <3> QED BY <1>2, <3>1
  <2> QED BY <2>1, <2>2
<1> QED BY <1>3, <1>4, <1>5, <1>6, <1>7, Cases

(* Whatever the client sends, aborts and restarts: the data of a capture   *)
(* is received with its address known, so that the assertion of            *)
(* cgr101_scope_data_done holds for every sweep the device completes.      *)
THEOREM AddressComesFirst == Safe => []DataAfterAddress
<1>1. Init => AddrInv
  <2>1. \A e : ~Has(<< >>, e)
    BY DEF Has
  <2> QED BY <2>1 DEF Init, AddrInv
<1>2. IInv /\ AddrInv /\ [Next]_vars => AddrInv'
  BY AddrStep DEF IInv
<1>3. IInv /\ AddrInv => DataAfterAddress
  <2> SUFFICES ASSUME IInv, AddrInv, rcv = "D" PROVE addrState = "COMPLETE"
    BY DEF DataAfterAddress
  <2>1. devOut \in Seq(Message) /\ devOut # << >> /\ Head(devOut) = "D"
    BY DEF IInv, TypeOK, Underway, AddrInv
  <2>2. Has(devOut, "D")
    BY <2>1, HasTail
  <2> QED BY <2>2 DEF IInv, TypeOK, AddrInv
<1> QED BY <1>1, <1>2, <1>3, Invariance, PTL DEF Safe

----------------------------------------------------------------------------
(* The programs a client of some class runs.                               *)

(* A set of programs that holds what the client sends and what is left of  *)
(* a program when its first command was run or replaced by others.         *)
Expands(P, c, s) == \A p \in P : p # << >> /\ Head(p) = c => s \o Tail(p) \in P

IsClosed(P) ==
  /\ P \subseteq Seq(Command)
  /\ Lines \subseteq P /\ EndOfFile \in P /\ << >> \in P
  /\ \A p \in P : p # << >> => Tail(p) \in P
  /\ Expands(P, "READ:DIG:DATA?", << "ABOR", "INIT", "FETC:DIG:DATA?" >>)
  /\ Expands(P, "MEAS:DIG:DATA?", << "CONF:DIG:DATA", "ABOR", "INIT", "FETC:DIG:DATA?" >>)
  /\ Expands(P, "READ:DIG:EVEN?", << "ABOR", "INIT", "FETC:DIG:EVEN?" >>)
  /\ Expands(P, "MEAS:DIG:EVEN?", << "CONF:DIG:EVEN", "ABOR", "INIT", "FETC:DIG:EVEN?" >>)

Runs(P) == stdin \in Seq(P) /\ lines \in Seq(P) /\ prog \in P

(* What waits to be run is what the client has sent.                       *)
LinesFrom(P) == stdin \in Seq(P) /\ lines \in Seq(P)

LEMMA LinesStep ==
  ASSUME NEW P, Lines \subseteq P, EndOfFile \in P, Underway, LinesFrom(P), [Next]_vars
  PROVE  /\ LinesFrom(P)'
         /\ Handler \/ prog' = prog \/ (ProcessLine /\ lines # << >> /\ prog' = Head(lines))
<1>1. stdin \in Seq(P) /\ lines \in Seq(P)
  BY DEF LinesFrom
<1>3. ASSUME UNCHANGED << stdin, lines >> PROVE LinesFrom(P)'
  BY <1>1, <1>3 DEF LinesFrom
<1>4. CASE Handler
  BY <1>3, <1>4, HandlerFrame DEF clientVars
<1>5. CASE LineDone
  <2>1. pc = "exec" /\ UNCHANGED << stdin, prog >> /\ (lines' = lines \/ lines' = Tail(lines))
    BY <1>5 DEF LineDone, clientVars
  <2>2. lines # << >>
    BY <2>1 DEF Underway
  <2> QED BY <1>1, <2>1, <2>2 DEF LinesFrom
<1>6. CASE ProcessNoLine
  BY <1>3, <1>6, EventFrame DEF ProcessNoLine, lineState
<1>7. CASE ProcessEmptyLine
  <2>1. UNCHANGED << stdin, prog >> /\ lines # << >> /\ lines' = Tail(lines)
    BY <1>7, EventFrame DEF ProcessEmptyLine
  <2> QED BY <1>1, <2>1 DEF LinesFrom
<1>8. CASE ProcessLine
  <2>1. UNCHANGED << stdin, lines >> /\ lines # << >> /\ prog' = Head(lines)
    BY <1>8, EventFrame DEF ProcessLine
  <2> QED BY <1>3, <1>8, <2>1
<1>9. CASE CliRead
  <2>1. PICK n \in 1..Len(stdin) : /\ lines' = SubSeq(stdin, 1, n)
                                   /\ stdin' = SubSeq(stdin, n + 1, Len(stdin))
    BY <1>9 DEF CliRead
  <2>2. prog' = prog
    BY <1>9 DEF CliRead, stdinFrame
  <2>3. SubSeq(stdin, 1, n) \in Seq(P) /\ SubSeq(stdin, n + 1, Len(stdin)) \in Seq(P)
    <3>1. Len(stdin) \in Nat /\ \A i \in 1..Len(stdin) : stdin[i] \in P
      BY <1>1
    <3> QED BY <1>1, <3>1, SubSeqProperties
  <2> QED BY <2>1, <2>2, <2>3 DEF LinesFrom
<1>10. CASE DeviceWorker
  <2>1. stdin' = stdin
    BY <1>10 DEF DeviceWorker, RcvStart, RcvIdent, RcvScopeStatus, RcvScopeOffset, RcvScopeAddr,
       RcvScopeData, RcvDigitalRead, RcvInterrupt, Received, RcvScopeDataFails,
       RcvDigitalEventFails, Fail, clientVars
  <2> QED BY <1>3, <1>10, <2>1, DeviceFrame
<1>11. ASSUME PlainEvent PROVE LinesFrom(P)' /\ prog' = prog
  <2>1. \E e : Event(e)
    BY <1>11, Zenon DEF PlainEvent, IdentifyCompletion, IdentifyOutput, DigitalReadCompletion,
       DigitalReadOutput, ScopeStatusOutput, ScopeStatusCompletion, ScopeOffsetStart,
       Unblock, OutputFlush
  <2> QED BY <1>3, <1>11, <2>1, EventFrame, PlainEventFrame
<1>12. ASSUME Other PROVE LinesFrom(P)' /\ prog' = prog
  <2>1. CASE Client
    <3>1. lines' = lines /\ prog' = prog
      BY <1>12, OtherFrame
    <3>2. \E p \in P : stdin' = Append(stdin, p)
      BY <2>1 DEF Client, ClientCloses, ClientSends
    <3> QED BY <1>1, <3>1, <3>2 DEF LinesFrom
  <2>2. CASE ~Client
    <3>1. stdin' = stdin
      BY <1>12, <2>2 DEF Other, Select, Exit, SelectTimeout, Stopped, SigAlrm, SigInt,
         IdentifyCompletionFails, Fail, CliNoRead, DeviceAnswers, DeviceSelf,
         DeviceTriggered, DeviceReportsInput, DeviceInterrupts, outsideLoop, clientVars, vars
    <3> QED BY <1>3, <1>12, <3>1, OtherFrame
  <2> QED BY <2>1, <2>2
<1> QED BY <1>4, <1>5, <1>6, <1>7, <1>8, <1>9, <1>10, <1>11, <1>12, Cases

(* A handler leaves the rest of the line, none of it, or one of the lists  *)
(* of commands that its command stands for.                                *)
LEMMA HandlerRest ==
  ASSUME Handler
  PROVE  \/ prog' = Tail(prog) /\ ~SyntaxError
         \/ SyntaxError /\ prog' = << >>
         \/ pc' = "failed" /\ prog' = prog
         \/ ReadOrMeasure
<1>1. CASE SyntaxError
  BY <1>1 DEF SyntaxError
<1>2. CASE SleepFails \/ AbortFails \/ ScopeDataQFails \/ ConfigureDigitalEventFails
  BY <1>2 DEF SleepFails, AbortFails, ScopeDataQFails, ConfigureDigitalEventFails, Fail,
     inputVars
<1>3. CASE ~ReadOrMeasure /\ ~SyntaxError
           /\ ~(SleepFails \/ AbortFails \/ ScopeDataQFails \/ ConfigureDigitalEventFails)
  <2>1. \E c : Run(c)
    BY <1>3, Zenon DEF Handler, VersionQ, DigitalEventRefused, Cls, Rst, Wai, OpcQ, Sleep,
       Quit, IdnQ,
       ChannelState, Enable, Initiate, InitiateImmediate, Abort, ScopeDataQ, ScopeStatusQ,
       ConfigureDigitalData, FetchDigitalData, ConfigureDigitalEvent, FetchDigitalEvent
  <2>2. prog' = Tail(prog)
    BY <2>1 DEF Run
  <2> QED BY <1>3, <2>2
<1> QED BY <1>1, <1>2, <1>3

(* What is run is always one of them.                                      *)
LEMMA RunsStep ==
  ASSUME NEW P, IsClosed(P), Underway, Runs(P), [Next]_vars
  PROVE  Runs(P)'
<1>1. LinesFrom(P) /\ prog \in P
  BY DEF Runs, LinesFrom
<1>2. /\ Lines \subseteq P /\ EndOfFile \in P /\ << >> \in P
      /\ \A p \in P : p # << >> => Tail(p) \in P
  BY DEF IsClosed
<1>3. /\ LinesFrom(P)'
      /\ Handler \/ prog' = prog \/ (ProcessLine /\ lines # << >> /\ prog' = Head(lines))
  BY <1>1, <1>2, LinesStep
<1>4. prog' \in P
  <2>1. CASE Handler
    <3>1. prog # << >>
      BY <2>1, HandlerFrame
    <3>2. CASE ReadOrMeasure
      BY <1>1, <3>1, <3>2, Zenon DEF ReadOrMeasure, Expand, At, IsClosed, Expands
    <3>3. CASE ~ReadOrMeasure
      BY <1>1, <1>2, <2>1, <3>1, <3>3, HandlerRest
    <3> QED BY <3>2, <3>3
  <2>2. CASE lines # << >> /\ prog' = Head(lines)
    BY <1>1, <2>2 DEF LinesFrom
  <2> QED BY <1>1, <1>3, <2>1, <2>2
<1> QED BY <1>3, <1>4 DEF Runs, LinesFrom

(* The tokens a handler sends: of the queries that are answered later, and *)
(* the unblock of an abort that ends something.                            *)
LateOutput == { "IDENTIFY_OUTPUT", "SCOPE_STATUS_OUTPUT", "DIGITAL_READ_OUTPUT" }

LEMMA HandlerSends ==
  ASSUME Handler, evq \in Seq(EventId)
  PROVE  \E s \in Seq(EventId) :
           /\ evq' = evq \o s
           /\ \A e : Has(s, e) =>
                \/ e \in LateOutput /\ (e = "IDENTIFY_OUTPUT" => Head(prog) = "*IDN?")
                \/ e = "UNBLOCK" /\ (sweep \/ digEv) /\ Head(prog) = "ABOR"
<1> DEFINE Sent(s) == /\ evq' = evq \o s
                      /\ \A e : Has(s, e) =>
                           \/ /\ e \in LateOutput
                              /\ e = "IDENTIFY_OUTPUT" => Head(prog) = "*IDN?"
                           \/ e = "UNBLOCK" /\ (sweep \/ digEv) /\ Head(prog) = "ABOR"
<1> SUFFICES \E s \in Seq(EventId) : Sent(s)
  OBVIOUS
<1>1. << >> \in Seq(EventId) /\ \A e : ~Has(<< >>, e)
  BY DEF Has
<1>2. ASSUME evq' = evq PROVE \E s \in Seq(EventId) : Sent(s)
  <2>1. evq' = evq \o << >>
    BY <1>2
  <2> QED BY <1>1, <2>1, Zenon
<1>3. ASSUME NEW t \in LateOutput, evq' = evq \o << t >>,
             t = "IDENTIFY_OUTPUT" => Head(prog) = "*IDN?"
      PROVE  \E s \in Seq(EventId) : Sent(s)
  <2>1. t \in EventId
    BY DEF LateOutput, EventId
  <2>2. << t >> \in Seq(EventId) /\ \A e : Has(<< t >>, e) => e = t
    BY <2>1, HasOne
  <2> QED BY <1>3, <2>2, Zenon
<1>4. CASE IdnQ \/ ScopeStatusQ \/ (FetchDigitalData /\ digReq)
  <2>2. FetchDigitalData /\ digReq => evq' = evq \o << "DIGITAL_READ_OUTPUT" >>
    BY Zenon DEF FetchDigitalData, Send, If
  <2>1. \E t \in LateOutput : /\ evq' = evq \o << t >>
                              /\ t = "IDENTIFY_OUTPUT" => Head(prog) = "*IDN?"
    BY <1>4, <2>2 DEF IdnQ, ScopeStatusQ, FetchDigitalData, Send, If, LateOutput, Run, At
  <2> QED BY <1>3, <2>1
<1>5. CASE Abort
  <2> DEFINE a == If(sweep, << "UNBLOCK" >>)
             b == If(digEv, << "UNBLOCK" >>)
  <2>1. evq' = evq \o (a \o b) /\ Head(prog) = "ABOR"
    BY <1>5 DEF Abort, Send, Run, At
  <2>2. "UNBLOCK" \in EventId
    BY DEF EventId
  <2>3. << "UNBLOCK" >> \in Seq(EventId) /\ \A e : Has(<< "UNBLOCK" >>, e) => e = "UNBLOCK"
    BY <2>2, HasOne
  <2>4. /\ a \in Seq(EventId) /\ \A e : Has(a, e) => sweep /\ e = "UNBLOCK"
        /\ b \in Seq(EventId) /\ \A e : Has(b, e) => digEv /\ e = "UNBLOCK"
    BY <1>1, <2>3, Zenon DEF If
  <2> HIDE DEF a, b
  <2>5. a \o b \in Seq(EventId)
    BY <2>4, ConcatProperties, Zenon
  <2>6. ASSUME NEW e, Has(a \o b, e)
        PROVE  e = "UNBLOCK" /\ (sweep \/ digEv)
    <3>1. Has(a, e) \/ Has(b, e)
      BY <2>4, <2>6, HasConcat, Zenon
    <3> QED BY <2>4, <3>1
  <2> QED BY <2>1, <2>5, <2>6, Zenon
<1>7. CASE FetchDigitalData /\ ~digReq
  <2>1. evq' = evq \o << >>
    BY <1>7, Zenon DEF FetchDigitalData, Send, If
  <2> QED BY <1>1, <2>1, Zenon
<1>6. CASE ~Abort /\ ~(IdnQ \/ ScopeStatusQ \/ FetchDigitalData)
  <2>1. evq' = evq
    BY <1>6, Zenon DEF Handler, VersionQ, DigitalEventRefused, Cls, Rst, Wai, OpcQ, Sleep,
       SleepFails, Quit,
       SyntaxError, ChannelState, Enable, Initiate, InitiateImmediate, AbortFails, ScopeDataQ,
       ScopeDataQFails, ConfigureDigitalData, ConfigureDigitalEvent,
       ConfigureDigitalEventFails, FetchDigitalEvent, ReadOrMeasure, Expand, Fail
  <2> QED BY <1>2, <2>1
<1> QED BY <1>4, <1>5, <1>6, <1>7

(* The programs of some of the commands, with those they expand to.        *)
LEMMA ClosedCommands ==
  ASSUME NEW C, C \subseteq Command, Lines \subseteq Seq(C),
         { "ABOR", "INIT", "CONF:DIG:DATA", "FETC:DIG:DATA?", "FETC:DIG:EVEN?" } \subseteq C,
         "MEAS:DIG:EVEN?" \in C => "CONF:DIG:EVEN" \in C
  PROVE  IsClosed(Seq(C \cup { "EOF" }))
<1> DEFINE D == C \cup { "EOF" }
<1>1. D \subseteq Command
  BY DEF Command
<1>2. /\ "ABOR" \in D /\ "INIT" \in D /\ "CONF:DIG:DATA" \in D /\ "FETC:DIG:DATA?" \in D
      /\ "FETC:DIG:EVEN?" \in D /\ "EOF" \in D
      /\ "MEAS:DIG:EVEN?" \in D => "CONF:DIG:EVEN" \in D
  OBVIOUS
<1>3. Lines \subseteq Seq(D) /\ Seq(D) \subseteq Seq(Command)
  <2>1. C \subseteq D
    OBVIOUS
  <2> QED BY <1>1, <2>1, SeqMonotonic
<1> HIDE DEF D
<1>4. EndOfFile \in Seq(D) /\ << >> \in Seq(D)
  BY <1>2 DEF EndOfFile
<1>5. ASSUME NEW p \in Seq(D), p # << >> PROVE Head(p) \in D /\ Tail(p) \in Seq(D)
  BY <1>5
<1>6. ASSUME NEW c, NEW s \in Seq(D) PROVE Expands(Seq(D), c, s)
  BY <1>5, <1>6 DEF Expands
<1>7. Expands(Seq(D), "READ:DIG:DATA?", << "ABOR", "INIT", "FETC:DIG:DATA?" >>)
  <2>1. << "ABOR", "INIT", "FETC:DIG:DATA?" >> \in Seq(D)
    BY <1>2
  <2> QED BY <1>6, <2>1
<1>8. Expands(Seq(D), "MEAS:DIG:DATA?", << "CONF:DIG:DATA", "ABOR", "INIT", "FETC:DIG:DATA?" >>)
  <2>1. << "CONF:DIG:DATA", "ABOR", "INIT", "FETC:DIG:DATA?" >> \in Seq(D)
    BY <1>2
  <2> QED BY <1>6, <2>1
<1>9. Expands(Seq(D), "READ:DIG:EVEN?", << "ABOR", "INIT", "FETC:DIG:EVEN?" >>)
  <2>1. << "ABOR", "INIT", "FETC:DIG:EVEN?" >> \in Seq(D)
    BY <1>2
  <2> QED BY <1>6, <2>1
<1>10. Expands(Seq(D), "MEAS:DIG:EVEN?", << "CONF:DIG:EVEN", "ABOR", "INIT", "FETC:DIG:EVEN?" >>)
  <2>1. CASE "CONF:DIG:EVEN" \in D
    <3>1. << "CONF:DIG:EVEN", "ABOR", "INIT", "FETC:DIG:EVEN?" >> \in Seq(D)
      BY <1>2, <2>1
    <3> QED BY <1>6, <3>1
  <2>2. CASE "MEAS:DIG:EVEN?" \notin D
    BY <1>5, <2>2 DEF Expands
  <2> QED BY <1>2, <2>1, <2>2
<1>11. IsClosed(Seq(D))
  BY <1>3, <1>4, <1>5, <1>7, <1>8, <1>9, <1>10, Zenon DEF IsClosed
<1> QED BY <1>11 DEF D

----------------------------------------------------------------------------
(* What a step must leave to read for the workers that are still to be     *)
(* called.                                                                 *)
LEMMA VainStep ==
  ASSUME TypeOK, TypeOK', Underway, [Next]_vars
  PROVE  CalledInVain' \subseteq CalledInVain \/ SigAlrm \/ SigInt
<1>2. /\ evq \in Seq(EventId) /\ evq' \in Seq(EventId)
      /\ devOut \in Seq(Message) /\ stdin \in Seq(Seq(Command))
  BY DEF TypeOK
<1>3. ASSUME ready' \subseteq ready,
             "event" \in ready' /\ evq # << >> => evq' # << >>,
             "device" \in ready' /\ devOut # << >> => devOut' # << >>,
             "stdin" \in ready' /\ stdin # << >> => stdin' # << >>
      PROVE  CalledInVain' \subseteq CalledInVain
  BY <1>3 DEF CalledInVain
<1>4. ASSUME evq' = evq \/ \E s \in Seq(EventId) : evq' = evq \o s
      PROVE  evq # << >> => evq' # << >>
  BY <1>2, <1>4
<1>5. ASSUME NEW e, Event(e) PROVE CalledInVain' \subseteq CalledInVain
  <2>1. "event" \notin ready' /\ ready' \subseteq ready /\ UNCHANGED << devOut, stdin >>
    BY <1>5 DEF Event, Return
  <2> QED BY <1>3, <2>1
<1>6. CASE Handler
  <2>1. evq' = evq \/ \E s \in Seq(EventId) : evq' = evq \o s
    BY <1>2, <1>6, HandlerSends
  <2>2. UNCHANGED << ready, devOut, stdin >>
    BY <1>6, HandlerFrame DEF clientVars
  <2> QED BY <1>3, <1>4, <2>1, <2>2
<1>7. CASE LineDone
  <2>1. UNCHANGED << ready, devOut, stdin >>
    BY <1>7 DEF LineDone, deviceVars, clientVars
  <2>2. \E s \in Seq(EventId) : evq' = evq \o s
    <3>1. PICK s : s \in { << "OUTPUT_FLUSH" >>, << "OUTPUT_FLUSH" >> \o NextLine } /\ evq' = evq \o s
      BY <1>7, Zenon DEF LineDone, Send
    <3>2. NextLine \in Seq(EventId) /\ << "OUTPUT_FLUSH" >> \o NextLine \in Seq(EventId)
      BY Tokens DEF NextLine, If
    <3> QED BY <3>1, <3>2, Tokens
  <2> QED BY <1>3, <1>4, <2>1, <2>2
<1>8. CASE CliRead
  <2>1. /\ "stdin" \notin ready' /\ ready' \subseteq ready
        /\ evq' = evq \o << "PROCESS_LINE" >> /\ devOut' = devOut
    BY <1>8 DEF CliRead, Return, Send, stdinFrame, deviceVars
  <2> QED BY <1>3, <1>4, <2>1, Tokens
<1>9. CASE ProcessNoLine \/ ProcessEmptyLine \/ ProcessLine
  BY <1>5, <1>9 DEF ProcessNoLine, ProcessEmptyLine, ProcessLine
<1>10. ASSUME PlainEvent PROVE CalledInVain' \subseteq CalledInVain
  BY <1>5, <1>10, Zenon DEF PlainEvent, IdentifyCompletion, IdentifyOutput,
     DigitalReadCompletion, DigitalReadOutput, ScopeStatusOutput, ScopeStatusCompletion,
     ScopeOffsetStart, Unblock, OutputFlush
<1>11. CASE DeviceWorker
  <2>1. evq # << >> => evq' # << >>
    BY <1>4, <1>11, DeviceFrame
  <2>2. ASSUME NEW rest, ReturnOrGoOn(rest)
        PROVE  ready' \subseteq ready /\ ("device" \in ready' => rest # << >>)
    BY <2>2 DEF ReturnOrGoOn, Return
  <2>3. ASSUME NEW m, Received(m) PROVE CalledInVain' \subseteq CalledInVain
    <3>1. ReturnOrGoOn(Tail(devOut)) /\ devOut' = Tail(devOut) /\ stdin' = stdin
      BY <2>3 DEF Received, clientVars
    <3> QED BY <1>3, <2>1, <2>2, <3>1
  <2>4. CASE RcvStart
    <3>1. ReturnOrGoOn(devOut) /\ UNCHANGED << devOut, stdin >>
      BY <2>4 DEF RcvStart, clientVars, deviceVars
    <3> QED BY <1>3, <2>1, <2>2, <3>1
  <2>5. CASE RcvScopeDataFails \/ RcvDigitalEventFails
    <3>1. UNCHANGED << ready, devOut, stdin >>
      BY <2>5 DEF RcvScopeDataFails, RcvDigitalEventFails, Fail, clientVars, deviceVars
    <3> QED BY <1>3, <2>1, <3>1
  <2> QED BY <1>11, <2>3, <2>4, <2>5, Zenon DEF DeviceWorker, RcvIdent, RcvScopeStatus,
         RcvScopeOffset, RcvScopeAddr, RcvScopeData, RcvDigitalRead, RcvInterrupt
<1>12. CASE Other
  <2>1. CASE Select
    <3>1. ready' = Readable /\ UNCHANGED << evq, devOut, stdin >>
      BY <2>1 DEF Select, outsideLoop, deviceVars, clientVars
    <3>2. CalledInVain' = {}
      BY <3>1 DEF CalledInVain, Readable
    <3> QED BY <3>2
  <2>2. CASE SigAlrm \/ SigInt
    BY <2>2
  <2>3. CASE ~Select /\ ~SigAlrm /\ ~SigInt
    <3>1. ready' \subseteq ready
      BY <1>12, <2>3 DEF Other, Exit, SelectTimeout, Stopped, IdentifyCompletionFails, Fail,
         CliNoRead, Return, DeviceAnswers, DeviceSelf, DeviceTriggered, DeviceReportsInput,
         DeviceInterrupts, serverSide, Client, ClientCloses, ClientSends, clientFrame,
         outsideLoop, stdinFrame, loopVars, vars
    <3>2. evq' = evq /\ (devOut' = devOut \/ \E m \in Message : devOut' = Append(devOut, m))
      BY <1>12, OtherFrame
    <3>3. stdin' = stdin \/ \E l \in Seq(Command) : stdin' = Append(stdin, l)
      <4>1. EndOfFile \in Seq(Command) /\ Lines \subseteq Seq(Command)
        BY SeqMonotonic, ConstantsAssumption DEF EndOfFile, Command
      <4> QED BY <1>12, <2>3, <4>1 DEF Other, Exit, SelectTimeout, Stopped,
             IdentifyCompletionFails, Fail, CliNoRead, stdinFrame, DeviceAnswers, DeviceSelf,
             DeviceTriggered, DeviceReportsInput, DeviceInterrupts, Client, ClientCloses,
             ClientSends, outsideLoop, clientVars, vars
    <3> QED BY <1>2, <1>3, <3>1, <3>2, <3>3
  <2> QED BY <2>1, <2>2, <2>3
<1> QED BY <1>6, <1>7, <1>8, <1>9, <1>10, <1>11, <1>12, Cases

(* Whatever the client sends and the device reports: a worker is called    *)
(* with nothing to read only when a signal has ended select(), so that     *)
(* without one the only thread there is never waits in a read()            *)
(* (server_select, worker_run_ready, event_run, cgr101_out).               *)
THEOREM ReadsHaveInput == Safe => OnlySignalsCallInVain
<1>1. IInv /\ IInv' /\ [Next]_vars => (CalledInVain' \subseteq CalledInVain \/ SigAlrm \/ SigInt)
  BY VainStep DEF IInv
<1> QED BY <1>1, Invariance, PTL DEF Safe, OnlySignalsCallInVain

----------------------------------------------------------------------------
(* The tokens that the other steps send.                                   *)

Completions == { "IDENTIFY_COMPLETE", "SCOPE_STATUS_COMPLETE", "DIGITAL_READ_COMPLETE" }

(* The receiver sends completions, and the unblock of what it ends.        *)
LEMMA ReceiverTokens ==
  ASSUME DeviceWorker, evq \in Seq(EventId)
  PROVE  \E s \in Seq(EventId) :
           /\ evq' = evq \o s
           /\ \A e : Has(s, e) =>
                \/ e \in Completions /\ (e = "IDENTIFY_COMPLETE" => rcv = "*")
                \/ e = "UNBLOCK" /\ (rcv = "D" \/ chanMask # {})
<1> DEFINE Sent(s) == /\ evq' = evq \o s
                      /\ \A e : Has(s, e) =>
                           \/ e \in Completions /\ (e = "IDENTIFY_COMPLETE" => rcv = "*")
                           \/ e = "UNBLOCK" /\ (rcv = "D" \/ chanMask # {})
<1> SUFFICES \E s \in Seq(EventId) : Sent(s)
  OBVIOUS
<1>1. << >> \in Seq(EventId) /\ \A e : ~Has(<< >>, e)
  BY DEF Has
<1>2. ASSUME evq' = evq PROVE \E s \in Seq(EventId) : Sent(s)
  <2>1. evq' = evq \o << >>
    BY <1>2
  <2> QED BY <1>1, <2>1, Zenon
<1>3. ASSUME NEW t \in EventId PROVE << t >> \in Seq(EventId) /\ \A e : Has(<< t >>, e) => e = t
  BY HasOne
<1>4. /\ Completions \subseteq EventId /\ "UNBLOCK" \in EventId
      /\ "IDENTIFY_COMPLETE" \in Completions /\ "SCOPE_STATUS_COMPLETE" \in Completions
      /\ "DIGITAL_READ_COMPLETE" \in Completions
  BY DEF Completions, EventId
<1>5. CASE RcvStart \/ RcvScopeOffset \/ RcvScopeAddr \/ RcvScopeDataFails \/ RcvDigitalEventFails
  BY <1>2, <1>5 DEF RcvStart, RcvScopeOffset, RcvScopeAddr, RcvScopeDataFails,
     RcvDigitalEventFails, Fail
<1>6. CASE RcvIdent \/ RcvScopeStatus
  <2>1. PICK t \in Completions : evq' = evq \o << t >> /\ (t = "IDENTIFY_COMPLETE" => rcv = "*")
    BY <1>4, <1>6 DEF RcvIdent, RcvScopeStatus, Send, Received
  <2>2. << t >> \in Seq(EventId) /\ \A e : Has(<< t >>, e) => e = t
    BY <1>3, <1>4
  <2> QED BY <2>1, <2>2, Zenon
<1>7. CASE RcvScopeData
  <2>1. evq' = evq \o << "UNBLOCK" >> /\ rcv = "D"
    BY <1>7 DEF RcvScopeData, Send, Received
  <2> QED BY <1>3, <1>4, <2>1, Zenon
<1>8. ASSUME NEW t \in Seq(EventId),
             \A e : Has(t, e) => e \in Completions /\ e # "IDENTIFY_COMPLETE",
             \/ NoDigitalEvent(t)
             \/ chanMask # {} /\ \E chan : DigitalEvent(chan, t)
      PROVE  \E s \in Seq(EventId) : Sent(s)
  <2>1. \/ evq' = evq \o t
        \/ chanMask # {} /\ evq' = evq \o (<< "UNBLOCK" >> \o t)
    BY <1>8, Zenon DEF NoDigitalEvent, DigitalEvent, Send
  <2>2. CASE evq' = evq \o t
    BY <1>8, <2>2, Zenon
  <2>3. CASE chanMask # {} /\ evq' = evq \o (<< "UNBLOCK" >> \o t)
    <3>1. << "UNBLOCK" >> \in Seq(EventId) /\ \A e : Has(<< "UNBLOCK" >>, e) => e = "UNBLOCK"
      BY <1>3, <1>4
    <3>2. << "UNBLOCK" >> \o t \in Seq(EventId)
      BY <1>8, <3>1, ConcatProperties, Zenon
    <3>3. \A e : Has(<< "UNBLOCK" >> \o t, e) => Has(<< "UNBLOCK" >>, e) \/ Has(t, e)
      BY <3>1, HasConcat, Zenon
    <3> QED BY <1>8, <2>3, <3>1, <3>2, <3>3, Zenon
  <2> QED BY <2>1, <2>2, <2>3
<1>9. CASE RcvDigitalRead
  <2>1. /\ << "DIGITAL_READ_COMPLETE" >> \in Seq(EventId)
        /\ \A e : Has(<< "DIGITAL_READ_COMPLETE" >>, e)
             => e \in Completions /\ e # "IDENTIFY_COMPLETE"
    BY <1>3, <1>4
  <2> QED BY <1>8, <1>9, <2>1, Zenon DEF RcvDigitalRead
<1>10. CASE RcvInterrupt
  BY <1>1, <1>8, <1>10, Zenon DEF RcvInterrupt
<1> QED BY <1>5, <1>6, <1>7, <1>9, <1>10 DEF DeviceWorker

(* The plain event handlers: only the end of an operation sends for a      *)
(* line, and only after the flush of what it has answered.                 *)
LEMMA EventTokens ==
  ASSUME PlainEvent
  PROVE  \E s \in Seq(EventId) :
           /\ evq' = Tail(evq) \o s
           /\ ~Has(s, "UNBLOCK")
           /\ Has(s, "PROCESS_LINE") => Head(evq) = "UNBLOCK"
<1> DEFINE Sent(s) == /\ evq' = Tail(evq) \o s
                      /\ ~Has(s, "UNBLOCK")
                      /\ Has(s, "PROCESS_LINE") => Head(evq) = "UNBLOCK"
           Plain == { << >>, << "IDENTIFY_OUTPUT" >>, << "DIGITAL_READ_OUTPUT" >>,
                      << "OUTPUT_FLUSH" >>, << "SCOPE_STATUS_OUTPUT" >> }
           Both == << "OUTPUT_FLUSH", "PROCESS_LINE" >>
<1>1. ASSUME NEW s \in Plain PROVE s \in Seq(EventId) /\ ~Has(s, "UNBLOCK") /\ ~Has(s, "PROCESS_LINE")
  <2>1. \A e : ~Has(<< >>, e)
    BY DEF Has
  <2>2. ASSUME NEW e \in EventId, e # "UNBLOCK", e # "PROCESS_LINE"
        PROVE  /\ << e >> \in Seq(EventId)
               /\ ~Has(<< e >>, "UNBLOCK") /\ ~Has(<< e >>, "PROCESS_LINE")
    BY <2>2, HasOne
  <2>3. << >> \in Seq(EventId)
    OBVIOUS
  <2>4. /\ "IDENTIFY_OUTPUT" \in EventId /\ "DIGITAL_READ_OUTPUT" \in EventId
        /\ "OUTPUT_FLUSH" \in EventId /\ "SCOPE_STATUS_OUTPUT" \in EventId
    BY DEF EventId
  <2> QED BY <2>1, <2>2, <2>3, <2>4
<1>2. CASE Unblock
  <2>1. Head(evq) = "UNBLOCK" /\ evq' = Tail(evq) \o Both
    BY <1>2, EventFrame DEF Unblock, Then
  <2>2. Both \in Seq(EventId) /\ ~Has(Both, "UNBLOCK")
    <3>1. Both \in Seq(EventId) /\ Len(Both) = 2
      BY Tokens
    <3>2. \A i \in 1..2 : Both[i] # "UNBLOCK"
      OBVIOUS
    <3> HIDE DEF Both
    <3> QED BY <3>1, <3>2 DEF Has
  <2> QED BY <2>1, <2>2
<1>3. CASE ~Unblock
  <2>1. \A c, s : s \in Plain => If(c, s) \in Plain
    BY DEF If
  <2>2. /\ << >> \in Plain /\ << "IDENTIFY_OUTPUT" >> \in Plain
        /\ << "DIGITAL_READ_OUTPUT" >> \in Plain /\ << "OUTPUT_FLUSH" >> \in Plain
        /\ << "SCOPE_STATUS_OUTPUT" >> \in Plain
    OBVIOUS
  <2> HIDE DEF Plain
  <2>3. \E s \in Plain : evq' = Tail(evq) \o s
    BY <1>3, <2>1, <2>2, Zenon
    DEF PlainEvent, IdentifyCompletion, IdentifyOutput, DigitalReadCompletion,
        DigitalReadOutput, ScopeStatusOutput, ScopeStatusCompletion, ScopeOffsetStart,
        OutputFlush, Then
  <2> QED BY <1>1, <2>3
<1> QED BY <1>2, <1>3

(* One token of a kind at most.                                            *)
Alone(s, e) == \A i, j \in 1..Len(s) : s[i] = e /\ s[j] = e => i = j

LEMMA AloneConcat ==
  ASSUME NEW S, NEW s \in Seq(S), NEW t \in Seq(S), NEW e,
         \/ Alone(s, e) /\ ~Has(t, e)
         \/ ~Has(s, e) /\ Alone(t, e)
  PROVE  Alone(s \o t, e)
<1> DEFINE u == s \o t
<1>1. /\ Len(s) \in Nat /\ Len(t) \in Nat /\ Len(u) = Len(s) + Len(t)
      /\ \A i \in 1..Len(s) + Len(t) : u[i] = IF i <= Len(s) THEN s[i] ELSE t[i - Len(s)]
  BY ConcatProperties, LenProperties
<1> HIDE DEF u
<1>2. ASSUME NEW i \in 1..Len(u), u[i] = e
      PROVE  \/ i \in 1..Len(s) /\ s[i] = e
             \/ i - Len(s) \in 1..Len(t) /\ t[i - Len(s)] = e
  BY <1>1, <1>2
<1>3. ASSUME NEW i \in 1..Len(u), NEW j \in 1..Len(u), u[i] = e, u[j] = e PROVE i = j
  <2>1. CASE Alone(s, e) /\ ~Has(t, e)
    <3>1. i \in 1..Len(s) /\ s[i] = e /\ j \in 1..Len(s) /\ s[j] = e
      BY <1>2, <1>3, <2>1 DEF Has
    <3> QED BY <2>1, <3>1 DEF Alone
  <2>2. CASE ~Has(s, e) /\ Alone(t, e)
    <3>1. /\ i - Len(s) \in 1..Len(t) /\ t[i - Len(s)] = e
          /\ j - Len(s) \in 1..Len(t) /\ t[j - Len(s)] = e
      BY <1>2, <1>3, <2>2 DEF Has
    <3>2. i - Len(s) = j - Len(s)
      BY <2>2, <3>1, Zenon DEF Alone
    <3> QED BY <1>1, <3>2
  <2> QED BY <2>1, <2>2
<1> QED BY <1>3 DEF Alone, u

LEMMA AloneTail ==
  ASSUME NEW S, NEW s \in Seq(S), s # << >>, NEW e, Alone(s, e)
  PROVE  Alone(Tail(s), e) /\ (Head(s) = e => ~Has(Tail(s), e))
<1>1. /\ Len(s) \in Nat /\ Len(s) >= 1 /\ Len(Tail(s)) = Len(s) - 1 /\ Head(s) = s[1]
      /\ \A i \in 1..Len(s) - 1 : Tail(s)[i] = s[i + 1]
  OBVIOUS
<1>2. PICK t : t = Tail(s)
  OBVIOUS
<1>3. ASSUME NEW i \in 1..Len(t), t[i] = e PROVE i + 1 \in 1..Len(s) /\ s[i + 1] = e /\ i # 0
  BY <1>1, <1>2, <1>3
<1>4. Alone(t, e)
  <2> SUFFICES ASSUME NEW i \in 1..Len(t), NEW j \in 1..Len(t), t[i] = e, t[j] = e PROVE i = j
    BY DEF Alone
  <2>1. i + 1 = j + 1
    BY <1>3 DEF Alone
  <2> QED BY <2>1
<1>5. ASSUME Head(s) = e, NEW i \in 1..Len(t), t[i] = e PROVE FALSE
  <2>1. i + 1 = 1
    BY <1>1, <1>3, <1>5 DEF Alone
  <2> QED BY <1>3, <2>1
<1> QED BY <1>2, <1>4, <1>5 DEF Has

LEMMA AloneCounts ==
  ASSUME NEW s \in Seq(EventId), NEW e, Alone(s, e)
  PROVE  Cardinality({ i \in 1..Len(s) : s[i] = e }) <= 1
<1> DEFINE S == { i \in 1..Len(s) : s[i] = e }
<1>1. CASE S = {}
  <2>1. Cardinality(S) = 0
    BY <1>1, FS_EmptySet
  <2> QED BY <2>1
<1>2. CASE S # {}
  <2>1. PICK i \in S : TRUE
    BY <1>2
  <2>2. S = { i }
    BY <2>1 DEF Alone
  <2>3. Cardinality(S) = 1
    BY <2>2, FS_Singleton
  <2> QED BY <2>3
<1> QED BY <1>1, <1>2

----------------------------------------------------------------------------
(* What the steps change of the operations and of the device's side.       *)

operations == << sweep, overlapped, enabled, digEv, chanMask >>
deviceSide == << devReq, devOut, armed, intArmed >>

(* A message is received whole or not at all; the last byte of a buffer    *)
(* ends the sweep, the last event of a record the record, and an interrupt *)
(* that is not the last one is armed again.                                *)
LEMMA ReceiverFrame ==
  ASSUME Underway, AddrInv, DeviceWorker
  PROVE  /\ UNCHANGED << enabled, armed, intArmed >>
         /\ \/ UNCHANGED << evq, devReq, devOut, operations >>
            \/ /\ rcv = Head(devOut) /\ devOut # << >> /\ devOut' = Tail(devOut)
               /\ rcv = "A" => devReq' = Append(devReq, "S B")
               /\ rcv # "A" =>
                    \/ devReq' = devReq
                    \/ rcv = "!" /\ "INT" \in chanMask /\ devReq' = Append(devReq, "D !")
               /\ rcv = "D" => ~sweep' /\ ~overlapped'
               /\ rcv # "D" => UNCHANGED << sweep, overlapped >>
               /\ \/ UNCHANGED << digEv, chanMask >>
                  \/ chanMask # {} /\ ~digEv' /\ chanMask' = {}
               /\ rcv = "!" /\ "INT" \in chanMask' => devReq' = Append(devReq, "D !")
<1> USE DEF scopeVars, deviceVars, digitalVars, digEvVars
<1>1. CASE RcvStart \/ RcvScopeDataFails \/ RcvDigitalEventFails
  BY <1>1 DEF RcvStart, RcvScopeDataFails, RcvDigitalEventFails, Fail, operations
<1>2. ASSUME NEW m \in Message, Received(m)
      PROVE  /\ rcv = m /\ rcv = Head(devOut) /\ devOut # << >> /\ devOut' = Tail(devOut)
             /\ UNCHANGED << armed, intArmed >>
  <2>1. rcv = m /\ rcv # "IDLE" /\ devOut' = Tail(devOut) /\ UNCHANGED << armed, intArmed >>
    BY <1>2 DEF Received, Message
  <2> QED BY <2>1 DEF Underway, AddrInv
<1>3. /\ "*" \in Message /\ "S" \in Message /\ "O" \in Message /\ "D" \in Message
      /\ "I" \in Message /\ "!" \in Message /\ "A" \in Message
  BY DEF Message
<1>4. CASE RcvIdent \/ RcvScopeStatus \/ RcvScopeOffset
  <2>1. rcv \in { "*", "S", "O" }
    BY <1>2, <1>3, <1>4 DEF RcvIdent, RcvScopeStatus, RcvScopeOffset
  <2> QED BY <1>2, <1>3, <1>4, <2>1 DEF RcvIdent, RcvScopeStatus, RcvScopeOffset
<1>5. CASE RcvScopeAddr
  BY <1>2, <1>3, <1>5 DEF RcvScopeAddr
<1>6. CASE RcvScopeData
  BY <1>2, <1>3, <1>6 DEF RcvScopeData, ScopeDataDone
<1>7. CASE RcvDigitalRead
  <2>1. rcv = "I" /\ UNCHANGED << sweep, overlapped, enabled >>
    BY <1>2, <1>3, <1>7 DEF RcvDigitalRead
  <2>2. /\ devReq' = devReq
        /\ \/ UNCHANGED << digEv, chanMask >>
           \/ chanMask # {} /\ ~digEv' /\ chanMask' = {}
    BY <1>7 DEF RcvDigitalRead, NoDigitalEvent, DigitalEvent, DigitalEventDone
  <2> QED BY <1>2, <1>3, <1>7, <2>1, <2>2 DEF RcvDigitalRead
<1>8. CASE RcvInterrupt
  <2>1. rcv = "!" /\ UNCHANGED << sweep, overlapped, enabled >>
    BY <1>2, <1>3, <1>8 DEF RcvInterrupt
  <2>2. CASE "INT" \in chanMask
    <3>1. DigitalEvent("INT", << >>)
      BY <1>8, <2>2 DEF RcvInterrupt
    <3> QED BY <1>2, <1>3, <1>8, <2>1, <2>2, <3>1 DEF RcvInterrupt, DigitalEvent, DigitalEventDone
  <2>3. CASE "INT" \notin chanMask
    <3>1. NoDigitalEvent(<< >>)
      BY <1>8, <2>3 DEF RcvInterrupt
    <3> QED BY <1>2, <1>3, <1>8, <2>1, <2>3, <3>1 DEF RcvInterrupt, NoDigitalEvent
  <2> QED BY <2>2, <2>3
<1> QED BY <1>1, <1>4, <1>5, <1>6, <1>7, <1>8 DEF DeviceWorker

(* The handlers of the events ask for an identity, a status or offsets.    *)
LEMMA PlainEventAsks ==
  ASSUME PlainEvent
  PROVE  /\ UNCHANGED << operations, addrState, dataState, devOut, armed, intArmed, rcv >>
         /\ \/ devReq' = devReq
            \/ \E r \in { "i", "S S", "S O" } : devReq' = Append(devReq, r)
<1>1. /\ UNCHANGED << operations, addrState, dataState >>
      /\ \/ devReq' = devReq
         \/ \E r \in { "i", "S S", "S O" } : devReq' = Append(devReq, r)
  BY DEF PlainEvent, IdentifyCompletion, IdentifyOutput, DigitalReadCompletion,
     DigitalReadOutput, ScopeStatusOutput, ScopeStatusCompletion, ScopeOffsetStart,
     Unblock, OutputFlush, scopeVars, digitalVars, digEvVars, operations
<1>2. \E e : Event(e)
  BY Zenon DEF PlainEvent, IdentifyCompletion, IdentifyOutput, DigitalReadCompletion,
     DigitalReadOutput, ScopeStatusOutput, ScopeStatusCompletion, ScopeOffsetStart,
     Unblock, OutputFlush
<1> QED BY <1>1, <1>2, EventFrame, PlainEventFrame

(* What the device does: an address is sent by an armed capture, data for  *)
(* a buffer that was asked for; an interrupt when it was armed.            *)
LEMMA DeviceMoves ==
  ASSUME DeviceAnswers \/ DeviceSelf
  PROVE  /\ UNCHANGED << evq, ready, operations, addrState, dataState, rcv >>
         /\ \/ devReq' = devReq /\ (armed' => armed)
            \/ /\ devReq # << >> /\ devReq' = Tail(devReq)
               /\ armed' => armed \/ Head(devReq) = "S G"
               /\ Head(devReq) = "D !" => intArmed'
         /\ \/ devOut' = devOut
            \/ \E m \in Message : /\ devOut' = Append(devOut, m)
                                  /\ m = "A" => armed /\ ~armed'
                                  /\ m = "D" => devReq # << >> /\ Head(devReq) = "S B"
                                  /\ m = "S" => devReq # << >> /\ Head(devReq) = "S S"
                                  /\ m = "*" => devReq # << >> /\ Head(devReq) = "i"
         /\ intArmed /\ ~intArmed' => devOut' = Append(devOut, "!")
         /\ identReq' = identReq
<1> USE DEF serverSide, loopVars, operations, scopeVars, digitalVars, identVars
<1>1. CASE DeviceAnswers
  <2>1. PICK r : r = Head(devReq)
    OBVIOUS
  <2>2. /\ devReq # << >> /\ devReq' = Tail(devReq)
        /\ armed' = (r = "S G" \/ (r # "S D" /\ armed))
        /\ intArmed' = (r = "D !" \/ intArmed)
        /\ UNCHANGED << evq, ready, operations, addrState, dataState, rcv, identReq >>
    BY <1>1, <2>1 DEF DeviceAnswers
  <2>3. \/ devOut' = devOut
        \/ \E m \in Message : /\ devOut' = Append(devOut, m)
                              /\ << r, m >> \in Reply /\ (m = "A" => armed)
    BY <1>1, <2>1 DEF DeviceAnswers
  <2>4. ASSUME NEW m, << r, m >> \in Reply
        PROVE  /\ (m = "D" => r = "S B") /\ (m = "A" => r = "S D")
               /\ (m = "S" => r = "S S") /\ (m = "*" => r = "i")
    BY <2>4 DEF Reply
  <2>5. intArmed => intArmed'
    BY <2>2
  <2> QED BY <2>1, <2>2, <2>3, <2>4, <2>5
<1>2. CASE DeviceTriggered
  <2>1. "A" \in Message
    BY DEF Message
  <2> QED BY <1>2, <2>1 DEF DeviceTriggered
<1>3. CASE DeviceReportsInput
  <2>1. "I" \in Message
    BY DEF Message
  <2> QED BY <1>3, <2>1 DEF DeviceReportsInput
<1>4. CASE DeviceInterrupts
  <2>1. "!" \in Message
    BY DEF Message
  <2> QED BY <1>4, <2>1 DEF DeviceInterrupts
<1> QED BY <1>1, <1>2, <1>3, <1>4 DEF DeviceSelf

(* The rest leaves both alone.                                             *)
LEMMA OthersAside ==
  ASSUME \/ Other /\ ~DeviceAnswers /\ ~DeviceSelf
         \/ LineDone \/ ProcessNoLine \/ ProcessEmptyLine \/ ProcessLine \/ CliRead
  PROVE  UNCHANGED << operations, deviceSide, addrState, dataState, rcv >>
<1> USE DEF operations, deviceSide, deviceVars, scopeVars, digitalVars
<1>1. CASE LineDone \/ ProcessNoLine \/ ProcessEmptyLine \/ ProcessLine \/ CliRead
  BY <1>1 DEF LineDone, ProcessNoLine, ProcessEmptyLine, ProcessLine, CliRead, Event,
     stdinFrame
<1>2. CASE Other /\ ~DeviceAnswers /\ ~DeviceSelf
  BY <1>2 DEF Other, Select, Exit, SelectTimeout, Stopped, SigAlrm, SigInt,
     IdentifyCompletionFails, Fail, CliNoRead, Client, ClientCloses, ClientSends,
     outsideLoop, stdinFrame, clientFrame, vars
<1> QED BY <1>1, <1>2

----------------------------------------------------------------------------
(* A client that starts no operation: none is ever in progress, nothing is *)
(* captured, and no unblock is sent.                                       *)
Restful == Seq((Command \ Starters) \cup { "EOF" })

NothingRuns ==
  /\ ~enabled /\ ~sweep /\ ~digEv /\ chanMask = {} /\ ~armed
  /\ ~Has(devReq, "S G") /\ ~Has(devReq, "S B")
  /\ ~Has(devOut, "A") /\ ~Has(devOut, "D")
  /\ ~Queued("UNBLOCK")

LEMMA RestfulStep ==
  ASSUME StartsNothing(Lines), TypeOK, Underway, Runs(Restful), [Next]_vars
  PROVE  Runs(Restful)' /\ (Handler => Head(prog) \notin Starters)
<1> DEFINE C == Command \ Starters
<1>1. /\ C \subseteq Command /\ Lines \subseteq Seq(C) /\ "MEAS:DIG:EVEN?" \notin C
      /\ { "ABOR", "INIT", "CONF:DIG:DATA", "FETC:DIG:DATA?", "FETC:DIG:EVEN?" } \subseteq C
  BY DEF StartsNothing, Command, Starters
<1>2. \A c \in C \cup { "EOF" } : c \notin Starters
  BY DEF Starters
<1> HIDE DEF C
<1>3. IsClosed(Seq(C \cup { "EOF" }))
  BY <1>1, ClosedCommands
<1>4. Runs(Restful)'
  BY <1>3, RunsStep DEF C, Restful
<1>5. ASSUME Handler PROVE Head(prog) \notin Starters
  <2>1. prog # << >> /\ prog \in Seq(C \cup { "EOF" })
    BY <1>5, HandlerFrame DEF Runs, Restful, C
  <2> QED BY <1>2, <2>1
<1> QED BY <1>4, <1>5

(* A handler of such a client starts nothing.                              *)
LEMMA RestfulHandler ==
  ASSUME Handler, Head(prog) \notin Starters, NothingRuns
  PROVE  ~enabled' /\ ~sweep' /\ ~digEv' /\ chanMask' = {}
<1> USE DEF scopeVars, digitalVars, digEvVars, sweepVars
<1>7. ~enabled /\ ~sweep /\ ~digEv /\ chanMask = {}
  BY DEF NothingRuns
<1>1. ~ConfigureDigitalEvent
  BY DEF ConfigureDigitalEvent, Run, At, Starters
<1>2. CASE ChannelState
  BY <1>2, <1>7 DEF ChannelState, Enable, Run, At, Starters
<1>3. CASE Initiate \/ InitiateImmediate
  <2>1. /\ UNCHANGED << enabled, chanMask >> /\ sweep' = (enabled \/ sweep)
        /\ digEv' = digEv \/ digEv' = (chanMask # {} \/ digEv)
    BY <1>3 DEF Initiate, InitiateImmediate
  <2>2. ~sweep'
    BY <1>7, <2>1, Zenon
  <2>3. ~digEv'
    BY <1>7, <2>1, Zenon
  <2> QED BY <1>7, <2>1, <2>2, <2>3
<1>4. CASE Abort
  BY <1>4, <1>7 DEF Abort
<1>5. CASE \/ VersionQ \/ DigitalEventRefused \/ Cls \/ Rst \/ Wai \/ OpcQ \/ Sleep \/ Quit
           \/ IdnQ
           \/ ScopeDataQ \/ ScopeStatusQ \/ ConfigureDigitalData \/ FetchDigitalData
           \/ FetchDigitalEvent
  BY <1>5, <1>7 DEF VersionQ, DigitalEventRefused, Cls, Rst, Wai, OpcQ, Sleep, Quit, IdnQ,
     ScopeDataQ, ScopeStatusQ,
     ConfigureDigitalData, FetchDigitalData, FetchDigitalEvent
<1>6. CASE \/ SleepFails \/ SyntaxError \/ AbortFails \/ ScopeDataQFails
           \/ ConfigureDigitalEventFails \/ ReadOrMeasure
  BY <1>6, <1>7 DEF SleepFails, SyntaxError, AbortFails, ScopeDataQFails,
     ConfigureDigitalEventFails, ReadOrMeasure, Expand, Fail
<1> QED BY <1>1, <1>2, <1>3, <1>4, <1>5, <1>6 DEF Handler

LEMMA NothingStep ==
  ASSUME TypeOK, TypeOK', Underway, AddrInv, NothingRuns, [Next]_vars,
         Handler => Head(prog) \notin Starters
  PROVE  NothingRuns'
<1>1. /\ evq \in Seq(EventId) /\ evq' \in Seq(EventId)
      /\ devReq \in Seq(Request) /\ devOut \in Seq(Message)
  BY DEF TypeOK
<1>2. /\ "S G" \in Request /\ "S B" \in Request /\ "S D" \in Request
      /\ "i" \in Request /\ "S S" \in Request /\ "S O" \in Request /\ "D !" \in Request
  BY DEF Request
<1>3. ASSUME UNCHANGED << operations, armed, devReq, devOut >>, ~Queued("UNBLOCK")'
      PROVE  NothingRuns'
  BY <1>3 DEF NothingRuns, operations
<1>4. ASSUME NEW s \in Seq(EventId), ~Has(s, "UNBLOCK"),
             evq' = evq \o s \/ (evq # << >> /\ evq' = Tail(evq) \o s)
      PROVE  ~Queued("UNBLOCK")'
  <2>1. Has(evq, "UNBLOCK") <=> Queued("UNBLOCK")
    BY DEF Has, Queued
  <2>2. evq # << >> => Tail(evq) \in Seq(EventId) /\ ~Has(Tail(evq), "UNBLOCK")
    BY <1>1, <2>1, HasTail DEF NothingRuns
  <2>3. ~Has(evq', "UNBLOCK")
    <3>1. CASE evq' = evq \o s
      BY <1>1, <1>4, <2>1, <3>1, HasConcat, Zenon DEF NothingRuns
    <3>2. CASE evq # << >> /\ evq' = Tail(evq) \o s
      <4>1. Tail(evq) \in Seq(EventId)
        BY <1>1, <3>2
      <4> QED BY <1>4, <2>2, <3>2, <4>1, HasConcat, Zenon
    <3> QED BY <1>4, <3>1, <3>2
  <2> QED BY <2>3 DEF Has, Queued
<1>5. /\ << >> \in Seq(EventId) /\ ~Has(<< >>, "UNBLOCK")
      /\ << "PROCESS_LINE" >> \in Seq(EventId) /\ ~Has(<< "PROCESS_LINE" >>, "UNBLOCK")
      /\ << "OUTPUT_FLUSH" >> \in Seq(EventId) /\ ~Has(<< "OUTPUT_FLUSH" >>, "UNBLOCK")
      /\ << "OUTPUT_FLUSH" >> \o << "PROCESS_LINE" >> \in Seq(EventId)
      /\ ~Has(<< "OUTPUT_FLUSH" >> \o << "PROCESS_LINE" >>, "UNBLOCK")
  BY Tokens DEF Has
<1>6. ASSUME evq' = evq PROVE ~Queued("UNBLOCK")'
  BY <1>6 DEF Queued, NothingRuns
<1>7. CASE Handler
  <2>1. ~enabled' /\ ~sweep' /\ ~digEv' /\ chanMask' = {}
    BY <1>7, RestfulHandler
  <2>2. armed' = armed /\ devOut' = devOut
    BY <1>7, HandlerFrame
  <2>3. ~Has(devReq', "S G") /\ ~Has(devReq', "S B")
    BY <1>2, <1>7, HandlerRequests DEF NothingRuns
  <2>4. ~Queued("UNBLOCK")'
    <3>1. PICK s \in Seq(EventId) :
            /\ evq' = evq \o s
            /\ \A e : Has(s, e) =>
                 \/ e \in LateOutput
                 \/ e = "UNBLOCK" /\ (sweep \/ digEv) /\ Head(prog) = "ABOR"
      BY <1>1, <1>7, HandlerSends
    <3>2. ~Has(s, "UNBLOCK")
      BY <3>1 DEF NothingRuns, LateOutput
    <3> QED BY <1>4, <3>1, <3>2
  <2> QED BY <2>1, <2>2, <2>3, <2>4 DEF NothingRuns
<1>8. CASE DeviceWorker
  <2>1. rcv # "D" /\ (devOut # << >> => Head(devOut) # "A" /\ Head(devOut) # "D")
    <3>1. devOut # << >> => Head(devOut) # "A" /\ Head(devOut) # "D"
      BY <1>1, HasTail DEF NothingRuns
    <3> QED BY <3>1 DEF AddrInv, Underway
  <2>2. ~Queued("UNBLOCK")'
    <3>1. PICK s \in Seq(EventId) :
            /\ evq' = evq \o s
            /\ \A e : Has(s, e) =>
                 \/ e \in Completions
                 \/ e = "UNBLOCK" /\ (rcv = "D" \/ chanMask # {})
      BY <1>1, <1>8, ReceiverTokens
    <3>2. ~Has(s, "UNBLOCK")
      BY <2>1, <3>1 DEF NothingRuns, Completions
    <3> QED BY <1>4, <3>1, <3>2
  <2>3. CASE UNCHANGED << evq, devReq, devOut, operations >>
    BY <1>3, <1>8, <2>2, <2>3, ReceiverFrame
  <2>4. CASE ~UNCHANGED << evq, devReq, devOut, operations >>
    <3>1. /\ devOut # << >> /\ devOut' = Tail(devOut) /\ devReq' = devReq
          /\ UNCHANGED << enabled, armed, sweep, digEv, chanMask >>
      BY <1>8, <2>1, <2>4, ReceiverFrame DEF NothingRuns
    <3>2. ~Has(devOut', "A") /\ ~Has(devOut', "D")
      BY <1>1, <3>1, HasTail DEF NothingRuns
    <3> QED BY <2>2, <3>1, <3>2 DEF NothingRuns
  <2> QED BY <2>3, <2>4
<1>9. ASSUME PlainEvent PROVE NothingRuns'
  <2>1. ~Queued("UNBLOCK")'
    <3>1. PICK s \in Seq(EventId) : evq' = Tail(evq) \o s /\ ~Has(s, "UNBLOCK")
      BY <1>9, EventTokens
    <3> QED BY <1>4, <1>9, <3>1, PlainEventFrame
  <2>2. ASSUME NEW r \in { "i", "S S", "S O" }, devReq' = Append(devReq, r)
        PROVE  ~Has(devReq', "S G") /\ ~Has(devReq', "S B")
    <3>1. r \in Request /\ r # "S G" /\ r # "S B"
      BY <1>2, <2>2
    <3> QED BY <1>1, <2>2, <3>1, HasAppend DEF NothingRuns
  <2>3. ~Has(devReq', "S G") /\ ~Has(devReq', "S B")
    BY <1>9, <2>2, PlainEventAsks DEF NothingRuns
  <2>4. UNCHANGED << operations, devOut, armed >>
    BY <1>9, PlainEventAsks
  <2> QED BY <2>1, <2>3, <2>4 DEF NothingRuns, operations
<1>10. CASE DeviceAnswers \/ DeviceSelf
  <2>1. ~Queued("UNBLOCK")' /\ UNCHANGED operations
    BY <1>6, <1>10, DeviceMoves
  <2>2. devReq # << >> => Head(devReq) # "S G" /\ Head(devReq) # "S B"
    BY <1>1, HasTail DEF NothingRuns
  <2>3. ~armed' /\ ~Has(devReq', "S G") /\ ~Has(devReq', "S B")
    BY <1>1, <1>10, <2>2, DeviceMoves, HasTail DEF NothingRuns
  <2>4. ASSUME NEW m \in Message, devOut' = Append(devOut, m), m # "A", m # "D"
        PROVE  ~Has(devOut', "A") /\ ~Has(devOut', "D")
    BY <1>1, <2>4, HasAppend DEF NothingRuns
  <2>5. ~Has(devOut', "A") /\ ~Has(devOut', "D")
    <3>1. \/ devOut' = devOut
          \/ \E m \in Message : devOut' = Append(devOut, m) /\ m # "A" /\ m # "D"
      BY <1>10, <2>2, DeviceMoves DEF NothingRuns
    <3> QED BY <2>4, <3>1 DEF NothingRuns
  <2> QED BY <2>1, <2>3, <2>5 DEF NothingRuns, operations
<1>11. ASSUME \/ Other /\ ~DeviceAnswers /\ ~DeviceSelf
              \/ LineDone \/ ProcessNoLine \/ ProcessEmptyLine \/ ProcessLine \/ CliRead,
              ~Queued("UNBLOCK")'
       PROVE  NothingRuns'
  BY <1>3, <1>11, OthersAside DEF deviceSide
<1>12. CASE Other /\ ~DeviceAnswers /\ ~DeviceSelf
  BY <1>6, <1>11, <1>12, OtherFrame
<1>13. CASE LineDone
  <2>1. \E s \in { << "OUTPUT_FLUSH" >>, << "OUTPUT_FLUSH" >> \o << "PROCESS_LINE" >>,
                   << "OUTPUT_FLUSH" >> \o << >> } : evq' = evq \o s
    BY <1>13, Zenon DEF LineDone, Send, NextLine, If
  <2>2. << "OUTPUT_FLUSH" >> \o << >> = << "OUTPUT_FLUSH" >>
    OBVIOUS
  <2> QED BY <1>4, <1>5, <1>11, <1>13, <2>1, <2>2
<1>14. CASE CliRead
  BY <1>4, <1>5, <1>11, <1>14 DEF CliRead, Send
<1>15. CASE ProcessNoLine \/ ProcessEmptyLine \/ ProcessLine
  <2>1. Event("PROCESS_LINE")
        /\ \E s \in { << >>, << "PROCESS_LINE" >> } : evq' = Tail(evq) \o s
    BY <1>15, Zenon DEF ProcessNoLine, ProcessEmptyLine, ProcessLine, Then, NextLine, If
  <2> QED BY <1>4, <1>5, <1>11, <1>15, <2>1, EventFrame
<1> QED BY <1>7, <1>8, <1>9, <1>10, <1>12, <1>13, <1>14, <1>15, Cases

(* One token per line that waits, and none while one runs.                 *)
OneToken ==
  /\ Alone(evq, "PROCESS_LINE")
  /\ pc = "exec" \/ lines = << >> => ~Has(evq, "PROCESS_LINE")

LEMMA OneTokenStep ==
  ASSUME TypeOK, Underway, ~Queued("UNBLOCK"), NothingRuns, AddrInv, OneToken, [Next]_vars
  PROVE  OneToken'
<1> DEFINE PL == "PROCESS_LINE"
<1>1. evq \in Seq(EventId) /\ lines \in Seq(Seq(Command))
  BY DEF TypeOK
<1>2. evq # << >> => Head(evq) # "UNBLOCK"
  <2>1. Has(evq, "UNBLOCK") <=> Queued("UNBLOCK")
    BY DEF Has, Queued
  <2> QED BY <1>1, <2>1, HasTail
<1>3. ASSUME NEW s \in Seq(EventId), ~Has(s, PL), evq' = evq \o s
      PROVE  Alone(evq', PL) /\ (Has(evq', PL) => Has(evq, PL))
  BY <1>1, <1>3, AloneConcat, HasConcat, Zenon DEF OneToken
<1>4. ASSUME NEW s \in Seq(EventId), evq # << >>, evq' = Tail(evq) \o s,
             ~Has(s, PL) \/ (Alone(s, PL) /\ Head(evq) = PL)
      PROVE  /\ Alone(evq', PL)
             /\ Has(evq', PL) => Has(evq, PL)
             /\ Has(evq', PL) /\ Head(evq) = PL => Has(s, PL)
  <2>1. /\ Tail(evq) \in Seq(EventId) /\ Alone(Tail(evq), PL)
        /\ Head(evq) = PL => ~Has(Tail(evq), PL)
        /\ Has(evq, PL) <=> Head(evq) = PL \/ Has(Tail(evq), PL)
    BY <1>1, <1>4, AloneTail, HasTail DEF OneToken
  <2>2. Alone(evq', PL)
    BY <1>4, <2>1, AloneConcat, Zenon
  <2>3. Has(evq', PL) <=> Has(Tail(evq), PL) \/ Has(s, PL)
    BY <1>4, <2>1, HasConcat, Zenon
  <2> QED BY <1>4, <2>1, <2>2, <2>3, Zenon
<1>5. /\ << >> \in Seq(EventId) /\ ~Has(<< >>, PL)
      /\ << PL >> \in Seq(EventId) /\ Alone(<< PL >>, PL)
      /\ << "OUTPUT_FLUSH" >> \in Seq(EventId) /\ ~Has(<< "OUTPUT_FLUSH" >>, PL)
  BY Tokens DEF Has, Alone
<1>6. CASE Handler
  <2>1. PICK s \in Seq(EventId) :
          /\ evq' = evq \o s
          /\ \A e : Has(s, e) =>
               \/ e \in LateOutput
               \/ e = "UNBLOCK" /\ (sweep \/ digEv) /\ Head(prog) = "ABOR"
    BY <1>1, <1>6, HandlerSends
  <2>2. ~Has(s, PL)
    BY <2>1 DEF LateOutput
  <2> QED BY <1>3, <1>6, <2>1, <2>2, HandlerFrame DEF OneToken
<1>7. CASE DeviceWorker
  <2>1. PICK s \in Seq(EventId) :
          /\ evq' = evq \o s
          /\ \A e : Has(s, e) =>
               \/ e \in Completions
               \/ e = "UNBLOCK" /\ (rcv = "D" \/ chanMask # {})
    BY <1>1, <1>7, ReceiverTokens
  <2>2. ~Has(s, PL)
    BY <2>1 DEF Completions
  <2>3. Alone(evq', PL) /\ (Has(evq', PL) => Has(evq, PL))
    BY <1>3, <2>1, <2>2
  <2>4. lines' = lines /\ pc' # "exec"
    BY <1>7, DeviceFrame
  <2> QED BY <2>3, <2>4 DEF OneToken
<1>8. ASSUME PlainEvent PROVE OneToken'
  <2>1. PICK s \in Seq(EventId) : evq' = Tail(evq) \o s /\ (Has(s, PL) => Head(evq) = "UNBLOCK")
    BY <1>8, EventTokens
  <2>2. evq # << >> /\ UNCHANGED << pc, lines >>
    BY <1>8, PlainEventFrame
  <2>3. Alone(evq', PL) /\ (Has(evq', PL) => Has(evq, PL))
    BY <1>2, <1>4, <2>1, <2>2
  <2> QED BY <2>2, <2>3 DEF OneToken
<1>9. ASSUME Other PROVE OneToken'
  BY <1>9, OtherFrame DEF OneToken
<1>10. CASE LineDone
  <2>1. ~Has(evq, PL) /\ pc' = "loop" /\ lines # << >>
    BY <1>10 DEF LineDone, OneToken, Underway
  <2>2. CASE Head(lines) = EndOfFile
    <3>1. evq' = evq \o << "OUTPUT_FLUSH" >> /\ lines' = lines
      BY <1>10, <2>2 DEF LineDone, Send
    <3> QED BY <1>3, <1>5, <2>1, <3>1 DEF OneToken
  <2>3. CASE Head(lines) # EndOfFile
    <3>1. evq' = evq \o (<< "OUTPUT_FLUSH" >> \o NextLine) /\ lines' = Tail(lines)
      BY <1>10, <2>3 DEF LineDone, Send
    <3>2. \/ NextLine = << PL >> /\ Len(lines) > 1
          \/ NextLine = << >> /\ ~(Len(lines) > 1)
      BY DEF NextLine, If
    <3>3. CASE NextLine = << >> /\ ~(Len(lines) > 1)
      <4>1. evq' = evq \o << "OUTPUT_FLUSH" >>
        BY <3>1, <3>3
      <4> QED BY <1>3, <1>5, <2>1, <4>1 DEF OneToken
    <3>4. CASE NextLine = << PL >> /\ Len(lines) > 1
      <4>1. lines' # << >>
        <5>1. Len(Tail(lines)) > 0
          BY <1>1, <2>1, <3>4
        <5>2. lines' = Tail(lines)
          BY <3>1
        <5>3. ~(lines' = << >>)
          BY <5>1, <5>2
        <5> QED BY <5>3
      <4>2. evq' = (evq \o << "OUTPUT_FLUSH" >>) \o << PL >>
        BY <1>1, <1>5, <3>1, <3>4, ConcatAssociative
      <4>3. /\ evq \o << "OUTPUT_FLUSH" >> \in Seq(EventId)
            /\ ~Has(evq \o << "OUTPUT_FLUSH" >>, PL)
        <5>1. evq \o << "OUTPUT_FLUSH" >> \in Seq(EventId)
          BY <1>1, <1>5, ConcatProperties, Zenon
        <5>2. Has(evq \o << "OUTPUT_FLUSH" >>, PL) <=> Has(evq, PL) \/ Has(<< "OUTPUT_FLUSH" >>, PL)
          BY <1>1, <1>5, HasConcat, Zenon
        <5> QED BY <1>5, <2>1, <5>1, <5>2
      <4>4. Alone(evq', PL)
        BY <1>5, <4>2, <4>3, AloneConcat, Zenon
      <4> QED BY <2>1, <4>1, <4>4 DEF OneToken
    <3> QED BY <3>2, <3>3, <3>4
  <2> QED BY <2>2, <2>3
<1>11. CASE CliRead
  <2>1. evq' = evq \o << PL >> /\ lines = << >> /\ pc' # "exec"
    BY <1>11 DEF CliRead, Send, Turn, stdinFrame
  <2>2. lines' # << >>
    <3>1. stdin \in Seq(Seq(Command))
      BY DEF TypeOK
    <3>2. PICK n \in 1..Len(stdin) : lines' = SubSeq(stdin, 1, n)
      BY <1>11 DEF CliRead
    <3>3. Len(SubSeq(stdin, 1, n)) = n
      BY <3>1, <3>2, SubSeqProperties
    <3> QED BY <3>2, <3>3
  <2>3. Alone(evq', PL)
    BY <1>1, <1>5, <2>1, AloneConcat DEF OneToken
  <2> QED BY <2>1, <2>2, <2>3 DEF OneToken
<1>12. ASSUME Event(PL), UNCHANGED pc,
              \/ lines = << >> /\ lines' = lines /\ evq' = Tail(evq) \o << >>
              \/ lines # << >> /\ lines' = lines /\ evq' = Tail(evq) \o << PL >>
              \/ Len(lines) > 1 /\ lines' = Tail(lines) /\ evq' = Tail(evq) \o << PL >>
              \/ ~(Len(lines) > 1) /\ lines' = Tail(lines) /\ evq' = Tail(evq) \o << >>
       PROVE  OneToken'
  <2>1. Head(evq) = PL /\ evq # << >> /\ pc' # "exec" /\ lines # << >>
    <3>1. Head(evq) = PL /\ evq # << >> /\ pc' # "exec"
      BY <1>12, EventFrame
    <3>2. Has(evq, PL)
      BY <1>1, <3>1, HasTail
    <3> QED BY <3>1, <3>2 DEF OneToken
  <2>2. Alone(evq', PL)
    BY <1>4, <1>5, <1>12, <2>1
  <2>3. CASE lines' # << >>
    BY <2>1, <2>2, <2>3 DEF OneToken
  <2>4. CASE lines' = << >>
    <3>1. evq' = Tail(evq) \o << >>
      <4>1. Len(lines) > 1 => Len(Tail(lines)) > 0
        BY <1>1, <2>1
      <4>2. ~(Len(lines) > 1 /\ lines' = Tail(lines))
        BY <2>4, <4>1
      <4> QED BY <1>12, <2>1, <2>4, <4>2
    <3>2. ~Has(evq', PL)
      BY <1>4, <1>5, <2>1, <3>1
    <3> QED BY <2>2, <3>2 DEF OneToken
  <2> QED BY <2>3, <2>4
<1>13. CASE ProcessNoLine
  <2>1. Event(PL) /\ UNCHANGED << pc, lines >>
    BY <1>13 DEF ProcessNoLine, lineState
  <2>2. \/ lines = << >> /\ evq' = Tail(evq) \o << >>
        \/ lines # << >> /\ evq' = Tail(evq) \o << PL >>
    BY <1>13, Zenon DEF ProcessNoLine, Then
  <2> QED BY <1>12, <2>1, <2>2
<1>14. CASE ProcessEmptyLine
  <2>1. Event(PL) /\ UNCHANGED pc /\ lines' = Tail(lines)
    BY <1>14 DEF ProcessEmptyLine
  <2>2. \/ Len(lines) > 1 /\ evq' = Tail(evq) \o << PL >>
        \/ ~(Len(lines) > 1) /\ evq' = Tail(evq) \o << >>
    BY <1>14, Zenon DEF ProcessEmptyLine, Then, NextLine, If
  <2> QED BY <1>12, <2>1, <2>2
<1>15. CASE ProcessLine
  <2>1. Head(evq) = PL /\ evq # << >> /\ evq' = Tail(evq) \o << >>
    BY <1>15, EventFrame DEF ProcessLine, Then
  <2>2. Alone(evq', PL) /\ ~Has(evq', PL)
    BY <1>4, <1>5, <2>1
  <2> QED BY <2>2 DEF OneToken
<1> QED BY <1>6, <1>7, <1>8, <1>9, <1>10, <1>11, <1>13, <1>14, <1>15, Cases

RestfulInv == Runs(Restful) /\ AddrInv /\ NothingRuns /\ OneToken

LEMMA RestfulAlways ==
  ASSUME StartsNothing(Lines) PROVE Safe => []RestfulInv
<1>1. Init => RestfulInv
  <2> SUFFICES ASSUME Init PROVE RestfulInv
    OBVIOUS
  <2>1. << >> \in Seq(Restful) /\ << >> \in Restful /\ \A e : ~Has(<< >>, e)
    BY DEF Restful, Has
  <2>2. AddrInv /\ Runs(Restful)
    BY <2>1 DEF Init, AddrInv, Runs
  <2>3. /\ \A e : e # "SCOPE_OFFSET_START" => ~Has(evq, e)
        /\ Alone(evq, "PROCESS_LINE")
    <3>1. evq = << "SCOPE_OFFSET_START" >>
      BY DEF Init
    <3> QED BY <3>1 DEF Has, Alone
  <2>4. ~Queued("UNBLOCK")
    BY <2>3 DEF Has, Queued
  <2>5. NothingRuns
    BY <2>1, <2>4 DEF Init, NothingRuns
  <2>6. OneToken
    BY <2>3 DEF OneToken
  <2> QED BY <2>2, <2>5, <2>6 DEF RestfulInv
<1>2. IInv /\ IInv' /\ RestfulInv /\ [Next]_vars => RestfulInv'
  <2> SUFFICES ASSUME IInv, IInv', RestfulInv, [Next]_vars PROVE RestfulInv'
    OBVIOUS
  <2>1. TypeOK /\ TypeOK' /\ Underway
    BY DEF IInv
  <2>2. AddrInv'
    BY <2>1, AddrStep DEF RestfulInv
  <2>3. Runs(Restful)' /\ (Handler => Head(prog) \notin Starters)
    BY <2>1, RestfulStep DEF RestfulInv
  <2>4. NothingRuns'
    BY <2>1, <2>3, NothingStep DEF RestfulInv
  <2>5. OneToken'
    BY <2>1, OneTokenStep DEF RestfulInv, NothingRuns
  <2> QED BY <2>2, <2>3, <2>4, <2>5 DEF RestfulInv
<1> QED BY <1>1, <1>2, Invariance, PTL DEF Safe

(* For every client that starts no operation that blocks: the pipe never   *)
(* holds two PROCESS_LINE tokens, so that a line is flushed before the     *)
(* next is parsed (parser_cli_line, parser_cli_read).                      *)
THEOREM LinesOneByOne ==
  ASSUME StartsNothing(Lines)
  PROVE  Safe => []OneLineToken
<1>1. IInv /\ RestfulInv => OneLineToken
  <2> SUFFICES ASSUME IInv, RestfulInv PROVE OneLineToken
    OBVIOUS
  <2>1. evq \in Seq(EventId) /\ Alone(evq, "PROCESS_LINE")
    BY DEF IInv, TypeOK, RestfulInv, OneToken
  <2> QED BY <2>1, AloneCounts DEF OneLineToken
<1> QED BY <1>1, RestfulAlways, Invariance, PTL DEF Safe

----------------------------------------------------------------------------
(* A client that initiates or aborts what it configures: interrupts that   *)
(* are recorded stay armed.                                                *)
ArmingPrograms == { p \in Seq(Command) : Arming(p) }

LEMMA ArmingConcat ==
  ASSUME NEW s \in Seq(Command), NEW t \in Seq(Command), Arming(s), Arming(t)
  PROVE  s \o t \in ArmingPrograms
<1> DEFINE u == s \o t
           Next2 == { "ABOR", "INIT" }
<1>1. /\ Len(s) \in Nat /\ Len(t) \in Nat /\ Len(u) = Len(s) + Len(t) /\ u \in Seq(Command)
      /\ \A i \in 1..Len(s) + Len(t) : u[i] = IF i <= Len(s) THEN s[i] ELSE t[i - Len(s)]
  BY ConcatProperties, LenProperties
<1>2. /\ \A i \in 1..Len(s) : s[i] = "CONF:DIG:EVEN" => i < Len(s) /\ s[i + 1] \in Next2
      /\ \A i \in 1..Len(t) : t[i] = "CONF:DIG:EVEN" => i < Len(t) /\ t[i + 1] \in Next2
  BY Zenon DEF Arming, Follows
<1> HIDE DEF u, Next2
<1>3. ASSUME NEW i \in 1..Len(u), u[i] = "CONF:DIG:EVEN"
      PROVE  i < Len(u) /\ u[i + 1] \in Next2
  <2>1. CASE i <= Len(s)
    <3>1. i < Len(s) /\ s[i + 1] \in Next2
      BY <1>1, <1>2, <1>3, <2>1
    <3> QED BY <1>1, <3>1
  <2>2. CASE ~(i <= Len(s))
    <3>1. PICK j \in 1..Len(t) : i = Len(s) + j
      <4>1. i - Len(s) \in 1..Len(t) /\ i = Len(s) + (i - Len(s))
        BY <1>1, <2>2
      <4> QED BY <4>1
    <3>2. u[i] = t[j] /\ (j < Len(t) => u[i + 1] = t[j + 1])
      BY <1>1, <2>2, <3>1
    <3>3. j < Len(t) /\ t[j + 1] \in Next2
      BY <1>2, <1>3, <3>2
    <3> QED BY <1>1, <3>1, <3>2, <3>3
  <2> QED BY <2>1, <2>2
<1>4. Arming(u)
  BY <1>3, Zenon DEF Arming, Follows, Next2
<1> QED BY <1>1, <1>4 DEF ArmingPrograms, u

LEMMA ArmingTail ==
  ASSUME NEW p \in ArmingPrograms, p # << >>
  PROVE  /\ Tail(p) \in ArmingPrograms
         /\ Head(p) = "CONF:DIG:EVEN" => Tail(p) # << >> /\ Head(Tail(p)) \in { "ABOR", "INIT" }
<1> DEFINE Next2 == { "ABOR", "INIT" }
<1>1. /\ p \in Seq(Command)
      /\ \A i \in 1..Len(p) : p[i] = "CONF:DIG:EVEN" => i < Len(p) /\ p[i + 1] \in Next2
  BY Zenon DEF ArmingPrograms, Arming, Follows
<1> HIDE DEF Next2
<1>2. PICK t : t = Tail(p)
  OBVIOUS
<1>3. /\ t \in Seq(Command) /\ Len(p) \in Nat /\ Len(p) >= 1 /\ Len(t) = Len(p) - 1
      /\ Head(p) = p[1] /\ \A i \in 1..Len(p) - 1 : t[i] = p[i + 1]
  BY <1>1, <1>2
<1>4. \A i \in 1..Len(t) : t[i] = "CONF:DIG:EVEN" => i < Len(t) /\ t[i + 1] \in Next2
  BY <1>1, <1>3
<1>5. t \in ArmingPrograms
  BY <1>3, <1>4, Zenon DEF ArmingPrograms, Arming, Follows, Next2
<1>6. ASSUME Head(p) = "CONF:DIG:EVEN" PROVE t # << >> /\ Head(t) \in Next2
  <2>1. Len(p) > 1 /\ p[2] \in Next2
    BY <1>1, <1>3, <1>6
  <2>2. Len(t) >= 1 /\ t[1] \in Next2
    BY <1>3, <2>1
  <2> QED BY <1>3, <2>2
<1> QED BY <1>2, <1>5, <1>6 DEF Next2

LEMMA ArmingClosed == ASSUME ArmsItsRecords(Lines) PROVE IsClosed(ArmingPrograms)
<1> DEFINE P == ArmingPrograms
<1>1. P \subseteq Seq(Command)
  BY DEF ArmingPrograms
<1>2. ASSUME NEW line \in Lines PROVE line \in P
  <2>1. line \in Seq(Command)
    <3>1. Command \ { "EOF" } \subseteq Command
      OBVIOUS
    <3> QED BY <3>1, ConstantsAssumption, SeqMonotonic
  <2> QED BY <2>1 DEF ArmingPrograms, ArmsItsRecords
<1>3. << >> \in P
  BY DEF ArmingPrograms, Arming
<1>4. EndOfFile \in P
  <2>1. EndOfFile \in Seq(Command) /\ Len(EndOfFile) = 1 /\ EndOfFile[1] = "EOF"
    BY DEF EndOfFile, Command
  <2> QED BY <2>1 DEF ArmingPrograms, Arming
<1>5. ASSUME NEW c, NEW s \in Seq(Command), Arming(s) PROVE Expands(P, c, s)
  <2> SUFFICES ASSUME NEW p \in P, p # << >> PROVE s \o Tail(p) \in P
    BY DEF Expands
  <2>1. Tail(p) \in Seq(Command) /\ Arming(Tail(p))
    BY ArmingTail DEF ArmingPrograms
  <2> QED BY <1>5, <2>1, ArmingConcat
<1>6. /\ "ABOR" \in Command /\ "INIT" \in Command /\ "CONF:DIG:DATA" \in Command
      /\ "FETC:DIG:DATA?" \in Command /\ "FETC:DIG:EVEN?" \in Command
      /\ "CONF:DIG:EVEN" \in Command
  BY DEF Command
<1>7. Expands(P, "READ:DIG:DATA?", << "ABOR", "INIT", "FETC:DIG:DATA?" >>)
  <2> DEFINE s == << "ABOR", "INIT", "FETC:DIG:DATA?" >>
  <2>1. s \in Seq(Command) /\ Arming(s)
    BY <1>6 DEF Arming, Follows
  <2> QED BY <1>5, <2>1
<1>8. Expands(P, "MEAS:DIG:DATA?", << "CONF:DIG:DATA", "ABOR", "INIT", "FETC:DIG:DATA?" >>)
  <2> DEFINE s == << "CONF:DIG:DATA", "ABOR", "INIT", "FETC:DIG:DATA?" >>
  <2>1. s \in Seq(Command) /\ Arming(s)
    BY <1>6 DEF Arming, Follows
  <2> QED BY <1>5, <2>1
<1>9. Expands(P, "READ:DIG:EVEN?", << "ABOR", "INIT", "FETC:DIG:EVEN?" >>)
  <2> DEFINE s == << "ABOR", "INIT", "FETC:DIG:EVEN?" >>
  <2>1. s \in Seq(Command) /\ Arming(s)
    BY <1>6 DEF Arming, Follows
  <2> QED BY <1>5, <2>1
<1>10. Expands(P, "MEAS:DIG:EVEN?", << "CONF:DIG:EVEN", "ABOR", "INIT", "FETC:DIG:EVEN?" >>)
  <2> DEFINE s == << "CONF:DIG:EVEN", "ABOR", "INIT", "FETC:DIG:EVEN?" >>
  <2>1. s \in Seq(Command) /\ Arming(s)
    BY <1>6 DEF Arming, Follows
  <2> QED BY <1>5, <2>1
<1> HIDE DEF P
<1>11. \A p \in P : p # << >> => Tail(p) \in P
  BY ArmingTail DEF P
<1>12. IsClosed(P)
  BY <1>1, <1>2, <1>3, <1>4, <1>7, <1>8, <1>9, <1>10, <1>11, Zenon DEF IsClosed
<1> QED BY <1>12 DEF P

(* Requests are only added; INITiate arms the interrupt of a record.       *)
LEMMA HandlerAsks ==
  ASSUME TypeOK, Handler
  PROVE  /\ \A e \in Request : Has(devReq, e) => Has(devReq', e)
         /\ Initiate /\ "INT" \in chanMask => Has(devReq', "D !")
<1>1. /\ devReq \in Seq(Request)
      /\ "D I" \in Request /\ "D !" \in Request /\ "D A" \in Request
  BY DEF TypeOK, Request
<1> DEFINE a == If(digReq, << "D I" >>)
           b(manual) == DigitizerStart(manual)
           c == If("INT" \in chanMask, << "D !" >>)
           d == If("DIN" \in chanMask, << "D A" >>)
<1>2. /\ a \in Seq(Request) /\ c \in Seq(Request) /\ d \in Seq(Request)
      /\ \A manual \in BOOLEAN : b(manual) \in Seq(Request)
  BY <1>1, StartRequests
<1>3. "INT" \in chanMask => Has(c, "D !")
  <2>1. Has(<< "D !" >>, "D !")
    BY <1>1, HasOne
  <2> QED BY <2>1, Zenon DEF If
<1>4. CASE Initiate
  <2>1. devReq' = devReq \o a \o b(FALSE) \o c \o d
    BY <1>4 DEF Initiate
  <2>2. PICK g \in Seq(Request) : g = b(FALSE)
    BY <1>2
  <2> HIDE DEF a, b, c, d
  <2>3. ASSUME NEW e \in Request, Has(devReq, e) \/ Has(c, e)
        PROVE  Has(devReq', e)
    <3>1. devReq' = (devReq \o a \o g) \o c \o d
      BY <2>1, <2>2
    <3>2. /\ devReq \o a \o g \in Seq(Request)
          /\ Has(devReq \o a \o g, e) <=> Has(devReq, e) \/ Has(a, e) \/ Has(g, e)
      BY <1>1, <1>2, HasConcats
    <3>3. Has(devReq', e) <=> Has(devReq \o a \o g, e) \/ Has(c, e) \/ Has(d, e)
      BY <1>2, <3>1, <3>2, HasConcats
    <3> QED BY <2>3, <3>2, <3>3
  <2> QED BY <1>1, <1>3, <2>3
<1>5. CASE InitiateImmediate
  <2>1. devReq' = devReq \o a \o b(TRUE)
    BY <1>5 DEF InitiateImmediate
  <2>2. PICK g \in Seq(Request) : g = b(TRUE)
    BY <1>2
  <2>3. ~Initiate
    BY <1>5 DEF InitiateImmediate, Initiate, Run, At
  <2> HIDE DEF a, b, c, d
  <2>4. ASSUME NEW e \in Request, Has(devReq, e) PROVE Has(devReq', e)
    <3>1. devReq' = devReq \o a \o g
      BY <2>1, <2>2
    <3> QED BY <1>1, <1>2, <2>4, <3>1, HasConcats
  <2> QED BY <2>3, <2>4
<1>6. CASE ~Initiate /\ ~InitiateImmediate
  <2>1. devReq' = devReq
    BY <1>6 DEF Handler, VersionQ, DigitalEventRefused, Cls, Rst, Wai, OpcQ, Sleep,
       SleepFails, Quit, SyntaxError,
       IdnQ, ChannelState, Enable, Abort, AbortFails, ScopeDataQ, ScopeDataQFails,
       ScopeStatusQ, ConfigureDigitalData, FetchDigitalData, ConfigureDigitalEvent,
       ConfigureDigitalEventFails, FetchDigitalEvent, ReadOrMeasure, Expand, Fail, deviceVars
  <2> QED BY <1>6, <2>1
<1> QED BY <1>4, <1>5, <1>6

(* The next interrupt will be noticed, but for the moment between a        *)
(* configuration and what follows it.                                      *)
Armed ==
  digEv /\ "INT" \in chanMask
    => intArmed \/ Has(devReq, "D !") \/ Has(devOut, "!")

Soon == prog # << >> /\ Head(prog) \in { "ABOR", "INIT" }

ArmedInv ==
  /\ Runs(ArmingPrograms) /\ AddrInv
  /\ pc = "loop" => Armed
  /\ pc = "exec" => Armed \/ Soon

LEMMA ArmedHandler ==
  ASSUME TypeOK, Handler, ArmedInv
  PROVE  pc' = "exec" => Armed' \/ Soon'
<1> USE DEF scopeVars, digitalVars, digEvVars, deviceVars
<1>1. /\ pc = "exec" /\ prog # << >> /\ prog \in ArmingPrograms
      /\ UNCHANGED << devOut, intArmed >>
  BY HandlerFrame DEF ArmedInv, Runs
<1>2. /\ Has(devReq, "D !") => Has(devReq', "D !")
      /\ Initiate /\ "INT" \in chanMask => Has(devReq', "D !")
  <2>1. "D !" \in Request
    BY DEF Request
  <2> QED BY <2>1, HandlerAsks
<1>3. CASE ConfigureDigitalEvent
  <2>1. prog' = Tail(prog) /\ Head(prog) = "CONF:DIG:EVEN"
    BY <1>3 DEF ConfigureDigitalEvent, Run, At
  <2> QED BY <1>1, <2>1, ArmingTail DEF Soon
<1>4. CASE Abort
  <2>1. ~digEv'
    BY <1>4 DEF Abort, DigitalEventDone
  <2> QED BY <2>1 DEF Armed
<1>5. CASE Initiate
  <2>1. chanMask' = chanMask
    BY <1>5 DEF Initiate
  <2> QED BY <1>2, <1>5, <2>1 DEF Armed
<1>6. ASSUME Head(prog) \notin { "ABOR", "INIT" }, UNCHANGED << digEv, chanMask >>
      PROVE  Armed'
  <2>1. Armed
    BY <1>1, <1>6 DEF ArmedInv, Soon
  <2> QED BY <1>1, <1>2, <1>6, <2>1 DEF Armed
<1>7. ASSUME NEW c, c \notin { "ABOR", "INIT" }, Run(c) PROVE Head(prog) \notin { "ABOR", "INIT" }
  BY <1>7 DEF Run, At
<1>8. CASE \/ VersionQ \/ DigitalEventRefused \/ Cls \/ Rst \/ Wai \/ OpcQ \/ Sleep \/ Quit
           \/ IdnQ \/ ChannelState
           \/ InitiateImmediate
  <2>1. \E c : c \notin { "ABOR", "INIT" } /\ Run(c)
    BY <1>8 DEF VersionQ, DigitalEventRefused, Cls, Rst, Wai, OpcQ, Sleep, Quit, IdnQ,
       ChannelState, Enable,
       InitiateImmediate
  <2>2. UNCHANGED << digEv, chanMask >>
    BY <1>8 DEF VersionQ, DigitalEventRefused, Cls, Rst, Wai, OpcQ, Sleep, Quit, IdnQ,
       ChannelState, Enable,
       InitiateImmediate
  <2> QED BY <1>6, <1>7, <2>1, <2>2
<1>9. CASE ScopeDataQ \/ ScopeStatusQ \/ ConfigureDigitalData \/ FetchDigitalData
           \/ FetchDigitalEvent
  <2>1. \E c : c \notin { "ABOR", "INIT" } /\ Run(c)
    BY <1>9 DEF ScopeDataQ, ScopeStatusQ, ConfigureDigitalData, FetchDigitalData,
       FetchDigitalEvent
  <2>2. UNCHANGED << digEv, chanMask >>
    BY <1>9 DEF ScopeDataQ, ScopeStatusQ, ConfigureDigitalData, FetchDigitalData,
       FetchDigitalEvent
  <2> QED BY <1>6, <1>7, <2>1, <2>2
<1>10. CASE SyntaxError \/ ReadOrMeasure
  BY <1>6, <1>10 DEF SyntaxError, ReadOrMeasure, Expand, At
<1>11. CASE SleepFails \/ AbortFails \/ ScopeDataQFails \/ ConfigureDigitalEventFails
  BY <1>11 DEF SleepFails, AbortFails, ScopeDataQFails, ConfigureDigitalEventFails, Fail
<1> QED BY <1>3, <1>4, <1>5, <1>8, <1>9, <1>10, <1>11 DEF Handler

LEMMA ArmedStep ==
  ASSUME ArmsItsRecords(Lines), TypeOK, Underway, ArmedInv, [Next]_vars
  PROVE  ArmedInv'
<1>1. Runs(ArmingPrograms)' /\ AddrInv'
  BY ArmingClosed, RunsStep, AddrStep DEF ArmedInv
<1>2. devReq \in Seq(Request) /\ devOut \in Seq(Message)
  BY DEF TypeOK
<1>3. /\ "i" \in Request /\ "S S" \in Request /\ "S O" \in Request /\ "S B" \in Request
      /\ "D !" \in Request /\ "!" \in Message
  BY DEF Request, Message
<1>4. ASSUME NEW r \in Request, devReq' = Append(devReq, r)
      PROVE  (Has(devReq, "D !") => Has(devReq', "D !")) /\ (r = "D !" => Has(devReq', "D !"))
  BY <1>2, <1>4, HasAppend
<1>5. ASSUME Armed => Armed', pc' # "exec", pc' = "loop" => pc = "loop"
      PROVE  ArmedInv'
  BY <1>1, <1>5 DEF ArmedInv
<1>6. CASE Handler
  <2>1. pc' # "loop"
    BY <1>6, HandlerFrame
  <2> QED BY <1>1, <1>6, <2>1, ArmedHandler DEF ArmedInv
<1>7. CASE DeviceWorker
  <2>1. pc = "loop" /\ pc' # "exec"
    BY <1>7, DeviceFrame
  <2>2. CASE UNCHANGED << evq, devReq, devOut, operations >>
    <3>1. UNCHANGED << intArmed, digEv, chanMask, devReq, devOut >>
      BY <1>7, <2>2, ReceiverFrame DEF ArmedInv, operations
    <3> QED BY <1>5, <2>1, <3>1 DEF Armed
  <2>3. CASE ~UNCHANGED << evq, devReq, devOut, operations >>
    <3>1. /\ intArmed' = intArmed
          /\ rcv = Head(devOut) /\ devOut # << >> /\ devOut' = Tail(devOut)
          /\ devReq' = devReq \/ devReq' = Append(devReq, "S B") \/ devReq' = Append(devReq, "D !")
          /\ UNCHANGED << digEv, chanMask >> \/ ~digEv'
          /\ rcv = "!" /\ "INT" \in chanMask' => devReq' = Append(devReq, "D !")
      BY <1>7, <2>3, ReceiverFrame DEF ArmedInv
    <3>2. Has(devReq, "D !") => Has(devReq', "D !")
      BY <1>3, <1>4, <3>1
    <3>3. rcv = "!" /\ "INT" \in chanMask' => Has(devReq', "D !")
      BY <1>3, <1>4, <3>1
    <3>4. Has(devOut, "!") <=> rcv = "!" \/ Has(devOut', "!")
      BY <1>2, <3>1, HasTail
    <3>5. Armed => Armed'
      <4>1. ASSUME UNCHANGED << digEv, chanMask >>, Armed PROVE Armed'
        BY <3>1, <3>2, <3>3, <3>4, <4>1 DEF Armed
      <4>2. ~digEv' => Armed'
        BY DEF Armed
      <4> QED BY <3>1, <4>1, <4>2
    <3> QED BY <1>5, <2>1, <3>5
  <2> QED BY <2>2, <2>3
<1>8. ASSUME PlainEvent PROVE ArmedInv'
  <2>1. UNCHANGED << digEv, chanMask, devOut, intArmed, pc >> /\ pc = "loop"
    BY <1>8, PlainEventAsks, PlainEventFrame DEF operations
  <2>2. Has(devReq, "D !") => Has(devReq', "D !")
    BY <1>3, <1>4, <1>8, PlainEventAsks
  <2> QED BY <1>5, <2>1, <2>2 DEF Armed
<1>9. ASSUME DeviceAnswers \/ DeviceSelf PROVE ArmedInv'
  <2>1. UNCHANGED << digEv, chanMask, pc, prog >>
    BY <1>9, DeviceMoves, OtherFrame DEF operations, DeviceAnswers, DeviceSelf, DeviceTriggered,
       DeviceReportsInput, DeviceInterrupts, serverSide, loopVars, inputVars
  <2>2. Has(devReq, "D !") => Has(devReq', "D !") \/ intArmed'
    BY <1>2, <1>9, DeviceMoves, HasTail
  <2>3. ASSUME NEW m \in Message, devOut' = Append(devOut, m)
        PROVE  (Has(devOut, "!") => Has(devOut', "!")) /\ (m = "!" => Has(devOut', "!"))
    BY <1>2, <2>3, HasAppend
  <2>4. Has(devOut, "!") => Has(devOut', "!")
    BY <1>9, <2>3, DeviceMoves
  <2>5. intArmed => intArmed' \/ Has(devOut', "!")
    BY <1>3, <1>9, <2>3, DeviceMoves
  <2>6. Armed => Armed'
    BY <2>1, <2>2, <2>4, <2>5 DEF Armed
  <2> QED BY <1>1, <2>1, <2>6 DEF ArmedInv, Soon
<1>10. ASSUME \/ Other /\ ~DeviceAnswers /\ ~DeviceSelf
              \/ LineDone \/ ProcessNoLine \/ ProcessEmptyLine \/ ProcessLine \/ CliRead
       PROVE  ArmedInv'
  <2>1. Armed => Armed'
    BY <1>10, OthersAside DEF Armed, operations, deviceSide
  <2>2. CASE Other
    <3>1. prog' = prog /\ (pc' = pc \/ pc' \in { "failed", "exited" })
      BY <2>2, OtherFrame
    <3> QED BY <1>1, <2>1, <3>1 DEF ArmedInv, Soon
  <2>3. CASE LineDone
    <3>1. pc = "exec" /\ prog = << >> /\ pc' = "loop"
      BY <2>3 DEF LineDone
    <3> QED BY <1>1, <2>1, <3>1 DEF ArmedInv, Soon
  <2>4. CASE ProcessNoLine \/ ProcessEmptyLine \/ ProcessLine \/ CliRead
    <3>1. pc = "loop"
      BY <2>4, EventFrame DEF ProcessNoLine, ProcessEmptyLine, ProcessLine, CliRead, Turn
    <3> QED BY <1>1, <2>1, <3>1 DEF ArmedInv
  <2> QED BY <1>10, <2>2, <2>3, <2>4
<1> QED BY <1>6, <1>7, <1>8, <1>9, <1>10, Cases

(* For every client that initiates or aborts the records it configures:    *)
(* while interrupts are recorded, the device is armed for the next one, or *)
(* will be, or has sent one (cgr101_initiate, cgr101_digital_event).       *)
THEOREM InterruptsStayArmed ==
  ASSUME ArmsItsRecords(Lines)
  PROVE  Safe => []InterruptArmed
<1>1. Init => ArmedInv
  <2>1. << >> \in Seq(ArmingPrograms) /\ << >> \in ArmingPrograms /\ \A e : ~Has(<< >>, e)
    BY DEF ArmingPrograms, Arming, Has
  <2> QED BY <2>1 DEF Init, ArmedInv, Runs, AddrInv, Armed
<1>2. IInv /\ ArmedInv /\ [Next]_vars => ArmedInv'
  BY ArmedStep DEF IInv
<1>3. ArmedInv => InterruptArmed
  BY Zenon DEF ArmedInv, Armed, InterruptArmed, Has
<1> QED BY <1>1, <1>2, <1>3, Invariance, PTL DEF Safe

----------------------------------------------------------------------------
(* A client whose answers are complete when their line is: none is lost by *)
(* clearing the output buffer.                                             *)
PromptPrograms == { p \in Seq(PromptCommand \cup { "EOF" }) : ClearsFirst(p) }

LEMMA PromptTail ==
  ASSUME NEW p \in PromptPrograms, p # << >>
  PROVE  /\ Tail(p) \in Seq(PromptCommand \cup { "EOF" })
         /\ Head(p) \in PromptCommand \cup { "EOF" }
         /\ ~Has(Tail(p), "*CLS")
<1> DEFINE C == PromptCommand \cup { "EOF" }
<1>1. p \in Seq(C) /\ \A i \in 2..Len(p) : p[i] # "*CLS"
  BY Zenon DEF PromptPrograms, ClearsFirst
<1> HIDE DEF C
<1>2. PICK t : t = Tail(p)
  OBVIOUS
<1>3. /\ t \in Seq(C) /\ Head(p) \in C
      /\ Len(p) \in Nat /\ Len(p) >= 1 /\ Len(t) = Len(p) - 1
      /\ \A i \in 1..Len(p) - 1 : t[i] = p[i + 1]
  BY <1>1, <1>2
<1>4. \A i \in 1..Len(t) : t[i] # "*CLS"
  BY <1>1, <1>3
<1>5. ~Has(t, "*CLS")
  BY <1>4, Zenon DEF Has
<1> QED BY <1>2, <1>3, <1>5 DEF C

LEMMA PromptWithout ==
  ASSUME NEW p \in Seq(PromptCommand \cup { "EOF" }), ~Has(p, "*CLS")
  PROVE  p \in PromptPrograms
<1>1. Len(p) \in Nat
  OBVIOUS
<1>2. \A i \in 1..Len(p) : p[i] # "*CLS"
  BY Zenon DEF Has
<1>3. 2..Len(p) \subseteq 1..Len(p)
  BY <1>1
<1> QED BY <1>2, <1>3, Zenon DEF PromptPrograms, ClearsFirst

(* What READ calls: without *CLS, and by a prompt client.                  *)
LEMMA PromptExpands ==
  ASSUME NEW p \in PromptPrograms, p # << >>
  PROVE  LET s == << "ABOR", "INIT", "FETC:DIG:EVEN?" >> \o Tail(p)
         IN  s \in PromptPrograms /\ ~Has(s, "*CLS")
<1> DEFINE C == PromptCommand \cup { "EOF" }
           r == << "ABOR", "INIT", "FETC:DIG:EVEN?" >>
<1>1. "ABOR" \in C /\ "INIT" \in C /\ "FETC:DIG:EVEN?" \in C
  BY DEF PromptCommand, Command, Starters, LateQueries
<1>2. Tail(p) \in Seq(C) /\ ~Has(Tail(p), "*CLS")
  BY PromptTail
<1> HIDE DEF C
<1>3. r \in Seq(C) /\ ~Has(r, "*CLS")
  BY <1>1 DEF Has
<1> HIDE DEF r
<1>4. r \o Tail(p) \in Seq(C)
  BY <1>2, <1>3, ConcatProperties, Zenon
<1>5. ~Has(r \o Tail(p), "*CLS")
  BY <1>2, <1>3, HasConcat, Zenon
<1>6. r \o Tail(p) \in PromptPrograms
  BY <1>4, <1>5, PromptWithout DEF C
<1> QED BY <1>5, <1>6 DEF r

LEMMA PromptClosed == ASSUME AnsweredAtOnce(Lines) PROVE IsClosed(PromptPrograms)
<1> DEFINE P == PromptPrograms
           C == PromptCommand \cup { "EOF" }
<1>1. /\ PromptCommand \subseteq C /\ C \subseteq Command /\ "EOF" \in C
      /\ "READ:DIG:DATA?" \notin C /\ "MEAS:DIG:DATA?" \notin C /\ "MEAS:DIG:EVEN?" \notin C
  BY DEF PromptCommand, Command, Starters, LateQueries
<1>2. \A p \in P : p \in Seq(C)
  BY DEF PromptPrograms
<1>3. Lines \subseteq P
  <2> SUFFICES ASSUME NEW line \in Lines PROVE line \in P
    OBVIOUS
  <2>1. line \in Seq(PromptCommand) /\ ClearsFirst(line)
    BY DEF AnsweredAtOnce
  <2>2. line \in Seq(C)
    BY <1>1, <2>1, SeqMonotonic
  <2> QED BY <2>1, <2>2 DEF PromptPrograms
<1> HIDE DEF C
<1>4. P \subseteq Seq(Command)
  BY <1>1, <1>2, SeqMonotonic
<1>5. EndOfFile \in P /\ << >> \in P
  <2>1. /\ << "EOF" >> \in Seq(C) /\ ~Has(<< "EOF" >>, "*CLS")
        /\ << >> \in Seq(C) /\ ~Has(<< >>, "*CLS")
    BY <1>1 DEF Has
  <2> QED BY <2>1, PromptWithout DEF C, EndOfFile
<1>6. \A p \in P : p # << >> => Head(p) \in C /\ Tail(p) \in P
  BY PromptTail, PromptWithout DEF C
<1>7. /\ Expands(P, "READ:DIG:DATA?", << "ABOR", "INIT", "FETC:DIG:DATA?" >>)
      /\ Expands(P, "MEAS:DIG:DATA?", << "CONF:DIG:DATA", "ABOR", "INIT", "FETC:DIG:DATA?" >>)
      /\ Expands(P, "MEAS:DIG:EVEN?", << "CONF:DIG:EVEN", "ABOR", "INIT", "FETC:DIG:EVEN?" >>)
  BY <1>1, <1>6, Zenon DEF Expands
<1>8. Expands(P, "READ:DIG:EVEN?", << "ABOR", "INIT", "FETC:DIG:EVEN?" >>)
  BY PromptExpands DEF Expands
<1> HIDE DEF P
<1>9. IsClosed(P)
  BY <1>3, <1>4, <1>5, <1>6, <1>7, <1>8, Zenon DEF IsClosed
<1> QED BY <1>9 DEF P

(* A prompt client starts nothing.                                         *)
LEMMA PromptStartsNothing == ASSUME AnsweredAtOnce(Lines) PROVE StartsNothing(Lines)
<1>1. Lines \subseteq Seq(PromptCommand) /\ PromptCommand \subseteq Command \ Starters
  BY DEF AnsweredAtOnce, PromptCommand
<1> QED BY <1>1, SeqMonotonic DEF StartsNothing

(* The flush of what is in the buffer comes before the next line.          *)
FlushFirst(s) ==
  \E i \in 1..Len(s) :
    s[i] = "OUTPUT_FLUSH" /\ \A j \in 1..Len(s) : j < i => s[j] # "PROCESS_LINE"

LEMMA FlushFirstConcat ==
  ASSUME NEW s \in Seq(EventId), NEW t \in Seq(EventId)
  PROVE  /\ FlushFirst(s) => FlushFirst(s \o t)
         /\ ~Has(s, "PROCESS_LINE") /\ FlushFirst(t) => FlushFirst(s \o t)
<1> DEFINE u == s \o t
<1>1. /\ Len(s) \in Nat /\ Len(t) \in Nat /\ Len(u) = Len(s) + Len(t)
      /\ \A i \in 1..Len(s) + Len(t) : u[i] = IF i <= Len(s) THEN s[i] ELSE t[i - Len(s)]
  BY ConcatProperties, LenProperties
<1> HIDE DEF u
<1>2. ASSUME FlushFirst(s) PROVE FlushFirst(u)
  <2>1. PICK i \in 1..Len(s) : /\ s[i] = "OUTPUT_FLUSH"
                               /\ \A j \in 1..Len(s) : j < i => s[j] # "PROCESS_LINE"
    BY <1>2 DEF FlushFirst
  <2>2. i \in 1..Len(u) /\ u[i] = "OUTPUT_FLUSH"
    BY <1>1, <2>1
  <2>3. ASSUME NEW j \in 1..Len(u), j < i PROVE u[j] # "PROCESS_LINE"
    <3>1. j \in 1..Len(s) /\ u[j] = s[j]
      BY <1>1, <2>3
    <3> QED BY <2>1, <2>3, <3>1
  <2> QED BY <2>2, <2>3 DEF FlushFirst
<1>3. ASSUME ~Has(s, "PROCESS_LINE"), FlushFirst(t) PROVE FlushFirst(u)
  <2>1. PICK i \in 1..Len(t) : /\ t[i] = "OUTPUT_FLUSH"
                               /\ \A j \in 1..Len(t) : j < i => t[j] # "PROCESS_LINE"
    BY <1>3 DEF FlushFirst
  <2>2. Len(s) + i \in 1..Len(u) /\ u[Len(s) + i] = "OUTPUT_FLUSH"
    <3>1. /\ Len(s) + i \in 1..Len(s) + Len(t) /\ ~(Len(s) + i <= Len(s))
          /\ (Len(s) + i) - Len(s) = i
      BY <1>1
    <3> QED BY <1>1, <2>1, <3>1
  <2>3. ASSUME NEW j \in 1..Len(u), j < Len(s) + i PROVE u[j] # "PROCESS_LINE"
    <3>1. CASE j <= Len(s)
      <4>1. j \in 1..Len(s) /\ u[j] = s[j]
        BY <1>1, <3>1
      <4> QED BY <1>3, <4>1 DEF Has
    <3>2. CASE ~(j <= Len(s))
      <4>1. j - Len(s) \in 1..Len(t) /\ j - Len(s) < i /\ u[j] = t[j - Len(s)]
        BY <1>1, <2>3, <3>2
      <4> QED BY <2>1, <4>1
    <3> QED BY <3>1, <3>2
  <2> QED BY <2>2, <2>3 DEF FlushFirst
<1> QED BY <1>2, <1>3 DEF u

LEMMA FlushFirstTail ==
  ASSUME NEW s \in Seq(EventId), s # << >>, FlushFirst(s)
  PROVE  Head(s) # "PROCESS_LINE" /\ (Head(s) # "OUTPUT_FLUSH" => FlushFirst(Tail(s)))
<1>1. PICK t : t = Tail(s)
  OBVIOUS
<1>2. /\ Len(s) \in Nat /\ Len(s) >= 1 /\ Len(t) = Len(s) - 1 /\ Head(s) = s[1]
      /\ \A i \in 1..Len(s) - 1 : t[i] = s[i + 1]
  BY <1>1
<1>3. PICK i \in 1..Len(s) : /\ s[i] = "OUTPUT_FLUSH"
                             /\ \A j \in 1..Len(s) : j < i => s[j] # "PROCESS_LINE"
  BY DEF FlushFirst
<1>4. Head(s) # "PROCESS_LINE"
  <2>1. i = 1 \/ 1 < i
    BY <1>2
  <2> QED BY <1>2, <1>3, <2>1
<1>5. ASSUME Head(s) # "OUTPUT_FLUSH" PROVE FlushFirst(t)
  <2>1. i - 1 \in 1..Len(t) /\ t[i - 1] = "OUTPUT_FLUSH"
    BY <1>2, <1>3, <1>5
  <2>2. ASSUME NEW j \in 1..Len(t), j < i - 1 PROVE t[j] # "PROCESS_LINE"
    <3>1. j + 1 \in 1..Len(s) /\ j + 1 < i /\ t[j] = s[j + 1]
      BY <1>2, <2>2
    <3> QED BY <1>3, <3>1
  <2> QED BY <2>1, <2>2 DEF FlushFirst
<1> QED BY <1>1, <1>4, <1>5

(* Nothing is asked for that would be answered later.                      *)
LateTokens == LateOutput \cup { "SCOPE_STATUS_COMPLETE" }

NothingLate ==
  /\ ~identReq /\ ~Has(devReq, "S S") /\ ~Has(devOut, "S")
  /\ \A e \in LateTokens : ~Has(evq, e)

(* What waits in the buffer is flushed before the next line is parsed, and *)
(* a line that will clear the buffer finds it empty.                       *)
FlushInv ==
  /\ pc = "loop" /\ out # << >> => FlushFirst(evq)
  /\ pc = "exec" /\ Has(prog, "*CLS") => out = << >>

KeepsAnswers == out # << >> /\ Len(out') < Len(out) => received' = received \o out

LEMMA PromptHandler ==
  ASSUME TypeOK, Handler, Head(prog) \notin LateQueries, ~sweep, ~digEv, ~identReq
  PROVE  evq' = evq /\ ~identReq' /\ (Cls \/ Len(out') >= Len(out))
<1> USE DEF identVars
<1>1. evq \in Seq(EventId) /\ out \in Seq(Answer) /\ Len(out) \in Nat
  BY DEF TypeOK
<1>2. ~IdnQ /\ ~ScopeStatusQ /\ ~FetchDigitalData
  BY DEF IdnQ, ScopeStatusQ, FetchDigitalData, Run, At, LateQueries
<1>3. CASE Abort
  <2>1. evq' = evq \o (<< >> \o << >>) /\ out' = out /\ ~identReq'
    BY <1>3 DEF Abort, Send, If
  <2>2. << >> \o << >> = << >> /\ evq \o << >> = evq
    BY <1>1
  <2> QED BY <1>1, <2>1, <2>2
<1>4. ASSUME NEW a \in Answer, out' = Append(out, a) PROVE Len(out') >= Len(out)
  BY <1>1, <1>4
<1>5. /\ "VERS" \in Answer /\ "OPC" \in Answer /\ "DATA" \in Answer /\ "EVEN" \in Answer
  BY DEF Answer
<1>6. CASE VersionQ
  BY <1>4, <1>5, <1>6 DEF VersionQ
<1>13. CASE DigitalEventRefused
  BY <1>1, <1>13 DEF DigitalEventRefused
<1>7. CASE OpcQ
  <2>1. evq' = evq /\ ~identReq' /\ (out' = out \/ out' = Append(out, "OPC"))
    BY <1>7 DEF OpcQ
  <2> QED BY <1>1, <1>4, <1>5, <2>1
<1>8. CASE ScopeDataQ
  <2>1. evq' = evq /\ ~identReq' /\ (out' = out \/ out' = Append(out, "DATA"))
    BY <1>8 DEF ScopeDataQ
  <2> QED BY <1>1, <1>4, <1>5, <2>1
<1>9. CASE FetchDigitalEvent
  <2>1. /\ evq' = evq /\ ~identReq'
        /\ out' = out \/ out' = out \o << "EVEN" >> \/ out' = out \o << >>
    BY <1>9, Zenon DEF FetchDigitalEvent, If
  <2>2. out' = out \/ out' = Append(out, "EVEN")
    BY <1>1, <2>1
  <2> QED BY <1>1, <1>4, <1>5, <2>1, <2>2
<1>10. CASE \/ Rst \/ Wai \/ Sleep \/ Quit \/ ChannelState \/ Initiate \/ InitiateImmediate
            \/ ConfigureDigitalData \/ ConfigureDigitalEvent
  <2>1. evq' = evq /\ identReq' = identReq /\ out' = out
    BY <1>10 DEF Rst, Wai, Sleep, Quit, ChannelState, Enable, Initiate, InitiateImmediate,
       ConfigureDigitalData, ConfigureDigitalEvent
  <2> QED BY <1>1, <2>1
<1>11. CASE \/ SleepFails \/ SyntaxError \/ AbortFails \/ ScopeDataQFails
            \/ ConfigureDigitalEventFails \/ ReadOrMeasure
  <2>1. evq' = evq /\ identReq' = identReq /\ out' = out
    BY <1>11 DEF SleepFails, SyntaxError, AbortFails, ScopeDataQFails,
       ConfigureDigitalEventFails, ReadOrMeasure, Expand, Fail
  <2> QED BY <1>1, <2>1
<1>12. CASE Cls
  BY <1>12 DEF Cls
<1> QED BY <1>2, <1>3, <1>6, <1>7, <1>8, <1>9, <1>10, <1>11, <1>12, <1>13 DEF Handler

LEMMA PromptEvent ==
  ASSUME PlainEvent, evq \in Seq(EventId), Head(evq) \notin LateTokens, Head(evq) # "UNBLOCK",
         ~identReq
  PROVE  /\ evq' = Tail(evq) /\ ~identReq'
         /\ devReq' = devReq \/ devReq' = Append(devReq, "S O")
         /\ \/ Head(evq) # "OUTPUT_FLUSH" /\ out' = out
            \/ out' = << >> /\ received' = received \o out
<1>1. evq # << >>
  BY PlainEventFrame
<1>2. Tail(evq) \o << >> = Tail(evq)
  BY <1>1
<1>3. CASE IdentifyCompletion
  <2>1. /\ evq' = Tail(evq) \o << >> /\ identReq' = identReq
        /\ devReq' = devReq /\ out' = out
    BY <1>3 DEF IdentifyCompletion, Then, If
  <2>2. Head(evq) = "IDENTIFY_COMPLETE"
    BY <1>3, EventFrame DEF IdentifyCompletion
  <2> QED BY <1>2, <2>1, <2>2
<1>4. CASE DigitalReadCompletion \/ ScopeOffsetStart
  <2>1. /\ evq' = Tail(evq) \o << >> /\ identReq' = identReq /\ out' = out
        /\ devReq' = devReq \/ devReq' = Append(devReq, "S O")
    BY <1>4 DEF DigitalReadCompletion, ScopeOffsetStart, Then, identVars
  <2>2. Head(evq) \in { "DIGITAL_READ_COMPLETE", "SCOPE_OFFSET_START" }
    BY <1>4, EventFrame DEF DigitalReadCompletion, ScopeOffsetStart
  <2> QED BY <1>2, <2>1, <2>2
<1>6. CASE OutputFlush
  <2>1. /\ evq' = Tail(evq) \o << >> /\ identReq' = identReq /\ devReq' = devReq
        /\ out' = << >> /\ received' = received \o out
    BY <1>6 DEF OutputFlush, Then, identVars
  <2> QED BY <1>2, <2>1
<1>5. ~(IdentifyOutput \/ DigitalReadOutput \/ ScopeStatusOutput \/ ScopeStatusCompletion \/ Unblock)
  <2>1. \A e : Event(e) => Head(evq) = e
    BY EventFrame
  <2> QED
    BY <2>1 DEF IdentifyOutput, DigitalReadOutput, ScopeStatusOutput, ScopeStatusCompletion,
       Unblock, LateTokens, LateOutput
<1> QED BY <1>3, <1>4, <1>5, <1>6 DEF PlainEvent

LEMMA PromptReceiver ==
  ASSUME DeviceWorker, rcv \notin { "S", "D" }, chanMask = {}
  PROVE  /\ out' = out /\ identReq' = identReq
         /\ \/ evq' = evq \/ evq' = evq \o << >>
            \/ evq' = evq \o << "IDENTIFY_COMPLETE" >>
            \/ evq' = evq \o << "DIGITAL_READ_COMPLETE" >>
<1> USE DEF identVars
<1>1. ~RcvScopeStatus /\ ~RcvScopeData
  BY DEF RcvScopeStatus, RcvScopeData, Received
<1>2. CASE RcvStart \/ RcvScopeDataFails \/ RcvDigitalEventFails
  BY <1>2 DEF RcvStart, RcvScopeDataFails, RcvDigitalEventFails, Fail
<1>3. CASE RcvIdent \/ RcvScopeOffset \/ RcvScopeAddr
  BY <1>3 DEF RcvIdent, RcvScopeOffset, RcvScopeAddr, Send
<1>4. CASE RcvDigitalRead \/ RcvInterrupt
  BY <1>4 DEF RcvDigitalRead, RcvInterrupt, NoDigitalEvent, Send
<1> QED BY <1>1, <1>2, <1>3, <1>4 DEF DeviceWorker

LEMMA OthersKeepAnswers ==
  ASSUME Other \/ LineDone \/ ProcessNoLine \/ ProcessEmptyLine \/ ProcessLine \/ CliRead
  PROVE  identReq' = identReq /\ (out' = out \/ ProcessLine)
<1> USE DEF identVars
<1>1. CASE LineDone \/ ProcessNoLine \/ ProcessEmptyLine \/ ProcessLine \/ CliRead
  BY <1>1 DEF LineDone, ProcessNoLine, ProcessEmptyLine, ProcessLine, CliRead, stdinFrame
<1>2. CASE Other
  BY <1>2 DEF Other, Select, Exit, SelectTimeout, Stopped, SigAlrm, SigInt, DeviceAnswers,
     IdentifyCompletionFails, Fail, CliNoRead, Client, ClientCloses, ClientSends, DeviceSelf,
     DeviceTriggered, DeviceReportsInput, DeviceInterrupts, serverSide,
     outsideLoop, stdinFrame, clientFrame, vars
<1> QED BY <1>1, <1>2

LEMMA NothingLateStep ==
  ASSUME TypeOK, TypeOK', Underway, AddrInv, NothingRuns, NothingLate, [Next]_vars,
         Handler => Head(prog) \notin LateQueries
  PROVE  NothingLate'
<1>1. /\ evq \in Seq(EventId) /\ evq' \in Seq(EventId)
      /\ devReq \in Seq(Request) /\ devOut \in Seq(Message)
  BY DEF TypeOK
<1>2. /\ "S S" \in Request /\ "S O" \in Request /\ "D !" \in Request /\ "S B" \in Request
      /\ "i" \in Request /\ "S S" \notin { "S G", "S D", "D I", "D A", "D !" }
  BY DEF Request
<1>3. ASSUME NEW s \in Seq(EventId), \A e \in LateTokens : ~Has(s, e),
             evq' = evq \o s \/ (evq # << >> /\ evq' = Tail(evq) \o s)
      PROVE  \A e \in LateTokens : ~Has(evq', e)
  <2> SUFFICES ASSUME NEW e \in LateTokens PROVE ~Has(evq', e)
    OBVIOUS
  <2>1. ~Has(evq, e) /\ ~Has(s, e)
    BY <1>3 DEF NothingLate
  <2>2. CASE evq' = evq \o s
    BY <1>1, <1>3, <2>1, <2>2, HasConcat, Zenon
  <2>3. CASE evq # << >> /\ evq' = Tail(evq) \o s
    <3>1. Tail(evq) \in Seq(EventId) /\ ~Has(Tail(evq), e)
      BY <1>1, <2>1, <2>3, HasTail
    <3> QED BY <1>3, <2>1, <2>3, <3>1, HasConcat, Zenon
  <2> QED BY <1>3, <2>2, <2>3
<1>4. ASSUME NEW t, t \in { "OUTPUT_FLUSH", "PROCESS_LINE", "IDENTIFY_COMPLETE",
                            "DIGITAL_READ_COMPLETE" }
      PROVE  << t >> \in Seq(EventId) /\ \A e \in LateTokens : ~Has(<< t >>, e)
  <2>1. t \in EventId /\ t \notin LateTokens
    BY <1>4 DEF EventId, LateTokens, LateOutput
  <2> QED BY <2>1 DEF Has
<1>5. << >> \in Seq(EventId) /\ \A e \in LateTokens : ~Has(<< >>, e)
  BY DEF Has
<1>15. ~Has(Append(devReq, "D !"), "S S") /\ ~Has(Append(devReq, "S O"), "S S")
  <2>1. /\ Has(Append(devReq, "D !"), "S S") <=> Has(devReq, "S S") \/ "D !" = "S S"
        /\ Has(Append(devReq, "S O"), "S S") <=> Has(devReq, "S S") \/ "S O" = "S S"
    BY <1>1, <1>2, HasAppend, Zenon
  <2> QED BY <2>1 DEF NothingLate
<1>6. CASE Handler
  <2>1. ~sweep /\ ~digEv /\ ~identReq /\ Head(prog) \notin LateQueries
    BY <1>6 DEF NothingRuns, NothingLate
  <2>2. evq' = evq /\ ~identReq'
    BY <1>6, <2>1, PromptHandler
  <2>3. ~Has(devReq', "S S")
    BY <1>2, <1>6, HandlerRequests DEF NothingLate
  <2>4. devOut' = devOut
    BY <1>6, HandlerFrame
  <2> QED BY <2>2, <2>3, <2>4 DEF NothingLate
<1>7. CASE DeviceWorker
  <2>1. rcv \notin { "S", "D", "A" } /\ chanMask = {}
    <3>1. /\ devOut # << >> => Head(devOut) \notin { "S", "D", "A" }
          /\ chanMask = {}
      BY <1>1, HasTail DEF NothingRuns, NothingLate
    <3> QED BY <3>1 DEF AddrInv, Underway
  <2>2. ~identReq' /\ \A e \in LateTokens : ~Has(evq', e)
    <3>1. /\ ~identReq'
          /\ \/ evq' = evq \/ evq' = evq \o << >>
             \/ evq' = evq \o << "IDENTIFY_COMPLETE" >>
             \/ evq' = evq \o << "DIGITAL_READ_COMPLETE" >>
      <4>1. rcv \notin { "S", "D" } /\ ~identReq
        BY <2>1 DEF NothingLate
      <4> QED BY <1>7, <2>1, <4>1, PromptReceiver
    <3>2. evq' = evq => \A e \in LateTokens : ~Has(evq', e)
      BY DEF NothingLate
    <3> QED BY <1>3, <1>4, <1>5, <3>1, <3>2
  <2>3. ~Has(devReq', "S S") /\ ~Has(devOut', "S")
    <3>1. /\ devReq' = devReq \/ devReq' = Append(devReq, "D !")
          /\ devOut' = devOut \/ (devOut # << >> /\ devOut' = Tail(devOut))
      BY <1>7, <2>1, ReceiverFrame
    <3>2. ~Has(devReq', "S S")
      BY <1>1, <1>15, <3>1 DEF NothingLate
    <3>3. ~Has(devOut', "S")
      BY <1>1, <3>1, HasTail DEF NothingLate
    <3> QED BY <3>2, <3>3
  <2> QED BY <2>2, <2>3 DEF NothingLate
<1>8. ASSUME PlainEvent PROVE NothingLate'
  <2>1. evq # << >> /\ Head(evq) \notin LateTokens /\ Head(evq) # "UNBLOCK" /\ ~identReq
    <3>1. evq # << >>
      BY <1>8, PlainEventFrame
    <3>2. ~Has(evq, "UNBLOCK") /\ \A e \in LateTokens : ~Has(evq, e)
      BY DEF NothingLate, NothingRuns, Has, Queued
    <3> QED BY <1>1, <3>1, <3>2, HasTail DEF NothingLate
  <2>2. /\ evq' = Tail(evq) /\ ~identReq'
        /\ devReq' = devReq \/ devReq' = Append(devReq, "S O")
    BY <1>1, <1>8, <2>1, PromptEvent
  <2>3. \A e \in LateTokens : ~Has(evq', e)
    BY <1>1, <2>1, <2>2, HasTail DEF NothingLate
  <2>4. ~Has(devReq', "S S")
    BY <1>1, <1>15, <2>2 DEF NothingLate
  <2>5. devOut' = devOut
    BY <1>8, PlainEventAsks
  <2> QED BY <2>2, <2>3, <2>4, <2>5 DEF NothingLate
<1>9. CASE DeviceAnswers \/ DeviceSelf
  <2>1. evq' = evq /\ identReq' = identReq
    BY <1>9, DeviceMoves
  <2>2. /\ devReq' = devReq \/ (devReq # << >> /\ devReq' = Tail(devReq))
        /\ devReq # << >> => Head(devReq) # "S S"
    BY <1>1, <1>9, DeviceMoves, HasTail DEF NothingLate
  <2>3. ~Has(devReq', "S S")
    BY <1>1, <2>2, HasTail DEF NothingLate
  <2>4. ~Has(devOut', "S")
    <3>1. \/ devOut' = devOut
          \/ \E m \in Message : devOut' = Append(devOut, m) /\ m # "S"
      BY <1>9, <2>2, DeviceMoves
    <3>2. ASSUME NEW m \in Message, devOut' = Append(devOut, m), m # "S"
          PROVE  ~Has(devOut', "S")
      <4>1. Has(Append(devOut, m), "S") <=> Has(devOut, "S") \/ m = "S"
        BY <1>1, HasAppend, Zenon
      <4> QED BY <3>2, <4>1 DEF NothingLate
    <3> QED BY <3>1, <3>2 DEF NothingLate
  <2> QED BY <2>1, <2>3, <2>4 DEF NothingLate
<1>10. ASSUME \/ Other /\ ~DeviceAnswers /\ ~DeviceSelf
              \/ LineDone \/ ProcessNoLine \/ ProcessEmptyLine \/ ProcessLine \/ CliRead,
              \A e \in LateTokens : ~Has(evq', e)
       PROVE  NothingLate'
  <2>1. UNCHANGED << devReq, devOut >>
    BY <1>10, OthersAside DEF deviceSide
  <2>2. identReq' = identReq
    BY <1>10, OthersKeepAnswers
  <2> QED BY <1>10, <2>1, <2>2 DEF NothingLate
<1>11. CASE Other /\ ~DeviceAnswers /\ ~DeviceSelf
  BY <1>10, <1>11, OtherFrame DEF NothingLate
<1>12. CASE LineDone
  <2>1. \E s \in { << "OUTPUT_FLUSH" >>, << "OUTPUT_FLUSH" >> \o << "PROCESS_LINE" >>,
                   << "OUTPUT_FLUSH" >> \o << >> } : evq' = evq \o s
    BY <1>12, Zenon DEF LineDone, Send, NextLine, If
  <2>2. /\ << "OUTPUT_FLUSH" >> \o << >> = << "OUTPUT_FLUSH" >>
        /\ << "OUTPUT_FLUSH" >> \o << "PROCESS_LINE" >> \in Seq(EventId)
    BY Tokens
  <2>3. \A e \in LateTokens : ~Has(<< "OUTPUT_FLUSH" >> \o << "PROCESS_LINE" >>, e)
    BY <1>4, HasConcat, Zenon
  <2> QED BY <1>3, <1>4, <1>10, <1>12, <2>1, <2>2, <2>3
<1>13. CASE CliRead
  BY <1>3, <1>4, <1>10, <1>13 DEF CliRead, Send
<1>14. CASE ProcessNoLine \/ ProcessEmptyLine \/ ProcessLine
  <2>1. Event("PROCESS_LINE")
        /\ \E s \in { << >>, << "PROCESS_LINE" >> } : evq' = Tail(evq) \o s
    BY <1>14, Zenon DEF ProcessNoLine, ProcessEmptyLine, ProcessLine, Then, NextLine, If
  <2> QED BY <1>3, <1>4, <1>5, <1>10, <1>14, <2>1, EventFrame
<1> QED BY <1>6, <1>7, <1>8, <1>9, <1>11, <1>12, <1>13, <1>14, Cases

(* What is left of a line does not clear the buffer.                       *)
LEMMA PromptRest ==
  ASSUME Handler, prog \in PromptPrograms, pc' = "exec"
  PROVE  ~Has(prog', "*CLS")
<1>1. /\ prog # << >> /\ ~Has(Tail(prog), "*CLS")
      /\ Head(prog) \in PromptCommand \cup { "EOF" }
  BY HandlerFrame, PromptTail
<1>2. CASE ReadOrMeasure
  <2>1. /\ Head(prog) # "READ:DIG:DATA?" /\ Head(prog) # "MEAS:DIG:DATA?"
        /\ Head(prog) # "MEAS:DIG:EVEN?"
    BY <1>1 DEF PromptCommand, Command, Starters, LateQueries
  <2>2. prog' = << "ABOR", "INIT", "FETC:DIG:EVEN?" >> \o Tail(prog)
    BY <1>2, <2>1, Zenon DEF ReadOrMeasure, Expand, At
  <2> QED BY <1>1, <2>2, PromptExpands
<1>3. CASE ~ReadOrMeasure
  <2>1. prog' = Tail(prog) \/ prog' = << >>
    BY <1>3, HandlerRest
  <2> QED BY <1>1, <2>1 DEF Has
<1> QED BY <1>2, <1>3

LEMMA PromptStep ==
  ASSUME TypeOK, TypeOK', Underway, AddrInv, NothingRuns, OneToken, NothingLate, FlushInv,
         Runs(PromptPrograms), [Next]_vars, Handler => Head(prog) \notin LateQueries
  PROVE  FlushInv' /\ KeepsAnswers
<1>1. /\ evq \in Seq(EventId) /\ evq' \in Seq(EventId) /\ out \in Seq(Answer)
      /\ Len(out) \in Nat
  BY DEF TypeOK
<1>2. /\ << "OUTPUT_FLUSH" >> \in Seq(EventId) /\ FlushFirst(<< "OUTPUT_FLUSH" >>)
      /\ << "PROCESS_LINE" >> \in Seq(EventId) /\ << >> \in Seq(EventId)
      /\ << "IDENTIFY_COMPLETE" >> \in Seq(EventId)
      /\ << "DIGITAL_READ_COMPLETE" >> \in Seq(EventId)
  BY DEF FlushFirst, EventId
<1>3. out' = out => KeepsAnswers
  BY <1>1 DEF KeepsAnswers
<1>4. ASSUME NEW s \in Seq(EventId), evq' = evq \o s, out' = out, pc = "loop",
             pc' # "exec"
      PROVE  FlushInv' /\ KeepsAnswers
  <2>1. pc' = "loop" /\ out' # << >> => FlushFirst(evq')
    BY <1>1, <1>4, FlushFirstConcat DEF FlushInv
  <2> QED BY <1>3, <1>4, <2>1 DEF FlushInv
<1>5. CASE Handler
  <2>1. /\ pc = "exec" /\ pc' \in { "exec", "failed" } /\ prog # << >>
        /\ prog \in PromptPrograms
    BY <1>5, HandlerFrame DEF Runs
  <2>2. FlushInv'
    BY <1>5, <2>1, PromptRest DEF FlushInv
  <2>3. Cls => out = << >>
    <3> SUFFICES ASSUME Cls PROVE out = << >>
      OBVIOUS
    <3>1. Head(prog) = "*CLS" /\ prog \in Seq(PromptCommand \cup { "EOF" })
      BY <2>1 DEF Cls, Run, At, PromptPrograms
    <3>2. Has(prog, "*CLS")
      BY <2>1, <3>1, HasTail
    <3> QED BY <2>1, <3>2 DEF FlushInv
  <2>4. Cls \/ Len(out') >= Len(out)
    <3>1. ~sweep /\ ~digEv /\ ~identReq /\ Head(prog) \notin LateQueries
      BY <1>5 DEF NothingRuns, NothingLate
    <3> QED BY <1>5, <3>1, PromptHandler
  <2>5. out' \in Seq(Answer) /\ Len(out') \in Nat
    BY DEF TypeOK
  <2>6. KeepsAnswers
    BY <1>1, <2>3, <2>4, <2>5 DEF KeepsAnswers
  <2> QED BY <2>2, <2>6
<1>6. CASE DeviceWorker
  <2>1. rcv \notin { "S", "D" } /\ chanMask = {}
    <3>1. devOut \in Seq(Message)
      BY DEF TypeOK
    <3>2. /\ devOut # << >> => Head(devOut) \notin { "S", "D" }
          /\ chanMask = {}
      BY <3>1, HasTail DEF NothingRuns, NothingLate
    <3> QED BY <3>2 DEF AddrInv, Underway
  <2>2. /\ out' = out
        /\ \/ evq' = evq \/ evq' = evq \o << >>
           \/ evq' = evq \o << "IDENTIFY_COMPLETE" >>
           \/ evq' = evq \o << "DIGITAL_READ_COMPLETE" >>
    BY <1>6, <2>1, PromptReceiver
  <2>3. evq \o << >> = evq
    BY <1>1
  <2>4. pc = "loop" /\ pc' # "exec"
    BY <1>6, DeviceFrame
  <2> QED BY <1>2, <1>4, <2>2, <2>3, <2>4
<1>7. ASSUME PlainEvent PROVE FlushInv' /\ KeepsAnswers
  <2>1. /\ pc = "loop" /\ pc' = "loop" /\ evq # << >>
    <3>1. \E e : Event(e)
      BY <1>7, Zenon DEF PlainEvent, IdentifyCompletion, IdentifyOutput, DigitalReadCompletion,
         DigitalReadOutput, ScopeStatusOutput, ScopeStatusCompletion, ScopeOffsetStart,
         Unblock, OutputFlush
    <3> QED BY <1>7, <3>1, EventFrame, PlainEventFrame
  <2>2. Head(evq) \notin LateTokens /\ Head(evq) # "UNBLOCK" /\ ~identReq
    <3>1. ~Has(evq, "UNBLOCK") /\ \A e \in LateTokens : ~Has(evq, e)
      BY DEF NothingLate, NothingRuns, Has, Queued
    <3> QED BY <1>1, <2>1, <3>1, HasTail DEF NothingLate
  <2>3. /\ evq' = Tail(evq)
        /\ \/ Head(evq) # "OUTPUT_FLUSH" /\ out' = out
           \/ out' = << >> /\ received' = received \o out
    BY <1>1, <1>7, <2>2, PromptEvent
  <2>4. CASE out' = << >> /\ received' = received \o out
    BY <2>1, <2>4 DEF FlushInv, KeepsAnswers
  <2>5. CASE Head(evq) # "OUTPUT_FLUSH" /\ out' = out
    <3>1. out # << >> => FlushFirst(evq')
      BY <1>1, <2>1, <2>3, <2>5, FlushFirstTail DEF FlushInv
    <3> QED BY <1>3, <2>1, <2>5, <3>1 DEF FlushInv
  <2> QED BY <2>3, <2>4, <2>5
<1>8. ASSUME Other PROVE FlushInv' /\ KeepsAnswers
  <2>1. UNCHANGED << evq, prog, out >> /\ (pc' = pc \/ pc' = "failed" \/ pc' = "exited")
    BY <1>8, OtherFrame
  <2> QED BY <1>3, <2>1 DEF FlushInv
<1>9. CASE LineDone
  <2>1. ~Has(evq, "PROCESS_LINE") /\ pc' = "loop" /\ out' = out
    BY <1>9, OthersKeepAnswers DEF LineDone, OneToken
  <2>2. \E s \in { << "OUTPUT_FLUSH" >>, << "OUTPUT_FLUSH" >> \o << "PROCESS_LINE" >>,
                   << "OUTPUT_FLUSH" >> \o << >> } : evq' = evq \o s
    BY <1>9, Zenon DEF LineDone, Send, NextLine, If
  <2>3. \A s \in { << >>, << "PROCESS_LINE" >> } :
          /\ << "OUTPUT_FLUSH" >> \o s \in Seq(EventId)
          /\ FlushFirst(<< "OUTPUT_FLUSH" >> \o s)
    <3> TAKE s \in { << >>, << "PROCESS_LINE" >> }
    <3>1. s \in Seq(EventId)
      BY <1>2
    <3> QED BY <1>2, <3>1, FlushFirstConcat, ConcatProperties, Zenon
  <2>4. \E s \in Seq(EventId) : evq' = evq \o s /\ FlushFirst(s)
    BY <1>2, <2>2, <2>3, Zenon
  <2>5. FlushFirst(evq')
    BY <1>1, <2>1, <2>4, FlushFirstConcat, Zenon
  <2> QED BY <1>3, <2>1, <2>5 DEF FlushInv
<1>10. CASE CliRead
  <2>1. /\ evq' = evq \o << "PROCESS_LINE" >> /\ out' = out
        /\ pc = "loop" /\ pc' # "exec"
    BY <1>10 DEF CliRead, Send, Turn, stdinFrame
  <2> QED BY <1>2, <1>4, <2>1
<1>11. CASE ProcessNoLine \/ ProcessEmptyLine \/ ProcessLine
  <2>1. Event("PROCESS_LINE")
    BY <1>11, Zenon DEF ProcessNoLine, ProcessEmptyLine, ProcessLine
  <2>2. pc = "loop" /\ evq # << >> /\ Head(evq) = "PROCESS_LINE"
    BY <2>1, EventFrame
  <2>3. out = << >>
    BY <1>1, <2>2, FlushFirstTail DEF FlushInv
  <2>4. out' = << >>
    BY <1>11, <2>3, OthersKeepAnswers DEF ProcessLine
  <2> QED BY <2>3, <2>4 DEF FlushInv, KeepsAnswers
<1> QED BY <1>5, <1>6, <1>7, <1>8, <1>9, <1>10, <1>11, Cases

PromptInv == NothingLate /\ FlushInv /\ Runs(PromptPrograms)

LEMMA PromptInit == ASSUME AnsweredAtOnce(Lines), Init PROVE PromptInv
<1>1. /\ << >> \in PromptPrograms /\ << >> \in Seq(PromptPrograms)
      /\ \A e : ~Has(<< >>, e)
  BY PromptClosed DEF IsClosed, Has
<1>2. \A e \in LateTokens : ~Has(evq, e)
  <2>1. evq = << "SCOPE_OFFSET_START" >>
    BY DEF Init
  <2> QED BY <2>1 DEF Has, LateTokens, LateOutput
<1>3. NothingLate
  BY <1>1, <1>2 DEF Init, NothingLate
<1> QED BY <1>1, <1>3 DEF Init, PromptInv, FlushInv, Runs

LEMMA PromptNext ==
  ASSUME AnsweredAtOnce(Lines), IInv, IInv', RestfulInv, PromptInv, [Next]_vars
  PROVE  PromptInv' /\ KeepsAnswers
<1>1. /\ TypeOK /\ TypeOK' /\ Underway /\ AddrInv /\ NothingRuns /\ OneToken
      /\ NothingLate /\ FlushInv /\ Runs(PromptPrograms)
  BY DEF IInv, RestfulInv, PromptInv
<1>2. Handler => Head(prog) \notin LateQueries
  <2>1. Handler => Head(prog) \in PromptCommand \cup { "EOF" }
    BY <1>1, HandlerFrame, PromptTail DEF Runs
  <2> QED BY <2>1 DEF PromptCommand, LateQueries
<1>3. Runs(PromptPrograms)'
  BY <1>1, PromptClosed, RunsStep
<1>4. NothingLate'
  BY <1>1, <1>2, NothingLateStep
<1>5. FlushInv' /\ KeepsAnswers
  BY <1>1, <1>2, PromptStep
<1> QED BY <1>3, <1>4, <1>5 DEF PromptInv

LEMMA PromptAlways == ASSUME AnsweredAtOnce(Lines) PROVE Safe => []PromptInv
<1>1. Safe => []RestfulInv
  BY PromptStartsNothing, RestfulAlways
<1>2. Init => PromptInv
  BY PromptInit
<1>3. IInv /\ IInv' /\ RestfulInv /\ PromptInv /\ [Next]_vars => PromptInv'
  BY PromptNext
<1> QED BY <1>1, <1>2, <1>3, Invariance, PTL DEF Safe

(* For every client whose answers are complete when their line is: the     *)
(* output buffer is emptied by writing it, never by clearing it while it   *)
(* holds answers (parser_send, scpi_core_cls, scpi_output).                *)
THEOREM AnswersAreKept ==
  ASSUME AnsweredAtOnce(Lines)
  PROVE  Safe => AnswersNotCleared
<1>1. Safe => []RestfulInv
  BY PromptStartsNothing, RestfulAlways
<1>2. IInv /\ IInv' /\ RestfulInv /\ PromptInv /\ [Next]_vars
        => (out # << >> /\ Len(out') < Len(out) => received' = received \o out)
  BY PromptNext DEF KeepsAnswers
<1> QED BY <1>1, <1>2, PromptAlways, Invariance, PTL DEF Safe, AnswersNotCleared

----------------------------------------------------------------------------
(* A client that fences its sweeps: no unblock is for a sweep before the   *)
(* one that is waited for.                                                 *)
LEMMA FencedTail ==
  ASSUME NEW p, Fenced(p), p # << >>
  PROVE  /\ Fenced(Tail(p)) /\ Head(p) \notin Aborters \cup Recorders
         /\ Head(p) \in Sweepers => /\ Tail(p) # << >> /\ Head(Tail(p)) \in Fences
                                    /\ \A c \in Sweepers : ~Has(Tail(p), c)
<1> DEFINE C == Command \ (Aborters \cup Recorders)
<1>1. /\ p \in Seq(C)
      /\ \A i \in 1..Len(p) : p[i] \in Sweepers => i < Len(p) /\ p[i + 1] \in Fences
      /\ \A i, j \in 1..Len(p) : p[i] \in Sweepers /\ p[j] \in Sweepers => i = j
  BY Zenon DEF Fenced, Follows
<1>2. \A c \in C : c \notin Aborters \cup Recorders
  OBVIOUS
<1> HIDE DEF C
<1>3. PICK t : t = Tail(p)
  OBVIOUS
<1>4. /\ t \in Seq(C) /\ Head(p) \in C /\ Head(p) = p[1]
      /\ Len(p) \in Nat /\ Len(p) >= 1 /\ Len(t) = Len(p) - 1
      /\ \A i \in 1..Len(p) - 1 : t[i] = p[i + 1]
  BY <1>1, <1>3
<1>5. ASSUME NEW i \in 1..Len(t), t[i] \in Sweepers PROVE Follows(t, i, Fences)
  <2>1. i + 1 \in 1..Len(p) /\ p[i + 1] = t[i]
    BY <1>4
  <2>2. i + 1 < Len(p) /\ p[(i + 1) + 1] \in Fences
    BY <1>1, <1>5, <2>1
  <2>3. i < Len(t) /\ t[i + 1] = p[(i + 1) + 1]
    BY <1>4, <2>2
  <2> QED BY <2>2, <2>3 DEF Follows
<1>6. ASSUME NEW i \in 1..Len(t), NEW j \in 1..Len(t), t[i] \in Sweepers, t[j] \in Sweepers
      PROVE  i = j
  <2>1. /\ i + 1 \in 1..Len(p) /\ p[i + 1] = t[i]
        /\ j + 1 \in 1..Len(p) /\ p[j + 1] = t[j]
    BY <1>4
  <2>2. i + 1 = j + 1
    BY <1>1, <1>6, <2>1
  <2> QED BY <2>2
<1>7. Fenced(t)
  BY <1>4, <1>5, <1>6, Zenon DEF Fenced, C
<1>8. ASSUME Head(p) \in Sweepers
      PROVE  t # << >> /\ Head(t) \in Fences /\ \A c \in Sweepers : ~Has(t, c)
  <2>1. 1 \in 1..Len(p) /\ p[1] \in Sweepers
    BY <1>4, <1>8
  <2>2. 1 < Len(p) /\ p[1 + 1] \in Fences
    BY <1>1, <2>1
  <2>3. Len(t) >= 1 /\ t[1] = p[1 + 1]
    BY <1>4, <2>2
  <2>4. t # << >> /\ Head(t) = t[1]
    BY <1>4, <2>3
  <2>5. ASSUME NEW c \in Sweepers, NEW i \in 1..Len(t), t[i] = c PROVE FALSE
    <3>1. i + 1 \in 1..Len(p) /\ p[i + 1] \in Sweepers /\ i + 1 # 1
      BY <1>4, <2>5
    <3> QED BY <1>1, <2>1, <3>1
  <2> QED BY <2>2, <2>3, <2>4, <2>5 DEF Has
<1> QED BY <1>2, <1>3, <1>4, <1>7, <1>8

LEMMA FencedNothing == Fenced(<< >>) /\ Idle(<< >>) /\ Fenced(EndOfFile)
<1>1. Fenced(<< >>) /\ Idle(<< >>)
  BY DEF Fenced, Idle
<1>2. "EOF" \in Command \ (Aborters \cup Recorders) /\ "EOF" \notin Sweepers
  BY DEF Command, Aborters, Recorders, Sweepers
<1>3. << "EOF" >> \in Seq(Command \ (Aborters \cup Recorders))
  BY <1>2
<1>4. \A i \in 1..Len(<< "EOF" >>) : << "EOF" >>[i] \notin Sweepers
  BY <1>2
<1> QED BY <1>1, <1>3, <1>4, Zenon DEF Fenced, EndOfFile

LEMMA IdleRest ==
  ASSUME Handler, Idle(prog), pc' = "exec"
  PROVE  Idle(prog') /\ Head(prog) \notin Recorders \cup { "SENS:FUNC:ON" }
<1> DEFINE C == Command \ (Recorders \cup { "SENS:FUNC:ON" })
<1>1. /\ "ABOR" \in C /\ "INIT" \in C /\ "CONF:DIG:DATA" \in C
      /\ "FETC:DIG:DATA?" \in C /\ "FETC:DIG:EVEN?" \in C /\ "MEAS:DIG:EVEN?" \notin C
  BY DEF Command, Recorders
<1>2. prog \in Seq(C) /\ prog # << >>
  BY HandlerFrame DEF Idle
<1>3. \A c \in C : c \notin Recorders \cup { "SENS:FUNC:ON" }
  OBVIOUS
<1> HIDE DEF C
<1>4. Head(prog) \in C /\ Tail(prog) \in Seq(C)
  BY <1>2
<1>5. CASE ReadOrMeasure
  <2>1. \E s \in { << "ABOR", "INIT", "FETC:DIG:DATA?" >>,
                   << "CONF:DIG:DATA", "ABOR", "INIT", "FETC:DIG:DATA?" >>,
                   << "ABOR", "INIT", "FETC:DIG:EVEN?" >> } : prog' = s \o Tail(prog)
    <3>1. Head(prog) # "MEAS:DIG:EVEN?"
      BY <1>1, <1>4
    <3> QED BY <1>5, <3>1, Zenon DEF ReadOrMeasure, Expand, At
  <2>2. /\ << "ABOR", "INIT", "FETC:DIG:DATA?" >> \in Seq(C)
        /\ << "CONF:DIG:DATA", "ABOR", "INIT", "FETC:DIG:DATA?" >> \in Seq(C)
        /\ << "ABOR", "INIT", "FETC:DIG:EVEN?" >> \in Seq(C)
    BY <1>1
  <2>3. \E s \in Seq(C) : prog' = s \o Tail(prog)
    BY <2>1, <2>2, Zenon
  <2>4. prog' \in Seq(C)
    BY <1>4, <2>3, ConcatProperties, Zenon
  <2> QED BY <1>3, <1>4, <2>4 DEF Idle, C
<1>6. CASE ~ReadOrMeasure
  <2>1. prog' = Tail(prog) \/ prog' = << >>
    BY <1>6, HandlerRest
  <2>2. << >> \in Seq(C)
    OBVIOUS
  <2> QED BY <1>3, <1>4, <2>1, <2>2 DEF Idle, C
<1> QED BY <1>5, <1>6

(* Where a capture is on its way to the client: asked for, started, its    *)
(* address sent, its data asked for, sent.  There is one at most.          *)
Stage == { "none", "S G", "armed", "A", "S B", "D" }

InStage(st, rq, ar, ou) ==
  /\ Alone(rq, "S G") /\ Alone(rq, "S B") /\ Alone(ou, "A") /\ Alone(ou, "D")
  /\ Has(rq, "S G") => st = "S G"
  /\ Has(rq, "S B") => st = "S B"
  /\ ar => st = "armed"
  /\ Has(ou, "A") => st = "A"
  /\ Has(ou, "D") => st = "D"

Flight == \E st \in Stage : InStage(st, devReq, armed, devOut) /\ (st # "none" => sweep)

(* What runs while a sweep is in progress is about to wait for its end; a  *)
(* line that aborts runs only when there is none.                          *)
Running ==
  \/ /\ Fenced(prog)
     /\ sweep => /\ \A c \in Sweepers : ~Has(prog, c)
                 /\ blockInput \/ (prog # << >> /\ Head(prog) \in Fences)
  \/ ~sweep /\ Idle(prog) /\ (~enabled \/ Disables(prog))

Fence ==
  /\ overlapped = sweep /\ ~digEv /\ chanMask = {}
  /\ Alone(evq, "UNBLOCK") /\ (sweep => ~Has(evq, "UNBLOCK"))
  /\ pc = "loop" /\ (sweep \/ Has(evq, "UNBLOCK")) => blockInput
  /\ pc = "exec" => ~Has(evq, "UNBLOCK") /\ Running

LEMMA AloneAppend ==
  ASSUME NEW S, NEW s \in Seq(S), NEW x \in S, NEW e, Alone(s, e), x # e \/ ~Has(s, e)
  PROVE  Alone(Append(s, x), e)
<1>1. Append(s, x) = s \o << x >> /\ << x >> \in Seq(S)
  BY AppendIsConcat
<1>2. Alone(<< x >>, e) /\ (x # e => ~Has(<< x >>, e))
  BY DEF Alone, Has
<1>3. Alone(s \o << x >>, e)
  BY <1>1, <1>2, AloneConcat, Zenon
<1> QED BY <1>1, <1>3

LEMMA Regrouped ==
  ASSUME NEW S, NEW s \in Seq(S), NEW t \in Seq(S), NEW u \in Seq(S)
  PROVE  (s \o t) \o u = s \o (t \o u)
BY ConcatAssociative

(* A handler starts a capture only if a channel is enabled, and only one.  *)
LEMMA HandlerCaptures ==
  ASSUME TypeOK, Handler
  PROVE  \E r \in Seq(Request) :
           /\ devReq' = devReq \o r
           /\ ~Has(r, "S B") /\ Alone(r, "S G")
           /\ Has(r, "S G") => enabled /\ Head(prog) \in Sweepers
<1> DEFINE Asks(r) == /\ devReq' = devReq \o r
                      /\ ~Has(r, "S B") /\ Alone(r, "S G")
                      /\ Has(r, "S G") => enabled /\ Head(prog) \in Sweepers
<1> SUFFICES \E r \in Seq(Request) : Asks(r)
  OBVIOUS
<1>0. devReq \in Seq(Request)
  BY DEF TypeOK
<1>1. /\ << >> \in Seq(Request)
      /\ "D I" \in Request /\ "D !" \in Request /\ "D A" \in Request
      /\ "S G" \in Request /\ "S D" \in Request
  BY DEF Request
<1>4. ASSUME NEW s \in Seq(Request), NEW t \in Seq(Request), NEW u \in Seq(Request)
      PROVE  (s \o t) \o u = s \o (t \o u)
  BY Regrouped
<1>2. CASE Initiate \/ InitiateImmediate
  <2>1. Head(prog) \in Sweepers
    BY <1>2 DEF Initiate, InitiateImmediate, Run, At, Sweepers
  <2>2. \A e : ~Has(<< >>, e) /\ Alone(<< >>, e)
    BY DEF Has, Alone
  <2>3. ASSUME NEW x \in Request, x # "S G", x # "S B", NEW b
        PROVE  /\ If(b, << x >>) \in Seq(Request)
               /\ ~Has(If(b, << x >>), "S B") /\ ~Has(If(b, << x >>), "S G")
    <3>1. << x >> \in Seq(Request) /\ ~Has(<< x >>, "S B") /\ ~Has(<< x >>, "S G")
      BY <2>3, HasOne
    <3> QED BY <1>1, <2>2, <3>1, Zenon DEF If
  <2>4. ASSUME NEW s \in Seq(Request), NEW t \in Seq(Request),
               ~Has(s, "S B"), Alone(s, "S G"), ~Has(t, "S B"), ~Has(t, "S G")
        PROVE  /\ s \o t \in Seq(Request) /\ t \o s \in Seq(Request)
               /\ ~Has(s \o t, "S B") /\ Alone(s \o t, "S G")
               /\ ~Has(t \o s, "S B") /\ Alone(t \o s, "S G")
               /\ Has(s \o t, "S G") \/ Has(t \o s, "S G") => Has(s, "S G")
    <3>1. s \o t \in Seq(Request) /\ t \o s \in Seq(Request)
      BY ConcatProperties, Zenon
    <3>2. Alone(s \o t, "S G") /\ Alone(t \o s, "S G")
      BY <2>4, AloneConcat, Zenon
    <3>3. ASSUME NEW e PROVE (Has(s \o t, e) <=> Has(s, e) \/ Has(t, e))
                             /\ (Has(t \o s, e) <=> Has(s, e) \/ Has(t, e))
      BY HasConcat, Zenon
    <3> QED BY <2>4, <3>1, <3>2, <3>3
  <2>5. ASSUME NEW m \in BOOLEAN
        PROVE  LET g == DigitizerStart(m)
               IN  /\ g \in Seq(Request) /\ ~Has(g, "S B") /\ Alone(g, "S G")
                   /\ Has(g, "S G") => enabled
    <3>1. << "S G" >> \in Seq(Request) /\ ~Has(<< "S G" >>, "S B") /\ Alone(<< "S G" >>, "S G")
      <4>1. \A x, e : Alone(<< x >>, e)
        BY DEF Alone
      <4>2. "S G" # "S B"
        OBVIOUS
      <4>3. << "S G" >> \in Seq(Request) /\ \A e : Has(<< "S G" >>, e) <=> e = "S G"
        BY <1>1, HasOne, Zenon
      <4> QED BY <4>1, <4>2, <4>3, Zenon
    <3>2. PICK t \in Seq(Request) : /\ ~Has(t, "S B") /\ ~Has(t, "S G")
                                    /\ DigitizerStart(m) = If(enabled, << "S G" >> \o t)
      <4>1. "S D" # "S G" /\ "S D" # "S B"
        OBVIOUS
      <4> QED BY <1>1, <2>3, <4>1, Zenon DEF DigitizerStart
    <3>3. /\ << "S G" >> \o t \in Seq(Request) /\ ~Has(<< "S G" >> \o t, "S B")
          /\ Alone(<< "S G" >> \o t, "S G")
      BY <2>4, <3>1, <3>2
    <3> QED BY <1>1, <2>2, <3>2, <3>3, Zenon DEF If
  <2>6. "D I" # "S G" /\ "D I" # "S B" /\ "D !" # "S G" /\ "D !" # "S B"
        /\ "D A" # "S G" /\ "D A" # "S B"
    OBVIOUS
  <2>7. PICK a \in Seq(Request) : a = If(digReq, << "D I" >>) /\ ~Has(a, "S B") /\ ~Has(a, "S G")
    BY <1>1, <2>3, <2>6
  <2>8. PICK c \in Seq(Request) : c = If("INT" \in chanMask, << "D !" >>)
                                  /\ ~Has(c, "S B") /\ ~Has(c, "S G")
    BY <1>1, <2>3, <2>6
  <2>9. PICK d \in Seq(Request) : d = If("DIN" \in chanMask, << "D A" >>)
                                  /\ ~Has(d, "S B") /\ ~Has(d, "S G")
    BY <1>1, <2>3, <2>6
  <2>10. CASE Initiate
    <3>1. PICK g \in Seq(Request) : /\ g = DigitizerStart(FALSE)
                                    /\ ~Has(g, "S B") /\ Alone(g, "S G")
                                    /\ Has(g, "S G") => enabled
      BY <2>5
    <3>2. devReq' = devReq \o a \o g \o c \o d
      BY <2>7, <2>8, <2>9, <2>10, <3>1 DEF Initiate
    <3>3. PICK r \in Seq(Request) : /\ r = ((a \o g) \o c) \o d
                                    /\ ~Has(r, "S B") /\ Alone(r, "S G")
                                    /\ Has(r, "S G") => enabled
      <4>1. /\ a \o g \in Seq(Request) /\ ~Has(a \o g, "S B") /\ Alone(a \o g, "S G")
            /\ Has(a \o g, "S G") => enabled
        BY <2>4, <2>7, <3>1
      <4>2. PICK u \in Seq(Request) : /\ u = a \o g /\ ~Has(u, "S B") /\ Alone(u, "S G")
                                      /\ Has(u, "S G") => enabled
        BY <4>1
      <4>3. PICK v \in Seq(Request) : /\ v = u \o c /\ ~Has(v, "S B") /\ Alone(v, "S G")
                                      /\ Has(v, "S G") => enabled
        BY <2>4, <2>8, <4>2
      <4>4. /\ v \o d \in Seq(Request) /\ ~Has(v \o d, "S B") /\ Alone(v \o d, "S G")
            /\ Has(v \o d, "S G") => enabled
        BY <2>4, <2>9, <4>3
      <4> QED BY <4>2, <4>3, <4>4
    <3>4. devReq \o a \o g \o c \o d = devReq \o r
      <4>1. a \o g \in Seq(Request) /\ (a \o g) \o c \in Seq(Request)
        BY ConcatProperties, Zenon
      <4>2. devReq \o a \o g = devReq \o (a \o g)
        BY <1>0, <1>4
      <4>3. devReq \o (a \o g) \o c = devReq \o ((a \o g) \o c)
        BY <1>0, <1>4, <4>1
      <4>4. devReq \o ((a \o g) \o c) \o d = devReq \o (((a \o g) \o c) \o d)
        BY <1>0, <1>4, <4>1
      <4> QED BY <3>3, <4>2, <4>3, <4>4
    <3> QED BY <2>1, <3>2, <3>3, <3>4
  <2>11. CASE InitiateImmediate
    <3>1. PICK g \in Seq(Request) : /\ g = DigitizerStart(TRUE)
                                    /\ ~Has(g, "S B") /\ Alone(g, "S G")
                                    /\ Has(g, "S G") => enabled
      BY <2>5
    <3>2. devReq' = devReq \o a \o g
      BY <2>7, <2>11, <3>1 DEF InitiateImmediate
    <3>3. /\ a \o g \in Seq(Request) /\ ~Has(a \o g, "S B") /\ Alone(a \o g, "S G")
          /\ Has(a \o g, "S G") => enabled
      BY <2>4, <2>7, <3>1
    <3>4. devReq \o a \o g = devReq \o (a \o g)
      BY <1>0, <1>4
    <3> QED BY <2>1, <3>2, <3>3, <3>4
  <2> QED BY <1>2, <2>10, <2>11
<1>3. CASE ~(Initiate \/ InitiateImmediate)
  <2>1. devReq' = devReq
    <3>1. CASE \/ VersionQ \/ DigitalEventRefused \/ Cls \/ Rst \/ Wai \/ OpcQ \/ Sleep
               \/ Quit \/ IdnQ
               \/ ChannelState \/ Abort
      BY <3>1 DEF VersionQ, DigitalEventRefused, Cls, Rst, Wai, OpcQ, Sleep, Quit, IdnQ,
         ChannelState, Enable, Abort
    <3>2. CASE \/ ScopeDataQ \/ ScopeStatusQ \/ ConfigureDigitalData \/ FetchDigitalData
               \/ ConfigureDigitalEvent \/ FetchDigitalEvent
      BY <3>2 DEF ScopeDataQ, ScopeStatusQ, ConfigureDigitalData, FetchDigitalData,
         ConfigureDigitalEvent, FetchDigitalEvent
    <3>3. CASE SyntaxError \/ ReadOrMeasure
      BY <3>3 DEF SyntaxError, ReadOrMeasure, Expand, deviceVars
    <3>4. CASE SleepFails \/ AbortFails \/ ScopeDataQFails \/ ConfigureDigitalEventFails
      BY <3>4 DEF SleepFails, AbortFails, ScopeDataQFails, ConfigureDigitalEventFails, Fail,
         deviceVars
    <3> QED BY <1>3, <3>1, <3>2, <3>3, <3>4 DEF Handler
  <2>2. devReq' = devReq \o << >>
    BY <1>0, <2>1
  <2>3. ~Has(<< >>, "S B") /\ Alone(<< >>, "S G") /\ ~Has(<< >>, "S G")
    BY DEF Has, Alone
  <2> QED BY <1>1, <2>2, <2>3, Zenon
<1> QED BY <1>2, <1>3

(* The device takes a capture one stage further, and starts none.          *)
LEMMA DeviceStages ==
  ASSUME DeviceAnswers \/ DeviceSelf
  PROVE  \/ /\ devReq # << >> /\ devReq' = Tail(devReq)
            /\ armed' <=> Head(devReq) = "S G" \/ (Head(devReq) # "S D" /\ armed)
            /\ \/ devOut' = devOut
               \/ \E m \in Message : /\ devOut' = Append(devOut, m)
                                     /\ m = "A" => armed /\ Head(devReq) = "S D"
                                     /\ m = "D" => Head(devReq) = "S B"
         \/ /\ devReq' = devReq /\ armed /\ ~armed' /\ devOut' = Append(devOut, "A")
         \/ /\ devReq' = devReq /\ armed' = armed
            /\ \E m \in Message \ { "A", "D" } : devOut' = Append(devOut, m)
<1>1. CASE DeviceAnswers
  <2>1. PICK r : r = Head(devReq)
    OBVIOUS
  <2>2. /\ devReq # << >> /\ devReq' = Tail(devReq)
        /\ armed' <=> r = "S G" \/ (r # "S D" /\ armed)
    BY <1>1, <2>1, Zenon DEF DeviceAnswers
  <2>3. \/ devOut' = devOut
        \/ \E m \in Message : /\ devOut' = Append(devOut, m)
                              /\ << r, m >> \in Reply /\ (m = "A" => armed)
    BY <1>1, <2>1 DEF DeviceAnswers
  <2>4. ASSUME NEW m, << r, m >> \in Reply
        PROVE  (m = "D" => r = "S B") /\ (m = "A" => r = "S D")
    BY <2>4 DEF Reply
  <2> QED BY <2>1, <2>2, <2>3, <2>4, Zenon
<1>2. CASE DeviceTriggered
  BY <1>2 DEF DeviceTriggered
<1>3. CASE DeviceReportsInput \/ DeviceInterrupts
  <2>1. "I" \in Message \ { "A", "D" } /\ "!" \in Message \ { "A", "D" }
    BY DEF Message
  <2> QED BY <1>3, <2>1 DEF DeviceReportsInput, DeviceInterrupts
<1> QED BY <1>1, <1>2, <1>3 DEF DeviceSelf

LEMMA FlightDevice ==
  ASSUME TypeOK, Flight, DeviceAnswers \/ DeviceSelf
  PROVE  Flight'
<1>1. PICK st \in Stage : InStage(st, devReq, armed, devOut) /\ (st # "none" => sweep)
  BY DEF Flight
<1>2. devReq \in Seq(Request) /\ devOut \in Seq(Message) /\ "A" \in Message
  BY DEF TypeOK, Message
<1>3. sweep' = sweep
  BY DeviceMoves DEF operations
<1>4. ASSUME NEW m \in Message, NEW e, devOut' = Append(devOut, m), Alone(devOut, e),
             m # e \/ ~Has(devOut, e)
      PROVE  Alone(devOut', e) /\ (Has(devOut', e) <=> Has(devOut, e) \/ m = e)
  BY <1>2, <1>4, AloneAppend, HasAppend, Zenon
<1>5. ASSUME NEW u \in Stage, InStage(u, devReq', armed', devOut'), u # "none" => st # "none"
      PROVE  Flight'
  BY <1>1, <1>3, <1>5 DEF Flight
<1>6. CASE /\ devReq # << >> /\ devReq' = Tail(devReq)
           /\ armed' <=> Head(devReq) = "S G" \/ (Head(devReq) # "S D" /\ armed)
           /\ \/ devOut' = devOut
              \/ \E m \in Message : /\ devOut' = Append(devOut, m)
                                    /\ m = "A" => armed /\ Head(devReq) = "S D"
                                    /\ m = "D" => Head(devReq) = "S B"
  <2>1. PICK r : r = Head(devReq)
    OBVIOUS
  <2>2. ASSUME NEW e, Alone(devReq, e)
        PROVE  /\ Alone(devReq', e) /\ (Has(devReq', e) => Has(devReq, e))
               /\ r = e => Has(devReq, e) /\ ~Has(devReq', e)
    BY <1>2, <1>6, <2>1, <2>2, AloneTail, HasTail
  <2>3. /\ Alone(devReq', "S G") /\ (Has(devReq', "S G") => Has(devReq, "S G"))
        /\ r = "S G" => Has(devReq, "S G") /\ ~Has(devReq', "S G")
        /\ Alone(devReq', "S B") /\ (Has(devReq', "S B") => Has(devReq, "S B"))
        /\ r = "S B" => Has(devReq, "S B") /\ ~Has(devReq', "S B")
    BY <1>1, <2>2 DEF InStage
  <2>5. /\ Alone(devOut', "A") /\ (Has(devOut', "A") => Has(devOut, "A") \/ (armed /\ r = "S D"))
        /\ Alone(devOut', "D") /\ (Has(devOut', "D") => Has(devOut, "D") \/ r = "S B")
    <3>1. CASE devOut' = devOut
      BY <1>1, <3>1 DEF InStage
    <3>2. ASSUME NEW m \in Message, devOut' = Append(devOut, m),
                 m = "A" => armed /\ r = "S D", m = "D" => r = "S B"
          PROVE  /\ Alone(devOut', "A") /\ (Has(devOut', "A") => Has(devOut, "A") \/ m = "A")
                 /\ Alone(devOut', "D") /\ (Has(devOut', "D") => Has(devOut, "D") \/ m = "D")
      <4>1. /\ Alone(devOut, "A") /\ (m # "A" \/ ~Has(devOut, "A"))
            /\ Alone(devOut, "D") /\ (m # "D" \/ ~Has(devOut, "D"))
        BY <1>1, <2>3, <3>2 DEF InStage
      <4> QED BY <1>4, <3>2, <4>1
    <3> QED BY <1>6, <2>1, <3>1, <3>2
  <2>6. armed' <=> r = "S G" \/ (r # "S D" /\ armed)
    BY <1>6, <2>1
  <2>7. CASE r = "S G"
    <3>1. InStage("armed", devReq', armed', devOut') /\ st = "S G"
      BY <1>1, <2>3, <2>5, <2>6, <2>7 DEF InStage
    <3> QED BY <1>5, <3>1 DEF Stage
  <2>8. CASE r = "S B"
    <3>1. InStage("D", devReq', armed', devOut') /\ st = "S B"
      BY <1>1, <2>3, <2>5, <2>6, <2>8 DEF InStage
    <3> QED BY <1>5, <3>1 DEF Stage
  <2>9. CASE r = "S D" /\ armed
    <3>1. InStage("A", devReq', armed', devOut') /\ st = "armed"
      BY <1>1, <2>3, <2>5, <2>6, <2>9 DEF InStage
    <3> QED BY <1>5, <3>1 DEF Stage
  <2>10. CASE r \notin { "S G", "S B" } /\ ~(r = "S D" /\ armed)
    <3>1. InStage(st, devReq', armed', devOut')
      BY <1>1, <2>3, <2>5, <2>6, <2>10 DEF InStage
    <3> QED BY <1>5, <3>1
  <2> QED BY <2>7, <2>8, <2>9, <2>10
<1>7. CASE devReq' = devReq /\ armed /\ ~armed' /\ devOut' = Append(devOut, "A")
  <2>1. st = "armed" /\ ~Has(devOut, "A") /\ ~Has(devOut, "D")
    BY <1>1, <1>7 DEF InStage
  <2>2. /\ Alone(devOut', "A") /\ Alone(devOut', "D") /\ ~Has(devOut', "D")
    BY <1>1, <1>2, <1>4, <1>7, <2>1 DEF InStage
  <2>3. InStage("A", devReq', armed', devOut')
    BY <1>1, <1>7, <2>1, <2>2 DEF InStage
  <2> QED BY <1>5, <2>1, <2>3 DEF Stage
<1>8. CASE /\ devReq' = devReq /\ armed' = armed
           /\ \E m \in Message \ { "A", "D" } : devOut' = Append(devOut, m)
  <2>1. /\ Alone(devOut', "A") /\ (Has(devOut', "A") => Has(devOut, "A"))
        /\ Alone(devOut', "D") /\ (Has(devOut', "D") => Has(devOut, "D"))
    BY <1>1, <1>4, <1>8 DEF InStage
  <2>2. InStage(st, devReq', armed', devOut')
    BY <1>1, <1>8, <2>1 DEF InStage
  <2> QED BY <1>5, <2>2
<1> QED BY <1>6, <1>7, <1>8, DeviceStages

(* The data of a capture is received while its sweep is in progress.       *)
LEMMA DataOfSweep ==
  ASSUME TypeOK, Underway, AddrInv, Flight, rcv = "D"
  PROVE  sweep
<1>1. devOut # << >> /\ Head(devOut) = "D" /\ devOut \in Seq(Message)
  BY DEF Underway, AddrInv, TypeOK
<1>2. Has(devOut, "D")
  BY <1>1, HasTail
<1>3. PICK st \in Stage : InStage(st, devReq, armed, devOut) /\ (st # "none" => sweep)
  BY DEF Flight
<1> QED BY <1>2, <1>3 DEF InStage

LEMMA FlightReceiver ==
  ASSUME TypeOK, Underway, AddrInv, chanMask = {}, Flight, DeviceWorker
  PROVE  Flight'
<1>1. PICK st \in Stage : InStage(st, devReq, armed, devOut) /\ (st # "none" => sweep)
  BY DEF Flight
<1>2. devReq \in Seq(Request) /\ devOut \in Seq(Message) /\ "S B" \in Request
  BY DEF TypeOK, Request
<1>3. armed' = armed
  BY ReceiverFrame
<1>4. CASE UNCHANGED << devReq, devOut, operations >>
  BY <1>1, <1>3, <1>4 DEF Flight, operations
<1>5. CASE /\ rcv = Head(devOut) /\ devOut # << >> /\ devOut' = Tail(devOut)
           /\ rcv = "A" => devReq' = Append(devReq, "S B")
           /\ rcv # "A" => devReq' = devReq
           /\ rcv # "D" => sweep' = sweep
  <2>1. ASSUME NEW e, Alone(devOut, e)
        PROVE  /\ Alone(devOut', e) /\ (Has(devOut', e) => Has(devOut, e))
               /\ rcv = e => Has(devOut, e) /\ ~Has(devOut', e)
    BY <1>2, <1>5, <2>1, AloneTail, HasTail
  <2>2. /\ Alone(devOut', "A") /\ (Has(devOut', "A") => Has(devOut, "A"))
        /\ rcv = "A" => Has(devOut, "A") /\ ~Has(devOut', "A")
        /\ Alone(devOut', "D") /\ (Has(devOut', "D") => Has(devOut, "D"))
        /\ rcv = "D" => Has(devOut, "D") /\ ~Has(devOut', "D")
    BY <1>1, <2>1 DEF InStage
  <2>3. CASE rcv = "A"
    <3>1. st = "A" /\ ~Has(devReq, "S B") /\ ~Has(devReq, "S G")
      BY <1>1, <2>2, <2>3 DEF InStage
    <3>2. Alone(devReq, "S B") /\ Alone(devReq, "S G") /\ devReq' = Append(devReq, "S B")
      BY <1>1, <1>5, <2>3 DEF InStage
    <3>3. /\ Alone(devReq', "S B")
          /\ \A e : Has(devReq', e) <=> Has(devReq, e) \/ "S B" = e
      BY <1>2, <3>1, <3>2, AloneAppend, HasAppend, Zenon
    <3>4. InStage("S B", devReq', armed', devOut')
      <4>1. "S B" # "S G"
        OBVIOUS
      <4>2. Alone(devReq', "S G")
        BY <1>2, <3>2, <4>1, AloneAppend, Zenon
      <4> QED BY <1>1, <1>3, <2>2, <2>3, <3>1, <3>3, <4>1, <4>2 DEF InStage
    <3>5. sweep' = sweep /\ sweep
      BY <1>1, <1>5, <2>3, <3>1
    <3> QED BY <3>4, <3>5 DEF Flight, Stage
  <2>4. CASE rcv = "D"
    <3>1. InStage("none", devReq', armed', devOut')
      BY <1>1, <1>3, <1>5, <2>2, <2>4 DEF InStage
    <3> QED BY <3>1 DEF Flight, Stage
  <2>5. CASE rcv # "A" /\ rcv # "D"
    <3>1. InStage(st, devReq', armed', devOut')
      BY <1>1, <1>3, <1>5, <2>2, <2>5 DEF InStage
    <3>2. sweep' = sweep
      BY <1>5, <2>5
    <3>3. st # "none" => sweep'
      BY <1>1, <3>2, Zenon
    <3> QED BY <3>1, <3>3 DEF Flight
  <2> QED BY <2>3, <2>4, <2>5
<1> QED BY <1>4, <1>5, ReceiverFrame

(* A handler starts a capture only when no sweep is in progress.           *)
LEMMA FlightHandler ==
  ASSUME TypeOK, Flight, Handler, sweep => sweep',
         enabled /\ Head(prog) \in Sweepers => ~sweep /\ sweep'
  PROVE  Flight'
<1>1. PICK st \in Stage : InStage(st, devReq, armed, devOut) /\ (st # "none" => sweep)
  BY DEF Flight
<1>2. PICK r \in Seq(Request) :
        /\ devReq' = devReq \o r
        /\ ~Has(r, "S B") /\ Alone(r, "S G")
        /\ Has(r, "S G") => enabled /\ Head(prog) \in Sweepers
  BY HandlerCaptures
<1>3. devReq \in Seq(Request) /\ armed' = armed /\ devOut' = devOut
  BY HandlerFrame DEF TypeOK
<1>4. /\ Has(devReq', "S B") <=> Has(devReq, "S B") \/ Has(r, "S B")
      /\ Has(devReq', "S G") <=> Has(devReq, "S G") \/ Has(r, "S G")
  BY <1>2, <1>3, HasConcat, Zenon
<1>5. Alone(devReq, "S B") /\ Alone(devReq, "S G")
  BY <1>1 DEF InStage
<1>6. Alone(devReq', "S B")
  BY <1>2, <1>3, <1>5, AloneConcat, Zenon
<1>7. CASE Has(r, "S G")
  <2>1. st = "none" /\ sweep'
    BY <1>1, <1>2, <1>7
  <2>2. ~Has(devReq, "S G")
    BY <1>1, <2>1 DEF InStage
  <2>3. Alone(devReq', "S G")
    BY <1>2, <1>3, <2>2, AloneConcat, Zenon
  <2>4. InStage("S G", devReq', armed', devOut')
    BY <1>1, <1>2, <1>3, <1>4, <1>6, <2>1, <2>3 DEF InStage
  <2> QED BY <2>1, <2>4 DEF Flight, Stage
<1>8. CASE ~Has(r, "S G")
  <2>1. Alone(devReq', "S G")
    BY <1>2, <1>3, <1>5, <1>8, AloneConcat, Zenon
  <2>2. InStage(st, devReq', armed', devOut')
    BY <1>1, <1>2, <1>3, <1>4, <1>6, <1>8, <2>1 DEF InStage
  <2> QED BY <1>1, <2>2 DEF Flight
<1> QED BY <1>7, <1>8

(* What a handler does while no record of digital events is in progress    *)
(* and nothing is aborted.                                                 *)
LEMMA FenceHandler ==
  ASSUME TypeOK, Handler, Head(prog) \notin Recorders, ~digEv, chanMask = {},
         overlapped = sweep, Head(prog) \in Aborters => ~sweep
  PROVE  /\ ~digEv' /\ chanMask' = {} /\ overlapped' = sweep'
         /\ sweep' <=> sweep \/ (enabled /\ Head(prog) \in Sweepers)
         /\ blockInput => blockInput'
         /\ sweep /\ Head(prog) \in Fences => blockInput'
         /\ Head(prog) \in Sweepers => ~SyntaxError /\ pc' = "exec"
         /\ enabled' => \/ enabled /\ Head(prog) # "*RST"
                        \/ Head(prog) = "SENS:FUNC:ON"
<1> USE DEF scopeVars, digitalVars, digEvVars, sweepVars, blockVars, Sweepers, Fences,
            Recorders, Aborters
<1>1. sweep \in BOOLEAN /\ overlapped \in BOOLEAN /\ enabled \in BOOLEAN /\ digEv \in BOOLEAN
      /\ blockInput \in BOOLEAN /\ pc = "exec"
  BY HandlerFrame DEF TypeOK
<1>2. CASE Initiate \/ InitiateImmediate
  <2>1. /\ Head(prog) \in Sweepers /\ Head(prog) \notin Fences
        /\ Head(prog) # "*RST"
        /\ UNCHANGED << enabled, chanMask, blockInput, pc >>
        /\ sweep' = (enabled \/ sweep) /\ overlapped' = (enabled \/ overlapped)
        /\ digEv' = digEv \/ digEv' = (chanMask # {} \/ digEv)
    BY <1>2 DEF Initiate, InitiateImmediate, Run, At
  <2>2. ~SyntaxError
    BY <2>1 DEF SyntaxError, At
  <2>3. ~digEv' /\ chanMask' = {}
    <3>1. ~digEv'
      BY <2>1, Zenon
    <3> QED BY <2>1, <3>1
  <2>4. overlapped' = sweep' /\ (sweep' <=> sweep \/ (enabled /\ Head(prog) \in Sweepers))
    BY <2>1, Zenon
  <2> QED BY <1>1, <2>1, <2>2, <2>3, <2>4
<1>3. CASE ChannelState \/ Rst
  BY <1>1, <1>3 DEF ChannelState, Enable, Rst, Run, At, SyntaxError
<1>4. CASE Wai
  <2>1. blockInput' = (overlapped \/ blockInput)
    BY <1>4 DEF Wai
  <2>2. (blockInput => blockInput') /\ (sweep => blockInput')
    BY <2>1, Zenon
  <2> QED BY <1>1, <1>4, <2>2 DEF Wai, Run, At, SyntaxError
<1>5. CASE OpcQ \/ ScopeDataQ \/ FetchDigitalEvent
  BY <1>1, <1>5 DEF OpcQ, ScopeDataQ, FetchDigitalEvent, Run, At, SyntaxError
<1>6. CASE Abort
  BY <1>1, <1>6 DEF Abort, Run, At, SyntaxError
<1>7. CASE \/ VersionQ \/ DigitalEventRefused \/ Cls \/ Sleep \/ Quit \/ IdnQ
           \/ ScopeStatusQ \/ ConfigureDigitalData \/ FetchDigitalData
           \/ ConfigureDigitalEvent
  BY <1>1, <1>7 DEF VersionQ, DigitalEventRefused, Cls, Sleep, Quit, IdnQ, ScopeStatusQ,
     ConfigureDigitalData, FetchDigitalData, ConfigureDigitalEvent, Run, At, SyntaxError
<1>8. CASE SyntaxError \/ ReadOrMeasure
  BY <1>1, <1>8 DEF SyntaxError, ReadOrMeasure, Expand, At
<1>9. CASE SleepFails \/ AbortFails \/ ScopeDataQFails \/ ConfigureDigitalEventFails
  BY <1>1, <1>9 DEF SleepFails, AbortFails, ScopeDataQFails, ConfigureDigitalEventFails, Fail,
     At, SyntaxError
<1> QED BY <1>2, <1>3, <1>4, <1>5, <1>6, <1>7, <1>8, <1>9 DEF Handler

(* What runs neither records nor aborts a sweep, nor starts a second one.  *)
LEMMA FencedHead ==
  ASSUME TypeOK, Handler, Running
  PROVE  /\ Head(prog) \notin Recorders /\ (Head(prog) \in Aborters => ~sweep)
         /\ enabled /\ Head(prog) \in Sweepers => ~sweep
<1>1. prog # << >> /\ prog \in Seq(Command)
  BY HandlerFrame DEF TypeOK
<1>2. CASE ~sweep /\ Idle(prog)
  <2>1. \A c \in Command \ (Recorders \cup { "SENS:FUNC:ON" }) : c \notin Recorders
    OBVIOUS
  <2>2. Head(prog) \in Command \ (Recorders \cup { "SENS:FUNC:ON" })
    BY <1>1, <1>2, HasTail DEF Idle
  <2> QED BY <1>2, <2>1, <2>2
<1>3. CASE Fenced(prog) /\ (sweep => \A c \in Sweepers : ~Has(prog, c))
  <2>1. Head(prog) \notin Aborters \cup Recorders
    BY <1>1, <1>3, FencedTail
  <2>2. Has(prog, Head(prog))
    BY <1>1, HasTail
  <2> QED BY <1>3, <2>1, <2>2
<1> QED BY <1>2, <1>3 DEF Running

(* What is left of the program keeps to that.                              *)
LEMMA RunningStep ==
  ASSUME TypeOK, Handler, Running, ~digEv, chanMask = {}, overlapped = sweep, pc' = "exec"
  PROVE  Running'
<1>1. prog # << >> /\ prog \in Seq(Command)
  BY HandlerFrame DEF TypeOK
<1>2. /\ Head(prog) \notin Recorders /\ (Head(prog) \in Aborters => ~sweep)
      /\ enabled /\ Head(prog) \in Sweepers => ~sweep
  BY FencedHead
<1>3. /\ sweep' <=> sweep \/ (enabled /\ Head(prog) \in Sweepers)
      /\ blockInput => blockInput'
      /\ sweep /\ Head(prog) \in Fences => blockInput'
      /\ Head(prog) \in Sweepers => ~SyntaxError
      /\ enabled' => \/ enabled /\ Head(prog) # "*RST"
                     \/ Head(prog) = "SENS:FUNC:ON"
  BY <1>2, FenceHandler
<1>4. CASE /\ Fenced(prog)
           /\ sweep => /\ \A c \in Sweepers : ~Has(prog, c)
                       /\ blockInput \/ (prog # << >> /\ Head(prog) \in Fences)
  <2>1. /\ Fenced(Tail(prog)) /\ Head(prog) \notin Aborters \cup Recorders
        /\ Head(prog) \in Sweepers =>
             /\ Tail(prog) # << >> /\ Head(Tail(prog)) \in Fences
             /\ \A c \in Sweepers : ~Has(Tail(prog), c)
    BY <1>1, <1>4, FencedTail
  <2>2. ~ReadOrMeasure
    BY <2>1 DEF ReadOrMeasure, Expand, At, Aborters, Recorders
  <2>3. prog' = Tail(prog) \/ (SyntaxError /\ prog' = << >>)
    BY <2>2, HandlerRest
  <2>4. Fenced(prog') /\ (Head(prog) \in Sweepers => prog' = Tail(prog))
    BY <1>3, <2>1, <2>3, FencedNothing
  <2>5. CASE sweep
    <3>1. blockInput'
      BY <1>3, <1>4, <2>5
    <3>2. ASSUME NEW c \in Sweepers PROVE ~Has(prog', c)
      <4>1. ~Has(Tail(prog), c)
        BY <1>1, <1>4, <2>5, HasTail
      <4>2. ~Has(<< >>, c)
        BY DEF Has
      <4> QED BY <2>3, <4>1, <4>2
    <3> QED BY <2>4, <3>1, <3>2 DEF Running
  <2>6. CASE ~sweep /\ sweep'
    <3>1. Head(prog) \in Sweepers
      BY <1>3, <2>6
    <3>2. prog' # << >> /\ Head(prog') \in Fences /\ \A c \in Sweepers : ~Has(prog', c)
      BY <2>1, <2>4, <3>1
    <3> QED BY <2>4, <3>2 DEF Running
  <2>7. CASE ~sweep'
    BY <2>4, <2>7 DEF Running
  <2> QED BY <2>5, <2>6, <2>7
<1>5. CASE ~sweep /\ Idle(prog) /\ (~enabled \/ Disables(prog))
  <2>1. Idle(prog') /\ Head(prog) # "SENS:FUNC:ON"
    BY <1>5, IdleRest
  <2>2. Disables(prog) => Head(prog) = "*RST"
    BY DEF Disables
  <2>3. Head(prog) = "*RST" => Head(prog) \notin Sweepers
    BY DEF Sweepers
  <2>4. ~sweep' /\ ~enabled'
    BY <1>3, <1>5, <2>1, <2>2, <2>3
  <2> QED BY <2>1, <2>4 DEF Running
<1> QED BY <1>4, <1>5 DEF Running

(* The last byte of a buffer unblocks once.                                *)
LEMMA DataTokens ==
  ASSUME DeviceWorker, rcv = "D"
  PROVE  evq' = evq \/ evq' = evq \o << "UNBLOCK" >>
<1>1. ASSUME NEW m, Received(m) PROVE m = "D"
  BY <1>1 DEF Received
<1>2. /\ ~RcvIdent /\ ~RcvScopeStatus /\ ~RcvScopeOffset /\ ~RcvScopeAddr
      /\ ~RcvDigitalRead /\ ~RcvInterrupt
  BY <1>1 DEF RcvIdent, RcvScopeStatus, RcvScopeOffset, RcvScopeAddr, RcvDigitalRead,
     RcvInterrupt
<1> QED BY <1>2 DEF DeviceWorker, RcvStart, RcvScopeData, RcvScopeDataFails,
     RcvDigitalEventFails, Send, Fail

(* The input is unblocked by the handler of the unblock event alone.       *)
LEMMA PlainEventBlocks ==
  ASSUME PlainEvent
  PROVE  blockInput' = blockInput \/ Head(evq) = "UNBLOCK"
<1>1. CASE Unblock
  BY <1>1 DEF Unblock, Event
<1>2. CASE ~Unblock
  BY <1>2 DEF PlainEvent, IdentifyCompletion, IdentifyOutput, DigitalReadCompletion,
     DigitalReadOutput, ScopeStatusOutput, ScopeStatusCompletion, ScopeOffsetStart,
     OutputFlush, blockVars
<1> QED BY <1>1, <1>2

FencedPrograms == { p \in Seq(Command) : Fenced(p) \/ (Disables(p) /\ Idle(p)) }

LEMMA FenceStep ==
  ASSUME TypeOK, TypeOK', Underway, AddrInv, Flight, Fence, LinesFrom(FencedPrograms),
         [Next]_vars
  PROVE  Flight' /\ Fence' /\ (blockInput /\ ~blockInput' => ~overlapped')
<1> DEFINE U == "UNBLOCK"
           Keeps == Flight' /\ Fence' /\ (blockInput /\ ~blockInput' => ~overlapped')
<1>1. /\ evq \in Seq(EventId) /\ lines \in Seq(FencedPrograms)
      /\ sweep \in BOOLEAN /\ overlapped \in BOOLEAN /\ blockInput \in BOOLEAN
      /\ sweep' \in BOOLEAN /\ overlapped' \in BOOLEAN /\ blockInput' \in BOOLEAN
      /\ digEv \in BOOLEAN /\ digEv' \in BOOLEAN
  BY DEF TypeOK, LinesFrom
<1>2. /\ overlapped = sweep /\ ~digEv /\ chanMask = {}
      /\ Alone(evq, U) /\ (sweep => ~Has(evq, U))
      /\ pc = "loop" /\ (sweep \/ Has(evq, U)) => blockInput
      /\ pc = "exec" => ~Has(evq, U) /\ Running
  BY DEF Fence
<1>3. /\ << >> \in Seq(EventId) /\ ~Has(<< >>, U)
      /\ << "PROCESS_LINE" >> \in Seq(EventId) /\ ~Has(<< "PROCESS_LINE" >>, U)
      /\ << "OUTPUT_FLUSH" >> \in Seq(EventId) /\ ~Has(<< "OUTPUT_FLUSH" >>, U)
      /\ << "OUTPUT_FLUSH" >> \o << "PROCESS_LINE" >> \in Seq(EventId)
      /\ ~Has(<< "OUTPUT_FLUSH" >> \o << "PROCESS_LINE" >>, U)
  BY Tokens DEF Has
<1>4. ASSUME NEW s \in Seq(EventId), ~Has(s, U), evq' = evq \o s
      PROVE  Alone(evq', U) /\ (Has(evq', U) => Has(evq, U))
  BY <1>1, <1>2, <1>4, AloneConcat, HasConcat, Zenon
<1>5. ASSUME NEW s \in Seq(EventId), ~Has(s, U), evq # << >>, evq' = Tail(evq) \o s
      PROVE  /\ Alone(evq', U) /\ (Has(evq', U) => Has(evq, U))
             /\ Head(evq) = U => Has(evq, U) /\ ~Has(evq', U)
  <2>1. /\ Tail(evq) \in Seq(EventId) /\ Alone(Tail(evq), U)
        /\ Head(evq) = U => ~Has(Tail(evq), U)
        /\ Has(evq, U) <=> Head(evq) = U \/ Has(Tail(evq), U)
    BY <1>1, <1>2, <1>5, AloneTail, HasTail
  <2>2. Alone(evq', U)
    BY <1>5, <2>1, AloneConcat, Zenon
  <2>3. Has(evq', U) <=> Has(Tail(evq), U) \/ Has(s, U)
    BY <1>5, <2>1, HasConcat, Zenon
  <2> QED BY <1>5, <2>1, <2>2, <2>3, Zenon
<1>6. ASSUME UNCHANGED operations, Flight', Alone(evq', U), Has(evq', U) => Has(evq, U),
             pc' # "exec", pc' = "loop" => pc = "loop", blockInput' = blockInput
      PROVE  Keeps
  BY <1>1, <1>2, <1>6 DEF Fence, operations
<1>7. ASSUME UNCHANGED << operations, deviceSide >> PROVE Flight'
  BY <1>7 DEF Flight, operations, deviceSide
<1>8. CASE Handler
  <2>1. pc = "exec" /\ pc' \in { "exec", "failed" } /\ Running /\ ~Has(evq, U)
    BY <1>2, <1>8, HandlerFrame
  <2>2. /\ Head(prog) \notin Recorders /\ (Head(prog) \in Aborters => ~sweep)
        /\ enabled /\ Head(prog) \in Sweepers => ~sweep
    BY <1>8, <2>1, FencedHead
  <2>3. /\ ~digEv' /\ chanMask' = {} /\ overlapped' = sweep'
        /\ sweep' <=> sweep \/ (enabled /\ Head(prog) \in Sweepers)
        /\ blockInput => blockInput'
    BY <1>2, <1>8, <2>2, FenceHandler
  <2>4. Flight'
    BY <1>8, <2>2, <2>3, FlightHandler
  <2>5. pc' = "exec" => Running'
    BY <1>2, <1>8, <2>1, RunningStep
  <2>6. Alone(evq', U) /\ ~Has(evq', U)
    <3>1. PICK s \in Seq(EventId) :
            /\ evq' = evq \o s
            /\ \A e : Has(s, e) =>
                 \/ e \in LateOutput
                 \/ e = U /\ (sweep \/ digEv) /\ Head(prog) = "ABOR"
      BY <1>1, <1>8, HandlerSends
    <3>2. ~Has(s, U)
      BY <1>2, <2>2, <3>1 DEF LateOutput, Aborters
    <3> QED BY <1>4, <2>1, <3>1, <3>2
  <2> QED BY <2>1, <2>3, <2>4, <2>5, <2>6 DEF Fence
<1>9. CASE DeviceWorker
  <2>1. Flight' /\ pc = "loop" /\ pc' # "exec" /\ blockInput' = blockInput
    BY <1>2, <1>9, FlightReceiver, DeviceFrame
  <2>2. CASE UNCHANGED << evq, operations >>
    BY <1>2, <1>6, <2>1, <2>2
  <2>3. CASE rcv = "D" /\ ~sweep' /\ ~overlapped' /\ UNCHANGED << digEv, chanMask >>
    <3>1. sweep /\ ~Has(evq, U) /\ blockInput
      BY <1>2, <2>1, <2>3, DataOfSweep
    <3>2. Alone(evq', U)
      <4>1. \A x, e : Alone(<< x >>, e)
        BY DEF Alone
      <4> QED BY <1>1, <1>2, <1>9, <2>3, <3>1, <4>1, DataTokens, Tokens, AloneConcat, Zenon
    <3> QED BY <1>1, <1>2, <2>1, <2>3, <3>1, <3>2 DEF Fence
  <2>4. CASE rcv # "D" /\ UNCHANGED << sweep, overlapped, enabled, digEv, chanMask >>
    <3>1. PICK s \in Seq(EventId) :
            /\ evq' = evq \o s
            /\ \A e : Has(s, e) =>
                 \/ e \in Completions
                 \/ e = U /\ (rcv = "D" \/ chanMask # {})
      BY <1>1, <1>9, ReceiverTokens
    <3>2. ~Has(s, U)
      BY <1>2, <2>4, <3>1 DEF Completions
    <3>3. Alone(evq', U) /\ (Has(evq', U) => Has(evq, U))
      BY <1>4, <3>1, <3>2
    <3> QED BY <1>6, <2>1, <2>4, <3>3 DEF operations
  <2>5. \/ UNCHANGED << evq, operations >>
        \/ rcv = "D" /\ ~sweep' /\ ~overlapped' /\ UNCHANGED << digEv, chanMask >>
        \/ rcv # "D" /\ UNCHANGED << sweep, overlapped, enabled, digEv, chanMask >>
    BY <1>2, <1>9, ReceiverFrame
  <2> QED BY <2>2, <2>3, <2>4, <2>5
<1>10. ASSUME PlainEvent PROVE Keeps
  <2>1. PICK s \in Seq(EventId) : evq' = Tail(evq) \o s /\ ~Has(s, U)
    BY <1>10, EventTokens
  <2>2. evq # << >> /\ pc = "loop" /\ pc' = pc
    BY <1>10, PlainEventFrame
  <2>3. /\ Alone(evq', U) /\ (Has(evq', U) => Has(evq, U))
        /\ Head(evq) = U => Has(evq, U) /\ ~Has(evq', U)
    BY <1>5, <2>1, <2>2
  <2>4. UNCHANGED << operations, devOut, armed >>
        /\ \/ devReq' = devReq
           \/ \E r \in { "i", "S S", "S O" } : devReq' = Append(devReq, r)
    BY <1>10, PlainEventAsks
  <2>5. Flight'
    <3>1. PICK st \in Stage : InStage(st, devReq, armed, devOut) /\ (st # "none" => sweep)
      BY DEF Flight
    <3>2. devReq \in Seq(Request) /\ Alone(devReq, "S G") /\ Alone(devReq, "S B")
      BY <3>1 DEF TypeOK, InStage
    <3>3. ASSUME NEW r \in Request, r # "S G", r # "S B", devReq' = Append(devReq, r)
          PROVE  /\ Alone(devReq', "S G") /\ (Has(devReq', "S G") => Has(devReq, "S G"))
                 /\ Alone(devReq', "S B") /\ (Has(devReq', "S B") => Has(devReq, "S B"))
      <4>1. Alone(devReq', "S G") /\ Alone(devReq', "S B")
        BY <3>2, <3>3, AloneAppend, Zenon
      <4>2. \A e : Has(devReq', e) <=> Has(devReq, e) \/ r = e
        BY <3>2, <3>3, HasAppend, Zenon
      <4> QED BY <3>3, <4>1, <4>2
    <3>4. /\ Alone(devReq', "S G") /\ (Has(devReq', "S G") => Has(devReq, "S G"))
          /\ Alone(devReq', "S B") /\ (Has(devReq', "S B") => Has(devReq, "S B"))
      <4>1. \A r \in { "i", "S S", "S O" } : r \in Request /\ r # "S G" /\ r # "S B"
        BY DEF Request
      <4>2. CASE devReq' = devReq
        BY <3>2, <4>2
      <4> QED BY <2>4, <3>3, <4>1, <4>2
    <3>5. InStage(st, devReq', armed', devOut')
      BY <2>4, <3>1, <3>4 DEF InStage
    <3>6. sweep' = sweep
      BY <2>4 DEF operations
    <3>7. st # "none" => sweep'
      BY <3>1, <3>6, Zenon
    <3> QED BY <3>5, <3>7 DEF Flight
  <2>6. CASE blockInput' = blockInput
    BY <1>6, <2>2, <2>3, <2>4, <2>5, <2>6
  <2>7. CASE Head(evq) = U
    <3>1. ~sweep /\ ~Has(evq', U) /\ ~sweep' /\ ~overlapped'
      BY <1>2, <2>3, <2>4, <2>7 DEF operations
    <3> QED BY <1>1, <1>2, <2>2, <2>3, <2>4, <2>5, <3>1 DEF Fence, operations
  <2> QED BY <1>10, <2>6, <2>7, PlainEventBlocks
<1>11. ASSUME Other PROVE Keeps
  <2>1. UNCHANGED << evq, prog, blockInput >>
        /\ (pc' = pc \/ pc' = "failed" \/ (pc = "loop" /\ pc' = "exited"))
    BY <1>11, OtherFrame
  <2>2. UNCHANGED operations
    BY <1>11, OthersAside, DeviceMoves
  <2>3. Flight'
    <3>1. CASE DeviceAnswers \/ DeviceSelf
      BY <3>1, FlightDevice
    <3>2. CASE ~DeviceAnswers /\ ~DeviceSelf
      BY <1>7, <1>11, <3>2, OthersAside
    <3> QED BY <3>1, <3>2
  <2>4. Running => Running'
    BY <2>1, <2>2 DEF Running, operations
  <2> QED BY <1>1, <1>2, <2>1, <2>2, <2>3, <2>4 DEF Fence, operations
<1>12. ASSUME LineDone \/ ProcessNoLine \/ ProcessEmptyLine \/ ProcessLine \/ CliRead
       PROVE  Flight' /\ UNCHANGED operations /\ blockInput' = blockInput
  <2>1. UNCHANGED << operations, deviceSide >>
    BY <1>12, OthersAside
  <2>2. blockInput' = blockInput
    BY <1>12 DEF LineDone, ProcessNoLine, ProcessEmptyLine, ProcessLine, CliRead, stdinFrame,
       blockVars
  <2> QED BY <1>7, <2>1, <2>2
<1>13. CASE LineDone
  <2>1. \E s \in { << "OUTPUT_FLUSH" >>, << "OUTPUT_FLUSH" >> \o << "PROCESS_LINE" >>,
                   << "OUTPUT_FLUSH" >> \o << >> } : evq' = evq \o s
    BY <1>13, Zenon DEF LineDone, Send, NextLine, If
  <2>2. << "OUTPUT_FLUSH" >> \o << >> = << "OUTPUT_FLUSH" >>
    OBVIOUS
  <2>3. pc = "exec" /\ prog = << >> /\ pc' = "loop"
    BY <1>13 DEF LineDone
  <2>4. Alone(evq', U) /\ ~Has(evq', U)
    BY <1>2, <1>3, <1>4, <2>1, <2>2, <2>3
  <2>5. sweep => blockInput
    BY <1>2, <2>3 DEF Running
  <2> QED BY <1>1, <1>2, <1>12, <1>13, <2>3, <2>4, <2>5 DEF Fence, operations
<1>14. CASE CliRead
  <2>1. evq' = evq \o << "PROCESS_LINE" >> /\ pc = "loop" /\ pc' = pc
    BY <1>14 DEF CliRead, Send, Turn, stdinFrame
  <2>2. Alone(evq', U) /\ (Has(evq', U) => Has(evq, U))
    BY <1>3, <1>4, <2>1
  <2> QED BY <1>6, <1>12, <1>14, <2>1, <2>2
<1>15. CASE ProcessNoLine \/ ProcessEmptyLine
  <2>1. Event("PROCESS_LINE") /\ pc' = pc
        /\ \E s \in { << >>, << "PROCESS_LINE" >> } : evq' = Tail(evq) \o s
    BY <1>15, Zenon DEF ProcessNoLine, ProcessEmptyLine, Then, NextLine, If, lineState
  <2>2. Alone(evq', U) /\ (Has(evq', U) => Has(evq, U)) /\ pc = "loop"
    BY <1>3, <1>5, <2>1, EventFrame
  <2> QED BY <1>6, <1>12, <1>15, <2>1, <2>2
<1>16. CASE ProcessLine
  <2>1. /\ lines # << >> /\ ~blockInput /\ pc' = "exec" /\ prog' = Head(lines)
        /\ Event("PROCESS_LINE") /\ evq' = Tail(evq) \o << >>
    BY <1>16 DEF ProcessLine, Then, Blocked
  <2>2. pc = "loop" /\ evq # << >>
    BY <2>1, EventFrame
  <2>3. ~sweep /\ ~Has(evq, U)
    BY <1>2, <2>1, <2>2
  <2>4. Alone(evq', U) /\ ~Has(evq', U)
    BY <1>3, <1>5, <2>1, <2>2, <2>3
  <2>5. prog' \in FencedPrograms /\ ~sweep'
    BY <1>1, <1>12, <1>16, <2>1, <2>3, HasTail DEF operations
  <2>6. Running'
    BY <2>5 DEF FencedPrograms, Running
  <2> QED BY <1>1, <1>2, <1>12, <1>16, <2>1, <2>3, <2>4, <2>5, <2>6 DEF Fence, operations
<1> QED BY <1>8, <1>9, <1>10, <1>11, <1>13, <1>14, <1>15, <1>16, Cases

FenceInv == AddrInv /\ Flight /\ Fence /\ LinesFrom(FencedPrograms)

LEMMA LinesOfCommands == Lines \subseteq Seq(Command) /\ EndOfFile \in Seq(Command)
<1>1. \A C, D : C \subseteq D => Seq(C) \subseteq Seq(D)
  OBVIOUS
<1>2. Command \ { "EOF" } \subseteq Command /\ "EOF" \in Command
  BY DEF Command
<1> QED BY <1>1, <1>2, ConstantsAssumption DEF EndOfFile

LEMMA FenceInit ==
  ASSUME Init
  PROVE  AddrInv /\ Flight /\ Fence /\ \A P : LinesFrom(P)
<1>1. (\A e : ~Has(<< >>, e) /\ Alone(<< >>, e)) /\ \A x, e : Alone(<< x >>, e)
  BY DEF Has, Alone
<1>2. AddrInv
  BY <1>1 DEF Init, AddrInv
<1>3. InStage("none", devReq, armed, devOut)
  BY <1>1 DEF Init, InStage
<1>4. Flight
  BY <1>3 DEF Flight, Stage
<1>5. Alone(evq, "UNBLOCK") /\ ~Has(evq, "UNBLOCK")
  <2>1. evq = << "SCOPE_OFFSET_START" >>
    BY DEF Init
  <2> QED BY <2>1 DEF Has, Alone
<1>6. Fence
  BY <1>5 DEF Init, Fence
<1>7. \A P : LinesFrom(P)
  <2>1. \A S : << >> \in Seq(S)
    OBVIOUS
  <2>2. stdin = << >> /\ lines = << >>
    BY DEF Init
  <2> QED BY <2>1, <2>2, Zenon DEF LinesFrom
<1> QED BY <1>2, <1>4, <1>6, <1>7

(* For every client that awaits each sweep at once: input that was blocked *)
(* is released only when no sweep is pending, whichever operation sent the *)
(* unblock (scpi_core.c: scpi_core_unblock; cgr101.c:                      *)
(* cgr101_scope_data_done).                                                *)
THEOREM SweepsAreAwaited ==
  ASSUME FencesItsSweeps(Lines)
  PROVE  Safe => ReleasedWhenComplete
<1>1. Lines \subseteq FencedPrograms /\ EndOfFile \in FencedPrograms
  BY LinesOfCommands, FencedNothing DEF FencesItsSweeps, FencedPrograms
<1>2. Init => FenceInv
  BY FenceInit DEF FenceInv
<1>3. IInv /\ IInv' /\ FenceInv /\ [Next]_vars
      => FenceInv' /\ (blockInput /\ ~blockInput' => ~overlapped')
  <2> SUFFICES ASSUME IInv, IInv', FenceInv, [Next]_vars
               PROVE  FenceInv' /\ (blockInput /\ ~blockInput' => ~overlapped')
    OBVIOUS
  <2>1. /\ TypeOK /\ TypeOK' /\ Underway /\ AddrInv /\ Flight /\ Fence
        /\ LinesFrom(FencedPrograms)
    BY DEF IInv, FenceInv
  <2>2. AddrInv' /\ LinesFrom(FencedPrograms)'
    BY <1>1, <2>1, AddrStep, LinesStep
  <2>3. Flight' /\ Fence' /\ (blockInput /\ ~blockInput' => ~overlapped')
    BY <2>1, FenceStep
  <2> QED BY <2>2, <2>3 DEF FenceInv
<1> QED BY <1>2, <1>3, Invariance, PTL DEF Safe, ReleasedWhenComplete

----------------------------------------------------------------------------
(* An orderly client: of all the assertions of the program only the one on *)
(* the identity can fail.                                                  *)

(* The data of a sweep is asked for while it is in progress; a sleep comes *)
(* while the parser is awake.                                              *)
ReadSoon ==
  \A i \in 1..Len(prog) : prog[i] = "SENS:DATA?" =>
    \/ i > 2 /\ prog[i - 1] \in Sweepers /\ prog[i - 2] = "SENS:FUNC:ON"
    \/ i = 2 /\ prog[1] \in Sweepers /\ enabled
    \/ i = 1 /\ sweep

SleepSoon ==
  /\ Alone(prog, "SYST:INT:SLE")
  /\ Has(prog, "SYST:INT:SLE") => ~blockUntil

Order ==
  /\ pc = "exec" => ReadSoon /\ SleepSoon
  /\ rcv = "D" => dataState = "EXPECT"

OrderlyPrograms == { p \in FencedPrograms : ReadsItsSweep(p) /\ SleepsOnce(p) }

(* No assertion of a handler fails.                                        *)
LEMMA OrderlyHandler ==
  ASSUME TypeOK, Handler, Fence, ReadSoon, SleepSoon
  PROVE  failed' = failed /\ pc' = "exec"
<1>1. prog # << >> /\ prog \in Seq(Command) /\ pc = "exec"
  BY HandlerFrame DEF TypeOK
<1>2. /\ Head(prog) \notin Recorders /\ (Head(prog) \in Aborters => ~sweep)
  BY <1>1, FencedHead DEF Fence
<1>3. Has(prog, Head(prog)) /\ Head(prog) = prog[1] /\ 1 \in 1..Len(prog)
  BY <1>1, HasTail
<1>4. ~SleepFails
  BY <1>3 DEF SleepFails, At, SleepSoon
<1>5. ~AbortFails
  BY <1>2 DEF AbortFails, At, Aborters
<1>6. ~ScopeDataQFails
  BY <1>3 DEF ScopeDataQFails, At, ReadSoon
<1>7. ~ConfigureDigitalEventFails
  BY <1>2 DEF ConfigureDigitalEventFails, At, Recorders
<1>8. CASE SyntaxError \/ ReadOrMeasure
  BY <1>1, <1>8 DEF SyntaxError, ReadOrMeasure, Expand, loopVars
<1>9. ASSUME NEW c, Run(c) PROVE failed' = failed /\ pc' = "exec"
  BY <1>9 DEF Run, At
<1>10. CASE \/ VersionQ \/ DigitalEventRefused \/ Cls \/ Rst \/ Wai \/ OpcQ \/ Sleep
            \/ Quit \/ IdnQ \/ ChannelState
            \/ Initiate \/ InitiateImmediate \/ Abort \/ ScopeDataQ \/ ScopeStatusQ
            \/ ConfigureDigitalData \/ FetchDigitalData \/ ConfigureDigitalEvent
            \/ FetchDigitalEvent
  BY <1>9, <1>10, Zenon
     DEF VersionQ, DigitalEventRefused, Cls, Rst, Wai, OpcQ, Sleep, Quit, IdnQ, ChannelState,
        Enable, Initiate,
         InitiateImmediate, Abort, ScopeDataQ, ScopeStatusQ, ConfigureDigitalData,
         FetchDigitalData, ConfigureDigitalEvent, FetchDigitalEvent
<1> QED BY <1>4, <1>5, <1>6, <1>7, <1>8, <1>10 DEF Handler

(* Only the handler that sleeps puts the parser to sleep; enabling enables, *)
(* and no handler but those of an abort touches the state of the data.     *)
LEMMA HandlerOrder ==
  ASSUME Handler
  PROVE  /\ blockUntil' => blockUntil \/ Head(prog) = "SYST:INT:SLE"
         /\ Head(prog) = "SENS:FUNC:ON" => enabled'
         /\ dataState' = dataState \/ (Head(prog) = "ABOR" /\ sweep)
<1> USE DEF scopeVars, sleepVars, inputVars, sweepVars
<1>1. CASE \/ VersionQ \/ DigitalEventRefused \/ Cls \/ Rst \/ Wai \/ OpcQ \/ Sleep \/ Quit
           \/ IdnQ \/ ChannelState
  BY <1>1 DEF VersionQ, DigitalEventRefused, Cls, Rst, Wai, OpcQ, Sleep, Quit, IdnQ,
     ChannelState, Enable, Run, At
<1>2. CASE Initiate \/ InitiateImmediate
  <2>1. /\ Head(prog) # "SENS:FUNC:ON"
        /\ UNCHANGED << blockUntil, dataState >>
    BY <1>2 DEF Initiate, InitiateImmediate, Run, At
  <2> QED BY <2>1, Zenon
<1>6. CASE Abort
  <2>1. /\ Head(prog) = "ABOR" /\ blockUntil' = blockUntil
        /\ sweep \/ dataState' = dataState
    BY <1>6 DEF Abort, Run, At
  <2> QED BY <2>1
<1>3. CASE \/ ScopeDataQ \/ ScopeStatusQ
           \/ ConfigureDigitalData \/ FetchDigitalData \/ ConfigureDigitalEvent
           \/ FetchDigitalEvent
  BY <1>3 DEF ScopeDataQ, ScopeStatusQ, ConfigureDigitalData,
     FetchDigitalData, ConfigureDigitalEvent, FetchDigitalEvent, Run, At
<1>4. CASE SyntaxError \/ ReadOrMeasure
  BY <1>4 DEF SyntaxError, ReadOrMeasure, Expand, At
<1>5. CASE SleepFails \/ AbortFails \/ ScopeDataQFails \/ ConfigureDigitalEventFails
  BY <1>5 DEF SleepFails, AbortFails, ScopeDataQFails, ConfigureDigitalEventFails, Fail, At
<1> QED BY <1>1, <1>2, <1>3, <1>4, <1>5, <1>6 DEF Handler

(* A line that aborts asks for no data.                                    *)
LEMMA IdleReads ==
  ASSUME TypeOK, ReadSoon, ~sweep, Idle(prog), ~enabled \/ Disables(prog)
  PROVE  ~Has(prog, "SENS:DATA?")
<1> SUFFICES ASSUME NEW i \in 1..Len(prog), prog[i] = "SENS:DATA?" PROVE FALSE
  BY DEF Has
<1>1. prog \in Seq(Command)
  BY DEF TypeOK
<1>2. \A k \in 1..Len(prog) : prog[k] # "SENS:FUNC:ON"
  <2>1. \A c \in Command \ (Recorders \cup { "SENS:FUNC:ON" }) : c # "SENS:FUNC:ON"
    OBVIOUS
  <2>2. \A k \in 1..Len(prog) : prog[k] \in Command \ (Recorders \cup { "SENS:FUNC:ON" })
    BY DEF Idle
  <2> QED BY <2>1, <2>2
<1>3. CASE i > 2 /\ prog[i - 1] \in Sweepers /\ prog[i - 2] = "SENS:FUNC:ON"
  <2>1. i - 2 \in 1..Len(prog)
    BY <1>1, <1>3
  <2> QED BY <1>2, <1>3, <2>1
<1>4. CASE i = 2 /\ prog[1] \in Sweepers /\ enabled
  <2>1. Head(prog) = prog[1]
    BY <1>1, <1>4
  <2> QED BY <1>4, <2>1 DEF Disables, Sweepers
<1> QED BY <1>3, <1>4 DEF ReadSoon

(* What READ and MEASure are replaced by neither asks for the data of a    *)
(* sweep nor sleeps.                                                       *)
LEMMA ExpandsTo ==
  ASSUME TypeOK, ReadOrMeasure
  PROVE  \E s \in Seq(Command) : /\ prog' = s \o Tail(prog)
                                 /\ ~Has(s, "SENS:DATA?") /\ ~Has(s, "SYST:INT:SLE")
<1> DEFINE E == Command \ { "SENS:DATA?", "SYST:INT:SLE" }
<1>1. /\ << "ABOR", "INIT", "FETC:DIG:DATA?" >> \in Seq(E)
      /\ << "CONF:DIG:DATA", "ABOR", "INIT", "FETC:DIG:DATA?" >> \in Seq(E)
      /\ << "ABOR", "INIT", "FETC:DIG:EVEN?" >> \in Seq(E)
      /\ << "CONF:DIG:EVEN", "ABOR", "INIT", "FETC:DIG:EVEN?" >> \in Seq(E)
  <2>1. /\ "ABOR" \in E /\ "INIT" \in E /\ "FETC:DIG:DATA?" \in E /\ "CONF:DIG:DATA" \in E
        /\ "FETC:DIG:EVEN?" \in E /\ "CONF:DIG:EVEN" \in E
    BY DEF Command
  <2> QED BY <2>1
<1>2. ASSUME NEW s \in Seq(E)
      PROVE  s \in Seq(Command) /\ ~Has(s, "SENS:DATA?") /\ ~Has(s, "SYST:INT:SLE")
  BY DEF Has
<1> HIDE DEF E
<1>3. \E s \in Seq(E) : prog' = s \o Tail(prog)
  BY <1>1, Zenon DEF ReadOrMeasure, Expand
<1> QED BY <1>2, <1>3

LEMMA ReadSoonStep ==
  ASSUME TypeOK, Handler, Fence, ReadSoon, pc' = "exec"
  PROVE  ReadSoon'
<1>1. prog # << >> /\ prog \in Seq(Command) /\ pc = "exec"
  BY HandlerFrame DEF TypeOK
<1>2. Running /\ overlapped = sweep /\ ~digEv /\ chanMask = {}
  BY <1>1 DEF Fence
<1>3. /\ Head(prog) \notin Recorders /\ (Head(prog) \in Aborters => ~sweep)
      /\ enabled /\ Head(prog) \in Sweepers => ~sweep
  BY <1>2, FencedHead
<1>4. sweep' <=> sweep \/ (enabled /\ Head(prog) \in Sweepers)
  BY <1>2, <1>3, FenceHandler
<1>5. CASE ReadOrMeasure
  <2>1. ~(Fenced(prog))
    <3>1. Head(prog) \in Aborters \cup Recorders
      BY <1>5 DEF ReadOrMeasure, Expand, At, Aborters, Recorders
    <3> QED BY <1>1, <3>1, FencedTail
  <2>2. ~Has(prog, "SENS:DATA?")
    BY <1>2, <2>1, IdleReads DEF Running
  <2>3. PICK s \in Seq(Command) : prog' = s \o Tail(prog) /\ ~Has(s, "SENS:DATA?")
    BY <1>5, ExpandsTo
  <2>4. Tail(prog) \in Seq(Command) /\ ~Has(Tail(prog), "SENS:DATA?")
    BY <1>1, <2>2, HasTail
  <2>5. ~Has(prog', "SENS:DATA?")
    BY <2>3, <2>4, HasConcat, Zenon
  <2> QED BY <2>5 DEF ReadSoon, Has
<1>6. CASE prog' = << >>
  BY <1>6 DEF ReadSoon
<1>7. CASE prog' = Tail(prog)
  <2>1. PICK p, t : p = prog /\ t = Tail(prog)
    OBVIOUS
  <2>2. /\ Len(p) \in Nat /\ Len(p) >= 1 /\ Len(t) = Len(p) - 1 /\ Head(prog) = p[1]
        /\ \A i \in 1..Len(t) : t[i] = p[i + 1]
    BY <1>1, <2>1
  <2> SUFFICES ASSUME NEW i \in 1..Len(t), t[i] = "SENS:DATA?"
               PROVE  \/ i > 2 /\ t[i - 1] \in Sweepers /\ t[i - 2] = "SENS:FUNC:ON"
                      \/ i = 2 /\ t[1] \in Sweepers /\ enabled'
                      \/ i = 1 /\ sweep'
    BY <1>7, <2>1 DEF ReadSoon
  <2>3. i \in Nat /\ i >= 1 /\ i + 1 \in 1..Len(p) /\ p[i + 1] = "SENS:DATA?"
    BY <2>2
  <2>4. CASE i + 1 = 2
    <3>1. p[1] \in Sweepers /\ enabled
      BY <2>1, <2>3, <2>4 DEF ReadSoon
    <3> QED BY <1>4, <2>2, <2>4, <3>1
  <2>5. CASE i + 1 > 2
    <3>1. p[(i + 1) - 1] \in Sweepers /\ p[(i + 1) - 2] = "SENS:FUNC:ON"
      BY <2>1, <2>3, <2>5 DEF ReadSoon
    <3>2. i - 1 \in 1..Len(t) /\ t[i - 1] = p[(i + 1) - 1]
      BY <2>2, <2>3, <2>5
    <3>3. CASE i = 2
      <4>1. Head(prog) = "SENS:FUNC:ON"
        BY <2>2, <3>1, <3>3
      <4>2. enabled'
        BY <4>1, HandlerOrder
      <4> QED BY <3>1, <3>2, <3>3, <4>2
    <3>4. CASE i > 2
      <4>1. t[i - 2] = p[(i + 1) - 2]
        BY <2>2, <2>3, <3>4
      <4> QED BY <3>1, <3>2, <3>4, <4>1
    <3> QED BY <2>3, <2>5, <3>3, <3>4
  <2> QED BY <2>3, <2>4, <2>5
<1> QED BY <1>5, <1>6, <1>7, HandlerRest

LEMMA SleepSoonStep ==
  ASSUME TypeOK, Handler, SleepSoon, pc' = "exec"
  PROVE  SleepSoon'
<1> DEFINE SLE == "SYST:INT:SLE"
<1>1. prog # << >> /\ prog \in Seq(Command)
  BY HandlerFrame DEF TypeOK
<1>0. Tail(prog) \in Seq(Command)
  BY <1>1, HasTail
<1>2. PICK t \in Seq(Command) : t = Tail(prog)
  BY <1>0
<1>3. /\ Alone(t, SLE) /\ (Head(prog) = SLE => ~Has(t, SLE))
      /\ Has(t, SLE) => Has(prog, SLE)
  BY <1>1, <1>2, AloneTail, HasTail DEF SleepSoon
<1>4. Alone(prog', SLE) /\ (Has(prog', SLE) => Has(t, SLE))
  <2>1. CASE ReadOrMeasure
    <3>1. PICK s \in Seq(Command) : prog' = s \o t /\ ~Has(s, SLE)
      BY <1>2, <2>1, ExpandsTo
    <3>2. Alone(prog', SLE)
      BY <1>3, <3>1, AloneConcat, Zenon
    <3>3. Has(prog', SLE) <=> Has(s, SLE) \/ Has(t, SLE)
      BY <3>1, HasConcat, Zenon
    <3> QED BY <3>1, <3>2, <3>3
  <2>2. CASE prog' = << >>
    BY <2>2 DEF Alone, Has
  <2> QED BY <1>2, <1>3, <2>1, <2>2, HandlerRest
<1>5. Has(prog', SLE) => ~blockUntil'
  <2> SUFFICES ASSUME Has(prog', SLE), blockUntil' PROVE FALSE
    OBVIOUS
  <2>1. Head(prog) # SLE /\ ~blockUntil
    BY <1>3, <1>4 DEF SleepSoon
  <2> QED BY <2>1, HandlerOrder
<1> QED BY <1>4, <1>5 DEF SleepSoon

(* Outside the handlers and the receiver only a second completion of an    *)
(* identify fails.                                                         *)
LEMMA FailsElsewhere ==
  ASSUME \/ LineDone \/ ProcessNoLine \/ ProcessEmptyLine \/ ProcessLine \/ CliRead
         \/ PlainEvent \/ Other
  PROVE  failed' = failed \/ IdentifyCompletionFails
<1> USE DEF lineState, stdinFrame, loopVars
<1>1. CASE LineDone \/ ProcessNoLine \/ ProcessEmptyLine \/ ProcessLine \/ CliRead
  BY <1>1 DEF LineDone, ProcessNoLine, ProcessEmptyLine, ProcessLine, CliRead
<1>2. CASE PlainEvent
  BY <1>2 DEF PlainEvent, IdentifyCompletion, IdentifyOutput, DigitalReadCompletion,
     DigitalReadOutput, ScopeStatusOutput, ScopeStatusCompletion, ScopeOffsetStart,
     Unblock, OutputFlush
<1>3. CASE Other
  <2>1. CASE DeviceAnswers \/ DeviceSelf
    BY <2>1 DEF DeviceAnswers, DeviceSelf, DeviceTriggered, DeviceReportsInput,
       DeviceInterrupts, serverSide
  <2>2. CASE ~(DeviceAnswers \/ DeviceSelf)
    BY <1>3, <2>2 DEF Other, Select, Exit, SelectTimeout, Stopped, SigAlrm, SigInt,
       CliNoRead, Client, ClientCloses, ClientSends, clientFrame, vars
  <2> QED BY <2>1, <2>2
<1> QED BY <1>1, <1>2, <1>3

(* The receiver: data is expected once its first byte has been read, and   *)
(* no message comes too many where no events are recorded.                 *)
LEMMA OrderReceiver ==
  ASSUME DeviceWorker, chanMask = {}, rcv = "D" => dataState = "EXPECT"
  PROVE  (rcv' = "D" => dataState' = "EXPECT") /\ failed' = failed
<1>1. CASE RcvStart
  BY <1>1 DEF RcvStart
<1>2. ~RcvScopeDataFails /\ ~RcvDigitalEventFails
  BY DEF RcvScopeDataFails, RcvDigitalEventFails
<1>3. ASSUME NEW m, Received(m) PROVE rcv' = "IDLE" /\ failed' = failed
  BY <1>3 DEF Received
<1>4. CASE \/ RcvIdent \/ RcvScopeStatus \/ RcvScopeOffset \/ RcvScopeAddr \/ RcvScopeData
           \/ RcvDigitalRead \/ RcvInterrupt
  <2>1. \E m : Received(m)
    BY <1>4, Zenon DEF RcvIdent, RcvScopeStatus, RcvScopeOffset, RcvScopeAddr, RcvScopeData,
       RcvDigitalRead, RcvInterrupt
  <2> QED BY <1>3, <2>1
<1> QED BY <1>1, <1>2, <1>4 DEF DeviceWorker

LEMMA FailsStep ==
  ASSUME TypeOK, Fence, Order, [Next]_vars
  PROVE  failed' = failed \/ IdentifyCompletionFails
<1>1. CASE Handler
  BY <1>1, HandlerFrame, OrderlyHandler DEF Order
<1>2. CASE DeviceWorker
  BY <1>2, OrderReceiver DEF Order, Fence
<1> QED BY <1>1, <1>2, FailsElsewhere, Cases

LEMMA OrderStep ==
  ASSUME TypeOK, Underway, Fence, Order, LinesFrom(OrderlyPrograms), [Next]_vars
  PROVE  Order'
<1>1. /\ pc = "exec" => ReadSoon /\ SleepSoon
      /\ rcv = "D" => dataState = "EXPECT"
  BY DEF Order
<1>2. chanMask = {}
  BY DEF Fence
<1>3. ASSUME pc' # "exec", UNCHANGED << dataState, rcv >> PROVE Order'
  BY <1>1, <1>3 DEF Order
<1>4. CASE Handler
  <2>1. pc = "exec" /\ rcv' = rcv
    BY <1>4, HandlerFrame
  <2>2. pc' = "exec"
    BY <1>1, <1>4, <2>1, OrderlyHandler
  <2>3. ReadSoon' /\ SleepSoon'
    BY <1>1, <1>4, <2>1, <2>2, ReadSoonStep, SleepSoonStep
  <2>4. dataState' = dataState
    <3>1. ~(Head(prog) = "ABOR" /\ sweep)
      BY <1>4, <2>1, FencedHead DEF Fence, Aborters
    <3> QED BY <1>4, <3>1, HandlerOrder
  <2> QED BY <1>1, <2>1, <2>2, <2>3, <2>4 DEF Order
<1>5. CASE DeviceWorker
  <2>1. rcv' = "D" => dataState' = "EXPECT"
    BY <1>1, <1>2, <1>5, OrderReceiver
  <2>2. pc' # "exec"
    BY <1>5, DeviceFrame
  <2> QED BY <1>1, <2>1, <2>2 DEF Order
<1>6. ASSUME PlainEvent PROVE Order'
  <2>1. pc' # "exec" /\ UNCHANGED << dataState, rcv >>
    BY <1>6, PlainEventAsks, PlainEventFrame
  <2> QED BY <1>3, <2>1
<1>7. CASE LineDone \/ ProcessNoLine \/ ProcessEmptyLine \/ CliRead
  <2>1. pc' # "exec"
    BY <1>7 DEF LineDone, ProcessNoLine, ProcessEmptyLine, CliRead, Event, Turn, lineState,
       stdinFrame
  <2>2. UNCHANGED << dataState, rcv >>
    BY <1>7, OthersAside
  <2> QED BY <1>3, <2>1, <2>2
<1>8. CASE ProcessLine
  <2>1. lines # << >> /\ ~blockUntil /\ prog' = Head(lines) /\ Event("PROCESS_LINE")
    BY <1>8 DEF ProcessLine, Blocked
  <2>2. prog' \in OrderlyPrograms
    <3>1. lines \in Seq(OrderlyPrograms)
      BY DEF LinesFrom
    <3> QED BY <2>1, <3>1, HasTail
  <2>3. ReadsItsSweep(prog') /\ SleepsOnce(prog')
    BY <2>2 DEF OrderlyPrograms
  <2>4. ReadSoon'
    BY <2>3 DEF ReadSoon, ReadsItsSweep
  <2>5. SleepSoon'
    <3>1. ~blockUntil'
      BY <2>1, EventFrame
    <3>2. Alone(prog', "SYST:INT:SLE")
      BY <2>3 DEF SleepsOnce, Alone
    <3> QED BY <3>1, <3>2 DEF SleepSoon
  <2>6. UNCHANGED << dataState, rcv >>
    BY <1>8, OthersAside
  <2> QED BY <1>1, <2>4, <2>5, <2>6 DEF Order
<1>9. ASSUME Other PROVE Order'
  <2>1. UNCHANGED << dataState, rcv, enabled, sweep >>
    BY <1>9, OthersAside, DeviceMoves DEF operations
  <2>2. prog' = prog /\ (pc' = "exec" => pc = "exec") /\ (blockUntil' = blockUntil \/ ~blockUntil')
    BY <1>9, OtherFrame
  <2>3. CASE pc' = "exec"
    <3>1. ReadSoon'
      BY <1>1, <2>1, <2>2, <2>3 DEF ReadSoon
    <3>2. SleepSoon'
      <4>1. /\ Alone(prog, "SYST:INT:SLE")
            /\ Has(prog, "SYST:INT:SLE") => ~blockUntil
        BY <1>1, <2>2, <2>3 DEF SleepSoon
      <4>2. prog' = prog
        BY <2>2
      <4>3. Alone(prog', "SYST:INT:SLE")
        BY <4>1, <4>2
      <4>4. Has(prog', "SYST:INT:SLE") => ~blockUntil
        BY <4>1, <4>2
      <4>5. ~blockUntil => ~blockUntil'
        BY <2>2, Zenon
      <4> QED BY <4>3, <4>4, <4>5, Zenon DEF SleepSoon
    <3> QED BY <1>1, <2>1, <3>1, <3>2 DEF Order
  <2>4. CASE pc' # "exec"
    BY <1>3, <2>1, <2>4
  <2> QED BY <2>3, <2>4
<1> QED BY <1>4, <1>5, <1>6, <1>7, <1>8, <1>9, Cases

OrderInv == AddrInv /\ Flight /\ Fence /\ Order /\ LinesFrom(OrderlyPrograms)

LEMMA Orderly == ASSUME IsOrderly(Lines) PROVE Safe => []OrderInv
<1>1. Lines \subseteq OrderlyPrograms /\ EndOfFile \in OrderlyPrograms
  <2>2. Lines \subseteq OrderlyPrograms
    BY LinesOfCommands DEF IsOrderly, FencesItsSweeps, OrderlyPrograms, FencedPrograms
  <2>3. EndOfFile \in FencedPrograms
    BY LinesOfCommands, FencedNothing DEF FencedPrograms
  <2>4. ReadsItsSweep(EndOfFile) /\ SleepsOnce(EndOfFile)
    BY DEF ReadsItsSweep, SleepsOnce, EndOfFile
  <2> QED BY <2>2, <2>3, <2>4 DEF OrderlyPrograms
<1>2. Init => OrderInv
  BY FenceInit DEF OrderInv, Init, Order
<1>3. LinesFrom(OrderlyPrograms) => LinesFrom(FencedPrograms)
  <2>1. \A C, D : C \subseteq D => Seq(C) \subseteq Seq(D)
    OBVIOUS
  <2>2. OrderlyPrograms \subseteq FencedPrograms
    BY DEF OrderlyPrograms
  <2> QED BY <2>1, <2>2 DEF LinesFrom
<1>4. IInv /\ IInv' /\ OrderInv /\ [Next]_vars => OrderInv'
  <2> SUFFICES ASSUME IInv, IInv', OrderInv, [Next]_vars PROVE OrderInv'
    OBVIOUS
  <2>1. /\ TypeOK /\ TypeOK' /\ Underway /\ AddrInv /\ Flight /\ Fence /\ Order
        /\ LinesFrom(OrderlyPrograms) /\ LinesFrom(FencedPrograms)
    BY <1>3 DEF IInv, OrderInv
  <2>2. AddrInv' /\ LinesFrom(OrderlyPrograms)'
    BY <1>1, <2>1, AddrStep, LinesStep
  <2>3. Flight' /\ Fence'
    BY <2>1, FenceStep
  <2>4. Order'
    BY <2>1, OrderStep
  <2> QED BY <2>2, <2>3, <2>4 DEF OrderInv
<1> QED BY <1>2, <1>4, Invariance, PTL DEF Safe

(* A client that waits for the end of what it starts, reads a sweep where  *)
(* it starts it and sleeps once per line: whatever the device reports and  *)
(* whenever, of all the assertions of the server only the one on the       *)
(* identity can fail (the handlers of the commands, the receiver).         *)
THEOREM OnlyIdentityFails ==
  ASSUME IsOrderly(Lines)
  PROVE  Safe => [](failed \in { "", "cgr101_identify_completion" })
<1> DEFINE F == failed \in { "", "cgr101_identify_completion" }
<1>1. Init => F
  BY DEF Init
<1>2. IInv /\ OrderInv /\ F /\ [Next]_vars => F'
  BY FailsStep DEF IInv, OrderInv, IdentifyCompletionFails, Fail
<1> QED BY <1>1, <1>2, Invariance, Orderly, PTL DEF Safe

----------------------------------------------------------------------------
(* A client that does not ask for the identity: nobody else does.          *)
Known == Seq((Command \ { "*IDN?" }) \cup { "EOF" })

IdentityTokens == { "IDENTIFY_COMPLETE", "IDENTIFY_OUTPUT" }

NoIdentity ==
  /\ ~Has(evq, "IDENTIFY_COMPLETE") /\ ~Has(evq, "IDENTIFY_OUTPUT")
  /\ ~Has(devReq, "i") /\ ~Has(devOut, "*")

LEMMA KnownStep ==
  ASSUME KnowsItsDevice(Lines), Underway, Runs(Known), [Next]_vars
  PROVE  Runs(Known)' /\ (Handler => Head(prog) # "*IDN?")
<1> DEFINE C == Command \ { "*IDN?" }
<1>1. /\ C \subseteq Command /\ Lines \subseteq Seq(C) /\ "CONF:DIG:EVEN" \in C
      /\ { "ABOR", "INIT", "CONF:DIG:DATA", "FETC:DIG:DATA?", "FETC:DIG:EVEN?" } \subseteq C
  BY DEF KnowsItsDevice, Command
<1>2. \A c \in C \cup { "EOF" } : c # "*IDN?"
  OBVIOUS
<1> HIDE DEF C
<1>3. IsClosed(Seq(C \cup { "EOF" }))
  BY <1>1, ClosedCommands
<1>4. Runs(Known)'
  BY <1>3, RunsStep DEF C, Known
<1>5. ASSUME Handler PROVE Head(prog) # "*IDN?"
  <2>1. prog # << >> /\ prog \in Seq(C \cup { "EOF" })
    BY <1>5, HandlerFrame DEF Runs, Known, C
  <2> QED BY <1>2, <2>1
<1> QED BY <1>4, <1>5

(* The handlers of the other events leave the identity alone.              *)
LEMMA EventsOfOthers ==
  ASSUME PlainEvent, Head(evq) \notin IdentityTokens
  PROVE  /\ \E s \in Seq(EventId) :
              evq' = Tail(evq) \o s /\ \A e \in IdentityTokens : ~Has(s, e)
         /\ \/ devReq' = devReq
            \/ \E r \in { "S S", "S O" } : devReq' = Append(devReq, r)
<1> DEFINE Both == << "OUTPUT_FLUSH", "PROCESS_LINE" >>
           Plain == { << >>, << "DIGITAL_READ_OUTPUT" >>, << "OUTPUT_FLUSH" >>,
                      << "SCOPE_STATUS_OUTPUT" >>, Both }
<1>1. ASSUME NEW s \in Plain PROVE s \in Seq(EventId) /\ \A e \in IdentityTokens : ~Has(s, e)
  <2>1. ASSUME NEW t \in { "DIGITAL_READ_OUTPUT", "OUTPUT_FLUSH", "SCOPE_STATUS_OUTPUT" }
        PROVE  << t >> \in Seq(EventId) /\ \A e \in IdentityTokens : ~Has(<< t >>, e)
    <3>1. t \in EventId /\ t \notin IdentityTokens
      BY DEF EventId, IdentityTokens
    <3> QED BY <3>1 DEF Has
  <2>2. << >> \in Seq(EventId) /\ \A e \in IdentityTokens : ~Has(<< >>, e)
    BY DEF Has
  <2>3. Both \in Seq(EventId) /\ \A e \in IdentityTokens : ~Has(Both, e)
    <3>1. Both \in Seq(EventId) /\ Len(Both) = 2
      BY Tokens
    <3>2. \A i \in 1..2 : Both[i] \notin IdentityTokens
      BY DEF IdentityTokens
    <3> HIDE DEF Both
    <3> QED BY <3>1, <3>2 DEF Has
  <2> HIDE DEF Both
  <2> QED BY <2>1, <2>2, <2>3
<1>2. ~IdentifyCompletion /\ ~IdentifyOutput
  <2>1. \A e : Event(e) => Head(evq) = e
    BY EventFrame
  <2> QED BY <2>1 DEF IdentifyCompletion, IdentifyOutput, IdentityTokens
<1>3. /\ << >> \in Plain /\ << "DIGITAL_READ_OUTPUT" >> \in Plain
      /\ << "OUTPUT_FLUSH" >> \in Plain /\ << "SCOPE_STATUS_OUTPUT" >> \in Plain
      /\ << "OUTPUT_FLUSH", "PROCESS_LINE" >> \in Plain
  OBVIOUS
<1> HIDE DEF Plain
<1>4. \E s \in Plain : evq' = Tail(evq) \o s
  BY <1>2, <1>3, Zenon
  DEF PlainEvent, DigitalReadCompletion, DigitalReadOutput, ScopeStatusOutput,
      ScopeStatusCompletion, ScopeOffsetStart, Unblock, OutputFlush, Then
<1>5. \/ devReq' = devReq
      \/ \E r \in { "S S", "S O" } : devReq' = Append(devReq, r)
  BY <1>2 DEF PlainEvent, DigitalReadCompletion, DigitalReadOutput, ScopeStatusOutput,
      ScopeStatusCompletion, ScopeOffsetStart, Unblock, OutputFlush
<1> QED BY <1>1, <1>4, <1>5

LEMMA NoIdentityStep ==
  ASSUME TypeOK, Underway, AddrInv, NoIdentity, [Next]_vars,
         Handler => Head(prog) # "*IDN?"
  PROVE  NoIdentity'
<1>1. evq \in Seq(EventId) /\ devReq \in Seq(Request) /\ devOut \in Seq(Message)
  BY DEF TypeOK
<1>2. ASSUME NEW s \in Seq(EventId), \A e \in IdentityTokens : ~Has(s, e),
             evq' = evq \o s \/ (evq # << >> /\ evq' = Tail(evq) \o s)
      PROVE  \A e \in IdentityTokens : ~Has(evq', e)
  <2> SUFFICES ASSUME NEW e \in IdentityTokens PROVE ~Has(evq', e)
    OBVIOUS
  <2>1. ~Has(evq, e) /\ ~Has(s, e)
    BY <1>2 DEF NoIdentity, IdentityTokens
  <2>2. CASE evq' = evq \o s
    BY <1>1, <1>2, <2>1, <2>2, HasConcat, Zenon
  <2>3. CASE evq # << >> /\ evq' = Tail(evq) \o s
    <3>1. Tail(evq) \in Seq(EventId) /\ ~Has(Tail(evq), e)
      BY <1>1, <2>1, <2>3, HasTail
    <3> QED BY <1>2, <2>1, <2>3, <3>1, HasConcat, Zenon
  <2> QED BY <1>2, <2>2, <2>3
<1>3. ASSUME NEW t, t \in { "OUTPUT_FLUSH", "PROCESS_LINE" }
      PROVE  << t >> \in Seq(EventId) /\ \A e \in IdentityTokens : ~Has(<< t >>, e)
  <2>1. t \in EventId /\ t \notin IdentityTokens
    BY <1>3 DEF EventId, IdentityTokens
  <2> QED BY <2>1 DEF Has
<1>4. << >> \in Seq(EventId) /\ \A e \in IdentityTokens : ~Has(<< >>, e)
  BY DEF Has
<1>5. ASSUME \A e \in IdentityTokens : ~Has(evq', e), ~Has(devReq', "i"), ~Has(devOut', "*")
      PROVE  NoIdentity'
  BY <1>5 DEF NoIdentity, IdentityTokens
<1>6. ASSUME NEW r \in Request, r # "i", devReq' = Append(devReq, r)
      PROVE  ~Has(devReq', "i")
  <2>1. Has(Append(devReq, r), "i") <=> Has(devReq, "i") \/ r = "i"
    BY <1>1, HasAppend, Zenon
  <2> QED BY <1>6, <2>1 DEF NoIdentity
<1>7. CASE Handler
  <2>1. PICK s \in Seq(EventId) :
          /\ evq' = evq \o s
          /\ \A e : Has(s, e) =>
               \/ e \in LateOutput /\ (e = "IDENTIFY_OUTPUT" => Head(prog) = "*IDN?")
               \/ e = "UNBLOCK" /\ (sweep \/ digEv) /\ Head(prog) = "ABOR"
    BY <1>1, <1>7, HandlerSends
  <2>2. \A e \in IdentityTokens : ~Has(s, e)
    BY <1>7, <2>1 DEF IdentityTokens, LateOutput
  <2>3. ~Has(devReq', "i")
    <3>1. "i" \in Request /\ "i" \notin { "D I", "D A", "S G", "S D", "D !" }
      BY DEF Request
    <3> QED BY <1>7, <3>1, HandlerRequests DEF NoIdentity
  <2>4. ~Has(devOut', "*")
    BY <1>7, HandlerFrame DEF NoIdentity
  <2> QED BY <1>2, <1>5, <2>1, <2>2, <2>3, <2>4
<1>8. CASE DeviceWorker
  <2>1. rcv # "*"
    <3>1. devOut # << >> => Head(devOut) # "*"
      BY <1>1, HasTail DEF NoIdentity
    <3> QED BY <3>1 DEF AddrInv, Underway
  <2>2. PICK s \in Seq(EventId) :
          /\ evq' = evq \o s
          /\ \A e : Has(s, e) =>
               \/ e \in Completions /\ (e = "IDENTIFY_COMPLETE" => rcv = "*")
               \/ e = "UNBLOCK" /\ (rcv = "D" \/ chanMask # {})
    BY <1>1, <1>8, ReceiverTokens
  <2>3. \A e \in IdentityTokens : ~Has(s, e)
    BY <2>1, <2>2 DEF IdentityTokens, Completions
  <2>4. /\ \/ devReq' = devReq
           \/ \E r \in { "S B", "D !" } : devReq' = Append(devReq, r)
        /\ devOut' = devOut \/ (devOut # << >> /\ devOut' = Tail(devOut))
    BY <1>8, ReceiverFrame
  <2>5. ~Has(devReq', "i")
    <3>1. \A r \in { "S B", "D !" } : r \in Request /\ r # "i"
      BY DEF Request
    <3> QED BY <1>6, <2>4, <3>1 DEF NoIdentity
  <2>6. ~Has(devOut', "*")
    BY <1>1, <2>4, HasTail DEF NoIdentity
  <2> QED BY <1>2, <1>5, <2>2, <2>3, <2>5, <2>6
<1>9. ASSUME PlainEvent PROVE NoIdentity'
  <2>1. evq # << >> /\ Head(evq) \notin IdentityTokens
    <3>1. evq # << >>
      BY <1>9, PlainEventFrame
    <3> QED BY <1>1, <3>1, HasTail DEF NoIdentity, IdentityTokens
  <2>2. PICK s \in Seq(EventId) :
          evq' = Tail(evq) \o s /\ \A e \in IdentityTokens : ~Has(s, e)
    BY <1>9, <2>1, EventsOfOthers
  <2>4. ~Has(devReq', "i")
    <3>1. \/ devReq' = devReq
          \/ \E r \in { "S S", "S O" } : devReq' = Append(devReq, r)
      BY <1>9, <2>1, EventsOfOthers
    <3>2. \A r \in { "S S", "S O" } : r \in Request /\ r # "i"
      BY DEF Request
    <3> QED BY <1>6, <3>1, <3>2 DEF NoIdentity
  <2>5. ~Has(devOut', "*")
    BY <1>9, PlainEventFrame DEF NoIdentity
  <2> QED BY <1>2, <1>5, <2>1, <2>2, <2>4, <2>5
<1>10. CASE DeviceAnswers \/ DeviceSelf
  <2>1. \A e \in IdentityTokens : ~Has(evq', e)
    BY <1>10, DeviceMoves DEF NoIdentity, IdentityTokens
  <2>2. /\ devReq' = devReq \/ (devReq # << >> /\ devReq' = Tail(devReq))
        /\ devReq # << >> => Head(devReq) # "i"
    BY <1>1, <1>10, DeviceMoves, HasTail DEF NoIdentity
  <2>3. ~Has(devReq', "i")
    BY <1>1, <2>2, HasTail DEF NoIdentity
  <2>4. ~Has(devOut', "*")
    <3>1. \/ devOut' = devOut
          \/ \E m \in Message : devOut' = Append(devOut, m) /\ m # "*"
      BY <1>10, <2>2, DeviceMoves
    <3>2. ASSUME NEW m \in Message, devOut' = Append(devOut, m), m # "*"
          PROVE  ~Has(devOut', "*")
      <4>1. Has(Append(devOut, m), "*") <=> Has(devOut, "*") \/ m = "*"
        BY <1>1, HasAppend, Zenon
      <4> QED BY <3>2, <4>1 DEF NoIdentity
    <3> QED BY <3>1, <3>2 DEF NoIdentity
  <2> QED BY <1>5, <2>1, <2>3, <2>4
<1>11. ASSUME \/ Other /\ ~DeviceAnswers /\ ~DeviceSelf
              \/ LineDone \/ ProcessNoLine \/ ProcessEmptyLine \/ ProcessLine \/ CliRead,
              \A e \in IdentityTokens : ~Has(evq', e)
       PROVE  NoIdentity'
  <2>1. UNCHANGED << devReq, devOut >>
    BY <1>11, OthersAside DEF deviceSide
  <2> QED BY <1>5, <1>11, <2>1 DEF NoIdentity
<1>12. CASE Other /\ ~DeviceAnswers /\ ~DeviceSelf
  BY <1>11, <1>12, OtherFrame DEF NoIdentity, IdentityTokens
<1>13. CASE LineDone
  <2>1. \E s \in { << "OUTPUT_FLUSH" >>, << "OUTPUT_FLUSH" >> \o << "PROCESS_LINE" >>,
                   << "OUTPUT_FLUSH" >> \o << >> } : evq' = evq \o s
    BY <1>13, Zenon DEF LineDone, Send, NextLine, If
  <2>2. /\ << "OUTPUT_FLUSH" >> \o << >> = << "OUTPUT_FLUSH" >>
        /\ << "OUTPUT_FLUSH" >> \o << "PROCESS_LINE" >> \in Seq(EventId)
    BY Tokens
  <2>3. \A e \in IdentityTokens : ~Has(<< "OUTPUT_FLUSH" >> \o << "PROCESS_LINE" >>, e)
    BY <1>3, HasConcat, Zenon
  <2> QED BY <1>2, <1>3, <1>11, <1>13, <2>1, <2>2, <2>3
<1>14. CASE CliRead
  BY <1>2, <1>3, <1>11, <1>14 DEF CliRead, Send
<1>15. CASE ProcessNoLine \/ ProcessEmptyLine \/ ProcessLine
  <2>1. Event("PROCESS_LINE")
        /\ \E s \in { << >>, << "PROCESS_LINE" >> } : evq' = Tail(evq) \o s
    BY <1>15, Zenon DEF ProcessNoLine, ProcessEmptyLine, ProcessLine, Then, NextLine, If
  <2> QED BY <1>2, <1>3, <1>4, <1>11, <1>15, <2>1, EventFrame
<1> QED BY <1>7, <1>8, <1>9, <1>10, <1>12, <1>13, <1>14, <1>15, Cases

(* No assertion of the server fails for an orderly client that does not    *)
(* ask for the identity, whatever the device reports and whenever.         *)
THEOREM NothingFails ==
  ASSUME IsOrderly(Lines), KnowsItsDevice(Lines)
  PROVE  Safe => []NoAssertionFails
<1> DEFINE I == NoIdentity /\ Runs(Known) /\ NoAssertionFails
<1>1. Init => I
  <2> SUFFICES ASSUME Init PROVE I
    OBVIOUS
  <2>1. \A e : ~Has(<< >>, e)
    BY DEF Has
  <2>2. ~Has(evq, "IDENTIFY_COMPLETE") /\ ~Has(evq, "IDENTIFY_OUTPUT")
    <3>1. evq = << "SCOPE_OFFSET_START" >>
      BY DEF Init
    <3> QED BY <3>1 DEF Has
  <2>3. NoIdentity /\ NoAssertionFails
    BY <2>1, <2>2 DEF Init, NoIdentity, NoAssertionFails
  <2>4. Runs(Known)
    <3>1. \A S : << >> \in Seq(S)
      OBVIOUS
    <3>2. stdin = << >> /\ lines = << >> /\ prog = << >>
      BY DEF Init
    <3> QED BY <3>1, <3>2, Zenon DEF Runs, Known
  <2> QED BY <2>3, <2>4
<1>2. IInv /\ OrderInv /\ I /\ [Next]_vars => I'
  <2> SUFFICES ASSUME IInv, OrderInv, I, [Next]_vars PROVE I'
    OBVIOUS
  <2>1. TypeOK /\ Underway /\ AddrInv /\ Fence /\ Order /\ NoIdentity /\ Runs(Known)
    BY DEF IInv, OrderInv
  <2>2. Runs(Known)' /\ (Handler => Head(prog) # "*IDN?")
    BY <2>1, KnownStep
  <2>3. NoIdentity'
    BY <2>1, <2>2, NoIdentityStep
  <2>4. failed' = failed \/ IdentifyCompletionFails
    BY <2>1, FailsStep
  <2>5. ~IdentifyCompletionFails
    <3>1. evq \in Seq(EventId) /\ ~Has(evq, "IDENTIFY_COMPLETE")
      BY <2>1 DEF TypeOK, NoIdentity
    <3> QED BY <3>1, HasTail DEF IdentifyCompletionFails
  <2> QED BY <2>2, <2>3, <2>4, <2>5 DEF NoAssertionFails
<1>3. I => NoAssertionFails
  OBVIOUS
<1> QED BY <1>1, <1>2, <1>3, Invariance, Orderly, PTL DEF Safe
=============================================================================
