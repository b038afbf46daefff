--------------------------- MODULE Status_proofs ----------------------------
(***************************************************************************)
(* What is proved of the error queue, for a ring of any size, and of the   *)
(* status registers over it: the queue under them is the error queue, and  *)
(* the status byte says what the client can still find.                    *)
(***************************************************************************)
EXTENDS StatusRegisters, SequenceTheorems, TLAPS

----------------------------------------------------------------------------
(* The error queue.                                                        *)

(* The queue holds at most Size - 1 errors, in different slots.            *)
LEMMA Ring ==
  ASSUME TypeOK
  PROVE  /\ Used \in 0..Size-1
         /\ \A i \in 1..Used : At(i) \in Slot /\ At(i) # head
         /\ Used # 0 <=> head # tail
         /\ head # tail => At(1) = tail
         /\ \A i \in 2..Used : At(i) # tail
         /\ After(head) \in Slot /\ After(tail) \in Slot
         /\ After(head) = tail <=> Used = Size - 1
BY QueueAssumption DEF TypeOK, Slot, Used, At, After

(* One error more is queued at the head.                                   *)
LEMMA Grown ==
  ASSUME TypeOK, TypeOK', After(head) # tail, head' = After(head), tail' = tail
  PROVE  /\ Used' = Used + 1
         /\ \A i \in 1..Used : At(i)' = At(i)
         /\ \A i \in Nat : i = Used + 1 => At(i)' = head
<1>1. Used \in 0..Size-1 /\ Size \in Nat
  BY Ring, QueueAssumption
<1>2. Used' = Used + 1
  BY QueueAssumption DEF TypeOK, Slot, Used, After
<1> QED BY <1>1, <1>2, QueueAssumption DEF TypeOK, Slot, Used, At, After

(* The oldest error leaves at the tail.                                    *)
LEMMA Shrunk ==
  ASSUME TypeOK, TypeOK', head # tail, tail' = After(tail), head' = head
  PROVE  /\ Used' = Used - 1
         /\ \A i \in 1..Used - 1 : At(i)' = At(i + 1)
<1>1. Used \in 0..Size-1 /\ Size \in Nat
  BY Ring, QueueAssumption
<1>2. Used' = Used - 1
  BY QueueAssumption DEF TypeOK, Slot, Used, After
<1> QED BY <1>1, <1>2, QueueAssumption DEF TypeOK, Slot, Used, At, After

(***************************************************************************)
(* Types, and what the slots hold.                                         *)
(***************************************************************************)
LEMMA TypeStep == ASSUME TypeOK, [Next]_qvars PROVE TypeOK'
<1>1. After(head) \in Slot /\ After(tail) \in Slot /\ 0 \in Slot
  BY Ring, QueueAssumption DEF Slot
<1>2. ASSUME NEW num \in Error, NEW syndrome \in Syndrome \cup {None},
             Report(num, syndrome)
      PROVE  TypeOK'
  <2>1. q' \in [ Slot -> Item ]
    <3> DEFINE item == [ error |-> num,
                         syndrome |-> IF syndrome # None THEN syndrome
                                      ELSE q[head].syndrome ]
    <3>1. item \in Item
      BY DEF TypeOK, Item
    <3>2. q' = q \/ q' = [ q EXCEPT ![head] = item ]
      BY <1>2 DEF Report
    <3> HIDE DEF item
    <3> QED BY <3>1, <3>2 DEF TypeOK
  <2>2. head' \in Slot /\ tail' \in Slot /\ overflow' \in BOOLEAN /\ got' = got
    BY <1>1, <1>2 DEF Report, TypeOK
  <2> QED BY <1>2, <2>1, <2>2 DEF TypeOK, Report
<1>3. CASE Get
  <2>1. got' \in [ error : Error \cup {NoError, Overflow}, syndrome : Syndrome \cup {None} ]
    BY <1>3 DEF Get, Answer, TypeOK, Item
  <2>2. q' \in [ Slot -> Item ]
    BY <1>3 DEF Get, TypeOK, Item
  <2> QED BY <1>1, <1>3, <2>1, <2>2 DEF Get, TypeOK
<1>4. CASE Reset
  BY <1>1, <1>4 DEF Reset, TypeOK
<1>5. CASE UNCHANGED qvars
  BY <1>5 DEF qvars, TypeOK
<1> QED BY <1>2, <1>3, <1>4, <1>5 DEF Next

LEMMA InitType == ASSUME Init PROVE TypeOK
<1>1. Nothing \in Item
  BY DEF Nothing, Item
<1>2. q \in [ Slot -> Item ]
  BY <1>1 DEF Init
<1>3. got \in [ error : Error \cup {NoError, Overflow}, syndrome : Syndrome \cup {None} ]
  BY DEF Init, Nothing
<1>4. 0 \in Slot
  BY QueueAssumption DEF Slot
<1> QED BY <1>2, <1>3, <1>4 DEF Init, TypeOK

(* The state of the queue always has its type: in particular head and tail *)
(* stay inside the ring.                                                   *)
THEOREM TypeCorrect == Spec => []TypeOK
<1> QED BY InitType, TypeStep, PTL DEF Spec

LEMMA QueuedStep == ASSUME TypeOK, TypeOK', QueuedAreErrors, [Next]_qvars
                    PROVE  QueuedAreErrors'
<1>1. ASSUME NEW num \in Error, NEW syndrome \in Syndrome \cup {None},
             Report(num, syndrome)
      PROVE  QueuedAreErrors'
  <2>1. CASE After(head) = tail
    BY <1>1, <2>1 DEF Report, QueuedAreErrors, Used, At
  <2>2. CASE After(head) # tail
    <3>1. /\ head' = After(head) /\ tail' = tail
          /\ q'[head].error = num
          /\ \A s \in Slot \ {head} : q'[s] = q[s]
      BY <1>1, <2>2 DEF Report, TypeOK
    <3>2. ASSUME NEW i \in 1..Used + 1 PROVE q'[At(i)'].error \in Error
      <4>1. CASE i = Used + 1
        <5>1. Used + 1 \in Nat
          BY Ring
        <5>2. At(i)' = head
          BY <2>2, <3>1, <4>1, <5>1, Grown
        <5> QED BY <3>1, <5>2
      <4>2. CASE i \in 1..Used
        BY <2>2, <3>1, <4>2, Grown, Ring DEF QueuedAreErrors
      <4> QED BY <4>1, <4>2, Ring
    <3> QED BY <2>2, <3>1, <3>2, Grown DEF QueuedAreErrors
  <2> QED BY <2>1, <2>2
<1>2. CASE Get
  <2>1. \A s \in Slot : q'[s].error = q[s].error
    BY <1>2 DEF Get, TypeOK, Item
  <2>2. CASE head = tail
    <3>1. Used' = 0
      BY <1>2, <2>2 DEF Get, Used, TypeOK, Slot
    <3> QED BY <3>1 DEF QueuedAreErrors
  <2>3. CASE head # tail
    <3>1. tail' = After(tail) /\ head' = head
      BY <1>2, <2>3 DEF Get
    <3>2. ASSUME NEW i \in 1..Used - 1 PROVE q'[At(i)'].error \in Error
      BY <2>1, <2>3, <3>1, Shrunk, Ring DEF QueuedAreErrors
    <3> QED BY <2>3, <3>1, <3>2, Shrunk DEF QueuedAreErrors
  <2> QED BY <2>2, <2>3
<1>3. CASE Reset
  BY <1>3 DEF Reset, QueuedAreErrors, Used
<1>4. CASE UNCHANGED qvars
  BY <1>4 DEF qvars, QueuedAreErrors, Used, At
<1> QED BY <1>1, <1>2, <1>3, <1>4 DEF Next

(* Whatever the queue has been through, a reset included, what it holds    *)
(* was reported.                                                           *)
THEOREM QueuedWasReported == Spec => []QueuedAreErrors
<1>1. Init => QueuedAreErrors
  BY DEF Init, QueuedAreErrors, Used
<1>2. TypeOK /\ TypeOK' /\ QueuedAreErrors /\ [Next]_qvars => QueuedAreErrors'
  BY QueuedStep
<1> QED BY <1>1, <1>2, TypeCorrect, PTL DEF Spec

(***************************************************************************)
(* The ring implements the log of errors.                                  *)
(***************************************************************************)
LEMMA CleanStep ==
  ASSUME TypeOK, TypeOK', FreeSlotsAreClean, [Next]_qvars
  PROVE  FreeSlotsAreClean'
<1>1. ASSUME NEW num \in Error, NEW syndrome \in Syndrome \cup {None},
             Report(num, syndrome)
      PROVE  FreeSlotsAreClean'
  <2>1. CASE After(head) = tail
    BY <1>1, <2>1 DEF Report, FreeSlotsAreClean, Used, At
  <2>2. CASE After(head) # tail
    <3>1. /\ head' = After(head) /\ tail' = tail
          /\ \A s \in Slot \ {head} : q'[s] = q[s]
      BY <1>1, <2>2 DEF Report, TypeOK
    <3> SUFFICES ASSUME ~cleared, NEW s \in Slot, \A i \in 1..Used' : s # At(i)'
                 PROVE  q'[s].syndrome = None
      BY <1>1 DEF FreeSlotsAreClean, Report
    <3>2. Used + 1 \in 1..Used' /\ 1..Used \subseteq 1..Used' /\ Used + 1 \in Nat
      BY <2>2, <3>1, Grown, Ring
    <3>3. s # head
      <4>1. ASSUME NEW i \in Nat, i = Used + 1 PROVE s # head
        BY <2>2, <3>1, <3>2, <4>1, Grown
      <4> QED BY <3>2, <4>1
    <3>4. \A i \in 1..Used : s # At(i)
      BY <2>2, <3>1, <3>2, Grown
    <3> QED BY <3>1, <3>3, <3>4 DEF FreeSlotsAreClean
  <2> QED BY <2>1, <2>2
<1>2. CASE Get
  <2>1. /\ q'[tail].syndrome = None
        /\ \A s \in Slot \ {tail} : q'[s] = q[s]
    BY <1>2 DEF Get, TypeOK, Item
  <2> SUFFICES ASSUME NEW s \in Slot, s # tail, \A i \in 1..Used' : s # At(i)'
               PROVE  \A i \in 1..Used : s # At(i)
    BY <1>2, <2>1 DEF FreeSlotsAreClean, Get
  <2>2. CASE head = tail
    BY <2>2, Ring
  <2>3. CASE head # tail
    <3>1. tail' = After(tail) /\ head' = head
      BY <1>2, <2>3 DEF Get
    <3>2. Used' = Used - 1 /\ Used \in Nat /\ At(1) = tail
      BY <2>3, <3>1, Shrunk, Ring
    <3>3. ASSUME NEW i \in 1..Used, i # 1 PROVE s # At(i)
      <4>1. i - 1 \in 1..Used - 1 /\ (i - 1) + 1 = i
        BY <3>2, <3>3
      <4>2. PICK j \in 1..Used - 1 : j + 1 = i
        BY <4>1
      <4>3. At(j)' = At(j + 1) /\ j \in 1..Used'
        BY <2>3, <3>1, <3>2, Shrunk
      <4> QED BY <4>2, <4>3
    <3> QED BY <3>2, <3>3
  <2> QED BY <2>2, <2>3
<1>3. CASE Reset
  BY <1>3 DEF Reset, FreeSlotsAreClean
<1>4. CASE UNCHANGED qvars
  BY <1>4 DEF qvars, FreeSlotsAreClean, Used, At
<1> QED BY <1>1, <1>2, <1>3, <1>4 DEF Next

LEMMA InitClean == ASSUME Init PROVE FreeSlotsAreClean
BY DEF Init, FreeSlotsAreClean, Nothing

(* Without *CLS, a slot that is not in the queue holds no text.            *)
THEOREM SlotsAreClean == Spec => []FreeSlotsAreClean
<1>1. TypeOK /\ TypeOK' /\ FreeSlotsAreClean /\ [Next]_qvars => FreeSlotsAreClean'
  BY CleanStep
<1> QED BY <1>1, InitClean, TypeCorrect, PTL DEF Spec

(* The queue as a sequence.                                                *)
LEMMA LogProperties ==
  ASSUME TypeOK
  PROVE  /\ Log \in Seq(Item) /\ Len(Log) = Used
         /\ \A i \in 1..Used : Log[i] = q[At(i)]
<1>1. Used \in Nat /\ \A i \in 1..Used : q[At(i)] \in Item
  BY Ring DEF TypeOK
<1> QED BY <1>1 DEF Log

(* Every step of the ring is a step of the log, or none.                   *)
LEMMA LogStep ==
  ASSUME TypeOK, TypeOK', FreeSlotsAreClean, [Next]_qvars
  PROVE  [ErrorLog!Next]_(ErrorLog!logVars)
<1>1. ASSUME NEW num \in Error, NEW syndrome \in Syndrome \cup {None},
             Report(num, syndrome)
      PROVE  ErrorLog!Next
  <2> DEFINE e == [ error |-> num,
                    syndrome |-> IF syndrome # None THEN syndrome
                                 ELSE q[head].syndrome ]
  <2>1. e \in ErrorLog!Entry
    BY DEF ErrorLog!Entry, TypeOK, Item
  <2>2. CASE After(head) = tail
    <3>1. /\ Len(Log) = Size - 1 /\ overflow' = TRUE
          /\ got' = got /\ cleared' = cleared
      BY <1>1, <2>2, LogProperties, Ring DEF Report
    <3>2. Log' = Log
      BY <1>1, <2>2 DEF Report, Log, Used, At
    <3>3. ErrorLog!Report(e)
      BY <3>1, <3>2 DEF ErrorLog!Report
    <3> QED BY <2>1, <3>3 DEF ErrorLog!Next
  <2>3. CASE After(head) # tail
    <3>1. /\ head' = After(head) /\ tail' = tail /\ got' = got
          /\ overflow' = overflow /\ cleared' = cleared
          /\ \A s \in Slot \ {head} : q'[s] = q[s]
      BY <1>1, <2>3 DEF Report, TypeOK
    <3>2. q'[head] = e
      BY <1>1, <2>3 DEF Report, TypeOK
    <3>3. Log' = Append(Log, e)
      <4>1. e \in Item
        BY <2>1 DEF Item, ErrorLog!Entry
      <4>2. /\ Append(Log, e) \in Seq(Item) /\ Len(Append(Log, e)) = Used + 1
            /\ \A i \in 1..Used : Append(Log, e)[i] = Log[i]
            /\ \A i \in Nat : i = Used + 1 => Append(Log, e)[i] = e
        BY <4>1, LogProperties, Ring
      <4>3. /\ Log' \in Seq(Item) /\ Len(Log') = Used + 1
            /\ \A i \in 1..Used + 1 : Log'[i] = q'[At(i)']
        <5>1. Log' = [ i \in 1..Used + 1 |-> q'[At(i)'] ]
          BY <2>3, <3>1, Grown DEF Log
        <5>2. ASSUME NEW i \in 1..Used + 1 PROVE q'[At(i)'] \in Item
          <6>1. At(i)' \in Slot
            <7>1. i \in Nat /\ (i = Used + 1 \/ i \in 1..Used) /\ head \in Slot
              BY Ring DEF TypeOK
            <7> QED BY <2>3, <3>1, <7>1, Grown, Ring
          <6> QED BY <6>1 DEF TypeOK
        <5> QED BY <5>1, <5>2, Ring
      <4>4. ASSUME NEW i \in 1..Used + 1 PROVE Log'[i] = Append(Log, e)[i]
        <5>1. CASE i = Used + 1
          <6>1. i \in Nat /\ At(i)' = head
            BY <2>3, <3>1, <5>1, Grown, Ring
          <6> QED BY <3>2, <4>2, <4>3, <5>1, <6>1
        <5>2. CASE i \in 1..Used
          <6>1. At(i)' = At(i) /\ At(i) \in Slot \ {head}
            BY <2>3, <3>1, <5>2, Grown, Ring
          <6> QED BY <3>1, <4>2, <4>3, <5>2, <6>1, LogProperties
        <5>3. i = Used + 1 \/ i \in 1..Used
          BY Ring
        <5> QED BY <5>1, <5>2, <5>3
      <4> QED BY <4>2, <4>3, <4>4, SeqEqual
    <3>4. Len(Log) < Size - 1
      BY <2>3, LogProperties, Ring, QueueAssumption
    <3>5. ErrorLog!Report(e)
      BY <3>1, <3>3, <3>4 DEF ErrorLog!Report
    <3> QED BY <2>1, <3>5 DEF ErrorLog!Next
  <2> QED BY <2>2, <2>3
<1>2. CASE Get
  <2>1. CASE head = tail
    <3>1. Log = << >> /\ Log' = << >>
      <4>1. Used = 0 /\ Used' = 0
        BY <1>2, <2>1 DEF Get, Used, TypeOK, Slot
      <4> QED BY <4>1, LogProperties, EmptySeq DEF Log
    <3>2. q[tail].syndrome \in Syndrome \cup {None}
      BY DEF TypeOK, Item
    <3>3. cleared \/ q[tail].syndrome = None
      BY <2>1, Ring DEF FreeSlotsAreClean, TypeOK
    <3>4. /\ got' = [ error |-> IF overflow THEN Overflow ELSE NoError,
                      syndrome |-> q[tail].syndrome ]
          /\ overflow' = FALSE /\ cleared' = cleared
      BY <1>2, <2>1 DEF Get, Answer
    <3> QED BY <3>1, <3>2, <3>3, <3>4 DEF ErrorLog!Next, ErrorLog!Read
  <2>2. CASE head # tail
    <3>1. /\ tail' = After(tail) /\ head' = head /\ overflow' = overflow
          /\ cleared' = cleared
          /\ \A s \in Slot \ {tail} : q'[s] = q[s]
      BY <1>2, <2>2 DEF Get, TypeOK
    <3>2. Used \in Nat /\ Used >= 1 /\ At(1) = tail /\ tail \in Slot
      BY <2>2, Ring DEF TypeOK
    <3>3. Log # << >> /\ Head(Log) = q[tail]
      BY <3>2, LogProperties
    <3>4. got' = q[tail]
      BY <1>2, <2>2, <3>2 DEF Get, Answer, TypeOK, Item
    <3>5. Log' = Tail(Log)
      <4>1. /\ Tail(Log) \in Seq(Item) /\ Len(Tail(Log)) = Used - 1
            /\ \A i \in 1..Used - 1 : Tail(Log)[i] = Log[i + 1]
        BY <3>2, <3>3, LogProperties
      <4>2. /\ Log' \in Seq(Item) /\ Len(Log') = Used - 1
            /\ \A i \in 1..Used - 1 : Log'[i] = q'[At(i)']
        <5>1. Log' = [ i \in 1..Used - 1 |-> q'[At(i)'] ]
          BY <2>2, <3>1, Shrunk DEF Log
        <5>2. ASSUME NEW i \in 1..Used - 1 PROVE q'[At(i)'] \in Item
          <6>1. At(i)' \in Slot
            BY <2>2, <3>1, <3>2, Shrunk, Ring
          <6> QED BY <6>1 DEF TypeOK
        <5> QED BY <3>2, <5>1, <5>2
      <4>3. ASSUME NEW i \in 1..Used - 1 PROVE Log'[i] = Tail(Log)[i]
        <5>1. At(i)' = At(i + 1) /\ i + 1 \in 2..Used
          BY <2>2, <3>1, <3>2, Shrunk
        <5>2. At(i + 1) \in Slot \ {tail}
          BY <5>1, Ring
        <5> QED BY <3>1, <3>2, <4>1, <4>2, <5>1, <5>2, LogProperties
      <4> QED BY <4>1, <4>2, <4>3, SeqEqual
    <3> QED BY <3>1, <3>3, <3>4, <3>5 DEF ErrorLog!Next, ErrorLog!Read
  <2> QED BY <2>1, <2>2
<1>3. CASE Reset
  <2>1. Used' = 0
    BY <1>3 DEF Reset, Used
  <2>2. Log' = << >>
    BY <2>1, LogProperties, EmptySeq DEF Log
  <2> QED BY <1>3, <2>2 DEF Reset, ErrorLog!Next, ErrorLog!Clear
<1>4. CASE UNCHANGED qvars
  <2>1. Log' = Log /\ UNCHANGED << overflow, got, cleared >>
    BY <1>4 DEF qvars, Log, Used, At
  <2> QED BY <2>1 DEF ErrorLog!logVars
<1> QED BY <1>1, <1>2, <1>3, <1>4 DEF Next

LEMMA LogInit == ASSUME Init PROVE ErrorLog!Init
<1>1. Log = << >>
  <2>1. Used = 0
    BY DEF Init, Used
  <2> QED BY <2>1, LogProperties, InitType, EmptySeq
<1> QED BY <1>1 DEF Init, ErrorLog!Init, Nothing

(* The ring with its overflow flag is the bounded log that SYSTem:ERRor?   *)
(* promises: in order, none twice, the overflow reported after the errors  *)
(* before it, and no text with "No error" until *CLS was used.             *)
THEOREM Refinement == Spec => ImplementsLog
<1>1. TypeOK /\ TypeOK' /\ FreeSlotsAreClean /\ [Next]_qvars
        => [ErrorLog!Next]_(ErrorLog!logVars)
  BY LogStep
<1> QED
  BY <1>1, LogInit, TypeCorrect, SlotsAreClean, PTL DEF Spec, ImplementsLog, ErrorLog!Spec

----------------------------------------------------------------------------
(* The status registers.                                                   *)

(* The commands do with the queue what the queue's operations do.          *)
LEMMA QueueStep == ASSUME [StatusNext]_vars PROVE [Next]_qvars
<1>1. ASSUME NEW num \in Error, NEW syndrome \in Syndrome \cup {None},
             ErrorOccurs(num, syndrome)
      PROVE  Next
  BY <1>1 DEF ErrorOccurs, Next
<1>2. ASSUME NEW e \in Enable, NEW n \in Value[e], SetEnable(e, n)
      PROVE  UNCHANGED qvars
  BY <1>2 DEF SetEnable
<1>3. ASSUME NEW e \in Enable, NEW n \in Value[e], RejectEnable(e, n)
      PROVE  Next
  BY <1>3, RegisterAssumption DEF RejectEnable, Next
<1>4. EsrQuery \/ Opc \/ OperationBegins \/ OperationEnds => UNCHANGED qvars
  BY DEF EsrQuery, Opc, OperationBegins, OperationEnds
<1>5. ErrorQuery \/ Cls => Next
  BY DEF ErrorQuery, Cls, Next
<1>6. UNCHANGED vars => UNCHANGED qvars
  BY DEF vars
<1> QED BY <1>1, <1>2, <1>3, <1>4, <1>5, <1>6 DEF StatusNext

(* What holds of the ring of errors holds under the status registers.      *)
THEOREM QueueBelow == StatusSpec => Spec
<1>1. StatusInit => Init
  BY DEF StatusInit
<1> QED BY <1>1, QueueStep, PTL DEF StatusSpec, Spec

(* The client's count of errors is the number of used slots, and one more  *)
(* while the overflow mark waits behind them.                              *)
Counted == unread \in Nat /\ Used <= unread /\ unread <= Used + (IF overflow THEN 1 ELSE 0)

LEMMA CountStep ==
  ASSUME TypeOK, TypeOK', Counted,
         \/ (\E num \in Error, s \in Syndrome \cup {None} : Report(num, s)) /\ OneMore
         \/ Get /\ OneLess
         \/ Reset /\ unread' = 0
         \/ UNCHANGED qvars /\ UNCHANGED unread
  PROVE  Counted'
<1>0. Used \in 0..Size-1 /\ (Used # 0 <=> head # tail) /\ Size \in Nat
      /\ (After(head) = tail <=> Used = Size - 1) /\ overflow \in BOOLEAN
  BY Ring, QueueAssumption DEF TypeOK
<1>1. CASE (\E num \in Error, s \in Syndrome \cup {None} : Report(num, s)) /\ OneMore
  <2> PICK num \in Error, s \in Syndrome \cup {None} : Report(num, s)
    BY <1>1
  <2>1. CASE After(head) = tail
    <3>1. Used' = Used /\ overflow' = TRUE
      BY <2>1 DEF Report, Used
    <3> QED BY <1>0, <1>1, <2>1, <3>1 DEF OneMore, Counted
  <2>2. CASE After(head) # tail
    <3>1. Used' = Used + 1 /\ overflow' = overflow
      BY <2>2, Grown DEF Report
    <3> QED BY <1>0, <1>1, <2>2, <3>1 DEF OneMore, Counted
  <2> QED BY <2>1, <2>2
<1>2. CASE Get /\ OneLess
  <2>1. CASE head = tail
    <3>1. Used' = Used /\ overflow' = FALSE /\ Used = 0
      BY <1>0, <1>2, <2>1 DEF Get, Used
    <3> QED BY <1>0, <1>2, <3>1 DEF OneLess, Counted
  <2>2. CASE head # tail
    <3>1. Used' = Used - 1 /\ overflow' = overflow
      BY <1>0, <1>2, <2>2, Shrunk DEF Get
    <3> QED BY <1>0, <1>2, <2>2, <3>1 DEF OneLess, Counted
  <2> QED BY <2>1, <2>2
<1>3. CASE Reset /\ unread' = 0
  BY <1>0, <1>3 DEF Reset, Counted, Used
<1>4. CASE UNCHANGED qvars /\ UNCHANGED unread
  BY <1>4 DEF qvars, Counted, Used
<1> QED BY <1>1, <1>2, <1>3, <1>4

----------------------------------------------------------------------------
(* The only event is the completion of operations, and but for an *OPC     *)
(* that did not wait for it, the bit is set when there was one: nothing    *)
(* sets another bit of SESR, or any of the event registers of SCPI.        *)
Events ==
  /\ sesr \subseteq {OPC}
  /\ ~early => (OPC \in sesr <=> completed)
  /\ oper.event = {} /\ ques.event = {}

RegisterType ==
  /\ seser \in Byte /\ srer \in Byte
  /\ oper \in Condition /\ ques \in Condition
  /\ pending \in BOOLEAN /\ completed \in BOOLEAN /\ early \in BOOLEAN
  /\ accepted \in [ Served -> Byte ] /\ wiped \in BOOLEAN

RegisterInv == RegisterType /\ Events /\ EnablesAsAccepted

LEMMA BitsInWidth ==
  ASSUME NEW e \in Enable, NEW n
  PROVE  /\ Bits(n, Width(e)) \in SUBSET (0..15)
         /\ e \in Served => Bits(n, Width(e)) \in Byte
BY DEF Bits, Width, Byte, Served

LEMMA RegisterStep ==
  ASSUME RegisterInv, [StatusNext]_vars
  PROVE  RegisterInv'
<1> USE DEF RegisterInv, enables
<1>1. ASSUME UNCHANGED << registers, pending, completed, early, enables >> PROVE RegisterInv'
  BY <1>1 DEF registers, RegisterType, Events, EnablesAsAccepted
<1>2. ASSUME NEW e \in Enable, NEW n \in Value[e], SetEnable(e, n)
      PROVE  RegisterInv'
  <2> DEFINE bits == Bits(n, Width(e))
  <2>1. bits \in SUBSET (0..15) /\ (e \in Served => bits \in Byte)
    BY BitsInWidth
  <2>2. /\ SetRegister(e, bits)
        /\ accepted' = [ a \in Served |-> IF a = e THEN bits ELSE accepted[a] ]
        /\ wiped' = (wiped /\ e # "*ESE")
        /\ UNCHANGED << pending, completed, early >>
    BY <1>2 DEF SetEnable
  <2> HIDE DEF bits
  <2>3. RegisterType'
    <3>1. accepted' \in [ Served -> Byte ] /\ wiped' \in BOOLEAN
      BY <2>1, <2>2 DEF RegisterType
    <3>2. seser' \in Byte /\ srer' \in Byte
      BY <2>1, <2>2 DEF SetRegister, RegisterType, Served
    <3>3. oper' \in Condition /\ ques' \in Condition
      BY <2>1, <2>2 DEF SetRegister, RegisterType, Condition
    <3> QED BY <2>2, <3>1, <3>2, <3>3 DEF RegisterType
  <2>4. Events'
    BY <2>2 DEF SetRegister, Events, RegisterType, Condition
  <2>5. EnablesAsAccepted'
    BY <2>2 DEF SetRegister, EnablesAsAccepted, RegisterType, Enable, Served
  <2> QED BY <2>3, <2>4, <2>5
<1>3. CASE EsrQuery \/ Opc \/ OperationBegins \/ OperationEnds
  <2>1. UNCHANGED << seser, srer, oper, ques, accepted, wiped >>
    BY <1>3 DEF EsrQuery, Opc, OperationBegins, OperationEnds, registers, clientView
  <2>2. /\ pending' \in BOOLEAN /\ completed' \in BOOLEAN /\ early' \in BOOLEAN
        /\ sesr' \subseteq {OPC}
        /\ ~early' => (OPC \in sesr' <=> completed')
    <3>1. CASE EsrQuery
      BY <3>1 DEF EsrQuery, RegisterType, Events
    <3>2. CASE Opc
      BY <3>2 DEF Opc, RegisterType, Events
    <3>3. CASE OperationBegins
      BY <3>3 DEF OperationBegins, registers, clientView, RegisterType, Events
    <3>4. CASE OperationEnds
      BY <3>4 DEF OperationEnds, registers, RegisterType, Events
    <3> QED BY <1>3, <3>1, <3>2, <3>3, <3>4
  <2> QED BY <2>1, <2>2 DEF RegisterType, Events, EnablesAsAccepted
<1>4. CASE Cls
  <2>1. RegisterType' /\ Events'
    BY <1>4 DEF Cls, RegisterType, Events, Condition, Byte
  <2>2. EnablesAsAccepted'
    BY <1>4 DEF Cls, RegisterType, EnablesAsAccepted
  <2> QED BY <2>1, <2>2
<1>5. CASE ErrorQuery
  BY <1>1, <1>5 DEF ErrorQuery
<1>6. ASSUME NEW num, NEW syndrome, ErrorOccurs(num, syndrome) PROVE RegisterInv'
  BY <1>1, <1>6 DEF ErrorOccurs
<1>7. ASSUME NEW e, NEW n, RejectEnable(e, n) PROVE RegisterInv'
  BY <1>1, <1>7 DEF RejectEnable
<1>8. CASE UNCHANGED vars
  BY <1>1, <1>8 DEF vars, clientView
<1> QED BY <1>2, <1>3, <1>4, <1>5, <1>6, <1>7, <1>8 DEF StatusNext

LEMMA CountedStep ==
  ASSUME TypeOK, TypeOK', Counted, [StatusNext]_vars
  PROVE  Counted' /\ (unread \in 0..Size => unread' \in 0..Size)
<1>1. ASSUME NEW num \in Error, NEW s \in Syndrome \cup {None}, ErrorOccurs(num, s)
      PROVE  Counted'
  BY <1>1, CountStep DEF ErrorOccurs
<1>2. ASSUME NEW e, NEW n, RejectEnable(e, n) PROVE Counted'
  BY <1>2, CountStep, RegisterAssumption DEF RejectEnable
<1>3. ASSUME NEW e, NEW n, SetEnable(e, n) PROVE Counted'
  BY <1>3, CountStep DEF SetEnable
<1>4. ASSUME ErrorQuery \/ Cls PROVE Counted'
  <2>1. (Get /\ OneLess) \/ (Reset /\ unread' = 0)
    BY <1>4 DEF ErrorQuery, Cls
  <2> QED BY <2>1, CountStep
<1>5. CASE EsrQuery \/ Opc \/ OperationBegins \/ OperationEnds \/ UNCHANGED vars
  BY <1>5, CountStep DEF EsrQuery, Opc, OperationBegins, OperationEnds, vars, clientView
<1>6. Counted'
  BY <1>1, <1>2, <1>3, <1>4, <1>5 DEF StatusNext
<1>7. unread' = unread \/ OneMore \/ OneLess \/ unread' = 0
  BY DEF StatusNext, ErrorOccurs, RejectEnable, SetEnable, ErrorQuery, Cls, EsrQuery, Opc,
     OperationBegins, OperationEnds, vars, clientView
<1>8. unread \in 0..Size => unread' \in 0..Size
  BY <1>7, QueueAssumption DEF OneMore, OneLess
<1> QED BY <1>6, <1>8

----------------------------------------------------------------------------
StatusInv == TypeOK /\ Counted /\ unread \in 0..Size /\ RegisterInv

LEMMA StatusInvariant == StatusSpec => []StatusInv
<1>1. StatusInit => StatusInv
  <2> SUFFICES ASSUME StatusInit PROVE StatusInv
    OBVIOUS
  <2>1. TypeOK
    BY InitType DEF StatusInit
  <2>2. Counted /\ unread \in 0..Size
    BY QueueAssumption DEF StatusInit, Init, Counted, Used
  <2>3. RegisterInv
    BY DEF StatusInit, RegisterInv, RegisterType, Events, EnablesAsAccepted,
           Served, Byte, Condition
  <2> QED BY <2>1, <2>2, <2>3 DEF StatusInv
<1>2. StatusInv /\ [StatusNext]_vars => StatusInv'
  BY QueueStep, TypeStep, CountedStep, RegisterStep DEF StatusInv
<1> QED BY <1>1, <1>2, PTL DEF StatusSpec

(* The registers keep their width, whatever numbers the client sends.      *)
THEOREM StatusTypeCorrect == StatusSpec => []StatusTypeOK
<1>1. StatusInv => StatusTypeOK
  <2> SUFFICES ASSUME StatusInv PROVE StatusTypeOK
    OBVIOUS
  <2>1. sesr \in Byte
    BY DEF StatusInv, RegisterInv, Events, Byte, OPC
  <2> QED BY <2>1 DEF StatusInv, RegisterInv, RegisterType, StatusTypeOK
<1> QED BY <1>1, StatusInvariant, PTL

(* For a ring of any size and any values: the status byte says what the    *)
(* documents call for, that is what the client enabled and has not seen,   *)
(* but where the overflow mark is alone in the queue, *CLS has reset *ESE  *)
(* or *OPC did not wait for an operation (scpi_core_status_update).        *)
THEOREM ServiceJustified == StatusSpec => []ServiceIsJustified
<1>1. StatusInv => ServiceIsJustified
  <2> SUFFICES ASSUME StatusInv PROVE ServiceIsJustified
    OBVIOUS
  <2> DEFINE errors == IF Count # 0 THEN {ERQ} ELSE {}
             events == IF sesr \cap seser # {} THEN {SESR} ELSE {}
             unseen == IF unread > 0 THEN {ERQ} ELSE {}
             complete == IF completed /\ OPC \in accepted["*ESE"] THEN {SESR} ELSE {}
             lone == IF head = tail /\ overflow THEN {ERQ} ELSE {}
             differs == IF early \/ wiped THEN {SESR} ELSE {}
  <2>1. Summary = errors \cup events
    BY DEF Summary, StatusInv, RegisterInv, Events
  <2>2. ~(head = tail /\ overflow) => (Count # 0 <=> unread > 0)
    <3>1. Used \in Nat /\ (Used # 0 <=> head # tail) /\ overflow \in BOOLEAN
      BY Ring DEF StatusInv, TypeOK
    <3>2. Count # 0 <=> Used # 0
      BY <3>1 DEF Count
    <3> QED BY <3>1, <3>2 DEF StatusInv, Counted
  <2>3. ~early /\ ~wiped => (sesr \cap seser # {} <=> completed /\ OPC \in accepted["*ESE"])
    BY DEF StatusInv, RegisterInv, RegisterType, Events, EnablesAsAccepted
  <2>4. Causes = unseen \cup complete /\ Disputed = lone \cup differs
    BY DEF Causes, Disputed
  <2>5. errors \ lone = unseen \ lone /\ events \ differs = complete \ differs
    BY <2>2, <2>3
  <2>6. /\ errors \subseteq {ERQ} /\ unseen \subseteq {ERQ} /\ lone \subseteq {ERQ}
        /\ events \subseteq {SESR} /\ complete \subseteq {SESR} /\ differs \subseteq {SESR}
    OBVIOUS
  <2> HIDE DEF errors, events, unseen, complete, lone, differs
  <2>7. (errors \cup events) \ (lone \cup differs) = (unseen \cup complete) \ (lone \cup differs)
    BY <2>5, <2>6 DEF ERQ, SESR
  <2>8. MSS \notin Summary
    BY <2>1, <2>6 DEF ERQ, SESR, MSS
  <2>9. StatusByte \ {MSS} = Summary
    BY <2>8 DEF StatusByte
  <2>10. MSS \in StatusByte <=> Summary \cap accepted["*SRE"] # {}
    BY <2>8 DEF StatusByte, StatusInv, RegisterInv, EnablesAsAccepted
  <2> QED BY <2>1, <2>4, <2>7, <2>9, <2>10 DEF ServiceIsJustified
<1> QED BY <1>1, StatusInvariant, PTL
=============================================================================
