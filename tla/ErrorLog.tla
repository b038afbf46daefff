------------------------------ MODULE ErrorLog ------------------------------
(***************************************************************************)
(* What SYSTem:ERRor? promises: the errors in the order they happened, a   *)
(* bounded number of them, and a queue overflow error after them when some *)
(* were lost.  *CLS empties the log; it neither takes the overflow back    *)
(* nor keeps the texts of the errors it dropped from being shown later.    *)
(***************************************************************************)
EXTENDS Naturals, Sequences

CONSTANTS Capacity, Error, Syndrome, NoError, Overflow, None

VARIABLES log, lost, got, cleared

logVars == << log, lost, got, cleared >>

Entry == [ error : Error, syndrome : Syndrome \cup {None} ]

Init ==
  /\ log = << >> /\ lost = FALSE /\ cleared = FALSE
  /\ got = [ error |-> NoError, syndrome |-> None ]

Report(e) ==
  /\ \/ Len(log) < Capacity /\ log' = Append(log, e) /\ UNCHANGED lost
     \/ Len(log) = Capacity /\ lost' = TRUE /\ UNCHANGED log
  /\ UNCHANGED << got, cleared >>

Read ==
  /\ \/ /\ log # << >>
        /\ got' = Head(log) /\ log' = Tail(log) /\ UNCHANGED lost
     \/ /\ log = << >>
        /\ \E s \in Syndrome \cup {None} :
             /\ cleared \/ s = None
             /\ got' = [ error |-> IF lost THEN Overflow ELSE NoError, syndrome |-> s ]
        /\ lost' = FALSE /\ UNCHANGED log
  /\ UNCHANGED cleared

Clear == log' = << >> /\ cleared' = TRUE /\ UNCHANGED << lost, got >>

Next == Read \/ Clear \/ \E e \in Entry : Report(e)

Spec == Init /\ [][Next]_logVars
=============================================================================
