----------------------------- MODULE ErrorQueue -----------------------------
(***************************************************************************)
(* The SCPI error queue (scpi_error.c): a ring of Size slots, one of them  *)
(* always free, with an overflow flag; an error may carry a syndrome, a    *)
(* text that is handed out with it and taken from its slot.                *)
(***************************************************************************)
EXTENDS Integers, Sequences

CONSTANTS
  Size,          \* ERRQ_SIZE, 32 in the code
  Error,         \* the error numbers that are reported
  Syndrome,      \* the texts
  NoError, Overflow,     \* SCPI_ERR_NONE and SCPI_ERR_QUEUE_OVERFLOW
  None           \* a NULL syndrome

ASSUME QueueAssumption ==
  /\ Size \in Nat /\ Size > 1
  /\ None \notin Syndrome
  /\ NoError \notin Error /\ Overflow \notin Error /\ NoError # Overflow

VARIABLES head, tail, overflow, q,
          got,          \* what the last scpi_error_get() returned
          cleared       \* history: the client has sent *CLS

qvars == << head, tail, overflow, q, got, cleared >>

Slot == 0..Size-1
Item == [ error : Error \cup {NoError}, syndrome : Syndrome \cup {None} ]
Nothing == [ error |-> NoError, syndrome |-> None ]

(* calloc()                                                                *)
Init ==
  /\ head = 0 /\ tail = 0 /\ overflow = FALSE
  /\ q = [ i \in Slot |-> Nothing ]
  /\ got = Nothing /\ cleared = FALSE

After(i) == IF i + 1 = Size THEN 0 ELSE i + 1

(* scpi_error(): a NULL syndrome leaves what the slot holds.               *)
Report(num, syndrome) ==
  /\ IF After(head) = tail
     THEN overflow' = TRUE /\ UNCHANGED << head, q >>
     ELSE /\ q' = [ q EXCEPT ![head] =
                      [ error |-> num,
                        syndrome |-> IF syndrome # None THEN syndrome ELSE @.syndrome ] ]
          /\ head' = After(head)
          /\ UNCHANGED overflow
  /\ UNCHANGED << tail, got, cleared >>

(* scpi_error_get()                                                        *)
Answer ==
  [ error |-> IF head # tail THEN q[tail].error
              ELSE IF overflow THEN Overflow ELSE NoError,
    syndrome |-> q[tail].syndrome ]

(* A seeded fault: the text stays in the slot.                             *)
Get_KeepsText ==
  /\ got' = Answer
  /\ tail' = IF head # tail THEN After(tail) ELSE tail
  /\ overflow' = (overflow /\ head # tail)
  /\ UNCHANGED << head, q, cleared >>

(* A seeded fault: any read clears the overflow.                           *)
Get_ClearsOverflow ==
  /\ got' = Answer
  /\ q' = [ q EXCEPT ![tail].syndrome = None ]
  /\ tail' = IF head # tail THEN After(tail) ELSE tail
  /\ overflow' = FALSE
  /\ UNCHANGED << head, cleared >>

Get ==
  /\ got' = Answer
  /\ q' = [ q EXCEPT ![tail].syndrome = None ]
  /\ tail' = IF head # tail THEN After(tail) ELSE tail
  /\ overflow' = (overflow /\ head # tail)
  /\ UNCHANGED << head, cleared >>

(* A seeded fault: only the head is reset.                                 *)
Reset_HeadOnly ==
  /\ head' = 0 /\ cleared' = TRUE
  /\ UNCHANGED << tail, overflow, q, got >>

(* scpi_error_reset(), from *CLS                                           *)
Reset ==
  /\ head' = 0 /\ tail' = 0 /\ cleared' = TRUE
  /\ UNCHANGED << overflow, q, got >>

(* The number of used slots, as scpi_error_count() computes it.            *)
Used == IF head >= tail THEN head - tail ELSE head - tail + Size

Next ==
  \/ \E num \in Error, syndrome \in Syndrome \cup {None} : Report(num, syndrome)
  \/ Get
  \/ Reset

Spec == Init /\ [][Next]_qvars

----------------------------------------------------------------------------
TypeOK ==
  /\ head \in Slot /\ tail \in Slot
  /\ overflow \in BOOLEAN
  /\ q \in [ Slot -> Item ]
  /\ got \in [ error : Error \cup {NoError, Overflow},
               syndrome : Syndrome \cup {None} ]
  /\ cleared \in BOOLEAN

(* The slots between tail and head, in order: what is in the queue.        *)
At(i) == IF tail + i - 1 < Size THEN tail + i - 1 ELSE tail + i - 1 - Size
Log == [ i \in 1..Used |-> q[At(i)] ]

(* Without *CLS, a slot that is not in the queue holds no text: the next   *)
(* error put there without one, or the "No error" answered from there,     *)
(* would show it (scpi_error, scpi_error_get).                             *)
FreeSlotsAreClean ==
  ~cleared => \A s \in Slot : (\A i \in 1..Used : s # At(i)) => q[s].syndrome = None

(* What is queued was reported: no slot is handed out that no error was     *)
(* put into, whatever the ring has been through (all of scpi_error.c).      *)
QueuedAreErrors == \A i \in 1..Used : q[At(i)].error \in Error

(* The ring does what the log of errors promises (scpi_error,              *)
(* scpi_error_get and scpi_error_reset).                                   *)
ErrorLog == INSTANCE ErrorLog WITH
              Capacity <- Size - 1, log <- Log, lost <- overflow

ImplementsLog == ErrorLog!Spec
=============================================================================
