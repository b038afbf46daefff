---------------------------- MODULE AnswerStream ----------------------------
(***************************************************************************)
(* What the server promises a client: the answers to its queries, each     *)
(* once, in the order of the queries, and all of them in the end.          *)
(***************************************************************************)
EXTENDS Naturals, Sequences

VARIABLES
  asked,       \* the answers the client's lines call for, in order
  received     \* the answers that were written to the client

streamVars == << asked, received >>

Init == asked = << >> /\ received = << >>

(* A line is sent: the answers it calls for are owed after those before.   *)
Ask ==
  /\ Len(asked') > Len(asked)
  /\ SubSeq(asked', 1, Len(asked)) = asked
  /\ UNCHANGED received

(* Some of the answers that are owed are written.                          *)
Deliver ==
  /\ \E n \in Len(received) + 1 .. Len(asked) : received' = SubSeq(asked, 1, n)
  /\ UNCHANGED asked

Safe == Init /\ [][Ask \/ Deliver]_streamVars

Spec == Safe /\ WF_streamVars(Deliver)
=============================================================================
