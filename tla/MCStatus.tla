------------------------------ MODULE MCStatus ------------------------------
(***************************************************************************)
(* The status registers with the numbers at the bounds of their ranges.    *)
(***************************************************************************)
EXTENDS StatusRegisters

SomeValues ==
  [ e \in Enable |-> IF e \in Served THEN { -1, 0, 37, 256 } ELSE { -1, 256, 65536 } ]
=============================================================================
