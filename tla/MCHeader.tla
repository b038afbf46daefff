------------------------------ MODULE MCHeader ------------------------------
(***************************************************************************)
(* The header path over the whole grammar.                                 *)
(***************************************************************************)
EXTENDS HeaderPath, Grammar
=============================================================================
