------------------------------ MODULE MCStream ------------------------------
(***************************************************************************)
(* Lines of queries and commands, with answers of one or two elements.     *)
(***************************************************************************)
EXTENDS ClientStream

AnswerElements ==
  [ c \in { "q", "l", "p", "m" } |->
      CASE c = "q" -> << << "1" >> >>
        [] c = "l" -> << << "2", "2" >> >>
        [] c = "p" -> << << "3" >>, << "4" >> >>
        [] c = "m" -> << << "5" >> >> ]

Chars == { ";", "q", "l", "p", "m", "n", "c", "x" }

SomeLines ==
  { << >>, << "q", ";", "l" >>, << "p", ";", "q" >>, << "m" >>, << "n", ";", "q" >>,
    << "q", ";", "c" >>, << "l", ";", "p" >>, << "q", ";", "x" >> }
=============================================================================
