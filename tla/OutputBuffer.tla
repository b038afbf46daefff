---------------------------- MODULE OutputBuffer ----------------------------
(***************************************************************************)
(* The buffer of the answers (scpi_output.c), as operators on its record:  *)
(* the text, of the length output->len, the flag that a ';' is due, the    *)
(* number of elements since the last ';', and the overflow flag.           *)
(***************************************************************************)
EXTENDS Integers, Sequences

CONSTANTS
  OutSize,      \* OUTPUT_SIZE
  NL, Nul       \* the characters newline and 0

ASSUME OutSizeAssumption == OutSize \in Nat /\ OutSize > 2

ASSUME CharacterAssumption ==
  /\ Nul \notin { ";", "," } /\ NL \notin { ";", "," }
  /\ NL # Nul

(* scpi_output_clear()                                                     *)
Cleared == [ text |-> << >>, needSep |-> FALSE, numElem |-> 0, overflow |-> FALSE ]

(* A seeded fault: no room is kept for the final 0.                        *)
Current_Whole(o) == OutSize - Len(o.text)

(* What vsnprintf() is told it may use.                                    *)
Current(o) == OutSize - Len(o.text) - 1

(* scpi_output_append_char()                                               *)
AppendChar(o, c) ==
  IF Current(o) > 1 THEN [ o EXCEPT !.text = Append(@, c) ]
  ELSE [ o EXCEPT !.overflow = TRUE ]

(* A seeded fault: elements are counted over the whole line.               *)
Separated_KeepsCount(o) ==
  IF o.needSep THEN [ AppendChar(o, ";") EXCEPT !.needSep = FALSE ] ELSE o

(* The separator that is due, and the ',' in front of a further element.   *)
Separated(o) ==
  IF o.needSep THEN [ AppendChar(o, ";") EXCEPT !.needSep = FALSE, !.numElem = 0 ] ELSE o

Before(o, s) ==
  LET o1 == Separated(o)
  IN  IF o1.numElem > 0 /\ s # << NL >> THEN AppendChar(o1, ",") ELSE o1

Fits(o, s) == Len(s) <= Current(Before(o, s))

(* vsnprintf() ends what it writes with a 0: an answer of just the size    *)
(* that is left loses its last character.                                  *)
Put(o, s) ==
  LET n == Current(o)
  IN  IF Len(s) > n THEN [ o EXCEPT !.overflow = TRUE ]
      ELSE IF Len(s) = n THEN [ o EXCEPT !.text = @ \o [ s EXCEPT ![n] = Nul ] ]
      ELSE [ o EXCEPT !.text = @ \o s ]

(* scpi_output_printf(), of an answer that is not empty                    *)
Printf(o, s) == [ Put(Before(o, s), s) EXCEPT !.numElem = @ + 1 ]

(* scpi_output_cmd_sep(), scpi_output_reset()                              *)
CmdSep(o)   == [ o EXCEPT !.needSep = TRUE ]
ResetLen(o) == [ o EXCEPT !.text = << >> ]

(* scpi_output_flush(): what is written, if anything is in the buffer, and *)
(* what is left; the assertion is that the newline fits.                   *)
FlushFails(o) == o.text # << >> /\ ~Fits(o, << NL >>)
Written(o)    == IF o.text = << >> THEN << >> ELSE Printf(o, << NL >>).text
Flushed(o)    == IF o.text = << >> THEN o ELSE ResetLen(Printf(o, << NL >>))
=============================================================================
