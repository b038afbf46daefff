----------------------------- MODULE HeaderPath -----------------------------
(***************************************************************************)
(* The header path of a program line (parser.c).  A relative header, one   *)
(* behind ';' without a leading ':', is completed by the loop that feeds   *)
(* the parser: it gives the parser the words of the path kept from the     *)
(* commands before, then the word it has read.                             *)
(*                                                                         *)
(* A token is a word, ":", ";" or End.  The grammar is a set of headers    *)
(* (sequences of words) and the set of those that some rule adds to the    *)
(* path; what follows a header (arguments) is left out.                    *)
(***************************************************************************)
EXTENDS Integers, Sequences

CONSTANTS
  Header,       \* the headers of the commands
  PrefixRule,   \* the headers whose last word a rule of the grammar adds
  Common,       \* the headers of IEEE 488.2, which have no path
  MaxDepth,     \* MAX_CMD_DEPTH / 2
  End, None     \* the end of the line; the value of a word that was not scanned

Word == UNION { { h[i] : i \in DOMAIN h } : h \in Header }

ASSUME HeaderAssumption ==
  /\ Header \subseteq Seq(Word) \ { << >> }
  /\ PrefixRule \subseteq Seq(Word)
  /\ Common \subseteq Header /\ \A h \in Common : Len(h) = 1
  /\ MaxDepth \in Nat
  /\ \A h \in PrefixRule : Len(h) <= MaxDepth
  /\ ":" \notin Word /\ ";" \notin Word
  /\ End \notin Word \cup { ":", ";" }
  /\ None \notin Word \cup { ":", ";", End }

VARIABLES
  pc,        \* "line" and "command": nothing and ';' was read; "parse"; "failed"
  failed,    \* the function whose assertion failed, or ""
  rest,      \* the tokens the scanner has still to give for this command
  state,     \* LEX or PREFIX, of parser_loop()
  suffix,    \* the word that waits for the replay to end
  parser,    \* info->parser: separator, replay.active, replay.idx, prefix
  seen,      \* the words of this command that the parser was given
  expect,    \* what it expects: "line", "start", "word" or "colon"
  ran,       \* the header of the command that was just executed
  path,      \* history: the path the standard has for the next command
  wanted,    \* history: the header that the current command stands for
  kept       \* history: the code is to know the path of the current command

history == << path, wanted, kept >>
vars == << pc, failed, rest, state, suffix, parser, seen, expect, ran, history >>

Reset == [ separator |-> FALSE, active |-> FALSE, idx |-> 0, prefix |-> << >> ]

Init ==
  /\ pc = "line" /\ failed = "" /\ rest = << >>
  /\ state = "LEX" /\ suffix = End /\ parser = Reset
  /\ seen = << >> /\ expect = "line" /\ ran = << >>
  /\ path = << >> /\ wanted = << >> /\ kept = FALSE

----------------------------------------------------------------------------
(* The functions of struct parser.                                         *)

ReplayActive(p) == [ p EXCEPT !.active = p.active \/ p.separator ]

(* A seeded fault: the position is kept.                                   *)
ReplayReset_KeepsIdx(p) == [ p EXCEPT !.active = FALSE, !.separator = FALSE ]

ReplayReset(p) == [ p EXCEPT !.active = FALSE, !.idx = 0, !.separator = FALSE ]

(* parser_replay_prefix(): its token, if there is one, and what is left.   *)
ReplayHasToken(p) == p.idx < Len(p.prefix) /\ p.prefix[p.idx + 1] # None
ReplayToken(p) == p.prefix[p.idx + 1]
ReplayNext(p) ==
  IF p.idx + 1 = Len(p.prefix) THEN ReplayReset(p) ELSE [ p EXCEPT !.idx = @ + 1 ]

(* parser_separator(): a ':' that leads drops the path.                    *)
Separator(p, value) ==
  IF value THEN [ p EXCEPT !.separator = TRUE ]
  ELSE [ p EXCEPT !.separator = FALSE, !.active = FALSE, !.prefix = << >> ]

(* A seeded fault: the room for the separators is forgotten.               *)
PrefixFull_WordsOnly(p) == Len(p.prefix) + 2 > MaxDepth

PrefixFull(p) == Len(p.prefix) + 2 > 2 * MaxDepth

(* A seeded fault: words are added while they are replayed.                *)
AddPrefix_Always(p, value) == [ p EXCEPT !.prefix = @ \o << value, ":" >> ]

(* parser_add_prefix()                                                     *)
AddPrefix(p, value) ==
  IF p.active THEN p ELSE [ p EXCEPT !.prefix = @ \o << value, ":" >> ]

----------------------------------------------------------------------------
(* What the standard makes of a header: it is relative to the header before *)
(* without its last word; a common command has no path and keeps it.       *)
Front(h) == SubSeq(h, 1, Len(h) - 1)

(* The headers whose path the grammar keeps entirely, and nothing else.    *)
Plain(h) ==
  /\ Len(h) > 1 /\ h \notin PrefixRule
  /\ \A n \in 1..Len(h) - 1 : SubSeq(h, 1, n) \in PrefixRule

(* The client writes a command behind the path p.  What it stands for is   *)
(* of no interest once the code has lost the path.                         *)
Written(absolute, words, p) ==
  LET known  == \/ absolute
                \/ kept /\ Plain(wanted) /\ Len(words) = 1 /\ words \notin Common
      header == IF ~known THEN << >> ELSE IF absolute THEN words ELSE p \o words
  IN  /\ kept' = known /\ wanted' = header
      /\ path' = IF words \in Common THEN p ELSE Front(header)

Tokens(words) ==
  [ i \in 1..2 * Len(words) - 1 |-> IF i % 2 = 1 THEN words[(i + 1) \div 2] ELSE ":" ]

(* A line begins: parser_send_line() and the start of parser_loop().       *)
BeginLine(colon, words, last) ==
  /\ pc = "line" /\ pc' = "parse"
  /\ rest' = (IF colon THEN << ":" >> ELSE << >>) \o Tokens(words) \o << last >>
  /\ parser' = ReplayReset(Separator(parser, FALSE))
  /\ state' = "LEX" /\ suffix' = End
  /\ seen' = << >> /\ expect' = "line" /\ ran' = << >>
  /\ Written(TRUE, words, << >>)
  /\ UNCHANGED failed

(* A line with an empty list of commands before its first ';', or nothing. *)
BeginEmpty(last) ==
  /\ pc = "line" /\ pc' = "parse"
  /\ rest' = << last >>
  /\ parser' = ReplayReset(Separator(parser, FALSE))
  /\ state' = "LEX" /\ suffix' = End
  /\ seen' = << >> /\ expect' = "line" /\ ran' = << >>
  /\ path' = << >> /\ wanted' = << >> /\ kept' = FALSE
  /\ UNCHANGED failed

(* The scanner goes on behind a ';'.                                       *)
NextCommand(colon, words, last) ==
  /\ pc = "command" /\ pc' = "parse"
  /\ rest' = (IF colon THEN << ":" >> ELSE << >>) \o Tokens(words) \o << last >>
  /\ Written(colon, words, path)
  /\ ran' = << >>
  /\ UNCHANGED << failed, state, suffix, parser, seen, expect >>

----------------------------------------------------------------------------
(* yypush_parse(): the parser takes a token c with the value v and calls   *)
(* what the rule it completes calls; p is struct parser at the call.       *)

Begins(words) == \E h \in Header : Len(words) <= Len(h) /\ SubSeq(h, 1, Len(words)) = words
Goes(words) == \E h \in Header : Len(words) < Len(h) /\ SubSeq(h, 1, Len(words)) = words

TakeWord(p, c, v) ==
  /\ c \in Word /\ expect # "colon" /\ Begins(Append(seen, c))
  /\ seen' = Append(seen, c) /\ expect' = "colon"
  /\ IF Append(seen, c) \notin PrefixRule \/ p.active \/ ~PrefixFull(p)
     THEN /\ parser' = IF Append(seen, c) \in PrefixRule THEN AddPrefix(p, v) ELSE p
          /\ UNCHANGED << pc, failed >>
     ELSE /\ pc' = "failed" /\ failed' = "parser_add_prefix_" /\ parser' = p
  /\ UNCHANGED ran

TakeColon(p, c) ==
  /\ c = ":"
  /\ \/ expect \in { "line", "start" } /\ parser' = Separator(p, FALSE)
     \/ expect = "colon" /\ Goes(seen) /\ parser' = p
  /\ expect' = "word"
  /\ UNCHANGED << pc, failed, seen, ran >>

(* The command is complete: its handler was called.                        *)
Complete == expect = "colon" /\ seen \in Header
NoCommand == expect = "line"

TakeEnd(p, c) ==
  /\ c \in { ";", End }
  /\ Complete \/ NoCommand
  /\ ran' = IF Complete THEN seen ELSE ran
  /\ seen' = << >> /\ expect' = "start"
  /\ parser' = IF c = ";" THEN Separator(p, TRUE) ELSE p
  /\ pc' = IF c = ";" THEN "command" ELSE "line"
  /\ UNCHANGED failed

(* A syntax error: the rest of the line is dropped.                        *)
TakeError(p, c) ==
  /\ ~(c \in Word /\ expect # "colon" /\ Begins(Append(seen, c)))
  /\ ~(c = ":" /\ (expect \in { "line", "start" } \/ (expect = "colon" /\ Goes(seen))))
  /\ ~(c \in { ";", End } /\ (Complete \/ NoCommand))
  /\ pc' = "line" /\ parser' = p
  /\ seen' = << >> /\ expect' = "start"
  /\ UNCHANGED << failed, ran >>

Push(p, c, v) ==
  TakeWord(p, c, v) \/ TakeColon(p, c) \/ TakeEnd(p, c) \/ TakeError(p, c)

----------------------------------------------------------------------------
(* parser_loop(), one iteration a step.                                    *)

(* A token of the scanner goes to the parser.                              *)
Lex ==
  LET p == ReplayActive(parser)
  IN  /\ pc = "parse" /\ state = "LEX" /\ rest # << >>
      /\ ~p.active \/ Head(rest) = ":"
      /\ Push(p, Head(rest), Head(rest))
      /\ rest' = Tail(rest)
      /\ UNCHANGED << state, suffix, history >>

(* A relative header: its first word has to wait for the path.  The word's *)
(* value goes with the first token of the path.                            *)
LexSuffix ==
  LET p == ReplayActive(parser)
  IN  /\ pc = "parse" /\ state = "LEX" /\ rest # << >>
      /\ p.active /\ Head(rest) # ":" /\ ReplayHasToken(p)
      /\ suffix' = Head(rest) /\ rest' = Tail(rest) /\ state' = "PREFIX"
      /\ Push(ReplayNext(p), ReplayToken(p), Head(rest))
      /\ UNCHANGED << history >>

Replay ==
  LET p == ReplayActive(parser)
  IN  /\ pc = "parse" /\ state = "PREFIX" /\ p.active /\ ReplayHasToken(p)
      /\ Push(ReplayNext(p), ReplayToken(p), None)
      /\ UNCHANGED << rest, state, suffix, history >>

(* The path is complete: the word that waited is given, without its value. *)
ReplayEnds ==
  LET p == ReplayActive(parser)
  IN  /\ pc = "parse" /\ state = "PREFIX" /\ ~p.active
      /\ Push(p, suffix, None)
      /\ state' = "LEX" /\ suffix' = End
      /\ UNCHANGED << rest, history >>

(* The assertion of parser_replay_prefix().                                *)
ReplayFails ==
  LET p == ReplayActive(parser)
  IN  /\ pc = "parse" /\ p.active /\ ~ReplayHasToken(p)
      /\ state = "PREFIX" \/ (rest # << >> /\ Head(rest) # ":")
      /\ pc' = "failed" /\ failed' = "parser_replay_prefix"
      /\ UNCHANGED << rest, state, suffix, parser, seen, expect, ran, history >>

(* The client writes headers of the grammar, and ends of them as relative  *)
(* headers, whether they make sense behind the path or not.                *)
Tails == UNION { { SubSeq(h, n, Len(h)) : n \in DOMAIN h } : h \in Header }

Client ==
  \E last \in { ";", End } :
    \/ BeginEmpty(last)
    \/ \E colon \in BOOLEAN, words \in Header : BeginLine(colon, words, last)
    \/ \E words \in Header : NextCommand(TRUE, words, last)
    \/ \E words \in Tails : NextCommand(FALSE, words, last)

Next == Client \/ Lex \/ LexSuffix \/ Replay \/ ReplayEnds \/ ReplayFails

Spec == Init /\ [][Next]_vars

----------------------------------------------------------------------------
(* A command whose path the code is to know, absolute or relative by one   *)
(* word to a header all of whose inner words the grammar keeps, runs under *)
(* the header it stands for, if there is such a command: it is not taken   *)
(* for another, not refused, and no assertion fails (parser_loop with the  *)
(* prefix rules of scpi.y).                                                *)
HeaderAsWritten ==
  [][pc = "parse" /\ pc' # "parse" /\ kept /\ wanted \in Header => ran' = wanted]_vars

(* The array of prefix tokens is never full: the assertion of              *)
(* parser_add_prefix_().                                                   *)
PrefixFits == failed # "parser_add_prefix_"

(* A replay ends with the header it completes.  One left over, or a word   *)
(* of the path too many, would go in front of the next command, which is   *)
(* absolute (parser_replay_reset, parser_separator).                       *)
ReplayIsOver ==
  /\ pc = "command" => ~parser.active /\ parser.idx = 0
  /\ pc = "command" /\ kept /\ Plain(wanted) =>
       /\ Len(parser.prefix) = 2 * Len(Front(wanted))
       /\ \A i \in 1..Len(Front(wanted)) : parser.prefix[2 * i - 1] = wanted[i]
=============================================================================
