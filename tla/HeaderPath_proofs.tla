------------------------- MODULE HeaderPath_proofs --------------------------
(***************************************************************************)
(* The path of the headers never outgrows its array, for every grammar     *)
(* whose rules keep at most MaxDepth words: what is added belongs to the   *)
(* words that were seen, and what is replayed is not added again.          *)
(***************************************************************************)
EXTENDS HeaderPath, SequenceTheorems, TLAPS

Token == Word \cup { ":", None }
Parser == [ separator : BOOLEAN, active : BOOLEAN, idx : Nat, prefix : Seq(Token) ]

LEMMA TokensDiffer ==
  /\ ":" \notin Word /\ ";" \notin Word /\ End \notin Word \cup { ":", ";" }
  /\ None \notin Word \cup { ":", ";", End }
BY HeaderAssumption

(* Words and colons in turn: the array as the rules fill it.               *)
Alternates(s) ==
  /\ \E n \in Nat : Len(s) = 2 * n
  /\ \A n \in Nat : /\ 2 * n + 1 \in 1..Len(s) => s[2 * n + 1] # ":"
                    /\ 2 * n + 2 \in 1..Len(s) => s[2 * n + 2] = ":"

(* Nothing is being replayed: the path is that of the words seen so far.   *)
Fresh(p) == ~p.active /\ ~p.separator /\ p.idx = 0 /\ Len(p.prefix) <= 2 * Len(seen)

(* Behind ';': the next word of the scanner starts a replay.               *)
Waiting(p) == ~p.active /\ p.separator /\ p.idx = 0 /\ seen = << >> /\ expect = "start"

(* The parser has been given the first words of the path.                  *)
Replaying(p) ==
  /\ p.active
  /\ p.idx < Len(p.prefix)
  /\ \/ p.idx = 2 * Len(seen) - 1 /\ expect = "colon" /\ Len(seen) > 0
     \/ p.idx = 2 * Len(seen) /\ expect = "word"

PathInv ==
  /\ parser \in Parser /\ seen \in Seq(Word)
  /\ state \in { "LEX", "PREFIX" } /\ pc \in { "line", "command", "parse", "failed" }
  /\ Alternates(parser.prefix)
  /\ pc = "command" => state = "LEX" /\ Waiting(parser)
  /\ pc = "parse" /\ state = "LEX" => Fresh(parser) \/ Waiting(parser)
  /\ pc = "parse" /\ state = "PREFIX" => Fresh(parser) \/ Replaying(parser)
  /\ PrefixFits

----------------------------------------------------------------------------
(* The functions of struct parser.                                         *)

LEMMA EmptyAlternates == Alternates(<< >>)
BY DEF Alternates

LEMMA Concat ==
  ASSUME NEW s \in Seq(Token), NEW v \in Word \cup { None }
  PROVE  /\ s \o << v, ":" >> \in Seq(Token)
         /\ Len(s \o << v, ":" >>) = Len(s) + 2
         /\ \A i \in 1..Len(s) : (s \o << v, ":" >>)[i] = s[i]
         /\ (s \o << v, ":" >>)[Len(s) + 1] = v
         /\ (s \o << v, ":" >>)[Len(s) + 2] = ":"
<1> DEFINE t == << v, ":" >>
<1>1. t \in Seq(Token) /\ Len(t) = 2 /\ t[1] = v /\ t[2] = ":"
  BY DEF Token
<1> HIDE DEF t
<1>2. /\ s \o t \in Seq(Token) /\ Len(s \o t) = Len(s) + Len(t)
      /\ \A i \in 1..Len(s) + Len(t) : (s \o t)[i] = IF i <= Len(s) THEN s[i] ELSE t[i - Len(s)]
  BY <1>1, ConcatProperties, Zenon
<1>3. \A i \in 1..Len(s) + 2 : (s \o t)[i] = IF i <= Len(s) THEN s[i] ELSE t[i - Len(s)]
  BY <1>1, <1>2
<1>4. Len(s) \in Nat
  OBVIOUS
<1>5. (s \o t)[Len(s) + 1] = v /\ (s \o t)[Len(s) + 2] = ":"
  <2> DEFINE n == Len(s)
  <2>1. n \in Nat /\ n + 1 \in 1..n + 2 /\ n + 2 \in 1..n + 2
        /\ ~(n + 1 <= n) /\ ~(n + 2 <= n) /\ (n + 1) - n = 1 /\ (n + 2) - n = 2
    BY <1>4
  <2>2. (s \o t)[n + 1] = t[(n + 1) - n] /\ (s \o t)[n + 2] = t[(n + 2) - n]
    BY <1>3, <2>1
  <2> QED BY <1>1, <2>1, <2>2
<1>6. \A i \in 1..Len(s) : (s \o t)[i] = s[i]
  BY <1>3, <1>4
<1> QED BY <1>1, <1>2, <1>5, <1>6 DEF t

LEMMA Added ==
  ASSUME NEW p \in Parser, NEW v \in Word \cup { None }, Alternates(p.prefix)
  PROVE  /\ AddPrefix(p, v) \in Parser /\ Alternates(AddPrefix(p, v).prefix)
         /\ AddPrefix(p, v).active = p.active /\ AddPrefix(p, v).separator = p.separator
         /\ AddPrefix(p, v).idx = p.idx
         /\ p.active => AddPrefix(p, v) = p
         /\ ~p.active => Len(AddPrefix(p, v).prefix) = Len(p.prefix) + 2
<1>1. CASE p.active
  BY <1>1 DEF AddPrefix
<1>2. CASE ~p.active
  <2> DEFINE s == p.prefix  t == s \o << v, ":" >>
  <2>1. s \in Seq(Token)
    BY DEF Parser
  <2>2. t \in Seq(Token) /\ Len(t) = Len(s) + 2
        /\ (\A i \in 1..Len(s) : t[i] = s[i]) /\ t[Len(s) + 1] = v /\ t[Len(s) + 2] = ":"
    BY <2>1, Concat
  <2>3. AddPrefix(p, v) = [ p EXCEPT !.prefix = t ]
    BY <1>2 DEF AddPrefix
  <2>4. v # ":"
    BY TokensDiffer
  <2> HIDE DEF t
  <2>5. Alternates(t)
    <3>1. PICK n \in Nat : Len(s) = 2 * n
      BY DEF Alternates
    <3>2. Len(t) = 2 * (n + 1) /\ n + 1 \in Nat
      BY <2>2, <3>1
    <3>3. ASSUME NEW k \in Nat PROVE /\ 2 * k + 1 \in 1..Len(t) => t[2 * k + 1] # ":"
                                     /\ 2 * k + 2 \in 1..Len(t) => t[2 * k + 2] = ":"
      <4>1. CASE k < n
        <5>1. 2 * k + 1 \in 1..Len(s) /\ 2 * k + 2 \in 1..Len(s)
          BY <3>1, <4>1
        <5>2. s[2 * k + 1] # ":" /\ s[2 * k + 2] = ":"
          BY <5>1 DEF Alternates
        <5> QED BY <2>2, <5>1, <5>2
      <4>2. CASE k = n
        BY <2>2, <2>4, <3>1, <4>2
      <4>3. CASE k > n
        BY <3>2, <4>3
      <4> QED BY <4>1, <4>2, <4>3
    <3> QED BY <3>2, <3>3 DEF Alternates
  <2> QED BY <1>2, <2>2, <2>3, <2>5 DEF Parser
<1> QED BY <1>1, <1>2

LEMMA Separated ==
  ASSUME NEW p \in Parser, Alternates(p.prefix)
  PROVE  /\ Separator(p, TRUE) = [ p EXCEPT !.separator = TRUE ]
         /\ Separator(p, TRUE) \in Parser /\ Separator(p, FALSE) \in Parser
         /\ Alternates(Separator(p, TRUE).prefix) /\ Alternates(Separator(p, FALSE).prefix)
         /\ ~Separator(p, FALSE).active /\ ~Separator(p, FALSE).separator
         /\ Separator(p, FALSE).prefix = << >> /\ Separator(p, FALSE).idx = p.idx
<1>1. Separator(p, TRUE) = [ p EXCEPT !.separator = TRUE ]
  BY DEF Separator
<1>2. Separator(p, FALSE)
        = [ p EXCEPT !.separator = FALSE, !.active = FALSE, !.prefix = << >> ]
  BY DEF Separator
<1>3. [ p EXCEPT !.separator = TRUE ] \in Parser
      /\ [ p EXCEPT !.separator = TRUE ].prefix = p.prefix
  BY DEF Parser
<1>4. << >> \in Seq(Token)
  OBVIOUS
<1> DEFINE r == [ p EXCEPT !.separator = FALSE, !.active = FALSE, !.prefix = << >> ]
<1>5. r \in Parser /\ ~r.active /\ ~r.separator /\ r.prefix = << >> /\ r.idx = p.idx
  BY <1>4 DEF Parser
<1> QED BY <1>1, <1>2, <1>3, <1>5, EmptyAlternates


LEMMA Activated ==
  ASSUME NEW p \in Parser
  PROVE  /\ ReplayActive(p) \in Parser
         /\ ReplayActive(p).active <=> p.active \/ p.separator
         /\ ReplayActive(p).separator = p.separator
         /\ ReplayActive(p).idx = p.idx /\ ReplayActive(p).prefix = p.prefix
BY DEF ReplayActive, Parser

----------------------------------------------------------------------------
(* What the parser does with a token, seen from struct parser.             *)

LEMMA WordTaken ==
  ASSUME NEW p \in Parser, Alternates(p.prefix), seen \in Seq(Word), PrefixFits,
         NEW c, NEW v, p.active \/ v \in Word \cup { None }, TakeWord(p, c, v),
         p.active \/ Len(p.prefix) <= 2 * Len(seen)
  PROVE  /\ parser' \in Parser /\ Alternates(parser'.prefix)
         /\ seen' \in Seq(Word) /\ Len(seen') = Len(seen) + 1
         /\ expect' = "colon" /\ pc' = pc /\ PrefixFits'
         /\ parser'.active = p.active /\ parser'.separator = p.separator
         /\ parser'.idx = p.idx
         /\ p.active => parser' = p
         /\ ~p.active => Len(parser'.prefix) <= 2 * Len(seen')
<1> DEFINE h == Append(seen, c)
<1>1. c \in Word /\ seen' = h /\ expect' = "colon"
  BY DEF TakeWord
<1>2. h \in Seq(Word) /\ Len(h) = Len(seen) + 1 /\ Len(seen) \in Nat
  BY <1>1
<1>3. Len(p.prefix) \in Nat
  BY DEF Parser
<1>4. ASSUME h \in PrefixRule, ~p.active PROVE ~PrefixFull(p)
  <2>1. Len(h) <= MaxDepth /\ MaxDepth \in Nat
    BY <1>4, HeaderAssumption
  <2>2. Len(p.prefix) + 2 <= 2 * Len(h)
    BY <1>2, <1>3, <1>4
  <2> QED BY <1>2, <1>3, <2>1, <2>2 DEF PrefixFull
<1>5. /\ parser' = IF h \in PrefixRule THEN AddPrefix(p, v) ELSE p
      /\ pc' = pc /\ failed' = failed
  BY <1>4 DEF TakeWord
<1>6. PrefixFits'
  BY <1>5 DEF PrefixFits
<1>7. CASE p.active
  <2>1. AddPrefix(p, v) = p
    BY <1>7 DEF AddPrefix
  <2> QED BY <1>1, <1>2, <1>5, <1>6, <1>7, <2>1
<1>8. CASE ~p.active
  <2>1. /\ AddPrefix(p, v) \in Parser /\ Alternates(AddPrefix(p, v).prefix)
        /\ AddPrefix(p, v).active = p.active /\ AddPrefix(p, v).separator = p.separator
        /\ AddPrefix(p, v).idx = p.idx
        /\ Len(AddPrefix(p, v).prefix) = Len(p.prefix) + 2
    BY <1>8, Added
  <2>2. Len(AddPrefix(p, v).prefix) <= 2 * Len(h) /\ Len(p.prefix) <= 2 * Len(h)
    BY <1>2, <1>3, <1>8, <2>1
  <2> QED BY <1>1, <1>2, <1>5, <1>6, <1>8, <2>1, <2>2
<1> QED BY <1>7, <1>8

(* A colon goes on with the header, or leads it and drops the path.        *)
LEMMA ColonTaken ==
  ASSUME NEW p \in Parser, Alternates(p.prefix), seen \in Seq(Word), PrefixFits,
         NEW c, TakeColon(p, c)
  PROVE  /\ parser' \in Parser /\ Alternates(parser'.prefix)
         /\ seen' = seen /\ expect' = "word" /\ pc' = pc /\ PrefixFits'
         /\ parser'.idx = p.idx
         /\ expect = "colon" => parser' = p
         /\ expect # "colon" => /\ ~parser'.active /\ ~parser'.separator
                                /\ parser'.prefix = << >>
<1>1. CASE expect \in { "line", "start" } /\ parser' = Separator(p, FALSE)
  BY <1>1, Separated DEF TakeColon, PrefixFits
<1>2. CASE expect = "colon" /\ parser' = p
  BY <1>2 DEF TakeColon, PrefixFits
<1> QED BY <1>1, <1>2 DEF TakeColon

(* The end of a command leaves a separator or a line to begin.             *)
LEMMA EndTaken ==
  ASSUME NEW p \in Parser, Alternates(p.prefix), ~p.active, ~p.separator, p.idx = 0,
         PrefixFits, NEW c, TakeEnd(p, c), state' = "LEX"
  PROVE  PathInv'
<1>0. seen' = << >> /\ expect' = "start" /\ failed' = failed
  BY DEF TakeEnd
<1>1. seen' = << >> /\ expect' = "start" /\ PrefixFits' /\ seen' \in Seq(Word)
  BY <1>0 DEF PrefixFits
<1>2. CASE c = ";"
  <2>0. parser' = Separator(p, TRUE) /\ pc' = "command"
    BY <1>2 DEF TakeEnd
  <2>1. parser' = [ p EXCEPT !.separator = TRUE ]
    BY <2>0, Separated
  <2>2. parser' \in Parser /\ Alternates(parser'.prefix)
    BY <2>0, Separated
  <2>3. Waiting(parser)'
    BY <1>1, <2>1 DEF Waiting, Parser
  <2> QED BY <1>1, <2>0, <2>2, <2>3 DEF PathInv
<1>3. CASE c # ";"
  <2>1. parser' = p /\ pc' = "line"
    BY <1>3 DEF TakeEnd
  <2> QED BY <1>1, <2>1 DEF PathInv
<1> QED BY <1>2, <1>3

LEMMA ErrorTaken ==
  ASSUME NEW p \in Parser, Alternates(p.prefix), PrefixFits,
         NEW c, TakeError(p, c), state' \in { "LEX", "PREFIX" }
  PROVE  PathInv'
<1>1. pc' = "line" /\ parser' = p /\ seen' = << >> /\ failed' = failed
  BY DEF TakeError
<1> QED BY <1>1 DEF PathInv, PrefixFits

----------------------------------------------------------------------------
(* The loop.                                                               *)

LEMMA LexStep == ASSUME PathInv, Lex PROVE PathInv'
<1> DEFINE p == ReplayActive(parser)  c == Head(rest)
<1>0. Push(p, c, c)
  BY DEF Lex
<1>1. pc = "parse" /\ state = "LEX" /\ state' = "LEX" /\ (~p.active \/ c = ":")
  BY DEF Lex
<1>2. /\ p \in Parser /\ (p.active <=> parser.active \/ parser.separator)
      /\ p.separator = parser.separator /\ p.idx = parser.idx /\ p.prefix = parser.prefix
  BY Activated DEF PathInv
<1>3. Alternates(p.prefix) /\ PrefixFits /\ seen \in Seq(Word)
  BY <1>2 DEF PathInv
<1>4. Fresh(parser) \/ Waiting(parser)
  BY <1>1 DEF PathInv
<1> HIDE DEF p, c
<1>5. CASE TakeWord(p, c, c)
  <2>1. c \in Word /\ ~p.active
    BY <1>1, <1>5, TokensDiffer DEF TakeWord
  <2>2. Fresh(parser)
    BY <1>2, <1>4, <2>1 DEF Waiting
  <2>3. /\ parser' \in Parser /\ Alternates(parser'.prefix)
        /\ seen' \in Seq(Word) /\ pc' = pc /\ PrefixFits'
        /\ parser'.active = p.active /\ parser'.separator = p.separator
        /\ parser'.idx = p.idx /\ Len(parser'.prefix) <= 2 * Len(seen')
    BY <1>2, <1>3, <1>5, <2>1, <2>2, WordTaken DEF Fresh
  <2>4. Fresh(parser)'
    BY <1>2, <2>1, <2>2, <2>3 DEF Fresh
  <2> QED BY <1>1, <2>3, <2>4 DEF PathInv
<1>6. CASE TakeColon(p, c)
  <2>1. /\ parser' \in Parser /\ Alternates(parser'.prefix)
        /\ seen' = seen /\ pc' = pc /\ PrefixFits' /\ parser'.idx = p.idx
        /\ expect = "colon" => parser' = p
        /\ expect # "colon" => /\ ~parser'.active /\ ~parser'.separator
                               /\ parser'.prefix = << >>
    BY <1>2, <1>3, <1>6, ColonTaken
  <2>2. Len(seen) \in Nat /\ parser.idx = 0
    BY <1>3, <1>4 DEF Fresh, Waiting
  <2>3. Fresh(parser)'
    <3>1. CASE expect # "colon"
      BY <1>2, <2>1, <2>2, <3>1 DEF Fresh
    <3>2. CASE expect = "colon"
      BY <1>2, <1>4, <2>1, <2>2, <3>2 DEF Fresh, Waiting
    <3> QED BY <3>1, <3>2
  <2> QED BY <1>1, <1>3, <2>1, <2>3 DEF PathInv
<1>7. CASE TakeEnd(p, c)
  <2>1. ~p.active
    BY <1>1, <1>7, TokensDiffer DEF TakeEnd
  <2>2. ~p.separator /\ p.idx = 0
    BY <1>2, <1>4, <2>1 DEF Fresh, Waiting
  <2> QED BY <1>1, <1>2, <1>3, <1>7, <2>1, <2>2, EndTaken
<1>8. CASE TakeError(p, c)
  BY <1>1, <1>2, <1>3, <1>8, ErrorTaken
<1> QED BY <1>0, <1>5, <1>6, <1>7, <1>8 DEF Push

(* The token of the path that is replayed, and where the replay is then.   *)
LEMMA ReplayMoves ==
  ASSUME NEW p \in Parser, Alternates(p.prefix), ReplayHasToken(p), p.active
  PROVE  /\ ReplayNext(p) \in Parser /\ ReplayNext(p).prefix = p.prefix
         /\ ReplayToken(p) \in Token
         /\ p.idx + 1 = Len(p.prefix) =>
              ~ReplayNext(p).active /\ ~ReplayNext(p).separator /\ ReplayNext(p).idx = 0
         /\ p.idx + 1 # Len(p.prefix) =>
              ReplayNext(p).active /\ ReplayNext(p).idx = p.idx + 1
              /\ p.idx + 1 < Len(p.prefix)
<1>1. p.idx \in Nat /\ p.prefix \in Seq(Token) /\ p.idx < Len(p.prefix)
      /\ Len(p.prefix) \in Nat
  BY DEF Parser, ReplayHasToken
<1>2. ReplayToken(p) \in Token
  BY <1>1 DEF ReplayToken
<1>3. CASE p.idx + 1 = Len(p.prefix)
  BY <1>1, <1>2, <1>3 DEF ReplayNext, ReplayReset, Parser
<1>4. CASE p.idx + 1 # Len(p.prefix)
  BY <1>1, <1>2, <1>4 DEF ReplayNext, Parser
<1> QED BY <1>3, <1>4

(* A step of the replay: the token is the next word of the path, or ':'.   *)
LEMMA Replayed ==
  ASSUME NEW p \in Parser, Alternates(p.prefix), ReplayHasToken(p), p.active,
         seen \in Seq(Word), PrefixFits, state' = "PREFIX", pc = "parse",
         \/ p.idx = 0 /\ seen = << >>
         \/ p.idx = 2 * Len(seen) - 1 /\ expect = "colon" /\ Len(seen) > 0
         \/ p.idx = 2 * Len(seen) /\ expect = "word",
         NEW v, Push(ReplayNext(p), ReplayToken(p), v)
  PROVE  PathInv'
<1> DEFINE r == ReplayNext(p)  c == ReplayToken(p)
<1>1. /\ r \in Parser /\ r.prefix = p.prefix /\ c \in Token
      /\ p.idx + 1 = Len(p.prefix) => ~r.active /\ ~r.separator /\ r.idx = 0
      /\ p.idx + 1 # Len(p.prefix) =>
           r.active /\ r.idx = p.idx + 1 /\ p.idx + 1 < Len(p.prefix)
  BY ReplayMoves
<1>2. Alternates(r.prefix)
  BY <1>1
<1>3. c = p.prefix[p.idx + 1] /\ p.idx \in Nat /\ p.idx < Len(p.prefix)
      /\ Len(p.prefix) \in Nat /\ Len(seen) \in Nat
  BY DEF ReplayToken, ReplayHasToken, Parser
<1>4. PICK n \in Nat : Len(p.prefix) = 2 * n
  BY DEF Alternates
<1>5. Push(r, c, v)
  OBVIOUS
<1> HIDE DEF r, c
<1>6. CASE TakeWord(r, c, v)
  <2>1. c # ":"
    BY <1>6, TokensDiffer DEF TakeWord
  <2>2. p.idx = 2 * Len(seen)
    <3>1. CASE p.idx = 0 /\ seen = << >>
      BY <3>1
    <3>2. ASSUME p.idx = 2 * Len(seen) - 1, Len(seen) > 0 PROVE FALSE
      <4>1. Len(seen) - 1 \in Nat /\ p.idx + 1 = 2 * (Len(seen) - 1) + 2
            /\ p.idx + 1 \in 1..Len(p.prefix)
        BY <1>3, <3>2
      <4>2. p.prefix[p.idx + 1] = ":"
        BY <4>1 DEF Alternates
      <4> QED BY <1>3, <2>1, <4>2
    <3> QED BY <3>1, <3>2
  <2>3. p.idx + 1 # Len(p.prefix)
    BY <1>3, <1>4, <2>2
  <2>4. r.active /\ r.idx = p.idx + 1 /\ p.idx + 1 < Len(p.prefix)
    BY <1>1, <2>3
  <2>5. /\ seen' \in Seq(Word) /\ Len(seen') = Len(seen) + 1
        /\ expect' = "colon" /\ pc' = pc /\ PrefixFits' /\ parser' = r
    BY <1>1, <1>2, <1>6, <2>4, WordTaken
  <2>6. Replaying(parser)'
    BY <1>1, <1>3, <2>2, <2>4, <2>5 DEF Replaying
  <2> QED BY <1>1, <1>2, <2>5, <2>6 DEF PathInv
<1>7. CASE TakeColon(r, c)
  <2>1. c = ":"
    BY <1>7 DEF TakeColon
  <2>2. p.idx = 2 * Len(seen) - 1 /\ expect = "colon" /\ Len(seen) > 0
    <3>1. ASSUME p.idx = 2 * Len(seen) PROVE FALSE
      <4>1. p.idx + 1 = 2 * Len(seen) + 1 /\ p.idx + 1 \in 1..Len(p.prefix)
        BY <1>3, <3>1
      <4>2. p.prefix[p.idx + 1] # ":"
        BY <1>3, <4>1 DEF Alternates
      <4> QED BY <1>3, <2>1, <4>2
    <3>2. p.idx = 0 /\ seen = << >> => p.idx = 2 * Len(seen)
      OBVIOUS
    <3> QED BY <3>1, <3>2
  <2>3. seen' = seen /\ expect' = "word" /\ pc' = pc /\ PrefixFits' /\ parser' = r
    BY <1>1, <1>2, <1>7, <2>2, ColonTaken
  <2>4. Fresh(parser)' \/ Replaying(parser)'
    <3>1. CASE p.idx + 1 = Len(p.prefix)
      BY <1>1, <1>3, <2>2, <2>3, <3>1 DEF Fresh
    <3>2. CASE p.idx + 1 # Len(p.prefix)
      BY <1>1, <1>3, <2>2, <2>3, <3>2 DEF Replaying
    <3> QED BY <3>1, <3>2
  <2> QED BY <1>1, <1>2, <2>3, <2>4 DEF PathInv
<1>8. CASE TakeEnd(r, c)
  BY <1>1, <1>8, TokensDiffer DEF TakeEnd, Token
<1>9. CASE TakeError(r, c)
  BY <1>1, <1>2, <1>9, ErrorTaken
<1> QED BY <1>5, <1>6, <1>7, <1>8, <1>9 DEF Push

LEMMA ReplayStep == ASSUME PathInv, LexSuffix \/ Replay PROVE PathInv'
<1> DEFINE p == ReplayActive(parser)
<1>1. /\ p \in Parser /\ (p.active <=> parser.active \/ parser.separator)
      /\ p.idx = parser.idx /\ p.prefix = parser.prefix
  BY Activated DEF PathInv
<1>2. Alternates(p.prefix) /\ PrefixFits /\ seen \in Seq(Word)
  BY <1>1 DEF PathInv
<1>3. CASE LexSuffix
  <2>1. pc = "parse" /\ state = "LEX" /\ state' = "PREFIX" /\ p.active /\ ReplayHasToken(p)
    BY <1>3 DEF LexSuffix
  <2>2. Push(ReplayNext(p), ReplayToken(p), Head(rest))
    BY <1>3 DEF LexSuffix
  <2>3. Waiting(parser)
    BY <1>1, <2>1 DEF PathInv, Fresh
  <2>4. p.idx = 0 /\ seen = << >>
    BY <1>1, <2>3 DEF Waiting
  <2> HIDE DEF p
  <2> QED BY <1>1, <1>2, <2>1, <2>2, <2>4, Replayed
<1>4. CASE Replay
  <2>1. pc = "parse" /\ state = "PREFIX" /\ state' = "PREFIX" /\ p.active /\ ReplayHasToken(p)
    BY <1>4 DEF Replay
  <2>2. Push(ReplayNext(p), ReplayToken(p), None)
    BY <1>4 DEF Replay
  <2>3. Replaying(parser)
    BY <1>1, <2>1 DEF PathInv, Fresh
  <2>4. \/ p.idx = 2 * Len(seen) - 1 /\ expect = "colon" /\ Len(seen) > 0
        \/ p.idx = 2 * Len(seen) /\ expect = "word"
    BY <1>1, <2>3 DEF Replaying
  <2> HIDE DEF p
  <2> QED BY <1>1, <1>2, <2>1, <2>2, <2>4, Replayed
<1> QED BY <1>3, <1>4

(* The word that waited comes behind the whole path.                       *)
LEMMA ReplayEndsStep == ASSUME PathInv, ReplayEnds PROVE PathInv'
<1> DEFINE p == ReplayActive(parser)  c == suffix
<1>0. Push(p, c, None)
  BY DEF ReplayEnds
<1>1. pc = "parse" /\ state = "PREFIX" /\ state' = "LEX" /\ ~p.active
  BY DEF ReplayEnds
<1>2. /\ p \in Parser /\ (p.active <=> parser.active \/ parser.separator)
      /\ p.separator = parser.separator /\ p.idx = parser.idx /\ p.prefix = parser.prefix
  BY Activated DEF PathInv
<1>3. Alternates(p.prefix) /\ PrefixFits /\ seen \in Seq(Word) /\ Len(seen) \in Nat
  BY <1>2 DEF PathInv
<1>4. Fresh(parser)
  BY <1>1, <1>2 DEF PathInv, Replaying
<1>5. ~p.separator /\ p.idx = 0 /\ Len(p.prefix) <= 2 * Len(seen)
  BY <1>1, <1>2, <1>4 DEF Fresh
<1> HIDE DEF p, c
<1>6. CASE TakeWord(p, c, None)
  <2>1. /\ parser' \in Parser /\ Alternates(parser'.prefix)
        /\ seen' \in Seq(Word) /\ pc' = pc /\ PrefixFits'
        /\ parser'.active = p.active /\ parser'.separator = p.separator
        /\ parser'.idx = p.idx /\ Len(parser'.prefix) <= 2 * Len(seen')
    BY <1>1, <1>2, <1>3, <1>5, <1>6, WordTaken
  <2>2. Fresh(parser)'
    BY <1>1, <1>5, <2>1 DEF Fresh
  <2> QED BY <1>1, <2>1, <2>2 DEF PathInv
<1>7. CASE TakeColon(p, c)
  <2>1. /\ parser' \in Parser /\ Alternates(parser'.prefix)
        /\ seen' = seen /\ pc' = pc /\ PrefixFits' /\ parser'.idx = p.idx
        /\ expect = "colon" => parser' = p
        /\ expect # "colon" => /\ ~parser'.active /\ ~parser'.separator
                               /\ parser'.prefix = << >>
    BY <1>2, <1>3, <1>7, ColonTaken
  <2>2. Fresh(parser)'
    <3>1. CASE expect # "colon"
      BY <1>3, <1>5, <2>1, <3>1 DEF Fresh
    <3>2. CASE expect = "colon"
      BY <1>1, <1>5, <2>1, <3>2 DEF Fresh
    <3> QED BY <3>1, <3>2
  <2> QED BY <1>1, <1>3, <2>1, <2>2 DEF PathInv
<1>8. CASE TakeEnd(p, c)
  BY <1>1, <1>2, <1>3, <1>5, <1>8, EndTaken
<1>9. CASE TakeError(p, c)
  BY <1>1, <1>2, <1>3, <1>9, ErrorTaken
<1> QED BY <1>0, <1>6, <1>7, <1>8, <1>9 DEF Push

LEMMA ReplayFailsStep == ASSUME PathInv, ReplayFails PROVE PathInv'
<1>1. pc' = "failed" /\ failed' = "parser_replay_prefix"
      /\ parser' = parser /\ seen' = seen /\ state' = state
  BY DEF ReplayFails
<1> QED BY <1>1 DEF PathInv, PrefixFits

(* A line begins with an empty path.                                       *)
LEMMA LineStep ==
  ASSUME PathInv, pc' = "parse", state' = "LEX", seen' = << >>, UNCHANGED failed,
         parser' = ReplayReset(Separator(parser, FALSE))
  PROVE  PathInv'
<1> DEFINE p == Separator(parser, FALSE)
<1>1. p \in Parser /\ p.prefix = << >>
  BY Separated DEF PathInv
<1> HIDE DEF p
<1>2. ReplayReset(p) \in Parser /\ ReplayReset(p).prefix = << >>
      /\ ~ReplayReset(p).active /\ ~ReplayReset(p).separator /\ ReplayReset(p).idx = 0
  BY <1>1 DEF ReplayReset, Parser
<1>3. parser' = ReplayReset(p)
  BY DEF p
<1>4. Alternates(parser'.prefix) /\ parser' \in Parser
  BY <1>2, <1>3, EmptyAlternates
<1>5. parser'.prefix = << >> /\ ~parser'.active /\ ~parser'.separator /\ parser'.idx = 0
  BY <1>2, <1>3
<1>6. Fresh(parser)'
  <2>1. Len(<< >>) <= 2 * Len(<< >>)
    OBVIOUS
  <2>2. Len(parser'.prefix) <= 2 * Len(seen')
    BY <1>5, <2>1, Zenon
  <2> QED BY <1>5, <2>2 DEF Fresh
<1>7. seen' \in Seq(Word) /\ PrefixFits'
  BY DEF PathInv, PrefixFits
<1> QED BY <1>4, <1>6, <1>7 DEF PathInv

LEMMA ClientStep == ASSUME PathInv, Client PROVE PathInv'
<1>1. ASSUME NEW last, BeginEmpty(last) PROVE PathInv'
  BY <1>1, LineStep DEF BeginEmpty
<1>2. ASSUME NEW colon, NEW words, NEW last, BeginLine(colon, words, last) PROVE PathInv'
  BY <1>2, LineStep DEF BeginLine
<1>3. ASSUME NEW colon, NEW words, NEW last, NextCommand(colon, words, last) PROVE PathInv'
  <2>1. pc = "command" /\ pc' = "parse"
        /\ UNCHANGED << failed, state, parser, seen, expect >>
    BY <1>3 DEF NextCommand
  <2>2. Waiting(parser)'
    BY <2>1 DEF PathInv, Waiting
  <2> QED BY <2>1, <2>2 DEF PathInv, PrefixFits
<1> QED BY <1>1, <1>2, <1>3 DEF Client

LEMMA PathInvariant == Spec => []PathInv
<1>1. Init => PathInv
  <2> SUFFICES ASSUME Init PROVE PathInv
    OBVIOUS
  <2>1. << >> \in Seq(Token)
    OBVIOUS
  <2>2. Reset \in Parser /\ Reset.prefix = << >>
    BY <2>1 DEF Reset, Parser
  <2>3. parser \in Parser /\ Alternates(parser.prefix)
    BY <2>2, EmptyAlternates DEF Init
  <2>4. pc = "line" /\ state = "LEX" /\ seen = << >> /\ failed = ""
    BY DEF Init
  <2>5. seen \in Seq(Word)
    <3>1. << >> \in Seq(Word)
      OBVIOUS
    <3> QED BY <2>4, <3>1, Zenon
  <2> QED BY <2>3, <2>4, <2>5 DEF PathInv, PrefixFits
<1>2. PathInv /\ [Next]_vars => PathInv'
  <2>1. ASSUME PathInv, UNCHANGED vars PROVE PathInv'
    BY <2>1 DEF vars, PathInv, PrefixFits, Fresh, Waiting, Replaying
  <2> QED BY <2>1, LexStep, ReplayStep, ReplayEndsStep, ReplayFailsStep, ClientStep DEF Next
<1> QED BY <1>1, <1>2, PTL DEF Spec

(* No line of any grammar, however its commands are cut by ';' and ':' and *)
(* wherever it goes wrong, fills the array of prefix tokens: the assertion *)
(* of parser_add_prefix_() holds if no rule keeps a word deeper than       *)
(* MaxDepth.                                                               *)
THEOREM PrefixNeverFull == Spec => []PrefixFits
<1>1. PathInv => PrefixFits
  BY DEF PathInv
<1> QED BY <1>1, PathInvariant, PTL

----------------------------------------------------------------------------
(* What a header is in the words of the parser.                            *)

(* The parser has been given a beginning of the header.                    *)
Begun == Len(seen) <= Len(wanted) /\ \A i \in 1..Len(seen) : seen[i] = wanted[i]

(* The array holds the first n words of the header.                        *)
Holds(p, n) == Len(p.prefix) = 2 * n /\ \A i \in 1..n : p.prefix[2 * i - 1] = wanted[i]

(* What ends a command.                                                    *)
Final == { ";", End }

(* What is left to scan is the header from its token j on, and the end.    *)
Left(r, ws, j) ==
  /\ Len(r) = 2 * Len(ws) - j + 1
  /\ \A k \in 1..Len(ws) : 2 * k - 1 >= j => r[2 * k - j] = ws[k]
  /\ \A k \in 1..Len(ws) - 1 : 2 * k >= j => r[2 * k - j + 1] = ":"
  /\ r[2 * Len(ws) - j + 1] \in Final

(* An absolute header whose ':' comes next.                                *)
Leading ==
  /\ state = "LEX" /\ wanted \in Header /\ seen = << >>
  /\ expect \in { "line", "start" } /\ parser.idx = 0
  /\ rest # << >> /\ Head(rest) = ":" /\ Left(Tail(rest), wanted, 1)

(* A header in the middle, given by the scanner.                           *)
Reading ==
  /\ state = "LEX" /\ Fresh(parser) /\ Begun
  /\ wanted \in Header \/ Len(seen) = Len(wanted)
  /\ \/ expect # "colon" /\ Len(seen) < Len(wanted) /\ Left(rest, wanted, 2 * Len(seen) + 1)
     \/ expect = "colon" /\ Len(seen) > 0 /\ Left(rest, wanted, 2 * Len(seen))
  /\ Plain(wanted) => \/ Len(seen) < Len(wanted) /\ Holds(parser, Len(seen))
                      \/ Len(seen) = Len(wanted) /\ Holds(parser, Len(wanted) - 1)

(* A relative header whose word comes next.                                *)
Starting ==
  /\ state = "LEX" /\ Waiting(parser) /\ Len(wanted) > 1
  /\ Len(rest) = 2 /\ rest[1] = wanted[Len(wanted)] /\ rest[2] \in Final
  /\ Holds(parser, Len(wanted) - 1)

(* A relative header in the middle, of which the path is given.            *)
Joining ==
  /\ state = "PREFIX" /\ Len(wanted) > 1 /\ suffix = wanted[Len(wanted)]
  /\ Len(rest) = 1 /\ rest[1] \in Final
  /\ Holds(parser, Len(wanted) - 1) /\ Begun
  /\ \/ Replaying(parser)
     \/ Fresh(parser) /\ Len(seen) = Len(wanted) - 1 /\ expect = "word"

Scan == Token \cup Final

HeaderTypes ==
  /\ rest \in Seq(Scan) /\ wanted \in Seq(Word) /\ path \in Seq(Word)
  /\ kept \in BOOLEAN

(* Where a command is whose path the code is to know.                      *)
HeaderInv ==
  /\ HeaderTypes
  /\ kept /\ Plain(wanted) => path = Front(wanted)
  /\ pc = "parse" /\ kept => Leading \/ Reading \/ Starting \/ Joining
  /\ ReplayIsOver

(* What HeaderAsWritten says of a step.                                    *)
RunsAsWritten == pc = "parse" /\ pc' # "parse" /\ kept /\ wanted \in Header => ran' = wanted

LEMMA HeaderWords ==
  ASSUME NEW h \in Header
  PROVE  h \in Seq(Word) /\ Len(h) \in Nat /\ Len(h) > 0
<1>1. h \in Seq(Word) /\ h # << >>
  BY HeaderAssumption
<1> QED BY <1>1, EmptySeq

(* The next token, and what is left behind it.                             *)
LEMMA LeftMoves ==
  ASSUME NEW r \in Seq(Scan), NEW ws \in Seq(Word), NEW j \in Nat,
         0 < j, j <= 2 * Len(ws), Left(r, ws, j)
  PROVE  /\ r # << >>
         /\ \A k \in 1..Len(ws) : j = 2 * k - 1 => Head(r) = ws[k]
         /\ \A k \in 1..Len(ws) - 1 : j = 2 * k => Head(r) = ":"
         /\ j = 2 * Len(ws) => Head(r) \in Final
         /\ j < 2 * Len(ws) => Left(Tail(r), ws, j + 1)
<1>0. Len(ws) \in Nat
  OBVIOUS
<1>a. PICK n \in Nat : n = Len(ws)
  BY <1>0
<1>4. /\ Len(r) = 2 * n - j + 1
      /\ \A k \in 1..n : 2 * k - 1 >= j => r[2 * k - j] = ws[k]
      /\ \A k \in 1..n - 1 : 2 * k >= j => r[2 * k - j + 1] = ":"
      /\ r[2 * n - j + 1] \in Final
  BY <1>a, Zenon DEF Left
<1>b. j <= 2 * n
  BY <1>a
<1>1. Len(r) = 2 * n - j + 1 /\ Len(r) > 0
  <2>1. Len(r) = 2 * n - j + 1
    BY <1>4, Zenon
  <2> QED BY <1>b, <2>1
<1>2. r # << >> /\ Head(r) = r[1]
  BY <1>1
<1>3. Len(Tail(r)) = Len(r) - 1 /\ \A i \in 1..Len(r) - 1 : Tail(r)[i] = r[i + 1]
  BY <1>2, HeadTailProperties, Zenon
<1>5. ASSUME NEW k \in 1..n, j = 2 * k - 1 PROVE Head(r) = ws[k]
  <2>1. 2 * k - j = 1 /\ 2 * k - 1 >= j
    BY <1>5
  <2> QED BY <1>2, <1>4, <2>1, Zenon
<1>6. ASSUME NEW k \in 1..n - 1, j = 2 * k PROVE Head(r) = ":"
  <2>1. 2 * k - j + 1 = 1 /\ 2 * k >= j
    BY <1>6
  <2> QED BY <1>2, <1>4, <2>1, Zenon
<1>7. ASSUME j = 2 * n PROVE Head(r) \in Final
  <2>1. 2 * n - j + 1 = 1
    BY <1>7
  <2> QED BY <1>2, <1>4, <2>1, Zenon
<1>8. ASSUME j < 2 * n PROVE Left(Tail(r), ws, j + 1)
  <2>1. Len(Tail(r)) = 2 * n - (j + 1) + 1
    BY <1>1, <1>3
  <2>2. ASSUME NEW k \in 1..n, 2 * k - 1 >= j + 1 PROVE Tail(r)[2 * k - (j + 1)] = ws[k]
    <3>1. 2 * k - (j + 1) \in 1..Len(r) - 1 /\ 2 * k - (j + 1) + 1 = 2 * k - j
          /\ 2 * k - 1 >= j
      BY <1>1, <2>2
    <3> QED BY <1>3, <1>4, <3>1, Zenon
  <2>3. ASSUME NEW k \in 1..n - 1, 2 * k >= j + 1 PROVE Tail(r)[2 * k - (j + 1) + 1] = ":"
    <3>1. 2 * k - (j + 1) + 1 \in 1..Len(r) - 1 /\ 2 * k - (j + 1) + 1 + 1 = 2 * k - j + 1
          /\ 2 * k >= j
      BY <1>1, <2>3
    <3> QED BY <1>3, <1>4, <3>1, Zenon
  <2>4. Tail(r)[2 * n - (j + 1) + 1] \in Final
    <3> DEFINE i == 2 * n - (j + 1) + 1
    <3>2. i \in 1..Len(r) - 1 /\ i + 1 = 2 * n - j + 1
      BY <1>1, <1>8
    <3> HIDE DEF i
    <3>3. Tail(r)[i] = r[2 * n - j + 1]
      BY <1>3, <3>2, Zenon
    <3> QED BY <1>4, <3>3, Zenon DEF i
  <2> QED BY <1>a, <2>1, <2>2, <2>3, <2>4, Zenon DEF Left
<1> QED BY <1>a, <1>2, <1>5, <1>6, <1>7, <1>8, Zenon

(* What the scanner gives of a header without a leading ':'.               *)
LEMMA Written1 ==
  ASSUME NEW words \in Seq(Word), Len(words) > 0, NEW last \in Final
  PROVE  /\ Tokens(words) \o << last >> \in Seq(Scan)
         /\ Left(Tokens(words) \o << last >>, words, 1)
<1> DEFINE t == Tokens(words)  s == t \o << last >>
<1>0. Len(words) \in Nat
  OBVIOUS
<1>a. PICK n \in Nat : n = Len(words)
  BY <1>0
<1>1. n > 0 /\ 2 * n - 1 \in Nat
  BY <1>a
<1>2. ASSUME NEW i \in 1..2 * n - 1
      PROVE  (IF i % 2 = 1 THEN words[(i + 1) \div 2] ELSE ":") \in Scan
  <2>1. CASE i % 2 = 1
    <3>1. (i + 1) \div 2 \in 1..n
      BY <1>1, <2>1
    <3>2. words[(i + 1) \div 2] \in Word
      BY <1>a, <3>1, ElementOfSeq, Zenon
    <3> QED BY <2>1, <3>2, Zenon DEF Scan, Token
  <2>2. CASE i % 2 # 1
    BY <2>2, Zenon DEF Scan, Token
  <2> QED BY <2>1, <2>2
<1>3. t = [ i \in 1..2 * n - 1 |-> IF i % 2 = 1 THEN words[(i + 1) \div 2] ELSE ":" ]
  BY <1>a, Zenon DEF Tokens
<1> HIDE DEF t
<1>4. t \in Seq(Scan) /\ Len(t) = 2 * n - 1
  <2>1. t \in [1..2 * n - 1 -> Scan]
    BY <1>2, <1>3, Zenon
  <2> QED BY <1>1, <2>1
<1>5. /\ \A k \in 1..n : t[2 * k - 1] = words[k]
      /\ \A k \in 1..n - 1 : t[2 * k] = ":"
  <2>1. ASSUME NEW k \in 1..n PROVE t[2 * k - 1] = words[k]
    <3>1. 2 * k - 1 \in 1..2 * n - 1 /\ (2 * k - 1) % 2 = 1 /\ (2 * k - 1 + 1) \div 2 = k
      BY <1>1
    <3> QED BY <1>3, <3>1, Zenon
  <2>2. ASSUME NEW k \in 1..n - 1 PROVE t[2 * k] = ":"
    <3>1. 2 * k \in 1..2 * n - 1 /\ (2 * k) % 2 = 0 /\ 0 # 1
      BY <1>1
    <3> QED BY <1>3, <3>1, Zenon
  <2> QED BY <2>1, <2>2
<1>6. last \in Scan
  BY Zenon DEF Scan
<1> HIDE DEF s
<1>b. << last >> \in Seq(Scan) /\ Len(<< last >>) = 1 /\ << last >>[1] = last
  BY <1>6
<1> DEFINE l == << last >>
<1> HIDE DEF l
<1>c. l \in Seq(Scan) /\ Len(l) = 1 /\ l[1] = last
  BY <1>b DEF l
<1>7. /\ s \in Seq(Scan) /\ Len(s) = 2 * n
      /\ \A i \in 1..2 * n - 1 : s[i] = t[i]
      /\ s[2 * n] = last
  <2>1. s = t \o l
    BY DEF s, l
  <2>2. /\ s \in Seq(Scan) /\ Len(s) = Len(t) + Len(l)
        /\ \A i \in 1..Len(t) + Len(l) : s[i] = IF i <= Len(t) THEN t[i] ELSE l[i - Len(t)]
    BY <1>4, <1>c, <2>1, ConcatProperties, Zenon
  <2>3. Len(t) + Len(l) = 2 * n
    BY <1>1, <1>4, <1>c
  <2>4. ASSUME NEW i \in 1..2 * n - 1 PROVE s[i] = t[i]
    <3>1. i \in 1..2 * n /\ i <= 2 * n - 1
      BY <1>1
    <3> QED BY <1>4, <2>2, <2>3, <3>1, Zenon
  <2>5. s[2 * n] = last
    <3>1. 2 * n \in 1..2 * n /\ ~(2 * n <= 2 * n - 1) /\ 2 * n - (2 * n - 1) = 1
      BY <1>1
    <3> QED BY <1>4, <1>c, <2>2, <2>3, <3>1, Zenon
  <2> QED BY <2>2, <2>3, <2>4, <2>5, Zenon
<1>8. Left(s, words, 1)
  <2>0. Len(s) = 2 * n - 1 + 1 /\ 2 * n - 1 + 1 = 2 * n
    BY <1>7
  <2>1. ASSUME NEW k \in 1..n PROVE s[2 * k - 1] = words[k]
    <3>1. 2 * k - 1 \in 1..2 * n - 1
      OBVIOUS
    <3> QED BY <1>5, <1>7, <3>1, Zenon
  <2>2. ASSUME NEW k \in 1..n - 1 PROVE s[2 * k - 1 + 1] = ":"
    <3>1. 2 * k \in 1..2 * n - 1 /\ 2 * k - 1 + 1 = 2 * k
      OBVIOUS
    <3> QED BY <1>5, <1>7, <3>1, Zenon
  <2> QED BY <1>a, <1>7, <2>0, <2>1, <2>2, Zenon DEF Left
<1> QED BY <1>7, <1>8, Zenon DEF s, t

(* The beginning of a header goes on with the next of its words.           *)
LEMMA GoesOn ==
  ASSUME seen \in Seq(Word), wanted \in Seq(Word), Begun, Len(seen) < Len(wanted)
  PROVE  /\ Append(seen, wanted[Len(seen) + 1]) = SubSeq(wanted, 1, Len(seen) + 1)
         /\ wanted \in Header => Goes(seen) /\ Begins(Append(seen, wanted[Len(seen) + 1]))
         /\ wanted[Len(seen) + 1] \in Word
<1> DEFINE n == Len(seen)  h == Append(seen, wanted[n + 1])
<1>1. n \in Nat /\ n + 1 \in 1..Len(wanted) /\ Len(wanted) \in Nat
  OBVIOUS
<1>2. wanted[n + 1] \in Word
  BY <1>1
<1>3. /\ h \in Seq(Word) /\ Len(h) = n + 1 /\ h[n + 1] = wanted[n + 1]
      /\ \A i \in 1..n : h[i] = wanted[i]
  BY <1>1, <1>2 DEF Begun
<1>4. /\ SubSeq(wanted, 1, n + 1) \in Seq(Word) /\ Len(SubSeq(wanted, 1, n + 1)) = n + 1
      /\ \A i \in 1..n + 1 : SubSeq(wanted, 1, n + 1)[i] = wanted[i]
  BY <1>1
<1>5. /\ SubSeq(wanted, 1, n) \in Seq(Word) /\ Len(SubSeq(wanted, 1, n)) = n
      /\ \A i \in 1..n : SubSeq(wanted, 1, n)[i] = wanted[i]
  BY <1>1
<1>6. h = SubSeq(wanted, 1, n + 1)
  <2>1. \A i \in 1..Len(h) : h[i] = SubSeq(wanted, 1, n + 1)[i]
    BY <1>1, <1>3, <1>4
  <2> HIDE DEF h
  <2> QED BY <1>3, <1>4, <2>1, SeqEqual
<1>7. seen = SubSeq(wanted, 1, n)
  <2>1. \A i \in 1..Len(seen) : seen[i] = SubSeq(wanted, 1, n)[i]
    BY <1>5 DEF Begun
  <2> QED BY <1>5, <2>1, SeqEqual
<1>8. wanted \in Header => Goes(seen) /\ Begins(h)
  <2>1. Len(h) <= Len(wanted) /\ Len(seen) < Len(wanted)
    BY <1>1, <1>3
  <2> QED BY <1>3, <1>6, <1>7, <2>1 DEF Goes, Begins
<1> QED BY <1>2, <1>6, <1>8

(* All of its words were given.                                            *)
LEMMA WholeHeader ==
  ASSUME seen \in Seq(Word), wanted \in Seq(Word), Begun, Len(seen) = Len(wanted)
  PROVE  seen = wanted
BY SeqEqual DEF Begun

(* What a step does to a command whose path the code is to know.           *)
Carries ==
  /\ pc' = "parse" => Leading' \/ Reading' \/ Starting' \/ Joining'
  /\ pc' = "command" /\ Plain(wanted) => Holds(parser, Len(wanted) - 1)'
  /\ RunsAsWritten

LEMMA Refused ==
  ASSUME NEW p, NEW c, TakeError(p, c), wanted \notin Header
  PROVE  Carries
<1>1. pc' = "line"
  BY DEF TakeError
<1> QED BY <1>1 DEF Carries, RunsAsWritten

LEMMA ActiveFresh ==
  ASSUME parser \in Parser, Fresh(parser)
  PROVE  ReplayActive(parser) = parser
BY DEF ReplayActive, Fresh, Parser

(* The ':' of an absolute header drops the path.                           *)
LEMMA LexLeading ==
  ASSUME PathInv, PathInv', HeaderTypes, UNCHANGED history, Lex, kept, Leading
  PROVE  Carries
<1> DEFINE p == ReplayActive(parser)  c == Head(rest)
<1>1. /\ pc = "parse" /\ state' = state /\ rest' = Tail(rest)
      /\ Push(p, c, c)
  BY DEF Lex
<1>2. /\ p \in Parser /\ p.idx = parser.idx /\ p.prefix = parser.prefix
  BY Activated DEF PathInv
<1>3. Alternates(p.prefix) /\ PrefixFits /\ seen \in Seq(Word) /\ wanted' = wanted
  BY <1>2 DEF PathInv, history
<1>4. /\ c = ":" /\ expect \in { "line", "start" } /\ seen = << >> /\ parser.idx = 0
      /\ wanted \in Header /\ Left(Tail(rest), wanted, 1) /\ state = "LEX"
  BY DEF Leading
<1> HIDE DEF p, c
<1>5. TakeColon(p, c)
  <2>1. ~TakeWord(p, c, c) /\ ~TakeEnd(p, c)
    BY <1>4, TokensDiffer DEF TakeWord, TakeEnd
  <2>2. ~TakeError(p, c)
    BY <1>4 DEF TakeError
  <2> QED BY <1>1, <2>1, <2>2 DEF Push
<1>6. /\ seen' = << >> /\ expect' = "word" /\ pc' = "parse" /\ parser'.idx = 0
      /\ ~parser'.active /\ ~parser'.separator /\ parser'.prefix = << >>
  BY <1>1, <1>2, <1>3, <1>4, <1>5, ColonTaken
<1>7. Len(seen') = 0 /\ Len(parser'.prefix) = 0 /\ Len(wanted) \in Nat /\ Len(wanted) > 0
  BY <1>4, <1>6, HeaderWords
<1>8. Fresh(parser)' /\ Begun' /\ Holds(parser, Len(seen))'
  BY <1>6, <1>7, <1>3 DEF Fresh, Begun, Holds
<1>9. Left(rest, wanted, 2 * Len(seen) + 1)'
  <2>1. 2 * Len(seen') + 1 = 1
    BY <1>7
  <2> QED BY <1>1, <1>3, <1>4, <2>1, Zenon
<1>10. Reading'
  BY <1>1, <1>3, <1>4, <1>6, <1>7, <1>8, <1>9 DEF Reading
<1> QED BY <1>6, <1>10 DEF Carries, RunsAsWritten

(* The next word of a header that the scanner gives.                       *)
LEMMA LexWord ==
  ASSUME PathInv, PathInv', HeaderTypes, UNCHANGED history, Lex, kept, Reading,
         expect # "colon"
  PROVE  Carries
<1> DEFINE c == Head(rest)  h == Append(seen, c)
<1>0. Len(seen) \in Nat
  BY DEF PathInv
<1>n. PICK n \in Nat : n = Len(seen)
  BY <1>0
<1>1. /\ pc = "parse" /\ state' = state /\ rest' = Tail(rest)
      /\ Push(ReplayActive(parser), c, c)
  BY DEF Lex
<1>2. /\ parser \in Parser /\ Alternates(parser.prefix) /\ PrefixFits /\ seen \in Seq(Word)
      /\ wanted' = wanted /\ wanted \in Seq(Word) /\ rest \in Seq(Scan)
  BY DEF PathInv, history, HeaderTypes
<1>3. /\ state = "LEX" /\ Fresh(parser) /\ Begun /\ wanted \in Header
      /\ n < Len(wanted) /\ Left(rest, wanted, 2 * n + 1)
      /\ Plain(wanted) => Holds(parser, n)
  BY <1>n, <1>2 DEF Reading
<1>4. Push(parser, c, c)
  BY <1>1, <1>2, <1>3, ActiveFresh
<1>5. n \in Nat /\ Len(wanted) \in Nat /\ n + 1 \in 1..Len(wanted)
  BY <1>2, <1>3
<1>6. c = wanted[n + 1] /\ Left(Tail(rest), wanted, 2 * (n + 1))
  <2>1. 2 * n + 1 \in Nat /\ 0 < 2 * n + 1 /\ 2 * n + 1 <= 2 * Len(wanted)
        /\ 2 * n + 1 < 2 * Len(wanted) /\ 2 * n + 1 = 2 * (n + 1) - 1
        /\ 2 * n + 1 + 1 = 2 * (n + 1)
    BY <1>3, <1>5
  <2>2. /\ \A k \in 1..Len(wanted) : 2 * n + 1 = 2 * k - 1 => Head(rest) = wanted[k]
        /\ Left(Tail(rest), wanted, 2 * n + 1 + 1)
    <3>1. PICK j \in Nat : j = 2 * n + 1
      BY <2>1
    <3>2. 0 < j /\ j <= 2 * Len(wanted) /\ Left(rest, wanted, j) /\ j < 2 * Len(wanted)
      BY <1>3, <2>1, <3>1
    <3>3. /\ \A k \in 1..Len(wanted) : j = 2 * k - 1 => Head(rest) = wanted[k]
          /\ Left(Tail(rest), wanted, j + 1)
      BY <1>2, <3>2, LeftMoves, Zenon
    <3> QED BY <3>1, <3>3
  <2> QED BY <1>5, <2>1, <2>2, Zenon
<1>7. c \in Word /\ h = SubSeq(wanted, 1, n + 1) /\ Begins(h)
  BY <1>n, <1>2, <1>3, <1>6, GoesOn
<1> HIDE DEF c
<1>8. TakeWord(parser, c, c)
  <2>1. ~TakeColon(parser, c) /\ ~TakeEnd(parser, c)
    BY <1>7, TokensDiffer DEF TakeColon, TakeEnd
  <2>2. ~TakeError(parser, c)
    BY <1>3, <1>7 DEF TakeError
  <2> QED BY <1>4, <2>1, <2>2 DEF Push
<1>9. /\ parser' \in Parser /\ seen' \in Seq(Word) /\ Len(seen') = n + 1
      /\ expect' = "colon" /\ pc' = "parse" /\ seen' = h
  BY <1>n, <1>1, <1>2, <1>3, <1>7, <1>8, WordTaken DEF Fresh, TakeWord
<1>10. Fresh(parser)'
  <2>1. seen' # << >>
    BY <1>5, <1>9
  <2> QED BY <1>1, <1>3, <1>9, <2>1 DEF PathInv, Waiting
<1>11. Begun'
  <2>1. \A i \in 1..n + 1 : seen'[i] = wanted[i]
    BY <1>2, <1>5, <1>7, <1>9
  <2> QED BY <1>2, <1>5, <1>9, <2>1 DEF Begun
<1>12. Left(rest, wanted, 2 * Len(seen))'
  BY <1>1, <1>2, <1>6, <1>9, Zenon
<1>13. ASSUME Plain(wanted)
       PROVE  \/ n + 1 < Len(wanted) /\ Holds(parser, n + 1)'
              \/ n + 1 = Len(wanted) /\ Holds(parser, Len(wanted) - 1)'
  <2>1. CASE n + 1 < Len(wanted)
    <3>1. h \in PrefixRule
      <4>1. n + 1 \in 1..Len(wanted) - 1
        BY <1>5, <2>1
      <4> QED BY <1>7, <1>13, <4>1 DEF Plain
    <3>2. parser' = AddPrefix(parser, c)
      <4>1. pc' # "failed"
        BY <1>9
      <4> QED BY <1>8, <3>1, <4>1 DEF TakeWord
    <3>3. parser' = [ parser EXCEPT !.prefix = parser.prefix \o << c, ":" >> ]
      BY <1>3, <3>2 DEF AddPrefix, Fresh
    <3> DEFINE s == parser.prefix \o << c, ":" >>
    <3>4. parser'.prefix = s
      BY <1>2, <3>3 DEF Parser
    <3>5. parser.prefix \in Seq(Token)
      BY <1>2 DEF Parser
    <3>6. /\ Len(s) = Len(parser.prefix) + 2
          /\ \A i \in 1..Len(parser.prefix) : s[i] = parser.prefix[i]
          /\ s[Len(parser.prefix) + 1] = c
      BY <1>7, <3>5, Concat
    <3> HIDE DEF s
    <3>7. Len(parser.prefix) = 2 * n /\ \A i \in 1..n : parser.prefix[2 * i - 1] = wanted[i]
      BY <1>3, <1>13 DEF Holds
    <3>8. Len(s) = 2 * (n + 1)
      BY <1>5, <3>6, <3>7
    <3>9. ASSUME NEW i \in 1..n + 1 PROVE s[2 * i - 1] = wanted[i]
      <4>1. CASE i \in 1..n
        <5>1. 2 * i - 1 \in 1..2 * n
          BY <1>5, <4>1
        <5> QED BY <3>6, <3>7, <4>1, <5>1, Zenon
      <4>2. CASE i = n + 1
        <5>1. 2 * i - 1 = 2 * n + 1
          BY <1>5, <4>2
        <5> QED BY <1>6, <3>6, <3>7, <4>2, <5>1, Zenon
      <4> QED BY <1>5, <4>1, <4>2
    <3>10. Holds(parser, n + 1)'
      <4>1. wanted' = wanted
        BY <1>2
      <4> QED BY <4>1, <3>4, <3>8, <3>9 DEF Holds
    <3> QED BY <2>1, <3>10
  <2>2. CASE n + 1 = Len(wanted)
    <3>1. h = wanted
      <4>1. SubSeq(wanted, 1, Len(wanted)) = wanted
        BY <1>2
      <4> QED BY <1>7, <2>2, <4>1
    <3>2. h \notin PrefixRule
      BY <1>13, <3>1 DEF Plain
    <3>3. parser' = parser
      BY <1>8, <3>2 DEF TakeWord
    <3>4. Len(wanted) - 1 = n
      BY <1>5, <2>2
    <3> QED BY <1>2, <1>3, <1>13, <2>2, <3>3, <3>4 DEF Holds
  <2> QED BY <1>3, <1>5, <2>1, <2>2
<1>14. Reading'
  BY <1>1, <1>2, <1>3, <1>5, <1>9, <1>10, <1>11, <1>12, <1>13 DEF Reading
<1> QED BY <1>9, <1>14 DEF Carries, RunsAsWritten

(* The ':' between two words, or the end behind the last.                  *)
LEMMA LexBehindWord ==
  ASSUME PathInv, PathInv', HeaderTypes, UNCHANGED history, Lex, kept, Reading,
         expect = "colon"
  PROVE  Carries
<1> DEFINE c == Head(rest)
<1>0. Len(seen) \in Nat
  BY DEF PathInv
<1>n. PICK n \in Nat : n = Len(seen)
  BY <1>0
<1>1. /\ pc = "parse" /\ state' = state /\ rest' = Tail(rest)
      /\ Push(ReplayActive(parser), c, c)
  BY DEF Lex
<1>2. /\ parser \in Parser /\ Alternates(parser.prefix) /\ PrefixFits /\ seen \in Seq(Word)
      /\ wanted' = wanted /\ wanted \in Seq(Word) /\ rest \in Seq(Scan)
  BY DEF PathInv, history, HeaderTypes
<1>3. /\ state = "LEX" /\ Fresh(parser) /\ Begun /\ n > 0 /\ n <= Len(wanted)
      /\ wanted \in Header \/ n = Len(wanted)
      /\ Left(rest, wanted, 2 * n)
      /\ Plain(wanted) => \/ n < Len(wanted) /\ Holds(parser, n)
                          \/ n = Len(wanted) /\ Holds(parser, Len(wanted) - 1)
  BY <1>n, <1>2 DEF Reading, Begun
<1>4. Push(parser, c, c)
  BY <1>1, <1>2, <1>3, ActiveFresh
<1>5. PICK l \in Nat : l = Len(wanted)
  BY <1>2
<1>6. PICK j \in Nat : j = 2 * n
  OBVIOUS
<1>7. 0 < j /\ j <= 2 * Len(wanted) /\ Left(rest, wanted, j)
  BY <1>3, <1>5, <1>6
<1>8. /\ \A k \in 1..Len(wanted) - 1 : j = 2 * k => c = ":"
      /\ j = 2 * Len(wanted) => c \in Final
      /\ j < 2 * Len(wanted) => Left(Tail(rest), wanted, j + 1)
  BY <1>2, <1>7, LeftMoves, Zenon
<1> HIDE DEF c
<1>9. CASE n < l
  <2>1. n \in 1..Len(wanted) - 1 /\ j < 2 * Len(wanted) /\ wanted \in Header
    BY <1>3, <1>5, <1>6, <1>9
  <2>2. c = ":" /\ Left(Tail(rest), wanted, 2 * n + 1)
    BY <1>6, <1>8, <2>1, Zenon
  <2>3. Goes(seen)
    BY <1>n, <1>2, <1>3, <1>5, <1>9, GoesOn
  <2>4. TakeColon(parser, c)
    <3>1. ~TakeWord(parser, c, c) /\ ~TakeEnd(parser, c)
      BY <2>2, TokensDiffer DEF TakeWord, TakeEnd
    <3>2. ~TakeError(parser, c)
      BY <2>2, <2>3 DEF TakeError
    <3> QED BY <1>4, <3>1, <3>2 DEF Push
  <2>5. parser' = parser /\ seen' = seen /\ expect' = "word" /\ pc' = "parse"
    BY <1>1, <1>2, <2>4, ColonTaken
  <2>6. Fresh(parser)' /\ Begun' /\ (Plain(wanted) => Holds(parser, Len(seen)))'
    BY <1>n, <1>2, <1>3, <1>5, <1>9, <2>5 DEF Fresh, Begun, Holds, Plain
  <2>7. Left(rest, wanted, 2 * Len(seen) + 1)'
    BY <1>n, <1>1, <1>2, <2>2, <2>5, Zenon
  <2>8. Reading'
    BY <1>n, <1>1, <1>2, <1>3, <1>5, <1>9, <2>1, <2>5, <2>6, <2>7 DEF Reading
  <2> QED BY <2>5, <2>8 DEF Carries, RunsAsWritten
<1>10. CASE n = l
  <2>1. c \in Final /\ seen = wanted
    <3>1. j = 2 * Len(wanted)
      BY <1>5, <1>6, <1>10
    <3> QED BY <1>n, <1>2, <1>3, <1>5, <1>8, <1>10, <3>1, WholeHeader
  <2>2. c \notin Word /\ c # ":" /\ (c = ";" \/ c = End)
    BY <2>1, TokensDiffer DEF Final
  <2>3. CASE wanted \in Header
    <3>1. Complete
      BY <2>1, <2>3 DEF Complete
    <3>2. TakeEnd(parser, c)
      <4>1. ~TakeWord(parser, c, c) /\ ~TakeColon(parser, c)
        BY <2>2 DEF TakeWord, TakeColon
      <4>2. ~TakeError(parser, c)
        BY <2>2, <3>1 DEF TakeError
      <4> QED BY <1>4, <4>1, <4>2 DEF Push
    <3>3. ran' = wanted
      BY <2>1, <3>1, <3>2 DEF TakeEnd
    <3>4. /\ pc' \in { "command", "line" }
          /\ parser' = Separator(parser, TRUE) \/ parser' = parser
      BY <3>2 DEF TakeEnd
    <3>5. parser'.prefix = parser.prefix
      <4>1. Separator(parser, TRUE) = [ parser EXCEPT !.separator = TRUE ]
        BY <1>2, Separated
      <4>2. [ parser EXCEPT !.separator = TRUE ].prefix = parser.prefix
        BY <1>2 DEF Parser
      <4> QED BY <3>4, <4>1, <4>2, Zenon
    <3>6. ASSUME Plain(wanted) PROVE Holds(parser, Len(wanted) - 1)'
      <4>1. Holds(parser, Len(wanted) - 1)
        BY <1>3, <1>5, <1>10, <3>6
      <4> QED BY <1>2, <3>5, <4>1 DEF Holds
    <3> QED BY <3>3, <3>4, <3>6 DEF Carries, RunsAsWritten
  <2>4. CASE wanted \notin Header
    <3>1. ~Complete /\ ~NoCommand
      BY <2>1, <2>4 DEF Complete, NoCommand
    <3>2. TakeError(parser, c)
      BY <1>4, <2>2, <3>1 DEF Push, TakeWord, TakeColon, TakeEnd
    <3> QED BY <2>4, <3>2, Refused
  <2> QED BY <2>3, <2>4
<1> QED BY <1>3, <1>5, <1>9, <1>10

(* A relative header waits for its path.                                   *)
LEMMA LexNotStarting ==
  ASSUME PathInv, HeaderTypes, Lex, Starting
  PROVE  FALSE
<1>1. rest[1] = wanted[Len(wanted)] /\ Len(wanted) \in Nat /\ Len(wanted) > 1
      /\ wanted \in Seq(Word) /\ Waiting(parser) /\ Len(rest) = 2
  BY DEF Starting, HeaderTypes
<1>2. Head(rest) \in Word
  BY <1>1 DEF HeaderTypes
<1>3. ReplayActive(parser).active
  BY <1>1, Activated DEF PathInv, Waiting
<1> QED BY <1>2, <1>3, TokensDiffer DEF Lex

(* The path is given to the parser: words and ':' in turn.                 *)
LEMMA JoinStep ==
  ASSUME PathInv, PathInv', HeaderTypes, UNCHANGED history, pc = "parse",
         Len(wanted) > 1, Begun,
         NEW p \in Parser, p.active, Alternates(p.prefix), ReplayHasToken(p),
         Holds(p, Len(wanted) - 1),
         \/ p.idx = 0 /\ seen = << >> /\ expect = "start"
         \/ p.idx = 2 * Len(seen) - 1 /\ expect = "colon" /\ Len(seen) > 0
         \/ p.idx = 2 * Len(seen) /\ expect = "word",
         NEW v, Push(ReplayNext(p), ReplayToken(p), v), state' = "PREFIX",
         suffix' = wanted[Len(wanted)], Len(rest') = 1, rest'[1] \in Final
  PROVE  Carries
<1> DEFINE r == ReplayNext(p)  c == ReplayToken(p)
<1>0. Len(seen) \in Nat /\ Len(wanted) \in Nat
  BY DEF PathInv, HeaderTypes
<1>n. PICK n \in Nat : n = Len(seen)
  BY <1>0
<1>l. PICK l \in Nat : l = Len(wanted)
  BY <1>0
<1>1. /\ r \in Parser /\ r.prefix = p.prefix
      /\ p.idx + 1 = Len(p.prefix) => ~r.active /\ ~r.separator /\ r.idx = 0
      /\ p.idx + 1 # Len(p.prefix) => r.active /\ r.idx = p.idx + 1
  BY ReplayMoves
<1>2. /\ Len(p.prefix) = 2 * (l - 1)
      /\ \A i \in 1..l - 1 : p.prefix[2 * i - 1] = wanted[i]
  BY <1>l DEF Holds
<1>3. c = p.prefix[p.idx + 1] /\ p.idx \in Nat /\ p.idx < 2 * (l - 1)
  BY <1>2 DEF ReplayToken, ReplayHasToken, Parser
<1>4. seen \in Seq(Word) /\ wanted \in Seq(Word) /\ PrefixFits /\ wanted' = wanted
  BY DEF PathInv, HeaderTypes, history
<1>5. Push(r, c, v)
  OBVIOUS
<1> HIDE DEF r, c
<1>6. CASE p.idx = 2 * n /\ expect # "colon"
  <2>1. n < l - 1 /\ n + 1 \in 1..l - 1 /\ 2 * n + 1 = 2 * (n + 1) - 1
    BY <1>3, <1>6
  <2>2. c = wanted[n + 1]
    <3>1. p.prefix[2 * (n + 1) - 1] = wanted[n + 1] /\ c = p.prefix[2 * n + 1]
      BY <1>2, <1>3, <1>6, <2>1, Zenon
    <3> QED BY <2>1, <3>1
  <2>3. Len(seen) < Len(wanted)
    BY <1>n, <1>l, <2>1
  <2>4. /\ c \in Word /\ Append(seen, c) = SubSeq(wanted, 1, n + 1)
        /\ wanted \in Header => Begins(Append(seen, c))
    BY <1>n, <1>4, <2>2, <2>3, GoesOn
  <2>5. CASE TakeWord(r, c, v)
    <3>1. r.active /\ r.idx = 2 * n + 1
      BY <1>1, <1>2, <1>3, <1>6, <2>1
    <3>2. /\ parser' = r /\ expect' = "colon" /\ pc' = "parse" /\ Len(seen') = n + 1
          /\ seen' = Append(seen, c)
      BY <1>n, <1>1, <1>4, <2>5, <3>1, WordTaken DEF TakeWord
    <3>3. Begun'
      <4>1. \A i \in 1..n + 1 : seen'[i] = wanted[i]
        BY <1>4, <1>l, <2>1, <2>4, <3>2
      <4> QED BY <1>4, <1>l, <2>1, <3>2, <4>1 DEF Begun
    <3>4. Replaying(parser)'
      BY <3>1, <3>2 DEF PathInv, Fresh
    <3>5. Holds(parser, Len(wanted) - 1)'
      BY <1>1, <1>4, <3>2 DEF Holds
    <3>6. Joining'
      BY <1>4, <3>3, <3>4, <3>5 DEF Joining
    <3> QED BY <3>2, <3>6 DEF Carries, RunsAsWritten
  <2>6. CASE ~TakeWord(r, c, v)
    <3>1. ~TakeColon(r, c) /\ ~TakeEnd(r, c)
      BY <2>4, TokensDiffer DEF TakeColon, TakeEnd
    <3>2. TakeError(r, c)
      BY <1>5, <2>6, <3>1 DEF Push
    <3>3. wanted \notin Header
      BY <1>6, <2>4, <3>2 DEF TakeError
    <3> QED BY <3>2, <3>3, Refused
  <2> QED BY <2>5, <2>6
<1>7. CASE p.idx = 2 * n - 1 /\ expect = "colon" /\ n > 0
  <2>1. n <= l - 1 /\ n < l /\ n - 1 \in Nat /\ 2 * (n - 1) + 2 = 2 * n
        /\ 2 * n \in 1..2 * (l - 1) /\ 2 * n - 1 + 1 = 2 * n
    BY <1>3, <1>7
  <2>2. c = ":"
    <3>1. p.prefix[2 * (n - 1) + 2] = ":"
      BY <1>2, <2>1 DEF Alternates
    <3> QED BY <1>3, <1>7, <2>1, <3>1
  <2>3. wanted \in Header => Goes(seen)
    BY <1>n, <1>l, <1>4, <2>1, GoesOn
  <2>4. CASE TakeColon(r, c)
    <3>1. /\ parser' = r /\ expect' = "word" /\ pc' = "parse" /\ seen' = seen
      BY <1>1, <1>4, <1>7, <2>4, ColonTaken
    <3>2. Begun' /\ Holds(parser, Len(wanted) - 1)'
      BY <1>1, <1>4, <3>1 DEF Holds, Begun
    <3>3. Replaying(parser)' \/ (Fresh(parser)' /\ n = l - 1)
      <4>1. CASE p.idx + 1 = Len(p.prefix)
        <5>1. n = l - 1
          BY <1>2, <1>7, <2>1, <4>1
        <5>2. ~parser'.active
          BY <1>1, <3>1, <4>1
        <5> QED BY <3>1, <5>1, <5>2 DEF PathInv, Replaying
      <4>2. CASE p.idx + 1 # Len(p.prefix)
        <5>1. parser'.active
          BY <1>1, <3>1, <4>2
        <5> QED BY <3>1, <5>1 DEF PathInv, Fresh
      <4> QED BY <4>1, <4>2
    <3>4. n = l - 1 => Len(seen') = Len(wanted') - 1
      BY <1>n, <1>l, <1>4, <3>1
    <3>5. Joining'
      BY <1>4, <3>1, <3>2, <3>3, <3>4 DEF Joining
    <3> QED BY <3>1, <3>5 DEF Carries, RunsAsWritten
  <2>5. CASE ~TakeColon(r, c)
    <3>1. ~TakeWord(r, c, v) /\ ~TakeEnd(r, c)
      BY <2>2, TokensDiffer DEF TakeWord, TakeEnd
    <3>2. TakeError(r, c)
      BY <1>5, <2>5, <3>1 DEF Push
    <3>3. wanted \notin Header
      BY <1>7, <2>2, <2>3, <3>2 DEF TakeError
    <3> QED BY <3>2, <3>3, Refused
  <2> QED BY <2>4, <2>5
<1>8. seen = << >> => 2 * n = 0
  BY <1>n
<1> QED BY <1>n, <1>6, <1>7, <1>8

LEMMA LexSuffixJoins ==
  ASSUME PathInv, PathInv', HeaderTypes, UNCHANGED history, LexSuffix, Starting
  PROVE  Carries
<1> DEFINE p == ReplayActive(parser)
<1>1. /\ pc = "parse" /\ p.active /\ ReplayHasToken(p) /\ state' = "PREFIX"
      /\ suffix' = Head(rest) /\ rest' = Tail(rest)
      /\ Push(ReplayNext(p), ReplayToken(p), Head(rest))
  BY DEF LexSuffix
<1>2. p \in Parser /\ p.idx = parser.idx /\ p.prefix = parser.prefix
  BY Activated DEF PathInv
<1>3. /\ Len(wanted) > 1 /\ Len(rest) = 2 /\ rest[1] = wanted[Len(wanted)]
      /\ rest[2] \in Final /\ Waiting(parser) /\ Holds(parser, Len(wanted) - 1)
      /\ rest \in Seq(Scan)
  BY DEF Starting, HeaderTypes
<1>4. Len(rest') = 1 /\ rest'[1] \in Final /\ suffix' = wanted[Len(wanted)]
  BY <1>1, <1>3
<1>5. Begun
  BY <1>3 DEF Begun, Waiting
<1>6. Holds(p, Len(wanted) - 1) /\ Alternates(p.prefix)
  BY <1>2, <1>3 DEF Holds, PathInv
<1>7. p.idx = 0 /\ seen = << >> /\ expect = "start"
  BY <1>2, <1>3 DEF Waiting
<1> HIDE DEF p
<1> QED BY <1>1, <1>2, <1>3, <1>4, <1>5, <1>6, <1>7, JoinStep

LEMMA ReplayJoins ==
  ASSUME PathInv, PathInv', HeaderTypes, UNCHANGED history, Replay, Joining
  PROVE  Carries
<1> DEFINE p == ReplayActive(parser)
<1>1. /\ pc = "parse" /\ p.active /\ ReplayHasToken(p) /\ state' = "PREFIX"
      /\ suffix' = suffix /\ rest' = rest
      /\ Push(ReplayNext(p), ReplayToken(p), None)
  BY DEF Replay
<1>2. /\ p \in Parser /\ p.idx = parser.idx /\ p.prefix = parser.prefix
      /\ p.active <=> parser.active \/ parser.separator
  BY Activated DEF PathInv
<1>3. /\ Len(wanted) > 1 /\ suffix = wanted[Len(wanted)] /\ Len(rest) = 1
      /\ rest[1] \in Final /\ Holds(parser, Len(wanted) - 1) /\ Begun
      /\ Replaying(parser) \/ Fresh(parser)
  BY DEF Joining
<1>4. Holds(p, Len(wanted) - 1) /\ Alternates(p.prefix)
  BY <1>2, <1>3 DEF Holds, PathInv
<1>5. \/ p.idx = 2 * Len(seen) - 1 /\ expect = "colon" /\ Len(seen) > 0
      \/ p.idx = 2 * Len(seen) /\ expect = "word"
  BY <1>1, <1>2, <1>3 DEF Replaying, Fresh
<1> HIDE DEF p
<1> QED BY <1>1, <1>2, <1>3, <1>4, <1>5, JoinStep

(* The word that waited completes the header.                              *)
LEMMA ReplayEndsJoins ==
  ASSUME PathInv, PathInv', HeaderTypes, UNCHANGED history, ReplayEnds, Joining
  PROVE  Carries
<1> DEFINE p == ReplayActive(parser)  c == suffix
<1>0. Len(seen) \in Nat /\ Len(wanted) \in Nat
  BY DEF PathInv, HeaderTypes
<1>l. PICK l \in Nat : l = Len(wanted)
  BY <1>0
<1>1. /\ pc = "parse" /\ ~p.active /\ state' = "LEX" /\ rest' = rest
      /\ Push(p, c, None)
  BY DEF ReplayEnds
<1>2. /\ p \in Parser /\ p.idx = parser.idx /\ p.prefix = parser.prefix
      /\ p.active <=> parser.active \/ parser.separator
  BY Activated DEF PathInv
<1>3. /\ Len(wanted) > 1 /\ c = wanted[Len(wanted)] /\ Len(rest) = 1
      /\ rest[1] \in Final /\ Holds(parser, Len(wanted) - 1) /\ Begun
      /\ Fresh(parser) /\ Len(seen) = Len(wanted) - 1 /\ expect = "word"
  BY <1>1, <1>2 DEF Joining, Replaying
<1>4. /\ seen \in Seq(Word) /\ wanted \in Seq(Word) /\ PrefixFits /\ wanted' = wanted
      /\ Alternates(p.prefix) /\ Len(p.prefix) <= 2 * Len(seen)
  BY <1>2, <1>3 DEF PathInv, HeaderTypes, history, Fresh
<1>5. Len(seen) + 1 = Len(wanted) /\ Len(seen) < Len(wanted)
  BY <1>0, <1>3
<1>6. /\ c \in Word /\ Append(seen, c) = SubSeq(wanted, 1, Len(wanted))
      /\ wanted \in Header => Begins(Append(seen, c))
  BY <1>3, <1>4, <1>5, GoesOn
<1>7. SubSeq(wanted, 1, Len(wanted)) = wanted
  BY <1>4
<1>8. Append(seen, c) = wanted
  BY <1>6, <1>7
<1> HIDE DEF p, c
<1>9. CASE TakeWord(p, c, None)
  <2>1. /\ expect' = "colon" /\ pc' = "parse" /\ seen' = wanted
    BY <1>1, <1>2, <1>4, <1>8, <1>9, WordTaken DEF TakeWord
  <2>2. Fresh(parser)'
    <3>1. seen' # << >>
      BY <1>3, <2>1
    <3> QED BY <1>1, <2>1, <3>1 DEF PathInv, Waiting
  <2>3. Begun' /\ Len(seen') = Len(wanted') /\ Len(seen') > 0
    BY <1>3, <1>4, <2>1 DEF Begun
  <2>4. (Plain(wanted) => Holds(parser, Len(wanted) - 1))'
    <3>1. SUFFICES ASSUME Plain(wanted) PROVE Holds(parser, Len(wanted) - 1)'
      BY <1>4
    <3>2. wanted \notin PrefixRule
      BY <3>1 DEF Plain
    <3>3. parser' = p
      BY <1>8, <1>9, <3>2 DEF TakeWord
    <3> QED BY <1>2, <1>3, <1>4, <3>3 DEF Holds
  <2>5. Left(rest', wanted, 2 * l)
    <3>1. Len(rest') = 2 * l - 2 * l + 1 /\ 2 * l - 2 * l + 1 = 1
      BY <1>1, <1>3
    <3>2. ASSUME NEW k \in 1..l PROVE ~(2 * k - 1 >= 2 * l)
      OBVIOUS
    <3>3. ASSUME NEW k \in 1..l - 1 PROVE ~(2 * k >= 2 * l)
      OBVIOUS
    <3> QED BY <1>l, <1>1, <1>3, <3>1, <3>2, <3>3, Zenon DEF Left
  <2>6. Left(rest, wanted, 2 * Len(seen))'
    BY <1>l, <1>4, <2>1, <2>5, Zenon
  <2>7. Reading'
    BY <1>1, <1>4, <2>1, <2>2, <2>3, <2>4, <2>6 DEF Reading
  <2> QED BY <2>1, <2>7 DEF Carries, RunsAsWritten
<1>10. CASE ~TakeWord(p, c, None)
  <2>1. ~TakeColon(p, c) /\ ~TakeEnd(p, c)
    BY <1>6, TokensDiffer DEF TakeColon, TakeEnd
  <2>2. TakeError(p, c)
    BY <1>1, <1>10, <2>1 DEF Push
  <2>3. wanted \notin Header
    BY <1>3, <1>6, <2>2 DEF TakeError
  <2> QED BY <2>2, <2>3, Refused
<1> QED BY <1>9, <1>10

(* The assertion of parser_replay_prefix() holds where the path is known.  *)
LEMMA ReplayHolds ==
  ASSUME PathInv, HeaderTypes, ReplayFails, Leading \/ Reading \/ Starting \/ Joining
  PROVE  FALSE
<1> DEFINE p == ReplayActive(parser)
<1>1. /\ p.active /\ ~ReplayHasToken(p)
      /\ state = "PREFIX" \/ (rest # << >> /\ Head(rest) # ":")
  BY DEF ReplayFails
<1>2. /\ p \in Parser /\ p.idx = parser.idx /\ p.prefix = parser.prefix
      /\ p.active <=> parser.active \/ parser.separator
  BY Activated DEF PathInv
<1>3. ~Leading /\ ~Reading
  BY <1>1, <1>2 DEF Leading, Reading, Fresh
<1> HIDE DEF p
<1>4. PICK l \in Nat : l = Len(wanted) /\ wanted \in Seq(Word)
  BY DEF HeaderTypes
<1>5. /\ l > 1 /\ Len(p.prefix) = 2 * (l - 1)
      /\ \A i \in 1..l - 1 : p.prefix[2 * i - 1] = wanted[i]
  BY <1>2, <1>3, <1>4 DEF Starting, Joining, Holds
<1>6. \A i \in 1..l : wanted[i] \in Word
  BY <1>4
<1>7. PICK n \in Nat : n = Len(seen)
  BY DEF PathInv
<1>8. \/ p.idx = 0
      \/ p.idx < Len(p.prefix) /\ p.idx = 2 * n
      \/ p.idx < Len(p.prefix) /\ p.idx = 2 * n - 1 /\ n > 0
  BY <1>1, <1>2, <1>3, <1>7 DEF Starting, Joining, Waiting, Replaying, Fresh
<1>9. p.idx < Len(p.prefix)
  BY <1>5, <1>8
<1>10. CASE p.idx = 0
  <2>1. 1 \in 1..l - 1 /\ 1 \in 1..l /\ 2 * 1 - 1 = 0 + 1
    BY <1>5
  <2>2. p.prefix[0 + 1] = wanted[1] /\ wanted[1] \in Word
    BY <1>5, <1>6, <2>1, Zenon
  <2> QED BY <1>1, <1>9, <1>10, <2>2, TokensDiffer DEF ReplayHasToken
<1>11. CASE p.idx = 2 * n
  <2>1. n + 1 \in 1..l - 1 /\ n + 1 \in 1..l /\ 2 * (n + 1) - 1 = 2 * n + 1
    BY <1>5, <1>9, <1>11
  <2>2. p.prefix[2 * n + 1] = wanted[n + 1] /\ wanted[n + 1] \in Word
    <3>1. p.prefix[2 * (n + 1) - 1] = wanted[n + 1] /\ wanted[n + 1] \in Word
      BY <1>5, <1>6, <2>1, Zenon
    <3> QED BY <2>1, <3>1
  <2> QED BY <1>1, <1>9, <1>11, <2>2, TokensDiffer DEF ReplayHasToken
<1>12. CASE p.idx = 2 * n - 1 /\ n > 0
  <2>1. n - 1 \in Nat /\ 2 * (n - 1) + 2 = 2 * n - 1 + 1
        /\ 2 * (n - 1) + 2 \in 1..Len(p.prefix)
    BY <1>5, <1>9, <1>12
  <2>2. p.prefix[2 * n - 1 + 1] = ":"
    BY <1>2, <2>1 DEF PathInv, Alternates
  <2> QED BY <1>1, <1>9, <1>12, <2>2, TokensDiffer DEF ReplayHasToken
<1> QED BY <1>8, <1>10, <1>11, <1>12

(* A step of the loop keeps the kinds of the variables and the history.    *)
LEMMA LoopTypes ==
  ASSUME HeaderTypes, Lex \/ LexSuffix \/ Replay \/ ReplayEnds \/ ReplayFails
  PROVE  UNCHANGED history /\ HeaderTypes' /\ pc = "parse"
<1>1. UNCHANGED history /\ pc = "parse" /\ (rest' = rest \/ (rest # << >> /\ rest' = Tail(rest)))
  BY DEF Lex, LexSuffix, Replay, ReplayEnds, ReplayFails
<1>2. rest' \in Seq(Scan)
  <2>1. rest \in Seq(Scan)
    BY DEF HeaderTypes
  <2>2. rest # << >> => Tail(rest) \in Seq(Scan)
    BY <2>1, HeadTailProperties
  <2> QED BY <1>1, <2>1, <2>2
<1> QED BY <1>1, <1>2 DEF HeaderTypes, history

LEMMA LoopCarries ==
  ASSUME PathInv, PathInv', HeaderInv, kept,
         Lex \/ LexSuffix \/ Replay \/ ReplayEnds \/ ReplayFails
  PROVE  Carries
<1>1. HeaderTypes /\ UNCHANGED history /\ pc = "parse"
  BY LoopTypes DEF HeaderInv
<1>2. Leading \/ Reading \/ Starting \/ Joining
  BY <1>1 DEF HeaderInv
<1>3. CASE Lex
  <2>1. ~Starting
    BY <1>1, <1>3, LexNotStarting
  <2>2. ~Joining
    BY <1>3 DEF Lex, Joining
  <2> QED BY <1>1, <1>2, <1>3, <2>1, <2>2, LexLeading, LexWord, LexBehindWord
<1>4. CASE LexSuffix
  <2>1. ~Leading /\ ~Joining
    BY <1>4 DEF LexSuffix, Leading, Joining
  <2>2. ~Reading
    <3>1. ASSUME Fresh(parser) PROVE ~ReplayActive(parser).active
      BY <3>1, Activated DEF PathInv, Fresh
    <3> QED BY <1>4, <3>1 DEF LexSuffix, Reading
  <2> QED BY <1>1, <1>2, <1>4, <2>1, <2>2, LexSuffixJoins
<1>5. CASE Replay
  <2>1. ~Leading /\ ~Reading /\ ~Starting
    BY <1>5 DEF Replay, Leading, Reading, Starting
  <2> QED BY <1>1, <1>2, <1>5, <2>1, ReplayJoins
<1>6. CASE ReplayEnds
  <2>1. ~Leading /\ ~Reading /\ ~Starting
    BY <1>6 DEF ReplayEnds, Leading, Reading, Starting
  <2> QED BY <1>1, <1>2, <1>6, <2>1, ReplayEndsJoins
<1>7. CASE ReplayFails
  BY <1>1, <1>2, <1>7, ReplayHolds
<1> QED BY <1>3, <1>4, <1>5, <1>6, <1>7

LEMMA LoopStep ==
  ASSUME PathInv, PathInv', HeaderInv,
         Lex \/ LexSuffix \/ Replay \/ ReplayEnds \/ ReplayFails
  PROVE  HeaderInv' /\ RunsAsWritten
<1>1. UNCHANGED history /\ HeaderTypes'
  BY LoopTypes DEF HeaderInv
<1>2. kept' = kept /\ wanted' = wanted /\ path' = path
  BY <1>1 DEF history
<1>3. (pc = "command" => ~parser.active /\ parser.idx = 0)'
  BY DEF PathInv, Waiting
<1>4. CASE ~kept
  BY <1>1, <1>2, <1>3, <1>4 DEF HeaderInv, ReplayIsOver, RunsAsWritten
<1>5. CASE kept
  <2>1. Carries
    BY <1>5, LoopCarries
  <2>2. Plain(wanted)' = Plain(wanted)
    BY <1>2 DEF Plain
  <2>3. ReplayIsOver'
    <3>1. SUFFICES ASSUME pc' = "command", Plain(wanted)
                   PROVE  (/\ Len(parser.prefix) = 2 * Len(Front(wanted))
                           /\ \A i \in 1..Len(Front(wanted)) :
                                parser.prefix[2 * i - 1] = wanted[i])'
      BY <1>3, <2>2 DEF ReplayIsOver
    <3>2. Holds(parser, Len(wanted) - 1)'
      BY <2>1, <3>1 DEF Carries
    <3>3. Len(Front(wanted)) = Len(wanted) - 1
      BY <3>1 DEF Front, HeaderInv, HeaderTypes, Plain
    <3>4. Len(Front(wanted)') = Len(wanted') - 1
      BY <1>2, <3>3 DEF Front
    <3> QED BY <3>2, <3>4 DEF Holds
  <2>4. kept' /\ Plain(wanted)' => path' = Front(wanted)'
    BY <1>2, <1>5, <2>2 DEF HeaderInv, Front
  <2> QED BY <1>1, <2>1, <2>3, <2>4 DEF HeaderInv, Carries
<1> QED BY <1>4, <1>5

----------------------------------------------------------------------------
(* The client.                                                             *)

LEMMA TailWords ==
  ASSUME NEW words \in Tails
  PROVE  words \in Seq(Word) /\ Len(words) \in Nat /\ Len(words) > 0
<1>0. PICK h \in Header : \E n \in DOMAIN h : words = SubSeq(h, n, Len(h))
  BY DEF Tails
<1>1. PICK n \in DOMAIN h : words = SubSeq(h, n, Len(h))
  BY <1>0
<1>2. h \in Seq(Word) /\ n \in 1..Len(h) /\ Len(h) \in Nat
  BY <1>1, HeaderWords
<1> QED BY <1>1, <1>2

(* A header behind ':' or not, as the scanner gives it.                    *)
LEMMA Given ==
  ASSUME NEW words \in Seq(Word), Len(words) > 0, NEW last \in Final
  PROVE  /\ << >> \o Tokens(words) \o << last >> \in Seq(Scan)
         /\ Left(<< >> \o Tokens(words) \o << last >>, words, 1)
         /\ << ":" >> \o Tokens(words) \o << last >> \in Seq(Scan)
         /\ << ":" >> \o Tokens(words) \o << last >> # << >>
         /\ Head(<< ":" >> \o Tokens(words) \o << last >>) = ":"
         /\ Left(Tail(<< ":" >> \o Tokens(words) \o << last >>), words, 1)
<1> DEFINE t == Tokens(words)  e == << last >>  b == << ":" >>
<1>1. t \o e \in Seq(Scan) /\ Left(t \o e, words, 1) /\ t \in Seq(Scan)
  BY Written1
<1>2. e \in Seq(Scan) /\ b \in Seq(Scan) /\ Len(b) = 1 /\ b[1] = ":"
  <2>1. last \in Scan /\ ":" \in Scan
    BY DEF Scan, Token
  <2> QED BY <2>1
<1> HIDE DEF t, e, b
<1>3. << >> \o t = t
  BY <1>1, ConcatEmptySeq, Zenon
<1>4. (b \o t) \o e = b \o (t \o e)
  <2>1. ASSUME NEW r \in Seq(Scan), NEW s \in Seq(Scan), NEW u \in Seq(Scan)
        PROVE  (r \o s) \o u = r \o (s \o u)
    BY ConcatAssociative
  <2> QED BY <1>1, <1>2, <2>1, Zenon
<1>5. PICK w \in Seq(Scan) : w = t \o e
  BY <1>1
<1>6. /\ b \o w \in Seq(Scan) /\ Len(b \o w) = Len(b) + Len(w)
      /\ \A i \in 1..Len(b) + Len(w) : (b \o w)[i] = IF i <= Len(b) THEN b[i] ELSE w[i - Len(b)]
  BY <1>2, ConcatProperties, Zenon
<1>7. PICK v \in Seq(Scan) : v = b \o w
  BY <1>6
<1>8. PICK k \in Nat : k = Len(w)
  OBVIOUS
<1>9. /\ Len(v) = 1 + k
      /\ \A i \in 1..1 + k : v[i] = IF i <= 1 THEN b[i] ELSE w[i - 1]
  BY <1>2, <1>6, <1>7, <1>8
<1>10. v # << >> /\ Head(v) = v[1] /\ v[1] = ":"
  <2>1. 1 \in 1..1 + k /\ 1 <= 1 /\ 1 + k > 0
    BY <1>8
  <2>2. v[1] = ":"
    BY <1>2, <1>9, <2>1, Zenon
  <2> QED BY <1>9, <2>1, <2>2
<1>11. Tail(v) = w
  <2>1. /\ Tail(v) \in Seq(Scan) /\ Len(Tail(v)) = Len(v) - 1
        /\ \A i \in 1..Len(Tail(v)) : Tail(v)[i] = v[i + 1]
    BY <1>10, HeadTailProperties
  <2>2. Len(Tail(v)) = k
    BY <1>9, <2>1
  <2>3. ASSUME NEW i \in 1..k PROVE Tail(v)[i] = w[i]
    <3>1. i + 1 \in 1..1 + k /\ ~(i + 1 <= 1) /\ i + 1 - 1 = i
      OBVIOUS
    <3>2. v[i + 1] = w[i + 1 - 1]
      <4>1. PICK j \in Int : j = i + 1
        BY <3>1
      <4>2. j \in 1..1 + k /\ ~(j <= 1)
        BY <3>1, <4>1
      <4>3. v[j] = w[j - 1]
        BY <1>9, <4>2, Zenon
      <4> QED BY <4>1, <4>3
    <3>3. Tail(v)[i] = v[i + 1]
      BY <2>1, <2>2, Zenon
    <3> QED BY <3>1, <3>2, <3>3
  <2> QED BY <1>8, <2>1, <2>2, <2>3, SeqEqual
<1>12. /\ << >> \o t \o e \in Seq(Scan) /\ Left(<< >> \o t \o e, words, 1)
  BY <1>1, <1>3, Zenon
<1>13. /\ (b \o t) \o e = v /\ Left(Tail(v), words, 1)
  BY <1>1, <1>4, <1>5, <1>7, <1>11, Zenon
<1> QED BY <1>10, <1>12, <1>13, Zenon DEF t, e, b

(* A line begins with no path.                                             *)
LEMMA NewLine ==
  ASSUME parser \in Parser, Alternates(parser.prefix)
  PROVE  ReplayReset(Separator(parser, FALSE)).prefix = << >>
<1> DEFINE p == Separator(parser, FALSE)
<1>1. p \in Parser /\ p.prefix = << >>
  BY Separated
<1> HIDE DEF p
<1>2. ReplayReset(p).prefix = << >>
  BY <1>1 DEF ReplayReset, Parser
<1> QED BY <1>2 DEF p

LEMMA AbsoluteHistory ==
  ASSUME NEW words \in Header, NEW p \in Seq(Word), Written(TRUE, words, p)
  PROVE  /\ kept' = TRUE /\ wanted' = words /\ path' \in Seq(Word)
         /\ Plain(wanted)' => path' = Front(wanted)'
<1>1. /\ kept' = TRUE /\ wanted' = words
      /\ path' = IF words \in Common THEN p ELSE Front(words)
  BY DEF Written
<1>2. words \in Seq(Word) /\ Len(words) > 0
  BY HeaderWords
<1>3. Front(words) \in Seq(Word)
  BY <1>2 DEF Front
<1>4. words \in Common => Len(words) = 1
  BY HeaderAssumption
<1>5. Plain(wanted)' => words \notin Common
  <2>1. Plain(words) => Len(words) > 1
    BY Zenon DEF Plain
  <2>2. Plain(wanted)' => Plain(words)
    BY <1>1, Zenon DEF Plain
  <2>3. ~(1 > 1)
    OBVIOUS
  <2> QED BY <1>4, <2>1, <2>2, <2>3, Zenon
<1> QED BY <1>1, <1>3, <1>5 DEF Front

LEMMA BeginLineStep ==
  ASSUME PathInv, PathInv', NEW colon \in BOOLEAN, NEW words \in Header, NEW last \in Final,
         BeginLine(colon, words, last)
  PROVE  HeaderInv'
<1>1. /\ pc' = "parse" /\ state' = "LEX" /\ seen' = << >> /\ expect' = "line"
      /\ rest' = (IF colon THEN << ":" >> ELSE << >>) \o Tokens(words) \o << last >>
      /\ parser' = ReplayReset(Separator(parser, FALSE))
      /\ Written(TRUE, words, << >>)
  BY DEF BeginLine
<1>2. words \in Seq(Word) /\ Len(words) > 0 /\ << >> \in Seq(Word)
  BY HeaderWords
<1>3. /\ kept' = TRUE /\ wanted' = words /\ path' \in Seq(Word)
      /\ Plain(wanted)' => path' = Front(wanted)'
  BY <1>1, <1>2, AbsoluteHistory
<1>4. Fresh(parser)'
  BY <1>1 DEF PathInv, Waiting
<1>5. parser'.prefix = << >> /\ parser'.idx = 0
  BY <1>1, <1>4, NewLine DEF PathInv, Fresh
<1>6. Len(seen') = 0 /\ Len(parser'.prefix) = 0 /\ 2 * Len(seen') + 1 = 1
  <2>1. Len(<< >>) = 0
    OBVIOUS
  <2>2. Len(seen') = 0 /\ Len(parser'.prefix) = 0
    BY <1>1, <1>5, <2>1, Zenon
  <2> QED BY <2>2
<1>7. rest' \in Seq(Scan) /\ (Leading' \/ Reading')
  <2>1. CASE colon
    <3>1. rest' = << ":" >> \o Tokens(words) \o << last >>
      BY <1>1, <2>1
    <3>2. rest' \in Seq(Scan) /\ rest' # << >> /\ Head(rest') = ":" /\ Left(Tail(rest'), words, 1)
      BY <1>2, <3>1, Given, Zenon
    <3>3. Left(Tail(rest), wanted, 1)'
      BY <1>3, <3>2, Zenon
    <3>4. Leading'
      BY <1>1, <1>3, <1>5, <3>2, <3>3 DEF Leading
    <3> QED BY <3>2, <3>4
  <2>2. CASE ~colon
    <3>1. rest' = << >> \o Tokens(words) \o << last >>
      BY <1>1, <2>2
    <3>2. rest' \in Seq(Scan) /\ Left(rest', words, 1)
      BY <1>2, <3>1, Given, Zenon
    <3>3. Left(rest, wanted, 2 * Len(seen) + 1)'
      BY <1>3, <1>6, <3>2, Zenon
    <3>4. Begun' /\ Holds(parser, Len(seen))'
      BY <1>2, <1>3, <1>6 DEF Begun, Holds
    <3>5. Reading'
      BY <1>1, <1>2, <1>3, <1>4, <1>6, <3>3, <3>4 DEF Reading
    <3> QED BY <3>2, <3>5
  <2> QED BY <2>1, <2>2
<1>8. wanted' \in Seq(Word)
  BY <1>2, <1>3
<1> QED BY <1>1, <1>3, <1>7, <1>8 DEF HeaderInv, HeaderTypes, ReplayIsOver

LEMMA NextAbsoluteStep ==
  ASSUME PathInv, PathInv', HeaderInv, NEW words \in Header, NEW last \in Final,
         NextCommand(TRUE, words, last)
  PROVE  HeaderInv'
<1>1. /\ pc = "command" /\ pc' = "parse"
      /\ rest' = << ":" >> \o Tokens(words) \o << last >>
      /\ Written(TRUE, words, path) /\ UNCHANGED << state, parser, seen, expect >>
  BY DEF NextCommand
<1>2. words \in Seq(Word) /\ Len(words) > 0
  BY HeaderWords
<1>3. /\ kept' = TRUE /\ wanted' = words /\ path' \in Seq(Word)
      /\ Plain(wanted)' => path' = Front(wanted)'
  BY <1>1, AbsoluteHistory DEF HeaderInv, HeaderTypes
<1>4. state' = "LEX" /\ seen' = << >> /\ expect' = "start" /\ parser'.idx = 0
  BY <1>1 DEF PathInv, Waiting
<1>5. rest' \in Seq(Scan) /\ rest' # << >> /\ Head(rest') = ":" /\ Left(Tail(rest'), words, 1)
  BY <1>1, <1>2, Given, Zenon
<1>6. Left(Tail(rest), wanted, 1)'
  BY <1>3, <1>5, Zenon
<1>7. Leading'
  BY <1>3, <1>4, <1>5, <1>6 DEF Leading
<1> QED BY <1>1, <1>2, <1>3, <1>5, <1>7 DEF HeaderInv, HeaderTypes, ReplayIsOver

(* A relative word behind a path that the code keeps.                      *)
LEMMA NextRelativeStep ==
  ASSUME PathInv, PathInv', HeaderInv, NEW words \in Tails, NEW last \in Final,
         NextCommand(FALSE, words, last)
  PROVE  HeaderInv'
<1> DEFINE known == kept /\ Plain(wanted) /\ Len(words) = 1 /\ words \notin Common
<1>1. /\ pc = "command" /\ pc' = "parse"
      /\ rest' = << >> \o Tokens(words) \o << last >>
      /\ Written(FALSE, words, path) /\ UNCHANGED << state, parser, seen, expect >>
  BY DEF NextCommand
<1>2. words \in Seq(Word) /\ Len(words) > 0
  BY TailWords
<1>3. rest' \in Seq(Scan) /\ Left(rest', words, 1)
  BY <1>1, <1>2, Given, Zenon
<1>4. path \in Seq(Word) /\ wanted \in Seq(Word)
  BY DEF HeaderInv, HeaderTypes
<1>5. CASE ~known
  <2>1. /\ kept' = FALSE /\ wanted' = << >>
        /\ path' = IF words \in Common THEN path ELSE Front(<< >>)
    BY <1>1, <1>5 DEF Written
  <2>2. << >> \in Seq(Word) /\ Front(<< >>) \in Seq(Word)
    BY DEF Front
  <2>3. path' \in Seq(Word) /\ wanted' \in Seq(Word)
    BY <1>4, <2>1, <2>2
  <2> QED BY <1>1, <1>3, <2>1, <2>3 DEF HeaderInv, HeaderTypes, ReplayIsOver
<1>6. CASE known
  <2>1. kept' = TRUE /\ wanted' = path \o words /\ path' = Front(path \o words)
    BY <1>1, <1>6 DEF Written
  <2>2. path = Front(wanted) /\ Len(wanted) > 1
    BY <1>6 DEF HeaderInv, Plain
  <2>3. PICK l \in Nat : l = Len(wanted) /\ l > 1
    BY <1>4, <2>2
  <2>4. Len(path) = l - 1 /\ \A i \in 1..l - 1 : path[i] = wanted[i]
    BY <1>4, <2>2, <2>3 DEF Front
  <2>5. Len(words) = 1
    BY <1>6
  <2>6. /\ path \o words \in Seq(Word) /\ Len(path \o words) = Len(path) + Len(words)
        /\ \A i \in 1..Len(path) + Len(words) :
             (path \o words)[i] = IF i <= Len(path) THEN path[i] ELSE words[i - Len(path)]
    BY <1>2, <1>4, ConcatProperties, Zenon
  <2>7. PICK w \in Seq(Word) : w = path \o words
    BY <2>6
  <2>8. /\ Len(w) = l /\ \A i \in 1..l - 1 : w[i] = wanted[i]
        /\ w[l] = words[1]
    <3>1. Len(path) + Len(words) = l
      BY <2>3, <2>4, <2>5
    <3>2. ASSUME NEW i \in 1..l - 1 PROVE w[i] = wanted[i]
      <4>1. i \in 1..l /\ i <= l - 1
        BY <2>3
      <4>2. w[i] = path[i]
        BY <2>4, <2>6, <2>7, <3>1, <4>1, Zenon
      <4> QED BY <2>4, <4>2, Zenon
    <3>3. w[l] = words[1]
      <4>1. l \in 1..l /\ ~(l <= l - 1) /\ l - (l - 1) = 1
        BY <2>3
      <4>2. w[l] = words[l - (l - 1)]
        BY <2>4, <2>6, <2>7, <3>1, <4>1, Zenon
      <4> QED BY <4>1, <4>2
    <3> QED BY <2>6, <2>7, <3>1, <3>2, <3>3
  <2>9. wanted' = w /\ path' = Front(w)
    BY <2>1, <2>7
  <2>10. Front(w) \in Seq(Word)
    BY <2>3, <2>8 DEF Front
  <2>11. /\ Len(rest') = 2 /\ rest'[1] = words[1] /\ rest'[2] \in Final
    <3>1. /\ Len(rest') = 2 * Len(words) - 1 + 1
          /\ \A k \in 1..Len(words) : 2 * k - 1 >= 1 => rest'[2 * k - 1] = words[k]
          /\ rest'[2 * Len(words) - 1 + 1] \in Final
      BY <1>3, Zenon DEF Left
    <3>2. 2 * 1 - 1 + 1 = 2 /\ 2 * 1 - 1 = 1 /\ 1 \in 1..1 /\ 1 >= 1
      OBVIOUS
    <3>3. Len(rest') = 2 * 1 - 1 + 1 /\ rest'[2 * 1 - 1] = words[1] /\ rest'[2 * 1 - 1 + 1] \in Final
      BY <2>5, <3>1, <3>2
    <3> QED BY <3>2, <3>3
  <2>12. Holds(parser, Len(wanted) - 1)'
    <3>1. /\ Len(parser.prefix) = 2 * Len(Front(wanted))
          /\ \A i \in 1..Len(Front(wanted)) : parser.prefix[2 * i - 1] = wanted[i]
      BY <1>1, <1>6 DEF HeaderInv, ReplayIsOver
    <3>2. Len(Front(wanted)) = l - 1
      BY <2>2, <2>4
    <3>3. parser' = parser /\ Len(wanted') - 1 = l - 1
      BY <1>1, <2>8, <2>9
    <3> QED BY <2>8, <2>9, <3>1, <3>2, <3>3 DEF Holds
  <2>13. state' = "LEX" /\ Waiting(parser)'
    BY <1>1 DEF PathInv, Waiting
  <2>14. Starting'
    BY <2>3, <2>8, <2>9, <2>11, <2>12, <2>13 DEF Starting
  <2>15. (kept /\ Plain(wanted) => path = Front(wanted))'
    BY <2>9 DEF Front
  <2> QED BY <1>1, <1>3, <2>1, <2>9, <2>10, <2>14, <2>15 DEF HeaderInv, HeaderTypes, ReplayIsOver
<1> QED BY <1>5, <1>6

LEMMA HeaderClientStep ==
  ASSUME PathInv, PathInv', HeaderInv, Client
  PROVE  HeaderInv' /\ RunsAsWritten
<1>1. PICK last \in Final :
        \/ BeginEmpty(last)
        \/ \E colon \in BOOLEAN, words \in Header : BeginLine(colon, words, last)
        \/ \E words \in Header : NextCommand(TRUE, words, last)
        \/ \E words \in Tails : NextCommand(FALSE, words, last)
  BY Zenon DEF Client, Final
<1>2. pc # "parse"
  BY <1>1 DEF BeginEmpty, BeginLine, NextCommand
<1>3. RunsAsWritten
  BY <1>2 DEF RunsAsWritten
<1>4. CASE BeginEmpty(last)
  <2>1. rest' = << last >> /\ pc' = "parse" /\ path' = << >> /\ wanted' = << >> /\ kept' = FALSE
    BY <1>4 DEF BeginEmpty
  <2>2. rest' \in Seq(Scan)
    <3>1. last \in Scan
      BY DEF Scan
    <3> QED BY <2>1, <3>1
  <2>3. path' \in Seq(Word) /\ wanted' \in Seq(Word)
    <3>1. << >> \in Seq(Word)
      OBVIOUS
    <3> QED BY <2>1, <3>1, Zenon
  <2> QED BY <1>3, <2>1, <2>2, <2>3 DEF HeaderInv, HeaderTypes, ReplayIsOver
<1>5. CASE \E colon \in BOOLEAN, words \in Header : BeginLine(colon, words, last)
  BY <1>3, <1>5, BeginLineStep
<1>6. CASE \E words \in Header : NextCommand(TRUE, words, last)
  BY <1>3, <1>6, NextAbsoluteStep
<1>7. CASE \E words \in Tails : NextCommand(FALSE, words, last)
  BY <1>3, <1>7, NextRelativeStep
<1> QED BY <1>1, <1>4, <1>5, <1>6, <1>7

LEMMA HeaderStep ==
  ASSUME PathInv, PathInv', HeaderInv, [Next]_vars
  PROVE  HeaderInv' /\ RunsAsWritten
<1>1. CASE UNCHANGED vars
  <2>1. UNCHANGED << pc, rest, state, suffix, parser, seen, expect >> /\ UNCHANGED << path, wanted, kept >>
    BY <1>1 DEF vars, history
  <2>2. HeaderTypes' /\ ReplayIsOver' /\ (kept /\ Plain(wanted) => path = Front(wanted))'
    BY <2>1 DEF HeaderInv, HeaderTypes, ReplayIsOver, Plain, Front
  <2>3. (pc = "parse" /\ kept => Leading \/ Reading \/ Starting \/ Joining)'
    <3>1. (Leading \/ Reading) => (Leading \/ Reading)'
      BY <2>1 DEF Leading, Reading, Fresh, Begun, Holds, Plain
    <3>2. Starting => Starting'
      BY <2>1 DEF Starting, Waiting, Holds
    <3>3. Joining => Joining'
      BY <2>1 DEF Joining, Replaying, Fresh, Begun, Holds
    <3> QED BY <2>1, <3>1, <3>2, <3>3 DEF HeaderInv
  <2> QED BY <2>1, <2>2, <2>3 DEF HeaderInv, RunsAsWritten
<1> QED BY <1>1, HeaderClientStep, LoopStep DEF Next

LEMMA HeaderInit == Init => HeaderInv
<1> SUFFICES ASSUME Init PROVE HeaderInv
  OBVIOUS
<1>1. pc = "line" /\ rest = << >> /\ path = << >> /\ wanted = << >> /\ kept = FALSE
  BY DEF Init, history
<1>2. << >> \in Seq(Scan) /\ << >> \in Seq(Word)
  OBVIOUS
<1>3. HeaderTypes
  BY <1>1, <1>2, Zenon DEF HeaderTypes
<1> QED BY <1>1, <1>3 DEF HeaderInv, ReplayIsOver

(* Behind every ';' the replay is over, and the array holds the path that  *)
(* the standard has for the next command, where the rules keep it: for     *)
(* every grammar and every client.                                         *)
THEOREM PathReplayed == Spec => []ReplayIsOver
<1>1. PathInv /\ PathInv' /\ HeaderInv /\ [Next]_vars => HeaderInv'
  BY HeaderStep
<1>2. HeaderInv => ReplayIsOver
  BY DEF HeaderInv
<1> QED BY <1>1, <1>2, HeaderInit, PathInvariant, PTL DEF Spec

(* A command whose path the code is to know runs under the header it       *)
(* stands for: for every grammar whose rules satisfy HeaderAssumption.     *)
THEOREM HeaderRunsAsWritten == Spec => HeaderAsWritten
<1>1. PathInv /\ PathInv' /\ HeaderInv /\ [Next]_vars => HeaderInv'
  BY HeaderStep
<1>2. PathInv /\ PathInv' /\ HeaderInv /\ [Next]_vars
        => [pc = "parse" /\ pc' # "parse" /\ kept /\ wanted \in Header => ran' = wanted]_vars
  BY HeaderStep DEF RunsAsWritten
<1> QED BY <1>1, <1>2, HeaderInit, PathInvariant, PTL DEF Spec, HeaderAsWritten
=============================================================================
