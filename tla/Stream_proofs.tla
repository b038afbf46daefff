--------------------------- MODULE Stream_proofs ----------------------------
(***************************************************************************)
(* What is proved of the client's stream, for buffers of any size: the     *)
(* handlers stay inside the line buffer until a read() has used it up, and *)
(* always inside the output buffer; lines that came whole are processed    *)
(* whole; and a line of queries is answered by its answers.                *)
(***************************************************************************)
EXTENDS ClientStream, SequenceTheorems, WellFoundedInduction, TLAPS

(* The least of some positions.                                            *)
LEMMA LessThan == \A x, y \in Nat : << x, y >> \in OpToRel(<, Nat) <=> x < y
BY DEF OpToRel

LEMMA LeastNumber ==
  ASSUME NEW U, U \subseteq Nat, U # {}
  PROVE  \E x \in U : \A y \in U : x <= y
<1>1. PICK x \in U : \A y \in U : ~(<< y, x >> \in OpToRel(<, Nat))
  BY NatLessThanWellFounded, WFMin, Zenon
<1>2. ASSUME NEW y \in U PROVE x <= y
  <2>1. x \in Nat /\ y \in Nat
    OBVIOUS
  <2>2. ~(y < x)
    BY <1>1, <2>1, LessThan
  <2> QED BY <2>1, <2>2
<1> QED BY <1>2

(* Where the line is.  As a rule it is in the buffer; it is only when a    *)
(* read() has used up the buffer that its last character can be neither a  *)
(* newline nor 0, and only then the line can go on behind the buffer, with *)
(* a length that has wrapped.                                              *)
Within ==
  /\ offset \in 0..BufSize - 1 /\ DOMAIN buf = 1..BufSize
  /\ InBuffer
  /\ line # 0 /\ buf[BufSize] \notin { NL, Nul } => filled

Spilled ==
  /\ offset \in 0..BufSize - 1 /\ DOMAIN buf = 1..BufSize
  /\ filled
  /\ line \in BufSize + 2..BufSize + Word + 1
  /\ len = SizeMax + BufSize + 1 - line

BufferInv == Within \/ Spilled

LEMMA ReadsWithin == ASSUME BufferInv, line = 0 PROVE Within
BY BufSizeAssumption, WordAssumption DEF BufferInv, Spilled

LEMMA LeftoversWithin == ASSUME BufferInv, len < BufSize PROVE Within
BY BufSizeAssumption, WordAssumption DEF BufferInv, Spilled

LEMMA LineWithin == ASSUME BufferInv, HasLine PROVE Within
<1> SUFFICES ASSUME Spilled PROVE FALSE
  BY DEF BufferInv
<1>1. line > BufSize /\ line \in Int /\ BufSize \in Int
  BY BufSizeAssumption, WordAssumption DEF Spilled
<1>2. Reached(NL) = {}
  BY <1>1 DEF Reached
<1> QED BY <1>2 DEF HasLine

(* The first newline is inside the line: behind it there is only 0.        *)
LEMMA EolInLine ==
  ASSUME Within, HasLine
  PROVE  Eol \in line..line + len - 1
<1>1. Eol \in Reached(NL)
  BY DEF HasLine, Eol
<1>2. Eol \in line..BufSize /\ buf[Eol] = NL
  BY <1>1 DEF Reached
<1>3. line \in Nat /\ len \in Nat /\ BufSize \in Nat
  BY BufSizeAssumption DEF Within, InBuffer
<1>4. NL # Nul
  BY CharacterAssumption
<1>5. Eol \notin line + len..BufSize
  BY <1>2, <1>4 DEF Within, InBuffer, HasLine
<1> QED BY <1>2, <1>3, <1>5

LEMMA ReadStep == ASSUME Within, NEW n, Read(n) PROVE Within'
<1>1. n \in Nat /\ n >= 1 /\ offset + n <= BufSize /\ offset \in Nat /\ BufSize \in Nat
  BY BufSizeAssumption DEF Read, Within, InBuffer
<1>2. line' = offset + 1 /\ len' = n /\ offset' = offset
  BY DEF Read
<1>3. \A i \in line' + len'..BufSize : buf'[i] = Nul
  BY <1>1, <1>2 DEF Read
<1>4. DOMAIN buf' = 1..BufSize
  BY DEF Read
<1>5. ASSUME buf'[BufSize] \notin { NL, Nul } PROVE filled'
  <2>1. /\ BufSize \in 1..BufSize /\ ~(BufSize <= offset)
        /\ BufSize <= offset + n => n = BufSize - offset /\ BufSize - offset = n
    BY <1>1, BufSizeAssumption DEF Within
  <2>2. buf'[BufSize] = IF BufSize <= offset + n THEN socket[BufSize - offset] ELSE Nul
    BY <2>1 DEF Read
  <2>3. n = BufSize - offset /\ socket[n] # NL
    BY <1>5, <2>1, <2>2
  <2> QED BY <2>3 DEF Read
<1> QED BY <1>1, <1>2, <1>3, <1>4, <1>5 DEF Within, InBuffer

LEMMA EndOfFileStep == ASSUME Within, ReadEndOfFile PROVE Within'
<1>1. offset \in 0..BufSize - 1 /\ BufSize \in Nat
  BY BufSizeAssumption DEF Within, InBuffer
<1>2. line' = offset + 1 /\ len' = 1 /\ offset' = offset
  BY DEF ReadEndOfFile
<1>3. \A i \in line' + len'..BufSize : buf'[i] = Nul
  BY <1>1, <1>2 DEF ReadEndOfFile
<1>4. DOMAIN buf' = 1..BufSize
  BY DEF ReadEndOfFile
<1>5. buf'[BufSize] = Nul
  BY <1>1 DEF ReadEndOfFile
<1> QED BY <1>1, <1>2, <1>3, <1>4, <1>5 DEF Within, InBuffer

LEMMA AdvanceStep == ASSUME Within, HasLine, Advance PROVE Within'
<1>1. /\ line \in 1..BufSize /\ len \in 1..BufSize /\ line + len - 1 <= BufSize
      /\ BufSize \in Nat
  BY BufSizeAssumption DEF Within, InBuffer, HasLine
<1>2. Eol \in line..line + len - 1
  BY EolInLine
<1>3. PICK e \in line..line + len - 1 : e = Eol
  BY <1>2
<1>4. /\ len' = len - (e - line) - 1 /\ buf' = buf /\ offset' = offset /\ filled' = filled
      /\ line' = IF len' = 0 THEN 0 ELSE e + 1
  BY <1>3 DEF Advance
<1>5. len' \in 0..BufSize /\ line' \in 0..BufSize
  BY <1>1, <1>4
<1>6. line' # 0 => line' + len' = line + len /\ len' >= 1
  BY <1>1, <1>4
<1>7. line' # 0 => \A i \in line' + len'..BufSize : buf'[i] = Nul
  BY <1>1, <1>4, <1>6 DEF Within, InBuffer
<1> QED BY <1>1, <1>4, <1>5, <1>6, <1>7 DEF Within, InBuffer

LEMMA LeftoversStep == ASSUME Within, Leftovers PROVE Within'
<1>1. offset' = len /\ len' = 0 /\ line' = 0 /\ DOMAIN buf' = 1..BufSize
  BY DEF Leftovers
<1>2. len \in Nat /\ len < BufSize /\ BufSize \in Nat
  BY BufSizeAssumption DEF Leftovers, Within, InBuffer
<1> QED BY <1>1, <1>2 DEF Within, InBuffer

(* A line that strchr() does not leave the buffer for, ends before its end. *)
LEMMA OverrunEnd ==
  ASSUME line \in 1..BufSize, Overrun
  PROVE  buf[BufSize] \notin { NL, Nul }
<1> SUFFICES ASSUME buf[BufSize] \in { NL, Nul } PROVE FALSE
  OBVIOUS
<1> DEFINE U == { i \in line..BufSize : buf[i] \in { NL, Nul } }
<1>1. BufSize \in U /\ U \subseteq Nat
  BY BufSizeAssumption
<1>2. PICK i \in U : \A j \in U : i <= j
  <2> HIDE DEF U
  <2> QED BY <1>1, LeastNumber, Zenon
<1>3. ASSUME NEW k \in line..i - 1 PROVE buf[k] \notin { NL, Nul }
  <2>1. k \in line..BufSize /\ ~(i <= k)
    BY <1>2, BufSizeAssumption
  <2> QED BY <1>2, <2>1
<1>4. i \in Reached(NL) \/ i \in Reached(Nul)
  BY <1>2, <1>3 DEF Reached
<1> QED BY <1>4 DEF Overrun

LEMMA BehindStep ==
  ASSUME BufferInv, Overrun, NEW eol \in Behind, AdvanceBehind(eol)
  PROVE  Spilled'
<1>1. /\ BufSize \in Nat /\ Word \in Nat /\ SizeMax \in Nat /\ SizeMax > BufSize + Word
      /\ eol \in BufSize + 1..BufSize + Word /\ eol >= line
  BY BufSizeAssumption, WordAssumption DEF Behind
<1>2. /\ line' = eol + 1 /\ UNCHANGED << buf, offset, filled >>
      /\ len' = IF len - (eol - line) - 1 < 0 THEN len - (eol - line) - 1 + SizeMax
                ELSE len - (eol - line) - 1
  BY DEF AdvanceBehind
<1>3. CASE Within
  <2>1. /\ line \in 1..BufSize /\ len \in 0..BufSize /\ line + len - 1 <= BufSize
        /\ \A i \in line + len..BufSize : buf[i] = Nul
    BY <1>1, <1>3 DEF Within, InBuffer, Overrun
  <2>2. buf[BufSize] \notin { NL, Nul }
    BY <2>1, OverrunEnd
  <2>3. line + len - 1 = BufSize
    BY <1>1, <2>1, <2>2
  <2>4. filled
    BY <1>3, <2>1, <2>2 DEF Within
  <2>5. len - (eol - line) - 1 = BufSize - eol
    BY <1>1, <2>1, <2>3
  <2>6. len' = SizeMax + BufSize - eol
    BY <1>1, <1>2, <2>5
  <2> QED BY <1>1, <1>2, <1>3, <2>4, <2>6 DEF Within, Spilled
<1>4. CASE Spilled
  <2>1. line \in Int /\ len = SizeMax + BufSize + 1 - line /\ filled
    BY <1>1, <1>4 DEF Spilled
  <2>2. len - (eol - line) - 1 = SizeMax + BufSize - eol
    BY <1>1, <2>1
  <2>3. len' = SizeMax + BufSize - eol
    BY <1>1, <1>2, <2>2
  <2> QED BY <1>1, <1>2, <1>4, <2>1, <2>3 DEF Spilled
<1> QED BY <1>3, <1>4 DEF BufferInv

LEMMA BufferStep == ASSUME BufferInv, [Next]_vars PROVE BufferInv'
<1>1. ASSUME UNCHANGED << buf, offset, line, len, filled >> PROVE BufferInv'
  BY <1>1 DEF BufferInv, Within, InBuffer, Spilled
<1>2. CASE ReadWorker
  <2>1. Within
    BY <1>2, ReadsWithin DEF ReadWorker, Read, ReadEndOfFile
  <2> QED BY <1>2, <2>1, ReadStep, EndOfFileStep DEF ReadWorker, BufferInv
<1>3. CASE ProcessText
  BY <1>3, LineWithin, AdvanceStep DEF ProcessText, BufferInv
<1>4. CASE ProcessBehind
  BY <1>4, BehindStep DEF ProcessBehind, BufferInv
<1>5. CASE ProcessLeftovers
  <2>1. Within
    BY <1>5, LeftoversWithin DEF ProcessLeftovers, Leftovers
  <2> QED BY <1>5, <2>1, LeftoversStep DEF ProcessLeftovers, BufferInv
<1>6. CASE Write
  BY <1>1, <1>6 DEF Write, WriteLine
<1>7. CASE ProcessEndOfFile \/ ProcessFails \/ ScannerFails \/ Flush \/ AnswerLate
  BY <1>1, <1>7 DEF ProcessEndOfFile, ProcessFails, ScannerFails, Flush, AnswerLate, streamVars
<1>8. CASE UNCHANGED vars
  BY <1>1, <1>8 DEF vars, streamVars
<1> QED BY <1>2, <1>3, <1>4, <1>5, <1>6, <1>7, <1>8 DEF Next

LEMMA BufferInit == ASSUME Init PROVE BufferInv
<1>1. offset = 0 /\ line = 0 /\ len = 0 /\ DOMAIN buf = 1..BufSize
  BY DEF Init, LineInit
<1>2. 0 \in 0..BufSize - 1 /\ 0 \in 0..BufSize
  BY BufSizeAssumption
<1> QED BY <1>1, <1>2 DEF BufferInv, Within, InBuffer

LEMMA BufferInvariant == Spec => []BufferInv
BY BufferInit, BufferStep, PTL DEF Spec

(* Whatever the client writes and whatever piece of it each read()         *)
(* returns: it takes a read() that uses up the buffer inside a line to     *)
(* make a handler leave it.                                                *)
THEOREM BufferNeverLeft == Spec => []BufferOK
<1>1. BufferInv => BufferOK
  BY DEF BufferInv, Within, Spilled, BufferOK
<1> QED BY <1>1, BufferInvariant, PTL

----------------------------------------------------------------------------
(* The output buffer: what is in it leaves room for a 0.                   *)
Roomy(o, C) ==
  /\ o \in [ text : Seq(C), needSep : BOOLEAN, numElem : Nat, overflow : BOOLEAN ]
  /\ Len(o.text) < OutSize

LEMMA Longer ==
  ASSUME NEW C, NEW o, Roomy(o, C), NEW t \in Seq(C), Len(t) <= Current(o)
  PROVE  Roomy([ o EXCEPT !.text = @ \o t ], C)
<1> DEFINE text == o.text
<1>1. text \in Seq(C) /\ Len(text) < OutSize
  BY DEF Roomy
<1>2. text \o t \in Seq(C) /\ Len(text \o t) = Len(text) + Len(t)
  BY <1>1
<1>3. Len(text) \in Nat /\ Len(t) \in Nat /\ OutSize \in Nat
  BY <1>1, OutSizeAssumption
<1>4. Len(text \o t) < OutSize
  <2>1. Len(t) <= OutSize - Len(text) - 1
    BY DEF Current
  <2> HIDE DEF text
  <2> QED BY <1>2, <1>3, <2>1
<1>5. [ o EXCEPT !.text = text \o t ] \in
        [ text : Seq(C), needSep : BOOLEAN, numElem : Nat, overflow : BOOLEAN ]
  BY <1>2 DEF Roomy
<1>6. [ o EXCEPT !.text = text \o t ].text = text \o t
  BY DEF Roomy
<1> QED BY <1>4, <1>5, <1>6 DEF Roomy

(* The other fields do not matter.                                         *)
LEMMA SameText ==
  ASSUME NEW C, NEW o, Roomy(o, C), NEW sep \in BOOLEAN, NEW n \in Nat
  PROVE  /\ Roomy([ o EXCEPT !.overflow = TRUE ], C)
         /\ Roomy([ o EXCEPT !.numElem = n ], C)
         /\ Roomy([ o EXCEPT !.needSep = sep, !.numElem = n ], C)
BY DEF Roomy

LEMMA AppendRoomy ==
  ASSUME NEW C, NEW o, Roomy(o, C), NEW c \in C
  PROVE  Roomy(AppendChar(o, c), C)
<1>1. << c >> \in Seq(C) /\ Len(<< c >>) = 1
  OBVIOUS
<1>2. o.text \in Seq(C) /\ Append(o.text, c) = o.text \o << c >>
  BY AppendIsConcat DEF Roomy
<1>3. CASE Current(o) > 1
  <2>1. 1 <= Current(o)
    BY <1>3, OutSizeAssumption DEF Current, Roomy
  <2>2. Roomy([ o EXCEPT !.text = @ \o << c >> ], C)
    BY <1>1, <2>1, Longer
  <2> QED BY <1>2, <1>3, <2>2 DEF AppendChar
<1>4. CASE ~(Current(o) > 1)
  BY <1>4, SameText DEF AppendChar
<1> QED BY <1>3, <1>4

LEMMA BeforeRoomy ==
  ASSUME NEW C, ";" \in C, "," \in C, NEW o, Roomy(o, C), NEW s
  PROVE  Roomy(Before(o, s), C)
<1>1. Roomy(AppendChar(o, ";"), C)
  BY AppendRoomy
<1>2. Roomy([ AppendChar(o, ";") EXCEPT !.needSep = FALSE, !.numElem = 0 ], C)
  BY <1>1, SameText
<1>3. Roomy(Separated(o), C)
  BY <1>2 DEF Separated
<1>4. Roomy(AppendChar(Separated(o), ","), C)
  BY <1>3, AppendRoomy
<1> QED BY <1>3, <1>4 DEF Before

LEMMA PutRoomy ==
  ASSUME NEW C, Nul \in C, NEW b, Roomy(b, C), NEW s \in Seq(C), s # << >>
  PROVE  Roomy(Put(b, s), C)
<1>1. Current(b) \in Int /\ Len(s) \in Nat /\ Len(s) > 0
  <2>1. Len(b.text) \in Nat
    BY DEF Roomy
  <2>2. Len(s) \in Nat /\ Len(s) > 0
    BY EmptySeq
  <2> QED BY <2>1, <2>2, OutSizeAssumption DEF Current
<1>2. CASE Len(s) > Current(b)
  BY <1>2, SameText DEF Put
<1>3. CASE Len(s) = Current(b)
  <2> DEFINE t == [ s EXCEPT ![Current(b)] = Nul ]
  <2>1. Current(b) \in 1..Len(s)
    BY <1>1, <1>3
  <2>2. t \in Seq(C) /\ Len(t) = Len(s)
    BY <2>1, ExceptSeq
  <2>3. Put(b, s) = [ b EXCEPT !.text = @ \o t ]
    BY <1>1, <1>3 DEF Put
  <2> HIDE DEF t
  <2>4. Len(t) <= Current(b)
    BY <1>1, <1>3, <2>2
  <2>5. Roomy([ b EXCEPT !.text = @ \o t ], C)
    BY <2>2, <2>4, Longer
  <2> QED BY <2>3, <2>5
<1>4. CASE Len(s) < Current(b)
  <2>0. Len(s) <= Current(b)
    BY <1>1, <1>4
  <2>1. Roomy([ b EXCEPT !.text = @ \o s ], C)
    BY <2>0, Longer
  <2>2. Put(b, s) = [ b EXCEPT !.text = @ \o s ]
    BY <1>1, <1>4 DEF Put
  <2> QED BY <2>1, <2>2
<1> QED BY <1>1, <1>2, <1>3, <1>4

LEMMA CountedRoomy ==
  ASSUME NEW C, NEW p, Roomy(p, C)
  PROVE  Roomy([ p EXCEPT !.numElem = @ + 1 ], C)
<1>1. p.numElem + 1 \in Nat
  BY DEF Roomy
<1> QED BY <1>1, SameText

(* Whatever is in the buffer, an answer of any length leaves it so: what   *)
(* is too long is dropped or cut, never written behind the end.            *)
THEOREM PrintfRoomy ==
  ASSUME NEW C, ";" \in C, "," \in C, Nul \in C,
         NEW o, Roomy(o, C), NEW s \in Seq(C), s # << >>
  PROVE  Roomy(Printf(o, s), C)
<1>1. Roomy(Before(o, s), C)
  BY BeforeRoomy
<1>2. Roomy(Put(Before(o, s), s), C)
  BY <1>1, PutRoomy, Zenon
<1> QED BY <1>2, CountedRoomy, Zenon DEF Printf

----------------------------------------------------------------------------
(* Induction over positions.                                               *)
LEMMA Along ==
  ASSUME NEW T, NEW m \in Nat, 0 \in T, \A n \in 1..m : n - 1 \in T => n \in T
  PROVE  \A n \in 0..m : n \in T
<1> DEFINE U == { n \in 0..m : n \notin T }
<1> SUFFICES ASSUME U # {} PROVE FALSE
  OBVIOUS
<1>1. U \subseteq Nat
  OBVIOUS
<1>2. PICK x \in U : \A y \in U : x <= y
  BY <1>1, LeastNumber
<1>3. x \in 1..m /\ x \notin T
  OBVIOUS
<1>4. x - 1 \in 0..m /\ ~(x <= x - 1)
  BY <1>3
<1>5. x - 1 \in T
  BY <1>2, <1>4
<1> QED BY <1>3, <1>5

----------------------------------------------------------------------------
(* The lines of a piece of the stream.                                     *)
Pieces == Seq(Seq(Char \cup { NL }))

NextFrom(from, s, i) ==
  IF EndsBehind(s, i) = {} THEN << >>
  ELSE LET e == Min(EndsBehind(s, i))
       IN  (IF e = i THEN << >> ELSE << SubSeq(s, i, e - 1) >>) \o from[e + 1]

(* from[i] are the lines that begin at i or behind, for i from k on.       *)
LinesFrom(from, s, k) ==
  /\ from \in [ k..Len(s) + 1 -> Pieces ]
  /\ \A i \in k..Len(s) + 1 : from[i] = NextFrom(from, s, i)

LEMMA FirstEnd ==
  ASSUME NEW S, NEW s \in Seq(S), NEW i \in 1..Len(s) + 1, EndsBehind(s, i) # {}
  PROVE  /\ Min(EndsBehind(s, i)) \in i..Len(s)
         /\ s[Min(EndsBehind(s, i))] = NL
         /\ \A k \in i..Min(EndsBehind(s, i)) - 1 : s[k] # NL
<1>1. PICK E : E = EndsBehind(s, i)
  OBVIOUS
<1>2. E \subseteq i..Len(s) /\ (\A e \in E : s[e] = NL) /\ E # {}
      /\ \A k \in i..Len(s) : s[k] = NL => k \in E
  BY <1>1 DEF EndsBehind
<1>3. PICK x \in E : \A y \in E : x <= y
  <2>1. E \subseteq Nat
    BY <1>2
  <2> QED BY <1>2, <2>1, LeastNumber
<1>4. PICK m : m = Min(E)
  OBVIOUS
<1>5. m \in E /\ \A y \in E : m <= y
  BY <1>3, <1>4, Zenon DEF Min
<1>6. ASSUME NEW k \in i..m - 1 PROVE s[k] # NL
  <2>1. m \in i..Len(s) /\ Len(s) \in Nat
    BY <1>2, <1>5
  <2>2. k \in i..Len(s) /\ ~(m <= k)
    BY <2>1
  <2> QED BY <1>2, <1>5, <2>2
<1> QED BY <1>1, <1>2, <1>4, <1>5, <1>6

(* A first end of a line is the only one.                                  *)
LEMMA OneEnd ==
  ASSUME NEW S, NEW s \in Seq(S), NEW i \in 1..Len(s) + 1, NEW e \in i..Len(s), s[e] = NL,
         \A k \in i..e - 1 : s[k] # NL
  PROVE  EndsBehind(s, i) # {} /\ Min(EndsBehind(s, i)) = e
<1>1. e \in EndsBehind(s, i)
  BY DEF EndsBehind
<1>2. PICK m : m = Min(EndsBehind(s, i))
  OBVIOUS
<1>3. m \in i..Len(s) /\ s[m] = NL /\ \A k \in i..m - 1 : s[k] # NL
  BY <1>1, <1>2, FirstEnd
<1>4. ~(m < e) /\ ~(e < m)
  BY <1>3
<1> QED BY <1>1, <1>2, <1>3, <1>4

LEMMA PiecesConcat ==
  ASSUME NEW s \in Seq(Char \cup { NL }), NEW i \in 1..Len(s) + 1, EndsBehind(s, i) # {},
         NEW from, from[Min(EndsBehind(s, i)) + 1] \in Pieces
  PROVE  NextFrom(from, s, i) \in Pieces
<1>1. PICK e : e = Min(EndsBehind(s, i))
  OBVIOUS
<1>2. e \in i..Len(s)
  BY <1>1, FirstEnd
<1>3. PICK r : r = IF e = i THEN << >> ELSE << SubSeq(s, i, e - 1) >>
  OBVIOUS
<1>4. r \in Pieces
  <2>1. PICK x : x = SubSeq(s, i, e - 1)
    OBVIOUS
  <2>2. e # i => x \in Seq(Char \cup { NL })
    BY <1>2, <2>1
  <2>3. << >> \in Pieces /\ (e # i => << x >> \in Pieces)
    BY <2>2 DEF Pieces
  <2> QED BY <1>3, <2>1, <2>3
<1>5. r \o from[e + 1] \in Pieces
  BY <1>1, <1>4, ConcatProperties DEF Pieces
<1> QED BY <1>1, <1>3, <1>5 DEF NextFrom

LEMMA LinesMore ==
  ASSUME NEW s \in Seq(Char \cup { NL }), NEW k \in 1..Len(s), NEW f, LinesFrom(f, s, k + 1)
  PROVE  \E g : LinesFrom(g, s, k)
<1>1. PICK a : a = NextFrom(f, s, k)
  OBVIOUS
<1>2. Len(s) \in Nat /\ k \in Nat
  OBVIOUS
<1>3. PICK g : g = [ i \in k..Len(s) + 1 |-> IF i = k THEN a ELSE f[i] ]
  OBVIOUS
<1>4. g[k] = a /\ \A i \in k + 1..Len(s) + 1 : g[i] = f[i] /\ f[i] \in Pieces
  <2>1. \A i \in k + 1..Len(s) + 1 : f[i] \in Pieces
    BY DEF LinesFrom
  <2>2. k \in k..Len(s) + 1 /\ \A i \in k + 1..Len(s) + 1 : i \in k..Len(s) + 1 /\ i # k
    BY <1>2
  <2> QED BY <1>3, <2>1, <2>2
<1>5. ASSUME NEW i \in k..Len(s) + 1 PROVE NextFrom(g, s, i) = NextFrom(f, s, i)
  <2>1. CASE EndsBehind(s, i) = {}
    BY <2>1 DEF NextFrom
  <2>2. CASE EndsBehind(s, i) # {}
    <3>1. PICK e : e = Min(EndsBehind(s, i))
      OBVIOUS
    <3>2. i \in 1..Len(s) + 1
      BY <1>2
    <3>3. e \in i..Len(s)
      BY <2>2, <3>1, <3>2, FirstEnd
    <3>4. e + 1 \in k + 1..Len(s) + 1
      BY <1>2, <3>3
    <3>5. g[e + 1] = f[e + 1]
      BY <1>4, <3>4
    <3> QED BY <3>1, <3>5, Zenon DEF NextFrom
  <2> QED BY <2>1, <2>2
<1>6. a \in Pieces
  <2>1. CASE EndsBehind(s, k) = {}
    BY <1>1, <2>1 DEF NextFrom, Pieces
  <2>2. CASE EndsBehind(s, k) # {}
    <3>1. PICK e : e = Min(EndsBehind(s, k))
      OBVIOUS
    <3>2. k \in 1..Len(s) + 1
      BY <1>2
    <3>3. e \in k..Len(s)
      BY <2>2, <3>1, <3>2, FirstEnd
    <3>4. e + 1 \in k + 1..Len(s) + 1
      BY <1>2, <3>3
    <3>5. f[e + 1] \in Pieces
      BY <1>4, <3>4
    <3> QED BY <1>1, <2>2, <3>1, <3>2, <3>5, PiecesConcat
  <2> QED BY <2>1, <2>2
<1>7. \A i \in k..Len(s) + 1 : i = k \/ i \in k + 1..Len(s) + 1
  BY <1>2
<1>8. \A i \in k..Len(s) + 1 : g[i] = NextFrom(g, s, i) /\ g[i] \in Pieces
  <2>1. \A i \in k + 1..Len(s) + 1 : f[i] = NextFrom(f, s, i)
    BY DEF LinesFrom
  <2> QED BY <1>1, <1>4, <1>5, <1>6, <1>7, <2>1
<1>9. g = [ i \in k..Len(s) + 1 |-> g[i] ]
  BY <1>3
<1>10. g \in [ k..Len(s) + 1 -> Pieces ]
  BY <1>8, <1>9, Zenon
<1> QED BY <1>8, <1>10 DEF LinesFrom

LEMMA LinesExist ==
  ASSUME NEW s \in Seq(Char \cup { NL }) PROVE \E f : LinesFrom(f, s, 1)
<1>1. PICK m \in Nat : m = Len(s)
  OBVIOUS
<1> DEFINE T == { n \in 0..m : \E f : LinesFrom(f, s, m + 1 - n) }
<1>2. 0 \in T
  <2>1. PICK f : f = [ i \in m + 1..m + 1 |-> << >> ]
    OBVIOUS
  <2>2. EndsBehind(s, m + 1) = {}
    BY <1>1 DEF EndsBehind
  <2>3. \A i \in m + 1..Len(s) + 1 : i = m + 1 /\ f[i] = << >>
    BY <1>1, <2>1
  <2>4. f \in [ m + 1..Len(s) + 1 -> Pieces ]
    <3>1. << >> \in Pieces
      BY DEF Pieces
    <3> QED BY <1>1, <2>1, <3>1
  <2>5. LinesFrom(f, s, m + 1)
    BY <2>2, <2>3, <2>4, Zenon DEF LinesFrom, NextFrom
  <2>6. m + 1 - 0 = m + 1 /\ 0 \in 0..m
    BY <1>1
  <2> QED BY <2>5, <2>6
<1>3. ASSUME NEW n \in 1..m, n - 1 \in T PROVE n \in T
  <2>1. /\ m + 1 - n \in 1..Len(s) /\ m + 1 - (n - 1) = (m + 1 - n) + 1
        /\ n \in 0..m
    BY <1>1
  <2>2. \E f : LinesFrom(f, s, (m + 1 - n) + 1)
    BY <1>3, <2>1
  <2>3. \E g : LinesFrom(g, s, m + 1 - n)
    BY <2>1, <2>2, LinesMore
  <2> QED BY <2>1, <2>3
<1> HIDE DEF T
<1>4. m \in T
  <2>1. \A n \in 0..m : n \in T
    BY <1>2, <1>3, Along
  <2> QED BY <2>1
<1>5. m + 1 - m = 1
  OBVIOUS
<1> QED BY <1>4, <1>5 DEF T

LEMMA LinesOfFrom ==
  ASSUME NEW s \in Seq(Char \cup { NL })
  PROVE  \E f : LinesFrom(f, s, 1) /\ LinesOf(s) = f[1]
<1> DEFINE Step(h) ==
             [ i \in 1..Len(s) + 1 |->
                 IF EndsBehind(s, i) = {} THEN << >>
                 ELSE LET e == Min(EndsBehind(s, i))
                      IN  (IF e = i THEN << >> ELSE << SubSeq(s, i, e - 1) >>) \o h[e + 1] ]
           F == CHOOSE h : h = Step(h)
<1>1. PICK f : LinesFrom(f, s, 1)
  BY LinesExist
<1>2. f = Step(f)
  <2>1. f = [ i \in 1..Len(s) + 1 |-> f[i] ]
    BY <1>1 DEF LinesFrom
  <2>2. \A i \in 1..Len(s) + 1 : f[i] = Step(f)[i]
    BY <1>1, Zenon DEF LinesFrom, NextFrom
  <2> QED BY <2>1, <2>2, Zenon
<1>3. F = Step(F)
  BY <1>2, Zenon
<1>4. LinesOf(s) = F[1]
  BY Zenon DEF LinesOf
<1>5. \A i \in 1..Len(s) + 1 : F[i] = NextFrom(F, s, i)
  <2> HIDE DEF F
  <2>1. \A i \in 1..Len(s) + 1 : Step(F)[i] = NextFrom(F, s, i)
    BY Zenon DEF NextFrom
  <2> QED BY <1>3, <2>1, Zenon
<1> HIDE DEF F
<1>6. PICK m \in Nat : m = Len(s)
  OBVIOUS
<1> DEFINE T == { n \in 0..m : \A i \in m + 1 - n..m + 1 : F[i] \in Pieces }
<1>7. 0 \in T
  <2>1. EndsBehind(s, m + 1) = {}
    BY <1>6 DEF EndsBehind
  <2>2. m + 1 \in 1..Len(s) + 1
    BY <1>6
  <2>3. F[m + 1] = << >>
    BY <1>5, <2>1, <2>2 DEF NextFrom
  <2>4. F[m + 1] \in Pieces
    BY <2>3 DEF Pieces
  <2>5. \A i \in m + 1 - 0..m + 1 : i = m + 1
    BY <1>6
  <2> QED BY <2>4, <2>5
<1>8. ASSUME NEW n \in 1..m, n - 1 \in T PROVE n \in T
  <2>1. PICK k : k = m + 1 - n
    OBVIOUS
  <2>1a. k \in 1..m /\ m + 1 - (n - 1) = k + 1
    BY <2>1
  <2>2. \A i \in k + 1..m + 1 : F[i] \in Pieces
    BY <1>8, <2>1a
  <2>3. F[k] \in Pieces
    <3>1. k \in 1..Len(s) + 1
      BY <1>6, <2>1a
    <3>2. CASE EndsBehind(s, k) = {}
      <4>1. F[k] = << >>
        BY <1>5, <3>1, <3>2, Zenon DEF NextFrom
      <4> QED BY <4>1 DEF Pieces
    <3>3. CASE EndsBehind(s, k) # {}
      <4>1. PICK e : e = Min(EndsBehind(s, k))
        OBVIOUS
      <4>2. e \in k..Len(s)
        BY <3>1, <3>3, <4>1, FirstEnd
      <4>3. e + 1 \in k + 1..m + 1
        BY <1>6, <2>1a, <4>2
      <4>4. F[e + 1] \in Pieces
        BY <2>2, <4>3
      <4> QED BY <1>5, <3>1, <3>3, <4>1, <4>4, PiecesConcat
    <3> QED BY <3>2, <3>3
  <2>4. \A i \in k..m + 1 : i = k \/ i \in k + 1..m + 1
    BY <2>1a
  <2>5. n \in 0..m
    OBVIOUS
  <2> QED BY <2>1, <2>2, <2>3, <2>4, <2>5
<1> HIDE DEF T
<1>9. m \in T
  <2>1. \A n \in 0..m : n \in T
    BY <1>7, <1>8, Along
  <2> QED BY <2>1
<1>10. \A i \in 1..Len(s) + 1 : F[i] \in Pieces
  <2>1. m + 1 - m = 1
    OBVIOUS
  <2> QED BY <1>6, <1>9, <2>1 DEF T
<1>11. F \in [ 1..Len(s) + 1 -> Pieces ]
  <2>1. F = [ i \in 1..Len(s) + 1 |-> Step(F)[i] ]
    BY <1>3, Zenon
  <2>2. \A i \in 1..Len(s) + 1 : Step(F)[i] \in Pieces
    BY <1>3, <1>10
  <2> HIDE DEF Step
  <2> QED BY <2>1, <2>2, Zenon
<1>12. LinesFrom(F, s, 1)
  BY <1>5, <1>11 DEF LinesFrom
<1> QED BY <1>4, <1>12

----------------------------------------------------------------------------
(* The characters in the buffer and those that were not read yet.          *)
CharsOK ==
  /\ buf \in [ 1..BufSize -> Char \cup { NL, Nul } ]
  /\ socket \in Seq(Char \cup { NL })

LEMMA ReadChars == ASSUME Within, CharsOK, NEW n, Read(n) PROVE CharsOK'
<1>1. /\ n \in 1..Len(socket) /\ offset \in Nat /\ Len(socket) \in Nat
      /\ socket' = SubSeq(socket, n + 1, Len(socket))
  BY DEF Read, Within, InBuffer, CharsOK
<1>2. socket' \in Seq(Char \cup { NL })
  BY <1>1 DEF CharsOK
<1>3. PICK f : /\ f = [ i \in 1..BufSize |->
                          IF i <= offset THEN buf[i]
                          ELSE IF i <= offset + n THEN socket[i - offset] ELSE Nul ]
               /\ buf' = f
  BY DEF Read
<1>4. ASSUME NEW i \in 1..BufSize PROVE f[i] \in Char \cup { NL, Nul }
  <2>1. buf[i] \in Char \cup { NL, Nul }
    BY DEF CharsOK
  <2>2. ~(i <= offset) /\ i <= offset + n => socket[i - offset] \in Char \cup { NL }
    <3>1. ~(i <= offset) /\ i <= offset + n => i - offset \in 1..Len(socket)
      BY <1>1
    <3> QED BY <3>1, ElementOfSeq DEF CharsOK
  <2> QED BY <1>3, <2>1, <2>2
<1>5. f = [ i \in 1..BufSize |-> f[i] ]
  BY <1>3
<1>6. f \in [ 1..BufSize -> Char \cup { NL, Nul } ]
  BY <1>4, <1>5, Zenon
<1> QED BY <1>2, <1>3, <1>6 DEF CharsOK

LEMMA EndOfFileChars == ASSUME CharsOK, ReadEndOfFile PROVE CharsOK'
BY DEF CharsOK, ReadEndOfFile

LEMMA LeftoversChars == ASSUME Within, CharsOK, Leftovers PROVE CharsOK'
<1>1. /\ line \in Nat /\ len \in Nat /\ line # 0 /\ line + len - 1 <= BufSize
      /\ BufSize \in Nat
  BY BufSizeAssumption DEF Leftovers, Within, InBuffer
<1>2. PICK f : /\ f = [ i \in 1..BufSize |-> IF i <= len THEN buf[line + i - 1] ELSE buf[i] ]
               /\ buf' = f /\ socket' = socket
  BY DEF Leftovers
<1>3. ASSUME NEW i \in 1..BufSize PROVE f[i] \in Char \cup { NL, Nul }
  <2>1. i <= len => line + i - 1 \in 1..BufSize
    BY <1>1
  <2> QED BY <1>2, <2>1 DEF CharsOK
<1>4. f = [ i \in 1..BufSize |-> f[i] ]
  BY <1>2
<1>5. f \in [ 1..BufSize -> Char \cup { NL, Nul } ]
  BY <1>3, <1>4, Zenon
<1> QED BY <1>2, <1>5 DEF CharsOK

LEMMA WriteChars == ASSUME CharsOK, Write PROVE CharsOK'
<1>1. PICK l \in Line : socket' = socket \o Append(l, NL) /\ buf' = buf
  BY DEF Write, WriteLine
<1>2. l \in Seq(Char \cup { NL }) /\ socket \in Seq(Char \cup { NL })
  BY LineAssumption DEF CharsOK
<1>3. Append(l, NL) \in Seq(Char \cup { NL })
  BY <1>2
<1>4. socket' \in Seq(Char \cup { NL })
  BY <1>1, <1>2, <1>3, ConcatProperties, Zenon
<1> QED BY <1>1, <1>4 DEF CharsOK

LEMMA CharsStep == ASSUME BufferInv, CharsOK, [Next]_vars PROVE CharsOK'
<1>1. CASE UNCHANGED << buf, socket >>
  BY <1>1 DEF CharsOK
<1>2. CASE ReadWorker
  <2>1. line = 0
    BY <1>2 DEF ReadWorker, Read, ReadEndOfFile
  <2> QED BY <1>2, <2>1, ReadsWithin, ReadChars, EndOfFileChars DEF ReadWorker
<1>3. CASE ProcessText
  BY <1>1, <1>3 DEF ProcessText, Advance
<1>4. CASE ProcessLeftovers
  BY <1>4, LeftoversWithin, LeftoversChars DEF ProcessLeftovers, Leftovers
<1>5. CASE Write
  BY <1>5, WriteChars
<1>6. CASE ProcessEndOfFile \/ ProcessFails \/ ScannerFails \/ Flush \/ AnswerLate
  BY <1>1, <1>6 DEF ProcessEndOfFile, ProcessFails, ScannerFails, Flush, AnswerLate,
     streamVars
<1>7. CASE UNCHANGED vars
  BY <1>1, <1>7 DEF vars, streamVars
<1>8. CASE ProcessBehind
  BY <1>1, <1>8 DEF ProcessBehind, AdvanceBehind
<1> QED BY <1>2, <1>3, <1>4, <1>5, <1>6, <1>7, <1>8 DEF Next

LEMMA CharsInit == ASSUME Init PROVE CharsOK
<1>1. buf = [ i \in 1..BufSize |-> Nul ] /\ socket = << >>
  BY DEF Init, LineInit
<1>2. Nul \in Char \cup { NL, Nul }
  OBVIOUS
<1> QED BY <1>1, <1>2 DEF CharsOK

(* What one read() returned, and the lines of it that are left.            *)
(* The chunk s lies behind the offset, and the line begins at its p-th     *)
(* character.                                                              *)
InChunk(s, p) ==
  /\ s \in Seq(Char \cup { NL }) /\ p \in 1..Len(s)
  /\ line = offset + p /\ offset + Len(s) = line + len - 1
  /\ \A i \in 1..Len(s) : buf[offset + i] = s[i]

DueWithin ==
  \/ line = 0 /\ due = << >>
  \/ line # 0 /\ due = << >> /\ buf[line] = Nul
  \/ \E s, p, from : /\ InChunk(s, p) /\ LinesFrom(from, s, 1)
                     /\ line # 0 /\ due = from[p]

DueInv == IF line \in 0..BufSize THEN DueWithin ELSE due = << >>

LEMMA NulIsNoChar == Nul \notin Char \cup { NL } /\ NL \notin Char
BY LineAssumption, CharacterAssumption

LEMMA NoLineAtNul == ASSUME Within, line # 0, buf[line] = Nul PROVE ~HasLine
<1> SUFFICES ASSUME NEW i \in Reached(NL) PROVE FALSE
  BY DEF HasLine
<1>1. /\ i \in line..BufSize /\ buf[i] = NL
      /\ \A k \in line..i - 1 : buf[k] \notin { NL, Nul }
  BY DEF Reached
<1>2. i # line
  BY <1>1, CharacterAssumption
<1>3. line \in line..i - 1
  <2>1. line \in Nat /\ BufSize \in Nat
    BY BufSizeAssumption DEF Within, InBuffer
  <2> QED BY <1>1, <1>2, <2>1
<1> QED BY <1>1, <1>3

(* What strchr() finds is the first end of a line in the chunk.            *)
LEMMA EolOfChunk ==
  ASSUME Within, HasLine, NEW s, NEW p, InChunk(s, p)
  PROVE  /\ Eol - offset \in p..Len(s)
         /\ EndsBehind(s, p) # {} /\ Min(EndsBehind(s, p)) = Eol - offset
<1>1. Eol \in line..line + len - 1
  BY EolInLine
<1>2. /\ buf[Eol] = NL
      /\ \A k \in line..Eol - 1 : buf[k] \notin { NL, Nul }
  <2>1. Eol \in Reached(NL)
    BY DEF HasLine, Eol
  <2> QED BY <2>1 DEF Reached
<1>3. PICK e : e = Eol - offset
  OBVIOUS
<1>4. /\ s \in Seq(Char \cup { NL }) /\ p \in 1..Len(s) /\ Len(s) \in Nat
      /\ line = offset + p /\ offset + Len(s) = line + len - 1
      /\ \A i \in 1..Len(s) : buf[offset + i] = s[i]
  BY DEF InChunk
<1>5. offset \in Nat /\ line \in Nat /\ len \in Nat /\ Eol \in Int /\ BufSize \in Nat
  BY <1>1, BufSizeAssumption DEF Within, InBuffer
<1>6. e \in p..Len(s) /\ Eol = offset + e
  BY <1>1, <1>3, <1>4, <1>5
<1>7. s[e] = NL
  <2>1. e \in 1..Len(s)
    BY <1>4, <1>6
  <2> QED BY <1>2, <1>4, <1>6, <2>1
<1>8. ASSUME NEW k \in p..e - 1 PROVE s[k] # NL
  <2>1. k \in 1..Len(s) /\ offset + k \in line..Eol - 1
    BY <1>4, <1>5, <1>6
  <2> QED BY <1>2, <1>4, <2>1
<1>9. p \in 1..Len(s) + 1
  BY <1>4
<1>10. EndsBehind(s, p) # {} /\ Min(EndsBehind(s, p)) = e
  BY <1>4, <1>6, <1>7, <1>8, <1>9, OneEnd
<1> QED BY <1>3, <1>6, <1>10

(* Where strchr() finds nothing, the chunk has no end of a line.           *)
LEMMA NoEolInChunk ==
  ASSUME Within, ~HasLine, line # 0, NEW s, NEW p, InChunk(s, p)
  PROVE  EndsBehind(s, p) = {}
<1> SUFFICES ASSUME EndsBehind(s, p) # {} PROVE FALSE
  OBVIOUS
<1>1. /\ s \in Seq(Char \cup { NL }) /\ p \in 1..Len(s) /\ Len(s) \in Nat
      /\ line = offset + p /\ offset + Len(s) = line + len - 1
      /\ \A i \in 1..Len(s) : buf[offset + i] = s[i]
  BY DEF InChunk
<1>2. /\ offset \in Nat /\ line \in Nat /\ len \in Nat /\ BufSize \in Nat
      /\ line + len - 1 <= BufSize
  BY BufSizeAssumption DEF Within, InBuffer
<1>3. PICK e : e = Min(EndsBehind(s, p))
  OBVIOUS
<1>4. e \in p..Len(s) /\ s[e] = NL /\ \A k \in p..e - 1 : s[k] # NL
  <2>1. p \in 1..Len(s) + 1
    BY <1>1
  <2> QED BY <1>1, <1>3, <2>1, FirstEnd
<1>5. PICK i : i = offset + e
  OBVIOUS
<1>6. i \in line..BufSize /\ buf[i] = NL
  <2>1. i \in line..BufSize /\ e \in 1..Len(s)
    BY <1>1, <1>2, <1>4, <1>5
  <2> QED BY <1>1, <1>4, <1>5, <2>1
<1>7. ASSUME NEW k \in line..i - 1 PROVE buf[k] \notin { NL, Nul }
  <2>1. PICK j : j = k - offset
    OBVIOUS
  <2>2. j \in p..e - 1 /\ j \in 1..Len(s) /\ k = offset + j
    BY <1>1, <1>2, <1>4, <1>5, <2>1
  <2>3. buf[k] = s[j] /\ s[j] # NL /\ s[j] \in Char \cup { NL }
    BY <1>1, <1>4, <2>2
  <2> QED BY <2>3, NulIsNoChar
<1>8. i \in Reached(NL)
  BY <1>6, <1>7 DEF Reached
<1> QED BY <1>8 DEF HasLine

(* A line that is taken is the first that is due, if it is not empty.      *)
LEMMA TakesTheDue ==
  ASSUME Within, CharsOK, DueWithin, ProcessText
  PROVE  /\ NextLine # << >> => due # << >> /\ current' = Head(due)
         /\ line' = 0 => due' = << >>
         /\ DueWithin'
<1>1. HasLine /\ Advance /\ line # 0
  BY DEF ProcessText, ProcessLine
<1>2. PICK s, p, from : InChunk(s, p) /\ LinesFrom(from, s, 1) /\ due = from[p]
  BY <1>1, NoLineAtNul DEF DueWithin
<1>3. PICK e : e = Eol - offset
  OBVIOUS
<1>4. e \in p..Len(s) /\ EndsBehind(s, p) # {} /\ Min(EndsBehind(s, p)) = e
  BY <1>1, <1>2, <1>3, EolOfChunk
<1>5. /\ s \in Seq(Char \cup { NL }) /\ p \in 1..Len(s) /\ Len(s) \in Nat
      /\ line = offset + p /\ offset + Len(s) = line + len - 1
      /\ \A i \in 1..Len(s) : buf[offset + i] = s[i]
  BY <1>2 DEF InChunk
<1>6. offset \in Nat /\ line \in Nat /\ len \in Nat /\ Eol \in Int
  <2>1. Eol \in line..line + len - 1
    BY <1>1, EolInLine
  <2> QED BY <2>1 DEF Within, InBuffer
<1>7. Eol = offset + e
  BY <1>3, <1>6
<1>8. PICK x : x = SubSeq(s, p, e - 1)
  OBVIOUS
<1>9. PICK rest : rest = from[e + 1]
  OBVIOUS
<1>10. rest \in Pieces /\ from[p] = (IF e = p THEN << >> ELSE << x >>) \o rest
  <2>1. e + 1 \in 1..Len(s) + 1 /\ p \in 1..Len(s) + 1
    BY <1>4, <1>5
  <2>2. from[e + 1] \in Pieces /\ from[p] = NextFrom(from, s, p)
    BY <1>2, <2>1 DEF LinesFrom
  <2> QED BY <1>4, <1>8, <1>9, <2>2, Zenon DEF NextFrom
<1>11. NextLine = x
  <2>1. PICK a, b : a = Eol - 1 /\ b = e - 1
    OBVIOUS
  <2>2. /\ a \in Int /\ b \in Int /\ a = offset + b /\ b <= Len(s) /\ b >= p - 1 /\ p \in Nat
        /\ line \in Nat /\ line >= 1 /\ p >= 1 /\ line = offset + p /\ offset \in Nat
    BY <1>4, <1>5, <1>6, <1>7, <2>1
  <2>3. buf \in Seq(Char \cup { NL, Nul }) /\ Len(buf) = BufSize /\ BufSize \in Nat
    BY BufSizeAssumption DEF CharsOK
  <2>4. a <= BufSize
    BY <1>5, <1>6, <2>2, <2>3 DEF Within, InBuffer
  <2>5. PICK u, m : u = SubSeq(buf, line, a) /\ m = b - p + 1
    OBVIOUS
  <2>6. /\ u \in Seq(Char \cup { NL, Nul }) /\ Len(u) = m
        /\ \A i \in 1..m : u[i] = buf[line + i - 1]
    <3>0. m = b - p + 1
      BY <2>5
    <3>1. m = a - line + 1 /\ (line <= a <=> m # 0)
      BY <2>2, <3>0
    <3>2. /\ u \in Seq(Char \cup { NL, Nul })
          /\ Len(u) = IF line <= a THEN a - line + 1 ELSE 0
          /\ \A i \in 1..a - line + 1 : u[i] = buf[line + i - 1]
      BY <2>2, <2>3, <2>4, <2>5, SubSeqProperties
    <3> QED BY <3>1, <3>2
  <2>7. /\ x \in Seq(Char \cup { NL, Nul }) /\ Len(x) = m
        /\ \A i \in 1..m : x[i] = s[p + i - 1]
    <3>1. (p <= b <=> m # 0) /\ (p <= b \/ m = 0)
      BY <2>2, <2>5
    <3>2. \A i \in p..b : s[i] \in Char \cup { NL, Nul }
      <4>1. \A i \in p..b : i \in 1..Len(s)
        BY <1>5, <2>2
      <4> QED BY <1>5, <4>1, ElementOfSeq
    <3>3. /\ x \in Seq(Char \cup { NL, Nul })
          /\ Len(x) = IF p <= b THEN b - p + 1 ELSE 0
          /\ \A i \in 1..b - p + 1 : x[i] = s[p + i - 1]
      BY <1>8, <2>1, <2>2, <3>2, SubSeqProperties
    <3> QED BY <2>5, <3>1, <3>3
  <2>8. \A i \in 1..m : u[i] = x[i]
    <3> SUFFICES ASSUME NEW i \in 1..m PROVE u[i] = x[i]
      OBVIOUS
    <3>0. m = b - p + 1 /\ i \in 1..m
      BY <2>5
    <3>1. p + i - 1 \in 1..Len(s) /\ offset + (p + i - 1) = line + i - 1
      BY <1>5, <2>2, <3>0
    <3> QED BY <1>5, <2>6, <2>7, <3>1
  <2>9. u = x
    BY <2>6, <2>7, <2>8, SeqEqual
  <2> QED BY <2>1, <2>5, <2>9 DEF NextLine
<1>12. x = << >> <=> e = p
  <2>1. e = p => x = << >>
    BY <1>5, <1>8, SubSeqEmpty
  <2>2. e # p => Len(x) # 0
    BY <1>4, <1>5, <1>8
  <2> QED BY <2>1, <2>2
<1>13. x \in Seq(Char \cup { NL })
  BY <1>4, <1>5, <1>8
<1>14. PICK n : n = Len(s) - e
  OBVIOUS
<1>15. /\ n \in Nat /\ line' = (IF n = 0 THEN 0 ELSE Eol + 1) /\ len' = n
       /\ UNCHANGED << buf, offset >>
  <2>1. len - (Eol - line) - 1 = n /\ n \in Nat
    BY <1>4, <1>5, <1>6, <1>7, <1>14
  <2> QED BY <1>1, <2>1 DEF Advance
<1>16. due' = rest /\ (x # << >> => due # << >> /\ current' = Head(due))
  <2>1. CASE x = << >>
    <3>1. due' = due
      BY <1>11, <2>1 DEF ProcessText, Handle
    <3>2. << >> \o rest = rest
      BY <1>10 DEF Pieces
    <3> QED BY <1>2, <1>10, <1>12, <2>1, <3>1, <3>2
  <2>2. CASE x # << >>
    <3>1. /\ due' = IF due = << >> THEN << >> ELSE Tail(due)
          /\ current' = x
      BY <1>11, <2>2 DEF ProcessText, Handle, Processed
    <3>2. due = << x >> \o rest
      BY <1>2, <1>10, <1>12, <2>2
    <3>3. << x >> \o rest # << >> /\ Head(<< x >> \o rest) = x /\ Tail(<< x >> \o rest) = rest
      BY <1>10, <1>13 DEF Pieces
    <3> QED BY <3>1, <3>2, <3>3
  <2> QED BY <2>1, <2>2
<1>17. n = 0 => due' = << >> /\ DueWithin'
  <2>1. SUFFICES ASSUME n = 0 PROVE rest = << >>
    BY <1>15, <1>16, <2>1 DEF DueWithin
  <2>2. e + 1 = Len(s) + 1 /\ e + 1 \in 1..Len(s) + 1
    BY <1>4, <1>5, <1>14, <2>1
  <2>3. EndsBehind(s, e + 1) = {}
    BY <1>5, <2>2 DEF EndsBehind
  <2>4. from[e + 1] = NextFrom(from, s, e + 1)
    BY <1>2, <2>2 DEF LinesFrom
  <2> QED BY <1>9, <2>3, <2>4, Zenon DEF NextFrom
<1>18. n # 0 => line' # 0 /\ DueWithin'
  <2>1. SUFFICES ASSUME n # 0 PROVE line' # 0 /\ DueWithin'
    OBVIOUS
  <2>2. /\ e + 1 \in 1..Len(s) /\ line' = offset' + (e + 1) /\ line' # 0
        /\ offset' + Len(s) = line' + len' - 1
    BY <1>4, <1>5, <1>6, <1>7, <1>14, <1>15, <2>1
  <2>3. InChunk(s, e + 1)'
    BY <1>5, <1>15, <2>2 DEF InChunk
  <2>4. due' = from[e + 1]
    BY <1>9, <1>16
  <2> QED BY <1>2, <2>2, <2>3, <2>4 DEF DueWithin
<1> QED BY <1>11, <1>15, <1>16, <1>17, <1>18

LEMMA DueRead == ASSUME Within, CharsOK, DueWithin, NEW n, Read(n) PROVE DueWithin'
<1>1. line = 0 /\ due = << >>
  BY DEF Read, DueWithin, InChunk
<1>2. /\ n \in 1..Len(socket) /\ Len(socket) \in Nat /\ offset \in Nat
      /\ socket \in Seq(Char \cup { NL }) /\ BufSize \in Nat /\ n <= BufSize - offset
  BY BufSizeAssumption DEF Read, Within, InBuffer, CharsOK
<1>3. PICK s : s = SubSeq(socket, 1, n)
  OBVIOUS
<1>4. /\ s \in Seq(Char \cup { NL }) /\ Len(s) = n /\ 1 \in 1..Len(s)
      /\ \A i \in 1..n : s[i] = socket[i]
  BY <1>2, <1>3
<1>5. /\ line' = offset + 1 /\ len' = n /\ offset' = offset /\ due' = due \o LinesOf(s)
      /\ buf' = [ i \in 1..BufSize |->
                   IF i <= offset THEN buf[i]
                   ELSE IF i <= offset + n THEN socket[i - offset] ELSE Nul ]
  BY <1>3 DEF Read
<1>6. PICK from : LinesFrom(from, s, 1) /\ LinesOf(s) = from[1]
  BY <1>4, LinesOfFrom
<1>7. due' = from[1]
  <2>1. from[1] \in Pieces
    BY <1>4, <1>6 DEF LinesFrom
  <2>2. << >> \o from[1] = from[1]
    BY <2>1 DEF Pieces
  <2> QED BY <1>1, <1>5, <1>6, <2>2
<1>8. ASSUME NEW i \in 1..Len(s) PROVE buf'[offset' + i] = s[i]
  <2>1. PICK j : j = offset + i
    OBVIOUS
  <2>2. j \in 1..BufSize /\ ~(j <= offset) /\ j <= offset + n /\ j - offset = i
    BY <1>2, <1>4, <2>1
  <2> QED BY <1>4, <1>5, <2>1, <2>2
<1>9. /\ line' = offset' + 1 /\ line' # 0 /\ offset' + Len(s) = line' + len' - 1
  BY <1>2, <1>4, <1>5
<1>10. InChunk(s, 1)'
  BY <1>4, <1>8, <1>9 DEF InChunk
<1> QED BY <1>6, <1>7, <1>9, <1>10 DEF DueWithin

LEMMA DueEndOfFile == ASSUME Within, DueWithin, ReadEndOfFile PROVE DueWithin'
<1>1. line = 0 /\ due = << >>
  BY DEF ReadEndOfFile, DueWithin, InChunk
<1>2. /\ line' = offset + 1 /\ due' = due /\ offset \in 0..BufSize - 1 /\ BufSize \in Nat
      /\ buf' = [ i \in 1..BufSize |-> IF i <= offset THEN buf[i] ELSE Nul ]
  BY BufSizeAssumption DEF ReadEndOfFile, Within, InBuffer
<1>3. offset + 1 \in 1..BufSize /\ ~(offset + 1 <= offset) /\ offset + 1 # 0
  BY <1>2
<1> QED BY <1>1, <1>2, <1>3 DEF DueWithin

LEMMA DueLeftovers == ASSUME Within, DueWithin, Leftovers PROVE DueWithin'
<1>1. line # 0 /\ ~HasLine /\ buf[line] # Nul /\ line' = 0 /\ due' = due
  BY DEF Leftovers, EndOfFile, Within, InBuffer
<1>2. PICK s, p, from : InChunk(s, p) /\ LinesFrom(from, s, 1) /\ due = from[p]
  BY <1>1 DEF DueWithin
<1>3. EndsBehind(s, p) = {}
  BY <1>1, <1>2, NoEolInChunk
<1>4. p \in 1..Len(s) + 1
  BY <1>2 DEF InChunk
<1>5. due = << >>
  BY <1>2, <1>3, <1>4, Zenon DEF LinesFrom, NextFrom
<1> QED BY <1>1, <1>5 DEF DueWithin

(* A line that goes on behind the buffer was not read whole.               *)
LEMMA DueBehind == ASSUME BufferInv, DueInv, ProcessBehind PROVE DueInv'
<1>1. line # 0 /\ Overrun /\ BufferInv'
  BY BufferStep DEF ProcessBehind, ProcessLine, Next
<1>2. due = << >>
  <2>1. CASE line \in 0..BufSize
    <3>1. Within /\ DueWithin
      BY <2>1, BufSizeAssumption DEF BufferInv, Spilled, DueInv
    <3>2. ASSUME NEW s, NEW p, NEW from, InChunk(s, p), LinesFrom(from, s, 1), due = from[p]
          PROVE  due = << >>
      <4>1. ~HasLine
        BY <1>1 DEF Overrun, HasLine
      <4>2. EndsBehind(s, p) = {}
        BY <1>1, <3>1, <3>2, <4>1, NoEolInChunk
      <4>3. p \in 1..Len(s) + 1
        BY <3>2 DEF InChunk
      <4> QED BY <3>2, <4>2, <4>3, Zenon DEF LinesFrom, NextFrom
    <3> QED BY <3>1, <3>2, Zenon DEF DueWithin
  <2>2. CASE line \notin 0..BufSize
    BY <2>2 DEF DueInv
  <2> QED BY <2>1, <2>2
<1>3. line' \notin 0..BufSize
  <2>1. PICK eol \in Behind : line' = eol + 1
    BY DEF ProcessBehind, AdvanceBehind
  <2> QED BY <2>1, BufSizeAssumption, WordAssumption DEF Behind
<1>4. due' = << >>
  BY <1>2 DEF ProcessBehind, Handle, Processed
<1> QED BY <1>3, <1>4 DEF DueInv

LEMMA DueStep == ASSUME BufferInv, CharsOK, DueInv, [Next]_vars PROVE DueInv'
<1>1. ASSUME UNCHANGED << buf, offset, line, len, due >> PROVE DueInv'
  BY <1>1 DEF DueInv, DueWithin, InChunk
<1>2. ASSUME Within PROVE DueWithin /\ line \in 0..BufSize
  BY <1>2 DEF DueInv, Within, InBuffer
<1>3. ASSUME Within', DueWithin' PROVE DueInv'
  BY <1>3 DEF DueInv, Within, InBuffer
<1>4. CASE ReadWorker
  <2>1. Within
    BY <1>4, ReadsWithin DEF ReadWorker, Read, ReadEndOfFile
  <2>2. DueWithin' /\ Within'
    BY <1>2, <1>4, <2>1, DueRead, DueEndOfFile, ReadStep, EndOfFileStep DEF ReadWorker
  <2> QED BY <1>3, <2>2
<1>5. CASE ProcessText
  <2>1. Within /\ HasLine /\ Advance
    BY <1>5, LineWithin DEF ProcessText
  <2>2. DueWithin' /\ Within'
    BY <1>2, <1>5, <2>1, TakesTheDue, AdvanceStep
  <2> QED BY <1>3, <2>2
<1>6. CASE ProcessBehind
  BY <1>6, DueBehind
<1>7. CASE ProcessLeftovers
  <2>1. Within /\ Leftovers
    BY <1>7, LeftoversWithin DEF ProcessLeftovers, Leftovers
  <2>2. DueWithin' /\ Within'
    BY <1>2, <2>1, DueLeftovers, LeftoversStep
  <2> QED BY <1>3, <2>2
<1>8. CASE Write
  BY <1>1, <1>8 DEF Write, WriteLine
<1>9. CASE ProcessEndOfFile \/ ProcessFails \/ ScannerFails \/ Flush \/ AnswerLate
  BY <1>1, <1>9 DEF ProcessEndOfFile, ProcessFails, ScannerFails, Flush, AnswerLate,
     streamVars
<1>10. CASE UNCHANGED vars
  BY <1>1, <1>10 DEF vars, streamVars
<1> QED BY <1>4, <1>5, <1>6, <1>7, <1>8, <1>9, <1>10 DEF Next

(* However the client's stream is cut, and whatever it holds: a line that  *)
(* one read() returned whole is processed whole, once and in its order,    *)
(* and when the buffer is used up none of them was forgotten               *)
(* (parser_cli_read, parser_cli_line).                                     *)
THEOREM WholeLinesAreProcessed == Spec => LinesAsRead
<1>1. Init => CharsOK /\ DueInv
  <2>1. Init => DueWithin /\ line = 0
    BY DEF Init, LineInit, DueWithin
  <2>2. 0 \in 0..BufSize
    BY BufSizeAssumption
  <2> QED BY <2>1, <2>2, CharsInit DEF DueInv
<1>2. BufferInv /\ CharsOK /\ DueInv /\ [Next]_vars => CharsOK' /\ DueInv'
  BY CharsStep, DueStep
<1>3. ASSUME BufferInv, CharsOK, DueInv, [Next]_vars
      PROVE  [/\ ProcessText /\ NextLine # << >> => due # << >> /\ current' = Head(due)
              /\ line # 0 /\ line' = 0 => due' = << >>]_vars
  <2>1. ASSUME ProcessText PROVE NextLine # << >> => due # << >> /\ current' = Head(due)
    <3>1. Within
      BY <1>3, <2>1, LineWithin DEF ProcessText
    <3>2. DueWithin
      BY <1>3, <3>1 DEF DueInv, Within, InBuffer
    <3> QED BY <1>3, <2>1, <3>1, <3>2, TakesTheDue
  <2>2. ASSUME line' = 0 PROVE due' = << >>
    <3>1. DueInv'
      BY <1>3, DueStep
    <3>2. DueWithin'
      BY <2>2, <3>1, BufSizeAssumption DEF DueInv
    <3> QED BY <2>2, <3>2 DEF DueWithin
  <2> QED BY <2>1, <2>2
<1> QED BY <1>1, <1>2, <1>3, BufferInvariant, PTL DEF Spec, LinesAsRead

----------------------------------------------------------------------------
(* A recursion along 1..m has a value at each place.                       *)
Iterates(f, S, a, step, m) ==
  /\ f \in [ 0..m -> S ] /\ f[0] = a
  /\ \A n \in 1..m : f[n] = step[n][f[n - 1]]

LEMMA IterateMore ==
  ASSUME NEW S, NEW a \in S, NEW m \in Nat, NEW step \in [ 1..m -> [ S -> S ] ],
         NEW k \in 1..m, NEW f, Iterates(f, S, a, step, k - 1)
  PROVE  \E g : Iterates(g, S, a, step, k)
<1>1. PICK g : g = [ n \in 0..k |-> IF n = k THEN step[k][f[k - 1]] ELSE f[n] ]
  OBVIOUS
<1>2. f \in [ 0..k - 1 -> S ] /\ f[0] = a /\ k - 1 \in 0..k - 1 /\ 0 # k /\ 0 \in 0..k
  BY DEF Iterates
<1>3. g[0] = a
  BY <1>1, <1>2
<1>4. step[k][f[k - 1]] \in S
  BY <1>2
<1>5. \A n \in 0..k : g[n] \in S
  <2>1. ASSUME NEW n \in 0..k, n # k PROVE n \in 0..k - 1
    BY <2>1
  <2> QED BY <1>1, <1>2, <1>4, <2>1
<1>6. g \in [ 0..k -> S ]
  BY <1>1, <1>5
<1>7. ASSUME NEW n \in 1..k PROVE g[n] = step[n][g[n - 1]]
  <2>1. n - 1 \in 0..k /\ n - 1 # k /\ n \in 0..k
    OBVIOUS
  <2>2. g[n - 1] = f[n - 1]
    BY <1>1, <2>1
  <2>3. CASE n = k
    BY <1>1, <2>1, <2>2, <2>3
  <2>4. CASE n # k
    <3>1. n \in 1..k - 1
      BY <2>4
    <3>2. f[n] = step[n][f[n - 1]]
      BY <3>1 DEF Iterates
    <3> QED BY <1>1, <2>1, <2>2, <2>4, <3>2
  <2> QED BY <2>3, <2>4
<1> QED BY <1>3, <1>6, <1>7, Zenon DEF Iterates

LEMMA IteratesExists ==
  ASSUME NEW S, NEW a \in S, NEW m \in Nat, NEW step \in [ 1..m -> [ S -> S ] ]
  PROVE  \E f : Iterates(f, S, a, step, m)
<1> DEFINE T == { k \in 0..m : \E f : Iterates(f, S, a, step, k) }
<1>1. 0 \in T
  <2>1. PICK f : f = [ n \in 0..0 |-> a ]
    OBVIOUS
  <2>2. Iterates(f, S, a, step, 0)
    BY <2>1 DEF Iterates
  <2> QED BY <2>2
<1>2. ASSUME NEW k \in 1..m, k - 1 \in T PROVE k \in T
  <2>1. PICK f : Iterates(f, S, a, step, k - 1)
    BY <1>2
  <2>2. \E g : Iterates(g, S, a, step, k)
    BY <2>1, IterateMore
  <2> QED BY <2>2
<1> HIDE DEF T
<1>3. \A k \in 0..m : k \in T
  BY <1>1, <1>2, Along
<1> QED BY <1>3 DEF T

(* An answer is put into the buffer one element after the other.           *)
Outs(C) == { o \in [ text : Seq(C), needSep : BOOLEAN, numElem : Nat, overflow : BOOLEAN ] :
               Len(o.text) < OutSize }

LEMMA OutsRoomy == ASSUME NEW C, NEW o PROVE Roomy(o, C) <=> o \in Outs(C)
BY DEF Roomy, Outs

Puts(put, o, el) ==
  /\ put[0] = o
  /\ \A n \in 1..Len(el) : put[n] = Printf(put[n - 1], el[n])

LEMMA AnswerPuts ==
  ASSUME NEW S, NEW o \in S, NEW E, NEW el \in Seq(E),
         \A p \in S : \A s \in E : Printf(p, s) \in S
  PROVE  \E put \in [ 0..Len(el) -> S ] :
           Puts(put, o, el) /\ Answer(o, el) = put[Len(el)]
<1>1. PICK m \in Nat : m = Len(el)
  OBVIOUS
<1>2. PICK step : step = [ n \in 1..m |-> [ p \in S |-> Printf(p, el[n]) ] ]
  OBVIOUS
<1>3. step \in [ 1..m -> [ S -> S ] ]
  <2>1. \A n \in 1..m : el[n] \in E
    BY <1>1
  <2>2. \A n \in 1..m : \A p \in S : Printf(p, el[n]) \in S
    BY <2>1
  <2> QED BY <1>2, <2>2
<1>4. PICK f : Iterates(f, S, o, step, m)
  BY <1>3, IteratesExists
<1>5. f \in [ 0..m -> S ] /\ f[0] = o
  BY <1>4 DEF Iterates
<1>6. \A n \in 1..m : f[n] = Printf(f[n - 1], el[n])
  <2>1. \A n \in 1..m : f[n - 1] \in S
    BY <1>5
  <2>2. \A n \in 1..m : f[n] = step[n][f[n - 1]]
    BY <1>4 DEF Iterates
  <2> QED BY <1>2, <2>1, <2>2
<1> DEFINE Step(h) == [ n \in 0..Len(el) |-> IF n = 0 THEN o ELSE Printf(h[n - 1], el[n]) ]
           F == CHOOSE h : h = Step(h)
<1>7. f = Step(f)
  <2>1. f = [ n \in 0..Len(el) |-> f[n] ]
    BY <1>1, <1>5
  <2>2. \A n \in 0..Len(el) : n = 0 \/ n \in 1..m
    BY <1>1
  <2>3. \A n \in 0..Len(el) : f[n] = Step(f)[n]
    BY <1>5, <1>6, <2>2, Zenon
  <2> QED BY <2>1, <2>3, Zenon
<1>8. F = Step(F)
  BY <1>7, Zenon
<1>9. Answer(o, el) = F[Len(el)]
  BY Zenon DEF Answer
<1> DEFINE T == { n \in 0..m : F[n] = f[n] }
<1>10. 0 \in T
  <2>1. Step(F)[0] = o
    BY <1>1
  <2> HIDE DEF F
  <2> QED BY <1>5, <1>8, <2>1
<1>11. ASSUME NEW n \in 1..m, n - 1 \in T PROVE n \in T
  <2> HIDE DEF F
  <2>1. F[n - 1] = f[n - 1]
    BY <1>11
  <2>2. n \in 0..Len(el) /\ n # 0 /\ n \in 0..m
    BY <1>1
  <2>3. Step(F)[n] = Printf(F[n - 1], el[n])
    BY <2>2, Zenon
  <2> QED BY <1>6, <1>8, <2>1, <2>2, <2>3
<1> HIDE DEF F, T
<1>12. \A n \in 0..m : n \in T
  BY <1>10, <1>11, Along
<1>13. F[m] = f[m]
  BY <1>12 DEF T
<1>14. Puts(f, o, el)
  BY <1>1, <1>5, <1>6 DEF Puts
<1> QED BY <1>1, <1>5, <1>9, <1>13, <1>14

(* What is known of the line after each of its characters.                 *)
Takes(took, l) ==
  /\ took[0] = Begin(Cleared)
  /\ \A n \in 1..Len(l) : took[n] = Take(took[n - 1], l[n])

LEMMA ParsedTakes ==
  ASSUME NEW S, Begin(Cleared) \in S, NEW E, NEW l \in Seq(E),
         \A p \in S : \A c \in E : Take(p, c) \in S
  PROVE  \E took \in [ 0..Len(l) -> S ] :
           Takes(took, l) /\ Parsed(l) = took[Len(l)]
<1>1. PICK m \in Nat : m = Len(l)
  OBVIOUS
<1>2. PICK step : step = [ n \in 1..m |-> [ p \in S |-> Take(p, l[n]) ] ]
  OBVIOUS
<1>3. step \in [ 1..m -> [ S -> S ] ]
  <2>1. \A n \in 1..m : l[n] \in E
    BY <1>1
  <2>2. \A n \in 1..m : \A p \in S : Take(p, l[n]) \in S
    BY <2>1
  <2> QED BY <1>2, <2>2
<1>4. PICK f : Iterates(f, S, Begin(Cleared), step, m)
  BY <1>3, IteratesExists
<1>5. f \in [ 0..m -> S ] /\ f[0] = Begin(Cleared)
  BY <1>4 DEF Iterates
<1>6. \A n \in 1..m : f[n] = Take(f[n - 1], l[n])
  <2>1. \A n \in 1..m : f[n - 1] \in S
    BY <1>5
  <2>2. \A n \in 1..m : f[n] = step[n][f[n - 1]]
    BY <1>4 DEF Iterates
  <2> QED BY <1>2, <2>1, <2>2
<1> DEFINE Step(h) == [ n \in 0..Len(l) |-> IF n = 0 THEN Begin(Cleared) ELSE Take(h[n - 1], l[n]) ]
           F == CHOOSE h : h = Step(h)
<1>7. f = Step(f)
  <2>1. f = [ n \in 0..Len(l) |-> f[n] ]
    BY <1>1, <1>5
  <2>2. \A n \in 0..Len(l) : n = 0 \/ n \in 1..m
    BY <1>1
  <2>3. \A n \in 0..Len(l) : f[n] = Step(f)[n]
    BY <1>5, <1>6, <2>2, Zenon
  <2> QED BY <2>1, <2>3, Zenon
<1>8. F = Step(F)
  BY <1>7, Zenon
<1>9. Parsed(l) = F[Len(l)]
  BY Zenon DEF Parsed
<1> DEFINE T == { n \in 0..m : F[n] = f[n] }
<1>10. 0 \in T
  <2>1. Step(F)[0] = Begin(Cleared)
    BY <1>1
  <2> HIDE DEF F
  <2> QED BY <1>5, <1>8, <2>1
<1>11. ASSUME NEW n \in 1..m, n - 1 \in T PROVE n \in T
  <2> HIDE DEF F
  <2>1. F[n - 1] = f[n - 1]
    BY <1>11
  <2>2. n \in 0..Len(l) /\ n # 0 /\ n \in 0..m
    BY <1>1
  <2>3. Step(F)[n] = Take(F[n - 1], l[n])
    BY <2>2, Zenon
  <2> QED BY <1>6, <1>8, <2>1, <2>2, <2>3
<1> HIDE DEF F, T
<1>12. \A n \in 0..m : n \in T
  BY <1>10, <1>11, Along
<1>13. F[m] = f[m]
  BY <1>12 DEF T
<1>14. Takes(f, l)
  BY <1>1, <1>5, <1>6 DEF Takes
<1> QED BY <1>1, <1>5, <1>9, <1>13, <1>14

(* Sequences in a row.                                                     *)
Flattens(f, seqs) ==
  /\ f[0] = << >>
  /\ \A n \in 1..Len(seqs) : f[n] = f[n - 1] \o seqs[n]

LEMMA FlattenSteps ==
  ASSUME NEW C, NEW seqs \in Seq(Seq(C))
  PROVE  \E f \in [ 0..Len(seqs) -> Seq(C) ] :
           Flattens(f, seqs) /\ FlattenSeq(seqs) = f[Len(seqs)]
<1>1. PICK m \in Nat : m = Len(seqs)
  OBVIOUS
<1>2. PICK step : step = [ n \in 1..m |-> [ p \in Seq(C) |-> p \o seqs[n] ] ]
  OBVIOUS
<1>3. step \in [ 1..m -> [ Seq(C) -> Seq(C) ] ]
  <2>1. \A n \in 1..m : seqs[n] \in Seq(C)
    BY <1>1
  <2>2. \A n \in 1..m : \A p \in Seq(C) : p \o seqs[n] \in Seq(C)
    BY <2>1
  <2> QED BY <1>2, <2>2
<1>4. << >> \in Seq(C)
  OBVIOUS
<1>5. PICK f : Iterates(f, Seq(C), << >>, step, m)
  BY <1>3, <1>4, IteratesExists
<1>6. f \in [ 0..m -> Seq(C) ] /\ f[0] = << >>
  BY <1>5 DEF Iterates
<1>7. \A n \in 1..m : f[n] = f[n - 1] \o seqs[n]
  <2>1. \A n \in 1..m : f[n - 1] \in Seq(C)
    BY <1>6
  <2>2. \A n \in 1..m : f[n] = step[n][f[n - 1]]
    BY <1>5 DEF Iterates
  <2> QED BY <1>2, <2>1, <2>2
<1>8. Flattens(f, seqs)
  BY <1>1, <1>6, <1>7 DEF Flattens
<1>9. CASE m = 0
  <2>1. seqs = << >>
    BY <1>1, <1>9, EmptySeq
  <2>2. FlattenSeq(seqs) = seqs
    BY <1>1, <1>9 DEF FlattenSeq
  <2> QED BY <1>1, <1>6, <1>8, <1>9, <2>1, <2>2
<1>10. CASE m # 0
  <2> DEFINE Step(h) == [ i \in 1..Len(seqs) |-> IF i = 1 THEN seqs[i] ELSE h[i - 1] \o seqs[i] ]
             F == CHOOSE h : h = Step(h)
  <2>1. PICK g : g = [ i \in 1..m |-> f[i] ]
    OBVIOUS
  <2>2. \A i \in 1..m : g[i] = f[i]
    BY <2>1
  <2>3. \A i \in 1..m : f[i] = IF i = 1 THEN seqs[i] ELSE g[i - 1] \o seqs[i]
    <3>1. ASSUME NEW i \in 1..m, i = 1 PROVE f[i] = seqs[i]
      <4>1. f[1] = << >> \o seqs[1] /\ seqs[1] \in Seq(C)
        <5>1. 1 \in 1..m /\ 1 - 1 = 0
          BY <3>1
        <5>2. f[1] = f[1 - 1] \o seqs[1]
          BY <1>7, <5>1
        <5>3. seqs[1] \in Seq(C)
          BY <1>1, <5>1
        <5> QED BY <1>6, <5>1, <5>2, <5>3, Zenon
      <4> QED BY <3>1, <4>1
    <3>2. ASSUME NEW i \in 1..m, i # 1 PROVE f[i] = g[i - 1] \o seqs[i]
      <4>1. i - 1 \in 1..m
        BY <3>2
      <4> QED BY <1>7, <2>2, <4>1
    <3> QED BY <3>1, <3>2, Zenon
  <2>4. g = Step(g)
    <3>1. \A i \in 1..m : g[i] = Step(g)[i]
      BY <1>1, <2>2, <2>3, Zenon
    <3>2. g = [ i \in 1..m |-> g[i] ]
      BY <2>1
    <3> QED BY <1>1, <3>1, <3>2, Zenon
  <2>5. F = Step(F)
    BY <2>4, Zenon
  <2>6. FlattenSeq(seqs) = F[Len(seqs)]
    BY <1>1, <1>10, Zenon DEF FlattenSeq
  <2> DEFINE T == { n \in 0..m : n # 0 => F[n] = f[n] }
  <2>7. 0 \in T
    OBVIOUS
  <2>8. ASSUME NEW n \in 1..m, n - 1 \in T PROVE n \in T
    <3> HIDE DEF F
    <3>1. n \in 1..Len(seqs) /\ n \in 0..m /\ (n - 1 = 0 <=> n = 1)
      BY <1>1
    <3>2. n # 1 => F[n - 1] = g[n - 1] /\ n - 1 \in 1..m
      BY <2>2, <2>8, <3>1
    <3>3. Step(F)[n] = IF n = 1 THEN seqs[n] ELSE F[n - 1] \o seqs[n]
      BY <3>1, Zenon
    <3>4. F[n] = f[n]
      BY <2>3, <2>5, <3>2, <3>3
    <3> QED BY <3>1, <3>4
  <2> HIDE DEF F, T
  <2>9. \A n \in 0..m : n \in T
    BY <2>7, <2>8, Along
  <2>10. F[m] = f[m]
    <3>1. m \in T
      BY <2>9
    <3> QED BY <1>10, <3>1 DEF T
  <2> QED BY <1>1, <1>6, <1>8, <2>6, <2>10
<1> QED BY <1>9, <1>10

----------------------------------------------------------------------------
(* Types: what is in the output buffer, and what is owed.                  *)
Text == STRING \cup { NL, Nul, ";", "," }

Asked == Seq(STRING) \ { << >>, << NL >> }      \* an element of an answer

LEMMA TextIn ==
  /\ ";" \in Text /\ "," \in Text /\ Nul \in Text /\ NL \in Text
  /\ \A s \in Asked : s \in Seq(Text) /\ s # << >> /\ s # << NL >>
<1>2. PICK A, B : A = STRING /\ B = Text
  OBVIOUS
<1>3. A \subseteq B
  BY <1>2, Zenon DEF Text
<1>4. \A s \in Seq(A) : s \in Seq(B)
  BY <1>3
<1>5. \A s \in Asked : s \in Seq(Text) /\ s # << >> /\ s # << NL >>
  BY <1>2, <1>4, Zenon DEF Asked
<1>6. ";" \in Text /\ "," \in Text
  BY Zenon DEF Text
<1>7. Nul \in Text /\ NL \in Text
  BY Zenon DEF Text
<1> QED BY <1>5, <1>6, <1>7, Zenon

LEMMA AskedTyped ==
  ASSUME NEW q \in Query PROVE Elements[q] \in Seq(Asked) /\ Elements[q] # << >>
BY CommandAssumption, Zenon DEF Asked

LEMMA PrintfTyped ==
  ASSUME NEW o \in Outs(Text), NEW s \in Asked PROVE Printf(o, s) \in Outs(Text)
<1>1. Roomy(o, Text)
  BY OutsRoomy, Zenon
<1>2. PICK C : C = Text
  OBVIOUS
<1>3. Roomy(Printf(o, s), C)
  <2>1. ";" \in C /\ "," \in C /\ Nul \in C /\ s \in Seq(C) /\ s # << >> /\ Roomy(o, C)
    BY <1>1, <1>2, TextIn, Zenon
  <2> QED BY <2>1, PrintfRoomy, Zenon
<1> QED BY <1>2, <1>3, OutsRoomy, Zenon

LEMMA NewlineTyped ==
  ASSUME NEW o \in Outs(Text) PROVE Printf(o, << NL >>) \in Outs(Text)
<1>1. Roomy(o, Text)
  BY OutsRoomy, Zenon
<1>2. PICK C, c, s : C = Text /\ c = NL /\ s = << NL >>
  OBVIOUS
<1>3. c \in C
  BY <1>2, TextIn, Zenon
<1>4. s \in Seq(C) /\ s # << >>
  <2>1. s = << c >>
    BY <1>2, Zenon
  <2> QED BY <1>3, <2>1
<1>5. Roomy(Printf(o, s), C)
  <2>1. ";" \in C /\ "," \in C /\ Nul \in C /\ Roomy(o, C)
    BY <1>1, <1>2, TextIn, Zenon
  <2> QED BY <1>4, <2>1, PrintfRoomy, Zenon
<1> QED BY <1>2, <1>5, OutsRoomy, Zenon

LEMMA AnswerTyped ==
  ASSUME NEW o \in Outs(Text), NEW q \in Query
  PROVE  Answer(o, Elements[q]) \in Outs(Text)
<1>1. PICK S, E, el : S = Outs(Text) /\ E = Asked /\ el = Elements[q]
  OBVIOUS
<1>2. \A p \in S : \A s \in E : Printf(p, s) \in S
  BY <1>1, PrintfTyped, Zenon
<1>3. el \in Seq(E) /\ o \in S
  BY <1>1, AskedTyped, Zenon
<1>4. PICK put \in [ 0..Len(el) -> S ] : Puts(put, o, el) /\ Answer(o, el) = put[Len(el)]
  BY <1>2, <1>3, AnswerPuts, Zenon
<1>5. Len(el) \in 0..Len(el)
  BY <1>3
<1>6. Answer(o, el) \in S
  BY <1>4, <1>5
<1> QED BY <1>1, <1>6, Zenon

LEMMA MarksTyped ==
  ASSUME NEW o \in Outs(Text)
  PROVE  CmdSep(o) \in Outs(Text) /\ ResetLen(o) \in Outs(Text)
<1>1. PICK C : C = Text
  OBVIOUS
<1>2. o \in Outs(C)
  BY <1>1, Zenon
<1>3. CmdSep(o) \in Outs(C)
  BY <1>2 DEF CmdSep, Outs
<1>4. ResetLen(o) \in Outs(C)
  <2>1. PICK t : t = << >>
    OBVIOUS
  <2>2. t \in Seq(C) /\ Len(t) < OutSize
    BY <2>1, OutSizeAssumption
  <2>3. /\ o \in [ text : Seq(C), needSep : BOOLEAN, numElem : Nat, overflow : BOOLEAN ]
        /\ ResetLen(o) = [ o EXCEPT !.text = t ]
    BY <1>2, <2>1 DEF ResetLen, Outs
  <2>4. /\ ResetLen(o) \in [ text : Seq(C), needSep : BOOLEAN, numElem : Nat, overflow : BOOLEAN ]
        /\ ResetLen(o).text = t
    BY <2>2, <2>3
  <2> QED BY <2>2, <2>4 DEF Outs
<1> QED BY <1>1, <1>3, <1>4, Zenon

LEMMA ClearedTyped == Cleared \in Outs(Text)
<1>1. PICK C : C = Text
  OBVIOUS
<1>2. Cleared \in Outs(C)
  BY OutSizeAssumption DEF Cleared, Outs
<1> QED BY <1>1, <1>2, Zenon

----------------------------------------------------------------------------
(* The parser's state in the middle of a line.                             *)
Taken == [ out : Outs(Text), owed : Seq(Late),
           expect : { "first", "command", "separator", "error" } ]

LEMMA TakeTyped ==
  ASSUME NEW p \in Taken, NEW c PROVE Take(p, c) \in Taken
<1>1. PICK O, L, X : /\ O = Outs(Text) /\ L = Seq(Late)
                     /\ X = { "first", "command", "separator", "error" }
  OBVIOUS
<1>2. p \in [ out : O, owed : L, expect : X ]
  BY <1>1, Zenon DEF Taken
<1>3. PICK o : o = p.out
  OBVIOUS
<1>4. o \in O
  BY <1>2, <1>3
<1>5. CmdSep(o) \in O /\ ResetLen(o) \in O
  BY <1>1, <1>4, MarksTyped, Zenon
<1>6. c \in Query => Answer(o, Elements[c]) \in O
  BY <1>1, <1>4, AnswerTyped, Zenon
<1>7. c \in Late => Append(p.owed, c) \in L
  <2>1. p.owed \in L
    BY <1>2
  <2> QED BY <1>1, <2>1
<1>8. "command" \in X /\ "separator" \in X /\ "error" \in X
  BY <1>1, Zenon
<1>9. \A x \in X : [ p EXCEPT !.expect = x ] \in [ out : O, owed : L, expect : X ]
  BY <1>2
<1>10. \A x \in X : \A a \in O : [ p EXCEPT !.expect = x, !.out = a ]
                                   \in [ out : O, owed : L, expect : X ]
  BY <1>2
<1>11. \A x \in X : \A a \in L : [ p EXCEPT !.expect = x, !.owed = a ]
                                   \in [ out : O, owed : L, expect : X ]
  BY <1>2
<1>12. TakeCommand(p, c) \in [ out : O, owed : L, expect : X ]
  <2>1. c \in Late => [ p EXCEPT !.expect = "separator", !.owed = Append(@, c) ]
                        \in [ out : O, owed : L, expect : X ]
    BY <1>7, <1>8, <1>11, Zenon
  <2>2. c \in Query => [ p EXCEPT !.expect = "separator", !.out = Answer(@, Elements[c]) ]
                        \in [ out : O, owed : L, expect : X ]
    BY <1>3, <1>6, <1>8, <1>10, Zenon
  <2>3. [ p EXCEPT !.expect = "separator", !.out = ResetLen(@) ]
           \in [ out : O, owed : L, expect : X ]
    BY <1>3, <1>5, <1>8, <1>10, Zenon
  <2>4. /\ [ p EXCEPT !.expect = "separator" ] \in [ out : O, owed : L, expect : X ]
        /\ [ p EXCEPT !.expect = "error" ] \in [ out : O, owed : L, expect : X ]
    BY <1>8, <1>9, Zenon
  <2> QED BY <2>1, <2>2, <2>3, <2>4, Zenon DEF TakeCommand
<1>13. Take(p, c) \in [ out : O, owed : L, expect : X ]
  <2>1. [ p EXCEPT !.expect = "command", !.out = CmdSep(@) ]
           \in [ out : O, owed : L, expect : X ]
    BY <1>3, <1>5, <1>8, <1>10, Zenon
  <2>2. [ p EXCEPT !.expect = "error" ] \in [ out : O, owed : L, expect : X ]
    BY <1>8, <1>9, Zenon
  <2> QED BY <1>2, <1>12, <2>1, <2>2, Zenon DEF Take
<1> QED BY <1>1, <1>13, Zenon DEF Taken

LEMMA BeginTyped == Begin(Cleared) \in Taken
<1>1. PICK O, L, o, t : O = Outs(Text) /\ L = Seq(Late) /\ o = Cleared /\ t = << >>
  OBVIOUS
<1>2. o \in O
  BY <1>1, ClearedTyped, Zenon
<1>3. t \in L
  BY <1>1
<1>4. Begin(Cleared) = [ out |-> o, owed |-> t, expect |-> "first" ]
  BY <1>1, Zenon DEF Begin
<1>5. Begin(Cleared) \in
        [ out : O, owed : L, expect : { "first", "command", "separator", "error" } ]
  BY <1>2, <1>3, <1>4
<1> QED BY <1>1, <1>5, Zenon DEF Taken

LEMMA ParsedTyped ==
  ASSUME NEW E, NEW l \in Seq(E) PROVE Parsed(l) \in Taken
<1>1. PICK S : S = Taken
  OBVIOUS
<1>2. Begin(Cleared) \in S /\ \A p \in S : \A c \in E : Take(p, c) \in S
  BY <1>1, BeginTyped, TakeTyped, Zenon
<1>3. PICK took \in [ 0..Len(l) -> S ] : Takes(took, l) /\ Parsed(l) = took[Len(l)]
  BY <1>2, ParsedTakes, Zenon
<1>4. Len(l) \in 0..Len(l)
  OBVIOUS
<1>5. Parsed(l) \in S
  BY <1>3, <1>4
<1> QED BY <1>1, <1>5, Zenon

LEMMA FlushTyped ==
  ASSUME NEW o \in Outs(Text) PROVE Flushed(o) \in Outs(Text)
<1>1. Printf(o, << NL >>) \in Outs(Text)
  BY NewlineTyped
<1>2. ResetLen(Printf(o, << NL >>)) \in Outs(Text)
  BY <1>1, MarksTyped, Zenon
<1> QED BY <1>2, Zenon DEF Flushed

Event == { "LINE", "FLUSH" }

OutInv == /\ out \in Outs(Text) /\ owed \in Seq(Late)
          /\ evq \in Seq(Event) /\ quit \in BOOLEAN

LEMMA EventTyped ==
  /\ << >> \in Seq(Event) /\ << "LINE" >> \in Seq(Event) /\ << "FLUSH" >> \in Seq(Event)
  /\ \A q \in Seq(Event) : \A e \in Event : Append(q, e) \in Seq(Event)
  /\ \A q, r \in Seq(Event) : q \o r \in Seq(Event)
  /\ \A q \in Seq(Event) : q # << >> => Tail(q) \in Seq(Event)
<1>1. "LINE" \in Event /\ "FLUSH" \in Event
  BY DEF Event
<1> QED BY <1>1

LEMMA NextLineTyped ==
  ASSUME Within, CharsOK, HasLine
  PROVE  NextLine \in Seq(Char \cup { NL, Nul })
<1>1. PICK C, e : C = Char \cup { NL, Nul } /\ e = Eol
  OBVIOUS
<1>2. e \in line..line + len - 1
  BY <1>1, EolInLine
<1>3. /\ line \in 1..BufSize /\ len \in 1..BufSize /\ line + len - 1 <= BufSize
      /\ BufSize \in Nat
  BY BufSizeAssumption DEF Within, InBuffer, HasLine
<1>4. buf \in [ 1..BufSize -> C ]
  BY <1>1, Zenon DEF CharsOK
<1>5. buf \in Seq(C) /\ Len(buf) = BufSize
  BY <1>3, <1>4
<1>6. \A i \in line..e - 1 : i \in 1..Len(buf)
  BY <1>2, <1>3, <1>5
<1>7. SubSeq(buf, line, e - 1) \in Seq(C)
  <2>1. line \in 1..Len(buf) + 1 /\ e - 1 \in line - 1..Len(buf)
    BY <1>2, <1>3, <1>5
  <2> QED BY <1>5, <2>1, SubSeqProperties
<1> QED BY <1>1, <1>7, Zenon DEF NextLine

LEMMA LineBehindTyped ==
  ASSUME BufferInv, CharsOK, Overrun, NEW eol \in Behind, NEW bytes \in BytesBehind(eol)
  PROVE  LineBehind(bytes) \in Seq(Char \cup { NL, Nul })
<1>1. PICK C : C = Char \cup { NL, Nul }
  OBVIOUS
<1>2. line \in Nat /\ line # 0 /\ BufSize \in Nat /\ Word \in Nat
  BY BufSizeAssumption, WordAssumption DEF BufferInv, Within, InBuffer, Spilled, Overrun
<1>3. SubSeq(buf, line, BufSize) \in Seq(C)
  <2>1. buf \in [ 1..BufSize -> C ]
    BY <1>1, Zenon DEF CharsOK
  <2>2. buf \in Seq(C) /\ Len(buf) = BufSize
    BY <1>2, <2>1
  <2>3. CASE line <= BufSize
    <3>1. \A i \in line..BufSize : i \in 1..Len(buf)
      BY <1>2, <2>2
    <3>2. line \in 1..Len(buf) + 1 /\ BufSize \in line - 1..Len(buf)
      BY <1>2, <2>2, <2>3
    <3> QED BY <2>2, <3>2, SubSeqProperties
  <2>4. CASE line > BufSize
    <3>1. SubSeq(buf, line, BufSize) = << >>
      BY <1>2, <2>4, SubSeqEmpty
    <3> QED BY <3>1
  <2> QED BY <1>2, <2>3, <2>4
<1>4. bytes \in Seq(C)
  <2>1. PICK k : k = eol - (IF line <= BufSize THEN BufSize + 1 ELSE line)
    OBVIOUS
  <2>2. k \in Nat
    BY <1>2, <2>1 DEF Behind
  <2>3. bytes \in [ 1..k -> C ]
    <3>1. bytes \in [ 1..k -> Char ]
      BY <2>1, Zenon DEF BytesBehind
    <3> QED BY <1>1, <3>1
  <2> QED BY <2>2, <2>3
<1>5. SubSeq(buf, line, BufSize) \o bytes \in Seq(C)
  BY <1>3, <1>4, ConcatProperties, Zenon
<1> QED BY <1>1, <1>5, Zenon DEF LineBehind

(* A line is handled, wherever it comes from.                              *)
LEMMA HandleOut ==
  ASSUME OutInv, evq # << >>, NEW l \in Seq(Char \cup { NL, Nul }), Handle(l)
  PROVE  OutInv'
<1>1. PICK O, L, V : O = Outs(Text) /\ L = Seq(Late) /\ V = Seq(Event)
  OBVIOUS
<1>2. out \in O /\ owed \in L /\ evq \in V /\ quit \in BOOLEAN
  BY <1>1, Zenon DEF OutInv
<1>3. ASSUME evq' \in V, out' \in O, owed' \in L, quit' \in BOOLEAN PROVE OutInv'
  BY <1>1, <1>3, Zenon DEF OutInv
<1>4. Tail(evq) \in V /\ Tail(evq) \o << "FLUSH" >> \in V
  BY <1>1, <1>2, EventTyped, Zenon
<1>5. /\ quit' = quit
      /\ \/ /\ evq' = Tail(evq) \o IF line' # 0 THEN << "LINE" >> ELSE << >>
            /\ out' = out /\ owed' = owed
         \/ /\ out' = Parsed(l).out /\ owed' = owed \o Parsed(l).owed
            /\ evq' = (Tail(evq) \o << "FLUSH" >>)
                        \o IF line' # 0 THEN << "LINE" >> ELSE << >>
  <2>1. /\ quit' = quit
        /\ \/ /\ evq' = Tail(evq) \o IF line' # 0 THEN << "LINE" >> ELSE << >>
              /\ out' = out /\ owed' = owed
           \/ /\ out' = Parsed(l).out /\ owed' = owed \o Parsed(l).owed
              /\ evq' = Tail(evq) \o << "FLUSH" >> \o IF line' # 0 THEN << "LINE" >> ELSE << >>
    BY Zenon DEF Handle
  <2> QED BY <2>1
<1>6. (IF line' # 0 THEN << "LINE" >> ELSE << >>) \in V
  BY <1>1, EventTyped, Zenon
<1>7. evq' \in V
  BY <1>1, <1>4, <1>5, <1>6, EventTyped, Zenon
<1>8. Parsed(l) \in Taken
  BY ParsedTyped, Zenon
<1>9. PICK p : p = Parsed(l)
  OBVIOUS
<1>10. p \in [ out : O, owed : L, expect : { "first", "command", "separator", "error" } ]
  BY <1>1, <1>8, <1>9, Zenon DEF Taken
<1>11. p.out \in O /\ p.owed \in L
  BY <1>10
<1>12. owed \o p.owed \in L
  BY <1>1, <1>2, <1>11
<1>13. out' \in O /\ owed' \in L
  BY <1>2, <1>5, <1>9, <1>11, <1>12, Zenon
<1> QED BY <1>2, <1>3, <1>5, <1>7, <1>13, Zenon

LEMMA OutStep ==
  ASSUME BufferInv, CharsOK, OutInv, [Next]_vars PROVE OutInv'
<1>1. PICK O, L, V : O = Outs(Text) /\ L = Seq(Late) /\ V = Seq(Event)
  OBVIOUS
<1>2. out \in O /\ owed \in L /\ evq \in V /\ quit \in BOOLEAN
  BY <1>1, Zenon DEF OutInv
<1>3. "LINE" \in Event /\ "FLUSH" \in Event
  BY DEF Event
<1>4. ASSUME evq' \in V, out' \in O, owed' \in L, quit' \in BOOLEAN PROVE OutInv'
  BY <1>1, <1>4, Zenon DEF OutInv
<1>5. evq # << >> => Tail(evq) \in V /\ Tail(evq) \o << "FLUSH" >> \in V
  BY <1>1, <1>2, EventTyped, Zenon
<1>6. CASE Write
  BY <1>2, <1>4, <1>6, Zenon DEF Write, outVars
<1>7. CASE ReadWorker
  <2>1. evq' = Append(evq, "LINE") /\ out' = out /\ owed' = owed /\ quit' = quit
    BY <1>7, Zenon DEF ReadWorker
  <2>2. evq' \in V
    BY <1>1, <1>2, <1>3, <2>1, EventTyped, Zenon
  <2> QED BY <1>2, <1>4, <2>1, <2>2, Zenon
<1>8. CASE ProcessText
  <2>1. evq # << >> /\ HasLine /\ Handle(NextLine)
    BY <1>8, Zenon DEF ProcessText, ProcessLine
  <2>2. NextLine \in Seq(Char \cup { NL, Nul })
    BY <2>1, LineWithin, NextLineTyped, Zenon
  <2> QED BY <2>1, <2>2, HandleOut, Zenon
<1>15. CASE ProcessBehind
  <2>1. /\ evq # << >> /\ Overrun
        /\ \E eol \in Behind : \E bytes \in BytesBehind(eol) : Handle(LineBehind(bytes))
    BY <1>15, Zenon DEF ProcessBehind, ProcessLine
  <2>4. PICK eol \in Behind : \E bytes \in BytesBehind(eol) : Handle(LineBehind(bytes))
    BY <2>1, Zenon
  <2>2. PICK bytes \in BytesBehind(eol) : Handle(LineBehind(bytes))
    BY <2>4, Zenon
  <2>3. LineBehind(bytes) \in Seq(Char \cup { NL, Nul })
    BY <2>1, LineBehindTyped, Zenon
  <2> QED BY <2>1, <2>2, <2>3, HandleOut, Zenon
<1>9. CASE ProcessLeftovers
  BY <1>2, <1>4, <1>5, <1>9, Zenon DEF ProcessLeftovers, ProcessLine
<1>10. CASE ProcessEndOfFile
  <2>1. /\ evq # << >> /\ quit' = TRUE /\ out' = Cleared
        /\ evq' = Tail(evq) \o << "FLUSH" >> /\ owed' = owed
    BY <1>10, Zenon DEF ProcessEndOfFile, ProcessLine
  <2>2. out' \in O
    BY <1>1, <2>1, ClearedTyped, Zenon
  <2> QED BY <1>2, <1>4, <1>5, <2>1, <2>2, Zenon
<1>11. CASE ProcessFails \/ ScannerFails
  BY <1>2, <1>4, <1>11, Zenon DEF ProcessFails, ScannerFails
<1>12. CASE Flush
  <2>1. Flushed(out) \in O
    BY <1>1, <1>2, FlushTyped, Zenon
  <2>2. /\ evq # << >> /\ evq' = Tail(evq) /\ owed' = owed /\ quit' = quit
        /\ out' = out \/ out' = Flushed(out)
    BY <1>12, Zenon DEF Flush
  <2> QED BY <1>2, <1>4, <1>5, <2>1, <2>2, Zenon
<1>13. CASE AnswerLate
  <2>1. /\ owed # << >> /\ owed' = Tail(owed) /\ evq' = Append(evq, "FLUSH")
        /\ out' = Answer(out, Elements[Head(owed)]) /\ quit' = quit
    BY <1>13, Zenon DEF AnswerLate
  <2>2. owed' \in L /\ Head(owed) \in Late
    BY <1>1, <1>2, <2>1
  <2>3. Head(owed) \in Query
    BY <2>2, CommandAssumption, Zenon
  <2>4. out' \in O
    BY <1>1, <1>2, <2>1, <2>3, AnswerTyped, Zenon
  <2>5. evq' \in V
    BY <1>1, <1>2, <1>3, <2>1, EventTyped, Zenon
  <2> QED BY <1>2, <1>4, <2>1, <2>2, <2>4, <2>5, Zenon
<1>14. CASE UNCHANGED vars
  BY <1>2, <1>4, <1>14, Zenon DEF vars, outVars
<1> QED BY <1>6, <1>7, <1>8, <1>9, <1>10, <1>11, <1>12, <1>13, <1>14, <1>15, Zenon DEF Next

LEMMA OutInit == ASSUME Init PROVE OutInv
<1>1. evq = << >> /\ out = Cleared /\ owed = << >> /\ quit = FALSE
  BY Zenon DEF Init
<1>2. << >> \in Seq(Late)
  OBVIOUS
<1> QED BY <1>1, <1>2, ClearedTyped, EventTyped, Zenon DEF OutInv

(* The answers stay inside the output buffer, and the parser's state is    *)
(* what it may be, whatever lines the client writes, however they are cut, *)
(* and whatever the answers are (scpi_output.c, parser.c).                 *)
THEOREM OutputNeverLeft == Spec => []TypeOK
<1>1. ASSUME CharsOK, OutInv PROVE TypeOK
  <2>1. PICK C : C = Text
    OBVIOUS
  <2>2. out \in Outs(C)
    BY <1>1, <2>1, Zenon DEF OutInv
  <2>3. /\ Len(out.text) < OutSize
        /\ out.needSep \in BOOLEAN /\ out.numElem \in Nat /\ out.overflow \in BOOLEAN
    BY <2>2 DEF Outs
  <2>4. \A i \in DOMAIN evq : evq[i] \in Event
    <3>1. PICK V : V = Event
      OBVIOUS
    <3>2. evq \in Seq(V)
      BY <1>1, <3>1, Zenon DEF OutInv
    <3> QED BY <3>1, <3>2
  <2>5. owed \in Seq(Late) /\ quit \in BOOLEAN
    BY <1>1, Zenon DEF OutInv
  <2>6. buf \in [ 1..BufSize -> Char \cup { NL, Nul } ]
    BY <1>1, Zenon DEF CharsOK
  <2> QED BY <2>3, <2>4, <2>5, <2>6, Zenon DEF TypeOK, Event
<1>2. Spec => [](BufferInv /\ CharsOK)
  BY BufferInvariant, CharsInit, CharsStep, PTL DEF Spec
<1> QED BY <1>1, <1>2, OutInit, OutStep, PTL DEF Spec

----------------------------------------------------------------------------
LEMMA Positive == ~(0 > 0) /\ \A n \in Nat : n + 1 > 0
OBVIOUS

(* What scpi_output_printf() puts in front of an answer.                   *)
Mark(o) == IF o.needSep THEN << ";" >> ELSE IF o.numElem > 0 THEN << "," >> ELSE << >>

LEMMA AppendText ==
  ASSUME NEW C, NEW c \in C, NEW o \in Outs(C), Len(o.text) <= OutSize - 3
  PROVE  /\ AppendChar(o, c) \in Outs(C) /\ AppendChar(o, c).text = o.text \o << c >>
         /\ AppendChar(o, c).needSep = o.needSep /\ AppendChar(o, c).numElem = o.numElem
<1>1. o.text \in Seq(C) /\ Len(o.text) \in Nat
  BY DEF Outs
<1>2. Current(o) > 1
  BY <1>1, OutSizeAssumption DEF Current
<1>3. AppendChar(o, c) = [ o EXCEPT !.text = Append(@, c) ]
  BY <1>2 DEF AppendChar
<1>4. Append(o.text, c) = o.text \o << c >>
  BY <1>1, AppendIsConcat
<1>5. AppendChar(o, c) \in Outs(C)
  BY AppendRoomy, OutsRoomy, Zenon
<1>6. o \in [ text : Seq(C), needSep : BOOLEAN, numElem : Nat, overflow : BOOLEAN ]
  BY DEF Outs
<1> QED BY <1>3, <1>4, <1>5, <1>6

LEMMA BeforeText ==
  ASSUME NEW C, ";" \in C, "," \in C, NEW o \in Outs(C), NEW s, s # << NL >>,
         Len(o.text) <= OutSize - 3
  PROVE  /\ Before(o, s) \in Outs(C) /\ Before(o, s).text = o.text \o Mark(o)
         /\ Before(o, s).needSep = FALSE
<1>1. o \in [ text : Seq(C), needSep : BOOLEAN, numElem : Nat, overflow : BOOLEAN ]
  BY DEF Outs
<1>2. Before(o, s) \in Outs(C)
  BY BeforeRoomy, OutsRoomy, Zenon
<1>3. CASE o.needSep
  <2>1. PICK a : a = AppendChar(o, ";")
    OBVIOUS
  <2>2. a \in Outs(C) /\ a.text = o.text \o << ";" >>
    BY <2>1, AppendText, Zenon
  <2>3. PICK b : b = [ a EXCEPT !.needSep = FALSE, !.numElem = 0 ]
    OBVIOUS
  <2>4. b.text = a.text /\ b.needSep = FALSE /\ ~(b.numElem > 0)
    <3>1. a \in [ text : Seq(C), needSep : BOOLEAN, numElem : Nat, overflow : BOOLEAN ]
      BY <2>2, Zenon DEF Outs
    <3>2. b.text = a.text /\ b.needSep = FALSE /\ b.numElem = 0
      BY <2>3, <3>1
    <3> QED BY <3>2, Positive, Zenon
  <2>5. Separated(o) = b
    BY <1>3, <2>1, <2>3, Zenon DEF Separated
  <2>6. Before(o, s) = b
    BY <2>4, <2>5, Zenon DEF Before
  <2>7. Mark(o) = << ";" >>
    BY <1>3, Zenon DEF Mark
  <2> QED BY <1>2, <2>2, <2>4, <2>6, <2>7, Zenon
<1>4. CASE ~o.needSep /\ o.numElem > 0
  <2>1. Before(o, s) = AppendChar(o, ",")
    BY <1>4, Zenon DEF Before, Separated
  <2>2. /\ AppendChar(o, ",").text = o.text \o << "," >>
        /\ AppendChar(o, ",").needSep = o.needSep
    BY AppendText, Zenon
  <2>3. Mark(o) = << "," >>
    BY <1>4, Zenon DEF Mark
  <2>4. o.needSep = FALSE
    BY <1>1, <1>4
  <2> QED BY <1>2, <2>1, <2>2, <2>3, <2>4, Zenon
<1>5. CASE ~o.needSep /\ ~(o.numElem > 0)
  <2>1. Before(o, s) = o
    BY <1>5, Zenon DEF Before, Separated
  <2>2. Mark(o) = << >>
    BY <1>5, Zenon DEF Mark
  <2>3. o.text \o << >> = o.text /\ o.needSep = FALSE
    <3>1. o.text \in Seq(C) /\ o.needSep \in BOOLEAN
      BY <1>1
    <3>2. o.text \o << >> = o.text
      BY <3>1, ConcatEmptySeq
    <3> QED BY <1>5, <3>1, <3>2, Zenon
  <2> QED BY <1>2, <2>1, <2>2, <2>3, Zenon
<1> QED BY <1>3, <1>4, <1>5

LEMMA PutText ==
  ASSUME NEW C, NEW o \in Outs(C), NEW s \in Seq(C), Len(o.text) + Len(s) <= OutSize - 2
  PROVE  /\ Put(o, s).text = o.text \o s /\ Put(o, s).needSep = o.needSep
         /\ Put(o, s).numElem = o.numElem
<1>1. o \in [ text : Seq(C), needSep : BOOLEAN, numElem : Nat, overflow : BOOLEAN ]
  BY DEF Outs
<1>2. Len(o.text) \in Nat /\ Len(s) \in Nat /\ OutSize \in Nat
  BY <1>1, OutSizeAssumption
<1>3. ~(Len(s) > Current(o)) /\ ~(Len(s) = Current(o))
  <2>1. PICK m, n : m = Len(o.text) /\ n = Len(s)
    OBVIOUS
  <2>2. m \in Nat /\ n \in Nat /\ m + n <= OutSize - 2 /\ OutSize \in Nat
    BY <1>2, <2>1, Zenon
  <2>3. Current(o) = OutSize - m - 1
    BY <2>1, Zenon DEF Current
  <2>4. ~(n > Current(o)) /\ ~(n = Current(o))
    BY <2>2, <2>3
  <2> QED BY <2>1, <2>4, Zenon
<1>4. Put(o, s) = [ o EXCEPT !.text = @ \o s ]
  BY <1>3, Zenon DEF Put
<1> QED BY <1>1, <1>4

(* An element that fits goes behind what is there, with one mark.          *)
LEMMA PrintfText ==
  ASSUME NEW C, ";" \in C, "," \in C, Nul \in C, NEW o \in Outs(C), NEW s \in Seq(C),
         s # << >>, s # << NL >>, Len(o.text) <= OutSize - 3,
         Len(o.text \o Mark(o)) + Len(s) <= OutSize - 2
  PROVE  /\ Printf(o, s).text = (o.text \o Mark(o)) \o s
         /\ Printf(o, s).needSep = FALSE /\ Printf(o, s).numElem > 0
<1>1. PICK b : b = Before(o, s)
  OBVIOUS
<1>2. b \in Outs(C) /\ b.text = o.text \o Mark(o) /\ b.needSep = FALSE
  BY <1>1, BeforeText, Zenon
<1>3. PICK p : p = Put(b, s)
  OBVIOUS
<1>4. p.text = b.text \o s /\ p.needSep = b.needSep /\ p.numElem = b.numElem
  <2>1. Len(b.text) + Len(s) <= OutSize - 2
    BY <1>2, Zenon
  <2> QED BY <1>2, <1>3, <2>1, PutText, Zenon
<1>5. p \in Outs(C)
  BY <1>2, <1>3, PutRoomy, OutsRoomy, Zenon
<1>6. Printf(o, s) = [ p EXCEPT !.numElem = @ + 1 ]
  BY <1>1, <1>3, Zenon DEF Printf
<1>7. p.numElem \in Nat
  BY <1>5 DEF Outs
<1>8. /\ Printf(o, s).text = p.text /\ Printf(o, s).needSep = p.needSep
      /\ Printf(o, s).numElem = p.numElem + 1
  BY <1>5, <1>6 DEF Outs
<1>11. Printf(o, s).numElem > 0
  BY <1>7, <1>8, Positive, Zenon
<1> QED BY <1>2, <1>4, <1>8, <1>11, Zenon

----------------------------------------------------------------------------
(* Lengths of sequences in a row.                                          *)
LEMMA Longest ==
  ASSUME NEW C, NEW a \in Seq(C), NEW b \in Seq(C)
  PROVE  /\ a \o b \in Seq(C) /\ Len(a \o b) = Len(a) + Len(b)
         /\ Len(a) \in Nat /\ Len(b) \in Nat
         /\ Len(a) <= Len(a \o b) /\ Len(b) <= Len(a \o b)
<1>1. PICK m \in Nat, n \in Nat : m = Len(a) /\ n = Len(b)
  OBVIOUS
<1>2. a \o b \in Seq(C) /\ Len(a \o b) = m + n
  BY <1>1, ConcatProperties
<1> QED BY <1>1, <1>2

Regroups(a, b, c, d) == ((a \o b) \o c) \o d = a \o (b \o (c \o d))

LEMMA Regroup ==
  ASSUME NEW C, NEW a \in Seq(C), NEW b \in Seq(C), NEW c \in Seq(C), NEW d \in Seq(C)
  PROVE  Regroups(a, b, c, d)
<1>0. \A u \in Seq(C) : (a \o b) \o u = a \o (b \o u)
  BY ConcatAssociative
<1>1. PICK x \in Seq(C), y \in Seq(C) : x = a \o b /\ y = c \o d
  BY Longest
<1>2. (x \o c) \o d = x \o (c \o d)
  BY ConcatAssociative
<1>3. (a \o b) \o y = a \o (b \o y)
  BY <1>0
<1> QED BY <1>1, <1>2, <1>3, Zenon DEF Regroups

LEMMA FlattenGrows ==
  ASSUME NEW C, NEW seqs \in Seq(Seq(C)), NEW f \in [ 0..Len(seqs) -> Seq(C) ],
         Flattens(f, seqs)
  PROVE  \A n \in 0..Len(seqs) : Len(f[n]) <= Len(f[Len(seqs)])
<1>1. PICK m \in Nat : m = Len(seqs)
  OBVIOUS
<1> DEFINE T == { k \in 0..m : Len(f[m - k]) <= Len(f[m]) }
<1>2. f[m] \in Seq(C) /\ Len(f[m]) \in Nat
  BY <1>1
<1>3. 0 \in T
  <2>1. m - 0 = m
    OBVIOUS
  <2> QED BY <1>2, <2>1
<1>4. ASSUME NEW k \in 1..m, k - 1 \in T PROVE k \in T
  <2>1. PICK n : n = m - k
    OBVIOUS
  <2>2. /\ n \in 0..m - 1 /\ n + 1 \in 1..m /\ m - (k - 1) = n + 1 /\ (n + 1) - 1 = n
        /\ k \in 0..m
    BY <2>1
  <2>3. f[n + 1] = f[n] \o seqs[n + 1]
    <3>1. f[n + 1] = f[(n + 1) - 1] \o seqs[n + 1]
      BY <1>1, <2>2 DEF Flattens
    <3> QED BY <2>2, <3>1
  <2>4. f[n] \in Seq(C) /\ seqs[n + 1] \in Seq(C)
    <3>1. n \in 0..Len(seqs) /\ n + 1 \in 1..Len(seqs)
      BY <1>1, <2>2
    <3>2. seqs[n + 1] \in Seq(C)
      BY <3>1, ElementOfSeq
    <3> QED BY <3>1, <3>2
  <2>5. Len(f[n]) <= Len(f[n + 1]) /\ Len(f[n]) \in Nat /\ Len(f[n + 1]) \in Nat
    BY <2>3, <2>4, Longest
  <2>6. Len(f[n + 1]) <= Len(f[m])
    BY <1>4, <2>2
  <2>7. Len(f[n]) <= Len(f[m])
    BY <1>2, <2>5, <2>6
  <2> QED BY <2>1, <2>2, <2>7
<1> HIDE DEF T
<1>5. \A k \in 0..m : k \in T
  BY <1>3, <1>4, Along
<1>6. ASSUME NEW n \in 0..m PROVE Len(f[n]) <= Len(f[m])
  <2>1. m - n \in 0..m /\ m - (m - n) = n
    OBVIOUS
  <2>2. m - n \in T
    BY <1>5, <2>1
  <2> QED BY <2>1, <2>2 DEF T
<1> QED BY <1>1, <1>6

(* The elements of an answer with their commas.                            *)
Parts(el) == [ n \in DOMAIN el |-> IF n = 1 THEN el[1] ELSE << "," >> \o el[n] ]

LEMMA JoinedParts == ASSUME NEW el PROVE Joined(el) = FlattenSeq(Parts(el))
BY Zenon DEF Joined, Parts

LEMMA CommaTyped ==
  << "," >> \in Seq(Text) /\ << ";" >> \in Seq(Text) /\ << >> \in Seq(Text)
<1>1. PICK C, a, b : C = Text /\ a = "," /\ b = ";"
  OBVIOUS
<1>2. a \in C /\ b \in C
  BY <1>1, TextIn, Zenon
<1>3. << a >> \in Seq(C) /\ << b >> \in Seq(C) /\ << >> \in Seq(C)
  BY <1>2
<1> QED BY <1>1, <1>3, Zenon

LEMMA MarkTyped == ASSUME NEW o PROVE Mark(o) \in Seq(Text)
BY CommaTyped, Zenon DEF Mark

LEMMA PartsTyped ==
  ASSUME NEW el \in Seq(Asked)
  PROVE  /\ Parts(el) \in Seq(Seq(Text)) /\ Len(Parts(el)) = Len(el)
         /\ \A n \in 1..Len(el) : /\ el[n] \in Asked
                                  /\ n = 1 => Parts(el)[n] = el[n]
                                  /\ n # 1 => Parts(el)[n] = << "," >> \o el[n]
<1>1. PICK S, A, c : S = Seq(Text) /\ A = Asked /\ c = << "," >>
  OBVIOUS
<1>2. el \in Seq(A)
  BY <1>1, Zenon
<1>3. PICK m \in Nat : m = Len(el)
  BY <1>2
<1>4. \A n \in 1..m : el[n] \in A
  BY <1>2, <1>3
<1>5. A \subseteq S
  BY <1>1, TextIn, Zenon
<1>6. c \in S
  BY <1>1, CommaTyped, Zenon
<1>7. \A s \in S : c \o s \in S
  <2>1. PICK C : C = Text
    OBVIOUS
  <2>2. S = Seq(C)
    BY <1>1, <2>1, Zenon
  <2> QED BY <1>6, <2>2
<1>8. DOMAIN el = 1..m
  BY <1>2, <1>3
<1>9. PICK p : p = Parts(el)
  OBVIOUS
<1>10. p = [ n \in 1..m |-> IF n = 1 THEN el[1] ELSE c \o el[n] ]
  BY <1>1, <1>8, <1>9, Zenon DEF Parts
<1>11. \A n \in 1..m : p[n] = IF n = 1 THEN el[1] ELSE c \o el[n]
  BY <1>10
<1>12. \A n \in 1..m : (IF n = 1 THEN el[1] ELSE c \o el[n]) \in S
  <2>1. ASSUME NEW n \in 1..m PROVE el[n] \in S
    BY <1>4, <1>5
  <2> QED BY <1>7, <2>1, Zenon
<1>13. p \in [ 1..m -> S ]
  BY <1>10, <1>12, Zenon
<1>14. p \in Seq(S) /\ Len(p) = m
  BY <1>13
<1>15. \A n \in 1..m : (n = 1 => p[n] = el[n]) /\ (n # 1 => p[n] = c \o el[n])
  BY <1>11, Zenon
<1> QED BY <1>1, <1>3, <1>4, <1>9, <1>14, <1>15, Zenon

LEMMA PrintfMore ==
  ASSUME NEW o \in Outs(Text), NEW s \in Asked,
         Len((o.text \o Mark(o)) \o s) <= OutSize - 3
  PROVE  /\ Printf(o, s).text = (o.text \o Mark(o)) \o s
         /\ Printf(o, s).needSep = FALSE /\ Printf(o, s).numElem > 0
<1>1. PICK C : C = Text
  OBVIOUS
<1>2. o.text \in Seq(C)
  <2>1. o \in Outs(C)
    BY <1>1, Zenon
  <2> QED BY <2>1 DEF Outs
<1>3. PICK b : b = o.text \o Mark(o)
  OBVIOUS
<1>4. Mark(o) \in Seq(C) /\ s \in Seq(C)
  BY <1>1, MarkTyped, TextIn, Zenon
<1>5. b \in Seq(C) /\ Len(o.text) <= Len(b)
  BY <1>2, <1>3, <1>4, Longest, Zenon
<1>6. Len(b \o s) = Len(b) + Len(s) /\ Len(b) <= Len(b \o s)
  BY <1>4, <1>5, Longest, Zenon
<1>7. Len(b) \in Nat /\ Len(s) \in Nat /\ Len(o.text) \in Nat
  BY <1>2, <1>4, <1>5
<1>8. Len(b \o s) <= OutSize - 3
  BY <1>3, Zenon
<1>9. OutSize \in Nat
  BY OutSizeAssumption
<1>10. Len(o.text) <= OutSize - 3 /\ Len(b) + Len(s) <= OutSize - 2
  BY <1>5, <1>6, <1>7, <1>8, <1>9
<1>11. /\ ";" \in Text /\ "," \in Text /\ Nul \in Text /\ s \in Seq(Text)
       /\ s # << >> /\ s # << NL >>
  BY TextIn, Zenon
<1>12. Len(o.text \o Mark(o)) + Len(s) <= OutSize - 2
  BY <1>3, <1>10, Zenon
<1> QED BY <1>10, <1>11, <1>12, PrintfText, Zenon

(* The elements of one answer that fits, one after the other.              *)
LEMMA AnswerText ==
  ASSUME NEW o \in Outs(Text), NEW el \in Seq(Asked), el # << >>,
         o.needSep \/ ~(o.numElem > 0),
         Len((o.text \o Mark(o)) \o Joined(el)) <= OutSize - 3
  PROVE  /\ Answer(o, el).text = (o.text \o Mark(o)) \o Joined(el)
         /\ Answer(o, el).needSep = FALSE
<1>1. PICK S, A, C, J : S = Outs(Text) /\ A = Asked /\ C = Text /\ J = Joined(el)
  OBVIOUS
<1>2. \A p \in S : \A s \in A : Printf(p, s) \in S
  BY <1>1, PrintfTyped, Zenon
<1>3. PICK m : m = Len(el)
  OBVIOUS
<1>4. el \in Seq(A) /\ o \in S
  BY <1>1, Zenon
<1>5. m \in Nat /\ m # 0
  BY <1>3, <1>4, EmptySeq
<1>6. PICK put \in [ 0..m -> S ] : Puts(put, o, el) /\ Answer(o, el) = put[m]
  BY <1>2, <1>3, <1>4, AnswerPuts, Zenon
<1>7. PICK seqs : seqs = Parts(el)
  OBVIOUS
<1>8. /\ seqs \in Seq(Seq(C)) /\ Len(seqs) = m
      /\ \A n \in 1..m : /\ el[n] \in A
                         /\ n = 1 => seqs[n] = el[n]
                         /\ n # 1 => seqs[n] = << "," >> \o el[n]
  BY <1>1, <1>3, <1>7, PartsTyped, Zenon
<1>9. PICK f \in [ 0..m -> Seq(C) ] : Flattens(f, seqs) /\ FlattenSeq(seqs) = f[m]
  BY <1>8, FlattenSteps, Zenon
<1>10. J = f[m]
  BY <1>1, <1>7, <1>9, JoinedParts, Zenon
<1>11. \A n \in 0..m : f[n] \in Seq(C) /\ Len(f[n]) <= Len(f[m])
  BY <1>8, <1>9, FlattenGrows, Zenon
<1>12. PICK b : b = o.text \o Mark(o)
  OBVIOUS
<1>13. b \in Seq(C)
  <2>1. o \in Outs(C)
    BY <1>1, Zenon
  <2>2. o.text \in Seq(C)
    BY <2>1 DEF Outs
  <2> QED BY <1>1, <1>12, <2>2, MarkTyped, Longest, Zenon
<1>14. Len(b \o f[m]) <= OutSize - 3
  BY <1>1, <1>10, <1>12, Zenon
<1>15. ASSUME NEW n \in 0..m
       PROVE  b \o f[n] \in Seq(C) /\ Len(b \o f[n]) <= OutSize - 3
  <2>1. f[n] \in Seq(C) /\ Len(f[n]) <= Len(f[m]) /\ f[m] \in Seq(C)
    <3>1. m \in 0..m
      BY <1>5
    <3> QED BY <1>11, <3>1
  <2>2. PICK i \in Nat, j \in Nat, k \in Nat : i = Len(b) /\ j = Len(f[n]) /\ k = Len(f[m])
    BY <1>13, <2>1
  <2>3. Len(b \o f[n]) = i + j /\ Len(b \o f[m]) = i + k /\ b \o f[n] \in Seq(C)
    BY <1>13, <2>1, <2>2, Longest
  <2>4. OutSize \in Nat
    BY OutSizeAssumption
  <2>5. j <= k /\ i + k <= OutSize - 3
    BY <1>14, <2>1, <2>2, <2>3, Zenon
  <2>6. i + j <= OutSize - 3
    BY <2>4, <2>5
  <2> QED BY <2>3, <2>6, Zenon
<1>16. \A n \in 1..m : f[n] = f[n - 1] \o seqs[n]
  BY <1>8, <1>9, Zenon DEF Flattens
<1>17. \A n \in 1..m : put[n] = Printf(put[n - 1], el[n])
  BY <1>3, <1>6, Zenon DEF Puts
<1>18. put[0] = o /\ f[0] = << >>
  BY <1>6, <1>9, Zenon DEF Puts, Flattens
<1>18a. \A n \in 1..m : /\ n \in 0..m /\ n - 1 \in 0..m /\ n # 0
                        /\ n - 1 = 0 <=> n = 1
  BY <1>5
<1> DEFINE T == { n \in 0..m : n # 0 => /\ put[n].text = b \o f[n]
                                        /\ put[n].needSep = FALSE /\ put[n].numElem > 0 }
<1>19. 0 \in T
  BY <1>5
<1>20. ASSUME NEW n \in 1..m, n - 1 \in T PROVE n \in T
  <2>1. PICK p, e : p = put[n - 1] /\ e = el[n]
    OBVIOUS
  <2>2. n \in 0..m /\ n - 1 \in 0..m /\ n # 0 /\ (n - 1 = 0 <=> n = 1)
    BY <1>18a
  <2>3. p \in S /\ e \in A
    BY <1>6, <1>8, <2>1, <2>2
  <2>4. put[n] = Printf(p, e)
    BY <1>17, <2>1
  <2>5. e \in Seq(C)
    BY <1>1, <2>3, TextIn, Zenon
  <2>6. (p.text \o Mark(p)) \o e = b \o f[n]
    <3>1. CASE n = 1
      <4>1. p = o
        BY <1>18, <2>1, <2>2, <3>1
      <4>2. f[1] = f[0] \o seqs[1] /\ seqs[1] = e
        BY <1>8, <1>16, <2>1, <2>2, <3>1
      <4>3. << >> \o e = e
        BY <2>5, ConcatEmptySeq
      <4> QED BY <1>12, <1>18, <3>1, <4>1, <4>2, <4>3, Zenon
    <3>2. CASE n # 1
      <4>1. p.text = b \o f[n - 1] /\ p.needSep = FALSE /\ p.numElem > 0
        BY <1>20, <2>1, <2>2, <3>2
      <4>2. PICK c : c = << "," >>
        OBVIOUS
      <4>3. Mark(p) = c
        BY <4>1, <4>2, Zenon DEF Mark
      <4>4. c \in Seq(C)
        BY <1>1, <4>2, CommaTyped, Zenon
      <4>5. f[n] = f[n - 1] \o (c \o e)
        BY <1>8, <1>16, <2>1, <3>2, <4>2, Zenon
      <4>6. f[n - 1] \in Seq(C)
        BY <1>11, <2>2, Zenon
      <4>7. ((b \o f[n - 1]) \o c) \o e = b \o (f[n - 1] \o (c \o e))
        <5>1. Regroups(b, f[n - 1], c, e)
          BY <1>13, <2>5, <4>4, <4>6, Regroup, Zenon
        <5> QED BY <5>1, Zenon DEF Regroups
      <4> QED BY <4>1, <4>3, <4>5, <4>7, Zenon
    <3> QED BY <3>1, <3>2
  <2>7. Len((p.text \o Mark(p)) \o e) <= OutSize - 3
    BY <1>15, <2>2, <2>6, Zenon
  <2>8. /\ Printf(p, e).text = (p.text \o Mark(p)) \o e
        /\ Printf(p, e).needSep = FALSE /\ Printf(p, e).numElem > 0
    BY <1>1, <2>3, <2>7, PrintfMore, Zenon
  <2> QED BY <2>2, <2>4, <2>6, <2>8, Zenon
<1> HIDE DEF T
<1>21. \A n \in 0..m : n \in T
  BY <1>5, <1>19, <1>20, Along
<1>22. put[m].text = b \o f[m] /\ put[m].needSep = FALSE
  <2>1. m \in T
    BY <1>5, <1>21
  <2> QED BY <1>5, <2>1 DEF T
<1> QED BY <1>1, <1>6, <1>10, <1>12, <1>22, Zenon

----------------------------------------------------------------------------
(* One character more of a line of queries.                                *)
LEMMA TakeQuery ==
  ASSUME NEW p \in Taken, NEW c \in Query, c \notin Late,
         p.expect = "first" \/ p.expect = "command"
  PROVE  /\ Take(p, c).out = Answer(p.out, Elements[c]) /\ Take(p, c).owed = p.owed
         /\ Take(p, c).expect = "separator"
<1>1. c # ";" /\ c # Cls /\ c \notin Silent
  BY CommandAssumption, Zenon
<1>2. p.expect # "error" /\ p.expect # "separator"
  BY Zenon
<1>3. Take(p, c) = TakeCommand(p, c)
  BY <1>1, <1>2, Zenon DEF Take
<1>4. TakeCommand(p, c) =
        [ p EXCEPT !.expect = "separator", !.out = Answer(@, Elements[c]) ]
  BY <1>1, Zenon DEF TakeCommand
<1>5. PICK O, L, X, a : /\ O = Outs(Text) /\ L = Seq(Late) /\ a = Answer(p.out, Elements[c])
                        /\ X = { "first", "command", "separator", "error" }
  OBVIOUS
<1>6. p \in [ out : O, owed : L, expect : X ]
  BY <1>5, Zenon DEF Taken
<1>7. Take(p, c) = [ p EXCEPT !.expect = "separator", !.out = a ]
  BY <1>3, <1>4, <1>5, Zenon
<1>8. /\ Take(p, c).out = a /\ Take(p, c).owed = p.owed
      /\ Take(p, c).expect = "separator"
  BY <1>6, <1>7
<1> QED BY <1>5, <1>8, Zenon

LEMMA TakeLate ==
  ASSUME NEW p \in Taken, NEW c \in Late, p.expect = "first"
  PROVE  Take(p, c).out = p.out /\ Take(p, c).owed = Append(p.owed, c)
<1>1. c # ";"
  BY CommandAssumption, Zenon
<1>2. p.expect # "error" /\ p.expect # "separator"
  BY Zenon
<1>3. Take(p, c) = TakeCommand(p, c)
  BY <1>1, <1>2, Zenon DEF Take
<1>3a. c # Cls /\ c \notin Silent /\ c \notin Query \ Late
  BY CommandAssumption, Zenon
<1>4. TakeCommand(p, c) =
        [ p EXCEPT !.expect = "separator", !.owed = Append(@, c) ]
  BY <1>3a, Zenon DEF TakeCommand
<1>5. PICK O, L, X, a : /\ O = Outs(Text) /\ L = Seq(Late) /\ a = Append(p.owed, c)
                        /\ X = { "first", "command", "separator", "error" }
  OBVIOUS
<1>6. p \in [ out : O, owed : L, expect : X ]
  BY <1>5, Zenon DEF Taken
<1>7. Take(p, c) = [ p EXCEPT !.expect = "separator", !.owed = a ]
  BY <1>3, <1>4, <1>5, Zenon
<1>8. Take(p, c).out = p.out /\ Take(p, c).owed = a
  BY <1>6, <1>7
<1> QED BY <1>5, <1>8, Zenon

LEMMA TakeSemicolon ==
  ASSUME NEW p \in Taken, p.expect = "separator"
  PROVE  /\ Take(p, ";").out = CmdSep(p.out) /\ Take(p, ";").owed = p.owed
         /\ Take(p, ";").expect = "command"
<1>1. p.expect # "error" /\ p.expect # "command"
  BY Zenon
<1>2. Take(p, ";") = [ p EXCEPT !.expect = "command", !.out = CmdSep(@) ]
  BY <1>1, Zenon DEF Take
<1>3. PICK O, L, X, a : /\ O = Outs(Text) /\ L = Seq(Late) /\ a = CmdSep(p.out)
                        /\ X = { "first", "command", "separator", "error" }
  OBVIOUS
<1>4. p \in [ out : O, owed : L, expect : X ]
  BY <1>3, Zenon DEF Taken
<1>5. Take(p, ";") = [ p EXCEPT !.expect = "command", !.out = a ]
  BY <1>2, <1>3, Zenon
<1>6. /\ Take(p, ";").out = a /\ Take(p, ";").owed = p.owed
      /\ Take(p, ";").expect = "command"
  BY <1>4, <1>5
<1> QED BY <1>3, <1>6, Zenon

LEMMA CmdSepMark ==
  ASSUME NEW o \in Outs(Text)
  PROVE  /\ CmdSep(o).text = o.text /\ CmdSep(o).needSep = TRUE
         /\ Mark(CmdSep(o)) = << ";" >>
<1>1. PICK C : C = Text
  OBVIOUS
<1>2. o \in [ text : Seq(C), needSep : BOOLEAN, numElem : Nat, overflow : BOOLEAN ]
  BY <1>1, Zenon DEF Outs
<1>3. CmdSep(o).text = o.text /\ CmdSep(o).needSep = TRUE
  BY <1>2 DEF CmdSep
<1> QED BY <1>3, Zenon DEF Mark

(* What a line of queries is to be answered, after each character of it.   *)
LEMMA JoinedTyped ==
  ASSUME NEW el \in Seq(Asked), el # << >>
  PROVE  Joined(el) \in Seq(Text) /\ Joined(el) # << >>
<1>1. PICK A, C : A = Asked /\ C = Text
  OBVIOUS
<1>2. PICK m : m = Len(el)
  OBVIOUS
<1>3. el \in Seq(A)
  BY <1>1, Zenon
<1>4. m \in Nat /\ 1 \in 1..m /\ 1 \in 0..m /\ m \in 0..m
  BY <1>2, <1>3, EmptySeq
<1>5. PICK seqs : seqs = Parts(el)
  OBVIOUS
<1>6. /\ seqs \in Seq(Seq(C)) /\ Len(seqs) = m
      /\ el[1] \in A /\ seqs[1] = el[1]
  BY <1>1, <1>2, <1>4, <1>5, PartsTyped, Zenon
<1>7. PICK f \in [ 0..m -> Seq(C) ] : Flattens(f, seqs) /\ FlattenSeq(seqs) = f[m]
  BY <1>6, FlattenSteps, Zenon
<1>8. Joined(el) = f[m]
  BY <1>5, <1>7, JoinedParts, Zenon
<1>9. f[1] \in Seq(C) /\ f[m] \in Seq(C) /\ Len(f[1]) <= Len(f[m])
  BY <1>4, <1>6, <1>7, FlattenGrows, Zenon
<1>10. f[1] = f[1 - 1] \o seqs[1] /\ f[0] = << >>
  BY <1>4, <1>6, <1>7, Zenon DEF Flattens
<1>11. el[1] \in Seq(C) /\ el[1] # << >>
  BY <1>1, <1>6, TextIn, Zenon
<1>12. 1 - 1 = 0
  OBVIOUS
<1>13. f[1] = << >> \o el[1]
  BY <1>6, <1>10, <1>12, Zenon
<1>14. PICK e : e = el[1]
  OBVIOUS
<1>15. e \in Seq(C) /\ e # << >> /\ f[1] = << >> \o e
  BY <1>11, <1>13, <1>14, Zenon
<1>16. Len(f[1]) = Len(e) /\ Len(e) \in Nat \ { 0 }
  BY <1>15, ConcatEmptySeq, EmptySeq
<1>17. f[m] # << >>
  BY <1>9, <1>16, EmptySeq
<1> QED BY <1>1, <1>8, <1>9, <1>17, Zenon

Part(c) == IF c = ";" THEN << ";" >> ELSE Joined(Elements[c])

Wants(w, l) ==
  /\ w[0] = << >>
  /\ \A n \in 1..Len(l) : w[n] = w[n - 1] \o Part(l[n])
  /\ \A n \in 0..Len(l) : Len(w[n]) <= Len(w[Len(l)])

LEMMA PartTyped ==
  ASSUME NEW c, c = ";" \/ c \in Query
  PROVE  Part(c) \in Seq(Text) /\ Part(c) # << >>
<1>1. CASE c = ";"
  <2>1. Part(c) = << ";" >>
    BY <1>1, Zenon DEF Part
  <2>2. << ";" >> # << >>
    OBVIOUS
  <2> QED BY <2>1, <2>2, CommaTyped, Zenon
<1>2. CASE c # ";"
  <2>1. Elements[c] \in Seq(Asked) /\ Elements[c] # << >>
    BY <1>2, AskedTyped, Zenon
  <2>2. Part(c) = Joined(Elements[c])
    BY <1>2, Zenon DEF Part
  <2>3. Joined(Elements[c]) \in Seq(Text) /\ Joined(Elements[c]) # << >>
    BY <2>1, JoinedTyped, Zenon
  <2> QED BY <2>2, <2>3, Zenon
<1> QED BY <1>1, <1>2

LEMMA NewlineFits ==
  ASSUME NEW t \in Seq(Text), Len(t \o << NL >>) <= OutSize - 2
  PROVE  Len(t) <= OutSize - 3
<1>1. PICK C, c, s : C = Text /\ c = NL /\ s = << NL >>
  OBVIOUS
<1>2. c \in C /\ t \in Seq(C)
  BY <1>1, TextIn, Zenon
<1>3. s = << c >>
  BY <1>1, Zenon
<1>4. s \in Seq(C) /\ Len(s) = 1
  BY <1>2, <1>3
<1>5. Len(t \o s) = Len(t) + Len(s) /\ Len(t) \in Nat
  BY <1>2, <1>4, Longest, Zenon
<1>6. Len(t \o s) <= OutSize - 2
  BY <1>1, Zenon
<1>7. PICK n \in Nat : n = Len(t)
  BY <1>5
<1>8. Len(t \o s) = n + 1
  BY <1>4, <1>5, <1>7, Zenon
<1>9. n + 1 <= OutSize - 2
  BY <1>6, <1>8, Zenon
<1>10. n <= OutSize - 3
  BY <1>9, OutSizeAssumption
<1> QED BY <1>7, <1>10, Zenon

OfQueries(l) == \A i \in 1..Len(l) : l[i] = ";" \/ l[i] \in Query

LEMMA LineWanted ==
  ASSUME NEW E, NEW l \in Seq(E), OfQueries(l)
  PROVE  \E w \in [ 0..Len(l) -> Seq(Text) ] :
           Wants(w, l) /\ Wanted(l) = w[Len(l)] \o << NL >>
<1>1. PICK m \in Nat : m = Len(l)
  OBVIOUS
<1>2. DOMAIN l = 1..m
  BY <1>1
<1>3. PICK seqs : seqs = [ n \in 1..m |-> Part(l[n]) ]
  OBVIOUS
<1>4. Wanted(l) = FlattenSeq(seqs) \o << NL >>
  BY <1>2, <1>3, Zenon DEF Wanted, Part
<1>5. PICK C, S : C = Text /\ S = Seq(Text)
  OBVIOUS
<1>6. \A n \in 1..m : Part(l[n]) \in S
  BY <1>1, <1>5, PartTyped, Zenon DEF OfQueries
<1>7. seqs \in [ 1..m -> S ]
  BY <1>3, <1>6, Zenon
<1>8. seqs \in Seq(S) /\ Len(seqs) = m
  BY <1>7
<1>9. PICK f \in [ 0..m -> Seq(C) ] : Flattens(f, seqs) /\ FlattenSeq(seqs) = f[m]
  BY <1>5, <1>8, FlattenSteps, Zenon
<1>10. \A n \in 0..m : Len(f[n]) <= Len(f[m])
  BY <1>5, <1>8, <1>9, FlattenGrows, Zenon
<1>11. \A n \in 1..m : seqs[n] = Part(l[n])
  BY <1>3
<1>12. f[0] = << >> /\ \A n \in 1..m : f[n] = f[n - 1] \o Part(l[n])
  BY <1>8, <1>9, <1>11, Zenon DEF Flattens
<1>13. Wants(f, l)
  BY <1>1, <1>10, <1>12, Zenon DEF Wants
<1> QED BY <1>1, <1>4, <1>5, <1>9, <1>13, Zenon

(* The parser, after n characters of a line of immediate queries.          *)
Odd(n) == n % 2 = 1

Answered(p, t, n) ==
  /\ p.owed = << >>
  /\ Odd(n) => /\ p.expect = "separator" /\ p.out.text = t
               /\ t # << >> /\ p.out.needSep = FALSE
  /\ ~Odd(n) => /\ p.expect = "first" \/ p.expect = "command"
                /\ p.out.needSep \/ ~(p.out.numElem > 0)
                /\ p.out.text \o Mark(p.out) = t

LEMMA OddNext == \A n \in Nat : n # 0 => n - 1 \in Nat /\ (Odd(n) <=> ~Odd(n - 1))
<1> SUFFICES ASSUME NEW n \in Nat, n # 0 PROVE n - 1 \in Nat /\ (Odd(n) <=> ~Odd(n - 1))
  OBVIOUS
<1>1. PICK k : k = n - 1
  OBVIOUS
<1>2. k \in Nat /\ n = k + 1
  BY <1>1
<1>3. k % 2 = 0 \/ k % 2 = 1
  BY <1>2
<1>4. (k + 1) % 2 = 1 <=> k % 2 = 0
  BY <1>2
<1> QED BY <1>1, <1>2, <1>3, <1>4 DEF Odd

LEMMA OddEven == \A n \in Nat : Odd(n) <=> n % 2 # 0
BY DEF Odd

LEMMA InRange ==
  \A m \in Nat : /\ m \in 0..m /\ 0 \in 0..m
                 /\ \A n \in 1..m : n \in Nat /\ n # 0 /\ n \in 0..m /\ n - 1 \in 0..m
OBVIOUS

LEMMA NotLonger ==
  ASSUME NEW a \in Seq(Text), NEW b \in Seq(Text), Len(a) <= Len(b), Len(b) <= OutSize - 3
  PROVE  Len(a) <= OutSize - 3
<1>1. PICK C : C = Text
  OBVIOUS
<1>2. a \in Seq(C) /\ b \in Seq(C)
  BY <1>1, Zenon
<1>3. Len(a) \in Nat /\ Len(b) \in Nat
  BY <1>2
<1> QED BY <1>3, OutSizeAssumption

LEMMA AnsweredFirst == Answered(Begin(Cleared), << >>, 0)
<1>1. ~Odd(0)
  BY DEF Odd
<1>2. PICK o : o = Begin(Cleared).out
  OBVIOUS
<1>3. o = Cleared /\ Begin(Cleared).owed = << >> /\ Begin(Cleared).expect = "first"
  BY <1>2 DEF Begin
<1>4. Cleared.text = << >> /\ Cleared.needSep = FALSE /\ Cleared.numElem = 0
  BY DEF Cleared
<1>5. ~(Cleared.numElem > 0)
  BY <1>4, Positive, Zenon
<1>6. Mark(Cleared) = << >>
  BY <1>4, <1>5, Zenon DEF Mark
<1>7. << >> \o << >> = << >>
  BY EmptySeq, ConcatEmptySeq
<1> QED BY <1>1, <1>2, <1>3, <1>4, <1>5, <1>6, <1>7, Zenon DEF Answered

LEMMA MoreThanNothing ==
  ASSUME NEW C, NEW t \in Seq(C), NEW u \in Seq(C), u # << >> PROVE t \o u # << >>
BY ConcatEqualIffEmpty

LEMMA AnsweredNext ==
  ASSUME NEW p \in Taken, NEW t \in Seq(Text), NEW n \in Nat, n # 0,
         Answered(p, t, n - 1), NEW c,
         Odd(n) => c \in Query /\ c \notin Late, ~Odd(n) => c = ";",
         Len(t \o Part(c)) <= OutSize - 3
  PROVE  Answered(Take(p, c), t \o Part(c), n)
<1>1. p.out \in Outs(Text)
  <2>1. PICK O, L, X : /\ O = Outs(Text) /\ L = Seq(Late)
                       /\ X = { "first", "command", "separator", "error" }
    OBVIOUS
  <2>2. p \in [ out : O, owed : L, expect : X ]
    BY <2>1, Zenon DEF Taken
  <2>3. p.out \in O
    BY <2>2
  <2> QED BY <2>1, <2>3, Zenon
<1>2. CASE Odd(n)
  <2>1. ~Odd(n - 1)
    BY <1>2, OddNext, Zenon
  <2>2. /\ p.owed = << >>
        /\ p.expect = "first" \/ p.expect = "command"
        /\ p.out.needSep \/ ~(p.out.numElem > 0)
        /\ p.out.text \o Mark(p.out) = t
    BY <2>1, Zenon DEF Answered
  <2>3. c \in Query /\ c \notin Late /\ c # ";"
    BY <1>2, CommandAssumption, Zenon
  <2>4. PICK el : el = Elements[c]
    OBVIOUS
  <2>5. Part(c) = Joined(el)
    BY <2>3, <2>4, Zenon DEF Part
  <2>6. el \in Seq(Asked) /\ el # << >>
    BY <2>3, <2>4, AskedTyped, Zenon
  <2>7. /\ Answer(p.out, el).text = t \o Joined(el)
        /\ Answer(p.out, el).needSep = FALSE
    <3>1. Len((p.out.text \o Mark(p.out)) \o Joined(el)) <= OutSize - 3
      BY <2>2, <2>5, Zenon
    <3>2. /\ Answer(p.out, el).text = (p.out.text \o Mark(p.out)) \o Joined(el)
          /\ Answer(p.out, el).needSep = FALSE
      BY <1>1, <2>2, <2>6, <3>1, AnswerText, Zenon
    <3> QED BY <2>2, <3>2, Zenon
  <2>8. /\ Take(p, c).out = Answer(p.out, el) /\ Take(p, c).owed = p.owed
        /\ Take(p, c).expect = "separator"
    BY <2>2, <2>3, <2>4, TakeQuery, Zenon
  <2>9. t \o Joined(el) # << >>
    <3>1. Joined(el) \in Seq(Text) /\ Joined(el) # << >>
      BY <2>6, JoinedTyped, Zenon
    <3> QED BY <3>1, MoreThanNothing, Zenon
  <2> QED BY <1>2, <2>2, <2>5, <2>7, <2>8, <2>9, Zenon DEF Answered
<1>3. CASE ~Odd(n)
  <2>1. Odd(n - 1)
    BY <1>3, OddNext, Zenon
  <2>2. p.owed = << >> /\ p.expect = "separator" /\ p.out.text = t
    BY <2>1, Zenon DEF Answered
  <2>3. c = ";" /\ Part(c) = << ";" >>
    BY <1>3, Zenon DEF Part
  <2>4. /\ Take(p, c).out = CmdSep(p.out) /\ Take(p, c).owed = p.owed
        /\ Take(p, c).expect = "command"
    BY <2>2, <2>3, TakeSemicolon, Zenon
  <2>5. /\ CmdSep(p.out).text = p.out.text /\ CmdSep(p.out).needSep = TRUE
        /\ Mark(CmdSep(p.out)) = << ";" >>
    BY <1>1, CmdSepMark, Zenon
  <2> QED BY <1>3, <2>2, <2>3, <2>4, <2>5, Zenon DEF Answered
<1> QED BY <1>2, <1>3

(* A line of immediate queries, of any length and with answers of any      *)
(* number of elements, leaves its answers in the buffer as they have to be *)
(* written, if they fit.                                                   *)
Placed(o, l) == o.text \o << NL >> = Wanted(l) /\ o.text # << >> /\ o.needSep = FALSE

LEMMA QueriesTaken ==
  ASSUME NEW E, NEW l \in Seq(E), OfQueries(l), Odd(Len(l)),
         \A i \in 1..Len(l) : /\ Odd(i) => l[i] \in Query /\ l[i] \notin Late
                              /\ ~Odd(i) => l[i] = ";",
         Len(Wanted(l)) <= OutSize - 2
  PROVE  Parsed(l).owed = << >> /\ Placed(Parsed(l).out, l)
<1>1. PICK w \in [ 0..Len(l) -> Seq(Text) ] :
         Wants(w, l) /\ Wanted(l) = w[Len(l)] \o << NL >>
  BY LineWanted, Zenon
<1>2. PICK S : S = Taken
  OBVIOUS
<1>3. PICK took \in [ 0..Len(l) -> S ] : Takes(took, l) /\ Parsed(l) = took[Len(l)]
  <2>1. Begin(Cleared) \in S /\ \A p \in S : \A c \in E : Take(p, c) \in S
    BY <1>2, BeginTyped, TakeTyped, Zenon
  <2> QED BY <2>1, ParsedTakes, Zenon
<1>4. Len(l) \in Nat /\ Len(l) \in 0..Len(l)
  <2>1. PICK k : k = l
    OBVIOUS
  <2>2. k \in Seq(E)
    BY <2>1, Zenon
  <2>3. Len(k) \in Nat
    BY <2>2, LenProperties, Zenon
  <2> QED BY <2>1, <2>3, InRange, Zenon
<1>5. Len(w[Len(l)]) <= OutSize - 3
  BY <1>1, <1>4, NewlineFits, Zenon
<1> DEFINE T == { n \in 0..Len(l) : Answered(took[n], w[n], n) }
<1>6. 0 \in T
  <2>1. took[0] = Begin(Cleared) /\ w[0] = << >>
    BY <1>1, <1>3, Zenon DEF Takes, Wants
  <2>2. Answered(Begin(Cleared), << >>, 0)
    BY AnsweredFirst, Zenon
  <2> QED BY <1>4, <2>1, <2>2, InRange, Zenon
<1>7. ASSUME NEW n \in 1..Len(l), n - 1 \in T PROVE n \in T
  <2>1. n \in Nat /\ n # 0 /\ n \in 0..Len(l) /\ n - 1 \in 0..Len(l)
    BY <1>4, InRange, Zenon
  <2>2. took[n] = Take(took[n - 1], l[n])
    BY <1>3, Zenon DEF Takes
  <2>3. w[n] = w[n - 1] \o Part(l[n]) /\ Len(w[n]) <= Len(w[Len(l)])
    BY <1>1, <2>1, Zenon DEF Wants
  <2>4. took[n - 1] \in Taken /\ w[n - 1] \in Seq(Text) /\ w[n] \in Seq(Text)
    BY <1>1, <1>2, <1>3, <2>1, Zenon
  <2>5. Answered(took[n - 1], w[n - 1], n - 1)
    BY <1>7, Zenon
  <2>6. /\ Odd(n) => l[n] \in Query /\ l[n] \notin Late
        /\ ~Odd(n) => l[n] = ";"
    BY Zenon
  <2>7. Len(w[n - 1] \o Part(l[n])) <= OutSize - 3
    <3>1. w[Len(l)] \in Seq(Text)
      BY <1>1, <1>4, Zenon
    <3>2. Len(w[n]) <= OutSize - 3
      BY <1>5, <2>3, <2>4, <3>1, NotLonger, Zenon
    <3> QED BY <2>3, <3>2, Zenon
  <2>8. Answered(Take(took[n - 1], l[n]), w[n - 1] \o Part(l[n]), n)
    BY <2>1, <2>4, <2>5, <2>6, <2>7, AnsweredNext, Zenon
  <2> QED BY <2>1, <2>2, <2>3, <2>8, Zenon
<1> HIDE DEF T
<1>8. Len(l) \in T
  <2>1. \A n \in 0..Len(l) : n \in T
    BY <1>4, <1>6, <1>7, Along, Zenon
  <2> QED BY <1>4, <2>1, Zenon
<1>9. Answered(Parsed(l), w[Len(l)], Len(l))
  BY <1>3, <1>8, Zenon DEF T
<1> QED BY <1>1, <1>9, Zenon DEF Answered, Placed

LEMMA OddFirst == \A n \in Nat : Odd(n) => 1 \in 1..n
<1> SUFFICES ASSUME NEW n \in Nat, Odd(n) PROVE 1 \in 1..n
  OBVIOUS
<1>1. n % 2 = 1
  BY DEF Odd
<1>2. n # 0
  BY <1>1
<1> QED BY <1>2

LEMMA AppendFirst == \A c : Append(<< >>, c) = << c >>
<1> SUFFICES ASSUME NEW c PROVE Append(<< >>, c) = << c >>
  OBVIOUS
<1>1. PICK C : C = { c }
  OBVIOUS
<1>2. << >> \in Seq(C) /\ c \in C /\ << c >> \in Seq(C)
  BY <1>1
<1>3. Append(<< >>, c) = << >> \o << c >>
  BY <1>2, AppendIsConcat
<1> QED BY <1>2, <1>3, ConcatEmptySeq

LEMMA QueriesShape ==
  ASSUME NEW E, NEW l \in Seq(E), Queries(l)
  PROVE  /\ OfQueries(l) /\ Odd(Len(l)) /\ 1 \in 1..Len(l)
         /\ \A i \in 1..Len(l) : /\ Odd(i) => l[i] \in Query
                                 /\ ~Odd(i) => l[i] = ";"
                                 /\ Len(l) > 1 => l[i] \notin Late
<1>1. DOMAIN l = 1..Len(l) /\ Len(l) \in Nat
  BY LenProperties, Zenon
<1>2. /\ Len(l) % 2 = 1
      /\ \A i \in 1..Len(l) : IF i % 2 = 0 THEN l[i] = ";" ELSE l[i] \in Query
      /\ Len(l) > 1 => \A i \in 1..Len(l) : l[i] \notin Late
  BY <1>1, Zenon DEF Queries
<1>3. \A i \in 1..Len(l) : i \in Nat
  BY <1>1, InRange, Zenon
<1>4. \A i \in 1..Len(l) : Odd(i) <=> i % 2 # 0
  BY <1>3, OddEven, Zenon
<1>5. OfQueries(l)
  BY <1>2, Zenon DEF OfQueries
<1>6. Odd(Len(l))
  BY <1>2, Zenon DEF Odd
<1>7. 1 \in 1..Len(l)
  BY <1>1, <1>6, OddFirst, Zenon
<1> QED BY <1>2, <1>4, <1>5, <1>6, <1>7, Zenon

(* A late query on a line of its own: its answer is put into the cleared   *)
(* buffer later on.                                                        *)
LEMMA LateTaken ==
  ASSUME NEW E, NEW l \in Seq(E), Len(l) = 1, l[1] \in Late
  PROVE  Parsed(l).out = Cleared /\ Parsed(l).owed = << l[1] >>
<1>1. PICK S : S = Taken
  OBVIOUS
<1>2. PICK took \in [ 0..Len(l) -> S ] : Takes(took, l) /\ Parsed(l) = took[Len(l)]
  <2>1. Begin(Cleared) \in S /\ \A p \in S : \A c \in E : Take(p, c) \in S
    BY <1>1, BeginTyped, TakeTyped, Zenon
  <2> QED BY <2>1, ParsedTakes, Zenon
<1>3. PICK b : b = Begin(Cleared)
  OBVIOUS
<1>4. b.out = Cleared /\ b.owed = << >> /\ b.expect = "first"
  BY <1>3 DEF Begin
<1>5. 1 \in 1..Len(l) /\ 1 - 1 = 0
  OBVIOUS
<1>6. took[1] = Take(b, l[1])
  BY <1>2, <1>3, <1>5, Zenon DEF Takes
<1>7. Take(b, l[1]).out = b.out /\ Take(b, l[1]).owed = Append(b.owed, l[1])
  BY <1>3, <1>4, BeginTyped, TakeLate, Zenon
<1>8. \A c : Append(<< >>, c) = << c >>
  BY AppendFirst, Zenon
<1> QED BY <1>2, <1>4, <1>6, <1>7, <1>8, Zenon

LEMMA LateAnswered ==
  ASSUME NEW E, NEW l \in Seq(E), OfQueries(l), Len(l) = 1, l[1] \in Late,
         Len(Wanted(l)) <= OutSize - 2
  PROVE  Placed(Answer(Cleared, Elements[l[1]]), l)
<1>1. PICK w \in [ 0..Len(l) -> Seq(Text) ] :
         Wants(w, l) /\ Wanted(l) = w[Len(l)] \o << NL >>
  BY LineWanted, Zenon
<1>2. PICK c, el : c = l[1] /\ el = Elements[c]
  OBVIOUS
<1>3. c \in Query /\ c # ";"
  BY <1>2, CommandAssumption, Zenon
<1>4. Part(c) = Joined(el)
  BY <1>2, <1>3, Zenon DEF Part
<1>5. el \in Seq(Asked) /\ el # << >>
  BY <1>2, <1>3, AskedTyped, Zenon
<1>6. Joined(el) \in Seq(Text) /\ Joined(el) # << >>
  BY <1>5, JoinedTyped, Zenon
<1>7. 1 \in 1..1 /\ 1 - 1 = 0 /\ 1 \in 0..1
  OBVIOUS
<1>8. w[1] = << >> \o Joined(el)
  BY <1>1, <1>2, <1>4, <1>7, Zenon DEF Wants
<1>9. Wanted(l) = w[1] \o << NL >> /\ w[1] \in Seq(Text)
  BY <1>1, <1>7, Zenon
<1>10. << >> \o Joined(el) = Joined(el)
  BY <1>6, ConcatEmptySeq, Zenon
<1>11. Len(Joined(el)) <= OutSize - 3
  BY <1>8, <1>9, <1>10, NewlineFits, Zenon
<1>12. Answered(Begin(Cleared), << >>, 0) /\ Begin(Cleared).out = Cleared
  BY AnsweredFirst DEF Begin
<1>13. ~Odd(0)
  BY DEF Odd
<1>14. /\ Cleared.text \o Mark(Cleared) = << >>
       /\ Cleared.needSep \/ ~(Cleared.numElem > 0)
  BY <1>12, <1>13, Zenon DEF Answered
<1>15. Len((Cleared.text \o Mark(Cleared)) \o Joined(el)) <= OutSize - 3
  BY <1>10, <1>11, <1>14, Zenon
<1>16. /\ Answer(Cleared, el).text = (Cleared.text \o Mark(Cleared)) \o Joined(el)
       /\ Answer(Cleared, el).needSep = FALSE
  BY <1>5, <1>14, <1>15, ClearedTyped, AnswerText, Zenon
<1>17. Answer(Cleared, el).text = Joined(el)
  BY <1>10, <1>14, <1>16, Zenon
<1> QED BY <1>2, <1>6, <1>8, <1>9, <1>10, <1>16, <1>17, Zenon DEF Placed

(* What is flushed, when it was placed.                                    *)
LEMMA FlushPlaced ==
  ASSUME NEW o \in Outs(Text), NEW l, Placed(o, l), Len(Wanted(l)) <= OutSize - 2
  PROVE  /\ ~FlushFails(o) /\ Written(o) = Wanted(l) /\ Flushed(o).text = << >>
<1>1. o.text \o << NL >> = Wanted(l) /\ o.text # << >> /\ o.needSep = FALSE
  BY Zenon DEF Placed
<1>2. PICK C, c, s : C = Text /\ c = NL /\ s = << NL >>
  OBVIOUS
<1>3. c \in C /\ o \in Outs(C)
  BY <1>2, TextIn, Zenon
<1>4. s = << c >>
  BY <1>2, Zenon
<1>5. s \in Seq(C) /\ Len(s) = 1
  BY <1>3, <1>4
<1>6. o.text \in Seq(C)
  BY <1>3 DEF Outs
<1>7. Len(o.text) <= OutSize - 3
  BY <1>1, <1>2, <1>6, NewlineFits, Zenon
<1>8. PICK n \in Nat : n = Len(o.text)
  BY <1>6
<1>9. n <= OutSize - 3
  BY <1>7, <1>8, Zenon
<1>10. n + 1 <= OutSize - 2 /\ 1 <= OutSize - n - 1
  BY <1>9, OutSizeAssumption
<1>11. Before(o, s) = o
  BY <1>1, <1>2, Zenon DEF Before, Separated
<1>12. Len(s) <= Current(o)
  BY <1>5, <1>8, <1>10, Zenon DEF Current
<1>13. ~FlushFails(o)
  BY <1>2, <1>11, <1>12, Zenon DEF FlushFails, Fits
<1>14. Len(o.text) + Len(s) <= OutSize - 2
  BY <1>5, <1>8, <1>10, Zenon
<1>15. PICK p : p = Put(o, s)
  OBVIOUS
<1>16. p.text = o.text \o s
  BY <1>3, <1>5, <1>14, <1>15, PutText, Zenon
<1>17. Printf(o, s) = [ p EXCEPT !.numElem = @ + 1 ]
  BY <1>11, <1>15, Zenon DEF Printf
<1>18. p \in Outs(C)
  <2>1. s # << >>
    BY <1>5, EmptySeq
  <2>2. Nul \in C
    BY <1>2, TextIn, Zenon
  <2> QED BY <1>3, <1>5, <1>15, <2>1, <2>2, PutRoomy, OutsRoomy, Zenon
<1>19. Printf(o, s).text = p.text
  BY <1>17, <1>18 DEF Outs
<1>20. Written(o) = Wanted(l)
  BY <1>1, <1>2, <1>16, <1>19, Zenon DEF Written
<1>21. Printf(o, s) \in Outs(C)
  BY <1>2, NewlineTyped, Zenon
<1>22. PICK r : r = Printf(o, s)
  OBVIOUS
<1>23. ResetLen(r).text = << >>
  <2>1. r \in [ text : Seq(C), needSep : BOOLEAN, numElem : Nat, overflow : BOOLEAN ]
    BY <1>21, <1>22, Zenon DEF Outs
  <2> QED BY <2>1 DEF ResetLen
<1>24. Flushed(o) = ResetLen(r)
  BY <1>1, <1>2, <1>22, Zenon DEF Flushed
<1> QED BY <1>13, <1>20, <1>23, <1>24, Zenon

----------------------------------------------------------------------------
(* Where the answers to the line that was processed last are.              *)
Has(q, e) == e \in { q[i] : i \in DOMAIN q }

OneLate(l) == Len(l) = 1 /\ l[1] \in Late

Pending  == OneLate(current) /\ owed = << current[1] >> /\ out = Cleared /\ reply = << >>
Buffered == owed = << >> /\ Has(evq, "FLUSH") /\ reply = << >> /\ Placed(out, current)
Replied  == owed = << >> /\ out.text = << >> /\ reply = Wanted(current)

Concerned == alone /\ Queries(current) /\ Len(Wanted(current)) <= OutSize - 2

Answering ==
  /\ current \in Seq(Char \cup { NL, Nul })
  /\ Concerned => failed # "scpi_output_flush" /\ (quit \/ Pending \/ Buffered \/ Replied)

LEMMA HasStep ==
  /\ Has(<< "FLUSH" >>, "FLUSH")
  /\ \A q \in Seq(Event), d \in Event :
       Has(q, "FLUSH") \/ d = "FLUSH" => Has(Append(q, d), "FLUSH")
  /\ \A q, r \in Seq(Event) : Has(q, "FLUSH") \/ Has(r, "FLUSH") => Has(q \o r, "FLUSH")
  /\ \A q \in Seq(Event) : /\ q # << >>
                           => (Has(q, "FLUSH") /\ Head(q) = "LINE" => Has(Tail(q), "FLUSH"))
<1>1. PICK V, f, g : V = Event /\ f = "FLUSH" /\ g = "LINE"
  OBVIOUS
<1>2. f # g
  BY <1>1
<1>3. Has(<< f >>, f)
  BY DEF Has
<1>4. ASSUME NEW q \in Seq(V), NEW d \in V, Has(q, f) \/ d = f PROVE Has(Append(q, d), f)
  BY <1>4 DEF Has
<1>5. ASSUME NEW q \in Seq(V), NEW r \in Seq(V), Has(q, f) \/ Has(r, f)
      PROVE  Has(q \o r, f)
  <2>1. PICK m \in Nat, n \in Nat : m = Len(q) /\ n = Len(r)
    OBVIOUS
  <2>2. /\ \A i \in 1..m : i \in DOMAIN (q \o r) /\ (q \o r)[i] = q[i]
        /\ \A i \in 1..n : m + i \in DOMAIN (q \o r) /\ (q \o r)[m + i] = r[i]
    BY <2>1
  <2>3. DOMAIN q = 1..m /\ DOMAIN r = 1..n
    BY <2>1
  <2> QED BY <1>5, <2>2, <2>3, Zenon DEF Has
<1>6. ASSUME NEW q \in Seq(V), q # << >>, Has(q, f), Head(q) = g PROVE Has(Tail(q), f)
  <2>1. PICK m \in Nat : m = Len(q)
    OBVIOUS
  <2>2. PICK i \in 1..m : q[i] = f
    BY <1>6, <2>1 DEF Has
  <2>3. q[1] = g
    BY <1>6
  <2>4. i # 1
    BY <1>2, <2>2, <2>3
  <2>5. i - 1 \in 1..m - 1
    BY <2>2, <2>4
  <2>6. i - 1 \in DOMAIN Tail(q) /\ Tail(q)[i - 1] = q[i]
    BY <1>6, <2>1, <2>5
  <2> QED BY <2>2, <2>6, Zenon DEF Has
<1> QED BY <1>1, <1>3, <1>4, <1>5, <1>6, Zenon

LEMMA OneOrMore == \A n \in Nat : 1 \in 1..n => n > 1 \/ (n = 1 /\ \A i \in 1..n : i = 1)
OBVIOUS

LEMMA WantedTyped ==
  ASSUME NEW E, NEW l \in Seq(E), Queries(l) PROVE Wanted(l) \in Seq(Text)
<1>1. OfQueries(l)
  BY QueriesShape, Zenon
<1>2. PICK w \in [ 0..Len(l) -> Seq(Text) ] :
         Wants(w, l) /\ Wanted(l) = w[Len(l)] \o << NL >>
  BY <1>1, LineWanted, Zenon
<1>3. w[Len(l)] \in Seq(Text)
  <2>1. Len(l) \in 0..Len(l)
    BY LenProperties, InRange, Zenon
  <2> QED BY <1>2, <2>1, Zenon
<1>4. PICK C, c, t, s : C = Text /\ c = NL /\ t = w[Len(l)] /\ s = << NL >>
  OBVIOUS
<1>5. c \in C /\ t \in Seq(C) /\ s = << c >>
  BY <1>3, <1>4, TextIn, Zenon
<1>6. s \in Seq(C)
  BY <1>5
<1>7. t \o s \in Seq(C)
  BY <1>5, <1>6, Longest, Zenon
<1> QED BY <1>2, <1>4, <1>7, Zenon

(* What leaves the output alone.                                           *)
LEMMA Kept ==
  ASSUME Answering, owed' = owed, out' = out, current' = current, alone' = alone,
         reply' = reply, quit => quit', Has(evq, "FLUSH") => Has(evq', "FLUSH"),
         failed' = failed \/ failed' # "scpi_output_flush"
  PROVE  Answering'
<1>1. Concerned' => Concerned
  BY Zenon DEF Concerned
<1>2. Pending => Pending'
  BY Zenon DEF Pending
<1>3. Buffered => Buffered'
  BY Zenon DEF Buffered
<1>4. Replied => Replied'
  BY Zenon DEF Replied
<1> QED BY <1>1, <1>2, <1>3, <1>4, Zenon DEF Answering

(* A line is handed to the parser.                                         *)
LEMMA TextAnswering ==
  ASSUME OutInv, ProcessLine, NEW l \in Seq(Char \cup { NL, Nul }), l # << >>, Handle(l)
  PROVE  Answering'
<1>1. /\ evq # << >> /\ failed = "" /\ failed' = failed
      /\ out' = Parsed(l).out /\ owed' = owed \o Parsed(l).owed
      /\ evq' = Tail(evq) \o << "FLUSH" >> \o IF line' # 0 THEN << "LINE" >> ELSE << >>
      /\ current' = l /\ alone' = (owed = << >>) /\ reply' = << >>
  BY Zenon DEF Handle, ProcessLine, Running
<1>2. PICK E : E = Char \cup { NL, Nul }
  OBVIOUS
<1>3. l \in Seq(E)
  BY <1>2, Zenon
<1>4. failed' # "scpi_output_flush"
  <2>1. "" # "scpi_output_flush"
    OBVIOUS
  <2> QED BY <1>1, Zenon
<1>5. ASSUME Concerned' PROVE Pending' \/ Buffered'
  <2>2. l \in Seq(E) /\ current' = l /\ owed = << >> /\ Queries(l)
        /\ Len(Wanted(l)) <= OutSize - 2
    BY <1>1, <1>3, <1>5, Zenon DEF Concerned
  <2>3. /\ OfQueries(l) /\ Odd(Len(l)) /\ 1 \in 1..Len(l)
        /\ \A i \in 1..Len(l) : /\ Odd(i) => l[i] \in Query
                                /\ ~Odd(i) => l[i] = ";"
                                /\ Len(l) > 1 => l[i] \notin Late
    BY <2>2, QueriesShape, Zenon
  <2>4. Parsed(l).owed \in Seq(Late)
    <3>1. Parsed(l) \in Taken
      BY <2>2, ParsedTyped, Zenon
    <3>2. PICK O, L, X, p : /\ O = Outs(Text) /\ L = Seq(Late) /\ p = Parsed(l)
                            /\ X = { "first", "command", "separator", "error" }
      OBVIOUS
    <3>3. p \in [ out : O, owed : L, expect : X ]
      BY <3>1, <3>2, Zenon DEF Taken
    <3>4. p.owed \in L
      BY <3>3
    <3> QED BY <3>2, <3>4, Zenon
  <2>5. owed' = Parsed(l).owed
    <3>1. PICK r : r = Parsed(l).owed
      OBVIOUS
    <3>2. r \in Seq(Late)
      BY <2>4, <3>1, Zenon
    <3>3. << >> \o r = r
      BY <3>2, ConcatEmptySeq, Zenon
    <3> QED BY <1>1, <2>2, <3>1, <3>3, Zenon
  <2>6. CASE OneLate(l)
    <3>1. Len(l) = 1 /\ l[1] \in Late
      BY <2>6, Zenon DEF OneLate
    <3>2. Parsed(l).out = Cleared /\ Parsed(l).owed = << l[1] >>
      BY <2>2, <3>1, LateTaken, Zenon
    <3> QED BY <1>1, <2>2, <2>5, <2>6, <3>2, Zenon DEF Pending, OneLate
  <2>7. CASE ~OneLate(l)
    <3>1. \A i \in 1..Len(l) : l[i] \notin Late
      <4>1. Len(l) > 1 \/ (Len(l) = 1 /\ \A i \in 1..Len(l) : i = 1)
        BY <2>2, <2>3, LenProperties, OneOrMore, Zenon
      <4>2. CASE Len(l) > 1
        BY <2>3, <4>2, Zenon
      <4>3. CASE Len(l) = 1 /\ \A i \in 1..Len(l) : i = 1
        BY <2>7, <4>3, Zenon DEF OneLate
      <4> QED BY <4>1, <4>2, <4>3, Zenon
    <3>2. Parsed(l).owed = << >> /\ Placed(Parsed(l).out, l)
      BY <2>2, <2>3, <3>1, QueriesTaken, Zenon
    <3>3. Has(evq', "FLUSH")
      <4>1. evq' = (Tail(evq) \o << "FLUSH" >>)
                      \o IF line' # 0 THEN << "LINE" >> ELSE << >>
        BY <1>1
      <4>2. (IF line' # 0 THEN << "LINE" >> ELSE << >>) \in Seq(Event)
        BY EventTyped, Zenon
      <4>3. Tail(evq) \in Seq(Event) /\ << "FLUSH" >> \in Seq(Event)
        BY <1>1, EventTyped, Zenon DEF OutInv
      <4>4. Tail(evq) \o << "FLUSH" >> \in Seq(Event)
            /\ Has(Tail(evq) \o << "FLUSH" >>, "FLUSH")
        BY <4>3, EventTyped, HasStep, Zenon
      <4> QED BY <4>1, <4>2, <4>4, HasStep, Zenon
    <3>4. Placed(out', current')
      BY <1>1, <3>2, Zenon
    <3>5. Placed(out, current)'
      BY <3>4, Zenon DEF Placed
    <3> QED BY <1>1, <2>5, <3>2, <3>3, <3>5, Zenon DEF Buffered
  <2> QED BY <2>6, <2>7
<1>6. current' \in Seq(Char \cup { NL, Nul })
  BY <1>1, <1>2, <1>3, Zenon
<1> QED BY <1>4, <1>5, <1>6, Zenon DEF Answering

LEMMA NothingAnswering ==
  ASSUME OutInv, Answering, ProcessLine, Handle(<< >>)
  PROVE  Answering'
<1>1. "LINE" \in Event /\ evq \in Seq(Event)
  BY DEF OutInv, Event
<1>2. /\ evq # << >> /\ Head(evq) = "LINE" /\ failed' = failed /\ quit' = quit
      /\ evq' = Tail(evq) \o IF line' # 0 THEN << "LINE" >> ELSE << >>
      /\ out' = out /\ owed' = owed
      /\ current' = current /\ alone' = alone /\ reply' = reply
  BY Zenon DEF Handle, ProcessLine
<1>3. (IF line' # 0 THEN << "LINE" >> ELSE << >>) \in Seq(Event)
  BY EventTyped, Zenon
<1>4. Has(evq, "FLUSH") => Has(evq', "FLUSH")
  BY <1>1, <1>2, <1>3, EventTyped, HasStep, Zenon
<1> QED BY <1>2, <1>4, Kept, Zenon

LEMMA HandleAnswering ==
  ASSUME OutInv, Answering, ProcessLine, NEW l \in Seq(Char \cup { NL, Nul }), Handle(l)
  PROVE  Answering'
<1>1. CASE l # << >>
  BY <1>1, TextAnswering, Zenon
<1>2. CASE l = << >>
  BY <1>2, NothingAnswering, Zenon
<1> QED BY <1>1, <1>2

LEMMA FlushAnswering ==
  ASSUME OutInv, Answering, Flush PROVE Answering'
<1>1. /\ ~quit /\ failed = "" /\ evq' = Tail(evq) /\ quit' = quit /\ owed' = owed
      /\ current' = current /\ alone' = alone
      /\ FlushFails(out) => out' = out /\ reply' = reply
      /\ ~FlushFails(out) => /\ out' = Flushed(out) /\ reply' = reply \o Written(out)
                             /\ failed' = failed
  BY Zenon DEF Flush, Running
<1>2. Concerned' => Concerned
  BY <1>1, Zenon DEF Concerned
<1>3. current' \in Seq(Char \cup { NL, Nul })
  BY <1>1, Zenon DEF Answering
<1>4. "" # "scpi_output_flush"
  OBVIOUS
<1>5. ASSUME out.text = << >>, reply \in Seq(Text)
      PROVE  out' = out /\ reply' = reply /\ failed' = failed
  <2>1. ~FlushFails(out) /\ Flushed(out) = out /\ Written(out) = << >>
    BY <1>5, Zenon DEF FlushFails, Flushed, Written
  <2>2. reply \o << >> = reply
    BY <1>5, ConcatEmptySeq, Zenon
  <2> QED BY <1>1, <2>1, <2>2, Zenon
<1>6. ASSUME Concerned
      PROVE  failed' # "scpi_output_flush" /\ (Pending' \/ Replied')
  <2>1. Pending \/ Buffered \/ Replied
    BY <1>1, <1>6, Zenon DEF Answering
  <2>2. CASE Pending
    <3>1. out = Cleared /\ reply = << >> /\ out.text = << >>
      BY <2>2 DEF Pending, Cleared
    <3>2. out' = out /\ reply' = reply /\ failed' = failed
      BY <1>5, <3>1, CommaTyped, Zenon
    <3>3. Pending'
      BY <1>1, <2>2, <3>2, Zenon DEF Pending
    <3> QED BY <1>1, <1>4, <3>2, <3>3, Zenon
  <2>3. CASE Buffered
    <3>1. owed = << >> /\ reply = << >> /\ Placed(out, current)
      BY <2>3, Zenon DEF Buffered
    <3>2. /\ ~FlushFails(out) /\ Written(out) = Wanted(current)
          /\ Flushed(out).text = << >>
      BY <1>6, <3>1, FlushPlaced, Zenon DEF OutInv, Concerned
    <3>3. Wanted(current) \in Seq(Text)
      BY <1>6, WantedTyped, Zenon DEF Answering, Concerned
    <3>4. << >> \o Wanted(current) = Wanted(current)
      BY <3>3, ConcatEmptySeq, Zenon
    <3>5. owed' = << >> /\ out'.text = << >> /\ reply' = Wanted(current')
      BY <1>1, <3>1, <3>2, <3>4, Zenon
    <3>6. Replied'
      BY <3>5, Zenon DEF Replied
    <3> QED BY <1>1, <1>4, <3>2, <3>6, Zenon
  <2>4. CASE Replied
    <3>1. out.text = << >> /\ reply = Wanted(current)
      BY <2>4, Zenon DEF Replied
    <3>2. Wanted(current) \in Seq(Text)
      BY <1>6, WantedTyped, Zenon DEF Answering, Concerned
    <3>3. out' = out /\ reply' = reply /\ failed' = failed
      BY <1>5, <3>1, <3>2, Zenon
    <3>4. Replied'
      BY <1>1, <2>4, <3>3, Zenon DEF Replied
    <3> QED BY <1>1, <1>4, <3>3, <3>4, Zenon
  <2> QED BY <2>1, <2>2, <2>3, <2>4
<1> QED BY <1>2, <1>3, <1>6, Zenon DEF Answering

LEMMA OnlyOne == \A c : /\ Tail(<< c >>) = << >> /\ Head(<< c >>) = c
                        /\ << c >> # << >>
<1> SUFFICES ASSUME NEW c
             PROVE  Tail(<< c >>) = << >> /\ Head(<< c >>) = c /\ << c >> # << >>
  OBVIOUS
<1>1. PICK C : C = { c }
  OBVIOUS
<1>2. << c >> \in Seq(C) /\ Len(<< c >>) = 1 /\ Head(<< c >>) = c
  BY <1>1
<1>3. << c >> # << >>
  BY <1>2, EmptySeq
<1>4. Tail(<< c >>) \in Seq(C) /\ Len(Tail(<< c >>)) = 0
  BY <1>2, <1>3
<1>5. Tail(<< c >>) = << >>
  BY <1>4, EmptySeq
<1> QED BY <1>2, <1>3, <1>5

LEMMA LateAnswering ==
  ASSUME OutInv, Answering, AnswerLate PROVE Answering'
<1>1. /\ owed # << >> /\ owed' = Tail(owed) /\ out' = Answer(out, Elements[Head(owed)])
      /\ evq' = Append(evq, "FLUSH") /\ ~quit /\ failed' = failed
      /\ current' = current /\ alone' = alone /\ reply' = reply
  BY Zenon DEF AnswerLate, Running
<1>2. Concerned' => Concerned
  BY <1>1, Zenon DEF Concerned
<1>3. current' \in Seq(Char \cup { NL, Nul }) /\ current \in Seq(Char \cup { NL, Nul })
  BY <1>1, Zenon DEF Answering
<1>4. ASSUME Concerned PROVE failed' # "scpi_output_flush" /\ Buffered'
  <2>1. failed # "scpi_output_flush" /\ Pending
    BY <1>1, <1>4, Zenon DEF Answering, Buffered, Replied
  <2>2. PICK c : c = current[1]
    OBVIOUS
  <2>3. Len(current) = 1 /\ c \in Late /\ owed = << c >> /\ out = Cleared /\ reply = << >>
    BY <2>1, <2>2, Zenon DEF Pending, OneLate
  <2>4. owed' = << >> /\ Head(owed) = c
    <3>1. Tail(<< c >>) = << >> /\ Head(<< c >>) = c
      BY OnlyOne, Zenon
    <3> QED BY <1>1, <2>3, <3>1, Zenon
  <2>5. Placed(Answer(Cleared, Elements[c]), current)
    <3>1. OfQueries(current)
      BY <1>3, <1>4, QueriesShape, Zenon DEF Concerned
    <3>2. Len(Wanted(current)) <= OutSize - 2
      BY <1>4, Zenon DEF Concerned
    <3> QED BY <1>3, <2>2, <2>3, <3>1, <3>2, LateAnswered, Zenon
  <2>6. Placed(out, current)'
    <3>1. out' = Answer(Cleared, Elements[c])
      BY <1>1, <2>3, <2>4, Zenon
    <3> QED BY <1>1, <2>5, <3>1, Zenon DEF Placed
  <2>7. Has(evq', "FLUSH")
    <3>1. evq \in Seq(Event) /\ "FLUSH" \in Event
      BY Zenon DEF OutInv, Event
    <3> QED BY <1>1, <3>1, HasStep, Zenon
  <2>8. reply' = << >>
    BY <1>1, <2>3, Zenon
  <2> QED BY <1>1, <2>1, <2>4, <2>6, <2>7, <2>8, Zenon DEF Buffered
<1> QED BY <1>2, <1>3, <1>4, Zenon DEF Answering

LEMMA AnsweringStep ==
  ASSUME BufferInv, CharsOK, OutInv, Answering, [Next]_vars PROVE Answering'
<1>1. /\ "LINE" \in Event /\ evq \in Seq(Event)
      /\ "parser_cli_line" # "scpi_output_flush" /\ "yy_scan_bytes" # "scpi_output_flush"
  BY DEF OutInv, Event
<1>2. CASE Write
  BY <1>2, Kept, Zenon DEF Write, outVars
<1>3. CASE ReadWorker
  <2>1. /\ evq' = Append(evq, "LINE") /\ out' = out /\ owed' = owed /\ quit' = quit
        /\ failed' = failed /\ current' = current /\ alone' = alone /\ reply' = reply
    BY <1>3, Zenon DEF ReadWorker
  <2>2. Has(evq, "FLUSH") => Has(evq', "FLUSH")
    BY <1>1, <2>1, HasStep, Zenon
  <2> QED BY <2>1, <2>2, Kept, Zenon
<1>4. CASE ProcessText
  <2>1. ProcessLine /\ HasLine /\ Handle(NextLine)
    BY <1>4, Zenon DEF ProcessText
  <2>2. NextLine \in Seq(Char \cup { NL, Nul })
    BY <2>1, LineWithin, NextLineTyped, Zenon
  <2> QED BY <2>1, <2>2, HandleAnswering, Zenon
<1>11. CASE ProcessBehind
  <2>1. /\ ProcessLine /\ Overrun
        /\ \E eol \in Behind : \E bytes \in BytesBehind(eol) : Handle(LineBehind(bytes))
    BY <1>11, Zenon DEF ProcessBehind
  <2>4. PICK eol \in Behind : \E bytes \in BytesBehind(eol) : Handle(LineBehind(bytes))
    BY <2>1, Zenon
  <2>2. PICK bytes \in BytesBehind(eol) : Handle(LineBehind(bytes))
    BY <2>4, Zenon
  <2>3. LineBehind(bytes) \in Seq(Char \cup { NL, Nul })
    BY <2>1, LineBehindTyped, Zenon
  <2> QED BY <2>1, <2>2, <2>3, HandleAnswering, Zenon
<1>5. CASE ProcessLeftovers
  <2>1. /\ evq # << >> /\ Head(evq) = "LINE" /\ evq' = Tail(evq)
        /\ out' = out /\ owed' = owed /\ quit' = quit
        /\ failed' = failed /\ current' = current /\ alone' = alone /\ reply' = reply
    BY <1>5, Zenon DEF ProcessLeftovers, ProcessLine
  <2>2. Has(evq, "FLUSH") => Has(evq', "FLUSH")
    BY <1>1, <2>1, HasStep, Zenon
  <2> QED BY <2>1, <2>2, Kept, Zenon
<1>6. CASE ProcessEndOfFile
  <2>1. /\ quit' = TRUE /\ failed' = failed /\ current' = current /\ alone' = alone
    BY <1>6, Zenon DEF ProcessEndOfFile
  <2>2. Concerned' => Concerned
    BY <2>1, Zenon DEF Concerned
  <2> QED BY <2>1, <2>2, Zenon DEF Answering
<1>7. CASE ProcessFails \/ ScannerFails
  <2>1. /\ evq' = evq /\ out' = out /\ owed' = owed /\ quit' = quit
        /\ failed' = "parser_cli_line" \/ failed' = "yy_scan_bytes"
        /\ current' = current /\ alone' = alone /\ reply' = reply
    BY <1>7, Zenon DEF ProcessFails, ScannerFails
  <2> QED BY <1>1, <2>1, Kept, Zenon
<1>8. CASE Flush
  BY <1>8, FlushAnswering, Zenon
<1>9. CASE AnswerLate
  BY <1>9, LateAnswering, Zenon
<1>10. CASE UNCHANGED vars
  BY <1>10, Kept, Zenon DEF vars, outVars
<1> QED BY <1>2, <1>3, <1>4, <1>5, <1>6, <1>7, <1>8, <1>9, <1>10, <1>11, Zenon DEF Next

(* A line of queries, of any length, with answers of any number of         *)
(* elements, that was sent when no late answer was owed is answered by     *)
(* exactly its answers, however its flushes fall between the other events  *)
(* (scpi_output.c, parser_send, scpi_core_output_flush).                   *)
THEOREM QueriesAreAnswered == Spec => []QueriesAnswered
<1>1. ASSUME Init PROVE Answering
  <2>1. alone = FALSE /\ current = << >>
    BY <1>1, Zenon DEF Init
  <2>2. << >> \in Seq(Char \cup { NL, Nul })
    OBVIOUS
  <2> QED BY <2>1, <2>2, Zenon DEF Answering, Concerned
<1>2. ASSUME Answering, OutInv PROVE QueriesAnswered
  <2> SUFFICES ASSUME Concerned, owed = << >>
               PROVE  /\ failed # "scpi_output_flush"
                      /\ ~Has(evq, "FLUSH") => quit \/ reply = Wanted(current)
    BY Zenon DEF QueriesAnswered, Concerned, Has
  <2>1. /\ failed # "scpi_output_flush"
        /\ quit \/ Pending \/ Buffered \/ Replied
    BY <1>2, Zenon DEF Answering
  <2>2. ~Pending
    <3>1. \A c : << c >> # << >>
      BY OnlyOne, Zenon
    <3> QED BY <3>1, Zenon DEF Pending
  <2> QED BY <2>1, <2>2, Zenon DEF Buffered, Replied
<1>3. Spec => [](BufferInv /\ CharsOK)
  BY BufferInvariant, CharsInit, CharsStep, PTL DEF Spec
<1>4. Spec => []OutInv
  BY <1>3, OutInit, OutStep, PTL DEF Spec
<1> QED BY <1>1, <1>2, <1>3, <1>4, AnsweringStep, PTL DEF Spec
=============================================================================
