---------------------------- MODULE Answers_proofs ----------------------------
(***************************************************************************)
(* The server implements the stream of answers for clients whose queries   *)
(* are answered on their line: what was asked for is what was received,    *)
(* what is in the buffer, and the answers to what is left of the running   *)
(* line, to the lines that wait, and to those that were not read yet.      *)
(***************************************************************************)
EXTENDS Clients_proofs

----------------------------------------------------------------------------
(* Induction over the commands of a line.                                  *)
LEMMA LessThan == \A x, y \in Nat : << x, y >> \in OpToRel(<, Nat) <=> x < y
BY DEF OpToRel

LEMMA SetInduction ==
  ASSUME NEW T, 0 \in T, \A k \in Nat : k \in T => k + 1 \in T
  PROVE  Nat \subseteq T
<1> DEFINE U == { k \in Nat : k \notin T }
<1> SUFFICES ASSUME U # {} PROVE FALSE
  OBVIOUS
<1>1. U \subseteq Nat
  OBVIOUS
<1>2. PICK x \in U : \A y \in U : ~(<< y, x >> \in OpToRel(<, Nat))
  BY <1>1, NatLessThanWellFounded, WFMin, Zenon
<1>3. x \in Nat /\ x \notin T /\ x # 0
  OBVIOUS
<1>4. x - 1 \in Nat /\ (x - 1) + 1 = x /\ x - 1 < x
  BY <1>3
<1>5. x - 1 \in T
  BY <1>2, <1>3, <1>4, LessThan
<1> QED BY <1>3, <1>4, <1>5

(* The answers to a line are those to its first command and those to the   *)
(* rest of it.                                                             *)
Nth(line, n) == line[Len(line) - n + 1]

NextOwed(line, n, owed) ==
  IF n = 0 \/ Nth(line, n) = "bad" THEN << >> ELSE AnswerOf[Nth(line, n)] \o owed[n - 1]

(* The recursion holds of a function up to m.                              *)
Recurs(owed, line, m) == \A n \in 0..m : owed[n] = NextOwed(line, n, owed)

Owes(owed, line, m) == owed \in [ 0..m -> Seq(Answer) ] /\ Recurs(owed, line, m)

LEMMA AnswersAreSeqs == \A c \in Command : AnswerOf[c] \in Seq(Answer)
<1> SUFFICES ASSUME NEW c \in Command PROVE AnswerOf[c] \in Seq(Answer)
  OBVIOUS
<1>1. \A a \in Answer : << a >> \in Seq(Answer)
  OBVIOUS
<1>2. << >> \in Seq(Answer)
  OBVIOUS
<1>3. \A a \in { "IDN", "OPC", "VERS", "DATA", "STAT", "READ", "EVEN" } : a \in Answer
  BY DEF Answer
<1>4. AnswerOf[c] = << >> \/ \E a \in { "IDN", "OPC", "VERS", "DATA", "STAT", "READ", "EVEN" } : AnswerOf[c] = << a >>
  BY DEF AnswerOf
<1> QED BY <1>1, <1>2, <1>3, <1>4

LEMMA NthTyped ==
  ASSUME NEW line \in Seq(Command), NEW n \in 1..Len(line)
  PROVE  Nth(line, n) \in Command
<1>1. Len(line) \in Nat /\ Len(line) - n + 1 \in 1..Len(line)
  OBVIOUS
<1> QED BY <1>1, ElementOfSeq DEF Nth

LEMMA OwesMore ==
  ASSUME NEW line \in Seq(Command), NEW m \in Nat, m + 1 <= Len(line),
         NEW f, Owes(f, line, m)
  PROVE  \E g : Owes(g, line, m + 1)
<1>1. PICK c : c = Nth(line, m + 1)
  OBVIOUS
<1>2. c \in Command
  BY <1>1, NthTyped
<1>3. PICK a : a = IF c = "bad" THEN << >> ELSE AnswerOf[c] \o f[m]
  OBVIOUS
<1>4. a \in Seq(Answer)
  <2>1. f[m] \in Seq(Answer) /\ AnswerOf[c] \in Seq(Answer) /\ << >> \in Seq(Answer)
    BY <1>2, AnswersAreSeqs DEF Owes, Recurs
  <2>2. AnswerOf[c] \o f[m] \in Seq(Answer)
    BY <2>1, ConcatProperties, Zenon
  <2> QED BY <1>3, <2>1, <2>2
<1>5. PICK g : g = [ n \in 0..m + 1 |-> IF n = m + 1 THEN a ELSE f[n] ]
  OBVIOUS
<1>6. g[m + 1] = a /\ \A n \in 0..m : g[n] = f[n]
  BY <1>5
<1>7. g[m + 1] = NextOwed(line, m + 1, g)
  <2>1. (m + 1) - 1 = m /\ m + 1 # 0 /\ m \in 0..m
    OBVIOUS
  <2>2. g[(m + 1) - 1] = f[m]
    BY <1>6, <2>1
  <2> QED BY <1>1, <1>3, <1>6, <2>1, <2>2, Zenon DEF NextOwed
<1>8. ASSUME NEW n \in 0..m PROVE g[n] = NextOwed(line, n, g) /\ g[n] \in Seq(Answer)
  <2>1. f[n] = NextOwed(line, n, f) /\ f[n] \in Seq(Answer)
    BY DEF Owes, Recurs
  <2>2. n # 0 => g[n - 1] = f[n - 1]
    BY <1>6
  <2>3. NextOwed(line, n, g) = NextOwed(line, n, f)
    BY <2>2, Zenon DEF NextOwed
  <2> QED BY <1>6, <2>1, <2>3
<1>9. \A n \in 0..m + 1 : n = m + 1 \/ n \in 0..m
  OBVIOUS
<1>10. g \in [ 0..m + 1 -> Seq(Answer) ]
  <2>1. \A n \in 0..m + 1 : g[n] \in Seq(Answer)
    BY <1>4, <1>6, <1>8, <1>9
  <2>2. g = [ n \in 0..m + 1 |-> g[n] ]
    BY <1>5
  <2> QED BY <2>1, <2>2, Zenon
<1>11. Recurs(g, line, m + 1)
  BY <1>7, <1>8, <1>9, Zenon DEF Recurs
<1> QED BY <1>10, <1>11 DEF Owes

LEMMA OwesExists ==
  ASSUME NEW line \in Seq(Command)
  PROVE  \E f : Owes(f, line, Len(line))
<1> DEFINE T == { m \in Nat : m <= Len(line) => \E f : Owes(f, line, m) }
<1>1. 0 \in T
  <2>1. PICK f : f = [ n \in 0..0 |-> << >> ]
    OBVIOUS
  <2>2. /\ \A n \in 0..0 : n = 0 /\ f[n] = << >>
        /\ f \in [ 0..0 -> Seq(Answer) ]
    BY <2>1
  <2>3. Owes(f, line, 0)
    BY <2>2, Zenon DEF Owes, Recurs, NextOwed
  <2> QED BY <2>3
<1>2. ASSUME NEW m \in T PROVE m + 1 \in T
  <2>1. m \in Nat /\ Len(line) \in Nat
    OBVIOUS
  <2>2. ASSUME m + 1 <= Len(line) PROVE \E f : Owes(f, line, m + 1)
    <3>1. m <= Len(line)
      BY <2>1, <2>2
    <3>2. PICK f : Owes(f, line, m)
      BY <3>1
    <3> QED BY <2>1, <2>2, <3>2, OwesMore
  <2> QED BY <2>1, <2>2
<1> HIDE DEF T
<1>3. Nat \subseteq T
  BY <1>1, <1>2, SetInduction
<1> QED BY <1>3 DEF T

(* There is one such function, for all lines with the same last commands.  *)
SameEnd(line, other, m) == \A n \in 1..m : Nth(line, n) = Nth(other, n)

LEMMA OneOwed ==
  ASSUME NEW line, NEW other, NEW m \in Nat, SameEnd(line, other, m),
         NEW f, Recurs(f, line, m), NEW g, Recurs(g, other, m)
  PROVE  \A n \in 0..m : f[n] = g[n]
<1> DEFINE T == { n \in Nat : n <= m => f[n] = g[n] }
<1>1. 0 \in T
  <2>1. f[0] = << >> /\ g[0] = << >>
    BY 0 \in 0..m, Zenon DEF Recurs, NextOwed
  <2> QED BY <2>1
<1>2. ASSUME NEW n \in Nat, n \in T PROVE n + 1 \in T
  <2>1. SUFFICES ASSUME n + 1 <= m PROVE f[n + 1] = g[n + 1]
    OBVIOUS
  <2>2. n + 1 \in 0..m /\ n + 1 \in 1..m /\ n + 1 # 0 /\ (n + 1) - 1 = n /\ f[n] = g[n]
    BY <1>2, <2>1
  <2>3. f[n + 1] = NextOwed(line, n + 1, f) /\ g[n + 1] = NextOwed(other, n + 1, g)
    BY <2>2 DEF Recurs
  <2>4. Nth(line, n + 1) = Nth(other, n + 1)
    BY <2>2 DEF SameEnd
  <2> QED BY <2>2, <2>3, <2>4, Zenon DEF NextOwed
<1> HIDE DEF T
<1>3. Nat \subseteq T
  BY <1>1, <1>2, SetInduction
<1> QED BY <1>3 DEF T

(* What a line calls for is found with it.                                 *)
LEMMA AnswersOwed ==
  ASSUME NEW line \in Seq(Command), NEW f, Owes(f, line, Len(line))
  PROVE  AnswersTo(line) = f[Len(line)]
<1> DEFINE Step(h) ==
             [ n \in 0..Len(line) |->
                 IF n = 0 \/ line[Len(line) - n + 1] = "bad" THEN << >>
                 ELSE AnswerOf[line[Len(line) - n + 1]] \o h[n - 1] ]
           F == CHOOSE h : h = Step(h)
<1>1. f = Step(f)
  <2>1. f = [ n \in 0..Len(line) |-> f[n] ]
    BY DEF Owes
  <2>2. \A n \in 0..Len(line) : f[n] = Step(f)[n]
    BY Zenon DEF Owes, Recurs, NextOwed, Nth
  <2> QED BY <2>1, <2>2, Zenon
<1>2. F = Step(F)
  BY <1>1, Zenon
<1>3. AnswersTo(line) = F[Len(line)]
  BY Zenon DEF AnswersTo
<1>4. Recurs(F, line, Len(line))
  <2> HIDE DEF F
  <2>1. \A n \in 0..Len(line) : Step(F)[n] = NextOwed(line, n, F)
    BY Zenon DEF NextOwed, Nth
  <2> QED BY <1>2, <2>1, Zenon DEF Recurs
<1> HIDE DEF F
<1>5. Len(line) \in Nat /\ Len(line) \in 0..Len(line)
  OBVIOUS
<1>6. Recurs(f, line, Len(line))
  BY DEF Owes
<1>7. \A n \in 0..Len(line) : F[n] = f[n]
  BY <1>4, <1>5, <1>6, OneOwed DEF SameEnd
<1> QED BY <1>3, <1>5, <1>7

LEMMA AnswersToNothing == AnswersTo(<< >>) = << >>
<1>1. << >> \in Seq(Command) /\ Len(<< >>) = 0 /\ 0 \in 0..0
  OBVIOUS
<1>2. PICK f : Owes(f, << >>, 0)
  BY <1>1, OwesExists
<1>3. f[0] = << >>
  BY <1>1, <1>2, Zenon DEF Owes, Recurs, NextOwed
<1> QED BY <1>1, <1>2, <1>3, AnswersOwed

LEMMA AnswersToNext ==
  ASSUME NEW line \in Seq(Command), line # << >>
  PROVE  AnswersTo(line) = IF Head(line) = "bad" THEN << >>
                           ELSE AnswerOf[Head(line)] \o AnswersTo(Tail(line))
<1>1. PICK t, m : t = Tail(line) /\ m = Len(line)
  OBVIOUS
<1>2. /\ t \in Seq(Command) /\ m \in Nat /\ m > 0 /\ Len(t) = m - 1 /\ m - 1 \in Nat
      /\ \A i \in 1..m - 1 : t[i] = line[i + 1]
      /\ Head(line) = line[1]
  BY <1>1
<1>3. PICK f : Owes(f, line, m)
  BY <1>1, OwesExists
<1>4. PICK g : Owes(g, t, m - 1)
  BY <1>2, OwesExists
<1>5. AnswersTo(line) = f[m] /\ AnswersTo(t) = g[m - 1]
  BY <1>1, <1>2, <1>3, <1>4, AnswersOwed
<1>6. \A n \in 1..m - 1 : Nth(line, n) = Nth(t, n)
  <2> SUFFICES ASSUME NEW n \in 1..m - 1 PROVE Nth(line, n) = Nth(t, n)
    OBVIOUS
  <2>1. (m - 1) - n + 1 \in 1..m - 1 /\ ((m - 1) - n + 1) + 1 = m - n + 1
    BY <1>2
  <2>2. t[(m - 1) - n + 1] = line[m - n + 1]
    BY <1>2, <2>1
  <2> QED BY <1>1, <1>2, <2>2 DEF Nth
<1>7. Recurs(f, line, m - 1) /\ Recurs(g, t, m - 1)
  <2>1. \A n \in 0..m - 1 : n \in 0..m
    BY <1>2
  <2> QED BY <1>3, <1>4, <2>1 DEF Owes, Recurs
<1>8. f[m - 1] = g[m - 1]
  <2>1. PICK k \in Nat : k = m - 1
    BY <1>2
  <2>2. SameEnd(line, t, k)
    BY <1>6, <2>1 DEF SameEnd
  <2>3. Recurs(f, line, k) /\ Recurs(g, t, k)
    BY <1>7, <2>1
  <2>4. \A n \in 0..k : f[n] = g[n]
    BY <2>1, <2>2, <2>3, OneOwed, SMT
  <2> QED BY <2>1, <2>4
<1>9. f[m] = NextOwed(line, m, f)
  <2>1. m \in 0..m
    BY <1>2
  <2> QED BY <1>3, <2>1 DEF Owes, Recurs
<1>10. Nth(line, m) = Head(line) /\ m # 0
  <2>1. m - m + 1 = 1 /\ m # 0
    BY <1>2
  <2> QED BY <1>1, <1>2, <2>1 DEF Nth
<1> QED BY <1>1, <1>5, <1>8, <1>9, <1>10, Zenon DEF NextOwed

LEMMA AnswersTyped ==
  ASSUME NEW line \in Seq(Command) PROVE AnswersTo(line) \in Seq(Answer)
<1>1. PICK f : Owes(f, line, Len(line))
  BY OwesExists
<1>2. Len(line) \in 0..Len(line)
  OBVIOUS
<1>3. f[Len(line)] \in Seq(Answer)
  BY <1>1, <1>2 DEF Owes
<1> QED BY <1>1, <1>3, AnswersOwed

----------------------------------------------------------------------------
(* The answers to lines: rest[i] are those to the lines from the i-th on.  *)
Owing(rest, all) ==
  /\ rest \in [ 1..Len(all) + 1 -> Seq(Answer) ] /\ rest[Len(all) + 1] = << >>
  /\ \A i \in 1..Len(all) : rest[i] = AnswersTo(all[i]) \o rest[i + 1]

AreOwed(owed, all) == \E rest : Owing(rest, all) /\ owed = rest[1]

Program == Seq(Command)

LEMMA OwedTyped ==
  ASSUME NEW all \in Seq(Program), NEW owed, AreOwed(owed, all)
  PROVE  owed \in Seq(Answer)
<1>1. PICK rest : Owing(rest, all) /\ owed = rest[1]
  BY DEF AreOwed
<1>2. 1 \in 1..Len(all) + 1
  OBVIOUS
<1> QED BY <1>1, <1>2 DEF Owing

LEMMA Associates == \A x, y, z \in Seq(Answer) : (x \o y) \o z = x \o (y \o z)
BY ConcatAssociative

LEMMA AnswersGroup ==
  /\ \A x, y, z \in Seq(Answer) : (x \o y) \o z = x \o (y \o z)
  /\ \A x, y \in Seq(Answer) : x \o y \in Seq(Answer)
  /\ \A x \in Seq(Answer) : x \o << >> = x /\ << >> \o x = x
  /\ << >> \in Seq(Answer)
<1>1. \A x, y, z \in Seq(Answer) : (x \o y) \o z = x \o (y \o z)
  BY ConcatAssociative
<1> QED BY <1>1

LEMMA NothingOwed ==
  /\ AreOwed(<< >>, << >>)
  /\ \A owed : AreOwed(owed, << >>) => owed = << >>
<1>1. Len(<< >>) = 0 /\ << >> \in Seq(Answer)
  OBVIOUS
<1>2. PICK f : f = [ i \in 1..1 |-> << >> ]
  OBVIOUS
<1>3. f \in [ 1..1 -> Seq(Answer) ] /\ f[1] = << >>
  BY <1>2
<1>4. Owing(f, << >>)
  BY <1>1, <1>3 DEF Owing
<1>5. \A rest : Owing(rest, << >>) => rest[1] = << >>
  BY <1>1 DEF Owing
<1> QED BY <1>3, <1>4, <1>5, Zenon DEF AreOwed

(* The first line's answers come first.                                    *)
LEMMA OwedFirst ==
  ASSUME NEW all \in Seq(Program), all # << >>, NEW owed, AreOwed(owed, all)
  PROVE  \E more : AreOwed(more, Tail(all)) /\ owed = AnswersTo(Head(all)) \o more
<1>1. PICK t, m : t = Tail(all) /\ m = Len(all)
  OBVIOUS
<1>2. /\ t \in Seq(Program) /\ m \in Nat /\ m > 0 /\ Len(t) = m - 1 /\ Head(all) = all[1]
      /\ \A i \in 1..m - 1 : t[i] = all[i + 1]
  BY <1>1
<1>3. PICK rest : Owing(rest, all) /\ owed = rest[1]
  BY DEF AreOwed
<1>4. /\ rest \in [ 1..m + 1 -> Seq(Answer) ] /\ rest[m + 1] = << >>
      /\ \A i \in 1..m : rest[i] = AnswersTo(all[i]) \o rest[i + 1]
  BY <1>1, <1>3 DEF Owing
<1>5. PICK r : r = [ i \in 1..m |-> rest[i + 1] ]
  OBVIOUS
<1>6. Owing(r, t)
  <2>1. (m - 1) + 1 = m /\ m \in 1..m
    BY <1>2
  <2>2. \A i \in 1..m : i + 1 \in 1..m + 1
    BY <1>2
  <2>3. r \in [ 1..m -> Seq(Answer) ] /\ \A i \in 1..m : r[i] = rest[i + 1]
    BY <1>4, <1>5, <2>2
  <2>4. \A i \in 1..m - 1 : r[i] = AnswersTo(t[i]) \o r[i + 1]
    <3> SUFFICES ASSUME NEW i \in 1..m - 1 PROVE r[i] = AnswersTo(t[i]) \o r[i + 1]
      OBVIOUS
    <3>1. i \in 1..m /\ i + 1 \in 1..m
      BY <1>2
    <3>2. r[i] = rest[i + 1] /\ r[i + 1] = rest[(i + 1) + 1] /\ t[i] = all[i + 1]
      BY <1>2, <2>3, <3>1
    <3> QED BY <1>4, <3>1, <3>2
  <2> QED BY <1>2, <1>4, <2>1, <2>3, <2>4 DEF Owing
<1>7. r[1] = rest[2] /\ rest[1] = AnswersTo(all[1]) \o rest[2]
  <2>1. 1 \in 1..m /\ 1 + 1 = 2
    BY <1>2
  <2> QED BY <1>4, <1>5, <2>1
<1> QED BY <1>1, <1>2, <1>3, <1>6, <1>7 DEF AreOwed

LEMMA OwedBefore ==
  ASSUME NEW all \in Seq(Program), all # << >>, NEW more, AreOwed(more, Tail(all))
  PROVE  AreOwed(AnswersTo(Head(all)) \o more, all)
<1>1. PICK t, m : t = Tail(all) /\ m = Len(all)
  OBVIOUS
<1>2. /\ t \in Seq(Program) /\ m \in Nat /\ m > 0 /\ Len(t) = m - 1
      /\ Head(all) = all[1] /\ all[1] \in Program
      /\ \A i \in 1..m - 1 : t[i] = all[i + 1]
  BY <1>1
<1>3. PICK rest : Owing(rest, t) /\ more = rest[1]
  BY <1>1 DEF AreOwed
<1>4. /\ rest \in [ 1..m -> Seq(Answer) ] /\ rest[m] = << >>
      /\ \A i \in 1..m - 1 : rest[i] = AnswersTo(t[i]) \o rest[i + 1]
  <2>1. Len(t) + 1 = m /\ Len(t) = m - 1
    BY <1>2
  <2> QED BY <1>3, <2>1 DEF Owing
<1>5. PICK a : a = AnswersTo(all[1]) \o more
  OBVIOUS
<1>6. a \in Seq(Answer)
  <2>1. AnswersTo(all[1]) \in Seq(Answer)
    BY <1>2, AnswersTyped DEF Program
  <2>2. more \in Seq(Answer)
    BY <1>2, <1>3, <1>4
  <2> QED BY <1>5, <2>1, <2>2, ConcatProperties, Zenon
<1>7. PICK r : r = [ i \in 1..m + 1 |-> IF i = 1 THEN a ELSE rest[i - 1] ]
  OBVIOUS
<1>8. Owing(r, all)
  <2>1. \A i \in 1..m + 1 : i = 1 \/ i - 1 \in 1..m
    BY <1>2
  <2>2. r[1] = a /\ \A i \in 1..m : r[i + 1] = rest[i]
    BY <1>2, <1>7
  <2>3. r \in [ 1..m + 1 -> Seq(Answer) ]
    <3>1. \A i \in 1..m : rest[i] \in Seq(Answer)
      BY <1>4
    <3> QED BY <1>6, <1>7, <2>1, <3>1
  <2>4. \A i \in 1..m : r[i] = AnswersTo(all[i]) \o r[i + 1]
    <3> SUFFICES ASSUME NEW i \in 1..m PROVE r[i] = AnswersTo(all[i]) \o r[i + 1]
      OBVIOUS
    <3>1. CASE i = 1
      <4>1. r[1 + 1] = rest[1]
        BY <2>2, <3>1
      <4> QED BY <1>3, <1>5, <2>2, <3>1, <4>1
    <3>2. CASE i # 1
      <4>1. PICK k \in 1..m - 1 : i = k + 1
        <5>1. i - 1 \in 1..m - 1 /\ i = (i - 1) + 1
          BY <1>2, <3>2
        <5> QED BY <5>1
      <4>2. k \in 1..m /\ k + 1 \in 1..m
        BY <1>2, <4>1
      <4>3. r[k + 1] = rest[k] /\ r[(k + 1) + 1] = rest[k + 1] /\ t[k] = all[k + 1]
        BY <1>2, <2>2, <4>1, <4>2
      <4> QED BY <1>4, <4>1, <4>3
    <3> QED BY <3>1, <3>2
  <2>5. r[m + 1] = << >>
    <3>1. m \in 1..m
      BY <1>2
    <3> QED BY <1>4, <2>2, <3>1
  <2> QED BY <1>1, <2>3, <2>4, <2>5 DEF Owing
<1>9. r[1] = a
  BY <1>2, <1>7
<1> QED BY <1>2, <1>5, <1>8, <1>9 DEF AreOwed

(* The answers to one more line come last.                                 *)
LEMMA OwedLast ==
  ASSUME NEW all \in Seq(Program), NEW p \in Program, NEW owed, AreOwed(owed, all)
  PROVE  AreOwed(owed \o AnswersTo(p), Append(all, p))
<1>1. PICK a, m, u : a = AnswersTo(p) /\ m = Len(all) /\ u = Append(all, p)
  OBVIOUS
<1>2. a \in Seq(Answer)
  BY <1>1, AnswersTyped DEF Program
<1>3. /\ m \in Nat /\ Len(u) = m + 1 /\ u[m + 1] = p
      /\ \A i \in 1..m : u[i] = all[i]
  BY <1>1
<1>4. PICK rest : Owing(rest, all) /\ owed = rest[1]
  BY DEF AreOwed
<1>5. /\ rest \in [ 1..m + 1 -> Seq(Answer) ] /\ rest[m + 1] = << >>
      /\ \A i \in 1..m : rest[i] = AnswersTo(all[i]) \o rest[i + 1]
  BY <1>1, <1>4 DEF Owing
<1>6. PICK r : r = [ i \in 1..m + 2 |-> IF i = m + 2 THEN << >> ELSE rest[i] \o a ]
  OBVIOUS
<1>7. r[m + 2] = << >> /\ \A i \in 1..m + 1 : r[i] = rest[i] \o a
  BY <1>3, <1>6
<1>8. \A i \in 1..m + 1 : rest[i] \in Seq(Answer) /\ rest[i] \o a \in Seq(Answer)
  <2>1. \A i \in 1..m + 1 : rest[i] \in Seq(Answer)
    BY <1>5
  <2> QED BY <1>2, <2>1, ConcatProperties, Zenon
<1>9. r \in [ 1..(m + 1) + 1 -> Seq(Answer) ]
  <2>1. /\ (m + 1) + 1 = m + 2 /\ << >> \in Seq(Answer)
        /\ \A i \in 1..m + 2 : i = m + 2 \/ i \in 1..m + 1
    BY <1>3
  <2>2. \A i \in 1..m + 2 : r[i] \in Seq(Answer)
    BY <1>7, <1>8, <2>1
  <2>3. r = [ i \in 1..m + 2 |-> r[i] ]
    BY <1>6
  <2> QED BY <2>1, <2>2, <2>3, Zenon
<1>10. \A i \in 1..m + 1 : r[i] = AnswersTo(u[i]) \o r[i + 1]
  <2> SUFFICES ASSUME NEW i \in 1..m + 1 PROVE r[i] = AnswersTo(u[i]) \o r[i + 1]
    OBVIOUS
  <2>1. CASE i = m + 1
    <3>1. r[i] = << >> \o a /\ r[i + 1] = << >> /\ u[i] = p
      <4>1. m + 1 \in 1..m + 1 /\ i + 1 = m + 2
        BY <1>3, <2>1
      <4>2. r[m + 1] = rest[m + 1] \o a
        BY <1>7, <4>1
      <4> QED BY <1>3, <1>5, <1>7, <2>1, <4>1, <4>2
    <3>2. << >> \o a = a /\ a \o << >> = a
      BY <1>2, ConcatEmptySeq
    <3> QED BY <1>1, <3>1, <3>2
  <2>2. CASE i \in 1..m
    <3>1. i + 1 \in 1..m + 1
      BY <1>3, <2>2
    <3>2. r[i] = (AnswersTo(u[i]) \o rest[i + 1]) \o a /\ r[i + 1] = rest[i + 1] \o a
      BY <1>3, <1>5, <1>7, <2>2, <3>1
    <3>3. AnswersTo(u[i]) \in Seq(Answer)
      <4>1. all[i] \in Program
        BY <1>1, <2>2
      <4> QED BY <1>3, <2>2, <4>1, AnswersTyped DEF Program
    <3>4. rest[i + 1] \in Seq(Answer)
      BY <1>8, <3>1
    <3>5. PICK x, y : x = AnswersTo(u[i]) /\ y = rest[i + 1]
      OBVIOUS
    <3>6. x \in Seq(Answer) /\ y \in Seq(Answer)
      BY <3>3, <3>4, <3>5
    <3>7. (x \o y) \o a = x \o (y \o a)
      BY <1>2, <3>6, AnswersGroup
    <3> QED BY <3>2, <3>5, <3>7
  <2>3. i = m + 1 \/ i \in 1..m
    BY <1>3
  <2> QED BY <2>1, <2>2, <2>3
<1>11. Owing(r, u)
  <2>1. (m + 1) + 1 = m + 2
    BY <1>3
  <2> QED BY <1>3, <1>7, <1>9, <1>10, <2>1 DEF Owing
<1>12. r[1] = owed \o a
  <2>1. 1 \in 1..m + 1
    BY <1>3
  <2> QED BY <1>4, <1>7, <2>1
<1> QED BY <1>1, <1>11, <1>12 DEF AreOwed

----------------------------------------------------------------------------
(* The queries a handler answers, and the commands that have no answer.    *)
SilentCommand ==
  { "*CLS", "*RST", "*WAI", "SYST:INT:SLE", "SYST:INT:QUI", "EOF", "ABOR", "SENS:FUNC:ON",
    "SENS:FUNC:OFF", "INIT", "INIT:IMM", "CONF:DIG:DATA", "CONF:DIG:EVEN", "refused" }

LEMMA AnswersOfCommands ==
  /\ AnswerOf["SYST:VERS?"] = << "VERS" >> /\ AnswerOf["*OPC?"] = << "OPC" >>
  /\ AnswerOf["SENS:DATA?"] = << "DATA" >>
  /\ \A c \in SilentCommand : AnswerOf[c] = << >>
<1>1. AnswerOf["SYST:VERS?"] = << "VERS" >> /\ AnswerOf["*OPC?"] = << "OPC" >>
  BY DEF AnswerOf, Command
<1>2. AnswerOf["SENS:DATA?"] = << "DATA" >>
  BY DEF AnswerOf, Command
<1>3. \A c \in SilentCommand : c \in Command
  BY DEF Command, SilentCommand
<1>4. ASSUME NEW c \in SilentCommand PROVE AnswerOf[c] = << >>
  BY <1>3 DEF AnswerOf, SilentCommand
<1> QED BY <1>1, <1>2, <1>4

(* A handler that returns has answered its command.                        *)
LEMMA HandlerAnswers ==
  ASSUME TypeOK, Handler, pc' = "exec", Head(prog) \notin LateQueries \cup RecordQueries,
         ~sweep, ~overlapped
  PROVE  \/ SyntaxError /\ out' = out
         \/ Cls /\ out' = << >> /\ prog' = Tail(prog) /\ AnswerOf[Head(prog)] = << >>
                /\ Head(prog) = "*CLS"
         \/ /\ out' = out \o AnswerOf[Head(prog)] /\ prog' = Tail(prog)
            /\ Head(prog) # "bad"
<1>1. out \in Seq(Answer)
  BY DEF TypeOK
<1>2. ASSUME NEW c, At(c) PROVE c = Head(prog) /\ c \notin LateQueries \cup RecordQueries
  BY <1>2 DEF At
<1>3. ~IdnQ /\ ~ScopeStatusQ /\ ~FetchDigitalData /\ ~FetchDigitalEvent /\ ~ReadOrMeasure
  BY <1>2 DEF IdnQ, ScopeStatusQ, FetchDigitalData, FetchDigitalEvent, ReadOrMeasure, Expand,
     Run, LateQueries, RecordQueries
<1>4. ~SleepFails /\ ~AbortFails /\ ~ScopeDataQFails /\ ~ConfigureDigitalEventFails
  BY DEF SleepFails, AbortFails, ScopeDataQFails, ConfigureDigitalEventFails, Fail
<1>5. CASE SyntaxError
  BY <1>5 DEF SyntaxError
<1>6. CASE ~SyntaxError
  <2>1. prog' = Tail(prog)
    BY <1>3, <1>6, HandlerRest
  <2>2. CASE Cls
    <3>1. out' = << >> /\ Head(prog) = "*CLS"
      BY <2>2 DEF Cls, Run, At
    <3>2. "*CLS" \in SilentCommand
      BY DEF SilentCommand
    <3> QED BY <2>1, <2>2, <3>1, <3>2, AnswersOfCommands
  <2>3. CASE VersionQ \/ OpcQ \/ ScopeDataQ
    <3>1. \/ out' = Append(out, "VERS") /\ Head(prog) = "SYST:VERS?"
          \/ out' = Append(out, "OPC") /\ Head(prog) = "*OPC?"
          \/ out' = Append(out, "DATA") /\ Head(prog) = "SENS:DATA?"
      BY <2>3 DEF VersionQ, OpcQ, ScopeDataQ, Run, At
    <3>2. /\ Append(out, "VERS") = out \o << "VERS" >> /\ Append(out, "OPC") = out \o << "OPC" >>
          /\ Append(out, "DATA") = out \o << "DATA" >>
      BY <1>1 DEF Answer
    <3>3. out' = out \o AnswerOf[Head(prog)]
      BY <3>1, <3>2, AnswersOfCommands
    <3> QED BY <2>1, <3>1, <3>3
  <2>4. CASE \/ Rst \/ Wai \/ Sleep \/ Quit \/ ChannelState \/ Initiate \/ InitiateImmediate
             \/ ConfigureDigitalData \/ ConfigureDigitalEvent \/ Abort \/ DigitalEventRefused
    <3>1. out' = out
      BY <2>4 DEF Rst, Wai, Sleep, Quit, ChannelState, Enable, Initiate, InitiateImmediate,
         ConfigureDigitalData, ConfigureDigitalEvent, Abort, DigitalEventRefused
    <3>2. \E c \in SilentCommand : Run(c)
      <4>1. /\ "*RST" \in SilentCommand /\ "*WAI" \in SilentCommand
            /\ "SYST:INT:SLE" \in SilentCommand /\ "SYST:INT:QUI" \in SilentCommand
            /\ "EOF" \in SilentCommand /\ "ABOR" \in SilentCommand
            /\ "SENS:FUNC:ON" \in SilentCommand /\ "SENS:FUNC:OFF" \in SilentCommand
            /\ "INIT" \in SilentCommand /\ "INIT:IMM" \in SilentCommand
            /\ "CONF:DIG:DATA" \in SilentCommand /\ "CONF:DIG:EVEN" \in SilentCommand
            /\ "refused" \in SilentCommand
        BY DEF SilentCommand
      <4> QED BY <2>4, <4>1, Zenon DEF Rst, Wai, Sleep, Quit, ChannelState, Enable, Initiate,
                InitiateImmediate, ConfigureDigitalData, ConfigureDigitalEvent, Abort,
                DigitalEventRefused
    <3>3. AnswerOf[Head(prog)] = << >> /\ Head(prog) # "bad"
      <4>1. Head(prog) \in SilentCommand
        BY <3>2, <1>2 DEF Run
      <4> QED BY <4>1, AnswersOfCommands DEF SilentCommand
    <3>4. out \o << >> = out
      BY <1>1
    <3> QED BY <2>1, <3>1, <3>3, <3>4
  <2> QED BY <1>3, <1>4, <1>6, <2>2, <2>3, <2>4 DEF Handler
<1> QED BY <1>5, <1>6

(* No sweep is overlapped when none was ever started.                      *)
LEMMA OverlapStep ==
  ASSUME NothingRuns, ~overlapped, AddrInv, TypeOK, Underway, [Next]_vars PROVE ~overlapped'
<1> USE DEF scopeVars, sweepVars
<1>1. CASE Handler
  <2>1. ~sweep /\ ~enabled
    BY DEF NothingRuns
  <2>2. CASE \/ Initiate \/ InitiateImmediate \/ Abort
    BY <2>1, <2>2 DEF Initiate, InitiateImmediate, Abort
  <2>3. CASE ~(Initiate \/ InitiateImmediate \/ Abort)
    BY <1>1, <2>3 DEF Handler, VersionQ, DigitalEventRefused, Cls, Rst, Wai, OpcQ, Sleep,
       SleepFails, Quit,
       SyntaxError, IdnQ, ChannelState, Enable, AbortFails, ScopeDataQ, ScopeDataQFails,
       ScopeStatusQ, ConfigureDigitalData, FetchDigitalData, ConfigureDigitalEvent,
       ConfigureDigitalEventFails, FetchDigitalEvent, ReadOrMeasure, Expand, Fail
  <2> QED BY <2>2, <2>3
<1>2. CASE DeviceWorker
  BY <1>2 DEF DeviceWorker, RcvStart, RcvIdent, RcvScopeStatus, RcvScopeOffset, RcvScopeAddr,
     RcvScopeData, ScopeDataDone, RcvDigitalRead, RcvInterrupt, RcvScopeDataFails,
     RcvDigitalEventFails, Fail
<1>3. CASE PlainEvent
  BY <1>3 DEF PlainEvent, IdentifyCompletion, IdentifyOutput, DigitalReadCompletion,
     DigitalReadOutput, ScopeStatusOutput, ScopeStatusCompletion, ScopeOffsetStart, Unblock,
     OutputFlush
<1>4. CASE LineDone \/ ProcessNoLine \/ ProcessEmptyLine \/ ProcessLine \/ CliRead
  BY <1>4 DEF LineDone, ProcessNoLine, ProcessEmptyLine, ProcessLine, CliRead, stdinFrame
<1>5. CASE Other
  BY <1>5, OtherFrame
<1> QED BY <1>1, <1>2, <1>3, <1>4, <1>5, Cases

----------------------------------------------------------------------------
(* What is left to answer.  The line that runs is still the first of the   *)
(* lines; the end of the stream stays there, and asks for nothing.         *)
LinesLeft == (IF pc = "exec" THEN Tail(lines) ELSE lines) \o stdin

AnswersOfLine == IF pc = "exec" THEN AnswersTo(prog) ELSE << >>

(* The answers that were received, that wait in the buffer, that the line  *)
(* is about to give and that the lines after it call for.                  *)
Total(sent, kept, line, more) == (sent \o kept) \o (line \o more)

Promised ==
  \E more : AreOwed(more, LinesLeft) /\ asked = Total(received, out, AnswersOfLine, more)

(* An assertion that failed leaves the answers where they are.             *)
PromisedInv == asked \in Seq(Answer) /\ ~overlapped /\ (pc # "failed" => Promised)

(* The commands of the clients that are answered on their line.            *)
AnsweredCommand == PromptCommand \ RecordQueries

Answered == Seq(AnsweredCommand \cup { "EOF" })

LEMMA AnsweredClosed ==
  ASSUME AnsweredAtOnce(Lines), AsksForNoRecord(Lines) PROVE IsClosed(Answered)
<1> DEFINE C == AnsweredCommand \cup { "EOF" }
<1>1. /\ C \subseteq Command /\ "EOF" \in C /\ "READ:DIG:DATA?" \notin C
      /\ "MEAS:DIG:DATA?" \notin C /\ "READ:DIG:EVEN?" \notin C /\ "MEAS:DIG:EVEN?" \notin C
  BY DEF AnsweredCommand, PromptCommand, Command, Starters, LateQueries, RecordQueries
<1>2. Lines \subseteq Seq(C)
  <2> SUFFICES ASSUME NEW line \in Lines PROVE line \in Seq(C)
    OBVIOUS
  <2>1. line \in Seq(PromptCommand) /\ line \in Seq(Command \ RecordQueries)
    BY DEF AnsweredAtOnce, AsksForNoRecord
  <2>2. \A i \in 1..Len(line) : line[i] \in AnsweredCommand
    BY <2>1 DEF AnsweredCommand
  <2>3. Len(line) \in Nat /\ line = [ i \in 1..Len(line) |-> line[i] ]
    BY <2>1
  <2>4. line \in Seq(AnsweredCommand)
    BY <2>2, <2>3
  <2> QED BY <2>4
<1> HIDE DEF C
<1>3. EndOfFile \in Seq(C) /\ << >> \in Seq(C) /\ Seq(C) \subseteq Seq(Command)
  BY <1>1, SeqMonotonic DEF EndOfFile
<1>4. \A p \in Seq(C) : p # << >> => Head(p) \in C /\ Tail(p) \in Seq(C)
  OBVIOUS
<1>5. ASSUME NEW c, c \notin C, NEW s PROVE Expands(Seq(C), c, s)
  BY <1>4, <1>5 DEF Expands
<1>6. IsClosed(Seq(C))
  BY <1>1, <1>2, <1>3, <1>4, <1>5, Zenon DEF IsClosed
<1> QED BY <1>6 DEF C, Answered

(* The receiver leaves the client's side alone.                            *)
LEMMA ReceiverKeeps ==
  ASSUME DeviceWorker PROVE UNCHANGED << stdin, nsent, asked, received >>
<1> USE DEF clientVars
<1>1. CASE RcvStart \/ RcvScopeDataFails \/ RcvDigitalEventFails
  BY <1>1 DEF RcvStart, RcvScopeDataFails, RcvDigitalEventFails, Fail
<1>2. CASE RcvIdent \/ RcvScopeStatus \/ RcvScopeOffset \/ RcvScopeAddr \/ RcvScopeData
           \/ RcvDigitalRead \/ RcvInterrupt
  <2>1. \E m : Received(m)
    BY <1>2, Zenon DEF RcvIdent, RcvScopeStatus, RcvScopeOffset, RcvScopeAddr, RcvScopeData,
       RcvDigitalRead, RcvInterrupt
  <2> QED BY <2>1 DEF Received
<1> QED BY <1>1, <1>2 DEF DeviceWorker

(* Only the flush writes to the client.                                    *)
LEMMA EventKeeps ==
  ASSUME PlainEvent
  PROVE  UNCHANGED << stdin, nsent, asked >> /\ (OutputFlush \/ received' = received)
<1>1. \E e : Event(e)
  BY Zenon DEF PlainEvent, IdentifyCompletion, IdentifyOutput, DigitalReadCompletion,
     DigitalReadOutput, ScopeStatusOutput, ScopeStatusCompletion, ScopeOffsetStart,
     Unblock, OutputFlush
<1>2. OutputFlush \/ received' = received
  BY DEF PlainEvent, IdentifyCompletion, IdentifyOutput, DigitalReadCompletion,
     DigitalReadOutput, ScopeStatusOutput, ScopeStatusCompletion, ScopeOffsetStart, Unblock
<1> QED BY <1>1, <1>2, EventFrame

LEMMA OthersKeep ==
  ASSUME Other, ~Client PROVE UNCHANGED << stdin, nsent, asked >>
BY DEF Other, Select, Exit, SelectTimeout, Stopped, SigAlrm, SigInt, DeviceAnswers,
   IdentifyCompletionFails, Fail, CliNoRead, DeviceSelf, DeviceTriggered, DeviceReportsInput,
   DeviceInterrupts, serverSide, outsideLoop, stdinFrame, clientVars, vars

(* The answers of a command move from the line to the buffer.              *)
LEMMA Moved ==
  ASSUME NEW r, NEW o, NEW a, NEW t, NEW m,
         r \in Seq(Answer), o \in Seq(Answer), a \in Seq(Answer), t \in Seq(Answer),
         m \in Seq(Answer)
  PROVE  Total(r, o, a \o t, m) = Total(r, o \o a, t, m)
<1> DEFINE S == Seq(Answer)
<1>1. \A x, y, z \in S : (x \o y) \o z = x \o (y \o z)
  BY Associates
<1>2. PICK u, v : u = r \o o /\ v = t \o m
  OBVIOUS
<1>3. u \in S /\ v \in S
  BY <1>2, ConcatProperties
<1>4. r \in S /\ o \in S /\ a \in S /\ t \in S /\ m \in S
  OBVIOUS
<1> HIDE DEF S
<1>5. (a \o t) \o m = a \o (t \o m)
  BY <1>1, <1>4, Zenon
<1>6. (u \o a) \o v = u \o (a \o v)
  BY <1>1, <1>3, <1>4, Zenon
<1>7. (r \o o) \o a = r \o (o \o a)
  BY <1>1, <1>4, Zenon
<1> QED BY <1>2, <1>5, <1>6, <1>7, Zenon DEF Total

LEMMA LinesLeftTyped ==
  ASSUME TypeOK, Underway
  PROVE  /\ LinesLeft \in Seq(Program) /\ stdin \in Seq(Program)
         /\ lines \in Seq(Program) /\ (pc = "exec" => Tail(lines) \in Seq(Program))
<1>1. stdin \in Seq(Program) /\ lines \in Seq(Program)
  BY DEF TypeOK, Program
<1>2. pc = "exec" => Tail(lines) \in Seq(Program)
  BY <1>1 DEF Underway
<1> QED BY <1>1, <1>2, ConcatProperties DEF LinesLeft

LEMMA PromisedKept ==
  ASSUME Promised, UNCHANGED << asked, received, out, AnswersOfLine, LinesLeft >>
  PROVE  Promised'
BY Zenon DEF Promised

LEMMA HandlerPromised ==
  ASSUME TypeOK, Underway, Handler, Runs(Answered), FlushInv, ~sweep, ~overlapped, Promised,
         pc' = "exec"
  PROVE  Promised'
<1>1. /\ pc = "exec" /\ prog # << >> /\ prog \in Seq(Command)
      /\ UNCHANGED << lines, stdin, asked, received >>
  BY HandlerFrame DEF TypeOK, clientVars
<1>2. LinesLeft' = LinesLeft
  BY <1>1 DEF LinesLeft
<1>3. PICK more : /\ AreOwed(more, LinesLeft)
                  /\ asked = Total(received, out, AnswersTo(prog), more)
  BY <1>1 DEF Promised, AnswersOfLine
<1>4. PICK t : t = AnswersTo(Tail(prog))
  OBVIOUS
<1>5. /\ more \in Seq(Answer) /\ t \in Seq(Answer) /\ received \in Seq(Answer)
      /\ out \in Seq(Answer)
  <2>1. more \in Seq(Answer)
    BY <1>3, LinesLeftTyped, OwedTyped
  <2>2. Tail(prog) \in Seq(Command)
    BY <1>1
  <2> QED BY <1>4, <2>1, <2>2, AnswersTyped DEF TypeOK
<1>6. AnswersTo(prog) = IF Head(prog) = "bad" THEN << >> ELSE AnswerOf[Head(prog)] \o t
  BY <1>1, <1>4, AnswersToNext
<1>7. AnswersOfLine' = AnswersTo(prog')
  BY DEF AnswersOfLine
<1>8. SUFFICES asked' = Total(received', out', AnswersTo(prog'), more)
  BY <1>2, <1>3, <1>7, Zenon DEF Promised
<1>9. Head(prog) \notin LateQueries \cup RecordQueries
  <2>1. Head(prog) \in AnsweredCommand \cup { "EOF" }
    BY <1>1 DEF Runs, Answered
  <2> QED BY <2>1 DEF AnsweredCommand, PromptCommand, LateQueries, RecordQueries
<1>10. CASE SyntaxError /\ out' = out
  <2>1. Head(prog) = "bad" /\ prog' = << >>
    BY <1>10 DEF SyntaxError, At
  <2> QED BY <1>1, <1>3, <1>6, <1>10, <2>1, AnswersToNothing
<1>11. CASE /\ Cls /\ out' = << >> /\ prog' = Tail(prog) /\ AnswerOf[Head(prog)] = << >>
            /\ Head(prog) = "*CLS"
  <2>1. out = << >>
    <3>1. Has(prog, "*CLS")
      BY <1>1, <1>11, HasTail
    <3> QED BY <1>1, <3>1 DEF FlushInv
  <2>2. AnswersTo(prog) = t
    BY <1>5, <1>6, <1>11, AnswersGroup
  <2> QED BY <1>1, <1>3, <1>4, <1>11, <2>1, <2>2
<1>12. CASE /\ out' = out \o AnswerOf[Head(prog)] /\ prog' = Tail(prog) /\ Head(prog) # "bad"
  <2>1. PICK a : a = AnswerOf[Head(prog)]
    OBVIOUS
  <2>2. a \in Seq(Answer)
    <3>1. Head(prog) \in Command
      BY <1>1
    <3> QED BY <2>1, <3>1, AnswersAreSeqs
  <2>3. asked = Total(received, out, a \o t, more)
    BY <1>3, <1>6, <1>12, <2>1
  <2>4. asked = Total(received, out \o a, t, more)
    BY <1>5, <2>2, <2>3, Moved
  <2> QED BY <1>1, <1>4, <1>12, <2>1, <2>4
<1> QED BY <1>9, <1>10, <1>11, <1>12, HandlerAnswers

(* Answers are asked for at the end, and written to the client in front.   *)
LEMMA AskedLast ==
  ASSUME NEW r, NEW o, NEW l, NEW m, NEW a,
         r \in Seq(Answer), o \in Seq(Answer), l \in Seq(Answer), m \in Seq(Answer),
         a \in Seq(Answer)
  PROVE  Total(r, o, l, m) \o a = Total(r, o, l, m \o a)
<1> DEFINE S == Seq(Answer)
<1>1. \A x, y, z \in S : (x \o y) \o z = x \o (y \o z)
  BY Associates
<1>2. PICK u, v : u = r \o o /\ v = l \o m
  OBVIOUS
<1>3. u \in S /\ v \in S
  BY <1>2, ConcatProperties
<1>4. l \in S /\ a \in S /\ m \in S
  OBVIOUS
<1> HIDE DEF S
<1>5. (u \o v) \o a = u \o (v \o a)
  BY <1>1, <1>3, <1>4, Zenon
<1>6. (l \o m) \o a = l \o (m \o a)
  BY <1>1, <1>4, Zenon
<1> QED BY <1>2, <1>5, <1>6, Zenon DEF Total

LEMMA Written ==
  ASSUME NEW r, NEW o, NEW m, r \in Seq(Answer), o \in Seq(Answer), m \in Seq(Answer)
  PROVE  /\ Total(r, o, << >>, m) = Total(r \o o, << >>, << >>, m)
         /\ Total(r, o, << >>, m) = (r \o o) \o m
         /\ r \o o \in Seq(Answer)
<1>1. PICK u : u = r \o o
  OBVIOUS
<1>2. u \in Seq(Answer) /\ << >> \o m = m
  BY <1>1
<1>3. u \o << >> = u
  BY <1>2
<1> QED BY <1>1, <1>2, <1>3 DEF Total

LEMMA AnswersToEnd == AnswersTo(EndOfFile) = << >>
<1>1. PICK p : p = EndOfFile
  OBVIOUS
<1>2. p \in Seq(Command) /\ p # << >> /\ Head(p) = "EOF" /\ Tail(p) = << >>
  BY <1>1 DEF EndOfFile, Command
<1>3. AnswerOf["EOF"] = << >>
  BY AnswersOfCommands DEF SilentCommand
<1>4. AnswersTo(p) = << >> \o << >>
  BY <1>2, <1>3, AnswersToNext, AnswersToNothing
<1> QED BY <1>1, <1>4

(* The first line of two lists of lines.                                   *)
LEMMA FirstOfBoth ==
  ASSUME NEW s \in Seq(Program), NEW t \in Seq(Program), s # << >>
  PROVE  /\ s \o t \in Seq(Program) /\ s \o t # << >>
         /\ Head(s \o t) = Head(s) /\ Tail(s \o t) = Tail(s) \o t
         /\ Head(s) \in Program /\ Tail(s) \in Seq(Program)
<1>1. s \o t \in Seq(Program) /\ Head(s) \in Program /\ Tail(s) \in Seq(Program)
  OBVIOUS
<1>2. PICK h, r : h = Head(s) /\ r = Tail(s)
  OBVIOUS
<1>3. s = << h >> \o r
  BY <1>2
<1>4. PICK u : u = r \o t
  OBVIOUS
<1>5. u \in Seq(Program) /\ r \in Seq(Program) /\ << h >> \in Seq(Program)
  BY <1>1, <1>2, <1>4
<1>6. (<< h >> \o r) \o t = << h >> \o (r \o t)
  BY <1>5, ConcatAssociative
<1>7. << h >> \o u # << >> /\ Head(<< h >> \o u) = h /\ Tail(<< h >> \o u) = u
  BY <1>5
<1> QED BY <1>1, <1>2, <1>3, <1>4, <1>6, <1>7

(* The line that runs is done, and asked for what was answered.            *)
LEMMA LineDonePromised ==
  ASSUME TypeOK, Underway, LineDone, Promised PROVE Promised'
<1>1. /\ pc = "exec" /\ prog = << >> /\ pc' = "loop" /\ lines # << >>
      /\ UNCHANGED << out, stdin, asked, received >>
      /\ lines' = IF Head(lines) = EndOfFile THEN lines ELSE Tail(lines)
  BY DEF LineDone, Underway, clientVars
<1>2. AnswersOfLine = << >> /\ AnswersOfLine' = << >>
  BY <1>1, AnswersToNothing DEF AnswersOfLine
<1>3. PICK more : AreOwed(more, LinesLeft) /\ asked = Total(received, out, << >>, more)
  BY <1>2 DEF Promised
<1>4. SUFFICES AreOwed(more, LinesLeft')
  BY <1>1, <1>2, <1>3, Zenon DEF Promised
<1>5. LinesLeft = Tail(lines) \o stdin /\ LinesLeft' = lines' \o stdin
  BY <1>1 DEF LinesLeft
<1>6. CASE Head(lines) = EndOfFile
  <2>1. PICK all : all = lines \o stdin
    OBVIOUS
  <2>2. /\ all \in Seq(Program) /\ all # << >> /\ Head(all) = EndOfFile
        /\ Tail(all) = LinesLeft
    BY <1>1, <1>5, <1>6, <2>1, FirstOfBoth, LinesLeftTyped
  <2>3. AreOwed(AnswersTo(Head(all)) \o more, all)
    BY <1>3, <2>2, OwedBefore
  <2>4. AnswersTo(Head(all)) \o more = more
    <3>1. more \in Seq(Answer)
      BY <1>3, LinesLeftTyped, OwedTyped
    <3> QED BY <2>2, <3>1, AnswersToEnd, AnswersGroup
  <2> QED BY <1>1, <1>5, <1>6, <2>1, <2>3, <2>4
<1>7. CASE Head(lines) # EndOfFile
  BY <1>1, <1>3, <1>5, <1>7
<1> QED BY <1>6, <1>7

(* An empty line asks for nothing.                                         *)
LEMMA EmptyLinePromised ==
  ASSUME TypeOK, Underway, ProcessEmptyLine, Promised PROVE Promised'
<1>1. /\ pc = "loop" /\ pc' = "loop" /\ lines # << >> /\ Head(lines) = << >>
      /\ lines' = Tail(lines) /\ UNCHANGED << out, stdin, asked, received >>
  BY EventFrame DEF ProcessEmptyLine
<1>2. AnswersOfLine = << >> /\ AnswersOfLine' = << >>
  BY <1>1 DEF AnswersOfLine
<1>3. PICK all : all = lines \o stdin
  OBVIOUS
<1>4. PICK owed : AreOwed(owed, all) /\ asked = Total(received, out, << >>, owed)
  BY <1>1, <1>2, <1>3 DEF Promised, LinesLeft
<1>5. /\ all \in Seq(Program) /\ all # << >> /\ Head(all) = << >>
      /\ Tail(all) = Tail(lines) \o stdin
  BY <1>1, <1>3, FirstOfBoth, LinesLeftTyped
<1>6. PICK more : AreOwed(more, Tail(all)) /\ owed = AnswersTo(Head(all)) \o more
  BY <1>4, <1>5, OwedFirst
<1>7. owed = more
  <2>1. more \in Seq(Answer)
    <3>1. Tail(all) \in Seq(Program)
      BY <1>5
    <3> QED BY <1>6, <3>1, OwedTyped
  <2> QED BY <1>5, <1>6, <2>1, AnswersToNothing, AnswersGroup
<1>8. LinesLeft' = Tail(all)
  BY <1>1, <1>5 DEF LinesLeft
<1> QED BY <1>1, <1>2, <1>4, <1>6, <1>7, <1>8, Zenon DEF Promised

(* The next line runs with an empty buffer, which was flushed before.      *)
LEMMA LinePromised ==
  ASSUME TypeOK, Underway, FlushInv, ProcessLine, Promised PROVE Promised'
<1>1. /\ pc = "loop" /\ pc' = "exec" /\ lines # << >> /\ prog' = Head(lines) /\ out' = << >>
      /\ UNCHANGED << lines, stdin, asked >>
      /\ evq # << >> /\ Head(evq) = "PROCESS_LINE" /\ received' = received
  BY EventFrame DEF ProcessLine
<1>2. out = << >>
  BY <1>1, FlushFirstTail DEF FlushInv, TypeOK
<1>3. PICK all : all = lines \o stdin
  OBVIOUS
<1>4. PICK owed : AreOwed(owed, all) /\ asked = Total(received, out, << >>, owed)
  BY <1>1, <1>3 DEF Promised, LinesLeft, AnswersOfLine
<1>5. /\ all \in Seq(Program) /\ all # << >> /\ Head(all) = Head(lines)
      /\ Tail(all) = Tail(lines) \o stdin
  BY <1>1, <1>3, FirstOfBoth, LinesLeftTyped
<1>6. PICK more : AreOwed(more, Tail(all)) /\ owed = AnswersTo(Head(all)) \o more
  BY <1>4, <1>5, OwedFirst
<1>7. LinesLeft' = Tail(all) /\ AnswersOfLine' = AnswersTo(Head(all))
  BY <1>1, <1>5 DEF LinesLeft, AnswersOfLine
<1>8. owed \in Seq(Answer)
  BY <1>4, <1>5, OwedTyped
<1>9. << >> \o owed = owed
  BY <1>8
<1>10. asked = Total(received, out, AnswersTo(Head(all)), more)
  BY <1>4, <1>6, <1>9, Zenon DEF Total
<1> QED BY <1>1, <1>2, <1>6, <1>7, <1>10, Zenon DEF Promised

(* Lines that are read were sent.                                          *)
LEMMA ReadPromised ==
  ASSUME TypeOK, CliRead, Promised PROVE Promised'
<1>1. /\ pc = "loop" /\ pc' = "loop" /\ lines = << >>
      /\ UNCHANGED << out, asked, received >>
      /\ \E n \in 1..Len(stdin) : /\ lines' = SubSeq(stdin, 1, n)
                                  /\ stdin' = SubSeq(stdin, n + 1, Len(stdin))
  BY DEF CliRead, Turn, stdinFrame
<1>2. stdin \in Seq(Program)
  BY DEF TypeOK, Program
<1>3. lines' \o stdin' = stdin
  <2>1. PICK n \in 1..Len(stdin) : /\ lines' = SubSeq(stdin, 1, n)
                                   /\ stdin' = SubSeq(stdin, n + 1, Len(stdin))
    BY <1>1
  <2>2. /\ SubSeq(stdin, 1, Len(stdin)) = stdin
        /\ SubSeq(stdin, 1, n) \o SubSeq(stdin, n + 1, Len(stdin))
             = SubSeq(stdin, 1, Len(stdin))
    BY <1>2, SubSeqFull, ConcatAdjacentSubSeq
  <2> QED BY <2>1, <2>2
<1>4. << >> \o stdin = stdin
  BY <1>2
<1>5. LinesLeft' = LinesLeft /\ AnswersOfLine' = AnswersOfLine
  BY <1>1, <1>3, <1>4 DEF LinesLeft, AnswersOfLine
<1> QED BY <1>1, <1>5, PromisedKept

(* A line that is sent calls for its answers after those before.           *)
LEMMA ClientSteps ==
  ASSUME Client
  PROVE  /\ UNCHANGED << pc, lines, prog, out, received, quit, overlapped >>
         /\ \/ \E p \in Program : stdin' = Append(stdin, p) /\ asked' = asked \o AnswersTo(p)
            \/ asked' = asked /\ stdin' = Append(stdin, EndOfFile)
<1> USE DEF clientFrame, loopVars, inputVars, scopeVars
<1>1. UNCHANGED << pc, lines, prog, out, received, quit, overlapped >>
  BY DEF Client, ClientCloses, ClientSends
<1>2. CASE ClientCloses
  BY <1>2 DEF ClientCloses
<1>3. CASE \E line \in Lines : ClientSends(line)
  BY <1>3, LinesOfCommands DEF ClientSends, Program
<1> QED BY <1>1, <1>2, <1>3 DEF Client

LEMMA ClientPromised ==
  ASSUME TypeOK, Underway, Client, asked \in Seq(Answer)
  PROVE  asked' \in Seq(Answer) /\ (Promised => Promised')
<1>1. /\ UNCHANGED << pc, lines, prog, out, received >>
      /\ \/ \E p \in Program : stdin' = Append(stdin, p) /\ asked' = asked \o AnswersTo(p)
         \/ asked' = asked /\ stdin' = Append(stdin, EndOfFile)
  BY ClientSteps
<1>2. EndOfFile \in Program /\ AnswersTo(EndOfFile) = << >> /\ asked \o << >> = asked
  BY AnswersToEnd, LinesOfCommands DEF Program
<1>3. PICK p \in Program : stdin' = Append(stdin, p) /\ asked' = asked \o AnswersTo(p)
  BY <1>1, <1>2
<1>4. PICK a : a = AnswersTo(p)
  OBVIOUS
<1>5. a \in Seq(Answer)
  BY <1>4, AnswersTyped DEF Program
<1>6. asked' \in Seq(Answer)
  BY <1>3, <1>4, <1>5
<1>7. ASSUME Promised PROVE Promised'
  <2>1. AnswersOfLine' = AnswersOfLine /\ LinesLeft' = Append(LinesLeft, p)
    <3>1. PICK l : l = IF pc = "exec" THEN Tail(lines) ELSE lines
      OBVIOUS
    <3>2. l \in Seq(Program) /\ stdin \in Seq(Program)
      BY <3>1, LinesLeftTyped
    <3>3. l \o Append(stdin, p) = Append(l \o stdin, p)
      BY <3>2
    <3> QED BY <1>1, <1>3, <3>1, <3>3 DEF LinesLeft, AnswersOfLine
  <2>2. PICK more : AreOwed(more, LinesLeft) /\ asked = Total(received, out, AnswersOfLine, more)
    BY <1>7 DEF Promised
  <2>3. LinesLeft \in Seq(Program)
    BY LinesLeftTyped
  <2>4. AreOwed(more \o a, Append(LinesLeft, p))
    BY <1>4, <2>2, <2>3, OwedLast
  <2>5. /\ more \in Seq(Answer) /\ received \in Seq(Answer) /\ out \in Seq(Answer)
        /\ AnswersOfLine \in Seq(Answer)
    <3>1. prog \in Seq(Command) /\ << >> \in Seq(Answer)
      BY DEF TypeOK
    <3> QED BY <2>2, <2>3, <3>1, OwedTyped, AnswersTyped DEF TypeOK, AnswersOfLine
  <2>6. asked' = Total(received, out, AnswersOfLine, more \o a)
    <3>1. PICK r, o, l : r = received /\ o = out /\ l = AnswersOfLine
      OBVIOUS
    <3>2. Total(r, o, l, more) \o a = Total(r, o, l, more \o a)
      <4>1. r \in Seq(Answer) /\ o \in Seq(Answer) /\ l \in Seq(Answer)
        BY <2>5, <3>1
      <4> QED BY <1>5, <2>5, <4>1, AskedLast
    <3> QED BY <1>3, <1>4, <2>2, <3>1, <3>2, Zenon
  <2> QED BY <1>1, <2>1, <2>4, <2>6, Zenon DEF Promised
<1> QED BY <1>6, <1>7

(* The flush delivers what is in the buffer.                               *)
Flushed ==
  /\ received' = received \o out /\ out' = << >>
  /\ UNCHANGED << pc, lines, stdin, asked >>

LEMMA FlushPromised ==
  ASSUME TypeOK, Underway, pc = "loop", Flushed, Promised
  PROVE  /\ Promised'
         /\ \E more \in Seq(Answer) : asked = received' \o more
<1>1. /\ received' = received \o out /\ out' = << >>
      /\ UNCHANGED << pc, lines, stdin, asked >>
  BY DEF Flushed
<1>2. AnswersOfLine = << >> /\ AnswersOfLine' = << >> /\ LinesLeft' = LinesLeft
  BY <1>1 DEF AnswersOfLine, LinesLeft
<1>3. PICK more : AreOwed(more, LinesLeft) /\ asked = Total(received, out, << >>, more)
  BY <1>2 DEF Promised
<1>4. more \in Seq(Answer) /\ received \in Seq(Answer) /\ out \in Seq(Answer)
  BY <1>3, LinesLeftTyped, OwedTyped DEF TypeOK
<1>5. PICK r, o : r = received /\ o = out
  OBVIOUS
<1>6. /\ Total(r, o, << >>, more) = Total(r \o o, << >>, << >>, more)
      /\ Total(r, o, << >>, more) = (r \o o) \o more
  <2>1. r \in Seq(Answer) /\ o \in Seq(Answer)
    BY <1>4, <1>5
  <2> QED BY <1>4, <2>1, Written
<1>7. Promised'
  BY <1>1, <1>2, <1>3, <1>5, <1>6, Zenon DEF Promised
<1>8. asked = received' \o more
  BY <1>1, <1>3, <1>5, <1>6
<1> QED BY <1>4, <1>7, <1>8

(* A step asks, delivers, or does neither; what is promised is kept.       *)
Delivered == Flushed /\ \E more \in Seq(Answer) : asked = received' \o more

LEMMA PromisedStep ==
  ASSUME IInv, RestfulInv, PromptInv, Runs(Answered), PromisedInv, [Next]_vars
  PROVE  PromisedInv' /\ (Client \/ Delivered \/ UNCHANGED << asked, received >>)
<1>1. /\ TypeOK /\ Underway /\ AddrInv /\ NothingRuns /\ NothingLate /\ FlushInv
      /\ asked \in Seq(Answer) /\ ~overlapped /\ (pc # "failed" => Promised)
  BY DEF IInv, RestfulInv, PromptInv, PromisedInv
<1>2. ~overlapped'
  BY <1>1, OverlapStep
<1>3. ASSUME asked' = asked, received' = received, pc # "failed",
             pc' # "failed" => Promised'
      PROVE  PromisedInv' /\ (Client \/ Delivered \/ UNCHANGED << asked, received >>)
  BY <1>1, <1>2, <1>3 DEF PromisedInv
<1>4. CASE Handler
  <2>1. pc = "exec" /\ pc' \in { "exec", "failed" } /\ asked' = asked /\ received' = received
    BY <1>4, HandlerFrame DEF clientVars
  <2>2. pc' # "failed" => Promised'
    <3>1. ~sweep
      BY <1>1 DEF NothingRuns
    <3> QED BY <1>1, <1>4, <2>1, <3>1, HandlerPromised
  <2> QED BY <1>3, <2>1, <2>2
<1>5. CASE LineDone
  <2>1. pc = "exec" /\ asked' = asked /\ received' = received
    BY <1>5 DEF LineDone, clientVars
  <2> QED BY <1>1, <1>3, <1>5, <2>1, LineDonePromised
<1>6. CASE ProcessEmptyLine
  <2>1. pc = "loop" /\ asked' = asked /\ received' = received
    BY <1>6, EventFrame DEF ProcessEmptyLine
  <2> QED BY <1>1, <1>3, <1>6, <2>1, EmptyLinePromised
<1>7. CASE ProcessLine
  <2>1. pc = "loop" /\ asked' = asked /\ received' = received
    BY <1>7, EventFrame DEF ProcessLine
  <2> QED BY <1>1, <1>3, <1>7, <2>1, LinePromised
<1>8. CASE CliRead
  <2>1. pc = "loop" /\ asked' = asked /\ received' = received
    BY <1>8 DEF CliRead, Turn, stdinFrame
  <2> QED BY <1>1, <1>3, <1>8, <2>1, ReadPromised
<1>9. CASE ProcessNoLine
  <2>1. pc = "loop" /\ UNCHANGED << asked, received, out, pc, lines, prog, stdin >>
    BY <1>9, EventFrame DEF ProcessNoLine, lineState
  <2>2. UNCHANGED << AnswersOfLine, LinesLeft >>
    BY <2>1 DEF AnswersOfLine, LinesLeft
  <2> QED BY <1>1, <1>3, <2>1, <2>2, PromisedKept
<1>10. CASE DeviceWorker
  <2>1. rcv \notin { "S", "D" } /\ chanMask = {}
    <3>1. devOut \in Seq(Message)
      BY <1>1 DEF TypeOK
    <3>2. /\ devOut # << >> => Head(devOut) \notin { "S", "D" }
          /\ chanMask = {}
      BY <1>1, <3>1, HasTail DEF NothingRuns, NothingLate
    <3> QED BY <1>1, <3>2 DEF AddrInv, Underway
  <2>2. /\ pc = "loop" /\ pc' \in { "loop", "failed" }
        /\ UNCHANGED << asked, received, out, lines, prog, stdin >>
    BY <1>10, <2>1, PromptReceiver, DeviceFrame, ReceiverKeeps
  <2>3. UNCHANGED << AnswersOfLine, LinesLeft >>
    BY <2>2 DEF AnswersOfLine, LinesLeft
  <2> QED BY <1>1, <1>3, <2>2, <2>3, PromisedKept
<1>11. ASSUME PlainEvent
       PROVE  PromisedInv' /\ (Client \/ Delivered \/ UNCHANGED << asked, received >>)
  <2>1. evq \in Seq(EventId) /\ evq # << >>
    BY <1>1, <1>11, PlainEventFrame DEF TypeOK
  <2>2. Head(evq) \notin LateTokens /\ Head(evq) # "UNBLOCK" /\ ~identReq
    <3>1. ~Has(evq, "UNBLOCK") /\ \A e \in LateTokens : ~Has(evq, e)
      BY <1>1 DEF NothingLate, NothingRuns, Has, Queued
    <3> QED BY <1>1, <2>1, <3>1, HasTail DEF NothingLate
  <2>3. /\ pc = "loop" /\ UNCHANGED << pc, lines, prog, stdin, asked >>
        /\ OutputFlush \/ received' = received
    BY <1>11, PlainEventFrame, EventKeeps
  <2>4. \/ Head(evq) # "OUTPUT_FLUSH" /\ out' = out
        \/ out' = << >> /\ received' = received \o out
    BY <1>11, <2>1, <2>2, PromptEvent
  <2>5. CASE out' = << >> /\ received' = received \o out
    <3>1. Flushed
      BY <2>3, <2>5 DEF Flushed
    <3>2. Promised' /\ Delivered
      BY <1>1, <2>3, <3>1, FlushPromised DEF Delivered
    <3> QED BY <1>1, <1>2, <2>3, <3>2 DEF PromisedInv
  <2>6. CASE Head(evq) # "OUTPUT_FLUSH" /\ out' = out
    <3>1. received' = received
      BY <2>3, <2>6, EventFrame DEF OutputFlush
    <3>2. UNCHANGED << AnswersOfLine, LinesLeft >>
      BY <2>3 DEF AnswersOfLine, LinesLeft
    <3> QED BY <1>1, <1>3, <2>3, <2>6, <3>1, <3>2, PromisedKept
  <2> QED BY <2>4, <2>5, <2>6
<1>12. ASSUME Other
       PROVE  PromisedInv' /\ (Client \/ Delivered \/ UNCHANGED << asked, received >>)
  <2>1. CASE Client
    <3>1. asked' \in Seq(Answer) /\ (Promised => Promised') /\ pc' = pc
      BY <1>1, <2>1, ClientPromised, ClientSteps
    <3> QED BY <1>1, <1>2, <2>1, <3>1 DEF PromisedInv
  <2>2. CASE ~Client
    <3>1. /\ UNCHANGED << lines, prog, out, received, stdin, asked >>
          /\ pc' = pc \/ pc' = "failed" \/ (pc = "loop" /\ pc' = "exited")
      BY <1>12, <2>2, OtherFrame, OthersKeep
    <3>2. pc' # "failed" => UNCHANGED << AnswersOfLine, LinesLeft >> /\ pc # "failed"
      BY <3>1 DEF AnswersOfLine, LinesLeft
    <3>3. pc' # "failed" => Promised'
      BY <1>1, <3>1, <3>2, PromisedKept
    <3> QED BY <1>1, <1>2, <3>1, <3>3 DEF PromisedInv
  <2> QED BY <2>1, <2>2
<1> QED BY <1>4, <1>5, <1>6, <1>7, <1>8, <1>9, <1>10, <1>11, <1>12, Cases

(* In the beginning nothing is asked and nothing promised.                 *)
LEMMA PromisedInit == ASSUME Init PROVE PromisedInv
<1>1. /\ pc = "loop" /\ lines = << >> /\ stdin = << >> /\ asked = << >> /\ out = << >>
      /\ received = << >> /\ overlapped = FALSE
  BY DEF Init
<1>2. << >> \o << >> = << >>
  OBVIOUS
<1>3. LinesLeft = << >> /\ AnswersOfLine = << >>
  BY <1>1, <1>2 DEF LinesLeft, AnswersOfLine
<1>4. AreOwed(<< >>, << >>)
  BY NothingOwed
<1>5. Promised
  BY <1>1, <1>2, <1>3, <1>4, Zenon DEF Promised, Total
<1> QED BY <1>1, <1>5 DEF PromisedInv

LEMMA PromisedAlways ==
  ASSUME AnsweredAtOnce(Lines), AsksForNoRecord(Lines)
  PROVE  Safe => [](Runs(Answered) /\ PromisedInv)
<1>1. Safe => []RestfulInv
  BY PromptStartsNothing, RestfulAlways
<1>2. Init => Runs(Answered) /\ PromisedInv
  <2>1. << >> \in Answered /\ << >> \in Seq(Answered)
    BY DEF Answered
  <2> QED BY <2>1, PromisedInit DEF Init, Runs
<1>3. IInv /\ RestfulInv /\ PromptInv /\ Runs(Answered) /\ PromisedInv /\ [Next]_vars
        => (Runs(Answered) /\ PromisedInv)'
  BY AnsweredClosed, RunsStep, PromisedStep DEF IInv
<1> QED BY <1>1, <1>2, <1>3, PromptAlways, Invariance, PTL DEF Safe

(* For every client whose queries are answered on their line: the answers  *)
(* it receives are the ones it asked for, in the order of its queries,     *)
(* none lost and none twice (parser.c, scpi_core.c, scpi_output.c).        *)
THEOREM AnswersComeInOrder ==
  ASSUME AnsweredAtOnce(Lines), AsksForNoRecord(Lines)
  PROVE  Safe => AnswersInOrder
<1>1. Safe => []RestfulInv
  BY PromptStartsNothing, RestfulAlways
<1>2. Init => Stream!Init
  BY DEF Init, Stream!Init
<1>3. ASSUME IInv, IInv', RestfulInv, PromptInv, Runs(Answered), PromisedInv, [Next]_vars
      PROVE  [Stream!Ask \/ Stream!Deliver]_(Stream!streamVars)
  <2>1. asked \in Seq(Answer) /\ received' \in Seq(Answer)
    BY <1>3 DEF IInv, PromisedInv, TypeOK
  <2>2. Client \/ Delivered \/ UNCHANGED << asked, received >>
    BY <1>3, PromisedStep
  <2>3. CASE Client
    <3>1. PICK a \in Seq(Answer) : asked' = asked \o a
      <4>1. EndOfFile \in Program /\ AnswersTo(EndOfFile) = << >> /\ asked \o << >> = asked
        BY <2>1, AnswersToEnd, LinesOfCommands DEF Program
      <4>2. \E p \in Program : asked' = asked \o AnswersTo(p)
        BY <2>3, <4>1, ClientSteps
      <4> QED BY <4>2, AnswersTyped DEF Program
    <3>2. received' = received
      BY <2>3, ClientSteps
    <3>3. CASE a = << >>
      BY <2>1, <3>1, <3>2, <3>3 DEF Stream!streamVars
    <3>4. CASE a # << >>
      <4>1. Len(asked') > Len(asked) /\ SubSeq(asked', 1, Len(asked)) = asked
        BY <2>1, <3>1, <3>4
      <4> QED BY <3>2, <4>1 DEF Stream!Ask
    <3> QED BY <3>3, <3>4
  <2>4. CASE Delivered
    <3>1. PICK more \in Seq(Answer) : asked = received' \o more
      BY <2>4 DEF Delivered
    <3>2. asked' = asked /\ received' = received \o out
      BY <2>4 DEF Delivered, Flushed
    <3>3. received \in Seq(Answer) /\ out \in Seq(Answer)
      BY <1>3 DEF IInv, TypeOK
    <3>4. CASE out = << >>
      BY <3>2, <3>3, <3>4 DEF Stream!streamVars
    <3>5. CASE out # << >>
      <4>1. PICK n : n = Len(received')
        OBVIOUS
      <4>2. n \in Len(received) + 1 .. Len(asked) /\ received' = SubSeq(asked, 1, n)
        BY <2>1, <3>1, <3>2, <3>3, <3>5, <4>1
      <4> QED BY <3>2, <4>2 DEF Stream!Deliver
    <3> QED BY <3>4, <3>5
  <2> QED BY <2>2, <2>3, <2>4 DEF Stream!streamVars
<1> QED BY <1>1, <1>2, <1>3, PromisedAlways, PromptAlways, Invariance, PTL
        DEF Safe, AnswersInOrder, Stream!Safe

----------------------------------------------------------------------------
(* A client that quits silently: the end of its stream is the last thing   *)
(* it sends, and when the server is about to quit the buffer is empty.     *)
Ends(p) == Has(p, "SYST:INT:QUI") \/ Has(p, "EOF")

Silent(p) == \A i \in 1..Len(p) : AnswerOf[p[i]] = << >>

QuietPrograms == { p \in Seq(Command) : Ends(p) => Silent(p) }

EndIsLast(all) == \A i \in 1..Len(all) : all[i] = EndOfFile => i = Len(all)

IsOpen(all) == \A i \in 1..Len(all) : all[i] # EndOfFile

QuitInv ==
  /\ pc = "exec" \/ quit => "event" \notin ready
  /\ quit => out = << >>
  /\ pc = "exec" /\ (quit \/ Ends(prog)) => out = << >> /\ Silent(prog)
  /\ pc = "exited" => quit

StreamEnds ==
  /\ nsent \in Nat
  /\ EndIsLast(lines \o stdin)
  /\ nsent <= MaxLines => IsOpen(lines \o stdin)

LEMMA QuietLines ==
  ASSUME QuitsSilently(Lines)
  PROVE  Lines \subseteq QuietPrograms /\ EndOfFile \in QuietPrograms
<1>1. Lines \subseteq Seq(Command \ { "EOF" })
  BY ConstantsAssumption
<1>2. ASSUME NEW line \in Lines PROVE line \in QuietPrograms
  <2>1. line \in Seq(Command) /\ ~Has(line, "EOF")
    BY <1>1 DEF Has
  <2>2. Quits(line) => Silent(line)
    BY DEF QuitsSilently, Silent
  <2> QED BY <2>1, <2>2 DEF QuietPrograms, Ends, Quits, Has
<1>3. Silent(EndOfFile)
  <2>1. AnswerOf["EOF"] = << >>
    BY AnswersOfCommands DEF SilentCommand
  <2> QED BY <2>1 DEF Silent, EndOfFile
<1> QED BY <1>2, <1>3, LinesOfCommands DEF QuietPrograms

LEMMA QuietRest ==
  ASSUME NEW p \in Seq(Command), p # << >>
  PROVE  /\ Ends(p) <=> Head(p) \in { "SYST:INT:QUI", "EOF" } \/ Ends(Tail(p))
         /\ Silent(p) => AnswerOf[Head(p)] = << >> /\ Silent(Tail(p))
         /\ ~Ends(<< >>) /\ Silent(<< >>)
<1>1. \A e : Has(p, e) <=> Head(p) = e \/ Has(Tail(p), e)
  BY HasTail
<1>2. /\ Len(p) \in Nat /\ 1 \in 1..Len(p) /\ Head(p) = p[1]
      /\ Len(Tail(p)) = Len(p) - 1
      /\ \A i \in 1..Len(p) - 1 : i + 1 \in 1..Len(p) /\ Tail(p)[i] = p[i + 1]
  OBVIOUS
<1>3. Silent(p) => AnswerOf[Head(p)] = << >> /\ Silent(Tail(p))
  BY <1>2 DEF Silent
<1>4. ~Ends(<< >>) /\ Silent(<< >>)
  BY DEF Ends, Silent, Has
<1> QED BY <1>1, <1>3, <1>4 DEF Ends

(* Quit is set by its command and by the end of the stream.                *)
LEMMA HandlerQuits ==
  ASSUME Handler
  PROVE  /\ \/ quit' = quit
            \/ quit' = TRUE /\ Head(prog) \in { "SYST:INT:QUI", "EOF" }
         /\ pc' = "failed" => out' = out
<1> USE DEF loopVars
<1>1. CASE Quit
  BY <1>1 DEF Quit, Run, At
<1>2. CASE ~Quit
  <2>1. CASE \/ VersionQ \/ DigitalEventRefused \/ Cls \/ Rst \/ Wai \/ OpcQ \/ Sleep
             \/ IdnQ \/ ChannelState
             \/ Initiate \/ InitiateImmediate \/ Abort
    <3>1. quit' = quit
      BY <2>1 DEF VersionQ, DigitalEventRefused, Cls, Rst, Wai, OpcQ, Sleep, IdnQ,
         ChannelState, Enable, Initiate,
         InitiateImmediate, Abort
    <3>2. \E c : Run(c)
      BY <2>1, Zenon DEF VersionQ, DigitalEventRefused, Cls, Rst, Wai, OpcQ, Sleep, IdnQ,
         ChannelState, Enable,
         Initiate, InitiateImmediate, Abort
    <3> QED BY <3>1, <3>2 DEF Run, At
  <2>2. CASE \/ ScopeDataQ \/ ScopeStatusQ \/ ConfigureDigitalData \/ FetchDigitalData
             \/ ConfigureDigitalEvent \/ FetchDigitalEvent
    BY <2>2 DEF ScopeDataQ, ScopeStatusQ, ConfigureDigitalData, FetchDigitalData,
       ConfigureDigitalEvent, FetchDigitalEvent, Run, At
  <2>3. CASE SyntaxError \/ ReadOrMeasure
    BY <2>3 DEF SyntaxError, ReadOrMeasure, Expand, At
  <2>4. CASE SleepFails \/ AbortFails \/ ScopeDataQFails \/ ConfigureDigitalEventFails
    BY <2>4 DEF SleepFails, AbortFails, ScopeDataQFails, ConfigureDigitalEventFails, Fail
  <2> QED BY <1>2, <2>1, <2>2, <2>3, <2>4 DEF Handler
<1> QED BY <1>1, <1>2

(* Once it is to quit, select() is not called any more.                    *)
LEMMA OthersQuit ==
  ASSUME Other, Signals = {}
  PROVE  /\ quit' = quit /\ (ready' \subseteq ready \/ (pc = "loop" /\ pc' = "loop" /\ ~quit))
         /\ pc' = "exited" => pc = "exited" \/ quit
<1> USE DEF outsideLoop, stdinFrame, clientFrame, serverSide, loopVars, vars
<1>1. CASE Select
  BY <1>1 DEF Select, InSelect
<1>2. CASE SigAlrm
  BY <1>2 DEF SigAlrm, Interrupted, InSelect
<1>3. ~SigInt
  BY DEF SigInt
<1>4. CASE ~Select /\ ~SigAlrm
  BY <1>3, <1>4 DEF Other, Exit, SelectTimeout, Stopped, IdentifyCompletionFails, Fail, CliNoRead,
     Return, DeviceAnswers, DeviceSelf, DeviceTriggered, DeviceReportsInput, DeviceInterrupts,
     Client, ClientCloses, ClientSends
<1> QED BY <1>1, <1>2, <1>4

LEMMA QuitStep ==
  ASSUME Signals = {}, IInv, RestfulInv, PromptInv, Runs(Answered), ~overlapped, QuitInv,
         LinesFrom(QuietPrograms), [Next]_vars
  PROVE  QuitInv'
<1>1. TypeOK /\ Underway /\ AddrInv /\ NothingRuns /\ NothingLate
  BY DEF IInv, RestfulInv, PromptInv
<1>2. ASSUME ready' \subseteq ready, quit' = quit, out' = out, prog' = prog, pc' # "exec",
             pc' = "exited" => pc = "exited" \/ quit
      PROVE  QuitInv'
  BY <1>2 DEF QuitInv
<1>3. ASSUME NEW e, Event(e), pc' # "exited",
             pc' = "exec" => out' = << >> /\ (Ends(prog') => Silent(prog'))
      PROVE  QuitInv'
  <2>1. "event" \in ready /\ ready' = ready \ { "event" } /\ quit' = quit
    BY <1>3 DEF Event, Turn, Return
  <2>2. ~quit'
    BY <2>1 DEF QuitInv
  <2> QED BY <1>3, <2>1, <2>2 DEF QuitInv
<1>4. CASE Handler
  <2>1. /\ pc = "exec" /\ pc' \in { "exec", "failed" } /\ prog # << >> /\ ready' = ready
        /\ prog \in Seq(Command)
    BY <1>1, <1>4, HandlerFrame DEF TypeOK
  <2>2. /\ \/ quit' = quit
           \/ quit' = TRUE /\ Head(prog) \in { "SYST:INT:QUI", "EOF" }
        /\ pc' = "failed" => out' = out
    BY <1>4, HandlerQuits
  <2>3. /\ Ends(prog) <=> Head(prog) \in { "SYST:INT:QUI", "EOF" } \/ Ends(Tail(prog))
        /\ Silent(prog) => AnswerOf[Head(prog)] = << >> /\ Silent(Tail(prog))
        /\ ~Ends(<< >>) /\ Silent(<< >>)
    BY <2>1, QuietRest
  <2>4. quit' => quit \/ Ends(prog)
    BY <2>2, <2>3
  <2>5. quit \/ Ends(prog) => out = << >> /\ Silent(prog)
    BY <2>1 DEF QuitInv
  <2>6. "event" \notin ready'
    BY <2>1 DEF QuitInv
  <2>7. CASE pc' = "failed"
    BY <2>2, <2>4, <2>5, <2>6, <2>7 DEF QuitInv
  <2>8. CASE pc' = "exec"
    <3>1. Head(prog) \notin LateQueries \cup RecordQueries
      <4>1. Head(prog) \in AnsweredCommand \cup { "EOF" }
        BY <2>1 DEF Runs, Answered
      <4> QED BY <4>1 DEF AnsweredCommand, PromptCommand, LateQueries, RecordQueries
    <3>2. \/ SyntaxError /\ out' = out
          \/ out' = << >> /\ prog' = Tail(prog)
          \/ out' = out \o AnswerOf[Head(prog)] /\ prog' = Tail(prog)
      BY <1>1, <1>4, <2>8, <3>1, HandlerAnswers DEF NothingRuns
    <3>3. SyntaxError => prog' = << >>
      BY DEF SyntaxError
    <3>4. << >> \o << >> = << >>
      OBVIOUS
    <3>5. quit' \/ Ends(prog') => out' = << >> /\ Silent(prog')
      BY <2>3, <2>4, <2>5, <3>2, <3>3, <3>4, Zenon
    <3> QED BY <2>6, <2>8, <3>5 DEF QuitInv
  <2> QED BY <2>1, <2>7, <2>8
<1>5. CASE LineDone
  <2>1. pc' = "loop" /\ ready' = ready /\ quit' = quit /\ out' = out /\ prog' = prog
    BY <1>5 DEF LineDone
  <2> QED BY <1>2, <2>1
<1>6. CASE ProcessLine
  <2>1. Event("PROCESS_LINE") /\ pc' = "exec" /\ out' = << >> /\ prog' = Head(lines)
        /\ lines # << >>
    BY <1>6 DEF ProcessLine
  <2>2. Head(lines) \in QuietPrograms
    BY <2>1 DEF LinesFrom
  <2>3. Ends(prog') => Silent(prog')
    BY <2>1, <2>2 DEF QuietPrograms
  <2> QED BY <1>3, <2>1, <2>3
<1>7. CASE ProcessNoLine \/ ProcessEmptyLine
  <2>1. Event("PROCESS_LINE") /\ pc' = pc
    BY <1>7 DEF ProcessNoLine, ProcessEmptyLine, lineState
  <2> QED BY <1>3, <2>1, EventFrame
<1>8. ASSUME PlainEvent PROVE QuitInv'
  <2>1. \E e : Event(e)
    BY <1>8, Zenon DEF PlainEvent, IdentifyCompletion, IdentifyOutput, DigitalReadCompletion,
       DigitalReadOutput, ScopeStatusOutput, ScopeStatusCompletion, ScopeOffsetStart,
       Unblock, OutputFlush
  <2> QED BY <1>3, <1>8, <2>1, PlainEventFrame
<1>9. CASE CliRead
  <2>1. pc = "loop" /\ ready' \subseteq ready /\ UNCHANGED << pc, quit, out, prog >>
    BY <1>9 DEF CliRead, Turn, Return, stdinFrame
  <2> QED BY <1>2, <2>1
<1>10. CASE DeviceWorker
  <2>1. rcv \notin { "S", "D" } /\ chanMask = {}
    <3>1. devOut \in Seq(Message)
      BY <1>1 DEF TypeOK
    <3>2. /\ devOut # << >> => Head(devOut) \notin { "S", "D" }
          /\ chanMask = {}
      BY <1>1, <3>1, HasTail DEF NothingRuns, NothingLate
    <3> QED BY <1>1, <3>2 DEF AddrInv, Underway
  <2>2. ready' \subseteq ready
    BY <1>10 DEF DeviceWorker, RcvStart, RcvIdent, RcvScopeStatus, RcvScopeOffset, RcvScopeAddr,
       RcvScopeData, RcvDigitalRead, RcvInterrupt, Received, ReturnOrGoOn, Return,
       RcvScopeDataFails, RcvDigitalEventFails, Fail
  <2> QED BY <1>2, <1>10, <2>1, <2>2, PromptReceiver, DeviceFrame
<1>11. ASSUME Other PROVE QuitInv'
  <2>1. UNCHANGED << out, prog >>
    BY <1>11, OtherFrame
  <2>2. /\ quit' = quit
        /\ ready' \subseteq ready \/ (pc = "loop" /\ pc' = "loop" /\ ~quit)
        /\ pc' = "exited" => pc = "exited" \/ quit
        /\ pc' = pc \/ pc' = "failed" \/ (pc = "loop" /\ pc' = "exited")
    BY <1>11, OthersQuit, OtherFrame
  <2> QED BY <2>1, <2>2 DEF QuitInv
<1> QED BY <1>4, <1>5, <1>6, <1>7, <1>8, <1>9, <1>10, <1>11, Cases

----------------------------------------------------------------------------
(* The end of the stream is the last of the lines that are left.           *)
LEMMA EndStaysLast ==
  ASSUME NEW all \in Seq(Program), EndIsLast(all)
  PROVE  /\ all # << >> => EndIsLast(Tail(all)) /\ (IsOpen(all) => IsOpen(Tail(all)))
         /\ all # << >> /\ Head(all) = EndOfFile => Tail(all) = << >>
<1>1. ASSUME all # << >> PROVE EndIsLast(Tail(all)) /\ (IsOpen(all) => IsOpen(Tail(all)))
  <2>1. /\ Len(all) \in Nat /\ Len(Tail(all)) = Len(all) - 1
        /\ \A i \in 1..Len(Tail(all)) : i + 1 \in 1..Len(all) /\ Tail(all)[i] = all[i + 1]
    BY <1>1
  <2>2. ASSUME NEW i \in 1..Len(Tail(all)), Tail(all)[i] = EndOfFile
        PROVE  i = Len(Tail(all))
    <3>1. i + 1 = Len(all)
      BY <2>1, <2>2 DEF EndIsLast
    <3> QED BY <2>1, <3>1
  <2>3. IsOpen(all) => IsOpen(Tail(all))
    BY <2>1, Zenon DEF IsOpen
  <2> QED BY <2>2, <2>3 DEF EndIsLast
<1>2. ASSUME all # << >>, Head(all) = EndOfFile PROVE Tail(all) = << >>
  <2>1. 1 \in 1..Len(all) /\ all[1] = EndOfFile /\ Len(all) \in Nat
    BY <1>2
  <2>2. Len(all) = 1
    BY <2>1 DEF EndIsLast
  <2>3. Tail(all) \in Seq(Program) /\ Len(Tail(all)) = 0
    BY <1>2, <2>2
  <2> QED BY <2>3, EmptySeq
<1> QED BY <1>1, <1>2

LEMMA EndIsSent ==
  ASSUME NEW all \in Seq(Program), NEW p \in Program, IsOpen(all)
  PROVE  EndIsLast(Append(all, p)) /\ (p # EndOfFile => IsOpen(Append(all, p)))
<1>1. /\ Len(all) \in Nat /\ Len(Append(all, p)) = Len(all) + 1
      /\ \A i \in 1..Len(all) + 1 :
           Append(all, p)[i] = IF i = Len(all) + 1 THEN p ELSE all[i]
      /\ \A i \in 1..Len(all) + 1 : i # Len(all) + 1 => i \in 1..Len(all)
  OBVIOUS
<1>2. \A i \in 1..Len(all) + 1 : i # Len(all) + 1 => Append(all, p)[i] # EndOfFile
  BY <1>1 DEF IsOpen
<1>3. p # EndOfFile => \A i \in 1..Len(all) + 1 : Append(all, p)[i] # EndOfFile
  BY <1>1, <1>2
<1> QED BY <1>1, <1>2, <1>3, Zenon DEF EndIsLast, IsOpen

LEMMA ClientCounts ==
  ASSUME TypeOK, Client, nsent \in Nat
  PROVE  /\ lines' = lines /\ nsent' \in Nat /\ nsent <= MaxLines
         /\ \/ nsent' <= MaxLines /\ \E p \in Lines : stdin' = Append(stdin, p)
            \/ nsent' > MaxLines /\ stdin' = Append(stdin, EndOfFile)
<1>1. MaxLines \in Nat
  BY ConstantsAssumption
<1>2. CASE ClientCloses
  BY <1>1, <1>2 DEF ClientCloses, clientFrame, inputVars
<1>3. CASE \E line \in Lines : ClientSends(line)
  <2>1. PICK line \in Lines : ClientSends(line)
    BY <1>3
  <2> QED BY <1>1, <2>1 DEF ClientSends, clientFrame, inputVars
<1> QED BY <1>2, <1>3 DEF Client

LEMMA StreamStep ==
  ASSUME IInv, StreamEnds, [Next]_vars PROVE StreamEnds'
<1>1. TypeOK /\ Underway
  BY DEF IInv
<1>2. PICK all : all = lines \o stdin
  OBVIOUS
<1>3. lines \in Seq(Program) /\ stdin \in Seq(Program)
  BY <1>1, LinesLeftTyped
<1>4. all \in Seq(Program) /\ nsent \in Nat
  BY <1>2, <1>3 DEF StreamEnds
<1>5. EndIsLast(all) /\ (nsent <= MaxLines => IsOpen(all))
  BY <1>2 DEF StreamEnds
<1>6. ASSUME nsent' = nsent, lines' \o stdin' = all PROVE StreamEnds'
  BY <1>4, <1>5, <1>6 DEF StreamEnds
<1>7. ASSUME nsent' = nsent, UNCHANGED << lines, stdin >> PROVE StreamEnds'
  BY <1>2, <1>6, <1>7
<1>8. ASSUME nsent' = nsent, stdin' = stdin, lines # << >>, lines' = Tail(lines)
      PROVE  StreamEnds'
  <2>1. all # << >> /\ Tail(all) = lines' \o stdin'
    BY <1>2, <1>3, <1>8, FirstOfBoth
  <2>2. EndIsLast(Tail(all)) /\ (nsent <= MaxLines => IsOpen(Tail(all)))
    BY <1>4, <1>5, <2>1, EndStaysLast
  <2> QED BY <1>4, <1>8, <2>1, <2>2 DEF StreamEnds
<1>9. CASE Handler
  BY <1>7, <1>9, HandlerFrame DEF clientVars
<1>10. CASE LineDone
  <2>1. /\ pc = "exec" /\ nsent' = nsent /\ stdin' = stdin
        /\ lines' = lines \/ lines' = Tail(lines)
    BY <1>10 DEF LineDone, clientVars
  <2>2. lines # << >>
    BY <1>1, <2>1 DEF Underway
  <2> QED BY <1>7, <1>8, <2>1, <2>2
<1>11. CASE ProcessLine \/ ProcessNoLine
  <2>1. Event("PROCESS_LINE") /\ lines' = lines
    BY <1>11 DEF ProcessLine, ProcessNoLine, lineState
  <2> QED BY <1>7, <2>1 DEF Event
<1>12. CASE ProcessEmptyLine
  <2>1. Event("PROCESS_LINE") /\ lines # << >> /\ lines' = Tail(lines)
    BY <1>12 DEF ProcessEmptyLine
  <2> QED BY <1>8, <2>1 DEF Event
<1>13. ASSUME PlainEvent PROVE StreamEnds'
  BY <1>7, <1>13, PlainEventFrame, EventKeeps
<1>14. CASE CliRead
  <2>1. nsent' = nsent /\ lines = << >>
    BY <1>14 DEF CliRead, stdinFrame
  <2>2. lines' \o stdin' = stdin
    <3>1. PICK n \in 1..Len(stdin) : /\ lines' = SubSeq(stdin, 1, n)
                                     /\ stdin' = SubSeq(stdin, n + 1, Len(stdin))
      BY <1>14 DEF CliRead
    <3>2. /\ SubSeq(stdin, 1, Len(stdin)) = stdin
          /\ SubSeq(stdin, 1, n) \o SubSeq(stdin, n + 1, Len(stdin))
               = SubSeq(stdin, 1, Len(stdin))
      BY <1>3, SubSeqFull, ConcatAdjacentSubSeq
    <3> QED BY <3>1, <3>2
  <2>3. << >> \o stdin = stdin
    BY <1>3
  <2> QED BY <1>2, <1>6, <2>1, <2>2, <2>3
<1>15. CASE DeviceWorker
  BY <1>7, <1>15, DeviceFrame, ReceiverKeeps
<1>16. ASSUME Other PROVE StreamEnds'
  <2>1. CASE Client
    <3>1. MaxLines \in Nat /\ EndOfFile \in Program
      BY ConstantsAssumption, LinesOfCommands DEF Program
    <3>2. \A p \in Lines : p \in Program /\ p # EndOfFile
      BY ConstantsAssumption, LinesOfCommands DEF Program, EndOfFile
    <3>3. /\ lines' = lines /\ nsent' \in Nat /\ nsent <= MaxLines
          /\ \/ nsent' <= MaxLines /\ \E p \in Lines : stdin' = Append(stdin, p)
             \/ nsent' > MaxLines /\ stdin' = Append(stdin, EndOfFile)
      BY <1>1, <1>4, <2>1, ClientCounts
    <3>4. PICK p \in Program : /\ stdin' = Append(stdin, p)
                               /\ nsent' <= MaxLines => p # EndOfFile
      BY <3>1, <3>2, <3>3
    <3>5. lines' \o stdin' = Append(all, p)
      BY <1>2, <1>3, <3>3, <3>4
    <3>6. EndIsLast(Append(all, p)) /\ (nsent' <= MaxLines => IsOpen(Append(all, p)))
      BY <1>4, <1>5, <3>3, <3>4, EndIsSent, Zenon
    <3> QED BY <3>3, <3>5, <3>6 DEF StreamEnds
  <2>2. CASE ~Client
    BY <1>7, <1>16, <2>2, OtherFrame, OthersKeep
  <2> QED BY <2>1, <2>2
<1> QED BY <1>9, <1>10, <1>11, <1>12, <1>13, <1>14, <1>15, <1>16, Cases

LEMMA EndInit == ASSUME Init PROVE QuitInv /\ StreamEnds /\ LinesFrom(QuietPrograms)
<1>1. /\ pc = "loop" /\ lines = << >> /\ stdin = << >> /\ out = << >> /\ quit = FALSE
      /\ ready = {} /\ nsent = 0
  BY DEF Init
<1>2. lines \o stdin = << >>
  BY <1>1
<1> QED BY <1>1, <1>2 DEF QuitInv, StreamEnds, EndIsLast, IsOpen, LinesFrom

(* For every client whose queries are answered on their line and which     *)
(* asks for nothing on a line on which it quits, and no SIGINT: the server *)
(* ends at the end of the client's stream only when the client has all     *)
(* the answers it asked for, however many lines were sent ahead of the     *)
(* end (parser.c, server.c).                                               *)
THEOREM AnswersBeforeTheEnd ==
  ASSUME Signals = {}, AnsweredAtOnce(Lines), AsksForNoRecord(Lines), QuitsSilently(Lines)
  PROVE  Safe => []AnsweredBeforeExit
<1>1. Safe => []RestfulInv
  BY PromptStartsNothing, RestfulAlways
<1>2. Lines \subseteq QuietPrograms /\ EndOfFile \in QuietPrograms
  BY QuietLines
<1>3. Init => QuitInv /\ StreamEnds /\ LinesFrom(QuietPrograms)
  BY EndInit
<1>4. ASSUME IInv, RestfulInv, PromptInv, Runs(Answered), PromisedInv, QuitInv, StreamEnds,
             LinesFrom(QuietPrograms), [Next]_vars
      PROVE  QuitInv' /\ StreamEnds' /\ LinesFrom(QuietPrograms)'
  <2>1. Underway /\ ~overlapped
    BY <1>4 DEF IInv, PromisedInv
  <2>2. QuitInv' /\ StreamEnds'
    BY <1>4, <2>1, QuitStep, StreamStep
  <2>3. LinesFrom(QuietPrograms)'
    BY <1>2, <1>4, <2>1, LinesStep, Zenon
  <2> QED BY <2>2, <2>3
<1>5. IInv /\ PromisedInv /\ QuitInv /\ StreamEnds => AnsweredBeforeExit
  <2> SUFFICES ASSUME IInv, PromisedInv, QuitInv, StreamEnds, pc = "exited", lines # << >>,
                      Head(lines) = EndOfFile
               PROVE  received = asked
    BY DEF AnsweredBeforeExit
  <2>1. out = << >> /\ Promised /\ TypeOK /\ Underway
    BY DEF QuitInv, PromisedInv, IInv
  <2>2. PICK all : all = lines \o stdin
    OBVIOUS
  <2>3. all \in Seq(Program) /\ all # << >> /\ Head(all) = EndOfFile
    BY <2>1, <2>2, LinesLeftTyped, FirstOfBoth
  <2>4. Tail(all) = << >>
    <3>1. EndIsLast(all)
      BY <2>2 DEF StreamEnds
    <3> QED BY <2>3, <3>1, EndStaysLast
  <2>5. PICK owed : AreOwed(owed, all) /\ asked = Total(received, << >>, << >>, owed)
    BY <2>1, <2>2 DEF Promised, LinesLeft, AnswersOfLine
  <2>6. PICK more : AreOwed(more, Tail(all)) /\ owed = AnswersTo(Head(all)) \o more
    BY <2>3, <2>5, OwedFirst
  <2>7. more = << >>
    BY <2>4, <2>6, NothingOwed
  <2>8. owed = << >>
    BY <2>3, <2>6, <2>7, AnswersToEnd
  <2>9. received \in Seq(Answer)
    BY <2>1 DEF TypeOK
  <2> QED BY <2>5, <2>8, <2>9 DEF Total
<1> QED BY <1>1, <1>3, <1>4, <1>5, PromisedAlways, PromptAlways, Invariance, PTL DEF Safe
=============================================================================
