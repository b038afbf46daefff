-------------------------- MODULE Generator_proofs --------------------------
(***************************************************************************)
(* Proofs about the signal sources: for every size of the table, every     *)
(* list and every number in it, the program fails only on numbers that are *)
(* out of range, lists of two numbers and more are in their pool, masks    *)
(* have the channels that were named, and what is answered is what the     *)
(* device was told.                                                        *)
(***************************************************************************)
EXTENDS Generator, SequenceTheorems, WellFoundedInduction, TLAPS

----------------------------------------------------------------------------
(* What floored division and its remainder are.                            *)
LEMMA Division ==
  ASSUME NEW a \in Int, NEW b \in Nat \ {0}
  PROVE  /\ a \div b \in Int /\ a % b \in 0..b-1
         /\ a = b * (a \div b) + (a % b)
  BY SMT

(* A bound on a quotient from one on the dividend.                         *)
LEMMA QuotientBelow ==
  ASSUME NEW a \in Int, NEW b \in Nat \ {0}, NEW m \in Int, a < b * m
  PROVE  a \div b < m
<1> DEFINE q == a \div b
           r == a % b
<1>1. q \in Int /\ r \in 0..b-1 /\ a = b * q + r
  BY Division
<1>2. b * q < b * m
  BY <1>1, SMT
<1>3. ASSUME q >= m PROVE FALSE
  <2> HIDE DEF q
  <2>1. b * q >= b * m
    BY <1>1, <1>3, SMT
  <2> QED BY <2>1, <1>2, <1>1, SMT
<1> QED BY <1>1, <1>3, SMT

LEMMA QuotientAbove ==
  ASSUME NEW a \in Int, NEW b \in Nat \ {0}, NEW m \in Int, b * m <= a
  PROVE  m <= a \div b
<1> DEFINE q == a \div b
           r == a % b
<1>1. q \in Int /\ r \in 0..b-1 /\ a = b * q + r
  BY Division
<1>2. b * m < b * (q + 1)
  BY <1>1, SMT
<1>3. ASSUME q + 1 <= m PROVE FALSE
  <2> HIDE DEF q
  <2>1. b * (q + 1) <= b * m
    BY <1>1, <1>3, SMT
  <2> QED BY <2>1, <1>2, <1>1, SMT
<1> QED BY <1>1, <1>3, SMT

(* A sample in range has a code that is a byte.                            *)
LEMMA ConvByte ==
  ASSUME NEW v \in Int, - (Unit * Steps) <= v, v <= Unit * Steps
  PROVE  Conv(v) \in 0..255
<1> DEFINE s == Unit * Steps
<1>1. s \in Nat \ {0}
  BY TableSizes, SMT
<1>2. 2 * Unit * Steps = 2 * s
  BY TableSizes, SMT
<1> HIDE DEF s
<1>3. - s <= v /\ v <= s
  BY DEF s
<1>4. (-255 * v) \div (2 * s) < 128
  <2>1. -255 * v < (2 * s) * 128
    BY <1>1, <1>3, SMT
  <2> QED BY <2>1, <1>1, QuotientBelow
<1>5. -128 <= (-255 * v) \div (2 * s)
  <2>1. (2 * s) * (-128) <= -255 * v
    BY <1>1, <1>3, SMT
  <2> QED BY <2>1, <1>1, QuotientAbove
<1>6. (-255 * v) \div (2 * s) \in Int
  BY <1>1, Division
<1> QED BY <1>2, <1>4, <1>5, <1>6 DEF Conv

(* The average of two numbers in a range, however weighted, is in it.      *)
LEMMA Weighted ==
  ASSUME NEW n \in Nat, NEW u \in Nat, NEW x \in -u..u, NEW y \in -u..u, NEW f \in 0..n
  PROVE  /\ x * n + (y - x) * f \in Int
         /\ - (u * n) <= x * n + (y - x) * f
         /\ x * n + (y - x) * f <= u * n
<1>1. x * n + (y - x) * f = x * (n - f) + y * f
  BY SMT
<1>2. - (u * (n - f)) <= x * (n - f) /\ x * (n - f) <= u * (n - f)
  <2>1. n - f \in Nat
    BY SMT
  <2> QED BY <2>1, SMT
<1>3. - (u * f) <= y * f /\ y * f <= u * f
  BY SMT
<1>4. u * (n - f) + u * f = u * n
  BY SMT
<1> QED BY <1>1, <1>2, <1>3, <1>4, SMT

(* The phase of a sample, in segments, is before the end of the last one.  *)
LEMMA PhaseInSegments ==
  ASSUME NEW s \in Nat \ {0}, NEW m \in Nat \ {0}, NEW i \in 0..s-1
  PROVE  (i * m) \div s \in 0..m-1 /\ (i * m) % s \in 0..s-1
<1>1. i * m \in Int /\ i * m < s * m /\ s * 0 <= i * m
  <2>1. (i + 1) * m <= s * m
    <3>1. i + 1 <= s /\ i + 1 \in Nat
      BY SMT
    <3> QED BY <3>1, SMT
  <2>2. (i + 1) * m = i * m + m
    BY SMT
  <2>3. i * m \in Nat /\ s * m \in Nat
    BY SMT
  <2> QED BY <2>1, <2>2, <2>3, SMT
<1> DEFINE a == i * m
<1> HIDE DEF a
<1>2. a \in Int /\ a < s * m /\ s * 0 <= a
  BY <1>1 DEF a
<1>3. a \div s < m
  BY <1>2, QuotientBelow
<1>4. 0 <= a \div s
  BY <1>2, QuotientAbove
<1>5. a \div s \in Int /\ a % s \in 0..s-1
  BY <1>2, Division
<1> QED BY <1>3, <1>4, <1>5, SMT DEF a

(* The line through points in range stays in range, and never leaves the   *)
(* list: cgr101_fn_interp().                                               *)
LEMMA InterpolateWithin ==
  ASSUME NEW data \in Seq(Int), Len(data) > 1,
         \A k \in 1..Len(data) : data[k] \in -Unit..Unit,
         NEW i \in 0..Steps-1
  PROVE  /\ Interpolate(data, i) \in Int
         /\ - (Unit * Steps) <= Interpolate(data, i)
         /\ Interpolate(data, i) <= Unit * Steps
<1> DEFINE m == Len(data) - 1
           k == (i * m) \div Steps
           f == (i * m) % Steps
<1>1. m \in Nat \ {0}
  BY LenProperties, SMT
<1>2. k \in 0..m-1 /\ f \in 0..Steps-1
  <2> HIDE DEF m
  <2> QED BY <1>1, TableSizes, PhaseInSegments
<1>3. data[k+1] \in -Unit..Unit /\ data[k+2] \in -Unit..Unit
  <2> HIDE DEF k
  <2>1. k + 1 \in 1..Len(data) /\ k + 2 \in 1..Len(data)
    BY <1>1, <1>2, LenProperties, SMT
  <2> QED BY <2>1
<1>4. Interpolate(data, i) = data[k+1] * Steps + (data[k+2] - data[k+1]) * f
  BY DEF Interpolate
<1>5. f \in 0..Steps
  BY <1>2, TableSizes, SMT
<1> HIDE DEF k, f
<1> QED BY <1>3, <1>4, <1>5, TableSizes, Weighted

(* The table of a list of numbers in range is in range.                    *)
LEMMA ListInByte ==
  ASSUME NEW data \in Seq(Int), Len(data) > 0,
         \A k \in 1..Len(data) : data[k] \in -Unit..Unit
  PROVE  InByte(OfList(data))
<1> SUFFICES ASSUME NEW i \in 0..Steps-1
             PROVE  Conv(Sample(OfList(data), i)) \in 0..255
  BY DEF InByte
<1> DEFINE v == Sample(OfList(data), i)
           Good(w) == w \in Int /\ - (Unit * Steps) <= w /\ w <= Unit * Steps
<1>1. v = IF Len(data) = 1 THEN Steps * data[1] ELSE Interpolate(data, i)
  BY DEF Sample, OfList
<1>2. CASE Len(data) = 1
  <2>1. data[1] \in -Unit..Unit
    BY <1>2, SMT
  <2>2. \A x \in -Unit..Unit : Good(Steps * x)
    BY TableSizes, SMT
  <2> HIDE DEF Good
  <2>3. Good(v)
    BY <1>1, <1>2, <2>1, <2>2
  <2> QED BY <2>3, ConvByte DEF Good
<1>3. CASE Len(data) # 1
  <2>1. Len(data) > 1
    BY <1>3, LenProperties, SMT
  <2>2. Good(Interpolate(data, i))
    BY <2>1, InterpolateWithin
  <2> HIDE DEF Good
  <2>3. Good(v)
    BY <1>1, <1>3, <2>2
  <2> QED BY <2>3, ConvByte DEF Good
<1> QED BY <1>2, <1>3

(* So are the tables of the shapes: cgr101_fn_sin() and the like.          *)
LEMMA ShapeInByte ==
  ASSUME NEW name \in { "NONE", "SIN", "SQU", "TRI" }
  PROVE  InByte(Of(name))
<1> SUFFICES ASSUME NEW i \in 0..Steps-1
             PROVE  Conv(Sample(Of(name), i)) \in 0..255
  BY DEF InByte
<1> DEFINE Good(w) == w \in Int /\ - (Unit * Steps) <= w /\ w <= Unit * Steps
<1>1. Good(0) /\ \A x \in -Unit..Unit : Good(Steps * x)
  BY TableSizes, SMT
<1>2. Sine[i] \in -Unit..Unit
  BY TableAssumption
<1>3. Square(i) \in -Unit..Unit
  BY TableSizes, SMT DEF Square
<1>4. Triangle(i) \in -Unit..Unit
  <2> DEFINE q == (4 * Unit) \div Steps
  <2>1. q \in Int /\ 4 * Unit = Steps * q
    <3>1. 4 * Unit \in Int
      BY TableSizes, SMT
    <3>2. /\ q \in Int /\ (4 * Unit) % Steps = 0
          /\ 4 * Unit = Steps * q + ((4 * Unit) % Steps)
      BY <3>1, TableSizes, TableAssumption, Division
    <3> HIDE DEF q
    <3> QED BY <3>1, <3>2, TableSizes, SMT
  <2>2. 0 <= i * q /\ i * q <= Steps * q /\ i * q \in Int
    <3> HIDE DEF q
    <3>1. q > 0
      <4> SUFFICES ASSUME q <= 0 PROVE FALSE
        BY <2>1, SMT
      <4>1. Steps * q <= 0
        BY <2>1, TableSizes, SMT
      <4> QED BY <4>1, <2>1, TableSizes, SMT
    <3>2. i \in Nat /\ i <= Steps
      BY TableSizes, SMT
    <3> QED BY <2>1, <3>1, <3>2, TableSizes, SMT
  <2>3. Triangle(i) = IF i * q < 2 * Unit THEN i * q - Unit ELSE 3 * Unit - i * q
    BY DEF Triangle
  <2> DEFINE phase == i * q
  <2>4. phase \in Int /\ 0 <= phase /\ phase <= 4 * Unit
    <3> HIDE DEF q
    <3> QED BY <2>1, <2>2
  <2> HIDE DEF phase, q
  <2>5. (IF phase < 2 * Unit THEN phase - Unit ELSE 3 * Unit - phase) \in -Unit..Unit
    BY <2>4, TableSizes, SMT
  <2> QED BY <2>3, <2>5 DEF phase
<1> HIDE DEF Good
<1>5. Good(Sample(Of(name), i))
  BY <1>1, <1>2, <1>3, <1>4 DEF Sample, Of
<1> QED BY <1>5, ConvByte DEF Good

----------------------------------------------------------------------------
(* The inductive invariant: what is read is a list of numbers, and the one *)
(* that failed to be programmed is not in range.                           *)
Inductive ==
  /\ list \in Seq(Int)
  /\ failed = "cgr101_waveform_program" =>
       \E data \in Seq(Int) : user = OfList(data) /\ Len(data) > 0 /\ ~InByte(OfList(data))

LEMMA InductiveExplains == ASSUME Inductive PROVE FailsOnlyOutOfRange
<1> SUFFICES ASSUME failed = "cgr101_waveform_program"
             PROVE  \E k \in 1..Len(user.data) : user.data[k] \notin -Unit..Unit
  BY DEF FailsOnlyOutOfRange
<1>1. PICK data \in Seq(Int) : user = OfList(data) /\ Len(data) > 0 /\ ~InByte(OfList(data))
  BY DEF Inductive
<1>2. user.data = data
  BY <1>1 DEF OfList
<1>3. ~ \A k \in 1..Len(data) : data[k] \in -Unit..Unit
  BY <1>1, ListInByte
<1> QED BY <1>2, <1>3

(* A step that reads, or drops, program data.                              *)
LEMMA ListStep ==
  ASSUME list \in Seq(Int), ListNext
  PROVE  /\ list' \in Seq(Int)
         /\ failed' = "cgr101_waveform_program" => failed = "cgr101_waveform_program"
<1>1. ASSUME NEW v \in Value, FirstNumber(v)
      PROVE  /\ list' \in Seq(Int)
             /\ failed' = "cgr101_waveform_program" => failed = "cgr101_waveform_program"
  <2>1. list' = << v >> /\ v \in Int /\ list = << >> /\ UNCHANGED << pool, failed >>
    BY <1>1, IntegerValues DEF FirstNumber, Reading
  <2>2. list' \in Seq(Int)
    BY <2>1
  <2> QED BY <2>1, <2>2
<1>2. ASSUME NEW v \in Value, NextNumber(v)
      PROVE  /\ list' \in Seq(Int)
             /\ failed' = "cgr101_waveform_program" => failed = "cgr101_waveform_program"
  <2>1. CASE Fail("scpi_core_nrf_list")
    BY <2>1 DEF Fail
  <2>2. CASE ~Fail("scpi_core_nrf_list")
    <3>1. list' = Append(list, v) /\ v \in Int /\ failed' = failed
      BY <1>2, <2>2, IntegerValues DEF NextNumber
    <3>2. list' \in Seq(Int)
      BY <3>1, AppendProperties
    <3> QED BY <3>1, <3>2
  <2> QED BY <2>1, <2>2
<1>3. ASSUME UNCHANGED << list, pool >>, failed' \in { failed, "scpi_dev_chan",
               "scpi_dev_channel_range", "scpi_dev_channel_range_append" }
      PROVE  /\ list' \in Seq(Int)
             /\ failed' = "cgr101_waveform_program" => failed = "cgr101_waveform_program"
  BY <1>3
<1>4. ASSUME NEW n \in Number, Channel(n)
      PROVE  /\ list' \in Seq(Int)
             /\ failed' = "cgr101_waveform_program" => failed = "cgr101_waveform_program"
  BY <1>4, <1>3 DEF Channel, AppendMask, Fail
<1>5. ASSUME NEW n \in Number, NEW m \in Number, ChannelRange(n, m)
      PROVE  /\ list' \in Seq(Int)
             /\ failed' = "cgr101_waveform_program" => failed = "cgr101_waveform_program"
  BY <1>5, <1>3 DEF ChannelRange, AppendMask, Fail
<1>6. ASSUME NothingRead, failed' = failed
      PROVE  /\ list' \in Seq(Int)
             /\ failed' = "cgr101_waveform_program" => failed = "cgr101_waveform_program"
  BY <1>6 DEF NothingRead
<1>7. CASE ChannelsEnd
  <2>1. CASE Fail("scpi_dev_chan")
    BY <2>1, <1>3 DEF Fail
  <2>2. CASE ~Fail("scpi_dev_chan")
    BY <1>7, <2>2, <1>6 DEF ChannelsEnd
  <2> QED BY <2>1, <2>2
<1>8. CASE LineEnds
  <2>1. UNCHANGED list /\ failed' \in { failed, "scpi_core_top" }
    BY <1>8 DEF LineEnds
  <2> QED BY <2>1
<1>9. CASE SyntaxError
  BY <1>9, <1>6 DEF SyntaxError
<1> QED BY <1>1, <1>2, <1>4, <1>5, <1>7, <1>8, <1>9 DEF ListNext

LEMMA EmptyListed ==
  << >> \in Seq(Int)
  OBVIOUS

LEMMA NonEmptyLength ==
  ASSUME NEW s \in Seq(Int), s # << >>
  PROVE  Len(s) > 0
  BY EmptySeq, LenProperties, SMT

(* A command that leaves the lists alone.                                  *)
LEMMA PlainStep ==
  ASSUME Inductive, UNCHANGED << list, pool >>,
         \/ failed' = failed /\ failed = ""
         \/ failed' \in { "cgr101_waveform_lookup", "scpi_input_fp" }
         \/ UNCHANGED << user, failed >>
  PROVE  Inductive'
  BY DEF Inductive

(* SOURce:FUNCtion:USER                                                    *)
LEMMA UserStep ==
  ASSUME Inductive, FunctionUser
  PROVE  Inductive'
<1>1. list # << >> /\ list \in Seq(Int) /\ failed = ""
  BY DEF Inductive, FunctionUser, Command
<1>2. Len(list) > 0
  BY <1>1, NonEmptyLength
<1>3. CASE Len(list) > Steps
  BY <1>3 DEF FunctionUser, Fail, Inductive
<1>4. CASE ~(Len(list) > Steps) /\ InByte(user')
  <2>1. list' = << >> /\ failed' = ""
    BY <1>1, <1>4 DEF FunctionUser, NothingRead
  <2>2. list' \in Seq(Int)
    BY <2>1, EmptyListed
  <2> QED BY <2>1, <2>2 DEF Inductive
<1>5. CASE ~(Len(list) > Steps) /\ ~InByte(user')
  <2>1. user' = OfList(list) /\ UNCHANGED << list, pool >>
    BY <1>5 DEF FunctionUser, Fail
  <2>2. ~InByte(OfList(list))
    BY <1>5, <2>1
  <2> QED BY <1>1, <1>2, <2>1, <2>2 DEF Inductive
<1> QED BY <1>3, <1>4, <1>5

LEMMA InductiveHolds == Spec => []Inductive
<1>1. GeneratorInit => Inductive
  <2> SUFFICES ASSUME GeneratorInit PROVE Inductive
    OBVIOUS
  <2>1. list = << >> /\ failed = ""
    BY DEF GeneratorInit, ListInit
  <2>2. list \in Seq(Int)
    BY <2>1, EmptyListed
  <2> QED BY <2>1, <2>2 DEF Inductive
<1>2. Inductive /\ [GeneratorNext]_vars => Inductive'
  <2> SUFFICES ASSUME Inductive, [GeneratorNext]_vars PROVE Inductive'
    OBVIOUS
  <2> DEFINE Still == /\ UNCHANGED << list, pool >>
                      /\ \/ failed' = failed /\ failed = ""
                         \/ failed' \in { "cgr101_waveform_lookup", "scpi_input_fp" }
                         \/ UNCHANGED << user, failed >>
  <2>1. CASE ListNext /\ UNCHANGED << settings, told, asked, commands >>
    <3>1. /\ list' \in Seq(Int)
          /\ failed' = "cgr101_waveform_program" => failed = "cgr101_waveform_program"
      BY <2>1, ListStep DEF Inductive
    <3>2. user' = user
      BY <2>1 DEF settings
    <3> QED BY <3>1, <3>2 DEF Inductive
  <2>2. CASE \E name \in Shape : Function(name)
    <3>1. Still
      BY <2>2 DEF Function, Plain, Command, listVars
    <3> QED BY <3>1, PlainStep
  <2>3. CASE FunctionNone
    <3>1. Still
      BY <2>3 DEF FunctionNone, Plain, Command, listVars
    <3> QED BY <3>1, PlainStep
  <2>4. CASE FunctionUser
    BY <2>4, UserStep
  <2>5. CASE \E name \in LongForm : FunctionUnknown(name)
    <3>1. Still
      BY <2>5 DEF FunctionUnknown, Fail
    <3> QED BY <3>1, PlainStep
  <2>6. CASE \E v \in Level : FunctionLevel(v) \/ PulseDuty(v)
    <3>1. Still
      BY <2>6 DEF FunctionLevel, PulseDuty, Plain, Command, listVars
    <3> QED BY <3>1, PlainStep
  <2>7. CASE \E v \in Frequency : WaveFrequency(v) \/ PulseFrequency(v)
    <3>1. Still
      BY <2>7 DEF WaveFrequency, PulseFrequency, Plain, Command, listVars
    <3> QED BY <3>1, PlainStep
  <2>8. CASE PulseDutyBack
    <3>1. Still
      BY <2>8 DEF PulseDutyBack, listVars
    <3> QED BY <3>1, PlainStep
  <2>9. CASE SymbolicValue
    <3>1. Still
      BY <2>9 DEF SymbolicValue, Fail
    <3> QED BY <3>1, PlainStep
  <2>10. CASE \E n \in Byte : DigitalData(n)
    <3>1. Still
      BY <2>10 DEF DigitalData, Plain, Command, listVars
    <3> QED BY <3>1, PlainStep
  <2>11. CASE UNCHANGED vars
    <3>1. Still
      BY <2>11 DEF vars, listVars, settings
    <3> QED BY <3>1, PlainStep
  <2> QED BY <2>1, <2>2, <2>3, <2>4, <2>5, <2>6, <2>7, <2>8, <2>9, <2>10, <2>11 DEF GeneratorNext
<1> QED BY <1>1, <1>2, PTL DEF Spec

(* For every size of the table and of the lists, and every number in them, *)
(* a table is refused only for a number that is out of range, and no       *)
(* interpolated value is (cgr101_waveform_program).                        *)
THEOREM ListsPlayable == Spec => []FailsOnlyOutOfRange
<1>1. Inductive => FailsOnlyOutOfRange
  BY InductiveExplains
<1> QED BY <1>1, InductiveHolds, PTL

(* The shapes of the server's own never fail to be programmed.             *)
THEOREM ShapesPlayable ==
  \A name \in Shape \ {"RAND"} : InByte(Of(name))
<1> SUFFICES ASSUME NEW name \in { "NONE", "SIN", "SQU", "TRI" } PROVE InByte(Of(name))
  BY DEF Shape
<1> QED BY ShapeInByte

----------------------------------------------------------------------------
(* Least elements.                                                         *)
LEMMA Order ==
  /\ \A a \in Int : a <= a
  /\ \A a, b \in Int : ~(a <= b) => b <= a
  /\ \A a, b, c \in Int : a <= b /\ (a <= c \/ b <= c) => a <= c
BY SMT

LEMMA LeastOf ==
  ASSUME NEW S \in SUBSET Int, NEW m \in S, \A n \in S : m <= n
  PROVE  Min(S) = m
<1>1. Min(S) \in S /\ \A n \in S : Min(S) <= n
  BY DEF Min
<1>2. Min(S) <= m /\ m <= Min(S) /\ Min(S) \in Int /\ m \in Int
  BY <1>1
<1> DEFINE x == Min(S)
<1> HIDE DEF x
<1>3. x <= m /\ m <= x /\ x \in Int /\ m \in Int
  BY <1>2 DEF x
<1>4. x = m
  BY <1>3, SMT
<1> QED BY <1>4 DEF x

LEMMA PairBounds ==
  ASSUME NEW a \in Int, NEW b \in Int
  PROVE  /\ Min({a, b}) = IF a <= b THEN a ELSE b
         /\ Max({a, b}) = IF a <= b THEN b ELSE a
<1>1. Min({a, b}) = IF a <= b THEN a ELSE b
  <2>1. CASE a <= b
    BY <2>1, LeastOf, SMT
  <2>2. CASE ~(a <= b)
    BY <2>2, LeastOf, SMT
  <2> QED BY <2>1, <2>2
<1>2. Max({a, b}) \in {a, b} /\ \A n \in {a, b} : Max({a, b}) >= n
  <2>1. \E x \in {a, b} : \A n \in {a, b} : x >= n
    BY SMT
  <2> QED BY <2>1 DEF Max
<1> QED BY <1>1, <1>2, SMT

----------------------------------------------------------------------------
(* The lowest of the channels that were named is in the mask.              *)
Named ==
  failed = "" =>
    /\ named \subseteq Int /\ mask \subseteq named
    /\ mask # {} => \E m \in mask : \A n \in named : m <= n

LEMMA AppendStep ==
  ASSUME Named, failed = "", NEW v, NEW numbers, AppendMask(v, numbers),
         numbers \subseteq Int, v \subseteq numbers,
         v # {} => \E m \in v : \A n \in numbers : m <= n
  PROVE  Named'
<1>1. CASE named # {} /\ (mask = {} \/ v = {})
  BY <1>1 DEF AppendMask, Fail, Named
<1>2. CASE ~(named # {} /\ (mask = {} \/ v = {}))
  <2>1. mask' = mask \cup v /\ named' = named \cup numbers
    BY <1>2 DEF AppendMask
  <2>2. named' \subseteq Int /\ mask' \subseteq named'
    BY <2>1 DEF Named
  <2>3. ASSUME mask' # {} PROVE \E m \in mask' : \A n \in named' : m <= n
    <3>1. CASE named = {}
      <4>1. mask' = v /\ named' = numbers
        BY <2>1, <3>1 DEF Named
      <4> QED BY <2>3, <4>1
    <3>2. CASE named # {}
      <4>1. PICK m1 \in mask : \A n \in named : m1 <= n
        BY <1>2, <3>2 DEF Named
      <4>2. PICK m2 \in v : \A n \in numbers : m2 <= n
        BY <1>2, <3>2
      <4>3. m1 \in Int /\ m2 \in Int
        BY DEF Named
      <4>4. CASE m1 <= m2
        <5>1. ASSUME NEW n \in named' PROVE m1 <= n
          <6>1. n \in Int /\ (m1 <= n \/ m2 <= n)
            BY <2>1, <2>2, <4>1, <4>2
          <6> QED BY <4>3, <4>4, <6>1, Order, Zenon
        <5> QED BY <2>1, <5>1
      <4>5. CASE ~(m1 <= m2)
        <5>1. ASSUME NEW n \in named' PROVE m2 <= n
          <6>1. n \in Int /\ (m1 <= n \/ m2 <= n)
            BY <2>1, <2>2, <4>1, <4>2
          <6> QED BY <4>3, <4>5, <6>1, Order, Zenon
        <5> QED BY <2>1, <5>1
      <4> QED BY <4>4, <4>5
    <3> QED BY <3>1, <3>2
  <2> QED BY <2>2, <2>3 DEF Named
<1> QED BY <1>1, <1>2

LEMMA ChannelStep ==
  ASSUME Named, NEW n \in Number, Channel(n)
  PROVE  Named'
<1>1. failed = "" /\ AppendMask(ChannelNum(n), {n}) /\ n \in Int
  BY ListBounds DEF Channel
<1>2. ChannelNum(n) = {} \/ ChannelNum(n) = {n}
  BY DEF ChannelNum
<1>3. n <= n
  BY <1>1, Order, Zenon
<1>4. ChannelNum(n) \subseteq {n} /\ {n} \subseteq Int
  BY <1>1, <1>2
<1>5. ChannelNum(n) # {} => \E m \in ChannelNum(n) : \A k \in {n} : m <= k
  BY <1>2, <1>3
<1> QED BY <1>1, <1>4, <1>5, AppendStep

LEMMA RangeStep ==
  ASSUME Named, NEW n \in Number, NEW m \in Number, ChannelRange(n, m)
  PROVE  Named'
<1> DEFINE v1 == ChannelNum(n)  v2 == ChannelNum(m)
<1>1. failed = "" /\ n \in Int /\ m \in Int
  BY ListBounds DEF ChannelRange
<1>2. CASE v1 = {} \/ v2 = {} \/ v1 = v2
  BY <1>2 DEF ChannelRange, Fail, Named
<1>3. CASE ~(v1 = {} \/ v2 = {} \/ v1 = v2)
  <2>1. v1 = {n} /\ v2 = {m} /\ n # m
    BY <1>3 DEF ChannelNum
  <2>2. AppendMask(RangeMask(v1, v2), Min({n, m}) .. Max({n, m}))
    BY <1>3 DEF ChannelRange
  <2>3. v1 \cup v2 = {n, m}
    BY <2>1
  <2> DEFINE lo == Min({n, m})  hi == Max({n, m})
  <2>4. lo \in Int /\ hi \in Int /\ lo < hi /\ n \in lo..hi
    <3>1. /\ lo = IF n <= m THEN n ELSE m
          /\ hi = IF n <= m THEN m ELSE n
      BY <1>1, PairBounds
    <3>2. n # m /\ n \in Int /\ m \in Int
      BY <1>1, <2>1
    <3> HIDE DEF lo, hi
    <3> QED BY <3>1, <3>2
  <2>5. RangeMask(v1, v2) = {n} \cup (lo .. hi - 1)
    BY <2>1, <2>3 DEF RangeMask
  <2> HIDE DEF lo, hi, v1, v2
  <2>6. RangeMask(v1, v2) \subseteq lo..hi /\ lo \in RangeMask(v1, v2)
    BY <2>4, <2>5, SMT
  <2>7. \A k \in lo..hi : lo <= k
    BY <2>4, SMT
  <2>8. lo..hi \subseteq Int
    BY <2>4, SMT
  <2>9. AppendMask(RangeMask(v1, v2), lo..hi)
    BY <2>2 DEF lo, hi
  <2> QED BY <1>1, <2>6, <2>7, <2>8, <2>9, AppendStep
<1> QED BY <1>2, <1>3

(* A step that leaves the channels alone, or drops them.                   *)
LEMMA NamedStep ==
  ASSUME Named,
         \/ UNCHANGED << mask, named >> /\ (failed' = "" => failed = "")
         \/ mask' = {} /\ named' = {}
  PROVE  Named'
BY DEF Named

LEMMA NamedNext == ASSUME Named, [GeneratorNext]_vars PROVE Named'
<1> USE DEF Fail
<1>1. CASE \E v \in Value : FirstNumber(v) \/ NextNumber(v)
  BY <1>1, NamedStep DEF FirstNumber, NextNumber
<1>2. CASE \E n \in Number : Channel(n)
  BY <1>2, ChannelStep
<1>3. CASE \E n, m \in Number : ChannelRange(n, m)
  BY <1>3, RangeStep
<1>4. CASE ChannelsEnd \/ SyntaxError \/ FunctionUser
  BY <1>4, NamedStep DEF ChannelsEnd, SyntaxError, FunctionUser, NothingRead
<1>5. CASE LineEnds
  BY <1>5, NamedStep DEF LineEnds
<1>6. ASSUME UNCHANGED listVars PROVE Named'
  BY <1>6, NamedStep DEF listVars
<1>7. CASE \E name \in Shape : Function(name)
  BY <1>6, <1>7 DEF Function, Plain
<1>8. CASE FunctionNone
  BY <1>6, <1>8 DEF FunctionNone, Plain
<1>9. CASE SymbolicValue \/ \E name \in LongForm : FunctionUnknown(name)
  BY <1>9, NamedStep DEF FunctionUnknown, SymbolicValue
<1>10. CASE \E v \in Level : FunctionLevel(v) \/ PulseDuty(v)
  BY <1>6, <1>10 DEF FunctionLevel, PulseDuty, Plain
<1>11. CASE \E v \in Frequency : WaveFrequency(v) \/ PulseFrequency(v)
  BY <1>6, <1>11 DEF WaveFrequency, PulseFrequency, Plain
<1>12. CASE PulseDutyBack
  BY <1>6, <1>12 DEF PulseDutyBack
<1>13. CASE \E n \in Byte : DigitalData(n)
  BY <1>6, <1>13 DEF DigitalData, Plain
<1>14. CASE UNCHANGED vars
  BY <1>6, <1>14 DEF vars
<1> QED BY <1>1, <1>2, <1>3, <1>4, <1>5, <1>7, <1>8, <1>9, <1>10, <1>11, <1>12,
           <1>13, <1>14 DEF GeneratorNext, ListNext

(* Whatever channels and ranges a client writes, in whatever order, the    *)
(* mask has none that was not named, and has the lowest that was           *)
(* (scpi_dev_channel_range and its append).                                *)
THEOREM MasksAreWithin == Spec => []MaskWithinNames
<1>1. GeneratorInit => Named
  BY DEF GeneratorInit, ListInit, Named
<1>2. Named => MaskWithinNames
  <2> SUFFICES ASSUME Named, failed = "", mask # {}
               PROVE  mask \subseteq named /\ Min(named) \in mask
    BY DEF MaskWithinNames
  <2>1. PICK m \in mask : \A n \in named : m <= n
    BY DEF Named
  <2>2. named \in SUBSET Int /\ m \in named
    BY DEF Named
  <2>3. Min(named) = m
    BY <2>1, <2>2, LeastOf
  <2> QED BY <2>3 DEF Named
<1> QED BY <1>1, <1>2, NamedNext, PTL DEF Spec

----------------------------------------------------------------------------
(* What the device has been told after it has been told something.         *)
LEMMA Telling ==
  ASSUME NEW what, NEW x, Tell(what, x)
  PROVE  /\ DOMAIN told' = { what } \cup DOMAIN told
         /\ told'[what] = x
         /\ \A y \in DOMAIN told : y # what => told'[y] = told[y]
BY DEF Tell

(* The index of a frequency is the end of the table, or that of a setting. *)
LEMMA IndexInTable ==
  ASSUME NEW v, ~(PwmIndex(v) < Len(PwmFreq) - 1)
  PROVE  PwmIndex(v) = Len(PwmFreq) - 1
<1> DEFINE n == Len(PwmFreq) - 1
           hit == { k \in 1..n : v <= PwmFreq[k] /\ v > PwmFreq[k+1] }
<1>1. PwmIndex(v) = IF hit = {} THEN n ELSE Min(hit) - 1
  BY DEF PwmIndex
<1>2. ASSUME hit # {} PROVE Min(hit) - 1 < n
  <2>1. hit \subseteq Nat
    OBVIOUS
  <2> HIDE DEF hit
  <2>2. PICK m \in hit : \A k \in hit : ~ (<<k, m>> \in OpToRel(<, Nat))
    BY <1>2, <2>1, NatLessThanWellFounded, WFMin
  <2>3. ASSUME NEW k \in hit PROVE m <= k
    <3>1. k \in Nat /\ m \in Nat /\ <<k, m>> \in Nat \X Nat
      BY <2>1
    <3>2. ~(k < m)
      BY <2>2, <3>1 DEF OpToRel
    <3> QED BY <3>1, <3>2, SMT
  <2>4. Min(hit) = m
    BY <2>1, <2>3, LeastOf
  <2>5. m \in 1..n
    BY DEF hit
  <2> QED BY <2>4, <2>5
<1> QED BY <1>1, <1>2

(* DeviceAgrees without its premise; Told is in two parts, by what can     *)
(* change it.                                                              *)
WaveAgrees ==
  /\ shape = "NONE" <=> "wave" \notin DOMAIN told
  /\ Told("wave", IF shape = "RAND" THEN Of("RAND") ELSE user)
  /\ shape # "RAND" => shape = user.from

OthersAgree ==
  /\ Told("amp", (255 * amplitude) \div Unit)
  /\ Told("duty", duty) /\ Told("digital", digital)
  /\ "pwm" \in DOMAIN told =>
       told.pwm = Len(PwmFreq) - 1 \/ PwmFreq[told.pwm + 1] = pwm

LEMMA Agreeing == DeviceAgrees <=> (failed = "" => WaveAgrees /\ OthersAgree)
BY DEF DeviceAgrees, WaveAgrees, OthersAgree

(* The device is told something that is not the waveform.                  *)
LEMMA WaveKept ==
  ASSUME WaveAgrees, UNCHANGED << shape, user >>, NEW what, NEW x, what # "wave",
         Tell(what, x)
  PROVE  WaveAgrees'
<1>1. /\ DOMAIN told' = { what } \cup DOMAIN told /\ told'[what] = x
      /\ \A y \in DOMAIN told : y # what => told'[y] = told[y]
  BY Telling
<1>2. shape' = shape /\ user' = user
  OBVIOUS
<1>3. "wave" \in DOMAIN told' <=> "wave" \in DOMAIN told
  BY <1>1
<1>4. "wave" \in DOMAIN told => told'["wave"] = told["wave"]
  BY <1>1
<1> QED BY <1>2, <1>3, <1>4 DEF WaveAgrees, Told

LEMMA OthersKept ==
  ASSUME OthersAgree, UNCHANGED << amplitude, duty, pwm, digital >>, NEW what, NEW x,
         what \notin { "amp", "duty", "digital", "pwm" }, Tell(what, x)
  PROVE  OthersAgree'
<1>1. /\ DOMAIN told' = { what } \cup DOMAIN told /\ told'[what] = x
      /\ \A y \in DOMAIN told : y # what => told'[y] = told[y]
  BY Telling
<1>2. amplitude' = amplitude /\ duty' = duty /\ pwm' = pwm /\ digital' = digital
  OBVIOUS
<1>3. ASSUME NEW y \in { "amp", "duty", "digital", "pwm" }
      PROVE  (y \in DOMAIN told' <=> y \in DOMAIN told)
             /\ (y \in DOMAIN told => told'[y] = told[y])
  BY <1>1
<1> QED BY <1>2, <1>3 DEF OthersAgree, Told

LEMMA SameAgrees ==
  ASSUME DeviceAgrees, UNCHANGED << settings, told >>, failed' = "" => failed = ""
  PROVE  DeviceAgrees'
<1>1. UNCHANGED << shape, user, amplitude, duty, pwm, digital, told >>
  BY DEF settings
<1> QED BY <1>1 DEF DeviceAgrees, Told

LEMMA FunctionAgrees ==
  ASSUME DeviceAgrees, NEW name \in Shape, Function(name)
  PROVE  DeviceAgrees'
<1>1. failed = "" /\ name # "NONE" /\ shape' = name
      /\ user' = (IF name = "RAND" THEN user ELSE Of(name))
      /\ UNCHANGED << amplitude, duty, pwm, digital >>
  BY DEF Function, Plain, Command
<1>2. Tell("wave", IF name = "RAND" THEN Of("RAND") ELSE user')
  BY DEF Function
<1>3. /\ "wave" \in DOMAIN told'
      /\ told'["wave"] = IF name = "RAND" THEN Of("RAND") ELSE user'
  BY <1>2, Telling
<1>4. WaveAgrees'
  <2>1. name # "RAND" => user'.from = name
    BY <1>1 DEF Of
  <2> QED BY <1>1, <1>3, <2>1 DEF WaveAgrees, Told
<1>5. OthersAgree'
  <2>1. OthersAgree
    BY <1>1, Agreeing
  <2> QED BY <1>1, <1>2, <2>1, OthersKept
<1> QED BY <1>4, <1>5 DEF DeviceAgrees, WaveAgrees, OthersAgree

LEMMA UserAgrees ==
  ASSUME DeviceAgrees, FunctionUser
  PROVE  DeviceAgrees'
<1>1. failed = "" /\ shape' = "USER" /\ UNCHANGED << amplitude, duty, pwm, digital >>
  BY DEF FunctionUser, Command
<1>2. CASE Len(list) > Steps \/ ~InByte(user')
  <2>1. failed' # ""
    BY <1>2 DEF FunctionUser, Fail
  <2> QED BY <2>1 DEF DeviceAgrees
<1>3. CASE ~(Len(list) > Steps) /\ InByte(user')
  <2>1. user' = OfList(list) /\ Tell("wave", user')
    BY <1>3 DEF FunctionUser
  <2>2. "wave" \in DOMAIN told' /\ told'["wave"] = user'
    BY <2>1, Telling
  <2>3. user'.from = "USER"
    BY <2>1 DEF OfList
  <2>4. WaveAgrees'
    BY <1>1, <2>2, <2>3 DEF WaveAgrees, Told
  <2>5. OthersAgree'
    BY <1>1, <2>1, Agreeing, OthersKept
  <2> QED BY <2>4, <2>5 DEF DeviceAgrees, WaveAgrees, OthersAgree
<1> QED BY <1>2, <1>3

(* A command that sets something else than the waveform.                   *)
LEMMA OtherSetting ==
  ASSUME DeviceAgrees, failed = "", UNCHANGED << shape, user >>,
         NEW what \in { "amp", "duty", "digital", "pwm", "phase" }, NEW x, Tell(what, x),
         what # "amp" => amplitude' = amplitude,
         what # "duty" => duty' = duty,
         what # "digital" => digital' = digital,
         what # "pwm" => pwm' = pwm,
         what = "amp" => x = (255 * amplitude') \div Unit,
         what = "duty" => x = duty',
         what = "digital" => x = digital',
         what = "pwm" => x = Len(PwmFreq) - 1 \/ PwmFreq[x + 1] = pwm'
  PROVE  DeviceAgrees'
<1>1. WaveAgrees /\ OthersAgree
  BY Agreeing
<1>2. WaveAgrees'
  BY <1>1, WaveKept
<1>3. /\ DOMAIN told' = { what } \cup DOMAIN told /\ told'[what] = x
      /\ \A y \in DOMAIN told : y # what => told'[y] = told[y]
  BY Telling
<1>4. Told("amp", (255 * amplitude) \div Unit)'
  BY <1>1, <1>3 DEF OthersAgree, Told
<1>5. Told("duty", duty)' /\ Told("digital", digital)'
  BY <1>1, <1>3 DEF OthersAgree, Told
<1>6. "pwm" \in DOMAIN told' =>
        told'["pwm"] = Len(PwmFreq) - 1 \/ PwmFreq[told'["pwm"] + 1] = pwm'
  BY <1>1, <1>3 DEF OthersAgree
<1>7. OthersAgree'
  BY <1>4, <1>5, <1>6 DEF OthersAgree
<1> QED BY <1>2, <1>7 DEF DeviceAgrees, WaveAgrees, OthersAgree

LEMMA LevelAgrees ==
  ASSUME DeviceAgrees, NEW v \in Level, FunctionLevel(v) \/ PulseDuty(v)
  PROVE  DeviceAgrees'
<1>1. CASE FunctionLevel(v)
  <2>1. failed = "" /\ failed' = failed /\ UNCHANGED << shape, user, duty, pwm, digital >>
    BY <1>1 DEF FunctionLevel, Plain, Command, listVars
  <2>2. CASE 0 <= v /\ v <= Unit
    <3>1. amplitude' = v /\ Tell("amp", (255 * v) \div Unit)
      BY <1>1, <2>2 DEF FunctionLevel
    <3> QED BY <2>1, <3>1, OtherSetting
  <2>3. CASE ~(0 <= v /\ v <= Unit)
    <3>1. UNCHANGED << amplitude, told >>
      BY <1>1, <2>3 DEF FunctionLevel
    <3> QED BY <2>1, <3>1 DEF DeviceAgrees, Told
  <2> QED BY <2>2, <2>3
<1>2. CASE PulseDuty(v)
  <2>1. failed = "" /\ duty' = (255 * v) \div Unit /\ Tell("duty", (255 * v) \div Unit)
        /\ UNCHANGED << shape, user, amplitude, pwm, digital >>
    BY <1>2 DEF PulseDuty, DutyCycle, Plain, Command
  <2> QED BY <2>1, OtherSetting
<1> QED BY <1>1, <1>2

LEMMA FrequencyAgrees ==
  ASSUME DeviceAgrees, NEW v \in Frequency, WaveFrequency(v) \/ PulseFrequency(v)
  PROVE  DeviceAgrees'
<1>1. CASE WaveFrequency(v)
  <2>1. failed = "" /\ Tell("phase", PhaseBytes(v \div 4))
        /\ UNCHANGED << shape, user, amplitude, duty, pwm, digital >>
    BY <1>1 DEF WaveFrequency, Plain, Command
  <2> QED BY <2>1, OtherSetting
<1>2. CASE PulseFrequency(v)
  <2> DEFINE k == PwmIndex(v)
  <2>1. failed = "" /\ Tell("pwm", k) /\ UNCHANGED << shape, user, amplitude, duty, digital >>
        /\ pwm' = IF k < Len(PwmFreq) - 1 THEN PwmFreq[k + 1] ELSE pwm
    BY <1>2 DEF PulseFrequency, Plain, Command
  <2>2. k = Len(PwmFreq) - 1 \/ PwmFreq[k + 1] = pwm'
    BY <2>1, IndexInTable
  <2> HIDE DEF k
  <2> QED BY <2>1, <2>2, OtherSetting
<1> QED BY <1>1, <1>2

(* Whatever a client sets, sends back, or is refused, in whatever order:   *)
(* the queries of the sources answer what the device was told, for every   *)
(* table of frequencies and every value.                                   *)
THEOREM DeviceKnows == Spec => []DeviceAgrees
<1>1. GeneratorInit => DeviceAgrees
  <2>1. DOMAIN << >> = {}
    OBVIOUS
  <2>2. Of("NONE").from = "NONE"
    BY DEF Of
  <2> QED BY <2>1, <2>2 DEF GeneratorInit, DeviceAgrees, Told
<1>2. DeviceAgrees /\ [GeneratorNext]_vars => DeviceAgrees'
  <2> SUFFICES ASSUME DeviceAgrees, [GeneratorNext]_vars PROVE DeviceAgrees'
    OBVIOUS
  <2>1. CASE ListNext /\ UNCHANGED << settings, told, asked, commands >>
    <3>1. failed' = "" => failed = ""
      BY <2>1 DEF ListNext, FirstNumber, NextNumber, Channel, ChannelRange, ChannelsEnd,
                  LineEnds, SyntaxError
    <3> QED BY <2>1, <3>1, SameAgrees
  <2>2. CASE \E name \in Shape : Function(name)
    BY <2>2, FunctionAgrees
  <2>3. CASE FunctionNone
    BY <2>3, SameAgrees DEF FunctionNone, Plain, Command
  <2>4. CASE FunctionUser
    BY <2>4, UserAgrees
  <2>5. CASE SymbolicValue \/ \E name \in LongForm : FunctionUnknown(name)
    BY <2>5, SameAgrees DEF SymbolicValue, FunctionUnknown, Fail
  <2>6. CASE \E v \in Level : FunctionLevel(v) \/ PulseDuty(v)
    BY <2>6, LevelAgrees
  <2>7. CASE \E v \in Frequency : WaveFrequency(v) \/ PulseFrequency(v)
    BY <2>7, FrequencyAgrees
  <2>8. CASE PulseDutyBack
    <3>1. failed = "" /\ duty' = SetBack(duty) /\ Tell("duty", SetBack(duty))
          /\ UNCHANGED << shape, user, amplitude, pwm, digital >>
      BY <2>8 DEF PulseDutyBack, DutyCycle
    <3> QED BY <3>1, OtherSetting
  <2>9. CASE \E n \in Byte : DigitalData(n)
    <3> PICK n \in Byte : DigitalData(n)
      BY <2>9
    <3>1. failed = "" /\ digital' = n /\ Tell("digital", n)
          /\ UNCHANGED << shape, user, amplitude, duty, pwm >>
      BY DEF DigitalData, Plain, Command
    <3> QED BY <3>1, OtherSetting
  <2>10. CASE UNCHANGED vars
    BY <2>10, SameAgrees DEF vars, listVars
  <2> QED BY <2>1, <2>2, <2>3, <2>4, <2>5, <2>6, <2>7, <2>8, <2>9, <2>10
          DEF GeneratorNext
<1> QED BY <1>1, <1>2, PTL DEF Spec

----------------------------------------------------------------------------
(* The duty cycle that is sent back as it was answered.                    *)

(* The remainders of the powers of ten by 255 repeat after sixteen.        *)
Remainders ==
  << 10, 100, 235, 55, 40, 145, 175, 220, 160, 70, 190, 115, 130, 25, 250, 205 >>

LEMMA PowersOfTen ==
  /\ PowerOfTen[0] = 1
  /\ \A k \in Nat \ {0} : PowerOfTen[k] = (10 * PowerOfTen[k-1]) % 255
<1> DEFINE Step(f) == [ k \in Nat |-> IF k = 0 THEN 1 ELSE (10 * f[k-1]) % 255 ]
           g == [ k \in Nat |-> IF k = 0 THEN 1 ELSE Remainders[((k - 1) % 16) + 1] ]
<1>1. ASSUME NEW k \in Nat PROVE g[k] = IF k = 0 THEN 1 ELSE (10 * g[k-1]) % 255
  <2>1. CASE k = 0
    BY <2>1
  <2>2. CASE k = 1
    BY <2>2 DEF Remainders
  <2>3. CASE k > 1
    <3>1. PICK j : j = (k - 2) % 16
      OBVIOUS
    <3>2. j \in 0..15 /\ (k - 1) % 16 = (j + 1) % 16
      BY <2>3, <3>1, SMT
    <3>3. g[k] = Remainders[((j + 1) % 16) + 1] /\ g[k-1] = Remainders[j + 1]
      BY <2>3, <3>1, <3>2, SMT
    <3>4. Remainders[((j + 1) % 16) + 1] = (10 * Remainders[j + 1]) % 255
      BY <3>2, SMT DEF Remainders
    <3> QED BY <2>3, <3>3, <3>4
  <2> QED BY <2>1, <2>2, <2>3
<1>2. g = Step(g)
  BY <1>1, Zenon
<1>3. PowerOfTen = CHOOSE f : f = Step(f)
  BY Zenon DEF PowerOfTen
<1> HIDE DEF g
<1>4. PowerOfTen = Step(PowerOfTen)
  BY <1>2, <1>3, Zenon
<1> QED BY <1>4

LEMMA Powers ==
  PowerOfTen[14] = 25 /\ PowerOfTen[15] = 250 /\ PowerOfTen[16] = 205
<1>1. PowerOfTen[1] = 10 /\ PowerOfTen[2] = 100 /\ PowerOfTen[3] = 235 /\ PowerOfTen[4] = 55
  BY PowersOfTen
<1>2. PowerOfTen[5] = 40 /\ PowerOfTen[6] = 145 /\ PowerOfTen[7] = 175 /\ PowerOfTen[8] = 220
  BY PowersOfTen, <1>1
<1>3. /\ PowerOfTen[9] = 160 /\ PowerOfTen[10] = 70 /\ PowerOfTen[11] = 190
      /\ PowerOfTen[12] = 115
  BY PowersOfTen, <1>2
<1> QED BY PowersOfTen, <1>3

(* Answers of up to 25/255 are rounded up, or exact.                       *)
LEMMA RoundsUp ==
  ASSUME NEW n \in 0..255, RoundedDown(n)
  PROVE  n > 25 /\ (25 * n) % 255 \in 1..127
<1>1. CASE n > 25
  BY <1>1, Powers DEF RoundedDown, Decimals
<1>2. CASE n <= 2
  <2>1. Decimals(n) = 16 /\ n \in { 0, 1, 2 }
    BY <1>2 DEF Decimals
  <2> QED BY <2>1, Powers DEF RoundedDown
<1>3. CASE 2 < n /\ n <= 25
  <2>1. Decimals(n) = 15
    BY <1>3 DEF Decimals
  <2>2. (n * 250) % 255 = 255 - 5 * n
    BY <1>3
  <2> QED BY <1>3, <2>1, <2>2, Powers DEF RoundedDown
<1> QED BY <1>1, <1>2, <1>3

(* No six answers in a row are rounded down: 25/255 further each, they do  *)
(* not all stay in the lower half.                                         *)
LEMMA FiveAtMost ==
  ASSUME NEW n \in 0..255, n + 5 \in 0..255
  PROVE  \E i \in 0..5 : ~RoundedDown(n + i)
<1> SUFFICES ASSUME \A i \in 0..5 : RoundedDown(n + i) PROVE FALSE
  OBVIOUS
<1>1. \A i \in 0..5 : (25 * (n + i)) % 255 \in 1..127
  BY RoundsUp
<1>2. PICK s : s = (5 * n) % 51
  OBVIOUS
<1>3. s \in 0..50 /\ (25 * n) % 255 = 5 * s
  BY <1>2
<1>4. s >= 1 /\ s <= 25
  BY <1>1, <1>3
<1>5. (25 * (n + 5)) % 255 = 5 * (s + 25)
  BY <1>2, <1>3, <1>4
<1>6. 5 \in 0..5
  OBVIOUS
<1>7. (25 * (n + 5)) % 255 \in 1..127
  BY <1>1, <1>6, Zenon
<1> QED BY <1>3, <1>4, <1>5, <1>7

(* Between what was asked for and what is set, all answers were rounded    *)
(* down.                                                                   *)
Sunk ==
  /\ asked \in 0..255 /\ duty \in 0..asked
  /\ \A n \in duty+1..asked : RoundedDown(n)

LEMMA SunkBounded == ASSUME Sunk PROVE DriftBounded
<1>1. asked \in 0..255 /\ duty \in 0..asked
  BY DEF Sunk
<1>2. ASSUME asked > duty + 5 PROVE FALSE
  <2>1. duty + 1 \in 0..255 /\ (duty + 1) + 5 \in 0..255
    BY <1>1, <1>2
  <2>2. PICK i \in 0..5 : ~RoundedDown((duty + 1) + i)
    BY <2>1, FiveAtMost
  <2>3. (duty + 1) + i \in duty+1..asked
    BY <1>1, <1>2
  <2> QED BY <2>2, <2>3 DEF Sunk
<1> QED BY <1>1, <1>2 DEF DriftBounded

LEMMA SunkStep == ASSUME Sunk, [GeneratorNext]_vars PROVE Sunk'
<1>1. CASE UNCHANGED << duty, asked >>
  BY <1>1 DEF Sunk
<1>2. ASSUME NEW v \in Level, PulseDuty(v) PROVE Sunk'
  <2>1. v \in 0..Unit /\ duty' = (255 * v) \div Unit /\ asked' = duty'
    BY <1>2, LevelAssumption, TableSizes DEF PulseDuty, DutyCycle
  <2>2. 255 * v < Unit * 256 /\ Unit * 0 <= 255 * v /\ 255 * v \in Int
    BY <2>1, TableSizes
  <2>3. duty' \in 0..255
    <3>1. (255 * v) \div Unit < 256 /\ 0 <= (255 * v) \div Unit
      BY <2>2, TableSizes, QuotientBelow, QuotientAbove
    <3>2. (255 * v) \div Unit \in Int
      BY <2>2, TableSizes, Division
    <3> QED BY <2>1, <3>1, <3>2
  <2> QED BY <2>1, <2>3 DEF Sunk
<1>3. CASE PulseDutyBack
  <2>1. duty' = SetBack(duty) /\ asked' = asked
    BY <1>3 DEF PulseDutyBack, DutyCycle
  <2>2. asked \in 0..255 /\ duty \in 0..asked
    BY DEF Sunk
  <2>3. CASE RoundedDown(duty)
    <3>1. duty > 25
      BY <2>2, <2>3, RoundsUp
    <3>2. duty' = duty - 1
      BY <2>1, <2>3 DEF SetBack
    <3>3. ASSUME NEW n \in duty'+1..asked' PROVE RoundedDown(n)
      <4>1. n = duty \/ n \in duty+1..asked
        BY <2>1, <2>2, <3>2
      <4> QED BY <2>3, <4>1 DEF Sunk
    <3>4. asked' \in 0..255 /\ duty' \in 0..asked'
      BY <2>1, <2>2, <3>1, <3>2
    <3> QED BY <3>3, <3>4 DEF Sunk
  <2>4. CASE ~RoundedDown(duty)
    BY <1>1, <2>1, <2>4 DEF SetBack
  <2> QED BY <2>3, <2>4
<1>4. CASE ListNext /\ UNCHANGED << settings, told, asked, commands >>
  BY <1>1, <1>4 DEF settings
<1>5. CASE \/ \E name \in Shape : Function(name)
           \/ FunctionNone \/ FunctionUser \/ SymbolicValue
           \/ \E name \in LongForm : FunctionUnknown(name)
           \/ \E v \in Level : FunctionLevel(v)
           \/ \E v \in Frequency : WaveFrequency(v) \/ PulseFrequency(v)
           \/ \E n \in Byte : DigitalData(n)
           \/ UNCHANGED vars
  <2>1. UNCHANGED << duty, asked >>
    BY <1>5 DEF Function, FunctionNone, FunctionUser, SymbolicValue, FunctionUnknown,
       FunctionLevel, WaveFrequency, PulseFrequency, DigitalData, settings, vars
  <2> QED BY <1>1, <2>1
<1> QED BY <1>2, <1>3, <1>4, <1>5 DEF GeneratorNext

(* However often a client sends back the duty cycle that was answered, it  *)
(* sinks by five steps of 255 at most, and never rises                     *)
(* (cgr101_pwm_duty_cycle, scpi_output_fp).                                *)
THEOREM DriftsAreBounded == Spec => []DriftBounded
<1>1. GeneratorInit => Sunk
  BY DEF GeneratorInit, Sunk
<1>2. Sunk /\ [GeneratorNext]_vars => Sunk'
  BY SunkStep
<1>3. Sunk => DriftBounded
  BY SunkBounded
<1> QED BY <1>1, <1>2, <1>3, PTL DEF Spec
=============================================================================
