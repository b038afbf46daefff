-------------------------- MODULE Digitizer_proofs --------------------------
(***************************************************************************)
(* What is proved of the oscilloscope's settings, for every number of      *)
(* samples, steps and channels and whatever values the client sends.       *)
(***************************************************************************)
EXTENDS Digitizer, FiniteSetTheorems, TLAPS

(* What the proofs need of the constants.                                  *)
LEMMA Constants ==
  /\ TriggerChannel \in Channel
  /\ Samples \in 1..1024 /\ DivMax \in Nat /\ MinTime \in Nat \ {0}
  /\ StepHigh \in Nat \ {0} /\ StepLow \in Nat \ {0}
  /\ Mid \in Int /\ Levels \in Nat /\ LowLimit \in Nat /\ DefaultHigh \in Nat
  /\ LowLimit < DefaultHigh /\ Second \in Nat \ {0}
  /\ Volts \subseteq Int /\ Times \subseteq Int /\ Points \subseteq Int
  /\ ShortTimes \subseteq Int /\ InputOffsets \subseteq [ low : Int, high : Int ]
BY DigitizerAssumption

(* The external input is off again, whoever triggers.                      *)
LEMMA StartControl ==
  ASSUME NEW manual, Start(manual)
  PROVE  control' = Control(FALSE)
<1>1. CASE manual \/ source = "IMM"
  <2>1. ControlWrites(manual) = << Control(FALSE), Control(TRUE), Control(FALSE) >>
    BY <1>1 DEF ControlWrites
  <2> QED BY <2>1 DEF Start
<1>2. CASE ~(manual \/ source = "IMM")
  <2>1. ControlWrites(manual) = << Control(FALSE) >>
    BY <1>2 DEF ControlWrites
  <2> QED BY <2>1 DEF Start
<1> QED BY <1>1, <1>2

LEMMA PositionNumbers ==
  ASSUME PositionTyped
  PROVE  Samples \in Int /\ ref \in Int /\ offset \in Int
BY Constants DEF PositionTyped

(* The two bytes of a count that is in bounds are the count.               *)
LEMMA CountBytes ==
  ASSUME PositionTyped, PostTrigger >= 0, PostTrigger < Samples
  PROVE  /\ PostTrigger \in 0..Samples-1
         /\ ((PostTrigger \div 256) % 4) * 256 + (PostTrigger % 256) = PostTrigger
<1>1. Samples \in 1..1024
  BY Constants
<1>2. PostTrigger \in 0..1023 /\ PostTrigger \in 0..Samples-1
  <2>1. ref \in 0..Samples-1 /\ offset \in Int
    BY DEF PositionTyped
  <2> QED BY <1>1, <2>1 DEF PostTrigger
<1> HIDE DEF PostTrigger
<1> QED BY <1>2

(* Powers of two.                                                          *)
LEMMA PowerZero == 2^0 = 1
OBVIOUS

LEMMA PowerType == ASSUME NEW d \in Nat PROVE 2^d \in Int
OBVIOUS

(* A range that is given any two numbers is a range.                       *)
LEMMA RangeTypes ==
  ASSUME NEW a \in Int, NEW b \in Int
  PROVE  /\ WithRange(FromLowHigh(a, b)) \in VoltageRange
         /\ WithRange(FromMidPtp(a, b)) \in VoltageRange
         /\ DefaultRange \in VoltageRange
<1>1. DefaultHigh \in Nat /\ LowLimit \in Nat
  BY Constants
<1> QED BY <1>1 DEF WithRange, FromLowHigh, FromMidPtp, VoltageRange, FitsLow, DefaultRange

(* Setting the inputs of some channels to ranges keeps their types.        *)
LEMMA SetInputTypes ==
  ASSUME InputsTyped, NEW chans \in SUBSET Channel, NEW new,
         \A c \in Channel : WithRange(new[c]) \in VoltageRange,
         SetInput(chans, new)
  PROVE  InputsTyped'
<1>1. input' \in [ Channel -> VoltageRange ]
  BY DEF SetInput, InputsTyped
<1>2. preamp' \in [ Channel -> BOOLEAN ]
  <2>1. \A c \in Channel : input'[c].lowRange \in BOOLEAN
    BY <1>1 DEF VoltageRange
  <2>2. \A c \in Channel : preamp[c] \in BOOLEAN
    BY DEF InputsTyped
  <2> QED BY <2>1, <2>2 DEF SetInput
<1>3. forced' \subseteq Channel
  BY DEF SetInput, InputsTyped
<1> QED BY <1>1, <1>2, <1>3 DEF SetInput, InputsTyped

(* The four voltage commands keep the types of the inputs.                 *)
LEMMA VoltageTypes == ASSUME InputsTyped, Voltage PROVE InputsTyped'
<1>1. PICK chans \in SUBSET Channel \ {{}}, v \in Volts :
         \/ VoltageLow(chans, v) \/ VoltageUp(chans, v)
         \/ VoltageOffset(chans, v) \/ VoltagePtp(chans, v)
  BY DEF Voltage
<1>2. v \in Int /\ chans \in SUBSET Channel
  BY Constants
<1>3. \A c \in Channel : /\ input[c].low \in Int /\ input[c].high \in Int
                         /\ input[c].mid \in Int /\ input[c].ptp \in Int
  BY DEF InputsTyped, VoltageRange
<1>4. CASE VoltageLow(chans, v)
  <2> DEFINE new == [ c \in Channel |-> FromLowHigh(v, input[c].high) ]
  <2>1. \A c \in Channel : WithRange(new[c]) \in VoltageRange
    BY <1>2, <1>3, RangeTypes
  <2>2. SetInput(chans, new)
    BY <1>4 DEF VoltageLow
  <2> HIDE DEF new
  <2> QED BY <1>2, <2>1, <2>2, SetInputTypes
<1>5. CASE VoltageUp(chans, v)
  <2> DEFINE new == [ c \in Channel |-> FromLowHigh(input[c].low, v) ]
  <2>1. \A c \in Channel : WithRange(new[c]) \in VoltageRange
    BY <1>2, <1>3, RangeTypes
  <2>2. SetInput(chans, new)
    BY <1>5 DEF VoltageUp
  <2> HIDE DEF new
  <2> QED BY <1>2, <2>1, <2>2, SetInputTypes
<1>6. CASE VoltageOffset(chans, v)
  <2> DEFINE new == [ c \in Channel |-> FromMidPtp(v, input[c].ptp) ]
  <2>1. \A c \in Channel : WithRange(new[c]) \in VoltageRange
    BY <1>2, <1>3, RangeTypes
  <2>2. SetInput(chans, new)
    BY <1>6 DEF VoltageOffset
  <2> HIDE DEF new
  <2> QED BY <1>2, <2>1, <2>2, SetInputTypes
<1>7. CASE VoltagePtp(chans, v)
  <2> DEFINE new == [ c \in Channel |-> FromMidPtp(input[c].mid, v) ]
  <2>1. \A c \in Channel : WithRange(new[c]) \in VoltageRange
    BY <1>2, <1>3, RangeTypes
  <2>2. SetInput(chans, new)
    BY <1>7 DEF VoltagePtp
  <2> HIDE DEF new
  <2> QED BY <1>2, <2>1, <2>2, SetInputTypes
<1> QED BY <1>1, <1>4, <1>5, <1>6, <1>7

(* Which settings a voltage command leaves alone.                          *)
LEMMA VoltageLeaves ==
  ASSUME Voltage
  PROVE  UNCHANGED << inputOffset, enable, time, div, offset, ref, negative, source,
                      control, trigger, capture, failed >>
BY DEF Voltage, OK, VoltageLow, VoltageUp, VoltageOffset, VoltagePtp, SetInput

(* Every step keeps the types of the inputs.                               *)
LEMMA InputsStep == ASSUME InputsTyped, [Next]_dvars PROVE InputsTyped'
<1>1. CASE Voltage
  BY <1>1, VoltageTypes
<1>2. CASE ChannelState
  BY <1>2 DEF ChannelState, device, InputsTyped
<1>3. CASE InputOffset
  <2>1. inputOffset' \in [ Channel -> [ low : Int, high : Int ] ]
    BY <1>3, Constants DEF InputOffset
  <2> QED BY <1>3, <2>1 DEF InputOffset, device, InputsTyped
<1>4. CASE Rst
  <2>1. DefaultRange \in VoltageRange
    BY RangeTypes
  <2> QED BY <1>4, <2>1 DEF Rst, device, InputsTyped
<1>5. CASE UNCHANGED << input, inputOffset, enable, preamp, forced >>
  BY <1>5 DEF InputsTyped
<1> QED
  BY <1>1, <1>2, <1>3, <1>4, <1>5
  DEF Next, SweepTime, TriggerPosition, Trigger, TriggerLevel, Initiate,
      InitiateFails, settings, device, dvars

(* Every step keeps the sweep time that of the divisor.                    *)
LEMMA SweepStep == ASSUME SweepTyped, [Next]_dvars PROVE SweepTyped'
<1>1. ASSUME NEW t, SetTime(t) PROVE SweepTyped'
  BY <1>1 DEF SetTime, Divisors, SweepTyped
<1>2. CASE Voltage
  BY <1>2, VoltageLeaves DEF SweepTyped
<1>3. CASE SweepTime
  BY <1>1, <1>3 DEF SweepTime
<1>4. CASE Rst
  BY <1>1, <1>4 DEF Rst
<1>5. CASE UNCHANGED << time, div >>
  BY <1>5 DEF SweepTyped
<1> QED
  BY <1>2, <1>3, <1>4, <1>5
  DEF Next, TriggerPosition, Trigger, TriggerLevel, ChannelState, InputOffset,
      Initiate, InitiateFails, settings, device, dvars

(* Every step keeps the offset and the reference in the record.            *)
LEMMA PositionStep ==
  ASSUME SweepTyped, PositionTyped, [Next]_dvars PROVE PositionTyped'
<1>1. Samples \in 1..1024 /\ Points \subseteq Int /\ ShortTimes \subseteq Int
  BY Constants
<1>2. ASSUME NEW p \in Int
      PROVE  /\ NewOffset(p) \in Int
             /\ 2 * NewOffset(p) >= -Samples /\ 2 * NewOffset(p) < Samples
             /\ NewRef(p) \in 0..Samples-1
  BY <1>1 DEF NewOffset, NewRef, PositionTyped
<1>3. ASSUME NEW t \in Int
      PROVE  \E p \in Int : OffsetOfTime(t) = NewOffset(p)
  <2>1. time \in Int
    <3>1. MinTime \in Int /\ div \in Nat
      BY Constants DEF SweepTyped
    <3>2. 2^div \in Int
      BY <3>1, PowerType
    <3>3. time = MinTime * 2^div
      BY DEF SweepTyped, TimeOf
    <3> QED BY <3>1, <3>2, <3>3
  <2>2. t * Interval \in Int
    BY <1>1, <2>1 DEF Interval
  <2> DEFINE p == ((t * Interval) \div Second) \div Second
  <2>3. p \in Int
    BY <2>2, Constants
  <2>4. OffsetOfTime(t) = NewOffset(p)
    BY DEF OffsetOfTime
  <2> HIDE DEF p
  <2> QED BY <2>3, <2>4
<1>4. CASE TriggerPosition
  <2>1. CASE \E p \in Points : offset' = NewOffset(p) /\ UNCHANGED ref
    BY <1>1, <1>2, <2>1 DEF PositionTyped
  <2>2. CASE \E t \in ShortTimes : offset' = OffsetOfTime(t) /\ UNCHANGED ref
    BY <1>1, <1>2, <1>3, <2>2 DEF PositionTyped
  <2>3. CASE \E p \in Points : ref' = NewRef(p) /\ UNCHANGED offset
    BY <1>1, <1>2, <2>3 DEF PositionTyped
  <2> QED BY <1>4, <2>1, <2>2, <2>3 DEF TriggerPosition
<1>5. CASE Rst
  BY <1>1, <1>5 DEF Rst, PositionTyped
<1>6. CASE Voltage
  BY <1>6, VoltageLeaves DEF PositionTyped
<1>7. CASE UNCHANGED << offset, ref >>
  BY <1>7 DEF PositionTyped
<1> QED
  BY <1>4, <1>5, <1>6, <1>7
  DEF Next, SweepTime, Trigger, TriggerLevel, ChannelState, InputOffset,
      Initiate, InitiateFails, settings, device, dvars

(* Every step keeps the types of the trigger's settings and registers.     *)
LEMMA RegistersStep ==
  ASSUME TypeOK, [Next]_dvars PROVE RegistersTyped'
<1>1. div \in 0..DivMax /\ negative \in BOOLEAN /\ RegistersTyped /\ PositionTyped
  BY DEF TypeOK, SweepTyped, RegistersTyped
<1>2. CASE Voltage
  BY <1>1, <1>2, VoltageLeaves DEF RegistersTyped
<1>3. CASE Trigger
  <2>1. negative' \in BOOLEAN /\ source' \in { "IMM", "INT", "EXT" }
    BY <1>1, <1>3 DEF Trigger, RegistersTyped
  <2>2. control' \in ControlRegister
    BY <1>1, <1>3, <2>1 DEF Trigger, Control, ControlRegister
  <2> QED BY <1>1, <1>3, <2>1, <2>2 DEF Trigger, RegistersTyped
<1>4. ASSUME NEW v \in Volts, TriggerLevel(v) PROVE RegistersTyped'
  <2>1. VoltageToData(TriggerChannel, v) \in Int
    <3>1. /\ StepOf(TriggerChannel) \in Nat \ {0}
          /\ ShiftOf(TriggerChannel) \in Int /\ v \in Int
      <4>1. inputOffset[TriggerChannel] \in [ low : Int, high : Int ]
        BY Constants DEF TypeOK, InputsTyped
      <4> QED BY <4>1, Constants DEF StepOf, ShiftOf
    <3>2. ASSUME NEW a \in Int, NEW b \in Nat \ {0} PROVE Round(a, b) \in Int
      BY DEF Round
    <3> QED BY <3>1, <3>2, Constants DEF VoltageToData
  <2>2. trigger' \in 0..Levels-1 \cup {Unset}
    BY <1>1, <1>4, <2>1, Constants DEF TriggerLevel, RegistersTyped
  <2> QED BY <1>1, <1>4, <2>2 DEF TriggerLevel, settings, RegistersTyped
<1>5. CASE Initiate
  <2>1. CASE enable = {} /\ UNCHANGED << control, capture >>
    BY <1>1, <1>5, <2>1 DEF Initiate, settings, RegistersTyped
  <2>2. CASE /\ PostTrigger >= 0 /\ PostTrigger < Samples
             /\ \E manual \in BOOLEAN : Start(manual)
    <3>1. control' = Control(FALSE) /\ capture' = [ post |-> PostTrigger, div |-> div ]
      BY <1>1, <2>2, CountBytes, StartControl DEF Start
    <3>2. control' \in ControlRegister
      BY <1>1, <3>1 DEF Control, ControlRegister
    <3>3. capture' \in Capture
      BY <1>1, <2>2, <3>1, CountBytes DEF Capture
    <3> QED BY <1>1, <1>5, <3>2, <3>3 DEF Initiate, settings, RegistersTyped
  <2> QED BY <1>5, <2>1, <2>2 DEF Initiate
<1>6. CASE UNCHANGED << negative, source, control, trigger, capture >>
  BY <1>1, <1>6 DEF RegistersTyped
<1> QED
  BY <1>2, <1>3, <1>4, <1>5, <1>6
  DEF Next, SweepTime, TriggerPosition, ChannelState, InputOffset, Rst,
      InitiateFails, settings, device, dvars

(* Every step keeps the types.                                             *)
LEMMA TypeStep == ASSUME TypeOK, [Next]_dvars PROVE TypeOK'
<1>1. InputsTyped' /\ SweepTyped' /\ PositionTyped' /\ RegistersTyped'
  BY InputsStep, SweepStep, PositionStep, RegistersStep DEF TypeOK
<1>2. failed' \in { "", "cgr101_trigger_level", "cgr101_initiate" }
  BY DEF TypeOK, Next, Voltage, SweepTime, TriggerPosition, Trigger, TriggerLevel,
         ChannelState, InputOffset, Rst, Initiate, InitiateFails, OK, dvars
<1>3. n' \in Nat
  <2>1. CASE Next
    <3>1. Handled
      BY <2>1 DEF Next, Voltage, SweepTime, TriggerPosition, Trigger, TriggerLevel,
                  ChannelState, InputOffset, Rst, Initiate, InitiateFails
    <3>2. n' = n + 1
      BY <3>1 DEF Handled
    <3>3. n \in Nat
      BY DEF TypeOK
    <3> QED BY <3>2, <3>3
  <2>2. CASE UNCHANGED dvars
    BY <2>2 DEF dvars, TypeOK
  <2> QED BY <2>1, <2>2
<1> QED BY <1>1, <1>2, <1>3 DEF TypeOK

(* The initial state has its types.                                        *)
LEMMA InitType == ASSUME Init PROVE TypeOK
<1>1. InputsTyped
  <2>1. DefaultRange \in VoltageRange
    BY RangeTypes
  <2>2. /\ input = [ c \in Channel |-> DefaultRange ]
        /\ inputOffset = [ c \in Channel |-> [ low |-> 0, high |-> 0 ] ]
        /\ preamp = [ c \in Channel |-> FALSE ] /\ enable = {} /\ forced = {}
    BY DEF Init
  <2> QED BY <2>1, <2>2 DEF InputsTyped
<1>2. SweepTyped
  <2>1. time = MinTime /\ div = 0
    BY DEF Init
  <2>2. TimeOf(0) = MinTime
    BY PowerZero, Constants DEF TimeOf
  <2> QED BY <2>1, <2>2, Constants DEF SweepTyped
<1>3. PositionTyped
  <2>1. Samples \in 1..1024
    BY Constants
  <2>2. offset = 0 /\ ref = Samples \div 2
    BY DEF Init
  <2> QED BY <2>1, <2>2 DEF PositionTyped
<1>4. RegistersTyped
  BY DEF Init, RegistersTyped
<1> QED BY <1>1, <1>2, <1>3, <1>4 DEF Init, TypeOK

(* The settings keep their types and stay in their bounds: the divisor in  *)
(* those of the device, the position of the trigger in the record.         *)
THEOREM TypeCorrect == Spec => []TypeOK
<1> QED BY InitType, TypeStep, PTL DEF Spec

(* The part of the range that says which preamplifier is used.             *)
LEMMA PreampStep ==
  ASSUME InputsTyped, PreampFollows, [Next]_dvars PROVE PreampFollows'
<1>1. ASSUME NEW chans \in SUBSET Channel, NEW new, SetInput(chans, new)
      PROVE  PreampFollows'
  <2> SUFFICES ASSUME NEW c \in Channel
               PROVE  /\ input'[c].lowRange <=> input'[c].low >= -LowLimit
                                                /\ input'[c].high <= LowLimit
                      /\ c \notin forced' => preamp'[c] = input'[c].lowRange
    BY DEF PreampFollows
  <2>1. CASE c \in chans
    BY <1>1, <2>1 DEF SetInput, WithRange, FitsLow, InputsTyped
  <2>2. CASE c \notin chans
    BY <1>1, <2>2 DEF SetInput, PreampFollows, InputsTyped
  <2> QED BY <2>1, <2>2
<1>2. CASE Voltage
  BY <1>1, <1>2 DEF Voltage, VoltageLow, VoltageUp, VoltageOffset, VoltagePtp
<1>3. CASE Rst
  BY <1>3, Constants DEF Rst, DefaultRange, PreampFollows
<1>4. CASE UNCHANGED << input, preamp, forced >>
  BY <1>4 DEF PreampFollows
<1> QED
  BY <1>2, <1>3, <1>4
  DEF Next, SweepTime, TriggerPosition, Trigger, TriggerLevel, ChannelState,
      InputOffset, Initiate, InitiateFails, settings, device, dvars

(* The conversion of the samples uses the range the preamplifier is in,    *)
(* from the first voltage command after a *RST on.                         *)
THEOREM RangeOfPreamp == Spec => []PreampFollows
<1>1. Init => PreampFollows
  <2> SUFFICES ASSUME Init, NEW c \in Channel
               PROVE  /\ input[c].lowRange <=> input[c].low >= -LowLimit
                                               /\ input[c].high <= LowLimit
                      /\ preamp[c] = input[c].lowRange
    BY DEF PreampFollows
  <2>1. input[c] = DefaultRange /\ preamp[c] = FALSE
    BY DEF Init
  <2>2. DefaultRange.lowRange = FALSE /\ DefaultRange.high = DefaultHigh
    BY DEF DefaultRange
  <2>3. ~(DefaultHigh <= LowLimit)
    BY Constants
  <2> QED BY <2>1, <2>2, <2>3
<1>2. TypeOK /\ PreampFollows /\ [Next]_dvars => PreampFollows'
  BY PreampStep DEF TypeOK
<1> QED BY <1>1, <1>2, TypeCorrect, PTL DEF Spec

(* Whatever was set before: every capture has the rate of the sweep time   *)
(* and its trigger in the record, at the offset's distance from the        *)
(* reference; the two bytes of the count lose nothing.                     *)
THEOREM CapturesAreAsSet == Spec => CaptureAsSet
<1> DEFINE before == Samples - capture'.post
           AsSet == /\ before \in 1..Samples
                    /\ before - ref = offset \/ ref - before = offset
                    /\ capture'.div = div /\ control'.div = div
<1>1. ASSUME TypeOK, Next, capture' # capture PROVE AsSet
  <2>1. Initiate
    BY <1>1 DEF Next, Voltage, VoltageLow, VoltageUp, VoltageOffset, VoltagePtp,
           SetInput, SweepTime, TriggerPosition, Trigger, TriggerLevel,
           ChannelState, InputOffset, Rst, InitiateFails, settings, device
  <2>2. PICK manual \in BOOLEAN : Start(manual)
    BY <1>1, <2>1 DEF Initiate
  <2>3. PostTrigger >= 0 /\ PostTrigger < Samples
    BY <1>1, <2>1 DEF Initiate
  <2>4. control' = Control(FALSE)
    BY <2>2, StartControl
  <2>5. capture' = [ post |-> PostTrigger, div |-> div ]
    BY <1>1, <2>2, <2>3, CountBytes DEF Start, TypeOK
  <2>6. before = ref + offset /\ before \in 1..Samples
    <3>1. Samples \in Int /\ ref \in Int /\ offset \in Int
      BY <1>1, PositionNumbers DEF TypeOK
    <3>2. capture'.post = PostTrigger
      BY <2>5
    <3> QED BY <2>3, <3>1, <3>2 DEF PostTrigger
  <2>7. ref \in Int /\ offset \in Int
    BY <1>1, PositionNumbers DEF TypeOK
  <2> QED BY <2>4, <2>5, <2>6, <2>7 DEF Control
<1>2. TypeOK /\ [Next]_dvars => [ capture' # capture => AsSet ]_dvars
  BY <1>1
<1> QED BY <1>2, TypeCorrect, PTL DEF Spec, CaptureAsSet

(* What \div is.                                                           *)
LEMMA DivBounds ==
  ASSUME NEW a \in Int, NEW b \in Nat \ {0}
  PROVE  a \div b \in Int /\ b * (a \div b) <= a /\ a < b * (a \div b) + b
OBVIOUS

(* A rounded quotient is off by a half at most.                            *)
LEMMA RoundBounds ==
  ASSUME NEW a \in Int, NEW b \in Nat \ {0}
  PROVE  /\ Round(a, b) \in Int
         /\ 2 * (Round(a, b) * b - a) <= b /\ 2 * (a - Round(a, b) * b) <= b
<1>1. CASE a >= 0
  <2> DEFINE q == (2 * a + b) \div (2 * b)
  <2>1. q \in Int /\ (2 * b) * q <= 2 * a + b /\ 2 * a + b < (2 * b) * q + 2 * b
    <3>1. 2 * a + b \in Int /\ 2 * b \in Nat \ {0}
      OBVIOUS
    <3> QED BY <3>1, DivBounds
  <2>2. Round(a, b) = q
    BY <1>1 DEF Round
  <2> HIDE DEF q
  <2> QED BY <2>1, <2>2
<1>2. CASE a < 0
  <2> DEFINE q == (b - 2 * a) \div (2 * b)
  <2>1. q \in Int /\ (2 * b) * q <= b - 2 * a /\ b - 2 * a < (2 * b) * q + 2 * b
    <3>1. b - 2 * a \in Int /\ 2 * b \in Nat \ {0}
      OBVIOUS
    <3> QED BY <3>1, DivBounds
  <2>2. Round(a, b) = -q
    BY <1>2 DEF Round
  <2> HIDE DEF q
  <2>3. (-q) * b = -(q * b)
    BY <2>1
  <2> QED BY <2>1, <2>2, <2>3
<1> QED BY <1>1, <1>2

(* The value a voltage is rounded to, turned back into a voltage.          *)
LEMMA NearestStep ==
  ASSUME NEW v \in Int, NEW h \in Int, NEW s \in Nat \ {0}, NEW m \in Int,
         NEW d, d = m - Round(v + h, s)
  PROVE  2 * Abs(((m - d) * s - h) - v) <= s
<1>1. v + h \in Int
  OBVIOUS
<1>2. PICK q \in Int : q = Round(v + h, s)
  BY <1>1, RoundBounds
<1>3. 2 * (q * s - (v + h)) <= s /\ 2 * ((v + h) - q * s) <= s
  BY <1>1, <1>2, RoundBounds
<1>4. m - d = q
  BY <1>2
<1>5. PICK p \in Int : p = q * s
  OBVIOUS
<1>6. 2 * Abs((p - h) - v) <= s
  BY <1>3, <1>5 DEF Abs
<1> QED BY <1>4, <1>5, <1>6

(* A trigger level that the device is given shows the voltage that is      *)
(* nearest to the one asked for.                                           *)
THEOREM LevelsAreNearest == Spec => LevelIsNearest
<1>1. TypeOK /\ [Next]_dvars
        => [ \A v \in Volts :
               TriggerLevel(v) /\ failed' = ""
                 => 2 * Abs(DataToVoltage(TriggerChannel, trigger') - v)
                      <= StepOf(TriggerChannel) ]_dvars
  <2> SUFFICES ASSUME TypeOK, NEW v \in Volts, TriggerLevel(v), failed' = ""
               PROVE  2 * Abs(DataToVoltage(TriggerChannel, trigger') - v)
                        <= StepOf(TriggerChannel)
    OBVIOUS
  <2>1. inputOffset[TriggerChannel] \in [ low : Int, high : Int ]
    BY Constants DEF TypeOK, InputsTyped
  <2>2. /\ StepOf(TriggerChannel) \in Nat \ {0} /\ ShiftOf(TriggerChannel) \in Int
        /\ v \in Int /\ Mid \in Int
    BY <2>1, Constants DEF StepOf, ShiftOf
  <2>3. trigger' = Mid - Round(v + ShiftOf(TriggerChannel), StepOf(TriggerChannel))
    BY DEF TriggerLevel, VoltageToData
  <2> QED BY <2>2, <2>3, NearestStep DEF DataToVoltage
<1> QED BY <1>1, TypeCorrect, PTL DEF Spec, LevelIsNearest

----------------------------------------------------------------------------
(* Induction over the divisors, and the powers of two.                     *)

LEMMA LessThan == \A x, y \in Nat : << x, y >> \in OpToRel(<, Nat) <=> x < y
BY DEF OpToRel

LEMMA SetInduction ==
  ASSUME NEW T, 0 \in T, \A k \in Nat : k \in T => k + 1 \in T
  PROVE  Nat \subseteq T
<1> DEFINE U == { k \in Nat : k \notin T }
<1> SUFFICES ASSUME U # {} PROVE FALSE
  OBVIOUS
<1>1. U \subseteq Nat
  OBVIOUS
<1>2. PICK x \in U : \A y \in U : ~(<< y, x >> \in OpToRel(<, Nat))
  BY <1>1, NatLessThanWellFounded, WFMin, Zenon
<1>3. x \in Nat /\ x \notin T /\ x # 0
  OBVIOUS
<1>4. x - 1 \in Nat /\ (x - 1) + 1 = x /\ x - 1 < x
  BY <1>3
<1>5. x - 1 \in T
  BY <1>2, <1>3, <1>4, LessThan
<1> QED BY <1>3, <1>4, <1>5

(* The subsets of a set with one element more are twice as many.           *)
LEMMA PowerNext == ASSUME NEW d \in Nat PROVE 2^(d + 1) = 2 * 2^d
<1> DEFINE A == SUBSET (1..d)
           B == { s \cup {d + 1} : s \in A }
           f == [ s \in A |-> s \cup {d + 1} ]
<1>1. /\ IsFiniteSet(1..d) /\ Cardinality(1..d) = d
      /\ IsFiniteSet(1..d+1) /\ Cardinality(1..d+1) = d + 1
  BY FS_Interval
<1>2. /\ IsFiniteSet(A) /\ Cardinality(A) = 2^d
      /\ Cardinality(SUBSET (1..d+1)) = 2^(d + 1)
  BY <1>1, FS_SUBSET
<1>3. d + 1 \notin 1..d /\ 1..d+1 = (1..d) \cup {d + 1}
  OBVIOUS
<1>4. SUBSET (1..d+1) = A \cup B
  <2>1. ASSUME NEW t \in SUBSET (1..d+1) PROVE t \in A \cup B
    <3>1. CASE d + 1 \in t
      <4>1. t \ {d + 1} \in A /\ t = (t \ {d + 1}) \cup {d + 1}
        BY <1>3, <3>1
      <4> QED BY <4>1
    <3>2. CASE d + 1 \notin t
      BY <1>3, <3>2
    <3> QED BY <3>1, <3>2
  <2>2. A \cup B \subseteq SUBSET (1..d+1)
    BY <1>3
  <2> QED BY <2>1, <2>2
<1>5. A \cap B = {}
  BY <1>3
<1>6. f \in Bijection(A, B)
  <2>1. f \in [ A -> B ]
    OBVIOUS
  <2>2. ASSUME NEW s \in A, NEW t \in A, f[s] = f[t] PROVE s = t
    <3>1. s \cup {d + 1} = t \cup {d + 1}
      BY <2>2
    <3> QED BY <1>3, <3>1
  <2>3. \A t \in B : \E s \in A : f[s] = t
    OBVIOUS
  <2> HIDE DEF A, B, f
  <2>4. f \in Injection(A, B)
    <3>1. \A s, t \in A : f[s] = f[t] => s = t
      BY <2>2
    <3> QED BY <2>1, <3>1 DEF Injection, IsInjective
  <2>5. f \in Surjection(A, B)
    BY <2>1, <2>3, Zenon DEF Surjection
  <2> QED BY <2>4, <2>5, Zenon DEF Bijection
<1> HIDE DEF A, B, f
<1>7. IsFiniteSet(B) /\ Cardinality(B) = Cardinality(A)
  <2>1. ExistsBijection(A, B)
    BY <1>6 DEF ExistsBijection
  <2> QED BY <1>2, <2>1, FS_Bijection
<1>8. Cardinality(A \cup B) = Cardinality(A) + Cardinality(B) - Cardinality(A \cap B)
  BY <1>2, <1>7, FS_Union
<1>9. Cardinality(A \cap B) = 0
  BY <1>5, FS_EmptySet
<1>10. Cardinality(A) \in Nat
  BY <1>2, FS_CardinalityType
<1>11. Cardinality(A \cup B) = 2 * Cardinality(A)
  BY <1>7, <1>8, <1>9, <1>10
<1> QED BY <1>2, <1>4, <1>11, Zenon

LEMMA PowerPositive == ASSUME NEW d \in Nat PROVE 2^d \in Nat \ {0}
<1> DEFINE T == { k \in Nat : 2^k \in Nat \ {0} }
<1>1. 0 \in T
  BY PowerZero
<1>2. ASSUME NEW k \in Nat, k \in T PROVE k + 1 \in T
  <2>1. 2^k \in Nat \ {0} /\ 2^(k + 1) = 2 * 2^k
    BY <1>2, PowerNext
  <2>2. 2 * 2^k \in Nat \ {0}
    BY <2>1
  <2> QED BY <2>1, <2>2
<1> HIDE DEF T
<1>3. Nat \subseteq T
  BY <1>1, <1>2, SetInduction
<1> QED BY <1>3 DEF T

(* The time of a divisor is twice that of the one below: different ones    *)
(* have different times, in order.                                         *)
LEMMA TimeNext ==
  ASSUME NEW d \in Nat
  PROVE  TimeOf(d) \in Nat \ {0} /\ TimeOf(d + 1) = 2 * TimeOf(d)
<1>1. PICK p \in Nat \ {0} : p = 2^d
  BY PowerPositive
<1>2. TimeOf(d) = MinTime * p /\ TimeOf(d + 1) = MinTime * (2 * p)
  BY <1>1, PowerNext DEF TimeOf
<1>3. MinTime \in Nat \ {0}
  BY Constants
<1>4. MinTime * p \in Nat \ {0} /\ MinTime * (2 * p) = 2 * (MinTime * p)
  BY <1>3
<1> QED BY <1>2, <1>4

LEMMA TimesRise ==
  ASSUME NEW d \in Nat, NEW e \in Nat, d < e
  PROVE  TimeOf(d + 1) <= TimeOf(e)
<1> DEFINE T == { k \in Nat : TimeOf(d + 1) <= TimeOf((d + 1) + k) }
<1>1. 0 \in T
  BY TimeNext
<1>2. ASSUME NEW k \in Nat, k \in T PROVE k + 1 \in T
  <2>1. PICK i \in Nat : i = (d + 1) + k /\ i + 1 = (d + 1) + (k + 1)
    OBVIOUS
  <2>2. TimeOf(d + 1) <= TimeOf(i)
    BY <1>2, <2>1
  <2>3. TimeOf(i) \in Nat /\ TimeOf(i + 1) = 2 * TimeOf(i)
    BY TimeNext
  <2>4. TimeOf(d + 1) \in Nat
    BY TimeNext
  <2>5. TimeOf(d + 1) <= TimeOf(i + 1)
    BY <2>2, <2>3, <2>4
  <2> QED BY <2>1, <2>5
<1> HIDE DEF T
<1>3. Nat \subseteq T
  BY <1>1, <1>2, SetInduction
<1>4. e - (d + 1) \in Nat /\ (d + 1) + (e - (d + 1)) = e
  OBVIOUS
<1> QED BY <1>3, <1>4 DEF T

(* The time of a divisor has that divisor, and no other.                   *)
LEMMA OneDivisor ==
  ASSUME NEW d \in 0..DivMax PROVE Divisors(TimeOf(d)) = {d}
<1>1. DivMax \in Nat /\ d \in Nat
  BY Constants
<1>2. ASSUME NEW e \in 0..DivMax, TimeOf(e) <= TimeOf(d), TimeOf(d) < TimeOf(e + 1)
      PROVE  e = d
  <2>1. /\ e \in Nat /\ TimeOf(d) \in Nat /\ TimeOf(e) \in Nat
        /\ TimeOf(d + 1) = 2 * TimeOf(d) /\ TimeOf(d) # 0 /\ TimeOf(e + 1) \in Nat
    BY <1>1, TimeNext
  <2>2. ~(d < e)
    <3>1. d < e => TimeOf(d + 1) <= TimeOf(e)
      BY <1>1, <2>1, TimesRise
    <3> QED BY <1>2, <2>1, <3>1
  <2>3. ~(e < d)
    <3>1. e < d => TimeOf(e + 1) <= TimeOf(d)
      BY <1>1, <2>1, TimesRise
    <3> QED BY <1>2, <2>1, <3>1
  <2> QED BY <1>1, <2>1, <2>2, <2>3
<1>3. TimeOf(d) <= TimeOf(d) /\ TimeOf(d) < TimeOf(d + 1)
  BY <1>1, TimeNext
<1> QED BY <1>2, <1>3 DEF Divisors

(* The interval is the time of a sample, exactly.                          *)
LEMMA Intervals ==
  ASSUME NEW d \in Nat, MinTime % Samples = 0
  PROVE  (TimeOf(d) \div Samples) * Samples = TimeOf(d)
<1>1. Samples \in Nat \ {0} /\ MinTime \in Nat
  BY Constants
<1>2. PICK p \in Nat : p = 2^d
  BY PowerPositive
<1>3. MinTime = (MinTime \div Samples) * Samples
  BY <1>1
<1>4. PICK q \in Int : q = MinTime \div Samples
  BY <1>1
<1>5. TimeOf(d) = (q * p) * Samples
  <2>1. TimeOf(d) = (q * Samples) * p
    BY <1>2, <1>3, <1>4 DEF TimeOf
  <2> QED BY <1>1, <2>1
<1>6. PICK r \in Int : r = q * p
  OBVIOUS
<1>7. (r * Samples) \div Samples = r
  BY <1>1
<1> QED BY <1>5, <1>6, <1>7

(* For every number of samples and divisors, if the shortest sweep takes a *)
(* whole number of intervals (SCOPE_MIN_SWEEP_TIME): setting the sweep     *)
(* time, or the interval, to what the query answers keeps it               *)
(* (cgr101_sweep_time).                                                    *)
THEOREM SweepTimeIsKept ==
  ASSUME MinTime % Samples = 0 PROVE Spec => []SweepTimeKept
<1>1. TypeOK => SweepTimeKept
  <2> SUFFICES ASSUME TypeOK PROVE SweepTimeKept
    OBVIOUS
  <2>0. div \in 0..DivMax /\ time = TimeOf(div)
    BY Zenon DEF TypeOK, SweepTyped
  <2>1. div \in 0..DivMax /\ div \in Nat /\ time = TimeOf(div)
    BY <2>0, Constants
  <2>2. Divisors(time) = {div}
    BY <2>1, OneDivisor
  <2>3. Interval * Samples = time
    BY <2>1, Intervals DEF Interval
  <2> QED BY <2>2, <2>3 DEF SweepTimeKept
<1> QED BY <1>1, TypeCorrect, PTL

----------------------------------------------------------------------------
(* The four numbers of a range.  A command may halve a span, so that after *)
(* k commands the numbers are multiples of a unit that is 2^k times finer  *)
(* than that of the values the client sends.                               *)
OnGrid(v, k) == \E q \in Int : v = q * 2^k

Exact(r, k) ==
  /\ OnGrid(r.low, k) /\ OnGrid(r.high, k) /\ OnGrid(r.mid, k)
  /\ r.ptp = r.high - r.low
  /\ 2 * r.mid = r.low + r.high

LEMMA GridHalf ==
  ASSUME NEW k \in Nat, NEW v, OnGrid(v, k + 1)
  PROVE  v \in Int /\ OnGrid(v, k) /\ 2 * (v \div 2) = v /\ OnGrid(v \div 2, k)
<1>1. PICK q \in Int : v = q * 2^(k + 1)
  BY DEF OnGrid
<1>2. PICK p \in Nat : p = 2^k
  BY PowerPositive
<1>3. v = q * (2 * p)
  BY <1>1, <1>2, PowerNext
<1>4. PICK h \in Int : h = q * p
  OBVIOUS
<1>5. v = 2 * h /\ v = (2 * q) * p
  BY <1>3, <1>4
<1>6. v \div 2 = h
  BY <1>5
<1>7. v \in Int /\ 2 * q \in Int /\ 2 * (v \div 2) = v
  BY <1>5, <1>6
<1> QED BY <1>2, <1>4, <1>5, <1>6, <1>7 DEF OnGrid

LEMMA GridSum ==
  ASSUME NEW k \in Nat, NEW u, NEW v, OnGrid(u, k), OnGrid(v, k)
  PROVE  OnGrid(u + v, k) /\ OnGrid(u - v, k) /\ u \in Int /\ v \in Int
<1>1. PICK a \in Int, b \in Int : u = a * 2^k /\ v = b * 2^k
  BY DEF OnGrid
<1>2. PICK p \in Nat : p = 2^k
  BY PowerPositive
<1>3. u + v = (a + b) * p /\ u - v = (a - b) * p /\ u \in Int /\ v \in Int
  BY <1>1, <1>2
<1>4. a + b \in Int /\ a - b \in Int
  OBVIOUS
<1> QED BY <1>2, <1>3, <1>4 DEF OnGrid

LEMMA GridZero == ASSUME NEW k \in Nat PROVE OnGrid(0, k)
<1>1. PICK p \in Nat : p = 2^k
  BY PowerPositive
<1>2. 0 = 0 * p
  OBVIOUS
<1> QED BY <1>1, <1>2 DEF OnGrid

LEMMA ExactDown == ASSUME NEW k \in Nat, NEW r, Exact(r, k + 1) PROVE Exact(r, k)
BY GridHalf, Zenon DEF Exact

LEMMA LowHighExact ==
  ASSUME NEW k \in Nat, NEW low, NEW high, OnGrid(low, k + 1), OnGrid(high, k + 1)
  PROVE  Exact(WithRange(FromLowHigh(low, high)), k)
<1>1. PICK p : p = high - low
  OBVIOUS
<1>2. OnGrid(p, k + 1) /\ low \in Int /\ high \in Int
  BY <1>1, GridSum
<1>3. PICK h : h = p \div 2
  OBVIOUS
<1>4. OnGrid(h, k) /\ 2 * h = p /\ p \in Int
  BY <1>2, <1>3, GridHalf
<1>5. OnGrid(low, k) /\ OnGrid(high, k)
  BY GridHalf
<1>6. OnGrid(low + h, k) /\ h \in Int
  BY <1>4, <1>5, GridSum
<1>7. 2 * (low + h) = low + high
  BY <1>1, <1>2, <1>4, <1>6
<1>8. /\ WithRange(FromLowHigh(low, high)).low = low
      /\ WithRange(FromLowHigh(low, high)).high = high
      /\ WithRange(FromLowHigh(low, high)).mid = low + h
      /\ WithRange(FromLowHigh(low, high)).ptp = high - low
  BY <1>1, <1>3 DEF WithRange, FromLowHigh
<1> QED BY <1>5, <1>6, <1>7, <1>8, Zenon DEF Exact

LEMMA MidPtpExact ==
  ASSUME NEW k \in Nat, NEW mid, NEW ptp, OnGrid(mid, k + 1), OnGrid(ptp, k + 1)
  PROVE  Exact(WithRange(FromMidPtp(mid, ptp)), k)
<1>1. PICK h : h = ptp \div 2
  OBVIOUS
<1>2. OnGrid(h, k) /\ 2 * h = ptp /\ ptp \in Int
  BY <1>1, GridHalf
<1>3. OnGrid(mid, k) /\ mid \in Int
  BY GridHalf
<1>4. OnGrid(mid - h, k) /\ OnGrid(mid + h, k) /\ h \in Int
  BY <1>2, <1>3, GridSum
<1>5. 2 * mid = (mid - h) + (mid + h) /\ ptp = (mid + h) - (mid - h)
  BY <1>2, <1>3, <1>4
<1>6. /\ WithRange(FromMidPtp(mid, ptp)).low = mid - h
      /\ WithRange(FromMidPtp(mid, ptp)).high = mid + h
      /\ WithRange(FromMidPtp(mid, ptp)).mid = mid
      /\ WithRange(FromMidPtp(mid, ptp)).ptp = ptp
  BY <1>1 DEF WithRange, FromMidPtp
<1> QED BY <1>3, <1>4, <1>5, <1>6, Zenon DEF Exact

LEMMA DefaultExact ==
  ASSUME NEW k \in Nat, OnGrid(DefaultHigh, k) PROVE Exact(DefaultRange, k)
<1>1. OnGrid(0, k)
  BY GridZero
<1>2. OnGrid(0 - DefaultHigh, k) /\ DefaultHigh \in Int
  BY <1>1, GridSum
<1>3. -DefaultHigh = 0 - DefaultHigh
  BY <1>2
<1>4. OnGrid(-DefaultHigh, k)
  BY <1>2, <1>3
<1>5. 2 * DefaultHigh = DefaultHigh - (-DefaultHigh) /\ 2 * 0 = -DefaultHigh + DefaultHigh
  BY <1>2
<1>6. /\ DefaultRange.low = -DefaultHigh /\ DefaultRange.high = DefaultHigh
      /\ DefaultRange.mid = 0 /\ DefaultRange.ptp = 2 * DefaultHigh
  BY DEF DefaultRange
<1> QED BY <1>1, <1>4, <1>5, <1>6, Zenon DEF Exact

(* The unit becomes finer with each command.                               *)
ExactInv ==
  \E k \in Nat :
    /\ n + k = MaxCommands
    /\ \A v \in Volts \cup {DefaultHigh} : OnGrid(v, k)
    /\ \A c \in Channel : Exact(input[c], k)

LEMMA VoltageExact ==
  ASSUME TypeOK, Voltage, NEW k \in Nat,
         \A v \in Volts : OnGrid(v, k + 1),
         \A c \in Channel : Exact(input[c], k + 1)
  PROVE  \A c \in Channel : Exact(input'[c], k)
<1>1. PICK chans \in SUBSET Channel \ {{}}, v \in Volts :
        \/ VoltageLow(chans, v) \/ VoltageUp(chans, v)
        \/ VoltageOffset(chans, v) \/ VoltagePtp(chans, v)
  BY DEF Voltage
<1> TAKE c \in Channel
<1>2. OnGrid(v, k + 1)
  OBVIOUS
<1>3. /\ OnGrid(input[c].low, k + 1) /\ OnGrid(input[c].high, k + 1)
      /\ OnGrid(input[c].mid, k + 1)
      /\ input[c].ptp = input[c].high - input[c].low
      /\ Exact(input[c], k)
  BY ExactDown DEF Exact
<1>4. OnGrid(input[c].ptp, k + 1)
  BY <1>3, GridSum, k + 1 \in Nat
<1>5. ASSUME NEW new, SetInput(chans, new), Exact(WithRange(new[c]), k)
      PROVE  Exact(input'[c], k)
  <2>1. input'[c] = WithRange(new[c]) \/ input'[c] = input[c]
    BY <1>5, Zenon DEF SetInput
  <2> QED BY <1>3, <1>5, <2>1, Zenon
<1>6. CASE VoltageLow(chans, v)
  BY <1>2, <1>3, <1>5, <1>6, LowHighExact DEF VoltageLow
<1>7. CASE VoltageUp(chans, v)
  BY <1>2, <1>3, <1>5, <1>7, LowHighExact DEF VoltageUp
<1>8. CASE VoltageOffset(chans, v)
  BY <1>2, <1>4, <1>5, <1>8, MidPtpExact DEF VoltageOffset
<1>9. CASE VoltagePtp(chans, v)
  BY <1>2, <1>3, <1>5, <1>9, MidPtpExact DEF VoltagePtp
<1> QED BY <1>1, <1>6, <1>7, <1>8, <1>9

LEMMA ExactStep == ASSUME TypeOK, ExactInv, [Next]_dvars PROVE ExactInv'
<1>1. PICK k \in Nat : /\ n + k = MaxCommands
                       /\ \A v \in Volts \cup {DefaultHigh} : OnGrid(v, k)
                       /\ \A c \in Channel : Exact(input[c], k)
  BY DEF ExactInv
<1>2. n \in Nat /\ MaxCommands \in Nat
  BY DigitizerAssumption DEF TypeOK
<1>3. CASE UNCHANGED dvars
  BY <1>1, <1>3 DEF ExactInv, dvars, settings
<1>4. CASE Next
  <2>1. n' = n + 1 /\ n < MaxCommands
    BY <1>4 DEF Next, Voltage, SweepTime, TriggerPosition, Trigger, TriggerLevel, ChannelState,
       InputOffset, Rst, Initiate, InitiateFails, Handled
  <2>2. PICK j \in Nat : k = j + 1
    <3>1. k - 1 \in Nat /\ k = (k - 1) + 1
      BY <1>1, <1>2, <2>1
    <3> QED BY <3>1
  <2>3. n' + j = MaxCommands
    BY <1>1, <1>2, <2>1, <2>2
  <2>4. \A v \in Volts \cup {DefaultHigh} : OnGrid(v, j)
    BY <1>1, <2>2, GridHalf
  <2>5. \A c \in Channel : Exact(input'[c], j)
    <3>1. CASE Voltage
      BY <1>1, <2>2, <3>1, VoltageExact
    <3>2. CASE Rst
      <4>1. input' = [ c \in Channel |-> DefaultRange ]
        BY <3>2 DEF Rst
      <4>2. Exact(DefaultRange, j)
        BY <2>4, DefaultExact
      <4> QED BY <4>1, <4>2
    <3>3. CASE ~Voltage /\ ~Rst
      <4>1. input' = input
        BY <1>4, <3>3 DEF Next, SweepTime, TriggerPosition, Trigger, TriggerLevel, ChannelState,
           InputOffset, Initiate, InitiateFails, settings
      <4> QED BY <1>1, <2>2, <4>1, ExactDown
    <3> QED BY <3>1, <3>2, <3>3
  <2> QED BY <2>3, <2>4, <2>5 DEF ExactInv
<1> QED BY <1>3, <1>4

(* Whichever numbers of a range were set, in any order: the four numbers   *)
(* belong to one range.  The values are given in a unit in which as many   *)
(* halves as there are commands are exact, as they are in the code's       *)
(* doubles (cgr101_digitizer_voltage_low, _up, _offset, _ptp).             *)
THEOREM RangesAreCoherent ==
  ASSUME \A v \in Volts \cup {DefaultHigh} : v % 2^MaxCommands = 0
  PROVE  Spec => []RangesCohere
<1>1. MaxCommands \in Nat /\ Volts \cup {DefaultHigh} \subseteq Int
  BY DigitizerAssumption
<1>2. ASSUME NEW v \in Volts \cup {DefaultHigh} PROVE OnGrid(v, MaxCommands)
  <2>1. PICK p \in Nat \ {0} : p = 2^MaxCommands
    BY <1>1, PowerPositive
  <2>2. v \in Int /\ v % p = 0
    BY <1>1, <2>1
  <2>3. v = (v \div p) * p /\ v \div p \in Int
    BY <2>2
  <2> QED BY <2>1, <2>3 DEF OnGrid
<1>3. Init => ExactInv
  <2> SUFFICES ASSUME Init PROVE ExactInv
    OBVIOUS
  <2>1. n = 0 /\ input = [ c \in Channel |-> DefaultRange ]
    BY DEF Init
  <2>2. Exact(DefaultRange, MaxCommands)
    BY <1>1, <1>2, DefaultExact
  <2>3. n + MaxCommands = MaxCommands
    BY <1>1, <2>1
  <2> QED BY <1>1, <1>2, <2>1, <2>2, <2>3 DEF ExactInv
<1>4. TypeOK /\ ExactInv /\ [Next]_dvars => ExactInv'
  BY ExactStep
<1>5. ExactInv => RangesCohere
  BY DEF ExactInv, Exact, RangesCohere
<1> QED BY <1>3, <1>4, <1>5, TypeCorrect, PTL DEF Spec
=============================================================================
