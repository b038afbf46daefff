------------------------------ MODULE Digitizer ------------------------------
(***************************************************************************)
(* The settings of the oscilloscope (cgr101.c): voltage ranges, sweep time,*)
(* offset and reference of the trigger, trigger level, and what of them    *)
(* the device is told, and when.  Numbers that are doubles in the code are *)
(* integers here, in units in which every value that occurs is exact.      *)
(***************************************************************************)
EXTENDS Integers, Sequences

CONSTANTS
  Channel,                 \* the input channels
  Samples,                 \* SCOPE_NUM_SAMPLE
  DivMax,                  \* SCOPE_SR_DIV_MAX
  MinTime,                 \* SCOPE_MIN_SWEEP_TIME
  StepHigh, StepLow,       \* volts per step of the converter in the two ranges
  Mid, Levels,             \* MP10, and the number of values of the converter
  LowLimit, DefaultHigh,   \* 2.5 V and SCOPE_DEFAULT_HIGH
  TriggerChannel,          \* the channel of the internal trigger
  Second,                  \* the unit of time the client uses, in those of Times
  Volts, Times, Points,    \* the values the client sends
  ShortTimes,              \* those it sends for an interval or an offset
  InputOffsets,            \* the offsets of an input: [ low, high ]
  Unset,                   \* a register that was never written
  MaxCommands              \* bound: how many commands the client sends

ASSUME DigitizerAssumption ==
  /\ TriggerChannel \in Channel
  /\ Samples \in 1..1024 /\ DivMax \in Nat /\ MinTime \in Nat \ {0}
  /\ StepHigh \in Nat \ {0} /\ StepLow \in Nat \ {0}
  /\ Mid \in Int /\ Levels \in Nat
  /\ LowLimit \in Nat /\ DefaultHigh \in Nat /\ LowLimit < DefaultHigh
  /\ Second \in Nat \ {0}
  /\ Volts \subseteq Int /\ Times \subseteq Int /\ Points \subseteq Int
  /\ ShortTimes \subseteq Int
  /\ InputOffsets \subseteq [ low : Int, high : Int ]
  /\ MaxCommands \in Nat

VARIABLES
  input,        \* scope.channel[]: the range of each input
  inputOffset,  \* scope.channel[].offset_low, .offset_high
  enable,       \* the channels that are enabled
  time, div,    \* scope.sweep_time, .sample_rate_divisor
  offset, ref,  \* scope.trigger_offset, .trigger_ref
  negative,     \* scope.trigger_polarity
  source,       \* scope.trigger_source
  preamp,       \* the device: each channel's preamplifier is in its low range
  control,      \* the device: its control register
  trigger,      \* the device: its trigger level
  capture,      \* the device: post-trigger count and sample rate of the capture
  forced,       \* history: the channels whose range *RST has forced
  failed,       \* the function whose assertion has failed, or ""
  n             \* how many commands were sent

settings == << input, inputOffset, enable, time, div, offset, ref, negative, source >>
device   == << preamp, control, trigger, capture >>
dvars    == << settings, device, forced, failed, n >>

VoltageRange == [ low : Int, high : Int, mid : Int, ptp : Int, lowRange : BOOLEAN ]

DefaultRange ==
  [ low |-> -DefaultHigh, high |-> DefaultHigh, mid |-> 0, ptp |-> 2 * DefaultHigh,
    lowRange |-> FALSE ]

(* cgr101_device_init(): the ranges are sent, the control register is not. *)
Init ==
  /\ input = [ c \in Channel |-> DefaultRange ]
  /\ inputOffset = [ c \in Channel |-> [ low |-> 0, high |-> 0 ] ]
  /\ enable = {}
  /\ time = MinTime /\ div = 0
  /\ offset = 0 /\ ref = Samples \div 2
  /\ negative = FALSE /\ source = "INT"
  /\ preamp = [ c \in Channel |-> FALSE ]
  /\ control = Unset /\ trigger = Unset /\ capture = Unset
  /\ forced = {} /\ failed = "" /\ n = 0

(* A command is handled while the program has not ended.                   *)
Handled == failed = "" /\ n < MaxCommands /\ n' = n + 1

OK == failed' = failed

----------------------------------------------------------------------------
(* The range of an input: two of its four numbers are derived from the     *)
(* other two, and the preamplifier's range from them.                      *)

FromLowHigh(low, high) ==
  [ low |-> low, high |-> high, ptp |-> high - low, mid |-> low + (high - low) \div 2 ]

(* A seeded fault: the whole span is added to the middle.                  *)
FromMidPtp_Whole(mid, ptp) ==
  [ low |-> mid - ptp, high |-> mid + ptp, ptp |-> ptp, mid |-> mid ]

FromMidPtp(mid, ptp) ==
  [ low |-> mid - ptp \div 2, high |-> mid + ptp \div 2, ptp |-> ptp, mid |-> mid ]

FitsLow(low, high) == low >= -LowLimit /\ high <= LowLimit

WithRange(r) ==
  [ low |-> r.low, high |-> r.high, mid |-> r.mid, ptp |-> r.ptp,
    lowRange |-> FitsLow(r.low, r.high) ]

(* A seeded fault: the range is sent when it becomes the low one only.     *)
SetInput_SendsLowOnly(chans, new) ==
  /\ input' = [ c \in Channel |-> IF c \in chans THEN WithRange(new[c]) ELSE input[c] ]
  /\ preamp' = [ c \in Channel |-> preamp[c] \/ (c \in chans /\ input'[c].lowRange) ]
  /\ forced' = forced \ chans
  /\ UNCHANGED << inputOffset, enable, time, div, offset, ref, negative, source,
                  control, trigger, capture >>

SetInput(chans, new) ==
  /\ input' = [ c \in Channel |-> IF c \in chans THEN WithRange(new[c]) ELSE input[c] ]
  /\ preamp' = [ c \in Channel |-> IF c \in chans THEN input'[c].lowRange ELSE preamp[c] ]
  /\ forced' = forced \ chans
  /\ UNCHANGED << inputOffset, enable, time, div, offset, ref, negative, source,
                  control, trigger, capture >>

VoltageLow(chans, v) ==
  SetInput(chans, [ c \in Channel |-> FromLowHigh(v, input[c].high) ])
VoltageUp(chans, v) ==
  SetInput(chans, [ c \in Channel |-> FromLowHigh(input[c].low, v) ])
VoltageOffset(chans, v) ==
  SetInput(chans, [ c \in Channel |-> FromMidPtp(v, input[c].ptp) ])
VoltagePtp(chans, v) ==
  SetInput(chans, [ c \in Channel |-> FromMidPtp(input[c].mid, v) ])

Voltage ==
  /\ Handled /\ OK
  /\ \E chans \in SUBSET Channel \ {{}}, v \in Volts :
       \/ VoltageLow(chans, v) \/ VoltageUp(chans, v)
       \/ VoltageOffset(chans, v) \/ VoltagePtp(chans, v)

----------------------------------------------------------------------------
(* The sweep: its time is rounded down to one the device has.              *)

TimeOf(d) == MinTime * 2^d

(* A seeded fault: the exact time of a divisor is given to the one below.  *)
Divisors_Above(t) == { d \in 0..DivMax : TimeOf(d) < t /\ t <= TimeOf(d + 1) }

Divisors(t) == { d \in 0..DivMax : TimeOf(d) <= t /\ t < TimeOf(d + 1) }

SetTime(t) ==
  IF Divisors(t) = {} THEN UNCHANGED << time, div >>
  ELSE \E d \in Divisors(t) : div' = d /\ time' = TimeOf(d)

SweepTime ==
  /\ Handled /\ OK
  /\ (\E t \in Times : SetTime(t)) \/ (\E t \in ShortTimes : SetTime(t * Samples))
  /\ UNCHANGED << input, inputOffset, enable, offset, ref, negative, source,
                  device, forced >>

Interval == time \div Samples

(* A value that is out of range is ignored.  An offset given as a time is  *)
(* multiplied by the interval, both in seconds.                            *)
NewOffset(p) == IF 2 * p >= -Samples /\ 2 * p < Samples THEN p ELSE offset

(* A seeded fault: the bound itself is accepted.                           *)
NewRef_OffByOne(p) == IF p >= 0 /\ p <= Samples THEN p ELSE ref

NewRef(p) == IF p >= 0 /\ p < Samples THEN p ELSE ref

OffsetOfTime(t) == NewOffset(((t * Interval) \div Second) \div Second)

TriggerPosition ==
  /\ Handled /\ OK
  /\ \/ (\E p \in Points : offset' = NewOffset(p)) /\ UNCHANGED ref
     \/ (\E t \in ShortTimes : offset' = OffsetOfTime(t)) /\ UNCHANGED ref
     \/ (\E p \in Points : ref' = NewRef(p)) /\ UNCHANGED offset
  /\ UNCHANGED << input, inputOffset, enable, time, div, negative, source, device,
                  forced >>

----------------------------------------------------------------------------
(* The trigger.                                                            *)

(* The control register as cgr101_digitizer_update_control() writes it.    *)
Control(external) == [ div |-> div, negative |-> negative, external |-> external ]

Trigger ==
  /\ Handled /\ OK
  /\ \/ negative' \in BOOLEAN /\ UNCHANGED source
     \/ source' \in { "IMM", "INT", "EXT" } /\ UNCHANGED negative
  /\ control' = [ Control(FALSE) EXCEPT !.negative = negative' ]
  /\ UNCHANGED << input, inputOffset, enable, time, div, offset, ref, preamp,
                  trigger, capture, forced >>

(* round() of a quotient, halves away from zero.                           *)
Round(a, b) == IF a >= 0 THEN (2 * a + b) \div (2 * b) ELSE -((b - 2 * a) \div (2 * b))

StepOf(c)  == IF input[c].lowRange THEN StepLow ELSE StepHigh
ShiftOf(c) == IF input[c].lowRange THEN inputOffset[c].low ELSE inputOffset[c].high

(* The voltage a value of the converter shows, and the value of a voltage. *)
DataToVoltage(c, d) == (Mid - d) * StepOf(c) - ShiftOf(c)

(* A seeded fault: the quotient is truncated.                              *)
VoltageToData_Truncated(c, v) == Mid - (v + ShiftOf(c)) \div StepOf(c)

VoltageToData(c, v) == Mid - Round(v + ShiftOf(c), StepOf(c))

TriggerLevel(v) ==
  /\ Handled
  /\ LET d == VoltageToData(TriggerChannel, v)
     IN  IF d >= 0 /\ d < Levels
         THEN trigger' = d /\ OK
         ELSE failed' = "cgr101_trigger_level" /\ UNCHANGED trigger
  /\ UNCHANGED << settings, preamp, control, capture, forced >>

----------------------------------------------------------------------------
(* Channels, reset and start.                                              *)

ChannelState ==
  /\ Handled /\ OK
  /\ \E chans \in SUBSET Channel \ {{}} : enable' \in { enable \cup chans, enable \ chans }
  /\ UNCHANGED << input, inputOffset, time, div, offset, ref, negative, source,
                  device, forced >>

InputOffset ==
  /\ Handled /\ OK
  /\ inputOffset' \in [ Channel -> InputOffsets ]
  /\ UNCHANGED << input, enable, time, div, offset, ref, negative, source, device,
                  forced >>

(* *RST: the ranges are reset, and the device is not told.                 *)
Rst ==
  /\ Handled /\ OK
  /\ offset' = 0 /\ ref' = Samples \div 2
  /\ SetTime(MinTime)
  /\ enable' = {}
  /\ input' = [ c \in Channel |-> DefaultRange ]
  /\ forced' = Channel
  /\ UNCHANGED << inputOffset, negative, source, device >>

PostTrigger == Samples - ref - offset

(* What is written to the control register while a capture is started.     *)
(* Without a trigger to wait for, or when the client says so, the external *)
(* input is switched on, pulsed after a delay, and switched off again.     *)
ControlWrites(manual) ==
  IF manual \/ source = "IMM"
  THEN << Control(FALSE), Control(TRUE), Control(FALSE) >>
  ELSE << Control(FALSE) >>

(* A seeded fault: the high byte of the count keeps one bit.               *)
Start_OneBit(manual) ==
  /\ LET writes == ControlWrites(manual) IN control' = writes[Len(writes)]
  /\ capture' = [ post |-> ((PostTrigger \div 256) % 2) * 256 + (PostTrigger % 256),
                  div |-> div ]

(* cgr101_digitizer_start(): the count, the control register, GO, and the  *)
(* manual trigger.                                                         *)
Start(manual) ==
  /\ LET writes == ControlWrites(manual) IN control' = writes[Len(writes)]
  /\ capture' = [ post |-> ((PostTrigger \div 256) % 4) * 256 + (PostTrigger % 256),
                  div |-> div ]

Initiate ==
  /\ Handled /\ OK
  /\ \/ enable = {} /\ UNCHANGED << control, capture >>
     \/ /\ enable # {} /\ PostTrigger >= 0 /\ PostTrigger < Samples
        /\ \E manual \in BOOLEAN : Start(manual)
  /\ UNCHANGED << settings, preamp, trigger, forced >>

(* The count is out of bounds: an error, which the callers assert is none. *)
InitiateFails ==
  /\ Handled
  /\ enable # {} /\ ~(PostTrigger >= 0 /\ PostTrigger < Samples)
  /\ failed' = "cgr101_initiate"
  /\ UNCHANGED << settings, device, forced >>

Next ==
  \/ Voltage \/ SweepTime \/ TriggerPosition \/ Trigger
  \/ (\E v \in Volts : TriggerLevel(v))
  \/ ChannelState \/ InputOffset \/ Rst \/ Initiate \/ InitiateFails

Spec == Init /\ [][Next]_dvars

----------------------------------------------------------------------------
ControlRegister == [ div : 0..DivMax, negative : BOOLEAN, external : BOOLEAN ]
Capture         == [ post : 0..Samples-1, div : 0..DivMax ]

InputsTyped ==
  /\ input \in [ Channel -> VoltageRange ]
  /\ inputOffset \in [ Channel -> [ low : Int, high : Int ] ]
  /\ enable \subseteq Channel
  /\ preamp \in [ Channel -> BOOLEAN ] /\ forced \subseteq Channel

SweepTyped == div \in 0..DivMax /\ time = TimeOf(div)

PositionTyped ==
  /\ offset \in Int /\ 2 * offset >= -Samples /\ 2 * offset < Samples
  /\ ref \in 0..Samples-1

RegistersTyped ==
  /\ negative \in BOOLEAN /\ source \in { "IMM", "INT", "EXT" }
  /\ control \in ControlRegister \cup {Unset}
  /\ trigger \in 0..Levels-1 \cup {Unset}
  /\ capture \in Capture \cup {Unset}

TypeOK ==
  /\ InputsTyped /\ SweepTyped /\ PositionTyped /\ RegistersTyped
  /\ failed \in { "", "cgr101_trigger_level", "cgr101_initiate" }
  /\ n \in Nat

(* Whichever of its four numbers was set last, the range of an input is    *)
(* one range (the comment before cgr101_digitizer_voltage_low).            *)
RangesCohere ==
  \A c \in Channel : /\ input[c].ptp = input[c].high - input[c].low
                     /\ 2 * input[c].mid = input[c].low + input[c].high

(* The samples of a channel are converted with the steps of the range its  *)
(* preamplifier is in, which is the low one if the expected voltages fit   *)
(* (cgr101_digitizer_set_range, cgr101_digitizer_value); from a *RST to    *)
(* the next voltage command the device has not been told.                  *)
PreampFollows ==
  \A c \in Channel :
    /\ input[c].lowRange <=> input[c].low >= -LowLimit /\ input[c].high <= LowLimit
    /\ c \notin forced => preamp[c] = input[c].lowRange

(* Setting the sweep time, or the interval, to what the query answers      *)
(* keeps it (cgr101_sweep_time).                                           *)
SweepTimeKept == Divisors(time) = {div} /\ Divisors(Interval * Samples) = {div}

(* A capture is started with the sample rate of the sweep time, and with a *)
(* count, sent as bytes, that puts the trigger inside the record and the   *)
(* offset away from the reference (cgr101_digitizer_start).  On which side *)
(* of it is left open: the code has the trigger at ref + offset, the notes *)
(* on the couplings (doc/cgr101-scpi.org) at ref - offset.                 *)
CaptureAsSet ==
  [][capture' # capture
       => LET before == Samples - capture'.post
          IN  /\ before \in 1..Samples
              /\ before - ref = offset \/ ref - before = offset
              /\ capture'.div = div /\ control'.div = div]_dvars

Abs(x) == IF x < 0 THEN -x ELSE x

(* An accepted trigger level is the converter's value that shows the       *)
(* nearest voltage, in the range and with the offset of the input          *)
(* (cgr101_trigger_level against cgr101_digitizer_value).                  *)
LevelIsNearest ==
  [][\A v \in Volts :
       TriggerLevel(v) /\ failed' = ""
         => 2 * Abs(DataToVoltage(TriggerChannel, trigger') - v)
              <= StepOf(TriggerChannel)]_dvars
=============================================================================
