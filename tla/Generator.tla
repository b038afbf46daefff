----------------------------- MODULE Generator ------------------------------
(***************************************************************************)
(* The signal sources of the instrument (cgr101.c): the waveform and its   *)
(* table, amplitude and frequency, the pulse width modulator and the       *)
(* digital output, with what the device has been told of each.             *)
(*                                                                         *)
(* Levels and samples are integers in units of 1/Unit.  The table of the   *)
(* waveform is kept as what it was made from; Sample() computes it.        *)
(***************************************************************************)
EXTENDS ProgramLists

CONSTANTS
  Unit,         \* the integer that stands for 1.0
  Steps,        \* WAVEFORM_USER_MAX
  Sine,         \* the samples of sin() over one period
  PwmFreq,      \* cgr101_pwm_freq, with its sentinel
  Level,        \* the numbers sent as levels and duty cycles
  Frequency,    \* those sent as frequencies, in units of K1/4 for the waveform
  Byte,         \* those sent as digital output
  MaxCommands   \* bound on the number of commands

ASSUME TableSizes == Unit \in Nat \ {0} /\ Steps \in Nat \ {0}
ASSUME TableAssumption ==
  /\ (4 * Unit) % Steps = 0
  /\ Sine \in [ 0..Steps-1 -> -Unit..Unit ]
  /\ Len(PwmFreq) > 1

ASSUME LevelAssumption == Level \subseteq Int

VARIABLES
  shape,      \* waveform.shape
  user,       \* waveform.user: the shape or the list of numbers it was filled from
  amplitude, frequency,   \* waveform.amplitude, .frequency
  duty,       \* pwm.duty_cycle, in units of 1/255
  pwm,        \* pwm.frequency
  digital,    \* digital_write_data
  told,       \* what the device was told, of what it has been told something
  asked,      \* history: the duty cycle that was last chosen by a number
  commands

settings == << shape, user, amplitude, frequency, duty, pwm, digital >>
vars == << listVars, settings, told, asked, commands >>

(* A table made from a shape, and one made from the numbers of a list.     *)
Of(name)     == [ from |-> name, data |-> << >> ]
OfList(data) == [ from |-> "USER", data |-> data ]

Tell(what, x) ==
  told' = [ y \in { what } \cup DOMAIN told |-> IF y = what THEN x ELSE told[y] ]

GeneratorInit ==
  /\ ListInit
  /\ shape = "NONE" /\ user = Of("NONE")
  /\ amplitude = 0 /\ frequency = 0 /\ duty = 0 /\ pwm = 0 /\ digital = 0
  /\ told = << >> /\ asked = 0
  /\ commands = 0

Command ==
  /\ failed = "" /\ commands < MaxCommands
  /\ commands' = commands + 1

Plain == Command /\ ~Reading /\ UNCHANGED listVars

----------------------------------------------------------------------------
(* cgr101_fn_interp(): the value at the phase i/Steps of the line through  *)
(* the points, in units of 1/(Unit * Steps).                               *)
Interpolate(data, i) ==
  LET at == i * (Len(data) - 1)
      k  == at \div Steps
  IN  data[k+1] * Steps + (data[k+2] - data[k+1]) * (at % Steps)

(* cgr101_fn_squ(), cgr101_fn_tri()                                        *)
Square(i)   == IF 2 * i < Steps THEN Unit ELSE -Unit
Triangle(i) ==
  LET phase == i * ((4 * Unit) \div Steps)
  IN  IF phase < 2 * Unit THEN phase - Unit ELSE 3 * Unit - phase

(* waveform.user[i], in units of 1/(Unit * Steps): cgr101_waveform_create(), *)
(* cgr101_waveform_user(), and the zeros of calloc().                      *)
Sample(u, i) ==
  CASE u.from = "NONE" -> 0
    [] u.from = "SIN" -> Steps * Sine[i]
    [] u.from = "SQU" -> Steps * Square(i)
    [] u.from = "TRI" -> Steps * Triangle(i)
    [] OTHER -> IF Len(u.data) = 1 THEN Steps * u.data[1] ELSE Interpolate(u.data, i)

(* A seeded fault: rounded down, not up.                                   *)
Conv_Floor(v) == 128 - (255 * v) \div (2 * Unit * Steps)

(* cgr101_waveform_conv(): 255 - ceil(127.5 v + 127)                       *)
Conv(v) == 128 + (-255 * v) \div (2 * Unit * Steps)

(* The assertions of cgr101_waveform_program().                            *)
InByte(u) == \A i \in 0..Steps-1 : Conv(Sample(u, i)) \in 0..255

----------------------------------------------------------------------------
(* The names of cgr101_waveform_map, and the other spellings the scanner   *)
(* has for them.                                                           *)
Shape == { "NONE", "RAND", "SIN", "SQU", "TRI" }
LongForm == { "RANDom", "SINusoid", "SQUare", "TRIangle" }

(* A seeded fault: noise, which needs no table, leaves the shape alone.    *)
Function_KeepsShape(name) ==
  /\ Plain
  /\ name # "NONE"
  /\ shape' = IF name = "RAND" THEN shape ELSE name
  /\ user' = IF name = "RAND" THEN user ELSE Of(name)
  /\ Tell("wave", IF name = "RAND" THEN Of("RAND") ELSE user')
  /\ UNCHANGED << amplitude, frequency, duty, pwm, digital, asked >>

(* SOURce:FUNCtion: cgr101_waveform_create() and cgr101_waveform_program(). *)
(* For RAND the table stays, and the device makes the noise.               *)
Function(name) ==
  /\ Plain
  /\ name # "NONE"
  /\ shape' = name
  /\ user' = IF name = "RAND" THEN user ELSE Of(name)
  /\ Tell("wave", IF name = "RAND" THEN Of("RAND") ELSE user')
  /\ UNCHANGED << amplitude, frequency, duty, pwm, digital, asked >>

(* NONE changes nothing.                                                   *)
FunctionNone == Plain /\ UNCHANGED << settings, told, asked >>

(* cgr101_waveform_lookup() runs past the end of its map for any other     *)
(* name, and compares with a NULL.                                         *)
FunctionUnknown(name) ==
  /\ Command /\ ~Reading
  /\ Fail("cgr101_waveform_lookup")
  /\ UNCHANGED << settings, told, asked >>

(* SOURce:FUNCtion:USER: the shape is set first, then the table is filled  *)
(* and sent; both refuse by an assertion.  Those on types hold: scpi.y has *)
(* nothing but a FLOAT in a list (nrf).                                    *)
FunctionUser ==
  /\ Command /\ list # << >>
  /\ shape' = "USER"
  /\ IF Len(list) > Steps
     THEN Fail("cgr101_waveform_user") /\ UNCHANGED << user, told >>
     ELSE /\ user' = OfList(list)
          /\ IF InByte(user')
             THEN Tell("wave", user') /\ NothingRead /\ UNCHANGED << pool, failed >>
             ELSE Fail("cgr101_waveform_program") /\ UNCHANGED told
  /\ UNCHANGED << amplitude, frequency, duty, pwm, digital, asked >>

----------------------------------------------------------------------------
(* SOURce:FUNCtion:LEVel: out of range is ignored, without an error.       *)
FunctionLevel(v) ==
  /\ Plain
  /\ IF 0 <= v /\ v <= Unit
     THEN /\ amplitude' = v
          /\ Tell("amp", (255 * v) \div Unit)
     ELSE UNCHANGED << amplitude, told >>
  /\ UNCHANGED << shape, user, frequency, duty, pwm, digital, asked >>

(* The bytes of the phase increment, the high one first.                   *)
PhaseBytes(n) ==
  << (n \div 16777216) % 256, (n \div 65536) % 256, (n \div 256) % 256, n % 256 >>

(* SOURce:FREQuency                                                        *)
WaveFrequency(v) ==
  /\ Plain
  /\ frequency' = v
  /\ Tell("phase", PhaseBytes(v \div 4))
  /\ UNCHANGED << shape, user, amplitude, duty, pwm, digital, asked >>

(* MINimum and MAXimum are numeric values to the parser, but not to        *)
(* scpi_input_fp().                                                        *)
SymbolicValue ==
  /\ Command /\ ~Reading
  /\ Fail("scpi_input_fp")
  /\ UNCHANGED << settings, told, asked >>

(* A value in range: scpi_input_fp_range(); others are an error.           *)
DutyCycle(n) ==
  /\ duty' = n
  /\ Tell("duty", n)
  /\ UNCHANGED << shape, user, amplitude, frequency, pwm, digital >>

(* SOURce:PULSe:DCYCle                                                     *)
PulseDuty(v) ==
  /\ Plain
  /\ 0 <= v /\ v <= Unit
  /\ DutyCycle((255 * v) \div Unit)
  /\ asked' = duty'

(* A duty cycle is answered as n/255 to 14 digits (scpi_output_fp), which  *)
(* is too little where the 15th digit is rounded down: the remainder of    *)
(* n * 10^k by 255 tells, k being the decimals of the answer.              *)
PowerOfTen[k \in Nat] == IF k = 0 THEN 1 ELSE (10 * PowerOfTen[k-1]) % 255

Decimals(n) == IF n > 25 THEN 14 ELSE IF n > 2 THEN 15 ELSE 16

(* A seeded fault: the answer is cut off, not rounded.                     *)
RoundedDown_CutOff(n) == (n * PowerOfTen[Decimals(n)]) % 255 > 0

RoundedDown(n) ==
  LET r == (n * PowerOfTen[Decimals(n)]) % 255 IN 0 < r /\ 2 * r < 255

(* What floor() makes of the answer when it is sent back.                  *)
SetBack(n) == IF RoundedDown(n) THEN n - 1 ELSE n

(* A client sends back what DCYCle? has answered; this is not counted.     *)
PulseDutyBack ==
  /\ failed = "" /\ ~Reading
  /\ DutyCycle(SetBack(duty))
  /\ UNCHANGED << listVars, asked, commands >>

(* The setting for a frequency; past the last if there is none.            *)
PwmIndex(v) ==
  LET hit == { k \in 1..Len(PwmFreq)-1 : v <= PwmFreq[k] /\ v > PwmFreq[k+1] }
  IN  IF hit = {} THEN Len(PwmFreq) - 1 ELSE Min(hit) - 1

(* SOURce:PULSe:FREQuency; what is answered changes with a hit only.       *)
PulseFrequency(v) ==
  /\ Plain
  /\ 0 <= v /\ v <= PwmFreq[1]
  /\ LET k == PwmIndex(v)
     IN  /\ pwm' = IF k < Len(PwmFreq) - 1 THEN PwmFreq[k+1] ELSE pwm
         /\ Tell("pwm", k)
  /\ UNCHANGED << shape, user, amplitude, frequency, duty, digital, asked >>

(* SOURce:DIGital:DATA: scpi_input_uint8().                                *)
DigitalData(n) ==
  /\ Plain
  /\ n \in 0..255
  /\ digital' = n
  /\ Tell("digital", n)
  /\ UNCHANGED << shape, user, amplitude, frequency, duty, pwm, asked >>

----------------------------------------------------------------------------
GeneratorNext ==
  \/ ListNext /\ UNCHANGED << settings, told, asked, commands >>
  \/ \E name \in Shape : Function(name)
  \/ FunctionNone \/ FunctionUser
  \/ \E name \in LongForm : FunctionUnknown(name)
  \/ \E v \in Level : FunctionLevel(v) \/ PulseDuty(v)
  \/ \E v \in Frequency : WaveFrequency(v) \/ PulseFrequency(v)
  \/ PulseDutyBack \/ SymbolicValue
  \/ \E n \in Byte : DigitalData(n)

Spec == GeneratorInit /\ [][GeneratorNext]_vars

----------------------------------------------------------------------------
Told(what, x) == what \in DOMAIN told => told[what] = x

(* What the queries answer is what the device was told, whatever came in   *)
(* between: a shape that is set before its table is sent, a value that is  *)
(* ignored, a table that RAND leaves behind.  The setting 0 of the pulse   *)
(* frequency is the exception: it is sent, and not answered.               *)
DeviceAgrees ==
  failed = "" =>
    /\ shape = "NONE" <=> "wave" \notin DOMAIN told
    /\ Told("wave", IF shape = "RAND" THEN Of("RAND") ELSE user)
    /\ shape # "RAND" => shape = user.from
    /\ Told("amp", (255 * amplitude) \div Unit)
    /\ Told("duty", duty) /\ Told("digital", digital)
    /\ "pwm" \in DOMAIN told =>
         told.pwm = Len(PwmFreq) - 1 \/ PwmFreq[told.pwm + 1] = pwm

(* The program fails on a list of numbers only when one of them is out of  *)
(* the range of a sample: no table made of numbers in range, at whatever   *)
(* phase it is interpolated, has a code that is not a byte.                *)
FailsOnlyOutOfRange ==
  failed = "cgr101_waveform_program" =>
    \E k \in 1..Len(user.data) : user.data[k] \notin -Unit..Unit

(* A duty cycle that a client sends back as it was answered, however often, *)
(* sinks by at most five steps of 255, and never rises                     *)
(* (cgr101_pwm_duty_cycle, scpi_output_fp).                                *)
DriftBounded == duty \in asked-5..asked
=============================================================================
