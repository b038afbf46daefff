---------------------------- MODULE MCDigitizer ----------------------------
(***************************************************************************)
(* The oscilloscope of the CGR-101 for TLC, with the numbers of cgr101.c:  *)
(* volts in units of 10 microvolts, times in units of 50 ns, the shortest  *)
(* interval.                                                               *)
(***************************************************************************)
EXTENDS Digitizer

(* 2.5 V just fits the low range; 27 V is beyond the trigger levels.       *)
SomeVolts == { -250000, 0, 250000, 2700000 }

(* The ends of the first and the last divisor, and beyond.                 *)
SomeTimes == { 1023, 1024, 2047, 2048, 2^25, 2^26 - 1, 2^26 }
SomeShortTimes == { -1, 1, 3 }

SomePoints == { -513, -512, 0, 1, 511, 1023, 1024 }

SomeOffsets == { [ low |-> 0, high |-> 0 ], [ low |-> -592, high |-> 2 * 5210 ] }

(* What the theorems on the sweep time and the ranges suppose: the sample  *)
(* interval is a whole number of units, and the volts can be halved as     *)
(* often as there are commands without a remainder.                        *)
ASSUME WholeIntervals == MinTime % Samples = 0
ASSUME ExactHalves == \A v \in Volts \cup { DefaultHigh } : v % 2^MaxCommands = 0
=============================================================================
