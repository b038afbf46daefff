------------------------------ MODULE MCServer ------------------------------
(***************************************************************************)
(* Instances of the server for TLC: the program lines of its clients.  The *)
(* assumptions say of which class they are, that is which of the theorems  *)
(* about classes of clients are about them.                                *)
(***************************************************************************)
EXTENDS Clients

(* Every line that starts a sweep also waits for its end.                  *)
FencedLines ==
  { << "SENS:FUNC:ON", "INIT:IMM", "*WAI", "SYST:VERS?" >>,
    << "SENS:FUNC:ON", "INIT:IMM", "*OPC?" >>,
    << "SENS:FUNC:ON", "INIT", "SENS:DATA?" >>,
    << "*IDN?" >>, << "*RST", "MEAS:DIG:DATA?" >>, << >> }

(* Lines whose answers are complete when the line is.                      *)
ImmediateLines ==
  { << "SYST:VERS?" >>, << "SYST:VERS?", "bad", "SYST:VERS?" >>, << "bad" >>,
    << >>, << "*CLS" >>, << "*OPC?", "SYST:VERS?" >>, << "SYST:INT:QUI" >> }

(* Any client: sweeps that are restarted, aborted, read too early.         *)
SweepLines ==
  { << "SENS:FUNC:ON", "INIT:IMM" >>, << "*RST", "SENS:FUNC:OFF", "*WAI" >>,
    << "*OPC?" >>, << "ABOR" >>, << "SENS:STAT?", "SENS:DATA?" >>,
    << "SYST:INT:SLE" >> }

(* Any client: the digital input, its records and interrupts.              *)
DigitalLines ==
  { << "CONF:DIG:DATA", "INIT" >>, << "READ:DIG:DATA?" >>,
    << "MEAS:DIG:EVEN?" >>, << "CONF:DIG:EVEN", "refused", "INIT" >>,
    << "FETC:DIG:EVEN?" >>, << "*IDN?" >>,
    << "SYST:INT:SLE", "SYST:INT:SLE" >> }

AnyLines == SweepLines \cup DigitalLines

(* Digital input, one query at a time.                                     *)
MeasureLines ==
  { << "MEAS:DIG:DATA?" >>, << "MEAS:DIG:EVEN?" >>, << "SYST:VERS?" >>,
    << "ABOR" >> }

(* Sweeps that all end by themselves.                                      *)
EndingLines ==
  { << "SENS:FUNC:ON", "INIT:IMM" >>, << "*WAI" >>, << "*OPC?" >>,
    << "ABOR" >>, << "SENS:DATA?" >>, << "SYST:VERS?" >> }

(* A client that does not wait for the answer to *OPC?.                    *)
OpcThenQuery == { << "SENS:FUNC:ON", "INIT:IMM", "*OPC?" >>, << "SYST:VERS?" >> }

ASSUME FencedIsOrderly == IsOrderly(FencedLines)
ASSUME FencedButTheIdentity == KnowsItsDevice(FencedLines \ { << "*IDN?" >> })
ASSUME ImmediateStartsNothing == StartsNothing(ImmediateLines)
ASSUME ImmediateIsAnswered == AnsweredAtOnce(ImmediateLines)
ASSUME ImmediateQuits == AsksForNoRecord(ImmediateLines) /\ QuitsSilently(ImmediateLines)
ASSUME MeasureArms == ArmsItsRecords(MeasureLines)
=============================================================================
