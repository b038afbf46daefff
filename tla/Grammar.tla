------------------------------ MODULE Grammar -------------------------------
(***************************************************************************)
(* The headers of scpi.y and the rules that keep a word of the path.       *)
(* Words are in their short form; STAT has a rule that its long form,      *)
(* STATUS, does not have.                                                  *)
(***************************************************************************)
EXTENDS Sequences

(* 488.2 commands.                                                         *)
CommonHeader ==
  { << w >> : w \in { "*CLS", "*ESE", "*ESE?", "*ESR?", "*IDN?", "*OPC", "*OPC?",
                      "*RST", "*SRE", "*SRE?", "*STB?", "*TST?", "*WAI" } }

(* Headers under the same path.                                            *)
Under(p, words) == { Append(p, w) : w \in words }

StatusHeader ==
  UNION { Under(<< s >>, { "OPER?", "PRES", "QUES?" })
            \cup Under(<< s, "OPER" >>, { "EVEN?", "COND?", "ENAB", "ENAB?" })
            \cup Under(<< s, "QUES" >>, { "ENAB", "ENAB?" })
          : s \in { "STAT", "STATUS" } }

SystemHeader ==
  CommonHeader \cup StatusHeader
    \cup Under(<< "SYST" >>, { "ERR?", "VERS?", "CAP?" })
    \cup Under(<< "SYST", "ERR" >>, { "NEXT?", "COUN?" })

(* Configuration, measurement and input of the device.                     *)
MeasurementHeader ==
  { << "ABOR" >>, << "CONF?" >>, << "FORM" >>, << "FORM?" >>, << "INIT" >>,
    << "INIT", "IMM" >>, << "INIT", "IMM", "ALL" >>, << "INP", "COUP" >> }
    \cup Under(<< "CONF", "DIG" >>, { "DAT", "EVEN" })
    \cup UNION { Under(<< w, "DIG" >>, { "DAT?", "EVEN?" }) : w \in { "FETC", "MEAS", "READ" } }
    \cup Under(<< "FORM" >>, { "DAT", "DAT?" })

SenseHeader ==
  Under(<< "SENS" >>, { "DAT?", "STAT?", "RES" })
    \cup Under(<< "SENS", "FUNC" >>, { "CONC", "OFF", "ON", "STAT?" })
    \cup Under(<< "SENS", "SWE" >>, { "POIN?", "TIME", "TIME?", "TINT", "TINT?" })
    \cup Under(<< "SENS", "SWE", "OFFS" >>, { "POIN", "POIN?", "TIME", "TIME?" })
    \cup Under(<< "SENS", "SWE", "OREF" >>, { "LOC", "LOC?", "POIN", "POIN?" })
    \cup UNION { Under(p, { "LOW", "LOW?", "OFFS", "OFFS?", "PTP", "PTP?", "RANG", "RANG?", "UPP", "UPP?" })
                 : p \in { << "SENS", "VOLT" >>, << "SENS", "VOLT", "DC" >> } }

SourceHeader ==
  Under(<< "SOUR" >>, { "FREQ", "FREQ?", "FUNC", "FUNC?" })
    \cup Under(<< "SOUR", "DIG" >>, { "DAT", "DAT?" })
    \cup Under(<< "SOUR", "FUNC" >>, { "USER", "USER?", "LEV", "LEV?" })
    \cup Under(<< "SOUR", "PULS" >>, { "DCYC", "DCYC?", "FREQ", "FREQ?" })
    \cup Under(<< "TRIG" >>, { "COUP", "LEV", "LEV?", "SLOP", "SLOP?", "SOUR", "SOUR?" })

InternalHeader ==
  { << "SLE" >>, << "ECHO" >>, << "INCL" >>, << "SYST", "COMM", "TCP", "CONT?" >>,
    << "SYST", "INT", "OFFS", "STOR" >> }
    \cup Under(<< "SYST", "INT" >>, { "QUIT", "CAL", "CONF", "SHOW?", "SET?", "OFFS", "OFFS?" })

AllHeader ==
  SystemHeader \cup MeasurementHeader \cup SenseHeader \cup SourceHeader \cup InternalHeader

(* The rules that call scpi_core_add_prefix(); those of FETCh:DIGital and  *)
(* of TRIGger:SOURce are where one does not look for them.                 *)
AddsToPath ==
  { << "SYST" >>, << "SYST", "ERR" >>, << "SYST", "INT" >>, << "STAT" >>,
    << "STAT", "OPER" >>, << "STAT", "QUES" >>, << "STATUS", "OPER" >>,
    << "STATUS", "QUES" >>, << "CONF" >>, << "CONF", "DIG" >>, << "FETC", "DIG" >>,
    << "FORM" >>, << "INIT" >>, << "INIT", "IMM" >>, << "MEAS" >>, << "MEAS", "DIG" >>,
    << "READ" >>, << "READ", "DIG" >>, << "SENS" >>, << "SENS", "FUNC" >>,
    << "SENS", "SWE" >>, << "SENS", "SWE", "OFFS" >>, << "SENS", "SWE", "OREF" >>,
    << "SENS", "VOLT" >>, << "SENS", "VOLT", "DC" >>, << "SOUR" >>, << "SOUR", "DIG" >>,
    << "SOUR", "FUNC" >>, << "SOUR", "PULS" >>, << "TRIG" >>, << "TRIG", "SOUR" >> }
=============================================================================
