-------------------------- MODULE StatusRegisters ---------------------------
(***************************************************************************)
(* The status registers of scpi_core.c over the error queue: the common    *)
(* commands that set, read and clear them, the values that scpi_input.c    *)
(* accepts, and the status byte, which is computed when it is asked for.   *)
(*                                                                         *)
(* A register is the set of its bits that are 1.  Left out is what no      *)
(* handler reads again: info->scpi->sbr and the condition registers, that  *)
(* queries overwrite with what they answer.                                *)
(***************************************************************************)
EXTENDS ErrorQueue

CONSTANTS
  Value,        \* for each enable register, the numbers that a client sends
  OutOfRange,   \* SCPI_ERR_DATA_OUT_OF_RANGE
  Text          \* its syndrome: the number as the client wrote it

Enable == { "*ESE", "*SRE", "STAT:OPER:ENAB", "STAT:QUES:ENAB" }

ASSUME RegisterAssumption ==
  /\ Value \in [ Enable -> SUBSET Int ]
  /\ OutOfRange \in Error /\ Text \in Syndrome

VARIABLES
  seser, sesr, srer,   \* the registers of IEEE 488.2
  oper, ques,          \* the registers of SCPI: event and enable
  pending,             \* info->overlapped: an operation is in progress
  unread,              \* history: the errors the client has not read
  completed,           \* history: an operation awaited by *OPC, or *RST, is complete
  early,               \* history: *OPC came while an operation was in progress
  accepted,            \* history: the values the client gave *ESE and *SRE
  wiped                \* history: *CLS has reset *ESE since

registers == << seser, sesr, srer, oper, ques >>
enables == << accepted, wiped >>
clientView == << unread, completed, early, enables >>
vars == << qvars, registers, pending, clientView >>

(* Bits of SESR and of the status byte.                                    *)
OPC == 0
ERQ == 2  QUES == 3  SESR == 5  MSS == 6  OPER == 7

(* The binary digits of a number of w bits.                                *)
Bits(n, w) == { b \in 0..w-1 : (n \div 2^b) % 2 = 1 }

Served == { "*ESE", "*SRE" }    \* those of the service request
Width(e) == IF e \in Served THEN 8 ELSE 16

StatusInit ==
  /\ Init
  /\ seser = {} /\ sesr = {} /\ srer = {}
  /\ oper = [ event |-> {}, enable |-> {} ]
  /\ ques = [ event |-> {}, enable |-> {} ]
  /\ pending = FALSE
  /\ unread = 0 /\ completed = FALSE /\ early = FALSE
  /\ accepted = [ e \in Served |-> {} ] /\ wiped = FALSE

----------------------------------------------------------------------------
(* The errors as a client counts them: those that found room, and the one  *)
(* that says that others did not.                                          *)
OneMore == unread' = IF unread = Size THEN unread ELSE unread + 1
OneLess == unread' = IF unread = 0 THEN 0 ELSE unread - 1

(* Any other part of the server reports an error, at any time.             *)
ErrorOccurs(num, syndrome) ==
  /\ Report(num, syndrome)
  /\ OneMore
  /\ UNCHANGED << registers, pending, completed, early, enables >>

(* A sweep begins, and ends: what *OPC is to wait for.                     *)
OperationBegins ==
  /\ pending' = TRUE
  /\ UNCHANGED << qvars, registers, clientView >>

OperationEnds ==
  /\ pending' = FALSE
  /\ completed' = (completed \/ early)
  /\ UNCHANGED << qvars, registers, unread, early, enables >>

(* A value for an enable register is in range: scpi_input_int().           *)
InRange(e, n) == 0 <= n /\ n < 2^Width(e)

SetRegister(e, bits) ==
  /\ seser' = IF e = "*ESE" THEN bits ELSE seser
  /\ srer' = IF e = "*SRE" THEN bits ELSE srer
  /\ oper' = IF e = "STAT:OPER:ENAB" THEN [ oper EXCEPT !.enable = bits ] ELSE oper
  /\ ques' = IF e = "STAT:QUES:ENAB" THEN [ ques EXCEPT !.enable = bits ] ELSE ques
  /\ UNCHANGED sesr

(* *ESE, *SRE, STATus:OPERation:ENABle and STATus:QUEStionable:ENABle.     *)
SetEnable(e, n) ==
  /\ InRange(e, n)
  /\ SetRegister(e, Bits(n, Width(e)))
  /\ accepted' = [ a \in Served |-> IF a = e THEN Bits(n, Width(e)) ELSE accepted[a] ]
  /\ wiped' = (wiped /\ e # "*ESE")
  /\ UNCHANGED << qvars, pending, unread, completed, early >>

RejectEnable(e, n) ==
  /\ ~InRange(e, n)
  /\ Report(OutOfRange, Text)
  /\ OneMore
  /\ UNCHANGED << registers, pending, completed, early, enables >>

----------------------------------------------------------------------------
(* scpi_error_count(): an overflow counts as an error, behind others.      *)
Count == IF head = tail THEN 0 ELSE Used + (IF overflow THEN 1 ELSE 0)

(* A seeded fault: the count of a ring that has wrapped is none.           *)
Summary_Unwrapped ==
  (IF head > tail THEN {ERQ} ELSE {})
    \cup (IF ques.event # {} /\ ques.enable # {} THEN {QUES} ELSE {})
    \cup (IF sesr \cap seser # {} THEN {SESR} ELSE {})
    \cup (IF oper.event \cap oper.enable # {} THEN {OPER} ELSE {})

(* scpi_core_status_update()                                               *)
Summary ==
  (IF Count # 0 THEN {ERQ} ELSE {})
    \cup (IF ques.event # {} /\ ques.enable # {} THEN {QUES} ELSE {})
    \cup (IF sesr \cap seser # {} THEN {SESR} ELSE {})
    \cup (IF oper.event \cap oper.enable # {} THEN {OPER} ELSE {})

(* *STB? answers this.                                                     *)
StatusByte == Summary \cup IF Summary \cap srer # {} THEN {MSS} ELSE {}

(* *ESR?                                                                   *)
EsrQuery ==
  /\ sesr' = {}
  /\ completed' = FALSE /\ early' = (early /\ pending)
  /\ UNCHANGED << qvars, seser, srer, oper, ques, pending, unread, enables >>

(* SYSTem:ERRor[:NEXT]?                                                    *)
ErrorQuery ==
  /\ Get
  /\ OneLess
  /\ UNCHANGED << registers, pending, completed, early, enables >>

(* *OPC, and *RST, whose other effects are the device's: the bit is set at *)
(* once, also while an operation is in progress.                           *)
Opc ==
  /\ sesr' = sesr \cup {OPC}
  /\ completed' = (completed \/ ~pending) /\ early' = pending
  /\ UNCHANGED << qvars, seser, srer, oper, ques, pending, unread, enables >>

(* *CLS: the enable registers go too, but for that of the service request. *)
Cls ==
  /\ Reset
  /\ seser' = {} /\ sesr' = {}
  /\ oper' = [ oper EXCEPT !.event = {}, !.enable = {} ]
  /\ ques' = [ ques EXCEPT !.event = {}, !.enable = {} ]
  /\ unread' = 0 /\ completed' = FALSE /\ early' = FALSE
  /\ wiped' = TRUE
  /\ UNCHANGED << srer, pending, accepted >>

StatusNext ==
  \/ \E num \in Error, syndrome \in Syndrome \cup {None} : ErrorOccurs(num, syndrome)
  \/ \E e \in Enable : \E n \in Value[e] : SetEnable(e, n) \/ RejectEnable(e, n)
  \/ OperationBegins \/ OperationEnds
  \/ EsrQuery \/ ErrorQuery \/ Opc \/ Cls

StatusSpec == StatusInit /\ [][StatusNext]_vars

----------------------------------------------------------------------------
Byte == SUBSET (0..7)
Condition == [ event : SUBSET (0..15), enable : SUBSET (0..15) ]

StatusTypeOK ==
  /\ TypeOK
  /\ seser \in Byte /\ sesr \in Byte /\ srer \in Byte
  /\ oper \in Condition /\ ques \in Condition
  /\ pending \in BOOLEAN
  /\ unread \in 0..Size /\ completed \in BOOLEAN /\ early \in BOOLEAN
  /\ accepted \in [ Served -> Byte ] /\ wiped \in BOOLEAN

(* The registers of the service request are what the client last gave      *)
(* them, refused values aside, or what *CLS left (scpi_input_uint8).       *)
EnablesAsAccepted ==
  /\ seser = IF wiped THEN {} ELSE accepted["*ESE"]
  /\ srer = accepted["*SRE"]

(* What the documents have *STB? answer, from what the client knows: the   *)
(* errors it has not read, the operation it has not seen complete, and the *)
(* values it has given to the enable registers.                            *)
Causes ==
  (IF unread > 0 THEN {ERQ} ELSE {})
    \cup (IF completed /\ OPC \in accepted["*ESE"] THEN {SESR} ELSE {})

(* Where the code is known to answer something else: an overflow mark that *)
(* is alone in the queue is not counted (scpi_error_count), *CLS resets    *)
(* *ESE (scpi_common_cls), and *OPC does not wait (scpi_common_opc).       *)
Disputed ==
  (IF head = tail /\ overflow THEN {ERQ} ELSE {})
    \cup (IF early \/ wiped THEN {SESR} ELSE {})

(* Where it is not, the status byte asks for service if, and only if, the  *)
(* client has enabled something that happened and that it has not seen:    *)
(* neither a full ring that has wrapped, a refused value, a register read  *)
(* in between nor *CLS makes it miss a cause or find an old one            *)
(* (scpi_core_status_update).                                              *)
ServiceIsJustified ==
  LET asked == StatusByte \ {MSS}
  IN  /\ asked \ Disputed = Causes \ Disputed
      /\ MSS \in StatusByte <=> asked \cap accepted["*SRE"] # {}
=============================================================================
