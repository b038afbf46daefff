------------------------------ MODULE Commands ------------------------------
(***************************************************************************)
(* One action per command of a program line: the handler the parser calls  *)
(* (scpi_core.c, scpi_dev.c) with everything it does in cgr101.c.  The     *)
(* handlers of one line run one after the other; the server does nothing   *)
(* else meanwhile, the device and the client do.                           *)
(***************************************************************************)
EXTENDS Receiver

If(cond, s) == IF cond THEN s ELSE << >>

(* The parser has recognized the next command of the line.                 *)
At(c) == pc = "exec" /\ prog # << >> /\ Head(prog) = c

(* Its handler returns and the rest of the line is parsed.                 *)
Run(c) ==
  /\ At(c)
  /\ prog' = Tail(prog)
  /\ UNCHANGED << pc, ready, failed, lines, rcv, devOut, armed, intArmed,
                  reports, clientVars >>

----------------------------------------------------------------------------
(* Commands that only answer, and those of the core.                       *)

VersionQ ==
  /\ Run("SYST:VERS?")
  /\ out' = Append(out, "VERS")
  /\ UNCHANGED << quit, evq, sleepVars, blockVars, scopeVars, digitalVars,
                  identVars, devReq >>

(* scpi_output_reset() drops what is in the buffer.                        *)
Cls ==
  /\ Run("*CLS")
  /\ out' = << >>
  /\ UNCHANGED << quit, evq, sleepVars, blockVars, scopeVars, digitalVars,
                  identVars, devReq >>

(* The reset disables the input channels; it neither aborts nor unblocks.  *)
Rst ==
  /\ Run("*RST")
  /\ enabled' = FALSE
  /\ UNCHANGED << quit, evq, sleepVars, blockVars, out, sweep, overlapped,
                  scopePend, addrState, dataState, statState, offset,
                  digitalVars, identVars, devReq >>

Wai ==
  /\ Run("*WAI")
  /\ blockInput' = (overlapped \/ blockInput)
  /\ UNCHANGED << quit, evq, sleepVars, opcq, out, scopeVars, digitalVars,
                  identVars, devReq >>

(* The answer is owed by the unblock event while a sweep is overlapped.    *)
OpcQ ==
  /\ Run("*OPC?")
  /\ \/ /\ overlapped
        /\ blockInput' = TRUE /\ opcq' = TRUE
        /\ UNCHANGED out
     \/ /\ ~overlapped
        /\ out' = Append(out, "OPC")
        /\ UNCHANGED blockVars
  /\ UNCHANGED << quit, evq, sleepVars, scopeVars, digitalVars, identVars,
                  devReq >>

(* Given less than a microsecond, setitimer() sets no timer, and nothing   *)
(* will release the input.                                                 *)
Sleep ==
  /\ ~blockUntil
  /\ Run("SYST:INT:SLE")
  /\ blockUntil' = TRUE /\ timer' \in { "running", "disarmed" }
  /\ UNCHANGED << quit, evq, blockVars, out, scopeVars, digitalVars, identVars,
                  devReq >>

SleepFails == At("SYST:INT:SLE") /\ blockUntil /\ Fail("scpi_system_internal_sleep")

(* QUIT, and the end of the client's stream, which the scanner reports.    *)
Quit ==
  /\ Run("SYST:INT:QUI") \/ Run("EOF")
  /\ quit' = TRUE
  /\ UNCHANGED << evq, sleepVars, blockVars, out, scopeVars, digitalVars,
                  identVars, devReq >>

(* A syntax error: what came before on the line was done, the rest is not. *)
SyntaxError ==
  /\ At("bad")
  /\ prog' = << >>
  /\ UNCHANGED << loopVars, evq, lines, sleepVars, blockVars, out, scopeVars,
                  digitalVars, identVars, rcv, deviceVars, clientVars >>

(* cgr101_identify()                                                       *)
IdnQ ==
  /\ Run("*IDN?")
  /\ identReq' = TRUE
  /\ Send(<< "IDENTIFY_OUTPUT" >>)
  /\ UNCHANGED << quit, sleepVars, blockVars, out, scopeVars, digitalVars,
                  identState, devReq >>

----------------------------------------------------------------------------
(* Starting and stopping operations.                                       *)

Enable(c, value) ==
  /\ Run(c)
  /\ enabled' = value
  /\ UNCHANGED << quit, evq, sleepVars, blockVars, out, sweep, overlapped,
                  scopePend, addrState, dataState, statState, offset,
                  digitalVars, identVars, devReq >>

(* A list of channels, one at least, is switched on or off; when it is off,*)
(* none may be left on, or those the list does not name.                   *)
ChannelState ==
  \/ Enable("SENS:FUNC:ON", TRUE)
  \/ Enable("SENS:FUNC:OFF", FALSE) \/ Enable("SENS:FUNC:OFF", enabled)

(* cgr101_digitizer_start(): the capture is started and, when the trigger  *)
(* is immediate, triggered at once.                                        *)
DigitizerStart(manual) ==
  If(enabled, << "S G" >> \o If(ImmTrigger \/ manual, << "S D" >>))

Initiate ==
  /\ Run("INIT")
  /\ devReq' = devReq \o If(digReq, << "D I" >>)
                      \o DigitizerStart(FALSE)
                      \o If("INT" \in chanMask, << "D !" >>)
                      \o If("DIN" \in chanMask, << "D A" >>)
  /\ sweep' = (enabled \/ sweep)
  /\ overlapped' = (enabled \/ overlapped)
  /\ digEv' = (chanMask # {} \/ digEv)
  /\ UNCHANGED << quit, evq, sleepVars, blockVars, out, enabled, scopePend,
                  addrState, dataState, statState, offset, chanMask, evCur,
                  evMax, evPend, digReq, digState, identVars >>

InitiateImmediate ==
  /\ Run("INIT:IMM")
  /\ devReq' = devReq \o If(digReq, << "D I" >>) \o DigitizerStart(TRUE)
  /\ sweep' = (enabled \/ sweep)
  /\ overlapped' = (enabled \/ overlapped)
  /\ UNCHANGED << quit, evq, sleepVars, blockVars, out, enabled, scopePend,
                  addrState, dataState, statState, offset, digitalVars,
                  identVars >>

(* Each operation that is in progress ends and sends its own unblock.      *)
Abort ==
  /\ sweep => addrState = "COMPLETE"
  /\ Run("ABOR")
  /\ IF sweep THEN ScopeDataDone("IDLE") ELSE UNCHANGED sweepVars
  /\ IF digEv THEN DigitalEventDone ELSE UNCHANGED << chanMask, digEv >>
  /\ Send(If(sweep, << "UNBLOCK" >>) \o If(digEv, << "UNBLOCK" >>))
  /\ UNCHANGED << quit, sleepVars, blockVars, out, enabled, scopePend,
                  addrState, statState, offset, evCur, evMax, evPend, digReq,
                  digState, identVars, devReq >>

AbortFails ==
  At("ABOR") /\ sweep /\ addrState # "COMPLETE" /\ Fail("cgr101_scope_data_done")

----------------------------------------------------------------------------
(* Oscilloscope queries.                                                   *)

(* A sweep in progress: its end will answer, and no line runs until then.  *)
ScopeDataQ ==
  /\ sweep \/ addrState = "COMPLETE"
  /\ Run("SENS:DATA?")
  /\ \/ /\ sweep
        /\ blockInput' = TRUE /\ scopePend' = TRUE
        /\ UNCHANGED out
     \/ /\ ~sweep
        /\ out' = Append(out, "DATA")
        /\ UNCHANGED << blockInput, scopePend >>
  /\ UNCHANGED << quit, evq, sleepVars, opcq, sweep, overlapped, enabled,
                  addrState, dataState, statState, offset, digitalVars,
                  identVars, devReq >>

ScopeDataQFails ==
  /\ At("SENS:DATA?") /\ ~sweep /\ addrState # "COMPLETE"
  /\ Fail("cgr101_digitizer_data_output")

ScopeStatusQ ==
  /\ Run("SENS:STAT?")
  /\ Send(<< "SCOPE_STATUS_OUTPUT" >>)
  /\ UNCHANGED << quit, sleepVars, blockVars, out, scopeVars, digitalVars,
                  identVars, devReq >>

----------------------------------------------------------------------------
(* Digital input.                                                          *)

ConfigureDigitalData ==
  /\ Run("CONF:DIG:DATA")
  /\ digReq' = TRUE
  /\ UNCHANGED << quit, evq, sleepVars, blockVars, out, scopeVars, digEvVars,
                  digState, identVars, devReq >>

(* Digital data that was not configured has no answer, and no error.       *)
FetchDigitalData ==
  /\ Run("FETC:DIG:DATA?")
  /\ Send(If(digReq, << "DIGITAL_READ_OUTPUT" >>))
  /\ UNCHANGED << quit, sleepVars, blockVars, out, scopeVars, digitalVars,
                  identVars, devReq >>

(* The channels are recorded from here on, initiated or not.               *)
ConfigureDigitalEvent ==
  /\ Run("CONF:DIG:EVEN")
  /\ \E count \in EventCounts : evMax' = count
  /\ \E chans \in EventChans : chanMask' = chans
  /\ evCur' = 0 /\ evPend' = FALSE
  /\ UNCHANGED << quit, evq, sleepVars, blockVars, out, scopeVars, digEv,
                  digReq, digState, identVars, devReq >>

(* A record of no events: realloc() to no bytes may return NULL.           *)
ConfigureDigitalEventFails ==
  At("CONF:DIG:EVEN") /\ 0 \in EventCounts /\ Fail("cgr101_configure_digital_event")

(* A count or a channel list out of range: an error is queued, and nothing *)
(* is configured; MEASure stops there.                                     *)
DigitalEventRefused ==
  /\ Run("refused")
  /\ UNCHANGED << quit, evq, sleepVars, blockVars, out, scopeVars, digitalVars,
                  identVars, devReq >>

(* A record in progress blocks; one that has recorded nothing answers      *)
(* nothing.                                                                *)
FetchDigitalEvent ==
  /\ Run("FETC:DIG:EVEN?")
  /\ \/ /\ digEv
        /\ blockInput' = TRUE /\ evPend' = TRUE
        /\ UNCHANGED out
     \/ /\ ~digEv
        /\ out' = out \o If(evCur > 0, << "EVEN" >>)
        /\ UNCHANGED << blockInput, evPend >>
  /\ UNCHANGED << quit, evq, sleepVars, opcq, scopeVars, digEv, chanMask,
                  evCur, evMax, digReq, digState, identVars, devReq >>

(* READ and MEASure call the handlers of the simpler commands in turn.     *)
Expand(c, commands) ==
  /\ At(c)
  /\ prog' = commands \o Tail(prog)
  /\ UNCHANGED << loopVars, evq, lines, sleepVars, blockVars, out, scopeVars,
                  digitalVars, identVars, rcv, deviceVars, clientVars >>

ReadOrMeasure ==
  \/ Expand("READ:DIG:DATA?", << "ABOR", "INIT", "FETC:DIG:DATA?" >>)
  \/ Expand("MEAS:DIG:DATA?", << "CONF:DIG:DATA", "ABOR", "INIT", "FETC:DIG:DATA?" >>)
  \/ Expand("READ:DIG:EVEN?", << "ABOR", "INIT", "FETC:DIG:EVEN?" >>)
  \/ Expand("MEAS:DIG:EVEN?", << "CONF:DIG:EVEN", "ABOR", "INIT", "FETC:DIG:EVEN?" >>)

Handler ==
  \/ VersionQ \/ Cls \/ Rst \/ Wai \/ OpcQ \/ Sleep \/ SleepFails \/ Quit
  \/ SyntaxError \/ IdnQ \/ ChannelState \/ Initiate \/ InitiateImmediate
  \/ Abort \/ AbortFails \/ ScopeDataQ \/ ScopeDataQFails \/ ScopeStatusQ
  \/ ConfigureDigitalData \/ FetchDigitalData \/ ConfigureDigitalEvent
  \/ ConfigureDigitalEventFails \/ DigitalEventRefused \/ FetchDigitalEvent
  \/ ReadOrMeasure
=============================================================================
