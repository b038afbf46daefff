------------------------------ MODULE Receiver ------------------------------
(***************************************************************************)
(* The device worker: cgr101_out() and the receive state machine behind it *)
(* (cgr101.c).  A message is received in two steps, its first byte and the *)
(* rest of it, because one read() may end anywhere: between the two, the   *)
(* other workers take their turns and see the state the first byte left.   *)
(***************************************************************************)
EXTENDS Device

(* worker_run_ready() calls the ready workers in the order of registration. *)
Turn(w) ==
  /\ pc = "loop"
  /\ w \in ready
  /\ w = "device" => "event" \notin ready
  /\ w = "stdin"  => ready = {"stdin"}

Return(w) == ready' = ready \ {w}

(* One call handles all that one read() returned: the worker returns, or   *)
(* goes on with what else there is to read.                                *)
ReturnOrGoOn(rest) ==
  \/ Return("device")
  \/ rest # << >> /\ UNCHANGED ready

Send(events) == evq' = evq \o events

(* An assert() of the code fails and abort() ends the program.             *)
Fail(where) ==
  /\ pc' = "failed" /\ failed' = where
  /\ UNCHANGED << ready, quit, evq, inputVars, blockVars, out, scopeVars,
                  digitalVars, identVars, rcv, deviceVars, clientVars >>

(* A seeded fault: the first byte of the data sets the state of a query.   *)
RcvStart_WrongState ==
  /\ Turn("device") /\ rcv = "IDLE" /\ devOut # << >>
  /\ LET m == Head(devOut)
     IN  /\ rcv' = m
         /\ identState' = IF m = "*" THEN "PENDING" ELSE identState
         /\ digState'   = IF m = "I" THEN "PENDING" ELSE digState
         /\ statState'  = IF m = "S" THEN "PENDING" ELSE statState
         /\ addrState'  = IF m = "A" THEN "EXPECT" ELSE addrState
         /\ dataState'  = IF m = "D" THEN "PENDING" ELSE dataState
  /\ ReturnOrGoOn(devOut)
  /\ UNCHANGED << pc, quit, failed, evq, inputVars, blockVars, out,
                  sweep, overlapped, enabled, scopePend, offset,
                  digEvVars, digReq, identReq, deviceVars, clientVars >>

(***************************************************************************)
(* The first byte selects the state of the receiver.                       *)
(***************************************************************************)
RcvStart ==
  /\ Turn("device") /\ rcv = "IDLE" /\ devOut # << >>
  /\ LET m == Head(devOut)
     IN  /\ rcv' = m
         /\ identState' = IF m = "*" THEN "PENDING" ELSE identState
         /\ digState'   = IF m = "I" THEN "PENDING" ELSE digState
         /\ statState'  = IF m = "S" THEN "PENDING" ELSE statState
         /\ addrState'  = IF m = "A" THEN "EXPECT" ELSE addrState
         /\ dataState'  = IF m = "D" THEN "EXPECT" ELSE dataState
  /\ ReturnOrGoOn(devOut)
  /\ UNCHANGED << pc, quit, failed, evq, inputVars, blockVars, out,
                  sweep, overlapped, enabled, scopePend, offset,
                  digEvVars, digReq, identReq, deviceVars, clientVars >>

(***************************************************************************)
(* The rest of a message arrived: rcv_idle(), and what the message does.   *)
(***************************************************************************)
Received(m) ==
  /\ Turn("device") /\ rcv = m
  /\ rcv' = "IDLE"
  /\ devOut' = Tail(devOut)
  /\ ReturnOrGoOn(Tail(devOut))
  /\ UNCHANGED << pc, quit, failed, inputVars, blockVars, armed, intArmed,
                  reports, clientVars >>

RcvIdent ==
  /\ Received("*")
  /\ Send(<< "IDENTIFY_COMPLETE" >>)
  /\ UNCHANGED << devReq, out, scopeVars, digitalVars, identVars >>

RcvScopeStatus ==
  /\ Received("S")
  /\ statState' = "COMPLETE"
  /\ Send(<< "SCOPE_STATUS_COMPLETE" >>)
  /\ UNCHANGED << devReq, out, sweep, overlapped, enabled, scopePend, addrState,
                  dataState, offset, digitalVars, identVars >>

RcvScopeOffset ==
  /\ Received("O")
  /\ offset' = FALSE
  /\ UNCHANGED << evq, devReq, out, sweep, overlapped, enabled, scopePend,
                  addrState, dataState, statState, digitalVars, identVars >>

(* A seeded fault: the address is received and not marked complete.        *)
RcvScopeAddr_NotComplete ==
  /\ Received("A")
  /\ devReq' = Append(devReq, "S B")
  /\ UNCHANGED << evq, out, scopeVars, digitalVars, identVars >>

(* A seeded fault: the buffer is not asked for.                            *)
RcvScopeAddr_NoRequest ==
  /\ Received("A")
  /\ addrState' = "COMPLETE"
  /\ UNCHANGED << devReq, evq, out, sweep, overlapped, enabled, scopePend,
                  dataState, statState, offset, digitalVars, identVars >>

(* The address of the capture is complete: ask for the buffer.             *)
RcvScopeAddr ==
  /\ Received("A")
  /\ addrState' = "COMPLETE"
  /\ devReq' = Append(devReq, "S B")
  /\ UNCHANGED << evq, out, sweep, overlapped, enabled, scopePend, dataState,
                  statState, offset, digitalVars, identVars >>

(* A seeded fault: the sweep ends and stays overlapped.                    *)
ScopeDataDone_Overlapped(state) ==
  /\ dataState' = state
  /\ sweep' = FALSE
  /\ UNCHANGED overlapped

(* cgr101_scope_data_done(): what ends a sweep, completed or aborted.      *)
ScopeDataDone(state) ==
  /\ dataState' = state
  /\ overlapped' = FALSE
  /\ sweep' = FALSE

(* A seeded fault: the end of the data unblocks nothing.                   *)
RcvScopeData_NoUnblock ==
  /\ dataState = "EXPECT"
  /\ Received("D")
  /\ out' = IF scopePend THEN Append(out, "DATA") ELSE out
  /\ scopePend' = FALSE
  /\ ScopeDataDone("COMPLETE")
  /\ UNCHANGED << evq, devReq, enabled, addrState, statState, offset,
                  digitalVars, identVars >>

(* The last byte of the buffer.  An abort after the first one has made     *)
(* dataState IDLE, where no byte is expected.                              *)
RcvScopeData ==
  /\ dataState = "EXPECT"
  /\ Received("D")
  /\ out' = IF scopePend THEN Append(out, "DATA") ELSE out
  /\ scopePend' = FALSE
  /\ ScopeDataDone("COMPLETE")
  /\ Send(<< "UNBLOCK" >>)
  /\ UNCHANGED << devReq, enabled, addrState, statState, offset, digitalVars,
                  identVars >>

RcvScopeDataFails ==
  /\ Turn("device") /\ rcv = "D" /\ dataState # "EXPECT"
  /\ Fail("cgr101_rcv_scope_data")

(* A seeded fault: the record ends and keeps its channels.                 *)
DigitalEventDone_KeepsChannels == digEv' = FALSE /\ UNCHANGED chanMask

(***************************************************************************)
(* cgr101_digital_event(): one change or interrupt is recorded.  The last  *)
(* one of the configured count ends the record, another interrupt re-arms. *)
(***************************************************************************)
DigitalEventDone == chanMask' = {} /\ digEv' = FALSE

(* A seeded fault: the interrupt is recorded and not armed again.          *)
DigitalEvent_NotArmed(chan, after) ==
  /\ evCur < evMax
  /\ evCur' = evCur + 1
  /\ \/ /\ evCur + 1 = evMax
        /\ out' = IF evPend THEN Append(out, "EVEN") ELSE out
        /\ DigitalEventDone
        /\ Send(<< "UNBLOCK" >> \o after)
     \/ /\ evCur + 1 # evMax
        /\ Send(after)
        /\ UNCHANGED << out, chanMask, digEv >>
  /\ UNCHANGED << devReq, evMax, evPend >>

DigitalEvent(chan, after) ==
  /\ evCur < evMax
  /\ evCur' = evCur + 1
  /\ \/ /\ evCur + 1 = evMax
        /\ out' = IF evPend THEN Append(out, "EVEN") ELSE out
        /\ DigitalEventDone
        /\ Send(<< "UNBLOCK" >> \o after)
        /\ UNCHANGED devReq
     \/ /\ evCur + 1 # evMax
        /\ devReq' = IF chan = "INT" THEN Append(devReq, "D !") ELSE devReq
        /\ Send(after)
        /\ UNCHANGED << out, chanMask, digEv >>
  /\ UNCHANGED << evMax, evPend >>

NoDigitalEvent(after) == Send(after) /\ UNCHANGED << out, devReq, digEvVars >>

RcvDigitalRead ==
  /\ Received("I")
  /\ IF "DIN" \in chanMask THEN DigitalEvent("DIN", << "DIGITAL_READ_COMPLETE" >>)
                           ELSE NoDigitalEvent(<< "DIGITAL_READ_COMPLETE" >>)
  /\ UNCHANGED << scopeVars, digReq, digState, identVars >>

RcvInterrupt ==
  /\ Received("!")
  /\ IF "INT" \in chanMask THEN DigitalEvent("INT", << >>) ELSE NoDigitalEvent(<< >>)
  /\ UNCHANGED << scopeVars, digReq, digState, identVars >>

RcvDigitalEventFails ==
  /\ Turn("device")
  /\ \/ rcv = "I" /\ "DIN" \in chanMask
     \/ rcv = "!" /\ "INT" \in chanMask
  /\ evCur >= evMax
  /\ Fail("cgr101_digital_event")

DeviceWorker ==
  \/ RcvStart
  \/ RcvIdent \/ RcvScopeStatus \/ RcvScopeOffset \/ RcvScopeAddr
  \/ RcvScopeData \/ RcvScopeDataFails
  \/ RcvDigitalRead \/ RcvInterrupt \/ RcvDigitalEventFails
=============================================================================
