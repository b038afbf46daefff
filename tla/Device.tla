------------------------------- MODULE Device -------------------------------
(***************************************************************************)
(* The CGR-101 as the server sees it through the pipes of the spawned      *)
(* helper (external: its code is not part of the repository; what it does  *)
(* is taken from how cgr101.c drives it).  It answers requests in the      *)
(* order they were written, one whole message each, at any time.           *)
(***************************************************************************)
EXTENDS Instrument

(* The requests that are answered, each with the message that answers it.  *)
(* "S D" is the manual trigger: it completes the capture "S G" started.    *)
Reply == { << "i", "*" >>, << "D I", "I" >>, << "S S", "S" >>, << "S O", "O" >>,
           << "S B", "D" >>, << "S D", "A" >> }

serverSide == << loopVars, evq, inputVars, blockVars, out, scopeVars,
                 digitalVars, identVars, rcv >>

(* The oldest request is carried out; "D !" arms the interrupt.            *)
DeviceAnswers ==
  /\ devReq # << >>
  /\ devReq' = Tail(devReq)
  /\ LET r       == Head(devReq)
         replies == { m \in Message : << r, m >> \in Reply /\ (m = "A" => armed) }
     IN  /\ \/ \E m \in replies : devOut' = Append(devOut, m)
            \/ replies = {} /\ UNCHANGED devOut
         /\ armed' = (r = "S G" \/ (r # "S D" /\ armed))
         /\ intArmed' = (r = "D !" \/ intArmed)
  /\ UNCHANGED << reports, serverSide, clientVars >>

(* The signal at the input meets the trigger condition of a capture.       *)
DeviceTriggered ==
  /\ armed
  /\ armed' = FALSE
  /\ devOut' = Append(devOut, "A")
  /\ UNCHANGED << devReq, intArmed, reports, serverSide, clientVars >>

(* "By default, the device sends updates when the inputs change."          *)
DeviceReportsInput ==
  /\ reports < MaxReports
  /\ reports' = reports + 1
  /\ devOut' = Append(devOut, "I")
  /\ UNCHANGED << devReq, armed, intArmed, serverSide, clientVars >>

DeviceInterrupts ==
  /\ intArmed /\ reports < MaxReports
  /\ intArmed' = FALSE
  /\ reports' = reports + 1
  /\ devOut' = Append(devOut, "!")
  /\ UNCHANGED << devReq, armed, serverSide, clientVars >>
=============================================================================
