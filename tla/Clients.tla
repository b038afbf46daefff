------------------------------- MODULE Clients -------------------------------
(***************************************************************************)
(* Classes of clients, by the lines they send.  Some properties of the     *)
(* server hold for any client, others only for one that uses it in some    *)
(* way; the definitions say which way that is.                             *)
(***************************************************************************)
EXTENDS ServerProperties

(* A client that starts no operation that could block: it enables no       *)
(* input channel and configures no record of digital events.               *)
Starters == { "SENS:FUNC:ON", "CONF:DIG:EVEN", "MEAS:DIG:EVEN?" }
StartsNothing(L) == L \subseteq Seq(Command \ Starters)

(* A client that initiates, or aborts, each record of digital events right *)
(* after it has configured it: what MEASure does by itself.                *)
Follows(line, i, c) == i < Len(line) /\ line[i + 1] \in c

Arming(line) ==
  \A i \in 1..Len(line) : line[i] = "CONF:DIG:EVEN" => Follows(line, i, { "ABOR", "INIT" })

ArmsItsRecords(L) == \A line \in L : Arming(line)

(* A client that starts nothing, asks for nothing that is answered after   *)
(* its line was processed, and clears the output only before it asks.      *)
LateQueries ==
  { "*IDN?", "SENS:STAT?", "FETC:DIG:DATA?", "READ:DIG:DATA?", "MEAS:DIG:DATA?" }

PromptCommand == Command \ (Starters \cup LateQueries)

ClearsFirst(line) == \A i \in 2..Len(line) : line[i] # "*CLS"

AnsweredAtOnce(L) ==
  L \subseteq Seq(PromptCommand) /\ \A line \in L : ClearsFirst(line)

(* A client that does not ask for a record of digital events, which has    *)
(* no answer when nothing was recorded, and asks for nothing on a line on  *)
(* which it quits, which may end the server before the line is flushed.    *)
RecordQueries == { "FETC:DIG:EVEN?", "READ:DIG:EVEN?", "MEAS:DIG:EVEN?" }
AsksForNoRecord(L) == L \subseteq Seq(Command \ RecordQueries)

Quits(line) == \E i \in 1..Len(line) : line[i] = "SYST:INT:QUI"

QuitsSilently(L) ==
  \A line \in L : Quits(line) => \A i \in 1..Len(line) : AnswerOf[line[i]] = << >>

(* A client that, on the line that starts a sweep, waits for its end at    *)
(* once, and aborts and records digital events only on other lines: a line *)
(* that resets the device first, so that it starts no sweep.               *)
Sweepers == { "INIT", "INIT:IMM" }
Fences == { "*WAI", "*OPC?", "SENS:DATA?" }
Aborters == { "ABOR", "READ:DIG:DATA?", "READ:DIG:EVEN?", "MEAS:DIG:DATA?" }
Recorders == { "CONF:DIG:EVEN", "MEAS:DIG:EVEN?" }

Fenced(line) ==
  /\ line \in Seq(Command \ (Aborters \cup Recorders))
  /\ \A i \in 1..Len(line) : line[i] \in Sweepers => Follows(line, i, Fences)
  /\ \A i, j \in 1..Len(line) : line[i] \in Sweepers /\ line[j] \in Sweepers => i = j

Disables(line) == line # << >> /\ Head(line) = "*RST"

Idle(line) == line \in Seq(Command \ (Recorders \cup { "SENS:FUNC:ON" }))

FencesItsSweeps(L) == \A line \in L : Fenced(line) \/ (Disables(line) /\ Idle(line))

(* A client that moreover asks for the data of a sweep only right after it *)
(* has enabled and started it, and sleeps at most once per line.           *)
ReadsItsSweep(line) ==
  \A i \in 1..Len(line) : line[i] = "SENS:DATA?" =>
    i > 2 /\ line[i - 1] \in Sweepers /\ line[i - 2] = "SENS:FUNC:ON"

SleepsOnce(line) ==
  \A i, j \in 1..Len(line) : line[i] = "SYST:INT:SLE" /\ line[j] = "SYST:INT:SLE" => i = j

IsOrderly(L) ==
  FencesItsSweeps(L) /\ \A line \in L : ReadsItsSweep(line) /\ SleepsOnce(line)

(* A client that does not ask for the identity.                            *)
KnowsItsDevice(L) == L \subseteq Seq(Command \ { "*IDN?" })
=============================================================================
