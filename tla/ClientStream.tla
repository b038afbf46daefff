---------------------------- MODULE ClientStream ----------------------------
(***************************************************************************)
(* The client's stream from its lines to their answers: the line buffer,   *)
(* the commands of a line in their order, the output buffer and the flush. *)
(* Commands are named by what they do to the output buffer.                *)
(***************************************************************************)
EXTENDS LineBuffer

CONSTANTS
  Elements,     \* for each query, the elements of its answer
  Late,         \* the queries that are answered by an event of the device
  Silent,       \* the commands without an answer
  Cls           \* *CLS

Query == DOMAIN Elements

ASSUME CommandAssumption ==
  /\ Late \subseteq Query
  /\ \A q \in Query : /\ Elements[q] \in Seq(Seq(STRING) \ { << >>, << NL >> })
                     /\ Elements[q] # << >>
  /\ { ";" } \cup Query \cup Silent \cup { Cls } \subseteq Char
  /\ ";" \notin Query \cup Silent \cup { Cls }
  /\ Query \cap Silent = { } /\ Cls \notin Query \cup Silent

VARIABLES
  evq,        \* the event pipe: LINE and FLUSH
  out,        \* info->output
  owed,       \* the late answers that the device has still to give
  failed,     \* the function that failed, or ""
  quit,
  current,    \* history: the line that was processed last
  alone,      \* history: it was processed with no late answer owed
  reply       \* history: what was written since

outVars == << evq, out, owed, failed, quit, current, alone, reply >>
vars == << streamVars, outVars >>

Init ==
  /\ LineInit
  /\ evq = << >> /\ out = Cleared /\ owed = << >> /\ failed = "" /\ quit = FALSE
  /\ current = << >> /\ alone = FALSE /\ reply = << >>

Running == failed = "" /\ ~quit

----------------------------------------------------------------------------
(* What the parser does with a line, one character after the other: it     *)
(* takes a command, then expects ';' or the end; an error drops the rest.  *)
Answer(o, elements) ==
  LET put[n \in 0..Len(elements)] ==
        IF n = 0 THEN o ELSE Printf(put[n - 1], elements[n])
  IN  put[Len(elements)]

Begin(o) == [ out |-> o, owed |-> << >>, expect |-> "first" ]

TakeCommand(s, c) ==
  CASE c \in Late -> [ s EXCEPT !.expect = "separator", !.owed = Append(@, c) ]
    [] c \in Query \ Late ->
         [ s EXCEPT !.expect = "separator", !.out = Answer(@, Elements[c]) ]
    [] c = Cls -> [ s EXCEPT !.expect = "separator", !.out = ResetLen(@) ]
    [] c \in Silent -> [ s EXCEPT !.expect = "separator" ]
    [] OTHER -> [ s EXCEPT !.expect = "error" ]

Take(s, c) ==
  IF s.expect = "error" THEN s
  ELSE IF c = ";" /\ s.expect # "command"
       THEN [ s EXCEPT !.expect = "command", !.out = CmdSep(@) ]
  ELSE IF c = ";" \/ s.expect = "separator" THEN [ s EXCEPT !.expect = "error" ]
  ELSE TakeCommand(s, c)

(* parser_send(): the output buffer is cleared and the line is parsed.     *)
Parsed(l) ==
  LET took[n \in 0..Len(l)] ==
        IF n = 0 THEN Begin(Cleared) ELSE Take(took[n - 1], l[n])
  IN  took[Len(l)]

----------------------------------------------------------------------------
Write ==
  /\ \E l \in Line : WriteLine(l)
  /\ UNCHANGED outVars

(* parser_cli_read_worker()                                                *)
ReadWorker ==
  /\ Running
  /\ ReadEndOfFile \/ \E n \in 1..Len(socket) : Read(n)
  /\ evq' = Append(evq, "LINE")
  /\ UNCHANGED << out, owed, failed, quit, current, alone, reply >>

ProcessLine == Running /\ evq # << >> /\ Head(evq) = "LINE" /\ line # 0

(* The line l has been found: it is parsed, if it is not empty.            *)
Handle(l) ==
  /\ IF l = << >>
     THEN /\ evq' = Tail(evq) \o IF line' # 0 THEN << "LINE" >> ELSE << >>
          /\ UNCHANGED << out, owed, due, whole, current, alone, reply >>
     ELSE /\ out' = Parsed(l).out /\ owed' = owed \o Parsed(l).owed
          /\ evq' = Tail(evq) \o << "FLUSH" >> \o IF line' # 0 THEN << "LINE" >> ELSE << >>
          /\ Processed(l)
          /\ current' = l /\ alone' = (owed = << >>) /\ reply' = << >>
  /\ UNCHANGED << failed, quit >>

(* parser_process_line(), of a line that has a newline.                    *)
ProcessText ==
  /\ ProcessLine /\ HasLine
  /\ Advance
  /\ Handle(NextLine)

(* The same of a line that has none in the buffer, but one behind it.      *)
ProcessBehind ==
  /\ ProcessLine /\ Overrun
  /\ \E eol \in Behind :
       /\ eol - line < BufSize
       /\ AdvanceBehind(eol)
       /\ \E bytes \in BytesBehind(eol) : Handle(LineBehind(bytes))

ProcessLeftovers ==
  /\ ProcessLine /\ Leftovers
  /\ evq' = Tail(evq)
  /\ UNCHANGED << out, owed, failed, quit, current, alone, reply >>

(* The end of the stream goes to the parser as a line of its own.          *)
ProcessEndOfFile ==
  /\ ProcessLine /\ EndOfFile
  /\ quit' = TRUE /\ out' = Cleared
  /\ evq' = Tail(evq) \o << "FLUSH" >>
  /\ UNCHANGED << streamVars, owed, failed, current, alone, reply >>

(* The assertions on the length of a line and of the leftovers: these may  *)
(* begin with any byte of the pointer that is none of the upper ones.      *)
ProcessFails ==
  /\ ProcessLine /\ ~HasLine /\ ~EndOfFile
  /\ \/ len >= BufSize /\ line <= BufSize + Word
     \/ Overrun /\ \E eol \in Behind : eol - line >= BufSize
  /\ failed' = "parser_cli_line"
  /\ UNCHANGED << streamVars, evq, out, owed, quit, current, alone, reply >>

(* The line begins behind the buffer with a 0, like the end of the stream; *)
(* its length is negative as an int, and the scanner ends the program.     *)
ScannerFails ==
  /\ ProcessLine /\ line > BufSize
  /\ failed' = "yy_scan_bytes"
  /\ UNCHANGED << streamVars, evq, out, owed, quit, current, alone, reply >>

(* EVENT_OUTPUT_FLUSH                                                      *)
Flush ==
  /\ Running /\ evq # << >> /\ Head(evq) = "FLUSH"
  /\ evq' = Tail(evq)
  /\ IF FlushFails(out)
     THEN failed' = "scpi_output_flush" /\ UNCHANGED << out, reply >>
     ELSE /\ out' = Flushed(out) /\ reply' = reply \o Written(out)
          /\ UNCHANGED failed
  /\ UNCHANGED << streamVars, owed, quit, current, alone >>

(* The device has what a late query waits for: the answer is put into the  *)
(* buffer and a flush is scheduled.                                        *)
AnswerLate ==
  /\ Running /\ owed # << >>
  /\ owed' = Tail(owed)
  /\ out' = Answer(out, Elements[Head(owed)])
  /\ evq' = Append(evq, "FLUSH")
  /\ UNCHANGED << streamVars, failed, quit, current, alone, reply >>

Next ==
  \/ Write \/ ReadWorker \/ ProcessText \/ ProcessBehind \/ ProcessLeftovers
  \/ ProcessEndOfFile \/ ProcessFails \/ ScannerFails \/ Flush \/ AnswerLate

Spec == Init /\ [][Next]_vars

----------------------------------------------------------------------------
TypeOK ==
  /\ buf \in [ 1..BufSize -> Char \cup { NL, Nul } ]
  /\ \A i \in DOMAIN evq : evq[i] \in { "LINE", "FLUSH" }
  /\ Len(out.text) < OutSize
  /\ out.needSep \in BOOLEAN /\ out.numElem \in Nat /\ out.overflow \in BOOLEAN
  /\ owed \in Seq(Late) /\ quit \in BOOLEAN

(* Each line that one read() returned whole is processed, whole, once and  *)
(* in order; of a line cut by the read, no more than its end is, and no    *)
(* two lines are made one (parser_cli_read, parser_cli_line); what is made *)
(* of a line that fills the buffer is another matter (ProcessBehind).      *)
LinesAsRead ==
  [][/\ ProcessText /\ NextLine # << >> => due # << >> /\ current' = Head(due)
     /\ line # 0 /\ line' = 0 => due' = << >>]_vars

(* What a line of immediate queries is to be answered, in one text; or a   *)
(* late query on a line of its own.                                        *)
Joined(elements) ==
  FlattenSeq([ n \in DOMAIN elements |->
                 IF n = 1 THEN elements[1] ELSE << "," >> \o elements[n] ])

Wanted(l) ==
  FlattenSeq([ n \in DOMAIN l |->
                 IF l[n] = ";" THEN << ";" >> ELSE Joined(Elements[l[n]]) ]) \o << NL >>

Queries(l) ==
  /\ Len(l) % 2 = 1
  /\ \A i \in DOMAIN l : IF i % 2 = 0 THEN l[i] = ";" ELSE l[i] \in Query
  /\ Len(l) > 1 => \A i \in DOMAIN l : l[i] \notin Late

(* A line of queries is answered, when its flushes are done, by exactly    *)
(* their answers, separated and ended as they have to be, provided that    *)
(* the whole of it is two characters less than the buffer: nothing of the  *)
(* line before is left in front, no separator is missing or too much, and  *)
(* no answer is lost or cut (scpi_output.c, parser_send).                  *)
QueriesAnswered ==
  alone /\ Queries(current) /\ owed = << >> /\ Len(Wanted(current)) <= OutSize - 2
    => /\ failed # "scpi_output_flush"
       /\ "FLUSH" \notin { evq[i] : i \in DOMAIN evq } => quit \/ reply = Wanted(current)

(* The lines that are processed are the lines that the client wrote: the   *)
(* leftovers of one read() are completed by the next one.                  *)
LinesIntact ==
  [][ProcessText /\ NextLine # << >> => whole # << >> /\ current' = Head(whole)]_vars
=============================================================================
