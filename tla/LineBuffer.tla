----------------------------- MODULE LineBuffer -----------------------------
(***************************************************************************)
(* The line buffer of the client's stream (parser.c): what read() returned *)
(* is cut into lines in place, and what is left behind the last newline is *)
(* moved to the start of the buffer.  Behind the buffer lies the pointer   *)
(* cli_line (info.h); positions from BufSize + 1 on are those of its bytes.*)
(***************************************************************************)
EXTENDS Integers, Sequences, SequencesExt, OutputBuffer

CONSTANTS
  BufSize,      \* INFO_CLI_LEN
  Word,         \* the bytes of a pointer that need not be 0: the lower ones
  SizeMax,      \* how many numbers a size_t has
  Char,         \* the characters of a line
  Line,         \* the lines the client writes
  MaxLines      \* bound on their number

ASSUME BufSizeAssumption == BufSize \in Nat /\ BufSize > 1

ASSUME WordAssumption ==
  Word \in Nat /\ SizeMax \in Nat /\ SizeMax > BufSize + Word

ASSUME LineAssumption ==
  /\ NL \notin Char /\ Nul \notin Char
  /\ Line \subseteq Seq(Char)
  /\ MaxLines \in Nat

VARIABLES
  socket,     \* what was written and not read
  nsent,      \* the number of lines written
  buf,        \* cli_buf
  offset,     \* cli_offset
  line,       \* cli_line: the position in the buffer, counted from 1; 0 is NULL
  len,        \* cli_line_len
  filled,     \* history: the last read() used up the buffer, and not with NL
  due,        \* history: the lines that were read whole and not yet processed
  whole       \* history: what the client wrote and no line was made of yet

streamVars == << socket, nsent, buf, offset, line, len, filled, due, whole >>

LineInit ==
  /\ socket = << >> /\ nsent = 0
  /\ buf = [ i \in 1..BufSize |-> Nul ]
  /\ offset = 0 /\ line = 0 /\ len = 0 /\ filled = FALSE
  /\ due = << >> /\ whole = << >>

(* The client writes a line.                                               *)
WriteLine(l) ==
  /\ nsent < MaxLines
  /\ nsent' = nsent + 1
  /\ socket' = socket \o Append(l, NL)
  /\ whole' = IF l = << >> THEN whole ELSE Append(whole, l)
  /\ UNCHANGED << buf, offset, line, len, filled, due >>

(* The lines that end in a piece of the stream, but for empty ones.        *)
EndsBehind(s, i) == { e \in i..Len(s) : s[e] = NL }

LinesOf(s) ==
  LET from[i \in 1..Len(s) + 1] ==      \* those that begin at i or behind
        IF EndsBehind(s, i) = {} THEN << >>
        ELSE LET e == Min(EndsBehind(s, i))
             IN  (IF e = i THEN << >> ELSE << SubSeq(s, i, e - 1) >>) \o from[e + 1]
  IN  from[1]

(* parser_cli_read(): read() returns n characters, behind the offset.  The *)
(* line is taken to begin there, where the new characters are.             *)
Read(n) ==
  /\ line = 0
  /\ n \in 1..Len(socket) /\ n <= BufSize - offset
  /\ buf' = [ i \in 1..BufSize |->
                IF i <= offset THEN buf[i]
                ELSE IF i <= offset + n THEN socket[i - offset] ELSE Nul ]
  /\ line' = offset + 1 /\ len' = n
  /\ filled' = (n = BufSize - offset /\ socket[n] # NL)
  /\ socket' = SubSeq(socket, n + 1, Len(socket))
  /\ due' = due \o LinesOf(SubSeq(socket, 1, n))
  /\ UNCHANGED << nsent, offset, whole >>

(* read() returns 0: the client has closed the stream.                     *)
ReadEndOfFile ==
  /\ line = 0 /\ socket = << >> /\ nsent = MaxLines
  /\ buf' = [ i \in 1..BufSize |-> IF i <= offset THEN buf[i] ELSE Nul ]
  /\ line' = offset + 1 /\ len' = 1 /\ filled' = FALSE
  /\ UNCHANGED << socket, nsent, offset, due, whole >>

(* strchr() for a newline: what it reaches is the line up to a 0.          *)
Reached(c) ==
  { i \in line..BufSize : buf[i] = c /\ \A k \in line..i - 1 : buf[k] \notin { NL, Nul } }

HasLine == line # 0 /\ Reached(NL) # {}
Eol == CHOOSE i \in Reached(NL) : TRUE

EndOfFile == line \in 1..BufSize /\ buf[line] = Nul

(* There is neither, or the line begins behind the buffer: what strchr()   *)
(* reaches is in the pointer that is stored there, at the latest a 0.      *)
Overrun == line # 0 /\ Reached(NL) = {} /\ Reached(Nul) = {}
Behind == { i \in BufSize + 1..BufSize + Word : i >= line }

(* The line that is handed to the parser, if it is not empty.              *)
NextLine == SubSeq(buf, line, Eol - 1)

(* A seeded fault: what was read behind the line is forgotten.             *)
Advance_DropsRest ==
  /\ line' = 0 /\ len' = 0
  /\ UNCHANGED << socket, nsent, buf, offset, filled >>

(* parser_cli_line(), when there is a newline.                             *)
Advance ==
  /\ line' = IF len - (Eol - line) - 1 = 0 THEN 0 ELSE Eol + 1
  /\ len' = len - (Eol - line) - 1
  /\ UNCHANGED << socket, nsent, buf, offset, filled >>

(* parser_cli_line(), when a byte of the pointer is one: its length is     *)
(* more than that of what was read, the difference is not 0, and the line  *)
(* goes on in the pointer.                                                 *)
AdvanceBehind(eol) ==
  /\ line' = eol + 1
  /\ LET rest == len - (eol - line) - 1
     IN  len' = IF rest < 0 THEN rest + SizeMax ELSE rest
  /\ UNCHANGED << socket, nsent, buf, offset, filled >>

(* The line that is then handed to the parser; the bytes of a pointer may  *)
(* be any characters.                                                      *)
LineBehind(bytes) == SubSeq(buf, line, BufSize) \o bytes
BytesBehind(eol) == [ 1..eol - (IF line <= BufSize THEN BufSize + 1 ELSE line) -> Char ]

(* The history, when a line is handed to the parser.                       *)
Processed(l) ==
  /\ due' = IF due = << >> THEN << >> ELSE Tail(due)
  /\ whole' = IF whole = << >> THEN << >> ELSE Tail(whole)

(* A seeded fault: the offset stays that of the read.                      *)
Leftovers_KeepsOffset ==
  /\ line # 0 /\ ~HasLine /\ ~EndOfFile /\ len < BufSize
  /\ buf' = [ i \in 1..BufSize |-> IF i <= len THEN buf[line + i - 1] ELSE buf[i] ]
  /\ offset' = offset + len
  /\ line' = 0 /\ len' = 0
  /\ UNCHANGED << socket, nsent, filled, due, whole >>

(* parser_cli_line(), when there is none.                                  *)
Leftovers ==
  /\ line # 0 /\ ~HasLine /\ ~EndOfFile /\ len < BufSize
  /\ buf' = [ i \in 1..BufSize |-> IF i <= len THEN buf[line + i - 1] ELSE buf[i] ]
  /\ offset' = len
  /\ line' = 0 /\ len' = 0
  /\ UNCHANGED << socket, nsent, filled, due, whole >>

(* The line is in the buffer, with nothing but 0 behind it.                *)
InBuffer ==
  /\ line \in 0..BufSize /\ len \in 0..BufSize
  /\ line # 0 => /\ len >= 1 /\ line + len - 1 <= BufSize
                 /\ \A i \in line + len..BufSize : buf[i] = Nul

(* The next read() has room, and no handler takes or moves a character     *)
(* outside the buffer, whatever the client sends and however it is cut,    *)
(* unless a read() has used up the buffer with a line that does not end    *)
(* there: only then does strchr() run into the pointer behind it           *)
(* (parser_cli_read, parser_cli_line).                                     *)
BufferOK ==
  /\ offset \in 0..BufSize - 1 /\ DOMAIN buf = 1..BufSize
  /\ ~filled => InBuffer
=============================================================================
