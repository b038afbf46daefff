SPECIFICATION Spec
CONSTANTS
  OutSize = 7
  NL = nl
  Nul = nul
  BufSize = 6
  Word = 2
  SizeMax = 16
  Char <- Chars
  Line <- SomeLines
  MaxLines = 3
  Elements <- AnswerElements
  Late = {"m"}
  Silent = {"n"}
  Cls = "c"
CHECK_DEADLOCK FALSE
INVARIANTS TypeOK BufferOK QueriesAnswered
PROPERTIES LinesAsRead
