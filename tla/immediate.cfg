SPECIFICATION Safe
CONSTANTS
  Lines <- ImmediateLines
  MaxLines = 3
  Lockstep = FALSE
  ImmTrigger = TRUE
  EventCounts = {1}
  EventChans = {{"DIN"}}
  MaxReports = 0
  Signals = {}
INVARIANTS OneLineToken AnsweredBeforeExit
PROPERTIES AnswersNotCleared
