SPECIFICATION Safe
CONSTANTS
  Lines <- OpcThenQuery
  MaxLines = 3
  Lockstep = FALSE
  ImmTrigger = FALSE
  EventCounts = {1}
  EventChans = {{"DIN"}}
  MaxReports = 0
  Signals = {}
PROPERTIES AnswersNotCleared
