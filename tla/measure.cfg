SPECIFICATION Safe
CONSTANTS
  Lines <- MeasureLines
  MaxLines = 3
  Lockstep = TRUE
  ImmTrigger = FALSE
  EventCounts = {1,2}
  EventChans = {{"DIN"},{"INT"}}
  MaxReports = 3
  Signals = {}
INVARIANTS RecordHasRoom InterruptArmed
PROPERTIES AnswersInOrder
