SPECIFICATION Spec
CONSTANTS
  Lines <- FencedLines
  MaxLines = 4
  Lockstep = TRUE
  ImmTrigger = TRUE
  EventCounts = {1}
  EventChans = {{"DIN"}}
  MaxReports = 0
  Signals = {}
INVARIANTS NoAssertionFails
PROPERTIES AnswersArrive ReleasedWhenComplete
