SPECIFICATION Safe
CONSTANTS
  Lines <- AnyLines
  MaxLines = 2
  Lockstep = FALSE
  ImmTrigger = FALSE
  EventCounts = {0,2}
  EventChans = {{"DIN","INT"}}
  MaxReports = 1
  Signals = {"SIGINT"}
CHECK_DEADLOCK FALSE
INVARIANTS TypeOK NoLostLine BlockHasRelease FlushFollows DataAfterAddress
PROPERTIES OnlySignalsCallInVain
