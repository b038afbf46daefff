SPECIFICATION StatusSpec
CONSTANTS
  Size = 3
  Error = {out_of_range}
  Syndrome = {text}
  NoError = no_error
  Overflow = queue_overflow
  None = none
  Value <- SomeValues
  OutOfRange = out_of_range
  Text = text
INVARIANTS FreeSlotsAreClean QueuedAreErrors ServiceIsJustified
PROPERTIES ImplementsLog
