SPECIFICATION Spec
CONSTANTS
  Header <- AllHeader
  PrefixRule <- AddsToPath
  Common <- CommonHeader
  MaxDepth = 5
  End = end
  None = none
CHECK_DEADLOCK FALSE
INVARIANTS PrefixFits ReplayIsOver
PROPERTIES HeaderAsWritten
