SPECIFICATION Spec
CONSTANTS
  Channel = {0, 1}
  TriggerChannel = 0
  Samples = 1024
  DivMax = 15
  MinTime = 1024
  StepHigh = 5210
  StepLow = 592
  Mid = 511
  Levels = 1024
  LowLimit = 250000
  DefaultHigh = 2500000
  Second = 20000000
  Volts <- SomeVolts
  Times <- SomeTimes
  Points <- SomePoints
  ShortTimes <- SomeShortTimes
  InputOffsets <- SomeOffsets
  Unset = unset
  MaxCommands = 4
CHECK_DEADLOCK FALSE
INVARIANTS TypeOK RangesCohere PreampFollows SweepTimeKept
PROPERTIES CaptureAsSet LevelIsNearest
