SPECIFICATION Spec
CONSTANTS
  Chunk = 4
  MaxLength = 5
  Value <- Samples
  MaxChan = 3
  Number <- ChannelNumbers
  Unit = 256
  Steps = 4
  Sine <- OnePeriod
  PwmFreq <- PwmTable
  Level <- Levels
  Frequency <- Frequencies
  Byte <- Bytes
  MaxCommands = 2
CHECK_DEADLOCK FALSE
INVARIANTS DeviceAgrees FailsOnlyOutOfRange DriftBounded MaskWithinNames
