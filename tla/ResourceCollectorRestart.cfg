SPECIFICATION CollectorSpec
CONSTANTS
  MaxStarts = 2
  MaxTicks = 0
  MaxSamples = 0
  Null = Null
INVARIANT RestartIsDetected
