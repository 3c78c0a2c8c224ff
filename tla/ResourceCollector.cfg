\* Two samples during the run, of a service that is restarted once, on a
\* system that makes two ticks.
SPECIFICATION FairCollectorSpec
CONSTANTS
  MaxStarts = 2
  MaxTicks = 2
  MaxSamples = 2
  Null = Null
INVARIANT SharesTileTheRun
PROPERTY CollectReturns
