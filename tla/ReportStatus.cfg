\* Rates of 0, 13.67 and 14 units: the last two round to the same, 14, which
\* is a bound of the second thresholds.
SPECIFICATION StatusSpec
CONSTANTS
  ScenarioCount = 2
  QueryCount = 3000
  HundredPercent = 1000
  Failures = {0, 41, 42}
  Latencies = {1, 2}
  Thresholds <- SomeThresholds
CHECK_DEADLOCK FALSE
INVARIANTS
  StatusTypeOK
  SummaryIsFaithful
