SPECIFICATION CommandSpec
CONSTANTS
  ScenarioCount = 4
  Counts <- AnyCount
  Second = 2
  Durations <- BoundaryDurations
  CommandLines <- ServerLines
  Joined <- JoinedArguments
  Absolute <- Spellings
  ConfigPath = "a"
  MaxPid = 3
  Profiles <- OneProfile
  Unset = Unset
INVARIANTS
  ChecksAgree
  ExitTellsTheTruth
  LookupIsSound
  ProgressIsTruthful
  LinesKeepUp
  DurationIsClose
PROPERTY BarsAreHonest
