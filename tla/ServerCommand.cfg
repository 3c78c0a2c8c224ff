\* Two health requests and two DNS queries around a start and a stop, after
\* configurations with every field at, above and below what is accepted.
SPECIFICATION FairCommandSpec
CONSTANTS
  r1 = r1
  r2 = r2
  Requests <- TwoRequests
  MaxQueries = 2
  Absent = Absent
  Addresses <- Spellings
  Ports <- PortNumbers
  Upstreams <- Forwarders
  Timeouts = {0, 1}
  Levels = {"other"}
  Formats = {"other"}
  ParseIP <- Parsed
  Loopback = {"loopback"}
  SplitHostPort <- Split
  UDPPorts = {"", "53"}
INVARIANTS
  CommandTypeOK
  NoReadyAnswerWhileStopping
  AllOrNothing
  ExitTellsTheTruth
  HealthIsPrivate
PROPERTY SignalEnds
