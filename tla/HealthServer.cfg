\* Two goroutines call Start and Shutdown concurrently, across a restart.
SPECIFICATION FairSpec
CONSTANTS
  c1 = c1
  c2 = c2
  Callers <- TwoCallers
  MaxStarts = 2
  MaxActive = 1
INVARIANT ReadyIsAccepting
PROPERTIES OnlyOwnServerCleared SocketReleased
