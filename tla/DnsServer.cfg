\* Two goroutines share a server started once, or one goroutine owns the
\* server, as App.Run does, and restarts it.
SPECIFICATION FairSpec
CONSTANTS
  c1 = c1
  c2 = c2
  NoCaller = NoCaller
  Callers <- TwoCallers
  MaxStarts = 2
  MaxShared = 1
INVARIANTS CleanShutdownDrained ReadyIsWatched NoLeakedSocket
PROPERTIES ImplementsLifecycle CallsReturn BrokenListenerNoticed
