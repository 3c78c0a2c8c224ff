SPECIFICATION Spec
CONSTANTS
  c1 = c1
  c2 = c2
  NoCaller = NoCaller
  Callers <- OneCaller
  MaxStarts = 2
  MaxShared = 2
INVARIANT ReadyWhileServing
