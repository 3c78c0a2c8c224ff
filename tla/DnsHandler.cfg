\* Two requests.  They are never followed by a third, so the model stops when
\* both are done.  Whatever panics does so without a snapshot beside it: the
\* two together, which the proofs cover, make three times as many states.
SPECIFICATION Spec
CONSTANTS
  q1 = q1
  q2 = q2
  Requests <- TwoRequests
  Messages <- TwoMessages
  MaxSnapshots = 1
  MaxPanicked = 0
SYMMETRY RequestSymmetry
INVARIANTS
  CountersAddUp
  AnsweredOnce
  SnapshotSkewBounded
CHECK_DEADLOCK FALSE
