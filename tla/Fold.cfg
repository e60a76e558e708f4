SPECIFICATION Spec
CONSTANTS
  DivScale = 100
  AppAhead = 0
  Catalogue <- Trading
  Shares <- CarvedShares
  MaxOps = 5
INVARIANTS RecordedAsReleased OldestFirst CarvedExactly NothingLost
CHECK_DEADLOCK FALSE
