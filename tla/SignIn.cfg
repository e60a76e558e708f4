SPECIFICATION Spec
CONSTANTS
  r1 = r1
  r2 = r2
  u1 = u1
  u2 = u2
  a1 = a1
  a2 = a2
  Requests = {r1, r2}
  FirstLock = 1
  MaxLock = 3
  Doublings = 1
  ForgetAfter = 2
  SweepAbove = 1
  Worlds <- Doors
INVARIANTS FewSlipThrough OneOwner
PROPERTIES SessionsEnd LocksLengthen EveryRequestEnds
CHECK_DEADLOCK FALSE
