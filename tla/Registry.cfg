SPECIFICATION Spec
CONSTANTS
  d1 = d1
  d2 = d2
  DivScale = 100
  AppAhead = 0
  PaperNo <- Numbers
  Isin <- Isins
  Roubles = 1
  Accounts = {1}
  Doors = {d1, d2}
  Jobs = {j1}
  Worlds <- MCWorlds
INVARIANTS HoldingsAsPublished RunSettles
PROPERTIES Converges
CHECK_DEADLOCK FALSE
