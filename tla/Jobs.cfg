SPECIFICATION BothSpec
CONSTANTS
  Never = Never
  Worlds <- MCWorlds
  Jobs = {j1, j2}
  Stages = {"read"}
  MaxUnits = 1
  beat = 1
  ProgressStale = 4
  Swept = 4
  Throttle = 2
  MaxNow = 5
  MaxRuns = 2
  MaxFaults = 1
  MaxDeaths = 1
INVARIANTS ScreenTrue KeepsPace
CHECK_DEADLOCK FALSE
