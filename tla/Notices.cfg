SPECIFICATION BothSpec
CONSTANTS
  soonDays = 1
  storageDays = 2
  failingDays = 1
  arrivedDays = 2
  DaysInMonth = 3
  Hours = 2
  Worlds <- MCWorlds
  Bots = {b1}
  Members = {u1}
  Chats = {c1}
  MaxSwitches = 1
  MaxMessages = 2
  MaxCodes = 2
  MaxFaults = 1
  TTL = 0
  MaxClock = 1
INVARIANTS ToldAsMarked HeardRight
PROPERTIES Answered HeardInTime
CHECK_DEADLOCK FALSE
