SPECIFICATION Spec
CONSTANTS
  MaxTries = 2
  Workers = {1, 2}
  Worlds <- MCWorlds
INVARIANTS SlotHeld LogClosed
PROPERTIES Settles NotOfferedAgain
CHECK_DEADLOCK FALSE
