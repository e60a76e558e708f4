SPECIFICATION Spec
CONSTANTS
  r1 = r1
  r2 = r2
  e1 = e1
  e2 = e2
  Ids <- Two
  Papers <- Two
  Marks <- One
  MaxReadings = 2
  Runs = {r1, r2}
  Entries = {e1, e2}
  Requests = {q1}
  Worlds <- MCWorlds
PROPERTIES ImplementsBrokerCopy KeepsRows ExplanationFollows Converges
CHECK_DEADLOCK FALSE
