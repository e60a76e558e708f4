SPECIFICATION FamiliesSpec
CONSTANTS
  DivScale = 100
  AppAhead = 0
  Accounts = {1, 2}
  Writers = {"w1", "w2"}
  HandRows <- Parcel
  Transfers <- AllMoves
  MoneyTransfers <- Nothing
  ArrivalsAsked <- Nothing
  Statements <- Told
  Exchanges <- Nothing
  Spinoffs <- Nothing
  Events <- AllEvents
  Closable = {2}
  MaxRemoved = 1
  MaxRows = 3
  MaxClock = 4
INVARIANT JudgesWhatStands
PROPERTIES ImplementsJournal EveryRequestEnds
