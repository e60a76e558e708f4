SPECIFICATION FamiliesSpec
CONSTANTS
  DivScale = 100
  AppAhead = 0
  Accounts = {1, 2, 3}
  HandRows <- AllRows
  Transfers <- AllMoves
  MoneyTransfers <- CashMoves
  ArrivalsAsked <- Gifts
  Statements <- Told
  Exchanges <- Conversions
  Spinoffs <- CarveOuts
  Events <- AllEvents
  Closable = {1, 2}
  MaxRemoved = 1
  MaxRows = 6
  MaxClock = 7
INVARIANTS TypeOK JournalsReplay PairsAgree BasisConserved LotsSound
PROPERTIES PlaceKept
CHECK_DEADLOCK FALSE
