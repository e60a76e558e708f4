SPECIFICATION AheadSpec
CONSTANTS
  DivScale = 100
  AppAhead = 3
  Accounts = {1, 2, 3}
  HandRows <- AllRows
  Transfers <- AllMoves
  MoneyTransfers <- CashMoves
  ArrivalsAsked <- Gifts
  Statements <- Told
  Exchanges <- Conversions
  Spinoffs <- CarveOuts
  Events <- AllEvents
  Closable = {1, 2}
  MaxRemoved = 1
  MaxRows = 6
  MaxClock = 7
INVARIANT JournalsReplay
CHECK_DEADLOCK FALSE
