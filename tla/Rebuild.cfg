SPECIFICATION Spec
CONSTANTS
  MaxAmountMinor = 1000
  Worlds <- MCWorlds
  Rank <- MCRank
  Papers <- MCPapers
  Pairs <- MCPairs
  CrossRate <- MCCrossRate
  Faces <- MCFaces
  StatedCosts = {7}
  fundPayoutWindow = 60
  maxSettlementLag = 3
INVARIANTS CashAsTold InStep RedemptionCloses MovesWhole FundsAsTold
CHECK_DEADLOCK FALSE
