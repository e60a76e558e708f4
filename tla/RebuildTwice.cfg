SPECIFICATION Spec
CONSTANTS
  MaxAmountMinor = 1000
  Worlds <- TwiceWorld
  Rank <- MCRank
  Papers <- MCPapers
  Pairs <- MCPairs
  CrossRate <- MCCrossRate
  Faces <- MCFaces
  StatedCosts = {7}
  fundPayoutWindow = 60
  maxSettlementLag = 3
INVARIANT CashAsTold
CHECK_DEADLOCK FALSE
