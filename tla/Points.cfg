SPECIFICATION PointsSpec
CHECK_DEADLOCK FALSE
CONSTANTS
  Account <- TwoAndSelf
  Holders <- Two
  Self = "bitsfleamain"
  Symbol = {"FMP"}
  FMP = "FMP"
  MaxQuantity = 2
  TeamUnlock = 2
  Coin = {"BOS"}
  MaxDay = 2
  MaxIncome = 3
  MaxSupply = 4
  TeamShare = 50
  DividendInterval = 1
INVARIANTS
  PointsTypeOK
  SupplyIsBalances
  SupplyWithinMax
  TeamShareVests
  PointsFollowBalances
  DividendIsCovered
