SPECIFICATION LifecycleSpec
CHECK_DEADLOCK FALSE
CONSTANTS
  Account = {"bitsfleamain", "fleagateways", "player"}
  Self = "bitsfleamain"
  Gateway = "fleagateways"
  NoAccount = "none"
  Symbol <- PointsAndCoins
  FMP = "FMP"
  MaxQuantity = 1
  TeamUnlock = 1
  MaxUid = 2
  MaxAddrs = 2
  MaxSettles = 2
  Addr = {a, b}
  a = a
  b = b
  NoAddr = "none"
  SettleKeep = 1
  InitTokens <- PointsAndBts
  InitMax <- Maxima
  InitFee <- NoFees
  TeamShare = 100
  Pool = 1
  ClearMax = 1
  ResetTokens <- PointsAndBts
  CoinChanges <- LtcOut
  Customers = {"fleagateways", "player"}
  MaxCleanings = 0
SYMMETRY AddrSymmetry
PROPERTIES
  BoundBeforeWithdrawn
