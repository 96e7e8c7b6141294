SPECIFICATION LifecycleSpec
CHECK_DEADLOCK FALSE
CONSTANTS
  Account = {"bitsfleamain", "fleagateways", "player"}
  Self = "bitsfleamain"
  Gateway = "fleagateways"
  NoAccount = "none"
  Symbol <- PointsAndBts
  FMP = "FMP"
  MaxQuantity = 2
  TeamUnlock = 1
  MaxUid = 2
  MaxAddrs = 2
  MaxSettles = 2
  Addr = {a, b}
  a = a
  b = b
  NoAddr = "none"
  SettleKeep = 1
  InitTokens <- PointsAndBts
  InitMax <- Maxima
  InitFee <- Fees
  TeamShare = 100
  Pool = 1
  ClearMax = 1
  ResetTokens <- PointsAndBts
  CoinChanges <- BtsChanges
  Customers = {"fleagateways", "player"}
  MaxCleanings = 1
SYMMETRY AddrSymmetry
INVARIANTS
  LifecycleTypeOK
  LedgerIsExact
PROPERTIES
  WithdrawalsStand
  PaidWhereBound
