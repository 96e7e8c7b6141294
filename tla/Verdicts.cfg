SPECIFICATION MarketSpec
CONSTANTS
  NoUid = NoUid
  s = s
  b1 = b1
  b2 = b2
  Uid <- MCUid
  CreditLimit = 500
  Word = 1073741824
  MaxPid = 1
  MaxAudits = 1
  Coin = {"BOS", "USDT", "NULS"}
  Offers <- Bridged
  Credit0 <- BaseCredit
  Referrer <- MCReferrer
  Reviewers0 <- SellerReviews
  DelistPenalty = 5
  AuditReward = 1
  GiftPublish = 2
  ReviewSalary = 3
  TransactionPool = 10
  SalaryPool = 3
  Mintable = 13
  RateDen = 100
  FeeNum = 20
  DevopsNum = 20
  CommNum = 10
  GiftNum = 10
  MaxOrders = 1
  MaxReturns = 1
  Horizon = 1
  ClientTimes = {}
  PayTimeOut = 1
  ReceiptTimeOut = 1
  MaxDeferrTimes = 0
  CleanDelay = 1
  CleanRows = 50
  DeferDelay = 1
  TradeReward = 5
  LatePenalty = 5
  GiftsOpen = FALSE
  Scale <- MCScale
  Issued <- MCIssued
  MaxArbs = 1
  Parties <- BuyerSues
  ArbTypes = {"AT_ORDER", "AT_COMPLAINT"}
  ReviewMinCount = 1
  VerdictPenalty = 0
  OtherOids <- FirstOrder
INVARIANTS ReturnHasCase FlagHasRow
CHECK_DEADLOCK FALSE
