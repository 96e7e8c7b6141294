SPECIFICATION TradeSpec
CONSTANTS
  NoUid = NoUid
  s = s
  b1 = b1
  b2 = b2
  Uid <- MCUid
  CreditLimit = 500
  Word = 1073741824
  MaxPid = 1
  MaxAudits = 1
  Coin = {"BOS", "EOS", "USDT", "NULS"}
  Offers <- PickedUp
  Credit0 <- BaseCredit
  Referrer <- MCReferrer
  Reviewers0 <- MCReviewers
  DelistPenalty = 5
  AuditReward = 1
  GiftPublish = 2
  ReviewSalary = 3
  TransactionPool = 10
  SalaryPool = 3
  Mintable = 13
  RateDen = 100
  FeeNum = 20
  DevopsNum = 20
  CommNum = 10
  GiftNum = 10
  MaxOrders = 2
  MaxReturns = 2
  Horizon = 3
  ClientTimes = {}
  PayTimeOut = 2
  ReceiptTimeOut = 1
  MaxDeferrTimes = 0
  CleanDelay = 1
  CleanRows = 50
  DeferDelay = 1
  TradeReward = 5
  LatePenalty = 5
  GiftsOpen = TRUE
  Scale <- MCScale
  Issued <- MCIssued
INVARIANTS RefundIsDeliverable
SYMMETRY Buyers
CHECK_DEADLOCK FALSE
