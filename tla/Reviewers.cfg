SPECIFICATION ReviewersSpec
CHECK_DEADLOCK FALSE
CONSTANTS
  MaxUid = 3
  Uid <- AllUids
  NoUid = 0
  CreditLimit = 2
  Word = 8
  MaxPid = 1
  MaxAudits = 1
  Coin = {"BOS"}
  Offers <- TheOffer
  Credit0 <- OneUnit
  Referrer <- Nobody
  Reviewers0 <- NoReviewer
  DelistPenalty = 2
  AuditReward = 1
  GiftPublish = 1
  ReviewSalary = 1
  TransactionPool = 2
  SalaryPool = 0
  Mintable = 3
  RateDen = 20
  FeeNum = 1
  DevopsNum = 4
  CommNum = 1
  GiftNum = 1
  MaxOrders = 0
  MaxReturns = 0
  Horizon = 0
  ClientTimes = {}
  PayTimeOut = 1
  ReceiptTimeOut = 1
  MaxDeferrTimes = 0
  CleanDelay = 1
  CleanRows = 1
  DeferDelay = 1
  TradeReward = 1
  LatePenalty = 1
  GiftsOpen = FALSE
  Scale <- ByOne
  Issued <- BosAtToken
  MaxArbs = 1
  Parties <- TheParties
  ArbTypes = {"AT_COMPLAINT", "AT_PRODUCT"}
  ReviewMinCount = 1
  VerdictPenalty = 1
  OtherOids = {}
  VoteCap = 2
  GiftVote = 1
  RefGift = 1
  RefCredit = 1
  RefPool = 1
INVARIANTS
  ReviewersTypeOK
  FlagIsVotedFor
  BallotsAreExact
  EveryPoolBacked
  ReferralsAreExact
