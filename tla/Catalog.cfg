SPECIFICATION CatalogSpec
CONSTANTS
  NoUid = NoUid
  u1 = u1
  u2 = u2
  r1 = r1
  Uid <- MCUid
  CreditLimit = 500
  Word = 1073741824
  MaxPid = 2
  MaxAudits = 2
  Coin = {"BOS"}
  Offers <- MCOffers
  Credit0 <- BaseCredit
  Referrer <- MCReferrer
  Reviewers0 <- MCReviewers
  DelistPenalty = 5
  AuditReward = 1
  GiftPublish = 2
  ReviewSalary = 3
  TransactionPool = 3
  SalaryPool = 7
  Mintable = 10
INVARIANTS CatalogTypeOK PoolsBacked RewardedOnce
CHECK_DEADLOCK FALSE
