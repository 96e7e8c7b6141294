------------------------------ MODULE Catalog -------------------------------
(***************************************************************************)
(* Listing and review of products: publish, pulloff, review, and the point *)
(* pools review pays its rewards from.  A product is on sale (NORMAL) only *)
(* after a reviewer has passed it.                                         *)
(***************************************************************************)
EXTENDS Credit, Keys, FiniteSets

CONSTANTS
  MaxPid,           \* bound: products ever published
  MaxAudits,        \* bound: audits of one product
  Coin,             \* symbols with a row in the coins table
  Offers,           \* inputs of publish: who sends it, and what is offered
  Credit0,          \* credit of each user when the model starts
  Referrer,         \* referrer each user registered with, or NoUid
  Reviewers0,       \* users who are reviewers when the model starts
  DelistPenalty,    \* credit a delisting costs the owner (5)
  AuditReward,      \* credit a first passed audit earns the owner (1)
  GiftPublish,      \* _global.gift_publish_product
  ReviewSalary,     \* _global.review_salary_product
  TransactionPool,  \* _global.transaction_pool when the model starts
  SalaryPool,       \* _global.salary_pool when the model starts
  Mintable          \* FMP that issue may still mint when the model starts

\* publish does not look at the sign of price and postage: that neither is
\* negative is left to the platform, which signs every publish.
Offer == [uid : Uid, coin : Coin, price : Nat, postage : Nat, is_returns : BOOLEAN]

ASSUME CatalogAssumption ==
  /\ MaxPid \in Nat /\ MaxAudits \in Nat
  /\ Offers \subseteq Offer
  /\ Credit0 \in [Uid -> 0..(Word - 1)]
  /\ Referrer \in [Uid -> Uid \cup {NoUid}]
  /\ Reviewers0 \subseteq Uid
  /\ DelistPenalty \in Nat /\ AuditReward \in Nat
  /\ GiftPublish \in Nat /\ ReviewSalary \in Nat \ {0}
  /\ TransactionPool \in Nat /\ SalaryPool \in Nat
  /\ Mintable >= TransactionPool + SalaryPool /\ Mintable \in Nat

VARIABLES
  products,     \* the products table by pid; status NONE is "no row"
  audits,       \* how many rows the proaudits table has for each pid
  pools,        \* _global.transaction_pool and _global.salary_pool
  minted        \* FMP supply issued since the model starts

catalogVars == <<users, reviewers, products, audits, pools, minted>>

Pid == 1..MaxPid
ProductStatus == {"PUBLISH", "NORMAL", "COMPLETED", "DELISTED", "LOCKED"}
ProductRow ==
  [status : ProductStatus, uid : Uid, coin : Coin, price : Nat, postage : Nat,
   is_returns : BOOLEAN]
NoProduct ==
  [status |-> "NONE", uid |-> NoUid, coin |-> "none", price |-> 0,
   postage |-> 0, is_returns |-> FALSE]

CatalogTypeOK ==
  /\ CreditTypeOK
  /\ products \in [Pid -> ProductRow \cup {NoProduct}]
  /\ audits \in [Pid -> 0..MaxAudits]
  /\ pools \in [transaction : Nat, salary : Nat]
  /\ minted \in Nat

-----------------------------------------------------------------------------
\* issue refuses to mint past max_supply less the team's unclaimed share.
CanIssue(amount) == minted + amount <= Mintable

WithStatus(row, status) == [row EXCEPT !.status = status]

Listing(owner, offer) ==
  [status |-> "PUBLISH", uid |-> owner, coin |-> offer.coin,
   price |-> offer.price, postage |-> offer.postage,
   is_returns |-> offer.is_returns]

\* No product yet, and the pools init fills.
ListingInit ==
  /\ products = [p \in Pid |-> NoProduct]
  /\ audits = [p \in Pid |-> 0]
  /\ pools = [transaction |-> TransactionPool, salary |-> SalaryPool]
  /\ minted = 0

CatalogInit ==
  /\ users = [u \in Uid |->
       [credit_value |-> Credit0[u], locked |-> FALSE,
        is_reviewer |-> u \in Reviewers0, referrer |-> Referrer[u],
        sell_total |-> 0, buy_total |-> 0]]
  /\ reviewers = Reviewers0
  /\ ListingInit

\* publish without a pid.
publish(offer) ==
  /\ ~IsLockUser(offer.uid)
  /\ \E pid \in Pid :
       /\ IsNextId(pid, {p \in Pid : products[p].status # "NONE"}, 1)
       /\ products' = [products EXCEPT ![pid] = Listing(offer.uid, offer)]
  /\ UNCHANGED <<users, reviewers, audits, pools, minted>>

\* publish with the pid of a delisted product: the row is rewritten and goes
\* back to review; its owner stays, whoever sends it.
republish(pid, offer) ==
  /\ ~IsLockUser(offer.uid)
  /\ products[pid].status = "DELISTED"
  /\ products' = [products EXCEPT ![pid] = Listing(products[pid].uid, offer)]
  /\ UNCHANGED <<users, reviewers, audits, pools, minted>>

\* Mutated: whatever the status.
pulloffAny(uid, pid) ==
  /\ products[pid].uid = uid
  /\ products' = [products EXCEPT ![pid] = WithStatus(@, "DELISTED")]
  /\ UNCHANGED <<users, reviewers, audits, pools, minted>>

pulloff(uid, pid) ==
  /\ products[pid].status = "NORMAL"
  /\ products[pid].uid = uid
  /\ products' = [products EXCEPT ![pid] = WithStatus(@, "DELISTED")]
  /\ UNCHANGED <<users, reviewers, audits, pools, minted>>

\* Mutated: whatever is left in the pool.
PublishGiftAlways(pid) == IF audits[pid] = 0 THEN GiftPublish ELSE 0

PublishGift(pid) ==
  IF audits[pid] = 0 /\ pools.transaction >= GiftPublish
  THEN GiftPublish ELSE 0

Salary == IF pools.salary >= ReviewSalary THEN ReviewSalary ELSE 0

\* Mutated: every pass earns credit.
CreditEveryPass(pid) == AddCredit(users, products[pid].uid, AuditReward)

CreditFirstPass(pid) ==
  IF audits[pid] = 0
  THEN AddCredit(users, products[pid].uid, AuditReward) ELSE users

\* A reviewer passes a product: credit and points for the owner the first
\* time, a salary for the reviewer every time.
reviewPass(uid, pid) ==
  /\ products' = [products EXCEPT ![pid] = WithStatus(@, "NORMAL")]
  /\ users' = CreditFirstPass(pid)
  /\ CanIssue(PublishGift(pid) + Salary)
  /\ minted' = minted + PublishGift(pid) + Salary
  /\ pools' = [transaction |-> pools.transaction - PublishGift(pid),
               salary |-> pools.salary - Salary]

\* Mutated: the salary is minted, the pool is not charged.
reviewDelistUncharged(uid, pid) ==
  /\ products' = [products EXCEPT ![pid] = WithStatus(@, "DELISTED")]
  /\ users' = SubCredit(users, products[pid].uid, DelistPenalty)
  /\ CanIssue(Salary)
  /\ minted' = minted + Salary
  /\ UNCHANGED pools

reviewDelist(uid, pid) ==
  /\ products' = [products EXCEPT ![pid] = WithStatus(@, "DELISTED")]
  /\ users' = SubCredit(users, products[pid].uid, DelistPenalty)
  /\ CanIssue(Salary)
  /\ minted' = minted + Salary
  /\ pools' = [pools EXCEPT !.salary = @ - Salary]

\* A row in the reviewers table is enough; is_reviewer is not consulted.
review(uid, pid) ==
  /\ ~IsLockUser(uid)
  /\ uid \in reviewers
  /\ products[pid].status = "PUBLISH"
  /\ uid # products[pid].uid
  /\ reviewPass(uid, pid) \/ reviewDelist(uid, pid)
  /\ audits[pid] < MaxAudits
  /\ audits' = [audits EXCEPT ![pid] = @ + 1]
  /\ UNCHANGED reviewers

CatalogNext ==
  \/ \E offer \in Offers : publish(offer)
  \/ \E pid \in Pid, offer \in Offers : republish(pid, offer)
  \/ \E uid \in Uid, pid \in Pid : pulloff(uid, pid)
  \/ \E uid \in Uid, pid \in Pid : review(uid, pid)

CatalogSpec == CatalogInit /\ [][CatalogNext]_catalogVars

-----------------------------------------------------------------------------
\* What the pools still promise, issue can still mint: review never fails
\* because an inline issue runs past the supply init reserved for the pools.
PoolsBacked == minted + pools.transaction + pools.salary <= Mintable

AuditedProducts(uid) == {p \in Pid : products[p].uid = uid /\ audits[p] > 0}

\* Taking a product down, publishing it again and having it reviewed again
\* earns its owner neither credit nor points a second time.
RewardedOnce ==
  /\ \A u \in Uid : users[u].credit_value
       <= Credit0[u] + AuditReward * Cardinality(AuditedProducts(u))
  /\ TransactionPool - pools.transaction
       <= GiftPublish * Cardinality({p \in Pid : audits[p] > 0})
=============================================================================
