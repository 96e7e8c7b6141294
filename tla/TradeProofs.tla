---------------------------- MODULE TradeProofs -----------------------------
(***************************************************************************)
(* Catalog is type correct, its pools stay backed by the supply, and while *)
(* no credit wraps rewards are paid once; Trade is type correct: no        *)
(* interleaving of orders, returns, payouts and reviews writes a row the   *)
(* tables cannot hold, makes a balance, a pool or the income negative, or  *)
(* loses the product of an order; what it has promised in points stays     *)
(* backed; and a product that waits for review comes on sale by one.       *)
(* For any users, offers, rewards, amounts and bounds.                     *)
(***************************************************************************)
EXTENDS Trade, Sums

-----------------------------------------------------------------------------
(* The credit operators keep rows well-typed: uint32_t arithmetic wraps.    *)

\* What assigning to a uint32_t yields: a value of its range.
LEMMA ModRange ==
  ASSUME NEW v \in Int
  PROVE  v % Word \in 0..(Word - 1)
<1> Word \in Nat /\ Word > 0
  BY CreditAssumption
<1> QED
  OBVIOUS

\* AddCredit returns a users table.
LEMMA AddCreditType ==
  ASSUME NEW us \in [Uid -> UserRow], NEW uid \in Uid, NEW value \in Nat
  PROVE  AddCredit(us, uid, value) \in [Uid -> UserRow]
<1>1. us[uid] \in UserRow /\ us[uid].credit_value \in Int
  BY DEF UserRow
<1>2. (us[uid].credit_value + value) % Word \in 0..(Word - 1)
  BY <1>1, ModRange
<1>3. [us[uid] EXCEPT !.credit_value = (@ + value) % Word] \in UserRow
  BY <1>1, <1>2 DEF UserRow
<1> QED
  BY <1>1, <1>3 DEF AddCredit

\* Locking a user whose credit is spent returns a row.
LEMMA LockIfSpentType ==
  ASSUME NEW row \in UserRow
  PROVE  LockIfSpent(row) \in UserRow
BY DEF LockIfSpent, UserRow

\* SubCredit returns a users table, also when it wraps below zero.
LEMMA SubCreditType ==
  ASSUME NEW us \in [Uid -> UserRow], NEW uid \in Uid, NEW value \in Nat
  PROVE  SubCredit(us, uid, value) \in [Uid -> UserRow]
<1> DEFINE left == (us[uid].credit_value - value) % Word
           row  == [us[uid] EXCEPT !.credit_value = left,
                                   !.is_reviewer = us[uid].is_reviewer /\ left >= CreditLimit]
<1>1. us[uid] \in UserRow /\ us[uid].credit_value \in Int
  BY DEF UserRow
<1>2. left \in 0..(Word - 1)
  BY <1>1, ModRange
<1> HIDE DEF left
<1>3. row \in UserRow
  BY <1>1, <1>2 DEF UserRow
<1>4. LockIfSpent(row) \in UserRow
  BY <1>3, LockIfSpentType
<1>5. SubCredit(us, uid, value) = [us EXCEPT ![uid] = LockIfSpent(row)]
  BY DEF SubCredit, left
<1> QED
  BY <1>4, <1>5

\* DismissReviewer returns a users table.
LEMMA DismissReviewerType ==
  ASSUME NEW us \in [Uid -> UserRow], NEW uid \in Uid, NEW value \in Nat
  PROVE  DismissReviewer(us, uid, value) \in [Uid -> UserRow]
<1> DEFINE top  == IF us[uid].credit_value >= CreditLimit
                   THEN CreditLimit ELSE us[uid].credit_value
           left == (top - value) % Word
           row  == [us[uid] EXCEPT !.credit_value = left, !.is_reviewer = FALSE]
<1>1. us[uid] \in UserRow /\ us[uid].credit_value \in Int
  BY DEF UserRow
<1>2. top \in Int
  BY <1>1, CreditAssumption
<1>3. left \in 0..(Word - 1)
  <2> HIDE DEF top
  <2> QED BY <1>2, ModRange
<1>4. DismissReviewer(us, uid, value) = [us EXCEPT ![uid] = LockIfSpent(row)]
  BY DEF DismissReviewer
<1> HIDE DEF left
<1>5. row \in UserRow
  BY <1>1, <1>3 DEF UserRow
<1>6. LockIfSpent(row) \in UserRow
  BY <1>5, LockIfSpentType
<1> QED
  BY <1>4, <1>6

-----------------------------------------------------------------------------
(* Rows of the products table. *)

\* A row keeps its shape when only its status is set.
LEMMA WithStatusType ==
  ASSUME NEW row \in ProductRow \cup {NoProduct}, row.status # "NONE",
         NEW status \in ProductStatus
  PROVE  /\ WithStatus(row, status) \in ProductRow
         /\ WithStatus(row, status).status = status
         /\ WithStatus(row, status).uid = row.uid
BY DEF WithStatus, ProductRow, NoProduct

\* A listed product is owned by a registered user.
LEMMA OwnerIsUser ==
  ASSUME NEW row \in ProductRow \cup {NoProduct}, row.status # "NONE"
  PROVE  row.uid \in Uid
BY DEF ProductRow, NoProduct

\* publish writes a complete row that waits for its review.
LEMMA ListingType ==
  ASSUME NEW owner \in Uid, NEW offer \in Offers
  PROVE  /\ Listing(owner, offer) \in ProductRow
         /\ Listing(owner, offer).status = "PUBLISH"
<1> offer \in Offer
  BY CatalogAssumption
<1> QED
  BY DEF Offer, Listing, ProductRow, ProductStatus

\* The gift and the salary of a review are covered by their pools.
LEMMA RewardBounds ==
  ASSUME CatalogTypeOK, NEW pid \in Pid
  PROVE  PublishGift(pid) \in 0..pools.transaction /\ Salary \in 0..pools.salary
BY CatalogAssumption DEF CatalogTypeOK, PublishGift, Salary

-----------------------------------------------------------------------------
\* The initial tables are well-typed.
LEMMA CatalogInitType == CatalogInit => CatalogTypeOK
BY CatalogAssumption, CreditAssumption
   DEF CatalogInit, ListingInit, CatalogTypeOK, CreditTypeOK, UserRow

\* Every step of the catalog keeps the tables well-typed.
LEMMA CatalogStepType ==
  ASSUME CatalogTypeOK, CatalogNext
  PROVE  CatalogTypeOK'
<1> USE DEF CatalogTypeOK
<1>1. ASSUME NEW offer \in Offers, publish(offer)
      PROVE  CatalogTypeOK'
  <2>1. offer.uid \in Uid
    BY CatalogAssumption DEF Offer
  <2> QED
    BY <1>1, <2>1, ListingType DEF publish, CreditTypeOK
<1>2. ASSUME NEW pid \in Pid, NEW offer \in Offers, republish(pid, offer)
      PROVE  CatalogTypeOK'
  <2>1. products[pid].uid \in Uid
    BY <1>2, OwnerIsUser DEF republish
  <2> QED
    BY <1>2, <2>1, ListingType DEF republish, CreditTypeOK
<1>3. ASSUME NEW uid \in Uid, NEW pid \in Pid, pulloff(uid, pid)
      PROVE  CatalogTypeOK'
  <2>1. WithStatus(products[pid], "DELISTED") \in ProductRow
    BY <1>3, WithStatusType DEF pulloff, ProductStatus
  <2> QED
    BY <1>3, <2>1 DEF pulloff, CreditTypeOK
<1>4. ASSUME NEW uid \in Uid, NEW pid \in Pid, review(uid, pid)
      PROVE  CatalogTypeOK'
  <2>1. products[pid] \in ProductRow \cup {NoProduct} /\ products[pid].status = "PUBLISH"
    BY <1>4 DEF review
  <2>2. products[pid].uid \in Uid
    BY <2>1, OwnerIsUser
  <2>3. /\ PublishGift(pid) \in 0..pools.transaction
        /\ Salary \in 0..pools.salary
    BY RewardBounds
  <2>4. audits' \in [Pid -> 0..MaxAudits]
    BY <1>4, CatalogAssumption DEF review
  <2>5. reviewers' \subseteq Uid
    BY <1>4 DEF review, CreditTypeOK
  <2>6. CASE reviewPass(uid, pid)
    <3>1. WithStatus(products[pid], "NORMAL") \in ProductRow
      BY <2>1, WithStatusType DEF ProductStatus
    <3>2. products' \in [Pid -> ProductRow \cup {NoProduct}]
      BY <2>6, <3>1 DEF reviewPass
    <3>3. users' \in [Uid -> UserRow]
      BY <2>6, <2>2, AddCreditType, CatalogAssumption
         DEF reviewPass, CreditFirstPass, CreditTypeOK
    <3>4. pools' \in [transaction : Nat, salary : Nat] /\ minted' \in Nat
      BY <2>6, <2>3 DEF reviewPass
    <3> QED
      BY <2>4, <2>5, <3>2, <3>3, <3>4 DEF CreditTypeOK
  <2>7. CASE reviewDelist(uid, pid)
    <3>1. WithStatus(products[pid], "DELISTED") \in ProductRow
      BY <2>1, WithStatusType DEF ProductStatus
    <3>2. products' \in [Pid -> ProductRow \cup {NoProduct}]
      BY <2>7, <3>1 DEF reviewDelist
    <3>3. users' \in [Uid -> UserRow]
      BY <2>7, <2>2, SubCreditType, CatalogAssumption DEF reviewDelist, CreditTypeOK
    <3>4. pools' \in [transaction : Nat, salary : Nat] /\ minted' \in Nat
      BY <2>7, <2>3 DEF reviewDelist
    <3> QED
      BY <2>4, <2>5, <3>2, <3>3, <3>4 DEF CreditTypeOK
  <2> QED
    BY <1>4, <2>6, <2>7 DEF review
<1> QED
  BY <1>1, <1>2, <1>3, <1>4 DEF CatalogNext

\* The catalog's tables hold what their types say, whatever is published,
\* taken down and reviewed.
THEOREM CatalogTypeCorrect == CatalogSpec => []CatalogTypeOK
<1>1. CatalogTypeOK /\ UNCHANGED catalogVars => CatalogTypeOK'
  BY DEF CatalogTypeOK, CreditTypeOK, catalogVars
<1> QED
  BY <1>1, CatalogInitType, CatalogStepType, PTL DEF CatalogSpec

-----------------------------------------------------------------------------
\* What a step does to pools and supply: a point leaves a pool exactly when
\* issue mints it, and no other operation of the catalog touches either.
LEMMA PoolsStep ==
  ASSUME CatalogTypeOK, PoolsBacked, CatalogNext
  PROVE  PoolsBacked'
<1>1. ASSUME NEW uid \in Uid, NEW pid \in Pid, review(uid, pid)
      PROVE  PoolsBacked'
  <2>1. /\ PublishGift(pid) \in 0..pools.transaction
        /\ Salary \in 0..pools.salary
    BY RewardBounds
  <2>2. pools \in [transaction : Nat, salary : Nat] /\ minted \in Nat
    BY DEF CatalogTypeOK
  <2> QED
    BY <1>1, <2>1, <2>2, CatalogAssumption
       DEF review, reviewPass, reviewDelist, PoolsBacked
<1>2. UNCHANGED <<pools, minted>> => PoolsBacked'
  BY DEF PoolsBacked
<1> QED
  BY <1>1, <1>2 DEF CatalogNext, publish, republish, pulloff

\* The points the pools promise are always left to mint: a review never fails
\* because its inline issue meets the supply limit.
THEOREM PoolsAreBacked == CatalogSpec => []PoolsBacked
<1>1. CatalogInit => PoolsBacked
  BY CatalogAssumption DEF CatalogInit, ListingInit, PoolsBacked
<1>2. PoolsBacked /\ UNCHANGED catalogVars => PoolsBacked'
  BY DEF PoolsBacked, catalogVars
<1> QED
  BY <1>1, <1>2, PoolsStep, CatalogTypeCorrect, PTL DEF CatalogSpec

-----------------------------------------------------------------------------
(* Rewards, for users whose credit never wraps. *)

\* Whatever the reviews, a user's credit neither falls below 0 nor reaches
\* Word: SubCredit and AddCredit do not wrap.
CreditCovers ==
  \A u \in Uid : /\ (MaxPid * MaxAudits) * DelistPenalty <= Credit0[u]
                 /\ Credit0[u] + MaxPid * AuditReward < Word

\* Reviews of all products so far.
Reviews == SumFunctionOnSet(audits, Pid)

Audited == {p \in Pid : audits[p] > 0}

\* A user's products that have been reviewed.
OwnAudited(rows, counts, u) == {p \in Pid : rows[p].uid = u /\ counts[p] > 0}

\* A reward for each product reviewed at most, and a penalty for each review.
CreditFits(us, n, rows, counts) ==
  \A u \in Uid :
    /\ Credit0[u] <= us[u].credit_value + n * DelistPenalty
    /\ us[u].credit_value <= Credit0[u] + Cardinality(OwnAudited(rows, counts, u)) * AuditReward

GiftsFit(pool, m) == TransactionPool - pool <= m * GiftPublish

RewardInv ==
  CreditFits(users, Reviews, products, audits) /\ GiftsFit(pools.transaction, Cardinality(Audited))

\* One more of n things of the same worth, and no more than m.
LEMMA TimesOne ==
  ASSUME NEW n \in Nat, NEW c \in Nat
  PROVE  (n + 1) * c = n * c + c /\ \A m \in Nat : n <= m => n * c <= m * c
<1>1. (n + 1) * c = n * c + c
  OBVIOUS
<1>2. ASSUME NEW m \in Nat, n <= m
      PROVE  n * c <= m * c
  <2>1. PICK d \in Nat : m = n + d
    BY <1>2, m - n \in Nat
  <2>2. d * c \in Nat /\ m * c = n * c + d * c /\ n * c \in Nat
    BY <2>1
  <2> QED
    BY <2>2
<1> QED
  BY <1>1, <1>2

\* The products are finitely many, and so are those of them a user owns.
LEMMA Owned ==
  ASSUME NEW rows, NEW counts, NEW u
  PROVE  /\ IsFiniteSet(Pid) /\ Cardinality(Pid) = MaxPid
         /\ IsFiniteSet(OwnAudited(rows, counts, u))
         /\ Cardinality(OwnAudited(rows, counts, u)) \in 0..MaxPid
<1>1. MaxPid \in Nat
  BY CatalogAssumption
<1>2. IsFiniteSet(Pid) /\ Cardinality(Pid) = MaxPid
  BY <1>1, FS_Interval DEF Pid
<1>3. OwnAudited(rows, counts, u) \in SUBSET Pid
  BY DEF OwnAudited
<1> HIDE DEF OwnAudited
<1> QED
  BY <1>1, <1>2, <1>3, FS_Subset, FS_CardinalityType

\* Bounded counts have a bounded sum.
LEMMA SumBounded ==
  ASSUME NEW counts \in [Pid -> 0..MaxAudits]
  PROVE  /\ SumFunctionOnSet(counts, Pid) \in Nat
         /\ SumFunctionOnSet(counts, Pid) <= MaxPid * MaxAudits
<1>1. IsFiniteSet(Pid) /\ Cardinality(Pid) = MaxPid
  BY Owned
<1>2. MaxAudits \in Nat /\ \A p \in Pid : counts[p] \in 0..MaxAudits
  BY CatalogAssumption
<1> DEFINE most == [p \in Pid |-> MaxAudits]
<1>3. \A p \in Pid : counts[p] \in Int /\ most[p] \in Int /\ counts[p] <= most[p] /\ 0 <= most[p]
  BY <1>2
<1>4. SumFunctionOnSet(most, Pid) = MaxPid * MaxAudits
  BY <1>1, <1>2, SumConstant
<1>5. SumFunctionOnSet(counts, Pid) <= SumFunctionOnSet(most, Pid)
  <2>1. Pid \in SUBSET Pid /\ \A p \in Pid \ Pid : 0 <= most[p]
    OBVIOUS
  <2> HIDE DEF most
  <2> QED
    BY <1>1, <1>3, <2>1, SumAtMost
<1>6. SumFunctionOnSet(counts, Pid) \in Nat
  BY <1>1, <1>2, SumNat
<1> QED
  BY <1>4, <1>5, <1>6

\* The reviews are no more than the bounds allow.
LEMMA ReviewsBounded ==
  ASSUME CatalogTypeOK
  PROVE  /\ Reviews \in Nat /\ Cardinality(Audited) \in Nat /\ IsFiniteSet(Audited)
<1>1. Reviews \in Nat
  BY SumBounded DEF Reviews, CatalogTypeOK
<1>2. Audited \in SUBSET Pid
  BY DEF Audited
<1> QED
  BY <1>1, <1>2, Owned, FS_Subset, FS_CardinalityType

\* A step that leaves credit, audits and pools alone, and whose products keep
\* their owners, keeps the bounds: a new listing only adds to what is owned.
LEMMA RewardFrame ==
  ASSUME RewardInv, CatalogTypeOK, CatalogTypeOK', UNCHANGED <<users, audits, pools>>,
         \A p \in Pid : products[p].uid \in Uid => products'[p].uid = products[p].uid
  PROVE  RewardInv'
<1>1. UNCHANGED <<Reviews, Audited>>
  BY DEF Reviews, Audited
<1>2. ASSUME NEW u \in Uid
      PROVE  users[u].credit_value <=
               Credit0[u] + Cardinality(OwnAudited(products', audits', u)) * AuditReward
  <2> DEFINE k == Cardinality(OwnAudited(products, audits, u))
             l == Cardinality(OwnAudited(products', audits', u))
  <2>1. OwnAudited(products, audits, u) \in SUBSET OwnAudited(products', audits', u)
    BY DEF OwnAudited
  <2>2. k \in Nat /\ l \in Nat /\ k <= l
    BY <2>1, Owned, FS_Subset, FS_CardinalityType
  <2>3. users[u].credit_value <= Credit0[u] + k * AuditReward
    BY DEF RewardInv, CreditFits
  <2>4. AuditReward \in Nat /\ Credit0[u] \in Int /\ users[u].credit_value \in Int
    BY CatalogAssumption DEF CatalogTypeOK, CreditTypeOK, UserRow
  <2> HIDE DEF k, l
  <2>5. k * AuditReward <= l * AuditReward /\ k * AuditReward \in Nat /\ l * AuditReward \in Nat
    BY <2>2, <2>4, TimesOne
  <2> QED
    BY <2>3, <2>4, <2>5 DEF l
<1> QED
  BY <1>1, <1>2 DEF RewardInv, CreditFits

\* One of the counts goes up by one.
OneMore(counts, counts2, pid) ==
  /\ counts \in [Pid -> Nat] /\ counts2 \in [Pid -> Nat]
  /\ counts2[pid] = counts[pid] + 1
  /\ \A p \in Pid \ {pid} : counts[p] = counts2[p]

\* One more in their sum.
LEMMA SumCounts ==
  ASSUME NEW counts, NEW counts2, NEW pid \in Pid, OneMore(counts, counts2, pid)
  PROVE  SumFunctionOnSet(counts2, Pid) = SumFunctionOnSet(counts, Pid) + 1
<1>1. /\ IsFiniteSet(Pid) /\ counts2[pid] - counts[pid] = 1
      /\ \A p \in Pid : counts[p] \in Int /\ counts2[p] \in Int
      /\ \A p \in Pid \ {pid} : counts[p] = counts2[p]
  BY Owned DEF OneMore
<1> QED
  BY <1>1, SumChange

\* One more in a set, unless it was there.
LEMMA SetCounts ==
  ASSUME NEW S, IsFiniteSet(S), NEW x
  PROVE  Cardinality(S \cup {x}) = Cardinality(S) + (IF x \in S THEN 0 ELSE 1)
<1>1. Cardinality(S) \in Nat
  BY FS_CardinalityType
<1> QED
  BY <1>1, FS_AddElement

\* A review counts once, and its product with the reviewed ones.
LEMMA ReviewCounts ==
  ASSUME CatalogTypeOK, NEW pid \in Pid, OneMore(audits, audits', pid)
  PROVE  /\ Reviews' = Reviews + 1
         /\ Cardinality(Audited') =
              Cardinality(Audited) + (IF audits[pid] = 0 THEN 1 ELSE 0)
<1>1. Reviews' = Reviews + 1
  BY SumCounts DEF Reviews
<1>2. Audited' = Audited \cup {pid} /\ (pid \in Audited <=> audits[pid] # 0)
  BY DEF Audited, OneMore
<1>3. IsFiniteSet(Audited)
  BY ReviewsBounded
<1>4. Cardinality(Audited \cup {pid}) = Cardinality(Audited) + (IF pid \in Audited THEN 0 ELSE 1)
  BY <1>3, SetCounts
<1> QED
  BY <1>1, <1>2, <1>4

\* With it the owner has one more reviewed product, if it is its first review.
LEMMA OwnCounts ==
  ASSUME NEW pid \in Pid, OneMore(audits, audits', pid),
         \A p \in Pid : products'[p].uid = products[p].uid, NEW u
  PROVE  Cardinality(OwnAudited(products', audits', u)) =
           Cardinality(OwnAudited(products, audits, u)) +
             (IF u = products[pid].uid /\ audits[pid] = 0 THEN 1 ELSE 0)
<1> DEFINE own  == OwnAudited(products, audits, u)
           own2 == OwnAudited(products', audits', u)
<1>1. IsFiniteSet(own) /\ Cardinality(own) \in Nat
  BY Owned, FS_CardinalityType
<1>2. CASE u = products[pid].uid
  <2>1. own2 = own \cup {pid} /\ (pid \in own <=> audits[pid] # 0)
    BY <1>2 DEF OwnAudited, OneMore
  <2> HIDE DEF own, own2
  <2>2. Cardinality(own \cup {pid}) = Cardinality(own) + (IF pid \in own THEN 0 ELSE 1)
    BY <1>1, SetCounts
  <2>3. Cardinality(own2) = Cardinality(own) + (IF audits[pid] = 0 THEN 1 ELSE 0)
    BY <2>1, <2>2
  <2> QED
    BY <1>2, <2>3 DEF own, own2
<1>3. CASE u # products[pid].uid
  <2>1. own2 = own
    BY <1>3 DEF OwnAudited, OneMore
  <2> HIDE DEF own, own2
  <2>2. Cardinality(own2) = Cardinality(own) + 0
    BY <1>1, <2>1
  <2> QED
    BY <1>3, <2>2 DEF own, own2
<1> QED
  BY <1>2, <1>3

\* Credit added to a user who stays below Word.
LEMMA AddedCredit ==
  ASSUME NEW us \in [Uid -> UserRow], NEW uid \in Uid, NEW value \in Nat,
         us[uid].credit_value + value < Word, NEW u \in Uid
  PROVE  AddCredit(us, uid, value)[u].credit_value =
           us[u].credit_value + (IF u = uid THEN value ELSE 0)
<1>1. us[uid].credit_value \in 0..(Word - 1) /\ us[u].credit_value \in Nat
  BY CreditAssumption DEF UserRow
<1>2. Word \in Nat \ {0} /\ us[uid].credit_value + value \in 0..(Word - 1)
  BY <1>1, CreditAssumption
<1>3. (us[uid].credit_value + value) % Word = us[uid].credit_value + value
  BY <1>2
<1> QED
  BY <1>1, <1>3 DEF AddCredit, UserRow

\* Credit taken from a user who has as much.
LEMMA TakenCredit ==
  ASSUME NEW us \in [Uid -> UserRow], NEW uid \in Uid, NEW value \in Nat,
         value <= us[uid].credit_value, NEW u \in Uid
  PROVE  SubCredit(us, uid, value)[u].credit_value =
           us[u].credit_value - (IF u = uid THEN value ELSE 0)
<1>1. us[uid].credit_value \in 0..(Word - 1) /\ us[u].credit_value \in Nat
  BY CreditAssumption DEF UserRow
<1>2. Word \in Nat \ {0} /\ us[uid].credit_value - value \in 0..(Word - 1)
  BY <1>1, CreditAssumption
<1>3. (us[uid].credit_value - value) % Word = us[uid].credit_value - value
  BY <1>2
<1> QED
  BY <1>1, <1>3 DEF SubCredit, LockIfSpent, UserRow

\* What is left of credit and rewards covers one more review: neither its
\* reward nor its penalty wraps.
LEMMA NoWrap ==
  ASSUME CatalogTypeOK, CatalogTypeOK', CreditCovers, RewardInv, NEW pid \in Pid,
         OneMore(audits, audits', pid), \A p \in Pid : products'[p].uid = products[p].uid,
         products[pid].uid \in Uid
  PROVE  /\ DelistPenalty <= users[products[pid].uid].credit_value
         /\ audits[pid] = 0 => users[products[pid].uid].credit_value + AuditReward < Word
<1> DEFINE u == products[pid].uid
           c == users[u].credit_value
           n == Reviews
           k == Cardinality(OwnAudited(products, audits, u))
           mm == MaxPid * MaxAudits
<1>1. DelistPenalty \in Nat /\ AuditReward \in Nat /\ mm \in Nat /\ MaxPid \in Nat
  BY CatalogAssumption
<1>2. c \in Nat /\ Credit0[u] \in Nat /\ Word \in Nat
  BY CreditAssumption, CatalogAssumption DEF CatalogTypeOK, CreditTypeOK, UserRow
<1>3. n \in Nat /\ n + 1 <= mm
  <2>1. n \in Nat /\ Reviews' = n + 1
    BY ReviewsBounded, ReviewCounts
  <2>2. Reviews' <= mm
    BY SumBounded DEF Reviews, CatalogTypeOK
  <2> QED
    BY <2>1, <2>2
<1>4. k \in Nat /\ audits[pid] = 0 => k + 1 <= MaxPid
  <2>1. \A v : Cardinality(OwnAudited(products', audits', v)) =
                 Cardinality(OwnAudited(products, audits, v)) +
                   (IF v = products[pid].uid /\ audits[pid] = 0 THEN 1 ELSE 0)
    BY OwnCounts
  <2>2. k \in 0..MaxPid /\ Cardinality(OwnAudited(products', audits', u)) \in 0..MaxPid
    BY Owned
  <2> QED
    BY <1>1, <2>1, <2>2
<1>5. /\ Credit0[u] <= c + n * DelistPenalty /\ c <= Credit0[u] + k * AuditReward
      /\ mm * DelistPenalty <= Credit0[u] /\ Credit0[u] + MaxPid * AuditReward < Word
  BY DEF RewardInv, CreditFits, CreditCovers
<1>6. k \in Nat
  BY Owned, FS_CardinalityType
<1> HIDE DEF u, c, n, k, mm
<1>7. (n + 1) * DelistPenalty = n * DelistPenalty + DelistPenalty
      /\ (n + 1) * DelistPenalty <= mm * DelistPenalty
  BY <1>1, <1>3, TimesOne
<1>8. DelistPenalty <= c
  <2>1. n * DelistPenalty \in Nat /\ mm * DelistPenalty \in Nat
    BY <1>1, <1>3
  <2> QED
    BY <1>1, <1>2, <1>5, <1>7, <2>1
<1>9. ASSUME audits[pid] = 0
      PROVE  c + AuditReward < Word
  <2>1. (k + 1) * AuditReward = k * AuditReward + AuditReward
        /\ (k + 1) * AuditReward <= MaxPid * AuditReward
    BY <1>1, <1>4, <1>6, <1>9, TimesOne
  <2>2. k * AuditReward \in Nat /\ MaxPid * AuditReward \in Nat
    BY <1>1, <1>6
  <2> QED
    BY <1>1, <1>2, <1>5, <2>1, <2>2
<1> QED
  BY <1>8, <1>9 DEF c, u

\* A review earns its owner the reward once, or costs him the penalty.
LEMMA ReviewCredit ==
  ASSUME CatalogTypeOK, CatalogTypeOK', CreditCovers, RewardInv,
         NEW uid \in Uid, NEW pid \in Pid, review(uid, pid), NEW u \in Uid
  PROVE  /\ OneMore(audits, audits', pid)
         /\ \A p \in Pid : products'[p].uid = products[p].uid
         /\ \/ users'[u].credit_value =
                 users[u].credit_value
                   + (IF u = products[pid].uid /\ audits[pid] = 0 THEN AuditReward ELSE 0)
            \/ users'[u].credit_value =
                 users[u].credit_value - (IF u = products[pid].uid THEN DelistPenalty ELSE 0)
<1>1. audits \in [Pid -> Nat] /\ OneMore(audits, audits', pid)
  BY CatalogAssumption DEF CatalogTypeOK, review, OneMore
<1>2. products[pid].uid \in Uid /\ users \in [Uid -> UserRow] /\ users[u].credit_value \in Int
  BY OwnerIsUser DEF review, CatalogTypeOK, CreditTypeOK, UserRow
<1>3. AuditReward \in Nat /\ DelistPenalty \in Nat
  BY CatalogAssumption
<1>4. \A p \in Pid : products'[p].uid = products[p].uid
  <2>1. products[pid] \in ProductRow \cup {NoProduct} /\ products[pid].status # "NONE"
    BY DEF CatalogTypeOK, review
  <2>2. \A s \in ProductStatus : WithStatus(products[pid], s).uid = products[pid].uid
    BY <2>1, WithStatusType
  <2>3. \E s \in ProductStatus :
          products' = [products EXCEPT ![pid] = WithStatus(products[pid], s)]
    BY DEF review, reviewPass, reviewDelist, ProductStatus
  <2> QED
    BY <2>2, <2>3 DEF CatalogTypeOK
<1>5. /\ DelistPenalty <= users[products[pid].uid].credit_value
      /\ audits[pid] = 0 => users[products[pid].uid].credit_value + AuditReward < Word
  BY <1>1, <1>2, <1>4, NoWrap
<1>6. CASE reviewPass(uid, pid)
  <2>1. CASE audits[pid] = 0
    BY <1>2, <1>3, <1>5, <1>6, <2>1, <1>1, <1>4, AddedCredit DEF reviewPass, CreditFirstPass
  <2>2. CASE audits[pid] # 0
    BY <1>2, <1>6, <2>2, <1>1, <1>4 DEF reviewPass, CreditFirstPass
  <2> QED
    BY <2>1, <2>2
<1>7. CASE reviewDelist(uid, pid)
  BY <1>2, <1>3, <1>5, <1>7, <1>1, <1>4, TakenCredit DEF reviewDelist
<1> QED
  BY <1>6, <1>7 DEF review

\* What a review does to the gifts: only a first pass takes one from the pool.
LEMMA ReviewGift ==
  ASSUME CatalogTypeOK, RewardInv, NEW uid \in Uid, NEW pid \in Pid, review(uid, pid),
         OneMore(audits, audits', pid)
  PROVE  GiftsFit(pools.transaction, Cardinality(Audited))'
<1> DEFINE m == Cardinality(Audited)
           m2 == Cardinality(Audited')
           gift == IF audits[pid] = 0 THEN GiftPublish ELSE 0
<1>1. m \in Nat /\ m2 = m + (IF audits[pid] = 0 THEN 1 ELSE 0)
  BY ReviewsBounded, ReviewCounts
<1>2. /\ TransactionPool \in Nat /\ GiftPublish \in Nat /\ pools.transaction \in Nat
      /\ pools \in [transaction : Nat, salary : Nat]
  BY CatalogAssumption DEF CatalogTypeOK
<1>3. TransactionPool - pools.transaction <= m * GiftPublish
  BY DEF RewardInv, GiftsFit
<1>4. pools'.transaction \in Nat /\ pools'.transaction >= pools.transaction - gift
  BY <1>2, RewardBounds DEF review, reviewPass, reviewDelist, PublishGift
<1> HIDE DEF m, m2
<1>5. m2 * GiftPublish = m * GiftPublish + gift /\ m * GiftPublish \in Nat
  <2>1. (m + 1) * GiftPublish = m * GiftPublish + GiftPublish /\ m * GiftPublish \in Nat
    BY <1>1, <1>2, TimesOne
  <2> QED
    BY <1>1, <1>2, <2>1
<1>6. gift \in Nat
  BY <1>2
<1> HIDE DEF gift
<1>7. TransactionPool - pools'.transaction <= m2 * GiftPublish
  BY <1>2, <1>3, <1>4, <1>5, <1>6
<1> QED
  BY <1>7 DEF GiftsFit, m2

\* A review keeps each user's credit within the bounds.
LEMMA ReviewFits ==
  ASSUME CatalogTypeOK, CatalogTypeOK', CreditCovers, RewardInv,
         NEW uid \in Uid, NEW pid \in Pid, review(uid, pid), NEW u \in Uid
  PROVE  /\ Credit0[u] <= users'[u].credit_value + Reviews' * DelistPenalty
         /\ users'[u].credit_value <=
              Credit0[u] + Cardinality(OwnAudited(products', audits', u)) * AuditReward
<1> DEFINE c == users[u].credit_value
           c2 == users'[u].credit_value
           n == Reviews
           k == Cardinality(OwnAudited(products, audits, u))
           k2 == Cardinality(OwnAudited(products', audits', u))
           first == u = products[pid].uid /\ audits[pid] = 0
<1>1. DelistPenalty \in Nat /\ AuditReward \in Nat /\ Credit0[u] \in Nat
  BY CatalogAssumption
<1>2. c \in Nat /\ c2 \in Nat
  BY CreditAssumption DEF CatalogTypeOK, CreditTypeOK, UserRow
<1>3. OneMore(audits, audits', pid) /\ \A p \in Pid : products'[p].uid = products[p].uid
  BY ReviewCredit
<1>4. \/ c2 = c + (IF first THEN AuditReward ELSE 0)
      \/ c2 = c - (IF u = products[pid].uid THEN DelistPenalty ELSE 0)
  BY ReviewCredit
<1>5. n \in Nat /\ Reviews' = n + 1
  BY <1>3, ReviewsBounded, ReviewCounts
<1>6. k2 = k + (IF first THEN 1 ELSE 0)
  BY <1>3, OwnCounts
<1>7. k \in Nat
  BY Owned, FS_CardinalityType
<1>8. Credit0[u] <= c + n * DelistPenalty /\ c <= Credit0[u] + k * AuditReward
  BY DEF RewardInv, CreditFits
<1> HIDE DEF c, c2, n, k, k2, first
<1>9. /\ (n + 1) * DelistPenalty = n * DelistPenalty + DelistPenalty
      /\ n * DelistPenalty \in Nat
  BY <1>1, <1>5, TimesOne
<1>10. (k + 1) * AuditReward = k * AuditReward + AuditReward /\ k * AuditReward \in Nat
  BY <1>1, <1>7, TimesOne
<1>11. Credit0[u] <= c2 + (n + 1) * DelistPenalty
  BY <1>1, <1>2, <1>4, <1>8, <1>9
<1>12. c2 <= Credit0[u] + k2 * AuditReward
  <2>1. CASE first
    BY <1>1, <1>2, <1>4, <1>6, <1>8, <1>10, <2>1
  <2>2. CASE ~first
    <3>1. k2 = k /\ c2 <= c
      BY <1>1, <1>2, <1>4, <1>6, <1>7, <2>2
    <3> QED
      BY <1>1, <1>2, <1>8, <1>10, <3>1
  <2> QED
    BY <2>1, <2>2
<1> QED
  BY <1>5, <1>11, <1>12 DEF c2, k2

\* Every step of the catalog keeps rewards and penalties within the bounds.
LEMMA RewardStep ==
  ASSUME CatalogTypeOK, CatalogTypeOK', CreditCovers, RewardInv, CatalogNext
  PROVE  RewardInv'
<1>1. ASSUME NEW offer \in Offers, publish(offer)
      PROVE  RewardInv'
  <2>1. \A p \in Pid : products[p].uid \in Uid => products[p].status # "NONE"
    BY CreditAssumption DEF CatalogTypeOK, ProductRow, ProductStatus, NoProduct
  <2>2. PICK pid \in Pid :
          /\ IsNextId(pid, {p \in Pid : products[p].status # "NONE"}, 1)
          /\ products' = [products EXCEPT ![pid] = Listing(offer.uid, offer)]
    BY <1>1 DEF publish
  <2>3. products[pid].status = "NONE"
    BY <2>2 DEF IsNextId, Pid
  <2>4. \A p \in Pid : products[p].uid \in Uid => products'[p].uid = products[p].uid
    BY <2>1, <2>2, <2>3 DEF CatalogTypeOK
  <2> QED
    BY <1>1, <2>4, RewardFrame DEF publish
<1>2. ASSUME NEW pid \in Pid, NEW offer \in Offers, republish(pid, offer)
      PROVE  RewardInv'
  <2>1. Listing(products[pid].uid, offer).uid = products[pid].uid
    BY DEF Listing
  <2>2. \A p \in Pid : products[p].uid \in Uid => products'[p].uid = products[p].uid
    BY <1>2, <2>1 DEF republish, CatalogTypeOK
  <2> QED
    BY <1>2, <2>2, RewardFrame DEF republish
<1>3. ASSUME NEW uid \in Uid, NEW pid \in Pid, pulloff(uid, pid)
      PROVE  RewardInv'
  <2>1. WithStatus(products[pid], "DELISTED").uid = products[pid].uid
    BY <1>3, WithStatusType DEF pulloff, CatalogTypeOK, ProductStatus
  <2>2. \A p \in Pid : products[p].uid \in Uid => products'[p].uid = products[p].uid
    BY <1>3, <2>1 DEF pulloff, CatalogTypeOK
  <2> QED
    BY <1>3, <2>2, RewardFrame DEF pulloff
<1>4. ASSUME NEW uid \in Uid, NEW pid \in Pid, review(uid, pid)
      PROVE  RewardInv'
  <2>1. GiftsFit(pools.transaction, Cardinality(Audited))'
    BY <1>4, ReviewCredit, ReviewGift
  <2>2. CreditFits(users', Reviews', products', audits')
    BY <1>4, ReviewFits DEF CreditFits
  <2> QED
    BY <2>1, <2>2 DEF RewardInv
<1> QED
  BY <1>1, <1>2, <1>3, <1>4 DEF CatalogNext

\* The tables a behaviour starts with are within the bounds.
LEMMA RewardInitInv == CatalogInit => RewardInv
<1> SUFFICES ASSUME CatalogInit
             PROVE  RewardInv
  OBVIOUS
<1>1. /\ \A p \in Pid : audits[p] = 0
      /\ Audited = {} /\ \A u \in Uid : OwnAudited(products, audits, u) = {}
  BY DEF CatalogInit, ListingInit, Audited, OwnAudited
<1>2. Reviews = 0
  BY <1>1, Owned, SumZero DEF Reviews
<1>3. \A u \in Uid : users[u].credit_value = Credit0[u] /\ Credit0[u] \in Int
  <2>1. \A u \in Uid : users[u].credit_value = Credit0[u]
    BY DEF CatalogInit
  <2>2. \A u \in Uid : Credit0[u] \in Int
    BY CatalogAssumption
  <2> QED
    BY <2>1, <2>2
<1>4. \A n \in Nat : 0 * n = 0
  OBVIOUS
<1>5. Cardinality({}) = 0
  BY FS_EmptySet
<1>6. CreditFits(users, Reviews, products, audits)
  <2>1. Reviews * DelistPenalty = 0
    BY <1>2, <1>4, CatalogAssumption
  <2>2. ASSUME NEW u \in Uid
        PROVE  Cardinality(OwnAudited(products, audits, u)) * AuditReward = 0
    <3>1. Cardinality(OwnAudited(products, audits, u)) = 0
      BY <1>1, <1>5
    <3> QED
      BY <1>4, <3>1, CatalogAssumption
  <2>3. ASSUME NEW u \in Uid
        PROVE  /\ Credit0[u] <= users[u].credit_value + Reviews * DelistPenalty
               /\ users[u].credit_value <=
                    Credit0[u] + Cardinality(OwnAudited(products, audits, u)) * AuditReward
    <3>1. /\ users[u].credit_value = Credit0[u] /\ Credit0[u] \in Int
          /\ \A c \in Int : c <= c + 0
      BY <1>3
    <3> QED
      BY <2>1, <2>2, <3>1
  <2> QED
    BY <2>3 DEF CreditFits
<1>7. pools.transaction = TransactionPool /\ TransactionPool \in Int
  BY CatalogAssumption DEF CatalogInit, ListingInit
<1>8. GiftsFit(pools.transaction, Cardinality(Audited))
  BY <1>1, <1>4, <1>5, <1>7, CatalogAssumption DEF GiftsFit
<1> QED
  BY <1>6, <1>8 DEF RewardInv

\* What the invariant says of rewards is the property.
LEMMA RewardedMeans ==
  ASSUME CatalogTypeOK, RewardInv
  PROVE  RewardedOnce
<1>1. \A u \in Uid : /\ AuditedProducts(u) = OwnAudited(products, audits, u)
                     /\ Cardinality(AuditedProducts(u)) \in Int
  <2> SUFFICES ASSUME NEW u \in Uid
               PROVE  /\ AuditedProducts(u) = OwnAudited(products, audits, u)
                      /\ Cardinality(AuditedProducts(u)) \in Int
    OBVIOUS
  <2>1. AuditedProducts(u) = OwnAudited(products, audits, u)
    BY DEF AuditedProducts, OwnAudited
  <2>2. Cardinality(OwnAudited(products, audits, u)) \in Int
    BY Owned, FS_CardinalityType
  <2> QED
    BY <2>1, <2>2
<1>2. \A n \in Int : n * AuditReward = AuditReward * n /\ n * GiftPublish = GiftPublish * n
  BY CatalogAssumption
<1>3. Cardinality(Audited) \in Int
  BY ReviewsBounded
<1>4. \A u \in Uid : users[u].credit_value
        <= Credit0[u] + AuditReward * Cardinality(AuditedProducts(u))
  BY <1>1, <1>2 DEF RewardInv, CreditFits
<1>5. TransactionPool - pools.transaction <= GiftPublish * Cardinality(Audited)
  BY <1>2, <1>3 DEF RewardInv, GiftsFit
<1> QED
  BY <1>4, <1>5 DEF RewardedOnce, Audited

\* Taking a product down, publishing it again and having it reviewed again
\* earns neither credit nor points twice, for users whose credit covers what
\* the reviews within the bounds can cost them.
THEOREM RewardsArePaidOnce ==
  ASSUME CreditCovers
  PROVE  CatalogSpec => []RewardedOnce
<1> DEFINE Inv == CatalogTypeOK /\ RewardInv
<1>1. CatalogInit => Inv
  BY CatalogInitType, RewardInitInv
<1>2. Inv /\ [CatalogNext]_catalogVars => Inv'
  <2>1. Inv /\ CatalogNext => Inv'
    BY CatalogStepType, RewardStep
  <2>2. Inv /\ UNCHANGED catalogVars => Inv'
    BY DEF catalogVars, CatalogTypeOK, CreditTypeOK, RewardInv, CreditFits, GiftsFit,
           Reviews, Audited, OwnAudited
  <2> QED
    BY <2>1, <2>2
<1>3. Inv => RewardedOnce
  BY RewardedMeans
<1> HIDE DEF Inv
<1> QED
  BY <1>1, <1>2, <1>3, PTL DEF CatalogSpec

-----------------------------------------------------------------------------
(* The split of an order's price, for every amount and every choice of     *)
(* ratios setcfg accepts.                                                  *)

\* What int64_t(double(x) * ratio) yields: for a ratio of at most 1 it is
\* never more than the amount it is taken from.
LEMMA ShareBounds ==
  ASSUME NEW x \in Nat, NEW n \in Nat, n <= RateDen
  PROVE  Share(x, n) \in 0..x
<1> DEFINE q == (x * n) \div RateDen
<1>1. RateDen \in Nat /\ RateDen > 0 /\ n \in Nat /\ n <= RateDen
  BY RatesAssumption
<1>2. x * n \in Nat /\ x * n <= x * RateDen
  BY <1>1
<1>3. q \in Nat /\ q * RateDen <= x * n
  BY <1>1, <1>2
<1>4. q <= x
  BY <1>1, <1>2, <1>3
<1> QED
  BY <1>3, <1>4 DEF Share

\* A share is a whole number, whatever the ratio and the sign of the amount.
LEMMA ShareInt ==
  ASSUME NEW x \in Int, NEW n \in Nat
  PROVE  Share(x, n) \in Int
<1> DEFINE top == x * n
<1>1. RateDen \in Nat /\ RateDen > 0 /\ top \in Int
  BY RatesAssumption
<1> HIDE DEF top
<1>2. top \div RateDen \in Int
  BY <1>1
<1> QED
  BY <1>2 DEF Share, top

\* Settle hands out exactly the price plus postage the buyer paid, whatever
\* the ratios and the sign of the amount: the parts of the split add up to it.
\* That no part is negative takes ratios of at most 1, which setcfg does not
\* ask for.
THEOREM SplitConserves ==
  ASSUME NEW total \in Int, NEW referred \in BOOLEAN
  PROVE  LET s == Split(total, referred) IN
         /\ s \in [seller : Int, devops : Int, referrer : Int, income : Int]
         /\ s.seller + s.devops + s.referrer + s.income = total
         /\ RatesCapped /\ total \in Nat =>
              s \in [seller : Nat, devops : Nat, referrer : Nat, income : Nat]
<1> DEFINE fee    == Share(total, FeeNum)
           devops == Share(fee, DevopsNum)
           comm   == IF referred THEN Share(fee - devops, CommNum) ELSE 0
<1>1. {FeeNum, DevopsNum, CommNum} \subseteq Nat
  BY RatesAssumption
<1>2. fee \in Int
  BY <1>1, ShareInt
<1>3. devops \in Int
  <2> HIDE DEF fee
  <2> QED BY <1>1, <1>2, ShareInt
<1>4. comm \in Int
  <2>1. fee - devops \in Int
    BY <1>2, <1>3
  <2> HIDE DEF fee, devops
  <2>2. Share(fee - devops, CommNum) \in Int
    BY <1>1, <2>1, ShareInt
  <2> QED
    BY <2>2
<1>5. Split(total, referred) =
        [seller |-> total - fee, devops |-> devops, referrer |-> comm,
         income |-> fee - devops - comm]
  BY DEF Split
<1>6. RatesCapped /\ total \in Nat =>
        fee \in 0..total /\ devops \in 0..fee /\ comm \in 0..(fee - devops)
  <2> SUFFICES ASSUME RatesCapped, total \in Nat
      PROVE  fee \in 0..total /\ devops \in 0..fee /\ comm \in 0..(fee - devops)
    OBVIOUS
  <2>1. FeeNum <= RateDen /\ DevopsNum <= RateDen /\ CommNum <= RateDen
    BY DEF RatesCapped
  <2>2. fee \in 0..total
    BY <1>1, <2>1, ShareBounds
  <2>3. devops \in 0..fee
    <3> HIDE DEF fee
    <3> QED BY <1>1, <2>1, <2>2, ShareBounds
  <2>4. comm \in 0..(fee - devops)
    <3>1. fee - devops \in Nat
      <4> HIDE DEF fee, devops
      <4> QED BY <2>2, <2>3
    <3> HIDE DEF fee, devops
    <3>2. Share(fee - devops, CommNum) \in 0..(fee - devops)
      BY <1>1, <2>1, <3>1, ShareBounds
    <3> QED
      BY <3>1, <3>2
  <2> QED
    BY <2>2, <2>3, <2>4
<1> HIDE DEF fee, devops, comm
<1> QED
  BY <1>2, <1>3, <1>4, <1>5, <1>6

-----------------------------------------------------------------------------
(* Rows. *)

TradeInv == TypeOK /\ ProductsExist

\* A row that is there is a complete one.
LEMMA PlacedRow ==
  ASSUME TradeTypeOK, NEW i \in OrderId, orders[i].status # "NONE"
  PROVE  /\ orders[i] \in OrderRow
         /\ orders[i].pid \in Pid /\ orders[i].coin \in Coin
         /\ orders[i].seller_uid \in Uid /\ orders[i].buyer_uid \in Uid
         /\ orders[i].price \in Nat /\ orders[i].postage \in Nat
<1> orders[i] \in OrderRow
  BY DEF TradeTypeOK, NoOrder
<1> QED
  BY DEF OrderRow

\* Setting the status of an order keeps the table an orders table.
LEMMA SetOrderType ==
  ASSUME TradeTypeOK, NEW i \in OrderId, orders[i].status # "NONE",
         NEW status \in OrderStatus, SetOrder(i, status)
  PROVE  orders' \in [OrderId -> OrderRow \cup {NoOrder}]
<1>1. orders[i] \in OrderRow
  BY PlacedRow
<1>2. [orders[i] EXCEPT !.status = status] \in OrderRow
  BY <1>1 DEF OrderRow
<1> QED
  BY <1>2 DEF SetOrder, TradeTypeOK

\* Setting the status of a placed order's product keeps the table one.
LEMMA SetProductType ==
  ASSUME TypeOK, ProductsExist, NEW i \in OrderId, orders[i].status # "NONE",
         NEW status \in ProductStatus,
         products' = [products EXCEPT ![orders[i].pid] = WithStatus(@, status)]
  PROVE  /\ products' \in [Pid -> ProductRow \cup {NoProduct}]
         /\ \A p \in Pid : products[p].status # "NONE" => products'[p].status # "NONE"
<1>1. orders[i].pid \in Pid
  BY PlacedRow DEF TypeOK
<1>2. products[orders[i].pid].status # "NONE"
  BY DEF ProductsExist, Placed
<1>3. products \in [Pid -> ProductRow \cup {NoProduct}]
  BY DEF TypeOK, CatalogTypeOK
<1>4. /\ WithStatus(products[orders[i].pid], status) \in ProductRow
      /\ WithStatus(products[orders[i].pid], status).status = status
  BY <1>1, <1>2, <1>3, WithStatusType
<1> QED
  BY <1>1, <1>3, <1>4 DEF ProductStatus

\* A return row that is there is a complete one.
LEMMA ReturnedRow ==
  ASSUME TradeTypeOK, NEW r \in ReturnId, proreturns[r].status # "NONE"
  PROVE  proreturns[r] \in ReturnRow
BY DEF TradeTypeOK, NoReturn

\* A new return row fits the table under any key.
LEMMA NewReturnType ==
  ASSUME TradeTypeOK, NEW r \in ReturnId, NEW key \in OrderKey, NEW pid \in Pid,
         proreturns' = [proreturns EXCEPT ![r] = NewReturn(key, pid)]
  PROVE  proreturns' \in [ReturnId -> ReturnRow \cup {NoReturn}]
<1>1. NewReturn(key, pid) \in ReturnRow
  BY TradeAssumption DEF NewReturn, ReturnRow, ReturnStatus
<1> QED
  BY <1>1 DEF TradeTypeOK

\* The keys rows are found by.
LEMMA KeyType ==
  ASSUME TradeTypeOK, NEW i \in OrderId, orders[i].status # "NONE"
  PROVE  orders[i].oid \in OrderKey /\ IdKey(i) \in OrderKey
<1>1. orders[i].oid \in Uid \X Pid \X Nat
  BY PlacedRow DEF OrderRow
<1>2. i \in Nat
  BY TradeAssumption DEF OrderId
<1> QED
  BY <1>1, <1>2 DEF OrderKey, IdKey

-----------------------------------------------------------------------------
(* Amounts. *)

\* A gift is a whole number of points, whatever the coin's precision.
LEMMA GiftPointsNat ==
  ASSUME NEW price \in Nat, NEW coin \in Coin
  PROVE  GiftPoints(price, Scale[coin]) \in Nat
<1> DEFINE up   == Scale[coin].up
           down == Scale[coin].down
           top  == price * FeeNum * GiftNum
           den  == RateDen * RateDen
           val  == top \div den
<1>1. up \in Nat /\ down \in Nat \ {0}
  BY TradeAssumption
<1>2. top \in Nat
  BY RatesAssumption
<1>3. den \in Nat \ {0}
  BY RatesAssumption
<1> HIDE DEF top, den
<1>4. val \in Nat
  BY <1>2, <1>3
<1> HIDE DEF val, up, down
<1>5. val * up \in Nat
  BY <1>1, <1>4
<1>6. (val * up) \div down \in Nat
  BY <1>1, <1>5
<1> QED
  BY <1>6 DEF GiftPoints, val, top, den, up, down

\* The split of an order is made of amounts.
LEMMA CutType ==
  ASSUME TradeTypeOK, NEW i \in OrderId, orders[i].status # "NONE"
  PROVE  Cut(i) \in [seller : Nat, devops : Nat, referrer : Nat, income : Nat]
<1> DEFINE ref == users[orders[i].buyer_uid].referrer
           known == IF ref \in Uid THEN ~IsLockUser(ref) ELSE FALSE
           total == orders[i].price + orders[i].postage
<1>1. total \in Nat
  BY PlacedRow
<1>2. Cut(i) = Split(total, known)
  BY DEF Cut
<1> HIDE DEF total, known
<1>3. \A referred \in BOOLEAN :
        Split(total, referred) \in [seller : Nat, devops : Nat, referrer : Nat, income : Nat]
  BY <1>1, SplitConserves, TradeRates
<1>4. known \in BOOLEAN
  BY DEF known, IsLockUser
<1> QED
  BY <1>2, <1>3, <1>4

\* Every payout a handler sends is a deferred transaction over amounts.
LEMMA PayoutType ==
  ASSUME TradeTypeOK, NEW i \in OrderId, orders[i].status # "NONE"
  PROVE  Settlement(i) \in DeferredRow /\ Refund(i) \in DeferredRow
<1>1. /\ orders[i].coin \in Coin /\ orders[i].price \in Nat /\ orders[i].postage \in Nat
      /\ now \in Nat
  BY PlacedRow DEF TradeTypeOK
<1>2. SettleLedger(orders[i].coin) \in Ledger /\ RefundLedger(orders[i].coin) \in Ledger
  BY DEF SettleLedger, RefundLedger, Ledger
<1>3. Settlement(i) \in DeferredRow
  <2>1. Cut(i) \in [seller : Nat, devops : Nat, referrer : Nat, income : Nat]
    BY CutType
  <2>2. [seller |-> Cut(i).seller, buyer |-> 0, devops |-> Cut(i).devops,
         referrer |-> Cut(i).referrer] \in Amounts
    BY <2>1 DEF Amounts
  <2>3. {"seller"} \cup (IF Cut(i).devops > 0 THEN {"devops"} ELSE {})
          \cup (IF Cut(i).referrer > 0 THEN {"referrer"} ELSE {}) \in SUBSET Role
    BY DEF Role
  <2> QED
    BY <1>1, <1>2, <2>2, <2>3 DEF Settlement, DeferredRow
<1>4. Refund(i) \in DeferredRow
  <2>1. [seller |-> orders[i].postage, buyer |-> orders[i].price, devops |-> 0,
         referrer |-> 0] \in Amounts
    BY <1>1 DEF Amounts
  <2> QED
    BY <1>1, <1>2, <2>1 DEF Refund, DeferredRow, Role
<1> QED
  BY <1>3, <1>4

\* The gift of conreceipt is a deferred transaction.
LEMMA GiftType ==
  ASSUME TradeTypeOK, NEW i \in OrderId, NEW points \in Nat
  PROVE  Gift(i, points) \in DeferredRow
<1>1. [seller |-> points, buyer |-> points, devops |-> 0, referrer |-> 0] \in Amounts
  BY DEF Amounts
<1> QED
  BY <1>1 DEF Gift, DeferredRow, Role, Ledger, TradeTypeOK

\* A deferred transaction moves a sum of amounts.
LEMMA TransferTotalNat ==
  ASSUME NEW d \in DeferredRow
  PROVE  TransferTotal(d) \in Nat
<1> d.amount \in Amounts
  BY DEF DeferredRow
<1> QED
  BY DEF Amounts, TransferTotal

\* Counting an order keeps the users table one.
LEMMA CountOrderType ==
  ASSUME TypeOK, NEW i \in OrderId, orders[i].status # "NONE"
  PROVE  CountOrder(users, i) \in [Uid -> UserRow]
<1>1. orders[i].seller_uid \in Uid /\ orders[i].buyer_uid \in Uid
  BY PlacedRow DEF TypeOK
<1>2. users \in [Uid -> UserRow]
  BY DEF TypeOK, CatalogTypeOK, CreditTypeOK
<1> DEFINE us == [users EXCEPT ![orders[i].seller_uid].sell_total = @ + 1]
<1>3. us \in [Uid -> UserRow]
  <2>1. [users[orders[i].seller_uid] EXCEPT !.sell_total = @ + 1] \in UserRow
    BY <1>1, <1>2 DEF UserRow
  <2> QED
    BY <1>1, <1>2, <2>1
<1>4. CountOrder(users, i) = [us EXCEPT ![orders[i].buyer_uid].buy_total = @ + 1]
  BY DEF CountOrder
<1> HIDE DEF us
<1>5. [us[orders[i].buyer_uid] EXCEPT !.buy_total = @ + 1] \in UserRow
  BY <1>1, <1>3 DEF UserRow
<1> QED
  BY <1>1, <1>3, <1>4, <1>5

\* Booking the platform's cut keeps the income an amount of every coin.
LEMMA IncomeType ==
  ASSUME TradeTypeOK, NEW i \in OrderId, orders[i].status # "NONE", BookIncome(i)
  PROVE  income' \in [Coin -> Nat]
<1>1. Cut(i).income \in Nat
  BY CutType
<1> QED
  BY <1>1, PlacedRow DEF BookIncome, TradeTypeOK

-----------------------------------------------------------------------------
(* Steps, grouped by what they write. *)

\* Orders come and go.
LEMMA PlaceorderType ==
  ASSUME TradeInv, NEW buyer \in Uid, NEW pid \in Pid, NEW t \in {now} \cup ClientTimes,
         placeorder(buyer, pid, t)
  PROVE  TradeInv'
<1> USE DEF TradeInv, TypeOK
<1>1. products[pid] \in ProductRow /\ products[pid].status = "NORMAL"
  BY DEF placeorder, CatalogTypeOK, NoProduct
<1>2. now \in Nat /\ t \in Nat /\ now + PayTimeOut \in Nat
  BY TradeAssumption DEF TradeTypeOK
<1>3. NewOrder(buyer, pid, t) \in OrderRow /\ NewOrder(buyer, pid, t).pid = pid
  BY <1>1, <1>2, TradeAssumption DEF NewOrder, OrderRow, ProductRow, OrderStatus
<1>4. /\ WithStatus(products[pid], "LOCKED") \in ProductRow
      /\ WithStatus(products[pid], "LOCKED").status = "LOCKED"
  BY <1>1, WithStatusType DEF ProductStatus
<1>5. CatalogTypeOK' /\ \A p \in Pid : products[p].status # "NONE" => products'[p].status # "NONE"
  BY <1>1, <1>4 DEF placeorder, CatalogTypeOK, CreditTypeOK
<1>6. PICK i \in OrderId : orders' = [orders EXCEPT ![i] = NewOrder(buyer, pid, t)]
  BY DEF placeorder
<1>7. TradeTypeOK'
  BY <1>3, <1>6 DEF placeorder, TradeTypeOK
<1>8. ProductsExist'
  <2> SUFFICES ASSUME NEW j \in OrderId, orders'[j].status # "NONE"
               PROVE  products'[orders'[j].pid].status # "NONE"
    BY DEF ProductsExist, Placed
  <2>1. CASE j = i
    BY <1>1, <1>3, <1>5, <1>6, <2>1 DEF TradeTypeOK
  <2>2. CASE j # i
    BY <1>5, <1>6, <2>2, PlacedRow DEF TradeTypeOK, ProductsExist, Placed
  <2> QED
    BY <2>1, <2>2
<1> QED
  BY <1>5, <1>7, <1>8

\* cancelorder keeps the tables in shape and every product.
LEMMA CancelorderType ==
  ASSUME TradeInv, NEW i \in OrderId, cancelorder(i)
  PROVE  TradeInv'
<1> USE DEF TradeInv, TypeOK
<1>1. orders[i].status # "NONE"
  BY DEF cancelorder
<1>2. /\ products' \in [Pid -> ProductRow \cup {NoProduct}]
      /\ \A p \in Pid : products[p].status # "NONE" => products'[p].status # "NONE"
  BY <1>1, SetProductType DEF cancelorder, ProductStatus
<1>3. CatalogTypeOK' /\ TradeTypeOK'
  BY <1>2 DEF cancelorder, CatalogTypeOK, CreditTypeOK, TradeTypeOK
<1>4. ProductsExist'
  BY <1>2, PlacedRow DEF cancelorder, TradeTypeOK, ProductsExist, Placed, NoOrder
<1> QED
  BY <1>3, <1>4

\* So does cleanorder, however many orders it removes.
LEMMA CleanorderType ==
  ASSUME TradeInv, NEW start \in OrderId, cleanorder(start)
  PROVE  TradeInv'
<1> USE DEF TradeInv, TypeOK
<1> DEFINE gone == {i \in Scanned(start) : Expired(i)}
<1>1. \A i \in gone : i \in OrderId /\ orders[i].status # "NONE"
  BY DEF Scanned, Placed
<1>2. /\ orders' = [i \in OrderId |-> IF i \in gone THEN NoOrder ELSE orders[i]]
      /\ products' = [p \in Pid |-> IF \E i \in gone : orders[i].pid = p
                                   THEN WithStatus(products[p], "NORMAL") ELSE products[p]]
      /\ UNCHANGED <<users, reviewers, audits, pools, minted,
                     now, proreturns, deferred, vault, income>>
  BY DEF cleanorder
<1> HIDE DEF gone
<1>3. /\ products' \in [Pid -> ProductRow \cup {NoProduct}]
      /\ \A p \in Pid : products[p].status # "NONE" => products'[p].status # "NONE"
  <2> SUFFICES ASSUME NEW p \in Pid
               PROVE  /\ products'[p] \in ProductRow \cup {NoProduct}
                      /\ products[p].status # "NONE" => products'[p].status # "NONE"
    BY <1>2
  <2>1. products[p] \in ProductRow \cup {NoProduct}
    BY DEF CatalogTypeOK
  <2>2. CASE \E i \in gone : orders[i].pid = p
    <3>1. products[p].status # "NONE"
      BY <1>1, <2>2 DEF ProductsExist, Placed
    <3>2. /\ WithStatus(products[p], "NORMAL") \in ProductRow
          /\ WithStatus(products[p], "NORMAL").status = "NORMAL"
      BY <2>1, <3>1, WithStatusType DEF ProductStatus
    <3> QED
      BY <1>2, <2>2, <3>2
  <2>3. CASE ~\E i \in gone : orders[i].pid = p
    BY <1>2, <2>1, <2>3
  <2> QED
    BY <2>2, <2>3
<1>4. CatalogTypeOK'
  BY <1>2, <1>3 DEF CatalogTypeOK, CreditTypeOK
<1>5. TradeTypeOK'
  BY <1>2 DEF TradeTypeOK
<1>6. ProductsExist'
  BY <1>2, <1>3, PlacedRow DEF TradeTypeOK, ProductsExist, Placed, NoOrder
<1> QED
  BY <1>4, <1>5, <1>6

\* The product of an order stays as long as orders keep their product and
\* products their row.
LEMMA ProductsExistStep ==
  ASSUME TradeInv,
         \A i \in OrderId : orders'[i].status # "NONE" =>
           orders[i].status # "NONE" /\ orders'[i].pid = orders[i].pid,
         \A p \in Pid : products[p].status # "NONE" => products'[p].status # "NONE"
  PROVE  ProductsExist'
BY PlacedRow DEF TradeInv, TypeOK, ProductsExist, Placed

\* Payment, shipment and deferral change one order.
LEMMA PayOrderType ==
  ASSUME TradeInv, NEW i \in OrderId, NEW ledger \in Ledger, PayOrder(i, ledger)
  PROVE  TradeInv'
<1> USE DEF TradeInv, TypeOK
<1>1. orders[i].status = "PENDING_PAYMENT" /\ SetOrder(i, "PENDING_SHIPMENT")
  BY DEF PayOrder
<1>2. orders' \in [OrderId -> OrderRow \cup {NoOrder}]
  BY <1>1, SetOrderType DEF OrderStatus
<1>3. vault' \in [Ledger -> [Coin -> Nat]]
  BY <1>1, PlacedRow DEF PayOrder, TradeTypeOK
<1>4. CatalogTypeOK' /\ TradeTypeOK'
  BY <1>2, <1>3 DEF PayOrder, catalogVars, CatalogTypeOK, CreditTypeOK, TradeTypeOK
<1>5. ProductsExist'
  BY <1>1, ProductsExistStep DEF SetOrder, PayOrder, catalogVars, TradeTypeOK
<1> QED
  BY <1>4, <1>5

\* shipment and deferreceipt change one order, within its type.
LEMMA ShipmentType ==
  ASSUME TradeInv, NEW i \in OrderId, shipment(i) \/ deferreceipt(i)
  PROVE  TradeInv'
<1> USE DEF TradeInv, TypeOK
<1>1. orders[i] \in OrderRow /\ orders[i].status # "NONE"
  BY PlacedRow DEF shipment, deferreceipt
<1>2. now + ReceiptTimeOut \in Nat
  BY TradeAssumption DEF TradeTypeOK
<1>3. orders' \in [OrderId -> OrderRow \cup {NoOrder}]
  <2>1. CASE shipment(i)
    <3>1. [orders[i] EXCEPT !.status = "PENDING_RECEIPT",
                            !.receipt_time_out = now + ReceiptTimeOut] \in OrderRow
      BY <1>1, <1>2 DEF OrderRow, OrderStatus
    <3> QED
      BY <2>1, <3>1 DEF shipment, TradeTypeOK
  <2>2. CASE deferreceipt(i)
    <3>1. orders[i].delayed_count + 1 \in 0..MaxDeferrTimes
      BY <1>1, <2>2, TradeAssumption DEF deferreceipt, OrderRow
    <3>2. [orders[i] EXCEPT !.receipt_time_out = now + ReceiptTimeOut,
                            !.delayed_count = @ + 1] \in OrderRow
      BY <1>1, <1>2, <3>1 DEF OrderRow
    <3> QED
      BY <2>2, <3>2 DEF deferreceipt, TradeTypeOK
  <2> QED
    BY <2>1, <2>2
<1>4. CatalogTypeOK' /\ TradeTypeOK'
  BY <1>3 DEF shipment, deferreceipt, catalogVars, CatalogTypeOK, CreditTypeOK, TradeTypeOK
<1>5. ProductsExist'
  <2>1. UNCHANGED products
    BY DEF shipment, deferreceipt, catalogVars
  <2>2. \A j \in OrderId : orders'[j].status # "NONE" =>
          orders[j].status # "NONE" /\ orders'[j].pid = orders[j].pid
    <3>1. CASE shipment(i)
      BY <1>1, <3>1 DEF shipment, TradeTypeOK
    <3>2. CASE deferreceipt(i)
      BY <1>1, <3>2 DEF deferreceipt, TradeTypeOK
    <3> QED
      BY <3>1, <3>2
  <2> QED
    BY <2>1, <2>2, ProductsExistStep
<1> QED
  BY <1>4, <1>5

\* Confirmation charges the gift to the pool, books the income and sends the
\* payouts: all of it amounts.
LEMMA ConreceiptType ==
  ASSUME TradeInv, NEW i \in OrderId, conreceipt(i)
  PROVE  TradeInv'
<1> USE DEF TradeInv, TypeOK
<1>1. /\ orders[i].status = "PENDING_RECEIPT" /\ SetOrder(i, "COMPLETED")
      /\ BookIncome(i)
  BY DEF conreceipt
<1>2. /\ orders[i].seller_uid \in Uid /\ orders[i].buyer_uid \in Uid
      /\ orders[i].price \in Nat /\ orders[i].coin \in Coin
  BY <1>1, PlacedRow
<1>3. orders' \in [OrderId -> OrderRow \cup {NoOrder}]
  BY <1>1, SetOrderType DEF OrderStatus
<1>4. /\ products' \in [Pid -> ProductRow \cup {NoProduct}]
      /\ \A p \in Pid : products[p].status # "NONE" => products'[p].status # "NONE"
  BY <1>1, SetProductType DEF conreceipt, ProductStatus
<1>5. users' \in [Uid -> UserRow]
  <2> DEFINE us == AddCredit(CountOrder(users, i), orders[i].seller_uid, TradeReward)
  <2>1. us \in [Uid -> UserRow]
    BY <1>1, <1>2, CountOrderType, AddCreditType, TradeAssumption
  <2>2. users' = CreditReceipt(us, i)
    BY DEF conreceipt
  <2> HIDE DEF us
  <2> QED
    BY <1>2, <2>1, <2>2, AddCreditType, SubCreditType, TradeAssumption DEF CreditReceipt
<1>6. income' \in [Coin -> Nat]
  BY <1>1, IncomeType
<1>7. Points(i) \in Nat
  BY <1>2, GiftPointsNat DEF Points
<1>8. deferred' \subseteq DeferredRow
  BY <1>1, <1>7, PayoutType, GiftType DEF conreceipt, TradeTypeOK
<1>9. pools' \in [transaction : Nat, salary : Nat]
  BY <1>7 DEF conreceipt, PoolsAfter, IsGiven, CatalogTypeOK
<1>10. CatalogTypeOK' /\ TradeTypeOK'
  BY <1>3, <1>4, <1>5, <1>6, <1>8, <1>9
     DEF conreceipt, CatalogTypeOK, CreditTypeOK, TradeTypeOK
<1>11. ProductsExist'
  BY <1>1, <1>4, ProductsExistStep DEF SetOrder, TradeTypeOK
<1> QED
  BY <1>10, <1>11

\* A return adds a row under the order's key.
LEMMA ReturnsType ==
  ASSUME TradeInv, NEW i \in OrderId, returns(i)
  PROVE  TradeInv'
<1> USE DEF TradeInv, TypeOK
<1>1. orders[i].status = "PENDING_RECEIPT" /\ SetOrder(i, "RETURN")
  BY DEF returns
<1>2. orders' \in [OrderId -> OrderRow \cup {NoOrder}]
  BY <1>1, SetOrderType DEF OrderStatus
<1>3. proreturns' \in [ReturnId -> ReturnRow \cup {NoReturn}]
  <2>1. orders[i].oid \in OrderKey /\ orders[i].pid \in Pid
    BY <1>1, KeyType, PlacedRow
  <2> QED
    BY <2>1, NewReturnType DEF returns
<1>4. CatalogTypeOK' /\ TradeTypeOK'
  BY <1>2, <1>3 DEF returns, catalogVars, CatalogTypeOK, CreditTypeOK, TradeTypeOK
<1>5. ProductsExist'
  BY <1>1, ProductsExistStep DEF SetOrder, returns, catalogVars, TradeTypeOK
<1> QED
  BY <1>4, <1>5

\* The seller's and the buyer's steps on a return change its row only.
LEMMA ReshipmentType ==
  ASSUME TradeInv, NEW i \in OrderId, reshipment(i) \/ deferreturn(i)
  PROVE  TradeInv'
<1> USE DEF TradeInv, TypeOK
<1>1. now + ReceiptTimeOut \in Nat
  BY TradeAssumption DEF TradeTypeOK
<1>2. proreturns' \in [ReturnId -> ReturnRow \cup {NoReturn}]
  <2>1. CASE reshipment(i)
    <3>1. PICK r \in ReturnId :
             /\ proreturns[r].status = "PENDING_SHIPMENT"
             /\ proreturns' = [proreturns EXCEPT ![r].status = "PENDING_RECEIPT",
                                  ![r].receipt_time_out = now + ReceiptTimeOut]
      BY <2>1 DEF reshipment
    <3>2. [proreturns[r] EXCEPT !.status = "PENDING_RECEIPT",
              !.receipt_time_out = now + ReceiptTimeOut] \in ReturnRow
      BY <1>1, <3>1, ReturnedRow DEF ReturnRow, ReturnStatus
    <3> QED
      BY <3>1, <3>2 DEF TradeTypeOK
  <2>2. CASE deferreturn(i)
    <3>1. PICK r \in ReturnId :
             /\ proreturns[r].status # "NONE"
             /\ proreturns[r].delayed_count < MaxDeferrTimes
             /\ proreturns' = [proreturns EXCEPT
                  ![r].receipt_time_out = now + ReceiptTimeOut,
                  ![r].delayed_count = @ + 1]
      BY <2>2 DEF deferreturn, IsReturnOf, Returned
    <3>2. proreturns[r] \in ReturnRow
      BY <3>1, ReturnedRow
    <3>3. proreturns[r].delayed_count + 1 \in 0..MaxDeferrTimes
      BY <3>1, <3>2, TradeAssumption DEF ReturnRow
    <3>4. [proreturns[r] EXCEPT !.receipt_time_out = now + ReceiptTimeOut,
                                !.delayed_count = @ + 1] \in ReturnRow
      BY <1>1, <3>2, <3>3 DEF ReturnRow
    <3> QED
      BY <3>1, <3>4 DEF TradeTypeOK
  <2> QED
    BY <2>1, <2>2
<1>3. CatalogTypeOK' /\ TradeTypeOK'
  BY <1>2 DEF reshipment, deferreturn, catalogVars, CatalogTypeOK, CreditTypeOK, TradeTypeOK
<1>4. ProductsExist'
  BY DEF reshipment, deferreturn, catalogVars, ProductsExist, Placed
<1> QED
  BY <1>3, <1>4

\* reconreceipt cancels an order, completes its return and sends the refund.
LEMMA ReconreceiptType ==
  ASSUME TradeInv, NEW i \in OrderId, reconreceipt(i)
  PROVE  TradeInv'
<1> USE DEF TradeInv, TypeOK
<1>1. orders[i].status # "NONE" /\ SetOrder(i, "CANCELLED")
  BY DEF reconreceipt
<1>2. orders' \in [OrderId -> OrderRow \cup {NoOrder}]
  BY <1>1, SetOrderType DEF OrderStatus
<1>3. /\ products' \in [Pid -> ProductRow \cup {NoProduct}]
      /\ \A p \in Pid : products[p].status # "NONE" => products'[p].status # "NONE"
  BY <1>1, SetProductType DEF reconreceipt, ProductStatus
<1>4. PICK r \in ReturnId :
        /\ proreturns[r].status = "PENDING_RECEIPT"
        /\ proreturns' = [proreturns EXCEPT ![r].status = "COMPLETED"]
        /\ users' = IF now > proreturns[r].receipt_time_out
                    THEN SubCredit(users, orders[i].seller_uid, LatePenalty)
                    ELSE users
  BY DEF reconreceipt
<1>5. [proreturns[r] EXCEPT !.status = "COMPLETED"] \in ReturnRow
  BY <1>4, ReturnedRow DEF ReturnRow, ReturnStatus
<1>6. proreturns' \in [ReturnId -> ReturnRow \cup {NoReturn}]
  BY <1>4, <1>5 DEF TradeTypeOK
<1>7. users' \in [Uid -> UserRow]
  <2>1. orders[i].seller_uid \in Uid
    BY <1>1, PlacedRow
  <2> QED
    BY <1>4, <2>1, SubCreditType, TradeAssumption DEF CatalogTypeOK, CreditTypeOK
<1>8. deferred' \subseteq DeferredRow
  BY <1>1, PayoutType DEF reconreceipt, TradeTypeOK
<1>9. CatalogTypeOK' /\ TradeTypeOK'
  BY <1>2, <1>3, <1>6, <1>7, <1>8 DEF reconreceipt, CatalogTypeOK, CreditTypeOK, TradeTypeOK
<1>10. ProductsExist'
  BY <1>1, <1>3, ProductsExistStep DEF SetOrder, TradeTypeOK
<1> QED
  BY <1>9, <1>10

\* Delivering a payout never overdraws the ledger it is paid from.
LEMMA DeliveryType ==
  ASSUME TradeInv, NEW d \in deferred,
         ExecutePayout(d) \/ ExecuteGift(d) \/ DropDeferred(d)
  PROVE  TradeInv'
<1> USE DEF TradeInv, TypeOK
<1>1. d \in DeferredRow /\ d.ledger \in Ledger /\ TransferTotal(d) \in Nat
  BY TransferTotalNat DEF TradeTypeOK, DeferredRow
<1>2. deferred' \subseteq DeferredRow
  BY DEF ExecutePayout, ExecuteGift, DropDeferred, Deliver, TradeTypeOK
<1>3. vault' \in [Ledger -> [Coin -> Nat]]
  <2>1. CASE ExecutePayout(d)
    <3>1. /\ TransferTotal(d) <= vault[d.ledger][d.coin]
          /\ vault' = [vault EXCEPT ![d.ledger][d.coin] = @ - TransferTotal(d)]
      BY <2>1 DEF ExecutePayout, Payable
    <3>2. CASE d.coin \in Coin
      BY <1>1, <3>1, <3>2 DEF TradeTypeOK
    <3>3. CASE d.coin \notin Coin
      BY <1>1, <3>1, <3>3 DEF TradeTypeOK
    <3> QED
      BY <3>2, <3>3
  <2>2. CASE ExecuteGift(d) \/ DropDeferred(d)
    BY <2>2 DEF ExecuteGift, DropDeferred, TradeTypeOK
  <2> QED
    BY <2>1, <2>2
<1>4. minted' \in Nat
  BY <1>1 DEF ExecutePayout, ExecuteGift, DropDeferred, catalogVars, CatalogTypeOK
<1>5. /\ UNCHANGED <<users, reviewers, products, audits, pools>>
      /\ UNCHANGED <<now, orders, proreturns, income>>
  BY DEF ExecutePayout, ExecuteGift, DropDeferred, catalogVars
<1>6. CatalogTypeOK' /\ TradeTypeOK'
  BY <1>2, <1>3, <1>4, <1>5 DEF CatalogTypeOK, CreditTypeOK, TradeTypeOK
<1>7. ProductsExist'
  BY <1>5 DEF ProductsExist, Placed
<1> QED
  BY <1>6, <1>7

\* The clock only advances.
LEMMA TickType ==
  ASSUME TradeInv, Tick
  PROVE  TradeInv'
<1>1. CatalogTypeOK'
  BY DEF TradeInv, TypeOK, Tick, catalogVars, CatalogTypeOK, CreditTypeOK
<1>2. TradeTypeOK'
  BY DEF TradeInv, TypeOK, Tick, TradeTypeOK
<1>3. ProductsExist'
  BY DEF TradeInv, Tick, catalogVars, ProductsExist, Placed
<1> QED
  BY <1>1, <1>2, <1>3 DEF TradeInv, TypeOK

\* The catalog's steps leave every order its product.
LEMMA CatalogKeepsProducts ==
  ASSUME CatalogTypeOK, CatalogNext
  PROVE  \A p \in Pid : products[p].status # "NONE" => products'[p].status # "NONE"
<1> USE DEF CatalogTypeOK
<1>1. ASSUME NEW offer \in Offers, publish(offer)
      PROVE  \A p \in Pid : products[p].status # "NONE" => products'[p].status # "NONE"
  <2>1. offer.uid \in Uid
    BY CatalogAssumption DEF Offer
  <2> QED
    BY <1>1, <2>1, ListingType DEF publish
<1>2. ASSUME NEW pid \in Pid, NEW offer \in Offers, republish(pid, offer)
      PROVE  \A p \in Pid : products[p].status # "NONE" => products'[p].status # "NONE"
  BY <1>2, OwnerIsUser, ListingType DEF republish
<1>3. ASSUME NEW uid \in Uid, NEW pid \in Pid, pulloff(uid, pid)
      PROVE  \A p \in Pid : products[p].status # "NONE" => products'[p].status # "NONE"
  BY <1>3, WithStatusType DEF pulloff, ProductStatus
<1>4. ASSUME NEW uid \in Uid, NEW pid \in Pid, review(uid, pid)
      PROVE  \A p \in Pid : products[p].status # "NONE" => products'[p].status # "NONE"
  BY <1>4, WithStatusType DEF review, reviewPass, reviewDelist, ProductStatus
<1> QED
  BY <1>1, <1>2, <1>3, <1>4 DEF CatalogNext

-----------------------------------------------------------------------------
\* Every step of Trade keeps TradeInv.
LEMMA TradeStepType ==
  ASSUME TradeInv, TradeNext
  PROVE  TradeInv'
<1>1. CASE CatalogNext /\ UNCHANGED tradeVars
  <2>1. CatalogTypeOK'
    BY <1>1, CatalogStepType DEF TradeInv, TypeOK
  <2>2. TradeTypeOK'
    BY <1>1 DEF TradeInv, TypeOK, TradeTypeOK, tradeVars
  <2>3. ProductsExist'
    BY <1>1, CatalogKeepsProducts, ProductsExistStep DEF TradeInv, TypeOK, tradeVars
  <2> QED
    BY <2>1, <2>2, <2>3 DEF TradeInv, TypeOK
<1>2. CASE \E i \in OrderId : \/ cancelorder(i)   \/ cleanorder(i)
                            \/ OnEOSTransfer(i) \/ OnIBCTransfer(i) \/ OnMyTransfer(i)
                            \/ shipment(i)      \/ deferreceipt(i) \/ conreceipt(i)
                            \/ returns(i)       \/ reshipment(i)
                            \/ deferreturn(i)   \/ reconreceipt(i)
  BY <1>2, CancelorderType, CleanorderType, PayOrderType, ShipmentType, ConreceiptType,
     ReturnsType, ReshipmentType, ReconreceiptType
     DEF OnEOSTransfer, OnIBCTransfer, OnMyTransfer, Ledger
<1> QED
  BY <1>1, <1>2, PlaceorderType, DeliveryType, TickType DEF TradeNext

\* The empty tables have their types.
LEMMA TradeInitType == CatalogInit /\ TradeInit => TradeInv
<1> SUFFICES ASSUME CatalogInit, TradeInit
             PROVE  TradeInv
  OBVIOUS
<1>1. CatalogTypeOK
  BY CatalogInitType
<1>2. TradeTypeOK
  BY TradeAssumption DEF TradeInit, TradeTypeOK
<1>3. ProductsExist
  BY DEF TradeInit, ProductsExist, Placed, NoOrder
<1> QED
  BY <1>1, <1>2, <1>3 DEF TradeInv, TypeOK

\* Whatever is ordered, paid, returned and delivered, the tables hold what
\* their types say: no pool, ledger balance or income is ever negative.
THEOREM TradeTypeCorrect == TradeSpec => []TypeOK
<1>1. TradeInv /\ UNCHANGED vars => TradeInv'
  BY DEF TradeInv, TypeOK, CatalogTypeOK, CreditTypeOK, TradeTypeOK, ProductsExist, Placed,
         vars, catalogVars, tradeVars
<1>2. TradeInv => TypeOK
  BY DEF TradeInv
<1> QED
  BY <1>1, <1>2, TradeInitType, TradeStepType, PTL DEF TradeSpec

-----------------------------------------------------------------------------
(* What deferred transactions transfer, together. *)

\* What each of them transfers.
Transfers == [d \in DeferredRow |-> TransferTotal(d)]

\* Their total is a sum over a function that stays the same.
LEMMA TotalIsSum ==
  ASSUME NEW D, D \subseteq DeferredRow, IsFiniteSet(D)
  PROVE  /\ Total(D) = SumFunctionOnSet(Transfers, D) /\ Total(D) \in Nat
         /\ \A d \in D : Transfers[d] = TransferTotal(d) /\ Transfers[d] \in Nat
<1> DEFINE f == [d \in D |-> TransferTotal(d)]
<1>1. \A d \in D : /\ Transfers[d] = TransferTotal(d) /\ Transfers[d] \in Nat
                   /\ f[d] = Transfers[d]
  BY TransferTotalNat DEF Transfers
<1>2. Total(D) = SumFunctionOnSet(f, D)
  BY DEF Total, SumFunction
<1> HIDE DEF f
<1>3. SumFunctionOnSet(f, D) = SumFunctionOnSet(Transfers, D)
  BY <1>1, SumSame
<1>4. SumFunctionOnSet(Transfers, D) \in Nat
  BY <1>1, SumNat
<1> QED
  BY <1>1, <1>2, <1>3, <1>4

\* Nothing under way is nothing.
LEMMA TotalNone == Total({}) = 0
<1>1. IsFiniteSet({})
  BY FS_EmptySet
<1> QED
  BY <1>1, TotalIsSum, SumEmpty

\* A transaction that is sent adds what it transfers.
LEMMA TotalAdd ==
  ASSUME NEW D, D \subseteq DeferredRow, IsFiniteSet(D), NEW d \in DeferredRow, d \notin D
  PROVE  /\ Total(D \cup {d}) = TransferTotal(d) + Total(D)
         /\ IsFiniteSet(D \cup {d}) /\ Total(D) \in Nat /\ TransferTotal(d) \in Nat
<1> DEFINE E == D \cup {d}
<1>1. E \subseteq DeferredRow /\ IsFiniteSet(E) /\ d \in E
  BY FS_AddElement
<1>2. SumFunctionOnSet(Transfers, D \cup {d}) = Transfers[d] + SumFunctionOnSet(Transfers, D)
  <2>1. \A e \in D \cup {d} : Transfers[e] \in Int
    BY <1>1, TotalIsSum
  <2> QED
    BY <2>1, SumAdd
<1> HIDE DEF E
<1>3. /\ Total(E) = SumFunctionOnSet(Transfers, E)
      /\ Transfers[d] = TransferTotal(d) /\ Transfers[d] \in Nat
  BY <1>1, TotalIsSum
<1>4. Total(D) = SumFunctionOnSet(Transfers, D) /\ Total(D) \in Nat
  BY TotalIsSum
<1> QED
  BY <1>1, <1>2, <1>3, <1>4 DEF E

\* One that goes takes along what it transfers.
LEMMA TotalRemove ==
  ASSUME NEW D, D \subseteq DeferredRow, IsFiniteSet(D), NEW d \in D
  PROVE  /\ Total(D) = TransferTotal(d) + Total(D \ {d})
         /\ IsFiniteSet(D \ {d}) /\ Total(D \ {d}) \in Nat /\ TransferTotal(d) \in Nat
<1> DEFINE E == D \ {d}
<1>1. E \subseteq DeferredRow /\ IsFiniteSet(E) /\ d \in DeferredRow /\ d \notin E
  BY FS_RemoveElement
<1>2. D = E \cup {d}
  OBVIOUS
<1> HIDE DEF E
<1>3. Total(E \cup {d}) = TransferTotal(d) + Total(E)
  BY <1>1, TotalAdd
<1>4. Total(E) \in Nat /\ TransferTotal(d) \in Nat
  BY <1>1, TotalAdd
<1> QED
  BY <1>1, <1>2, <1>3, <1>4 DEF E

-----------------------------------------------------------------------------
(* Points that left a pool are minted, under way, or lost. *)

\* What issue has minted and may still be asked to.
PointsPromised == minted + pools.transaction + pools.salary + Total(Gifts)

\* A step that charges no pool and sends or delivers no gift.
LEMMA PointsSame ==
  ASSUME UNCHANGED <<minted, pools>>, Gifts' = Gifts
  PROVE  PointsPromised' = PointsPromised
<1>1. Total(Gifts)' = Total(Gifts)
  BY DEF Total
<1> QED
  BY <1>1 DEF PointsPromised

\* The gifts of a finite number of deferred transactions have a total.
LEMMA GiftsTotal ==
  ASSUME TradeTypeOK, IsFiniteSet(deferred)
  PROVE  Gifts \subseteq DeferredRow /\ IsFiniteSet(Gifts) /\ Total(Gifts) \in Nat
<1>1. Gifts \subseteq DeferredRow /\ IsFiniteSet(Gifts)
  BY FS_Subset DEF Gifts, TradeTypeOK
<1> QED
  BY <1>1, TotalIsSum

\* The catalog mints what it takes from a pool.
LEMMA CatalogPoints ==
  ASSUME TypeOK, IsFiniteSet(deferred), CatalogNext, UNCHANGED tradeVars
  PROVE  PointsPromised' = PointsPromised
<1>1. Total(Gifts)' = Total(Gifts) /\ Total(Gifts) \in Nat
  BY GiftsTotal DEF tradeVars, Gifts, Total, TypeOK
<1>2. ASSUME NEW uid \in Uid, NEW pid \in Pid, review(uid, pid)
      PROVE  PointsPromised' = PointsPromised
  <2>1. PublishGift(pid) \in 0..pools.transaction /\ Salary \in 0..pools.salary
    BY RewardBounds DEF TypeOK
  <2>2. pools \in [transaction : Nat, salary : Nat] /\ minted \in Nat
    BY DEF TypeOK, CatalogTypeOK
  <2> QED
    BY <1>1, <1>2, <2>1, <2>2 DEF review, reviewPass, reviewDelist, PointsPromised
<1>3. UNCHANGED <<pools, minted>> => PointsPromised' = PointsPromised
  BY <1>1 DEF PointsPromised
<1> QED
  BY <1>2, <1>3 DEF CatalogNext, publish, republish, pulloff

\* Confirmation takes from the pool what the gift it sends will mint.
LEMMA ConreceiptPoints ==
  ASSUME TypeOK, IsFiniteSet(deferred), NEW i \in OrderId, conreceipt(i)
  PROVE  PointsPromised' = PointsPromised
<1> USE DEF TypeOK
<1>1. /\ orders[i].status = "PENDING_RECEIPT" /\ orders[i].price \in Nat
      /\ orders[i].coin \in Coin
  BY PlacedRow DEF conreceipt
<1>2. Points(i) \in Nat
  BY <1>1, GiftPointsNat DEF Points
<1>3. pools \in [transaction : Nat, salary : Nat] /\ minted \in Nat /\ minted' = minted
  BY DEF CatalogTypeOK, conreceipt
<1>4. Gifts \subseteq DeferredRow /\ IsFiniteSet(Gifts) /\ Total(Gifts) \in Nat
  BY GiftsTotal
<1>5. CASE IsGiven(i)
  <2> DEFINE g == Gift(i, Points(i))
  <2>1. g \in DeferredRow /\ TransferTotal(g) = 2 * Points(i)
    BY <1>2, GiftType DEF Gift, TransferTotal
  <2>2. g \notin Gifts
    BY <1>5 DEF conreceipt, CanSend, Gift, Gifts
  <2>3. Gifts' = Gifts \cup {g}
    BY <1>5 DEF conreceipt, Gifts, Settlement, Gift
  <2>4. pools' = [pools EXCEPT !.transaction = @ - 2 * Points(i)]
    BY <1>5 DEF conreceipt, PoolsAfter
  <2>5. Total(Gifts)' = Total(Gifts \cup {g})
    BY <2>3 DEF Total
  <2> HIDE DEF g
  <2>6. Total(Gifts \cup {g}) = TransferTotal(g) + Total(Gifts)
    BY <1>4, <2>1, <2>2, TotalAdd
  <2> QED
    BY <1>2, <1>3, <1>4, <2>1, <2>4, <2>5, <2>6 DEF PointsPromised
<1>6. CASE ~IsGiven(i)
  <2>1. Gifts' = Gifts
    BY <1>6 DEF conreceipt, Gifts, Settlement
  <2>2. pools' = pools
    BY <1>6 DEF conreceipt, PoolsAfter
  <2> QED
    BY <1>3, <2>1, <2>2, PointsSame
<1> QED
  BY <1>5, <1>6

\* A gift that is delivered is minted, one that is dropped is lost.
LEMMA DeliveryPoints ==
  ASSUME TypeOK, IsFiniteSet(deferred), NEW d \in deferred,
         ExecutePayout(d) \/ ExecuteGift(d) \/ DropDeferred(d)
  PROVE  PointsPromised' <= PointsPromised /\ PointsPromised' \in Nat
<1> USE DEF TypeOK
<1>1. Gifts \subseteq DeferredRow /\ IsFiniteSet(Gifts) /\ Total(Gifts) \in Nat
  BY GiftsTotal
<1>2. pools \in [transaction : Nat, salary : Nat] /\ minted \in Nat /\ pools' = pools
  BY DEF CatalogTypeOK, ExecutePayout, ExecuteGift, DropDeferred, catalogVars
<1>3. Gifts' = Gifts \ {d}
  BY DEF ExecutePayout, ExecuteGift, DropDeferred, Deliver, Gifts
<1>4. CASE d \notin Gifts
  <2>1. Gifts' = Gifts /\ minted' = minted
    BY <1>3, <1>4 DEF ExecutePayout, ExecuteGift, DropDeferred, catalogVars, Gifts
  <2>2. PointsPromised' = PointsPromised
    BY <1>2, <2>1, PointsSame
  <2>3. PointsPromised \in Nat
    BY <1>1, <1>2 DEF PointsPromised
  <2> QED
    BY <2>2, <2>3
<1>5. CASE d \in Gifts
  <2>1. /\ Total(Gifts) = TransferTotal(d) + Total(Gifts \ {d})
        /\ Total(Gifts \ {d}) \in Nat /\ TransferTotal(d) \in Nat
    BY <1>1, <1>5, TotalRemove
  <2>2. Total(Gifts)' = Total(Gifts \ {d})
    BY <1>3 DEF Total
  <2>3. minted' = minted + TransferTotal(d) \/ minted' = minted
    BY DEF ExecutePayout, ExecuteGift, DropDeferred, catalogVars
  <2> QED
    BY <1>2, <2>1, <2>2, <2>3 DEF PointsPromised
<1> QED
  BY <1>4, <1>5

\* No step of Trade promises points no pool had, and none sends more than a
\* finite number of transactions.
LEMMA TradePoints ==
  ASSUME TypeOK, IsFiniteSet(deferred), TradeNext
  PROVE  /\ IsFiniteSet(deferred)'
         /\ PointsPromised' <= PointsPromised /\ PointsPromised' \in Nat
<1> USE DEF TypeOK
<1>1. PointsPromised \in Nat
  BY GiftsTotal DEF PointsPromised, CatalogTypeOK
<1>2. CASE CatalogNext /\ UNCHANGED tradeVars
  BY <1>1, <1>2, CatalogPoints DEF tradeVars
<1>3. CASE UNCHANGED <<minted, pools, deferred>>
  <2>1. PointsPromised' = PointsPromised
    BY <1>3, PointsSame DEF Gifts
  <2> QED
    BY <1>1, <1>3, <2>1
<1>4. ASSUME NEW i \in OrderId, conreceipt(i)
      PROVE  IsFiniteSet(deferred)' /\ PointsPromised' = PointsPromised
  <2>1. IsFiniteSet(deferred \cup {Settlement(i)})
    BY FS_AddElement
  <2>2. IsFiniteSet(deferred \cup {Settlement(i)} \cup {Gift(i, Points(i))})
    BY <2>1, FS_AddElement
  <2>3. IsFiniteSet(deferred')
    BY <1>4, <2>1, <2>2 DEF conreceipt
  <2> QED
    BY <1>4, <2>3, ConreceiptPoints
<1>5. ASSUME NEW i \in OrderId, reconreceipt(i)
      PROVE  IsFiniteSet(deferred)' /\ PointsPromised' = PointsPromised
  <2>1. IsFiniteSet(deferred')
    BY <1>5, FS_AddElement DEF reconreceipt
  <2>2. Gifts' = Gifts
    BY <1>5 DEF reconreceipt, Gifts, Refund
  <2> QED
    BY <1>5, <2>1, <2>2, PointsSame DEF reconreceipt
<1>6. ASSUME NEW d \in deferred, ExecutePayout(d) \/ ExecuteGift(d) \/ DropDeferred(d)
      PROVE  IsFiniteSet(deferred)'
  BY <1>6, FS_RemoveElement DEF ExecutePayout, ExecuteGift, DropDeferred, Deliver
<1>7. CASE \E i \in OrderId : \/ cancelorder(i)   \/ cleanorder(i)
                            \/ OnEOSTransfer(i) \/ OnIBCTransfer(i) \/ OnMyTransfer(i)
                            \/ shipment(i)      \/ deferreceipt(i)
                            \/ returns(i)       \/ reshipment(i)  \/ deferreturn(i)
  <2>1. UNCHANGED <<minted, pools, deferred>>
    BY <1>7 DEF cancelorder, cleanorder, OnEOSTransfer, OnIBCTransfer, OnMyTransfer, PayOrder,
                shipment, deferreceipt, returns, reshipment, deferreturn, catalogVars
  <2> QED
    BY <1>3, <2>1
<1>8. CASE \/ \E buyer \in Uid, pid \in Pid, t \in {now} \cup ClientTimes :
                placeorder(buyer, pid, t)
           \/ Tick
  <2>1. UNCHANGED <<minted, pools, deferred>>
    BY <1>8 DEF placeorder, Tick, catalogVars
  <2> QED
    BY <1>3, <2>1
<1> QED
  BY <1>1, <1>2, <1>4, <1>5, <1>6, <1>7, <1>8, DeliveryPoints DEF TradeNext

\* At the start no gift is under way.
LEMMA NoGiftsYet ==
  ASSUME ListingInit, TradeInit
  PROVE  /\ IsFiniteSet(deferred)
         /\ PointsPromised = TransactionPool + SalaryPool
<1>1. IsFiniteSet(deferred) /\ Gifts = {}
  BY FS_EmptySet DEF TradeInit, Gifts
<1>2. PointsPromised = minted + pools.transaction + pools.salary + 0
  BY <1>1, TotalNone DEF PointsPromised
<1> QED
  BY <1>1, <1>2, CatalogAssumption DEF ListingInit

\* However many orders are confirmed before a gift is delivered, and however
\* many are dropped: what the pools still hold and what is under way can be
\* minted, and neither a review nor a gift meets the supply limit.
THEOREM GiftsStayBacked == TradeSpec => []GiftsBacked
<1> DEFINE Inv == TradeInv /\ IsFiniteSet(deferred) /\ GiftsBacked
<1>1. CatalogInit /\ TradeInit => Inv
  BY TradeInitType, NoGiftsYet, CatalogAssumption
     DEF CatalogInit, GiftsBacked, PointsPromised
<1>2. Inv /\ [TradeNext]_vars => Inv'
  <2> SUFFICES ASSUME Inv, [TradeNext]_vars
               PROVE  Inv'
    OBVIOUS
  <2>1. PointsPromised \in Nat
    BY GiftsTotal DEF TradeInv, TypeOK, PointsPromised, CatalogTypeOK
  <2>2. CASE TradeNext
    <3>1. TradeInv'
      BY <2>2, TradeStepType
    <3>2. /\ IsFiniteSet(deferred)'
          /\ PointsPromised' <= PointsPromised /\ PointsPromised' \in Nat
      BY <2>2, TradePoints DEF TradeInv
    <3> QED
      BY <2>1, <3>1, <3>2, CatalogAssumption DEF GiftsBacked, PointsPromised
  <2>3. CASE UNCHANGED vars
    <3>1. PointsPromised' = PointsPromised
      BY <2>3, PointsSame DEF vars, catalogVars, tradeVars, Gifts
    <3>2. TradeInv'
      BY <2>3 DEF TradeInv, TypeOK, CatalogTypeOK, CreditTypeOK, TradeTypeOK, ProductsExist,
                  Placed, vars, catalogVars, tradeVars
    <3> QED
      BY <2>3, <3>1, <3>2 DEF GiftsBacked, PointsPromised, vars, tradeVars
  <2> QED
    BY <2>2, <2>3
<1>3. Inv => GiftsBacked
  OBVIOUS
<1> QED
  BY <1>1, <1>2, <1>3, PTL DEF TradeSpec
=============================================================================
