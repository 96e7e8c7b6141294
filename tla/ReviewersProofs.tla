--------------------------- MODULE ReviewersProofs --------------------------
(***************************************************************************)
(* Nobody holds the flag of a reviewer without a row, and no row without a *)
(* majority of votes, however registrations, votes, penalties, verdicts    *)
(* and new applications follow one another.  The market never gives the    *)
(* flag: that is OfficeKept, proved for each of its operators and then for *)
(* each of its steps.                                                      *)
(* What is proved of Market alone holds of the whole with registrations    *)
(* and votes as well.                                                      *)
(***************************************************************************)
EXTENDS Reviewers, EscrowProofs, FiniteSetTheorems

\* From us to them nobody gains the flag, and nobody's referrer changes.
OfficeKept(us, them) ==
  \A u \in Uid : /\ them[u].is_reviewer => us[u].is_reviewer
                 /\ them[u].referrer = us[u].referrer

-----------------------------------------------------------------------------
(* The operators on the users table. *)

\* One change after the other.
LEMMA OfficeKeptTwice ==
  ASSUME NEW us, NEW them, NEW others, OfficeKept(us, them), OfficeKept(them, others)
  PROVE  OfficeKept(us, others)
BY DEF OfficeKept

\* Credit earned is no office.
LEMMA AddCreditOffice ==
  ASSUME NEW us \in [Uid -> UserRow], NEW uid \in Uid, NEW value
  PROVE  OfficeKept(us, AddCredit(us, uid, value))
BY DEF OfficeKept, AddCredit, UserRow

\* Credit lost may cost it.
LEMMA SubCreditOffice ==
  ASSUME NEW us \in [Uid -> UserRow], NEW uid \in Uid, NEW value
  PROVE  OfficeKept(us, SubCredit(us, uid, value))
<1> DEFINE left == (us[uid].credit_value - value) % Word
           row  == [us[uid] EXCEPT !.credit_value = left,
                                   !.is_reviewer = us[uid].is_reviewer /\ left >= CreditLimit]
<1>1. us[uid] \in UserRow
  OBVIOUS
<1> HIDE DEF left
<1>2. (row.is_reviewer => us[uid].is_reviewer) /\ row.referrer = us[uid].referrer
  BY <1>1 DEF UserRow
<1>3. /\ LockIfSpent(row).is_reviewer = row.is_reviewer
      /\ LockIfSpent(row).referrer = row.referrer
  BY <1>1 DEF LockIfSpent, UserRow
<1>4. SubCredit(us, uid, value) = [us EXCEPT ![uid] = LockIfSpent(row)]
  BY DEF SubCredit, left
<1> HIDE DEF row
<1> QED
  BY <1>2, <1>3, <1>4 DEF OfficeKept

\* A dismissal always does.
LEMMA DismissOffice ==
  ASSUME NEW us \in [Uid -> UserRow], NEW uid \in Uid, NEW value
  PROVE  /\ OfficeKept(us, DismissReviewer(us, uid, value))
         /\ ~DismissReviewer(us, uid, value)[uid].is_reviewer
<1> DEFINE top  == IF us[uid].credit_value >= CreditLimit
                   THEN CreditLimit ELSE us[uid].credit_value
           left == (top - value) % Word
           row  == [us[uid] EXCEPT !.credit_value = left, !.is_reviewer = FALSE]
<1>1. us[uid] \in UserRow
  OBVIOUS
<1>2. DismissReviewer(us, uid, value) = [us EXCEPT ![uid] = LockIfSpent(row)]
  BY DEF DismissReviewer
<1> HIDE DEF left
<1>3. ~row.is_reviewer /\ row.referrer = us[uid].referrer
  BY <1>1 DEF UserRow
<1>4. /\ LockIfSpent(row).is_reviewer = row.is_reviewer
      /\ LockIfSpent(row).referrer = row.referrer
  BY <1>1 DEF LockIfSpent, UserRow
<1> HIDE DEF row
<1> QED
  BY <1>2, <1>3, <1>4 DEF OfficeKept

\* Counting a sale is no office either.
LEMMA CountOrderOffice ==
  ASSUME TypeOK, NEW i \in OrderId, orders[i].status # "NONE"
  PROVE  OfficeKept(users, CountOrder(users, i))
<1>1. orders[i].seller_uid \in Uid /\ orders[i].buyer_uid \in Uid
  BY PlacedRow DEF TypeOK
<1>2. users \in [Uid -> UserRow]
  BY DEF TypeOK, CatalogTypeOK, CreditTypeOK
<1> QED
  BY <1>1, <1>2 DEF CountOrder, OfficeKept, UserRow

-----------------------------------------------------------------------------
(* The steps of the market. *)

\* What every step of the market does to the offices: nobody gains the flag,
\* nobody gains a row, and who loses the row has no flag.
Offices ==
  /\ OfficeKept(users, users')
  /\ reviewers' \subseteq reviewers
  /\ \A u \in reviewers \ reviewers' : ~users'[u].is_reviewer

\* A step that leaves both tables alone.
LEMMA SameUsers ==
  ASSUME UNCHANGED <<users, reviewers>>
  PROVE  Offices
BY DEF Offices, OfficeKept

\* Listing and review give nobody the flag or a row.
LEMMA CatalogOffices ==
  ASSUME CatalogTypeOK, CatalogNext
  PROVE  Offices
<1>1. ASSUME NEW uid \in Uid, NEW pid \in Pid, review(uid, pid)
      PROVE  Offices
  <2>1. users \in [Uid -> UserRow] /\ UNCHANGED reviewers
    BY <1>1 DEF review, CatalogTypeOK, CreditTypeOK
  <2>2. products[pid].uid \in Uid
    BY <1>1, OwnerIsUser DEF review, CatalogTypeOK
  <2>3. CASE reviewPass(uid, pid)
    BY <2>1, <2>2, <2>3, AddCreditOffice DEF reviewPass, CreditFirstPass, Offices, OfficeKept
  <2>4. CASE reviewDelist(uid, pid)
    BY <2>1, <2>2, <2>4, SubCreditOffice DEF reviewDelist, Offices
  <2> QED
    BY <1>1, <2>3, <2>4 DEF review
<1> QED
  BY <1>1, SameUsers DEF CatalogNext, publish, republish, pulloff

\* Nor do orders, returns and payouts.
LEMMA TradeOffices ==
  ASSUME TypeOK, TradeNext
  PROVE  Offices
<1> USE DEF TypeOK
<1>1. users \in [Uid -> UserRow]
  BY DEF CatalogTypeOK, CreditTypeOK
<1>2. ASSUME NEW i \in OrderId, conreceipt(i)
      PROVE  Offices
  <2>1. /\ orders[i].status # "NONE"
        /\ orders[i].seller_uid \in Uid /\ orders[i].buyer_uid \in Uid
    BY <1>2, PlacedRow DEF conreceipt
  <2> DEFINE counted == CountOrder(users, i)
             us == AddCredit(counted, orders[i].seller_uid, TradeReward)
  <2>2. /\ counted \in [Uid -> UserRow] /\ OfficeKept(users, counted)
    BY <2>1, CountOrderType, CountOrderOffice
  <2>3. us \in [Uid -> UserRow] /\ OfficeKept(counted, us)
    <3> HIDE DEF counted
    <3> QED
      BY <2>1, <2>2, AddCreditType, AddCreditOffice, TradeAssumption
  <2>4. users' = CreditReceipt(us, i) /\ UNCHANGED reviewers
    BY <1>2 DEF conreceipt
  <2> HIDE DEF us, counted
  <2>5. OfficeKept(us, users')
    BY <2>1, <2>3, <2>4, AddCreditOffice, SubCreditOffice DEF CreditReceipt
  <2>6. OfficeKept(users, users')
    BY <2>2, <2>3, <2>5, OfficeKeptTwice
  <2> QED
    BY <2>4, <2>6 DEF Offices
<1>3. ASSUME NEW i \in OrderId, reconreceipt(i)
      PROVE  Offices
  <2>1. orders[i].seller_uid \in Uid /\ UNCHANGED reviewers
    BY <1>3, PlacedRow DEF reconreceipt
  <2>2. users' = users \/ users' = SubCredit(users, orders[i].seller_uid, LatePenalty)
    BY <1>3 DEF reconreceipt
  <2> QED
    BY <1>1, <2>1, <2>2, SubCreditOffice DEF Offices, OfficeKept
<1>4. CASE CatalogNext /\ UNCHANGED tradeVars
  BY <1>4, CatalogOffices
<1>5. ASSUME NEW buyer \in Uid, NEW pid \in Pid, NEW t, placeorder(buyer, pid, t)
      PROVE  Offices
  BY <1>5, SameUsers DEF placeorder
<1>6. ASSUME NEW i \in OrderId,
             \/ cancelorder(i)   \/ cleanorder(i)
             \/ OnEOSTransfer(i) \/ OnIBCTransfer(i) \/ OnMyTransfer(i)
             \/ shipment(i)      \/ deferreceipt(i) \/ returns(i)
             \/ reshipment(i)    \/ deferreturn(i)
      PROVE  Offices
  BY <1>6, SameUsers
     DEF cancelorder, cleanorder, OnEOSTransfer, OnIBCTransfer, OnMyTransfer, PayOrder,
         shipment, deferreceipt, returns, reshipment, deferreturn, catalogVars
<1>7. ASSUME NEW d, ExecutePayout(d) \/ ExecuteGift(d) \/ DropDeferred(d)
      PROVE  Offices
  BY <1>7, SameUsers DEF ExecutePayout, ExecuteGift, DropDeferred, catalogVars
<1>8. CASE Tick
  BY <1>8, SameUsers DEF Tick, catalogVars
<1> QED
  BY <1>2, <1>3, <1>4, <1>5, <1>6, <1>7, <1>8 DEF TradeNext

\* Nor does a verdict, which may take the flag and then the row.
LEMMA VerdictOffices ==
  ASSUME MarketTypeOK, NEW a \in ArbId, NEW winner, updatearbit(a, winner)
  PROVE  Offices
<1> USE DEF MarketTypeOK, TypeOK
<1>1. users \in [Uid -> UserRow] /\ VerdictPenalty \in Nat
  BY MarketAssumption DEF CatalogTypeOK, CreditTypeOK
<1>2. CASE UNCHANGED vars
  BY <1>2, SameUsers DEF vars, catalogVars
<1>3. ASSUME NEW i \in OrderId, Concerns(a, i), verdictOnOrder(a, i, winner)
      PROVE  Offices
  <2>1. orders[i].status # "NONE" /\ orders[i].seller_uid \in Uid /\ orders[i].buyer_uid \in Uid
    BY <1>3, PlacedRow DEF Concerns, Placed
  <2>2. CASE verdictRefund(a, i) \/ verdictReturn(a, i)
    BY <1>1, <2>1, <2>2, SubCreditOffice DEF verdictRefund, verdictReturn, Offices
  <2>3. CASE verdictRedeliver(a, i)
    BY <1>1, <2>1, <2>3, SubCreditOffice DEF verdictRedeliver, Offices
  <2>4. CASE verdictSettle(a, i)
    <3> DEFINE counted == CountOrder(users, i)
    <3>1. counted \in [Uid -> UserRow] /\ OfficeKept(users, counted)
      BY <2>1, CountOrderType, CountOrderOffice
    <3>2. /\ users' = SubCredit(counted, orders[i].buyer_uid, VerdictPenalty)
          /\ UNCHANGED reviewers
      BY <2>4 DEF verdictSettle
    <3> HIDE DEF counted
    <3>3. OfficeKept(counted, users')
      BY <2>1, <3>1, <3>2, SubCreditOffice
    <3> QED
      BY <3>1, <3>2, <3>3, OfficeKeptTwice DEF Offices
  <2> QED
    BY <1>2, <1>3, <2>2, <2>3, <2>4 DEF verdictOnOrder
<1>4. CASE verdictOnComplaint(a, winner)
  <2>1. arbs[a].plaintiff \in Uid /\ arbs[a].defendant \in Uid
    BY <1>4, ArbRowType DEF updatearbit, ArbRow
  <2> QED
    BY <1>1, <1>4, <2>1, SubCreditOffice, DismissOffice
       DEF verdictOnComplaint, Offices, OfficeKept
<1> QED
  BY <1>2, <1>3, <1>4 DEF updatearbit, verdictNoOrder

\* Nor does any step of the market.
LEMMA MarketOffices ==
  ASSUME MarketTypeOK, MarketNext
  PROVE  Offices
<1>1. CASE TradeNext /\ UNCHANGED arbs
  BY <1>1, TradeOffices DEF MarketTypeOK
<1>2. ASSUME NEW type, NEW parties, NEW pid, applyarbit(type, parties, pid)
      PROVE  Offices
  BY <1>2, SameUsers DEF applyarbit
<1>3. ASSUME NEW uid, NEW a, inarbit(uid, a)
      PROVE  Offices
  BY <1>3, SameUsers DEF inarbit, vars, catalogVars
<1> QED
  BY <1>1, <1>2, <1>3, VerdictOffices DEF MarketNext

-----------------------------------------------------------------------------
\* In the market on its own, whatever verdicts are signed and however often:
\* whoever has the flag has the row.  Neither a lost complaint nor a loss of
\* credit leaves a flag behind.
THEOREM FlagNeedsRow == MarketSpec => []FlagHasRow
<1>1. MarketInit => FlagHasRow
  <2> SUFFICES ASSUME MarketInit, NEW u \in Uid, users[u].is_reviewer
               PROVE  u \in reviewers
    BY DEF FlagHasRow
  <2>1. reviewers = Reviewers0 /\ users[u].is_reviewer = (u \in Reviewers0)
    BY DEF MarketInit, CatalogInit
  <2> QED
    BY <2>1, Zenon
<1>2. MarketTypeOK /\ FlagHasRow /\ [MarketNext]_marketVars => FlagHasRow'
  <2>1. ASSUME MarketTypeOK, FlagHasRow, MarketNext
        PROVE  FlagHasRow'
    <3>1. Offices
      BY <2>1, MarketOffices
    <3> QED
      BY <2>1, <3>1 DEF Offices, OfficeKept, FlagHasRow
  <2>2. ASSUME FlagHasRow, UNCHANGED marketVars
        PROVE  FlagHasRow'
    BY <2>2 DEF marketVars, vars, catalogVars, FlagHasRow
  <2> QED
    BY <2>1, <2>2
<1> QED
  BY <1>1, <1>2, MarketTypeCorrect, PTL DEF MarketSpec

-----------------------------------------------------------------------------
(* Types, with registration and votes. *)

\* What is inductive: the market's tables, and those of this module.
ReviewersBase == ReviewersTypeOK /\ ProductsExist

\* A user who registers has a proper row.
LEMMA AddUserType ==
  ASSUME ReviewersTypeOK, NEW uid \in Uid, NEW referrer \in Uid \cup {NoUid}
  PROVE  AddUser(uid, referrer) \in [Uid -> UserRow]
<1>1. NewUser(uid, referrer) \in UserRow
  BY CatalogAssumption DEF NewUser, UserRow
<1> QED
  BY <1>1 DEF AddUser, ReviewersTypeOK, MarketTypeOK, TypeOK, CatalogTypeOK, CreditTypeOK

\* Voting sets nothing but the flag.
LEMMA SetFlagType ==
  ASSUME ReviewersTypeOK, NEW uid \in Uid, NEW flag \in BOOLEAN
  PROVE  /\ SetFlag(uid, flag) \in [Uid -> UserRow]
         /\ SetFlag(uid, flag)[uid].is_reviewer = flag
         /\ \A u \in Uid \ {uid} : SetFlag(uid, flag)[u] = users[u]
<1>1. users \in [Uid -> UserRow] /\ users[uid] \in UserRow
  BY DEF ReviewersTypeOK, MarketTypeOK, TypeOK, CatalogTypeOK, CreditTypeOK
<1>2. [users[uid] EXCEPT !.is_reviewer = flag] \in UserRow
  BY <1>1 DEF UserRow
<1>3. [users[uid] EXCEPT !.is_reviewer = flag].is_reviewer = flag
  BY <1>1 DEF UserRow
<1>4. SetFlag(uid, flag) = [users EXCEPT ![uid] = [users[uid] EXCEPT !.is_reviewer = flag]]
  BY DEF SetFlag
<1> QED
  BY <1>1, <1>2, <1>3, <1>4, Zenon

\* A step that leaves the trade alone and keeps the catalog's types keeps the
\* market's.
LEMMA MarketTypeKept ==
  ASSUME ReviewersBase, users' \in [Uid -> UserRow], reviewers' \subseteq Uid,
         pools' \in [transaction : Nat, salary : Nat], minted' \in Nat,
         UNCHANGED <<products, audits, tradeVars, arbs>>
  PROVE  MarketBase'
BY DEF ReviewersBase, ReviewersTypeOK, MarketBase, MarketTypeOK, TypeOK, CatalogTypeOK,
       CreditTypeOK, TradeTypeOK, ProductsExist, Placed, tradeVars

\* Registration keeps the types: the referral pool pays only what it has.
LEMMA ReguserType ==
  ASSUME ReviewersBase, NEW uid \in Uid, NEW referrer \in Uid \cup {NoUid},
         reguser(uid, referrer)
  PROVE  ReviewersBase'
<1> USE DEF ReviewersBase
<1>1. /\ reviewers \subseteq Uid /\ minted \in Nat
      /\ pools \in [transaction : Nat, salary : Nat]
  BY DEF ReviewersTypeOK, MarketTypeOK, TypeOK, CatalogTypeOK, CreditTypeOK
<1>2. /\ users' \in [Uid -> UserRow] /\ minted' \in Nat
      /\ referral_total' \in [Uid -> Nat] /\ ref_pool' \in Nat
  <2>1. CASE regReferred(uid, referrer)
    <3>1. referrer \in Uid
      BY <2>1 DEF regReferred, ReviewersTypeOK
    <3>2. ReferralGift \in Nat /\ ReferralGift <= ref_pool
      BY ReviewersAssumption DEF ReferralGift, ReviewersTypeOK
    <3>3. AddUser(uid, referrer) \in [Uid -> UserRow]
      BY AddUserType
    <3>4. users' \in [Uid -> UserRow]
      BY <2>1, <3>1, <3>3, AddCreditType, ReviewersAssumption DEF regReferred
    <3>5. minted' \in Nat /\ ref_pool' \in Nat
      BY <1>1, <2>1, <3>2 DEF regReferred, ReviewersTypeOK
    <3>6. referral_total' \in [Uid -> Nat]
      BY <2>1, <3>1 DEF regReferred, ReviewersTypeOK
    <3> QED
      BY <3>4, <3>5, <3>6
  <2>2. CASE regUnreferred(uid, referrer)
    BY <1>1, <2>2, AddUserType DEF regUnreferred, ReviewersTypeOK
  <2> QED
    BY <2>1, <2>2 DEF reguser
<1>3. MarketBase'
  BY <1>1, <1>2, MarketTypeKept DEF reguser
<1> QED
  BY <1>2, <1>3 DEF reguser, ReviewersTypeOK, MarketBase

\* An application adds a user to the reviewers.
LEMMA AppreviewerType ==
  ASSUME ReviewersBase, NEW uid \in Uid, appreviewer(uid)
  PROVE  ReviewersBase'
<1>1. MarketBase'
  BY MarketTypeKept
     DEF appreviewer, ReviewersBase, ReviewersTypeOK, MarketTypeOK, TypeOK, CatalogTypeOK,
         CreditTypeOK
<1> QED
  BY <1>1 DEF appreviewer, ReviewersBase, ReviewersTypeOK, MarketBase

\* The row of a candidate after a vote.
LEMMA VoteBallot ==
  ASSUME ReviewersTypeOK, NEW voter \in Uid, NEW uid \in Uid,
         voteFor(voter, uid) \/ voteAgainst(voter, uid)
  PROVE  /\ ballots' \in [Uid -> Ballot]
         /\ \A u \in Uid \ {uid} : ballots'[u] = ballots[u]
         /\ voteFor(voter, uid) =>
              /\ ballots'[uid].voted_count = ballots[uid].voted_count + 1
              /\ ballots'[uid].voter_approve = ballots[uid].voter_approve \cup {voter}
              /\ ballots'[uid].voter_against = ballots[uid].voter_against
         /\ voteAgainst(voter, uid) =>
              /\ ballots'[uid].voted_count = ballots[uid].voted_count - 1
              /\ ballots'[uid].voter_approve = ballots[uid].voter_approve
              /\ ballots'[uid].voter_against = ballots[uid].voter_against \cup {voter}
<1>0. ballots \in [Uid -> Ballot]
  BY DEF ReviewersTypeOK
<1>1. /\ ballots[uid] \in Ballot
      /\ ballots[uid].voted_count + 1 \in Int /\ ballots[uid].voted_count - 1 \in Int
      /\ ballots[uid].voter_approve \cup {voter} \in SUBSET Uid
      /\ ballots[uid].voter_against \cup {voter} \in SUBSET Uid
  <2>1. ballots[uid] \in Ballot
    BY <1>0
  <2>2. /\ ballots[uid].voted_count \in Int
        /\ ballots[uid].voter_approve \in SUBSET Uid
        /\ ballots[uid].voter_against \in SUBSET Uid
    BY <2>1 DEF Ballot
  <2> QED
    BY <2>1, <2>2
<1>2. CASE voteFor(voter, uid)
  <2> DEFINE b   == ballots[uid]
             n   == ballots[uid].voted_count + 1
             S   == ballots[uid].voter_approve \cup {voter}
             row == [b EXCEPT !.voted_count = n, !.voter_approve = S]
  <2>0. b \in Ballot /\ n \in Int /\ S \in SUBSET Uid
    BY <1>1
  <2>1. ballots' = [ballots EXCEPT ![uid] = row]
    BY <1>2 DEF voteFor
  <2>2. /\ row \in Ballot
        /\ row.voted_count = ballots[uid].voted_count + 1
        /\ row.voter_approve = ballots[uid].voter_approve \cup {voter}
        /\ row.voter_against = ballots[uid].voter_against
    <3> HIDE DEF b, n, S
    <3>1. /\ row \in Ballot /\ row.voted_count = n
          /\ row.voter_approve = S /\ row.voter_against = b.voter_against
      BY <2>0 DEF Ballot
    <3> QED
      BY <3>1 DEF b, n, S
  <2> HIDE DEF row
  <2>3. ballots'[uid] = row
    BY <1>0, <2>1
  <2>4. ~voteAgainst(voter, uid)
    <3> SUFFICES ASSUME voteAgainst(voter, uid)
                 PROVE  FALSE
      OBVIOUS
    <3>1. ballots'[uid].voted_count = ballots[uid].voted_count - 1
      BY <1>0, <1>1 DEF voteAgainst, Ballot
    <3> QED
      BY <1>1, <2>2, <2>3, <3>1 DEF Ballot
  <2> QED
    BY <1>0, <1>2, <2>1, <2>2, <2>3, <2>4
<1>3. CASE voteAgainst(voter, uid) /\ ~voteFor(voter, uid)
  <2> DEFINE b   == ballots[uid]
             n   == ballots[uid].voted_count - 1
             S   == ballots[uid].voter_against \cup {voter}
             row == [b EXCEPT !.voted_count = n, !.voter_against = S]
  <2>0. b \in Ballot /\ n \in Int /\ S \in SUBSET Uid
    BY <1>1
  <2>1. ballots' = [ballots EXCEPT ![uid] = row]
    BY <1>3 DEF voteAgainst
  <2>2. /\ row \in Ballot
        /\ row.voted_count = ballots[uid].voted_count - 1
        /\ row.voter_approve = ballots[uid].voter_approve
        /\ row.voter_against = ballots[uid].voter_against \cup {voter}
    <3> HIDE DEF b, n, S
    <3>1. /\ row \in Ballot /\ row.voted_count = n
          /\ row.voter_approve = b.voter_approve /\ row.voter_against = S
      BY <2>0 DEF Ballot
    <3> QED
      BY <3>1 DEF b, n, S
  <2> HIDE DEF row
  <2>3. ballots'[uid] = row
    BY <1>0, <2>1
  <2> QED
    BY <1>0, <1>3, <2>1, <2>2, <2>3
<1> QED
  BY <1>2, <1>3

\* A vote keeps the types: the transaction pool pays only what it has.
LEMMA VotereviewerType ==
  ASSUME ReviewersBase, NEW voter \in Uid, NEW uid \in Uid, votereviewer(voter, uid)
  PROVE  ReviewersBase'
<1> USE DEF ReviewersBase
<1>1. /\ reviewers \subseteq Uid /\ minted \in Nat /\ users \in [Uid -> UserRow]
      /\ pools \in [transaction : Nat, salary : Nat]
  BY DEF ReviewersTypeOK, MarketTypeOK, TypeOK, CatalogTypeOK, CreditTypeOK
<1>2. VoteGift \in Nat /\ VoteGift <= pools.transaction
  BY <1>1, ReviewersAssumption DEF VoteGift
<1>3. users' \in [Uid -> UserRow]
  BY <1>1, SetFlagType DEF votereviewer, voteFor, voteAgainst
<1>4. MarketBase'
  BY <1>1, <1>2, <1>3, MarketTypeKept DEF votereviewer
<1>5. ballots' \in [Uid -> Ballot]
  BY VoteBallot DEF votereviewer
<1> QED
  BY <1>4, <1>5 DEF votereviewer, ReviewersTypeOK, MarketBase

\* Whatever registers, applies, votes, sells and disputes, the tables hold what
\* their types say, the pool of the referrals included.
LEMMA ReviewersStepType ==
  ASSUME ReviewersBase, ReviewersNext
  PROVE  ReviewersBase'
<1>1. CASE MarketNext /\ DropBallots
  <2>1. MarketBase
    BY DEF ReviewersBase, ReviewersTypeOK, MarketBase
  <2>2. MarketBase'
    BY <1>1, <2>1, MarketStepType
  <2>3. ballots' \in [Uid -> Ballot]
    BY <1>1 DEF DropBallots, ReviewersBase, ReviewersTypeOK, Ballot, NoBallot
  <2> QED
    BY <1>1, <2>2, <2>3 DEF DropBallots, ReviewersBase, ReviewersTypeOK, MarketBase
<1> QED
  BY <1>1, ReguserType, AppreviewerType, VotereviewerType DEF ReviewersNext

\* Nobody is registered.
LEMMA ReviewersInitType == ReviewersInit => ReviewersBase
<1> SUFFICES ASSUME ReviewersInit
             PROVE  ReviewersBase
  OBVIOUS
<1>1. CatalogTypeOK
  <2>1. NoUser \in UserRow
    BY CreditAssumption DEF NoUser, UserRow
  <2> QED
    BY <2>1, CatalogAssumption DEF ReviewersInit, ListingInit, CatalogTypeOK, CreditTypeOK
<1>2. TradeTypeOK
  BY TradeAssumption DEF ReviewersInit, TradeInit, TradeTypeOK
<1>3. ProductsExist
  BY DEF ReviewersInit, TradeInit, ProductsExist, Placed, NoOrder
<1>4. ref_pool \in Nat /\ referral_total \in [Uid -> Nat] /\ ballots \in [Uid -> Ballot]
  BY ReviewersAssumption DEF ReviewersInit, Ballot, NoBallot
<1> QED
  BY <1>1, <1>2, <1>3, <1>4
     DEF ReviewersInit, ReviewersBase, ReviewersTypeOK, MarketTypeOK, TypeOK

\* Nothing but UNCHANGED.
LEMMA ReviewersStutter == ReviewersBase /\ UNCHANGED reviewerVars => ReviewersBase'
<1> SUFFICES ASSUME ReviewersBase, UNCHANGED reviewerVars
             PROVE  ReviewersBase'
  OBVIOUS
<1>1. MarketBase /\ UNCHANGED marketVars
  BY DEF ReviewersBase, ReviewersTypeOK, MarketBase, reviewerVars
<1>2. MarketBase'
  BY <1>1, MarketStutter
<1> QED
  BY <1>2 DEF ReviewersBase, ReviewersTypeOK, MarketBase, reviewerVars

\* From a table without users on, the tables hold what their types say.
THEOREM ReviewersTypeCorrect == ReviewersSpec => []ReviewersTypeOK
<1>1. ReviewersBase => ReviewersTypeOK
  BY DEF ReviewersBase
<1> QED
  BY <1>1, ReviewersInitType, ReviewersStepType, ReviewersStutter, PTL DEF ReviewersSpec

-----------------------------------------------------------------------------
(* Flags and votes. *)

\* Registration gives nobody the flag and takes nobody's row.
LEMMA ReguserOffices ==
  ASSUME ReviewersTypeOK, NEW uid \in Uid, NEW referrer \in Uid \cup {NoUid},
         reguser(uid, referrer)
  PROVE  /\ \A u \in Uid : users'[u].is_reviewer => users[u].is_reviewer
         /\ \A u \in registered : users'[u].referrer = users[u].referrer
         /\ users'[uid].referrer = IF regReferred(uid, referrer) THEN referrer ELSE NoUid
<1> DEFINE us(r) == AddUser(uid, r)
<1>1. \A r : /\ ~us(r)[uid].is_reviewer /\ us(r)[uid].referrer = r
              /\ \A u \in Uid \ {uid} : us(r)[u] = users[u]
  BY DEF AddUser, NewUser, ReviewersTypeOK, MarketTypeOK, TypeOK, CatalogTypeOK, CreditTypeOK
<1>2. registered \subseteq Uid \ {uid}
  BY ReviewersAssumption DEF reguser, IsNextId, ReviewersTypeOK
<1>3. CASE regReferred(uid, referrer)
  <2>1. referrer \in Uid /\ users' = AddCredit(us(referrer), referrer, RefCredit)
    BY <1>3 DEF regReferred, ReviewersTypeOK
  <2>2. us(referrer) \in [Uid -> UserRow]
    BY <2>1, AddUserType
  <2> HIDE DEF us
  <2>3. OfficeKept(us(referrer), users')
    BY <2>1, <2>2, AddCreditOffice
  <2>4. \A u \in Uid : us(referrer)[u].is_reviewer => users[u].is_reviewer
    BY <1>1, Zenon
  <2>5. \A u \in registered : us(referrer)[u].referrer = users[u].referrer
    BY <1>1, <1>2
  <2>6. \A u \in Uid : users'[u].is_reviewer => users[u].is_reviewer
    BY <2>3, <2>4 DEF OfficeKept
  <2>7. \A u \in registered : users'[u].referrer = users[u].referrer
    BY <1>2, <2>3, <2>5 DEF OfficeKept
  <2>8. users'[uid].referrer = referrer
    BY <1>1, <2>3 DEF OfficeKept
  <2> QED
    BY <1>3, <2>6, <2>7, <2>8
<1>4. CASE regUnreferred(uid, referrer) /\ ~regReferred(uid, referrer)
  <2>1. users' = us(NoUid)
    BY <1>4 DEF regUnreferred
  <2> HIDE DEF us
  <2>2. \A u \in Uid : us(NoUid)[u].is_reviewer => users[u].is_reviewer
    BY <1>1, Zenon
  <2>3. /\ \A u \in registered : us(NoUid)[u].referrer = users[u].referrer
        /\ us(NoUid)[uid].referrer = NoUid
    BY <1>1, <1>2
  <2> QED
    BY <1>4, <2>1, <2>2, <2>3
<1> QED
  BY <1>3, <1>4 DEF reguser

\* A row that is there after a step of the market was there before, with the
\* same votes.
LEMMA MarketStepBallots ==
  ASSUME ReviewersTypeOK, MarketNext, DropBallots
  PROVE  /\ Offices
         /\ \A u \in Uid : ballots'[u] = IF u \in reviewers' THEN ballots[u] ELSE NoBallot
         /\ reviewers' \subseteq reviewers /\ reviewers \subseteq Uid
<1>1. Offices
  BY MarketOffices DEF ReviewersTypeOK
<1> QED
  BY <1>1 DEF DropBallots, Offices, ReviewersTypeOK, MarketTypeOK, TypeOK, CatalogTypeOK,
              CreditTypeOK

\* No step leaves the flag with somebody the votes are not for.
LEMMA FlagStep ==
  ASSUME ReviewersTypeOK, FlagIsVotedFor, ReviewersNext
  PROVE  FlagIsVotedFor'
<1> USE DEF FlagIsVotedFor
<1>1. ASSUME NEW uid \in Uid, NEW referrer \in Uid \cup {NoUid}, reguser(uid, referrer)
      PROVE  FlagIsVotedFor'
  <2>1. UNCHANGED <<reviewers, ballots>>
    BY <1>1 DEF reguser
  <2>2. \A u \in Uid : users'[u].is_reviewer => users[u].is_reviewer
    BY <1>1, ReguserOffices
  <2> QED
    BY <2>1, <2>2
<1>2. ASSUME NEW uid \in Uid, appreviewer(uid)
      PROVE  FlagIsVotedFor'
  BY <1>2 DEF appreviewer
<1>3. ASSUME NEW voter \in Uid, NEW uid \in Uid, votereviewer(voter, uid)
      PROVE  FlagIsVotedFor'
  <2>1. uid \in reviewers /\ UNCHANGED reviewers
    BY <1>3 DEF votereviewer
  <2>2. ballots[uid].voted_count \in Int
    BY DEF ReviewersTypeOK, Ballot
  <2>3. CASE voteFor(voter, uid)
    <3>1. /\ ballots'[uid].voted_count = ballots[uid].voted_count + 1
          /\ \A u \in Uid \ {uid} : ballots'[u] = ballots[u]
      BY <2>3, VoteBallot
    <3>2. CASE ballots[uid].voted_count = 0
      <4>1. users' = SetFlag(uid, TRUE)
        BY <2>3, <3>2 DEF voteFor
      <4>2. \A u \in Uid \ {uid} : users'[u] = users[u]
        BY <4>1, SetFlagType
      <4> QED
        BY <2>1, <3>1, <3>2, <4>2
    <3>3. CASE ballots[uid].voted_count # 0
      <4>1. users' = users
        BY <2>3, <3>3 DEF voteFor
      <4>2. ballots[uid].voted_count > 0 => ballots'[uid].voted_count > 0
        BY <2>2, <3>1, <3>3
      <4> QED
        BY <2>1, <3>1, <4>1, <4>2, Zenon
    <3> QED
      BY <3>2, <3>3
  <2>4. CASE voteAgainst(voter, uid)
    <3>1. /\ ballots'[uid].voted_count = ballots[uid].voted_count - 1
          /\ \A u \in Uid \ {uid} : ballots'[u] = ballots[u]
      BY <2>4, VoteBallot
    <3>2. CASE ballots[uid].voted_count = 1
      <4>1. users' = SetFlag(uid, FALSE)
        BY <2>4, <3>2 DEF voteAgainst
      <4>2. /\ \A u \in Uid \ {uid} : users'[u] = users[u]
            /\ ~users'[uid].is_reviewer
        <5>1. /\ \A u \in Uid \ {uid} : SetFlag(uid, FALSE)[u] = users[u]
              /\ SetFlag(uid, FALSE)[uid].is_reviewer = FALSE
          BY SetFlagType
        <5> QED
          BY <4>1, <5>1
      <4> QED
        BY <2>1, <3>1, <4>2
    <3>3. CASE ballots[uid].voted_count # 1
      <4>1. users' = users
        BY <2>4, <3>3 DEF voteAgainst
      <4>2. ballots[uid].voted_count > 0 => ballots'[uid].voted_count > 0
        BY <2>2, <3>1, <3>3
      <4> QED
        BY <2>1, <3>1, <4>1, <4>2, Zenon
    <3> QED
      BY <3>2, <3>3
  <2> QED
    BY <1>3, <2>3, <2>4 DEF votereviewer
<1>4. CASE MarketNext /\ DropBallots
  <2> SUFFICES ASSUME NEW u \in Uid, users'[u].is_reviewer
               PROVE  u \in reviewers' /\ ballots'[u].voted_count > 0
    BY Zenon
  <2>1. users[u].is_reviewer /\ (u \in reviewers => u \in reviewers')
    BY <1>4, MarketStepBallots DEF Offices, OfficeKept
  <2> QED
    BY <1>4, <2>1, MarketStepBallots
<1> QED
  BY <1>1, <1>2, <1>3, <1>4 DEF ReviewersNext

\* However users vote, lose credit, are dismissed and apply again: whoever has
\* the flag has a row, and more votes for than against.
THEOREM FlagNeedsVotes == ReviewersSpec => []FlagIsVotedFor
<1>1. ReviewersInit => FlagIsVotedFor
  BY DEF ReviewersInit, NoUser, FlagIsVotedFor
<1>2. FlagIsVotedFor /\ UNCHANGED reviewerVars => FlagIsVotedFor'
  BY DEF FlagIsVotedFor, reviewerVars, marketVars, vars, catalogVars
<1> QED
  BY <1>1, <1>2, FlagStep, ReviewersTypeCorrect, PTL DEF ReviewersSpec

-----------------------------------------------------------------------------
(* Votes are counted right. *)

\* The users are finitely many.
LEMMA UidsFinite ==
  ASSUME NEW S \in SUBSET Uid
  PROVE  IsFiniteSet(S) /\ Cardinality(S) \in Nat
<1>1. IsFiniteSet(1..MaxUid)
  BY ReviewersAssumption, FS_Interval
<1> QED
  BY <1>1, ReviewersAssumption, FS_Subset, FS_CardinalityType

\* Every step keeps count and lists of the votes in agreement.
LEMMA BallotsStep ==
  ASSUME ReviewersTypeOK, BallotsAreExact, ReviewersNext
  PROVE  BallotsAreExact'
<1> USE DEF BallotsAreExact
<1>1. ASSUME NEW uid \in Uid, NEW referrer \in Uid \cup {NoUid}, reguser(uid, referrer)
      PROVE  BallotsAreExact'
  BY <1>1 DEF reguser
<1>2. ASSUME NEW uid \in Uid, appreviewer(uid)
      PROVE  BallotsAreExact'
  BY <1>2 DEF appreviewer
<1>3. ASSUME NEW voter \in Uid, NEW uid \in Uid, votereviewer(voter, uid)
      PROVE  BallotsAreExact'
  <2>1. /\ uid \in reviewers /\ UNCHANGED reviewers /\ voter # uid
        /\ voter \notin ballots[uid].voter_approve \cup ballots[uid].voter_against
    BY <1>3 DEF votereviewer, HasVoted
  <2>2. ballots[uid] \in Ballot
    BY DEF ReviewersTypeOK
  <2> DEFINE for == ballots[uid].voter_approve
             against == ballots[uid].voter_against
  <2>3. for \in SUBSET Uid /\ against \in SUBSET Uid
    BY <2>2 DEF Ballot
  <2>4. /\ Cardinality(for) \in Nat /\ Cardinality(against) \in Nat
        /\ Cardinality(for \cup {voter}) = Cardinality(for) + 1
        /\ Cardinality(against \cup {voter}) = Cardinality(against) + 1
    BY <2>1, <2>3, UidsFinite, FS_AddElement
  <2>5. /\ ballots[uid].voted_count = Cardinality(for) - Cardinality(against)
        /\ for \cap against = {} /\ uid \notin for \cup against
    OBVIOUS
  <2>6. \A u \in Uid \ {uid} : ballots'[u] = ballots[u]
    BY <1>3, VoteBallot DEF votereviewer
  <2>7. LET b == ballots'[uid] IN
        /\ b.voted_count = Cardinality(b.voter_approve) - Cardinality(b.voter_against)
        /\ b.voter_approve \cap b.voter_against = {}
        /\ uid \notin b.voter_approve \cup b.voter_against
    <3>1. CASE voteFor(voter, uid)
      <4>1. /\ ballots'[uid].voted_count = ballots[uid].voted_count + 1
            /\ ballots'[uid].voter_approve = for \cup {voter}
            /\ ballots'[uid].voter_against = against
        BY <3>1, VoteBallot
      <4> QED
        BY <2>1, <2>4, <2>5, <4>1
    <3>2. CASE voteAgainst(voter, uid)
      <4>1. /\ ballots'[uid].voted_count = ballots[uid].voted_count - 1
            /\ ballots'[uid].voter_approve = for
            /\ ballots'[uid].voter_against = against \cup {voter}
        BY <3>2, VoteBallot
      <4> QED
        BY <2>1, <2>4, <2>5, <4>1
    <3> QED
      BY <1>3, <3>1, <3>2 DEF votereviewer
  <2> QED
    BY <2>1, <2>6, <2>7
<1>4. CASE MarketNext /\ DropBallots
  <2>1. /\ \A u \in Uid : ballots'[u] = IF u \in reviewers' THEN ballots[u] ELSE NoBallot
        /\ reviewers' \subseteq reviewers
    BY <1>4, MarketStepBallots
  <2>2. /\ NoBallot.voted_count = Cardinality(NoBallot.voter_approve)
                                   - Cardinality(NoBallot.voter_against)
        /\ NoBallot.voter_approve = {} /\ NoBallot.voter_against = {}
    BY FS_EmptySet DEF NoBallot
  <2> QED
    BY <2>1, <2>2
<1> QED
  BY <1>1, <1>2, <1>3, <1>4 DEF ReviewersNext

\* The count of a row is the difference of its two lists, on which nobody is
\* twice: the flag of FlagNeedsVotes stands for a majority of distinct users.
THEOREM BallotsCount == ReviewersSpec => []BallotsAreExact
<1>1. ReviewersInit => BallotsAreExact
  <2>1. /\ NoBallot.voter_approve = {} /\ NoBallot.voter_against = {}
        /\ NoBallot.voted_count = Cardinality({}) - Cardinality({})
    BY FS_EmptySet DEF NoBallot
  <2> QED
    BY <2>1 DEF ReviewersInit, BallotsAreExact
<1>2. BallotsAreExact /\ UNCHANGED reviewerVars => BallotsAreExact'
  BY DEF BallotsAreExact, reviewerVars, marketVars, vars, catalogVars
<1> QED
  BY <1>1, <1>2, BallotsStep, ReviewersTypeCorrect, PTL DEF ReviewersSpec

-----------------------------------------------------------------------------
(* Referrals. *)

Newcomers == {v \in registered : users[v].referrer # NoUid}

\* Registration counts a referral for the referrer, who was there before.
LEMMA ReferralStep ==
  ASSUME ReviewersTypeOK, ReferralsAreExact, NEW uid \in Uid,
         NEW referrer \in Uid \cup {NoUid}, reguser(uid, referrer)
  PROVE  ReferralsAreExact'
<1>1. /\ registered \subseteq Uid /\ Uid \subseteq Int /\ NoUid \notin Uid
      /\ registered' = registered \cup {uid} /\ \A v \in registered : v < uid
  BY ReviewersAssumption, CreditAssumption DEF reguser, IsNextId, ReviewersTypeOK
<1>2. uid \notin registered
  BY <1>1
<1>3. /\ \A v \in registered : users'[v].referrer = users[v].referrer
      /\ users'[uid].referrer = IF regReferred(uid, referrer) THEN referrer ELSE NoUid
  BY ReguserOffices
<1>4. \A u \in Uid : /\ referral_total[u] = Cardinality(Referred(u))
                      /\ \A v \in Referred(u) : u < v
  BY DEF ReferralsAreExact
<1>5. RefPool - ref_pool <= RefGift * Cardinality(Newcomers)
  BY DEF ReferralsAreExact, Newcomers
<1>6. /\ ref_pool \in Nat /\ referral_total \in [Uid -> Nat]
      /\ RefPool \in Nat /\ RefGift \in Nat
  BY ReviewersAssumption DEF ReviewersTypeOK
<1>7. CASE regReferred(uid, referrer)
  <2>1. referrer \in registered /\ referrer \in Uid /\ referrer # NoUid
    BY <1>1, <1>7 DEF regReferred
  <2>2. \A u \in Uid : Referred(u)' = IF u = referrer THEN Referred(u) \cup {uid}
                                       ELSE Referred(u)
    BY <1>1, <1>2, <1>3, <1>7 DEF Referred
  <2>3. \A u \in Uid : IsFiniteSet(Referred(u)) /\ uid \notin Referred(u)
    BY <1>1, <1>2, UidsFinite DEF Referred
  <2>4. \A u \in Uid : referral_total'[u] = Cardinality(Referred(u)')
    BY <1>4, <1>6, <1>7, <2>1, <2>2, <2>3, FS_AddElement DEF regReferred
  <2>5. \A u \in Uid : \A v \in Referred(u)' : u < v
    BY <1>1, <1>4, <2>1, <2>2
  <2>6. Newcomers' = Newcomers \cup {uid}
    BY <1>1, <1>2, <1>3, <1>7, <2>1 DEF Newcomers
  <2>7. Cardinality(Newcomers) \in Nat /\ Cardinality(Newcomers') = Cardinality(Newcomers) + 1
    BY <1>1, <1>2, <2>6, UidsFinite, FS_AddElement DEF Newcomers
  <2>8. RefPool - ref_pool' <= RefGift * Cardinality(Newcomers')
    <3> DEFINE n == Cardinality(Newcomers)
    <3>1. ref_pool' = ref_pool - ReferralGift /\ ReferralGift \in Nat /\ ReferralGift <= RefGift
      BY <1>6, <1>7 DEF regReferred, ReferralGift
    <3>2. n \in Nat /\ Cardinality(Newcomers') = n + 1 /\ RefPool - ref_pool <= RefGift * n
      BY <1>5, <2>7
    <3> HIDE DEF n
    <3>3. RefGift * (n + 1) = RefGift * n + RefGift /\ RefGift * n \in Int
      BY <1>6, <3>2
    <3> QED
      BY <1>6, <3>1, <3>2, <3>3
  <2> QED
    BY <2>4, <2>5, <2>8 DEF ReferralsAreExact, Newcomers
<1>8. CASE regUnreferred(uid, referrer) /\ ~regReferred(uid, referrer)
  <2>1. \A u \in Uid : Referred(u)' = Referred(u)
    BY <1>1, <1>3, <1>8 DEF Referred
  <2>2. Newcomers' = Newcomers
    BY <1>1, <1>3, <1>8 DEF Newcomers
  <2>3. UNCHANGED <<referral_total, ref_pool>>
    BY <1>8 DEF regUnreferred
  <2>4. RefPool - ref_pool' <= RefGift * Cardinality(Newcomers')
    BY <1>5, <2>2, <2>3
  <2>5. \A u \in Uid : /\ referral_total'[u] = Cardinality(Referred(u)')
                        /\ \A v \in Referred(u)' : u < v
    BY <1>4, <2>1, <2>3
  <2> QED
    BY <2>4, <2>5 DEF ReferralsAreExact, Newcomers
<1> QED
  BY <1>7, <1>8 DEF reguser

\* Nothing but a registration makes or forgets a referral.
LEMMA ReferralFrame ==
  ASSUME ReferralsAreExact, UNCHANGED <<registered, referral_total, ref_pool>>,
         registered \subseteq Uid,
         \A u \in Uid : users'[u].referrer = users[u].referrer
  PROVE  ReferralsAreExact'
<1>1. \A u \in Uid : Referred(u)' = Referred(u)
  BY DEF Referred
<1>2. Newcomers' = Newcomers
  BY DEF Newcomers
<1> QED
  BY <1>1, <1>2 DEF ReferralsAreExact, Newcomers

\* Every user knows exactly how many he referred, nobody referred himself or an
\* older user, and the pool has paid at most once for each.
THEOREM ReferralsCount == ReviewersSpec => []ReferralsAreExact
<1>1. ReviewersInit => ReferralsAreExact
  <2> SUFFICES ASSUME ReviewersInit
               PROVE  ReferralsAreExact
    OBVIOUS
  <2>1. /\ registered = {} /\ ref_pool = RefPool /\ \A u \in Uid : referral_total[u] = 0
    BY DEF ReviewersInit
  <2>2. /\ \A u \in Uid : Referred(u) = {}
        /\ {v \in registered : users[v].referrer # NoUid} = {}
    BY <2>1 DEF Referred
  <2> QED
    BY <2>1, <2>2, FS_EmptySet, ReviewersAssumption DEF ReferralsAreExact
<1>2. ReviewersTypeOK /\ ReferralsAreExact /\ [ReviewersNext]_reviewerVars
        => ReferralsAreExact'
  <2> SUFFICES ASSUME ReviewersTypeOK, ReferralsAreExact, [ReviewersNext]_reviewerVars
               PROVE  ReferralsAreExact'
    OBVIOUS
  <2>1. registered \subseteq Uid
    BY DEF ReviewersTypeOK
  <2>2. ASSUME NEW voter \in Uid, NEW uid \in Uid, votereviewer(voter, uid)
        PROVE  \A u \in Uid : users'[u].referrer = users[u].referrer
    <3>1. users \in [Uid -> UserRow]
      BY DEF ReviewersTypeOK, MarketTypeOK, TypeOK, CatalogTypeOK, CreditTypeOK
    <3>2. \A flag : \A u \in Uid : SetFlag(uid, flag)[u].referrer = users[u].referrer
      BY <3>1 DEF SetFlag, UserRow
    <3> QED
      BY <2>2, <3>2 DEF votereviewer, voteFor, voteAgainst
  <2>3. CASE MarketNext /\ DropBallots
    BY <2>1, <2>3, MarketStepBallots, ReferralFrame DEF DropBallots, Offices, OfficeKept
  <2>4. ASSUME NEW uid \in Uid, appreviewer(uid)
        PROVE  ReferralsAreExact'
    BY <2>1, <2>4, ReferralFrame DEF appreviewer
  <2>5. ASSUME NEW voter \in Uid, NEW uid \in Uid, votereviewer(voter, uid)
        PROVE  ReferralsAreExact'
    BY <2>1, <2>2, <2>5, ReferralFrame DEF votereviewer
  <2>6. CASE UNCHANGED reviewerVars
    BY <2>1, <2>6, ReferralFrame DEF reviewerVars, marketVars, vars, catalogVars
  <2> QED
    BY <2>3, <2>4, <2>5, <2>6, ReferralStep DEF ReviewersNext
<1> QED
  BY <1>1, <1>2, ReviewersTypeCorrect, PTL DEF ReviewersSpec

-----------------------------------------------------------------------------
(* The pools. *)

\* The pool of the referrals pays what the registration mints, that of the
\* transactions what a vote mints, and the market's steps what MarketPoints says.
LEMMA EveryPoolStep ==
  ASSUME ReviewersBase, IsFiniteSet(deferred), EveryPoolBacked, ReviewersNext
  PROVE  IsFiniteSet(deferred)' /\ EveryPoolBacked'
<1>1. /\ pools \in [transaction : Nat, salary : Nat] /\ minted \in Nat /\ ref_pool \in Nat
      /\ TradeTypeOK
  BY DEF ReviewersBase, ReviewersTypeOK, MarketTypeOK, TypeOK, CatalogTypeOK
<1>2. Total(Gifts) \in Nat
  BY <1>1, GiftsTotal
<1>3. minted + pools.transaction + pools.salary + ref_pool + Total(Gifts) <= Mintable
  BY DEF EveryPoolBacked
<1>4. Mintable \in Nat
  BY CatalogAssumption
<1>5. UNCHANGED deferred => Total(Gifts)' = Total(Gifts)
  BY DEF Total, Gifts
<1>6. ASSUME NEW uid \in Uid, NEW referrer \in Uid \cup {NoUid}, reguser(uid, referrer)
      PROVE  IsFiniteSet(deferred)' /\ EveryPoolBacked'
  <2>1. UNCHANGED <<pools, deferred>>
    BY <1>6 DEF reguser, tradeVars
  <2>2. ReferralGift \in 0..ref_pool
    BY <1>1, ReviewersAssumption DEF ReferralGift
  <2>3. CASE regReferred(uid, referrer)
    BY <1>1, <1>2, <1>3, <1>4, <1>5, <2>1, <2>2, <2>3 DEF regReferred, EveryPoolBacked
  <2>4. CASE regUnreferred(uid, referrer)
    BY <1>3, <1>5, <2>1, <2>4 DEF regUnreferred, EveryPoolBacked
  <2> QED
    BY <1>6, <2>3, <2>4 DEF reguser
<1>7. ASSUME NEW uid \in Uid, appreviewer(uid)
      PROVE  IsFiniteSet(deferred)' /\ EveryPoolBacked'
  BY <1>3, <1>5, <1>7 DEF appreviewer, tradeVars, EveryPoolBacked
<1>8. ASSUME NEW voter \in Uid, NEW uid \in Uid, votereviewer(voter, uid)
      PROVE  IsFiniteSet(deferred)' /\ EveryPoolBacked'
  <2>1. VoteGift \in 0..pools.transaction
    BY <1>1, ReviewersAssumption DEF VoteGift
  <2>2. /\ UNCHANGED <<ref_pool, deferred>> /\ minted' = minted + VoteGift
        /\ pools' = [pools EXCEPT !.transaction = @ - VoteGift]
    BY <1>8 DEF votereviewer, tradeVars
  <2> QED
    BY <1>1, <1>2, <1>3, <1>4, <1>5, <2>1, <2>2 DEF EveryPoolBacked
<1>9. CASE MarketNext /\ DropBallots
  <2>1. MarketBase /\ MarketNext /\ UNCHANGED ref_pool
    BY <1>9 DEF DropBallots, ReviewersBase, ReviewersTypeOK, MarketBase
  <2>2. /\ IsFiniteSet(deferred)'
        /\ PointsPromised' <= PointsPromised /\ PointsPromised' \in Nat
    BY <2>1, MarketPoints
  <2>3. ReviewersBase'
    BY ReviewersStepType
  <2>4. Total(Gifts)' \in Nat
    <3>1. Gifts' \subseteq deferred' /\ deferred' \subseteq DeferredRow
      BY <2>3 DEF ReviewersBase, ReviewersTypeOK, MarketTypeOK, TypeOK, TradeTypeOK, Gifts
    <3>2. IsFiniteSet(Gifts') /\ Gifts' \subseteq DeferredRow
      BY <2>2, <3>1, FS_Subset
    <3>3. Total(Gifts') \in Nat
      BY <3>2, TotalIsSum
    <3> QED
      BY <3>3 DEF Total
  <2>5. pools' \in [transaction : Nat, salary : Nat] /\ minted' \in Nat
    BY <2>3 DEF ReviewersBase, ReviewersTypeOK, MarketTypeOK, TypeOK, CatalogTypeOK
  <2> QED
    BY <1>1, <1>2, <1>3, <1>4, <2>1, <2>2, <2>4, <2>5 DEF EveryPoolBacked, PointsPromised
<1> QED
  BY <1>6, <1>7, <1>8, <1>9 DEF ReviewersNext

\* Whoever registers, votes, reviews and buys, and however many gifts are under
\* way or lost: no pool is promised points that issue can no longer mint.
THEOREM EveryPoolStaysBacked == ReviewersSpec => []EveryPoolBacked
<1> DEFINE Inv == IsFiniteSet(deferred) /\ EveryPoolBacked
<1>1. ReviewersInit => ReviewersBase /\ Inv
  <2> SUFFICES ASSUME ReviewersInit
               PROVE  ReviewersBase /\ Inv
    OBVIOUS
  <2>1. ListingInit /\ TradeInit /\ ref_pool = RefPool
    BY DEF ReviewersInit
  <2>2. IsFiniteSet(deferred) /\ PointsPromised = TransactionPool + SalaryPool
    BY <2>1, NoGiftsYet
  <2>3. ReviewersBase
    BY ReviewersInitType
  <2>4. pools \in [transaction : Nat, salary : Nat] /\ minted \in Nat /\ Total(Gifts) \in Nat
    BY <2>2, <2>3, GiftsTotal
       DEF ReviewersBase, ReviewersTypeOK, MarketTypeOK, TypeOK, CatalogTypeOK
  <2> QED
    BY <2>1, <2>2, <2>3, <2>4, ReviewersAssumption, CatalogAssumption
       DEF EveryPoolBacked, PointsPromised
<1>2. ReviewersBase /\ Inv /\ [ReviewersNext]_reviewerVars => ReviewersBase' /\ Inv'
  <2>1. ReviewersBase /\ Inv /\ UNCHANGED reviewerVars => ReviewersBase' /\ Inv'
    <3> SUFFICES ASSUME ReviewersBase, Inv, UNCHANGED reviewerVars
                 PROVE  ReviewersBase' /\ Inv'
      OBVIOUS
    <3>1. UNCHANGED <<deferred, pools, minted, ref_pool>>
      BY DEF reviewerVars, marketVars, vars, catalogVars, tradeVars
    <3>2. Total(Gifts)' = Total(Gifts)
      BY <3>1 DEF Total, Gifts
    <3> QED
      BY <3>1, <3>2, ReviewersStutter DEF EveryPoolBacked
  <2> QED
    BY <2>1, EveryPoolStep, ReviewersStepType
<1>3. Inv => EveryPoolBacked
  OBVIOUS
<1> HIDE DEF Inv
<1> QED
  BY <1>1, <1>2, <1>3, PTL DEF ReviewersSpec
-----------------------------------------------------------------------------
(* The market as a whole: what is proved of Market holds while users       *)
(* register, apply and vote.                                               *)

\* Registrations, applications and votes touch users, points and reviewers only.
LEMMA AsideStep ==
  ASSUME AwaitedReviewersNext
  PROVE  ReviewersNext /\ (AwaitedNext \/ UNCHANGED <<products, tradeVars, arbs>>)
<1>1. ReviewersNext
  BY AwaitedIsMarket DEF AwaitedReviewersNext, ReviewersNext
<1>2. AwaitedNext \/ UNCHANGED <<products, tradeVars, arbs>>
  BY DEF AwaitedReviewersNext, reguser, appreviewer, votereviewer
<1> QED
  BY <1>1, <1>2

\* What does not touch the tables of orders, returns and cases keeps them
\* consistent with one another.
LEMMA AsideInv ==
  ASSUME MarketInv, MarketTypeOK', UNCHANGED <<products, tradeVars, arbs>>
  PROVE  MarketInv'
<1>1. UNCHANGED <<orders, proreturns, products>>
  BY DEF tradeVars
<1>2. ProductsExist'
  BY <1>1 DEF MarketInv, ProductsExist, Placed
<1>3. SalesInv'
  BY <1>1, NothingSold DEF MarketInv, SalesInv
<1> QED
  BY <1>2, <1>3 DEF MarketInv, SalesInv

\* Before anybody registers the tables are empty.
LEMMA WholeInit == ReviewersInit => MarketInv /\ Solvent /\ IsFiniteSet(deferred)
<1> SUFFICES ASSUME ReviewersInit
             PROVE  MarketInv /\ Solvent /\ IsFiniteSet(deferred)
  OBVIOUS
<1>1. MarketTypeOK /\ ProductsExist
  BY ReviewersInitType DEF ReviewersBase, ReviewersTypeOK
<1>2. /\ Placed = {} /\ \A i \in OrderId : orders[i].status = "NONE"
      /\ \A r \in ReturnId : proreturns[r].status = "NONE"
  BY DEF ReviewersInit, TradeInit, Placed, NoOrder, NoReturn
<1>3. OrderKeysOK /\ ReturnsOK /\ CancelledIsReturned
  BY <1>2 DEF OrderKeysOK, ReturnsOK, CancelledIsReturned, IsOpen
<1>4. SaleIsExclusive
  BY <1>2 DEF SaleIsExclusive, Holding
<1>5. Solvent /\ IsFiniteSet(deferred)
  BY NothingOwed, NoGiftsYet DEF ReviewersInit
<1> QED
  BY <1>1, <1>3, <1>4, <1>5 DEF MarketInv

\* Every step of the whole keeps the tables consistent and the contract solvent.
LEMMA WholeStep ==
  ASSUME ReviewersBase, MarketInv, IsFiniteSet(deferred), Solvent, AwaitedReviewersNext
  PROVE  ReviewersBase' /\ MarketInv' /\ IsFiniteSet(deferred)' /\ Solvent' /\ Kept
<1>1. ReviewersBase' /\ MarketTypeOK'
  BY ReviewersStepType, AsideStep DEF ReviewersBase, ReviewersTypeOK
<1>2. CASE AwaitedNext
  <2>1. MarketInv'
    BY <1>2, MarketStep
  <2>2. IsFiniteSet(deferred)'
    BY <1>2, MarketPoints, AwaitedIsMarket DEF MarketInv, MarketBase
  <2>3. Solvent' /\ Kept
    BY <1>2, MarketSolvent, MarketSteps
  <2> QED
    BY <1>1, <2>1, <2>2, <2>3
<1>3. CASE UNCHANGED <<products, tradeVars, arbs>>
  <2>1. MarketInv'
    BY <1>1, <1>3, AsideInv
  <2>2. IsFiniteSet(deferred)'
    BY <1>3 DEF tradeVars
  <2>3. Solvent'
    BY <1>3, StutterSolvent DEF MarketInv, MarketTypeOK, TypeOK
  <2>4. Kept
    BY <1>3, OtherStep DEF Kept, tradeVars
  <2> QED
    BY <1>1, <2>1, <2>2, <2>3, <2>4
<1> QED
  BY <1>2, <1>3, AsideStep

\* Nor does a step of somebody else change anything.
LEMMA WholeStutter ==
  ASSUME ReviewersBase, MarketInv, IsFiniteSet(deferred), Solvent, UNCHANGED reviewerVars
  PROVE  ReviewersBase' /\ MarketInv' /\ IsFiniteSet(deferred)' /\ Solvent' /\ Kept
<1>1. UNCHANGED marketVars
  BY DEF reviewerVars
<1>2. UNCHANGED tradeVars
  BY <1>1 DEF marketVars, vars, tradeVars
<1>3. ReviewersBase'
  BY ReviewersStutter
<1>4. MarketInv'
  BY <1>1, MarketStutterInv
<1>5. IsFiniteSet(deferred)' /\ Kept
  BY <1>2, OtherStep DEF Kept, tradeVars
<1>6. Solvent'
  BY <1>2, StutterSolvent DEF MarketInv, MarketTypeOK, TypeOK
<1> QED
  BY <1>3, <1>4, <1>5, <1>6

WholeInv == ReviewersBase /\ MarketInv /\ IsFiniteSet(deferred) /\ Solvent

\* Who may sell, buy, review and judge changes under way; while verdicts fall on
\* awaiting orders only, the tables of orders and returns still fit together.
THEOREM WholeIsConsistent == AwaitedReviewersSpec => []MarketInv
<1>1. ReviewersInit => WholeInv
  BY ReviewersInitType, WholeInit DEF WholeInv
<1>2. WholeInv /\ [AwaitedReviewersNext]_reviewerVars => WholeInv'
  BY WholeStep, WholeStutter DEF WholeInv
<1>3. WholeInv => MarketInv
  BY DEF WholeInv
<1> QED
  BY <1>1, <1>2, <1>3, PTL DEF AwaitedReviewersSpec

\* And the contract stays able to pay whom it owes.
THEOREM WholeIsSolvent == AwaitedReviewersSpec => []Solvent
<1>1. ReviewersInit => WholeInv
  BY ReviewersInitType, WholeInit DEF WholeInv
<1>2. WholeInv /\ [AwaitedReviewersNext]_reviewerVars => WholeInv'
  BY WholeStep, WholeStutter DEF WholeInv
<1>3. WholeInv => Solvent
  BY DEF WholeInv
<1> QED
  BY <1>1, <1>2, <1>3, PTL DEF AwaitedReviewersSpec

\* And the money of every order does what Escrow says.
THEOREM WholeKeepsEscrow == AwaitedReviewersSpec => EscrowIsKept
<1>1. ReviewersInit => WholeInv
  BY ReviewersInitType, WholeInit DEF WholeInv
<1>2. WholeInv /\ [AwaitedReviewersNext]_reviewerVars => WholeInv' /\ Kept
  BY WholeStep, WholeStutter DEF WholeInv
<1>3. Kept <=> [Promise!EscrowNext]_(Promise!escrowVars)
  BY DEF Kept
<1>4. ReviewersInit => Promise!EscrowInit
  <2> SUFFICES ASSUME ReviewersInit
               PROVE  Promise!EscrowInit
    OBVIOUS
  <2>1. /\ orders = [i \in OrderId |-> NoOrder] /\ deferred = {} /\ now = 0
        /\ income = [c \in Coin |-> 0]
    BY DEF ReviewersInit, TradeInit
  <2>2. \A i \in OrderId : Stage(orders[i].status) = "none" /\ Deal(orders[i]) = NoOrder
    BY <2>1 DEF NoOrder, Stage, Deal
  <2> QED
    BY <2>1, <2>2 DEF Promise!EscrowInit
<1> QED
  BY <1>1, <1>2, <1>3, <1>4, PTL DEF AwaitedReviewersSpec, EscrowIsKept, Promise!EscrowSpec
=============================================================================
