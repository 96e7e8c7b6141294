------------------------------ MODULE Reviewers -----------------------------
(***************************************************************************)
(* Where users and reviewers come from: reguser adds a user and rewards    *)
(* who referred him, appreviewer adds a row to the reviewers table and     *)
(* votereviewer turns it into the flag that inarbit and complaints look    *)
(* at.  The rest of the market goes on beside: a delisting takes credit    *)
(* and with it the flag, a lost complaint the flag and the row.            *)
(*                                                                         *)
(* A uid that is not registered has no row.  Every handler gets the row of *)
(* who sends it and fails without one, as it does for a locked user: the   *)
(* rows of the others are locked here.                                     *)
(***************************************************************************)
EXTENDS Market

CONSTANTS
  MaxUid,     \* bound: users ever registered
  VoteCap,    \* most entries of voter_approve and of voter_against (100)
  GiftVote,   \* _global.gift_vote
  RefGift,    \* _global.ref_sys_gift
  RefCredit,  \* credit a referral earns (1)
  RefPool     \* _global.ref_pool when the model starts

ASSUME ReviewersAssumption ==
  /\ MaxUid \in Nat /\ Uid = 1..MaxUid /\ NoUid = 0
  /\ VoteCap \in Nat
  /\ GiftVote \in Nat \ {0} /\ RefGift \in Nat \ {0} /\ RefCredit \in Nat
  /\ RefPool \in Nat
  /\ Mintable >= TransactionPool + SalaryPool + RefPool

VARIABLES
  registered,       \* the uids with a row in the users table
  referral_total,   \* of each user
  ref_pool,         \* _global.ref_pool
  ballots           \* of each uid: what its row in the reviewers table counts

reviewerVars == <<marketVars, registered, referral_total, ref_pool, ballots>>

Ballot == [voted_count : Int, voter_approve : SUBSET Uid, voter_against : SUBSET Uid]
NoBallot == [voted_count |-> 0, voter_approve |-> {}, voter_against |-> {}]

ReviewersTypeOK ==
  /\ MarketTypeOK
  /\ registered \subseteq Uid
  /\ referral_total \in [Uid -> Nat]
  /\ ref_pool \in Nat
  /\ ballots \in [Uid -> Ballot]

NoUser ==
  [credit_value |-> 0, locked |-> TRUE, is_reviewer |-> FALSE, referrer |-> NoUid,
   sell_total |-> 0, buy_total |-> 0]

ReviewersInit ==
  /\ users = [u \in Uid |-> NoUser]
  /\ reviewers = {}
  /\ ListingInit /\ TradeInit
  /\ arbs = [a \in ArbId |-> NoArb]
  /\ registered = {}
  /\ referral_total = [u \in Uid |-> 0]
  /\ ref_pool = RefPool
  /\ ballots = [u \in Uid |-> NoBallot]

-----------------------------------------------------------------------------
(* Registration. *)

NewUser(uid, referrer) ==
  [credit_value |-> Credit0[uid], locked |-> FALSE, is_reviewer |-> FALSE,
   referrer |-> referrer, sell_total |-> 0, buy_total |-> 0]

AddUser(uid, referrer) == [users EXCEPT ![uid] = NewUser(uid, referrer)]

\* Mutated: whatever is left in the pool.
ReferralGiftAlways == RefGift

\* RewardReferrer: as long as the pool has it.
ReferralGift == IF ref_pool >= RefGift THEN RefGift ELSE 0

\* Mutated: the reward is minted, the pool is not charged.
regReferredUncharged(uid, referrer) ==
  /\ referrer \in registered /\ ~IsLockUser(referrer)
  /\ users' = AddCredit(AddUser(uid, referrer), referrer, RefCredit)
  /\ referral_total' = [referral_total EXCEPT ![referrer] = @ + 1]
  /\ CanIssue(ReferralGift)
  /\ minted' = minted + ReferralGift
  /\ UNCHANGED ref_pool

\* A referrer who is not locked gets a point of credit and of the pool.
regReferred(uid, referrer) ==
  /\ referrer \in registered /\ ~IsLockUser(referrer)
  /\ users' = AddCredit(AddUser(uid, referrer), referrer, RefCredit)
  /\ referral_total' = [referral_total EXCEPT ![referrer] = @ + 1]
  /\ CanIssue(ReferralGift)
  /\ minted' = minted + ReferralGift
  /\ ref_pool' = ref_pool - ReferralGift

\* Mutated: a locked referrer is recorded.
regUnreferredKept(uid, referrer) ==
  /\ referrer = NoUid \/ (referrer \in registered /\ IsLockUser(referrer))
  /\ users' = AddUser(uid, referrer)
  /\ UNCHANGED <<minted, referral_total, ref_pool>>

\* Nobody referred the user, or somebody who is locked.
regUnreferred(uid, referrer) ==
  /\ referrer = NoUid \/ (referrer \in registered /\ IsLockUser(referrer))
  /\ users' = AddUser(uid, NoUid)
  /\ UNCHANGED <<minted, referral_total, ref_pool>>

\* The account and the phone of a user are in no other row.
reguser(uid, referrer) ==
  /\ IsNextId(uid, registered, 1)
  /\ regReferred(uid, referrer) \/ regUnreferred(uid, referrer)
  /\ registered' = registered \cup {uid}
  /\ UNCHANGED <<reviewers, products, audits, pools, tradeVars, arbs, ballots>>

-----------------------------------------------------------------------------
(* Application and votes. *)

\* CheckReviewer with is_new: the flag is not asked for.
appreviewer(uid) ==
  /\ ~IsLockUser(uid)
  /\ users[uid].credit_value >= CreditLimit
  /\ uid \notin reviewers
  /\ reviewers' = reviewers \cup {uid}
  /\ UNCHANGED <<users, products, audits, pools, minted, tradeVars, arbs,
                 registered, referral_total, ref_pool, ballots>>

\* Mutated: only the list of the side voted for.
HasVotedBefore(voter, uid) == voter \in ballots[uid].voter_approve

HasVoted(voter, uid) ==
  voter \in ballots[uid].voter_approve \cup ballots[uid].voter_against

SetFlag(uid, flag) == [users EXCEPT ![uid].is_reviewer = flag]

\* The flag comes with the vote that leaves zero ...
voteFor(voter, uid) ==
  /\ Cardinality(ballots[uid].voter_approve) < VoteCap
  /\ users' = IF ballots[uid].voted_count = 0 THEN SetFlag(uid, TRUE) ELSE users
  /\ ballots' = [ballots EXCEPT ![uid].voted_count = @ + 1,
                                ![uid].voter_approve = @ \cup {voter}]

\* Mutated: goes when the count turns negative.
voteAgainstLate(voter, uid) ==
  /\ Cardinality(ballots[uid].voter_against) < VoteCap
  /\ users' = IF ballots[uid].voted_count = 0 THEN SetFlag(uid, FALSE) ELSE users
  /\ ballots' = [ballots EXCEPT ![uid].voted_count = @ - 1,
                                ![uid].voter_against = @ \cup {voter}]

\* ... and goes with the vote that comes back to it.
voteAgainst(voter, uid) ==
  /\ Cardinality(ballots[uid].voter_against) < VoteCap
  /\ users' = IF ballots[uid].voted_count = 1 THEN SetFlag(uid, FALSE) ELSE users
  /\ ballots' = [ballots EXCEPT ![uid].voted_count = @ - 1,
                                ![uid].voter_against = @ \cup {voter}]

VoteGift == IF pools.transaction >= GiftVote THEN GiftVote ELSE 0

\* Neither the credit of the reviewer nor his lock is looked at.
votereviewer(voter, uid) ==
  /\ ~IsLockUser(voter)
  /\ voter # uid
  /\ uid \in reviewers
  /\ ~HasVoted(voter, uid)
  /\ voteFor(voter, uid) \/ voteAgainst(voter, uid)
  /\ CanIssue(VoteGift)
  /\ minted' = minted + VoteGift
  /\ pools' = [pools EXCEPT !.transaction = @ - VoteGift]
  /\ UNCHANGED <<reviewers, products, audits, tradeVars, arbs,
                 registered, referral_total, ref_pool>>

\* The parties of a case have rows, and a row of reviewers that goes takes its
\* votes along.
DropBallots ==
  /\ \A a \in ArbId : arbs'[a].status # "NONE" =>
       {arbs'[a].plaintiff, arbs'[a].defendant} \subseteq registered
  /\ ballots' = [u \in Uid |-> IF u \in reviewers' THEN ballots[u] ELSE NoBallot]
  /\ UNCHANGED <<registered, referral_total, ref_pool>>

ReviewersNext ==
  \/ \E uid \in Uid, referrer \in Uid \cup {NoUid} : reguser(uid, referrer)
  \/ \E uid \in Uid : appreviewer(uid)
  \/ \E voter, uid \in Uid : votereviewer(voter, uid)
  \/ MarketNext /\ DropBallots

ReviewersSpec == ReviewersInit /\ [][ReviewersNext]_reviewerVars

\* Beside the market of a platform that signs as AwaitedSpec assumes.
AwaitedReviewersNext ==
  \/ \E uid \in Uid, referrer \in Uid \cup {NoUid} : reguser(uid, referrer)
  \/ \E uid \in Uid : appreviewer(uid)
  \/ \E voter, uid \in Uid : votereviewer(voter, uid)
  \/ AwaitedNext /\ DropBallots

AwaitedReviewersSpec == ReviewersInit /\ [][AwaitedReviewersNext]_reviewerVars

-----------------------------------------------------------------------------
(* Properties. *)

\* Whoever has the flag has a row with more votes for than against, whatever
\* the order of votes, penalties, dismissals and new applications.
FlagIsVotedFor ==
  \A u \in Uid : users[u].is_reviewer =>
    u \in reviewers /\ ballots[u].voted_count > 0

\* voted_count is the difference of the two lists; nobody is on both, nor on
\* his own, and a row applied for again starts from nothing.
BallotsAreExact ==
  \A u \in Uid :
    LET b == ballots[u] IN
    /\ b.voted_count = Cardinality(b.voter_approve) - Cardinality(b.voter_against)
    /\ b.voter_approve \cap b.voter_against = {}
    /\ u \notin b.voter_approve \cup b.voter_against
    /\ u \notin reviewers => b = NoBallot

\* The three pools together, and the gifts under way, can still be minted: no
\* registration, vote or review fails because issue runs past the supply.
EveryPoolBacked ==
  minted + pools.transaction + pools.salary + ref_pool + Total(Gifts) <= Mintable

Referred(u) == {v \in registered : users[v].referrer = u}

\* A user counts whom he referred, all of them registered after him, and the
\* pool has paid for them and nobody else.
ReferralsAreExact ==
  /\ \A u \in Uid : /\ referral_total[u] = Cardinality(Referred(u))
                    /\ \A v \in Referred(u) : u < v
  /\ RefPool - ref_pool
       <= RefGift * Cardinality({v \in registered : users[v].referrer # NoUid})
=============================================================================
