------------------------------- MODULE Credit -------------------------------
(***************************************************************************)
(* Rows of the users table and the credit rules every other part of the    *)
(* contract calls: AddCredit, SubCredit, IsLockUser, CheckReviewer.        *)
(* Profile data, the point balance and the counters nobody reads are left  *)
(* out.  credit_value is a uint32_t: its arithmetic is modulo Word.        *)
(***************************************************************************)
EXTENDS Integers

CONSTANTS
  Uid,          \* uids of the registered users
  NoUid,        \* the uid 0, which no user has
  CreditLimit,  \* _global.credit_reviewer_limit
  Word          \* number of values of a uint32_t

ASSUME CreditAssumption ==
  /\ NoUid \notin Uid
  /\ Word \in Nat \ {0}
  /\ CreditLimit \in 0..(Word - 1)

VARIABLES
  users,        \* the users table, a row for every uid
  reviewers     \* the uids with a row in the reviewers table

UserRow ==
  [credit_value : 0..(Word - 1), locked : BOOLEAN, is_reviewer : BOOLEAN,
   referrer : Uid \cup {NoUid}, sell_total : Nat, buy_total : Nat]

CreditTypeOK == users \in [Uid -> UserRow] /\ reviewers \subseteq Uid

IsLockUser(uid) == users[uid].locked

\* Every caller turns a FALSE into a failed check, so the demotion written on
\* that path never survives: only the answer matters.
CheckReviewer(uid) ==
  /\ ~IsLockUser(uid)
  /\ users[uid].credit_value >= CreditLimit
  /\ users[uid].is_reviewer

AddCredit(us, uid, value) ==
  [us EXCEPT ![uid].credit_value = (@ + value) % Word]

LockIfSpent(row) ==
  IF row.credit_value < 1 THEN [row EXCEPT !.locked = TRUE] ELSE row

\* A reviewer whose credit drops below the limit loses the flag but keeps the
\* row in the reviewers table.
SubCredit(us, uid, value) ==
  LET row  == us[uid]
      left == (row.credit_value - value) % Word
  IN  [us EXCEPT ![uid] =
         LockIfSpent([row EXCEPT !.credit_value = left,
                                 !.is_reviewer = row.is_reviewer /\ left >= CreditLimit])]

\* Mutated: the row goes, the flag stays.
DismissReviewerRow(us, uid, value) ==
  [us EXCEPT ![uid].credit_value = (@ - value) % Word]

\* SubCredit with cancel_reviewer on a user who is one; the caller also takes
\* the user out of the reviewers table.
DismissReviewer(us, uid, value) ==
  LET row == us[uid]
      top == IF row.credit_value >= CreditLimit THEN CreditLimit ELSE row.credit_value
  IN  [us EXCEPT ![uid] =
         LockIfSpent([row EXCEPT !.credit_value = (top - value) % Word,
                                 !.is_reviewer = FALSE])]
=============================================================================
