------------------------------- MODULE Market -------------------------------
(***************************************************************************)
(* Trade with disputes: applyarbit opens a case, reviewers join it with    *)
(* inarbit, and updatearbit, signed by the platform and a majority of the  *)
(* reviewers who joined, decides it and moves the order.                   *)
(***************************************************************************)
EXTENDS Trade, Sequences

CONSTANTS
  MaxArbs,            \* bound: arbitration rows at a time
  Parties,            \* inputs of applyarbit: <<plaintiff, defendant>>
  ArbTypes,           \* inputs of applyarbit: types of case
  ReviewMinCount,     \* _global.review_min_count
  VerdictPenalty,     \* credit a lost case costs (100)
  OtherOids           \* inputs of applyarbit: oids no order need have

ASSUME MarketAssumption ==
  /\ MaxArbs \in Nat
  /\ Parties \subseteq Uid \X Uid
  /\ ArbTypes \subseteq {"AT_ORDER", "AT_COMPLAINT", "AT_PRODUCT", "AT_ILLEGAL_INFO"}
  /\ ReviewMinCount \in Nat \ {0}
  /\ VerdictPenalty \in Nat
  /\ OtherOids \subseteq OrderKey

VARIABLE arbs       \* the arbitrations table by row id; status NONE is "no row"

marketVars == <<vars, arbs>>

ArbId == 1..MaxArbs
ArbRow ==
  [type : ArbTypes, status : {"APPLY", "WAIT", "PROCESSING", "COMPLETED"},
   plaintiff : Uid, defendant : Uid, order_id : OrderKey, reviewers : Seq(Uid)]
NoArb ==
  [type |-> "none", status |-> "NONE", plaintiff |-> NoUid, defendant |-> NoUid,
   order_id |-> NoOid, reviewers |-> <<>>]

MarketTypeOK == TypeOK /\ arbs \in [ArbId -> ArbRow \cup {NoArb}]

MarketInit == CatalogInit /\ TradeInit /\ arbs = [a \in ArbId |-> NoArb]

-----------------------------------------------------------------------------
(* Opening a case. *)

NewArb(type, parties, oid) ==
  [type |-> type, status |-> "APPLY", plaintiff |-> parties[1],
   defendant |-> parties[2], order_id |-> oid, reviewers |-> <<>>]

OpenArb(type, parties, oid) ==
  \E a \in ArbId :
    /\ IsNextId(a, {b \in ArbId : arbs[b].status # "NONE"}, 1)
    /\ arbs' = [arbs EXCEPT ![a] = NewArb(type, parties, oid)]

\* Whatever the case is about, the product it names is locked.
LockProduct(pid) ==
  products' = IF pid \in Pid /\ products[pid].status # "NONE"
              THEN [products EXCEPT ![pid] = WithStatus(@, "LOCKED")]
              ELSE products

\* Mutated: an order under return may be disputed as well.
IsDisputableReturned(i) == orders[i].status \in {"PENDING_RECEIPT", "RETURN"}

IsDisputable(i) == orders[i].status = "PENDING_RECEIPT"

\* The return under the key of the case, if there is one, has been shipped.
DisputeReturn(oid) ==
  /\ \A r \in ReturnId :
       IsReturnOf(r, oid) => proreturns[r].status = "PENDING_RECEIPT"
  /\ proreturns' = [r \in ReturnId |->
       IF IsReturnOf(r, oid)
       THEN [proreturns[r] EXCEPT !.status = "ARBITRATION"] ELSE proreturns[r]]

\* A case about an order.  An order under return is refused here, whatever the
\* state of the return.
applyarbitOrder(parties, pid, i) ==
  /\ IsDisputable(i)
  /\ SetOrder(i, "ARBITRATION")
  /\ DisputeReturn(orders[i].oid)
  /\ OpenArb("AT_ORDER", parties, orders[i].oid)
  /\ LockProduct(pid)

\* An order case whose oid no order has: not yet, no longer, or not at all.  It
\* is accepted, and concerns whatever order gets the oid afterwards.
applyarbitEarly(parties, pid, oid) ==
  /\ \A i \in Placed : orders[i].oid # oid
  /\ DisputeReturn(oid)
  /\ OpenArb("AT_ORDER", parties, oid)
  /\ LockProduct(pid)
  /\ UNCHANGED orders

\* A complaint or a report; the order it may name is never looked at.
applyarbitOther(type, parties, pid) ==
  /\ type # "AT_ORDER"
  /\ type = "AT_COMPLAINT" => ~users[parties[1]].is_reviewer
  /\ OpenArb(type, parties, NoOid)
  /\ LockProduct(pid)
  /\ UNCHANGED <<orders, proreturns>>

applyarbit(type, parties, pid) ==
  /\ \/ type = "AT_ORDER" /\ \E i \in Placed : applyarbitOrder(parties, pid, i)
     \/ type = "AT_ORDER" /\ \E oid \in OtherOids : applyarbitEarly(parties, pid, oid)
     \/ applyarbitOther(type, parties, pid)
  /\ UNCHANGED <<users, reviewers, audits, pools, minted,
                 now, deferred, vault, income>>

\* Nothing keeps a reviewer from joining the same case again.
inarbit(uid, a) ==
  LET joined == Append(arbs[a].reviewers, uid)
  IN
  /\ CheckReviewer(uid)
  /\ arbs[a].status # "NONE"
  /\ uid \notin {arbs[a].plaintiff, arbs[a].defendant}
  /\ Len(arbs[a].reviewers) < ReviewMinCount
  /\ arbs' = [arbs EXCEPT
       ![a].reviewers = joined,
       ![a].status = IF Len(joined) >= ReviewMinCount THEN "PROCESSING" ELSE "WAIT"]
  /\ UNCHANGED vars

-----------------------------------------------------------------------------
(* Deciding it. *)

CloseArb(a) == arbs' = [arbs EXCEPT ![a].status = "COMPLETED"]

Concerns(a, i) == i \in Placed /\ orders[i].oid = arbs[a].order_id

\* The return the verdict looks for: under the row id of the order.
CaseReturn(i) == {r \in ReturnId : IsReturnOf(r, IdKey(i))}

\* The order is gone: the case is removed.
verdictNoOrder(a) ==
  /\ \A i \in OrderId : ~Concerns(a, i)
  /\ arbs' = [arbs EXCEPT ![a] = NoArb]
  /\ UNCHANGED vars

\* The buyer wins and there is a return: it is over and the buyer is refunded.
verdictRefund(a, i) ==
  /\ CaseReturn(i) # {} /\ CanSend("refund")
  /\ proreturns' = [r \in ReturnId |->
       IF r \in CaseReturn(i)
       THEN [proreturns[r] EXCEPT !.status = "COMPLETED"] ELSE proreturns[r]]
  /\ SetOrder(i, "CANCELLED")
  /\ products' = [products EXCEPT ![orders[i].pid] = WithStatus(@, "NORMAL")]
  /\ deferred' = deferred \cup {Refund(i)}
  /\ users' = SubCredit(users, orders[i].seller_uid, VerdictPenalty)
  /\ CloseArb(a)
  /\ UNCHANGED <<reviewers, audits, pools, minted, now, vault, income>>

\* The buyer wins and there is none: one is opened, under the row id.
verdictReturn(a, i) ==
  /\ CaseReturn(i) = {}
  /\ SetOrder(i, "RETURN")
  /\ \E r \in ReturnId :
       /\ IsNextId(r, Returned, 0)
       /\ proreturns' = [proreturns EXCEPT
            ![r] = NewReturn(IdKey(i), orders[i].pid)]
  /\ users' = SubCredit(users, orders[i].seller_uid, VerdictPenalty)
  /\ CloseArb(a)
  /\ UNCHANGED <<reviewers, products, audits, pools, minted,
                 now, deferred, vault, income>>

\* The seller wins and there is a return: the order is to be shipped again.
verdictRedeliver(a, i) ==
  /\ CaseReturn(i) # {}
  /\ SetOrder(i, "PENDING_SHIPMENT")
  /\ users' = SubCredit(users, orders[i].buyer_uid, VerdictPenalty)
  /\ CloseArb(a)
  /\ UNCHANGED <<reviewers, products, audits, pools, minted,
                 now, proreturns, deferred, vault, income>>

\* The seller wins and there is none: the order is completed and settled.
verdictSettle(a, i) ==
  /\ CaseReturn(i) = {} /\ CanSend("settle")
  /\ SetOrder(i, "COMPLETED")
  /\ deferred' = deferred \cup {Settlement(i)}
  /\ BookIncome(i)
  /\ users' = SubCredit(CountOrder(users, i), orders[i].buyer_uid, VerdictPenalty)
  /\ CloseArb(a)
  /\ UNCHANGED <<reviewers, products, audits, pools, minted,
                 now, proreturns, vault>>

verdictOnOrder(a, i, winner) ==
  \/ winner = orders[i].buyer_uid /\ (verdictRefund(a, i) \/ verdictReturn(a, i))
  \/ winner = orders[i].seller_uid /\ (verdictRedeliver(a, i) \/ verdictSettle(a, i))
  \/ /\ winner \notin {orders[i].buyer_uid, orders[i].seller_uid}
     /\ CloseArb(a) /\ UNCHANGED vars

\* A complaint about a reviewer costs whoever loses it, and a reviewer who
\* loses it the office; other complaints and reports change nothing.
verdictOnComplaint(a, winner) ==
  LET plaintiff == arbs[a].plaintiff
      defendant == arbs[a].defendant
      heard     == users[defendant].is_reviewer
  IN
  /\ users' = IF ~heard THEN users
              ELSE IF winner = plaintiff
                   THEN DismissReviewer(users, defendant, VerdictPenalty)
                   ELSE SubCredit(users, plaintiff, VerdictPenalty)
  /\ reviewers' = IF heard /\ winner = plaintiff
                  THEN reviewers \ {defendant} ELSE reviewers
  /\ CloseArb(a)
  /\ UNCHANGED <<products, audits, pools, minted, tradeVars>>

\* A majority of a panel of at least ReviewMinCount can always sign.  The status
\* of the case is not looked at, so that a decided one may be decided again, nor
\* is that of the order.
updatearbit(a, winner) ==
  /\ arbs[a].status # "NONE"
  /\ Len(arbs[a].reviewers) >= ReviewMinCount
  /\ \/ arbs[a].type = "AT_ORDER" /\ verdictNoOrder(a)
     \/ /\ arbs[a].type = "AT_ORDER"
        /\ \E i \in OrderId : Concerns(a, i) /\ verdictOnOrder(a, i, winner)
     \/ arbs[a].type = "AT_COMPLAINT" /\ verdictOnComplaint(a, winner)
     \/ /\ arbs[a].type \in {"AT_PRODUCT", "AT_ILLEGAL_INFO"}
        /\ CloseArb(a) /\ UNCHANGED vars

MarketNext ==
  \/ TradeNext /\ UNCHANGED arbs
  \/ \E type \in ArbTypes, parties \in Parties, pid \in Pid : applyarbit(type, parties, pid)
  \/ \E uid \in Uid, a \in ArbId : inarbit(uid, a)
  \/ \E a \in ArbId, winner \in Uid \cup {NoUid} : updatearbit(a, winner)

MarketSpec == MarketInit /\ [][MarketNext]_marketVars

-----------------------------------------------------------------------------
(* An assumption on the platform, not on the code.  updatearbit needs the    *)
(* contract's own signature beside the reviewers'.  AwaitedSpec is the      *)
(* market of a platform that signs a verdict on an order only while the      *)
(* order waits for one, whatever case the verdict comes from; MarketSpec is  *)
(* the market of one that signs whatever it is sent.                         *)

IsAwaited(a) == \A i \in OrderId : Concerns(a, i) => orders[i].status = "ARBITRATION"

AwaitedNext ==
  \/ TradeNext /\ UNCHANGED arbs
  \/ \E type \in ArbTypes, parties \in Parties, pid \in Pid : applyarbit(type, parties, pid)
  \/ \E uid \in Uid, a \in ArbId : inarbit(uid, a)
  \/ \E a \in ArbId, winner \in Uid \cup {NoUid} : IsAwaited(a) /\ updatearbit(a, winner)

AwaitedSpec == MarketInit /\ [][AwaitedNext]_marketVars

-----------------------------------------------------------------------------
(* Properties, beside those of Trade, which a dispute must keep. *)

\* The flag of a reviewer and the row in the reviewers table: whoever has the
\* flag has the row, also after losing a complaint or too much credit.
FlagHasRow == \A u \in Uid : users[u].is_reviewer => u \in reviewers

\* What reshipment is for: the buyer of an order under return can ship the
\* goods back.
ReturnCanBeShipped ==
  \A i \in Placed : orders[i].status = "RETURN" =>
    \E r \in ReturnId : /\ IsReturnOf(r, orders[i].oid)
                        /\ proreturns[r].status # "COMPLETED"

\* What the message of applyarbit promises of a dispute, "until payment has
\* been made and order is not completed", holds of its verdict: no case is
\* decided whose order is unpaid or completed.
VerdictsOnOpenOrders ==
  [][\A a \in ArbId, i \in Placed :
       Concerns(a, i) /\ arbs[a].status # "COMPLETED" /\ arbs'[a].status = "COMPLETED"
       => orders[i].status \notin {"PENDING_PAYMENT", "COMPLETED"}]_marketVars

-----------------------------------------------------------------------------
(* Why a sale is exclusive and an outcome final: the shape of the tables     *)
(* that keeps every lookup by key unambiguous, in the market of AwaitedSpec. *)

\* The key of an order names its pid, and no two orders share a key.
OrderKeysOK ==
  /\ \A i \in Placed : orders[i].oid[2] = orders[i].pid
  /\ \A i, j \in Placed : orders[i].oid = orders[j].oid => i = j

IsOpen(r) == proreturns[r].status \notin {"NONE", "COMPLETED"}
IsCaseOf(r, i) == proreturns[r].order_id \in {orders[i].oid, IdKey(i)}

\* A return is completed, and then carries a buyer's key with its pid, or it
\* is open for an order in OS_RETURN, which has no other open return.
ReturnsOK ==
  /\ \A r \in ReturnId : proreturns[r].status = "COMPLETED" =>
       /\ proreturns[r].order_id[1] \in Uid
       /\ proreturns[r].order_id[2] = proreturns[r].pid
  /\ \A r \in ReturnId : IsOpen(r) =>
       \E i \in OrderId : /\ orders[i].status = "RETURN"
                         /\ IsCaseOf(r, i)
                         /\ proreturns[r].pid = orders[i].pid
  /\ \A i \in Placed : \A r, q \in ReturnId :
       IsOpen(r) /\ IsOpen(q) /\ IsCaseOf(r, i) /\ IsCaseOf(q, i) => r = q

CancelledIsReturned ==
  \A i \in OrderId : orders[i].status = "CANCELLED" => HasReturned(orders[i].pid)

\* The inductive invariant.
MarketInv ==
  /\ MarketTypeOK
  /\ ProductsExist
  /\ OrderKeysOK
  /\ ReturnsOK
  /\ CancelledIsReturned
  /\ SaleIsExclusive
-----------------------------------------------------------------------------
(* What an order promises: the mapping of the tables to Escrow. *)

Stage(status) ==
  CASE status = "NONE" -> "none"
    [] status = "PENDING_PAYMENT" -> "unpaid"
    [] status = "COMPLETED" -> "settled"
    [] status = "CANCELLED" -> "refunded"
    [] OTHER -> "funded"

Deal(row) ==
  IF row.status = "NONE" THEN NoOrder
  ELSE [coin |-> row.coin, price |-> row.price, postage |-> row.postage]

Owed(d) ==
  [kind |-> d.tag, order |-> d.id, at |-> d.at, coin |-> d.coin,
   buyer |-> d.amount.buyer,
   others |-> d.amount.seller + d.amount.devops + d.amount.referrer]

\* A gift of points is not part of the promise.
IsPayout(d) == d.tag # "conreceipt"

Promise ==
  INSTANCE Escrow WITH
    Order <- OrderId,
    Money <- Coin,
    NoDeal <- NoOrder,
    stage <- [i \in OrderId |-> Stage(orders[i].status)],
    deal  <- [i \in OrderId |-> Deal(orders[i])],
    owed  <- {Owed(d) : d \in {e \in deferred : IsPayout(e)}},
    kept  <- income

\* Whatever happens to products, returns and cases, the money of an order does
\* what Escrow says: held from payment to decision, decided once, all of it
\* paid out or kept, one payout for each decision and to the right side.
EscrowIsKept == Promise!EscrowSpec
=============================================================================
