---------------------------- MODULE EscrowProofs ----------------------------
(***************************************************************************)
(* The market of AwaitedSpec, where a verdict moves only an order that     *)
(* waits for one, implements Escrow.  Every step is matched with the step  *)
(* of Escrow it is, or with none: the lemmas say so for each kind of step, *)
(* MarketInv tells the kinds apart.                                        *)
(* In the tables themselves: a payout is sent by the step that decides,    *)
(* and the balance of a ledger covers the income and whoever is owed.      *)
(***************************************************************************)
EXTENDS Market, MarketProofs

OwedNow == {Owed(d) : d \in {e \in deferred : IsPayout(e)}}

-----------------------------------------------------------------------------
(* What a step may do to the orders and the payouts, seen from Escrow. *)

DealsKept == \A j \in OrderId : Deal(orders[j])' = Deal(orders[j])
StagesKept == \A j \in OrderId : Stage(orders[j].status)' = Stage(orders[j].status)
StagesBut(i) ==
  \A j \in OrderId \ {i} : Stage(orders[j].status)' = Stage(orders[j].status)

\* A step that leaves stages, deals and payouts alone is none of Escrow's.
LEMMA NoStep ==
  ASSUME StagesKept, DealsKept, OwedNow' = OwedNow, UNCHANGED <<now, income>>
  PROVE  UNCHANGED Promise!escrowVars
<1>1. [j \in OrderId |-> Stage(orders'[j].status)] = [j \in OrderId |-> Stage(orders[j].status)]
  BY DEF StagesKept
<1>2. [j \in OrderId |-> Deal(orders'[j])] = [j \in OrderId |-> Deal(orders[j])]
  BY DEF DealsKept
<1> QED
  BY <1>1, <1>2 DEF Promise!escrowVars, OwedNow

\* Moving one order to a status is moving it to the status's stage.
LEMMA SetOrderStage ==
  ASSUME TradeTypeOK, NEW i \in OrderId, orders[i].status # "NONE",
         NEW status \in OrderStatus, SetOrder(i, status)
  PROVE  /\ DealsKept /\ StagesBut(i)
         /\ Stage(orders[i].status)' = Stage(status)
<1>1. orders[i] \in OrderRow
  BY PlacedRow
<1>2. /\ \A j \in OrderId \ {i} : orders'[j] = orders[j]
      /\ orders'[i].status = status /\ status # "NONE"
      /\ orders'[i].coin = orders[i].coin /\ orders'[i].price = orders[i].price
      /\ orders'[i].postage = orders[i].postage
  BY <1>1 DEF SetOrder, TradeTypeOK, OrderRow, OrderStatus
<1> QED
  BY <1>2 DEF DealsKept, StagesBut, Deal

\* What is handed out and what is kept of a payment is the payment.
LEMMA CutConserves ==
  ASSUME TradeTypeOK, NEW i \in OrderId, orders[i].status # "NONE"
  PROVE  /\ Cut(i).seller \in Nat /\ Cut(i).devops \in Nat
         /\ Cut(i).referrer \in Nat /\ Cut(i).income \in Nat
         /\ Cut(i).seller + Cut(i).devops + Cut(i).referrer + Cut(i).income
              = orders[i].price + orders[i].postage
<1> DEFINE ref == users[orders[i].buyer_uid].referrer
           known == IF ref \in Uid THEN ~IsLockUser(ref) ELSE FALSE
           total == orders[i].price + orders[i].postage
<1>1. total \in Nat
  BY PlacedRow
<1>2. Cut(i) = Split(total, known)
  BY DEF Cut
<1> HIDE DEF total, known
<1>3. \A referred \in BOOLEAN :
        LET s == Split(total, referred) IN
        /\ s \in [seller : Nat, devops : Nat, referrer : Nat, income : Nat]
        /\ s.seller + s.devops + s.referrer + s.income = total
  BY <1>1, SplitConserves, TradeRates
<1>4. known \in BOOLEAN
  BY DEF known, IsLockUser
<1> QED
  BY <1>2, <1>3, <1>4 DEF total

\* A payout of Escrow, in terms of the order.
LEMMA PayoutOfOrder ==
  ASSUME NEW i \in OrderId, orders[i].status # "NONE", NEW kind, NEW buyer, NEW others
  PROVE  Promise!Payout(kind, i, buyer, others) =
           [kind |-> kind, order |-> i, at |-> now, coin |-> orders[i].coin,
            buyer |-> buyer, others |-> others]
BY DEF Promise!Payout, Deal

\* Sending a payout, with or without a gift beside it, adds one to what is
\* owed, and CanSend makes it one that can be told apart.
LEMMA SendStep ==
  ASSUME NEW p, IsPayout(p), p.at = now, CanSend(p.tag),
         NEW gifts, \A g \in gifts : ~IsPayout(g),
         deferred' = deferred \cup {p} \cup gifts
  PROVE  /\ OwedNow' = OwedNow \cup {Owed(p)}
         /\ \A q \in OwedNow : ~(q.kind = Owed(p).kind /\ q.at = Owed(p).at)
<1>1. {e \in deferred' : IsPayout(e)} = {e \in deferred : IsPayout(e)} \cup {p}
  OBVIOUS
<1>2. OwedNow' = {Owed(d) : d \in {e \in deferred' : IsPayout(e)}}
  BY DEF OwedNow
<1>3. OwedNow' = OwedNow \cup {Owed(p)}
  BY <1>1, <1>2 DEF OwedNow
<1>4. \A d : Owed(d).kind = d.tag /\ Owed(d).at = d.at
  BY DEF Owed
<1> QED
  BY <1>3, <1>4 DEF OwedNow, CanSend

-----------------------------------------------------------------------------
(* The steps of Escrow. *)

\* Completing an order is settling it.
LEMMA SettleStep ==
  ASSUME TradeTypeOK, NEW i \in OrderId, Stage(orders[i].status) = "funded",
         orders[i].status # "NONE", SetOrder(i, "COMPLETED"), CanSend("settle"),
         NEW gifts, \A g \in gifts : ~IsPayout(g),
         deferred' = deferred \cup {Settlement(i)} \cup gifts,
         BookIncome(i), UNCHANGED now
  PROVE  Promise!Settle(i)
<1> DEFINE cut == Cut(i).income
           all == orders[i].price + orders[i].postage
           stages == [j \in OrderId |-> Stage(orders[j].status)]
           deals == [j \in OrderId |-> Deal(orders[j])]
<1>1. DealsKept /\ StagesBut(i) /\ Stage(orders[i].status)' = "settled"
  <2>1. "COMPLETED" \in OrderStatus /\ Stage("COMPLETED") = "settled"
    BY DEF OrderStatus, Stage
  <2> QED
    BY <2>1, SetOrderStage
<1>2. /\ stages' = [stages EXCEPT ![i] = "settled"] /\ deals' = deals
      /\ stages[i] = "funded"
  BY <1>1 DEF DealsKept, StagesBut
<1>3. Promise!Decide(i, "settled")
  BY <1>2 DEF Promise!Decide
<1>4. /\ deals[i].coin = orders[i].coin /\ deals[i].price = orders[i].price
      /\ deals[i].postage = orders[i].postage
  BY DEF Deal
<1>5. cut \in 0..all /\ Cut(i).seller + Cut(i).devops + Cut(i).referrer = all - cut
  BY CutConserves, PlacedRow
<1>6. Owed(Settlement(i)) = [kind |-> "settle", order |-> i, at |-> now,
        coin |-> orders[i].coin, buyer |-> 0, others |-> all - cut]
  <2>1. Cut(i).seller + Cut(i).devops + Cut(i).referrer = all - cut
    BY <1>5
  <2> HIDE DEF cut, all
  <2> QED
    BY <2>1 DEF Owed, Settlement
<1>7. /\ OwedNow' = OwedNow \cup {Owed(Settlement(i))}
      /\ \A q \in OwedNow : ~(q.kind = "settle" /\ q.at = now)
  <2>1. /\ IsPayout(Settlement(i)) /\ Settlement(i).at = now
        /\ Settlement(i).tag = "settle"
    BY DEF Settlement, IsPayout
  <2>2. /\ Owed(Settlement(i)).kind = "settle" /\ Owed(Settlement(i)).at = now
    BY <1>6
  <2> QED
    BY <2>1, <2>2, SendStep
<1>8. OwedNow' = OwedNow \cup
            {[kind |-> "settle", order |-> i, at |-> now, coin |-> deals[i].coin,
              buyer |-> 0, others |-> (deals[i].price + deals[i].postage) - cut]}
  <2>1. deals[i].price + deals[i].postage = all /\ deals[i].coin = orders[i].coin
    BY <1>4
  <2> HIDE DEF cut, all, deals
  <2> QED
    BY <1>6, <1>7, <2>1
<1>9. cut \in 0..(deals[i].price + deals[i].postage)
  BY <1>4, <1>5
<1>10. income' = [income EXCEPT ![deals[i].coin] = @ + cut]
  BY <1>4 DEF BookIncome
<1> HIDE DEF cut
<1> QED
  BY <1>3, <1>7, <1>8, <1>9, <1>10 DEF Promise!Settle, Promise!Send, Promise!Payout, OwedNow

\* Cancelling one that is paid is refunding it.
LEMMA RefundStep ==
  ASSUME TradeTypeOK, NEW i \in OrderId, Stage(orders[i].status) = "funded",
         orders[i].status # "NONE", SetOrder(i, "CANCELLED"), CanSend("refund"),
         deferred' = deferred \cup {Refund(i)}, UNCHANGED <<now, income>>
  PROVE  Promise!Refund(i)
<1> DEFINE stages == [j \in OrderId |-> Stage(orders[j].status)]
           deals == [j \in OrderId |-> Deal(orders[j])]
<1>1. DealsKept /\ StagesBut(i) /\ Stage(orders[i].status)' = "refunded"
  <2>1. "CANCELLED" \in OrderStatus /\ Stage("CANCELLED") = "refunded"
    BY DEF OrderStatus, Stage
  <2> QED
    BY <2>1, SetOrderStage
<1>2. /\ stages' = [stages EXCEPT ![i] = "refunded"] /\ deals' = deals
      /\ stages[i] = "funded"
  BY <1>1 DEF DealsKept, StagesBut
<1>3. Promise!Decide(i, "refunded")
  BY <1>2 DEF Promise!Decide
<1>4. Owed(Refund(i)) = [kind |-> "refund", order |-> i, at |-> now,
        coin |-> orders[i].coin, buyer |-> orders[i].price, others |-> orders[i].postage]
  <2>1. orders[i].postage + 0 + 0 = orders[i].postage
    BY PlacedRow
  <2> QED
    BY <2>1 DEF Owed, Refund
<1>5. /\ OwedNow' = OwedNow \cup {Owed(Refund(i))}
      /\ \A q \in OwedNow : ~(q.kind = "refund" /\ q.at = now)
  <2>1. /\ IsPayout(Refund(i)) /\ Refund(i).at = now /\ Refund(i).tag = "refund"
    BY DEF Refund, IsPayout
  <2>2. /\ Owed(Refund(i)).kind = "refund" /\ Owed(Refund(i)).at = now
    BY <1>4
  <2> DEFINE p == Refund(i)
             none == {}
  <2>3. deferred' = deferred \cup {p} \cup none
    OBVIOUS
  <2>4. \A g \in none : ~IsPayout(g)
    OBVIOUS
  <2> HIDE DEF p, none
  <2>5. /\ IsPayout(p) /\ p.at = now /\ p.tag = "refund"
    BY <2>1 DEF p
  <2>6. /\ OwedNow' = OwedNow \cup {Owed(p)}
        /\ \A q \in OwedNow : ~(q.kind = Owed(p).kind /\ q.at = Owed(p).at)
    BY <2>3, <2>4, <2>5, SendStep
  <2> QED
    BY <2>2, <2>6 DEF p
<1>6. Promise!Payout("refund", i, deals[i].price, deals[i].postage) = Owed(Refund(i))
  <2>1. deals[i].price = orders[i].price /\ deals[i].postage = orders[i].postage
    BY DEF Deal
  <2> QED
    BY <1>4, <2>1, PayoutOfOrder
<1>7. Promise!Send(Owed(Refund(i)))
  BY <1>4, <1>5 DEF Promise!Send, OwedNow
<1> QED
  BY <1>3, <1>6, <1>7 DEF Promise!Refund

\* Placing an order opens it.
LEMMA OpenStep ==
  ASSUME TradeInv, NEW buyer \in Uid, NEW pid \in Pid, NEW t \in {now} \cup ClientTimes,
         placeorder(buyer, pid, t)
  PROVE  \E i \in OrderId : Promise!Open(i)
<1>1. PICK i \in OrderId : /\ IsNextId(i, Placed, 1)
                           /\ orders' = [orders EXCEPT ![i] = NewOrder(buyer, pid, t)]
  BY DEF placeorder
<1>2. products[pid] \in ProductRow
  BY DEF placeorder, TradeInv, TypeOK, CatalogTypeOK, NoProduct
<1>3. orders[i].status = "NONE"
  BY <1>1, TradeAssumption DEF IsNextId, Placed, OrderId
<1>4. /\ \A j \in OrderId \ {i} : orders'[j] = orders[j]
      /\ orders'[i] = NewOrder(buyer, pid, t)
  BY <1>1 DEF TradeInv, TypeOK, TradeTypeOK
<1>5. /\ NewOrder(buyer, pid, t).status = "PENDING_PAYMENT"
      /\ NewOrder(buyer, pid, t).coin \in Coin
      /\ NewOrder(buyer, pid, t).price \in Nat /\ NewOrder(buyer, pid, t).postage \in Nat
  BY <1>2 DEF NewOrder, ProductRow
<1>6. Deal(orders'[i]) \in Promise!Deal
  BY <1>4, <1>5 DEF Deal, Promise!Deal
<1>7. Stage(orders[i].status) = "none" /\ Stage(orders'[i].status) = "unpaid"
  BY <1>3, <1>4, <1>5 DEF Stage
<1>8. UNCHANGED <<now, deferred, income>>
  BY DEF placeorder
<1> QED
  BY <1>4, <1>6, <1>7, <1>8 DEF Promise!Open

\* Paying it funds it.
LEMMA FundStep ==
  ASSUME TradeTypeOK, NEW i \in OrderId, NEW ledger, PayOrder(i, ledger)
  PROVE  Promise!Fund(i)
<1>1. /\ orders[i].status = "PENDING_PAYMENT" /\ SetOrder(i, "PENDING_SHIPMENT")
      /\ UNCHANGED <<now, deferred, income>>
  BY DEF PayOrder
<1>2. /\ Stage(orders[i].status) = "unpaid" /\ Stage("PENDING_SHIPMENT") = "funded"
      /\ "PENDING_SHIPMENT" \in OrderStatus
  BY <1>1 DEF Stage, OrderStatus
<1>3. DealsKept /\ StagesBut(i) /\ Stage(orders[i].status)' = "funded"
  BY <1>1, <1>2, SetOrderStage
<1> QED
  BY <1>1, <1>2, <1>3 DEF Promise!Fund, DealsKept, StagesBut

\* Removing orders, cancelled by the buyer or overdue, drops them.
LEMMA DropStep ==
  ASSUME NEW gone \in SUBSET OrderId, gone # {},
         \A i \in gone : orders[i].status \in {"PENDING_PAYMENT", "CANCELLED"},
         orders' = [i \in OrderId |-> IF i \in gone THEN NoOrder ELSE orders[i]],
         UNCHANGED <<now, deferred, income>>
  PROVE  Promise!Drop(gone)
<1>1. \A i \in gone : Stage(orders[i].status) \in {"unpaid", "refunded"}
  BY DEF Stage
<1>2. /\ \A i \in gone : Stage(orders'[i].status) = "none" /\ Deal(orders'[i]) = NoOrder
      /\ \A i \in OrderId \ gone : orders'[i] = orders[i]
  BY DEF Stage, Deal, NoOrder
<1> QED
  BY <1>1, <1>2 DEF Promise!Drop

\* A status of the same stage is nothing to Escrow.
LEMMA StatusStep ==
  ASSUME TradeTypeOK, NEW i \in OrderId, orders[i].status # "NONE",
         NEW status \in OrderStatus, SetOrder(i, status),
         Stage(status) = Stage(orders[i].status), UNCHANGED <<now, deferred, income>>
  PROVE  UNCHANGED Promise!escrowVars
<1>1. DealsKept /\ StagesBut(i) /\ Stage(orders[i].status)' = Stage(orders[i].status)
  BY SetOrderStage
<1>2. StagesKept
  BY <1>1 DEF StagesBut, StagesKept
<1>3. OwedNow' = OwedNow
  BY DEF OwedNow
<1> QED
  BY <1>1, <1>2, <1>3, NoStep

\* Nor is a step that leaves orders, payouts, income and clock alone.
LEMMA OtherStep ==
  ASSUME UNCHANGED <<now, orders, deferred, income>>
  PROVE  UNCHANGED Promise!escrowVars
BY DEF Promise!escrowVars

\* A payout delivered or dropped leaves, unless another looks the same; a gift
\* is nothing to Escrow.
LEMMA LeaveStep ==
  ASSUME NEW d \in deferred, deferred' = deferred \ {d}, UNCHANGED <<now, orders, income>>
  PROVE  \/ UNCHANGED Promise!escrowVars
         \/ \E p \in OwedNow : Promise!Leave(p)
<1>1. {e \in deferred' : IsPayout(e)} = {e \in deferred : IsPayout(e)} \ {d}
  OBVIOUS
<1>2. OwedNow' = {Owed(e) : e \in {x \in deferred : IsPayout(x)} \ {d}}
  BY <1>1 DEF OwedNow
<1>3. StagesKept /\ DealsKept
  BY DEF StagesKept, DealsKept
<1>4. CASE OwedNow' = OwedNow
  BY <1>3, <1>4, NoStep
<1>5. CASE OwedNow' # OwedNow
  <2>1. Owed(d) \in OwedNow /\ OwedNow' = OwedNow \ {Owed(d)}
    BY <1>2, <1>5 DEF OwedNow
  <2>2. Promise!Leave(Owed(d))
    BY <2>1 DEF Promise!Leave, OwedNow
  <2> QED
    BY <2>1, <2>2
<1> QED
  BY <1>4, <1>5

-----------------------------------------------------------------------------
(* Every step of the market is one of Escrow's, or none. *)

Kept == [Promise!EscrowNext]_(Promise!escrowVars)

\* Confirming receipt settles the order; a gift beside the payout is none.
LEMMA ConreceiptStep ==
  ASSUME TradeTypeOK, NEW i \in OrderId, conreceipt(i)
  PROVE  Promise!Settle(i)
<1> DEFINE gifts == IF IsGiven(i) THEN {Gift(i, Points(i))} ELSE {}
<1>1. /\ orders[i].status = "PENDING_RECEIPT" /\ SetOrder(i, "COMPLETED")
      /\ CanSend("settle") /\ BookIncome(i) /\ UNCHANGED now
      /\ deferred' = deferred \cup {Settlement(i)} \cup gifts
  BY DEF conreceipt
<1>2. \A g \in gifts : ~IsPayout(g)
  BY DEF Gift, IsPayout
<1>3. Stage(orders[i].status) = "funded" /\ orders[i].status # "NONE"
  BY <1>1 DEF Stage
<1> HIDE DEF gifts
<1> QED
  BY <1>1, <1>2, <1>3, SettleStep

\* The steps on one order.
LEMMA OrderSteps ==
  ASSUME TradeInv, SalesInv, NEW i \in OrderId,
         \/ cancelorder(i)  \/ cleanorder(i)
         \/ OnEOSTransfer(i) \/ OnIBCTransfer(i) \/ OnMyTransfer(i)
         \/ shipment(i)     \/ deferreceipt(i) \/ conreceipt(i)
         \/ returns(i)      \/ reshipment(i)   \/ deferreturn(i) \/ reconreceipt(i)
  PROVE  Kept
<1>1. TradeTypeOK
  BY DEF TradeInv, TypeOK
<1>2. CASE cancelorder(i)
  <2>1. {i} \in SUBSET OrderId /\ {i} # {}
    OBVIOUS
  <2>2. \A j \in {i} : orders[j].status \in {"PENDING_PAYMENT", "CANCELLED"}
    BY <1>2 DEF cancelorder
  <2>3. /\ orders' = [j \in OrderId |-> IF j \in {i} THEN NoOrder ELSE orders[j]]
        /\ UNCHANGED <<now, deferred, income>>
    BY <1>1, <1>2 DEF cancelorder, TradeTypeOK
  <2>4. Promise!Drop({i})
    BY <2>1, <2>2, <2>3, DropStep
  <2> QED
    BY <2>4 DEF Kept, Promise!EscrowNext
<1>3. CASE cleanorder(i)
  <2> DEFINE gone == {j \in Scanned(i) : Expired(j)}
  <2>1. /\ gone \in SUBSET OrderId
        /\ \A j \in gone : orders[j].status \in {"PENDING_PAYMENT", "CANCELLED"}
    BY DEF Scanned, Placed, Expired
  <2>2. /\ gone # {} /\ UNCHANGED <<now, deferred, income>>
        /\ orders' = [j \in OrderId |-> IF j \in gone THEN NoOrder ELSE orders[j]]
    BY <1>3 DEF cleanorder
  <2> HIDE DEF gone
  <2>3. Promise!Drop(gone)
    BY <2>1, <2>2, DropStep
  <2> QED
    BY <2>1, <2>3 DEF Kept, Promise!EscrowNext
<1>4. CASE OnEOSTransfer(i) \/ OnIBCTransfer(i) \/ OnMyTransfer(i)
  <2>1. Promise!Fund(i)
    BY <1>1, <1>4, FundStep DEF OnEOSTransfer, OnIBCTransfer, OnMyTransfer
  <2> QED
    BY <2>1 DEF Kept, Promise!EscrowNext
<1>5. CASE shipment(i)
  <2>1. /\ orders[i].status = "PENDING_SHIPMENT" /\ UNCHANGED <<now, deferred, income>>
        /\ orders' = [orders EXCEPT ![i].status = "PENDING_RECEIPT",
                                    ![i].receipt_time_out = now + ReceiptTimeOut]
    BY <1>5 DEF shipment
  <2>2. orders[i] \in OrderRow
    BY <1>1, <2>1, PlacedRow
  <2>3. /\ \A j \in OrderId \ {i} : orders'[j] = orders[j]
        /\ orders'[i].status = "PENDING_RECEIPT" /\ orders'[i].coin = orders[i].coin
        /\ orders'[i].price = orders[i].price /\ orders'[i].postage = orders[i].postage
    BY <1>1, <2>1, <2>2 DEF TradeTypeOK, OrderRow
  <2>4. StagesKept /\ DealsKept
    BY <2>1, <2>3 DEF StagesKept, DealsKept, Stage, Deal
  <2>5. OwedNow' = OwedNow
    BY <2>1 DEF OwedNow
  <2> QED
    BY <2>1, <2>4, <2>5, NoStep DEF Kept
<1>6. CASE deferreceipt(i)
  <2>1. /\ orders[i].status # "NONE" /\ UNCHANGED <<now, deferred, income>>
        /\ orders' = [orders EXCEPT ![i].receipt_time_out = now + ReceiptTimeOut,
                                    ![i].delayed_count = @ + 1]
    BY <1>6 DEF deferreceipt
  <2>2. orders[i] \in OrderRow
    BY <1>1, <2>1, PlacedRow
  <2>3. /\ \A j \in OrderId \ {i} : orders'[j] = orders[j]
        /\ orders'[i].status = orders[i].status /\ orders'[i].coin = orders[i].coin
        /\ orders'[i].price = orders[i].price /\ orders'[i].postage = orders[i].postage
    BY <1>1, <2>1, <2>2 DEF TradeTypeOK, OrderRow
  <2>4. StagesKept /\ DealsKept
    BY <2>3 DEF StagesKept, DealsKept, Deal
  <2>5. OwedNow' = OwedNow
    BY <2>1 DEF OwedNow
  <2> QED
    BY <2>1, <2>4, <2>5, NoStep DEF Kept
<1>7. CASE conreceipt(i)
  BY <1>1, <1>7, ConreceiptStep DEF Kept, Promise!EscrowNext
<1>8. CASE returns(i)
  <2>1. /\ orders[i].status = "PENDING_RECEIPT" /\ SetOrder(i, "RETURN")
        /\ UNCHANGED <<now, deferred, income>>
    BY <1>8 DEF returns
  <2>2. "RETURN" \in OrderStatus /\ Stage("RETURN") = Stage(orders[i].status)
    BY <2>1 DEF OrderStatus, Stage
  <2> QED
    BY <1>1, <2>1, <2>2, StatusStep DEF Kept
<1>9. CASE reshipment(i) \/ deferreturn(i)
  BY <1>9, OtherStep DEF Kept, reshipment, deferreturn
<1>10. CASE reconreceipt(i)
  <2>1. /\ SetOrder(i, "CANCELLED") /\ CanSend("refund")
        /\ deferred' = deferred \cup {Refund(i)} /\ UNCHANGED <<now, income>>
    BY <1>10 DEF reconreceipt
  <2>2. Stage(orders[i].status) = "funded" /\ orders[i].status # "NONE"
    BY <1>10, ReconreceiptSales DEF Stage
  <2>3. Promise!Refund(i)
    BY <1>1, <2>1, <2>2, RefundStep
  <2> QED
    BY <2>3 DEF Kept, Promise!EscrowNext
<1> QED
  BY <1>2, <1>3, <1>4, <1>5, <1>6, <1>7, <1>8, <1>9, <1>10

\* The steps of Trade.
LEMMA TradeSteps ==
  ASSUME TradeInv, SalesInv, TradeNext
  PROVE  Kept
<1>1. CASE CatalogNext /\ UNCHANGED tradeVars
  BY <1>1, OtherStep DEF Kept, tradeVars
<1>2. ASSUME NEW buyer \in Uid, NEW pid \in Pid, NEW t \in {now} \cup ClientTimes,
             placeorder(buyer, pid, t)
      PROVE  Kept
  BY <1>2, OpenStep DEF Kept, Promise!EscrowNext
<1>3. ASSUME NEW d \in deferred, ExecutePayout(d) \/ ExecuteGift(d) \/ DropDeferred(d)
      PROVE  Kept
  <2>1. deferred' = deferred \ {d} /\ UNCHANGED <<now, orders, income>>
    BY <1>3 DEF ExecutePayout, ExecuteGift, DropDeferred, Deliver
  <2>2. \/ UNCHANGED Promise!escrowVars
        \/ \E p \in OwedNow : Promise!Leave(p)
    BY <2>1, LeaveStep
  <2> QED
    BY <2>2 DEF Kept, Promise!EscrowNext, OwedNow
<1>4. CASE Tick
  <2>1. now' = now + 1 /\ UNCHANGED <<orders, deferred, income>>
    BY <1>4 DEF Tick
  <2>2. Promise!Tick
    BY <2>1 DEF Promise!Tick
  <2> QED
    BY <2>2 DEF Kept, Promise!EscrowNext
<1> QED
  BY <1>1, <1>2, <1>3, <1>4, OrderSteps DEF TradeNext

\* An awaited verdict finds its order in arbitration and no return
\* under the row id: the seller wins and is paid, or a return is opened.
LEMMA VerdictSteps ==
  ASSUME MarketInv, NEW a \in ArbId, IsAwaited(a), NEW i \in OrderId, Concerns(a, i),
         NEW winner, verdictOnOrder(a, i, winner)
  PROVE  Kept
<1>1. TradeTypeOK
  BY DEF MarketInv, MarketTypeOK, TypeOK
<1>2. orders[i].status = "ARBITRATION" /\ CaseReturn(i) = {}
  BY DecidedOrder
<1>3. Stage(orders[i].status) = "funded" /\ orders[i].status # "NONE"
  BY <1>2 DEF Stage
<1>4. CASE verdictReturn(a, i)
  <2>1. SetOrder(i, "RETURN") /\ UNCHANGED <<now, deferred, income>>
    BY <1>4 DEF verdictReturn
  <2>2. "RETURN" \in OrderStatus /\ Stage("RETURN") = Stage(orders[i].status)
    BY <1>3 DEF OrderStatus, Stage
  <2> QED
    BY <1>1, <1>3, <2>1, <2>2, StatusStep DEF Kept
<1>5. CASE verdictSettle(a, i)
  <2> DEFINE gifts == {}
  <2>1. /\ SetOrder(i, "COMPLETED") /\ CanSend("settle") /\ BookIncome(i) /\ UNCHANGED now
        /\ deferred' = deferred \cup {Settlement(i)} \cup gifts
    BY <1>5 DEF verdictSettle
  <2>2. \A g \in gifts : ~IsPayout(g)
    OBVIOUS
  <2> HIDE DEF gifts
  <2>3. Promise!Settle(i)
    BY <1>1, <1>3, <2>1, <2>2, SettleStep
  <2> QED
    BY <2>3 DEF Kept, Promise!EscrowNext
<1>6. CASE CloseArb(a) /\ UNCHANGED vars
  BY <1>6, OtherStep DEF Kept, vars, tradeVars
<1> QED
  BY <1>2, <1>4, <1>5, <1>6 DEF verdictOnOrder, verdictRefund, verdictRedeliver

\* The steps of the market.
LEMMA MarketSteps ==
  ASSUME MarketInv, AwaitedNext
  PROVE  Kept
<1>1. TradeTypeOK
  BY DEF MarketInv, MarketTypeOK, TypeOK
<1>2. CASE TradeNext /\ UNCHANGED arbs
  BY <1>2, TradeSteps DEF MarketInv, MarketTypeOK, SalesInv, TradeInv
<1>3. ASSUME NEW type \in ArbTypes, NEW parties \in Parties, NEW pid \in Pid,
             applyarbit(type, parties, pid)
      PROVE  Kept
  <2>1. ASSUME NEW i \in Placed, applyarbitOrder(parties, pid, i)
        PROVE  Kept
    <3>1. /\ orders[i].status = "PENDING_RECEIPT" /\ SetOrder(i, "ARBITRATION")
          /\ i \in OrderId /\ UNCHANGED <<now, deferred, income>>
      BY <1>3, <2>1 DEF applyarbit, applyarbitOrder, IsDisputable, Placed
    <3>2. "ARBITRATION" \in OrderStatus /\ Stage("ARBITRATION") = Stage(orders[i].status)
      BY <3>1 DEF OrderStatus, Stage
    <3> QED
      BY <1>1, <3>1, <3>2, StatusStep DEF Kept
  <2>2. CASE UNCHANGED orders
    BY <1>3, <2>2, OtherStep DEF Kept, applyarbit
  <2> QED
    BY <1>3, <2>1, <2>2 DEF applyarbit, applyarbitEarly, applyarbitOther
<1>4. ASSUME NEW uid \in Uid, NEW a \in ArbId, inarbit(uid, a)
      PROVE  Kept
  BY <1>4, OtherStep DEF Kept, inarbit, vars, tradeVars
<1>5. ASSUME NEW a \in ArbId, NEW winner, IsAwaited(a), updatearbit(a, winner)
      PROVE  Kept
  <2>1. CASE UNCHANGED tradeVars
    BY <2>1, OtherStep DEF Kept, tradeVars
  <2>2. ASSUME NEW i \in OrderId, Concerns(a, i), verdictOnOrder(a, i, winner)
        PROVE  Kept
    BY <1>5, <2>2, VerdictSteps
  <2> QED
    BY <1>5, <2>1, <2>2 DEF updatearbit, verdictNoOrder, verdictOnComplaint, vars
<1> QED
  BY <1>2, <1>3, <1>4, <1>5 DEF AwaitedNext

\* Before the first transaction nothing is promised.
LEMMA MarketStart == MarketInit => Promise!EscrowInit
<1> SUFFICES ASSUME MarketInit
             PROVE  Promise!EscrowInit
  OBVIOUS
<1>1. /\ orders = [i \in OrderId |-> NoOrder] /\ deferred = {} /\ now = 0
      /\ income = [c \in Coin |-> 0]
  BY DEF MarketInit, TradeInit
<1>2. \A i \in OrderId : Stage(orders[i].status) = "none" /\ Deal(orders[i]) = NoOrder
  BY <1>1 DEF NoOrder, Stage, Deal
<1> QED
  BY <1>1, <1>2 DEF Promise!EscrowInit

-----------------------------------------------------------------------------
\* While verdicts fall on awaiting orders only, the money of an order is held,
\* decided once and paid out to the right side in full, whatever is bought,
\* returned, disputed, delayed, delivered or lost beside it.
THEOREM MarketKeepsEscrow == AwaitedSpec => EscrowIsKept
<1>1. MarketInv /\ [AwaitedNext]_marketVars => Kept
  <2>1. ASSUME MarketInv, AwaitedNext
        PROVE  Kept
    BY <2>1, MarketSteps
  <2>2. ASSUME UNCHANGED marketVars
        PROVE  Kept
    BY <2>2, OtherStep DEF Kept, marketVars, vars, tradeVars
  <2> QED
    BY <2>1, <2>2
<1>2. Kept <=> [Promise!EscrowNext]_(Promise!escrowVars)
  BY DEF Kept
<1> QED
  BY <1>1, <1>2, MarketStart, MarketIsConsistent, PTL
     DEF AwaitedSpec, EscrowIsKept, Promise!EscrowSpec
-----------------------------------------------------------------------------
(* A payout is sent exactly by the step that decides its order.             *)

Follows(i) ==
  /\ Sends("settle", i) <=> Becomes(i, "COMPLETED")
  /\ Sends("refund", i) <=> Becomes(i, "CANCELLED")

\* A step that sends no payout and decides no order.
LEMMA Undecided ==
  ASSUME \A d \in deferred' \ deferred : ~IsPayout(d),
         \A i \in OrderId : orders'[i].status \in {"COMPLETED", "CANCELLED"} =>
                              orders'[i].status = orders[i].status
  PROVE  \A i \in OrderId : Follows(i)
BY DEF Follows, Sends, Becomes, IsPayout

\* A payout that can be sent is a new one.
LEMMA SentIsNew ==
  ASSUME NEW p, p.at = now, CanSend(p.tag), IsPayout(p),
         NEW gifts, \A g \in gifts : ~IsPayout(g),
         deferred' = deferred \cup {p} \cup gifts
  PROVE  p \in deferred' \ deferred /\ \A d \in deferred' \ deferred : IsPayout(d) => d = p
BY DEF CanSend

\* A step that settles an order, with or without a gift.
LEMMA SettleFollows ==
  ASSUME TradeTypeOK, NEW i \in OrderId, orders[i].status # "COMPLETED",
         SetOrder(i, "COMPLETED"), CanSend("settle"),
         NEW gifts, \A g \in gifts : ~IsPayout(g),
         deferred' = deferred \cup {Settlement(i)} \cup gifts
  PROVE  \A j \in OrderId : Follows(j)
<1>1. /\ \A j \in OrderId \ {i} : orders'[j] = orders[j]
      /\ orders'[i].status = "COMPLETED"
  BY DEF SetOrder, TradeTypeOK
<1>2. /\ Settlement(i).at = now /\ Settlement(i).tag = "settle" /\ Settlement(i).id = i
      /\ IsPayout(Settlement(i))
  BY DEF Settlement, IsPayout
<1>3. /\ Settlement(i) \in deferred' \ deferred
      /\ \A d \in deferred' \ deferred : IsPayout(d) => d = Settlement(i)
  BY <1>2, SentIsNew
<1> HIDE DEF Settlement
<1>4. \A j \in OrderId : (Sends("settle", j) <=> j = i) /\ ~Sends("refund", j)
  BY <1>2, <1>3 DEF Sends, IsPayout
<1> QED
  BY <1>1, <1>4 DEF Follows, Becomes

\* A step that refunds one.
LEMMA RefundFollows ==
  ASSUME TradeTypeOK, NEW i \in OrderId, orders[i].status # "CANCELLED",
         SetOrder(i, "CANCELLED"), CanSend("refund"),
         deferred' = deferred \cup {Refund(i)}
  PROVE  \A j \in OrderId : Follows(j)
<1>1. /\ \A j \in OrderId \ {i} : orders'[j] = orders[j]
      /\ orders'[i].status = "CANCELLED"
  BY DEF SetOrder, TradeTypeOK
<1>2. /\ Refund(i).at = now /\ Refund(i).tag = "refund" /\ Refund(i).id = i
  BY DEF Refund
<1>3. deferred' \ deferred = {Refund(i)}
  BY <1>2 DEF CanSend
<1>4. \A j \in OrderId : (Sends("refund", j) <=> j = i) /\ ~Sends("settle", j)
  BY <1>2, <1>3 DEF Sends
<1> QED
  BY <1>1, <1>4 DEF Follows, Becomes

\* The steps of Trade on one order.
LEMMA OrderFollows ==
  ASSUME TradeInv, SalesInv, NEW i \in OrderId,
         \/ cancelorder(i)  \/ cleanorder(i)
         \/ OnEOSTransfer(i) \/ OnIBCTransfer(i) \/ OnMyTransfer(i)
         \/ shipment(i)     \/ deferreceipt(i) \/ conreceipt(i)
         \/ returns(i)      \/ reshipment(i)   \/ deferreturn(i) \/ reconreceipt(i)
  PROVE  \A j \in OrderId : Follows(j)
<1> USE DEF TradeInv, TypeOK
<1>1. CASE cancelorder(i)
  BY <1>1, Undecided DEF cancelorder, NoOrder, TradeTypeOK
<1>2. CASE cleanorder(i)
  <2> DEFINE gone == {j \in Scanned(i) : Expired(j)}
  <2>1. /\ UNCHANGED deferred
        /\ orders' = [j \in OrderId |-> IF j \in gone THEN NoOrder ELSE orders[j]]
    BY <1>2 DEF cleanorder
  <2> HIDE DEF gone
  <2> QED
    BY <2>1, Undecided DEF NoOrder
<1>3. ASSUME NEW ledger, PayOrder(i, ledger)
      PROVE  \A j \in OrderId : Follows(j)
  BY <1>3, Undecided DEF PayOrder, SetOrder, TradeTypeOK
<1>4. CASE shipment(i)
  BY <1>4, Undecided DEF shipment, TradeTypeOK
<1>5. CASE deferreceipt(i)
  <2>1. orders[i] \in OrderRow
    BY <1>5, PlacedRow DEF deferreceipt
  <2>2. \A j \in OrderId : orders'[j].status = orders[j].status
    BY <1>5, <2>1 DEF deferreceipt, TradeTypeOK, OrderRow
  <2> QED
    BY <1>5, <2>2, Undecided DEF deferreceipt
<1>6. CASE conreceipt(i)
  <2> DEFINE gifts == IF IsGiven(i) THEN {Gift(i, Points(i))} ELSE {}
  <2>1. /\ orders[i].status = "PENDING_RECEIPT" /\ SetOrder(i, "COMPLETED")
        /\ CanSend("settle") /\ deferred' = deferred \cup {Settlement(i)} \cup gifts
    BY <1>6 DEF conreceipt
  <2>2. \A g \in gifts : ~IsPayout(g)
    BY DEF Gift, IsPayout
  <2> HIDE DEF gifts
  <2> QED
    BY <2>1, <2>2, SettleFollows
<1>7. CASE returns(i)
  BY <1>7, Undecided DEF returns, SetOrder, TradeTypeOK
<1>8. CASE reshipment(i) \/ deferreturn(i)
  BY <1>8, Undecided DEF reshipment, deferreturn
<1>9. CASE reconreceipt(i)
  <2>1. orders[i].status = "RETURN"
    BY <1>9, ReconreceiptSales
  <2> QED
    BY <1>9, <2>1, RefundFollows DEF reconreceipt
<1> QED
  BY <1>1, <1>2, <1>3, <1>4, <1>5, <1>6, <1>7, <1>8, <1>9
     DEF OnEOSTransfer, OnIBCTransfer, OnMyTransfer

\* Steps that leave the orders alone and send nothing.
LEMMA NothingSent ==
  ASSUME UNCHANGED <<orders, deferred>>
  PROVE  \A j \in OrderId : Follows(j)
BY Undecided

\* Every step of Trade.
LEMMA TradeFollows ==
  ASSUME TradeInv, SalesInv, TradeNext
  PROVE  \A j \in OrderId : Follows(j)
<1>1. CASE CatalogNext /\ UNCHANGED tradeVars
  BY <1>1, NothingSent DEF tradeVars
<1>2. ASSUME NEW buyer \in Uid, NEW pid \in Pid, NEW t \in {now} \cup ClientTimes,
             placeorder(buyer, pid, t)
      PROVE  \A j \in OrderId : Follows(j)
  <2>1. PICK i \in OrderId : orders' = [orders EXCEPT ![i] = NewOrder(buyer, pid, t)]
    BY <1>2 DEF placeorder
  <2>2. NewOrder(buyer, pid, t).status = "PENDING_PAYMENT"
    BY DEF NewOrder
  <2> QED
    BY <1>2, <2>1, <2>2, Undecided DEF placeorder, TradeInv, TypeOK, TradeTypeOK
<1>3. ASSUME NEW d \in deferred, ExecutePayout(d) \/ ExecuteGift(d) \/ DropDeferred(d)
      PROVE  \A j \in OrderId : Follows(j)
  BY <1>3, Undecided DEF ExecutePayout, ExecuteGift, DropDeferred, Deliver
<1>4. CASE Tick
  BY <1>4, NothingSent DEF Tick
<1> QED
  BY <1>1, <1>2, <1>3, <1>4, OrderFollows DEF TradeNext

\* An awaited verdict settles, or opens a return, or changes nothing.
LEMMA VerdictFollows ==
  ASSUME MarketInv, NEW a \in ArbId, IsAwaited(a), NEW i \in OrderId, Concerns(a, i),
         NEW winner, verdictOnOrder(a, i, winner)
  PROVE  \A j \in OrderId : Follows(j)
<1> USE DEF MarketInv, MarketTypeOK, TypeOK
<1>1. orders[i].status = "ARBITRATION" /\ CaseReturn(i) = {}
  BY DecidedOrder
<1>2. CASE verdictReturn(a, i)
  BY <1>2, Undecided DEF verdictReturn, SetOrder, TradeTypeOK
<1>3. CASE verdictSettle(a, i)
  <2> DEFINE gifts == {}
  <2>1. /\ SetOrder(i, "COMPLETED") /\ CanSend("settle")
        /\ deferred' = deferred \cup {Settlement(i)} \cup gifts
    BY <1>3 DEF verdictSettle
  <2>2. \A g \in gifts : ~IsPayout(g)
    OBVIOUS
  <2> HIDE DEF gifts
  <2> QED
    BY <1>1, <2>1, <2>2, SettleFollows
<1>4. CASE CloseArb(a) /\ UNCHANGED vars
  BY <1>4, NothingSent DEF vars, tradeVars
<1> QED
  BY <1>1, <1>2, <1>3, <1>4 DEF verdictOnOrder, verdictRefund, verdictRedeliver

\* Every step of the market.
LEMMA MarketFollows ==
  ASSUME MarketInv, AwaitedNext
  PROVE  \A j \in OrderId : Follows(j)
<1>1. CASE TradeNext /\ UNCHANGED arbs
  BY <1>1, TradeFollows DEF MarketInv, MarketTypeOK, SalesInv, TradeInv
<1>2. ASSUME NEW type \in ArbTypes, NEW parties \in Parties, NEW pid \in Pid,
             applyarbit(type, parties, pid)
      PROVE  \A j \in OrderId : Follows(j)
  <2>1. ASSUME NEW i \in Placed, applyarbitOrder(parties, pid, i)
        PROVE  \A j \in OrderId : Follows(j)
    BY <1>2, <2>1, Undecided DEF applyarbit, applyarbitOrder, IsDisputable, SetOrder, MarketInv,
                                 MarketTypeOK, TypeOK, TradeTypeOK
  <2>2. CASE UNCHANGED orders
    BY <1>2, <2>2, NothingSent DEF applyarbit
  <2> QED
    BY <1>2, <2>1, <2>2 DEF applyarbit, applyarbitEarly, applyarbitOther
<1>3. ASSUME NEW uid \in Uid, NEW a \in ArbId, inarbit(uid, a)
      PROVE  \A j \in OrderId : Follows(j)
  BY <1>3, NothingSent DEF inarbit, vars, tradeVars
<1>4. ASSUME NEW a \in ArbId, NEW winner, IsAwaited(a), updatearbit(a, winner)
      PROVE  \A j \in OrderId : Follows(j)
  <2>1. CASE UNCHANGED tradeVars
    BY <2>1, NothingSent DEF tradeVars
  <2>2. ASSUME NEW i \in OrderId, Concerns(a, i), verdictOnOrder(a, i, winner)
        PROVE  \A j \in OrderId : Follows(j)
    BY <1>4, <2>2, VerdictFollows
  <2> QED
    BY <1>4, <2>1, <2>2 DEF updatearbit, verdictNoOrder, verdictOnComplaint, vars
<1> QED
  BY <1>1, <1>2, <1>3, <1>4 DEF AwaitedNext

\* And whoever an order is decided for, by a receipt, a return or a verdict, the
\* same step sends the money there, and no other step sends any: no order is
\* decided without its payout, none is paid for twice.
THEOREM PayoutsFollowOutcomes == AwaitedSpec => PayoutFollowsOutcome
<1>1. MarketInv /\ [AwaitedNext]_marketVars => [\A i \in OrderId : Follows(i)]_vars
  BY MarketFollows DEF marketVars
<1>2. [\A i \in OrderId : Follows(i)]_vars <=>
        [\A i \in OrderId : /\ Sends("settle", i) <=> Becomes(i, "COMPLETED")
                            /\ Sends("refund", i) <=> Becomes(i, "CANCELLED")]_vars
  BY DEF Follows
<1> QED
  BY <1>1, <1>2, MarketIsConsistent, PTL DEF AwaitedSpec, PayoutFollowsOutcome

-----------------------------------------------------------------------------
(* Solvency: the balance covers what is in escrow, on its way and earned.   *)

\* What the buyers of the orders in S have paid, or are to pay.
Paid(rows, S) == SumFunctionOnSet([i \in S |-> rows[i].price + rows[i].postage], S)

Charge(row) == row.price + row.postage

OrderTable == [OrderId -> OrderRow \cup {NoOrder}]

\* Every row has a charge; that of no order is nothing.
LEMMA ChargeNat ==
  ASSUME NEW rows \in OrderTable, NEW i \in OrderId
  PROVE  Charge(rows[i]) \in Nat
BY DEF Charge, OrderTable, OrderRow, NoOrder

\* What is paid is a sum over a finite set.
LEMMA PaidType ==
  ASSUME NEW rows \in OrderTable, NEW S \in SUBSET OrderId
  PROVE  /\ IsFiniteSet(S) /\ Paid(rows, S) \in Nat
         /\ Paid(rows, S) = SumFunctionOnSet([i \in OrderId |-> Charge(rows[i])], S)
<1> DEFINE f == [i \in S |-> rows[i].price + rows[i].postage]
           g == [i \in OrderId |-> Charge(rows[i])]
<1>1. IsFiniteSet(S)
  <2>1. IsFiniteSet(OrderId)
    BY FS_Interval, TradeAssumption DEF OrderId
  <2> QED
    BY <2>1, FS_Subset
<1>2. \A i \in S : f[i] \in Nat /\ f[i] = g[i]
  BY ChargeNat DEF Charge
<1> HIDE DEF f, g
<1>3. SumFunctionOnSet(f, S) = SumFunctionOnSet(g, S) /\ SumFunctionOnSet(f, S) \in Nat
  BY <1>1, <1>2, SumSame, SumNat
<1> QED
  BY <1>1, <1>3 DEF Paid, f, g

\* As long as nobody is charged otherwise, the sum stays.
LEMMA PaidSame ==
  ASSUME NEW rows \in OrderTable, NEW rows2 \in OrderTable, NEW S \in SUBSET OrderId,
         \A i \in S : Charge(rows2[i]) = Charge(rows[i])
  PROVE  Paid(rows2, S) = Paid(rows, S)
<1>1. [i \in S |-> rows2[i].price + rows2[i].postage]
        = [i \in S |-> rows[i].price + rows[i].postage]
  BY DEF Charge
<1> QED
  BY <1>1 DEF Paid

\* An order more is its charge more.
LEMMA PaidAdd ==
  ASSUME NEW rows \in OrderTable, NEW S \in SUBSET OrderId, NEW i \in OrderId, i \notin S
  PROVE  Paid(rows, S \cup {i}) = Charge(rows[i]) + Paid(rows, S)
<1> DEFINE g == [j \in OrderId |-> Charge(rows[j])]
<1>1. IsFiniteSet(S) /\ S \cup {i} \in SUBSET OrderId
  BY PaidType
<1>2. /\ Paid(rows, S \cup {i}) = SumFunctionOnSet(g, S \cup {i})
      /\ Paid(rows, S) = SumFunctionOnSet(g, S)
  BY <1>1, PaidType
<1>3. g[i] = Charge(rows[i]) /\ \A j \in S \cup {i} : g[j] \in Int
  BY ChargeNat
<1> HIDE DEF g
<1>4. SumFunctionOnSet(g, S \cup {i}) = g[i] + SumFunctionOnSet(g, S)
  BY <1>1, <1>3, SumAdd
<1> QED
  BY <1>2, <1>3, <1>4

-----------------------------------------------------------------------------
EscrowStatus == {"PENDING_SHIPMENT", "PENDING_RECEIPT", "ARBITRATION", "RETURN"}

\* The orders in escrow, and what their buyers have paid.
EscrowOf(rows, c) ==
  {i \in OrderId : rows[i].coin = c /\ rows[i].status \in EscrowStatus}
Escrowed(rows, c) == Paid(rows, EscrowOf(rows, c))

\* It is an amount.
LEMMA EscrowedNat ==
  ASSUME NEW rows \in OrderTable, NEW c
  PROVE  Escrowed(rows, c) \in Nat
<1>1. EscrowOf(rows, c) \in SUBSET OrderId
  BY DEF EscrowOf
<1> QED
  BY <1>1, PaidType DEF Escrowed

\* What a step may leave alone: the orders in escrow, and their charge.
SameEscrow(rows, rows2) ==
  \A i \in OrderId :
    \/ rows2[i].status \notin EscrowStatus /\ rows[i].status \notin EscrowStatus
    \/ /\ rows2[i].status \in EscrowStatus /\ rows[i].status \in EscrowStatus
       /\ rows2[i].coin = rows[i].coin /\ Charge(rows2[i]) = Charge(rows[i])

\* Orders that stay in escrow at the same charge hold the same amount.
LEMMA EscrowedSame ==
  ASSUME NEW rows \in OrderTable, NEW rows2 \in OrderTable, NEW c, SameEscrow(rows, rows2)
  PROVE  Escrowed(rows2, c) = Escrowed(rows, c)
<1>1. EscrowOf(rows2, c) = EscrowOf(rows, c) /\ EscrowOf(rows, c) \in SUBSET OrderId
  BY DEF EscrowOf, SameEscrow
<1>2. \A i \in EscrowOf(rows, c) : Charge(rows2[i]) = Charge(rows[i])
  BY DEF EscrowOf, SameEscrow
<1> QED
  BY <1>1, <1>2, PaidSame DEF Escrowed

\* The orders table with the status of one order set.
SetTo(rows, i, status) == [rows EXCEPT ![i].status = status]

\* Setting the status of an order moves its charge into escrow or out of it,
\* for its coin and no other.
LEMMA EscrowedMoved ==
  ASSUME NEW rows \in OrderTable, NEW i \in OrderId, rows[i] \in OrderRow,
         NEW status \in OrderStatus
  PROVE  LET rows2 == SetTo(rows, i, status)
             c0    == rows[i].coin
         IN
         /\ rows2 \in OrderTable
         /\ \A c : c # c0 => Escrowed(rows2, c) = Escrowed(rows, c)
         /\ rows[i].status \notin EscrowStatus /\ status \in EscrowStatus =>
              Escrowed(rows2, c0) = Charge(rows[i]) + Escrowed(rows, c0)
         /\ rows[i].status \in EscrowStatus /\ status \notin EscrowStatus =>
              Escrowed(rows, c0) = Charge(rows[i]) + Escrowed(rows2, c0)
<1> DEFINE rows2 == SetTo(rows, i, status)
<1>1. /\ \A j \in OrderId \ {i} : rows2[j] = rows[j]
      /\ rows2[i] \in OrderRow /\ rows2[i].status = status /\ rows2[i].coin = rows[i].coin
      /\ rows2[i].price = rows[i].price /\ rows2[i].postage = rows[i].postage
  BY DEF OrderTable, OrderRow, SetTo
<1>2. rows2 \in OrderTable
  BY <1>1 DEF OrderTable, SetTo
<1> HIDE DEF rows2
<1>3. \A j \in OrderId : Charge(rows2[j]) = Charge(rows[j])
  BY <1>1 DEF Charge
<1>4. \A S \in SUBSET OrderId : Paid(rows2, S) = Paid(rows, S)
  BY <1>2, <1>3, PaidSame
<1>5. ASSUME NEW c, c # rows[i].coin
      PROVE  Escrowed(rows2, c) = Escrowed(rows, c)
  <2>1. EscrowOf(rows2, c) = EscrowOf(rows, c) /\ EscrowOf(rows, c) \in SUBSET OrderId
    BY <1>1, <1>5 DEF EscrowOf
  <2> QED
    BY <1>4, <2>1 DEF Escrowed
<1> DEFINE d == rows[i].coin
<1>6. ASSUME rows[i].status \notin EscrowStatus, status \in EscrowStatus
      PROVE  Escrowed(rows2, d) = Charge(rows[i]) + Escrowed(rows, d)
  <2>1. /\ i \notin EscrowOf(rows, d) /\ EscrowOf(rows, d) \in SUBSET OrderId
        /\ EscrowOf(rows2, d) = EscrowOf(rows, d) \cup {i}
    BY <1>1, <1>6 DEF EscrowOf
  <2>2. Paid(rows, EscrowOf(rows2, d)) = Charge(rows[i]) + Paid(rows, EscrowOf(rows, d))
    BY <2>1, PaidAdd
  <2>3. EscrowOf(rows2, d) \in SUBSET OrderId
    BY DEF EscrowOf
  <2> QED
    BY <1>4, <2>2, <2>3 DEF Escrowed
<1>7. ASSUME rows[i].status \in EscrowStatus, status \notin EscrowStatus
      PROVE  Escrowed(rows, d) = Charge(rows[i]) + Escrowed(rows2, d)
  <2>1. /\ i \notin EscrowOf(rows2, d) /\ EscrowOf(rows2, d) \in SUBSET OrderId
        /\ EscrowOf(rows, d) = EscrowOf(rows2, d) \cup {i}
    BY <1>1, <1>7 DEF EscrowOf
  <2> DEFINE S == EscrowOf(rows2, d)
  <2> HIDE DEF S
  <2>2. Paid(rows, S \cup {i}) = Charge(rows[i]) + Paid(rows, S)
    BY <2>1, PaidAdd DEF S
  <2> QED
    BY <1>4, <2>1, <2>2 DEF Escrowed, S
<1> QED
  BY <1>2, <1>5, <1>6, <1>7 DEF rows2

-----------------------------------------------------------------------------
\* The payouts of a coin under way, and what they transfer.
PayoutsOf(D, c) == {d \in D : d.coin = c /\ d.tag \in {"settle", "refund"}}
Due(D, c) == Total(PayoutsOf(D, c))

\* Finitely many payouts under way owe an amount that is not negative.
LEMMA DueNat ==
  ASSUME NEW D, D \subseteq DeferredRow, IsFiniteSet(D), NEW c
  PROVE  /\ PayoutsOf(D, c) \subseteq DeferredRow /\ IsFiniteSet(PayoutsOf(D, c))
         /\ Due(D, c) \in Nat
<1>1. PayoutsOf(D, c) \subseteq DeferredRow /\ IsFiniteSet(PayoutsOf(D, c))
  BY FS_Subset DEF PayoutsOf
<1> QED
  BY <1>1, TotalIsSum DEF Due

Sent(D, p, gifts) == D \cup {p} \cup gifts

\* A payout that is sent is due in its coin; a gift beside it is not.
LEMMA DueSent ==
  ASSUME NEW D, D \subseteq DeferredRow, IsFiniteSet(D), NEW p \in DeferredRow, p \notin D,
         p.tag \in {"settle", "refund"}, NEW gifts, \A g \in gifts : ~IsPayout(g), NEW c
  PROVE  Due(Sent(D, p, gifts), c) = IF p.coin = c THEN TransferTotal(p) + Due(D, c)
                                     ELSE Due(D, c)
<1> DEFINE S == PayoutsOf(D, c)
<1>1. S \subseteq DeferredRow /\ IsFiniteSet(S) /\ p \notin S
  BY DueNat DEF PayoutsOf
<1>2. p.coin = c => PayoutsOf(Sent(D, p, gifts), c) = S \cup {p}
  BY DEF PayoutsOf, IsPayout, Sent
<1>3. p.coin # c => PayoutsOf(Sent(D, p, gifts), c) = S
  BY DEF PayoutsOf, IsPayout, Sent
<1> HIDE DEF S
<1>4. Total(S \cup {p}) = TransferTotal(p) + Total(S)
  BY <1>1, TotalAdd
<1> QED
  BY <1>2, <1>3, <1>4 DEF Due, S

\* A transaction that goes takes along what was due.
LEMMA DueLeft ==
  ASSUME NEW D, D \subseteq DeferredRow, IsFiniteSet(D), NEW d \in D, NEW c
  PROVE  /\ d \in PayoutsOf(D, c) => Due(D, c) = TransferTotal(d) + Due(D \ {d}, c)
         /\ d \notin PayoutsOf(D, c) => Due(D \ {d}, c) = Due(D, c)
<1> DEFINE S == PayoutsOf(D, c)
<1>1. S \subseteq DeferredRow /\ IsFiniteSet(S) /\ PayoutsOf(D \ {d}, c) = S \ {d}
  BY DueNat DEF PayoutsOf
<1>2. d \notin S => S \ {d} = S
  OBVIOUS
<1> HIDE DEF S
<1>3. d \in S => Total(S) = TransferTotal(d) + Total(S \ {d})
  BY <1>1, TotalRemove
<1> QED
  BY <1>1, <1>2, <1>3 DEF Due, S

-----------------------------------------------------------------------------
\* Solvent, as a relation between tables.
Covers(vlt, inc, rows, D) ==
  \A c \in Coin : OneLedger(c) =>
    vlt[SettleLedger(c)][c] >= inc[c] + Escrowed(rows, c) + Due(D, c)

\* Solvency in terms of the tables before and after a step.
LEMMA SolventMeans ==
  /\ Solvent <=> Covers(vault, income, orders, deferred)
  /\ Solvent' <=> Covers(vault', income', orders', deferred')
<1>1. \A c : InEscrow(c) = EscrowOf(orders, c) /\ Payouts(c) = PayoutsOf(deferred, c)
  BY DEF InEscrow, Placed, EscrowOf, EscrowStatus, Payouts, PayoutsOf
<1>2. \A S : PaidIn(S) = Paid(orders, S)
  BY DEF PaidIn, Paid, SumFunction
<1>3. Solvent <=> Covers(vault, income, orders, deferred)
  BY <1>1, <1>2 DEF Solvent, Covers, Escrowed, Due
<1>4. \A c : /\ {i \in Placed' : /\ orders'[i].coin = c
                                 /\ orders'[i].status \in EscrowStatus} = EscrowOf(orders', c)
             /\ {d \in deferred' : d.coin = c /\ d.tag \in {"settle", "refund"}}
                  = PayoutsOf(deferred', c)
  BY DEF Placed, EscrowOf, EscrowStatus, PayoutsOf
<1>5. Solvent' <=> Covers(vault', income', orders', deferred')
  BY <1>4 DEF Solvent, Covers, Escrowed, Due, PaidIn, Paid, SumFunction, InEscrow, Payouts,
              EscrowStatus
<1> QED
  BY <1>3, <1>5

-----------------------------------------------------------------------------
(* What each kind of step does to the two sides. *)

\* What the inequality is between.
LEMMA CoverTypes ==
  ASSUME TradeTypeOK, IsFiniteSet(deferred), NEW c \in Coin
  PROVE  /\ orders \in OrderTable /\ SettleLedger(c) \in Ledger
         /\ vault[SettleLedger(c)][c] \in Nat /\ income[c] \in Nat
         /\ Escrowed(orders, c) \in Nat /\ Due(deferred, c) \in Nat
<1>1. orders \in OrderTable /\ SettleLedger(c) \in Ledger
  BY DEF TradeTypeOK, OrderTable, SettleLedger, Ledger
<1> QED
  BY <1>1, EscrowedNat, DueNat DEF TradeTypeOK

\* Nothing paid, decided, delivered or lost.
LEMMA SameSolvent ==
  ASSUME TradeTypeOK, orders' \in OrderTable, SameEscrow(orders, orders'),
         UNCHANGED <<vault, income, deferred>>, Solvent
  PROVE  Solvent'
<1>1. orders \in OrderTable
  BY DEF TradeTypeOK, OrderTable
<1>2. \A c : Escrowed(orders', c) = Escrowed(orders, c)
  BY <1>1, EscrowedSame
<1> QED
  BY <1>2, SolventMeans DEF Covers

\* A payment comes in on the ledger its refund or its settlement will leave.
LEMMA PaySolvent ==
  ASSUME TradeTypeOK, IsFiniteSet(deferred), NEW i \in OrderId, NEW ledger \in Ledger,
         PayOrder(i, ledger), Solvent
  PROVE  Solvent'
<1> DEFINE c0 == orders[i].coin
<1>1. /\ orders[i].status = "PENDING_PAYMENT" /\ c0 \in Issued[ledger]
      /\ orders' = SetTo(orders, i, "PENDING_SHIPMENT")
      /\ vault' = [vault EXCEPT ![ledger][c0] = @ + Charge(orders[i])]
      /\ UNCHANGED <<deferred, income>>
  BY DEF PayOrder, SetOrder, Charge, SetTo
<1>2. orders[i] \in OrderRow /\ c0 \in Coin /\ Charge(orders[i]) \in Nat
  BY <1>1, PlacedRow DEF Charge
<1>3. /\ \A c \in Coin : c # c0 => Escrowed(orders', c) = Escrowed(orders, c)
      /\ Escrowed(orders', c0) = Charge(orders[i]) + Escrowed(orders, c0)
  <2>1. orders \in OrderTable /\ "PENDING_SHIPMENT" \in OrderStatus
    BY DEF TradeTypeOK, OrderTable, OrderStatus
  <2>2. orders[i].status \notin EscrowStatus /\ "PENDING_SHIPMENT" \in EscrowStatus
    BY <1>1 DEF EscrowStatus
  <2> QED
    BY <1>1, <1>2, <2>1, <2>2, EscrowedMoved
<1> HIDE DEF c0
<1>4. ASSUME NEW c \in Coin, OneLedger(c),
             vault[SettleLedger(c)][c] >= income[c] + Escrowed(orders, c) + Due(deferred, c)
      PROVE  vault'[SettleLedger(c)][c]
               >= income'[c] + Escrowed(orders', c) + Due(deferred', c)
  <2>1. /\ SettleLedger(c) \in Ledger /\ vault[SettleLedger(c)][c] \in Nat
        /\ income[c] \in Nat /\ Escrowed(orders, c) \in Nat /\ Due(deferred, c) \in Nat
    BY CoverTypes
  <2>2. CASE c = c0
    <3>1. ledger = SettleLedger(c)
      BY <1>1, <1>4, <2>2 DEF OneLedger
    <3>2. vault'[SettleLedger(c)][c] = vault[SettleLedger(c)][c] + Charge(orders[i])
      BY <1>1, <1>2, <2>1, <2>2, <3>1 DEF TradeTypeOK
    <3> QED
      BY <1>1, <1>2, <1>3, <1>4, <2>1, <2>2, <3>2
  <2>3. CASE c # c0
    <3>1. vault'[SettleLedger(c)][c] = vault[SettleLedger(c)][c]
      BY <1>1, <2>1, <2>3 DEF TradeTypeOK
    <3> QED
      BY <1>1, <1>3, <1>4, <2>3, <3>1
  <2> QED
    BY <2>2, <2>3
<1> QED
  BY <1>4, SolventMeans DEF Covers

\* A decision turns what was in escrow into what is due and what is earned.
LEMMA DecideSolvent ==
  ASSUME TradeTypeOK, IsFiniteSet(deferred), NEW i \in OrderId,
         orders[i].status \in EscrowStatus, NEW status \in OrderStatus,
         status \notin EscrowStatus, SetOrder(i, status),
         NEW p \in DeferredRow, p.tag \in {"settle", "refund"}, p.at = now, CanSend(p.tag),
         p.coin = orders[i].coin,
         NEW gifts, \A g \in gifts : ~IsPayout(g),
         deferred' = deferred \cup {p} \cup gifts,
         NEW cut \in Nat, TransferTotal(p) + cut = Charge(orders[i]),
         income' = [income EXCEPT ![orders[i].coin] = @ + cut],
         UNCHANGED vault, Solvent
  PROVE  Solvent'
<1> DEFINE c0 == orders[i].coin
<1>1. /\ orders[i] \in OrderRow /\ c0 \in Coin /\ Charge(orders[i]) \in Nat
      /\ TransferTotal(p) \in Nat
  BY PlacedRow, TransferTotalNat DEF Charge, EscrowStatus
<1>2. /\ \A c \in Coin : c # c0 => Escrowed(orders', c) = Escrowed(orders, c)
      /\ Escrowed(orders, c0) = Charge(orders[i]) + Escrowed(orders', c0)
      /\ Escrowed(orders', c0) \in Nat
  <2>1. orders \in OrderTable /\ orders' = SetTo(orders, i, status)
    BY DEF TradeTypeOK, OrderTable, SetOrder, SetTo
  <2>2. /\ orders' \in OrderTable
        /\ \A c : c # c0 => Escrowed(orders', c) = Escrowed(orders, c)
        /\ Escrowed(orders, c0) = Charge(orders[i]) + Escrowed(orders', c0)
    BY <1>1, <2>1, EscrowedMoved
  <2> QED
    BY <2>2, EscrowedNat
<1>3. /\ Due(deferred', c0) = TransferTotal(p) + Due(deferred, c0)
      /\ \A c : c # c0 => Due(deferred', c) = Due(deferred, c)
  <2>1. p \notin deferred /\ deferred \subseteq DeferredRow
    BY DEF CanSend, TradeTypeOK
  <2>2. deferred' = Sent(deferred, p, gifts)
    BY DEF Sent
  <2>3. \A c : Due(Sent(deferred, p, gifts), c)
                = IF p.coin = c THEN TransferTotal(p) + Due(deferred, c) ELSE Due(deferred, c)
    BY <2>1, DueSent
  <2> QED
    BY <2>2, <2>3
<1>4. /\ income'[c0] = income[c0] + cut
      /\ \A c \in Coin : c # c0 => income'[c] = income[c]
  BY <1>1 DEF TradeTypeOK
<1> HIDE DEF c0
<1>5. ASSUME NEW c \in Coin, OneLedger(c),
             vault[SettleLedger(c)][c] >= income[c] + Escrowed(orders, c) + Due(deferred, c)
      PROVE  vault'[SettleLedger(c)][c]
               >= income'[c] + Escrowed(orders', c) + Due(deferred', c)
  <2>1. /\ vault[SettleLedger(c)][c] \in Nat
        /\ income[c] \in Nat /\ Escrowed(orders, c) \in Nat /\ Due(deferred, c) \in Nat
    BY CoverTypes
  <2>2. CASE c = c0
    BY <1>1, <1>2, <1>3, <1>4, <1>5, <2>1, <2>2
  <2>3. CASE c # c0
    BY <1>2, <1>3, <1>4, <1>5, <2>3
  <2> QED
    BY <2>2, <2>3
<1> QED
  BY <1>5, SolventMeans DEF Covers

\* The seller wins: he, the devops account and the referrer are paid, and the
\* rest is earned.
LEMMA SettleSolvent ==
  ASSUME TradeTypeOK, IsFiniteSet(deferred), NEW i \in OrderId,
         orders[i].status \in EscrowStatus, SetOrder(i, "COMPLETED"), CanSend("settle"),
         NEW gifts, \A g \in gifts : ~IsPayout(g),
         deferred' = deferred \cup {Settlement(i)} \cup gifts,
         BookIncome(i), UNCHANGED vault, Solvent
  PROVE  Solvent'
<1> DEFINE p == Settlement(i)
           cut == Cut(i).income
<1>1. orders[i].status # "NONE"
  BY DEF EscrowStatus
<1>2. cut \in Nat /\ TransferTotal(p) + cut = Charge(orders[i])
  <2>1. /\ Cut(i).seller \in Nat /\ Cut(i).devops \in Nat
        /\ Cut(i).referrer \in Nat /\ Cut(i).income \in Nat
        /\ Cut(i).seller + Cut(i).devops + Cut(i).referrer + Cut(i).income
             = Charge(orders[i])
    BY <1>1, CutConserves DEF Charge
  <2>2. TransferTotal(p) = Cut(i).seller + 0 + Cut(i).devops + Cut(i).referrer
    BY DEF TransferTotal, Settlement
  <2> QED
    BY <2>1, <2>2
<1>3. /\ p \in DeferredRow /\ p.tag = "settle" /\ p.at = now /\ p.coin = orders[i].coin
      /\ income' = [income EXCEPT ![orders[i].coin] = @ + cut]
      /\ "COMPLETED" \in OrderStatus /\ "COMPLETED" \notin EscrowStatus
  BY <1>1, PayoutType DEF Settlement, BookIncome, OrderStatus, EscrowStatus
<1>4. deferred' = deferred \cup {p} \cup gifts
  OBVIOUS
<1> HIDE DEF p, cut
<1> QED
  BY <1>2, <1>3, <1>4, DecideSolvent

\* The buyer wins: the price and the postage leave, and nothing is earned.
LEMMA RefundSolvent ==
  ASSUME TradeTypeOK, IsFiniteSet(deferred), NEW i \in OrderId,
         orders[i].status \in EscrowStatus, SetOrder(i, "CANCELLED"), CanSend("refund"),
         deferred' = deferred \cup {Refund(i)}, UNCHANGED <<vault, income>>, Solvent
  PROVE  Solvent'
<1> DEFINE p == Refund(i)
           gifts == {}
<1>1. orders[i].status # "NONE"
  BY DEF EscrowStatus
<1>2. TransferTotal(p) + 0 = Charge(orders[i])
  <2>1. orders[i].price \in Nat /\ orders[i].postage \in Nat
    BY <1>1, PlacedRow
  <2>2. TransferTotal(p) = orders[i].postage + orders[i].price + 0 + 0
    BY DEF TransferTotal, Refund
  <2> QED
    BY <2>1, <2>2 DEF Charge
<1>3. /\ p \in DeferredRow /\ p.tag = "refund" /\ p.at = now /\ p.coin = orders[i].coin
      /\ "CANCELLED" \in OrderStatus /\ "CANCELLED" \notin EscrowStatus
  BY <1>1, PayoutType DEF Refund, OrderStatus, EscrowStatus
<1>4. income' = [income EXCEPT ![orders[i].coin] = @ + 0]
  <2>1. income \in [Coin -> Nat] /\ orders[i].coin \in Coin
    BY <1>1, PlacedRow DEF TradeTypeOK
  <2> QED
    BY <2>1
<1>5. deferred' = deferred \cup {p} \cup gifts /\ \A g \in gifts : ~IsPayout(g)
  OBVIOUS
<1> HIDE DEF p, gifts
<1>6. 0 \in Nat
  OBVIOUS
<1> QED
  BY <1>2, <1>3, <1>4, <1>5, <1>6, DecideSolvent

\* What is delivered leaves the balance, what is lost stays in it.
LEMMA LeaveSolvent ==
  ASSUME TradeTypeOK, IsFiniteSet(deferred), NEW d \in deferred,
         ExecutePayout(d) \/ ExecuteGift(d) \/ DropDeferred(d), Solvent
  PROVE  Solvent'
<1>1. /\ deferred' = deferred \ {d} /\ deferred \subseteq DeferredRow
      /\ d \in DeferredRow /\ UNCHANGED <<orders, income>> /\ TransferTotal(d) \in Nat
  BY TransferTotalNat
     DEF ExecutePayout, ExecuteGift, DropDeferred, Deliver, TradeTypeOK
<1>2. ASSUME NEW c \in Coin, OneLedger(c),
             vault[SettleLedger(c)][c] >= income[c] + Escrowed(orders, c) + Due(deferred, c)
      PROVE  vault'[SettleLedger(c)][c]
               >= income'[c] + Escrowed(orders', c) + Due(deferred', c)
  <2>1. /\ SettleLedger(c) \in Ledger /\ vault[SettleLedger(c)][c] \in Nat
        /\ income[c] \in Nat /\ Escrowed(orders, c) \in Nat /\ Due(deferred, c) \in Nat
    BY CoverTypes
  <2>2. Due(deferred', c) \in Nat
    <3>1. IsFiniteSet(deferred') /\ deferred' \subseteq DeferredRow
      BY <1>1, FS_RemoveElement
    <3> QED
      BY <3>1, DueNat
  <2>3. CASE d \in PayoutsOf(deferred, c)
    <3>1. Due(deferred, c) = TransferTotal(d) + Due(deferred', c)
      BY <1>1, <2>3, DueLeft
    <3>2. \/ vault'[SettleLedger(c)][c] = vault[SettleLedger(c)][c]
          \/ vault'[SettleLedger(c)][c] = vault[SettleLedger(c)][c] - TransferTotal(d)
      BY <2>1 DEF ExecutePayout, ExecuteGift, DropDeferred, TradeTypeOK
    <3> QED
      BY <1>1, <1>2, <2>1, <2>2, <3>1, <3>2
  <2>4. CASE d \notin PayoutsOf(deferred, c)
    <3>1. Due(deferred', c) = Due(deferred, c)
      BY <1>1, <2>4, DueLeft
    <3>2. vault'[SettleLedger(c)][c] = vault[SettleLedger(c)][c]
      BY <2>1, <2>4 DEF ExecutePayout, ExecuteGift, DropDeferred, TradeTypeOK, PayoutsOf
    <3> QED
      BY <1>1, <1>2, <3>1, <3>2
  <2> QED
    BY <2>3, <2>4
<1> QED
  BY <1>2, SolventMeans DEF Covers

-----------------------------------------------------------------------------
(* Every step is of one of these kinds. *)

\* A status outside escrow, or inside, that stays there.
LEMMA SameSide ==
  ASSUME TradeTypeOK, NEW i \in OrderId, orders[i].status # "NONE", NEW status \in OrderStatus,
         SetOrder(i, status), status \in EscrowStatus <=> orders[i].status \in EscrowStatus
  PROVE  SameEscrow(orders, orders')
<1>1. orders[i] \in OrderRow
  BY PlacedRow
<1>2. /\ \A j \in OrderId \ {i} : orders'[j] = orders[j]
      /\ orders'[i].status = status /\ orders'[i].coin = orders[i].coin
      /\ orders'[i].price = orders[i].price /\ orders'[i].postage = orders[i].postage
  BY <1>1 DEF SetOrder, TradeTypeOK, OrderRow
<1> QED
  BY <1>2 DEF SameEscrow, Charge

\* The steps that neither pay nor decide an order.
LEMMA OrderSame ==
  ASSUME TradeTypeOK, NEW i \in OrderId,
         \/ cancelorder(i) \/ cleanorder(i) \/ shipment(i) \/ deferreceipt(i)
         \/ returns(i)     \/ reshipment(i) \/ deferreturn(i)
  PROVE  SameEscrow(orders, orders') /\ UNCHANGED <<vault, income, deferred>>
<1>1. UNCHANGED <<vault, income, deferred>>
  BY DEF cancelorder, cleanorder, shipment, deferreceipt, returns, reshipment, deferreturn
<1>2. CASE cancelorder(i)
  <2>1. orders[i].status \notin EscrowStatus /\ orders' = [orders EXCEPT ![i] = NoOrder]
    BY <1>2 DEF cancelorder, EscrowStatus
  <2>2. NoOrder.status \notin EscrowStatus
    BY DEF NoOrder, EscrowStatus
  <2> QED
    BY <1>1, <2>1, <2>2 DEF SameEscrow, TradeTypeOK
<1>3. CASE cleanorder(i)
  <2>1. \A j \in OrderId : \/ orders'[j] = orders[j]
                           \/ orders'[j] = NoOrder /\ Expired(j)
    BY <1>3 DEF cleanorder
  <2>2. /\ NoOrder.status \notin EscrowStatus
        /\ \A j \in OrderId : Expired(j) => orders[j].status \notin EscrowStatus
    BY DEF NoOrder, EscrowStatus, Expired
  <2> QED
    BY <1>1, <2>1, <2>2 DEF SameEscrow
<1>4. CASE shipment(i) \/ deferreceipt(i)
  <2>1. orders[i] \in OrderRow
    BY <1>4, PlacedRow DEF shipment, deferreceipt
  <2>2. /\ \A j \in OrderId \ {i} : orders'[j] = orders[j]
        /\ orders'[i].coin = orders[i].coin
        /\ orders'[i].price = orders[i].price /\ orders'[i].postage = orders[i].postage
        /\ \/ orders'[i].status = orders[i].status
           \/ orders'[i].status = "PENDING_RECEIPT" /\ orders[i].status = "PENDING_SHIPMENT"
    <3>1. CASE shipment(i)
      BY <2>1, <3>1 DEF shipment, TradeTypeOK, OrderRow
    <3>2. CASE deferreceipt(i)
      BY <2>1, <3>2 DEF deferreceipt, TradeTypeOK, OrderRow
    <3> QED
      BY <1>4, <3>1, <3>2
  <2> QED
    BY <1>1, <2>2 DEF SameEscrow, Charge, EscrowStatus
<1>5. CASE returns(i)
  <2>1. /\ orders[i].status = "PENDING_RECEIPT" /\ SetOrder(i, "RETURN")
        /\ "RETURN" \in OrderStatus
    BY <1>5 DEF returns, OrderStatus
  <2> QED
    BY <1>1, <2>1, SameSide DEF EscrowStatus
<1>6. CASE reshipment(i) \/ deferreturn(i)
  BY <1>1, <1>6 DEF reshipment, deferreturn, SameEscrow
<1> QED
  BY <1>2, <1>3, <1>4, <1>5, <1>6

\* An order that is placed is not paid yet.
LEMMA PlaceorderSame ==
  ASSUME TradeTypeOK, NEW buyer \in Uid, NEW pid \in Pid, NEW t, placeorder(buyer, pid, t)
  PROVE  SameEscrow(orders, orders') /\ UNCHANGED <<vault, income, deferred>>
<1>1. PICK i \in OrderId : /\ IsNextId(i, Placed, 1)
                           /\ orders' = [orders EXCEPT ![i] = NewOrder(buyer, pid, t)]
  BY DEF placeorder
<1>2. orders[i].status = "NONE"
  BY <1>1, TradeAssumption DEF IsNextId, Placed, OrderId
<1>3. /\ \A j \in OrderId \ {i} : orders'[j] = orders[j]
      /\ orders'[i].status = "PENDING_PAYMENT"
  BY <1>1 DEF TradeTypeOK, NewOrder
<1> QED
  BY <1>2, <1>3 DEF SameEscrow, EscrowStatus, placeorder

\* No step of a trade pays out what is not there.
LEMMA TradeSolvent ==
  ASSUME TradeInv, SalesInv, IsFiniteSet(deferred), Solvent, TradeNext
  PROVE  Solvent'
<1>1. TradeTypeOK
  BY DEF TradeInv, TypeOK
<1>2. orders' \in OrderTable
  <2>1. TradeInv'
    BY TradeStepType
  <2> QED
    BY <2>1 DEF TradeInv, TypeOK, TradeTypeOK, OrderTable
<1>3. CASE SameEscrow(orders, orders') /\ UNCHANGED <<vault, income, deferred>>
  BY <1>1, <1>2, <1>3, SameSolvent
<1>4. CASE (CatalogNext /\ UNCHANGED tradeVars) \/ Tick
  <2>1. SameEscrow(orders, orders') /\ UNCHANGED <<vault, income, deferred>>
    BY <1>4 DEF SameEscrow, tradeVars, Tick
  <2> QED
    BY <1>3, <2>1
<1>5. ASSUME NEW i \in OrderId, OnEOSTransfer(i) \/ OnIBCTransfer(i) \/ OnMyTransfer(i)
      PROVE  Solvent'
  BY <1>1, <1>5, PaySolvent DEF OnEOSTransfer, OnIBCTransfer, OnMyTransfer, Ledger
<1>6. ASSUME NEW i \in OrderId, conreceipt(i)
      PROVE  Solvent'
  <2> DEFINE gifts == IF IsGiven(i) THEN {Gift(i, Points(i))} ELSE {}
  <2>1. /\ orders[i].status = "PENDING_RECEIPT" /\ SetOrder(i, "COMPLETED")
        /\ CanSend("settle") /\ BookIncome(i) /\ UNCHANGED vault
        /\ deferred' = deferred \cup {Settlement(i)} \cup gifts
    BY <1>6 DEF conreceipt
  <2>2. \A g \in gifts : ~IsPayout(g)
    BY DEF Gift, IsPayout
  <2>3. orders[i].status \in EscrowStatus
    BY <2>1 DEF EscrowStatus
  <2> HIDE DEF gifts
  <2> QED
    BY <1>1, <2>1, <2>2, <2>3, SettleSolvent
<1>7. ASSUME NEW i \in OrderId, reconreceipt(i)
      PROVE  Solvent'
  <2>1. orders[i].status \in EscrowStatus
    BY <1>7, ReconreceiptSales DEF EscrowStatus
  <2>2. /\ SetOrder(i, "CANCELLED") /\ CanSend("refund")
        /\ deferred' = deferred \cup {Refund(i)} /\ UNCHANGED <<vault, income>>
    BY <1>7 DEF reconreceipt
  <2> QED
    BY <1>1, <2>1, <2>2, RefundSolvent
<1>8. ASSUME NEW i \in OrderId,
             \/ cancelorder(i) \/ cleanorder(i) \/ shipment(i) \/ deferreceipt(i)
             \/ returns(i)     \/ reshipment(i) \/ deferreturn(i)
      PROVE  Solvent'
  BY <1>1, <1>3, <1>8, OrderSame
<1>9. ASSUME NEW buyer \in Uid, NEW pid \in Pid, NEW t \in {now} \cup ClientTimes,
             placeorder(buyer, pid, t)
      PROVE  Solvent'
  BY <1>1, <1>3, <1>9, PlaceorderSame
<1>10. ASSUME NEW d \in deferred, ExecutePayout(d) \/ ExecuteGift(d) \/ DropDeferred(d)
       PROVE  Solvent'
  BY <1>1, <1>10, LeaveSolvent
<1> QED
  BY <1>4, <1>5, <1>6, <1>7, <1>8, <1>9, <1>10 DEF TradeNext

\* Nor does an awaited verdict: it finds its order in escrow.
LEMMA VerdictSolvent ==
  ASSUME MarketInv, IsFiniteSet(deferred), Solvent,
         NEW a \in ArbId, IsAwaited(a), NEW i \in OrderId, Concerns(a, i),
         NEW winner, verdictOnOrder(a, i, winner), orders' \in OrderTable
  PROVE  Solvent'
<1>1. TradeTypeOK
  BY DEF MarketInv, MarketTypeOK, TypeOK
<1>2. orders[i].status = "ARBITRATION" /\ CaseReturn(i) = {}
  BY DecidedOrder
<1>3. CASE verdictReturn(a, i)
  <2>1. /\ SetOrder(i, "RETURN") /\ UNCHANGED <<vault, income, deferred>>
        /\ "RETURN" \in OrderStatus /\ "RETURN" \in EscrowStatus
        /\ orders[i].status \in EscrowStatus /\ orders[i].status # "NONE"
    BY <1>2, <1>3 DEF verdictReturn, OrderStatus, EscrowStatus
  <2>2. SameEscrow(orders, orders')
    BY <1>1, <2>1, SameSide
  <2> QED
    BY <1>1, <2>1, <2>2, SameSolvent
<1>4. CASE verdictSettle(a, i)
  <2> DEFINE gifts == {}
  <2>1. /\ SetOrder(i, "COMPLETED") /\ CanSend("settle") /\ BookIncome(i) /\ UNCHANGED vault
        /\ deferred' = deferred \cup {Settlement(i)} \cup gifts
        /\ orders[i].status \in EscrowStatus
    BY <1>2, <1>4 DEF verdictSettle, EscrowStatus
  <2>2. \A g \in gifts : ~IsPayout(g)
    OBVIOUS
  <2> HIDE DEF gifts
  <2> QED
    BY <1>1, <2>1, <2>2, SettleSolvent
<1>5. CASE CloseArb(a) /\ UNCHANGED vars
  <2>1. SameEscrow(orders, orders') /\ UNCHANGED <<vault, income, deferred>>
    BY <1>5 DEF SameEscrow, vars, tradeVars
  <2> QED
    BY <1>1, <2>1, SameSolvent
<1> QED
  BY <1>2, <1>3, <1>4, <1>5 DEF verdictOnOrder, verdictRefund, verdictRedeliver

\* Nor any step of the market.
LEMMA MarketSolvent ==
  ASSUME MarketInv, IsFiniteSet(deferred), Solvent, AwaitedNext
  PROVE  Solvent'
<1>1. TradeTypeOK
  BY DEF MarketInv, MarketTypeOK, TypeOK
<1>2. orders' \in OrderTable
  <2>1. MarketInv'
    BY MarketStep
  <2> QED
    BY <2>1 DEF MarketInv, MarketTypeOK, TypeOK, TradeTypeOK, OrderTable
<1>3. CASE TradeNext /\ UNCHANGED arbs
  BY <1>3, TradeSolvent DEF MarketInv, MarketTypeOK, SalesInv, TradeInv
<1>4. CASE SameEscrow(orders, orders') /\ UNCHANGED <<vault, income, deferred>>
  BY <1>1, <1>2, <1>4, SameSolvent
<1>5. ASSUME NEW type \in ArbTypes, NEW parties \in Parties, NEW pid \in Pid,
             applyarbit(type, parties, pid)
      PROVE  Solvent'
  <2>1. UNCHANGED <<vault, income, deferred>>
    BY <1>5 DEF applyarbit
  <2>2. ASSUME NEW i \in Placed, applyarbitOrder(parties, pid, i)
        PROVE  SameEscrow(orders, orders')
    <3>1. /\ orders[i].status = "PENDING_RECEIPT" /\ SetOrder(i, "ARBITRATION")
          /\ i \in OrderId /\ "ARBITRATION" \in OrderStatus
      BY <2>2 DEF applyarbitOrder, IsDisputable, Placed, OrderStatus
    <3> QED
      BY <1>1, <3>1, SameSide DEF EscrowStatus
  <2>3. UNCHANGED orders => SameEscrow(orders, orders')
    BY DEF SameEscrow
  <2> QED
    BY <1>4, <1>5, <2>1, <2>2, <2>3 DEF applyarbit, applyarbitEarly, applyarbitOther
<1>6. CASE UNCHANGED tradeVars
  BY <1>4, <1>6 DEF SameEscrow, tradeVars
<1>7. ASSUME NEW uid \in Uid, NEW a \in ArbId, inarbit(uid, a)
      PROVE  Solvent'
  BY <1>6, <1>7 DEF inarbit, vars
<1>8. ASSUME NEW a \in ArbId, NEW winner, IsAwaited(a), updatearbit(a, winner)
      PROVE  Solvent'
  <2>1. ASSUME NEW i \in OrderId, Concerns(a, i), verdictOnOrder(a, i, winner)
        PROVE  Solvent'
    BY <1>2, <1>8, <2>1, VerdictSolvent
  <2> QED
    BY <1>6, <1>8, <2>1 DEF updatearbit, verdictNoOrder, verdictOnComplaint, vars
<1> QED
  BY <1>3, <1>5, <1>7, <1>8 DEF AwaitedNext

\* At the start nothing is owed.
LEMMA NothingOwed == TradeInit => Solvent
<1> SUFFICES ASSUME TradeInit
             PROVE  Solvent
  OBVIOUS
<1>1. ASSUME NEW c \in Coin
      PROVE  vault[SettleLedger(c)][c] >= income[c] + Escrowed(orders, c) + Due(deferred, c)
  <2>1. EscrowOf(orders, c) = {} /\ PayoutsOf(deferred, c) = {}
    BY DEF TradeInit, EscrowOf, PayoutsOf, NoOrder, EscrowStatus
  <2>2. Escrowed(orders, c) = 0
    BY <2>1, SumEmpty DEF Escrowed, Paid
  <2>3. Due(deferred, c) = 0
    BY <2>1, TotalNone DEF Due
  <2>4. vault[SettleLedger(c)][c] = 0 /\ income[c] = 0
    BY DEF TradeInit, SettleLedger, Ledger
  <2> QED
    BY <2>2, <2>3, <2>4
<1> QED
  BY <1>1, SolventMeans DEF Covers

\* Without a step nothing changes hands.
LEMMA StutterSolvent ==
  ASSUME TradeTypeOK, Solvent, UNCHANGED tradeVars
  PROVE  Solvent'
<1>1. orders' \in OrderTable /\ SameEscrow(orders, orders')
  BY DEF tradeVars, TradeTypeOK, OrderTable, SameEscrow
<1> QED
  BY <1>1, SameSolvent DEF tradeVars

-----------------------------------------------------------------------------
\* The contract can always pay whom it owes in a coin that comes in and leaves
\* on one ledger: whatever is paid, confirmed, returned and refunded, and
\* whichever payouts fail or expire, the balance covers the orders in escrow,
\* the payouts under way and the income.
THEOREM TradeIsSolvent == TradeSpec => []Solvent
<1> DEFINE Inv == TradeInv /\ SalesInv /\ IsFiniteSet(deferred) /\ Solvent
<1>1. CatalogInit /\ TradeInit => Inv
  <2> SUFFICES ASSUME CatalogInit, TradeInit
               PROVE  Inv
    OBVIOUS
  <2>1. TradeInv /\ IsFiniteSet(deferred) /\ Solvent
    BY TradeInitType, NothingOwed, NoGiftsYet DEF CatalogInit
  <2>2. /\ Placed = {} /\ \A i \in OrderId : orders[i].status = "NONE"
        /\ \A r \in ReturnId : proreturns[r].status = "NONE"
    BY DEF TradeInit, Placed, NoOrder, NoReturn
  <2>3. OrderKeysOK /\ ReturnsOK /\ CancelledIsReturned /\ SaleIsExclusive
    BY <2>2 DEF OrderKeysOK, ReturnsOK, CancelledIsReturned, IsOpen, SaleIsExclusive, Holding
  <2> QED
    BY <2>1, <2>3 DEF SalesInv
<1>2. Inv /\ [TradeNext]_vars => Inv'
  <2>1. ASSUME Inv, TradeNext
        PROVE  Inv'
    <3>1. TradeInv' /\ SalesInv'
      BY <2>1, TradeStepType, TradeSales
    <3>2. IsFiniteSet(deferred)'
      BY <2>1, TradePoints DEF TradeInv
    <3>3. Solvent'
      BY <2>1, TradeSolvent
    <3> QED
      BY <3>1, <3>2, <3>3
  <2>2. ASSUME Inv, UNCHANGED vars
        PROVE  Inv'
    <3>1. UNCHANGED tradeVars /\ UNCHANGED <<orders, proreturns, products, deferred>>
      BY <2>2 DEF vars, catalogVars, tradeVars
    <3>2. TradeInv'
      BY <2>2 DEF TradeInv, TypeOK, CatalogTypeOK, CreditTypeOK, TradeTypeOK, ProductsExist,
                  Placed, vars, catalogVars, tradeVars
    <3>3. SalesInv'
      BY <2>2, <3>1, NothingSold
    <3>4. Solvent'
      BY <2>2, <3>1, StutterSolvent DEF TradeInv, TypeOK
    <3> QED
      BY <2>2, <3>1, <3>2, <3>3, <3>4
  <2> QED
    BY <2>1, <2>2
<1>3. Inv => Solvent
  OBVIOUS
<1> HIDE DEF Inv
<1> QED
  BY <1>1, <1>2, <1>3, PTL DEF TradeSpec

\* Disputes do not change that, while verdicts fall on awaiting orders only.
THEOREM MarketIsSolvent == AwaitedSpec => []Solvent
<1> DEFINE Inv == MarketInv /\ IsFiniteSet(deferred) /\ Solvent
<1>1. MarketInit => Inv
  BY MarketInitInv, NothingOwed, NoGiftsYet DEF MarketInit, CatalogInit
<1>2. Inv /\ [AwaitedNext]_marketVars => Inv'
  <2>1. ASSUME Inv, AwaitedNext
        PROVE  Inv'
    <3>1. MarketInv'
      BY <2>1, MarketStep
    <3>2. IsFiniteSet(deferred)'
      BY <2>1, MarketPoints, AwaitedIsMarket DEF MarketInv, MarketBase
    <3>3. Solvent'
      BY <2>1, MarketSolvent
    <3> QED
      BY <3>1, <3>2, <3>3
  <2>2. ASSUME Inv, UNCHANGED marketVars
        PROVE  Inv'
    <3>1. UNCHANGED tradeVars /\ UNCHANGED deferred
      BY <2>2 DEF marketVars, vars, tradeVars
    <3> QED
      BY <2>2, <3>1, MarketStutterInv, StutterSolvent DEF MarketInv, MarketTypeOK, TypeOK
  <2> QED
    BY <2>1, <2>2
<1>3. Inv => Solvent
  OBVIOUS
<1> HIDE DEF Inv
<1> QED
  BY <1>1, <1>2, <1>3, PTL DEF AwaitedSpec
=============================================================================
