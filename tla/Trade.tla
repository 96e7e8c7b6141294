------------------------------- MODULE Trade --------------------------------
(***************************************************************************)
(* The life of an order: placed, paid, shipped, received or returned, and  *)
(* paid out.  Each action is one transaction of the contract, which takes  *)
(* effect as a whole or, when a check fails, not at all.  The payout is a  *)
(* deferred transaction: a later transaction of its own, which the chain   *)
(* may deliver late, fail or let expire, and whose failure nobody handles. *)
(*                                                                         *)
(* An order has two keys: its row id, and the 128-bit oid built from the   *)
(* buyer's uid, the pid and a time.  oids are triples here, so that a bare *)
(* row id used as one is the triple with no uid and no pid.                *)
(***************************************************************************)
EXTENDS Catalog, Fees, Functions

CONSTANTS
  MaxOrders,        \* bound: order rows at a time
  MaxReturns,       \* bound: return rows
  Horizon,          \* bound: the last second of the clock
  ClientTimes,      \* time parts of the oids the platform supplies itself
  PayTimeOut,       \* _global.pay_time_out
  ReceiptTimeOut,   \* _global.receipt_time_out
  MaxDeferrTimes,   \* _global.max_deferr_times
  CleanDelay,       \* expire_sum of cleanorder (86400)
  CleanRows,        \* sum of cleanorder (50)
  DeferDelay,       \* delay_sec of a deferred transaction (5)
  TradeReward,      \* credit a completed order earns (5)
  LatePenalty,      \* credit a late confirmation costs (5)
  GiftsOpen,        \* whether _global.total_users has reached 10000
  Scale,            \* factors from each coin's precision to that of FMP
  Issued            \* the coins each ledger holds

Ledger == {"eosio.token", "bosibc.io", "_self"}

ASSUME TradeAssumption ==
  /\ {MaxOrders, MaxReturns, Horizon, PayTimeOut, ReceiptTimeOut, CleanRows,
      MaxDeferrTimes, CleanDelay, DeferDelay, TradeReward, LatePenalty} \subseteq Nat
  /\ ClientTimes \subseteq Nat
  /\ GiftsOpen \in BOOLEAN
  /\ Scale \in [Coin -> [up : Nat \ {0}, down : Nat \ {0}]]
  /\ Issued \in [Ledger -> SUBSET Coin]

\* Of the platform: a fee above the price would make the seller's share
\* negative.
ASSUME TradeRates == RatesCapped

VARIABLES
  now,          \* current_time_point in seconds
  orders,       \* the orders table by row id; status NONE is "no row"
  proreturns,   \* the returns table by row id; status NONE is "no row"
  deferred,     \* deferred transactions sent and not yet gone
  vault,        \* the contract's balance on each ledger
  income        \* _global.income

tradeVars == <<now, orders, proreturns, deferred, vault, income>>
vars == <<catalogVars, tradeVars>>

OrderId  == 1..MaxOrders
ReturnId == 0..MaxReturns
OrderKey == (Uid \cup {NoUid}) \X (Pid \cup {0}) \X Nat

NoOid     == <<NoUid, 0, 0>>
IdKey(id) == <<NoUid, 0, id>>     \* uint128_t( order.id )

OrderStatus == {"PENDING_PAYMENT", "CANCELLED", "PENDING_SHIPMENT", "PENDING_RECEIPT",
                "COMPLETED", "ARBITRATION", "RETURN"}
OrderRow ==
  [oid : Uid \X Pid \X Nat, pid : Pid, seller_uid : Uid, buyer_uid : Uid,
   coin : Coin, price : Nat, postage : Nat, status : OrderStatus,
   pay_time_out : Nat, receipt_time_out : Nat,
   delayed_count : 0..MaxDeferrTimes]
NoOrder ==
  [oid |-> NoOid, pid |-> 0, seller_uid |-> NoUid, buyer_uid |-> NoUid,
   coin |-> "none", price |-> 0, postage |-> 0, status |-> "NONE",
   pay_time_out |-> 0, receipt_time_out |-> 0, delayed_count |-> 0]

ReturnStatus == {"PENDING_SHIPMENT", "PENDING_RECEIPT", "COMPLETED", "ARBITRATION"}
ReturnRow ==
  [order_id : OrderKey, pid : Pid, status : ReturnStatus,
   receipt_time_out : Nat, delayed_count : 0..MaxDeferrTimes]
NoReturn ==
  [order_id |-> NoOid, pid |-> 0, status |-> "NONE",
   receipt_time_out |-> 0, delayed_count |-> 0]

Role == {"seller", "buyer", "devops", "referrer"}
Amounts == [seller : Nat, buyer : Nat, devops : Nat, referrer : Nat]

\* A deferred transaction: its sender id is tag and second; it has a transfer
\* for each role of to, and the amount of every other role is 0.
DeferredRow ==
  [tag : {"settle", "refund", "conreceipt"}, at : Nat, id : OrderId,
   ledger : Ledger, coin : Coin \cup {"FMP"}, to : SUBSET Role,
   amount : Amounts]

TradeTypeOK ==
  /\ now \in Nat
  /\ orders \in [OrderId -> OrderRow \cup {NoOrder}]
  /\ proreturns \in [ReturnId -> ReturnRow \cup {NoReturn}]
  /\ deferred \subseteq DeferredRow
  /\ vault \in [Ledger -> [Coin -> Nat]]
  /\ income \in [Coin -> Nat]

TypeOK == CatalogTypeOK /\ TradeTypeOK

TradeInit ==
  /\ now = 0
  /\ orders = [i \in OrderId |-> NoOrder]
  /\ proreturns = [r \in ReturnId |-> NoReturn]
  /\ deferred = {}
  /\ vault = [l \in Ledger |-> [c \in Coin |-> 0]]
  /\ income = [c \in Coin |-> 0]

-----------------------------------------------------------------------------
(* Rows and keys. *)

Placed   == {i \in OrderId : orders[i].status # "NONE"}
Returned == {r \in ReturnId : proreturns[r].status # "NONE"}

\* find on the byorderid index of the returns table: among rows with the same
\* key, the one with the lowest id.
IsReturnOf(r, key) ==
  /\ r \in Returned /\ proreturns[r].order_id = key
  /\ \A q \in Returned : proreturns[q].order_id = key => r <= q

SetOrder(i, status) == orders' = [orders EXCEPT ![i].status = status]

\* Mutated: the key is not stored.
NewReturnUnkeyed(key, pid) == [NoReturn EXCEPT !.pid = pid, !.status = "PENDING_SHIPMENT"]

NewReturn(key, pid) ==
  [order_id |-> key, pid |-> pid, status |-> "PENDING_SHIPMENT",
   receipt_time_out |-> 0, delayed_count |-> 0]

-----------------------------------------------------------------------------
(* Deferred transactions. *)

\* The chain aborts a send whose sender id is still pending.
CanSend(tag) == \A d \in deferred : ~(d.tag = tag /\ d.at = now)

SettleLedger(coin) ==
  CASE coin = "BOS" -> "eosio.token"
    [] coin \in {"EOS", "USDT"} -> "bosibc.io"
    [] OTHER -> "_self"

RefundLedger(coin) == IF coin = "BOS" THEN "eosio.token" ELSE "_self"

Cut(i) ==
  LET ref == users[orders[i].buyer_uid].referrer
  IN  Split(orders[i].price + orders[i].postage,
            IF ref \in Uid THEN ~IsLockUser(ref) ELSE FALSE)

\* Settle and PayCoin: the seller's transfer is always there, the other two
\* only when there is something to transfer.
Settlement(i) ==
  [tag |-> "settle", at |-> now, id |-> i,
   ledger |-> SettleLedger(orders[i].coin), coin |-> orders[i].coin,
   to |-> {"seller"} \cup (IF Cut(i).devops > 0 THEN {"devops"} ELSE {})
                     \cup (IF Cut(i).referrer > 0 THEN {"referrer"} ELSE {}),
   amount |-> [seller |-> Cut(i).seller, buyer |-> 0,
               devops |-> Cut(i).devops, referrer |-> Cut(i).referrer]]

\* The buyer gets the price back and the seller keeps the postage.
Refund(i) ==
  [tag |-> "refund", at |-> now, id |-> i,
   ledger |-> RefundLedger(orders[i].coin), coin |-> orders[i].coin,
   to |-> {"buyer", "seller"},
   amount |-> [seller |-> orders[i].postage, buyer |-> orders[i].price,
               devops |-> 0, referrer |-> 0]]

Gift(i, points) ==
  [tag |-> "conreceipt", at |-> now, id |-> i, ledger |-> "_self",
   coin |-> "FMP", to |-> {"buyer", "seller"},
   amount |-> [seller |-> points, buyer |-> points, devops |-> 0,
               referrer |-> 0]]

\* Mutated: only the seller's counter.
CountSale(us, i) == [us EXCEPT ![orders[i].seller_uid].sell_total = @ + 1]

\* EndOrder: the counters of both parties, the payout and the platform's cut.
CountOrder(us, i) ==
  [us EXCEPT ![orders[i].seller_uid].sell_total = @ + 1,
             ![orders[i].buyer_uid].buy_total = @ + 1]

\* Mutated: the referrer's commission is booked as well.
BookIncomeGross(i) ==
  income' = [income EXCEPT ![orders[i].coin] = @ + Cut(i).income + Cut(i).referrer]

BookIncome(i) == income' = [income EXCEPT ![orders[i].coin] = @ + Cut(i).income]

TransferTotal(d) ==
  d.amount.seller + d.amount.buyer + d.amount.devops + d.amount.referrer

\* transfer refuses an amount that is not positive and an overdrawn balance.
Payable(d) ==
  /\ \A role \in d.to : d.amount[role] > 0
  /\ TransferTotal(d) <= vault[d.ledger][d.coin]

-----------------------------------------------------------------------------
(* The buyer orders, cancels and pays. *)

NewOrder(buyer, pid, t) ==
  [oid |-> <<buyer, pid, t>>, pid |-> pid, seller_uid |-> products[pid].uid,
   buyer_uid |-> buyer, coin |-> products[pid].coin,
   price |-> products[pid].price, postage |-> products[pid].postage,
   status |-> "PENDING_PAYMENT", pay_time_out |-> now + PayTimeOut,
   receipt_time_out |-> 0, delayed_count |-> 0]

\* t is the current second, or the time part of an oid the platform supplies.
placeorder(buyer, pid, t) ==
  /\ ~IsLockUser(buyer)
  /\ products[pid].status = "NORMAL"
  /\ products[pid].uid # buyer
  /\ \A i \in Placed : orders[i].oid # <<buyer, pid, t>>
  /\ \E i \in OrderId :
       /\ IsNextId(i, Placed, 1)
       /\ orders' = [orders EXCEPT ![i] = NewOrder(buyer, pid, t)]
  /\ products' = [products EXCEPT ![pid] = WithStatus(@, "LOCKED")]
  /\ UNCHANGED <<users, reviewers, audits, pools, minted,
                 now, proreturns, deferred, vault, income>>

\* Also the way a cancelled (returned) order is removed.
cancelorder(i) ==
  /\ orders[i].status \in {"PENDING_PAYMENT", "CANCELLED"}
  /\ orders' = [orders EXCEPT ![i] = NoOrder]
  /\ products' = [products EXCEPT ![orders[i].pid] = WithStatus(@, "NORMAL")]
  /\ UNCHANGED <<users, reviewers, audits, pools, minted,
                 now, proreturns, deferred, vault, income>>

\* The rows cleanorder looks at: CleanRows of them from start on.
Scanned(start) ==
  {i \in Placed : /\ i >= start
                  /\ Cardinality({j \in Placed : start <= j /\ j < i}) < CleanRows}

Expired(i) ==
  orders[i].status = "PENDING_PAYMENT" /\ now >= orders[i].pay_time_out + CleanDelay

cleanorder(start) ==
  LET gone == {i \in Scanned(start) : Expired(i)}
  IN
  /\ start \in Placed /\ gone # {}
  /\ orders' = [i \in OrderId |-> IF i \in gone THEN NoOrder ELSE orders[i]]
  /\ products' = [p \in Pid |->
       IF \E i \in gone : orders[i].pid = p
       THEN WithStatus(products[p], "NORMAL") ELSE products[p]]
  /\ UNCHANGED <<users, reviewers, audits, pools, minted,
                 now, proreturns, deferred, vault, income>>

\* A transfer to the contract with the memo p:<oid>.  Any other transfer of
\* a payment memo fails and is returned as a whole.
PayOrder(i, ledger) ==
  LET quantity == orders[i].price + orders[i].postage
  IN
  /\ orders[i].status = "PENDING_PAYMENT"
  /\ orders[i].coin \in Issued[ledger]
  /\ quantity > 0
  /\ now < orders[i].pay_time_out
  /\ SetOrder(i, "PENDING_SHIPMENT")
  /\ vault' = [vault EXCEPT ![ledger][orders[i].coin] = @ + quantity]
  /\ UNCHANGED <<catalogVars, now, proreturns, deferred, income>>

OnEOSTransfer(i) == orders[i].coin = "BOS" /\ PayOrder(i, "eosio.token")
OnIBCTransfer(i) == PayOrder(i, "bosibc.io")
OnMyTransfer(i)  == PayOrder(i, "_self")

-----------------------------------------------------------------------------
(* Delivery. *)

\* Mutated: whatever the status.
shipmentAny(i) ==
  /\ orders[i].status # "NONE"
  /\ orders' = [orders EXCEPT ![i].status = "PENDING_RECEIPT"]
  /\ UNCHANGED <<catalogVars, now, proreturns, deferred, vault, income>>

shipment(i) ==
  /\ orders[i].status = "PENDING_SHIPMENT"
  /\ orders' = [orders EXCEPT ![i].status = "PENDING_RECEIPT",
                              ![i].receipt_time_out = now + ReceiptTimeOut]
  /\ UNCHANGED <<catalogVars, now, proreturns, deferred, vault, income>>

\* Mutated: as often as asked.
deferreceiptAgain(i) ==
  /\ orders[i].status # "NONE"
  /\ orders' = [orders EXCEPT ![i].delayed_count = @ + 1]
  /\ UNCHANGED <<catalogVars, now, proreturns, deferred, vault, income>>

\* Whatever the state of the order.
deferreceipt(i) ==
  /\ orders[i].status # "NONE"
  /\ orders[i].delayed_count < MaxDeferrTimes
  /\ orders' = [orders EXCEPT ![i].receipt_time_out = now + ReceiptTimeOut,
                              ![i].delayed_count = @ + 1]
  /\ UNCHANGED <<catalogVars, now, proreturns, deferred, vault, income>>

Points(i) == GiftPoints(orders[i].price, Scale[orders[i].coin])
IsGiven(i) ==
  GiftsOpen /\ Points(i) > 1 /\ 2 * Points(i) <= pools.transaction

\* Mutated: one gift is charged, two are sent.
PoolsAfterOne(i) ==
  IF IsGiven(i) THEN [pools EXCEPT !.transaction = @ - Points(i)] ELSE pools

PoolsAfter(i) ==
  IF IsGiven(i) THEN [pools EXCEPT !.transaction = @ - 2 * Points(i)] ELSE pools

\* Late means after the deadline.
CreditReceipt(us, i) ==
  IF now > orders[i].receipt_time_out
  THEN SubCredit(us, orders[i].buyer_uid, LatePenalty)
  ELSE AddCredit(us, orders[i].buyer_uid, TradeReward)

conreceipt(i) ==
  /\ orders[i].status = "PENDING_RECEIPT"
  /\ CanSend("settle") /\ (IsGiven(i) => CanSend("conreceipt"))
  /\ SetOrder(i, "COMPLETED")
  /\ products' = [products EXCEPT ![orders[i].pid] = WithStatus(@, "COMPLETED")]
  /\ users' = CreditReceipt(AddCredit(CountOrder(users, i),
                                      orders[i].seller_uid, TradeReward), i)
  /\ deferred' = deferred \cup {Settlement(i)}
                 \cup (IF IsGiven(i) THEN {Gift(i, Points(i))} ELSE {})
  /\ BookIncome(i)
  /\ pools' = PoolsAfter(i)
  /\ UNCHANGED <<reviewers, audits, minted, now, proreturns, vault>>

-----------------------------------------------------------------------------
(* Returns. *)

returns(i) ==
  /\ orders[i].status = "PENDING_RECEIPT"
  /\ products[orders[i].pid].is_returns
  /\ SetOrder(i, "RETURN")
  /\ \E r \in ReturnId :
       /\ IsNextId(r, Returned, 1)
       /\ proreturns' = [proreturns EXCEPT
            ![r] = NewReturn(orders[i].oid, orders[i].pid)]
  /\ UNCHANGED <<catalogVars, now, deferred, vault, income>>

reshipment(i) ==
  /\ orders[i].status # "NONE"
  /\ \E r \in ReturnId :
       /\ IsReturnOf(r, orders[i].oid)
       /\ proreturns[r].status = "PENDING_SHIPMENT"
       /\ proreturns' = [proreturns EXCEPT
            ![r].status = "PENDING_RECEIPT",
            ![r].receipt_time_out = now + ReceiptTimeOut]
  /\ UNCHANGED <<catalogVars, now, orders, deferred, vault, income>>

deferreturn(i) ==
  /\ orders[i].status # "NONE"
  /\ \E r \in ReturnId :
       /\ IsReturnOf(r, orders[i].oid)
       /\ proreturns[r].delayed_count < MaxDeferrTimes
       /\ proreturns' = [proreturns EXCEPT
            ![r].receipt_time_out = now + ReceiptTimeOut,
            ![r].delayed_count = @ + 1]
  /\ UNCHANGED <<catalogVars, now, orders, deferred, vault, income>>

\* The goods are back: the order is cancelled, the product is on sale again
\* and the refund is sent.
reconreceipt(i) ==
  /\ orders[i].status # "NONE"
  /\ CanSend("refund")
  /\ \E r \in ReturnId :
       /\ IsReturnOf(r, orders[i].oid)
       /\ proreturns[r].status = "PENDING_RECEIPT"
       /\ proreturns' = [proreturns EXCEPT ![r].status = "COMPLETED"]
       /\ users' = IF now > proreturns[r].receipt_time_out
                   THEN SubCredit(users, orders[i].seller_uid, LatePenalty)
                   ELSE users
  /\ SetOrder(i, "CANCELLED")
  /\ products' = [products EXCEPT ![orders[i].pid] = WithStatus(@, "NORMAL")]
  /\ deferred' = deferred \cup {Refund(i)}
  /\ UNCHANGED <<reviewers, audits, pools, minted, now, vault, income>>

-----------------------------------------------------------------------------
(* The chain: deferred transactions and the clock. *)

Mature(d) == now >= d.at + DeferDelay

Deliver(d) == d \in deferred /\ Mature(d) /\ deferred' = deferred \ {d}

\* The transfers of a settle or refund, all of them or none.
ExecutePayout(d) ==
  /\ Deliver(d)
  /\ d.tag \in {"settle", "refund"}
  /\ Payable(d)
  /\ vault' = [vault EXCEPT ![d.ledger][d.coin] = @ - TransferTotal(d)]
  /\ UNCHANGED <<catalogVars, now, orders, proreturns, income>>

\* The two issues of a transaction gift.
ExecuteGift(d) ==
  /\ Deliver(d)
  /\ d.tag = "conreceipt"
  /\ CanIssue(TransferTotal(d))
  /\ minted' = minted + TransferTotal(d)
  /\ UNCHANGED <<users, reviewers, products, audits, pools,
                 now, orders, proreturns, vault, income>>

\* It failed, or expired before a block took it: OnError does nothing.
DropDeferred(d) ==
  /\ Deliver(d)
  /\ UNCHANGED <<catalogVars, now, orders, proreturns, vault, income>>

Tick ==
  /\ now < Horizon
  /\ now' = now + 1
  /\ UNCHANGED <<catalogVars, orders, proreturns, deferred, vault, income>>

TradeNext ==
  \/ CatalogNext /\ UNCHANGED tradeVars
  \/ \E buyer \in Uid, pid \in Pid, t \in {now} \cup ClientTimes : placeorder(buyer, pid, t)
  \/ \E i \in OrderId :
       \/ cancelorder(i)  \/ cleanorder(i)
       \/ OnEOSTransfer(i) \/ OnIBCTransfer(i) \/ OnMyTransfer(i)
       \/ shipment(i)     \/ deferreceipt(i) \/ conreceipt(i)
       \/ returns(i)      \/ reshipment(i)   \/ deferreturn(i) \/ reconreceipt(i)
  \/ \E d \in deferred : ExecutePayout(d) \/ ExecuteGift(d) \/ DropDeferred(d)
  \/ Tick

TradeSpec == CatalogInit /\ TradeInit /\ [][TradeNext]_vars

-----------------------------------------------------------------------------
(* Properties. *)

\* The product of an order has a row: nothing removes a product.
ProductsExist == \A i \in Placed : products[orders[i].pid].status # "NONE"

HasReturned(pid) ==
  \E r \in ReturnId : proreturns[r].status = "COMPLETED" /\ proreturns[r].pid = pid

\* Orders that hold their product: every order but a cancelled one.
Holding(pid) == {i \in Placed : orders[i].status # "CANCELLED" /\ orders[i].pid = pid}

\* One product, one buyer: until a return of the product has completed, no two
\* orders hold it, and while one does nobody else can order it.
SaleIsExclusive ==
  \A p \in Pid : ~HasReturned(p) =>
    /\ \A i, j \in Holding(p) : i = j
    /\ Holding(p) # {} => products[p].status \in {"LOCKED", "COMPLETED"}

\* A product that waits for review, or was taken down, comes on sale by a new
\* review only, however many passed before.  The exception is the cancelled
\* order of a returned product: its buyer may still put the product on sale.
OnlyReviewSells ==
  [][\A p \in Pid :
       products[p].status \in {"PUBLISH", "DELISTED"} /\ products'[p].status = "NORMAL"
       => audits'[p] > audits[p] \/ HasReturned(p)]_vars

\* What the check of placeorder on NORMAL stands for, without exception.
OneBuyerPerProduct == \A p \in Pid : \A i, j \in Holding(p) : i = j

\* Coins that are paid in, settled and refunded on the same ledger.
OneLedger(c) ==
  /\ SettleLedger(c) = RefundLedger(c)
  /\ \A l \in Ledger : c \in Issued[l] => l = SettleLedger(c)

InEscrow(c) ==
  {i \in Placed : /\ orders[i].coin = c
                  /\ orders[i].status \in {"PENDING_SHIPMENT", "PENDING_RECEIPT",
                                           "ARBITRATION", "RETURN"}}
Payouts(c) == {d \in deferred : d.coin = c /\ d.tag \in {"settle", "refund"}}
Gifts      == {d \in deferred : d.tag = "conreceipt"}

PaidIn(S) == SumFunction([i \in S |-> orders[i].price + orders[i].postage])
Total(D)  == SumFunction([d \in D |-> TransferTotal(d)])

\* The contract can pay whom it owes: its balance covers the escrowed orders,
\* the payouts under way and the platform's income.
Solvent ==
  \A c \in {x \in Coin : OneLedger(x)} :
    vault[SettleLedger(c)][c] >=
      income[c] + PaidIn(InEscrow(c)) + Total(Payouts(c))

\* The money of an order goes one way, once: a completed order stays so, and a
\* cancelled one stays so until its row is removed ...
OutcomeIsFinal ==
  [][\A i \in OrderId :
       /\ orders[i].status = "COMPLETED" => orders'[i].status = "COMPLETED"
       /\ orders[i].status = "CANCELLED" => orders'[i].status \in {"CANCELLED", "NONE"}]_vars

Sends(tag, i) == \E d \in deferred' \ deferred : d.tag = tag /\ d.id = i
Becomes(i, status) == orders[i].status # status /\ orders'[i].status = status

\* ... and a payout is sent exactly by the step that decides the order, to the
\* side it decides for.
PayoutFollowsOutcome ==
  [][\A i \in OrderId : /\ Sends("settle", i) <=> Becomes(i, "COMPLETED")
                        /\ Sends("refund", i) <=> Becomes(i, "CANCELLED")]_vars

SalesOf(uid) ==
  {i \in OrderId : orders[i].status = "COMPLETED" /\ orders[i].seller_uid = uid}
PurchasesOf(uid) ==
  {i \in OrderId : orders[i].status = "COMPLETED" /\ orders[i].buyer_uid = uid}

\* A user's counters are the completed orders, however they were completed.
CountersAreExact ==
  \A u \in Uid : /\ users[u].sell_total = Cardinality(SalesOf(u))
                 /\ users[u].buy_total = Cardinality(PurchasesOf(u))

\* Points the pools no longer hold are minted, on their way or lost with a
\* dropped transaction: the supply covers pools and pending gifts, so neither
\* a review nor a gift ever fails for want of points.
GiftsBacked ==
  minted + pools.transaction + pools.salary + Total(Gifts) <= Mintable

\* An order in OS_RETURN has an open case under its own key or its row id: a
\* return is not forgotten while the buyer's money is held.
ReturnHasCase ==
  \A i \in OrderId : orders[i].status = "RETURN" =>
    \E r \in Returned : /\ proreturns[r].order_id \in {orders[i].oid, IdKey(i)}
                        /\ proreturns[r].status # "COMPLETED"

\* What the refund of a completed return is for: it can be delivered.
RefundIsDeliverable ==
  \A d \in deferred : d.tag = "refund" => Payable(d)
=============================================================================
