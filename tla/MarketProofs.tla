---------------------------- MODULE MarketProofs ----------------------------
(***************************************************************************)
(* In AwaitedSpec, where a verdict moves only an order that waits for one, *)
(* disputes keep the sale of a product exclusive and the outcome of an     *)
(* order final.  The argument is MarketInv: every lookup by key a handler  *)
(* makes finds the row it means, because an open return belongs to one     *)
(* order under return.  From it follows that a product taken down sells by *)
(* a review only, and that completed orders are counted once.  In          *)
(* MarketSpec, whatever verdicts are signed, the tables keep their types,  *)
(* points stay backed, and a return keeps its case.                        *)
(***************************************************************************)
EXTENDS Market, TradeProofs, FiniteSetTheorems

MarketBase == MarketTypeOK /\ ProductsExist

-----------------------------------------------------------------------------
(* Types. *)

\* A verdict on an order charges the loser, moves the order, and may open a
\* return: the tables of Trade stay tables.
LEMMA VerdictType ==
  ASSUME MarketBase, NEW a \in ArbId, NEW i \in OrderId, orders[i].status # "NONE",
         \/ verdictRefund(a, i) \/ verdictReturn(a, i)
         \/ verdictRedeliver(a, i) \/ verdictSettle(a, i)
  PROVE  TradeInv'
<1> USE DEF MarketBase, MarketTypeOK, TypeOK
<1>1. /\ orders[i].seller_uid \in Uid /\ orders[i].buyer_uid \in Uid
      /\ orders[i].pid \in Pid /\ IdKey(i) \in OrderKey
  BY PlacedRow, KeyType
<1>2. users \in [Uid -> UserRow] /\ VerdictPenalty \in Nat
  BY MarketAssumption DEF CatalogTypeOK, CreditTypeOK
<1>3. CASE verdictRefund(a, i)
  <2>1. orders' \in [OrderId -> OrderRow \cup {NoOrder}]
    BY <1>3, SetOrderType DEF verdictRefund, OrderStatus
  <2>2. /\ products' \in [Pid -> ProductRow \cup {NoProduct}]
        /\ \A p \in Pid : products[p].status # "NONE" => products'[p].status # "NONE"
    BY <1>3, SetProductType DEF verdictRefund, ProductStatus
  <2>3. proreturns' \in [ReturnId -> ReturnRow \cup {NoReturn}]
    <3>1. \A r \in CaseReturn(i) :
            [proreturns[r] EXCEPT !.status = "COMPLETED"] \in ReturnRow
      BY ReturnedRow DEF CaseReturn, IsReturnOf, Returned, ReturnRow, ReturnStatus
    <3> QED
      BY <1>3, <3>1 DEF verdictRefund, TradeTypeOK
  <2>4. users' \in [Uid -> UserRow]
    BY <1>1, <1>2, <1>3, SubCreditType DEF verdictRefund
  <2>5. deferred' \subseteq DeferredRow
    BY <1>3, PayoutType DEF verdictRefund, TradeTypeOK
  <2>6. CatalogTypeOK' /\ TradeTypeOK'
    BY <1>3, <2>1, <2>2, <2>3, <2>4, <2>5
       DEF verdictRefund, CatalogTypeOK, CreditTypeOK, TradeTypeOK
  <2>7. ProductsExist'
    BY <1>3, <2>2, ProductsExistStep DEF verdictRefund, SetOrder, TradeTypeOK, TradeInv
  <2> QED
    BY <2>6, <2>7 DEF TradeInv
<1>4. CASE verdictReturn(a, i)
  <2>1. orders' \in [OrderId -> OrderRow \cup {NoOrder}]
    BY <1>4, SetOrderType DEF verdictReturn, OrderStatus
  <2>2. proreturns' \in [ReturnId -> ReturnRow \cup {NoReturn}]
    BY <1>1, <1>4, NewReturnType DEF verdictReturn
  <2>3. users' \in [Uid -> UserRow]
    BY <1>1, <1>2, <1>4, SubCreditType DEF verdictReturn
  <2>4. CatalogTypeOK' /\ TradeTypeOK'
    BY <1>4, <2>1, <2>2, <2>3 DEF verdictReturn, CatalogTypeOK, CreditTypeOK, TradeTypeOK
  <2>5. ProductsExist'
    BY <1>4, ProductsExistStep DEF verdictReturn, SetOrder, TradeTypeOK, TradeInv
  <2> QED
    BY <2>4, <2>5 DEF TradeInv
<1>5. CASE verdictRedeliver(a, i)
  <2>1. orders' \in [OrderId -> OrderRow \cup {NoOrder}]
    BY <1>5, SetOrderType DEF verdictRedeliver, OrderStatus
  <2>2. users' \in [Uid -> UserRow]
    BY <1>1, <1>2, <1>5, SubCreditType DEF verdictRedeliver
  <2>3. CatalogTypeOK' /\ TradeTypeOK'
    BY <1>5, <2>1, <2>2 DEF verdictRedeliver, CatalogTypeOK, CreditTypeOK, TradeTypeOK
  <2>4. ProductsExist'
    BY <1>5, ProductsExistStep DEF verdictRedeliver, SetOrder, TradeTypeOK, TradeInv
  <2> QED
    BY <2>3, <2>4 DEF TradeInv
<1>6. CASE verdictSettle(a, i)
  <2>1. orders' \in [OrderId -> OrderRow \cup {NoOrder}]
    BY <1>6, SetOrderType DEF verdictSettle, OrderStatus
  <2>2. users' \in [Uid -> UserRow]
    BY <1>1, <1>2, <1>6, CountOrderType, SubCreditType DEF verdictSettle
  <2>3. deferred' \subseteq DeferredRow
    BY <1>6, PayoutType DEF verdictSettle, TradeTypeOK
  <2>4. income' \in [Coin -> Nat]
    BY <1>6, IncomeType DEF verdictSettle
  <2>5. CatalogTypeOK' /\ TradeTypeOK'
    BY <1>6, <2>1, <2>2, <2>3, <2>4
       DEF verdictSettle, CatalogTypeOK, CreditTypeOK, TradeTypeOK
  <2>6. ProductsExist'
    BY <1>6, ProductsExistStep DEF verdictSettle, SetOrder, TradeTypeOK, TradeInv
  <2> QED
    BY <2>5, <2>6 DEF TradeInv
<1> QED
  BY <1>3, <1>4, <1>5, <1>6

\* A case row that is there is a complete one.
LEMMA ArbRowType ==
  ASSUME MarketTypeOK, NEW a \in ArbId, arbs[a].status # "NONE"
  PROVE  arbs[a] \in ArbRow
BY DEF MarketTypeOK, NoArb

\* Closing a case or removing its row keeps the table a table.
LEMMA CloseArbType ==
  ASSUME MarketTypeOK, NEW a \in ArbId, arbs[a].status # "NONE",
         CloseArb(a) \/ arbs' = [arbs EXCEPT ![a] = NoArb]
  PROVE  arbs' \in [ArbId -> ArbRow \cup {NoArb}]
<1>1. [arbs[a] EXCEPT !.status = "COMPLETED"] \in ArbRow
  BY ArbRowType DEF ArbRow
<1> QED
  BY <1>1 DEF CloseArb, MarketTypeOK

\* Opening one writes a complete row.
LEMMA OpenArbType ==
  ASSUME MarketTypeOK, NEW type \in ArbTypes, NEW parties \in Parties,
         NEW oid \in OrderKey, OpenArb(type, parties, oid)
  PROVE  arbs' \in [ArbId -> ArbRow \cup {NoArb}]
<1>1. parties \in Uid \X Uid
  BY MarketAssumption
<1>2. NewArb(type, parties, oid) \in ArbRow
  BY <1>1 DEF NewArb, ArbRow
<1> QED
  BY <1>2 DEF OpenArb, MarketTypeOK

\* applyarbit locks a product that is there, or none.
LEMMA LockProductType ==
  ASSUME CatalogTypeOK, NEW pid, LockProduct(pid)
  PROVE  /\ products' \in [Pid -> ProductRow \cup {NoProduct}]
         /\ \A p \in Pid : products[p].status # "NONE" => products'[p].status # "NONE"
<1> USE DEF CatalogTypeOK
<1>1. CASE pid \in Pid /\ products[pid].status # "NONE"
  <2>1. /\ WithStatus(products[pid], "LOCKED") \in ProductRow
        /\ WithStatus(products[pid], "LOCKED").status = "LOCKED"
    BY <1>1, WithStatusType DEF ProductStatus
  <2> QED
    BY <1>1, <2>1 DEF LockProduct
<1>2. CASE ~(pid \in Pid /\ products[pid].status # "NONE")
  BY <1>2 DEF LockProduct
<1> QED
  BY <1>1, <1>2

\* A disputed return is a return.
LEMMA DisputeReturnType ==
  ASSUME TradeTypeOK, NEW oid, DisputeReturn(oid)
  PROVE  proreturns' \in [ReturnId -> ReturnRow \cup {NoReturn}]
<1>1. \A r \in ReturnId : IsReturnOf(r, oid) =>
        [proreturns[r] EXCEPT !.status = "ARBITRATION"] \in ReturnRow
  BY ReturnedRow DEF IsReturnOf, Returned, ReturnRow, ReturnStatus
<1> QED
  BY <1>1 DEF DisputeReturn, TradeTypeOK

\* applyarbit keeps the tables tables, whatever the case is about.
LEMMA ApplyarbitType ==
  ASSUME MarketBase, NEW type \in ArbTypes, NEW parties \in Parties, NEW pid \in Pid,
         applyarbit(type, parties, pid)
  PROVE  MarketBase'
<1> USE DEF MarketBase, MarketTypeOK, TypeOK
<1>1. UNCHANGED <<users, reviewers, audits, pools, minted, now, deferred, vault, income>>
  BY DEF applyarbit
<1>2. LockProduct(pid)
  BY DEF applyarbit, applyarbitOrder, applyarbitEarly, applyarbitOther
<1>3. /\ products' \in [Pid -> ProductRow \cup {NoProduct}]
      /\ \A p \in Pid : products[p].status # "NONE" => products'[p].status # "NONE"
  BY <1>2, LockProductType
<1>4. CatalogTypeOK'
  BY <1>1, <1>3 DEF CatalogTypeOK, CreditTypeOK
<1>5. ASSUME NEW i \in Placed, applyarbitOrder(parties, pid, i), type = "AT_ORDER"
      PROVE  MarketBase'
  <2>1. i \in OrderId /\ orders[i].status = "PENDING_RECEIPT" /\ SetOrder(i, "ARBITRATION")
    BY <1>5 DEF applyarbitOrder, IsDisputable, Placed
  <2>2. orders' \in [OrderId -> OrderRow \cup {NoOrder}]
    BY <2>1, SetOrderType DEF OrderStatus
  <2>3. proreturns' \in [ReturnId -> ReturnRow \cup {NoReturn}]
    BY <1>5, DisputeReturnType DEF applyarbitOrder
  <2>4. TradeTypeOK'
    BY <1>1, <2>2, <2>3 DEF TradeTypeOK
  <2>5. arbs' \in [ArbId -> ArbRow \cup {NoArb}]
    BY <1>5, <2>1, KeyType, OpenArbType DEF applyarbitOrder
  <2>6. ProductsExist'
    BY <1>3, <2>1, ProductsExistStep DEF SetOrder, TradeTypeOK, TradeInv
  <2> QED
    BY <1>4, <2>4, <2>5, <2>6
<1>6. CASE applyarbitOther(type, parties, pid)
  <2>1. NoOid \in OrderKey
    BY DEF NoOid, OrderKey
  <2>2. arbs' \in [ArbId -> ArbRow \cup {NoArb}]
    BY <1>6, <2>1, OpenArbType DEF applyarbitOther
  <2>3. TradeTypeOK' /\ ProductsExist'
    BY <1>1, <1>3, <1>6, ProductsExistStep DEF applyarbitOther, TradeTypeOK, TradeInv
  <2> QED
    BY <1>4, <2>2, <2>3
<1>7. ASSUME NEW oid \in OtherOids, applyarbitEarly(parties, pid, oid), type = "AT_ORDER"
      PROVE  MarketBase'
  <2>1. oid \in OrderKey
    BY MarketAssumption
  <2>2. arbs' \in [ArbId -> ArbRow \cup {NoArb}]
    BY <1>7, <2>1, OpenArbType DEF applyarbitEarly
  <2>3. proreturns' \in [ReturnId -> ReturnRow \cup {NoReturn}]
    BY <1>7, DisputeReturnType DEF applyarbitEarly
  <2>4. TradeTypeOK' /\ ProductsExist'
    BY <1>1, <1>3, <1>7, <2>3, ProductsExistStep DEF applyarbitEarly, TradeTypeOK, TradeInv
  <2> QED
    BY <1>4, <2>2, <2>4
<1> QED
  BY <1>5, <1>6, <1>7 DEF applyarbit

\* So does a reviewer who joins a panel.
LEMMA InarbitType ==
  ASSUME MarketBase, NEW uid \in Uid, NEW a \in ArbId, inarbit(uid, a)
  PROVE  MarketBase'
<1> DEFINE joined == Append(arbs[a].reviewers, uid)
           status == IF Len(joined) >= ReviewMinCount THEN "PROCESSING" ELSE "WAIT"
<1>1. arbs[a] \in ArbRow
  BY ArbRowType DEF MarketBase, inarbit
<1>2. joined \in Seq(Uid)
  BY <1>1 DEF ArbRow
<1>3. arbs' = [arbs EXCEPT ![a].reviewers = joined, ![a].status = status] /\ UNCHANGED vars
  BY DEF inarbit
<1> HIDE DEF joined
<1>4. [arbs[a] EXCEPT !.reviewers = joined, !.status = status] \in ArbRow
  BY <1>1, <1>2 DEF ArbRow
<1>5. arbs' \in [ArbId -> ArbRow \cup {NoArb}]
  BY <1>3, <1>4 DEF MarketBase, MarketTypeOK
<1>6. TypeOK' /\ ProductsExist'
  BY <1>3 DEF MarketBase, MarketTypeOK, TypeOK, CatalogTypeOK, CreditTypeOK, TradeTypeOK,
              ProductsExist, Placed, vars, catalogVars, tradeVars
<1> QED
  BY <1>5, <1>6 DEF MarketBase, MarketTypeOK

\* A step that leaves the tables of Trade alone keeps what is said of them.
LEMMA TradeUnchanged ==
  ASSUME MarketBase, UNCHANGED vars
  PROVE  TradeInv'
BY DEF MarketBase, MarketTypeOK, TradeInv, TypeOK, CatalogTypeOK, CreditTypeOK, TradeTypeOK,
       ProductsExist, Placed, vars, catalogVars, tradeVars

\* A decision on a complaint writes users and reviewers only.
LEMMA ComplaintType ==
  ASSUME MarketBase, NEW a \in ArbId, NEW winner, arbs[a].status # "NONE",
         verdictOnComplaint(a, winner)
  PROVE  TradeInv'
<1> USE DEF MarketBase, MarketTypeOK, TypeOK
<1>1. arbs[a].plaintiff \in Uid /\ arbs[a].defendant \in Uid
  BY ArbRowType DEF ArbRow
<1>2. users \in [Uid -> UserRow] /\ reviewers \subseteq Uid /\ VerdictPenalty \in Nat
  BY MarketAssumption DEF CatalogTypeOK, CreditTypeOK
<1>3. users' \in [Uid -> UserRow] /\ reviewers' \subseteq Uid
  BY <1>1, <1>2, SubCreditType, DismissReviewerType DEF verdictOnComplaint
<1>4. UNCHANGED <<products, audits, pools, minted, tradeVars>>
  BY DEF verdictOnComplaint
<1> QED
  BY <1>3, <1>4 DEF CatalogTypeOK, CreditTypeOK, TradeTypeOK, TradeInv,
                    ProductsExist, Placed, tradeVars

\* What updatearbit does, whoever wins: it closes or removes the case, and
\* leaves the tables of Trade tables.
LEMMA UpdatearbitType ==
  ASSUME MarketBase, NEW a \in ArbId, NEW winner \in Uid \cup {NoUid},
         updatearbit(a, winner)
  PROVE  MarketBase' /\ (CloseArb(a) \/ arbs' = [arbs EXCEPT ![a] = NoArb])
<1> USE DEF MarketBase
<1>1. arbs[a].status # "NONE"
  BY DEF updatearbit
<1>2. TradeInv' /\ (CloseArb(a) \/ arbs' = [arbs EXCEPT ![a] = NoArb])
  <2>1. CASE verdictNoOrder(a)
    BY <2>1, TradeUnchanged DEF verdictNoOrder
  <2>2. ASSUME NEW i \in OrderId, Concerns(a, i), verdictOnOrder(a, i, winner)
        PROVE  TradeInv' /\ CloseArb(a)
    <3>1. orders[i].status # "NONE"
      BY <2>2 DEF Concerns, Placed
    <3>2. CASE \/ verdictRefund(a, i) \/ verdictReturn(a, i)
               \/ verdictRedeliver(a, i) \/ verdictSettle(a, i)
      BY <3>1, <3>2, VerdictType
         DEF verdictRefund, verdictReturn, verdictRedeliver, verdictSettle
    <3>3. CASE CloseArb(a) /\ UNCHANGED vars
      BY <3>3, TradeUnchanged
    <3> QED
      BY <2>2, <3>2, <3>3 DEF verdictOnOrder
  <2>3. CASE verdictOnComplaint(a, winner)
    BY <1>1, <2>3, ComplaintType DEF verdictOnComplaint
  <2>4. CASE CloseArb(a) /\ UNCHANGED vars
    BY <2>4, TradeUnchanged
  <2> QED
    BY <2>1, <2>2, <2>3, <2>4 DEF updatearbit
<1>3. arbs' \in [ArbId -> ArbRow \cup {NoArb}]
  BY <1>1, <1>2, CloseArbType
<1> QED
  BY <1>2, <1>3 DEF TradeInv, MarketTypeOK

\* Every step, of a trade or of a dispute, keeps the types.
LEMMA MarketStepType ==
  ASSUME MarketBase, MarketNext
  PROVE  MarketBase'
<1>1. CASE TradeNext /\ UNCHANGED arbs
  BY <1>1, TradeStepType DEF MarketBase, MarketTypeOK, TradeInv
<1> QED
  BY <1>1, ApplyarbitType, InarbitType, UpdatearbitType DEF MarketNext

\* No case is open at first.
LEMMA MarketInitType == MarketInit => MarketBase
<1>1. MarketInit => TradeInv
  BY TradeInitType DEF MarketInit
<1> QED
  BY <1>1 DEF MarketInit, MarketBase, MarketTypeOK, TradeInv

\* Nothing but UNCHANGED.
LEMMA MarketStutter == MarketBase /\ UNCHANGED marketVars => MarketBase'
<1> SUFFICES ASSUME MarketBase, UNCHANGED marketVars
             PROVE  MarketBase'
  OBVIOUS
<1>1. UNCHANGED vars /\ UNCHANGED arbs
  BY DEF marketVars
<1> QED
  BY <1>1, TradeUnchanged DEF MarketBase, MarketTypeOK, TradeInv

\* The steps of AwaitedSpec are steps of MarketSpec.
LEMMA AwaitedIsMarket == AwaitedNext => MarketNext
BY DEF AwaitedNext, MarketNext

\* With disputes too, also when a case is filed before its order, a verdict
\* sent again or signed on an order that is unpaid or completed, the tables
\* hold what their types say.
THEOREM MarketTypeCorrect == MarketSpec => []MarketTypeOK
<1>1. MarketBase => MarketTypeOK
  BY DEF MarketBase
<1> QED
  BY <1>1, MarketInitType, MarketStepType, MarketStutter, PTL DEF MarketSpec

-----------------------------------------------------------------------------
(* Points. *)

\* A dispute touches neither pools nor gifts; what a verdict sends is a payout.
LEMMA VerdictPoints ==
  ASSUME IsFiniteSet(deferred), NEW a \in ArbId, NEW winner \in Uid \cup {NoUid},
         updatearbit(a, winner)
  PROVE  IsFiniteSet(deferred)' /\ PointsPromised' = PointsPromised
<1>1. UNCHANGED <<minted, pools>>
  BY DEF updatearbit, verdictNoOrder, verdictOnOrder, verdictRefund, verdictReturn,
         verdictRedeliver, verdictSettle, verdictOnComplaint, vars, catalogVars
<1>2. \/ deferred' = deferred
      \/ \E i \in OrderId : deferred' \in {deferred \cup {Refund(i)}, deferred \cup {Settlement(i)}}
  BY DEF updatearbit, verdictNoOrder, verdictOnOrder, verdictRefund, verdictReturn,
         verdictRedeliver, verdictSettle, verdictOnComplaint, vars, tradeVars
<1>3. IsFiniteSet(deferred')
  BY <1>2, FS_AddElement
<1>4. Gifts' = Gifts
  BY <1>2 DEF Gifts, Refund, Settlement
<1> QED
  BY <1>1, <1>3, <1>4, PointsSame

\* No step of the market promises points no pool had.
LEMMA MarketPoints ==
  ASSUME MarketBase, IsFiniteSet(deferred), MarketNext
  PROVE  /\ IsFiniteSet(deferred)'
         /\ PointsPromised' <= PointsPromised /\ PointsPromised' \in Nat
<1> USE DEF MarketBase, MarketTypeOK
<1>1. PointsPromised \in Nat
  BY GiftsTotal DEF TypeOK, PointsPromised, CatalogTypeOK
<1>2. CASE TradeNext
  BY <1>2, TradePoints
<1>3. CASE UNCHANGED <<minted, pools, deferred>>
  <2>1. PointsPromised' = PointsPromised
    BY <1>3, PointsSame DEF Gifts
  <2> QED
    BY <1>1, <1>3, <2>1
<1>4. ASSUME NEW type \in ArbTypes, NEW parties \in Parties, NEW pid \in Pid,
             applyarbit(type, parties, pid)
      PROVE  UNCHANGED <<minted, pools, deferred>>
  BY <1>4 DEF applyarbit
<1>5. ASSUME NEW uid \in Uid, NEW a \in ArbId, inarbit(uid, a)
      PROVE  UNCHANGED <<minted, pools, deferred>>
  BY <1>5 DEF inarbit, vars, catalogVars, tradeVars
<1>6. ASSUME NEW a \in ArbId, NEW winner \in Uid \cup {NoUid}, updatearbit(a, winner)
      PROVE  /\ IsFiniteSet(deferred)'
             /\ PointsPromised' <= PointsPromised /\ PointsPromised' \in Nat
  BY <1>1, <1>6, VerdictPoints
<1> QED
  BY <1>2, <1>3, <1>4, <1>5, <1>6 DEF MarketNext

\* Whatever is disputed and however often a verdict is sent, the points that
\* are promised, in the pools and in gifts under way, can be minted.
THEOREM MarketGiftsStayBacked == MarketSpec => []GiftsBacked
<1> DEFINE Inv == MarketBase /\ IsFiniteSet(deferred) /\ GiftsBacked
<1>1. MarketInit => Inv
  BY MarketInitType, NoGiftsYet, CatalogAssumption
     DEF MarketInit, CatalogInit, GiftsBacked, PointsPromised
<1>2. Inv /\ [MarketNext]_marketVars => Inv'
  <2> SUFFICES ASSUME Inv, [MarketNext]_marketVars
               PROVE  Inv'
    OBVIOUS
  <2>1. PointsPromised \in Nat
    BY GiftsTotal DEF MarketBase, MarketTypeOK, TypeOK, PointsPromised, CatalogTypeOK
  <2>2. CASE MarketNext
    <3>1. MarketBase'
      BY <2>2, MarketStepType
    <3>2. /\ IsFiniteSet(deferred)'
          /\ PointsPromised' <= PointsPromised /\ PointsPromised' \in Nat
      BY <2>2, MarketPoints
    <3> QED
      BY <2>1, <3>1, <3>2, CatalogAssumption DEF GiftsBacked, PointsPromised
  <2>3. CASE UNCHANGED marketVars
    <3>1. PointsPromised' = PointsPromised
      BY <2>3, PointsSame DEF marketVars, vars, catalogVars, tradeVars, Gifts
    <3>2. MarketBase'
      BY <2>3, MarketStutter
    <3> QED
      BY <2>3, <3>1, <3>2 DEF GiftsBacked, PointsPromised, marketVars, vars, tradeVars
  <2> QED
    BY <2>2, <2>3
<1>3. Inv => GiftsBacked
  OBVIOUS
<1> QED
  BY <1>1, <1>2, <1>3, PTL DEF MarketSpec

-----------------------------------------------------------------------------
(* Keys. *)

\* What the tables of Trade have to do with one another.
SalesInv == OrderKeysOK /\ ReturnsOK /\ CancelledIsReturned /\ SaleIsExclusive

\* The key of an order starts with a buyer, a row id used as a key with none.
LEMMA KeyFacts ==
  ASSUME TradeTypeOK
  PROVE  /\ \A i \in Placed : orders[i].oid[1] \in Uid /\ orders[i].pid \in Pid
         /\ \A i \in OrderId : IdKey(i)[1] = NoUid
         /\ \A i, j \in OrderId : IdKey(i) = IdKey(j) => i = j
         /\ NoOid[1] = NoUid /\ NoUid \notin Uid
<1>1. \A i \in Placed : orders[i].oid \in Uid \X Pid \X Nat /\ orders[i].pid \in Pid
  BY PlacedRow DEF Placed, OrderRow
<1> QED
  BY <1>1, CreditAssumption DEF IdKey, NoOid

\* A return belongs to one order at most.
LEMMA CaseOwner ==
  ASSUME TradeTypeOK, OrderKeysOK, NEW i \in Placed, NEW j \in Placed,
         NEW r \in ReturnId, IsCaseOf(r, i), IsCaseOf(r, j)
  PROVE  i = j
<1>1. i \in OrderId /\ j \in OrderId
  BY DEF Placed
<1> QED
  BY <1>1, KeyFacts DEF IsCaseOf, OrderKeysOK

\* The order of an open return is under return.
LEMMA OpenReturnOrder ==
  ASSUME TradeTypeOK, OrderKeysOK, ReturnsOK, NEW i \in Placed, NEW r \in ReturnId,
         IsOpen(r), IsCaseOf(r, i)
  PROVE  orders[i].status = "RETURN" /\ proreturns[r].pid = orders[i].pid
<1>1. PICK j \in OrderId : /\ orders[j].status = "RETURN" /\ IsCaseOf(r, j)
                           /\ proreturns[r].pid = orders[j].pid
  BY DEF ReturnsOK
<1>2. j \in Placed
  BY <1>1 DEF Placed
<1> QED
  BY <1>1, <1>2, CaseOwner

\* So a verdict finds no return under the row id of an order in arbitration.
LEMMA NoCaseReturn ==
  ASSUME TradeTypeOK, OrderKeysOK, ReturnsOK, NEW i \in Placed,
         orders[i].status # "RETURN"
  PROVE  CaseReturn(i) = {}
<1> SUFFICES ASSUME NEW r \in ReturnId, r \in Returned, proreturns[r].order_id = IdKey(i)
             PROVE  FALSE
  BY DEF CaseReturn, IsReturnOf
<1>1. ~IsOpen(r)
  BY OpenReturnOrder DEF IsCaseOf
<1>2. proreturns[r].status = "COMPLETED"
  BY <1>1 DEF IsOpen, Returned
<1>3. IdKey(i)[1] \in Uid
  BY <1>2 DEF ReturnsOK
<1> QED
  BY <1>3, KeyFacts DEF Placed

\* The keys stay what they are when orders keep theirs or go.
LEMMA KeysFrame ==
  ASSUME OrderKeysOK,
         \A i \in OrderId : orders'[i].status # "NONE" =>
           /\ orders[i].status # "NONE"
           /\ orders'[i].oid = orders[i].oid /\ orders'[i].pid = orders[i].pid
  PROVE  OrderKeysOK'
BY DEF OrderKeysOK, Placed

\* Setting a status keeps the keys.
LEMMA SetOrderKeys ==
  ASSUME TradeTypeOK, OrderKeysOK, NEW i \in OrderId, orders[i].status # "NONE",
         NEW status, SetOrder(i, status)
  PROVE  OrderKeysOK'
<1>1. \A j \in OrderId : orders'[j].status # "NONE" =>
        /\ orders[j].status # "NONE"
        /\ orders'[j].oid = orders[j].oid /\ orders'[j].pid = orders[j].pid
  BY DEF SetOrder, TradeTypeOK
<1> QED
  BY <1>1, KeysFrame

\* No trade gives two orders one key: placeorder looks for the key first.
LEMMA TradeKeys ==
  ASSUME TradeInv, OrderKeysOK, TradeNext
  PROVE  OrderKeysOK'
<1> USE DEF TradeInv, TypeOK
<1>1. ASSUME UNCHANGED orders
      PROVE  OrderKeysOK'
  BY <1>1, KeysFrame
<1>2. CASE CatalogNext /\ UNCHANGED tradeVars
  BY <1>1, <1>2 DEF tradeVars
<1>3. ASSUME NEW buyer \in Uid, NEW pid \in Pid, NEW t \in {now} \cup ClientTimes,
             placeorder(buyer, pid, t)
      PROVE  OrderKeysOK'
  <2>1. PICK i \in OrderId : orders' = [orders EXCEPT ![i] = NewOrder(buyer, pid, t)]
    BY <1>3 DEF placeorder
  <2>2. \A j \in Placed : orders[j].oid # <<buyer, pid, t>>
    BY <1>3 DEF placeorder
  <2>3. /\ orders'[i].oid = <<buyer, pid, t>> /\ orders'[i].pid = pid
        /\ \A j \in OrderId \ {i} : orders'[j] = orders[j]
    BY <2>1 DEF NewOrder, TradeTypeOK
  <2>4. \A j \in Placed' : j # i => j \in Placed
    BY <2>3 DEF Placed
  <2> QED
    BY <2>2, <2>3, <2>4 DEF OrderKeysOK, Placed
<1>4. ASSUME NEW i \in OrderId,
             \/ cancelorder(i)  \/ cleanorder(i)
             \/ OnEOSTransfer(i) \/ OnIBCTransfer(i) \/ OnMyTransfer(i)
             \/ shipment(i)     \/ deferreceipt(i) \/ conreceipt(i)
             \/ returns(i)      \/ reshipment(i)   \/ deferreturn(i) \/ reconreceipt(i)
      PROVE  OrderKeysOK'
  <2>1. CASE cancelorder(i)
    BY <2>1, KeysFrame DEF cancelorder, NoOrder, TradeTypeOK
  <2>2. CASE cleanorder(i)
    <3> DEFINE gone == {j \in Scanned(i) : Expired(j)}
    <3>1. orders' = [j \in OrderId |-> IF j \in gone THEN NoOrder ELSE orders[j]]
      BY <2>2 DEF cleanorder
    <3> HIDE DEF gone
    <3> QED
      BY <3>1, KeysFrame DEF NoOrder
  <2>3. ASSUME NEW ledger, PayOrder(i, ledger)
        PROVE  OrderKeysOK'
    BY <2>3, SetOrderKeys DEF PayOrder
  <2>4. CASE shipment(i)
    BY <2>4, KeysFrame DEF shipment, TradeTypeOK
  <2>5. CASE deferreceipt(i)
    <3>1. orders[i] \in OrderRow
      BY <2>5, PlacedRow DEF deferreceipt
    <3>2. \A j \in OrderId : /\ orders'[j].status = orders[j].status
                             /\ orders'[j].oid = orders[j].oid
                             /\ orders'[j].pid = orders[j].pid
      BY <2>5, <3>1 DEF deferreceipt, TradeTypeOK, OrderRow
    <3> QED
      BY <3>2, KeysFrame
  <2>6. CASE conreceipt(i)
    BY <2>6, SetOrderKeys DEF conreceipt
  <2>7. CASE returns(i)
    BY <2>7, SetOrderKeys DEF returns
  <2>8. CASE reshipment(i) \/ deferreturn(i)
    BY <1>1, <2>8 DEF reshipment, deferreturn
  <2>9. CASE reconreceipt(i)
    BY <2>9, SetOrderKeys DEF reconreceipt
  <2> QED
    BY <1>4, <2>1, <2>2, <2>3, <2>4, <2>5, <2>6, <2>7, <2>8, <2>9
       DEF OnEOSTransfer, OnIBCTransfer, OnMyTransfer
<1>5. ASSUME NEW d \in deferred, ExecutePayout(d) \/ ExecuteGift(d) \/ DropDeferred(d)
      PROVE  OrderKeysOK'
  BY <1>1, <1>5 DEF ExecutePayout, ExecuteGift, DropDeferred
<1>6. CASE Tick
  BY <1>1, <1>6 DEF Tick
<1> QED
  BY <1>2, <1>3, <1>4, <1>5, <1>6 DEF TradeNext

\* Nor does a dispute, in whatever state a verdict finds the order.
LEMMA MarketKeys ==
  ASSUME MarketBase, OrderKeysOK, MarketNext
  PROVE  OrderKeysOK'
<1> USE DEF MarketBase, MarketTypeOK, TypeOK
<1>1. ASSUME UNCHANGED orders
      PROVE  OrderKeysOK'
  BY <1>1, KeysFrame
<1>2. CASE TradeNext /\ UNCHANGED arbs
  BY <1>2, TradeKeys DEF TradeInv
<1>3. ASSUME NEW type \in ArbTypes, NEW parties \in Parties, NEW pid \in Pid,
             applyarbit(type, parties, pid)
      PROVE  OrderKeysOK'
  <2>1. ASSUME NEW i \in Placed, applyarbitOrder(parties, pid, i)
        PROVE  OrderKeysOK'
    BY <2>1, SetOrderKeys DEF applyarbitOrder, Placed
  <2> QED
    BY <1>1, <1>3, <2>1 DEF applyarbit, applyarbitEarly, applyarbitOther
<1>4. ASSUME NEW uid \in Uid, NEW a \in ArbId, inarbit(uid, a)
      PROVE  OrderKeysOK'
  BY <1>1, <1>4 DEF inarbit, vars, tradeVars
<1>5. ASSUME NEW a \in ArbId, NEW winner, updatearbit(a, winner)
      PROVE  OrderKeysOK'
  <2>1. CASE UNCHANGED tradeVars
    BY <1>1, <2>1 DEF tradeVars
  <2>2. ASSUME NEW i \in OrderId, Concerns(a, i), verdictOnOrder(a, i, winner)
        PROVE  OrderKeysOK'
    <3>1. orders[i].status # "NONE"
      BY <2>2 DEF Concerns, Placed
    <3>2. CASE CloseArb(a) /\ UNCHANGED vars
      BY <1>1, <3>2 DEF vars, tradeVars
    <3>3. ASSUME NEW status, SetOrder(i, status)
          PROVE  OrderKeysOK'
      BY <3>1, <3>3, SetOrderKeys
    <3> QED
      BY <2>2, <3>2, <3>3 DEF verdictOnOrder, verdictRefund, verdictReturn,
                              verdictRedeliver, verdictSettle
  <2> QED
    BY <1>5, <2>1, <2>2 DEF updatearbit, verdictNoOrder, verdictOnComplaint, vars
<1> QED
  BY <1>2, <1>3, <1>4, <1>5 DEF MarketNext

-----------------------------------------------------------------------------
(* Frames: what a step may do to the tables without touching SalesInv.      *)

OrdersKept ==
  \A i \in OrderId :
    /\ orders'[i].oid = orders[i].oid /\ orders'[i].pid = orders[i].pid
    /\ orders'[i].status = "NONE" <=> orders[i].status = "NONE"
    /\ orders'[i].status = "CANCELLED" <=> orders[i].status = "CANCELLED"
    /\ orders[i].status = "RETURN" => orders'[i].status = "RETURN"

ReturnsKept ==
  \A r \in ReturnId :
    /\ proreturns'[r].order_id = proreturns[r].order_id
    /\ proreturns'[r].pid = proreturns[r].pid
    /\ proreturns'[r].status = "NONE" <=> proreturns[r].status = "NONE"
    /\ proreturns'[r].status = "COMPLETED" <=> proreturns[r].status = "COMPLETED"

Held == {"LOCKED", "COMPLETED"}

\* Unless a return of it has completed, a product stays held.
ProductsKept ==
  \A p \in Pid : ~HasReturned(p) /\ products[p].status \in Held => products'[p].status \in Held

\* A step that keeps the keys of orders, the cancelled and the returning ones,
\* and the open and the completed returns keeps the tables of Trade consistent.
LEMMA SalesFrame ==
  ASSUME SalesInv, OrdersKept, ReturnsKept, ProductsKept
  PROVE  SalesInv'
<1> USE DEF SalesInv
<1>1. Placed' = Placed
  BY DEF OrdersKept, Placed
<1>2. OrderKeysOK'
  BY <1>1 DEF OrdersKept, OrderKeysOK, Placed
<1>3. /\ \A r \in ReturnId : IsOpen(r)' <=> IsOpen(r)
      /\ \A r \in ReturnId, i \in OrderId : IsCaseOf(r, i)' <=> IsCaseOf(r, i)
  BY DEF ReturnsKept, OrdersKept, IsOpen, IsCaseOf
<1>4. ReturnsOK'
  <2>1. \A r \in ReturnId : proreturns'[r].status = "COMPLETED" =>
          /\ proreturns'[r].order_id[1] \in Uid
          /\ proreturns'[r].order_id[2] = proreturns'[r].pid
    BY DEF ReturnsOK, ReturnsKept
  <2>2. ASSUME NEW r \in ReturnId, IsOpen(r)'
        PROVE  \E i \in OrderId : /\ orders'[i].status = "RETURN" /\ IsCaseOf(r, i)'
                                  /\ proreturns'[r].pid = orders'[i].pid
    BY <1>3, <2>2 DEF ReturnsOK, ReturnsKept, OrdersKept
  <2>3. \A i \in Placed' : \A r, q \in ReturnId :
          IsOpen(r)' /\ IsOpen(q)' /\ IsCaseOf(r, i)' /\ IsCaseOf(q, i)' => r = q
    BY <1>1, <1>3 DEF ReturnsOK, Placed
  <2> QED
    BY <2>1, <2>2, <2>3 DEF ReturnsOK
<1>5. \A p : HasReturned(p)' <=> HasReturned(p)
  BY DEF HasReturned, ReturnsKept
<1>6. CancelledIsReturned'
  BY <1>5 DEF CancelledIsReturned, OrdersKept
<1>7. \A p \in Pid : Holding(p)' = Holding(p)
  BY <1>1 DEF Holding, OrdersKept, Placed
<1>8. SaleIsExclusive'
  BY <1>5, <1>7 DEF SaleIsExclusive, ProductsKept, Held
<1> QED
  BY <1>2, <1>4, <1>6, <1>8

-----------------------------------------------------------------------------
(* SalesInv, step by step. *)

\* Cancelling and cleaning: the orders that go wait for payment or were
\* returned, and only their products go back on sale.
LEMMA RemoveOrders ==
  ASSUME TradeTypeOK, SalesInv, NEW gone \in SUBSET Placed,
         \A i \in gone : orders[i].status \in {"PENDING_PAYMENT", "CANCELLED"},
         orders' = [i \in OrderId |-> IF i \in gone THEN NoOrder ELSE orders[i]],
         UNCHANGED proreturns,
         \A p \in Pid : (\A i \in gone : orders[i].pid # p) => products'[p] = products[p]
  PROVE  SalesInv'
<1> USE DEF SalesInv
<1>1. Placed' = Placed \ gone /\ \A i \in Placed' : orders'[i] = orders[i]
  BY DEF Placed, NoOrder
<1>2. OrderKeysOK'
  BY <1>1 DEF OrderKeysOK
<1>3. /\ \A r \in ReturnId : IsOpen(r)' <=> IsOpen(r)
      /\ \A r \in ReturnId, i \in Placed' : IsCaseOf(r, i)' <=> IsCaseOf(r, i)
  BY <1>1 DEF IsOpen, IsCaseOf
<1>4. ReturnsOK'
  <2>1. ASSUME NEW r \in ReturnId, IsOpen(r)'
        PROVE  \E i \in OrderId : /\ orders'[i].status = "RETURN" /\ IsCaseOf(r, i)'
                                  /\ proreturns'[r].pid = orders'[i].pid
    <3>1. PICK i \in OrderId : /\ orders[i].status = "RETURN" /\ IsCaseOf(r, i)
                               /\ proreturns[r].pid = orders[i].pid
      BY <1>3, <2>1 DEF ReturnsOK
    <3>2. i \in Placed'
      BY <1>1, <3>1 DEF Placed
    <3> QED
      BY <1>1, <1>3, <3>1, <3>2
  <2> QED
    BY <1>1, <1>3, <2>1 DEF ReturnsOK
<1>5. \A p : HasReturned(p)' <=> HasReturned(p)
  BY DEF HasReturned
<1>6. CancelledIsReturned'
  BY <1>1, <1>5 DEF CancelledIsReturned, Placed
<1>7. SaleIsExclusive'
  <2> SUFFICES ASSUME NEW p \in Pid, ~HasReturned(p)
               PROVE  /\ \A i, j \in Holding(p)' : i = j
                      /\ Holding(p)' # {} => products'[p].status \in {"LOCKED", "COMPLETED"}
    BY <1>5 DEF SaleIsExclusive
  <2>1. Holding(p)' = Holding(p) \ gone
    BY <1>1 DEF Holding
  <2>2. \A i, j \in Holding(p) : i = j
    BY DEF SaleIsExclusive
  <2>3. ASSUME NEW j \in Holding(p)'
        PROVE  products'[p].status \in {"LOCKED", "COMPLETED"}
    <3>1. j \in Holding(p) /\ j \notin gone
      BY <2>1
    <3>2. ASSUME NEW i \in gone, orders[i].pid = p
          PROVE  FALSE
      <4>1. CASE orders[i].status = "PENDING_PAYMENT"
        BY <2>2, <3>1, <3>2, <4>1 DEF Holding
      <4>2. CASE orders[i].status = "CANCELLED"
        BY <3>2, <4>2 DEF CancelledIsReturned, Placed
      <4> QED
        BY <4>1, <4>2
    <3>3. products[p].status \in {"LOCKED", "COMPLETED"}
      BY <3>1 DEF SaleIsExclusive
    <3> QED
      BY <3>2, <3>3
  <2> QED
    BY <2>1, <2>2, <2>3
<1> QED
  BY <1>2, <1>4, <1>6, <1>7

\* Ordering: the product was NORMAL, so that no order held it, and is locked.
LEMMA PlaceorderSales ==
  ASSUME TradeInv, SalesInv, NEW buyer \in Uid, NEW pid \in Pid,
         NEW t \in {now} \cup ClientTimes, placeorder(buyer, pid, t)
  PROVE  SalesInv' /\ \A i \in Placed : orders'[i] = orders[i]
<1> USE DEF SalesInv, TradeInv, TypeOK
<1> DEFINE new == NewOrder(buyer, pid, t)
<1>1. PICK i \in OrderId : /\ IsNextId(i, Placed, 1)
                           /\ orders' = [orders EXCEPT ![i] = new]
  BY DEF placeorder
<1>2. i \notin Placed /\ i \in Nat
  BY <1>1, TradeAssumption DEF IsNextId, OrderId
<1>3. /\ new.oid = <<buyer, pid, t>> /\ new.pid = pid /\ new.status = "PENDING_PAYMENT"
      /\ \A j \in Placed : orders[j].oid # new.oid
  BY DEF placeorder, NewOrder
<1>4. UNCHANGED proreturns
  BY DEF placeorder
<1>5. /\ products[pid].status = "NORMAL" /\ products'[pid].status = "LOCKED"
      /\ \A p \in Pid \ {pid} : products'[p] = products[p]
  BY WithStatusType DEF placeorder, CatalogTypeOK, ProductStatus
<1>6. new.oid[1] = buyer /\ new.oid[2] = pid
  BY <1>3
<1> HIDE DEF new
<1>7. /\ Placed' = Placed \cup {i} /\ orders'[i] = new
      /\ \A j \in Placed : orders'[j] = orders[j]
  BY <1>1, <1>2, <1>3 DEF Placed, TradeTypeOK
<1>8. OrderKeysOK'
  BY <1>3, <1>6, <1>7 DEF OrderKeysOK
<1>9. /\ \A r \in ReturnId : IsOpen(r)' <=> IsOpen(r)
      /\ \A r \in ReturnId, j \in Placed : IsCaseOf(r, j)' <=> IsCaseOf(r, j)
  BY <1>4, <1>7 DEF IsOpen, IsCaseOf
<1>10. ASSUME NEW r \in ReturnId, IsOpen(r), IsCaseOf(r, i)'
       PROVE  FALSE
  <2>1. PICK j \in OrderId : orders[j].status = "RETURN" /\ IsCaseOf(r, j)
    BY <1>10 DEF ReturnsOK
  <2>2. j \in Placed
    BY <2>1 DEF Placed
  <2>3. proreturns[r].order_id \in {new.oid, IdKey(i)}
    BY <1>4, <1>7, <1>10 DEF IsCaseOf
  <2> QED
    BY <1>2, <1>3, <1>6, <2>1, <2>2, <2>3, KeyFacts DEF IsCaseOf
<1>11. ReturnsOK'
  <2>1. ASSUME NEW r \in ReturnId, IsOpen(r)'
        PROVE  \E j \in OrderId : /\ orders'[j].status = "RETURN" /\ IsCaseOf(r, j)'
                                  /\ proreturns'[r].pid = orders'[j].pid
    <3>1. PICK j \in OrderId : /\ orders[j].status = "RETURN" /\ IsCaseOf(r, j)
                               /\ proreturns[r].pid = orders[j].pid
      BY <1>9, <2>1 DEF ReturnsOK
    <3>2. j \in Placed
      BY <3>1 DEF Placed
    <3> QED
      BY <1>4, <1>7, <1>9, <3>1, <3>2
  <2>2. \A j \in Placed' : \A r, q \in ReturnId :
          IsOpen(r)' /\ IsOpen(q)' /\ IsCaseOf(r, j)' /\ IsCaseOf(q, j)' => r = q
    BY <1>7, <1>9, <1>10 DEF ReturnsOK
  <2> QED
    BY <1>4, <2>1, <2>2 DEF ReturnsOK
<1>12. \A p : HasReturned(p)' <=> HasReturned(p)
  BY <1>4 DEF HasReturned
<1>13. CancelledIsReturned'
  <2> SUFFICES ASSUME NEW j \in OrderId, orders'[j].status = "CANCELLED"
               PROVE  HasReturned(orders[j].pid)'
    BY DEF CancelledIsReturned
  <2>1. j \in Placed' /\ j # i
    BY <1>3, <1>7 DEF Placed
  <2> QED
    BY <1>7, <1>12, <2>1 DEF CancelledIsReturned, Placed
<1>14. SaleIsExclusive'
  <2> SUFFICES ASSUME NEW p \in Pid, ~HasReturned(p)
               PROVE  /\ \A j, k \in Holding(p)' : j = k
                      /\ Holding(p)' # {} => products'[p].status \in {"LOCKED", "COMPLETED"}
    BY <1>12 DEF SaleIsExclusive
  <2>1. CASE p = pid
    <3>1. Holding(p) = {}
      BY <1>5, <2>1 DEF SaleIsExclusive
    <3>2. Holding(p)' \subseteq {i}
      BY <1>7, <3>1 DEF Holding
    <3> QED
      BY <1>5, <2>1, <3>2
  <2>2. CASE p # pid
    <3>1. Holding(p)' = Holding(p)
      BY <1>3, <1>7, <2>2 DEF Holding
    <3> QED
      BY <1>5, <2>2, <3>1 DEF SaleIsExclusive
  <2> QED
    BY <2>1, <2>2
<1> QED
  BY <1>7, <1>8, <1>11, <1>13, <1>14

\* Opening a return, under either key, for an order that had none open.
LEMMA OpenReturn ==
  ASSUME TradeInv, SalesInv, NEW i \in Placed, NEW r \in ReturnId,
         orders[i].status \notin {"RETURN", "CANCELLED"},
         NEW key \in {orders[i].oid, IdKey(i)},
         r \notin Returned, SetOrder(i, "RETURN"),
         proreturns' = [proreturns EXCEPT ![r] = NewReturn(key, orders[i].pid)],
         UNCHANGED products
  PROVE  SalesInv'
<1> USE DEF SalesInv, TradeInv, TypeOK
<1>1. i \in OrderId /\ orders[i].status # "NONE"
  BY DEF Placed
<1>2. /\ \A j \in OrderId : orders'[j].oid = orders[j].oid /\ orders'[j].pid = orders[j].pid
      /\ \A j \in OrderId \ {i} : orders'[j].status = orders[j].status
      /\ orders'[i].status = "RETURN" /\ Placed' = Placed
  BY <1>1 DEF SetOrder, TradeTypeOK, Placed
<1>3. /\ proreturns'[r].order_id = key /\ proreturns'[r].pid = orders[i].pid
      /\ proreturns'[r].status = "PENDING_SHIPMENT"
      /\ \A q \in ReturnId \ {r} : proreturns'[q] = proreturns[q]
      /\ proreturns[r].status = "NONE"
  BY DEF NewReturn, TradeTypeOK, Returned
<1>4. OrderKeysOK'
  BY <1>2 DEF OrderKeysOK, Placed
<1>5. /\ \A q \in ReturnId \ {r} : IsOpen(q)' <=> IsOpen(q)
      /\ \A q \in ReturnId \ {r}, j \in OrderId : IsCaseOf(q, j)' <=> IsCaseOf(q, j)
      /\ IsOpen(r)' /\ IsCaseOf(r, i)'
  BY <1>1, <1>2, <1>3 DEF IsOpen, IsCaseOf
<1>6. ASSUME NEW j \in Placed, IsCaseOf(r, j)'
      PROVE  j = i
  <2>1. key \in {orders[j].oid, IdKey(j)} /\ j \in OrderId
    BY <1>2, <1>3, <1>6 DEF IsCaseOf, Placed
  <2> QED
    BY <1>1, <2>1, KeyFacts DEF OrderKeysOK
<1>7. \A q \in ReturnId \ {r} : ~(IsOpen(q) /\ IsCaseOf(q, i))
  BY OpenReturnOrder
<1>8. ReturnsOK'
  <2>1. ASSUME NEW q \in ReturnId, IsOpen(q)'
        PROVE  \E j \in OrderId : /\ orders'[j].status = "RETURN" /\ IsCaseOf(q, j)'
                                  /\ proreturns'[q].pid = orders'[j].pid
    <3>1. CASE q = r
      BY <1>1, <1>2, <1>3, <1>5, <3>1
    <3>2. CASE q # r
      <4>1. PICK j \in OrderId : /\ orders[j].status = "RETURN" /\ IsCaseOf(q, j)
                                 /\ proreturns[q].pid = orders[j].pid
        BY <1>5, <2>1, <3>2 DEF ReturnsOK
      <4> QED
        BY <1>2, <1>3, <1>5, <3>2, <4>1
    <3> QED
      BY <3>1, <3>2
  <2>2. ASSUME NEW j \in Placed, NEW p \in ReturnId, NEW q \in ReturnId,
               IsOpen(p)', IsOpen(q)', IsCaseOf(p, j)', IsCaseOf(q, j)'
        PROVE  p = q
    <3>1. CASE p # r /\ q # r
      BY <1>5, <2>2, <3>1 DEF ReturnsOK, Placed
    <3>2. CASE p = r \/ q = r
      BY <1>1, <1>5, <1>6, <1>7, <2>2, <3>2
    <3> QED
      BY <3>1, <3>2
  <2>3. \A q \in ReturnId : proreturns'[q].status = "COMPLETED" =>
          /\ proreturns'[q].order_id[1] \in Uid
          /\ proreturns'[q].order_id[2] = proreturns'[q].pid
    BY <1>3 DEF ReturnsOK
  <2> QED
    BY <1>2, <2>1, <2>2, <2>3 DEF ReturnsOK
<1>9. \A p : HasReturned(p)' <=> HasReturned(p)
  BY <1>3 DEF HasReturned
<1>10. CancelledIsReturned'
  BY <1>2, <1>9 DEF CancelledIsReturned
<1>11. \A p \in Pid : Holding(p)' = Holding(p)
  BY <1>2 DEF Holding, Placed
<1>12. SaleIsExclusive'
  BY <1>9, <1>11 DEF SaleIsExclusive
<1> QED
  BY <1>4, <1>8, <1>10, <1>12

\* The row reconreceipt completes is the open return of the order itself: it
\* cancels an order under return and nothing else.
LEMMA ReconreceiptOrder ==
  ASSUME TradeInv, SalesInv, NEW i \in OrderId, NEW r \in ReturnId,
         orders[i].status # "NONE", IsReturnOf(r, orders[i].oid),
         proreturns[r].status = "PENDING_RECEIPT"
  PROVE  /\ i \in Placed /\ IsOpen(r) /\ IsCaseOf(r, i)
         /\ orders[i].status = "RETURN" /\ proreturns[r].pid = orders[i].pid
<1>1. i \in Placed /\ IsOpen(r) /\ IsCaseOf(r, i)
  BY DEF Placed, IsOpen, IsCaseOf, IsReturnOf
<1> QED
  BY <1>1, OpenReturnOrder DEF TradeInv, TypeOK, SalesInv

\* A completed return gives the product back to the catalog and ends the order.
LEMMA ReconreceiptSales ==
  ASSUME TradeInv, SalesInv, NEW i \in OrderId, reconreceipt(i)
  PROVE  SalesInv' /\ orders[i].status = "RETURN"
<1> USE DEF SalesInv, TradeInv, TypeOK
<1>1. PICK r \in ReturnId :
        /\ IsReturnOf(r, orders[i].oid) /\ proreturns[r].status = "PENDING_RECEIPT"
        /\ proreturns' = [proreturns EXCEPT ![r].status = "COMPLETED"]
  BY DEF reconreceipt
<1>2. /\ orders[i].status # "NONE" /\ SetOrder(i, "CANCELLED")
      /\ products' = [products EXCEPT ![orders[i].pid] = WithStatus(@, "NORMAL")]
  BY DEF reconreceipt
<1>3. /\ i \in Placed /\ IsOpen(r) /\ IsCaseOf(r, i)
      /\ orders[i].status = "RETURN" /\ proreturns[r].pid = orders[i].pid
  BY <1>1, <1>2, ReconreceiptOrder
<1>4. /\ \A j \in OrderId : orders'[j].oid = orders[j].oid /\ orders'[j].pid = orders[j].pid
      /\ \A j \in OrderId \ {i} : orders'[j].status = orders[j].status
      /\ orders'[i].status = "CANCELLED" /\ Placed' = Placed
  BY <1>2 DEF SetOrder, TradeTypeOK, Placed
<1>5. /\ \A q \in ReturnId : proreturns'[q].order_id = proreturns[q].order_id
                           /\ proreturns'[q].pid = proreturns[q].pid
      /\ \A q \in ReturnId \ {r} : proreturns'[q].status = proreturns[q].status
      /\ proreturns'[r].status = "COMPLETED"
  BY <1>1 DEF TradeTypeOK
<1>6. OrderKeysOK'
  BY <1>4 DEF OrderKeysOK, Placed
<1>7. /\ \A q \in ReturnId : IsOpen(q)' <=> (IsOpen(q) /\ q # r)
      /\ \A q \in ReturnId, j \in OrderId : IsCaseOf(q, j)' <=> IsCaseOf(q, j)
  BY <1>3, <1>4, <1>5 DEF IsOpen, IsCaseOf
<1>8. ReturnsOK'
  <2>1. ASSUME NEW q \in ReturnId, IsOpen(q)'
        PROVE  \E j \in OrderId : /\ orders'[j].status = "RETURN" /\ IsCaseOf(q, j)'
                                  /\ proreturns'[q].pid = orders'[j].pid
    <3>1. PICK j \in OrderId : /\ orders[j].status = "RETURN" /\ IsCaseOf(q, j)
                               /\ proreturns[q].pid = orders[j].pid
      BY <1>7, <2>1 DEF ReturnsOK
    <3>2. j # i
      BY <1>3, <1>7, <2>1, <3>1 DEF ReturnsOK
    <3> QED
      BY <1>4, <1>5, <1>7, <3>1, <3>2
  <2>2. \A j \in Placed' : \A p, q \in ReturnId :
          IsOpen(p)' /\ IsOpen(q)' /\ IsCaseOf(p, j)' /\ IsCaseOf(q, j)' => p = q
    BY <1>4, <1>7 DEF ReturnsOK, Placed
  <2>3. \A q \in ReturnId : proreturns'[q].status = "COMPLETED" =>
          /\ proreturns'[q].order_id[1] \in Uid
          /\ proreturns'[q].order_id[2] = proreturns'[q].pid
    <3>1. proreturns[r].order_id = orders[i].oid
      BY <1>1 DEF IsReturnOf
    <3>2. proreturns[r].order_id[1] \in Uid /\ proreturns[r].order_id[2] = proreturns[r].pid
      BY <1>3, <3>1, KeyFacts DEF OrderKeysOK
    <3> QED
      BY <1>5, <3>2 DEF ReturnsOK
  <2> QED
    BY <2>1, <2>2, <2>3 DEF ReturnsOK
<1>9. \A p : HasReturned(p) \/ p = orders[i].pid => HasReturned(p)'
  BY <1>3, <1>5 DEF HasReturned, IsOpen
<1>10. CancelledIsReturned'
  <2> SUFFICES ASSUME NEW j \in OrderId, orders'[j].status = "CANCELLED"
               PROVE  HasReturned(orders[j].pid)'
    BY DEF CancelledIsReturned
  <2>1. HasReturned(orders[j].pid) \/ orders[j].pid = orders[i].pid
    BY <1>4 DEF CancelledIsReturned
  <2> QED
    BY <1>4, <1>9, <2>1
<1>11. SaleIsExclusive'
  <2> SUFFICES ASSUME NEW p \in Pid, ~HasReturned(p)'
               PROVE  /\ \A j, k \in Holding(p)' : j = k
                      /\ Holding(p)' # {} => products'[p].status \in {"LOCKED", "COMPLETED"}
    BY DEF SaleIsExclusive
  <2>1. p # orders[i].pid /\ ~HasReturned(p)
    BY <1>9
  <2>2. Holding(p)' = Holding(p)
    BY <1>4, <2>1 DEF Holding, Placed
  <2>3. products'[p] = products[p]
    BY <1>2, <2>1 DEF CatalogTypeOK
  <2> QED
    BY <2>1, <2>2, <2>3 DEF SaleIsExclusive
<1> QED
  BY <1>3, <1>6, <1>8, <1>10, <1>11

\* The catalog does not move a product that is locked or sold.
LEMMA CatalogKeepsHeld ==
  ASSUME CatalogTypeOK, CatalogNext
  PROVE  \A p \in Pid : products[p].status \in Held => products'[p] = products[p]
<1> USE DEF CatalogTypeOK, Held
<1>1. ASSUME NEW offer \in Offers, publish(offer)
      PROVE  \A p \in Pid : products[p].status \in Held => products'[p] = products[p]
  <2>1. PICK pid \in Pid :
          /\ IsNextId(pid, {p \in Pid : products[p].status # "NONE"}, 1)
          /\ products' = [products EXCEPT ![pid] = Listing(offer.uid, offer)]
    BY <1>1 DEF publish
  <2>2. products[pid].status = "NONE"
    BY <2>1, CatalogAssumption DEF IsNextId, Pid
  <2> QED
    BY <2>1, <2>2
<1>2. ASSUME NEW pid \in Pid, NEW offer \in Offers, republish(pid, offer)
      PROVE  \A p \in Pid : products[p].status \in Held => products'[p] = products[p]
  BY <1>2 DEF republish
<1>3. ASSUME NEW uid \in Uid, NEW pid \in Pid, pulloff(uid, pid)
      PROVE  \A p \in Pid : products[p].status \in Held => products'[p] = products[p]
  BY <1>3 DEF pulloff
<1>4. ASSUME NEW uid \in Uid, NEW pid \in Pid, review(uid, pid)
      PROVE  \A p \in Pid : products[p].status \in Held => products'[p] = products[p]
  BY <1>4 DEF review, reviewPass, reviewDelist
<1> QED
  BY <1>1, <1>2, <1>3, <1>4 DEF CatalogNext

\* What no step of Trade does to an order that is decided or in dispute.
OutcomeKept(i) ==
  /\ orders[i].status = "COMPLETED" => orders'[i].status = "COMPLETED"
  /\ orders[i].status = "CANCELLED" => orders'[i].status \in {"CANCELLED", "NONE"}
  /\ orders[i].status = "ARBITRATION" =>
       orders'[i].status = "ARBITRATION" /\ orders'[i].oid = orders[i].oid

\* Steps that leave the three tables alone.
LEMMA NothingSold ==
  ASSUME SalesInv, UNCHANGED <<orders, proreturns, products>>
  PROVE  SalesInv' /\ \A i \in OrderId : OutcomeKept(i)
<1>1. OrdersKept /\ ReturnsKept /\ ProductsKept
  BY DEF OrdersKept, ReturnsKept, ProductsKept
<1> QED
  BY <1>1, SalesFrame DEF OutcomeKept

\* Steps on one order that is neither decided, in dispute nor under return.
LEMMA OneOrderSales ==
  ASSUME TradeInv, SalesInv, NEW i \in OrderId,
         \/ cancelorder(i)   \/ cleanorder(i)
         \/ OnEOSTransfer(i) \/ OnIBCTransfer(i) \/ OnMyTransfer(i)
         \/ shipment(i)      \/ deferreceipt(i) \/ conreceipt(i)
  PROVE  SalesInv' /\ \A j \in OrderId : OutcomeKept(j)
<1> USE DEF TradeInv, TypeOK
<1>1. CASE cancelorder(i)
  <2>1. /\ orders' = [j \in OrderId |-> IF j \in {i} THEN NoOrder ELSE orders[j]]
        /\ {i} \in SUBSET Placed /\ UNCHANGED proreturns
        /\ orders[i].status \in {"PENDING_PAYMENT", "CANCELLED"}
        /\ \A p \in Pid : orders[i].pid # p => products'[p] = products[p]
    BY <1>1 DEF cancelorder, TradeTypeOK, CatalogTypeOK, Placed
  <2>2. SalesInv'
    BY <2>1, RemoveOrders
  <2> QED
    BY <2>1, <2>2 DEF OutcomeKept, NoOrder
<1>2. CASE cleanorder(i)
  <2> DEFINE gone == {j \in Scanned(i) : Expired(j)}
  <2>1. /\ orders' = [j \in OrderId |-> IF j \in gone THEN NoOrder ELSE orders[j]]
        /\ UNCHANGED proreturns
        /\ products' = [p \in Pid |-> IF \E j \in gone : orders[j].pid = p
                                     THEN WithStatus(products[p], "NORMAL") ELSE products[p]]
    BY <1>2 DEF cleanorder
  <2>2. gone \in SUBSET Placed /\ \A j \in gone : orders[j].status = "PENDING_PAYMENT"
    BY DEF Scanned, Expired
  <2> HIDE DEF gone
  <2>3. \A p \in Pid : (\A j \in gone : orders[j].pid # p) => products'[p] = products[p]
    BY <2>1
  <2>4. SalesInv'
    BY <2>1, <2>2, <2>3, RemoveOrders
  <2> QED
    BY <2>1, <2>2, <2>4 DEF OutcomeKept
<1>3. ASSUME NEW ledger, PayOrder(i, ledger)
      PROVE  SalesInv' /\ \A j \in OrderId : OutcomeKept(j)
  <2>1. OrdersKept /\ ReturnsKept /\ ProductsKept /\ \A j \in OrderId : OutcomeKept(j)
    BY <1>3 DEF PayOrder, SetOrder, TradeTypeOK, catalogVars, OrdersKept, ReturnsKept,
                ProductsKept, OutcomeKept
  <2> QED
    BY <2>1, SalesFrame
<1>4. CASE shipment(i)
  <2>1. OrdersKept /\ ReturnsKept /\ ProductsKept /\ \A j \in OrderId : OutcomeKept(j)
    BY <1>4 DEF shipment, TradeTypeOK, catalogVars, OrdersKept, ReturnsKept,
                ProductsKept, OutcomeKept
  <2> QED
    BY <2>1, SalesFrame
<1>5. CASE deferreceipt(i)
  <2>1. OrdersKept /\ ReturnsKept /\ ProductsKept /\ \A j \in OrderId : OutcomeKept(j)
    BY <1>5 DEF deferreceipt, TradeTypeOK, catalogVars, OrdersKept, ReturnsKept,
                ProductsKept, OutcomeKept
  <2> QED
    BY <2>1, SalesFrame
<1>6. CASE conreceipt(i)
  <2>1. OrdersKept /\ ReturnsKept /\ \A j \in OrderId : OutcomeKept(j)
    BY <1>6 DEF conreceipt, SetOrder, TradeTypeOK, OrdersKept, ReturnsKept, OutcomeKept
  <2>2. ProductsKept
    <3>1. products' = [products EXCEPT ![orders[i].pid] = WithStatus(@, "COMPLETED")]
      BY <1>6 DEF conreceipt
    <3>2. \A p \in Pid : products[p].status \in Held =>
             WithStatus(products[p], "COMPLETED").status = "COMPLETED"
      BY WithStatusType DEF CatalogTypeOK, ProductStatus, Held
    <3> QED
      BY <3>1, <3>2 DEF ProductsKept, CatalogTypeOK, Held
  <2> QED
    BY <2>1, <2>2, SalesFrame
<1> QED
  BY <1>1, <1>2, <1>3, <1>4, <1>5, <1>6 DEF OnEOSTransfer, OnIBCTransfer, OnMyTransfer

\* Steps on a return.
LEMMA OneReturnSales ==
  ASSUME TradeInv, SalesInv, NEW i \in OrderId,
         returns(i) \/ reshipment(i) \/ deferreturn(i) \/ reconreceipt(i)
  PROVE  SalesInv' /\ \A j \in OrderId : OutcomeKept(j)
<1> USE DEF TradeInv, TypeOK
<1>1. CASE returns(i)
  <2>1. PICK r \in ReturnId :
          /\ IsNextId(r, Returned, 1)
          /\ proreturns' = [proreturns EXCEPT ![r] = NewReturn(orders[i].oid, orders[i].pid)]
    BY <1>1 DEF returns
  <2>2. r \notin Returned
    BY <2>1, TradeAssumption DEF IsNextId, ReturnId
  <2>3. /\ orders[i].status = "PENDING_RECEIPT" /\ SetOrder(i, "RETURN")
        /\ UNCHANGED products /\ i \in Placed
    BY <1>1 DEF returns, catalogVars, Placed
  <2>4. SalesInv'
    BY <2>1, <2>2, <2>3, OpenReturn
  <2> QED
    BY <2>3, <2>4 DEF OutcomeKept, SetOrder, TradeTypeOK
<1>2. CASE reshipment(i) \/ deferreturn(i)
  <2>1. UNCHANGED <<orders, products>>
    BY <1>2 DEF reshipment, deferreturn, catalogVars
  <2>2. ReturnsKept
    <3>1. CASE reshipment(i)
      <4>1. PICK r \in ReturnId :
              /\ proreturns[r].status = "PENDING_SHIPMENT"
              /\ proreturns' = [proreturns EXCEPT ![r].status = "PENDING_RECEIPT",
                                   ![r].receipt_time_out = now + ReceiptTimeOut]
        BY <3>1 DEF reshipment
      <4>2. proreturns[r] \in ReturnRow
        BY <4>1, ReturnedRow
      <4> QED
        BY <4>1, <4>2 DEF TradeTypeOK, ReturnRow, ReturnsKept
    <3>2. CASE deferreturn(i)
      <4>1. PICK r \in ReturnId :
              /\ r \in Returned
              /\ proreturns' = [proreturns EXCEPT
                   ![r].receipt_time_out = now + ReceiptTimeOut,
                   ![r].delayed_count = @ + 1]
        BY <3>2 DEF deferreturn, IsReturnOf
      <4>2. proreturns[r] \in ReturnRow
        BY <4>1, ReturnedRow DEF Returned
      <4> QED
        BY <4>1, <4>2 DEF TradeTypeOK, ReturnRow, ReturnsKept
    <3> QED
      BY <1>2, <3>1, <3>2
  <2>3. OrdersKept /\ ProductsKept
    BY <2>1 DEF OrdersKept, ProductsKept
  <2> QED
    BY <2>1, <2>2, <2>3, SalesFrame DEF OutcomeKept
<1>3. CASE reconreceipt(i)
  <2>1. SalesInv' /\ orders[i].status = "RETURN" /\ SetOrder(i, "CANCELLED")
    BY <1>3, ReconreceiptSales DEF reconreceipt
  <2> QED
    BY <2>1 DEF OutcomeKept, SetOrder, TradeTypeOK
<1> QED
  BY <1>1, <1>2, <1>3

\* No step of a trade breaks the tables or undoes an outcome.
LEMMA TradeSales ==
  ASSUME TradeInv, SalesInv, TradeNext
  PROVE  SalesInv' /\ \A i \in OrderId : OutcomeKept(i)
<1>1. CASE CatalogNext /\ UNCHANGED tradeVars
  <2>1. ProductsKept
    BY <1>1, CatalogKeepsHeld DEF TradeInv, TypeOK, ProductsKept
  <2>2. OrdersKept /\ ReturnsKept /\ \A i \in OrderId : OutcomeKept(i)
    BY <1>1 DEF tradeVars, OrdersKept, ReturnsKept, OutcomeKept
  <2> QED
    BY <2>1, <2>2, SalesFrame
<1>2. ASSUME NEW buyer \in Uid, NEW pid \in Pid, NEW t \in {now} \cup ClientTimes,
             placeorder(buyer, pid, t)
      PROVE  SalesInv' /\ \A i \in OrderId : OutcomeKept(i)
  BY <1>2, PlaceorderSales DEF OutcomeKept, Placed
<1>3. ASSUME NEW d \in deferred, ExecutePayout(d) \/ ExecuteGift(d) \/ DropDeferred(d)
      PROVE  SalesInv' /\ \A i \in OrderId : OutcomeKept(i)
  <2>1. UNCHANGED <<orders, proreturns, products>>
    BY <1>3 DEF ExecutePayout, ExecuteGift, DropDeferred, catalogVars
  <2> QED
    BY <2>1, NothingSold
<1>4. CASE Tick
  BY <1>4, NothingSold DEF Tick, catalogVars
<1> QED
  BY <1>1, <1>2, <1>3, <1>4, OneOrderSales, OneReturnSales DEF TradeNext

-----------------------------------------------------------------------------
(* Disputes. *)

\* The order of an awaited verdict is in arbitration, and no return is found
\* for it.
LEMMA DecidedOrder ==
  ASSUME MarketInv, NEW a \in ArbId, IsAwaited(a), NEW i \in OrderId, Concerns(a, i)
  PROVE  /\ i \in Placed /\ orders[i].status = "ARBITRATION" /\ CaseReturn(i) = {}
<1>1. i \in Placed /\ orders[i].status = "ARBITRATION"
  BY DEF IsAwaited, Concerns
<1> QED
  BY <1>1, NoCaseReturn DEF MarketInv, MarketTypeOK, TypeOK

\* What an awaited verdict does to the order it is about.
LEMMA VerdictSales ==
  ASSUME MarketInv, NEW a \in ArbId, IsAwaited(a), NEW i \in OrderId, Concerns(a, i),
         NEW winner, verdictOnOrder(a, i, winner)
  PROVE  /\ SalesInv'
         /\ \A j \in OrderId : j # i => orders'[j] = orders[j]
         /\ orders[i].status = "ARBITRATION"
<1> USE DEF MarketInv, MarketTypeOK, TypeOK
<1>1. i \in Placed /\ orders[i].status = "ARBITRATION" /\ CaseReturn(i) = {}
  BY DecidedOrder
<1>2. SalesInv /\ TradeInv
  BY DEF SalesInv, TradeInv
<1>3. CASE verdictReturn(a, i)
  <2>1. PICK r \in ReturnId :
          /\ IsNextId(r, Returned, 0)
          /\ proreturns' = [proreturns EXCEPT ![r] = NewReturn(IdKey(i), orders[i].pid)]
    BY <1>3 DEF verdictReturn
  <2>2. r \notin Returned
    BY <2>1, TradeAssumption DEF IsNextId, ReturnId
  <2>3. SetOrder(i, "RETURN") /\ UNCHANGED products
    BY <1>3 DEF verdictReturn
  <2>4. SalesInv'
    BY <1>1, <1>2, <2>1, <2>2, <2>3, OpenReturn
  <2>5. \A j \in OrderId : j # i => orders'[j] = orders[j]
    BY <2>3 DEF SetOrder, TradeTypeOK
  <2> QED
    BY <1>1, <2>4, <2>5
<1>4. CASE verdictSettle(a, i)
  <2>1. SetOrder(i, "COMPLETED") /\ UNCHANGED <<products, proreturns>>
    BY <1>4 DEF verdictSettle
  <2>2. /\ \A j \in OrderId : j # i => orders'[j] = orders[j]
        /\ orders'[i].oid = orders[i].oid /\ orders'[i].pid = orders[i].pid
        /\ orders'[i].status = "COMPLETED"
    BY <2>1 DEF SetOrder, TradeTypeOK
  <2>3. OrdersKept /\ ReturnsKept /\ ProductsKept
    BY <1>1, <2>1, <2>2 DEF OrdersKept, ReturnsKept, ProductsKept
  <2> QED
    BY <1>1, <1>2, <2>2, <2>3, SalesFrame
<1>5. CASE CloseArb(a) /\ UNCHANGED vars
  <2>1. UNCHANGED <<orders, proreturns, products>>
    BY <1>5 DEF vars, catalogVars, tradeVars
  <2> QED
    BY <1>1, <1>2, <2>1, NothingSold
<1>6. ~verdictRefund(a, i) /\ ~verdictRedeliver(a, i)
  BY <1>1 DEF verdictRefund, verdictRedeliver
<1> QED
  BY <1>3, <1>4, <1>5, <1>6 DEF verdictOnOrder

\* Outcomes are final across a step.
Final(i) ==
  /\ orders[i].status = "COMPLETED" => orders'[i].status = "COMPLETED"
  /\ orders[i].status = "CANCELLED" => orders'[i].status \in {"CANCELLED", "NONE"}

\* Nor does an awaited verdict break the tables or undo an outcome.
LEMMA UpdatearbitSales ==
  ASSUME MarketInv, NEW a \in ArbId, IsAwaited(a), NEW winner, updatearbit(a, winner)
  PROVE  SalesInv' /\ \A i \in OrderId : Final(i)
<1>1. ASSUME UNCHANGED <<orders, proreturns, products>>
      PROVE  SalesInv' /\ \A i \in OrderId : Final(i)
  BY <1>1, NothingSold DEF MarketInv, SalesInv, Final
<1>2. CASE verdictNoOrder(a)
  BY <1>1, <1>2 DEF verdictNoOrder, vars, catalogVars, tradeVars
<1>3. ASSUME NEW i \in OrderId, Concerns(a, i), verdictOnOrder(a, i, winner)
      PROVE  SalesInv' /\ \A j \in OrderId : Final(j)
  BY <1>3, VerdictSales DEF Final
<1>4. CASE verdictOnComplaint(a, winner)
  BY <1>1, <1>4 DEF verdictOnComplaint, tradeVars
<1>5. CASE CloseArb(a) /\ UNCHANGED vars
  BY <1>1, <1>5 DEF vars, catalogVars, tradeVars
<1> QED
  BY <1>2, <1>3, <1>4, <1>5 DEF updatearbit

\* Disputing the return of a case neither opens nor completes a return.
LEMMA DisputeReturnKept ==
  ASSUME TradeTypeOK, NEW oid, DisputeReturn(oid)
  PROVE  ReturnsKept
BY DEF DisputeReturn, TradeTypeOK, ReturnsKept

\* A locked product is a held one.
LEMMA LockKeeps ==
  ASSUME CatalogTypeOK, NEW pid, LockProduct(pid)
  PROVE  ProductsKept
BY WithStatusType DEF LockProduct, ProductsKept, CatalogTypeOK, ProductStatus, Held

\* A case about an order freezes the order and its return, if it has one.
LEMMA ApplyarbitOrderSales ==
  ASSUME MarketInv, NEW parties, NEW pid, NEW i \in Placed,
         applyarbitOrder(parties, pid, i)
  PROVE  SalesInv' /\ \A j \in OrderId : Final(j)
<1> USE DEF MarketInv, MarketTypeOK, TypeOK
<1>1. i \in OrderId /\ orders[i].status = "PENDING_RECEIPT"
  BY DEF applyarbitOrder, IsDisputable, Placed
<1>2. /\ \A j \in OrderId \ {i} : orders'[j] = orders[j]
      /\ orders'[i].oid = orders[i].oid /\ orders'[i].pid = orders[i].pid
      /\ orders'[i].status = "ARBITRATION"
  BY <1>1 DEF applyarbitOrder, SetOrder, TradeTypeOK
<1>3. OrdersKept
  BY <1>1, <1>2 DEF OrdersKept
<1>4. ReturnsKept /\ ProductsKept
  BY DisputeReturnKept, LockKeeps DEF applyarbitOrder
<1> QED
  BY <1>1, <1>2, <1>3, <1>4, SalesFrame DEF SalesInv, Final

\* A case about no order, or about none there is yet, at most freezes a return
\* and locks a product.
LEMMA ApplyarbitOtherSales ==
  ASSUME MarketInv, NEW type, NEW parties, NEW pid, NEW oid,
         applyarbitEarly(parties, pid, oid) \/ applyarbitOther(type, parties, pid)
  PROVE  SalesInv' /\ \A j \in OrderId : Final(j)
<1> USE DEF MarketInv, MarketTypeOK, TypeOK
<1>1. UNCHANGED orders /\ LockProduct(pid)
  BY DEF applyarbitEarly, applyarbitOther
<1>2. ReturnsKept
  BY DisputeReturnKept DEF applyarbitEarly, applyarbitOther, ReturnsKept
<1>3. OrdersKept /\ ProductsKept
  BY <1>1, LockKeeps DEF OrdersKept
<1> QED
  BY <1>1, <1>2, <1>3, SalesFrame DEF SalesInv, Final

\* The inductive step of MarketInv, and what no step undoes.
LEMMA MarketStep ==
  ASSUME MarketInv, AwaitedNext
  PROVE  MarketInv' /\ \A i \in OrderId : Final(i)
<1>1. MarketBase'
  BY MarketStepType, AwaitedIsMarket DEF MarketInv, MarketBase
<1>2. SalesInv' /\ \A i \in OrderId : Final(i)
  <2>1. CASE TradeNext /\ UNCHANGED arbs
    <3>1. SalesInv' /\ \A i \in OrderId : OutcomeKept(i)
      BY <2>1, TradeSales DEF MarketInv, MarketTypeOK, SalesInv, TradeInv
    <3> QED
      BY <3>1 DEF OutcomeKept, Final
  <2>2. ASSUME NEW type \in ArbTypes, NEW parties \in Parties, NEW pid \in Pid,
               applyarbit(type, parties, pid)
        PROVE  SalesInv' /\ \A i \in OrderId : Final(i)
    BY <2>2, ApplyarbitOrderSales, ApplyarbitOtherSales DEF applyarbit
  <2>3. ASSUME NEW uid \in Uid, NEW a \in ArbId, inarbit(uid, a)
        PROVE  SalesInv' /\ \A i \in OrderId : Final(i)
    <3>1. UNCHANGED <<orders, proreturns, products>>
      BY <2>3 DEF inarbit, vars, catalogVars, tradeVars
    <3> QED
      BY <3>1, NothingSold DEF MarketInv, SalesInv, Final
  <2> QED
    BY <2>1, <2>2, <2>3, UpdatearbitSales DEF AwaitedNext
<1> QED
  BY <1>1, <1>2 DEF MarketInv, MarketBase, SalesInv

\* Empty tables satisfy it.
LEMMA MarketInitInv == MarketInit => MarketInv
<1> SUFFICES ASSUME MarketInit
             PROVE  MarketInv
  OBVIOUS
<1>1. MarketBase
  BY MarketInitType
<1>2. /\ Placed = {} /\ \A i \in OrderId : orders[i].status = "NONE"
      /\ \A r \in ReturnId : proreturns[r].status = "NONE"
  BY DEF MarketInit, TradeInit, Placed, NoOrder, NoReturn
<1>3. OrderKeysOK /\ ReturnsOK /\ CancelledIsReturned
  BY <1>2 DEF OrderKeysOK, ReturnsOK, CancelledIsReturned, IsOpen
<1>4. SaleIsExclusive
  BY <1>2 DEF SaleIsExclusive, Holding
<1> QED
  BY <1>1, <1>3, <1>4 DEF MarketInv, MarketBase

\* Nor does a step of somebody else.
LEMMA MarketStutterInv == MarketInv /\ UNCHANGED marketVars => MarketInv'
<1> SUFFICES ASSUME MarketInv, UNCHANGED marketVars
             PROVE  MarketInv'
  OBVIOUS
<1>1. MarketBase'
  BY MarketStutter DEF MarketInv, MarketBase
<1>2. UNCHANGED <<orders, proreturns, products>>
  BY DEF marketVars, vars, catalogVars, tradeVars
<1>3. SalesInv'
  BY <1>2, NothingSold DEF MarketInv, SalesInv
<1> QED
  BY <1>1, <1>3 DEF MarketInv, MarketBase, SalesInv

-----------------------------------------------------------------------------
\* While verdicts fall on awaiting orders only, the tables stay consistent with
\* one another: every lookup by key finds the row the handler means.
THEOREM MarketIsConsistent == AwaitedSpec => []MarketInv
BY MarketInitInv, MarketStep, MarketStutterInv, PTL DEF AwaitedSpec

\* And one product has one buyer, until a return of the product has completed:
\* placeorder's check on NORMAL cannot be got round by cancelling, cleaning,
\* returning, disputing, delisting or reviewing in any order.
THEOREM SalesAreExclusive == AwaitedSpec => []SaleIsExclusive
<1>1. MarketInv => SaleIsExclusive
  BY DEF MarketInv
<1> QED
  BY <1>1, MarketIsConsistent, PTL

\* And nothing undoes a completed or a cancelled order: no second confirmation,
\* return or dispute.
THEOREM OutcomesAreFinal == AwaitedSpec => OutcomeIsFinal
<1>1. MarketInv /\ [AwaitedNext]_marketVars =>
        [\A i \in OrderId : Final(i)]_vars
  BY MarketStep DEF marketVars
<1>2. [\A i \in OrderId : Final(i)]_vars <=>
        [\A i \in OrderId :
           /\ orders[i].status = "COMPLETED" => orders'[i].status = "COMPLETED"
           /\ orders[i].status = "CANCELLED" =>
                orders'[i].status \in {"CANCELLED", "NONE"}]_vars
  BY DEF Final
<1> QED
  BY <1>1, <1>2, MarketIsConsistent, PTL DEF AwaitedSpec, OutcomeIsFinal

-----------------------------------------------------------------------------
(* The money held for a return is never out of reach: it has an open case.  *)

\* A step that sends no order into a return and ends no case of an order that
\* stays in one.
LEMMA ReturnFrame ==
  ASSUME ReturnHasCase,
         \A i \in OrderId : orders'[i].status = "RETURN" =>
           orders[i].status = "RETURN" /\ orders'[i].oid = orders[i].oid,
         \A r \in ReturnId, i \in OrderId :
           orders'[i].status = "RETURN" /\ IsOpen(r) /\ IsCaseOf(r, i) =>
             IsOpen(r)' /\ proreturns'[r].order_id = proreturns[r].order_id
  PROVE  ReturnHasCase'
<1> SUFFICES ASSUME NEW i \in OrderId, orders'[i].status = "RETURN"
             PROVE  \E r \in Returned' :
                      /\ proreturns'[r].order_id \in {orders'[i].oid, IdKey(i)}
                      /\ proreturns'[r].status # "COMPLETED"
  BY DEF ReturnHasCase, IdKey
<1>1. PICK r \in ReturnId : IsOpen(r) /\ IsCaseOf(r, i)
  BY DEF ReturnHasCase, Returned, IsOpen, IsCaseOf
<1>2. /\ IsOpen(r)' /\ proreturns'[r].order_id = proreturns[r].order_id
      /\ orders'[i].oid = orders[i].oid
  BY <1>1
<1> QED
  BY <1>1, <1>2 DEF Returned, IsOpen, IsCaseOf

\* Sending an order into a return opens its case in a row that was free.
LEMMA ReturnOpened ==
  ASSUME TradeTypeOK, ReturnHasCase, NEW i \in OrderId, SetOrder(i, "RETURN"),
         NEW r \in ReturnId, r \notin Returned,
         NEW key \in {orders[i].oid, IdKey(i)}, NEW pid,
         proreturns' = [proreturns EXCEPT ![r] = NewReturn(key, pid)]
  PROVE  ReturnHasCase'
<1>1. /\ \A j \in OrderId : orders'[j].oid = orders[j].oid
      /\ \A j \in OrderId \ {i} : orders'[j].status = orders[j].status
  BY DEF SetOrder, TradeTypeOK
<1>2. /\ \A q \in ReturnId \ {r} : proreturns'[q] = proreturns[q]
      /\ proreturns'[r].order_id = key /\ proreturns'[r].status = "PENDING_SHIPMENT"
  BY DEF NewReturn, TradeTypeOK
<1>3. ASSUME NEW j \in OrderId, orders'[j].status = "RETURN"
      PROVE  \E q \in Returned' :
               /\ proreturns'[q].order_id \in {orders'[j].oid, IdKey(j)}
               /\ proreturns'[q].status # "COMPLETED"
  <2>1. CASE j = i
    BY <1>1, <1>2, <2>1 DEF Returned
  <2>2. CASE j # i
    <3>1. PICK q \in Returned : /\ proreturns[q].order_id \in {orders[j].oid, IdKey(j)}
                                /\ proreturns[q].status # "COMPLETED"
      BY <1>1, <1>3, <2>2 DEF ReturnHasCase
    <3> QED
      BY <1>1, <1>2, <3>1 DEF Returned
  <2> QED
    BY <2>1, <2>2
<1> QED
  BY <1>3 DEF ReturnHasCase, IdKey

\* Steps that move no order into a return and touch no return.
LEMMA ReturnsAlone ==
  ASSUME ReturnHasCase, UNCHANGED proreturns,
         \A i \in OrderId : orders'[i].status = "RETURN" =>
           orders[i].status = "RETURN" /\ orders'[i].oid = orders[i].oid
  PROVE  ReturnHasCase'
BY ReturnFrame DEF IsOpen

\* The steps on the return of an order: only reconreceipt ends a case, and
\* the order it is the case of leaves the return with it.
LEMMA ReturnStepsCase ==
  ASSUME TradeInv, OrderKeysOK, ReturnHasCase, NEW i \in OrderId,
         returns(i) \/ reshipment(i) \/ deferreturn(i) \/ reconreceipt(i)
  PROVE  ReturnHasCase'
<1> USE DEF TradeInv, TypeOK
<1>1. CASE returns(i)
  <2>1. PICK r \in ReturnId :
          /\ IsNextId(r, Returned, 1)
          /\ proreturns' = [proreturns EXCEPT ![r] = NewReturn(orders[i].oid, orders[i].pid)]
    BY <1>1 DEF returns
  <2>2. r \notin Returned
    BY <2>1, TradeAssumption DEF IsNextId, ReturnId
  <2>3. SetOrder(i, "RETURN")
    BY <1>1 DEF returns
  <2> QED
    BY <2>1, <2>2, <2>3, ReturnOpened
<1>2. CASE reshipment(i)
  <2>1. PICK r \in ReturnId :
          /\ proreturns[r].status = "PENDING_SHIPMENT"
          /\ proreturns' = [proreturns EXCEPT ![r].status = "PENDING_RECEIPT",
                               ![r].receipt_time_out = now + ReceiptTimeOut]
    BY <1>2 DEF reshipment
  <2>2. proreturns[r] \in ReturnRow
    BY <2>1, ReturnedRow
  <2>3. \A q \in ReturnId : IsOpen(q) =>
          IsOpen(q)' /\ proreturns'[q].order_id = proreturns[q].order_id
    BY <2>1, <2>2 DEF TradeTypeOK, ReturnRow, IsOpen
  <2>4. UNCHANGED orders
    BY <1>2 DEF reshipment
  <2> QED
    BY <2>3, <2>4, ReturnFrame
<1>3. CASE deferreturn(i)
  <2>1. PICK r \in ReturnId :
          /\ r \in Returned
          /\ proreturns' = [proreturns EXCEPT
               ![r].receipt_time_out = now + ReceiptTimeOut,
               ![r].delayed_count = @ + 1]
    BY <1>3 DEF deferreturn, IsReturnOf
  <2>2. proreturns[r] \in ReturnRow
    BY <2>1, ReturnedRow DEF Returned
  <2>3. \A q \in ReturnId : IsOpen(q) =>
          IsOpen(q)' /\ proreturns'[q].order_id = proreturns[q].order_id
    BY <2>1, <2>2 DEF TradeTypeOK, ReturnRow, IsOpen
  <2>4. UNCHANGED orders
    BY <1>3 DEF deferreturn
  <2> QED
    BY <2>3, <2>4, ReturnFrame
<1>4. CASE reconreceipt(i)
  <2>1. PICK r \in ReturnId :
          /\ IsReturnOf(r, orders[i].oid) /\ proreturns[r].status = "PENDING_RECEIPT"
          /\ proreturns' = [proreturns EXCEPT ![r].status = "COMPLETED"]
    BY <1>4 DEF reconreceipt
  <2>2. orders[i].status # "NONE" /\ SetOrder(i, "CANCELLED")
    BY <1>4 DEF reconreceipt
  <2>3. i \in Placed /\ IsCaseOf(r, i)
    BY <2>1, <2>2 DEF Placed, IsReturnOf, IsCaseOf
  <2>4. /\ \A j \in OrderId \ {i} : orders'[j] = orders[j]
        /\ orders'[i].status = "CANCELLED"
    BY <2>2 DEF SetOrder, TradeTypeOK
  <2>5. ASSUME NEW q \in ReturnId, NEW j \in OrderId,
               orders'[j].status = "RETURN", IsOpen(q), IsCaseOf(q, j)
        PROVE  IsOpen(q)' /\ proreturns'[q].order_id = proreturns[q].order_id
    <3>1. j # i /\ j \in Placed
      BY <2>4, <2>5 DEF Placed
    <3>2. q # r
      BY <2>3, <2>5, <3>1, CaseOwner
    <3> QED
      BY <2>1, <2>5, <3>2 DEF IsOpen, TradeTypeOK
  <2> QED
    BY <2>4, <2>5, ReturnFrame
<1> QED
  BY <1>1, <1>2, <1>3, <1>4

\* The other steps of a trade move no order into a return.
LEMMA TradeCase ==
  ASSUME TradeInv, OrderKeysOK, ReturnHasCase, TradeNext
  PROVE  ReturnHasCase'
<1> USE DEF TradeInv, TypeOK
<1>1. CASE CatalogNext /\ UNCHANGED tradeVars
  BY <1>1, ReturnsAlone DEF tradeVars
<1>2. ASSUME NEW buyer \in Uid, NEW pid \in Pid, NEW t \in {now} \cup ClientTimes,
             placeorder(buyer, pid, t)
      PROVE  ReturnHasCase'
  <2>1. PICK i \in OrderId : orders' = [orders EXCEPT ![i] = NewOrder(buyer, pid, t)]
    BY <1>2 DEF placeorder
  <2>2. \A j \in OrderId : orders'[j].status = "RETURN" => orders'[j] = orders[j]
    BY <2>1 DEF NewOrder, TradeTypeOK
  <2> QED
    BY <1>2, <2>2, ReturnsAlone DEF placeorder
<1>3. ASSUME NEW i \in OrderId,
             \/ cancelorder(i)   \/ cleanorder(i)
             \/ OnEOSTransfer(i) \/ OnIBCTransfer(i) \/ OnMyTransfer(i)
             \/ shipment(i)      \/ deferreceipt(i) \/ conreceipt(i)
      PROVE  ReturnHasCase'
  <2>1. UNCHANGED proreturns
    BY <1>3 DEF cancelorder, cleanorder, OnEOSTransfer, OnIBCTransfer, OnMyTransfer,
                PayOrder, shipment, deferreceipt, conreceipt
  <2>2. CASE cancelorder(i)
    BY <2>1, <2>2, ReturnsAlone DEF cancelorder, NoOrder, TradeTypeOK
  <2>3. CASE cleanorder(i)
    <3> DEFINE gone == {j \in Scanned(i) : Expired(j)}
    <3>1. orders' = [j \in OrderId |-> IF j \in gone THEN NoOrder ELSE orders[j]]
      BY <2>3 DEF cleanorder
    <3> HIDE DEF gone
    <3> QED
      BY <2>1, <3>1, ReturnsAlone DEF NoOrder
  <2>4. ASSUME NEW ledger, PayOrder(i, ledger)
        PROVE  ReturnHasCase'
    BY <2>1, <2>4, ReturnsAlone DEF PayOrder, SetOrder, TradeTypeOK
  <2>5. CASE shipment(i)
    BY <2>1, <2>5, ReturnsAlone DEF shipment, TradeTypeOK
  <2>6. CASE deferreceipt(i)
    <3>1. orders[i] \in OrderRow
      BY <2>6, PlacedRow DEF deferreceipt
    <3>2. \A j \in OrderId : orders'[j].status = orders[j].status /\ orders'[j].oid = orders[j].oid
      BY <2>6, <3>1 DEF deferreceipt, TradeTypeOK, OrderRow
    <3> QED
      BY <2>1, <3>2, ReturnsAlone
  <2>7. CASE conreceipt(i)
    BY <2>1, <2>7, ReturnsAlone DEF conreceipt, SetOrder, TradeTypeOK
  <2> QED
    BY <1>3, <2>2, <2>3, <2>4, <2>5, <2>6, <2>7 DEF OnEOSTransfer, OnIBCTransfer, OnMyTransfer
<1>4. ASSUME NEW d \in deferred, ExecutePayout(d) \/ ExecuteGift(d) \/ DropDeferred(d)
      PROVE  ReturnHasCase'
  BY <1>4, ReturnsAlone DEF ExecutePayout, ExecuteGift, DropDeferred
<1>5. CASE Tick
  BY <1>5, ReturnsAlone DEF Tick
<1> QED
  BY <1>1, <1>2, <1>3, <1>4, <1>5, ReturnStepsCase DEF TradeNext

\* A verdict ends no case but that of the order it moves out of the return,
\* in whatever state it finds the order.
LEMMA VerdictCase ==
  ASSUME MarketBase, OrderKeysOK, ReturnHasCase, NEW a \in ArbId,
         NEW i \in OrderId, Concerns(a, i), NEW winner, verdictOnOrder(a, i, winner)
  PROVE  ReturnHasCase'
<1> USE DEF MarketBase, MarketTypeOK, TypeOK
<1>1. i \in Placed
  BY DEF Concerns
<1>2. CASE verdictRefund(a, i)
  <2>1. \A j \in OrderId : orders'[j].status = "RETURN" => j # i /\ orders'[j] = orders[j]
    BY <1>2 DEF verdictRefund, SetOrder, TradeTypeOK
  <2>2. ASSUME NEW q \in ReturnId, NEW j \in OrderId,
               orders'[j].status = "RETURN", IsOpen(q), IsCaseOf(q, j)
        PROVE  IsOpen(q)' /\ proreturns'[q].order_id = proreturns[q].order_id
    <3>1. j # i /\ j \in Placed
      BY <2>1, <2>2 DEF Placed
    <3>2. q \notin CaseReturn(i)
      BY <1>1, <2>2, <3>1, CaseOwner DEF CaseReturn, IsReturnOf, IsCaseOf
    <3> QED
      BY <1>2, <2>2, <3>2 DEF verdictRefund, IsOpen
  <2> QED
    BY <2>1, <2>2, ReturnFrame
<1>3. CASE verdictReturn(a, i)
  <2>1. PICK r \in ReturnId :
          /\ IsNextId(r, Returned, 0)
          /\ proreturns' = [proreturns EXCEPT ![r] = NewReturn(IdKey(i), orders[i].pid)]
    BY <1>3 DEF verdictReturn
  <2>2. r \notin Returned
    BY <2>1, TradeAssumption DEF IsNextId, ReturnId
  <2>3. SetOrder(i, "RETURN")
    BY <1>3 DEF verdictReturn
  <2> QED
    BY <2>1, <2>2, <2>3, ReturnOpened
<1>4. CASE verdictRedeliver(a, i)
  BY <1>4, ReturnsAlone DEF verdictRedeliver, SetOrder, TradeTypeOK
<1>5. CASE verdictSettle(a, i)
  BY <1>5, ReturnsAlone DEF verdictSettle, SetOrder, TradeTypeOK
<1>6. CASE CloseArb(a) /\ UNCHANGED vars
  BY <1>6, ReturnsAlone DEF vars, tradeVars
<1> QED
  BY <1>2, <1>3, <1>4, <1>5, <1>6 DEF verdictOnOrder

\* Opening a case freezes an order or a return, and no return ends.
LEMMA ApplyarbitCase ==
  ASSUME MarketBase, ReturnHasCase, NEW type, NEW parties, NEW pid,
         applyarbit(type, parties, pid)
  PROVE  ReturnHasCase'
<1> USE DEF MarketBase, MarketTypeOK, TypeOK
<1>1. ASSUME NEW oid, DisputeReturn(oid), NEW q \in ReturnId, IsOpen(q)
      PROVE  IsOpen(q)' /\ proreturns'[q].order_id = proreturns[q].order_id
  BY <1>1 DEF DisputeReturn, TradeTypeOK, IsOpen
<1>2. ASSUME NEW i \in Placed, applyarbitOrder(parties, pid, i)
      PROVE  ReturnHasCase'
  <2>1. \A j \in OrderId : orders'[j].status = "RETURN" => orders'[j] = orders[j]
    BY <1>2 DEF applyarbitOrder, SetOrder, TradeTypeOK, Placed
  <2> QED
    BY <1>1, <1>2, <2>1, ReturnFrame DEF applyarbitOrder
<1>3. ASSUME NEW oid, applyarbitEarly(parties, pid, oid)
      PROVE  ReturnHasCase'
  BY <1>1, <1>3, ReturnFrame DEF applyarbitEarly
<1>4. CASE applyarbitOther(type, parties, pid)
  BY <1>4, ReturnsAlone DEF applyarbitOther
<1> QED
  BY <1>2, <1>3, <1>4 DEF applyarbit

\* No step of the market loses a case.
LEMMA MarketCase ==
  ASSUME MarketBase, OrderKeysOK, ReturnHasCase, MarketNext
  PROVE  ReturnHasCase'
<1>1. CASE TradeNext /\ UNCHANGED arbs
  BY <1>1, TradeCase DEF MarketBase, MarketTypeOK, TradeInv
<1>2. ASSUME UNCHANGED <<orders, proreturns>>
      PROVE  ReturnHasCase'
  BY <1>2, ReturnsAlone
<1>3. ASSUME NEW uid \in Uid, NEW a \in ArbId, inarbit(uid, a)
      PROVE  ReturnHasCase'
  BY <1>2, <1>3 DEF inarbit, vars, tradeVars
<1>4. ASSUME NEW a \in ArbId, NEW winner, updatearbit(a, winner)
      PROVE  ReturnHasCase'
  <2>1. CASE UNCHANGED tradeVars
    BY <1>2, <2>1 DEF tradeVars
  <2>2. ASSUME NEW i \in OrderId, Concerns(a, i), verdictOnOrder(a, i, winner)
        PROVE  ReturnHasCase'
    BY <2>2, VerdictCase
  <2> QED
    BY <1>4, <2>1, <2>2 DEF updatearbit, verdictNoOrder, verdictOnComplaint, vars
<1> QED
  BY <1>1, <1>3, <1>4, ApplyarbitCase DEF MarketNext

\* While an order is under return there is an open case that belongs to it,
\* also when a case was filed before its order, or verdicts are signed twice or
\* on unpaid and completed orders: no confirmation, dispute or verdict ends the
\* case and leaves the order, or ends the case of another order found under the
\* same key.
THEOREM ReturnsAreNotForgotten == MarketSpec => []ReturnHasCase
<1> DEFINE Inv == MarketBase /\ OrderKeysOK /\ ReturnHasCase
<1>1. MarketInit => Inv
  <2>1. MarketInit => \A i \in OrderId : orders[i].status = "NONE"
    BY DEF MarketInit, TradeInit, NoOrder
  <2> QED
    BY <2>1, MarketInitType DEF OrderKeysOK, ReturnHasCase, Placed
<1>2. Inv /\ [MarketNext]_marketVars => Inv'
  <2>1. ASSUME Inv, MarketNext
        PROVE  Inv'
    BY <2>1, MarketStepType, MarketKeys, MarketCase
  <2>2. ASSUME Inv, UNCHANGED marketVars
        PROVE  Inv'
    <3>1. UNCHANGED <<orders, proreturns>>
      BY <2>2 DEF marketVars, vars, tradeVars
    <3> QED
      BY <2>2, <3>1, MarketStutter, KeysFrame, ReturnsAlone
  <2> QED
    BY <2>1, <2>2
<1>3. Inv => ReturnHasCase
  OBVIOUS
<1> QED
  BY <1>1, <1>2, <1>3, PTL DEF MarketSpec
-----------------------------------------------------------------------------
(* What waits for review, or was taken down, sells by a review only. *)

\* What OnlyReviewSells says of a step and a product.
Unsold(p) == products[p].status \in {"PUBLISH", "DELISTED"}
PassedOrReturned(p) ==
  Unsold(p) /\ products'[p].status = "NORMAL" => audits'[p] > audits[p] \/ HasReturned(p)

\* The product of an order is held, unless a return of it has completed.
LEMMA OrderHolds ==
  ASSUME TradeTypeOK, CancelledIsReturned, SaleIsExclusive, NEW i \in Placed
  PROVE  orders[i].pid \in Pid /\ (~Unsold(orders[i].pid) \/ HasReturned(orders[i].pid))
<1>1. i \in OrderId /\ orders[i].status # "NONE"
  BY DEF Placed
<1>2. orders[i].pid \in Pid
  BY <1>1, PlacedRow
<1>3. CASE orders[i].status = "CANCELLED"
  BY <1>1, <1>2, <1>3 DEF CancelledIsReturned
<1>4. CASE orders[i].status # "CANCELLED"
  BY <1>2, <1>4 DEF SaleIsExclusive, Holding, Unsold
<1> QED
  BY <1>2, <1>3, <1>4

\* The catalog sells by review.
LEMMA CatalogPassed ==
  ASSUME CatalogTypeOK, CatalogNext
  PROVE  \A p \in Pid : PassedOrReturned(p)
<1> USE DEF CatalogTypeOK
<1>1. ASSUME NEW offer \in Offers, publish(offer)
      PROVE  \A p \in Pid : PassedOrReturned(p)
  BY <1>1 DEF publish, Listing, PassedOrReturned, Unsold
<1>2. ASSUME NEW pid \in Pid, NEW offer \in Offers, republish(pid, offer)
      PROVE  \A p \in Pid : PassedOrReturned(p)
  BY <1>2 DEF republish, Listing, PassedOrReturned, Unsold
<1>3. ASSUME NEW uid \in Uid, NEW pid \in Pid, pulloff(uid, pid)
      PROVE  \A p \in Pid : PassedOrReturned(p)
  BY <1>3 DEF pulloff, PassedOrReturned, Unsold
<1>4. ASSUME NEW uid \in Uid, NEW pid \in Pid, review(uid, pid)
      PROVE  \A p \in Pid : PassedOrReturned(p)
  <2>1. audits'[pid] > audits[pid]
    <3>1. audits[pid] \in Nat /\ audits' = [audits EXCEPT ![pid] = @ + 1]
      BY <1>4, CatalogAssumption DEF review
    <3> QED
      BY <3>1
  <2>2. \A p \in Pid \ {pid} : products'[p] = products[p]
    BY <1>4 DEF review, reviewPass, reviewDelist
  <2> QED
    BY <2>1, <2>2 DEF PassedOrReturned, Unsold
<1> QED
  BY <1>1, <1>2, <1>3, <1>4 DEF CatalogNext

\* A trade puts the products of orders on sale, and those are held.
LEMMA TradePassed ==
  ASSUME TradeInv, SalesInv, TradeNext
  PROVE  \A p \in Pid : PassedOrReturned(p)
<1> USE DEF TradeInv, TypeOK, SalesInv
<1>1. ASSUME UNCHANGED products
      PROVE  \A p \in Pid : PassedOrReturned(p)
  BY <1>1 DEF PassedOrReturned, Unsold
<1>2. ASSUME NEW i \in Placed,
             \A p \in Pid : p # orders[i].pid => products'[p] = products[p]
      PROVE  \A p \in Pid : PassedOrReturned(p)
  BY <1>2, OrderHolds DEF PassedOrReturned, Unsold
<1>3. CASE CatalogNext /\ UNCHANGED tradeVars
  BY <1>3, CatalogPassed
<1>4. ASSUME NEW buyer \in Uid, NEW pid \in Pid, NEW t \in {now} \cup ClientTimes,
             placeorder(buyer, pid, t)
      PROVE  \A p \in Pid : PassedOrReturned(p)
  <2>1. products[pid].status = "NORMAL" /\ \A p \in Pid \ {pid} : products'[p] = products[p]
    BY <1>4 DEF placeorder, CatalogTypeOK
  <2> QED
    BY <2>1 DEF PassedOrReturned, Unsold
<1>5. ASSUME NEW i \in OrderId, cancelorder(i) \/ conreceipt(i) \/ reconreceipt(i)
      PROVE  \A p \in Pid : PassedOrReturned(p)
  <2>1. i \in Placed
    BY <1>5 DEF cancelorder, conreceipt, reconreceipt, Placed
  <2>2. \A p \in Pid : p # orders[i].pid => products'[p] = products[p]
    BY <1>5 DEF cancelorder, conreceipt, reconreceipt, CatalogTypeOK
  <2> QED
    BY <1>2, <2>1, <2>2
<1>6. ASSUME NEW i \in OrderId, cleanorder(i)
      PROVE  \A p \in Pid : PassedOrReturned(p)
  <2> DEFINE gone == {j \in Scanned(i) : Expired(j)}
  <2>1. gone \subseteq Placed
    BY DEF Scanned
  <2>2. \A p \in Pid : (\A j \in gone : orders[j].pid # p) => products'[p] = products[p]
    BY <1>6 DEF cleanorder
  <2> HIDE DEF gone
  <2> QED
    BY <2>1, <2>2, OrderHolds DEF PassedOrReturned, Unsold
<1>7. ASSUME NEW i \in OrderId,
             \/ OnEOSTransfer(i) \/ OnIBCTransfer(i) \/ OnMyTransfer(i)
             \/ shipment(i)      \/ deferreceipt(i)
             \/ returns(i)       \/ reshipment(i)    \/ deferreturn(i)
      PROVE  \A p \in Pid : PassedOrReturned(p)
  BY <1>1, <1>7 DEF OnEOSTransfer, OnIBCTransfer, OnMyTransfer, PayOrder, shipment,
                    deferreceipt, returns, reshipment, deferreturn, catalogVars
<1>8. ASSUME NEW d \in deferred, ExecutePayout(d) \/ ExecuteGift(d) \/ DropDeferred(d)
      PROVE  \A p \in Pid : PassedOrReturned(p)
  BY <1>1, <1>8 DEF ExecutePayout, ExecuteGift, DropDeferred, catalogVars
<1>9. CASE Tick
  BY <1>1, <1>9 DEF Tick, catalogVars
<1> QED
  BY <1>3, <1>4, <1>5, <1>6, <1>7, <1>8, <1>9 DEF TradeNext

\* A dispute locks products, and a refund puts the product of its order on
\* sale.
LEMMA MarketPassed ==
  ASSUME MarketInv, AwaitedNext
  PROVE  \A p \in Pid : PassedOrReturned(p)
<1> USE DEF MarketInv, MarketTypeOK, TypeOK
<1>1. ASSUME UNCHANGED products
      PROVE  \A p \in Pid : PassedOrReturned(p)
  BY <1>1 DEF PassedOrReturned, Unsold
<1>2. CASE TradeNext /\ UNCHANGED arbs
  BY <1>2, TradePassed DEF TradeInv, SalesInv
<1>3. ASSUME NEW type \in ArbTypes, NEW parties \in Parties, NEW pid \in Pid,
             applyarbit(type, parties, pid)
      PROVE  \A p \in Pid : PassedOrReturned(p)
  <2>1. LockProduct(pid)
    BY <1>3 DEF applyarbit, applyarbitOrder, applyarbitEarly, applyarbitOther
  <2>2. products'[pid].status = "LOCKED" \/ products'[pid] = products[pid]
    BY <2>1, WithStatusType DEF LockProduct, CatalogTypeOK, ProductStatus
  <2>3. \A p \in Pid \ {pid} : products'[p] = products[p]
    BY <2>1 DEF LockProduct
  <2> QED
    BY <2>2, <2>3 DEF PassedOrReturned, Unsold
<1>4. ASSUME NEW uid \in Uid, NEW a \in ArbId, inarbit(uid, a)
      PROVE  \A p \in Pid : PassedOrReturned(p)
  BY <1>1, <1>4 DEF inarbit, vars, catalogVars
<1>5. ASSUME NEW a \in ArbId, NEW winner, updatearbit(a, winner)
      PROVE  \A p \in Pid : PassedOrReturned(p)
  <2>1. ASSUME NEW i \in OrderId, Concerns(a, i), verdictRefund(a, i)
        PROVE  \A p \in Pid : PassedOrReturned(p)
    <3>1. i \in Placed /\ \A p \in Pid : p # orders[i].pid => products'[p] = products[p]
      BY <2>1 DEF Concerns, verdictRefund, CatalogTypeOK
    <3> QED
      BY <3>1, OrderHolds DEF PassedOrReturned, Unsold
  <2>2. \/ UNCHANGED products
        \/ \E i \in OrderId : Concerns(a, i) /\ verdictRefund(a, i)
    BY <1>5 DEF updatearbit, verdictNoOrder, verdictOnOrder, verdictReturn, verdictRedeliver,
                verdictSettle, verdictOnComplaint, vars, catalogVars
  <2> QED
    BY <1>1, <2>1, <2>2
<1> QED
  BY <1>2, <1>3, <1>4, <1>5 DEF AwaitedNext

\* While verdicts fall on awaiting orders only: whatever is cancelled, cleaned,
\* returned, disputed and taken down in between, a product that waits for
\* review, or was taken down, comes on sale by a review that passes it then.
\* A returned product is the exception the code makes: its cancelled order may
\* put it on sale once more.
THEOREM NothingSellsUnreviewed == AwaitedSpec => OnlyReviewSells
<1>1. MarketInv /\ [AwaitedNext]_marketVars => [\A p \in Pid : PassedOrReturned(p)]_vars
  BY MarketPassed DEF marketVars
<1>2. [\A p \in Pid : PassedOrReturned(p)]_vars <=>
        [\A p \in Pid :
           products[p].status \in {"PUBLISH", "DELISTED"} /\ products'[p].status = "NORMAL"
           => audits'[p] > audits[p] \/ HasReturned(p)]_vars
  BY DEF PassedOrReturned, Unsold
<1> QED
  BY <1>1, <1>2, MarketIsConsistent, PTL DEF AwaitedSpec, OnlyReviewSells
-----------------------------------------------------------------------------
(* The counters of a user are the completed orders. *)

CompletedKept ==
  \A i \in OrderId :
    /\ orders'[i].status = "COMPLETED" <=> orders[i].status = "COMPLETED"
    /\ orders[i].status = "COMPLETED" =>
         /\ orders'[i].seller_uid = orders[i].seller_uid
         /\ orders'[i].buyer_uid = orders[i].buyer_uid

SameTotals(us, old) ==
  \A u \in Uid : /\ us[u].sell_total = old[u].sell_total
                 /\ us[u].buy_total = old[u].buy_total

\* Credit is given and taken without touching the counters.
LEMMA CreditKeepsTotals ==
  ASSUME NEW us \in [Uid -> UserRow], NEW uid \in Uid, NEW value
  PROVE  /\ SameTotals(AddCredit(us, uid, value), us)
         /\ SameTotals(SubCredit(us, uid, value), us)
         /\ SameTotals(DismissReviewer(us, uid, value), us)
<1>1. SameTotals(AddCredit(us, uid, value), us)
  BY DEF SameTotals, AddCredit, UserRow
<1>2. SameTotals(SubCredit(us, uid, value), us)
  BY DEF SameTotals, SubCredit, LockIfSpent, UserRow
<1>3. SameTotals(DismissReviewer(us, uid, value), us)
  BY DEF SameTotals, DismissReviewer, LockIfSpent, UserRow
<1> QED
  BY <1>1, <1>2, <1>3

\* A step that completes no order and counts none.
LEMMA CountFrame ==
  ASSUME CountersAreExact, CompletedKept, SameTotals(users', users)
  PROVE  CountersAreExact'
<1>1. \A u \in Uid : SalesOf(u)' = SalesOf(u) /\ PurchasesOf(u)' = PurchasesOf(u)
  BY DEF CompletedKept, SalesOf, PurchasesOf
<1> QED
  BY <1>1 DEF CountersAreExact, SameTotals

\* A step that completes one order and counts it once for each party.
LEMMA CountOne ==
  ASSUME TradeTypeOK, CountersAreExact, NEW i \in OrderId,
         orders[i].status \notin {"NONE", "COMPLETED"}, SetOrder(i, "COMPLETED"),
         \A u \in Uid :
           /\ users'[u].sell_total =
                IF u = orders[i].seller_uid THEN users[u].sell_total + 1
                ELSE users[u].sell_total
           /\ users'[u].buy_total =
                IF u = orders[i].buyer_uid THEN users[u].buy_total + 1
                ELSE users[u].buy_total
  PROVE  CountersAreExact'
<1>1. IsFiniteSet(OrderId)
  BY TradeAssumption, FS_Interval DEF OrderId
<1>2. /\ \A j \in OrderId \ {i} : orders'[j] = orders[j]
      /\ orders'[i].status = "COMPLETED" /\ orders'[i].seller_uid = orders[i].seller_uid
      /\ orders'[i].buyer_uid = orders[i].buyer_uid
  <2>1. orders[i] \in OrderRow
    BY PlacedRow
  <2> QED
    BY <2>1 DEF SetOrder, TradeTypeOK, OrderRow
<1>3. ASSUME NEW u \in Uid
      PROVE  users'[u].sell_total = Cardinality(SalesOf(u)')
  <2>1. IsFiniteSet(SalesOf(u)) /\ i \notin SalesOf(u)
    BY <1>1, FS_Subset DEF SalesOf
  <2>2. SalesOf(u)' = IF u = orders[i].seller_uid THEN SalesOf(u) \cup {i} ELSE SalesOf(u)
    BY <1>2 DEF SalesOf
  <2>3. users[u].sell_total = Cardinality(SalesOf(u))
    BY DEF CountersAreExact
  <2>4. Cardinality(SalesOf(u) \cup {i}) = Cardinality(SalesOf(u)) + 1
    BY <2>1, FS_AddElement
  <2>5. CASE u = orders[i].seller_uid
    BY <2>2, <2>3, <2>4, <2>5
  <2>6. CASE u # orders[i].seller_uid
    BY <2>2, <2>3, <2>6
  <2> QED
    BY <2>5, <2>6
<1>4. ASSUME NEW u \in Uid
      PROVE  users'[u].buy_total = Cardinality(PurchasesOf(u)')
  <2>1. IsFiniteSet(PurchasesOf(u)) /\ i \notin PurchasesOf(u)
    BY <1>1, FS_Subset DEF PurchasesOf
  <2>2. PurchasesOf(u)' =
          IF u = orders[i].buyer_uid THEN PurchasesOf(u) \cup {i} ELSE PurchasesOf(u)
    BY <1>2 DEF PurchasesOf
  <2>3. users[u].buy_total = Cardinality(PurchasesOf(u))
    BY DEF CountersAreExact
  <2>4. Cardinality(PurchasesOf(u) \cup {i}) = Cardinality(PurchasesOf(u)) + 1
    BY <2>1, FS_AddElement
  <2>5. CASE u = orders[i].buyer_uid
    BY <2>2, <2>3, <2>4, <2>5
  <2>6. CASE u # orders[i].buyer_uid
    BY <2>2, <2>3, <2>6
  <2> QED
    BY <2>5, <2>6
<1> QED
  BY <1>3, <1>4 DEF CountersAreExact

\* EndOrder counts the order once for each party.
LEMMA CountOrderTotals ==
  ASSUME TypeOK, NEW i \in OrderId, orders[i].status # "NONE"
  PROVE  /\ CountOrder(users, i) \in [Uid -> UserRow]
         /\ \A u \in Uid :
              /\ CountOrder(users, i)[u].sell_total =
                   IF u = orders[i].seller_uid THEN users[u].sell_total + 1
                   ELSE users[u].sell_total
              /\ CountOrder(users, i)[u].buy_total =
                   IF u = orders[i].buyer_uid THEN users[u].buy_total + 1
                   ELSE users[u].buy_total
<1>1. /\ users \in [Uid -> UserRow]
      /\ orders[i].seller_uid \in Uid /\ orders[i].buyer_uid \in Uid
  BY PlacedRow DEF TypeOK, CatalogTypeOK, CreditTypeOK
<1> DEFINE sold == [users EXCEPT ![orders[i].seller_uid].sell_total = @ + 1]
<1>2. /\ sold \in [Uid -> UserRow]
      /\ \A u \in Uid : /\ sold[u].buy_total = users[u].buy_total
                        /\ sold[u].sell_total =
                             IF u = orders[i].seller_uid THEN users[u].sell_total + 1
                             ELSE users[u].sell_total
  BY <1>1 DEF UserRow
<1>3. CountOrder(users, i) = [sold EXCEPT ![orders[i].buyer_uid].buy_total = @ + 1]
  BY <1>1 DEF CountOrder
<1> HIDE DEF sold
<1> DEFINE counted == [sold EXCEPT ![orders[i].buyer_uid].buy_total = @ + 1]
<1>4. counted \in [Uid -> UserRow]
  BY <1>1, <1>2 DEF UserRow
<1>5. ASSUME NEW u \in Uid
      PROVE  /\ counted[u].sell_total = sold[u].sell_total
             /\ counted[u].buy_total = IF u = orders[i].buyer_uid THEN sold[u].buy_total + 1
                                       ELSE sold[u].buy_total
  BY <1>1, <1>2 DEF UserRow
<1> HIDE DEF counted
<1> QED
  BY <1>2, <1>3, <1>4, <1>5 DEF counted

\* The reviews of the catalog change credit only.
LEMMA CatalogTotals ==
  ASSUME CatalogTypeOK, CatalogNext
  PROVE  SameTotals(users', users)
<1>1. users \in [Uid -> UserRow]
  BY DEF CatalogTypeOK, CreditTypeOK
<1>2. ASSUME NEW uid \in Uid, NEW pid \in Pid, review(uid, pid)
      PROVE  SameTotals(users', users)
  <2>1. products[pid].uid \in Uid
    BY <1>2, OwnerIsUser DEF review, CatalogTypeOK
  <2> QED
    BY <1>1, <1>2, <2>1, CreditKeepsTotals
       DEF review, reviewPass, reviewDelist, CreditFirstPass, SameTotals
<1>3. UNCHANGED users => SameTotals(users', users)
  BY DEF SameTotals
<1> QED
  BY <1>2, <1>3 DEF CatalogNext, publish, republish, pulloff

\* The steps of Trade.
LEMMA TradeCount ==
  ASSUME TradeInv, SalesInv, CountersAreExact, TradeNext
  PROVE  CountersAreExact'
<1> USE DEF TradeInv, TypeOK
<1>1. users \in [Uid -> UserRow] /\ (UNCHANGED users => SameTotals(users', users))
  BY DEF CatalogTypeOK, CreditTypeOK, SameTotals
<1>2. CASE CatalogNext /\ UNCHANGED tradeVars
  BY <1>2, CatalogTotals, CountFrame DEF tradeVars, CompletedKept
<1>3. ASSUME NEW buyer \in Uid, NEW pid \in Pid, NEW t \in {now} \cup ClientTimes,
             placeorder(buyer, pid, t)
      PROVE  CountersAreExact'
  <2>1. PICK i \in OrderId : /\ IsNextId(i, Placed, 1)
                             /\ orders' = [orders EXCEPT ![i] = NewOrder(buyer, pid, t)]
    BY <1>3 DEF placeorder
  <2>2. orders[i].status = "NONE" /\ NewOrder(buyer, pid, t).status = "PENDING_PAYMENT"
    BY <2>1, TradeAssumption DEF IsNextId, Placed, OrderId, NewOrder
  <2>3. CompletedKept
    BY <2>1, <2>2 DEF CompletedKept, TradeTypeOK
  <2> QED
    BY <1>1, <1>3, <2>3, CountFrame DEF placeorder
<1>4. ASSUME NEW i \in OrderId,
             \/ cancelorder(i)   \/ cleanorder(i)
             \/ OnEOSTransfer(i) \/ OnIBCTransfer(i) \/ OnMyTransfer(i)
             \/ shipment(i)      \/ deferreceipt(i)
             \/ returns(i)       \/ reshipment(i)    \/ deferreturn(i)
      PROVE  CountersAreExact'
  <2>1. UNCHANGED users
    BY <1>4 DEF cancelorder, cleanorder, OnEOSTransfer, OnIBCTransfer, OnMyTransfer,
                PayOrder, shipment, deferreceipt, returns, reshipment, deferreturn, catalogVars
  <2>2. CASE cancelorder(i)
    BY <1>1, <2>1, <2>2, CountFrame DEF cancelorder, NoOrder, TradeTypeOK, CompletedKept
  <2>3. CASE cleanorder(i)
    <3> DEFINE gone == {j \in Scanned(i) : Expired(j)}
    <3>1. orders' = [j \in OrderId |-> IF j \in gone THEN NoOrder ELSE orders[j]]
      BY <2>3 DEF cleanorder
    <3>2. \A j \in gone : orders[j].status = "PENDING_PAYMENT"
      BY DEF Expired
    <3> HIDE DEF gone
    <3> QED
      BY <1>1, <2>1, <3>1, <3>2, CountFrame DEF NoOrder, CompletedKept
  <2>4. ASSUME NEW ledger, PayOrder(i, ledger)
        PROVE  CountersAreExact'
    BY <1>1, <2>1, <2>4, CountFrame DEF PayOrder, SetOrder, TradeTypeOK, CompletedKept
  <2>5. CASE shipment(i)
    BY <1>1, <2>1, <2>5, CountFrame DEF shipment, TradeTypeOK, CompletedKept
  <2>6. CASE deferreceipt(i)
    <3>1. orders[i] \in OrderRow
      BY <2>6, PlacedRow DEF deferreceipt
    <3>2. \A j \in OrderId : /\ orders'[j].status = orders[j].status
                             /\ orders'[j].seller_uid = orders[j].seller_uid
                             /\ orders'[j].buyer_uid = orders[j].buyer_uid
      BY <2>6, <3>1 DEF deferreceipt, TradeTypeOK, OrderRow
    <3> QED
      BY <1>1, <2>1, <3>2, CountFrame DEF CompletedKept
  <2>7. CASE returns(i)
    BY <1>1, <2>1, <2>7, CountFrame DEF returns, SetOrder, TradeTypeOK, CompletedKept
  <2>8. CASE reshipment(i) \/ deferreturn(i)
    BY <1>1, <2>1, <2>8, CountFrame DEF reshipment, deferreturn, CompletedKept
  <2> QED
    BY <1>4, <2>2, <2>3, <2>4, <2>5, <2>6, <2>7, <2>8
       DEF OnEOSTransfer, OnIBCTransfer, OnMyTransfer
<1>5. ASSUME NEW i \in OrderId, conreceipt(i)
      PROVE  CountersAreExact'
  <2> DEFINE counted == CountOrder(users, i)
             given == AddCredit(counted, orders[i].seller_uid, TradeReward)
  <2>1. /\ orders[i].status = "PENDING_RECEIPT" /\ SetOrder(i, "COMPLETED")
        /\ users' = CreditReceipt(given, i)
    BY <1>5 DEF conreceipt
  <2>2. orders[i].seller_uid \in Uid /\ orders[i].buyer_uid \in Uid
    BY <2>1, PlacedRow
  <2>3. /\ counted \in [Uid -> UserRow]
        /\ \A u \in Uid :
             /\ counted[u].sell_total = IF u = orders[i].seller_uid
                                        THEN users[u].sell_total + 1 ELSE users[u].sell_total
             /\ counted[u].buy_total = IF u = orders[i].buyer_uid
                                       THEN users[u].buy_total + 1 ELSE users[u].buy_total
    BY <2>1, CountOrderTotals
  <2> HIDE DEF counted
  <2>4. given \in [Uid -> UserRow] /\ SameTotals(given, counted)
    BY <2>2, <2>3, AddCreditType, CreditKeepsTotals, TradeAssumption
  <2> HIDE DEF given
  <2>5. SameTotals(users', given)
    BY <2>1, <2>2, <2>4, CreditKeepsTotals DEF CreditReceipt
  <2> QED
    BY <2>1, <2>3, <2>4, <2>5, CountOne DEF SameTotals
<1>6. ASSUME NEW i \in OrderId, reconreceipt(i)
      PROVE  CountersAreExact'
  <2>1. orders[i].status = "RETURN" /\ SetOrder(i, "CANCELLED")
    BY <1>6, ReconreceiptSales DEF reconreceipt
  <2>2. orders[i].seller_uid \in Uid
    BY <2>1, PlacedRow
  <2>3. SameTotals(users', users)
    BY <1>1, <1>6, <2>2, CreditKeepsTotals DEF reconreceipt, SameTotals
  <2> QED
    BY <2>1, <2>3, CountFrame DEF SetOrder, TradeTypeOK, CompletedKept
<1>7. ASSUME UNCHANGED <<users, orders>>
      PROVE  CountersAreExact'
  BY <1>1, <1>7, CountFrame DEF CompletedKept
<1>8. ASSUME NEW d \in deferred, ExecutePayout(d) \/ ExecuteGift(d) \/ DropDeferred(d)
      PROVE  CountersAreExact'
  BY <1>7, <1>8 DEF ExecutePayout, ExecuteGift, DropDeferred, catalogVars
<1>9. CASE Tick
  BY <1>7, <1>9 DEF Tick, catalogVars
<1> QED
  BY <1>2, <1>3, <1>4, <1>5, <1>6, <1>8, <1>9 DEF TradeNext

\* An awaited verdict counts an order exactly when it settles it.
LEMMA VerdictCount ==
  ASSUME MarketInv, CountersAreExact, NEW a \in ArbId, IsAwaited(a),
         NEW i \in OrderId, Concerns(a, i), NEW winner, verdictOnOrder(a, i, winner)
  PROVE  CountersAreExact'
<1> USE DEF MarketInv, MarketTypeOK, TypeOK
<1>1. orders[i].status = "ARBITRATION" /\ CaseReturn(i) = {}
  BY DecidedOrder
<1>2. /\ users \in [Uid -> UserRow]
      /\ orders[i].seller_uid \in Uid /\ orders[i].buyer_uid \in Uid
  BY <1>1, PlacedRow DEF CatalogTypeOK, CreditTypeOK
<1>3. CASE verdictReturn(a, i)
  <2>1. SameTotals(users', users)
    BY <1>2, <1>3, CreditKeepsTotals DEF verdictReturn
  <2> QED
    BY <1>1, <1>3, <2>1, CountFrame DEF verdictReturn, SetOrder, TradeTypeOK, CompletedKept
<1>4. CASE verdictSettle(a, i)
  <2> DEFINE counted == CountOrder(users, i)
  <2>1. /\ SetOrder(i, "COMPLETED")
        /\ users' = SubCredit(counted, orders[i].buyer_uid, VerdictPenalty)
    BY <1>4 DEF verdictSettle
  <2>2. /\ counted \in [Uid -> UserRow]
        /\ \A u \in Uid :
             /\ counted[u].sell_total = IF u = orders[i].seller_uid
                                        THEN users[u].sell_total + 1 ELSE users[u].sell_total
             /\ counted[u].buy_total = IF u = orders[i].buyer_uid
                                       THEN users[u].buy_total + 1 ELSE users[u].buy_total
    BY <1>1, CountOrderTotals
  <2> HIDE DEF counted
  <2>3. SameTotals(users', counted)
    BY <1>2, <2>1, <2>2, CreditKeepsTotals
  <2> QED
    BY <1>1, <2>1, <2>2, <2>3, CountOne DEF SameTotals
<1>5. CASE CloseArb(a) /\ UNCHANGED vars
  BY <1>5, CountFrame DEF vars, catalogVars, tradeVars, CompletedKept, SameTotals
<1> QED
  BY <1>1, <1>3, <1>4, <1>5 DEF verdictOnOrder, verdictRefund, verdictRedeliver

\* The steps of the market.
LEMMA MarketCount ==
  ASSUME MarketInv, CountersAreExact, AwaitedNext
  PROVE  CountersAreExact'
<1> USE DEF MarketInv, MarketTypeOK, TypeOK
<1>1. users \in [Uid -> UserRow]
  BY DEF CatalogTypeOK, CreditTypeOK
<1>2. CASE TradeNext /\ UNCHANGED arbs
  BY <1>2, TradeCount DEF SalesInv, TradeInv
<1>3. ASSUME UNCHANGED <<users, orders>>
      PROVE  CountersAreExact'
  BY <1>3, CountFrame DEF CompletedKept, SameTotals
<1>4. ASSUME NEW type \in ArbTypes, NEW parties \in Parties, NEW pid \in Pid,
             applyarbit(type, parties, pid)
      PROVE  CountersAreExact'
  <2>1. ASSUME NEW i \in Placed, applyarbitOrder(parties, pid, i)
        PROVE  CountersAreExact'
    <3>1. CompletedKept
      BY <2>1 DEF applyarbitOrder, IsDisputable, SetOrder, TradeTypeOK, Placed, CompletedKept
    <3> QED
      BY <1>4, <3>1, CountFrame DEF applyarbit, SameTotals
  <2> QED
    BY <1>3, <1>4, <2>1 DEF applyarbit, applyarbitEarly, applyarbitOther
<1>5. ASSUME NEW uid \in Uid, NEW a \in ArbId, inarbit(uid, a)
      PROVE  CountersAreExact'
  BY <1>3, <1>5 DEF inarbit, vars, catalogVars, tradeVars
<1>6. ASSUME NEW a \in ArbId, NEW winner, IsAwaited(a), updatearbit(a, winner)
      PROVE  CountersAreExact'
  <2>1. CASE UNCHANGED vars
    BY <1>3, <2>1 DEF vars, catalogVars, tradeVars
  <2>2. ASSUME NEW i \in OrderId, Concerns(a, i), verdictOnOrder(a, i, winner)
        PROVE  CountersAreExact'
    BY <1>6, <2>2, VerdictCount
  <2>3. CASE verdictOnComplaint(a, winner)
    <3>1. arbs[a].plaintiff \in Uid /\ arbs[a].defendant \in Uid
      BY <1>6, ArbRowType DEF updatearbit, ArbRow
    <3>2. SameTotals(users', users)
      BY <1>1, <2>3, <3>1, CreditKeepsTotals DEF verdictOnComplaint, SameTotals
    <3> QED
      BY <2>3, <3>2, CountFrame DEF verdictOnComplaint, tradeVars, CompletedKept
  <2> QED
    BY <1>6, <2>1, <2>2, <2>3 DEF updatearbit, verdictNoOrder
<1> QED
  BY <1>2, <1>4, <1>5, <1>6 DEF AwaitedNext

\* However an order is completed, by a receipt or by an awaited verdict, it is
\* counted once for its seller and once for its buyer, and no later step takes
\* the order out of what was counted.
THEOREM CountersCount == AwaitedSpec => []CountersAreExact
<1>1. MarketInit => CountersAreExact
  <2>1. ASSUME MarketInit, NEW u \in Uid
        PROVE  SalesOf(u) = {} /\ PurchasesOf(u) = {}
    BY <2>1 DEF MarketInit, TradeInit, NoOrder, SalesOf, PurchasesOf
  <2>2. \A u \in Uid : MarketInit => users[u].sell_total = 0 /\ users[u].buy_total = 0
    BY DEF MarketInit, CatalogInit
  <2> QED
    BY <2>1, <2>2, FS_EmptySet DEF CountersAreExact
<1>2. MarketInv /\ CountersAreExact /\ [AwaitedNext]_marketVars => CountersAreExact'
  <2>1. ASSUME CountersAreExact, UNCHANGED marketVars
        PROVE  CountersAreExact'
    BY <2>1, CountFrame DEF marketVars, vars, catalogVars, tradeVars, CompletedKept, SameTotals
  <2> QED
    BY <2>1, MarketCount
<1> QED
  BY <1>1, <1>2, MarketIsConsistent, PTL DEF AwaitedSpec
=============================================================================
