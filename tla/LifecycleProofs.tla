--------------------------- MODULE LifecycleProofs --------------------------
(***************************************************************************)
(* The ledger through resets, and the withdrawals: for any number of       *)
(* accounts, users, coins, addresses, withdrawals and resets.              *)
(***************************************************************************)
EXTENDS Lifecycle, TokenProofs

\* A user has one address for a coin.
OneAddress ==
  \A x, y \in Bound :
    otheraddr[x].uid = otheraddr[y].uid /\ otheraddr[x].coin = otheraddr[y].coin => x = y

Inv == LifecycleTypeOK /\ TokenInv /\ OneAddress

\* What the actions that leave the tokens alone keep.
LEMMA TokenStutter ==
  ASSUME TokenInv, UNCHANGED <<stats, balances, day>>
  PROVE  TokenInv'
BY DEF TokenInv, TokenTypeOK, SupplyWithinMax, TeamShareVests

\* Balances have no part in the maximum and the vesting.
LEMMA BalancesInv ==
  ASSUME TokenInv, UNCHANGED <<stats, day>>, balances' \in [Account -> [Symbol -> Nat]]
  PROVE  TokenInv'
BY DEF TokenInv, TokenTypeOK, SupplyWithinMax, TeamShareVests

\* A row that starts from nothing is within its maximum, whatever was there
\* before.
LEMMA FreshRows ==
  ASSUME TokenInv, NEW T \in SUBSET Symbol, UNCHANGED <<balances, day>>,
         \A s \in Symbol \ T : stats'[s] = stats[s],
         stats' \in [Symbol -> StatRow],
         \A s \in T : /\ stats'[s].supply = 0 /\ stats'[s].team_claim = 0
                      /\ stats'[s].team \in 0..stats'[s].max_supply
  PROVE  TokenInv'
<1> USE DEF TokenInv, TokenTypeOK
<1>1. SupplyWithinMax'
  <2> SUFFICES ASSUME NEW s \in Symbol
               PROVE  stats'[s].supply + (stats'[s].team - stats'[s].team_claim)
                        <= stats'[s].max_supply
    BY DEF SupplyWithinMax
  <2>0. stats'[s] \in StatRow
    OBVIOUS
  <2>1. CASE s \in T
    <3>1. stats'[s].team \in Nat /\ stats'[s].max_supply \in Nat
      BY <2>0 DEF StatRow
    <3> QED
      BY <2>1, <3>1
  <2>2. CASE s \notin T
    BY <2>2 DEF SupplyWithinMax
  <2> QED
    BY <2>1, <2>2
<1>2. \A s \in Symbol : 0 <= stats'[s].team_claim /\ stats'[s].team_claim <= stats'[s].team
  <2> SUFFICES ASSUME NEW s \in Symbol
               PROVE  0 <= stats'[s].team_claim /\ stats'[s].team_claim <= stats'[s].team
    OBVIOUS
  <2>1. CASE s \in T
    BY <2>1
  <2>2. CASE s \notin T
    BY <2>2 DEF TeamShareVests
  <2> QED
    BY <2>1, <2>2
<1>3. stats'[FMP].team_claim * TeamUnlock <= stats'[FMP].team * day'
  <2>0. stats'[FMP] \in StatRow /\ TeamUnlock \in Nat /\ day \in Nat /\ FMP \in Symbol
    BY TokenAssumption
  <2>1. CASE FMP \in T
    <3>1. stats'[FMP].team \in Nat /\ stats'[FMP].team_claim = 0
      BY <2>0, <2>1 DEF StatRow
    <3>2. stats'[FMP].team * day \in Nat
      BY <2>0, <3>1
    <3> QED
      BY <2>0, <3>1, <3>2
  <2>2. CASE FMP \notin T
    BY <2>0, <2>2 DEF TeamShareVests
  <2> QED
    BY <2>1, <2>2
<1> QED
  BY <1>1, <1>2, <1>3 DEF TeamShareVests

-----------------------------------------------------------------------------
(* The operators. *)

\* init lists its coins and creates their tokens within the maximum.
LEMMA InitStep ==
  ASSUME Inv, init
  PROVE  Inv'
<1> USE DEF Inv
<1>1. /\ InitTokens \subseteq Symbol /\ Self \in Account /\ Pool \in Nat
      /\ \A s \in InitTokens : InitMax[s] \in Nat /\ InitFee[s] \in Nat
      /\ TeamShare \in 0..100 /\ 0 \in 0..100
  BY LifecycleAssumption, TokenAssumption
<1>2. \A s \in InitTokens :
        /\ stats'[s] \in StatRow
        /\ stats'[s].supply = 0 /\ stats'[s].team_claim = 0
        /\ stats'[s].team \in 0..stats'[s].max_supply
  <2> SUFFICES ASSUME NEW s \in InitTokens
               PROVE  /\ stats'[s] \in StatRow
                      /\ stats'[s].supply = 0 /\ stats'[s].team_claim = 0
                      /\ stats'[s].team \in 0..stats'[s].max_supply
    OBVIOUS
  <2> DEFINE share == IF s = FMP THEN TeamShare ELSE 0
  <2>1. stats'[s] = NewStat(Self, InitMax[s], share)
    BY <1>1 DEF init
  <2>2. share \in 0..100 /\ InitMax[s] \in Nat /\ Self \in Account
    BY <1>1
  <2> DEFINE max == InitMax[s]
             row == NewStat(Self, max, share)
  <2> HIDE DEF share, max
  <2>3. /\ row \in StatRow
        /\ row.supply = 0 /\ row.team_claim = 0 /\ row.max_supply = max
        /\ row.team \in 0..max
    BY <2>2, NewStatRow DEF max
  <2>4. stats'[s] = row
    BY <2>1 DEF max
  <2> HIDE DEF row
  <2> QED
    BY <2>3, <2>4
<1>3. \A s \in Symbol \ InitTokens : stats'[s] = stats[s]
  BY DEF init
<1>4. stats' \in [Symbol -> StatRow]
  <2>1. stats' = [s \in Symbol |-> stats'[s]]
    BY DEF init
  <2>2. \A s \in Symbol : stats'[s] \in StatRow
    BY <1>2, <1>3 DEF TokenInv, TokenTypeOK
  <2> QED
    BY <2>1, <2>2
<1>5. TokenInv'
  BY <1>1, <1>2, <1>3, <1>4, FreshRows DEF init
<1>6. coins' \in [Symbol -> CoinRow]
  <2>1. \A s \in Symbol : [listed |-> TRUE, fee |-> InitFee[s], is_out |-> s # FMP]
                            \in CoinRow \/ s \notin InitTokens
    BY <1>1 DEF CoinRow
  <2> QED
    BY <2>1 DEF init, ListInitCoins, LifecycleTypeOK, WithdrawalTypeOK
<1> QED
  BY <1>1, <1>5, <1>6
     DEF init, LifecycleTypeOK, WithdrawalTypeOK, TokenInv, OneAddress, Bound

\* The cleanings counted stay within their bound.
LEMMA CleaningType ==
  ASSUME cleanings \in 0..MaxCleanings, IsCleaning
  PROVE  cleanings' \in 0..MaxCleanings
BY LifecycleAssumption DEF IsCleaning

\* A reset leaves rows of the right types: those that go leave empty ones.
LEMMA ResetStep ==
  ASSUME Inv, reset
  PROVE  Inv'
<1> USE DEF Inv, reset
<1>0. NoStat \in StatRow /\ NoStat.supply = 0 /\ NoStat.team_claim = 0
      /\ NoStat.team \in 0..NoStat.max_supply
  BY TokenAssumption DEF NoStat, StatRow
<1>1. stats' \in [Symbol -> StatRow]
  BY <1>0 DEF TokenInv, TokenTypeOK
<1>2. /\ ResetTokens \in SUBSET Symbol
      /\ \A s \in Symbol \ ResetTokens : stats'[s] = stats[s]
      /\ \A s \in ResetTokens : stats'[s] = NoStat
  BY LifecycleAssumption
<1>3. TokenInv'
  BY <1>0, <1>1, <1>2, FreshRows
<1>4. eosid' \in [Uid -> Account \cup {NoAccount}]
  BY DEF LifecycleTypeOK, WithdrawalTypeOK
<1>5. NoRow \in AddrRow /\ otheraddr' \in [AddrId -> AddrRow]
  BY TokenAssumption, WithdrawalAssumption
     DEF LifecycleTypeOK, WithdrawalTypeOK, NoRow, AddrRow
<1>6. coins' \in [Symbol -> CoinRow]
  BY DEF ClearCoins, NoCoin, CoinRow, LifecycleTypeOK, WithdrawalTypeOK
<1>7. orphaned' \in [Symbol -> Int]
  BY DEF LifecycleTypeOK, TokenInv, TokenTypeOK, StatRow
<1>8. OneAddress'
  <2>1. \A x \in Bound' : x \in Bound /\ otheraddr'[x] = otheraddr[x]
    BY DEF Bound, NoRow, LifecycleTypeOK, WithdrawalTypeOK
  <2> SUFFICES ASSUME NEW x \in Bound', NEW y \in Bound',
                      otheraddr'[x].uid = otheraddr'[y].uid,
                      otheraddr'[x].coin = otheraddr'[y].coin
               PROVE  x = y
    BY Zenon DEF OneAddress
  <2>2. /\ x \in Bound /\ y \in Bound
        /\ otheraddr'[x] = otheraddr[x] /\ otheraddr'[y] = otheraddr[y]
    BY <2>1, Zenon
  <2> QED
    BY <2>2 DEF OneAddress
<1>9. UNCHANGED <<othersettle, is_init, pools>> /\ cleanings' \in 0..MaxCleanings
  BY CleaningType DEF LifecycleTypeOK
<1> QED
  BY <1>3, <1>4, <1>5, <1>6, <1>7, <1>8, <1>9
     DEF LifecycleTypeOK, WithdrawalTypeOK, TokenInv

\* cleanscope takes balances away and changes no row.
LEMMA CleanStep ==
  ASSUME Inv, NEW a \in Account, cleanscope(a)
  PROVE  Inv'
<1> USE DEF Inv, cleanscope
<1>1. /\ balances \in [Account -> [Symbol -> Nat]]
      /\ balances' \in [Account -> [Symbol -> Nat]]
  BY DEF TokenInv, TokenTypeOK
<1>2. TokenInv'
  BY <1>1, BalancesInv
<1>3. orphaned' \in [Symbol -> Int]
  BY <1>1 DEF LifecycleTypeOK
<1>4. UNCHANGED <<settleVars, is_init, pools>> /\ cleanings' \in 0..MaxCleanings
  BY CleaningType DEF LifecycleTypeOK
<1> QED
  BY <1>2, <1>3, <1>4
     DEF LifecycleTypeOK, WithdrawalTypeOK, TokenInv, OneAddress, Bound, settleVars

\* updatecoin keeps a listed coin, and creates the token of a new one.
LEMMA UpdateStep ==
  ASSUME Inv, NEW c \in CoinChanges, updatecoin(c)
  PROVE  Inv'
<1> USE DEF Inv, updatecoin
<1>1. c.sym \in Symbol /\ c.fee \in Int /\ c.is_out \in BOOLEAN /\ c.max \in Nat
  BY LifecycleAssumption DEF CoinChange
<1>2. coins' \in [Symbol -> CoinRow]
  <2>1. [listed |-> TRUE, fee |-> c.fee, is_out |-> c.is_out] \in CoinRow
    BY <1>1 DEF CoinRow
  <2> QED
    BY <2>1 DEF LifecycleTypeOK, WithdrawalTypeOK
<1>3. TokenInv'
  BY <1>1, CreateInv, TokenStutter, TokenAssumption
<1> QED
  BY <1>2, <1>3
     DEF LifecycleTypeOK, WithdrawalTypeOK, TokenInv, OneAddress, Bound, globalVars

\* Who registers binds no address yet.
LEMMA RegStep ==
  ASSUME Inv, NEW u \in Uid, NEW account \in Customers, reguser(u, account)
  PROVE  Inv'
<1> USE DEF Inv, reguser
<1>1. eosid' \in [Uid -> Account \cup {NoAccount}]
  BY LifecycleAssumption DEF LifecycleTypeOK, WithdrawalTypeOK
<1>2. TokenInv'
  BY TokenStutter
<1> QED
  BY <1>1, <1>2
     DEF LifecycleTypeOK, WithdrawalTypeOK, TokenInv, OneAddress, Bound, globalVars

\* Deposits and transfers keep what the token keeps.
LEMMA MoveStep ==
  ASSUME Inv, moveTokens
  PROVE  Inv'
<1> USE DEF Inv, moveTokens
<1>1. TokenInv'
  BY IssueInv, RetireInv, TransferInv
<1> QED
  BY <1>1
     DEF LifecycleTypeOK, WithdrawalTypeOK, TokenInv, OneAddress, Bound, globalVars, settleVars

-----------------------------------------------------------------------------
(* Addresses and withdrawals. *)

\* bindaddr rewrites the row the user has for the coin, or adds the only one.
LEMMA BindStep ==
  ASSUME Inv, NEW u \in Uid, NEW s \in Symbol, NEW addr \in Addr,
         bindaddr(u, s, addr), UNCHANGED <<stats, balances, day, globalVars, orphaned>>
  PROVE  Inv'
<1> USE DEF Inv
<1>0. otheraddr \in [AddrId -> AddrRow]
  BY DEF LifecycleTypeOK, WithdrawalTypeOK
<1>1. otheraddr' \in [AddrId -> AddrRow] /\ OneAddress'
  <2>1. CASE \E x \in BoundBy(u, s) : otheraddr' = [otheraddr EXCEPT ![x].addr = addr]
    <3> PICK x \in BoundBy(u, s) : otheraddr' = [otheraddr EXCEPT ![x].addr = addr]
      BY <2>1
    <3>1. x \in AddrId /\ [otheraddr[x] EXCEPT !.addr = addr] \in AddrRow
      BY <1>0 DEF BoundBy, Bound, AddrRow
    <3>2. otheraddr' \in [AddrId -> AddrRow]
      BY <1>0, <3>1
    <3>3. \A y \in AddrId : /\ otheraddr'[y].uid = otheraddr[y].uid
                           /\ otheraddr'[y].coin = otheraddr[y].coin
      BY <1>0, <3>1 DEF AddrRow
    <3>4. Bound' = Bound
      BY <3>3 DEF Bound
    <3>5. \A y \in Bound : y \in AddrId
      BY DEF Bound
    <3> QED
      BY <3>2, <3>3, <3>4, <3>5 DEF OneAddress
  <2>2. CASE /\ BoundBy(u, s) = {}
             /\ \E x \in AddrId :
                  /\ IsNextId(x, Bound, 1)
                  /\ otheraddr' = [otheraddr EXCEPT
                                     ![x] = [uid |-> u, coin |-> s, addr |-> addr]]
    <3> DEFINE row == [uid |-> u, coin |-> s, addr |-> addr]
    <3> PICK x \in AddrId : otheraddr' = [otheraddr EXCEPT ![x] = row]
      BY <2>2
    <3>1. row \in AddrRow /\ row.uid = u /\ row.coin = s
      BY WithdrawalAssumption DEF AddrRow, Uid
    <3> HIDE DEF row
    <3>2. otheraddr' \in [AddrId -> AddrRow] /\ otheraddr'[x] = row
      BY <1>0, <3>1
    <3>3. \A y \in Bound' \ {x} : y \in Bound /\ otheraddr'[y] = otheraddr[y]
      BY <1>0 DEF Bound
    <3>4. \A y \in Bound' \ {x} : otheraddr'[y].uid # u \/ otheraddr'[y].coin # s
      BY <2>2, <3>3 DEF BoundBy
    <3> SUFFICES ASSUME NEW y \in Bound', NEW z \in Bound',
                        otheraddr'[y].uid = otheraddr'[z].uid,
                        otheraddr'[y].coin = otheraddr'[z].coin
                 PROVE  y = z
      BY <3>2, Zenon DEF OneAddress
    <3>5. CASE y = x \/ z = x
      BY <3>1, <3>2, <3>4, <3>5
    <3>6. CASE y # x /\ z # x
      BY <3>3, <3>6 DEF OneAddress
    <3> QED
      BY <3>5, <3>6
  <2> QED
    BY <2>1, <2>2 DEF bindaddr
<1>2. TokenInv' /\ UNCHANGED <<eosid, coins, othersettle>>
  BY TokenStutter DEF bindaddr
<1> QED
  BY <1>1, <1>2 DEF LifecycleTypeOK, WithdrawalTypeOK, TokenInv, globalVars

\* The token goes through the contract to the gateway.
LEMMA HandOverType ==
  ASSUME TokenTypeOK, NEW from \in Account, NEW s \in Symbol, NEW q \in Quantity,
         balances[from][s] >= q
  PROVE  HandOver(AddBalance(SubBalance(balances, from, s, q), Self, s, q), s, q)
           \in [Account -> [Symbol -> Nat]]
<1> DEFINE left == SubBalance(balances, from, s, q)
           came == AddBalance(left, Self, s, q)
           gone == SubBalance(came, Self, s, q)
<1>0. q \in Nat /\ Self \in Account /\ Gateway \in Account
  BY TokenAssumption, WithdrawalAssumption DEF Quantity
<1>1. left \in [Account -> [Symbol -> Nat]]
  BY <1>0, BalanceType DEF TokenTypeOK
<1> HIDE DEF left
<1>2. came \in [Account -> [Symbol -> Nat]]
  BY <1>0, <1>1, BalanceType
<1>3. came[Self][s] >= q
  <2>1. came[Self][s] = left[Self][s] + q /\ left[Self][s] \in Nat
    BY <1>0, <1>1 DEF AddBalance
  <2> QED
    BY <1>0, <2>1
<1> HIDE DEF came
<1>4. gone \in [Account -> [Symbol -> Nat]]
  BY <1>0, <1>2, <1>3, BalanceType
<1>5. HandOver(came, s, q) = AddBalance(gone, Gateway, s, q)
  BY DEF HandOver
<1> HIDE DEF gone
<1>6. AddBalance(gone, Gateway, s, q) \in [Account -> [Symbol -> Nat]]
  BY <1>0, <1>4, BalanceType
<1> QED
  BY <1>5, <1>6 DEF came, left

\* What withdraw writes, and what it does not.
Asked(u, i, x, s, q) ==
  /\ x \in FoundAddr(u, s)
  /\ i \notin Settles
  /\ othersettle' = [othersettle EXCEPT ![i] =
       NewSettle(u, s, q - coins[s].fee, otheraddr[x].addr)]

\* What asks for a withdrawal is an account whose row was found.
LEMMA WithdrawAsks ==
  ASSUME Inv, NEW from \in Account, NEW payer \in Account, NEW s \in Symbol,
         NEW q \in Quantity, withdraw(from, payer, s, q)
  PROVE  \E u \in Users, i \in SettleId, x \in AddrId : Asked(u, i, x, s, q)
<1> PICK u \in Users, i \in SettleId, x \in AddrId :
      /\ x \in FoundAddr(u, s)
      /\ IsNextId(i, Settles, 1)
      /\ othersettle' = [othersettle EXCEPT ![i] =
           NewSettle(u, s, q - coins[s].fee, otheraddr[x].addr)]
  BY DEF withdraw
<1>1. i \notin Settles
  BY DEF IsNextId, SettleId
<1> QED
  BY <1>1 DEF Asked

\* A withdrawal adds a row with a positive amount.
LEMMA WithdrawStep ==
  ASSUME Inv, NEW from \in Account, NEW payer \in Account, NEW s \in Symbol,
         NEW q \in Quantity, withdraw(from, payer, s, q),
         UNCHANGED <<day, globalVars, orphaned>>
  PROVE  Inv'
<1> USE DEF Inv
<1>1. TokenInv'
  <2>1. balances' \in [Account -> [Symbol -> Nat]] /\ UNCHANGED stats
    BY HandOverType DEF withdraw, TokenInv
  <2> QED
    BY <2>1, BalancesInv
<1>2. PICK u \in Users, i \in SettleId, x \in AddrId : Asked(u, i, x, s, q)
  BY WithdrawAsks
<1> DEFINE row == NewSettle(u, s, q - coins[s].fee, otheraddr[x].addr)
<1>3. row \in SettleRow /\ row.amount > 0
  <2>1. coins[s].fee \in Int /\ q \in Nat /\ q > coins[s].fee
    BY TokenAssumption
       DEF withdraw, Enough, Quantity, LifecycleTypeOK, WithdrawalTypeOK, CoinRow
  <2>2. u \in 0..MaxUid /\ otheraddr[x].addr \in Addr \cup {NoAddr}
    BY WithdrawalAssumption
       DEF Users, Uid, LifecycleTypeOK, WithdrawalTypeOK, AddrRow
  <2> QED
    BY <2>1, <2>2 DEF NewSettle, SettleRow
<1> HIDE DEF row
<1>4. /\ othersettle' \in [SettleId -> SettleRow]
      /\ \A j \in SettleId : othersettle'[j].status # "NONE" => othersettle'[j].amount > 0
  <2>1. /\ othersettle \in [SettleId -> SettleRow]
        /\ \A j \in SettleId : othersettle[j].status # "NONE" => othersettle[j].amount > 0
    BY DEF LifecycleTypeOK, WithdrawalTypeOK
  <2>2. othersettle' = [othersettle EXCEPT ![i] = row]
    BY <1>2 DEF Asked, row
  <2> QED
    BY <1>3, <2>1, <2>2
<1>5. UNCHANGED <<eosid, coins, otheraddr>>
  BY DEF withdraw
<1> QED
  BY <1>1, <1>4, <1>5
     DEF LifecycleTypeOK, WithdrawalTypeOK, TokenInv, OneAddress, Bound, globalVars

\* closesettle marks the row, and removes no row that is not paid.
LEMMA CloseEffect ==
  ASSUME Inv, NEW i \in SettleId, closesettle(i)
  PROVE  /\ i \in Settles /\ Paid(othersettle[i]) \in SettleRow
         /\ othersettle' \in [SettleId -> SettleRow]
         /\ othersettle'[i] \in {Paid(othersettle[i]), NoSettle}
         /\ \A j \in SettleId \ {i} :
              \/ othersettle'[j] = othersettle[j]
              \/ othersettle[j].status = "PAID" /\ othersettle'[j] = NoSettle
<1> USE DEF Inv
<1> DEFINE closed == [othersettle EXCEPT ![i] = Paid(@)]
<1>0. othersettle \in [SettleId -> SettleRow] /\ i \in Settles
  BY DEF LifecycleTypeOK, WithdrawalTypeOK, closesettle
<1>1. Paid(othersettle[i]) \in SettleRow
  BY <1>0 DEF Paid, SettleRow
<1>2. NoSettle \in SettleRow
  BY TokenAssumption, WithdrawalAssumption DEF NoSettle, SettleRow
<1>3. /\ closed \in [SettleId -> SettleRow] /\ closed[i] = Paid(othersettle[i])
      /\ \A j \in SettleId \ {i} : closed[j] = othersettle[j]
  BY <1>0, <1>1
<1>4. othersettle' = [j \in SettleId |->
         IF Cardinality(Settles) > SettleKeep /\ j \in Settles /\ MayPrune(closed, j)
         THEN NoSettle ELSE closed[j]]
  BY DEF closesettle
<1> HIDE DEF closed
<1>5. othersettle' \in [SettleId -> SettleRow]
  BY <1>2, <1>3, <1>4
<1>6. \A j \in SettleId : \/ othersettle'[j] = closed[j]
                          \/ othersettle'[j] = NoSettle /\ closed[j].status = "PAID"
  BY <1>4 DEF MayPrune
<1> QED
  BY <1>0, <1>1, <1>3, <1>5, <1>6

\* closesettle pays one row or removes paid ones.
LEMMA CloseStep ==
  ASSUME Inv, NEW i \in SettleId, closesettle(i), UNCHANGED <<day, globalVars, orphaned>>
  PROVE  Inv'
<1> USE DEF Inv
<1>1. othersettle' \in [SettleId -> SettleRow]
  BY CloseEffect
<1>2. \A j \in SettleId : othersettle'[j].status # "NONE" => othersettle'[j].amount > 0
  <2> SUFFICES ASSUME NEW j \in SettleId, othersettle'[j].status # "NONE"
               PROVE  othersettle'[j].amount > 0
    OBVIOUS
  <2>1. \A k \in SettleId : othersettle[k].status # "NONE" => othersettle[k].amount > 0
    BY DEF LifecycleTypeOK, WithdrawalTypeOK
  <2>2. othersettle'[j] # NoSettle
    BY DEF NoSettle
  <2>3. CASE j = i
    <3>1. othersettle'[i] = Paid(othersettle[i]) /\ othersettle[i].status # "NONE"
      BY <2>2, <2>3, CloseEffect DEF Settles
    <3>2. Paid(othersettle[i]).amount = othersettle[i].amount
      BY DEF Paid, SettleRow, LifecycleTypeOK, WithdrawalTypeOK
    <3> QED
      BY <2>1, <2>3, <3>1, <3>2
  <2>4. CASE j # i
    <3>1. othersettle'[j] = othersettle[j]
      BY <2>2, <2>4, CloseEffect
    <3> QED
      BY <2>1, <3>1
  <2> QED
    BY <2>3, <2>4
<1>3. TokenInv' /\ UNCHANGED <<eosid, coins, otheraddr>>
  BY TokenStutter DEF closesettle
<1> QED
  BY <1>1, <1>2, <1>3
     DEF LifecycleTypeOK, WithdrawalTypeOK, TokenInv, OneAddress, Bound, globalVars

-----------------------------------------------------------------------------
(* The theorems. *)

\* Every step keeps types, maximum, share and one address for a coin.
LEMMA LifecycleStep ==
  ASSUME Inv, LifecycleNext
  PROVE  Inv'
<1>1. CASE settleStep
  BY <1>1, BindStep, WithdrawStep, CloseStep DEF settleStep
<1> QED
  BY <1>1, InitStep, ResetStep, CleanStep, UpdateStep, RegStep, MoveStep DEF LifecycleNext

\* Before init there are no tokens, coins, addresses and withdrawals.
LEMMA LifecycleInitInv == LifecycleInit => Inv
<1> SUFFICES ASSUME LifecycleInit
             PROVE  Inv
  OBVIOUS
<1> USE DEF LifecycleInit
<1>1. NoStat \in StatRow /\ NoCoin \in CoinRow
  BY TokenAssumption DEF NoStat, StatRow, NoCoin, CoinRow
<1>2. NoRow \in AddrRow /\ NoSettle \in SettleRow
  BY TokenAssumption, WithdrawalAssumption DEF NoRow, AddrRow, NoSettle, SettleRow
<1>3. TokenInv
  BY <1>1, TokenAssumption
     DEF TokenInv, TokenTypeOK, SupplyWithinMax, TeamShareVests, NoStat
<1>4. OneAddress
  BY DEF OneAddress, Bound, NoRow
<1>5. \A i \in SettleId : othersettle[i].status = "NONE"
  BY DEF NoSettle
<1>6. is_init \in BOOLEAN
  BY Zenon
<1>7. pools \in Nat /\ cleanings \in 0..MaxCleanings
  BY LifecycleAssumption
<1> QED
  BY <1>1, <1>2, <1>3, <1>4, <1>5, <1>6, <1>7
     DEF Inv, LifecycleTypeOK, WithdrawalTypeOK, TokenInv

\* Nothing but UNCHANGED.
LEMMA LifecycleStutter == Inv /\ UNCHANGED lifeVars => Inv'
BY DEF Inv, LifecycleTypeOK, WithdrawalTypeOK, TokenInv, TokenTypeOK, SupplyWithinMax,
       TeamShareVests, OneAddress, Bound, lifeVars

\* The invariant the theorems of this module rest on.
LEMMA InvHolds == LifecycleSpec => []Inv
BY LifecycleInitInv, LifecycleStep, LifecycleStutter, PTL DEF LifecycleSpec

\* No reset, no cleanscope and no coin that changes its fee under way makes a
\* balance or the amount of a withdrawal negative.
THEOREM LifecycleTypeCorrect == LifecycleSpec => []LifecycleTypeOK
<1>1. Inv => LifecycleTypeOK
  BY DEF Inv
<1> QED
  BY <1>1, InvHolds, PTL

\* A token that reset has forgotten and that is created again keeps to its
\* maximum, though its old balances can still be retired.
THEOREM SupplyBoundedThroughResets == LifecycleSpec => []SupplyWithinMax
<1>1. Inv => SupplyWithinMax
  BY DEF Inv, TokenInv
<1> QED
  BY <1>1, InvHolds, PTL

\* Only a step of these touches the withdrawals.
LEMMA SettleSteps ==
  ASSUME LifecycleNext, othersettle' # othersettle
  PROVE  \/ \E from, payer \in Account, s \in Symbol, q \in Quantity :
              withdraw(from, payer, s, q)
         \/ \E i \in SettleId : closesettle(i)
BY DEF LifecycleNext, settleStep, init, reset, cleanscope, updatecoin, reguser,
       moveTokens, bindaddr, settleVars

\* A withdrawal stands, with its address and amount, until it is closed: no
\* reset, no pruning and no other withdrawal touches it.
THEOREM WithdrawalsAreKept == LifecycleSpec => WithdrawalsStand
<1>1. ASSUME Inv, LifecycleNext, NEW i \in SettleId, othersettle[i].status = "NORMAL",
             othersettle'[i] # othersettle[i]
      PROVE  closesettle(i)
  <2>1. ASSUME NEW from \in Account, NEW payer \in Account, NEW s \in Symbol,
               NEW q \in Quantity, withdraw(from, payer, s, q)
        PROVE  FALSE
    <3>1. PICK u \in Users, j \in SettleId, x \in AddrId : Asked(u, j, x, s, q)
      BY <1>1, <2>1, WithdrawAsks
    <3>2. i # j
      BY <1>1, <3>1 DEF Asked, Settles
    <3> QED
      BY <1>1, <3>1, <3>2 DEF Asked, Inv, LifecycleTypeOK, WithdrawalTypeOK
  <2>2. ASSUME NEW j \in SettleId, closesettle(j)
        PROVE  closesettle(i)
    <3>1. i = j
      BY <1>1, <2>2, CloseEffect
    <3> QED
      BY <2>2, <3>1
  <2> QED
    BY <1>1, <2>1, <2>2, SettleSteps
<1>2. Inv /\ [LifecycleNext]_lifeVars
        => [\A i \in SettleId :
              othersettle[i].status = "NORMAL" /\ othersettle'[i] # othersettle[i]
                => closesettle(i)]_othersettle
  BY <1>1 DEF lifeVars
<1> QED
  BY <1>2, InvHolds, PTL DEF LifecycleSpec, WithdrawalsStand

\* Who has bound an address is paid there: the search for his address ends at
\* his one row for the coin.
THEOREM PaidToOwnAddress == LifecycleSpec => PaidWhereBound
<1>1. ASSUME Inv, LifecycleNext, NEW i \in SettleId, Opened(i),
             NEW y \in BoundBy(othersettle'[i].uid, othersettle'[i].coin)
      PROVE  othersettle'[i].addr = otheraddr[y].addr
  <2>0. othersettle \in [SettleId -> SettleRow] /\ othersettle' # othersettle
    BY <1>1 DEF Opened, Inv, LifecycleTypeOK, WithdrawalTypeOK
  <2>1. ASSUME NEW from \in Account, NEW payer \in Account, NEW s \in Symbol,
               NEW q \in Quantity, withdraw(from, payer, s, q)
        PROVE  othersettle'[i].addr = otheraddr[y].addr
    <3>1. PICK u \in Users, j \in SettleId, x \in AddrId : Asked(u, j, x, s, q)
      BY <1>1, <2>1, WithdrawAsks
    <3>2. i = j
      BY <1>1, <2>0, <3>1 DEF Asked, Opened
    <3>3. /\ othersettle'[i].uid = u /\ othersettle'[i].coin = s
          /\ othersettle'[i].addr = otheraddr[x].addr
      BY <2>0, <3>1, <3>2 DEF Asked, NewSettle
    <3>4. y \in Bound /\ otheraddr[y].uid = u /\ otheraddr[y].coin = s /\ y \in Searched(u, s)
      BY <1>1, <3>3 DEF BoundBy, Searched, Bound, Users, Uid, Inv, LifecycleTypeOK,
                        WithdrawalTypeOK, AddrRow
    <3>5. x \in Searched(u, s) /\ Precedes(x, y)
      BY <3>1, <3>4 DEF Asked, FoundAddr
    <3>6. x \in Bound /\ otheraddr[x].uid = u /\ otheraddr[x].coin = s
      <4>1. otheraddr[x].uid \in Int /\ u \in Int
        <5>1. x \in AddrId /\ otheraddr \in [AddrId -> AddrRow]
          BY <1>1, <3>5 DEF Searched, Bound, Inv, LifecycleTypeOK, WithdrawalTypeOK
        <5> QED
          BY <5>1, WithdrawalAssumption DEF AddrRow, Users, Uid
      <4> QED
        BY <3>4, <3>5, <4>1 DEF Searched, Precedes
    <3>7. x = y
      BY <1>1, <3>4, <3>6 DEF Inv, OneAddress
    <3> QED
      BY <3>3, <3>7
  <2>2. ASSUME NEW j \in SettleId, closesettle(j)
        PROVE  FALSE
    <3>1. i # j
      BY <1>1, <2>2, CloseEffect DEF Opened, Settles
    <3> QED
      BY <1>1, <2>2, <3>1, CloseEffect DEF Opened
  <2> QED
    BY <1>1, <2>0, <2>1, <2>2, SettleSteps
<1>2. Inv /\ [LifecycleNext]_lifeVars
        => [\A i \in SettleId : Opened(i) => ToBoundAddress(i)]_othersettle
  BY <1>1 DEF lifeVars, ToBoundAddress
<1> QED
  BY <1>2, InvHolds, PTL DEF LifecycleSpec, PaidWhereBound

-----------------------------------------------------------------------------
(* The ledger. *)

\* A token that is not there has no supply: what it starts with when it is
\* created makes up for nothing.
LedgerInv ==
  /\ LedgerIsExact
  /\ \A s \in Symbol : ~Exists(s) => stats[s].supply = 0

\* The three amounts the ledger compares are integers.
LEMMA LedgerTypes ==
  ASSUME Inv
  PROVE  \A s \in Symbol :
           /\ Circulation(s) \in Int /\ stats[s].supply \in Int /\ orphaned[s] \in Int
           /\ stats[s].max_supply \in Nat
BY NatBalances, HeldType, HeldCirculates
   DEF Inv, TokenInv, TokenTypeOK, StatRow, LifecycleTypeOK

\* The gap between circulation and supply is what is left behind, and changes
\* with it.
LEMMA LedgerKept ==
  ASSUME Inv, LedgerInv, Inv',
         \A s \in Symbol :
           /\ Circulation(s)' - stats'[s].supply - orphaned'[s]
                = Circulation(s) - stats[s].supply - orphaned[s]
           /\ stats'[s].max_supply = 0 => stats'[s].supply = 0
  PROVE  LedgerInv'
<1>1. \A s \in Symbol :
        /\ Circulation(s)' \in Int /\ stats'[s].supply \in Int /\ orphaned'[s] \in Int
        /\ stats'[s].max_supply \in Nat
  <2>1. /\ balances' \in BalanceRows /\ stats' \in [Symbol -> StatRow]
        /\ orphaned' \in [Symbol -> Int]
    BY DEF Inv, TokenInv, TokenTypeOK, LifecycleTypeOK, BalanceRows
  <2> QED
    BY <2>1, HeldType, HeldCirculates DEF StatRow
<1>2. LedgerIsExact'
  <2>1. \A s \in Symbol : Circulation(s) = stats[s].supply + orphaned[s]
    BY DEF LedgerInv, LedgerIsExact
  <2>2. \A s \in Symbol : Circulation(s)' = stats'[s].supply + orphaned'[s]
    BY <1>1, <2>1, LedgerTypes
  <2> QED
    BY <2>2 DEF LedgerIsExact
<1>3. \A s \in Symbol : ~(stats'[s].max_supply > 0) => stats'[s].supply = 0
  BY <1>1
<1> QED
  BY <1>2, <1>3 DEF LedgerInv, Exists

\* Rows change, balances do not.
LEMMA RowsLedger ==
  ASSUME Inv, LedgerInv, Inv', UNCHANGED balances,
         \A s \in Symbol :
           \/ stats'[s] = stats[s] /\ orphaned'[s] = orphaned[s]
           \/ ~Exists(s) /\ stats'[s].supply = 0 /\ orphaned'[s] = orphaned[s]
           \/ stats'[s].supply = 0 /\ orphaned'[s] = orphaned[s] + stats[s].supply
  PROVE  LedgerInv'
<1> SUFFICES ASSUME NEW s \in Symbol
             PROVE  /\ Circulation(s)' - stats'[s].supply - orphaned'[s]
                         = Circulation(s) - stats[s].supply - orphaned[s]
                    /\ stats'[s].max_supply = 0 => stats'[s].supply = 0
  BY LedgerKept
<1>1. Circulation(s)' = Circulation(s)
  BY DEF Circulation
<1>2. stats[s].max_supply = 0 => stats[s].supply = 0
  BY DEF LedgerInv, Exists
<1>3. ~Exists(s) => stats[s].supply = 0
  BY DEF LedgerInv
<1> QED
  BY <1>1, <1>2, <1>3, LedgerTypes

\* What cleanscope takes from the balances it takes from the orphans.
LEMMA CleanLedger ==
  ASSUME Inv, LedgerInv, Inv', NEW a \in Account, cleanscope(a)
  PROVE  LedgerInv'
<1> SUFFICES ASSUME NEW s \in Symbol
             PROVE  /\ Circulation(s)' - stats'[s].supply - orphaned'[s]
                         = Circulation(s) - stats[s].supply - orphaned[s]
                    /\ stats'[s].max_supply = 0 => stats'[s].supply = 0
  BY LedgerKept
<1>1. stats' = stats /\ orphaned'[s] = orphaned[s] - balances[a][s]
  BY DEF cleanscope
<1>2. stats[s].max_supply = 0 => stats[s].supply = 0
  BY DEF LedgerInv, Exists
<1> DEFINE f == [b \in Account |-> balances[b][s]]
           g == [b \in Account |-> balances'[b][s]]
<1>3. /\ \A b \in Account : f[b] \in Int /\ g[b] \in Int
      /\ \A b \in Account \ {a} : f[b] = g[b]
      /\ g[a] = 0 /\ f[a] = balances[a][s]
  <2>1. balances \in [Account -> [Symbol -> Nat]]
    BY DEF Inv, TokenInv, TokenTypeOK
  <2>2. /\ balances'[a] = [t \in Symbol |-> 0]
        /\ \A b \in Account \ {a} : balances'[b] = balances[b]
    BY <2>1 DEF cleanscope
  <2>3. \A b \in Account : balances[b][s] \in Nat
    BY <2>1
  <2> QED
    BY <2>2, <2>3
<1>4. /\ Circulation(s) = SumFunctionOnSet(f, Account)
      /\ Circulation(s)' = SumFunctionOnSet(g, Account)
  BY HeldCirculates DEF Held
<1> HIDE DEF f, g
<1>5. SumFunctionOnSet(g, Account) = SumFunctionOnSet(f, Account) + (g[a] - f[a])
  BY <1>3, TokenAssumption, SumChange
<1>6. Circulation(s)' = Circulation(s) - balances[a][s] /\ balances[a][s] \in Int
  BY <1>3, <1>4, <1>5, LedgerTypes
<1> QED
  BY <1>1, <1>2, <1>6, LedgerTypes

\* A coin without a row has no supply to lose when its token is created.
LEMMA UpdateLedger ==
  ASSUME Inv, LedgerInv, Inv', NEW c \in CoinChanges, updatecoin(c)
  PROVE  LedgerInv'
<1>1. CASE coins[c.sym].listed
  BY <1>1, RowsLedger DEF updatecoin
<1>2. CASE ~coins[c.sym].listed
  <2>1. /\ UNCHANGED <<balances, orphaned>> /\ ~Exists(c.sym)
        /\ stats' = [stats EXCEPT ![c.sym] = NewStat(Self, c.max, 0)]
    BY <1>2 DEF updatecoin, create
  <2>2. \A s \in Symbol : stats'[s] = stats[s] \/ (~Exists(s) /\ stats'[s].supply = 0)
    <3>1. NewStat(Self, c.max, 0).supply = 0
      BY DEF NewStat
    <3>2. stats \in [Symbol -> StatRow]
      BY DEF Inv, TokenInv, TokenTypeOK
    <3> QED
      BY <2>1, <3>1, <3>2
  <2> QED
    BY <2>1, <2>2, RowsLedger
<1> QED
  BY <1>1, <1>2

\* Deposits and transfers change supply and circulation alike.
LEMMA MoveLedger ==
  ASSUME Inv, LedgerInv, Inv', moveTokens
  PROVE  LedgerInv'
<1>1. TokenTypeOK
  BY DEF Inv, TokenInv
<1>2. SameGap
  BY <1>1, IssueGap, RetireGap, TransferGap DEF moveTokens
<1> SUFFICES ASSUME NEW s \in Symbol
             PROVE  /\ Circulation(s)' - stats'[s].supply - orphaned'[s]
                         = Circulation(s) - stats[s].supply - orphaned[s]
                    /\ stats'[s].max_supply = 0 => stats'[s].supply = 0
  BY LedgerKept
<1>3. orphaned' = orphaned
  BY DEF moveTokens
<1>4. stats'[s].max_supply = 0 => stats'[s].supply = 0
  BY <1>2 DEF SameGap, LedgerInv, Exists
<1> QED
  BY <1>2, <1>3, <1>4 DEF SameGap

\* From the user through the contract to the gateway, all of it.
LEMMA WithdrawLedger ==
  ASSUME Inv, LedgerInv, Inv', NEW from \in Account, NEW payer \in Account, NEW s \in Symbol,
         NEW q \in Quantity, withdraw(from, payer, s, q), UNCHANGED orphaned
  PROVE  LedgerInv'
<1> DEFINE came == AddBalance(SubBalance(balances, from, s, q), Self, s, q)
           gone == AddBalance(SubBalance(came, Self, s, q), Gateway, s, q)
<1>0. /\ q \in Int /\ Self \in Account /\ Gateway \in Account
      /\ balances \in BalanceRows
  BY TokenAssumption, WithdrawalAssumption, NatBalances DEF Quantity, Inv, TokenInv
<1>1. came \in BalanceRows /\ \A t \in Symbol : Held(came, t) = Held(balances, t)
  BY <1>0, HeldMoved
<1>2. stats' = stats /\ balances' = gone
  BY DEF withdraw, HandOver
<1> HIDE DEF came
<1>3. \A t \in Symbol : Held(gone, t) = Held(came, t)
  BY <1>0, <1>1, HeldMoved
<1> HIDE DEF gone
<1>4. \A t \in Symbol : Circulation(t)' = Circulation(t)
  BY <1>1, <1>2, <1>3, HeldCirculates
<1>5. \A t \in Symbol : stats[t].max_supply = 0 => stats[t].supply = 0
  BY DEF LedgerInv, Exists
<1> QED
  BY <1>2, <1>4, <1>5, LedgerKept

\* Every step keeps circulation, supply and orphans in balance.
LEMMA LedgerStep ==
  ASSUME Inv, LedgerInv, LifecycleNext
  PROVE  LedgerInv'
<1>0. Inv'
  BY LifecycleStep
<1>1. CASE init
  <2>1. \A s \in Symbol : stats'[s] = stats[s] \/ (~Exists(s) /\ stats'[s].supply = 0)
    BY <1>1 DEF init, NewStat
  <2> QED
    BY <1>0, <1>1, <2>1, RowsLedger DEF init
<1>2. CASE reset
  <2>1. \A s \in Symbol :
          \/ stats'[s] = stats[s] /\ orphaned'[s] = orphaned[s]
          \/ stats'[s].supply = 0 /\ orphaned'[s] = orphaned[s] + stats[s].supply
    BY <1>2 DEF reset, NoStat
  <2> QED
    BY <1>0, <1>2, <2>1, RowsLedger DEF reset
<1>3. ASSUME NEW u \in Uid, NEW account \in Customers, reguser(u, account)
      PROVE  LedgerInv'
  BY <1>0, <1>3, RowsLedger DEF reguser
<1>4. CASE settleStep
  <2>1. UNCHANGED orphaned
    BY <1>4 DEF settleStep
  <2>2. CASE UNCHANGED <<stats, balances>>
    BY <1>0, <2>1, <2>2, RowsLedger
  <2>3. CASE \E from, payer \in Account, s \in Symbol, q \in Quantity : withdraw(from, payer, s, q)
    BY <1>0, <2>1, <2>3, WithdrawLedger
  <2> QED
    BY <1>4, <2>2, <2>3 DEF settleStep, closesettle
<1> QED
  BY <1>0, <1>1, <1>2, <1>3, <1>4, CleanLedger, UpdateLedger, MoveLedger DEF LifecycleNext

\* Before init nothing circulates.
LEMMA LedgerInit == LifecycleInit => LedgerInv
<1> SUFFICES ASSUME LifecycleInit, NEW s \in Symbol
             PROVE  /\ Circulation(s) = stats[s].supply + orphaned[s]
                    /\ stats[s].supply = 0
  BY DEF LedgerInv, LedgerIsExact
<1>1. stats[s].supply = 0 /\ orphaned[s] = 0
  BY DEF LifecycleInit, NoStat
<1> DEFINE f == [a \in Account |-> balances[a][s]]
<1>2. Circulation(s) = SumFunctionOnSet(f, Account)
  BY DEF Circulation, SumFunction
<1>3. \A a \in Account : f[a] = 0
  BY DEF LifecycleInit
<1> HIDE DEF f
<1>4. SumFunctionOnSet(f, Account) = 0
  BY <1>3, TokenAssumption, SumZero
<1> QED
  BY <1>1, <1>2, <1>4

\* What the accounts have of a token is its supply and what resets and
\* cleanings have cut off from it, to the last unit: no withdrawal, no fee and
\* no token created anew makes or loses any.
THEOREM LedgerStaysExact == LifecycleSpec => []LedgerIsExact
<1>1. Inv /\ LedgerInv /\ [LifecycleNext]_lifeVars => LedgerInv'
  <2>1. LedgerInv /\ UNCHANGED lifeVars => LedgerInv'
    BY DEF LedgerInv, LedgerIsExact, Circulation, Exists, lifeVars
  <2> QED
    BY <2>1, LedgerStep
<1>2. LedgerInv => LedgerIsExact
  BY DEF LedgerInv
<1> QED
  BY <1>1, <1>2, LedgerInit, InvHolds, PTL DEF LifecycleSpec
=============================================================================
