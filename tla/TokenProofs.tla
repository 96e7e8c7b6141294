----------------------------- MODULE TokenProofs ----------------------------
(***************************************************************************)
(* What every action of Token keeps, for any number of accounts, symbols   *)
(* and days: the types, the maximum with the team's share held back, the   *)
(* pace the share unlocks at, and the gap between the supply and what the  *)
(* accounts have.  Points and Lifecycle build on it.                       *)
(***************************************************************************)
EXTENDS Token, Sums

-----------------------------------------------------------------------------
\* The shares are within what create made of them.
TokenInv ==
  /\ TokenTypeOK
  /\ SupplyWithinMax
  /\ TeamShareVests
  /\ \A s \in Symbol : stats[s].team_claim >= 0

\* The share of a team is no more than the maximum.
LEMMA ShareOfMax ==
  ASSUME NEW max \in Nat, NEW team \in 0..100
  PROVE  (max * team) \div 100 \in 0..max
<1> DEFINE all == max * team
           share == all \div 100
<1>1. all \in Nat /\ all <= 100 * max
  OBVIOUS
<1> HIDE DEF all
<1>2. share \in Nat /\ 100 * share <= all
  BY <1>1
<1> HIDE DEF share
<1>3. share <= max
  BY <1>1, <1>2
<1> QED
  BY <1>2, <1>3 DEF share, all

\* A new row starts from nothing issued and nothing claimed.
LEMMA NewStatRow ==
  ASSUME NEW issuer \in Account, NEW max \in Nat, NEW team \in 0..100
  PROVE  LET row == NewStat(issuer, max, team) IN
         /\ row \in StatRow
         /\ row.supply = 0 /\ row.team_claim = 0 /\ row.max_supply = max
         /\ row.team \in 0..max
<1>1. (max * team) \div 100 \in 0..max
  BY ShareOfMax
<1> QED
  BY <1>1 DEF NewStat, StatRow

\* Adding to a balance, and taking what is there, keep balances natural.
LEMMA BalanceType ==
  ASSUME NEW bs \in [Account -> [Symbol -> Nat]], NEW a \in Account, NEW s \in Symbol,
         NEW q \in Nat
  PROVE  /\ AddBalance(bs, a, s, q) \in [Account -> [Symbol -> Nat]]
         /\ bs[a][s] >= q => SubBalance(bs, a, s, q) \in [Account -> [Symbol -> Nat]]
<1>1. bs[a] \in [Symbol -> Nat] /\ bs[a][s] \in Nat
  OBVIOUS
<1>2. bs[a][s] + q \in Nat /\ (bs[a][s] >= q => bs[a][s] - q \in Nat)
  BY <1>1
<1> QED
  BY <1>1, <1>2 DEF AddBalance, SubBalance

\* What a change of one row does to the three invariants.
LEMMA StatChange ==
  ASSUME TokenInv, NEW s \in Symbol, NEW row \in StatRow,
         stats' = [stats EXCEPT ![s] = row],
         row.supply + (row.team - row.team_claim) <= row.max_supply,
         0 <= row.team_claim, row.team_claim <= row.team,
         s = FMP => row.team_claim * TeamUnlock <= row.team * day,
         balances' \in [Account -> [Symbol -> Nat]], UNCHANGED day
  PROVE  TokenInv'
<1> USE DEF TokenInv, TokenTypeOK
<1>1. stats' \in [Symbol -> StatRow] /\ stats'[s] = row
  OBVIOUS
<1>2. \A t \in Symbol \ {s} : stats'[t] = stats[t]
  OBVIOUS
<1>3. SupplyWithinMax'
  BY <1>1, <1>2 DEF SupplyWithinMax
<1>4. TeamShareVests' /\ \A t \in Symbol : stats'[t].team_claim >= 0
  <2>1. \A t \in Symbol : stats'[t].team_claim <= stats'[t].team /\ stats'[t].team_claim >= 0
    BY <1>1, <1>2 DEF TeamShareVests
  <2>2. stats'[FMP].team_claim * TeamUnlock <= stats'[FMP].team * day'
    <3>1. CASE s = FMP
      BY <1>1, <3>1
    <3>2. CASE s # FMP
      BY <1>2, <3>2, TokenAssumption DEF TeamShareVests
    <3> QED
      BY <3>1, <3>2
  <2> QED
    BY <2>1, <2>2 DEF TeamShareVests
<1> QED
  BY <1>1, <1>3, <1>4

\* More or less supply, and nothing else, in a row.
LEMMA SupplyRow ==
  ASSUME TokenTypeOK, NEW s \in Symbol, NEW n \in Int
  PROVE  LET row == [stats[s] EXCEPT !.supply = n] IN
         /\ row \in StatRow /\ row.supply = n
         /\ row.team = stats[s].team /\ row.team_claim = stats[s].team_claim
         /\ row.max_supply = stats[s].max_supply
BY DEF TokenTypeOK, StatRow

\* issue keeps within the maximum less what the team has not claimed.
LEMMA IssueInv ==
  ASSUME TokenInv, NEW to \in Account, NEW s \in Symbol, NEW q \in Quantity,
         issue(to, s, q), UNCHANGED day
  PROVE  TokenInv'
<1> USE DEF TokenInv
<1> DEFINE n == stats[s].supply + q
           row == [stats[s] EXCEPT !.supply = n]
<1>0. /\ q \in Nat /\ stats[s] \in StatRow
      /\ balances \in [Account -> [Symbol -> Nat]]
  BY TokenAssumption DEF Quantity, TokenTypeOK
<1>1. /\ stats[s].supply \in Int /\ stats[s].team \in Nat /\ stats[s].team_claim \in Nat
      /\ stats[s].max_supply \in Nat
  BY <1>0 DEF StatRow
<1>2. n \in Int /\ n + (stats[s].team - stats[s].team_claim) <= stats[s].max_supply
  BY <1>0, <1>1 DEF issue, MintableOf
<1>3. stats' = [stats EXCEPT ![s] = row]
  BY DEF issue
<1>4. balances' \in [Account -> [Symbol -> Nat]]
  BY <1>0, BalanceType DEF issue
<1> HIDE DEF n
<1>5. /\ row \in StatRow /\ row.supply = n
      /\ row.team = stats[s].team /\ row.team_claim = stats[s].team_claim
      /\ row.max_supply = stats[s].max_supply
  BY <1>2, SupplyRow
<1> HIDE DEF row
<1>6. /\ row.team_claim <= row.team
      /\ s = FMP => row.team_claim * TeamUnlock <= row.team * day
  BY <1>5 DEF TeamShareVests
<1> QED
  BY <1>1, <1>2, <1>3, <1>4, <1>5, <1>6, StatChange

\* What is retired leaves the supply and nothing else.
LEMMA RetireInv ==
  ASSUME TokenInv, NEW s \in Symbol, NEW q \in Quantity, retire(s, q), UNCHANGED day
  PROVE  TokenInv'
<1> USE DEF TokenInv
<1> DEFINE n == stats[s].supply - q
           row == [stats[s] EXCEPT !.supply = n]
<1>0. /\ q \in Nat /\ stats[s] \in StatRow
      /\ balances \in [Account -> [Symbol -> Nat]]
  BY TokenAssumption DEF Quantity, TokenTypeOK
<1>1. /\ stats[s].supply \in Int /\ stats[s].team \in Nat /\ stats[s].team_claim \in Nat
      /\ stats[s].max_supply \in Nat /\ stats[s].issuer \in Account
  BY <1>0 DEF StatRow
<1>2. n \in Int /\ n + (stats[s].team - stats[s].team_claim) <= stats[s].max_supply
  BY <1>0, <1>1 DEF SupplyWithinMax
<1>3. stats' = [stats EXCEPT ![s] = row]
  BY DEF retire
<1>4. balances' \in [Account -> [Symbol -> Nat]]
  BY <1>0, <1>1, BalanceType DEF retire
<1> HIDE DEF n
<1>5. /\ row \in StatRow /\ row.supply = n
      /\ row.team = stats[s].team /\ row.team_claim = stats[s].team_claim
      /\ row.max_supply = stats[s].max_supply
  BY <1>2, SupplyRow
<1> HIDE DEF row
<1>6. /\ row.team_claim <= row.team
      /\ s = FMP => row.team_claim * TeamUnlock <= row.team * day
  BY <1>5 DEF TeamShareVests
<1> QED
  BY <1>1, <1>2, <1>3, <1>4, <1>5, <1>6, StatChange

\* What unlocks by whole days and whole points is no more than the share of
\* the days that have passed.
LEMMA UnlockBound ==
  ASSUME NEW T \in Nat, NEW U \in Nat \ {0}, NEW d \in Nat, NEW c \in Int,
         c <= (T \div U) * d
  PROVE  c * U <= T * d
<1> DEFINE one == T \div U
<1>1. one \in Nat /\ one * U <= T
  OBVIOUS
<1>2. c <= one * d
  OBVIOUS
<1> HIDE DEF one
<1>3. c * U <= (one * d) * U
  <2> DEFINE e == one * d
  <2>1. e \in Nat /\ c <= e
    BY <1>1, <1>2
  <2> HIDE DEF e
  <2>2. c * U <= e * U
    BY <2>1
  <2> QED
    BY <2>2 DEF e
<1>4. (one * d) * U = (one * U) * d
  BY <1>1
<1>5. (one * U) * d <= T * d
  <2> DEFINE e == one * U
  <2>1. e \in Nat /\ e <= T
    BY <1>1
  <2> HIDE DEF e
  <2>2. e * d <= T * d
    BY <2>1
  <2> QED
    BY <2>2 DEF e
<1>6. c * U \in Int /\ (one * d) * U \in Int /\ T * d \in Int
  BY <1>1
<1> QED
  BY <1>3, <1>4, <1>5, <1>6

\* A claim takes from the share what it adds to the supply, at its pace.
LEMMA ClaimInv ==
  ASSUME TokenInv, NEW to \in Account, NEW q \in Quantity, claim(to, q), UNCHANGED day
  PROVE  TokenInv'
<1> USE DEF TokenInv
<1> DEFINE st == stats[FMP]
           n == st.supply + q
           c == st.team_claim + q
           row == [st EXCEPT !.supply = n, !.team_claim = c]
<1>0. /\ q \in Nat /\ FMP \in Symbol /\ stats[FMP] \in StatRow /\ day \in Nat
      /\ balances \in [Account -> [Symbol -> Nat]] /\ TeamUnlock \in Nat \ {0}
  BY TokenAssumption DEF Quantity, TokenTypeOK
<1>1. /\ st.supply \in Int /\ st.team \in Nat /\ st.team_claim \in Nat
      /\ st.max_supply \in Nat
  BY <1>0 DEF StatRow
<1>2. /\ n \in Int /\ c \in Nat /\ c <= st.team
      /\ n + (st.team - c) <= st.max_supply
  <2>1. st.supply + (st.team - st.team_claim) <= st.max_supply
    BY <1>0 DEF SupplyWithinMax
  <2>2. q <= st.team - st.team_claim
    BY DEF claim
  <2> QED
    BY <1>0, <1>1, <2>1, <2>2
<1>3. c * TeamUnlock <= st.team * day
  <2>1. q <= (st.team \div TeamUnlock) * day - st.team_claim
    BY DEF claim, Unlocked
  <2>2. (st.team \div TeamUnlock) * day \in Int
    BY <1>0, <1>1
  <2>3. c <= (st.team \div TeamUnlock) * day
    BY <1>0, <1>1, <2>1, <2>2
  <2>4. c \in Int /\ st.team \in Nat /\ day \in Nat /\ TeamUnlock \in Nat \ {0}
    BY <1>0, <1>1, <1>2
  <2> HIDE DEF c, st
  <2> QED
    BY <2>3, <2>4, UnlockBound, Zenon
<1>4. stats' = [stats EXCEPT ![FMP] = row]
  BY DEF claim
<1>5. balances' \in [Account -> [Symbol -> Nat]]
  BY <1>0, BalanceType DEF claim
<1>6. st \in StatRow
  BY <1>0
<1> HIDE DEF n, c, st
<1>7. /\ row \in StatRow /\ row.supply = n /\ row.team_claim = c
      /\ row.team = st.team /\ row.max_supply = st.max_supply
  BY <1>2, <1>6 DEF StatRow
<1> HIDE DEF row
<1>8. /\ row.supply + (row.team - row.team_claim) <= row.max_supply
      /\ 0 <= row.team_claim /\ row.team_claim <= row.team
  BY <1>1, <1>2, <1>7
<1>9. row.team_claim * TeamUnlock <= row.team * day
  BY <1>3, <1>7
<1> QED
  BY <1>0, <1>4, <1>5, <1>7, <1>8, <1>9, StatChange

\* A transfer changes no row of stat.
LEMMA TransferInv ==
  ASSUME TokenInv, NEW from \in Account, NEW to \in Account, NEW s \in Symbol,
         NEW q \in Quantity, transfer(from, to, s, q), UNCHANGED day
  PROVE  TokenInv'
<1> USE DEF TokenInv, TokenTypeOK
<1>1. q \in Nat /\ balances[from][s] >= q
  BY TokenAssumption DEF Quantity, transfer
<1>2. balances' \in [Account -> [Symbol -> Nat]]
  <2> DEFINE left == SubBalance(balances, from, s, q)
  <2>1. left \in [Account -> [Symbol -> Nat]]
    BY <1>1, BalanceType
  <2>2. balances' = AddBalance(left, to, s, q)
    BY DEF transfer
  <2> HIDE DEF left
  <2> QED
    BY <1>1, <2>1, <2>2, BalanceType
<1> QED
  BY <1>2 DEF transfer, SupplyWithinMax, TeamShareVests

\* A token that is created, or created again after reset, starts within its
\* maximum.
LEMMA CreateInv ==
  ASSUME TokenInv, NEW issuer \in Account, NEW s \in Symbol, NEW max \in Nat, NEW team \in Int,
         create(issuer, s, max, team), UNCHANGED day
  PROVE  TokenInv'
<1> DEFINE row == NewStat(issuer, max, team)
<1>1. /\ row \in StatRow /\ row.supply = 0 /\ row.team_claim = 0 /\ row.max_supply = max
      /\ row.team \in 0..max
  BY NewStatRow DEF create
<1>2. stats' = [stats EXCEPT ![s] = row] /\ UNCHANGED balances
  BY DEF create
<1>3. day \in Nat /\ balances \in [Account -> [Symbol -> Nat]] /\ TeamUnlock \in Nat
  BY TokenAssumption DEF TokenInv, TokenTypeOK
<1> HIDE DEF row
<1>4. row.team_claim * TeamUnlock <= row.team * day
  <2>1. row.team * day \in Nat
    BY <1>1, <1>3
  <2> QED
    BY <1>1, <1>3, <2>1
<1>5. /\ row.supply + (row.team - row.team_claim) <= row.max_supply
      /\ 0 <= row.team_claim /\ row.team_claim <= row.team
  BY <1>1
<1> QED
  BY <1>1, <1>2, <1>3, <1>4, <1>5, StatChange

\* Another day unlocks more.
LEMMA DayInv ==
  ASSUME TokenInv, UNCHANGED <<stats, balances>>, day' = day + 1
  PROVE  TokenInv'
<1> USE DEF TokenInv
<1>1. stats[FMP] \in StatRow /\ day \in Nat
  BY TokenAssumption DEF TokenTypeOK
<1>2. stats[FMP].team \in Nat /\ stats[FMP].team_claim \in Nat
  BY <1>1 DEF StatRow
<1>3. stats[FMP].team * day <= stats[FMP].team * (day + 1)
  BY <1>1, <1>2
<1>4. stats[FMP].team_claim * TeamUnlock <= stats[FMP].team * (day + 1)
  BY <1>1, <1>2, <1>3, TokenAssumption DEF TeamShareVests
<1> QED
  BY <1>1, <1>4 DEF TokenTypeOK, SupplyWithinMax, TeamShareVests

-----------------------------------------------------------------------------
(* Supply and balances. *)

BalanceRows == [Account -> [Symbol -> Int]]

\* What all accounts have of s.
Held(bs, s) == SumFunctionOnSet([a \in Account |-> bs[a][s]], Account)

\* Circulation in terms of the balances before and after a step.
LEMMA HeldCirculates ==
  ASSUME NEW s \in Symbol
  PROVE  Circulation(s) = Held(balances, s) /\ Circulation(s)' = Held(balances', s)
BY DEF Circulation, Held, SumFunction

\* What all accounts hold is an integer.
LEMMA HeldType ==
  ASSUME NEW bs \in BalanceRows, NEW s \in Symbol
  PROVE  Held(bs, s) \in Int
<1> DEFINE f == [a \in Account |-> bs[a][s]]
<1>1. \A a \in Account : f[a] \in Int
  BY DEF BalanceRows
<1> HIDE DEF f
<1>2. SumFunctionOnSet(f, Account) \in Int
  BY <1>1, TokenAssumption, SumInt
<1> QED
  BY <1>2 DEF Held, f

\* One balance changes.
LEMMA HeldAdd ==
  ASSUME NEW bs \in BalanceRows, NEW a \in Account, NEW s \in Symbol, NEW q \in Int
  PROVE  /\ AddBalance(bs, a, s, q) \in BalanceRows
         /\ \A t \in Symbol :
              Held(AddBalance(bs, a, s, q), t) = Held(bs, t) + (IF t = s THEN q ELSE 0)
<1> DEFINE cs == AddBalance(bs, a, s, q)
<1>0. bs[a] \in [Symbol -> Int] /\ bs[a][s] \in Int /\ bs[a][s] + q \in Int
  BY DEF BalanceRows
<1>1. /\ cs \in BalanceRows
      /\ \A b \in Account \ {a} : cs[b] = bs[b]
      /\ \A t \in Symbol : cs[a][t] = IF t = s THEN bs[a][s] + q ELSE bs[a][t]
  BY <1>0 DEF BalanceRows, AddBalance
<1> HIDE DEF cs
<1>2. ASSUME NEW t \in Symbol
      PROVE  Held(cs, t) = Held(bs, t) + (IF t = s THEN q ELSE 0)
  <2> DEFINE f == [b \in Account |-> bs[b][t]]
             g == [b \in Account |-> cs[b][t]]
  <2>1. /\ \A b \in Account : f[b] \in Int /\ g[b] \in Int
        /\ \A b \in Account \ {a} : f[b] = g[b]
        /\ g[a] - f[a] = IF t = s THEN q ELSE 0
    <3>1. \A b \in Account : f[b] \in Int /\ g[b] \in Int
      BY <1>1 DEF BalanceRows
    <3>2. \A b \in Account \ {a} : f[b] = g[b]
      BY <1>1
    <3>3. g[a] = (IF t = s THEN f[a] + q ELSE f[a]) /\ f[a] \in Int
      BY <1>1, <3>1
    <3> HIDE DEF f, g
    <3> QED
      BY <3>1, <3>2, <3>3
  <2>2. Held(cs, t) = SumFunctionOnSet(g, Account) /\ Held(bs, t) = SumFunctionOnSet(f, Account)
    BY DEF Held
  <2> HIDE DEF f, g
  <2>3. SumFunctionOnSet(g, Account) = SumFunctionOnSet(f, Account) + (g[a] - f[a])
    BY <2>1, TokenAssumption, SumChange
  <2> QED
    BY <2>1, <2>2, <2>3
<1> QED
  BY <1>1, <1>2 DEF cs

\* What is taken from one account, all accounts hold less.
LEMMA HeldSub ==
  ASSUME NEW bs \in BalanceRows, NEW a \in Account, NEW s \in Symbol, NEW q \in Int
  PROVE  /\ SubBalance(bs, a, s, q) \in BalanceRows
         /\ \A t \in Symbol :
              Held(SubBalance(bs, a, s, q), t) = Held(bs, t) - (IF t = s THEN q ELSE 0)
<1>1. SubBalance(bs, a, s, q) = AddBalance(bs, a, s, 0 - q)
  <2>1. bs[a] \in [Symbol -> Int] /\ bs[a][s] \in Int
    BY DEF BalanceRows
  <2>2. bs[a][s] - q = bs[a][s] + (0 - q)
    BY <2>1
  <2> QED
    BY <2>1, <2>2 DEF SubBalance, AddBalance
<1>2. 0 - q \in Int
  OBVIOUS
<1>3. \A t \in Symbol : Held(bs, t) \in Int
  BY HeldType
<1> QED
  BY <1>1, <1>2, <1>3, HeldAdd

\* What goes from one account to another stays in circulation.
LEMMA HeldMoved ==
  ASSUME NEW bs \in BalanceRows, NEW from \in Account, NEW to \in Account,
         NEW s \in Symbol, NEW q \in Int
  PROVE  /\ AddBalance(SubBalance(bs, from, s, q), to, s, q) \in BalanceRows
         /\ \A t \in Symbol :
              Held(AddBalance(SubBalance(bs, from, s, q), to, s, q), t) = Held(bs, t)
<1> DEFINE left == SubBalance(bs, from, s, q)
           came == AddBalance(left, to, s, q)
<1>1. left \in BalanceRows
      /\ \A t \in Symbol : Held(left, t) = Held(bs, t) - (IF t = s THEN q ELSE 0)
  BY HeldSub
<1> HIDE DEF left
<1>2. came \in BalanceRows
      /\ \A t \in Symbol : Held(came, t) = Held(left, t) + (IF t = s THEN q ELSE 0)
  BY <1>1, HeldAdd
<1> HIDE DEF came
<1>3. \A t \in Symbol : Held(bs, t) \in Int
  BY HeldType
<1>4. \A t \in Symbol : Held(came, t) = Held(bs, t)
  BY <1>1, <1>2, <1>3
<1> QED
  BY <1>2, <1>4 DEF came, left

\* What the accounts have beyond the supply stays as it is, and so does the
\* supply of a token that is not there.
SameGap ==
  \A t \in Symbol :
    /\ Circulation(t)' - stats'[t].supply = Circulation(t) - stats[t].supply
    /\ stats'[t].max_supply = stats[t].max_supply
    /\ ~Exists(t) => stats'[t].supply = stats[t].supply

\* Balances are rows that can be summed.
LEMMA NatBalances ==
  ASSUME TokenTypeOK
  PROVE  balances \in BalanceRows
BY DEF TokenTypeOK, BalanceRows

\* Supply and circulation change alike.
LEMMA GapKept ==
  ASSUME TokenTypeOK, NEW s \in Symbol, NEW q \in Int, Exists(s),
         \A t \in Symbol : Held(balances', t) = Held(balances, t) + (IF t = s THEN q ELSE 0),
         \A t \in Symbol \ {s} : stats'[t] = stats[t],
         stats'[s].supply = stats[s].supply + q,
         stats'[s].max_supply = stats[s].max_supply
  PROVE  SameGap
<1> SUFFICES ASSUME NEW t \in Symbol
             PROVE  /\ Held(balances', t) - stats'[t].supply = Held(balances, t) - stats[t].supply
                    /\ stats'[t].max_supply = stats[t].max_supply
                    /\ ~Exists(t) => stats'[t].supply = stats[t].supply
  BY HeldCirculates DEF SameGap
<1>1. Held(balances, t) \in Int /\ stats[t].supply \in Int
  BY NatBalances, HeldType DEF TokenTypeOK, StatRow
<1> QED
  BY <1>1

\* issue adds the same to supply and balances.
LEMMA IssueGap ==
  ASSUME TokenTypeOK, NEW to \in Account, NEW s \in Symbol, NEW q \in Quantity, issue(to, s, q)
  PROVE  SameGap
<1>1. q \in Int
  BY DEF Quantity
<1>2. \A t \in Symbol : Held(balances', t) = Held(balances, t) + (IF t = s THEN q ELSE 0)
  BY <1>1, NatBalances, HeldAdd DEF issue
<1>3. /\ \A t \in Symbol \ {s} : stats'[t] = stats[t]
      /\ stats'[s].supply = stats[s].supply + q
      /\ stats'[s].max_supply = stats[s].max_supply
      /\ Exists(s)
  BY DEF issue, TokenTypeOK, StatRow
<1> QED
  BY <1>1, <1>2, <1>3, GapKept

\* So does claim.
LEMMA ClaimGap ==
  ASSUME TokenTypeOK, NEW to \in Account, NEW q \in Quantity, claim(to, q)
  PROVE  SameGap
<1>1. q \in Int /\ FMP \in Symbol
  BY TokenAssumption DEF Quantity
<1>2. \A t \in Symbol : Held(balances', t) = Held(balances, t) + (IF t = FMP THEN q ELSE 0)
  BY <1>1, NatBalances, HeldAdd DEF claim
<1>3. /\ \A t \in Symbol \ {FMP} : stats'[t] = stats[t]
      /\ stats'[FMP].supply = stats[FMP].supply + q
      /\ stats'[FMP].max_supply = stats[FMP].max_supply
      /\ Exists(FMP)
  BY <1>1 DEF claim, TokenTypeOK, StatRow
<1> QED
  BY <1>1, <1>2, <1>3, GapKept

\* retire takes the same from both.
LEMMA RetireGap ==
  ASSUME TokenTypeOK, NEW s \in Symbol, NEW q \in Quantity, retire(s, q)
  PROVE  SameGap
<1>1. q \in Int /\ 0 - q \in Int /\ stats[s].issuer \in Account /\ stats[s].supply \in Int
  BY DEF Quantity, TokenTypeOK, StatRow
<1>2. \A t \in Symbol : Held(balances', t) = Held(balances, t) - (IF t = s THEN q ELSE 0)
  BY <1>1, NatBalances, HeldSub DEF retire
<1>3. \A t \in Symbol :
        Held(balances', t) = Held(balances, t) + (IF t = s THEN 0 - q ELSE 0)
  <2>1. \A t \in Symbol : Held(balances, t) \in Int
    BY NatBalances, HeldType
  <2> QED
    BY <1>1, <1>2, <2>1
<1>4. /\ \A t \in Symbol \ {s} : stats'[t] = stats[t]
      /\ stats'[s].supply = stats[s].supply + (0 - q)
      /\ stats'[s].max_supply = stats[s].max_supply
      /\ Exists(s)
  BY <1>1 DEF retire, TokenTypeOK, StatRow
<1> QED
  BY <1>1, <1>3, <1>4, GapKept

\* transfer changes neither.
LEMMA TransferGap ==
  ASSUME TokenTypeOK, NEW from \in Account, NEW to \in Account, NEW s \in Symbol,
         NEW q \in Quantity, transfer(from, to, s, q)
  PROVE  SameGap
<1>1. q \in Int
  BY DEF Quantity
<1>2. \A t \in Symbol : Held(balances', t) = Held(balances, t)
  BY <1>1, NatBalances, HeldMoved DEF transfer
<1> QED
  BY <1>2, HeldCirculates DEF SameGap, transfer
=============================================================================
