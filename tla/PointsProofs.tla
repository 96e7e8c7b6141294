---------------------------- MODULE PointsProofs ----------------------------
(***************************************************************************)
(* The token under a supply that comes and goes, the point column and the  *)
(* dividends read from it: for any number of accounts, days, points and    *)
(* coins.                                                                  *)
(***************************************************************************)
EXTENDS Points, TokenProofs

\* Who is not known to be stale has as many points as his row says, and no
\* points at all as long as he has no row.
PointsInv ==
  /\ \A a \in members \ stale : point[a] = balances[a][FMP]
  /\ \A a \in Account \ (members \cup stale) : balances[a][FMP] = 0

Inv == PointsTypeOK /\ TokenInv

-----------------------------------------------------------------------------
(* Types, supply and vesting. *)

\* A move writes balances, which are natural numbers, into points.
LEMMA RecordType ==
  ASSUME PointsTypeOK, NEW touched \in SUBSET Account, Record(touched),
         balances' \in [Account -> [Symbol -> Nat]]
  PROVE  point' \in [Account -> Nat] /\ stale' \subseteq Account
BY TokenAssumption DEF PointsTypeOK, Record

\* The points of the accounts touched move, nobody else's.
Moved ==
  \E touched \in SUBSET Account :
    /\ Record(touched)
    /\ \A a \in Account \ touched : balances'[a] = balances[a]

\* Points that move keep what the token keeps, and are recorded or missed.
LEMMA MoveInv ==
  ASSUME Inv, movePoints
  PROVE  TokenInv' /\ Moved
<1> USE DEF Inv
<1>0. /\ FMP \in Symbol /\ UNCHANGED day /\ stats[FMP].issuer \in Account
      /\ balances \in [Account -> [Symbol -> Nat]]
  BY TokenAssumption DEF movePoints, TokenInv, TokenTypeOK, StatRow
<1>1. ASSUME NEW to \in Account, NEW q \in Quantity, issue(to, FMP, q),
             Record({stats[FMP].issuer, to})
      PROVE  TokenInv' /\ Moved
  <2>1. \A a \in Account \ {to} : balances'[a] = balances[a]
    BY <1>0, <1>1 DEF issue, AddBalance
  <2>2. Moved
    <3>1. {stats[FMP].issuer, to} \in SUBSET Account
      BY <1>0
    <3> QED
      BY <1>1, <2>1, <3>1 DEF Moved
  <2> QED
    BY <1>0, <1>1, <2>2, IssueInv
<1>2. ASSUME NEW to \in Account, NEW q \in Quantity, claim(to, q),
             Record({stats[FMP].issuer, to})
      PROVE  TokenInv' /\ Moved
  <2>1. \A a \in Account \ {to} : balances'[a] = balances[a]
    BY <1>0, <1>2 DEF claim, AddBalance
  <2>2. Moved
    <3>1. {stats[FMP].issuer, to} \in SUBSET Account
      BY <1>0
    <3> QED
      BY <1>2, <2>1, <3>1 DEF Moved
  <2> QED
    BY <1>0, <1>2, <2>2, ClaimInv
<1>3. ASSUME NEW q \in Quantity, retire(FMP, q), Record({stats[FMP].issuer})
      PROVE  TokenInv' /\ Moved
  <2>1. \A a \in Account \ {stats[FMP].issuer} : balances'[a] = balances[a]
    BY <1>0, <1>3 DEF retire, SubBalance
  <2>2. Moved
    <3>1. {stats[FMP].issuer} \in SUBSET Account
      BY <1>0
    <3> QED
      BY <1>3, <2>1, <3>1 DEF Moved
  <2> QED
    BY <1>0, <1>3, <2>2, RetireInv
<1>4. ASSUME NEW from \in Account, NEW to \in Account, NEW q \in Quantity,
             transfer(from, to, FMP, q), Record({from, to})
      PROVE  TokenInv' /\ Moved
  <2>1. \A a \in Account \ {from, to} : balances'[a] = balances[a]
    BY <1>0, <1>4 DEF transfer, AddBalance, SubBalance
  <2>2. Moved
    <3>1. {from, to} \in SUBSET Account
      BY <1>0
    <3> QED
      BY <1>4, <2>1, <3>1 DEF Moved
  <2> QED
    BY <1>0, <1>4, <2>2, TransferInv
<1> QED
  BY <1>1, <1>2, <1>3, <1>4 DEF movePoints

\* What a sync sets aside is part of the income.
LEMMA SetAsideType ==
  ASSUME Inv, NEW c \in Coin
  PROVE  SetAside(c) \in 0..income[c]
<1> DEFINE n == income[c]
           supply == stats[FMP].supply
<1>1. n \in Nat /\ supply \in Int
  BY TokenAssumption DEF Inv, PointsTypeOK, TokenTypeOK, StatRow
<1>2. SetAside(c) = IF supply > 0 THEN (n \div supply) * supply ELSE 0
  BY DEF SetAside
<1> HIDE DEF n, supply
<1>3. supply > 0 => (n \div supply) * supply \in 0..n
  BY <1>1
<1> QED
  BY <1>1, <1>2, <1>3 DEF n

\* Every step keeps types, maximum and share.
LEMMA PointsStep ==
  ASSUME Inv, PointsNext
  PROVE  Inv'
<1> USE DEF Inv, PointsTypeOK
<1>1. CASE movePoints
  <2>1. TokenInv'
    BY <1>1, MoveInv
  <2>2. point' \in [Account -> Nat] /\ stale' \subseteq Account
    BY <1>1, <2>1, MoveInv, RecordType DEF Moved, TokenInv, TokenTypeOK
  <2> QED
    BY <1>1, <2>1, <2>2 DEF movePoints, globalVars, TokenInv
<1>2. ASSUME NEW a \in Holders, reguser(a)
      PROVE  Inv'
  BY <1>2, PointsAssumption
     DEF reguser, tokenVars, globalVars, TokenInv, TokenTypeOK, SupplyWithinMax, TeamShareVests
<1>3. ASSUME NEW c \in Coin, earn(c)
      PROVE  Inv'
  BY <1>3 DEF earn, tokenVars, TokenInv, TokenTypeOK, SupplyWithinMax, TeamShareVests
<1>4. CASE startsync
  <2>1. last_income' \in [Coin -> Nat] /\ income' \in [Coin -> Nat]
    BY <1>4, SetAsideType DEF startsync
  <2>2. last_supply' \in Nat
    BY <1>4, TokenAssumption DEF startsync, TokenTypeOK, StatRow
  <2>3. sync_data' \in BOOLEAN /\ fresh' \in BOOLEAN
    BY <1>4 DEF startsync
  <2> QED
    BY <1>4, <2>1, <2>2, <2>3
       DEF startsync, tokenVars, TokenInv, TokenTypeOK, SupplyWithinMax, TeamShareVests
<1>5. CASE endsync
  <2>1. TokenInv'
    BY <1>5 DEF endsync, tokenVars, TokenInv, TokenTypeOK, SupplyWithinMax, TeamShareVests
  <2>2. last_time' \in Int /\ last_time' <= day'
    BY <1>5 DEF endsync, TokenInv, TokenTypeOK
  <2>3. sync_data' = FALSE /\ UNCHANGED <<members, point, income, last_income, last_supply,
                                         stale, fresh>>
    BY <1>5 DEF endsync
  <2> QED
    BY <2>1, <2>2, <2>3 DEF TokenInv
<1>6. CASE Tick
  <2>1. TokenInv'
    BY <1>6, DayInv DEF Tick, tokenVars
  <2> QED
    BY <1>6, <2>1 DEF Tick, tokenVars, globalVars, TokenInv, TokenTypeOK
<1> QED
  BY <1>1, <1>2, <1>3, <1>4, <1>5, <1>6 DEF PointsNext

\* The points are created, and nobody has any.
LEMMA PointsInitInv == PointsInit => Inv
<1> SUFFICES ASSUME PointsInit
             PROVE  Inv
  OBVIOUS
<1> DEFINE row == NewStat(Self, MaxSupply, TeamShare)
<1>0. Self \in Account /\ MaxSupply \in Nat /\ TeamShare \in 0..100
  BY TokenAssumption, PointsAssumption
<1>1. /\ row \in StatRow /\ row.supply = 0 /\ row.team_claim = 0
      /\ row.max_supply = MaxSupply /\ row.team \in 0..MaxSupply
  BY <1>0, NewStatRow
<1>2. stats = [s \in Symbol |-> IF s = FMP THEN row ELSE NoStat]
  BY DEF PointsInit
<1> HIDE DEF row
<1>3. NoStat \in StatRow
  BY TokenAssumption DEF NoStat, StatRow
<1>4. TokenTypeOK
  BY <1>1, <1>2, <1>3 DEF PointsInit, TokenTypeOK
<1>5. \A s \in Symbol : /\ stats[s].supply = 0 /\ stats[s].team_claim = 0
                       /\ stats[s].team \in 0..stats[s].max_supply
  BY <1>1, <1>2 DEF NoStat
<1>6. SupplyWithinMax
  BY <1>4, <1>5 DEF SupplyWithinMax, TokenTypeOK, StatRow
<1>7. TeamShareVests /\ \A s \in Symbol : stats[s].team_claim >= 0
  BY <1>4, <1>5, TokenAssumption DEF TeamShareVests, TokenTypeOK, StatRow, PointsInit
<1>8. sync_data \in BOOLEAN /\ fresh \in BOOLEAN
  BY DEF PointsInit
<1>9. /\ members \subseteq Account /\ point \in [Account -> Nat] /\ stale \subseteq Account
      /\ income \in [Coin -> Nat] /\ last_income \in [Coin -> Nat]
      /\ last_supply \in Nat /\ last_time \in Int /\ last_time <= day
  BY PointsAssumption DEF PointsInit
<1> QED
  BY <1>4, <1>6, <1>7, <1>8, <1>9 DEF Inv, TokenInv, PointsTypeOK

\* Nothing but UNCHANGED.
LEMMA PointsStutter == Inv /\ UNCHANGED pointVars => Inv'
BY DEF Inv, PointsTypeOK, TokenInv, TokenTypeOK, SupplyWithinMax, TeamShareVests, pointVars,
       tokenVars, globalVars

\* The invariant the theorems of this module rest on.
LEMMA InvHolds == PointsSpec => []Inv
BY PointsInitInv, PointsStep, PointsStutter, PTL DEF PointsSpec

\* Points, income and what is set aside are never negative.
THEOREM PointsTypeCorrect == PointsSpec => []PointsTypeOK
<1>1. Inv => PointsTypeOK
  BY DEF Inv
<1> QED
  BY <1>1, InvHolds, PTL

\* The supply and the part of the team's share it has not claimed never pass
\* the maximum together: no issue takes what the team may still claim, and
\* what is retired can be minted again.
THEOREM SupplyBounded == PointsSpec => []SupplyWithinMax
<1>1. Inv => SupplyWithinMax
  BY DEF Inv, TokenInv
<1> QED
  BY <1>1, InvHolds, PTL

\* Whatever is claimed when, the team never has more of its share than the
\* days that have passed of those it unlocks in, nor more than its share.
THEOREM TeamVests == PointsSpec => []TeamShareVests
<1>1. Inv => TeamShareVests
  BY DEF Inv, TokenInv
<1> QED
  BY <1>1, InvHolds, PTL

-----------------------------------------------------------------------------
(* The point column. *)

\* Every step records the balances it moves, or remembers them as stale.
LEMMA FollowStep ==
  ASSUME Inv, PointsInv, PointsNext
  PROVE  PointsInv'
<1> USE DEF PointsInv
<1>1. CASE movePoints
  <2>1. PICK touched \in SUBSET Account :
          /\ Record(touched)
          /\ \A a \in Account \ touched : balances'[a] = balances[a]
    BY <1>1, MoveInv DEF Moved
  <2>2. UNCHANGED members /\ members \subseteq Account
    BY <1>1 DEF movePoints, Inv, PointsTypeOK
  <2>3. \A a \in members \ stale' : point'[a] = balances'[a][FMP]
    BY <2>1, <2>2 DEF Record
  <2>4. \A a \in Account \ (members \cup stale') : balances'[a][FMP] = 0
    BY <2>1, <2>2 DEF Record, Written
  <2> QED
    BY <2>2, <2>3, <2>4
<1>2. ASSUME NEW a \in Holders, reguser(a)
      PROVE  PointsInv'
  BY <1>2, PointsAssumption DEF reguser, tokenVars, Inv, PointsTypeOK
<1>3. CASE startsync \/ endsync \/ Tick \/ \E c \in Coin : earn(c)
  BY <1>3 DEF startsync, endsync, Tick, earn, tokenVars
<1> QED
  BY <1>1, <1>2, <1>3 DEF PointsNext

\* The point column tells a user's balance, unless his last move fell into a
\* sync or came before he registered: there is no third way to lose it.
THEOREM PointsFollow == PointsSpec => []PointsFollowBalances
<1>1. PointsInit => PointsInv
  BY TokenAssumption DEF PointsInit, PointsInv
<1>2. Inv /\ PointsInv /\ [PointsNext]_pointVars => PointsInv'
  <2>1. PointsInv /\ UNCHANGED pointVars => PointsInv'
    BY DEF PointsInv, pointVars, tokenVars
  <2> QED
    BY <2>1, FollowStep
<1>3. PointsInv => PointsFollowBalances
  BY DEF PointsInv, PointsFollowBalances
<1> QED
  BY <1>1, <1>2, <1>3, InvHolds, PTL DEF PointsSpec

-----------------------------------------------------------------------------
(* Supply and dividends. *)

\* Points that move change supply and circulation alike.
LEMMA MoveGap ==
  ASSUME Inv, movePoints
  PROVE  SameGap
<1>1. TokenTypeOK /\ FMP \in Symbol
  BY TokenAssumption DEF Inv, TokenInv
<1> QED
  BY <1>1, IssueGap, ClaimGap, RetireGap, TransferGap DEF movePoints

\* Every step keeps the supply what the accounts hold.
LEMMA BalancesStep ==
  ASSUME Inv, SupplyIsBalances, PointsNext
  PROVE  SupplyIsBalances'
<1>0. \A s \in Symbol : Circulation(s) \in Int /\ stats[s].supply \in Int
  BY NatBalances, HeldType, HeldCirculates DEF Inv, TokenInv, TokenTypeOK, StatRow
<1>1. CASE movePoints
  <2> SUFFICES ASSUME NEW s \in Symbol
               PROVE  stats'[s].supply = Circulation(s)'
    BY DEF SupplyIsBalances
  <2>1. Circulation(s)' - stats'[s].supply = Circulation(s) - stats[s].supply
    BY <1>1, MoveGap DEF SameGap
  <2>2. Circulation(s)' \in Int /\ stats'[s].supply \in Int
    <3>1. TokenTypeOK'
      BY <1>1, MoveInv DEF TokenInv
    <3>2. balances' \in BalanceRows
      BY <3>1 DEF TokenTypeOK, BalanceRows
    <3>3. Circulation(s)' = Held(balances', s)
      BY HeldCirculates
    <3>4. Circulation(s)' \in Int
      BY <3>2, <3>3, HeldType
    <3>5. stats'[s].supply \in Int
      BY <3>1 DEF TokenTypeOK, StatRow
    <3> QED
      BY <3>4, <3>5
  <2>3. stats[s].supply = Circulation(s)
    BY DEF SupplyIsBalances
  <2> QED
    BY <1>0, <2>1, <2>2, <2>3
<1>2. CASE \/ \E a \in Holders : reguser(a)
           \/ \E c \in Coin : earn(c)
           \/ startsync \/ endsync \/ Tick
  <2>1. UNCHANGED <<stats, balances>>
    BY <1>2 DEF reguser, earn, startsync, endsync, Tick, tokenVars
  <2> QED
    BY <2>1 DEF SupplyIsBalances, Circulation
<1> QED
  BY <1>1, <1>2 DEF PointsNext

\* A token that has just been created circulates nowhere.
LEMMA BalancesInit == PointsInit => SupplyIsBalances
<1> SUFFICES ASSUME PointsInit, NEW s \in Symbol
             PROVE  stats[s].supply = Circulation(s)
  BY DEF SupplyIsBalances
<1>1. stats[s].supply = 0
  BY DEF PointsInit, NewStat, NoStat
<1> DEFINE f == [a \in Account |-> balances[a][s]]
<1>2. Circulation(s) = SumFunctionOnSet(f, Account)
  BY DEF Circulation, SumFunction
<1>3. \A a \in Account : f[a] = 0
  BY DEF PointsInit
<1> HIDE DEF f
<1>4. SumFunctionOnSet(f, Account) = 0
  BY <1>3, TokenAssumption, SumZero
<1> QED
  BY <1>1, <1>2, <1>4

\* Every point there is has been issued or claimed and not retired, and is
\* somebody's: no order of issues, claims, transfers and retirements loses or
\* makes one.
THEOREM SupplyIsSomebodys == PointsSpec => []SupplyIsBalances
<1>1. Inv /\ SupplyIsBalances /\ [PointsNext]_pointVars => SupplyIsBalances'
  <2>1. SupplyIsBalances /\ UNCHANGED pointVars => SupplyIsBalances'
    BY DEF SupplyIsBalances, Circulation, pointVars, tokenVars
  <2> QED
    BY <2>1, BalancesStep
<1> QED
  BY <1>1, BalancesInit, InvHolds, PTL DEF PointsSpec

\* During a sync nobody's claim changes: moves are not recorded, and who comes
\* new claims nothing.
LEMMA ClaimsKept ==
  ASSUME Inv, PointsNext, sync_data
  PROVE  Claims' = Claims
<1>0. /\ members \subseteq Account /\ point \in [Account -> Nat] /\ IsFiniteSet(members)
  BY TokenAssumption, FS_Subset DEF Inv, PointsTypeOK
<1>1. CASE movePoints
  <2>1. PICK touched \in SUBSET Account : Record(touched)
    BY <1>1, MoveInv DEF Moved
  <2>2. point' = point /\ members' = members
    BY <1>0, <1>1, <2>1 DEF Record, Written, movePoints
  <2> QED
    BY <2>2 DEF Claims
<1>2. ASSUME NEW a \in Holders, reguser(a)
      PROVE  Claims' = Claims
  <2>1. /\ a \in Account /\ a \notin members /\ members' = members \cup {a}
        /\ point' \in [Account -> Nat] /\ point'[a] = 0
        /\ \A b \in members : point'[b] = point[b]
    BY <1>0, <1>2, PointsAssumption DEF reguser
  <2>2. \A b \in members \cup {a} : point'[b] \in Int
    BY <1>0, <2>1
  <2>3. SumFunctionOnSet(point', members \cup {a}) = 0 + SumFunctionOnSet(point', members)
    BY <1>0, <2>1, <2>2, SumAdd
  <2>4. SumFunctionOnSet(point, members) = SumFunctionOnSet(point', members)
    BY <1>0, <2>1, SumSame
  <2>5. SumFunctionOnSet(point', members) \in Int
    BY <1>0, <2>2, SumInt
  <2> QED
    BY <2>1, <2>3, <2>4, <2>5 DEF Claims
<1>3. CASE startsync \/ endsync \/ Tick \/ \E c \in Coin : earn(c)
  BY <1>3 DEF startsync, endsync, Tick, earn, Claims
<1> QED
  BY <1>1, <1>2, <1>3 DEF PointsNext

\* A whole number of units for each of u points, k of which claim theirs.
LEMMA WholeUnits ==
  ASSUME NEW n \in Nat, NEW u \in Nat \ {0}, NEW k \in Nat, k <= u
  PROVE  LET w == (n \div u) * u
         IN  w % u = 0 /\ (w \div u) * k <= w
<1> DEFINE q == n \div u
<1>1. q \in Nat
  OBVIOUS
<1> HIDE DEF q
<1>2. (q * u) % u = 0 /\ (q * u) \div u = q
  BY <1>1
<1>3. q * k <= q * u
  BY <1>1
<1> QED
  BY <1>2, <1>3 DEF q

\* No more points claim than there are.
LEMMA ClaimsAtMost ==
  ASSUME Inv, SupplyIsBalances, \A a \in members : point[a] <= balances[a][FMP]
  PROVE  Claims \in Nat /\ Claims <= stats[FMP].supply
<1> DEFINE f == [a \in Account |-> balances[a][FMP]]
<1>0. /\ members \in SUBSET Account /\ point \in [Account -> Nat] /\ FMP \in Symbol
      /\ IsFiniteSet(members) /\ IsFiniteSet(Account)
      /\ \A a \in Account : f[a] \in Nat
  BY TokenAssumption, FS_Subset DEF Inv, PointsTypeOK, TokenTypeOK
<1>1. stats[FMP].supply = SumFunctionOnSet(f, Account)
  BY <1>0 DEF SupplyIsBalances, Circulation, SumFunction
<1>2. \A a \in members : point[a] <= f[a]
  BY <1>0
<1> HIDE DEF f
<1>3. SumFunctionOnSet(point, members) <= SumFunctionOnSet(f, Account)
  BY <1>0, <1>2, SumAtMost
<1>4. SumFunctionOnSet(point, members) \in Nat
  BY <1>0, SumNat
<1> QED
  BY <1>1, <1>3, <1>4 DEF Claims

\* A sync sets aside what its members can claim, and no claim grows in it.
LEMMA CoverStep ==
  ASSUME Inv, SupplyIsBalances, DividendIsCovered, PointsNext
  PROVE  DividendIsCovered'
<1> SUFFICES ASSUME sync_data', fresh', NEW c \in Coin, last_income'[c] > 0
             PROVE  /\ last_supply' > 0 /\ last_income'[c] % last_supply' = 0
                    /\ (last_income'[c] \div last_supply') * Claims' <= last_income'[c]
  BY DEF DividendIsCovered
<1>1. CASE startsync
  <2> DEFINE n == income[c]
             u == stats[FMP].supply
             k == Claims
  <2>0. n \in Nat /\ u \in Int
    BY TokenAssumption DEF Inv, PointsTypeOK, TokenTypeOK, StatRow
  <2>1. last_income'[c] = SetAside(c)
    BY <1>1 DEF startsync
  <2>2. u > 0
    BY <2>0, <2>1 DEF SetAside
  <2>3. last_income'[c] = (n \div u) * u /\ last_supply' = u
    BY <1>1, <2>1, <2>2 DEF startsync, SetAside
  <2>4. k \in Nat /\ k <= u
    BY <1>1, ClaimsAtMost DEF startsync
  <2>5. Claims' = k
    BY <1>1 DEF startsync, Claims
  <2> HIDE DEF n, u, k
  <2>6. ((n \div u) * u) % u = 0 /\ (((n \div u) * u) \div u) * k <= (n \div u) * u
    BY <2>0, <2>2, <2>4, WholeUnits
  <2> QED
    BY <2>2, <2>3, <2>5, <2>6
<1>2. CASE ~startsync
  <2>1. sync_data /\ fresh /\ UNCHANGED <<last_income, last_supply>>
    BY <1>2 DEF PointsNext, movePoints, reguser, earn, endsync, Tick, globalVars
  <2>2. Claims' = Claims
    BY <2>1, ClaimsKept
  <2> QED
    BY <2>1, <2>2 DEF DividendIsCovered
<1> QED
  BY <1>1, <1>2

\* What the points claim during a sync is covered by what was set aside for it
\* when it started, whoever moves points, registers or earns meanwhile.
THEOREM DividendsAreCovered == PointsSpec => []DividendIsCovered
<1>1. PointsInit => DividendIsCovered
  BY DEF PointsInit, DividendIsCovered
<1>2. Inv /\ SupplyIsBalances /\ DividendIsCovered /\ [PointsNext]_pointVars
        => DividendIsCovered'
  <2>1. DividendIsCovered /\ UNCHANGED pointVars => DividendIsCovered'
    BY DEF DividendIsCovered, Claims, pointVars, globalVars
  <2> QED
    BY <2>1, CoverStep
<1> QED
  BY <1>1, <1>2, InvHolds, SupplyIsSomebodys, PTL DEF PointsSpec
=============================================================================
