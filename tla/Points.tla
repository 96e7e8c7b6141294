------------------------------- MODULE Points -------------------------------
(***************************************************************************)
(* Dividends.  The point column of a user follows his balance of points,   *)
(* and startsync freezes it while a service outside the chain reads who    *)
(* gets what of last_income.  Nothing that moves during a sync is caught   *)
(* up with by endsync.                                                     *)
(***************************************************************************)
EXTENDS Token

CONSTANTS
  Coin,         \* symbols of the income
  MaxDay,       \* bound: days
  MaxIncome,    \* bound: income of one coin
  Holders,      \* accounts that may register
  MaxSupply,    \* maximum supply of the points
  TeamShare,    \* the team's share in percent (35)
  DividendInterval  \* _global.dividend_interval, in days

ASSUME PointsAssumption ==
  /\ Holders \subseteq Account
  /\ MaxSupply \in Nat \ {0} /\ TeamShare \in 0..100
  /\ DividendInterval \in Nat

VARIABLES
  members,      \* accounts with a row in the users table
  point,        \* User.point, 0 for who has no row
  sync_data,    \* _global.sync_data
  income,       \* _global.income
  last_income,  \* _global.last_income
  last_supply,  \* _global.dividend_last_supply
  last_time,    \* _global.dividend_last_time, in days
  stale,        \* history: accounts whose last move the point column missed
  fresh         \* history: no point was above its balance when the sync started

globalVars == <<sync_data, income, last_income, last_supply, last_time>>
tokenVars  == <<stats, balances>>
pointVars  == <<tokenVars, day, members, point, globalVars, stale, fresh>>

PointsTypeOK ==
  /\ TokenTypeOK
  /\ members \subseteq Account
  /\ point \in [Account -> Nat]
  /\ sync_data \in BOOLEAN
  /\ income \in [Coin -> Nat] /\ last_income \in [Coin -> Nat]
  /\ last_supply \in Nat
  /\ last_time \in Int /\ last_time <= day
  /\ stale \subseteq Account /\ fresh \in BOOLEAN

\* dividend_last_time starts at the epoch: the first sync need not wait.
PointsInit ==
  /\ stats = [s \in Symbol |-> IF s = FMP THEN NewStat(Self, MaxSupply, TeamShare) ELSE NoStat]
  /\ balances = [a \in Account |-> [s \in Symbol |-> 0]]
  /\ day = 0
  /\ members = {}
  /\ point = [a \in Account |-> 0]
  /\ sync_data = FALSE
  /\ income = [c \in Coin |-> 0] /\ last_income = [c \in Coin |-> 0]
  /\ last_supply = 0 /\ last_time = 0 - DividendInterval
  /\ stale = {} /\ fresh = TRUE

-----------------------------------------------------------------------------
(* Moves: sub_balance and add_balance write the point of the accounts they  *)
(* touch.                                                                   *)

\* Mutated: whether or not a sync is under way.
WrittenAlways(touched) == touched \cap members

\* The users whose point a move writes.
Written(touched) == IF sync_data THEN {} ELSE touched \cap members

\* Mutated: reads the balance before the move.
RecordBefore(touched) ==
  /\ point' = [a \in Account |-> IF a \in Written(touched) THEN balances[a][FMP] ELSE point[a]]
  /\ stale' = (stale \ Written(touched)) \cup (touched \ Written(touched))

Record(touched) ==
  /\ point' = [a \in Account |-> IF a \in Written(touched) THEN balances'[a][FMP] ELSE point[a]]
  /\ stale' = (stale \ Written(touched)) \cup (touched \ Written(touched))

movePoints ==
  /\ \/ \E to \in Account, q \in Quantity :
          (issue(to, FMP, q) \/ claim(to, q)) /\ Record({stats[FMP].issuer, to})
     \/ \E q \in Quantity : retire(FMP, q) /\ Record({stats[FMP].issuer})
     \/ \E from, to \in Account, q \in Quantity :
          transfer(from, to, FMP, q) /\ Record({from, to})
  /\ UNCHANGED <<day, members, globalVars, fresh>>

\* A new user starts from no points, whatever he has.
reguser(a) ==
  /\ a \notin members
  /\ members' = members \cup {a}
  /\ point' = [point EXCEPT ![a] = 0]
  /\ UNCHANGED <<tokenVars, day, globalVars, stale, fresh>>

\* Settle books what the platform keeps of an order.
earn(c) ==
  /\ income[c] < MaxIncome
  /\ income' = [income EXCEPT ![c] = @ + 1]
  /\ UNCHANGED <<tokenVars, day, members, point, sync_data, last_income, last_supply,
                 last_time, stale, fresh>>

\* Whole units for every point there is.
SetAside(c) ==
  LET supply == stats[FMP].supply
  IN  IF supply > 0 THEN (income[c] \div supply) * supply ELSE 0

\* Without any supply last_income is emptied all the same.
startsync ==
  /\ ~sync_data
  /\ day - last_time >= DividendInterval
  /\ sync_data' = TRUE
  /\ last_income' = [c \in Coin |-> SetAside(c)]
  /\ income' = [c \in Coin |-> income[c] - SetAside(c)]
  /\ last_supply' = IF stats[FMP].supply > 0 THEN stats[FMP].supply ELSE last_supply
  /\ fresh' = \A a \in members : point[a] <= balances[a][FMP]
  /\ UNCHANGED <<tokenVars, day, members, point, last_time, stale>>

endsync ==
  /\ sync_data
  /\ sync_data' = FALSE
  /\ last_time' = day
  /\ UNCHANGED <<tokenVars, day, members, point, income, last_income, last_supply,
                 stale, fresh>>

Tick ==
  /\ day < MaxDay
  /\ day' = day + 1
  /\ UNCHANGED <<tokenVars, members, point, globalVars, stale, fresh>>

PointsNext ==
  \/ movePoints
  \/ \E a \in Holders : reguser(a)
  \/ \E c \in Coin : earn(c)
  \/ startsync \/ endsync \/ Tick

PointsSpec == PointsInit /\ [][PointsNext]_pointVars

-----------------------------------------------------------------------------
(* Properties. *)

\* A user's point is his balance, unless his last move fell into a sync or
\* came before he registered.
PointsFollowBalances ==
  \A a \in members \ stale : point[a] = balances[a][FMP]

Claims == SumFunctionOnSet(point, members)

\* While the dividends are read the points claim no more than was set aside,
\* whatever moves meanwhile, unless a sync before has left a point too high.
DividendIsCovered ==
  sync_data /\ fresh => \A c \in Coin : last_income[c] > 0 =>
    /\ last_supply > 0 /\ last_income[c] % last_supply = 0
    /\ (last_income[c] \div last_supply) * Claims <= last_income[c]
=============================================================================
