------------------------------- MODULE Token --------------------------------
(***************************************************************************)
(* The contract's own tokens: the stat table and the accounts tables, and  *)
(* the actions that mint, burn and move: create, issue, claim, retire,     *)
(* transfer.  A row of accounts with nothing on it is the same as none, so *)
(* closetoken, which removes such a row, changes nothing here.             *)
(***************************************************************************)
EXTENDS Integers, FiniteSets, Functions

CONSTANTS
  Account,      \* eosio accounts
  Self,         \* the account of the contract
  Symbol,       \* symbols of the contract's own tokens
  FMP,          \* the points
  MaxQuantity,  \* bound: largest quantity of one action
  TeamUnlock    \* _global.team_unlock_time, in days

ASSUME TokenAssumption ==
  /\ IsFiniteSet(Account)     \* a name has 64 bits
  /\ Self \in Account /\ FMP \in Symbol
  /\ MaxQuantity \in Nat
  /\ TeamUnlock \in Nat \ {0}

VARIABLES
  stats,     \* of each symbol, its row in the stat table
  balances,  \* of each account, what it has of each symbol
  day        \* days since project_start_time

Quantity == 1..MaxQuantity

StatRow ==
  [supply : Int, max_supply : Nat, issuer : Account, team : Nat, team_claim : Nat]
NoStat ==
  [supply |-> 0, max_supply |-> 0, issuer |-> Self, team |-> 0, team_claim |-> 0]

TokenTypeOK ==
  /\ stats \in [Symbol -> StatRow]
  /\ balances \in [Account -> [Symbol -> Nat]]
  /\ day \in Nat

-----------------------------------------------------------------------------
\* A token is created with a positive maximum.
Exists(s) == stats[s].max_supply > 0

NewStat(issuer, max, team) ==
  [supply |-> 0, max_supply |-> max, issuer |-> issuer,
   team |-> (max * team) \div 100, team_claim |-> 0]

\* team is the team's share in percent.
create(issuer, s, max, team) ==
  /\ ~Exists(s)
  /\ max > 0 /\ team \in 0..100
  /\ stats' = [stats EXCEPT ![s] = NewStat(issuer, max, team)]
  /\ UNCHANGED balances

\* Mutated: nothing is taken off.
SubBalanceNot(bs, owner, s, q) == bs

SubBalance(bs, owner, s, q) == [bs EXCEPT ![owner][s] = @ - q]

AddBalance(bs, owner, s, q) == [bs EXCEPT ![owner][s] = @ + q]

\* Mutated: the team's unclaimed share is not kept back.
MintableAll(s) == stats[s].max_supply - stats[s].supply

\* What may still be minted: the team's unclaimed share is kept back.
MintableOf(s) ==
  (stats[s].max_supply - stats[s].supply) - (stats[s].team - stats[s].team_claim)

\* The issuer mints to himself and transfers to who gets it.
issue(to, s, q) ==
  /\ Exists(s)
  /\ q <= MintableOf(s)
  /\ stats' = [stats EXCEPT ![s].supply = @ + q]
  /\ balances' = AddBalance(balances, to, s, q)

\* Mutated: counts the day that has begun.
UnlockedEarly == (stats[FMP].team \div TeamUnlock) * (day + 1)

\* The share of the team unlocks day by day.
Unlocked == (stats[FMP].team \div TeamUnlock) * day

claim(to, q) ==
  /\ Exists(FMP)
  /\ q <= stats[FMP].team - stats[FMP].team_claim
  /\ q <= Unlocked - stats[FMP].team_claim
  /\ stats' = [stats EXCEPT ![FMP].supply = @ + q, ![FMP].team_claim = @ + q]
  /\ balances' = AddBalance(balances, to, FMP, q)

\* Mutated: whatever the issuer has.
retireOverdrawn(s, q) ==
  /\ Exists(s)
  /\ stats' = [stats EXCEPT ![s].supply = @ - q]
  /\ balances' = SubBalance(balances, stats[s].issuer, s, q)

\* The team's share stays reserved, the retired supply can be minted again.
retire(s, q) ==
  /\ Exists(s)
  /\ balances[stats[s].issuer][s] >= q
  /\ stats' = [stats EXCEPT ![s].supply = @ - q]
  /\ balances' = SubBalance(balances, stats[s].issuer, s, q)

\* Without a memo that OnMyTransfer acts on.
transfer(from, to, s, q) ==
  /\ from # to
  /\ Exists(s)
  /\ balances[from][s] >= q
  /\ balances' = AddBalance(SubBalance(balances, from, s, q), to, s, q)
  /\ UNCHANGED stats

-----------------------------------------------------------------------------
(* Properties. *)

Circulation(s) == SumFunction([a \in Account |-> balances[a][s]])

\* Nothing is minted or lost but by issue, claim and retire.
SupplyIsBalances == \A s \in Symbol : stats[s].supply = Circulation(s)

\* Supply and the team's unclaimed share never pass the maximum together,
\* however issues, claims and retirements follow one another.
SupplyWithinMax ==
  \A s \in Symbol :
    stats[s].supply + (stats[s].team - stats[s].team_claim) <= stats[s].max_supply

\* The team never has more than its share, nor more of it than the days that
\* have passed of those it unlocks in.
TeamShareVests ==
  /\ \A s \in Symbol : stats[s].team_claim <= stats[s].team
  /\ stats[FMP].team_claim * TeamUnlock <= stats[FMP].team * day
=============================================================================
