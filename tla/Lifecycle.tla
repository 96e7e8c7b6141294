------------------------------ MODULE Lifecycle -----------------------------
(***************************************************************************)
(* The contract as its operators run it: init fills the pools and lists    *)
(* the first coins, updatecoin adds and changes coins, reset clears most   *)
(* tables and cleanscope the balances of an account, with registrations,   *)
(* deposits and withdrawals under way.                                     *)
(*                                                                         *)
(* The constructor reads the row of the global table, if there is one, and *)
(* the destructor writes it back at the end of every action: so reset,     *)
(* which removes it, leaves it as it was, and init does nothing for good.  *)
(***************************************************************************)
EXTENDS Withdrawal

CONSTANTS
  InitTokens,   \* symbols init creates a token of and lists
  InitMax,      \* their maximum supplies
  InitFee,      \* their fees
  TeamShare,    \* the team's share of the points in percent (35)
  Pool,         \* what init fills the three pools with
  ClearMax,     \* rows clear_table removes at most (500)
  ResetTokens,  \* symbols whose row in stat reset removes
  CoinChanges,  \* inputs of updatecoin
  Customers,    \* accounts that register
  MaxCleanings  \* bound: calls of reset and cleanscope

CoinChange == [sym : Symbol, fee : Int, is_out : BOOLEAN, max : Nat]

ASSUME LifecycleAssumption ==
  /\ InitTokens \subseteq Symbol
  /\ InitMax \in [InitTokens -> Nat \ {0}] /\ InitFee \in [InitTokens -> Nat]
  /\ TeamShare \in 0..100
  /\ Pool \in Nat /\ ClearMax \in Nat /\ MaxCleanings \in Nat
  /\ ResetTokens \subseteq Symbol
  /\ CoinChanges \subseteq CoinChange
  /\ Customers \subseteq Account

VARIABLES
  is_init,      \* the global table has its row
  pools,        \* the pools in it
  cleanings,    \* history: calls of reset and cleanscope
  orphaned      \* history: of each symbol, the balances reset left without supply

lifeVars ==
  <<stats, balances, day, eosid, coins, otheraddr, othersettle, is_init, pools,
    cleanings, orphaned>>
settleVars == <<eosid, coins, otheraddr, othersettle>>
globalVars == <<is_init, pools, cleanings>>

LifecycleTypeOK ==
  /\ WithdrawalTypeOK
  /\ is_init \in BOOLEAN
  /\ pools \in Nat /\ cleanings \in 0..MaxCleanings
  /\ orphaned \in [Symbol -> Int]

LifecycleInit ==
  /\ stats = [s \in Symbol |-> NoStat]
  /\ balances = [a \in Account |-> [s \in Symbol |-> 0]]
  /\ day = 0
  /\ eosid = [u \in Uid |-> NoAccount]
  /\ coins = [s \in Symbol |-> NoCoin]
  /\ otheraddr = [a \in AddrId |-> NoRow]
  /\ othersettle = [i \in SettleId |-> NoSettle]
  /\ is_init = FALSE
  /\ pools = 0 /\ cleanings = 0
  /\ orphaned = [s \in Symbol |-> 0]

-----------------------------------------------------------------------------
(* The operators of the platform. *)

ListInitCoins ==
  coins' = [s \in Symbol |->
              IF s \in InitTokens
              THEN [listed |-> TRUE, fee |-> InitFee[s], is_out |-> s # FMP]
              ELSE coins[s]]

\* A coin that updatecoin has listed or a token that was created before makes
\* it fail; once it has succeeded it does nothing.
init ==
  /\ ~is_init
  /\ \A s \in InitTokens : ~coins[s].listed /\ ~Exists(s)
  /\ ListInitCoins
  /\ stats' = [s \in Symbol |->
                 IF s \in InitTokens
                 THEN NewStat(Self, InitMax[s], IF s = FMP THEN TeamShare ELSE 0)
                 ELSE stats[s]]
  /\ is_init' = TRUE
  /\ pools' = Pool
  /\ UNCHANGED <<balances, day, eosid, otheraddr, othersettle, cleanings, orphaned>>

IsCleaning == cleanings < MaxCleanings /\ cleanings' = cleanings + 1

\* clear_table removes the rows with the lowest keys.
Cleared(rows) == {k \in rows : Cardinality({j \in rows : j <= k}) <= ClearMax}

Listed == {s \in Symbol : coins[s].listed}

\* The same for coins, whose keys are symbol codes: which of them come first
\* is left open.
ClearCoins ==
  \E gone \in SUBSET Listed :
    /\ Cardinality(gone) <= ClearMax
    /\ gone = Listed \/ Cardinality(gone) = ClearMax
    /\ coins' = [s \in Symbol |-> IF s \in gone THEN NoCoin ELSE coins[s]]

\* Balances and open withdrawals are left as they are, and the destructor
\* writes back the global row.
reset ==
  /\ eosid' = [u \in Uid |-> IF u \in Cleared(Users) THEN NoAccount ELSE eosid[u]]
  /\ otheraddr' = [a \in AddrId |-> IF a \in Cleared(Bound) THEN NoRow ELSE otheraddr[a]]
  /\ ClearCoins
  /\ stats' = [s \in Symbol |-> IF s \in ResetTokens THEN NoStat ELSE stats[s]]
  /\ orphaned' = [s \in Symbol |->
                    IF s \in ResetTokens THEN orphaned[s] + stats[s].supply ELSE orphaned[s]]
  /\ IsCleaning
  /\ UNCHANGED <<balances, day, othersettle, is_init, pools>>

cleanscope(a) ==
  /\ balances' = [balances EXCEPT ![a] = [s \in Symbol |-> 0]]
  /\ orphaned' = [s \in Symbol |-> orphaned[s] - balances[a][s]]
  /\ IsCleaning
  /\ UNCHANGED <<stats, day, settleVars, is_init, pools>>

\* A coin that is new needs a token that is new.
updatecoin(c) ==
  /\ coins' = [coins EXCEPT ![c.sym] = [listed |-> TRUE, fee |-> c.fee, is_out |-> c.is_out]]
  /\ IF coins[c.sym].listed THEN UNCHANGED <<stats, balances>> ELSE create(Self, c.sym, c.max, 0)
  /\ UNCHANGED <<day, eosid, otheraddr, othersettle, globalVars, orphaned>>

reguser(u, account) ==
  /\ IsNextId(u, Users, 1)
  /\ \A v \in Users : eosid[v] # account
  /\ eosid' = [eosid EXCEPT ![u] = account]
  /\ UNCHANGED <<stats, balances, day, coins, otheraddr, othersettle, globalVars, orphaned>>

\* Issues, retirements and transfers with a memo nobody acts on.
moveTokens ==
  /\ \E s \in Symbol, q \in Quantity :
       \/ \E to \in Account : issue(to, s, q)
       \/ retire(s, q)
       \/ \E from, to \in Account : transfer(from, to, s, q)
  /\ UNCHANGED <<day, settleVars, globalVars, orphaned>>

settleStep ==
  /\ \/ \E u \in Uid, s \in Symbol, addr \in Addr :
          bindaddr(u, s, addr) /\ UNCHANGED <<stats, balances>>
     \/ \E from, payer \in Account, s \in Symbol, q \in Quantity : withdraw(from, payer, s, q)
     \/ \E i \in SettleId : closesettle(i)
  /\ UNCHANGED <<day, globalVars, orphaned>>

LifecycleNext ==
  \/ init \/ reset
  \/ \E a \in Account : cleanscope(a)
  \/ \E c \in CoinChanges : updatecoin(c)
  \/ \E u \in Uid, account \in Customers : reguser(u, account)
  \/ moveTokens \/ settleStep

LifecycleSpec == LifecycleInit /\ [][LifecycleNext]_lifeVars

-----------------------------------------------------------------------------
(* Properties. *)

\* What is in circulation is the supply and what resets have left behind, so
\* a withdrawal neither makes nor burns a token, whatever the fee.
LedgerIsExact ==
  \A s \in Symbol : Circulation(s) = stats[s].supply + orphaned[s]
=============================================================================
