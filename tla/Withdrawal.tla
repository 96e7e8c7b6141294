----------------------------- MODULE Withdrawal -----------------------------
(***************************************************************************)
(* Coins of other chains: the gateway issues a token for what it has       *)
(* received, a transfer to the contract with the memo "w:" hands the token *)
(* back to the gateway and leaves a row in othersettle with the address to *)
(* pay on the other chain, and closesettle marks the row paid.             *)
(***************************************************************************)
EXTENDS Token, Keys

CONSTANTS
  Gateway,      \* _global.gateway
  NoAccount,    \* the account of a uid without a row
  MaxUid,       \* bound: users
  MaxAddrs,     \* bound: rows of otheraddr
  MaxSettles,   \* bound: rows of othersettle
  Addr,         \* addresses on the other chain
  NoAddr,       \* no address
  SettleKeep    \* rows of othersettle above which closesettle removes one (500)

ASSUME WithdrawalAssumption ==
  /\ Gateway \in Account /\ NoAccount \notin Account
  /\ MaxUid \in Nat /\ MaxAddrs \in Nat /\ MaxSettles \in Nat
  /\ NoAddr \notin Addr
  /\ SettleKeep \in Nat

Uid == 1..MaxUid
AddrId == 1..MaxAddrs
SettleId == 1..MaxSettles

VARIABLES
  eosid,        \* the account of each user
  coins,        \* the coins table
  otheraddr,    \* the otheraddr table by id; uid 0 is "no row"
  othersettle   \* the othersettle table by id; status NONE is "no row"

CoinRow == [listed : BOOLEAN, fee : Int, is_out : BOOLEAN]
NoCoin  == [listed |-> FALSE, fee |-> 0, is_out |-> FALSE]

AddrRow == [uid : 0..MaxUid, coin : Symbol, addr : Addr \cup {NoAddr}]
NoRow   == [uid |-> 0, coin |-> FMP, addr |-> NoAddr]

SettleRow ==
  [status : {"NONE", "NORMAL", "PAID"}, uid : 0..MaxUid, coin : Symbol, amount : Nat,
   addr : Addr \cup {NoAddr}]
NoSettle ==
  [status |-> "NONE", uid |-> 0, coin |-> FMP, amount |-> 0, addr |-> NoAddr]

WithdrawalTypeOK ==
  /\ TokenTypeOK
  /\ eosid \in [Uid -> Account \cup {NoAccount}]
  /\ coins \in [Symbol -> CoinRow]
  /\ otheraddr \in [AddrId -> AddrRow]
  /\ othersettle \in [SettleId -> SettleRow]
  /\ \A i \in SettleId : othersettle[i].status # "NONE" => othersettle[i].amount > 0

Users    == {u \in Uid : eosid[u] # NoAccount}
Bound    == {a \in AddrId : otheraddr[a].uid # 0}
Settles  == {i \in SettleId : othersettle[i].status # "NONE"}

-----------------------------------------------------------------------------
(* Addresses. *)

BoundBy(u, s) == {a \in Bound : otheraddr[a].uid = u /\ otheraddr[a].coin = s}

\* A coin a user has bound before gets the new address in the same row.
bindaddr(u, s, addr) ==
  /\ coins[s].listed /\ s # FMP
  /\ u \in Users
  /\ \/ \E a \in BoundBy(u, s) :
          /\ \A b \in BoundBy(u, s) : a <= b
          /\ otheraddr' = [otheraddr EXCEPT ![a].addr = addr]
     \/ /\ BoundBy(u, s) = {}
        /\ \E a \in AddrId :
             /\ IsNextId(a, Bound, 1)
             /\ otheraddr' = [otheraddr EXCEPT ![a] = [uid |-> u, coin |-> s, addr |-> addr]]
  /\ UNCHANGED <<eosid, coins, othersettle>>

\* The order of the byuid index.
Precedes(a, b) ==
  \/ otheraddr[a].uid < otheraddr[b].uid
  \/ otheraddr[a].uid = otheraddr[b].uid /\ a <= b

\* Mutated: the search starts at the first row there is.
SearchedAny(u, s) ==
  {a \in Bound : (\E b \in Bound : otheraddr[b].uid = u) /\ otheraddr[a].coin = s}

\* The search starts at the first row of the user, which has to be there, and
\* goes on through the rows of the users after him.
Searched(u, s) ==
  {a \in Bound : /\ \E b \in Bound : otheraddr[b].uid = u
                 /\ otheraddr[a].uid >= u /\ otheraddr[a].coin = s}

FoundAddr(u, s) == {a \in Searched(u, s) : \A b \in Searched(u, s) : Precedes(a, b)}

-----------------------------------------------------------------------------
(* Withdrawal. *)

NewSettle(u, s, amount, addr) ==
  [status |-> "NORMAL", uid |-> u, coin |-> s, amount |-> amount, addr |-> addr]

\* Mutated: the fee stays with the contract as well.
HandOverNet(bs, s, q) ==
  AddBalance(SubBalance(bs, Self, s, q - coins[s].fee), Gateway, s, q)

\* All of it goes to the gateway, the fee is kept off the row.
HandOver(bs, s, q) == AddBalance(SubBalance(bs, Self, s, q), Gateway, s, q)

\* Mutated: the fee may eat it all up.
EnoughOver(s, q) == q >= coins[s].fee

Enough(s, q) == q > coins[s].fee

\* OnMyTransfer with the memo "w:" or "w:<payer>": whoever sends it, the row
\* is for the user whose account is payer.
withdraw(from, payer, s, q) ==
  /\ from # Self
  /\ Exists(s)
  /\ balances[from][s] >= q
  /\ coins[s].listed /\ s # FMP
  /\ coins[s].is_out /\ Enough(s, q)
  /\ \E u \in Users, i \in SettleId, a \in AddrId :
       /\ eosid[u] = payer
       /\ a \in FoundAddr(u, s)
       /\ IsNextId(i, Settles, 1)
       /\ othersettle' = [othersettle EXCEPT ![i] =
            NewSettle(u, s, q - coins[s].fee, otheraddr[a].addr)]
  /\ balances' = HandOver(AddBalance(SubBalance(balances, from, s, q), Self, s, q), s, q)
  /\ UNCHANGED <<stats, eosid, coins, otheraddr>>

Paid(row) == [row EXCEPT !.status = "PAID"]

\* Mutated: paid or not.
MayPruneAny(table, i) == \A j \in Settles : i <= j

\* Only the first row is looked at.
MayPrune(table, i) == table[i].status = "PAID" /\ \A j \in Settles : i <= j

\* May be called for a row that is paid.  In a long table the first row goes.
closesettle(i) ==
  /\ i \in Settles
  /\ LET closed == [othersettle EXCEPT ![i] = Paid(@)]
     IN  othersettle' =
           [j \in SettleId |->
              IF Cardinality(Settles) > SettleKeep /\ j \in Settles /\ MayPrune(closed, j)
              THEN NoSettle ELSE closed[j]]
  /\ UNCHANGED <<stats, balances, eosid, coins, otheraddr>>

-----------------------------------------------------------------------------
(* Properties. *)

Opened(i) == othersettle[i].status = "NONE" /\ othersettle'[i].status # "NONE"

\* What is asked for stands until it is closed: neither a reset nor the pruning
\* of a long table, nor the closing of another row, loses or changes it.
WithdrawalsStand ==
  [][\A i \in SettleId :
       othersettle[i].status = "NORMAL" /\ othersettle'[i] # othersettle[i]
         => closesettle(i)]_othersettle

ToBoundAddress(i) ==
  \A a \in BoundBy(othersettle'[i].uid, othersettle'[i].coin) :
    othersettle'[i].addr = otheraddr[a].addr

\* A user who has bound an address is paid there, and to the last one bound.
PaidWhereBound ==
  [][\A i \in SettleId : Opened(i) => ToBoundAddress(i)]_othersettle

\* The message of the check in OnMyTransfer: who has bound no address for the
\* coin cannot withdraw it.
BoundBeforeWithdrawn ==
  [][\A i \in SettleId : Opened(i) =>
       BoundBy(othersettle'[i].uid, othersettle'[i].coin) # {}]_othersettle
=============================================================================
