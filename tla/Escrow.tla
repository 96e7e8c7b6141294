------------------------------- MODULE Escrow -------------------------------
(***************************************************************************)
(* What the marketplace promises about the money of an order, without      *)
(* products, returns, disputes or keys.  The price and the postage of an   *)
(* order are agreed when it is placed.  Once paid they are held until the  *)
(* order is decided, once: either they go to the seller, less what the     *)
(* platform and its partners keep, or all of it goes back, the price to    *)
(* the buyer.  Deciding sends one payout, which later leaves in a          *)
(* transaction of its own.                                                 *)
(***************************************************************************)
EXTENDS Integers

CONSTANTS
  Order,    \* places for an order; a place is free again when its order goes
  Money,    \* the coins an order may be priced in
  NoDeal    \* the deal of a free place

VARIABLES
  now,      \* the second of the clock
  stage,    \* how far each order is
  deal,     \* what its buyer pays
  owed,     \* the payouts sent and not yet gone
  kept      \* what the platform has earned in each coin

escrowVars == <<now, stage, deal, owed, kept>>

Deal == [coin : Money, price : Nat, postage : Nat]

Payout(kind, i, buyer, others) ==
  [kind |-> kind, order |-> i, at |-> now, coin |-> deal[i].coin,
   buyer |-> buyer, others |-> others]

EscrowInit ==
  /\ now = 0
  /\ stage = [i \in Order |-> "none"]
  /\ deal = [i \in Order |-> NoDeal]
  /\ owed = {}
  /\ kept = [c \in Money |-> 0]

Open(i) ==
  /\ stage[i] = "none"
  /\ stage' = [stage EXCEPT ![i] = "unpaid"]
  /\ deal'[i] \in Deal
  /\ deal' = [deal EXCEPT ![i] = deal'[i]]
  /\ UNCHANGED <<now, owed, kept>>

Fund(i) ==
  /\ stage[i] = "unpaid"
  /\ stage' = [stage EXCEPT ![i] = "funded"]
  /\ UNCHANGED <<now, deal, owed, kept>>

\* Orders nobody has paid, and orders paid back, may go.
Drop(gone) ==
  /\ gone # {} /\ \A i \in gone : stage[i] \in {"unpaid", "refunded"}
  /\ stage' = [i \in Order |-> IF i \in gone THEN "none" ELSE stage[i]]
  /\ deal' = [i \in Order |-> IF i \in gone THEN NoDeal ELSE deal[i]]
  /\ UNCHANGED <<now, owed, kept>>

\* Two payouts of one kind and second cannot be told apart.
Send(p) ==
  /\ \A q \in owed : ~(q.kind = p.kind /\ q.at = p.at)
  /\ owed' = owed \cup {p}

Decide(i, outcome) ==
  /\ stage[i] = "funded"
  /\ stage' = [stage EXCEPT ![i] = outcome]
  /\ UNCHANGED <<now, deal>>

\* The buyer gets nothing; what is not paid out is the platform's.
Settle(i) ==
  /\ Decide(i, "settled")
  /\ \E cut \in 0..(deal[i].price + deal[i].postage) :
       /\ Send(Payout("settle", i, 0, (deal[i].price + deal[i].postage) - cut))
       /\ kept' = [kept EXCEPT ![deal[i].coin] = @ + cut]

Refund(i) ==
  /\ Decide(i, "refunded")
  /\ Send(Payout("refund", i, deal[i].price, deal[i].postage))
  /\ UNCHANGED kept

Leave(p) ==
  /\ owed' = owed \ {p}
  /\ UNCHANGED <<now, stage, deal, kept>>

Tick ==
  /\ now' = now + 1
  /\ UNCHANGED <<stage, deal, owed, kept>>

EscrowNext ==
  \/ \E i \in Order : Open(i) \/ Fund(i) \/ Settle(i) \/ Refund(i)
  \/ \E gone \in SUBSET Order : Drop(gone)
  \/ \E p \in owed : Leave(p)
  \/ Tick

EscrowSpec == EscrowInit /\ [][EscrowNext]_escrowVars
=============================================================================
