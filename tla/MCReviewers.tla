---------------------------- MODULE MCReviewers -----------------------------
(***************************************************************************)
(* Three users register; the first two may have a dispute with each other. *)
(***************************************************************************)
EXTENDS Reviewers

AllUids      == 1..3
OneUnit      == [u \in AllUids |-> 2]
Nobody       == [u \in AllUids |-> 0]
NoReviewer   == {}
TheOffer     == {[uid |-> 2, coin |-> "BOS", price |-> 2, postage |-> 1,
                  is_returns |-> TRUE]}
TheParties   == {<<1, 2>>}
ByOne        == [c \in {"BOS"} |-> [up |-> 1, down |-> 1]]
BosAtToken   == [l \in Ledger |-> IF l = "eosio.token" THEN {"BOS"} ELSE {}]
=============================================================================
