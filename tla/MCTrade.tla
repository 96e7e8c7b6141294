------------------------------ MODULE MCTrade -------------------------------
(* Values for model-checking Trade: s sells, b1 and b2 buy and review. *)
EXTENDS Trade, TLC

CONSTANTS s, b1, b2

MCUid == {s, b1, b2}
MCReviewers == {b1, b2}
BaseCredit == [u \in MCUid |-> 500]
\* The seller brought in both buyers.
MCReferrer == [u \in MCUid |-> IF u = s THEN NoUid ELSE s]
Buyers == Permutations({b1, b2})

Offered(coin, postage, is_returns) ==
  [uid |-> s, coin |-> coin, price |-> 100, postage |-> postage,
   is_returns |-> is_returns]
Native   == {Offered("BOS", 20, TRUE)}
Traded   == {Offered("BOS", 20, TRUE), Offered("NULS", 20, FALSE)}
PickedUp == {Offered("BOS", 0, TRUE)}

\* USDT and NULS have four decimals more than FMP.
MCScale == [c \in {"BOS", "EOS", "USDT", "NULS"} |->
  [up |-> 1, down |-> IF c \in {"USDT", "NULS"} THEN 10000 ELSE 1]]
\* init creates NULS and USDT on the contract; eosio.token and bosibc.io are
\* other contracts.
MCIssued == [l \in Ledger |->
   CASE l = "eosio.token" -> {"BOS"}
     [] l = "bosibc.io" -> {"EOS", "USDT"}
     [] l = "_self" -> {"USDT", "NULS"}]
=============================================================================
