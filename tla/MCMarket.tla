------------------------------ MODULE MCMarket ------------------------------
(* Values for model-checking Market: s sells, b1 buys, b2 buys, reviews     *)
(* products and sits on cases.                                             *)
EXTENDS Market, TLC

CONSTANTS s, b1, b2

MCUid == {s, b1, b2}
MCReviewers == {b2}
SellerReviews == {s, b2}
BaseCredit == [u \in MCUid |-> 500]
MCReferrer == [u \in MCUid |-> IF u = b1 THEN s ELSE NoUid]
Offered(coin) ==
  [uid |-> s, coin |-> coin, price |-> 100, postage |-> 20, is_returns |-> TRUE]
Native == {Offered("BOS")}
Own    == {Offered("NULS")}
Bridged == {Offered("USDT")}
\* USDT and NULS have four decimals more than FMP.
MCScale == [c \in Coin |-> [up |-> 1, down |-> IF c = "BOS" THEN 1 ELSE 10000]]
MCIssued == [l \in Ledger |->
   CASE l = "eosio.token" -> {"BOS"}
     [] l = "bosibc.io" -> {"USDT"}
     [] l = "_self" -> {"USDT", "NULS"}]
BuyerSues == {<<b1, s>>}
\* The oid of b1's first order, which anyone can compute beforehand.
FirstOrder == {<<b1, 1, 0>>}
=============================================================================
