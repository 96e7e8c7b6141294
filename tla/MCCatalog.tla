----------------------------- MODULE MCCatalog ------------------------------
(* Values for model-checking Catalog: u1 and u2 sell, r1 and r2 review. *)
EXTENDS Catalog, TLC

CONSTANTS u1, u2, r1

MCUid == {u1, u2, r1}
MCOffers ==
  [uid : {u1, u2}, coin : {"BOS"}, price : {20}, postage : {1}, is_returns : {TRUE}]
MCReferrer == [u \in MCUid |-> NoUid]
MCReviewers == {u2, r1}
\* The score reguser gives.
BaseCredit == [u \in MCUid |-> 500]
=============================================================================
