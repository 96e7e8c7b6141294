---------------------------- MODULE MCLifecycle -----------------------------
(***************************************************************************)
(* Two users, the gateway's account one of them, who may both bind an      *)
(* address for a coin of another chain.  Lifecycle has one such coin,      *)
(* whose fee may go and which may be closed, and a reset or a cleanscope   *)
(* on the way.  ForeignAddress has a second coin, and no fees.             *)
(***************************************************************************)
EXTENDS Lifecycle, TLC

CONSTANTS a, b

PointsAndBts   == {"FMP", "BTS"}
PointsAndCoins == {"FMP", "BTS", "LTC"}
Maxima       == [s \in PointsAndBts |-> IF s = "FMP" THEN 1 ELSE 2]
Fees         == [s \in PointsAndBts |-> IF s = "FMP" THEN 0 ELSE 1]
BtsChanges   == {[sym |-> "BTS", fee |-> 0, is_out |-> TRUE, max |-> 1],
                 [sym |-> "BTS", fee |-> 1, is_out |-> FALSE, max |-> 1]}
NoFees       == [s \in PointsAndBts |-> 0]
LtcOut       == {[sym |-> "LTC", fee |-> 0, is_out |-> TRUE, max |-> 1]}
AddrSymmetry == Permutations({a, b})
=============================================================================
