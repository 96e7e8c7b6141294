-------------------------------- MODULE Fees --------------------------------
(***************************************************************************)
(* The arithmetic of the marketplace: how the price of a completed order   *)
(* is split between seller, devops account, referrer and platform, and how *)
(* many points a completed order earns.  Amounts are integers in the       *)
(* smallest unit of their coin, as in eosio::asset.  The ratios of the     *)
(* global table are doubles in the code; here they are rationals over      *)
(* RateDen, and a product truncated by int64_t(..) is a floor.  setcfg     *)
(* bounds a ratio from below only.                                         *)
(***************************************************************************)
EXTENDS Integers

CONSTANTS
  RateDen,      \* common denominator of the ratios below
  FeeNum,       \* _global.fee_ratio             (0.05)
  DevopsNum,    \* _global.devops_rate           (0.2)
  CommNum,      \* _global.ref_commission_rate   (0.05)
  GiftNum       \* _global.transaction_gift_rate (0.05)

ASSUME RatesAssumption ==
  /\ RateDen \in Nat \ {0}
  /\ {FeeNum, DevopsNum, CommNum, GiftNum} \subseteq Nat

\* No share is more than what it is a share of.  The code does not ask for it:
\* it is assumed of whoever signs setcfg, by the modules that name it.
RatesCapped == FeeNum <= RateDen /\ DevopsNum <= RateDen /\ CommNum <= RateDen

Share(total, num) == (total * num) \div RateDen

\* Mutated: the commission is not taken from the platform's income.
SplitUnbalanced(total, referred) ==
  LET fee    == Share(total, FeeNum)
      devops == Share(fee, DevopsNum)
  IN  [seller   |-> total - fee,
       devops   |-> devops,
       referrer |-> IF referred THEN Share(fee - devops, CommNum) ELSE 0,
       income   |-> fee - devops]

\* The seller gets what the fee leaves, devops a share of the fee, and an
\* unlocked referrer a share of what is left of the fee after devops.
Split(total, referred) ==
  LET fee    == Share(total, FeeNum)
      devops == Share(fee, DevopsNum)
      comm   == IF referred THEN Share(fee - devops, CommNum) ELSE 0
  IN  [seller   |-> total - fee,
       devops   |-> devops,
       referrer |-> comm,
       income   |-> fee - devops - comm]

\* The points each party of an order may get.  The gift is truncated in the
\* coin's precision and then rescaled to that of the points: up or down by a
\* power of ten, the other factor being 1.
GiftPoints(price, scale) ==
  LET val == (price * FeeNum * GiftNum) \div (RateDen * RateDen)
  IN  (val * scale.up) \div scale.down
=============================================================================
