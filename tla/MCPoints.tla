------------------------------ MODULE MCPoints ------------------------------
(***************************************************************************)
(* Two holders besides the contract, and a supply small enough to pass     *)
(* from hand to hand during a sync.                                        *)
(***************************************************************************)
EXTENDS Points

TwoAndSelf == {"bitsfleamain", "player", "player1"}
Two        == {"player", "player1"}
=============================================================================
