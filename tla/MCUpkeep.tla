------------------------------ MODULE MCUpkeep ------------------------------
(* Upkeep for TLC.                                                         *)
EXTENDS Upkeep
=============================================================================
