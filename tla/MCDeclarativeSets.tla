------------------------- MODULE MCDeclarativeSets -------------------------
(* DeclarativeSets for TLC.                                                *)
EXTENDS DeclarativeSets
=============================================================================
