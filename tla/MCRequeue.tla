----------------------------- MODULE MCRequeue -----------------------------
(* Requeue for TLC: controllers are model values.                          *)
EXTENDS Requeue, TLC
=============================================================================
