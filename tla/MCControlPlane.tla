--------------------------- MODULE MCControlPlane ---------------------------
(* ControlPlane for TLC: identifiers are interchangeable model values.     *)
EXTENDS ControlPlane, TLC

Interchangeable == Permutations(ClusterIDs) \cup Permutations(EipIDs)
=============================================================================
