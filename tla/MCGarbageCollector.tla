------------------------- MODULE MCGarbageCollector -------------------------
(* GarbageCollector for TLC: identifiers are interchangeable model values. *)
EXTENDS GarbageCollector, TLC

Interchangeable == Permutations(ClusterIDs) \cup Permutations(EipIDs)
=============================================================================
