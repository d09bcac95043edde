--------------------------- MODULE MCMachinePool ---------------------------
(* MachinePool for TLC: identifiers and attribute values are interchangeable. *)
EXTENDS MachinePool, TLC

Interchangeable == Permutations(PoolIDs) \cup Permutations(Clusters) \cup Permutations(Attrs)
=============================================================================
