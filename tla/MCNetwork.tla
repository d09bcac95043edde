----------------------------- MODULE MCNetwork -----------------------------
(* Network for TLC: identifiers are interchangeable model values.          *)
EXTENDS Network, TLC

Interchangeable == Permutations(IDs)

\* The cloud hands out the identifiers of a kind in one order.  Nothing tells them
\* apart, so every behaviour is one of these up to their names, kind by kind; a
\* symmetry set would say so too, but not soundly for liveness.
Earliest == CHOOSE i \in IDs : TRUE
InOrder ==
  \A k \in Kinds, i \in IDs :
    cloud'[k][i].state # "unborn" => cloud'[k][Earliest].state # "unborn"
=============================================================================
