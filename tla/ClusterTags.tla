---------------------------- MODULE ClusterTags ----------------------------
(***************************************************************************)
(* The tags of a CCE cluster: what the provider wants there and the writes *)
(* that lead from what is there to it.  A tag is absent, as declared, or   *)
(* drifted (another value); declared tags are named by their keys.         *)
(***************************************************************************)
EXTENDS Naturals, FiniteSets

CONSTANTS
  UserKeys,          \* keys users and the console may choose
  MaxResourceTags    \* tags the platform takes on one resource

ASSUME CapAssumption == MaxResourceTags \in Nat /\ MaxResourceTags >= 2

\* The owned key and RoleTagKey, which the provider always writes.
Reserved == {"owned", "role"}
Keys == UserKeys \cup Reserved
TagValue == {"absent", "declared", "drifted"}

\* The provider's two tags come on top of the users'.
MaxAdditionalTags == MaxResourceTags - 2

\* Tags.Validate as the control plane's webhook applies it: what it says of
\* characters and lengths is settled by the choice of the keys.
TagsValid(want) == Cardinality(want) <= MaxAdditionalTags

\* toClusterTags: the reserved tags win over a user's of the same key.
toClusterTags(want) == Reserved \cup want

Present(cur) == {k \in Keys : cur[k] # "absent"}

\* clusterTagsDiff and the filter of planClusterTags: reserved keys are never
\* deleted, drifted ones are written again.
TagsToDelete(cur, want) == Present(cur) \ (toClusterTags(want) \cup Reserved)
TagsToCreate(cur, want) == {k \in toClusterTags(want) : cur[k] # "declared"}

Write(to, keys) == [to |-> to, keys |-> keys]

\* (variant) creations before deletions
CreatesFirst(cur, want) ==
  <<Write("declared", TagsToCreate(cur, want)), Write("absent", TagsToDelete(cur, want))>>

\* Deletions come first: they free the slots that the creations take.
planClusterTags(cur, want) ==
  <<Write("absent", TagsToDelete(cur, want)), Write("declared", TagsToCreate(cur, want))>>

\* The two batch calls, and the platform's limit on the second (external).
Written(cur, w) == [k \in Keys |-> IF k \in w.keys THEN w.to ELSE cur[k]]
Accepts(cur, w) == w.to = "declared" => Cardinality(Present(cur) \cup w.keys) <= MaxResourceTags

AsDeclared(cur, want) ==
  \A k \in Keys : cur[k] = IF k \in toClusterTags(want) THEN "declared" ELSE "absent"
=============================================================================
