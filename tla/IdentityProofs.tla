--------------------------- MODULE IdentityProofs ---------------------------
(* No pass uses an identity that did not allow the namespace, for every     *)
(* number of passes in flight, failures and edits; and the tag writes of a   *)
(* pass lead to the declared tags within the platform's limit, whatever the  *)
(* keys and the limit.                                                       *)
EXTENDS Identity, FiniteSetTheorems, TLAPS

Steps == {"idle", "identity", "namespace", "keys"} \cup UsingSteps

PassType ==
  /\ pc \in [Actors -> Steps]
  /\ held \in [Actors -> [kind : Kinds \cup {"cluster", "none"}, del : BOOLEAN,
                          allowed : Allowed \cup {"absent"}]]
  /\ DOMAIN seen = Actors
  /\ identity \in [Kinds -> Allowed \cup {"absent"}]

\* A pass that has read its identity holds what the identity was during the
\* pass, ...
ReadDuring(a) ==
  /\ pc[a] = "identity" => held[a].kind \in Kinds
  /\ pc[a] \notin {"idle", "identity"} /\ held[a].kind \in Kinds
       => held[a].allowed \in seen[a].specs

\* ... and one past the check found the namespace allowed by it.
CheckedDuring(a) ==
  pc[a] \in UsingSteps \cup {"keys"} /\ held[a].kind \in Kinds
    => held[a].allowed = "ours" \/ (held[a].allowed = "selector" /\ seen[a].labelled)

IInv == PassType /\ \A a \in Actors : ReadDuring(a) /\ CheckedDuring(a)

-----------------------------------------------------------------------------

\* Nothing is in flight at the start.
LEMMA IInvInit == Init => IInv
  BY DEF Init, IInv, PassType, Steps, NoPass, ReadDuring, CheckedDuring, UsingSteps

\* What a pass has seen stays seen until its end.
LEMMA SeenGrows ==
  ASSUME Sees, NEW a \in Actors, pc'[a] # "idle", held'[a].kind \in Kinds
  PROVE  /\ seen'[a].specs = seen[a].specs \cup {identity'[held'[a].kind]}
         /\ seen'[a].labelled = (seen[a].labelled \/ labelled')
  BY DEF Sees

\* A pass that stays where it is keeps its facts, whatever the others do.
LEMMA Bystander ==
  ASSUME IInv, Sees, NEW a \in Actors, pc'[a] = pc[a], held'[a] = held[a]
  PROVE  ReadDuring(a)' /\ CheckedDuring(a)'
  <1>1. CASE pc[a] = "idle" \/ held[a].kind \notin Kinds
    BY <1>1 DEF IInv, ReadDuring, CheckedDuring, UsingSteps
  <1>2. CASE pc[a] # "idle" /\ held[a].kind \in Kinds
    BY <1>2, SeenGrows DEF IInv, ReadDuring, CheckedDuring, UsingSteps
  <1> QED BY <1>1, <1>2

\* A pass that has failed has no facts to keep, ...
LEMMA Failed ==
  ASSUME IInv, NEW a \in Actors, Fail(a)
  PROVE  /\ pc' \in [Actors -> Steps] /\ held' \in [Actors -> [kind : Kinds \cup {"cluster", "none"},
                                            del : BOOLEAN, allowed : Allowed \cup {"absent"}]]
         /\ ReadDuring(a)' /\ CheckedDuring(a)'
         /\ \A b \in Actors \ {a} : pc'[b] = pc[b] /\ held'[b] = held[b]
  BY DEF IInv, PassType, Fail, NoPass, Steps, ReadDuring, CheckedDuring, UsingSteps

\* ... and one that moves on past the check keeps those it has.
LEMMA MovesOn ==
  ASSUME IInv, Sees, NEW a \in Actors, NEW s \in UsingSteps, pc[a] \in UsingSteps \cup {"keys"},
         pc' = [pc EXCEPT ![a] = s], held' = held
  PROVE  /\ pc' \in [Actors -> Steps]
         /\ ReadDuring(a)' /\ CheckedDuring(a)'
         /\ \A b \in Actors \ {a} : pc'[b] = pc[b]
  <1>1. pc' \in [Actors -> Steps] /\ pc'[a] = s /\ \A b \in Actors \ {a} : pc'[b] = pc[b]
    BY DEF IInv, PassType, Steps
  <1>2. CASE held[a].kind \notin Kinds
    BY <1>1, <1>2 DEF ReadDuring, CheckedDuring, UsingSteps
  <1>3. CASE held[a].kind \in Kinds
    <2>1. ReadDuring(a) /\ CheckedDuring(a)
      BY DEF IInv
    <2>2. pc'[a] # "idle"
      BY <1>1 DEF UsingSteps
    <2> QED BY <1>1, <1>3, <2>1, <2>2, SeenGrows DEF ReadDuring, CheckedDuring, UsingSteps
  <1> QED BY <1>1, <1>2, <1>3

\* Every step of a pass keeps the facts.
LEMMA PassStep ==
  ASSUME IInv, Sees, NEW a \in Actors, Pass(a)
  PROVE  /\ pc' \in [Actors -> Steps] /\ held' \in [Actors -> [kind : Kinds \cup {"cluster", "none"},
                                            del : BOOLEAN, allowed : Allowed \cup {"absent"}]]
         /\ ReadDuring(a)' /\ CheckedDuring(a)'
         /\ \A b \in Actors \ {a} : pc'[b] = pc[b] /\ held'[b] = held[b]
  <1> DEFINE Goal == /\ pc' \in [Actors -> Steps]
                     /\ held' \in [Actors -> [kind : Kinds \cup {"cluster", "none"},
                                              del : BOOLEAN, allowed : Allowed \cup {"absent"}]]
                     /\ ReadDuring(a)' /\ CheckedDuring(a)'
                     /\ \A b \in Actors \ {a} : pc'[b] = pc[b] /\ held'[b] = held[b]
  <1>t. /\ pc \in [Actors -> Steps] /\ held \in [Actors -> [kind : Kinds \cup {"cluster", "none"},
                                                del : BOOLEAN, allowed : Allowed \cup {"absent"}]]
    BY DEF IInv, PassType
  <1>f. Fail(a) => Goal
    BY Failed
  <1>g. ASSUME NEW s \in UsingSteps, pc[a] \in UsingSteps \cup {"keys"}, Goto(a, s) PROVE Goal
    <2>1. pc' = [pc EXCEPT ![a] = s] /\ held' = held
      BY <1>g DEF Goto
    <2> QED BY <1>g, <1>t, <2>1, MovesOn
  <1>u. ASSUME UNCHANGED <<pc, held>> PROVE Goal
    BY <1>u, <1>t, Bystander
  <1>1. CASE Begin(a)
    <2>1. PICK kind \in Kinds \cup {"cluster"} :
            /\ held' = [held EXCEPT ![a] = [kind |-> kind, del |-> stage[a] = "deleting",
                                            allowed |-> "absent"]]
            /\ pc' = [pc EXCEPT ![a] = IF kind = "cluster" THEN "keys" ELSE "identity"]
      BY <1>1 DEF Begin
    <2>2. pc' \in [Actors -> Steps] /\ \A b \in Actors \ {a} : pc'[b] = pc[b] /\ held'[b] = held[b]
      BY <1>t, <2>1 DEF Steps
    <2>3. held' \in [Actors -> [kind : Kinds \cup {"cluster", "none"}, del : BOOLEAN,
                                allowed : Allowed \cup {"absent"}]]
      BY <1>t, <2>1
    <2>4. held'[a].kind = kind /\ pc'[a] = IF kind = "cluster" THEN "keys" ELSE "identity"
      BY <1>t, <2>1
    <2>5. ReadDuring(a)' /\ CheckedDuring(a)'
      BY <2>4 DEF ReadDuring, CheckedDuring, Kinds, UsingSteps
    <2> QED BY <2>2, <2>3, <2>5
  <1>2. CASE GetIdentity(a) /\ ~Fail(a)
    <2>1. /\ pc[a] = "identity" /\ identity' = identity
          /\ held' = [held EXCEPT ![a].allowed = identity[held[a].kind]]
          /\ pc' = [pc EXCEPT ![a] = "namespace"]
      BY <1>2 DEF GetIdentity, setup
    <2>2. held[a].kind \in Kinds /\ identity[held[a].kind] \in Allowed \cup {"absent"}
      BY <2>1 DEF IInv, PassType, ReadDuring
    <2>3. /\ held'[a].kind = held[a].kind /\ held'[a].allowed = identity[held[a].kind]
          /\ pc'[a] = "namespace"
      BY <1>t, <2>1
    <2>4. ReadDuring(a)' /\ CheckedDuring(a)'
      BY <2>1, <2>2, <2>3, SeenGrows DEF ReadDuring, CheckedDuring, UsingSteps
    <2>5. held' \in [Actors -> [kind : Kinds \cup {"cluster", "none"}, del : BOOLEAN,
                                allowed : Allowed \cup {"absent"}]]
      BY <1>t, <2>1, <2>2
    <2> QED BY <1>t, <2>1, <2>4, <2>5 DEF Steps
  <1>3. CASE CheckNamespace(a) /\ ~Fail(a)
    <2>1. /\ pc[a] = "namespace" /\ labelled' = labelled /\ held' = held
          /\ held[a].allowed = "ours" \/ (held[a].allowed = "selector" /\ labelled)
          /\ pc' = [pc EXCEPT ![a] = "keys"]
      BY <1>3 DEF CheckNamespace, checkAllowedNamespace, Goto, setup
    <2>2. ReadDuring(a)
      BY DEF IInv
    <2> QED BY <1>t, <2>1, <2>2, SeenGrows DEF ReadDuring, CheckedDuring, UsingSteps, Steps
  <1>4. CASE ResolveKeys(a) /\ ~Fail(a)
    <2>1. AfterKeys(a) \in UsingSteps
      BY DEF AfterKeys, UsingSteps
    <2> QED BY <1>4, <1>g, <2>1 DEF ResolveKeys
  <1>5. CASE (ListAgencies(a) \/ CreateAgency(a) \/ AssumeAgency(a)) /\ ~Fail(a)
    BY <1>5, <1>g DEF ListAgencies, CreateAgency, AssumeAgency, UsingSteps
  <1>6. CASE Work(a) /\ ~Fail(a)
    <2>1. pc[a] = "act" /\ pc' = [pc EXCEPT ![a] = "tags"] /\ held' = held
      BY <1>6 DEF Work
    <2> QED BY <1>t, <2>1, MovesOn DEF UsingSteps
  <1>7. CASE (Release(a) \/ ReleaseOffhand(a)) /\ ~Fail(a)
    <2>1. UNCHANGED <<pc, held>>
      BY <1>7 DEF Release, ReleaseOffhand, passes
    <2> QED BY <2>1, <1>u
  <1>8. CASE a = "cp" /\ (WriteTags \/ TagsDone) /\ ~Fail(a)
    <2>1. UNCHANGED <<pc, held>>
      BY <1>8 DEF WriteTags, TagsDone
    <2> QED BY <2>1, <1>u
  <1> QED BY <1>f, <1>1, <1>2, <1>3, <1>4, <1>5, <1>6, <1>7, <1>8 DEF Pass

\* Every step preserves the invariant.
LEMMA IInvStep == IInv /\ [Next]_vars => IInv'
  <1> SUFFICES ASSUME IInv, [Next]_vars PROVE IInv' OBVIOUS
  <1>1. CASE UNCHANGED vars
    BY <1>1 DEF vars, setup, passes, IInv, PassType, ReadDuring, CheckedDuring
  <1>2. CASE Next
    <2>1. Sees /\ DOMAIN seen' = Actors
      BY <1>2 DEF Next, Sees
    <2>i. identity' \in [Kinds -> Allowed \cup {"absent"}]
      <3>1. identity \in [Kinds -> Allowed \cup {"absent"}]
        BY DEF IInv, PassType
      <3>2. CASE CreatorCreate
        BY <3>1, <3>2 DEF CreatorCreate, Allowed
      <3>3. CASE Edits
        BY <3>1, <3>3 DEF Edits, EditIdentity, EditRef, EditPolicy, Relabel, EditSecret, EditTags,
             ConsoleAgency, ConsoleTag, setup
      <3>4. CASE CreatorGet \/ ClusterDeletion \/ \E a \in Actors : Pass(a)
        BY <3>1, <3>4 DEF CreatorGet, ClusterDeletion, Pass, Begin, GetIdentity, CheckNamespace,
             ResolveKeys, ListAgencies, CreateAgency, AssumeAgency, Work, Release, ReleaseOffhand,
             WriteTags, TagsDone, setup
      <3> QED BY <1>2, <3>2, <3>3, <3>4 DEF Next
    <2>2. CASE UNCHANGED <<pc, held>>
      BY <2>1, <2>i, <2>2, Bystander DEF IInv, PassType
    <2>3. ASSUME NEW a \in Actors, Pass(a) PROVE IInv'
      <3>1. ReadDuring(a)' /\ CheckedDuring(a)'
        BY <2>1, <2>3, PassStep
      <3>2. \A b \in Actors \ {a} : ReadDuring(b)' /\ CheckedDuring(b)'
        BY <2>1, <2>3, PassStep, Bystander
      <3>3. PassType'
        BY <2>1, <2>i, <2>3, PassStep DEF PassType
      <3> QED BY <3>1, <3>2, <3>3 DEF IInv
    <2> QED BY <1>2, <2>2, <2>3 DEF Next, CreatorGet, CreatorCreate, Edits, ClusterDeletion, passes
  <1> QED BY <1>1, <1>2

\* No pass of a controller uses an identity that did not allow its namespace
\* while the pass ran.
THEOREM PermittedUseAlways == Spec => []PermittedUse
  <1>1. IInv => PermittedUse
    BY DEF IInv, PermittedUse, ReadDuring, CheckedDuring, UsingSteps
  <1> QED BY <1>1, IInvInit, IInvStep, PTL DEF Spec
-----------------------------------------------------------------------------
(* The tags.                                                                *)

\* The deletions leave nothing but declared and reserved keys.
LEMMA AfterDeletions ==
  ASSUME NEW cur \in [Keys -> TagValue], NEW w \in SUBSET Keys
  PROVE  LET left == Written(cur, Write("absent", TagsToDelete(cur, w)))
         IN /\ left \in [Keys -> TagValue]
            /\ Present(left) \subseteq toClusterTags(w)
            /\ \A k \in toClusterTags(w) : left[k] = cur[k]
  <1> DEFINE left == Written(cur, Write("absent", TagsToDelete(cur, w)))
  <1>1. \A k \in Keys : left[k] = IF k \in TagsToDelete(cur, w) THEN "absent" ELSE cur[k]
    BY DEF Written, Write
  <1>2. left \in [Keys -> TagValue]
    BY DEF Written, Write, TagValue
  <1>3. \A k \in Keys : k \in TagsToDelete(cur, w) <=> cur[k] # "absent" /\ k \notin toClusterTags(w)
    BY DEF TagsToDelete, Present, toClusterTags
  <1>4. toClusterTags(w) \subseteq Keys
    BY DEF toClusterTags, Keys
  <1>5. Present(left) \subseteq toClusterTags(w)
    BY <1>1, <1>3 DEF Present
  <1>6. \A k \in toClusterTags(w) : left[k] = cur[k]
    BY <1>1, <1>3, <1>4
  <1> QED BY <1>2, <1>5, <1>6

\* The provider's two tags and the users' fit the platform's limit.
LEMMA DeclaredFit ==
  ASSUME NEW w, IsFiniteSet(w), TagsValid(w)
  PROVE  IsFiniteSet(toClusterTags(w)) /\ Cardinality(toClusterTags(w)) <= MaxResourceTags
  <1>1. IsFiniteSet(Reserved) /\ Cardinality(Reserved) \in Nat /\ Cardinality(Reserved) <= 2
    <2>1. IsFiniteSet({"owned"}) /\ Cardinality({"owned"}) = 1
      BY FS_Singleton
    <2>2. IsFiniteSet({"owned"} \cup {"role"})
      BY <2>1, FS_AddElement
    <2>3. Cardinality({"owned"} \cup {"role"}) = 2
      BY <2>1, FS_AddElement
    <2>4. Reserved = {"owned"} \cup {"role"}
      BY DEF Reserved
    <2> QED BY <2>2, <2>3, <2>4
  <1>2. Cardinality(w) \in Nat
    BY FS_CardinalityType
  <1>3. /\ IsFiniteSet(Reserved \cup w)
        /\ Cardinality(Reserved \cup w)
             = Cardinality(Reserved) + Cardinality(w) - Cardinality(Reserved \cap w)
    BY <1>1, FS_Union
  <1>4. Cardinality(Reserved \cap w) \in Nat
    BY <1>1, FS_Intersection, FS_CardinalityType
  <1> QED BY <1>1, <1>2, <1>3, <1>4, CapAssumption DEF toClusterTags, TagsValid, MaxAdditionalTags

\* From whatever tags a pass finds, the writes that planClusterTags plans are
\* both within the platform's limit, however close to it the declared tags
\* come; they end in exactly the declared tags and the provider's; and a pass
\* that dies between them has not taken away a tag that is to stay, the owned
\* tag among them.
THEOREM PlanReaches ==
  ASSUME NEW cur \in [Keys -> TagValue], NEW w \in SUBSET Keys, IsFiniteSet(w), TagsValid(w)
  PROVE  LET writes == planClusterTags(cur, w)
             left == Written(cur, writes[1])
         IN /\ Accepts(cur, writes[1]) /\ Accepts(left, writes[2])
            /\ AsDeclared(Written(left, writes[2]), w)
            /\ \A k \in toClusterTags(w) : left[k] = cur[k]
  <1> DEFINE writes == planClusterTags(cur, w)
             left == Written(cur, writes[1])
  <1>1. /\ writes[1] = Write("absent", TagsToDelete(cur, w))
        /\ writes[2] = Write("declared", TagsToCreate(cur, w))
    BY DEF planClusterTags
  <1>2. /\ left \in [Keys -> TagValue] /\ Present(left) \subseteq toClusterTags(w)
        /\ \A k \in toClusterTags(w) : left[k] = cur[k]
    BY <1>1, AfterDeletions
  <1>3. Accepts(cur, writes[1])
    BY <1>1 DEF Accepts, Write
  <1>4. Accepts(left, writes[2])
    <2>1. Present(left) \cup TagsToCreate(cur, w) \subseteq toClusterTags(w)
      BY <1>2 DEF TagsToCreate
    <2>2. IsFiniteSet(toClusterTags(w)) /\ Cardinality(toClusterTags(w)) <= MaxResourceTags
      BY DeclaredFit
    <2>3. /\ Cardinality(Present(left) \cup TagsToCreate(cur, w)) <= Cardinality(toClusterTags(w))
          /\ Cardinality(Present(left) \cup TagsToCreate(cur, w)) \in Nat
          /\ Cardinality(toClusterTags(w)) \in Nat
      BY <2>1, <2>2, FS_Subset, FS_CardinalityType
    <2>4. Cardinality(Present(left) \cup TagsToCreate(cur, w)) <= MaxResourceTags
      BY <2>2, <2>3, CapAssumption
    <2> QED BY <1>1, <2>4 DEF Accepts, Write
  <1>5. AsDeclared(Written(left, writes[2]), w)
    <2>1. \A k \in Keys : Written(left, writes[2])[k]
            = IF k \in TagsToCreate(cur, w) THEN "declared" ELSE left[k]
      BY <1>1 DEF Written, Write
    <2>2. \A k \in Keys : k \in TagsToCreate(cur, w) <=> k \in toClusterTags(w) /\ cur[k] # "declared"
      BY DEF TagsToCreate
    <2>3. \A k \in Keys : k \notin toClusterTags(w) => left[k] = "absent"
      BY <1>2 DEF Present
    <2> QED BY <1>2, <2>1, <2>2, <2>3 DEF AsDeclared
  <1> HIDE DEF writes, left
  <1> QED BY <1>2, <1>3, <1>4, <1>5 DEF writes, left
=============================================================================
