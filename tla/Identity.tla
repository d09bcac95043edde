------------------------------ MODULE Identity ------------------------------
(***************************************************************************)
(* Whose credentials a pass uses.  The passes of the control plane, of a   *)
(* pool and of the CCECluster of one Cluster resolve them step by step:    *)
(* spec.identityRef, the identity, its allowedNamespaces, the keys, the    *)
(* agency; users edit all of these in between, and the creator of the      *)
(* default identity runs beside them.  What a pass then does is reduced to *)
(* the tags of the cluster and to the release of its object (ControlPlane, *)
(* MachinePool and Network are the detailed models); all identities lead   *)
(* to the same account.  Objects are seen as the shared informers show     *)
(* them.                                                                   *)
(***************************************************************************)
EXTENDS ClusterTags, Sequences

CONSTANTS
  MaxPasses,    \* bound on passes in flight at a time
  MaxTroubles   \* bound on failing calls and edits, together

ASSUME BoundAssumption == MaxPasses \in Nat \ {0} /\ MaxTroubles \in Nat

VARIABLES
  ref,        \* spec.identityRef of the control plane, by its kind
  identity,   \* the allowedNamespaces of each identity
  labelled,   \* does the namespace match the selectors?
  secrets,    \* the credentials Secrets that are there and complete
  policy,     \* spec.agencyTrustPolicy
  agency,     \* is the agency there?
  want,       \* spec.additionalTags, by key
  stage,      \* the objects: present, deleting, gone
  built,      \* has the CCECluster recorded a managed VPC?
  tags,       \* the tags of the cluster
  pc, held,   \* per controller: where its pass is, and what the pass knows
  plan,       \* tag writes ahead of the control plane's pass
  seen,       \* history: what a pass could have read so far
  creator,    \* where the creator of the default identity is
  troubles    \* failures and edits so far

setup == <<ref, identity, labelled, secrets, policy, want>>
passes == <<pc, held, plan>>
vars == <<setup, agency, stage, built, tags, passes, seen, creator, troubles>>

Actors == {"cp", "pool", "shell"}
Kinds == {"controller", "static", "role"}

\* allowedNamespaces: nil or a list that names the namespace; a list that does
\* not, or nothing at all; a selector.
Allowed == {"ours", "others", "selector"}

NoPass == [kind |-> "none", del |-> FALSE, allowed |-> "absent"]
NothingSeen == [specs |-> {}, labelled |-> FALSE]

Init ==
  /\ ref \in Kinds \cup {"none"}
  /\ \E v \in Allowed \cup {"absent"} :
       identity = [k \in Kinds |-> IF k = ref THEN v ELSE "absent"]
  /\ labelled = FALSE /\ secrets = {"static", "cluster"} /\ agency = FALSE
  /\ policy = "none"
  /\ want = CHOOSE w \in SUBSET UserKeys : Cardinality(w) = MaxAdditionalTags
  /\ tags = [k \in Keys |-> IF k \in toClusterTags(want) THEN "declared" ELSE "absent"]
  /\ stage = [a \in Actors |-> "present"] /\ built = FALSE
  /\ pc = [a \in Actors |-> "idle"] /\ held = [a \in Actors |-> NoPass] /\ plan = <<>>
  /\ seen = [a \in Actors |-> NothingSeen]
  /\ creator = "idle" /\ troubles = 0

Standing == stage["cp"] # "gone"

Fine == UNCHANGED troubles
Fault == troubles < MaxTroubles /\ troubles' = troubles + 1

-----------------------------------------------------------------------------
(* Resolving credentials                                                   *)

Goto(a, step) == pc' = [pc EXCEPT ![a] = step] /\ UNCHANGED <<held, plan>>

\* An error ends the pass; it is tried again.
Fail(a) == /\ pc' = [pc EXCEPT ![a] = "idle"] /\ held' = [held EXCEPT ![a] = NoPass]
           /\ plan' = IF a = "cp" THEN <<>> ELSE plan

\* (variant) delete passes know only the Secret of the Cluster
SecretOnDelete(a) == IF ref = "none" \/ stage[a] = "deleting" THEN "cluster" ELSE ref

\* resolveControlPlaneCredentials and, for the CCECluster,
\* resolveClusterCredentials: without a control plane only the Secret is left.
Chain(a) == IF ref = "none" \/ (a = "shell" /\ ~Standing) THEN "cluster" ELSE ref

\* Passes that get as far as their credentials: a pool's needs a control plane;
\* a deleted CCECluster waits until there is none, and has a network.
Resolves(a) ==
  CASE a = "cp" -> stage[a] # "gone"
    [] a = "pool" -> stage[a] # "gone" /\ Standing
    [] a = "shell" -> \/ stage[a] = "present"
                      \/ stage[a] = "deleting" /\ ~Standing /\ built

\* A pass of the CCECluster that fails to read the control plane turns to the
\* Secret, too.
Begin(a) ==
  /\ pc[a] = "idle" /\ Resolves(a)
  /\ Cardinality({b \in Actors : pc[b] # "idle"}) < MaxPasses
  /\ \E kind \in Kinds \cup {"cluster"} :
       /\ \/ Fine /\ kind = Chain(a)
          \/ Fault /\ a = "shell" /\ Standing /\ kind = "cluster"
       /\ held' = [held EXCEPT ![a] = [kind |-> kind, del |-> stage[a] = "deleting",
                                       allowed |-> "absent"]]
       /\ pc' = [pc EXCEPT ![a] = IF kind = "cluster" THEN "keys" ELSE "identity"]
  /\ UNCHANGED <<plan, setup, agency, stage, built, tags>>

\* ResolveIdentity: the identity of the reference, ...
GetIdentity(a) ==
  /\ pc[a] = "identity"
  /\ LET v == identity[held[a].kind]
     IN \/ /\ Fine /\ v # "absent"
           /\ held' = [held EXCEPT ![a].allowed = v]
           /\ pc' = [pc EXCEPT ![a] = "namespace"] /\ UNCHANGED plan
        \/ Fine /\ v = "absent" /\ Fail(a)
        \/ Fault /\ Fail(a)
  /\ UNCHANGED <<setup, agency, stage, built, tags>>

\* (variant) an empty list and an empty selector allow every namespace
EmptyAllowsAll(v) == v \in {"ours", "others"} \/ (v = "selector" /\ labelled)

\* checkAllowedNamespace: only a selector makes it read the namespace.
checkAllowedNamespace(v) == v = "ours" \/ (v = "selector" /\ labelled)

\* ... its allowedNamespaces, ...
CheckNamespace(a) ==
  /\ pc[a] = "namespace"
  /\ \/ Fine /\ checkAllowedNamespace(held[a].allowed) /\ Goto(a, "keys")
     \/ Fine /\ ~checkAllowedNamespace(held[a].allowed) /\ Fail(a)
     \/ Fault /\ held[a].allowed = "selector" /\ Fail(a)
  /\ UNCHANGED <<setup, agency, stage, built, tags>>

\* The keys: a Secret, or the environment, which is set and never changes.
KeysThere(kind) == kind \in {"static", "cluster"} => kind \in secrets

\* Only a control plane that is not deleted makes its agency.
EnsuresAgency(a) == a = "cp" /\ ~held[a].del /\ policy # "none"

AfterKeys(a) == CASE held[a].kind # "role" -> "act"
                  [] held[a].kind = "role" /\ EnsuresAgency(a) -> "listAgencies"
                  [] OTHER -> "assume"

\* ... and the keys.
ResolveKeys(a) ==
  /\ pc[a] = "keys"
  /\ \/ Fine /\ KeysThere(held[a].kind) /\ Goto(a, AfterKeys(a))
     \/ Fine /\ ~KeysThere(held[a].kind) /\ Fail(a)
     \/ Fault /\ held[a].kind \in {"static", "cluster"} /\ Fail(a)
  /\ UNCHANGED <<setup, agency, stage, built, tags>>

\* ValidateTrustPolicy, then EnsureAgency: list, ...
ListAgencies(a) ==
  /\ pc[a] = "listAgencies"
  /\ \/ Fine /\ policy # "invalid" /\ Goto(a, IF agency THEN "assume" ELSE "createAgency")
     \/ Fine /\ policy = "invalid" /\ Fail(a)
     \/ Fault /\ Fail(a)
  /\ UNCHANGED <<setup, agency, stage, built, tags>>

\* ... and create what was not listed; a name that is taken is refused.
CreateAgency(a) ==
  /\ pc[a] = "createAgency"
  /\ \/ Fine /\ ~agency /\ agency' = TRUE /\ Goto(a, "assume")
     \/ Fine /\ agency /\ Fail(a) /\ UNCHANGED agency
     \/ Fault /\ agency' \in {agency, TRUE} /\ Fail(a)
  /\ UNCHANGED <<setup, stage, built, tags>>

\* credentials.Resolve: AssumeAgency.
AssumeAgency(a) ==
  /\ pc[a] = "assume"
  /\ \/ Fine /\ agency /\ Goto(a, "act")
     \/ Fine /\ ~agency /\ Fail(a)
     \/ Fault /\ Fail(a)
  /\ UNCHANGED <<setup, agency, stage, built, tags>>

-----------------------------------------------------------------------------
(* What the credentials are for                                            *)

\* A normal pass: the network of the CCECluster, the work on a pool, and the
\* start of ReconcileClusterTags, which shows the tags and plans the writes.
Work(a) ==
  /\ pc[a] = "act" /\ ~held[a].del
  /\ \/ Fine /\ a # "cp" /\ Fail(a) /\ built' = (built \/ a = "shell")
     \/ /\ Fine /\ a = "cp" /\ plan' = planClusterTags(tags, want)
        /\ pc' = [pc EXCEPT ![a] = "tags"] /\ UNCHANGED <<held, built>>
     \/ Fault /\ Fail(a) /\ UNCHANGED built
  /\ UNCHANGED <<setup, agency, stage, tags>>

\* A batch of tags; an empty one is not sent.
WriteTags ==
  /\ pc["cp"] = "tags" /\ plan # <<>>
  /\ LET w == Head(plan)
     IN \/ Fine /\ w.keys = {} /\ UNCHANGED tags /\ plan' = Tail(plan) /\ UNCHANGED <<pc, held>>
        \/ /\ Fine /\ w.keys # {} /\ Accepts(tags, w)
           /\ tags' = Written(tags, w) /\ plan' = Tail(plan) /\ UNCHANGED <<pc, held>>
        \/ Fine /\ w.keys # {} /\ ~Accepts(tags, w) /\ UNCHANGED tags /\ Fail("cp")
        \/ /\ Fault /\ w.keys # {} /\ Accepts(tags, w)
           /\ tags' \in {tags, Written(tags, w)} /\ Fail("cp")
  /\ UNCHANGED <<setup, agency, stage, built>>

TagsDone ==
  /\ pc["cp"] = "tags" /\ plan = <<>> /\ Fine /\ Fail("cp")
  /\ UNCHANGED <<setup, agency, stage, built, tags>>

\* A delete pass takes down what the object stands for and releases it; the
\* spec goes with the control plane and the tags with the cluster.
Release(a) ==
  /\ pc[a] = "act" /\ held[a].del
  /\ \/ Fine /\ a # "cp" /\ UNCHANGED <<ref, policy, want, tags>>
        /\ stage' = [stage EXCEPT ![a] = "gone"]
     \/ Fine /\ a = "cp" /\ stage' = [stage EXCEPT ![a] = "gone"]
        /\ ref' = "none" /\ policy' = "none" /\ want' = {} /\ tags' = [k \in Keys |-> "absent"]
     \/ Fault /\ UNCHANGED <<stage, ref, policy, want, tags>>
  /\ Fail(a)
  /\ UNCHANGED <<identity, labelled, secrets, agency, built>>

\* Nothing is left to take down: a pool without a control plane, a CCECluster
\* without a managed network.
ReleaseOffhand(a) ==
  /\ pc[a] = "idle" /\ stage[a] = "deleting" /\ ~Standing /\ Fine
  /\ a = "pool" \/ (a = "shell" /\ ~built)
  /\ stage' = [stage EXCEPT ![a] = "gone"]
  /\ UNCHANGED <<setup, agency, built, tags, passes>>

Pass(a) ==
  \/ Begin(a) \/ GetIdentity(a) \/ CheckNamespace(a) \/ ResolveKeys(a) \/ ListAgencies(a)
  \/ CreateAgency(a) \/ AssumeAgency(a) \/ Work(a) \/ Release(a) \/ ReleaseOffhand(a)
  \/ a = "cp" /\ (WriteTags \/ TagsDone)

-----------------------------------------------------------------------------
(* The creator of the default identity (AutoControllerIdentityCreator)     *)

\* A control plane with an identity of its own needs none.
CreatorGet ==
  /\ creator = "idle" /\ Standing /\ ref \notin {"static", "role"}
  /\ identity["controller"] = "absent" /\ Fine
  /\ creator' = "create"
  /\ UNCHANGED <<setup, agency, stage, built, tags, passes>>

\* One that was made in the meantime is left as it is.
CreatorCreate ==
  /\ creator = "create" /\ creator' = "idle"
  /\ \/ /\ Fine
        /\ identity' = [identity EXCEPT !["controller"] = IF @ = "absent" THEN "ours" ELSE @]
     \/ Fault /\ UNCHANGED identity
  /\ UNCHANGED <<ref, labelled, secrets, policy, want, agency, stage, built, tags, passes>>

-----------------------------------------------------------------------------
(* Users, the console and Cluster API                                      *)

\* What nothing reads any more is not edited.
Edit == troubles < MaxTroubles /\ troubles' = troubles + 1 /\ stage["shell"] # "gone"

\* The webhooks: the default identity does not change while it is there.
EditIdentity(k) ==
  /\ \E v \in Allowed \cup {"absent"} :
       /\ v # identity[k] /\ (k = "controller" => "absent" \in {v, identity[k]})
       /\ identity' = [identity EXCEPT ![k] = v]
  /\ UNCHANGED <<ref, labelled, secrets, policy, want, agency, tags>>

\* The control plane's webhook: a reference cannot be cleared.
EditRef == ref' \in Kinds \ {ref}
           /\ UNCHANGED <<identity, labelled, secrets, policy, want, agency, tags>>

EditPolicy == policy' \in {"valid", "invalid"} \ {policy}
              /\ UNCHANGED <<ref, identity, labelled, secrets, want, agency, tags>>

Relabel == labelled' = ~labelled
           /\ UNCHANGED <<ref, identity, secrets, policy, want, agency, tags>>

EditSecret(s) == secrets' = (secrets \ {s}) \cup ({s} \ secrets)
                 /\ UNCHANGED <<ref, identity, labelled, policy, want, agency, tags>>

EditTags == want' \in {w \in SUBSET Keys \ {want} : TagsValid(w)}
            /\ UNCHANGED <<ref, identity, labelled, secrets, policy, agency, tags>>

ConsoleAgency == agency' = ~agency /\ UNCHANGED <<setup, tags>>

ConsoleTag(k) == /\ \E v \in {"absent", "drifted"} \ {tags[k]} : tags' = [tags EXCEPT ![k] = v]
                 /\ Cardinality(Present(tags')) <= MaxResourceTags
                 /\ UNCHANGED <<setup, agency>>

Edits ==
  /\ Edit
  /\ \/ Standing /\ ref \in Kinds /\ EditIdentity(ref)
     \/ Standing /\ (EditRef \/ EditTags)
     \/ Standing /\ ref \in Kinds /\ Relabel
     \/ Standing /\ ref = "role" /\ (EditPolicy \/ ConsoleAgency)
     \/ \E s \in {"static", "cluster"} : EditSecret(s)
     \/ Standing /\ \E k \in Keys : ConsoleTag(k)
  /\ UNCHANGED <<stage, built, passes, creator>>

\* The Cluster is deleted: pools first, then the control plane, then the rest.
ClusterDeletion ==
  /\ \E a \in Actors :
       /\ stage[a] = "present"
       /\ CASE a = "pool" -> TRUE [] a = "cp" -> stage["pool"] = "gone" [] OTHER -> stage["cp"] = "gone"
       /\ stage' = [stage EXCEPT ![a] = "deleting"]
  /\ Fine /\ UNCHANGED <<setup, agency, built, tags, passes, creator>>

\* What a pass could have read: kept from its start to its end.
Sees == seen' = [a \in Actors |->
  IF pc'[a] = "idle" \/ held'[a].kind \notin Kinds THEN NothingSeen
  ELSE [specs |-> seen[a].specs \cup {identity'[held'[a].kind]},
        labelled |-> seen[a].labelled \/ labelled']]

Next == /\ \/ (\E a \in Actors : Pass(a)) /\ UNCHANGED creator
           \/ CreatorGet \/ CreatorCreate
           \/ Edits
           \/ ClusterDeletion
        /\ Sees

Spec == Init /\ [][Next]_vars

\* Passes are retried for ever, each controller in its own time (strong
\* fairness because MaxPasses makes them take turns); the creator follows every event and resync of
\* a control plane, and Cluster API carries a deletion on once it has begun.
FairSpec ==
  /\ Spec
  /\ \A a \in Actors : SF_vars(Pass(a) /\ Sees /\ UNCHANGED creator)
  /\ WF_vars((CreatorGet \/ CreatorCreate) /\ Sees)
  /\ WF_vars(stage["pool"] # "present" /\ ClusterDeletion /\ Sees)

-----------------------------------------------------------------------------
(* Properties                                                              *)

\* Steps that use credentials.
UsingSteps == {"listAgencies", "createAgency", "assume", "act", "tags"}

\* PermittedUse: no pass gets to use an identity that did not, in some form it
\* had during the pass, allow the namespace, with labels that the namespace had
\* during the pass: however users narrow, delete and re-create identities, and
\* whatever the creator puts in their place.
PermittedUse ==
  \A a \in Actors :
    pc[a] \in UsingSteps /\ held[a].kind \in Kinds
      => \E v \in seen[a].specs : v = "ours" \/ (v = "selector" /\ seen[a].labelled)

\* Can the credentials of the reference be had (or will the creator see to it)?
Usable(del) ==
  LET may(k) == checkAllowedNamespace(identity[k])
  IN CASE ref = "none" -> "cluster" \in secrets
       [] ref = "controller" -> may(ref) \/ identity[ref] = "absent"
       [] ref = "static" -> may(ref) /\ "static" \in secrets
       [] ref = "role" -> may(ref) /\ IF del THEN agency
                                      ELSE policy = "valid" \/ (policy = "none" /\ agency)

\* DeletionThroughIdentity: a deleted Cluster goes, pool and control plane with
\* whatever credentials the reference leads to, without the Secret of the
\* Cluster; the CCECluster after them, if it has no managed network or the
\* Secret of the Cluster is there.
DeletionThroughIdentity ==
  /\ <>[](Standing => Usable(TRUE)) => (stage["pool"] = "deleting" ~> stage["cp"] = "gone")
  /\ <>[](IF Standing THEN Usable(TRUE) ELSE built => "cluster" \in secrets)
       => (stage["pool"] = "deleting" ~> stage["shell"] = "gone")

\* TagsConverge: as long as the credentials can be had, the tags of the cluster
\* become and stay the declared ones and the provider's, also at the platform's
\* limit, after console edits in the middle of a pass, and after failed batches.
TagsConverge ==
  <>[](stage["cp"] = "present" /\ Usable(FALSE)) => <>[]AsDeclared(tags, want)
=============================================================================
