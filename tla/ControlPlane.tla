---------------------------- MODULE ControlPlane ----------------------------
(***************************************************************************)
(* The CCEManagedControlPlane controller: one stored object, its worker,   *)
(* and the part of the cloud it drives (CCE clusters, master EIPs).        *)
(*                                                                         *)
(* A reconcile pass is a sequence of worker steps, one per remote call, so *)
(* users, the cloud, API failures and controller crashes interleave with   *)
(* it.  The pass reads the object from an informer cache, works on a copy  *)
(* in memory, and persists the copy with merge patches at its end: the     *)
(* object (finalizer) first, then the status.  The delete path persists    *)
(* with a patch of one annotation and a full, version-checked Update.      *)
(***************************************************************************)
EXTENDS Naturals, FiniteSets

CONSTANTS ClusterIDs,   \* identifiers the cloud may hand out for CCE clusters
          EipIDs,       \* identifiers the cloud may hand out for EIPs
          None,         \* the empty identifier ""
          Public,       \* spec.endpointAccess.public
          StaleReads,   \* may a pass start from a cache behind the store?
          MaxFaults,    \* bound: failed API calls and out-of-band changes
          MaxCrashes,   \* bound: controller restarts
          MaxLives      \* bound: times a user creates the object

ASSUME IdAssumption == None \notin ClusterIDs \cup EipIDs
ASSUME DistinctAssumption == ClusterIDs \cap EipIDs = {}
ASSUME SwitchAssumption == Public \in BOOLEAN /\ StaleReads \in BOOLEAN
ASSUME BoundAssumption == MaxFaults \in Nat /\ MaxCrashes \in Nat /\ MaxLives \in Nat

VARIABLES
  clusterCR,  \* does the owning CAPI Cluster exist?
  infra,      \* Cluster.status.initialization.infrastructureProvisioned
  cp,         \* the CCEManagedControlPlane in the API server
  cache,      \* the controller's informer copy of cp
  cloud,      \* every CCE cluster the account may hold
  eip,        \* every EIP the account may hold
  pc,         \* where the worker is in its pass
  mem,        \* the pass's in-memory object
  base,       \* the object as the pass read it
  newEip,     \* the EIP BindClusterEip created in this pass
  faults, crashes, lives

apiVars == <<clusterCR, infra, cp>>
cloudVars == <<cloud, eip>>
passVars == <<pc, mem, base, newEip>>
boundVars == <<faults, crashes, lives>>
vars == <<apiVars, cache, cloudVars, passVars, boundVars>>

Phases == {"unborn", "Creating", "Available", "Deleting", "gone"}
ClusterRef == ClusterIDs \cup {None}
EipRef == EipIDs \cup {None}
Address == ClusterIDs \cup EipIDs \cup {None}

\* endpoint is status.controlPlaneEndpoint, published its copy in the spec;
\* an address is named by the cluster (Internal) or the EIP (External) it leads to.
Object == [exists : BOOLEAN, deleting : BOOLEAN, finalizer : BOOLEAN,
           poll : BOOLEAN, named : BOOLEAN, clusterID : ClusterRef,
           eipID : EipRef, endpoint : Address, published : Address,
           ready : BOOLEAN]

Blank == [exists |-> FALSE, deleting |-> FALSE, finalizer |-> FALSE,
          poll |-> FALSE, named |-> FALSE, clusterID |-> None,
          eipID |-> None, endpoint |-> None, published |-> None, ready |-> FALSE]

CloudCluster == [phase : Phases, own : BOOLEAN, tagged : BOOLEAN]
CloudEip == [state : {"unborn", "live", "released"}, tagged : BOOLEAN,
             bound : ClusterRef]

NormalSteps == {"create", "adopt", "show", "eipCreate", "eipTag", "eipBind",
                "tail", "patchObject", "patchStatus"}
DeleteSteps == {"dShow", "dDelete", "dBump", "dUnbind", "dRelease"}

-----------------------------------------------------------------------------
(* The cloud as the controller sees it.                                    *)

\* ShowCluster answers for the cluster, and its name is taken.
Alive(c) == c \in ClusterIDs /\ cloud[c].phase \in {"Creating", "Available", "Deleting"}

\* The live cluster that bears the given clusterName (own = the Cluster's name).
SameName(own) == {c \in ClusterIDs : Alive(c) /\ cloud[c].own = own}

\* The owned-tag guard of adoption after a create conflict.
Adoptable(c) == cloud[c].phase \in {"Creating", "Available"} /\ cloud[c].tagged

\* An EIP that is there to be bound, and paid for.
LiveEip(e) == e \in EipIDs /\ eip[e].state = "live"

\* The EIPs whose address is the External endpoint of cluster c.
MasterEips(c) == {e \in EipIDs : eip[e].state = "live" /\ eip[e].bound = c}

FreshCluster(own) == [phase |-> "Creating", own |-> own, tagged |-> TRUE]
NoCluster == [phase |-> "unborn", own |-> TRUE, tagged |-> FALSE]
NoEip == [state |-> "unborn", tagged |-> FALSE, bound |-> None]

\* One call fails: bounded, so that "finitely many failures" is a fair run.
Fault == faults < MaxFaults /\ faults' = faults + 1
NoFault == UNCHANGED faults

-----------------------------------------------------------------------------
(* Initial states: nothing yet, a same-name cluster of somebody else, or   *)
(* an owned orphan of an earlier installation.                             *)

Init ==
  /\ clusterCR = FALSE /\ infra = FALSE
  /\ cp = Blank /\ cache = Blank
  /\ \/ cloud = [c \in ClusterIDs |-> NoCluster]
     \/ \E c \in ClusterIDs, tagged \in BOOLEAN :
          cloud = [x \in ClusterIDs |->
                     IF x = c THEN [phase |-> "Available", own |-> TRUE, tagged |-> tagged]
                              ELSE NoCluster]
  /\ eip = [e \in EipIDs |-> NoEip]
  /\ pc = "idle" /\ mem = Blank /\ base = Blank /\ newEip = None
  /\ faults = 0 /\ crashes = 0 /\ lives = 0

-----------------------------------------------------------------------------
(* Ends of a pass.                                                         *)

EndPass == pc' = "idle" /\ mem' = Blank /\ base' = Blank /\ newEip' = None

\* reconcileNormal returned (with or without an error): scope.Close runs next.
ToClose == pc' = "patchObject" /\ UNCHANGED <<mem, base, newEip>>

-----------------------------------------------------------------------------
(* reconcileNormal                                                         *)

\* The name guard and the infrastructure wait come before anything changes.
MayProvision(obj) == obj.exists /\ ~obj.deleting /\ obj.named /\ infra

CanRead == pc = "idle" /\ clusterCR /\ (StaleReads \/ cache = cp)

\* Read the object, add the finalizer in memory, then network, credentials
\* and agency: a failure there still ends in scope.Close.
StartNormal ==
  /\ CanRead /\ MayProvision(cache)
  /\ base' = cache
  /\ mem' = [cache EXCEPT !.finalizer = TRUE]
  /\ \/ NoFault /\ pc' = IF cache.clusterID = None THEN "create" ELSE "show"
     \/ Fault /\ pc' = "patchObject"
  /\ UNCHANGED <<apiVars, cache, cloudVars, newEip, crashes, lives>>

\* CreateCluster: a fresh cluster, a conflict with a same-name one, a quota
\* error, a failed call, or a call that took effect but whose answer was lost.
CreateFresh(c) ==
  /\ cloud[c].phase = "unborn"
  /\ cloud' = [cloud EXCEPT ![c] = FreshCluster(mem.named)]

CreateCluster ==
  /\ pc = "create"
  /\ \/ /\ SameName(mem.named) = {} /\ NoFault
        /\ \E c \in ClusterIDs :
             /\ CreateFresh(c)
             /\ mem' = [mem EXCEPT !.clusterID = c]
        /\ pc' = "show" /\ UNCHANGED <<base, newEip>>
     \/ /\ SameName(mem.named) = {} /\ Fault
        /\ \E c \in ClusterIDs : CreateFresh(c)
        /\ ToClose
     \/ /\ SameName(mem.named) # {} /\ NoFault
        /\ pc' = "adopt" /\ UNCHANGED <<mem, base, newEip, cloud>>
     \/ /\ \A c \in ClusterIDs : cloud[c].phase # "unborn"
        /\ SameName(mem.named) = {} /\ NoFault
        /\ ToClose /\ UNCHANGED cloud
     \/ Fault /\ ToClose /\ UNCHANGED cloud
  /\ UNCHANGED <<apiVars, cache, eip, crashes, lives>>

\* After a conflict: find by name, ShowCluster, adopt only what is ours.
AdoptConflict ==
  /\ pc = "adopt"
  /\ \/ \E c \in SameName(mem.named) :
          /\ Adoptable(c) /\ NoFault
          /\ mem' = [mem EXCEPT !.clusterID = c]
          /\ pc' = "show" /\ UNCHANGED <<base, newEip>>
     \/ (\A c \in SameName(mem.named) : ~Adoptable(c)) /\ NoFault /\ ToClose
     \/ Fault /\ ToClose
  /\ UNCHANGED <<apiVars, cache, cloudVars, crashes, lives>>

\* External always wins; Internal only fills an empty status endpoint.  The
\* spec's copy is written where the status is, and nowhere else.
Backfilled(obj, c) ==
  IF MasterEips(c) = {} /\ obj.endpoint # None
    THEN {obj}
    ELSE {[obj EXCEPT !.endpoint = a, !.published = a] :
            a \in IF MasterEips(c) # {} THEN MasterEips(c) ELSE {c}}

\* (variants) the ID kept, or replaced by a marker
NotFoundKeepsID(obj) == obj
NotFoundMarksID(obj) == [obj EXCEPT !.clusterID = "deleted"]

\* The 404 branch clears the cluster ID and nothing else.
AfterNotFound(obj) == [obj EXCEPT !.clusterID = None]

\* (variant) bind on every pass
AlwaysNeedsEip(obj) == Public

NeedsEip(obj) == Public /\ obj.eipID = None

\* ShowCluster: gone (forget the ID), not Available yet, or Available.
ShowCluster ==
  /\ pc = "show"
  /\ UNCHANGED <<base, newEip>>
  /\ LET c == mem.clusterID
     IN \/ /\ ~Alive(c) /\ NoFault
           /\ mem' = AfterNotFound(mem)
           /\ pc' = "patchObject"
        \/ /\ cloud[c].phase \in {"Creating", "Deleting"} /\ NoFault
           /\ pc' = "patchObject" /\ UNCHANGED mem
        \/ /\ cloud[c].phase = "Available" /\ NoFault
           /\ mem' \in Backfilled(mem, c)
           /\ pc' = IF NeedsEip(mem) THEN "eipCreate" ELSE "tail"
        \/ Fault /\ pc' = "patchObject" /\ UNCHANGED mem
  /\ UNCHANGED <<apiVars, cache, cloudVars, crashes, lives>>

NewPublicip(e) == eip[e].state = "unborn" /\ eip' = [eip EXCEPT ![e].state = "live"]

\* BindClusterEip: create the EIP (or hit the quota, or lose the answer), ...
CreatePublicip ==
  /\ pc = "eipCreate"
  /\ \/ \E e \in EipIDs :
          /\ NewPublicip(e) /\ NoFault
          /\ newEip' = e /\ pc' = "eipTag" /\ UNCHANGED <<mem, base>>
     \/ (\E e \in EipIDs : NewPublicip(e)) /\ Fault /\ ToClose
     \/ (\A e \in EipIDs : eip[e].state # "unborn") /\ NoFault /\ ToClose /\ UNCHANGED eip
     \/ Fault /\ ToClose /\ UNCHANGED eip
  /\ UNCHANGED <<apiVars, cache, cloud, crashes, lives>>

\* The cleanup after a failed step, which may have taken effect; the error of
\* this call is dropped.
ReleaseNewEip(failed, effect) ==
  \/ faults' = faults + failed /\ eip' = [eip EXCEPT ![newEip].state = "released"]
  \/ faults + failed < MaxFaults /\ faults' = faults + failed + 1 /\ eip' \in {eip, effect}

WithTag == [eip EXCEPT ![newEip].tagged = TRUE]
BoundTo(c) == [eip EXCEPT ![newEip].bound = c]

\* (variant) tagging on a best-effort basis
TagBestEffort ==
  /\ pc = "eipTag"
  /\ eip' \in {WithTag, eip}
  /\ pc' = "eipBind" /\ UNCHANGED <<mem, base, newEip, faults>>
  /\ UNCHANGED <<apiVars, cache, cloud, crashes, lives>>

\* ... tag it, ...
TagPublicip ==
  /\ pc = "eipTag"
  /\ \/ /\ NoFault /\ eip' = WithTag
        /\ pc' = "eipBind" /\ UNCHANGED <<mem, base, newEip>>
     \/ faults < MaxFaults /\ ReleaseNewEip(1, WithTag) /\ ToClose
  /\ UNCHANGED <<apiVars, cache, cloud, crashes, lives>>

\* What the cloud wants of a binding: both ends (external).
Bindable == Alive(mem.clusterID) /\ LiveEip(newEip)

\* ... bind it to the master and record it.  A bind of what is no longer there
\* fails without being a fault of the call.
BindEip ==
  /\ pc = "eipBind"
  /\ \/ /\ Bindable /\ NoFault
        /\ eip' = BoundTo(mem.clusterID)
        /\ mem' = [mem EXCEPT !.eipID = newEip]
        /\ pc' = "patchObject" /\ UNCHANGED <<base, newEip>>
     \/ /\ Bindable /\ faults < MaxFaults
        /\ ReleaseNewEip(1, BoundTo(mem.clusterID)) /\ ToClose
     \/ ~Bindable /\ ReleaseNewEip(0, eip) /\ ToClose
  /\ UNCHANGED <<apiVars, cache, cloud, crashes, lives>>

\* Tags, add-ons, pod identities, logging, access policies, upgrade and the
\* kubeconfig Secrets: every error, and an upgrade that is pending, returns
\* before Ready is set (both are counted as faults).
Tail ==
  /\ pc = "tail"
  /\ \/ /\ Alive(mem.clusterID) /\ NoFault
        /\ mem' = [mem EXCEPT !.ready = TRUE]
     \/ cloud[mem.clusterID].phase # "Available" /\ NoFault /\ UNCHANGED mem
     \/ Fault /\ UNCHANGED mem
  /\ pc' = "patchObject" /\ UNCHANGED <<base, newEip>>
  /\ UNCHANGED <<apiVars, cache, cloudVars, crashes, lives>>

\* (variant) the whole in-memory value is written
Overwritten(new, old, stored) == new

\* A merge patch writes the fields the pass changed and no others.
Merged(new, old, stored) == IF new # old THEN new ELSE stored

\* scope.Close, first half: metadata and spec.
PatchObject ==
  /\ pc = "patchObject"
  /\ \/ /\ cp.exists /\ NoFault
        /\ cp' = [cp EXCEPT !.finalizer = Merged(mem.finalizer, base.finalizer, @),
                            !.published = Merged(mem.published, base.published, @)]
     \/ ~cp.exists /\ NoFault /\ UNCHANGED cp
     \/ Fault /\ UNCHANGED cp
  /\ pc' = "patchStatus"
  /\ UNCHANGED <<clusterCR, infra, cache, cloudVars, mem, base, newEip, crashes, lives>>

\* scope.Close, second half: status, attempted whatever the first half did.
PatchStatus ==
  /\ pc = "patchStatus"
  /\ \/ /\ cp.exists /\ NoFault
        /\ cp' = [cp EXCEPT !.clusterID = Merged(mem.clusterID, base.clusterID, @),
                            !.eipID = Merged(mem.eipID, base.eipID, @),
                            !.endpoint = Merged(mem.endpoint, base.endpoint, @),
                            !.ready = Merged(mem.ready, base.ready, @)]
     \/ ~cp.exists /\ NoFault /\ UNCHANGED cp
     \/ Fault /\ UNCHANGED cp
  /\ EndPass
  /\ UNCHANGED <<clusterCR, infra, cache, cloudVars, crashes, lives>>

-----------------------------------------------------------------------------
(* reconcileDelete                                                         *)

\* An error of the delete path: nothing is persisted, the pass is retried.
FailDelete == Fault /\ EndPass

\* Read the object, resolve network and credentials.
StartDelete ==
  /\ CanRead /\ cache.exists /\ cache.deleting
  /\ \/ /\ NoFault
        /\ mem' = cache /\ base' = cache /\ UNCHANGED newEip
        /\ pc' = IF cache.clusterID # None THEN "dShow" ELSE "dUnbind"
     \/ FailDelete
  /\ UNCHANGED <<apiVars, cache, cloudVars, crashes, lives>>

\* (variant) the annotation alone suppresses the retry
AnnotationOnly(c) == mem.poll

\* Deletion is re-requested unless the cluster is Deleting and the poll
\* annotation says this controller asked for it.
DeleteRequested(c) == cloud[c].phase = "Deleting" /\ mem.poll

\* (variant) any failed lookup counts as gone
ErrorMeansGone(c) == TRUE

\* Only a 404 counts as gone.
SeenGone(c) == ~Alive(c)

\* Only a cluster seen gone lets the pass go on towards the finalizer.
ShowForDelete ==
  /\ pc = "dShow"
  /\ \/ /\ Alive(mem.clusterID) /\ NoFault
        /\ pc' = IF DeleteRequested(mem.clusterID) THEN "dBump" ELSE "dDelete"
        /\ UNCHANGED <<mem, base, newEip>>
     \/ /\ SeenGone(mem.clusterID) /\ NoFault
        /\ pc' = "dUnbind" /\ UNCHANGED <<mem, base, newEip>>
     \/ FailDelete
  /\ UNCHANGED <<apiVars, cache, cloudVars, crashes, lives>>

\* The asynchronous delete is accepted; a cluster already gone is success.
DeleteAccepted(c) ==
  cloud' = IF Alive(c) THEN [cloud EXCEPT ![c].phase = "Deleting"] ELSE cloud

DeleteCluster ==
  /\ pc = "dDelete"
  /\ \/ /\ DeleteAccepted(mem.clusterID) /\ NoFault
        /\ pc' = "dBump" /\ UNCHANGED <<mem, base, newEip>>
     \/ FailDelete /\ (DeleteAccepted(mem.clusterID) \/ UNCHANGED cloud)
  /\ UNCHANGED <<apiVars, cache, eip, crashes, lives>>

\* Patch of the poll annotation, then wait for the next pass.
BumpDeletePoll ==
  /\ pc = "dBump"
  /\ \/ NoFault /\ cp' = [cp EXCEPT !.poll = cp.exists]
     \/ Fault /\ UNCHANGED cp
  /\ EndPass
  /\ UNCHANGED <<clusterCR, infra, cache, cloudVars, crashes, lives>>

\* UnbindClusterEip: unbind, then release; either may fail, or its answer be
\* lost, and the retry repeats both.
UnbindEip ==
  /\ pc = "dUnbind"
  /\ LET e == mem.eipID
         unbound == [eip EXCEPT ![e].bound = None]
         released == [eip EXCEPT ![e].bound = None, ![e].state = "released"]
     IN \/ /\ e # None /\ NoFault
           /\ eip' = released /\ mem' = [mem EXCEPT !.eipID = None]
           /\ pc' = "dRelease" /\ UNCHANGED <<base, newEip>>
        \/ /\ e # None /\ FailDelete
           /\ eip' \in {eip, unbound, released}
        \/ /\ e = None /\ NoFault
           /\ pc' = "dRelease" /\ UNCHANGED <<eip, mem, base, newEip>>
  /\ UNCHANGED <<apiVars, cache, cloud, crashes, lives>>

\* (variant) the finalizer is dropped by an unconditional patch
UncheckedWrite == cp.exists

\* Update carries the resourceVersion that was read.
VersionMatches == cp = base

\* Delete the kubeconfig Secrets, drop the finalizer: the object goes away.
ReleaseFinalizer ==
  /\ pc = "dRelease"
  /\ \/ VersionMatches /\ NoFault /\ cp' = Blank
     \/ ~VersionMatches /\ NoFault /\ UNCHANGED cp
     \/ Fault /\ UNCHANGED cp
  /\ EndPass
  /\ UNCHANGED <<clusterCR, infra, cache, cloudVars, crashes, lives>>

-----------------------------------------------------------------------------
(* The surroundings: users, Cluster API, the informer, the cloud, crashes. *)

\* A user creates Cluster and control plane; clusterName may be mistyped.
UserCreate ==
  /\ ~cp.exists /\ lives < MaxLives
  /\ \E named \in BOOLEAN : cp' = [Blank EXCEPT !.exists = TRUE, !.named = named]
  /\ clusterCR' = TRUE /\ lives' = lives + 1
  /\ UNCHANGED <<infra, cache, cloudVars, passVars, faults, crashes>>

\* Deletion of an object without finalizers removes it at once.
UserDelete ==
  /\ cp.exists /\ ~cp.deleting
  /\ cp' = IF cp.finalizer THEN [cp EXCEPT !.deleting = TRUE] ELSE Blank
  /\ UNCHANGED <<clusterCR, infra, cache, cloudVars, passVars, boundVars>>

\* Cluster API drops the Cluster once its control plane is gone.
ClusterRemoved ==
  /\ clusterCR /\ ~cp.exists
  /\ clusterCR' = FALSE /\ infra' = FALSE
  /\ UNCHANGED <<cp, cache, cloudVars, passVars, boundVars>>

InfrastructureProvisioned ==
  /\ clusterCR /\ ~infra /\ infra' = TRUE
  /\ UNCHANGED <<clusterCR, cp, cache, cloudVars, passVars, boundVars>>

\* The informer catches up (a watch skips versions but never goes back).
CacheSync ==
  /\ cache # cp /\ cache' = cp
  /\ UNCHANGED <<apiVars, cloudVars, passVars, boundVars>>

CloudStep(from, to, c) ==
  /\ cloud[c].phase \in from
  /\ cloud' = [cloud EXCEPT ![c].phase = to]
  /\ UNCHANGED <<apiVars, cache, eip, passVars, crashes, lives>>

CloudProvisions(c) == CloudStep({"Creating"}, "Available", c) /\ NoFault
CloudDeletes(c) == CloudStep({"Deleting"}, "gone", c) /\ NoFault

\* The asynchronous delete job fails and the cluster falls back.
CloudDeleteFails(c) == CloudStep({"Deleting"}, "Available", c) /\ Fault

\* Somebody deletes the cluster in the console.
OutOfBandDelete(c) == CloudStep({"Creating", "Available"}, "Deleting", c) /\ Fault

Crash ==
  /\ pc # "idle" /\ crashes < MaxCrashes
  /\ crashes' = crashes + 1 /\ EndPass
  /\ UNCHANGED <<apiVars, cache, cloudVars, faults, lives>>

-----------------------------------------------------------------------------

reconcileNormal ==
  \/ StartNormal \/ CreateCluster \/ AdoptConflict \/ ShowCluster
  \/ CreatePublicip \/ TagPublicip \/ BindEip \/ Tail
  \/ PatchObject \/ PatchStatus

reconcileDelete ==
  \/ StartDelete \/ ShowForDelete \/ DeleteCluster \/ BumpDeletePoll
  \/ UnbindEip \/ ReleaseFinalizer

Reconcile == reconcileNormal \/ reconcileDelete

CloudProgress == \E c \in ClusterIDs : CloudProvisions(c) \/ CloudDeletes(c)

Surroundings ==
  \/ UserCreate \/ UserDelete \/ ClusterRemoved \/ InfrastructureProvisioned
  \/ CacheSync \/ CloudProgress \/ Crash
  \/ \E c \in ClusterIDs : CloudDeleteFails(c) \/ OutOfBandDelete(c)

Next == Reconcile \/ Surroundings

Spec == Init /\ [][Next]_vars

\* Every outcome of a pass is a requeue, an error (retried) or a watch event,
\* so the worker keeps going; the cloud finishes what it accepted.
Fairness ==
  /\ WF_vars(Reconcile) /\ WF_vars(CacheSync)
  /\ WF_vars(InfrastructureProvisioned) /\ WF_vars(CloudProgress)

FairSpec == Spec /\ Fairness

-----------------------------------------------------------------------------
(* Type invariant.                                                         *)

\* Every variable holds a value the code can produce.
TypeOK ==
  /\ clusterCR \in BOOLEAN /\ infra \in BOOLEAN
  /\ cp \in Object /\ cache \in Object /\ mem \in Object /\ base \in Object
  /\ cloud \in [ClusterIDs -> CloudCluster]
  /\ eip \in [EipIDs -> CloudEip]
  /\ pc \in {"idle"} \cup NormalSteps \cup DeleteSteps
  /\ newEip \in EipRef
  /\ faults \in 0..MaxFaults /\ crashes \in 0..MaxCrashes /\ lives \in 0..MaxLives

(***************************************************************************)
(* Safety.                                                                 *)
(***************************************************************************)

\* ReleaseClean: an object that carries the finalizer leaves the API server
\* only when the cluster and the EIP its stored status names are both gone,
\* whatever the pass that removes the finalizer had read from its cache.
ReleaseClean ==
  [][cp.exists /\ cp.finalizer /\ ~cp'.exists
       => ~Alive(cp.clusterID) /\ ~LiveEip(cp.eipID)]_vars

\* OwnedOnly: neither the stored object nor a pass in flight ever holds the ID
\* of a cluster without the owned tag, so no such cluster is reconciled or
\* deleted on this object's behalf.
OwnedOnly ==
  \A obj \in {cp, mem} : obj.clusterID # None => cloud[obj.clusterID].tagged

\* Identifiers held anywhere name resources that exist or existed, and
\* clusters that are ours.
ClusterSound(id) == id # None => cloud[id].tagged /\ cloud[id].phase # "unborn"
EipSound(id) == id # None => eip[id].state # "unborn"
RecordSound(obj) == ClusterSound(obj.clusterID) /\ EipSound(obj.eipID)

\* What a delete pass has established when it reaches a step.
DeletePassSound ==
  /\ pc \in {"dShow", "dDelete", "dBump", "dUnbind"} => mem = base
  /\ pc \in {"dUnbind", "dRelease"} => ~Alive(base.clusterID)
  /\ pc = "dRelease" => ~LiveEip(base.eipID)

\* PassSound (inductive with TypeOK): whatever a pass holds in memory is ours,
\* and a delete pass moves towards the finalizer only past a cluster, and then
\* an EIP, that are gone and stay gone.
PassSound ==
  /\ \A obj \in {cp, cache, mem, base} : RecordSound(obj)
  /\ EipSound(newEip)
  /\ pc \in {"eipTag", "eipBind"} => newEip # None
  /\ DeletePassSound

\* BoundTagged: every EIP bound to a cluster carries the owned tag, so that one
\* that a pass with a stale status displaces from the record is still found by
\* the sweep.
BoundTagged == \A e \in EipIDs : eip[e].bound # None => eip[e].tagged

(***************************************************************************)
(* What the object promises to its readers.                                *)
(***************************************************************************)

\* The object as its readers see it.
Shown(obj) == [exists |-> obj.exists, guarded |-> obj.finalizer, ready |-> obj.ready,
               clusterID |-> obj.clusterID]

\* The clusters as they see them: live while the name is taken.
Standing(c) ==
  CASE cloud[c].phase = "unborn" -> "unborn"
    [] cloud[c].phase # "unborn" /\ ~cloud[c].tagged -> "foreign"
    [] cloud[c].phase = "gone" /\ cloud[c].tagged -> "gone"
    [] OTHER -> "live"

Promise == INSTANCE ControlPlaneContract WITH
             Clusters <- ClusterIDs,
             ctl <- Shown(cp),
             running <- [c \in ClusterIDs |-> Standing(c)]

\* KeepsContract: the controller implements the contract.  However stale the
\* copy a patch was computed from, a record names only a cluster with the owned
\* tag, no record of a live cluster is replaced, one is dropped only for a
\* cluster found gone, and a guarded object leaves after its cluster.
KeepsContract == Promise!Spec

(***************************************************************************)
(* Liveness, under FairSpec.                                               *)
(***************************************************************************)

\* DeletionCompletes: an object marked for deletion is eventually gone, also
\* after failed calls and an asynchronous delete that fell back.
DeletionCompletes == (cp.exists /\ cp.deleting) ~> ~cp.exists

\* Blocked by a same-name cluster of somebody else: refusing is right.
Blocked == \E c \in SameName(TRUE) : ~cloud[c].tagged

Serving == cp.clusterID \in ClusterIDs /\ cloud[cp.clusterID].phase = "Available"

\* SelfHeals: an object that is wanted gets, or after an out-of-band deletion
\* gets back, an Available cluster recorded in its status.
SelfHeals ==
  (cp.exists /\ cp.named) ~> (Serving \/ cp.deleting \/ ~cp.exists \/ Blocked)

\* BecomesReady: a wanted object is eventually reported Ready.
BecomesReady ==
  (cp.exists /\ cp.named) ~> (cp.ready \/ cp.deleting \/ ~cp.exists \/ Blocked)

(***************************************************************************)
(* A claim of the repository the code does not keep (violation run).       *)
(***************************************************************************)

\* FinalizerGuards ("ControlPlaneFinalizer ensures the CCE cluster is deleted
\* before the object"): while a pass holds a live cluster it created or adopted
\* for the object, the object is still there to be deleted in its turn.
FinalizerGuards == (pc \in NormalSteps /\ Alive(mem.clusterID)) => cp.exists
=============================================================================
