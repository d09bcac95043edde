----------------------------- MODULE MachinePool -----------------------------
(***************************************************************************)
(* The CCEManagedMachinePool controller: one stored pool object, its       *)
(* worker, the owning CAPI MachinePool, the node pools of the cloud, and   *)
(* the control plane as this controller reads it: ControlPlaneContract,    *)
(* which ControlPlane implements.                                          *)
(*                                                                         *)
(* As in ControlPlane, a pass is one step per remote call, works on a copy *)
(* of the cached object and ends in two merge patches; the delete path     *)
(* ends in version-checked updates.                                        *)
(***************************************************************************)
EXTENDS Naturals, FiniteSets

CONSTANTS PoolIDs,      \* identifiers the cloud may hand out for node pools
          Clusters,     \* identifiers of CCE clusters
          Attrs,        \* values of the mutable attributes (security groups, autoscaling)
          None,         \* the empty identifier, no attributes, an unset count
          StaleReads,   \* may a pass start from caches behind the store?
          MaxReplicas,  \* bound: nodes of a pool
          MaxFaults,    \* bound: failed API calls and controller restarts
          MaxLosses,    \* bound: out-of-band changes of the cloud
          MaxEdits      \* bound: changes of the desired state

ASSUME IdAssumption == None \notin PoolIDs \cup Clusters \cup Attrs
ASSUME AttrsAssumption == Attrs # {}
ASSUME SwitchAssumption == StaleReads \in BOOLEAN
ASSUME BoundAssumption ==
  MaxReplicas \in Nat /\ MaxFaults \in Nat /\ MaxLosses \in Nat /\ MaxEdits \in Nat

VARIABLES
  ctl,        \* the CCEManagedControlPlane in the API server
  ctlSeen,    \* the informer's copy of it
  running,    \* the CCE clusters: unborn, live or gone
  dropped,    \* history: clusters whose record was dropped while they lived
  owner,      \* spec.replicas of the owning MachinePool, None without one
  external,   \* does the MachinePool carry the external-autoscaler annotation?
  pool,       \* the CCEManagedMachinePool in the API server
  cache,      \* the informer's copy of it
  np,         \* the node pools of the account
  pc, mem, base,   \* the pass: where it is, its object, the object as read
  target,     \* the cluster ID the pass read from the control plane
  unsettled,  \* history: pools adopted or updated whose attributes the record lacks
  faults, losses, edits

ctlVars == <<ctl, ctlSeen, running, dropped>>

Ctl == INSTANCE ControlPlaneContract

passVars == <<pc, mem, base, target>>
boundVars == <<faults, losses, edits>>
vars == <<ctlVars, owner, external, pool, cache, np, passVars, unsettled, boundVars>>

Counts == 0..MaxReplicas
PoolRef == PoolIDs \cup {None}
ClusterRef == Clusters \cup {None}

\* want is spec.replicas, attrs the effective mutable attributes of the spec,
\* replicas and applied (LastApplied...) what the status says of the cloud.
Object == [exists : BOOLEAN, deleting : BOOLEAN, finalizer : BOOLEAN,
           want : Counts, attrs : Attrs \cup {None}, nodePoolID : PoolRef,
           replicas : Counts, applied : Attrs \cup {None}, ready : BOOLEAN]

Blank == [exists |-> FALSE, deleting |-> FALSE, finalizer |-> FALSE,
          want |-> 0, attrs |-> None, nodePoolID |-> None,
          replicas |-> 0, applied |-> None, ready |-> FALSE]

NodePool == [state : {"unborn", "live", "deleting", "gone"}, cluster : ClusterRef,
             tagged : BOOLEAN, desired : Counts, current : Counts,
             attrs : Attrs \cup {None}]

NoPool == [state |-> "unborn", cluster |-> None, tagged |-> FALSE,
           desired |-> 0, current |-> 0, attrs |-> None]

Steps == {"create", "adopt", "scale", "update", "list", "tail", "patchObject",
          "patchStatus", "dList", "dDelete", "dClear", "dRelease"}

-----------------------------------------------------------------------------
(* The cloud as the controller sees it.                                    *)

Live(c) == Ctl!Live(c)

\* ListNodePools of cluster c names p: live or still being deleted.
Listed(p, c) == p \in PoolIDs /\ np[p].state \in {"live", "deleting"} /\ np[p].cluster = c

\* Scale and update calls work only on a live pool of a live cluster.
Usable(p, c) == Live(c) /\ Listed(p, c) /\ np[p].state = "live"

\* Pools of c under this object's node-pool name (one at a time).
SameName(c) == {p \in PoolIDs : Listed(p, c)}

\* (variant) adopt by name alone
AdoptableByName(p) == TRUE

\* The owned-tag guard of adoption after a create conflict.
Adoptable(p) == np[p].tagged

Fault == faults < MaxFaults /\ faults' = faults + 1
NoFault == UNCHANGED faults

-----------------------------------------------------------------------------

\* Values of the attributes differ by nothing but being different.
FirstAttrs == CHOOSE a \in Attrs : TRUE

Init ==
  /\ ctl = Ctl!Present(TRUE, FALSE, None)
  /\ ctlSeen = ctl
  /\ running = [c \in Clusters |-> "unborn"] /\ dropped = {}
  /\ owner \in Counts \cup {None} /\ external \in BOOLEAN
  /\ (owner = None => ~external)
  /\ \E n \in Counts :
       pool = [Blank EXCEPT !.exists = TRUE, !.want = n, !.attrs = FirstAttrs]
  /\ cache = pool
  /\ np = [p \in PoolIDs |-> NoPool]
  /\ pc = "idle" /\ mem = Blank /\ base = Blank /\ target = None
  /\ unsettled = {} /\ faults = 0 /\ losses = 0 /\ edits = 0

EndPass == pc' = "idle" /\ mem' = Blank /\ base' = Blank /\ target' = None

\* reconcileNormal returned: scope.Close persists the in-memory object.
Close(obj) == pc' = "patchObject" /\ mem' = obj /\ UNCHANGED <<base, target>>
Goto(l, obj) == pc' = l /\ mem' = obj /\ UNCHANGED <<base, target>>

CanRead == pc = "idle" /\ (StaleReads \/ (cache = pool /\ ctlSeen = ctl))

-----------------------------------------------------------------------------
(* reconcileNormal                                                         *)

\* A pass waits for a Ready control plane that has a cluster ID.
StartNormal ==
  /\ CanRead /\ cache.exists /\ ~cache.deleting
  /\ ctlSeen.exists /\ ctlSeen.ready /\ ctlSeen.clusterID # None
  /\ base' = cache /\ mem' = [cache EXCEPT !.finalizer = TRUE]
  /\ target' = ctlSeen.clusterID
  /\ \/ NoFault /\ pc' = IF cache.nodePoolID = None THEN "create" ELSE "scale"
     \/ Fault /\ pc' = "patchObject"
  /\ UNCHANGED <<ctlVars, owner, pool, cache, np, losses, edits>>

\* What the pass records of a pool it created, or adopted.
Created(obj, p) ==
  [obj EXCEPT !.nodePoolID = p, !.replicas = obj.want, !.applied = obj.attrs]

CreateFresh(p) ==
  /\ np[p].state = "unborn" /\ Live(target) /\ SameName(target) = {}
  /\ np' = [np EXCEPT ![p] = [state |-> "live", cluster |-> target, tagged |-> TRUE,
                              desired |-> mem.want, current |-> 0, attrs |-> mem.attrs]]

\* CreateNodePool: created; created with the answer lost; a conflict with a
\* same-name pool; or an error (also for a cluster that is no longer there).
CreateNodePool ==
  /\ pc = "create"
  /\ \/ NoFault /\ \E p \in PoolIDs : CreateFresh(p) /\ Goto("scale", Created(mem, p))
     \/ Fault /\ Close(mem) /\ \E p \in PoolIDs : CreateFresh(p)
     \/ NoFault /\ Live(target) /\ SameName(target) # {} /\ Goto("adopt", mem) /\ UNCHANGED np
     \/ NoFault /\ ~Live(target) /\ Close(mem) /\ UNCHANGED np
     \/ /\ NoFault /\ SameName(target) = {} /\ \A p \in PoolIDs : np[p].state # "unborn"
        /\ Close(mem) /\ UNCHANGED np
     \/ Fault /\ Close(mem) /\ UNCHANGED np
  /\ UNCHANGED <<ctlVars, owner, pool, cache, losses, edits>>

\* After a conflict: find the pool by name and adopt it if it is ours.
AdoptConflict ==
  /\ pc = "adopt"
  /\ \/ /\ NoFault /\ Live(target)
        /\ \E p \in SameName(target) : Adoptable(p) /\ Goto("scale", Created(mem, p))
     \/ NoFault /\ ~Live(target) /\ Close(mem)
     \/ NoFault /\ (\A p \in SameName(target) : ~Adoptable(p)) /\ Close(mem)
     \/ Fault /\ Close(mem)
  /\ UNCHANGED <<ctlVars, owner, pool, cache, np, losses, edits>>

\* (variant) the owner's count ignored
OwnerIgnored(obj) == obj

\* The owning MachinePool exists and carries the external-autoscaler annotation.
ExternallyManaged == external /\ owner # None

\* syncReplicasFromOwner, unless an external autoscaler drives the count.
SyncReplicasFromOwner(obj) ==
  IF ExternallyManaged \/ owner = None THEN obj ELSE [obj EXCEPT !.want = owner]

\* ScaleNodePool when status and spec differ; it comes before the listing.
ScaleNodePool ==
  /\ pc = "scale"
  /\ LET obj == SyncReplicasFromOwner(mem)
         id == obj.nodePoolID
         due == ~ExternallyManaged /\ obj.replicas # obj.want
         scaled == Usable(id, target) /\ np' = [np EXCEPT ![id].desired = obj.want]
     IN \/ ~due /\ NoFault /\ Goto("update", obj) /\ UNCHANGED np
        \/ due /\ NoFault /\ scaled /\ Goto("update", obj)
        \/ due /\ NoFault /\ ~Usable(id, target) /\ Close(obj) /\ UNCHANGED np
        \/ due /\ Fault /\ Close(obj) /\ (scaled \/ UNCHANGED np)
        \/ Fault /\ Close(mem) /\ UNCHANGED np
  /\ UNCHANGED <<ctlVars, owner, pool, cache, losses, edits>>

\* (variant) attributes are final once the pool exists
NeverChanged(obj) == FALSE

\* Do the recorded attributes differ from the spec's?
AttrsChanged(obj) == obj.applied # obj.attrs

\* UpdateNodePool, then UpgradeNodePool rolls the attributes onto the nodes;
\* they are recorded as applied only after both.
UpdateNodePool ==
  /\ pc = "update"
  /\ LET id == mem.nodePoolID
         updated == Usable(id, target) /\ np' = [np EXCEPT ![id].attrs = mem.attrs]
     IN \/ ~AttrsChanged(mem) /\ NoFault /\ Goto("list", mem) /\ UNCHANGED np
        \/ /\ AttrsChanged(mem)
           /\ \/ NoFault /\ updated /\ Goto("list", [mem EXCEPT !.applied = mem.attrs])
              \/ NoFault /\ ~Usable(id, target) /\ Close(mem) /\ UNCHANGED np
              \/ Fault /\ Close(mem) /\ (updated \/ UNCHANGED np)
  /\ UNCHANGED <<ctlVars, owner, pool, cache, losses, edits>>

\* (variants) the ID replaced by a marker; the MachinePool left alone
NotListedMarksID(obj) == [obj EXCEPT !.nodePoolID = "deleted"]
NoReverseSync == FALSE

\* The observed count is the actual one.
Observed(obj) == [obj EXCEPT !.replicas = np[obj.nodePoolID].current]

\* The count of an externally managed pool is written back to its MachinePool.
ReverseSync == ExternallyManaged

\* A pool that is not listed loses its ID, to be recreated by a later pass.
NotListed(obj) == [obj EXCEPT !.nodePoolID = None]

\* ListNodePools and the tags, whose errors return first; then refresh the
\* observed count and, under an external autoscaler, patch it into the owner.
ListNodePools ==
  /\ pc = "list"
  /\ LET id == mem.nodePoolID
     IN \/ /\ NoFault /\ Live(target) /\ Listed(id, target)
           /\ owner' = IF ReverseSync THEN np[id].current ELSE owner
           /\ Goto("tail", Observed(mem))
        \/ /\ Fault /\ Live(target) /\ Listed(id, target) /\ ReverseSync
           /\ Close(Observed(mem)) /\ UNCHANGED owner
        \/ NoFault /\ Live(target) /\ ~Listed(id, target) /\ Close(NotListed(mem)) /\ UNCHANGED owner
        \/ NoFault /\ ~Live(target) /\ Close(mem) /\ UNCHANGED owner
        \/ Fault /\ Close(mem) /\ UNCHANGED owner
  /\ UNCHANGED <<ctlVars, pool, cache, np, losses, edits>>

\* Provider IDs and node repair: an error returns before Ready is set.
Tail ==
  /\ pc = "tail"
  /\ \/ NoFault /\ Live(target) /\ Close([mem EXCEPT !.ready = TRUE])
     \/ NoFault /\ ~Usable(mem.nodePoolID, target) /\ Close(mem)
     \/ Fault /\ Close(mem)
  /\ UNCHANGED <<ctlVars, owner, pool, cache, np, losses, edits>>

\* (variant) the whole in-memory value is written
Overwritten(new, old, stored) == new

\* A merge patch writes the fields the pass changed and no others.
Merged(new, old, stored) == IF new # old THEN new ELSE stored

\* scope.Close: the object, then the status, each attempted on its own.
PatchObject ==
  /\ pc = "patchObject"
  /\ \/ /\ pool.exists /\ NoFault
        /\ pool' = [pool EXCEPT !.finalizer = Merged(mem.finalizer, base.finalizer, @),
                                !.want = Merged(mem.want, base.want, @),
                                !.attrs = Merged(mem.attrs, base.attrs, @)]
     \/ ~pool.exists /\ NoFault /\ UNCHANGED pool
     \/ Fault /\ UNCHANGED pool
  /\ pc' = "patchStatus" /\ UNCHANGED <<mem, base, target>>
  /\ UNCHANGED <<ctlVars, owner, cache, np, losses, edits>>

PatchStatus ==
  /\ pc = "patchStatus"
  /\ \/ /\ pool.exists /\ NoFault
        /\ pool' = [pool EXCEPT !.nodePoolID = Merged(mem.nodePoolID, base.nodePoolID, @),
                                !.replicas = Merged(mem.replicas, base.replicas, @),
                                !.applied = Merged(mem.applied, base.applied, @),
                                !.ready = Merged(mem.ready, base.ready, @)]
     \/ ~pool.exists /\ NoFault /\ UNCHANGED pool
     \/ Fault /\ UNCHANGED pool
  /\ EndPass
  /\ UNCHANGED <<ctlVars, owner, cache, np, losses, edits>>

-----------------------------------------------------------------------------
(* reconcileDelete                                                         *)

FailDelete == Fault /\ EndPass

\* (variant) a missing control plane is an error like any other
MustAskCloud == FALSE

\* Without a control plane, or without its cluster ID, the pool is gone with
\* the cluster and no cloud call is made.
GoneWithCluster == ~ctlSeen.exists \/ ctlSeen.clusterID = None

StartDelete ==
  /\ CanRead /\ cache.exists /\ cache.deleting
  /\ \/ /\ NoFault /\ mem' = cache /\ base' = cache
        /\ target' = ctlSeen.clusterID
        /\ pc' = CASE cache.nodePoolID = None -> "dRelease"
                   [] cache.nodePoolID # None /\ GoneWithCluster -> "dClear"
                   [] cache.nodePoolID # None /\ ~GoneWithCluster -> "dList"
     \/ FailDelete
  /\ UNCHANGED <<ctlVars, owner, pool, cache, np, losses, edits>>

\* Only a listing that succeeded tells that the pool is gone.
ListForDelete ==
  /\ pc = "dList"
  /\ \/ NoFault /\ Live(target) /\ Listed(mem.nodePoolID, target) /\ Goto("dDelete", mem)
     \/ NoFault /\ Live(target) /\ ~Listed(mem.nodePoolID, target) /\ Goto("dClear", mem)
     \/ NoFault /\ ~Live(target) /\ EndPass
     \/ FailDelete
  /\ UNCHANGED <<ctlVars, owner, pool, cache, np, losses, edits>>

\* Request the deletion (gone and already deleting are success), bump the
\* poll annotation, and wait for the next pass.
DeleteNodePool ==
  /\ pc = "dDelete"
  /\ LET id == mem.nodePoolID
         deleted == np' = IF Usable(id, target) THEN [np EXCEPT ![id].state = "deleting"] ELSE np
     IN (NoFault /\ EndPass /\ deleted) \/ (FailDelete /\ (deleted \/ UNCHANGED np))
  /\ UNCHANGED <<ctlVars, owner, pool, cache, losses, edits>>

\* (variant) an update that does not check the version it was computed from
UncheckedWrite == pool.exists

\* Update and Status().Update carry the resourceVersion that was read.
VersionMatches == pool = base

\* Status().Update clears the ID and refreshes the in-memory object.
ClearNodePoolID ==
  /\ pc = "dClear"
  /\ \/ /\ VersionMatches /\ NoFault
        /\ pool' = [mem EXCEPT !.nodePoolID = None]
        /\ mem' = pool' /\ base' = pool' /\ pc' = "dRelease" /\ UNCHANGED target
     \/ ~VersionMatches /\ NoFault /\ EndPass /\ UNCHANGED pool
     \/ FailDelete /\ UNCHANGED pool
  /\ UNCHANGED <<ctlVars, owner, cache, np, losses, edits>>

\* Update without the finalizer: the object goes away.
ReleaseFinalizer ==
  /\ pc = "dRelease"
  /\ \/ VersionMatches /\ NoFault /\ pool' = Blank
     \/ ~VersionMatches /\ NoFault /\ UNCHANGED pool
     \/ Fault /\ UNCHANGED pool
  /\ EndPass
  /\ UNCHANGED <<ctlVars, owner, cache, np, losses, edits>>

-----------------------------------------------------------------------------
(* The surroundings.                                                       *)

Lose == losses < MaxLosses /\ losses' = losses + 1
Edit == edits < MaxEdits /\ edits' = edits + 1

\* A step of the control plane or of its cluster; a cluster that ends takes its
\* pools with it.
ControlPlaneStep(A) ==
  /\ A
  /\ LET ended == {c \in Clusters : Live(c) /\ running'[c] # "live"}
     IN np' = [p \in PoolIDs |-> IF np[p].cluster \in ended
                                  THEN [np[p] EXCEPT !.state = "gone"] ELSE np[p]]
  /\ dropped' = IF Live(ctl.clusterID) /\ ctl'.clusterID # ctl.clusterID
                  THEN dropped \cup {ctl.clusterID} ELSE dropped
  /\ UNCHANGED <<ctlSeen, owner, pool, cache, passVars, faults, edits>>

\* It creates a cluster, stores the finalizer, records a live cluster, becomes
\* Ready over one, and forgets one that is gone (Ready stays).
ControlPlaneWorks ==
  /\ \/ ctl.exists /\ ctl.clusterID = None /\ \E c \in Clusters : ControlPlaneStep(Ctl!ClusterBorn(c))
     \/ ~ctl.guarded /\ ControlPlaneStep(Ctl!Guard)
     \/ \E c \in Clusters, r \in BOOLEAN :
          /\ Live(c) /\ (c # ctl.clusterID \/ r # ctl.ready)
          /\ ControlPlaneStep(Ctl!Report(c, r))
     \/ /\ ctl.clusterID # None /\ ~Live(ctl.clusterID)
        /\ ControlPlaneStep(Ctl!Report(None, ctl.ready))
  /\ UNCHANGED losses

\* Its cluster is deleted, by itself or in the console; it leaves, drops a live
\* record, or records a cluster that has ended since.
ControlPlaneLoses ==
  /\ Lose
  /\ \/ \E c \in Clusters : ControlPlaneStep(Ctl!ClusterEnds(c))
     \/ ControlPlaneStep(Ctl!Leave)
     \/ Live(ctl.clusterID) /\ ControlPlaneStep(Ctl!Report(None, ctl.ready))
     \/ \E c \in Clusters : Ctl!Ended(c) /\ ControlPlaneStep(Ctl!Report(c, ctl.ready))

\* A user creates it again.
ControlPlaneAppears == ControlPlaneStep(Ctl!Appear) /\ UNCHANGED losses

\* The two informers catch up, each on its own.
PoolSync ==
  /\ cache # pool /\ cache' = pool
  /\ UNCHANGED <<ctlVars, owner, pool, np, passVars, boundVars>>

ControlPlaneSync ==
  /\ ctlSeen # ctl /\ ctlSeen' = ctl
  /\ UNCHANGED <<ctl, running, dropped, owner, pool, cache, np, passVars, boundVars>>

CloudChange(p, new) ==
  /\ np' = [np EXCEPT ![p] = new]
  /\ UNCHANGED <<ctlVars, owner, pool, cache, passVars, faults>>

\* Nodes come and go until the pool has its desired count.
CloudScales(p) ==
  /\ np[p].state = "live" /\ np[p].current # np[p].desired
  /\ CloudChange(p, [np[p] EXCEPT !.current = np[p].desired]) /\ UNCHANGED <<losses, edits>>

CloudDeletes(p) ==
  /\ np[p].state = "deleting"
  /\ CloudChange(p, [np[p] EXCEPT !.state = "gone"]) /\ UNCHANGED <<losses, edits>>

\* Somebody deletes the pool, or makes one of the same name, in the console.
PoolLost(p) ==
  /\ np[p].state = "live" /\ Lose
  /\ CloudChange(p, [np[p] EXCEPT !.state = "deleting", !.current = 0]) /\ UNCHANGED edits

ForeignPool(p) ==
  /\ np[p].state = "unborn" /\ Lose
  /\ \E c \in Clusters : /\ Live(c) /\ SameName(c) = {}
                         /\ CloudChange(p, [NoPool EXCEPT !.state = "live", !.cluster = c])
  /\ UNCHANGED edits

\* The external autoscaler changes the count in the cloud.
AutoscalerScales(p) ==
  /\ external /\ np[p].state = "live" /\ Edit
  /\ \E n \in Counts : CloudChange(p, [np[p] EXCEPT !.desired = n])
  /\ UNCHANGED losses

\* kubectl scale machinepool, an edit of the attributes, a deletion.
UserScales ==
  /\ Edit /\ owner' \in Counts \ {owner}
  /\ UNCHANGED <<ctlVars, pool, cache, np, passVars, faults, losses>>

UserEdits ==
  /\ pool.exists /\ ~pool.deleting /\ Edit
  /\ \E a \in Attrs \ {pool.attrs} : pool' = [pool EXCEPT !.attrs = a]
  /\ UNCHANGED <<ctlVars, owner, cache, np, passVars, faults, losses>>

UserDelete ==
  /\ pool.exists /\ ~pool.deleting
  /\ pool' = IF pool.finalizer THEN [pool EXCEPT !.deleting = TRUE] ELSE Blank
  /\ UNCHANGED <<ctlVars, owner, cache, np, passVars, boundVars>>

Crash ==
  /\ pc # "idle" /\ Fault /\ EndPass
  /\ UNCHANGED <<ctlVars, owner, pool, cache, np, losses, edits>>

-----------------------------------------------------------------------------

reconcileNormal ==
  \/ StartNormal \/ CreateNodePool \/ AdoptConflict \/ ScaleNodePool
  \/ UpdateNodePool \/ ListNodePools \/ Tail \/ PatchObject \/ PatchStatus

reconcileDelete ==
  \/ StartDelete \/ ListForDelete \/ DeleteNodePool \/ ClearNodePoolID
  \/ ReleaseFinalizer

Reconcile == reconcileNormal \/ reconcileDelete
CloudProgress == \E p \in PoolIDs : CloudScales(p) \/ CloudDeletes(p)

\* The record lacks the attributes of a pool that is being adopted or updated
\* until a status patch stores them.
Unsettled ==
  {p \in PoolIDs :
     \/ p = mem'.nodePoolID /\ (pc = "adopt" \/ (pc = "update" /\ np'[p].attrs # np[p].attrs))
     \/ /\ p \in unsettled
        /\ ~(pc = "patchStatus" /\ p = pool'.nodePoolID /\ pool'.applied = np[p].attrs)}

\* The annotation does not change while the pool exists.
Beside == external' = external /\ unsettled' = Unsettled

Next ==
  /\ \/ Reconcile \/ ControlPlaneWorks \/ PoolSync \/ ControlPlaneSync \/ CloudProgress
     \/ ControlPlaneLoses \/ ControlPlaneAppears
     \/ \E p \in PoolIDs : PoolLost(p) \/ ForeignPool(p) \/ AutoscalerScales(p)
     \/ UserScales \/ UserEdits \/ UserDelete \/ Crash
  /\ Beside

Spec == Init /\ [][Next]_vars

\* Requeues, retries of errors, watch events and the informer's resync keep the
\* worker going; the control plane controller and the cloud do their part.
Fairness ==
  /\ WF_vars(Reconcile /\ Beside)
  /\ WF_vars(PoolSync /\ Beside)
  /\ WF_vars(ControlPlaneSync /\ Beside)
  /\ WF_vars(ControlPlaneWorks /\ Beside)
  /\ WF_vars(CloudProgress /\ Beside)

FairSpec == Spec /\ Fairness

-----------------------------------------------------------------------------
(* Properties.                                                             *)

\* Every variable holds a value the code can produce.
TypeOK ==
  /\ ctl \in Ctl!Control /\ ctlSeen \in Ctl!Control
  /\ running \in [Clusters -> {"unborn", "live", "gone"}] /\ dropped \subseteq Clusters
  /\ owner \in Counts \cup {None} /\ external \in BOOLEAN
  /\ pool \in Object /\ cache \in Object /\ mem \in Object /\ base \in Object
  /\ np \in [PoolIDs -> NodePool]
  /\ pc \in {"idle"} \cup Steps /\ target \in ClusterRef /\ unsettled \subseteq PoolIDs
  /\ faults \in 0..MaxFaults /\ losses \in 0..MaxLosses /\ edits \in 0..MaxEdits

\* The pool still runs nodes.
Present(p) == p \in PoolIDs /\ np[p].state \in {"live", "deleting"}

Runs(p, n) == Present(p) /\ np[p].current = n

\* PoolOwnedOnly: neither the stored object nor a pass in flight holds the ID of
\* a node pool without the owned tag, so none is scaled or deleted for it.
PoolOwnedOnly == \A obj \in {pool, mem} : obj.nodePoolID # None => np[obj.nodePoolID].tagged

\* Gone, or in a cluster whose record the control plane dropped while it lived.
Lost(p) == ~Present(p) \/ np[p].cluster \in dropped

\* PoolReleaseClean: an object with the finalizer leaves only when the node pool
\* its status recorded last is gone, however stale the object and the control
\* plane the pass had read, and the ID is cleared on the way only then; the one
\* exception is a cluster its control plane stopped recording while it lived.
PoolReleaseClean ==
  [][/\ pool.exists /\ pool.finalizer /\ ~pool'.exists => Lost(pool.nodePoolID)
     /\ pc = "dClear" /\ pool' # pool => Lost(pool.nodePoolID)]_vars

\* PoolRecordKept: while the recorded pool is there, in a cluster whose record
\* was never dropped, no patch puts another ID in its place, and only a pass
\* that read the ID of an earlier pool, and did not find that one, clears it.
PoolRecordKept ==
  [][pool.exists /\ pool'.exists /\ ~Lost(pool.nodePoolID)
       => \/ pool'.nodePoolID = pool.nodePoolID
          \/ pool'.nodePoolID = None /\ base.nodePoolID \notin {pool.nodePoolID, None}]_vars

Wanted == pool.exists /\ ~pool.deleting

\* PoolDeletionCompletes: a pool marked for deletion is eventually gone, also
\* when its cluster is lost, its control plane leaves first, or calls fail.
PoolDeletionCompletes == (pool.exists /\ pool.deleting) ~> ~pool.exists

\* The control plane has a living cluster, and in it this object has its node pool
\* or can have one: the recorded pool, if any, is not lost, no stranger's bears the
\* name, and there is one left to create.
Attainable ==
  /\ ctl.exists /\ Live(ctl.clusterID)
  /\ pool.nodePoolID # None => np[pool.nodePoolID].state = "live"
  /\ \A p \in SameName(ctl.clusterID) : np[p].tagged
  /\ \E p \in PoolIDs : np[p].state = "unborn" \/ p \in SameName(ctl.clusterID)

\* ReplicasConverge: the count the MachinePool asks for becomes the desired
\* count of the recorded pool in the cloud, as long as that can be there: a scale
\* that is pending when the pool is lost fails on every pass, before the listing
\* that would notice the loss.
ReplicasConverge ==
  \A n \in Counts :
    (Wanted /\ ~external /\ owner = n)
      ~> (\/ ~Wanted \/ owner # n \/ ~Attainable
          \/ Present(pool.nodePoolID) /\ np[pool.nodePoolID].desired = n)

\* CountReported: status.replicas and, under an external autoscaler, the
\* MachinePool's spec.replicas follow the count in the cloud, unless the control
\* plane stopped recording the cluster while it lived.
CountReported ==
  \A n \in Counts :
    (Wanted /\ Runs(pool.nodePoolID, n))
      ~> (\/ ~Wanted \/ ~Runs(pool.nodePoolID, n) \/ dropped # {}
          \/ pool.replicas = n /\ (ExternallyManaged => owner = n))

\* The record holds the attributes the spec asks for, and the pool has others: it
\* was adopted, or the outcome of an update was lost and the spec went back.
Misjudged ==
  pool.applied = pool.attrs /\ pool.nodePoolID \in unsettled

\* AttrsConverge: the mutable attributes of the spec reach the recorded pool,
\* whichever calls fail and wherever the pass is cut off, as long as that can be
\* there.  The one exception is a pool that was adopted after a lost answer, or
\* updated without the record: if an edit came between, the record agrees with the
\* spec and the pool with neither.
AttrsConverge ==
  \A a \in Attrs :
    (Wanted /\ pool.attrs = a)
      ~> (\/ ~Wanted \/ pool.attrs # a \/ ~Attainable \/ Misjudged
          \/ Present(pool.nodePoolID) /\ np[pool.nodePoolID].attrs = a)
=============================================================================
