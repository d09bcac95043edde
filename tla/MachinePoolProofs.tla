------------------------- MODULE MachinePoolProofs -------------------------
(* Proofs about MachinePool, for every set of identifiers, every bound, and  *)
(* beside every control plane that keeps ControlPlaneContract.               *)
EXTENDS MachinePool, TLAPS

-----------------------------------------------------------------------------
(* What the updates of the model do to the types.                          *)

\* The fields of an object have the types Object gives them.
LEMMA FieldTypes ==
  ASSUME NEW o \in Object
  PROVE  /\ o.exists \in BOOLEAN /\ o.deleting \in BOOLEAN /\ o.finalizer \in BOOLEAN
         /\ o.want \in Counts /\ o.attrs \in Attrs \cup {None} /\ o.nodePoolID \in PoolRef
         /\ o.replicas \in Counts /\ o.applied \in Attrs \cup {None} /\ o.ready \in BOOLEAN
  BY DEF Object

\* No nodes is a count.
LEMMA ZeroCount == 0 \in Counts
  BY BoundAssumption DEF Counts

\* Blank and new objects are objects.
LEMMA NewObjects ==
  /\ Blank \in Object
  /\ \A n \in Counts : [Blank EXCEPT !.exists = TRUE, !.want = n, !.attrs = FirstAttrs] \in Object
  <1>1. FirstAttrs \in Attrs
    BY AttrsAssumption DEF FirstAttrs
  <1> QED BY <1>1, ZeroCount DEF Blank, Object, PoolRef

\* What a pass and a user do to an object in memory yields an object.
LEMMA ObjectUpdates ==
  ASSUME NEW o \in Object
  PROVE  /\ \A b \in BOOLEAN : /\ [o EXCEPT !.finalizer = b] \in Object
                               /\ [o EXCEPT !.ready = b] \in Object
                               /\ [o EXCEPT !.deleting = b] \in Object
         /\ \A n \in Counts : /\ [o EXCEPT !.want = n] \in Object
                              /\ [o EXCEPT !.replicas = n] \in Object
         /\ \A a \in Attrs \cup {None} : /\ [o EXCEPT !.applied = a] \in Object
                                         /\ [o EXCEPT !.attrs = a] \in Object
         /\ \A p \in PoolRef : [o EXCEPT !.nodePoolID = p] \in Object
  BY DEF Object

\* So does recording a pool.
LEMMA CreatedType ==
  ASSUME NEW o \in Object, NEW p \in PoolRef
  PROVE  Created(o, p) \in Object
  BY FieldTypes DEF Created, Object

\* Changing one field of one node pool keeps the node pools well typed.
LEMMA PoolUpdates ==
  ASSUME NEW f \in [PoolIDs -> NodePool], NEW p
  PROVE  /\ \A n \in Counts : [f EXCEPT ![p].desired = n] \in [PoolIDs -> NodePool]
         /\ \A a \in Attrs \cup {None} : [f EXCEPT ![p].attrs = a] \in [PoolIDs -> NodePool]
         /\ [f EXCEPT ![p].state = "deleting"] \in [PoolIDs -> NodePool]
         /\ \A v \in NodePool : [f EXCEPT ![p] = v] \in [PoolIDs -> NodePool]
  <1>1. \A n \in Counts : [f EXCEPT ![p].desired = n] \in [PoolIDs -> NodePool]
    BY DEF NodePool
  <1>2. \A a \in Attrs \cup {None} : [f EXCEPT ![p].attrs = a] \in [PoolIDs -> NodePool]
    BY DEF NodePool
  <1>3. [f EXCEPT ![p].state = "deleting"] \in [PoolIDs -> NodePool]
    BY DEF NodePool
  <1>4. \A v \in NodePool : [f EXCEPT ![p] = v] \in [PoolIDs -> NodePool]
    OBVIOUS
  <1> QED BY <1>1, <1>2, <1>3, <1>4

\* Values of a single node pool.
LEMMA PoolValues ==
  ASSUME NEW v \in NodePool
  PROVE  /\ v.desired \in Counts /\ v.current \in Counts
         /\ [v EXCEPT !.current = v.desired] \in NodePool
         /\ [v EXCEPT !.state = "gone"] \in NodePool
         /\ [v EXCEPT !.state = "deleting", !.current = 0] \in NodePool
         /\ \A n \in Counts : [v EXCEPT !.desired = n] \in NodePool
  BY ZeroCount DEF NodePool

\* Pools that are not there, and those a user makes.
LEMMA NewPools ==
  /\ NoPool \in NodePool
  /\ \A c \in Clusters : [NoPool EXCEPT !.state = "live", !.cluster = c] \in NodePool
  BY ZeroCount DEF NoPool, NodePool, ClusterRef

\* A pool the pass creates.
LEMMA FreshType ==
  ASSUME TypeOK, NEW p \in PoolIDs, CreateFresh(p)
  PROVE  np' \in [PoolIDs -> NodePool]
  <1>1. mem.want \in Counts /\ mem.attrs \in Attrs \cup {None} /\ target \in ClusterRef
    BY FieldTypes DEF TypeOK
  <1>2. [state |-> "live", cluster |-> target, tagged |-> TRUE,
         desired |-> mem.want, current |-> 0, attrs |-> mem.attrs] \in NodePool
    BY <1>1, ZeroCount DEF NodePool
  <1> QED BY <1>2, PoolUpdates DEF CreateFresh, TypeOK

-----------------------------------------------------------------------------
(* The type invariant.                                                     *)

\* The initial state is well typed.
LEMMA TypeInit == Init => TypeOK
  <1> SUFFICES ASSUME Init PROVE TypeOK OBVIOUS
  <1>1. ctl \in Ctl!Control /\ ctlSeen \in Ctl!Control
    BY DEF Init, Ctl!Present, Ctl!Control
  <1>2. np \in [PoolIDs -> NodePool]
    BY NewPools DEF Init
  <1>3. faults \in 0..MaxFaults /\ losses \in 0..MaxLosses /\ edits \in 0..MaxEdits
    BY BoundAssumption DEF Init
  <1>4. pool \in Object /\ cache \in Object /\ mem \in Object /\ base \in Object
    BY NewObjects DEF Init
  <1> QED BY <1>1, <1>2, <1>3, <1>4 DEF Init, TypeOK, ClusterRef

\* Counted faults, losses and edits stay within their bounds.
LEMMA BoundsKept ==
  ASSUME TypeOK
  PROVE  /\ Fault \/ NoFault => faults' \in 0..MaxFaults
         /\ Lose \/ UNCHANGED losses => losses' \in 0..MaxLosses
         /\ Edit \/ UNCHANGED edits => edits' \in 0..MaxEdits
  BY BoundAssumption DEF TypeOK, Fault, NoFault, Lose, Edit

\* Steps of the pool's own worker leave its surroundings alone.
LEMMA AroundKept ==
  ASSUME TypeOK, UNCHANGED <<ctlVars, external, losses, edits>>
  PROVE  /\ ctl' \in Ctl!Control /\ ctlSeen' \in Ctl!Control
         /\ running' \in [Clusters -> {"unborn", "live", "gone"}] /\ dropped' \subseteq Clusters
         /\ external' \in BOOLEAN
         /\ losses' \in 0..MaxLosses /\ edits' \in 0..MaxEdits
  BY DEF TypeOK, ctlVars

\* The variables of a pass, after a step that moves on, closes or ends it.
PassTyped == /\ mem \in Object /\ base \in Object /\ target \in ClusterRef
             /\ pc \in {"idle"} \cup Steps

\* Every way a pass goes on keeps them typed.
LEMMA PassMoves ==
  ASSUME TypeOK
  PROVE  /\ EndPass => PassTyped'
         /\ \A l \in Steps, o \in Object : Goto(l, o) => PassTyped'
         /\ \A o \in Object : Close(o) => PassTyped'
  <1>1. EndPass => PassTyped'
    BY NewObjects DEF EndPass, PassTyped, ClusterRef
  <1>2. \A l \in Steps, o \in Object : Goto(l, o) => PassTyped'
    BY DEF Goto, PassTyped, TypeOK
  <1>3. \A o \in Object : Close(o) => PassTyped'
    BY DEF Close, PassTyped, TypeOK, Steps
  <1> QED BY <1>1, <1>2, <1>3

\* reconcileNormal keeps the types, step by step.
LEMMA NormalTyped ==
  ASSUME TypeOK, reconcileNormal, UNCHANGED external, unsettled' \subseteq PoolIDs
  PROVE  TypeOK'
  <1> USE DEF Steps
  <1>m. /\ mem \in Object /\ cache \in Object /\ base \in Object /\ pool \in Object
        /\ np \in [PoolIDs -> NodePool] /\ owner \in Counts \cup {None}
    BY DEF TypeOK
  <1>1. CASE StartNormal
    <2>1. [cache EXCEPT !.finalizer = TRUE] \in Object
      BY <1>m, ObjectUpdates
    <2>2. PassTyped'
      BY <1>1, <1>m, <2>1 DEF StartNormal, PassTyped, TypeOK, Ctl!Control, ClusterRef
    <2>3. faults' \in 0..MaxFaults
      BY <1>1, BoundsKept DEF StartNormal
    <2> QED BY <1>1, <1>m, <2>2, <2>3, AroundKept DEF StartNormal, TypeOK, PassTyped
  <1>2. CASE CreateNodePool
    <2>1. np' \in [PoolIDs -> NodePool]
      BY <1>2, <1>m, FreshType DEF CreateNodePool
    <2>2. \A p \in PoolIDs : Created(mem, p) \in Object
      BY <1>m, CreatedType DEF PoolRef
    <2>3. PassTyped'
      BY <1>2, <1>m, <2>2, PassMoves DEF CreateNodePool
    <2>4. faults' \in 0..MaxFaults
      BY <1>2, BoundsKept DEF CreateNodePool
    <2> QED BY <1>2, <1>m, <2>1, <2>3, <2>4, AroundKept DEF CreateNodePool, TypeOK, PassTyped
  <1>3. CASE AdoptConflict
    <2>1. \A p \in SameName(target) : Created(mem, p) \in Object
      BY <1>m, CreatedType DEF PoolRef, SameName
    <2>2. PassTyped'
      BY <1>3, <1>m, <2>1, PassMoves DEF AdoptConflict
    <2>3. faults' \in 0..MaxFaults
      BY <1>3, BoundsKept DEF AdoptConflict
    <2> QED BY <1>3, <1>m, <2>2, <2>3, AroundKept DEF AdoptConflict, TypeOK, PassTyped
  <1>4. CASE ScaleNodePool
    <2> DEFINE obj == SyncReplicasFromOwner(mem)
    <2>1. obj \in Object
      BY <1>m, ObjectUpdates DEF SyncReplicasFromOwner
    <2>2. obj.want \in Counts
      BY <2>1, FieldTypes
    <2>3. np' \in [PoolIDs -> NodePool]
      <3>1. np' = np \/ np' = [np EXCEPT ![obj.nodePoolID].desired = obj.want]
        BY <1>4 DEF ScaleNodePool
      <3>2. [np EXCEPT ![obj.nodePoolID].desired = obj.want] \in [PoolIDs -> NodePool]
        BY <1>m, <2>2, PoolUpdates
      <3> QED BY <1>m, <3>1, <3>2
    <2>4. PassTyped'
      BY <1>4, <1>m, <2>1, PassMoves DEF ScaleNodePool
    <2>5. faults' \in 0..MaxFaults
      BY <1>4, BoundsKept DEF ScaleNodePool
    <2> QED BY <1>4, <1>m, <2>3, <2>4, <2>5, AroundKept DEF ScaleNodePool, TypeOK, PassTyped
  <1>5. CASE UpdateNodePool
    <2>1. mem.attrs \in Attrs \cup {None}
      BY <1>m, FieldTypes
    <2>2. [mem EXCEPT !.applied = mem.attrs] \in Object
      BY <1>m, <2>1, ObjectUpdates
    <2>3. np' \in [PoolIDs -> NodePool]
      <3>1. np' = np \/ np' = [np EXCEPT ![mem.nodePoolID].attrs = mem.attrs]
        BY <1>5 DEF UpdateNodePool
      <3>2. [np EXCEPT ![mem.nodePoolID].attrs = mem.attrs] \in [PoolIDs -> NodePool]
        BY <1>m, <2>1, PoolUpdates
      <3> QED BY <1>m, <3>1, <3>2
    <2>4. PassTyped'
      BY <1>5, <1>m, <2>2, PassMoves DEF UpdateNodePool
    <2>5. faults' \in 0..MaxFaults
      BY <1>5, BoundsKept DEF UpdateNodePool
    <2> QED BY <1>5, <1>m, <2>3, <2>4, <2>5, AroundKept DEF UpdateNodePool, TypeOK, PassTyped
  <1>6. CASE ListNodePools
    <2>1. Listed(mem.nodePoolID, target) => np[mem.nodePoolID].current \in Counts
      BY <1>m, PoolValues DEF Listed
    <2>2. Listed(mem.nodePoolID, target) => Observed(mem) \in Object
      BY <1>m, <2>1, ObjectUpdates DEF Observed
    <2>3. NotListed(mem) \in Object
      BY <1>m, ObjectUpdates DEF NotListed, PoolRef
    <2>4. PassTyped'
      BY <1>6, <1>m, <2>2, <2>3, PassMoves DEF ListNodePools
    <2>5. faults' \in 0..MaxFaults
      BY <1>6, BoundsKept DEF ListNodePools
    <2>6. owner' \in Counts \cup {None}
      BY <1>6, <1>m, <2>1 DEF ListNodePools
    <2> QED BY <1>6, <1>m, <2>4, <2>5, <2>6, AroundKept DEF ListNodePools, TypeOK, PassTyped
  <1>7. CASE Tail
    <2>1. [mem EXCEPT !.ready = TRUE] \in Object
      BY <1>m, ObjectUpdates
    <2>2. PassTyped'
      BY <1>7, <1>m, <2>1, PassMoves DEF Tail
    <2>3. faults' \in 0..MaxFaults
      BY <1>7, BoundsKept DEF Tail
    <2> QED BY <1>7, <1>m, <2>2, <2>3, AroundKept DEF Tail, TypeOK, PassTyped
  <1>8. CASE PatchObject
    <2>1. pool' \in Object
      <3>1. /\ Merged(mem.finalizer, base.finalizer, pool.finalizer) \in BOOLEAN
            /\ Merged(mem.want, base.want, pool.want) \in Counts
            /\ Merged(mem.attrs, base.attrs, pool.attrs) \in Attrs \cup {None}
        BY <1>m, FieldTypes DEF Merged
      <3>2. [pool EXCEPT !.finalizer = Merged(mem.finalizer, base.finalizer, @),
                         !.want = Merged(mem.want, base.want, @),
                         !.attrs = Merged(mem.attrs, base.attrs, @)] \in Object
        BY <1>m, <3>1 DEF Object
      <3> QED BY <1>8, <1>m, <3>2 DEF PatchObject
    <2>2. PassTyped'
      BY <1>8, <1>m DEF PatchObject, PassTyped, TypeOK
    <2>3. faults' \in 0..MaxFaults
      BY <1>8, BoundsKept DEF PatchObject
    <2> QED BY <1>8, <1>m, <2>1, <2>2, <2>3, AroundKept DEF PatchObject, TypeOK, PassTyped
  <1>9. CASE PatchStatus
    <2>1. pool' \in Object
      <3>1. /\ Merged(mem.nodePoolID, base.nodePoolID, pool.nodePoolID) \in PoolRef
            /\ Merged(mem.replicas, base.replicas, pool.replicas) \in Counts
            /\ Merged(mem.applied, base.applied, pool.applied) \in Attrs \cup {None}
            /\ Merged(mem.ready, base.ready, pool.ready) \in BOOLEAN
        BY <1>m, FieldTypes DEF Merged
      <3>2. [pool EXCEPT !.nodePoolID = Merged(mem.nodePoolID, base.nodePoolID, @),
                         !.replicas = Merged(mem.replicas, base.replicas, @),
                         !.applied = Merged(mem.applied, base.applied, @),
                         !.ready = Merged(mem.ready, base.ready, @)] \in Object
        BY <1>m, <3>1 DEF Object
      <3> QED BY <1>9, <1>m, <3>2 DEF PatchStatus
    <2>2. PassTyped'
      BY <1>9, PassMoves DEF PatchStatus
    <2>3. faults' \in 0..MaxFaults
      BY <1>9, BoundsKept DEF PatchStatus
    <2> QED BY <1>9, <1>m, <2>1, <2>2, <2>3, AroundKept DEF PatchStatus, TypeOK, PassTyped
  <1> QED BY <1>1, <1>2, <1>3, <1>4, <1>5, <1>6, <1>7, <1>8, <1>9 DEF reconcileNormal

\* reconcileDelete keeps the types, step by step.
LEMMA DeleteTyped ==
  ASSUME TypeOK, reconcileDelete, UNCHANGED external, unsettled' \subseteq PoolIDs
  PROVE  TypeOK'
  <1> USE DEF Steps
  <1>m. /\ mem \in Object /\ cache \in Object /\ base \in Object /\ pool \in Object
        /\ np \in [PoolIDs -> NodePool] /\ owner \in Counts \cup {None}
    BY DEF TypeOK
  <1>1. CASE StartDelete
    <2>1. PassTyped'
      <3>1. CASE EndPass
        BY <3>1, PassMoves
      <3>2. CASE /\ mem' = cache /\ base' = cache /\ target' = ctlSeen.clusterID
                 /\ pc' \in {"dRelease", "dClear", "dList"}
        BY <3>2, <1>m DEF PassTyped, TypeOK, Ctl!Control, ClusterRef
      <3> QED BY <1>1, <3>1, <3>2 DEF StartDelete, FailDelete
    <2>2. faults' \in 0..MaxFaults
      BY <1>1, BoundsKept DEF StartDelete, FailDelete
    <2> QED BY <1>1, <1>m, <2>1, <2>2, AroundKept DEF StartDelete, TypeOK, PassTyped
  <1>2. CASE ListForDelete
    <2>1. PassTyped'
      BY <1>2, <1>m, PassMoves DEF ListForDelete, FailDelete
    <2>2. faults' \in 0..MaxFaults
      BY <1>2, BoundsKept DEF ListForDelete, FailDelete
    <2> QED BY <1>2, <1>m, <2>1, <2>2, AroundKept DEF ListForDelete, TypeOK, PassTyped
  <1>3. CASE DeleteNodePool
    <2>1. np' \in [PoolIDs -> NodePool]
      <3>1. np' = np \/ np' = [np EXCEPT ![mem.nodePoolID].state = "deleting"]
        BY <1>3 DEF DeleteNodePool
      <3>2. [np EXCEPT ![mem.nodePoolID].state = "deleting"] \in [PoolIDs -> NodePool]
        BY <1>m, PoolUpdates
      <3> QED BY <1>m, <3>1, <3>2
    <2>2. PassTyped'
      BY <1>3, <1>m, PassMoves DEF DeleteNodePool, FailDelete
    <2>3. faults' \in 0..MaxFaults
      BY <1>3, BoundsKept DEF DeleteNodePool, FailDelete
    <2> QED BY <1>3, <1>m, <2>1, <2>2, <2>3, AroundKept DEF DeleteNodePool, TypeOK, PassTyped
  <1>4. CASE ClearNodePoolID
    <2>1. [mem EXCEPT !.nodePoolID = None] \in Object
      BY <1>m, ObjectUpdates DEF PoolRef
    <2>2. pool' \in Object /\ PassTyped'
      <3>1. CASE EndPass /\ UNCHANGED pool
        BY <3>1, <1>m, PassMoves
      <3>2. CASE /\ pool' = [mem EXCEPT !.nodePoolID = None]
                 /\ mem' = pool' /\ base' = pool' /\ pc' = "dRelease" /\ UNCHANGED target
        BY <3>2, <2>1 DEF PassTyped, TypeOK
      <3> QED BY <1>4, <3>1, <3>2 DEF ClearNodePoolID, FailDelete
    <2>3. faults' \in 0..MaxFaults
      BY <1>4, BoundsKept DEF ClearNodePoolID, FailDelete
    <2> QED BY <1>4, <1>m, <2>2, <2>3, AroundKept DEF ClearNodePoolID, TypeOK, PassTyped
  <1>5. CASE ReleaseFinalizer
    <2>1. pool' \in Object
      BY <1>5, <1>m, NewObjects DEF ReleaseFinalizer
    <2>2. PassTyped'
      BY <1>5, PassMoves DEF ReleaseFinalizer
    <2>3. faults' \in 0..MaxFaults
      BY <1>5, BoundsKept DEF ReleaseFinalizer
    <2> QED BY <1>5, <1>m, <2>1, <2>2, <2>3, AroundKept DEF ReleaseFinalizer, TypeOK, PassTyped
  <1> QED BY <1>1, <1>2, <1>3, <1>4, <1>5 DEF reconcileDelete

-----------------------------------------------------------------------------
(* The surroundings.                                                       *)

\* What accompanies a step of the control plane.
Accompanies ==
  /\ LET ended == {c \in Clusters : Live(c) /\ running'[c] # "live"}
     IN np' = [p \in PoolIDs |-> IF np[p].cluster \in ended
                                  THEN [np[p] EXCEPT !.state = "gone"] ELSE np[p]]
  /\ dropped' = IF Live(ctl.clusterID) /\ ctl'.clusterID # ctl.clusterID
                  THEN dropped \cup {ctl.clusterID} ELSE dropped
  /\ UNCHANGED <<ctlSeen, owner, pool, cache, passVars, faults, edits>>

\* The contract's own types.
ControlTyped == /\ ctl \in Ctl!Control
                /\ running \in [Clusters -> {"unborn", "live", "gone"}]

\* The steps of the control plane are steps of its contract, keep its types,
\* and are accompanied by the loss of the pools of a cluster that ends.
LEMMA ControlSteps ==
  ASSUME TypeOK, ControlPlaneWorks \/ ControlPlaneLoses \/ ControlPlaneAppears
  PROVE  Accompanies /\ ControlTyped' /\ (Lose \/ UNCHANGED losses)
  <1> DEFINE Contract == \/ Ctl!Appear \/ Ctl!Guard \/ Ctl!Leave
                         \/ \E id \in Clusters \cup {None}, r \in BOOLEAN : Ctl!Report(id, r)
                         \/ \E c \in Clusters : Ctl!ClusterBorn(c) \/ Ctl!ClusterEnds(c)
  <1>1. ctl.ready \in BOOLEAN /\ ctl.guarded \in BOOLEAN /\ ctl.clusterID \in Clusters \cup {None}
    BY DEF TypeOK, Ctl!Control
  <1>2. Contract /\ Accompanies
    <2>1. CASE ControlPlaneWorks
      BY <1>1, <2>1 DEF ControlPlaneWorks, ControlPlaneStep, Accompanies
    <2>2. CASE ControlPlaneLoses
      BY <1>1, <2>2 DEF ControlPlaneLoses, ControlPlaneStep, Accompanies
    <2>3. CASE ControlPlaneAppears
      BY <2>3 DEF ControlPlaneAppears, ControlPlaneStep, Accompanies
    <2> QED BY <2>1, <2>2, <2>3
  <1>3. Contract => ControlTyped'
    <2>0. /\ Ctl!Absent \in Ctl!Control
          /\ \A g \in BOOLEAN, r \in BOOLEAN, id \in Clusters \cup {None} :
               Ctl!Present(g, r, id) \in Ctl!Control
      BY DEF Ctl!Present, Ctl!Absent, Ctl!Control
    <2>1. Ctl!Appear \/ Ctl!Guard \/ Ctl!Leave => ControlTyped'
      BY <1>1, <2>0 DEF Ctl!Appear, Ctl!Guard, Ctl!Leave, ControlTyped, TypeOK
    <2>2. \A id \in Clusters \cup {None}, r \in BOOLEAN : Ctl!Report(id, r) => ControlTyped'
      BY <1>1, <2>0 DEF Ctl!Report, ControlTyped, TypeOK
    <2>3. \A c \in Clusters : Ctl!ClusterBorn(c) \/ Ctl!ClusterEnds(c) => ControlTyped'
      BY DEF Ctl!ClusterBorn, Ctl!ClusterEnds, ControlTyped, TypeOK
    <2> QED BY <2>1, <2>2, <2>3
  <1>4. Lose \/ UNCHANGED losses
    BY DEF ControlPlaneWorks, ControlPlaneLoses, ControlPlaneAppears
  <1> QED BY <1>2, <1>3, <1>4

\* Steps of the control plane, for the types of the rest.
LEMMA ControlPlaneTyped ==
  ASSUME TypeOK, ControlPlaneWorks \/ ControlPlaneLoses \/ ControlPlaneAppears,
         UNCHANGED external, unsettled' \subseteq PoolIDs
  PROVE  TypeOK'
  <1>1. Accompanies /\ ControlTyped' /\ losses' \in 0..MaxLosses
    BY ControlSteps, BoundsKept
  <1>2. np' \in [PoolIDs -> NodePool]
    <2>1. np \in [PoolIDs -> NodePool]
      BY DEF TypeOK
    <2>2. \A p \in PoolIDs : [np[p] EXCEPT !.state = "gone"] \in NodePool
      BY <2>1, PoolValues
    <2> QED BY <1>1, <2>1, <2>2 DEF Accompanies
  <1>3. dropped' \subseteq Clusters
    BY <1>1 DEF Accompanies, TypeOK, Live, Ctl!Live
  <1> QED BY <1>1, <1>2, <1>3 DEF Accompanies, ControlTyped, TypeOK, passVars

\* Steps of the cloud and of those who change it in the console.
CloudStep == \/ CloudProgress
             \/ \E p \in PoolIDs : PoolLost(p) \/ ForeignPool(p) \/ AutoscalerScales(p)

\* Informers, users and a crash.
OtherStep == PoolSync \/ ControlPlaneSync \/ UserScales \/ UserEdits \/ UserDelete \/ Crash

\* Changes of the cloud keep the types.
LEMMA CloudTyped ==
  ASSUME TypeOK, CloudStep, UNCHANGED external, unsettled' \subseteq PoolIDs
  PROVE  TypeOK'
  <1>1. \A p \in PoolIDs : np[p] \in NodePool
    BY DEF TypeOK
  <1>2. PICK p \in PoolIDs, v \in NodePool : CloudChange(p, v)
    BY <1>1, PoolValues, NewPools
       DEF CloudStep, CloudProgress, CloudScales, CloudDeletes, PoolLost, ForeignPool,
           AutoscalerScales
  <1>3. losses' \in 0..MaxLosses /\ edits' \in 0..MaxEdits
    BY BoundsKept
       DEF CloudStep, CloudProgress, CloudScales, CloudDeletes, PoolLost, ForeignPool,
           AutoscalerScales
  <1>4. np' \in [PoolIDs -> NodePool]
    BY <1>2, PoolUpdates DEF CloudChange, TypeOK
  <1> QED BY <1>2, <1>3, <1>4 DEF CloudChange, TypeOK, ctlVars, passVars

\* So do the other steps.
LEMMA OtherTyped ==
  ASSUME TypeOK, OtherStep, UNCHANGED external, unsettled' \subseteq PoolIDs
  PROVE  TypeOK'
  <1>m. pool \in Object /\ ctl \in Ctl!Control
    BY DEF TypeOK
  <1>1. CASE PoolSync
    BY <1>1 DEF PoolSync, TypeOK, ctlVars, passVars, boundVars
  <1>2. CASE ControlPlaneSync
    BY <1>2 DEF ControlPlaneSync, TypeOK, passVars, boundVars
  <1>3. CASE UserScales
    BY <1>3, BoundsKept DEF UserScales, TypeOK, ctlVars, passVars
  <1>4. CASE UserEdits
    <2>1. pool' \in Object
      <3>1. PICK a \in Attrs : pool' = [pool EXCEPT !.attrs = a]
        BY <1>4 DEF UserEdits
      <3> QED BY <3>1, <1>m, ObjectUpdates
    <2>2. edits' \in 0..MaxEdits
      BY <1>4, BoundsKept DEF UserEdits
    <2> QED BY <1>4, <2>1, <2>2 DEF UserEdits, TypeOK, ctlVars, passVars
  <1>5. CASE UserDelete
    <2>1. pool' \in Object
      BY <1>5, <1>m, ObjectUpdates, NewObjects DEF UserDelete
    <2> QED BY <1>5, <2>1 DEF UserDelete, TypeOK, ctlVars, passVars, boundVars
  <1>6. CASE Crash
    <2>1. PassTyped'
      BY <1>6, PassMoves DEF Crash
    <2>2. faults' \in 0..MaxFaults
      BY <1>6, BoundsKept DEF Crash
    <2> QED BY <1>6, <2>1, <2>2, AroundKept DEF Crash, TypeOK, PassTyped
  <1> QED BY <1>1, <1>2, <1>3, <1>4, <1>5, <1>6 DEF OtherStep

\* The steps of the specification, by who takes them.
LEMMA StepKinds ==
  ASSUME Next
  PROVE  /\ UNCHANGED external /\ unsettled' \subseteq PoolIDs
         /\ \/ reconcileNormal \/ reconcileDelete
            \/ ControlPlaneWorks \/ ControlPlaneLoses \/ ControlPlaneAppears
            \/ CloudStep \/ OtherStep
  BY DEF Next, Beside, Unsettled, Reconcile, CloudStep, OtherStep

\* Every step keeps the types.
LEMMA TypeStep == TypeOK /\ [Next]_vars => TypeOK'
  <1>1. ASSUME TypeOK, Next PROVE TypeOK'
    BY <1>1, StepKinds, NormalTyped, DeleteTyped, ControlPlaneTyped, CloudTyped, OtherTyped
  <1>2. ASSUME TypeOK, UNCHANGED vars PROVE TypeOK'
    BY <1>2 DEF TypeOK, vars, ctlVars, passVars, boundVars
  <1> QED BY <1>1, <1>2

\* TypeCorrect: every state of the machine-pool controller and of its
\* surroundings is well typed, whatever fails and however stale the reads are.
THEOREM TypeCorrect == Spec => []TypeOK
  BY TypeInit, TypeStep, PTL DEF Spec

-----------------------------------------------------------------------------
(* Only pools with the owned tag are held.                                 *)

\* An ID an object may hold: none, or that of a node pool with the owned tag.
Owned(id) == id = None \/ (id \in PoolIDs /\ np[id].tagged)

\* PoolOwnedOnly is not inductive: the cache hands its ID to the next pass, and
\* a pool of somebody else's must not be made under an ID that is in use.
HeldOwned == Owned(pool.nodePoolID) /\ Owned(cache.nodePoolID) /\ Owned(mem.nodePoolID)
TaggedBorn == \A p \in PoolIDs : np[p].tagged => np[p].state # "unborn"
IInv == TypeOK /\ HeldOwned /\ TaggedBorn

\* The owned tag is never lost, and only pools that exist get it.
TagsStay == /\ \A p \in PoolIDs : np[p].tagged => np'[p].tagged
            /\ TaggedBorn'

\* What each change of the node pools does to the tags.
LEMMA TagUpdates ==
  ASSUME np \in [PoolIDs -> NodePool], TaggedBorn, NEW id
  PROVE  /\ np' = np => TagsStay
         /\ \A n : np' = [np EXCEPT ![id].desired = n] => TagsStay
         /\ \A a : np' = [np EXCEPT ![id].attrs = a] => TagsStay
         /\ np' = [np EXCEPT ![id].state = "deleting"] => TagsStay
         /\ \A v \in NodePool : np' = [np EXCEPT ![id] = v]
              /\ (id \in PoolIDs /\ np[id].tagged => v.tagged)
              /\ (v.tagged => v.state # "unborn")
              => TagsStay
  BY DEF TagsStay, TaggedBorn, NodePool

\* The IDs a step may go on holding.
Sources == {None, pool.nodePoolID, cache.nodePoolID, mem.nodePoolID}

\* After a step every held ID was held before, or is that of a tagged pool.
HeldFrom == /\ pool'.nodePoolID \in Sources /\ cache'.nodePoolID \in Sources
            /\ \/ mem'.nodePoolID \in Sources
               \/ mem'.nodePoolID \in PoolIDs /\ np'[mem'.nodePoolID].tagged

\* That is enough for the held pools to stay tagged ones.
LEMMA HeldKept ==
  ASSUME HeldOwned, TagsStay, HeldFrom
  PROVE  HeldOwned'
  BY DEF HeldOwned, TagsStay, HeldFrom, Sources, Owned

\* Updates of other fields keep the ID an object holds.
LEMMA SameID ==
  ASSUME NEW o \in Object
  PROVE  /\ \A b : /\ [o EXCEPT !.finalizer = b].nodePoolID = o.nodePoolID
                   /\ [o EXCEPT !.ready = b].nodePoolID = o.nodePoolID
                   /\ [o EXCEPT !.deleting = b].nodePoolID = o.nodePoolID
         /\ \A n : /\ [o EXCEPT !.want = n].nodePoolID = o.nodePoolID
                   /\ [o EXCEPT !.replicas = n].nodePoolID = o.nodePoolID
         /\ \A a : /\ [o EXCEPT !.applied = a].nodePoolID = o.nodePoolID
                   /\ [o EXCEPT !.attrs = a].nodePoolID = o.nodePoolID
         /\ \A p : /\ [o EXCEPT !.nodePoolID = p].nodePoolID = p
                   /\ Created(o, p).nodePoolID = p
         /\ Blank.nodePoolID = None
  BY DEF Object, Created, Blank

\* The ID the pass holds, after a step that moves on, closes or ends it.
LEMMA PassID ==
  /\ \A l, o : Goto(l, o) => mem'.nodePoolID = o.nodePoolID
  /\ \A o : Close(o) => mem'.nodePoolID = o.nodePoolID
  /\ EndPass => mem'.nodePoolID = None
  BY DEF Goto, Close, EndPass, Blank

\* A fresh pool is tagged, and every other pool keeps its tag.
LEMMA FreshTagged ==
  ASSUME TypeOK, TaggedBorn, NEW p \in PoolIDs, CreateFresh(p)
  PROVE  TagsStay /\ np'[p].tagged
  BY DEF CreateFresh, TypeOK, TagsStay, TaggedBorn, NodePool

\* reconcileNormal takes up an ID only from the cache, from a pool it created,
\* or from one that carries the tag.
LEMMA NormalHeld ==
  ASSUME IInv, reconcileNormal
  PROVE  TagsStay /\ HeldFrom
  <1>m. /\ mem \in Object /\ cache \in Object /\ base \in Object /\ pool \in Object
        /\ np \in [PoolIDs -> NodePool] /\ TypeOK /\ TaggedBorn
    BY DEF IInv, TypeOK
  <1>t. np' = np => TagsStay
    BY <1>m, TagUpdates
  <1>1. CASE StartNormal
    BY <1>1, <1>m, <1>t, SameID DEF StartNormal, HeldFrom, Sources
  <1>2. CASE CreateNodePool
    <2>1. ASSUME NEW p \in PoolIDs, CreateFresh(p), Goto("scale", Created(mem, p))
          PROVE  /\ TagsStay
                 /\ mem'.nodePoolID \in PoolIDs /\ np'[mem'.nodePoolID].tagged
      <3>1. mem'.nodePoolID = p
        BY <2>1, <1>m, SameID, PassID
      <3> QED BY <2>1, <3>1, <1>m, FreshTagged
    <2>2. ASSUME NEW p \in PoolIDs, CreateFresh(p), Close(mem)
          PROVE  TagsStay /\ mem'.nodePoolID = mem.nodePoolID
      BY <2>2, <1>m, FreshTagged, PassID
    <2>3. ASSUME UNCHANGED np, Goto("adopt", mem) \/ Close(mem)
          PROVE  TagsStay /\ mem'.nodePoolID = mem.nodePoolID
      BY <2>3, <1>t, PassID
    <2>4. /\ TagsStay
          /\ \/ mem'.nodePoolID = mem.nodePoolID
             \/ mem'.nodePoolID \in PoolIDs /\ np'[mem'.nodePoolID].tagged
      BY <1>2, <2>1, <2>2, <2>3 DEF CreateNodePool
    <2> QED BY <1>2, <2>4 DEF CreateNodePool, HeldFrom, Sources
  <1>3. CASE AdoptConflict
    <2>1. ASSUME NEW p \in SameName(target), Adoptable(p), Goto("scale", Created(mem, p))
          PROVE  mem'.nodePoolID \in PoolIDs /\ np[mem'.nodePoolID].tagged
      <3>1. mem'.nodePoolID = p
        BY <2>1, <1>m, SameID, PassID
      <3> QED BY <2>1, <3>1 DEF SameName, Adoptable
    <2>2. \/ mem'.nodePoolID = mem.nodePoolID
          \/ mem'.nodePoolID \in PoolIDs /\ np[mem'.nodePoolID].tagged
      BY <1>3, <2>1, PassID DEF AdoptConflict
    <2> QED BY <1>3, <1>t, <2>2 DEF AdoptConflict, HeldFrom, Sources
  <1>4. CASE ScaleNodePool
    <2> DEFINE obj == SyncReplicasFromOwner(mem)
    <2>1. obj.nodePoolID = mem.nodePoolID
      BY <1>m, SameID DEF SyncReplicasFromOwner
    <2>2. mem'.nodePoolID = mem.nodePoolID
      BY <1>4, <2>1, PassID DEF ScaleNodePool
    <2>3. np' = np \/ np' = [np EXCEPT ![obj.nodePoolID].desired = obj.want]
      BY <1>4 DEF ScaleNodePool
    <2>4. TagsStay
      BY <1>m, <2>3, TagUpdates
    <2> QED BY <1>4, <2>2, <2>4 DEF ScaleNodePool, HeldFrom, Sources
  <1>5. CASE UpdateNodePool
    <2>1. mem'.nodePoolID = mem.nodePoolID
      <3>1. [mem EXCEPT !.applied = mem.attrs].nodePoolID = mem.nodePoolID
        BY <1>m, SameID
      <3> QED BY <1>5, <3>1, PassID DEF UpdateNodePool
    <2>2. np' = np \/ np' = [np EXCEPT ![mem.nodePoolID].attrs = mem.attrs]
      BY <1>5 DEF UpdateNodePool
    <2>3. TagsStay
      BY <1>m, <2>2, TagUpdates
    <2> QED BY <1>5, <2>1, <2>3 DEF UpdateNodePool, HeldFrom, Sources
  <1>6. CASE ListNodePools
    <2>1. Observed(mem).nodePoolID = mem.nodePoolID /\ NotListed(mem).nodePoolID = None
      BY <1>m, SameID DEF Observed, NotListed
    <2>2. mem'.nodePoolID \in {mem.nodePoolID, None}
      BY <1>6, <2>1, PassID DEF ListNodePools
    <2> QED BY <1>6, <1>t, <2>2 DEF ListNodePools, HeldFrom, Sources
  <1>7. CASE Tail
    <2>1. mem'.nodePoolID = mem.nodePoolID
      <3>1. [mem EXCEPT !.ready = TRUE].nodePoolID = mem.nodePoolID
        BY <1>m, SameID
      <3> QED BY <1>7, <3>1, PassID DEF Tail
    <2> QED BY <1>7, <1>t, <2>1 DEF Tail, HeldFrom, Sources
  <1>8. CASE PatchObject
    <2>1. pool'.nodePoolID = pool.nodePoolID
      BY <1>8, <1>m DEF PatchObject, Object
    <2> QED BY <1>8, <1>t, <2>1 DEF PatchObject, HeldFrom, Sources
  <1>9. CASE PatchStatus
    <2>1. pool'.nodePoolID \in {pool.nodePoolID, mem.nodePoolID}
      BY <1>9, <1>m DEF PatchStatus, Object, Merged
    <2> QED BY <1>9, <1>t, <2>1, PassID DEF PatchStatus, HeldFrom, Sources
  <1> QED BY <1>1, <1>2, <1>3, <1>4, <1>5, <1>6, <1>7, <1>8, <1>9 DEF reconcileNormal

\* reconcileDelete takes up an ID only from the cache.
LEMMA DeleteHeld ==
  ASSUME IInv, reconcileDelete
  PROVE  TagsStay /\ HeldFrom
  <1>m. /\ mem \in Object /\ cache \in Object /\ base \in Object /\ pool \in Object
        /\ np \in [PoolIDs -> NodePool] /\ TypeOK /\ TaggedBorn
    BY DEF IInv, TypeOK
  <1>t. np' = np => TagsStay
    BY <1>m, TagUpdates
  <1>1. CASE StartDelete
    <2>1. mem'.nodePoolID \in {cache.nodePoolID, None}
      BY <1>1, PassID DEF StartDelete, FailDelete
    <2> QED BY <1>1, <1>t, <2>1 DEF StartDelete, HeldFrom, Sources
  <1>2. CASE ListForDelete
    <2>1. mem'.nodePoolID \in {mem.nodePoolID, None}
      BY <1>2, PassID DEF ListForDelete, FailDelete
    <2> QED BY <1>2, <1>t, <2>1 DEF ListForDelete, HeldFrom, Sources
  <1>3. CASE DeleteNodePool
    <2>1. np' = np \/ np' = [np EXCEPT ![mem.nodePoolID].state = "deleting"]
      BY <1>3 DEF DeleteNodePool
    <2>2. TagsStay
      BY <1>m, <2>1, TagUpdates
    <2>3. mem'.nodePoolID = None
      BY <1>3, PassID DEF DeleteNodePool, FailDelete
    <2> QED BY <1>3, <2>2, <2>3 DEF DeleteNodePool, HeldFrom, Sources
  <1>4. CASE ClearNodePoolID
    <2>1. [mem EXCEPT !.nodePoolID = None].nodePoolID = None
      BY <1>m, SameID
    <2>2. mem'.nodePoolID = None /\ pool'.nodePoolID \in {pool.nodePoolID, None}
      BY <1>4, <2>1, PassID DEF ClearNodePoolID, FailDelete
    <2> QED BY <1>4, <1>t, <2>2 DEF ClearNodePoolID, HeldFrom, Sources
  <1>5. CASE ReleaseFinalizer
    <2>1. mem'.nodePoolID = None /\ pool'.nodePoolID \in {pool.nodePoolID, None}
      BY <1>5, <1>m, SameID, PassID DEF ReleaseFinalizer
    <2> QED BY <1>5, <1>t, <2>1 DEF ReleaseFinalizer, HeldFrom, Sources
  <1> QED BY <1>1, <1>2, <1>3, <1>4, <1>5 DEF reconcileDelete

\* The surroundings leave the tags of existing pools alone, and the informer
\* hands on the stored ID.
LEMMA SurroundingsHeld ==
  ASSUME IInv, \/ ControlPlaneWorks \/ ControlPlaneLoses \/ ControlPlaneAppears
               \/ CloudStep \/ OtherStep
  PROVE  TagsStay /\ HeldFrom
  <1>m. /\ pool \in Object /\ np \in [PoolIDs -> NodePool] /\ TypeOK /\ TaggedBorn
    BY DEF IInv, TypeOK
  <1>t. np' = np => TagsStay
    BY <1>m, TagUpdates
  <1>1. CASE ControlPlaneWorks \/ ControlPlaneLoses \/ ControlPlaneAppears
    <2>1. Accompanies
      BY <1>1, <1>m, ControlSteps
    <2>2. \A p \in PoolIDs : np'[p].tagged = np[p].tagged /\ np'[p].state \in {np[p].state, "gone"}
      BY <1>m, <2>1 DEF Accompanies, NodePool
    <2>3. TagsStay
      BY <1>m, <2>2 DEF TagsStay, TaggedBorn
    <2> QED BY <2>1, <2>3 DEF Accompanies, passVars, HeldFrom, Sources
  <1>2. CASE CloudStep
    <2>1. \A p \in PoolIDs : np[p] \in NodePool
      BY <1>m
    <2>2. PICK p \in PoolIDs, v \in NodePool :
            /\ CloudChange(p, v) /\ (np[p].tagged => v.tagged) /\ (v.tagged => v.state # "unborn")
      <3>1. PICK p \in PoolIDs : \/ CloudScales(p) \/ CloudDeletes(p) \/ PoolLost(p)
                                 \/ ForeignPool(p) \/ AutoscalerScales(p)
        BY <1>2 DEF CloudStep, CloudProgress
      <3>2. np[p] \in NodePool /\ (np[p].tagged => np[p].state # "unborn")
        BY <1>m DEF TaggedBorn
      <3>3. CASE CloudScales(p) \/ AutoscalerScales(p)
        <4>1. PICK v \in NodePool : /\ CloudChange(p, v)
                                    /\ v.tagged = np[p].tagged /\ v.state = np[p].state
          <5>1. \A n : /\ [np[p] EXCEPT !.current = n].tagged = np[p].tagged
                       /\ [np[p] EXCEPT !.current = n].state = np[p].state
                       /\ [np[p] EXCEPT !.desired = n].tagged = np[p].tagged
                       /\ [np[p] EXCEPT !.desired = n].state = np[p].state
            BY <3>2 DEF NodePool
          <5>2. /\ [np[p] EXCEPT !.current = np[p].desired] \in NodePool
                /\ \A n \in Counts : [np[p] EXCEPT !.desired = n] \in NodePool
            BY <3>2, PoolValues
          <5> QED BY <3>3, <5>1, <5>2 DEF CloudScales, AutoscalerScales
        <4> QED BY <3>2, <4>1
      <3>4. CASE CloudDeletes(p) \/ PoolLost(p)
        <4>1. PICK v \in NodePool : /\ CloudChange(p, v)
                                    /\ v.tagged = np[p].tagged /\ v.state # "unborn"
          <5>1. /\ [np[p] EXCEPT !.state = "gone"].tagged = np[p].tagged
                /\ [np[p] EXCEPT !.state = "gone"].state # "unborn"
                /\ [np[p] EXCEPT !.state = "deleting", !.current = 0].tagged = np[p].tagged
                /\ [np[p] EXCEPT !.state = "deleting", !.current = 0].state # "unborn"
            BY <3>2 DEF NodePool
          <5>2. /\ [np[p] EXCEPT !.state = "gone"] \in NodePool
                /\ [np[p] EXCEPT !.state = "deleting", !.current = 0] \in NodePool
            BY <3>2, PoolValues
          <5> QED BY <3>4, <5>1, <5>2 DEF CloudDeletes, PoolLost
        <4> QED BY <4>1
      <3>5. CASE ForeignPool(p)
        <4>1. PICK v \in NodePool : CloudChange(p, v) /\ ~v.tagged
          BY <3>5, NewPools DEF ForeignPool, NoPool
        <4>2. ~np[p].tagged
          BY <3>2, <3>5 DEF ForeignPool
        <4> QED BY <4>1, <4>2
      <3> QED BY <3>1, <3>3, <3>4, <3>5
    <2>3. np' = [np EXCEPT ![p] = v]
      BY <2>2 DEF CloudChange
    <2>4. TagsStay
      BY <1>m, <2>2, <2>3, TagUpdates
    <2> QED BY <2>2, <2>4 DEF CloudChange, passVars, HeldFrom, Sources
  <1>3. CASE OtherStep
    <2>1. np' = np
      BY <1>3 DEF OtherStep, PoolSync, ControlPlaneSync, UserScales, UserEdits, UserDelete, Crash
    <2>t. TagsStay
      BY <1>t, <2>1
    <2>2. CASE PoolSync
      BY <2>2, <2>t DEF PoolSync, passVars, HeldFrom, Sources
    <2>3. CASE ControlPlaneSync \/ UserScales
      BY <2>3, <2>t DEF ControlPlaneSync, UserScales, passVars, HeldFrom, Sources
    <2>4. CASE UserEdits \/ UserDelete
      <3>1. pool'.nodePoolID \in {pool.nodePoolID, None}
        <4>1. /\ \A a : [pool EXCEPT !.attrs = a].nodePoolID = pool.nodePoolID
              /\ [pool EXCEPT !.deleting = TRUE].nodePoolID = pool.nodePoolID
              /\ Blank.nodePoolID = None
          BY <1>m, SameID
        <4> QED BY <2>4, <4>1 DEF UserEdits, UserDelete
      <3> QED BY <2>4, <2>t, <3>1 DEF UserEdits, UserDelete, passVars, HeldFrom, Sources
    <2>5. CASE Crash
      BY <2>5, <2>t, PassID DEF Crash, HeldFrom, Sources
    <2> QED BY <1>3, <2>2, <2>3, <2>4, <2>5 DEF OtherStep
  <1> QED BY <1>1, <1>2, <1>3

\* The initial state: no IDs, no pools.
LEMMA InvInit == Init => IInv
  <1> SUFFICES ASSUME Init PROVE IInv OBVIOUS
  <1>1. TypeOK
    BY TypeInit
  <1>2. HeldOwned
    BY SameID, NewObjects DEF Init, HeldOwned, Owned, Blank
  <1>3. TaggedBorn
    BY DEF Init, TaggedBorn, NoPool
  <1> QED BY <1>1, <1>2, <1>3 DEF IInv

\* Every step keeps the inductive invariant.
LEMMA InvStep == IInv /\ [Next]_vars => IInv'
  <1>1. ASSUME IInv, Next PROVE IInv'
    <2>1. TypeOK'
      BY <1>1, TypeStep DEF IInv
    <2>2. TagsStay /\ HeldFrom
      BY <1>1, StepKinds, NormalHeld, DeleteHeld, SurroundingsHeld
    <2>3. HeldOwned'
      BY <1>1, <2>2, HeldKept DEF IInv
    <2> QED BY <2>1, <2>2, <2>3 DEF IInv, TagsStay
  <1>2. ASSUME IInv, UNCHANGED vars PROVE IInv'
    <2>1. TypeOK'
      BY <1>2, TypeStep DEF IInv
    <2>2. HeldOwned' /\ TaggedBorn'
      BY <1>2 DEF IInv, HeldOwned, TaggedBorn, Owned, vars, passVars
    <2> QED BY <2>1, <2>2 DEF IInv
  <1> QED BY <1>1, <1>2

\* PoolOwnedOnlyAlways: whatever calls fail, whatever the console does and
\* however stale the caches, neither the stored object nor a pass in flight ever
\* holds the ID of a node pool without the owned tag.
THEOREM PoolOwnedOnlyAlways == Spec => []PoolOwnedOnly
  <1>1. IInv => PoolOwnedOnly
    BY DEF IInv, HeldOwned, Owned, PoolOwnedOnly
  <1> QED BY <1>1, InvInit, InvStep, PTL DEF Spec

-----------------------------------------------------------------------------
(* What a record is worth: the control plane and its clusters over time.    *)

\* A cluster the control plane stopped recording while it lived, or one that
\* has ended; and a cluster that is the recorded one or such a one.
Passed(c) == c \in dropped \/ Ctl!Ended(c)
Followed(c, id) == id = c \/ Passed(c)

\* A pool lives in a living cluster, one of the name in each.
PoolsSound == \A p \in PoolIDs :
  /\ np[p].state = "unborn" => np[p].cluster = None
  /\ np[p].tagged => np[p].cluster \in Clusters
  /\ Present(p) => Live(np[p].cluster)
  /\ \A q \in PoolIDs : Present(p) /\ Present(q) /\ np[p].cluster = np[q].cluster => p = q

\* What was read from the control plane is what it still says, or the cluster is
\* dropped or ended; the pools of the provider are in such clusters.
ControlFollowed ==
  /\ ctl.clusterID # None => ctl.exists /\ running[ctl.clusterID] # "unborn"
  /\ ctlSeen.clusterID # None => ctlSeen.exists /\ Followed(ctlSeen.clusterID, ctl.clusterID)
  /\ target # None => Followed(target, ctlSeen.clusterID)
  /\ \A p \in PoolIDs : np[p].tagged =>
       /\ Followed(np[p].cluster, ctlSeen.clusterID)
       /\ pc # "idle" => Followed(np[p].cluster, target)

CreateSteps == {"create", "adopt"}
RecordSteps == {"scale", "update", "list", "tail", "patchObject", "patchStatus"}
DeleteSteps == {"dList", "dDelete", "dClear", "dRelease"}

\* What a pass has learnt about the pool that was recorded when it began, and
\* about the one that is recorded now.
PassSound ==
  /\ Owned(base.nodePoolID)
  /\ pc \in CreateSteps => mem.nodePoolID = None /\ base.nodePoolID = None
  /\ pc \in RecordSteps =>
       /\ base.nodePoolID # None =>
            mem.nodePoolID = base.nodePoolID \/ (mem.nodePoolID = None /\ Lost(base.nodePoolID))
       /\ base.nodePoolID = None /\ mem.nodePoolID # None =>
            pool.nodePoolID \in {None, mem.nodePoolID} \/ Lost(pool.nodePoolID)
  /\ pc \in DeleteSteps => mem = base /\ base.deleting
  /\ pc = "dClear" => Lost(mem.nodePoolID)
  /\ pc = "dRelease" => mem.nodePoolID = None

\* A deletion is not taken back.
DeletionStays == \A o \in {cache, base} : o.deleting => pool.deleting \/ ~pool.exists

RecordInv == PoolsSound /\ ControlFollowed /\ PassSound /\ DeletionStays

\* A pool is born of the name's only one in a living cluster, a tagged one in
\* the cluster of the pass.
Born(p) ==
  /\ np'[p].state = "live" /\ Live(np'[p].cluster) /\ SameName(np'[p].cluster) = {}
  /\ np'[p].tagged => pc = "create" /\ np'[p].cluster = target
  /\ \A q \in PoolIDs \ {p} : np'[q] = np[q]
  /\ running' = running

\* What every step does to the pools: each is born once, stays where it was
\* born, does not survive its cluster, and once gone is gone.
PoolsOnward == \A p \in PoolIDs :
  /\ np[p].state = "unborn" => np'[p] = np[p] \/ Born(p)
  /\ np[p].state # "unborn" =>
       /\ np'[p].cluster = np[p].cluster /\ np'[p].tagged = np[p].tagged
       /\ np'[p].state # "unborn" /\ (np[p].state = "gone" => np'[p].state = "gone")
       /\ Live(np[p].cluster) /\ Present(p)' => Live(np[p].cluster)'

\* What every step does to the control plane and its clusters.
ControlOnward ==
  /\ \A c \in Clusters : Passed(c) => Passed(c)'
  /\ \A c \in Clusters : ctl.clusterID = c => Followed(c, ctl.clusterID)'
  /\ ctl'.clusterID # None => ctl'.exists /\ running'[ctl'.clusterID] # "unborn"
  /\ ctlSeen' = ctlSeen \/ (ctlSeen' = ctl /\ ctl' = ctl)

\* A change of one pool that is there.
LEMMA OnePoolMoves ==
  ASSUME np \in [PoolIDs -> NodePool], running' = running,
         NEW p \in PoolIDs, NEW v \in NodePool, np' = [np EXCEPT ![p] = v],
         np[p].state # "unborn", v.state # "unborn", np[p].state = "gone" => v.state = "gone",
         v.cluster = np[p].cluster, v.tagged = np[p].tagged
  PROVE  PoolsOnward
  <1>1. \A q \in PoolIDs : np'[q] = IF q = p THEN v ELSE np[q]
    OBVIOUS
  <1>2. \A c : Live(c) => Live(c)'
    BY DEF Live, Ctl!Live
  <1> QED BY <1>1, <1>2 DEF PoolsOnward

\* A pool that is born.
LEMMA BornMoves ==
  ASSUME np \in [PoolIDs -> NodePool], running' = running,
         NEW p \in PoolIDs, NEW v \in NodePool, np' = [np EXCEPT ![p] = v],
         np[p].state = "unborn", v.state = "live", Live(v.cluster), SameName(v.cluster) = {},
         v.tagged => pc = "create" /\ v.cluster = target
  PROVE  PoolsOnward
  <1>1. \A q \in PoolIDs : np'[q] = IF q = p THEN v ELSE np[q]
    OBVIOUS
  <1>2. \A c : Live(c) => Live(c)'
    BY DEF Live, Ctl!Live
  <1>3. Born(p)
    BY <1>1 DEF Born
  <1> QED BY <1>1, <1>2, <1>3 DEF PoolsOnward

\* Pools nobody touches.
LEMMA StillPools ==
  ASSUME np' = np, running' = running
  PROVE  PoolsOnward
  BY DEF PoolsOnward, Live, Ctl!Live

\* One field of a pool that is there.
LEMMA FieldMoves ==
  ASSUME TypeOK, running' = running, NEW p \in PoolIDs, np[p].state # "unborn"
  PROVE  /\ \A n \in Counts : np' = [np EXCEPT ![p].desired = n] => PoolsOnward
         /\ \A a \in Attrs \cup {None} : np' = [np EXCEPT ![p].attrs = a] => PoolsOnward
         /\ np[p].state = "live" /\ np' = [np EXCEPT ![p].state = "deleting"] => PoolsOnward
  <1>0. np \in [PoolIDs -> NodePool] /\ np[p] \in NodePool
    BY DEF TypeOK
  <1>1. ASSUME NEW n \in Counts, np' = [np EXCEPT ![p].desired = n] PROVE PoolsOnward
    <2> DEFINE v == [np[p] EXCEPT !.desired = n]
    <2>1. v \in NodePool /\ v.state = np[p].state /\ v.cluster = np[p].cluster /\ v.tagged = np[p].tagged
      BY <1>0 DEF NodePool
    <2>2. np' = [np EXCEPT ![p] = v]
      BY <1>1
    <2> HIDE DEF v
    <2> QED BY <1>0, <2>1, <2>2, OnePoolMoves
  <1>2. ASSUME NEW a \in Attrs \cup {None}, np' = [np EXCEPT ![p].attrs = a] PROVE PoolsOnward
    <2> DEFINE v == [np[p] EXCEPT !.attrs = a]
    <2>1. v \in NodePool /\ v.state = np[p].state /\ v.cluster = np[p].cluster /\ v.tagged = np[p].tagged
      BY <1>0 DEF NodePool
    <2>2. np' = [np EXCEPT ![p] = v]
      BY <1>2
    <2> HIDE DEF v
    <2> QED BY <1>0, <2>1, <2>2, OnePoolMoves
  <1>3. ASSUME np[p].state = "live", np' = [np EXCEPT ![p].state = "deleting"] PROVE PoolsOnward
    <2> DEFINE v == [np[p] EXCEPT !.state = "deleting"]
    <2>1. v \in NodePool /\ v.state = "deleting" /\ v.cluster = np[p].cluster /\ v.tagged = np[p].tagged
      BY <1>0 DEF NodePool
    <2>2. np' = [np EXCEPT ![p] = v]
      BY <1>3
    <2> HIDE DEF v
    <2> QED BY <1>0, <1>3, <2>1, <2>2, OnePoolMoves
  <1> QED BY <1>1, <1>2, <1>3

\* A pool CreateNodePool makes.
LEMMA FreshMoves ==
  ASSUME TypeOK, running' = running, pc = "create", NEW p \in PoolIDs, CreateFresh(p)
  PROVE  PoolsOnward
  <1> DEFINE v == [state |-> "live", cluster |-> target, tagged |-> TRUE,
                   desired |-> mem.want, current |-> 0, attrs |-> mem.attrs]
  <1>1. mem.want \in Counts /\ mem.attrs \in Attrs \cup {None} /\ target \in ClusterRef
    BY FieldTypes DEF TypeOK
  <1>2. v \in NodePool /\ v.state = "live" /\ v.cluster = target
    BY <1>1, ZeroCount DEF NodePool
  <1>3. /\ np' = [np EXCEPT ![p] = v] /\ np[p].state = "unborn" /\ Live(target)
        /\ SameName(target) = {} /\ np \in [PoolIDs -> NodePool]
    BY DEF CreateFresh, TypeOK
  <1> HIDE DEF v
  <1> QED BY <1>2, <1>3, BornMoves

\* The worker's steps.
LEMMA WorkerPools ==
  ASSUME TypeOK, reconcileNormal \/ reconcileDelete
  PROVE  PoolsOnward /\ UNCHANGED ctlVars
  <1>0. mem \in Object /\ cache \in Object
    BY DEF TypeOK
  <1>1. CASE CreateNodePool
    <2>1. UNCHANGED ctlVars /\ pc = "create" /\ (np' = np \/ \E p \in PoolIDs : CreateFresh(p))
      BY <1>1 DEF CreateNodePool
    <2>2. running' = running
      BY <2>1 DEF ctlVars
    <2> QED BY <2>1, <2>2, FreshMoves, StillPools
  <1>2. CASE ScaleNodePool
    <2> DEFINE obj == SyncReplicasFromOwner(mem)
    <2>1. obj \in Object
      BY <1>0, ObjectUpdates DEF SyncReplicasFromOwner, TypeOK
    <2>2. UNCHANGED ctlVars
      BY <1>2 DEF ScaleNodePool
    <2>3. \/ np' = np
          \/ Usable(obj.nodePoolID, target) /\ np' = [np EXCEPT ![obj.nodePoolID].desired = obj.want]
      BY <1>2 DEF ScaleNodePool
    <2> HIDE DEF obj
    <2>4. obj.want \in Counts
      BY <2>1, FieldTypes
    <2>5. running' = running
      BY <2>2 DEF ctlVars
    <2>6. Usable(obj.nodePoolID, target)
            => obj.nodePoolID \in PoolIDs /\ np[obj.nodePoolID].state # "unborn"
      BY DEF Usable, Listed
    <2> QED BY <2>2, <2>3, <2>4, <2>5, <2>6, FieldMoves, StillPools
  <1>3. CASE UpdateNodePool
    <2>1. UNCHANGED ctlVars
      BY <1>3 DEF UpdateNodePool
    <2>2. \/ np' = np
          \/ Usable(mem.nodePoolID, target) /\ np' = [np EXCEPT ![mem.nodePoolID].attrs = mem.attrs]
      BY <1>3 DEF UpdateNodePool
    <2>3. mem.attrs \in Attrs \cup {None}
      BY <1>0, FieldTypes
    <2>4. running' = running
      BY <2>1 DEF ctlVars
    <2>5. Usable(mem.nodePoolID, target)
            => mem.nodePoolID \in PoolIDs /\ np[mem.nodePoolID].state # "unborn"
      BY DEF Usable, Listed
    <2> QED BY <2>1, <2>2, <2>3, <2>4, <2>5, FieldMoves, StillPools
  <1>4. CASE DeleteNodePool
    <2>1. UNCHANGED ctlVars
      BY <1>4 DEF DeleteNodePool
    <2>2. \/ np' = np
          \/ Usable(mem.nodePoolID, target) /\ np' = [np EXCEPT ![mem.nodePoolID].state = "deleting"]
      BY <1>4 DEF DeleteNodePool
    <2>3. running' = running
      BY <2>1 DEF ctlVars
    <2>4. Usable(mem.nodePoolID, target)
            => mem.nodePoolID \in PoolIDs /\ np[mem.nodePoolID].state = "live"
      BY DEF Usable, Listed
    <2> QED BY <2>1, <2>2, <2>3, <2>4, FieldMoves, StillPools
  <1>5. CASE np' = np /\ UNCHANGED ctlVars
    BY <1>5, StillPools DEF ctlVars
  <1> QED BY <1>1, <1>2, <1>3, <1>4, <1>5
          DEF reconcileNormal, reconcileDelete, StartNormal, AdoptConflict, ListNodePools, Tail,
              PatchObject, PatchStatus, StartDelete, ListForDelete, ClearNodePoolID, ReleaseFinalizer

\* The cloud's own steps.
LEMMA CloudPools ==
  ASSUME TypeOK, CloudStep
  PROVE  PoolsOnward /\ UNCHANGED ctlVars
  <1>0. np \in [PoolIDs -> NodePool]
    BY DEF TypeOK
  <1>1. PICK p \in PoolIDs : \/ CloudScales(p) \/ CloudDeletes(p) \/ PoolLost(p)
                             \/ ForeignPool(p) \/ AutoscalerScales(p)
    BY DEF CloudStep, CloudProgress
  <1>2. np[p] \in NodePool
    BY <1>0
  <1>3. UNCHANGED ctlVars /\ running' = running
    BY <1>1 DEF CloudScales, CloudDeletes, PoolLost, ForeignPool, AutoscalerScales, CloudChange,
                ctlVars
  <1>4. CASE CloudScales(p) \/ CloudDeletes(p) \/ PoolLost(p) \/ AutoscalerScales(p)
    <2>1. \E v \in NodePool :
            /\ np' = [np EXCEPT ![p] = v] /\ np[p].state # "unborn" /\ v.state # "unborn"
            /\ np[p].state # "gone" /\ v.cluster = np[p].cluster /\ v.tagged = np[p].tagged
      <3>1. CASE CloudScales(p)
        <4> DEFINE v == [np[p] EXCEPT !.current = np[p].desired]
        <4>1. /\ v \in NodePool /\ v.state = np[p].state
              /\ v.cluster = np[p].cluster /\ v.tagged = np[p].tagged
          BY <1>2 DEF NodePool
        <4>2. np[p].state = "live" /\ np' = [np EXCEPT ![p] = v]
          BY <3>1 DEF CloudScales, CloudChange
        <4> HIDE DEF v
        <4> QED BY <4>1, <4>2
      <3>2. CASE CloudDeletes(p)
        <4> DEFINE v == [np[p] EXCEPT !.state = "gone"]
        <4>1. /\ v \in NodePool /\ v.state = "gone"
              /\ v.cluster = np[p].cluster /\ v.tagged = np[p].tagged
          BY <1>2 DEF NodePool
        <4>2. np[p].state = "deleting" /\ np' = [np EXCEPT ![p] = v]
          BY <3>2 DEF CloudDeletes, CloudChange
        <4> HIDE DEF v
        <4> QED BY <4>1, <4>2
      <3>3. CASE PoolLost(p)
        <4> DEFINE v == [np[p] EXCEPT !.state = "deleting", !.current = 0]
        <4>1. /\ v \in NodePool /\ v.state = "deleting"
              /\ v.cluster = np[p].cluster /\ v.tagged = np[p].tagged
          BY <1>2, ZeroCount DEF NodePool
        <4>2. np[p].state = "live" /\ np' = [np EXCEPT ![p] = v]
          BY <3>3 DEF PoolLost, CloudChange
        <4> HIDE DEF v
        <4> QED BY <4>1, <4>2
      <3>4. CASE AutoscalerScales(p)
        <4>1. PICK n \in Counts : CloudChange(p, [np[p] EXCEPT !.desired = n])
          BY <3>4 DEF AutoscalerScales
        <4> DEFINE v == [np[p] EXCEPT !.desired = n]
        <4>2. /\ v \in NodePool /\ v.state = np[p].state
              /\ v.cluster = np[p].cluster /\ v.tagged = np[p].tagged
          BY <1>2 DEF NodePool
        <4>3. np[p].state = "live" /\ np' = [np EXCEPT ![p] = v]
          BY <3>4, <4>1 DEF AutoscalerScales, CloudChange
        <4> HIDE DEF v
        <4> QED BY <4>2, <4>3
      <3> QED BY <1>4, <3>1, <3>2, <3>3, <3>4
    <2> QED BY <1>0, <1>3, <2>1, OnePoolMoves
  <1>5. CASE ForeignPool(p)
    <2>1. PICK c \in Clusters : /\ Live(c) /\ SameName(c) = {}
                                /\ CloudChange(p, [NoPool EXCEPT !.state = "live", !.cluster = c])
      BY <1>5 DEF ForeignPool
    <2> DEFINE v == [NoPool EXCEPT !.state = "live", !.cluster = c]
    <2>2. v \in NodePool /\ v.state = "live" /\ v.cluster = c /\ ~v.tagged
      BY NewPools DEF NoPool
    <2>3. np' = [np EXCEPT ![p] = v] /\ np[p].state = "unborn"
      BY <1>5, <2>1 DEF ForeignPool, CloudChange
    <2> HIDE DEF v
    <2> QED BY <1>0, <1>3, <2>1, <2>2, <2>3, BornMoves
  <1> QED BY <1>1, <1>3, <1>4, <1>5

\* The control plane's steps, by what the contract says of them.
LEMMA ContractMoves ==
  ASSUME TypeOK, ControlFollowed,
         ControlPlaneWorks \/ ControlPlaneLoses \/ ControlPlaneAppears
  PROVE  /\ \A c \in Clusters : /\ Ctl!Ended(c) => Ctl!Ended(c)'
                                /\ running[c] # "unborn" => running'[c] # "unborn"
         /\ ctl'.clusterID # None => ctl'.exists /\ running'[ctl'.clusterID] # "unborn"
  <1>0. /\ ctl.clusterID \in Clusters \cup {None}
        /\ running \in [Clusters -> {"unborn", "live", "gone"}]
        /\ ctl.clusterID # None => ctl.exists /\ running[ctl.clusterID] # "unborn"
    BY DEF TypeOK, ControlFollowed, Ctl!Control
  <1>1. \/ Ctl!Appear \/ Ctl!Guard \/ Ctl!Leave
        \/ \E id, r : Ctl!Report(id, r)
        \/ \E c \in Clusters : Ctl!ClusterBorn(c) \/ Ctl!ClusterEnds(c)
    BY DEF ControlPlaneWorks, ControlPlaneLoses, ControlPlaneAppears, ControlPlaneStep
  <1>2. CASE Ctl!Appear \/ Ctl!Guard \/ Ctl!Leave
    BY <1>0, <1>2 DEF Ctl!Appear, Ctl!Guard, Ctl!Leave, Ctl!Present, Ctl!Absent, Ctl!Ended
  <1>3. ASSUME NEW id, NEW r, Ctl!Report(id, r)
        PROVE  /\ running' = running
               /\ ctl'.clusterID # None => ctl'.exists /\ running[ctl'.clusterID] # "unborn"
    <2>1. running' = running /\ ctl'.clusterID = id /\ ctl'.exists
      BY <1>3 DEF Ctl!Report, Ctl!Present
    <2>2. id = ctl.clusterID \/ id = None \/ Ctl!Live(id) \/ Ctl!Ended(id)
      BY <1>3 DEF Ctl!Report, Ctl!MayRecord
    <2> QED BY <1>0, <2>1, <2>2 DEF Ctl!Live, Ctl!Ended
  <1>4. ASSUME NEW c \in Clusters, Ctl!ClusterBorn(c) \/ Ctl!ClusterEnds(c)
        PROVE  /\ ctl' = ctl
               /\ \A d \in Clusters : /\ running[d] = "gone" => running'[d] = "gone"
                                      /\ running[d] # "unborn" => running'[d] # "unborn"
    BY <1>0, <1>4 DEF Ctl!ClusterBorn, Ctl!ClusterEnds, Ctl!Live
  <1> QED BY <1>0, <1>1, <1>2, <1>3, <1>4 DEF Ctl!Ended

\* They move everything onward.
LEMMA ControlMoves ==
  ASSUME TypeOK, PoolsSound, ControlFollowed,
         ControlPlaneWorks \/ ControlPlaneLoses \/ ControlPlaneAppears
  PROVE  PoolsOnward /\ ControlOnward
  <1>0. /\ Accompanies /\ np \in [PoolIDs -> NodePool]
        /\ ctl.clusterID \in Clusters \cup {None}
        /\ running \in [Clusters -> {"unborn", "live", "gone"}]
        /\ running' \in [Clusters -> {"unborn", "live", "gone"}]
    BY ControlSteps DEF TypeOK, Ctl!Control, ControlTyped
  <1>1. /\ \A c \in Clusters : /\ Ctl!Ended(c) => Ctl!Ended(c)'
                               /\ running[c] # "unborn" => running'[c] # "unborn"
        /\ ctl'.clusterID # None => ctl'.exists /\ running'[ctl'.clusterID] # "unborn"
    BY ContractMoves
  <1>2. ASSUME NEW p \in PoolIDs
        PROVE  /\ np[p].state = "unborn" => np'[p] = np[p]
               /\ np[p].state # "unborn" =>
                    /\ np'[p].cluster = np[p].cluster /\ np'[p].tagged = np[p].tagged
                    /\ np'[p].state # "unborn" /\ (np[p].state = "gone" => np'[p].state = "gone")
                    /\ Live(np[p].cluster) /\ Present(p)' => Live(np[p].cluster)'
    <2> DEFINE ended == {c \in Clusters : Live(c) /\ running'[c] # "live"}
    <2>1. np'[p] = IF np[p].cluster \in ended THEN [np[p] EXCEPT !.state = "gone"] ELSE np[p]
      BY <1>0 DEF Accompanies
    <2>2. np[p].state = "unborn" => np[p].cluster \notin ended
      BY IdAssumption DEF PoolsSound
    <2>3. CASE np[p].cluster \in ended
      <3>1. np'[p].state = "gone" /\ np'[p].cluster = np[p].cluster /\ np'[p].tagged = np[p].tagged
        BY <1>0, <2>1, <2>3 DEF NodePool
      <3> QED BY <2>2, <2>3, <3>1 DEF Present
    <2>4. CASE np[p].cluster \notin ended
      <3>1. np'[p] = np[p]
        BY <2>1, <2>4
      <3>2. Live(np[p].cluster) => Live(np[p].cluster)'
        BY <2>4, <3>1 DEF Live, Ctl!Live
      <3> QED BY <3>1, <3>2
    <2> QED BY <2>3, <2>4
  <1>3. PoolsOnward
    BY <1>2 DEF PoolsOnward
  <1>4. dropped \subseteq dropped'
    BY <1>0 DEF Accompanies
  <1>5. \A c \in Clusters : Passed(c) => Passed(c)'
    BY <1>1, <1>4 DEF Passed
  <1>6. ASSUME NEW c \in Clusters, ctl.clusterID = c, ctl'.clusterID # c PROVE Passed(c)'
    <2>1. CASE Live(c)
      BY <1>0, <1>6, <2>1 DEF Accompanies, Passed
    <2>2. CASE ~Live(c)
      <3>1. c # None
        BY IdAssumption
      <3>2. Ctl!Ended(c)
        BY <1>0, <1>6, <2>2, <3>1 DEF ControlFollowed, Live, Ctl!Live, Ctl!Ended
      <3> QED BY <1>1, <3>2 DEF Passed
    <2> QED BY <2>1, <2>2
  <1>7. ctlSeen' = ctlSeen
    BY <1>0 DEF Accompanies
  <1> QED BY <1>1, <1>3, <1>5, <1>6, <1>7 DEF ControlOnward, Followed

\* Every step moves everything onward.
LEMMA Onward ==
  ASSUME TypeOK, PoolsSound, ControlFollowed, Next
  PROVE  PoolsOnward /\ ControlOnward
  <1>1. ASSUME UNCHANGED <<ctl, running, dropped>>, ctlSeen' = ctlSeen \/ ctlSeen' = ctl
        PROVE  ControlOnward
    BY <1>1 DEF ControlOnward, Followed, Passed, Ctl!Ended, ControlFollowed
  <1>2. CASE reconcileNormal \/ reconcileDelete
    BY <1>1, <1>2, WorkerPools DEF ctlVars
  <1>3. CASE ControlPlaneWorks \/ ControlPlaneLoses \/ ControlPlaneAppears
    BY <1>3, ControlMoves
  <1>4. CASE CloudStep
    BY <1>1, <1>4, CloudPools DEF ctlVars
  <1>5. CASE OtherStep
    <2>1. /\ np' = np /\ UNCHANGED <<ctl, running, dropped>>
          /\ ctlSeen' = ctlSeen \/ ctlSeen' = ctl
      BY <1>5 DEF OtherStep, PoolSync, ControlPlaneSync, UserScales, UserEdits, UserDelete, Crash,
                  ctlVars
    <2> QED BY <1>1, <2>1, StillPools
  <1> QED BY <1>2, <1>3, <1>4, <1>5, StepKinds

\* The pools stay sound.
LEMMA PoolsStep ==
  ASSUME TypeOK, PoolsSound, TaggedBorn, PoolsOnward
  PROVE  PoolsSound'
  <1>0. np \in [PoolIDs -> NodePool]
    BY DEF TypeOK
  <1>1. ASSUME NEW p \in PoolIDs, np[p].state # "unborn", Present(p)' PROVE Present(p)
    BY <1>0, <1>1 DEF PoolsOnward, Present, NodePool
  <1>2. ASSUME NEW p \in PoolIDs
        PROVE  /\ np'[p].state = "unborn" => np'[p].cluster = None
               /\ np'[p].tagged => np'[p].cluster \in Clusters
               /\ Present(p)' => Live(np[p].cluster)'
    <2>1. CASE np[p].state # "unborn"
      BY <1>1, <2>1 DEF PoolsOnward, PoolsSound
    <2>2. CASE np[p].state = "unborn" /\ np'[p] = np[p]
      BY <2>2 DEF PoolsSound, TaggedBorn, Present
    <2>3. CASE np[p].state = "unborn" /\ Born(p)
      BY <2>3 DEF Born, Live, Ctl!Live
    <2> QED BY <2>1, <2>2, <2>3 DEF PoolsOnward
  <1>3. ASSUME NEW p \in PoolIDs, NEW q \in PoolIDs, Present(p)', Present(q)',
               np'[p].cluster = np'[q].cluster, p # q
        PROVE  FALSE
    <2>1. ASSUME NEW r \in PoolIDs, Present(r)'
          PROVE  (np[r].state # "unborn" /\ Present(r) /\ np'[r].cluster = np[r].cluster)
                   \/ (np[r].state = "unborn" /\ Born(r))
      BY <1>1, <2>1 DEF PoolsOnward, Present
    <2>2. CASE np[p].state # "unborn" /\ np[q].state # "unborn"
      BY <1>3, <2>1, <2>2 DEF PoolsSound
    <2>3. ASSUME NEW r \in PoolIDs, NEW s \in PoolIDs, r # s, Born(r), Present(s)',
                 np'[r].cluster = np'[s].cluster
          PROVE  FALSE
      <3>1. np'[s] = np[s]
        BY <2>3 DEF Born
      <3>2. Listed(s, np'[r].cluster)
        BY <2>3, <3>1 DEF Present, Listed
      <3> QED BY <2>3, <3>2 DEF Born, SameName
    <2> QED BY <1>3, <2>1, <2>2, <2>3
  <1> QED BY <1>2, <1>3 DEF PoolsSound

\* Where the cluster of a pass comes from.
TargetFrom ==
  \/ target' = target /\ (pc' # "idle" => pc # "idle")
  \/ target' = ctlSeen.clusterID /\ ctlSeen' = ctlSeen
  \/ target' = None /\ pc' = "idle"

\* Every step takes it from there.
LEMMA TargetStep ==
  ASSUME TypeOK, Next
  PROVE  TargetFrom
  <1>1. CASE StartNormal \/ StartDelete
    BY <1>1 DEF StartNormal, StartDelete, FailDelete, EndPass, TargetFrom, ctlVars
  <1>2. CASE EndPass
    BY <1>2 DEF EndPass, TargetFrom
  <1>3. CASE pc # "idle" /\ target' = target
    BY <1>3 DEF TargetFrom
  <1>4. CASE UNCHANGED passVars
    BY <1>4 DEF TargetFrom, passVars
  <1>5. CASE reconcileNormal
    BY <1>1, <1>2, <1>3, <1>5
       DEF reconcileNormal, CreateNodePool, AdoptConflict, ScaleNodePool, UpdateNodePool,
           ListNodePools, Tail, PatchObject, PatchStatus, Goto, Close
  <1>6. CASE reconcileDelete
    BY <1>1, <1>2, <1>3, <1>6
       DEF reconcileDelete, ListForDelete, DeleteNodePool, ClearNodePoolID, ReleaseFinalizer,
           FailDelete, Goto
  <1>7. CASE ControlPlaneWorks \/ ControlPlaneLoses \/ ControlPlaneAppears
    BY <1>4, <1>7, ControlSteps DEF Accompanies
  <1>8. CASE CloudStep
    BY <1>4, <1>8 DEF CloudStep, CloudProgress, CloudScales, CloudDeletes, PoolLost, ForeignPool,
                      AutoscalerScales, CloudChange
  <1>9. CASE OtherStep
    BY <1>2, <1>4, <1>9 DEF OtherStep, PoolSync, ControlPlaneSync, UserScales, UserEdits,
                            UserDelete, Crash
  <1> QED BY <1>5, <1>6, <1>7, <1>8, <1>9, StepKinds

\* What was read of the control plane is followed.
LEMMA FollowStep ==
  ASSUME TypeOK, TypeOK', PoolsSound, PoolsSound', TaggedBorn, TaggedBorn', ControlFollowed,
         PoolsOnward, ControlOnward, TargetFrom
  PROVE  ControlFollowed'
  <1>0. /\ ctlSeen.clusterID \in Clusters \cup {None} /\ ctl.clusterID \in Clusters \cup {None}
        /\ target \in Clusters \cup {None}
    BY DEF TypeOK, Ctl!Control, ClusterRef
  \* A cluster that was followed under an ID read from the control plane still is.
  <1>1. ASSUME NEW c \in Clusters, Followed(c, ctl.clusterID) PROVE Followed(c, ctl.clusterID)'
    BY <1>1 DEF ControlOnward, Followed
  <1>2. ASSUME NEW c \in Clusters, Followed(c, ctlSeen.clusterID)
        PROVE  Followed(c, ctlSeen.clusterID)'
    <2>1. CASE Passed(c)
      BY <2>1 DEF ControlOnward, Followed
    <2>2. CASE ctlSeen.clusterID = c /\ ctlSeen' = ctlSeen
      BY <2>2 DEF Followed
    <2>3. CASE ctlSeen.clusterID = c /\ ctlSeen' = ctl /\ ctl' = ctl
      <3>1. Followed(c, ctl.clusterID)
        BY <2>3, IdAssumption DEF ControlFollowed
      <3> QED BY <1>1, <2>3, <3>1 DEF Followed
    <2> QED BY <1>2, <2>1, <2>2, <2>3 DEF Followed, ControlOnward
  <1>3. /\ ctl'.clusterID # None => ctl'.exists /\ running'[ctl'.clusterID] # "unborn"
    BY DEF ControlOnward
  <1>4. ctlSeen'.clusterID # None => ctlSeen'.exists /\ Followed(ctlSeen.clusterID, ctl.clusterID)'
    <2>1. CASE ctlSeen' = ctl /\ ctl' = ctl
      BY <2>1 DEF ControlFollowed, Followed
    <2>2. CASE ctlSeen' = ctlSeen
      BY <1>0, <1>1, <2>2 DEF ControlFollowed, Followed
    <2> QED BY <2>1, <2>2 DEF ControlOnward
  <1>5. target' # None => Followed(target, ctlSeen.clusterID)'
    <2>1. CASE target' = target
      BY <1>0, <1>2, <2>1 DEF ControlFollowed, Followed
    <2>2. CASE target' = ctlSeen.clusterID /\ ctlSeen' = ctlSeen
      BY <2>2 DEF Followed
    <2> QED BY <2>1, <2>2 DEF TargetFrom
  <1>6. ASSUME NEW p \in PoolIDs, np'[p].tagged
        PROVE  /\ Followed(np[p].cluster, ctlSeen.clusterID)'
               /\ pc' # "idle" => Followed(np[p].cluster, target)'
    <2>0. PICK c \in Clusters : c = np'[p].cluster
      BY <1>6 DEF PoolsSound
    <2>1. Followed(c, ctlSeen.clusterID) /\ (pc # "idle" => Followed(c, target))
      <3>1. CASE np[p].state # "unborn"
        BY <1>6, <2>0, <3>1 DEF PoolsOnward, ControlFollowed
      <3>2. CASE np[p].state = "unborn"
        <4>1. Born(p)
          BY <1>6, <3>2 DEF PoolsOnward, TaggedBorn
        <4>2. c = target /\ c # None
          BY <1>6, <2>0, <4>1, IdAssumption DEF Born
        <4> QED BY <4>2 DEF ControlFollowed, Followed
      <3> QED BY <3>1, <3>2
    <2>2. ctlSeen'.clusterID = c \/ Passed(c)'
      BY <1>2, <2>1 DEF Followed
    <2>3. ASSUME pc' # "idle" PROVE target' = c \/ Passed(c)'
      <3>1. CASE target' = target /\ pc # "idle"
        BY <2>1, <3>1 DEF Followed, ControlOnward
      <3>2. CASE target' = ctlSeen.clusterID /\ ctlSeen' = ctlSeen
        BY <2>2, <3>2
      <3> QED BY <2>3, <3>1, <3>2 DEF TargetFrom
    <2> QED BY <2>0, <2>2, <2>3 DEF Followed, Passed, Ctl!Ended
  <1> QED BY <1>3, <1>4, <1>5, <1>6 DEF ControlFollowed

-----------------------------------------------------------------------------
(* What a pass knows.                                                      *)

\* A pool of the provider that a pass does not find in its cluster is lost.
LEMMA NotFoundIsLost ==
  ASSUME TypeOK, PoolsSound, ControlFollowed, pc # "idle",
         NEW p \in PoolIDs, np[p].tagged, ~Listed(p, target)
  PROVE  Lost(p)
  <1>1. Followed(np[p].cluster, target)
    BY DEF ControlFollowed
  <1>2. CASE Present(p)
    <2>1. Live(np[p].cluster) /\ np[p].cluster # target
      BY <1>2 DEF PoolsSound, Present, Listed
    <2> QED BY <1>1, <2>1 DEF Followed, Passed, Lost, Live, Ctl!Live, Ctl!Ended
  <1> QED BY <1>2 DEF Lost

\* What is lost stays lost, and what is owned stays owned.
Kept == \A p \in PoolRef : Owned(p) =>
  /\ p = None \/ (p \in PoolIDs /\ np'[p].tagged)
  /\ Lost(p) => \/ ~(p \in PoolIDs /\ np'[p].state \in {"live", "deleting"})
                \/ np'[p].cluster \in dropped'

\* Every step keeps it.
LEMMA KeptStep ==
  ASSUME TypeOK, TaggedBorn, PoolsSound, PoolsSound', PoolsOnward, ControlOnward
  PROVE  Kept
  <1> SUFFICES ASSUME NEW p \in PoolIDs, np[p].tagged
               PROVE  /\ np'[p].tagged
                      /\ Lost(p) => \/ np'[p].state \notin {"live", "deleting"}
                                    \/ np'[p].cluster \in dropped'
    BY IdAssumption DEF Kept, PoolRef, Owned
  <1>0. np[p].state # "unborn" /\ np[p].cluster \in Clusters /\ np[p] \in NodePool
    BY DEF TaggedBorn, PoolsSound, TypeOK
  <1>1. /\ np'[p].tagged /\ np'[p].cluster = np[p].cluster
        /\ np[p].state = "gone" => np'[p].state = "gone"
    BY <1>0 DEF PoolsOnward
  <1>2. CASE ~Present(p)
    BY <1>0, <1>1, <1>2 DEF Present, NodePool
  <1>3. CASE np[p].cluster \in dropped
    <2>1. PICK c \in Clusters : c = np[p].cluster
      BY <1>0
    <2>2. Passed(c)'
      BY <1>3, <2>1 DEF ControlOnward, Passed
    <2>3. CASE c \in dropped'
      BY <1>1, <2>1, <2>3
    <2>4. CASE Ctl!Ended(c)'
      <3>1. running'[np'[p].cluster] # "live"
        BY <1>1, <2>1, <2>4 DEF Ctl!Ended
      <3>2. ~Present(p)'
        BY <3>1 DEF PoolsSound, Live, Ctl!Live
      <3> QED BY <1>1, <3>2 DEF Present
    <2> QED BY <2>2, <2>3, <2>4 DEF Passed
  <1> QED BY <1>1, <1>2, <1>3 DEF Lost

\* A pass that is over knows nothing.
LEMMA EndKnows ==
  ASSUME EndPass
  PROVE  PassSound'
  BY SameID DEF EndPass, PassSound, CreateSteps, RecordSteps, DeleteSteps, Owned, Blank

\* What a pass knows stays true while others move.
LEMMA KnowledgeKept ==
  ASSUME TypeOK, HeldOwned, PassSound, Kept, UNCHANGED passVars,
         pool'.nodePoolID \in {pool.nodePoolID, None}
  PROVE  PassSound'
  <1>0. /\ pool.nodePoolID \in PoolRef /\ mem.nodePoolID \in PoolRef /\ base.nodePoolID \in PoolRef
    BY FieldTypes DEF TypeOK
  <1>1. pc' = pc /\ mem' = mem /\ base' = base
    BY DEF passVars
  <1>2. Owned(base.nodePoolID) /\ Owned(pool.nodePoolID) /\ Owned(mem.nodePoolID)
    BY DEF PassSound, HeldOwned
  <1>3. /\ Lost(base.nodePoolID) => Lost(base.nodePoolID)'
        /\ Lost(mem.nodePoolID) => Lost(mem.nodePoolID)'
        /\ Owned(base.nodePoolID)'
    BY <1>0, <1>1, <1>2 DEF Kept, Lost, Present, Owned
  <1>4. Lost(pool.nodePoolID) => pool'.nodePoolID = None \/ Lost(pool.nodePoolID)'
    BY <1>0, <1>2 DEF Kept, Lost, Present
  <1> QED BY <1>1, <1>3, <1>4 DEF PassSound

\* What it knows about records, while it goes on with the same ones, or finds
\* the pool it read lost.
LEMMA RecordsGoOn ==
  ASSUME TypeOK, HeldOwned, PassSound, Kept, pc \in RecordSteps, pc' \in RecordSteps,
         base' = base, pool'.nodePoolID = pool.nodePoolID,
         \/ mem'.nodePoolID = mem.nodePoolID
         \/ mem'.nodePoolID = None /\ (base.nodePoolID # None => Lost(base.nodePoolID))
  PROVE  PassSound'
  <1>0. pool.nodePoolID \in PoolRef /\ base.nodePoolID \in PoolRef
    BY FieldTypes DEF TypeOK
  <1>1. Owned(base.nodePoolID) /\ Owned(pool.nodePoolID)
    BY DEF PassSound, HeldOwned
  <1>2. /\ Lost(base.nodePoolID) => Lost(base.nodePoolID)'
        /\ Owned(base.nodePoolID)'
    BY <1>0, <1>1 DEF Kept, Lost, Present, Owned
  <1>3. Lost(pool.nodePoolID) => Lost(pool.nodePoolID)'
    BY <1>0, <1>1 DEF Kept, Lost, Present
  <1>4. /\ base.nodePoolID # None =>
             mem.nodePoolID = base.nodePoolID \/ (mem.nodePoolID = None /\ Lost(base.nodePoolID))
        /\ base.nodePoolID = None /\ mem.nodePoolID # None =>
             pool.nodePoolID \in {None, mem.nodePoolID} \/ Lost(pool.nodePoolID)
    BY DEF PassSound
  <1>5. /\ base'.nodePoolID # None =>
             mem'.nodePoolID = base'.nodePoolID \/ (mem'.nodePoolID = None /\ Lost(base.nodePoolID)')
        /\ base'.nodePoolID = None /\ mem'.nodePoolID # None =>
             pool'.nodePoolID \in {None, mem'.nodePoolID} \/ Lost(pool.nodePoolID)'
    BY <1>2, <1>3, <1>4
  <1>6. pc' \notin CreateSteps /\ pc' \notin DeleteSteps /\ pc' # "dClear" /\ pc' # "dRelease"
    BY DEF RecordSteps, CreateSteps, DeleteSteps
  <1> QED BY <1>2, <1>5, <1>6 DEF PassSound

\* A pass takes up a new record: the stored one is that record, or none, or lost.
LEMMA TakesUp ==
  ASSUME TypeOK, HeldOwned, PoolsSound, ControlFollowed, PassSound, Kept,
         pc \in CreateSteps, pc' = "scale", base' = base, pool' = pool,
         NEW p \in PoolIDs, mem'.nodePoolID = p,
         \A q \in SameName(target) : q = p
  PROVE  PassSound'
  <1>0. pool.nodePoolID \in PoolRef /\ Owned(pool.nodePoolID) /\ base.nodePoolID = None /\ pc # "idle"
    BY FieldTypes DEF TypeOK, HeldOwned, PassSound, CreateSteps
  <1>1. pool.nodePoolID \in {None, p} \/ Lost(pool.nodePoolID)
    <2>1. ASSUME pool.nodePoolID \notin {None, p} PROVE Lost(pool.nodePoolID)
      <3>1. pool.nodePoolID \in PoolIDs /\ np[pool.nodePoolID].tagged
        BY <1>0, <2>1 DEF Owned
      <3>2. ~Listed(pool.nodePoolID, target)
        BY <2>1, <3>1 DEF SameName
      <3> QED BY <1>0, <3>1, <3>2, NotFoundIsLost
    <2> QED BY <2>1
  <1>2. Lost(pool.nodePoolID) => Lost(pool.nodePoolID)'
    BY <1>0 DEF Kept, Lost, Present
  <1>3. base'.nodePoolID = None /\ Owned(base.nodePoolID)'
    BY <1>0 DEF Owned
  <1> QED BY <1>1, <1>2, <1>3 DEF PassSound, CreateSteps, RecordSteps, DeleteSteps

\* reconcileNormal, step by step.
LEMMA NormalKnows ==
  ASSUME IInv, RecordInv, Kept, reconcileNormal
  PROVE  PassSound'
  <1>0. /\ TypeOK /\ HeldOwned /\ PoolsSound /\ ControlFollowed /\ PassSound
        /\ mem \in Object /\ cache \in Object /\ pool \in Object /\ base \in Object
        /\ mem.nodePoolID \in PoolRef
    BY FieldTypes DEF IInv, RecordInv, TypeOK
  <1>1. CASE StartNormal
    <2>1. /\ base' = cache /\ mem'.nodePoolID = cache.nodePoolID
          /\ \/ pc' = "create" /\ cache.nodePoolID = None
             \/ pc' \in {"scale", "patchObject"} /\ (pc' = "scale" => cache.nodePoolID # None)
      BY <1>0, <1>1, SameID DEF StartNormal
    <2>2. Owned(base.nodePoolID)'
      BY <1>0, <1>1, <2>1 DEF StartNormal, HeldOwned, Owned
    <2> QED BY <2>1, <2>2 DEF PassSound, CreateSteps, RecordSteps, DeleteSteps
  <1>2. CASE CreateNodePool
    <2>0. pc = "create" /\ pool' = pool /\ mem.nodePoolID = None /\ base.nodePoolID = None
      BY <1>0, <1>2 DEF CreateNodePool, PassSound, CreateSteps
    <2>1. \/ \E p \in PoolIDs : CreateFresh(p) /\ Goto("scale", Created(mem, p))
          \/ Goto("adopt", mem) \/ Close(mem)
      BY <1>2 DEF CreateNodePool
    <2>2. ASSUME NEW p \in PoolIDs, CreateFresh(p), Goto("scale", Created(mem, p))
          PROVE  PassSound'
      <3>1. pc' = "scale" /\ base' = base /\ mem'.nodePoolID = p
        BY <1>0, <2>2, SameID DEF Goto
      <3>2. SameName(target) = {}
        BY <2>2 DEF CreateFresh
      <3>3. pc \in CreateSteps
        BY <2>0 DEF CreateSteps
      <3> QED BY <1>0, <2>0, <3>1, <3>2, <3>3, TakesUp
    <2>3. CASE Goto("adopt", mem) \/ Close(mem)
      <3>1. pc' \in {"adopt", "patchObject"} /\ base' = base /\ mem' = mem
        BY <2>3 DEF Goto, Close
      <3> QED BY <2>0, <3>1 DEF PassSound, Owned, CreateSteps, RecordSteps, DeleteSteps
    <2> QED BY <2>1, <2>2, <2>3
  <1>3. CASE AdoptConflict
    <2>0. pc = "adopt" /\ pool' = pool /\ mem.nodePoolID = None /\ base.nodePoolID = None
      BY <1>0, <1>3 DEF AdoptConflict, PassSound, CreateSteps
    <2>1. \/ \E p \in SameName(target) : Goto("scale", Created(mem, p))
          \/ Close(mem)
      BY <1>3 DEF AdoptConflict
    <2>2. ASSUME NEW p \in SameName(target), Goto("scale", Created(mem, p))
          PROVE  PassSound'
      <3>1. pc' = "scale" /\ base' = base /\ mem'.nodePoolID = p /\ p \in PoolIDs
        BY <1>0, <2>2, SameID DEF Goto, SameName
      <3>2. \A q \in SameName(target) : q = p
        BY <1>0, <2>2 DEF SameName, Listed, PoolsSound, Present
      <3>3. pc \in CreateSteps
        BY <2>0 DEF CreateSteps
      <3> QED BY <1>0, <2>0, <3>1, <3>2, <3>3, TakesUp
    <2>3. CASE Close(mem)
      <3>1. pc' = "patchObject" /\ base' = base /\ mem' = mem
        BY <2>3 DEF Close
      <3> QED BY <2>0, <3>1 DEF PassSound, Owned, CreateSteps, RecordSteps, DeleteSteps
    <2> QED BY <2>1, <2>2, <2>3
  <1>4. CASE ScaleNodePool
    <2>1. SyncReplicasFromOwner(mem).nodePoolID = mem.nodePoolID
      BY <1>0, SameID DEF SyncReplicasFromOwner
    <2>2. /\ pc = "scale" /\ pc' \in {"update", "patchObject"} /\ base' = base /\ pool' = pool
          /\ mem'.nodePoolID = mem.nodePoolID
      BY <1>4, <2>1 DEF ScaleNodePool, Goto, Close
    <2> QED BY <1>0, <2>2, RecordsGoOn DEF RecordSteps
  <1>5. CASE UpdateNodePool
    <2>1. [mem EXCEPT !.applied = mem.attrs].nodePoolID = mem.nodePoolID
      BY <1>0, SameID
    <2>2. /\ pc = "update" /\ pc' \in {"list", "patchObject"} /\ base' = base /\ pool' = pool
          /\ mem'.nodePoolID = mem.nodePoolID
      BY <1>5, <2>1 DEF UpdateNodePool, Goto, Close
    <2> QED BY <1>0, <2>2, RecordsGoOn DEF RecordSteps
  <1>6. CASE ListNodePools
    <2>1. Observed(mem).nodePoolID = mem.nodePoolID /\ NotListed(mem).nodePoolID = None
      BY <1>0, SameID DEF Observed, NotListed
    <2>2. /\ pc = "list" /\ pc' \in {"tail", "patchObject"} /\ base' = base /\ pool' = pool
          /\ \/ mem'.nodePoolID = mem.nodePoolID
             \/ mem'.nodePoolID = None /\ ~Listed(mem.nodePoolID, target)
      BY <1>6, <2>1 DEF ListNodePools, Goto, Close
    <2>3. ASSUME ~Listed(mem.nodePoolID, target), base.nodePoolID # None
          PROVE  Lost(base.nodePoolID)
      <3>1. mem.nodePoolID = base.nodePoolID \/ Lost(base.nodePoolID)
        BY <1>0, <2>2, <2>3 DEF PassSound, RecordSteps
      <3>2. base.nodePoolID \in PoolIDs /\ np[base.nodePoolID].tagged
        BY <1>0, <2>3 DEF PassSound, Owned
      <3> QED BY <1>0, <2>2, <2>3, <3>1, <3>2, NotFoundIsLost
    <2> QED BY <1>0, <2>2, <2>3, RecordsGoOn DEF RecordSteps
  <1>7. CASE Tail
    <2>1. [mem EXCEPT !.ready = TRUE].nodePoolID = mem.nodePoolID
      BY <1>0, SameID
    <2>2. /\ pc = "tail" /\ pc' = "patchObject" /\ base' = base /\ pool' = pool
          /\ mem'.nodePoolID = mem.nodePoolID
      BY <1>7, <2>1 DEF Tail, Close
    <2> QED BY <1>0, <2>2, RecordsGoOn DEF RecordSteps
  <1>8. CASE PatchObject
    <2>1. pool'.nodePoolID = pool.nodePoolID
      BY <1>8, <1>0 DEF PatchObject, Object
    <2>2. pc = "patchObject" /\ pc' = "patchStatus" /\ base' = base /\ mem' = mem
      BY <1>8 DEF PatchObject
    <2> QED BY <1>0, <2>1, <2>2, RecordsGoOn DEF RecordSteps
  <1>9. CASE PatchStatus
    BY <1>9, EndKnows DEF PatchStatus
  <1> QED BY <1>1, <1>2, <1>3, <1>4, <1>5, <1>6, <1>7, <1>8, <1>9 DEF reconcileNormal

\* Without a record of a cluster, every pool of the provider is lost.
LEMMA NoRecordIsLost ==
  ASSUME TypeOK, PoolsSound, ControlFollowed, GoneWithCluster, NEW p \in PoolIDs, np[p].tagged
  PROVE  Lost(p)
  <1>1. ctlSeen.clusterID = None
    BY DEF GoneWithCluster, ControlFollowed
  <1>2. Passed(np[p].cluster)
    BY <1>1, IdAssumption DEF ControlFollowed, Followed, PoolsSound
  <1> QED BY <1>2 DEF Passed, PoolsSound, Lost, Live, Ctl!Live, Ctl!Ended

\* reconcileDelete, step by step.
LEMMA DeleteKnows ==
  ASSUME IInv, RecordInv, Kept, reconcileDelete
  PROVE  PassSound'
  <1>0. /\ TypeOK /\ HeldOwned /\ PoolsSound /\ ControlFollowed /\ PassSound
        /\ mem \in Object /\ cache \in Object /\ pool \in Object /\ base \in Object
        /\ mem.nodePoolID \in PoolRef /\ cache.nodePoolID \in PoolRef
    BY FieldTypes DEF IInv, RecordInv, TypeOK
  <1>e. CASE EndPass
    BY <1>e, EndKnows
  <1>1. CASE StartDelete
    <2>1. CASE FailDelete
      BY <2>1, <1>e DEF FailDelete
    <2>2. CASE ~FailDelete
      <3>1. /\ mem' = cache /\ base' = cache /\ cache.deleting /\ np' = np /\ dropped' = dropped
            /\ \/ pc' = "dRelease" /\ cache.nodePoolID = None
               \/ pc' = "dClear" /\ cache.nodePoolID # None /\ GoneWithCluster
               \/ pc' = "dList"
        BY <1>1, <2>2 DEF StartDelete, ctlVars
      <3>2. Owned(base.nodePoolID)'
        BY <1>0, <3>1 DEF HeldOwned, Owned
      <3>3. pc' = "dClear" => Lost(mem.nodePoolID)'
        <4>1. ASSUME cache.nodePoolID # None, GoneWithCluster PROVE Lost(cache.nodePoolID)
          <5>1. cache.nodePoolID \in PoolIDs /\ np[cache.nodePoolID].tagged
            BY <1>0, <4>1 DEF HeldOwned, Owned
          <5> QED BY <1>0, <4>1, <5>1, NoRecordIsLost
        <4> QED BY <3>1, <4>1 DEF Lost, Present
      <3> QED BY <3>1, <3>2, <3>3 DEF PassSound, CreateSteps, RecordSteps, DeleteSteps
    <2> QED BY <2>1, <2>2
  <1>2. CASE ListForDelete
    <2>1. CASE ~EndPass
      <3>1. /\ pc = "dList" /\ mem' = mem /\ base' = base /\ np' = np /\ dropped' = dropped
            /\ \/ pc' = "dDelete"
               \/ pc' = "dClear" /\ ~Listed(mem.nodePoolID, target)
        BY <1>2, <2>1 DEF ListForDelete, FailDelete, Goto, ctlVars
      <3>2. mem = base /\ base.deleting /\ Owned(base.nodePoolID)
        BY <1>0, <3>1 DEF PassSound, DeleteSteps
      <3>3. Owned(base.nodePoolID)'
        BY <3>1, <3>2 DEF Owned
      <3>4. pc' = "dClear" => Lost(mem.nodePoolID)'
        <4>1. ASSUME ~Listed(mem.nodePoolID, target) PROVE Lost(mem.nodePoolID)
          <5>1. CASE mem.nodePoolID = None
            BY <5>1, IdAssumption DEF Lost, Present
          <5>2. CASE mem.nodePoolID \in PoolIDs /\ np[mem.nodePoolID].tagged
            BY <1>0, <3>1, <4>1, <5>2, NotFoundIsLost
          <5> QED BY <3>2, <5>1, <5>2 DEF Owned
        <4> QED BY <3>1, <4>1 DEF Lost, Present
      <3> QED BY <3>1, <3>2, <3>3, <3>4 DEF PassSound, CreateSteps, RecordSteps, DeleteSteps
    <2> QED BY <1>e, <2>1
  <1>3. CASE DeleteNodePool
    BY <1>3, <1>e DEF DeleteNodePool, FailDelete
  <1>4. CASE ClearNodePoolID
    <2>1. CASE ~EndPass
      <3>1. /\ pc = "dClear" /\ pc' = "dRelease" /\ mem' = [mem EXCEPT !.nodePoolID = None]
            /\ base' = mem'
        BY <1>4, <2>1 DEF ClearNodePoolID, FailDelete
      <3>2. mem'.nodePoolID = None /\ mem'.deleting = mem.deleting
        BY <1>0, <3>1 DEF Object
      <3>3. mem = base /\ base.deleting
        BY <1>0, <3>1 DEF PassSound, DeleteSteps
      <3> QED BY <3>1, <3>2, <3>3 DEF PassSound, Owned, CreateSteps, RecordSteps, DeleteSteps
    <2> QED BY <1>e, <2>1
  <1>5. CASE ReleaseFinalizer
    BY <1>5, <1>e DEF ReleaseFinalizer
  <1> QED BY <1>1, <1>2, <1>3, <1>4, <1>5 DEF reconcileDelete

\* The surroundings.
LEMMA SurroundingsKnow ==
  ASSUME IInv, RecordInv, Kept,
         \/ ControlPlaneWorks \/ ControlPlaneLoses \/ ControlPlaneAppears
         \/ CloudStep \/ OtherStep
  PROVE  PassSound'
  <1>0. TypeOK /\ HeldOwned /\ PassSound /\ pool \in Object
    BY DEF IInv, RecordInv, TypeOK
  <1>1. CASE Crash
    BY <1>1, EndKnows DEF Crash
  <1>2. CASE UserDelete \/ UserEdits
    <2>1. /\ \A a : [pool EXCEPT !.attrs = a].nodePoolID = pool.nodePoolID
          /\ [pool EXCEPT !.deleting = TRUE].nodePoolID = pool.nodePoolID
          /\ Blank.nodePoolID = None
      BY <1>0, SameID
    <2>2. pool'.nodePoolID \in {pool.nodePoolID, None} /\ UNCHANGED passVars
      BY <1>2, <2>1 DEF UserEdits, UserDelete
    <2> QED BY <1>0, <2>2, KnowledgeKept
  <1>3. CASE UNCHANGED <<pool, passVars>>
    BY <1>0, <1>3, KnowledgeKept
  <1>4. ControlPlaneWorks \/ ControlPlaneLoses \/ ControlPlaneAppears => UNCHANGED <<pool, passVars>>
    BY <1>0, ControlSteps DEF Accompanies
  <1>5. CloudStep => UNCHANGED <<pool, passVars>>
    BY DEF CloudStep, CloudProgress, CloudScales, CloudDeletes, PoolLost, ForeignPool,
           AutoscalerScales, CloudChange
  <1>6. OtherStep => Crash \/ UserDelete \/ UserEdits \/ UNCHANGED <<pool, passVars>>
    BY DEF OtherStep, PoolSync, ControlPlaneSync, UserScales
  <1> QED BY <1>1, <1>2, <1>3, <1>4, <1>5, <1>6

\* Who writes the stored object.
LEMMA Writers ==
  ASSUME TypeOK, Next
  PROVE  \/ pool' = pool \/ PatchObject \/ PatchStatus \/ ClearNodePoolID \/ ReleaseFinalizer
         \/ UserEdits \/ UserDelete
  <1>1. reconcileNormal => pool' = pool \/ PatchObject \/ PatchStatus
    BY DEF reconcileNormal, StartNormal, CreateNodePool, AdoptConflict, ScaleNodePool,
           UpdateNodePool, ListNodePools, Tail
  <1>2. reconcileDelete => pool' = pool \/ ClearNodePoolID \/ ReleaseFinalizer
    BY DEF reconcileDelete, StartDelete, ListForDelete, DeleteNodePool
  <1>3. ControlPlaneWorks \/ ControlPlaneLoses \/ ControlPlaneAppears => pool' = pool
    BY ControlSteps DEF Accompanies
  <1>4. CloudStep => pool' = pool
    BY DEF CloudStep, CloudProgress, CloudScales, CloudDeletes, PoolLost, ForeignPool,
           AutoscalerScales, CloudChange
  <1>5. OtherStep => pool' = pool \/ UserEdits \/ UserDelete
    BY DEF OtherStep, PoolSync, ControlPlaneSync, UserScales, Crash
  <1> QED BY <1>1, <1>2, <1>3, <1>4, <1>5, StepKinds

\* What each of them writes.
LEMMA Writes ==
  ASSUME IInv, RecordInv
  PROVE  /\ PatchObject => /\ pool'.exists = pool.exists /\ pool'.deleting = pool.deleting
                           /\ pool'.nodePoolID = pool.nodePoolID /\ pc = "patchObject"
         /\ PatchStatus => /\ pool'.exists = pool.exists /\ pool'.deleting = pool.deleting
                           /\ pc = "patchStatus"
                           /\ pool'.nodePoolID \in {pool.nodePoolID,
                                Merged(mem.nodePoolID, base.nodePoolID, pool.nodePoolID)}
         /\ ClearNodePoolID => /\ pc = "dClear"
                               /\ pool' = pool \/ (/\ pool = mem /\ pool'.exists = pool.exists
                                                   /\ pool'.deleting = pool.deleting)
         /\ ReleaseFinalizer => /\ pc = "dRelease"
                                /\ pool' = pool \/ (pool = base /\ pool' = Blank)
         /\ UserEdits => /\ ~pool.deleting /\ pool.exists
                         /\ pool'.exists = pool.exists /\ pool'.nodePoolID = pool.nodePoolID
         /\ UserDelete => /\ ~pool.deleting /\ pool.exists
                          /\ \/ pool' = Blank /\ ~pool.finalizer
                             \/ /\ pool'.deleting /\ pool'.exists = pool.exists
                                /\ pool'.nodePoolID = pool.nodePoolID
  <1>0. pool \in Object /\ mem \in Object /\ PassSound
    BY DEF IInv, RecordInv, TypeOK
  <1>1. ASSUME PatchObject
        PROVE  /\ pool'.exists = pool.exists /\ pool'.deleting = pool.deleting
               /\ pool'.nodePoolID = pool.nodePoolID /\ pc = "patchObject"
    BY <1>0, <1>1 DEF PatchObject, Object
  <1>2. ASSUME PatchStatus
        PROVE  /\ pool'.exists = pool.exists /\ pool'.deleting = pool.deleting
               /\ pc = "patchStatus"
               /\ pool'.nodePoolID \in {pool.nodePoolID,
                    Merged(mem.nodePoolID, base.nodePoolID, pool.nodePoolID)}
    BY <1>0, <1>2 DEF PatchStatus, Object
  <1>3. ASSUME ClearNodePoolID
        PROVE  /\ pc = "dClear"
               /\ pool' = pool \/ (/\ pool = mem /\ pool'.exists = pool.exists
                                   /\ pool'.deleting = pool.deleting)
    <2>1. pc = "dClear" /\ mem = base
      BY <1>0, <1>3 DEF ClearNodePoolID, PassSound, DeleteSteps
    <2>2. pool' = pool \/ (pool = base /\ pool' = [mem EXCEPT !.nodePoolID = None])
      BY <1>3 DEF ClearNodePoolID, VersionMatches
    <2>3. /\ [mem EXCEPT !.nodePoolID = None].exists = mem.exists
          /\ [mem EXCEPT !.nodePoolID = None].deleting = mem.deleting
      BY <1>0 DEF Object
    <2> QED BY <2>1, <2>2, <2>3
  <1>4. ASSUME ReleaseFinalizer
        PROVE  pc = "dRelease" /\ (pool' = pool \/ (pool = base /\ pool' = Blank))
    BY <1>4 DEF ReleaseFinalizer, VersionMatches
  <1>5. ASSUME UserEdits
        PROVE  /\ ~pool.deleting /\ pool.exists
               /\ pool'.exists = pool.exists /\ pool'.nodePoolID = pool.nodePoolID
    BY <1>0, <1>5 DEF UserEdits, Object
  <1>6. ASSUME UserDelete
        PROVE  /\ ~pool.deleting /\ pool.exists
               /\ \/ pool' = Blank /\ ~pool.finalizer
                  \/ /\ pool'.deleting /\ pool'.exists = pool.exists
                     /\ pool'.nodePoolID = pool.nodePoolID
    BY <1>0, <1>6 DEF UserDelete, Object
  <1> QED BY <1>1, <1>2, <1>3, <1>4, <1>5, <1>6

\* A deletion is not taken back.
LEMMA DeletionStep ==
  ASSUME IInv, RecordInv, Next
  PROVE  DeletionStays'
  <1>0. TypeOK /\ DeletionStays
    BY DEF IInv, RecordInv
  <1>1. ~Blank.exists /\ ~Blank.deleting
    BY DEF Blank
  <1>2. pool.deleting \/ ~pool.exists => pool'.deleting \/ ~pool'.exists
    BY <1>0, <1>1, Writers, Writes
  <1>3. cache' \in {cache, pool}
    <2>1. reconcileNormal => cache' = cache
      BY DEF reconcileNormal, StartNormal, CreateNodePool, AdoptConflict, ScaleNodePool,
             UpdateNodePool, ListNodePools, Tail, PatchObject, PatchStatus
    <2>2. reconcileDelete => cache' = cache
      BY DEF reconcileDelete, StartDelete, ListForDelete, DeleteNodePool, ClearNodePoolID,
             ReleaseFinalizer
    <2>3. ControlPlaneWorks \/ ControlPlaneLoses \/ ControlPlaneAppears => cache' = cache
      BY <1>0, ControlSteps DEF Accompanies
    <2>4. CloudStep => cache' = cache
      BY DEF CloudStep, CloudProgress, CloudScales, CloudDeletes, PoolLost, ForeignPool,
             AutoscalerScales, CloudChange
    <2>5. OtherStep => cache' \in {cache, pool}
      BY DEF OtherStep, PoolSync, ControlPlaneSync, UserScales, UserEdits, UserDelete, Crash
    <2> QED BY <2>1, <2>2, <2>3, <2>4, <2>5, StepKinds
  <1>4. base' \in {base, cache, Blank, pool'}
    <2>1. reconcileNormal => base' \in {base, cache, Blank}
      BY DEF reconcileNormal, StartNormal, CreateNodePool, AdoptConflict, ScaleNodePool,
             UpdateNodePool, ListNodePools, Tail, PatchObject, PatchStatus, Goto, Close, EndPass
    <2>2. reconcileDelete => base' \in {base, cache, Blank, pool'}
      BY DEF reconcileDelete, StartDelete, ListForDelete, DeleteNodePool, ClearNodePoolID,
             ReleaseFinalizer, FailDelete, Goto, EndPass
    <2>3. ControlPlaneWorks \/ ControlPlaneLoses \/ ControlPlaneAppears => base' = base
      BY <1>0, ControlSteps DEF Accompanies, passVars
    <2>4. CloudStep => base' = base
      BY DEF CloudStep, CloudProgress, CloudScales, CloudDeletes, PoolLost, ForeignPool,
             AutoscalerScales, CloudChange, passVars
    <2>5. OtherStep => base' \in {base, Blank}
      BY DEF OtherStep, PoolSync, ControlPlaneSync, UserScales, UserEdits, UserDelete, Crash,
             EndPass, passVars
    <2> QED BY <2>1, <2>2, <2>3, <2>4, <2>5, StepKinds
  <1> QED BY <1>0, <1>1, <1>2, <1>3, <1>4 DEF DeletionStays

\* The invariant holds at first, ...
LEMMA RecordInit == Init => RecordInv
  <1> SUFFICES ASSUME Init PROVE RecordInv OBVIOUS
  <1>1. PoolsSound
    BY DEF Init, PoolsSound, NoPool, Present
  <1>2. ControlFollowed
    BY DEF Init, ControlFollowed, NoPool, Ctl!Present
  <1>3. PassSound
    <2>1. Owned(base.nodePoolID) /\ pc = "idle"
      BY DEF Init, Owned, Blank
    <2> QED BY <2>1 DEF PassSound, CreateSteps, RecordSteps, DeleteSteps
  <1>4. DeletionStays
    <2>1. cache = pool /\ base = Blank
      BY DEF Init
    <2>2. pool.exists /\ ~pool.deleting /\ ~Blank.deleting
      BY DEF Init, Blank
    <2> QED BY <2>1, <2>2 DEF DeletionStays
  <1> QED BY <1>1, <1>2, <1>3, <1>4 DEF RecordInv

\* ... and is kept by every step.
LEMMA RecordStep == IInv /\ IInv' /\ RecordInv /\ [Next]_vars => RecordInv'
  <1>1. ASSUME IInv, IInv', RecordInv, Next PROVE RecordInv'
    <2>0. /\ TypeOK /\ TypeOK' /\ TaggedBorn /\ TaggedBorn' /\ PoolsSound /\ ControlFollowed
      BY <1>1 DEF IInv, RecordInv
    <2>1. PoolsOnward /\ ControlOnward /\ TargetFrom
      BY <1>1, <2>0, Onward, TargetStep
    <2>2. PoolsSound'
      BY <2>0, <2>1, PoolsStep
    <2>3. ControlFollowed'
      BY <2>0, <2>1, <2>2, FollowStep
    <2>4. Kept
      BY <2>0, <2>1, <2>2, KeptStep
    <2>5. PassSound'
      BY <1>1, <2>4, StepKinds, NormalKnows, DeleteKnows, SurroundingsKnow
    <2>6. DeletionStays'
      BY <1>1, DeletionStep
    <2> QED BY <2>2, <2>3, <2>5, <2>6 DEF RecordInv
  <1>2. ASSUME RecordInv, UNCHANGED vars PROVE RecordInv'
    <2> USE <1>2 DEF RecordInv, vars, ctlVars, passVars
    <2>1. PoolsSound'
      BY DEF PoolsSound, Present, Live, Ctl!Live
    <2>2. ControlFollowed'
      BY DEF ControlFollowed, Followed, Passed, Ctl!Ended
    <2>3. PassSound'
      BY DEF PassSound, Owned, Lost, Present
    <2>4. DeletionStays'
      BY DEF DeletionStays
    <2> QED BY <2>1, <2>2, <2>3, <2>4
  <1> QED BY <1>1, <1>2

\* A released object leaves no pool, and an ID is cleared only when its pool is lost.
LEMMA ReleaseStep ==
  ASSUME IInv, RecordInv, Next
  PROVE  /\ pool.exists /\ pool.finalizer /\ ~pool'.exists => Lost(pool.nodePoolID)
         /\ pc = "dClear" /\ pool' # pool => Lost(pool.nodePoolID)
  <1>0. TypeOK /\ PassSound /\ DeletionStays
    BY DEF IInv, RecordInv
  <1>1. ASSUME pool.exists, pool.finalizer, ~pool'.exists PROVE Lost(pool.nodePoolID)
    <2>1. ReleaseFinalizer /\ pool' # pool
      BY <1>0, <1>1, Writers, Writes
    <2>2. pool = base /\ pc = "dRelease"
      BY <2>1, Writes
    <2>3. pool.nodePoolID = None
      BY <1>0, <2>2 DEF PassSound, DeleteSteps
    <2> QED BY <2>3, IdAssumption DEF Lost, Present
  <1>2. ASSUME pc = "dClear", pool' # pool PROVE Lost(pool.nodePoolID)
    <2>1. pool.deleting \/ ~pool.exists
      BY <1>0, <1>2 DEF PassSound, DeletionStays, DeleteSteps
    <2>2. ClearNodePoolID
      BY <1>0, <1>2, <2>1, Writers, Writes
    <2>3. pool = mem
      BY <1>2, <2>2, Writes
    <2> QED BY <1>0, <1>2, <2>3 DEF PassSound
  <1> QED BY <1>1, <1>2

\* PoolReleaseCleanAlways: however stale the object and the control plane a pass
\* had read, whatever fails and whatever the console does, an object that carries
\* the finalizer leaves only after its recorded node pool, and its ID is cleared
\* by a deletion only when the pool is gone or in a cluster that its control
\* plane stopped recording while it lived.
THEOREM PoolReleaseCleanAlways == Spec => PoolReleaseClean
  <1>1. IInv /\ RecordInv /\ [Next]_vars
          => [/\ pool.exists /\ pool.finalizer /\ ~pool'.exists => Lost(pool.nodePoolID)
              /\ pc = "dClear" /\ pool' # pool => Lost(pool.nodePoolID)]_vars
    BY ReleaseStep
  <1> QED BY <1>1, InvInit, InvStep, RecordInit, RecordStep, PTL DEF Spec, PoolReleaseClean

\* The record of a pool that is not lost is never replaced, and cleared only by a
\* pass that had read another.
LEMMA KeepStep ==
  ASSUME IInv, RecordInv, Next, pool.exists, pool'.exists, ~Lost(pool.nodePoolID)
  PROVE  \/ pool'.nodePoolID = pool.nodePoolID
         \/ pool'.nodePoolID = None /\ base.nodePoolID \notin {pool.nodePoolID, None}
  <1>0. TypeOK /\ PassSound /\ pool.nodePoolID # None /\ ~Blank.exists
    BY IdAssumption DEF IInv, RecordInv, Blank, Lost, Present
  <1>1. CASE pool' = pool
    BY <1>1
  <1>2. CASE PatchStatus
    <2>1. /\ pc = "patchStatus"
          /\ pool'.nodePoolID \in {pool.nodePoolID,
               Merged(mem.nodePoolID, base.nodePoolID, pool.nodePoolID)}
      BY <1>2, Writes
    <2>2. /\ base.nodePoolID # None =>
               mem.nodePoolID = base.nodePoolID \/ (mem.nodePoolID = None /\ Lost(base.nodePoolID))
          /\ base.nodePoolID = None /\ mem.nodePoolID # None => pool.nodePoolID = mem.nodePoolID
      BY <1>0, <2>1 DEF PassSound, RecordSteps
    <2>3. CASE mem.nodePoolID = base.nodePoolID
      BY <2>1, <2>3 DEF Merged
    <2>4. CASE base.nodePoolID = None /\ mem.nodePoolID # None
      BY <2>1, <2>2, <2>4 DEF Merged
    <2>5. CASE base.nodePoolID # None /\ mem.nodePoolID = None /\ Lost(base.nodePoolID)
      <3>1. base.nodePoolID # pool.nodePoolID
        BY <2>5
      <3> QED BY <2>1, <2>5, <3>1 DEF Merged
    <2> QED BY <2>2, <2>3, <2>4, <2>5
  <1>3. CASE ClearNodePoolID
    <2>1. pc = "dClear" /\ (pool' = pool \/ pool = mem)
      BY <1>3, Writes
    <2>2. Lost(mem.nodePoolID)
      BY <1>0, <2>1 DEF PassSound
    <2> QED BY <2>1, <2>2
  <1>4. CASE PatchObject \/ ReleaseFinalizer \/ UserEdits \/ UserDelete
    BY <1>0, <1>4, Writes
  <1> QED BY <1>0, <1>1, <1>2, <1>3, <1>4, Writers

\* PoolRecordKeptAlways: however stale what a pass had read, while the recorded
\* pool is there, in a cluster whose record was never dropped, no patch puts
\* another ID in its place, and only a pass that had read the ID of an earlier
\* pool clears it.
THEOREM PoolRecordKeptAlways == Spec => PoolRecordKept
  <1>1. IInv /\ RecordInv /\ [Next]_vars
          => [pool.exists /\ pool'.exists /\ ~Lost(pool.nodePoolID)
                => \/ pool'.nodePoolID = pool.nodePoolID
                   \/ pool'.nodePoolID = None /\ base.nodePoolID \notin {pool.nodePoolID, None}]_vars
    BY KeepStep
  <1> QED BY <1>1, InvInit, InvStep, RecordInit, RecordStep, PTL DEF Spec, PoolRecordKept
=============================================================================
