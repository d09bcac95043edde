------------------------- MODULE ControlPlaneProofs -------------------------
(* Proofs about ControlPlane, for every set of identifiers and every bound: *)
(* its invariants, and that it implements ControlPlaneContract.             *)
EXTENDS ControlPlane, TLAPS

-----------------------------------------------------------------------------
(* What the updates of the model do to the types.                          *)

\* A Blank object is an object.
LEMMA BlankType == Blank \in Object
  BY DEF Blank, Object, ClusterRef, EipRef, Address

\* The fields of an object have the types Object gives them.
LEMMA FieldTypes ==
  ASSUME NEW o \in Object
  PROVE  /\ o.exists \in BOOLEAN /\ o.deleting \in BOOLEAN /\ o.finalizer \in BOOLEAN
         /\ o.poll \in BOOLEAN /\ o.named \in BOOLEAN /\ o.ready \in BOOLEAN
         /\ o.clusterID \in ClusterRef /\ o.eipID \in EipRef
         /\ o.endpoint \in Address /\ o.published \in Address
  BY DEF Object

\* Setting one flag of an object yields an object.
LEMMA FlagUpdates ==
  ASSUME NEW o \in Object, NEW b \in BOOLEAN
  PROVE  /\ [o EXCEPT !.finalizer = b] \in Object
         /\ [o EXCEPT !.ready = b] \in Object
         /\ [o EXCEPT !.poll = b] \in Object
         /\ [o EXCEPT !.deleting = b] \in Object
  BY DEF Object

\* So does setting one identifier.
LEMMA IdUpdates ==
  ASSUME NEW o \in Object
  PROVE  /\ \A c \in ClusterRef : [o EXCEPT !.clusterID = c] \in Object
         /\ \A e \in EipRef : [o EXCEPT !.eipID = e] \in Object
         /\ \A a \in Address : [o EXCEPT !.endpoint = a, !.published = a] \in Object
  BY DEF Object

\* A status patch changes four fields at once.
LEMMA StatusUpdate ==
  ASSUME NEW o \in Object, NEW c \in ClusterRef, NEW e \in EipRef,
         NEW a \in Address, NEW b \in BOOLEAN
  PROVE  [o EXCEPT !.clusterID = c, !.eipID = e, !.endpoint = a, !.ready = b] \in Object
  BY DEF Object

\* An object patch changes two.
LEMMA ObjectUpdate ==
  ASSUME NEW o \in Object, NEW a \in Address, NEW b \in BOOLEAN
  PROVE  [o EXCEPT !.finalizer = b, !.published = a] \in Object
  BY DEF Object

\* A new object is an object.
LEMMA CreatedType ==
  ASSUME NEW b \in BOOLEAN
  PROVE  [Blank EXCEPT !.exists = TRUE, !.named = b] \in Object
  BY DEF Blank, Object, ClusterRef, EipRef, Address

\* The values a cloud record starts from, or is given, are cloud records.
LEMMA CloudValues ==
  /\ NoCluster \in CloudCluster /\ NoEip \in CloudEip
  /\ \A b \in BOOLEAN : FreshCluster(b) \in CloudCluster
  /\ \A b \in BOOLEAN : [phase |-> "Available", own |-> TRUE, tagged |-> b] \in CloudCluster
  BY DEF NoCluster, NoEip, FreshCluster, CloudCluster, CloudEip, Phases, ClusterRef

\* Changing a phase keeps the function of clusters well typed.
LEMMA CloudPhase ==
  ASSUME NEW f \in [ClusterIDs -> CloudCluster], NEW c \in ClusterIDs, NEW p \in Phases
  PROVE  [f EXCEPT ![c].phase = p] \in [ClusterIDs -> CloudCluster]
  BY DEF CloudCluster

\* Changing one field of an EIP keeps the function of EIPs well typed.
LEMMA EipState ==
  ASSUME NEW f \in [EipIDs -> CloudEip], NEW e, NEW st \in {"live", "released"}
  PROVE  [f EXCEPT ![e].state = st] \in [EipIDs -> CloudEip]
  BY DEF CloudEip, ClusterRef

\* The same for the owned tag, ...
LEMMA EipTag ==
  ASSUME NEW f \in [EipIDs -> CloudEip], NEW e
  PROVE  [f EXCEPT ![e].tagged = TRUE] \in [EipIDs -> CloudEip]
  BY DEF CloudEip, ClusterRef

\* ... for the binding, ...
LEMMA EipBound ==
  ASSUME NEW f \in [EipIDs -> CloudEip], NEW e, NEW c \in ClusterRef
  PROVE  [f EXCEPT ![e].bound = c] \in [EipIDs -> CloudEip]
  BY DEF CloudEip, ClusterRef

\* ... and for the unbind with release.
LEMMA EipReleased ==
  ASSUME NEW f \in [EipIDs -> CloudEip], NEW e
  PROVE  [f EXCEPT ![e].bound = None, ![e].state = "released"] \in [EipIDs -> CloudEip]
  BY DEF CloudEip, ClusterRef

\* An endpoint read back from an Available cluster is an address.
LEMMA BackfillType ==
  ASSUME NEW c \in ClusterRef, NEW o \in Object, NEW n \in Backfilled(o, c)
  PROVE  n \in Object
  <1>1. MasterEips(c) \cup {c} \subseteq Address
    BY DEF MasterEips, Address, ClusterRef
  <1> QED BY <1>1, IdUpdates DEF Backfilled

-----------------------------------------------------------------------------
(* The type invariant.                                                     *)

\* The initial state is well typed.
LEMMA TypeInit == Init => TypeOK
  <1> SUFFICES ASSUME Init PROVE TypeOK OBVIOUS
  <1>1. cloud \in [ClusterIDs -> CloudCluster]
    BY CloudValues DEF Init
  <1>2. eip \in [EipIDs -> CloudEip]
    BY CloudValues DEF Init
  <1>3. faults \in 0..MaxFaults /\ crashes \in 0..MaxCrashes /\ lives \in 0..MaxLives
    BY BoundAssumption DEF Init
  <1> QED BY <1>1, <1>2, <1>3, BlankType DEF Init, TypeOK, EipRef

\* A counted fault stays within its bound.
LEMMA FaultBound ==
  ASSUME TypeOK, Fault \/ NoFault PROVE faults' \in 0..MaxFaults
  BY BoundAssumption DEF TypeOK, Fault, NoFault

\* Every step of a normal pass preserves the types.
LEMMA TypeNormal == TypeOK /\ reconcileNormal => TypeOK'
  <1> SUFFICES ASSUME TypeOK, reconcileNormal PROVE TypeOK' OBVIOUS
  <1> USE DEF NormalSteps, DeleteSteps, apiVars, cloudVars
  <1>a. eip \in [EipIDs -> CloudEip] /\ cloud \in [ClusterIDs -> CloudCluster] /\ cp \in Object
    BY DEF TypeOK
  <1>b. mem \in Object /\ mem.clusterID \in ClusterRef
    BY FieldTypes DEF TypeOK
  <1>1. CASE StartNormal
    <2>1. mem' \in Object
      BY <1>1, FlagUpdates DEF StartNormal, TypeOK
    <2> QED BY <1>1, <2>1, FaultBound DEF StartNormal, TypeOK
  <1>2. CASE CreateCluster
    <2>1. mem' \in Object
      BY <1>2, IdUpdates DEF CreateCluster, ToClose, TypeOK, ClusterRef
    <2>2. cloud' \in [ClusterIDs -> CloudCluster]
      BY <1>2, CloudValues, FieldTypes DEF CreateCluster, CreateFresh, TypeOK
    <2> QED BY <1>2, <2>1, <2>2, FaultBound DEF CreateCluster, ToClose, TypeOK
  <1>3. CASE AdoptConflict
    <2>1. mem' = mem \/ \E c \in ClusterRef : mem' = [mem EXCEPT !.clusterID = c]
      BY <1>3 DEF AdoptConflict, ToClose, SameName, ClusterRef
    <2>2. mem' \in Object
      BY <1>b, <2>1, IdUpdates
    <2> QED BY <1>3, <2>2, FaultBound DEF AdoptConflict, ToClose, TypeOK
  <1>4. CASE ShowCluster
    <2>1. ASSUME ~Alive(mem.clusterID), mem' = AfterNotFound(mem) PROVE mem' \in Object
      BY <2>1, IdUpdates DEF AfterNotFound, TypeOK, ClusterRef
    <2>2. ASSUME cloud[mem.clusterID].phase = "Available",
                 mem' \in Backfilled(mem, mem.clusterID)
          PROVE  mem' \in Object
      BY <2>2, <1>b, BackfillType
    <2>3. mem' \in Object
      BY <1>4, <2>1, <2>2 DEF ShowCluster, TypeOK
    <2> QED BY <1>4, <2>3, FaultBound DEF ShowCluster, TypeOK
  <1>5. CASE CreatePublicip
    <2>1. UNCHANGED eip \/ \E e \in EipIDs : eip' = [eip EXCEPT ![e].state = "live"]
      BY <1>5 DEF CreatePublicip, NewPublicip
    <2>2. eip' \in [EipIDs -> CloudEip]
      <3>1. ASSUME NEW e \in EipIDs PROVE [eip EXCEPT ![e].state = "live"] \in [EipIDs -> CloudEip]
        BY <1>a, EipState
      <3> QED BY <1>a, <2>1, <3>1
    <2> QED BY <1>5, <2>2, FaultBound DEF CreatePublicip, ToClose, TypeOK, EipRef
  <1>6. CASE TagPublicip
    <2>0. \/ UNCHANGED eip
          \/ eip' = [eip EXCEPT ![newEip].tagged = TRUE]
          \/ eip' = [eip EXCEPT ![newEip].state = "released"]
      BY <1>6 DEF TagPublicip, ReleaseNewEip, WithTag
    <2>1. eip' \in [EipIDs -> CloudEip]
      <3>1. [eip EXCEPT ![newEip].state = "released"] \in [EipIDs -> CloudEip]
        BY <1>a, EipState
      <3>2. [eip EXCEPT ![newEip].tagged = TRUE] \in [EipIDs -> CloudEip]
        BY <1>a, EipTag, Zenon
      <3> QED BY <1>a, <2>0, <3>1, <3>2, Zenon
    <2>2. faults' \in 0..MaxFaults
      BY <1>6, BoundAssumption DEF TagPublicip, ReleaseNewEip, NoFault, TypeOK
    <2> QED BY <1>6, <2>1, <2>2 DEF TagPublicip, ToClose, TypeOK
  <1>7. CASE BindEip
    <2>0. \/ UNCHANGED eip
          \/ eip' = [eip EXCEPT ![newEip].bound = mem.clusterID]
          \/ eip' = [eip EXCEPT ![newEip].state = "released"]
      BY <1>7 DEF BindEip, ReleaseNewEip, BoundTo
    <2>1. eip' \in [EipIDs -> CloudEip]
      <3>1. mem.clusterID \in ClusterRef
        BY FieldTypes DEF TypeOK
      <3>2. [eip EXCEPT ![newEip].state = "released"] \in [EipIDs -> CloudEip]
        BY <1>a, EipState
      <3>3. [eip EXCEPT ![newEip].bound = mem.clusterID] \in [EipIDs -> CloudEip]
        BY <1>a, <3>1, EipBound
      <3> QED BY <1>a, <2>0, <3>2, <3>3
    <2>2. faults' \in 0..MaxFaults
      BY <1>7, BoundAssumption DEF BindEip, ReleaseNewEip, NoFault, TypeOK
    <2>3. mem' \in Object
      BY <1>7, IdUpdates DEF BindEip, ToClose, TypeOK
    <2> QED BY <1>7, <2>1, <2>2, <2>3 DEF BindEip, ToClose, TypeOK
  <1>8. CASE Tail
    <2>1. mem' \in Object
      BY <1>8, FlagUpdates DEF Tail, TypeOK
    <2> QED BY <1>8, <2>1, FaultBound DEF Tail, TypeOK
  <1>9. CASE PatchObject
    <2>1. cp' \in Object
      <3>1. Merged(mem.finalizer, base.finalizer, cp.finalizer) \in BOOLEAN
        BY FieldTypes DEF Merged, TypeOK
      <3>2. Merged(mem.published, base.published, cp.published) \in Address
        BY FieldTypes DEF Merged, TypeOK
      <3>3. UNCHANGED cp \/ cp' = [cp EXCEPT
              !.finalizer = Merged(mem.finalizer, base.finalizer, cp.finalizer),
              !.published = Merged(mem.published, base.published, cp.published)]
        BY <1>9, Zenon DEF PatchObject
      <3>4. [cp EXCEPT
              !.finalizer = Merged(mem.finalizer, base.finalizer, cp.finalizer),
              !.published = Merged(mem.published, base.published, cp.published)] \in Object
        BY <1>a, <3>1, <3>2, ObjectUpdate, Zenon
      <3> QED BY <1>a, <3>3, <3>4, Zenon
    <2> QED BY <1>9, <2>1, FaultBound DEF PatchObject, TypeOK
  <1>10. CASE PatchStatus
    <2>1. cp' \in Object
      <3>1. /\ Merged(mem.clusterID, base.clusterID, cp.clusterID) \in ClusterRef
            /\ Merged(mem.eipID, base.eipID, cp.eipID) \in EipRef
            /\ Merged(mem.endpoint, base.endpoint, cp.endpoint) \in Address
            /\ Merged(mem.ready, base.ready, cp.ready) \in BOOLEAN
        BY FieldTypes DEF Merged, TypeOK
      <3>2. UNCHANGED cp \/ cp' = [cp EXCEPT
              !.clusterID = Merged(mem.clusterID, base.clusterID, cp.clusterID),
              !.eipID = Merged(mem.eipID, base.eipID, cp.eipID),
              !.endpoint = Merged(mem.endpoint, base.endpoint, cp.endpoint),
              !.ready = Merged(mem.ready, base.ready, cp.ready)]
        BY <1>10, Zenon DEF PatchStatus
      <3>3. [cp EXCEPT
              !.clusterID = Merged(mem.clusterID, base.clusterID, cp.clusterID),
              !.eipID = Merged(mem.eipID, base.eipID, cp.eipID),
              !.endpoint = Merged(mem.endpoint, base.endpoint, cp.endpoint),
              !.ready = Merged(mem.ready, base.ready, cp.ready)] \in Object
        BY <1>a, <3>1, StatusUpdate, Zenon
      <3> QED BY <1>a, <3>2, <3>3, Zenon
    <2> QED BY <1>10, <2>1, FaultBound, BlankType DEF PatchStatus, EndPass, TypeOK, EipRef
  <1> QED BY <1>1, <1>2, <1>3, <1>4, <1>5, <1>6, <1>7, <1>8, <1>9, <1>10 DEF reconcileNormal

\* Every step of a delete pass preserves the types.
LEMMA TypeDelete == TypeOK /\ reconcileDelete => TypeOK'
  <1> SUFFICES ASSUME TypeOK, reconcileDelete PROVE TypeOK' OBVIOUS
  <1> USE BlankType DEF NormalSteps, DeleteSteps, apiVars, cloudVars
  <1>a. eip \in [EipIDs -> CloudEip] /\ cloud \in [ClusterIDs -> CloudCluster]
    BY DEF TypeOK
  <1>1. CASE StartDelete
    BY <1>1, FaultBound DEF StartDelete, FailDelete, EndPass, TypeOK, EipRef
  <1>2. CASE ShowForDelete
    BY <1>2, FaultBound DEF ShowForDelete, FailDelete, EndPass, TypeOK, EipRef
  <1>3. CASE DeleteCluster
    <2>1. cloud' \in [ClusterIDs -> CloudCluster]
      <3>1. ASSUME NEW c \in ClusterIDs
            PROVE  [cloud EXCEPT ![c].phase = "Deleting"] \in [ClusterIDs -> CloudCluster]
        BY <1>a, CloudPhase DEF Phases
      <3> QED BY <1>a, <1>3, <3>1 DEF DeleteCluster, DeleteAccepted, Alive
    <2> QED BY <1>3, <2>1, FaultBound DEF DeleteCluster, FailDelete, EndPass, TypeOK, EipRef
  <1>4. CASE BumpDeletePoll
    <2>1. cp.exists \in BOOLEAN
      BY FieldTypes DEF TypeOK
    <2>2. [cp EXCEPT !.poll = cp.exists] \in Object
      BY <2>1, FlagUpdates, Zenon DEF TypeOK
    <2>3. cp' \in Object
      BY <1>4, <2>2 DEF BumpDeletePoll, TypeOK
    <2> QED BY <1>4, <2>3, FaultBound DEF BumpDeletePoll, EndPass, TypeOK, EipRef
  <1>5. CASE UnbindEip
    <2>1. \/ UNCHANGED eip
          \/ eip' = [eip EXCEPT ![mem.eipID].bound = None]
          \/ eip' = [eip EXCEPT ![mem.eipID].bound = None, ![mem.eipID].state = "released"]
      BY <1>5 DEF UnbindEip
    <2>2. eip' \in [EipIDs -> CloudEip]
      <3>1. None \in ClusterRef
        BY DEF ClusterRef
      <3> QED BY <1>a, <2>1, <3>1, EipBound, EipReleased
    <2>3. mem' \in Object
      <3>1. mem \in Object /\ [mem EXCEPT !.eipID = None] \in Object
        BY IdUpdates DEF TypeOK, EipRef
      <3> QED BY <1>5, <3>1 DEF UnbindEip, FailDelete, EndPass
    <2> QED BY <1>5, <2>2, <2>3, FaultBound DEF UnbindEip, FailDelete, EndPass, TypeOK, EipRef
  <1>6. CASE ReleaseFinalizer
    BY <1>6, FaultBound DEF ReleaseFinalizer, EndPass, TypeOK, EipRef
  <1> QED BY <1>1, <1>2, <1>3, <1>4, <1>5, <1>6 DEF reconcileDelete

\* Users, Cluster API, the informer, the cloud and crashes preserve the types.
LEMMA TypeSurroundings == TypeOK /\ Surroundings => TypeOK'
  <1> SUFFICES ASSUME TypeOK, Surroundings PROVE TypeOK' OBVIOUS
  <1> USE BlankType DEF apiVars, cloudVars, passVars, boundVars
  <1>1. CASE UserCreate
    <2>1. cp' \in Object
      BY <1>1, CreatedType DEF UserCreate
    <2> QED BY <1>1, <2>1, BoundAssumption DEF UserCreate, TypeOK
  <1>2. CASE UserDelete
    <2>1. [cp EXCEPT !.deleting = TRUE] \in Object
      BY FlagUpdates, Zenon DEF TypeOK
    <2> QED BY <1>2, <2>1 DEF UserDelete, TypeOK
  <1>3. CASE ClusterRemoved \/ InfrastructureProvisioned \/ CacheSync
    BY <1>3 DEF ClusterRemoved, InfrastructureProvisioned, CacheSync, TypeOK
  <1>4. ASSUME NEW c \in ClusterIDs, NEW from, NEW to \in Phases,
               CloudStep(from, to, c), Fault \/ NoFault
        PROVE  TypeOK'
    <2>1. cloud' \in [ClusterIDs -> CloudCluster]
      BY <1>4, CloudPhase DEF CloudStep, TypeOK
    <2> QED BY <1>4, <2>1, FaultBound DEF CloudStep, TypeOK
  <1>5. CASE CloudProgress
    BY <1>4, <1>5 DEF CloudProgress, CloudProvisions, CloudDeletes, Phases
  <1>6. CASE \E c \in ClusterIDs : CloudDeleteFails(c) \/ OutOfBandDelete(c)
    BY <1>4, <1>6 DEF CloudDeleteFails, OutOfBandDelete, Phases
  <1>7. CASE Crash
    BY <1>7, BoundAssumption DEF Crash, EndPass, TypeOK, EipRef
  <1> QED BY <1>1, <1>2, <1>3, <1>5, <1>6, <1>7 DEF Surroundings

\* The state of the control-plane controller and of its surroundings stays
\* within its types in every behaviour.
THEOREM TypeCorrect == Spec => []TypeOK
  <1>1. TypeOK /\ [Next]_vars => TypeOK'
    <2>1. TypeOK /\ UNCHANGED vars => TypeOK'
      BY DEF TypeOK, vars, apiVars, cloudVars, passVars, boundVars
    <2> QED BY <2>1, TypeNormal, TypeDelete, TypeSurroundings DEF Next, Reconcile
  <1> QED BY <1>1, TypeInit, PTL DEF Spec

-----------------------------------------------------------------------------
(* PassSound is inductive.  The cloud only moves forward; identifiers only  *)
(* flow from a pass to the store and back through the cache.                *)

\* No step un-tags or un-creates a cluster, or brings one back.
CloudForward ==
  \A c \in ClusterIDs :
    /\ cloud[c].tagged /\ cloud[c].phase # "unborn"
         => cloud'[c].tagged /\ cloud'[c].phase # "unborn"
    /\ cloud[c].phase = "gone" => cloud'[c].phase = "gone"

\* No step un-creates an EIP or brings a released one back.
EipForward ==
  \A e \in EipIDs :
    /\ eip[e].state # "unborn" => eip'[e].state # "unborn"
    /\ eip[e].state = "released" => eip'[e].state = "released"

\* ClusterSound and EipSound of an identifier after the step.
ClusterSoundNext(id) == id # None => cloud'[id].tagged /\ cloud'[id].phase # "unborn"
EipSoundNext(id) == id # None => eip'[id].state # "unborn"

\* Deleting is the last phase before gone, and a gone cluster is not deleted.
LEMMA PhaseStepForward ==
  ASSUME TypeOK, NEW c \in ClusterIDs, NEW to \in Phases \ {"unborn"},
         cloud[c].phase # "gone", cloud' = [cloud EXCEPT ![c].phase = to]
  PROVE  CloudForward
  BY DEF CloudForward, TypeOK, CloudCluster

\* Every step moves the clusters forward.
LEMMA CloudMovesForward == TypeOK /\ Next => CloudForward
  <1> SUFFICES ASSUME TypeOK, Next PROVE CloudForward OBVIOUS
  <1> USE DEF cloudVars
  <1>1. CASE UNCHANGED cloud
    BY <1>1 DEF CloudForward
  <1>2. CASE CreateCluster
    <2>1. UNCHANGED cloud \/ \E c \in ClusterIDs : CreateFresh(c)
      BY <1>2 DEF CreateCluster
    <2>2. ASSUME NEW c \in ClusterIDs, CreateFresh(c) PROVE CloudForward
      BY <2>2 DEF CreateFresh, FreshCluster, CloudForward, TypeOK
    <2> QED BY <1>1, <2>1, <2>2
  <1>3. CASE DeleteCluster
    <2>1. UNCHANGED cloud \/ DeleteAccepted(mem.clusterID)
      BY <1>3 DEF DeleteCluster
    <2> QED BY <1>1, <2>1, PhaseStepForward DEF DeleteAccepted, Alive, Phases
  <1>4. ASSUME NEW c \in ClusterIDs, NEW from, NEW to \in Phases \ {"unborn"},
               "gone" \notin from, CloudStep(from, to, c)
        PROVE  CloudForward
    BY <1>4, PhaseStepForward DEF CloudStep
  <1>5. CASE CloudProgress
    BY <1>4, <1>5 DEF CloudProgress, CloudProvisions, CloudDeletes, Phases
  <1>6. CASE \E c \in ClusterIDs : CloudDeleteFails(c) \/ OutOfBandDelete(c)
    BY <1>4, <1>6 DEF CloudDeleteFails, OutOfBandDelete, Phases
  <1>7. CASE \/ StartNormal \/ AdoptConflict \/ ShowCluster \/ CreatePublicip \/ TagPublicip
             \/ BindEip \/ Tail \/ PatchObject \/ PatchStatus
    BY <1>1, <1>7 DEF StartNormal, AdoptConflict, ShowCluster, CreatePublicip, TagPublicip,
         BindEip, Tail, PatchObject, PatchStatus
  <1>8. CASE \/ StartDelete \/ ShowForDelete \/ BumpDeletePoll \/ UnbindEip \/ ReleaseFinalizer
    BY <1>1, <1>8 DEF StartDelete, ShowForDelete, BumpDeletePoll, UnbindEip, ReleaseFinalizer
  <1>9. CASE \/ UserCreate \/ UserDelete \/ ClusterRemoved \/ InfrastructureProvisioned
             \/ CacheSync \/ Crash
    BY <1>1, <1>9 DEF UserCreate, UserDelete, ClusterRemoved, InfrastructureProvisioned,
         CacheSync, Crash
  <1> QED BY <1>2, <1>3, <1>5, <1>6, <1>7, <1>8, <1>9
        DEF Next, Reconcile, reconcileNormal, reconcileDelete, Surroundings

\* Every step moves the EIPs forward.
LEMMA EipsMoveForward == TypeOK /\ PassSound /\ Next => EipForward
  <1> SUFFICES ASSUME TypeOK, PassSound, Next PROVE EipForward OBVIOUS
  <1> USE DEF cloudVars
  <1>1. CASE UNCHANGED eip
    BY <1>1 DEF EipForward
  <1>2. CASE CreatePublicip
    BY <1>2 DEF CreatePublicip, NewPublicip, EipForward, TypeOK, CloudEip
  <1>3. CASE TagPublicip
    BY <1>3 DEF TagPublicip, ReleaseNewEip, WithTag, EipForward, TypeOK, CloudEip
  <1>4. CASE BindEip
    BY <1>4 DEF BindEip, ReleaseNewEip, BoundTo, EipForward, TypeOK, CloudEip
  <1>5. CASE UnbindEip
    BY <1>5 DEF UnbindEip, EipForward, TypeOK, CloudEip
  <1>6. CASE \/ StartNormal \/ CreateCluster \/ AdoptConflict \/ ShowCluster
             \/ Tail \/ PatchObject \/ PatchStatus
    BY <1>1, <1>6 DEF StartNormal, CreateCluster, AdoptConflict, ShowCluster,
         Tail, PatchObject, PatchStatus
  <1>7. CASE \/ StartDelete \/ ShowForDelete \/ DeleteCluster \/ BumpDeletePoll \/ ReleaseFinalizer
    BY <1>1, <1>7 DEF StartDelete, ShowForDelete, DeleteCluster, BumpDeletePoll, ReleaseFinalizer
  <1>8. CASE Surroundings
    BY <1>1, <1>8 DEF Surroundings, UserCreate, UserDelete, ClusterRemoved,
         InfrastructureProvisioned, CacheSync, Crash, CloudProgress, CloudProvisions,
         CloudDeletes, CloudDeleteFails, OutOfBandDelete, CloudStep
  <1> QED BY <1>2, <1>3, <1>4, <1>5, <1>6, <1>7, <1>8
        DEF Next, Reconcile, reconcileNormal, reconcileDelete

\* What was sound stays sound.
LEMMA SoundStays ==
  ASSUME TypeOK, CloudForward, EipForward
  PROVE  /\ \A id \in ClusterRef : ClusterSound(id) => ClusterSoundNext(id)
         /\ \A id \in EipRef : EipSound(id) => EipSoundNext(id)
  BY DEF ClusterSound, ClusterSoundNext, EipSound, EipSoundNext, CloudForward, EipForward,
       ClusterRef, EipRef

\* What is gone, and once existed, stays gone.
LEMMA GoneStays ==
  ASSUME TypeOK, CloudForward, EipForward
  PROVE  /\ \A id \in ClusterRef : ClusterSound(id) /\ ~Alive(id)
                => ~(id \in ClusterIDs /\ cloud'[id].phase \in {"Creating", "Available", "Deleting"})
         /\ \A id \in EipRef : EipSound(id) /\ ~LiveEip(id)
                => ~(id \in EipIDs /\ eip'[id].state = "live")
  BY IdAssumption DEF ClusterSound, EipSound, Alive, LiveEip, CloudForward, EipForward,
       ClusterRef, EipRef, TypeOK, CloudCluster, CloudEip, Phases

\* Where a cluster ID held after a step comes from: the store, the cache or
\* the pass as they were, or a create or adoption of this very step.
ClusterFlow ==
  /\ cp'.clusterID \in {None, cp.clusterID, mem.clusterID}
  /\ cache'.clusterID \in {cache.clusterID, cp.clusterID}
  /\ base'.clusterID \in {None, base.clusterID, cache.clusterID}
  /\ \/ mem'.clusterID \in {None, mem.clusterID, cache.clusterID}
     \/ mem'.clusterID \in ClusterIDs /\ ClusterSoundNext(mem'.clusterID)

\* Where an EIP ID held after a step comes from.
EipFlow ==
  /\ cp'.eipID \in {None, cp.eipID, mem.eipID}
  /\ cache'.eipID \in {cache.eipID, cp.eipID}
  /\ base'.eipID \in {None, base.eipID, cache.eipID}
  /\ mem'.eipID \in {None, mem.eipID, cache.eipID, newEip}
  /\ \/ newEip' \in {None, newEip}
     \/ newEip' \in EipIDs /\ EipSoundNext(newEip')

\* A blank object names nothing.
LEMMA BlankNames == Blank.clusterID = None /\ Blank.eipID = None
  BY DEF Blank

\* Reading an endpoint back leaves the identifiers alone.
LEMMA BackfillNames ==
  ASSUME NEW o \in Object, NEW c, NEW n \in Backfilled(o, c)
  PROVE  n.clusterID = o.clusterID /\ n.eipID = o.eipID
  BY DEF Backfilled, Object

\* Identifiers flow as described in every step of a normal pass.
LEMMA NormalFlow == TypeOK /\ reconcileNormal => ClusterFlow /\ EipFlow
  <1> SUFFICES ASSUME TypeOK, reconcileNormal PROVE ClusterFlow /\ EipFlow OBVIOUS
  <1> USE BlankNames DEF apiVars, cloudVars, ClusterFlow, EipFlow
  <1>1. CASE StartNormal
    BY <1>1 DEF StartNormal, TypeOK, Object
  <1>2. CASE CreateCluster
    <2>1. ASSUME NEW c \in ClusterIDs, CreateFresh(c) PROVE ClusterSoundNext(c)
      BY <2>1 DEF CreateFresh, FreshCluster, ClusterSoundNext, TypeOK
    <2> QED BY <1>2, <2>1 DEF CreateCluster, ToClose, TypeOK, Object
  <1>3. CASE AdoptConflict
    <2>1. ASSUME NEW c \in SameName(mem.named), Adoptable(c), UNCHANGED cloud
          PROVE  c \in ClusterIDs /\ ClusterSoundNext(c)
      BY <2>1 DEF SameName, Adoptable, ClusterSoundNext, TypeOK
    <2> QED BY <1>3, <2>1 DEF AdoptConflict, ToClose, TypeOK, Object
  <1>4. CASE ShowCluster
    <2>1. ASSUME mem' \in Backfilled(mem, mem.clusterID)
          PROVE  mem'.clusterID = mem.clusterID /\ mem'.eipID = mem.eipID
      BY <2>1, BackfillNames DEF TypeOK
    <2>2. mem'.clusterID \in {None, mem.clusterID} /\ mem'.eipID = mem.eipID
      BY <1>4, <2>1 DEF ShowCluster, AfterNotFound, TypeOK, Object
    <2> QED BY <1>4, <2>2 DEF ShowCluster
  <1>5. CASE CreatePublicip
    <2>1. ASSUME NEW e \in EipIDs, eip' = [eip EXCEPT ![e].state = "live"]
          PROVE  EipSoundNext(e)
      BY <2>1 DEF EipSoundNext, TypeOK, CloudEip
    <2> QED BY <1>5, <2>1 DEF CreatePublicip, NewPublicip, ToClose
  <1>6. CASE TagPublicip
    BY <1>6 DEF TagPublicip, ToClose
  <1>7. CASE BindEip
    BY <1>7 DEF BindEip, ToClose, TypeOK, Object
  <1>8. CASE Tail
    BY <1>8 DEF Tail, TypeOK, Object
  <1>9. CASE PatchObject
    BY <1>9 DEF PatchObject, TypeOK, Object
  <1>10. CASE PatchStatus
    BY <1>10 DEF PatchStatus, Merged, EndPass, TypeOK, Object
  <1> QED BY <1>1, <1>2, <1>3, <1>4, <1>5, <1>6, <1>7, <1>8, <1>9, <1>10 DEF reconcileNormal

\* And in every other step.
LEMMA OtherFlow == TypeOK /\ (reconcileDelete \/ Surroundings) => ClusterFlow /\ EipFlow
  <1> SUFFICES ASSUME TypeOK, reconcileDelete \/ Surroundings PROVE ClusterFlow /\ EipFlow
    OBVIOUS
  <1> USE BlankNames DEF apiVars, cloudVars, passVars, boundVars, ClusterFlow, EipFlow
  <1>1. CASE StartDelete
    BY <1>1 DEF StartDelete, FailDelete, EndPass
  <1>2. CASE ShowForDelete
    BY <1>2 DEF ShowForDelete, FailDelete, EndPass
  <1>3. CASE DeleteCluster
    BY <1>3 DEF DeleteCluster, FailDelete, EndPass
  <1>4. CASE BumpDeletePoll
    BY <1>4 DEF BumpDeletePoll, EndPass, TypeOK, Object
  <1>5. CASE UnbindEip
    BY <1>5 DEF UnbindEip, FailDelete, EndPass, TypeOK, Object
  <1>6. CASE ReleaseFinalizer
    BY <1>6 DEF ReleaseFinalizer, EndPass
  <1>7. CASE UserCreate
    BY <1>7 DEF UserCreate, Blank
  <1>8. CASE UserDelete
    BY <1>8 DEF UserDelete, TypeOK, Object
  <1>9. CASE ClusterRemoved \/ InfrastructureProvisioned \/ CacheSync
    BY <1>9 DEF ClusterRemoved, InfrastructureProvisioned, CacheSync
  <1>10. CASE CloudProgress \/ \E c \in ClusterIDs : CloudDeleteFails(c) \/ OutOfBandDelete(c)
    BY <1>10 DEF CloudProgress, CloudProvisions, CloudDeletes, CloudDeleteFails,
         OutOfBandDelete, CloudStep
  <1>11. CASE Crash
    BY <1>11 DEF Crash, EndPass
  <1> QED BY <1>1, <1>2, <1>3, <1>4, <1>5, <1>6, <1>7, <1>8, <1>9, <1>10, <1>11
        DEF reconcileDelete, Surroundings

\* Identifiers held after a step are sound if those held before it were.
LEMMA RecordsStep ==
  ASSUME TypeOK, PassSound, Next
  PROVE  /\ ClusterSoundNext(cp'.clusterID) /\ EipSoundNext(cp'.eipID)
         /\ ClusterSoundNext(cache'.clusterID) /\ EipSoundNext(cache'.eipID)
         /\ ClusterSoundNext(mem'.clusterID) /\ EipSoundNext(mem'.eipID)
         /\ ClusterSoundNext(base'.clusterID) /\ EipSoundNext(base'.eipID)
         /\ EipSoundNext(newEip')
  <1>1. ClusterFlow /\ EipFlow
    BY NormalFlow, OtherFlow DEF Next, Reconcile
  <1>2. CloudForward /\ EipForward
    BY CloudMovesForward, EipsMoveForward
  <1>3. /\ \A o \in {cp, cache, mem, base} :
             o.clusterID \in ClusterRef /\ o.eipID \in EipRef
        /\ newEip \in EipRef
    BY FieldTypes DEF TypeOK
  <1>4. /\ \A o \in {cp, cache, mem, base} :
             ClusterSoundNext(o.clusterID) /\ EipSoundNext(o.eipID)
        /\ EipSoundNext(newEip)
    BY <1>2, <1>3, SoundStays DEF PassSound, RecordSound
  <1>5. ClusterSoundNext(None) /\ EipSoundNext(None)
    BY DEF ClusterSoundNext, EipSoundNext
  <1> QED BY <1>1, <1>4, <1>5 DEF ClusterFlow, EipFlow

\* A step that leaves the pass where it was keeps what a delete pass knows.
LEMMA DeleteFactsStay ==
  ASSUME TypeOK, PassSound, Next, UNCHANGED <<pc, mem, base>>
  PROVE  DeletePassSound'
  <1>1. CloudForward /\ EipForward
    BY CloudMovesForward, EipsMoveForward
  <1>2. /\ base.clusterID \in ClusterRef /\ base.eipID \in EipRef
        /\ ClusterSound(base.clusterID) /\ EipSound(base.eipID)
    BY FieldTypes DEF TypeOK, PassSound, RecordSound
  <1>3. /\ ~Alive(base.clusterID) => ~Alive(base.clusterID)'
        /\ ~LiveEip(base.eipID) => ~LiveEip(base.eipID)'
    BY <1>1, <1>2, GoneStays DEF Alive, LiveEip
  <1> QED BY <1>3 DEF PassSound, DeletePassSound

\* No step of a pass, and nothing around it, breaks what a delete pass knows.
LEMMA DeleteFactsStep == TypeOK /\ PassSound /\ Next => DeletePassSound'
  <1> SUFFICES ASSUME TypeOK, PassSound, Next PROVE DeletePassSound' OBVIOUS
  <1> USE DEF passVars, DeletePassSound
  <1>1. ASSUME pc' \notin DeleteSteps PROVE DeletePassSound'
    BY <1>1 DEF DeleteSteps
  <1>2. CASE reconcileNormal
    <2>1. pc' \notin DeleteSteps
      BY <1>2 DEF reconcileNormal, StartNormal, CreateCluster, AdoptConflict, ShowCluster,
           CreatePublicip, TagPublicip, BindEip, Tail, PatchObject, PatchStatus,
           ToClose, EndPass, DeleteSteps
    <2> QED BY <1>1, <2>1
  <1>3. CASE StartDelete
    BY <1>3, IdAssumption DEF StartDelete, FailDelete, EndPass, Alive
  <1>4. CASE ShowForDelete
    <2>1. SeenGone(mem.clusterID) /\ UNCHANGED <<mem, base, cloudVars>> /\ pc' = "dUnbind"
            => DeletePassSound'
      BY <1>4 DEF ShowForDelete, SeenGone, Alive, PassSound, cloudVars
    <2>2. mem = base
      BY <1>4 DEF ShowForDelete, PassSound
    <2> QED BY <1>4, <2>1, <2>2 DEF ShowForDelete, FailDelete, EndPass
  <1>5. CASE DeleteCluster
    BY <1>5 DEF DeleteCluster, FailDelete, EndPass, PassSound
  <1>6. CASE BumpDeletePoll \/ ReleaseFinalizer
    BY <1>6 DEF BumpDeletePoll, ReleaseFinalizer, EndPass
  <1>7. CASE UnbindEip
    <2>1. mem = base /\ ~Alive(base.clusterID)
      BY <1>7 DEF UnbindEip, PassSound
    <2>2. base' = base /\ UNCHANGED cloud => ~Alive(base.clusterID)'
      BY <2>1 DEF Alive
    <2>3. ASSUME base.eipID # None, base' = base,
                 eip' = [eip EXCEPT ![base.eipID].bound = None, ![base.eipID].state = "released"]
          PROVE  ~LiveEip(base.eipID)'
      BY <2>3 DEF LiveEip, TypeOK, CloudEip
    <2>4. ASSUME base.eipID = None, base' = base PROVE ~LiveEip(base.eipID)'
      BY <2>4, IdAssumption DEF LiveEip
    <2> QED BY <1>7, <2>1, <2>2, <2>3, <2>4 DEF UnbindEip, FailDelete, EndPass
  <1>8. CASE Crash
    BY <1>8 DEF Crash, EndPass
  <1>9. CASE Surroundings /\ ~Crash
    <2>1. UNCHANGED <<pc, mem, base>>
      BY <1>9 DEF Surroundings, UserCreate, UserDelete, ClusterRemoved,
           InfrastructureProvisioned, CacheSync, CloudProgress, CloudProvisions,
           CloudDeletes, CloudDeleteFails, OutOfBandDelete, CloudStep
    <2> QED BY <2>1, DeleteFactsStay
  <1> QED BY <1>2, <1>3, <1>4, <1>5, <1>6, <1>7, <1>8, <1>9
        DEF Next, Reconcile, reconcileDelete

\* Between creating an EIP and recording it the pass knows which one it is.
LEMMA NewEipStep == TypeOK /\ PassSound /\ Next => (pc' \in {"eipTag", "eipBind"} => newEip' # None)
  <1> SUFFICES ASSUME TypeOK, PassSound, Next, pc' \in {"eipTag", "eipBind"}
               PROVE newEip' # None
    OBVIOUS
  <1> USE DEF passVars, PassSound
  <1>1. CASE reconcileNormal
    BY <1>1, IdAssumption DEF reconcileNormal, StartNormal, CreateCluster, AdoptConflict,
         ShowCluster, CreatePublicip, TagPublicip, BindEip, Tail, PatchObject, PatchStatus,
         ToClose, EndPass
  <1>2. CASE reconcileDelete
    BY <1>2 DEF reconcileDelete, StartDelete, ShowForDelete, DeleteCluster, BumpDeletePoll,
         UnbindEip, ReleaseFinalizer, FailDelete, EndPass
  <1>3. CASE Surroundings
    BY <1>3 DEF Surroundings, UserCreate, UserDelete, ClusterRemoved,
         InfrastructureProvisioned, CacheSync, Crash, CloudProgress, CloudProvisions,
         CloudDeletes, CloudDeleteFails, OutOfBandDelete, CloudStep, EndPass
  <1> QED BY <1>1, <1>2, <1>3 DEF Next, Reconcile

\* PassSound holds initially.
LEMMA PassSoundInit == Init => PassSound
  BY BlankNames DEF Init, PassSound, RecordSound, ClusterSound, EipSound, DeletePassSound

\* Every step preserves PassSound.
LEMMA PassSoundStep == TypeOK /\ PassSound /\ [Next]_vars => PassSound'
  <1> SUFFICES ASSUME TypeOK, PassSound, [Next]_vars PROVE PassSound' OBVIOUS
  <1>1. CASE UNCHANGED vars
    BY <1>1 DEF vars, apiVars, cloudVars, passVars, PassSound, RecordSound, ClusterSound,
         EipSound, DeletePassSound, Alive, LiveEip
  <1>2. CASE Next
    <2>1. \A o \in {cp', cache', mem', base'} :
            ClusterSoundNext(o.clusterID) /\ EipSoundNext(o.eipID)
      BY <1>2, RecordsStep
    <2>2. EipSoundNext(newEip')
      BY <1>2, RecordsStep
    <2>3. DeletePassSound' /\ (pc' \in {"eipTag", "eipBind"} => newEip' # None)
      BY <1>2, DeleteFactsStep, NewEipStep
    <2> QED BY <2>1, <2>2, <2>3 DEF PassSound, RecordSound, ClusterSound, EipSound,
              ClusterSoundNext, EipSoundNext
  <1> QED BY <1>1, <1>2

\* Whatever a pass holds in memory is ours, and a delete pass moves towards the
\* finalizer only past resources that are gone: for any number of identifiers,
\* failures, crashes and re-creations, and with stale reads.
THEOREM PassSoundAlways == Spec => []PassSound
  <1>1. TypeOK /\ PassSound /\ [Next]_vars => PassSound'
    BY PassSoundStep
  <1> QED BY <1>1, PassSoundInit, TypeCorrect, PTL DEF Spec

\* No pass and no stored object ever holds a cluster without the owned tag.
THEOREM OwnedOnlyAlways == Spec => []OwnedOnly
  <1>1. PassSound => OwnedOnly
    BY DEF PassSound, RecordSound, ClusterSound, OwnedOnly
  <1> QED BY <1>1, PassSoundAlways, PTL

\* A step that removes a finalized object is the release of a delete pass, and
\* what its version check compared with the store is what the pass cleaned up.
LEMMA ReleaseStep ==
  ASSUME TypeOK, PassSound, [Next]_vars, cp.exists, cp.finalizer, ~cp'.exists
  PROVE  ~Alive(cp.clusterID) /\ ~LiveEip(cp.eipID)
  <1> USE DEF apiVars, cloudVars, passVars, boundVars
  <1>1. CASE ReleaseFinalizer
    BY <1>1 DEF ReleaseFinalizer, VersionMatches, PassSound, DeletePassSound
  <1>2. ASSUME UNCHANGED cp PROVE FALSE
    BY <1>2
  <1>3. CASE PatchObject \/ PatchStatus \/ BumpDeletePoll
    BY <1>2, <1>3 DEF PatchObject, PatchStatus, BumpDeletePoll, TypeOK, Object
  <1>4. CASE UserCreate \/ UserDelete
    BY <1>4 DEF UserCreate, UserDelete, TypeOK, Object
  <1>5. CASE \/ StartNormal \/ CreateCluster \/ AdoptConflict \/ ShowCluster
             \/ CreatePublicip \/ TagPublicip \/ BindEip \/ Tail
    BY <1>2, <1>5 DEF StartNormal, CreateCluster, AdoptConflict, ShowCluster,
         CreatePublicip, TagPublicip, BindEip, Tail
  <1>6. CASE StartDelete \/ ShowForDelete \/ DeleteCluster \/ UnbindEip
    BY <1>2, <1>6 DEF StartDelete, ShowForDelete, DeleteCluster, UnbindEip
  <1>7. CASE \/ ClusterRemoved \/ InfrastructureProvisioned \/ CacheSync \/ Crash \/ CloudProgress
             \/ \E c \in ClusterIDs : CloudDeleteFails(c) \/ OutOfBandDelete(c)
    BY <1>2, <1>7 DEF ClusterRemoved, InfrastructureProvisioned, CacheSync, Crash,
         CloudProgress, CloudProvisions, CloudDeletes, CloudDeleteFails, OutOfBandDelete, CloudStep
  <1>8. CASE UNCHANGED vars
    BY <1>2, <1>8 DEF vars
  <1> QED BY <1>1, <1>3, <1>4, <1>5, <1>6, <1>7, <1>8
        DEF Next, Reconcile, reconcileNormal, reconcileDelete, Surroundings

\* A finalized control plane leaves the API server only after the cluster and
\* the EIP its stored status names are gone.
THEOREM ReleaseCleanAlways == Spec => ReleaseClean
  <1>1. TypeOK /\ PassSound /\ [Next]_vars
          => [cp.exists /\ cp.finalizer /\ ~cp'.exists
                => ~Alive(cp.clusterID) /\ ~LiveEip(cp.eipID)]_vars
    BY ReleaseStep
  <1> QED BY <1>1, TypeCorrect, PassSoundAlways, PTL DEF Spec, ReleaseClean

-----------------------------------------------------------------------------
(* EIPs.                                                                    *)

\* The tag comes before the binding, and stays.
TagSound == BoundTagged /\ (pc = "eipBind" => eip[newEip].tagged)

\* Every step preserves TagSound.
LEMMA TagSoundStep == TypeOK /\ PassSound /\ TagSound /\ [Next]_vars => TagSound'
  <1> SUFFICES ASSUME TypeOK, PassSound, TagSound, [Next]_vars PROVE TagSound' OBVIOUS
  <1> USE DEF TagSound, BoundTagged, cloudVars, passVars
  <1>a. eip \in [EipIDs -> CloudEip] /\ newEip \in EipRef
    BY DEF TypeOK
  <1>1. ASSUME UNCHANGED eip, pc' # "eipBind" \/ UNCHANGED <<pc, newEip>> PROVE TagSound'
    BY <1>1
  <1>2. CASE CreatePublicip
    <2>1. pc' # "eipBind"
      BY <1>2 DEF CreatePublicip, ToClose
    <2>2. UNCHANGED eip \/ \E e \in EipIDs : eip' = [eip EXCEPT ![e].state = "live"]
      BY <1>2 DEF CreatePublicip, NewPublicip
    <2> QED BY <1>a, <2>1, <2>2 DEF CloudEip
  <1>3. CASE TagPublicip
    <2>1. newEip \in EipIDs
      BY <1>3, <1>a DEF TagPublicip, PassSound, EipRef
    <2>2. \/ pc' = "eipBind" /\ eip' = [eip EXCEPT ![newEip].tagged = TRUE] /\ newEip' = newEip
          \/ pc' # "eipBind" /\ UNCHANGED eip
          \/ pc' # "eipBind" /\ eip' = [eip EXCEPT ![newEip].tagged = TRUE]
          \/ pc' # "eipBind" /\ eip' = [eip EXCEPT ![newEip].state = "released"]
      BY <1>3 DEF TagPublicip, ReleaseNewEip, WithTag, ToClose
    <2> QED BY <1>a, <2>1, <2>2 DEF CloudEip
  <1>4. CASE BindEip
    <2>1. newEip \in EipIDs /\ eip[newEip].tagged
      BY <1>4, <1>a DEF BindEip, PassSound, EipRef
    <2>2. /\ pc' # "eipBind"
          /\ \/ UNCHANGED eip
             \/ eip' = [eip EXCEPT ![newEip].bound = mem.clusterID]
             \/ eip' = [eip EXCEPT ![newEip].state = "released"]
      BY <1>4 DEF BindEip, ReleaseNewEip, BoundTo, ToClose
    <2> QED BY <1>a, <2>1, <2>2 DEF CloudEip
  <1>5. CASE UnbindEip
    <2>1. /\ pc' # "eipBind"
          /\ \/ UNCHANGED eip
             \/ eip' = [eip EXCEPT ![mem.eipID].bound = None]
             \/ eip' = [eip EXCEPT ![mem.eipID].bound = None, ![mem.eipID].state = "released"]
      BY <1>5 DEF UnbindEip, FailDelete, EndPass
    <2> QED BY <1>a, <2>1 DEF CloudEip
  <1>6. CASE \/ StartNormal \/ CreateCluster \/ AdoptConflict \/ ShowCluster
             \/ Tail \/ PatchObject \/ PatchStatus
    BY <1>1, <1>6 DEF StartNormal, CreateCluster, AdoptConflict, ShowCluster, Tail,
         PatchObject, PatchStatus, ToClose, EndPass
  <1>7. CASE StartDelete \/ ShowForDelete \/ DeleteCluster \/ BumpDeletePoll \/ ReleaseFinalizer
    BY <1>1, <1>7 DEF StartDelete, ShowForDelete, DeleteCluster, BumpDeletePoll,
         ReleaseFinalizer, FailDelete, EndPass
  <1>8. CASE Surroundings
    BY <1>1, <1>8 DEF Surroundings, UserCreate, UserDelete, ClusterRemoved,
         InfrastructureProvisioned, CacheSync, CloudProgress, CloudProvisions,
         CloudDeletes, CloudDeleteFails, OutOfBandDelete, CloudStep, Crash, EndPass
  <1>9. CASE UNCHANGED vars
    BY <1>1, <1>9 DEF vars
  <1> QED BY <1>2, <1>3, <1>4, <1>5, <1>6, <1>7, <1>8, <1>9
        DEF Next, Reconcile, reconcileNormal, reconcileDelete

\* Every EIP bound to a cluster carries the owned tag, whatever fails between
\* the create, tag and bind calls of BindClusterEip.
THEOREM BoundTaggedAlways == Spec => []BoundTagged
  <1>1. Init => TagSound
    BY DEF Init, TagSound, BoundTagged, NoEip
  <1>2. TagSound => BoundTagged
    BY DEF TagSound
  <1> QED BY <1>1, <1>2, TagSoundStep, TypeCorrect, PassSoundAlways, PTL DEF Spec

-----------------------------------------------------------------------------
(* Why no record of a live cluster is replaced: passes run only for a        *)
(* control plane that bears the Cluster's name, so all clusters share one    *)
(* name, of which the cloud keeps one at a time; a pass that read no record  *)
(* finds the recorded cluster in its way and adopts that one.                *)

NameSound ==
  /\ \A c \in ClusterIDs : cloud[c].own
  /\ \A c, d \in ClusterIDs : Alive(c) /\ Alive(d) => c = d

\* What a normal pass is about to store: a new record only where there was
\* none it does not repeat, no record only where the one it read is gone.
PatchSound ==
  pc \in NormalSteps =>
    /\ mem.named /\ mem.finalizer /\ (base.ready => mem.ready)
    /\ pc \in {"create", "adopt"} => mem.clusterID = None /\ base.clusterID = None
    /\ \/ mem.clusterID = base.clusterID
       \/ mem.clusterID = None /\ base.clusterID # None /\ ~Alive(base.clusterID)
       \/ base.clusterID = None /\ (Alive(cp.clusterID) => cp.clusterID = mem.clusterID)

PromiseInv == NameSound /\ PatchSound /\ (pc \in DeleteSteps => base.exists)

\* Clusters come alive only by creation, one at a time.
LEMMA NameSoundStep == TypeOK /\ PassSound /\ PromiseInv /\ [Next]_vars => NameSound'
  <1> SUFFICES ASSUME TypeOK, PassSound, PromiseInv, [Next]_vars PROVE NameSound' OBVIOUS
  <1> USE DEF PromiseInv, NameSound, Alive
  <1>a. cloud \in [ClusterIDs -> CloudCluster]
    BY DEF TypeOK
  <1>1. ASSUME UNCHANGED cloud PROVE NameSound'
    BY <1>1
  <1>2. ASSUME NEW c \in ClusterIDs, NEW p \in {"Creating", "Available", "Deleting", "gone"},
               Alive(c), cloud' = [cloud EXCEPT ![c].phase = p]
        PROVE  NameSound'
    BY <1>2, <1>a DEF CloudCluster
  <1>3. CASE CreateCluster
    <2>1. mem.named
      BY <1>3 DEF CreateCluster, PatchSound, NormalSteps
    <2>2. ASSUME NEW c \in ClusterIDs, CreateFresh(c), SameName(mem.named) = {}
          PROVE  NameSound'
      <3>1. \A d \in ClusterIDs : ~Alive(d)
        BY <2>1, <2>2, <1>a DEF SameName, CloudCluster
      <3>2. cloud' = [cloud EXCEPT ![c] = [phase |-> "Creating", own |-> TRUE, tagged |-> TRUE]]
        BY <2>1, <2>2, FieldTypes DEF CreateFresh, FreshCluster, TypeOK
      <3> QED BY <1>a, <3>1, <3>2 DEF CloudCluster
    <2> QED BY <1>3, <1>1, <2>2 DEF CreateCluster
  <1>4. CASE DeleteCluster
    BY <1>4, <1>1, <1>2 DEF DeleteCluster, DeleteAccepted
  <1>5. CASE CloudProgress \/ \E c \in ClusterIDs : CloudDeleteFails(c) \/ OutOfBandDelete(c)
    BY <1>5, <1>2 DEF CloudProgress, CloudProvisions, CloudDeletes, CloudDeleteFails,
         OutOfBandDelete, CloudStep
  <1>6. CASE \/ StartNormal \/ AdoptConflict \/ ShowCluster \/ CreatePublicip \/ TagPublicip
             \/ BindEip \/ Tail \/ PatchObject \/ PatchStatus
    BY <1>1, <1>6 DEF StartNormal, AdoptConflict, ShowCluster, CreatePublicip, TagPublicip,
         BindEip, Tail, PatchObject, PatchStatus, cloudVars
  <1>7. CASE StartDelete \/ ShowForDelete \/ BumpDeletePoll \/ UnbindEip \/ ReleaseFinalizer
    BY <1>1, <1>7 DEF StartDelete, ShowForDelete, BumpDeletePoll, UnbindEip,
         ReleaseFinalizer, cloudVars
  <1>8. CASE \/ UserCreate \/ UserDelete \/ ClusterRemoved \/ InfrastructureProvisioned
             \/ CacheSync \/ Crash
    BY <1>1, <1>8 DEF UserCreate, UserDelete, ClusterRemoved, InfrastructureProvisioned,
         CacheSync, Crash, cloudVars
  <1>9. CASE UNCHANGED vars
    BY <1>1, <1>9 DEF vars, cloudVars
  <1> QED BY <1>3, <1>4, <1>5, <1>6, <1>7, <1>8, <1>9
        DEF Next, Reconcile, reconcileNormal, reconcileDelete, Surroundings
\* A recorded cluster that is not alive does not come alive.
LEMMA DeadStays ==
  ASSUME TypeOK, PassSound, Next, NEW o \in {cp, base},
         o.clusterID \in ClusterIDs, cloud'[o.clusterID].phase \in {"Creating", "Available", "Deleting"}
  PROVE  Alive(o.clusterID)
  <1>1. CloudForward /\ EipForward
    BY CloudMovesForward, EipsMoveForward
  <1>2. o.clusterID \in ClusterRef /\ ClusterSound(o.clusterID)
    BY FieldTypes DEF TypeOK, PassSound, RecordSound
  <1> QED BY <1>1, <1>2, GoneStays

\* What a pass is about to store stays sound while the pass keeps its record.
LEMMA PatchStays ==
  ASSUME TypeOK, PassSound, PatchSound, Next, pc \in NormalSteps,
         base' = base, mem'.clusterID = mem.clusterID, mem'.named = mem.named,
         mem'.finalizer = mem.finalizer, mem.ready => mem'.ready,
         cp'.clusterID \in {cp.clusterID, None},
         pc' \in {"create", "adopt"} => pc \in {"create", "adopt"}
  PROVE  PatchSound'
  <1>1. ~Alive(base.clusterID) => ~Alive(base.clusterID)'
    BY DeadStays DEF Alive
  <1>2. Alive(cp.clusterID)' => cp'.clusterID = cp.clusterID /\ Alive(cp.clusterID)
    BY DeadStays, IdAssumption DEF Alive
  <1> QED BY <1>1, <1>2 DEF PatchSound

\* Reading an endpoint back changes only the endpoint.
LEMMA BackfillKeeps ==
  ASSUME NEW o \in Object, NEW c, NEW n \in Backfilled(o, c)
  PROVE  /\ n.clusterID = o.clusterID /\ n.named = o.named
         /\ n.finalizer = o.finalizer /\ n.ready = o.ready
  BY DEF Backfilled, Object

\* Every step preserves PatchSound.
LEMMA PatchSoundStep == TypeOK /\ PassSound /\ PromiseInv /\ [Next]_vars => PatchSound'
  <1> SUFFICES ASSUME TypeOK, PassSound, PromiseInv, [Next]_vars PROVE PatchSound' OBVIOUS
  <1> USE DEF apiVars, cloudVars, passVars
  <1>a. /\ mem \in Object /\ cp \in Object /\ base \in Object /\ cache \in Object
        /\ PatchSound /\ NameSound
    BY DEF TypeOK, PromiseInv
  <1>b. NameSound'
    BY NameSoundStep
  <1>1. ASSUME pc' \notin NormalSteps PROVE PatchSound'
    BY <1>1 DEF PatchSound
  <1>2. CASE StartNormal
    <2>1. /\ base' = cache /\ mem' = [cache EXCEPT !.finalizer = TRUE] /\ cache.named
          /\ pc' \in {"create", "adopt"} => cache.clusterID = None
      BY <1>2 DEF StartNormal, MayProvision
    <2>2. /\ mem'.named /\ mem'.finalizer /\ mem'.ready = base'.ready
          /\ mem'.clusterID = base'.clusterID
      BY <1>a, <2>1 DEF Object
    <2> QED BY <2>1, <2>2 DEF PatchSound
  <1>3. CASE CreateCluster
    <2>1. pc \in NormalSteps /\ mem.clusterID = None /\ base.clusterID = None /\ mem.named
      BY <1>3, <1>a DEF CreateCluster, PatchSound, NormalSteps
    <2>2. ASSUME NEW c \in ClusterIDs, CreateFresh(c), mem' = [mem EXCEPT !.clusterID = c],
                 pc' = "show", base' = base, cp' = cp
          PROVE  PatchSound'
      <3>1. cloud'[c].phase = "Creating"
        BY <2>2 DEF CreateFresh, FreshCluster, TypeOK
      <3>2. Alive(cp.clusterID)' => cp'.clusterID = c
        BY <1>b, <2>2, <3>1 DEF NameSound, Alive
      <3>3. /\ mem'.clusterID = c /\ mem'.named = mem.named
            /\ mem'.finalizer = mem.finalizer /\ mem'.ready = mem.ready
        BY <1>a, <2>2 DEF Object
      <3> QED BY <1>a, <2>1, <2>2, <3>2, <3>3 DEF PatchSound
    <2>3. ASSUME mem' = mem, base' = base, cp' = cp, pc' \in {"adopt", "patchObject"} PROVE PatchSound'
      BY <1>3, <1>a, <2>1, <2>3, PatchStays DEF CreateCluster, Next, Reconcile, reconcileNormal
    <2> QED BY <1>3, <2>2, <2>3 DEF CreateCluster, ToClose
  <1>4. CASE AdoptConflict
    <2>1. pc \in NormalSteps /\ mem.clusterID = None /\ base.clusterID = None
      BY <1>4, <1>a DEF AdoptConflict, PatchSound, NormalSteps
    <2>2. ASSUME NEW c \in SameName(mem.named), mem' = [mem EXCEPT !.clusterID = c],
                 pc' = "show", base' = base, cp' = cp, cloud' = cloud
          PROVE  PatchSound'
      <3>1. Alive(cp.clusterID)' => cp'.clusterID = c
        BY <1>a, <2>2 DEF NameSound, Alive, SameName
      <3>2. /\ mem'.clusterID = c /\ mem'.named = mem.named
            /\ mem'.finalizer = mem.finalizer /\ mem'.ready = mem.ready
        BY <1>a, <2>2 DEF Object
      <3> QED BY <1>a, <2>1, <2>2, <3>1, <3>2 DEF PatchSound
    <2>3. ASSUME mem' = mem, base' = base, cp' = cp, pc' = "patchObject" PROVE PatchSound'
      BY <1>4, <1>a, <2>1, <2>3, PatchStays DEF AdoptConflict, Next, Reconcile, reconcileNormal
    <2> QED BY <1>4, <2>2, <2>3 DEF AdoptConflict, ToClose
  <1>5. CASE ShowCluster
    <2>0. Next /\ pc \in NormalSteps /\ pc' \notin {"create", "adopt"} /\ base' = base /\ cp' = cp
      BY <1>5 DEF ShowCluster, Next, Reconcile, reconcileNormal, NormalSteps
    <2>1. ASSUME ~Alive(mem.clusterID), mem' = AfterNotFound(mem), UNCHANGED cloud PROVE PatchSound'
      <3>1. /\ mem'.clusterID = None /\ mem'.named = mem.named
            /\ mem'.finalizer = mem.finalizer /\ mem'.ready = mem.ready
        BY <1>a, <2>1 DEF AfterNotFound, Object
      <3>2. base.clusterID = None \/ ~Alive(base.clusterID)'
        BY <1>a, <2>0, <2>1 DEF PatchSound, Alive
      <3> QED BY <1>a, <2>0, <3>1, <3>2 DEF PatchSound
    <2>2. ASSUME mem' = mem \/ mem' \in Backfilled(mem, mem.clusterID) PROVE PatchSound'
      <3>1. /\ mem'.clusterID = mem.clusterID /\ mem'.named = mem.named
            /\ mem'.finalizer = mem.finalizer /\ mem'.ready = mem.ready
        BY <1>a, <2>2, BackfillKeeps
      <3> QED BY <1>a, <2>0, <3>1, PatchStays
    <2> QED BY <1>5, <2>1, <2>2 DEF ShowCluster
  <1>6. CASE CreatePublicip \/ TagPublicip \/ BindEip \/ Tail
    <2>1. /\ pc \in NormalSteps /\ pc' \notin {"create", "adopt"} /\ base' = base /\ cp' = cp
          /\ \/ mem' = mem \/ mem' = [mem EXCEPT !.eipID = newEip]
             \/ mem' = [mem EXCEPT !.ready = TRUE]
      BY <1>6 DEF CreatePublicip, TagPublicip, BindEip, Tail, ToClose, NormalSteps
    <2>2. /\ mem'.clusterID = mem.clusterID /\ mem'.named = mem.named
          /\ mem'.finalizer = mem.finalizer /\ (mem.ready => mem'.ready)
      BY <1>a, <2>1 DEF Object
    <2>3. Next
      BY <1>6 DEF Next, Reconcile, reconcileNormal
    <2> QED BY <1>a, <2>1, <2>2, <2>3, PatchStays
  <1>7. CASE PatchObject
    <2>1. pc \in NormalSteps /\ pc' = "patchStatus" /\ UNCHANGED <<mem, base>> /\ Next
      BY <1>7 DEF PatchObject, Next, Reconcile, reconcileNormal, NormalSteps
    <2>2. cp'.clusterID = cp.clusterID
      BY <1>7, <1>a DEF PatchObject, Object
    <2> QED BY <1>a, <2>1, <2>2, PatchStays
  <1>8. CASE PatchStatus \/ reconcileDelete \/ Crash
    BY <1>1, <1>8 DEF PatchStatus, reconcileDelete, StartDelete, ShowForDelete, DeleteCluster,
         BumpDeletePoll, UnbindEip, ReleaseFinalizer, FailDelete, Crash, EndPass, NormalSteps
  <1>9. CASE Surroundings /\ ~Crash
    <2>1. UNCHANGED <<pc, mem, base>>
      BY <1>9 DEF Surroundings, UserCreate, UserDelete, ClusterRemoved,
           InfrastructureProvisioned, CacheSync, CloudProgress, CloudProvisions,
           CloudDeletes, CloudDeleteFails, OutOfBandDelete, CloudStep
    <2>2. cp'.clusterID \in {cp.clusterID, None}
      <3>0. CASE UserCreate
        BY <3>0 DEF UserCreate, Blank
      <3>1. CASE UserDelete
        BY <3>1, <1>a, BlankNames DEF UserDelete, Object
      <3>2. CASE Surroundings /\ ~UserCreate /\ ~UserDelete
        BY <3>2 DEF Surroundings, ClusterRemoved, InfrastructureProvisioned, CacheSync,
             CloudProgress, CloudProvisions, CloudDeletes, CloudDeleteFails,
             OutOfBandDelete, CloudStep, Crash
      <3> QED BY <1>9, <3>0, <3>1, <3>2
    <2>3. Next
      BY <1>9 DEF Next
    <2> QED BY <1>1, <1>a, <2>1, <2>2, <2>3, PatchStays
  <1>10. CASE UNCHANGED vars
    BY <1>10, <1>a DEF vars, PatchSound, Alive
  <1> QED BY <1>2, <1>3, <1>4, <1>5, <1>6, <1>7, <1>8, <1>9, <1>10
        DEF Next, Reconcile, reconcileNormal
\* A delete pass works on an object that existed when it was read.
LEMMA BaseExistsStep ==
  TypeOK /\ PromiseInv /\ [Next]_vars => (pc' \in DeleteSteps => base'.exists)
  <1> SUFFICES ASSUME TypeOK, PromiseInv, [Next]_vars, pc' \in DeleteSteps PROVE base'.exists
    OBVIOUS
  <1> USE DEF DeleteSteps, PromiseInv, passVars
  <1>1. CASE reconcileNormal
    BY <1>1 DEF reconcileNormal, StartNormal, CreateCluster, AdoptConflict, ShowCluster,
         CreatePublicip, TagPublicip, BindEip, Tail, PatchObject, PatchStatus, ToClose, EndPass
  <1>2. CASE reconcileDelete
    BY <1>2 DEF reconcileDelete, StartDelete, ShowForDelete, DeleteCluster, BumpDeletePoll,
         UnbindEip, ReleaseFinalizer, FailDelete, EndPass
  <1>3. CASE Surroundings
    BY <1>3 DEF Surroundings, UserCreate, UserDelete, ClusterRemoved,
         InfrastructureProvisioned, CacheSync, CloudProgress, CloudProvisions,
         CloudDeletes, CloudDeleteFails, OutOfBandDelete, CloudStep, Crash, EndPass
  <1>4. CASE UNCHANGED vars
    BY <1>4 DEF vars
  <1> QED BY <1>1, <1>2, <1>3, <1>4 DEF Next, Reconcile

\* PromiseInv is an invariant.
LEMMA PromiseInvAlways == Spec => []PromiseInv
  <1>1. Init => PromiseInv
    BY DEF Init, PromiseInv, NameSound, PatchSound, NoCluster, Alive, NormalSteps, DeleteSteps
  <1>2. TypeOK /\ PassSound /\ PromiseInv /\ [Next]_vars => PromiseInv'
    BY NameSoundStep, PatchSoundStep, BaseExistsStep DEF PromiseInv
  <1> QED BY <1>1, <1>2, TypeCorrect, PassSoundAlways, PTL DEF Spec

-----------------------------------------------------------------------------
(* The refinement.                                                          *)

\* The clusters as the contract sees them.
Map == [c \in ClusterIDs |-> Standing(c)]

\* What the mapping says of a cluster.
LEMMA MapValues ==
  ASSUME TypeOK, NEW c \in ClusterIDs
  PROVE  /\ Map[c] = "live" <=> Alive(c) /\ cloud[c].tagged
         /\ Map[c] = "gone" <=> cloud[c].phase = "gone" /\ cloud[c].tagged
         /\ Map[c] = "unborn" <=> cloud[c].phase = "unborn"
  BY DEF Map, Standing, Alive, TypeOK, CloudCluster, Phases
\* The initial states of the controller are initial states of the contract.
LEMMA PromiseInit == Init => Promise!Init
  <1> SUFFICES ASSUME Init PROVE Promise!Init OBVIOUS
  <1>1. Shown(cp) = Promise!Absent
    BY DEF Init, Shown, Blank, Promise!Absent
  <1>2. CASE cloud = [c \in ClusterIDs |-> NoCluster]
    BY <1>1, <1>2 DEF Promise!Init, Standing, NoCluster
  <1>3. ASSUME NEW c \in ClusterIDs, NEW tagged \in BOOLEAN,
               cloud = [x \in ClusterIDs |->
                          IF x = c THEN [phase |-> "Available", own |-> TRUE, tagged |-> tagged]
                                   ELSE NoCluster]
        PROVE  Promise!Init
    <2>1. \A x \in ClusterIDs :
            Standing(x) = IF x = c THEN (IF tagged THEN "live" ELSE "foreign") ELSE "unborn"
      BY <1>3 DEF Standing, NoCluster
    <2>2. \E s \in {"live", "foreign"} :
            [x \in ClusterIDs |-> Standing(x)] = [x \in ClusterIDs |-> IF x = c THEN s ELSE "unborn"]
      BY <2>1
    <2> QED BY <1>1, <2>2 DEF Promise!Init
  <1> QED BY <1>2, <1>3 DEF Init

\* The steps that change neither the object as shown nor the clusters as seen.
LEMMA Stutters ==
  ASSUME Shown(cp)' = Shown(cp), Map' = Map
  PROVE  UNCHANGED Promise!cvars
  BY DEF Promise!cvars, Map

\* A step that leaves the cloud alone leaves the mapping alone.
LEMMA MapStays == ASSUME cloud' = cloud PROVE Map' = Map
  BY DEF Map, Standing

\* A change of phase of an existing cluster is an end of the cluster or unseen.
LEMMA PhaseStep ==
  ASSUME TypeOK, NEW c \in ClusterIDs, Alive(c), NEW p \in {"Creating", "Available", "Deleting", "gone"},
         cloud' = [cloud EXCEPT ![c].phase = p], cp' = cp
  PROVE  [Promise!Next]_(Promise!cvars)
  <1>1. Shown(cp)' = Shown(cp)
    BY DEF Shown
  <1>2. /\ \A d \in ClusterIDs \ {c} : Standing(d)' = Standing(d)
        /\ Standing(c)' = IF p = "gone" /\ cloud[c].tagged THEN "gone" ELSE Standing(c)
    BY DEF Standing, Alive, TypeOK, CloudCluster
  <1>3. CASE p = "gone" /\ cloud[c].tagged
    <2>1. Map' = [Map EXCEPT ![c] = "gone"]
      BY <1>2, <1>3 DEF Map
    <2>2. Map[c] = "live"
      BY <1>3, MapValues
    <2>3. Promise!ClusterEnds(c)
      BY <1>1, <2>1, <2>2 DEF Promise!ClusterEnds, Promise!Live, Map
    <2> QED BY <2>3 DEF Promise!Next
  <1>4. CASE ~(p = "gone" /\ cloud[c].tagged)
    <2>1. Map' = Map
      BY <1>2, <1>4 DEF Map
    <2> QED BY <1>1, <2>1, Stutters
  <1> QED BY <1>3, <1>4

\* The creation of a cluster.
LEMMA BirthStep ==
  ASSUME TypeOK, NameSound, NEW c \in ClusterIDs, mem.named, CreateFresh(c),
         SameName(mem.named) = {}, cp' = cp
  PROVE  Promise!Next
  <1>1. Shown(cp)' = Shown(cp)
    BY DEF Shown
  <1>2. \A d \in ClusterIDs : ~Alive(d)
    BY DEF SameName, NameSound, TypeOK, CloudCluster
  <1>3. /\ \A d \in ClusterIDs \ {c} : Standing(d)' = Standing(d)
        /\ Standing(c)' = "live" /\ Standing(c) = "unborn"
    BY DEF Standing, CreateFresh, FreshCluster, TypeOK, CloudCluster
  <1>4. Map' = [Map EXCEPT ![c] = "live"] /\ Map[c] = "unborn"
    BY <1>3 DEF Map
  <1>5. \A d \in ClusterIDs : Map[d] # "live"
    BY <1>2, MapValues
  <1>6. Promise!ClusterBorn(c)
    BY <1>1, <1>4, <1>5 DEF Promise!ClusterBorn, Promise!Live, Map
  <1> QED BY <1>6 DEF Promise!Next
\* A recorded cluster, as the contract sees it: it is ours and it was born.
LEMMA RecordedMap ==
  ASSUME TypeOK, PassSound, NEW o \in {cp, mem, base}, o.clusterID # None
  PROVE  /\ o.clusterID \in ClusterIDs
         /\ Map[o.clusterID] = IF Alive(o.clusterID) THEN "live" ELSE "gone"
  <1>1. o.clusterID \in ClusterIDs
    BY FieldTypes DEF TypeOK, ClusterRef
  <1>2. ClusterSound(o.clusterID)
    BY DEF PassSound, RecordSound
  <1> QED BY <1>1, <1>2 DEF Map, Standing, Alive, ClusterSound, TypeOK, CloudCluster, Phases

\* The status patch is a report of the contract.
LEMMA ReportStep ==
  ASSUME TypeOK, PassSound, PromiseInv, PatchStatus
  PROVE  [Promise!Next]_(Promise!cvars)
  <1> DEFINE id == Merged(mem.clusterID, base.clusterID, cp.clusterID)
             r == Merged(mem.ready, base.ready, cp.ready)
  <1>a. cp \in Object /\ cp.clusterID \in ClusterRef /\ mem.clusterID \in ClusterRef
        /\ id \in ClusterRef /\ r \in BOOLEAN
    BY FieldTypes DEF TypeOK, Merged
  <1>b. Map' = Map
    BY MapStays DEF PatchStatus, cloudVars
  <1>c. /\ base.ready => mem.ready
        /\ mem.ready \in BOOLEAN /\ base.ready \in BOOLEAN
        /\ \/ mem.clusterID = base.clusterID
           \/ mem.clusterID = None /\ base.clusterID # None /\ ~Alive(base.clusterID)
           \/ base.clusterID = None /\ (Alive(cp.clusterID) => cp.clusterID = mem.clusterID)
    BY FieldTypes DEF PromiseInv, PatchSound, NormalSteps, PatchStatus, TypeOK
  <1>1. CASE cp' = cp
    BY <1>1, <1>b, Stutters DEF Shown
  <1>2. CASE cp' # cp
    <2>1. /\ cp.exists
          /\ cp' = [cp EXCEPT !.clusterID = id,
                              !.eipID = Merged(mem.eipID, base.eipID, cp.eipID),
                              !.endpoint = Merged(mem.endpoint, base.endpoint, cp.endpoint),
                              !.ready = r]
      BY <1>2 DEF PatchStatus
    <2>2. Shown(cp)' = Promise!Present(cp.finalizer, r, id)
      <3> HIDE DEF id, r
      <3>1. /\ cp'.exists = TRUE /\ cp'.finalizer = cp.finalizer
            /\ cp'.clusterID = id /\ cp'.ready = r
        BY <1>a, <2>1 DEF Object
      <3> QED BY <3>1 DEF Shown, Promise!Present
    <2>3. cp.ready => r
      BY <1>c DEF Merged
    <2>4. \A c : Promise!Live(c) <=> c \in ClusterIDs /\ Map[c] = "live"
      BY DEF Promise!Live, Map
    <2>5. Promise!Live(cp.clusterID) <=> Alive(cp.clusterID)
      BY <2>4, RecordedMap, IdAssumption DEF Alive
    <2>6. id = cp.clusterID \/ (id = None /\ Promise!MayForget) \/ (id # None /\ Promise!MayRecord(id))
      <3>1. CASE mem.clusterID = base.clusterID
        BY <3>1 DEF Merged
      <3>2. CASE mem.clusterID = None /\ base.clusterID # None /\ ~Alive(base.clusterID)
        <4>1. id = None
          BY <3>2 DEF Merged
        <4>2. base.clusterID \in ClusterIDs /\ Map[base.clusterID] = "gone"
          BY <3>2, RecordedMap
        <4>3. Promise!Ended(base.clusterID)
          BY <4>2 DEF Promise!Ended, Map
        <4> QED BY <4>1, <4>2, <4>3 DEF Promise!MayForget
      <3>3. CASE /\ base.clusterID = None /\ mem.clusterID # None
                 /\ Alive(cp.clusterID) => cp.clusterID = mem.clusterID
        <4>1. id = mem.clusterID
          BY <3>3 DEF Merged
        <4>2. mem.clusterID \in ClusterIDs /\ Map[mem.clusterID] \in {"live", "gone"}
          BY <3>3, RecordedMap
        <4>3. Promise!Live(id) \/ Promise!Ended(id)
          BY <4>1, <4>2 DEF Promise!Live, Promise!Ended, Map
        <4>4. CASE Alive(cp.clusterID)
          BY <3>3, <4>1, <4>4
        <4>5. CASE ~Alive(cp.clusterID)
          BY <2>5, <3>3, <4>1, <4>3, <4>5 DEF Promise!MayRecord, Shown
        <4> QED BY <4>4, <4>5
      <3> QED BY <1>c, <3>1, <3>2, <3>3
    <2>7. /\ Shown(cp).exists /\ Shown(cp).clusterID = cp.clusterID
          /\ Shown(cp).ready = cp.ready /\ Shown(cp).guarded = cp.finalizer
      BY <2>1 DEF Shown
    <2>8. Promise!Report(id, r)
      BY <1>b, <2>2, <2>3, <2>6, <2>7 DEF Promise!Report, Map
    <2> QED BY <1>a, <2>8 DEF Promise!Next, ClusterRef
  <1> QED BY <1>1, <1>2

\* The patch of the object is a guard step, or unseen.
LEMMA GuardStep ==
  ASSUME TypeOK, PromiseInv, PatchObject
  PROVE  [Promise!Next]_(Promise!cvars)
  <1>a. cp \in Object /\ cp.finalizer \in BOOLEAN /\ mem.finalizer
    BY FieldTypes DEF TypeOK, PromiseInv, PatchSound, PatchObject, NormalSteps
  <1>b. Map' = Map
    BY MapStays DEF PatchObject, cloudVars
  <1>1. CASE cp' = cp
    BY <1>1, <1>b, Stutters DEF Shown
  <1>2. CASE cp' # cp
    <2>1. cp.exists /\ \E f \in {cp.finalizer, TRUE} : \E a :
            cp' = [cp EXCEPT !.finalizer = f, !.published = a]
      BY <1>2, <1>a, FieldTypes DEF PatchObject, Merged, TypeOK
    <2>2. Shown(cp)' = Shown(cp) \/ Shown(cp)' = Promise!Present(TRUE, cp.ready, cp.clusterID)
      <3>1. /\ cp'.exists = cp.exists /\ cp.exists = TRUE /\ cp'.finalizer \in {cp.finalizer, TRUE}
            /\ cp'.clusterID = cp.clusterID /\ cp'.ready = cp.ready
        BY <1>a, <2>1 DEF Object
      <3>3. CASE cp'.finalizer = cp.finalizer
        BY <3>1, <3>3 DEF Shown
      <3>4. CASE cp'.finalizer = TRUE /\ cp'.exists = TRUE
        BY <3>1, <3>4 DEF Shown, Promise!Present
      <3> QED BY <3>1, <3>3, <3>4
    <2>3. CASE Shown(cp)' = Promise!Present(TRUE, cp.ready, cp.clusterID)
      <3>1. Promise!Guard
        BY <1>b, <2>1, <2>3 DEF Promise!Guard, Shown, Map
      <3> QED BY <3>1 DEF Promise!Next
    <2> QED BY <1>b, <2>2, <2>3, Stutters
  <1> QED BY <1>1, <1>2
\* The end of the object, by its user or by the pass that drops the finalizer.
LEMMA LeaveStep ==
  ASSUME TypeOK, cp.exists, cp' = Blank, cloud' = cloud, cp.finalizer => ~Alive(cp.clusterID)
  PROVE  Promise!Next
  <1>1. Shown(cp)' = Promise!Absent
    BY DEF Shown, Blank, Promise!Absent
  <1>2. Map' = Map
    BY MapStays
  <1>3. Promise!Live(cp.clusterID) => Alive(cp.clusterID)
    BY MapValues DEF Promise!Live, Map
  <1>4. Promise!Leave
    BY <1>1, <1>2, <1>3 DEF Promise!Leave, Shown, Map
  <1> QED BY <1>4 DEF Promise!Next

\* Every step of the controller is a step of the contract, or unseen.
LEMMA PromiseStep ==
  TypeOK /\ PassSound /\ PromiseInv /\ [Next]_vars => [Promise!Next]_(Promise!cvars)
  <1> SUFFICES ASSUME TypeOK, PassSound, PromiseInv, [Next]_vars
               PROVE  [Promise!Next]_(Promise!cvars)
    OBVIOUS
  <1> USE DEF apiVars, cloudVars, passVars
  <1>a. cp \in Object
    BY DEF TypeOK
  <1>1. ASSUME cp' = cp, cloud' = cloud PROVE [Promise!Next]_(Promise!cvars)
    BY <1>1, MapStays, Stutters DEF Shown
  <1>2. CASE CreateCluster
    <2>1. mem.named /\ NameSound
      BY <1>2 DEF CreateCluster, PromiseInv, PatchSound, NormalSteps
    <2> QED BY <1>1, <1>2, <2>1, BirthStep DEF CreateCluster
  <1>3. CASE DeleteCluster
    <2>1. cp' = cp
      BY <1>3 DEF DeleteCluster
    <2>2. CASE cloud' = cloud
      BY <1>1, <2>1, <2>2
    <2>3. CASE Alive(mem.clusterID) /\ cloud' = [cloud EXCEPT ![mem.clusterID].phase = "Deleting"]
      BY <2>1, <2>3, PhaseStep DEF Alive
    <2> QED BY <1>3, <2>2, <2>3 DEF DeleteCluster, DeleteAccepted
  <1>4. CASE CloudProgress \/ \E c \in ClusterIDs : CloudDeleteFails(c) \/ OutOfBandDelete(c)
    <2>1. PICK c \in ClusterIDs, p \in {"Creating", "Available", "Deleting", "gone"} :
            Alive(c) /\ cloud' = [cloud EXCEPT ![c].phase = p] /\ cp' = cp
      BY <1>4 DEF CloudProgress, CloudProvisions, CloudDeletes, CloudDeleteFails,
           OutOfBandDelete, CloudStep, Alive
    <2> QED BY <2>1, PhaseStep
  <1>5. CASE PatchObject
    BY <1>5, GuardStep
  <1>6. CASE PatchStatus
    BY <1>6, ReportStep
  <1>7. CASE BumpDeletePoll
    <2>1. Map' = Map
      BY <1>7, MapStays DEF BumpDeletePoll
    <2>2. /\ cp'.exists = cp.exists /\ cp'.finalizer = cp.finalizer
          /\ cp'.clusterID = cp.clusterID /\ cp'.ready = cp.ready
      BY <1>7, <1>a DEF BumpDeletePoll, Object
    <2>3. Shown(cp)' = Shown(cp)
      BY <2>2 DEF Shown
    <2> QED BY <2>1, <2>3, Stutters
  <1>8. CASE ReleaseFinalizer
    <2>1. base.exists /\ ~Alive(base.clusterID)
      BY <1>8 DEF ReleaseFinalizer, PromiseInv, DeleteSteps, PassSound, DeletePassSound
    <2>2. cp' = cp \/ (cp = base /\ cp' = Blank)
      BY <1>8 DEF ReleaseFinalizer, VersionMatches
    <2>3. cloud' = cloud
      BY <1>8 DEF ReleaseFinalizer
    <2> QED BY <1>1, <2>1, <2>2, <2>3, LeaveStep
  <1>9. CASE UserCreate
    <2>1. ~cp.exists /\ cloud' = cloud /\ \E b \in BOOLEAN :
            cp' = [Blank EXCEPT !.exists = TRUE, !.named = b]
      BY <1>9 DEF UserCreate
    <2>3. Shown(cp)' = Promise!Present(FALSE, FALSE, None)
      <3>1. cp'.exists = TRUE /\ cp'.finalizer = FALSE /\ cp'.ready = FALSE /\ cp'.clusterID = None
        BY <2>1 DEF Blank
      <3> QED BY <3>1 DEF Shown, Promise!Present
    <2>4. Map' = Map
      BY <2>1, MapStays
    <2>5. Promise!Appear
      BY <2>1, <2>3, <2>4 DEF Promise!Appear, Shown, Map
    <2> QED BY <2>5 DEF Promise!Next
  <1>10. CASE UserDelete
    <2>1. cp.exists /\ cloud' = cloud
      BY <1>10 DEF UserDelete
    <2>2. CASE cp.finalizer
      <3>1. /\ cp'.exists = cp.exists /\ cp'.finalizer = cp.finalizer
            /\ cp'.clusterID = cp.clusterID /\ cp'.ready = cp.ready
        BY <1>10, <1>a, <2>2 DEF UserDelete, Object
      <3>2. Shown(cp)' = Shown(cp)
        BY <3>1 DEF Shown
      <3> QED BY <2>1, <3>2, MapStays, Stutters
    <2>3. CASE ~cp.finalizer
      BY <1>10, <2>1, <2>3, LeaveStep DEF UserDelete
    <2> QED BY <2>2, <2>3
  <1>11. CASE \/ StartNormal \/ AdoptConflict \/ ShowCluster \/ CreatePublicip \/ TagPublicip
              \/ BindEip \/ Tail
    BY <1>1, <1>11 DEF StartNormal, AdoptConflict, ShowCluster, CreatePublicip, TagPublicip,
         BindEip, Tail
  <1>12. CASE StartDelete \/ ShowForDelete \/ UnbindEip
    BY <1>1, <1>12 DEF StartDelete, ShowForDelete, UnbindEip
  <1>13. CASE ClusterRemoved \/ InfrastructureProvisioned \/ CacheSync \/ Crash
    BY <1>1, <1>13 DEF ClusterRemoved, InfrastructureProvisioned, CacheSync, Crash
  <1>14. CASE UNCHANGED vars
    BY <1>1, <1>14 DEF vars
  <1> QED BY <1>2, <1>3, <1>4, <1>5, <1>6, <1>7, <1>8, <1>9, <1>10, <1>11, <1>12, <1>13, <1>14
        DEF Next, Reconcile, reconcileNormal, reconcileDelete, Surroundings

\* The control-plane controller implements its contract: for any number of
\* identifiers, failures, crashes and re-creations, and with stale reads, no
\* patch replaces the record of a live cluster, records one without the owned
\* tag, or takes Ready back, and a guarded object leaves after its cluster.
THEOREM KeepsContractAlways == Spec => KeepsContract
  <1>1. Init => Promise!Init
    BY PromiseInit
  <1>2. TypeOK /\ PassSound /\ PromiseInv /\ [Next]_vars => [Promise!Next]_(Promise!cvars)
    BY PromiseStep
  <1> QED BY <1>1, <1>2, TypeCorrect, PassSoundAlways, PromiseInvAlways, PTL
        DEF Spec, KeepsContract, Promise!Spec
=============================================================================
