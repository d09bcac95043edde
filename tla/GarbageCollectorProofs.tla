----------------------- MODULE GarbageCollectorProofs -----------------------
(* The orphan sweep spares what was created for the Cluster that exists, for *)
(* every set of identifiers, number of re-creations and number of failures.  *)
EXTENDS GarbageCollector, ControlPlaneProofs

\* All clusters of the account bear the Cluster's name: a pass provisions only
\* for a control plane that does.
OwnNames == (\A c \in ClusterIDs : cloud[c].own) /\ (pc \in NormalSteps => mem.named)

\* What a sweep holds: owned clusters that exist or existed.
Listed == clusters \subseteq ClusterIDs /\ \A c \in clusters : ClusterSound(c)

\* A cluster is as old as its birth, and older than a Cluster that the sweep's
\* index does not know.
Ages ==
  /\ born \in [ClusterIDs -> Nat]
  /\ \A c \in ClusterIDs : born[c] <= lives
  /\ sweep = "clusters" /\ ~wanted /\ clusterCR => \A c \in clusters : born[c] < lives

GCInv == TypeOK /\ OwnNames /\ Listed /\ Ages

-----------------------------------------------------------------------------

\* The invariant holds at the start.
LEMMA GCInitInv == GCInit => GCInv
  BY TypeInit DEF GCInit, GCInv, OwnNames, Listed, Ages, Init, NoCluster, NormalSteps

\* An accepted delete changes one phase of a cluster that exists.
LEMMA AcceptedDelete ==
  ASSUME TypeOK, NEW c \in ClusterIDs, DeleteAccepted(c)
  PROVE  /\ cloud' \in [ClusterIDs -> CloudCluster] /\ CloudForward
         /\ \A d \in ClusterIDs : /\ cloud'[d].own = cloud[d].own
                                  /\ cloud[d].phase = "unborn" <=> cloud'[d].phase = "unborn"
  <1>1. cloud \in [ClusterIDs -> CloudCluster]
    BY DEF TypeOK
  <1>2. CASE cloud' = cloud
    BY <1>1, <1>2 DEF CloudForward
  <1>3. CASE Alive(c) /\ cloud' = [cloud EXCEPT ![c].phase = "Deleting"]
    <2>1. cloud' \in [ClusterIDs -> CloudCluster]
      BY <1>1, <1>3, CloudPhase DEF Phases
    <2>2. CloudForward
      BY <1>3, PhaseStepForward DEF Alive, Phases
    <2>3. \A d \in ClusterIDs : /\ cloud'[d].own = cloud[d].own
                                /\ cloud[d].phase = "unborn" <=> cloud'[d].phase = "unborn"
      BY <1>1, <1>3 DEF Alive, CloudCluster
    <2> QED BY <2>1, <2>2, <2>3
  <1> QED BY <1>2, <1>3 DEF DeleteAccepted

\* The controller's own steps preserve OwnNames.
LEMMA OwnNamesStep == TypeOK /\ OwnNames /\ Next => OwnNames'
  <1> SUFFICES ASSUME TypeOK, OwnNames, Next PROVE OwnNames' OBVIOUS
  <1> USE DEF apiVars, cloudVars, passVars
  <1>a. mem \in Object /\ cache \in Object /\ cloud \in [ClusterIDs -> CloudCluster]
    BY DEF TypeOK
  <1>1. \A c \in ClusterIDs : cloud'[c].own
    <2>1. ASSUME UNCHANGED cloud PROVE \A c \in ClusterIDs : cloud'[c].own
      BY <2>1 DEF OwnNames
    <2>2. ASSUME NEW c \in ClusterIDs, NEW p, cloud' = [cloud EXCEPT ![c].phase = p]
          PROVE \A d \in ClusterIDs : cloud'[d].own
      BY <2>2, <1>a DEF OwnNames, CloudCluster
    <2>3. CASE CreateCluster
      <3>1. mem.named = TRUE
        BY <2>3, FieldTypes DEF CreateCluster, OwnNames, NormalSteps, TypeOK
      <3>2. ASSUME NEW c \in ClusterIDs, CreateFresh(c) PROVE \A d \in ClusterIDs : cloud'[d].own
        BY <3>1, <3>2, <1>a DEF CreateFresh, FreshCluster, OwnNames
      <3> QED BY <2>1, <2>3, <3>2 DEF CreateCluster
    <2>4. CASE DeleteCluster
      BY <2>1, <2>2, <2>4 DEF DeleteCluster, DeleteAccepted, Alive
    <2>5. CASE Surroundings
      BY <2>1, <2>2, <2>5 DEF Surroundings, UserCreate, UserDelete, ClusterRemoved,
           InfrastructureProvisioned, CacheSync, Crash, CloudProgress, CloudProvisions,
           CloudDeletes, CloudDeleteFails, OutOfBandDelete, CloudStep
    <2>6. CASE reconcileNormal /\ ~CreateCluster
      BY <2>1, <2>6 DEF reconcileNormal, StartNormal, AdoptConflict, ShowCluster, CreatePublicip,
           TagPublicip, BindEip, Tail, PatchObject, PatchStatus
    <2>7. CASE reconcileDelete /\ ~DeleteCluster
      BY <2>1, <2>7 DEF reconcileDelete, StartDelete, ShowForDelete, BumpDeletePoll, UnbindEip,
           ReleaseFinalizer
    <2> QED BY <2>3, <2>4, <2>5, <2>6, <2>7 DEF Next, Reconcile
  <1>2. pc' \in NormalSteps => mem'.named
    <2>1. ASSUME pc \in NormalSteps, mem'.named = mem.named PROVE mem'.named
      BY <2>1 DEF OwnNames
    <2>2. CASE StartNormal
      BY <1>a, <2>2 DEF StartNormal, MayProvision, Object
    <2>3. CASE CreateCluster \/ AdoptConflict \/ CreatePublicip \/ TagPublicip \/ BindEip \/ Tail
      <3>1. pc \in NormalSteps
        BY <2>3 DEF CreateCluster, AdoptConflict, CreatePublicip, TagPublicip, BindEip, Tail, NormalSteps
      <3>2. \/ mem' = mem \/ \E c : mem' = [mem EXCEPT !.clusterID = c]
            \/ \E e : mem' = [mem EXCEPT !.eipID = e] \/ mem' = [mem EXCEPT !.ready = TRUE]
        BY <2>3 DEF CreateCluster, AdoptConflict, CreatePublicip, TagPublicip, BindEip, Tail, ToClose
      <3>3. mem'.named = mem.named
        BY <1>a, <3>2 DEF Object
      <3> QED BY <2>1, <3>1, <3>3
    <2>4. CASE ShowCluster
      <3>1. pc \in NormalSteps
        BY <2>4 DEF ShowCluster, NormalSteps
      <3>2. mem' \in Backfilled(mem, mem.clusterID) => mem'.named = mem.named
        BY <1>a DEF Backfilled, Object
      <3>3. mem'.named = mem.named
        BY <1>a, <2>4, <3>2 DEF ShowCluster, AfterNotFound, Object
      <3> QED BY <2>1, <3>1, <3>3
    <2>5. CASE PatchObject
      BY <2>1, <2>5 DEF PatchObject, NormalSteps
    <2>6. CASE PatchStatus \/ reconcileDelete \/ Crash
      BY <2>6 DEF PatchStatus, reconcileDelete, StartDelete, ShowForDelete, DeleteCluster,
           BumpDeletePoll, UnbindEip, ReleaseFinalizer, FailDelete, Crash, EndPass, NormalSteps
    <2>7. CASE Surroundings /\ ~Crash
      BY <2>7 DEF Surroundings, UserCreate, UserDelete, ClusterRemoved,
           InfrastructureProvisioned, CacheSync, CloudProgress, CloudProvisions,
           CloudDeletes, CloudDeleteFails, OutOfBandDelete, CloudStep, OwnNames
    <2> QED BY <2>2, <2>3, <2>4, <2>5, <2>6, <2>7 DEF Next, Reconcile, reconcileNormal
  <1> QED BY <1>1, <1>2 DEF OwnNames

\* A Cluster appears only by the hand of a user, in a new life.
LEMMA LivesStep ==
  ASSUME TypeOK, Next
  PROVE  \/ lives' = lives /\ (clusterCR' => clusterCR)
         \/ lives' = lives + 1 /\ cloud' = cloud
  <1> USE DEF apiVars, cloudVars, passVars, boundVars
  <1>1. CASE reconcileNormal
    BY <1>1 DEF reconcileNormal, StartNormal, CreateCluster, AdoptConflict, ShowCluster,
         CreatePublicip, TagPublicip, BindEip, Tail, PatchObject, PatchStatus
  <1>2. CASE reconcileDelete
    BY <1>2 DEF reconcileDelete, StartDelete, ShowForDelete, DeleteCluster, BumpDeletePoll,
         UnbindEip, ReleaseFinalizer
  <1>3. CASE Surroundings
    BY <1>3 DEF Surroundings, UserCreate, UserDelete, ClusterRemoved,
         InfrastructureProvisioned, CacheSync, Crash, CloudProgress, CloudProvisions,
         CloudDeletes, CloudDeleteFails, OutOfBandDelete, CloudStep
  <1> QED BY <1>1, <1>2, <1>3 DEF Next, Reconcile

-----------------------------------------------------------------------------

\* What was listed stays sound, and keeps the age it has, in every step that
\* moves the clusters forward and lists nothing new.
LEMMA HeldOn ==
  ASSUME GCInv, Born, CloudForward, clusters' \subseteq clusters
  PROVE  /\ Listed' /\ \A c \in clusters' : born'[c] = born[c]
  <1>1. \A c \in clusters : c \in ClusterIDs /\ cloud[c].phase # "unborn"
    BY IdAssumption DEF GCInv, Listed, ClusterSound
  <1>2. \A c \in clusters' : born'[c] = born[c]
    BY <1>1 DEF Born
  <1>3. Listed'
    BY DEF GCInv, Listed, ClusterSound, CloudForward
  <1> QED BY <1>2, <1>3

\* Births happen in the life at hand.
LEMMA BirthsBounded ==
  ASSUME GCInv, Born, lives' \in Nat, lives' >= lives
  PROVE  born' \in [ClusterIDs -> Nat] /\ \A c \in ClusterIDs : born'[c] <= lives'
  <1>1. lives \in Nat
    BY BoundAssumption DEF GCInv, TypeOK
  <1> QED BY <1>1 DEF GCInv, Ages, Born

\* The controller and its surroundings preserve the invariant, ...
LEMMA GCInvNext == GCInv /\ Next /\ Born /\ UNCHANGED gcVars => GCInv'
  <1> SUFFICES ASSUME GCInv, Next, Born, UNCHANGED gcVars PROVE GCInv' OBVIOUS
  <1>1. TypeOK'
    BY TypeNormal, TypeDelete, TypeSurroundings DEF GCInv, Next, Reconcile
  <1>2. OwnNames'
    BY OwnNamesStep DEF GCInv
  <1>3. Listed' /\ \A c \in clusters' : born'[c] = born[c]
    BY HeldOn, CloudMovesForward DEF GCInv, gcVars
  <1>4. lives \in Nat /\ lives' \in Nat
    BY <1>1, BoundAssumption DEF GCInv, TypeOK
  <1>5. \/ lives' = lives /\ (clusterCR' => clusterCR)
        \/ lives' = lives + 1 /\ cloud' = cloud
    BY LivesStep DEF GCInv
  <1>6. born' \in [ClusterIDs -> Nat] /\ \A c \in ClusterIDs : born'[c] <= lives'
    BY <1>4, <1>5, BirthsBounded
  <1>7. sweep' = "clusters" /\ ~wanted' /\ clusterCR' => \A c \in clusters' : born'[c] < lives'
    <2>1. clusters' = clusters /\ sweep' = sweep /\ wanted' = wanted
      BY DEF gcVars
    <2>2. \A c \in clusters : born[c] \in Nat /\ born[c] <= lives
      BY DEF GCInv, Ages, Listed
    <2>3. CASE lives' = lives + 1
      BY <1>3, <1>4, <2>1, <2>2, <2>3
    <2>4. CASE lives' = lives /\ (clusterCR' => clusterCR)
      BY <1>3, <2>1, <2>4 DEF GCInv, Ages
    <2> QED BY <1>5, <2>3, <2>4
  <1> QED BY <1>1, <1>2, <1>3, <1>6, <1>7 DEF GCInv, Ages

\* ... and so does a step that deletes or lists, but leaves the Cluster and the
\* pass alone and lists only owned clusters that exist.
LEMMA GCInvSweep ==
  ASSUME GCInv, Born, TypeOK', CloudForward, UNCHANGED <<clusterCR, lives, pc, mem>>,
         \A d \in ClusterIDs : cloud'[d].own = cloud[d].own,
         \/ clusters' \subseteq clusters /\ wanted' = wanted /\ sweep' = sweep
         \/ sweep' # "clusters" /\ Listed'
         \/ clusters' \subseteq clusters /\ wanted' = clusterCR
  PROVE  GCInv'
  <1>1. OwnNames'
    BY DEF GCInv, OwnNames
  <1>2. lives' \in Nat /\ lives' = lives
    BY BoundAssumption DEF TypeOK
  <1>3. born' \in [ClusterIDs -> Nat] /\ \A c \in ClusterIDs : born'[c] <= lives'
    BY <1>2, BirthsBounded
  <1>4. clusters' \subseteq clusters => Listed' /\ \A c \in clusters' : born'[c] = born[c]
    BY HeldOn
  <1>5. sweep' = "clusters" /\ ~wanted' /\ clusterCR' => \A c \in clusters' : born'[c] < lives'
    BY <1>4 DEF GCInv, Ages
  <1> QED BY <1>1, <1>3, <1>4, <1>5 DEF GCInv, Ages

\* Every step of a sweep preserves the invariant.
LEMMA GCInvSweeps == GCInv /\ Sweep /\ Born => GCInv'
  <1> SUFFICES ASSUME GCInv, Sweep, Born PROVE GCInv' OBVIOUS
  <1> USE DEF apiVars, cloudVars, passVars
  <1>a. TypeOK /\ eip \in [EipIDs -> CloudEip] /\ cloud \in [ClusterIDs -> CloudCluster]
    BY DEF GCInv, TypeOK
  <1>b. UNCHANGED cloud => CloudForward
    BY DEF CloudForward
  <1>1. CASE SweepStart
    <2>1. TypeOK'
      BY <1>1, <1>a, FaultBound DEF SweepStart, TypeOK
    <2>2. Listed'
      BY <1>1, <1>a DEF SweepStart, Listing, SweepOrder, ListClusters, Listed, ClusterSound, Alive
    <2> QED BY <1>1, <1>b, <2>1, <2>2, GCInvSweep DEF SweepStart
  <1>2. CASE SweepIndex
    <2>1. TypeOK'
      BY <1>2, <1>a, FaultBound DEF SweepIndex, AbandonSweep, TypeOK
    <2>2. clusters' \subseteq clusters
      BY <1>2 DEF SweepIndex, Listing, SweepOrder, IndexClusterCRs, AbandonSweep
    <2>3. wanted' = clusterCR \/ sweep' # "clusters"
      BY <1>2 DEF SweepIndex, Listing, SweepOrder, IndexClusterCRs, AbandonSweep
    <2>4. Listed'
      BY <1>2, <1>b, <2>2, HeldOn DEF SweepIndex
    <2> QED BY <1>2, <1>b, <2>1, <2>2, <2>3, <2>4, GCInvSweep DEF SweepIndex
  <1>3. CASE SweepCluster
    <2>1. PICK c \in clusters :
            /\ clusters' = clusters \ {c}
            /\ UNCHANGED cloud \/ DeleteAccepted(c)
            /\ Fault \/ NoFault
      BY <1>3 DEF SweepCluster
    <2>2. c \in ClusterIDs
      BY <2>1 DEF GCInv, Listed
    <2>3. /\ cloud' \in [ClusterIDs -> CloudCluster] /\ CloudForward
          /\ \A d \in ClusterIDs : cloud'[d].own = cloud[d].own
      BY <1>a, <1>b, <2>1, <2>2, AcceptedDelete
    <2>4. TypeOK'
      BY <1>3, <1>a, <2>1, <2>3, FaultBound DEF SweepCluster, TypeOK
    <2> QED BY <1>3, <2>1, <2>3, <2>4, GCInvSweep DEF SweepCluster
  <1>4. CASE SweepListEips
    <2>1. TypeOK'
      BY <1>4, <1>a, FaultBound DEF SweepListEips, TypeOK
    <2>2. Listed'
      BY <1>4, <1>b, HeldOn DEF SweepListEips
    <2> QED BY <1>4, <1>b, <2>1, <2>2, GCInvSweep DEF SweepListEips
  <1>5. CASE SweepEip
    <2>1. PICK e : \/ eip' = [eip EXCEPT ![e].state = "released", ![e].bound = None]
                   \/ eip' = eip
      BY <1>5 DEF SweepEip
    <2>2. eip' \in [EipIDs -> CloudEip]
      BY <1>a, <2>1 DEF CloudEip, ClusterRef
    <2>3. TypeOK'
      BY <1>5, <1>a, <2>2, FaultBound DEF SweepEip, TypeOK
    <2> QED BY <1>5, <1>b, <2>3, GCInvSweep DEF SweepEip
  <1>6. ASSUME NEW k \in {"eip", "evs", "vpc", "nat"}, SweepStandalone(k) PROVE GCInv'
    <2>1. TypeOK'
      BY <1>6, <1>a, FaultBound DEF SweepStandalone, TypeOK
    <2>2. Listed'
      BY <1>6, <1>b, HeldOn DEF SweepStandalone
    <2> QED BY <1>6, <1>b, <2>1, <2>2, GCInvSweep DEF SweepStandalone, PhaseAfter
  <1> QED BY <1>1, <1>2, <1>3, <1>4, <1>5, <1>6 DEF Sweep, SweepClusters

\* The invariant holds in every step.
LEMMA GCInvStep == GCInv /\ [GCNext]_gvars => GCInv'
  <1> SUFFICES ASSUME GCInv, [GCNext]_gvars PROVE GCInv' OBVIOUS
  <1>1. CASE UNCHANGED gvars
    BY <1>1 DEF gvars, gcVars, vars, apiVars, cloudVars, passVars, boundVars, GCInv, TypeOK,
         OwnNames, Listed, Ages, ClusterSound
  <1>2. CASE ForceRemove /\ Born
    <2> USE DEF cloudVars, passVars, gcVars
    <2>1. TypeOK'
      BY <1>2, BlankType, FaultBound DEF ForceRemove, GCInv, TypeOK
    <2>2. CloudForward
      BY <1>2 DEF ForceRemove, CloudForward
    <2>3. Listed'
      BY <1>2, <2>2, HeldOn DEF ForceRemove
    <2>4. OwnNames'
      BY <1>2 DEF ForceRemove, GCInv, OwnNames
    <2>5. lives \in Nat /\ lives' = lives
      BY <1>2, BoundAssumption DEF ForceRemove, GCInv, TypeOK
    <2>6. born' \in [ClusterIDs -> Nat] /\ \A c \in ClusterIDs : born'[c] <= lives'
      BY <1>2, <2>5, BirthsBounded
    <2> QED BY <1>2, <2>1, <2>3, <2>4, <2>6 DEF ForceRemove, GCInv, Ages
  <1> QED BY <1>1, <1>2, GCInvNext, GCInvSweeps DEF GCNext

-----------------------------------------------------------------------------

\* Only the cluster loop makes a listed cluster leave the list in its phase with
\* a delete, and only for a name that the index does not hold.
LEMMA SparesStep == GCInv /\ GCNext => \A c \in ClusterIDs :
                      SweepDeletes(c) /\ born[c] > 0 /\ born[c] = lives => ~clusterCR
  <1> SUFFICES ASSUME GCInv, GCNext, NEW c \in ClusterIDs, SweepDeletes(c), born[c] = lives
               PROVE ~clusterCR
    OBVIOUS
  <1> USE DEF cloudVars, gcVars
  <1>1. SweepCluster
    BY DEF SweepDeletes, GCNext, Sweep, SweepClusters, SweepStart, SweepIndex, SweepListEips,
         SweepEip, SweepStandalone, ForceRemove
  <1>2. ~Tracked(cloud[c].own)
    BY <1>1 DEF SweepCluster, SweepDeletes
  <1>3. ~wanted
    BY <1>2 DEF Tracked, GCInv, OwnNames
  <1>4. lives \in Nat
    BY BoundAssumption DEF GCInv, TypeOK
  <1> QED BY <1>3, <1>4 DEF GCInv, Ages, SweepDeletes

\* A sweep never deletes a cluster that was created for the Cluster that exists
\* now: it lists the cloud before the CRs, so a name its index lacks is that of
\* a Cluster no listed cluster was made for.
THEOREM SparesCreatedAlways == GCSpec => SparesCreated
  <1>1. GCInv /\ [GCNext]_gvars
          => [\A c \in ClusterIDs :
                SweepDeletes(c) /\ born[c] > 0 /\ born[c] = lives => ~clusterCR]_gvars
    BY SparesStep
  <1> QED BY <1>1, GCInitInv, GCInvStep, PTL DEF GCSpec, SparesCreated
-----------------------------------------------------------------------------
(* The control plane's own guarantees, beside the sweep.  Neither a sweep nor *)
(* a forced removal touches the pass in flight: they take clusters and EIPs   *)
(* away, or the object, and what a pass knows survives that.                  *)

\* A step that deletes a cluster or an EIP, or strips the finalizers.
Beside ==
  /\ UNCHANGED <<passVars, cache>> /\ cp' \in {cp, Blank}
  /\ cloud' = cloud \/ \E c \in ClusterIDs : DeleteAccepted(c)
  /\ eip' = eip \/ \E e : eip' = [eip EXCEPT ![e].state = "released", ![e].bound = None]

Sound == PassSound /\ TagSound /\ PromiseInv

\* A sweep leaves the object alone, ...
LEMMA SweepBeside == GCInv /\ Sweep => Beside /\ cp' = cp
  <1> SUFFICES ASSUME GCInv, Sweep PROVE Beside /\ cp' = cp OBVIOUS
  <1> USE DEF Beside, apiVars, cloudVars
  <1>1. CASE SweepCluster
    BY <1>1 DEF SweepCluster, GCInv, Listed
  <1>2. CASE SweepEip
    BY <1>2 DEF SweepEip
  <1>3. CASE SweepStart \/ SweepIndex \/ SweepListEips \/ \E k \in {"eip", "evs", "vpc", "nat"} : SweepStandalone(k)
    BY <1>3 DEF SweepStart, SweepIndex, SweepListEips, SweepStandalone
  <1> QED BY <1>1, <1>2, <1>3 DEF Sweep, SweepClusters

\* ... a forced removal the cloud.
LEMMA ForceBeside == ForceRemove => Beside
  BY DEF ForceRemove, Beside, cloudVars

\* Such a step moves the cloud forward; an accepted delete leaves the cluster
\* answering, and no EIP is bound by it.
LEMMA BesideForward ==
  ASSUME TypeOK, Beside
  PROVE  /\ CloudForward /\ EipForward
         /\ \A c \in ClusterIDs : cloud'[c].own = cloud[c].own
         /\ \A id : Alive(id)' <=> Alive(id)
         /\ \A e \in EipIDs : /\ eip'[e].tagged = eip[e].tagged
                              /\ eip'[e].bound \in {None, eip[e].bound}
  <1>a. cloud \in [ClusterIDs -> CloudCluster] /\ eip \in [EipIDs -> CloudEip]
    BY DEF TypeOK
  <1>1. CloudForward /\ \A c \in ClusterIDs : cloud'[c].own = cloud[c].own
    <2>1. CASE cloud' = cloud
      BY <2>1 DEF CloudForward
    <2> QED BY <2>1, AcceptedDelete DEF Beside
  <1>2. \A id : Alive(id)' <=> Alive(id)
    <2>1. CASE cloud' = cloud
      BY <2>1 DEF Alive
    <2>2. ASSUME NEW c \in ClusterIDs, Alive(c), cloud' = [cloud EXCEPT ![c].phase = "Deleting"]
          PROVE  \A id : Alive(id)' <=> Alive(id)
      BY <1>a, <2>2 DEF Alive, CloudCluster
    <2> QED BY <2>1, <2>2 DEF Beside, DeleteAccepted
  <1>3. /\ EipForward
        /\ \A e \in EipIDs : eip'[e].tagged = eip[e].tagged /\ eip'[e].bound \in {None, eip[e].bound}
    <2>1. CASE eip' = eip
      BY <2>1 DEF EipForward
    <2>2. ASSUME NEW x, eip' = [eip EXCEPT ![x].state = "released", ![x].bound = None],
                 NEW e \in EipIDs
          PROVE  /\ eip[e].state # "unborn" => eip'[e].state # "unborn"
                 /\ eip[e].state = "released" => eip'[e].state = "released"
                 /\ eip'[e].tagged = eip[e].tagged /\ eip'[e].bound \in {None, eip[e].bound}
      <3>1. CASE x = e
        BY <1>a, <2>2, <3>1 DEF CloudEip
      <3>2. CASE x # e
        BY <1>a, <2>2, <3>2
      <3> QED BY <3>1, <3>2
    <2>3. \A x : eip' = [eip EXCEPT ![x].state = "released", ![x].bound = None]
            => /\ EipForward
               /\ \A e \in EipIDs : eip'[e].tagged = eip[e].tagged /\ eip'[e].bound \in {None, eip[e].bound}
      BY <2>2 DEF EipForward
    <2> QED BY <2>1, <2>3 DEF Beside
  <1> QED BY <1>1, <1>2, <1>3

\* What a pass knows survives such a step.
LEMMA BesideSound ==
  ASSUME TypeOK, Sound, Beside
  PROVE  Sound'
  <1>f. CloudForward /\ EipForward
    BY BesideForward
  <1>p. PassSound /\ TagSound /\ PromiseInv /\ UNCHANGED <<pc, mem, base, newEip, cache>>
    BY DEF Sound, Beside, passVars
  <1>1. PassSound'
    <2>1. /\ \A o \in {cp, cache, mem, base} : o.clusterID \in ClusterRef /\ o.eipID \in EipRef
          /\ newEip \in EipRef
      BY FieldTypes DEF TypeOK
    <2>2. /\ \A o \in {cp, cache, mem, base} :
               ClusterSoundNext(o.clusterID) /\ EipSoundNext(o.eipID)
          /\ EipSoundNext(newEip)
      BY <1>f, <1>p, <2>1, SoundStays DEF PassSound, RecordSound
    <2>3. ClusterSoundNext(Blank.clusterID) /\ EipSoundNext(Blank.eipID)
      BY BlankNames DEF ClusterSoundNext, EipSoundNext
    <2>4. \A o \in {cp', cache', mem', base'} : RecordSound(o)'
      BY <1>p, <2>2, <2>3 DEF Beside, RecordSound, ClusterSound, EipSound, ClusterSoundNext,
           EipSoundNext
    <2>5. EipSound(newEip)'
      BY <1>p, <2>2 DEF EipSound, EipSoundNext
    <2>6. /\ ~Alive(base.clusterID) => ~Alive(base.clusterID)'
          /\ ~LiveEip(base.eipID) => ~LiveEip(base.eipID)'
      BY <1>f, <1>p, <2>1, GoneStays DEF PassSound, RecordSound, Alive, LiveEip
    <2>7. DeletePassSound'
      BY <1>p, <2>6 DEF PassSound, DeletePassSound
    <2> QED BY <1>p, <2>4, <2>5, <2>7 DEF PassSound
  <1>2. TagSound'
    <2>1. BoundTagged'
      BY <1>p, BesideForward DEF TagSound, BoundTagged
    <2>2. pc = "eipBind" => newEip \in EipIDs
      BY <1>p DEF PassSound, TypeOK, EipRef
    <2> QED BY <1>p, <2>1, <2>2, BesideForward DEF TagSound
  <1>3. PromiseInv'
    <2>1. NameSound'
      BY <1>p, BesideForward DEF PromiseInv, NameSound
    <2>2. ~Alive(base.clusterID) => ~Alive(base.clusterID)'
      BY <1>p, BesideForward
    <2>3. Alive(cp.clusterID)' => cp' = cp /\ Alive(cp.clusterID)
      <3>1. ~Alive(Blank.clusterID)'
        BY BlankNames, IdAssumption DEF Alive
      <3> QED BY <3>1, BesideForward DEF Beside, Alive
    <2>4. PatchSound'
      BY <1>p, <2>2, <2>3 DEF PromiseInv, PatchSound
    <2> QED BY <1>p, <2>1, <2>4 DEF PromiseInv
  <1> QED BY <1>1, <1>2, <1>3 DEF Sound

\* The contract sees at most the end of nothing: a cluster being deleted is
\* still there.
LEMMA BesideContract ==
  ASSUME TypeOK, Beside, cp' = cp
  PROVE  [Promise!Next]_(Promise!cvars)
  <1>1. CASE cloud' = cloud
    BY <1>1, MapStays, Stutters DEF Shown
  <1>2. ASSUME NEW c \in ClusterIDs, Alive(c), cloud' = [cloud EXCEPT ![c].phase = "Deleting"]
        PROVE  [Promise!Next]_(Promise!cvars)
    BY <1>2, PhaseStep
  <1> QED BY <1>1, <1>2 DEF Beside, DeleteAccepted

\* Every step of the composition preserves what passes know, ...
LEMMA SoundStep == GCInv /\ Sound /\ [GCNext]_gvars => Sound'
  <1> SUFFICES ASSUME GCInv, Sound, [GCNext]_gvars PROVE Sound' OBVIOUS
  <1>a. TypeOK
    BY DEF GCInv
  <1>1. CASE [Next]_vars
    BY <1>1, <1>a, PassSoundStep, TagSoundStep, NameSoundStep, PatchSoundStep, BaseExistsStep
      DEF Sound, PromiseInv
  <1>2. CASE Sweep \/ ForceRemove
    BY <1>2, <1>a, SweepBeside, ForceBeside, BesideSound
  <1> QED BY <1>1, <1>2 DEF GCNext, gvars

\* ... and is, but for a forced removal, a step of the contract.
LEMMA ContractStep ==
  GCInv /\ Sound /\ [GCNext]_gvars => ForceRemove \/ [Promise!Next]_(Promise!cvars)
  <1> SUFFICES ASSUME GCInv, Sound, [GCNext]_gvars, ~ForceRemove
               PROVE  [Promise!Next]_(Promise!cvars)
    OBVIOUS
  <1>a. TypeOK
    BY DEF GCInv
  <1>1. CASE [Next]_vars
    BY <1>1, <1>a, PromiseStep DEF Sound
  <1>2. CASE Sweep
    BY <1>2, <1>a, SweepBeside, BesideContract
  <1> QED BY <1>1, <1>2 DEF GCNext, gvars

\* What passes know holds in every state of the composition.
LEMMA SoundAlways == GCSpec => []Sound
  <1>1. GCInit => Sound
    <2>1. Init => PassSound
      BY PassSoundInit
    <2>2. Init => TagSound
      BY DEF Init, TagSound, BoundTagged, NoEip
    <2>3. Init => PromiseInv
      BY DEF Init, PromiseInv, NameSound, PatchSound, NoCluster, Alive, NormalSteps, DeleteSteps
    <2> QED BY <2>1, <2>2, <2>3 DEF GCInit, Sound
  <1> QED BY <1>1, GCInitInv, GCInvStep, SoundStep, PTL DEF GCSpec

\* With the sweep switched on and finalizers stripped by hand, the control plane
\* still keeps its contract in every step but the stripping itself: what the
\* machine pools rely on does not depend on the feature gate.
THEOREM ContractBesideSweepAlways == GCSpec => ContractBesideSweep
  <1>1. GCInv /\ Sound /\ [GCNext]_gvars
          => [ForceRemove \/ [Promise!Next]_(Promise!cvars)]_gvars
    BY ContractStep
  <1> QED BY <1>1, GCInitInv, GCInvStep, SoundAlways, PTL DEF GCSpec, ContractBesideSweep

\* Nor does the sweep lead a pass to a cluster that is not ours, or a delete
\* pass past a cluster or an EIP that is still there.
THEOREM PassSoundBesideSweep == GCSpec => []PassSound
  <1>1. Sound => PassSound
    BY DEF Sound
  <1> QED BY <1>1, SoundAlways, PTL
=============================================================================
