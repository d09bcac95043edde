-------------------------- MODULE GarbageCollector --------------------------
(***************************************************************************)
(* The opt-in orphan sweep (ExternalResourceGC) beside the control-plane   *)
(* controller.  A sweep lists the cloud clusters, then the Cluster CRs,    *)
(* then deletes, one call at a time, the owned clusters whose name no CR   *)
(* bears, and after that the owned EIPs, volumes, VPCs and gateways; users *)
(* and the controller run in between.  Both processes run on the leader    *)
(* and share one cache, so the list of CRs is never behind what the        *)
(* controller acted on.  The managed network is seen from outside: built   *)
(* when the infrastructure is, torn down before its Cluster goes, left     *)
(* behind by a forced removal (Network is the detailed model).             *)
(***************************************************************************)
EXTENDS ControlPlane

VARIABLES
  sweep,      \* where the sweep is
  clusters,   \* owned clusters listed and not yet handled
  eips,       \* owned EIPs listed and not yet handled
  wanted,     \* did the list of Cluster CRs hold the name?
  net,        \* what stands of the managed network and its volumes
  born        \* history: the user creation during which a cluster appeared

gcVars == <<sweep, clusters, eips, wanted>>
gvars == <<vars, gcVars, net, born>>

Standalone == {"eip", "evs", "vpc", "nat", "snat", "subnet"}

GCInit ==
  /\ Init
  /\ sweep = "idle" /\ clusters = {} /\ eips = {} /\ wanted = FALSE
  /\ net = {}
  /\ born = [c \in ClusterIDs |-> 0]

-----------------------------------------------------------------------------

\* Every listed cluster with an owned tag (OwnedClusterName not empty).
ListClusters == clusters' = {c \in ClusterIDs : Alive(c) /\ cloud[c].tagged} /\ UNCHANGED wanted

\* (variant) an index that never forgets a name
IndexNeverForgets == wanted' = (lives > 0) /\ UNCHANGED clusters

\* The names of the Cluster CRs that should exist.
IndexClusterCRs == wanted' = clusterCR /\ UNCHANGED clusters

\* (variant) the CRs listed before the cloud
CRsFirst == <<"CRs", "clusters">>

\* The sweep lists the cloud first and the CRs second.
SweepOrder == <<"clusters", "CRs">>

Listing(i) == IF SweepOrder[i] = "clusters" THEN ListClusters ELSE IndexClusterCRs

\* A failed listing (or missing credentials) abandons the sweep.
AbandonSweep == Fault /\ sweep' = "idle" /\ clusters' = {} /\ eips' = {} /\ wanted' = FALSE

SweepStart ==
  /\ sweep = "idle"
  /\ Listing(1) /\ NoFault
  /\ sweep' = "index"
  /\ UNCHANGED <<apiVars, cache, cloudVars, passVars, crashes, lives, eips>>

SweepIndex ==
  /\ sweep = "index"
  /\ \/ Listing(2) /\ NoFault /\ sweep' = "clusters" /\ UNCHANGED eips
     \/ AbandonSweep
  /\ UNCHANGED <<apiVars, cache, cloudVars, passVars, crashes, lives>>

\* Is the name in the owned tag that of an indexed Cluster?
Tracked(own) == own /\ wanted

\* One iteration of the cluster loop; a failing delete does not stop it.
SweepCluster ==
  /\ sweep = "clusters"
  /\ \E c \in clusters :
       /\ clusters' = clusters \ {c}
       /\ \/ Tracked(cloud[c].own) /\ NoFault /\ UNCHANGED cloud
          \/ ~Tracked(cloud[c].own) /\ NoFault /\ DeleteAccepted(c)
          \/ ~Tracked(cloud[c].own) /\ Fault /\ UNCHANGED cloud
  /\ UNCHANGED <<apiVars, cache, eip, passVars, crashes, lives, sweep, eips, wanted>>

\* (variant) the EIP phase left out
NoEipPhase == {}

\* Owned-tagged EIPs; their tag bears the Cluster's name.
OrphanEips == {e \in EipIDs : LiveEip(e) /\ eip[e].tagged /\ ~Tracked(TRUE)}

\* Phase 2 lists the EIPs with the index of phase 1.
SweepListEips ==
  /\ sweep = "clusters" /\ clusters = {}
  /\ \/ eips' = OrphanEips /\ NoFault /\ sweep' = "eips" /\ UNCHANGED <<clusters, wanted>>
     \/ Fault /\ sweep' = "eips" /\ UNCHANGED <<clusters, eips, wanted>>
  /\ UNCHANGED <<apiVars, cache, cloudVars, passVars, crashes, lives>>

SweepEip ==
  /\ sweep = "eips"
  /\ \E e \in eips :
       /\ eips' = eips \ {e}
       /\ \/ NoFault /\ eip' = [eip EXCEPT ![e].state = "released", ![e].bound = None]
          \/ Fault /\ UNCHANGED eip
  /\ UNCHANGED <<apiVars, cache, cloud, passVars, crashes, lives, sweep, clusters, wanted>>

\* What the cloud wants gone before it deletes a resource (external).
Needs(k) == CASE k = "eip" -> {"snat"}
              [] k = "nat" -> {"snat"}
              [] k = "vpc" -> {"subnet", "nat"}
              [] OTHER -> {}

\* (variant) the gateway deleted with its rules in place
GatewayOnly(k) == IF Needs(k) \cap net = {} THEN {k} ELSE {}

\* What a delete call takes away: DeleteNatGateway removes the SNAT rules first;
\* nothing else removes what is in its way.
Removes(k) == CASE k = "nat" -> {"snat", "nat"}
                [] k # "nat" /\ Needs(k) \cap net = {} -> {k}
                [] OTHER -> {}

\* The phases in their order, by the kind they list, and where each leads.
PhaseOf(k) == IF k = "eip" THEN "eips" ELSE k
PhaseAfter(k) == CASE k = "eip" -> "evs" [] k = "evs" -> "vpc" [] k = "vpc" -> "nat"
                   [] k = "nat" -> "idle"

\* One phase over the managed network: list, and delete what no CR tracks.  A
\* failed listing skips the phase, a failed or refused delete is only logged;
\* the rules of a gateway may go without the gateway.
SweepStandalone(k) ==
  /\ sweep = PhaseOf(k) /\ eips = {}
  /\ \/ NoFault /\ (k \notin net \/ Tracked(TRUE)) /\ UNCHANGED net
     \/ NoFault /\ k \in net /\ ~Tracked(TRUE) /\ net' = net \ Removes(k)
     \/ Fault /\ UNCHANGED net
     \/ Fault /\ k = "nat" /\ k \in net /\ ~Tracked(TRUE) /\ net' = net \ {"snat"}
  /\ sweep' = PhaseAfter(k)
  /\ wanted' = IF k = "nat" THEN FALSE ELSE wanted
  /\ UNCHANGED <<apiVars, cache, cloudVars, passVars, crashes, lives, clusters, eips>>

\* A user strips finalizers: the Cluster goes, with or without the control plane.
ForceRemove ==
  /\ clusterCR /\ cp.exists /\ Fault
  /\ clusterCR' = FALSE /\ infra' = FALSE
  /\ cp' \in {cp, Blank}
  /\ UNCHANGED <<cache, cloudVars, passVars, crashes, lives, gcVars>>

-----------------------------------------------------------------------------

SweepClusters == SweepStart \/ SweepIndex \/ SweepCluster \/ SweepListEips \/ SweepEip
Sweep == \/ SweepClusters /\ UNCHANGED net
         \/ \E k \in {"eip", "evs", "vpc", "nat"} : SweepStandalone(k)

\* The network comes with the infrastructure and goes before its Cluster.
NetFollows == net' = CASE infra' /\ ~infra -> Standalone
                       [] clusterCR /\ ~clusterCR' -> {}
                       [] OTHER -> net

Born == born' = [c \in ClusterIDs |->
                   IF cloud[c].phase = "unborn" /\ cloud'[c].phase # "unborn"
                     THEN lives ELSE born[c]]

GCNext == /\ \/ Next /\ NetFollows /\ UNCHANGED gcVars
             \/ Sweep
             \/ ForceRemove /\ UNCHANGED net
          /\ Born

GCSpec == GCInit /\ [][GCNext]_gvars

\* The ticker of Start fires for ever, and a sweep always ends.
GCFairSpec ==
  /\ GCSpec
  /\ WF_gvars(Reconcile /\ NetFollows /\ UNCHANGED gcVars /\ Born)
  /\ WF_gvars(CacheSync /\ NetFollows /\ UNCHANGED gcVars /\ Born)
  /\ WF_gvars(InfrastructureProvisioned /\ NetFollows /\ UNCHANGED gcVars /\ Born)
  /\ WF_gvars(CloudProgress /\ NetFollows /\ UNCHANGED gcVars /\ Born)
  /\ WF_gvars(Sweep /\ Born)

-----------------------------------------------------------------------------
(* Properties.                                                             *)

SweepDeletes(c) ==
  sweep = "clusters" /\ c \in clusters /\ c \notin clusters'
    /\ cloud[c].phase # "Deleting" /\ cloud'[c].phase = "Deleting"

\* SparesCreated: a cluster the controller created for the Cluster that exists
\* now is never deleted by a sweep, however the sweep's two listings interleave
\* with the creation.
SparesCreated ==
  [][\A c \in ClusterIDs : SweepDeletes(c) /\ born[c] > 0 /\ born[c] = lives => ~clusterCR]_gvars

\* ContractBesideSweep: sweeping takes clusters and EIPs away between any two
\* calls of a pass, and finalizers are stripped by hand; yet every step, but the
\* stripping itself, is one the control plane's contract allows: no record of a
\* live cluster is replaced, and a guarded object leaves after its cluster.
ContractBesideSweep == [][ForceRemove \/ [Promise!Next]_(Promise!cvars)]_gvars

\* OrphansCollected: when the Cluster is gone for good, so is, eventually and
\* for good, every owned cluster it left behind, also after a force removal, a
\* lost create answer, or a delete job that failed.
OrphansCollected ==
  <>[](~clusterCR) => <>[](\A c \in ClusterIDs : cloud[c].tagged => ~Alive(c))

\* TaggedEipsCollected: likewise for every EIP that got its owned tag.
TaggedEipsCollected ==
  <>[](~clusterCR) => <>[](\A e \in EipIDs : eip[e].tagged => ~LiveEip(e))

\* NetworkCollected: likewise for the gateway with its rules, its EIP and the
\* volumes of a network that was left behind: the EIP phase comes before the
\* gateway's and is refused, so it takes two sweeps.  (The VPC stays: no phase
\* deletes its subnet.)
NetworkCollected == <>[](~clusterCR) => <>[](net \subseteq {"vpc", "subnet"})
=============================================================================
