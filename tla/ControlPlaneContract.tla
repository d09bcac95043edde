------------------------ MODULE ControlPlaneContract ------------------------
(***************************************************************************)
(* What a CCEManagedControlPlane promises to those who read it (the        *)
(* machine-pool controller, Cluster API): an object that comes, records at *)
(* most one CCE cluster of its own, becomes Ready and leaves, beside the   *)
(* clusters of the account.  ControlPlane implements this specification;   *)
(* MachinePool takes it as the behaviour of its surroundings.              *)
(***************************************************************************)

CONSTANTS Clusters,   \* identifiers of CCE clusters
          None        \* the empty identifier ""

VARIABLES
  ctl,        \* the control plane in the API server
  running     \* the CCE clusters; a foreign one lacks the owned tag

cvars == <<ctl, running>>

Control == [exists : BOOLEAN, guarded : BOOLEAN, ready : BOOLEAN,
            clusterID : Clusters \cup {None}]

Absent == [exists |-> FALSE, guarded |-> FALSE, ready |-> FALSE, clusterID |-> None]

Present(guarded, ready, id) ==
  [exists |-> TRUE, guarded |-> guarded, ready |-> ready, clusterID |-> id]

Live(c) == c \in Clusters /\ running[c] = "live"
Ended(c) == c \in Clusters /\ running[c] = "gone"

\* Nothing yet, or one cluster of the name, the provider's or somebody else's.
Init ==
  /\ ctl = Absent
  /\ \/ running = [c \in Clusters |-> "unborn"]
     \/ \E c \in Clusters, s \in {"live", "foreign"} :
          running = [x \in Clusters |-> IF x = c THEN s ELSE "unborn"]

-----------------------------------------------------------------------------

Appear ==
  /\ ~ctl.exists /\ ctl' = Present(FALSE, FALSE, None)
  /\ UNCHANGED running

\* The finalizer is stored.
Guard ==
  /\ ctl.exists /\ ctl' = Present(TRUE, ctl.ready, ctl.clusterID)
  /\ UNCHANGED running

\* A record is forgotten when its cluster is gone, or by a writer that had
\* read the record of an earlier cluster and found that one gone.
MayForget == ~Live(ctl.clusterID) \/ \E c \in Clusters : Ended(c)

\* A record is made of an owned cluster, and never in the place of a live one.
MayRecord(c) == (Live(c) \/ Ended(c)) /\ ~Live(ctl.clusterID)

\* The status is written: Ready comes and stays, the record may change.
Report(id, ready) ==
  /\ ctl.exists
  /\ \/ id = ctl.clusterID
     \/ id = None /\ MayForget
     \/ id # None /\ MayRecord(id)
  /\ ctl.ready => ready
  /\ ctl' = Present(ctl.guarded, ready, id)
  /\ UNCHANGED running

\* A guarded object leaves only after the cluster it records.
Leave ==
  /\ ctl.exists /\ (ctl.guarded => ~Live(ctl.clusterID))
  /\ ctl' = Absent
  /\ UNCHANGED running

\* A cluster appears while no other of the name lives.
ClusterBorn(c) ==
  /\ running[c] = "unborn" /\ ~\E d \in Clusters : Live(d)
  /\ running' = [running EXCEPT ![c] = "live"]
  /\ UNCHANGED ctl

ClusterEnds(c) ==
  /\ Live(c) /\ running' = [running EXCEPT ![c] = "gone"]
  /\ UNCHANGED ctl

Next ==
  \/ Appear \/ Guard \/ Leave
  \/ \E id \in Clusters \cup {None}, ready \in BOOLEAN : Report(id, ready)
  \/ \E c \in Clusters : ClusterBorn(c) \/ ClusterEnds(c)

Spec == Init /\ [][Next]_cvars
=============================================================================
