------------------------------- MODULE Network -------------------------------
(***************************************************************************)
(* The CCECluster controller and the managed network it builds: a VPC, a   *)
(* node subnet, and on request a NAT gateway with its EIP and SNAT rule,   *)
(* and a security group.                                                   *)
(*                                                                         *)
(* The IDs of what was created are recorded in the object's spec, which a  *)
(* pass persists only at its end, by a merge patch that checks no version, *)
(* on the delete path too.  After a lost record resources are found again  *)
(* by name, and adopted if they carry the owned tag.  The cloud refuses to *)
(* delete what is in use: a gateway with a rule, an EIP a rule names, a    *)
(* subnet with a gateway, a VPC with a subnet.                             *)
(***************************************************************************)
EXTENDS Naturals, FiniteSets

CONSTANTS IDs,         \* identifiers the cloud may hand out, per kind of resource
          None,        \* the empty identifier ""
          MaxFaults,   \* bound: failed API calls
          MaxLosses    \* bound: lost answers, failed patches, restarts, strangers,
                       \* reads of a cache behind the store

ASSUME IdAssumption == None \notin IDs
ASSUME BoundAssumption == MaxFaults \in Nat /\ MaxLosses \in Nat

VARIABLES
  features,   \* which of natGateway and securityGroup the spec asks for
  consumer,   \* does the control plane still exist?
  obj,        \* the CCECluster in the API server
  cache,      \* the controller's informer copy of it
  cloud,      \* every network resource the account may hold
  pc, mem, base,      \* the pass: where it is, its object, the object as read
  gw, addr, failed,   \* DeleteNetwork: gateway, EIP, has a step failed?
  faults, losses

passVars == <<pc, mem, base, gw, addr, failed>>
vars == <<features, consumer, obj, cache, cloud, passVars, faults, losses>>

Kinds == {"vpc", "subnet", "nat", "eip", "sg"}
Ref == IDs \cup {None}

\* ids holds the ResourceIDs of spec.network.
Object == [exists : BOOLEAN, deleting : BOOLEAN, finalizer : BOOLEAN,
           provisioned : BOOLEAN, ids : [Kinds -> Ref]]

Blank == [exists |-> FALSE, deleting |-> FALSE, finalizer |-> FALSE,
          provisioned |-> FALSE, ids |-> [k \in Kinds |-> None]]

\* parent: the VPC of a subnet or security group, the subnet of a gateway;
\* rule: the EIP of a gateway's SNAT rule.  The name is always the derived one.
Resource == [state : {"unborn", "live", "gone"}, ours : BOOLEAN, tagged : BOOLEAN,
             parent : Ref, rule : Ref]

Unborn == [state |-> "unborn", ours |-> FALSE, tagged |-> FALSE,
           parent |-> None, rule |-> None]

Steps == {"vpc", "subnet", "nat", "natEip", "natCreate", "snat", "sg", "sgRules",
          "validate", "patchObject", "patchStatus",
          "dNat", "dRules", "dGateway", "dEip", "dSg", "dSubnet", "dVpc"}

-----------------------------------------------------------------------------
(* The cloud.                                                              *)

Live(k, i) == i \in IDs /\ cloud[k][i].state = "live"

ParentKind(k) == IF k = "nat" THEN "subnet" ELSE "vpc"

\* What the resource k of the given pass's object is placed in.
ParentOf(k) == IF k \in {"vpc", "eip"} THEN None ELSE mem.ids[ParentKind(k)]
Placed(k) == k \in {"vpc", "eip"} \/ Live(ParentKind(k), ParentOf(k))

\* A search by name: VPCs and gateways in the account, subnets and security
\* groups in the recorded VPC.
Found(k) == {i \in IDs : Live(k, i) /\ (k \in {"subnet", "sg"} => cloud[k][i].parent = ParentOf(k))}

\* (variants) a name match is enough; a name match is always refused
NameMatches(k, i) == TRUE
NeverAdopts(k, i) == FALSE

\* requireOwned: the owned tag, read from the cloud.
requireOwned(k, i) == cloud[k][i].tagged

\* Created resources carry the owned tag, except a security group.
Created(k, i, tagged) ==
  /\ cloud[k][i].state = "unborn"
  /\ cloud' = [cloud EXCEPT ![k][i] =
                 [state |-> "live", ours |-> TRUE, tagged |-> tagged,
                  parent |-> ParentOf(k), rule |-> None]]
Create(k, i) == Placed(k) /\ Created(k, i, k # "sg")

\* The account's quota, or a parent that is gone: the cloud refuses.
CannotCreate(k) == ~Placed(k) \/ \A i \in IDs : cloud[k][i].state # "unborn"

InUse(k, i) ==
  CASE k = "nat" -> cloud["nat"][i].rule # None
    [] k = "eip" -> \E g \in IDs : Live("nat", g) /\ cloud["nat"][g].rule = i
    [] k = "subnet" -> \E g \in IDs : Live("nat", g) /\ cloud["nat"][g].parent = i
    [] k = "vpc" -> \E s \in IDs : Live("subnet", s) /\ cloud["subnet"][s].parent = i
    [] k = "sg" -> FALSE

CallFails == faults < MaxFaults /\ faults' = faults + 1
Fault == CallFails /\ UNCHANGED losses
Loss == losses < MaxLosses /\ losses' = losses + 1 /\ UNCHANGED faults
Fine == UNCHANGED <<faults, losses>>

-----------------------------------------------------------------------------

Init ==
  /\ features \in SUBSET {"nat", "sg"}
  /\ consumer = TRUE
  /\ obj = [Blank EXCEPT !.exists = TRUE] /\ cache = obj
  /\ cloud = [k \in Kinds |-> [i \in IDs |-> Unborn]]
  /\ pc = "idle" /\ mem = Blank /\ base = Blank
  /\ gw = None /\ addr = None /\ failed = FALSE
  /\ faults = 0 /\ losses = 0

Goto(step, o) == pc' = step /\ mem' = o /\ UNCHANGED <<base, gw, addr, failed>>

\* reconcileNormal or reconcileDelete returned: the deferred scope.Close.
Close(o) == Goto("patchObject", o)

EndPass ==
  /\ pc' = "idle" /\ mem' = Blank /\ base' = Blank
  /\ gw' = None /\ addr' = None /\ failed' = FALSE

\* A pass reads the cache; a read of a stale copy is a loss.
Reads ==
  /\ pc = "idle" /\ cache.exists
  /\ losses' = losses + (IF cache = obj THEN 0 ELSE 1) /\ losses' <= MaxLosses
  /\ base' = cache
NoFault == UNCHANGED faults

Recorded(o, k, i) == [o EXCEPT !.ids[k] = i]

-----------------------------------------------------------------------------
(* reconcileNormal                                                         *)

\* Add the finalizer in memory, then resolve the credentials.
StartNormal ==
  /\ Reads /\ ~cache.deleting
  /\ mem' = [cache EXCEPT !.finalizer = TRUE]
  /\ \/ NoFault /\ pc' = "vpc"
     \/ CallFails /\ pc' = "patchObject"
  /\ UNCHANGED <<features, consumer, obj, cache, cloud, gw, addr, failed>>

\* The step after k: NAT gateway and security group only if asked for.
After(k) ==
  CASE k = "vpc" -> "subnet"
    [] k = "sg" -> "sgRules"
    [] k = "subnet" /\ "nat" \in features -> "nat"
    [] OTHER -> IF "sg" \in features THEN "sg" ELSE "validate"

\* ensureVpc, ensureSubnets and the first half of ensureSecurityGroup: skip
\* what is recorded; otherwise search by name, adopt or refuse a match, create
\* when there is none.  A search that fails finds nothing, so a second VPC or
\* security group is created; a second subnet of the CIDR is refused.
Ensure(k) ==
  /\ pc = k
  /\ \/ mem.ids[k] # None /\ Fine /\ Goto(After(k), mem) /\ UNCHANGED cloud
     \/ /\ mem.ids[k] = None
        /\ \/ /\ Fine /\ UNCHANGED cloud
              /\ \E i \in Found(k) :
                   IF requireOwned(k, i) THEN Goto(After(k), Recorded(mem, k, i)) ELSE Close(mem)
           \/ /\ Fine /\ Found(k) = {}
              /\ \E i \in IDs : Create(k, i) /\ Goto(After(k), Recorded(mem, k, i))
           \/ /\ Fault /\ Found(k) # {} /\ k # "subnet"
              /\ \E i \in IDs : Create(k, i) /\ Goto(After(k), Recorded(mem, k, i))
           \/ Fine /\ Found(k) = {} /\ CannotCreate(k) /\ Close(mem) /\ UNCHANGED cloud
           \/ Loss /\ Found(k) = {} /\ Close(mem) /\ \E i \in IDs : Create(k, i)
           \/ Fault /\ Close(mem) /\ UNCHANGED cloud
  /\ UNCHANGED <<features, consumer, obj, cache>>

\* ensureNatGateway: the gateway by record or by name (a failed search finds
\* nothing), ...
FindNatGateway ==
  /\ pc = "nat"
  /\ \/ mem.ids["nat"] # None /\ Fine /\ Goto("snat", mem)
     \/ /\ mem.ids["nat"] = None
        /\ \/ /\ Fine
              /\ \E i \in Found("nat") :
                   IF requireOwned("nat", i) THEN Goto("snat", Recorded(mem, "nat", i))
                                             ELSE Close(mem)
           \/ Fine /\ Found("nat") = {} /\ Goto("natEip", mem)
           \/ Fault /\ Found("nat") # {} /\ (Goto("natEip", mem) \/ Close(mem))
  /\ UNCHANGED <<features, consumer, obj, cache, cloud>>

\* (variant) such an EIP forgotten
ForgetsUntagged(i) == mem

\* The ID of an EIP that could neither be tagged nor deleted is kept.
KeepsUntagged(i) == Recorded(mem, "eip", i)

\* ... createEip: create and tag; after a failed tag the EIP is deleted again,
\* which leaves nothing (the last disjunct), unless that fails as well, ...
CreateEip ==
  /\ pc = "natEip"
  /\ \/ mem.ids["eip"] # None /\ Fine /\ Goto("natCreate", mem) /\ UNCHANGED cloud
     \/ /\ mem.ids["eip"] = None
        /\ \/ /\ Fine
              /\ \E i \in IDs : Created("eip", i, TRUE) /\ Goto("natCreate", Recorded(mem, "eip", i))
           \/ Fine /\ CannotCreate("eip") /\ Close(mem) /\ UNCHANGED cloud
           \/ /\ faults + 1 < MaxFaults /\ faults' = faults + 2 /\ UNCHANGED losses
              /\ \E i \in IDs : Created("eip", i, FALSE) /\ Close(KeepsUntagged(i))
           \/ Loss /\ Close(mem) /\ \E i \in IDs : Created("eip", i, FALSE)
           \/ Fault /\ Close(mem) /\ UNCHANGED cloud
  /\ UNCHANGED <<features, consumer, obj, cache>>

\* ... createNatGateway in the node subnet, ...
CreateNatGateway ==
  /\ pc = "natCreate"
  /\ \/ Fine /\ \E i \in IDs : Create("nat", i) /\ Goto("snat", Recorded(mem, "nat", i))
     \/ Fine /\ CannotCreate("nat") /\ Close(mem) /\ UNCHANGED cloud
     \/ Loss /\ Close(mem) /\ \E i \in IDs : Create("nat", i)
     \/ Fault /\ Close(mem) /\ UNCHANGED cloud
  /\ UNCHANGED <<features, consumer, obj, cache>>

\* ... wait until it is active, recover a lost EIP ID from its rule, and make
\* the missing rule; the cloud refuses a rule without a live EIP.
EnsureSnatRules ==
  /\ pc = "snat"
  /\ LET g == mem.ids["nat"]
         rule == IF g \in IDs THEN cloud["nat"][g].rule ELSE None
         o == IF mem.ids["eip"] = None THEN Recorded(mem, "eip", rule) ELSE mem
     IN \/ /\ Fine /\ Live("nat", g) /\ rule # None
           /\ Goto(After("snat"), o) /\ UNCHANGED cloud
        \/ /\ Fine /\ Live("nat", g) /\ rule = None /\ Live("eip", o.ids["eip"])
           /\ cloud' = [cloud EXCEPT !["nat"][g].rule = o.ids["eip"]]
           /\ Goto(After("snat"), o)
        \/ /\ Fine /\ Live("nat", g) /\ rule = None /\ ~Live("eip", o.ids["eip"])
           /\ Close(o) /\ UNCHANGED cloud
        \/ /\ Loss /\ Live("nat", g) /\ rule = None /\ Live("eip", o.ids["eip"])
           /\ cloud' = [cloud EXCEPT !["nat"][g].rule = o.ids["eip"]] /\ Close(o)
        \/ Fine /\ ~Live("nat", g) /\ Close(mem) /\ UNCHANGED cloud
        \/ Fault /\ (Close(mem) \/ Close(o)) /\ UNCHANGED cloud
  /\ UNCHANGED <<features, consumer, obj, cache>>

\* ensureSecurityGroupRules
EnsureSecurityGroupRules ==
  /\ pc = "sgRules"
  /\ \/ Fine /\ Live("sg", mem.ids["sg"]) /\ Goto("validate", mem)
     \/ Fine /\ ~Live("sg", mem.ids["sg"]) /\ Close(mem)
     \/ Fault /\ Close(mem)
  /\ UNCHANGED <<features, consumer, obj, cache, cloud>>

\* The validator must find the VPC, and the subnet in it (its checks of CIDRs
\* against each other are settled by the spec).
NetworkValid(o) ==
  /\ Live("vpc", o.ids["vpc"]) /\ Live("subnet", o.ids["subnet"])
  /\ cloud["subnet"][o.ids["subnet"]].parent = o.ids["vpc"]

\* Validation gates Ready and the contract's provisioned flag.
Validate ==
  /\ pc = "validate"
  /\ \/ Fine /\ NetworkValid(mem) /\ Close([mem EXCEPT !.provisioned = TRUE])
     \/ Fine /\ ~NetworkValid(mem) /\ Close(mem)
     \/ Fault /\ Close(mem)
  /\ UNCHANGED <<features, consumer, obj, cache, cloud>>

\* A merge patch writes the fields the pass changed and no others.
Merged(new, old, stored) == IF new # old THEN new ELSE stored

\* scope.Close, first half: finalizer and spec.  A deleting object without
\* the finalizer goes away.
PatchObject ==
  /\ pc = "patchObject"
  /\ LET fin == Merged(mem.finalizer, base.finalizer, obj.finalizer)
         ids == [k \in Kinds |-> Merged(mem.ids[k], base.ids[k], obj.ids[k])]
     IN \/ /\ obj.exists /\ Fine
           /\ obj' = IF obj.deleting /\ ~fin THEN Blank
                     ELSE [obj EXCEPT !.finalizer = fin, !.ids = ids]
        \/ ~obj.exists /\ Fine /\ UNCHANGED obj
        \/ Loss /\ UNCHANGED obj
  /\ pc' = "patchStatus" /\ UNCHANGED <<mem, base, gw, addr, failed>>
  /\ UNCHANGED <<features, consumer, cache, cloud>>

\* Second half: the status, whatever the first half did.
PatchStatus ==
  /\ pc = "patchStatus"
  /\ \/ /\ obj.exists /\ Fine
        /\ obj' = [obj EXCEPT !.provisioned = Merged(mem.provisioned, base.provisioned, @)]
     \/ ~obj.exists /\ Fine /\ UNCHANGED obj
     \/ Loss /\ UNCHANGED obj
  /\ EndPass
  /\ UNCHANGED <<features, consumer, cache, cloud>>

-----------------------------------------------------------------------------
(* reconcileDelete                                                         *)

\* Wait for the control plane; without a recorded VPC there is no network to
\* take down.
StartDelete ==
  /\ Reads /\ cache.deleting /\ ~consumer
  /\ \/ /\ NoFault /\ cache.ids["vpc"] # None
        /\ mem' = cache /\ pc' = "dNat"
     \/ /\ NoFault /\ cache.ids["vpc"] = None
        /\ mem' = [cache EXCEPT !.finalizer = FALSE] /\ pc' = "patchObject"
     \/ /\ CallFails /\ cache.ids["vpc"] # None
        /\ mem' = cache /\ pc' = "patchObject"
  /\ UNCHANGED <<features, consumer, obj, cache, cloud, gw, addr, failed>>

\* The EIP to release: the recorded one, or the one the gateway's rule names.
EipToRelease(g) ==
  IF mem.ids["eip"] # None THEN mem.ids["eip"]
  ELSE IF g = None THEN None ELSE cloud["nat"][g].rule

\* DeleteNetwork: gateway (by record, else by name alone) and EIP are resolved
\* before the rules go; a search that fails finds nothing.
ResolveNat ==
  /\ pc = "dNat"
  /\ IF "nat" \in features /\ (mem.ids["nat"] # None \/ mem.ids["eip"] # None)
       THEN /\ \/ /\ Fine
                  /\ gw' \in IF mem.ids["nat"] # None THEN {mem.ids["nat"]}
                             ELSE IF Found("nat") # {} THEN Found("nat") ELSE {None}
                  /\ addr' = EipToRelease(gw')
               \/ /\ Fault /\ (mem.ids["nat"] = None \/ mem.ids["eip"] = None)
                  /\ gw' = mem.ids["nat"] /\ addr' = mem.ids["eip"]
            /\ pc' = "dRules"
       ELSE Fine /\ pc' = "dSg" /\ UNCHANGED <<gw, addr>>
  /\ UNCHANGED <<features, consumer, obj, cache, cloud, mem, base, failed>>

\* (variant) errors are reported and not kept
ErrorsDropped(bad) == failed

\* Errors of the steps are collected; the rest is still attempted.
Collected(bad) == failed \/ bad

\* DeleteSnatRules: a listing that fails is ignored, a failed deletion counts.
DeleteSnatRules ==
  /\ pc = "dRules"
  /\ LET cleared == IF gw = None THEN cloud ELSE [cloud EXCEPT !["nat"][gw].rule = None]
     IN \/ Fine /\ UNCHANGED failed /\ cloud' = cleared
        \/ Loss /\ gw # None /\ failed' = Collected(TRUE) /\ cloud' = cleared
        \/ Fault /\ gw # None /\ failed' \in {failed, Collected(TRUE)} /\ UNCHANGED cloud
  /\ pc' = "dGateway"
  /\ UNCHANGED <<features, consumer, obj, cache, mem, base, gw, addr>>

\* (variant) only a step without a target is skipped
NotFoundIsError(k, i) == i = None

\* The Show call of every delete helper: no target, or a 404, is success.
AlreadyGone(k, i) == ~Live(k, i)

Removed(k, i) == cloud' = [cloud EXCEPT ![k][i].state = "gone"]

\* One deletion.
Delete(k, i, step, next) ==
  /\ pc = step
  /\ LET deletable == Live(k, i) /\ ~InUse(k, i)
     IN \/ Fine /\ AlreadyGone(k, i) /\ UNCHANGED <<failed, cloud>>
        \/ Fine /\ deletable /\ UNCHANGED failed /\ Removed(k, i)
        \/ Fine /\ ~AlreadyGone(k, i) /\ ~deletable /\ failed' = Collected(TRUE) /\ UNCHANGED cloud
        \/ Loss /\ deletable /\ failed' = Collected(TRUE) /\ Removed(k, i)
        \/ Fault /\ i # None /\ failed' = Collected(TRUE) /\ UNCHANGED cloud
  /\ pc' = next
  /\ UNCHANGED <<features, consumer, obj, cache, base, gw, addr>>

DeleteNatGateway == Delete("nat", gw, "dGateway", "dEip") /\ UNCHANGED mem
DeleteEip == Delete("eip", addr, "dEip", "dSg") /\ UNCHANGED mem
DeleteSecurityGroup ==
  Delete("sg", IF "sg" \in features THEN mem.ids["sg"] ELSE None, "dSg", "dSubnet") /\ UNCHANGED mem
DeleteSubnet == Delete("subnet", mem.ids["subnet"], "dSubnet", "dVpc") /\ UNCHANGED mem

\* The last one decides about the finalizer.
DeleteVpc ==
  /\ Delete("vpc", mem.ids["vpc"], "dVpc", "patchObject")
  /\ mem' = [mem EXCEPT !.finalizer = failed']

-----------------------------------------------------------------------------
(* The surroundings.                                                       *)

UserDelete ==
  /\ obj.exists /\ ~obj.deleting
  /\ obj' = IF obj.finalizer THEN [obj EXCEPT !.deleting = TRUE] ELSE Blank
  /\ UNCHANGED <<features, consumer, cache, cloud, passVars, faults, losses>>

ControlPlaneGone ==
  /\ consumer /\ consumer' = FALSE
  /\ UNCHANGED <<features, obj, cache, cloud, passVars, faults, losses>>

CacheSync ==
  /\ cache # obj /\ cache' = obj
  /\ UNCHANGED <<features, consumer, obj, cloud, passVars, faults, losses>>

\* Somebody makes a VPC or a NAT gateway of the derived name.
Stranger(k, i) ==
  /\ Loss /\ cloud[k][i].state = "unborn"
  /\ cloud' = [cloud EXCEPT ![k][i].state = "live"]
  /\ UNCHANGED <<features, consumer, obj, cache, passVars>>

Crash ==
  /\ pc # "idle" /\ Loss /\ EndPass
  /\ UNCHANGED <<features, consumer, obj, cache, cloud>>

-----------------------------------------------------------------------------

reconcileNormal ==
  \/ StartNormal \/ (\E k \in {"vpc", "subnet", "sg"} : Ensure(k))
  \/ FindNatGateway \/ CreateEip \/ CreateNatGateway \/ EnsureSnatRules
  \/ EnsureSecurityGroupRules \/ Validate

reconcileDelete ==
  \/ StartDelete \/ ResolveNat \/ DeleteSnatRules \/ DeleteNatGateway
  \/ DeleteEip \/ DeleteSecurityGroup \/ DeleteSubnet \/ DeleteVpc

Reconcile == reconcileNormal \/ reconcileDelete \/ PatchObject \/ PatchStatus

Next ==
  \/ Reconcile \/ UserDelete \/ ControlPlaneGone \/ CacheSync \/ Crash
  \/ \E k \in {"vpc", "nat"}, i \in IDs : Stranger(k, i)

Spec == Init /\ [][Next]_vars

\* Errors and requeues bring the worker back; the informer catches up.
FairSpec == Spec /\ WF_vars(Reconcile) /\ WF_vars(CacheSync)

-----------------------------------------------------------------------------
(* Properties.                                                             *)

\* The values the code can produce (the shape of the state).
TypeOK ==
  /\ features \subseteq {"nat", "sg"} /\ consumer \in BOOLEAN
  /\ obj \in Object /\ cache \in Object /\ mem \in Object /\ base \in Object
  /\ cloud \in [Kinds -> [IDs -> Resource]]
  /\ pc \in {"idle"} \cup Steps
  /\ gw \in Ref /\ addr \in Ref /\ failed \in BOOLEAN
  /\ faults \in 0..MaxFaults /\ losses \in 0..MaxLosses

\* AdoptsOwned: neither the object nor a pass ever holds the ID of a resource
\* the provider did not make, so no such resource is used as its own.
AdoptsOwned ==
  \A o \in {obj, mem}, k \in Kinds : o.ids[k] # None => cloud[k][o.ids[k]].ours

\* The EIP is recorded by the object, or by a pass that has yet to store it.
Known(i) == i = obj.ids["eip"] \/ (i = mem.ids["eip"] /\ pc # "patchStatus")

\* EipKept: no step makes an EIP, or leaves one behind, that nobody records, also
\* one that could neither be tagged nor deleted, so that the next pass makes no
\* second one.  The exceptions are a step that loses an answer, a patch or the
\* pass, and the patch of a pass that read another EIP, or none, than the one
\* stored: it writes over an ID it never saw, or leaves its own unwritten.
EipKept ==
  [][obj'.exists /\ losses' = losses =>
       \A i \in IDs :
         Live("eip", i)' =>
           \/ Known(i)'
           \/ Live("eip", i) /\ ~Known(i)
           \/ pc = "patchObject" /\ (i = base.ids["eip"] <=> i # obj.ids["eip"])]_vars

\* NetworkReleaseClean: an object that carries the finalizer leaves only when
\* every resource is gone whose ID it records and the releasing pass had read
\* there, whichever steps of the teardown failed before: a stale copy hides at
\* most the IDs that were stored after it.
NetworkReleaseClean ==
  [][obj.exists /\ obj.finalizer /\ ~obj'.exists
       => \A k \in Kinds : base.ids[k] = obj.ids[k] => ~Live(k, obj.ids[k])]_vars

\* Resources of the provider that no record names, with no pass to record them.
Stranded(kinds) ==
  pc = "idle" /\ \E k \in kinds, i \in IDs :
                   Live(k, i) /\ cloud[k][i].ours /\ obj.ids[k] # i

Blocked == \E k \in {"vpc", "nat"}, i \in IDs : Live(k, i) /\ ~cloud[k][i].ours

\* NetworkDeletionCompletes: once the control plane is gone, a deletion runs to
\* its end, whatever failed on the way, unless a resource whose ID was lost
\* stands in the cloud.
NetworkDeletionCompletes ==
  (obj.exists /\ obj.deleting /\ ~consumer) ~> (~obj.exists \/ Stranded(Kinds) \/ Blocked)

\* NetworkProvisions: a wanted object is eventually provisioned; a VPC or a
\* subnet whose ID was lost is found again, a gateway, an EIP or a security
\* group need not be.
NetworkProvisions ==
  (obj.exists /\ ~obj.deleting)
    ~> (obj.provisioned \/ obj.deleting \/ ~obj.exists \/ Blocked
        \/ Stranded({"nat", "eip", "sg"}))

\* ForeignSpared ("a match whose ownership cannot be proven is refused (fail
\* closed) - never adopted, duplicated or deleted"): no resource of somebody
\* else is ever removed.
ForeignSpared == \A k \in Kinds, i \in IDs : cloud[k][i].state = "gone" => cloud[k][i].ours
=============================================================================
