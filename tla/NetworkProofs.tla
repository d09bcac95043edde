---------------------------- MODULE NetworkProofs ----------------------------
(* Proofs about Network, for every set of identifiers and every bound.       *)
EXTENDS Network, TLAPS

-----------------------------------------------------------------------------
(* The inductive invariants.                                               *)

\* What carries the tag is ours, what is ours exists or existed, and a rule of
\* any gateway names an EIP of ours.
CloudSound ==
  /\ \A k \in Kinds, i \in IDs : /\ cloud[k][i].tagged => cloud[k][i].ours
                                 /\ cloud[k][i].ours => cloud[k][i].state # "unborn"
  /\ \A g \in IDs : cloud["nat"][g].rule # None => cloud["eip"][cloud["nat"][g].rule].ours

\* An ID of ours, or none.
OursOrNone(k, i) == i # None => cloud[k][i].ours

\* AdoptsOwned is not inductive: a pass begins with the IDs of the cache.
HeldOurs == \A k \in Kinds : /\ OursOrNone(k, obj.ids[k]) /\ OursOrNone(k, cache.ids[k])
                             /\ OursOrNone(k, mem.ids[k])

\* The VPC is recorded first, and only what the spec asks for is recorded.
WellRecorded(o) ==
  /\ o.ids["vpc"] = None => \A k \in Kinds : o.ids[k] = None
  /\ "nat" \notin features => o.ids["nat"] = None /\ o.ids["eip"] = None
  /\ "sg" \notin features => o.ids["sg"] = None

NatSteps == {"nat", "natEip", "natCreate", "snat"}
SgSteps == {"sg", "sgRules"}
NormalSteps == {"vpc", "subnet", "validate"} \cup NatSteps \cup SgSteps
DeleteSteps == {"dNat", "dRules", "dGateway", "dEip", "dSg", "dSubnet", "dVpc"}

\* Where a pass is says what its object looks like.
PassPlace ==
  /\ pc = "idle" => mem = Blank
  /\ pc \in NormalSteps => mem.finalizer /\ (pc # "vpc" => mem.ids["vpc"] # None)
  /\ pc \in NatSteps => "nat" \in features
  /\ pc \in SgSteps => "sg" \in features
  /\ pc \in DeleteSteps => mem.ids = base.ids
  /\ pc = "natEip" \/ pc = "natCreate" => mem.ids["nat"] = None

OursInv == TypeOK /\ CloudSound /\ HeldOurs /\ PassPlace

\* Records only grow: a pass keeps the IDs it read, and a kind recorded in a copy,
\* however stale, is recorded in the store.
Grown ==
  /\ pc \notin {"idle", "patchStatus"} =>
       \A k \in Kinds : base.ids[k] # None => mem.ids[k] = base.ids[k]
  /\ obj.exists => \A k \in Kinds :
       /\ cache.ids[k] # None => obj.ids[k] # None
       /\ pc # "idle" /\ base.ids[k] # None => obj.ids[k] # None

\* A deleting object carries the finalizer to its end.
Guarded(o) == o.deleting => o.finalizer

\* How far the teardown has come, unless a step of it failed.
TornDown ==
  /\ pc \in {"dRules", "dGateway", "dEip"} =>
       /\ mem.ids["nat"] # None => gw = mem.ids["nat"]
       /\ mem.ids["eip"] # None => addr = mem.ids["eip"]
  /\ ~failed =>
       /\ pc \in {"dEip", "dSg", "dSubnet", "dVpc"} => ~Live("nat", mem.ids["nat"])
       /\ pc \in {"dSg", "dSubnet", "dVpc"} => ~Live("eip", mem.ids["eip"])
       /\ pc \in {"dSubnet", "dVpc"} => ~Live("sg", mem.ids["sg"])
       /\ pc = "dVpc" => ~Live("subnet", mem.ids["subnet"])
  /\ pc = "patchObject" /\ ~mem.finalizer =>
       mem.ids = base.ids /\ \A k \in Kinds : ~Live(k, mem.ids[k])

RecordInv ==
  /\ WellRecorded(obj) /\ WellRecorded(cache) /\ WellRecorded(mem)
  /\ Guarded(obj) /\ Guarded(cache)
  /\ Grown /\ TornDown

-----------------------------------------------------------------------------
(* What the updates of the model do.                                       *)

\* The fields of an object have the types Object gives them.
LEMMA FieldTypes ==
  ASSUME NEW o \in Object
  PROVE  /\ o.exists \in BOOLEAN /\ o.deleting \in BOOLEAN /\ o.finalizer \in BOOLEAN
         /\ o.provisioned \in BOOLEAN /\ o.ids \in [Kinds -> Ref]
         /\ \A k \in Kinds : o.ids[k] \in Ref
  BY DEF Object

\* New objects, and none.
LEMMA NewObjects ==
  /\ Blank \in Object /\ [Blank EXCEPT !.exists = TRUE] \in Object
  /\ \A k \in Kinds : /\ Blank.ids[k] = None
                      /\ [Blank EXCEPT !.exists = TRUE].ids[k] = None
  /\ ~Blank.deleting /\ ~Blank.exists /\ ~Blank.finalizer
  /\ ~[Blank EXCEPT !.exists = TRUE].deleting
  BY DEF Blank, Object, Ref

\* Setting a flag yields an object with the same IDs.
LEMMA FlagUpdates ==
  ASSUME NEW o \in Object, NEW b \in BOOLEAN
  PROVE  /\ [o EXCEPT !.finalizer = b] \in Object
         /\ [o EXCEPT !.finalizer = b].ids = o.ids
         /\ [o EXCEPT !.finalizer = b].finalizer = b
         /\ [o EXCEPT !.provisioned = b] \in Object
         /\ [o EXCEPT !.provisioned = b].ids = o.ids
         /\ [o EXCEPT !.provisioned = b].finalizer = o.finalizer
         /\ [o EXCEPT !.provisioned = b].deleting = o.deleting
         /\ [o EXCEPT !.provisioned = b].exists = o.exists
         /\ [o EXCEPT !.deleting = b] \in Object
         /\ [o EXCEPT !.deleting = b].ids = o.ids
         /\ [o EXCEPT !.deleting = b].finalizer = o.finalizer
         /\ [o EXCEPT !.deleting = b].exists = o.exists
  BY DEF Object

\* Recording an ID changes that ID and nothing else.
LEMMA RecordedIDs ==
  ASSUME NEW o \in Object, NEW k \in Kinds, NEW i \in Ref
  PROVE  /\ Recorded(o, k, i) \in Object
         /\ Recorded(o, k, i).ids[k] = i
         /\ \A j \in Kinds : j # k => Recorded(o, k, i).ids[j] = o.ids[j]
         /\ Recorded(o, k, i).finalizer = o.finalizer
  BY DEF Object, Recorded

\* One resource replaced by another value, seen pointwise.
LEMMA Pointwise ==
  ASSUME NEW f \in [Kinds -> [IDs -> Resource]], NEW k \in Kinds, NEW i \in IDs,
         NEW v \in Resource
  PROVE  /\ [f EXCEPT ![k][i] = v] \in [Kinds -> [IDs -> Resource]]
         /\ \A l \in Kinds, j \in IDs :
              [f EXCEPT ![k][i] = v][l][j] = IF l = k /\ j = i THEN v ELSE f[l][j]
  OBVIOUS

\* What no step of anybody undoes: resources are ours for good, and come to
\* life and go once.
Forward == \A k \in Kinds, i \in IDs :
  /\ cloud[k][i].ours => cloud'[k][i].ours
  /\ cloud[k][i].state = "gone" => cloud'[k][i].state = "gone"
  /\ cloud[k][i].state # "unborn" => cloud'[k][i].state # "unborn"

CloudTyped == cloud \in [Kinds -> [IDs -> Resource]]

\* Nothing but resource i of kind k appears.
AppearsAt(k, i) == \A l \in Kinds, j \in IDs : Live(l, j)' => Live(l, j) \/ (l = k /\ j = i)
NothingAppears == \A l \in Kinds, j \in IDs : Live(l, j)' => Live(l, j)

\* The cloud moves on.
CloudMoves == CloudTyped' /\ Forward /\ CloudSound'

\* A change of one resource is such a move when the resource itself moves on.
LEMMA OneResource ==
  ASSUME CloudTyped, CloudSound, NEW k \in Kinds, NEW i \in IDs, NEW v \in Resource,
         cloud' = [cloud EXCEPT ![k][i] = v],
         cloud[k][i].ours => v.ours,
         cloud[k][i].state = "gone" => v.state = "gone",
         cloud[k][i].state # "unborn" => v.state # "unborn",
         v.tagged => v.ours, v.ours => v.state # "unborn",
         k = "nat" /\ v.rule # None => cloud["eip"][v.rule].ours
  PROVE  /\ CloudMoves /\ AppearsAt(k, i) /\ cloud'[k][i] = v
         /\ v.state = cloud[k][i].state \/ v.state = "gone" => NothingAppears
  <1>1. /\ CloudTyped'
        /\ \A l \in Kinds, j \in IDs :
             cloud'[l][j] = IF l = k /\ j = i THEN v ELSE cloud[l][j]
    BY Pointwise DEF CloudTyped
  <1>2. Forward
    BY <1>1 DEF Forward
  <1>3. \A l \in Kinds, j \in IDs : /\ cloud'[l][j].tagged => cloud'[l][j].ours
                                    /\ cloud'[l][j].ours => cloud'[l][j].state # "unborn"
    BY <1>1 DEF CloudSound
  <1>4. ASSUME NEW g \in IDs, cloud'["nat"][g].rule # None
        PROVE  cloud'["eip"][cloud'["nat"][g].rule].ours
    <2>0. "nat" \in Kinds /\ "eip" \in Kinds
      BY DEF Kinds
    <2>1. cloud'["nat"][g].rule \in IDs
      BY <1>1, <1>4, <2>0 DEF CloudTyped, Resource, Ref
    <2>2. cloud["eip"][cloud'["nat"][g].rule].ours
      BY <1>1, <1>4, <2>0 DEF CloudSound
    <2> QED BY <2>0, <2>1, <2>2, <1>2 DEF Forward
  <1>5. AppearsAt(k, i) /\ cloud'[k][i] = v
    BY <1>1 DEF AppearsAt, Live
  <1>6. v.state = cloud[k][i].state \/ v.state = "gone" => NothingAppears
    BY <1>1 DEF NothingAppears, Live
  <1> QED BY <1>1, <1>2, <1>3, <1>4, <1>5, <1>6 DEF CloudMoves, CloudSound

\* A cloud that stays as it is moves on too.
LEMMA CloudStays ==
  ASSUME CloudTyped, CloudSound, cloud' = cloud
  PROVE  CloudMoves /\ NothingAppears
  BY DEF CloudMoves, CloudTyped, Forward, CloudSound, NothingAppears, Live

\* A rule that is made, or taken away, names an EIP of ours or none.
LEMMA RuleChange ==
  ASSUME CloudTyped, CloudSound, NEW i \in IDs, NEW e \in Ref,
         e # None => cloud["eip"][e].ours,
         cloud' = [cloud EXCEPT !["nat"][i].rule = e]
  PROVE  CloudMoves /\ NothingAppears
  <1> DEFINE v == [cloud["nat"][i] EXCEPT !.rule = e]
  <1>0. "nat" \in Kinds /\ cloud["nat"][i] \in Resource
    BY DEF CloudTyped, Kinds
  <1>1. /\ v \in Resource /\ v.ours = cloud["nat"][i].ours /\ v.state = cloud["nat"][i].state
        /\ v.tagged = cloud["nat"][i].tagged /\ v.rule = e
    BY <1>0 DEF Resource
  <1>2. cloud' = [cloud EXCEPT !["nat"][i] = v]
    OBVIOUS
  <1>3. v.tagged => v.ours
    BY <1>0, <1>1 DEF CloudSound
  <1>4. v.ours => v.state # "unborn"
    BY <1>0, <1>1 DEF CloudSound
  <1>5. v.rule # None => cloud["eip"][v.rule].ours
    BY <1>1
  <1>6. /\ cloud["nat"][i].ours => v.ours
        /\ cloud["nat"][i].state = "gone" => v.state = "gone"
        /\ cloud["nat"][i].state # "unborn" => v.state # "unborn"
    BY <1>1
  <1>7. v \in Resource
    BY <1>1
  <1> HIDE DEF v
  <1>8. /\ CloudMoves
        /\ v.state = cloud["nat"][i].state \/ v.state = "gone" => NothingAppears
    BY <1>0, <1>2, <1>3, <1>4, <1>5, <1>6, <1>7, OneResource
  <1> QED BY <1>1, <1>8

\* The changes of the model.
LEMMA CloudChanges ==
  ASSUME CloudTyped, CloudSound, NEW k \in Kinds, NEW i \in IDs
  PROVE  /\ \A t \in BOOLEAN : ParentOf(k) \in Ref /\ Created(k, i, t)
              => CloudMoves /\ AppearsAt(k, i) /\ cloud'[k][i].ours
         /\ Live(k, i) /\ Removed(k, i) => CloudMoves /\ NothingAppears /\ ~Live(k, i)'
         /\ cloud[k][i].state = "unborn" /\ cloud' = [cloud EXCEPT ![k][i].state = "live"]
              => CloudMoves /\ AppearsAt(k, i)
  <1>0. cloud \in [Kinds -> [IDs -> Resource]] /\ cloud[k][i] \in Resource
    BY DEF CloudTyped
  <1>1. ASSUME NEW t \in BOOLEAN, ParentOf(k) \in Ref, Created(k, i, t)
        PROVE  CloudMoves /\ AppearsAt(k, i) /\ cloud'[k][i].ours
    <2> DEFINE v == [state |-> "live", ours |-> TRUE, tagged |-> t,
                     parent |-> ParentOf(k), rule |-> None]
    <2>1. v \in Resource /\ v.ours /\ v.state = "live" /\ v.rule = None
      BY <1>1 DEF Resource, Ref
    <2>2. cloud' = [cloud EXCEPT ![k][i] = v] /\ cloud[k][i].state = "unborn"
      BY <1>1 DEF Created
    <2> HIDE DEF v
    <2>3. CloudMoves /\ AppearsAt(k, i) /\ cloud'[k][i] = v
      BY <2>1, <2>2, OneResource
    <2> QED BY <2>1, <2>3
  <1>2. ASSUME Live(k, i), Removed(k, i)
        PROVE  CloudMoves /\ NothingAppears /\ ~Live(k, i)'
    <2> DEFINE v == [cloud[k][i] EXCEPT !.state = "gone"]
    <2>1. /\ v \in Resource /\ v.ours = cloud[k][i].ours /\ v.state = "gone"
          /\ v.tagged = cloud[k][i].tagged /\ v.rule = cloud[k][i].rule
      BY <1>0 DEF Resource
    <2>2. cloud' = [cloud EXCEPT ![k][i] = v]
      BY <1>2 DEF Removed
    <2>3. v.tagged => v.ours
      BY <1>0, <2>1 DEF CloudSound
    <2>4. k = "nat" /\ v.rule # None => cloud["eip"][v.rule].ours
      BY <1>0, <2>1 DEF CloudSound
    <2>5. /\ cloud[k][i].ours => v.ours
          /\ cloud[k][i].state = "gone" => v.state = "gone"
          /\ cloud[k][i].state # "unborn" => v.state # "unborn"
          /\ v.ours => v.state # "unborn"
      BY <2>1
    <2>t. v \in Resource
      BY <2>1
    <2> HIDE DEF v
    <2>6. /\ CloudMoves /\ cloud'[k][i] = v
          /\ v.state = cloud[k][i].state \/ v.state = "gone" => NothingAppears
      BY <2>2, <2>3, <2>4, <2>5, <2>t, OneResource
    <2> QED BY <2>1, <2>6 DEF Live
  <1>3. ASSUME cloud[k][i].state = "unborn", cloud' = [cloud EXCEPT ![k][i].state = "live"]
        PROVE  CloudMoves /\ AppearsAt(k, i)
    <2> DEFINE v == [cloud[k][i] EXCEPT !.state = "live"]
    <2>1. /\ v \in Resource /\ v.ours = cloud[k][i].ours /\ v.state = "live"
          /\ v.tagged = cloud[k][i].tagged /\ v.rule = cloud[k][i].rule
      BY <1>0 DEF Resource
    <2>2. cloud' = [cloud EXCEPT ![k][i] = v]
      BY <1>3
    <2>3. v.tagged => v.ours
      BY <1>0, <2>1 DEF CloudSound
    <2>4. k = "nat" /\ v.rule # None => cloud["eip"][v.rule].ours
      BY <1>0, <2>1 DEF CloudSound
    <2> HIDE DEF v
    <2> QED BY <1>3, <2>1, <2>2, <2>3, <2>4, OneResource
  <1> QED BY <1>1, <1>2, <1>3

-----------------------------------------------------------------------------
(* The steps of a pass.                                                    *)

\* Bounds are kept, and a loss is counted.
LEMMA BoundsKept ==
  ASSUME TypeOK
  PROVE  /\ Fault \/ Loss \/ Fine => faults' \in 0..MaxFaults /\ losses' \in 0..MaxLosses
         /\ Loss => losses' # losses
  BY BoundAssumption DEF TypeOK, CallFails, Fault, Loss, Fine

\* The steps of a normal pass after its first.
NormalWork ==
  \/ \E k \in {"vpc", "subnet", "sg"} : Ensure(k)
  \/ FindNatGateway \/ CreateEip \/ CreateNatGateway \/ EnsureSnatRules
  \/ EnsureSecurityGroupRules \/ Validate

\* An ID is recorded only by the step for it, and only where there was none.
MayRecord(k) ==
  /\ mem.ids[k] = None
  /\ k = "vpc" <=> pc = "vpc"
  /\ k \in {"nat", "eip"} => pc \in NatSteps
  /\ k = "sg" => pc = "sg"

\* What they do to the object in memory: nothing, or one more ID, of ours.
MemGrows ==
  \/ mem' = mem \/ mem' = [mem EXCEPT !.provisioned = TRUE]
  \/ \E k \in Kinds, i \in Ref :
       mem' = Recorded(mem, k, i) /\ MayRecord(k) /\ (i # None => cloud'[k][i].ours)

\* An EIP that appears is recorded, unless something is lost.
EipRecorded ==
  losses' = losses => \A i \in IDs : Live("eip", i)' /\ ~Live("eip", i)
                                      => mem.ids["eip"] = None /\ mem'.ids["eip"] = i

\* Where they lead: to a later step of the pass or to its end.
GoesOn ==
  \/ pc' = "patchObject"
  \/ /\ pc' \in NormalSteps \ {"vpc"}
     /\ pc' \in NatSteps => "nat" \in features
     /\ pc' \in SgSteps => "sg" \in features
     /\ pc' \in {"natEip", "natCreate"} => mem'.ids["nat"] = None
     /\ mem'.ids["vpc"] # None

\* All of it.
WorkShape ==
  /\ CloudMoves /\ MemGrows /\ EipRecorded /\ GoesOn
  /\ faults' \in 0..MaxFaults /\ losses' \in 0..MaxLosses
  /\ UNCHANGED <<features, consumer, obj, cache, base, gw, addr, failed>>

\* Ensure steps look for a resource, adopt one that carries the tag, or create one.
LEMMA EnsureShape ==
  ASSUME OursInv, NEW k \in {"vpc", "subnet", "sg"}, Ensure(k)
  PROVE  WorkShape
  <1>0. /\ TypeOK /\ CloudTyped /\ CloudSound /\ HeldOurs /\ PassPlace
        /\ mem \in Object /\ k \in Kinds /\ k # "eip"
    BY DEF OursInv, TypeOK, CloudTyped, Kinds
  <1>1. ParentOf(k) \in Ref /\ \A j \in Kinds : mem.ids[j] \in Ref
    BY <1>0, FieldTypes DEF ParentOf, ParentKind, Kinds, Ref
  <1>2. After(k) \in Steps
    BY DEF After, Steps
  <1>3. faults' \in 0..MaxFaults /\ losses' \in 0..MaxLosses
    BY <1>0, BoundsKept DEF Ensure
  <1>4. UNCHANGED <<features, consumer, obj, cache, base, gw, addr, failed>>
    BY DEF Ensure, Goto, Close
  <1>5. \/ /\ cloud' = cloud
           /\ \/ mem' = mem
              \/ \E i \in Found(k) : mem.ids[k] = None /\ requireOwned(k, i) /\ mem' = Recorded(mem, k, i)
        \/ \E i \in IDs : /\ Created(k, i, k # "sg")
                          /\ \/ mem' = mem
                             \/ mem.ids[k] = None /\ mem' = Recorded(mem, k, i)
    BY DEF Ensure, Goto, Close, Create
  <1>6. ASSUME cloud' = cloud
        PROVE  CloudMoves /\ NothingAppears
    BY <1>0, <1>6, CloudStays
  <1>7. ASSUME NEW i \in IDs, Created(k, i, k # "sg")
        PROVE  CloudMoves /\ AppearsAt(k, i) /\ cloud'[k][i].ours
    <2>1. (k # "sg") \in BOOLEAN
      OBVIOUS
    <2> QED BY <1>0, <1>1, <1>7, <2>1, CloudChanges
  <1>8. CloudMoves
    BY <1>5, <1>6, <1>7
  <1>9. EipRecorded
    BY <1>0, <1>5, <1>6, <1>7 DEF EipRecorded, NothingAppears, AppearsAt, Kinds
  <1>10. MemGrows
    <2>0. pc = k
      BY DEF Ensure
    <2>1. ASSUME NEW i \in Found(k), mem.ids[k] = None, requireOwned(k, i), cloud' = cloud,
                 mem' = Recorded(mem, k, i)
          PROVE  MemGrows
      <3>1. i \in IDs /\ cloud'[k][i].ours
        BY <1>0, <2>1 DEF Found, requireOwned, CloudSound
      <3> QED BY <1>0, <2>0, <2>1, <3>1 DEF MemGrows, MayRecord, Ref
    <2>2. ASSUME NEW i \in IDs, Created(k, i, k # "sg"), mem.ids[k] = None,
                 mem' = Recorded(mem, k, i)
          PROVE  MemGrows
      BY <1>0, <1>7, <2>0, <2>2 DEF MemGrows, MayRecord, Ref
    <2>3. ASSUME mem' = mem PROVE MemGrows
      BY <2>3 DEF MemGrows
    <2> QED BY <1>5, <2>1, <2>2, <2>3
  <1>11. GoesOn
    <2>1. pc' = "patchObject" \/ (pc' = After(k) /\ mem'.ids[k] # None)
      <3>1. \A i \in IDs : Recorded(mem, k, i).ids[k] = i /\ i # None
        BY <1>0, IdAssumption, RecordedIDs DEF Ref
      <3> QED BY <3>1 DEF Ensure, Goto, Close, Found
    <2>2. k # "vpc" => mem'.ids["vpc"] # None
      <3>1. k # "vpc" => mem.ids["vpc"] # None
        BY <1>0 DEF Ensure, PassPlace, NormalSteps, SgSteps
      <3>2. k # "vpc" => \A i \in IDs : Recorded(mem, k, i).ids["vpc"] = mem.ids["vpc"]
        <4>1. "vpc" \in Kinds /\ \A i \in IDs : i \in Ref
          BY DEF Kinds, Ref
        <4> QED BY <1>0, <4>1, RecordedIDs
      <3>3. mem' = mem \/ \E i \in IDs : mem' = Recorded(mem, k, i)
        BY <1>5 DEF Found
      <3> QED BY <3>1, <3>2, <3>3
    <2>3. After(k) \in {"subnet", "nat", "sg", "validate", "sgRules"}
          /\ (After(k) = "nat" => "nat" \in features)
          /\ (After(k) = "sg" => "sg" \in features)
          /\ (After(k) = "sgRules" => k = "sg")
      BY DEF After
    <2>4. k = "sg" => "sg" \in features
      BY <1>0 DEF Ensure, PassPlace, SgSteps
    <2> QED BY <2>1, <2>2, <2>3, <2>4 DEF GoesOn, NormalSteps, NatSteps, SgSteps
  <1> QED BY <1>3, <1>4, <1>8, <1>9, <1>10, <1>11 DEF WorkShape

\* The steps of the NAT gateway.
LEMMA NatShape ==
  ASSUME OursInv, FindNatGateway \/ CreateEip \/ CreateNatGateway
  PROVE  WorkShape
  <1>0. /\ TypeOK /\ CloudTyped /\ CloudSound /\ HeldOurs /\ PassPlace
        /\ mem \in Object /\ "nat" \in Kinds /\ "eip" \in Kinds /\ "vpc" \in Kinds
    BY DEF OursInv, TypeOK, CloudTyped, Kinds
  <1>1. /\ ParentOf("nat") \in Ref /\ ParentOf("eip") \in Ref
        /\ \A i \in IDs : i \in Ref /\ i # None
    BY <1>0, IdAssumption, FieldTypes DEF ParentOf, ParentKind, Kinds, Ref
  <1>2. pc \in NatSteps /\ "nat" \in features /\ mem.ids["vpc"] # None
    BY <1>0 DEF FindNatGateway, CreateEip, CreateNatGateway, PassPlace, NatSteps, NormalSteps
  <1>3. UNCHANGED <<features, consumer, obj, cache, base, gw, addr, failed>>
    BY DEF FindNatGateway, CreateEip, CreateNatGateway, Goto, Close
  <1>4. \A i \in IDs, k \in {"nat", "eip"} :
          /\ Recorded(mem, k, i).ids["vpc"] # None /\ Recorded(mem, k, i).ids[k] = i
          /\ Recorded(mem, "eip", i).ids["nat"] = mem.ids["nat"]
    <2>1. \A i \in IDs : /\ Recorded(mem, "nat", i).ids["vpc"] = mem.ids["vpc"]
                         /\ Recorded(mem, "nat", i).ids["nat"] = i
      BY <1>0, <1>1, RecordedIDs
    <2>2. \A i \in IDs : /\ Recorded(mem, "eip", i).ids["vpc"] = mem.ids["vpc"]
                         /\ Recorded(mem, "eip", i).ids["nat"] = mem.ids["nat"]
                         /\ Recorded(mem, "eip", i).ids["eip"] = i
      <3> SUFFICES ASSUME NEW i \in IDs
                   PROVE  /\ Recorded(mem, "eip", i).ids["vpc"] = mem.ids["vpc"]
                          /\ Recorded(mem, "eip", i).ids["nat"] = mem.ids["nat"]
                          /\ Recorded(mem, "eip", i).ids["eip"] = i
        OBVIOUS
      <3>1. i \in Ref
        BY <1>1
      <3> QED BY <1>0, <3>1, RecordedIDs
    <2> QED BY <1>2, <2>1, <2>2
  <1>s. cloud' = cloud => CloudMoves /\ NothingAppears
    BY <1>0, CloudStays
  <1>5. CASE FindNatGateway
    <2>1. CloudMoves /\ NothingAppears
      BY <1>5, <1>s DEF FindNatGateway
    <2>2. faults' \in 0..MaxFaults /\ losses' \in 0..MaxLosses
      BY <1>0, <1>5, BoundsKept DEF FindNatGateway
    <2>3. /\ pc = "nat" /\ cloud' = cloud
          /\ \/ mem' = mem /\ pc' \in {"patchObject", "snat"}
             \/ mem' = mem /\ mem.ids["nat"] = None /\ pc' = "natEip"
             \/ \E i \in Found("nat") : /\ mem.ids["nat"] = None /\ requireOwned("nat", i)
                                        /\ mem' = Recorded(mem, "nat", i) /\ pc' = "snat"
      BY <1>5 DEF FindNatGateway, Goto, Close
    <2>4. \A i \in Found("nat") : i \in IDs /\ (requireOwned("nat", i) => cloud["nat"][i].ours)
      BY <1>0 DEF Found, requireOwned, CloudSound
    <2>5. MemGrows
      BY <1>0, <1>1, <1>2, <2>3, <2>4 DEF MemGrows, MayRecord
    <2>6. GoesOn
      BY <1>2, <1>4, <2>3, <2>4 DEF GoesOn, NormalSteps, NatSteps, SgSteps
    <2>7. EipRecorded
      BY <1>0, <2>1 DEF EipRecorded, NothingAppears
    <2> QED BY <1>3, <2>1, <2>2, <2>5, <2>6, <2>7 DEF WorkShape
  <1>6. CASE CreateEip
    <2>2. faults' \in 0..MaxFaults /\ losses' \in 0..MaxLosses
      <3>1. Fault \/ Loss \/ Fine \/ (faults + 1 < MaxFaults /\ faults' = faults + 2 /\ UNCHANGED losses)
        BY <1>6 DEF CreateEip
      <3> QED BY <1>0, <3>1, BoundsKept, BoundAssumption DEF TypeOK
    <2>3. /\ pc = "natEip"
          /\ \/ cloud' = cloud /\ mem' = mem /\ pc' \in {"patchObject", "natCreate"}
             \/ \E i \in IDs, t \in BOOLEAN :
                  /\ Created("eip", i, t) /\ mem.ids["eip"] = None
                  /\ \/ mem' = Recorded(mem, "eip", i) /\ pc' \in {"patchObject", "natCreate"}
                     \/ Loss /\ mem' = mem /\ pc' = "patchObject"
      BY <1>6 DEF CreateEip, Goto, Close, KeepsUntagged
    <2>n. mem.ids["nat"] = None
      BY <1>0, <2>3 DEF PassPlace
    <2>4. \A i \in IDs, t \in BOOLEAN :
            Created("eip", i, t) => CloudMoves /\ AppearsAt("eip", i) /\ cloud'["eip"][i].ours
      BY <1>0, <1>1, CloudChanges
    <2>5. CloudMoves
      BY <1>s, <2>3, <2>4
    <2>6. MemGrows
      BY <1>0, <1>1, <1>2, <2>3, <2>4 DEF MemGrows, MayRecord
    <2>7. GoesOn
      BY <1>2, <1>4, <2>3, <2>n DEF GoesOn, NormalSteps, NatSteps, SgSteps
    <2>8. EipRecorded
      <3>1. ASSUME cloud' = cloud PROVE EipRecorded
        BY <1>0, <1>s, <3>1 DEF EipRecorded, NothingAppears
      <3>2. ASSUME NEW i \in IDs, NEW t \in BOOLEAN, Created("eip", i, t),
                   mem.ids["eip"] = None, mem' = Recorded(mem, "eip", i)
            PROVE  EipRecorded
        BY <1>0, <1>4, <2>4, <3>2 DEF EipRecorded, AppearsAt
      <3>3. ASSUME Loss PROVE EipRecorded
        BY <1>0, <3>3, BoundsKept DEF EipRecorded
      <3> QED BY <2>3, <3>1, <3>2, <3>3
    <2> QED BY <1>3, <2>2, <2>5, <2>6, <2>7, <2>8 DEF WorkShape
  <1>7. CASE CreateNatGateway
    <2>2. faults' \in 0..MaxFaults /\ losses' \in 0..MaxLosses
      BY <1>0, <1>7, BoundsKept DEF CreateNatGateway
    <2>3. /\ pc = "natCreate"
          /\ \/ cloud' = cloud /\ mem' = mem /\ pc' = "patchObject"
             \/ \E i \in IDs : /\ Created("nat", i, TRUE)
                               /\ \/ mem' = Recorded(mem, "nat", i) /\ pc' = "snat"
                                  \/ mem' = mem /\ pc' = "patchObject"
      BY <1>7 DEF CreateNatGateway, Create, Goto, Close
    <2>n. mem.ids["nat"] = None
      BY <1>0, <2>3 DEF PassPlace
    <2>4. \A i \in IDs : Created("nat", i, TRUE)
                           => CloudMoves /\ AppearsAt("nat", i) /\ cloud'["nat"][i].ours
      BY <1>0, <1>1, CloudChanges
    <2>5. CloudMoves
      BY <1>s, <2>3, <2>4
    <2>6. MemGrows
      BY <1>0, <1>1, <1>2, <2>3, <2>4, <2>n DEF MemGrows, MayRecord
    <2>7. GoesOn
      BY <1>2, <1>4, <2>3 DEF GoesOn, NormalSteps, NatSteps, SgSteps
    <2>8. EipRecorded
      BY <1>0, <1>s, <2>3, <2>4 DEF EipRecorded, NothingAppears, AppearsAt
    <2> QED BY <1>3, <2>2, <2>5, <2>6, <2>7, <2>8 DEF WorkShape
  <1> QED BY <1>5, <1>6, <1>7

\* The SNAT rule: a lost EIP comes back from the rule of a gateway of ours.
LEMMA SnatShape ==
  ASSUME OursInv, EnsureSnatRules
  PROVE  WorkShape
  <1> DEFINE g == mem.ids["nat"]
             rule == IF g \in IDs THEN cloud["nat"][g].rule ELSE None
             o == IF mem.ids["eip"] = None THEN Recorded(mem, "eip", rule) ELSE mem
  <1>0. /\ TypeOK /\ CloudTyped /\ CloudSound /\ HeldOurs /\ PassPlace
        /\ mem \in Object /\ "nat" \in Kinds /\ "eip" \in Kinds /\ "vpc" \in Kinds
    BY DEF OursInv, TypeOK, CloudTyped, Kinds
  <1>1. /\ rule \in Ref /\ (rule # None => cloud["eip"][rule].ours)
        /\ rule # None => rule \in IDs
    BY <1>0, IdAssumption DEF CloudTyped, CloudSound, Resource, Ref
  <1>2. pc = "snat" /\ pc \in NatSteps /\ "nat" \in features /\ mem.ids["vpc"] # None
    BY <1>0 DEF EnsureSnatRules, PassPlace, NatSteps, NormalSteps
  <1>3. /\ o \in Object /\ o.ids["vpc"] = mem.ids["vpc"] /\ o.ids["eip"] \in Ref
        /\ OursOrNone("eip", o.ids["eip"])
    <2>1. CASE mem.ids["eip"] = None
      <3>1. o = Recorded(mem, "eip", rule)
        BY <2>1
      <3> HIDE DEF rule, o
      <3> QED BY <1>0, <1>1, <3>1, RecordedIDs DEF OursOrNone
    <2>2. CASE mem.ids["eip"] # None
      <3>1. o = mem
        BY <2>2
      <3> HIDE DEF rule, o
      <3> QED BY <1>0, <3>1, FieldTypes DEF HeldOurs
    <2> QED BY <2>1, <2>2
  <1>4. o = mem \/ (mem.ids["eip"] = None /\ o = Recorded(mem, "eip", rule))
    OBVIOUS
  <1>5. faults' \in 0..MaxFaults /\ losses' \in 0..MaxLosses
    BY <1>0, BoundsKept DEF EnsureSnatRules
  <1>6. UNCHANGED <<features, consumer, obj, cache, base, gw, addr, failed>>
    BY DEF EnsureSnatRules, Goto, Close
  <1>7. /\ mem' \in {mem, o} /\ pc' \in {"patchObject", After("snat")}
        /\ cloud' = cloud \/ (g \in IDs /\ cloud' = [cloud EXCEPT !["nat"][g].rule = o.ids["eip"]])
    BY DEF EnsureSnatRules, Goto, Close, Live
  <1> HIDE DEF rule, o
  <1>8. CloudMoves /\ NothingAppears
    <2>1. CASE cloud' = cloud
      BY <1>0, <2>1, CloudStays
    <2>2. CASE g \in IDs /\ cloud' = [cloud EXCEPT !["nat"][g].rule = o.ids["eip"]]
      <3>1. o.ids["eip"] # None => cloud["eip"][o.ids["eip"]].ours
        BY <1>3 DEF OursOrNone
      <3> HIDE DEF g
      <3> QED BY <1>0, <1>3, <2>2, <3>1, RuleChange
    <2> QED BY <1>7, <2>1, <2>2
  <1>9. MemGrows
    <2>1. rule # None => cloud'["eip"][rule].ours
      BY <1>0, <1>1, <1>8 DEF CloudMoves, Forward
    <2> QED BY <1>0, <1>1, <1>2, <1>4, <1>7, <2>1 DEF MemGrows, MayRecord
  <1>10. GoesOn
    <2>1. After("snat") \in {"sg", "validate"} /\ (After("snat") = "sg" => "sg" \in features)
      BY DEF After
    <2> QED BY <1>2, <1>3, <1>7, <2>1 DEF GoesOn, NormalSteps, NatSteps, SgSteps
  <1>11. EipRecorded
    BY <1>0, <1>8 DEF EipRecorded, NothingAppears
  <1> QED BY <1>5, <1>6, <1>8, <1>9, <1>10, <1>11 DEF WorkShape

\* Every step of a normal pass after its first.
LEMMA NormalShape ==
  ASSUME OursInv, NormalWork
  PROVE  WorkShape
  <1>0. /\ TypeOK /\ CloudTyped /\ CloudSound /\ PassPlace /\ "eip" \in Kinds
    BY DEF OursInv, TypeOK, CloudTyped, Kinds
  <1>1. CASE EnsureSecurityGroupRules \/ Validate
    <2>1. CloudMoves /\ NothingAppears
      BY <1>0, <1>1, CloudStays DEF EnsureSecurityGroupRules, Validate
    <2>2. faults' \in 0..MaxFaults /\ losses' \in 0..MaxLosses
      BY <1>0, <1>1, BoundsKept DEF EnsureSecurityGroupRules, Validate
    <2>3. UNCHANGED <<features, consumer, obj, cache, base, gw, addr, failed>>
      BY <1>1 DEF EnsureSecurityGroupRules, Validate, Goto, Close
    <2>4. \/ mem' = mem /\ pc' \in {"patchObject", "validate"}
          \/ mem' = [mem EXCEPT !.provisioned = TRUE] /\ pc' = "patchObject"
      BY <1>1 DEF EnsureSecurityGroupRules, Validate, Goto, Close
    <2>5. mem.ids["vpc"] # None
      BY <1>0, <1>1 DEF EnsureSecurityGroupRules, Validate, PassPlace, NormalSteps, SgSteps
    <2>6. MemGrows
      BY <2>4 DEF MemGrows
    <2>7. GoesOn
      BY <2>4, <2>5 DEF GoesOn, NormalSteps, NatSteps, SgSteps
    <2>8. EipRecorded
      BY <1>0, <2>1 DEF EipRecorded, NothingAppears
    <2> QED BY <2>1, <2>2, <2>3, <2>6, <2>7, <2>8 DEF WorkShape
  <1> QED BY <1>1, EnsureShape, NatShape, SnatShape DEF NormalWork

\* The steps of a teardown after its first.
DeleteWork ==
  \/ ResolveNat \/ DeleteSnatRules \/ DeleteNatGateway \/ DeleteEip
  \/ DeleteSecurityGroup \/ DeleteSubnet \/ DeleteVpc

\* They leave the IDs alone, and only the last one touches the finalizer.
DeleteShape ==
  /\ CloudMoves /\ NothingAppears
  /\ faults' \in 0..MaxFaults /\ losses' \in 0..MaxLosses
  /\ UNCHANGED <<features, consumer, obj, cache, base>>
  /\ pc \in DeleteSteps
  /\ \/ pc' \in DeleteSteps /\ mem' = mem
     \/ pc = "dVpc" /\ pc' = "patchObject" /\ mem' = [mem EXCEPT !.finalizer = failed']
  /\ gw' \in Ref /\ addr' \in Ref /\ failed' \in BOOLEAN /\ (failed => failed')

\* One deletion: without a failure the target is gone.
LEMMA OneDelete ==
  ASSUME OursInv, NEW k \in Kinds, NEW i \in Ref, NEW step, NEW next, Delete(k, i, step, next)
  PROVE  /\ CloudMoves /\ NothingAppears
         /\ failed' \in BOOLEAN /\ (failed => failed') /\ (~failed' => ~Live(k, i)')
         /\ faults' \in 0..MaxFaults /\ losses' \in 0..MaxLosses
         /\ pc = step /\ pc' = next
         /\ UNCHANGED <<features, consumer, obj, cache, base, gw, addr>>
  <1>0. TypeOK /\ CloudTyped /\ CloudSound /\ failed \in BOOLEAN
    BY DEF OursInv, TypeOK, CloudTyped
  <1>1. /\ pc = step /\ pc' = next
        /\ UNCHANGED <<features, consumer, obj, cache, base, gw, addr>>
    BY DEF Delete
  <1>2. /\ cloud' = cloud \/ (Live(k, i) /\ Removed(k, i))
        /\ failed' \in BOOLEAN /\ (failed => failed')
        /\ ~failed' => (~Live(k, i) /\ cloud' = cloud) \/ (Live(k, i) /\ Removed(k, i))
    <2>1. Collected(TRUE) = TRUE
      BY DEF Collected
    <2>2. \/ ~Live(k, i) /\ failed' = failed /\ cloud' = cloud
          \/ Live(k, i) /\ failed' = failed /\ Removed(k, i)
          \/ failed' = TRUE /\ cloud' = cloud
          \/ failed' = TRUE /\ Live(k, i) /\ Removed(k, i)
      BY <2>1 DEF Delete, AlreadyGone
    <2> QED BY <1>0, <2>2
  <1>3. ASSUME cloud' = cloud PROVE CloudMoves /\ NothingAppears
    BY <1>0, <1>3, CloudStays
  <1>4. ASSUME Live(k, i), Removed(k, i) PROVE CloudMoves /\ NothingAppears /\ ~Live(k, i)'
    <2>1. i \in IDs
      BY <1>4 DEF Live
    <2> QED BY <1>0, <1>4, <2>1, CloudChanges
  <1>5. ASSUME ~Live(k, i), cloud' = cloud PROVE ~Live(k, i)'
    BY <1>5 DEF Live
  <1>6. Fine \/ Loss \/ Fault
    BY DEF Delete
  <1>7. faults' \in 0..MaxFaults /\ losses' \in 0..MaxLosses
    BY <1>0, <1>6, BoundsKept
  <1> QED BY <1>1, <1>2, <1>3, <1>4, <1>5, <1>7

\* Every step of a teardown after its first.
LEMMA TeardownShape ==
  ASSUME OursInv, DeleteWork
  PROVE  DeleteShape
  <1>0. /\ TypeOK /\ CloudTyped /\ CloudSound /\ mem \in Object /\ gw \in Ref /\ addr \in Ref
        /\ failed \in BOOLEAN /\ None \in Ref /\ "nat" \in Kinds
    BY DEF OursInv, TypeOK, CloudTyped, Kinds, Ref
  <1>i. \A k \in Kinds : mem.ids[k] \in Ref
    BY <1>0, FieldTypes
  <1>s. ASSUME cloud' = cloud PROVE CloudMoves /\ NothingAppears
    BY <1>0, <1>s, CloudStays
  <1>1. CASE ResolveNat
    <2>1. cloud' = cloud /\ mem' = mem /\ pc = "dNat" /\ pc' \in {"dRules", "dSg"}
      BY <1>1 DEF ResolveNat
    <2>2. gw' \in Ref
      BY <1>0, <1>1, <1>i DEF ResolveNat, Found, Ref, Kinds
    <2>3. addr' \in Ref
      <3>1. \A g \in Ref : EipToRelease(g) \in Ref
        BY <1>0, <1>i DEF EipToRelease, CloudTyped, Resource, Kinds, Ref
      <3> QED BY <1>0, <1>1, <1>i, <2>2, <3>1 DEF ResolveNat, Kinds
    <2>4. faults' \in 0..MaxFaults /\ losses' \in 0..MaxLosses
      BY <1>0, <1>1, BoundsKept DEF ResolveNat
    <2>5. UNCHANGED <<features, consumer, obj, cache, base, failed>>
      BY <1>1 DEF ResolveNat
    <2> QED BY <1>0, <1>s, <2>1, <2>2, <2>3, <2>4, <2>5 DEF DeleteShape, DeleteSteps
  <1>2. CASE DeleteSnatRules
    <2>1. \/ cloud' = cloud
          \/ gw # None /\ cloud' = [cloud EXCEPT !["nat"][gw].rule = None]
      BY <1>2 DEF DeleteSnatRules
    <2>2. ASSUME gw # None, cloud' = [cloud EXCEPT !["nat"][gw].rule = None]
          PROVE  CloudMoves /\ NothingAppears
      <3>1. gw \in IDs
        BY <1>0, <2>2 DEF Ref
      <3> QED BY <1>0, <2>2, <3>1, RuleChange
    <2>3. faults' \in 0..MaxFaults /\ losses' \in 0..MaxLosses
      BY <1>0, <1>2, BoundsKept DEF DeleteSnatRules
    <2>4. failed' \in BOOLEAN /\ (failed => failed')
      BY <1>0, <1>2 DEF DeleteSnatRules, Collected
    <2>5. /\ UNCHANGED <<features, consumer, obj, cache, base, gw, addr, mem>>
          /\ pc = "dRules" /\ pc' = "dGateway"
      BY <1>2 DEF DeleteSnatRules
    <2> QED BY <1>0, <1>s, <2>1, <2>2, <2>3, <2>4, <2>5 DEF DeleteShape, DeleteSteps
  <1>3. CASE DeleteNatGateway
    BY <1>0, <1>3, OneDelete DEF DeleteNatGateway, DeleteShape, DeleteSteps
  <1>4. CASE DeleteEip
    BY <1>0, <1>4, OneDelete DEF DeleteEip, DeleteShape, DeleteSteps, Kinds
  <1>5. CASE DeleteSecurityGroup
    <2>1. PICK i \in Ref : Delete("sg", i, "dSg", "dSubnet")
      BY <1>0, <1>i, <1>5 DEF DeleteSecurityGroup, Kinds
    <2> QED BY <1>0, <1>5, <2>1, OneDelete DEF DeleteSecurityGroup, DeleteShape, DeleteSteps, Kinds
  <1>6. CASE DeleteSubnet
    BY <1>0, <1>i, <1>6, OneDelete DEF DeleteSubnet, DeleteShape, DeleteSteps, Kinds
  <1>7. CASE DeleteVpc
    BY <1>0, <1>i, <1>7, OneDelete DEF DeleteVpc, DeleteShape, DeleteSteps, Kinds
  <1> QED BY <1>1, <1>2, <1>3, <1>4, <1>5, <1>6, <1>7 DEF DeleteWork

\* The first step of a pass copies the cache.
StartShape ==
  /\ pc = "idle" /\ base' = cache /\ mem' \in Object /\ mem'.ids = cache.ids
  /\ faults' \in 0..MaxFaults /\ losses' \in 0..MaxLosses
  /\ UNCHANGED <<features, consumer, obj, cache, cloud, gw, addr, failed>>
  /\ \/ pc' = "vpc" /\ mem'.finalizer
     \/ pc' = "dNat" /\ mem'.ids["vpc"] # None
     \/ /\ pc' = "patchObject"
        /\ mem'.finalizer \/ cache.ids["vpc"] = None \/ (mem' = cache /\ cache.deleting)

\* StartNormal and StartDelete do.
LEMMA Starts ==
  ASSUME TypeOK, StartNormal \/ StartDelete
  PROVE  StartShape
  <1>0. /\ cache \in Object
        /\ [cache EXCEPT !.finalizer = TRUE] \in Object
        /\ [cache EXCEPT !.finalizer = TRUE].ids = cache.ids
        /\ [cache EXCEPT !.finalizer = TRUE].finalizer
        /\ [cache EXCEPT !.finalizer = FALSE] \in Object
        /\ [cache EXCEPT !.finalizer = FALSE].ids = cache.ids
    BY FlagUpdates DEF TypeOK
  <1>b. faults' \in 0..MaxFaults /\ losses' \in 0..MaxLosses
    <2>1. NoFault \/ CallFails => faults' \in 0..MaxFaults
      BY BoundAssumption DEF TypeOK, NoFault, CallFails
    <2>2. Reads => losses' \in 0..MaxLosses
      BY BoundAssumption DEF TypeOK, Reads
    <2> QED BY <2>1, <2>2 DEF StartNormal, StartDelete
  <1>1. CASE StartNormal
    <2>2. mem' \in Object /\ mem'.ids = cache.ids /\ mem'.finalizer
      BY <1>0, <1>1 DEF StartNormal
    <2>3. /\ pc = "idle" /\ base' = cache /\ pc' \in {"vpc", "patchObject"}
          /\ UNCHANGED <<features, consumer, obj, cache, cloud, gw, addr, failed>>
      BY <1>1 DEF StartNormal, Reads
    <2> QED BY <1>b, <2>2, <2>3 DEF StartShape
  <1>2. CASE StartDelete
    BY <1>0, <1>2, <1>b DEF StartDelete, StartShape, Reads
  <1> QED BY <1>1, <1>2

\* The object patch stores what the pass changed, or takes the object away.
PatchShape ==
  /\ pc = "patchObject" /\ pc' = "patchStatus"
  /\ faults' \in 0..MaxFaults /\ losses' \in 0..MaxLosses /\ (Loss => losses' # losses)
  /\ UNCHANGED <<features, consumer, cache, cloud, mem, base, gw, addr, failed>>
  /\ obj' \in Object
  /\ \/ obj' = obj /\ (obj.exists => Loss)
     \/ obj.exists /\ obj' = Blank /\ obj.deleting
          /\ ~Merged(mem.finalizer, base.finalizer, obj.finalizer)
     \/ /\ obj.exists /\ obj'.exists /\ obj'.deleting = obj.deleting
        /\ obj.deleting => obj'.finalizer
        /\ \A k \in Kinds : obj'.ids[k] = Merged(mem.ids[k], base.ids[k], obj.ids[k])

\* PatchObject does.
LEMMA Patches ==
  ASSUME TypeOK, PatchObject
  PROVE  PatchShape
  <1> DEFINE fin == Merged(mem.finalizer, base.finalizer, obj.finalizer)
             ids == [k \in Kinds |-> Merged(mem.ids[k], base.ids[k], obj.ids[k])]
             new == [obj EXCEPT !.finalizer = fin, !.ids = ids]
  <1>0. obj \in Object /\ mem \in Object /\ base \in Object
    BY DEF TypeOK
  <1>1. fin \in BOOLEAN /\ ids \in [Kinds -> Ref]
    BY <1>0, FieldTypes DEF Merged
  <1>2. /\ new \in Object /\ new.ids = ids /\ new.finalizer = fin
        /\ new.deleting = obj.deleting /\ new.exists = obj.exists
    <2> HIDE DEF fin, ids
    <2> QED BY <1>0, <1>1 DEF Object
  <1>3. \/ obj.exists /\ obj.deleting /\ ~fin /\ obj' = Blank
        \/ obj.exists /\ ~(obj.deleting /\ ~fin) /\ obj' = new
        \/ ~obj.exists /\ obj' = obj
        \/ Loss /\ obj' = obj
    BY DEF PatchObject
  <1>4. Fine \/ Loss
    BY DEF PatchObject
  <1>5. faults' \in 0..MaxFaults /\ losses' \in 0..MaxLosses /\ (Loss => losses' # losses)
    BY <1>4, BoundsKept
  <1>6. /\ pc = "patchObject" /\ pc' = "patchStatus"
        /\ UNCHANGED <<features, consumer, cache, cloud, mem, base, gw, addr, failed>>
    BY DEF PatchObject
  <1>7. obj' \in Object
    BY <1>0, <1>2, <1>3, NewObjects
  <1>8. obj' = new => \A k \in Kinds : obj'.ids[k] = Merged(mem.ids[k], base.ids[k], obj.ids[k])
    BY <1>2
  <1>9. obj' = new => /\ obj'.finalizer = fin /\ obj'.deleting = obj.deleting
                      /\ obj'.exists = obj.exists
    BY <1>2
  <1> HIDE DEF new, ids
  <1> QED BY <1>3, <1>5, <1>6, <1>7, <1>8, <1>9 DEF PatchShape

\* The status patch, a crash, and the surroundings.
OtherShape ==
  /\ CloudMoves
  /\ \A i \in IDs : Live("eip", i)' => Live("eip", i)
  /\ faults' \in 0..MaxFaults /\ losses' \in 0..MaxLosses
  /\ UNCHANGED features /\ consumer' \in BOOLEAN
  /\ obj' \in Object /\ cache' \in {cache, obj}
  /\ \/ obj' = Blank /\ ~obj.finalizer
     \/ /\ obj'.ids = obj.ids /\ obj'.exists = obj.exists /\ obj'.finalizer = obj.finalizer
        /\ obj'.deleting = obj.deleting \/ obj'.finalizer
  /\ UNCHANGED passVars \/ (EndPass /\ (losses' = losses => pc = "patchStatus"))

\* All of these do.
LEMMA Others ==
  ASSUME OursInv,
         \/ PatchStatus \/ UserDelete \/ ControlPlaneGone \/ CacheSync \/ Crash
         \/ \E k \in {"vpc", "nat"}, i \in IDs : Stranger(k, i)
  PROVE  OtherShape
  <1>0. /\ TypeOK /\ CloudTyped /\ CloudSound /\ obj \in Object /\ mem \in Object /\ base \in Object
        /\ "eip" \in Kinds /\ consumer \in BOOLEAN /\ faults \in 0..MaxFaults
        /\ losses \in 0..MaxLosses
    BY DEF OursInv, TypeOK, CloudTyped, Kinds
  <1>s. ASSUME cloud' = cloud
        PROVE  CloudMoves /\ \A i \in IDs : Live("eip", i)' => Live("eip", i)
    BY <1>0, <1>s, CloudStays DEF NothingAppears
  <1>1. CASE PatchStatus
    <2>1. Merged(mem.provisioned, base.provisioned, obj.provisioned) \in BOOLEAN
      BY <1>0, FieldTypes DEF Merged
    <2>2. \/ obj' = obj
          \/ obj' = [obj EXCEPT !.provisioned = Merged(mem.provisioned, base.provisioned, obj.provisioned)]
      BY <1>1 DEF PatchStatus
    <2>3. /\ obj' \in Object /\ obj'.ids = obj.ids /\ obj'.exists = obj.exists
          /\ obj'.finalizer = obj.finalizer /\ obj'.deleting = obj.deleting
      <3> DEFINE b == Merged(mem.provisioned, base.provisioned, obj.provisioned)
      <3>1. b \in BOOLEAN
        BY <2>1
      <3> HIDE DEF b
      <3>2. /\ [obj EXCEPT !.provisioned = b] \in Object
            /\ [obj EXCEPT !.provisioned = b].ids = obj.ids
            /\ [obj EXCEPT !.provisioned = b].exists = obj.exists
            /\ [obj EXCEPT !.provisioned = b].finalizer = obj.finalizer
            /\ [obj EXCEPT !.provisioned = b].deleting = obj.deleting
        BY <1>0, <3>1 DEF Object
      <3>3. obj' = obj \/ obj' = [obj EXCEPT !.provisioned = b]
        BY <2>2 DEF b
      <3> QED BY <1>0, <3>2, <3>3
    <2>4. faults' \in 0..MaxFaults /\ losses' \in 0..MaxLosses
      BY <1>0, <1>1, BoundsKept DEF PatchStatus
    <2> QED BY <1>0, <1>1, <1>s, <2>3, <2>4 DEF PatchStatus, OtherShape
  <1>2. CASE UserDelete
    <2>1. \/ obj' = Blank /\ ~obj.finalizer
          \/ obj' = [obj EXCEPT !.deleting = TRUE] /\ obj.finalizer
      BY <1>0, <1>2, FieldTypes DEF UserDelete
    <2>2. [obj EXCEPT !.deleting = TRUE] \in Object
          /\ [obj EXCEPT !.deleting = TRUE].ids = obj.ids
          /\ [obj EXCEPT !.deleting = TRUE].exists = obj.exists
          /\ [obj EXCEPT !.deleting = TRUE].finalizer = obj.finalizer
      BY <1>0, FlagUpdates
    <2>3. /\ obj' \in Object
          /\ \/ obj' = Blank /\ ~obj.finalizer
             \/ /\ obj'.ids = obj.ids /\ obj'.exists = obj.exists
                /\ obj'.finalizer = obj.finalizer /\ obj'.finalizer
      BY <2>1, <2>2, NewObjects
    <2>4. cloud' = cloud
      BY <1>2 DEF UserDelete
    <2> QED BY <1>0, <1>2, <1>s, <2>3, <2>4 DEF UserDelete, OtherShape
  <1>3. CASE ControlPlaneGone
    BY <1>0, <1>3, <1>s DEF ControlPlaneGone, OtherShape
  <1>4. CASE CacheSync
    BY <1>0, <1>4, <1>s DEF CacheSync, OtherShape
  <1>5. CASE Crash
    <2>1. faults' \in 0..MaxFaults /\ losses' \in 0..MaxLosses /\ losses' # losses
      BY <1>0, <1>5, BoundsKept DEF Crash
    <2> QED BY <1>0, <1>5, <1>s, <2>1 DEF Crash, OtherShape
  <1>6. CASE \E k \in {"vpc", "nat"}, i \in IDs : Stranger(k, i)
    <2>1. PICK k \in {"vpc", "nat"}, i \in IDs : Stranger(k, i)
      BY <1>6
    <2>2. k \in Kinds /\ k # "eip"
      BY DEF Kinds
    <2>3. CloudMoves /\ AppearsAt(k, i)
      BY <1>0, <2>1, <2>2, CloudChanges DEF Stranger
    <2>4. \A j \in IDs : Live("eip", j)' => Live("eip", j)
      BY <1>0, <2>2, <2>3 DEF AppearsAt
    <2>5. faults' \in 0..MaxFaults /\ losses' \in 0..MaxLosses
      BY <1>0, <2>1, BoundsKept DEF Stranger
    <2> QED BY <1>0, <2>1, <2>3, <2>4, <2>5 DEF Stranger, OtherShape
  <1> QED BY <1>1, <1>2, <1>3, <1>4, <1>5, <1>6

\* The shapes cover the specification.
LEMMA Shapes ==
  ASSUME OursInv, Next
  PROVE  \/ StartShape \/ (WorkShape /\ NormalWork) \/ (DeleteShape /\ DeleteWork)
         \/ PatchShape \/ OtherShape
  <1>1. TypeOK
    BY DEF OursInv
  <1>2. \/ StartNormal \/ StartDelete \/ NormalWork \/ DeleteWork \/ PatchObject
        \/ PatchStatus \/ UserDelete \/ ControlPlaneGone \/ CacheSync \/ Crash
        \/ \E k \in {"vpc", "nat"}, i \in IDs : Stranger(k, i)
    BY DEF Next, Reconcile, reconcileNormal, reconcileDelete, NormalWork, DeleteWork
  <1>3. StartNormal \/ StartDelete => StartShape
    BY <1>1, Starts
  <1>4. NormalWork => WorkShape
    BY NormalShape
  <1>5. DeleteWork => DeleteShape
    BY TeardownShape
  <1>6. PatchObject => PatchShape
    BY <1>1, Patches
  <1>7. \/ PatchStatus \/ UserDelete \/ ControlPlaneGone \/ CacheSync \/ Crash
        \/ \E k \in {"vpc", "nat"}, i \in IDs : Stranger(k, i)
        => OtherShape
    BY Others
  <1> QED BY <1>2, <1>3, <1>4, <1>5, <1>6, <1>7

-----------------------------------------------------------------------------
(* Only resources of ours are held, whatever the pass read.                *)

\* The IDs after a step of a normal pass.
LEMMA GrownIDs ==
  ASSUME mem \in Object, MemGrows
  PROVE  /\ mem' \in Object /\ mem'.finalizer = mem.finalizer
         /\ \A k \in Kinds :
              \/ mem'.ids[k] = mem.ids[k]
              \/ MayRecord(k) /\ (mem'.ids[k] # None => cloud'[k][mem'.ids[k]].ours)
  <1>1. CASE mem' = mem
    BY <1>1
  <1>2. CASE mem' = [mem EXCEPT !.provisioned = TRUE]
    BY <1>2, FlagUpdates
  <1>3. ASSUME NEW k \in Kinds, NEW i \in Ref, mem' = Recorded(mem, k, i), MayRecord(k),
               i # None => cloud'[k][i].ours
        PROVE  /\ mem' \in Object /\ mem'.finalizer = mem.finalizer
               /\ \A l \in Kinds :
                    \/ mem'.ids[l] = mem.ids[l]
                    \/ MayRecord(l) /\ (mem'.ids[l] # None => cloud'[l][mem'.ids[l]].ours)
    BY <1>3, RecordedIDs
  <1> QED BY <1>1, <1>2, <1>3 DEF MemGrows

\* The object after a step of a teardown.
LEMMA TeardownIDs ==
  ASSUME mem \in Object, DeleteShape
  PROVE  /\ mem'.ids = mem.ids
         /\ pc' = "patchObject" => pc = "dVpc" /\ mem'.finalizer = failed'
  <1>1. failed' \in BOOLEAN
    BY DEF DeleteShape
  <1>2. /\ [mem EXCEPT !.finalizer = failed'].ids = mem.ids
        /\ [mem EXCEPT !.finalizer = failed'].finalizer = failed'
    BY <1>1, FlagUpdates
  <1>3. \/ pc' \in DeleteSteps /\ mem' = mem
        \/ pc = "dVpc" /\ pc' = "patchObject" /\ mem' = [mem EXCEPT !.finalizer = failed']
    BY DEF DeleteShape
  <1> QED BY <1>2, <1>3 DEF DeleteSteps

\* What was ours stays ours.
LEMMA OursStays ==
  ASSUME Forward, NEW k \in Kinds, NEW i \in Ref, OursOrNone(k, i)
  PROVE  i # None => cloud'[k][i].ours
  BY DEF Forward, OursOrNone, Ref

\* The types.
LEMMA TypeStep == OursInv /\ Next => TypeOK'
  <1> SUFFICES ASSUME OursInv, Next PROVE TypeOK' OBVIOUS
  <1>0. /\ TypeOK /\ mem \in Object
        /\ NormalSteps \subseteq Steps /\ DeleteSteps \subseteq Steps
        /\ {"vpc", "dNat", "patchObject", "patchStatus"} \subseteq Steps
    BY DEF OursInv, TypeOK, NormalSteps, DeleteSteps, NatSteps, SgSteps, Steps
  <1>1. CASE StartShape
    BY <1>0, <1>1 DEF StartShape, TypeOK
  <1>2. CASE WorkShape
    <2>1. mem' \in Object
      BY <1>0, <1>2, GrownIDs DEF WorkShape
    <2>2. pc' \in Steps
      BY <1>0, <1>2 DEF WorkShape, GoesOn
    <2> QED BY <1>0, <1>2, <2>1, <2>2 DEF WorkShape, TypeOK, CloudMoves, CloudTyped
  <1>3. CASE DeleteShape
    <2>1. mem' \in Object
      <3>1. failed' \in BOOLEAN => [mem EXCEPT !.finalizer = failed'] \in Object
        BY <1>0, FlagUpdates
      <3> QED BY <1>0, <1>3, <3>1 DEF DeleteShape
    <2>2. pc' \in Steps
      BY <1>0, <1>3 DEF DeleteShape
    <2> QED BY <1>0, <1>3, <2>1, <2>2 DEF DeleteShape, TypeOK, CloudMoves, CloudTyped
  <1>4. CASE PatchShape
    BY <1>0, <1>4 DEF PatchShape, TypeOK
  <1>5. CASE OtherShape
    <2>1. CASE UNCHANGED passVars
      BY <1>0, <1>5, <2>1 DEF OtherShape, TypeOK, CloudMoves, CloudTyped, passVars
    <2>2. CASE EndPass
      BY <1>0, <1>5, <2>2, NewObjects DEF OtherShape, TypeOK, CloudMoves, CloudTyped, EndPass, Ref
    <2> QED BY <1>5, <2>1, <2>2 DEF OtherShape
  <1> QED BY <1>1, <1>2, <1>3, <1>4, <1>5, Shapes

\* The soundness of the cloud.
LEMMA CloudStep == OursInv /\ Next => CloudMoves
  <1> SUFFICES ASSUME OursInv, Next PROVE CloudMoves OBVIOUS
  <1>1. StartShape \/ PatchShape => CloudMoves
    <2>1. CloudTyped /\ CloudSound
      BY DEF OursInv, TypeOK, CloudTyped
    <2> QED BY <2>1, CloudStays DEF StartShape, PatchShape
  <1> QED BY <1>1, Shapes DEF WorkShape, DeleteShape, OtherShape

\* The IDs that are held.
LEMMA HeldStep == OursInv /\ Next => HeldOurs'
  <1> SUFFICES ASSUME OursInv, Next PROVE HeldOurs' OBVIOUS
  <1>0. TypeOK /\ HeldOurs /\ obj \in Object /\ cache \in Object /\ mem \in Object
    BY DEF OursInv, TypeOK
  <1>f. Forward
    BY CloudStep DEF CloudMoves
  <1>k. \A k \in Kinds : /\ obj.ids[k] # None => cloud'[k][obj.ids[k]].ours
                         /\ cache.ids[k] # None => cloud'[k][cache.ids[k]].ours
                         /\ mem.ids[k] # None => cloud'[k][mem.ids[k]].ours
    BY <1>0, <1>f, OursStays, FieldTypes DEF HeldOurs
  <1> SUFFICES ASSUME NEW k \in Kinds
               PROVE  /\ obj'.ids[k] # None => cloud'[k][obj'.ids[k]].ours
                      /\ cache'.ids[k] # None => cloud'[k][cache'.ids[k]].ours
                      /\ mem'.ids[k] # None => cloud'[k][mem'.ids[k]].ours
    BY DEF HeldOurs, OursOrNone
  <1>1. CASE StartShape
    BY <1>k, <1>1 DEF StartShape
  <1>2. CASE WorkShape
    <2>1. mem'.ids[k] # None => cloud'[k][mem'.ids[k]].ours
      BY <1>0, <1>k, <1>2, GrownIDs DEF WorkShape
    <2> QED BY <1>k, <1>2, <2>1 DEF WorkShape
  <1>3. CASE DeleteShape
    <2>1. mem'.ids = mem.ids
      BY <1>0, <1>3, TeardownIDs
    <2> QED BY <1>k, <1>3, <2>1 DEF DeleteShape
  <1>4. CASE PatchShape
    <2>1. obj'.ids[k] \in {obj.ids[k], mem.ids[k], None}
      BY <1>4, NewObjects DEF PatchShape, Merged
    <2> QED BY <1>k, <1>4, <2>1 DEF PatchShape
  <1>5. CASE OtherShape
    <2>1. obj'.ids[k] \in {obj.ids[k], None} /\ cache'.ids[k] \in {obj.ids[k], cache.ids[k]}
      BY <1>5, NewObjects DEF OtherShape
    <2>2. mem'.ids[k] \in {mem.ids[k], None}
      BY <1>5, NewObjects DEF OtherShape, passVars, EndPass
    <2> QED BY <1>k, <2>1, <2>2
  <1> QED BY <1>1, <1>2, <1>3, <1>4, <1>5, Shapes

\* The places of a pass.
LEMMA PlaceStep == OursInv /\ Next => PassPlace'
  <1> SUFFICES ASSUME OursInv, Next PROVE PassPlace' OBVIOUS
  <1> USE DEF NormalSteps, DeleteSteps, NatSteps, SgSteps
  <1>0. TypeOK /\ PassPlace /\ mem \in Object
    BY DEF OursInv, TypeOK
  <1>1. CASE StartShape
    BY <1>0, <1>1 DEF StartShape, PassPlace
  <1>2. CASE WorkShape /\ NormalWork
    <2>1. mem.finalizer /\ mem'.finalizer = mem.finalizer
      <3>1. pc \in NormalSteps
        BY <1>2 DEF NormalWork, Ensure, FindNatGateway, CreateEip, CreateNatGateway,
                    EnsureSnatRules, EnsureSecurityGroupRules, Validate
      <3> QED BY <1>0, <1>2, <3>1, GrownIDs DEF PassPlace, WorkShape
    <2> QED BY <1>2, <2>1 DEF WorkShape, GoesOn, PassPlace
  <1>3. CASE DeleteShape
    BY <1>0, <1>3 DEF DeleteShape, PassPlace
  <1>4. CASE PatchShape
    BY <1>4 DEF PatchShape, PassPlace
  <1>5. CASE OtherShape
    <2>1. CASE UNCHANGED passVars
      BY <1>0, <1>5, <2>1 DEF OtherShape, PassPlace, passVars
    <2>2. CASE EndPass
      BY <2>2 DEF PassPlace, EndPass
    <2> QED BY <1>5, <2>1, <2>2 DEF OtherShape
  <1> QED BY <1>1, <1>2, <1>3, <1>4, <1>5, Shapes

\* The invariant holds at first, ...
LEMMA OursInit == Init => OursInv
  <1> SUFFICES ASSUME Init PROVE OursInv OBVIOUS
  <1>1. cloud \in [Kinds -> [IDs -> Resource]]
    BY DEF Init, Unborn, Resource, Ref
  <1>2. faults \in 0..MaxFaults /\ losses \in 0..MaxLosses
    BY BoundAssumption DEF Init
  <1>3. TypeOK
    BY <1>1, <1>2, NewObjects DEF Init, TypeOK, Ref
  <1>4. CloudSound
    BY DEF Init, CloudSound, Unborn, Kinds
  <1>5. HeldOurs
    BY NewObjects DEF Init, HeldOurs, OursOrNone
  <1>6. PassPlace
    BY DEF Init, PassPlace, NormalSteps, DeleteSteps, NatSteps, SgSteps
  <1> QED BY <1>3, <1>4, <1>5, <1>6 DEF OursInv

\* ... and is kept by every step.
LEMMA OursStep == OursInv /\ [Next]_vars => OursInv'
  <1>1. ASSUME OursInv, Next PROVE OursInv'
    BY <1>1, TypeStep, CloudStep, HeldStep, PlaceStep DEF OursInv, CloudMoves
  <1>2. ASSUME OursInv, UNCHANGED vars PROVE OursInv'
    BY <1>2 DEF OursInv, TypeOK, CloudSound, HeldOurs, OursOrNone, PassPlace, vars, passVars
  <1> QED BY <1>1, <1>2

\* AdoptsOwnedAlways: however stale the reads, whatever is lost and whoever
\* makes resources of the same name, neither the object nor a pass ever holds the
\* ID of a network resource that the provider did not make.
THEOREM AdoptsOwnedAlways == Spec => []AdoptsOwned
  <1>1. OursInv => AdoptsOwned
    BY DEF OursInv, HeldOurs, OursOrNone, AdoptsOwned
  <1> QED BY <1>1, OursInit, OursStep, PTL DEF Spec

-----------------------------------------------------------------------------
(* Records only grow, so that no EIP is forgotten and no object leaves       *)
(* before the network it was read with is gone.                             *)

\* A step of a normal pass is taken at one of its places.
LEMMA WorkPlace ==
  ASSUME NormalWork
  PROVE  pc \in NormalSteps
  BY DEF NormalWork, Ensure, FindNatGateway, CreateEip, CreateNatGateway, EnsureSnatRules,
         EnsureSecurityGroupRules, Validate, NormalSteps, NatSteps, SgSteps

\* What a patch stores was in memory or in the store, and a kind that was
\* recorded stays recorded.
LEMMA PatchStores ==
  ASSUME OursInv, Grown, PatchShape, obj'.exists
  PROVE  /\ obj.exists
         /\ \A k \in Kinds : /\ obj'.ids[k] \in {obj.ids[k], mem.ids[k]}
                             /\ obj.ids[k] # None => obj'.ids[k] # None
  <1>1. \/ obj' = obj
        \/ /\ obj.exists
           /\ \A k \in Kinds : obj'.ids[k] = Merged(mem.ids[k], base.ids[k], obj.ids[k])
    BY NewObjects DEF PatchShape
  <1>2. pc = "patchObject"
    BY DEF PatchShape
  <1> QED BY <1>1, <1>2 DEF Grown, Merged

\* The stored records.
LEMMA RecordStep ==
  ASSUME OursInv, RecordInv, Next
  PROVE  WellRecorded(obj)'
  <1>0. /\ WellRecorded(obj) /\ WellRecorded(mem) /\ Grown
        /\ {"vpc", "nat", "eip", "sg"} \subseteq Kinds
    BY DEF RecordInv, Kinds
  <1>1. features' = features
    BY Shapes DEF StartShape, WorkShape, DeleteShape, PatchShape, OtherShape
  <1>p. PatchShape => pc = "patchObject"
    BY DEF PatchShape
  <1>2. CASE obj'.ids = obj.ids
    BY <1>0, <1>1, <1>2 DEF WellRecorded
  <1>3. CASE obj' = Blank
    BY <1>3, NewObjects DEF WellRecorded, Kinds
  <1>4. CASE PatchShape /\ obj'.exists
    <2>1. /\ obj.exists
          /\ \A k \in Kinds : /\ obj'.ids[k] \in {obj.ids[k], mem.ids[k]}
                              /\ obj.ids[k] # None => obj'.ids[k] # None
      BY <1>0, <1>4, PatchStores
    <2>2. /\ "nat" \notin features => obj'.ids["nat"] = None /\ obj'.ids["eip"] = None
          /\ "sg" \notin features => obj'.ids["sg"] = None
      BY <1>0, <2>1 DEF WellRecorded
    <2>3. ASSUME obj'.ids["vpc"] = None, NEW k \in Kinds
          PROVE  obj'.ids[k] = None
      <3>1. obj.ids["vpc"] = None /\ obj.ids[k] = None
        BY <1>0, <2>1, <2>3 DEF WellRecorded
      <3>2. base.ids["vpc"] = None
        <4>1. pc # "idle" /\ obj.exists /\ "vpc" \in Kinds
          BY <1>0, <1>4, <1>p, <2>1
        <4> QED BY <1>0, <3>1, <4>1 DEF Grown
      <3>3. CASE mem.ids["vpc"] = None
        BY <1>0, <2>1, <3>1, <3>3 DEF WellRecorded
      <3>4. CASE mem.ids["vpc"] # None
        <4>1. \/ obj' = obj
              \/ obj'.ids["vpc"] = Merged(mem.ids["vpc"], base.ids["vpc"], obj.ids["vpc"])
          BY <1>0, <1>4, NewObjects DEF PatchShape
        <4>2. obj' = obj
          BY <2>3, <3>2, <3>4, <4>1 DEF Merged
        <4> QED BY <3>1, <4>2
      <3> QED BY <3>3, <3>4
    <2> QED BY <1>1, <2>2, <2>3 DEF WellRecorded
  <1>5. PatchShape => obj'.exists \/ obj' = Blank \/ obj'.ids = obj.ids
    BY DEF PatchShape
  <1> QED BY <1>2, <1>3, <1>4, <1>5, Shapes DEF StartShape, WorkShape, DeleteShape, OtherShape

\* The informer's copy is a stored object, of now or of some time ago.
LEMMA CacheStep ==
  ASSUME OursInv, RecordInv, Next
  PROVE  WellRecorded(cache)' /\ Guarded(cache)'
  <1>1. features' = features /\ cache' \in {cache, obj}
    BY Shapes DEF StartShape, WorkShape, DeleteShape, PatchShape, OtherShape
  <1> QED BY <1>1 DEF RecordInv, WellRecorded, Guarded

\* The records of the pass.
LEMMA MemRecordStep ==
  ASSUME OursInv, RecordInv, Next
  PROVE  WellRecorded(mem)'
  <1>0. /\ WellRecorded(cache) /\ WellRecorded(mem) /\ mem \in Object /\ TypeOK /\ PassPlace
        /\ {"vpc", "nat", "eip", "sg"} \subseteq Kinds
    BY DEF RecordInv, OursInv, TypeOK, Kinds
  <1>1. features' = features
    BY Shapes DEF StartShape, WorkShape, DeleteShape, PatchShape, OtherShape
  <1>2. CASE WorkShape /\ NormalWork
    <2>1. \A k \in Kinds : mem'.ids[k] = mem.ids[k] \/ MayRecord(k)
      BY <1>0, <1>2, GrownIDs DEF WorkShape
    <2>2. pc \in NormalSteps
      BY <1>2, WorkPlace
    <2>3. ASSUME mem'.ids["vpc"] = None, NEW k \in Kinds PROVE mem'.ids[k] = None
      <3>1. pc = "vpc"
        BY <1>0, <2>1, <2>2, <2>3 DEF PassPlace, MayRecord
      <3>2. mem.ids["vpc"] = None
        BY <1>0, <2>1, <2>3 DEF MayRecord
      <3>3. mem.ids[k] = None
        BY <1>0, <3>2 DEF WellRecorded
      <3>4. k # "vpc" => ~MayRecord(k)
        BY <3>1 DEF MayRecord
      <3> QED BY <2>1, <2>3, <3>3, <3>4
    <2>4. "nat" \notin features => mem'.ids["nat"] = None /\ mem'.ids["eip"] = None
      BY <1>0, <2>1 DEF WellRecorded, MayRecord, PassPlace
    <2>5. "sg" \notin features => mem'.ids["sg"] = None
      BY <1>0, <2>1 DEF WellRecorded, MayRecord, PassPlace, SgSteps
    <2> QED BY <1>1, <2>3, <2>4, <2>5 DEF WellRecorded
  <1>3. \/ mem'.ids = cache.ids \/ mem'.ids = mem.ids \/ mem' = Blank
        \/ (WorkShape /\ NormalWork)
    <2>1. StartShape => mem'.ids = cache.ids
      BY DEF StartShape
    <2>2. DeleteShape => mem'.ids = mem.ids
      BY <1>0, TeardownIDs
    <2>3. PatchShape => mem'.ids = mem.ids
      BY DEF PatchShape
    <2>4. OtherShape => mem'.ids = mem.ids \/ mem' = Blank
      BY DEF OtherShape, passVars, EndPass
    <2> QED BY <2>1, <2>2, <2>3, <2>4, Shapes
  <1>4. CASE mem' = Blank
    BY <1>4, NewObjects DEF WellRecorded, Kinds
  <1> QED BY <1>0, <1>1, <1>2, <1>3, <1>4 DEF WellRecorded

\* What a pass holds, and what is stored, against what was read.
LEMMA GrownStep ==
  ASSUME OursInv, RecordInv, Next
  PROVE  Grown'
  <1>0. /\ Grown /\ mem \in Object
        /\ {"idle", "patchStatus"} \cap (NormalSteps \cup DeleteSteps) = {}
    BY DEF RecordInv, OursInv, TypeOK, NormalSteps, NatSteps, SgSteps, DeleteSteps
  <1>1. CASE StartShape
    BY <1>0, <1>1 DEF StartShape, Grown
  <1>2. CASE WorkShape /\ NormalWork
    <2>1. pc \notin {"idle", "patchStatus"}
      BY <1>0, <1>2, WorkPlace
    <2>2. base' = base /\ obj' = obj /\ cache' = cache
      BY <1>2 DEF WorkShape
    <2>3. \A k \in Kinds : mem'.ids[k] = mem.ids[k] \/ mem.ids[k] = None
      BY <1>0, <1>2, GrownIDs DEF WorkShape, MayRecord
    <2>4. \A k \in Kinds : base.ids[k] # None => mem'.ids[k] = base.ids[k]
      BY <1>0, <2>1, <2>3 DEF Grown
    <2> QED BY <1>0, <2>1, <2>2, <2>4 DEF Grown
  <1>3. CASE DeleteShape
    <2>1. /\ pc \notin {"idle", "patchStatus"}
          /\ base' = base /\ obj' = obj /\ cache' = cache
      BY <1>0, <1>3 DEF DeleteShape
    <2>2. mem'.ids = mem.ids
      BY <1>0, <1>3, TeardownIDs
    <2> QED BY <1>0, <2>1, <2>2 DEF Grown
  <1>4. CASE PatchShape
    <2>1. pc = "patchObject" /\ pc' = "patchStatus" /\ base' = base /\ cache' = cache
      BY <1>4 DEF PatchShape
    <2>2. obj'.exists => /\ obj.exists
                         /\ \A k \in Kinds : obj.ids[k] # None => obj'.ids[k] # None
      BY <1>0, <1>4, PatchStores
    <2> QED BY <1>0, <2>1, <2>2 DEF Grown
  <1>5. CASE OtherShape
    <2>1. obj'.exists => obj.exists /\ obj'.ids = obj.ids
      BY <1>5, NewObjects DEF OtherShape
    <2>2. cache' \in {cache, obj}
      BY <1>5 DEF OtherShape
    <2>3. pc' = "idle" \/ (pc' = pc /\ mem' = mem /\ base' = base)
      BY <1>5 DEF OtherShape, passVars, EndPass
    <2>4. pc' \notin {"idle", "patchStatus"} =>
            \A k \in Kinds : base'.ids[k] # None => mem'.ids[k] = base'.ids[k]
      BY <1>0, <2>3 DEF Grown
    <2>5. ASSUME obj'.exists, NEW k \in Kinds
          PROVE  /\ cache'.ids[k] # None => obj'.ids[k] # None
                 /\ pc' # "idle" /\ base'.ids[k] # None => obj'.ids[k] # None
      BY <1>0, <2>1, <2>2, <2>3, <2>5 DEF Grown
    <2> QED BY <2>4, <2>5 DEF Grown
  <1> QED BY <1>1, <1>2, <1>3, <1>4, <1>5, Shapes

\* The finalizer of a deleting object.
LEMMA GuardedStep ==
  ASSUME OursInv, RecordInv, Next
  PROVE  Guarded(obj)'
  <1>0. Guarded(obj)
    BY DEF RecordInv
  <1>1. CASE obj' = obj
    BY <1>0, <1>1 DEF Guarded
  <1>2. CASE PatchShape
    <2>1. \/ obj' = obj \/ obj' = Blank
          \/ obj'.deleting = obj.deleting /\ (obj.deleting => obj'.finalizer)
      BY <1>2 DEF PatchShape
    <2> QED BY <1>1, <2>1, NewObjects DEF Guarded
  <1>3. CASE OtherShape
    <2>1. \/ obj' = Blank
          \/ obj'.finalizer = obj.finalizer /\ (obj'.deleting = obj.deleting \/ obj'.finalizer)
      BY <1>3 DEF OtherShape
    <2> QED BY <1>0, <2>1, NewObjects DEF Guarded
  <1> QED BY <1>1, <1>2, <1>3, Shapes DEF StartShape, WorkShape, DeleteShape

\* What a pass holds and is not live never comes to life: it is ours, so it was
\* alive before.
LEMMA DownKept ==
  ASSUME OursInv, Next, mem'.ids = mem.ids
  PROVE  \A k \in Kinds : ~Live(k, mem.ids[k]) => ~Live(k, mem.ids[k])'
  <1> SUFFICES ASSUME NEW k \in Kinds, ~Live(k, mem.ids[k])
               PROVE  ~Live(k, mem.ids[k])'
    OBVIOUS
  <1> DEFINE i == mem.ids[k]
  <1>1. i \in Ref /\ OursOrNone(k, i) /\ CloudTyped /\ CloudSound
    BY FieldTypes DEF OursInv, TypeOK, HeldOurs, CloudTyped
  <1>2. CASE i = None
    BY <1>2, IdAssumption DEF Live
  <1>3. CASE i \in IDs
    <2>1. cloud[k][i].state \in {"unborn", "live", "gone"}
      BY <1>1, <1>3 DEF CloudTyped, Resource
    <2>2. cloud[k][i].state = "gone"
      BY <1>1, <1>3, <2>1, IdAssumption DEF CloudSound, OursOrNone, Live
    <2>3. cloud'[k][i].state = "gone"
      BY <1>3, <2>2, CloudStep DEF CloudMoves, Forward
    <2> QED BY <1>3, <2>3 DEF Live
  <1> QED BY <1>1, <1>2, <1>3 DEF Ref

\* The steps of the teardown, one by one.
LEMMA TeardownStep ==
  ASSUME OursInv, RecordInv, Next, DeleteShape, DeleteWork
  PROVE  TornDown'
  <1>0. /\ TornDown /\ WellRecorded(mem) /\ mem \in Object /\ PassPlace
        /\ gw \in Ref /\ addr \in Ref
        /\ {"vpc", "nat", "eip", "sg", "subnet"} = Kinds
    BY DEF RecordInv, OursInv, TypeOK, Kinds
  <1>i. \A k \in Kinds : mem.ids[k] \in Ref
    BY <1>0, FieldTypes
  <1>m. mem'.ids = mem.ids /\ (pc' = "patchObject" => pc = "dVpc" /\ mem'.finalizer = failed')
    BY <1>0, TeardownIDs
  <1>k. \A k \in Kinds : ~Live(k, mem.ids[k]) => ~Live(k, mem.ids[k])'
    BY <1>m, DownKept
  <1>f. failed => failed'
    BY DEF DeleteShape
  <1>n. \A k \in Kinds : mem.ids[k] = None => ~Live(k, mem.ids[k])'
    BY <1>m, IdAssumption DEF Live
  <1>1. CASE ResolveNat
    <2>1. \/ /\ pc' = "dRules"
             /\ mem.ids["nat"] # None => gw' = mem.ids["nat"]
             /\ mem.ids["eip"] # None => addr' = mem.ids["eip"]
          \/ /\ pc' = "dSg"
             /\ "nat" \notin features \/ (mem.ids["nat"] = None /\ mem.ids["eip"] = None)
      BY <1>1 DEF ResolveNat, EipToRelease
    <2>2. pc' = "dSg" => ~Live("nat", mem.ids["nat"])' /\ ~Live("eip", mem.ids["eip"])'
      BY <1>0, <1>n, <2>1 DEF WellRecorded
    <2> QED BY <1>m, <2>1, <2>2 DEF TornDown
  <1>2. CASE DeleteSnatRules
    <2>1. pc = "dRules" /\ pc' = "dGateway" /\ gw' = gw /\ addr' = addr /\ mem' = mem
      BY <1>2 DEF DeleteSnatRules
    <2> QED BY <1>0, <2>1 DEF TornDown
  <1>3. CASE DeleteNatGateway
    <2>1. /\ pc = "dGateway" /\ pc' = "dEip" /\ gw' = gw /\ addr' = addr /\ mem' = mem
          /\ ~failed' => ~Live("nat", gw)'
      BY <1>0, <1>3, OneDelete DEF DeleteNatGateway
    <2>2. mem.ids["nat"] # None => gw = mem.ids["nat"]
      BY <1>0, <2>1 DEF TornDown
    <2>3. ~failed' => ~Live("nat", mem.ids["nat"])'
      <3>1. CASE mem.ids["nat"] = None
        BY <1>0, <1>n, <3>1
      <3>2. CASE mem.ids["nat"] # None
        BY <2>1, <2>2, <3>2 DEF Live
      <3> QED BY <3>1, <3>2
    <2> QED BY <1>0, <2>1, <2>3 DEF TornDown
  <1>4. CASE DeleteEip
    <2>1. /\ pc = "dEip" /\ pc' = "dSg" /\ addr' = addr /\ mem' = mem
          /\ ~failed' => ~Live("eip", addr)'
      BY <1>0, <1>4, OneDelete DEF DeleteEip
    <2>2. mem.ids["eip"] # None => addr = mem.ids["eip"]
      BY <1>0, <2>1 DEF TornDown
    <2>3. ~failed' => ~Live("eip", mem.ids["eip"])'
      <3>1. CASE mem.ids["eip"] = None
        BY <1>0, <1>n, <3>1
      <3>2. CASE mem.ids["eip"] # None
        BY <2>1, <2>2, <3>2 DEF Live
      <3> QED BY <3>1, <3>2
    <2>4. ~failed' => ~Live("nat", mem.ids["nat"])'
      BY <1>0, <1>f, <1>k, <2>1 DEF TornDown
    <2> QED BY <2>1, <2>3, <2>4 DEF TornDown
  <1>5. CASE DeleteSecurityGroup
    <2>1. mem.ids["sg"] = IF "sg" \in features THEN mem.ids["sg"] ELSE None
      BY <1>0 DEF WellRecorded
    <2>2. PICK i \in Ref : i = mem.ids["sg"]
      BY <1>0, <1>i
    <2>3. Delete("sg", i, "dSg", "dSubnet") /\ mem' = mem
      BY <1>5, <2>1, <2>2 DEF DeleteSecurityGroup
    <2>4. /\ pc = "dSg" /\ pc' = "dSubnet" /\ (~failed' => ~Live("sg", i)')
      BY <1>0, <2>2, <2>3, OneDelete
    <2>5. ~failed' => ~Live("sg", mem.ids["sg"])'
      BY <2>2, <2>3, <2>4 DEF Live
    <2>6. ~failed' => ~Live("nat", mem.ids["nat"])' /\ ~Live("eip", mem.ids["eip"])'
      BY <1>0, <1>f, <1>k, <2>4 DEF TornDown
    <2> QED BY <2>4, <2>5, <2>6 DEF TornDown
  <1>6. CASE DeleteSubnet
    <2>1. Delete("subnet", mem.ids["subnet"], "dSubnet", "dVpc") /\ mem' = mem
      BY <1>6 DEF DeleteSubnet
    <2>2. /\ pc = "dSubnet" /\ pc' = "dVpc" /\ (~failed' => ~Live("subnet", mem.ids["subnet"])')
      BY <1>0, <1>i, <2>1, OneDelete DEF Live
    <2>3. ~failed' => /\ ~Live("nat", mem.ids["nat"])' /\ ~Live("eip", mem.ids["eip"])'
                      /\ ~Live("sg", mem.ids["sg"])'
      BY <1>0, <1>f, <1>k, <2>2 DEF TornDown
    <2> QED BY <2>2, <2>3 DEF TornDown
  <1>7. CASE DeleteVpc
    <2>1. Delete("vpc", mem.ids["vpc"], "dVpc", "patchObject")
      BY <1>7 DEF DeleteVpc
    <2>2. pc = "dVpc" /\ pc' = "patchObject" /\ (~failed' => ~Live("vpc", mem.ids["vpc"])')
      BY <1>0, <1>i, <1>m, <2>1, OneDelete DEF Live
    <2>3. ~failed' => /\ ~Live("nat", mem.ids["nat"])' /\ ~Live("eip", mem.ids["eip"])'
                      /\ ~Live("sg", mem.ids["sg"])' /\ ~Live("subnet", mem.ids["subnet"])'
      BY <1>0, <1>f, <1>k, <2>2 DEF TornDown
    <2>4. ~failed' => \A k \in Kinds : ~Live(k, mem.ids[k])'
      BY <1>0, <2>2, <2>3
    <2>5. mem'.ids = base'.ids
      BY <1>0, <1>m, <2>2 DEF PassPlace, DeleteSteps, DeleteShape
    <2> QED BY <1>m, <2>2, <2>4, <2>5 DEF TornDown
  <1> QED BY <1>1, <1>2, <1>3, <1>4, <1>5, <1>6, <1>7 DEF DeleteWork

\* How far the teardown has come, over every step.
LEMMA TornDownStep ==
  ASSUME OursInv, RecordInv, Next
  PROVE  TornDown'
  <1>0. /\ TornDown /\ WellRecorded(cache) /\ Guarded(cache) /\ TypeOK /\ PassPlace /\ mem \in Object
    BY DEF RecordInv, OursInv, TypeOK
  <1>1. CASE StartShape
    <2>1. base' = cache /\ mem'.ids = cache.ids
      BY <1>1 DEF StartShape
    <2>2. pc' \in {"vpc", "dNat", "patchObject"}
      BY <1>1 DEF StartShape
    <2>3. ASSUME pc' = "patchObject", ~mem'.finalizer, NEW k \in Kinds
          PROVE  ~Live(k, mem.ids[k])'
      <3>1. cache.ids["vpc"] = None
        BY <1>0, <1>1, <2>3 DEF StartShape, Guarded
      <3>2. mem'.ids[k] = None
        BY <1>0, <2>1, <3>1 DEF WellRecorded
      <3> QED BY <3>2, IdAssumption DEF Live
    <2> QED BY <2>1, <2>2, <2>3 DEF TornDown
  <1>2. CASE WorkShape /\ NormalWork
    <2>1. pc \in NormalSteps
      BY <1>2, WorkPlace
    <2>2. mem'.finalizer
      BY <1>0, <1>2, <2>1, GrownIDs DEF WorkShape, PassPlace
    <2>3. pc' = "patchObject" \/ pc' \in NormalSteps
      BY <1>2 DEF WorkShape, GoesOn
    <2> QED BY <2>2, <2>3 DEF TornDown, NormalSteps, NatSteps, SgSteps
  <1>3. CASE DeleteShape /\ DeleteWork
    BY <1>3, TeardownStep
  <1>4. CASE PatchShape
    BY <1>4 DEF PatchShape, TornDown
  <1>5. CASE OtherShape
    <2>1. CASE EndPass
      BY <2>1 DEF EndPass, TornDown
    <2>2. CASE UNCHANGED passVars
      <3>1. pc' = pc /\ mem' = mem /\ base' = base /\ gw' = gw /\ addr' = addr /\ failed' = failed
        BY <2>2 DEF passVars
      <3>2. \A k \in Kinds : ~Live(k, mem.ids[k]) => ~Live(k, mem.ids[k])'
        BY <3>1, DownKept
      <3>3. {"vpc", "nat", "eip", "sg", "subnet"} = Kinds
        BY DEF Kinds
      <3>4. /\ pc' \in {"dRules", "dGateway", "dEip"} =>
                 /\ mem'.ids["nat"] # None => gw' = mem'.ids["nat"]
                 /\ mem'.ids["eip"] # None => addr' = mem'.ids["eip"]
            /\ pc' = "patchObject" /\ ~mem'.finalizer =>
                 mem'.ids = base'.ids /\ \A k \in Kinds : ~Live(k, mem.ids[k])'
        BY <1>0, <3>1, <3>2 DEF TornDown
      <3>5. ~failed' =>
              /\ pc' \in {"dEip", "dSg", "dSubnet", "dVpc"} => ~Live("nat", mem.ids["nat"])'
              /\ pc' \in {"dSg", "dSubnet", "dVpc"} => ~Live("eip", mem.ids["eip"])'
              /\ pc' \in {"dSubnet", "dVpc"} => ~Live("sg", mem.ids["sg"])'
              /\ pc' = "dVpc" => ~Live("subnet", mem.ids["subnet"])'
        BY <1>0, <3>1, <3>2, <3>3 DEF TornDown
      <3> QED BY <3>4, <3>5 DEF TornDown
    <2> QED BY <1>5, <2>1, <2>2 DEF OtherShape
  <1> QED BY <1>1, <1>2, <1>3, <1>4, <1>5, Shapes

\* The invariant holds at first, ...
LEMMA RecordInit == Init => RecordInv
  <1> SUFFICES ASSUME Init PROVE RecordInv OBVIOUS
  <1>1. WellRecorded(obj) /\ WellRecorded(cache) /\ WellRecorded(mem)
    BY NewObjects DEF Init, WellRecorded, Kinds
  <1>2. Grown /\ TornDown
    BY NewObjects DEF Init, Grown, TornDown
  <1>3. Guarded(obj) /\ Guarded(cache)
    BY NewObjects DEF Init, Guarded
  <1> QED BY <1>1, <1>2, <1>3 DEF RecordInv

\* ... and is kept by every step.
LEMMA RecordKept == OursInv /\ RecordInv /\ [Next]_vars => RecordInv'
  <1>1. ASSUME OursInv, RecordInv, Next PROVE RecordInv'
    BY <1>1, RecordStep, CacheStep, MemRecordStep, GrownStep, GuardedStep, TornDownStep DEF RecordInv
  <1>2. ASSUME RecordInv, UNCHANGED vars PROVE RecordInv'
    <2>1. WellRecorded(obj)' /\ WellRecorded(cache)' /\ WellRecorded(mem)'
      BY <1>2 DEF RecordInv, WellRecorded, vars, passVars
    <2>2. Grown' /\ Guarded(obj)' /\ Guarded(cache)'
      BY <1>2 DEF RecordInv, Grown, Guarded, vars, passVars
    <2>3. TornDown'
      BY <1>2 DEF RecordInv, TornDown, Live, vars, passVars
    <2> QED BY <2>1, <2>2, <2>3 DEF RecordInv
  <1> QED BY <1>1, <1>2

\* A live EIP that was known stays known, and one that appears is recorded.
LEMMA EipStep ==
  ASSUME OursInv, RecordInv, Next, obj'.exists, losses' = losses, NEW i \in IDs, Live("eip", i)'
  PROVE  \/ Known(i)'
         \/ Live("eip", i) /\ ~Known(i)
         \/ pc = "patchObject" /\ (i = base.ids["eip"] <=> i # obj.ids["eip"])
  <1>0. /\ Grown /\ PassPlace /\ mem \in Object /\ "eip" \in Kinds /\ i # None
        /\ "patchStatus" \notin NormalSteps \cup DeleteSteps
    BY IdAssumption DEF RecordInv, OursInv, TypeOK, Kinds, NormalSteps, NatSteps, SgSteps, DeleteSteps
  <1>1. CASE StartShape
    <2>1. mem.ids["eip"] = None /\ obj' = obj /\ cloud' = cloud
      BY <1>0, <1>1, NewObjects DEF StartShape, PassPlace
    <2> QED BY <1>0, <2>1 DEF Known, Live
  <1>2. CASE WorkShape /\ NormalWork
    <2>1. obj' = obj /\ pc' # "patchStatus"
      BY <1>0, <1>2 DEF WorkShape, GoesOn
    <2>2. mem'.ids["eip"] = mem.ids["eip"] \/ mem.ids["eip"] = None
      BY <1>0, <1>2, GrownIDs DEF WorkShape, MayRecord
    <2>3. ~Live("eip", i) => mem'.ids["eip"] = i
      BY <1>2 DEF WorkShape, EipRecorded
    <2> QED BY <1>0, <2>1, <2>2, <2>3 DEF Known
  <1>3. CASE DeleteShape
    <2>1. /\ obj' = obj /\ Live("eip", i) /\ pc' # "patchStatus"
      BY <1>0, <1>3 DEF DeleteShape, NothingAppears
    <2>2. mem'.ids = mem.ids
      BY <1>0, <1>3, TeardownIDs
    <2> QED BY <2>1, <2>2 DEF Known
  <1>4. CASE PatchShape
    <2>1. /\ pc = "patchObject" /\ pc' = "patchStatus" /\ Live("eip", i)
          /\ obj'.ids["eip"] = Merged(mem.ids["eip"], base.ids["eip"], obj.ids["eip"])
      BY <1>0, <1>4, NewObjects DEF PatchShape, Live
    <2>2. base.ids["eip"] # None => mem.ids["eip"] = base.ids["eip"]
      BY <1>0, <2>1 DEF Grown
    <2> QED BY <1>0, <2>1, <2>2 DEF Known, Merged
  <1>5. CASE OtherShape
    <2>1. obj'.ids = obj.ids /\ Live("eip", i)
      BY <1>5, NewObjects DEF OtherShape
    <2>2. pc = "patchStatus" \/ (pc' = pc /\ mem' = mem)
      BY <1>5 DEF OtherShape, passVars
    <2> QED BY <2>1, <2>2 DEF Known
  <1> QED BY <1>1, <1>2, <1>3, <1>4, <1>5, Shapes

\* EipKeptAlways: however stale the reads and whichever calls fail, createEip's
\* tag and the deletion after it included, no step that loses nothing makes an EIP
\* or leaves one behind that neither the object nor the pass in flight records,
\* but for a patch over an EIP the pass had not read.
THEOREM EipKeptAlways == Spec => EipKept
  <1>1. OursInv /\ RecordInv /\ [Next]_vars
          => [obj'.exists /\ losses' = losses =>
                \A i \in IDs :
                  Live("eip", i)' =>
                    \/ Known(i)'
                    \/ Live("eip", i) /\ ~Known(i)
                    \/ pc = "patchObject" /\ (i = base.ids["eip"] <=> i # obj.ids["eip"])]_vars
    BY EipStep
  <1> QED BY <1>1, OursInit, OursStep, RecordInit, RecordKept, PTL DEF Spec, EipKept

\* A released object leaves nothing of what its last pass had read.
LEMMA ReleaseStep ==
  ASSUME OursInv, RecordInv, Next, obj.exists, obj.finalizer, ~obj'.exists
  PROVE  \A k \in Kinds : base.ids[k] = obj.ids[k] => ~Live(k, obj.ids[k])
  <1>0. /\ TornDown /\ mem \in Object /\ base \in Object /\ obj \in Object
        /\ ~Blank.exists
    BY NewObjects DEF RecordInv, OursInv, TypeOK
  <1>1. CASE obj' = obj
    BY <1>1
  <1>2. CASE PatchShape
    <2>1. pc = "patchObject" /\ ~Merged(mem.finalizer, base.finalizer, obj.finalizer)
      BY <1>1, <1>2 DEF PatchShape
    <2>2. ~mem.finalizer
      BY <1>0, <2>1, FieldTypes DEF Merged
    <2>3. mem.ids = base.ids /\ \A k \in Kinds : ~Live(k, mem.ids[k])
      BY <1>0, <2>1, <2>2 DEF TornDown
    <2> QED BY <2>3
  <1>3. CASE OtherShape
    BY <1>3 DEF OtherShape
  <1> QED BY <1>1, <1>2, <1>3, Shapes DEF StartShape, WorkShape, DeleteShape

\* NetworkReleaseCleanAlways: however stale the copy the releasing pass read, and
\* however many steps of earlier teardowns failed or were lost, an object that
\* carries the finalizer leaves only after every network resource is gone that it
\* records and that pass had read.
THEOREM NetworkReleaseCleanAlways == Spec => NetworkReleaseClean
  <1>1. OursInv /\ RecordInv /\ [Next]_vars
          => [obj.exists /\ obj.finalizer /\ ~obj'.exists
                => \A k \in Kinds : base.ids[k] = obj.ids[k] => ~Live(k, obj.ids[k])]_vars
    BY ReleaseStep
  <1> QED BY <1>1, OursInit, OursStep, RecordInit, RecordKept, PTL DEF Spec, NetworkReleaseClean
=============================================================================
