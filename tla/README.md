# TLA+ models of the Cluster API provider for Huawei Cloud CCE

The provider is a set of Kubernetes controllers. Each one drives a part of a
Huawei Cloud account (CCE clusters, node pools, VPC networks, EIPs) towards a
custom resource, and records in that resource what it made. Everything hard
about it comes from four facts:

- a pass (`Reconcile`) reads its object from an informer **cache** that may be
  behind the API server, works on a copy in memory, and stores what it learnt
  only **at its end**, in merge patches that check no version;
- every remote call may fail, or take effect and **lose its answer**;
- users, the cloud console, other controllers and the orphan sweep act
  **between any two calls** of a pass, and a restart may end a pass anywhere;
- deletion has to find everything again from the record, and the finalizer is
  the only thing that keeps the record.

So the models have one step per remote call, and the properties ask what the
record, the cloud and the passes in flight know of each other.

## 1. Inventory

| Component | State | Operations | Talks to | Hard behaviour | Correct when |
|---|---|---|---|---|---|
| `CCEManagedControlPlane` controller (`controllers/ccemanagedcontrolplane_controller.go`, `internal/scope/controlplane_scope.go`) | finalizer, delete-poll annotation, `status.clusterID`, `controlPlaneEIPID`, endpoint, Ready; add-on, identity and policy ledgers; upgrade task ID | reconcileNormal: finalizer in memory, credentials, create / adopt, show, backfill endpoint, EIP, tags, add-ons, policies, upgrade, kubeconfig; reconcileDelete: show, delete, poll, unbind EIP, drop the finalizer | reads Cluster and CCECluster; calls the CCE client; is read by the machine pools, the sweep and the CCECluster | deletion while a create is in flight; stale record; asynchronous delete that falls back; half of `scope.Close` fails | holds only owned clusters, keeps its record, releases the finalizer only over what is gone, heals, finishes |
| CCE client (`internal/services/cce/cce.go`, `errors`, `tags`) | none of its own | CreateCluster with conflict adoption, idempotent deletes, BindClusterEip / UnbindClusterEip, node-pool calls | the cloud | lost answers, three-call EIP creation with a clean-up that may fail | adopts owned resources only; a 404 on delete is success, no other error is |
| `CCEManagedMachinePool` controller | finalizer, `nodePoolID`, replicas, last-applied attributes, provider IDs | create / adopt, scale, update, list, tags, repair; delete: list, delete, clear ID, drop the finalizer | control plane (cluster ID, readiness), owning MachinePool (replicas both ways) | cluster lost or replaced under it; counts changed by user, autoscaler and cloud; a failing early call that hides a later repair | as above, and counts and attributes converge both ways |
| `CCECluster` controller and managed network (`controllers/ccecluster_controller.go`, `internal/services/network`) | IDs of VPC, subnets, NAT gateway, EIP, security group in the **spec**, provisioned flag | ensure each resource: recorded, found by name and owned, or created; validate; aggregated teardown | waits for the control plane to go; its readiness releases the control plane | crash before the IDs are stored; teardown with failing steps; strangers with the derived names | adopts only its own, forgets no EIP, releases only a network that is gone |
| Garbage collector (`controllers/gc.go`) | index of Cluster names, for one sweep | list owned clusters, list CRs, delete orphans; then, as far as switched on, EIPs, volumes, VPCs, NAT gateways | the control-plane controller's cloud; CRs | the two listings and the deletes interleave with creation | never deletes what a Cluster wants; collects what none wants |
| Error backoff (`controllers/requeue.go`) | failures per namespaced name, shared by all controllers | count, delay, generation check, reset | every controller | a tuned delay is recognised by its side effects | doubling up to the cap; no pass that failed resets it |
| Kubeconfig (`controllers/kubeconfig_rotation.go`) | Secrets, expiry | create, rotate | control plane | rotation racing an endpoint change | a usable Secret at any time |
| Identities, credentials (`controllers/credentials.go`, `internal/scope/scope.go`, `internal/credentials`, `internal/services/iam`, `cceclustercontrolleridentity_controller.go`) | identity objects, Secrets, agencies | resolve reference, identity, namespace, keys; make and assume the agency; create the default identity | every pass of the three controllers | each lookup is a step of its own, between edits of what it reads; deletion needs them to the end | no use from a namespace that was not allowed; no deletion stuck for want of a Secret |
| Tags (`planClusterTags`, `toClusterTags`, `tags_validate.go`) | the tags of the cluster | show, plan, delete, create | console | the platform's limit; drift between plan and write | the declared tags and the provider's, no others |
| Admission webhooks | none | default, validate | API server | sequential | names and network are immutable |
| Request throttle (`internal/services/throttle`) | token bucket | wait | every call | it only delays | the rate is kept |
| Manager, feature gates, `hack/` tools | flags | start-up | - | - | - |

The hazards, each at its line, are in `PROJECT.json`.

## 2. Modules

| Module | Models | Extends |
|---|---|---|
| `ControlPlane` | the control-plane controller, one object, the CCE clusters and master EIPs it drives | - |
| `ControlPlaneProofs` | the theorems about it, and that it implements its contract | `ControlPlane`, `TLAPS` |
| `ControlPlaneContract` | abstract: what a control plane promises to those who read it | - |
| `GarbageCollector` | the sweep composed with the controller, over the same cloud and users | `ControlPlane` |
| `GarbageCollectorProofs` | what the sweep spares, and what of the control plane's guarantees survives it | `GarbageCollector`, `ControlPlaneProofs` |
| `Requeue` | the backoff tracker and the passes that share a key | - |
| `RequeueProofs` | the delays: their doubling, their lower bounds, and when they start over | `Requeue`, `TLAPS` |
| `MachinePool` | the machine-pool controller, owner and node pools, beside a control plane that keeps `ControlPlaneContract` (an INSTANCE of it) | - |
| `MachinePoolProofs` | its types, that it holds only its own pools, keeps their record and releases cleanly | `MachinePool`, `TLAPS` |
| `ClusterTags` | the tags a cluster should bear and the writes that lead there: operators only | - |
| `Identity` | whose credentials the passes of the three controllers use, the agency, the default identity, and the tag writes | `ClusterTags` |
| `IdentityProofs` | the use of identities; the plan of tag writes | `Identity`, `TLAPS` |
| `Network` | the CCECluster controller with its managed network | - |
| `NetworkProofs` | its adoption, the record of its EIP, and the clean release | `Network`, `TLAPS` |
| `DeclarativeSets` | its loops over add-ons, pod identities and access policies, which `ControlPlane` has as one step | - |
| `DeclarativeSetsProofs` | the theorems about them | `DeclarativeSets`, `TLAPS` |
| `Upkeep` | the version upgrade and the kubeconfig Secrets, the end of that step | - |
| `UpkeepProofs` | that Secrets of others are left alone | `Upkeep`, `TLAPS` |
| `MC...` | instances for TLC, with symmetry sets where a run uses them | the module of that name |

A definition marked "(variant)" in a comment is no part of a specification: it
is a plausible slip of the definition after it, and shows that the property
named in `PROJECT.json` notices that slip.

### ControlPlane

`cp` is the stored object, `cache` the informer's copy, `mem` / `base` the copy
the pass works on and the copy it started from (the patch helper's "before").
`pc` names the next remote call. `StartNormal` adds the finalizer *in memory*
(line 249); `CreateCluster`, `AdoptConflict` are the create call and the
adoption after a conflict; `ShowCluster` is the 404 / not available / available
switch with the endpoint backfill; `CreatePublicip`, `TagPublicip`, `BindEip`
are the calls of `BindClusterEip` and its clean-up; `Tail` is everything after
them, which either succeeds or returns before Ready; `PatchObject` and
`PatchStatus` are the two halves of `scope.Close`. The delete path is
`StartDelete` ... `ReleaseFinalizer`, whose `Update` checks the version.

Abstractions. An address is named by the cluster or EIP it leads to. `named`
says whether the object passes the name guard (the control plane is called
after its Cluster). The version check of `Update` is equality of the stored
object with the one read: the model object holds a subset of the real fields,
so this admits every update the API server admits, and more. The cloud's rules (unique
names, asynchronous create and delete, quota = the finite set of IDs) are
external and taken from how the code uses them.

### ControlPlaneContract

An object that comes, records at most one CCE cluster, becomes Ready and leaves,
beside the clusters of the account. `Report` is the heart of it: a status write
keeps the record, forgets it (`MayForget`: its cluster is gone, or *some* cluster
of the object's past is, the case of section 6), or records an owned cluster
where no live one was recorded (`MayRecord`). `Leave` is the finalizer's promise.
`ControlPlane` maps onto it by `Shown` and `Standing` (`Promise == INSTANCE
ControlPlaneContract WITH ...`, `KeepsContract == Promise!Spec`), and
`MachinePool` runs its actions as surroundings (`Ctl`). A machine-pool result
therefore rests on nothing that `ControlPlane` was not shown to keep.

### GarbageCollector

The sweep's listings and single deletions are separate steps of a process
beside every step of `ControlPlane`; `ForceRemove` is a user who strips
finalizers. `born` is a history variable: the creation of the Cluster during
which a cloud cluster appeared. Both processes run in the leader, on one cache.
Phase 2 follows in the code's order, EIPs, volumes, VPCs, gateways, with all
resource types switched on (`--gc-resource-types`, off by default). The master
EIPs are those of `ControlPlane`. The managed network, with its volumes, is `net`,
one resource of a kind: it comes with the infrastructure flag, goes before its
Cluster in an orderly deletion and stays behind in a forced one (`NetFollows`);
what blocks the deletion of what is external (`Needs`), and `Removes` says which
blockers a delete call takes away itself.

### Identity and ClusterTags

A pass of the control plane (`cp`), of a pool (`pool`) or of the CCECluster
(`shell`) goes through `Begin` (which reference: `Chain`), `GetIdentity`,
`CheckNamespace`, `ResolveKeys`, for a role identity `ListAgencies`,
`CreateAgency`, `AssumeAgency`, and then does its work. Between any two of these
users edit identities (as far as the webhooks let them), references, labels,
Secrets, the trust policy and the declared tags, the console removes agencies and
writes tags, and `CreatorGet` / `CreatorCreate` make the default identity. What
the pass does is reduced to the tags of the cluster (`Work`, `WriteTags`) and to
the release of its object. `ClusterDeletion` is Cluster API's order: pools,
control plane, CCECluster. `seen` is a history variable: what identities and
labels a pass in flight could have read.

A tag is absent, as declared, or drifted. `planClusterTags` is the list of two
batches, deletions first; the platform refuses a batch beyond its limit
(external). Key and value syntax (`Tags.Validate`) is settled by the choice of
keys. All identities lead to one account.

### DeclarativeSets

`reconcileAddons`, `reconcilePodIdentityAssociations` and
`reconcileAccessPolicies` have one shape: list, create what is missing or bring
what drifted in line, remove what is ours and undeclared, latch a ledger. `kind`
says which of them a behaviour is about (they use separate APIs and fields; an
error of an earlier one is a pass that does not get here). They differ in what
makes an item ours (`Managed`: the ledger, or the owned tag), in what happens to
a foreign item of a declared name (add-on: updated and not taken over; identity:
skipped; policy: `RefuseCollision`), and in the ledger (`Applied`). `cloud` gives
each name its history: `ours`, `gone` (ours, deleted), `foreign`, `reused`
(somebody else's under a name we used); the scope `other` holds policies of other
clusters. `seen` is the listing a pass works from, and every create, update and
delete is a step of its own. The two loops are taken in any order of names, as
lists and Go maps may have any. A policy's content is one opaque value; an
add-on may leave its version open (`Any`).

### Upkeep

A pass over an Available cluster from the upgrade to Ready. `Begin` shows the
cluster and backfills the endpoint; `FirstStep` is the branch to
`pollUpgradeTask`, to `startUpgrade` (`GetUpgradeInfo`, then the calls of
`StartUpgrade`: `ShowClusterUpgradeInfo`, `CreateUpgradeWorkFlow`, `CreatePreCheck`,
which the platform refuses when the version shown is no longer the running one, and
`UpgradeCluster`) or to the Secrets. The first two always end the pass. Each of
the two Secrets is checked on the informer's copy and fetched
(`GetClusterKubeconfig`), then created, or read, owner-checked and updated under
the version check (`ensureKubeconfigSecret`). A Secret is controlled by the control
plane, or somebody else's with the cluster label, or somebody else's without; the
check lets the first two through (`MayOverwrite`). A version is its major.minor, as
`sameMajorMinor` compares it; whether a declared string matches an offered one is
part of `offers`. `addr` is the endpoint `preferredEndpoint` would choose. The
platform runs one upgrade at a time (external).

### Requeue

Each access to the tracker takes the mutex for itself, so a pass is up to six
steps: read the counter (`Begin`), return, which counts a throttle or a quota
(`Return`), check the generation, close the scope, whose error discards the delay
(`Close`), read the counter again (`CheckClean`), and reset it (`Reset`), which does
not look any more. `Controllers` are the controllers that meet on one name. Two
history variables say what went on between the two reads of a pass: `counted`,
whether a failure was counted, by itself or another; `wiped`, whether another pass
reset the counter (until this one has ended).

### MachinePool

Same pass structure. `ctl` and `ctlSeen` are the control plane, which moves by
the actions of `ControlPlaneContract`, and the copy of it the controller reads,
`target` the cluster ID a pass took from it, `dropped` the clusters whose record
the control plane gave up while they lived. `owner`
is the MachinePool's `spec.replicas`, `external` its autoscaler annotation
(fixed, either way). Attributes are opaque values; provider IDs, tags and
repair are the step `Tail`, which succeeds or fails. `unsettled` is a history
variable: the pools that were adopted, or updated, and whose attributes no status
patch has recorded since.

### Network

One step per resource of `EnsureNetwork` and of `DeleteNetwork`. A resource is
`ours` when the provider made it and `tagged` when it carries the owned tag: a
security group is created without one, and so is an EIP whose tagging failed.
A plain failure (`Fault`) has no effect and is answered; a `Loss` is a lost
answer, a lost patch, a restart, a stranger's resource of the same name, or a pass that
starts from a cache behind the store (`Reads`). The
model has one node subnet and a managed VPC; referenced and adopted VPCs,
several subnets and CIDR arithmetic are left out. The cloud refuses to delete
what is in use (external).

## 3. Runs

| Run | Question | Bounds and why they suffice |
|---|---|---|
| `ControlPlaneSafety` | Does a pass hold only owned clusters, release cleanly and keep the contract, whatever it read? | three clusters: a stranger's or an orphan, the first one, its replacement; two EIPs; one failure or restart at any point (the theorems have any number); two lives, so that a pass of the first meets the second |
| `ControlPlaneLiveness` | Does a wanted object get (back) its cluster and become Ready, and a deletion end? | one failure of any kind at any point, including the delete job that falls back and the console deletion |
| `GarbageCollector` | Can a sweep delete a cluster just created, or make the controller break its contract? Are clusters, EIPs, gateway and volumes of a Cluster that is gone collected for good? | two clusters (one to lose, one to find), one EIP; one failure, e.g. the forced removal, the lost answer or the failing delete that makes the orphan; one life of the Cluster, which sweeps straddle at both ends (further lives are the theorem's) |
| `Requeue` | Doubling, cap, reset, with a shared counter | two controllers, one with and one without the generation check; six failures in a row reach the cap from every base (90 s needs six) |
| `MachinePoolSafety` | As for the control plane, with a second stale object | three pools and two clusters: the cluster is replaced and an old pool of the same name lingers |
| `MachinePoolLiveness` | Deletion, counts, attributes | one failure, one loss, one edit of the desired state at any point; one node pool, so that after its loss none is left to re-create |
| `Network` | Is the network built and torn down completely, from the provider's own resources? | two IDs per kind (one to lose, one to replace it), two failures, which the clean-up of an untagged EIP needs, one loss or stale read (the theorems have any number; with two, section 6); the identifiers of a kind are handed out in one order (`InOrder`), which loses no behaviour but in their names |
| `DeclarativeSets` | Does the ledger stay sound, and do the sets converge, when a round breaks off in the middle? | two names, so that one call of a round fails after another succeeded; two versions; one failure, lost answer or restart, one act of a stranger, one edit; reads in step and stale |
| `Upkeep` | Is an offered version reached, are both Secrets rotated and moved along with the endpoint, and foreign ones left alone? | two versions, two tasks (one may be lost or fail), one failure, one edit, one act of time, user or platform at any point |
| `Identity` | Is an identity used only where it was allowed, does a deletion find credentials, do tags converge? | all kinds of references and namespaces; limit of three tags with two user keys, so that the limit binds; two failures or edits at any point; one pass in flight at a time: passes of different controllers share only the agency and the existence of the control plane, and the console's changes of the agency stand for what another pass would do to it (the theorem has any number) |
| `FinalizerGuards`, `ForeignSpared` | Claims of the repository's comments that the code does not keep | small instances: the counterexamples are short |

What the passing runs show:

- **ReleaseClean / PoolReleaseClean / NetworkReleaseClean**: an object with the
  finalizer leaves the API server only when the cloud resources *its stored
  state* names are gone. For the control plane and the pools this holds under
  stale reads because the last write is a version-checked `Update`. The network's
  last write is a merge patch, so its property is about the IDs the releasing pass
  had read: those are gone, whichever of the teardown's steps failed in earlier
  passes; what was stored after the read is released over (section 6).
- **KeepsContract / PoolRecordKept**: no merge patch, however stale its base,
  replaces the ID of a live recorded resource by another one. The reason is not
  visible in any one function: a stale pass that creates again meets the
  conflict and adopts the very cluster the store records. One case clears the
  ID, and the contract names it (`MayForget`): a cluster is lost while the cache
  lags (section 6).
- **PoolReleaseClean** is checked beside any control plane that keeps the
  contract, and so names the consequence of that case: a pool whose cluster the
  control plane dropped from its record is released without a look.
- **BoundTagged**: an EIP that a stale pass displaces from the record bears the
  tag, so that the sweep finds it (**TaggedEipsCollected**).
- **PassSound / PoolOwnedOnly / AdoptsOwned**: no record and no pass holds a
  resource that is not the provider's.
- **PassSound** also says what a pass has established at each step (section 5).
- **SelfHeals, BecomesReady, DeletionCompletes** and their counterparts: the
  loops converge after every bounded sequence of failures.
- **EipKept**: an EIP that could be neither tagged nor deleted is visible to no
  sweep; no step leaves one behind unrecorded, but a loss, or the patch of a pass
  that read another EIP than the one stored.
- **AttrsConverge**: attributes reach the pool after failed calls, lost answers and
  restarts alike, and after everything the control plane and the console may do to
  the pool, as long as it is `Attainable`: a living cluster is recorded, the recorded
  pool is not lost, and one is left to create. Its other escape is a state too, not a
  failure: the record agrees with the spec while the pool is `unsettled`
  (`Misjudged`, section 6). **ReplicasConverge** shares the first.
- **SparesCreated** depends on the order of the two listings (cloud first, then
  CRs); with the order reversed TLC finds a fresh cluster deleted.
- **ContractBesideSweep**: the sweep and users who strip finalizers act between
  the calls of a pass on the cached object, and on the resources it holds; every
  step but the stripping itself is still one of the contract's. What the machine
  pools rely on is the same with the feature gate on.
- **NetworkCollected** takes two sweeps: the EIP phase comes before the gateway's
  and is refused while the SNAT rules stand.
- **CappedDoubling** compares the loop of `delay` with the closed form (`Waits`).
- **TunedNotShortened / StaysEscalated**: the side effects by which a tuned delay
  is recognised can be hidden in one way only, a reset by a second controller on
  the same name between the pass's reads. A failure that the pass or another one
  counts between them keeps the counter; one counted after the last read does not
  (section 6).
- **PermittedUse**: what a pass uses was allowed by some form the identity had
  during the pass, with labels the namespace had during the pass. The two need
  not have held at one moment: the code reads one after the other.
- **DeletionThroughIdentity**: pools and control plane of an identity-based
  cluster go without the Secret of the Cluster. The CCECluster with a managed
  network does not (section 6).
- **TagsConverge** needs deletions before creations at the limit of tags.
- **LedgerSound / SparesForeign**: an add-on or policy that was there before is
  never taken for the provider's own and never removed, also when listing, calls,
  strangers and stale ledgers interleave. **DeclaredApplied** and
  **UndeclaredRemoved**: a round that fails half-way is caught up on, save for the
  cases of section 6.
- **UpgradeReaches**: an upgrade whose task ID is lost with the answer, or in a
  stale patch, still ends at the declared version, because every pass starts from
  the running version. **KubeconfigRotated / ServerFollows** hold as long as the
  upgrade lets the pass through. **SecretsSpared**, for Secrets that are neither
  controlled nor labelled, rests on the version check: the owner is checked on a
  cached copy.
- **CountReported** holds although a pass that sees the wanted count ends
  without a requeue, thanks to the informer's resync.

Deadlock is not checked in the runs of controllers: once bounds are used up and
the object is gone nothing is left to do. It is checked in `Requeue`.
Identifiers are symmetric in the safety runs; runs with temporal properties of
the `~>` kind use no symmetry.

## 4. Fairness

Weak fairness of the worker as a whole: every pass ends in `RequeueAfter`, an
error (which controller-runtime retries), or in a state whose next change is a
watch event. A machine-pool pass at the wanted count is the exception; there
the informer's periodic resync (10 h, controller-runtime's default) brings the
worker back. Weak fairness of the informers, of the infrastructure flag, of the
cloud finishing what it accepted, and of the sweep's ticker. In `Identity` each
controller's passes are strongly fair, because the bound on passes in flight
makes controllers take turns that they do not take in the program; the creator of
the default identity follows every event and resync of a control plane; Cluster
API carries a deletion on once it has begun. Failures, crashes
and users are never fair, and failures are finite in number.

## 5. Proofs

### ControlPlaneProofs

`ControlPlaneProofs` proves, for every set of identifiers, every bound, both
values of `Public` and of `StaleReads`:

- `TypeCorrect`: `Spec => []TypeOK`;
- `PassSoundAlways`: `Spec => []PassSound`;
- `OwnedOnlyAlways`: `Spec => []OwnedOnly`;
- `ReleaseCleanAlways`: `Spec => ReleaseClean`;
- `BoundTaggedAlways`: `Spec => []BoundTagged`;
- `KeepsContractAlways`: `Spec => KeepsContract`.

The assumptions are those of the module: `None` is no identifier, clusters and
EIPs have distinct identifiers, switches are Booleans, bounds are naturals.

`OwnedOnly` and `ReleaseClean` are not inductive. A delete pass removes the
finalizer on the strength of two lookups made several steps, and many steps of
others, earlier. `PassSound` says what those lookups still mean: up to
`dUnbind` the pass's object is the one it read; at `dUnbind` and `dRelease` the
cluster that object names is gone; at `dRelease` its EIP is too. That this stays
true needs that the cloud only moves forward (`CloudMovesForward`,
`EipsMoveForward`: no identifier comes back, no owned tag is lost), which for
an identifier held by a pass needs that it was handed out at all: hence the
first conjunct, that every identifier held anywhere names something that exists
or existed and is ours. `NormalFlow` and `OtherFlow` bound where an identifier
held after a step can come from. The last step is the version check: the object
removed equals the one the pass read.

TLC checks `TypeOK` and `PassSound` as invariants of `ControlPlaneSafety`.

`BoundTagged` is strengthened by `TagSound`: a pass about to bind has tagged (and
a tag stays).

`KeepsContract` says that `ControlPlane` implements `ControlPlaneContract`.
Initial states map to initial states, and each of the controller's and the
surroundings' actions maps to a contract action or a stutter. Most steps only
need types and `PassSound`. The one that does not is the status patch: nothing in
it says that the ID it writes may be written. `PromiseInv` does: `NameSound` (at
most one cluster of the name is alive, and it is the only one a pass can create or
adopt) and `PatchSound`, which says of the pass's two copies that the ID did not
change, or was cleared because the cluster that was read is gone, or was filled in
where none was read, and then with the very cluster the store records, if that one
is alive.

### DeclarativeSetsProofs

For every set of names and versions and every bound:

- `TypeCorrect`: `Spec => []TypeOK`;
- `LedgerSoundAlways`: `Spec => []LedgerSound`;
- `SparesForeignAlways`: `Spec => SparesForeign`.

`LedgerSound` is not inductive: `Latch` writes every declared name that was not
listed when the pass began, many steps later. `WorkSound` bridges that gap: a
declared name the pass has dealt with does not collide, and if it was not listed
it has been made (`AppliedSound` draws the conclusion). That this survives the
steps of others is `Forward`: a name this provider used once never looks unused
again. `LedgerFlow` says that a ledger after a step has only names some ledger
held before it, or the names latched. `SparesForeign` then follows from the two
guards of a removal: in scope, and in a sound ledger or tagged.

### GarbageCollectorProofs

`SparesCreatedAlways`: `GCSpec => SparesCreated`, for every number of lives and
failures, where the run has one life. The strengthening `GCInv` dates clusters:
no cluster is younger than the Cluster's current life, and when the index does
not know a Cluster that exists by now, everything the sweep listed is older than
it (`Ages`). This is where the order of the two listings enters.

`ContractBesideSweepAlways` (`GCSpec => ContractBesideSweep`) and
`PassSoundBesideSweep` (`GCSpec => []PassSound`) carry the control plane's results
over to the composition, in which the sweep and forced removals are new steps. For
the controller's own steps the lemmas of `ControlPlaneProofs` are used as they
stand: they speak of single steps from states that satisfy the invariants. The new
steps have one shape (`Beside`): they leave the pass alone, and at most start the
deletion of one cluster, release one EIP, or remove the object. `BesideForward`
shows that this moves the cloud forward only and leaves a cluster answering until
it is gone, and `BesideSound` that `PassSound`, `TagSound` and `PromiseInv` survive
it. An object that vanishes under a pass does no harm because the pass's patches
find none, or a successor that records nothing yet. Working this out showed that
`BindEip` has to ask for an EIP that is still there (`Bindable`): only the sweep can
release it between the two calls.

### RequeueProofs

For any set of controllers that share a name and any number of failures:

- `StaysEscalatedAlways`: `Spec => StaysEscalated`;
- `CappedDoublingAlways`: `Spec => CappedDoubling`;
- `TunedNotShortenedAlways`: `Spec => []TunedNotShortened`.

The invariant of the first is `CountInv`. Its part `PassCount` says of a pass
between its reads that, unless another one reset the counter under it, the counter
is at least what the pass read, and more once a failure was counted; so a pass that
reads the old value again and goes on to reset is one during which nothing was
counted, or beside which the counter was wiped. The second is about a loop: `Doubled` is a recursive function
over the number of failures, `Waits` the closed form. `DoubledWaits` proves them
equal for every number, which is an induction. The induction schemes of the library
cannot be used with the provers at hand, so it goes by the least counterexample
(`LeastNumber`, from the well-foundedness of `<`): the loop's own equation
(`DoubledLoops`, which exhibits a function that satisfies it) and the closed form's
(`WaitsTurn`) take the same value to the same value. The third adds, to `CountInv`,
that the delay a pass holds is one that its outcome prescribes and is no shorter than the base
of its class (`TunedInv`).

### IdentityProofs

`PermittedUseAlways`: `Spec => []PermittedUse`, for any number of passes in
flight, failures and edits. The invariant follows a pass through its lookups:
what it holds of the identity is something the identity was during the pass
(`ReadDuring`), and past the check that allowed the namespace (`CheckedDuring`).

`PlanReaches` is about the operators of `ClusterTags`: from any tags a pass may
find, and for any declared set the webhook admits, both batches are within the
platform's limit, their result is exactly the declared tags and the provider's, and
between them no tag that is to stay has been taken away. It is the step on which
`TagsConverge` rests (which itself is liveness), for every limit and any number of
keys; it holds at the limit because deletions come first (`AfterDeletions`) and the
webhook keeps two slots for the provider (`DeclaredFit`).

### UpkeepProofs

`SecretsSparedAlways`: `Spec => SecretsSpared`, for any versions, tasks and bounds.
A pass writes only the Secret it is at (`SecretStep`), and a write either creates
where nothing is or, by the version check, updates the very Secret whose owner it
checked (`WriteSpares`).

### MachinePoolProofs

- `TypeCorrect`: `Spec => []TypeOK`;
- `PoolOwnedOnlyAlways`: `Spec => []PoolOwnedOnly`.

`PoolOwnedOnly` is not inductive. A pass takes its ID from the informer's copy,
so `IInv` asks the same of the copy (`HeldOwned`); and somebody may make a pool
in the console under any free identifier, so it also asks that a tagged pool
exists or existed (`TaggedBorn`). `HeldFrom` says where an ID held after a step
can come from, `TagsStay` that no step takes a tag away. The control plane enters
only through the actions of `ControlPlaneContract` (`ControlSteps`). The proof
needs one more assumption on the constants, that there are attributes to begin
with.

- `PoolReleaseCleanAlways`: `Spec => PoolReleaseClean`;
- `PoolRecordKeptAlways`: `Spec => PoolRecordKept`.

Both hold for either value of `StaleReads`, and neither is inductive: a pass
decides on what it read of the object and of the control plane, both of which
move on before it writes. `RecordInv` says what those readings are still worth:

- `ControlFollowed`: the cluster that was read from the control plane, and the
  one every tagged pool is in, is the one still recorded, or it was dropped from
  the record or has ended. This is where the contract of the control plane is used:
  it never records another cluster in the place of a live one.
- `PoolsSound`: a pool lives in a living cluster, and there is one of the name in
  each (the platform refuses a second). So a pool that is not listed in the
  cluster the pass looks at is lost (`NotFoundIsLost`), and a pass that creates
  against the record ends by adopting the recorded pool.
- `PassSound`: what the pass knows at each step about the pool that was recorded
  when it began; up to the finalizer the object is the one it read, and the
  version check of the last `Update` makes that the stored one.
- `DeletionStays`: a deletion once read is not taken back.

`PoolsOnward`, `ControlOnward` and `TargetFrom` bound what one step can do to
pools, control plane and target, so that each conjunct is proved once for all
steps rather than once per action.

### NetworkProofs

- `AdoptsOwnedAlways`: `Spec => []AdoptsOwned`;
- `EipKeptAlways`: `Spec => EipKept`;
- `NetworkReleaseCleanAlways`: `Spec => NetworkReleaseClean`.

All three hold however stale the reads and for any number of failures and losses.

`OursInv` strengthens `AdoptsOwned`: what bears the tag is the provider's, what
the provider made exists or existed (so nobody makes something else under its
ID), every SNAT rule names an EIP of the provider's, and the IDs of the cache are
its own too. `RecordInv` follows the record. Records only grow, so that a kind
recorded in a copy, however stale, is recorded in the store, and a pass only adds to
what it read (`Grown`); in every copy a deleting object has its finalizer
(`Guarded`), and an object without a VPC records nothing (`WellRecorded`), which is
why the delete pass may let it go without a teardown; and unless a step failed,
each step of the teardown leaves gone what the pass read of its kind (`TornDown`),
which stays so because what is the provider's does not come back (`DownKept`). None
of it asks for reads in step with the store. The proofs go by the shape of a step (`Shapes`:
start, work, teardown, patch, others) and not by its action.

### Only model-checked

Liveness: the prover has neither fairness nor ENABLED. Every invariant and every
action property of a passing run is a theorem, from no
assumptions but those the modules make of their constants.

## 6. Where the code and its comments part

Two runs end in a counterexample; `PROJECT.json` quotes the lines.

- `FinalizerGuards`: the finalizer is stored after the create call, so a
  deletion in between leaves a cluster behind (the sweep, if enabled, gets it).
- `ForeignSpared`: the teardown finds a NAT gateway by name alone.

Observed with the same models, or while reading for them, and not kept as runs:

- After a re-creation the old EIP ID stays in the status, so the new cluster of
  an object with `endpointAccess.public` never gets a public endpoint
  (controller line 387).
- A policy that was created in a round that then failed, or whose status patch
  was lost, is refused as "not managed by this provider" by every later pass
  (line 1204), which also keeps the object from Ready; an add-on in that
  position is left unmanaged and is never removed.
- A pass on a stale copy writes the ledger of that copy: an entry stored in the
  meantime is lost, and that add-on is never removed.
- A ledger entry outlives its item: if somebody re-installs an add-on under that
  name, its removal from the list deletes it.
- The agency of an existing pod-identity association is never compared.
- A scale that is pending when its node pool is lost fails on every pass (machine
  pool controller line 307), before the listing that would notice the loss, so
  the pool is not re-created.
- An upgrade task the platform no longer knows is polled for ever: the comment at
  `cce.go` line 1623 expects the controller to clear the ID, `pollUpgradeTask`
  returns the error and keeps it.
- A version that is declared and not offered ("a normal state, not an error")
  ends every pass before the Secrets: certificates are then not rotated.
- Ready stays set while an upgrade runs; `status.version` takes the declared
  version, which may have been edited while the task ran, where the field's
  comment says "as reported by CCE".
- When the internal address settles after the endpoint was recorded, the
  recorded one stays and the Secrets' server differs from it for good: every
  pass fetches a new certificate.
- Ready stays set while a lost cluster is re-created; the published endpoint
  keeps the address of the old cluster or EIP, and an object whose spec patch
  failed never publishes its endpoint.
- An EIP whose tag or bind fails, and whose clean-up fails too, stays behind
  although the error says it was released; a pass on a stale status binds a
  second EIP and records it over the first, without any failure.
- The ID of a living cluster (or node pool) can be cleared. A pass that read an
  empty ID is about to create; the cache moves to the ID an earlier pass had
  stored; that cluster disappears, the pass creates and records a new one; a
  further pass, on the copy that names the old one, meets the 404 and patches
  the empty ID over the new one. The next pass adopts the cluster again; a
  deletion in between does not see it.
  A machine pool deleted in between is released, and its nodes stay.
- A sweep may delete the cluster a re-created Cluster of the same name adopts.
- The phases over EIPs, volumes, VPCs and gateways list the cloud after the CRs
  were indexed: what is made in between for a Cluster created since is deleted,
  although `gc.go` lines 180 to 184 speak of resources "whose Cluster CR is gone".
  A VPC left behind is never collected: no phase deletes its subnets.
- The teardown of the managed network waits until the control plane is gone
  (`ccecluster_controller.go` line 331); by then the identity reference is gone
  with it and only the Secret `<cluster>-credentials` is looked for. A Cluster
  that runs on an identity and has no such Secret keeps its CCECluster for ever,
  where line 379 says "so identityRef-based clusters are not stuck". While the
  control plane is there, a failed read of it makes the CCECluster use the Secret
  instead of the identity.
- The environment as a last resort, promised by the comments (`credentials.go`
  line 20, controller line 260), is never reached: a control plane without
  reference has to have its Secret.
- A delete pass does not make the agency again that a normal pass would make: an
  agency removed in the console holds up the deletion.
- A reference may be changed to an identity of another account; a deletion then
  finds no cluster there and releases the object.
- Admission: the limit of user tags is 18, the comment in the control plane's
  webhook says 19; encryption may be switched on later and an authentication mode
  removed and set anew, although line 108 calls both immutable; a version or
  flavor may be lowered by way of an empty or an unknown one. Every update is
  validated in full, the removal of a finalizer too: a narrower `--valid-flavors`
  keeps pools of the old flavors from being released.
- Two controllers whose objects share a namespaced name share a failure counter.
  The deferred check and the reset lock it one after the other (controller lines
  142 and 143): a failure the other controller counts in between is wiped. If the
  other one resets the counter during a throttled pass, the pass's own failure
  brings it back to the value it had, and the pass is taken for a clean one, which
  the comment at lines 131 to 134 says must not happen.
  A fixed permission delay is not counted, so it resets the counter.
- An error of `scope.Close` (line 193) replaces a tuned result: the delay is dropped
  and the work queue's own backoff applies; the counter keeps the failure.
- A kubeconfig Secret somebody else made with the cluster label is overwritten (line
  811), although the comment of `ensureKubeconfigSecret` (lines 772 to 774) says it
  refuses what "the provider does not own".
- A node pool adopted after a lost create answer is recorded with the attributes
  the spec has by then, which the pool need not have; and when the answer or the
  record of an update is lost and the spec goes back, the record agrees with the
  spec and the pool has the other attributes. Nothing compares the record with the
  pool.
- A deletion that arrives while a node pool is being created leaves the pool.
- Network, with stale reads: a failed credential lookup stores the finalizer
  without IDs; the next pass creates the VPC while the user deletes the object;
  the pass stores the IDs; a further pass on the old copy sees none and removes
  the finalizer by a merge patch that checks no version. A normal pass on an old
  copy may likewise write another EIP over the one stored since. When such a pass
  also meets a failing list of the VPCs, it creates a second VPC and stores it over
  the first; if it ends before the subnet, the recorded subnet is in the other VPC
  and validation fails for good. The run does not see this one: it also takes a
  status patch lost before, which makes two losses.
- A security group bears no owned tag and is refused once its ID is lost; a
  subnet whose ID is lost blocks the deletion of its VPC; a list call that
  fails is read as "none", so a second VPC or security group is created; a
  gateway whose EIP's ID is lost gets no SNAT rule.

The liveness properties name these cases as escapes (`Stranded`, `Blocked`,
`Misjudged`, `Refused`, `TaskLost`, `UpgradeHolds`, and the negation of
`Attainable`) where they would otherwise be refuted by them.

## 7. Not modelled

- Webhooks beyond the rules that edits in the models obey, and API conversions:
  sequential validation of one object.
- The request throttle: a token bucket that delays calls. Any time may pass
  between two calls of the models, so a delay adds no behaviour.
- Start-up, feature gates and development tools: no state of the running system.
- Request building, quotas and SDK error parsing: data. Control-plane logging,
  node repair, provider IDs and node-pool tags are a step that succeeds or fails.
- Referenced and adopted VPCs, several subnets and CIDR arithmetic.
- Several accounts: a pass with other credentials sees the same resources.

## 8. Plan

What is left, in order:

1. referenced and adopted VPCs in `Network`;
2. node-pool tags, whose limit and merge differ from the cluster's.
