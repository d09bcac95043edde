-------------------------------- MODULE Upkeep --------------------------------
(***************************************************************************)
(* The end of a control-plane pass over an Available cluster: poll or      *)
(* start the version upgrade, then create or rotate the kubeconfig         *)
(* Secrets, then Ready.  An upgrade that is pending, refused or unknown    *)
(* returns before the Secrets.                                             *)
(***************************************************************************)
EXTENDS Naturals

CONSTANTS MaxVersion,   \* versions (major.minor) are 1..MaxVersion
          TaskIDs,      \* IDs of upgrade tasks
          None,         \* the empty string, nil
          MaxFaults,    \* bound: failed or unanswered calls, failed tasks, restarts
          MaxEdits,     \* bound: changes of spec.version
          MaxMoves      \* bound: acts of time, users and platform

ASSUME NoneAssumption == None \notin TaskIDs \cup Nat
ASSUME BoundAssumption == /\ MaxVersion \in Nat \ {0} /\ MaxFaults \in Nat
                          /\ MaxEdits \in Nat /\ MaxMoves \in Nat

VARIABLES
  obj, cache,           \* the control plane: stored, and the informer's copy
  running,              \* the version the cluster runs
  offers,               \* the versions the platform upgrades to
  task,                 \* the platform's upgrade tasks
  addr,                 \* the preferred endpoint of the API server
  secret, secretSeen,   \* the Secrets: stored, and the informer's copy
  pc, mem, base,        \* the pass, its object, the object as read
  current,              \* the version it found when it prepared an upgrade
  todo, server,         \* the Secret it is at, the server of its new kubeconfig
  faults, edits, moves

cloudVars == <<running, offers, task, addr>>
passVars == <<pc, mem, base, current, todo, server>>
vars == <<obj, cache, cloudVars, secret, secretSeen, passVars, faults, edits, moves>>

Versions == 1..MaxVersion

\* The internal address at creation, the one it settles on, the External one.
Addrs == {"created", "settled", "external"}

Object == [want : Versions \cup {None}, version : Versions \cup {None},
           task : TaskIDs \cup {None}, endpoint : Addrs \cup {None}, ready : BOOLEAN]
Blank == [want |-> None, version |-> None, task |-> None, endpoint |-> None, ready |-> FALSE]

Task == [state : {"unborn", "active", "Success", "Failed", "forgotten"},
         target : Versions \cup {None}]

\* The CAPI kubeconfig Secret and the users', in the order of the calls.
Secrets == {"kubeconfig", "user"}

\* owner: controlled by the control plane, somebody else's with the cluster label
\* on it, or somebody else's without.
\* cert: fresh, or within the refresh threshold, or not readable.
Secret == [owner : {"none", "ours", "labelled", "foreign"}, server : Addrs \cup {None},
           cert : {"fresh", "due", "unreadable"}]
NoSecret == [owner |-> "none", server |-> None, cert |-> "unreadable"]

Active == \E t \in TaskIDs : task[t].state = "active"

\* Targets are offered upwards only (external).
TargetVersions == {v \in offers : v > running}

Fault == faults < MaxFaults /\ faults' = faults + 1
NoFault == UNCHANGED faults
Move == moves < MaxMoves /\ moves' = moves + 1

-----------------------------------------------------------------------------

Init ==
  /\ running = 1 /\ offers \in SUBSET (Versions \ {1})
  /\ obj = [Blank EXCEPT !.want = 1]
  /\ cache = obj
  /\ task = [t \in TaskIDs |-> [state |-> "unborn", target |-> None]]
  /\ addr = "created"
  /\ secret = [s \in Secrets |-> NoSecret] /\ secretSeen = secret
  /\ pc = "idle" /\ mem = Blank /\ base = Blank /\ current = None
  /\ todo = "kubeconfig" /\ server = None
  /\ faults = 0 /\ edits = 0 /\ moves = 0

-----------------------------------------------------------------------------
(* A pass.                                                                 *)

\* Return: what follows is the deferred patch.
Return(o) == pc' = "patch" /\ mem' = o /\ UNCHANGED <<base, current, todo, server>>

\* An External endpoint always wins, an Internal one only fills an empty field.
Backfilled(o) == IF addr = "external" \/ o.endpoint = None THEN [o EXCEPT !.endpoint = addr] ELSE o

NeedsUpgrade(o, v) == o.want # None /\ o.want # v

FirstStep(o, v) ==
  CASE o.task # None -> "poll"
    [] o.task = None /\ NeedsUpgrade(o, v) -> "offer"
    [] OTHER -> "secret"

\* Read the object, show the cluster.  While a task is active the cluster may
\* or may not be Available; every error up to the upgrade ends the pass.
Begin ==
  /\ pc = "idle"
  /\ base' = cache /\ current' = None /\ todo' = "kubeconfig" /\ server' = None
  /\ \/ /\ NoFault
        /\ mem' = Backfilled(cache)
        /\ pc' = FirstStep(cache, running)
     \/ Active /\ NoFault /\ pc' = "patch" /\ mem' = cache
     \/ Fault /\ pc' = "patch" /\ mem' \in {cache, Backfilled(cache)}
  /\ UNCHANGED <<obj, cache, cloudVars, secret, secretSeen, edits, moves>>

\* (variant) the failed task stays recorded
FailureKeepsTask(o, state) ==
  IF state = "Success" THEN [o EXCEPT !.task = None, !.version = o.want] ELSE o

\* A finished task is cleared; a running one, and one the platform no longer
\* knows (an error), stay.
AfterTask(o, state) ==
  CASE state = "Success" -> [o EXCEPT !.task = None, !.version = o.want]
    [] state = "Failed" -> [o EXCEPT !.task = None]
    [] OTHER -> o

pollUpgradeTask ==
  /\ pc = "poll"
  /\ \/ NoFault /\ Return(AfterTask(mem, task[mem.task].state))
     \/ Fault /\ Return(mem)
  /\ UNCHANGED <<obj, cache, cloudVars, secret, secretSeen, edits, moves>>

Goto(p) == pc' = p /\ UNCHANGED <<mem, base, current, todo, server>>

\* startUpgrade: is the wanted version offered?
GetUpgradeInfo ==
  /\ pc = "offer"
  /\ \/ NoFault /\ mem.want \in TargetVersions /\ Goto("show")
     \/ NoFault /\ mem.want \notin TargetVersions /\ Return(mem)
     \/ Fault /\ Return(mem)
  /\ UNCHANGED <<obj, cache, cloudVars, secret, secretSeen, edits, moves>>

\* StartUpgrade: the running version is shown, ...
ShowClusterUpgradeInfo ==
  /\ pc = "show"
  /\ \/ /\ NoFault /\ pc' = "workflow" /\ current' = running
        /\ UNCHANGED <<mem, base, todo, server>>
     \/ Fault /\ Return(mem)
  /\ UNCHANGED <<obj, cache, cloudVars, secret, secretSeen, edits, moves>>

\* ... named in the workflow, ...
CreateUpgradeWorkFlow ==
  /\ pc = "workflow"
  /\ (NoFault /\ Goto("precheck")) \/ (Fault /\ Return(mem))
  /\ UNCHANGED <<obj, cache, cloudVars, secret, secretSeen, edits, moves>>

\* ... and again in the pre-check, which the platform refuses when it is no longer
\* the running one, or during an upgrade.
CreatePreCheck ==
  /\ pc = "precheck"
  /\ LET accepted == current = running /\ ~Active
     IN \/ NoFault /\ accepted /\ Goto("execute")
        \/ (Fault \/ (~accepted /\ NoFault)) /\ Return(mem)
  /\ UNCHANGED <<obj, cache, cloudVars, secret, secretSeen, edits, moves>>

Started(o, t) == [o EXCEPT !.task = t]

\* UpgradeCluster; its answer, with the task ID, may be lost.
UpgradeCluster ==
  /\ pc = "execute"
  /\ LET taken == ~Active /\ mem.want > running
     IN \/ \E t \in TaskIDs :
             /\ taken /\ task[t].state = "unborn"
             /\ task' = [task EXCEPT ![t] = [state |-> "active", target |-> mem.want]]
             /\ (NoFault /\ Return(Started(mem, t))) \/ (Fault /\ Return(mem))
        \/ (Fault \/ (~taken /\ NoFault)) /\ Return(mem) /\ UNCHANGED task
  /\ UNCHANGED <<obj, cache, running, offers, addr, secret, secretSeen, edits, moves>>

\* (variants) an old certificate, or any server, will do
NeverNeedsRefresh(s) == s.owner = "none"
AnyServer(s, o) == TRUE

kubeconfigNeedsRefresh(s) == s.owner = "none" \/ s.cert # "fresh"

kubeconfigSecretHasServer(s, o) == o.endpoint = None \/ (s.owner # "none" /\ s.server = o.endpoint)

\* The next Secret, or Ready.
NextSecret ==
  /\ IF todo = "kubeconfig"
       THEN pc' = "secret" /\ todo' = "user" /\ UNCHANGED mem
       ELSE pc' = "patch" /\ mem' = [mem EXCEPT !.ready = TRUE] /\ UNCHANGED todo
  /\ server' = None /\ UNCHANGED <<base, current>>

\* A kubeconfig for the preferred endpoint; when it cannot be read, for the
\* address the certificate call happened to give.
GetClusterKubeconfig ==
  /\ pc = "secret"
  /\ IF kubeconfigNeedsRefresh(secretSeen[todo]) \/ ~kubeconfigSecretHasServer(secretSeen[todo], mem)
       THEN \/ /\ (NoFault /\ server' = addr) \/ (Fault /\ server' \in Addrs)
               /\ pc' = "write" /\ UNCHANGED <<mem, base, current, todo>>
            \/ Fault /\ Return(mem)
       ELSE NoFault /\ NextSecret
  /\ UNCHANGED <<obj, cache, cloudVars, secret, secretSeen, edits, moves>>

\* (variant) a Secret of any owner is overwritten
MayOverwriteAny(s) == TRUE

\* IsControlledBy or the cluster label, whoever put it there.
MayOverwrite(s) == s.owner \in {"ours", "labelled"}

\* Create, or on a conflict read (the cache), check the owner and update the data,
\* which checks the version.
WritesSecret ==
  /\ \/ secret[todo].owner = "none"
     \/ /\ secretSeen[todo].owner # "none" /\ MayOverwrite(secretSeen[todo])
        /\ secretSeen[todo] = secret[todo]
  /\ secret' = [secret EXCEPT ![todo] =
       [owner |-> IF @.owner = "none" THEN "ours" ELSE @.owner, server |-> server, cert |-> "fresh"]]

ensureKubeconfigSecret ==
  /\ pc = "write"
  /\ \/ NoFault /\ WritesSecret /\ NextSecret
     \/ Fault /\ WritesSecret /\ Return(mem)
     \/ /\ secret[todo].owner # "none"
        /\ ~(MayOverwrite(secretSeen[todo]) /\ secretSeen[todo] = secret[todo])
        /\ NoFault /\ Return(mem) /\ UNCHANGED secret
     \/ Fault /\ Return(mem) /\ UNCHANGED secret
  /\ UNCHANGED <<obj, cache, cloudVars, secretSeen, edits, moves>>

EndPass == /\ pc' = "idle" /\ mem' = Blank /\ base' = Blank /\ current' = None
           /\ todo' = "kubeconfig" /\ server' = None

\* A merge patch writes the fields the pass changed.
Merged(new, old, stored) == IF new # old THEN new ELSE stored

Close ==
  /\ pc = "patch"
  /\ \/ /\ NoFault
        /\ obj' = [obj EXCEPT !.version = Merged(mem.version, base.version, @),
                              !.task = Merged(mem.task, base.task, @),
                              !.endpoint = Merged(mem.endpoint, base.endpoint, @),
                              !.ready = Merged(mem.ready, base.ready, @)]
     \/ Fault /\ UNCHANGED obj
  /\ EndPass
  /\ UNCHANGED <<cache, cloudVars, secret, secretSeen, edits, moves>>

Reconcile ==
  \/ Begin \/ pollUpgradeTask
  \/ GetUpgradeInfo \/ ShowClusterUpgradeInfo \/ CreateUpgradeWorkFlow \/ CreatePreCheck
  \/ UpgradeCluster
  \/ GetClusterKubeconfig \/ ensureKubeconfigSecret \/ Close

-----------------------------------------------------------------------------
(* The surroundings.                                                       *)

\* The webhook refuses a lower version than the declared one.
UserEdits(w) ==
  /\ edits < MaxEdits /\ edits' = edits + 1
  /\ w # obj.want /\ (w # None /\ obj.want # None => w > obj.want)
  /\ obj' = [obj EXCEPT !.want = w]
  /\ UNCHANGED <<cache, cloudVars, secret, secretSeen, passVars, faults, moves>>

CacheSync ==
  /\ cache # obj /\ cache' = obj
  /\ UNCHANGED <<obj, cloudVars, secret, secretSeen, passVars, faults, edits, moves>>

SecretSync ==
  /\ secretSeen # secret /\ secretSeen' = secret
  /\ UNCHANGED <<obj, cache, cloudVars, secret, passVars, faults, edits, moves>>

TaskEnds(t) ==
  /\ task[t].state = "active"
  /\ \/ /\ NoFault /\ task' = [task EXCEPT ![t].state = "Success"]
        /\ running' = task[t].target
     \/ Fault /\ task' = [task EXCEPT ![t].state = "Failed"] /\ UNCHANGED running
  /\ UNCHANGED <<obj, cache, offers, addr, secret, secretSeen, passVars, edits, moves>>

TaskExpires(t) ==
  /\ task[t].state \in {"Success", "Failed"} /\ Move
  /\ task' = [task EXCEPT ![t].state = "forgotten"]
  /\ UNCHANGED <<obj, cache, running, offers, addr, secret, secretSeen, passVars, faults, edits>>

\* The internal address settles, or an EIP is bound.
EndpointMoves ==
  /\ addr # "external" /\ Move
  /\ addr' \in {"settled", "external"} \ {addr}
  /\ UNCHANGED <<obj, cache, running, offers, task, secret, secretSeen, passVars, faults, edits>>

CertAges(s) ==
  /\ secret[s].cert = "fresh" /\ Move
  /\ secret' = [secret EXCEPT ![s].cert = "due"]
  /\ UNCHANGED <<obj, cache, cloudVars, secretSeen, passVars, faults, edits>>

\* A user deletes a Secret, or puts one of their own in its place, which may bear
\* the cluster label.
UserSecret(s) ==
  /\ Move
  /\ \E own \in {"none", "labelled", "foreign"} :
       /\ secret[s] # [NoSecret EXCEPT !.owner = own]
       /\ secret' = [secret EXCEPT ![s] = [NoSecret EXCEPT !.owner = own]]
  /\ UNCHANGED <<obj, cache, cloudVars, secretSeen, passVars, faults, edits>>

Crash ==
  /\ pc # "idle" /\ Fault /\ EndPass
  /\ UNCHANGED <<obj, cache, cloudVars, secret, secretSeen, edits, moves>>

Next ==
  \/ Reconcile \/ CacheSync \/ SecretSync \/ EndpointMoves \/ Crash
  \/ \E w \in Versions \cup {None} : UserEdits(w)
  \/ \E t \in TaskIDs : TaskEnds(t) \/ TaskExpires(t)
  \/ \E s \in Secrets : CertAges(s) \/ UserSecret(s)

Spec == Init /\ [][Next]_vars

\* Every pass asks to be requeued; informers catch up; a task ends.
FairSpec ==
  /\ Spec /\ WF_vars(Reconcile) /\ WF_vars(CacheSync) /\ WF_vars(SecretSync)
  /\ WF_vars(\E t \in TaskIDs : TaskEnds(t))

-----------------------------------------------------------------------------
(* Properties.                                                             *)

\* The values the code can produce (the shape of the state).
TypeOK ==
  /\ obj \in Object /\ cache \in Object /\ mem \in Object /\ base \in Object
  /\ running \in Versions /\ offers \subseteq Versions
  /\ task \in [TaskIDs -> Task] /\ addr \in Addrs
  /\ secret \in [Secrets -> Secret] /\ secretSeen \in [Secrets -> Secret]
  /\ pc \in {"idle", "poll", "offer", "show", "workflow", "precheck", "execute",
             "secret", "write", "patch"}
  /\ current \in Versions \cup {None} /\ todo \in Secrets /\ server \in Addrs \cup {None}
  /\ faults \in 0..MaxFaults /\ edits \in 0..MaxEdits /\ moves \in 0..MaxMoves

\* SecretsSpared: a Secret that the control plane does not control and that does
\* not bear the cluster label is never overwritten, also when it took the place of
\* ours after the cache was read.
SecretsSpared ==
  [][\A s \in Secrets : secret[s].owner = "foreign" => secret'[s] = secret[s] \/ moves' # moves]_vars

\* The recorded task is one the platform no longer knows: every poll fails.
TaskLost == obj.task # None /\ task[obj.task].state = "forgotten"

\* The pass returns at the upgrade: one is pending, not offered, or lost.
UpgradeHolds == TaskLost \/ NeedsUpgrade(obj, running)

\* A Secret that may not be overwritten is in the way of this one.
Foreign(s) == \E r \in {"kubeconfig", s} : secret[r].owner = "foreign"

\* UpgradeReaches: a declared version the platform offers is reached, also when
\* a task fails, or its ID is lost with the answer or in a stale patch.
UpgradeReaches ==
  \A v \in Versions :
    (obj.want = v /\ v \in TargetVersions)
      ~> (running = v \/ obj.want # v \/ v \notin TargetVersions \/ TaskLost)

\* KubeconfigRotated: a certificate within the refresh threshold is replaced,
\* unless an upgrade holds the pass back.
KubeconfigRotated ==
  \A s \in Secrets :
    secret[s].cert = "due" ~> (secret[s].cert # "due" \/ UpgradeHolds \/ Foreign(s))

\* ServerFollows: when the cluster gets a public endpoint, both Secrets lead there.
ServerFollows ==
  \A s \in Secrets :
    addr = "external" ~> (secret[s].server = "external" \/ UpgradeHolds \/ Foreign(s))
=============================================================================
