--------------------------- MODULE DeclarativeSets ---------------------------
(***************************************************************************)
(* The declarative sets of the control plane: add-ons, pod-identity        *)
(* associations and access policies.  Each is a list in the spec that a    *)
(* pass compares with a listing of the cloud, one call per difference.     *)
(* What may be removed again is known from a ledger in the status (add-ons *)
(* and policies, which carry no tags) or from the owned tag (identities).  *)
(* The three loops use separate APIs and separate fields, so a behaviour   *)
(* is about one of them.                                                   *)
(***************************************************************************)
EXTENDS Naturals

CONSTANTS Names,         \* names of add-ons or policies, service accounts
          Versions,      \* an add-on's version, a policy's content
          Absent,        \* not in the list
          Any,           \* an add-on without a pinned version
          MaxFaults,     \* bound: failed or unanswered calls, restarts
          MaxStrangers,  \* bound: changes of the cloud by others
          MaxEdits       \* bound: changes of the spec

ASSUME NameAssumption == Absent \notin Versions /\ Any \notin Versions /\ Any # Absent
ASSUME BoundAssumption == MaxFaults \in Nat /\ MaxStrangers \in Nat /\ MaxEdits \in Nat

VARIABLES
  kind,      \* which of the sets this is
  stale,     \* may a pass start from a cache behind the store?
  obj,       \* the control plane in the API server: list, ledger, condition
  cache,     \* the informer's copy
  cloud,     \* what the account holds, by scope and name
  pc, mem, base,   \* the pass: where it is, its object, the object as read
  seen,      \* the listing the pass works from
  done,      \* the differences it has dealt with
  faults, strangers, edits

passVars == <<pc, mem, base, seen, done>>
vars == <<kind, stale, obj, cache, cloud, passVars, faults, strangers, edits>>

Kinds == {"addon", "identity", "policy"}

\* Policies belong to the account; "other" are those of other clusters only.
Scopes == {"here", "other"}

\* gone: this provider's, deleted; reused: somebody else's under such a name.
Item == [who : {"none", "ours", "gone", "foreign", "reused"}, val : Versions \cup {Absent}]
NoItem == [who |-> "none", val |-> Absent]

Wants == Versions \cup {Absent, Any}
Object == [want : [Names -> Wants], ledger : SUBSET Names, cond : BOOLEAN]

Blank == [want |-> [n \in Names |-> Absent], ledger |-> {}, cond |-> FALSE]

Present(i) == i.who \in {"ours", "foreign", "reused"}

NoCloud == [s \in Scopes |-> [n \in Names |-> NoItem]]

\* Only an add-on may leave its version open.
Wantable(w) == kind # "addon" => w # Any

Fault == faults < MaxFaults /\ faults' = faults + 1
NoFault == UNCHANGED faults

-----------------------------------------------------------------------------
(* Initial states: some list, and perhaps an item somebody else made (a    *)
(* platform default, a policy of another cluster).                         *)

Init ==
  /\ kind \in Kinds /\ stale \in BOOLEAN
  /\ \E v \in Versions :
       obj \in [want : [Names -> {Absent, v}], ledger : {{}}, cond : {FALSE}]
  /\ cache = obj
  /\ \/ cloud = NoCloud
     \/ \E s \in Scopes, n \in Names, v \in Versions :
          /\ kind = "policy" \/ s = "here"
          /\ cloud = [NoCloud EXCEPT ![s][n] = [who |-> "foreign", val |-> v]]
  /\ pc = "idle" /\ mem = Blank /\ base = Blank /\ seen = NoCloud /\ done = {}
  /\ faults = 0 /\ strangers = 0 /\ edits = 0

-----------------------------------------------------------------------------
(* What a pass makes of the list, the ledger and the listing.              *)

Undeclared(n) == base.want[n] = Absent
Listed(n) == Present(seen["here"][n])

OwnedTag(n) == seen["here"][n].who = "ours"
InLedger(n) == n \in base.ledger
Managed(n) == IF kind = "identity" THEN OwnedTag(n) ELSE InLedger(n)

\* A policy in scope that this provider did not make is an error.
Collides(n) == kind = "policy" /\ Listed(n) /\ ~Managed(n)

\* (variant) add-ons are not compared
NeverDrifted(n) == FALSE

\* An association is never compared with its declaration.
Drifted(n) ==
  /\ Listed(n) /\ kind # "identity"
  /\ base.want[n] # Any /\ base.want[n] # seen["here"][n].val

\* (variant) policies of other clusters count
EverywhereInScope(s) == TRUE

accessPolicyInScope(s) == s = "here"

\* Declared names that need a call, and items to remove.
ToEnsure ==
  {n \in Names : /\ ~Undeclared(n) /\ <<"here", n>> \notin done
                 /\ ~Listed(n) \/ Collides(n) \/ Drifted(n)}

\* (variant) tagged associations are left alone
RemovableByLedger(s, n) ==
  /\ Undeclared(n) /\ Present(seen[s][n])
  /\ InLedger(n) /\ accessPolicyInScope(s)

Removable(s, n) ==
  /\ Undeclared(n) /\ Present(seen[s][n])
  /\ Managed(n) /\ accessPolicyInScope(s)

ToRemove == {d \in (Scopes \X Names) \ done : Removable(d[1], d[2])}

\* (variant) every declared add-on is latched
LatchAll == {n \in Names : ~Undeclared(n)}

\* The ledger after a full round: add-ons this provider made (those not listed
\* were created on the way), all policies.
Applied ==
  {n \in Names : ~Undeclared(n)
                   /\ CASE kind = "addon" -> Managed(n) \/ ~Listed(n)
                        [] kind = "policy" -> TRUE
                        [] OTHER -> FALSE}

-----------------------------------------------------------------------------
(* A pass.                                                                 *)

EndPass == pc' = "idle" /\ mem' = Blank /\ base' = Blank /\ seen' = NoCloud /\ done' = {}

\* The error is returned: the ledger stays, the condition is there (False).
Fail ==
  /\ pc' = "patch" /\ mem' = [mem EXCEPT !.cond = TRUE]
  /\ seen' = NoCloud /\ done' = {} /\ UNCHANGED base

Did(s, n) == done' = done \cup {<<s, n>>} /\ UNCHANGED <<pc, mem, base, seen>>

\* No declaration, and no condition from an earlier one.
NeverDeclared(o) == ~o.cond /\ \A n \in Names : o.want[n] = Absent

\* Read the object and list the cloud, unless nothing is or was declared.
Start ==
  /\ pc = "idle" /\ (stale \/ cache = obj)
  /\ base' = cache /\ done' = {}
  /\ IF NeverDeclared(cache)
       THEN NoFault /\ pc' = "patch" /\ mem' = [cache EXCEPT !.cond = TRUE] /\ seen' = NoCloud
       ELSE \/ NoFault /\ pc' = "work" /\ mem' = cache /\ seen' = cloud
            \/ Fault /\ pc' = "patch" /\ mem' = [cache EXCEPT !.cond = TRUE] /\ seen' = NoCloud
  /\ UNCHANGED <<kind, stale, obj, cache, cloud, strangers, edits>>

\* Without a pinned version the platform chooses one.
Made(n, w) ==
  \E v \in IF w = Any THEN Versions ELSE {w} :
    cloud' = [cloud EXCEPT !["here"][n] = [who |-> "ours", val |-> v]]

\* Create what is missing.  The cloud refuses a name that was taken since.
CreateMissing(n) ==
  /\ pc = "work" /\ n \in ToEnsure /\ ~Listed(n)
  /\ LET free == ~Present(cloud["here"][n])
     IN \/ free /\ NoFault /\ Made(n, base.want[n]) /\ Did("here", n)
        \/ free /\ Fault /\ Made(n, base.want[n]) /\ Fail
        \/ ~free /\ NoFault /\ Fail /\ UNCHANGED cloud
        \/ Fault /\ Fail /\ UNCHANGED cloud
  /\ UNCHANGED <<kind, stale, obj, cache, strangers, edits>>

\* A policy of that name, made by somebody else (or not in the ledger).
RefuseCollision(n) ==
  /\ pc = "work" /\ n \in ToEnsure /\ Collides(n)
  /\ NoFault /\ Fail
  /\ UNCHANGED <<kind, stale, obj, cache, cloud, strangers, edits>>

\* An ID of the listing still leads to that item.
Same(s, n) == Present(cloud[s][n]) /\ cloud[s][n].who = seen[s][n].who

UpdateDrifted(n) ==
  /\ pc = "work" /\ n \in ToEnsure /\ Drifted(n) /\ ~Collides(n)
  /\ LET updated == cloud' = [cloud EXCEPT !["here"][n].val = base.want[n]]
     IN \/ Same("here", n) /\ NoFault /\ updated /\ Did("here", n)
        \/ Same("here", n) /\ Fault /\ updated /\ Fail
        \/ ~Same("here", n) /\ NoFault /\ Fail /\ UNCHANGED cloud
        \/ Fault /\ Fail /\ UNCHANGED cloud
  /\ UNCHANGED <<kind, stale, obj, cache, strangers, edits>>

Deleted(s, n) ==
  cloud' = IF Same(s, n)
             THEN [cloud EXCEPT ![s][n] =
                     [who |-> IF @.who = "foreign" THEN "none" ELSE "gone", val |-> Absent]]
             ELSE cloud

\* After the first loop: remove what is ours and no longer declared; an item
\* that is gone counts as removed.
RemoveUndeclared(s, n) ==
  /\ pc = "work" /\ ToEnsure = {} /\ <<s, n>> \in ToRemove
  /\ \/ NoFault /\ Deleted(s, n) /\ Did(s, n)
     \/ Fault /\ Deleted(s, n) /\ Fail
     \/ Fault /\ UNCHANGED cloud /\ Fail
  /\ UNCHANGED <<kind, stale, obj, cache, strangers, edits>>

\* Both loops are through: latch the ledger, mark the condition.
Latch ==
  /\ pc = "work" /\ ToEnsure = {} /\ ToRemove = {}
  /\ NoFault
  /\ pc' = "patch" /\ mem' = [mem EXCEPT !.ledger = Applied, !.cond = TRUE]
  /\ seen' = NoCloud /\ done' = {} /\ UNCHANGED base
  /\ UNCHANGED <<kind, stale, obj, cache, cloud, strangers, edits>>

\* A merge patch writes the fields the pass changed and no others.
Merged(new, old, stored) == IF new # old THEN new ELSE stored

\* The status patch of scope.Close.
PatchStatus ==
  /\ pc = "patch"
  /\ \/ /\ NoFault
        /\ obj' = [obj EXCEPT !.ledger = Merged(mem.ledger, base.ledger, @),
                              !.cond = Merged(mem.cond, base.cond, @)]
     \/ Fault /\ UNCHANGED obj
  /\ EndPass
  /\ UNCHANGED <<kind, stale, cache, cloud, strangers, edits>>

-----------------------------------------------------------------------------
(* The surroundings.                                                       *)

UserEdits(n, w) ==
  /\ edits < MaxEdits /\ edits' = edits + 1
  /\ Wantable(w) /\ obj.want[n] # w
  /\ obj' = [obj EXCEPT !.want[n] = w]
  /\ UNCHANGED <<kind, stale, cache, cloud, passVars, faults, strangers>>

CacheSync ==
  /\ cache # obj /\ cache' = obj
  /\ UNCHANGED <<kind, stale, obj, cloud, passVars, faults, strangers, edits>>

\* Somebody makes an item of a free name, or deletes one of ours.
Stranger(n) ==
  /\ strangers < MaxStrangers /\ strangers' = strangers + 1
  /\ LET who == cloud["here"][n].who
     IN \/ /\ who \in {"none", "gone"}
           /\ \E v \in Versions :
                cloud' = [cloud EXCEPT !["here"][n] =
                            [who |-> IF who = "none" THEN "foreign" ELSE "reused", val |-> v]]
        \/ /\ who = "ours"
           /\ cloud' = [cloud EXCEPT !["here"][n] = [who |-> "gone", val |-> Absent]]
  /\ UNCHANGED <<kind, stale, obj, cache, passVars, faults, edits>>

Crash ==
  /\ pc # "idle" /\ Fault /\ EndPass /\ UNCHANGED obj
  /\ UNCHANGED <<kind, stale, cache, cloud, strangers, edits>>

-----------------------------------------------------------------------------

Reconcile ==
  \/ Start \/ Latch \/ PatchStatus
  \/ \E n \in Names : CreateMissing(n) \/ RefuseCollision(n) \/ UpdateDrifted(n)
  \/ \E s \in Scopes, n \in Names : RemoveUndeclared(s, n)

Next ==
  \/ Reconcile \/ CacheSync \/ Crash
  \/ \E n \in Names : Stranger(n) \/ \E w \in Wants : UserEdits(n, w)

Spec == Init /\ [][Next]_vars

\* Errors are retried and a clean pass is requeued (reconciliationPeriod).
FairSpec == Spec /\ WF_vars(Reconcile) /\ WF_vars(CacheSync)

-----------------------------------------------------------------------------
(* Properties.                                                             *)

\* Every variable holds a value the code can produce.
TypeOK ==
  /\ kind \in Kinds /\ stale \in BOOLEAN
  /\ obj \in Object /\ cache \in Object /\ mem \in Object /\ base \in Object
  /\ cloud \in [Scopes -> [Names -> Item]] /\ seen \in [Scopes -> [Names -> Item]]
  /\ pc \in {"idle", "work", "patch"} /\ done \subseteq Scopes \X Names
  /\ faults \in 0..MaxFaults /\ strangers \in 0..MaxStrangers /\ edits \in 0..MaxEdits

\* This provider made an item of that name (here) at some time.
MadeOnce(n) == cloud["here"][n].who \in {"ours", "gone", "reused"}

\* LedgerSound: the ledger, stored, cached or in a pass, names only what this
\* provider made at some time, so a platform default that was merely upgraded
\* is never taken for its own.
LedgerSound ==
  \A o \in {obj, cache, mem, base} : \A n \in o.ledger : MadeOnce(n)

\* SparesForeign: an item of somebody else, under a name this provider never
\* used or in the scope of other clusters, is never removed.
SparesForeign ==
  [][\A s \in Scopes, n \in Names :
       cloud[s][n].who = "foreign" => cloud'[s][n].who = "foreign"]_vars

\* A declared policy is in scope and not in the ledger: the pass refuses it, and
\* whatever comes after it, also when it made that policy itself and failed
\* before the ledger was stored.
Refused ==
  kind = "policy" /\ \E n \in Names :
    obj.want[n] # Absent /\ Present(cloud["here"][n]) /\ n \notin obj.ledger

\* DeclaredApplied: what is declared reaches the cloud, and add-ons and policies
\* reach the declared version, also when some call of every round fails at first.
DeclaredApplied ==
  \A n \in Names, w \in Versions :
    (obj.want[n] = w)
      ~> (\/ obj.want[n] # w \/ Refused
          \/ Present(cloud["here"][n]) /\ (kind = "identity" \/ cloud["here"][n].val = w))

\* UndeclaredRemoved: what is ours by its tag, or by the ledger, and no longer
\* declared is eventually removed, whatever failed before (a pass that reads an
\* old ledger may drop an entry from the stored one).
UndeclaredRemoved ==
  \A n \in Names :
    (/\ obj.want[n] = Absent /\ cloud["here"][n].who = "ours"
     /\ kind = "identity" \/ (n \in obj.ledger /\ ~stale))
      ~> (obj.want[n] # Absent \/ cloud["here"][n].who # "ours" \/ Refused)
=============================================================================
