------------------------ MODULE DeclarativeSetsProofs ------------------------
(***************************************************************************)
(* Theorems about DeclarativeSets, for every set of names and versions and *)
(* every bound: the ledger is sound, and what others made is spared.       *)
(***************************************************************************)
EXTENDS DeclarativeSets, TLAPS

\* What the first loop of a pass has established for the names it dealt with:
\* none of them collides, and what was not listed has been made.
WorkSound ==
  pc = "work" =>
    \A n \in Names :
      <<"here", n>> \in done /\ ~Undeclared(n)
        => /\ ~Collides(n)
           /\ ~Listed(n) => MadeOnce(n)

IInv == TypeOK /\ LedgerSound /\ WorkSound

CloudType == [Scopes -> [Names -> Item]]

-----------------------------------------------------------------------------
(* The cloud moves forward: once made by this provider, a name stays so.   *)

\* The cloud is well typed after a step that keeps this.
Forward == cloud' \in CloudType /\ \A n \in Names : MadeOnce(n) => MadeOnce(n)'

\* A step that changes one item and, if the name was ours once, keeps that.
LEMMA OneItem ==
  ASSUME cloud \in CloudType, NEW s \in Scopes, NEW n \in Names, NEW i \in Item,
         cloud' = [cloud EXCEPT ![s][n] = i],
         s = "here" /\ MadeOnce(n) => i.who \in {"ours", "gone", "reused"}
  PROVE  Forward
<1>1. cloud' \in CloudType
  BY DEF CloudType
<1>2. ASSUME NEW k \in Names, MadeOnce(k) PROVE MadeOnce(k)'
  <2>1. cloud'["here"][k] = IF s = "here" /\ k = n THEN i ELSE cloud["here"][k]
    BY DEF CloudType, Scopes
  <2> QED BY <1>2, <2>1 DEF MadeOnce
<1> QED BY <1>1, <1>2 DEF Forward

\* A creation: the item is ours.
LEMMA MadeForward ==
  ASSUME cloud \in CloudType, NEW n \in Names, NEW w \in Versions \cup {Any}, Made(n, w)
  PROVE  Forward /\ MadeOnce(n)'
<1>1. PICK v \in Versions : cloud' = [cloud EXCEPT !["here"][n] = [who |-> "ours", val |-> v]]
  BY DEF Made
<1>2. "here" \in Scopes /\ [who |-> "ours", val |-> v] \in Item
  BY DEF Scopes, Item
<1>3. Forward
  BY <1>1, <1>2, OneItem
<1>4. cloud'["here"][n].who = "ours"
  BY <1>1, <1>2 DEF CloudType
<1> QED BY <1>3, <1>4 DEF MadeOnce

\* A deletion leaves a name that was ours once "gone".
LEMMA DeletedForward ==
  ASSUME cloud \in CloudType, NEW s \in Scopes, NEW n \in Names, Deleted(s, n)
  PROVE  Forward
<1> DEFINE i == [who |-> IF cloud[s][n].who = "foreign" THEN "none" ELSE "gone", val |-> Absent]
<1>1. CASE Same(s, n)
  <2>1. cloud' = [cloud EXCEPT ![s][n] = i]
    BY <1>1 DEF Deleted, CloudType
  <2>2. i \in Item /\ (s = "here" /\ MadeOnce(n) => i.who \in {"ours", "gone", "reused"})
    BY DEF Item, MadeOnce
  <2> HIDE DEF i
  <2> QED BY <2>1, <2>2, OneItem
<1>2. CASE ~Same(s, n)
  BY <1>2 DEF Deleted, Forward, MadeOnce
<1> QED BY <1>1, <1>2
-----------------------------------------------------------------------------
(* Types, and the cloud's direction, for every action.                     *)

\* The variables of a pass.
PassType ==
  /\ mem \in Object /\ base \in Object /\ seen \in CloudType
  /\ pc \in {"idle", "work", "patch"} /\ done \subseteq Scopes \X Names

\* The empty values are typed.
LEMMA BlankTyped == Blank \in Object /\ NoCloud \in CloudType
BY DEF Blank, Object, Wants, NoCloud, CloudType, NoItem, Item

\* The three ways in which a step leaves the pass.
LEMMA PassTyped ==
  ASSUME PassType
  PROVE  /\ EndPass => PassType'
         /\ Fail => PassType'
         /\ \A s \in Scopes, n \in Names : Did(s, n) => PassType'
<1>1. EndPass => PassType'
  BY BlankTyped DEF PassType, EndPass
<1>2. Fail => PassType'
  BY BlankTyped DEF PassType, Fail, Object
<1>3. ASSUME NEW s \in Scopes, NEW n \in Names, Did(s, n) PROVE PassType'
  BY <1>3 DEF PassType, Did
<1> QED BY <1>1, <1>2, <1>3

\* A fault is counted within its bound.
LEMMA FaultTyped ==
  ASSUME faults \in 0..MaxFaults, Fault \/ NoFault
  PROVE  faults' \in 0..MaxFaults
BY BoundAssumption DEF Fault, NoFault

\* An action that changes the cloud through one call of a pass.
LEMMA CallTyped ==
  ASSUME TypeOK, NEW s \in Scopes, NEW n \in Names,
         Forward, Fault \/ NoFault, Fail \/ Did(s, n),
         UNCHANGED <<kind, stale, obj, cache, strangers, edits>>
  PROVE  TypeOK' /\ Forward
<1>1. PassType'
  BY PassTyped DEF TypeOK, PassType, CloudType
<1>2. faults' \in 0..MaxFaults
  BY FaultTyped DEF TypeOK
<1> QED BY <1>1, <1>2 DEF TypeOK, PassType, Forward, CloudType

\* A cloud that does not change moves forward.
LEMMA SameForward ==
  ASSUME cloud \in CloudType, UNCHANGED cloud
  PROVE  Forward
BY DEF Forward, MadeOnce

\* A creation keeps the types; when it is answered, the item is ours.
LEMMA CreateTyped ==
  ASSUME TypeOK, NEW n \in Names, CreateMissing(n)
  PROVE  TypeOK' /\ Forward /\ (Did("here", n) /\ pc' = "work" => MadeOnce(n)')
<1>1. base.want[n] \in Versions \cup {Any}
  BY DEF TypeOK, Object, Wants, CreateMissing, ToEnsure, Undeclared
<1>2. cloud \in CloudType /\ "here" \in Scopes
  BY DEF TypeOK, CloudType, Scopes
<1>3. \/ Made(n, base.want[n]) /\ (Did("here", n) \/ Fail)
      \/ UNCHANGED cloud /\ Fail
  BY DEF CreateMissing
<1>4. Forward
  BY <1>1, <1>2, <1>3, MadeForward, SameForward
<1>5. Did("here", n) /\ pc' = "work" => MadeOnce(n)'
  BY <1>1, <1>2, <1>3, MadeForward DEF Fail
<1>6. TypeOK'
  BY <1>2, <1>3, <1>4, CallTyped DEF CreateMissing
<1> QED BY <1>4, <1>5, <1>6

\* An update changes the version of an item and nothing else.
LEMMA UpdateTyped ==
  ASSUME TypeOK, NEW n \in Names, UpdateDrifted(n)
  PROVE  TypeOK' /\ Forward
<1> DEFINE i == [cloud["here"][n] EXCEPT !.val = base.want[n]]
<1>1. cloud \in CloudType /\ "here" \in Scopes
  BY DEF TypeOK, CloudType, Scopes
<1>2. base.want[n] \in Versions
  BY DEF TypeOK, Object, Wants, UpdateDrifted, ToEnsure, Undeclared, Drifted
<1>3. /\ i \in Item
      /\ MadeOnce(n) => i.who \in {"ours", "gone", "reused"}
  BY <1>1, <1>2 DEF CloudType, Item, MadeOnce
<1>4. cloud' = [cloud EXCEPT !["here"][n] = i] \/ UNCHANGED cloud
  BY <1>1 DEF UpdateDrifted, CloudType
<1> HIDE DEF i
<1>5. Forward
  BY <1>1, <1>3, <1>4, OneItem, SameForward
<1> QED BY <1>1, <1>5, CallTyped DEF UpdateDrifted

\* A removal keeps the types and the cloud's direction.
LEMMA RemoveTyped ==
  ASSUME TypeOK, NEW s \in Scopes, NEW n \in Names, RemoveUndeclared(s, n)
  PROVE  TypeOK' /\ Forward
<1>1. cloud \in CloudType
  BY DEF TypeOK, CloudType
<1>2. Forward
  BY <1>1, DeletedForward, SameForward DEF RemoveUndeclared
<1> QED BY <1>2, CallTyped DEF RemoveUndeclared

\* So do others, who never make an item that passes for ours.
LEMMA StrangerTyped ==
  ASSUME TypeOK, NEW n \in Names, Stranger(n)
  PROVE  TypeOK' /\ Forward
<1>1. cloud \in CloudType /\ "here" \in Scopes
  BY DEF TypeOK, CloudType, Scopes
<1>2. PICK i \in Item : /\ cloud' = [cloud EXCEPT !["here"][n] = i]
                        /\ MadeOnce(n) => i.who \in {"ours", "gone", "reused"}
  <2> DEFINE who == cloud["here"][n].who
  <2>1. CASE who \in {"none", "gone"}
    <3>1. PICK v \in Versions :
            cloud' = [cloud EXCEPT !["here"][n] =
                        [who |-> IF who = "none" THEN "foreign" ELSE "reused", val |-> v]]
      BY <2>1 DEF Stranger
    <3>2. [who |-> IF who = "none" THEN "foreign" ELSE "reused", val |-> v] \in Item
      BY DEF Item
    <3> QED BY <2>1, <3>1, <3>2 DEF MadeOnce
  <2>2. CASE who = "ours"
    <3>1. cloud' = [cloud EXCEPT !["here"][n] = [who |-> "gone", val |-> Absent]]
      BY <2>2 DEF Stranger
    <3>2. [who |-> "gone", val |-> Absent] \in Item
      BY DEF Item
    <3> QED BY <3>1, <3>2
  <2> QED BY <2>1, <2>2 DEF Stranger
<1>3. Forward
  BY <1>1, <1>2, OneItem
<1>4. strangers' \in 0..MaxStrangers
  BY BoundAssumption DEF TypeOK, Stranger
<1> QED BY <1>3, <1>4 DEF Stranger, TypeOK, Forward, CloudType, passVars

\* Every step keeps the types and moves the cloud forward.
LEMMA StepTyped ==
  ASSUME TypeOK, [Next]_vars
  PROVE  TypeOK' /\ Forward
<1>0. cloud \in CloudType /\ PassType
  BY DEF TypeOK, CloudType, PassType
<1>1. CASE Start
  <2>1. faults' \in 0..MaxFaults
    BY <1>1, FaultTyped, Zenon DEF Start, TypeOK
  <2>2. PassType'
    BY <1>0, <1>1, BlankTyped DEF Start, TypeOK, PassType, Object, CloudType
  <2> QED BY <1>0, <1>1, <2>1, <2>2, SameForward DEF Start, TypeOK, PassType, CloudType
<1>2. CASE Latch
  <2>1. Applied \subseteq Names
    BY DEF Applied
  <2>2. PassType'
    BY <1>0, <1>2, <2>1, BlankTyped DEF Latch, PassType, Object
  <2> QED BY <1>0, <1>2, <2>2, SameForward DEF Latch, NoFault, TypeOK, PassType, CloudType
<1>3. CASE PatchStatus
  <2>1. PassType'
    BY <1>0, <1>3, PassTyped DEF PatchStatus
  <2>2. faults' \in 0..MaxFaults
    BY <1>3, FaultTyped, Zenon DEF PatchStatus, TypeOK
  <2>3. obj' \in Object
    BY <1>3 DEF PatchStatus, TypeOK, Object, Merged
  <2> QED BY <1>0, <1>3, <2>1, <2>2, <2>3, SameForward DEF PatchStatus, TypeOK, PassType, CloudType
<1>4. ASSUME NEW n \in Names, CreateMissing(n) PROVE TypeOK' /\ Forward
  BY <1>4, CreateTyped
<1>5. ASSUME NEW n \in Names, RefuseCollision(n) PROVE TypeOK' /\ Forward
  <2>1. "here" \in Scopes
    BY DEF Scopes
  <2> QED BY <1>0, <1>5, <2>1, CallTyped, SameForward DEF RefuseCollision
<1>6. ASSUME NEW n \in Names, UpdateDrifted(n) PROVE TypeOK' /\ Forward
  BY <1>6, UpdateTyped
<1>7. ASSUME NEW s \in Scopes, NEW n \in Names, RemoveUndeclared(s, n) PROVE TypeOK' /\ Forward
  BY <1>7, RemoveTyped
<1>8. CASE CacheSync
  BY <1>0, <1>8, SameForward DEF CacheSync, TypeOK, passVars
<1>9. CASE Crash
  <2>1. PassType' /\ faults' \in 0..MaxFaults
    BY <1>0, <1>9, PassTyped, FaultTyped DEF Crash, TypeOK
  <2> QED BY <1>0, <1>9, <2>1, SameForward DEF Crash, TypeOK, PassType, CloudType
<1>10. ASSUME NEW n \in Names, Stranger(n) PROVE TypeOK' /\ Forward
  BY <1>10, StrangerTyped
<1>11. ASSUME NEW n \in Names, NEW w \in Wants, UserEdits(n, w) PROVE TypeOK' /\ Forward
  <2>1. obj' \in Object
    BY <1>11 DEF UserEdits, TypeOK, Object
  <2>2. edits' \in 0..MaxEdits
    BY <1>11, BoundAssumption DEF UserEdits, TypeOK
  <2> QED BY <1>0, <1>11, <2>1, <2>2, SameForward DEF UserEdits, TypeOK, passVars
<1>12. CASE UNCHANGED vars
  BY <1>0, <1>12, SameForward DEF vars, passVars, TypeOK
<1> QED
  BY <1>1, <1>2, <1>3, <1>4, <1>5, <1>6, <1>7, <1>8, <1>9, <1>10, <1>11, <1>12
     DEF Next, Reconcile
-----------------------------------------------------------------------------
(* The ledger.                                                             *)

\* What a full round latches was made by this provider.
LEMMA AppliedSound ==
  ASSUME IInv, pc = "work", ToEnsure = {}
  PROVE  \A n \in Applied : MadeOnce(n)
<1> SUFFICES ASSUME NEW n \in Applied PROVE MadeOnce(n)
  OBVIOUS
<1>1. n \in Names /\ ~Undeclared(n) /\ kind # "identity"
      /\ (kind = "addon" => Managed(n) \/ ~Listed(n))
  BY DEF Applied, IInv, TypeOK, Kinds
<1>2. InLedger(n) => MadeOnce(n)
  BY DEF IInv, LedgerSound, InLedger
<1>3. Managed(n) => MadeOnce(n)
  BY <1>1, <1>2 DEF Managed
<1>4. CASE ~Listed(n)
  <2>1. <<"here", n>> \in done
    BY <1>1, <1>4 DEF ToEnsure
  <2> QED BY <1>1, <1>4, <2>1 DEF IInv, WorkSound
<1>5. CASE Listed(n)
  <2>1. kind = "addon" => MadeOnce(n)
    BY <1>1, <1>3, <1>5
  <2>2. ~Collides(n)
    <3>1. CASE <<"here", n>> \in done
      BY <1>1, <3>1 DEF IInv, WorkSound
    <3>2. CASE <<"here", n>> \notin done
      BY <1>1, <3>2 DEF ToEnsure
    <3> QED BY <3>1, <3>2
  <2>3. kind = "policy" => Managed(n)
    BY <1>5, <2>2 DEF Collides
  <2> QED BY <1>1, <1>3, <2>1, <2>3 DEF IInv, TypeOK, Kinds
<1> QED BY <1>4, <1>5

\* The names some ledger holds, or a full round is about to latch.
Held == obj.ledger \cup cache.ledger \cup mem.ledger \cup base.ledger
          \cup (IF pc = "work" /\ ToEnsure = {} THEN Applied ELSE {})

\* The ledgers of the pass after a step that ends it.
LEMMA PassFlow ==
  ASSUME TypeOK
  PROVE  /\ EndPass => mem'.ledger = {} /\ base'.ledger = {}
         /\ Fail => mem'.ledger = mem.ledger /\ base' = base
         /\ \A s \in Scopes, n \in Names : Did(s, n) => mem' = mem /\ base' = base
<1>1. EndPass => mem'.ledger = {} /\ base'.ledger = {}
  BY DEF EndPass, Blank
<1>2. Fail => mem'.ledger = mem.ledger /\ base' = base
  BY DEF Fail, TypeOK, Object
<1>3. \A s \in Scopes, n \in Names : Did(s, n) => mem' = mem /\ base' = base
  BY DEF Did
<1> QED BY <1>1, <1>2, <1>3

\* Every ledger after a step is made of names held before it.
LEMMA LedgerFlow ==
  ASSUME TypeOK, [Next]_vars
  PROVE  /\ obj'.ledger \subseteq Held /\ cache'.ledger \subseteq Held
         /\ mem'.ledger \subseteq Held /\ base'.ledger \subseteq Held
<1> DEFINE Goal == /\ obj'.ledger \subseteq Held /\ cache'.ledger \subseteq Held
                   /\ mem'.ledger \subseteq Held /\ base'.ledger \subseteq Held
<1>0. "here" \in Scopes
  BY DEF Scopes
<1>1. CASE Start
  <2>1. mem'.ledger = cache.ledger
    BY <1>1 DEF Start, TypeOK, Object
  <2> QED BY <1>1, <2>1 DEF Start, Held
<1>2. CASE Latch
  <2>1. mem'.ledger = Applied
    BY <1>2 DEF Latch, TypeOK, Object
  <2> QED BY <1>2, <2>1 DEF Latch, Held
<1>3. CASE PatchStatus
  <2>1. obj'.ledger \in {mem.ledger, obj.ledger}
    BY <1>3 DEF PatchStatus, TypeOK, Object, Merged
  <2> QED BY <1>3, <2>1, PassFlow DEF PatchStatus, Held
<1>4. ASSUME NEW n \in Names, CreateMissing(n) \/ RefuseCollision(n) \/ UpdateDrifted(n) PROVE Goal
  <2>1. (Fail \/ Did("here", n)) /\ UNCHANGED <<obj, cache>>
    BY <1>4 DEF CreateMissing, RefuseCollision, UpdateDrifted
  <2> QED BY <1>0, <2>1, PassFlow DEF Held
<1>5. ASSUME NEW s \in Scopes, NEW n \in Names, RemoveUndeclared(s, n) PROVE Goal
  <2>1. (Fail \/ Did(s, n)) /\ UNCHANGED <<obj, cache>>
    BY <1>5 DEF RemoveUndeclared
  <2> QED BY <2>1, PassFlow DEF Held
<1>6. CASE CacheSync
  BY <1>6 DEF CacheSync, passVars, Held
<1>7. CASE Crash
  BY <1>7, PassFlow DEF Crash, Held
<1>8. ASSUME NEW n \in Names, Stranger(n) PROVE Goal
  BY <1>8 DEF Stranger, passVars, Held
<1>9. ASSUME NEW n \in Names, NEW w \in Wants, UserEdits(n, w) PROVE Goal
  <2>1. obj'.ledger = obj.ledger
    BY <1>9 DEF UserEdits, TypeOK, Object
  <2> QED BY <1>9, <2>1 DEF UserEdits, passVars, Held
<1>10. CASE UNCHANGED vars
  BY <1>10 DEF vars, passVars, Held
<1> QED
  BY <1>1, <1>2, <1>3, <1>4, <1>5, <1>6, <1>7, <1>8, <1>9, <1>10 DEF Next, Reconcile

\* The ledger stays sound in every step.
LEMMA LedgerStep ==
  ASSUME IInv, [Next]_vars
  PROVE  LedgerSound'
<1>1. \A n \in Held : n \in Names /\ MadeOnce(n)
  BY AppliedSound DEF Held, Applied, IInv, LedgerSound, TypeOK, Object
<1>2. \A n \in Held : MadeOnce(n)'
  BY <1>1, StepTyped DEF IInv, Forward
<1>3. /\ obj'.ledger \subseteq Held /\ cache'.ledger \subseteq Held
      /\ mem'.ledger \subseteq Held /\ base'.ledger \subseteq Held
  BY LedgerFlow DEF IInv
<1> QED BY <1>2, <1>3 DEF LedgerSound

\* What the loop established stays so while the pass works.
LEMMA WorkStep ==
  ASSUME IInv, [Next]_vars
  PROVE  WorkSound'
<1> SUFFICES ASSUME pc' = "work", NEW n \in Names,
                    <<"here", n>> \in done', ~Undeclared(n)'
             PROVE  ~Collides(n)' /\ (~Listed(n)' => MadeOnce(n)')
  BY DEF WorkSound
<1>0. TypeOK /\ Forward /\ LedgerSound /\ WorkSound
  BY StepTyped DEF IInv
<1>a. ASSUME UNCHANGED <<kind, pc, base, seen, done>>
      PROVE  ~Collides(n)' /\ (~Listed(n)' => MadeOnce(n)')
  BY <1>0, <1>a DEF WorkSound, Forward, Collides, Listed, Managed, OwnedTag, InLedger, Undeclared
<1>b. ASSUME NEW s \in Scopes, NEW k \in Names, Did(s, k), UNCHANGED kind, pc = "work",
             s = "here" /\ k = n => ~Collides(n) /\ (~Listed(n) => MadeOnce(n)')
      PROVE  ~Collides(n)' /\ (~Listed(n)' => MadeOnce(n)')
  <2>1. UNCHANGED <<kind, base, seen>>
    BY <1>b DEF Did
  <2>2. (Collides(n)' <=> Collides(n)) /\ (Listed(n)' <=> Listed(n)) /\ ~Undeclared(n)
    BY <2>1 DEF Collides, Listed, Managed, OwnedTag, InLedger, Undeclared
  <2>3. <<"here", n>> \in done \/ (s = "here" /\ k = n)
    BY <1>b DEF Did
  <2> QED BY <1>0, <1>b, <2>2, <2>3 DEF WorkSound, Forward
<1>1. CASE Start
  BY <1>1 DEF Start
<1>2. CASE Latch \/ PatchStatus \/ Crash
  BY <1>2 DEF Latch, PatchStatus, Crash, EndPass
<1>3. ASSUME NEW k \in Names, CreateMissing(k)
      PROVE  ~Collides(n)' /\ (~Listed(n)' => MadeOnce(n)')
  <2>1. Did("here", k) /\ pc = "work" /\ UNCHANGED kind /\ ~Listed(k)
    BY <1>3 DEF CreateMissing, Fail
  <2>2. MadeOnce(k)'
    BY <1>0, <1>3, <2>1, CreateTyped
  <2> QED BY <1>b, <2>1, <2>2 DEF Collides, Scopes
<1>4. ASSUME NEW k \in Names, RefuseCollision(k)
      PROVE  ~Collides(n)' /\ (~Listed(n)' => MadeOnce(n)')
  BY <1>4 DEF RefuseCollision, Fail
<1>5. ASSUME NEW k \in Names, UpdateDrifted(k)
      PROVE  ~Collides(n)' /\ (~Listed(n)' => MadeOnce(n)')
  <2>1. Did("here", k) /\ pc = "work" /\ UNCHANGED kind /\ ~Collides(k) /\ Listed(k)
    BY <1>5 DEF UpdateDrifted, Fail, Drifted
  <2> QED BY <1>b, <2>1 DEF Scopes
<1>6. ASSUME NEW s \in Scopes, NEW k \in Names, RemoveUndeclared(s, k)
      PROVE  ~Collides(n)' /\ (~Listed(n)' => MadeOnce(n)')
  <2>1. Did(s, k) /\ pc = "work" /\ UNCHANGED kind
    BY <1>6 DEF RemoveUndeclared, Fail
  <2>2. Undeclared(k)
    BY <1>6 DEF RemoveUndeclared, ToRemove, Removable
  <2>3. k # n
    BY <2>1, <2>2 DEF Did, Undeclared
  <2> QED BY <1>b, <2>1, <2>3
<1>7. CASE CacheSync
  BY <1>7, <1>a DEF CacheSync, passVars
<1>8. ASSUME NEW k \in Names, Stranger(k)
      PROVE  ~Collides(n)' /\ (~Listed(n)' => MadeOnce(n)')
  BY <1>8, <1>a DEF Stranger, passVars
<1>9. ASSUME NEW k \in Names, NEW w \in Wants, UserEdits(k, w)
      PROVE  ~Collides(n)' /\ (~Listed(n)' => MadeOnce(n)')
  BY <1>9, <1>a DEF UserEdits, passVars
<1>10. CASE UNCHANGED vars
  BY <1>10, <1>a DEF vars, passVars
<1> QED
  BY <1>1, <1>2, <1>3, <1>4, <1>5, <1>6, <1>7, <1>8, <1>9, <1>10 DEF Next, Reconcile

-----------------------------------------------------------------------------
(* The theorems.                                                           *)

\* The invariant holds at first.
LEMMA InitSound == Init => IInv
<1> SUFFICES ASSUME Init PROVE IInv
  OBVIOUS
<1>1. obj \in Object /\ obj.ledger = {}
  <2>1. PICK v \in Versions :
          obj \in [want : [Names -> {Absent, v}], ledger : {{}}, cond : {FALSE}]
    BY DEF Init
  <2>2. obj.want \in [Names -> {Absent, v}] /\ obj.ledger = {} /\ obj.cond = FALSE
    BY <2>1
  <2>3. obj = [want |-> obj.want, ledger |-> obj.ledger, cond |-> obj.cond]
    BY <2>1
  <2> QED BY <2>2, <2>3 DEF Object, Wants
<1>2. cloud \in CloudType
  <2>1. CASE cloud = NoCloud
    BY <2>1, BlankTyped
  <2>2. ASSUME NEW s \in Scopes, NEW n \in Names, NEW v \in Versions,
               cloud = [NoCloud EXCEPT ![s][n] = [who |-> "foreign", val |-> v]]
        PROVE  cloud \in CloudType
    <3>1. [who |-> "foreign", val |-> v] \in Item
      BY DEF Item
    <3> QED BY <2>2, <3>1, BlankTyped DEF CloudType
  <2> QED BY <2>1, <2>2 DEF Init
<1>3. TypeOK
  BY <1>1, <1>2, BlankTyped, BoundAssumption DEF Init, TypeOK, CloudType
<1>4. LedgerSound
  <2>1. Blank.ledger = {}
    BY DEF Blank
  <2> QED BY <1>1, <2>1 DEF Init, LedgerSound
<1> QED BY <1>3, <1>4 DEF Init, IInv, WorkSound

\* The inductive invariant.
LEMMA Inductive == Spec => []IInv
<1>1. IInv /\ [Next]_vars => IInv'
  BY StepTyped, LedgerStep, WorkStep DEF IInv
<1> QED BY <1>1, InitSound, PTL DEF Spec

\* Every reachable state of the three loops is well typed.
THEOREM TypeCorrect == Spec => []TypeOK
<1>1. IInv => TypeOK
  BY DEF IInv
<1> QED BY <1>1, Inductive, PTL

\* The ledger names only what this provider made, whatever passes, strangers and
\* users did: reconcileAddons and reconcileAccessPolicies never take over an
\* item that was there before.
THEOREM LedgerSoundAlways == Spec => []LedgerSound
<1>1. IInv => LedgerSound
  BY DEF IInv
<1> QED BY <1>1, Inductive, PTL

\* No step of any of the three loops removes an item of somebody else under a
\* name this provider never used, or of another cluster's scope.
THEOREM SparesForeignAlways == Spec => SparesForeign
<1> DEFINE Spared == \A s \in Scopes, n \in Names :
                       cloud[s][n].who = "foreign" => cloud'[s][n].who = "foreign"
<1>1. ASSUME IInv, [Next]_vars PROVE [Spared]_vars
  <2> SUFFICES ASSUME NEW s \in Scopes, NEW n \in Names, cloud[s][n].who = "foreign"
               PROVE  cloud'[s][n].who = "foreign"
    OBVIOUS
  <2>0. cloud \in CloudType /\ "here" \in Scopes
    BY <1>1 DEF IInv, TypeOK, CloudType, Scopes
  <2>a. CASE UNCHANGED cloud
    BY <2>a
  <2>1. ASSUME NEW k \in Names, CreateMissing(k) PROVE cloud'[s][n].who = "foreign"
    <3>1. CASE ~Present(cloud["here"][k]) /\ Made(k, base.want[k])
      <4>1. PICK v : cloud' = [cloud EXCEPT !["here"][k] = [who |-> "ours", val |-> v]]
        BY <3>1 DEF Made
      <4>2. ~(s = "here" /\ n = k)
        BY <3>1 DEF Present
      <4> QED BY <2>0, <4>1, <4>2 DEF CloudType
    <3> QED BY <2>1, <2>a, <3>1 DEF CreateMissing
  <2>2. ASSUME NEW k \in Names, UpdateDrifted(k) PROVE cloud'[s][n].who = "foreign"
    <3>1. CASE cloud' = [cloud EXCEPT !["here"][k].val = base.want[k]]
      BY <2>0, <3>1 DEF CloudType, Item
    <3> QED BY <2>2, <2>a, <3>1 DEF UpdateDrifted
  <2>3. ASSUME NEW t \in Scopes, NEW k \in Names, RemoveUndeclared(t, k)
        PROVE  cloud'[s][n].who = "foreign"
    <3>1. CASE Same(t, k) /\ Deleted(t, k)
      <4>1. t = "here" /\ Managed(k)
        BY <2>3 DEF RemoveUndeclared, ToRemove, Removable, accessPolicyInScope
      <4>2. cloud["here"][k].who # "foreign"
        <5>1. CASE kind = "identity"
          BY <3>1, <4>1, <5>1 DEF Managed, OwnedTag, Same
        <5>2. CASE kind # "identity"
          BY <1>1, <4>1, <5>2 DEF Managed, InLedger, IInv, LedgerSound, MadeOnce
        <5> QED BY <5>1, <5>2
      <4>3. ~(s = t /\ n = k)
        BY <4>1, <4>2
      <4>4. PICK i : cloud' = [cloud EXCEPT ![t][k] = i]
        BY <3>1 DEF Deleted
      <4> QED BY <2>0, <4>3, <4>4 DEF CloudType
    <3>2. (Same(t, k) /\ Deleted(t, k)) \/ UNCHANGED cloud
      BY <2>3 DEF RemoveUndeclared, Deleted
    <3> QED BY <2>a, <3>1, <3>2
  <2>4. ASSUME NEW k \in Names, Stranger(k) PROVE cloud'[s][n].who = "foreign"
    <3>1. PICK i : cloud' = [cloud EXCEPT !["here"][k] = i]
      BY <2>4 DEF Stranger
    <3>2. ~(s = "here" /\ n = k)
      BY <2>4 DEF Stranger
    <3> QED BY <2>0, <3>1, <3>2 DEF CloudType
  <2>5. ASSUME NEW k \in Names, NEW w \in Wants, UserEdits(k, w)
        PROVE  cloud'[s][n].who = "foreign"
    BY <2>5, <2>a DEF UserEdits
  <2>6. CASE Start \/ Latch \/ PatchStatus \/ CacheSync \/ Crash \/ UNCHANGED vars
    BY <2>6, <2>a DEF Start, Latch, PatchStatus, CacheSync, Crash, vars
  <2>7. ASSUME NEW k \in Names, RefuseCollision(k) PROVE cloud'[s][n].who = "foreign"
    BY <2>7, <2>a DEF RefuseCollision
  <2> QED
    BY <1>1, <2>1, <2>2, <2>3, <2>4, <2>5, <2>6, <2>7 DEF Next, Reconcile
<1> QED BY <1>1, Inductive, PTL DEF Spec, SparesForeign
=============================================================================
