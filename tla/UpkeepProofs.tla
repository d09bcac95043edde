---------------------------- MODULE UpkeepProofs ----------------------------
(* Proofs about Upkeep, for any versions, tasks and bounds.                  *)
EXTENDS Upkeep, TLAPS

\* A pass is at one of the two Secrets.
AtSecret == todo \in Secrets /\ DOMAIN secret = Secrets

\* What a step does to the Secrets: the write of a pass, an act of time or of a
\* user, or nothing.
SecretStep ==
  \/ secret' = secret
  \/ WritesSecret
  \/ moves' # moves /\ DOMAIN secret' = Secrets

\* Every step of a pass moves on among the Secrets, and writes only the one it is at.
LEMMA PassStep ==
  ASSUME AtSecret, Reconcile \/ Crash
  PROVE  todo' \in Secrets /\ (secret' = secret \/ WritesSecret)
  <1> USE DEF AtSecret, Secrets
  <1>1. CASE Begin
    BY <1>1 DEF Begin
  <1>2. CASE \/ pollUpgradeTask \/ GetUpgradeInfo \/ ShowClusterUpgradeInfo
             \/ CreateUpgradeWorkFlow \/ CreatePreCheck
    BY <1>2 DEF pollUpgradeTask, GetUpgradeInfo, ShowClusterUpgradeInfo,
                CreateUpgradeWorkFlow, CreatePreCheck, Goto, Return
  <1>3. CASE UpgradeCluster
    BY <1>3 DEF UpgradeCluster, Return
  <1>4. CASE GetClusterKubeconfig
    BY <1>4 DEF GetClusterKubeconfig, NextSecret, Return
  <1>5. CASE ensureKubeconfigSecret
    <2>1. todo' \in Secrets
      BY <1>5 DEF ensureKubeconfigSecret, NextSecret, Return
    <2>2. secret' = secret \/ WritesSecret
      BY <1>5 DEF ensureKubeconfigSecret
    <2> QED BY <2>1, <2>2
  <1>6. CASE Close
    BY <1>6 DEF Close, EndPass
  <1>7. CASE Crash
    BY <1>7 DEF Crash, EndPass
  <1> QED BY <1>1, <1>2, <1>3, <1>4, <1>5, <1>6, <1>7 DEF Reconcile

\* Every step keeps the pass at a Secret and is one of those of SecretStep.
LEMMA AnyStep ==
  ASSUME AtSecret, moves \in Nat, Next
  PROVE  AtSecret' /\ SecretStep /\ moves' \in Nat
  <1> USE DEF AtSecret, cloudVars, passVars
  <1>1. CASE Reconcile \/ Crash
    <2>1. todo' \in Secrets /\ (secret' = secret \/ WritesSecret)
      BY <1>1, PassStep
    <2>2. moves' = moves
      BY <1>1 DEF Reconcile, Begin, pollUpgradeTask, GetUpgradeInfo,
           ShowClusterUpgradeInfo, CreateUpgradeWorkFlow, CreatePreCheck, UpgradeCluster,
           GetClusterKubeconfig, ensureKubeconfigSecret, Close, Crash
    <2>3. DOMAIN secret' = Secrets
      BY <2>1 DEF WritesSecret
    <2> QED BY <2>1, <2>2, <2>3 DEF SecretStep
  <1>2. CASE CacheSync \/ SecretSync \/ \E w \in Versions \cup {None} : UserEdits(w)
    BY <1>2 DEF CacheSync, SecretSync, UserEdits, SecretStep
  <1>3. ASSUME NEW t \in TaskIDs, TaskEnds(t) \/ TaskExpires(t)
        PROVE  AtSecret' /\ SecretStep /\ moves' \in Nat
    BY <1>3 DEF TaskEnds, TaskExpires, Move, SecretStep
  <1>4. CASE EndpointMoves
    BY <1>4 DEF EndpointMoves, Move, SecretStep
  <1>5. ASSUME NEW s \in Secrets, CertAges(s) \/ UserSecret(s)
        PROVE  AtSecret' /\ SecretStep /\ moves' \in Nat
    <2>1. moves' = moves + 1 /\ todo' = todo /\ DOMAIN secret' = Secrets
      BY <1>5 DEF CertAges, UserSecret, Move
    <2> QED BY <2>1 DEF SecretStep
  <1> QED BY <1>1, <1>2, <1>3, <1>4, <1>5 DEF Next

\* The write of a pass spares what is neither ours nor labelled: it creates where
\* there is nothing, or updates exactly what it saw, which was one of those.
LEMMA WriteSpares ==
  ASSUME AtSecret, WritesSecret, NEW s \in Secrets, secret[s].owner = "foreign"
  PROVE  secret'[s] = secret[s]
  <1>1. secret[todo].owner \in {"none", "ours", "labelled"}
    BY DEF WritesSecret, MayOverwrite
  <1>2. s # todo
    BY <1>1
  <1> QED BY <1>2 DEF WritesSecret, AtSecret

\* SecretsSparedAlways: ensureKubeconfigSecret never overwrites a Secret that is
\* neither controlled by the control plane nor labelled for the cluster, whatever
\* the informer's copy said when the owner was checked, for any number of failures,
\* edits and acts of users.
THEOREM SecretsSparedAlways == Spec => SecretsSpared
  <1> DEFINE Inv == AtSecret /\ moves \in Nat
  <1>1. Init => Inv
    BY DEF Init, AtSecret, Secrets
  <1>2. Inv /\ [Next]_vars => Inv'
    BY AnyStep DEF vars, passVars, AtSecret
  <1>3. Inv /\ [Next]_vars
          => [\A s \in Secrets : secret[s].owner = "foreign"
                => secret'[s] = secret[s] \/ moves' # moves]_vars
    BY AnyStep, WriteSpares DEF SecretStep
  <1> QED BY <1>1, <1>2, <1>3, PTL DEF Spec, SecretsSpared
=============================================================================
