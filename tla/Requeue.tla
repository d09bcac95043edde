------------------------------ MODULE Requeue ------------------------------
(***************************************************************************)
(* The error backoff of controllers/requeue.go.  One process-wide tracker, *)
(* errorBackoff, counts consecutive failures per namespaced name; the name *)
(* does not say which controller failed, so a control plane and a machine  *)
(* pool (or a CCECluster) of one name share a counter while their workers  *)
(* run concurrently.  Every access takes the tracker's mutex for itself:   *)
(* the read at the start of a pass, the increment, the check after it, the *)
(* read at its end and the reset that depends on it are separate steps.    *)
(* Durations are in seconds.                                               *)
(***************************************************************************)
EXTENDS Integers, FiniteSetsExt

CONSTANTS Controllers,       \* the controllers that reconcile an object of this name
          GenerationChecked, \* those that check observedGeneration after a tuned result
          MaxFailures        \* bound: failures counted in a row

ASSUME CheckedAssumption == GenerationChecked \subseteq Controllers
ASSUME MaxFailuresAssumption == MaxFailures \in Nat

VARIABLES
  failures,   \* errorBackoff.state[key].failures, 0 when absent
  step,       \* where each controller's pass is
  before,     \* failuresBefore of the pass
  outcome,    \* what the pass met
  delay,      \* RequeueAfter of the pass
  counted,    \* history: was a failure counted between the pass's two reads?
  wiped       \* history: did another pass reset the counter during this one?

vars == <<failures, step, before, outcome, delay, counted, wiped>>

defaultRequeue == 30
reconciliationPeriod == 600
throttledBackoffBase == 180
quotaBackoffBase == 300
deletedThrottledBackoffBase == 90
permissionBackoff == 1800
backoffMax == 1800

Counted == {"throttled", "quota", "deleteThrottled"}
Outcomes == Counted \cup {"clean", "default", "permission", "error"}

Base(o) == CASE o = "throttled" -> throttledBackoffBase
             [] o = "quota" -> quotaBackoffBase
             [] o = "deleteThrottled" -> deletedThrottledBackoffBase
             [] OTHER -> defaultRequeue

\* (variant) one doubling too many
DoubledOnceMore(base, n) ==
  LET d[i \in 0..n] == IF i = 0 THEN base
                       ELSE IF 2 * d[i - 1] >= backoffMax THEN backoffMax ELSE 2 * d[i - 1]
  IN d[n]

\* backoffTracker.delay's loop for the n-th failure in a row.
Doubled(base, n) ==
  LET d[i \in 1..n] == IF i = 1 THEN base
                       ELSE IF 2 * d[i - 1] >= backoffMax THEN backoffMax ELSE 2 * d[i - 1]
  IN d[n]

\* The delay requeueAfterForError and resultAfterErrorForDelete return.
RequeueAfter(o, n) ==
  CASE o \in Counted -> Doubled(Base(o), n)
    [] o = "permission" -> permissionBackoff
    [] o = "clean" -> reconciliationPeriod
    [] o = "default" -> defaultRequeue
    [] OTHER -> 0

Init ==
  /\ failures = 0
  /\ step = [k \in Controllers |-> "idle"]
  /\ before = [k \in Controllers |-> 0]
  /\ outcome = [k \in Controllers |-> "clean"]
  /\ delay = [k \in Controllers |-> 0]
  /\ counted = [k \in Controllers |-> FALSE]
  /\ wiped = [k \in Controllers |-> FALSE]

\* A pass between its first and its last read of the counter.
BetweenReads(k) == step[k] \in {"begun", "returned", "closing", "closed"}

\* Reconcile reads the counter first.
Begin(k) ==
  /\ step[k] = "idle"
  /\ step' = [step EXCEPT ![k] = "begun"]
  /\ before' = [before EXCEPT ![k] = failures]
  /\ counted' = [counted EXCEPT ![k] = FALSE] /\ wiped' = [wiped EXCEPT ![k] = FALSE]
  /\ UNCHANGED <<failures, outcome, delay>>

\* The body ends in one of the classified ways; throttle and quota count.
Return(k, o) ==
  /\ step[k] = "begun"
  /\ o \in Counted => failures < MaxFailures
  /\ failures' = IF o \in Counted THEN failures + 1 ELSE failures
  /\ outcome' = [outcome EXCEPT ![k] = o]
  /\ delay' = [delay EXCEPT ![k] = RequeueAfter(o, failures')]
  /\ step' = [step EXCEPT ![k] =
                IF k \in GenerationChecked /\ o # "deleteThrottled" THEN "returned" ELSE "closing"]
  /\ counted' = [j \in Controllers |-> counted[j] \/ (o \in Counted /\ BetweenReads(j))]
  /\ UNCHANGED <<before, wiped>>

\* (variant) only the counter tells a tuned result
CounterOnly(k) == failures # before[k]

\* A tuned result is told by the counter or by the fixed permission delay.
ClassifiedBackoff(k) == failures # before[k] \/ delay[k] = permissionBackoff

\* Spec changes behind the pass shorten the requeue, but not a tuned one.
CheckGeneration(k) ==
  /\ step[k] = "returned"
  /\ \/ UNCHANGED delay
     \/ /\ outcome[k] # "error" /\ ~ClassifiedBackoff(k)
        /\ delay' = [delay EXCEPT ![k] = defaultRequeue]
  /\ step' = [step EXCEPT ![k] = "closing"]
  /\ UNCHANGED <<failures, before, outcome, counted, wiped>>

\* The deferred scope.Close (the deletions of pools and control planes have
\* none): its error becomes the pass's, and no RequeueAfter goes with an error.
Close(k) ==
  /\ step[k] = "closing"
  /\ step' = [step EXCEPT ![k] = "closed"]
  /\ \/ UNCHANGED <<outcome, delay>>
     \/ /\ outcome[k] # "deleteThrottled"
        /\ outcome' = [outcome EXCEPT ![k] = "error"] /\ delay' = [delay EXCEPT ![k] = 0]
  /\ UNCHANGED <<failures, before, counted, wiped>>

\* (variant) reset on any nil error
ResetAlways(k) == TRUE

\* The deferred reading of a clean pass ...
LooksClean(k) == failures = before[k]

CheckClean(k) ==
  /\ step[k] = "closed"
  /\ step' = [step EXCEPT ![k] = IF outcome[k] # "error" /\ LooksClean(k) THEN "resetting"
                                                                       ELSE "idle"]
  /\ UNCHANGED <<failures, before, outcome, delay, counted, wiped>>

\* ... and resetBackoff, which takes the mutex again and looks no more.
Reset(k) ==
  /\ step[k] = "resetting"
  /\ failures' = 0
  /\ step' = [step EXCEPT ![k] = "idle"]
  /\ wiped' = [j \in Controllers |-> wiped[j] \/ (j # k /\ failures # 0)]
  /\ UNCHANGED <<before, outcome, delay, counted>>

Next == \E k \in Controllers :
          \/ Begin(k) \/ CheckGeneration(k) \/ Close(k) \/ CheckClean(k) \/ Reset(k)
          \/ \E o \in Outcomes : Return(k, o)

Spec == Init /\ [][Next]_vars

-----------------------------------------------------------------------------

\* TunedNotShortened: what the work queue gets of a pass that ends in a tuned
\* delay is at least the base of its error, never the default, unless another
\* pass reset the shared counter during it, which hides a counted failure.
TunedNotShortened ==
  \A k \in Controllers :
    step[k] \in {"closed", "resetting"} /\ outcome[k] \in Counted \cup {"permission"} /\ ~wiped[k]
      => delay[k] >= Base(outcome[k]) /\ delay[k] # defaultRequeue

\* The wait after the n-th failure in a row: base * 2^(n-1), at most backoffMax,
\* which five doublings exceed from every base.
Waits(base, n) == IF n <= 5 THEN Min({base * 2^(n - 1), backoffMax}) ELSE backoffMax

\* CappedDoubling: the n-th failure in a row waits base * 2^(n-1), at most
\* backoffMax, and stays there however long the row is.
CappedDoubling ==
  [][\A k \in Controllers :
       step[k] = "begun" /\ step'[k] # "begun" /\ outcome'[k] \in Counted
         => delay'[k] = Waits(Base(outcome'[k]), failures')]_vars

\* StaysEscalated: the counter falls only to zero, at the end of a pass without
\* an error between whose reads nobody, itself or another controller, counted a
\* failure; unless yet another pass had reset it meanwhile, so that it came back
\* to the value it had.  A failure counted after the last read is not spared.
StaysEscalated ==
  [][failures' < failures
       => /\ failures' = 0
          /\ \E k \in Controllers :
               /\ step[k] = "resetting" /\ step'[k] = "idle" /\ outcome[k] # "error"
               /\ counted[k] => wiped[k]]_vars
=============================================================================
