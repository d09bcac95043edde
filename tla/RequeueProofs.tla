--------------------------- MODULE RequeueProofs ---------------------------
(* Proofs about Requeue, for any set of controllers that share a name and    *)
(* any number of failures in a row.                                          *)
EXTENDS Requeue, WellFoundedInduction, TLAPS

\* The counter, and what each pass remembers of it, are counts.
CountsOK ==
  /\ failures \in Nat
  /\ before \in [Controllers -> Nat]
  /\ step \in [Controllers -> {"idle", "begun", "returned", "closing", "closed", "resetting"}]
  /\ outcome \in [Controllers -> Outcomes]
  /\ counted \in [Controllers -> BOOLEAN] /\ wiped \in [Controllers -> BOOLEAN]

\* Unless it is reset under a pass, the counter stays where the pass read it or
\* above, and above once a failure was counted; so a pass that is about to reset
\* after it met the old value again is one nobody counted during, or beside which
\* it was reset.  A pass that met a throttle or quota was itself the one to count.
PassCount(k) ==
  /\ BetweenReads(k) /\ ~wiped[k] =>
       failures >= before[k] /\ (counted[k] => failures > before[k])
  /\ step[k] \in {"returned", "closing", "closed"} /\ outcome[k] \in Counted => counted[k]
  /\ step[k] = "resetting" => outcome[k] # "error" /\ (counted[k] => wiped[k])

CountInv == CountsOK /\ \A k \in Controllers : PassCount(k)

\* The tracker starts without failures.
LEMMA CountInit == Init => CountInv
  BY DEF Init, CountInv, CountsOK, PassCount, BetweenReads, Outcomes, Counted

\* Every step preserves CountInv.
LEMMA CountStep == CountInv /\ [Next]_vars => CountInv'
  <1> SUFFICES ASSUME CountInv, [Next]_vars PROVE CountInv' OBVIOUS
  <1> USE DEF CountInv, CountsOK, BetweenReads
  <1>1. ASSUME NEW k \in Controllers, Begin(k) PROVE CountInv'
    BY <1>1 DEF Begin, PassCount
  <1>2. ASSUME NEW k \in Controllers, NEW o \in Outcomes, Return(k, o) PROVE CountInv'
    <2>1. /\ failures' = IF o \in Counted THEN failures + 1 ELSE failures
          /\ outcome' = [outcome EXCEPT ![k] = o] /\ before' = before /\ wiped' = wiped
          /\ step[k] = "begun"
          /\ step' = [step EXCEPT ![k] = "returned"] \/ step' = [step EXCEPT ![k] = "closing"]
          /\ counted' = [j \in Controllers |->
                           counted[j] \/ (o \in Counted
                             /\ step[j] \in {"begun", "returned", "closing", "closed"})]
      BY <1>2 DEF Return
    <2>2. CountsOK'
      BY <2>1
    <2>3. ASSUME NEW j \in Controllers PROVE PassCount(j)'
      <3>1. PassCount(j)
        OBVIOUS
      <3>2. CASE j = k
        <4>1. /\ counted'[k] = (counted[k] \/ o \in Counted) /\ outcome'[k] = o
              /\ step'[k] \in {"returned", "closing"} /\ wiped'[k] = wiped[k] /\ before'[k] = before[k]
          BY <2>1
        <4>2. ~wiped[k] => failures >= before[k] /\ (counted[k] => failures > before[k])
          BY <2>1, <3>1, <3>2 DEF PassCount
        <4>3. ~wiped[k] => failures' >= before[k] /\ (counted'[k] => failures' > before[k])
          <5>1. failures \in Nat /\ before[k] \in Nat
            OBVIOUS
          <5> HIDE DEF CountInv
          <5>2. CASE o \in Counted
            BY <2>1, <4>2, <5>1, <5>2
          <5>3. CASE o \notin Counted
            BY <2>1, <4>1, <4>2, <5>1, <5>3
          <5> QED BY <5>2, <5>3
        <4> QED BY <3>2, <4>1, <4>3 DEF PassCount
      <3>3. CASE j # k
        <4>1. step'[j] = step[j] /\ outcome'[j] = outcome[j]
          BY <2>1, <3>3
        <4> QED BY <2>1, <3>1, <4>1 DEF PassCount
      <3> QED BY <3>2, <3>3
    <2> QED BY <2>2, <2>3
  <1>3. ASSUME NEW k \in Controllers, CheckGeneration(k) PROVE CountInv'
    BY <1>3 DEF CheckGeneration, PassCount
  <1>4. ASSUME NEW k \in Controllers, Close(k) PROVE CountInv'
    <2>1. /\ failures' = failures /\ before' = before /\ counted' = counted /\ wiped' = wiped
          /\ step[k] = "closing" /\ step' = [step EXCEPT ![k] = "closed"]
          /\ outcome' = outcome \/ outcome' = [outcome EXCEPT ![k] = "error"]
          /\ "error" \in Outcomes \ Counted
      BY <1>4 DEF Close, Outcomes, Counted
    <2> QED BY <2>1 DEF PassCount
  <1>5. ASSUME NEW k \in Controllers, CheckClean(k) PROVE CountInv'
    <2>1. /\ failures' = failures /\ before' = before /\ counted' = counted /\ wiped' = wiped
          /\ outcome' = outcome /\ step[k] = "closed"
          /\ \/ step' = [step EXCEPT ![k] = "idle"]
             \/ /\ step' = [step EXCEPT ![k] = "resetting"]
                /\ outcome[k] # "error" /\ failures = before[k]
      BY <1>5 DEF CheckClean, LooksClean
    <2> QED BY <2>1 DEF PassCount
  <1>6. ASSUME NEW k \in Controllers, Reset(k) PROVE CountInv'
    <2>1. /\ failures' = 0 /\ outcome' = outcome /\ before' = before /\ counted' = counted
          /\ step[k] = "resetting" /\ step' = [step EXCEPT ![k] = "idle"]
          /\ wiped' = [j \in Controllers |-> wiped[j] \/ (j # k /\ failures # 0)]
      BY <1>6 DEF Reset
    <2> QED BY <2>1 DEF PassCount
  <1>7. CASE UNCHANGED vars
    BY <1>7 DEF vars, PassCount
  <1> QED BY <1>1, <1>2, <1>3, <1>4, <1>5, <1>6, <1>7 DEF Next

\* A step that lowers the counter is the reset of a pass without an error, during
\* which nobody counted a failure, or another pass reset.
LEMMA LowerStep ==
  ASSUME CountInv, [Next]_vars, failures' < failures
  PROVE  /\ failures' = 0
         /\ \E k \in Controllers :
              /\ step[k] = "resetting" /\ step'[k] = "idle" /\ outcome[k] # "error"
              /\ counted[k] => wiped[k]
  <1> USE DEF CountInv, CountsOK
  <1>1. PICK k \in Controllers : Reset(k)
    <2>1. ASSUME NEW k \in Controllers,
                 Begin(k) \/ CheckGeneration(k) \/ Close(k) \/ CheckClean(k)
          PROVE  FALSE
      BY <2>1 DEF Begin, CheckGeneration, Close, CheckClean
    <2>2. ASSUME NEW k \in Controllers, NEW o \in Outcomes, Return(k, o) PROVE FALSE
      BY <2>2 DEF Return
    <2>3. ~UNCHANGED vars
      BY DEF vars
    <2> QED BY <2>1, <2>2, <2>3 DEF Next
  <1>2. failures' = 0 /\ step[k] = "resetting" /\ step'[k] = "idle"
    BY <1>1 DEF Reset
  <1>3. outcome[k] # "error" /\ (counted[k] => wiped[k])
    BY <1>2 DEF PassCount
  <1> QED BY <1>2, <1>3

\* StaysEscalatedAlways: however many controllers share a name and its counter,
\* and however their steps interleave, a pass restarts the doubling only if no
\* failure was counted between its two reads, or another pass had reset the
\* counter between them: what it wipes was counted before it began, or after it
\* had read the counter for the last time.
THEOREM StaysEscalatedAlways == Spec => StaysEscalated
  <1>1. CountInv /\ [Next]_vars
          => [failures' < failures
                => /\ failures' = 0
                   /\ \E k \in Controllers :
                        /\ step[k] = "resetting" /\ step'[k] = "idle" /\ outcome[k] # "error"
                        /\ counted[k] => wiped[k]]_vars
    BY LowerStep
  <1> QED BY <1>1, CountInit, CountStep, PTL DEF Spec, StaysEscalated

-----------------------------------------------------------------------------
(* What the loop of backoffTracker.delay computes.                          *)

Bases == {deletedThrottledBackoffBase, throttledBackoffBase, quotaBackoffBase}

\* A set of numbers that is not empty has a least one.
LEMMA LeastNumber ==
  ASSUME NEW T \in SUBSET Nat, T # {}
  PROVE  \E x \in T : \A y \in T : x <= y
  <1> DEFINE R == OpToRel(<, Nat)
  <1>1. IsWellFoundedOn(R, Nat)
    BY NatLessThanWellFounded
  <1>2. \A x, y \in Nat : y < x => <<y, x>> \in R
    BY DEF OpToRel
  <1> HIDE DEF R
  <1>3. PICK x \in T : \A y \in T : <<y, x>> \notin R
    BY <1>1, WFMin
  <1>4. ASSUME NEW y \in T PROVE x <= y
    <2>1. ~(y < x)
      BY <1>2, <1>3
    <2> QED BY <2>1
  <1> QED BY <1>4

\* The smaller of two numbers.
LEMMA MinOfTwo ==
  ASSUME NEW a \in Nat, NEW b \in Nat
  PROVE  Min({a, b}) = IF a <= b THEN a ELSE b
  <1> DEFINE m == IF a <= b THEN a ELSE b
  <1>1. m \in {a, b} /\ \A y \in {a, b} : m <= y
    OBVIOUS
  <1>2. ASSUME NEW x \in {a, b}, \A y \in {a, b} : x <= y PROVE x = m
    BY <1>1, <1>2
  <1> HIDE DEF m
  <1>3. (CHOOSE x \in {a, b} : \A y \in {a, b} : x <= y) = m
    BY <1>1, <1>2
  <1>4. m = IF a <= b THEN a ELSE b
    BY DEF m
  <1> QED BY <1>3, <1>4 DEF Min

\* The first five waits, and all later ones.
LEMMA WaitsValues ==
  ASSUME NEW b \in Bases
  PROVE  /\ Waits(b, 1) = b /\ Waits(b, 2) = 2 * b
         /\ Waits(b, 3) = IF b = 90 THEN 360 ELSE IF b = 180 THEN 720 ELSE 1200
         /\ Waits(b, 4) = IF b = 90 THEN 720 ELSE IF b = 180 THEN 1440 ELSE 1800
         /\ Waits(b, 5) = IF b = 90 THEN 1440 ELSE 1800
         /\ \A n \in Nat : n >= 6 => Waits(b, n) = 1800
  <1>a. b \in {90, 180, 300} /\ backoffMax = 1800
    BY DEF Bases, deletedThrottledBackoffBase, throttledBackoffBase, quotaBackoffBase, backoffMax
  <1>1. 2^(1 - 1) = 1 /\ 2^(2 - 1) = 2 /\ 2^(3 - 1) = 4 /\ 2^(4 - 1) = 8 /\ 2^(5 - 1) = 16
    OBVIOUS
  <1>2. Waits(b, 1) = Min({b, 1800})
    BY <1>a, <1>1 DEF Waits
  <1>3. Waits(b, 2) = Min({b * 2, 1800})
    BY <1>a, <1>1 DEF Waits
  <1>4. Waits(b, 3) = Min({b * 4, 1800})
    BY <1>a, <1>1 DEF Waits
  <1>5. Waits(b, 4) = Min({b * 8, 1800})
    BY <1>a, <1>1 DEF Waits
  <1>6. Waits(b, 5) = Min({b * 16, 1800})
    BY <1>a, <1>1 DEF Waits
  <1>7. \A n \in Nat : n >= 6 => Waits(b, n) = 1800
    BY <1>a DEF Waits
  <1> QED BY <1>a, <1>2, <1>3, <1>4, <1>5, <1>6, <1>7, MinOfTwo

\* One turn of the loop.
Turn(x) == IF 2 * x >= backoffMax THEN backoffMax ELSE 2 * x

\* The waits are what the loop computes, turn by turn.
LEMMA WaitsTurn ==
  ASSUME NEW b \in Bases, NEW i \in Nat, i >= 2
  PROVE  Waits(b, i) = Turn(Waits(b, i - 1))
  <1>a. b \in {90, 180, 300} /\ backoffMax = 1800
    BY DEF Bases, deletedThrottledBackoffBase, throttledBackoffBase, quotaBackoffBase, backoffMax
  <1>1. CASE i = 2
    BY <1>a, <1>1, WaitsValues DEF Turn
  <1>2. CASE i = 3
    BY <1>a, <1>2, WaitsValues DEF Turn
  <1>3. CASE i = 4
    BY <1>a, <1>3, WaitsValues DEF Turn
  <1>4. CASE i = 5
    BY <1>a, <1>4, WaitsValues DEF Turn
  <1>5. CASE i = 6
    BY <1>a, <1>5, WaitsValues DEF Turn
  <1>6. CASE i > 6
    <2>1. i - 1 \in Nat /\ i - 1 >= 6
      BY <1>6
    <2> QED BY <1>a, <1>6, <2>1, WaitsValues DEF Turn
  <1> QED BY <1>1, <1>2, <1>3, <1>4, <1>5, <1>6

\* d is the list of delays of the loop, up to the n-th.
Loop(d, b, n) == d = [i \in 1..n |-> IF i = 1 THEN b ELSE Turn(d[i - 1])]

\* The loop of Doubled has a solution, so Doubled is its last value.
LEMMA DoubledLoops ==
  ASSUME NEW b \in Bases, NEW n \in Nat \ {0}
  PROVE  \E d : Loop(d, b, n) /\ Doubled(b, n) = d[n]
  <1> DEFINE w == [i \in 1..n |-> Waits(b, i)]
             d == CHOOSE f : Loop(f, b, n)
  <1>1. Loop(w, b, n)
    <2>1. ASSUME NEW i \in 1..n PROVE Waits(b, i) = IF i = 1 THEN b ELSE Turn(w[i - 1])
      <3>1. CASE i = 1
        BY <3>1, WaitsValues
      <3>2. CASE i # 1
        <4>1. i \in Nat /\ i >= 2 /\ i - 1 \in 1..n
          BY <3>2
        <4> QED BY <3>2, <4>1, WaitsTurn
      <3> QED BY <3>1, <3>2
    <2> QED BY <2>1 DEF Loop
  <1>2. Loop(d, b, n)
    BY <1>1
  <1>3. Doubled(b, n) = d[n]
    BY DEF Doubled, Loop, Turn
  <1> QED BY <1>2, <1>3

\* Doubled is the capped power of two, for every number of failures: at the
\* first turn where it were not, the turn before would already be wrong.
LEMMA DoubledWaits ==
  ASSUME NEW b \in Bases, NEW n \in Nat \ {0}
  PROVE  Doubled(b, n) = Waits(b, n)
  <1>1. PICK d : Loop(d, b, n) /\ Doubled(b, n) = d[n]
    BY DoubledLoops
  <1>2. \A i \in 1..n : d[i] = IF i = 1 THEN b ELSE Turn(d[i - 1])
    BY <1>1 DEF Loop
  <1> DEFINE Wrong == {i \in 1..n : d[i] # Waits(b, i)}
  <1>3. ASSUME Wrong # {} PROVE FALSE
    <2>1. Wrong \in SUBSET Nat
      OBVIOUS
    <2>2. PICK i \in Wrong : \A j \in Wrong : i <= j
      <3> HIDE DEF Wrong
      <3> QED BY <1>3, <2>1, LeastNumber
    <2>3. CASE i = 1
      BY <1>2, <2>2, <2>3, WaitsValues
    <2>4. CASE i # 1
      <3>1. i \in Nat /\ i >= 2 /\ i - 1 \in 1..n /\ i - 1 \notin Wrong
        BY <2>2, <2>4
      <3>2. d[i] = Turn(d[i - 1]) /\ d[i - 1] = Waits(b, i - 1)
        BY <1>2, <2>4, <3>1
      <3> QED BY <2>2, <3>1, <3>2, WaitsTurn
    <2> QED BY <2>3, <2>4
  <1>4. d[n] = Waits(b, n)
    BY <1>3
  <1> QED BY <1>1, <1>4

-----------------------------------------------------------------------------
(* The delays of passes.                                                    *)

\* The outcomes that count have the bases of the loop, and wait at least that
\* long and never the default.
LEMMA CountedWaits ==
  ASSUME NEW o \in Counted, NEW n \in Nat \ {0}
  PROVE  /\ RequeueAfter(o, n) = Waits(Base(o), n)
         /\ RequeueAfter(o, n) >= Base(o) /\ RequeueAfter(o, n) # defaultRequeue
  <1>1. Base(o) \in Bases
    BY DEF Counted, Base, Bases
  <1>2. RequeueAfter(o, n) = Doubled(Base(o), n)
    <2>1. o # "permission" /\ o # "clean" /\ o # "default"
      BY DEF Counted
    <2> QED BY <2>1 DEF RequeueAfter
  <1>3. RequeueAfter(o, n) = Waits(Base(o), n)
    BY <1>1, <1>2, DoubledWaits
  <1>4. Base(o) \in {90, 180, 300} /\ defaultRequeue = 30
    BY <1>1 DEF Bases, deletedThrottledBackoffBase, throttledBackoffBase, quotaBackoffBase,
                defaultRequeue
  <1>5. n \in 1..5 \/ n >= 6
    OBVIOUS
  <1>6. Waits(Base(o), n) >= Base(o) /\ Waits(Base(o), n) # 30
    <2>1. CASE n \in 1..5
      <3>1. n = 1 \/ n = 2 \/ n = 3 \/ n = 4 \/ n = 5
        BY <2>1
      <3> QED BY <1>1, <1>4, <3>1, WaitsValues
    <2>2. CASE n >= 6
      BY <1>1, <1>4, <2>2, WaitsValues
    <2> QED BY <1>5, <2>1, <2>2
  <1> QED BY <1>3, <1>4, <1>6

Tuned == Counted \cup {"permission"}

\* A delay that was tuned to the error.  TunedNotShortened is about a pass that has
\* closed; TunedInv has it from the moment the body returned, reset under or not,
\* and remembers the permission delay by which CheckGeneration knows it.
LongEnough(o, d) == d >= Base(o) /\ d # defaultRequeue /\ (o = "permission" => d = permissionBackoff)

TunedInv ==
  \A k \in Controllers :
    outcome[k] \in Tuned =>
      /\ step[k] = "returned" => LongEnough(outcome[k], delay[k])
      /\ step[k] \in {"closing", "closed", "resetting"} /\ ~wiped[k]
           => LongEnough(outcome[k], delay[k])

\* The delay of a pass is a function of the controllers.
DelayOK == DOMAIN delay = Controllers

\* What the body of a pass returns is long enough.
LEMMA ReturnsLong ==
  ASSUME NEW o \in Tuned, NEW n \in Nat, o \in Counted => n # 0
  PROVE  LongEnough(o, RequeueAfter(o, n))
  <1>1. CASE o \in Counted
    BY <1>1, CountedWaits DEF LongEnough, Counted
  <1>2. CASE o = "permission"
    BY <1>2 DEF LongEnough, RequeueAfter, Counted, Base, permissionBackoff, defaultRequeue
  <1> QED BY <1>1, <1>2 DEF Tuned

\* Every step preserves TunedInv.
LEMMA TunedStep ==
  ASSUME CountInv, TunedInv, DelayOK, [Next]_vars
  PROVE  TunedInv' /\ DelayOK'
  <1> USE DEF CountInv, CountsOK, DelayOK
  <1>1. ASSUME NEW k \in Controllers, Begin(k) PROVE TunedInv' /\ DelayOK'
    BY <1>1 DEF Begin, TunedInv
  <1>2. ASSUME NEW k \in Controllers, NEW o \in Outcomes, Return(k, o) PROVE TunedInv' /\ DelayOK'
    <2>1. /\ failures' = IF o \in Counted THEN failures + 1 ELSE failures
          /\ outcome' = [outcome EXCEPT ![k] = o]
          /\ delay' = [delay EXCEPT ![k] = RequeueAfter(o, failures')]
          /\ \A j \in Controllers \ {k} : step'[j] = step[j]
          /\ step'[k] \in {"returned", "closing"} /\ wiped' = wiped
      BY <1>2 DEF Return
    <2>2. o \in Tuned => LongEnough(o, RequeueAfter(o, failures'))
      BY <2>1, ReturnsLong
    <2> HIDE DEF CountInv
    <2>3. ASSUME NEW j \in Controllers, outcome'[j] \in Tuned
          PROVE  /\ step'[j] = "returned" => LongEnough(outcome'[j], delay'[j])
                 /\ step'[j] \in {"closing", "closed", "resetting"} /\ ~wiped'[j]
                      => LongEnough(outcome'[j], delay'[j])
      <3>1. CASE j = k
        BY <2>1, <2>2, <2>3, <3>1 DEF CountInv
      <3>2. CASE j # k
        <4>1. outcome'[j] = outcome[j] /\ delay'[j] = delay[j] /\ step'[j] = step[j]
          BY <2>1, <3>2 DEF CountInv
        <4> QED BY <2>1, <2>3, <4>1 DEF TunedInv
      <3> QED BY <3>1, <3>2
    <2>4. DelayOK'
      BY <2>1
    <2> QED BY <2>3, <2>4 DEF TunedInv
  <1>3. ASSUME NEW k \in Controllers, CheckGeneration(k) PROVE TunedInv' /\ DelayOK'
    <2>1. /\ step[k] = "returned" /\ step' = [step EXCEPT ![k] = "closing"]
          /\ outcome' = outcome /\ wiped' = wiped
          /\ \/ delay' = delay
             \/ ~ClassifiedBackoff(k) /\ delay' = [delay EXCEPT ![k] = defaultRequeue]
      BY <1>3 DEF CheckGeneration
    <2>2. ASSUME outcome[k] \in Tuned, ~wiped[k] PROVE delay' = delay
      <3>1. CASE outcome[k] \in Counted
        BY <2>1, <2>2, <3>1 DEF PassCount, BetweenReads, ClassifiedBackoff
      <3>2. CASE outcome[k] = "permission"
        BY <2>1, <2>2, <3>2 DEF TunedInv, LongEnough, ClassifiedBackoff
      <3> QED BY <2>2, <3>1, <3>2 DEF Tuned
    <2>3. ASSUME NEW j \in Controllers, outcome'[j] \in Tuned
          PROVE  /\ step'[j] = "returned" => LongEnough(outcome'[j], delay'[j])
                 /\ step'[j] \in {"closing", "closed", "resetting"} /\ ~wiped'[j]
                      => LongEnough(outcome'[j], delay'[j])
      <3>1. CASE j = k
        BY <2>1, <2>2, <2>3, <3>1 DEF TunedInv
      <3>2. CASE j # k
        <4>1. outcome'[j] = outcome[j] /\ delay'[j] = delay[j] /\ step'[j] = step[j]
          BY <2>1, <3>2
        <4> QED BY <2>1, <2>3, <4>1 DEF TunedInv
      <3> QED BY <3>1, <3>2
    <2>4. DelayOK'
      BY <2>1
    <2> QED BY <2>3, <2>4 DEF TunedInv
  <1>4. ASSUME NEW k \in Controllers, Close(k) PROVE TunedInv' /\ DelayOK'
    <2>1. /\ step[k] = "closing" /\ step' = [step EXCEPT ![k] = "closed"] /\ wiped' = wiped
          /\ \/ outcome' = outcome /\ delay' = delay
             \/ /\ outcome' = [outcome EXCEPT ![k] = "error"]
                /\ delay' = [delay EXCEPT ![k] = 0]
      BY <1>4 DEF Close
    <2>2. "error" \notin Tuned
      BY DEF Tuned, Counted
    <2> QED BY <2>1, <2>2 DEF TunedInv
  <1>5. ASSUME NEW k \in Controllers, CheckClean(k) \/ Reset(k) PROVE TunedInv' /\ DelayOK'
    <2>1. /\ outcome' = outcome /\ delay' = delay
          /\ \/ step' = [step EXCEPT ![k] = "idle"]
             \/ step[k] = "closed" /\ step' = [step EXCEPT ![k] = "resetting"]
          /\ \A j \in Controllers : ~wiped'[j] => ~wiped[j]
      BY <1>5 DEF CheckClean, Reset
    <2> QED BY <2>1 DEF TunedInv
  <1>6. CASE UNCHANGED vars
    BY <1>6 DEF vars, TunedInv
  <1> QED BY <1>1, <1>2, <1>3, <1>4, <1>5, <1>6 DEF Next

\* TunedNotShortenedAlways: for any number of controllers and of failures in a
\* row, the generation check leaves a tuned delay alone unless another pass reset
\* the counter meanwhile: the counter and the fixed delay give a tuned result away.
THEOREM TunedNotShortenedAlways == Spec => []TunedNotShortened
  <1>1. Init => TunedInv /\ DelayOK
    BY DEF Init, TunedInv, DelayOK, Tuned, Counted
  <1>2. TunedInv => TunedNotShortened
    BY DEF TunedInv, TunedNotShortened, Tuned, LongEnough
  <1>3. CountInv /\ TunedInv /\ DelayOK /\ [Next]_vars => TunedInv' /\ DelayOK'
    BY TunedStep
  <1> QED BY <1>1, <1>2, <1>3, CountInit, CountStep, PTL DEF Spec

\* The n-th failure in a row.
LEMMA DoublingStep ==
  ASSUME CountInv, DelayOK, Next, NEW k \in Controllers,
         step[k] = "begun", step'[k] # "begun", outcome'[k] \in Counted
  PROVE  delay'[k] = Waits(Base(outcome'[k]), failures')
  <1> USE DEF CountInv, CountsOK, DelayOK
  <1>1. PICK o \in Outcomes : Return(k, o)
    <2>1. ASSUME NEW j \in Controllers,
                 Begin(j) \/ CheckGeneration(j) \/ Close(j) \/ CheckClean(j) \/ Reset(j)
          PROVE  FALSE
      BY <2>1 DEF Begin, CheckGeneration, Close, CheckClean, Reset
    <2>2. ASSUME NEW j \in Controllers, NEW o \in Outcomes, Return(j, o) PROVE j = k
      BY <2>2 DEF Return
    <2> QED BY <2>1, <2>2 DEF Next
  <1>2. outcome'[k] = o /\ failures' = failures + 1 /\ delay'[k] = RequeueAfter(o, failures')
    BY <1>1 DEF Return
  <1> QED BY <1>2, CountedWaits

\* CappedDoublingAlways: the n-th failure in a row, whichever controllers met the
\* ones before, waits base * 2^(n-1) up to the cap, for every n.
THEOREM CappedDoublingAlways == Spec => CappedDoubling
  <1>1. Init => TunedInv /\ DelayOK
    BY DEF Init, TunedInv, DelayOK, Tuned, Counted
  <1>2. CountInv /\ TunedInv /\ DelayOK /\ [Next]_vars => TunedInv' /\ DelayOK'
    BY TunedStep
  <1>3. CountInv /\ DelayOK /\ [Next]_vars
          => [\A k \in Controllers :
                step[k] = "begun" /\ step'[k] # "begun" /\ outcome'[k] \in Counted
                  => delay'[k] = Waits(Base(outcome'[k]), failures')]_vars
    BY DoublingStep
  <1> QED BY <1>1, <1>2, <1>3, CountInit, CountStep, PTL DEF Spec, CappedDoubling
=============================================================================
