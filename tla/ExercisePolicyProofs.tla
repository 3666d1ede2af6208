------------------------ MODULE ExercisePolicyProofs ------------------------
(* Proofs about ExercisePolicy for every set of trajectories, predictors   *)
(* and requests, and any number of exercise dates.                         *)
EXTENDS ExercisePolicy, FiniteSetTheorems, TLAPS
-----------------------------------------------------------------------------
(* The first exercise.                                                     *)

(* The least of a set of dates, when it is known.                          *)
LEMMA LeastIs ==
  ASSUME NEW S, NEW s \in S, \A k \in S : k \in Int /\ s <= k
  PROVE  (CHOOSE k \in S : \A j \in S : k <= j) = s
<1>1. \E k \in S : \A j \in S : k <= j
  OBVIOUS
<1>2. ASSUME NEW k \in S, \A j \in S : k <= j PROVE k = s
  BY <1>2
<1> QED
  BY <1>1, <1>2

(* After the last fitted date nothing exercises.                           *)
LEMMA FirstAtExpiry ==
  ASSUME NEW fitted, NEW t
  PROVE  FirstFrom(fitted, Expiry, t) = Expiry
<1>1. {k \in Expiry..Expiry - 1 : Exercises(fitted[k], t, k)} = {}
  BY ExerciseAssumption
<1> QED
  BY <1>1 DEF FirstFrom

(* The first date from d on is d itself or the first after it, as the      *)
(* backward sweep replaces or keeps what it had.                           *)
LEMMA FirstStep ==
  ASSUME NEW fitted, NEW t, NEW d \in 0..Expiry - 1
  PROVE  FirstFrom(fitted, d, t)
           = IF Exercises(fitted[d], t, d) THEN d ELSE FirstFrom(fitted, d + 1, t)
<1> DEFINE Stopping(e) == {k \in e..Expiry - 1 : Exercises(fitted[k], t, k)}
<1>1. d \in Nat /\ Expiry \in Nat /\ d < Expiry
  BY ExerciseAssumption
<1>2. CASE Exercises(fitted[d], t, d)
  <2>1. d \in Stopping(d) /\ \A j \in Stopping(d) : j \in Int /\ d <= j
    BY <1>1, <1>2
  <2>2. (CHOOSE k \in Stopping(d) : \A j \in Stopping(d) : k <= j) = d
    <3> HIDE DEF Stopping
    <3> QED
      BY <2>1, LeastIs
  <2> QED
    BY <1>2, <2>1, <2>2 DEF FirstFrom
<1>3. CASE ~Exercises(fitted[d], t, d)
  <2>1. Stopping(d) = Stopping(d + 1)
    <3>1. ASSUME NEW k PROVE k \in Stopping(d) <=> k \in Stopping(d + 1)
      BY <1>1, <1>3
    <3> QED
      BY <3>1
  <2>2. /\ FirstFrom(fitted, d, t) = IF Stopping(d) = {} THEN Expiry
             ELSE CHOOSE k \in Stopping(d) : \A j \in Stopping(d) : k <= j
        /\ FirstFrom(fitted, d + 1, t) = IF Stopping(d + 1) = {} THEN Expiry
             ELSE CHOOSE k \in Stopping(d + 1) : \A j \in Stopping(d + 1) : k <= j
    BY DEF FirstFrom
  <2> HIDE DEF Stopping
  <2> QED
    BY <1>3, <2>1, <2>2
<1> QED
  BY <1>2, <1>3

(* A date that exercises when none before it does is the first.            *)
LEMMA FirstIs ==
  ASSUME NEW fitted, NEW t, NEW s \in 0..Expiry,
         \A k \in 0..s - 1 : ~Exercises(fitted[k], t, k),
         s # Expiry => Exercises(fitted[s], t, s)
  PROVE  FirstFrom(fitted, 0, t) = s
<1> DEFINE Stopping == {k \in 0..Expiry - 1 : Exercises(fitted[k], t, k)}
<1>1. s \in Nat /\ Expiry \in Nat
  BY ExerciseAssumption
<1>2. \A k \in Stopping : k \in Int /\ s <= k
  BY <1>1
<1>3. CASE s = Expiry
  <2>1. Stopping = {}
    BY <1>1, <1>3
  <2> QED
    BY <1>3, <2>1 DEF FirstFrom
<1>4. CASE s # Expiry
  <2>1. s \in Stopping
    BY <1>1, <1>4
  <2>2. (CHOOSE k \in Stopping : \A j \in Stopping : k <= j) = s
    <3> HIDE DEF Stopping
    <3> QED
      BY <1>2, <2>1, LeastIs
  <2> QED
    BY <2>1, <2>2 DEF FirstFrom
<1> QED
  BY <1>3, <1>4

(* The first exercise from d on depends on the decisions from d on only.   *)
LEMMA FirstKept ==
  ASSUME NEW fitted, NEW other, NEW t, NEW d,
         \A k \in d..Expiry - 1 : other[k] = fitted[k]
  PROVE  FirstFrom(other, d, t) = FirstFrom(fitted, d, t)
<1> DEFINE Stopping(D) == {k \in d..Expiry - 1 : Exercises(D[k], t, k)}
<1>1. Stopping(other) = Stopping(fitted)
  OBVIOUS
<1>2. \A D : FirstFrom(D, d, t) = IF Stopping(D) = {} THEN Expiry
               ELSE CHOOSE k \in Stopping(D) : \A j \in Stopping(D) : k <= j
  BY DEF FirstFrom
<1> HIDE DEF Stopping
<1> QED
  BY <1>1, <1>2
-----------------------------------------------------------------------------
(* The inductive invariant.                                                *)

(* The dates already fitted, and those already valued.                     *)
FittedFrom == IF phase = "train" THEN date + 1 ELSE 0
ValuedTo == IF phase = "value" THEN date ELSE Expiry

(* What each phase has and has not yet.                                    *)
PhaseInv ==
  /\ TypeOK
  /\ DOMAIN tCash = DOMAIN tPaths /\ DOMAIN vCash = DOMAIN vPaths
  /\ phase \in {"request", "train", "failed"} => policy = NoPolicy
  /\ phase \in {"request", "train", "failed", "frozen"} => vPaths = NoPaths
  /\ phase = "request" => decisions = NoDecisions /\ tPaths = NoPaths
  /\ phase = "train" => date \in -1..Expiry - 1 /\ DOMAIN decisions = date + 1..Expiry - 1
  /\ phase \in {"frozen", "value", "valued", "reported"} =>
       /\ DOMAIN decisions = 0..Expiry - 1
       /\ policy # NoPolicy /\ policy.decisions = decisions
  /\ phase = "value" => date \in 0..Expiry

(* The sweep so far: every training path stops where the decisions fitted  *)
(* so far would stop it.                                                   *)
SweptSoFar ==
  phase \notin {"request", "failed"} => \A p \in DOMAIN tPaths :
    /\ tStop[p] = FirstFrom(decisions, FittedFrom, tPaths[p])
    /\ tCash[p] = ImmediateOf[tPaths[p]][tStop[p]]

(* The valuation so far: a path that has stopped did so at its first       *)
(* exercise; one that has not had none.                                    *)
ValuedSoFar ==
  phase \in {"value", "valued", "reported"} => \A p \in DOMAIN vPaths :
    /\ vCash[p] = ImmediateOf[vPaths[p]][vStop[p]]
    /\ \A k \in 0..vStop[p] - 1 : k < ValuedTo => ~Exercises(decisions[k], vPaths[p], k)
    /\ vStop[p] # Expiry =>
         vStop[p] < ValuedTo /\ Exercises(decisions[vStop[p]], vPaths[p], vStop[p])

Discounted ==
  phase \in {"valued", "reported"} =>
    discounted = [p \in DOMAIN vPaths |-> vCash[p] * DiscountOf[vStop[p]]]

PolicyInv ==
  PhaseInv /\ FitsFollowLaterPolicy /\ SweptSoFar /\ ValuedSoFar /\ Discounted
-----------------------------------------------------------------------------
(* It holds when a request is made.                                        *)
LEMMA InitPolicy == Init => PolicyInv
<1> SUFFICES ASSUME Init PROVE PolicyInv
  OBVIOUS
<1>1. DOMAIN NoPaths = {} /\ DOMAIN NoDecisions = {}
  BY DEF NoPaths, NoDecisions
<1>2. PhaseInv
  BY <1>1, ExerciseAssumption DEF Init, PhaseInv, TypeOK
<1>3. FitsFollowLaterPolicy
  BY <1>1 DEF Init, FitsFollowLaterPolicy
<1> QED
  BY <1>2, <1>3 DEF Init, PolicyInv, SweptSoFar, ValuedSoFar, Discounted

(* A refusal leaves the work as it was, and no policy.                     *)
LEMMA FailPolicy ==
  ASSUME PolicyInv, NEW why, why # "none", Fail(why), policy = NoPolicy,
         phase \in {"request", "train"}
  PROVE  PolicyInv'
<1>1. /\ phase' = "failed" /\ error' = why
      /\ UNCHANGED <<drawn, date, tPaths, tCash, tStop, decisions, policy, vPaths, vCash, vStop,
                     discounted>>
  BY DEF Fail, trained, valued
<1>2. PhaseInv'
  BY <1>1 DEF PolicyInv, PhaseInv, TypeOK
<1>3. FitsFollowLaterPolicy'
  BY <1>1 DEF PolicyInv, FitsFollowLaterPolicy, Continuation
<1> QED
  BY <1>1, <1>2, <1>3 DEF PolicyInv, SweptSoFar, ValuedSoFar, Discounted

(* The sweep starts at the expiry, where every path is paid what it is     *)
(* worth.                                                                  *)
LEMMA DrawTrainingPolicy ==
  ASSUME PolicyInv, DrawTraining
  PROVE  PolicyInv'
<1>1. phase = "request" /\ policy = NoPolicy
  BY DEF DrawTraining, PolicyInv, PhaseInv
<1>2. CASE PathCount(training) > MaxElements
  BY <1>1, <1>2, FailPolicy DEF DrawTraining
<1>3. CASE ~(PathCount(training) > MaxElements)
  <2>1. PICK paths :
          /\ tPaths' = paths /\ tCash' = AtExpiry(paths) /\ tStop' = NeverStopped(paths)
          /\ date' = Expiry - 1 /\ phase' = "train"
          /\ UNCHANGED <<request, error, decisions, policy, valued, discounted, units, risk>>
    BY <1>3 DEF DrawTraining
  <2>2. /\ DOMAIN tCash' = DOMAIN paths /\ DOMAIN tStop' = DOMAIN paths
        /\ \A p \in DOMAIN paths : tStop'[p] = Expiry /\ tCash'[p] = ImmediateOf[paths[p]][Expiry]
    BY <2>1 DEF AtExpiry, NeverStopped
  <2>3. decisions = NoDecisions /\ DOMAIN NoDecisions = {}
    BY <1>1 DEF PolicyInv, PhaseInv, NoDecisions
  <2>4. PhaseInv'
    BY <1>1, <2>1, <2>2, <2>3, ExerciseAssumption DEF PolicyInv, PhaseInv, TypeOK, valued
  <2>5. FitsFollowLaterPolicy'
    BY <2>1, <2>3 DEF FitsFollowLaterPolicy
  <2>6. SweptSoFar'
    <3>1. FittedFrom' = Expiry
      BY <2>1, ExerciseAssumption DEF FittedFrom
    <3> QED
      BY <2>1, <2>2, <3>1, FirstAtExpiry DEF SweptSoFar
  <2> QED
    BY <2>1, <2>4, <2>5, <2>6 DEF PolicyInv, ValuedSoFar, Discounted
<1> QED
  BY <1>2, <1>3

(* One date of the sweep: the decision is fitted to what the later ones    *)
(* realize, and the paths it exercises stop here instead.                  *)
LEMMA TrainDatePolicy ==
  ASSUME PolicyInv, TrainDate
  PROVE  PolicyInv'
<1>1. /\ phase = "train" /\ date \in 0..Expiry - 1 /\ policy = NoPolicy
      /\ DOMAIN decisions = date + 1..Expiry - 1 /\ vPaths = NoPaths
      /\ DOMAIN tCash = DOMAIN tPaths /\ DOMAIN tStop = DOMAIN tPaths
      /\ Expiry \in Nat
  BY ExerciseAssumption DEF TrainDate, PolicyInv, PhaseInv, TypeOK
<1>2. CASE TooManyElements
  BY <1>1, <1>2, FailPolicy DEF TrainDate
<1>3. CASE ~TooManyElements
  <2>1. PICK fit \in Fits :
          /\ tCash' = [p \in DOMAIN tCash |->
               IF p \in Stops(fit) THEN ImmediateOf[tPaths[p]][date] ELSE tCash[p]]
          /\ tStop' = [p \in DOMAIN tStop |-> IF p \in Stops(fit) THEN date ELSE tStop[p]]
          /\ decisions' = [d \in date..Expiry - 1 |-> IF d = date THEN fit ELSE decisions[d]]
          /\ date' = date - 1
          /\ UNCHANGED <<request, phase, error, drawn, tPaths, policy, valued,
                         discounted, units, risk>>
    BY <1>3 DEF TrainDate
  <2>2. /\ DOMAIN decisions' = date..Expiry - 1 /\ decisions'[date] = fit
        /\ \A d \in date + 1..Expiry - 1 : decisions'[d] = decisions[d]
    BY <1>1, <2>1
  <2>3. /\ DOMAIN tCash' = DOMAIN tPaths /\ DOMAIN tStop' = DOMAIN tPaths
        /\ \A p \in DOMAIN tPaths :
             IF Exercises(fit, tPaths[p], date)
             THEN tStop'[p] = date /\ tCash'[p] = ImmediateOf[tPaths[p]][date]
             ELSE tStop'[p] = tStop[p] /\ tCash'[p] = tCash[p]
    BY <1>1, <2>1 DEF Stops
  <2>4. \A p \in DOMAIN tPaths : /\ tStop[p] = FirstFrom(decisions, date + 1, tPaths[p])
                                 /\ tCash[p] = ImmediateOf[tPaths[p]][tStop[p]]
    BY <1>1 DEF PolicyInv, SweptSoFar, FittedFrom
  <2>5. ASSUME NEW d \in date..Expiry - 1, NEW t
        PROVE  FirstFrom(decisions', d + 1, t) = FirstFrom(decisions, d + 1, t)
    <3>1. \A k \in d + 1..Expiry - 1 : decisions'[k] = decisions[k]
      BY <1>1, <2>2
    <3> QED
      BY <3>1, FirstKept
  <2>6. PhaseInv'
    <3>1. TypeOK'
      BY <1>1, <2>1, <2>2, <2>3 DEF PolicyInv, PhaseInv, TypeOK, valued
    <3> QED
      BY <1>1, <2>1, <2>2, <2>3, <3>1 DEF PolicyInv, PhaseInv, valued
  <2>7. FitsFollowLaterPolicy'
    <3>1. SUFFICES ASSUME NEW d \in date..Expiry - 1
          PROVE LET rows == {p \in DOMAIN tPaths : ImmediateOf[tPaths[p]][d] > 0} IN
                IF rows = {} THEN decisions'[d] = ContinueAll(d)
                ELSE decisions'[d].targets = [p \in rows |-> Continuation(tPaths[p], d)']
      BY <2>1, <2>2, ZenonT(40) DEF FitsFollowLaterPolicy, Continuation
    <3>2. \A p \in DOMAIN tPaths : Continuation(tPaths[p], d)' = Continuation(tPaths[p], d)
      BY <2>1, <2>5 DEF Continuation
    <3>3. CASE d # date
      BY <1>1, <2>2, <3>1, <3>2, <3>3 DEF PolicyInv, FitsFollowLaterPolicy
    <3>4. CASE d = date
      <4>1. InTheMoney(tPaths, date) = {p \in DOMAIN tPaths : ImmediateOf[tPaths[p]][d] > 0}
        BY <3>4 DEF InTheMoney
      <4>2. CASE InTheMoney(tPaths, date) = {}
        BY <2>2, <3>4, <4>1, <4>2 DEF Fits
      <4>3. CASE InTheMoney(tPaths, date) # {}
        <5>1. fit.targets = [p \in InTheMoney(tPaths, date) |-> ContinuationTarget(p)]
          BY <4>3 DEF Fits, Regression
        <5>2. \A p \in DOMAIN tPaths : ContinuationTarget(p) = Continuation(tPaths[p], d)
          BY <2>4, <3>4 DEF ContinuationTarget, Continuation
        <5>3. fit.targets = [p \in InTheMoney(tPaths, date) |-> Continuation(tPaths[p], d)]
          BY <4>1, <5>1, <5>2
        <5> QED
          BY <2>2, <3>2, <3>4, <4>1, <4>3, <5>3
      <4> QED
        BY <4>2, <4>3
    <3> QED
      BY <3>3, <3>4
  <2>8. SweptSoFar'
    <3>1. FittedFrom' = date
      BY <1>1, <2>1 DEF FittedFrom
    <3>2. ASSUME NEW p \in DOMAIN tPaths
          PROVE  /\ tStop'[p] = FirstFrom(decisions', date, tPaths[p])
                 /\ tCash'[p] = ImmediateOf[tPaths[p]][tStop'[p]]
      <4>1. FirstFrom(decisions', date, tPaths[p])
              = IF Exercises(fit, tPaths[p], date) THEN date
                ELSE FirstFrom(decisions, date + 1, tPaths[p])
        BY <1>1, <2>2, <2>5, FirstStep
      <4> QED
        BY <2>3, <2>4, <4>1
    <3> QED
      BY <2>1, <3>1, <3>2 DEF SweptSoFar
  <2> QED
    BY <1>1, <2>1, <2>6, <2>7, <2>8 DEF PolicyInv, ValuedSoFar, Discounted
<1> QED
  BY <1>2, <1>3

(* Freezing keeps the decisions of the completed sweep.                    *)
LEMMA FreezePolicy ==
  ASSUME PolicyInv, Freeze
  PROVE  PolicyInv'
<1>1. /\ phase = "train" /\ phase' = "frozen" /\ date = -1
      /\ DOMAIN decisions = 0..Expiry - 1 /\ Expiry \in Nat
      /\ policy'.kind = "frozen" /\ policy'.decisions = decisions
      /\ UNCHANGED <<error, date, tPaths, tCash, tStop, decisions, vPaths, vCash, vStop>>
  BY ExerciseAssumption DEF Freeze, PolicyInv, PhaseInv, trained, valued
<1>2. policy' # NoPolicy
  BY <1>1 DEF NoPolicy
<1>3. PhaseInv'
  BY <1>1, <1>2 DEF PolicyInv, PhaseInv, TypeOK
<1>4. FitsFollowLaterPolicy'
  BY <1>1, ZenonT(40) DEF PolicyInv, FitsFollowLaterPolicy, Continuation
<1>5. FittedFrom' = 0 /\ FittedFrom = 0
  BY <1>1 DEF FittedFrom
<1> QED
  BY <1>1, <1>3, <1>4, <1>5 DEF PolicyInv, SweptSoFar, ValuedSoFar, Discounted

(* A valuation starts with no path stopped.                                *)
LEMMA DrawValuationPolicy ==
  ASSUME PolicyInv, DrawValuation
  PROVE  PolicyInv'
<1>1. PICK paths :
        /\ vPaths' = paths /\ vCash' = AtExpiry(paths) /\ vStop' = NeverStopped(paths)
        /\ date' = 0 /\ phase' = "value" /\ phase = "frozen"
        /\ UNCHANGED <<request, error, trained, decisions, policy, discounted, units, risk>>
  BY DEF DrawValuation
<1>2. /\ DOMAIN vCash' = DOMAIN paths /\ DOMAIN vStop' = DOMAIN paths
      /\ \A p \in DOMAIN paths : vStop'[p] = Expiry /\ vCash'[p] = ImmediateOf[paths[p]][Expiry]
  BY <1>1 DEF AtExpiry, NeverStopped
<1>3. PhaseInv'
  BY <1>1, <1>2, ExerciseAssumption DEF PolicyInv, PhaseInv, TypeOK, trained
<1>4. FitsFollowLaterPolicy' /\ SweptSoFar'
  BY <1>1 DEF PolicyInv, FitsFollowLaterPolicy, Continuation, SweptSoFar, FittedFrom, trained
<1>5. ValuedSoFar'
  BY <1>1, <1>2 DEF ValuedSoFar, ValuedTo
<1> QED
  BY <1>1, <1>3, <1>4, <1>5 DEF PolicyInv, Discounted

(* One date of the valuation stops paths that had not stopped.             *)
LEMMA ValueDatePolicy ==
  ASSUME PolicyInv, ValueDate
  PROVE  PolicyInv'
<1>1. /\ phase = "value" /\ date \in 0..Expiry - 1 /\ date' = date + 1
      /\ DOMAIN vCash = DOMAIN vPaths /\ DOMAIN vStop = DOMAIN vPaths
      /\ policy.decisions = decisions /\ Expiry \in Nat
      /\ \A p \in DOMAIN vPaths : vStop[p] \in 0..Expiry
      /\ UNCHANGED <<phase, error, tPaths, tCash, tStop, decisions, policy, vPaths, discounted>>
  BY ExerciseAssumption DEF ValueDate, PolicyInv, PhaseInv, TypeOK, trained
<1>2. /\ DOMAIN vCash' = DOMAIN vPaths /\ DOMAIN vStop' = DOMAIN vPaths
      /\ \A p \in DOMAIN vPaths :
           IF vStop[p] = Expiry /\ Exercises(decisions[date], vPaths[p], date)
           THEN vStop'[p] = date /\ vCash'[p] = ImmediateOf[vPaths[p]][date]
           ELSE vStop'[p] = vStop[p] /\ vCash'[p] = vCash[p]
  BY <1>1 DEF ValueDate, Exercised
<1>3. PhaseInv'
  <2>1. TypeOK'
    BY <1>1, <1>2 DEF PolicyInv, PhaseInv, TypeOK
  <2> QED
    BY <1>1, <1>2, <2>1 DEF PolicyInv, PhaseInv
<1>4. FitsFollowLaterPolicy' /\ SweptSoFar'
  BY <1>1 DEF PolicyInv, FitsFollowLaterPolicy, Continuation, SweptSoFar, FittedFrom
<1>5. ASSUME NEW p \in DOMAIN vPaths
      PROVE  /\ vCash'[p] = ImmediateOf[vPaths[p]][vStop'[p]]
             /\ \A k \in 0..vStop'[p] - 1 : k < date + 1 => ~Exercises(decisions[k], vPaths[p], k)
             /\ vStop'[p] # Expiry =>
                  vStop'[p] < date + 1 /\ Exercises(decisions[vStop'[p]], vPaths[p], vStop'[p])
  <2>1. /\ vCash[p] = ImmediateOf[vPaths[p]][vStop[p]]
        /\ \A k \in 0..vStop[p] - 1 : k < date => ~Exercises(decisions[k], vPaths[p], k)
        /\ vStop[p] # Expiry =>
             vStop[p] < date /\ Exercises(decisions[vStop[p]], vPaths[p], vStop[p])
    BY <1>1 DEF PolicyInv, ValuedSoFar, ValuedTo
  <2>2. CASE vStop[p] = Expiry /\ Exercises(decisions[date], vPaths[p], date)
    BY <1>1, <1>2, <2>1, <2>2
  <2>3. CASE ~(vStop[p] = Expiry /\ Exercises(decisions[date], vPaths[p], date))
    <3>1. vStop'[p] = vStop[p] /\ vCash'[p] = vCash[p] /\ vStop[p] \in 0..Expiry
      BY <1>1, <1>2, <2>3
    <3>2. ASSUME NEW k \in 0..vStop[p] - 1, k < date + 1 PROVE ~Exercises(decisions[k], vPaths[p], k)
      <4>1. k < date \/ k = date
        BY <1>1, <3>1, <3>2
      <4>2. k = date => vStop[p] = Expiry
        BY <1>1, <2>1, <3>1, <3>2
      <4> QED
        BY <2>1, <2>3, <3>2, <4>1, <4>2
    <3> QED
      BY <1>1, <2>1, <3>1, <3>2
  <2> QED
    BY <2>2, <2>3
<1>6. ValuedSoFar'
  BY <1>1, <1>5 DEF ValuedSoFar, ValuedTo
<1> QED
  BY <1>1, <1>3, <1>4, <1>6 DEF PolicyInv, Discounted

(* After the last date everything that was decided is paid.                *)
LEMMA SettlePolicy ==
  ASSUME PolicyInv, Settle
  PROVE  PolicyInv'
<1>1. /\ phase = "value" /\ phase' = "valued" /\ date = Expiry
      /\ discounted' = [p \in DOMAIN vPaths |-> vCash[p] * DiscountOf[vStop[p]]]
      /\ UNCHANGED <<error, date, tPaths, tCash, tStop, decisions, policy, vPaths, vCash, vStop>>
  BY DEF Settle, trained, valued
<1>2. PhaseInv'
  BY <1>1 DEF PolicyInv, PhaseInv, TypeOK
<1>3. FitsFollowLaterPolicy' /\ SweptSoFar'
  BY <1>1 DEF PolicyInv, FitsFollowLaterPolicy, Continuation, SweptSoFar, FittedFrom
<1>4. ValuedSoFar'
  BY <1>1 DEF PolicyInv, ValuedSoFar, ValuedTo
<1> QED
  BY <1>1, <1>2, <1>3, <1>4 DEF PolicyInv, Discounted

(* Risk and report change nothing that was valued.                         *)
LEMMA ReportPolicy ==
  ASSUME PolicyInv,
         phase = "valued" /\ phase' = "reported",
         UNCHANGED <<error, date, trained, decisions, policy, valued, discounted>>
  PROVE  PolicyInv'
<1>1. UNCHANGED <<tPaths, tCash, tStop, vPaths, vCash, vStop>>
  BY DEF trained, valued
<1>2. PhaseInv'
  BY <1>1 DEF PolicyInv, PhaseInv, TypeOK
<1>3. FitsFollowLaterPolicy' /\ SweptSoFar'
  BY <1>1 DEF PolicyInv, FitsFollowLaterPolicy, Continuation, SweptSoFar, FittedFrom
<1>4. ValuedSoFar' /\ Discounted'
  BY <1>1 DEF PolicyInv, ValuedSoFar, ValuedTo, Discounted
<1> QED
  BY <1>2, <1>3, <1>4 DEF PolicyInv

(* Every step of training and valuation preserves it.                      *)
LEMMA NextPolicy == PolicyInv /\ [Next]_vars => PolicyInv'
<1> SUFFICES ASSUME PolicyInv, [Next]_vars PROVE PolicyInv'
  OBVIOUS
<1>1. CASE RefuseOverlap \/ RefuseEngines
  <2>1. phase = "request" /\ policy = NoPolicy
    BY <1>1 DEF RefuseOverlap, RefuseEngines, PolicyInv, PhaseInv
  <2> QED
    BY <1>1, <2>1, FailPolicy DEF RefuseOverlap, RefuseEngines
<1>2. CASE FixedPolicyRisk \/ PriceOnly
  BY <1>2, ReportPolicy DEF FixedPolicyRisk, PriceOnly
<1>3. CASE UNCHANGED vars
  <2>1. UNCHANGED <<phase, error, date, tPaths, tCash, tStop, decisions, policy, vPaths, vCash,
                    vStop, discounted>>
    BY <1>3 DEF vars
  <2>2. PhaseInv'
    BY <2>1 DEF PolicyInv, PhaseInv, TypeOK
  <2>3. FitsFollowLaterPolicy' /\ SweptSoFar'
    BY <2>1 DEF PolicyInv, FitsFollowLaterPolicy, Continuation, SweptSoFar, FittedFrom
  <2>4. ValuedSoFar' /\ Discounted'
    BY <2>1 DEF PolicyInv, ValuedSoFar, ValuedTo, Discounted
  <2> QED
    BY <2>2, <2>3, <2>4 DEF PolicyInv
<1> QED
  BY <1>1, <1>2, <1>3, DrawTrainingPolicy, TrainDatePolicy, FreezePolicy, DrawValuationPolicy,
     ValueDatePolicy, SettlePolicy DEF Next

(* Training and valuation stay what the decisions so far make of the       *)
(* paths.                                                                  *)
THEOREM PolicyStaysTrue == Spec => []PolicyInv
  BY InitPolicy, NextPolicy, PTL DEF Spec

(* A policy is only there once the sweep is complete.                      *)
LEMMA PolicyIsComplete ==
  ASSUME PolicyInv, policy # NoPolicy
  PROVE  /\ phase \in {"frozen", "value", "valued", "reported"}
         /\ DOMAIN decisions = 0..Expiry - 1
         /\ FittedFrom = 0
BY DEF PolicyInv, PhaseInv, TypeOK, FittedFrom

(* A date on which no training path was in the money stops no valuation    *)
(* path: its decision is to continue.                                      *)
LEMMA ContinuesWithoutPaths == PolicyInv => ZeroItmContinues
<1> SUFFICES ASSUME PolicyInv, policy # NoPolicy, NEW d \in 0..Expiry - 1,
                    \A p \in DOMAIN tPaths : ImmediateOf[tPaths[p]][d] = 0,
                    NEW p \in DOMAIN vStop, vStop[p] = d
             PROVE  FALSE
  BY DEF ZeroItmContinues
<1>1. decisions[d] = ContinueAll(d)
  <2>1. {q \in DOMAIN tPaths : ImmediateOf[tPaths[q]][d] > 0} = {}
    OBVIOUS
  <2> QED
    BY <2>1, PolicyIsComplete DEF PolicyInv, FitsFollowLaterPolicy
<1>2. p \in DOMAIN vPaths /\ phase # "frozen"
  BY DEF PolicyInv, PhaseInv, TypeOK, NoPaths
<1>3. d # Expiry
  BY ExerciseAssumption
<1>4. Exercises(decisions[d], vPaths[p], d)
  BY <1>2, <1>3, PolicyIsComplete DEF PolicyInv, ValuedSoFar
<1> QED
  BY <1>1, <1>4 DEF Exercises, ContinueAll

(* Training gives decisions that are fitted to what the later decisions    *)
(* realize, never to a path's own best outcome, and an in-sample value     *)
(* that applying the policy again would give.                              *)
THEOREM PolicyTrainsBackwards == Spec => []TrainsBackwards
<1>1. PolicyInv => TypeOK /\ FitsFollowLaterPolicy
  BY DEF PolicyInv, PhaseInv
<1>2. PolicyInv => InSampleFollowsPolicy
  BY PolicyIsComplete DEF PolicyInv, SweptSoFar, InSampleFollowsPolicy
<1>3. PolicyInv => TrainsBackwards
  BY <1>1, <1>2, ContinuesWithoutPaths DEF TrainsBackwards
<1> QED
  BY <1>3, PolicyStaysTrue, PTL

(* When everything is valued, a path has stopped at its first exercise or  *)
(* never.                                                                  *)
LEMMA StopsAreFirst ==
  ASSUME PolicyInv, phase \in {"valued", "reported"}, NEW p \in DOMAIN vPaths
  PROVE  /\ vStop[p] \in 0..Expiry
         /\ \A k \in 0..vStop[p] - 1 : ~Exercises(decisions[k], vPaths[p], k)
         /\ vStop[p] # Expiry => Exercises(decisions[vStop[p]], vPaths[p], vStop[p])
<1>1. vStop[p] \in 0..Expiry /\ Expiry \in Nat
  BY ExerciseAssumption DEF PolicyInv, PhaseInv, TypeOK
<1>2. ValuedTo = Expiry
  BY DEF ValuedTo
<1> QED
  BY <1>1, <1>2 DEF PolicyInv, ValuedSoFar

(* Paths that agree up to a date stop together up to that date.            *)
LEMMA StopsTogether ==
  ASSUME PolicyInv, phase \in {"valued", "reported"}, NEW p \in DOMAIN vPaths,
         NEW q \in DOMAIN vPaths, NEW d \in 0..Expiry - 1,
         SameUntil(vPaths[p], vPaths[q], d), vStop[p] = d
  PROVE  vStop[q] = d
<1>1. \A k \in 0..d : Exercises(decisions[k], vPaths[p], k) <=> Exercises(decisions[k], vPaths[q], k)
  BY DEF SameUntil, Exercises
<1>2. d \in Nat /\ Expiry \in Nat /\ d < Expiry /\ vStop[q] \in 0..Expiry
  BY ExerciseAssumption, StopsAreFirst
<1>3. Exercises(decisions[d], vPaths[p], d)
  BY <1>2, StopsAreFirst
<1>4. Exercises(decisions[d], vPaths[q], d)
  BY <1>1, <1>2, <1>3
<1>5. ~(d < vStop[q])
  BY <1>2, <1>4, StopsAreFirst
<1>6. ASSUME vStop[q] < d PROVE FALSE
  <2>1. Exercises(decisions[vStop[q]], vPaths[q], vStop[q])
    BY <1>2, <1>6, StopsAreFirst
  <2>2. Exercises(decisions[vStop[q]], vPaths[p], vStop[q])
    BY <1>1, <1>2, <1>6, <2>1
  <2> QED
    BY <1>2, <1>6, <2>2, StopsAreFirst
<1> QED
  BY <1>2, <1>5, <1>6

(* A valuation path is exercised once, on the first date on which the      *)
(* frozen policy exercises it, and the decision looks at nothing later.    *)
THEOREM PathsExerciseOnce == Spec => []ExercisesOnce
<1>1. PolicyInv => StopsAtFirstExercise
  <2> SUFFICES ASSUME PolicyInv, phase \in {"valued", "reported"}, NEW p \in DOMAIN vPaths
               PROVE  /\ vStop[p] = FirstFrom(decisions, 0, vPaths[p])
                      /\ discounted[p] = ImmediateOf[vPaths[p]][vStop[p]] * DiscountOf[vStop[p]]
    BY DEF StopsAtFirstExercise
  <2>1. vStop[p] = FirstFrom(decisions, 0, vPaths[p])
    BY StopsAreFirst, FirstIs
  <2>2. discounted[p] = vCash[p] * DiscountOf[vStop[p]] /\ vCash[p] = ImmediateOf[vPaths[p]][vStop[p]]
    BY DEF PolicyInv, Discounted, ValuedSoFar
  <2> QED
    BY <2>1, <2>2
<1>2. PolicyInv => NonAnticipating
  <2> SUFFICES ASSUME PolicyInv, phase \in {"valued", "reported"}, NEW p \in DOMAIN vPaths,
                      NEW q \in DOMAIN vPaths, NEW d \in 0..Expiry - 1,
                      SameUntil(vPaths[p], vPaths[q], d)
               PROVE  vStop[p] = d <=> vStop[q] = d
    BY DEF NonAnticipating
  <2>1. SameUntil(vPaths[q], vPaths[p], d)
    BY DEF SameUntil
  <2> QED
    BY <2>1, StopsTogether
<1>3. PolicyInv => ExercisesOnce
  BY <1>1, <1>2 DEF ExercisesOnce
<1> QED
  BY <1>3, PolicyStaysTrue, PTL
-----------------------------------------------------------------------------
(* The numbering of paths by scramble, point and lane.                     *)

(* Products of counts, for the linear solver.                              *)
LEMMA Products ==
  ASSUME NEW a \in Nat, NEW b \in Nat, NEW d \in Nat
  PROVE  /\ a * d \in Nat
         /\ a < b => a * d + d <= b * d
  OBVIOUS

(* The quotient and remainder of a path's number.                          *)
LEMMA Quotient ==
  ASSUME NEW n \in Nat, NEW d \in Nat \ {0}
  PROVE  /\ n \div d \in Nat
         /\ (n \div d) * d <= n
         /\ n < (n \div d) * d + d
  OBVIOUS

(* A quotient and a remainder determine each other.                        *)
LEMMA Radix ==
  ASSUME NEW d \in Nat \ {0}, NEW a \in Nat, NEW b \in 0..d - 1, NEW c \in Nat, NEW k \in 0..d - 1,
         a * d + b = c * d + k
  PROVE  a = c /\ b = k
<1>1. a * d \in Nat /\ c * d \in Nat
  BY Products
<1>2. ~(a < c) /\ ~(c < a)
  BY <1>1, Products
<1> QED
  BY <1>1, <1>2

(* The types of an engine of a request.                                    *)
IsEngine(e) ==
  /\ e.kind \in {"pseudo", "rqmc"} /\ e.antithetic \in BOOLEAN
  /\ e.scrambles \in Nat \ {0} /\ e.points \in Nat \ {0}
  /\ e.kind = "pseudo" => e.scrambles = 1

(* A slot, with its lane, has a path of its own.                           *)
LEMMA SlotHasPath ==
  ASSUME NEW e, IsEngine(e), NEW slot \in Slots(e), NEW lane \in 0..Lanes(e) - 1
  PROVE  /\ BasePath(e, slot) \in Nat
         /\ BasePath(e, slot) + lane \in 0..PathCount(e) - 1
<1> DEFINE i == slot[1] * e.points + slot[2]
           n == e.scrambles * e.points
<1>1. /\ e.points \in Nat \ {0} /\ e.scrambles \in Nat \ {0}
      /\ slot[1] \in Nat /\ slot[1] < e.scrambles /\ slot[2] \in Nat /\ slot[2] < e.points
  BY DEF IsEngine, Slots
<1>2. slot[1] * e.points \in Nat /\ slot[1] * e.points + e.points <= n /\ n \in Nat
  BY <1>1, Products
<1>3. i \in Nat /\ i < n
  BY <1>1, <1>2
<1>4. Lanes(e) \in {1, 2} /\ lane \in Nat /\ lane < Lanes(e)
  BY DEF Lanes
<1>5. BasePath(e, slot) = i * Lanes(e) /\ PathCount(e) = n * Lanes(e)
  BY DEF BasePath, PathCount
<1> HIDE DEF i, n
<1>6. i * Lanes(e) \in Nat /\ i * Lanes(e) + Lanes(e) <= n * Lanes(e) /\ n * Lanes(e) \in Nat
  BY <1>2, <1>3, <1>4
<1> QED
  BY <1>4, <1>5, <1>6

(* Two slots have no path in common.                                       *)
LEMMA PathHasOneSlot ==
  ASSUME NEW e, IsEngine(e), NEW s \in Slots(e), NEW t \in Slots(e), NEW p \in Int,
         p - BasePath(e, s) \in 0..Lanes(e) - 1, p - BasePath(e, t) \in 0..Lanes(e) - 1
  PROVE  s = t
<1> DEFINE i == s[1] * e.points + s[2]
           j == t[1] * e.points + t[2]
<1>1. /\ e.points \in Nat \ {0}
      /\ s[1] \in Nat /\ s[2] \in 0..e.points - 1
      /\ t[1] \in Nat /\ t[2] \in 0..e.points - 1
      /\ s = <<s[1], s[2]>> /\ t = <<t[1], t[2]>>
  BY DEF IsEngine, Slots
<1>2. s[1] * e.points \in Nat /\ t[1] * e.points \in Nat
  BY <1>1, Products
<1>3. i \in Nat /\ j \in Nat
  BY <1>1, <1>2
<1>4. BasePath(e, s) = i * Lanes(e) /\ BasePath(e, t) = j * Lanes(e)
  BY DEF BasePath
<1>5. i = j
  <2> HIDE DEF i, j
  <2>1. Lanes(e) \in {1, 2}
    BY DEF Lanes
  <2> QED
    BY <1>3, <1>4, <2>1
<1> QED
  BY <1>1, <1>5, Radix

(* Every path belongs to a slot.                                           *)
LEMMA PathHasSlot ==
  ASSUME NEW e, IsEngine(e), NEW p \in 0..PathCount(e) - 1
  PROVE  \E s \in Slots(e) : p - BasePath(e, s) \in 0..Lanes(e) - 1
<1> DEFINE n == e.scrambles * e.points
           i == p \div Lanes(e)
           a == i \div e.points
           b == i - a * e.points
<1>1. /\ e.points \in Nat \ {0} /\ e.scrambles \in Nat \ {0} /\ n \in Nat
      /\ Lanes(e) \in {1, 2} /\ PathCount(e) = n * Lanes(e)
  BY Products DEF IsEngine, Lanes, PathCount
<1>2. i \in Nat /\ i < n /\ p - i * Lanes(e) \in 0..Lanes(e) - 1
  <2> HIDE DEF n
  <2> QED
    BY <1>1
<1>3. a \in Nat /\ a * e.points \in Nat /\ a * e.points <= i /\ i < a * e.points + e.points
  <2> HIDE DEF i
  <2> QED
    BY <1>1, <1>2, Quotient, Products
<1>4. a < e.scrambles
  <2>1. SUFFICES ASSUME e.scrambles <= a PROVE FALSE
    BY <1>1, <1>3
  <2>2. n <= a * e.points
    <3> HIDE DEF a
    <3> QED
      BY <1>1, <1>3, <2>1, Products
  <2> HIDE DEF n, a, i
  <2> QED
    BY <1>1, <1>2, <1>3, <2>2
<1>5. b \in Nat /\ b < e.points
  <2> HIDE DEF a, i
  <2> QED
    BY <1>1, <1>2, <1>3
<1>6. <<a, b>> \in Slots(e)
  BY <1>1, <1>3, <1>4, <1>5 DEF Slots
<1>7. BasePath(e, <<a, b>>) = i * Lanes(e)
  <2>1. BasePath(e, <<a, b>>) = (a * e.points + b) * Lanes(e)
    BY DEF BasePath
  <2>2. a * e.points + b = i
    <3> HIDE DEF a, i
    <3> QED
      BY <1>1, <1>2, <1>3
  <2> QED
    BY <2>1, <2>2
<1> QED
  BY <1>2, <1>6, <1>7

(* The trajectory that a slot's words gave is written to its path, and the *)
(* mirrored one to the path of its mate.                                   *)
LEMMA PathOfSlot ==
  ASSUME NEW e, IsEngine(e), NEW domain, NEW draws, NEW slot \in Slots(e),
         NEW lane \in 0..Lanes(e) - 1
  PROVE  LET t == draws[Coordinate(e, domain, slot)]
         IN  PathMatrices(e, domain, draws)[BasePath(e, slot) + lane]
               = IF lane = 0 THEN t ELSE MirrorOf[t]
<1> DEFINE p == BasePath(e, slot) + lane
           Holds(s) == p - BasePath(e, s) \in 0..Lanes(e) - 1
<1>1. BasePath(e, slot) \in Nat /\ p \in 0..PathCount(e) - 1 /\ lane \in Nat
  BY SlotHasPath DEF Lanes
<1>2. Holds(slot)
  BY <1>1
<1>3. \A s \in Slots(e) : Holds(s) => s = slot
  BY <1>1, <1>2, PathHasOneSlot
<1>4. (CHOOSE s \in Slots(e) : Holds(s)) = slot
  <2> HIDE DEF Holds
  <2> QED
    BY <1>2, <1>3
<1> DEFINE chosen == CHOOSE s \in Slots(e) : Holds(s)
<1>5. PathMatrices(e, domain, draws)[p]
        = IF p = BasePath(e, chosen) THEN draws[Coordinate(e, domain, chosen)]
          ELSE MirrorOf[draws[Coordinate(e, domain, chosen)]]
  BY <1>1 DEF PathMatrices
<1>6. chosen = slot
  BY <1>4
<1>7. p = BasePath(e, slot) <=> lane = 0
  BY <1>1
<1> HIDE DEF chosen
<1> QED
  BY <1>5, <1>6, <1>7

(* The paths depend on the words of their own slots only.                  *)
LEMMA PathsFromWords ==
  ASSUME NEW e, IsEngine(e), NEW domain, NEW draws, NEW other,
         \A c \in Coordinates(e, domain) : other[c] = draws[c]
  PROVE  PathMatrices(e, domain, other) = PathMatrices(e, domain, draws)
<1> DEFINE Holds(p, s) == p - BasePath(e, s) \in 0..Lanes(e) - 1
           SlotOf(p) == CHOOSE s \in Slots(e) : Holds(p, s)
<1>1. \A D : PathMatrices(e, domain, D) = [p \in 0..PathCount(e) - 1 |->
        IF p = BasePath(e, SlotOf(p)) THEN D[Coordinate(e, domain, SlotOf(p))]
        ELSE MirrorOf[D[Coordinate(e, domain, SlotOf(p))]]]
  BY DEF PathMatrices
<1>2. ASSUME NEW p \in 0..PathCount(e) - 1
      PROVE  other[Coordinate(e, domain, SlotOf(p))] = draws[Coordinate(e, domain, SlotOf(p))]
  <2>1. \E s \in Slots(e) : Holds(p, s)
    BY PathHasSlot
  <2>2. SlotOf(p) \in Slots(e)
    <3> HIDE DEF Holds
    <3> QED
      BY <2>1
  <2> HIDE DEF SlotOf
  <2> QED
    BY <2>2 DEF Coordinates
<1> HIDE DEF SlotOf
<1> QED
  BY <1>1, <1>2
-----------------------------------------------------------------------------
(* Counting words, samples and risk evaluations.                           *)

(* A set numbered by another has as many elements.                         *)
LEMMA SameCount ==
  ASSUME NEW S, IsFiniteSet(S), NEW T, NEW f \in [S -> T],
         \A x, y \in S : f[x] = f[y] => x = y,
         \A y \in T : \E x \in S : f[x] = y
  PROVE  IsFiniteSet(T) /\ Cardinality(T) = Cardinality(S)
<1>1. f \in Bijection(S, T)
  BY DEF Bijection, Injection, Surjection, IsInjective
<1> QED
  BY <1>1, FS_Bijection DEF ExistsBijection

(* An engine has a slot for each scramble and point.                       *)
LEMMA SlotCount ==
  ASSUME NEW e, IsEngine(e)
  PROVE  /\ IsFiniteSet(Slots(e))
         /\ Cardinality(Slots(e)) = e.scrambles * e.points
<1>1. ASSUME NEW n \in Nat \ {0}
      PROVE  IsFiniteSet(0..n - 1) /\ Cardinality(0..n - 1) = n
  <2>1. 0 \in Int /\ n - 1 \in Int /\ ~(0 > n - 1) /\ (n - 1) - 0 + 1 = n
    OBVIOUS
  <2> QED
    BY <2>1, FS_Interval
<1>2. /\ IsFiniteSet(0..e.scrambles - 1) /\ Cardinality(0..e.scrambles - 1) = e.scrambles
      /\ IsFiniteSet(0..e.points - 1) /\ Cardinality(0..e.points - 1) = e.points
  BY <1>1 DEF IsEngine
<1> QED
  BY <1>2, FS_Product, ZenonT(40) DEF Slots

(* A domain has words of its own for each slot.                            *)
LEMMA CoordinateCount ==
  ASSUME NEW e, IsEngine(e), NEW domain
  PROVE  /\ IsFiniteSet(Coordinates(e, domain))
         /\ Cardinality(Coordinates(e, domain)) = Cardinality(Slots(e))
<1> DEFINE f == [slot \in Slots(e) |-> Coordinate(e, domain, slot)]
<1>1. f \in [Slots(e) -> Coordinates(e, domain)]
  BY DEF Coordinates
<1>2. \A x, y \in Slots(e) : f[x] = f[y] => x = y
  BY DEF Coordinate
<1>3. \A y \in Coordinates(e, domain) : \E x \in Slots(e) : f[x] = y
  BY DEF Coordinates
<1> HIDE DEF f
<1> QED
  BY <1>1, <1>2, <1>3, SlotCount, SameCount

(* The paths of a sample's words are the chunk that it is made from.       *)
LEMMA ChunkIsSample ==
  ASSUME NEW u \in 0..PathCount(valuation) \div ChunkSize(valuation) - 1, IsEngine(valuation)
  PROVE  Chunk(valuation, u)
           = {BasePath(valuation, slot) + lane :
                slot \in WordsOf(u), lane \in 0..Lanes(valuation) - 1}
<1> DEFINE e == valuation
           L == Lanes(e)
           P == e.points
           S == e.scrambles
<1>1. /\ P \in Nat \ {0} /\ S \in Nat \ {0} /\ L \in {1, 2}
      /\ e.kind \in {"pseudo", "rqmc"} /\ (e.kind = "pseudo" => S = 1)
  BY DEF IsEngine, Lanes
<1>2. S * P \in Nat /\ PathCount(e) = (S * P) * L
  BY <1>1, Products DEF PathCount
<1>3. CASE e.kind = "pseudo"
  <2>1. PathCount(e) = P * L /\ ChunkSize(e) = L
    BY <1>1, <1>2, <1>3 DEF ChunkSize
  <2>2. (P * L) \div L = P
    BY <1>1
  <2>3. u \in Nat /\ u < P
    BY <1>1, <2>1, <2>2
  <2>4. WordsOf(u) = {<<0, u>>}
    <3>1. \A slot \in Slots(e) : slot = <<slot[1], slot[2]>> /\ slot[1] = 0
      BY <1>1, <1>3 DEF Slots
    <3>2. <<0, u>> \in Slots(e)
      BY <1>1, <1>3, <2>3 DEF Slots
    <3> QED
      BY <1>3, <3>1, <3>2 DEF WordsOf
  <2>5. BasePath(e, <<0, u>>) = u * L
    BY <1>1, <2>3 DEF BasePath
  <2>6. Chunk(e, u) = u * L..(u + 1) * L - 1
    BY <2>1 DEF Chunk
  <2> HIDE DEF L, P, S, e
  <2>7. u * L..(u + 1) * L - 1 = {u * L + lane : lane \in 0..L - 1}
    <3>1. CASE L = 1
      BY <2>3, <3>1
    <3>2. CASE L = 2
      <4>1. ASSUME NEW n \in u * 2..(u + 1) * 2 - 1 PROVE n - u * 2 \in 0..1
        BY <2>3, <4>1
      <4> QED
        BY <2>3, <3>2, <4>1
    <3> QED
      BY <1>1, <3>1, <3>2
  <2> DEFINE sample == {BasePath(e, slot) + lane : slot \in WordsOf(u), lane \in 0..L - 1}
             run == {u * L + lane : lane \in 0..L - 1}
  <2>8. sample = run
    BY <2>4, <2>5
  <2>9. Chunk(e, u) = run
    BY <2>6, <2>7
  <2>10. Chunk(e, u) = sample
    <3> HIDE DEF sample, run
    <3> QED
      BY <2>8, <2>9
  <2> QED
    BY <2>10 DEF e, L
<1>4. CASE e.kind = "rqmc"
  <2>1. ChunkSize(e) = P * L /\ P * L \in Nat \ {0}
    BY <1>1, <1>4 DEF ChunkSize
  <2>2. PathCount(e) = S * (P * L)
    BY <1>1, <1>2
  <2>3. (S * (P * L)) \div (P * L) = S
    <3> DEFINE m == P * L
    <3>1. m \in Nat \ {0}
      BY <2>1
    <3> HIDE DEF m
    <3>2. (S * m) \div m = S
      BY <1>1, <3>1
    <3> QED
      BY <3>2 DEF m
  <2>4. u \in Nat /\ u < S
    BY <1>1, <2>1, <2>2, <2>3
  <2>5. \A slot : slot \in WordsOf(u) <=> \E j \in 0..P - 1 : slot = <<u, j>>
    <3>1. \A slot \in Slots(e) : slot = <<slot[1], slot[2]>> /\ slot[2] \in 0..P - 1
      BY DEF Slots
    <3>2. \A j \in 0..P - 1 : <<u, j>> \in Slots(e)
      BY <1>1, <2>4 DEF Slots
    <3> QED
      BY <1>4, <3>1, <3>2 DEF WordsOf
  <2>6. \A j \in 0..P - 1 : BasePath(e, <<u, j>>) = (u * P + j) * L
    BY DEF BasePath
  <2>7. Chunk(e, u) = u * (P * L)..(u + 1) * (P * L) - 1
    BY <2>1 DEF Chunk
  <2> HIDE DEF L, P, S, e
  <2>8. u * P \in Nat
    BY <1>1, <2>4, Products
  <2>9. /\ u * (P * L) = (u * P) * L
        /\ (u + 1) * (P * L) - 1 = (u * P) * L + P * L - 1
    <3>1. CASE L = 1
      BY <1>1, <2>4, <3>1
    <3>2. CASE L = 2
      BY <1>1, <2>4, <3>2
    <3> QED
      BY <1>1, <3>1, <3>2
  <2>10. Chunk(e, u) = (u * P) * L..(u * P) * L + P * L - 1
    BY <2>7, <2>9, Zenon
  <2>11. ASSUME NEW n \in Chunk(e, u)
         PROVE  \E slot \in WordsOf(u), lane \in 0..L - 1 : n = BasePath(e, slot) + lane
    <3> DEFINE j == (n - (u * P) * L) \div L
    <3>1. n \in Int /\ (u * P) * L <= n /\ n < (u * P) * L + P * L
      BY <1>1, <2>1, <2>10, <2>8
    <3>2. j \in 0..P - 1 /\ n - (u * P + j) * L \in 0..L - 1
      <4>1. CASE L = 1
        BY <1>1, <2>8, <3>1, <4>1
      <4>2. CASE L = 2
        BY <1>1, <2>8, <3>1, <4>2
      <4> QED
        BY <1>1, <4>1, <4>2
    <3> HIDE DEF j
    <3>3. <<u, j>> \in WordsOf(u)
      BY <2>5, <3>2
    <3>4. BasePath(e, <<u, j>>) \in Int
      BY <1>1, <2>6, <2>8, <3>2
    <3>5. n = BasePath(e, <<u, j>>) + (n - BasePath(e, <<u, j>>))
      BY <3>1, <3>4
    <3> QED
      BY <2>6, <3>2, <3>3, <3>5
  <2>12. ASSUME NEW slot \in WordsOf(u), NEW lane \in 0..L - 1
         PROVE  BasePath(e, slot) + lane \in Chunk(e, u)
    <3>1. PICK j \in 0..P - 1 : slot = <<u, j>>
      BY <2>5
    <3>2. BasePath(e, slot) = (u * P + j) * L
      BY <2>6, <3>1
    <3>3. (u * P + j) * L + lane \in (u * P) * L..(u * P) * L + P * L - 1
      <4>1. CASE L = 1
        BY <1>1, <2>8, <4>1
      <4>2. CASE L = 2
        BY <1>1, <2>8, <4>2
      <4> QED
        BY <1>1, <4>1, <4>2
    <3> QED
      BY <2>10, <3>2, <3>3
  <2>13. Chunk(e, u) = {BasePath(e, slot) + lane : slot \in WordsOf(u), lane \in 0..L - 1}
    BY <2>11, <2>12
  <2> QED
    BY <2>13 DEF e, L
<1> QED
  BY <1>1, <1>3, <1>4
-----------------------------------------------------------------------------
(* What words are used for.                                                *)

TrainingWords == Coordinates(training, TrainingDomain(training))
ValuationWords == Coordinates(valuation, ValuationDomain(valuation))

RiskRuns ==
  {[words |-> Coordinate(valuation, RiskDomain(valuation), slot), lane |-> lane,
    stop |-> vStop[RiskPath(valuation, slot) + lane]] :
     slot \in Slots(valuation), lane \in 0..Lanes(valuation) - 1}

(* The words drawn so far, the paths, samples and risk made from them.     *)
WordsInv ==
  /\ IsEngine(training) /\ IsEngine(valuation)
  /\ phase \notin {"request", "failed"} => ~Overlaps /\ training.kind = valuation.kind
  /\ phase \in {"train", "frozen"} => DOMAIN drawn = TrainingWords
  /\ phase \in {"value", "valued", "reported"} =>
       /\ DOMAIN drawn = ValuationWords \cup TrainingWords
       /\ vPaths = PathMatrices(valuation, ValuationDomain(valuation), drawn)
  /\ phase \in {"valued", "reported"} =>
       units = [u \in 0..PathCount(valuation) \div ChunkSize(valuation) - 1 |->
                  SumOver(discounted, Chunk(valuation, u))]
  /\ risk # {} => phase = "reported" /\ risk = RiskRuns

(* Every request names engines.                                            *)
LEMMA InitWords == Init => WordsInv
<1> SUFFICES ASSUME Init PROVE WordsInv
  OBVIOUS
<1>1. PICK r \in Requests : training = r[1] /\ valuation = r[2]
  BY DEF Init
<1>2. 1 \in 1..2 /\ 2 \in 1..2
  OBVIOUS
<1>3. IsEngine(r[1]) /\ IsEngine(r[2])
  BY <1>1, <1>2, ExerciseAssumption DEF IsEngine
<1> QED
  BY <1>1, <1>3 DEF Init, WordsInv

(* The words of the valuation join those of the training; where they were  *)
(* the same, they gave the same paths.                                     *)
LEMMA DrawValuationWords ==
  ASSUME WordsInv, DrawValuation
  PROVE  WordsInv'
<1>1. PICK draws \in [ValuationWords -> Trajectories] :
        /\ drawn' = [c \in DOMAIN draws \cup DOMAIN drawn |->
                       IF c \in DOMAIN draws THEN draws[c] ELSE drawn[c]]
        /\ vPaths' = PathMatrices(valuation, ValuationDomain(valuation), draws)
  BY DEF DrawValuation, ValuationWords
<1>2. /\ phase = "frozen" /\ phase' = "value" /\ risk' = risk
      /\ training' = training /\ valuation' = valuation
      /\ IsEngine(valuation) /\ risk = {} /\ DOMAIN drawn = TrainingWords
      /\ ~Overlaps /\ training.kind = valuation.kind
  BY DEF DrawValuation, WordsInv, request
<1>3. DOMAIN draws = ValuationWords
  OBVIOUS
<1>4. DOMAIN drawn' = ValuationWords \cup TrainingWords
      /\ \A c \in ValuationWords : drawn'[c] = draws[c]
  BY <1>1, <1>2, <1>3
<1>5. vPaths' = PathMatrices(valuation, ValuationDomain(valuation), drawn')
  BY <1>1, <1>2, <1>4, PathsFromWords DEF ValuationWords
<1> QED
  BY <1>2, <1>4, <1>5 DEF WordsInv, Overlaps, TrainingWords, ValuationWords

(* Every step of training, valuation and risk preserves it.                *)
LEMMA NextWords == WordsInv /\ [Next]_vars => WordsInv'
<1> SUFFICES ASSUME WordsInv, [Next]_vars PROVE WordsInv'
  OBVIOUS
<1>1. ASSUME NEW why, Fail(why), phase \in {"request", "train"} PROVE WordsInv'
  <2>1. phase' = "failed" /\ UNCHANGED <<training, valuation, risk>> /\ risk = {}
    BY <1>1 DEF Fail, request, WordsInv
  <2> QED
    BY <2>1 DEF WordsInv
<1>2. CASE RefuseOverlap \/ RefuseEngines
  BY <1>1, <1>2 DEF RefuseOverlap, RefuseEngines
<1>3. CASE DrawTraining
  <2>1. CASE PathCount(training) > MaxElements
    BY <1>1, <1>3, <2>1 DEF DrawTraining
  <2>2. CASE ~(PathCount(training) > MaxElements)
    <3>1. DOMAIN drawn' = TrainingWords
      BY <1>3, <2>2 DEF DrawTraining, TrainingWords
    <3>2. /\ phase' = "train" /\ UNCHANGED <<training, valuation, risk>>
          /\ ~Overlaps /\ training.kind = valuation.kind /\ risk = {}
      BY <1>3, <2>2 DEF DrawTraining, request, WordsInv
    <3> QED
      BY <3>1, <3>2 DEF WordsInv, Overlaps, TrainingWords
  <2> QED
    BY <2>1, <2>2
<1>4. CASE TrainDate
  <2>1. CASE TooManyElements
    BY <1>1, <1>4, <2>1 DEF TrainDate
  <2>2. CASE ~TooManyElements
    <3>1. phase = "train" /\ UNCHANGED <<phase, training, valuation, risk, drawn>>
      BY <1>4, <2>2 DEF TrainDate, request
    <3> QED
      BY <3>1 DEF WordsInv, Overlaps, TrainingWords
  <2> QED
    BY <2>1, <2>2
<1>5. CASE Freeze
  <2>1. /\ phase = "train" /\ phase' = "frozen"
        /\ UNCHANGED <<training, valuation, risk, drawn>>
    BY <1>5 DEF Freeze, request
  <2> QED
    BY <2>1 DEF WordsInv, Overlaps, TrainingWords
<1>6. CASE ValueDate
  <2>1. /\ phase = "value"
        /\ UNCHANGED <<phase, training, valuation, risk, drawn, vPaths>>
    BY <1>6 DEF ValueDate, request
  <2> QED
    BY <2>1 DEF WordsInv, Overlaps, TrainingWords, ValuationWords
<1>7. CASE Settle
  <2>1. /\ phase = "value" /\ phase' = "valued"
        /\ UNCHANGED <<training, valuation, risk, drawn, vPaths>>
        /\ units' = [u \in 0..PathCount(valuation) \div ChunkSize(valuation) - 1 |->
                       SumOver(discounted', Chunk(valuation, u))]
    BY <1>7 DEF Settle, request, valued
  <2> QED
    BY <2>1 DEF WordsInv, Overlaps, TrainingWords, ValuationWords
<1>8. CASE FixedPolicyRisk \/ PriceOnly
  <2>1. /\ phase = "valued" /\ phase' = "reported"
        /\ UNCHANGED <<training, valuation, drawn, vPaths, vStop, units, discounted>>
    BY <1>8 DEF FixedPolicyRisk, PriceOnly, request, valued
  <2>2. risk' = RiskRuns \/ risk' = {}
    BY <1>8, <2>1 DEF FixedPolicyRisk, PriceOnly, RiskRuns, WordsInv
  <2>3. RiskRuns' = RiskRuns
    BY <2>1 DEF RiskRuns
  <2> QED
    BY <2>1, <2>2, <2>3 DEF WordsInv, Overlaps, TrainingWords, ValuationWords
<1>9. CASE UNCHANGED vars
  <2>1. UNCHANGED <<phase, training, valuation, drawn, vPaths, vStop, units, discounted, risk>>
    BY <1>9 DEF vars
  <2>2. RiskRuns' = RiskRuns
    BY <2>1 DEF RiskRuns
  <2> QED
    BY <2>1, <2>2 DEF WordsInv, Overlaps, TrainingWords, ValuationWords
<1> QED
  BY <1>2, <1>3, <1>4, <1>5, <1>6, <1>7, <1>8, <1>9, DrawValuationWords DEF Next

(* Words of training and of valuation are different words: the domains of  *)
(* a pseudo-random engine differ, the seeds of two others must.            *)
LEMMA WordsAreDisjoint ==
  ASSUME WordsInv, ~Overlaps, training.kind = valuation.kind
  PROVE  ValuationWords \cap TrainingWords = {}
<1> SUFFICES ASSUME NEW s \in Slots(valuation), NEW t \in Slots(training),
                    Coordinate(valuation, ValuationDomain(valuation), s)
                      = Coordinate(training, TrainingDomain(training), t)
             PROVE  FALSE
  BY DEF ValuationWords, TrainingWords, Coordinates
<1>1. /\ valuation.seed = training.seed
      /\ ValuationDomain(valuation) = TrainingDomain(training)
  BY DEF Coordinate
<1>2. valuation.kind \in {"pseudo", "rqmc"}
  BY DEF WordsInv, IsEngine
<1> QED
  BY <1>1, <1>2 DEF ValuationDomain, TrainingDomain, Overlaps

(* No valuation path was trained on.                                       *)
LEMMA IndependentPhases == WordsInv => PhasesIndependent
<1> SUFFICES ASSUME WordsInv, phase \in {"value", "valued", "reported"}
             PROVE  Cardinality(DOMAIN drawn)
                      = Cardinality(Slots(training)) + Cardinality(Slots(valuation))
  BY DEF PhasesIndependent
<1>1. /\ IsEngine(training) /\ IsEngine(valuation)
      /\ DOMAIN drawn = ValuationWords \cup TrainingWords
  BY DEF WordsInv
<1>2. ValuationWords \cap TrainingWords = {}
  BY WordsAreDisjoint DEF WordsInv
<1>3. /\ IsFiniteSet(ValuationWords) /\ Cardinality(ValuationWords) = Cardinality(Slots(valuation))
      /\ IsFiniteSet(TrainingWords) /\ Cardinality(TrainingWords) = Cardinality(Slots(training))
  BY <1>1, CoordinateCount DEF ValuationWords, TrainingWords
<1>4. /\ Cardinality(Slots(training)) \in Nat /\ Cardinality(Slots(valuation)) \in Nat
  BY <1>1, SlotCount, FS_CardinalityType
<1>5. Cardinality(DOMAIN drawn) = Cardinality(ValuationWords) + Cardinality(TrainingWords)
                                    - Cardinality({})
  BY <1>1, <1>2, <1>3, FS_Union
<1>6. Cardinality({}) = 0
  BY FS_EmptySet
<1> QED
  BY <1>3, <1>4, <1>5, <1>6

(* Risk runs once for each path, on the trajectory that its stopping date  *)
(* was decided for.                                                        *)
LEMMA RiskIsDecided == PolicyInv /\ WordsInv => RiskOnDecidedPaths
<1> SUFFICES ASSUME PolicyInv, WordsInv, risk # {} PROVE RiskOnDecidedPaths
  BY DEF RiskOnDecidedPaths
<1>1. /\ phase = "reported" /\ risk = RiskRuns /\ IsEngine(valuation)
      /\ vPaths = PathMatrices(valuation, ValuationDomain(valuation), drawn)
  BY DEF WordsInv
<1>2. ASSUME NEW r \in risk
      PROVE  LET t == drawn[r.words]
             IN  r.stop = FirstFrom(decisions, 0, IF r.lane = 0 THEN t ELSE MirrorOf[t])
  <2>1. PICK slot \in Slots(valuation), lane \in 0..Lanes(valuation) - 1 :
          r = [words |-> Coordinate(valuation, RiskDomain(valuation), slot), lane |-> lane,
               stop |-> vStop[RiskPath(valuation, slot) + lane]]
    BY <1>1, <1>2 DEF RiskRuns
  <2> DEFINE p == BasePath(valuation, slot) + lane
  <2>2. RiskPath(valuation, slot) + lane = p /\ RiskDomain(valuation) = ValuationDomain(valuation)
    BY DEF RiskPath, BasePath, RiskDomain
  <2>3. p \in DOMAIN vPaths
    BY <1>1, SlotHasPath DEF PathMatrices
  <2>4. vStop[p] = FirstFrom(decisions, 0, vPaths[p])
    BY <1>1, <2>3, StopsAreFirst, FirstIs
  <2>5. vPaths[p] = IF lane = 0 THEN drawn[Coordinate(valuation, ValuationDomain(valuation), slot)]
                    ELSE MirrorOf[drawn[Coordinate(valuation, ValuationDomain(valuation), slot)]]
    BY <1>1, PathOfSlot
  <2> HIDE DEF p
  <2> QED
    BY <2>1, <2>2, <2>4, <2>5
<1>3. Cardinality(risk) = PathCount(valuation)
  <2> DEFINE S == Slots(valuation) \X (0..Lanes(valuation) - 1)
             f == [x \in S |->
               [words |-> Coordinate(valuation, RiskDomain(valuation), x[1]), lane |-> x[2],
                stop |-> vStop[RiskPath(valuation, x[1]) + x[2]]]]
  <2>1. f \in [S -> risk]
    BY <1>1 DEF RiskRuns
  <2>2. \A x, y \in S : f[x] = f[y] => x = y
    BY DEF Coordinate
  <2>3. \A y \in risk : \E x \in S : f[x] = y
    <3>1. SUFFICES ASSUME NEW y \in risk PROVE \E x \in S : f[x] = y
      OBVIOUS
    <3>2. PICK slot \in Slots(valuation), lane \in 0..Lanes(valuation) - 1 :
            y = [words |-> Coordinate(valuation, RiskDomain(valuation), slot), lane |-> lane,
                 stop |-> vStop[RiskPath(valuation, slot) + lane]]
      BY <1>1, <3>1 DEF RiskRuns
    <3>3. <<slot, lane>> \in S /\ f[<<slot, lane>>] = y
      BY <3>2
    <3> QED
      BY <3>3
  <2>4. /\ IsFiniteSet(0..Lanes(valuation) - 1)
        /\ Cardinality(0..Lanes(valuation) - 1) = Lanes(valuation)
    <3>1. Lanes(valuation) \in Nat /\ ~(0 > Lanes(valuation) - 1)
          /\ (Lanes(valuation) - 1) - 0 + 1 = Lanes(valuation)
      BY DEF Lanes
    <3> QED
      BY <3>1, FS_Interval
  <2>5. /\ IsFiniteSet(S)
        /\ Cardinality(S) = (valuation.scrambles * valuation.points) * Lanes(valuation)
    <3>1. /\ IsFiniteSet(Slots(valuation))
          /\ Cardinality(Slots(valuation)) = valuation.scrambles * valuation.points
      BY <1>1, SlotCount
    <3>2. /\ IsFiniteSet(S)
          /\ Cardinality(S) = Cardinality(Slots(valuation)) * Cardinality(0..Lanes(valuation) - 1)
      BY <2>4, <3>1, FS_Product
    <3> QED
      BY <2>4, <3>1, <3>2, Zenon
  <2>6. Cardinality(risk) = Cardinality(S)
    <3> HIDE DEF S, f
    <3> QED
      BY <2>1, <2>2, <2>3, <2>5, SameCount
  <2> QED
    BY <2>5, <2>6 DEF PathCount
<1> QED
  BY <1>2, <1>3 DEF RiskOnDecidedPaths

(* Training, valuation and risk use the words that are theirs: no          *)
(* valuation path was trained on, each risk evaluation runs on the path    *)
(* its stopping date was decided for, and each sample has its own words.   *)
THEOREM WordsStayApart == Spec => []WordsKeptApart
<1>1. WordsInv => SamplesAreUnits
  <2> SUFFICES ASSUME WordsInv, phase \in {"valued", "reported"}, NEW u \in DOMAIN units
               PROVE  units[u] = SumOver(discounted,
                        {BasePath(valuation, slot) + lane :
                           slot \in WordsOf(u), lane \in 0..Lanes(valuation) - 1})
    BY DEF SamplesAreUnits
  <2>1. /\ u \in 0..PathCount(valuation) \div ChunkSize(valuation) - 1 /\ IsEngine(valuation)
        /\ units[u] = SumOver(discounted, Chunk(valuation, u))
    BY DEF WordsInv
  <2>2. Chunk(valuation, u) = {BasePath(valuation, slot) + lane :
                                 slot \in WordsOf(u), lane \in 0..Lanes(valuation) - 1}
    BY <2>1, ChunkIsSample
  <2> DEFINE sample == {BasePath(valuation, slot) + lane :
                          slot \in WordsOf(u), lane \in 0..Lanes(valuation) - 1}
  <2>3. units[u] = SumOver(discounted, sample)
    <3>1. Chunk(valuation, u) = sample
      BY <2>2
    <3> HIDE DEF sample
    <3> QED
      BY <2>1, <3>1
  <2> QED
    BY <2>3
<1>2. PolicyInv /\ WordsInv => WordsKeptApart
  BY <1>1, IndependentPhases, RiskIsDecided DEF WordsKeptApart
<1>3. Spec => []WordsInv
  BY InitWords, NextWords, PTL DEF Spec
<1> QED
  BY <1>2, <1>3, PolicyStaysTrue, PTL
=============================================================================
