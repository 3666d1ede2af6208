--------------------------- MODULE ExercisePolicy ---------------------------
(***************************************************************************)
(* Early exercise by regression (engine/mc/lsm.rs, mc/early_exercise.rs,   *)
(* risk/early_exercise.rs): an exercise policy is trained backwards on one *)
(* set of paths, frozen, applied forwards to another set, and the stopping *)
(* dates it gave are held fixed in the risk of the same paths.             *)
(*                                                                         *)
(* A path is one of a few trajectories: its feature and its immediate      *)
(* value on every exercise date.  Which trajectory the random words of a   *)
(* sampling unit give is arbitrary, but the same words give the same one.  *)
(* The fitted polynomial is abstracted to what it predicts for a feature:  *)
(* any of the Predictors.  Checks that numbers are finite are left out.    *)
(***************************************************************************)
EXTENDS Integers, FiniteSets, Sequences

CONSTANTS
  Requests,      \* pairs <<training engine, valuation engine>>
  Trajectories,  \* what the words of a sampling unit may give
  MirrorOf,      \* the trajectory of the negated words (the antithetic mate)
  FeatureOf,     \* FeatureOf[t][d], on the exercise dates 0..Expiry
  ImmediateOf,   \* ImmediateOf[t][d]
  DiscountOf,    \* DiscountOf[d], in whole units of the last discount factor
  Predictors,    \* functions from features to continuation values
  Expiry,        \* index of the last exercise date
  Columns,       \* columns of the design matrix
  MaxElements    \* max_matrix_elements

ASSUME ExerciseAssumption ==
  /\ Expiry \in Nat /\ Columns \in Nat \ {0} /\ MaxElements \in Nat \ {0}
  /\ \A t \in Trajectories : MirrorOf[t] \in DOMAIN ImmediateOf
  /\ \A t \in DOMAIN ImmediateOf : \A d \in 0..Expiry : ImmediateOf[t][d] \in Nat
  /\ \A d, e \in 0..Expiry : d <= e => DiscountOf[d] % DiscountOf[e] = 0
  /\ \A r \in Requests : \A i \in 1..2 :
       /\ r[i].kind \in {"pseudo", "rqmc"} /\ r[i].antithetic \in BOOLEAN
       /\ r[i].scrambles \in Nat \ {0} /\ r[i].points \in Nat \ {0}
       /\ r[i].kind = "pseudo" => r[i].scrambles = 1

VARIABLES
  training, valuation,  \* the engines of the request
  phase, error,
  drawn,      \* the trajectory that each coordinate of random words gave
  date,       \* the exercise date being trained or valued
  tPaths, tCash, tStop,    \* training: paths, realized_cashflows, stopping_indices
  decisions,  \* per date fitted, its decision model
  policy,     \* the frozen policy
  vPaths, vCash, vStop,    \* valuation: the same
  discounted, units,       \* discounted_cashflows; their unit or replicate sums
  risk        \* what the risk evaluations of the fixed policy were run on

request == <<training, valuation>>
trained == <<tPaths, tCash, tStop>>
valued == <<vPaths, vCash, vStop>>
vars == <<training, valuation, phase, error, drawn, date, tPaths, tCash, tStop,
          decisions, policy, vPaths, vCash, vStop, discounted, units, risk>>
-----------------------------------------------------------------------------
(* Sampling units.  A pseudo-random engine has one "scramble" of units.    *)

Lanes(e) == IF e.antithetic THEN 2 ELSE 1
PathCount(e) == e.scrambles * e.points * Lanes(e)
Slots(e) == (0..e.scrambles - 1) \X (0..e.points - 1)
BasePath(e, slot) == (slot[1] * e.points + slot[2]) * Lanes(e)

TrainingDomain(e) == IF e.kind = "pseudo" THEN "LsmTrain" ELSE "RqmcScramble"
ValuationDomain(e) == IF e.kind = "pseudo" THEN "Valuation" ELSE "RqmcScramble"

Coordinate(e, domain, slot) == <<e.kind, e.seed, domain, slot>>
Coordinates(e, domain) == {Coordinate(e, domain, slot) : slot \in Slots(e)}

(* The path matrices: the trajectory written for each path, the antithetic *)
(* mate next to its unit.                                                  *)
PathMatrices(e, domain, draws) ==
  [p \in 0..PathCount(e) - 1 |->
     LET slot == CHOOSE s \in Slots(e) : p - BasePath(e, s) \in 0..Lanes(e) - 1
         t == draws[Coordinate(e, domain, slot)]
     IN  IF p = BasePath(e, slot) THEN t ELSE MirrorOf[t]]
-----------------------------------------------------------------------------
ContinueAll(d) == [kind |-> "continue_all", date |-> d]
Regression(d, predicts, targets) ==
  [kind |-> "regression", date |-> d, predicts |-> predicts, targets |-> targets]

(* should_exercise: strictly better than continuing.                       *)

Exercises(decision, t, d) ==
  decision.kind = "regression" /\ ImmediateOf[t][d] > decision.predicts[FeatureOf[t][d]]

NoDecisions == [d \in {} |-> 0]
NoPaths == [p \in {} |-> 0]
NoPolicy == [kind |-> "none"]

Init ==
  /\ \E r \in Requests : training = r[1] /\ valuation = r[2]
  /\ phase = "request" /\ error = "none" /\ date = 0
  /\ drawn = NoPaths /\ decisions = NoDecisions /\ policy = NoPolicy
  /\ tPaths = NoPaths /\ tCash = NoPaths /\ tStop = NoPaths
  /\ vPaths = NoPaths /\ vCash = NoPaths /\ vStop = NoPaths
  /\ discounted = NoPaths /\ units = NoPaths /\ risk = {}

Fail(why) ==
  /\ phase' = "failed" /\ error' = why
  /\ UNCHANGED <<request, drawn, date, trained, decisions, policy, valued,
                 discounted, units, risk>>

Overlaps ==
  training.kind = "rqmc" /\ valuation.kind = "rqmc" /\ training.seed = valuation.seed

RefuseOverlap ==
  /\ phase = "request" /\ Overlaps
  /\ Fail("TrainingValuationPathOverlap")

RefuseEngines ==
  /\ phase = "request" /\ ~Overlaps
  /\ training.kind # valuation.kind
  /\ Fail("UnsupportedEngine")
-----------------------------------------------------------------------------
AtExpiry(paths) == [p \in DOMAIN paths |-> ImmediateOf[paths[p]][Expiry]]
NeverStopped(paths) == [p \in DOMAIN paths |-> Expiry]

(* The training matrices are generated and train_exercise_policy starts.   *)
DrawTraining ==
  /\ phase = "request" /\ ~Overlaps
  /\ training.kind = valuation.kind
  /\ IF PathCount(training) > MaxElements THEN Fail("MatrixElementLimitExceeded")
     ELSE \E draws \in [Coordinates(training, TrainingDomain(training)) -> Trajectories] :
       LET paths == PathMatrices(training, TrainingDomain(training), draws) IN
       /\ drawn' = draws
       /\ tPaths' = paths
       /\ tCash' = AtExpiry(paths)
       /\ tStop' = NeverStopped(paths)
       /\ date' = Expiry - 1
       /\ phase' = "train"
       /\ UNCHANGED <<request, error, decisions, policy, valued, discounted, units, risk>>

(* Mutant: discounted from the expiry, whatever the stopping date.         *)
MutContinuationTarget(p) == (tCash[p] * DiscountOf[Expiry]) \div DiscountOf[date]
ContinuationTarget(p) == (tCash[p] * DiscountOf[tStop[p]]) \div DiscountOf[date]

InTheMoney(paths, d) == {p \in DOMAIN paths : ImmediateOf[paths[p]][d] > 0}

(* fit_exercise_decision on the paths in the money.                        *)
Fits ==
  LET rows == InTheMoney(tPaths, date)
  IN  IF rows = {} THEN {ContinueAll(date)}
      ELSE {Regression(date, f, [p \in rows |-> ContinuationTarget(p)]) : f \in Predictors}

TooManyElements == Cardinality(InTheMoney(tPaths, date)) * Columns > MaxElements

(* The stopping dates move back to this one wherever it exercises.         *)
Stops(decision) == {p \in DOMAIN tPaths : Exercises(decision, tPaths[p], date)}

TrainDate ==
  /\ phase = "train" /\ date >= 0
  /\ IF TooManyElements THEN Fail("MatrixElementLimitExceeded")
     ELSE \E fit \in Fits :
       /\ tCash' = [p \in DOMAIN tCash |->
            IF p \in Stops(fit) THEN ImmediateOf[tPaths[p]][date] ELSE tCash[p]]
       /\ tStop' = [p \in DOMAIN tStop |-> IF p \in Stops(fit) THEN date ELSE tStop[p]]
       /\ decisions' = [d \in date..Expiry - 1 |-> IF d = date THEN fit ELSE decisions[d]]
       /\ date' = date - 1
       /\ UNCHANGED <<request, phase, error, drawn, tPaths, policy, valued,
                      discounted, units, risk>>

Freeze ==
  /\ phase = "train" /\ date < 0
  /\ policy' = [kind |-> "frozen", decisions |-> decisions,
                domain |-> TrainingDomain(training), trajectories |-> PathCount(training)]
  /\ phase' = "frozen"
  /\ UNCHANGED <<request, error, drawn, date, trained, decisions, valued,
                 discounted, units, risk>>
-----------------------------------------------------------------------------
(* The valuation matrices are generated and value_exercise_policy starts.  *)
DrawValuation ==
  /\ phase = "frozen"
  /\ \E draws \in [Coordinates(valuation, ValuationDomain(valuation)) -> Trajectories] :
       LET paths == PathMatrices(valuation, ValuationDomain(valuation), draws) IN
       /\ \A c \in DOMAIN draws \cap DOMAIN drawn : draws[c] = drawn[c]
       /\ drawn' = [c \in DOMAIN draws \cup DOMAIN drawn |->
                      IF c \in DOMAIN draws THEN draws[c] ELSE drawn[c]]
       /\ vPaths' = paths
       /\ vCash' = AtExpiry(paths)
       /\ vStop' = NeverStopped(paths)
  /\ date' = 0
  /\ phase' = "value"
  /\ UNCHANGED <<request, error, trained, decisions, policy, discounted, units, risk>>

(* Mutant: a path that has stopped may stop again.                         *)
MutExercised(d) == {p \in DOMAIN vPaths : Exercises(policy.decisions[d], vPaths[p], d)}
Exercised(d) == {p \in DOMAIN vPaths :
  vStop[p] = Expiry /\ Exercises(policy.decisions[d], vPaths[p], d)}

ValueDate ==
  /\ phase = "value" /\ date < Expiry
  /\ vCash' = [p \in DOMAIN vCash |->
       IF p \in Exercised(date) THEN ImmediateOf[vPaths[p]][date] ELSE vCash[p]]
  /\ vStop' = [p \in DOMAIN vStop |-> IF p \in Exercised(date) THEN date ELSE vStop[p]]
  /\ date' = date + 1
  /\ UNCHANGED <<request, phase, error, drawn, trained, decisions, policy, vPaths,
                 discounted, units, risk>>

(* collapse_antithetic_values and rqmc_replicate_values: the chunks of     *)
(* paths that make one unit or one replicate.  Their sums stand for the    *)
(* averages.                                                               *)
ChunkSize(e) == IF e.kind = "pseudo" THEN Lanes(e) ELSE e.points * Lanes(e)

Chunk(e, u) == u * ChunkSize(e)..(u + 1) * ChunkSize(e) - 1

SumOver(f, S) ==
  LET sum[T \in SUBSET S] ==
        IF T = {} THEN 0 ELSE LET p == CHOOSE p \in T : TRUE IN f[p] + sum[T \ {p}]
  IN  sum[S]

Settle ==
  /\ phase = "value" /\ date = Expiry
  /\ discounted' = [p \in DOMAIN vPaths |-> vCash[p] * DiscountOf[vStop[p]]]
  /\ units' = [u \in 0..PathCount(valuation) \div ChunkSize(valuation) - 1 |->
                 SumOver(discounted', Chunk(valuation, u))]
  /\ phase' = "valued"
  /\ UNCHANGED <<request, error, drawn, date, trained, decisions, policy, valued, risk>>

(* The fixed-policy risk regenerates the path of every unit and point and  *)
(* looks up its stopping date.                                             *)
RiskDomain(e) == ValuationDomain(e)

(* Mutant: point-major instead of scramble-major.                          *)
MutRiskPath(e, slot) == (slot[2] * e.scrambles + slot[1]) * Lanes(e)
RiskPath(e, slot) == (slot[1] * e.points + slot[2]) * Lanes(e)

FixedPolicyRisk ==
  /\ phase = "valued"
  /\ risk' = {[words |-> Coordinate(valuation, RiskDomain(valuation), slot), lane |-> lane,
               stop |-> vStop[RiskPath(valuation, slot) + lane]] :
                slot \in Slots(valuation), lane \in 0..Lanes(valuation) - 1}
  /\ phase' = "reported"
  /\ UNCHANGED <<request, error, drawn, date, trained, decisions, policy, valued,
                 discounted, units>>

(* No sensitivity was requested.                                           *)
PriceOnly ==
  /\ phase = "valued"
  /\ phase' = "reported"
  /\ UNCHANGED <<request, error, drawn, date, trained, decisions, policy, valued,
                 discounted, units, risk>>

Next ==
  \/ RefuseOverlap
  \/ RefuseEngines
  \/ DrawTraining
  \/ TrainDate
  \/ Freeze
  \/ DrawValuation
  \/ ValueDate
  \/ Settle
  \/ FixedPolicyRisk
  \/ PriceOnly

Spec == Init /\ [][Next]_vars /\ WF_vars(Next)
-----------------------------------------------------------------------------
TypeOK ==
  /\ phase \in {"request", "train", "frozen", "value", "valued", "reported", "failed"}
  /\ error # "none" <=> phase = "failed"
  /\ date \in -1..Expiry
  /\ DOMAIN tStop = DOMAIN tPaths /\ DOMAIN vStop = DOMAIN vPaths
  /\ \A p \in DOMAIN tStop : tStop[p] \in 0..Expiry
  /\ \A p \in DOMAIN vStop : vStop[p] \in 0..Expiry
  /\ DOMAIN decisions \subseteq 0..Expiry - 1

(* The first date from d on at which the decisions exercise a trajectory.  *)
FirstFrom(fitted, d, t) ==
  LET stops == {k \in d..Expiry - 1 : Exercises(fitted[k], t, k)}
  IN  IF stops = {} THEN Expiry ELSE CHOOSE k \in stops : \A j \in stops : k <= j

(* Every regression is on the training paths strictly in the money on its  *)
(* date, against what the decisions of the later dates realize, discounted *)
(* to that date; it never sees a path's own best outcome (lsm.rs:1615).    *)
Continuation(t, d) ==
  LET stop == FirstFrom(decisions, d + 1, t)
  IN  (ImmediateOf[t][stop] * DiscountOf[stop]) \div DiscountOf[d]

FitsFollowLaterPolicy ==
  \A d \in DOMAIN decisions :
    LET rows == {p \in DOMAIN tPaths : ImmediateOf[tPaths[p]][d] > 0} IN
    IF rows = {} THEN decisions[d] = ContinueAll(d)
    ELSE decisions[d].targets = [p \in rows |-> Continuation(tPaths[p], d)]

(* What the backward sweep leaves on the training paths is what applying   *)
(* the policy forwards would give: the in-sample value that is reported    *)
(* beside the price is that of the frozen policy.                          *)
InSampleFollowsPolicy ==
  policy # NoPolicy => \A p \in DOMAIN tPaths :
    /\ tStop[p] = FirstFrom(decisions, 0, tPaths[p])
    /\ tCash[p] = ImmediateOf[tPaths[p]][tStop[p]]

(* A valuation path stops at the first date at which the frozen policy     *)
(* exercises it, and is paid what it is worth there.                       *)
StopsAtFirstExercise ==
  phase \in {"valued", "reported"} => \A p \in DOMAIN vPaths :
    /\ vStop[p] = FirstFrom(decisions, 0, vPaths[p])
    /\ discounted[p] = ImmediateOf[vPaths[p]][vStop[p]] * DiscountOf[vStop[p]]

(* No lookahead: two valuation paths with the same features and values up  *)
(* to a date stop together up to that date.                                *)
SameUntil(t, u, d) == \A k \in 0..d :
  FeatureOf[t][k] = FeatureOf[u][k] /\ ImmediateOf[t][k] = ImmediateOf[u][k]

NonAnticipating ==
  phase \in {"valued", "reported"} => \A p, q \in DOMAIN vPaths, d \in 0..Expiry - 1 :
    SameUntil(vPaths[p], vPaths[q], d) => (vStop[p] = d <=> vStop[q] = d)

(* A date on which no training path was in the money exercises no          *)
(* valuation path either, however deep in the money.                       *)
ZeroItmContinues ==
  policy # NoPolicy => \A d \in 0..Expiry - 1 :
    (\A p \in DOMAIN tPaths : ImmediateOf[tPaths[p]][d] = 0) =>
      \A p \in DOMAIN vStop : vStop[p] # d

(* Training and valuation never read the same random words                 *)
(* (validate_independent_from, and the domains of the pseudo-random        *)
(* streams), so that no valuation path was trained on.                     *)
PhasesIndependent ==
  phase \in {"value", "valued", "reported"} =>
    Cardinality(DOMAIN drawn) = Cardinality(Slots(training)) + Cardinality(Slots(valuation))

(* Every risk evaluation runs on the path for which its stopping date was  *)
(* decided, mate included, and every path is run.                          *)
RiskOnDecidedPaths ==
  /\ \A r \in risk :
       LET t == drawn[r.words]
       IN  r.stop = FirstFrom(decisions, 0, IF r.lane = 0 THEN t ELSE MirrorOf[t])
  /\ risk # {} => Cardinality(risk) = PathCount(valuation)

(* The samples of the estimate are those of the engine: a unit with its    *)
(* mate, or a whole scramble; none shares random words with another.       *)
WordsOf(u) == IF valuation.kind = "pseudo"
              THEN {slot \in Slots(valuation) : slot[2] = u}
              ELSE {slot \in Slots(valuation) : slot[1] = u}

SamplesAreUnits ==
  phase \in {"valued", "reported"} => \A u \in DOMAIN units :
    units[u] = SumOver(discounted,
      {BasePath(valuation, slot) + lane : slot \in WordsOf(u), lane \in 0..Lanes(valuation) - 1})

(* What training must give: decisions fitted to what the later ones        *)
(* realize, and a value of theirs that the policy would give again.        *)
TrainsBackwards ==
  /\ TypeOK
  /\ FitsFollowLaterPolicy
  /\ InSampleFollowsPolicy
  /\ ZeroItmContinues

(* What valuation must give: one exercise, decided without lookahead.      *)
ExercisesOnce ==
  /\ StopsAtFirstExercise
  /\ NonAnticipating

(* What words are used for: training, valuation and risk, and each sample  *)
(* of the estimate, have their own.                                        *)
WordsKeptApart ==
  /\ PhasesIndependent
  /\ RiskOnDecidedPaths
  /\ SamplesAreUnits

(* Stated by docs/library/early-exercise-calculation-specifications.md:    *)
(* the policy stream includes the fixed LsmTrain random-domain identifier. *)
PolicyNamesTrainingDomain == policy # NoPolicy => policy.domain = "LsmTrain"
=============================================================================
