----------------------------- MODULE MCExercise -----------------------------
(* The exercise policy, for which any prediction may be fitted, and the    *)
(* regression that fits one: a behaviour is about one of them, and the     *)
(* other rests.                                                            *)
EXTENDS ExercisePolicy

CONSTANT Samples

VARIABLES
  task,  \* "policy" or "fit"
  sample, fitPhase, fitError, active, preExcluded, gram, permutation, diagonal, rank, coefficients

fitVars == <<sample, fitPhase, fitError, active, preExcluded, gram, permutation, diagonal, rank,
             coefficients>>
Fit == INSTANCE Regression WITH phase <- fitPhase, error <- fitError

MCInit ==
  /\ Init
  /\ \/ task = "policy" /\ sample = CHOOSE s \in Samples : TRUE
     \/ task = "fit" /\ request = CHOOSE r \in Requests : TRUE
  /\ Fit!Init

MCNext ==
  \/ task = "policy" /\ Next /\ UNCHANGED <<task, fitVars>>
  \/ task = "fit" /\ Fit!Next /\ UNCHANGED <<task, vars>>

MCSpec == MCInit /\ [][MCNext]_<<task, vars, fitVars>>

(* What Regression promises of a fit, of its instance here.                *)
FitIsExact == task = "fit" => Fit!FitIsExact
-----------------------------------------------------------------------------
(* Three exercise dates, four trajectories of which two share their start, *)
(* mirrored in pairs, and requests of both kinds of engine.                *)

Dates == 0..2
OnDates(a, b, c) == [d \in Dates |-> CASE d = 0 -> a [] d = 1 -> b [] d = 2 -> c]

MCTrajectories == {"fall", "rebound", "rise"}
MCMirrorOf == [fall |-> "rise", rebound |-> "dip", rise |-> "fall", dip |-> "rebound"]
MCFeatureOf == [fall |-> OnDates("low", "low", "low"), rebound |-> OnDates("low", "high", "low"),
                rise |-> OnDates("high", "high", "high"), dip |-> OnDates("high", "low", "high")]
MCImmediateOf == [fall |-> OnDates(2, 3, 0), rebound |-> OnDates(2, 0, 6),
                  rise |-> OnDates(0, 0, 4), dip |-> OnDates(0, 3, 1)]
MCDiscountOf == OnDates(4, 2, 1)
(* Exercise always, never, on the low feature only, from 3 on the low.     *)
MCPredictors == {[low |-> -1, high |-> -1], [low |-> 9, high |-> 9],
                 [low |-> 1, high |-> 9], [low |-> 2, high |-> -1]}

Engine(kind, seed, scrambles, points, antithetic) ==
  [kind |-> kind, seed |-> seed, scrambles |-> scrambles, points |-> points,
   antithetic |-> antithetic]

PseudoRequests ==
  {<<Engine("pseudo", 1, 1, 2, FALSE), Engine("pseudo", 1, 1, 3, TRUE)>>,
   <<Engine("pseudo", 1, 1, 2, TRUE), Engine("pseudo", 2, 1, 2, FALSE)>>,
   <<Engine("pseudo", 1, 1, 6, TRUE), Engine("pseudo", 2, 1, 2, FALSE)>>}
RqmcRequests ==
  {<<Engine("rqmc", 1, 2, 1, FALSE), Engine("rqmc", 2, 2, 2, FALSE)>>,
   <<Engine("rqmc", 1, 1, 2, FALSE), Engine("rqmc", 2, 2, 1, TRUE)>>,
   <<Engine("rqmc", 1, 2, 1, FALSE), Engine("rqmc", 1, 2, 1, FALSE)>>,
   <<Engine("rqmc", 1, 2, 1, FALSE), Engine("pseudo", 1, 1, 2, FALSE)>>}
MCRequests == PseudoRequests \cup RqmcRequests
-----------------------------------------------------------------------------
(* One feature up to degree three, two up to degree two, none at all, with *)
(* constant and collinear features, ties of norms and three tolerances.    *)
Sample(rows, degree, target, absTol, relTol, columns, elements) ==
  [rows |-> rows, features |-> IF rows = <<>> THEN 1 ELSE Len(rows[1]), degree |-> degree,
   target |-> target, absTol |-> absTol, relTol |-> relTol,
   maxColumns |-> columns, maxElements |-> elements]
NoTolerance == <<0, 1>>
Free(rows, degree, target) == Sample(rows, degree, target, NoTolerance, NoTolerance, 10, 40)

Singles(S) == [1..1 -> S]
Pairs == [1..2 -> -1..1]
MCSamples ==
  {Free(rows, 2, t) : rows \in [1..3 -> Singles(-1..2)], t \in {<<1, 0, 2>>, <<0, 3, 3>>}} \cup
  {Free(rows, 3, <<1, 0, 2, 5>>) : rows \in [1..4 -> Singles({-1, 2})]} \cup
  {Free(rows, 1, <<2, 0, 1>>) : rows \in [1..3 -> Pairs]} \cup
  {Free(<<r, <<1, -1>>, <<0, 1>>>>, 2, <<2, 1, 4>>) : r \in Pairs} \cup
  {Sample(rows, 2, <<1, 0, 2>>, abs, rel, 10, 40) :
     rows \in [1..3 -> Singles({-1, 0, 2})], abs \in {NoTolerance, <<2, 1>>, <<40, 1>>},
     rel \in {<<1, 4>>, <<1, 100>>}} \cup
  {Sample(rows, 2, [r \in DOMAIN rows |-> r], NoTolerance, NoTolerance, columns, elements) :
     rows \in {<<>>, <<<<>>, <<>>>>, <<<<1>>, <<1>>>>, <<<<1>>, <<2>>>>},
     columns \in {0, 2, 3}, elements \in {1, 5, 6}}
=============================================================================
