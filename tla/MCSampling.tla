----------------------------- MODULE MCSampling -----------------------------
(* The points of the randomized sequence, the bridge that makes increments *)
(* of them, and a path under local volatility that is walked with these:   *)
(* each takes whatever the one before gives, so that a behaviour is about  *)
(* one of them, and the others rest.                                       *)
EXTENDS BrownianBridge, TLC

CONSTANTS
  nan, Bits, Directions, Philox, Requests,
  Field, Spot, Surfaces, Trades, Schedules, StepLimits, Starts, Shocks, Forwards, Ln, Exp, Root,
  Payoffs

VARIABLES
  task,  \* "bridge", "points" or "path"
  surface, trade, dividends, limit, pathPhase, pathError, nodes, eventNodes, checkpoints, states,
  cache, stats, cursor, checked, payoff, used, stateAdjoints, shockAdjoints, varianceAdjoints,
  stepAdjoints, directAdjoints,
  request, pointPhase, pointError, table, entry, scramble, point, normals, sum, replicates

pointVars == <<request, pointPhase, pointError, table, entry, scramble, point, normals, sum,
               replicates>>
Points == INSTANCE ScrambledSobol WITH phase <- pointPhase, error <- pointError

pathVars == <<surface, trade, dividends, limit, pathPhase, pathError, nodes, eventNodes, checkpoints,
              states, cache, stats, cursor, checked, payoff, used, stateAdjoints, shockAdjoints,
              varianceAdjoints, stepAdjoints, directAdjoints>>
LocalVol == INSTANCE LocalVolPath WITH phase <- pathPhase, error <- pathError

(* Whoever rests has one of its inputs.                                    *)
BridgeRests == times = (0 :> 0) /\ factors = 1 /\ precision = 1
PointsRest == request = CHOOSE r \in Requests : TRUE
PathRests ==
  /\ surface = CHOOSE s \in Surfaces : TRUE
  /\ trade = CHOOSE t \in Trades : TRUE
  /\ dividends = <<>> /\ limit = 0

MCInit ==
  /\ \/ task = "bridge" /\ PointsRest /\ PathRests
     \/ task = "points" /\ BridgeRests /\ PathRests
     \/ task = "path" /\ BridgeRests /\ PointsRest
  /\ Init /\ Points!Init /\ LocalVol!Init

MCNext ==
  \/ task = "bridge" /\ Next /\ UNCHANGED <<task, pointVars, pathVars>>
  \/ task = "points" /\ Points!Next /\ UNCHANGED <<task, vars, pathVars>>
  \/ task = "path" /\ LocalVol!Next /\ UNCHANGED <<task, vars, pointVars>>

MCSpec ==
  MCInit /\ [][MCNext]_<<task, vars, pointVars, pathVars>> /\ WF_vars(task = "bridge" /\ Next)

(* The points are scrambled as ScrambledSobol says, in its instance here.  *)
PointsAreScrambled == task = "points" => Points!PointsAreScrambled

(* A path and its adjoints are as LocalVolPath says, in its instance here. *)
PathsAgree == task = "path" => LocalVol!PathsAgree
ReverseAgrees == task = "path" => LocalVol!ReverseAgrees
-----------------------------------------------------------------------------
(* All grids over 0..6 that start at zero, and one each that breaks a      *)
(* rule.  With times up to 6, all products of weights along a path have    *)
(* denominators that divide 720.                                           *)
Sorted(S) == [i \in 0..Cardinality(S) - 1 |->
                CHOOSE t \in S : Cardinality({u \in S : u < t}) = i]
MCGrids ==
  {Sorted({0} \cup S) : S \in SUBSET (1..6)} \cup
  {[i \in 0..1 |-> 1 + i], [i \in 0..2 |-> IF i = 0 THEN 0 ELSE 2],
   [i \in 0..1 |-> IF i = 0 THEN 0 ELSE nan]}

(* Three-bit words, the first two dimensions of the Joe-Kuo set, every box *)
(* of each depth, and sixty-four generators, each a quadratic of the       *)
(* coordinate taken modulo eight.                                          *)
MCDirections == <<<<{0}, {1}, {2}>>, <<{0}, {0, 1}, {0, 2}>>>>
InBinary(n) == {b \in 0..2 : (n \div 2^b) % 2 = 1}
MCPhilox ==
  [word \in 0..63 |->
    [c \in (0..1) \X (0..5) |->
      InBinary((1 + (word % 8)) * (c[1] + 1) + (1 + (word \div 8)) * c[2] * c[2] + c[2])]]

Sides(depth) == [depth : {depth}, number : 0..2^depth - 1]
Request(points, scrambles, word, antithetic, box, flat) ==
  [points |-> points, scrambles |-> scrambles, seed |-> word, dimension |-> Len(box),
   antithetic |-> antithetic, box |-> box, flat |-> flat]

Boxes ==
  {<<s, t>> : s \in Sides(1), t \in Sides(1)} \cup {<<s, t>> : s \in Sides(2), t \in Sides(1)} \cup
  {<<s, t>> : s \in Sides(0), t \in Sides(3) \cup Sides(1)} \cup {<<s>> : s \in Sides(2)}

MCRequests ==
  {Request(points, 2, word, antithetic, box, FALSE) :
     points \in {3, 4, 8}, word \in {0, 11, 22, 37, 54, 63}, antithetic \in BOOLEAN, box \in Boxes} \cup
  {Request(8, 2, word, FALSE, <<[depth |-> 1, number |-> 0], [depth |-> 2, number |-> 1]>>, FALSE) :
     word \in 0..63} \cup
  {Request(points, scrambles, 5, TRUE, box, flat) :
     points \in {0, 2, 16}, scrambles \in 0..2, flat \in BOOLEAN,
     box \in {<<>>, <<[depth |-> 1, number |-> 1]>>, [d \in 1..3 |-> [depth |-> 0, number |-> 0]]}}
-----------------------------------------------------------------------------
(* Variances and weights modulo 23.  The square root is that of a square,  *)
(* the logarithm leaves the log-moneyness of the surfaces on both sides,   *)
(* and all times are even, so that a limit of four halves some intervals   *)
(* and leaves whole times.                                                 *)
MCRoot ==
  [v \in 0..22 |-> LET roots == {r \in 1..11 : (r * r) % 23 = v}
                  IN  IF roots = {} THEN 1 + (v % 22) ELSE CHOOSE r \in roots : TRUE]
MCLn == [v \in 1..22 |-> (v % 6) - 1]
MCExp == [v \in 0..22 |-> 1 + ((5 * v * v + 3 * v) % 22)]
MCForwards == [t \in 0..12 |-> 7 + t]

(* Two surfaces on the same grid that differ in one value, one on another  *)
(* grid and one that ends before the expiry.                               *)
Nodal(grid, corner) ==
  [times |-> grid, xs |-> <<0, 1, 3>>, values |-> <<<<1, 4, 9>>, <<16, 2, 3>>, <<13, 18, corner>>>>]
MCSurfaces ==
  {Nodal(<<0, 6, 12>>, 6), Nodal(<<0, 6, 12>>, 8), Nodal(<<0, 4, 12>>, 6),
   [times |-> <<0, 4>>, xs |-> <<0, 1, 3>>, values |-> <<<<1, 4, 9>>, <<16, 2, 3>>>>]}

MCTrades == {[observed |-> dates, expiry |-> 12] : dates \in {{4, 12}, {0, 12}}}
Paying(time, cash, keep) == [time |-> time, cash |-> cash, keep |-> keep]
MCSchedules ==
  {<<>>, <<Paying(6, 1, 1)>>, <<Paying(4, 1, 2), Paying(12, 0, 1)>>,
   <<Paying(0, 1, 2), Paying(4, 1, 2)>>, <<Paying(12, 1, 1), Paying(14, 1, 2)>>}

Flat(value) == [t \in 0..12 |-> value]
Rising(value) == [t \in 0..12 |-> value + t]
Side(state, variance) == [state |-> state, variance |-> variance]
MCPayoffs ==
  {[kind |-> "graph", post |-> Rising(3), pre |-> Rising(2)],
   [kind |-> "barrier", post |-> Flat(3), monitored |-> 12, left |-> Side(2, 5), right |-> Side(7, 3)],
   [kind |-> "barrier", post |-> Flat(4), monitored |-> 6, left |-> Side(1, 6), right |-> Side(4, 9)]}
=============================================================================
