---------------------------- MODULE LocalVolPath ----------------------------
(***************************************************************************)
(* One path under local volatility, and its reverse sweep                  *)
(* (processes/local_vol.rs and local_vol/, compile/local_vol.rs,           *)
(* risk/pathwise_local_vol.rs).                                            *)
(*                                                                         *)
(* The time grid is compiled from the nodes of the surface, the observed   *)
(* times and the ex-dates.  A path is evolved node by node and remembers   *)
(* every step; the payoff's adjoints are brought to the nodes and taken    *)
(* back through the remembered steps.  The plan can also walk a path       *)
(* without remembering, and continue one from its first state.             *)
(*                                                                         *)
(* Amounts are residues as in LocalVarianceGrid.  The logarithm, the       *)
(* exponential and the square root enter only by their values and their    *)
(* rules of differentiation, so that any functions to positive numbers     *)
(* will do.  The adjoints of a payoff come from PayoffTape or from the     *)
(* bridges of ContinuousBarrier and are given here.                        *)
(***************************************************************************)
EXTENDS LocalVarianceGrid, AffineDividends, FiniteSets

CONSTANTS
  Surfaces,     \* [times, xs, values]
  Trades,       \* [observed, expiry]: times observed, up to the expiry
  Schedules,    \* sequences of dividends, by ex-date
  StepLimits,   \* longest steps that are asked for; 0 for the surface's own
  Starts,       \* initial states
  Shocks,
  Forwards,     \* forward at each time
  Ln, Exp, Root,
  Payoffs       \* "graph" or "barrier", with their adjoints: see Seeds below

VARIABLES
  surface, trade, dividends, limit,
  phase, error,
  nodes, eventNodes, checkpoints,   \* the compiled plan
  states, cache, stats, cursor, checked,
  payoff, used,                     \* what is differentiated, on which surface
  stateAdjoints, shockAdjoints, varianceAdjoints, stepAdjoints, directAdjoints
pathInputs == <<surface, trade, dividends, limit>>
plan == <<nodes, eventNodes, checkpoints>>
path == <<states, cache, stats, cursor, checked>>
adjointVars == <<payoff, used, stateAdjoints, shockAdjoints, varianceAdjoints, stepAdjoints, directAdjoints>>
vars == <<surface, trade, dividends, limit, phase, error, nodes, eventNodes, checkpoints, states,
          cache, stats, cursor, checked, payoff, used, stateAdjoints, shockAdjoints, varianceAdjoints,
          stepAdjoints, directAdjoints>>
-----------------------------------------------------------------------------
(* The plan.                                                               *)

ExTimes == {dividends[k].time : k \in DOMAIN dividends}
Required ==
  SetToSortSeq({0} \cup Range(surface.times) \cup trade.observed
                 \cup {t \in ExTimes : t <= trade.expiry}, LAMBDA s, t : s < t)

LargestGap ==
  LET gaps == {surface.times[r + 1] - surface.times[r] : r \in 1..Len(surface.times) - 1}
  IN  CHOOSE g \in gaps : \A h \in gaps : h <= g
MaximumStep == IF limit = 0 THEN LargestGap ELSE limit

(* interval_step_count.                                                    *)
StepCount(interval) == (interval + MaximumStep - 1) \div MaximumStep

Substeps(left, right) ==
  LET count == StepCount(right - left)
  IN  [k \in 1..count |-> IF k = count THEN right ELSE left + k * ((right - left) \div count)]

(* One interval of the time grid after the other.                          *)
TimeGrid ==
  FoldLeft(LAMBDA g, k : LET longer == g.nodes \o Substeps(Required[k], Required[k + 1])
                         IN  [nodes |-> longer, events |-> Append(g.events, Len(longer))],
           [nodes |-> <<0>>, events |-> <<1>>], [k \in 1..Len(Required) - 1 |-> k])

NodeAt(grid, t) == CHOOSE n \in DOMAIN grid : grid[n] = t
Checkpoints(grid) ==
  LET reached == SelectSeq(EventTimeline(dividends), LAMBDA e : e.time <= Last(grid))
  IN  [k \in DOMAIN reached |->
         [node |-> NodeAt(grid, reached[k].time), before |-> reached[k].before, after |-> reached[k].after]]

PostCoordinate(t) == CoordinateAfterTime(dividends, t)
PreCoordinate(t) == (CHOOSE e \in Range(EventTimeline(dividends)) : e.time = t).before

(* Price = reserve + scale * state, in eighths.                            *)
ScaleOf(c) == Over(2 * Residual(dividends) * c.keep, Spot)
Reconstruct(c, state) == Mod(c.cash + ScaleOf(c) * state)
-----------------------------------------------------------------------------
(* One step from a node, in the three ways of walking.                     *)

Interval(i) == nodes[i + 1] - nodes[i]
LogMoneyness(i, state) == Ln[Over(state, Forwards[nodes[i]])]
Exponential(i, variance, shock) ==
  Mod(Over(Forwards[nodes[i + 1]], Forwards[nodes[i]])
      * Exp[Mod(Over(-variance * Interval(i), 2) + Root[variance] * Root[Interval(i)] * shock)])

StepAt(grid, i, state, shock) ==
  LET q == Interpolate(grid, nodes[i], LogMoneyness(i, state))
  IN  [before |-> state, variance |-> q.value, derivative |-> Over(Slope(grid, q), state),
       shock |-> shock, dt |-> Interval(i), interpolation |-> q,
       exponential |-> Exponential(i, q.value, shock)]
AfterStep(step) == Mod(step.before * step.exponential)

ShocksOf(steps) == [i \in DOMAIN steps |-> steps[i].shock]

(* evolve_states: nothing is remembered but the cells of the step before.  *)
HintedStep(grid, walk, shock) ==
  LET i == Len(walk.states)
      x == LogMoneyness(i, Last(walk.states))
      row == HintedCell(grid.times, nodes[i], walk.row)
      column == HintedCell(grid.xs, Clamped(grid, x), walk.column)
      variance == InCells(grid, nodes[i], x, row, column).value
  IN  [states |-> Append(walk.states, Mod(Last(walk.states) * Exponential(i, variance, shock))),
       row |-> row, column |-> column]
PriceStates(grid, start, shocks) ==
  FoldLeft(LAMBDA walk, shock : HintedStep(grid, walk, shock),
           [states |-> <<start>>, row |-> 1, column |-> 1], shocks).states

(* continue_states_from_first_node: the first transition is left out.      *)
ContinuedStates(grid, start, first, shocks) ==
  FoldLeft(LAMBDA walked, shock :
             Append(walked, AfterStep(StepAt(grid, Len(walked), Last(walked), shock))),
           <<start, first>>, shocks)
-----------------------------------------------------------------------------
Init ==
  /\ surface \in Surfaces /\ trade \in Trades /\ dividends \in Schedules /\ limit \in StepLimits
  /\ phase = "compile" /\ error = "none"
  /\ nodes = <<>> /\ eventNodes = <<>> /\ checkpoints = <<>>
  /\ states = <<>> /\ cache = <<>> /\ stats = NoContacts /\ cursor = 1 /\ checked = <<>>
  /\ payoff = <<>> /\ used = <<>>
  /\ stateAdjoints = <<>> /\ shockAdjoints = <<>> /\ varianceAdjoints = <<>> /\ stepAdjoints = <<>>
  /\ directAdjoints = <<>>

(* A surface must have a node at zero and its last at the expiry.          *)
Spans == surface.times[1] = 0 /\ Last(surface.times) = trade.expiry

RefuseSurface ==
  /\ phase = "compile" /\ ~Spans
  /\ phase' = "refused" /\ error' = "InvalidLocalVolatilityTimeGrid"
  /\ UNCHANGED <<pathInputs, plan, path, adjointVars>>

Compile ==
  /\ phase = "compile" /\ Spans
  /\ nodes' = TimeGrid.nodes /\ eventNodes' = TimeGrid.events
  /\ checkpoints' = Checkpoints(nodes')
  /\ \E start \in Starts : states' = <<start>>
  /\ phase' = "evolve"
  /\ UNCHANGED <<pathInputs, error, cache, stats, cursor, checked, adjointVars>>

(* The loop over checkpoints behind a step: those at its node, in order.   *)
Reached(n) ==
  {k \in cursor..Len(checkpoints) : \A j \in cursor..k : checkpoints[j].node = n}

(* validate_post_event_f_state goes by the dividend, the cache by the      *)
(* checkpoint.                                                             *)
Check(k, n, state) ==
  LET before == Reconstruct(CoordinateBeforeEvent(dividends, k), state)
  IN  [node |-> n, state |-> state,
       pre |-> Reconstruct(checkpoints[k].before, state),
       post |-> Mod(Over(before * dividends[k].keep, 2) - 8 * dividends[k].cash),
       scale |-> ScaleOf(checkpoints[k].after)]

Evolve ==
  /\ phase = "evolve" /\ Len(states) < Len(nodes)
  /\ \E shock \in Shocks :
       LET n == Len(states) + 1
           step == StepAt(surface, n - 1, Last(states), shock)
           state == AfterStep(step)
       IN  /\ cache' = Append(cache, step)
           /\ states' = Append(states, state)
           /\ stats' = Recorded(stats, step.interpolation)
           /\ cursor' = cursor + Cardinality(Reached(n))
           /\ checked' = checked \o [j \in 1..Cardinality(Reached(n)) |-> Check(cursor + j - 1, n, state)]
  /\ UNCHANGED <<pathInputs, phase, error, plan, adjointVars>>
-----------------------------------------------------------------------------
(* The reverse sweep.                                                      *)

(* Of a graph the adjoints of the observations, by time; of a barrier that *)
(* of the last price, and of both ends of every interval up to the end of  *)
(* the monitoring.                                                         *)
Monitored(p) == Cardinality({n \in DOMAIN nodes : n > 1 /\ nodes[n] <= p.monitored})
If(condition, x) == IF condition THEN x ELSE 0

StateSeed(p, n) ==
  LET t == nodes[n]
  IN  IF p.kind = "graph"
      THEN Mod(If(t \in trade.observed, p.post[t] * ScaleOf(PostCoordinate(t)))
               + If(t \in trade.observed /\ t \in ExTimes, p.pre[t] * ScaleOf(PreCoordinate(t))))
      ELSE Mod(If(n = Len(nodes), p.post[t] * ScaleOf(PostCoordinate(t)))
               + If(n <= Monitored(p), p.left.state)
               + If(n > 1 /\ n <= Monitored(p) + 1, p.right.state))
VarianceSeed(p, n) ==
  IF p.kind = "graph" THEN 0
  ELSE Mod(If(n <= Monitored(p), p.left.variance)
           + If(n > 1 /\ n <= Monitored(p) + 1, p.right.variance))

(* validate_cached_path; a surface that ends too early is refused by its   *)
(* interpolation, under a name of its own.                                 *)
IsCached(grid) ==
  \A i \in DOMAIN cache :
    Queryable(grid, nodes[i]) /\ cache[i] = StepAt(grid, i, cache[i].before, cache[i].shock)

QueryAt(grid, n) == Interpolate(grid, nodes[n], LogMoneyness(n, states[n]))
NoValues(grid) == [r \in DOMAIN grid.times |-> [c \in DOMAIN grid.xs |-> 0]]

(* A variance seed moves the state of its own node too.                    *)
Feedback(grid, p, n) == Over(VarianceSeed(p, n) * Slope(grid, QueryAt(grid, n)), states[n])

StartReverse ==
  /\ phase = "evolve" /\ Len(states) = Len(nodes)
  /\ payoff' \in Payoffs
  /\ used' \in Surfaces
  /\ IF ~IsCached(used')
     THEN /\ phase' = "refused" /\ error' = "CachedPathMismatch"
          /\ UNCHANGED <<stateAdjoints, shockAdjoints, varianceAdjoints, stepAdjoints, directAdjoints>>
     ELSE /\ phase' = "reverse" /\ UNCHANGED error
          /\ stateAdjoints' = [n \in DOMAIN nodes |-> Mod(StateSeed(payoff', n) + Feedback(used', payoff', n))]
          /\ directAdjoints' =
               FoldLeft(LAMBDA d, n : Deposit(QueryAt(used', n), VarianceSeed(payoff', n), d),
                        NoValues(used'), [n \in DOMAIN nodes |-> n])
          /\ shockAdjoints' = [i \in DOMAIN cache |-> 0]
          /\ varianceAdjoints' = NoValues(used')
          /\ stepAdjoints' = <<>>
  /\ UNCHANGED <<pathInputs, plan, path>>

(* The step that is next in the sweep, from the last to the first.         *)
Sweep == Len(cache) - Len(stepAdjoints)
(* Mutant: the state's influence on the variance is forgotten.             *)
MutPulledBack(step, next, variance) == Mod(next * step.exponential)
PulledBack(step, next, variance) == Mod(next * step.exponential + variance * step.derivative)

ReverseStep ==
  /\ phase = "reverse" /\ Sweep > 0
  /\ LET i == Sweep
         step == cache[i]
         volatility == Root[step.variance]
         exponent == Mod(stateAdjoints[i + 1] * states[i + 1])
         diffusion == Mod(step.shock * Root[step.dt])
         variance == Mod(exponent * (Over(-step.dt, 2) + Over(diffusion, 2 * volatility)))
     IN  /\ stateAdjoints' = [stateAdjoints EXCEPT
                                ![i] = Mod(@ + PulledBack(step, stateAdjoints[i + 1], variance))]
         /\ shockAdjoints' = [shockAdjoints EXCEPT
                                ![i] = Mod(@ + exponent * volatility * Root[step.dt])]
         /\ stepAdjoints' = <<[variance |-> variance,
                               volatility |-> Mod(exponent * (diffusion - volatility * step.dt)),
                               column |-> step.interpolation.column,
                               weight |-> step.interpolation.weight]>> \o stepAdjoints
         /\ varianceAdjoints' = Deposit(step.interpolation, variance, varianceAdjoints)
  /\ UNCHANGED <<pathInputs, phase, error, plan, path, payoff, used, directAdjoints>>

Sum(a, b) == [r \in DOMAIN a |-> [c \in DOMAIN a[r] |-> Mod(a[r][c] + b[r][c])]]

FinishReverse ==
  /\ phase = "reverse" /\ Sweep = 0
  /\ directAdjoints' = Sum(directAdjoints, varianceAdjoints)
  /\ phase' = "reversed"
  /\ UNCHANGED <<pathInputs, error, plan, path, payoff, used, stateAdjoints, shockAdjoints,
                 varianceAdjoints, stepAdjoints>>

Next == RefuseSurface \/ Compile \/ Evolve \/ StartReverse \/ ReverseStep \/ FinishReverse

Spec == Init /\ [][Next]_vars
-----------------------------------------------------------------------------
TypeOK ==
  /\ phase \in {"compile", "evolve", "reverse", "reversed", "refused"}
  /\ error # "none" <=> phase = "refused"
  /\ \A n \in DOMAIN states : states[n] \in 1..Field - 1
  /\ cursor \in 1..Len(checkpoints) + 1 /\ Len(checked) = cursor - 1
  /\ phase = "evolve" => Len(states) = Len(cache) + 1

(* Every required time is a node, no step is longer than was asked for, and *)
(* none leaves its row of the surface: between two nodes the variance of a  *)
(* step is one point of one cell (LocalVolTimeGrid::compile,                *)
(* compile_local_vol_runtime).                                              *)
GridHoldsEvents ==
  phase # "compile" /\ nodes # <<>> =>
    /\ \A k \in DOMAIN Required : nodes[eventNodes[k]] = Required[k]
    /\ \A i \in 1..Len(nodes) - 1 :
         /\ Interval(i) \in 1..MaximumStep
         /\ \E r \in 1..Len(surface.times) - 1 :
              surface.times[r] <= nodes[i] /\ nodes[i + 1] <= surface.times[r + 1]

(* The walk that remembers nothing and the one that starts behind the first *)
(* step take the states of the one that remembers: "writes the same f       *)
(* states as evolve_path, bit for bit" (evolve_states,                      *)
(* interpolate_with_hints, continue_states_from_first_node).                *)
WalksAgree ==
  Len(states) > 1 =>
    /\ PriceStates(surface, states[1], ShocksOf(cache)) = states
    /\ ContinuedStates(surface, states[1], states[2], Tail(ShocksOf(cache))) = states

(* The statistics count the steps, not the nodes, that start outside.       *)
Outside(side) ==
  {i \in DOMAIN cache :
     LET x == LogMoneyness(i, states[i])
     IN  IF side = "left" THEN x < surface.xs[1] ELSE x > Last(surface.xs)}
BoundaryCounted ==
  stats.left = Cardinality(Outside("left")) /\ stats.right = Cardinality(Outside("right"))

(* Each dividend up to the expiry is checked once, in order, at its own     *)
(* node, on the state there, and both sides agree with what an observation  *)
(* at that time would see.  A dividend that is due today stands before the  *)
(* first step, and none behind it is checked (evolve_path_inner's cursor    *)
(* waits for it).                                                           *)
DividendsChecked ==
  /\ \A k \in DOMAIN checked :
       /\ checked[k].node = checkpoints[k].node /\ checked[k].state = states[checked[k].node]
       /\ LET t == nodes[checked[k].node]
          IN  /\ t = dividends[k].time
              /\ checked[k].pre = Reconstruct(PreCoordinate(t), checked[k].state)
              /\ checked[k].post = Reconstruct(PostCoordinate(t), checked[k].state)
              /\ checked[k].scale = ScaleOf(PostCoordinate(t))
  /\ (nodes # <<>> /\ Len(states) = Len(nodes)) =>
       IF 0 \in ExTimes THEN checked = <<>> ELSE Len(checked) = Len(checkpoints)

(* The payoff as a function of states and variances at the nodes; affine.   *)
PayoffOf(s, v) ==
  IF payoff.kind = "graph"
  THEN Total([k \in DOMAIN nodes |->
         LET t == nodes[k]
         IN  Mod(If(t \in trade.observed, payoff.post[t] * Reconstruct(PostCoordinate(t), s[k]))
                 + If(t \in trade.observed /\ t \in ExTimes,
                      payoff.pre[t] * Reconstruct(PreCoordinate(t), s[k])))])
  ELSE Mod(payoff.post[Last(nodes)] * Reconstruct(PostCoordinate(Last(nodes)), Last(s))
           + Total([i \in 1..Monitored(payoff) |->
               Mod(payoff.left.state * s[i] + payoff.left.variance * v[i]
                   + payoff.right.state * s[i + 1] + payoff.right.variance * v[i + 1])]))

(* How the surface moves under a path: by the slope along the cell, and by  *)
(* a value of the surface.                                                  *)
SlopeAt(n) ==
  LET q == QueryAt(used, n)
      ValueAt(c) == Interpolate(used, nodes[n], used.xs[c]).value
  IN  IF q.boundary = "inside"
      THEN Over(ValueAt(q.column + 1) - ValueAt(q.column), used.xs[q.column + 1] - used.xs[q.column])
      ELSE 0
Raised(r, c) == [used EXCEPT !.values[r][c] = Mod(@ + 1)]
ShareAt(way, n) ==
  IF way[1] = "value"
  THEN Mod(QueryAt(Raised(way[2], way[3]), n).value - QueryAt(used, n).value)
  ELSE 0

Ways ==
  {<<"start">>} \cup ({"shock", "step"} \X DOMAIN cache)
    \cup {<<"value", r, c>> : r \in DOMAIN used.times, c \in DOMAIN used.xs}

(* Forwards along the path: how states and variances move when the start,   *)
(* a shock, the variance of one step or a value of the surface does, given  *)
(* how the variance at each node follows the state.                         *)
Tangents(way, rates) ==
  LET VarianceMove(n, move) == Mod(rates[n] * move + ShareAt(way, n))
      Move(n, move) ==
        LET root == Root[cache[n].dt]
            volatility == Root[cache[n].variance]
            moved == VarianceMove(n, move) + If(way = <<"step", n>>, 1)
            shocked == If(way = <<"shock", n>>, 1)
            exponent == Over(-cache[n].dt * moved, 2)
                        + root * (volatility * shocked
                                  + Over(cache[n].shock * moved, 2 * volatility))
        IN  Mod(move * cache[n].exponential + states[n + 1] * Mod(exponent))
      moves == FoldLeft(LAMBDA m, n : Append(m, Move(n, Last(m))),
                        <<If(way = <<"start">>, 1)>>, [n \in DOMAIN cache |-> n])
  IN  [states |-> moves, variances |-> [n \in DOMAIN nodes |-> VarianceMove(n, moves[n])]]

Derivatives ==
  LET rates == [n \in DOMAIN nodes |-> Over(SlopeAt(n), states[n])]
      variances == [n \in DOMAIN nodes |-> QueryAt(used, n).value]
      paid == PayoffOf(states, variances)
  IN  [way \in Ways |->
         LET moves == Tangents(way, rates)
         IN  Mod(PayoffOf([n \in DOMAIN nodes |-> states[n] + moves.states[n]],
                          [n \in DOMAIN nodes |-> variances[n] + moves.variances[n]])
                 - paid)]

AdjointOf(way) ==
  CASE way[1] = "start" -> stateAdjoints[1]
    [] way[1] = "shock" -> shockAdjoints[way[2]]
    [] way[1] = "step" -> stepAdjoints[way[2]].variance
    [] way[1] = "value" -> directAdjoints[way[2]][way[3]]

(* The reverse sweep gives the derivative of the payoff with respect to the *)
(* start, every shock, the variance of every step and every value of the    *)
(* surface: direct influence and the influence through later states once    *)
(* each (reverse_path_with_variance_seeds, reverse_state_adjoints).         *)
ReverseIsTranspose ==
  phase = "reversed" => Derivatives = [way \in Ways |-> AdjointOf(way)]

(* A path is differentiated only on a surface on which it would have been   *)
(* walked the same, and is refused only if it was walked on another         *)
(* (validate_cached_path).                                                  *)
StalePathsRefused ==
  /\ error = "CachedPathMismatch" => used # surface
  /\ phase = "reverse" /\ Sweep = Len(cache) => PriceStates(used, states[1], ShocksOf(cache)) = states

(* accumulate_local_volatility_nodes: the volatility of a step, on the      *)
(* nodes beside it; it is the variance's adjoint at that volatility.        *)
Accumulated(step) ==
  [c \in DOMAIN used.xs |->
     IF c = step.column THEN Mod(step.volatility * (1 - step.weight))
     ELSE IF c = step.column + 1 THEN Mod(step.volatility * step.weight) ELSE 0]
StepsRecover ==
  phase \in {"reverse", "reversed"} =>
    \A k \in DOMAIN stepAdjoints :
      LET step == cache[Sweep + k]
      IN  /\ Total(Accumulated(stepAdjoints[k])) = stepAdjoints[k].volatility
          /\ stepAdjoints[k].volatility = Mod(2 * Root[step.variance] * stepAdjoints[k].variance)

(* A path is the same however it is walked, on a grid that fits.            *)
PathsAgree ==
  /\ TypeOK
  /\ GridHoldsEvents
  /\ WalksAgree
  /\ BoundaryCounted
  /\ DividendsChecked

(* Its adjoints are derivatives, of the path on the surface it was walked.  *)
ReverseAgrees ==
  /\ ReverseIsTranspose
  /\ StalePathsRefused
  /\ StepsRecover
=============================================================================
