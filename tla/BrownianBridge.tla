--------------------------- MODULE BrownianBridge ---------------------------
(***************************************************************************)
(* BrownianBridgePlan (engine/sampling/bridge.rs): a time grid compiled    *)
(* into instructions, the forward transform from independent normals to    *)
(* normalized increments, and its transpose for the reverse sweep.         *)
(*                                                                         *)
(* Times are whole ticks.  A Brownian value is the linear form of the      *)
(* normals it is made of: the coefficient of each Sobol dimension, in      *)
(* units of 1 / Scale of the standard deviation of the instruction that    *)
(* read it; so forms are exact, and squares of deviations are fractions.   *)
(***************************************************************************)
EXTENDS Integers, Sequences, FiniteSets
LOCAL INSTANCE Functions

CONSTANTS
  Grids,             \* the grids compile may be called with
  FactorCounts,      \* the numbers of Brownian factors
  Precisions,        \* a variance below 1 / precision rounds to zero
  NonFinite,         \* a time that is infinite or NaN
  MaxWord,           \* the largest u32
  MaxSobolDimension, \* RqmcConfig::MAX_SOBOL_DIMENSION
  Scale              \* a common multiple of the denominators of the weights

ASSUME BridgeAssumption ==
  /\ FactorCounts \subseteq Nat /\ Precisions \subseteq Nat \ {0}
  /\ \A g \in Grids : IsFiniteSet(DOMAIN g) /\ DOMAIN g = 0..Cardinality(DOMAIN g) - 1
  /\ \A g \in Grids : \A i \in DOMAIN g : g[i] # NonFinite => g[i] \in Int
  /\ MaxWord \in Nat /\ MaxSobolDimension \in Nat /\ Scale \in Nat \ {0}

VARIABLES
  times, factors, precision,  \* the arguments of compile
  phase,         \* what the plan is used for now
  error,         \* why compile was refused
  heap,          \* BinaryHeap<IntervalCandidate>
  instructions,  \* the instructions emitted
  at,            \* instructions executed, forward, or still to do, in reverse
  factor,        \* the factor the forward transform is at
  values,        \* brownian_values: one form per node
  increments,    \* the forms of the increments written
  seed,          \* the increment whose adjoint the reverse sweep propagates
  valueAdjoints, normalAdjoints

compiled == <<times, factors, precision>>
plan == <<times, factors, precision, error, heap, instructions>>
forward == <<factor, values, increments>>
reverse == <<seed, valueAdjoints, normalAdjoints>>
vars == <<times, factors, precision, phase, error, heap, instructions, at,
          factor, values, increments, seed, valueAdjoints, normalAdjoints>>

Intervals == Cardinality(DOMAIN times) - 1
Terminal == Intervals
EffectiveDimension == Intervals * factors
DimensionAt(rank, f) == rank * factors + f
-----------------------------------------------------------------------------
(* validate_times, and the checks of compile, in the order of the code.    *)
Refusal ==
  IF Intervals < 1 THEN "TooFewTimeNodes"
  ELSE IF \E i \in DOMAIN times : times[i] = NonFinite THEN "NonFiniteTime"
  ELSE IF times[0] # 0 THEN "NonZeroStart"
  ELSE IF \E i \in 1..Intervals : times[i] <= times[i - 1] THEN "NonIncreasingTime"
  ELSE IF factors = 0 THEN "ZeroFactorCount"
  ELSE IF EffectiveDimension > MaxWord THEN "DimensionOverflow"
  ELSE IF EffectiveDimension > MaxSobolDimension THEN "SobolDimensionLimitExceeded"
  ELSE "none"

Candidate(l, n, r) ==
  [node |-> n, left |-> l, right |-> r,
   up |-> (times[n] - times[l]) * (times[r] - times[n]), down |-> times[r] - times[l]]

RoundsToZero(c) == c.up * precision < c.down

(* Ord of IntervalCandidate: variance, then the earlier time (the node     *)
(* breaks no tie: times increase).                                         *)
MutAbove(c, d) ==                   \* Mutant: the later of equals first
  \/ c.up * d.down > d.up * c.down
  \/ c.up * d.down = d.up * c.down /\ times[c.node] > times[d.node]

Above(c, d) ==
  \/ c.up * d.down > d.up * c.down
  \/ c.up * d.down = d.up * c.down /\ times[c.node] < times[d.node]

(* interval_candidate: none when the interval has no inner node.           *)
Inner(l, r) == {Candidate(l, n, r) : n \in l + 1..r - 1}
Unusable(l, r) == \E c \in Inner(l, r) : RoundsToZero(c)
IntervalBest(l, r) == {c \in Inner(l, r) : \A d \in Inner(l, r) : c = d \/ Above(c, d)}

TerminalInstruction == [kind |-> "terminal", node |-> Terminal, rank |-> 0,
                        up |-> times[Terminal], down |-> 1]

InteriorInstruction(c) == [kind |-> "interior", node |-> c.node, left |-> c.left,
                           right |-> c.right, rank |-> Len(instructions),
                           up |-> c.up, down |-> c.down]
-----------------------------------------------------------------------------
NoForms == [i \in {} |-> 0]

Init ==
  /\ times \in Grids /\ factors \in FactorCounts /\ precision \in Precisions
  /\ phase = "validate" /\ error = "none"
  /\ heap = {} /\ instructions = <<>> /\ at = 0
  /\ factor = 0 /\ values = NoForms /\ increments = NoForms
  /\ seed = 0 /\ valueAdjoints = NoForms /\ normalAdjoints = NoForms

Reject(why) ==
  /\ phase' = "failed" /\ error' = why
  /\ heap' = {} /\ instructions' = <<>>
  /\ UNCHANGED <<compiled, at, forward, reverse>>

Invalid ==
  /\ phase = "validate"
  /\ Refusal # "none"
  /\ Reject(Refusal)

Vanishing == "InvalidConditionalVariance"

(* compile_instructions up to its loop.                                    *)
StartCompile ==
  /\ phase = "validate"
  /\ Refusal = "none"
  /\ IF Unusable(0, Terminal) THEN Reject(Vanishing)
     ELSE /\ phase' = "compile"
          /\ instructions' = <<TerminalInstruction>>
          /\ heap' = IntervalBest(0, Terminal)
          /\ UNCHANGED <<compiled, error, at, forward, reverse>>

(* Mutant: the interval to the right of the new node is not looked at.     *)
MutSplit(c) ==
  /\ phase = "compile"
  /\ \A d \in heap : c = d \/ Above(c, d)
  /\ IF Unusable(c.left, c.node) THEN Reject(Vanishing)
     ELSE /\ instructions' = Append(instructions, InteriorInstruction(c))
          /\ heap' = (heap \ {c}) \cup IntervalBest(c.left, c.node)
          /\ UNCHANGED <<compiled, phase, error, at, forward, reverse>>

Split(c) ==
  /\ phase = "compile"
  /\ \A d \in heap : c = d \/ Above(c, d)
  /\ IF Unusable(c.left, c.node) \/ Unusable(c.node, c.right) THEN Reject(Vanishing)
     ELSE /\ instructions' = Append(instructions, InteriorInstruction(c))
          /\ heap' = (heap \ {c}) \cup IntervalBest(c.left, c.node)
                                  \cup IntervalBest(c.node, c.right)
          /\ UNCHANGED <<compiled, phase, error, at, forward, reverse>>

ZeroForm == [d \in 0..EffectiveDimension - 1 |-> 0]
ZeroValues == [n \in DOMAIN times |-> ZeroForm]

StartApply ==
  /\ phase = "compile"
  /\ heap = {}
  /\ phase' = "apply"
  /\ values' = ZeroValues
  /\ UNCHANGED <<plan, at, factor, increments, reverse>>
-----------------------------------------------------------------------------
(* apply: for each factor, its normals are picked out, apply_one_factor    *)
(* runs the instructions, and its increments are written interleaved.      *)
Weight(x, numerator, i) == (x * numerator) \div (times[i.right] - times[i.left])
LeftWeight(x, i) == Weight(x, times[i.right] - times[i.node], i)
RightWeight(x, i) == Weight(x, times[i.node] - times[i.left], i)

(* Mutant: the weights of the neighbours are swapped.                      *)
MutConditional(i, d) ==
  RightWeight(values[i.left][d], i) + LeftWeight(values[i.right][d], i)

Conditional(i, d) ==
  LeftWeight(values[i.left][d], i) + RightWeight(values[i.right][d], i)

ValueOf(i) ==
  [d \in DOMAIN ZeroForm |->
     (IF i.kind = "interior" THEN Conditional(i, d) ELSE 0)
       + (IF d = DimensionAt(i.rank, factor) THEN Scale ELSE 0)]

ApplyInstruction ==
  /\ phase = "apply"
  /\ at < Len(instructions)
  /\ LET i == instructions[at + 1]
     IN  values' = [values EXCEPT ![i.node] = ValueOf(i)]
  /\ at' = at + 1
  /\ UNCHANGED <<plan, phase, factor, increments, reverse>>

Difference(k) == [d \in DOMAIN ZeroForm |-> values[k + 1][d] - values[k][d]]

IncrementSlot(k, f) == k * factors + f

FactorIncrements ==
  [s \in {IncrementSlot(k, factor) : k \in 0..Intervals - 1} |->
     Difference(CHOOSE k \in 0..Intervals - 1 : IncrementSlot(k, factor) = s)]

FinishFactor ==
  /\ phase = "apply"
  /\ at = Len(instructions)
  /\ increments' = [s \in DOMAIN increments \cup DOMAIN FactorIncrements |->
       IF s \in DOMAIN FactorIncrements THEN FactorIncrements[s] ELSE increments[s]]
  /\ at' = 0
  /\ IF factor + 1 < factors
     THEN /\ factor' = factor + 1 /\ values' = ZeroValues /\ UNCHANGED phase
     ELSE /\ phase' = "applied" /\ UNCHANGED <<factor, values>>
  /\ UNCHANGED <<plan, reverse>>
-----------------------------------------------------------------------------
(* reverse_one_factor, for the adjoint of one increment k.                 *)
StartReverse(k) ==
  /\ phase = "applied"
  /\ phase' = "reverse"
  /\ seed' = k
  /\ valueAdjoints' = [n \in DOMAIN times |->
                         IF n = k THEN -Scale ELSE IF n = k + 1 THEN Scale ELSE 0]
  /\ normalAdjoints' = [r \in 0..Intervals - 1 |-> 0]
  /\ at' = Len(instructions)
  /\ UNCHANGED <<plan, forward>>

ReverseInstruction ==
  /\ phase = "reverse"
  /\ at > 0
  /\ LET i == instructions[at]
         adjoint == valueAdjoints[i.node]
     IN  /\ normalAdjoints' = [normalAdjoints EXCEPT ![i.rank] = @ + adjoint]
         /\ valueAdjoints' =
              IF i.kind = "interior"
              THEN [valueAdjoints EXCEPT ![i.left] = @ + LeftWeight(adjoint, i),
                                         ![i.right] = @ + RightWeight(adjoint, i)]
              ELSE valueAdjoints
  /\ at' = at - 1
  /\ UNCHANGED <<plan, phase, forward, seed>>

FinishReverse ==
  /\ phase = "reverse"
  /\ at = 0
  /\ phase' = "reversed"
  /\ UNCHANGED <<plan, at, forward, reverse>>

Next ==
  \/ Invalid
  \/ StartCompile
  \/ \E c \in heap : Split(c)
  \/ StartApply
  \/ ApplyInstruction
  \/ FinishFactor
  \/ \E k \in 0..Intervals - 1 : StartReverse(k)
  \/ ReverseInstruction
  \/ FinishReverse

Spec == Init /\ [][Next]_vars /\ WF_vars(Next)
-----------------------------------------------------------------------------
Filled(upTo) == {0} \cup {instructions[j].node : j \in 1..upTo}

(* Forms and adjoints are over the dimensions, ranks and nodes of the      *)
(* plan; the weights applied next leave no remainder, so that forms are    *)
(* exact.                                                                  *)
TypeOK ==
  /\ phase \in {"validate", "compile", "apply", "applied", "reverse", "reversed", "failed"}
  /\ error # "none" <=> phase = "failed"
  /\ \A c \in heap : c \in Inner(c.left, c.right)
  /\ \A j \in DOMAIN instructions :
       instructions[j].node \in 1..Terminal /\ instructions[j].rank \in 0..Intervals - 1
  /\ at \in 0..Len(instructions)
  /\ phase = "apply" /\ at < Len(instructions) =>
       LET i == instructions[at + 1]
       IN  i.kind = "interior" => \A d \in DOMAIN ZeroForm :
             /\ (values[i.left][d] * (times[i.right] - times[i.node])) % i.down = 0
             /\ (values[i.right][d] * (times[i.node] - times[i.left])) % i.down = 0

(* The instruction at any place reads the nearest filled nodes on both     *)
(* sides of a node not filled before, and a normal not read before: the    *)
(* forward sweep never reads an unset value, nor the reverse sweep an      *)
(* adjoint that is still to grow (bridge.rs:300, 355).                     *)
ReadsFilledNodes ==
  \A j \in DOMAIN instructions :
    LET i == instructions[j] IN
    /\ i.node \notin Filled(j - 1)
    /\ \A k \in 1..j - 1 : instructions[k].rank # i.rank
    /\ i.kind = "interior" => /\ {i.left, i.right} \subseteq Filled(j - 1)
                              /\ i.left < i.node /\ i.node < i.right
                              /\ \A n \in Filled(j - 1) : n <= i.left \/ n >= i.right

(* While the plan is compiled, the heap holds exactly one candidate for    *)
(* every gap between neighbouring filled nodes.                            *)
HeapCoversGaps ==
  phase = "compile" =>
    LET filled == Filled(Len(instructions))
        gaps == {g \in filled \X filled : /\ g[1] + 1 < g[2]
                                          /\ \A n \in filled : n <= g[1] \/ n >= g[2]}
    IN  /\ {<<c.left, c.right>> : c \in heap} = gaps
        /\ Cardinality(heap) = Cardinality(gaps)

(* The plan that apply and reverse_one_factor run, with arrays sized by    *)
(* the grid and not by the plan, fills every node, so that no Brownian     *)
(* value is left at the zero it started from, and has one normal for each  *)
(* interval, however the heap has cut the grid up (bridge.rs:280, 325,     *)
(* 335, 398); and it gets there through the two properties above.          *)
Complete ==
  phase \notin {"validate", "compile", "failed"} =>
    /\ Filled(Len(instructions)) = DOMAIN times
    /\ {instructions[j].rank : j \in DOMAIN instructions} = 0..Intervals - 1
    /\ Len(instructions) = Intervals

PlanFillsGrid ==
  /\ ReadsFilledNodes
  /\ HeapCoversGaps
  /\ Complete

(* After apply, the increments of all intervals and factors are            *)
(* uncorrelated, and each has the length of its interval as its variance   *)
(* (the code divides each by the square root of it): the transform only    *)
(* redistributes the normals.                                              *)
Squared(d) == LET i == instructions[(d \div factors) + 1] IN <<i.up, i.down>>
Common == 60   \* a multiple of the denominators of the variances

Covariance(s, t) ==
  SumFunction([d \in DOMAIN ZeroForm |->
    (increments[s][d] * increments[t][d] * Squared(d)[1] * (Common \div Squared(d)[2]))])

IncrementsIndependent ==
  phase = "applied" => \A s, t \in 0..EffectiveDimension - 1 :
    Covariance(s, t) =
      IF s = t THEN Common * Scale * Scale * (times[s \div factors + 1] - times[s \div factors])
      ELSE 0

(* The reverse sweep is the transpose of the forward one: the adjoint of   *)
(* each normal is its coefficient in the increment that was seeded.        *)
ReverseTransposes ==
  phase = "reversed" => \A r \in 0..Intervals - 1 :
    normalAdjoints[r] = increments[IncrementSlot(seed, factor)][DimensionAt(r, factor)]

(* What a plan is for: it turns independent normals into independent       *)
(* increments and their adjoints back, whatever the grid.                  *)
TransformKeepsNormals ==
  /\ TypeOK
  /\ IncrementsIndependent
  /\ ReverseTransposes

(* Compiling implements the greedy choice over all nodes: a heap of one    *)
(* best candidate per gap finds the best node of the whole grid, and it    *)
(* ends, completed or refused.                                             *)
Greedy == INSTANCE GreedyBridge WITH
  accepted <- Refusal = "none",
  order <- [j \in DOMAIN instructions |-> instructions[j].node],
  status <- IF Refusal # "none" \/ phase = "failed" THEN "refused"
            ELSE IF phase = "validate" \/ heap # {} THEN "choosing" ELSE "complete"

ChoosesGreedily == Greedy!Spec
=============================================================================
