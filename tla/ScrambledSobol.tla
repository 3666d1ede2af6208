--------------------------- MODULE ScrambledSobol ---------------------------
(***************************************************************************)
(* A price by randomized quasi-Monte Carlo: the directions and scrambles   *)
(* of a request are compiled (engine/sampling/qmc.rs), then every point of *)
(* every scramble is turned into normals and evaluated, and the replicates *)
(* are averaged (engine/risk/valuation.rs).                                *)
(*                                                                         *)
(* A word is the set of the positions of its ones, counted from the most   *)
(* significant bit.  A normal is an odd integer, ordered as the midpoints  *)
(* of the unit interval are, and symmetric about zero.  The payoff of a    *)
(* request is the indicator of a box of normals.                           *)
(***************************************************************************)
EXTENDS Integers, Sequences, FiniteSets, SequencesExt, FiniteSetsExt

CONSTANTS
  Bits,        \* SOBOL_BITS, the width of a word
  Directions,  \* the direction words of each dimension, and so MAX_SOBOL_DIMENSION
  Philox,      \* what the generator of each seed returns for a <<path, dimension>>
               \* of the RqmcScramble domain
  Requests     \* [points, scrambles, seed, dimension, antithetic, box, flat]

VARIABLES
  request, phase, error,
  table,       \* the scrambles, one scramble after the other
  entry,       \* <<scramble, dimension>> to be compiled next
  scramble, point,
  normals,     \* of the point evaluated last
  sum,         \* of the values of the scramble so far, in halves
  replicates   \* the sums of the scrambles that are done

vars == <<request, phase, error, table, entry, scramble, point, normals, sum, replicates>>

Columns == 0..Bits - 1
Parity(S) == Cardinality(S) % 2
MaxDimension == Len(Directions)
Drawn(path, dimension) == Philox[request.seed][<<path, dimension>>]

(* Sobol32::word.  The Gray code of a point counts its bits from the least *)
(* significant one.                                                        *)
GrayCode(p) == {b \in Columns : (p \div 2^b) % 2 # (p \div 2^(b + 1)) % 2}
SobolWord(dimension, p) ==
  {i \in Columns : Parity({b \in GrayCode(p) : i \in Directions[dimension + 1][b + 1]}) = 1}

(* Scramble32::apply.                                                      *)
Apply(s, word) == SymDiff({i \in Columns : Parity(word \cap s.rows[i]) = 1}, s.shift)

(* compile_scramble: a row keeps the columns before the diagonal, and the  *)
(* diagonal is set.                                                        *)
Row(raw, row) == {i \in raw : i < row} \cup {row}

(* Mutant: the block of a dimension begins at its number.                  *)
MutBlock(dimension) == dimension
Block(dimension) == dimension * Bits
CompileScramble(s, dimension) ==
  [shift |-> Drawn(s, Block(dimension)),
   rows |-> [row \in Columns |-> Row(Drawn(s, Block(dimension) + row), row)]]

TableIndex(s, dimension) == s * request.dimension + dimension + 1
-----------------------------------------------------------------------------
Init ==
  /\ request \in Requests
  /\ phase = "requested" /\ error = "none"
  /\ table = <<>> /\ entry = <<0, 0>>
  /\ scramble = 0 /\ point = 0 /\ normals = <<>> /\ sum = 0 /\ replicates = <<>>

(* RqmcConfig::new and the checks of RqmcPlan::compile.                    *)
PowerOfTwo(n) == \E k \in 0..Bits : n = 2^k

PointsRefused(n) == n = 0 \/ ~PowerOfTwo(n) \/ n > 2^Bits

Refusal ==
  IF PointsRefused(request.points) THEN "InvalidSobolPointCount"
  ELSE IF request.scrambles = 0 THEN "ZeroScrambleCount"
  ELSE IF request.dimension = 0 THEN "ZeroEffectiveDimension"
  ELSE IF request.dimension > MaxDimension THEN "DimensionLimitExceeded"
  ELSE "none"

Refuse ==
  /\ phase = "requested" /\ Refusal # "none"
  /\ phase' = "failed" /\ error' = Refusal
  /\ UNCHANGED <<request, table, entry, scramble, point, normals, sum, replicates>>

Accept ==
  /\ phase = "requested" /\ Refusal = "none"
  /\ phase' = "compile"
  /\ UNCHANGED <<request, error, table, entry, scramble, point, normals, sum, replicates>>

CompileEntry ==
  /\ phase = "compile" /\ entry[1] < request.scrambles
  /\ table' = Append(table, CompileScramble(entry[1], entry[2]))
  /\ entry' = IF entry[2] + 1 < request.dimension THEN <<entry[1], entry[2] + 1>>
              ELSE <<entry[1] + 1, 0>>
  /\ UNCHANGED <<request, phase, error, scramble, point, normals, sum, replicates>>

StartScrambles ==
  /\ phase = "compile" /\ entry[1] = request.scrambles
  /\ phase' = "evaluate"
  /\ UNCHANGED <<request, error, table, entry, scramble, point, normals, sum, replicates>>

(* RqmcPlan::word, and rqmc_normals; without variance every normal is zero.*)
PlanWord(dimension) ==
  Apply(table[TableIndex(scramble, dimension)], SobolWord(dimension, point))

Value(word) == Cardinality({<<i, n>> \in word \X (1..2^Bits) : n <= 2^(Bits - 1 - i)})
Normal(word) == 2 * Value(word) + 1 - 2^Bits

RqmcNormals ==
  [d \in 1..request.dimension |-> IF request.flat THEN 0 ELSE Normal(PlanWord(d - 1))]

(* The payoff: one inside the box, whose side in a dimension is one of the *)
(* 2^depth equal intervals.                                                *)
InSide(side, x) ==
  LET width == 2^(Bits - side.depth)
      low == 2 * side.number * width - 2^Bits
  IN  low <= x /\ x < low + 2 * width

Payoff(x) == IF \A d \in DOMAIN x : InSide(request.box[d], x[d]) THEN 1 ELSE 0

Mate(x) == [d \in DOMAIN x |-> -x[d]]
InHalves(x) == IF request.antithetic THEN Payoff(x) + Payoff(Mate(x)) ELSE 2 * Payoff(x)

EvaluatePoint ==
  /\ phase = "evaluate" /\ scramble < request.scrambles /\ point < request.points
  /\ normals' = RqmcNormals
  /\ sum' = sum + InHalves(normals')
  /\ point' = point + 1
  /\ UNCHANGED <<request, phase, error, table, entry, scramble, replicates>>

FinishScramble ==
  /\ phase = "evaluate" /\ scramble < request.scrambles /\ point = request.points
  /\ replicates' = Append(replicates, sum)
  /\ scramble' = scramble + 1
  /\ point' = 0 /\ sum' = 0
  /\ UNCHANGED <<request, phase, error, table, entry, normals>>

(* The sampling variance is over the scrambles, of which there must be two *)
(* unless the variance is known to be zero.                                *)
Finish ==
  /\ phase = "evaluate" /\ scramble = request.scrambles
  /\ IF request.flat \/ Len(replicates) > 1
     THEN phase' = "priced" /\ UNCHANGED error
     ELSE phase' = "failed" /\ error' = "InsufficientSamplingUnits"
  /\ UNCHANGED <<request, table, entry, scramble, point, normals, sum, replicates>>

Next ==
  \/ Refuse
  \/ Accept
  \/ CompileEntry
  \/ StartScrambles
  \/ EvaluatePoint
  \/ FinishScramble
  \/ Finish

Spec == Init /\ [][Next]_vars
-----------------------------------------------------------------------------
(* Types, and that no point is asked for outside the compiled table.       *)
TypeOK ==
  /\ phase \in {"requested", "compile", "evaluate", "priced", "failed"}
  /\ (error # "none") <=> (phase = "failed")
  /\ \A n \in DOMAIN table : table[n].shift \subseteq Columns
  /\ phase = "evaluate" => Len(table) = request.scrambles * request.dimension
  /\ \A d \in DOMAIN normals : normals[d] \in 1 - 2^Bits..2^Bits - 1

(* Scrambling is nested: two words agree in their first bits exactly when  *)
(* their scrambled words do, so that the intervals of every depth are      *)
(* permuted among themselves (compile_scramble, Scramble32::apply).        *)
First(word, k) == {i \in word : i < k}
ScramblingIsNested ==
  \A n \in DOMAIN table : \A v, w \in SUBSET Columns : \A k \in 1..Bits :
    (First(v, k) = First(w, k)) <=> (First(Apply(table[n], v), k) = First(Apply(table[n], w), k))

(* What each point must be: bit i of its word in a dimension is bit i of   *)
(* the Sobol word, a random bit of its own and, for each earlier bit that  *)
(* is one, a random bit of that pair; no random bit serves two dimensions  *)
(* or two scrambles.                                                       *)
Reference(s, p, d, i) ==
  LET word == SobolWord(d, p)
      random == {j \in 0..i - 1 : j \in word /\ j \in Drawn(s, d * Bits + i)}
  IN  (Parity(random) + (IF i \in word THEN 1 ELSE 0)
         + (IF i \in Drawn(s, d * Bits) THEN 1 ELSE 0)) % 2 = 1

PointsUseOwnRandomness ==
  phase = "evaluate" /\ point > 0 /\ ~request.flat =>
    \A d \in DOMAIN normals :
      normals[d] = Normal({i \in Columns : Reference(scramble, point - 1, d - 1, i)})

(* Each replicate prices the indicator of an elementary box exactly: of    *)
(* its points, one in 2^depth lies in the box, whatever the scramble, and  *)
(* the antithetic mates of the points keep that.                           *)
Depth == FoldLeft(LAMBDA total, side : total + side.depth, 0, request.box)
ReplicatesAreExact ==
  ~request.flat /\ 2^Depth <= request.points =>
    \A n \in DOMAIN replicates : replicates[n] * 2^Depth = 2 * request.points

(* What is drawn: points of the sequence, scrambled by bits of their own   *)
(* that keep the intervals of every depth together.                        *)
PointsAreScrambled ==
  /\ TypeOK
  /\ ScramblingIsNested
  /\ PointsUseOwnRandomness
  /\ ReplicatesAreExact
=============================================================================
