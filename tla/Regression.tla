----------------------------- MODULE Regression -----------------------------
(***************************************************************************)
(* The regression behind an exercise date (engine/mc/lsm.rs,               *)
(* fit_polynomial_regression and fit_cpqr): columns that depend on a       *)
(* constant feature are set aside, the others are reduced by Householder   *)
(* reflections with column pivoting, columns past the numerical rank get   *)
(* coefficient zero, and the parts can be read back (from_replay_parts).   *)
(*                                                                         *)
(* The reduced matrix appears through the inner products of its columns,   *)
(* the target being the last one: a reflection keeps them all, so that the *)
(* trailing parts of two columns have the inner product that is left when  *)
(* the pivot's share is taken off.  Row p of "gram" then holds the p-th    *)
(* row of R times its diagonal.  Numbers are exact fractions; tolerances   *)
(* are squared.  The features of a sample are those after scaling.         *)
(***************************************************************************)
EXTENDS PolynomialBasis, FiniteSets, TLC

CONSTANT Samples  \* [rows, features, degree, target, absTol, relTol, maxColumns, maxElements]

VARIABLES
  sample, phase, error,
  active, preExcluded,   \* basis columns, in order
  gram, permutation,     \* inner products, and the active column at each position
  diagonal, rank,
  coefficients

vars == <<sample, phase, error, active, preExcluded, gram, permutation, diagonal, rank,
          coefficients>>
-----------------------------------------------------------------------------
(* Fractions <<n, d>> in lowest terms.                                     *)
Abs(n) == IF n < 0 THEN -n ELSE n
Divisor == LET gcd[a \in Nat, b \in Nat] == IF b = 0 THEN a ELSE gcd[b, a % b] IN gcd
Frac(n, d) ==
  LET g == Divisor[Abs(n), Abs(d)] * (IF d < 0 THEN -1 ELSE 1) IN <<n \div g, d \div g>>
Zero == <<0, 1>>
Minus(x, y) == Frac(x[1] * y[2] - y[1] * x[2], x[2] * y[2])
Times(x, y) == Frac(x[1] * y[1], x[2] * y[2])
Over(x, y) == Frac(x[1] * y[2], x[2] * y[1])
Less(x, y) == x[1] * y[2] < y[1] * x[2]
-----------------------------------------------------------------------------
Features == sample.features
Basis == Exponents(Features, sample.degree)
AllColumns == 1..Len(Basis)
RowCount == Len(sample.rows)
Inactive(f) == \A r, s \in 1..RowCount : sample.rows[r][f] = sample.rows[s][f]
Standardized(r) == [f \in 1..Features |-> IF Inactive(f) THEN 0 ELSE sample.rows[r][f]]

DependsOnInactive(column) ==
  \E f \in 1..Features : Basis[column][f] # 0 /\ Inactive(f)

Position == Len(diagonal) + 1
Positions == 1..Len(permutation)
TargetColumn == Len(permutation) + 1

Init ==
  /\ sample \in Samples
  /\ phase = "requested" /\ error = "none"
  /\ active = <<>> /\ preExcluded = <<>>
  /\ gram = <<>> /\ permutation = <<>> /\ diagonal = <<>> /\ rank = 0
  /\ coefficients = <<>>

Fail(why) ==
  /\ phase' = "failed" /\ error' = why
  /\ UNCHANGED <<sample, active, preExcluded, gram, permutation, diagonal, rank,
                 coefficients>>

Refusal ==
  IF sample.maxColumns = 0 THEN "ZeroResourceLimit"
  ELSE IF ColumnCount(Features, sample.degree) > sample.maxColumns THEN "BasisLimitExceeded"
  ELSE IF RowCount = 0 THEN "ZeroMatrixRows"
  ELSE IF RowCount > sample.maxElements THEN "MatrixElementLimitExceeded"
  ELSE "none"

Refuse == phase = "requested" /\ Refusal # "none" /\ Fail(Refusal)

(* The partition of the basis columns.                                     *)
Partition ==
  /\ phase = "requested" /\ Refusal = "none"
  /\ preExcluded' = SelectSeq([c \in AllColumns |-> c], DependsOnInactive)
  /\ active' = SelectSeq([c \in AllColumns |-> c], LAMBDA c : ~DependsOnInactive(c))
  /\ phase' = "partitioned"
  /\ UNCHANGED <<sample, error, gram, permutation, diagonal, rank, coefficients>>

(* The design matrix, and after its columns the target.                    *)
Entry(r, c) ==
  IF c > Len(active) THEN sample.target[r] ELSE Monomial(Standardized(r), Basis[active[c]])
Inner(c, d) == FoldLeft(LAMBDA total, r : total + Entry(r, c) * Entry(r, d), 0, [r \in 1..RowCount |-> r])

Design ==
  /\ phase = "partitioned"
  /\ IF RowCount * Len(active) > sample.maxElements THEN Fail("MatrixElementLimitExceeded")
     ELSE /\ gram' = [c \in 1..Len(active) + 1 |-> [d \in 1..Len(active) + 1 |-> Frac(Inner(c, d), 1)]]
          /\ permutation' = [c \in DOMAIN active |-> c]
          /\ phase' = "reduce"
          /\ UNCHANGED <<sample, error, active, preExcluded, diagonal, rank,
                         coefficients>>

(* The column of the largest norm, and of those the first in the original  *)
(* order.                                                                  *)
Selected(p) ==
  CHOOSE c \in p..Len(permutation) :
    \A d \in p..Len(permutation) :
      \/ Less(gram[d][d], gram[c][c])
      \/ gram[d][d] = gram[c][c] /\ permutation[c] <= permutation[d]

Swap(p, q, i) == IF i = p THEN q ELSE IF i = q THEN p ELSE i

(* The reflection: columns past p lose their share along the pivot.        *)
Reflect(g, p) ==
  IF g[p][p] = Zero THEN g
  ELSE [i \in DOMAIN g |-> [j \in DOMAIN g |->
         IF i > p /\ j > p THEN Minus(g[i][j], Over(Times(g[p][i], g[p][j]), g[p][p])) ELSE g[i][j]]]

DiagonalCount == IF RowCount < Len(permutation) THEN RowCount ELSE Len(permutation)

Pivot ==
  /\ phase = "reduce" /\ Len(diagonal) < DiagonalCount
  /\ \E q \in {Selected(Position)} :
     \E swapped \in {[i \in DOMAIN gram |-> [j \in DOMAIN gram |->
                       gram[Swap(Position, q, i)][Swap(Position, q, j)]]]} :
       /\ gram' = Reflect(swapped, Position)
       /\ permutation' = [i \in Positions |-> permutation[Swap(Position, q, i)]]
       /\ diagonal' = Append(diagonal, swapped[Position][Position])
  /\ UNCHANGED <<sample, phase, error, active, preExcluded, rank, coefficients>>

(* The leading diagonals above both tolerances.                            *)
Large(d) ==
  /\ Less(sample.absTol, d)
  /\ Less(Times(sample.relTol, diagonal[1]), d)

Rank == Cardinality({n \in DOMAIN diagonal : \A k \in 1..n : Large(diagonal[k])})

FixRank ==
  /\ phase = "reduce" /\ Len(diagonal) = DiagonalCount
  /\ rank' = Rank
  /\ phase' = "solve"
  /\ UNCHANGED <<sample, error, active, preExcluded, gram, permutation, diagonal, coefficients>>

(* Back substitution within the rank, from the last row of R.              *)
Substitute(solved, row) ==
  LET Take(left, c) == Minus(left, Times(gram[row][c], solved[c]))
      right == FoldLeft(Take, gram[row][TargetColumn], [k \in 1..rank - row |-> row + k])
  IN  [solved EXCEPT ![row] = Over(right, gram[row][row])]
PivotCoefficients ==
  FoldLeft(Substitute, [i \in Positions |-> Zero], [k \in 1..rank |-> rank + 1 - k])

(* The coefficients in the order of the basis; a column left out has zero. *)
(* Mutant: they stay in pivot order.                                       *)
MutColumnAt(i) == active[i]
ColumnAt(i) == active[permutation[i]]

Solve ==
  /\ phase = "solve"
  /\ \E solved \in {PivotCoefficients} :
       coefficients' = [c \in AllColumns |-> IF \E i \in Positions : ColumnAt(i) = c
                                         THEN solved[CHOOSE i \in Positions : ColumnAt(i) = c]
                                         ELSE Zero]
  /\ phase' = "fitted"
  /\ UNCHANGED <<sample, error, active, preExcluded, gram, permutation, diagonal, rank>>

Next == Refuse \/ Partition \/ Design \/ Pivot \/ FixRank \/ Solve

Spec == Init /\ [][Next]_vars
-----------------------------------------------------------------------------
TypeOK ==
  /\ phase \in {"requested", "partitioned", "reduce", "solve", "fitted", "failed"}
  /\ (error # "none") <=> (phase = "failed")
  /\ rank <= Len(diagonal) /\ Len(diagonal) <= Len(permutation)
  /\ phase \in {"requested", "failed"} \/ active # <<>>

(* The basis holds every monomial up to the degree once, by degree, and    *)
(* the count that the limits are checked against is their number.          *)
Total(e) == FoldLeft(LAMBDA total, x : total + x, 0, e)
BasisIsComplete ==
  phase = "requested" =>
    /\ Range(Basis) = {e \in [1..Features -> 0..sample.degree] : Total(e) <= sample.degree}
    /\ Len(Basis) = Cardinality(Range(Basis))
    /\ Len(Basis) = ColumnCount(Features, sample.degree)
    /\ \A m, n \in DOMAIN Basis : m < n => Total(Basis[m]) <= Total(Basis[n])

(* The determinant of the inner products of some active columns: the       *)
(* squared volume that they span.                                          *)
Volume(S) ==
  LET columns == SetToSortSeq(S, <)
      n == Len(columns)
      det[k \in 0..n, T \in SUBSET (1..n)] ==
        IF k = 0 THEN 1
        ELSE FoldLeft(LAMBDA total, j :
               IF j \notin T THEN total
               ELSE LET sign == IF Cardinality({i \in T : i > j}) % 2 = 0 THEN 1 ELSE -1
                    IN  total + sign * Inner(columns[k], columns[j]) * det[k - 1, T \ {j}],
               0, [j \in 1..n |-> j])
  IN  det[n, 1..n]

(* Each pivot is the column farthest from the span of those before it, the *)
(* first such column in the order of the basis, however the columns were   *)
(* moved about on the way.                                                 *)
Chosen(n) == {permutation[i] : i \in 1..n}
PivotsAreFarthest ==
  phase \in {"solve", "fitted"} =>
    \A n \in DOMAIN diagonal :
      LET before == Chosen(n - 1)
          c == permutation[n]
      IN  /\ Volume(before \cup {c}) * diagonal[n][2] = Volume(before) * diagonal[n][1]
          /\ \A d \in DOMAIN active \ before :
               \/ Volume(before \cup {d}) < Volume(before \cup {c})
               \/ Volume(before \cup {d}) = Volume(before \cup {c}) /\ c <= d

(* Without tolerances the rank is that of the design: the kept columns are *)
(* independent and no other adds to their span.                            *)
RankIsExact ==
  phase = "fitted" /\ sample.absTol = Zero /\ sample.relTol = Zero =>
    /\ Volume(Chosen(rank)) > 0
    /\ \A c \in DOMAIN active \ Chosen(rank) : Volume(Chosen(rank) \cup {c}) = 0

(* What is left of the target is orthogonal to every kept column, so no    *)
(* other coefficients of those columns fit better; a column that depends   *)
(* on a constant feature or lies past the rank has coefficient zero.       *)
Sum(term, n) == FoldLeft(LAMBDA total, i : Minus(total, Minus(Zero, term[i])), Zero, [i \in 1..n |-> i])
Misfit(c) ==
  Minus(Frac(Inner(c, Len(active) + 1), 1),
        Sum([d \in DOMAIN active |-> Times(Frac(Inner(c, d), 1), coefficients[active[d]])], Len(active)))
LeastSquares ==
  phase = "fitted" =>
    /\ \A c \in Chosen(rank) : Misfit(c) = Zero
    /\ \A c \in AllColumns : coefficients[c] # Zero =>
         /\ \E i \in Chosen(rank) : active[i] = c
         /\ \A f \in 1..Features : Inactive(f) => Basis[c][f] = 0

(* PolynomialRegressionModel::from_replay_parts accepts what the fit       *)
(* returns.                                                                *)
Replayable ==
  LET pivots == [i \in Positions |-> active[permutation[i]]]
  IN  /\ active # <<>> /\ Len(active) + Len(preExcluded) = Len(Basis)
      /\ Range(active) \cap Range(preExcluded) = {}
      /\ Range(active) \cup Range(preExcluded) = AllColumns
      /\ Cardinality(Range(pivots)) = Len(active) /\ Range(pivots) \subseteq Range(active)
      /\ Len(diagonal) <= Len(pivots) /\ rank <= Len(diagonal)
      /\ \A d \in Range(diagonal) : ~Less(d, Zero)
      /\ \A c \in AllColumns : c \notin Range(active) => coefficients[c] = Zero
FitReplays == phase = "fitted" => Replayable

(* The columns that are kept: farthest first, as many as are independent.  *)
PivotsShowRank ==
  /\ TypeOK
  /\ BasisIsComplete
  /\ PivotsAreFarthest
  /\ RankIsExact

(* The fit that is returned: the best there is, in the basis' own order.   *)
FitIsBest ==
  /\ LeastSquares
  /\ FitReplays

(* A fit is the exact one over its basis.                                  *)
FitIsExact == PivotsShowRank /\ FitIsBest
=============================================================================
