------------------------- MODULE LocalVarianceGrid -------------------------
(***************************************************************************)
(* The local variance surface (market/local_variance.rs): bilinear in time *)
(* and log-moneyness, flat to the left and to the right.                   *)
(*                                                                         *)
(* Times and log-moneyness are integers, as they are compared; variances   *)
(* and weights are residues modulo a prime, in which weights, slopes and   *)
(* their products are exact.  A surface is [times, xs, values], its values *)
(* a row for each time.                                                    *)
(***************************************************************************)
EXTENDS Integers, Sequences, SequencesExt

CONSTANT Field   \* the prime

Mod(x) == x % Field
Reciprocal == [y \in 1..Field - 1 |-> CHOOSE z \in 1..Field - 1 : (y * z) % Field = 1]
Over(x, y) == Mod(x * Reciprocal[Mod(y)])
Total(s) == FoldLeft(LAMBDA total, x : Mod(total + x), 0, s)
-----------------------------------------------------------------------------
(* From the number of nodes at or before a value to a cell of the grid.    *)
CellOf(nodes, count) ==
  IF count < 1 THEN 1 ELSE IF count > Len(nodes) - 1 THEN Len(nodes) - 1 ELSE count

(* lower_cell, by binary search.                                           *)
LowerCell(nodes, v) ==
  CellOf(nodes, CHOOSE n \in 0..Len(nodes) : \A i \in DOMAIN nodes : nodes[i] <= v <=> i <= n)

(* lower_cell_from: up from the cell before, then down.                    *)
WalkUp(nodes, v, start) ==
  CHOOSE n \in start..Len(nodes) :
    /\ n < Len(nodes) => nodes[n + 1] > v
    /\ \A i \in start + 1..n : nodes[i] <= v
WalkDown(nodes, v, start) ==
  CHOOSE n \in 0..start :
    /\ n > 0 => nodes[n] <= v
    /\ \A i \in n + 1..start : nodes[i] > v

(* Mutant: values behind the last one are not walked back to.              *)
MutHintedCell(nodes, v, hint) == CellOf(nodes, WalkUp(nodes, v, hint))
HintedCell(nodes, v, hint) == CellOf(nodes, WalkDown(nodes, v, WalkUp(nodes, v, hint)))
-----------------------------------------------------------------------------
Queryable(grid, t) == grid.times[1] <= t /\ t <= Last(grid.times)

Clamped(grid, x) ==
  IF x < grid.xs[1] THEN grid.xs[1] ELSE IF x > Last(grid.xs) THEN Last(grid.xs) ELSE x
Boundary(grid, x) ==
  IF x < grid.xs[1] THEN "left" ELSE IF x > Last(grid.xs) THEN "right" ELSE "inside"
Excursion(grid, x) == IF x < Clamped(grid, x) THEN Clamped(grid, x) - x ELSE x - Clamped(grid, x)

Share(nodes, cell, v) == Over(v - nodes[cell], nodes[cell + 1] - nodes[cell])
Between(left, right, weight) == Mod(left * (1 - weight) + right * weight)

InCells(grid, t, x, row, column) ==
  LET timeWeight == Share(grid.times, row, t)
      weight == Share(grid.xs, column, Clamped(grid, x))
      Along(r) == Between(grid.values[r][column], grid.values[r][column + 1], weight)
  IN  [value |-> Between(Along(row), Along(row + 1), timeWeight),
       row |-> row, column |-> column, timeWeight |-> timeWeight, weight |-> weight,
       boundary |-> Boundary(grid, x), excursion |-> Excursion(grid, x)]

Interpolate(grid, t, x) ==
  InCells(grid, t, x, LowerCell(grid.times, t), LowerCell(grid.xs, Clamped(grid, x)))

(* interpolation_log_moneyness_derivative: none where the surface is flat. *)
SlopeAlong(grid, row, column) ==
  Over(grid.values[row][column + 1] - grid.values[row][column],
       grid.xs[column + 1] - grid.xs[column])
Slope(grid, q) ==
  IF q.boundary # "inside" THEN 0
  ELSE Between(SlopeAlong(grid, q.row, q.column), SlopeAlong(grid, q.row + 1, q.column), q.timeWeight)

(* transpose_accumulate.                                                   *)
Deposit(q, seed, adjoints) ==
  LET Gain(timeShare, share) == Mod(seed * timeShare * share)
      gains == <<<<Gain(1 - q.timeWeight, 1 - q.weight), Gain(1 - q.timeWeight, q.weight)>>,
                 <<Gain(q.timeWeight, 1 - q.weight), Gain(q.timeWeight, q.weight)>>>>
  IN  [r \in DOMAIN adjoints |-> [c \in DOMAIN adjoints[r] |->
         IF r - q.row \in {0, 1} /\ c - q.column \in {0, 1}
         THEN Mod(adjoints[r][c] + gains[r - q.row + 1][c - q.column + 1])
         ELSE adjoints[r][c]]]
-----------------------------------------------------------------------------
(* LocalVarianceBoundaryStats.                                             *)
NoContacts == [left |-> 0, right |-> 0, maxLeft |-> 0, maxRight |-> 0]
Farther(a, b) == IF a < b THEN b ELSE a
Recorded(stats, q) ==
  CASE q.boundary = "inside" -> stats
    [] q.boundary = "left" ->
         [stats EXCEPT !.left = @ + 1, !.maxLeft = Farther(@, q.excursion)]
    [] q.boundary = "right" ->
         [stats EXCEPT !.right = @ + 1, !.maxRight = Farther(@, q.excursion)]
=============================================================================
