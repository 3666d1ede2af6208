---------------------------- MODULE BridgeProofs ----------------------------
(***************************************************************************)
(* Compiling a Brownian bridge chooses greedily (GreedyBridge), and its    *)
(* plan fills the grid, reading no node before it is filled.  One          *)
(* invariant carries both:                                                 *)
(* every gap between neighbouring filled nodes is in the heap with its     *)
(* best candidate, and no candidate of a gap rounds to zero.               *)
(***************************************************************************)
EXTENDS BrownianBridge, SequenceFacts
-----------------------------------------------------------------------------
(* Fractions with positive denominators, compared by cross-multiplication. *)

(* Multiplying by a positive number keeps an order, strict or not.         *)
LEMMA ScaledOrder ==
  ASSUME NEW x \in Int, NEW y \in Int, NEW k \in Int, k > 0
  PROVE  (x > y <=> x * k > y * k) /\ (x = y <=> x * k = y * k)
<1>1. ASSUME NEW d \in Int, d > 0 PROVE d * k > 0
  BY <1>1
<1>2. (x - y) * k = x * k - y * k /\ (y - x) * k = y * k - x * k
  BY Z3
<1>3. x * k \in Int /\ y * k \in Int
  OBVIOUS
<1>4. CASE x > y
  <2>1. (x - y) * k > 0
    BY <1>1, <1>4
  <2> QED
    BY <1>2, <1>3, <1>4, <2>1
<1>5. CASE y > x
  <2>1. (y - x) * k > 0
    BY <1>1, <1>5
  <2> QED
    BY <1>2, <1>3, <1>5, <2>1
<1>6. CASE x = y
  BY <1>6
<1> QED
  BY <1>4, <1>5, <1>6

(* A candidate, as far as the order of candidates reads it.                *)
IsFraction(c) == c.up \in Int /\ c.down \in Int /\ c.down > 0 /\ c.node \in Int

(* c comes out of the heap no later than d.                                *)
Ahead(c, d) ==
  \/ c.up * d.down > d.up * c.down
  \/ c.up * d.down = d.up * c.down /\ c.node <= d.node

(* A fraction at least as large as one at least as large as a third.       *)
LEMMA FractionsOrder ==
  ASSUME NEW a \in Int, NEW b \in Int, NEW c \in Int, NEW d \in Int, NEW e \in Int, NEW f \in Int,
         b > 0, d > 0, f > 0, a * d >= c * b, c * f >= e * d
  PROVE  /\ a * f >= e * b
         /\ a * d > c * b \/ c * f > e * d => a * f > e * b
<1>1. /\ a * d \in Int /\ c * b \in Int /\ c * f \in Int /\ e * d \in Int /\ a * f \in Int
      /\ e * b \in Int
  OBVIOUS
<1>2. /\ (a * d) * f >= (c * b) * f /\ (a * d > c * b => (a * d) * f > (c * b) * f)
  <2> DEFINE x == a * d
             y == c * b
  <2>1. x \in Int /\ y \in Int /\ x >= y
    BY <1>1
  <2> HIDE DEF x, y
  <2>2. x * f >= y * f /\ (x > y => x * f > y * f)
    <3>1. (x > y <=> x * f > y * f) /\ (x = y <=> x * f = y * f)
      BY <2>1, ScaledOrder
    <3>2. x > y \/ x = y
      BY <2>1
    <3>3. x * f \in Int /\ y * f \in Int
      BY <2>1
    <3> QED
      BY <3>1, <3>2, <3>3
  <2> QED
    BY <2>2 DEF x, y
<1>3. /\ (c * f) * b >= (e * d) * b /\ (c * f > e * d => (c * f) * b > (e * d) * b)
  <2> DEFINE x == c * f
             y == e * d
  <2>1. x \in Int /\ y \in Int /\ x >= y
    BY <1>1
  <2> HIDE DEF x, y
  <2>2. x * b >= y * b /\ (x > y => x * b > y * b)
    <3>1. (x > y <=> x * b > y * b) /\ (x = y <=> x * b = y * b)
      BY <2>1, ScaledOrder
    <3>2. x > y \/ x = y
      BY <2>1
    <3>3. x * b \in Int /\ y * b \in Int
      BY <2>1
    <3> QED
      BY <3>1, <3>2, <3>3
  <2> QED
    BY <2>2 DEF x, y
<1>4. (a * d) * f = (a * f) * d /\ (c * b) * f = (c * f) * b /\ (e * d) * b = (e * b) * d
  BY Z3
<1> DEFINE p == a * f
           q == e * b
<1>5. p \in Int /\ q \in Int /\ (p * d >= q * d) /\ (a * d > c * b \/ c * f > e * d => p * d > q * d)
  <2> DEFINE u == (a * d) * f
             v == (c * b) * f
             w == (e * d) * b
  <2>1. u \in Int /\ v \in Int /\ w \in Int
    BY <1>1
  <2>2. u >= v /\ v >= w /\ (a * d > c * b => u > v) /\ (c * f > e * d => v > w)
    BY <1>2, <1>3, <1>4
  <2>3. u = p * d /\ w = q * d
    BY <1>4
  <2> HIDE DEF u, v, w, p, q
  <2>4. u >= w /\ (a * d > c * b \/ c * f > e * d => u > w)
    BY <2>1, <2>2
  <2> QED
    BY <1>1, <2>3, <2>4 DEF p, q
<1> HIDE DEF p, q
<1>6. (p > q <=> p * d > q * d) /\ (p = q <=> p * d = q * d)
  BY <1>5, ScaledOrder
<1>7. p * d \in Int /\ q * d \in Int
  BY <1>5
<1>8. p >= q /\ (a * d > c * b \/ c * f > e * d => p > q)
  BY <1>5, <1>6, <1>7
<1> QED
  BY <1>8 DEF p, q

(* The order of candidates is transitive and total.                        *)
LEMMA AheadTransitive ==
  ASSUME NEW c, NEW d, NEW e, IsFraction(c), IsFraction(d), IsFraction(e), Ahead(c, d), Ahead(d, e)
  PROVE  Ahead(c, e)
<1>1. /\ c.up \in Int /\ c.down \in Int /\ c.down > 0 /\ c.node \in Int
      /\ d.up \in Int /\ d.down \in Int /\ d.down > 0 /\ d.node \in Int
      /\ e.up \in Int /\ e.down \in Int /\ e.down > 0 /\ e.node \in Int
  BY DEF IsFraction
<1>2. /\ c.up * d.down \in Int /\ d.up * c.down \in Int /\ d.up * e.down \in Int
      /\ e.up * d.down \in Int /\ c.up * e.down \in Int /\ e.up * c.down \in Int
  BY <1>1
<1>3. c.up * d.down >= d.up * c.down /\ d.up * e.down >= e.up * d.down
  BY <1>2 DEF Ahead
<1>4. /\ c.up * e.down >= e.up * c.down
      /\ c.up * d.down > d.up * c.down \/ d.up * e.down > e.up * d.down
           => c.up * e.down > e.up * c.down
  BY <1>1, <1>3, FractionsOrder
<1>5. CASE c.up * d.down > d.up * c.down \/ d.up * e.down > e.up * d.down
  BY <1>4, <1>5 DEF Ahead
<1>6. CASE ~(c.up * d.down > d.up * c.down) /\ ~(d.up * e.down > e.up * d.down)
  <2>1. c.node <= d.node /\ d.node <= e.node
    BY <1>6 DEF Ahead
  <2>2. c.node <= e.node
    BY <1>1, <2>1
  <2> QED
    BY <1>2, <1>4, <2>2 DEF Ahead
<1> QED
  BY <1>5, <1>6

(* Of two candidates, one is ahead of the other.                           *)
LEMMA AheadTotal ==
  ASSUME NEW c, NEW d, IsFraction(c), IsFraction(d)
  PROVE  Ahead(c, d) \/ Ahead(d, c)
<1>1. /\ c.up * d.down \in Int /\ d.up * c.down \in Int /\ c.node \in Int /\ d.node \in Int
  BY DEF IsFraction
<1> QED
  BY <1>1 DEF Ahead

-----------------------------------------------------------------------------
(* The grid, once it is accepted.                                          *)
Arguments == times \in Grids /\ factors \in FactorCounts /\ precision \in Precisions

Valid ==
  /\ Terminal \in Nat /\ Terminal >= 1 /\ DOMAIN times = 0..Terminal
  /\ \A i \in 0..Terminal : times[i] \in Int
  /\ \A i, j \in 0..Terminal : i < j => times[i] < times[j]
  /\ precision \in Nat \ {0}

(* What the checks of compile let through has finite, increasing times.    *)
LEMMA AcceptedIsValid ==
  ASSUME Arguments, Refusal = "none"
  PROVE  Valid
<1>1. /\ IsFiniteSet(DOMAIN times) /\ DOMAIN times = 0..Cardinality(DOMAIN times) - 1
      /\ \A i \in DOMAIN times : times[i] # NonFinite => times[i] \in Int
      /\ precision \in Nat \ {0}
  BY BridgeAssumption DEF Arguments
<1>2. /\ ~(Intervals < 1) /\ ~(\E i \in DOMAIN times : times[i] = NonFinite)
      /\ ~(\E i \in 1..Intervals : times[i] <= times[i - 1])
  BY DEF Refusal
<1>3. Cardinality(DOMAIN times) \in Nat
  BY <1>1, FS_CardinalityType
<1>4. Terminal \in Nat /\ Terminal >= 1 /\ DOMAIN times = 0..Terminal
  <2> DEFINE n == Cardinality(DOMAIN times)
  <2>1. Terminal = n - 1 /\ Intervals = n - 1 /\ n \in Nat /\ DOMAIN times = 0..n - 1
    BY <1>1, <1>3 DEF Terminal, Intervals
  <2> HIDE DEF n
  <2> QED
    BY <1>2, <2>1
<1>5. \A i \in 0..Terminal : times[i] \in Int
  BY <1>1, <1>2, <1>4
<1> DEFINE T == {k \in Nat : \A i \in 0..Terminal :
                   i + k + 1 \in 0..Terminal => times[i] < times[i + k + 1]}
<1>6. ASSUME NEW i \in 0..Terminal, i + 1 \in 0..Terminal PROVE times[i] < times[i + 1]
  <2>1. i + 1 \in 1..Intervals /\ (i + 1) - 1 = i
    BY <1>4, <1>6 DEF Terminal
  <2>2. ~(times[i + 1] <= times[(i + 1) - 1])
    BY <1>2, <2>1
  <2> QED
    BY <1>5, <1>6, <2>1, <2>2
<1>7. 0 \in T
  <2>1. ASSUME NEW i \in 0..Terminal, i + 0 + 1 \in 0..Terminal PROVE times[i] < times[i + 0 + 1]
    <3>1. i + 0 + 1 = i + 1
      BY <1>4
    <3> QED
      BY <1>6, <2>1, <3>1
  <2> QED
    BY <2>1
<1>8. ASSUME NEW k \in Nat, k \in T PROVE k + 1 \in T
  <2>1. ASSUME NEW i \in 0..Terminal, i + (k + 1) + 1 \in 0..Terminal
        PROVE times[i] < times[i + (k + 1) + 1]
    <3> DEFINE j == i + k + 1
    <3>1. j \in 0..Terminal /\ j + 1 = i + (k + 1) + 1
      BY <1>4, <2>1
    <3>2. times[i] < times[j]
      BY <1>8, <3>1
    <3> HIDE DEF j
    <3>3. times[j] < times[j + 1]
      BY <1>6, <2>1, <3>1
    <3>4. times[i] \in Int /\ times[j] \in Int /\ times[j + 1] \in Int
      BY <1>5, <2>1, <3>1
    <3> QED
      BY <3>1, <3>2, <3>3, <3>4
  <2> QED
    BY <2>1
<1> HIDE DEF T
<1>9. \A k \in Nat : k \in T
  BY <1>7, <1>8, Induction
<1>10. ASSUME NEW i \in 0..Terminal, NEW j \in 0..Terminal, i < j PROVE times[i] < times[j]
  <2> DEFINE k == j - i - 1
  <2>1. k \in Nat /\ i + k + 1 = j
    BY <1>4, <1>10
  <2> HIDE DEF k
  <2> QED
    BY <1>9, <2>1 DEF T
<1> QED
  BY <1>1, <1>4, <1>5, <1>10 DEF Valid

(* An inner node of an interval is a fraction; the order of candidates is  *)
(* that of the heap.                                                       *)
LEMMA CandidatesAreFractions ==
  ASSUME Valid, NEW l \in 0..Terminal, NEW r \in 0..Terminal, NEW n \in l + 1..r - 1
  PROVE  IsFraction(Candidate(l, n, r)) /\ n \in 0..Terminal /\ l < n /\ n < r
<1>1. n \in 0..Terminal /\ l < n /\ n < r /\ n \in Int
  BY DEF Valid
<1>2. times[l] \in Int /\ times[n] \in Int /\ times[r] \in Int /\ times[l] < times[r]
  BY <1>1 DEF Valid
<1>3. times[n] - times[l] \in Int /\ times[r] - times[n] \in Int /\ times[r] - times[l] \in Int
      /\ times[r] - times[l] > 0
  BY <1>2
<1>4. (times[n] - times[l]) * (times[r] - times[n]) \in Int
  BY <1>3
<1> QED
  BY <1>1, <1>3, <1>4 DEF IsFraction, Candidate

(* The heap's order among candidates of the grid.                          *)
LEMMA AboveIsAhead ==
  ASSUME Valid, NEW c, NEW d, IsFraction(c), IsFraction(d),
         c.node \in 0..Terminal, d.node \in 0..Terminal
  PROVE  /\ Above(c, d) => Ahead(c, d)
         /\ c = d => Ahead(c, d)
         /\ Ahead(c, d) => Above(c, d) \/ c.node = d.node
         /\ ~(Above(c, d) /\ Above(d, c))
<1>1. /\ c.up * d.down \in Int /\ d.up * c.down \in Int /\ c.node \in Int /\ d.node \in Int
  BY DEF IsFraction
<1>2. /\ times[c.node] < times[d.node] <=> c.node < d.node
      /\ times[d.node] < times[c.node] <=> d.node < c.node
  BY <1>1 DEF Valid
<1>3. ~(times[c.node] < times[d.node] /\ times[d.node] < times[c.node])
  BY <1>1, <1>2
<1> QED
  BY <1>1, <1>2, <1>3 DEF Above, Ahead

(* An interval with an inner node has a best one, and only one.            *)
LEMMA BestIsOne ==
  ASSUME Valid, NEW l \in 0..Terminal, NEW r \in 0..Terminal,
         NEW c \in IntervalBest(l, r), NEW d \in IntervalBest(l, r)
  PROVE  c = d
<1>1. PICK m \in l + 1..r - 1 : c = Candidate(l, m, r)
  BY DEF IntervalBest, Inner
<1>2. PICK n \in l + 1..r - 1 : d = Candidate(l, n, r)
  BY DEF IntervalBest, Inner
<1>3. /\ IsFraction(c) /\ IsFraction(d) /\ c.node \in 0..Terminal /\ d.node \in 0..Terminal
  BY <1>1, <1>2, CandidatesAreFractions DEF Candidate
<1>4. c = d \/ (Above(c, d) /\ Above(d, c))
  BY DEF IntervalBest
<1> QED
  BY <1>3, <1>4, AboveIsAhead

(* An interval with an inner node has a best candidate: the largest of the *)
(* first k nodes, for each k.                                              *)
LEMMA BestExists ==
  ASSUME Valid, NEW l \in 0..Terminal, NEW r \in 0..Terminal, l + 1 < r
  PROVE  \E c \in IntervalBest(l, r) : TRUE
<1> DEFINE cand(n) == Candidate(l, n, r)
           T == {k \in Nat : l + 1 + k <= r - 1 =>
                   \E n \in l + 1..l + 1 + k : \A m \in l + 1..l + 1 + k : Ahead(cand(n), cand(m))}
<1>1. l \in Nat /\ r \in Nat
  BY DEF Valid
<1>2. \A n \in l + 1..r - 1 :
        IsFraction(cand(n)) /\ n \in 0..Terminal /\ cand(n).node = n
  BY CandidatesAreFractions DEF Candidate
<1> HIDE DEF cand
<1>3. \A n \in l + 1..r - 1 : Ahead(cand(n), cand(n))
  BY <1>2, AheadTotal
<1>4. 0 \in T
  <2>1. l + 1 \in l + 1..r - 1 /\ l + 1 \in l + 1..l + 1 + 0
    BY <1>1
  <2>2. \A m \in l + 1..l + 1 + 0 : m = l + 1
    BY <1>1
  <2>3. \A m \in l + 1..l + 1 + 0 : Ahead(cand(l + 1), cand(m))
    BY <1>3, <2>1, <2>2
  <2> QED
    BY <2>1, <2>3
<1>5. ASSUME NEW k \in Nat, k \in T PROVE k + 1 \in T
  <2> DEFINE next == l + 1 + (k + 1)
  <2> SUFFICES ASSUME next <= r - 1
               PROVE  \E n \in l + 1..next : \A m \in l + 1..next : Ahead(cand(n), cand(m))
    OBVIOUS
  <2>1. /\ next \in l + 1..r - 1 /\ next \in l + 1..next /\ l + 1 + k <= r - 1
        /\ \A m \in l + 1..next : m \in l + 1..l + 1 + k \/ m = next
        /\ \A m \in l + 1..l + 1 + k : m \in l + 1..next /\ m \in l + 1..r - 1
    BY <1>1
  <2>2. PICK n \in l + 1..l + 1 + k : \A m \in l + 1..l + 1 + k : Ahead(cand(n), cand(m))
    BY <1>5, <2>1
  <2> HIDE DEF next
  <2>3. CASE Ahead(cand(n), cand(next))
    <3>1. \A m \in l + 1..next : Ahead(cand(n), cand(m))
      BY <2>1, <2>2, <2>3
    <3> QED
      BY <2>1, <3>1
  <2>4. CASE ~Ahead(cand(n), cand(next))
    <3>1. Ahead(cand(next), cand(n))
      BY <1>2, <2>1, <2>4, AheadTotal
    <3>2. ASSUME NEW m \in l + 1..next PROVE Ahead(cand(next), cand(m))
      <4>1. CASE m = next
        BY <1>3, <2>1, <4>1
      <4>2. CASE m \in l + 1..l + 1 + k
        BY <1>2, <2>1, <2>2, <3>1, <4>2, AheadTransitive
      <4> QED
        BY <2>1, <4>1, <4>2
    <3> QED
      BY <2>1, <3>2
  <2> QED
    BY <2>3, <2>4
<1> HIDE DEF T
<1>6. \A k \in Nat : k \in T
  BY <1>4, <1>5, Induction
<1>7. PICK n \in l + 1..r - 1 : \A m \in l + 1..r - 1 : Ahead(cand(n), cand(m))
  <2> DEFINE k == r - l - 2
  <2>1. k \in Nat /\ l + 1 + k = r - 1
    BY <1>1
  <2> HIDE DEF k
  <2>2. k \in T /\ l + 1 + k <= r - 1
    BY <1>1, <1>6, <2>1
  <2>3. \E n \in l + 1..l + 1 + k : \A m \in l + 1..l + 1 + k : Ahead(cand(n), cand(m))
    BY <2>2 DEF T
  <2> QED
    BY <2>1, <2>3
<1>8. cand(n) \in Inner(l, r)
  BY DEF Inner, cand
<1>9. ASSUME NEW d \in Inner(l, r) PROVE cand(n) = d \/ Above(cand(n), d)
  <2>1. PICK m \in l + 1..r - 1 : d = cand(m)
    BY DEF Inner, cand
  <2>2. Above(cand(n), cand(m)) \/ n = m
    BY <1>2, <1>7, AboveIsAhead
  <2> QED
    BY <2>1, <2>2
<1> QED
  BY <1>8, <1>9 DEF IntervalBest
-----------------------------------------------------------------------------
(* Gaps of the filled nodes, and a heap that covers them.                  *)
IsGap(l, r, F) == l \in F /\ r \in F /\ l < r /\ \A n \in F : n <= l \/ n >= r

(* Every gap with an open node has its best candidate in hp, and none of   *)
(* its candidates rounds to zero.                                          *)
Covers(hp, F) ==
  /\ F \subseteq 0..Terminal /\ 0 \in F /\ Terminal \in F
  /\ \A c \in hp : /\ IsGap(c.left, c.right, F) /\ c \in IntervalBest(c.left, c.right)
                   /\ ~Unusable(c.left, c.right)
  /\ \A m \in (0..Terminal) \ F : \E c \in hp : c.left < m /\ m < c.right

(* Where a candidate of the heap is.                                       *)
LEMMA HeapCandidate ==
  ASSUME Valid, NEW hp, NEW F, Covers(hp, F), NEW c \in hp
  PROVE  /\ c.left \in 0..Terminal /\ c.right \in 0..Terminal
         /\ c.node \in c.left + 1..c.right - 1 /\ c.node \in 0..Terminal /\ c.node \notin F
         /\ c = Candidate(c.left, c.node, c.right) /\ IsFraction(c)
         /\ c.left < c.node /\ c.node < c.right
         /\ c.up \in Int /\ c.down \in Int /\ c.node \in Int
<1>1. c.left \in 0..Terminal /\ c.right \in 0..Terminal /\ IsGap(c.left, c.right, F)
  BY DEF Covers, IsGap
<1>2. PICK n \in c.left + 1..c.right - 1 : c = Candidate(c.left, n, c.right)
  BY DEF Covers, IntervalBest, Inner
<1>3. c.node = n
  BY <1>2 DEF Candidate
<1>4. IsFraction(c) /\ n \in 0..Terminal /\ c.left < n /\ n < c.right
  BY <1>1, <1>2, CandidatesAreFractions
<1>5. n \notin F
  <2>1. n \in Int /\ c.left \in Int /\ c.right \in Int
    BY <1>1, <1>4 DEF Valid
  <2> QED
    BY <1>1, <1>4, <2>1 DEF IsGap
<1> QED
  BY <1>1, <1>2, <1>3, <1>4, <1>5 DEF IsFraction

(* What is left of the gaps once a candidate's node is filled.             *)
LEMMA SplitGaps ==
  ASSUME Valid, NEW hp, NEW F, Covers(hp, F), NEW c \in hp
  PROVE  LET G == F \cup {c.node}
         IN  /\ G \subseteq 0..Terminal /\ 0 \in G /\ Terminal \in G
             /\ IsGap(c.left, c.node, G) /\ IsGap(c.node, c.right, G)
             /\ \A d \in hp : d # c => IsGap(d.left, d.right, G)
<1> DEFINE l == c.left
           n == c.node
           r == c.right
           G == F \cup {n}
<1>1. /\ l \in 0..Terminal /\ r \in 0..Terminal /\ n \in 0..Terminal /\ l < n /\ n < r
      /\ F \subseteq 0..Terminal /\ 0 \in F /\ Terminal \in F
  BY HeapCandidate DEF Covers
<1>2. IsGap(l, r, F) /\ c \in IntervalBest(l, r)
  BY DEF Covers
<1>3. Terminal \in Nat
  BY DEF Valid
<1> HIDE DEF l, n, r
<1>4. IsGap(l, n, G)
  BY <1>1, <1>2, <1>3 DEF IsGap
<1>5. IsGap(n, r, G)
  BY <1>1, <1>2, <1>3 DEF IsGap
<1>6. ASSUME NEW d \in hp, d # c PROVE IsGap(d.left, d.right, G)
  <2> DEFINE a == d.left
             b == d.right
  <2>1. IsGap(a, b, F) /\ d \in IntervalBest(a, b)
    BY DEF Covers
  <2>2. a \in 0..Terminal /\ b \in 0..Terminal
    BY HeapCandidate
  <2> HIDE DEF a, b
  <2>3. SUFFICES n <= a \/ n >= b
    BY <2>1, <2>3 DEF IsGap, a, b
  <2>4. SUFFICES ASSUME a < n, n < b PROVE FALSE
    BY <1>1, <1>3, <2>2
  <2>5. a = l /\ b = r
    BY <1>1, <1>2, <1>3, <2>1, <2>2, <2>4 DEF IsGap
  <2> QED
    BY <1>1, <1>2, <1>6, <2>1, <2>5, BestIsOne
<1> QED
  BY <1>1, <1>4, <1>5, <1>6 DEF l, n, r

(* Splitting a candidate keeps the gaps covered.                           *)
LEMMA SplitCovers ==
  ASSUME Valid, NEW hp, NEW F, Covers(hp, F), NEW c \in hp,
         ~Unusable(c.left, c.node), ~Unusable(c.node, c.right)
  PROVE  Covers((hp \ {c}) \cup IntervalBest(c.left, c.node) \cup IntervalBest(c.node, c.right),
                F \cup {c.node})
<1> DEFINE l == c.left
           n == c.node
           r == c.right
           G == F \cup {n}
           lower == IntervalBest(l, n)
           upper == IntervalBest(n, r)
           H == (hp \ {c}) \cup lower \cup upper
<1>1. /\ G \subseteq 0..Terminal /\ 0 \in G /\ Terminal \in G
      /\ IsGap(l, n, G) /\ IsGap(n, r, G) /\ \A d \in hp : d # c => IsGap(d.left, d.right, G)
  BY SplitGaps
<1>2. l \in 0..Terminal /\ r \in 0..Terminal /\ n \in 0..Terminal /\ l < n /\ n < r
  BY HeapCandidate
<1>3. \A d \in lower : d.left = l /\ d.right = n
  BY DEF IntervalBest, Inner, Candidate
<1>4. \A d \in upper : d.left = n /\ d.right = r
  BY DEF IntervalBest, Inner, Candidate
<1>5. ~Unusable(l, n) /\ ~Unusable(n, r)
  OBVIOUS
<1>6. ASSUME NEW d \in H
      PROVE  /\ IsGap(d.left, d.right, G) /\ d \in IntervalBest(d.left, d.right)
             /\ ~Unusable(d.left, d.right)
  <2> HIDE DEF G, l, n, r
  <2>1. CASE d \in lower
    BY <1>1, <1>3, <1>5, <2>1
  <2>2. CASE d \in upper
    BY <1>1, <1>4, <1>5, <2>2
  <2>3. CASE d \in hp \ {c}
    BY <1>1, <2>3 DEF Covers
  <2> QED
    BY <1>6, <2>1, <2>2, <2>3
<1>7. ASSUME NEW m \in (0..Terminal) \ G
      PROVE  \E d \in H : d.left < m /\ m < d.right
  <2>1. PICK d \in hp : d.left < m /\ m < d.right
    BY DEF Covers
  <2>2. m # n /\ m \in Int /\ l \in Int /\ n \in Int /\ r \in Int
    BY <1>2 DEF Valid
  <2>3. CASE d # c
    BY <2>1, <2>3
  <2>4. CASE d = c /\ m < n
    <3>1. l < m /\ l + 1 < n
      BY <2>1, <2>2, <2>4
    <3>2. PICK e \in lower : TRUE
      BY <1>2, <3>1, BestExists
    <3> HIDE DEF lower, l, n
    <3> QED
      BY <1>3, <2>4, <3>1, <3>2
  <2>5. CASE d = c /\ m > n
    <3>1. m < r /\ n + 1 < r
      BY <2>1, <2>2, <2>5
    <3>2. PICK e \in upper : TRUE
      BY <1>2, <3>1, BestExists
    <3> HIDE DEF upper, n, r
    <3> QED
      BY <1>4, <2>2, <2>5, <3>1, <3>2
  <2> HIDE DEF n
  <2> QED
    BY <2>2, <2>3, <2>4, <2>5
<1> HIDE DEF G, H
<1>8. Covers(H, G)
  BY <1>1, <1>6, <1>7 DEF Covers
<1> QED
  BY <1>8 DEF G, H, l, n, r, lower, upper

(* The first gap is the whole grid.                                        *)
LEMMA StartCovers ==
  ASSUME Valid, ~Unusable(0, Terminal)
  PROVE  Covers(IntervalBest(0, Terminal), {0, Terminal})
<1> DEFINE F == {0, Terminal}
           H == IntervalBest(0, Terminal)
<1>1. Terminal \in Nat /\ Terminal >= 1 /\ F \subseteq 0..Terminal /\ 0 \in F /\ Terminal \in F
  BY DEF Valid
<1>2. \A d \in H : d.left = 0 /\ d.right = Terminal
  BY DEF IntervalBest, Inner, Candidate
<1>3. IsGap(0, Terminal, F)
  BY <1>1 DEF IsGap
<1>4. ASSUME NEW m \in (0..Terminal) \ F PROVE \E d \in H : d.left < m /\ m < d.right
  <2>1. 0 < m /\ m < Terminal /\ 0 + 1 < Terminal
    BY <1>1
  <2>2. PICK e \in H : TRUE
    BY <1>1, <2>1, BestExists
  <2> HIDE DEF H
  <2> QED
    BY <1>2, <2>1, <2>2
<1>5. \A c \in H : /\ IsGap(c.left, c.right, F) /\ c \in IntervalBest(c.left, c.right)
                  /\ ~Unusable(c.left, c.right)
  BY <1>2, <1>3
<1> HIDE DEF F, H
<1>6. Covers(H, F)
  BY <1>1, <1>4, <1>5 DEF Covers
<1> QED
  BY <1>6 DEF F, H
-----------------------------------------------------------------------------
(* What GreedyBridge says of a gap is what a candidate of it says.         *)
LEMMA NearestChosen ==
  ASSUME Valid, NEW s, NEW F, Greedy!Chosen(s) = F, F \subseteq 0..Terminal,
         NEW l, NEW r, IsGap(l, r, F), NEW m \in l + 1..r - 1
  PROVE  /\ Greedy!Up(m, s) = Candidate(l, m, r).up
         /\ Greedy!Down(m, s) = Candidate(l, m, r).down
         /\ Greedy!Vanishes(m, s) <=> RoundsToZero(Candidate(l, m, r))
<1>1. /\ l \in Int /\ r \in Int /\ m \in Int /\ l < m /\ m < r /\ l \in F /\ r \in F
      /\ \A n \in F : n \in Int /\ (n <= l \/ n >= r)
  BY DEF IsGap, Valid
<1>2. Greedy!Before(m, s) = l
  <2>1. \A k \in F : (k < m /\ \A j \in F : j < m => j <= k) => k = l
    BY <1>1
  <2>2. l < m /\ \A j \in F : j < m => j <= l
    BY <1>1
  <2> QED
    BY <1>1, <2>1, <2>2 DEF Greedy!Before
<1>3. Greedy!After(m, s) = r
  <2>1. \A k \in F : (k > m /\ \A j \in F : j > m => k <= j) => k = r
    BY <1>1
  <2>2. r > m /\ \A j \in F : j > m => r <= j
    BY <1>1
  <2> QED
    BY <1>1, <2>1, <2>2 DEF Greedy!After
<1> QED
  BY <1>2, <1>3
  DEF Greedy!Up, Greedy!Down, Greedy!Vanishes, Candidate, RoundsToZero

(* The greedy choice over two nodes is the order of their candidates.      *)
LEMMA GreedyIsAhead ==
  ASSUME Valid, NEW s, NEW c, NEW d, IsFraction(c), IsFraction(d),
         Greedy!Up(c.node, s) = c.up, Greedy!Down(c.node, s) = c.down,
         Greedy!Up(d.node, s) = d.up, Greedy!Down(d.node, s) = d.down, Ahead(c, d)
  PROVE  Greedy!AtLeastAsUncertain(c.node, d.node, s)
  BY DEF Greedy!AtLeastAsUncertain, Ahead

(* The top of a heap that covers the gaps is the best of all open nodes.   *)
LEMMA TopIsNext ==
  ASSUME Valid, NEW hp, NEW s, Covers(hp, Greedy!Chosen(s)), NEW c \in hp,
         \A d \in hp : c = d \/ Above(c, d), NEW m \in Greedy!Open(s)
  PROVE  Greedy!AtLeastAsUncertain(c.node, m, s)
<1> DEFINE F == Greedy!Chosen(s)
<1>1. m \in (0..Terminal) \ F /\ F \subseteq 0..Terminal /\ Terminal \in Nat
  BY DEF Greedy!Open, Valid, Covers
<1>2. PICK d \in hp : d.left < m /\ m < d.right
  BY <1>1 DEF Covers
<1> DEFINE e == Candidate(d.left, m, d.right)
<1>3. /\ d.left \in 0..Terminal /\ d.right \in 0..Terminal /\ IsFraction(d)
      /\ d.node \in 0..Terminal /\ IsGap(d.left, d.right, F)
      /\ d \in IntervalBest(d.left, d.right)
  BY HeapCandidate DEF Covers
<1>4. m \in d.left + 1..d.right - 1
  BY <1>1, <1>2, <1>3
<1>5. IsFraction(e) /\ e \in Inner(d.left, d.right) /\ e.node = m
  BY <1>3, <1>4, CandidatesAreFractions DEF Inner, Candidate
<1>6. Greedy!Up(m, s) = e.up /\ Greedy!Down(m, s) = e.down
  BY <1>1, <1>3, <1>4, NearestChosen
<1>7. /\ IsFraction(c) /\ c.node \in 0..Terminal /\ IsGap(c.left, c.right, F)
      /\ c.node \in c.left + 1..c.right - 1 /\ c = Candidate(c.left, c.node, c.right)
  BY HeapCandidate DEF Covers
<1>8. Greedy!Up(c.node, s) = c.up /\ Greedy!Down(c.node, s) = c.down
  BY <1>1, <1>7, NearestChosen
<1> HIDE DEF e, F
<1>9. d = e \/ Above(d, e)
  BY <1>3, <1>5 DEF IntervalBest
<1>10. Ahead(d, e) /\ Ahead(c, d)
  BY <1>1, <1>3, <1>5, <1>7, <1>9, AboveIsAhead
<1>11. Ahead(c, e)
  BY <1>3, <1>5, <1>7, <1>10, AheadTransitive
<1>12. Greedy!AtLeastAsUncertain(c.node, e.node, s)
  BY <1>5, <1>6, <1>7, <1>8, <1>11, GreedyIsAhead
<1> QED
  BY <1>5, <1>12

(* A node that rounds to zero in a new gap is one that GreedyBridge finds. *)
LEMMA VanishesInGap ==
  ASSUME Valid, NEW s, NEW F, Greedy!Chosen(s) = F, F \subseteq 0..Terminal,
         NEW l, NEW r, IsGap(l, r, F)
  PROVE  /\ Unusable(l, r) => \E m \in Greedy!Open(s) : Greedy!Vanishes(m, s)
         /\ \A m : l < m /\ m < r /\ m \in Greedy!Open(s) /\ Greedy!Vanishes(m, s) => Unusable(l, r)
<1>1. /\ l \in 0..Terminal /\ r \in 0..Terminal /\ Terminal \in Nat
      /\ \A n \in F : n \in Int /\ (n <= l \/ n >= r)
  BY DEF IsGap, Valid
<1>2. ASSUME Unusable(l, r) PROVE \E m \in Greedy!Open(s) : Greedy!Vanishes(m, s)
  <2>1. PICK m \in l + 1..r - 1 : RoundsToZero(Candidate(l, m, r))
    BY <1>2 DEF Unusable, Inner
  <2>2. Greedy!Vanishes(m, s)
    BY <2>1, NearestChosen
  <2>3. m \in 0..Terminal /\ m \notin F
    BY <1>1, <2>1
  <2>4. m \in Greedy!Open(s)
    BY <2>3 DEF Greedy!Open, Valid
  <2> QED
    BY <2>2, <2>4
<1>3. ASSUME NEW m, l < m, m < r, m \in Greedy!Open(s), Greedy!Vanishes(m, s)
      PROVE  Unusable(l, r)
  <2>1. m \in 0..Terminal
    BY <1>3 DEF Greedy!Open, Valid
  <2>2. m \in l + 1..r - 1
    BY <1>1, <1>3, <2>1
  <2>3. RoundsToZero(Candidate(l, m, r))
    BY <1>3, <2>2, NearestChosen
  <2> QED
    BY <2>2, <2>3 DEF Unusable, Inner
<1> QED
  BY <1>2, <1>3

(* A split is refused when some open node rounds to zero, not only one of  *)
(* the two new gaps: the others had none before.                           *)
LEMMA SplitVanishes ==
  ASSUME Valid, NEW hp, NEW F, Covers(hp, F), NEW c \in hp, NEW s,
         Greedy!Chosen(s) = F \cup {c.node}
  PROVE  (\E m \in Greedy!Open(s) : Greedy!Vanishes(m, s))
           <=> Unusable(c.left, c.node) \/ Unusable(c.node, c.right)
<1> DEFINE l == c.left
           n == c.node
           r == c.right
           G == F \cup {n}
<1>1. /\ G \subseteq 0..Terminal
      /\ IsGap(l, n, G) /\ IsGap(n, r, G) /\ \A d \in hp : d # c => IsGap(d.left, d.right, G)
  BY SplitGaps
<1>2. Greedy!Chosen(s) = G
  OBVIOUS
<1>3. n \in Int /\ Terminal \in Nat
  BY HeapCandidate DEF Valid
<1> HIDE DEF G
<1>4. Unusable(l, n) \/ Unusable(n, r) => \E m \in Greedy!Open(s) : Greedy!Vanishes(m, s)
  BY <1>1, <1>2, VanishesInGap
<1>5. ASSUME NEW m \in Greedy!Open(s), Greedy!Vanishes(m, s)
      PROVE  Unusable(l, n) \/ Unusable(n, r)
  <2>1. m \in (0..Terminal) \ F /\ m # n /\ m \in Int
    BY <1>2, <1>3 DEF Greedy!Open, G, Valid
  <2>2. PICK d \in hp : d.left < m /\ m < d.right
    BY <2>1 DEF Covers
  <2>3. CASE d # c
    <3>1. Unusable(d.left, d.right)
      BY <1>1, <1>2, <1>5, <2>2, <2>3, VanishesInGap
    <3> QED
      BY <3>1 DEF Covers
  <2>4. CASE d = c /\ m < n
    BY <1>1, <1>2, <1>5, <2>2, <2>4, VanishesInGap
  <2>5. CASE d = c /\ n < m
    BY <1>1, <1>2, <1>5, <2>2, <2>5, VanishesInGap
  <2> QED
    BY <1>3, <2>1, <2>3, <2>4, <2>5
<1> QED
  BY <1>4, <1>5

(* Nothing is open exactly when the heap is empty.                         *)
LEMMA NothingOpen ==
  ASSUME Valid, NEW hp, NEW s, Covers(hp, Greedy!Chosen(s))
  PROVE  Greedy!Open(s) = {} <=> hp = {}
<1>1. \A m \in Greedy!Open(s) : \E c \in hp : c.left < m
  BY DEF Greedy!Open, Valid, Covers
<1>2. ASSUME NEW c \in hp PROVE c.node \in Greedy!Open(s)
  BY HeapCandidate DEF Greedy!Open, Valid
<1> QED
  BY <1>1, <1>2
-----------------------------------------------------------------------------
(* The plan, while it is compiled and afterwards.                          *)
Instruction ==
  [kind : {"terminal"}, node : Int, rank : Int, up : Int, down : Int]
    \cup [kind : {"interior"}, node : Int, left : Int, right : Int, rank : Int, up : Int, down : Int]

FilledBy(ins, n) == {0} \cup {ins[j].node : j \in 1..n}

(* ReadsFilledNodes, of one instruction.                                   *)
ReadsAt(ins, j) ==
  LET i == ins[j] IN
  /\ i.node \notin FilledBy(ins, j - 1)
  /\ \A k \in 1..j - 1 : ins[k].rank # i.rank
  /\ i.kind = "interior" => /\ {i.left, i.right} \subseteq FilledBy(ins, j - 1)
                            /\ i.left < i.node /\ i.node < i.right
                            /\ \A n \in FilledBy(ins, j - 1) : n <= i.left \/ n >= i.right

PlannedBy(ins, hp) ==
  /\ ins \in Seq(Instruction) /\ Len(ins) >= 1
  /\ \A j \in 1..Len(ins) : ins[j].rank = j - 1 /\ ReadsAt(ins, j)
  /\ Covers(hp, FilledBy(ins, Len(ins)))

(* The inductive invariant.                                                *)
BridgeInv ==
  /\ Arguments
  /\ phase \in {"validate", "failed"} => instructions = <<>> /\ heap = {}
  /\ phase \notin {"validate", "failed"} => Refusal = "none" /\ PlannedBy(instructions, heap)
  /\ phase # "compile" => heap = {}

(* What is said of the arguments of compile stays true while they stay.    *)
LEMMA SameGrid ==
  ASSUME UNCHANGED compiled
  PROVE  /\ Arguments' <=> Arguments
         /\ Refusal' = Refusal
         /\ Valid' <=> Valid
         /\ Terminal' = Terminal
<1>1. times' = times /\ factors' = factors /\ precision' = precision
  BY DEF compiled
<1>2. Intervals' = Intervals /\ EffectiveDimension' = EffectiveDimension
  BY <1>1 DEF Intervals, EffectiveDimension
<1>3. Terminal' = Terminal
  BY <1>2 DEF Terminal
<1>4. Arguments' <=> Arguments
  BY <1>1 DEF Arguments
<1>5. Refusal' = Refusal
  BY <1>1, <1>2 DEF Refusal
<1>6. Valid' <=> Valid
  BY <1>1, <1>3 DEF Valid
<1> QED
  BY <1>3, <1>4, <1>5, <1>6

(* A plan is read the same way while the arguments stay.                   *)
LEMMA SamePlan ==
  ASSUME UNCHANGED compiled, PlannedBy(instructions', heap')
  PROVE  PlannedBy(instructions, heap)'
<1>1. times' = times /\ factors' = factors /\ precision' = precision /\ Terminal' = Terminal
  BY SameGrid DEF compiled
<1>2. \A l, n, r : Candidate(l, n, r)' = Candidate(l, n, r)
  BY <1>1 DEF Candidate
<1>3. \A l, r : Inner(l, r)' = Inner(l, r)
  BY <1>2 DEF Inner
<1>4. \A c, d : Above(c, d)' <=> Above(c, d)
  BY <1>1 DEF Above
<1>5. \A l, r : IntervalBest(l, r)' = IntervalBest(l, r)
  BY <1>3, <1>4 DEF IntervalBest
<1>6. \A l, r : Unusable(l, r)' <=> Unusable(l, r)
  BY <1>1, <1>3 DEF Unusable, RoundsToZero
<1> QED
  BY <1>1, <1>5, <1>6 DEF PlannedBy, Covers

(* What one instruction more fills.                                        *)
LEMMA FilledNext ==
  ASSUME NEW ins \in Seq(Instruction), NEW i \in Instruction
  PROVE  LET new == Append(ins, i)
         IN  /\ \A n \in 0..Len(ins) : FilledBy(new, n) = FilledBy(ins, n)
             /\ FilledBy(new, Len(new)) = FilledBy(ins, Len(ins)) \cup {i.node}
<1> DEFINE new == Append(ins, i)
<1>1. /\ new \in Seq(Instruction) /\ Len(new) = Len(ins) + 1 /\ Len(ins) \in Nat
      /\ \A j \in 1..Len(ins) : new[j] = ins[j]
      /\ new[Len(ins) + 1] = i
  BY Appended
<1> HIDE DEF new
<1>2. ASSUME NEW n \in 0..Len(ins) PROVE FilledBy(new, n) = FilledBy(ins, n)
  <2>1. \A j \in 1..n : new[j] = ins[j]
    BY <1>1
  <2> QED
    BY <2>1 DEF FilledBy
<1>3. FilledBy(new, Len(new)) = FilledBy(ins, Len(ins)) \cup {i.node}
  <2>1. \A j \in 1..Len(ins) + 1 : j \in 1..Len(ins) \/ j = Len(ins) + 1
    BY <1>1
  <2>2. \A j \in 1..Len(ins) : j \in 1..Len(ins) + 1
    BY <1>1
  <2>3. Len(ins) + 1 \in 1..Len(ins) + 1
    BY <1>1
  <2> QED
    BY <1>1, <2>1, <2>2, <2>3 DEF FilledBy
<1> QED
  BY <1>2, <1>3 DEF new

(* One instruction more, from a gap to a new node, with the next rank.     *)
LEMMA AppendPlans ==
  ASSUME NEW ins, NEW hp, NEW new, NEW i \in Instruction, ins \in Seq(Instruction),
         \A j \in 1..Len(ins) : ins[j].rank = j - 1 /\ ReadsAt(ins, j),
         i.rank = Len(ins), i.node \notin FilledBy(ins, Len(ins)),
         i.kind = "interior" => IsGap(i.left, i.right, FilledBy(ins, Len(ins)))
                                /\ i.left < i.node /\ i.node < i.right,
         new = Append(ins, i), Covers(hp, FilledBy(ins, Len(ins)) \cup {i.node})
  PROVE  PlannedBy(new, hp)
<1>1. /\ new \in Seq(Instruction) /\ Len(new) = Len(ins) + 1 /\ Len(ins) \in Nat
      /\ \A j \in 1..Len(ins) : new[j] = ins[j]
      /\ new[Len(ins) + 1] = i
  BY Appended
<1>2. /\ \A n \in 0..Len(ins) : FilledBy(new, n) = FilledBy(ins, n)
      /\ FilledBy(new, Len(new)) = FilledBy(ins, Len(ins)) \cup {i.node}
  BY FilledNext
<1>3. ASSUME NEW j \in 1..Len(new) PROVE new[j].rank = j - 1 /\ ReadsAt(new, j)
  <2>1. CASE j \in 1..Len(ins)
    <3>1. new[j] = ins[j] /\ j - 1 \in 0..Len(ins) /\ \A k \in 1..j - 1 : new[k] = ins[k]
      BY <1>1, <2>1
    <3>2. FilledBy(new, j - 1) = FilledBy(ins, j - 1)
      BY <1>2, <3>1
    <3>3. ReadsAt(ins, j) /\ ins[j].rank = j - 1
      BY <2>1
    <3> QED
      BY <3>1, <3>2, <3>3 DEF ReadsAt
  <2>2. CASE j = Len(ins) + 1
    <3>1. new[j] = i /\ j - 1 = Len(ins) /\ Len(ins) \in 0..Len(ins)
      BY <1>1, <2>2
    <3>2. FilledBy(new, j - 1) = FilledBy(ins, Len(ins))
      BY <1>2, <3>1
    <3>3. \A k \in 1..j - 1 : new[k].rank # i.rank
      <4>1. \A k \in 1..Len(ins) : new[k].rank = k - 1 /\ k - 1 # Len(ins)
        BY <1>1
      <4> QED
        BY <3>1, <4>1
    <3> QED
      BY <3>1, <3>2, <3>3 DEF ReadsAt, IsGap
  <2> QED
    BY <1>1, <2>1, <2>2
<1>4. Len(new) >= 1
  <2>1. Len(new) = Len(ins) + 1 /\ Len(ins) \in Nat
    BY <1>1
  <2> QED
    BY <2>1
<1>5. Covers(hp, FilledBy(new, Len(new)))
  <2> DEFINE G == FilledBy(ins, Len(ins)) \cup {i.node}
  <2>1. FilledBy(new, Len(new)) = G
    BY <1>2
  <2>2. Covers(hp, G)
    OBVIOUS
  <2> HIDE DEF G
  <2> QED
    BY <2>1, <2>2
<1> QED
  BY <1>1, <1>3, <1>4, <1>5 DEF PlannedBy

(* The first instruction fills the end of the grid.                        *)
LEMMA StartPlans ==
  ASSUME Valid, ~Unusable(0, Terminal)
  PROVE  PlannedBy(<<TerminalInstruction>>, IntervalBest(0, Terminal))
<1> DEFINE i == TerminalInstruction
           empty == <<>>
<1>1. i \in Instruction /\ i.kind = "terminal" /\ i.node = Terminal /\ i.rank = 0
  <2>1. times[Terminal] \in Int /\ Terminal \in Int
    BY DEF Valid
  <2> QED
    BY <2>1 DEF TerminalInstruction, Instruction
<1>2. empty \in Seq(Instruction) /\ Len(empty) = 0 /\ FilledBy(empty, 0) = {0}
  BY DEF FilledBy
<1>3. <<i>> = Append(empty, i)
  OBVIOUS
<1>4. Terminal \notin {0} /\ {0} \cup {Terminal} = {0, Terminal}
  BY DEF Valid
<1>5. Covers(IntervalBest(0, Terminal), {0, Terminal})
  BY StartCovers
<1> DEFINE H == IntervalBest(0, Terminal)
<1> HIDE DEF i, empty, H
<1>6. /\ \A j \in 1..Len(empty) : empty[j].rank = j - 1 /\ ReadsAt(empty, j)
      /\ i.rank = Len(empty) /\ i.node \notin FilledBy(empty, Len(empty))
      /\ ~(i.kind = "interior")
  BY <1>1, <1>2, <1>4
<1>7. Covers(H, FilledBy(empty, Len(empty)) \cup {i.node})
  <2>1. FilledBy(empty, Len(empty)) \cup {i.node} = {0, Terminal}
    BY <1>1, <1>2, <1>4
  <2>2. Covers(H, {0, Terminal})
    BY <1>5 DEF H
  <2> QED
    BY <2>1, <2>2
<1> DEFINE new == Append(empty, i)
<1>8. new = Append(empty, i)
  OBVIOUS
<1> HIDE DEF new
<1>9. PlannedBy(new, H)
  BY <1>1, <1>2, <1>6, <1>7, <1>8, AppendPlans
<1> QED
  BY <1>3, <1>9 DEF i, H, new

(* A split adds an instruction between two that are there.                 *)
LEMMA SplitPlans ==
  ASSUME Valid, PlannedBy(instructions, heap), NEW c \in heap,
         ~Unusable(c.left, c.node), ~Unusable(c.node, c.right)
  PROVE  PlannedBy(Append(instructions, InteriorInstruction(c)),
                   (heap \ {c}) \cup IntervalBest(c.left, c.node)
                                \cup IntervalBest(c.node, c.right))
<1> DEFINE i == InteriorInstruction(c)
           F == FilledBy(instructions, Len(instructions))
           H == (heap \ {c}) \cup IntervalBest(c.left, c.node) \cup IntervalBest(c.node, c.right)
<1>1. Covers(heap, F) /\ instructions \in Seq(Instruction)
  BY DEF PlannedBy
<1>2. /\ c.left \in Int /\ c.right \in Int /\ c.node \in Int /\ c.up \in Int /\ c.down \in Int
      /\ c.node \notin F /\ c.left < c.node /\ c.node < c.right /\ IsGap(c.left, c.right, F)
  <2>1. Terminal \in Nat
    BY DEF Valid
  <2>2. IsGap(c.left, c.right, F)
    BY <1>1 DEF Covers
  <2> HIDE DEF F
  <2>3. /\ c.left \in 0..Terminal /\ c.right \in 0..Terminal /\ c.node \in Int /\ c.up \in Int
        /\ c.down \in Int /\ c.node \notin F /\ c.left < c.node /\ c.node < c.right
    BY <1>1, HeapCandidate
  <2> QED
    BY <2>1, <2>2, <2>3
<1>3. /\ i.kind = "interior" /\ i.node = c.node /\ i.left = c.left /\ i.right = c.right
      /\ i.rank = Len(instructions) /\ i \in Instruction
  BY <1>1, <1>2 DEF InteriorInstruction, Instruction
<1>4. Covers(H, F \cup {c.node})
  BY <1>1, SplitCovers
<1>5. \A j \in 1..Len(instructions) : instructions[j].rank = j - 1 /\ ReadsAt(instructions, j)
  BY DEF PlannedBy
<1> DEFINE new == Append(instructions, i)
<1> HIDE DEF i, H
<1>6. PlannedBy(new, H)
  BY <1>1, <1>2, <1>3, <1>4, <1>5, AppendPlans
<1> QED
  BY <1>6 DEF i, H

(* It holds before compile.                                                *)
LEMMA BridgeInit == Init => BridgeInv
  BY DEF Init, BridgeInv, Arguments

(* Every step keeps it.                                                    *)
LEMMA BridgeStep ==
  ASSUME BridgeInv, [Next]_vars
  PROVE  BridgeInv'
<1>1. /\ Arguments
      /\ phase \in {"validate", "failed"} => instructions = <<>> /\ heap = {}
      /\ phase \notin {"validate", "failed"} => Refusal = "none" /\ PlannedBy(instructions, heap)
      /\ phase # "compile" => heap = {}
  BY DEF BridgeInv
<1>2. ASSUME NEW why, Reject(why) PROVE BridgeInv'
  BY <1>1, <1>2, SameGrid DEF Reject, BridgeInv
<1>3. CASE Invalid
  BY <1>2, <1>3 DEF Invalid
<1>4. CASE StartCompile
  <2>1. CASE Unusable(0, Terminal)
    BY <1>2, <1>4, <2>1 DEF StartCompile
  <2>2. CASE ~Unusable(0, Terminal)
    <3>1. /\ UNCHANGED compiled /\ phase' = "compile" /\ Refusal = "none"
          /\ instructions' = <<TerminalInstruction>> /\ heap' = IntervalBest(0, Terminal)
      BY <1>4, <2>2 DEF StartCompile
    <3>2. Valid
      BY <1>1, <3>1, AcceptedIsValid
    <3>3. PlannedBy(instructions', heap')
      BY <2>2, <3>1, <3>2, StartPlans
    <3> QED
      BY <1>1, <3>1, <3>3, SameGrid, SamePlan DEF BridgeInv
  <2> QED
    BY <2>1, <2>2
<1>5. ASSUME NEW c \in heap, Split(c) PROVE BridgeInv'
  <2>1. CASE Unusable(c.left, c.node) \/ Unusable(c.node, c.right)
    BY <1>2, <1>5, <2>1 DEF Split
  <2>2. CASE ~Unusable(c.left, c.node) /\ ~Unusable(c.node, c.right)
    <3>1. /\ UNCHANGED compiled /\ phase = "compile" /\ phase' = "compile"
          /\ instructions' = Append(instructions, InteriorInstruction(c))
          /\ heap' = (heap \ {c}) \cup IntervalBest(c.left, c.node)
                                  \cup IntervalBest(c.node, c.right)
      BY <1>5, <2>2 DEF Split
    <3>2. Refusal = "none" /\ PlannedBy(instructions, heap)
      BY <1>1, <3>1
    <3>3. Valid
      BY <1>1, <3>2, AcceptedIsValid
    <3>4. PlannedBy(instructions', heap')
      BY <2>2, <3>1, <3>2, <3>3, SplitPlans
    <3> QED
      BY <1>1, <3>1, <3>2, <3>4, SameGrid, SamePlan DEF BridgeInv
  <2> QED
    BY <2>1, <2>2
<1>6. ASSUME UNCHANGED plan, phase' = phase
             \/ /\ phase \in {"compile", "apply", "applied", "reverse"} /\ heap = {}
                /\ phase' \in {"apply", "applied", "reverse", "reversed"}
      PROVE  BridgeInv'
  <2>1. UNCHANGED compiled /\ heap' = heap /\ instructions' = instructions
    BY <1>6 DEF plan, compiled
  <2>2. PlannedBy(instructions, heap) => PlannedBy(instructions, heap)'
    BY <2>1, SamePlan
  <2> QED
    BY <1>1, <1>6, <2>1, <2>2, SameGrid DEF BridgeInv
<1>7. CASE StartApply
  BY <1>6, <1>7 DEF StartApply
<1>8. CASE ApplyInstruction
  BY <1>6, <1>8 DEF ApplyInstruction
<1>9. CASE FinishFactor
  BY <1>1, <1>6, <1>9 DEF FinishFactor
<1>10. ASSUME NEW k \in 0..Intervals - 1, StartReverse(k) PROVE BridgeInv'
  BY <1>1, <1>6, <1>10 DEF StartReverse
<1>11. CASE ReverseInstruction
  BY <1>6, <1>11 DEF ReverseInstruction
<1>12. CASE FinishReverse
  BY <1>1, <1>6, <1>12 DEF FinishReverse
<1>13. CASE UNCHANGED vars
  BY <1>6, <1>13 DEF vars, plan
<1> QED
  BY <1>3, <1>4, <1>5, <1>7, <1>8, <1>9, <1>10, <1>11, <1>12, <1>13 DEF Next
-----------------------------------------------------------------------------
(* What the plan says of the abstract order of nodes.                      *)
Order(ins) == [j \in DOMAIN ins |-> ins[j].node]

(* The chosen nodes are the filled ones.                                   *)
LEMMA ChosenIsFilled ==
  ASSUME NEW ins \in Seq(Instruction)
  PROVE  Greedy!Chosen(Order(ins)) = FilledBy(ins, Len(ins))
<1>1. DOMAIN ins = 1..Len(ins)
  OBVIOUS
<1>2. DOMAIN Order(ins) = 1..Len(ins) /\ \A j \in 1..Len(ins) : Order(ins)[j] = ins[j].node
  BY <1>1 DEF Order
<1> QED
  BY <1>2 DEF Greedy!Chosen, FilledBy

(* One instruction more is one node more.                                  *)
LEMMA OrderAppends ==
  ASSUME NEW ins \in Seq(Instruction), NEW i \in Instruction
  PROVE  Order(Append(ins, i)) = Append(Order(ins), i.node)
<1> DEFINE new == Append(ins, i)
           old == Order(ins)
           left == Order(new)
           right == Append(old, i.node)
<1>1. /\ new \in Seq(Instruction) /\ Len(new) = Len(ins) + 1 /\ Len(ins) \in Nat
      /\ \A j \in 1..Len(ins) : new[j] = ins[j]
      /\ new[Len(ins) + 1] = i
  BY Appended
<1>2. old \in Seq({ins[j].node : j \in 1..Len(ins)}) /\ Len(old) = Len(ins)
  BY DEF Order
<1>3. /\ DOMAIN left = 1..Len(ins) + 1
      /\ \A j \in 1..Len(ins) + 1 : left[j] = new[j].node
  BY <1>1 DEF Order
<1>4. \A j \in 1..Len(ins) : old[j] = ins[j].node
  BY DEF Order
<1> DEFINE S == {ins[j].node : j \in 1..Len(ins)} \cup {i.node}
<1>5. old \in Seq(S) /\ i.node \in S
  BY <1>2
<1> HIDE DEF S, old, new, left
<1>6. /\ right \in Seq(S) /\ Len(right) = Len(old) + 1
      /\ \A j \in 1..Len(old) : right[j] = old[j]
      /\ right[Len(old) + 1] = i.node
  BY <1>5, Appended
<1>7. /\ DOMAIN right = 1..Len(ins) + 1
      /\ \A j \in 1..Len(ins) : right[j] = old[j]
      /\ right[Len(ins) + 1] = i.node
  BY <1>1, <1>2, <1>6
<1> HIDE DEF right
<1>8. \A j \in 1..Len(ins) + 1 : left[j] = right[j]
  <2>1. \A j \in 1..Len(ins) + 1 : j \in 1..Len(ins) \/ j = Len(ins) + 1
    BY <1>1
  <2> QED
    BY <1>1, <1>3, <1>4, <1>7, <2>1
<1>9. left = [j \in 1..Len(ins) + 1 |-> left[j]]
  BY <1>3 DEF left, Order
<1>10. right = [j \in 1..Len(ins) + 1 |-> right[j]]
  BY <1>6, <1>7
<1>11. left = right
  BY <1>8, <1>9, <1>10
<1> QED
  BY <1>11 DEF left, right, new, old

(* No instruction, no node.                                                *)
LEMMA NoOrder == Order(<<>>) = <<>>
  BY DEF Order

-----------------------------------------------------------------------------
(* Compiling implements the greedy choice, step by step.                   *)
LEMMA GreedyMoves ==
  ASSUME NEW n \in Greedy!Open(Order(instructions)), NEW s, s = Append(Order(instructions), n),
         UNCHANGED compiled, Refusal = "none",
         phase = "validate" \/ (phase = "compile" /\ heap # {}), Greedy!IsNext(n),
         IF \E m \in Greedy!Open(s) : Greedy!Vanishes(m, s)
         THEN phase' = "failed" /\ instructions' = <<>>
         ELSE /\ phase' = "compile" /\ Order(instructions') = s
              /\ heap' = {} <=> Greedy!Open(s) = {}
  PROVE  Greedy!Next
<1>1. times' = times /\ precision' = precision /\ Refusal' = "none"
  BY SameGrid DEF compiled
<1>2. CASE \E m \in Greedy!Open(s) : Greedy!Vanishes(m, s)
  <2>1. phase' = "failed" /\ Order(instructions') = <<>>
    BY <1>2, NoOrder
  <2>2. Greedy!Refuse(n)
    BY <1>1, <1>2, <2>1 DEF Greedy!Refuse, Order
  <2> QED
    BY <2>2 DEF Greedy!Next, Order
<1>3. CASE \A m \in Greedy!Open(s) : ~Greedy!Vanishes(m, s)
  <2>1. /\ phase' = "compile" /\ Order(instructions') = s
        /\ heap' = {} <=> Greedy!Open(Order(instructions')) = {}
    BY <1>3
  <2>2. Greedy!Choose(n)
    BY <1>1, <1>3, <2>1 DEF Greedy!Choose, Order
  <2> QED
    BY <2>2 DEF Greedy!Next, Order
<1> QED
  BY <1>2, <1>3

(* Every other step leaves what GreedyBridge sees alone.                   *)
LEMMA GreedyStutters ==
  ASSUME UNCHANGED <<compiled, heap, instructions>>,
         \/ Refusal # "none"
         \/ phase' = phase
         \/ phase \notin {"validate", "failed"} /\ phase' \notin {"validate", "failed"}
  PROVE  UNCHANGED Greedy!vars
<1>1. times' = times /\ precision' = precision /\ Refusal' = Refusal
  BY SameGrid DEF compiled
<1> QED
  BY <1>1 DEF Greedy!vars

(* The first choice is the end of the grid.                                *)
LEMMA StartIsGreedy ==
  ASSUME BridgeInv, StartCompile
  PROVE  Greedy!Next
<1> DEFINE n == Terminal
           s == Append(Order(instructions), n)
           ins == <<TerminalInstruction>>
<1>1. /\ phase = "validate" /\ Refusal = "none" /\ instructions = <<>> /\ Arguments
      /\ UNCHANGED compiled
      /\ Unusable(0, Terminal) => phase' = "failed" /\ instructions' = <<>>
      /\ ~Unusable(0, Terminal) => /\ phase' = "compile" /\ instructions' = ins
                                   /\ heap' = IntervalBest(0, Terminal)
  BY DEF BridgeInv, StartCompile, Reject, compiled
<1>2. Valid
  BY <1>1, AcceptedIsValid
<1>3. Terminal \in Nat /\ Terminal >= 1 /\ DOMAIN times = 0..Terminal
  BY <1>2 DEF Valid
<1>4. Order(instructions) = <<>> /\ Greedy!Chosen(<<>>) = {0}
  BY <1>1, NoOrder DEF Greedy!Chosen
<1>5. n \in Greedy!Open(Order(instructions))
  BY <1>3, <1>4 DEF Greedy!Open
<1>6. Greedy!IsNext(n)
  <2>1. Greedy!Last = Terminal
    <3>1. \A k \in 0..Terminal : (\A m \in 0..Terminal : m <= k) => k = Terminal
      BY <1>3
    <3>2. Terminal \in 0..Terminal /\ \A m \in 0..Terminal : m <= Terminal
      BY <1>3
    <3> QED
      BY <1>3, <3>1, <3>2 DEF Greedy!Last
  <2> QED
    BY <1>4, <2>1 DEF Greedy!IsNext, Order
<1>7. Order(ins) = s
  <2>1. Order(ins) = <<Terminal>>
    BY DEF Order, TerminalInstruction
  <2>2. s = <<Terminal>>
    BY <1>4
  <2> QED
    BY <2>1, <2>2
<1>8. Greedy!Chosen(s) = {0, Terminal}
  <2>1. s = <<Terminal>> /\ DOMAIN s = {1} /\ s[1] = Terminal
    BY <1>4
  <2> HIDE DEF s
  <2> QED
    BY <2>1 DEF Greedy!Chosen
<1> HIDE DEF s, n, ins
<1>9. (\E m \in Greedy!Open(s) : Greedy!Vanishes(m, s)) <=> Unusable(0, Terminal)
  <2>1. IsGap(0, Terminal, {0, Terminal}) /\ {0, Terminal} \subseteq 0..Terminal
    BY <1>3 DEF IsGap
  <2>2. \A m \in Greedy!Open(s) : 0 < m /\ m < Terminal
    BY <1>3, <1>8 DEF Greedy!Open
  <2> QED
    BY <1>2, <1>8, <2>1, <2>2, VanishesInGap
<1>10. ~Unusable(0, Terminal) => (heap' = {} <=> Greedy!Open(s) = {})
  <2>1. ~Unusable(0, Terminal) => Covers(heap', Greedy!Chosen(s))
    BY <1>1, <1>2, <1>8, StartCovers
  <2> QED
    BY <1>2, <2>1, NothingOpen
<1>11. s = Append(Order(instructions), n)
  BY DEF s
<1>12. IF \E m \in Greedy!Open(s) : Greedy!Vanishes(m, s)
       THEN phase' = "failed" /\ instructions' = <<>>
       ELSE /\ phase' = "compile" /\ Order(instructions') = s
            /\ heap' = {} <=> Greedy!Open(s) = {}
  BY <1>1, <1>7, <1>9, <1>10
<1> QED
  BY <1>1, <1>5, <1>6, <1>11, <1>12, GreedyMoves

(* Each later choice is the top of the heap.                               *)
LEMMA SplitIsGreedy ==
  ASSUME BridgeInv, NEW c \in heap, Split(c)
  PROVE  Greedy!Next
<1> DEFINE old == Order(instructions)
           s == Append(old, c.node)
           F == FilledBy(instructions, Len(instructions))
           i == InteriorInstruction(c)
           H == (heap \ {c}) \cup IntervalBest(c.left, c.node) \cup IntervalBest(c.node, c.right)
           bad == Unusable(c.left, c.node) \/ Unusable(c.node, c.right)
<1>1. /\ phase = "compile" /\ Refusal = "none" /\ PlannedBy(instructions, heap) /\ Arguments
      /\ UNCHANGED compiled /\ \A d \in heap : c = d \/ Above(c, d)
      /\ bad => phase' = "failed" /\ instructions' = <<>>
      /\ ~bad => phase' = "compile" /\ instructions' = Append(instructions, i) /\ heap' = H
  BY DEF BridgeInv, Split, Reject, compiled
<1>2. Valid
  BY <1>1, AcceptedIsValid
<1>3. instructions \in Seq(Instruction) /\ Len(instructions) >= 1 /\ Covers(heap, F)
  BY <1>1 DEF PlannedBy
<1>4. Greedy!Chosen(old) = F
  BY <1>3, ChosenIsFilled
<1> HIDE DEF F
<1>5. /\ c.node \in 0..Terminal /\ c.node \notin F
      /\ c.left \in Int /\ c.right \in Int /\ c.node \in Int /\ c.up \in Int /\ c.down \in Int
  <2>1. c.left \in 0..Terminal /\ c.right \in 0..Terminal
    BY <1>2, <1>3, HeapCandidate
  <2> QED
    BY <1>2, <1>3, <2>1, HeapCandidate
<1>6. i \in Instruction /\ i.node = c.node
  BY <1>3, <1>5 DEF InteriorInstruction, Instruction
<1>7. Order(Append(instructions, i)) = s
  BY <1>3, <1>6, OrderAppends
<1>8. Greedy!Chosen(s) = F \cup {c.node}
  <2>1. Append(instructions, i) \in Seq(Instruction)
    BY <1>3, <1>6, Appended
  <2>2. Greedy!Chosen(Order(Append(instructions, i)))
          = FilledBy(Append(instructions, i), Len(Append(instructions, i)))
    BY <2>1, ChosenIsFilled
  <2>3. FilledBy(Append(instructions, i), Len(Append(instructions, i))) = F \cup {i.node}
    BY <1>3, <1>6, FilledNext DEF F
  <2> QED
    BY <1>6, <1>7, <2>2, <2>3
<1>9. c.node \in Greedy!Open(old)
  BY <1>2, <1>4, <1>5 DEF Greedy!Open, Valid
<1>10. Greedy!IsNext(c.node)
  <2>1. Len(old) # 0
    BY <1>3 DEF Order
  <2>2. old # <<>>
    BY <2>1
  <2>3. \A m \in Greedy!Open(old) : Greedy!AtLeastAsUncertain(c.node, m, old)
    <3>1. Covers(heap, Greedy!Chosen(old))
      BY <1>3, <1>4
    <3> HIDE DEF old
    <3> QED
      BY <1>1, <1>2, <3>1, TopIsNext
  <2> QED
    BY <2>2, <2>3 DEF Greedy!IsNext, Order
<1> HIDE DEF old, i, H
<1>11. (\E m \in Greedy!Open(s) : Greedy!Vanishes(m, s)) <=> bad
  BY <1>2, <1>3, <1>8, SplitVanishes
<1>12. ~bad => (heap' = {} <=> Greedy!Open(s) = {})
  <2>1. ~bad => Covers(heap', Greedy!Chosen(s))
    BY <1>1, <1>2, <1>3, <1>8, SplitCovers DEF H
  <2> QED
    BY <1>2, <2>1, NothingOpen
<1>13. s = Append(Order(instructions), c.node)
  BY DEF old
<1> HIDE DEF s, bad
<1>14. IF \E m \in Greedy!Open(s) : Greedy!Vanishes(m, s)
       THEN phase' = "failed" /\ instructions' = <<>>
       ELSE /\ phase' = "compile" /\ Order(instructions') = s
            /\ heap' = {} <=> Greedy!Open(s) = {}
  BY <1>1, <1>7, <1>11, <1>12
<1>15. heap # {} /\ c.node \in Greedy!Open(Order(instructions))
  BY <1>9 DEF old
<1> QED
  BY <1>1, <1>10, <1>13, <1>14, <1>15, GreedyMoves
-----------------------------------------------------------------------------
(* While it is compiled, the heap has one candidate for each gap, and the  *)
(* finished plan reads only what is filled.                                *)
LEMMA CoveredGaps ==
  ASSUME Valid, NEW hp, NEW F, Covers(hp, F)
  PROVE  LET gaps == {g \in F \X F : /\ g[1] + 1 < g[2]
                                     /\ \A n \in F : n <= g[1] \/ n >= g[2]}
         IN  /\ {<<c.left, c.right>> : c \in hp} = gaps
             /\ Cardinality(hp) = Cardinality(gaps)
<1> DEFINE gaps == {g \in F \X F : /\ g[1] + 1 < g[2]
                                   /\ \A n \in F : n <= g[1] \/ n >= g[2]}
           f == [c \in hp |-> <<c.left, c.right>>]
<1>1. F \subseteq 0..Terminal /\ Terminal \in Nat
  BY DEF Covers, Valid
<1>2. ASSUME NEW c \in hp PROVE <<c.left, c.right>> \in gaps
  <2>1. /\ c.left \in F /\ c.right \in F /\ \A n \in F : n <= c.left \/ n >= c.right
    BY DEF Covers, IsGap
  <2>2. c.left \in Int /\ c.right \in Int /\ c.node \in Int
    BY <1>1, <2>1, HeapCandidate
  <2>3. c.left < c.node /\ c.node < c.right
    BY HeapCandidate
  <2>4. c.left + 1 < c.right
    BY <2>2, <2>3
  <2> QED
    BY <2>1, <2>4
<1>3. ASSUME NEW g \in gaps PROVE \E c \in hp : g = <<c.left, c.right>>
  <2> DEFINE l == g[1]
             r == g[2]
  <2>1. /\ g = <<l, r>> /\ l \in F /\ r \in F /\ l + 1 < r /\ \A n \in F : n <= l \/ n >= r
    BY <1>3
  <2> HIDE DEF l, r
  <2>2. l \in Int /\ r \in Int /\ l + 1 \in (0..Terminal) \ F
    BY <1>1, <2>1
  <2>3. PICK c \in hp : c.left < l + 1 /\ l + 1 < c.right
    BY <2>2 DEF Covers
  <2>4. /\ c.left \in F /\ c.right \in F /\ \A n \in F : n <= c.left \/ n >= c.right
    BY DEF Covers, IsGap
  <2>5. c.left \in Int /\ c.right \in Int
    <3>1. c.left \in 0..Terminal /\ c.right \in 0..Terminal
      BY HeapCandidate
    <3> QED
      BY <3>1
  <2>6. c.left = l
    <3>1. l <= c.left \/ l >= c.right
      BY <2>1, <2>4
    <3> QED
      BY <2>2, <2>3, <2>5, <3>1
  <2>7. c.right = r
    <3>1. (r <= c.left \/ r >= c.right) /\ (c.right <= l \/ c.right >= r)
      BY <2>1, <2>4
    <3> QED
      BY <2>1, <2>2, <2>3, <2>5, <2>6, <3>1
  <2> QED
    BY <2>1, <2>6, <2>7
<1>4. IsFiniteSet(gaps)
  <2>1. IsFiniteSet(0..Terminal)
    BY <1>1, FS_Interval
  <2>2. IsFiniteSet((0..Terminal) \X (0..Terminal))
    BY <2>1, FS_Product
  <2>3. gaps \in SUBSET ((0..Terminal) \X (0..Terminal))
    BY <1>1
  <2> QED
    BY <2>2, <2>3, FS_Subset
<1> HIDE DEF gaps
<1>5. f \in [hp -> gaps]
  BY <1>2
<1>6. ASSUME NEW c \in hp, NEW d \in hp, f[c] = f[d] PROVE c = d
  <2>1. c.left = d.left /\ c.right = d.right
    BY <1>6
  <2>2. c \in IntervalBest(c.left, c.right) /\ d \in IntervalBest(c.left, c.right)
    BY <2>1 DEF Covers
  <2>3. c.left \in 0..Terminal /\ c.right \in 0..Terminal
    BY HeapCandidate
  <2> QED
    BY <2>2, <2>3, BestIsOne
<1>7. f \in Injection(hp, gaps)
  BY <1>5, <1>6 DEF Injection, IsInjective
<1>8. f \in Surjection(hp, gaps)
  BY <1>3, <1>5 DEF Surjection
<1>9. Cardinality(hp) = Cardinality(gaps)
  BY <1>4, <1>7, <1>8, FS_Injection
<1>10. {<<c.left, c.right>> : c \in hp} = gaps
  BY <1>2, <1>3
<1> QED
  BY <1>9, <1>10 DEF gaps

(* When no gap is left, the plan has filled the grid.  Each instruction    *)
(* fills a node of its own, so that there are as many as nodes after the   *)
(* first.                                                                  *)
LEMMA CoveredGrid ==
  ASSUME Valid, NEW ins, PlannedBy(ins, {})
  PROVE  /\ FilledBy(ins, Len(ins)) = 0..Terminal
         /\ Len(ins) = Terminal
<1> DEFINE N == Len(ins)
           F == FilledBy(ins, N)
           f == [j \in 1..N |-> ins[j].node]
<1>1. N \in Nat /\ Terminal \in Nat /\ Covers({}, F)
  BY DEF PlannedBy, Valid
<1>2. F = 0..Terminal
  BY <1>1 DEF Covers
<1>3. ASSUME NEW j \in 1..N
      PROVE  ins[j].node # 0 /\ \A k \in 1..j - 1 : ins[j].node # ins[k].node
  BY DEF PlannedBy, ReadsAt, FilledBy
<1>4. ASSUME NEW j \in 1..N PROVE ins[j].node \in 1..Terminal
  <2>1. ins[j].node \in 0..Terminal
    BY <1>2 DEF FilledBy
  <2> QED
    BY <1>1, <1>3, <2>1
<1>5. f \in [1..N -> 1..Terminal]
  BY <1>4
<1>6. ASSUME NEW j \in 1..N, NEW k \in 1..N, f[j] = f[k] PROVE j = k
  <2>1. ~(j < k) /\ ~(k < j)
    BY <1>1, <1>3, <1>6
  <2> QED
    BY <1>1, <2>1
<1>7. ASSUME NEW n \in 1..Terminal PROVE \E j \in 1..N : f[j] = n
  <2>1. n \in F /\ n # 0
    BY <1>1, <1>2
  <2> QED
    BY <2>1 DEF FilledBy
<1>8. f \in Injection(1..N, 1..Terminal) /\ f \in Surjection(1..N, 1..Terminal)
  BY <1>5, <1>6, <1>7 DEF Injection, IsInjective, Surjection
<1>9. /\ IsFiniteSet(1..Terminal) /\ Cardinality(1..Terminal) = Terminal
      /\ IsFiniteSet(1..N) /\ Cardinality(1..N) = N
  <2>1. ASSUME NEW m \in Nat PROVE IsFiniteSet(1..m) /\ Cardinality(1..m) = m
    <3>1. /\ IsFiniteSet(1..m)
          /\ Cardinality(1..m) = IF 1 > m THEN 0 ELSE m - 1 + 1
      BY FS_Interval
    <3> QED
      BY <3>1
  <2> HIDE DEF N
  <2> QED
    BY <1>1, <2>1
<1>10. Cardinality(1..N) = Cardinality(1..Terminal)
  BY <1>8, <1>9, FS_Injection
<1> QED
  BY <1>2, <1>9, <1>10

(* The invariant implies what the run checks of the plan and of the heap.  *)
LEMMA BridgeFacts ==
  ASSUME BridgeInv
  PROVE  PlanFillsGrid
<1>1. ReadsFilledNodes
  <2>1. CASE phase \in {"validate", "failed"}
    BY <2>1 DEF BridgeInv, ReadsFilledNodes
  <2>2. CASE phase \notin {"validate", "failed"}
    <3>1. PlannedBy(instructions, heap)
      BY <2>2 DEF BridgeInv
    <3>2. /\ DOMAIN instructions = 1..Len(instructions)
          /\ \A j \in 1..Len(instructions) : ReadsAt(instructions, j)
      BY <3>1 DEF PlannedBy
    <3> QED
      BY <3>2 DEF ReadsFilledNodes, ReadsAt, FilledBy, Filled
  <2> QED
    BY <2>1, <2>2
<1>2. HeapCoversGaps
  <2> SUFFICES ASSUME phase = "compile" PROVE HeapCoversGaps
    BY DEF HeapCoversGaps
  <2>1. Refusal = "none" /\ PlannedBy(instructions, heap) /\ Arguments
    BY DEF BridgeInv
  <2> DEFINE F == Filled(Len(instructions))
  <2>2. Covers(heap, F)
    BY <2>1 DEF PlannedBy, FilledBy, Filled
  <2>3. Valid
    BY <2>1, AcceptedIsValid
  <2> HIDE DEF F
  <2>4. LET gaps == {g \in F \X F : /\ g[1] + 1 < g[2]
                                    /\ \A n \in F : n <= g[1] \/ n >= g[2]}
        IN  /\ {<<c.left, c.right>> : c \in heap} = gaps
            /\ Cardinality(heap) = Cardinality(gaps)
    BY <2>2, <2>3, CoveredGaps
  <2> QED
    BY <2>4 DEF HeapCoversGaps, F
<1>3. Complete
  <2> SUFFICES ASSUME phase \notin {"validate", "compile", "failed"} PROVE Complete
    BY DEF Complete
  <2>1. Refusal = "none" /\ PlannedBy(instructions, {}) /\ Arguments
    BY DEF BridgeInv
  <2>2. Valid
    BY <2>1, AcceptedIsValid
  <2>3. /\ FilledBy(instructions, Len(instructions)) = 0..Terminal
        /\ Len(instructions) = Terminal
    BY <2>1, <2>2, CoveredGrid
  <2>4. DOMAIN times = 0..Terminal /\ Terminal \in Nat
    BY <2>2 DEF Valid
  <2>5. /\ DOMAIN instructions = 1..Len(instructions)
        /\ \A j \in 1..Len(instructions) : instructions[j].rank = j - 1
    BY <2>1 DEF PlannedBy
  <2>6. {instructions[j].rank : j \in DOMAIN instructions} = 0..Terminal - 1
    <3>1. \A j \in 1..Terminal : instructions[j].rank \in 0..Terminal - 1
      BY <2>3, <2>4, <2>5
    <3>2. ASSUME NEW r \in 0..Terminal - 1
          PROVE  r + 1 \in 1..Terminal /\ instructions[r + 1].rank = r
      BY <2>3, <2>4, <2>5
    <3>3. DOMAIN instructions = 1..Terminal
      BY <2>3, <2>5
    <3>4. \A r \in 0..Terminal - 1 : \E j \in DOMAIN instructions : instructions[j].rank = r
      BY <3>2, <3>3
    <3>5. \A j \in DOMAIN instructions : instructions[j].rank \in 0..Terminal - 1
      BY <3>1, <3>3
    <3> QED
      BY <3>4, <3>5
  <2>7. Filled(Len(instructions)) = DOMAIN times
    BY <2>3, <2>4 DEF Filled, FilledBy
  <2>8. Terminal = Intervals
    BY DEF Terminal
  <2> QED
    BY <2>3, <2>6, <2>7, <2>8 DEF Complete
<1> QED
  BY <1>1, <1>2, <1>3 DEF PlanFillsGrid

(* Before compile, nothing is chosen.                                      *)
LEMMA GreedyInit == ASSUME Init PROVE Greedy!Init
<1>1. Order(instructions) = <<>> /\ phase = "validate"
  BY NoOrder DEF Init
<1> QED
  BY <1>1 DEF Greedy!Init, Order

(* Every step of the bridge is one of GreedyBridge, or a stutter.          *)
LEMMA GreedyStep ==
  ASSUME BridgeInv, [Next]_vars
  PROVE  [Greedy!Next]_(Greedy!vars)
<1>1. CASE Invalid
  <2>1. UNCHANGED <<compiled, heap, instructions>> /\ Refusal # "none"
    BY <1>1 DEF Invalid, Reject, BridgeInv
  <2> QED
    BY <2>1, GreedyStutters
<1>2. CASE StartCompile
  BY <1>2, StartIsGreedy
<1>3. ASSUME NEW c \in heap, Split(c) PROVE Greedy!Next
  BY <1>3, SplitIsGreedy
<1>4. ASSUME UNCHANGED plan,
             phase' = phase \/ (phase \notin {"validate", "failed"}
                                 /\ phase' \notin {"validate", "failed"})
      PROVE  UNCHANGED Greedy!vars
  <2>1. UNCHANGED <<compiled, heap, instructions>>
    BY <1>4 DEF plan, compiled
  <2> QED
    BY <1>4, <2>1, GreedyStutters
<1>5. CASE StartApply
  BY <1>4, <1>5 DEF StartApply
<1>6. CASE ApplyInstruction
  BY <1>4, <1>6 DEF ApplyInstruction
<1>7. CASE FinishFactor
  BY <1>4, <1>7 DEF FinishFactor
<1>8. ASSUME NEW k \in 0..Intervals - 1, StartReverse(k) PROVE UNCHANGED Greedy!vars
  BY <1>4, <1>8 DEF StartReverse
<1>9. CASE ReverseInstruction
  BY <1>4, <1>9 DEF ReverseInstruction
<1>10. CASE FinishReverse
  BY <1>4, <1>10 DEF FinishReverse
<1>11. CASE UNCHANGED vars
  BY <1>4, <1>11 DEF vars, plan
<1> QED
  BY <1>1, <1>2, <1>3, <1>5, <1>6, <1>7, <1>8, <1>9, <1>10, <1>11 DEF Next

(* Compiling a bridge never chooses a node that some open node is ahead    *)
(* of, and never goes on when an open node rounds to zero, for every grid  *)
(* and precision: the heap finds what a search of the whole grid finds     *)
(* (compile_instructions, bridge.rs).                                      *)
THEOREM BridgeChoosesGreedily == Spec => Greedy!Init /\ [][Greedy!Next]_(Greedy!vars)
<1>1. Init => Greedy!Init
  BY GreedyInit
<1>2. Init => BridgeInv
  BY BridgeInit
<1>3. BridgeInv /\ [Next]_vars => BridgeInv'
  BY BridgeStep
<1>4. BridgeInv /\ [Next]_vars => [Greedy!Next]_(Greedy!vars)
  BY GreedyStep
<1> QED
  BY <1>1, <1>2, <1>3, <1>4, PTL DEF Spec

(* However the heap cuts a grid up, every instruction of its plan reads    *)
(* the nearest nodes filled before it and fills a new one from a new       *)
(* normal, and the plan that apply and reverse_one_factor run leaves out   *)
(* no node and no normal (compile_instructions, bridge.rs).                *)
THEOREM BridgeFillsGrid == Spec => []PlanFillsGrid
<1>1. Init => BridgeInv
  BY BridgeInit
<1>2. BridgeInv /\ [Next]_vars => BridgeInv'
  BY BridgeStep
<1>3. BridgeInv => PlanFillsGrid
  BY BridgeFacts
<1> QED
  BY <1>1, <1>2, <1>3, PTL DEF Spec
=============================================================================
