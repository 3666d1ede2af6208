---------------------------- MODULE SequenceFacts ----------------------------
(***************************************************************************)
(* Facts that the proofs of several modules need: induction over the       *)
(* naturals, functions defined by recursion along a sequence, what the     *)
(* operators on sequences return, and sums over a finite domain.           *)
(***************************************************************************)
EXTENDS Integers, Sequences, Functions, FiniteSetTheorems, WellFoundedInduction, TLAPS

(* A set with 0 that is closed under the successor has all of Nat: its     *)
(* complement can have no least element.                                   *)
LEMMA Induction ==
  ASSUME NEW T, 0 \in T, \A n \in Nat : n \in T => n + 1 \in T
  PROVE  \A n \in Nat : n \in T
<1> DEFINE R == OpToRel(<, Nat)
           out == {n \in Nat : n \notin T}
<1>1. IsWellFoundedOn(R, Nat)
  BY NatLessThanWellFounded
<1>2. \A x, y \in Nat : <<x, y>> \in R <=> x < y
  BY DEF OpToRel
<1>3. SUFFICES ASSUME out # {} PROVE FALSE
  OBVIOUS
<1> HIDE DEF R, out
<1>4. out \subseteq Nat
  BY DEF out
<1>5. PICK x \in out : \A y \in out : ~(<<y, x>> \in R)
  BY <1>1, <1>3, <1>4, WFMin
<1>6. x \in Nat /\ x \notin T /\ \A y \in Nat : y < x => y \in T
  BY <1>2, <1>4, <1>5 DEF out
<1>7. x # 0
  BY <1>6
<1>8. x - 1 \in Nat /\ x - 1 < x
  BY <1>6, <1>7
<1>9. (x - 1) + 1 \in T
  BY <1>6, <1>8
<1> QED
  BY <1>6, <1>9

(* A recursion that starts in a set and stays in it has a solution.        *)
LEMMA RecursionHasSolution ==
  ASSUME NEW S, NEW base \in S, NEW N \in Nat, NEW step \in [1..N -> [S -> S]]
  PROVE  \E f \in [0..N -> S] : /\ f[0] = base
                                /\ \A k \in 1..N : f[k] = step[k][f[k - 1]]
<1> DEFINE Solves(f, m) == /\ f \in [0..m -> S] /\ f[0] = base
                           /\ \A k \in 1..m : f[k] = step[k][f[k - 1]]
           T == {m \in Nat : m <= N => \E f : Solves(f, m)}
<1>1. 0 \in T
  <2>1. Solves([k \in 0..0 |-> base], 0)
    OBVIOUS
  <2> QED
    BY <2>1
<1>2. ASSUME NEW m \in Nat, m \in T PROVE m + 1 \in T
  <2>1. SUFFICES ASSUME m + 1 <= N PROVE \E f : Solves(f, m + 1)
    OBVIOUS
  <2>2. PICK f : Solves(f, m)
    BY <1>2, <2>1
  <2> DEFINE next == step[m + 1][f[m]]
             g == [k \in 0..m + 1 |-> IF k = m + 1 THEN next ELSE f[k]]
  <2>3. m + 1 \in 1..N /\ f[m] \in S
    BY <2>1, <2>2
  <2>4. next \in S
    BY <2>3
  <2> HIDE DEF next
  <2>5. g \in [0..m + 1 -> S] /\ g[0] = base
    BY <2>2, <2>4
  <2>6. ASSUME NEW k \in 1..m + 1 PROVE g[k] = step[k][g[k - 1]]
    <3>1. CASE k = m + 1
      BY <3>1 DEF next
    <3>2. CASE k \in 1..m
      BY <2>2, <3>2
    <3> QED
      BY <3>1, <3>2
  <2>7. Solves(g, m + 1)
    BY <2>5, <2>6
  <2> QED
    BY <2>7
<1> HIDE DEF T
<1>3. N \in T
  BY <1>1, <1>2, Induction
<1> QED
  BY <1>3 DEF T

(* A sequence over a set is one over every larger set.                     *)
LEMMA SeqWidens ==
  ASSUME NEW S, NEW T, S \subseteq T, NEW s \in Seq(S)
  PROVE  s \in Seq(T)
  OBVIOUS

(* Sequences with the same elements are the same.                          *)
LEMMA SameElements ==
  ASSUME NEW S, NEW s \in Seq(S), NEW t \in Seq(S), Len(s) = Len(t),
         \A i \in 1..Len(s) : s[i] = t[i]
  PROVE  s = t
  OBVIOUS

(* What Append returns.                                                    *)
LEMMA Appended ==
  ASSUME NEW S, NEW s \in Seq(S), NEW x \in S
  PROVE  /\ Append(s, x) \in Seq(S) /\ Len(Append(s, x)) = Len(s) + 1
         /\ \A i \in 1..Len(s) : Append(s, x)[i] = s[i]
         /\ Append(s, x)[Len(s) + 1] = x
  OBVIOUS

(* The first n elements of a sequence.                                     *)
LEMMA FirstElements ==
  ASSUME NEW S, NEW s \in Seq(S), NEW n \in 0..Len(s)
  PROVE  /\ SubSeq(s, 1, n) \in Seq(S) /\ Len(SubSeq(s, 1, n)) = n
         /\ \A i \in 1..n : SubSeq(s, 1, n)[i] = s[i]
         /\ n = Len(s) => SubSeq(s, 1, n) = s
<1>1. /\ SubSeq(s, 1, n) \in Seq(S) /\ Len(SubSeq(s, 1, n)) = n
      /\ \A i \in 1..n : SubSeq(s, 1, n)[i] = s[i]
  OBVIOUS
<1>2. n = Len(s) => SubSeq(s, 1, n) = s
  BY <1>1, SameElements
<1> QED
  BY <1>1, <1>2

(* Appending does not change the first n elements.                         *)
LEMMA PrefixKept ==
  ASSUME NEW S, NEW s \in Seq(S), NEW x \in S, NEW n \in 0..Len(s)
  PROVE  SubSeq(Append(s, x), 1, n) = SubSeq(s, 1, n)
<1> DEFINE a == SubSeq(Append(s, x), 1, n)
           b == SubSeq(s, 1, n)
<1>1. Append(s, x) \in Seq(S) /\ n \in 0..Len(Append(s, x))
      /\ \A i \in 1..n : Append(s, x)[i] = s[i]
  OBVIOUS
<1>2. a \in Seq(S) /\ Len(a) = n /\ \A i \in 1..n : a[i] = s[i]
  BY <1>1, FirstElements
<1>3. b \in Seq(S) /\ Len(b) = n /\ \A i \in 1..n : b[i] = s[i]
  BY FirstElements
<1> HIDE DEF a, b
<1>4. a = b
  BY <1>2, <1>3, SameElements
<1> QED
  BY <1>4 DEF a, b
-----------------------------------------------------------------------------
(* SumFunction, the sum of a function's values over a finite domain.       *)

Pick(s) == CHOOSE x \in s : TRUE

(* The partial sums of f over the subsets of its domain.                   *)
PartialSums(f, it) ==
  [s \in SUBSET DOMAIN f |-> IF s = {} THEN 0 ELSE f[Pick(s)] + it[s \ {Pick(s)}]]

LEMMA SmallerSets ==
  ASSUME NEW D, IsFiniteSet(D), NEW s \in SUBSET D
  PROVE  /\ IsFiniteSet(s) /\ Cardinality(s) \in Nat /\ Cardinality(s) <= Cardinality(D)
         /\ Cardinality(s) = 0 <=> s = {}
         /\ \A x \in s : Cardinality(s \ {x}) = Cardinality(s) - 1
         /\ s # {} => Pick(s) \in s
<1>1. IsFiniteSet(s) /\ Cardinality(s) <= Cardinality(D)
  BY FS_Subset
<1>2. Cardinality(s) \in Nat
  BY <1>1, FS_CardinalityType
<1>3. Cardinality(s) = 0 <=> s = {}
  BY <1>1, FS_EmptySet
<1>4. \A x \in s : Cardinality(s \ {x}) = Cardinality(s) - 1
  BY <1>1, FS_RemoveElement
<1>5. s # {} => Pick(s) \in s
  BY DEF Pick
<1> QED
  BY <1>1, <1>2, <1>3, <1>4, <1>5

LEMMA PartialSumsExist ==
  ASSUME NEW D, IsFiniteSet(D), NEW f \in [D -> Int]
  PROVE  \E it \in [SUBSET D -> Int] : it = PartialSums(f, it)
<1> DEFINE Next1(it, s) == IF s = {} THEN 0 ELSE f[Pick(s)] + it[s \ {Pick(s)}]
           UpTo(it, n) == \A s \in SUBSET D : Cardinality(s) <= n => it[s] = Next1(it, s)
           T == {n \in Nat : \E it \in [SUBSET D -> Int] : UpTo(it, n)}
<1>1. 0 \in T
  <2> DEFINE it == [s \in SUBSET D |-> 0]
  <2>1. it \in [SUBSET D -> Int]
    OBVIOUS
  <2>2. UpTo(it, 0)
    <3>1. ASSUME NEW s \in SUBSET D, Cardinality(s) <= 0 PROVE it[s] = Next1(it, s)
      <4>1. s = {}
        BY <3>1, SmallerSets
      <4> QED
        BY <4>1
    <3> QED
      BY <3>1
  <2> HIDE DEF it, UpTo
  <2> QED
    BY <2>1, <2>2
<1>2. ASSUME NEW n \in Nat, n \in T PROVE n + 1 \in T
  <2>1. PICK it \in [SUBSET D -> Int] : UpTo(it, n)
    BY <1>2
  <2> DEFINE jt == [s \in SUBSET D |-> IF Cardinality(s) <= n THEN it[s] ELSE Next1(it, s)]
  <2>2. ASSUME NEW s \in SUBSET D
        PROVE  /\ jt[s] \in Int
               /\ Cardinality(s) <= n + 1 => jt[s] = Next1(jt, s)
    <3>1. CASE s = {}
      <4>1. Cardinality(s) = 0
        BY <3>1, SmallerSets
      <4>2. jt[s] = it[s] /\ it[s] = Next1(it, s)
        BY <2>1, <4>1
      <4> QED
        BY <3>1, <4>2
    <3>2. CASE s # {}
      <4> DEFINE x == Pick(s)
                 r == s \ {x}
      <4>1. x \in s /\ x \in D /\ r \in SUBSET D /\ f[x] \in Int /\ it[r] \in Int
        BY <3>2, SmallerSets
      <4>2. Cardinality(r) = Cardinality(s) - 1 /\ Cardinality(s) \in Nat
        BY <4>1, SmallerSets
      <4>3. Next1(it, s) = f[x] + it[r] /\ Next1(jt, s) = f[x] + jt[r]
        BY <3>2
      <4> HIDE DEF Next1, x, r
      <4>4. Next1(it, s) \in Int
        BY <4>1, <4>3
      <4>5. jt[s] \in Int
        BY <2>1, <4>4
      <4>6. jt[s] = Next1(it, s)
        BY <2>1
      <4>7. Cardinality(s) <= n + 1 => jt[r] = it[r]
        BY <4>1, <4>2
      <4> QED
        BY <4>3, <4>5, <4>6, <4>7
    <3> QED
      BY <3>1, <3>2
  <2> HIDE DEF Next1
  <2>3. jt \in [SUBSET D -> Int]
    BY <2>2
  <2>4. UpTo(jt, n + 1)
    BY <2>2
  <2> HIDE DEF jt, UpTo
  <2> QED
    BY <2>3, <2>4
<1>3. Cardinality(D) \in Nat
  BY FS_CardinalityType
<1> HIDE DEF T
<1>4. Cardinality(D) \in T
  BY <1>1, <1>2, <1>3, Induction
<1>5. PICK it \in [SUBSET D -> Int] : UpTo(it, Cardinality(D))
  BY <1>4 DEF T
<1>6. \A s \in SUBSET D : it[s] = Next1(it, s)
  BY <1>5, SmallerSets
<1>7. it = PartialSums(f, it)
  BY <1>6 DEF PartialSums
<1> QED
  BY <1>7

(* The partial sum over a set only depends on the values on that set.      *)
LEMMA PartialSumsAgree ==
  ASSUME NEW D, IsFiniteSet(D), NEW E \in SUBSET D, NEW f, DOMAIN f = D, NEW g, DOMAIN g = E,
         \A x \in E : g[x] = f[x], NEW it, it = PartialSums(f, it), NEW jt, jt = PartialSums(g, jt)
  PROVE  \A s \in SUBSET E : jt[s] = it[s]
<1> DEFINE T == {n \in Nat : \A s \in SUBSET E : Cardinality(s) <= n => jt[s] = it[s]}
<1>0. IsFiniteSet(E) /\ Cardinality(E) \in Nat
  BY SmallerSets
<1>1. ASSUME NEW s \in SUBSET E
      PROVE  /\ it[s] = IF s = {} THEN 0 ELSE f[Pick(s)] + it[s \ {Pick(s)}]
             /\ jt[s] = IF s = {} THEN 0 ELSE g[Pick(s)] + jt[s \ {Pick(s)}]
  BY DEF PartialSums
<1>2. 0 \in T
  <2>1. ASSUME NEW s \in SUBSET E, Cardinality(s) <= 0 PROVE jt[s] = it[s]
    <3>1. s = {}
      BY <1>0, <2>1, SmallerSets
    <3> QED
      BY <1>1, <3>1
  <2> QED
    BY <2>1
<1>3. ASSUME NEW n \in Nat, n \in T PROVE n + 1 \in T
  <2>1. ASSUME NEW s \in SUBSET E, Cardinality(s) <= n + 1 PROVE jt[s] = it[s]
    <3>1. CASE s = {}
      BY <1>1, <3>1
    <3>2. CASE s # {}
      <4> DEFINE x == Pick(s)
                 r == s \ {x}
      <4>1. x \in s /\ x \in E /\ r \in SUBSET E
        BY <1>0, <3>2, SmallerSets
      <4>2. Cardinality(r) = Cardinality(s) - 1 /\ Cardinality(s) \in Nat
        BY <1>0, <4>1, SmallerSets
      <4>3. it[s] = f[x] + it[r] /\ jt[s] = g[x] + jt[r]
        BY <1>1, <3>2
      <4> HIDE DEF x, r
      <4>4. Cardinality(r) <= n
        BY <2>1, <4>2
      <4>5. jt[r] = it[r]
        BY <1>3, <4>1, <4>4
      <4> QED
        BY <4>1, <4>3, <4>5
    <3> QED
      BY <3>1, <3>2
  <2> QED
    BY <2>1
<1> HIDE DEF T
<1>4. Cardinality(E) \in T
  BY <1>0, <1>2, <1>3, Induction
<1> QED
  BY <1>0, <1>4, SmallerSets DEF T

(* The sum is the last of the partial sums.                                *)
LEMMA SumIsPartial ==
  ASSUME NEW D, IsFiniteSet(D), NEW f \in [D -> Int]
  PROVE  \E it \in [SUBSET D -> Int] : it = PartialSums(f, it) /\ SumFunction(f) = it[D]
<1> DEFINE sol == CHOOSE it : it = PartialSums(f, it)
<1>1. PICK it \in [SUBSET D -> Int] : it = PartialSums(f, it)
  BY PartialSumsExist
<1>2. sol = PartialSums(f, sol)
  BY <1>1
<1>3. SumFunction(f) = sol[D]
  BY DEF SumFunction, SumFunctionOnSet, FoldFunctionOnSet, MapThenFoldSet, PartialSums, Pick
<1> HIDE DEF sol
<1>4. \A s \in SUBSET D : sol[s] = it[s]
  BY <1>1, <1>2, PartialSumsAgree
<1> QED
  BY <1>1, <1>3, <1>4

(* Sums(f, it) holds when it[s] is the sum of f over s.                    *)
Sums(f, it) ==
  LET D == DOMAIN f
  IN  /\ it \in [SUBSET D -> Int] /\ it[{}] = 0 /\ SumFunction(f) = it[D]
      /\ \A s \in SUBSET D : \A x \in s : it[s] = f[x] + it[s \ {x}]
      /\ \A s \in SUBSET D : SumFunction([x \in s |-> f[x]]) = it[s]

LEMMA SumsExist ==
  ASSUME NEW D, IsFiniteSet(D), NEW f \in [D -> Int]
  PROVE  \E it : Sums(f, it)
<1>1. PICK it \in [SUBSET D -> Int] : it = PartialSums(f, it) /\ SumFunction(f) = it[D]
  BY SumIsPartial
<1>2. /\ it[{}] = 0
      /\ \A s \in SUBSET D : s # {} => it[s] = f[Pick(s)] + it[s \ {Pick(s)}]
  BY <1>1 DEF PartialSums
<1> DEFINE T == {n \in Nat : \A s \in SUBSET D : Cardinality(s) <= n =>
                               \A x \in s : it[s] = f[x] + it[s \ {x}]}
<1>3. Cardinality(D) \in Nat
  BY SmallerSets
<1>4. 0 \in T
  BY SmallerSets
<1>5. ASSUME NEW n \in Nat, n \in T PROVE n + 1 \in T
  <2>1. ASSUME NEW s \in SUBSET D, Cardinality(s) <= n + 1, NEW x \in s
        PROVE  it[s] = f[x] + it[s \ {x}]
    <3> DEFINE y == Pick(s)
               a == s \ {x}
               b == s \ {y}
               c == s \ {x, y}
    <3>1. y \in s /\ it[s] = f[y] + it[b]
      BY <1>2, SmallerSets
    <3>2. CASE x = y
      BY <3>1, <3>2
    <3>3. CASE x # y
      <4>1. /\ a \in SUBSET D /\ b \in SUBSET D /\ c \in SUBSET D
            /\ y \in a /\ x \in b /\ a \ {y} = c /\ b \ {x} = c
        BY <3>1, <3>3
      <4>2. Cardinality(a) <= n /\ Cardinality(b) <= n
        BY <2>1, <3>1, SmallerSets
      <4>3. f[x] \in Int /\ f[y] \in Int /\ it[c] \in Int
        BY <1>1, <3>1, <4>1
      <4> HIDE DEF a, b, c, y, T
      <4>4. it[a] = f[y] + it[c] /\ it[b] = f[x] + it[c]
        BY <1>5, <4>1, <4>2 DEF T
      <4>5. it[s] = f[x] + it[a]
        BY <3>1, <4>3, <4>4
      <4> QED
        BY <4>5 DEF a
    <3> QED
      BY <3>2, <3>3
  <2> QED
    BY <2>1
<1>6. Cardinality(D) \in T
  <2> HIDE DEF T
  <2> QED
    BY <1>3, <1>4, <1>5, Induction
<1>7. \A s \in SUBSET D : \A x \in s : it[s] = f[x] + it[s \ {x}]
  BY <1>6, SmallerSets
<1>8. ASSUME NEW s \in SUBSET D PROVE SumFunction([x \in s |-> f[x]]) = it[s]
  <2> DEFINE g == [x \in s |-> f[x]]
  <2>1. IsFiniteSet(s) /\ g \in [s -> Int] /\ DOMAIN g = s /\ \A x \in s : g[x] = f[x]
    BY SmallerSets
  <2> HIDE DEF g
  <2>2. PICK jt \in [SUBSET s -> Int] : jt = PartialSums(g, jt) /\ SumFunction(g) = jt[s]
    BY <2>1, SumIsPartial
  <2>3. DOMAIN f = D
    OBVIOUS
  <2>4. \A r \in SUBSET s : jt[r] = it[r]
    BY <1>1, <2>1, <2>2, <2>3, PartialSumsAgree
  <2> QED
    BY <2>2, <2>4 DEF g
<1>9. Sums(f, it)
  <2>1. DOMAIN f = D
    OBVIOUS
  <2> QED
    BY <1>1, <1>2, <1>7, <1>8, <2>1 DEF Sums
<1> QED
  BY <1>9

LEMMA SumType ==
  ASSUME NEW D, IsFiniteSet(D), NEW f \in [D -> Int]
  PROVE  SumFunction(f) \in Int /\ (D = {} => SumFunction(f) = 0)
<1>1. PICK it : Sums(f, it)
  BY SumsExist
<1> QED
  BY <1>1 DEF Sums

(* The sum without one of the summands.                                    *)
LEMMA SumWithout ==
  ASSUME NEW D, IsFiniteSet(D), NEW f \in [D -> Int], NEW x \in D
  PROVE  LET rest == SumFunction([y \in D \ {x} |-> f[y]])
         IN  rest \in Int /\ SumFunction(f) = f[x] + rest
<1>1. PICK it : Sums(f, it)
  BY SumsExist
<1>2. D \in SUBSET D /\ D \ {x} \in SUBSET D /\ DOMAIN f = D
  OBVIOUS
<1> QED
  BY <1>1, <1>2 DEF Sums

(* Changing one summand changes the sum by as much.                        *)
LEMMA SumChanges ==
  ASSUME NEW D, IsFiniteSet(D), NEW f \in [D -> Int], NEW g \in [D -> Int], NEW c \in D,
         \A x \in D : x # c => g[x] = f[x]
  PROVE  SumFunction(g) = SumFunction(f) - f[c] + g[c]
<1> DEFINE rest(h) == SumFunction([y \in D \ {c} |-> h[y]])
<1>1. /\ rest(f) \in Int /\ SumFunction(f) = f[c] + rest(f)
      /\ rest(g) \in Int /\ SumFunction(g) = g[c] + rest(g)
  BY SumWithout
<1>2. [y \in D \ {c} |-> f[y]] = [y \in D \ {c} |-> g[y]]
  OBVIOUS
<1>3. rest(f) = rest(g)
  BY <1>2
<1>4. f[c] \in Int /\ g[c] \in Int
  OBVIOUS
<1> HIDE DEF rest
<1> QED
  BY <1>1, <1>3, <1>4

(* Summands that are zero do not count.                                    *)
LEMMA SumOfNonzero ==
  ASSUME NEW D, IsFiniteSet(D), NEW f \in [D -> Int], NEW E \in SUBSET D,
         \A x \in D \ E : f[x] = 0
  PROVE  SumFunction([x \in E |-> f[x]]) = SumFunction(f)
<1>1. PICK it : Sums(f, it)
  BY SumsExist
<1>2. DOMAIN f = D
  OBVIOUS
<1>3. /\ it \in [SUBSET D -> Int] /\ SumFunction(f) = it[D]
      /\ SumFunction([x \in E |-> f[x]]) = it[E]
      /\ \A s \in SUBSET D : \A x \in s : it[s] = f[x] + it[s \ {x}]
  BY <1>1, <1>2 DEF Sums
<1> DEFINE T == {n \in Nat : \A s \in SUBSET D : E \subseteq s /\ Cardinality(s) <= n => it[s] = it[E]}
<1>4. 0 \in T
  BY SmallerSets
<1>5. ASSUME NEW n \in Nat, n \in T PROVE n + 1 \in T
  <2>1. ASSUME NEW s \in SUBSET D, E \subseteq s, Cardinality(s) <= n + 1
        PROVE  it[s] = it[E]
    <3>1. CASE s = E
      BY <3>1
    <3>2. CASE s # E
      <4>1. PICK x \in s : x \notin E
        BY <2>1, <3>2
      <4>2. /\ s \ {x} \in SUBSET D /\ E \subseteq s \ {x} /\ Cardinality(s \ {x}) <= n
            /\ f[x] = 0
        BY <2>1, <4>1, SmallerSets
      <4>3. it[s \ {x}] = it[E]
        BY <1>5, <4>2
      <4>4. it[s] = f[x] + it[s \ {x}] /\ it[E] \in Int
        BY <1>3
      <4> QED
        BY <4>2, <4>3, <4>4
    <3> QED
      BY <3>1, <3>2
  <2> QED
    BY <2>1
<1> HIDE DEF T
<1>6. Cardinality(D) \in T /\ Cardinality(D) \in Nat
  BY <1>4, <1>5, SmallerSets, Induction
<1>7. it[D] = it[E]
  BY <1>6 DEF T
<1> QED
  BY <1>3, <1>7
=============================================================================
