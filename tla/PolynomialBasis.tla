-------------------------- MODULE PolynomialBasis --------------------------
(***************************************************************************)
(* The polynomial basis of an exercise regression and its number of        *)
(* columns (engine/mc/lsm.rs, PolynomialBasisSpec).                        *)
(***************************************************************************)
EXTENDS Integers, Sequences, SequencesExt

(* basis_column_count: the products are divided as they are formed.        *)
ColumnCount(features, degree) ==
  IF features = 0 THEN 1
  ELSE LET n == features + degree
           k == IF degree < features THEN degree ELSE features
       IN  FoldLeft(LAMBDA value, i : (value * (n - k + i)) \div i, 1, [i \in 1..k |-> i])

(* enumerate_degree: the exponents of "features" features that sum to      *)
(* "remaining", the exponent of the first one descending.                  *)
LastExponent(remaining) == <<<<remaining>>>>

Enumerate(features, degree) ==
  LET rows[k \in 1..features, remaining \in 0..degree] ==
        IF k = 1 THEN LastExponent(remaining)
        ELSE FlattenSeq([i \in 1..remaining + 1 |->
               LET exponent == remaining + 1 - i
                   rest == rows[k - 1, i - 1]
               IN  [n \in DOMAIN rest |-> <<exponent>> \o rest[n]]])
  IN  rows[features, degree]

(* PolynomialBasisSpec::new: the degrees ascending.                        *)
Exponents(features, degree) ==
  IF features = 0 THEN <<<<>>>>
  ELSE FlattenSeq([d \in 1..degree + 1 |-> Enumerate(features, d - 1)])

(* evaluate_monomial.                                                      *)
Monomial(x, exponents) ==
  FoldLeft(LAMBDA value, k : IF exponents[k] = 0 THEN value ELSE value * x[k]^exponents[k],
           1, [k \in DOMAIN exponents |-> k])
=============================================================================
