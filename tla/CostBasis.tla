------------------------------ MODULE CostBasis ------------------------------
(***************************************************************************)
(* The moving-average cost book of cost_basis.py: what a fill, a payoff    *)
(* fixing and a claim payment do to the book, and what its report adds up. *)
(*                                                                         *)
(* A slot is a pair <<group, instrument>>.  A slot without a position has  *)
(* quantity 0 and average 0: the code pops the dictionary entry when the   *)
(* new quantity is zero.  Prices and averages are integers in a unit small *)
(* enough that every average the checked instances form is exact (the      *)
(* report of an inexact one would not reconcile); the contract multiplier  *)
(* only scales a price and is taken as 1.                                  *)
(***************************************************************************)
EXTENDS Integers, Functions

Groups == {"targets", "hedges", "stock"}

(* math.copysign(1, x) for x # 0, abs(x) and min(a, b).                    *)
SignOf(x) == IF x > 0 THEN 1 ELSE IF x < 0 THEN -1 ELSE 0
Magnitude(x) == IF x < 0 THEN -x ELSE x
Smaller(a, b) == IF a <= b THEN a ELSE b

(* A book over the slots Slots; claims hold the signed face amount that a  *)
(* fixed payoff left to be paid.                                           *)
NewBook(Slots) ==
  [quantity |-> [s \in Slots |-> 0],
   average  |-> [s \in Slots |-> 0],
   claims   |-> {},
   realized |-> [g \in Groups |-> 0],
   spread   |-> [g \in Groups |-> 0]]

BookType(Slots, Claims) ==
  [quantity : [Slots -> Int],
   average  : [Slots -> Int],
   claims   : SUBSET Claims,
   realized : [Groups -> Int],
   spread   : [Groups -> Int]]

(* A trade opens when the slot is flat or the trade has its direction.     *)
Opens(old, quantity) == old = 0 \/ (old > 0) = (quantity > 0)

WeightedPrice(old, average, quantity, price) ==
  Magnitude(old) * average + Magnitude(quantity) * price

AverageAfter(old, average, quantity, price) ==
  IF old + quantity = 0 THEN 0
  ELSE IF Opens(old, quantity)
    THEN WeightedPrice(old, average, quantity, price)
           \div Magnitude(old + quantity)
  ELSE IF Magnitude(quantity) < Magnitude(old) THEN average ELSE price

(* Mutant: realizes as if every closed position were long.                 *)
MutRealizedLong(old, average, quantity, price) ==
  IF Opens(old, quantity) THEN 0
  ELSE Smaller(Magnitude(old), Magnitude(quantity)) * (price - average)

RealizedBy(old, average, quantity, price) ==
  IF Opens(old, quantity) THEN 0
  ELSE SignOf(old) * Smaller(Magnitude(old), Magnitude(quantity))
         * (price - average)

(* trade(): book a signed fill at price, the mid giving its spread cost.   *)
Trade(book, slot, quantity, price, mid) ==
  LET old == book.quantity[slot]
      avg == book.average[slot]
  IN  IF quantity = 0 THEN book
      ELSE [book EXCEPT
              !.quantity[slot]    = old + quantity,
              !.average[slot]     = AverageAfter(old, avg, quantity, price),
              !.realized[slot[1]] = @ + RealizedBy(old, avg, quantity, price),
              !.spread[slot[1]]   = @ - quantity * (price - mid)]

SignedCost(book, slot) == book.quantity[slot] * book.average[slot]

(* fix(): the option turns into a claim at its face amount; the payoff     *)
(* minus the option's cost is realized.                                    *)
FixPosition(book, slot, amount, keepClaim) ==
  [book EXCEPT
     !.quantity[slot]    = 0,
     !.average[slot]     = 0,
     !.realized[slot[1]] = @ + amount - SignedCost(book, slot),
     !.claims            = IF keepClaim
                             THEN @ \union {[slot |-> slot, amount |-> amount]}
                             ELSE @]

(* pay(): the claim leaves the book and amount minus its face is realized. *)
PayClaim(book, claim, amount) ==
  [book EXCEPT
     !.realized[claim.slot[1]] = @ + amount - claim.amount,
     !.claims                  = @ \ {claim}]

OpenCost(book, group) ==
  SumFunction([s \in {x \in DOMAIN book.quantity : x[1] = group} |-> SignedCost(book, s)])

ClaimCost(book, group) ==
  SumFunction([c \in {x \in book.claims : x.slot[1] = group} |-> c.amount])

(* report(): realized plus unrealized P&L of a group whose positions and   *)
(* claims are worth value.                                                 *)
TotalPnl(book, group, value) ==
  book.realized[group] + value - OpenCost(book, group) - ClaimCost(book, group)

SpreadTotal(book) ==
  book.spread["targets"] + book.spread["hedges"] + book.spread["stock"]
=============================================================================
