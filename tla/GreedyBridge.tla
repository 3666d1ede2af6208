---------------------------- MODULE GreedyBridge ----------------------------
(***************************************************************************)
(* What compiling a Brownian bridge promises: the nodes of a time grid in  *)
(* an order in which each next node is, of all nodes not yet chosen, the   *)
(* one whose value is least known, that is, whose variance given the       *)
(* chosen nodes is largest; of equals, the earliest.  The compilation is   *)
(* refused when a variance that it needs rounds to zero.                   *)
(***************************************************************************)
EXTENDS Integers, Sequences

VARIABLES
  times,      \* the grid: 0 = times[0] < times[1] < ... < times[last]
  accepted,   \* do the grid and the number of factors meet the rules
  precision,  \* a variance below 1 / precision rounds to zero
  order,      \* the nodes chosen so far
  status      \* "choosing", "complete" or "refused"

vars == <<times, accepted, precision, order, status>>

Last == CHOOSE n \in DOMAIN times : \A m \in DOMAIN times : m <= n
Chosen(chosen) == {0} \cup {chosen[i] : i \in DOMAIN chosen}
Open(chosen) == DOMAIN times \ Chosen(chosen)

Before(n, chosen) == CHOOSE l \in Chosen(chosen) :
  l < n /\ \A k \in Chosen(chosen) : k < n => k <= l
After(n, chosen) == CHOOSE r \in Chosen(chosen) :
  r > n /\ \A k \in Chosen(chosen) : k > n => r <= k

(* The variance of node n given the chosen ones, as Up(n) / Down(n).       *)
Up(n, chosen) ==
  (times[n] - times[Before(n, chosen)]) * (times[After(n, chosen)] - times[n])
Down(n, chosen) == times[After(n, chosen)] - times[Before(n, chosen)]

Vanishes(n, chosen) == Up(n, chosen) * precision < Down(n, chosen)

AtLeastAsUncertain(n, m, chosen) ==
  LET a == Up(n, chosen) * Down(m, chosen)
      b == Up(m, chosen) * Down(n, chosen)
  IN  a > b \/ (a = b /\ n <= m)

IsNext(n) ==
  IF order = <<>> THEN n = Last
  ELSE \A m \in Open(order) : AtLeastAsUncertain(n, m, order)

Init == order = <<>> /\ status = IF accepted THEN "choosing" ELSE "refused"

Choose(n) ==
  /\ status = "choosing"
  /\ IsNext(n)
  /\ \A m \in Open(Append(order, n)) : ~Vanishes(m, Append(order, n))
  /\ order' = Append(order, n)
  /\ status' = IF Open(order') = {} THEN "complete" ELSE "choosing"
  /\ UNCHANGED <<times, accepted, precision>>

Refuse(n) ==
  /\ status = "choosing"
  /\ IsNext(n)
  /\ \E m \in Open(Append(order, n)) : Vanishes(m, Append(order, n))
  /\ order' = <<>>
  /\ status' = "refused"
  /\ UNCHANGED <<times, accepted, precision>>

Next == \E n \in Open(order) : Choose(n) \/ Refuse(n)

Spec == Init /\ [][Next]_vars /\ WF_vars(Next)
=============================================================================
