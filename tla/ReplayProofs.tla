---------------------------- MODULE ReplayProofs ----------------------------
(***************************************************************************)
(* The replay keeps its shape, and each of its snapshots commits           *)
(* atomically.  First what the bookings of ReplayAccounts do to a state of *)
(* the right shape: each one's result, field by field.                     *)
(***************************************************************************)
EXTENDS ReplayProperties, SequenceFacts

FlowKinds == {"target_entry", "funding", "stock_borrow", "dividend", "external_capital",
              "targets_settlement", "hedges_settlement", "hedge_trade"}
Flow == [at : Nat, kind : FlowKinds, amount : Int]
Fill == [at : Nat, id : Instruments, quantity : Int, price : Int, mid : Int, fee : Int]
Settlement == [at : Nat, slot : HoldingGroups \X Contracts,
               event : {"fixed", "fixed_zero", "paid"}, amount : Int]
FlowIds == UNION {UNION {DOMAIN s.flows : s \in SnapshotsAt[i]} : i \in 1..Horizon}

(* The states of a replay whose ledger rows are in L.                      *)
StateSet(L) ==
  [next : Nat, cash : Int, stock : Int,
   targets : [Contracts -> Int], hedges : [Contracts -> Int],
   receivables : SUBSET Claim, pending : Nat, flowIds : SUBSET FlowIds,
   book : BookType(Slots, Claim),
   ledger : Seq(L), orders : Seq(Order), fills : Seq(Fill), cashflows : Seq(Flow),
   settlements : Seq(Settlement)]

(* Groups of fields that a step leaves alone.                              *)
SameHoldings(r, s) == r.stock = s.stock /\ r.targets = s.targets /\ r.hedges = s.hedges
SameClaims(r, s) == r.receivables = s.receivables /\ r.settlements = s.settlements
SameOrders(r, s) == r.orders = s.orders /\ r.pending = s.pending
SameCash(r, s) == r.cash = s.cash /\ r.cashflows = s.cashflows
SameRun(r, s) == r.next = s.next /\ r.flowIds = s.flowIds /\ r.ledger = s.ledger

(* The cash and the cashflows grow together.                               *)
CashSum(s) == SumOver(LAMBDA f : f.amount, s.cashflows)

GrowsCash(r, s) ==
  /\ Len(s.cashflows) <= Len(r.cashflows)
  /\ \A i \in 1..Len(s.cashflows) : r.cashflows[i] = s.cashflows[i]
  /\ r.cash - CashSum(r) = s.cash - CashSum(s)
-----------------------------------------------------------------------------
(* Sums.                                                                   *)

(* The running sums that Total is defined by exist.                        *)
LEMMA RunningSums ==
  ASSUME NEW xs \in Seq(Int)
  PROVE  \E upTo \in [0..Len(xs) -> Int] :
           /\ upTo[0] = 0 /\ \A n \in 1..Len(xs) : upTo[n] = upTo[n - 1] + xs[n]
           /\ Total(xs) = upTo[Len(xs)]
<1> DEFINE N == Len(xs)
           Unfold(f) == [n \in 0..N |-> IF n = 0 THEN 0 ELSE f[n - 1] + xs[n]]
           upTo == CHOOSE f : f = Unfold(f)
           step == [n \in 1..N |-> [a \in Int |-> a + xs[n]]]
<1>1. N \in Nat /\ \A n \in 1..N : xs[n] \in Int
  OBVIOUS
<1>2. step \in [1..N -> [Int -> Int]]
  BY <1>1
<1>3. PICK g \in [0..N -> Int] : g[0] = 0 /\ \A n \in 1..N : g[n] = step[n][g[n - 1]]
  <2> DEFINE S == Int
             base == 0
  <2> HIDE DEF step, N
  <2>1. N \in Nat /\ base \in S /\ step \in [1..N -> [S -> S]]
    BY <1>1, <1>2
  <2> HIDE DEF S, base
  <2>2. \E g \in [0..N -> S] : g[0] = base /\ \A n \in 1..N : g[n] = step[n][g[n - 1]]
    BY <2>1, RecursionHasSolution
  <2> QED
    BY <2>2 DEF S, base
<1>4. g = Unfold(g)
  <2> HIDE DEF N
  <2>1. ASSUME NEW n \in 1..N PROVE g[n] = g[n - 1] + xs[n]
    <3>1. n - 1 \in 0..N
      BY <1>1
    <3>2. g[n - 1] \in Int
      BY <3>1
    <3> HIDE DEF step
    <3>3. g[n] = step[n][g[n - 1]]
      BY <1>3
    <3> QED
      BY <3>2, <3>3 DEF step
  <2>2. \A n \in 0..N : g[n] = IF n = 0 THEN 0 ELSE g[n - 1] + xs[n]
    BY <1>1, <1>3, <2>1
  <2> QED
    BY <1>3, <2>2
<1>5. upTo = Unfold(upTo)
  BY <1>4
<1>6. Total(xs) = upTo[N]
  BY DEF Total
<1> HIDE DEF upTo
<1>7. upTo[0] = 0 /\ \A n \in 1..N : upTo[n] = upTo[n - 1] + xs[n]
  BY <1>1, <1>5, SMTT(30)
<1>8. \A n \in Nat : n \in {m \in Nat : m <= N => upTo[m] \in Int}
  <2> DEFINE T == {m \in Nat : m <= N => upTo[m] \in Int}
  <2>1. 0 \in T
    BY <1>7
  <2>2. ASSUME NEW m \in Nat, m \in T PROVE m + 1 \in T
    <3>1. SUFFICES ASSUME m + 1 <= N PROVE upTo[m + 1] \in Int
      OBVIOUS
    <3>2. m + 1 \in 1..N /\ upTo[m] \in Int
      BY <1>1, <2>2, <3>1
    <3>3. upTo[m + 1] = upTo[(m + 1) - 1] + xs[m + 1]
      BY <1>7, <3>2
    <3> QED
      BY <1>1, <3>2, <3>3
  <2> HIDE DEF T
  <2>3. \A n \in Nat : n \in T
    BY <2>1, <2>2, Induction
  <2> QED
    BY <2>3 DEF T
<1>9. upTo \in [0..N -> Int]
  BY <1>1, <1>5, <1>8
<1> QED
  BY <1>6, <1>7, <1>9

(* A sum grows by what is appended.                                        *)
LEMMA TotalOfAppend ==
  ASSUME NEW xs \in Seq(Int), NEW x \in Int
  PROVE  Total(Append(xs, x)) = Total(xs) + x /\ Total(xs) \in Int
<1> DEFINE ys == Append(xs, x)
           N == Len(xs)
<1>1. /\ ys \in Seq(Int) /\ Len(ys) = N + 1 /\ N \in Nat /\ ys[N + 1] = x
      /\ \A n \in 1..N : ys[n] = xs[n] /\ xs[n] \in Int
  OBVIOUS
<1> HIDE DEF ys
<1>2. PICK f \in [0..N -> Int] : /\ f[0] = 0 /\ \A n \in 1..N : f[n] = f[n - 1] + xs[n]
                                 /\ Total(xs) = f[N]
  BY RunningSums
<1>3. PICK g \in [0..Len(ys) -> Int] :
        /\ g[0] = 0 /\ \A n \in 1..Len(ys) : g[n] = g[n - 1] + ys[n]
        /\ Total(ys) = g[Len(ys)]
  BY <1>1, RunningSums
<1> DEFINE T == {n \in Nat : n <= N => f[n] = g[n]}
<1>4. 0 \in T
  BY <1>2, <1>3
<1>5. ASSUME NEW n \in Nat, n \in T PROVE n + 1 \in T
  <2>1. SUFFICES ASSUME n + 1 <= N PROVE f[n + 1] = g[n + 1]
    OBVIOUS
  <2>2. n + 1 \in 1..N /\ n + 1 \in 1..Len(ys) /\ f[n] = g[n] /\ (n + 1) - 1 = n
    BY <1>1, <1>5, <2>1
  <2>3. f[n + 1] = f[n] + xs[n + 1] /\ g[n + 1] = g[n] + ys[n + 1]
    BY <1>2, <1>3, <2>2
  <2> QED
    BY <1>1, <2>2, <2>3
<1> HIDE DEF T
<1>6. N \in T
  BY <1>1, <1>4, <1>5, Induction
<1>7. f[N] = g[N]
  BY <1>1, <1>6 DEF T
<1>8. g[N + 1] = g[N] + x
  <2>1. N + 1 \in 1..Len(ys) /\ (N + 1) - 1 = N
    BY <1>1
  <2> QED
    BY <1>1, <1>3, <2>1
<1> QED
  BY <1>1, <1>2, <1>3, <1>7, <1>8 DEF ys

(* Nothing adds up to zero.                                                *)
LEMMA TotalOfNone == Total(<<>>) = 0
<1>1. <<>> \in Seq(Int) /\ Len(<<>>) = 0
  OBVIOUS
<1> QED
  BY <1>1, RunningSums
-----------------------------------------------------------------------------
(* Bookings.                                                               *)

(* Booked adds one cashflow.                                               *)
LEMMA BookedIs ==
  ASSUME NEW L, NEW s \in StateSet(L), NEW kind \in FlowKinds, NEW amount \in Int
  PROVE  LET r == Booked(s, kind, amount)
         IN  /\ r \in StateSet(L) /\ r.cash = s.cash + amount
             /\ r.cashflows = Append(s.cashflows, [at |-> s.next, kind |-> kind, amount |-> amount])
             /\ SameHoldings(r, s) /\ SameClaims(r, s) /\ SameOrders(r, s) /\ SameRun(r, s)
             /\ r.fills = s.fills /\ r.book = s.book
<1> DEFINE flow == [at |-> s.next, kind |-> kind, amount |-> amount]
<1>1. flow \in Flow
  BY DEF Flow, StateSet
<1> HIDE DEF flow
<1>2. Append(s.cashflows, flow) \in Seq(Flow) /\ s.cash + amount \in Int
  BY <1>1 DEF StateSet
<1>3. Booked(s, kind, amount) = [s EXCEPT !.cash = s.cash + amount, !.cashflows = Append(s.cashflows, flow)]
  BY DEF Booked, flow
<1> QED
  BY <1>2, <1>3 DEF StateSet, SameHoldings, SameClaims, SameOrders, SameRun, flow

(* One more cashflow, and its amount more in cash.                         *)
LEMMA CashGrows ==
  ASSUME NEW r, NEW s, s.cashflows \in Seq(Flow), s.cash \in Int, NEW flow \in Flow,
         r.cashflows = Append(s.cashflows, flow), r.cash = s.cash + flow.amount
  PROVE  GrowsCash(r, s)
<1> DEFINE xs == [i \in DOMAIN s.cashflows |-> s.cashflows[i].amount]
           ys == [i \in DOMAIN r.cashflows |-> r.cashflows[i].amount]
           x  == flow.amount
           N  == Len(s.cashflows)
<1>1. /\ Len(r.cashflows) = N + 1 /\ r.cashflows \in Seq(Flow) /\ N \in Nat
      /\ \A i \in 1..N : r.cashflows[i] = s.cashflows[i]
      /\ r.cashflows[N + 1] = flow
  BY Appended
<1>2. \A f \in Flow : f.amount \in Int
  BY DEF Flow
<1>3. /\ x \in Int /\ xs \in Seq(Int) /\ Len(xs) = N
      /\ \A i \in 1..N : xs[i] = s.cashflows[i].amount
  <2>1. DOMAIN s.cashflows = 1..N /\ \A i \in 1..N : s.cashflows[i] \in Flow
    OBVIOUS
  <2>2. \A i \in 1..N : s.cashflows[i].amount \in Int
    BY <1>2, <2>1
  <2> QED
    BY <1>1, <1>2, <2>1, <2>2
<1>5. /\ ys \in Seq(Int) /\ Len(ys) = N + 1
      /\ \A i \in 1..N + 1 : ys[i] = r.cashflows[i].amount
  <2>1. DOMAIN r.cashflows = 1..N + 1 /\ \A i \in 1..N + 1 : r.cashflows[i] \in Flow
    BY <1>1
  <2>2. \A i \in 1..N + 1 : r.cashflows[i].amount \in Int
    BY <1>2, <2>1
  <2> QED
    BY <1>1, <2>1, <2>2
<1>6. CashSum(s) = Total(xs) /\ CashSum(r) = Total(ys)
  BY DEF CashSum, SumOver
<1> HIDE DEF xs, ys, x
<1>7. ys = Append(xs, x)
  <2>1. /\ Append(xs, x) \in Seq(Int) /\ Len(Append(xs, x)) = N + 1
        /\ \A i \in 1..N : Append(xs, x)[i] = xs[i]
        /\ Append(xs, x)[N + 1] = x
    BY <1>3
  <2>2. \A i \in 1..N + 1 : ys[i] = Append(xs, x)[i]
    BY <1>1, <1>3, <1>5, <2>1 DEF x
  <2> QED
    BY <1>5, <2>1, <2>2, SameElements
<1>8. Total(ys) = Total(xs) + x /\ Total(xs) \in Int
  BY <1>3, <1>7, TotalOfAppend
<1> QED
  BY <1>1, <1>3, <1>6, <1>8 DEF GrowsCash, x

(* Growing twice is growing.                                               *)
LEMMA GrowsTwice ==
  ASSUME NEW q, NEW r, NEW s, Len(s.cashflows) \in Nat, Len(r.cashflows) \in Nat,
         Len(q.cashflows) \in Nat, GrowsCash(r, s), GrowsCash(q, r)
  PROVE  GrowsCash(q, s)
  BY DEF GrowsCash

(* Booked grows cash and cashflows and leaves all else alone.              *)
OnlyBooked(r, s) ==
  /\ GrowsCash(r, s) /\ SameHoldings(r, s) /\ SameClaims(r, s) /\ SameOrders(r, s)
  /\ r.fills = s.fills /\ r.book = s.book

LEMMA BookedOnlyBooks ==
  ASSUME NEW L, NEW s \in StateSet(L), NEW kind \in FlowKinds, NEW amount \in Int
  PROVE  LET r == Booked(s, kind, amount)
         IN  r \in StateSet(L) /\ OnlyBooked(r, s) /\ SameRun(r, s)
<1> DEFINE r == Booked(s, kind, amount)
           flow == [at |-> s.next, kind |-> kind, amount |-> amount]
<1>1. /\ r \in StateSet(L) /\ r.cash = s.cash + amount /\ r.cashflows = Append(s.cashflows, flow)
      /\ SameHoldings(r, s) /\ SameClaims(r, s) /\ SameOrders(r, s) /\ SameRun(r, s)
      /\ r.fills = s.fills /\ r.book = s.book
  BY BookedIs
<1>2. flow \in Flow /\ flow.amount = amount /\ s.cashflows \in Seq(Flow) /\ s.cash \in Int
  BY DEF Flow, StateSet
<1> HIDE DEF flow, r
<1>3. GrowsCash(r, s)
  BY <1>1, <1>2, CashGrows
<1> QED
  BY <1>1, <1>3 DEF OnlyBooked, r

(* So do several bookings.                                                 *)
LEMMA BooksTwice ==
  ASSUME NEW L, NEW q \in StateSet(L), NEW r \in StateSet(L), NEW s \in StateSet(L),
         OnlyBooked(r, s), OnlyBooked(q, r)
  PROVE  OnlyBooked(q, s)
<1>1. GrowsCash(q, s)
  <2>1. q.cashflows \in Seq(Flow) /\ r.cashflows \in Seq(Flow) /\ s.cashflows \in Seq(Flow)
    BY DEF StateSet
  <2>2. GrowsCash(q, r) /\ GrowsCash(r, s)
    BY DEF OnlyBooked
  <2> QED
    BY <2>1, <2>2, GrowsTwice
<1> QED
  BY <1>1 DEF OnlyBooked, SameHoldings, SameClaims, SameOrders

Market ==
  UNION {SnapshotsAt[i] : i \in 1..Horizon}

(* What carry books are integers.                                          *)
LEMMA CarriedAmounts ==
  ASSUME NEW L, NEW s \in StateSet(L), NEW previous \in Market, NEW now \in Market,
         NEW days \in Int
  PROVE  LET rate == IF s.cash >= 0 THEN previous.lending ELSE previous.borrowing
         IN  /\ (s.cash * rate * days) \div RateUnit \in Int
             /\ (IF s.stock < 0
                  THEN (s.stock * previous.mid[Spot] * previous.stockBorrow * days)
                         \div RateUnit
                  ELSE 0) \in Int
             /\ s.stock * now.dividend \in Int
<1> DEFINE rate == IF s.cash >= 0 THEN previous.lending ELSE previous.borrowing
           funding == (s.cash * rate * days) \div RateUnit
           borrow == IF s.stock < 0
                       THEN (s.stock * previous.mid[Spot] * previous.stockBorrow * days)
                              \div RateUnit
                       ELSE 0
           dividend == s.stock * now.dividend
<1>1. /\ {previous.lending, previous.borrowing, previous.stockBorrow, now.dividend} \subseteq Int
      /\ previous.mid[Spot] \in Int
  BY MarketAssumption DEF Market, Instruments
<1>2. RateUnit \in Int /\ RateUnit > 0 /\ s.cash \in Int /\ s.stock \in Int
  BY ConfigAssumption DEF StateSet
<1>3. funding \in Int
  <2>1. s.cash * rate \in Int
    BY <1>1, <1>2
  <2>2. s.cash * rate * days \in Int
    <3> HIDE DEF rate
    <3> QED
      BY <2>1
  <2> QED
    BY <1>2, <2>2
<1>4. borrow \in Int
  <2>1. s.stock * previous.mid[Spot] \in Int
    BY <1>1, <1>2
  <2>2. s.stock * previous.mid[Spot] * previous.stockBorrow \in Int
    BY <1>1, <2>1
  <2>3. s.stock * previous.mid[Spot] * previous.stockBorrow * days \in Int
    BY <2>2
  <2> QED
    BY <1>2, <2>3
<1>5. dividend \in Int
  BY <1>1, <1>2
<1> QED
  BY <1>3, <1>4, <1>5

(* Carry books funding, stock borrow and dividend.                         *)
LEMMA CarriedOnlyBooks ==
  ASSUME NEW L, NEW s \in StateSet(L), NEW previous \in Market, NEW now \in Market,
         NEW days \in Int
  PROVE  LET r == Carried(s, previous, now, days)
         IN  r \in StateSet(L) /\ OnlyBooked(r, s) /\ SameRun(r, s)
<1> DEFINE rate == IF s.cash >= 0 THEN previous.lending ELSE previous.borrowing
           funding == (s.cash * rate * days) \div RateUnit
           borrow == IF s.stock < 0
                       THEN (s.stock * previous.mid[Spot] * previous.stockBorrow * days)
                              \div RateUnit
                       ELSE 0
           dividend == s.stock * now.dividend
           s1 == Booked(s, "funding", funding)
           s2 == Booked(s1, "stock_borrow", borrow)
           s3 == Booked(s2, "dividend", dividend)
<1>1. funding \in Int /\ borrow \in Int /\ dividend \in Int
  BY CarriedAmounts
<1>6. Carried(s, previous, now, days) = s3
  BY DEF Carried
<1>7. {"funding", "stock_borrow", "dividend"} \subseteq FlowKinds
  BY DEF FlowKinds
<1> HIDE DEF funding, borrow, dividend, s1, s2, s3
<1>8. s1 \in StateSet(L) /\ OnlyBooked(s1, s) /\ SameRun(s1, s)
  BY <1>1, <1>7, BookedOnlyBooks DEF s1
<1>9. s2 \in StateSet(L) /\ OnlyBooked(s2, s1) /\ SameRun(s2, s1)
  BY <1>1, <1>7, <1>8, BookedOnlyBooks DEF s2
<1>10. s3 \in StateSet(L) /\ OnlyBooked(s3, s2) /\ SameRun(s3, s2)
  BY <1>1, <1>7, <1>9, BookedOnlyBooks DEF s3
<1>11. OnlyBooked(s3, s)
  BY <1>8, <1>9, <1>10, BooksTwice
<1>12. SameRun(s3, s)
  BY <1>8, <1>9, <1>10 DEF SameRun
<1> QED
  BY <1>6, <1>10, <1>11, <1>12

(* The sequence of the elements of a finite set.                           *)
LEMMA SetToSeqElements ==
  ASSUME NEW S, IsFiniteSet(S)
  PROVE  Len(SetToSeq(S)) \in Nat /\ \A i \in 1..Len(SetToSeq(S)) : SetToSeq(S)[i] \in S
<1> DEFINE n == Cardinality(S)
<1>1. n \in Nat /\ ExistsBijection(1..n, S)
  BY FS_CardinalityType
<1>2. \E f \in [1..n -> S] : IsInjective(f)
  BY <1>1 DEF ExistsBijection, Bijection, Injection
<1>3. SetToSeq(S) \in [1..n -> S]
  BY <1>2 DEF SetToSeq
<1> HIDE DEF n
<1>4. SetToSeq(S) \in Seq(S) /\ Len(SetToSeq(S)) = n
  BY <1>1, <1>3
<1> QED
  BY <1>1, <1>3, <1>4

(* The capital of a snapshot is booked flow by flow, after its IDs are     *)
(* noted.                                                                  *)
WithIds(s, flows) == [s EXCEPT !.flowIds = @ \union DOMAIN flows]

BooksOn(L, base) == {r \in StateSet(L) : OnlyBooked(r, base) /\ SameRun(r, base)}

LEMMA CapitalUnfolds ==
  ASSUME NEW L, NEW s \in StateSet(L), NEW flows, IsFiniteSet(DOMAIN flows),
         flows \in [DOMAIN flows -> Int], DOMAIN flows \subseteq FlowIds
  PROVE  LET ids  == SetToSeq(DOMAIN flows)
             N    == Len(ids)
             base == WithIds(s, flows)
         IN  /\ base \in StateSet(L) /\ base.flowIds = s.flowIds \union DOMAIN flows
             /\ base.cashflows = s.cashflows
             /\ OnlyBooked(base, s) /\ base.next = s.next /\ base.ledger = s.ledger
             /\ \E booked : /\ booked[0] = base /\ CapitalBooked(s, flows) = booked[N]
                            /\ \A n \in 0..N : booked[n] \in BooksOn(L, base)
                            /\ \A n \in 1..N : booked[n] =
                                 Booked(booked[n - 1], "external_capital", flows[ids[n]])
<1> DEFINE ids == SetToSeq(DOMAIN flows)
           N == Len(ids)
           base == WithIds(s, flows)
           Unfold(f) == [n \in 0..N |-> IF n = 0 THEN base
                                      ELSE Booked(f[n - 1], "external_capital", flows[ids[n]])]
           booked == CHOOSE f : f = Unfold(f)
           S == BooksOn(L, base)
           step == [n \in 1..N |-> [r \in S |-> Booked(r, "external_capital", flows[ids[n]])]]
<1>1. N \in Nat /\ \A n \in 1..N : ids[n] \in DOMAIN flows
  BY SetToSeqElements
<1>2. /\ base \in StateSet(L) /\ base.flowIds = s.flowIds \union DOMAIN flows
      /\ OnlyBooked(base, s) /\ base.next = s.next /\ base.ledger = s.ledger
      /\ base.cashflows = s.cashflows
  <2>1. /\ base \in StateSet(L) /\ base.flowIds = s.flowIds \union DOMAIN flows
        /\ SameHoldings(base, s) /\ SameClaims(base, s) /\ SameOrders(base, s)
        /\ SameCash(base, s) /\ base.next = s.next /\ base.ledger = s.ledger
        /\ base.fills = s.fills /\ base.book = s.book
    BY DEF StateSet, SameHoldings, SameClaims, SameOrders, SameCash, WithIds
  <2>2. s.cashflows \in Seq(Flow)
    BY DEF StateSet
  <2> HIDE DEF base
  <2>3. GrowsCash(base, s)
    BY <2>1, <2>2 DEF GrowsCash, SameCash, CashSum
  <2> QED
    BY <2>1, <2>3 DEF OnlyBooked, SameCash
<1> HIDE DEF base
<1>3. base \in S
  <2>1. GrowsCash(base, base)
    BY <1>2 DEF GrowsCash, StateSet
  <2> QED
    BY <1>2, <2>1 DEF OnlyBooked, SameHoldings, SameClaims, SameOrders, SameRun, BooksOn
<1>4. ASSUME NEW r \in S, NEW n \in 1..N
      PROVE  Booked(r, "external_capital", flows[ids[n]]) \in S
  <2> DEFINE q == Booked(r, "external_capital", flows[ids[n]])
  <2>1. flows[ids[n]] \in Int /\ "external_capital" \in FlowKinds
    BY <1>1 DEF FlowKinds
  <2>2. q \in StateSet(L) /\ OnlyBooked(q, r) /\ SameRun(q, r)
    BY <2>1, BookedOnlyBooks DEF BooksOn
  <2> HIDE DEF q
  <2>3. OnlyBooked(q, base)
    BY <1>2, <2>2, BooksTwice DEF BooksOn
  <2>4. SameRun(q, base)
    BY <2>2 DEF SameRun, BooksOn
  <2>5. q \in S
    BY <2>2, <2>3, <2>4 DEF BooksOn
  <2> QED
    BY <2>5 DEF q
<1>5. step \in [1..N -> [S -> S]]
  BY <1>4
<1> HIDE DEF S, N
<1>6. PICK g \in [0..N -> S] : g[0] = base /\ \A n \in 1..N : g[n] = step[n][g[n - 1]]
  <2> HIDE DEF step
  <2>1. N \in Nat /\ base \in S /\ step \in [1..N -> [S -> S]]
    BY <1>1, <1>3, <1>5
  <2> QED
    BY <2>1, RecursionHasSolution
<1>7. g = Unfold(g)
  <2>1. ASSUME NEW n \in 1..N
        PROVE  g[n] = Booked(g[n - 1], "external_capital", flows[ids[n]])
    <3>1. n - 1 \in 0..N
      BY <1>1
    <3>2. g[n - 1] \in S
      BY <3>1
    <3> HIDE DEF step
    <3>3. g[n] = step[n][g[n - 1]]
      BY <1>6
    <3> QED
      BY <3>2, <3>3 DEF step
  <2>2. \A n \in 0..N : g[n] = IF n = 0 THEN base
                               ELSE Booked(g[n - 1], "external_capital", flows[ids[n]])
    BY <1>1, <1>6, <2>1
  <2> QED
    BY <1>6, <2>2
<1>8. booked = Unfold(booked)
  BY <1>7
<1>9. CapitalBooked(s, flows) = booked[N]
  BY DEF CapitalBooked, base, N, WithIds
<1> HIDE DEF booked
<1>10. booked[0] = base /\ \A n \in 1..N : booked[n] = Booked(booked[n - 1], "external_capital", flows[ids[n]])
  BY <1>1, <1>8
<1> DEFINE T == {n \in Nat : n <= N => booked[n] \in S}
<1>11. 0 \in T
  BY <1>3, <1>10
<1>12. ASSUME NEW n \in Nat, n \in T PROVE n + 1 \in T
  <2>1. SUFFICES ASSUME n + 1 <= N PROVE booked[n + 1] \in S
    OBVIOUS
  <2>2. n + 1 \in 1..N /\ booked[n] \in S /\ (n + 1) - 1 = n
    BY <1>1, <1>12, <2>1
  <2>3. booked[n + 1] = Booked(booked[n], "external_capital", flows[ids[n + 1]])
    BY <1>10, <2>2
  <2> QED
    BY <1>4, <2>2, <2>3
<1> HIDE DEF T
<1>13. \A n \in Nat : n \in T
  BY <1>11, <1>12, Induction
<1>14. \A n \in 0..N : booked[n] \in S
  BY <1>1, <1>13 DEF T
<1> QED
  <2> HIDE DEF S
  <2>1. \E f : /\ f[0] = base /\ CapitalBooked(s, flows) = f[N]
               /\ \A n \in 0..N : f[n] \in S
               /\ \A n \in 1..N : f[n] = Booked(f[n - 1], "external_capital", flows[ids[n]])
    <3> HIDE DEF ids
    <3> QED
      BY <1>9, <1>10, <1>14
  <2> QED
    BY <1>2, <2>1 DEF N, S, base

(* Booking the capital of a snapshot notes its IDs, and only books.        *)
LEMMA CapitalOnlyBooks ==
  ASSUME NEW L, NEW s \in StateSet(L), NEW flows, IsFiniteSet(DOMAIN flows),
         flows \in [DOMAIN flows -> Int], DOMAIN flows \subseteq FlowIds
  PROVE  LET r == CapitalBooked(s, flows)
         IN  /\ r \in StateSet(L) /\ OnlyBooked(r, s)
             /\ r.next = s.next /\ r.ledger = s.ledger
             /\ r.flowIds = s.flowIds \union DOMAIN flows
<1> DEFINE base == WithIds(s, flows)
           r == CapitalBooked(s, flows)
           N == Len(SetToSeq(DOMAIN flows))
<1>1. /\ base \in StateSet(L) /\ base.flowIds = s.flowIds \union DOMAIN flows
      /\ OnlyBooked(base, s) /\ base.next = s.next /\ base.ledger = s.ledger
      /\ \E booked : r = booked[N] /\ \A n \in 0..N : booked[n] \in BooksOn(L, base)
  BY CapitalUnfolds
<1>2. N \in Nat
  BY SetToSeqElements
<1> HIDE DEF base, r, N
<1>3. r \in BooksOn(L, base)
  BY <1>1, <1>2
<1>4. r \in StateSet(L) /\ OnlyBooked(r, base) /\ SameRun(r, base)
  BY <1>3 DEF BooksOn
<1>5. OnlyBooked(r, s)
  BY <1>1, <1>4, BooksTwice
<1>6. r.next = s.next /\ r.ledger = s.ledger /\ r.flowIds = s.flowIds \union DOMAIN flows
  BY <1>1, <1>4 DEF SameRun
<1> QED
  BY <1>4, <1>5, <1>6 DEF r
-----------------------------------------------------------------------------
(* The cost book keeps its shape.                                          *)

Books == BookType(Slots, Claim)

(* Every slot belongs to a group.                                          *)
LEMMA SlotGroups ==
  /\ \A slot \in Slots : slot[1] \in Groups
  /\ \A id \in Instruments : HedgeSlot(id) \in Slots
  /\ \A slot \in HoldingGroups \X Contracts : slot \in Slots
  BY DEF Slots, HoldingGroups, Groups, HedgeSlot, Instruments

(* trade() keeps the book's shape.                                         *)
LEMMA TradeType ==
  ASSUME NEW book \in Books, NEW slot \in Slots, NEW quantity \in Int, NEW price \in Int,
         NEW mid \in Int
  PROVE  Trade(book, slot, quantity, price, mid) \in Books
<1> DEFINE old == book.quantity[slot]
           avg == book.average[slot]
           after == AverageAfter(old, avg, quantity, price)
           realized == RealizedBy(old, avg, quantity, price)
<1>1. old \in Int /\ avg \in Int /\ slot[1] \in Groups
  BY SlotGroups DEF Books, BookType
<1>2. after \in Int
  <2>1. ASSUME old + quantity # 0
        PROVE  WeightedPrice(old, avg, quantity, price) \div Magnitude(old + quantity) \in Int
    <3>1. Magnitude(old) \in Int /\ Magnitude(quantity) \in Int
      BY <1>1 DEF Magnitude
    <3>2. Magnitude(old) * avg \in Int /\ Magnitude(quantity) * price \in Int
      BY <1>1, <3>1
    <3>3. WeightedPrice(old, avg, quantity, price) \in Int
      BY <3>2 DEF WeightedPrice
    <3>4. Magnitude(old + quantity) \in Int /\ Magnitude(old + quantity) > 0
      BY <1>1, <2>1 DEF Magnitude
    <3> QED
      BY <3>3, <3>4
  <2> HIDE DEF old, avg
  <2> QED
    BY <1>1, <2>1 DEF AverageAfter
<1>3. realized \in Int
  <2>1. SignOf(old) \in Int /\ Smaller(Magnitude(old), Magnitude(quantity)) \in Int
    BY <1>1 DEF SignOf, Smaller, Magnitude
  <2>2. SignOf(old) * Smaller(Magnitude(old), Magnitude(quantity)) \in Int
    BY <2>1
  <2>3. SignOf(old) * Smaller(Magnitude(old), Magnitude(quantity)) * (price - avg) \in Int
    BY <1>1, <2>2
  <2> HIDE DEF old, avg
  <2> QED
    BY <2>3 DEF RealizedBy
<1>4. quantity * (price - mid) \in Int
  OBVIOUS
<1> HIDE DEF after, realized
<1> DEFINE q == [book.quantity EXCEPT ![slot] = old + quantity]
           a == [book.average EXCEPT ![slot] = after]
           r == [book.realized EXCEPT ![slot[1]] = @ + realized]
           p == [book.spread EXCEPT ![slot[1]] = @ - quantity * (price - mid)]
<1>5. q \in [Slots -> Int] /\ a \in [Slots -> Int] /\ r \in [Groups -> Int]
      /\ p \in [Groups -> Int]
  BY <1>1, <1>2, <1>3, <1>4 DEF Books, BookType
<1>6. Trade(book, slot, quantity, price, mid) =
        IF quantity = 0 THEN book
        ELSE [book EXCEPT !.quantity = q, !.average = a, !.realized = r, !.spread = p]
  BY DEF Trade, after, realized
<1> HIDE DEF q, a, r, p
<1> QED
  BY <1>5, <1>6 DEF Books, BookType

(* fix() keeps the book's shape.                                           *)
LEMMA FixPositionType ==
  ASSUME NEW book \in Books, NEW slot \in HoldingGroups \X Contracts, NEW amount \in Int,
         NEW keep \in BOOLEAN
  PROVE  FixPosition(book, slot, amount, keep) \in Books
<1>1. slot \in Slots /\ slot[1] \in Groups
  BY SlotGroups
<1>2. SignedCost(book, slot) \in Int
  BY <1>1 DEF SignedCost, Books, BookType
<1> DEFINE q == [book.quantity EXCEPT ![slot] = 0]
           a == [book.average EXCEPT ![slot] = 0]
           r == [book.realized EXCEPT ![slot[1]] = @ + amount - SignedCost(book, slot)]
           c == IF keep THEN book.claims \union {[slot |-> slot, amount |-> amount]} ELSE book.claims
<1>3. q \in [Slots -> Int] /\ a \in [Slots -> Int] /\ r \in [Groups -> Int]
  BY <1>1, <1>2 DEF Books, BookType
<1>4. c \in SUBSET Claim
  BY DEF Claim, Books, BookType
<1>5. FixPosition(book, slot, amount, keep) =
        [book EXCEPT !.quantity = q, !.average = a, !.realized = r, !.claims = c]
  BY DEF FixPosition
<1> HIDE DEF q, a, r, c
<1> QED
  BY <1>3, <1>4, <1>5 DEF Books, BookType

(* pay() keeps the book's shape.                                           *)
LEMMA PayClaimType ==
  ASSUME NEW book \in Books, NEW claim \in Claim
  PROVE  PayClaim(book, claim, claim.amount) \in Books
<1>1. claim.slot[1] \in Groups /\ claim.amount \in Int
  BY SlotGroups DEF Claim
<1> DEFINE r == [book.realized EXCEPT ![claim.slot[1]] = @ + claim.amount - claim.amount]
<1>2. r \in [Groups -> Int]
  BY <1>1 DEF Books, BookType
<1>3. PayClaim(book, claim, claim.amount) =
        [book EXCEPT !.realized = r, !.claims = @ \ {claim}]
  BY DEF PayClaim
<1> HIDE DEF r
<1> QED
  BY <1>2, <1>3 DEF Books, BookType
-----------------------------------------------------------------------------
(* Fixings, payments, fills and orders.                                    *)

(* A fixing closes the holding, and leaves a row and perhaps a claim.      *)
IsFixed(r, s, slot, amount, keep) ==
  /\ SameCash(r, s) /\ SameOrders(r, s) /\ SameRun(r, s)
  /\ r.fills = s.fills /\ r.stock = s.stock
  /\ slot[1] = "targets" => r.targets = [s.targets EXCEPT ![slot[2]] = 0] /\ r.hedges = s.hedges
  /\ slot[1] # "targets" => r.targets = s.targets /\ r.hedges = [s.hedges EXCEPT ![slot[2]] = 0]
  /\ \E row \in Settlement : /\ r.settlements = Append(s.settlements, row)
                            /\ row.at = s.next /\ row.slot = slot
                            /\ row.event # "paid" /\ row.amount = amount
  /\ keep => r.receivables = s.receivables \union {[slot |-> slot, amount |-> amount]}
  /\ ~keep => r.receivables = s.receivables

LEMMA FixedIs ==
  ASSUME NEW L, NEW s \in StateSet(L), NEW slot \in HoldingGroups \X Contracts,
         NEW amount \in Int, NEW keep \in BOOLEAN
  PROVE  /\ Fixed(s, slot, amount, keep) \in StateSet(L)
         /\ IsFixed(Fixed(s, slot, amount, keep), s, slot, amount, keep)
<1> DEFINE event == IF amount # 0 THEN "fixed" ELSE "fixed_zero"
           row == [at |-> s.next, slot |-> slot, event |-> event, amount |-> amount]
           claims == IF keep THEN s.receivables \union {[slot |-> slot, amount |-> amount]}
                     ELSE s.receivables
           book == FixPosition(s.book, slot, amount, keep)
           rows == Append(s.settlements, row)
           open == [s EXCEPT !.book = book, !.settlements = rows, !.receivables = claims]
           r == IF slot[1] = "targets" THEN [open EXCEPT !.targets[slot[2]] = 0]
                ELSE [open EXCEPT !.hedges[slot[2]] = 0]
<1>1. /\ row \in Settlement /\ row.at = s.next /\ row.slot = slot
      /\ row.event # "paid" /\ row.amount = amount
  BY DEF Settlement, StateSet
<1> HIDE DEF row
<1>2. rows \in Seq(Settlement)
  BY <1>1 DEF StateSet
<1>3. claims \in SUBSET Claim
  BY DEF Claim, StateSet
<1>4. book \in Books
  BY FixPositionType DEF StateSet, Books
<1>5. Fixed(s, slot, amount, keep) = r
  BY DEF Fixed, row
<1> HIDE DEF claims, book, rows
<1>6. /\ open \in StateSet(L) /\ open.settlements = rows /\ open.receivables = claims
      /\ SameHoldings(open, s) /\ SameCash(open, s) /\ SameOrders(open, s) /\ SameRun(open, s)
      /\ open.fills = s.fills
  BY <1>2, <1>3, <1>4 DEF StateSet, Books, SameHoldings, SameCash, SameOrders, SameRun
<1> HIDE DEF open
<1>7. CASE slot[1] = "targets"
  <2> DEFINE closed == [open.targets EXCEPT ![slot[2]] = 0]
  <2>1. closed \in [Contracts -> Int] /\ r = [open EXCEPT !.targets = closed]
    BY <1>6, <1>7 DEF StateSet
  <2> HIDE DEF r, closed
  <2>2. /\ r \in StateSet(L) /\ r.settlements = rows /\ r.receivables = claims
        /\ r.targets = closed /\ r.hedges = open.hedges
        /\ r.stock = open.stock /\ SameCash(r, open) /\ SameOrders(r, open) /\ SameRun(r, open)
        /\ r.fills = open.fills
    BY <1>6, <2>1 DEF StateSet, SameCash, SameOrders, SameRun
  <2> QED
    BY <1>1, <1>5, <1>6, <1>7, <2>2
       DEF IsFixed, SameHoldings, SameCash, SameOrders, SameRun, rows, claims, closed
<1>8. CASE slot[1] # "targets"
  <2> DEFINE closed == [open.hedges EXCEPT ![slot[2]] = 0]
  <2>1. closed \in [Contracts -> Int] /\ r = [open EXCEPT !.hedges = closed]
    BY <1>6, <1>8 DEF StateSet
  <2> HIDE DEF r, closed
  <2>2. /\ r \in StateSet(L) /\ r.settlements = rows /\ r.receivables = claims
        /\ r.hedges = closed /\ r.targets = open.targets
        /\ r.stock = open.stock /\ SameCash(r, open) /\ SameOrders(r, open) /\ SameRun(r, open)
        /\ r.fills = open.fills
    BY <1>6, <2>1 DEF StateSet, SameCash, SameOrders, SameRun
  <2> QED
    BY <1>1, <1>5, <1>6, <1>8, <2>2
       DEF IsFixed, SameHoldings, SameCash, SameOrders, SameRun, rows, claims, closed
<1> QED
  BY <1>7, <1>8

(* A payment books the claim's amount, and moves the claim to a row.       *)
LEMMA PaidIs ==
  ASSUME NEW L, NEW s \in StateSet(L), NEW claim \in Claim
  PROVE  LET r == Paid(s, claim)
         IN  /\ r \in StateSet(L) /\ GrowsCash(r, s) /\ SameHoldings(r, s) /\ SameOrders(r, s)
             /\ SameRun(r, s) /\ r.fills = s.fills
             /\ \E row \in Settlement : /\ r.settlements = Append(s.settlements, row)
                                       /\ row.at = s.next /\ row.slot = claim.slot
                                       /\ row.event = "paid" /\ row.amount = claim.amount
             /\ r.receivables = s.receivables \ {claim}
<1> DEFINE row == [at |-> s.next, slot |-> claim.slot, event |-> "paid", amount |-> claim.amount]
           kind == IF claim.slot[1] = "targets" THEN "targets_settlement" ELSE "hedges_settlement"
           s1 == Booked(s, kind, claim.amount)
           book == PayClaim(s1.book, claim, claim.amount)
           rows == Append(s1.settlements, row)
           r == [s1 EXCEPT !.book = book, !.settlements = rows, !.receivables = @ \ {claim}]
<1>1. kind \in FlowKinds /\ claim.amount \in Int
  BY DEF FlowKinds, Claim
<1>2. s1 \in StateSet(L) /\ OnlyBooked(s1, s) /\ SameRun(s1, s)
  <2> HIDE DEF kind
  <2> QED
    BY <1>1, BookedOnlyBooks
<1>3. Paid(s, claim) = r
  BY DEF Paid
<1>4. /\ row \in Settlement /\ row.at = s.next /\ row.slot = claim.slot
      /\ row.event = "paid" /\ row.amount = claim.amount
  BY DEF Settlement, StateSet, Claim
<1> HIDE DEF s1, row
<1>5. rows \in Seq(Settlement) /\ book \in Books
  BY <1>2, <1>4, PayClaimType DEF StateSet, Books
<1> HIDE DEF book, rows
<1>6. /\ r \in StateSet(L) /\ SameHoldings(r, s1) /\ SameOrders(r, s1) /\ SameRun(r, s1)
      /\ SameCash(r, s1) /\ r.fills = s1.fills /\ r.settlements = rows
      /\ r.receivables = s1.receivables \ {claim}
  BY <1>2, <1>5 DEF StateSet, Books, SameHoldings, SameOrders, SameRun, SameCash
<1> HIDE DEF r
<1>7. GrowsCash(r, s)
  BY <1>2, <1>6 DEF OnlyBooked, GrowsCash, SameCash, CashSum
<1>8. rows = Append(s.settlements, row)
  BY <1>2 DEF OnlyBooked, SameClaims, rows
<1> QED
  BY <1>2, <1>3, <1>4, <1>6, <1>7, <1>8 DEF OnlyBooked, SameClaims, SameHoldings, SameOrders, SameRun

(* What a row of a basket costs.                                           *)
LEMMA RowCashType ==
  ASSUME NEW now \in Market, NEW id \in Instruments, NEW change \in Int
  PROVE  /\ FillPrice(now, id, change) \in Int /\ Magnitude(change) * Fee \in Int
         /\ RowCash(now, id, change) \in Int /\ now.mid[id] \in Int
<1> DEFINE price == FillPrice(now, id, change)
           cost == Magnitude(change) * Fee
           cash == RowCash(now, id, change)
<1>1. now.mid[id] \in Int /\ now.half \in Int /\ Fee \in Int
  BY MarketAssumption, ConfigAssumption DEF Market
<1>2. price \in Int
  <2>1. SignOf(change) \in Int
    BY DEF SignOf
  <2> QED
    BY <1>1, <2>1 DEF FillPrice
<1>3. cost \in Int
  <2>1. Magnitude(change) \in Int
    BY DEF Magnitude
  <2> QED
    BY <1>1, <2>1
<1>4. cash \in Int
  <2>1. cash = -change * price - cost
    BY DEF RowCash
  <2> HIDE DEF price, cost
  <2> QED
    BY <1>2, <1>3, <2>1
<1> QED
  BY <1>1, <1>2, <1>3, <1>4

(* A fill trades one instrument and books its cost.                        *)
IsFilled(r, s, id, change) ==
  /\ GrowsCash(r, s) /\ SameClaims(r, s) /\ SameOrders(r, s) /\ SameRun(r, s)
  /\ r.targets = s.targets
  /\ id = Spot => r.stock = s.stock + change /\ r.hedges = s.hedges
  /\ id # Spot => r.stock = s.stock /\ r.hedges = [s.hedges EXCEPT ![id] = @ + change]
  /\ \E fill \in Fill : /\ r.fills = Append(s.fills, fill)
                        /\ fill.at = s.next /\ fill.id = id /\ fill.quantity = change

LEMMA FilledIs ==
  ASSUME NEW L, NEW s \in StateSet(L), NEW now \in Market, NEW id \in Instruments,
         NEW change \in Int
  PROVE  /\ Filled(s, now, id, change) \in StateSet(L)
         /\ IsFilled(Filled(s, now, id, change), s, id, change)
<1> DEFINE price == FillPrice(now, id, change)
           cost == Magnitude(change) * Fee
           cash == RowCash(now, id, change)
           fill == [at |-> s.next, id |-> id, quantity |-> change, price |-> price,
                    mid |-> now.mid[id], fee |-> cost]
           s1 == Booked(s, "hedge_trade", cash)
           book == Trade(s1.book, HedgeSlot(id), change, price, now.mid[id])
           fills == Append(s1.fills, fill)
           s2 == [s1 EXCEPT !.book = book, !.fills = fills]
           r == AfterRow(s2, id, change)
<1>1. now.mid[id] \in Int /\ price \in Int /\ cost \in Int /\ cash \in Int
  BY RowCashType
<1>5. Filled(s, now, id, change) = r
  BY DEF Filled
<1> HIDE DEF price, cost, cash
<1>6. fill \in Fill /\ fill.at = s.next /\ fill.id = id /\ fill.quantity = change
  BY <1>1 DEF Fill, StateSet
<1>7. "hedge_trade" \in FlowKinds
  BY DEF FlowKinds
<1>8. s1 \in StateSet(L) /\ OnlyBooked(s1, s) /\ SameRun(s1, s)
  BY <1>1, <1>7, BookedOnlyBooks
<1> HIDE DEF s1, fill
<1>9. book \in Books
  BY <1>1, <1>8, SlotGroups, TradeType DEF StateSet, Books
<1>10. fills \in Seq(Fill)
  BY <1>6, <1>8 DEF StateSet
<1> HIDE DEF book, fills
<1>11. /\ s2 \in StateSet(L) /\ SameHoldings(s2, s1) /\ SameClaims(s2, s1) /\ SameOrders(s2, s1)
       /\ SameRun(s2, s1) /\ SameCash(s2, s1) /\ s2.fills = fills
  BY <1>8, <1>9, <1>10
     DEF StateSet, Books, SameHoldings, SameClaims, SameOrders, SameRun, SameCash
<1> HIDE DEF s2
<1>12. CASE id = Spot
  <2> DEFINE stock == s2.stock + change
  <2>1. stock \in Int /\ r = [s2 EXCEPT !.stock = stock]
    BY <1>11, <1>12, SMTT(30) DEF AfterRow, StateSet
  <2> HIDE DEF r, stock
  <2>2. /\ r \in StateSet(L) /\ r.stock = stock /\ r.targets = s2.targets /\ r.hedges = s2.hedges
        /\ SameClaims(r, s2) /\ SameOrders(r, s2) /\ SameRun(r, s2) /\ SameCash(r, s2)
        /\ r.fills = fills
    BY <1>11, <2>1 DEF StateSet, SameClaims, SameOrders, SameRun, SameCash
  <2>3. GrowsCash(r, s)
    BY <1>8, <1>11, <2>2 DEF OnlyBooked, GrowsCash, SameCash, CashSum
  <2>4. r.fills = Append(s.fills, fill)
    BY <1>8, <2>2 DEF OnlyBooked, fills
  <2> QED
    BY <1>5, <1>6, <1>8, <1>11, <1>12, <2>2, <2>3, <2>4
       DEF IsFilled, OnlyBooked, SameHoldings, SameClaims, SameOrders, SameRun, stock
<1>13. CASE id # Spot
  <2> DEFINE hedges == [s2.hedges EXCEPT ![id] = @ + change]
  <2>1. id \in Contracts
    BY <1>13 DEF Instruments
  <2>2. s2.hedges \in [Contracts -> Int]
    BY <1>11 DEF StateSet
  <2>3. r = [s2 EXCEPT !.hedges = hedges]
    BY <1>13 DEF AfterRow
  <2>4. hedges \in [Contracts -> Int] /\ r = [s2 EXCEPT !.hedges = hedges]
    BY <2>1, <2>2, <2>3
  <2> HIDE DEF r, hedges
  <2>5. /\ r \in StateSet(L) /\ r.stock = s2.stock /\ r.targets = s2.targets /\ r.hedges = hedges
        /\ SameClaims(r, s2) /\ SameOrders(r, s2) /\ SameRun(r, s2) /\ SameCash(r, s2)
        /\ r.fills = fills
    BY <1>11, <2>4 DEF StateSet, SameClaims, SameOrders, SameRun, SameCash
  <2>6. GrowsCash(r, s)
    BY <1>8, <1>11, <2>5 DEF OnlyBooked, GrowsCash, SameCash, CashSum
  <2>7. r.fills = Append(s.fills, fill)
    BY <1>8, <2>5 DEF OnlyBooked, fills
  <2> QED
    BY <1>5, <1>6, <1>8, <1>11, <1>13, <2>5, <2>6, <2>7
       DEF IsFilled, OnlyBooked, SameHoldings, SameClaims, SameOrders, SameRun, hedges
<1> QED
  BY <1>12, <1>13

Outcomes == {"filled", "rejected_cash_limit", "rejected_gross_limit"}

(* An order is resolved: only its outcome changes.                         *)
ResolvedOrder(r, s, k, outcome) ==
  /\ Len(r.orders) = Len(s.orders)
  /\ \A j \in 1..Len(s.orders) : j # k => r.orders[j] = s.orders[j]
  /\ r.orders[k].status = outcome /\ r.orders[k].fillAt = s.next
  /\ r.orders[k].want = s.orders[k].want /\ r.orders[k].kind = s.orders[k].kind
  /\ r.orders[k].decided = s.orders[k].decided

IsResolved(r, s, k, outcome) ==
  /\ SameHoldings(r, s) /\ SameClaims(r, s) /\ SameCash(r, s) /\ SameRun(r, s)
  /\ r.fills = s.fills /\ r.pending = s.pending
  /\ ResolvedOrder(r, s, k, outcome)

LEMMA ResolvedIs ==
  ASSUME NEW L, NEW s \in StateSet(L), NEW k \in 1..Len(s.orders), NEW outcome \in Outcomes,
         s.next \in 1..Horizon
  PROVE  Resolved(s, k, outcome) \in StateSet(L) /\ IsResolved(Resolved(s, k, outcome), s, k, outcome)
<1> DEFINE o == [s.orders[k] EXCEPT !.status = outcome, !.fillAt = s.next]
           orders == [s.orders EXCEPT ![k] = o]
           r == [s EXCEPT !.orders = orders]
<1>1. s.orders \in Seq(Order) /\ s.orders[k] \in Order /\ s.next \in 0..Horizon
  BY ScheduleAssumption DEF StateSet, Horizon
<1>2. /\ o \in Order /\ o.status = outcome /\ o.fillAt = s.next /\ o.want = s.orders[k].want
      /\ o.kind = s.orders[k].kind /\ o.decided = s.orders[k].decided
  BY <1>1 DEF Order, Outcomes
<1> HIDE DEF o
<1>3. /\ orders \in Seq(Order) /\ Len(orders) = Len(s.orders) /\ orders[k] = o
      /\ \A j \in 1..Len(s.orders) : j # k => orders[j] = s.orders[j]
  BY <1>1, <1>2
<1>4. Resolved(s, k, outcome) = r
  BY <1>1 DEF Resolved, o
<1> HIDE DEF orders
<1>5. /\ r \in StateSet(L) /\ SameHoldings(r, s) /\ SameClaims(r, s) /\ SameCash(r, s)
      /\ SameRun(r, s) /\ r.fills = s.fills /\ r.pending = s.pending /\ r.orders = orders
  BY <1>3 DEF StateSet, SameHoldings, SameClaims, SameCash, SameRun
<1> HIDE DEF r
<1> QED
  BY <1>2, <1>3, <1>4, <1>5 DEF IsResolved, ResolvedOrder
-----------------------------------------------------------------------------
(* The state that a replay starts in.                                      *)

(* Nothing has happened yet but the entry of the targets.                  *)
Unprocessed(s) ==
  /\ s \in StateSet({}) /\ s.next = 1 /\ s.pending = 0 /\ s.stock = 0
  /\ s.hedges = [c \in Contracts |-> 0] /\ s.receivables = {} /\ s.flowIds = {}
  /\ s.ledger = <<>> /\ s.orders = <<>> /\ s.fills = <<>> /\ s.settlements = <<>>
  /\ s.cash = InitialCash + CashSum(s)
  /\ \A i \in 1..Len(s.cashflows) : s.cashflows[i].kind = "target_entry"

(* A cash identity survives what grows cash and cashflows together.        *)
LEMMA CashKept ==
  ASSUME NEW r, NEW s, r.cash \in Int, s.cash \in Int, CashSum(r) \in Int, CashSum(s) \in Int,
         GrowsCash(r, s), s.cash = InitialCash + CashSum(s)
  PROVE  r.cash = InitialCash + CashSum(r)
<1>1. InitialCash \in Int
  BY ConfigAssumption
<1> QED
  BY <1>1 DEF GrowsCash

(* A sum of amounts is an integer.                                         *)
LEMMA CashSumType ==
  ASSUME NEW s, s.cashflows \in Seq(Flow)
  PROVE  CashSum(s) \in Int
<1> DEFINE xs == [i \in DOMAIN s.cashflows |-> s.cashflows[i].amount]
<1>1. \A f \in Flow : f.amount \in Int
  BY DEF Flow
<1>2. DOMAIN s.cashflows = 1..Len(s.cashflows) /\ \A i \in DOMAIN s.cashflows : s.cashflows[i] \in Flow
  OBVIOUS
<1>3. \A i \in DOMAIN s.cashflows : s.cashflows[i].amount \in Int
  BY <1>1, <1>2
<1>4. xs \in Seq(Int) /\ Len(xs) = Len(s.cashflows)
  BY <1>2, <1>3
<1>5. CashSum(s) = Total(xs)
  BY DEF CashSum, SumOver
<1> HIDE DEF xs
<1>6. Append(xs, 0) \in Seq(Int)
  BY <1>4
<1> QED
  BY <1>4, <1>5, TotalOfAppend

(* An entry position is booked.                                            *)
LEMMA EnteredIs ==
  ASSUME NEW s, Unprocessed(s), NEW n \in 1..Len(Portfolio)
  PROVE  Unprocessed(Entered(s, Portfolio[n]))
<1> DEFINE p == Portfolio[n]
           cash == -p.quantity * p.price - p.fee
           flow == [at |-> 1, kind |-> "target_entry", amount |-> cash]
           slot == <<"targets", p.contract>>
           book == Trade(s.book, slot, p.quantity, p.price, p.price)
           targets == [s.targets EXCEPT ![p.contract] = @ + p.quantity]
           flows == Append(s.cashflows, flow)
           left == s.cash + cash
           r == [s EXCEPT !.targets = targets, !.book = book, !.cash = left, !.cashflows = flows]
<1>1. p.contract \in Contracts /\ p.quantity \in Int /\ p.price \in Int /\ p.fee \in Int
  <2> DEFINE Entry == [contract : Contracts, quantity : Int, price : Int, fee : Nat]
  <2>1. Portfolio \in Seq(Entry)
    BY PortfolioAssumption
  <2> HIDE DEF Entry
  <2>2. p \in Entry
    BY <2>1
  <2> QED
    BY <2>2 DEF Entry
<1>2. cash \in Int
  <2> HIDE DEF p
  <2> QED
    BY <1>1
<1>3. Entered(s, p) = r
  BY DEF Entered, Unprocessed, StateSet
<1>4. s \in StateSet({}) /\ s.targets \in [Contracts -> Int] /\ s.book \in Books /\ s.cash \in Int
      /\ s.cashflows \in Seq(Flow)
  BY DEF Unprocessed, StateSet, Books
<1>5. slot \in Slots
  BY <1>1 DEF Slots, HoldingGroups
<1> HIDE DEF p, cash, slot
<1>6. book \in Books
  BY <1>1, <1>4, <1>5, TradeType
<1>7. targets \in [Contracts -> Int]
  BY <1>1, <1>4
<1>8. flow \in Flow /\ flow.amount = cash /\ flow.kind = "target_entry"
  BY <1>2 DEF Flow, FlowKinds
<1> HIDE DEF flow, book, targets
<1>9. /\ flows \in Seq(Flow) /\ Len(flows) = Len(s.cashflows) + 1
      /\ flows[Len(s.cashflows) + 1] = flow
      /\ \A i \in 1..Len(s.cashflows) : flows[i] = s.cashflows[i]
  BY <1>4, <1>8, Appended
<1>15. left \in Int
  BY <1>2, <1>4
<1> HIDE DEF flows, left
<1>10. /\ r \in StateSet({}) /\ r.next = s.next /\ r.pending = s.pending /\ r.stock = s.stock
       /\ r.hedges = s.hedges /\ r.receivables = s.receivables /\ r.flowIds = s.flowIds
       /\ r.ledger = s.ledger /\ r.orders = s.orders /\ r.fills = s.fills
       /\ r.settlements = s.settlements /\ r.cash = left /\ r.cashflows = flows
  BY <1>4, <1>6, <1>7, <1>9, <1>15 DEF StateSet, Books
<1> HIDE DEF r
<1>11. GrowsCash(r, s)
  BY <1>4, <1>8, <1>10, CashGrows DEF flows, left
<1>12. r.cash = InitialCash + CashSum(r)
  <2>1. CashSum(r) \in Int /\ CashSum(s) \in Int /\ r.cash \in Int
    BY <1>4, <1>9, <1>10, <1>15, CashSumType
  <2> QED
    BY <1>4, <1>11, <2>1, CashKept DEF Unprocessed
<1>13. \A i \in 1..Len(r.cashflows) : r.cashflows[i].kind = "target_entry"
  <2>1. Len(s.cashflows) \in Nat
    BY <1>4
  <2>2. \A i \in 1..Len(s.cashflows) : s.cashflows[i].kind = "target_entry"
    BY DEF Unprocessed
  <2>3. \A i \in 1..Len(flows) : i = Len(s.cashflows) + 1 \/ i \in 1..Len(s.cashflows)
    BY <1>9, <2>1
  <2> QED
    BY <1>8, <1>9, <1>10, <2>2, <2>3
<1>14. Unprocessed(r)
  BY <1>10, <1>12, <1>13 DEF Unprocessed
<1> QED
  BY <1>3, <1>14 DEF p

LEMMA UntouchedIs == Unprocessed(Untouched)
<1>1. InitialCash \in Int
  BY ConfigAssumption
<1>2. NewBook(Slots) \in BookType(Slots, Claim)
  BY DEF NewBook, BookType
<1>3. Untouched \in StateSet({})
  BY <1>1, <1>2 DEF Untouched, StateSet
<1>4. CashSum(Untouched) = 0
  <2>1. [i \in DOMAIN <<>> |-> <<>>[i].amount] = <<>>
    OBVIOUS
  <2>2. Untouched.cashflows = <<>>
    BY DEF Untouched
  <2> QED
    BY <2>1, <2>2, TotalOfNone DEF CashSum, SumOver
<1> QED
  BY <1>1, <1>3, <1>4 DEF Unprocessed, Untouched

(* The positions are entered one by one.                                   *)
LEMMA EntryUnfolds ==
  /\ Entries[0] = Untouched /\ EntryState = Entries[Len(Portfolio)]
  /\ \A n \in 0..Len(Portfolio) : Unprocessed(Entries[n])
  /\ \A n \in 1..Len(Portfolio) : Entries[n] = Entered(Entries[n - 1], Portfolio[n])
<1> DEFINE N == Len(Portfolio)
           Unfold(f) == [n \in 0..N |-> IF n = 0 THEN Untouched ELSE Entered(f[n - 1], Portfolio[n])]
           S == {r \in StateSet({}) : Unprocessed(r)}
           step == [n \in 1..N |-> [r \in S |-> Entered(r, Portfolio[n])]]
<1>1. N \in Nat
  BY PortfolioAssumption
<1>2. Untouched \in S
  BY UntouchedIs DEF Unprocessed
<1>3. ASSUME NEW r \in S, NEW n \in 1..N PROVE Entered(r, Portfolio[n]) \in S
  <2>1. Unprocessed(Entered(r, Portfolio[n]))
    BY <1>3, EnteredIs
  <2> QED
    BY <2>1 DEF Unprocessed
<1>4. step \in [1..N -> [S -> S]]
  BY <1>3
<1> HIDE DEF S, N
<1>5. PICK g \in [0..N -> S] : g[0] = Untouched /\ \A n \in 1..N : g[n] = step[n][g[n - 1]]
  <2> HIDE DEF step
  <2>1. N \in Nat /\ Untouched \in S /\ step \in [1..N -> [S -> S]]
    BY <1>1, <1>2, <1>4
  <2> QED
    BY <2>1, RecursionHasSolution
<1>6. g = Unfold(g)
  <2>1. ASSUME NEW n \in 1..N PROVE g[n] = Entered(g[n - 1], Portfolio[n])
    <3>1. n - 1 \in 0..N
      BY <1>1
    <3>2. g[n - 1] \in S
      BY <3>1
    <3> HIDE DEF step
    <3>3. g[n] = step[n][g[n - 1]]
      BY <1>5
    <3> QED
      BY <3>2, <3>3 DEF step
  <2>2. \A n \in 0..N : g[n] = IF n = 0 THEN Untouched ELSE Entered(g[n - 1], Portfolio[n])
    BY <1>1, <1>5, <2>1
  <2> QED
    BY <1>5, <2>2
<1>7. Entries = Unfold(Entries)
  <2>1. Entries = CHOOSE f : f = Unfold(f)
    BY DEF Entries, N
  <2> QED
    BY <1>6, <2>1
<1>8. EntryState = Entries[N]
  BY DEF EntryState, N
<1>9. Entries[0] = Untouched /\ \A n \in 1..N : Entries[n] = Entered(Entries[n - 1], Portfolio[n])
  BY <1>1, <1>7
<1> DEFINE T == {n \in Nat : n <= N => Entries[n] \in S}
<1>10. 0 \in T
  BY <1>2, <1>9
<1>11. ASSUME NEW n \in Nat, n \in T PROVE n + 1 \in T
  <2>1. SUFFICES ASSUME n + 1 <= N PROVE Entries[n + 1] \in S
    OBVIOUS
  <2>2. n + 1 \in 1..N /\ Entries[n] \in S /\ (n + 1) - 1 = n
    BY <1>1, <1>11, <2>1
  <2>3. Entries[n + 1] = Entered(Entries[n], Portfolio[n + 1])
    BY <1>9, <2>2
  <2> QED
    BY <1>3, <2>2, <2>3
<1> HIDE DEF T
<1>12. \A n \in 0..N : n \in T
  BY <1>1, <1>10, <1>11, Induction
<1>13. \A n \in 0..N : Entries[n] \in S
  BY <1>1, <1>12 DEF T
<1>14. \A n \in 0..N : Unprocessed(Entries[n])
  BY <1>13 DEF S
<1> QED
  BY <1>8, <1>9, <1>14 DEF N

(* The entry state has the targets and what they cost, and nothing else.   *)
LEMMA EntryIs == Unprocessed(EntryState)
<1>1. Len(Portfolio) \in 0..Len(Portfolio)
  BY PortfolioAssumption
<1> QED
  BY <1>1, EntryUnfolds
-----------------------------------------------------------------------------
(* The rollback.                                                           *)

(* b has the rows of a, and perhaps more.                                  *)
Longer(b, a) == Len(a) <= Len(b) /\ \A i \in 1..Len(a) : b[i] = a[i]

(* The tables of s continue those of v; only the order that is pending in  *)
(* v may have been resolved.                                               *)
Continues(s, v) ==
  /\ Longer(s.ledger, v.ledger) /\ Longer(s.fills, v.fills)
  /\ Longer(s.cashflows, v.cashflows) /\ Longer(s.settlements, v.settlements)
  /\ Len(v.orders) <= Len(s.orders)
  /\ \A k \in 1..Len(v.orders) : k # v.pending => s.orders[k] = v.orders[k]

(* What a longer table begins with.                                        *)
LEMMA Beginning ==
  ASSUME NEW S, NEW T, NEW a \in Seq(S), NEW b \in Seq(T), Longer(b, a)
  PROVE  SubSeq(b, 1, Len(a)) = a
<1> DEFINE U == S \union T
           c == SubSeq(b, 1, Len(a))
<1>1. a \in Seq(U) /\ b \in Seq(U)
  BY SeqWidens
<1> HIDE DEF U
<1>2. Len(a) \in 0..Len(b) /\ \A i \in 1..Len(a) : b[i] = a[i]
  BY <1>1 DEF Longer
<1>3. c \in Seq(U) /\ Len(c) = Len(a) /\ \A i \in 1..Len(a) : c[i] = b[i]
  BY <1>1, <1>2, FirstElements
<1> HIDE DEF c
<1>4. c = a
  BY <1>1, <1>2, <1>3, SameElements
<1> QED
  BY <1>4 DEF c

(* A rollback undoes all that was appended and resolved.                   *)
LEMMA RollbackRestores ==
  ASSUME NEW L, NEW M, NEW s \in StateSet(L), NEW v \in StateSet(M), Continues(s, v),
         v.pending <= Len(v.orders)
  PROVE  Rollback(s, Savepoint(v)) = v
<1> DEFINE sp == Savepoint(v)
           ledger == SubSeq(s.ledger, 1, Len(v.ledger))
           orders == SubSeq(s.orders, 1, Len(v.orders))
           fills == SubSeq(s.fills, 1, Len(v.fills))
           flows == SubSeq(s.cashflows, 1, Len(v.cashflows))
           rows == SubSeq(s.settlements, 1, Len(v.settlements))
           old == [v EXCEPT !.ledger = <<>>, !.orders = <<>>, !.fills = <<>>,
                            !.cashflows = <<>>, !.settlements = <<>>]
           kept == [old EXCEPT !.ledger = ledger, !.orders = orders, !.fills = fills,
                               !.cashflows = flows, !.settlements = rows]
<1>1. /\ sp.values = old /\ sp.lengths.ledger = Len(v.ledger) /\ sp.lengths.orders = Len(v.orders)
      /\ sp.lengths.fills = Len(v.fills) /\ sp.lengths.cashflows = Len(v.cashflows)
      /\ sp.lengths.settlements = Len(v.settlements)
      /\ sp.order = IF v.pending # 0 THEN <<v.orders[v.pending]>> ELSE <<>>
  BY DEF Savepoint
<1> HIDE DEF sp
<1>2. Truncated(s, sp) = kept
  BY <1>1 DEF Truncated
<1>3. ledger = v.ledger /\ fills = v.fills /\ flows = v.cashflows /\ rows = v.settlements
  <2>1. /\ s.ledger \in Seq(L) /\ v.ledger \in Seq(M)
        /\ s.fills \in Seq(Fill) /\ v.fills \in Seq(Fill)
        /\ s.cashflows \in Seq(Flow) /\ v.cashflows \in Seq(Flow)
        /\ s.settlements \in Seq(Settlement) /\ v.settlements \in Seq(Settlement)
    BY DEF StateSet
  <2>2. ledger = v.ledger
    BY <2>1, Beginning DEF Continues
  <2>3. fills = v.fills
    BY <2>1, Beginning DEF Continues
  <2>4. flows = v.cashflows
    BY <2>1, Beginning DEF Continues
  <2>5. rows = v.settlements
    BY <2>1, Beginning DEF Continues
  <2> QED
    BY <2>2, <2>3, <2>4, <2>5
<1>4. /\ s.orders \in Seq(Order) /\ v.orders \in Seq(Order) /\ Len(v.orders) \in 0..Len(s.orders)
      /\ v.pending \in 0..Len(v.orders)
  BY DEF StateSet, Continues
<1>5. /\ orders \in Seq(Order) /\ Len(orders) = Len(v.orders)
      /\ \A k \in 1..Len(v.orders) : k # v.pending => orders[k] = v.orders[k]
  <2>1. \A k \in 1..Len(v.orders) : k # v.pending => s.orders[k] = v.orders[k]
    BY DEF Continues
  <2>2. orders \in Seq(Order) /\ Len(orders) = Len(v.orders)
        /\ \A k \in 1..Len(v.orders) : orders[k] = s.orders[k]
    BY <1>4, FirstElements
  <2> HIDE DEF orders
  <2> QED
    BY <2>1, <2>2
<1> HIDE DEF ledger, orders, fills, flows, rows
<1>6. kept = [v EXCEPT !.orders = orders]
  BY <1>3 DEF StateSet
<1> HIDE DEF kept, old
<1>7. CASE v.pending = 0
  <2>1. orders = v.orders
    BY <1>4, <1>5, <1>7, SameElements
  <2>2. Rollback(s, sp) = kept
    BY <1>1, <1>2, <1>7 DEF Rollback
  <2>3. [v EXCEPT !.orders = v.orders] = v
    BY DEF StateSet
  <2> QED
    BY <1>6, <2>1, <2>2, <2>3 DEF sp
<1>8. CASE v.pending # 0
  <2> DEFINE o == v.orders[v.pending]
             restored == [orders EXCEPT ![v.pending] = o]
  <2>1. v.pending \in 1..Len(v.orders) /\ o \in Order
    BY <1>4, <1>8
  <2>2. restored \in Seq(Order) /\ Len(restored) = Len(v.orders)
        /\ \A k \in 1..Len(v.orders) : restored[k] = v.orders[k]
    BY <1>5, <2>1
  <2>3. restored = v.orders
    <3> HIDE DEF restored
    <3> QED
      BY <1>4, <2>2, SameElements
  <2>4. sp.order # <<>> /\ sp.order[1] = o
    BY <1>1, <1>8
  <2>5. kept.pending = v.pending /\ kept.orders = orders
    BY <1>6 DEF StateSet
  <2>6. Rollback(s, sp) = [kept EXCEPT !.orders = restored]
    <3>1. Rollback(s, sp) = [kept EXCEPT !.orders[kept.pending] = sp.order[1]]
      BY <1>2, <2>4 DEF Rollback
    <3>2. [kept EXCEPT !.orders[kept.pending] = sp.order[1]]
            = [kept EXCEPT !.orders = [kept.orders EXCEPT ![kept.pending] = sp.order[1]]]
      OBVIOUS
    <3> QED
      BY <2>4, <2>5, <3>1, <3>2
  <2>7. [kept EXCEPT !.orders = restored] = v
    <3> HIDE DEF restored
    <3> QED
      BY <1>6, <2>3 DEF StateSet
  <2> QED
    BY <2>6, <2>7 DEF sp
<1> QED
  BY <1>7, <1>8
-----------------------------------------------------------------------------
(* The sums that the tables are reported by.                               *)
(* A sum along an enumeration of the domain is the sum over it.            *)
LEMMA SumAlong ==
  ASSUME NEW D, IsFiniteSet(D), NEW f \in [D -> Int]
  PROVE  LET ids == SetToSeq(D)
         IN  /\ [n \in 1..Len(ids) |-> f[ids[n]]] \in Seq(Int)
             /\ Total([n \in 1..Len(ids) |-> f[ids[n]]]) = SumFunction(f)
<1> DEFINE ids == SetToSeq(D)
           N == Len(ids)
           xs == [n \in 1..N |-> f[ids[n]]]
<1>1. /\ N \in Nat /\ \A n \in 1..N : ids[n] \in D
      /\ \A m, n \in 1..N : ids[m] = ids[n] => m = n
      /\ \A x \in D : \E n \in 1..N : ids[n] = x
  <2> DEFINE k == Cardinality(D)
  <2>1. k \in Nat /\ ExistsBijection(1..k, D)
    BY FS_CardinalityType
  <2>2. PICK g \in [1..k -> D] : IsInjective(g)
    BY <2>1 DEF ExistsBijection, Bijection, Injection
  <2>3. ids \in [1..k -> D] /\ IsInjective(ids)
    BY <2>2 DEF SetToSeq
  <2>4. IsFiniteSet(1..k) /\ Cardinality(1..k) = k
    BY <2>1, FS_Interval
  <2> HIDE DEF ids
  <2>5. ids \in Surjection(1..k, D)
    <3> HIDE DEF k
    <3>1. ids \in Injection(1..k, D)
      BY <2>3 DEF Injection, IsInjective
    <3> QED
      BY <2>4, <3>1, FS_Injection DEF k
  <2> HIDE DEF k
  <2>6. Len(ids) = k
    BY <2>1, <2>3
  <2>7. \A x \in D : \E n \in 1..k : ids[n] = x
    BY <2>5 DEF Surjection
  <2> QED
    BY <2>1, <2>3, <2>6, <2>7 DEF IsInjective
<1> HIDE DEF ids, N
<1>2. xs \in Seq(Int) /\ Len(xs) = N
  BY <1>1
<1>3. PICK g \in [0..N -> Int] : /\ g[0] = 0 /\ \A n \in 1..N : g[n] = g[n - 1] + xs[n]
                                 /\ Total(xs) = g[N]
  BY <1>2, RunningSums
<1>4. PICK it : Sums(f, it)
  BY SumsExist
<1>5. /\ it[{}] = 0 /\ SumFunction(f) = it[D]
      /\ \A s \in SUBSET D : \A x \in s : it[s] = f[x] + it[s \ {x}]
  BY <1>4 DEF Sums
<1> DEFINE first(n) == {ids[k] : k \in 1..n}
           T == {n \in Nat : n <= N => g[n] = it[first(n)]}
<1>6. 0 \in T
  <2>1. first(0) = {}
    OBVIOUS
  <2> HIDE DEF first
  <2> QED
    BY <1>3, <1>5, <2>1
<1>7. ASSUME NEW n \in Nat, n \in T PROVE n + 1 \in T
  <2>1. SUFFICES ASSUME n + 1 <= N PROVE g[n + 1] = it[first(n + 1)]
    OBVIOUS
  <2> DEFINE x == ids[n + 1]
  <2>2. n + 1 \in 1..N /\ (n + 1) - 1 = n /\ \A k \in 1..n : k \in 1..N /\ k # n + 1
    BY <1>1, <2>1
  <2>3. first(n + 1) \in SUBSET D /\ x \in first(n + 1)
    <3>1. \A k \in 1..n + 1 : k \in 1..N
      BY <1>1, <2>1
    <3> QED
      BY <1>1, <3>1, SMTT(30)
  <2>4. first(n + 1) \ {x} = first(n)
    <3>1. \A k \in 1..n + 1 : k = n + 1 \/ k \in 1..n
      OBVIOUS
    <3>2. \A k \in 1..n : k \in 1..n + 1 /\ ids[k] # x
      BY <1>1, <2>2
    <3> QED
      BY <3>1, <3>2
  <2>5. g[n] = it[first(n)]
    <3> HIDE DEF first, xs
    <3> QED
      BY <1>1, <1>7, <2>1
  <2>6. g[n + 1] = g[n] + f[x]
    <3>1. xs[n + 1] = f[x]
      BY <2>2
    <3> QED
      BY <1>3, <2>2, <3>1
  <2>7. it[first(n + 1)] = f[x] + it[first(n)]
    <3> DEFINE a == first(n + 1)
               b == first(n)
    <3>1. a \in SUBSET D /\ x \in a /\ a \ {x} = b
      BY <2>3, <2>4
    <3> HIDE DEF a, b, x
    <3>2. it[a] = f[x] + it[a \ {x}]
      BY <1>5, <3>1
    <3>3. it[a] = f[x] + it[b]
      BY <3>1, <3>2
    <3> QED
      BY <3>3 DEF a, b
  <2>8. f[x] \in Int /\ g[n] \in Int
    BY <1>1, <1>3, <2>2
  <2> HIDE DEF first, x, T
  <2> QED
    BY <2>5, <2>6, <2>7, <2>8
<1>8. N \in T
  <2> HIDE DEF T
  <2> QED
    BY <1>1, <1>6, <1>7, Induction
<1>9. first(N) = D
  BY <1>1
<1>10. Total(xs) = SumFunction(f)
  <2>1. g[N] = it[first(N)]
    <3> HIDE DEF first, xs
    <3> QED
      BY <1>1, <1>8
  <2> HIDE DEF first, xs, T
  <2> QED
    BY <1>3, <1>5, <1>9, <2>1
<1> QED
  BY <1>2, <1>10 DEF N, ids

(* The sum of the weights of the rows of a sequence.                       *)
Weighed(w, rows) == Total([i \in DOMAIN rows |-> w[rows[i]]])

LEMMA WeighedOfAppend ==
  ASSUME NEW S, NEW w \in [S -> Int], NEW rows \in Seq(S), NEW x \in S
  PROVE  /\ Weighed(w, rows) \in Int /\ w[x] \in Int
         /\ Weighed(w, Append(rows, x)) = Weighed(w, rows) + w[x]
<1> DEFINE more == Append(rows, x)
           N  == Len(rows)
           xs == [i \in DOMAIN rows |-> w[rows[i]]]
           ys == [i \in DOMAIN more |-> w[more[i]]]
<1>1. /\ Len(more) = N + 1 /\ more \in Seq(S) /\ N \in Nat /\ more[N + 1] = x
      /\ \A i \in 1..N : more[i] = rows[i]
  BY Appended
<1>2. xs \in Seq(Int) /\ Len(xs) = N /\ w[x] \in Int
  OBVIOUS
<1>3. ys \in Seq(Int) /\ Len(ys) = N + 1
  <2> HIDE DEF more
  <2> QED
    BY <1>1
<1>4. ys = Append(xs, w[x])
  <2>1. /\ Append(xs, w[x]) \in Seq(Int) /\ Len(Append(xs, w[x])) = N + 1
        /\ \A i \in 1..N : Append(xs, w[x])[i] = xs[i]
        /\ Append(xs, w[x])[N + 1] = w[x]
    <3> HIDE DEF xs
    <3> QED
      BY <1>2
  <2>2. \A i \in 1..N : ys[i] = w[more[i]] /\ xs[i] = w[rows[i]]
    <3> HIDE DEF more
    <3> QED
      BY <1>1
  <2>3. ys[N + 1] = w[x]
    <3> HIDE DEF more
    <3> QED
      BY <1>1
  <2>4. \A i \in 1..N + 1 : i \in 1..N \/ i = N + 1
    BY <1>1
  <2> HIDE DEF xs, ys, more
  <2>5. \A i \in 1..N + 1 : ys[i] = Append(xs, w[x])[i]
    BY <1>1, <2>1, <2>2, <2>3, <2>4
  <2> QED
    BY <1>1, <1>3, <2>1, <2>5, SameElements
<1> HIDE DEF xs, ys
<1>5. Total(ys) = Total(xs) + w[x] /\ Total(xs) \in Int
  BY <1>2, <1>4, TotalOfAppend
<1> QED
  BY <1>2, <1>5 DEF Weighed, xs, ys

LEMMA WeighedOfNone == ASSUME NEW w PROVE Weighed(w, <<>>) = 0
<1> DEFINE xs == [i \in DOMAIN <<>> |-> w[<<>>[i]]]
<1>1. xs = <<>>
  OBVIOUS
<1>2. Weighed(w, <<>>) = Total(xs)
  BY DEF Weighed
<1> HIDE DEF xs
<1> QED
  BY <1>1, <1>2, TotalOfNone

(* The sum over the first rows, row by row.                                *)
LEMMA WeighedSoFar ==
  ASSUME NEW S, NEW w \in [S -> Int], NEW rows \in Seq(S), NEW n \in 1..Len(rows)
  PROVE  /\ Weighed(w, SubSeq(rows, 1, n - 1)) \in Int /\ w[rows[n]] \in Int
         /\ Weighed(w, SubSeq(rows, 1, n)) = Weighed(w, SubSeq(rows, 1, n - 1)) + w[rows[n]]
<1> DEFINE before == SubSeq(rows, 1, n - 1)
           upTo == SubSeq(rows, 1, n)
           x == rows[n]
<1>1. x \in S /\ n - 1 \in 0..Len(rows) /\ n \in 0..Len(rows) /\ n \in Nat
  OBVIOUS
<1>2. before \in Seq(S) /\ Len(before) = n - 1 /\ \A i \in 1..n - 1 : before[i] = rows[i]
  BY <1>1, FirstElements
<1>3. upTo \in Seq(S) /\ Len(upTo) = n /\ \A i \in 1..n : upTo[i] = rows[i]
  BY <1>1, FirstElements
<1> HIDE DEF before, upTo
<1>4. /\ Append(before, x) \in Seq(S) /\ Len(Append(before, x)) = n
      /\ \A i \in 1..n - 1 : Append(before, x)[i] = before[i]
      /\ Append(before, x)[n] = x
  <2>1. Len(before) + 1 = n
    BY <1>1, <1>2
  <2> HIDE DEF x
  <2> QED
    BY <1>1, <1>2, <2>1, Appended
<1>5. \A i \in 1..n : upTo[i] = Append(before, x)[i]
  <2>1. \A i \in 1..n : i \in 1..n - 1 \/ i = n
    BY <1>1
  <2> QED
    BY <1>2, <1>3, <1>4, <2>1
<1>6. upTo = Append(before, x)
  BY <1>3, <1>4, <1>5, SameElements
<1>7. /\ Weighed(w, before) \in Int /\ w[x] \in Int
      /\ Weighed(w, Append(before, x)) = Weighed(w, before) + w[x]
  <2> HIDE DEF x
  <2> QED
    BY <1>1, <1>2, WeighedOfAppend
<1> QED
  BY <1>6, <1>7 DEF before, upTo

(* Rows of no weight weigh nothing.                                        *)
LEMMA WeighedOfZeros ==
  ASSUME NEW S, NEW w \in [S -> Int], NEW rows \in Seq(S),
         \A i \in 1..Len(rows) : w[rows[i]] = 0
  PROVE  Weighed(w, rows) = 0
<1> DEFINE T == {n \in Nat : n <= Len(rows) => Weighed(w, SubSeq(rows, 1, n)) = 0}
<1>1. 0 \in T
  <2>1. SubSeq(rows, 1, 0) = <<>>
    OBVIOUS
  <2> QED
    BY <2>1, WeighedOfNone
<1>2. ASSUME NEW n \in Nat, n \in T PROVE n + 1 \in T
  <2>1. SUFFICES ASSUME n + 1 <= Len(rows) PROVE Weighed(w, SubSeq(rows, 1, n + 1)) = 0
    OBVIOUS
  <2>2. n + 1 \in 1..Len(rows) /\ (n + 1) - 1 = n
    BY <2>1
  <2>3. Weighed(w, SubSeq(rows, 1, n)) = 0
    BY <1>2, <2>1
  <2>4. w[rows[n + 1]] = 0
    BY <2>2
  <2> QED
    BY <2>2, <2>3, <2>4, WeighedSoFar
<1> HIDE DEF T
<1>3. Len(rows) \in Nat
  OBVIOUS
<1>4. Len(rows) \in T
  BY <1>1, <1>2, <1>3, Induction
<1>5. SubSeq(rows, 1, Len(rows)) = rows
  BY <1>3, FirstElements
<1>6. Weighed(w, SubSeq(rows, 1, Len(rows))) = 0
  BY <1>3, <1>4 DEF T
<1> QED
  BY <1>5, <1>6
-----------------------------------------------------------------------------
(* The cashflows by kind.                                                  *)

PartOf(f, kind) == IF f.kind = kind THEN f.amount ELSE 0

Posted(s, kind) == FlowsOf(s.cashflows, kind)

(* One cashflow more.                                                      *)
Posts(r, s, f) ==
  \A kind : /\ {Posted(s, kind), Posted(r, kind), PartOf(f, kind)} \subseteq Int
            /\ Posted(r, kind) = Posted(s, kind) + PartOf(f, kind)

LEMMA PostedIsWeighed ==
  ASSUME NEW s, s.cashflows \in Seq(Flow), NEW kind
  PROVE  LET w == [f \in Flow |-> PartOf(f, kind)]
         IN  w \in [Flow -> Int] /\ Posted(s, kind) = Weighed(w, s.cashflows)
<1> DEFINE w == [f \in Flow |-> PartOf(f, kind)]
<1>1. \A f \in Flow : PartOf(f, kind) \in Int
  BY DEF Flow, PartOf
<1>2. \A i \in DOMAIN s.cashflows : s.cashflows[i] \in Flow
  OBVIOUS
<1>3. [i \in DOMAIN s.cashflows |-> PartOf(s.cashflows[i], kind)]
        = [i \in DOMAIN s.cashflows |-> w[s.cashflows[i]]]
  BY <1>2
<1>4. Posted(s, kind) = Total([i \in DOMAIN s.cashflows |-> PartOf(s.cashflows[i], kind)])
  BY DEF Posted, FlowsOf, SumOver, PartOf
<1> QED
  BY <1>1, <1>3, <1>4 DEF Weighed

LEMMA PostsOfAppend ==
  ASSUME NEW r, NEW s, s.cashflows \in Seq(Flow), NEW f \in Flow,
         r.cashflows = Append(s.cashflows, f)
  PROVE  Posts(r, s, f)
<1> SUFFICES ASSUME NEW kind
             PROVE  /\ {Posted(s, kind), Posted(r, kind), PartOf(f, kind)} \subseteq Int
                    /\ Posted(r, kind) = Posted(s, kind) + PartOf(f, kind)
  BY DEF Posts
<1> DEFINE w == [x \in Flow |-> PartOf(x, kind)]
<1>1. r.cashflows \in Seq(Flow)
  BY Appended
<1>2. /\ w \in [Flow -> Int] /\ Posted(s, kind) = Weighed(w, s.cashflows)
      /\ Posted(r, kind) = Weighed(w, r.cashflows)
  BY <1>1, PostedIsWeighed
<1>3. w[f] = PartOf(f, kind)
  OBVIOUS
<1> HIDE DEF w
<1>4. /\ Weighed(w, s.cashflows) \in Int /\ w[f] \in Int
      /\ Weighed(w, Append(s.cashflows, f)) = Weighed(w, s.cashflows) + w[f]
  BY <1>2, WeighedOfAppend
<1> QED
  BY <1>2, <1>3, <1>4

LEMMA BookedPosts ==
  ASSUME NEW L, NEW s \in StateSet(L), NEW kind \in FlowKinds, NEW amount \in Int
  PROVE  LET f == [at |-> s.next, kind |-> kind, amount |-> amount]
         IN  f \in Flow /\ Posts(Booked(s, kind, amount), s, f)
<1> DEFINE f == [at |-> s.next, kind |-> kind, amount |-> amount]
           r == Booked(s, kind, amount)
<1>1. f \in Flow /\ s.cashflows \in Seq(Flow)
  BY DEF Flow, StateSet
<1>2. r.cashflows = Append(s.cashflows, f)
  BY BookedIs
<1> HIDE DEF f, r
<1>3. Posts(r, s, f)
  BY <1>1, <1>2, PostsOfAppend
<1> QED
  BY <1>1, <1>3 DEF f, r

(* What a booking of another kind leaves alone.                            *)
Elsewhere(r, s, kinds) == \A k \in FlowKinds \ kinds : Posted(r, k) = Posted(s, k)

LEMMA PostsElsewhere ==
  ASSUME NEW r, NEW s, NEW f, Posts(r, s, f), NEW kinds, f.kind \in kinds
  PROVE  Elsewhere(r, s, kinds)
<1> SUFFICES ASSUME NEW k \in FlowKinds \ kinds PROVE Posted(r, k) = Posted(s, k)
  BY DEF Elsewhere
<1>1. PartOf(f, k) = 0
  BY DEF PartOf
<1>2. /\ {Posted(s, k), Posted(r, k), PartOf(f, k)} \subseteq Int
      /\ Posted(r, k) = Posted(s, k) + PartOf(f, k)
  BY DEF Posts
<1> QED
  BY <1>1, <1>2

CarryKinds == {"funding", "stock_borrow", "dividend"}

LEMMA CarriedElsewhere ==
  ASSUME NEW L, NEW s \in StateSet(L), NEW previous \in Market, NEW now \in Market,
         NEW days \in Int
  PROVE  Elsewhere(Carried(s, previous, now, days), s, CarryKinds)
<1> DEFINE rate == IF s.cash >= 0 THEN previous.lending ELSE previous.borrowing
           funding == (s.cash * rate * days) \div RateUnit
           borrow == IF s.stock < 0
                       THEN (s.stock * previous.mid[Spot] * previous.stockBorrow * days)
                              \div RateUnit
                       ELSE 0
           dividend == s.stock * now.dividend
           s1 == Booked(s, "funding", funding)
           s2 == Booked(s1, "stock_borrow", borrow)
           s3 == Booked(s2, "dividend", dividend)
<1>1. funding \in Int /\ borrow \in Int /\ dividend \in Int
  BY CarriedAmounts
<1>6. Carried(s, previous, now, days) = s3
  BY DEF Carried
<1>7. CarryKinds \subseteq FlowKinds /\ CarryKinds = {"funding", "stock_borrow", "dividend"}
  BY DEF CarryKinds, FlowKinds
<1> HIDE DEF funding, borrow, dividend, s1, s2, s3
<1>2. ASSUME NEW q \in StateSet(L), NEW kind \in CarryKinds, NEW amount \in Int
      PROVE  Booked(q, kind, amount) \in StateSet(L) /\ Elsewhere(Booked(q, kind, amount), q, CarryKinds)
  <2> DEFINE f == [at |-> q.next, kind |-> kind, amount |-> amount]
  <2>1. Booked(q, kind, amount) \in StateSet(L) /\ Posts(Booked(q, kind, amount), q, f)
    BY <1>7, BookedIs, BookedPosts
  <2>2. f.kind \in CarryKinds
    OBVIOUS
  <2> HIDE DEF f
  <2> QED
    BY <2>1, <2>2, PostsElsewhere
<1>3. s1 \in StateSet(L) /\ Elsewhere(s1, s, CarryKinds)
  BY <1>1, <1>2, <1>7 DEF s1
<1>4. s2 \in StateSet(L) /\ Elsewhere(s2, s1, CarryKinds)
  BY <1>1, <1>2, <1>3, <1>7 DEF s2
<1>5. s3 \in StateSet(L) /\ Elsewhere(s3, s2, CarryKinds)
  BY <1>1, <1>2, <1>4, <1>7 DEF s3
<1>8. Elsewhere(s3, s, CarryKinds)
  BY <1>3, <1>4, <1>5 DEF Elsewhere
<1> QED
  BY <1>6, <1>8

LEMMA PaidElsewhere ==
  ASSUME NEW L, NEW s \in StateSet(L), NEW claim \in Claim
  PROVE  Elsewhere(Paid(s, claim), s, {"targets_settlement", "hedges_settlement"})
<1> DEFINE kind == IF claim.slot[1] = "targets" THEN "targets_settlement" ELSE "hedges_settlement"
           s1 == Booked(s, kind, claim.amount)
           f == [at |-> s.next, kind |-> kind, amount |-> claim.amount]
           kinds == {"targets_settlement", "hedges_settlement"}
<1>1. kind \in FlowKinds /\ claim.amount \in Int /\ kind \in kinds
  BY DEF FlowKinds, Claim
<1>2. Posts(s1, s, f) /\ s1 \in StateSet(L) /\ f.kind = kind
  <2> HIDE DEF kind
  <2> QED
    BY <1>1, BookedPosts, BookedIs
<1> HIDE DEF kinds, kind
<1>3. Elsewhere(s1, s, kinds)
  <2> HIDE DEF s1, f
  <2> QED
    BY <1>1, <1>2, PostsElsewhere
<1>4. Paid(s, claim).cashflows = s1.cashflows
  <2> DEFINE row == [at |-> s.next, slot |-> claim.slot, event |-> "paid", amount |-> claim.amount]
             book == PayClaim(s1.book, claim, claim.amount)
             rows == Append(s1.settlements, row)
             r == [s1 EXCEPT !.book = book, !.settlements = rows, !.receivables = @ \ {claim}]
  <2>1. Paid(s, claim) = r
    BY DEF Paid, kind
  <2> HIDE DEF row, book, rows, s1
  <2>2. r.cashflows = s1.cashflows
    BY <1>2 DEF StateSet
  <2> QED
    BY <2>1, <2>2
<1> QED
  BY <1>3, <1>4 DEF Elsewhere, Posted, kinds

LEMMA FilledElsewhere ==
  ASSUME NEW L, NEW s \in StateSet(L), NEW now \in Market, NEW id \in Instruments,
         NEW change \in Int
  PROVE  Elsewhere(Filled(s, now, id, change), s, {"hedge_trade"})
<1> DEFINE cash == RowCash(now, id, change)
           s1 == Booked(s, "hedge_trade", cash)
           f == [at |-> s.next, kind |-> "hedge_trade", amount |-> cash]
<1>1. cash \in Int /\ "hedge_trade" \in FlowKinds
  BY RowCashType DEF FlowKinds
<1>2. Posts(s1, s, f) /\ s1 \in StateSet(L) /\ f.kind \in {"hedge_trade"}
  <2> HIDE DEF cash
  <2> QED
    BY <1>1, BookedPosts, BookedIs
<1>3. Elsewhere(s1, s, {"hedge_trade"})
  <2> HIDE DEF s1, f
  <2> QED
    BY <1>2, PostsElsewhere
<1>4. Filled(s, now, id, change).cashflows = s1.cashflows
  <2> DEFINE price == FillPrice(now, id, change)
             fill == [at |-> s.next, id |-> id, quantity |-> change, price |-> price,
                      mid |-> now.mid[id], fee |-> Magnitude(change) * Fee]
             book == Trade(s1.book, HedgeSlot(id), change, price, now.mid[id])
             fills == Append(s1.fills, fill)
             s2 == [s1 EXCEPT !.book = book, !.fills = fills]
  <2>1. Filled(s, now, id, change) = AfterRow(s2, id, change)
    BY DEF Filled
  <2> HIDE DEF fill, book, fills, s1, price
  <2>2. s2.cashflows = s1.cashflows /\ DOMAIN s2 = DOMAIN s1
    BY <1>2 DEF StateSet
  <2>3. "cashflows" \in DOMAIN s1
    BY <1>2 DEF StateSet
  <2> HIDE DEF s2
  <2>4. AfterRow(s2, id, change).cashflows = s2.cashflows
    BY <2>2, <2>3 DEF AfterRow
  <2> QED
    BY <2>1, <2>2, <2>4
<1> QED
  BY <1>3, <1>4 DEF Elsewhere, Posted

(* The capital booked for a snapshot is the sum of its flows.              *)
LEMMA CapitalPosts ==
  ASSUME NEW L, NEW s \in StateSet(L), NEW flows, IsFiniteSet(DOMAIN flows),
         flows \in [DOMAIN flows -> Int], DOMAIN flows \subseteq FlowIds
  PROVE  LET r == CapitalBooked(s, flows)
         IN  /\ Posted(r, "external_capital") = Posted(s, "external_capital") + SumFunction(flows)
             /\ Posted(s, "external_capital") \in Int /\ SumFunction(flows) \in Int
             /\ Elsewhere(r, s, {"external_capital"})
<1> DEFINE r == CapitalBooked(s, flows)
           ids == SetToSeq(DOMAIN flows)
           N == Len(ids)
           xs == [n \in 1..N |-> flows[ids[n]]]
           base == WithIds(s, flows)
           kind == "external_capital"
<1>1. /\ base \in StateSet(L) /\ base.cashflows = s.cashflows
      /\ \E booked : /\ booked[0] = base /\ r = booked[N]
                     /\ \A n \in 0..N : booked[n] \in BooksOn(L, base)
                     /\ \A n \in 1..N : booked[n] = Booked(booked[n - 1], kind, flows[ids[n]])
  BY CapitalUnfolds
<1>2. N \in Nat /\ \A n \in 1..N : ids[n] \in DOMAIN flows
  BY SetToSeqElements
<1>3. xs \in Seq(Int) /\ Total(xs) = SumFunction(flows)
  BY SumAlong
<1>4. Len(xs) = N /\ \A n \in 1..N : xs[n] = flows[ids[n]] /\ flows[ids[n]] \in Int
  BY <1>2
<1> HIDE DEF ids, N, xs, base, r
<1>5. PICK booked : /\ booked[0] = base /\ r = booked[N]
                    /\ \A n \in 0..N : booked[n] \in BooksOn(L, base)
                    /\ \A n \in 1..N : booked[n] = Booked(booked[n - 1], kind, flows[ids[n]])
  BY <1>1
<1>6. PICK g \in [0..N -> Int] : /\ g[0] = 0 /\ \A n \in 1..N : g[n] = g[n - 1] + xs[n]
                                 /\ Total(xs) = g[N]
  BY <1>3, <1>4, RunningSums
<1>7. Posted(s, kind) \in Int /\ \A k : Posted(base, k) = Posted(s, k)
  <2>1. s.cashflows \in Seq(Flow)
    BY DEF StateSet
  <2> DEFINE w == [f \in Flow |-> PartOf(f, kind)]
             zero == [at |-> 0, kind |-> kind, amount |-> 0]
  <2>2. w \in [Flow -> Int] /\ Posted(s, kind) = Weighed(w, s.cashflows)
    BY <2>1, PostedIsWeighed
  <2>3. zero \in Flow
    BY DEF Flow, FlowKinds
  <2> HIDE DEF w, zero
  <2>4. Weighed(w, s.cashflows) \in Int
    BY <2>1, <2>2, <2>3, WeighedOfAppend
  <2> QED
    BY <1>1, <2>2, <2>4 DEF Posted
<1> DEFINE Grown(n) == /\ Posted(booked[n], kind) = Posted(s, kind) + g[n]
                       /\ Elsewhere(booked[n], s, {kind})
           T == {n \in Nat : n <= N => Grown(n)}
<1>8. 0 \in T
  BY <1>5, <1>6, <1>7 DEF Elsewhere
<1>9. ASSUME NEW n \in Nat, n \in T PROVE n + 1 \in T
  <2>1. SUFFICES ASSUME n + 1 <= N PROVE Grown(n + 1)
    OBVIOUS
  <2>2. n + 1 \in 1..N /\ (n + 1) - 1 = n /\ n \in 0..N
    BY <1>2, <2>1
  <2> DEFINE q == booked[n]
             x == xs[n + 1]
             f == [at |-> q.next, kind |-> kind, amount |-> x]
  <2>3. q \in StateSet(L) /\ x \in Int /\ booked[n + 1] = Booked(q, kind, x)
        /\ g[n + 1] = g[n] + x /\ g[n] \in Int
    <3>1. q \in StateSet(L)
      BY <1>5, <2>2 DEF BooksOn
    <3>2. x \in Int /\ booked[n + 1] = Booked(q, kind, x)
      BY <1>4, <1>5, <2>2
    <3> QED
      BY <1>6, <2>2, <3>1, <3>2
  <2>4. Grown(n)
    BY <1>2, <1>9, <2>1
  <2>5. kind \in FlowKinds /\ f.kind = kind /\ f.amount = x
    BY DEF FlowKinds
  <2> HIDE DEF q, x, kind
  <2>6. Posts(booked[n + 1], q, f)
    BY <2>3, <2>5, BookedPosts
  <2> HIDE DEF f
  <2>7. Elsewhere(booked[n + 1], q, {kind})
    BY <2>5, <2>6, PostsElsewhere
  <2>8. PartOf(f, kind) = x
    BY <2>5 DEF PartOf
  <2>9. /\ {Posted(q, kind), Posted(booked[n + 1], kind), PartOf(f, kind)} \subseteq Int
        /\ Posted(booked[n + 1], kind) = Posted(q, kind) + PartOf(f, kind)
    BY <2>6 DEF Posts
  <2>10. Posted(booked[n + 1], kind) = Posted(s, kind) + g[n + 1]
    BY <1>7, <2>3, <2>4, <2>8, <2>9 DEF q
  <2>11. Elsewhere(booked[n + 1], s, {kind})
    BY <2>4, <2>7 DEF Elsewhere, q
  <2> QED
    BY <2>10, <2>11
<1> HIDE DEF T, Grown
<1>10. N \in T
  BY <1>2, <1>8, <1>9, Induction
<1>11. Grown(N)
  BY <1>2, <1>10 DEF T
<1>12. /\ Posted(r, kind) = Posted(s, kind) + SumFunction(flows) /\ SumFunction(flows) \in Int
       /\ Elsewhere(r, s, {kind})
  <2>1. g[N] \in Int
    BY <1>2, <1>6
  <2> QED
    BY <1>3, <1>5, <1>6, <1>11, <2>1 DEF Grown
<1> QED
  BY <1>7, <1>12 DEF r
-----------------------------------------------------------------------------
(* The inductive invariant.  Between snapshots, the state is a committed   *)
(* one, and so is that of every checkpoint.  In a snapshot, there is a     *)
(* committed state v that the savepoint was taken from, and what the steps *)
(* so far have appended and resolved can be undone.                        *)

RowsOf(s) == {s.ledger[i] : i \in DOMAIN s.ledger}
IsState(s) == s \in StateSet(RowsOf(s))

IsHistory(h) ==
  /\ h \in Seq(Market) /\ Len(h) <= Horizon
  /\ \A i \in 1..Len(h) : h[i] \in SnapshotsAt[i]

(* An order that is over, and one that the next snapshot will execute.     *)
IsOver(o) ==
  /\ o.status # "pending"
  /\ o.kind = "rebalance" => o.fillAt = o.decided + 1
  /\ o.kind = "liquidation" => o.status = "filled" /\ o.fillAt = Horizon

IsOpen(o, n) == o.status = "pending" /\ o.kind = "rebalance" /\ o.decided = n

OthersOver(s, j) == \A k \in 1..Len(s.orders) : k # j => IsOver(s.orders[k])

(* The order decided at n is open, and every other one is over.            *)
OrdersOf(s, n) ==
  /\ s.pending <= Len(s.orders)
  /\ OthersOver(s, s.pending)
  /\ s.pending # 0 => IsOpen(s.orders[s.pending], n)

IsCommitted(s, h) ==
  /\ IsState(s) /\ IsHistory(h)
  /\ s.next = Len(h) + 1 /\ Len(s.ledger) = Len(h)
  /\ OrdersOf(s, Len(h))

Early == {"validate", "carry", "capital", "fix", "pay", "execute"}
Late == {"liquidate", "mark", "decide"}

(* The order that was pending in v is resolved in s.                       *)
Executed(s, v) ==
  v.pending # 0 =>
    /\ s.orders[v.pending].status # "pending" /\ s.orders[v.pending].fillAt = v.next
    /\ s.orders[v.pending].want = v.orders[v.pending].want

FillsPending(s, v, b) == SameOrders(s, v) /\ v.pending # 0 /\ b.order = v.pending

FillsLiquidation(s, v, b) ==
  /\ s.pending = 0 /\ Executed(s, v) /\ s.next = Horizon /\ Liquidates
  /\ b.order = Len(s.orders) /\ Len(v.orders) < Len(s.orders)
  /\ s.orders[b.order].kind = "liquidation" /\ s.orders[b.order].status = "pending"
  /\ s.orders[b.order].want = [id \in Instruments |-> 0]
  /\ OthersOver(s, b.order)

(* The orders in each phase.                                               *)
OrdersIn(ph, s, v, b) ==
  /\ ph \in Early => SameOrders(s, v)
  /\ ph = "fill" => /\ FillsPending(s, v, b) \/ FillsLiquidation(s, v, b)
                    /\ b.want = s.orders[b.order].want
  /\ ph \in Late => s.pending = 0 /\ Executed(s, v) /\ OthersOver(s, 0)
  /\ ph = "commit" => /\ Executed(s, v) /\ OrdersOf(s, s.next)
                      /\ s.pending # 0 => s.pending > Len(v.orders)

IsBasket(b) == b \in [order : Nat, rows : SUBSET Instruments, want : [Instruments -> Int]]

Before(h) == SubSeq(h, 1, Len(h) - 1)

InSnapshot(v, ph, s, b, h) ==
  /\ IsCommitted(v, Before(h)) /\ IsHistory(h) /\ Len(h) = v.next
  /\ IsState(s) /\ s.next = v.next /\ v.flowIds \subseteq s.flowIds
  /\ Continues(s, v)
  /\ Len(s.ledger) = Len(v.ledger) + (IF ph \in {"decide", "commit"} THEN 1 ELSE 0)
  /\ IsBasket(b) /\ OrdersIn(ph, s, v, b)
  /\ ph # "fill" => b = NoBasket

ReplayInv ==
  /\ phase \in Phases /\ limit \in 1..Horizon /\ runs \in 1..MaxRuns
  /\ status \in {"running", "stopped", "failed"}
  /\ \A cp \in checkpoints : IsCommitted(cp.state, cp.prefix)
  /\ phase = "idle" => IsCommitted(st, history) /\ basket = NoBasket
  /\ phase # "idle" => /\ saved = Savepoint(Visible)
                       /\ InSnapshot(Visible, phase, st, basket, history)
-----------------------------------------------------------------------------
(* What keeps the invariant within a snapshot.                             *)

(* A step that only appends: to the tables, and to the capital IDs.        *)
Appends(r, s) ==
  /\ IsState(r) /\ r.next = s.next /\ s.flowIds \subseteq r.flowIds /\ r.ledger = s.ledger
  /\ Longer(r.fills, s.fills) /\ Longer(r.cashflows, s.cashflows)
  /\ Longer(r.settlements, s.settlements)

LEMMA HorizonType == Horizon \in Nat /\ Horizon > 0 /\ \A i \in 1..Horizon : At[i] \in Nat
  BY ScheduleAssumption DEF Horizon

LEMMA TableTypes ==
  ASSUME NEW s, IsState(s)
  PROVE  /\ s.ledger \in Seq(RowsOf(s)) /\ s.orders \in Seq(Order) /\ s.fills \in Seq(Fill)
         /\ s.cashflows \in Seq(Flow) /\ s.settlements \in Seq(Settlement)
         /\ {Len(s.ledger), Len(s.orders), Len(s.fills), Len(s.cashflows), Len(s.settlements)}
              \subseteq Nat
         /\ s.next \in Nat /\ s.pending \in Nat /\ s.cash \in Int
<1>1. /\ s.ledger \in Seq(RowsOf(s)) /\ s.orders \in Seq(Order) /\ s.fills \in Seq(Fill)
      /\ s.cashflows \in Seq(Flow) /\ s.settlements \in Seq(Settlement)
      /\ s.next \in Nat /\ s.pending \in Nat /\ s.cash \in Int
  BY DEF IsState, StateSet
<1> QED
  BY <1>1

LEMMA SameLedger ==
  ASSUME NEW s, NEW r \in StateSet(RowsOf(s)), r.ledger = s.ledger
  PROVE  IsState(r)
<1>1. RowsOf(r) = RowsOf(s)
  BY DEF RowsOf
<1> QED
  BY <1>1 DEF IsState

LEMMA LongerOfAppend ==
  ASSUME NEW S, NEW a \in Seq(S), NEW x \in S
  PROVE  Longer(Append(a, x), a) /\ Longer(a, a)
  BY Appended DEF Longer

LEMMA BookingAppends ==
  ASSUME NEW s, NEW r \in StateSet(RowsOf(s)), IsState(s), OnlyBooked(r, s),
         r.next = s.next, s.flowIds \subseteq r.flowIds, r.ledger = s.ledger
  PROVE  Appends(r, s) /\ SameOrders(r, s)
<1>1. IsState(r)
  BY SameLedger
<1>2. Longer(r.cashflows, s.cashflows)
  BY DEF OnlyBooked, GrowsCash, Longer
<1>3. Longer(r.fills, s.fills) /\ Longer(r.settlements, s.settlements)
  BY TableTypes DEF OnlyBooked, SameClaims, Longer
<1> QED
  BY <1>1, <1>2, <1>3 DEF Appends, OnlyBooked

(* What was appended before is still there.                                *)
LEMMA ContinuesOn ==
  ASSUME NEW v, NEW s, NEW r, IsState(v), IsState(s), Continues(s, v), Appends(r, s),
         SameOrders(r, s)
  PROVE  Continues(r, v)
<1>1. IsState(r)
  BY DEF Appends
<1>2. Longer(r.fills, v.fills)
  BY <1>1, TableTypes, SMTT(30) DEF Appends, Continues, Longer
<1>3. Longer(r.cashflows, v.cashflows)
  BY <1>1, TableTypes, SMTT(30) DEF Appends, Continues, Longer
<1>4. Longer(r.settlements, v.settlements)
  BY <1>1, TableTypes, SMTT(30) DEF Appends, Continues, Longer
<1> QED
  BY <1>2, <1>3, <1>4 DEF Appends, Continues, SameOrders

LEMMA StaysInSnapshot ==
  ASSUME NEW v, NEW ph, NEW ph2, NEW s, NEW r, NEW b, NEW b2, NEW h,
         InSnapshot(v, ph, s, b, h), Appends(r, s), SameOrders(r, s),
         ph \in {"decide", "commit"} <=> ph2 \in {"decide", "commit"},
         IsBasket(b2), OrdersIn(ph2, r, v, b2), ph2 # "fill" => b2 = NoBasket
  PROVE  InSnapshot(v, ph2, r, b2, h)
<1>1. Continues(r, v)
  BY ContinuesOn DEF InSnapshot, IsCommitted
<1>2. v.flowIds \subseteq r.flowIds /\ IsState(r) /\ r.next = v.next
  BY DEF InSnapshot, Appends
<1>3. Len(r.ledger) = Len(v.ledger) + (IF ph2 \in {"decide", "commit"} THEN 1 ELSE 0)
  BY DEF InSnapshot, Appends
<1> QED
  BY <1>1, <1>2, <1>3 DEF InSnapshot

(* From one of the first steps to the next one.                            *)
LEMMA StaysEarly ==
  ASSUME NEW v, NEW ph \in Early, NEW ph2 \in Early, NEW s, NEW r, NEW b, NEW h,
         InSnapshot(v, ph, s, b, h), Appends(r, s), SameOrders(r, s)
  PROVE  InSnapshot(v, ph2, r, b, h)
<1>1. OrdersIn(ph2, r, v, b)
  BY DEF InSnapshot, OrdersIn, SameOrders, Early, Late
<1>2. IsBasket(b) /\ b = NoBasket
  BY DEF InSnapshot, Early
<1>3. ph \notin {"decide", "commit"} /\ ph2 \notin {"decide", "commit"}
  BY DEF Early
<1> QED
  BY <1>1, <1>2, <1>3, StaysInSnapshot

LEMMA NothingAppends ==
  ASSUME NEW s, IsState(s)
  PROVE  Appends(s, s) /\ SameOrders(s, s)
  BY TableTypes DEF Appends, SameOrders, Longer

LEMMA NothingBooks ==
  ASSUME NEW s, IsState(s)
  PROVE  OnlyBooked(s, s)
<1>1. CashSum(s) \in Int /\ s.cash \in Int /\ Len(s.cashflows) \in Nat
  BY TableTypes, CashSumType
<1> QED
  BY <1>1 DEF OnlyBooked, GrowsCash, SameHoldings, SameClaims, SameOrders

(* In a snapshot, the state can be rolled back to where it began.          *)
LEMMA CanRollBack ==
  ASSUME NEW v, NEW ph, NEW s, NEW b, NEW h, InSnapshot(v, ph, s, b, h)
  PROVE  Rollback(s, Savepoint(v)) = v
<1>1. /\ v \in StateSet(RowsOf(v)) /\ s \in StateSet(RowsOf(s)) /\ Continues(s, v)
      /\ v.pending <= Len(v.orders)
  BY DEF InSnapshot, IsCommitted, IsState, OrdersOf
<1> QED
  BY <1>1, RollbackRestores

(* The steps inside a snapshot are invisible.                              *)
LEMMA StepInside ==
  ASSUME ReplayInv, phase # "idle", phase' \in Phases, phase' # "idle", Frame,
         InSnapshot(Visible, phase', st', basket', history)
  PROVE  ReplayInv' /\ Visible' = Visible
<1>1. saved = Savepoint(Visible)
  BY DEF ReplayInv
<1>2. Visible' = Rollback(st', saved')
  BY DEF Visible
<1>3. saved' = saved /\ history' = history /\ checkpoints' = checkpoints
      /\ limit' = limit /\ runs' = runs /\ status' = status
  BY DEF Frame
<1>4. Rollback(st', Savepoint(Visible)) = Visible
  BY CanRollBack
<1>5. Visible' = Visible
  BY <1>1, <1>2, <1>3, <1>4
<1> QED
  BY <1>1, <1>3, <1>5 DEF ReplayInv
-----------------------------------------------------------------------------
(* The steps of process_snapshot.                                          *)

(* Where a snapshot's market data is.                                      *)
LEMMA TodaysMarket ==
  ASSUME NEW v, NEW ph, NEW s, NEW b, NEW h, InSnapshot(v, ph, s, b, h)
  PROVE  /\ s.next \in 1..Horizon /\ s.next = Len(h) /\ h[s.next] \in SnapshotsAt[s.next]
         /\ \A i \in 1..s.next : h[i] \in Market /\ At[i] \in Int
         /\ IsState(s) /\ IsState(v)
<1>1. /\ IsHistory(h) /\ Len(h) = v.next /\ s.next = v.next /\ v.next = Len(Before(h)) + 1
      /\ IsState(s) /\ IsState(v) /\ IsHistory(Before(h))
  BY DEF InSnapshot, IsCommitted
<1>2. Len(Before(h)) \in Nat /\ Len(h) \in Nat
  BY <1>1 DEF IsHistory
<1>3. s.next \in 1..Horizon
  BY <1>1, <1>2, HorizonType DEF IsHistory
<1> QED
  BY <1>1, <1>2, <1>3, HorizonType DEF IsHistory

LEMMA CarryStep ==
  ASSUME ReplayInv, Carry
  PROVE  InSnapshot(Visible, phase', st', basket', history) /\ OnlyBooked(st', st)
<1> DEFINE days == Today - At[st.next - 1]
           r == Carried(st, history[st.next - 1], Now, days)
<1>1. InSnapshot(Visible, "carry", st, basket, history) /\ phase' = "capital" /\ basket' = basket
  BY DEF ReplayInv, Carry, Step
<1>2. st.next \in 1..Horizon /\ IsState(st)
  BY <1>1, TodaysMarket
<1>3. Appends(st', st) /\ SameOrders(st', st) /\ OnlyBooked(st', st)
  <2>1. CASE st.next = 1
    BY <1>2, <2>1, NothingAppends, NothingBooks DEF Carry
  <2>2. CASE st.next # 1
    <3>1. st.next - 1 \in 1..st.next /\ st.next \in 1..st.next
      BY <1>2, <2>2
    <3>2. history[st.next - 1] \in Market /\ Now \in Market /\ days \in Int
      BY <1>1, <3>1, TodaysMarket DEF Now, Today
    <3>3. st \in StateSet(RowsOf(st))
      BY <1>2 DEF IsState
    <3> HIDE DEF days
    <3>4. r \in StateSet(RowsOf(st)) /\ OnlyBooked(r, st) /\ SameRun(r, st)
      BY <3>2, <3>3, CarriedOnlyBooks
    <3> HIDE DEF r
    <3>5. Appends(r, st) /\ SameOrders(r, st)
      BY <1>2, <3>4, BookingAppends DEF SameRun
    <3>6. st' = r
      BY <2>2 DEF Carry, r, days
    <3> QED
      BY <3>4, <3>5, <3>6
  <2> QED
    BY <2>1, <2>2
<1>4. "carry" \in Early /\ "capital" \in Early
  BY DEF Early
<1> QED
  BY <1>1, <1>3, <1>4, StaysEarly

LEMMA CapitalStep ==
  ASSUME ReplayInv, Capital
  PROVE  InSnapshot(Visible, phase', st', basket', history) /\ OnlyBooked(st', st)
<1>1. InSnapshot(Visible, "capital", st, basket, history) /\ phase' = "fix" /\ basket' = basket
      /\ st' = CapitalBooked(st, Now.flows)
  BY DEF ReplayInv, Capital, Step
<1>2. st.next \in 1..Horizon /\ IsState(st) /\ Now \in SnapshotsAt[st.next]
  BY <1>1, TodaysMarket DEF Now
<1>3. IsFiniteSet(DOMAIN Now.flows) /\ Now.flows \in [DOMAIN Now.flows -> Int]
  BY <1>2, MarketAssumption
<1>4. DOMAIN Now.flows \subseteq FlowIds
  BY <1>2 DEF FlowIds
<1>5. /\ st' \in StateSet(RowsOf(st)) /\ OnlyBooked(st', st) /\ st'.next = st.next
      /\ st'.ledger = st.ledger /\ st'.flowIds = st.flowIds \union DOMAIN Now.flows
  BY <1>1, <1>2, <1>3, <1>4, CapitalOnlyBooks DEF IsState
<1>6. Appends(st', st) /\ SameOrders(st', st)
  BY <1>2, <1>5, BookingAppends
<1>7. "capital" \in Early /\ "fix" \in Early
  BY DEF Early
<1> QED
  BY <1>1, <1>5, <1>6, <1>7, StaysEarly

LEMMA FixStep ==
  ASSUME ReplayInv, NEW g \in HoldingGroups, NEW c \in Contracts, FixHolding(g, c)
  PROVE  /\ InSnapshot(Visible, phase', st', basket', history)
         /\ \E amount \in Int, keep \in BOOLEAN :
              /\ IsFixed(st', st, <<g, c>>, amount, keep)
              /\ keep <=> (amount # 0 \/ PaymentDay[c] = Today)
<1> DEFINE slot == <<g, c>>
           amount == Held(st, slot) * Payoff(c, Now)
           keep == amount # 0 \/ PaymentDay[c] = Today
<1>1. InSnapshot(Visible, "fix", st, basket, history) /\ phase' = "fix" /\ basket' = basket
      /\ st' = Fixed(st, slot, amount, keep)
  BY DEF ReplayInv, FixHolding, Step
<1>2. st.next \in 1..Horizon /\ IsState(st) /\ Now \in Market
  BY <1>1, TodaysMarket DEF Now
<1>3. slot \in HoldingGroups \X Contracts /\ keep \in BOOLEAN
  OBVIOUS
<1>4. amount \in Int
  <2>1. Held(st, slot) \in Int
    BY <1>2 DEF Held, IsState, StateSet
  <2>2. Payoff(c, Now) \in Int
    BY <1>2, MarketAssumption, ContractAssumption DEF Payoff, Market, Instruments
  <2> QED
    BY <2>1, <2>2
<1>8. keep <=> (amount # 0 \/ PaymentDay[c] = Today)
  OBVIOUS
<1> HIDE DEF slot, amount, keep
<1>5. /\ st' \in StateSet(RowsOf(st)) /\ SameCash(st', st) /\ SameOrders(st', st)
      /\ SameRun(st', st) /\ st'.fills = st.fills
      /\ \E k \in BOOLEAN : k = keep /\ IsFixed(st', st, slot, amount, k)
      /\ \E row : row \in Settlement /\ st'.settlements = Append(st.settlements, row)
  <2>1. st \in StateSet(RowsOf(st))
    BY <1>2 DEF IsState
  <2>2. PICK k \in BOOLEAN : k = keep
    BY <1>3
  <2> DEFINE r == Fixed(st, slot, amount, k)
  <2>3. r \in StateSet(RowsOf(st)) /\ IsFixed(r, st, slot, amount, k)
    BY <1>3, <1>4, <2>1, FixedIs
  <2>4. st' = r
    BY <1>1, <2>2
  <2> HIDE DEF r
  <2> QED
    BY <2>2, <2>3, <2>4 DEF IsFixed
<1>6. Appends(st', st)
  <2>1. PICK row \in Settlement : st'.settlements = Append(st.settlements, row)
    BY <1>5
  <2>2. st.settlements \in Seq(Settlement)
    BY <1>2, TableTypes
  <2>3. Longer(st'.settlements, st.settlements)
    BY <2>1, <2>2, LongerOfAppend
  <2>4. Longer(st'.fills, st.fills) /\ Longer(st'.cashflows, st.cashflows)
    BY <1>2, <1>5, TableTypes DEF Longer, SameCash
  <2> QED
    BY <1>2, <1>5, <2>3, <2>4, SameLedger DEF Appends, SameRun
<1>7. "fix" \in Early
  BY DEF Early
<1>9. InSnapshot(Visible, phase', st', basket', history)
  BY <1>1, <1>5, <1>6, <1>7, StaysEarly
<1>10. PICK k \in BOOLEAN : k = keep /\ IsFixed(st', st, slot, amount, k)
  BY <1>5
<1>11. slot = <<g, c>>
  BY DEF slot
<1> QED
  BY <1>4, <1>8, <1>9, <1>10, <1>11

(* A claim is paid: its amount is booked, and it is not outstanding.       *)
IsPaid(r, s, claim) ==
  /\ GrowsCash(r, s) /\ SameHoldings(r, s) /\ SameOrders(r, s) /\ SameRun(r, s)
  /\ r.fills = s.fills
  /\ \E row \in Settlement : /\ r.settlements = Append(s.settlements, row)
                            /\ row.at = s.next /\ row.slot = claim.slot
                            /\ row.event = "paid" /\ row.amount = claim.amount
  /\ r.receivables = s.receivables \ {claim}

LEMMA PayStep ==
  ASSUME ReplayInv, NEW claim \in st.receivables, PayDueClaim(claim)
  PROVE  InSnapshot(Visible, phase', st', basket', history) /\ IsPaid(st', st, claim)
<1>1. InSnapshot(Visible, "pay", st, basket, history) /\ phase' = "pay" /\ basket' = basket
      /\ st' = Paid(st, claim)
  BY DEF ReplayInv, PayDueClaim, Step
<1>2. IsState(st)
  BY <1>1, TodaysMarket
<1>3. claim \in Claim
  BY <1>2 DEF IsState, StateSet
<1>9. st' \in StateSet(RowsOf(st)) /\ IsPaid(st', st, claim)
  <2>1. st \in StateSet(RowsOf(st))
    BY <1>2 DEF IsState
  <2> DEFINE r == Paid(st, claim)
  <2>2. /\ r \in StateSet(RowsOf(st)) /\ GrowsCash(r, st) /\ SameHoldings(r, st)
        /\ SameOrders(r, st) /\ SameRun(r, st) /\ r.fills = st.fills
        /\ \E row \in Settlement : /\ r.settlements = Append(st.settlements, row)
                                  /\ row.at = st.next /\ row.slot = claim.slot
                                  /\ row.event = "paid" /\ row.amount = claim.amount
        /\ r.receivables = st.receivables \ {claim}
    BY <1>3, <2>1, PaidIs
  <2>3. st' = r
    BY <1>1
  <2> HIDE DEF r
  <2> QED
    BY <2>2, <2>3 DEF IsPaid
<1>4. /\ st' \in StateSet(RowsOf(st)) /\ GrowsCash(st', st) /\ SameOrders(st', st)
      /\ SameRun(st', st) /\ st'.fills = st.fills
      /\ \E row : row \in Settlement /\ st'.settlements = Append(st.settlements, row)
  BY <1>9 DEF IsPaid
<1>5. Longer(st'.cashflows, st.cashflows)
  BY <1>4 DEF GrowsCash, Longer
<1>6. Longer(st'.settlements, st.settlements) /\ Longer(st'.fills, st.fills)
  <2>1. PICK row \in Settlement : st'.settlements = Append(st.settlements, row)
    BY <1>4
  <2>2. st.settlements \in Seq(Settlement)
    BY <1>2, TableTypes
  <2>3. Longer(st'.settlements, st.settlements)
    BY <2>1, <2>2, LongerOfAppend
  <2> QED
    BY <1>2, <1>4, <2>3, TableTypes DEF Longer
<1>7. Appends(st', st)
  BY <1>2, <1>4, <1>5, <1>6, SameLedger DEF Appends, SameRun
<1>8. "pay" \in Early
  BY DEF Early
<1> QED
  BY <1>1, <1>4, <1>7, <1>8, <1>9, StaysEarly

(* Steps that only move on.                                                *)
LEMMA MovesOn ==
  ASSUME ReplayInv, Validate \/ FixingDone \/ PaymentsDone
  PROVE  InSnapshot(Visible, phase', st', basket', history)
<1>1. /\ InSnapshot(Visible, phase, st, basket, history) /\ st' = st /\ basket' = basket
      /\ phase \in Early /\ phase' \in Early
  BY DEF ReplayInv, Validate, FixingDone, PaymentsDone, Step, Early
<1>2. Appends(st', st) /\ SameOrders(st', st)
  BY <1>1, TodaysMarket, NothingAppends
<1> QED
  BY <1>1, <1>2, StaysEarly

(* A step that only resolves or adds orders.                               *)
SameButOrders(r, s) ==
  /\ IsState(r) /\ SameRun(r, s) /\ SameClaims(r, s) /\ SameCash(r, s) /\ SameHoldings(r, s)
  /\ r.fills = s.fills

LEMMA OrdersMove ==
  ASSUME NEW v, NEW ph, NEW ph2, NEW s, NEW r, NEW b, NEW b2, NEW h,
         InSnapshot(v, ph, s, b, h), SameButOrders(r, s), Len(s.orders) <= Len(r.orders),
         \A k \in 1..Len(v.orders) : k # v.pending => r.orders[k] = s.orders[k],
         ph \in {"decide", "commit"} <=> ph2 \in {"decide", "commit"},
         IsBasket(b2), OrdersIn(ph2, r, v, b2), ph2 # "fill" => b2 = NoBasket
  PROVE  InSnapshot(v, ph2, r, b2, h)
<1>1. IsState(v) /\ IsState(s) /\ IsState(r) /\ Continues(s, v)
  BY DEF InSnapshot, IsCommitted, SameButOrders
<1>2. Len(v.orders) <= Len(r.orders)
  BY <1>1, TableTypes DEF Continues
<1>3. Continues(r, v)
  BY <1>1, <1>2 DEF Continues, SameButOrders, SameRun, SameClaims, SameCash
<1>4. v.flowIds \subseteq r.flowIds /\ r.next = v.next
  BY DEF InSnapshot, SameButOrders, SameRun
<1>5. Len(r.ledger) = Len(v.ledger) + (IF ph2 \in {"decide", "commit"} THEN 1 ELSE 0)
  BY DEF InSnapshot, SameButOrders, SameRun
<1> QED
  BY <1>1, <1>3, <1>4, <1>5 DEF InSnapshot

LEMMA NothingMoves ==
  ASSUME NEW s, IsState(s)
  PROVE  SameButOrders(s, s) /\ Len(s.orders) <= Len(s.orders)
  BY TableTypes DEF SameButOrders, SameRun, SameClaims, SameCash, SameHoldings

(* Resolving an order, and perhaps no longer waiting for it.               *)
LEMMA Resolving ==
  ASSUME NEW s, IsState(s), s.next \in 1..Horizon, NEW k \in 1..Len(s.orders),
         NEW outcome \in Outcomes, NEW r, NEW n \in Nat,
         r = [Resolved(s, k, outcome) EXCEPT !.pending = n]
  PROVE  SameButOrders(r, s) /\ r.pending = n /\ ResolvedOrder(r, s, k, outcome)
<1> DEFINE q == Resolved(s, k, outcome)
<1>1. s \in StateSet(RowsOf(s))
  BY DEF IsState
<1>2. q \in StateSet(RowsOf(s)) /\ IsResolved(q, s, k, outcome)
  BY <1>1, ResolvedIs
<1>3. r = [q EXCEPT !.pending = n]
  OBVIOUS
<1> HIDE DEF q
<1>4. /\ r \in StateSet(RowsOf(s)) /\ SameHoldings(r, q) /\ SameClaims(r, q) /\ SameCash(r, q)
      /\ SameRun(r, q) /\ r.fills = q.fills /\ r.orders = q.orders /\ r.pending = n
  BY <1>2, <1>3 DEF StateSet, SameHoldings, SameClaims, SameCash, SameRun
<1>5. SameHoldings(r, s) /\ SameClaims(r, s) /\ SameCash(r, s) /\ SameRun(r, s) /\ r.fills = s.fills
  BY <1>2, <1>4 DEF IsResolved, SameHoldings, SameClaims, SameCash, SameRun
<1>6. IsState(r)
  BY <1>4, <1>5, SameLedger DEF SameRun
<1>7. SameButOrders(r, s)
  BY <1>5, <1>6 DEF SameButOrders
<1>8. ResolvedOrder(r, s, k, outcome)
  BY <1>2, <1>4 DEF IsResolved, ResolvedOrder
<1> QED
  BY <1>4, <1>7, <1>8

LEMMA NoBasketType == IsBasket(NoBasket)
  BY DEF IsBasket, NoBasket

LEMMA NoOrderStep ==
  ASSUME ReplayInv, NoPendingOrder
  PROVE  InSnapshot(Visible, phase', st', basket', history)
<1> DEFINE v == Visible
<1>1. /\ InSnapshot(v, "execute", st, basket, history) /\ st' = st /\ basket' = basket
      /\ phase' = "liquidate" /\ st.pending = 0
  BY DEF ReplayInv, NoPendingOrder, Step
<1> HIDE DEF v
<1>2. SameOrders(st, v) /\ OrdersOf(v, Len(Before(history))) /\ basket = NoBasket
  BY <1>1 DEF InSnapshot, IsCommitted, OrdersIn, Early
<1>3. OrdersIn("liquidate", st, v, basket)
  BY <1>1, <1>2 DEF OrdersIn, OrdersOf, SameOrders, Executed, OthersOver, Early, Late
<1>4. Appends(st, st) /\ SameOrders(st, st)
  BY <1>1, TodaysMarket, NothingAppends
<1> QED
  BY <1>1, <1>2, <1>3, <1>4, NoBasketType, StaysInSnapshot DEF v

(* The pending order of a snapshot is the one that the last one decided.   *)
LEMMA PendingOrder ==
  ASSUME NEW v, NEW ph, NEW s, NEW b, NEW h, InSnapshot(v, ph, s, b, h), SameOrders(s, v),
         s.pending # 0
  PROVE  /\ s.pending \in 1..Len(s.orders) /\ OthersOver(s, s.pending)
         /\ s.orders[s.pending] = v.orders[v.pending] /\ v.pending = s.pending
         /\ s.orders[s.pending].kind = "rebalance" /\ s.orders[s.pending].status = "pending"
         /\ s.orders[s.pending].decided + 1 = s.next
<1>1. /\ OrdersOf(v, Len(Before(h))) /\ v.next = Len(Before(h)) + 1 /\ s.next = v.next
      /\ IsState(s)
  BY DEF InSnapshot, IsCommitted
<1>2. s.pending \in Nat /\ Len(s.orders) \in Nat
  BY <1>1, TableTypes
<1> QED
  BY <1>1, <1>2 DEF SameOrders, OrdersOf, OthersOver, IsOpen

LEMMA RejectStep ==
  ASSUME ReplayInv, RejectPending
  PROVE  /\ InSnapshot(Visible, phase', st', basket', history)
         /\ SameButOrders(st', st) /\ st'.pending = 0
         /\ \E outcome \in {"rejected_cash_limit", "rejected_gross_limit"} :
              ResolvedOrder(st', st, st.pending, outcome)
<1> DEFINE v == Visible
           k == st.pending
<1>1. /\ InSnapshot(v, "execute", st, basket, history) /\ basket' = basket
      /\ phase' = "liquidate" /\ k # 0
      /\ \E outcome \in {"rejected_cash_limit", "rejected_gross_limit"} :
           st' = [Resolved(st, k, outcome) EXCEPT !.pending = 0]
  BY DEF ReplayInv, RejectPending, Step
<1> HIDE DEF v
<1>2. SameOrders(st, v) /\ basket = NoBasket /\ v.next = st.next
  BY <1>1 DEF InSnapshot, OrdersIn, Early
<1>3. PICK outcome \in {"rejected_cash_limit", "rejected_gross_limit"} :
        st' = [Resolved(st, k, outcome) EXCEPT !.pending = 0]
  BY <1>1
<1>4. /\ k \in 1..Len(st.orders) /\ OthersOver(st, k) /\ v.pending = k
      /\ st.orders[k] = v.orders[k] /\ st.orders[k].kind = "rebalance"
      /\ st.orders[k].decided + 1 = st.next
  BY <1>1, <1>2, PendingOrder
<1>5. IsState(st) /\ st.next \in 1..Horizon
  BY <1>1, TodaysMarket
<1>6. outcome \in Outcomes /\ outcome # "pending" /\ 0 \in Nat
  BY DEF Outcomes
<1> HIDE DEF k
<1>7. SameButOrders(st', st) /\ st'.pending = 0 /\ ResolvedOrder(st', st, k, outcome)
  BY <1>3, <1>4, <1>5, <1>6, Resolving
<1>8. OthersOver(st', 0)
  BY <1>4, <1>6, <1>7 DEF OthersOver, IsOver, ResolvedOrder
<1>9. Executed(st', v)
  BY <1>2, <1>4, <1>6, <1>7 DEF Executed, ResolvedOrder
<1>10. OrdersIn("liquidate", st', v, basket)
  BY <1>7, <1>8, <1>9 DEF OrdersIn, Early
<1>11. Len(v.orders) = Len(st.orders) /\ Len(st.orders) \in Nat
  BY <1>2, <1>5, TableTypes DEF SameOrders
<1>12. Len(st.orders) <= Len(st'.orders)
       /\ \A j \in 1..Len(v.orders) : j # v.pending => st'.orders[j] = st.orders[j]
  BY <1>4, <1>7, <1>11 DEF ResolvedOrder
<1>13. InSnapshot(v, "liquidate", st', basket, history)
  BY <1>1, <1>2, <1>7, <1>10, <1>12, NoBasketType, OrdersMove
<1>14. ResolvedOrder(st', st, st.pending, outcome)
  BY <1>7 DEF k
<1> QED
  BY <1>1, <1>7, <1>13, <1>14 DEF v

LEMMA AcceptStep ==
  ASSUME ReplayInv, AcceptPending
  PROVE  InSnapshot(Visible, phase', st', basket', history)
<1> DEFINE v == Visible
           k == st.pending
<1>1. /\ InSnapshot(v, "execute", st, basket, history) /\ st' = st /\ phase' = "fill" /\ k # 0
      /\ basket' = [order |-> k, rows |-> Rows(st, Wanted(k)), want |-> Wanted(k)]
  BY DEF ReplayInv, AcceptPending, Step
<1> HIDE DEF v
<1>2. SameOrders(st, v) /\ IsState(st)
  BY <1>1 DEF InSnapshot, OrdersIn, Early
<1>3. k \in 1..Len(st.orders) /\ v.pending = k
  BY <1>1, <1>2, PendingOrder
<1>4. Wanted(k) \in [Instruments -> Int] /\ Wanted(k) = st.orders[k].want
  <2>1. st.orders[k] \in Order
    BY <1>2, <1>3, TableTypes
  <2> QED
    BY <2>1 DEF Order, Wanted
<1>5. /\ basket'.order = k /\ basket'.rows \subseteq Instruments /\ basket'.want = st.orders[k].want
      /\ IsBasket(basket')
  BY <1>1, <1>3, <1>4 DEF IsBasket, Rows
<1>6. OrdersIn("fill", st, v, basket')
  BY <1>1, <1>2, <1>3, <1>5 DEF OrdersIn, FillsPending, Early, Late
<1>7. Appends(st, st) /\ SameOrders(st, st)
  BY <1>2, NothingAppends
<1>8. InSnapshot(v, "fill", st, basket', history)
  BY <1>1, <1>5, <1>6, <1>7, StaysInSnapshot
<1> QED
  BY <1>1, <1>8 DEF v

LEMMA NoLiquidationStep ==
  ASSUME ReplayInv, NoLiquidation
  PROVE  InSnapshot(Visible, phase', st', basket', history)
<1> DEFINE v == Visible
<1>1. /\ InSnapshot(v, "liquidate", st, basket, history) /\ st' = st /\ basket' = basket
      /\ phase' = "mark"
  BY DEF ReplayInv, NoLiquidation, Step
<1> HIDE DEF v
<1>2. OrdersIn("mark", st, v, basket) /\ basket = NoBasket
  BY <1>1 DEF InSnapshot, OrdersIn, Early, Late
<1>3. Appends(st, st) /\ SameOrders(st, st)
  BY <1>1, TodaysMarket, NothingAppends
<1>4. InSnapshot(v, "mark", st, basket, history)
  BY <1>1, <1>2, <1>3, NoBasketType, StaysInSnapshot
<1> QED
  BY <1>1, <1>4 DEF v

(* Adding an order, and perhaps waiting for it.                            *)
AddedOrder(r, s, o) ==
  /\ Len(r.orders) = Len(s.orders) + 1 /\ r.orders[Len(s.orders) + 1] = o
  /\ \A j \in 1..Len(s.orders) : r.orders[j] = s.orders[j]

WithOrder(s, o, n) == [s EXCEPT !.orders = Append(s.orders, o), !.pending = n]

LEMMA Ordering ==
  ASSUME NEW s, IsState(s), NEW o, o \in Order, NEW n \in Nat, NEW r, r = WithOrder(s, o, n)
  PROVE  SameButOrders(r, s) /\ r.pending = n /\ AddedOrder(r, s, o)
<1> DEFINE orders == Append(s.orders, o)
<1>1. s \in StateSet(RowsOf(s)) /\ s.orders \in Seq(Order)
  BY DEF IsState, StateSet
<1>2. /\ orders \in Seq(Order) /\ Len(orders) = Len(s.orders) + 1
      /\ \A j \in 1..Len(s.orders) : orders[j] = s.orders[j]
      /\ orders[Len(s.orders) + 1] = o
  BY <1>1, Appended
<1> HIDE DEF orders
<1>3. r = [s EXCEPT !.orders = orders, !.pending = n]
  BY DEF orders, WithOrder
<1>4. /\ r \in StateSet(RowsOf(s)) /\ SameHoldings(r, s) /\ SameClaims(r, s) /\ SameCash(r, s)
      /\ SameRun(r, s) /\ r.fills = s.fills /\ r.orders = orders /\ r.pending = n
  BY <1>1, <1>2, <1>3 DEF StateSet, SameHoldings, SameClaims, SameCash, SameRun
<1>5. IsState(r)
  BY <1>4, SameLedger DEF SameRun
<1> QED
  BY <1>2, <1>4, <1>5 DEF SameButOrders, AddedOrder

LEMMA LiquidationStep ==
  ASSUME ReplayInv, StartLiquidation
  PROVE  /\ InSnapshot(Visible, phase', st', basket', history)
         /\ SameButOrders(st', st) /\ st'.pending = 0
         /\ AddedOrder(st', st, LiquidationOrder)
<1> DEFINE v == Visible
           o == LiquidationOrder
           N == Len(st.orders)
<1>1. /\ InSnapshot(v, "liquidate", st, basket, history) /\ phase' = "fill" /\ Final /\ Liquidates
      /\ st' = [st EXCEPT !.orders = Append(@, o)]
      /\ basket' = [order |-> N + 1, want |-> o.want, rows |-> Rows(st, o.want)]
  BY DEF ReplayInv, StartLiquidation, Step
<1> HIDE DEF v
<1>2. st.pending = 0 /\ Executed(st, v) /\ OthersOver(st, 0) /\ Continues(st, v) /\ IsState(v)
  BY <1>1 DEF InSnapshot, IsCommitted, OrdersIn, Late
<1>3. IsState(st) /\ st.next \in 1..Horizon /\ st.next = Horizon /\ Len(v.orders) \in 0..N /\ N \in Nat
  BY <1>1, <1>2, TodaysMarket, TableTypes DEF Final, Continues
<1>4. /\ o \in Order /\ o.kind = "liquidation" /\ o.status = "pending"
      /\ o.want = [id \in Instruments |-> 0]
  BY <1>3 DEF LiquidationOrder, Order
<1> HIDE DEF o
<1>5. st' = WithOrder(st, o, 0)
  BY <1>1, <1>2, <1>3 DEF IsState, StateSet, WithOrder
<1>6. /\ SameButOrders(st', st) /\ st'.pending = 0 /\ Len(st'.orders) = N + 1
      /\ \A j \in 1..N : st'.orders[j] = st.orders[j]
      /\ st'.orders[N + 1] = o
  <2>1. 0 \in Nat
    OBVIOUS
  <2>2. SameButOrders(st', st) /\ st'.pending = 0 /\ AddedOrder(st', st, o)
    BY <1>3, <1>4, <1>5, <2>1, Ordering
  <2> QED
    BY <2>2 DEF AddedOrder
<1>7. basket'.order = N + 1 /\ basket'.want = o.want /\ IsBasket(basket')
  BY <1>1, <1>3, <1>4 DEF IsBasket, Rows
<1>8. \A j \in 1..Len(v.orders) : st'.orders[j] = st.orders[j]
  BY <1>3, <1>6
<1>9. Executed(st', v)
  <2>1. CASE v.pending = 0
    BY <2>1 DEF Executed
  <2>2. CASE v.pending # 0
    <3>1. v.pending \in 1..Len(v.orders)
      BY <1>1, <2>2, <1>2, TableTypes DEF InSnapshot, IsCommitted, OrdersOf
    <3> QED
      BY <1>2, <1>8, <2>2, <3>1 DEF Executed
  <2> QED
    BY <2>1, <2>2
<1>10. OthersOver(st', N + 1)
  BY <1>2, <1>3, <1>6 DEF OthersOver
<1>11. st'.next = Horizon
  BY <1>3, <1>6 DEF SameButOrders, SameRun
<1>12. FillsLiquidation(st', v, basket')
  BY <1>1, <1>3, <1>4, <1>6, <1>7, <1>9, <1>10, <1>11 DEF FillsLiquidation
<1>13. OrdersIn("fill", st', v, basket')
  BY <1>6, <1>7, <1>12 DEF OrdersIn, Early, Late
<1>14. /\ Len(st.orders) <= Len(st'.orders) /\ SameButOrders(st', st)
       /\ "liquidate" \in {"decide", "commit"} <=> "fill" \in {"decide", "commit"}
       /\ \A j \in 1..Len(v.orders) : j # v.pending => st'.orders[j] = st.orders[j]
  BY <1>3, <1>6, <1>8
<1>15. InSnapshot(v, "fill", st', basket', history)
  <2>1. InSnapshot(v, "liquidate", st, basket, history)
    BY <1>1
  <2>2. IsBasket(basket')
    BY <1>7
  <2> QED
    BY <2>1, <2>2, <1>13, <1>14, OrdersMove
<1>16. AddedOrder(st', st, LiquidationOrder)
  BY <1>6 DEF AddedOrder, o
<1> QED
  BY <1>1, <1>6, <1>15, <1>16 DEF v

LEMMA FillStep ==
  ASSUME ReplayInv, NEW id \in Instruments, FillRow(id)
  PROVE  /\ InSnapshot(Visible, phase', st', basket', history)
         /\ IsFilled(st', st, id, ChangeOf(st, basket.want, id))
<1> DEFINE v == Visible
           change == ChangeOf(st, basket.want, id)
<1>1. /\ InSnapshot(v, "fill", st, basket, history) /\ phase' = "fill"
      /\ st' = Filled(st, Now, id, change)
      /\ basket' = [basket EXCEPT !.rows = @ \ {id}]
  BY DEF ReplayInv, FillRow, Step
<1> HIDE DEF v
<1>2. IsState(st) /\ Now \in Market
  BY <1>1, TodaysMarket DEF Now
<1>3. OrdersIn("fill", st, v, basket)
  BY <1>1 DEF InSnapshot
<1>10. IsBasket(basket)
  BY <1>1 DEF InSnapshot
<1>4. basket'.order = basket.order /\ basket'.want = basket.want /\ IsBasket(basket')
  BY <1>1, <1>10 DEF IsBasket
<1>5. change \in Int
  <2>1. Held(st, HedgeSlot(id)) \in Int
    BY <1>2 DEF Held, HedgeSlot, IsState, StateSet, Instruments
  <2> QED
    BY <1>10, <2>1 DEF IsBasket, ChangeOf
<1> HIDE DEF change
<1>6. st' \in StateSet(RowsOf(st)) /\ IsFilled(st', st, id, change)
  BY <1>1, <1>2, <1>5, FilledIs DEF IsState
<1>7. Appends(st', st) /\ SameOrders(st', st)
  <2>1. Longer(st'.cashflows, st.cashflows)
    BY <1>6 DEF IsFilled, GrowsCash, Longer
  <2>2. PICK fill \in Fill : st'.fills = Append(st.fills, fill)
    BY <1>6 DEF IsFilled
  <2>3. Longer(st'.fills, st.fills)
    BY <1>2, <2>2, TableTypes, LongerOfAppend
  <2>4. Longer(st'.settlements, st.settlements)
    BY <1>2, <1>6, TableTypes DEF IsFilled, SameClaims, Longer
  <2>5. IsState(st')
    BY <1>6, SameLedger DEF IsFilled, SameRun
  <2> QED
    BY <1>6, <2>1, <2>3, <2>4, <2>5 DEF Appends, IsFilled, SameRun
<1>8. OrdersIn("fill", st', v, basket')
  <2>1. st'.next = st.next
    BY <1>7 DEF Appends
  <2>2. CASE FillsPending(st, v, basket)
    BY <1>3, <1>4, <1>7, <2>2 DEF OrdersIn, FillsPending, SameOrders, Early, Late
  <2>3. CASE FillsLiquidation(st, v, basket)
    BY <1>3, <1>4, <1>7, <2>1, <2>3
       DEF OrdersIn, FillsLiquidation, SameOrders, Executed, OthersOver, Early, Late
  <2> QED
    BY <1>3, <2>2, <2>3 DEF OrdersIn
<1>9. InSnapshot(v, "fill", st', basket', history)
  BY <1>1, <1>4, <1>7, <1>8, StaysInSnapshot
<1> QED
  BY <1>1, <1>6, <1>9 DEF v, change

(* Which order a filled basket was for.                                    *)
LEMMA BasketOrder ==
  ASSUME NEW v, NEW s, NEW b, NEW h, InSnapshot(v, "fill", s, b, h)
  PROVE  /\ b.order \in 1..Len(s.orders) /\ OthersOver(s, b.order)
         /\ s.orders[b.order].status = "pending"
         /\ s.orders[b.order].kind = "rebalance" => FillsPending(s, v, b)
         /\ s.orders[b.order].kind # "rebalance" => FillsLiquidation(s, v, b)
<1>1. FillsPending(s, v, b) \/ FillsLiquidation(s, v, b)
  BY DEF InSnapshot, OrdersIn
<1>2. Len(s.orders) \in Nat /\ Len(v.orders) \in Nat
  BY TodaysMarket, TableTypes
<1>3. CASE FillsPending(s, v, b)
  <2>1. SameOrders(s, v) /\ s.pending # 0 /\ b.order = s.pending
    BY <1>3 DEF FillsPending, SameOrders
  <2>2. /\ s.pending \in 1..Len(s.orders) /\ OthersOver(s, s.pending)
        /\ s.orders[s.pending].kind = "rebalance" /\ s.orders[s.pending].status = "pending"
    BY <2>1, PendingOrder
  <2> QED
    BY <1>3, <2>1, <2>2
<1>4. CASE FillsLiquidation(s, v, b)
  BY <1>2, <1>4 DEF FillsLiquidation
<1> QED
  BY <1>1, <1>3, <1>4

LEMMA BasketStep ==
  ASSUME ReplayInv, BasketFilled
  PROVE  /\ phase' \in {"liquidate", "mark"} /\ InSnapshot(Visible, phase', st', basket', history)
         /\ SameButOrders(st', st) /\ ResolvedOrder(st', st, basket.order, "filled")
<1> DEFINE v == Visible
           k == basket.order
<1>1. /\ InSnapshot(v, "fill", st, basket, history) /\ basket' = NoBasket
      /\ st.orders[k].kind = "rebalance" =>
           st' = [Resolved(st, k, "filled") EXCEPT !.pending = 0] /\ phase' = "liquidate"
      /\ st.orders[k].kind # "rebalance" => st' = Resolved(st, k, "filled") /\ phase' = "mark"
  BY DEF ReplayInv, BasketFilled
<1> HIDE DEF v
<1>2. /\ k \in 1..Len(st.orders) /\ OthersOver(st, k)
      /\ st.orders[k].kind = "rebalance" => FillsPending(st, v, basket)
      /\ st.orders[k].kind # "rebalance" => FillsLiquidation(st, v, basket)
  BY <1>1, BasketOrder
<1>3. IsState(st) /\ st.next \in 1..Horizon /\ IsState(v) /\ v.next = st.next /\ Continues(st, v)
      /\ v.pending <= Len(v.orders)
  BY <1>1, TodaysMarket DEF InSnapshot, IsCommitted, OrdersOf
<1>4. "filled" \in Outcomes /\ 0 \in Nat
  BY DEF Outcomes
<1>5. Len(v.orders) \in Nat /\ Len(st.orders) \in Nat /\ Len(v.orders) <= Len(st.orders) /\ v.pending \in Nat
  BY <1>3, TableTypes DEF Continues
<1> HIDE DEF k
<1>6. CASE st.orders[k].kind = "rebalance"
  <2>1. /\ FillsPending(st, v, basket) /\ phase' = "liquidate"
        /\ st' = [Resolved(st, k, "filled") EXCEPT !.pending = 0]
    BY <1>1, <1>2, <1>6
  <2>2. SameButOrders(st', st) /\ st'.pending = 0 /\ ResolvedOrder(st', st, k, "filled")
    BY <1>2, <1>3, <1>4, <2>1, Resolving
  <2>3. /\ SameOrders(st, v) /\ st.pending # 0 /\ k = v.pending
    BY <2>1 DEF FillsPending, SameOrders, k
  <2>4. st.orders[k] = v.orders[k] /\ st.orders[k].decided + 1 = st.next
    BY <1>1, <2>3, PendingOrder DEF SameOrders
  <2>5. OthersOver(st', 0)
    BY <1>2, <1>6, <2>2, <2>4 DEF OthersOver, IsOver, ResolvedOrder
  <2>6. Executed(st', v)
    BY <1>3, <2>2, <2>3, <2>4 DEF Executed, ResolvedOrder
  <2>7. OrdersIn("liquidate", st', v, NoBasket)
    BY <2>2, <2>5, <2>6 DEF OrdersIn, Early
  <2>8. /\ Len(st.orders) <= Len(st'.orders)
        /\ \A j \in 1..Len(v.orders) : j # v.pending => st'.orders[j] = st.orders[j]
    BY <1>5, <2>2, <2>3 DEF ResolvedOrder
  <2>9. InSnapshot(v, "liquidate", st', NoBasket, history)
    BY <1>1, <2>2, <2>7, <2>8, NoBasketType, OrdersMove
  <2> QED
    BY <1>1, <2>1, <2>2, <2>9 DEF v, k
<1>7. CASE st.orders[k].kind # "rebalance"
  <2>1. FillsLiquidation(st, v, basket) /\ phase' = "mark" /\ st' = Resolved(st, k, "filled")
    BY <1>1, <1>2, <1>7
  <2>2. /\ st.pending = 0 /\ Executed(st, v) /\ st.next = Horizon /\ k > Len(v.orders)
        /\ st.orders[k].kind = "liquidation"
    BY <1>5, <2>1 DEF FillsLiquidation, k
  <2>3. Resolved(st, k, "filled") \in StateSet(RowsOf(st)) /\ IsResolved(Resolved(st, k, "filled"), st, k, "filled")
    BY <1>2, <1>3, <1>4, ResolvedIs DEF IsState
  <2>4. SameButOrders(st', st) /\ st'.pending = 0 /\ ResolvedOrder(st', st, k, "filled")
    BY <2>1, <2>2, <2>3, SameLedger DEF IsResolved, SameButOrders, SameRun
  <2>5. OthersOver(st', 0)
    BY <1>2, <2>2, <2>4 DEF OthersOver, IsOver, ResolvedOrder
  <2>6. \A j \in 1..Len(v.orders) : st'.orders[j] = st.orders[j]
    BY <1>5, <2>2, <2>4 DEF ResolvedOrder
  <2>7. Executed(st', v)
    <3>1. CASE v.pending = 0
      BY <3>1 DEF Executed
    <3>2. CASE v.pending # 0
      <4>1. v.pending \in 1..Len(v.orders)
        BY <1>3, <1>5, <3>2
      <4> QED
        BY <2>2, <2>6, <3>2, <4>1 DEF Executed
    <3> QED
      BY <3>1, <3>2
  <2>8. OrdersIn("mark", st', v, NoBasket)
    BY <2>4, <2>5, <2>7 DEF OrdersIn, Early
  <2>9. Len(st.orders) <= Len(st'.orders)
    BY <1>5, <2>4 DEF ResolvedOrder
  <2>10. InSnapshot(v, "mark", st', NoBasket, history)
    BY <1>1, <2>4, <2>6, <2>8, <2>9, NoBasketType, OrdersMove
  <2> QED
    BY <1>1, <2>1, <2>4, <2>10 DEF v, k
<1> QED
  BY <1>6, <1>7

(* A ledger row more.                                                      *)
WithRow(s, row) == [s EXCEPT !.ledger = Append(s.ledger, row)]

IsMarked(r, s, row) ==
  /\ IsState(r) /\ SameOrders(r, s) /\ SameClaims(r, s) /\ SameCash(r, s) /\ SameHoldings(r, s)
  /\ r.fills = s.fills /\ r.next = s.next /\ r.flowIds = s.flowIds
  /\ r.ledger = Append(s.ledger, row) /\ Len(r.ledger) = Len(s.ledger) + 1
  /\ Longer(r.ledger, s.ledger) /\ r.ledger[Len(s.ledger) + 1] = row

LEMMA Marking ==
  ASSUME NEW s, IsState(s), NEW row, NEW r, r = WithRow(s, row)
  PROVE  IsMarked(r, s, row)
<1> DEFINE L == RowsOf(s) \union {row}
           ledger == Append(s.ledger, row)
<1>1. s \in StateSet(RowsOf(s)) /\ s.ledger \in Seq(RowsOf(s))
  BY DEF IsState, StateSet
<1>2. s.ledger \in Seq(L) /\ row \in L
  BY <1>1, SeqWidens
<1>3. /\ ledger \in Seq(L) /\ Len(ledger) = Len(s.ledger) + 1 /\ Len(s.ledger) \in Nat
      /\ \A i \in 1..Len(s.ledger) : ledger[i] = s.ledger[i]
      /\ ledger[Len(s.ledger) + 1] = row
  <2> HIDE DEF L
  <2> QED
    BY <1>2, Appended
<1>4. ledger \in Seq({ledger[i] : i \in DOMAIN ledger})
  <2> HIDE DEF ledger, L
  <2> QED
    BY <1>3
<1> HIDE DEF ledger, L
<1>5. r = [s EXCEPT !.ledger = ledger]
  BY DEF WithRow, ledger
<1>6. /\ r \in StateSet({ledger[i] : i \in DOMAIN ledger}) /\ r.ledger = ledger
      /\ SameOrders(r, s) /\ SameClaims(r, s) /\ SameCash(r, s) /\ SameHoldings(r, s)
      /\ r.fills = s.fills /\ r.next = s.next /\ r.flowIds = s.flowIds
  <2> DEFINE M == {ledger[i] : i \in DOMAIN ledger}
             M0 == RowsOf(s)
  <2>1. s \in StateSet(M0) /\ ledger \in Seq(M)
    BY <1>1, <1>4
  <2> HIDE DEF M, M0
  <2>2. /\ r \in StateSet(M) /\ r.ledger = ledger
        /\ SameOrders(r, s) /\ SameClaims(r, s) /\ SameCash(r, s) /\ SameHoldings(r, s)
        /\ r.fills = s.fills /\ r.next = s.next /\ r.flowIds = s.flowIds
    BY <1>5, <2>1 DEF StateSet, SameOrders, SameClaims, SameCash, SameHoldings
  <2> QED
    BY <2>2 DEF M
<1>7. IsState(r)
  BY <1>6 DEF IsState, RowsOf
<1>8. Longer(r.ledger, s.ledger)
  BY <1>3, <1>6 DEF Longer
<1> QED
  BY <1>3, <1>6, <1>7, <1>8 DEF IsMarked, ledger

LEMMA MarkStep ==
  ASSUME ReplayInv, Mark
  PROVE  /\ InSnapshot(Visible, phase', st', basket', history)
         /\ IsMarked(st', st, NewRow)
<1> DEFINE v == Visible
<1>1. /\ InSnapshot(v, "mark", st, basket, history) /\ phase' = "decide" /\ basket' = basket
      /\ st' = [st EXCEPT !.ledger = Append(@, NewRow)]
  BY DEF ReplayInv, Mark, Step
<1> HIDE DEF v
<1>2. IsState(st) /\ IsState(v)
  BY <1>1, TodaysMarket
<1>3. IsMarked(st', st, NewRow)
  <2>1. st' = WithRow(st, NewRow)
    BY <1>1 DEF WithRow
  <2> QED
    BY <1>2, <2>1, Marking
<1>4. basket = NoBasket /\ OrdersIn("mark", st, v, basket) /\ Continues(st, v)
      /\ Len(st.ledger) = Len(v.ledger) + 0 /\ st.next = v.next /\ v.flowIds \subseteq st.flowIds
  BY <1>1 DEF InSnapshot
<1>5. OrdersIn("decide", st', v, basket)
  BY <1>3, <1>4 DEF OrdersIn, IsMarked, SameOrders, Executed, OthersOver, Early, Late
<1>6. Continues(st', v)
  <2>1. Longer(st'.ledger, v.ledger)
    BY <1>2, <1>3, <1>4, TableTypes DEF IsMarked, Continues, Longer
  <2> QED
    BY <1>3, <1>4, <2>1 DEF IsMarked, Continues, SameClaims, SameCash, SameOrders
<1>7. Len(st'.ledger) = Len(v.ledger) + 1
  BY <1>2, <1>3, <1>4, TableTypes DEF IsMarked
<1>8. InSnapshot(v, "decide", st', basket, history)
  BY <1>1, <1>3, <1>4, <1>5, <1>6, <1>7 DEF InSnapshot, IsMarked
<1> QED
  BY <1>1, <1>3, <1>8 DEF v

(* A decision is made in whole lots.                                       *)
LEMMA UnitsType == \A value \in Int : Units(value) \in Int
<1> TAKE value \in Int
<1>1. LotUnit \in Int /\ LotUnit > 0
  BY ConfigAssumption
<1>2. 2 * value + LotUnit \in Int /\ 2 * LotUnit \in Int /\ 2 * LotUnit > 0
  BY <1>1
<1>3. (2 * value + LotUnit) \div (2 * LotUnit) \in Int
  BY <1>2
<1>4. SignOf(value) \in {0, 1, -1} /\ Magnitude(value) \in Int
  BY DEF SignOf, Magnitude
<1>5. Magnitude(value) \div LotUnit \in Int
  BY <1>1, <1>4
<1>6. SignOf(value) * (Magnitude(value) \div LotUnit) \in Int
  BY <1>4, <1>5
<1> QED
  BY <1>3, <1>6 DEF Units

LEMMA LotType ==
  ASSUME NEW value \in Int, NEW lower \in Int, NEW upper \in Int
  PROVE  RoundLot(value, lower, upper) \in Int
<1>1. LotUnit \in Int /\ LotUnit > 0 /\ Noise \in Int
  BY ConfigAssumption
<1>2. Noise - lower \in Int /\ upper + Noise \in Int
  BY <1>1
<1>3. -((Noise - lower) \div LotUnit) \in Int /\ (upper + Noise) \div LotUnit \in Int
  BY <1>1, <1>2
<1> QED
  BY <1>3, UnitsType DEF RoundLot

LEMMA DesiredType ==
  ASSUME IsState(st)
  PROVE  Desired \subseteq [Instruments -> Int]
<1>1. st.stock \in Int /\ st.hedges \in [Contracts -> Int]
  BY DEF IsState, StateSet
<1>2. {LotUnit, OptionLimit, OptionTradeLimit, StockLimit, StockTradeLimit} \subseteq Int
  BY ConfigAssumption
<1>3. ASSUME NEW old \in Int, NEW position \in Int, NEW trade \in Int
      PROVE  Box(old, position, trade) \subseteq Int
  <2> DEFINE lower == Larger(IF AllowShorts THEN -position ELSE 0, old * LotUnit - trade)
             upper == Smaller(position, old * LotUnit + trade)
  <2>1. old * LotUnit \in Int
    BY <1>2
  <2>2. lower \in Int /\ upper \in Int
    BY <2>1 DEF Larger, Smaller
  <2>3. Box(old, position, trade) = {RoundLot(value, lower, upper) : value \in lower..upper}
    BY DEF Box
  <2> HIDE DEF lower, upper
  <2> QED
    BY <2>2, <2>3, LotType
<1>4. \A id \in Instruments : Held(st, HedgeSlot(id)) \in Int
  BY <1>1 DEF Held, HedgeSlot, Instruments
<1> DEFINE choices ==
        [id \in Instruments |->
           {Held(st, HedgeSlot(id))}
             \union (IF id = Spot THEN Box(st.stock, StockLimit, StockTradeLimit)
                     ELSE IF Tradeable(id)
                       THEN Box(st.hedges[id], OptionLimit, OptionTradeLimit) ELSE {})]
<1>5. ASSUME NEW id \in Instruments PROVE choices[id] \subseteq Int
  <2>1. id # Spot => st.hedges[id] \in Int
    BY <1>1 DEF Instruments
  <2>2. Box(st.stock, StockLimit, StockTradeLimit) \subseteq Int
    BY <1>1, <1>2, <1>3
  <2>3. id # Spot => Box(st.hedges[id], OptionLimit, OptionTradeLimit) \subseteq Int
    BY <1>2, <1>3, <2>1
  <2> QED
    BY <1>4, <2>2, <2>3
<1>6. Desired = {want \in [Instruments -> UNION {choices[id] : id \in Instruments}] :
                   \A id \in Instruments : want[id] \in choices[id]}
  BY DEF Desired
<1> HIDE DEF choices
<1> QED
  BY <1>5, <1>6

LEMMA DecideStep ==
  ASSUME ReplayInv, Decide
  PROVE  /\ InSnapshot(Visible, phase', st', basket', history)
         /\ \E want \in Desired :
              /\ want \in [Instruments -> Int]
              /\ SameButOrders(st', st) /\ st'.pending = Len(st.orders) + 1
              /\ AddedOrder(st', st, DecidedOrder(want))
<1> DEFINE v == Visible
           N == Len(st.orders)
<1>1. InSnapshot(v, "decide", st, basket, history) /\ phase' = "commit" /\ basket' = basket /\ Rebalances
  BY DEF ReplayInv, Decide, Step
<1> HIDE DEF v
<1>2. IsState(st) /\ IsState(v) /\ st.next \in 1..Horizon /\ Continues(st, v) /\ basket = NoBasket
      /\ st.pending = 0 /\ Executed(st, v) /\ OthersOver(st, 0) /\ v.pending <= Len(v.orders)
  BY <1>1, TodaysMarket DEF InSnapshot, OrdersIn, Late, IsCommitted, OrdersOf
<1>3. N \in Nat /\ Len(v.orders) \in Nat /\ Len(v.orders) <= N /\ v.pending \in Nat
  BY <1>2, TableTypes DEF Continues
<1>4. PICK want \in Desired :
        st' = [st EXCEPT !.orders = Append(@, DecidedOrder(want)), !.pending = N + 1]
  BY DEF Decide
<1> DEFINE o == DecidedOrder(want)
<1>5. want \in [Instruments -> Int]
  BY <1>2, DesiredType
<1>6. o \in Order /\ IsOpen(o, st.next)
  BY <1>2, <1>5, HorizonType DEF DecidedOrder, Order, IsOpen
<1>7. st' = WithOrder(st, o, N + 1)
  BY <1>4 DEF WithOrder
<1> HIDE DEF o
<1>8. N + 1 \in Nat
  BY <1>3
<1>9. SameButOrders(st', st) /\ st'.pending = N + 1 /\ AddedOrder(st', st, o)
  <2> HIDE DEF N
  <2> QED
    BY <1>2, <1>6, <1>7, <1>8, Ordering
<1>10. \A j \in 1..Len(v.orders) : st'.orders[j] = st.orders[j]
  BY <1>3, <1>9 DEF AddedOrder
<1>11. Executed(st', v)
  <2>1. CASE v.pending = 0
    BY <2>1 DEF Executed
  <2>2. CASE v.pending # 0
    <3>1. v.pending \in 1..Len(v.orders)
      BY <1>2, <1>3, <2>2
    <3> QED
      BY <1>2, <1>10, <2>2, <3>1 DEF Executed
  <2> QED
    BY <2>1, <2>2
<1>12. OrdersOf(st', st'.next)
  <2>1. OthersOver(st', N + 1)
    BY <1>2, <1>3, <1>9 DEF OthersOver, AddedOrder
  <2>2. st'.next = st.next
    BY <1>9 DEF SameButOrders, SameRun
  <2> QED
    BY <1>3, <1>6, <1>9, <2>1, <2>2 DEF OrdersOf, AddedOrder
<1>13. OrdersIn("commit", st', v, basket)
  BY <1>3, <1>9, <1>11, <1>12 DEF OrdersIn, Early, Late
<1>14. Len(st.orders) <= Len(st'.orders)
       /\ \A j \in 1..Len(v.orders) : j # v.pending => st'.orders[j] = st.orders[j]
  BY <1>3, <1>9, <1>10 DEF AddedOrder
<1>15. SameButOrders(st', st)
  BY <1>9
<1>16. InSnapshot(v, "commit", st', basket, history)
  <2>1. InSnapshot(v, "decide", st, basket, history)
    BY <1>1
  <2> QED
    BY <2>1, <1>2, <1>13, <1>14, <1>15, NoBasketType, OrdersMove
<1> QED
  BY <1>1, <1>5, <1>9, <1>16 DEF v, o

LEMMA NoDecisionStep ==
  ASSUME ReplayInv, NoDecision
  PROVE  InSnapshot(Visible, phase', st', basket', history)
<1> DEFINE v == Visible
<1>1. /\ InSnapshot(v, "decide", st, basket, history) /\ st' = st /\ basket' = basket
      /\ phase' = "commit"
  BY DEF ReplayInv, NoDecision, Step
<1> HIDE DEF v
<1>2. OrdersIn("decide", st, v, basket) /\ basket = NoBasket /\ IsState(st)
  BY <1>1 DEF InSnapshot
<1>3. OrdersIn("commit", st, v, basket)
  <2>1. OrdersOf(st, st.next)
    BY <1>2, TableTypes DEF OrdersIn, OrdersOf, Late
  <2> QED
    BY <1>2, <2>1 DEF OrdersIn, Early, Late
<1>4. Appends(st, st) /\ SameOrders(st, st)
  BY <1>1, TodaysMarket, NothingAppends
<1>5. InSnapshot(v, "commit", st, basket, history)
  BY <1>1, <1>2, <1>3, <1>4, NoBasketType, StaysInSnapshot
<1> QED
  BY <1>1, <1>5 DEF v
-----------------------------------------------------------------------------
(* The steps between snapshots.                                            *)

LEMMA HistoryCut ==
  ASSUME NEW h, IsHistory(h), NEW n \in 0..Len(h)
  PROVE  /\ IsHistory(SubSeq(h, 1, n)) /\ Len(SubSeq(h, 1, n)) = n
         /\ n = Len(h) => SubSeq(h, 1, n) = h
<1>1. h \in Seq(Market) /\ Len(h) \in Nat
  BY DEF IsHistory
<1>2. /\ SubSeq(h, 1, n) \in Seq(Market) /\ Len(SubSeq(h, 1, n)) = n
      /\ \A i \in 1..n : SubSeq(h, 1, n)[i] = h[i]
      /\ n = Len(h) => SubSeq(h, 1, n) = h
  BY <1>1, FirstElements
<1> QED
  BY <1>1, <1>2, HorizonType DEF IsHistory

LEMMA HistoryGrows ==
  ASSUME NEW h, IsHistory(h), Len(h) < Horizon, NEW x \in SnapshotsAt[Len(h) + 1]
  PROVE  /\ IsHistory(Append(h, x)) /\ Len(Append(h, x)) = Len(h) + 1
         /\ Before(Append(h, x)) = h
<1> DEFINE g == Append(h, x)
<1>1. h \in Seq(Market) /\ Len(h) \in Nat /\ x \in Market /\ Len(h) + 1 \in 1..Horizon
  BY HorizonType DEF IsHistory, Market
<1>2. /\ g \in Seq(Market) /\ Len(g) = Len(h) + 1 /\ g[Len(h) + 1] = x
      /\ \A i \in 1..Len(h) : g[i] = h[i]
  BY <1>1, Appended
<1>3. IsHistory(g)
  <2>1. \A i \in 1..Len(h) + 1 : i \in 1..Len(h) \/ i = Len(h) + 1
    BY <1>1
  <2> HIDE DEF g
  <2> QED
    BY <1>1, <1>2, <2>1, HorizonType DEF IsHistory
<1>4. Before(g) = h
  <2>1. SubSeq(g, 1, Len(h)) = SubSeq(h, 1, Len(h))
    BY <1>1, PrefixKept
  <2>2. SubSeq(h, 1, Len(h)) = h
    BY <1>1, HistoryCut
  <2>3. Len(g) - 1 = Len(h)
    BY <1>1, <1>2
  <2> HIDE DEF g
  <2> QED
    BY <2>1, <2>2, <2>3 DEF Before
<1> QED
  BY <1>2, <1>3, <1>4

LEMMA InitStep ==
  ASSUME Init
  PROVE  ReplayInv
<1> DEFINE e == EntryState
<1>1. Unprocessed(e)
  BY EntryIs
<1>2. /\ st = e /\ phase = "idle" /\ basket = NoBasket /\ history = <<>> /\ limit \in 1..Horizon
      /\ status = "running" /\ checkpoints = {Checkpoint(e, <<>>)} /\ runs = 1
  BY DEF Init
<1> HIDE DEF e
<1>3. IsState(e)
  <2>1. RowsOf(e) = {}
    BY <1>1 DEF Unprocessed, RowsOf
  <2> QED
    BY <1>1, <2>1 DEF Unprocessed, IsState
<1>4. IsHistory(<<>>) /\ Len(<<>>) = 0
  BY HorizonType DEF IsHistory
<1>5. IsCommitted(e, <<>>)
  BY <1>1, <1>3, <1>4 DEF IsCommitted, Unprocessed, OrdersOf, OthersOver
<1>6. SubSeq(<<>>, 1, e.next - 1) = <<>>
  <2>1. e.next - 1 = 0
    BY <1>1 DEF Unprocessed
  <2> QED
    BY <1>4, <2>1, HistoryCut
<1>7. \A cp \in checkpoints : IsCommitted(cp.state, cp.prefix)
  <2>1. Checkpoint(e, <<>>) = [state |-> e, prefix |-> <<>>]
    BY <1>6 DEF Checkpoint
  <2> QED
    BY <1>2, <1>5, <2>1
<1>8. 1 \in 1..MaxRuns
  BY RunsAssumption
<1> QED
  BY <1>2, <1>5, <1>7, <1>8 DEF ReplayInv, Phases

(* A snapshot begins; nothing visible has changed.                         *)
LEMMA BeginStep ==
  ASSUME ReplayInv, BeginSnapshot
  PROVE  /\ ReplayInv' /\ phase = "idle" /\ phase' = "validate" /\ st' = st
         /\ Visible = st /\ Visible' = st /\ checkpoints' = checkpoints
<1>1. /\ phase = "idle" /\ phase' = "validate" /\ st' = st /\ basket' = basket
      /\ saved' = Savepoint(st) /\ limit' = limit /\ status' = status
      /\ checkpoints' = checkpoints /\ runs' = runs /\ st.next <= limit
  BY DEF BeginSnapshot, Step
<1>2. IsCommitted(st, history) /\ basket = NoBasket /\ limit \in 1..Horizon
  BY <1>1 DEF ReplayInv
<1>3. PICK x \in SnapshotsAt[st.next] : history' = Append(history, x)
  BY DEF BeginSnapshot
<1>4. IsHistory(history) /\ st.next = Len(history) + 1 /\ IsState(st) /\ Len(history) \in Nat
  BY <1>2 DEF IsCommitted, IsHistory
<1>5. IsHistory(history') /\ Len(history') = st.next /\ Before(history') = history
  BY <1>1, <1>2, <1>3, <1>4, HistoryGrows, HorizonType
<1>6. Continues(st, st) /\ st.flowIds \subseteq st.flowIds
  BY <1>4, TableTypes DEF Continues, Longer
<1>7. OrdersIn("validate", st, st, basket)
  BY DEF OrdersIn, SameOrders, Early, Late
<1>8. Len(st.ledger) = Len(st.ledger) + 0
  BY <1>4, TableTypes
<1>9. InSnapshot(st, "validate", st, basket, history')
  BY <1>2, <1>4, <1>5, <1>6, <1>7, <1>8, NoBasketType DEF InSnapshot
<1>10. Rollback(st, Savepoint(st)) = st
  BY <1>9, CanRollBack
<1>11. Visible' = st /\ Visible = st
  BY <1>1, <1>10 DEF Visible
<1>12. ReplayInv'
  BY <1>1, <1>9, <1>11 DEF ReplayInv, Phases
<1> QED
  BY <1>1, <1>11, <1>12

(* A snapshot ends: it becomes visible as a whole.                         *)
LEMMA CommitStep ==
  ASSUME ReplayInv, Commit
  PROVE  /\ ReplayInv' /\ phase = "commit" /\ phase' = "idle" /\ st' = [st EXCEPT !.next = st.next + 1]
         /\ Visible' = st' /\ checkpoints' = checkpoints /\ history' = history
         /\ InSnapshot(Visible, "commit", st, basket, history)
         /\ IsState(st') /\ st'.next = st.next + 1 /\ SameOrders(st', st) /\ SameClaims(st', st)
         /\ SameCash(st', st) /\ SameHoldings(st', st)
         /\ st'.fills = st.fills /\ st'.flowIds = st.flowIds /\ st'.ledger = st.ledger
<1> DEFINE v == Visible
<1>1. /\ phase = "commit" /\ phase' = "idle" /\ st' = [st EXCEPT !.next = st.next + 1]
      /\ basket' = basket /\ saved' = saved /\ limit' = limit /\ status' = status
      /\ checkpoints' = checkpoints /\ runs' = runs /\ history' = history
  BY DEF Commit, Step, Frame
<1>2. InSnapshot(v, "commit", st, basket, history)
  BY <1>1 DEF ReplayInv
<1> HIDE DEF v
<1>3. /\ IsState(st) /\ st.next \in 1..Horizon /\ IsHistory(history) /\ Len(history) = st.next
      /\ OrdersOf(st, st.next) /\ basket = NoBasket /\ Len(st.ledger) = Len(v.ledger) + 1
      /\ Len(v.ledger) + 1 = v.next /\ v.next = st.next
  BY <1>2, TodaysMarket DEF InSnapshot, IsCommitted, OrdersIn
<1>4. /\ IsState(st') /\ st'.next = st.next + 1 /\ SameOrders(st', st) /\ SameClaims(st', st)
      /\ SameCash(st', st) /\ SameHoldings(st', st)
      /\ st'.fills = st.fills /\ st'.flowIds = st.flowIds /\ st'.ledger = st.ledger
  <2> DEFINE M == RowsOf(st)
  <2>1. st \in StateSet(M) /\ st.next + 1 \in Nat
    BY <1>3 DEF IsState
  <2> HIDE DEF M
  <2>2. /\ st' \in StateSet(M) /\ st'.next = st.next + 1 /\ SameOrders(st', st) /\ SameClaims(st', st)
        /\ SameCash(st', st) /\ SameHoldings(st', st)
        /\ st'.fills = st.fills /\ st'.flowIds = st.flowIds /\ st'.ledger = st.ledger
    BY <1>1, <2>1 DEF StateSet, SameOrders, SameClaims, SameCash, SameHoldings
  <2> QED
    BY <2>2, SameLedger DEF M
<1>5. OrdersOf(st', Len(history))
  BY <1>3, <1>4 DEF OrdersOf, OthersOver, SameOrders
<1>6. IsCommitted(st', history)
  BY <1>3, <1>4, <1>5 DEF IsCommitted
<1>7. Visible' = st'
  BY <1>1 DEF Visible
<1>8. ReplayInv'
  BY <1>1, <1>3, <1>6 DEF ReplayInv, Phases
<1> QED
  BY <1>1, <1>2, <1>4, <1>7, <1>8 DEF v

(* A snapshot fails: the state is what it was when the snapshot began, and *)
(* that is what the result carries.                                        *)
LEMMA FailStep ==
  ASSUME ReplayInv, FailSnapshot
  PROVE  /\ ReplayInv' /\ phase # "idle" /\ phase' = "idle" /\ st' = Visible /\ Visible' = Visible
         /\ history' = Before(history)
         /\ checkpoints' = checkpoints \union {Checkpoint(Visible, history)}
         /\ Checkpoint(Visible, history) = [state |-> Visible, prefix |-> Before(history)]
<1> DEFINE v == Visible
<1>1. /\ phase # "idle" /\ phase' = "idle" /\ st' = v /\ basket' = NoBasket
      /\ history' = Before(history) /\ status' = "failed"
      /\ checkpoints' = checkpoints \union {Checkpoint(v, history)}
      /\ limit' = limit /\ runs' = runs
  BY DEF FailSnapshot, Visible, Before
<1>2. InSnapshot(v, phase, st, basket, history)
  BY <1>1 DEF ReplayInv
<1>3. Visible' = st'
  BY <1>1 DEF Visible
<1> HIDE DEF v
<1>4. IsCommitted(v, Before(history)) /\ Len(history) = v.next
  BY <1>2 DEF InSnapshot
<1>5. Checkpoint(v, history) = [state |-> v, prefix |-> Before(history)]
  BY <1>4 DEF Checkpoint, Before
<1>6. \A cp \in checkpoints' : IsCommitted(cp.state, cp.prefix)
  BY <1>1, <1>4, <1>5 DEF ReplayInv
<1>7. ReplayInv'
  BY <1>1, <1>4, <1>6 DEF ReplayInv, Phases
<1> QED
  BY <1>1, <1>3, <1>5, <1>7 DEF v

(* A run ends; its result carries the state it ended in.                   *)
LEMMA FinishStep ==
  ASSUME ReplayInv, FinishRun
  PROVE  /\ ReplayInv' /\ phase = "idle" /\ phase' = "idle" /\ st' = st /\ history' = history
         /\ checkpoints' = checkpoints \union {Checkpoint(st, history)}
         /\ Checkpoint(st, history) = [state |-> st, prefix |-> history]
         /\ Visible = st /\ Visible' = st
<1>1. /\ phase = "idle" /\ phase' = "idle" /\ st' = st /\ basket' = basket /\ history' = history
      /\ status' = "stopped" /\ checkpoints' = checkpoints \union {Checkpoint(st, history)}
      /\ limit' = limit /\ runs' = runs
  BY DEF FinishRun
<1>2. IsCommitted(st, history) /\ basket = NoBasket
  BY <1>1 DEF ReplayInv
<1>3. IsHistory(history) /\ Len(history) \in Nat /\ st.next - 1 = Len(history)
  BY <1>2 DEF IsCommitted, IsHistory
<1>4. SubSeq(history, 1, st.next - 1) = history
  BY <1>3, HistoryCut
<1>5. Checkpoint(st, history) = [state |-> st, prefix |-> history]
  BY <1>4 DEF Checkpoint
<1>6. \A cp \in checkpoints' : IsCommitted(cp.state, cp.prefix)
  BY <1>1, <1>2, <1>5 DEF ReplayInv
<1>7. ReplayInv'
  <2>1. IsCommitted(st', history') /\ basket' = NoBasket
    BY <1>1, <1>2
  <2> QED
    BY <1>1, <1>6, <2>1 DEF ReplayInv
<1> QED
  BY <1>1, <1>5, <1>7 DEF Visible

(* A run starts from a checkpoint.                                         *)
LEMMA StartStep ==
  ASSUME ReplayInv, NEW cp \in checkpoints, NEW stop \in 1..Horizon, NEW supplied,
         StartRun(cp, supplied, stop)
  PROVE  /\ ReplayInv' /\ phase' = "idle" /\ st' = cp.state /\ Visible' = cp.state
         /\ history' = cp.prefix /\ checkpoints' = checkpoints
<1>1. /\ runs < MaxRuns /\ st' = cp.state /\ history' = cp.prefix /\ limit' = stop
      /\ status' = "running" /\ phase' = "idle" /\ basket' = NoBasket /\ runs' = runs + 1
      /\ checkpoints' = checkpoints
  BY DEF StartRun
<1>2. IsCommitted(cp.state, cp.prefix)
  BY DEF ReplayInv
<1>3. runs' \in 1..MaxRuns
  BY <1>1, RunsAssumption DEF ReplayInv
<1>4. ReplayInv'
  <2>1. IsCommitted(st', history')
    BY <1>1, <1>2
  <2>2. \A x \in checkpoints' : IsCommitted(x.state, x.prefix)
    BY <1>1 DEF ReplayInv
  <2>3. phase' \in Phases /\ status' \in {"running", "stopped", "failed"} /\ limit' \in 1..Horizon
    BY <1>1 DEF Phases
  <2> QED
    BY <1>1, <1>3, <2>1, <2>2, <2>3 DEF ReplayInv
<1> QED
  BY <1>1, <1>4 DEF Visible
-----------------------------------------------------------------------------
(* The invariant, and what it implies.                                     *)

(* A step inside a snapshot keeps the invariant and shows nothing.         *)
LEMMA InnerStep ==
  ASSUME ReplayInv, ProcessSnapshot, ~Commit
  PROVE  /\ ReplayInv' /\ Visible' = Visible /\ phase # "idle" /\ phase' # "idle" /\ Frame
         /\ InSnapshot(Visible, phase, st, basket, history)
<1>1. phase # "idle" /\ phase' \in Phases /\ phase' # "idle" /\ Frame
  <2>1. Phases = {"idle"} \union (Phases \ {"idle"})
    BY DEF Phases
  <2>2. CASE Validate \/ Carry \/ Capital \/ FixingDone \/ PaymentsDone
    BY <2>2 DEF Validate, Carry, Capital, FixingDone, PaymentsDone, Step, Phases
  <2>3. CASE \E g \in HoldingGroups, c \in Contracts : FixHolding(g, c)
    BY <2>3 DEF FixHolding, Step, Phases
  <2>4. CASE \E claim \in st.receivables : PayDueClaim(claim)
    BY <2>4 DEF PayDueClaim, Step, Phases
  <2>5. CASE NoPendingOrder \/ RejectPending \/ AcceptPending
    BY <2>5 DEF NoPendingOrder, RejectPending, AcceptPending, Step, Phases
  <2>6. CASE StartLiquidation \/ NoLiquidation
    BY <2>6 DEF StartLiquidation, NoLiquidation, Step, Phases
  <2>7. CASE \E id \in Instruments : FillRow(id)
    BY <2>7 DEF FillRow, Step, Phases
  <2>8. CASE BasketFilled
    BY <2>8 DEF BasketFilled, Phases
  <2>9. CASE Mark \/ Decide \/ NoDecision
    BY <2>9 DEF Mark, Decide, NoDecision, Step, Phases
  <2> QED
    BY <2>2, <2>3, <2>4, <2>5, <2>6, <2>7, <2>8, <2>9 DEF ProcessSnapshot
<1>2. InSnapshot(Visible, phase', st', basket', history)
  <2>1. CASE Validate \/ FixingDone \/ PaymentsDone
    BY <2>1, MovesOn
  <2>2. CASE Carry
    BY <2>2, CarryStep
  <2>3. CASE Capital
    BY <2>3, CapitalStep
  <2>4. CASE \E g \in HoldingGroups, c \in Contracts : FixHolding(g, c)
    BY <2>4, FixStep
  <2>5. CASE \E claim \in st.receivables : PayDueClaim(claim)
    BY <2>5, PayStep
  <2>6. CASE NoPendingOrder
    BY <2>6, NoOrderStep
  <2>7. CASE RejectPending
    BY <2>7, RejectStep
  <2>8. CASE AcceptPending
    BY <2>8, AcceptStep
  <2>9. CASE StartLiquidation
    BY <2>9, LiquidationStep
  <2>10. CASE NoLiquidation
    BY <2>10, NoLiquidationStep
  <2>11. CASE \E id \in Instruments : FillRow(id)
    BY <2>11, FillStep
  <2>12. CASE BasketFilled
    BY <2>12, BasketStep
  <2>13. CASE Mark
    BY <2>13, MarkStep
  <2>14. CASE Decide
    BY <2>14, DecideStep
  <2>15. CASE NoDecision
    BY <2>15, NoDecisionStep
  <2> QED
    BY <2>1, <2>2, <2>3, <2>4, <2>5, <2>6, <2>7, <2>8, <2>9, <2>10, <2>11, <2>12, <2>13,
       <2>14, <2>15 DEF ProcessSnapshot
<1>3. InSnapshot(Visible, phase, st, basket, history)
  BY <1>1 DEF ReplayInv
<1> QED
  BY <1>1, <1>2, <1>3, StepInside

LEMMA ReplayStep ==
  ASSUME ReplayInv, [Next]_vars
  PROVE  ReplayInv'
<1>1. CASE BeginSnapshot
  BY <1>1, BeginStep
<1>2. CASE ProcessSnapshot /\ ~Commit
  BY <1>2, InnerStep
<1>3. CASE Commit
  BY <1>3, CommitStep
<1>4. CASE FailSnapshot
  BY <1>4, FailStep
<1>5. CASE FinishRun
  BY <1>5, FinishStep
<1>6. CASE Restart
  BY <1>6, StartStep DEF Restart
<1>7. CASE UNCHANGED vars
  <2>1. Visible' = Visible
    BY <1>7 DEF vars, Visible
  <2> QED
    BY <1>7, <2>1 DEF vars, ReplayInv
<1> QED
  BY <1>1, <1>2, <1>3, <1>4, <1>5, <1>6, <1>7 DEF Next, Proceed

(* Every replay keeps the invariant.                                       *)
LEMMA ReplayStaysSound == Spec => []ReplayInv
<1>1. Init => ReplayInv
  BY InitStep
<1>2. ReplayInv /\ [Next]_vars => ReplayInv'
  BY ReplayStep
<1> QED
  BY <1>1, <1>2, PTL DEF Spec

(* The order that a state waits for is one of its orders.                  *)
LEMMA PendingInRange ==
  ASSUME ReplayInv
  PROVE  /\ st.pending \in 0..Len(st.orders) /\ basket.order \in 0..Len(st.orders)
         /\ IsState(st) /\ IsBasket(basket) /\ Len(st.orders) \in Nat
<1>1. CASE phase = "idle"
  <2>1. IsState(st) /\ OrdersOf(st, Len(history)) /\ basket = NoBasket
    BY <1>1 DEF ReplayInv, IsCommitted
  <2> QED
    BY <2>1, TableTypes, NoBasketType DEF OrdersOf, NoBasket
<1>2. CASE phase # "idle"
  <2> DEFINE v == Visible
  <2>1. InSnapshot(v, phase, st, basket, history)
    BY <1>2 DEF ReplayInv
  <2> HIDE DEF v
  <2>2. /\ IsState(st) /\ IsState(v) /\ OrdersOf(v, Len(Before(history))) /\ IsBasket(basket)
        /\ OrdersIn(phase, st, v, basket)
        /\ phase # "fill" => basket = NoBasket
    BY <2>1 DEF InSnapshot, IsCommitted
  <2>3. Len(st.orders) \in Nat /\ st.pending \in Nat
    BY <2>2, TableTypes
  <2>9. basket = NoBasket => basket.order \in 0..Len(st.orders)
    <3>1. NoBasket.order = 0
      BY DEF NoBasket
    <3> QED
      BY <2>3, <3>1
  <2>4. CASE phase \in Early
    <3>1. SameOrders(st, v) /\ v.pending <= Len(v.orders)
      BY <2>2, <2>4 DEF OrdersIn, OrdersOf
    <3>2. phase # "fill"
      BY <2>4 DEF Early
    <3>3. st.pending \in 0..Len(st.orders)
      BY <2>3, <3>1 DEF SameOrders
    <3> QED
      BY <2>2, <2>3, <2>9, <3>2, <3>3
  <2>5. CASE phase = "fill"
    <3>1. basket.order \in 1..Len(st.orders)
      BY <2>1, <2>5, BasketOrder
    <3>2. CASE FillsPending(st, v, basket)
      <4>1. st.pending = basket.order
        BY <3>2 DEF FillsPending, SameOrders
      <4> QED
        BY <2>2, <2>3, <3>1, <4>1
    <3>3. CASE FillsLiquidation(st, v, basket)
      <4>1. st.pending = 0
        BY <3>3 DEF FillsLiquidation
      <4> QED
        BY <2>2, <2>3, <3>1, <4>1
    <3>4. FillsPending(st, v, basket) \/ FillsLiquidation(st, v, basket)
      BY <2>2, <2>5 DEF OrdersIn
    <3> QED
      BY <3>2, <3>3, <3>4
  <2>6. CASE phase \in Late
    <3>1. st.pending = 0
      BY <2>2, <2>6 DEF OrdersIn
    <3>2. phase # "fill"
      BY <2>6 DEF Late
    <3> QED
      BY <2>2, <2>3, <2>9, <3>1, <3>2
  <2>7. CASE phase = "commit"
    <3>1. st.pending <= Len(st.orders)
      BY <2>2, <2>7 DEF OrdersIn, OrdersOf
    <3> QED
      BY <2>2, <2>3, <2>9, <2>7, <3>1
  <2>8. phase \in Early \/ phase = "fill" \/ phase \in Late \/ phase = "commit"
    BY <1>2 DEF ReplayInv, Phases, Early, Late
  <2> QED
    BY <2>4, <2>5, <2>6, <2>7, <2>8
<1> QED
  BY <1>1, <1>2

LEMMA ReplayTypes == ReplayInv => TypeOK
<1> SUFFICES ASSUME ReplayInv PROVE TypeOK
  OBVIOUS
<1>1. /\ st.pending \in 0..Len(st.orders) /\ basket.order \in 0..Len(st.orders)
      /\ IsState(st) /\ IsBasket(basket)
  BY PendingInRange
<1>2. /\ st.cash \in Int /\ st.stock \in Int /\ st.targets \in [Contracts -> Int]
      /\ st.hedges \in [Contracts -> Int] /\ st.receivables \subseteq Claim
      /\ st.book \in BookType(Slots, Claim) /\ st.orders \in Seq(Order)
  BY <1>1 DEF IsState, StateSet
<1>3. basket.rows \subseteq Instruments
  BY <1>1 DEF IsBasket
<1>4. /\ st.next \in 1..Horizon + 1
      /\ Len(history) = IF phase = "idle" THEN st.next - 1 ELSE st.next
  <2>1. CASE phase = "idle"
    BY <2>1, HorizonType DEF ReplayInv, IsCommitted, IsHistory
  <2>2. CASE phase # "idle"
    <3>1. InSnapshot(Visible, phase, st, basket, history)
      BY <2>2 DEF ReplayInv
    <3> QED
      BY <2>2, <3>1, TodaysMarket, HorizonType
  <2> QED
    BY <2>1, <2>2
<1> QED
  BY <1>1, <1>2, <1>3, <1>4 DEF TypeOK, ReplayInv

(* The state, the run and the basket always have the shapes that the code  *)
(* gives them.                                                             *)
THEOREM ReplayTypesHold == Spec => []TypeOK
  BY ReplayStaysSound, ReplayTypes, PTL
-----------------------------------------------------------------------------
(* Snapshots commit atomically.                                            *)

LEMMA LongerIsPrefix ==
  ASSUME NEW S, NEW T, NEW a \in Seq(S), NEW b \in Seq(T), Longer(b, a)
  PROVE  IsPrefix(a, b)
<1>1. SubSeq(b, 1, Len(a)) = a
  BY Beginning
<1>2. SubSeq(a, 1, Len(a)) = a
  <2>1. Len(a) \in 0..Len(a)
    OBVIOUS
  <2> QED
    BY <2>1, FirstElements
<1> QED
  BY <1>1, <1>2 DEF IsPrefix, Longer

(* What commits extends what was visible.                                  *)
LEMMA CommitExtends ==
  ASSUME ReplayInv, Commit
  PROVE  Atomic!Extends(Visible, Visible')
<1> DEFINE v == Visible
           r == st'
<1>1. /\ InSnapshot(v, "commit", st, basket, history) /\ Visible' = r
      /\ r.next = st.next + 1 /\ SameOrders(r, st) /\ SameClaims(r, st)
      /\ SameCash(r, st) /\ r.fills = st.fills /\ r.flowIds = st.flowIds /\ r.ledger = st.ledger
  BY CommitStep
<1> HIDE DEF v, r
<1>2. /\ IsState(st) /\ IsState(v) /\ v.next = st.next /\ Continues(st, v) /\ Executed(st, v)
      /\ v.flowIds \subseteq st.flowIds /\ Len(st.ledger) = Len(v.ledger) + 1
      /\ OrdersOf(v, Len(Before(history)))
  BY <1>1 DEF InSnapshot, IsCommitted, OrdersIn
<1>3. /\ IsPrefix(v.ledger, st.ledger) /\ IsPrefix(v.fills, st.fills)
      /\ IsPrefix(v.cashflows, st.cashflows) /\ IsPrefix(v.settlements, st.settlements)
  <2>1. IsPrefix(v.ledger, st.ledger)
    BY <1>2, TableTypes, LongerIsPrefix DEF Continues
  <2>2. IsPrefix(v.fills, st.fills)
    BY <1>2, TableTypes, LongerIsPrefix DEF Continues
  <2>3. IsPrefix(v.cashflows, st.cashflows)
    BY <1>2, TableTypes, LongerIsPrefix DEF Continues
  <2>4. IsPrefix(v.settlements, st.settlements)
    BY <1>2, TableTypes, LongerIsPrefix DEF Continues
  <2> QED
    BY <2>1, <2>2, <2>3, <2>4
<1>4. Atomic!OrdersExtend(v, r)
  <2>1. Len(v.orders) \in Nat /\ v.pending \in Nat
    BY <1>2, TableTypes
  <2>2. ASSUME NEW k \in 1..Len(v.orders)
        PROVE  IF k = v.pending
                 THEN /\ r.orders[k].status # "pending" /\ r.orders[k].fillAt = v.next
                      /\ r.orders[k].want = v.orders[k].want
                 ELSE r.orders[k] = v.orders[k]
    BY <1>1, <1>2, <2>1, <2>2 DEF Continues, Executed, SameOrders
  <2> QED
    BY <1>1, <1>2, <2>2 DEF Atomic!OrdersExtend, Continues, SameOrders
<1>5. Atomic!Extends(v, r)
  <2>1. r.cashflows = st.cashflows /\ r.settlements = st.settlements
    BY <1>1 DEF SameClaims, SameCash
  <2>2. r.next = v.next + 1 /\ Len(r.ledger) = Len(v.ledger) + 1
    BY <1>1, <1>2
  <2>3. /\ Atomic!IsPrefix(v.ledger, r.ledger) /\ Atomic!IsPrefix(v.fills, r.fills)
        /\ Atomic!IsPrefix(v.cashflows, r.cashflows)
        /\ Atomic!IsPrefix(v.settlements, r.settlements)
    BY <1>1, <1>3, <2>1 DEF IsPrefix, Atomic!IsPrefix
  <2>4. v.flowIds \subseteq r.flowIds
    BY <1>1, <1>2
  <2> QED
    BY <1>4, <2>2, <2>3, <2>4 DEF Atomic!Extends
<1> QED
  BY <1>1, <1>5 DEF v

LEMMA VisibleInit == Init => Atomic!Init
<1> SUFFICES ASSUME Init PROVE Atomic!Init
  OBVIOUS
<1>1. Unprocessed(EntryState)
  BY EntryIs
<1>2. Visible = EntryState
  BY DEF Init, Visible
<1>3. checkpoints = {Checkpoint(EntryState, <<>>)}
  BY DEF Init
<1>4. {cp.state : cp \in checkpoints} = {EntryState}
  <2>1. Checkpoint(EntryState, <<>>).state = EntryState
    BY DEF Checkpoint
  <2> HIDE DEF Checkpoint
  <2> QED
    BY <1>3, <2>1
<1> QED
  BY <1>1, <1>2, <1>4 DEF Atomic!Init, Unprocessed

(* Each step of the replay is one of what a caller can see, or invisible.  *)
LEMMA VisibleStep ==
  ASSUME ReplayInv, [Next]_vars
  PROVE  [Atomic!Next]_<<Visible, {cp.state : cp \in checkpoints}>>
<1> DEFINE results == {cp.state : cp \in checkpoints}
<1>1. CASE BeginSnapshot
  BY <1>1, BeginStep
<1>2. CASE ProcessSnapshot /\ ~Commit
  <2>1. Visible' = Visible /\ checkpoints' = checkpoints
    BY <1>2, InnerStep DEF Frame
  <2> QED
    BY <2>1
<1>3. CASE Commit
  <2>1. Atomic!Extends(Visible, Visible') /\ checkpoints' = checkpoints
    BY <1>3, CommitExtends, CommitStep
  <2>2. results' = results
    BY <2>1
  <2> QED
    BY <2>1, <2>2 DEF Atomic!Next, Atomic!CommitSnapshot
<1>4. CASE FailSnapshot
  <2>1. Visible' = Visible /\ checkpoints' = checkpoints \union {Checkpoint(Visible, history)}
    BY <1>4, FailStep
  <2>2. Checkpoint(Visible, history).state = Visible
    BY DEF Checkpoint
  <2>3. results' = results \union {Visible}
    BY <2>1, <2>2
  <2> QED
    BY <2>1, <2>3 DEF Atomic!Next, Atomic!CarryResult
<1>5. CASE FinishRun
  <2>1. Visible' = Visible /\ Visible = st /\ checkpoints' = checkpoints \union {Checkpoint(st, history)}
    BY <1>5, FinishStep
  <2>2. Checkpoint(st, history).state = Visible
    BY <2>1 DEF Checkpoint
  <2>3. results' = results \union {Visible}
    BY <2>1, <2>2
  <2> QED
    BY <2>1, <2>3 DEF Atomic!Next, Atomic!CarryResult
<1>6. CASE Restart
  <2>1. PICK cp \in checkpoints : Visible' = cp.state /\ checkpoints' = checkpoints
    BY <1>6, StartStep DEF Restart
  <2>2. Visible' \in results /\ results' = results
    BY <2>1
  <2> QED
    BY <2>2 DEF Atomic!Next, Atomic!StartFrom
<1>7. CASE UNCHANGED vars
  BY <1>7 DEF vars, Visible
<1> QED
  BY <1>1, <1>2, <1>3, <1>4, <1>5, <1>6, <1>7 DEF Next, Proceed

(* "atomic_snapshot_v1": the replay implements AtomicReplay, seen through  *)
(* the savepoint of the snapshot in progress.                              *)
THEOREM SnapshotsCommitAtomically == Spec => CommitsAtomically
<1>1. Init => Atomic!Init
  BY VisibleInit
<1>2. ReplayInv /\ [Next]_vars => [Atomic!Next]_<<Visible, {cp.state : cp \in checkpoints}>>
  BY VisibleStep
<1> QED
  BY <1>1, <1>2, ReplayStaysSound, PTL DEF Spec, CommitsAtomically, Atomic!Spec
=============================================================================
