--------------------------- MODULE PayoffProducts ---------------------------
(***************************************************************************)
(* The payoff graphs of the products (engine/payoff/compile.rs), and what  *)
(* the contracts they stand for pay.  Optional fields are sequences of at  *)
(* most one value; dates are integers.  The smoothed variants differ in    *)
(* the opcodes of two nodes and are left out.                              *)
(***************************************************************************)
EXTENDS PayoffGraph

(* Builder state: the opcodes pushed so far, and the last node that        *)
(* matters.  Next identifier: the number of opcodes.                       *)
Built(opcodes, last) == [opcodes |-> opcodes, last |-> last]
NextId(b) == Len(b.opcodes)

Source(product, opcodes, outputs) ==
  [error |-> "none", nodes |-> PushAll(opcodes), outputs |-> outputs, product |-> product]
Unbuilt(product, why) ==
  [error |-> why, nodes |-> <<>>, outputs |-> <<0>>, product |-> product]

SignedIntrinsic(side, spot, strike) ==
  IF side = "call" THEN Binary("subtract", spot, strike) ELSE Binary("subtract", strike, spot)

EuropeanGraph(p) ==
  Source(p, <<TerminalSpot(p.expiry), Literal(p.strike), SignedIntrinsic(p.side, 0, 1),
              Literal(0), Binary("maximum", 2, 3), Literal(p.notional),
              Binary("multiply", 4, 5)>>, <<6>>)

(* One output per exercise date.                                           *)
AmericanGraph(p) ==
  LET Exercise(opcodes, date) ==
        LET n == Len(opcodes)
        IN  opcodes \o <<TerminalSpot(date), SignedIntrinsic(p.side, n, 0),
                         Binary("maximum", n + 1, 1), Binary("multiply", n + 2, 2)>>
  IN  Source(p, FoldLeft(Exercise, <<Literal(p.strike), Literal(0), Literal(p.notional)>>, p.dates),
             [k \in DOMAIN p.dates |-> 2 + 4 * k])

DigitalGraph(p) ==
  LET indicator == <<TerminalSpot(p.expiry), Literal(p.strike), SignedIntrinsic(p.side, 0, 1),
                     Unary("indicator", 2), Literal(p.payout)>>
  IN  IF p.payoutKind = "cash"
      THEN Source(p, indicator \o <<Binary("multiply", 3, 4)>>, <<5>>)
      ELSE Source(p, indicator \o <<Binary("multiply", 0, 4), Binary("multiply", 3, 5)>>, <<6>>)

(* Strike, intrinsic value, its positive part and the notional, of the     *)
(* node "last": the end of the Asian and of the lookback graph.            *)
Payoff(b, p) ==
  LET n == NextId(b)
  IN  Source(p, b.opcodes \o
        <<Literal(p.strike), SignedIntrinsic(p.side, b.last, n), Literal(0),
          Binary("maximum", n + 1, n + 2), Literal(p.notional), Binary("multiply", n + 3, n + 4)>>,
        <<n + 5>>)

Observe(b, o) ==
  LET n == NextId(b)
  IN  Built(b.opcodes \o
        <<IF o.fixing # <<>> THEN Literal(o.fixing[1]) ELSE TerminalSpot(o.date),
          Literal(o.weight), Binary("multiply", n, n + 1), Binary("add", b.last, n + 2)>>, n + 3)

AsianGraph(p) == Payoff(FoldLeft(Observe, Built(<<Literal(0)>>, 0), p.observations), p)

(* monitoring_node: the fixing of the valuation date, or its spot.         *)
MonitoringNode(p, date) ==
  IF date = p.valuation /\ p.todaysFixing # <<>> THEN Literal(p.todaysFixing[1])
  ELSE TerminalSpot(date)

LookbackGraph(p) ==
  LET dates == SelectSeq(p.dates, LAMBDA date : date >= p.valuation)
      first == IF p.extremum # <<>> THEN Literal(p.extremum[1]) ELSE MonitoringNode(p, dates[1])
      later == IF p.extremum # <<>> THEN dates ELSE Tail(dates)
      Extend(b, date) ==
        LET n == NextId(b)
        IN  Built(b.opcodes \o <<MonitoringNode(p, date),
                                 Binary(IF p.side = "call" THEN "maximum" ELSE "minimum", b.last, n)>>,
                  n + 1)
  IN  IF p.extremum = <<>> /\ dates = <<>> THEN Unbuilt(p, "NoOutputs")
      ELSE Payoff(FoldLeft(Extend, Built(<<first>>, 0), later), p)
-----------------------------------------------------------------------------
(* Barriers.                                                               *)

Distance(direction, spot, barrier) ==
  IF direction = "up" THEN Binary("subtract", spot, barrier) ELSE Binary("subtract", barrier, spot)

BarrierRefusal(p) ==
  IF p.valuation = <<>>
  THEN IF p.hit # <<>> THEN "BarrierHistoryRequiresValuationDate" ELSE "none"
  ELSE IF (\E date \in Range(p.dates) : date < p.valuation[1]) # (p.hit # <<>>)
       THEN "InvalidBarrierHistory" ELSE "none"

(* A continuous hit in the past drops the observations that are left.      *)

Monitored(p) ==
  SelectSeq(p.dates, LAMBDA date :
    ~ (p.monitoring = "continuous" /\ p.hit = <<TRUE>>) /\ (p.valuation # <<>> => date >= p.valuation[1]))

(* One monitoring date: on a dividend date the spot before it counts too.  *)
(* Mutant: the spot before the dividend is left out.                       *)
MutMonitor(p, b, date) ==
  LET n == NextId(b)
  IN  Built(b.opcodes \o <<TerminalSpot(date), Distance(p.direction, n, 7), Unary("indicator", n + 1),
                           Binary("barrier_hit_state", b.last, n + 2)>>, n + 3)

Monitor(p, b, date) ==
  LET n == NextId(b)
      after == <<TerminalSpot(date), Distance(p.direction, n, 7)>>
      both == after \o <<PreDividendSpot(date), Distance(p.direction, n + 2, 7),
                         Binary("maximum", n + 3, n + 1)>>
      scored == IF date \in p.jumps THEN both ELSE after
      score == n + Len(scored) - 1
  IN  Built(b.opcodes \o scored \o
              <<Unary("indicator", score), Binary("barrier_hit_state", b.last, score + 1)>>,
            score + 2)

VanillaPart(p) ==
  <<Literal(p.strike), TerminalSpot(p.expiry), SignedIntrinsic(p.side, 1, 0), Literal(0),
    Binary("maximum", 2, 3), Literal(p.notional), Binary("multiply", 4, 5), Literal(p.barrier)>>

(* The state before the first date: the zero of the vanilla part, or one.  *)
HitBefore(p) ==
  IF p.hit = <<TRUE>> THEN Built(Append(VanillaPart(p), Literal(1)), 8) ELSE Built(VanillaPart(p), 3)

Activate(p, b) ==
  IF p.style = "knock_in" THEN b
  ELSE LET n == NextId(b)
       IN  Built(b.opcodes \o <<Literal(1), Binary("subtract", n, b.last)>>, n + 1)

PayActive(p, b) ==
  LET n == NextId(b)
      active == Append(b.opcodes, Binary("multiply", 6, b.last))
  IN  IF p.rebate = <<>> THEN Source(p, active, <<n>>)
      ELSE Source(p, active \o
             <<Literal(1), Binary("subtract", n + 1, b.last), Literal(p.rebate[1]),
               Binary("multiply", n + 2, n + 3), Binary("add", n, n + 4)>>, <<n + 5>>)

BarrierGraph(p) ==
  IF BarrierRefusal(p) # "none" THEN Unbuilt(p, BarrierRefusal(p))
  ELSE PayActive(p, Activate(p, FoldLeft(LAMBDA b, date : Monitor(p, b, date), HitBefore(p), Monitored(p))))

SourceGraph(p) ==
  CASE p.kind = "european" -> EuropeanGraph(p)
    [] p.kind = "american" -> AmericanGraph(p)
    [] p.kind = "digital" -> DigitalGraph(p)
    [] p.kind = "asian" -> AsianGraph(p)
    [] p.kind = "lookback" -> LookbackGraph(p)
    [] p.kind = "barrier" -> BarrierGraph(p)
-----------------------------------------------------------------------------
(* What the contracts pay on a path.                                       *)
Greatest(S) == CHOOSE x \in S : \A y \in S : y <= x
Least(S) == CHOOSE x \in S : \A y \in S : x <= y

Vanilla(p, spot) ==
  p.notional * Greatest({0, IF p.side = "call" THEN spot - p.strike ELSE p.strike - spot})

Average(p, path) ==
  SumFunction([k \in DOMAIN p.observations |->
    LET o == p.observations[k]
    IN  o.weight * (IF o.fixing # <<>> THEN o.fixing[1] ELSE path.spot[o.date])])

Fixings(p, path) ==
  {IF date = p.valuation /\ p.todaysFixing # <<>> THEN p.todaysFixing[1] ELSE path.spot[date] :
     date \in {d \in Range(p.dates) : d >= p.valuation}} \cup Range(p.extremum)

Beyond(p, spot) == IF p.direction = "up" THEN spot >= p.barrier ELSE spot <= p.barrier
Touched(p, path) ==
  \/ p.hit = <<TRUE>>
  \/ \E date \in Range(p.dates) :
       /\ p.valuation # <<>> => date >= p.valuation[1]
       /\ Beyond(p, path.spot[date]) \/ (date \in p.jumps /\ Beyond(p, path.pre[date]))

BarrierPays(p, path) ==
  IF (p.style = "knock_in") = Touched(p, path) THEN Vanilla(p, path.spot[p.expiry])
  ELSE IF p.rebate = <<>> THEN 0 ELSE p.rebate[1]

DigitalPays(p, spot) ==
  IF (IF p.side = "call" THEN spot >= p.strike ELSE spot <= p.strike)
  THEN IF p.payoutKind = "cash" THEN p.payout ELSE p.payout * spot
  ELSE 0

Pays(p, path, k) ==
  CASE p.kind = "european" -> Vanilla(p, path.spot[p.expiry])
    [] p.kind = "american" -> Vanilla(p, path.spot[p.dates[k]])
    [] p.kind = "digital" -> DigitalPays(p, path.spot[p.expiry])
    [] p.kind = "asian" -> Vanilla(p, Average(p, path))
    [] p.kind = "lookback" ->
         Vanilla(p, IF p.side = "call" THEN Greatest(Fixings(p, path)) ELSE Least(Fixings(p, path)))
    [] p.kind = "barrier" -> BarrierPays(p, path)

(* A barrier's history is clear if a hit is declared exactly when there    *)
(* are monitoring dates that have passed.                                  *)
HistoryClear(p) ==
  p.kind = "barrier" =>
    (p.hit # <<>>) <=> (p.valuation # <<>> /\ \E date \in Range(p.dates) : date < p.valuation[1])
=============================================================================
