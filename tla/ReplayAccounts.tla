--------------------------- MODULE ReplayAccounts ---------------------------
(***************************************************************************)
(* The accounts of a replay: the state that process_snapshot of engine.py  *)
(* mutates, its savepoint and rollback, what each booking does to it, and  *)
(* the valuation row with its P&L attribution (pnl.py), its discounted     *)
(* columns (numeraire.py) and its cost-basis report.  SnapshotReplay       *)
(* orders these into the replay.                                           *)
(*                                                                         *)
(* Snapshot and table indices count from 1.  Amounts, prices and           *)
(* quantities are integers; quantities are in lots.                        *)
(***************************************************************************)
EXTENDS CostBasis, SequencesExt

CONSTANTS
  Contracts,      \* option contract IDs (targets and hedges)
  Spot,           \* the "__spot__" instrument
  At,             \* valuation dates of the schedule, increasing
  ListedOn, Expiry, PaymentDay, Strike, \* the contracts' terms
  Hedgeable,      \* contracts that are not identical to a target's payoff
  Portfolio,      \* entry positions: [contract, quantity, price, fee]
  SnapshotsAt,    \* per index, the snapshots the history may hold there
  InitialCash, CashFloor,
  RebalanceEvery,
  Liquidates,     \* end_policy = "liquidate_hedges"
  Constrained,    \* constraint_mode = "decision_cash_gross"
  GrossLimit,
  OptionLimit, OptionTradeLimit, StockLimit, StockTradeLimit, \* in lots / LotUnit
  LotUnit,        \* a lot, in the units of the limits and of the solutions
  Noise,          \* binary64 noise, in the same units
  AllowShorts,    \* allow_option_shorts and allow_stock_shorts
  Fee,            \* fee per traded unit
  RateUnit,       \* rates and discount factors are multiples of 1/RateUnit
  NumeraireUnit   \* the account values that the snapshots quote divide it

ASSUME ScheduleAssumption ==
  /\ At \in Seq(Nat) /\ Len(At) > 0
  /\ \A i, j \in 1..Len(At) : i < j => At[i] < At[j]

ASSUME ContractAssumption ==
  /\ IsFiniteSet(Contracts) /\ Spot \notin Contracts /\ Hedgeable \subseteq Contracts
  /\ ListedOn \in [Contracts -> Nat] /\ Expiry \in [Contracts -> Nat]
  /\ PaymentDay \in [Contracts -> Nat] /\ Strike \in [Contracts -> Nat]
  /\ \A c \in Contracts : ListedOn[c] < Expiry[c] /\ Expiry[c] <= PaymentDay[c]

ASSUME ConfigAssumption ==
  /\ InitialCash \in Int /\ CashFloor \in Int /\ GrossLimit \in Nat
  /\ RebalanceEvery \in Nat \ {0} /\ RateUnit \in Nat \ {0} /\ Fee \in Nat
  /\ NumeraireUnit \in Nat \ {0}
  /\ {OptionLimit, OptionTradeLimit, StockLimit, StockTradeLimit} \subseteq Nat
  /\ LotUnit \in Nat /\ Noise \in Nat /\ 2 * Noise < LotUnit
  /\ {Liquidates, Constrained, AllowShorts} \subseteq BOOLEAN

ASSUME PortfolioAssumption ==
  Portfolio \in Seq([contract : Contracts, quantity : Int, price : Int, fee : Nat])

-----------------------------------------------------------------------------
(* Instruments, slots of the cost book and the dates.                      *)

Instruments == Contracts \union {Spot}
HoldingGroups == {"targets", "hedges"}
Slots == (HoldingGroups \X Contracts) \union {<<"stock", Spot>>}
HedgeSlot(id) == IF id = Spot THEN <<"stock", Spot>> ELSE <<"hedges", id>>

Horizon == Len(At)

ASSUME MarketAssumption ==
  \A i \in 1..Horizon : \A s \in SnapshotsAt[i] :
    /\ s.mid \in [Instruments -> Int] /\ s.model \in [Contracts -> Int]
    /\ {s.half, s.lending, s.borrowing, s.stockBorrow, s.dividend, s.discount} \subseteq Int
    /\ s.numeraire \in Nat \ {0}
    /\ IsFiniteSet(DOMAIN s.flows) /\ s.flows \in [DOMAIN s.flows -> Int]

Held(s, slot) == IF slot[1] = "stock" THEN s.stock
                 ELSE IF slot[1] = "targets" THEN s.targets[slot[2]]
                 ELSE s.hedges[slot[2]]

Total(amounts) ==
  LET upTo[n \in 0..Len(amounts)] == IF n = 0 THEN 0 ELSE upTo[n - 1] + amounts[n]
  IN  upTo[Len(amounts)]

SumOver(f(_), rows) == Total([i \in DOMAIN rows |-> f(rows[i])])
-----------------------------------------------------------------------------
(* The state, its savepoint and the rollback.                              *)

Entered(s, p) ==
  LET cash == -p.quantity * p.price - p.fee
  IN  [s EXCEPT
         !.targets[p.contract] = @ + p.quantity,
         !.book      = Trade(@, <<"targets", p.contract>>, p.quantity, p.price, p.price),
         !.cash      = @ + cash,
         !.cashflows = Append(@, [at |-> 1, kind |-> "target_entry", amount |-> cash])]

Untouched ==
  [next |-> 1, cash |-> InitialCash, stock |-> 0,
   targets |-> [c \in Contracts |-> 0], hedges |-> [c \in Contracts |-> 0],
   receivables |-> {}, pending |-> 0, flowIds |-> {}, book |-> NewBook(Slots),
   ledger |-> <<>>, orders |-> <<>>, fills |-> <<>>, cashflows |-> <<>>,
   settlements |-> <<>>]

(* The state once the first n positions are entered.                       *)
Entries[n \in 0..Len(Portfolio)] ==
  IF n = 0 THEN Untouched ELSE Entered(Entries[n - 1], Portfolio[n])

EntryState == Entries[Len(Portfolio)]

(* deepcopy of everything but the append-only tables, whose lengths are    *)
(* kept, and a copy of the one order that the snapshot may still change.   *)
Savepoint(s) ==
  [values  |-> [s EXCEPT !.ledger = <<>>, !.orders = <<>>, !.fills = <<>>,
                         !.cashflows = <<>>, !.settlements = <<>>],
   lengths |-> [ledger |-> Len(s.ledger), orders |-> Len(s.orders),
                fills |-> Len(s.fills), cashflows |-> Len(s.cashflows),
                settlements |-> Len(s.settlements)],
   order   |-> IF s.pending # 0 THEN <<s.orders[s.pending]>> ELSE <<>>]

(* Mutant: forgets one of the append-only tables.                          *)
MutTruncated(s, sp) ==
  [sp.values EXCEPT
     !.ledger      = SubSeq(s.ledger, 1, sp.lengths.ledger),
     !.orders      = SubSeq(s.orders, 1, sp.lengths.orders),
     !.fills       = SubSeq(s.fills, 1, sp.lengths.fills),
     !.cashflows   = s.cashflows,
     !.settlements = SubSeq(s.settlements, 1, sp.lengths.settlements)]

Truncated(s, sp) ==
  [sp.values EXCEPT
     !.ledger      = SubSeq(s.ledger, 1, sp.lengths.ledger),
     !.orders      = SubSeq(s.orders, 1, sp.lengths.orders),
     !.fills       = SubSeq(s.fills, 1, sp.lengths.fills),
     !.cashflows   = SubSeq(s.cashflows, 1, sp.lengths.cashflows),
     !.settlements = SubSeq(s.settlements, 1, sp.lengths.settlements)]

(* Mutant: leaves the pending order as the failed snapshot resolved it.    *)
MutRollback(s, sp) == Truncated(s, sp)

Rollback(s, sp) ==
  LET kept == Truncated(s, sp)
  IN  IF sp.order = <<>> THEN kept
      ELSE [kept EXCEPT !.orders[kept.pending] = sp.order[1]]
-----------------------------------------------------------------------------
(* What one snapshot's steps compute.                                      *)

Booked(s, kind, amount) ==
  [s EXCEPT !.cash      = @ + amount,
            !.cashflows = Append(@, [at |-> s.next, kind |-> kind, amount |-> amount])]

Carried(s, previous, now, days) ==
  LET rate == IF s.cash >= 0 THEN previous.lending ELSE previous.borrowing
      funding == (s.cash * rate * days) \div RateUnit
      borrow == IF s.stock < 0
                  THEN (s.stock * previous.mid[Spot] * previous.stockBorrow * days)
                         \div RateUnit
                  ELSE 0
  IN  Booked(Booked(Booked(s, "funding", funding), "stock_borrow", borrow),
             "dividend", s.stock * now.dividend)

CapitalBooked(s, flows) ==
  LET ids == SetToSeq(DOMAIN flows)
      booked[n \in 0..Len(ids)] ==
        IF n = 0 THEN [s EXCEPT !.flowIds = @ \union DOMAIN flows]
        ELSE Booked(booked[n - 1], "external_capital", flows[ids[n]])
  IN  booked[Len(ids)]

Payoff(c, now) == IF now.mid[Spot] > Strike[c] THEN now.mid[Spot] - Strike[c] ELSE 0

Fixed(s, slot, amount, keep) ==
  LET event == IF amount # 0 THEN "fixed" ELSE "fixed_zero"
      row   == [at |-> s.next, slot |-> slot, event |-> event, amount |-> amount]
      open  == [s EXCEPT
                  !.book        = FixPosition(@, slot, amount, keep),
                  !.settlements = Append(@, row),
                  !.receivables = IF keep
                                    THEN @ \union {[slot |-> slot, amount |-> amount]}
                                    ELSE @]
  IN  IF slot[1] = "targets" THEN [open EXCEPT !.targets[slot[2]] = 0]
      ELSE [open EXCEPT !.hedges[slot[2]] = 0]

(* Mutant: pays without removing the receivable.                           *)
MutPaid(s, claim) ==
  LET row == [at |-> s.next, slot |-> claim.slot, event |-> "paid",
              amount |-> claim.amount]
  IN  [Booked(s, "settlement", claim.amount) EXCEPT !.settlements = Append(@, row)]

Paid(s, claim) ==
  LET row == [at |-> s.next, slot |-> claim.slot, event |-> "paid",
              amount |-> claim.amount]
      s1  == Booked(s, IF claim.slot[1] = "targets" THEN "targets_settlement"
                       ELSE "hedges_settlement", claim.amount)
  IN  [s1 EXCEPT !.book        = PayClaim(@, claim, claim.amount),
                 !.settlements = Append(@, row),
                 !.receivables = @ \ {claim}]
-----------------------------------------------------------------------------
(* execute(): the basket of an order, its cost and its limits.             *)

(* An expired contract is never traded; the spot never expires.            *)
Rows(s, want) ==
  {id \in Instruments : /\ want[id] # Held(s, HedgeSlot(id))
                        /\ id # Spot => Expiry[id] > At[s.next]}

(* Mutant: trades the wanted quantity, whatever is held.                   *)
MutChangeOf(s, want, id) == want[id]

ChangeOf(s, want, id) == want[id] - Held(s, HedgeSlot(id))

(* Buy at the ask, sell at the bid, slippage included in the half spread.  *)
FillPrice(now, id, change) == now.mid[id] + SignOf(change) * now.half
RowCash(now, id, change) ==
  -change * FillPrice(now, id, change) - Magnitude(change) * Fee

ProposedCash(s, now, want) ==
  s.cash + SumFunction([id \in Rows(s, want) |-> RowCash(now, id, ChangeOf(s, want, id))])

(* Gross notional of the unexpired options and of the stock.               *)
Gross(s, now, hedges, stock) ==
  LET live == {c \in Contracts : Expiry[c] > At[s.next]}
  IN  now.mid[Spot] * (Magnitude(stock)
        + SumFunction([c \in live |-> Magnitude(s.targets[c]) + Magnitude(hedges[c])]))

AfterRow(s, id, change) ==
  IF id = Spot THEN [s EXCEPT !.stock = @ + change]
  ELSE [s EXCEPT !.hedges[id] = @ + change]

ProposedGross(s, now, want) ==
  LET rows == Rows(s, want)
  IN  Gross(s, now, [c \in Contracts |-> IF c \in rows THEN want[c] ELSE s.hedges[c]],
            IF Spot \in rows THEN want[Spot] ELSE s.stock)

WithinGross(s, now, want) == Constrained => ProposedGross(s, now, want) <= GrossLimit
WithinCash(s, now, want) == ProposedCash(s, now, want) >= CashFloor

Filled(s, now, id, change) ==
  LET price == FillPrice(now, id, change)
      s1 == Booked(s, "hedge_trade", RowCash(now, id, change))
      s2 == [s1 EXCEPT
               !.book  = Trade(@, HedgeSlot(id), change, price, now.mid[id]),
               !.fills = Append(@, [at |-> s.next, id |-> id, quantity |-> change,
                                    price |-> price, mid |-> now.mid[id],
                                    fee |-> Magnitude(change) * Fee])]
  IN  AfterRow(s2, id, change)

Resolved(s, k, outcome) ==
  [s EXCEPT !.orders[k].status = outcome, !.orders[k].fillAt = s.next]
-----------------------------------------------------------------------------
(* The valuation row, its attribution (pnl.py) and the cost-basis report.  *)

PresentValue(claim, now) == (claim.amount * now.discount) \div RateUnit

ClaimsValue(s, now, group) ==
  SumFunction([c \in {x \in s.receivables : x.slot[1] = group} |-> PresentValue(c, now)])

MarkValue(quantities, marks) == SumFunction([c \in Contracts |-> quantities[c] * marks[c]])

(* The three marked groups, claims included.                               *)
GroupValue(s, now) ==
  [targets |-> MarkValue(s.targets, now.model) + ClaimsValue(s, now, "targets"),
   hedges  |-> MarkValue(s.hedges, now.mid) + ClaimsValue(s, now, "hedges"),
   stock   |-> s.stock * now.mid[Spot]]

NoRow == [value |-> [g \in Groups |-> 0], equity |-> InitialCash, external |-> 0,
          component |-> [g \in Groups |-> 0], other |-> 0,
          numeraire |-> 0, discounted |-> [external |-> 0], carried |-> 0]

PreviousRow(s) == IF s.ledger = <<>> THEN NoRow ELSE s.ledger[Len(s.ledger)]

(* The rows this snapshot appended; snapshot 1 owns the entry cashflows.   *)
NewRows(table, from) == SubSeq(table, from + 1, Len(table))
NewFills(s, sp) == NewRows(s.fills, sp.lengths.fills)
NewFlows(s, sp) == NewRows(s.cashflows, IF s.next = 1 THEN 0 ELSE sp.lengths.cashflows)

FlowsOf(rows, kind) == SumOver(LAMBDA f : IF f.kind = kind THEN f.amount ELSE 0, rows)
TradedAtMid(fills, spot) ==
  -SumOver(LAMBDA f : IF (f.id = Spot) = spot THEN f.quantity * f.mid ELSE 0, fills)

EntryPremium(s) == IF s.next # 1 THEN 0
                   ELSE -SumOver(LAMBDA p : p.quantity * p.price, Portfolio)
EntryFees(s) == IF s.next # 1 THEN 0 ELSE SumOver(LAMBDA p : p.fee, Portfolio)

(* attribute_pnl: the asset components, and the rest of the components.    *)
Components(s, now, sp) ==
  LET previous == PreviousRow(s)
      value == GroupValue(s, now)
      flows == NewFlows(s, sp)
      fills == NewFills(s, sp)
  IN  [targets |-> value["targets"] - previous.value["targets"]
                     + FlowsOf(flows, "targets_settlement") + EntryPremium(s),
       hedges  |-> value["hedges"] - previous.value["hedges"]
                     + FlowsOf(flows, "hedges_settlement") + TradedAtMid(fills, FALSE),
       stock   |-> value["stock"] - previous.value["stock"] + TradedAtMid(fills, TRUE)]

SpreadOf(fills) == -SumOver(LAMBDA f : f.quantity * (f.price - f.mid), fills)

OtherComponents(s, sp) ==
  LET flows == NewFlows(s, sp)
      fills == NewFills(s, sp)
  IN  FlowsOf(flows, "dividend") + FlowsOf(flows, "funding")
        + FlowsOf(flows, "stock_borrow") - EntryFees(s)
        - SumOver(LAMBDA f : f.fee, fills) + SpreadOf(fills)

(* discounted_ledger: every amount at the money-market account of its own  *)
(* snapshot, in units of 1/NumeraireUnit; the initial cash at the first.   *)
Discounted(amount, account) == amount * (NumeraireUnit \div account)

DiscountedRow(s, now, first, equity) ==
  LET previous == PreviousRow(s)
      initial  == Discounted(InitialCash, first)
      prior    == IF s.ledger = <<>> THEN initial ELSE previous.discounted.equity
      value    == Discounted(equity, now.numeraire)
      net      == Discounted(SumFunction(now.flows), now.numeraire)
      external == previous.discounted.external + net
  IN  [equity |-> value, external |-> external, daily |-> value - prior - net,
       cumulative |-> value - initial - external]

(* discounted_attribution: the attributed P&L at today's account, and what *)
(* the move of the account did to the equity of the snapshot before.       *)
DiscountedPnl(s, now, total) ==
  LET prior  == PreviousRow(s)
      before == IF s.ledger = <<>> THEN now.numeraire ELSE prior.numeraire
  IN  Discounted(total, now.numeraire)
        + Discounted(prior.equity, now.numeraire) - Discounted(prior.equity, before)

AttributedTotal(s, now, sp) ==
  LET part == Components(s, now, sp)
  IN  part["targets"] + part["hedges"] + part["stock"] + OtherComponents(s, sp)

LedgerRow(s, now, first, sp) ==
  LET previous == PreviousRow(s)
      value == GroupValue(s, now)
      part == Components(s, now, sp)
      net  == SumFunction(now.flows)
      equity == s.cash + value["targets"] + value["hedges"] + value["stock"]
  IN  [at |-> s.next, spot |-> now.mid[Spot], cash |-> s.cash, value |-> value,
       equity |-> equity, external |-> previous.external + net,
       daily |-> equity - previous.equity - net,
       cumulative |-> equity - InitialCash - previous.external - net,
       component |-> [g \in Groups |-> previous.component[g] + part[g]],
       other |-> previous.other + OtherComponents(s, sp),
       numeraire |-> now.numeraire, discounted |-> DiscountedRow(s, now, first, equity),
       carried |-> previous.carried + DiscountedPnl(s, now, AttributedTotal(s, now, sp))]

(* The requirements of attribute_pnl: the components add up to the daily   *)
(* and to the cumulative P&L, and the capital flows to the external net.   *)
Attributed(s, now, row, sp) ==
  /\ AttributedTotal(s, now, sp) = row.daily
  /\ row.component["targets"] + row.component["hedges"] + row.component["stock"]
       + row.other = row.cumulative
  /\ FlowsOf(NewFlows(s, sp), "external_capital") = SumFunction(now.flows)

(* The requirements of discounted_attribution, daily and cumulative.       *)
DiscountedAttributed(s, now, row, sp) ==
  /\ DiscountedPnl(s, now, AttributedTotal(s, now, sp)) = row.discounted.daily
  /\ row.carried = row.discounted.cumulative

(* The requirements of cost_basis.report: the book holds what the state    *)
(* holds, its realized and unrealized P&L explain each component, and the  *)
(* spread allocated to the groups is that of all fills.  The total P&L is  *)
(* then explained as well, since the attribution adds up.                  *)
BookMirrors(s) ==
  /\ \A slot \in Slots : s.book.quantity[slot] = Held(s, slot)
  /\ s.book.claims = s.receivables

SpreadAllocated(s) == SpreadTotal(s.book) = SpreadOf(s.fills)

Reported(s, row) ==
  /\ BookMirrors(s)
  /\ \A g \in Groups :
       TotalPnl(s.book, g, row.value[g]) = row.component[g] + s.book.spread[g]
  /\ SpreadAllocated(s)

Reconciled(s, now, row, sp) ==
  /\ Attributed(s, now, row, sp)
  /\ DiscountedAttributed(s, now, row, sp)
  /\ Reported(s, row)
=============================================================================
