-------------------------- MODULE ReplayProperties --------------------------
(***************************************************************************)
(* What the replay of SnapshotReplay promises its reader: a self-financing *)
(* ledger, orders that fill at the next snapshot only, claims fixed and    *)
(* paid once, capital booked once, accounts that reconcile, and snapshots  *)
(* that commit atomically (AtomicReplay).                                  *)
(***************************************************************************)
EXTENDS SnapshotReplay

Order ==
  [decided : 1..Horizon, kind : {"rebalance", "liquidation"}, fillAt : 0..Horizon,
   status : {"pending", "filled", "rejected_cash_limit", "rejected_gross_limit"},
   want : [Instruments -> Int]]

Claim == [slot : HoldingGroups \X Contracts, amount : Int]

Phases == {"idle", "validate", "carry", "capital", "fix", "pay", "execute",
           "liquidate", "fill", "mark", "decide", "commit"}

(* The state, the run and the basket have the shapes the code gives them.  *)
TypeOK ==
  /\ st.next \in 1..Horizon + 1 /\ st.cash \in Int /\ st.stock \in Int
  /\ st.targets \in [Contracts -> Int] /\ st.hedges \in [Contracts -> Int]
  /\ st.receivables \subseteq Claim
  /\ st.pending \in 0..Len(st.orders)
  /\ st.book \in BookType(Slots, Claim)
  /\ st.orders \in Seq(Order)
  /\ phase \in Phases /\ limit \in 1..Horizon /\ runs \in 1..MaxRuns
  /\ status \in {"running", "stopped", "failed"}
  /\ basket.order \in 0..Len(st.orders) /\ basket.rows \subseteq Instruments
  /\ Len(history) = IF phase = "idle" THEN st.next - 1 ELSE st.next

Committed == phase = "idle" /\ st.next > 1
-----------------------------------------------------------------------------
(* run_backtest's ledger is self-financing: cash is the initial cash plus  *)
(* every booked cashflow, also in the middle of a basket and after a       *)
(* rollback or a resumed run.                                              *)
SelfFinancing ==
  st.cash = InitialCash + SumOver(LAMBDA f : f.amount, st.cashflows)

(* A committed snapshot leaves cash at or above the floor, positions       *)
(* within their limits and the gross notional under the cap, although the  *)
(* basket was sized one snapshot before it filled.  The order it leaves    *)
(* behind moves no position by more than its trade limit, although it was  *)
(* rounded to lots after it was solved for.                                *)
CommittedWithinLimits ==
  Committed =>
    /\ st.cash >= CashFloor
    /\ Magnitude(st.stock) * LotUnit <= StockLimit + Noise
    /\ \A c \in Contracts : Magnitude(st.hedges[c]) * LotUnit <= OptionLimit + Noise
    /\ ~AllowShorts => st.stock >= 0 /\ \A c \in Contracts : st.hedges[c] >= 0
    /\ st.pending # 0 => \A id \in Instruments :
         Magnitude(st.orders[st.pending].want[id] - Held(st, HedgeSlot(id))) * LotUnit
           <= (IF id = Spot THEN StockTradeLimit ELSE OptionTradeLimit) + Noise
    /\ Constrained => history[st.next - 1].mid[Spot]
         * (Magnitude(st.stock)
              + SumFunction([c \in Contracts |-> Magnitude(st.targets[c])
                                                   + Magnitude(st.hedges[c])]))
         <= GrossLimit

(* execute() at the next snapshot: every rebalance order is resolved once, *)
(* at the snapshot after its decision, and the only unresolved order of a  *)
(* committed state is the one the last snapshot decided.                   *)
OrdersResolveAtNextSnapshot ==
  /\ \A k \in 1..Len(st.orders) :
       LET o == st.orders[k]
       IN  /\ o.kind = "rebalance" /\ o.status # "pending" => o.fillAt = o.decided + 1
           /\ o.kind = "liquidation" /\ o.status # "pending" =>
                o.status = "filled" /\ o.fillAt = Horizon
           /\ Committed /\ o.status = "pending" =>
                k = st.pending /\ o.decided = st.next - 1
  /\ st.pending # 0 => st.orders[st.pending].status = "pending"

(* execute() fills the basket that was decided, one snapshot later: a fill *)
(* happens only where an order was filled, and after a filled order the    *)
(* fills of each instrument that is still alive add up to the quantity the *)
(* order wanted, although the holdings may have been fixed in between.     *)
TradedUpTo(id, n) ==
  SumOver(LAMBDA x : IF x.id = id /\ x.at <= n THEN x.quantity ELSE 0, st.fills)

AliveAt(id, n) == id = Spot \/ Expiry[id] > At[n]

OrdersFillAsDecided ==
  phase = "idle" =>
    LET filled == {k \in 1..Len(st.orders) : st.orders[k].status = "filled"}
    IN  /\ \A i \in 1..Len(st.fills) :
             \E k \in filled : st.orders[k].fillAt = st.fills[i].at
        /\ \A k \in filled, id \in Instruments :
             LET o == st.orders[k]
             IN  AliveAt(id, o.fillAt)
                 /\ (o.fillAt = Horizon /\ Liquidates => o.kind = "liquidation")
                 => TradedUpTo(id, o.fillAt) = o.want[id]

(* end_policy "liquidate_hedges": a completed run holds no hedge.          *)
LiquidatedAtTheEnd ==
  Liquidates /\ st.next > Horizon =>
    st.stock = 0 /\ \A c \in Contracts : st.hedges[c] = 0

(* An order lives for one snapshot, what fills is what was decided, and    *)
(* nothing is left when the run is over.                                   *)
OrdersKept ==
  /\ OrdersResolveAtNextSnapshot
  /\ OrdersFillAsDecided
  /\ LiquidatedAtTheEnd
-----------------------------------------------------------------------------
(* Cash-settled payoffs fix on the expiry date and pay on the payment day: *)
(* each holding is fixed at most once and each claim is paid at most once, *)
(* after its fixing and for the fixed amount.                              *)
ClaimsFixThenPayOnce ==
  LET rows == st.settlements
  IN  /\ \A i, j \in 1..Len(rows) : i < j /\ rows[i].slot = rows[j].slot =>
           /\ rows[i].event # "paid" /\ rows[j].event = "paid"
           /\ rows[i].amount = rows[j].amount
      /\ \A i \in 1..Len(rows) :
           LET c == rows[i].slot[2]
           IN  At[rows[i].at] = IF rows[i].event = "paid" THEN PaymentDay[c] ELSE Expiry[c]

(* A committed snapshot has left nothing overdue: no expired holding, no   *)
(* claim whose payment day has come, and every nonzero fixing is either    *)
(* outstanding or was paid.                                                *)
NothingOverdue ==
  Committed =>
    LET today == At[st.next - 1]
        paid == {st.settlements[i].slot :
                   i \in {k \in 1..Len(st.settlements) : st.settlements[k].event = "paid"}}
    IN  /\ \A c \in Contracts, g \in HoldingGroups :
             Held(st, <<g, c>>) # 0 => Expiry[c] > today
        /\ \A claim \in st.receivables : PaymentDay[claim.slot[2]] > today
        /\ \A i \in 1..Len(st.settlements) :
             LET row == st.settlements[i]
             IN  row.amount # 0 => (row.slot \in paid)
                   # ([slot |-> row.slot, amount |-> row.amount] \in st.receivables)

(* The capital IDs are unique over the whole run, resumed runs included:   *)
(* the capital booked is that of the processed snapshots, and no two of    *)
(* them carry the same ID.                                                 *)
CapitalBookedOnce ==
  phase = "idle" =>
    /\ \A i, j \in 1..Len(history) :
         i # j => DOMAIN history[i].flows \intersect DOMAIN history[j].flows = {}
    /\ FlowsOf(st.cashflows, "external_capital")
         = SumOver(LAMBDA s : SumFunction(s.flows), history)

(* The reconciliation errors of pnl.py, numeraire.py and cost_basis.py     *)
(* never fire: when a snapshot is marked, the attributed components add up *)
(* to the ledger's daily and cumulative P&L; in units of the money-market  *)
(* account, the same P&L with the carry of the prior equity is the         *)
(* discounted P&L of the ledger; and the cost-basis book mirrors the       *)
(* holdings and claims and explains every component.                       *)
AccountsReconcile == phase = "mark" => Reconciled(st, Now, NewRow, saved)

(* No average that a trade forms is rounded to the unit of the amounts.    *)
ExactTrade(book, slot, quantity, price) ==
  LET old == book.quantity[slot]
  IN  Opens(old, quantity) /\ old + quantity # 0 =>
        WeightedPrice(old, book.average[slot], quantity, price) % Magnitude(old + quantity) = 0

EntriesExact ==
  \A n \in 1..Len(Portfolio) :
    ExactTrade(Entries[n - 1].book, <<"targets", Portfolio[n].contract>>,
               Portfolio[n].quantity, Portfolio[n].price)

AveragesExact ==
  /\ EntriesExact
  /\ phase = "fill" => \A id \in basket.rows :
       LET change == ChangeOf(st, basket.want, id)
       IN  ExactTrade(st.book, HedgeSlot(id), change, FillPrice(Now, id, change))

(* A result has one ledger row per processed snapshot, and each was        *)
(* computed from the history that the caller of this run supplied.         *)
LedgerMatchesHistory ==
  phase = "idle" =>
    /\ Len(st.ledger) = Len(history)
    /\ \A i \in 1..Len(history) : /\ st.ledger[i].at = i
                                  /\ st.ledger[i].spot = history[i].mid[Spot]

(* numeraire.py ("each_flow_at_its_snapshot_numeraire"): what a row calls  *)
(* the discounted P&L so far is its equity less the initial cash and every *)
(* capital movement, each at the account value of its own snapshot in the  *)
(* history of this run.                                                    *)
DiscountedAtOwnAccount ==
  phase = "idle" =>
    \A i \in 1..Len(history) :
      LET row  == st.ledger[i]
          paid == SumOver(LAMBDA s : Discounted(SumFunction(s.flows), s.numeraire),
                          SubSeq(history, 1, i))
      IN  row.discounted.cumulative
            = Discounted(row.equity, history[i].numeraire)
                - Discounted(InitialCash, history[1].numeraire) - paid

(* However often it stopped and restarted, a run has booked the history    *)
(* it was given, each day and each capital movement of it once.            *)
HistoryBookedOnce ==
  /\ CapitalBookedOnce
  /\ LedgerMatchesHistory
  /\ DiscountedAtOwnAccount
-----------------------------------------------------------------------------
(* Each snapshot commits atomically (snapshot_commit_policy                *)
(* "atomic_snapshot_v1"): seen through the savepoint, the steps inside a   *)
(* snapshot are invisible, whatever they append to the tables or do to the *)
(* pending order.                                                          *)
Visible == IF phase = "idle" THEN st ELSE Rollback(st, saved)

Atomic == INSTANCE AtomicReplay WITH
            visible <- Visible,
            results <- {cp.state : cp \in checkpoints}

CommitsAtomically == Atomic!Spec

(* A started run ends: every snapshot is committed or fails, no step of    *)
(* process_snapshot can be the last one.                                   *)
RunEnds == (status = "running") ~> (status # "running")
=============================================================================
