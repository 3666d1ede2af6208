--------------------------- MODULE SnapshotReplay ---------------------------
(***************************************************************************)
(* The daily replay of engine.py: run_backtest walks a schedule of market  *)
(* snapshots; process_snapshot mutates one state in place, step by step,   *)
(* and any expected error rolls the state back to the savepoint taken      *)
(* before the snapshot.  A run may stop early, fail or be lost; a later    *)
(* run starts afresh or from any checkpoint an earlier result carried.     *)
(*                                                                         *)
(* The history is chosen as it is read: the entries behind the processed   *)
(* prefix are free, and a later run may be given corrected ones.           *)
(***************************************************************************)
EXTENDS ReplayAccounts

CONSTANT MaxRuns  \* bound: runs of the program in one behaviour

ASSUME RunsAssumption == MaxRuns \in Nat \ {0}

VARIABLES
  st,           \* the replay state that process_snapshot mutates
  saved,        \* the savepoint of the snapshot in progress
  phase,        \* where process_snapshot is; "idle" between snapshots
  basket,       \* the order whose rows execute() is filling
  history,      \* the snapshots read so far, the one in progress included
  limit,        \* last snapshot of this run (stop_after or the schedule's end)
  status,       \* "running", "stopped" or "failed"
  checkpoints,  \* every checkpoint a result has carried
  runs          \* number of runs started

vars == <<st, saved, phase, basket, history, limit, status, checkpoints, runs>>
-----------------------------------------------------------------------------
Today == At[st.next]
Now == history[st.next]
Final == st.next = Horizon

Expired(c) == Expiry[c] <= Today
-----------------------------------------------------------------------------
(* A run of the program.                                                   *)

NoBasket == [order |-> 0, rows |-> {}, want |-> [id \in Instruments |-> 0]]

Checkpoint(s, read) == [state |-> s, prefix |-> SubSeq(read, 1, s.next - 1)]

Init ==
  /\ st = EntryState
  /\ st.cash >= CashFloor
  /\ saved = Savepoint(st)
  /\ phase = "idle"
  /\ basket = NoBasket
  /\ history = <<>>
  /\ limit \in 1..Horizon
  /\ status = "running"
  /\ checkpoints = {Checkpoint(EntryState, <<>>)}
  /\ runs = 1

(* The processed part of a history a caller may supply for a new run.      *)
SuppliedPrefixes(n) ==
  {h \in [1..n -> UNION {SnapshotsAt[i] : i \in 1..Horizon}] :
     \A i \in 1..n : h[i] \in SnapshotsAt[i]}

(* Mutant: resumes whatever the processed history was.                     *)
MutStartRun(cp, supplied, stop) ==
  /\ runs < MaxRuns
  /\ stop >= cp.state.next \/ stop = Horizon
  /\ st' = cp.state /\ history' = supplied /\ limit' = stop
  /\ status' = "running" /\ phase' = "idle"
  /\ saved' = Savepoint(cp.state) /\ basket' = NoBasket
  /\ runs' = runs + 1
  /\ UNCHANGED checkpoints

(* A new run from a checkpoint (the first one is a run without one).  The  *)
(* run before it may have ended, or have been lost at any point.           *)
StartRun(cp, supplied, stop) ==
  /\ runs < MaxRuns
  /\ supplied = cp.prefix           \* else checkpoint_mismatch
  /\ stop >= cp.state.next \/ stop = Horizon   \* else invalid_stop
  /\ st' = cp.state
  /\ history' = supplied
  /\ limit' = stop
  /\ status' = "running"
  /\ phase' = "idle"
  /\ saved' = Savepoint(cp.state)
  /\ basket' = NoBasket
  /\ runs' = runs + 1
  /\ UNCHANGED checkpoints

(* Mutant: a run that was asked to stop early waits for the last snapshot. *)
MutFinishRun ==
  /\ status = "running" /\ phase = "idle" /\ st.next > Horizon
  /\ status' = "stopped"
  /\ checkpoints' = checkpoints \union {Checkpoint(st, history)}
  /\ UNCHANGED <<st, saved, phase, basket, history, limit, runs>>

(* The loop is over: the result is "completed" or "partial".               *)
FinishRun ==
  /\ status = "running" /\ phase = "idle" /\ st.next > limit
  /\ status' = "stopped"
  /\ checkpoints' = checkpoints \union {Checkpoint(st, history)}
  /\ UNCHANGED <<st, saved, phase, basket, history, limit, runs>>

(* Mutant: keeps the failed snapshot as if it had been processed.          *)
MutFailSnapshot ==
  /\ phase # "idle"
  /\ st' = Rollback(st, saved) /\ phase' = "idle" /\ basket' = NoBasket
  /\ status' = "failed"
  /\ checkpoints' = checkpoints \union {Checkpoint(Rollback(st, saved), history)}
  /\ UNCHANGED <<saved, history, limit, runs>>

(* An expected error anywhere in the snapshot: missing, stale or future    *)
(* market data, a provider error, a failed requirement below.              *)
FailSnapshot ==
  /\ phase # "idle"
  /\ st' = Rollback(st, saved)
  /\ phase' = "idle"
  /\ basket' = NoBasket
  /\ history' = SubSeq(history, 1, Len(history) - 1)
  /\ status' = "failed"
  /\ checkpoints' = checkpoints \union {Checkpoint(Rollback(st, saved), history)}
  /\ UNCHANGED <<saved, limit, runs>>
-----------------------------------------------------------------------------
(* The steps of process_snapshot, in their order.                          *)

Step(from, to) == phase = from /\ phase' = to
Frame == UNCHANGED <<saved, history, limit, status, checkpoints, runs>>

(* Mutant: takes one savepoint per run, not one per snapshot.              *)
MutBeginSnapshot ==
  /\ status = "running" /\ st.next <= limit
  /\ Step("idle", "validate")
  /\ \E s \in SnapshotsAt[st.next] : history' = Append(history, s)
  /\ UNCHANGED <<st, saved, basket, limit, status, checkpoints, runs>>

BeginSnapshot ==
  /\ status = "running" /\ st.next <= limit
  /\ Step("idle", "validate")
  /\ \E s \in SnapshotsAt[st.next] : history' = Append(history, s)
  /\ saved' = Savepoint(st)
  /\ UNCHANGED <<st, basket, limit, status, checkpoints, runs>>

(* Capital IDs are unique over the whole run.                              *)
Validate ==
  /\ Step("validate", "carry")
  /\ DOMAIN Now.flows \intersect st.flowIds = {}
  /\ UNCHANGED <<st, basket>> /\ Frame

(* Carry at the previous snapshot's rates.                                 *)
Carry ==
  /\ Step("carry", "capital")
  /\ st' = IF st.next = 1 THEN st
           ELSE Carried(st, history[st.next - 1], Now, Today - At[st.next - 1])
  /\ UNCHANGED basket /\ Frame

Capital ==
  /\ Step("capital", "fix")
  /\ st' = CapitalBooked(st, Now.flows)
  /\ UNCHANGED basket /\ Frame

ToFix(group) == {c \in Contracts : Held(st, <<group, c>>) # 0 /\ Expired(c)}

(* An expiring holding becomes a claim; an expiry that fell between two    *)
(* snapshots is an error (missing_settlement).                             *)
FixHolding(group, c) ==
  /\ Step("fix", "fix")
  /\ c \in ToFix(group)
  /\ group = "hedges" => ToFix("targets") = {}
  /\ Expiry[c] = Today
  /\ LET amount == Held(st, <<group, c>>) * Payoff(c, Now)
     IN  st' = Fixed(st, <<group, c>>, amount, amount # 0 \/ PaymentDay[c] = Today)
  /\ UNCHANGED basket /\ Frame

FixingDone ==
  /\ Step("fix", "pay")
  /\ ToFix("targets") = {} /\ ToFix("hedges") = {}
  /\ UNCHANGED <<st, basket>> /\ Frame

(* Mutant: looks for the claims that are due on this very date.            *)
MutDue == {claim \in st.receivables : PaymentDay[claim.slot[2]] = Today}

Due == {claim \in st.receivables : PaymentDay[claim.slot[2]] <= Today}

PayDueClaim(claim) ==
  /\ Step("pay", "pay")
  /\ claim \in Due
  /\ claim.slot[1] = "hedges" => \A d \in Due : d.slot[1] = "hedges"
  /\ PaymentDay[claim.slot[2]] = Today   \* else missing_payment_snapshot
  /\ st' = Paid(st, claim)
  /\ UNCHANGED basket /\ Frame

PaymentsDone ==
  /\ Step("pay", "execute")
  /\ Due = {}
  /\ st.cash >= CashFloor                \* else cash_limit
  /\ UNCHANGED <<st, basket>> /\ Frame

NoPendingOrder ==
  /\ Step("execute", "liquidate")
  /\ st.pending = 0
  /\ UNCHANGED <<st, basket>> /\ Frame

Wanted(k) == st.orders[k].want

(* The pending order would break the cash floor or the gross cap.          *)
RejectPending ==
  /\ Step("execute", "liquidate")
  /\ st.pending # 0
  /\ LET want == Wanted(st.pending)
     IN  \/ /\ ~WithinCash(st, Now, want)
            /\ st' = [Resolved(st, st.pending, "rejected_cash_limit") EXCEPT !.pending = 0]
         \/ /\ WithinCash(st, Now, want) /\ ~WithinGross(st, Now, want)
            /\ st' = [Resolved(st, st.pending, "rejected_gross_limit") EXCEPT !.pending = 0]
  /\ UNCHANGED basket /\ Frame

AcceptPending ==
  /\ Step("execute", "fill")
  /\ st.pending # 0
  /\ WithinCash(st, Now, Wanted(st.pending))
  /\ WithinGross(st, Now, Wanted(st.pending))
  /\ basket' = [order |-> st.pending, rows |-> Rows(st, Wanted(st.pending)),
                want |-> Wanted(st.pending)]
  /\ UNCHANGED st /\ Frame

(* The precommitted liquidation of the last snapshot may not be rejected.  *)
LiquidationOrder ==
  [decided |-> st.next, kind |-> "liquidation", status |-> "pending", fillAt |-> 0,
   want |-> [id \in Instruments |-> 0]]

StartLiquidation ==
  /\ Step("liquidate", "fill")
  /\ Final /\ Liquidates
  /\ WithinCash(st, Now, LiquidationOrder.want)
  /\ WithinGross(st, Now, LiquidationOrder.want)
  /\ st' = [st EXCEPT !.orders = Append(@, LiquidationOrder)]
  /\ basket' = [order |-> Len(st.orders) + 1, want |-> LiquidationOrder.want,
                rows |-> Rows(st, LiquidationOrder.want)]
  /\ Frame

NoLiquidation ==
  /\ Step("liquidate", "mark")
  /\ ~(Final /\ Liquidates)
  /\ UNCHANGED <<st, basket>> /\ Frame

(* One row of the basket, the spot last.                                   *)
FillRow(id) ==
  /\ Step("fill", "fill")
  /\ id \in basket.rows
  /\ id = Spot => basket.rows = {Spot}
  /\ st' = Filled(st, Now, id, ChangeOf(st, basket.want, id))
  /\ basket' = [basket EXCEPT !.rows = @ \ {id}]
  /\ Frame

BasketFilled ==
  /\ phase = "fill" /\ basket.rows = {}
  /\ LET s1 == Resolved(st, basket.order, "filled")
     IN  IF st.orders[basket.order].kind = "rebalance"
           THEN /\ st' = [s1 EXCEPT !.pending = 0]
                /\ phase' = "liquidate"
           ELSE /\ st' = s1
                /\ phase' = "mark"
  /\ basket' = NoBasket
  /\ Frame

(* The first snapshot of the history fixes what the initial cash is worth. *)
NewRow == LedgerRow(st, Now, history[1].numeraire, saved)

(* Mutant: checks the gross cap at the execution of orders only.           *)
MutMark ==
  /\ Step("mark", "decide")
  /\ Reconciled(st, Now, NewRow, saved)
  /\ st' = [st EXCEPT !.ledger = Append(@, NewRow)]
  /\ UNCHANGED basket /\ Frame

Mark ==
  /\ Step("mark", "decide")
  /\ Constrained => Gross(st, Now, st.hedges, st.stock) <= GrossLimit
  /\ Reconciled(st, Now, NewRow, saved)
  /\ st' = [st EXCEPT !.ledger = Append(@, NewRow)]
  /\ UNCHANGED basket /\ Frame
-----------------------------------------------------------------------------
(* The decision: any solution within the position and trade limits, to the *)
(* lot, for any subset of the tradeable contracts.                         *)

(* round_lot: noise is snapped to the lot, a fraction is cut toward zero,  *)
(* and the result is moved to the nearest lot inside the bounds.           *)
Units(value) ==
  LET nearest == (2 * value + LotUnit) \div (2 * LotUnit)
  IN  IF Magnitude(value - nearest * LotUnit) <= Noise THEN nearest
      ELSE SignOf(value) * (Magnitude(value) \div LotUnit)

RoundLot(value, lower, upper) ==
  LET lo == -((Noise - lower) \div LotUnit)
      hi == (upper + Noise) \div LotUnit
      atLeast == IF Units(value) < lo THEN lo ELSE Units(value)
  IN  IF atLeast > hi THEN hi ELSE atLeast

Larger(a, b) == IF a >= b THEN a ELSE b

(* The solver stays within the bounds, which need not be multiples of lots.*)
Box(old, position, trade) ==
  LET lower == Larger(IF AllowShorts THEN -position ELSE 0, old * LotUnit - trade)
      upper == Smaller(position, old * LotUnit + trade)
  IN  {RoundLot(value, lower, upper) : value \in lower..upper}

Tradeable(c) == c \in Hedgeable /\ ListedOn[c] <= Today /\ ~Expired(c)

Desired ==
  LET choices ==
        [id \in Instruments |->
           {Held(st, HedgeSlot(id))}
             \union (IF id = Spot THEN Box(st.stock, StockLimit, StockTradeLimit)
                     ELSE IF Tradeable(id)
                       THEN Box(st.hedges[id], OptionLimit, OptionTradeLimit) ELSE {})]
  IN  {want \in [Instruments -> UNION {choices[id] : id \in Instruments}] :
         \A id \in Instruments : want[id] \in choices[id]}

Rebalances == ~Final /\ (st.next - 1) % RebalanceEvery = 0

DecidedOrder(want) ==
  [decided |-> st.next, kind |-> "rebalance", status |-> "pending", fillAt |-> 0,
   want |-> want]

Decide ==
  /\ Step("decide", "commit")
  /\ Rebalances
  /\ \E want \in Desired :
       /\ Constrained => WithinCash(st, Now, want) /\ WithinGross(st, Now, want)
       /\ st' = [st EXCEPT !.orders  = Append(@, DecidedOrder(want)),
                          !.pending = Len(st.orders) + 1]
  /\ UNCHANGED basket /\ Frame

NoDecision ==
  /\ Step("decide", "commit")
  /\ ~Rebalances
  /\ UNCHANGED <<st, basket>> /\ Frame

Commit ==
  /\ Step("commit", "idle")
  /\ st' = [st EXCEPT !.next = @ + 1]
  /\ UNCHANGED basket /\ Frame

ProcessSnapshot ==
  \/ Validate \/ Carry \/ Capital
  \/ \E g \in HoldingGroups, c \in Contracts : FixHolding(g, c)
  \/ FixingDone
  \/ \E claim \in st.receivables : PayDueClaim(claim)
  \/ PaymentsDone
  \/ NoPendingOrder \/ RejectPending \/ AcceptPending
  \/ StartLiquidation \/ NoLiquidation
  \/ \E id \in Instruments : FillRow(id)
  \/ BasketFilled \/ Mark
  \/ Decide \/ NoDecision \/ Commit

Proceed ==
  \/ BeginSnapshot \/ ProcessSnapshot \/ FailSnapshot \/ FinishRun

Restart ==
  \E cp \in checkpoints, stop \in 1..Horizon :
    \E supplied \in SuppliedPrefixes(Len(cp.prefix)) : StartRun(cp, supplied, stop)

Next == Proceed \/ Restart

Spec == Init /\ [][Next]_vars
FairSpec == Spec /\ WF_vars(Proceed)
=============================================================================
