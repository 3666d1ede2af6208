---------------------------- MODULE LedgerProofs ----------------------------
(***************************************************************************)
(* What every ledger of a replay shows.  First, its cash is explained by   *)
(* what was booked, every claim is fixed, and then paid, once and on its   *)
(* day, the history it was given is booked once; an order lives for one    *)
(* snapshot, what fills is what was decided, a liquidation leaves no       *)
(* hedge, and what a snapshot commits is within the limits of the          *)
(* decisions.                                                              *)
(*                                                                         *)
(* Then, the accounts reconcile.  Three arguments, each an invariant of    *)
(* its own: the cash of a state is what it started with, plus what was     *)
(* booked as income, less what the entries and the fills cost, and the     *)
(* cost book has the positions and claims that the state has; the last     *)
(* ledger row of a state splits its equity; and what a group of the book   *)
(* has earned, less what its positions and claims cost, is what the group  *)
(* was paid less what it traded at mid.                                    *)
(***************************************************************************)
EXTENDS ReplayProofs

-----------------------------------------------------------------------------
(* The states of a replay: the one in progress, and those that a rollback  *)
(* or a later run may return to.                                           *)

Seen == {Visible} \union {cp.state : cp \in checkpoints}
Known == {st} \union Seen

(* Only the steps of a snapshot make a new state, and only its commit      *)
(* makes one visible.                                                      *)
LEMMA NewStates ==
  ASSUME ReplayInv, [Next]_vars
  PROVE  /\ ReplayInv'
         /\ ProcessSnapshot \/ st' \in Known
         /\ Commit \/ Seen' \subseteq Seen
         /\ Commit => Seen' \subseteq Seen \union {st'}
         /\ Known' \subseteq Known \union {st'}
<1> DEFINE carried == {cp.state : cp \in checkpoints}
<1>0. ReplayInv' /\ Seen = {Visible} \union carried /\ Known = {st} \union Seen
  BY ReplayStep DEF Seen, Known
<1>1. Known' = {st'} \union Seen'
  BY DEF Known
<1>4. Commit => Visible' = st' /\ checkpoints' = checkpoints
  BY CommitStep
<1>2. /\ Visible' \in Seen \/ Commit
      /\ carried' \subseteq Seen \union {st'} /\ (carried' \subseteq Seen \/ Commit)
      /\ ProcessSnapshot \/ st' \in Known
  <2>1. CASE BeginSnapshot
    BY <1>0, <2>1, BeginStep DEF Seen, Known
  <2>2. CASE ProcessSnapshot /\ ~Commit
    <3>1. Visible' = Visible /\ checkpoints' = checkpoints
      BY <2>2, InnerStep DEF Frame
    <3> QED
      BY <1>0, <2>2, <3>1
  <2>3. CASE Commit
    <3>1. Visible' = st' /\ checkpoints' = checkpoints
      BY <2>3, CommitStep
    <3> QED
      BY <1>0, <2>3, <3>1 DEF ProcessSnapshot
  <2>4. CASE FailSnapshot
    <3>1. st' = Visible /\ Visible' = Visible
          /\ checkpoints' = checkpoints \union {Checkpoint(Visible, history)}
      BY <2>4, FailStep
    <3>2. Checkpoint(Visible, history).state = Visible
      BY DEF Checkpoint
    <3> HIDE DEF Checkpoint
    <3> QED
      BY <1>0, <2>4, <3>1, <3>2
  <2>5. CASE FinishRun
    <3>1. st' = st /\ Visible' = st /\ Visible = st
          /\ checkpoints' = checkpoints \union {Checkpoint(st, history)}
      BY <2>5, FinishStep
    <3>2. Checkpoint(st, history).state = Visible
      BY <3>1 DEF Checkpoint
    <3> QED
      BY <1>0, <2>5, <3>1, <3>2
  <2>6. CASE Restart
    <3>1. PICK cp \in checkpoints : /\ st' = cp.state /\ Visible' = cp.state
                                    /\ checkpoints' = checkpoints
      BY <2>6, StartStep DEF Restart
    <3> QED
      BY <1>0, <2>6, <3>1
  <2>7. CASE UNCHANGED vars
    <3>1. Visible' = Visible /\ checkpoints' = checkpoints /\ st' = st
      BY <2>7 DEF vars, Visible
    <3> QED
      BY <1>0, <2>7, <3>1
  <2> QED
    BY <2>1, <2>2, <2>3, <2>4, <2>5, <2>6, <2>7 DEF Next, Proceed
<1>3. Seen' = {Visible'} \union carried'
  BY DEF Seen
<1> QED
  BY <1>0, <1>1, <1>2, <1>3, <1>4

(* All of them have the shape of a state.                                  *)
LEMMA KnownAreStates ==
  ASSUME ReplayInv
  PROVE  /\ \A s \in Known : IsState(s)
         /\ \A s \in Seen : \E h : IsCommitted(s, h)
         /\ phase = "idle" => Visible = st
<1>1. \A s \in Seen : \E h : IsCommitted(s, h)
  <2>1. \E h : IsCommitted(Visible, h)
    <3>1. CASE phase = "idle"
      BY <3>1 DEF ReplayInv, Visible
    <3>2. CASE phase # "idle"
      BY <3>2 DEF ReplayInv, InSnapshot
    <3> QED
      BY <3>1, <3>2
  <2>2. \A cp \in checkpoints : IsCommitted(cp.state, cp.prefix)
    BY DEF ReplayInv
  <2> QED
    BY <2>1, <2>2 DEF Seen
<1>2. IsState(st)
  BY PendingInRange
<1> QED
  BY <1>1, <1>2 DEF Known, IsCommitted, Visible

LEMMA NextIsState == ReplayInv' => IsState(st')
<1> SUFFICES ASSUME ReplayInv' PROVE IsState(st')
  OBVIOUS
<1>1. CASE phase' = "idle"
  BY <1>1 DEF ReplayInv, IsCommitted
<1>2. CASE phase' # "idle"
  <2>1. InSnapshot(Visible', phase', st', basket', history')
    BY <1>2 DEF ReplayInv
  <2> QED
    BY <2>1 DEF InSnapshot
<1> QED
  BY <1>1, <1>2

LEMMA InitStates == Init => Known = {EntryState} /\ Seen = {EntryState}
<1> SUFFICES ASSUME Init PROVE Known = {EntryState} /\ Seen = {EntryState}
  OBVIOUS
<1>1. st = EntryState /\ Visible = EntryState /\ checkpoints = {Checkpoint(EntryState, <<>>)}
  BY DEF Init, Visible
<1>2. Checkpoint(EntryState, <<>>).state = EntryState
  BY DEF Checkpoint
<1> HIDE DEF Checkpoint
<1> QED
  BY <1>1, <1>2 DEF Known, Seen

(* The steps that only touch the orders, the ledger or the date.           *)
Quiet(r, s) ==
  SameClaims(r, s) /\ SameCash(r, s) /\ SameHoldings(r, s) /\ r.fills = s.fills

QuietStep ==
  \/ Validate \/ FixingDone \/ PaymentsDone
  \/ NoPendingOrder \/ RejectPending \/ AcceptPending
  \/ StartLiquidation \/ NoLiquidation
  \/ BasketFilled \/ Mark \/ Decide \/ NoDecision \/ Commit

LEMMA QuietStepsAre ==
  ASSUME ReplayInv, QuietStep
  PROVE  Quiet(st', st)
<1>1. CASE Validate \/ FixingDone \/ PaymentsDone \/ NoPendingOrder \/ AcceptPending
           \/ NoLiquidation \/ NoDecision
  <2>1. st' = st
    BY <1>1 DEF Validate, FixingDone, PaymentsDone, NoPendingOrder, AcceptPending,
                NoLiquidation, NoDecision
  <2> QED
    BY <2>1 DEF Quiet, SameClaims, SameCash, SameHoldings
<1>2. CASE RejectPending
  BY <1>2, RejectStep DEF Quiet, SameButOrders
<1>3. CASE StartLiquidation
  BY <1>3, LiquidationStep DEF Quiet, SameButOrders
<1>4. CASE BasketFilled
  BY <1>4, BasketStep DEF Quiet, SameButOrders
<1>5. CASE Mark
  BY <1>5, MarkStep DEF Quiet, IsMarked
<1>6. CASE Decide
  BY <1>6, DecideStep DEF Quiet, SameButOrders
<1>7. CASE Commit
  BY <1>7, CommitStep DEF Quiet
<1> QED
  BY <1>1, <1>2, <1>3, <1>4, <1>5, <1>6, <1>7 DEF QuietStep

(* What the steps of a snapshot can do.                                    *)
LEMMA StepKinds ==
  ASSUME ReplayInv, ProcessSnapshot
  PROVE  \/ Carry \/ Capital \/ QuietStep
         \/ \E g \in HoldingGroups, c \in Contracts : FixHolding(g, c)
         \/ \E claim \in st.receivables : PayDueClaim(claim)
         \/ \E id \in Instruments : FillRow(id)
  BY DEF ProcessSnapshot, QuietStep
-----------------------------------------------------------------------------
(* What the steps book, with the types of what they book it from.          *)

LEMMA CarryIs ==
  ASSUME ReplayInv, Carry
  PROVE  /\ st \in StateSet(RowsOf(st))
         /\ \/ st' = st
            \/ \E previous, now \in Market, days \in Int : st' = Carried(st, previous, now, days)
<1>1. InSnapshot(Visible, "carry", st, basket, history)
  BY DEF Carry, Step, ReplayInv
<1>2. st \in StateSet(RowsOf(st))
  BY KnownAreStates DEF Known, IsState
<1>3. CASE st.next = 1
  BY <1>2, <1>3 DEF Carry
<1>4. CASE st.next # 1
  <2> DEFINE days == Today - At[st.next - 1]
             previous == history[st.next - 1]
  <2>1. st.next \in 1..Horizon /\ \A i \in 1..st.next : history[i] \in Market /\ At[i] \in Int
    BY <1>1, TodaysMarket
  <2>2. st.next - 1 \in 1..st.next /\ st.next \in 1..st.next
    BY <1>4, <2>1
  <2>3. previous \in Market /\ Now \in Market /\ days \in Int
    BY <2>1, <2>2 DEF Now, Today
  <2>4. st' = Carried(st, previous, Now, days)
    BY <1>4 DEF Carry
  <2> HIDE DEF days, previous
  <2> QED
    BY <1>2, <2>3, <2>4
<1> QED
  BY <1>3, <1>4

LEMMA FixIs ==
  ASSUME ReplayInv, NEW g \in HoldingGroups, NEW c \in Contracts, FixHolding(g, c)
  PROVE  /\ st \in StateSet(RowsOf(st)) /\ Held(st, <<g, c>>) # 0
         /\ \E amount \in Int, keep \in BOOLEAN :
              (amount # 0 => keep) /\ st' = Fixed(st, <<g, c>>, amount, keep)
<1> DEFINE slot == <<g, c>>
           amount == Held(st, slot) * Payoff(c, Now)
           keep == amount # 0 \/ PaymentDay[c] = Today
<1>1. /\ InSnapshot(Visible, "fix", st, basket, history) /\ st' = Fixed(st, slot, amount, keep)
      /\ Held(st, slot) # 0
  BY DEF FixHolding, ToFix, Step, ReplayInv
<1>2. IsState(st) /\ st \in StateSet(RowsOf(st)) /\ Now \in Market
  BY <1>1, TodaysMarket DEF Now, IsState
<1>3. amount \in Int
  <2>1. Held(st, slot) \in Int
    BY <1>2 DEF Held, IsState, StateSet
  <2>2. Payoff(c, Now) \in Int
    BY <1>2, MarketAssumption, ContractAssumption DEF Payoff, Market, Instruments
  <2> QED
    BY <2>1, <2>2
<1>4. keep \in BOOLEAN /\ (amount # 0 => keep)
  OBVIOUS
<1> HIDE DEF amount, keep
<1>5. PICK k \in BOOLEAN : k = keep
  BY <1>4
<1> QED
  BY <1>1, <1>2, <1>3, <1>4, <1>5

LEMMA FillIs ==
  ASSUME ReplayInv, NEW id \in Instruments, FillRow(id)
  PROVE  /\ st \in StateSet(RowsOf(st)) /\ Now \in Market /\ ChangeOf(st, basket.want, id) \in Int
         /\ st' = Filled(st, Now, id, ChangeOf(st, basket.want, id))
         /\ phase = "fill" /\ id \in basket.rows
<1>1. /\ InSnapshot(Visible, "fill", st, basket, history)
      /\ st' = Filled(st, Now, id, ChangeOf(st, basket.want, id))
      /\ phase = "fill" /\ id \in basket.rows
  BY DEF FillRow, Step, ReplayInv
<1>2. st \in StateSet(RowsOf(st)) /\ Now \in Market
  BY <1>1, TodaysMarket DEF Now, IsState
<1>3. ChangeOf(st, basket.want, id) \in Int
  <2>1. Held(st, HedgeSlot(id)) \in Int
    BY <1>2 DEF Held, HedgeSlot, StateSet, Instruments
  <2>2. IsBasket(basket)
    BY <1>1 DEF InSnapshot
  <2> QED
    BY <2>1, <2>2 DEF IsBasket, ChangeOf
<1> QED
  BY <1>1, <1>2, <1>3

-----------------------------------------------------------------------------
(* The ledger is self-financing.                                           *)

Explained(s) == s.cash = InitialCash + CashSum(s)

CashInv == ReplayInv /\ \A s \in Known : Explained(s)

LEMMA SameCashGrows ==
  ASSUME ReplayInv, SameCash(st', st)
  PROVE  GrowsCash(st', st)
<1>1. CashSum(st) \in Int /\ st.cash \in Int /\ Len(st.cashflows) \in Nat
  BY KnownAreStates, TableTypes, CashSumType DEF Known
<1>2. CashSum(st') = CashSum(st)
  BY DEF SameCash, CashSum
<1> QED
  BY <1>1, <1>2 DEF SameCash, GrowsCash

(* Whatever a step books moves the cash by as much.                        *)
LEMMA CashMoves ==
  ASSUME ReplayInv, ProcessSnapshot
  PROVE  GrowsCash(st', st)
<1>1. CASE Carry
  BY <1>1, CarryStep DEF OnlyBooked
<1>2. CASE Capital
  BY <1>2, CapitalStep DEF OnlyBooked
<1>3. CASE \E g \in HoldingGroups, c \in Contracts : FixHolding(g, c)
  <2>1. PICK g \in HoldingGroups, c \in Contracts : FixHolding(g, c)
    BY <1>3
  <2>2. SameCash(st', st)
    BY <2>1, FixStep DEF IsFixed
  <2> QED
    BY <2>2, SameCashGrows
<1>4. CASE \E claim \in st.receivables : PayDueClaim(claim)
  BY <1>4, PayStep DEF IsPaid
<1>5. CASE \E id \in Instruments : FillRow(id)
  BY <1>5, FillStep DEF IsFilled
<1>6. CASE QuietStep
  BY <1>6, QuietStepsAre, SameCashGrows DEF Quiet
<1> QED
  BY <1>1, <1>2, <1>3, <1>4, <1>5, <1>6, StepKinds

LEMMA CashStep ==
  ASSUME CashInv, [Next]_vars
  PROVE  CashInv'
<1>1. /\ ReplayInv' /\ Known' \subseteq Known \union {st'}
      /\ ProcessSnapshot \/ st' \in Known
  BY NewStates DEF CashInv
<1>2. Explained(st')
  <2>1. CASE st' \in Known
    BY <2>1 DEF CashInv
  <2>2. CASE ProcessSnapshot
    <3>1. GrowsCash(st', st)
      BY <2>2, CashMoves DEF CashInv
    <3>2. IsState(st) /\ Explained(st)
      BY KnownAreStates DEF CashInv, Known
    <3>3. IsState(st')
      BY <1>1, NextIsState
    <3>4. /\ st'.cash \in Int /\ st.cash \in Int
          /\ CashSum(st') \in Int /\ CashSum(st) \in Int
      BY <3>2, <3>3, TableTypes, CashSumType
    <3> QED
      BY <3>1, <3>2, <3>4, CashKept DEF Explained
  <2> QED
    BY <1>1, <2>1, <2>2
<1>3. \A s \in Known' : Explained(s)
  BY <1>1, <1>2 DEF CashInv
<1>4. (\A s \in Known : Explained(s))'
  BY <1>3
<1> QED
  BY <1>1, <1>4 DEF CashInv

LEMMA CashInit == Init => CashInv
<1> SUFFICES ASSUME Init PROVE CashInv
  OBVIOUS
<1>1. Explained(EntryState)
  BY EntryIs DEF Unprocessed, Explained
<1> QED
  BY <1>1, InitStep, InitStates DEF CashInv

(* Cash is the initial cash plus every booked cashflow, in the middle of a *)
(* basket and after a rollback or a resumed run too.                       *)
THEOREM LedgerFinancesItself == Spec => []SelfFinancing
<1>1. CashInv => SelfFinancing
  BY DEF CashInv, Known, Explained, SelfFinancing, CashSum
<1>2. CashInv /\ [Next]_vars => CashInv'
  BY CashStep
<1> QED
  BY <1>1, <1>2, CashInit, PTL DEF Spec
-----------------------------------------------------------------------------
(* Claims are fixed and paid once, and nothing is left overdue.            *)

(* The settlement rows of a holding: its fixing, then its payment.         *)
InOrder(rows) ==
  \A i, j \in 1..Len(rows) : i < j /\ rows[i].slot = rows[j].slot =>
    /\ rows[i].event # "paid" /\ rows[j].event = "paid"
    /\ rows[i].amount = rows[j].amount

DayOf(row) == IF row.event = "paid" THEN PaymentDay[row.slot[2]] ELSE Expiry[row.slot[2]]

OnItsDay(row, n) == row.at \in 1..Horizon /\ row.at <= n /\ At[row.at] = DayOf(row)

(* A claim is outstanding from its fixing until it is paid.                *)
Backed(claim, rows) ==
  /\ \E i \in 1..Len(rows) : rows[i].slot = claim.slot /\ rows[i].amount = claim.amount
  /\ \A i \in 1..Len(rows) : rows[i].slot = claim.slot => rows[i].event # "paid"

PaidIn(slot, rows) == \E j \in 1..Len(rows) : rows[j].slot = slot /\ rows[j].event = "paid"

(* The settlements of a state at n agree with its holdings and claims.     *)
Orderly(s) ==
  LET rows == s.settlements
  IN  /\ InOrder(rows)
      /\ \A i \in 1..Len(rows) : OnItsDay(rows[i], s.next) /\ Held(s, rows[i].slot) = 0
      /\ \A claim \in s.receivables : Backed(claim, rows)
      /\ \A i \in 1..Len(rows) :
           \/ rows[i].amount = 0 \/ PaidIn(rows[i].slot, rows)
           \/ [slot |-> rows[i].slot, amount |-> rows[i].amount] \in s.receivables

NoneExpired(s, n) ==
  \A c \in Contracts, g \in HoldingGroups : Held(s, <<g, c>>) # 0 => Expiry[c] > At[n]

NoneDue(s, n) == \A claim \in s.receivables : PaymentDay[claim.slot[2]] > At[n]

Settled(s) == s.next > 1 => NoneExpired(s, s.next - 1) /\ NoneDue(s, s.next - 1)

Unexpired(rows, n) == \A id \in rows : id # Spot => Expiry[id] > At[n]

AfterPay == {"execute", "liquidate", "fill", "mark", "decide", "commit"}

ClaimsInv ==
  /\ \A s \in Known : Orderly(s)
  /\ \A s \in Seen : Settled(s)
  /\ phase \in AfterPay \union {"pay"} => NoneExpired(st, st.next)
  /\ phase \in AfterPay => NoneDue(st, st.next)
  /\ phase = "fill" => Unexpired(basket.rows, st.next)
-----------------------------------------------------------------------------
(* Booking, fixing, paying and filling keep the settlements in order.      *)

LEMMA DatesIncrease ==
  ASSUME NEW i \in 1..Horizon, NEW j \in 1..Horizon, i <= j
  PROVE  At[i] <= At[j] /\ At[i] \in Nat /\ At[j] \in Nat
  BY ScheduleAssumption DEF Horizon

LEMMA RowTypes ==
  ASSUME NEW s, IsState(s)
  PROVE  /\ s.settlements \in Seq(Settlement) /\ Len(s.settlements) \in Nat
         /\ \A i \in 1..Len(s.settlements) :
              /\ s.settlements[i] \in Settlement
              /\ s.settlements[i].slot \in HoldingGroups \X Contracts
              /\ s.settlements[i].amount \in Int
         /\ s.receivables \subseteq Claim
         /\ \A claim \in s.receivables : claim.slot \in HoldingGroups \X Contracts
                                         /\ claim = [slot |-> claim.slot, amount |-> claim.amount]
<1>1. s.settlements \in Seq(Settlement)
  BY TableTypes
<1>2. \A x \in Settlement : x.slot \in HoldingGroups \X Contracts /\ x.amount \in Int
  BY DEF Settlement
<1>3. s.receivables \subseteq Claim
  BY DEF IsState, StateSet
<1>4. \A x \in Claim : x.slot \in HoldingGroups \X Contracts
                       /\ x = [slot |-> x.slot, amount |-> x.amount]
  BY DEF Claim
<1> QED
  BY <1>1, <1>2, <1>3, <1>4

(* A settled contract has expired.                                         *)
LEMMA SettledHasExpired ==
  ASSUME NEW row \in Settlement, NEW n \in 1..Horizon, OnItsDay(row, n)
  PROVE  Expiry[row.slot[2]] <= At[n]
<1>1. row.slot[2] \in Contracts
  BY DEF Settlement
<1>2. Expiry[row.slot[2]] <= DayOf(row) /\ Expiry[row.slot[2]] \in Nat /\ DayOf(row) \in Nat
  BY <1>1, ContractAssumption DEF DayOf
<1>3. At[row.at] <= At[n] /\ At[row.at] \in Nat /\ At[n] \in Nat
  BY DatesIncrease DEF OnItsDay
<1> QED
  BY <1>2, <1>3 DEF OnItsDay

LEMMA SameIsOrderly ==
  ASSUME NEW s, NEW r, IsState(s), Orderly(s), SameClaims(r, s), SameHoldings(r, s),
         r.next \in Nat, s.next <= r.next
  PROVE  Orderly(r)
<1>1. s.next \in Nat
  BY TableTypes
<1>2. \A slot : Held(r, slot) = Held(s, slot)
  BY DEF Held, SameHoldings
<1>3. \A row : OnItsDay(row, s.next) => OnItsDay(row, r.next)
  BY <1>1, HorizonType DEF OnItsDay
<1> QED
  BY <1>2, <1>3 DEF Orderly, SameClaims

(* What a fixing leaves held.                                              *)
LEMMA HeldOnceFixed ==
  ASSUME NEW s, NEW r, IsState(s), NEW slot \in HoldingGroups \X Contracts, NEW amount,
         NEW keep, IsFixed(r, s, slot, amount, keep), NEW x \in HoldingGroups \X Contracts
  PROVE  /\ x = slot => Held(r, x) = 0
         /\ x # slot => Held(r, x) = Held(s, x)
<1>1. s.targets \in [Contracts -> Int] /\ s.hedges \in [Contracts -> Int]
  BY DEF IsState, StateSet
<1>2. /\ slot[1] = "targets" => r.targets = [s.targets EXCEPT ![slot[2]] = 0] /\ r.hedges = s.hedges
      /\ slot[1] # "targets" => r.targets = s.targets /\ r.hedges = [s.hedges EXCEPT ![slot[2]] = 0]
  BY DEF IsFixed
<1>3. /\ slot[1] \in {"targets", "hedges"} /\ slot[2] \in Contracts
      /\ x[1] \in {"targets", "hedges"} /\ x[2] \in Contracts
      /\ slot = <<slot[1], slot[2]>> /\ x = <<x[1], x[2]>>
  BY DEF HoldingGroups
<1>4. CASE x = slot
  BY <1>1, <1>2, <1>3, <1>4 DEF Held
<1>5. CASE x # slot
  <2>1. x[1] # slot[1] \/ x[2] # slot[2]
    BY <1>3, <1>5
  <2> QED
    BY <1>1, <1>2, <1>3, <1>5, <2>1 DEF Held
<1> QED
  BY <1>4, <1>5

LEMMA FixingIsOrderly ==
  ASSUME NEW s, NEW r, IsState(s), IsState(r), Orderly(s), s.next \in 1..Horizon,
         NEW slot \in HoldingGroups \X Contracts, NEW amount \in Int, NEW keep \in BOOLEAN,
         IsFixed(r, s, slot, amount, keep), Held(s, slot) # 0, At[s.next] = Expiry[slot[2]],
         amount # 0 => keep
  PROVE  Orderly(r)
<1> DEFINE rows == s.settlements
           N == Len(rows)
<1>1. PICK row \in Settlement : /\ r.settlements = Append(rows, row)
                                /\ row.at = s.next /\ row.slot = slot
                                /\ row.event # "paid" /\ row.amount = amount
  BY DEF IsFixed
<1>2. /\ rows \in Seq(Settlement) /\ N \in Nat /\ s.receivables \subseteq Claim
      /\ \A i \in 1..N : rows[i] \in Settlement /\ rows[i].slot \in HoldingGroups \X Contracts
  BY RowTypes
<1> DEFINE more == r.settlements
<1>3. /\ Len(more) = N + 1 /\ more[N + 1] = row
      /\ \A i \in 1..N : more[i] = rows[i]
  BY <1>1, <1>2, Appended
<1>4. /\ r.next = s.next
      /\ r.receivables = s.receivables \/ r.receivables = s.receivables \union {[slot |-> slot, amount |-> amount]}
      /\ amount # 0 => [slot |-> slot, amount |-> amount] \in r.receivables
  BY DEF IsFixed, SameRun
<1>5. /\ InOrder(rows) /\ \A i \in 1..N : OnItsDay(rows[i], s.next) /\ Held(s, rows[i].slot) = 0
      /\ \A claim \in s.receivables : Backed(claim, rows)
      /\ \A i \in 1..N :
           \/ rows[i].amount = 0 \/ PaidIn(rows[i].slot, rows)
           \/ [slot |-> rows[i].slot, amount |-> rows[i].amount] \in s.receivables
  BY DEF Orderly
<1>6. \A i \in 1..N : rows[i].slot # slot
  BY <1>5
<1> HIDE DEF rows, N, more
<1>7. \A i \in 1..N + 1 : i \in 1..N \/ i = N + 1
  BY <1>2
<1>8. InOrder(more)
  <2> SUFFICES ASSUME NEW i \in 1..Len(more), NEW j \in 1..Len(more), i < j, more[i].slot = more[j].slot
               PROVE  more[i].event # "paid" /\ more[j].event = "paid" /\ more[i].amount = more[j].amount
    BY DEF InOrder
  <2>1. i \in 1..N
    BY <1>2, <1>3
  <2>2. more[i] = rows[i]
    BY <1>3, <2>1
  <2>3. j # N + 1
    BY <1>1, <1>3, <1>6, <2>1, <2>2
  <2>4. j \in 1..N /\ more[j] = rows[j]
    BY <1>3, <1>7, <2>3
  <2> QED
    BY <1>5, <2>1, <2>2, <2>4 DEF InOrder, N
<1>9. ASSUME NEW i \in 1..N + 1 PROVE OnItsDay(more[i], r.next) /\ Held(r, more[i].slot) = 0
  <2>1. CASE i \in 1..N
    <3>1. Held(r, rows[i].slot) = Held(s, rows[i].slot)
      BY <1>2, <1>6, <2>1, HeldOnceFixed
    <3> QED
      BY <1>3, <1>4, <1>5, <2>1, <3>1
  <2>2. CASE i = N + 1
    <3>1. Held(r, slot) = 0
      BY HeldOnceFixed
    <3>2. OnItsDay(row, s.next)
      BY <1>1 DEF OnItsDay, DayOf
    <3> QED
      BY <1>1, <1>3, <1>4, <2>2, <3>1, <3>2
  <2> QED
    BY <1>7, <2>1, <2>2
<1>10. ASSUME NEW claim \in r.receivables PROVE Backed(claim, more)
  <2>1. CASE claim \in s.receivables
    <3>1. Backed(claim, rows)
      BY <1>5, <2>1
    <3>2. PICK i \in 1..N : rows[i].slot = claim.slot /\ rows[i].amount = claim.amount
      BY <3>1 DEF Backed, N
    <3>3. claim.slot # slot
      BY <1>6, <3>2
    <3>4. \A k \in 1..N : rows[k].slot = claim.slot => rows[k].event # "paid"
      BY <3>1 DEF Backed, N
    <3>5. i \in 1..N + 1
      BY <1>2
    <3> QED
      BY <1>1, <1>3, <1>7, <3>2, <3>3, <3>4, <3>5 DEF Backed
  <2>2. CASE claim = [slot |-> slot, amount |-> amount]
    <3>1. claim.slot = slot /\ claim.amount = amount /\ N + 1 \in 1..N + 1
      BY <1>2, <2>2
    <3> QED
      BY <1>1, <1>3, <1>6, <1>7, <3>1 DEF Backed
  <2> QED
    BY <1>4, <2>1, <2>2
<1>11. ASSUME NEW i \in 1..N + 1
       PROVE  \/ more[i].amount = 0 \/ PaidIn(more[i].slot, more)
              \/ [slot |-> more[i].slot, amount |-> more[i].amount] \in r.receivables
  <2>1. CASE i \in 1..N
    <3>1. PaidIn(rows[i].slot, rows) => PaidIn(rows[i].slot, more)
      BY <1>2, <1>3 DEF PaidIn, N
    <3> QED
      BY <1>3, <1>4, <1>5, <2>1, <3>1
  <2>2. CASE i = N + 1
    BY <1>1, <1>3, <1>4, <2>2
  <2> QED
    BY <1>7, <2>1, <2>2
<1>12. \A i \in 1..Len(more) : i \in 1..N + 1
  BY <1>3
<1> QED
  BY <1>8, <1>9, <1>10, <1>11, <1>12 DEF Orderly, more

LEMMA PaymentIsOrderly ==
  ASSUME NEW s, NEW r, IsState(s), IsState(r), Orderly(s), s.next \in 1..Horizon,
         NEW claim \in s.receivables, IsPaid(r, s, claim), At[s.next] = PaymentDay[claim.slot[2]]
  PROVE  Orderly(r)
<1> DEFINE rows == s.settlements
           N == Len(rows)
<1>1. PICK row \in Settlement : /\ r.settlements = Append(rows, row)
                                /\ row.at = s.next /\ row.slot = claim.slot
                                /\ row.event = "paid" /\ row.amount = claim.amount
  BY DEF IsPaid
<1>2. /\ rows \in Seq(Settlement) /\ N \in Nat
      /\ \A i \in 1..N : rows[i] \in Settlement
      /\ \A x \in s.receivables : x = [slot |-> x.slot, amount |-> x.amount]
  BY RowTypes
<1> DEFINE more == r.settlements
<1>3. /\ Len(more) = N + 1 /\ more[N + 1] = row
      /\ \A i \in 1..N : more[i] = rows[i]
  BY <1>1, <1>2, Appended
<1>4. r.next = s.next /\ r.receivables = s.receivables \ {claim} /\ SameHoldings(r, s)
  BY DEF IsPaid, SameRun
<1>5. /\ InOrder(rows) /\ \A i \in 1..N : OnItsDay(rows[i], s.next) /\ Held(s, rows[i].slot) = 0
      /\ \A x \in s.receivables : Backed(x, rows)
      /\ \A i \in 1..N :
           \/ rows[i].amount = 0 \/ PaidIn(rows[i].slot, rows)
           \/ [slot |-> rows[i].slot, amount |-> rows[i].amount] \in s.receivables
  BY DEF Orderly
<1> HIDE DEF rows, N, more
<1>6. PICK f \in 1..N : rows[f].slot = claim.slot /\ rows[f].amount = claim.amount
  BY <1>5 DEF Backed, N
<1>7. \A i \in 1..N : rows[i].slot = claim.slot => rows[i].event # "paid" /\ i = f
  <2>1. \A i \in 1..N : rows[i].slot = claim.slot => rows[i].event # "paid"
    BY <1>5 DEF Backed, N
  <2>2. ASSUME NEW i \in 1..N, rows[i].slot = claim.slot, i # f PROVE FALSE
    <3>1. i < f \/ f < i
      BY <1>2, <2>2
    <3> QED
      BY <1>5, <1>6, <2>1, <2>2, <3>1 DEF InOrder, N
  <2> QED
    BY <2>1, <2>2
<1>8. \A i \in 1..N + 1 : i \in 1..N \/ i = N + 1
  BY <1>2
<1>9. InOrder(more)
  <2> SUFFICES ASSUME NEW i \in 1..Len(more), NEW j \in 1..Len(more), i < j, more[i].slot = more[j].slot
               PROVE  more[i].event # "paid" /\ more[j].event = "paid" /\ more[i].amount = more[j].amount
    BY DEF InOrder
  <2>1. i \in 1..N
    BY <1>2, <1>3
  <2>2. more[i] = rows[i]
    BY <1>3, <2>1
  <2>3. CASE j \in 1..N
    <3>1. more[j] = rows[j]
      BY <1>3, <2>3
    <3> QED
      BY <1>5, <2>1, <2>2, <2>3, <3>1 DEF InOrder, N
  <2>4. CASE j = N + 1
    <3>1. rows[i].slot = claim.slot
      BY <1>1, <1>3, <2>2, <2>4
    <3> QED
      BY <1>1, <1>3, <1>6, <1>7, <2>1, <2>2, <2>4, <3>1
  <2> QED
    BY <1>3, <1>8, <2>3, <2>4
<1>10. ASSUME NEW i \in 1..N + 1 PROVE OnItsDay(more[i], r.next) /\ Held(r, more[i].slot) = 0
  <2>1. \A slot : Held(r, slot) = Held(s, slot)
    BY <1>4 DEF Held, SameHoldings
  <2>2. CASE i \in 1..N
    BY <1>3, <1>4, <1>5, <2>1, <2>2
  <2>3. CASE i = N + 1
    <3>1. Held(s, claim.slot) = 0
      BY <1>5, <1>6
    <3>2. OnItsDay(row, s.next)
      BY <1>1 DEF OnItsDay, DayOf
    <3> QED
      BY <1>1, <1>3, <1>4, <2>1, <2>3, <3>1, <3>2
  <2> QED
    BY <1>8, <2>2, <2>3
<1>11. ASSUME NEW x \in r.receivables PROVE Backed(x, more)
  <2>1. x \in s.receivables /\ x # claim
    BY <1>4
  <2>2. Backed(x, rows)
    BY <1>5, <2>1
  <2>3. PICK i \in 1..N : rows[i].slot = x.slot /\ rows[i].amount = x.amount
    BY <2>2 DEF Backed, N
  <2>4. x.slot # claim.slot
    BY <1>2, <1>6, <1>7, <2>1, <2>3
  <2>5. \A k \in 1..N : rows[k].slot = x.slot => rows[k].event # "paid"
    BY <2>2 DEF Backed, N
  <2>6. i \in 1..N + 1
    BY <1>2
  <2> QED
    BY <1>1, <1>3, <1>8, <2>3, <2>4, <2>5, <2>6 DEF Backed
<1>12. ASSUME NEW i \in 1..N + 1
       PROVE  \/ more[i].amount = 0 \/ PaidIn(more[i].slot, more)
              \/ [slot |-> more[i].slot, amount |-> more[i].amount] \in r.receivables
  <2>0. PaidIn(claim.slot, more)
    <3>1. N + 1 \in 1..N + 1
      BY <1>2
    <3> QED
      BY <1>1, <1>3, <3>1 DEF PaidIn
  <2>1. CASE i \in 1..N
    <3>1. PaidIn(rows[i].slot, rows) => PaidIn(rows[i].slot, more)
      BY <1>2, <1>3 DEF PaidIn, N
    <3>2. [slot |-> rows[i].slot, amount |-> rows[i].amount] = claim => rows[i].slot = claim.slot
      BY <1>2
    <3> QED
      BY <1>3, <1>4, <1>5, <2>0, <2>1, <3>1, <3>2
  <2>2. CASE i = N + 1
    BY <1>1, <1>3, <2>0, <2>2
  <2> QED
    BY <1>8, <2>1, <2>2
<1>13. \A i \in 1..Len(more) : i \in 1..N + 1
  BY <1>3
<1> QED
  BY <1>9, <1>10, <1>11, <1>12, <1>13 DEF Orderly, more

(* What a fill leaves held.                                                *)
LEMMA HeldOnceFilled ==
  ASSUME NEW s, NEW r, IsState(s), NEW id \in Instruments, NEW change, IsFilled(r, s, id, change),
         NEW x \in HoldingGroups \X Contracts
  PROVE  x # <<"hedges", id>> => Held(r, x) = Held(s, x)
<1>1. s.hedges \in [Contracts -> Int]
  BY DEF IsState, StateSet
<1>2. /\ r.targets = s.targets
      /\ id = Spot => r.hedges = s.hedges
      /\ id # Spot => r.hedges = [s.hedges EXCEPT ![id] = @ + change]
  BY DEF IsFilled
<1>3. x[1] \in {"targets", "hedges"} /\ x[2] \in Contracts /\ x = <<x[1], x[2]>>
  BY DEF HoldingGroups
<1> QED
  BY <1>1, <1>2, <1>3 DEF Held

LEMMA FillIsOrderly ==
  ASSUME NEW s, NEW r, IsState(s), IsState(r), Orderly(s), s.next \in 1..Horizon,
         NEW id \in Instruments, NEW change, IsFilled(r, s, id, change),
         id # Spot => Expiry[id] > At[s.next]
  PROVE  Orderly(r)
<1> DEFINE rows == s.settlements
<1>1. SameClaims(r, s) /\ r.next = s.next
  BY DEF IsFilled, SameRun
<1>2. ASSUME NEW i \in 1..Len(rows) PROVE Held(r, rows[i].slot) = 0
  <2>1. /\ rows[i] \in Settlement /\ rows[i].slot \in HoldingGroups \X Contracts
        /\ OnItsDay(rows[i], s.next) /\ Held(s, rows[i].slot) = 0
    BY RowTypes DEF Orderly
  <2>2. Expiry[rows[i].slot[2]] <= At[s.next] /\ rows[i].slot[2] \in Contracts
    BY <2>1, SettledHasExpired
  <2>3. /\ Expiry[rows[i].slot[2]] \in Nat /\ At[s.next] \in Nat /\ Spot \notin Contracts
        /\ id # Spot => Expiry[id] \in Nat
    BY <2>2, ContractAssumption, HorizonType DEF Instruments
  <2>4. ASSUME rows[i].slot = <<"hedges", id>> PROVE FALSE
    <3>1. rows[i].slot[2] = id
      BY <2>4
    <3> HIDE DEF rows
    <3>2. id # Spot
      BY <2>2, <2>3, <3>1
    <3>3. Expiry[id] <= At[s.next]
      BY <2>2, <3>1
    <3>4. Expiry[id] > At[s.next] /\ Expiry[id] \in Nat /\ At[s.next] \in Nat
      BY <2>3, <3>2
    <3> QED
      BY <3>3, <3>4
  <2> HIDE DEF rows
  <2> QED
    BY <2>1, <2>4, HeldOnceFilled
<1> QED
  BY <1>1, <1>2 DEF Orderly, SameClaims
-----------------------------------------------------------------------------
(* The steps of the replay.                                                *)

LEMMA InnerNext ==
  ASSUME ReplayInv, ProcessSnapshot, ~Commit
  PROVE  /\ st'.next = st.next /\ st.next \in 1..Horizon /\ IsState(st) /\ IsState(st')
         /\ phase # "idle" /\ phase' # "idle" /\ Now \in Market
<1>1. /\ ReplayInv' /\ Visible' = Visible /\ phase # "idle" /\ phase' # "idle"
      /\ InSnapshot(Visible, phase, st, basket, history)
  BY InnerStep
<1>2. InSnapshot(Visible', phase', st', basket', history')
  BY <1>1 DEF ReplayInv
<1>3. st'.next = st.next
  BY <1>1, <1>2 DEF InSnapshot
<1>4. st.next \in 1..Horizon /\ IsState(st) /\ Now \in Market
  BY <1>1, TodaysMarket DEF Now
<1> QED
  BY <1>1, <1>3, <1>4, NextIsState

(* Every step of a snapshot keeps the settlements in order.                *)
LEMMA StaysOrderly ==
  ASSUME ReplayInv, ClaimsInv, ProcessSnapshot
  PROVE  Orderly(st')
<1>0. Orderly(st) /\ IsState(st) /\ st.next \in Nat
  BY KnownAreStates, TableTypes DEF ClaimsInv, Known
<1>1. CASE Commit
  <2>1. st'.next = st.next + 1 /\ SameClaims(st', st) /\ SameHoldings(st', st)
    BY <1>1, CommitStep
  <2> QED
    BY <1>0, <2>1, SameIsOrderly
<1>2. CASE ~Commit
  <2>1. st'.next = st.next /\ st.next \in 1..Horizon /\ IsState(st')
    BY <1>2, InnerNext
  <2>2. CASE Carry \/ Capital \/ QuietStep
    <3>1. SameClaims(st', st) /\ SameHoldings(st', st)
      BY <2>2, CarryStep, CapitalStep, QuietStepsAre DEF OnlyBooked, Quiet
    <3> QED
      BY <1>0, <2>1, <3>1, SameIsOrderly
  <2>3. CASE \E g \in HoldingGroups, c \in Contracts : FixHolding(g, c)
    <3>1. PICK g \in HoldingGroups, c \in Contracts : FixHolding(g, c)
      BY <2>3
    <3> DEFINE slot == <<g, c>>
    <3>2. PICK amount \in Int, keep \in BOOLEAN :
            IsFixed(st', st, slot, amount, keep) /\ (keep <=> (amount # 0 \/ PaymentDay[c] = Today))
      BY <3>1, FixStep
    <3>3. Held(st, slot) # 0 /\ Expiry[c] = At[st.next]
      BY <3>1 DEF FixHolding, ToFix, Today
    <3>4. slot \in HoldingGroups \X Contracts /\ slot[2] = c
      OBVIOUS
    <3> HIDE DEF slot
    <3> QED
      BY <1>0, <2>1, <3>2, <3>3, <3>4, FixingIsOrderly
  <2>4. CASE \E claim \in st.receivables : PayDueClaim(claim)
    <3>1. PICK claim \in st.receivables : PayDueClaim(claim)
      BY <2>4
    <3>2. IsPaid(st', st, claim) /\ PaymentDay[claim.slot[2]] = At[st.next]
      BY <3>1, PayStep DEF PayDueClaim, Today
    <3> QED
      BY <1>0, <2>1, <3>2, PaymentIsOrderly
  <2>5. CASE \E id \in Instruments : FillRow(id)
    <3>1. PICK id \in Instruments : FillRow(id)
      BY <2>5
    <3>2. IsFilled(st', st, id, ChangeOf(st, basket.want, id))
      BY <3>1, FillStep
    <3>3. id # Spot => Expiry[id] > At[st.next]
      BY <3>1 DEF FillRow, Step, ClaimsInv, Unexpired
    <3> QED
      BY <1>0, <2>1, <3>2, <3>3, FillIsOrderly
  <2> QED
    BY <2>2, <2>3, <2>4, <2>5, StepKinds
<1> QED
  BY <1>1, <1>2

LEMMA SameHeld ==
  ASSUME NEW s, NEW r, NEW n, SameHoldings(r, s), NoneExpired(s, n)
  PROVE  NoneExpired(r, n)
  BY DEF SameHoldings, NoneExpired, Held

(* After the fixings nothing expired is held, after the payments nothing   *)
(* is due, and a basket trades nothing that has expired.                   *)
LEMMA NothingComesBack ==
  ASSUME ReplayInv, ClaimsInv, ProcessSnapshot, ~Commit
  PROVE  /\ phase' \in AfterPay \union {"pay"} => NoneExpired(st', st'.next)
         /\ phase' \in AfterPay => NoneDue(st', st'.next)
         /\ phase' = "fill" => Unexpired(basket'.rows, st'.next)
<1>0. st'.next = st.next /\ st.next \in 1..Horizon /\ IsState(st) /\ IsState(st')
  BY InnerNext
<1>1. CASE Validate \/ Carry \/ Capital \/ \E g \in HoldingGroups, c \in Contracts : FixHolding(g, c)
  BY <1>1 DEF Validate, Carry, Capital, FixHolding, Step, AfterPay
<1>2. CASE FixingDone
  <2>1. phase' = "pay" /\ st' = st /\ ToFix("targets") = {} /\ ToFix("hedges") = {}
    BY <1>2 DEF FixingDone, Step
  <2>2. ASSUME NEW c \in Contracts, NEW g \in HoldingGroups, Held(st, <<g, c>>) # 0
        PROVE  Expiry[c] > At[st.next]
    <3>1. Expiry[c] \in Nat /\ At[st.next] \in Nat
      BY <1>0, ContractAssumption, HorizonType
    <3>2. c \notin ToFix(g)
      BY <2>1 DEF HoldingGroups
    <3> QED
      BY <2>2, <3>1, <3>2 DEF ToFix, Expired, Today
  <2> QED
    BY <2>1, <2>2 DEF NoneExpired, AfterPay
<1>3. CASE \E claim \in st.receivables : PayDueClaim(claim)
  <2>1. phase' = "pay" /\ phase = "pay" /\ SameHoldings(st', st)
    BY <1>3, PayStep DEF PayDueClaim, Step, IsPaid
  <2> QED
    BY <1>0, <2>1, SameHeld DEF ClaimsInv, AfterPay
<1>4. CASE PaymentsDone
  <2>1. phase' = "execute" /\ phase = "pay" /\ st' = st /\ Due = {}
    BY <1>4 DEF PaymentsDone, Step
  <2>2. ASSUME NEW claim \in st.receivables
        PROVE  PaymentDay[claim.slot[2]] > At[st.next]
    <3>1. claim.slot[2] \in Contracts
      BY <1>0, RowTypes
    <3>2. PaymentDay[claim.slot[2]] \in Nat /\ At[st.next] \in Nat
      BY <1>0, <3>1, ContractAssumption, HorizonType
    <3>3. claim \notin Due
      BY <2>1
    <3> QED
      BY <3>2, <3>3 DEF Due, Today
  <2> QED
    BY <2>1, <2>2 DEF NoneDue, ClaimsInv, AfterPay
<1>5. CASE \E id \in Instruments : FillRow(id)
  <2>1. PICK id \in Instruments : FillRow(id)
    BY <1>5
  <2>2. IsFilled(st', st, id, ChangeOf(st, basket.want, id))
    BY <2>1, FillStep
  <2>3. /\ phase' = "fill" /\ phase = "fill" /\ id \in basket.rows
        /\ basket' = [basket EXCEPT !.rows = @ \ {id}]
    BY <2>1 DEF FillRow, Step
  <2>4. IsBasket(basket)
    BY PendingInRange
  <2>5. basket'.rows \subseteq basket.rows
    BY <2>3, <2>4 DEF IsBasket
  <2>6. NoneExpired(st, st.next) /\ NoneDue(st, st.next) /\ Unexpired(basket.rows, st.next)
    BY <2>3 DEF ClaimsInv, AfterPay
  <2>7. NoneDue(st', st.next)
    BY <2>2, <2>6 DEF IsFilled, SameClaims, NoneDue
  <2>8. ASSUME NEW c \in Contracts, NEW g \in HoldingGroups, Held(st', <<g, c>>) # 0
        PROVE  Expiry[c] > At[st.next]
    <3>1. CASE <<g, c>> = <<"hedges", id>>
      <4>1. id = c /\ id # Spot
        BY <3>1, ContractAssumption
      <4> QED
        BY <2>3, <2>6, <4>1 DEF Unexpired
    <3>2. CASE <<g, c>> # <<"hedges", id>>
      <4>1. Held(st', <<g, c>>) = Held(st, <<g, c>>)
        BY <1>0, <2>2, <3>2, HeldOnceFilled
      <4> QED
        BY <2>6, <2>8, <4>1 DEF NoneExpired
    <3> QED
      BY <3>1, <3>2
  <2> QED
    BY <1>0, <2>3, <2>5, <2>6, <2>7, <2>8 DEF NoneExpired, Unexpired
<1>6. CASE /\ ~(Validate \/ FixingDone \/ PaymentsDone)
           /\ QuietStep
  <2>1. Quiet(st', st)
    BY <1>6, QuietStepsAre
  <2>2. phase \in AfterPay
    BY <1>6 DEF QuietStep, NoPendingOrder, RejectPending, AcceptPending, StartLiquidation,
                NoLiquidation, BasketFilled, Mark, Decide, NoDecision, Step, AfterPay
  <2>3. NoneExpired(st', st.next)
    BY <2>1, <2>2, SameHeld DEF ClaimsInv, Quiet
  <2>4. NoneDue(st', st.next)
    BY <2>1, <2>2 DEF ClaimsInv, Quiet, SameClaims, NoneDue
  <2>5. phase' = "fill" => Unexpired(basket'.rows, st.next)
    <3>1. ASSUME NEW want PROVE Unexpired(Rows(st, want), st.next)
      BY DEF Rows, Unexpired
    <3>2. CASE AcceptPending
      <4>1. basket'.rows = Rows(st, Wanted(st.pending))
        BY <3>2 DEF AcceptPending
      <4> QED
        BY <3>1, <4>1
    <3>3. CASE StartLiquidation
      <4>1. basket'.rows = Rows(st, LiquidationOrder.want)
        BY <3>3 DEF StartLiquidation
      <4> QED
        BY <3>1, <4>1
    <3>4. CASE NoPendingOrder \/ RejectPending \/ NoLiquidation \/ BasketFilled \/ Mark
               \/ Decide \/ NoDecision
      BY <3>4 DEF NoPendingOrder, RejectPending, NoLiquidation, BasketFilled, Mark, Decide,
                  NoDecision, Step
    <3> QED
      BY <1>6, <3>2, <3>3, <3>4 DEF QuietStep
  <2> QED
    BY <1>0, <2>3, <2>4, <2>5
<1> QED
  BY <1>1, <1>2, <1>3, <1>4, <1>5, <1>6, StepKinds DEF QuietStep

(* Outside the snapshot's own steps, no later phase is entered.            *)
LEMMA OuterPhases ==
  ASSUME ReplayInv, [Next]_vars, Commit \/ ~ProcessSnapshot
  PROVE  \/ phase' \in {"idle", "validate"}
         \/ phase' = phase /\ st' = st /\ basket' = basket
<1>1. CASE BeginSnapshot
  BY <1>1, BeginStep
<1>2. CASE Commit
  BY <1>2, CommitStep
<1>3. CASE FailSnapshot
  BY <1>3, FailStep
<1>4. CASE FinishRun
  BY <1>4, FinishStep
<1>5. CASE Restart
  BY <1>5, StartStep DEF Restart
<1>6. CASE UNCHANGED vars
  BY <1>6 DEF vars
<1> QED
  BY <1>1, <1>2, <1>3, <1>4, <1>5, <1>6 DEF Next, Proceed

LEMMA ClaimsStep ==
  ASSUME ReplayInv, ClaimsInv, [Next]_vars
  PROVE  ClaimsInv'
<1>1. /\ ReplayInv'
      /\ ProcessSnapshot \/ st' \in Known
      /\ Commit \/ Seen' \subseteq Seen
      /\ Commit => Seen' \subseteq Seen \union {st'}
      /\ Known' \subseteq Known \union {st'}
  BY NewStates
<1>2. \A s \in Known' : Orderly(s)
  <2>1. Orderly(st')
    BY <1>1, StaysOrderly DEF ClaimsInv
  <2> QED
    BY <1>1, <2>1 DEF ClaimsInv
<1>3. \A s \in Seen' : Settled(s)
  <2>1. ASSUME Commit PROVE Settled(st')
    <3>1. /\ st'.next = st.next + 1 /\ SameClaims(st', st) /\ SameHoldings(st', st)
          /\ phase = "commit"
      BY <2>1, CommitStep
    <3>2. st.next \in Nat
      BY KnownAreStates, TableTypes DEF Known
    <3>3. NoneExpired(st, st.next) /\ NoneDue(st, st.next)
      BY <3>1 DEF ClaimsInv, AfterPay
    <3>4. NoneExpired(st', st.next) /\ NoneDue(st', st.next)
      BY <3>1, <3>3, SameHeld DEF SameClaims, NoneDue
    <3>5. st'.next - 1 = st.next
      BY <3>1, <3>2
    <3> QED
      BY <3>4, <3>5 DEF Settled
  <2>2. CASE Commit
    BY <1>1, <2>1, <2>2 DEF ClaimsInv
  <2>3. CASE ~Commit
    BY <1>1, <2>3 DEF ClaimsInv
  <2> QED
    BY <2>2, <2>3
<1>4. /\ phase' \in AfterPay \union {"pay"} => NoneExpired(st', st'.next)
      /\ phase' \in AfterPay => NoneDue(st', st'.next)
      /\ phase' = "fill" => Unexpired(basket'.rows, st'.next)
  <2>1. CASE ProcessSnapshot /\ ~Commit
    BY <2>1, NothingComesBack
  <2>2. CASE Commit \/ ~ProcessSnapshot
    <3>1. CASE phase' \in {"idle", "validate"}
      BY <3>1 DEF AfterPay
    <3>2. CASE phase' = phase /\ st' = st /\ basket' = basket
      BY <3>2 DEF ClaimsInv
    <3> QED
      BY <2>2, <3>1, <3>2, OuterPhases
  <2> QED
    BY <2>1, <2>2
<1> QED
  BY <1>2, <1>3, <1>4 DEF ClaimsInv

LEMMA ClaimsInit == Init => ClaimsInv
<1> SUFFICES ASSUME Init PROVE ClaimsInv
  OBVIOUS
<1>1. Unprocessed(EntryState)
  BY EntryIs
<1>2. Known = {EntryState} /\ Seen \subseteq Known /\ phase = "idle"
  BY InitStates DEF Init
<1>3. Orderly(EntryState)
  <2>1. Len(EntryState.settlements) = 0 /\ EntryState.receivables = {}
    BY <1>1 DEF Unprocessed
  <2> HIDE DEF EntryState
  <2> QED
    BY <2>1 DEF Orderly, InOrder
<1>4. Settled(EntryState)
  BY <1>1 DEF Unprocessed, Settled
<1> QED
  BY <1>2, <1>3, <1>4 DEF ClaimsInv, AfterPay

LEMMA ClaimsStaySound == Spec => [](ReplayInv /\ ClaimsInv)
<1>1. Init => ReplayInv /\ ClaimsInv
  BY InitStep, ClaimsInit
<1>2. ReplayInv /\ ClaimsInv /\ [Next]_vars => (ReplayInv /\ ClaimsInv)'
  BY ReplayStep, ClaimsStep
<1> QED
  BY <1>1, <1>2, PTL DEF Spec

(* Each holding is fixed at most once, on its expiry, and each claim is    *)
(* paid at most once, on its payment day, after its fixing and for the     *)
(* amount that was fixed.                                                  *)
THEOREM ClaimsAreFixedThenPaid == Spec => []ClaimsFixThenPayOnce
<1>1. ReplayInv /\ ClaimsInv => ClaimsFixThenPayOnce
  <2> SUFFICES ASSUME ReplayInv, ClaimsInv PROVE ClaimsFixThenPayOnce
    OBVIOUS
  <2> QED
    BY DEF ClaimsInv, Known, Orderly, InOrder, OnItsDay, DayOf, ClaimsFixThenPayOnce
<1> QED
  BY <1>1, ClaimsStaySound, PTL

(* A committed snapshot leaves no expired holding and no claim that is     *)
(* due, and a fixed amount is either outstanding or paid.                  *)
THEOREM NothingIsOverdue == Spec => []NothingOverdue
<1>1. ReplayInv /\ ClaimsInv => NothingOverdue
  <2> SUFFICES ASSUME ReplayInv, ClaimsInv, Committed PROVE
        LET today == At[st.next - 1]
            paid == {st.settlements[i].slot :
                       i \in {k \in 1..Len(st.settlements) : st.settlements[k].event = "paid"}}
        IN  /\ \A c \in Contracts, g \in HoldingGroups :
                 Held(st, <<g, c>>) # 0 => Expiry[c] > today
            /\ \A claim \in st.receivables : PaymentDay[claim.slot[2]] > today
            /\ \A i \in 1..Len(st.settlements) :
                 LET row == st.settlements[i]
                 IN  row.amount # 0 => (row.slot \in paid)
                       # ([slot |-> row.slot, amount |-> row.amount] \in st.receivables)
    BY DEF NothingOverdue
  <2> DEFINE paid == {st.settlements[i].slot :
                       i \in {k \in 1..Len(st.settlements) : st.settlements[k].event = "paid"}}
  <2>1. Visible = st /\ st \in Seen /\ Settled(st) /\ Orderly(st)
    BY KnownAreStates DEF Committed, ClaimsInv, Known, Seen
  <2>2. NoneExpired(st, st.next - 1) /\ NoneDue(st, st.next - 1)
    BY <2>1 DEF Settled, Committed
  <2>3. \A slot : slot \in paid <=> PaidIn(slot, st.settlements)
    BY DEF PaidIn
  <2> HIDE DEF paid
  <2>4. ASSUME NEW i \in 1..Len(st.settlements), st.settlements[i].amount # 0
        PROVE  LET row == st.settlements[i]
               IN  (row.slot \in paid)
                     # ([slot |-> row.slot, amount |-> row.amount] \in st.receivables)
    <3> DEFINE row == st.settlements[i]
               claim == [slot |-> row.slot, amount |-> row.amount]
    <3>1. PaidIn(row.slot, st.settlements) \/ claim \in st.receivables
      BY <2>1, <2>4 DEF Orderly
    <3>2. claim.slot = row.slot
      OBVIOUS
    <3>3. ASSUME claim \in st.receivables PROVE ~PaidIn(row.slot, st.settlements)
      <4>1. Backed(claim, st.settlements)
        BY <2>1, <3>3 DEF Orderly
      <4> HIDE DEF claim, row
      <4> QED
        BY <3>2, <4>1 DEF Backed, PaidIn
    <3> QED
      BY <2>3, <3>1, <3>3
  <2> QED
    BY <2>2, <2>4 DEF NoneExpired, NoneDue, paid
<1> QED
  BY <1>1, ClaimsStaySound, PTL
-----------------------------------------------------------------------------
(* The history that a state has booked.                                    *)

NetUpTo(h, n) == SumOver(LAMBDA s : SumFunction(s.flows), SubSeq(h, 1, n))
PaidUpTo(h, n) ==
  SumOver(LAMBDA s : Discounted(SumFunction(s.flows), s.numeraire), SubSeq(h, 1, n))

(* The ledger row of snapshot i.                                           *)
RowFits(row, h, i) ==
  /\ row.at = i /\ row.spot = h[i].mid[Spot] /\ row.numeraire = h[i].numeraire
  /\ row.discounted.external = PaidUpTo(h, i)
  /\ row.discounted.cumulative = Discounted(row.equity, h[i].numeraire)
                                   - Discounted(InitialCash, h[1].numeraire) - PaidUpTo(h, i)

KeepsRows(s, h, n) == Len(s.ledger) = n /\ \A i \in 1..n : RowFits(s.ledger[i], h, i)

(* The capital of the first n snapshots, and of no other.                  *)
BooksCapital(s, h, n) ==
  /\ s.flowIds = UNION {DOMAIN h[i].flows : i \in 1..n}
  /\ \A i, j \in 1..n : i # j => DOMAIN h[i].flows \intersect DOMAIN h[j].flows = {}
  /\ Posted(s, "external_capital") = NetUpTo(h, n)

BooksHistory(s, h) == KeepsRows(s, h, Len(h)) /\ BooksCapital(s, h, Len(h))

HistoryInv ==
  /\ \A cp \in checkpoints : BooksHistory(cp.state, cp.prefix)
  /\ phase = "idle" => BooksHistory(st, history)
  /\ phase # "idle" =>
       /\ BooksHistory(Visible, Before(history))
       /\ KeepsRows(st, history, Len(st.ledger))
       /\ BooksCapital(st, history, IF phase \in {"validate", "carry", "capital"}
                                    THEN Len(history) - 1 ELSE Len(history))
       /\ phase \in {"carry", "capital"} => DOMAIN Now.flows \intersect st.flowIds = {}

LEMMA MarketSums ==
  ASSUME NEW x \in Market
  PROVE  /\ SumFunction(x.flows) \in Int /\ Discounted(SumFunction(x.flows), x.numeraire) \in Int
         /\ IsFiniteSet(DOMAIN x.flows) /\ x.flows \in [DOMAIN x.flows -> Int]
<1>1. /\ IsFiniteSet(DOMAIN x.flows) /\ x.flows \in [DOMAIN x.flows -> Int]
      /\ x.numeraire \in Nat \ {0}
  BY MarketAssumption DEF Market
<1>2. SumFunction(x.flows) \in Int
  BY <1>1, SumType
<1>3. NumeraireUnit \div x.numeraire \in Int
  BY <1>1, ConfigAssumption
<1> QED
  BY <1>1, <1>2, <1>3 DEF Discounted

LEMMA EmptySums == ASSUME NEW h PROVE NetUpTo(h, 0) = 0 /\ PaidUpTo(h, 0) = 0
<1>1. SubSeq(h, 1, 0) = <<>>
  OBVIOUS
<1>2. [i \in DOMAIN <<>> |-> SumFunction(<<>>[i].flows)] = <<>>
  OBVIOUS
<1>3. [i \in DOMAIN <<>> |-> Discounted(SumFunction(<<>>[i].flows), <<>>[i].numeraire)] = <<>>
  OBVIOUS
<1> QED
  BY <1>1, <1>2, <1>3, TotalOfNone DEF NetUpTo, PaidUpTo, SumOver

(* The sums over the history, snapshot by snapshot.                        *)
SumsGrow(h, n) ==
  LET net  == SumFunction(h[n].flows)
      paid == Discounted(net, h[n].numeraire)
  IN  /\ {net, paid, NetUpTo(h, n - 1), PaidUpTo(h, n - 1)} \subseteq Int
      /\ NetUpTo(h, n) = NetUpTo(h, n - 1) + net
      /\ PaidUpTo(h, n) = PaidUpTo(h, n - 1) + paid

LEMMA HistorySums ==
  ASSUME NEW h, IsHistory(h), NEW n \in 1..Len(h)
  PROVE  SumsGrow(h, n) /\ NetUpTo(h, 0) = 0 /\ PaidUpTo(h, 0) = 0
<1> DEFINE net == [s \in Market |-> SumFunction(s.flows)]
           paid == [s \in Market |-> Discounted(SumFunction(s.flows), s.numeraire)]
<1>1. h \in Seq(Market) /\ Len(h) \in Nat
  BY DEF IsHistory
<1>2. net \in [Market -> Int] /\ paid \in [Market -> Int]
  BY MarketSums
<1>3. ASSUME NEW k \in 0..Len(h)
      PROVE  /\ NetUpTo(h, k) = Weighed(net, SubSeq(h, 1, k))
             /\ PaidUpTo(h, k) = Weighed(paid, SubSeq(h, 1, k))
  <2> DEFINE rows == SubSeq(h, 1, k)
  <2>1. rows \in Seq(Market)
    BY <1>1, FirstElements
  <2>2. NetUpTo(h, k) = Total([i \in DOMAIN rows |-> SumFunction(rows[i].flows)])
    BY DEF NetUpTo, SumOver
  <2>3. PaidUpTo(h, k) = Total([i \in DOMAIN rows |->
                                  Discounted(SumFunction(rows[i].flows), rows[i].numeraire)])
    BY DEF PaidUpTo, SumOver
  <2> HIDE DEF rows
  <2>4. \A i \in DOMAIN rows : rows[i] \in Market
    BY <2>1
  <2>5. [i \in DOMAIN rows |-> SumFunction(rows[i].flows)] = [i \in DOMAIN rows |-> net[rows[i]]]
    BY <2>4
  <2>6. [i \in DOMAIN rows |-> Discounted(SumFunction(rows[i].flows), rows[i].numeraire)]
          = [i \in DOMAIN rows |-> paid[rows[i]]]
    BY <2>4
  <2> QED
    BY <2>2, <2>3, <2>5, <2>6 DEF Weighed, rows
<1>4. net[h[n]] = SumFunction(h[n].flows)
      /\ paid[h[n]] = Discounted(SumFunction(h[n].flows), h[n].numeraire)
  BY <1>1
<1> HIDE DEF net, paid
<1>5. /\ Weighed(net, SubSeq(h, 1, n - 1)) \in Int /\ net[h[n]] \in Int
      /\ Weighed(net, SubSeq(h, 1, n)) = Weighed(net, SubSeq(h, 1, n - 1)) + net[h[n]]
  BY <1>1, <1>2, WeighedSoFar
<1>6. /\ Weighed(paid, SubSeq(h, 1, n - 1)) \in Int /\ paid[h[n]] \in Int
      /\ Weighed(paid, SubSeq(h, 1, n)) = Weighed(paid, SubSeq(h, 1, n - 1)) + paid[h[n]]
  BY <1>1, <1>2, WeighedSoFar
<1>7. n - 1 \in 0..Len(h) /\ n \in 0..Len(h)
  BY <1>1
<1>8. SumsGrow(h, n)
  BY <1>3, <1>4, <1>5, <1>6, <1>7 DEF SumsGrow
<1> QED
  BY <1>8, EmptySums

(* Histories that agree on the first n snapshots.                          *)
Agree(g, h, n) ==
  /\ IsHistory(g) /\ IsHistory(h) /\ n \in 0..Len(g) /\ n \in 0..Len(h)
  /\ \A i \in 1..n : g[i] = h[i]

LEMMA SameSums ==
  ASSUME NEW g, NEW h, NEW n, Agree(g, h, n), NEW i \in 0..n
  PROVE  NetUpTo(g, i) = NetUpTo(h, i) /\ PaidUpTo(g, i) = PaidUpTo(h, i)
<1>1. /\ g \in Seq(Market) /\ h \in Seq(Market) /\ Len(g) \in Nat /\ Len(h) \in Nat
      /\ i \in 0..Len(g) /\ i \in 0..Len(h) /\ \A k \in 1..i : g[k] = h[k]
  BY DEF Agree, IsHistory
<1> DEFINE a == SubSeq(g, 1, i)
           b == SubSeq(h, 1, i)
<1>2. a \in Seq(Market) /\ Len(a) = i /\ \A k \in 1..i : a[k] = g[k]
  BY <1>1, FirstElements
<1>3. b \in Seq(Market) /\ Len(b) = i /\ \A k \in 1..i : b[k] = h[k]
  BY <1>1, FirstElements
<1> HIDE DEF a, b
<1>4. a = b
  BY <1>1, <1>2, <1>3, SameElements
<1> QED
  BY <1>4 DEF a, b, NetUpTo, PaidUpTo

LEMMA AgreeingHistories ==
  ASSUME NEW g, NEW h, NEW n, Agree(g, h, n), NEW s
  PROVE  /\ KeepsRows(s, h, n) => KeepsRows(s, g, n)
         /\ BooksCapital(s, h, n) => BooksCapital(s, g, n)
<1>1. n \in Nat /\ \A i \in 1..n : 1 \in 1..n /\ i \in 0..n /\ g[i] = h[i] /\ g[1] = h[1]
  BY DEF Agree, IsHistory
<1>2. ASSUME KeepsRows(s, h, n) PROVE KeepsRows(s, g, n)
  <2>1. ASSUME NEW i \in 1..n PROVE RowFits(s.ledger[i], g, i)
    <3>1. RowFits(s.ledger[i], h, i) /\ g[i] = h[i] /\ g[1] = h[1]
      BY <1>1, <1>2 DEF KeepsRows
    <3>2. PaidUpTo(g, i) = PaidUpTo(h, i)
      BY <1>1, SameSums
    <3> QED
      BY <3>1, <3>2 DEF RowFits
  <2> QED
    BY <1>2, <2>1 DEF KeepsRows
<1>3. ASSUME BooksCapital(s, h, n) PROVE BooksCapital(s, g, n)
  <2>1. NetUpTo(g, n) = NetUpTo(h, n)
    BY <1>1, SameSums
  <2>2. {DOMAIN g[i].flows : i \in 1..n} = {DOMAIN h[i].flows : i \in 1..n}
    BY <1>1
  <2>3. \A i, j \in 1..n : i # j => DOMAIN g[i].flows \intersect DOMAIN g[j].flows = {}
    BY <1>1, <1>3 DEF BooksCapital
  <2> QED
    BY <1>3, <2>1, <2>2, <2>3 DEF BooksCapital
<1> QED
  BY <1>2, <1>3

(* A history agrees with one that is longer.                               *)
LEMMA BeforeAgrees ==
  ASSUME NEW h, IsHistory(h), Len(h) > 0
  PROVE  /\ Agree(h, Before(h), Len(h) - 1) /\ Agree(Before(h), h, Len(h) - 1)
         /\ Len(Before(h)) = Len(h) - 1
<1>1. h \in Seq(Market) /\ Len(h) \in Nat /\ Len(h) - 1 \in 0..Len(h)
  BY DEF IsHistory
<1>2. IsHistory(Before(h)) /\ Len(Before(h)) = Len(h) - 1
  BY <1>1, HistoryCut DEF Before
<1>3. \A i \in 1..Len(h) - 1 : Before(h)[i] = h[i]
  BY <1>1, FirstElements DEF Before
<1> QED
  BY <1>1, <1>2, <1>3 DEF Agree
-----------------------------------------------------------------------------
(* The steps keep the history booked.                                      *)

(* The row that a mark appends, whatever the accounts are worth.           *)
LEMMA RowIs ==
  ASSUME NEW s, NEW now, NEW first, NEW sp
  PROVE  LET row == LedgerRow(s, now, first, sp)
             net == Discounted(SumFunction(now.flows), now.numeraire)
             external == PreviousRow(s).discounted.external + net
         IN  /\ row.at = s.next /\ row.spot = now.mid[Spot] /\ row.numeraire = now.numeraire
             /\ row.discounted.external = external
             /\ row.discounted.cumulative = Discounted(row.equity, now.numeraire)
                                              - Discounted(InitialCash, first) - external
<1> DEFINE row == LedgerRow(s, now, first, sp)
           d == DiscountedRow(s, now, first, row.equity)
<1>1. /\ row.at = s.next /\ row.spot = now.mid[Spot] /\ row.numeraire = now.numeraire
      /\ row.discounted = d
  BY DEF LedgerRow
<1> HIDE DEF row
<1>2. /\ d.external = PreviousRow(s).discounted.external
                         + Discounted(SumFunction(now.flows), now.numeraire)
      /\ d.cumulative = Discounted(row.equity, now.numeraire) - Discounted(InitialCash, first)
                           - (PreviousRow(s).discounted.external
                                + Discounted(SumFunction(now.flows), now.numeraire))
  BY DEF DiscountedRow
<1> QED
  BY <1>1, <1>2 DEF row

LEMMA MarkFits ==
  ASSUME ReplayInv, HistoryInv, Mark
  PROVE  KeepsRows(st', history, Len(st'.ledger))
<1> DEFINE n == Len(history)
           row == NewRow
           previous == PreviousRow(st).discounted.external
           paid == Discounted(SumFunction(Now.flows), Now.numeraire)
<1>1. /\ InSnapshot(Visible, "mark", st, basket, history) /\ IsMarked(st', st, row)
      /\ KeepsRows(st, history, Len(st.ledger))
  BY MarkStep DEF ReplayInv, HistoryInv, Mark, Step
<1>2. /\ IsHistory(history) /\ n \in 1..n /\ st.next = n /\ Len(st.ledger) = n - 1 /\ n \in Nat
      /\ Now = history[n]
  <2>1. st.next \in 1..Horizon /\ st.next = n
    BY <1>1, TodaysMarket
  <2>2. /\ IsHistory(history) /\ Len(st.ledger) = Len(Visible.ledger) + 0
        /\ Visible.next = Len(Before(history)) + 1 /\ Len(Visible.ledger) = Len(Before(history))
        /\ st.next = Visible.next
    BY <1>1 DEF InSnapshot, IsCommitted
  <2>3. n \in Nat /\ n > 0
    BY <2>1
  <2>4. Len(Before(history)) = n - 1
    BY <2>2, <2>3, BeforeAgrees
  <2>5. Now = history[n]
    BY <2>1 DEF Now
  <2>6. Len(st.ledger) = n - 1
    <3> HIDE DEF n
    <3> QED
      BY <2>2, <2>3, <2>4
  <2>7. n \in 1..n
    <3> HIDE DEF n
    <3> QED
      BY <2>3
  <2> QED
    BY <2>1, <2>2, <2>3, <2>5, <2>6, <2>7
<1>3. previous = PaidUpTo(history, n - 1)
  <2>1. st.ledger \in Seq(RowsOf(st))
    BY <1>1, TodaysMarket, TableTypes
  <2>2. CASE n = 1
    <3>1. st.ledger = <<>>
      BY <1>2, <2>1, <2>2
    <3>2. previous = 0
      BY <3>1 DEF PreviousRow, NoRow
    <3> QED
      BY <2>2, <3>2, EmptySums
  <2>3. CASE n # 1
    <3>1. st.ledger # <<>> /\ n - 1 \in 1..Len(st.ledger)
      <4> HIDE DEF n
      <4>1. Len(st.ledger) # 0 /\ n - 1 \in 1..Len(st.ledger)
        BY <1>2, <2>3
      <4>2. Len(<<>>) = 0
        OBVIOUS
      <4> QED
        BY <4>1, <4>2
    <3>2. RowFits(st.ledger[n - 1], history, n - 1)
      BY <1>1, <3>1 DEF KeepsRows
    <3> QED
      BY <1>2, <3>1, <3>2 DEF PreviousRow, RowFits
  <2> QED
    BY <2>2, <2>3
<1>4. /\ row.at = n /\ row.spot = Now.mid[Spot] /\ row.numeraire = Now.numeraire
      /\ row.discounted.external = previous + paid
      /\ row.discounted.cumulative = Discounted(row.equity, Now.numeraire)
                                       - Discounted(InitialCash, history[1].numeraire)
                                       - (previous + paid)
  BY <1>2, RowIs DEF NewRow
<1>5. PaidUpTo(history, n) = previous + paid
  BY <1>2, <1>3, HistorySums DEF SumsGrow
<1> HIDE DEF row, previous, paid
<1>6. RowFits(row, history, n)
  BY <1>2, <1>4, <1>5 DEF RowFits
<1>7. /\ Len(st'.ledger) = n /\ st'.ledger[n] = row
      /\ \A i \in 1..n - 1 : st'.ledger[i] = st.ledger[i]
  BY <1>1, <1>2 DEF IsMarked, Longer
<1>8. \A i \in 1..n : i = n \/ i \in 1..n - 1
  BY <1>2
<1> HIDE DEF n
<1> QED
  BY <1>1, <1>2, <1>6, <1>7, <1>8 DEF KeepsRows

(* What the steps of a snapshot leave alone: all but Capital the capital,  *)
(* all but Mark the ledger.                                                *)
NoCapital(r, s) ==
  r.flowIds = s.flowIds /\ Posted(r, "external_capital") = Posted(s, "external_capital")

LEMMA ElsewhereNoCapital ==
  ASSUME NEW r, NEW s, NEW kinds, Elsewhere(r, s, kinds), "external_capital" \notin kinds,
         r.flowIds = s.flowIds
  PROVE  NoCapital(r, s)
  BY DEF Elsewhere, NoCapital, FlowKinds

(* The quiet steps leave the run alone, but for the mark and the commit.   *)
LEMMA QuietRuns ==
  ASSUME ReplayInv, QuietStep
  PROVE  st'.flowIds = st.flowIds /\ (Mark \/ st'.ledger = st.ledger)
<1>1. CASE Validate \/ FixingDone \/ PaymentsDone \/ NoPendingOrder \/ AcceptPending
           \/ NoLiquidation \/ NoDecision
  <2>1. st' = st
    BY <1>1 DEF Validate, FixingDone, PaymentsDone, NoPendingOrder, AcceptPending,
                NoLiquidation, NoDecision
  <2> QED
    BY <2>1
<1>2. CASE RejectPending
  BY <1>2, RejectStep DEF SameButOrders, SameRun
<1>3. CASE StartLiquidation
  BY <1>3, LiquidationStep DEF SameButOrders, SameRun
<1>4. CASE BasketFilled
  BY <1>4, BasketStep DEF SameButOrders, SameRun
<1>5. CASE Mark
  BY <1>5, MarkStep DEF IsMarked
<1>6. CASE Decide
  BY <1>6, DecideStep DEF SameButOrders, SameRun
<1>7. CASE Commit
  BY <1>7, CommitStep
<1> QED
  BY <1>1, <1>2, <1>3, <1>4, <1>5, <1>6, <1>7 DEF QuietStep

LEMMA NoCapitalSteps ==
  ASSUME ReplayInv, ProcessSnapshot, ~Capital
  PROVE  NoCapital(st', st) /\ (Mark \/ st'.ledger = st.ledger)
<1>0. /\ IsState(st) /\ st \in StateSet(RowsOf(st))
  BY KnownAreStates DEF Known, IsState
<1>1. CASE Carry
  <2>1. CASE st' = st
    BY <2>1 DEF NoCapital
  <2>2. ASSUME NEW previous \in Market, NEW now \in Market, NEW days \in Int,
               st' = Carried(st, previous, now, days)
        PROVE  NoCapital(st', st) /\ st'.ledger = st.ledger
    <3> DEFINE r == Carried(st, previous, now, days)
    <3>1. Elsewhere(r, st, CarryKinds) /\ SameRun(r, st)
      BY <1>0, CarriedElsewhere, CarriedOnlyBooks
    <3>2. "external_capital" \notin CarryKinds
      BY DEF CarryKinds
    <3>3. st' = r
      BY <2>2
    <3> HIDE DEF r
    <3>4. st'.flowIds = st.flowIds /\ st'.ledger = st.ledger
      BY <3>1, <3>3 DEF SameRun
    <3> QED
      BY <3>1, <3>2, <3>3, <3>4, ElsewhereNoCapital
  <2> QED
    BY <1>1, <2>1, <2>2, CarryIs
<1>2. CASE \E g \in HoldingGroups, c \in Contracts : FixHolding(g, c)
  <2>1. PICK g \in HoldingGroups, c \in Contracts : FixHolding(g, c)
    BY <1>2
  <2>2. SameCash(st', st) /\ SameRun(st', st)
    BY <2>1, FixStep DEF IsFixed
  <2> QED
    BY <2>2 DEF SameCash, SameRun, NoCapital, Posted
<1>3. CASE \E claim \in st.receivables : PayDueClaim(claim)
  <2>1. PICK claim \in st.receivables : PayDueClaim(claim)
    BY <1>3
  <2>2. claim \in Claim /\ st' = Paid(st, claim)
    BY <1>0, <2>1 DEF StateSet, PayDueClaim
  <2>3. SameRun(st', st)
    BY <2>1, PayStep DEF IsPaid
  <2>4. Elsewhere(st', st, {"targets_settlement", "hedges_settlement"})
    BY <1>0, <2>2, PaidElsewhere
  <2> QED
    BY <2>3, <2>4, ElsewhereNoCapital DEF SameRun
<1>4. CASE \E id \in Instruments : FillRow(id)
  <2>1. PICK id \in Instruments : FillRow(id)
    BY <1>4
  <2> DEFINE change == ChangeOf(st, basket.want, id)
  <2>2. st' = Filled(st, Now, id, change) /\ Now \in Market /\ change \in Int
    BY <2>1, FillIs
  <2>3. SameRun(st', st)
    BY <2>1, FillStep DEF IsFilled
  <2> HIDE DEF change
  <2>4. Elsewhere(st', st, {"hedge_trade"})
    BY <1>0, <2>2, FilledElsewhere
  <2> QED
    BY <2>3, <2>4, ElsewhereNoCapital DEF SameRun
<1>5. CASE QuietStep
  <2>1. SameCash(st', st)
    BY <1>5, QuietStepsAre DEF Quiet
  <2>2. st'.flowIds = st.flowIds /\ (Mark \/ st'.ledger = st.ledger)
    BY <1>5, QuietRuns
  <2> QED
    BY <2>1, <2>2 DEF SameCash, NoCapital, Posted
<1>6. \/ Carry \/ QuietStep
      \/ \E g \in HoldingGroups, c \in Contracts : FixHolding(g, c)
      \/ \E claim \in st.receivables : PayDueClaim(claim)
      \/ \E id \in Instruments : FillRow(id)
  BY StepKinds
<1> QED
  BY <1>1, <1>2, <1>3, <1>4, <1>5, <1>6

(* The capital of the snapshot joins what was booked before.               *)
LEMMA CapitalFits ==
  ASSUME ReplayInv, HistoryInv, Capital
  PROVE  BooksCapital(st', history, Len(history)) /\ st'.ledger = st.ledger
<1> DEFINE n == Len(history)
           flows == Now.flows
           kind == "external_capital"
<1>1. /\ InSnapshot(Visible, "capital", st, basket, history) /\ st' = CapitalBooked(st, flows)
      /\ BooksCapital(st, history, n - 1) /\ DOMAIN flows \intersect st.flowIds = {}
  BY DEF ReplayInv, HistoryInv, Capital, Step
<1>2. /\ IsHistory(history) /\ n \in Nat /\ n \in 1..n /\ st.next = n /\ Now = history[n]
      /\ Now \in Market /\ Now \in SnapshotsAt[st.next] /\ st.next \in 1..Horizon
      /\ st \in StateSet(RowsOf(st))
  <2>1. /\ st.next \in 1..Horizon /\ st.next = n /\ Now \in Market
        /\ Now \in SnapshotsAt[st.next] /\ IsState(st)
    BY <1>1, TodaysMarket DEF Now
  <2>2. IsHistory(history) /\ Now = history[n]
    BY <1>1, <2>1 DEF InSnapshot, Now
  <2>3. n \in Nat /\ n \in 1..n
    BY <2>1
  <2> QED
    BY <2>1, <2>2, <2>3 DEF IsState
<1>3. IsFiniteSet(DOMAIN flows) /\ flows \in [DOMAIN flows -> Int] /\ DOMAIN flows \subseteq FlowIds
  BY <1>2, MarketSums DEF FlowIds
<1> HIDE DEF n
<1>4. /\ st'.flowIds = st.flowIds \union DOMAIN flows /\ st'.ledger = st.ledger
      /\ Posted(st', kind) = Posted(st, kind) + SumFunction(flows)
  BY <1>1, <1>2, <1>3, CapitalOnlyBooks, CapitalPosts
<1>5. NetUpTo(history, n) = NetUpTo(history, n - 1) + SumFunction(flows)
  BY <1>2, HistorySums DEF SumsGrow, n
<1>6. \A i \in 1..n : i = n \/ i \in 1..n - 1
  BY <1>2
<1>7. UNION {DOMAIN history[i].flows : i \in 1..n}
        = (UNION {DOMAIN history[i].flows : i \in 1..n - 1}) \union DOMAIN flows
  BY <1>2, <1>6
<1>8. \A i \in 1..n - 1 : DOMAIN history[i].flows \intersect DOMAIN flows = {}
  BY <1>1 DEF BooksCapital
<1>9. \A i, j \in 1..n :
        i # j => DOMAIN history[i].flows \intersect DOMAIN history[j].flows = {}
  BY <1>1, <1>2, <1>6, <1>8 DEF BooksCapital
<1>10. BooksCapital(st', history, n)
  BY <1>1, <1>4, <1>5, <1>7, <1>9 DEF BooksCapital
<1> QED
  BY <1>4, <1>10 DEF n

LEMMA SameBooksCapital ==
  ASSUME NEW r, NEW s, NoCapital(r, s), NEW h, NEW n, BooksCapital(s, h, n)
  PROVE  BooksCapital(r, h, n)
  BY DEF NoCapital, BooksCapital

(* Where the steps of a snapshot that book no capital can be.              *)
LEMMA CapitalPhases ==
  ASSUME ProcessSnapshot
  PROVE  \/ Validate /\ phase = "validate" /\ phase' = "carry"
         \/ Carry /\ phase = "carry" /\ phase' = "capital"
         \/ Capital /\ phase = "capital" /\ phase' = "fix"
         \/ /\ phase \notin {"validate", "carry", "capital"}
            /\ phase' \notin {"validate", "carry", "capital"}
<1>1. CASE Validate \/ Carry \/ Capital \/ FixingDone \/ PaymentsDone
  BY <1>1 DEF Validate, Carry, Capital, FixingDone, PaymentsDone, Step
<1>2. CASE \E g \in HoldingGroups, c \in Contracts : FixHolding(g, c)
  BY <1>2 DEF FixHolding, Step
<1>3. CASE \E claim \in st.receivables : PayDueClaim(claim)
  BY <1>3 DEF PayDueClaim, Step
<1>4. CASE NoPendingOrder \/ RejectPending \/ AcceptPending
  BY <1>4 DEF NoPendingOrder, RejectPending, AcceptPending, Step
<1>5. CASE StartLiquidation \/ NoLiquidation
  BY <1>5 DEF StartLiquidation, NoLiquidation, Step
<1>6. CASE \E id \in Instruments : FillRow(id)
  BY <1>6 DEF FillRow, Step
<1>7. CASE BasketFilled
  BY <1>7 DEF BasketFilled
<1>8. CASE Mark \/ Decide \/ NoDecision \/ Commit
  BY <1>8 DEF Mark, Decide, NoDecision, Commit, Step
<1> QED
  BY <1>1, <1>2, <1>3, <1>4, <1>5, <1>6, <1>7, <1>8 DEF ProcessSnapshot

LEMMA InnerHistory ==
  ASSUME ReplayInv, HistoryInv, ProcessSnapshot, ~Commit
  PROVE  HistoryInv'
<1>1. /\ ReplayInv' /\ Visible' = Visible /\ phase # "idle" /\ phase' # "idle"
      /\ history' = history /\ checkpoints' = checkpoints
  BY InnerStep DEF Frame
<1>2. Now' = Now
  <2>1. st'.next = st.next
    BY InnerNext
  <2> QED
    BY <1>1, <2>1 DEF Now
<1>3. KeepsRows(st', history, Len(st'.ledger))
  <2>1. CASE Mark
    BY <2>1, MarkFits
  <2>2. CASE ~Mark
    <3>1. st'.ledger = st.ledger
      BY <2>2, CapitalFits, NoCapitalSteps
    <3>2. KeepsRows(st, history, Len(st.ledger))
      BY <1>1 DEF HistoryInv
    <3> QED
      BY <3>1, <3>2 DEF KeepsRows
  <2> QED
    BY <2>1, <2>2
<1>4. /\ BooksCapital(st', history, IF phase' \in {"validate", "carry", "capital"}
                                    THEN Len(history) - 1 ELSE Len(history))
      /\ phase' \in {"carry", "capital"} => DOMAIN Now.flows \intersect st'.flowIds = {}
  <2>1. CASE Capital
    BY <2>1, CapitalFits DEF Capital, Step
  <2>2. CASE ~Capital
    <3>1. NoCapital(st', st)
      BY <2>2, NoCapitalSteps
    <3>2. BooksCapital(st, history, IF phase \in {"validate", "carry", "capital"}
                                    THEN Len(history) - 1 ELSE Len(history))
      BY <1>1 DEF HistoryInv
    <3>3. BooksCapital(st', history, IF phase \in {"validate", "carry", "capital"}
                                     THEN Len(history) - 1 ELSE Len(history))
      BY <3>1, <3>2, SameBooksCapital
    <3>4. phase \in {"validate", "carry", "capital"} <=> phase' \in {"validate", "carry", "capital"}
      BY <2>2, CapitalPhases
    <3>5. phase' \in {"carry", "capital"} => DOMAIN Now.flows \intersect st.flowIds = {}
      <4>1. CASE Validate
        BY <4>1 DEF Validate
      <4>2. CASE Carry
        BY <1>1, <4>2 DEF Carry, Step, HistoryInv
      <4> QED
        BY <2>2, <4>1, <4>2, CapitalPhases
    <3> QED
      BY <3>1, <3>3, <3>4, <3>5 DEF NoCapital
  <2> QED
    BY <2>1, <2>2
<1>5. BooksHistory(Visible, Before(history)) /\ \A cp \in checkpoints : BooksHistory(cp.state, cp.prefix)
  BY <1>1 DEF HistoryInv
<1> QED
  BY <1>1, <1>2, <1>3, <1>4, <1>5 DEF HistoryInv

(* An unprocessed state has booked no history.                             *)
LEMMA EntryBooks ==
  ASSUME NEW s, Unprocessed(s)
  PROVE  BooksHistory(s, <<>>)
<1> DEFINE kind == "external_capital"
           w == [f \in Flow |-> PartOf(f, kind)]
<1>1. s.ledger = <<>> /\ s.flowIds = {} /\ s.cashflows \in Seq(Flow)
  BY DEF Unprocessed, StateSet
<1>2. w \in [Flow -> Int] /\ Posted(s, kind) = Weighed(w, s.cashflows)
  BY <1>1, PostedIsWeighed
<1>3. ASSUME NEW i \in 1..Len(s.cashflows) PROVE w[s.cashflows[i]] = 0
  <2>1. s.cashflows[i] \in Flow /\ s.cashflows[i].kind = "target_entry"
    BY <1>1, <1>3 DEF Unprocessed
  <2> QED
    BY <2>1 DEF PartOf
<1> HIDE DEF w
<1>4. Posted(s, kind) = 0
  BY <1>1, <1>2, <1>3, WeighedOfZeros
<1>5. NetUpTo(<<>>, 0) = 0
  BY EmptySums
<1>6. Len(<<>>) = 0 /\ 1..0 = {}
  OBVIOUS
<1> QED
  BY <1>1, <1>4, <1>5, <1>6 DEF BooksHistory, KeepsRows, BooksCapital

LEMMA HistoryInit == Init => HistoryInv
<1> SUFFICES ASSUME Init PROVE HistoryInv
  OBVIOUS
<1>1. BooksHistory(EntryState, <<>>)
  BY EntryIs, EntryBooks
<1>2. /\ st = EntryState /\ phase = "idle" /\ history = <<>>
      /\ checkpoints = {Checkpoint(EntryState, <<>>)}
  BY DEF Init
<1>3. Checkpoint(EntryState, <<>>) = [state |-> EntryState, prefix |-> <<>>]
  <2>1. EntryState.next - 1 = 0
    BY EntryIs DEF Unprocessed
  <2>2. SubSeq(<<>>, 1, 0) = <<>>
    OBVIOUS
  <2> HIDE DEF EntryState
  <2> QED
    BY <2>1, <2>2 DEF Checkpoint
<1> HIDE DEF EntryState, Checkpoint
<1> QED
  BY <1>1, <1>2, <1>3 DEF HistoryInv

(* A snapshot begins: its state has booked all but the new snapshot.       *)
LEMMA HistoryBegins ==
  ASSUME ReplayInv, HistoryInv, BeginSnapshot
  PROVE  HistoryInv'
<1>1. /\ phase = "idle" /\ phase' = "validate" /\ st' = st /\ checkpoints' = checkpoints
      /\ Visible' = st
  BY BeginStep
<1>2. ReplayInv' /\ IsCommitted(st, history) /\ BooksHistory(st, history)
  BY <1>1, BeginStep DEF ReplayInv, HistoryInv
<1>3. /\ IsHistory(history') /\ Before(history') = history /\ Len(history') = Len(history) + 1
      /\ Len(history) \in Nat
  <2>1. PICK x \in SnapshotsAt[st.next] : history' = Append(history, x)
    BY DEF BeginSnapshot
  <2>2. /\ IsHistory(history) /\ st.next = Len(history) + 1 /\ Len(history) \in Nat
        /\ st.next <= limit /\ limit \in 1..Horizon
    BY <1>2 DEF IsCommitted, IsHistory, BeginSnapshot, ReplayInv
  <2> QED
    BY <2>1, <2>2, HistoryGrows, HorizonType
<1>4. Len(history') > 0 /\ Len(history') - 1 = Len(history)
  BY <1>3
<1>5. Agree(history', history, Len(history))
  BY <1>3, <1>4, BeforeAgrees
<1>6. KeepsRows(st, history', Len(history)) /\ BooksCapital(st, history', Len(history))
  BY <1>2, <1>5, AgreeingHistories DEF BooksHistory
<1>7. Len(st.ledger) = Len(history)
  BY <1>2 DEF IsCommitted
<1>8. \A cp \in checkpoints : BooksHistory(cp.state, cp.prefix)
  BY DEF HistoryInv
<1> QED
  BY <1>1, <1>2, <1>3, <1>4, <1>6, <1>7, <1>8 DEF HistoryInv

LEMMA HistoryStep == ReplayInv /\ HistoryInv /\ [Next]_vars => HistoryInv'
<1> SUFFICES ASSUME ReplayInv, HistoryInv, [Next]_vars PROVE HistoryInv'
  OBVIOUS
<1>1. CASE BeginSnapshot
  BY <1>1, HistoryBegins
<1>2. CASE ProcessSnapshot /\ ~Commit
  BY <1>2, InnerHistory
<1>3. CASE Commit
  <2>1. /\ phase = "commit" /\ phase' = "idle" /\ checkpoints' = checkpoints /\ history' = history
        /\ SameCash(st', st) /\ st'.flowIds = st.flowIds /\ st'.ledger = st.ledger
        /\ ReplayInv'
    BY <1>3, CommitStep
  <2>2. Len(st'.ledger) = Len(history)
    BY <2>1 DEF ReplayInv, IsCommitted
  <2>3. KeepsRows(st, history, Len(st.ledger)) /\ BooksCapital(st, history, Len(history))
    BY <2>1 DEF HistoryInv
  <2>4. KeepsRows(st', history, Len(history))
    BY <2>1, <2>2, <2>3 DEF KeepsRows
  <2>5. NoCapital(st', st)
    BY <2>1 DEF NoCapital, SameCash, Posted
  <2>6. BooksHistory(st', history)
    BY <2>3, <2>4, <2>5, SameBooksCapital DEF BooksHistory
  <2> QED
    BY <2>1, <2>6 DEF HistoryInv
<1>4. CASE FailSnapshot
  <2>1. /\ phase # "idle" /\ phase' = "idle" /\ st' = Visible /\ history' = Before(history)
        /\ checkpoints' = checkpoints \union {[state |-> Visible, prefix |-> Before(history)]}
    BY <1>4, FailStep
  <2>2. BooksHistory(Visible, Before(history))
    BY <2>1 DEF HistoryInv
  <2> QED
    BY <2>1, <2>2 DEF HistoryInv
<1>5. CASE FinishRun
  <2>1. /\ phase = "idle" /\ phase' = "idle" /\ st' = st /\ history' = history
        /\ checkpoints' = checkpoints \union {[state |-> st, prefix |-> history]}
    BY <1>5, FinishStep
  <2> QED
    BY <2>1 DEF HistoryInv
<1>6. CASE Restart
  <2>1. PICK cp \in checkpoints : /\ phase' = "idle" /\ st' = cp.state /\ history' = cp.prefix
                                  /\ checkpoints' = checkpoints
    BY <1>6, StartStep DEF Restart
  <2> QED
    BY <2>1 DEF HistoryInv
<1>7. CASE UNCHANGED vars
  BY <1>7 DEF vars, HistoryInv, Visible, Now
<1> QED
  BY <1>1, <1>2, <1>3, <1>4, <1>5, <1>6, <1>7 DEF Next, Proceed

(* However often it stopped and restarted, a run has booked the history it *)
(* was given, each day and each capital movement of it once, each movement *)
(* at the account value of its own snapshot.                               *)
THEOREM HistoryIsBookedOnce == Spec => []HistoryBookedOnce
<1>1. ReplayInv /\ HistoryInv => HistoryBookedOnce
  <2> SUFFICES ASSUME ReplayInv, HistoryInv, phase = "idle"
               PROVE  /\ CapitalBookedOnce /\ LedgerMatchesHistory /\ DiscountedAtOwnAccount
    BY DEF HistoryBookedOnce, CapitalBookedOnce, LedgerMatchesHistory, DiscountedAtOwnAccount
  <2>1. BooksHistory(st, history) /\ IsHistory(history)
    BY DEF ReplayInv, HistoryInv, IsCommitted
  <2>2. CapitalBookedOnce
    <3>1. Len(history) \in 0..Len(history)
      BY <2>1 DEF IsHistory
    <3>2. SubSeq(history, 1, Len(history)) = history
      BY <2>1, <3>1, HistoryCut
    <3>3. Posted(st, "external_capital") = SumOver(LAMBDA s : SumFunction(s.flows), history)
      BY <2>1, <3>2 DEF BooksHistory, BooksCapital, NetUpTo
    <3> QED
      BY <2>1, <3>3 DEF CapitalBookedOnce, BooksHistory, BooksCapital, Posted
  <2>3. LedgerMatchesHistory
    BY <2>1 DEF LedgerMatchesHistory, BooksHistory, KeepsRows, RowFits
  <2>4. DiscountedAtOwnAccount
    BY <2>1 DEF DiscountedAtOwnAccount, BooksHistory, KeepsRows, RowFits, PaidUpTo
  <2> QED
    BY <2>2, <2>3, <2>4
<1>2. Init => ReplayInv /\ HistoryInv
  BY InitStep, HistoryInit
<1>3. ReplayInv /\ HistoryInv /\ [Next]_vars => (ReplayInv /\ HistoryInv)'
  BY ReplayStep, HistoryStep
<1> QED
  BY <1>1, <1>2, <1>3, PTL DEF Spec
-----------------------------------------------------------------------------
(* The inductive invariant.                                                *)

Counted(x, id, n) == IF x.id = id /\ x.at <= n THEN x.quantity ELSE 0

Traded(s, id, n) == SumOver(LAMBDA x : Counted(x, id, n), s.fills)

FilledIn(s) == {k \in 1..Len(s.orders) : s.orders[k].status = "filled"}

(* A rebalance at the last snapshot that the liquidation has overtaken.    *)
Superseded(o) == o.kind = "rebalance" /\ Liquidates /\ o.fillAt = Horizon

Delivered(s, o) ==
  \A id \in Instruments : AliveAt(id, o.fillAt) => Traded(s, id, o.fillAt) = o.want[id]

AsDecided(s) == \A k \in FilledIn(s) : Superseded(s.orders[k]) \/ Delivered(s, s.orders[k])

FillsUpTo(s, n) == \A i \in 1..Len(s.fills) : s.fills[i].at <= n
OrdersUpTo(s, n) == \A k \in FilledIn(s) : s.orders[k].fillAt <= n

(* The fills up to n belong to filled orders.                              *)
Matched(s, n) ==
  \A i \in 1..Len(s.fills) : s.fills[i].at <= n =>
    \E k \in FilledIn(s) : s.orders[k].fillAt = s.fills[i].at

(* What is held and alive from n on is what was traded.                    *)
Mirrors(s, n) ==
  \A m \in 1..Horizon, id \in Instruments :
    n <= m /\ AliveAt(id, m) => Held(s, HedgeSlot(id)) = Traded(s, id, Horizon)

NoHedges(s) == s.stock = 0 /\ \A c \in Contracts : s.hedges[c] = 0

(* A state between snapshots.                                              *)
Complete(s) ==
  LET n == s.next - 1
  IN  /\ AsDecided(s) /\ FillsUpTo(s, n) /\ OrdersUpTo(s, n) /\ Matched(s, n) /\ Mirrors(s, n)
      /\ Liquidates /\ n = Horizon => NoHedges(s)

(* The orders that were filled before this snapshot's current one.         *)
FilledBefore(s, n) == \A k \in FilledIn(s) : s.orders[k].fillAt < n \/ Superseded(s.orders[k])
RebalancedUpTo(s, n) ==
  \A k \in FilledIn(s) : s.orders[k].fillAt < n \/ s.orders[k].kind = "rebalance"

(* The rows that the basket has filled, or need not fill.                  *)
Reached(s, b, n) ==
  \A id \in Instruments \ b.rows : AliveAt(id, n) => Held(s, HedgeSlot(id)) = b.want[id]

Underway(ph, s, b, n) ==
  /\ AsDecided(s) /\ FillsUpTo(s, n) /\ OrdersUpTo(s, n) /\ Mirrors(s, n)
  /\ Matched(s, IF ph = "fill" THEN n - 1 ELSE n)
  /\ ph \in Early \union {"fill"} => FilledBefore(s, n)
  /\ ph = "liquidate" => RebalancedUpTo(s, n)
  /\ ph = "fill" => Reached(s, b, n)
  /\ ph \in {"mark", "decide", "commit"} /\ n = Horizon /\ Liquidates => NoHedges(s)

OrdersInv ==
  /\ \A s \in Seen : Complete(s)
  /\ phase # "idle" => Underway(phase, st, basket, st.next)
-----------------------------------------------------------------------------
(* What was traded.                                                        *)

LEMMA FillTypes ==
  ASSUME NEW s, IsState(s)
  PROVE  /\ s.fills \in Seq(Fill) /\ Len(s.fills) \in Nat /\ Len(s.orders) \in Nat
         /\ \A i \in 1..Len(s.fills) : s.fills[i] \in Fill /\ s.fills[i].at \in Nat
         /\ \A k \in 1..Len(s.orders) : s.orders[k] \in Order /\ s.orders[k].fillAt \in 0..Horizon
         /\ FilledIn(s) \subseteq 1..Len(s.orders)
         /\ s.stock \in Int /\ s.hedges \in [Contracts -> Int]
<1>1. s.fills \in Seq(Fill) /\ s.orders \in Seq(Order) /\ s.stock \in Int
      /\ s.hedges \in [Contracts -> Int]
  BY DEF IsState, StateSet
<1>2. (\A x \in Fill : x.at \in Nat) /\ (\A x \in Order : x.fillAt \in 0..Horizon)
  BY DEF Fill, Order
<1> QED
  BY <1>1, <1>2 DEF FilledIn

(* A fill adds its quantity to what was traded.                            *)
TradesBy(r, s, fill) ==
  \A id, n : /\ {Traded(s, id, n), Counted(fill, id, n)} \subseteq Int
             /\ Traded(r, id, n) = Traded(s, id, n) + Counted(fill, id, n)

LEMMA TradedOfAppend ==
  ASSUME NEW s, NEW r, s.fills \in Seq(Fill), NEW fill \in Fill, r.fills = Append(s.fills, fill)
  PROVE  TradesBy(r, s, fill)
<1> SUFFICES ASSUME NEW id, NEW n
             PROVE  /\ {Traded(s, id, n), Counted(fill, id, n)} \subseteq Int
                    /\ Traded(r, id, n) = Traded(s, id, n) + Counted(fill, id, n)
  BY DEF TradesBy
<1> DEFINE xs == [i \in DOMAIN s.fills |-> Counted(s.fills[i], id, n)]
           ys == [i \in DOMAIN r.fills |-> Counted(r.fills[i], id, n)]
           x  == Counted(fill, id, n)
           N  == Len(s.fills)
<1>1. /\ Len(r.fills) = N + 1 /\ r.fills \in Seq(Fill) /\ N \in Nat
      /\ \A i \in 1..N : r.fills[i] = s.fills[i]
      /\ r.fills[N + 1] = fill
  BY Appended
<1>2. \A y \in Fill : Counted(y, id, n) \in Int
  BY DEF Fill, Counted
<1>3. /\ x \in Int /\ xs \in Seq(Int) /\ Len(xs) = N
      /\ \A i \in 1..N : xs[i] = Counted(s.fills[i], id, n)
  <2>1. DOMAIN s.fills = 1..N /\ \A i \in 1..N : s.fills[i] \in Fill
    OBVIOUS
  <2>2. \A i \in 1..N : Counted(s.fills[i], id, n) \in Int
    BY <1>2, <2>1
  <2> QED
    BY <1>1, <1>2, <2>1, <2>2
<1>4. /\ ys \in Seq(Int) /\ Len(ys) = N + 1
      /\ \A i \in 1..N + 1 : ys[i] = Counted(r.fills[i], id, n)
  <2>1. DOMAIN r.fills = 1..N + 1 /\ \A i \in 1..N + 1 : r.fills[i] \in Fill
    BY <1>1
  <2>2. \A i \in 1..N + 1 : Counted(r.fills[i], id, n) \in Int
    BY <1>2, <2>1
  <2> QED
    BY <1>1, <2>1, <2>2
<1>5. Traded(s, id, n) = Total(xs) /\ Traded(r, id, n) = Total(ys)
  BY DEF Traded, SumOver
<1> HIDE DEF xs, ys, x
<1>6. ys = Append(xs, x)
  <2>1. /\ Append(xs, x) \in Seq(Int) /\ Len(Append(xs, x)) = N + 1
        /\ \A i \in 1..N : Append(xs, x)[i] = xs[i]
        /\ Append(xs, x)[N + 1] = x
    BY <1>3
  <2>2. \A i \in 1..N + 1 : ys[i] = Append(xs, x)[i]
    BY <1>1, <1>3, <1>4, <2>1 DEF x
  <2> QED
    BY <1>4, <2>1, <2>2, SameElements
<1>7. Total(ys) = Total(xs) + x /\ Total(xs) \in Int /\ x \in Int
  BY <1>3, <1>6, TotalOfAppend
<1>8. x = Counted(fill, id, n)
  BY DEF x
<1> QED
  BY <1>5, <1>7, <1>8

LEMMA TradedOfSame ==
  ASSUME NEW s, NEW r, r.fills = s.fills, NEW id, NEW n
  PROVE  Traded(r, id, n) = Traded(s, id, n)
  BY DEF Traded

(* After the last fill, nothing more is traded.                            *)
LEMMA TradedByThen ==
  ASSUME NEW s, IsState(s), NEW n \in Nat, NEW m \in Nat, n <= m, FillsUpTo(s, n), NEW id
  PROVE  Traded(s, id, n) = Traded(s, id, m)
<1> DEFINE xs == [i \in DOMAIN s.fills |-> Counted(s.fills[i], id, n)]
           ys == [i \in DOMAIN s.fills |-> Counted(s.fills[i], id, m)]
<1>1. DOMAIN s.fills = 1..Len(s.fills)
  BY FillTypes
<1>2. ASSUME NEW i \in DOMAIN s.fills
      PROVE  Counted(s.fills[i], id, n) = Counted(s.fills[i], id, m)
  <2>1. s.fills[i].at <= n /\ s.fills[i].at <= m
    BY <1>1, FillTypes DEF FillsUpTo
  <2> QED
    BY <2>1 DEF Counted
<1>3. xs = ys
  BY <1>2
<1> QED
  BY <1>3 DEF Traded, SumOver

LEMMA NothingTraded ==
  ASSUME NEW s, s.fills = <<>>, NEW id, NEW n
  PROVE  Traded(s, id, n) = 0
<1> DEFINE xs == [i \in DOMAIN s.fills |-> Counted(s.fills[i], id, n)]
<1>1. xs = <<>>
  OBVIOUS
<1>2. Traded(s, id, n) = Total(xs)
  BY DEF Traded, SumOver
<1> HIDE DEF xs
<1> QED
  BY <1>1, <1>2, TotalOfNone
-----------------------------------------------------------------------------
(* What keeps a snapshot underway.                                         *)

(* The filled orders of r are those of s.                                  *)
SameFilled(r, s) == FilledIn(r) = FilledIn(s) /\ \A k \in FilledIn(s) : r.orders[k] = s.orders[k]

LEMMA OrdersStayFilled ==
  ASSUME NEW s, NEW r, NEW n, SameFilled(r, s), r.fills = s.fills
  PROVE  /\ AsDecided(s) => AsDecided(r)
         /\ FillsUpTo(s, n) => FillsUpTo(r, n)
         /\ OrdersUpTo(s, n) => OrdersUpTo(r, n)
         /\ Matched(s, n) => Matched(r, n)
         /\ FilledBefore(s, n) => FilledBefore(r, n)
         /\ RebalancedUpTo(s, n) => RebalancedUpTo(r, n)
<1>1. \A o : Delivered(s, o) => Delivered(r, o)
  BY TradedOfSame DEF Delivered
<1> QED
  BY <1>1 DEF SameFilled, AsDecided, FillsUpTo, OrdersUpTo, Matched, FilledBefore, RebalancedUpTo

LEMMA HoldingsStay ==
  ASSUME NEW s, NEW r, NEW n, NEW b, SameHoldings(r, s), r.fills = s.fills
  PROVE  /\ Mirrors(s, n) => Mirrors(r, n)
         /\ Reached(s, b, n) => Reached(r, b, n)
         /\ NoHedges(s) => NoHedges(r)
<1>1. \A slot : Held(r, slot) = Held(s, slot)
  BY DEF Held, SameHoldings
<1>2. \A id : Traded(r, id, Horizon) = Traded(s, id, Horizon)
  BY TradedOfSame
<1> QED
  BY <1>1, <1>2 DEF Mirrors, Reached, NoHedges, SameHoldings

LEMMA SameOrdersFilled ==
  ASSUME NEW s, NEW r, r.orders = s.orders
  PROVE  SameFilled(r, s)
  BY DEF SameFilled, FilledIn

LEMMA AddingKeepsFilled ==
  ASSUME NEW s, NEW r, NEW o, IsState(s), AddedOrder(r, s, o), o.status = "pending"
  PROVE  SameFilled(r, s)
<1>1. Len(s.orders) \in Nat
  BY TableTypes
<1> QED
  BY <1>1 DEF SameFilled, FilledIn, AddedOrder

LEMMA RejectingKeepsFilled ==
  ASSUME NEW s, NEW r, NEW k \in 1..Len(s.orders), NEW outcome, ResolvedOrder(r, s, k, outcome),
         outcome # "filled", s.orders[k].status = "pending"
  PROVE  SameFilled(r, s)
  BY DEF SameFilled, FilledIn, ResolvedOrder

(* Before n, at n.                                                         *)
LEMMA FromThenOn ==
  ASSUME NEW s, IsState(s), NEW n \in Nat, NEW m \in Int, m = n - 1
  PROVE  /\ FillsUpTo(s, m) => FillsUpTo(s, n)
         /\ FillsUpTo(s, m) /\ Matched(s, m) => Matched(s, n)
         /\ Matched(s, n) => Matched(s, m)
         /\ OrdersUpTo(s, m) => OrdersUpTo(s, n) /\ FilledBefore(s, n)
         /\ Mirrors(s, m) => Mirrors(s, n)
         /\ FilledBefore(s, n) => RebalancedUpTo(s, n)
<1>1. /\ \A i \in 1..Len(s.fills) : s.fills[i].at \in Nat
      /\ \A k \in FilledIn(s) : s.orders[k].fillAt \in Nat
  BY FillTypes, HorizonType
<1>2. FillsUpTo(s, m) => FillsUpTo(s, n)
  BY <1>1 DEF FillsUpTo
<1>3. FillsUpTo(s, m) /\ Matched(s, m) => Matched(s, n)
  BY <1>1 DEF FillsUpTo, Matched
<1>4. Matched(s, n) => Matched(s, m)
  BY <1>1 DEF Matched
<1>5. OrdersUpTo(s, m) => OrdersUpTo(s, n) /\ FilledBefore(s, n)
  BY <1>1 DEF OrdersUpTo, FilledBefore
<1>6. Mirrors(s, m) => Mirrors(s, n)
  BY HorizonType DEF Mirrors
<1>7. FilledBefore(s, n) => RebalancedUpTo(s, n)
  BY DEF FilledBefore, RebalancedUpTo, Superseded
<1> QED
  BY <1>2, <1>3, <1>4, <1>5, <1>6, <1>7

(* From one phase to another without a fill.                               *)
LEMMA StaysUnderway ==
  ASSUME NEW s, NEW r, NEW ph, NEW ph2, NEW b, NEW b2, NEW n,
         Underway(ph, s, b, n), ph # "fill", ph2 # "fill",
         SameFilled(r, s), SameHoldings(r, s), r.fills = s.fills,
         ph2 \in Early => ph \in Early,
         ph2 = "liquidate" => RebalancedUpTo(s, n),
         ph2 \in {"mark", "decide", "commit"} /\ n = Horizon /\ Liquidates => NoHedges(s)
  PROVE  Underway(ph2, r, b2, n)
<1>1. /\ AsDecided(s) /\ FillsUpTo(s, n) /\ OrdersUpTo(s, n) /\ Mirrors(s, n) /\ Matched(s, n)
      /\ ph \in Early => FilledBefore(s, n)
  BY DEF Underway
<1>2. AsDecided(r) /\ FillsUpTo(r, n) /\ OrdersUpTo(r, n) /\ Mirrors(r, n) /\ Matched(r, n)
  BY <1>1, OrdersStayFilled, HoldingsStay
<1>3. ph2 \in Early => FilledBefore(r, n)
  BY <1>1, OrdersStayFilled
<1>4. ph2 = "liquidate" => RebalancedUpTo(r, n)
  BY OrdersStayFilled
<1>5. ph2 \in {"mark", "decide", "commit"} /\ n = Horizon /\ Liquidates => NoHedges(r)
  BY HoldingsStay
<1> QED
  BY <1>2, <1>3, <1>4, <1>5 DEF Underway
-----------------------------------------------------------------------------
(* The steps of a snapshot.                                                *)

(* Steps that touch neither orders, fills nor holdings.                    *)
Plain ==
  \/ Validate \/ Carry \/ Capital \/ FixingDone \/ PaymentsDone
  \/ \E claim \in st.receivables : PayDueClaim(claim)
  \/ NoPendingOrder \/ NoLiquidation \/ Mark \/ NoDecision

LEMMA PlainStepsAre ==
  ASSUME ReplayInv, Plain
  PROVE  st'.orders = st.orders /\ st'.fills = st.fills /\ SameHoldings(st', st)
<1>1. CASE Validate \/ FixingDone \/ PaymentsDone \/ NoPendingOrder \/ NoLiquidation \/ NoDecision
  <2>1. st' = st
    BY <1>1 DEF Validate, FixingDone, PaymentsDone, NoPendingOrder, NoLiquidation, NoDecision
  <2> QED
    BY <2>1 DEF SameHoldings
<1>2. CASE Carry
  BY <1>2, CarryStep DEF OnlyBooked, SameOrders
<1>3. CASE Capital
  BY <1>3, CapitalStep DEF OnlyBooked, SameOrders
<1>4. CASE \E claim \in st.receivables : PayDueClaim(claim)
  BY <1>4, PayStep DEF IsPaid, SameOrders
<1>5. CASE Mark
  BY <1>5, MarkStep DEF IsMarked, SameOrders
<1> QED
  BY <1>1, <1>2, <1>3, <1>4, <1>5 DEF Plain

LEMMA PlainStaysUnderway ==
  ASSUME ReplayInv, Plain, Underway(phase, st, basket, st.next)
  PROVE  Underway(phase', st', basket', st.next)
<1> DEFINE n == st.next
<1>1. SameFilled(st', st) /\ SameHoldings(st', st) /\ st'.fills = st.fills
  BY PlainStepsAre, SameOrdersFilled
<1>2. /\ phase # "fill" /\ phase' # "fill"
      /\ phase' \in Early => phase \in Early
      /\ phase' = "liquidate" => phase \in Early
      /\ phase' = "mark" => ~(n = Horizon /\ Liquidates)
      /\ phase' = "decide" => phase = "mark"
      /\ phase' = "commit" => phase = "decide"
  BY DEF Plain, Validate, Carry, Capital, FixingDone, PayDueClaim, PaymentsDone, NoPendingOrder,
         NoLiquidation, Mark, NoDecision, Step, Early, Final
<1>3. phase' = "liquidate" => RebalancedUpTo(st, n)
  <2>1. n \in Nat /\ IsState(st)
    BY KnownAreStates, TableTypes DEF Known
  <2>2. n - 1 \in Int /\ (phase \in Early => FilledBefore(st, n))
    BY <2>1 DEF Underway
  <2> HIDE DEF n
  <2>3. FilledBefore(st, n) => RebalancedUpTo(st, n)
    BY DEF FilledBefore, RebalancedUpTo, Superseded
  <2> QED
    BY <1>2, <2>2, <2>3
<1>4. phase' \in {"mark", "decide", "commit"} /\ n = Horizon /\ Liquidates => NoHedges(st)
  BY <1>2 DEF Underway
<1> HIDE DEF n
<1>5. Underway(phase, st, basket, n)
  BY DEF n
<1>6. Underway(phase', st', basket', n)
  BY <1>1, <1>2, <1>3, <1>4, <1>5, StaysUnderway
<1> QED
  BY <1>6 DEF n

(* A fixing takes away what is no longer alive.                            *)
LEMMA FixStaysUnderway ==
  ASSUME ReplayInv, NEW g \in HoldingGroups, NEW c \in Contracts, FixHolding(g, c),
         Underway(phase, st, basket, st.next)
  PROVE  Underway(phase', st', basket', st.next)
<1> DEFINE n == st.next
           slot == <<g, c>>
<1>1. PICK amount \in Int, keep \in BOOLEAN : IsFixed(st', st, slot, amount, keep)
  BY FixStep
<1>2. phase = "fix" /\ phase' = "fix" /\ Expiry[c] = At[n]
  BY DEF FixHolding, Step, Today
<1>3. IsState(st) /\ n \in 1..Horizon
  <2>1. InSnapshot(Visible, phase, st, basket, history)
    BY <1>2 DEF ReplayInv
  <2> QED
    BY <2>1, TodaysMarket
<1>4. slot \in HoldingGroups \X Contracts
  OBVIOUS
<1>5. st'.orders = st.orders /\ st'.fills = st.fills /\ st'.stock = st.stock
  BY <1>1 DEF IsFixed, SameOrders
<1>6. ASSUME NEW m \in 1..Horizon, NEW id \in Instruments, n <= m, AliveAt(id, m)
      PROVE  Held(st', HedgeSlot(id)) = Held(st, HedgeSlot(id))
  <2>1. CASE id = Spot
    BY <1>5, <2>1 DEF HedgeSlot, Held
  <2>2. CASE id # Spot
    <3>1. HedgeSlot(id) = <<"hedges", id>> /\ id \in Contracts
          /\ HedgeSlot(id) \in HoldingGroups \X Contracts
      BY <2>2 DEF HedgeSlot, Instruments, HoldingGroups
    <3>2. At[n] <= At[m] /\ At[n] \in Nat /\ At[m] \in Nat
      BY <1>3, <1>6, DatesIncrease
    <3>3. Expiry[id] > At[m] /\ Expiry[id] \in Nat
      BY <1>6, <2>2, <3>1, ContractAssumption DEF AliveAt
    <3>4. id # c
      BY <1>2, <3>2, <3>3
    <3>5. HedgeSlot(id) # slot
      BY <3>1, <3>4
    <3> HIDE DEF slot
    <3> QED
      BY <1>1, <1>3, <1>4, <3>1, <3>5, HeldOnceFixed
  <2> QED
    BY <2>1, <2>2
<1>7. /\ AsDecided(st) /\ FillsUpTo(st, n) /\ OrdersUpTo(st, n) /\ Mirrors(st, n)
      /\ Matched(st, n) /\ FilledBefore(st, n)
  BY <1>2 DEF Underway, Early
<1> HIDE DEF n, slot
<1>8. /\ AsDecided(st') /\ FillsUpTo(st', n) /\ OrdersUpTo(st', n)
      /\ Matched(st', n) /\ FilledBefore(st', n)
  BY <1>5, <1>7, SameOrdersFilled, OrdersStayFilled
<1>9. Mirrors(st', n)
  <2>1. \A id : Traded(st', id, Horizon) = Traded(st, id, Horizon)
    BY <1>5, TradedOfSame
  <2> QED
    BY <1>6, <1>7, <2>1 DEF Mirrors
<1>10. Underway("fix", st', basket', n)
  BY <1>8, <1>9 DEF Underway
<1> QED
  BY <1>2, <1>10 DEF n

LEMMA RejectStaysUnderway ==
  ASSUME ReplayInv, RejectPending, Underway(phase, st, basket, st.next)
  PROVE  Underway(phase', st', basket', st.next)
<1> DEFINE n == st.next
<1>1. phase = "execute" /\ phase' = "liquidate" /\ st.pending # 0
  BY DEF RejectPending, Step
<1>2. PICK outcome \in {"rejected_cash_limit", "rejected_gross_limit"} :
        ResolvedOrder(st', st, st.pending, outcome)
  BY RejectStep
<1>3. SameHoldings(st', st) /\ st'.fills = st.fills
  BY RejectStep DEF SameButOrders
<1>4. st.pending \in 1..Len(st.orders) /\ st.orders[st.pending].status = "pending"
  <2>1. InSnapshot(Visible, "execute", st, basket, history)
    BY <1>1 DEF ReplayInv
  <2>2. SameOrders(st, Visible)
    BY <2>1 DEF InSnapshot, OrdersIn, Early
  <2> QED
    BY <1>1, <2>1, <2>2, PendingOrder
<1>5. SameFilled(st', st)
  <2>1. outcome # "filled"
    OBVIOUS
  <2> QED
    BY <1>2, <1>4, <2>1, RejectingKeepsFilled
<1>6. RebalancedUpTo(st, n)
  BY <1>1 DEF Underway, Early, FilledBefore, RebalancedUpTo, Superseded
<1> HIDE DEF n
<1>7. Underway(phase, st, basket, n)
  BY DEF n
<1>8. Underway(phase', st', basket', n)
  BY <1>1, <1>3, <1>5, <1>6, <1>7, StaysUnderway DEF Early
<1> QED
  BY <1>8 DEF n

(* What is not in the rows of an order is held as wanted, or not alive.    *)
LEMMA RowsReach ==
  ASSUME NEW s, NEW b, b.rows = Rows(s, b.want)
  PROVE  Reached(s, b, s.next)
  BY DEF Reached, Rows, AliveAt

LEMMA AcceptStaysUnderway ==
  ASSUME ReplayInv, AcceptPending, Underway(phase, st, basket, st.next)
  PROVE  Underway(phase', st', basket', st.next)
<1> DEFINE n == st.next
<1>1. /\ phase = "execute" /\ phase' = "fill" /\ st' = st
      /\ basket' = [order |-> st.pending, rows |-> Rows(st, Wanted(st.pending)),
                    want |-> Wanted(st.pending)]
  BY DEF AcceptPending, Step
<1>2. IsState(st) /\ n \in Nat /\ n - 1 \in Int
  BY KnownAreStates, TableTypes DEF Known
<1>3. basket'.rows = Rows(st, basket'.want)
  BY <1>1
<1>4. Reached(st, basket', n)
  BY <1>3, RowsReach
<1>5. /\ AsDecided(st) /\ FillsUpTo(st, n) /\ OrdersUpTo(st, n) /\ Mirrors(st, n)
      /\ Matched(st, n) /\ FilledBefore(st, n)
  BY <1>1 DEF Underway, Early
<1> HIDE DEF n
<1>6. Matched(st, n - 1)
  BY <1>2, <1>5, FromThenOn
<1>7. Underway("fill", st, basket', n)
  BY <1>4, <1>5, <1>6 DEF Underway
<1> QED
  BY <1>1, <1>7 DEF n

LEMMA LiquidationStaysUnderway ==
  ASSUME ReplayInv, StartLiquidation, Underway(phase, st, basket, st.next)
  PROVE  Underway(phase', st', basket', st.next)
<1> DEFINE n == st.next
           o == LiquidationOrder
<1>1. /\ phase = "liquidate" /\ phase' = "fill" /\ n = Horizon /\ Liquidates
      /\ basket'.want = o.want /\ basket'.rows = Rows(st, o.want)
  BY DEF StartLiquidation, Step, Final
<1>2. IsState(st) /\ n \in Nat /\ n - 1 \in Int
  BY KnownAreStates, TableTypes DEF Known
<1>3. /\ SameButOrders(st', st) /\ AddedOrder(st', st, o)
  BY LiquidationStep
<1>4. SameFilled(st', st) /\ SameHoldings(st', st) /\ st'.fills = st.fills
  <2>1. o.status = "pending"
    BY DEF LiquidationOrder
  <2> HIDE DEF o
  <2> QED
    BY <1>2, <1>3, <2>1, AddingKeepsFilled DEF SameButOrders
<1>5. Reached(st, basket', n)
  BY <1>1, RowsReach
<1>6. /\ AsDecided(st) /\ FillsUpTo(st, n) /\ OrdersUpTo(st, n) /\ Mirrors(st, n)
      /\ Matched(st, n) /\ RebalancedUpTo(st, n)
  BY <1>1 DEF Underway
<1>7. FilledBefore(st, n)
  <2>1. \A k \in FilledIn(st) : st.orders[k].fillAt \in Nat
    BY <1>2, FillTypes, HorizonType
  <2>2. \A k \in FilledIn(st) : st.orders[k].fillAt < n \/ st.orders[k].fillAt = n
    BY <1>2, <1>6, <2>1 DEF OrdersUpTo
  <2> QED
    BY <1>1, <1>6, <2>2 DEF RebalancedUpTo, FilledBefore, Superseded
<1> HIDE DEF n, o
<1>8. Matched(st, n - 1)
  BY <1>2, <1>6, FromThenOn
<1>9. /\ AsDecided(st') /\ FillsUpTo(st', n) /\ OrdersUpTo(st', n) /\ Matched(st', n - 1)
      /\ FilledBefore(st', n)
  BY <1>4, <1>6, <1>7, <1>8, OrdersStayFilled
<1>10. Mirrors(st', n) /\ Reached(st', basket', n)
  BY <1>4, <1>5, <1>6, HoldingsStay
<1>11. Underway("fill", st', basket', n)
  BY <1>9, <1>10 DEF Underway
<1> QED
  BY <1>1, <1>11 DEF n

LEMMA DecideStaysUnderway ==
  ASSUME ReplayInv, Decide, Underway(phase, st, basket, st.next)
  PROVE  Underway(phase', st', basket', st.next)
<1> DEFINE n == st.next
<1>1. phase = "decide" /\ phase' = "commit"
  BY DEF Decide, Step
<1>2. IsState(st)
  BY KnownAreStates DEF Known
<1>3. PICK want \in [Instruments -> Int] :
        SameButOrders(st', st) /\ AddedOrder(st', st, DecidedOrder(want))
  BY DecideStep
<1>4. SameFilled(st', st) /\ SameHoldings(st', st) /\ st'.fills = st.fills
  <2> DEFINE o == DecidedOrder(want)
  <2>1. o.status = "pending" /\ AddedOrder(st', st, o)
    BY <1>3 DEF DecidedOrder
  <2> HIDE DEF o
  <2> QED
    BY <1>2, <1>3, <2>1, AddingKeepsFilled DEF SameButOrders
<1>5. n = Horizon /\ Liquidates => NoHedges(st)
  BY <1>1 DEF Underway
<1> HIDE DEF n
<1>6. Underway(phase, st, basket, n)
  BY DEF n
<1>7. Underway(phase', st', basket', n)
  BY <1>1, <1>4, <1>5, <1>6, StaysUnderway DEF Early
<1> QED
  BY <1>7 DEF n

(* A fill moves what is held of its instrument, by what it trades.         *)
HoldsBy(r, s, id, change) ==
  \A x \in Instruments :
    Held(r, HedgeSlot(x)) = Held(s, HedgeSlot(x)) + (IF x = id THEN change ELSE 0)

LEMMA HeldOnceTraded ==
  ASSUME NEW s, NEW r, IsState(s), NEW id \in Instruments, NEW change \in Int,
         IsFilled(r, s, id, change)
  PROVE  HoldsBy(r, s, id, change)
<1> SUFFICES ASSUME NEW x \in Instruments
             PROVE  Held(r, HedgeSlot(x))
                      = Held(s, HedgeSlot(x)) + (IF x = id THEN change ELSE 0)
  BY DEF HoldsBy
<1>1. s.stock \in Int /\ s.hedges \in [Contracts -> Int]
  BY DEF IsState, StateSet
<1>2. /\ id = Spot => r.stock = s.stock + change /\ r.hedges = s.hedges
      /\ id # Spot => r.stock = s.stock /\ r.hedges = [s.hedges EXCEPT ![id] = @ + change]
  BY DEF IsFilled
<1>3. x # Spot => x \in Contracts
  BY DEF Instruments
<1>4. CASE x = Spot
  <2>1. Held(r, HedgeSlot(x)) = r.stock /\ Held(s, HedgeSlot(x)) = s.stock
    BY <1>4 DEF Held, HedgeSlot
  <2> QED
    BY <1>1, <1>2, <1>4, <2>1
<1>5. CASE x # Spot
  <2>1. Held(r, HedgeSlot(x)) = r.hedges[x] /\ Held(s, HedgeSlot(x)) = s.hedges[x]
    BY <1>5 DEF Held, HedgeSlot
  <2>2. s.hedges[x] \in Int
    BY <1>1, <1>3, <1>5
  <2> QED
    BY <1>1, <1>2, <1>3, <1>5, <2>1, <2>2
<1> QED
  BY <1>4, <1>5

LEMMA FillStaysUnderway ==
  ASSUME ReplayInv, NEW id \in Instruments, FillRow(id), Underway(phase, st, basket, st.next)
  PROVE  Underway(phase', st', basket', st.next)
<1> DEFINE n == st.next
           change == ChangeOf(st, basket.want, id)
<1>1. /\ phase = "fill" /\ phase' = "fill"
      /\ basket' = [basket EXCEPT !.rows = @ \ {id}]
  BY DEF FillRow, Step
<1>2. IsState(st) /\ IsState(st') /\ n \in 1..Horizon /\ IsBasket(basket)
  <2>1. InSnapshot(Visible, phase, st, basket, history)
    BY <1>1 DEF ReplayInv
  <2>2. InSnapshot(Visible, phase', st', basket', history)
    BY FillStep
  <2> QED
    BY <2>1, <2>2, TodaysMarket DEF InSnapshot
<1>3. Horizon \in Nat /\ n \in Nat
  BY <1>2, HorizonType
<1>4. basket'.want = basket.want /\ basket'.rows = basket.rows \ {id}
  BY <1>1, <1>2 DEF IsBasket
<1>5. change \in Int /\ \A x \in Instruments : Held(st, HedgeSlot(x)) \in Int
  <2>1. \A x \in Instruments : Held(st, HedgeSlot(x)) \in Int
    BY <1>2 DEF Held, HedgeSlot, IsState, StateSet, Instruments
  <2> QED
    BY <1>2, <2>1 DEF IsBasket, ChangeOf
<1>6. basket.want[id] \in Int /\ change = basket.want[id] - Held(st, HedgeSlot(id))
  BY <1>2 DEF IsBasket, ChangeOf
<1>7. IsFilled(st', st, id, change)
  BY FillStep
<1>8. /\ AsDecided(st) /\ FillsUpTo(st, n) /\ OrdersUpTo(st, n) /\ Mirrors(st, n)
      /\ Matched(st, n - 1) /\ FilledBefore(st, n) /\ Reached(st, basket, n)
  BY <1>1 DEF Underway
<1> HIDE DEF n, change
<1>9. PICK fill \in Fill : /\ st'.fills = Append(st.fills, fill)
                           /\ fill.at = n /\ fill.id = id /\ fill.quantity = change
  BY <1>7 DEF IsFilled, n
<1>10. /\ st.fills \in Seq(Fill) /\ Len(st.fills) \in Nat
       /\ Len(st'.fills) = Len(st.fills) + 1
       /\ \A i \in 1..Len(st.fills) : st'.fills[i] = st.fills[i]
       /\ st'.fills[Len(st.fills) + 1] = fill
  BY <1>2, <1>9, FillTypes, Appended
<1>11. TradesBy(st', st, fill)
  BY <1>9, <1>10, TradedOfAppend
<1>12. FilledIn(st') = FilledIn(st) /\ st'.orders = st.orders
  BY <1>7 DEF IsFilled, SameOrders, FilledIn
<1>13. AsDecided(st')
  <2>1. ASSUME NEW k \in FilledIn(st), ~Superseded(st.orders[k])
        PROVE  Delivered(st', st.orders[k])
    <3>1. Delivered(st, st.orders[k]) /\ st.orders[k].fillAt < n
      BY <1>8, <2>1 DEF AsDecided, FilledBefore
    <3>2. st.orders[k].fillAt \in Nat
      BY <1>2, FillTypes, HorizonType
    <3>3. \A x : Counted(fill, x, st.orders[k].fillAt) = 0
      BY <1>3, <1>9, <3>1, <3>2 DEF Counted
    <3>4. \A x : Traded(st', x, st.orders[k].fillAt) = Traded(st, x, st.orders[k].fillAt)
      BY <1>11, <3>3 DEF TradesBy
    <3> QED
      BY <3>1, <3>4 DEF Delivered
  <2> QED
    BY <1>12, <2>1 DEF AsDecided
<1>14. FillsUpTo(st', n)
  <2>1. ASSUME NEW i \in 1..Len(st'.fills)
        PROVE  st'.fills[i].at <= n
    <3>1. i \in 1..Len(st.fills) \/ i = Len(st.fills) + 1
      BY <1>10
    <3> QED
      BY <1>3, <1>8, <1>9, <1>10, <3>1 DEF FillsUpTo
  <2> QED
    BY <2>1 DEF FillsUpTo
<1>15. OrdersUpTo(st', n) /\ FilledBefore(st', n)
  BY <1>8, <1>12 DEF OrdersUpTo, FilledBefore
<1>16. Matched(st', n - 1)
  <2>1. ASSUME NEW i \in 1..Len(st'.fills), st'.fills[i].at <= n - 1
        PROVE  i \in 1..Len(st.fills) /\ st'.fills[i] = st.fills[i]
    BY <1>3, <1>9, <1>10, <2>1
  <2> QED
    BY <1>8, <1>12, <2>1 DEF Matched
<1>17. HoldsBy(st', st, id, change)
  BY <1>2, <1>5, <1>7, HeldOnceTraded
<1>18. Mirrors(st', n)
  <2>1. ASSUME NEW x \in Instruments, Held(st, HedgeSlot(x)) = Traded(st, x, Horizon)
        PROVE  Held(st', HedgeSlot(x)) = Traded(st', x, Horizon)
    <3>1. Counted(fill, x, Horizon) = IF x = id THEN change ELSE 0
      BY <1>2, <1>9 DEF Counted
    <3>2. Traded(st', x, Horizon) = Traded(st, x, Horizon) + Counted(fill, x, Horizon)
      BY <1>11 DEF TradesBy
    <3> QED
      BY <1>17, <2>1, <3>1, <3>2 DEF HoldsBy
  <2> QED
    BY <1>8, <2>1 DEF Mirrors
<1>19. Reached(st', basket', n)
  <2>1. ASSUME NEW x \in Instruments \ basket'.rows, AliveAt(x, n)
        PROVE  Held(st', HedgeSlot(x)) = basket'.want[x]
    <3>1. CASE x = id
      BY <1>4, <1>5, <1>6, <1>17, <3>1 DEF HoldsBy
    <3>2. CASE x # id
      <4>1. x \in Instruments \ basket.rows
        BY <1>4, <2>1, <3>2
      <4>2. Held(st, HedgeSlot(x)) = basket.want[x]
        BY <1>8, <2>1, <4>1 DEF Reached
      <4> QED
        BY <1>4, <1>5, <1>17, <2>1, <3>2, <4>2 DEF HoldsBy
    <3> QED
      BY <3>1, <3>2
  <2> QED
    BY <2>1 DEF Reached
<1>20. Underway("fill", st', basket', n)
  BY <1>13, <1>14, <1>15, <1>16, <1>18, <1>19 DEF Underway, Early
<1> QED
  BY <1>1, <1>20 DEF n

(* What a filled basket leaves behind is what its order wanted.            *)
LEMMA BasketDelivers ==
  ASSUME NEW s, NEW o, NEW b, NEW n, IsState(s), n \in 1..Horizon, o.fillAt = n, o.want = b.want,
         b.rows = {}, FillsUpTo(s, n), Mirrors(s, n), Reached(s, b, n)
  PROVE  Delivered(s, o)
<1>1. ASSUME NEW id \in Instruments, AliveAt(id, n)
      PROVE  Traded(s, id, n) = o.want[id]
  <2>1. Horizon \in Nat /\ n \in Nat /\ n <= Horizon
    BY HorizonType
  <2>2. Traded(s, id, n) = Traded(s, id, Horizon)
    BY <2>1, TradedByThen
  <2>3. Held(s, HedgeSlot(id)) = Traded(s, id, Horizon)
    BY <1>1, <2>1 DEF Mirrors
  <2>4. Held(s, HedgeSlot(id)) = b.want[id]
    BY <1>1 DEF Reached
  <2> QED
    BY <2>2, <2>3, <2>4
<1> QED
  BY <1>1 DEF Delivered

(* A basket that wants nothing leaves no hedge.                            *)
LEMMA LiquidatesAll ==
  ASSUME NEW s, NEW b, NEW n, IsState(s), n \in 1..Horizon, NoneExpired(s, n), b.rows = {},
         b.want = [id \in Instruments |-> 0], Reached(s, b, n)
  PROVE  NoHedges(s)
<1>1. \A id \in Instruments : AliveAt(id, n) => Held(s, HedgeSlot(id)) = 0
  BY DEF Reached
<1>2. s.stock = 0
  <2>1. Spot \in Instruments /\ AliveAt(Spot, n) /\ Held(s, HedgeSlot(Spot)) = s.stock
    BY DEF Instruments, AliveAt, HedgeSlot, Held
  <2> QED
    BY <1>1, <2>1
<1>3. ASSUME NEW c \in Contracts
      PROVE  s.hedges[c] = 0
  <2>1. /\ c \in Instruments /\ c # Spot /\ HedgeSlot(c) = <<"hedges", c>>
        /\ Held(s, <<"hedges", c>>) = s.hedges[c]
    BY ContractAssumption DEF Instruments, HedgeSlot, Held
  <2>2. CASE Expiry[c] > At[n]
    BY <1>1, <2>1, <2>2 DEF AliveAt
  <2>3. CASE ~(Expiry[c] > At[n])
    BY <2>1, <2>3 DEF NoneExpired, HoldingGroups
  <2> QED
    BY <2>2, <2>3
<1> QED
  BY <1>2, <1>3 DEF NoHedges

LEMMA BasketStaysUnderway ==
  ASSUME ReplayInv, ClaimsInv, BasketFilled, Underway(phase, st, basket, st.next)
  PROVE  Underway(phase', st', basket', st.next)
<1> DEFINE n == st.next
           k == basket.order
           v == Visible
<1>1. /\ phase = "fill" /\ basket.rows = {}
      /\ phase' = IF st.orders[k].kind = "rebalance" THEN "liquidate" ELSE "mark"
  BY DEF BasketFilled
<1>2. InSnapshot(v, "fill", st, basket, history)
  BY <1>1 DEF ReplayInv
<1>3. /\ SameButOrders(st', st) /\ ResolvedOrder(st', st, k, "filled")
  BY BasketStep
<1>4. IsState(st) /\ n \in 1..Horizon /\ n \in Nat
  BY <1>2, TodaysMarket, HorizonType
<1>5. /\ k \in 1..Len(st.orders) /\ st.orders[k].status = "pending"
      /\ st.orders[k].kind # "rebalance" => FillsLiquidation(st, v, basket)
  BY <1>2, BasketOrder
<1>6. basket.want = st.orders[k].want
  BY <1>2 DEF InSnapshot, OrdersIn
<1>7. /\ AsDecided(st) /\ FillsUpTo(st, n) /\ OrdersUpTo(st, n) /\ Mirrors(st, n)
      /\ Matched(st, n - 1) /\ FilledBefore(st, n) /\ Reached(st, basket, n)
  BY <1>1 DEF Underway
<1>8. SameHoldings(st', st) /\ st'.fills = st.fills /\ IsState(st')
  BY <1>3 DEF SameButOrders
<1> HIDE DEF n, k, v
<1>9. /\ Len(st'.orders) = Len(st.orders)
      /\ \A j \in 1..Len(st.orders) : j # k => st'.orders[j] = st.orders[j]
      /\ st'.orders[k].status = "filled" /\ st'.orders[k].fillAt = n
      /\ st'.orders[k].want = st.orders[k].want /\ st'.orders[k].kind = st.orders[k].kind
  BY <1>3 DEF ResolvedOrder, n
<1>10. /\ FilledIn(st') = FilledIn(st) \union {k} /\ k \notin FilledIn(st)
       /\ \A j \in FilledIn(st) : st'.orders[j] = st.orders[j]
  BY <1>5, <1>9 DEF FilledIn
<1>11. FillsUpTo(st', n) /\ Mirrors(st', n)
  BY <1>7, <1>8, HoldingsStay DEF FillsUpTo
<1>12. Reached(st', basket, n)
  BY <1>7, <1>8, HoldingsStay
<1>13. AsDecided(st')
  <2>1. Delivered(st', st'.orders[k])
    BY <1>1, <1>4, <1>6, <1>8, <1>9, <1>11, <1>12, BasketDelivers
  <2>2. \A o : Delivered(st, o) => Delivered(st', o)
    BY <1>8, TradedOfSame DEF Delivered
  <2> QED
    BY <1>7, <1>10, <2>1, <2>2 DEF AsDecided
<1>14. OrdersUpTo(st', n)
  BY <1>4, <1>7, <1>9, <1>10 DEF OrdersUpTo
<1>15. Matched(st', n)
  <2>1. ASSUME NEW i \in 1..Len(st.fills), st.fills[i].at <= n
        PROVE  \E j \in FilledIn(st') : st'.orders[j].fillAt = st.fills[i].at
    <3>1. st.fills[i].at \in Nat
      BY <1>4, FillTypes
    <3>2. CASE st.fills[i].at = n
      BY <1>9, <1>10, <3>2
    <3>3. CASE st.fills[i].at <= n - 1
      BY <1>7, <1>10, <3>3 DEF Matched
    <3> QED
      BY <1>4, <2>1, <3>1, <3>2, <3>3
  <2> QED
    BY <1>8, <2>1 DEF Matched
<1>16. phase' = "liquidate" => RebalancedUpTo(st', n)
  <2>1. RebalancedUpTo(st, n)
    BY <1>7 DEF FilledBefore, RebalancedUpTo, Superseded
  <2> QED
    BY <1>1, <1>9, <1>10, <2>1 DEF RebalancedUpTo
<1>17. phase' = "mark" => NoHedges(st')
  <2>1. ASSUME phase' = "mark"
        PROVE  basket.want = [id \in Instruments |-> 0]
    BY <1>1, <1>5, <1>6, <2>1 DEF FillsLiquidation, k
  <2>2. NoneExpired(st, n)
    BY <1>1 DEF ClaimsInv, AfterPay, n
  <2>3. NoneExpired(st', n)
    BY <1>8, <2>2, SameHeld
  <2> QED
    BY <1>1, <1>4, <1>8, <1>12, <2>1, <2>3, LiquidatesAll
<1>18. phase' \in {"liquidate", "mark"}
  BY <1>1
<1>19. Underway(phase', st', basket', n)
  BY <1>11, <1>13, <1>14, <1>15, <1>16, <1>17, <1>18 DEF Underway, Early
<1> QED
  BY <1>19 DEF n
-----------------------------------------------------------------------------
(* The invariant is kept from snapshot to snapshot.                        *)

LEMMA InnerStaysUnderway ==
  ASSUME ReplayInv, ClaimsInv, ProcessSnapshot, ~Commit, Underway(phase, st, basket, st.next)
  PROVE  Underway(phase', st', basket', st'.next)
<1>1. st'.next = st.next
  BY InnerNext
<1>2. Underway(phase', st', basket', st.next)
  <2>1. CASE Plain
    BY <2>1, PlainStaysUnderway
  <2>2. CASE \E g \in HoldingGroups, c \in Contracts : FixHolding(g, c)
    BY <2>2, FixStaysUnderway
  <2>3. CASE RejectPending
    BY <2>3, RejectStaysUnderway
  <2>4. CASE AcceptPending
    BY <2>4, AcceptStaysUnderway
  <2>5. CASE StartLiquidation
    BY <2>5, LiquidationStaysUnderway
  <2>6. CASE \E id \in Instruments : FillRow(id)
    BY <2>6, FillStaysUnderway
  <2>7. CASE BasketFilled
    BY <2>7, BasketStaysUnderway
  <2>8. CASE Decide
    BY <2>8, DecideStaysUnderway
  <2> QED
    BY <2>1, <2>2, <2>3, <2>4, <2>5, <2>6, <2>7, <2>8 DEF ProcessSnapshot, Plain
<1> QED
  BY <1>1, <1>2

LEMMA CommitCompletes ==
  ASSUME ReplayInv, Commit, Underway(phase, st, basket, st.next)
  PROVE  Complete(st')
<1> DEFINE n == st.next
<1>1. /\ phase = "commit" /\ st'.next = n + 1 /\ st'.orders = st.orders
      /\ SameHoldings(st', st) /\ st'.fills = st.fills
  BY CommitStep DEF SameOrders
<1>2. n \in Nat
  BY KnownAreStates, TableTypes DEF Known
<1>3. /\ AsDecided(st) /\ FillsUpTo(st, n) /\ OrdersUpTo(st, n) /\ Mirrors(st, n)
      /\ Matched(st, n)
      /\ n = Horizon /\ Liquidates => NoHedges(st)
  BY <1>1 DEF Underway
<1> HIDE DEF n
<1>4. /\ AsDecided(st') /\ FillsUpTo(st', n) /\ OrdersUpTo(st', n) /\ Matched(st', n)
  BY <1>1, <1>3, SameOrdersFilled, OrdersStayFilled
<1>5. Mirrors(st', n) /\ (NoHedges(st) => NoHedges(st'))
  BY <1>1, <1>3, HoldingsStay
<1>6. st'.next - 1 = n
  BY <1>1, <1>2
<1> QED
  BY <1>3, <1>4, <1>5, <1>6 DEF Complete

LEMMA BeginsUnderway ==
  ASSUME NEW s, IsState(s), Complete(s), NEW b
  PROVE  Underway("validate", s, b, s.next)
<1> DEFINE n == s.next
           m == s.next - 1
<1>1. n \in Nat /\ m \in Int /\ m = n - 1
  BY TableTypes
<1>2. AsDecided(s) /\ FillsUpTo(s, m) /\ OrdersUpTo(s, m) /\ Matched(s, m) /\ Mirrors(s, m)
  BY DEF Complete
<1> HIDE DEF n, m
<1>3. FillsUpTo(s, n) /\ Matched(s, n) /\ OrdersUpTo(s, n) /\ FilledBefore(s, n) /\ Mirrors(s, n)
  BY <1>1, <1>2, FromThenOn
<1>4. Underway("validate", s, b, n)
  BY <1>2, <1>3 DEF Underway
<1> QED
  BY <1>4 DEF n

LEMMA OrdersStep ==
  ASSUME ReplayInv, ClaimsInv, OrdersInv, [Next]_vars
  PROVE  OrdersInv'
<1>1. /\ ReplayInv'
      /\ Commit \/ Seen' \subseteq Seen
      /\ Commit => Seen' \subseteq Seen \union {st'}
  BY NewStates
<1>2. \A s \in Seen' : Complete(s)
  <2>1. CASE Commit
    <3>1. Underway(phase, st, basket, st.next)
      BY <2>1, CommitStep DEF OrdersInv
    <3>2. Complete(st')
      BY <2>1, <3>1, CommitCompletes
    <3> QED
      BY <1>1, <2>1, <3>2 DEF OrdersInv
  <2>2. CASE ~Commit
    BY <1>1, <2>2 DEF OrdersInv
  <2> QED
    BY <2>1, <2>2
<1>3. phase' # "idle" => Underway(phase', st', basket', st'.next)
  <2>1. CASE ProcessSnapshot /\ ~Commit
    <3>1. Underway(phase, st, basket, st.next)
      BY <2>1, InnerNext DEF OrdersInv
    <3> QED
      BY <2>1, <3>1, InnerStaysUnderway
  <2>2. CASE BeginSnapshot
    <3>1. phase' = "validate" /\ st' = st /\ Visible = st
      BY <2>2, BeginStep
    <3>2. IsState(st) /\ Complete(st)
      BY <3>1, KnownAreStates DEF OrdersInv, Known, Seen
    <3>3. Underway("validate", st, basket', st.next)
      BY <3>2, BeginsUnderway
    <3> QED
      BY <3>1, <3>3
  <2>3. CASE Commit
    BY <2>3, CommitStep
  <2>4. CASE FailSnapshot
    BY <2>4, FailStep
  <2>5. CASE FinishRun
    BY <2>5, FinishStep
  <2>6. CASE Restart
    BY <2>6, StartStep DEF Restart
  <2>7. CASE UNCHANGED vars
    BY <2>7 DEF vars, OrdersInv
  <2> QED
    BY <2>1, <2>2, <2>3, <2>4, <2>5, <2>6, <2>7 DEF Next, Proceed
<1> QED
  BY <1>2, <1>3 DEF OrdersInv

LEMMA OrdersInit == Init => OrdersInv
<1> SUFFICES ASSUME Init PROVE OrdersInv
  OBVIOUS
<1> DEFINE s == EntryState
<1>1. Seen = {s} /\ phase = "idle"
  BY InitStates DEF Init
<1>2. Unprocessed(s)
  BY EntryIs
<1> HIDE DEF s
<1>3. /\ s.next = 1 /\ s.stock = 0 /\ s.hedges = [c \in Contracts |-> 0]
      /\ s.orders = <<>> /\ s.fills = <<>>
  BY <1>2 DEF Unprocessed
<1>4. FilledIn(s) = {} /\ 1..Len(s.fills) = {}
  BY <1>3 DEF FilledIn
<1>5. /\ AsDecided(s) /\ FillsUpTo(s, 0) /\ OrdersUpTo(s, 0) /\ Matched(s, 0)
  BY <1>4 DEF AsDecided, FillsUpTo, OrdersUpTo, Matched
<1>6. Mirrors(s, 0)
  <2>1. \A id \in Instruments : Held(s, HedgeSlot(id)) = 0
    BY <1>3 DEF Held, HedgeSlot, Instruments
  <2>2. \A id : Traded(s, id, Horizon) = 0
    BY <1>3, NothingTraded
  <2> QED
    BY <2>1, <2>2 DEF Mirrors
<1>7. NoHedges(s) /\ s.next - 1 = 0
  BY <1>3 DEF NoHedges
<1>8. Complete(s)
  BY <1>5, <1>6, <1>7 DEF Complete
<1> QED
  BY <1>1, <1>8 DEF OrdersInv

LEMMA OrdersStaySound == Spec => [](ReplayInv /\ ClaimsInv /\ OrdersInv)
<1>1. Init => ReplayInv /\ ClaimsInv /\ OrdersInv
  BY InitStep, ClaimsInit, OrdersInit
<1>2. ReplayInv /\ ClaimsInv /\ OrdersInv /\ [Next]_vars => (ReplayInv /\ ClaimsInv /\ OrdersInv)'
  BY ReplayStep, ClaimsStep, OrdersStep
<1> QED
  BY <1>1, <1>2, PTL DEF Spec
-----------------------------------------------------------------------------
(* Every order is pending or over, and at most one is pending.             *)
LEMMA OrderStates ==
  ASSUME ReplayInv
  PROVE  /\ \A k \in 1..Len(st.orders) : IsOver(st.orders[k]) \/ st.orders[k].status = "pending"
         /\ st.pending # 0 => st.orders[st.pending].status = "pending"
         /\ phase = "idle" => OrdersOf(st, st.next - 1)
<1>1. \A s, n : OrdersOf(s, n) =>
        /\ \A k \in 1..Len(s.orders) : IsOver(s.orders[k]) \/ s.orders[k].status = "pending"
        /\ s.pending # 0 => s.orders[s.pending].status = "pending"
  BY DEF OrdersOf, OthersOver, IsOpen
<1>2. CASE phase = "idle"
  <2>1. IsCommitted(st, history)
    BY <1>2 DEF ReplayInv
  <2>2. st.next - 1 = Len(history)
    BY <2>1 DEF IsCommitted, IsHistory
  <2>3. OrdersOf(st, st.next - 1)
    BY <2>1, <2>2 DEF IsCommitted
  <2> QED
    BY <1>1, <2>3
<1>3. ASSUME phase # "idle"
      PROVE  InSnapshot(Visible, phase, st, basket, history) /\ OrdersIn(phase, st, Visible, basket)
  BY <1>3 DEF ReplayInv, InSnapshot
<1>4. CASE phase \in Early
  <2>1. SameOrders(st, Visible) /\ IsCommitted(Visible, Before(history))
    BY <1>3, <1>4 DEF Early, InSnapshot, OrdersIn
  <2>2. OrdersOf(st, Len(Before(history)))
    BY <2>1 DEF IsCommitted, OrdersOf, OthersOver, SameOrders
  <2> QED
    BY <1>1, <1>4, <2>2 DEF Early
<1>5. CASE phase = "fill"
  <2>1. /\ OthersOver(st, basket.order) /\ st.orders[basket.order].status = "pending"
        /\ FillsPending(st, Visible, basket) \/ FillsLiquidation(st, Visible, basket)
    BY <1>3, <1>5, BasketOrder DEF OrdersIn
  <2>2. st.pending # 0 => st.pending = basket.order
    BY <2>1 DEF FillsPending, FillsLiquidation, SameOrders
  <2> QED
    BY <1>5, <2>1, <2>2 DEF OthersOver
<1>6. CASE phase \in Late
  BY <1>3, <1>6, TableTypes DEF OrdersIn, OthersOver, Late
<1>7. CASE phase = "commit"
  <2>1. OrdersOf(st, st.next)
    BY <1>3, <1>7 DEF OrdersIn
  <2> QED
    BY <1>1, <1>7, <2>1
<1>8. phase \in {"idle", "fill", "commit"} \union Early \union Late
  BY DEF ReplayInv, Phases, Early, Late
<1> QED
  BY <1>2, <1>4, <1>5, <1>6, <1>7, <1>8

LEMMA OrdersResolve == ReplayInv => OrdersResolveAtNextSnapshot
<1> SUFFICES ASSUME ReplayInv PROVE OrdersResolveAtNextSnapshot
  OBVIOUS
<1>1. ASSUME NEW k \in 1..Len(st.orders), phase = "idle", st.orders[k].status = "pending"
      PROVE  k = st.pending /\ st.orders[k].decided = st.next - 1
  BY <1>1, OrderStates DEF OrdersOf, OthersOver, IsOver, IsOpen
<1> QED
  BY <1>1, OrderStates DEF OrdersResolveAtNextSnapshot, IsOver, Committed

LEMMA OrdersFill ==
  ASSUME ReplayInv, phase = "idle", Complete(st)
  PROVE  OrdersFillAsDecided
<1> DEFINE n == st.next - 1
<1>1. AsDecided(st) /\ FillsUpTo(st, n) /\ Matched(st, n)
  BY DEF Complete
<1>2. \A i \in 1..Len(st.fills) : \E k \in FilledIn(st) : st.orders[k].fillAt = st.fills[i].at
  BY <1>1 DEF FillsUpTo, Matched
<1>3. ASSUME NEW k \in FilledIn(st), NEW id \in Instruments, AliveAt(id, st.orders[k].fillAt),
             st.orders[k].fillAt = Horizon /\ Liquidates => st.orders[k].kind = "liquidation"
      PROVE  TradedUpTo(id, st.orders[k].fillAt) = st.orders[k].want[id]
  <2>1. ~Superseded(st.orders[k])
    BY <1>3 DEF Superseded
  <2>2. Traded(st, id, st.orders[k].fillAt) = st.orders[k].want[id]
    BY <1>1, <1>3, <2>1 DEF AsDecided, Delivered
  <2> QED
    BY <2>2 DEF Traded, Counted, TradedUpTo
<1> QED
  BY <1>2, <1>3 DEF OrdersFillAsDecided, FilledIn

LEMMA NothingHedged ==
  ASSUME ReplayInv, \A s \in Seen : Complete(s)
  PROVE  LiquidatedAtTheEnd
<1> SUFFICES ASSUME Liquidates, st.next > Horizon
             PROVE  NoHedges(st)
  BY DEF LiquidatedAtTheEnd, NoHedges
<1>1. phase = "idle"
  BY TodaysMarket, HorizonType DEF ReplayInv
<1>2. Complete(st)
  BY <1>1, KnownAreStates DEF Seen
<1>3. st.next - 1 = Horizon
  <2>1. IsCommitted(st, history)
    BY <1>1 DEF ReplayInv
  <2>2. st.next = Len(history) + 1 /\ Len(history) <= Horizon /\ Len(history) \in Nat
    BY <2>1 DEF IsCommitted, IsHistory
  <2> QED
    BY <2>2, HorizonType
<1> QED
  BY <1>2, <1>3 DEF Complete

(* An order lives for one snapshot, what fills is what was decided however *)
(* holdings were fixed in between, and a liquidated run holds no hedge.    *)
THEOREM OrdersAreKept == Spec => []OrdersKept
<1>1. ReplayInv /\ ClaimsInv /\ OrdersInv => OrdersKept
  <2> SUFFICES ASSUME ReplayInv, OrdersInv PROVE OrdersKept
    OBVIOUS
  <2>1. OrdersResolveAtNextSnapshot
    BY OrdersResolve
  <2>2. OrdersFillAsDecided
    <3>1. CASE phase = "idle"
      <4>1. Complete(st)
        BY <3>1, KnownAreStates DEF OrdersInv, Seen
      <4> QED
        BY <3>1, <4>1, OrdersFill
    <3>2. CASE phase # "idle"
      BY <3>2 DEF OrdersFillAsDecided
    <3> QED
      BY <3>1, <3>2
  <2>3. LiquidatedAtTheEnd
    BY NothingHedged DEF OrdersInv
  <2> QED
    BY <2>1, <2>2, <2>3 DEF OrdersKept
<1> QED
  BY <1>1, OrdersStaySound, PTL
-----------------------------------------------------------------------------
(* What is committed is within the limits.                                 *)

PositionLimit(id) == IF id = Spot THEN StockLimit ELSE OptionLimit
TradeLimit(id) == IF id = Spot THEN StockTradeLimit ELSE OptionTradeLimit

(* A quantity within its limit, up to the noise that rounding forgives.    *)
Sized(id, q) ==
  /\ Magnitude(q) * LotUnit <= PositionLimit(id) + Noise
  /\ ~AllowShorts => q >= 0

Holding(s, id) == Held(s, HedgeSlot(id))
HoldsSized(s) == \A id \in Instruments : Sized(id, Holding(s, id))
WantsSized(want) == \A id \in Instruments : Sized(id, want[id])

(* A change that its trade limit allows.                                   *)
MovesSized(s, want) ==
  \A id \in Instruments :
    Magnitude(want[id] - Holding(s, id)) * LotUnit <= TradeLimit(id) + Noise

OpenSized(s) == s.pending # 0 => WantsSized(s.orders[s.pending].want)
OpenMoves(s) == s.pending # 0 => MovesSized(s, s.orders[s.pending].want)

(* The gross notional, of the expired and the unexpired alike.             *)
GrossWithin(s, spot) ==
  Constrained =>
    spot * (Magnitude(s.stock)
             + SumFunction([c \in Contracts |-> Magnitude(s.targets[c]) + Magnitude(s.hedges[c])]))
      <= GrossLimit

(* A state between snapshots.                                              *)
Bounded(s, h) ==
  /\ s.cash >= CashFloor /\ HoldsSized(s) /\ OpenSized(s) /\ OpenMoves(s)
  /\ h # <<>> => GrossWithin(s, h[Len(h)].mid[Spot])

(* What the rows that are left of a basket will cost or bring.             *)
Remaining(s, now, b) ==
  SumFunction([id \in b.rows |-> RowCash(now, id, ChangeOf(s, b.want, id))])

Executing == {"execute", "liquidate", "mark", "decide", "commit"}

Within(ph, s, now, b) ==
  /\ HoldsSized(s)
  /\ ph = "fill" => WantsSized(b.want) /\ s.cash + Remaining(s, now, b) >= CashFloor
  /\ ph \in Executing => s.cash >= CashFloor
  /\ ph \in {"decide", "commit"} => GrossWithin(s, now.mid[Spot])
  /\ ph = "commit" => OpenSized(s) /\ OpenMoves(s)

LimitsInv ==
  /\ \A cp \in checkpoints : Bounded(cp.state, cp.prefix)
  /\ phase = "idle" => Bounded(st, history)
  /\ phase # "idle" => /\ Bounded(Visible, Before(history))
                       /\ Within(phase, st, Now, basket)
-----------------------------------------------------------------------------
(* A decision is within the limits.                                        *)

LEMMA LotTypes ==
  /\ LotUnit \in Nat \ {0} /\ Noise \in Nat /\ Noise < LotUnit
  /\ AllowShorts \in BOOLEAN
  /\ \A id : PositionLimit(id) \in Nat /\ TradeLimit(id) \in Nat
<1>1. LotUnit \in Nat /\ Noise \in Nat /\ 2 * Noise < LotUnit /\ AllowShorts \in BOOLEAN
      /\ {OptionLimit, OptionTradeLimit, StockLimit, StockTradeLimit} \subseteq Nat
  BY ConfigAssumption
<1> QED
  BY <1>1 DEF PositionLimit, TradeLimit

LEMMA DivisionBounds ==
  ASSUME NEW x \in Int, NEW n \in Nat \ {0}
  PROVE  x \div n \in Int /\ (x \div n) * n <= x /\ x < (x \div n) * n + n
  OBVIOUS

LEMMA MultiplesInOrder ==
  ASSUME NEW a \in Int, NEW b \in Int, NEW n \in Nat \ {0}
  PROVE  /\ a * n \in Int /\ b * n \in Int /\ (-a) * n = -(a * n) /\ (a - b) * n = a * n - b * n
         /\ a * n < b * n + n => a <= b
         /\ a <= b => a * n <= b * n
<1>1. a * n < b * n + n => a <= b
  OBVIOUS
<1>2. a <= b => a * n <= b * n
  OBVIOUS
<1>3. (a - b) * n = a * n - b * n
  OBVIOUS
<1> QED
  BY <1>1, <1>2, <1>3

(* What is rounded to the lot stays within the bounds, up to the noise, if *)
(* the lots that are held do.                                              *)
LEMMA LotWithin ==
  ASSUME NEW value \in Int, NEW lower \in Int, NEW upper \in Int, NEW old \in Int,
         lower <= old * LotUnit + Noise, old * LotUnit <= upper + Noise
  PROVE  LET lots == RoundLot(value, lower, upper)
         IN  /\ lots \in Int /\ lower <= lots * LotUnit + Noise
             /\ lots * LotUnit <= upper + Noise
<1> DEFINE lots == RoundLot(value, lower, upper)
           down == (Noise - lower) \div LotUnit
           lo == -down
           hi == (upper + Noise) \div LotUnit
<1>1. LotUnit \in Nat \ {0} /\ Noise \in Nat /\ Noise - lower \in Int /\ upper + Noise \in Int
  BY LotTypes
<1>2. hi \in Int /\ hi * LotUnit <= upper + Noise /\ upper + Noise < hi * LotUnit + LotUnit
  BY <1>1, DivisionBounds
<1>3. /\ down \in Int /\ down * LotUnit <= Noise - lower
      /\ Noise - lower < down * LotUnit + LotUnit
  BY <1>1, DivisionBounds
<1>4. lots \in Int
  BY LotType
<1>5. (lo <= lots /\ lots <= hi) \/ hi < lo
  <2> DEFINE u == Units(value)
             atLeast == IF u < lo THEN lo ELSE u
  <2>1. lots = IF atLeast > hi THEN hi ELSE atLeast
    BY DEF RoundLot
  <2>2. lo \in Int
    BY <1>3
  <2>3. atLeast \in Int \/ lots = hi
    BY <1>4, <2>1
  <2>4. u < lo \/ atLeast = u
    OBVIOUS
  <2>5. u \in Int
    BY UnitsType
  <2> HIDE DEF u, lots, hi, lo, down
  <2> QED
    BY <1>2, <2>1, <2>2, <2>5
<1> HIDE DEF lots, hi, down
<1>6. lo \in Int /\ lo * LotUnit = -(down * LotUnit)
  BY <1>1, <1>3, MultiplesInOrder
<1>7. lower - Noise <= lo * LotUnit /\ lo * LotUnit < lower - Noise + LotUnit
  <2>1. down * LotUnit \in Int
    BY <1>1, <1>3
  <2> QED
    BY <1>1, <1>3, <1>6, <2>1
<1> HIDE DEF lo
<1>8. old * LotUnit \in Int /\ hi * LotUnit \in Int /\ lo * LotUnit \in Int /\ lots * LotUnit \in Int
  BY <1>1, <1>2, <1>4, <1>6
<1>9. lo * LotUnit < old * LotUnit + LotUnit /\ old * LotUnit < hi * LotUnit + LotUnit
  BY <1>1, <1>2, <1>7, <1>8
<1>10. lo <= old /\ old <= hi
  BY <1>1, <1>2, <1>6, <1>9, MultiplesInOrder
<1>11. lo <= lots /\ lots <= hi
  BY <1>2, <1>5, <1>6, <1>10
<1>12. lo * LotUnit <= lots * LotUnit /\ lots * LotUnit <= hi * LotUnit
  BY <1>1, <1>2, <1>4, <1>6, <1>11, MultiplesInOrder
<1>13. lower <= lots * LotUnit + Noise /\ lots * LotUnit <= upper + Noise
  BY <1>1, <1>2, <1>7, <1>8, <1>12
<1> QED
  BY <1>4, <1>13 DEF lots

(* What a bounded solution may become, around what is held.                *)
LEMMA BoxWithin ==
  ASSUME NEW old \in Int, NEW position \in Nat, NEW trade \in Nat,
         Magnitude(old) * LotUnit <= position + Noise, ~AllowShorts => old >= 0,
         NEW q \in Box(old, position, trade)
  PROVE  /\ q \in Int /\ Magnitude(q) * LotUnit <= position + Noise
         /\ ~AllowShorts => q >= 0
         /\ Magnitude(q - old) * LotUnit <= trade + Noise
<1> DEFINE O == old * LotUnit
           Q == q * LotUnit
           least == IF AllowShorts THEN -position ELSE 0
           lower == Larger(least, O - trade)
           upper == Smaller(position, O + trade)
<1>1. LotUnit \in Nat \ {0} /\ Noise \in Nat /\ Noise < LotUnit /\ AllowShorts \in BOOLEAN
  BY LotTypes
<1>2. /\ O \in Int /\ O <= position + Noise /\ -O <= position + Noise
      /\ ~AllowShorts => O >= 0
  <2>1. (-old) * LotUnit = -O /\ O \in Int
    BY <1>1, MultiplesInOrder
  <2>2. old >= 0 => O >= 0
    BY <1>1
  <2>3. old < 0 => O <= 0
    BY <1>1
  <2>4. (old < 0 /\ -O <= position + Noise) \/ (old >= 0 /\ O <= position + Noise)
    <3>1. CASE old < 0
      BY <2>1, <3>1 DEF Magnitude
    <3>2. CASE ~(old < 0)
      BY <3>2 DEF Magnitude
    <3> QED
      BY <3>1, <3>2
  <2> HIDE DEF O
  <2> QED
    BY <1>1, <2>1, <2>2, <2>3, <2>4
<1> HIDE DEF O
<1>3. least \in Int /\ -position <= least /\ least <= O + Noise
      /\ (~AllowShorts => least >= 0)
  BY <1>1, <1>2
<1> HIDE DEF least
<1>4. /\ lower \in Int /\ least <= lower /\ O - trade <= lower /\ lower <= O + Noise
  BY <1>1, <1>2, <1>3 DEF Larger
<1>5. /\ upper \in Int /\ upper <= position /\ upper <= O + trade /\ O <= upper + Noise
  BY <1>1, <1>2 DEF Smaller
<1>6. PICK value \in Int : q = RoundLot(value, lower, upper)
  <2>1. Box(old, position, trade) = {RoundLot(value, lower, upper) : value \in lower..upper}
    BY DEF Box, O, least
  <2> HIDE DEF lower, upper
  <2> QED
    BY <1>4, <1>5, <2>1
<1> HIDE DEF lower, upper
<1>7. q \in Int /\ lower <= Q + Noise /\ Q <= upper + Noise
  BY <1>4, <1>5, <1>6, LotWithin DEF O
<1>8. /\ Q \in Int /\ (-q) * LotUnit = -Q /\ (q - old) * LotUnit = Q - O
      /\ (old - q) * LotUnit = O - Q
  BY <1>1, <1>7, MultiplesInOrder DEF O
<1>9. ~AllowShorts => q >= 0
  <2>1. SUFFICES ASSUME ~AllowShorts PROVE q >= 0
    OBVIOUS
  <2>2. 0 * LotUnit = 0
    BY <1>1
  <2>3. 0 * LotUnit < Q + LotUnit
    <3> HIDE DEF Q
    <3> QED
      BY <1>1, <1>3, <1>4, <1>7, <1>8, <2>1, <2>2
  <2>4. 0 <= q
    BY <1>1, <1>7, <2>3, MultiplesInOrder
  <2> QED
    BY <1>7, <2>4
<1> HIDE DEF Q
<1>10. Magnitude(q) * LotUnit <= position + Noise
  <2>1. Q <= position + Noise /\ -Q <= position + Noise
    BY <1>1, <1>3, <1>4, <1>5, <1>7, <1>8
  <2> QED
    BY <1>8, <2>1 DEF Magnitude, Q
<1>11. Magnitude(q - old) * LotUnit <= trade + Noise
  <2>1. Q - O <= trade + Noise /\ O - Q <= trade + Noise
    BY <1>1, <1>2, <1>4, <1>5, <1>7, <1>8
  <2>2. Magnitude(q - old) = q - old \/ Magnitude(q - old) = old - q
    BY <1>7 DEF Magnitude
  <2> QED
    BY <1>8, <2>1, <2>2
<1> QED
  BY <1>7, <1>9, <1>10, <1>11

LEMMA HoldingIs ==
  ASSUME NEW s
  PROVE  /\ Holding(s, Spot) = s.stock
         /\ \A c \in Contracts : Holding(s, c) = s.hedges[c]
         /\ \A id \in Instruments : id = Spot \/ id \in Contracts
  BY ContractAssumption DEF Holding, Held, HedgeSlot, Instruments

LEMMA HoldingType ==
  ASSUME NEW s, IsState(s)
  PROVE  /\ s.stock \in Int /\ s.hedges \in [Contracts -> Int] /\ s.targets \in [Contracts -> Int]
         /\ \A id \in Instruments : Holding(s, id) \in Int
<1>1. s.stock \in Int /\ s.hedges \in [Contracts -> Int] /\ s.targets \in [Contracts -> Int]
  BY DEF IsState, StateSet
<1> QED
  BY <1>1, HoldingIs

(* Nothing is within every limit.                                          *)
LEMMA ZeroIsSized ==
  ASSUME NEW id
  PROVE  Sized(id, 0) /\ Magnitude(0) * LotUnit <= TradeLimit(id) + Noise
<1>1. Magnitude(0) = 0
  BY DEF Magnitude
<1>2. 0 * LotUnit = 0
  BY LotTypes
<1> QED
  BY <1>1, <1>2, LotTypes DEF Sized

(* Any decision is within the position and trade limits, although it was   *)
(* rounded to lots after it was solved for.                                *)
LEMMA DesiredWithin ==
  ASSUME IsState(st), HoldsSized(st), NEW want \in Desired
  PROVE  WantsSized(want) /\ MovesSized(st, want)
<1>1. ASSUME NEW id \in Instruments
      PROVE  /\ Sized(id, want[id])
             /\ Magnitude(want[id] - Holding(st, id)) * LotUnit <= TradeLimit(id) + Noise
  <2> DEFINE old == Holding(st, id)
             q == want[id]
  <2>1. old \in Int /\ Sized(id, old)
    BY <1>1, HoldingType DEF HoldsSized
  <2>2. q = old \/ q \in Box(old, PositionLimit(id), TradeLimit(id))
    <3> DEFINE choices ==
          [x \in Instruments |->
             {Held(st, HedgeSlot(x))}
               \union (IF x = Spot THEN Box(st.stock, StockLimit, StockTradeLimit)
                       ELSE IF Tradeable(x)
                         THEN Box(st.hedges[x], OptionLimit, OptionTradeLimit) ELSE {})]
    <3>1. q \in choices[id]
      BY <1>1 DEF Desired
    <3>2. CASE id = Spot
      BY <1>1, <3>1, <3>2, HoldingIs DEF Holding, PositionLimit, TradeLimit
    <3>3. CASE id # Spot
      <4>1. old = st.hedges[id] /\ old = Held(st, HedgeSlot(id))
        BY <1>1, <3>3, HoldingIs DEF Holding
      <4>2. choices[id] \subseteq {Held(st, HedgeSlot(id))}
                                    \union Box(st.hedges[id], OptionLimit, OptionTradeLimit)
        BY <1>1, <3>3
      <4> HIDE DEF choices, q
      <4> QED
        BY <3>1, <3>3, <4>1, <4>2 DEF PositionLimit, TradeLimit
    <3> QED
      BY <3>2, <3>3
  <2> HIDE DEF old, q
  <2>3. CASE q = old
    <3>1. q - old = 0
      BY <2>1, <2>3
    <3> QED
      BY <2>1, <2>3, <3>1, ZeroIsSized DEF old, q
  <2>4. CASE q \in Box(old, PositionLimit(id), TradeLimit(id))
    <3>1. /\ Magnitude(old) * LotUnit <= PositionLimit(id) + Noise
          /\ ~AllowShorts => old >= 0
          /\ PositionLimit(id) \in Nat /\ TradeLimit(id) \in Nat
      BY <2>1, LotTypes DEF Sized
    <3>2. /\ Magnitude(q) * LotUnit <= PositionLimit(id) + Noise
          /\ ~AllowShorts => q >= 0
          /\ Magnitude(q - old) * LotUnit <= TradeLimit(id) + Noise
      BY <2>1, <2>4, <3>1, BoxWithin
    <3> QED
      BY <3>2 DEF Sized, old, q
  <2> QED
    BY <2>2, <2>3, <2>4
<1> QED
  BY <1>1 DEF WantsSized, MovesSized
-----------------------------------------------------------------------------
(* The steps keep within the limits.                                       *)

LEMMA SameHoldsSized ==
  ASSUME NEW r, NEW s, SameHoldings(r, s)
  PROVE  /\ \A id : Holding(r, id) = Holding(s, id)
         /\ HoldsSized(s) => HoldsSized(r)
         /\ \A spot : GrossWithin(s, spot) => GrossWithin(r, spot)
<1>1. \A id : Holding(r, id) = Holding(s, id)
  BY DEF SameHoldings, Holding, Held
<1>2. \A spot : GrossWithin(s, spot) => GrossWithin(r, spot)
  BY DEF SameHoldings, GrossWithin
<1> QED
  BY <1>1, <1>2 DEF HoldsSized

LEMMA SameOpen ==
  ASSUME NEW r, NEW s, SameOrders(r, s)
  PROVE  /\ OpenSized(s) => OpenSized(r)
         /\ SameHoldings(r, s) /\ OpenMoves(s) => OpenMoves(r)
<1>1. SameHoldings(r, s) => \A id : Holding(r, id) = Holding(s, id)
  BY SameHoldsSized
<1> QED
  BY <1>1 DEF SameOrders, OpenSized, OpenMoves, MovesSized

LEMMA FilledCash ==
  ASSUME NEW s, IsState(s), NEW now \in Market, NEW id \in Instruments, NEW change \in Int
  PROVE  LET cash == RowCash(now, id, change)
         IN  cash \in Int /\ s.cash \in Int /\ Filled(s, now, id, change).cash = s.cash + cash
<1> DEFINE cash == RowCash(now, id, change)
           s1 == Booked(s, "hedge_trade", cash)
<1>1. cash \in Int /\ s \in StateSet(RowsOf(s)) /\ "hedge_trade" \in FlowKinds /\ s.cash \in Int
  BY RowCashType, TableTypes DEF IsState, FlowKinds
<1>2. Filled(s, now, id, change).cash = s1.cash
  <2> DEFINE r == Filled(s, now, id, change)
             price == FillPrice(now, id, change)
             book == Trade(s1.book, HedgeSlot(id), change, price, now.mid[id])
             fill == [at |-> s.next, id |-> id, quantity |-> change, price |-> price,
                      mid |-> now.mid[id], fee |-> Magnitude(change) * Fee]
             s2 == [s1 EXCEPT !.book = book, !.fills = Append(s1.fills, fill)]
  <2>1. r = AfterRow(s2, id, change)
    BY DEF Filled
  <2>2. AfterRow(s2, id, change).cash = s2.cash
    <3> HIDE DEF s2
    <3>1. ASSUME NEW x, NEW y PROVE [s2 EXCEPT !.stock = x].cash = s2.cash
      OBVIOUS
    <3>2. ASSUME NEW x, NEW y PROVE [s2 EXCEPT !.hedges = x].cash = s2.cash
      OBVIOUS
    <3> QED
      BY DEF AfterRow
  <2>3. s2.cash = s1.cash
    <3> HIDE DEF s1, book, fill
    <3> QED
      OBVIOUS
  <2> QED
    BY <2>1, <2>2, <2>3
<1> HIDE DEF cash
<1>3. s1.cash = s.cash + cash
  BY <1>1, BookedIs
<1> QED
  BY <1>1, <1>2, <1>3 DEF cash

(* What a fill does: to its own holding, and to cash.                      *)
LEMMA FillMoves ==
  ASSUME ReplayInv, NEW id \in Instruments, FillRow(id)
  PROVE  LET cash == RowCash(Now, id, ChangeOf(st, basket.want, id))
         IN  /\ cash \in Int /\ st.cash \in Int /\ st'.cash = st.cash + cash
             /\ Holding(st', id) = basket.want[id]
             /\ \A x \in Instruments : x # id => Holding(st', x) = Holding(st, x)
             /\ IsBasket(basket) /\ Now \in Market /\ IsState(st) /\ IsState(st')
             /\ basket'.want = basket.want /\ basket'.rows = basket.rows \ {id}
<1> DEFINE change == ChangeOf(st, basket.want, id)
           cash == RowCash(Now, id, change)
<1>1. /\ InSnapshot(Visible, "fill", st, basket, history) /\ st' = Filled(st, Now, id, change)
      /\ basket' = [basket EXCEPT !.rows = @ \ {id}]
  BY DEF ReplayInv, FillRow, Step
<1>2. IsState(st) /\ Now \in Market /\ IsBasket(basket)
  <2>1. IsBasket(basket)
    BY <1>1 DEF InSnapshot
  <2> QED
    BY <1>1, <2>1, TodaysMarket DEF Now
<1>3. basket'.want = basket.want /\ basket'.rows = basket.rows \ {id} /\ basket.want[id] \in Int
  BY <1>1, <1>2 DEF IsBasket
<1>4. \A x \in Instruments : Holding(st, x) \in Int
  BY <1>2, HoldingType
<1>5. change \in Int /\ change = basket.want[id] - Holding(st, id)
  BY <1>3, <1>4 DEF ChangeOf, Holding
<1>6. IsFilled(st', st, id, change) /\ IsState(st')
  <2>1. InSnapshot(Visible, phase', st', basket', history)
    BY FillStep
  <2> QED
    BY <2>1, FillStep DEF InSnapshot
<1> HIDE DEF change
<1>7. HoldsBy(st', st, id, change)
  BY <1>2, <1>5, <1>6, HeldOnceTraded
<1>8. Holding(st', id) = basket.want[id]
  BY <1>3, <1>4, <1>5, <1>7 DEF HoldsBy, Holding
<1>9. \A x \in Instruments : x # id => Holding(st', x) = Holding(st, x)
  BY <1>4, <1>7 DEF HoldsBy, Holding
<1>10. cash \in Int /\ st.cash \in Int /\ st'.cash = st.cash + cash
  BY <1>1, <1>2, <1>5, FilledCash
<1> QED
  BY <1>2, <1>3, <1>6, <1>8, <1>9, <1>10 DEF change

(* No step of a snapshot leaves a holding beyond its limit.                *)
LEMMA HoldingsStaySized ==
  ASSUME ReplayInv, ProcessSnapshot, HoldsSized(st),
         phase = "fill" => WantsSized(basket.want)
  PROVE  HoldsSized(st')
<1>1. CASE Carry \/ Capital \/ QuietStep
  <2>1. SameHoldings(st', st)
    BY <1>1, CarryStep, CapitalStep, QuietStepsAre DEF OnlyBooked, Quiet
  <2> QED
    BY <2>1, SameHoldsSized
<1>2. CASE \E g \in HoldingGroups, c \in Contracts : FixHolding(g, c)
  <2>1. PICK g \in HoldingGroups, c \in Contracts : FixHolding(g, c)
    BY <1>2
  <2> DEFINE slot == <<g, c>>
  <2>2. PICK amount \in Int, keep \in BOOLEAN : IsFixed(st', st, slot, amount, keep)
    BY <2>1, FixStep
  <2>3. IsState(st) /\ slot \in HoldingGroups \X Contracts
    BY KnownAreStates DEF Known
  <2>4. st'.stock = st.stock
    BY <2>2 DEF IsFixed
  <2> HIDE DEF slot
  <2>5. ASSUME NEW id \in Instruments PROVE Sized(id, Holding(st', id))
    <3>1. CASE id = Spot
      <4>1. Holding(st', id) = Holding(st, id)
        BY <2>4, <3>1, HoldingIs
      <4> QED
        BY <4>1 DEF HoldsSized
    <3>2. CASE id # Spot
      <4>1. HedgeSlot(id) \in HoldingGroups \X Contracts
        BY <3>2 DEF HedgeSlot, Instruments, HoldingGroups
      <4>2. Holding(st', id) = 0 \/ Holding(st', id) = Holding(st, id)
        BY <2>2, <2>3, <4>1, HeldOnceFixed DEF Holding
      <4> QED
        BY <4>2, ZeroIsSized DEF HoldsSized
    <3> QED
      BY <3>1, <3>2
  <2> QED
    BY <2>5 DEF HoldsSized
<1>3. CASE \E claim \in st.receivables : PayDueClaim(claim)
  <2>1. SameHoldings(st', st)
    BY <1>3, PayStep DEF IsPaid
  <2> QED
    BY <2>1, SameHoldsSized
<1>4. CASE \E id \in Instruments : FillRow(id)
  <2>1. PICK id \in Instruments : FillRow(id)
    BY <1>4
  <2>2. WantsSized(basket.want)
    BY <2>1 DEF FillRow, Step
  <2>3. /\ Holding(st', id) = basket.want[id]
        /\ \A x \in Instruments : x # id => Holding(st', x) = Holding(st, x)
    BY <2>1, FillMoves
  <2> QED
    BY <2>2, <2>3 DEF HoldsSized, WantsSized
<1> QED
  BY <1>1, <1>2, <1>3, <1>4, StepKinds

(* A basket is accepted when cash covers all of it, ...                    *)
LEMMA RemainingAtFirst ==
  ASSUME NEW s, NEW now, NEW b, b.rows = Rows(s, b.want), WithinCash(s, now, b.want)
  PROVE  s.cash + Remaining(s, now, b) >= CashFloor
  BY DEF WithinCash, ProposedCash, Remaining

LEMMA RemainingType ==
  ASSUME NEW s, IsState(s), NEW now \in Market, NEW b, IsBasket(b)
  PROVE  LET rows == [id \in b.rows |-> RowCash(now, id, ChangeOf(s, b.want, id))]
         IN  IsFiniteSet(b.rows) /\ rows \in [b.rows -> Int] /\ Remaining(s, now, b) = SumFunction(rows)
<1> DEFINE rows == [id \in b.rows |-> RowCash(now, id, ChangeOf(s, b.want, id))]
<1>1. b.rows \subseteq Instruments /\ b.want \in [Instruments -> Int]
  BY DEF IsBasket
<1>2. IsFiniteSet(b.rows)
  <2>1. IsFiniteSet(Contracts) /\ IsFiniteSet({Spot})
    BY ContractAssumption, FS_Singleton
  <2>2. IsFiniteSet(Instruments)
    BY <2>1, FS_Union DEF Instruments
  <2> QED
    BY <1>1, <2>2, FS_Subset
<1>3. ASSUME NEW id \in b.rows PROVE RowCash(now, id, ChangeOf(s, b.want, id)) \in Int
  <2>1. id \in Instruments /\ b.want[id] \in Int /\ Holding(s, id) \in Int
    BY <1>1, <1>3, HoldingType
  <2>2. ChangeOf(s, b.want, id) \in Int
    BY <2>1 DEF ChangeOf, Holding
  <2> QED
    BY <2>1, <2>2, RowCashType
<1> QED
  BY <1>2, <1>3 DEF Remaining

(* ... and each row takes what it was accepted for, whatever the others    *)
(* have done.                                                              *)
LEMMA RemainingAfterRow ==
  ASSUME ReplayInv, NEW id \in basket.rows, id \in Instruments, FillRow(id)
  PROVE  st'.cash + Remaining(st', Now, basket') = st.cash + Remaining(st, Now, basket)
<1> DEFINE rows == [x \in basket.rows |-> RowCash(Now, x, ChangeOf(st, basket.want, x))]
           left == [x \in basket.rows \ {id} |-> rows[x]]
           cash == RowCash(Now, id, ChangeOf(st, basket.want, id))
<1>1. /\ cash \in Int /\ st.cash \in Int /\ st'.cash = st.cash + cash
      /\ \A x \in Instruments : x # id => Holding(st', x) = Holding(st, x)
      /\ IsBasket(basket) /\ Now \in Market /\ IsState(st)
      /\ basket'.want = basket.want /\ basket'.rows = basket.rows \ {id}
  BY FillMoves
<1>2. IsFiniteSet(basket.rows) /\ rows \in [basket.rows -> Int] /\ Remaining(st, Now, basket) = SumFunction(rows)
  BY <1>1, RemainingType
<1>3. rows[id] = cash
  OBVIOUS
<1>4. Remaining(st', Now, basket') = SumFunction(left)
  <2>1. basket.rows \subseteq Instruments
    BY <1>1 DEF IsBasket
  <2>2. ASSUME NEW x \in basket.rows \ {id}
        PROVE  ChangeOf(st', basket.want, x) = ChangeOf(st, basket.want, x)
    BY <1>1, <2>1 DEF ChangeOf, Holding
  <2>3. [x \in basket.rows \ {id} |-> RowCash(Now, x, ChangeOf(st', basket.want, x))] = left
    BY <2>2
  <2> HIDE DEF left
  <2> QED
    BY <1>1, <2>3 DEF Remaining
<1> HIDE DEF rows, cash
<1>5. SumFunction(left) \in Int /\ SumFunction(rows) = rows[id] + SumFunction(left)
  BY <1>2, SumWithout
<1> HIDE DEF left
<1> QED
  BY <1>1, <1>2, <1>3, <1>4, <1>5

LEMMA RemainingOfNone ==
  ASSUME NEW s, NEW now, NEW b, b.rows = {}
  PROVE  Remaining(s, now, b) = 0
<1> DEFINE rows == [id \in b.rows |-> RowCash(now, id, ChangeOf(s, b.want, id))]
<1>1. rows \in [{} -> Int] /\ IsFiniteSet({})
  BY FS_EmptySet
<1> HIDE DEF rows
<1>2. SumFunction(rows) = 0
  BY <1>1, SumType
<1> QED
  BY <1>2 DEF Remaining, rows
-----------------------------------------------------------------------------
(* The phases.                                                             *)

(* In the later phases no order is pending.                                *)
LEMMA NothingPending ==
  ASSUME NEW v, NEW ph, NEW s, NEW b, NEW h, InSnapshot(v, ph, s, b, h), ph \in Late
  PROVE  s.pending = 0
  BY DEF InSnapshot, OrdersIn

(* The basket, from its acceptance to its last row.                        *)
LEMMA FillStaysWithin ==
  ASSUME ReplayInv, LimitsInv, ProcessSnapshot, phase' = "fill"
  PROVE  /\ WantsSized(basket'.want)
         /\ st'.cash + Remaining(st', Now, basket') >= CashFloor
<1>1. CASE AcceptPending
  <2>1. /\ phase = "execute" /\ st.pending # 0 /\ st' = st
        /\ WithinCash(st, Now, Wanted(st.pending))
        /\ basket' = [order |-> st.pending, rows |-> Rows(st, Wanted(st.pending)),
                      want |-> Wanted(st.pending)]
    BY <1>1 DEF AcceptPending, Step
  <2>2. basket'.rows = Rows(st, basket'.want) /\ basket'.want = Wanted(st.pending)
    BY <2>1
  <2>3. OpenSized(st)
    <3>1. InSnapshot(Visible, phase, st, basket, history) /\ OpenSized(Visible)
      BY <2>1 DEF ReplayInv, LimitsInv, Bounded
    <3>2. SameOrders(st, Visible)
      BY <2>1, <3>1 DEF InSnapshot, OrdersIn, Early
    <3> QED
      BY <3>1, <3>2, SameOpen
  <2>4. WantsSized(basket'.want)
    BY <2>1, <2>2, <2>3 DEF OpenSized, Wanted
  <2> QED
    BY <2>1, <2>2, <2>4, RemainingAtFirst
<1>2. CASE StartLiquidation
  <2> DEFINE want == LiquidationOrder.want
  <2>1. /\ WithinCash(st, Now, want) /\ basket'.want = want /\ basket'.rows = Rows(st, want)
        /\ st'.cash = st.cash /\ \A x : Held(st', x) = Held(st, x)
    <3>1. SameButOrders(st', st)
      BY <1>2, LiquidationStep
    <3>2. SameHoldings(st', st) /\ st'.cash = st.cash
      BY <3>1 DEF SameButOrders, SameCash
    <3>3. \A x : Held(st', x) = Held(st, x)
      BY <3>2 DEF SameHoldings, Held
    <3> QED
      BY <1>2, <3>2, <3>3 DEF StartLiquidation
  <2>2. \A id \in Instruments : want[id] = 0
    BY DEF LiquidationOrder
  <2> HIDE DEF want
  <2>3. WantsSized(basket'.want)
    BY <2>1, <2>2, ZeroIsSized DEF WantsSized
  <2>4. st.cash + Remaining(st, Now, basket') >= CashFloor
    BY <2>1, RemainingAtFirst
  <2>5. Remaining(st', Now, basket') = Remaining(st, Now, basket')
    BY <2>1 DEF Remaining, ChangeOf
  <2> QED
    BY <2>1, <2>3, <2>4, <2>5
<1>3. CASE \E id \in Instruments : FillRow(id)
  <2>1. PICK id \in Instruments : FillRow(id)
    BY <1>3
  <2>2. /\ id \in basket.rows /\ WantsSized(basket.want)
        /\ st.cash + Remaining(st, Now, basket) >= CashFloor
    BY <2>1 DEF FillRow, Step, LimitsInv, Within
  <2>3. basket'.want = basket.want
    BY <2>1, FillMoves
  <2> QED
    BY <2>1, <2>2, <2>3, RemainingAfterRow
<1>4. AcceptPending \/ StartLiquidation \/ \E id \in Instruments : FillRow(id)
  <2>1. CASE Validate \/ Carry \/ Capital \/ FixingDone \/ PaymentsDone
    BY <2>1 DEF Validate, Carry, Capital, FixingDone, PaymentsDone, Step
  <2>2. CASE \E g \in HoldingGroups, c \in Contracts : FixHolding(g, c)
    BY <2>2 DEF FixHolding, Step
  <2>3. CASE \E claim \in st.receivables : PayDueClaim(claim)
    BY <2>3 DEF PayDueClaim, Step
  <2>4. CASE NoPendingOrder \/ RejectPending \/ NoLiquidation \/ Mark \/ Decide \/ NoDecision \/ Commit
    BY <2>4 DEF NoPendingOrder, RejectPending, NoLiquidation, Mark, Decide, NoDecision, Commit, Step
  <2>5. CASE BasketFilled
    BY <2>5 DEF BasketFilled
  <2> QED
    BY <2>1, <2>2, <2>3, <2>4, <2>5 DEF ProcessSnapshot
<1> QED
  BY <1>1, <1>2, <1>3, <1>4

(* Where the phases from the execution on are entered from.                *)
LEMMA ExecutingFrom ==
  ASSUME ProcessSnapshot, phase' \in Executing
  PROVE  \/ PaymentsDone /\ phase' = "execute"
         \/ NoPendingOrder \/ RejectPending \/ NoLiquidation
         \/ BasketFilled
         \/ Mark /\ phase' = "decide"
         \/ Decide \/ NoDecision
<1>1. CASE Validate \/ Carry \/ Capital \/ FixingDone \/ PaymentsDone
  BY <1>1 DEF Validate, Carry, Capital, FixingDone, PaymentsDone, Step, Executing
<1>2. CASE \E g \in HoldingGroups, c \in Contracts : FixHolding(g, c)
  BY <1>2 DEF FixHolding, Step, Executing
<1>3. CASE \E claim \in st.receivables : PayDueClaim(claim)
  BY <1>3 DEF PayDueClaim, Step, Executing
<1>4. CASE \E id \in Instruments : FillRow(id)
  BY <1>4 DEF FillRow, Step, Executing
<1>5. CASE AcceptPending \/ StartLiquidation \/ Commit
  BY <1>5 DEF AcceptPending, StartLiquidation, Commit, Step, Executing
<1>6. CASE Mark
  BY <1>6 DEF Mark, Step
<1> QED
  BY <1>1, <1>2, <1>3, <1>4, <1>5, <1>6 DEF ProcessSnapshot

(* The floor holds before the orders execute and after they did.           *)
LEMMA CashStaysWithin ==
  ASSUME ReplayInv, LimitsInv, ProcessSnapshot, phase' \in Executing
  PROVE  st'.cash >= CashFloor
<1>1. CASE PaymentsDone
  BY <1>1 DEF PaymentsDone
<1>2. CASE NoPendingOrder \/ RejectPending \/ NoLiquidation \/ Mark \/ Decide \/ NoDecision
  <2>1. st'.cash = st.cash
    <3>1. QuietStep
      BY <1>2 DEF QuietStep
    <3> QED
      BY <3>1, QuietStepsAre DEF Quiet, SameCash
  <2>2. phase \in Executing /\ phase # "idle"
    BY <1>2 DEF NoPendingOrder, RejectPending, NoLiquidation, Mark, Decide, NoDecision, Step,
                Executing
  <2> QED
    BY <2>1, <2>2 DEF LimitsInv, Within
<1>3. CASE BasketFilled
  <2>1. phase = "fill" /\ basket.rows = {} /\ st'.cash = st.cash /\ IsState(st)
    <3>1. SameButOrders(st', st)
      BY <1>3, BasketStep
    <3>2. IsState(st)
      BY KnownAreStates DEF Known
    <3> QED
      BY <1>3, <3>1, <3>2 DEF BasketFilled, SameButOrders, SameCash
  <2>2. st.cash + Remaining(st, Now, basket) >= CashFloor
    BY <2>1 DEF LimitsInv, Within
  <2>3. Remaining(st, Now, basket) = 0 /\ st.cash \in Int
    BY <2>1, RemainingOfNone, TableTypes
  <2> QED
    BY <2>1, <2>2, <2>3
<1> QED
  BY <1>1, <1>2, <1>3, ExecutingFrom

(* The cap that a mark checks is over the unexpired options; nothing else  *)
(* is held.                                                                *)
LEMMA MarkChecksGross ==
  ASSUME ReplayInv, ClaimsInv, Mark
  PROVE  GrossWithin(st, Now.mid[Spot])
<1> DEFINE size == [c \in Contracts |-> Magnitude(st.targets[c]) + Magnitude(st.hedges[c])]
           live == {c \in Contracts : Expiry[c] > At[st.next]}
<1>1. /\ phase = "mark"
      /\ Constrained => Gross(st, Now, st.hedges, st.stock) <= GrossLimit
  BY DEF Mark, Step
<1>2. IsState(st) /\ NoneExpired(st, st.next)
  BY <1>1, KnownAreStates DEF Known, ClaimsInv, AfterPay
<1>3. IsFiniteSet(Contracts) /\ live \in SUBSET Contracts
  BY ContractAssumption
<1>4. size \in [Contracts -> Int]
  <2>1. \A c \in Contracts : st.targets[c] \in Int /\ st.hedges[c] \in Int
    BY <1>2, HoldingType
  <2> QED
    BY <2>1 DEF Magnitude
<1>5. ASSUME NEW c \in Contracts \ live PROVE size[c] = 0
  <2>1. Held(st, <<"targets", c>>) = 0 /\ Held(st, <<"hedges", c>>) = 0
    BY <1>2, <1>5 DEF NoneExpired, HoldingGroups
  <2>2. st.targets[c] = 0 /\ st.hedges[c] = 0
    BY <2>1 DEF Held
  <2> QED
    BY <2>2 DEF Magnitude
<1>6. Gross(st, Now, st.hedges, st.stock)
        = Now.mid[Spot] * (Magnitude(st.stock) + SumFunction([c \in live |-> size[c]]))
  <2>1. [c \in live |-> size[c]]
          = [c \in live |-> Magnitude(st.targets[c]) + Magnitude(st.hedges[c])]
    OBVIOUS
  <2> HIDE DEF size
  <2> QED
    BY <2>1 DEF Gross
<1> HIDE DEF size, live
<1>7. SumFunction([c \in live |-> size[c]]) = SumFunction(size)
  BY <1>3, <1>4, <1>5, SumOfNonzero
<1> QED
  BY <1>1, <1>6, <1>7 DEF GrossWithin, size

(* What is decided, and marked, is what is committed.                      *)
LEMMA LateStaysWithin ==
  ASSUME ReplayInv, ClaimsInv, LimitsInv, ProcessSnapshot
  PROVE  /\ phase' \in {"decide", "commit"} => GrossWithin(st', Now.mid[Spot])
         /\ phase' = "commit" => OpenSized(st') /\ OpenMoves(st')
<1>1. CASE Mark
  <2>1. SameHoldings(st', st) /\ phase' = "decide"
    BY <1>1, MarkStep DEF IsMarked, Mark, Step
  <2> QED
    BY <1>1, <2>1, MarkChecksGross, SameHoldsSized
<1>2. CASE Decide \/ NoDecision
  <2>1. phase = "decide" /\ phase # "idle" /\ phase \in Late
    BY <1>2 DEF Decide, NoDecision, Step, Late
  <2>2. SameHoldings(st', st)
    <3>1. QuietStep
      BY <1>2 DEF QuietStep
    <3> QED
      BY <3>1, QuietStepsAre DEF Quiet
  <2>3. GrossWithin(st', Now.mid[Spot])
    <3>1. GrossWithin(st, Now.mid[Spot])
      BY <2>1 DEF LimitsInv, Within
    <3> QED
      BY <2>2, <3>1, SameHoldsSized
  <2>4. InSnapshot(Visible, phase, st, basket, history) /\ IsState(st) /\ HoldsSized(st)
    BY <2>1, KnownAreStates DEF ReplayInv, Known, LimitsInv, Within
  <2>5. CASE NoDecision
    <3>1. st' = st /\ st.pending = 0
      BY <2>1, <2>4, <2>5, NothingPending DEF NoDecision
    <3> QED
      BY <2>3, <3>1 DEF OpenSized, OpenMoves
  <2>6. CASE Decide
    <3>1. PICK want \in Desired :
            st'.pending = Len(st.orders) + 1 /\ AddedOrder(st', st, DecidedOrder(want))
      BY <2>6, DecideStep
    <3>2. st'.orders[st'.pending].want = want
      BY <3>1 DEF AddedOrder, DecidedOrder
    <3>3. WantsSized(want) /\ MovesSized(st, want)
      BY <2>4, DesiredWithin
    <3>4. MovesSized(st', want)
      <4>1. \A id : Holding(st', id) = Holding(st, id)
        BY <2>2, SameHoldsSized
      <4> QED
        BY <3>3, <4>1 DEF MovesSized
    <3> QED
      BY <2>3, <3>2, <3>3, <3>4 DEF OpenSized, OpenMoves
  <2> QED
    BY <1>2, <2>5, <2>6
<1>3. CASE phase' \notin {"decide", "commit"}
  BY <1>3
<1>4. phase' \in {"decide", "commit"} => Mark \/ Decide \/ NoDecision
  <2>1. SUFFICES ASSUME phase' \in {"decide", "commit"} PROVE Mark \/ Decide \/ NoDecision
    OBVIOUS
  <2>2. ~(NoPendingOrder \/ RejectPending \/ NoLiquidation)
    BY <2>1 DEF NoPendingOrder, RejectPending, NoLiquidation, Step
  <2>3. ~BasketFilled
    BY <2>1 DEF BasketFilled
  <2> QED
    BY <2>1, <2>2, <2>3, ExecutingFrom DEF Executing
<1> QED
  BY <1>1, <1>2, <1>3, <1>4

LEMMA InnerStaysWithin ==
  ASSUME ReplayInv, ClaimsInv, LimitsInv, ProcessSnapshot, ~Commit
  PROVE  LimitsInv'
<1>1. /\ Visible' = Visible /\ phase # "idle" /\ phase' # "idle"
      /\ history' = history /\ checkpoints' = checkpoints
  BY InnerStep DEF Frame
<1>2. Now' = Now
  <2>1. st'.next = st.next
    BY InnerNext
  <2> QED
    BY <1>1, <2>1 DEF Now
<1>3. HoldsSized(st')
  BY <1>1, HoldingsStaySized DEF LimitsInv, Within
<1>4. Within(phase', st', Now, basket')
  BY <1>3, FillStaysWithin, CashStaysWithin, LateStaysWithin DEF Within
<1>5. Bounded(Visible, Before(history)) /\ \A cp \in checkpoints : Bounded(cp.state, cp.prefix)
  BY <1>1 DEF LimitsInv
<1> QED
  BY <1>1, <1>2, <1>4, <1>5 DEF LimitsInv
-----------------------------------------------------------------------------
(* The steps between snapshots.                                            *)

LEMMA LimitsInit == Init => LimitsInv
<1> SUFFICES ASSUME Init PROVE LimitsInv
  OBVIOUS
<1> DEFINE e == EntryState
<1>1. Unprocessed(e)
  BY EntryIs
<1>2. /\ st = e /\ e.cash >= CashFloor /\ phase = "idle" /\ history = <<>>
      /\ checkpoints = {Checkpoint(e, <<>>)}
  BY DEF Init
<1> HIDE DEF e
<1>3. Checkpoint(e, <<>>) = [state |-> e, prefix |-> <<>>]
  <2>1. e.next - 1 = 0
    BY <1>1 DEF Unprocessed
  <2>2. SubSeq(<<>>, 1, 0) = <<>>
    OBVIOUS
  <2> QED
    BY <2>1, <2>2 DEF Checkpoint
<1>4. \A id \in Instruments : Holding(e, id) = 0
  BY <1>1, HoldingIs DEF Unprocessed
<1>5. HoldsSized(e)
  BY <1>4, ZeroIsSized DEF HoldsSized
<1>6. Bounded(e, <<>>)
  BY <1>1, <1>2, <1>5 DEF Bounded, Unprocessed, OpenSized, OpenMoves
<1> HIDE DEF Checkpoint
<1> QED
  BY <1>2, <1>3, <1>6 DEF LimitsInv

LEMMA LimitsStep == ReplayInv /\ ClaimsInv /\ LimitsInv /\ [Next]_vars => LimitsInv'
<1> SUFFICES ASSUME ReplayInv, ClaimsInv, LimitsInv, [Next]_vars PROVE LimitsInv'
  OBVIOUS
<1>1. CASE BeginSnapshot
  <2>1. /\ phase = "idle" /\ phase' = "validate" /\ st' = st /\ checkpoints' = checkpoints
        /\ Visible' = st
    BY <1>1, BeginStep
  <2>2. Bounded(st, history) /\ IsCommitted(st, history)
    BY <2>1 DEF LimitsInv, ReplayInv
  <2>3. Before(history') = history
    <3>1. PICK x \in SnapshotsAt[st.next] : history' = Append(history, x)
      BY <1>1 DEF BeginSnapshot
    <3>2. /\ IsHistory(history) /\ st.next = Len(history) + 1 /\ Len(history) \in Nat
          /\ st.next <= limit /\ limit \in 1..Horizon
      BY <1>1, <2>2 DEF IsCommitted, IsHistory, BeginSnapshot, ReplayInv
    <3> QED
      BY <3>1, <3>2, HistoryGrows, HorizonType
  <2>4. Within("validate", st, Now', basket')
    BY <2>2 DEF Bounded, Within, Executing
  <2> QED
    BY <2>1, <2>2, <2>3, <2>4 DEF LimitsInv
<1>2. CASE ProcessSnapshot /\ ~Commit
  BY <1>2, InnerStaysWithin
<1>3. CASE Commit
  <2>1. /\ phase = "commit" /\ phase' = "idle" /\ checkpoints' = checkpoints /\ history' = history
        /\ SameCash(st', st) /\ SameOrders(st', st) /\ SameHoldings(st', st)
        /\ InSnapshot(Visible, "commit", st, basket, history)
    BY <1>3, CommitStep
  <2>2. Within("commit", st, Now, basket)
    BY <2>1 DEF LimitsInv
  <2>3. /\ st.cash >= CashFloor /\ GrossWithin(st, Now.mid[Spot]) /\ HoldsSized(st)
        /\ OpenSized(st) /\ OpenMoves(st)
    BY <2>2 DEF Within, Executing
  <2>4. Now = history[Len(history)]
    BY <2>1, TodaysMarket DEF Now
  <2>5. st'.cash >= CashFloor
    BY <2>1, <2>3 DEF SameCash
  <2>6. Bounded(st', history)
    BY <2>1, <2>3, <2>4, <2>5, SameHoldsSized, SameOpen DEF Bounded
  <2> QED
    BY <2>1, <2>6 DEF LimitsInv
<1>4. CASE FailSnapshot
  <2>1. /\ phase # "idle" /\ phase' = "idle" /\ st' = Visible /\ history' = Before(history)
        /\ checkpoints' = checkpoints \union {[state |-> Visible, prefix |-> Before(history)]}
    BY <1>4, FailStep
  <2>2. Bounded(Visible, Before(history))
    BY <2>1 DEF LimitsInv
  <2> QED
    BY <2>1, <2>2 DEF LimitsInv
<1>5. CASE FinishRun
  <2>1. /\ phase = "idle" /\ phase' = "idle" /\ st' = st /\ history' = history
        /\ checkpoints' = checkpoints \union {[state |-> st, prefix |-> history]}
    BY <1>5, FinishStep
  <2> QED
    BY <2>1 DEF LimitsInv
<1>6. CASE Restart
  <2>1. PICK cp \in checkpoints : /\ phase' = "idle" /\ st' = cp.state /\ history' = cp.prefix
                                  /\ checkpoints' = checkpoints
    BY <1>6, StartStep DEF Restart
  <2> QED
    BY <2>1 DEF LimitsInv
<1>7. CASE UNCHANGED vars
  BY <1>7 DEF vars, LimitsInv, Visible, Now
<1> QED
  BY <1>1, <1>2, <1>3, <1>4, <1>5, <1>6, <1>7 DEF Next, Proceed

(* A committed snapshot leaves cash at or above the floor, positions       *)
(* within their limits and the gross notional under the cap, although the  *)
(* basket was sized one snapshot before it filled; and the order it leaves *)
(* behind is within the trade limits, although it was rounded to lots.     *)
THEOREM CommitsStayWithinLimits == Spec => []CommittedWithinLimits
<1>1. ReplayInv /\ LimitsInv => CommittedWithinLimits
  <2> SUFFICES ASSUME ReplayInv, LimitsInv, Committed PROVE CommittedWithinLimits
    BY DEF CommittedWithinLimits
  <2>1. Bounded(st, history) /\ IsCommitted(st, history) /\ st.next > 1
    BY DEF Committed, LimitsInv, ReplayInv
  <2>2. Len(history) = st.next - 1 /\ history # <<>>
    <3>1. st.next = Len(history) + 1 /\ Len(history) \in Nat
      BY <2>1 DEF IsCommitted, IsHistory
    <3>2. Len(<<>>) = 0
      OBVIOUS
    <3> QED
      BY <2>1, <3>1, <3>2
  <2>3. GrossWithin(st, history[st.next - 1].mid[Spot])
    BY <2>1, <2>2 DEF Bounded
  <2>4. \A id \in Instruments : Sized(id, Holding(st, id))
    BY <2>1 DEF Bounded, HoldsSized
  <2>5. Sized(Spot, st.stock) /\ \A c \in Contracts : c # Spot /\ Sized(c, st.hedges[c])
    BY <2>4, HoldingIs, ContractAssumption DEF Instruments
  <2>6. /\ Magnitude(st.stock) * LotUnit <= StockLimit + Noise
        /\ \A c \in Contracts : Magnitude(st.hedges[c]) * LotUnit <= OptionLimit + Noise
        /\ ~AllowShorts => st.stock >= 0 /\ \A c \in Contracts : st.hedges[c] >= 0
    BY <2>5 DEF Sized, PositionLimit
  <2>7. st.pending # 0 => \A id \in Instruments :
          Magnitude(st.orders[st.pending].want[id] - Held(st, HedgeSlot(id))) * LotUnit
            <= (IF id = Spot THEN StockTradeLimit ELSE OptionTradeLimit) + Noise
    BY <2>1 DEF Bounded, OpenMoves, MovesSized, TradeLimit, Holding
  <2>8. st.cash >= CashFloor
    BY <2>1 DEF Bounded
  <2> QED
    BY <2>3, <2>6, <2>7, <2>8 DEF CommittedWithinLimits, GrossWithin
<1>2. Init => ReplayInv /\ ClaimsInv /\ LimitsInv
  BY InitStep, ClaimsInit, LimitsInit
<1>3. ReplayInv /\ ClaimsInv /\ LimitsInv /\ [Next]_vars => (ReplayInv /\ ClaimsInv /\ LimitsInv)'
  BY ReplayStep, ClaimsStep, LimitsStep
<1> QED
  BY <1>1, <1>2, <1>3, PTL DEF Spec
-----------------------------------------------------------------------------
(* The accounts reconcile.  First, sums over the rows of a table.          *)

(* The rows after the first n weigh what the first n leave.                *)
LEMMA WeighedOfRest ==
  ASSUME NEW S, NEW w \in [S -> Int], NEW rows \in Seq(S), NEW n \in 0..Len(rows)
  PROVE  LET rest == SubSeq(rows, n + 1, Len(rows))
         IN  /\ {Weighed(w, rest), Weighed(w, rows), Weighed(w, SubSeq(rows, 1, n))} \subseteq Int
             /\ Weighed(w, rest) = Weighed(w, rows) - Weighed(w, SubSeq(rows, 1, n))
<1> DEFINE part(m) == SubSeq(rows, n + 1, n + m)
           Fits(m) == /\ Weighed(w, part(m)) \in Int
                      /\ Weighed(w, part(m)) + Weighed(w, SubSeq(rows, 1, n))
                           = Weighed(w, SubSeq(rows, 1, n + m))
           T == {m \in Nat : n + m <= Len(rows) => Fits(m)}
<1>0. n \in Nat /\ Len(rows) \in Nat
  OBVIOUS
<1>1. \A k \in 0..Len(rows) : Weighed(w, SubSeq(rows, 1, k)) \in Int
  <2>1. Weighed(w, <<>>) \in Int /\ SubSeq(rows, 1, 0) = <<>>
    BY WeighedOfNone
  <2>2. ASSUME NEW k \in 1..Len(rows) PROVE Weighed(w, SubSeq(rows, 1, k)) \in Int
    <3>1. SubSeq(rows, 1, k) \in Seq(S) /\ rows[k] \in S
      BY FirstElements
    <3> QED
      BY <3>1, WeighedOfAppend
  <2>3. \A k \in 0..Len(rows) : k = 0 \/ k \in 1..Len(rows)
    BY <1>0
  <2> QED
    BY <2>1, <2>2, <2>3
<1>2. 0 \in T
  <2>1. part(0) = <<>> /\ n + 0 = n
    BY <1>0
  <2> HIDE DEF part
  <2> QED
    BY <1>1, <2>1, WeighedOfNone
<1>3. ASSUME NEW m \in Nat, m \in T PROVE m + 1 \in T
  <2>1. SUFFICES ASSUME n + (m + 1) <= Len(rows) PROVE Fits(m + 1)
    OBVIOUS
  <2>2. /\ n + (m + 1) \in 1..Len(rows) /\ n + m \in 0..Len(rows) /\ Fits(m)
        /\ (n + (m + 1)) - 1 = n + m
    BY <1>0, <1>3, <2>1
  <2> DEFINE x == rows[n + (m + 1)]
  <2>3. /\ part(m) \in Seq(S) /\ Len(part(m)) = m
        /\ \A i \in 1..m : part(m)[i] = rows[n + i]
    <3>1. CASE m = 0
      <4>1. part(m) = <<>>
        BY <1>0, <3>1
      <4>2. <<>> \in Seq(S) /\ Len(<<>>) = 0 /\ 1..0 = {}
        OBVIOUS
      <4> HIDE DEF part
      <4> QED
        BY <3>1, <4>1, <4>2
    <3>2. CASE m > 0
      <4> DEFINE k == m - 1
      <4>1. k \in Nat /\ m = k + 1 /\ n + (k + 1) \in 1..Len(rows)
        BY <1>0, <2>2, <3>2
      <4> HIDE DEF k
      <4>2. /\ part(k + 1) \in Seq(S) /\ Len(part(k + 1)) = k + 1
            /\ \A i \in 1..k + 1 : part(k + 1)[i] = rows[n + i]
        BY <1>0, <4>1
      <4> HIDE DEF part
      <4> QED
        BY <4>1, <4>2
    <3> QED
      BY <3>1, <3>2
  <2>4. /\ part(m + 1) \in Seq(S) /\ Len(part(m + 1)) = m + 1
        /\ \A i \in 1..m + 1 : part(m + 1)[i] = rows[n + i]
    BY <1>0, <2>2
  <2>5. x \in S
    BY <2>2
  <2>6. part(m + 1) = Append(part(m), x)
    <3> DEFINE a == part(m)
               b == part(m + 1)
    <3>1. a \in Seq(S) /\ Len(a) = m /\ \A i \in 1..m : a[i] = rows[n + i]
      BY <2>3
    <3>2. b \in Seq(S) /\ Len(b) = m + 1 /\ \A i \in 1..m + 1 : b[i] = rows[n + i]
      BY <2>4
    <3> HIDE DEF a, b, part
    <3>3. /\ Append(a, x) \in Seq(S) /\ Len(Append(a, x)) = m + 1
          /\ \A i \in 1..m : Append(a, x)[i] = a[i]
          /\ Append(a, x)[m + 1] = x
      <4> HIDE DEF x
      <4> QED
        BY <2>5, <3>1, Appended
    <3>4. \A i \in 1..m + 1 : i \in 1..m \/ i = m + 1
      OBVIOUS
    <3>5. \A i \in 1..m + 1 : b[i] = Append(a, x)[i]
      BY <3>1, <3>2, <3>3, <3>4
    <3>6. b = Append(a, x)
      BY <3>2, <3>3, <3>5, SameElements
    <3> QED
      BY <3>6 DEF a, b
  <2> HIDE DEF part
  <2>7. /\ Weighed(w, part(m)) \in Int /\ w[x] \in Int
        /\ Weighed(w, part(m + 1)) = Weighed(w, part(m)) + w[x]
    <3>1. part(m) \in Seq(S)
      BY <2>3
    <3> HIDE DEF x
    <3>2. /\ Weighed(w, part(m)) \in Int /\ w[x] \in Int
          /\ Weighed(w, Append(part(m), x)) = Weighed(w, part(m)) + w[x]
      BY <2>5, <3>1, WeighedOfAppend
    <3> QED
      BY <2>6, <3>2
  <2>8. /\ Weighed(w, SubSeq(rows, 1, n + m)) \in Int
        /\ Weighed(w, SubSeq(rows, 1, n + (m + 1))) = Weighed(w, SubSeq(rows, 1, n + m)) + w[x]
    BY <2>2, WeighedSoFar
  <2>9. Weighed(w, SubSeq(rows, 1, n)) \in Int
    BY <1>1
  <2> HIDE DEF x
  <2> QED
    BY <2>2, <2>7, <2>8, <2>9, SMTT(30)
<1>4. Len(rows) - n \in T
  <2> HIDE DEF T
  <2>1. Len(rows) - n \in Nat
    BY <1>0
  <2> QED
    BY <1>2, <1>3, <2>1, Induction
<1>5. Fits(Len(rows) - n) /\ n + (Len(rows) - n) = Len(rows)
  BY <1>0, <1>4
<1>6. SubSeq(rows, 1, Len(rows)) = rows
  BY <1>0, FirstElements
<1>7. Weighed(w, SubSeq(rows, 1, n)) \in Int /\ Weighed(w, SubSeq(rows, 1, Len(rows))) \in Int
  BY <1>0, <1>1
<1> DEFINE rest == SubSeq(rows, n + 1, Len(rows))
<1>8. Weighed(w, rest) \in Int /\ Weighed(w, rest) + Weighed(w, SubSeq(rows, 1, n)) = Weighed(w, rows)
  BY <1>5, <1>6
<1> HIDE DEF rest, T
<1>9. Weighed(w, rest) = Weighed(w, rows) - Weighed(w, SubSeq(rows, 1, n))
  BY <1>6, <1>7, <1>8
<1> QED
  BY <1>6, <1>7, <1>8, <1>9 DEF rest

(* The sum over the first rows, one row further.                           *)
LEMMA WeighedNext ==
  ASSUME NEW S, NEW w \in [S -> Int], NEW rows \in Seq(S), NEW n \in Nat, n + 1 <= Len(rows)
  PROVE  /\ Weighed(w, SubSeq(rows, 1, n)) \in Int /\ w[rows[n + 1]] \in Int
         /\ Weighed(w, SubSeq(rows, 1, n + 1)) = Weighed(w, SubSeq(rows, 1, n)) + w[rows[n + 1]]
<1>1. n + 1 \in 1..Len(rows) /\ (n + 1) - 1 = n
  OBVIOUS
<1> QED
  BY <1>1, WeighedSoFar

(* A weight that is the sum of two.                                        *)
AddsTo(w, a, b, S) == \A x \in S : w[x] = a[x] + b[x]

(* The sums over the rows add up as the weights do.                        *)
LEMMA WeighedOfSum ==
  ASSUME NEW S, NEW rows \in Seq(S), NEW w \in [S -> Int],
         NEW a \in [S -> Int], NEW b \in [S -> Int], AddsTo(w, a, b, S)
  PROVE  /\ {Weighed(w, rows), Weighed(a, rows), Weighed(b, rows)} \subseteq Int
         /\ Weighed(w, rows) = Weighed(a, rows) + Weighed(b, rows)
<1> DEFINE upTo(u, n) == Weighed(u, SubSeq(rows, 1, n))
           Fits(n) == /\ upTo(w, n) \in Int /\ upTo(a, n) \in Int /\ upTo(b, n) \in Int
                      /\ upTo(w, n) = upTo(a, n) + upTo(b, n)
           T == {n \in Nat : n <= Len(rows) => Fits(n)}
<1>1. 0 \in T
  <2>1. SubSeq(rows, 1, 0) = <<>>
    OBVIOUS
  <2>2. upTo(w, 0) = 0 /\ upTo(a, 0) = 0 /\ upTo(b, 0) = 0
    BY <2>1, WeighedOfNone
  <2> HIDE DEF upTo
  <2> QED
    BY <2>2
<1>2. ASSUME NEW n \in Nat, n \in T PROVE n + 1 \in T
  <2>1. SUFFICES ASSUME n + 1 <= Len(rows) PROVE Fits(n + 1)
    OBVIOUS
  <2> DEFINE x == rows[n + 1]
  <2>2. x \in S
    BY <2>1
  <2>3. Fits(n)
    <3> HIDE DEF Fits
    <3>1. n <= Len(rows)
      BY <2>1
    <3> QED
      BY <1>2, <3>1
  <2>4. w[x] \in Int /\ upTo(w, n + 1) = upTo(w, n) + w[x]
    BY <2>1, WeighedNext
  <2>5. a[x] \in Int /\ upTo(a, n + 1) = upTo(a, n) + a[x]
    BY <2>1, WeighedNext
  <2>6. b[x] \in Int /\ upTo(b, n + 1) = upTo(b, n) + b[x]
    BY <2>1, WeighedNext
  <2>7. w[x] = a[x] + b[x]
    BY <2>2 DEF AddsTo
  <2> HIDE DEF upTo, x
  <2> QED
    BY <2>3, <2>4, <2>5, <2>6, <2>7, SMTT(30)
<1>3. Len(rows) \in Nat /\ SubSeq(rows, 1, Len(rows)) = rows
  BY FirstElements
<1>4. Len(rows) \in T
  <2> HIDE DEF T
  <2> QED
    BY <1>1, <1>2, <1>3, Induction
<1>5. Fits(Len(rows))
  <2> HIDE DEF Fits
  <2> QED
    BY <1>3, <1>4
<1> QED
  BY <1>3, <1>5
-----------------------------------------------------------------------------
(* What the bookings do to the cost book, the cash and the fills.          *)

(* A fixing.                                                               *)
LEMMA FixedBook ==
  ASSUME NEW L, NEW s \in StateSet(L), NEW slot \in HoldingGroups \X Contracts,
         NEW amount \in Int, NEW keep \in BOOLEAN
  PROVE  Fixed(s, slot, amount, keep).book = FixPosition(s.book, slot, amount, keep)
<1> DEFINE event == IF amount # 0 THEN "fixed" ELSE "fixed_zero"
           row == [at |-> s.next, slot |-> slot, event |-> event, amount |-> amount]
           claims == IF keep THEN s.receivables \union {[slot |-> slot, amount |-> amount]}
                     ELSE s.receivables
           book == FixPosition(s.book, slot, amount, keep)
           rows == Append(s.settlements, row)
           open == [s EXCEPT !.book = book, !.settlements = rows, !.receivables = claims]
           r == IF slot[1] = "targets" THEN [open EXCEPT !.targets[slot[2]] = 0]
                ELSE [open EXCEPT !.hedges[slot[2]] = 0]
<1>1. Fixed(s, slot, amount, keep) = r
  BY DEF Fixed
<1> HIDE DEF row, claims, book, rows
<1>2. open.book = book /\ "book" \in DOMAIN open
  BY DEF StateSet
<1> HIDE DEF open
<1>3. r.book = book
  BY <1>2
<1> QED
  BY <1>1, <1>3 DEF book

(* A payment.                                                              *)
PaymentKind(claim) ==
  IF claim.slot[1] = "targets" THEN "targets_settlement" ELSE "hedges_settlement"

(* What a payment does to the book, the cash and the cashflows.            *)
LEMMA PaidBook ==
  ASSUME NEW L, NEW s \in StateSet(L), NEW claim \in Claim
  PROVE  LET r == Paid(s, claim)
             f == [at |-> s.next, kind |-> PaymentKind(claim), amount |-> claim.amount]
         IN  /\ r.book = PayClaim(s.book, claim, claim.amount)
             /\ r.cash = s.cash + claim.amount /\ r.cashflows = Append(s.cashflows, f)
             /\ f \in Flow
<1> DEFINE row == [at |-> s.next, slot |-> claim.slot, event |-> "paid", amount |-> claim.amount]
           kind == PaymentKind(claim)
           f == [at |-> s.next, kind |-> kind, amount |-> claim.amount]
           s1 == Booked(s, kind, claim.amount)
           book == PayClaim(s1.book, claim, claim.amount)
           rows == Append(s1.settlements, row)
           r == [s1 EXCEPT !.book = book, !.settlements = rows, !.receivables = @ \ {claim}]
<1>1. kind \in FlowKinds /\ claim.amount \in Int
  BY DEF FlowKinds, Claim, PaymentKind
<1>2. Paid(s, claim) = r
  BY DEF Paid, PaymentKind
<1> HIDE DEF kind
<1>3. /\ s1 \in StateSet(L) /\ s1.book = s.book /\ s1.cash = s.cash + claim.amount
      /\ s1.cashflows = Append(s.cashflows, f)
  BY <1>1, BookedIs
<1>4. f \in Flow
  BY <1>1 DEF Flow, StateSet
<1> HIDE DEF s1, book, rows, f
<1>5. r.book = book /\ r.cash = s1.cash /\ r.cashflows = s1.cashflows
  BY <1>3 DEF StateSet
<1> QED
  BY <1>2, <1>3, <1>4, <1>5 DEF book, f, kind

(* A fill.                                                                 *)
FillOf(s, now, id, change) ==
  [at |-> s.next, id |-> id, quantity |-> change, price |-> FillPrice(now, id, change),
   mid |-> now.mid[id], fee |-> Magnitude(change) * Fee]

(* What a fill does to the book, the cash and the fills.                   *)
LEMMA FilledBook ==
  ASSUME NEW L, NEW s \in StateSet(L), NEW now \in Market, NEW id \in Instruments,
         NEW change \in Int
  PROVE  LET r == Filled(s, now, id, change)
             f == [at |-> s.next, kind |-> "hedge_trade", amount |-> RowCash(now, id, change)]
         IN  /\ r.book = Trade(s.book, HedgeSlot(id), change, FillPrice(now, id, change), now.mid[id])
             /\ r.cash = s.cash + RowCash(now, id, change)
             /\ r.cashflows = Append(s.cashflows, f) /\ f \in Flow
             /\ r.fills = Append(s.fills, FillOf(s, now, id, change))
             /\ FillOf(s, now, id, change) \in Fill
<1> DEFINE cash == RowCash(now, id, change)
           f == [at |-> s.next, kind |-> "hedge_trade", amount |-> cash]
           fill == FillOf(s, now, id, change)
           s1 == Booked(s, "hedge_trade", cash)
           book == Trade(s1.book, HedgeSlot(id), change, FillPrice(now, id, change), now.mid[id])
           fills == Append(s1.fills, fill)
           s2 == [s1 EXCEPT !.book = book, !.fills = fills]
           r == AfterRow(s2, id, change)
<1>1. /\ cash \in Int /\ FillPrice(now, id, change) \in Int /\ now.mid[id] \in Int
      /\ Magnitude(change) * Fee \in Int
  BY RowCashType
<1>2. fill \in Fill
  BY <1>1 DEF Fill, FillOf, StateSet
<1>3. Filled(s, now, id, change) = r
  BY DEF Filled, FillOf
<1> HIDE DEF cash, fill
<1>4. "hedge_trade" \in FlowKinds /\ f \in Flow
  BY <1>1 DEF FlowKinds, Flow, StateSet
<1>5. /\ s1 \in StateSet(L) /\ s1.book = s.book /\ s1.cash = s.cash + cash
      /\ s1.cashflows = Append(s.cashflows, f) /\ s1.fills = s.fills
  BY <1>1, <1>4, BookedIs
<1> HIDE DEF s1, book, fills, f
<1>6. /\ s2.book = book /\ s2.cash = s1.cash /\ s2.cashflows = s1.cashflows /\ s2.fills = fills
      /\ {"book", "cash", "cashflows", "fills"} \subseteq DOMAIN s2
  BY <1>5 DEF StateSet
<1> HIDE DEF s2
<1>7. r.book = book /\ r.cash = s1.cash /\ r.cashflows = s1.cashflows /\ r.fills = fills
  BY <1>6 DEF AfterRow
<1> QED
  BY <1>2, <1>3, <1>4, <1>5, <1>7 DEF book, fills, cash, fill, f

(* The quiet steps leave the book alone.                                   *)
LEMMA QuietBooks ==
  ASSUME ReplayInv, QuietStep
  PROVE  st'.book = st.book
<1>0. IsState(st) /\ st \in StateSet(RowsOf(st))
  BY KnownAreStates DEF Known, IsState
<1>1. CASE Validate \/ FixingDone \/ PaymentsDone \/ NoPendingOrder \/ AcceptPending
           \/ NoLiquidation \/ NoDecision
  BY <1>1 DEF Validate, FixingDone, PaymentsDone, NoPendingOrder, AcceptPending,
              NoLiquidation, NoDecision
<1>2. ASSUME NEW k, NEW outcome PROVE LET r == Resolved(st, k, outcome)
                                      IN  r.book = st.book /\ [r EXCEPT !.pending = 0].book = st.book
  BY <1>0 DEF Resolved, StateSet
<1>3. CASE RejectPending
  BY <1>2, <1>3 DEF RejectPending
<1>4. CASE StartLiquidation
  BY <1>0, <1>4 DEF StartLiquidation, StateSet
<1>5. CASE BasketFilled
  <2> DEFINE r == Resolved(st, basket.order, "filled")
  <2>1. r.book = st.book /\ [r EXCEPT !.pending = 0].book = st.book
    BY <1>2
  <2>2. st' = r \/ st' = [r EXCEPT !.pending = 0]
    BY <1>5 DEF BasketFilled
  <2> HIDE DEF r
  <2> QED
    BY <2>1, <2>2
<1>6. CASE Mark
  BY <1>0, <1>6 DEF Mark, StateSet
<1>7. CASE Decide
  BY <1>0, <1>7 DEF Decide, StateSet
<1>8. CASE Commit
  BY <1>0, <1>8 DEF Commit, StateSet
<1> QED
  BY <1>1, <1>3, <1>4, <1>5, <1>6, <1>7, <1>8 DEF QuietStep

(* An entry position.                                                      *)
Entry == [contract : Contracts, quantity : Int, price : Int, fee : Nat]

(* What entering a position does to the book, the targets and the cash.    *)
LEMMA EnteredBook ==
  ASSUME NEW s, Unprocessed(s), NEW p \in Entry
  PROVE  LET r == Entered(s, p)
             cash == -p.quantity * p.price - p.fee
             f == [at |-> 1, kind |-> "target_entry", amount |-> cash]
         IN  /\ r.book = Trade(s.book, <<"targets", p.contract>>, p.quantity, p.price, p.price)
             /\ r.targets = [s.targets EXCEPT ![p.contract] = @ + p.quantity]
             /\ r.cash = s.cash + cash /\ cash \in Int
             /\ r.cashflows = Append(s.cashflows, f) /\ f \in Flow /\ r.fills = s.fills
<1> DEFINE cash == -p.quantity * p.price - p.fee
           f == [at |-> 1, kind |-> "target_entry", amount |-> cash]
           book == Trade(s.book, <<"targets", p.contract>>, p.quantity, p.price, p.price)
           targets == [s.targets EXCEPT ![p.contract] = @ + p.quantity]
           flows == Append(s.cashflows, f)
           left == s.cash + cash
           r == [s EXCEPT !.targets = targets, !.book = book, !.cash = left, !.cashflows = flows]
<1>1. cash \in Int
  BY DEF Entry
<1>2. f \in Flow
  BY <1>1 DEF Flow, FlowKinds
<1>3. Entered(s, p) = r
  BY DEF Entered, Unprocessed, StateSet
<1> HIDE DEF targets, book, flows, left, cash, f
<1>4. /\ r.book = book /\ r.targets = targets /\ r.cash = left /\ r.cashflows = flows
      /\ r.fills = s.fills
  BY DEF Unprocessed, StateSet
<1> QED
  BY <1>1, <1>2, <1>3, <1>4 DEF targets, book, flows, left, cash, f
-----------------------------------------------------------------------------
(* Where the cash of a state came from: the initial cash and what was      *)
(* booked as income, less what the targets and the fills cost.             *)

(* The kinds of cashflow that neither an entry nor a fill books.           *)
IncomeKinds == {"funding", "stock_borrow", "dividend", "external_capital",
                "targets_settlement", "hedges_settlement"}

Income(s) ==
  Posted(s, "funding") + Posted(s, "stock_borrow") + Posted(s, "dividend")
    + Posted(s, "external_capital")
    + Posted(s, "targets_settlement") + Posted(s, "hedges_settlement")

(* What a fill and an entry position cost, fees included.                  *)
CostOf == [f \in Fill |-> f.quantity * f.price + f.fee]
CostOfEntry == [p \in Entry |-> p.quantity * p.price + p.fee]

(* What the first n entry positions cost.                                  *)
EntryCost(n) == Weighed(CostOfEntry, SubSeq(Portfolio, 1, n))

(* s, once n positions are entered.                                        *)
AccountedAt(s, n) ==
  /\ {s.cash, Income(s), EntryCost(n), Weighed(CostOf, s.fills)} \subseteq Int
  /\ s.cash = InitialCash + Income(s) - EntryCost(n) - Weighed(CostOf, s.fills)

Accounted(s) == AccountedAt(s, Len(Portfolio))

(* Costs are integers, and the opening portfolio is a sequence of entries. *)
LEMMA CostTypes ==
  /\ CostOf \in [Fill -> Int] /\ CostOfEntry \in [Entry -> Int]
  /\ Portfolio \in Seq(Entry) /\ Len(Portfolio) \in Nat
<1>1. \A f \in Fill : f.quantity * f.price + f.fee \in Int
  BY DEF Fill
<1>2. \A p \in Entry : p.quantity * p.price + p.fee \in Int
  BY DEF Entry
<1>3. Portfolio \in Seq(Entry)
  BY PortfolioAssumption DEF Entry
<1> QED
  BY <1>1, <1>2, <1>3 DEF CostOf, CostOfEntry

(* What was booked under one kind is an integer.                           *)
LEMMA PostedType ==
  ASSUME NEW s, s.cashflows \in Seq(Flow), NEW kind
  PROVE  Posted(s, kind) \in Int
<1> DEFINE w == [f \in Flow |-> PartOf(f, kind)]
           none == [at |-> 0, kind |-> "funding", amount |-> 0]
<1>1. w \in [Flow -> Int] /\ Posted(s, kind) = Weighed(w, s.cashflows)
  BY PostedIsWeighed
<1>2. none \in Flow
  BY DEF Flow, FlowKinds
<1> HIDE DEF w, none
<1>3. Weighed(w, s.cashflows) \in Int
  BY <1>1, <1>2, WeighedOfAppend
<1> QED
  BY <1>1, <1>3

(* The income is an integer.                                               *)
LEMMA IncomeType ==
  ASSUME NEW s, s.cashflows \in Seq(Flow)
  PROVE  Income(s) \in Int
<1>1. /\ Posted(s, "funding") \in Int /\ Posted(s, "stock_borrow") \in Int
      /\ Posted(s, "dividend") \in Int /\ Posted(s, "external_capital") \in Int
      /\ Posted(s, "targets_settlement") \in Int /\ Posted(s, "hedges_settlement") \in Int
  BY PostedType
<1> QED
  BY <1>1 DEF Income

(* What one cashflow more does to the income.                              *)
LEMMA IncomeGrows ==
  ASSUME NEW r, NEW s, s.cashflows \in Seq(Flow), NEW f \in Flow,
         r.cashflows = Append(s.cashflows, f)
  PROVE  /\ Income(r) \in Int /\ Income(s) \in Int /\ f.amount \in Int
         /\ Income(r) = Income(s) + (IF f.kind \in IncomeKinds THEN f.amount ELSE 0)
<1>1. r.cashflows \in Seq(Flow) /\ f.amount \in Int
  BY Appended DEF Flow
<1>2. Posts(r, s, f)
  BY PostsOfAppend
<1>3. Income(r) \in Int /\ Income(s) \in Int
  BY <1>1, IncomeType
<1>4. \A kind : /\ Posted(s, kind) \in Int /\ PartOf(f, kind) \in Int
                /\ Posted(r, kind) = Posted(s, kind) + PartOf(f, kind)
  BY <1>2 DEF Posts
<1> DEFINE p(kind) == PartOf(f, kind)
           grown == p("funding") + p("stock_borrow") + p("dividend") + p("external_capital")
                      + p("targets_settlement") + p("hedges_settlement")
<1>5. Income(r) = Income(s) + grown
  <2> DEFINE a(kind) == Posted(s, kind)
             b(kind) == Posted(r, kind)
  <2>1. \A kind : a(kind) \in Int /\ p(kind) \in Int /\ b(kind) = a(kind) + p(kind)
    BY <1>4
  <2>2. Income(s) = a("funding") + a("stock_borrow") + a("dividend") + a("external_capital")
                      + a("targets_settlement") + a("hedges_settlement")
    BY DEF Income
  <2>3. Income(r) = b("funding") + b("stock_borrow") + b("dividend") + b("external_capital")
                      + b("targets_settlement") + b("hedges_settlement")
    BY DEF Income
  <2> HIDE DEF a, b, p
  <2>4. /\ b("funding") = a("funding") + p("funding")
        /\ b("stock_borrow") = a("stock_borrow") + p("stock_borrow")
        /\ b("dividend") = a("dividend") + p("dividend")
        /\ b("external_capital") = a("external_capital") + p("external_capital")
        /\ b("targets_settlement") = a("targets_settlement") + p("targets_settlement")
        /\ b("hedges_settlement") = a("hedges_settlement") + p("hedges_settlement")
    BY <2>1
  <2>5. /\ a("funding") \in Int /\ a("stock_borrow") \in Int /\ a("dividend") \in Int
        /\ a("external_capital") \in Int /\ a("targets_settlement") \in Int
        /\ a("hedges_settlement") \in Int
    BY <2>1
  <2>6. /\ p("funding") \in Int /\ p("stock_borrow") \in Int /\ p("dividend") \in Int
        /\ p("external_capital") \in Int /\ p("targets_settlement") \in Int
        /\ p("hedges_settlement") \in Int
    BY <2>1
  <2> DEFINE a1 == a("funding")
             a2 == a("stock_borrow")
             a3 == a("dividend")
             a4 == a("external_capital")
             a5 == a("targets_settlement")
             a6 == a("hedges_settlement")
             p1 == p("funding")
             p2 == p("stock_borrow")
             p3 == p("dividend")
             p4 == p("external_capital")
             p5 == p("targets_settlement")
             p6 == p("hedges_settlement")
  <2>7. /\ a1 \in Int /\ a2 \in Int /\ a3 \in Int /\ a4 \in Int /\ a5 \in Int /\ a6 \in Int
        /\ p1 \in Int /\ p2 \in Int /\ p3 \in Int /\ p4 \in Int /\ p5 \in Int /\ p6 \in Int
    BY <2>5, <2>6
  <2>8. Income(s) = a1 + a2 + a3 + a4 + a5 + a6 /\ grown = p1 + p2 + p3 + p4 + p5 + p6
    BY <2>2
  <2>9. Income(r) = (a1 + p1) + (a2 + p2) + (a3 + p3) + (a4 + p4) + (a5 + p5) + (a6 + p6)
    BY <2>3, <2>4
  <2> HIDE DEF a1, a2, a3, a4, a5, a6, p1, p2, p3, p4, p5, p6, grown
  <2> QED
    BY <2>7, <2>8, <2>9
<1>6. grown = IF f.kind \in IncomeKinds THEN f.amount ELSE 0
  BY <1>1 DEF PartOf, IncomeKinds
<1> HIDE DEF grown
<1> QED
  BY <1>1, <1>3, <1>5, <1>6

(* Cash and income grow by as much, and nothing is filled.                 *)
OnlyEarns(r, s) ==
  /\ {r.cash, s.cash, Income(r), Income(s)} \subseteq Int
  /\ r.cash - Income(r) = s.cash - Income(s) /\ r.fills = s.fills

(* What only earns leaves the cash explained.                              *)
LEMMA EarningKeepsAccounts ==
  ASSUME NEW r, NEW s, NEW n, OnlyEarns(r, s), AccountedAt(s, n)
  PROVE  AccountedAt(r, n)
<1> DEFINE cost == EntryCost(n)
           spent == Weighed(CostOf, s.fills)
           a == Income(s)
           b == Income(r)
<1>1. /\ r.cash \in Int /\ s.cash \in Int /\ a \in Int /\ b \in Int /\ r.cash - b = s.cash - a
      /\ spent = Weighed(CostOf, r.fills)
  BY DEF OnlyEarns
<1>2. cost \in Int /\ spent \in Int /\ s.cash = InitialCash + a - cost - spent
  BY DEF AccountedAt
<1>3. InitialCash \in Int
  BY ConfigAssumption
<1> HIDE DEF cost, spent, a, b
<1>4. r.cash = InitialCash + b - cost - spent
  BY <1>1, <1>2, <1>3
<1> QED
  BY <1>1, <1>2, <1>4 DEF AccountedAt, cost, spent, b

(* What only earns twice only earns.                                       *)
LEMMA EarningTwice ==
  ASSUME NEW q, NEW r, NEW s, OnlyEarns(r, s), OnlyEarns(q, r)
  PROVE  OnlyEarns(q, s)
<1> DEFINE a == Income(s)
           b == Income(r)
           c == Income(q)
<1>1. /\ q.cash \in Int /\ r.cash \in Int /\ s.cash \in Int /\ a \in Int /\ b \in Int /\ c \in Int
      /\ r.cash - b = s.cash - a /\ q.cash - c = r.cash - b /\ q.fills = s.fills
  BY DEF OnlyEarns
<1> HIDE DEF a, b, c
<1>2. q.cash - c = s.cash - a
  BY <1>1
<1> QED
  BY <1>1, <1>2 DEF OnlyEarns, a, c

(* Appending a cashflow of income, and its amount to the cash, only earns. *)
LEMMA AppendEarns ==
  ASSUME NEW r, NEW s, s.cashflows \in Seq(Flow), s.cash \in Int, NEW f \in Flow,
         r.cashflows = Append(s.cashflows, f), r.cash = s.cash + f.amount, r.fills = s.fills,
         f.kind \in IncomeKinds
  PROVE  OnlyEarns(r, s)
<1>1. /\ Income(r) \in Int /\ Income(s) \in Int /\ f.amount \in Int
      /\ Income(r) = Income(s) + f.amount
  BY IncomeGrows
<1> QED
  BY <1>1 DEF OnlyEarns

(* cashflow() only earns when it books income.                             *)
LEMMA BookedEarns ==
  ASSUME NEW L, NEW s \in StateSet(L), NEW kind \in IncomeKinds, NEW amount \in Int
  PROVE  LET r == Booked(s, kind, amount) IN r \in StateSet(L) /\ OnlyEarns(r, s)
<1> DEFINE r == Booked(s, kind, amount)
           f == [at |-> s.next, kind |-> kind, amount |-> amount]
<1>1. kind \in FlowKinds
  BY DEF IncomeKinds, FlowKinds
<1>2. /\ r \in StateSet(L) /\ r.cash = s.cash + amount /\ r.fills = s.fills
      /\ r.cashflows = Append(s.cashflows, f)
  BY <1>1, BookedIs
<1>3. /\ f \in Flow /\ f.amount = amount /\ f.kind = kind /\ s.cashflows \in Seq(Flow)
      /\ s.cash \in Int
  BY <1>1 DEF Flow, StateSet
<1> HIDE DEF r, f
<1>4. OnlyEarns(r, s)
  BY <1>2, <1>3, AppendEarns
<1> QED
  BY <1>2, <1>4 DEF r

(* What leaves cash and fills alone only earns (nothing).                  *)
LEMMA SameEarns ==
  ASSUME NEW r, NEW s, IsState(s), SameCash(r, s), r.fills = s.fills
  PROVE  OnlyEarns(r, s)
<1>1. s.cash \in Int /\ Income(s) \in Int
  BY TableTypes, IncomeType
<1>2. Income(r) = Income(s)
  BY DEF SameCash, Income, Posted
<1> QED
  BY <1>1, <1>2 DEF SameCash, OnlyEarns

(* Carry earns three times.                                                *)
LEMMA CarriedEarns ==
  ASSUME NEW L, NEW s \in StateSet(L), NEW previous \in Market, NEW now \in Market,
         NEW days \in Int
  PROVE  OnlyEarns(Carried(s, previous, now, days), s)
<1> DEFINE rate == IF s.cash >= 0 THEN previous.lending ELSE previous.borrowing
           funding == (s.cash * rate * days) \div RateUnit
           borrow == IF s.stock < 0
                       THEN (s.stock * previous.mid[Spot] * previous.stockBorrow * days)
                              \div RateUnit
                       ELSE 0
           dividend == s.stock * now.dividend
           s1 == Booked(s, "funding", funding)
           s2 == Booked(s1, "stock_borrow", borrow)
           s3 == Booked(s2, "dividend", dividend)
<1>1. funding \in Int /\ borrow \in Int /\ dividend \in Int
  BY CarriedAmounts
<1>2. Carried(s, previous, now, days) = s3
  BY DEF Carried
<1>3. {"funding", "stock_borrow", "dividend"} \subseteq IncomeKinds
  BY DEF IncomeKinds
<1> HIDE DEF funding, borrow, dividend, s1, s2, s3
<1>4. s1 \in StateSet(L) /\ OnlyEarns(s1, s)
  BY <1>1, <1>3, BookedEarns DEF s1
<1>5. s2 \in StateSet(L) /\ OnlyEarns(s2, s1)
  BY <1>1, <1>3, <1>4, BookedEarns DEF s2
<1>6. OnlyEarns(s3, s2)
  BY <1>1, <1>3, <1>5, BookedEarns DEF s3
<1> QED
  BY <1>2, <1>4, <1>5, <1>6, EarningTwice

(* Capital earns once for each of its IDs.                                 *)
LEMMA CapitalEarns ==
  ASSUME NEW L, NEW s \in StateSet(L), NEW flows, IsFiniteSet(DOMAIN flows),
         flows \in [DOMAIN flows -> Int], DOMAIN flows \subseteq FlowIds
  PROVE  OnlyEarns(CapitalBooked(s, flows), s)
<1> DEFINE r == CapitalBooked(s, flows)
           ids == SetToSeq(DOMAIN flows)
           N == Len(ids)
           base == WithIds(s, flows)
           kind == "external_capital"
<1>1. /\ base \in StateSet(L) /\ base.cashflows = s.cashflows /\ OnlyBooked(base, s)
      /\ \E booked : /\ booked[0] = base /\ r = booked[N]
                     /\ \A n \in 0..N : booked[n] \in BooksOn(L, base)
                     /\ \A n \in 1..N : booked[n] = Booked(booked[n - 1], kind, flows[ids[n]])
  BY CapitalUnfolds
<1>2. N \in Nat /\ \A n \in 1..N : ids[n] \in DOMAIN flows
  BY SetToSeqElements
<1>3. OnlyEarns(base, s)
  <2>1. base.cash = s.cash /\ base.fills = s.fills /\ s.cash \in Int /\ s.cashflows \in Seq(Flow)
    BY DEF WithIds, StateSet
  <2>2. Income(base) = Income(s) /\ Income(s) \in Int
    BY <1>1, <2>1, IncomeType DEF Income, Posted
  <2> QED
    BY <2>1, <2>2 DEF OnlyEarns
<1> HIDE DEF base, r, ids, N
<1>4. PICK booked : /\ booked[0] = base /\ r = booked[N]
                    /\ \A n \in 0..N : booked[n] \in BooksOn(L, base)
                    /\ \A n \in 1..N : booked[n] = Booked(booked[n - 1], kind, flows[ids[n]])
  BY <1>1
<1> DEFINE T == {n \in Nat : n <= N => OnlyEarns(booked[n], s)}
<1>5. 0 \in T
  BY <1>3, <1>4
<1>6. ASSUME NEW n \in Nat, n \in T PROVE n + 1 \in T
  <2>1. SUFFICES ASSUME n + 1 <= N PROVE OnlyEarns(booked[n + 1], s)
    OBVIOUS
  <2>2. n + 1 \in 1..N /\ n \in 0..N /\ (n + 1) - 1 = n /\ OnlyEarns(booked[n], s)
    BY <1>2, <1>6, <2>1
  <2> DEFINE q == booked[n]
             x == flows[ids[n + 1]]
  <2>3. q \in StateSet(L) /\ x \in Int /\ booked[n + 1] = Booked(q, kind, x)
    BY <1>2, <1>4, <2>2 DEF BooksOn
  <2>4. kind \in IncomeKinds
    BY DEF IncomeKinds
  <2> HIDE DEF q, x, kind
  <2>5. OnlyEarns(booked[n + 1], q)
    BY <2>3, <2>4, BookedEarns
  <2> QED
    BY <2>2, <2>5, EarningTwice DEF q
<1> HIDE DEF T
<1>7. N \in T
  BY <1>2, <1>5, <1>6, Induction
<1> QED
  BY <1>2, <1>4, <1>7 DEF T, r

(* A fill costs what it takes from the cash.                               *)
LEMMA FilledAccounts ==
  ASSUME NEW L, NEW s \in StateSet(L), NEW now \in Market, NEW id \in Instruments,
         NEW change \in Int, NEW n, AccountedAt(s, n)
  PROVE  AccountedAt(Filled(s, now, id, change), n)
<1> DEFINE r == Filled(s, now, id, change)
           cash == RowCash(now, id, change)
           f == [at |-> s.next, kind |-> "hedge_trade", amount |-> cash]
           fill == FillOf(s, now, id, change)
           cost == EntryCost(n)
           spent == Weighed(CostOf, s.fills)
           more == Weighed(CostOf, r.fills)
           price == FillPrice(now, id, change)
           fee == Magnitude(change) * Fee
<1>1. /\ r.cash = s.cash + cash /\ r.cashflows = Append(s.cashflows, f) /\ f \in Flow
      /\ r.fills = Append(s.fills, fill) /\ fill \in Fill
  BY FilledBook
<1>2. s.cashflows \in Seq(Flow) /\ s.fills \in Seq(Fill)
  BY DEF StateSet
<1>3. price \in Int /\ fee \in Int /\ cash \in Int /\ cash = -change * price - fee
  BY RowCashType DEF RowCash
<1>4. f.kind \notin IncomeKinds
  BY DEF IncomeKinds
<1>5. CostOf[fill] = change * price + fee
  BY <1>1 DEF CostOf, FillOf
<1> HIDE DEF r, f, fill, price, fee, cash
<1>6. Income(r) = Income(s) /\ Income(s) \in Int
  BY <1>1, <1>2, <1>4, IncomeGrows
<1>7. more = spent + (change * price + fee) /\ spent \in Int
  <2>1. CostOf \in [Fill -> Int] /\ fill \in Fill
    BY <1>1, CostTypes
  <2>2. /\ Weighed(CostOf, s.fills) \in Int
        /\ Weighed(CostOf, Append(s.fills, fill)) = Weighed(CostOf, s.fills) + CostOf[fill]
    BY <1>2, <2>1, WeighedOfAppend, ZenonT(30)
  <2> QED
    BY <1>1, <1>5, <2>2
<1>8. change * price \in Int /\ -change * price = -(change * price)
  BY <1>3
<1>9. s.cash \in Int /\ cost \in Int /\ s.cash = InitialCash + Income(s) - cost - spent
  BY DEF AccountedAt
<1>10. InitialCash \in Int
  BY ConfigAssumption
<1> HIDE DEF cost, spent, more
<1>11. more \in Int /\ r.cash \in Int /\ r.cash = InitialCash + Income(s) - cost - more
  <2> DEFINE x == change * price
             y == Income(s)
  <2>1. x \in Int /\ y \in Int /\ cash = -x - fee /\ more = spent + (x + fee)
    BY <1>3, <1>6, <1>7, <1>8
  <2>2. s.cash = InitialCash + y - cost - spent /\ r.cash = s.cash + cash
    BY <1>1, <1>9
  <2> HIDE DEF x, y
  <2>3. r.cash = InitialCash + y - cost - more /\ r.cash \in Int /\ more \in Int
    BY <1>3, <1>7, <1>9, <1>10, <2>1, <2>2
  <2> QED
    BY <2>3 DEF y
<1> QED
  BY <1>6, <1>9, <1>11 DEF AccountedAt, r, cost, more

(* An entry position costs what it takes from the cash.                    *)
LEMMA EnteredAccounts ==
  ASSUME NEW s, Unprocessed(s), NEW n \in Nat, n + 1 <= Len(Portfolio), AccountedAt(s, n)
  PROVE  AccountedAt(Entered(s, Portfolio[n + 1]), n + 1)
<1> DEFINE p == Portfolio[n + 1]
           r == Entered(s, p)
           x == p.quantity * p.price
           cash == -p.quantity * p.price - p.fee
           f == [at |-> 1, kind |-> "target_entry", amount |-> cash]
           spent == Weighed(CostOf, s.fills)
           cost == EntryCost(n)
           more == EntryCost(n + 1)
<1>1. p \in Entry
  BY CostTypes
<1>2. p.quantity \in Int /\ p.price \in Int /\ p.fee \in Int /\ CostOfEntry[p] = x + p.fee
  BY <1>1 DEF Entry, CostOfEntry
<1> HIDE DEF p
<1>3. x \in Int /\ cash = -x - p.fee /\ cash \in Int
  BY <1>2
<1>4. r.cash = s.cash + cash /\ r.cashflows = Append(s.cashflows, f) /\ f \in Flow /\ r.fills = s.fills
  BY <1>1, EnteredBook
<1>5. f.kind \notin IncomeKinds /\ s.cashflows \in Seq(Flow)
  BY DEF IncomeKinds, Unprocessed, StateSet
<1>6. cost \in Int /\ more = cost + (x + p.fee)
  BY <1>2, CostTypes, WeighedNext DEF EntryCost, p
<1> HIDE DEF r, f, x, cash, cost, more
<1>7. Income(r) = Income(s) /\ Income(s) \in Int
  BY <1>4, <1>5, IncomeGrows
<1>8. s.cash \in Int /\ spent \in Int /\ s.cash = InitialCash + Income(s) - cost - spent
  BY DEF AccountedAt, cost
<1>9. InitialCash \in Int
  BY ConfigAssumption
<1> DEFINE y == Income(s)
<1>10. y \in Int /\ s.cash = InitialCash + y - cost - spent /\ Income(r) = y
  BY <1>7, <1>8
<1>11. Weighed(CostOf, r.fills) = spent
  BY <1>4
<1>13. x + p.fee \in Int /\ cash = -(x + p.fee)
  BY <1>2, <1>3
<1> DEFINE paid == x + p.fee
<1>14. paid \in Int /\ r.cash = s.cash + -paid /\ more = cost + paid
  BY <1>4, <1>6, <1>13
<1> HIDE DEF spent, y, paid
<1>12. r.cash = InitialCash + y - more - spent /\ r.cash \in Int /\ more \in Int
  BY <1>6, <1>8, <1>9, <1>10, <1>14
<1> QED
  BY <1>8, <1>10, <1>11, <1>12 DEF AccountedAt, r, p, more

(* The cash is explained when all positions are entered.                   *)
LEMMA EntryAccounts == Accounted(EntryState)
<1> DEFINE N == Len(Portfolio)
<1>1. /\ Entries[0] = Untouched /\ EntryState = Entries[N]
      /\ \A n \in 0..N : Unprocessed(Entries[n])
      /\ \A n \in 1..N : Entries[n] = Entered(Entries[n - 1], Portfolio[n])
  BY EntryUnfolds
<1>2. N \in Nat
  BY CostTypes
<1> DEFINE T == {n \in Nat : n <= N => AccountedAt(Entries[n], n)}
<1>3. 0 \in T
  <2>1. /\ Untouched.cash = InitialCash /\ Untouched.fills = <<>> /\ Untouched.cashflows = <<>>
        /\ SubSeq(Portfolio, 1, 0) = <<>>
    BY DEF Untouched
  <2>2. ASSUME NEW kind PROVE Posted(Untouched, kind) = 0
    <3> DEFINE w == [f \in Flow |-> PartOf(f, kind)]
    <3>1. <<>> \in Seq(Flow)
      OBVIOUS
    <3>2. Posted(Untouched, kind) = Weighed(w, <<>>)
      BY <2>1, <3>1, PostedIsWeighed
    <3> HIDE DEF w
    <3> QED
      BY <3>2, WeighedOfNone
  <2>3. Income(Untouched) = 0
    BY <2>2 DEF Income
  <2>4. EntryCost(0) = 0 /\ Weighed(CostOf, Untouched.fills) = 0
    BY <2>1, WeighedOfNone DEF EntryCost
  <2>5. InitialCash \in Int
    BY ConfigAssumption
  <2>6. AccountedAt(Untouched, 0)
    BY <2>1, <2>3, <2>4, <2>5 DEF AccountedAt
  <2> QED
    BY <1>1, <2>6
<1>4. ASSUME NEW n \in Nat, n \in T PROVE n + 1 \in T
  <2>1. SUFFICES ASSUME n + 1 <= N PROVE AccountedAt(Entries[n + 1], n + 1)
    OBVIOUS
  <2>2. /\ n + 1 \in 1..N /\ n \in 0..N /\ (n + 1) - 1 = n /\ AccountedAt(Entries[n], n)
    BY <1>2, <1>4, <2>1
  <2>3. Unprocessed(Entries[n]) /\ Entries[n + 1] = Entered(Entries[n], Portfolio[n + 1])
    BY <1>1, <2>2
  <2> QED
    BY <2>1, <2>2, <2>3, EnteredAccounts
<1> HIDE DEF T
<1>5. N \in T
  BY <1>2, <1>3, <1>4, Induction
<1> QED
  BY <1>1, <1>2, <1>5 DEF T, Accounted
-----------------------------------------------------------------------------
(* What the attribution sums over: the new cashflows of a kind, the new    *)
(* fills at mid, their spread and their fees, and the entry positions.     *)

(* The cashflows of one kind, as a weight of the rows.                     *)
LEMMA FlowsWeighed ==
  ASSUME NEW rows \in Seq(Flow), NEW kind
  PROVE  LET w == [f \in Flow |-> PartOf(f, kind)]
         IN  w \in [Flow -> Int] /\ FlowsOf(rows, kind) = Weighed(w, rows)
<1> DEFINE s == [cashflows |-> rows]
<1>1. s.cashflows = rows
  OBVIOUS
<1> HIDE DEF s
<1> QED
  BY <1>1, PostedIsWeighed DEF Posted

(* The new cashflows of a kind are what its total grew by.                 *)
LEMMA FlowsSince ==
  ASSUME NEW s, NEW v, s.cashflows \in Seq(Flow), v.cashflows \in Seq(Flow),
         Longer(s.cashflows, v.cashflows), NEW kind
  PROVE  /\ FlowsOf(NewRows(s.cashflows, Len(v.cashflows)), kind) = Posted(s, kind) - Posted(v, kind)
         /\ FlowsOf(NewRows(s.cashflows, 0), kind) = Posted(s, kind)
         /\ Posted(s, kind) \in Int /\ Posted(v, kind) \in Int
<1> DEFINE rows == s.cashflows
           n == Len(v.cashflows)
           w == [f \in Flow |-> PartOf(f, kind)]
           rest == SubSeq(rows, n + 1, Len(rows))
<1>1. /\ Len(rows) \in Nat /\ n \in 0..Len(rows) /\ SubSeq(rows, 1, n) = v.cashflows
      /\ SubSeq(rows, 1, Len(rows)) = rows
  BY Beginning, FirstElements DEF Longer
<1>2. rest \in Seq(Flow)
  OBVIOUS
<1>3. /\ w \in [Flow -> Int] /\ FlowsOf(rest, kind) = Weighed(w, rest)
      /\ Posted(s, kind) = Weighed(w, rows) /\ Posted(v, kind) = Weighed(w, v.cashflows)
  BY <1>2, FlowsWeighed DEF Posted
<1>4. Posted(s, kind) \in Int /\ Posted(v, kind) \in Int
  BY PostedType
<1> HIDE DEF w
<1>5. Weighed(w, rest) = Weighed(w, rows) - Weighed(w, SubSeq(rows, 1, n))
  BY <1>1, <1>3, WeighedOfRest
<1>6. NewRows(rows, n) = rest /\ NewRows(rows, 0) = rows
  BY <1>1 DEF NewRows
<1> QED
  BY <1>1, <1>3, <1>4, <1>5, <1>6 DEF Posted

(* A fill's cost is what it traded at mid, its spread and its fee.         *)
StockAtMid == [f \in Fill |-> IF f.id = Spot THEN f.quantity * f.mid ELSE 0]
RestAtMid == [f \in Fill |-> IF f.id = Spot THEN 0 ELSE f.quantity * f.mid]
SpreadWeight == [f \in Fill |-> f.quantity * (f.price - f.mid)]
FeeWeight == [f \in Fill |-> f.fee]

(* The parts of a cost are integers.                                       *)
LEMMA FillWeights ==
  /\ StockAtMid \in [Fill -> Int] /\ RestAtMid \in [Fill -> Int]
  /\ SpreadWeight \in [Fill -> Int] /\ FeeWeight \in [Fill -> Int]
<1>1. ASSUME NEW f \in Fill
      PROVE  /\ f.quantity * f.mid \in Int /\ f.quantity * (f.price - f.mid) \in Int /\ f.fee \in Int
  BY DEF Fill
<1>2. StockAtMid \in [Fill -> Int]
  BY <1>1 DEF StockAtMid
<1>3. RestAtMid \in [Fill -> Int]
  BY <1>1 DEF RestAtMid
<1> QED
  BY <1>1, <1>2, <1>3 DEF SpreadWeight, FeeWeight

(* The sums of the attribution, as weights of the fills.                   *)
LEMMA FillsWeighed ==
  ASSUME NEW rows \in Seq(Fill)
  PROVE  /\ TradedAtMid(rows, TRUE) = -Weighed(StockAtMid, rows)
         /\ TradedAtMid(rows, FALSE) = -Weighed(RestAtMid, rows)
         /\ SpreadOf(rows) = -Weighed(SpreadWeight, rows)
         /\ SumOver(LAMBDA f : f.fee, rows) = Weighed(FeeWeight, rows)
<1>1. \A i \in DOMAIN rows : rows[i] \in Fill
  OBVIOUS
<1>2. TradedAtMid(rows, TRUE) = -Weighed(StockAtMid, rows)
  <2>1. TradedAtMid(rows, TRUE)
          = -Total([i \in DOMAIN rows |-> IF (rows[i].id = Spot) = TRUE
                                            THEN rows[i].quantity * rows[i].mid ELSE 0])
    BY DEF TradedAtMid, SumOver
  <2>2. [i \in DOMAIN rows |-> IF (rows[i].id = Spot) = TRUE
                                 THEN rows[i].quantity * rows[i].mid ELSE 0]
          = [i \in DOMAIN rows |-> StockAtMid[rows[i]]]
    BY <1>1 DEF StockAtMid
  <2> QED
    BY <2>1, <2>2 DEF Weighed
<1>5. TradedAtMid(rows, FALSE) = -Weighed(RestAtMid, rows)
  <2>1. TradedAtMid(rows, FALSE)
          = -Total([i \in DOMAIN rows |-> IF (rows[i].id = Spot) = FALSE
                                            THEN rows[i].quantity * rows[i].mid ELSE 0])
    BY DEF TradedAtMid, SumOver
  <2>2. [i \in DOMAIN rows |-> IF (rows[i].id = Spot) = FALSE
                                 THEN rows[i].quantity * rows[i].mid ELSE 0]
          = [i \in DOMAIN rows |-> RestAtMid[rows[i]]]
    BY <1>1 DEF RestAtMid
  <2> QED
    BY <2>1, <2>2 DEF Weighed
<1>3. SpreadOf(rows) = -Weighed(SpreadWeight, rows)
  <2>1. SpreadOf(rows)
          = -Total([i \in DOMAIN rows |-> rows[i].quantity * (rows[i].price - rows[i].mid)])
    BY DEF SpreadOf, SumOver
  <2>2. [i \in DOMAIN rows |-> rows[i].quantity * (rows[i].price - rows[i].mid)]
          = [i \in DOMAIN rows |-> SpreadWeight[rows[i]]]
    BY <1>1 DEF SpreadWeight
  <2> QED
    BY <2>1, <2>2 DEF Weighed
<1>4. SumOver(LAMBDA f : f.fee, rows) = Weighed(FeeWeight, rows)
  <2>1. SumOver(LAMBDA f : f.fee, rows) = Total([i \in DOMAIN rows |-> rows[i].fee])
    BY DEF SumOver
  <2>2. [i \in DOMAIN rows |-> rows[i].fee] = [i \in DOMAIN rows |-> FeeWeight[rows[i]]]
    BY <1>1 DEF FeeWeight
  <2> QED
    BY <2>1, <2>2 DEF Weighed
<1> QED
  BY <1>2, <1>3, <1>4, <1>5

(* The fills cost what they traded at mid, their spread and their fees.    *)
LEMMA CostSplits ==
  ASSUME NEW rows \in Seq(Fill)
  PROVE  LET fees == SumOver(LAMBDA f : f.fee, rows)
         IN  /\ {TradedAtMid(rows, TRUE), TradedAtMid(rows, FALSE), SpreadOf(rows), fees,
                 Weighed(CostOf, rows)} \subseteq Int
             /\ TradedAtMid(rows, TRUE) + TradedAtMid(rows, FALSE) + SpreadOf(rows) - fees
                  = -Weighed(CostOf, rows)
<1> DEFINE mids == [f \in Fill |-> StockAtMid[f] + RestAtMid[f]]
           prices == [f \in Fill |-> mids[f] + SpreadWeight[f]]
<1>1. mids \in [Fill -> Int] /\ AddsTo(mids, StockAtMid, RestAtMid, Fill)
  BY FillWeights DEF AddsTo
<1>2. prices \in [Fill -> Int] /\ AddsTo(prices, mids, SpreadWeight, Fill)
  BY <1>1, FillWeights DEF AddsTo
<1>3. AddsTo(CostOf, prices, FeeWeight, Fill)
  <2>1. ASSUME NEW f \in Fill PROVE CostOf[f] = prices[f] + FeeWeight[f]
    <3>1. /\ f.quantity \in Int /\ f.price \in Int /\ f.mid \in Int
      BY DEF Fill
    <3>2. mids[f] = f.quantity * f.mid
      BY <3>1 DEF StockAtMid, RestAtMid
    <3>3. f.quantity * f.mid + f.quantity * (f.price - f.mid) = f.quantity * f.price
      BY <3>1
    <3>4. prices[f] = f.quantity * f.price
      BY <3>2, <3>3 DEF SpreadWeight
    <3> HIDE DEF prices
    <3> QED
      BY <3>4 DEF CostOf, FeeWeight
  <2> HIDE DEF prices
  <2> QED
    BY <2>1 DEF AddsTo
<1> HIDE DEF mids, prices
<1> DEFINE t == Weighed(StockAtMid, rows)
           u == Weighed(RestAtMid, rows)
           m == Weighed(mids, rows)
           x == Weighed(SpreadWeight, rows)
           p == Weighed(prices, rows)
           y == Weighed(FeeWeight, rows)
           c == Weighed(CostOf, rows)
<1>4. t \in Int /\ u \in Int /\ m \in Int /\ m = t + u
  BY <1>1, FillWeights, WeighedOfSum, ZenonT(40)
<1>5. x \in Int /\ p \in Int /\ p = m + x
  BY <1>1, <1>2, FillWeights, WeighedOfSum, ZenonT(40)
<1>6. y \in Int /\ c \in Int /\ c = p + y
  BY <1>2, <1>3, FillWeights, CostTypes, WeighedOfSum, ZenonT(40)
<1> DEFINE fees == SumOver(LAMBDA f : f.fee, rows)
           stock == TradedAtMid(rows, TRUE)
           rest == TradedAtMid(rows, FALSE)
           spread == SpreadOf(rows)
<1>7. stock = -t /\ rest = -u /\ spread = -x /\ fees = y
  BY FillsWeighed
<1> HIDE DEF t, u, m, x, p, y, c, fees, stock, rest, spread
<1>8. stock \in Int /\ rest \in Int /\ spread \in Int /\ fees \in Int /\ c \in Int
  BY <1>4, <1>5, <1>6, <1>7
<1>9. stock + rest + spread - fees = -c
  BY <1>4, <1>5, <1>6, <1>7
<1>10. {stock, rest, spread, fees, c} \subseteq Int
  BY <1>8
<1> QED
  BY <1>9, <1>10 DEF fees, stock, rest, spread, c

(* The entry positions cost their premium and their fees.                  *)
EntryPremiums == [p \in Entry |-> p.quantity * p.price]
EntryFeeOf == [p \in Entry |-> p.fee]

(* The premium of the opening portfolio, as a weight of its entries.       *)
LEMMA PremiumPaid ==
  SumOver(LAMBDA p : p.quantity * p.price, Portfolio) = Weighed(EntryPremiums, Portfolio)
<1>1. \A i \in DOMAIN Portfolio : Portfolio[i] \in Entry
  BY CostTypes
<1>2. SumOver(LAMBDA p : p.quantity * p.price, Portfolio)
        = Total([i \in DOMAIN Portfolio |-> Portfolio[i].quantity * Portfolio[i].price])
  BY DEF SumOver
<1>3. [i \in DOMAIN Portfolio |-> Portfolio[i].quantity * Portfolio[i].price]
        = [i \in DOMAIN Portfolio |-> EntryPremiums[Portfolio[i]]]
  BY <1>1 DEF EntryPremiums
<1> QED
  BY <1>2, <1>3 DEF Weighed

(* The entry cost is attributed to the first snapshot, and split there.    *)
LEMMA EntryCostSplits ==
  ASSUME NEW s
  PROVE  /\ EntryPremium(s) \in Int /\ EntryFees(s) \in Int
         /\ s.next # 1 => EntryPremium(s) = 0 /\ EntryFees(s) = 0
         /\ s.next = 1 => /\ EntryCost(Len(Portfolio)) \in Int
                          /\ EntryPremium(s) - EntryFees(s) = -EntryCost(Len(Portfolio))
<1> DEFINE premium == Weighed(EntryPremiums, Portfolio)
           fees == Weighed(EntryFeeOf, Portfolio)
           cost == Weighed(CostOfEntry, Portfolio)
<1>1. Portfolio \in Seq(Entry) /\ \A i \in DOMAIN Portfolio : Portfolio[i] \in Entry
  BY CostTypes
<1>2. EntryPremiums \in [Entry -> Int] /\ EntryFeeOf \in [Entry -> Int]
  BY DEF EntryPremiums, EntryFeeOf, Entry
<1>3. AddsTo(CostOfEntry, EntryPremiums, EntryFeeOf, Entry)
  BY DEF AddsTo, CostOfEntry, EntryPremiums, EntryFeeOf
<1>4. premium \in Int /\ fees \in Int /\ cost \in Int /\ cost = premium + fees
  BY <1>1, <1>2, <1>3, CostTypes, WeighedOfSum
<1>5. SumOver(LAMBDA p : p.quantity * p.price, Portfolio) = premium
  BY PremiumPaid
<1>6. SumOver(LAMBDA p : p.fee, Portfolio) = fees
  <2>1. SumOver(LAMBDA p : p.fee, Portfolio) = Total([i \in DOMAIN Portfolio |-> Portfolio[i].fee])
    BY DEF SumOver
  <2>2. [i \in DOMAIN Portfolio |-> Portfolio[i].fee] = [i \in DOMAIN Portfolio |-> EntryFeeOf[Portfolio[i]]]
    BY <1>1 DEF EntryFeeOf
  <2> QED
    BY <2>1, <2>2 DEF Weighed
<1>7. EntryCost(Len(Portfolio)) = cost
  <2>1. SubSeq(Portfolio, 1, Len(Portfolio)) = Portfolio
    BY CostTypes, FirstElements
  <2> QED
    BY <2>1 DEF EntryCost
<1>8. /\ EntryPremium(s) = IF s.next # 1 THEN 0 ELSE -premium
      /\ EntryFees(s) = IF s.next # 1 THEN 0 ELSE fees
  BY <1>5, <1>6 DEF EntryPremium, EntryFees
<1> HIDE DEF premium, fees, cost
<1> QED
  BY <1>4, <1>7, <1>8
-----------------------------------------------------------------------------
(* The book holds what the state holds.                                    *)

(* A trade moves the quantity of its own slot and no claim.                *)
LEMMA TradeMoves ==
  ASSUME NEW book \in Books, NEW slot \in Slots, NEW quantity \in Int, NEW price, NEW mid
  PROVE  LET r == Trade(book, slot, quantity, price, mid)
         IN  /\ r.claims = book.claims
             /\ \A x \in Slots :
                  r.quantity[x] = IF x = slot THEN book.quantity[x] + quantity ELSE book.quantity[x]
<1> DEFINE q == [book.quantity EXCEPT ![slot] = book.quantity[slot] + quantity]
           r == Trade(book, slot, quantity, price, mid)
<1>1. /\ book.quantity \in [Slots -> Int]
      /\ book = [quantity |-> book.quantity, average |-> book.average, claims |-> book.claims,
                 realized |-> book.realized, spread |-> book.spread]
  BY DEF Books, BookType
<1>2. CASE quantity = 0
  BY <1>1, <1>2 DEF Trade
<1>3. CASE quantity # 0
  <2>1. r.quantity = q /\ r.claims = book.claims
    BY <1>1, <1>3 DEF Trade
  <2> HIDE DEF r
  <2>2. \A x \in Slots : q[x] = IF x = slot THEN book.quantity[x] + quantity ELSE book.quantity[x]
    BY <1>1
  <2> HIDE DEF q
  <2>3. /\ r.claims = book.claims
        /\ \A x \in Slots :
             r.quantity[x] = IF x = slot THEN book.quantity[x] + quantity ELSE book.quantity[x]
    BY <2>1, <2>2
  <2> QED
    BY <2>3 DEF r
<1> QED
  BY <1>2, <1>3

(* A payment removes its claim and moves no quantity.                      *)
LEMMA PayMoves ==
  ASSUME NEW book \in Books, NEW claim, NEW amount
  PROVE  LET r == PayClaim(book, claim, amount)
         IN  r.claims = book.claims \ {claim} /\ r.quantity = book.quantity
  BY DEF PayClaim, Books, BookType

(* The slots, and where each one's holding is kept.                        *)
LEMMA SlotKinds ==
  ASSUME NEW slot \in Slots
  PROVE  \/ slot = <<"stock", Spot>> /\ \A s : Held(s, slot) = s.stock
         \/ \E c \in Contracts : slot = <<"targets", c>> /\ \A s : Held(s, slot) = s.targets[c]
         \/ \E c \in Contracts : slot = <<"hedges", c>> /\ \A s : Held(s, slot) = s.hedges[c]
<1>1. CASE slot = <<"stock", Spot>>
  BY <1>1 DEF Held
<1>2. CASE slot \in HoldingGroups \X Contracts
  <2>1. PICK g \in {"targets", "hedges"}, c \in Contracts : slot = <<g, c>>
    BY <1>2 DEF HoldingGroups
  <2> QED
    BY <2>1 DEF Held
<1> QED
  BY <1>1, <1>2 DEF Slots

(* A fill moves the book and the holdings alike.                           *)
LEMMA MirrorsFilled ==
  ASSUME NEW s, NEW r, IsState(s), BookMirrors(s), NEW id \in Instruments, NEW change \in Int,
         IsFilled(r, s, id, change), NEW price, NEW mid,
         r.book = Trade(s.book, HedgeSlot(id), change, price, mid)
  PROVE  BookMirrors(r)
<1>1. s.book \in Books /\ HedgeSlot(id) \in Slots /\ s.hedges \in [Contracts -> Int]
  BY SlotGroups DEF IsState, StateSet, Books
<1>2. /\ r.book.claims = s.book.claims
      /\ \A x \in Slots : r.book.quantity[x] = IF x = HedgeSlot(id) THEN s.book.quantity[x] + change
                                                ELSE s.book.quantity[x]
  BY <1>1, TradeMoves
<1>3. /\ r.targets = s.targets /\ r.receivables = s.receivables
      /\ id = Spot => r.stock = s.stock + change /\ r.hedges = s.hedges
      /\ id # Spot => r.stock = s.stock /\ r.hedges = [s.hedges EXCEPT ![id] = @ + change]
      /\ id # Spot => id \in Contracts
  BY DEF IsFilled, SameClaims, Instruments
<1>4. HedgeSlot(id) = IF id = Spot THEN <<"stock", Spot>> ELSE <<"hedges", id>>
  BY DEF HedgeSlot
<1>5. ASSUME NEW x \in Slots PROVE r.book.quantity[x] = Held(r, x)
  <2>1. s.book.quantity[x] = Held(s, x)
    BY DEF BookMirrors
  <2>2. Held(r, x) = IF x = HedgeSlot(id) THEN Held(s, x) + change ELSE Held(s, x)
    <3>1. CASE x = <<"stock", Spot>> /\ \A q : Held(q, x) = q.stock
      BY <1>3, <1>4, <3>1
    <3>2. CASE \E c \in Contracts : x = <<"targets", c>> /\ \A q : Held(q, x) = q.targets[c]
      BY <1>3, <1>4, <3>2
    <3>3. CASE \E c \in Contracts : x = <<"hedges", c>> /\ \A q : Held(q, x) = q.hedges[c]
      BY <1>1, <1>3, <1>4, <3>3
    <3> QED
      BY <3>1, <3>2, <3>3, SlotKinds
  <2> QED
    BY <1>2, <2>1, <2>2
<1> QED
  BY <1>2, <1>3, <1>5 DEF BookMirrors

(* A fixing closes the position and adds the claim in both.                *)
LEMMA MirrorsFixed ==
  ASSUME NEW s, NEW r, IsState(s), BookMirrors(s), NEW slot \in HoldingGroups \X Contracts,
         NEW amount \in Int, NEW keep \in BOOLEAN, IsFixed(r, s, slot, amount, keep),
         r.book = FixPosition(s.book, slot, amount, keep)
  PROVE  BookMirrors(r)
<1>1. s.book \in Books /\ slot \in Slots
  BY SlotGroups DEF IsState, StateSet, Books
<1> DEFINE book == FixPosition(s.book, slot, amount, keep)
<1>2. /\ book.claims = IF keep THEN s.book.claims \union {[slot |-> slot, amount |-> amount]}
                       ELSE s.book.claims
      /\ \A x \in Slots : book.quantity[x] = IF x = slot THEN 0 ELSE s.book.quantity[x]
  BY <1>1 DEF FixPosition, Books, BookType
<1> r.book = book
  OBVIOUS
<1> HIDE DEF book
<1>3. r.book.claims = r.receivables
  BY <1>2 DEF IsFixed, BookMirrors
<1>4. ASSUME NEW x \in Slots PROVE r.book.quantity[x] = Held(r, x)
  <2>1. s.book.quantity[x] = Held(s, x)
    BY DEF BookMirrors
  <2>2. Held(r, x) = IF x = slot THEN 0 ELSE Held(s, x)
    <3>1. CASE x = <<"stock", Spot>>
      <4>1. x # slot /\ r.stock = s.stock /\ Held(r, x) = r.stock /\ Held(s, x) = s.stock
        BY <3>1 DEF IsFixed, Held, HoldingGroups
      <4> QED
        BY <4>1
    <3>2. CASE x \in HoldingGroups \X Contracts
      BY <3>2, HeldOnceFixed
    <3> QED
      BY <3>1, <3>2 DEF Slots
  <2> QED
    BY <1>2, <2>1, <2>2
<1> QED
  BY <1>3, <1>4 DEF BookMirrors

(* A payment removes the claim from both.                                  *)
LEMMA MirrorsPaid ==
  ASSUME NEW s, NEW r, IsState(s), BookMirrors(s), NEW claim, IsPaid(r, s, claim),
         r.book = PayClaim(s.book, claim, claim.amount)
  PROVE  BookMirrors(r)
<1>1. s.book \in Books
  BY DEF IsState, StateSet, Books
<1>2. r.book.claims = s.book.claims \ {claim} /\ r.book.quantity = s.book.quantity
  BY <1>1, PayMoves
<1>3. \A x : Held(r, x) = Held(s, x)
  BY DEF IsPaid, SameHoldings, Held
<1> QED
  BY <1>2, <1>3 DEF BookMirrors, IsPaid

(* What leaves both alone leaves them equal.                               *)
LEMMA MirrorsSame ==
  ASSUME NEW s, NEW r, BookMirrors(s), r.book = s.book, SameHoldings(r, s), SameClaims(r, s)
  PROVE  BookMirrors(r)
<1>1. \A x : Held(r, x) = Held(s, x)
  BY DEF SameHoldings, Held
<1> QED
  BY <1>1 DEF BookMirrors, SameClaims

(* An entry position goes into both.                                       *)
LEMMA MirrorsEntered ==
  ASSUME NEW s, Unprocessed(s), BookMirrors(s), NEW p \in Entry
  PROVE  BookMirrors(Entered(s, p))
<1> DEFINE r == Entered(s, p)
           slot == <<"targets", p.contract>>
<1>1. /\ r.book = Trade(s.book, slot, p.quantity, p.price, p.price)
      /\ r.targets = [s.targets EXCEPT ![p.contract] = @ + p.quantity]
  BY EnteredBook
<1>2. /\ p.contract \in Contracts /\ p.quantity \in Int /\ s.book \in Books
      /\ s.targets \in [Contracts -> Int]
  BY DEF Entry, Unprocessed, StateSet, Books
<1>3. r.stock = s.stock /\ r.hedges = s.hedges /\ r.receivables = s.receivables
  BY DEF Entered, Unprocessed, StateSet
<1>4. slot \in Slots
  BY <1>2 DEF Slots, HoldingGroups
<1> HIDE DEF r
<1>5. /\ r.book.claims = s.book.claims
      /\ \A x \in Slots : r.book.quantity[x] = IF x = slot THEN s.book.quantity[x] + p.quantity
                                                ELSE s.book.quantity[x]
  BY <1>1, <1>2, <1>4, TradeMoves
<1>6. ASSUME NEW x \in Slots PROVE r.book.quantity[x] = Held(r, x)
  <2>1. s.book.quantity[x] = Held(s, x)
    BY DEF BookMirrors
  <2>2. Held(r, x) = IF x = slot THEN Held(s, x) + p.quantity ELSE Held(s, x)
    <3>1. CASE x = <<"stock", Spot>> /\ \A q : Held(q, x) = q.stock
      BY <1>3, <3>1
    <3>2. CASE \E c \in Contracts : x = <<"targets", c>> /\ \A q : Held(q, x) = q.targets[c]
      BY <1>1, <1>2, <3>2
    <3>3. CASE \E c \in Contracts : x = <<"hedges", c>> /\ \A q : Held(q, x) = q.hedges[c]
      BY <1>3, <3>3
    <3> QED
      BY <3>1, <3>2, <3>3, SlotKinds
  <2> QED
    BY <1>5, <2>1, <2>2
<1>7. BookMirrors(r)
  BY <1>3, <1>5, <1>6 DEF BookMirrors
<1> QED
  BY <1>7 DEF r

(* At first both are empty.                                                *)
LEMMA MirrorsUntouched == BookMirrors(Untouched)
<1>1. ASSUME NEW x \in Slots PROVE Untouched.book.quantity[x] = 0 /\ Held(Untouched, x) = 0
  <2>1. Untouched.book.quantity[x] = 0
    BY DEF Untouched, NewBook
  <2>2. /\ Untouched.stock = 0 /\ \A c \in Contracts : Untouched.targets[c] = 0
        /\ \A c \in Contracts : Untouched.hedges[c] = 0
    BY DEF Untouched
  <2> QED
    BY <2>1, <2>2, SlotKinds
<1>2. Untouched.book.claims = {} /\ Untouched.receivables = {}
  BY DEF Untouched, NewBook
<1> QED
  BY <1>1, <1>2 DEF BookMirrors
-----------------------------------------------------------------------------
(* The spread of every fill is allocated to one group.                     *)

(* A trade allocates what it paid beside mid.                              *)
LEMMA TradeSpreads ==
  ASSUME NEW book \in Books, NEW slot \in Slots, NEW quantity \in Int, NEW price \in Int,
         NEW mid \in Int
  PROVE  /\ SpreadTotal(book) \in Int
         /\ SpreadTotal(Trade(book, slot, quantity, price, mid))
              = SpreadTotal(book) - quantity * (price - mid)
<1> DEFINE cost == quantity * (price - mid)
           p == [book.spread EXCEPT ![slot[1]] = @ - cost]
           r == Trade(book, slot, quantity, price, mid)
<1>1. book.spread \in [Groups -> Int] /\ slot[1] \in Groups /\ cost \in Int
  BY SlotGroups DEF Books, BookType
<1>2. CASE quantity = 0
  <2>1. r = book /\ cost = 0
    BY <1>2 DEF Trade
  <2> HIDE DEF r, cost
  <2> QED
    BY <1>1, <2>1 DEF SpreadTotal, Groups, r, cost
<1>3. CASE quantity # 0
  <2>1. r.spread = p
    BY <1>3 DEF Trade, Books, BookType
  <2> HIDE DEF r, cost
  <2>2. \A g \in Groups : p[g] = IF g = slot[1] THEN book.spread[g] - cost ELSE book.spread[g]
    BY <1>1
  <2> HIDE DEF p
  <2>3. SpreadTotal(book) \in Int /\ SpreadTotal(r) = SpreadTotal(book) - cost
    BY <1>1, <2>1, <2>2 DEF SpreadTotal, Groups
  <2> QED
    BY <2>3 DEF r, cost
<1> QED
  BY <1>2, <1>3

(* A fill grows the spread of the fills by as much.                        *)
LEMMA AllocatedFilled ==
  ASSUME NEW L, NEW s \in StateSet(L), NEW now \in Market, NEW id \in Instruments,
         NEW change \in Int, SpreadAllocated(s), NEW r, r = Filled(s, now, id, change)
  PROVE  SpreadAllocated(r)
<1> DEFINE price == FillPrice(now, id, change)
           mid == now.mid[id]
           fill == FillOf(s, now, id, change)
           spread == change * (price - mid)
           old == Weighed(SpreadWeight, s.fills)
<1>1. /\ r.book = Trade(s.book, HedgeSlot(id), change, price, mid)
      /\ r.fills = Append(s.fills, fill) /\ fill \in Fill
  BY FilledBook
<1>2. s.fills \in Seq(Fill) /\ s.book \in Books /\ HedgeSlot(id) \in Slots
  BY DEF StateSet, Books, HedgeSlot, Slots, HoldingGroups, Instruments
<1>3. price \in Int /\ mid \in Int
  BY RowCashType DEF Market
<1>4. SpreadWeight[fill] = spread /\ spread \in Int
  BY <1>1, <1>3 DEF SpreadWeight, FillOf
<1>5. r.fills \in Seq(Fill)
  BY <1>1, <1>2
<1> HIDE DEF price, mid, fill, spread
<1>6. Weighed(SpreadWeight, r.fills) = old + spread /\ old \in Int
  BY <1>1, <1>2, <1>4, FillWeights, WeighedOfAppend, ZenonT(40)
<1>7. SpreadTotal(s.book) = -old /\ SpreadOf(r.fills) = -Weighed(SpreadWeight, r.fills)
  BY <1>2, <1>5, FillsWeighed DEF SpreadAllocated
<1>8. SpreadTotal(r.book) = SpreadTotal(s.book) - spread
  <2>1. SpreadTotal(Trade(s.book, HedgeSlot(id), change, price, mid))
          = SpreadTotal(s.book) - change * (price - mid)
    BY <1>2, <1>3, TradeSpreads, ZenonT(30)
  <2> QED
    BY <1>1, <2>1 DEF spread
<1> HIDE DEF old
<1> QED
  BY <1>4, <1>6, <1>7, <1>8 DEF SpreadAllocated

(* An entry position has no spread: it is booked at its price.             *)
LEMMA AllocatedEntered ==
  ASSUME NEW s, Unprocessed(s), SpreadAllocated(s), NEW p \in Entry
  PROVE  SpreadAllocated(Entered(s, p))
<1> DEFINE r == Entered(s, p)
           slot == <<"targets", p.contract>>
<1>1. r.book = Trade(s.book, slot, p.quantity, p.price, p.price) /\ r.fills = s.fills
  BY EnteredBook
<1>2. /\ p.contract \in Contracts /\ p.quantity \in Int /\ p.price \in Int /\ s.book \in Books
  BY DEF Entry, Unprocessed, StateSet, Books
<1>3. slot \in Slots
  BY <1>2 DEF Slots, HoldingGroups
<1> HIDE DEF r, slot
<1>4. /\ SpreadTotal(s.book) \in Int
      /\ SpreadTotal(r.book) = SpreadTotal(s.book) - p.quantity * (p.price - p.price)
  BY <1>1, <1>2, <1>3, TradeSpreads
<1>5. SpreadTotal(r.book) = SpreadTotal(s.book)
  BY <1>2, <1>4
<1>6. SpreadAllocated(r)
  BY <1>1, <1>5 DEF SpreadAllocated
<1> QED
  BY <1>6 DEF r

(* A run begins without any.                                               *)
LEMMA AllocatedUntouched == SpreadAllocated(Untouched)
<1>1. SpreadTotal(Untouched.book) = 0
  BY DEF Untouched, NewBook, SpreadTotal, Groups
<1>2. Untouched.fills = <<>> /\ <<>> \in Seq(Fill)
  BY DEF Untouched
<1>3. SpreadOf(<<>>) = -Weighed(SpreadWeight, <<>>) /\ Weighed(SpreadWeight, <<>>) = 0
  BY <1>2, FillsWeighed, WeighedOfNone
<1> QED
  BY <1>1, <1>2, <1>3 DEF SpreadAllocated

(* Neither a fixing nor a payment pays any.                                *)
LEMMA AllocatedSettled ==
  ASSUME NEW s, NEW r, IsState(s), SpreadAllocated(s), r.fills = s.fills,
         NEW slot, NEW amount, NEW keep, NEW claim,
         \/ r.book = FixPosition(s.book, slot, amount, keep)
         \/ r.book = PayClaim(s.book, claim, amount)
  PROVE  SpreadAllocated(r)
<1>1. s.book \in Books
  BY DEF IsState, StateSet, Books
<1>2. r.book.spread = s.book.spread
  BY <1>1 DEF FixPosition, PayClaim, Books, BookType
<1> QED
  BY <1>2 DEF SpreadAllocated, SpreadTotal
-----------------------------------------------------------------------------
(* Every step of a snapshot keeps the accounts.                            *)

(* The accounts of a state: its cash is explained, its book mirrors it and *)
(* has the spread of its fills.                                            *)
AccountsKept(s) ==
  Accounted(s) /\ BookMirrors(s) /\ SpreadAllocated(s) /\ IsFiniteSet(s.receivables)

(* A run begins with its accounts kept.                                    *)
LEMMA EntryIsKept == AccountsKept(EntryState)
<1> DEFINE N == Len(Portfolio)
<1>1. /\ Entries[0] = Untouched /\ EntryState = Entries[N]
      /\ \A n \in 0..N : Unprocessed(Entries[n])
      /\ \A n \in 1..N : Entries[n] = Entered(Entries[n - 1], Portfolio[n])
  BY EntryUnfolds
<1>2. N \in Nat
  BY CostTypes
<1> DEFINE T == {n \in Nat : n <= N => BookMirrors(Entries[n]) /\ SpreadAllocated(Entries[n])}
<1>3. 0 \in T
  BY <1>1, MirrorsUntouched, AllocatedUntouched
<1>4. ASSUME NEW n \in Nat, n \in T PROVE n + 1 \in T
  <2>1. SUFFICES ASSUME n + 1 <= N
                 PROVE  BookMirrors(Entries[n + 1]) /\ SpreadAllocated(Entries[n + 1])
    OBVIOUS
  <2>2. /\ n + 1 \in 1..N /\ n \in 0..N /\ (n + 1) - 1 = n
        /\ BookMirrors(Entries[n]) /\ SpreadAllocated(Entries[n])
    BY <1>2, <1>4, <2>1
  <2>3. Unprocessed(Entries[n]) /\ Entries[n + 1] = Entered(Entries[n], Portfolio[n + 1])
    BY <1>1, <2>2
  <2>4. Portfolio[n + 1] \in Entry
    BY <2>2, CostTypes
  <2> QED
    BY <2>2, <2>3, <2>4, MirrorsEntered, AllocatedEntered
<1> HIDE DEF T
<1>5. N \in T
  BY <1>2, <1>3, <1>4, Induction
<1>6. BookMirrors(EntryState) /\ SpreadAllocated(EntryState)
  BY <1>1, <1>2, <1>5 DEF T
<1>7. IsFiniteSet(EntryState.receivables)
  BY EntryIs, FS_EmptySet DEF Unprocessed
<1> QED
  BY <1>6, <1>7, EntryAccounts DEF AccountsKept

(* What only earns keeps the accounts.                                     *)
LEMMA EarningKeeps ==
  ASSUME NEW r, NEW s, AccountsKept(s), OnlyEarns(r, s), r.book = s.book,
         SameHoldings(r, s), SameClaims(r, s)
  PROVE  AccountsKept(r)
<1>1. Accounted(r)
  BY EarningKeepsAccounts DEF AccountsKept, Accounted
<1>2. BookMirrors(r)
  BY MirrorsSame DEF AccountsKept
<1>3. SpreadAllocated(r)
  BY DEF AccountsKept, OnlyEarns, SpreadAllocated
<1> QED
  BY <1>1, <1>2, <1>3 DEF AccountsKept, SameClaims

(* The carry of a day keeps the accounts.                                  *)
LEMMA CarryKeeps ==
  ASSUME ReplayInv, Carry, AccountsKept(st)
  PROVE  AccountsKept(st')
<1>1. OnlyBooked(st', st)
  BY CarryStep
<1>2. IsState(st) /\ st \in StateSet(RowsOf(st))
  BY KnownAreStates DEF Known, IsState
<1>3. CASE st' = st
  BY <1>3
<1>4. ASSUME NEW previous \in Market, NEW now \in Market, NEW days \in Int,
             st' = Carried(st, previous, now, days)
      PROVE  AccountsKept(st')
  <2>1. OnlyEarns(st', st)
    BY <1>2, <1>4, CarriedEarns
  <2> QED
    BY <1>1, <2>1, EarningKeeps DEF OnlyBooked
<1> QED
  BY <1>3, <1>4, CarryIs

(* Booking external capital keeps the accounts.                            *)
LEMMA CapitalKeeps ==
  ASSUME ReplayInv, Capital, AccountsKept(st)
  PROVE  AccountsKept(st')
<1> DEFINE flows == Now.flows
<1>1. OnlyBooked(st', st)
  BY CapitalStep
<1>2. InSnapshot(Visible, "capital", st, basket, history) /\ st' = CapitalBooked(st, flows)
  BY DEF Capital, Step, ReplayInv
<1>3. st \in StateSet(RowsOf(st))
  BY KnownAreStates DEF Known, IsState
<1>4. Now \in Market /\ Now \in SnapshotsAt[st.next] /\ st.next \in 1..Horizon
  BY <1>2, TodaysMarket DEF Now
<1>5. IsFiniteSet(DOMAIN flows) /\ flows \in [DOMAIN flows -> Int] /\ DOMAIN flows \subseteq FlowIds
  BY <1>4, MarketSums DEF FlowIds
<1> HIDE DEF flows
<1>6. OnlyEarns(st', st)
  BY <1>2, <1>3, <1>5, CapitalEarns
<1> QED
  BY <1>1, <1>6, EarningKeeps DEF OnlyBooked

(* Fixing an expired holding keeps the accounts.                           *)
LEMMA FixKeeps ==
  ASSUME ReplayInv, NEW g \in HoldingGroups, NEW c \in Contracts, FixHolding(g, c),
         AccountsKept(st)
  PROVE  AccountsKept(st')
<1> DEFINE slot == <<g, c>>
<1>1. PICK amount \in Int, keep \in BOOLEAN : st' = Fixed(st, slot, amount, keep)
  BY FixIs
<1>2. IsState(st) /\ st \in StateSet(RowsOf(st)) /\ slot \in HoldingGroups \X Contracts
  BY KnownAreStates DEF Known, IsState
<1> HIDE DEF slot
<1> DEFINE r == Fixed(st, slot, amount, keep)
<1>3. IsFixed(r, st, slot, amount, keep) /\ r.book = FixPosition(st.book, slot, amount, keep)
  BY <1>2, FixedIs, FixedBook
<1>4. st' = r
  BY <1>1
<1> HIDE DEF r
<1>5. Accounted(r)
  <2>1. SameCash(r, st) /\ r.fills = st.fills
    BY <1>3 DEF IsFixed
  <2> QED
    BY <1>2, <2>1, SameEarns, EarningKeepsAccounts DEF AccountsKept, Accounted
<1>6. BookMirrors(r)
  BY <1>2, <1>3, MirrorsFixed DEF AccountsKept
<1>7. IsFiniteSet(r.receivables)
  <2> DEFINE claim == [slot |-> slot, amount |-> amount]
  <2>1. r.receivables = st.receivables \/ r.receivables = st.receivables \union {claim}
    BY <1>3 DEF IsFixed
  <2> HIDE DEF claim
  <2> QED
    BY <2>1, FS_AddElement DEF AccountsKept
<1>8. SpreadAllocated(r)
  BY <1>2, <1>3, AllocatedSettled, SMTT(30) DEF AccountsKept, IsFixed
<1> QED
  BY <1>4, <1>5, <1>6, <1>7, <1>8 DEF AccountsKept

(* Paying a claim keeps the accounts.                                      *)
LEMMA PayKeeps ==
  ASSUME ReplayInv, NEW claim \in st.receivables, PayDueClaim(claim), AccountsKept(st)
  PROVE  AccountsKept(st')
<1> DEFINE f == [at |-> st.next, kind |-> PaymentKind(claim), amount |-> claim.amount]
<1>1. IsPaid(st', st, claim) /\ st' = Paid(st, claim)
  BY PayStep DEF PayDueClaim
<1>2. IsState(st) /\ st \in StateSet(RowsOf(st)) /\ claim \in Claim
  BY KnownAreStates DEF Known, IsState, StateSet
<1>3. /\ st'.book = PayClaim(st.book, claim, claim.amount)
      /\ st'.cash = st.cash + claim.amount /\ st'.cashflows = Append(st.cashflows, f)
      /\ f \in Flow
  BY <1>1, <1>2, PaidBook
<1>4. f.kind \in IncomeKinds /\ f.amount = claim.amount
  BY DEF IncomeKinds, PaymentKind
<1>5. st.cashflows \in Seq(Flow) /\ st.cash \in Int /\ st'.fills = st.fills
  BY <1>1, <1>2, TableTypes DEF IsPaid
<1> HIDE DEF f
<1>6. OnlyEarns(st', st)
  BY <1>3, <1>4, <1>5, AppendEarns
<1>7. Accounted(st')
  BY <1>6, EarningKeepsAccounts DEF AccountsKept, Accounted
<1>8. BookMirrors(st')
  BY <1>1, <1>2, <1>3, MirrorsPaid DEF AccountsKept
<1>9. IsFiniteSet(st'.receivables)
  BY <1>1, FS_Subset DEF IsPaid, AccountsKept
<1>10. SpreadAllocated(st')
  BY <1>2, <1>3, <1>5, AllocatedSettled DEF AccountsKept
<1> QED
  BY <1>7, <1>8, <1>9, <1>10 DEF AccountsKept

(* Filling a row of the order keeps the accounts.                          *)
LEMMA FillKeeps ==
  ASSUME ReplayInv, NEW id \in Instruments, FillRow(id), AccountsKept(st)
  PROVE  AccountsKept(st')
<1> DEFINE change == ChangeOf(st, basket.want, id)
           price == FillPrice(Now, id, change)
           mid == Now.mid[id]
<1>1. /\ st' = Filled(st, Now, id, change) /\ Now \in Market /\ change \in Int
      /\ st \in StateSet(RowsOf(st)) /\ IsState(st)
  BY FillIs DEF IsState
<1>2. IsFilled(st', st, id, change)
  BY FillStep
<1> HIDE DEF change
<1>3. st'.book = Trade(st.book, HedgeSlot(id), change, price, mid)
  BY <1>1, FilledBook
<1> HIDE DEF price, mid
<1>4. Accounted(st')
  BY <1>1, FilledAccounts DEF AccountsKept, Accounted
<1>5. BookMirrors(st')
  BY <1>1, <1>2, <1>3, MirrorsFilled DEF AccountsKept
<1>6. SpreadAllocated(st')
  BY <1>1, AllocatedFilled DEF AccountsKept
<1> QED
  BY <1>2, <1>4, <1>5, <1>6 DEF AccountsKept, IsFilled, SameClaims

(* Steps that book nothing keep the accounts.                              *)
LEMMA QuietKeeps ==
  ASSUME ReplayInv, QuietStep, AccountsKept(st)
  PROVE  AccountsKept(st')
<1>1. Quiet(st', st) /\ st'.book = st.book /\ IsState(st)
  BY QuietStepsAre, QuietBooks, KnownAreStates DEF Known
<1>2. OnlyEarns(st', st)
  BY <1>1, SameEarns DEF Quiet
<1> QED
  BY <1>1, <1>2, EarningKeeps DEF Quiet

(* So does every step.                                                     *)
LEMMA StepsKeepAccounts ==
  ASSUME ReplayInv, ProcessSnapshot, AccountsKept(st)
  PROVE  AccountsKept(st')
  BY StepKinds, CarryKeeps, CapitalKeeps, FixKeeps, PayKeeps, FillKeeps, QuietKeeps
-----------------------------------------------------------------------------
(* The values that a row reports.                                          *)

LEMMA MarkValueType ==
  ASSUME NEW q \in [Contracts -> Int], NEW m, \A c \in Contracts : m[c] \in Int
  PROVE  MarkValue(q, m) \in Int
<1> DEFINE f == [c \in Contracts |-> q[c] * m[c]]
<1>1. f \in [Contracts -> Int] /\ IsFiniteSet(Contracts)
  BY ContractAssumption
<1> HIDE DEF f
<1>2. SumFunction(f) \in Int
  BY <1>1, SumType
<1> QED
  BY <1>2 DEF MarkValue, f

(* The discounted claims of a group have an integer value.                 *)
LEMMA ClaimsValueType ==
  ASSUME NEW s, s.receivables \subseteq Claim, IsFiniteSet(s.receivables), NEW now \in Market, NEW g
  PROVE  ClaimsValue(s, now, g) \in Int
<1> DEFINE D == {x \in s.receivables : x.slot[1] = g}
           f == [c \in D |-> PresentValue(c, now)]
<1>1. IsFiniteSet(D) /\ D \subseteq Claim
  BY FS_Subset
<1>2. ASSUME NEW c \in Claim PROVE PresentValue(c, now) \in Int
  <2>1. c.amount \in Int /\ now.discount \in Int /\ RateUnit \in Nat \ {0}
    BY MarketAssumption, ConfigAssumption DEF Market, Claim
  <2>2. c.amount * now.discount \in Int
    BY <2>1
  <2> QED
    BY <2>1, <2>2 DEF PresentValue
<1>3. f \in [D -> Int]
  BY <1>1, <1>2
<1>4. ClaimsValue(s, now, g) = SumFunction(f)
  BY DEF ClaimsValue
<1> HIDE DEF D, f
<1> QED
  BY <1>1, <1>3, <1>4, SumType

(* The value of each group is an integer.                                  *)
LEMMA ValueTypes ==
  ASSUME NEW s, IsState(s), IsFiniteSet(s.receivables), NEW now \in Market
  PROVE  LET v == GroupValue(s, now)
         IN  v["targets"] \in Int /\ v["hedges"] \in Int /\ v["stock"] \in Int
<1>1. /\ s.receivables \subseteq Claim /\ s.targets \in [Contracts -> Int]
      /\ s.hedges \in [Contracts -> Int] /\ s.stock \in Int
  BY DEF IsState, StateSet
<1>2. /\ \A c \in Contracts : now.model[c] \in Int /\ now.mid[c] \in Int
      /\ now.mid[Spot] \in Int
  BY MarketAssumption DEF Market, Instruments
<1> DEFINE a == MarkValue(s.targets, now.model)
           b == ClaimsValue(s, now, "targets")
           c == MarkValue(s.hedges, now.mid)
           d == ClaimsValue(s, now, "hedges")
<1>3. a \in Int /\ b \in Int /\ c \in Int /\ d \in Int
  BY <1>1, <1>2, MarkValueType, ClaimsValueType
<1>4. s.stock * now.mid[Spot] \in Int
  BY <1>1, <1>2
<1> HIDE DEF a, b, c, d
<1>5. GroupValue(s, now) = [targets |-> a + b, hedges |-> c + d, stock |-> s.stock * now.mid[Spot]]
  BY DEF GroupValue, a, b, c, d
<1> QED
  BY <1>3, <1>4, <1>5
-----------------------------------------------------------------------------
(* What a ledger row says, given the cash that its state had.              *)

(* Equity is cash and the values of the groups; the components and the     *)
(* other costs are what the equity earned since the start.                 *)
AddsUp(row, cash) ==
  /\ {row.value["targets"], row.value["hedges"], row.value["stock"], row.equity, cash,
      row.component["targets"], row.component["hedges"], row.component["stock"],
      row.other, row.external, row.carried, row.discounted.external} \subseteq Int
  /\ row.equity = cash + row.value["targets"] + row.value["hedges"] + row.value["stock"]
  /\ row.component["targets"] + row.component["hedges"] + row.component["stock"] + row.other
       = row.equity - InitialCash - row.external

(* The discounted columns of the row agree with its money.                 *)
Balanced(row, cash) ==
  /\ AddsUp(row, cash)
  /\ row.carried = row.discounted.cumulative
  /\ row.discounted.equity = Discounted(row.equity, row.numeraire)

(* The last row of a state has its cash; without one, nothing was traded.  *)
Sealed(s) ==
  /\ s.ledger = <<>> => s.fills = <<>>
  /\ s.ledger # <<>> => Balanced(s.ledger[Len(s.ledger)], s.cash)

(* The inductive invariant: the accounts are kept in every state that the  *)
(* replay may go on from or return to, and the last row of each that is    *)
(* committed, or that has just been marked, adds up.                       *)
AccountsInv ==
  /\ \A s \in Known : AccountsKept(s)
  /\ \A s \in Seen : Sealed(s)
  /\ phase \in {"decide", "commit"} => st.ledger # <<>> /\ Sealed(st)

(* Where a snapshot is when it is marked.                                  *)
Marked ==
  /\ saved = Savepoint(Visible) /\ IsState(st) /\ IsState(Visible) /\ Continues(st, Visible)
  /\ Now \in Market /\ IsHistory(history) /\ st.next \in 1..Len(history)
  /\ Now = history[st.next] /\ st.next = Len(history)
  /\ Len(st.ledger) = st.next - 1 /\ Len(Visible.ledger) = st.next - 1
  /\ PreviousRow(st) = PreviousRow(Visible)
  /\ st.ledger = <<>> <=> st.next = 1
  /\ Visible.ledger = <<>> <=> st.next = 1

(* A snapshot that is to be marked is there.                               *)
LEMMA MarkedAt ==
  ASSUME ReplayInv, phase = "mark"
  PROVE  Marked
<1> DEFINE n == Len(history)
<1>1. InSnapshot(Visible, "mark", st, basket, history) /\ saved = Savepoint(Visible)
  BY DEF ReplayInv
<1>2. /\ st.next \in 1..Horizon /\ st.next = n /\ IsState(st) /\ IsState(Visible)
      /\ Now \in Market
  BY <1>1, TodaysMarket DEF Now
<1>3. /\ IsHistory(history) /\ Len(st.ledger) = Len(Visible.ledger) + 0
      /\ Visible.next = Len(Before(history)) + 1 /\ Len(Visible.ledger) = Len(Before(history))
      /\ st.next = Visible.next /\ Continues(st, Visible)
  BY <1>1 DEF InSnapshot, IsCommitted
<1>4. Now = history[n] /\ n \in 1..n /\ n \in Nat /\ n > 0
  BY <1>2 DEF Now
<1>5. Len(Before(history)) = n - 1
  BY <1>3, <1>4, BeforeAgrees
<1> HIDE DEF n
<1>6. Len(st.ledger) = n - 1 /\ Len(Visible.ledger) = n - 1
  BY <1>3, <1>4, <1>5
<1> DEFINE a == st.ledger
           b == Visible.ledger
<1>7. a \in Seq(RowsOf(st)) /\ b \in Seq(RowsOf(Visible))
  BY <1>2, TableTypes
<1>8. \A i \in 1..Len(b) : a[i] = b[i]
  BY <1>3 DEF Continues, Longer
<1> HIDE DEF a, b
<1>9. (a = <<>> <=> n = 1) /\ (b = <<>> <=> n = 1)
  BY <1>4, <1>6, <1>7 DEF a, b
<1>10. PreviousRow(st) = PreviousRow(Visible)
  <2>1. CASE n = 1
    BY <1>9, <2>1 DEF PreviousRow, a, b
  <2>2. CASE n # 1
    <3>1. Len(a) = Len(b) /\ Len(b) \in 1..Len(b)
      BY <1>4, <1>6, <2>2 DEF a, b
    <3>2. a[Len(a)] = b[Len(b)]
      BY <1>8, <3>1
    <3> QED
      BY <1>9, <2>2, <3>2 DEF PreviousRow, a, b
  <2> QED
    BY <2>1, <2>2
<1> QED
  BY <1>1, <1>2, <1>3, <1>4, <1>6, <1>9, <1>10 DEF Marked, a, b, n

(* What was booked in the snapshot.                                        *)
CashBefore == IF st.ledger = <<>> THEN InitialCash ELSE Visible.cash

(* What the present snapshot has booked under one kind.                    *)
Since(kind) == FlowsOf(NewFlows(st, saved), kind)

(* It is what the total of the kind grew by.                               *)
LEMMA SinceIs ==
  ASSUME Marked, NEW kind
  PROVE  /\ Since(kind) \in Int /\ Posted(st, kind) \in Int /\ Posted(Visible, kind) \in Int
         /\ Since(kind) = Posted(st, kind) - (IF st.next = 1 THEN 0 ELSE Posted(Visible, kind))
<1>1. /\ st.cashflows \in Seq(Flow) /\ Visible.cashflows \in Seq(Flow)
      /\ Longer(st.cashflows, Visible.cashflows)
      /\ saved.lengths.cashflows = Len(Visible.cashflows)
  BY TableTypes DEF Marked, Continues, Savepoint
<1>2. /\ FlowsOf(NewRows(st.cashflows, Len(Visible.cashflows)), kind)
           = Posted(st, kind) - Posted(Visible, kind)
      /\ FlowsOf(NewRows(st.cashflows, 0), kind) = Posted(st, kind)
      /\ Posted(st, kind) \in Int /\ Posted(Visible, kind) \in Int
  BY <1>1, FlowsSince
<1>3. NewFlows(st, saved) = IF st.next = 1 THEN NewRows(st.cashflows, 0)
                            ELSE NewRows(st.cashflows, Len(Visible.cashflows))
  BY <1>1 DEF NewFlows
<1> QED
  BY <1>2, <1>3 DEF Since

(* What the fills of the snapshot weigh.                                   *)
LEMMA WeighedSince ==
  ASSUME Marked, Sealed(Visible), NEW w \in [Fill -> Int]
  PROVE  LET fills == NewFills(st, saved)
             before == IF st.next = 1 THEN 0 ELSE Weighed(w, Visible.fills)
         IN  /\ fills \in Seq(Fill)
             /\ {Weighed(w, fills), Weighed(w, st.fills), before} \subseteq Int
             /\ Weighed(w, fills) = Weighed(w, st.fills) - before
<1> DEFINE rows == st.fills
           old == Visible.fills
           n == Len(old)
           rest == SubSeq(rows, n + 1, Len(rows))
<1>1. /\ rows \in Seq(Fill) /\ old \in Seq(Fill) /\ Longer(rows, old)
      /\ saved.lengths.fills = n
  BY TableTypes DEF Marked, Continues, Savepoint
<1>2. Len(rows) \in Nat /\ n \in 0..Len(rows) /\ SubSeq(rows, 1, n) = old
  BY <1>1, Beginning DEF Longer
<1>3. NewFills(st, saved) = rest
  BY <1>1 DEF NewFills, NewRows
<1>4. rest \in Seq(Fill)
  BY <1>1, <1>2
<1>5. /\ Weighed(w, rest) \in Int /\ Weighed(w, rows) \in Int /\ Weighed(w, old) \in Int
      /\ Weighed(w, rest) = Weighed(w, rows) - Weighed(w, old)
  <2> HIDE DEF rows, old, n
  <2> QED
    BY <1>1, <1>2, WeighedOfRest
<1>6. st.next = 1 => Weighed(w, old) = 0
  <2>1. st.next = 1 => old = <<>>
    BY DEF Marked, Sealed
  <2> QED
    BY <2>1, WeighedOfNone
<1> HIDE DEF rows, old, rest
<1> QED
  BY <1>3, <1>4, <1>5, <1>6 DEF rows, old

(* All that was booked in it as income.                                     *)
Earned ==
  Since("funding") + Since("stock_borrow") + Since("dividend") + Since("external_capital")
    + Since("targets_settlement") + Since("hedges_settlement")

(* It is what the income grew by.                                          *)
LEMMA EarnedSince ==
  ASSUME Marked
  PROVE  /\ Earned \in Int /\ Income(st) \in Int /\ Income(Visible) \in Int
         /\ Earned = Income(st) - (IF st.next = 1 THEN 0 ELSE Income(Visible))
<1> DEFINE a(k) == Since(k)
           b(k) == Posted(st, k)
           c(k) == Posted(Visible, k)
           first == st.next = 1
<1>1. \A k : /\ a(k) \in Int /\ b(k) \in Int /\ c(k) \in Int
             /\ a(k) = b(k) - (IF first THEN 0 ELSE c(k))
  BY SinceIs
<1>2. /\ Earned = a("funding") + a("stock_borrow") + a("dividend") + a("external_capital")
                     + a("targets_settlement") + a("hedges_settlement")
      /\ Income(st) = b("funding") + b("stock_borrow") + b("dividend") + b("external_capital")
                        + b("targets_settlement") + b("hedges_settlement")
      /\ Income(Visible) = c("funding") + c("stock_borrow") + c("dividend") + c("external_capital")
                             + c("targets_settlement") + c("hedges_settlement")
  BY DEF Earned, Income
<1> HIDE DEF a, b, c, first
<1> DEFINE a1 == a("funding")
           a2 == a("stock_borrow")
           a3 == a("dividend")
           a4 == a("external_capital")
           a5 == a("targets_settlement")
           a6 == a("hedges_settlement")
           b1 == b("funding")
           b2 == b("stock_borrow")
           b3 == b("dividend")
           b4 == b("external_capital")
           b5 == b("targets_settlement")
           b6 == b("hedges_settlement")
           c1 == c("funding")
           c2 == c("stock_borrow")
           c3 == c("dividend")
           c4 == c("external_capital")
           c5 == c("targets_settlement")
           c6 == c("hedges_settlement")
<1>3. /\ b1 \in Int /\ b2 \in Int /\ b3 \in Int /\ b4 \in Int /\ b5 \in Int /\ b6 \in Int
      /\ c1 \in Int /\ c2 \in Int /\ c3 \in Int /\ c4 \in Int /\ c5 \in Int /\ c6 \in Int
  BY <1>1
<1>4. first => a1 = b1 /\ a2 = b2 /\ a3 = b3 /\ a4 = b4 /\ a5 = b5 /\ a6 = b6
  BY <1>1, <1>3
<1>5. ~first => /\ a1 = b1 - c1 /\ a2 = b2 - c2 /\ a3 = b3 - c3 /\ a4 = b4 - c4
                /\ a5 = b5 - c5 /\ a6 = b6 - c6
  BY <1>1
<1>6. /\ Earned = a1 + a2 + a3 + a4 + a5 + a6 /\ Income(st) = b1 + b2 + b3 + b4 + b5 + b6
      /\ Income(Visible) = c1 + c2 + c3 + c4 + c5 + c6
  BY <1>2
<1> HIDE DEF a1, a2, a3, a4, a5, a6, b1, b2, b3, b4, b5, b6, c1, c2, c3, c4, c5, c6
<1> DEFINE x == Earned
           y == Income(st)
           z == Income(Visible)
<1>7. x = a1 + a2 + a3 + a4 + a5 + a6 /\ y = b1 + b2 + b3 + b4 + b5 + b6
      /\ z = c1 + c2 + c3 + c4 + c5 + c6
  BY <1>6
<1> HIDE DEF x, y, z
<1>8. y \in Int /\ z \in Int
  BY <1>3, <1>7
<1>9. CASE first
  <2>1. x = y
    BY <1>3, <1>4, <1>7, <1>9
  <2> QED
    BY <1>8, <1>9, <2>1 DEF x, y, z, first
<1>10. CASE ~first
  <2>1. x = y - z
    BY <1>3, <1>5, <1>7, <1>10
  <2> QED
    BY <1>8, <1>10, <2>1 DEF x, y, z, first
<1> QED
  BY <1>9, <1>10

(* What the cash moved by in the snapshot.                                 *)
LEMMA CashSince ==
  ASSUME Marked, Sealed(Visible), AccountsKept(st), AccountsKept(Visible)
  PROVE  LET spent == Weighed(CostOf, NewFills(st, saved))
         IN  /\ {st.cash, CashBefore, Earned, EntryPremium(st), EntryFees(st), spent} \subseteq Int
             /\ st.cash - CashBefore
                  = Earned + (EntryPremium(st) - EntryFees(st)) - spent
<1> DEFINE spent == Weighed(CostOf, NewFills(st, saved))
           all == Weighed(CostOf, st.fills)
           old == Weighed(CostOf, Visible.fills)
           cost == EntryCost(Len(Portfolio))
           y == Income(st)
           z == Income(Visible)
           x == Earned
           a == EntryPremium(st)
           b == EntryFees(st)
           first == st.next = 1
<1>1. /\ spent \in Int /\ all \in Int /\ spent = all - (IF first THEN 0 ELSE old)
  BY CostTypes, WeighedSince
<1>2. x \in Int /\ y \in Int /\ z \in Int /\ x = y - (IF first THEN 0 ELSE z)
  BY EarnedSince
<1>3. st.cash \in Int /\ cost \in Int /\ st.cash = InitialCash + y - cost - all
  BY DEF AccountsKept, Accounted, AccountedAt
<1>4. Visible.cash \in Int /\ old \in Int /\ Visible.cash = InitialCash + z - cost - old
  BY DEF AccountsKept, Accounted, AccountedAt
<1>5. /\ a \in Int /\ b \in Int
      /\ ~first => a = 0 /\ b = 0
      /\ first => a - b = -cost
  BY EntryCostSplits
<1>6. CashBefore = IF first THEN InitialCash ELSE Visible.cash
  BY DEF CashBefore, Marked
<1>7. InitialCash \in Int
  BY ConfigAssumption
<1> DEFINE before == CashBefore
<1>8. before = IF first THEN InitialCash ELSE Visible.cash
  BY <1>6
<1> HIDE DEF spent, all, old, cost, x, y, z, a, b, first, before
<1> DEFINE cash == st.cash
           prior == Visible.cash
<1>11. /\ cash \in Int /\ cash = InitialCash + y - cost - all
       /\ prior \in Int /\ prior = InitialCash + z - cost - old
       /\ before = IF first THEN InitialCash ELSE prior
  BY <1>3, <1>4, <1>8
<1> HIDE DEF cash, prior
<1>9. cash - before = x + (a - b) - spent /\ before \in Int
  <2>1. CASE first
    <3>1. before = InitialCash /\ spent = all /\ x = y /\ a - b = -cost
      BY <1>1, <1>2, <1>5, <1>11, <2>1
    <3> QED
      BY <1>1, <1>2, <1>3, <1>5, <1>7, <1>11, <3>1
  <2>2. CASE ~first
    <3>1. before = prior /\ spent = all - old /\ x = y - z /\ a = 0 /\ b = 0
      BY <1>1, <1>2, <1>5, <1>11, <2>2
    <3> QED
      BY <1>1, <1>2, <1>3, <1>4, <1>5, <1>7, <1>11, <3>1
  <2> QED
    BY <2>1, <2>2
<1>10. {cash, before, x, a, b, spent} \subseteq Int
  BY <1>1, <1>2, <1>5, <1>9, <1>11
<1> QED
  BY <1>9, <1>10 DEF cash, before, x, a, b, spent

(* The capital of the snapshot is what was booked as capital in it.        *)
LEMMA CapitalSince ==
  ASSUME ReplayInv, HistoryInv, phase = "mark", Marked
  PROVE  /\ SumFunction(Now.flows) \in Int /\ Since("external_capital") = SumFunction(Now.flows)
<1> DEFINE n == Len(history)
           kind == "external_capital"
           net == SumFunction(Now.flows)
<1>1. /\ IsHistory(history) /\ st.next = n /\ n \in 1..n /\ n \in Nat /\ Now = history[n]
      /\ n \in 1..Len(history) /\ n > 0 /\ Len(history) > 0
  BY DEF Marked, IsHistory
<1>2. BooksHistory(Visible, Before(history)) /\ BooksCapital(st, history, n)
  BY DEF HistoryInv
<1>3. Len(Before(history)) = n - 1 /\ Agree(history, Before(history), n - 1)
  BY <1>1, BeforeAgrees
<1>4. Posted(Visible, kind) = NetUpTo(history, n - 1)
  <2>1. BooksCapital(Visible, Before(history), n - 1)
    BY <1>2, <1>3 DEF BooksHistory
  <2>2. BooksCapital(Visible, history, n - 1)
    BY <1>3, <2>1, AgreeingHistories
  <2> QED
    BY <2>2 DEF BooksCapital
<1>5. Posted(st, kind) = NetUpTo(history, n)
  BY <1>2 DEF BooksCapital
<1>6. /\ net \in Int /\ NetUpTo(history, n - 1) \in Int /\ NetUpTo(history, 0) = 0
      /\ NetUpTo(history, n) = NetUpTo(history, n - 1) + net
  BY <1>1, HistorySums DEF SumsGrow
<1>7. Since(kind) = Posted(st, kind) - (IF st.next = 1 THEN 0 ELSE Posted(Visible, kind))
  BY SinceIs
<1> HIDE DEF n, net
<1>8. CASE n = 1
  <2>1. n - 1 = 0
    BY <1>8
  <2>2. NetUpTo(history, n) = 0 + net
    BY <1>6, <2>1
  <2> QED
    BY <1>1, <1>5, <1>6, <1>7, <1>8, <2>2 DEF net
<1>9. CASE n # 1
  BY <1>1, <1>4, <1>5, <1>6, <1>7, <1>9 DEF net
<1> QED
  BY <1>8, <1>9

(* The row of the snapshot before, with the cash of that state.            *)
LEMMA PreviousAddsUp ==
  ASSUME Marked, Sealed(Visible)
  PROVE  AddsUp(PreviousRow(st), CashBefore)
<1>1. CASE st.ledger = <<>>
  <2>1. PreviousRow(st) = NoRow /\ CashBefore = InitialCash /\ InitialCash \in Int
    BY <1>1, ConfigAssumption DEF PreviousRow, CashBefore
  <2>2. /\ NoRow.value["targets"] = 0 /\ NoRow.value["hedges"] = 0 /\ NoRow.value["stock"] = 0
        /\ NoRow.component["targets"] = 0 /\ NoRow.component["hedges"] = 0
        /\ NoRow.component["stock"] = 0 /\ NoRow.other = 0 /\ NoRow.external = 0
        /\ NoRow.carried = 0 /\ NoRow.discounted.external = 0 /\ NoRow.equity = InitialCash
    BY DEF NoRow, Groups
  <2>3. AddsUp(NoRow, InitialCash)
    BY <2>1, <2>2 DEF AddsUp
  <2> QED
    BY <2>1, <2>3
<1>2. CASE st.ledger # <<>>
  <2>1. Visible.ledger # <<>> /\ CashBefore = Visible.cash /\ PreviousRow(st) = PreviousRow(Visible)
    BY <1>2 DEF Marked, CashBefore
  <2> QED
    BY <2>1 DEF PreviousRow, Sealed, Balanced
<1> QED
  BY <1>1, <1>2

(* The parts of the attribution, in integers.                              *)
LEMMA PartTypes ==
  ASSUME Marked, Sealed(Visible), AccountsKept(st), AccountsKept(Visible)
  PROVE  LET part == Components(st, Now, saved)
             row == NewRow
         IN  /\ part["targets"] \in Int /\ part["hedges"] \in Int /\ part["stock"] \in Int
             /\ OtherComponents(st, saved) \in Int
             /\ row.value["targets"] \in Int /\ row.value["hedges"] \in Int
             /\ row.value["stock"] \in Int
             /\ row.equity = st.cash + row.value["targets"] + row.value["hedges"] + row.value["stock"]
             /\ AttributedTotal(st, Now, saved)
                  = (row.equity - PreviousRow(st).equity) - Since("external_capital")
<1> DEFINE p == PreviousRow(st)
           v == GroupValue(st, Now)
           fills == NewFills(st, saved)
           vT == v["targets"]
           vH == v["hedges"]
           vS == v["stock"]
           pT == p.value["targets"]
           pH == p.value["hedges"]
           pS == p.value["stock"]
           fT == Since("targets_settlement")
           fH == Since("hedges_settlement")
           div == Since("dividend")
           fund == Since("funding")
           borrow == Since("stock_borrow")
           ext == Since("external_capital")
           prem == EntryPremium(st)
           efee == EntryFees(st)
           stock == TradedAtMid(fills, TRUE)
           rest == TradedAtMid(fills, FALSE)
           spread == SpreadOf(fills)
           fees == SumOver(LAMBDA f : f.fee, fills)
           spent == Weighed(CostOf, fills)
           part == Components(st, Now, saved)
           other == OtherComponents(st, saved)
           total == AttributedTotal(st, Now, saved)
           row == NewRow
           before == CashBefore
           all == Earned
<1>1. vT \in Int /\ vH \in Int /\ vS \in Int
  BY ValueTypes DEF Marked, AccountsKept
<1>2. /\ pT \in Int /\ pH \in Int /\ pS \in Int /\ before \in Int /\ p.equity \in Int
      /\ p.equity = before + pT + pH + pS
  BY PreviousAddsUp DEF AddsUp
<1>3. fT \in Int /\ fH \in Int /\ div \in Int /\ fund \in Int /\ borrow \in Int /\ ext \in Int
  BY SinceIs
<1>4. /\ st.cash \in Int /\ all \in Int /\ prem \in Int /\ efee \in Int /\ spent \in Int
      /\ st.cash - before = all + (prem - efee) - spent
  BY CashSince
<1>5. fills \in Seq(Fill)
  BY CostTypes, WeighedSince
<1>6. /\ stock \in Int /\ rest \in Int /\ spread \in Int /\ fees \in Int
      /\ stock + rest + spread - fees = -spent
  <2> HIDE DEF fills
  <2> QED
    BY <1>5, CostSplits
<1>7. all = fund + borrow + div + ext + fT + fH
  BY DEF Earned
<1>8. /\ part["targets"] = vT - pT + fT + prem
      /\ part["hedges"] = vH - pH + fH + rest
      /\ part["stock"] = vS - pS + stock
  BY DEF Components, Since
<1>9. other = div + fund + borrow - efee - fees + spread
  BY DEF OtherComponents, Since
<1>10. total = part["targets"] + part["hedges"] + part["stock"] + other
  BY DEF AttributedTotal
<1>11. row.value = v /\ row.equity = st.cash + vT + vH + vS
  BY DEF NewRow, LedgerRow
<1> DEFINE tT == part["targets"]
           tH == part["hedges"]
           tS == part["stock"]
           e == row.equity
           pe == p.equity
<1>12. /\ tT = vT - pT + fT + prem /\ tH = vH - pH + fH + rest /\ tS = vS - pS + stock
       /\ total = tT + tH + tS + other /\ e = st.cash + vT + vH + vS
       /\ pe = before + pT + pH + pS /\ pe \in Int
  BY <1>2, <1>8, <1>10, <1>11
<1>13. /\ row.value["targets"] = vT /\ row.value["hedges"] = vH /\ row.value["stock"] = vS
  BY <1>11
<1> HIDE DEF p, v, fills, vT, vH, vS, pT, pH, pS, fT, fH, div, fund, borrow, ext, prem, efee,
             stock, rest, spread, fees, spent, part, other, total, row, before, all, tT, tH, tS, e, pe
<1>14. tT \in Int /\ tH \in Int /\ tS \in Int /\ other \in Int /\ e \in Int
  BY <1>1, <1>2, <1>3, <1>4, <1>6, <1>9, <1>12
<1>15. total = e - pe - ext
  <2> DEFINE cash == st.cash
  <2>1. cash \in Int /\ cash - before = all + (prem - efee) - spent /\ e = cash + vT + vH + vS
    BY <1>4, <1>12
  <2> HIDE DEF cash
  <2>2. total = (vT - pT + fT + prem) + (vH - pH + fH + rest) + (vS - pS + stock)
                  + (div + fund + borrow - efee - fees + spread)
    BY <1>9, <1>12
  <2>3. total = (vT + vH + vS) - (pT + pH + pS) + (all - ext) + (prem - efee) - spent
    BY <1>1, <1>2, <1>3, <1>4, <1>6, <1>7, <2>2
  <2> DEFINE q == vT + vH + vS
             r == pT + pH + pS
             d == prem - efee
  <2>4. q \in Int /\ r \in Int /\ d \in Int
    BY <1>1, <1>2, <1>4
  <2>5. total = q - r + (all - ext) + d - spent /\ e = cash + q /\ pe = before + r
        /\ cash - before = all + d - spent
    BY <1>1, <1>2, <1>12, <2>1, <2>3
  <2> HIDE DEF q, r, d
  <2> QED
    BY <1>2, <1>3, <1>4, <2>1, <2>4, <2>5
<1>16. tT \in Int /\ tH \in Int /\ tS \in Int /\ other \in Int
  BY <1>14
<1>17. row.value["targets"] \in Int /\ row.value["hedges"] \in Int /\ row.value["stock"] \in Int
  BY <1>1, <1>13
<1>18. e = st.cash + row.value["targets"] + row.value["hedges"] + row.value["stock"]
  BY <1>12, <1>13
<1> QED
  BY <1>15, <1>16, <1>17, <1>18 DEF e, pe, p, total, ext, tT, tH, tS, part, other, row

(* An amount in units of an account is linear in the amount.               *)
LEMMA DiscountedIs ==
  ASSUME NEW n, n \in Nat \ {0}
  PROVE  \E k \in Int : \A x \in Int : Discounted(x, n) = x * k /\ Discounted(x, n) \in Int
<1> DEFINE k == NumeraireUnit \div n
<1>1. k \in Int
  BY ConfigAssumption
<1>2. \A x : Discounted(x, n) = x * k
  BY DEF Discounted
<1> HIDE DEF k
<1>3. \A x \in Int : x * k \in Int
  BY <1>1
<1> QED
  BY <1>1, <1>2, <1>3

(* Discounting is exact, so that it distributes over differences.          *)
LEMMA DiscountedSplits ==
  ASSUME NEW n, n \in Nat \ {0}, NEW x \in Int, NEW y \in Int, NEW z \in Int
  PROVE  /\ Discounted(x, n) \in Int /\ Discounted(y, n) \in Int /\ Discounted(z, n) \in Int
         /\ Discounted((x - y) - z, n) = Discounted(x, n) - Discounted(y, n) - Discounted(z, n)
<1>1. PICK k \in Int : \A u \in Int : Discounted(u, n) = u * k /\ Discounted(u, n) \in Int
  BY DiscountedIs
<1>2. (x - y) - z \in Int
  OBVIOUS
<1>3. ((x - y) - z) * k = x * k - y * k - z * k
  BY <1>1
<1> QED
  BY <1>1, <1>2, <1>3

(* The money of the row adds up, today and since the start.                *)
LEMMA RowAddsUp ==
  ASSUME ReplayInv, HistoryInv, phase = "mark", Marked, Sealed(Visible),
         AccountsKept(st), AccountsKept(Visible)
  PROVE  /\ Attributed(st, Now, NewRow, saved)
         /\ AttributedTotal(st, Now, saved) = NewRow.daily
         /\ NewRow.daily = (NewRow.equity - PreviousRow(st).equity) - SumFunction(Now.flows)
         /\ NewRow.equity \in Int /\ SumFunction(Now.flows) \in Int
<1> DEFINE p == PreviousRow(st)
           row == NewRow
           part == Components(st, Now, saved)
           other == OtherComponents(st, saved)
           total == AttributedTotal(st, Now, saved)
           net == SumFunction(Now.flows)
           e == row.equity
           pe == p.equity
           tT == part["targets"]
           tH == part["hedges"]
           tS == part["stock"]
           vT == row.value["targets"]
           vH == row.value["hedges"]
           vS == row.value["stock"]
<1>1. net \in Int /\ Since("external_capital") = net
  BY CapitalSince
<1>2. /\ tT \in Int /\ tH \in Int /\ tS \in Int /\ other \in Int
      /\ vT \in Int /\ vH \in Int /\ vS \in Int
      /\ e = st.cash + vT + vH + vS /\ total = (e - pe) - Since("external_capital")
  BY PartTypes
<1>3. AddsUp(p, CashBefore)
  BY PreviousAddsUp
<1>4. /\ row.daily = e - pe - net
      /\ row.cumulative = e - InitialCash - p.external - net
      /\ row.component["targets"] = p.component["targets"] + tT
      /\ row.component["hedges"] = p.component["hedges"] + tH
      /\ row.component["stock"] = p.component["stock"] + tS
      /\ row.other = p.other + other
  BY DEF NewRow, LedgerRow, Groups
<1>5. total = tT + tH + tS + other
  BY DEF AttributedTotal
<1>6. st.cash \in Int /\ InitialCash \in Int
  BY TableTypes, ConfigAssumption DEF Marked
<1>7. FlowsOf(NewFlows(st, saved), "external_capital") = net
  BY <1>1 DEF Since
<1> DEFINE c1 == p.component["targets"]
           c2 == p.component["hedges"]
           c3 == p.component["stock"]
           c4 == p.other
           x == p.external
<1>8. /\ c1 \in Int /\ c2 \in Int /\ c3 \in Int /\ c4 \in Int /\ x \in Int /\ pe \in Int
      /\ c1 + c2 + c3 + c4 = pe - InitialCash - x
  BY <1>3 DEF AddsUp
<1> DEFINE r1 == row.component["targets"]
           r2 == row.component["hedges"]
           r3 == row.component["stock"]
           r4 == row.other
           cum == row.cumulative
           daily == row.daily
<1>9. /\ daily = e - pe - net /\ cum = e - InitialCash - x - net
      /\ r1 = c1 + tT /\ r2 = c2 + tH /\ r3 = c3 + tS /\ r4 = c4 + other
      /\ total = (e - pe) - net
  BY <1>1, <1>2, <1>4
<1>14. e \in Int
  BY <1>2, <1>6
<1> HIDE DEF p, row, part, other, total, net, e, pe, tT, tH, tS, vT, vH, vS, c1, c2, c3, c4, x,
             r1, r2, r3, r4, cum, daily
<1>10. total = daily /\ daily = (e - pe) - net
  BY <1>1, <1>8, <1>9, <1>14
<1>11. r1 + r2 + r3 + r4 = cum
  <2> DEFINE c == c1 + c2 + c3 + c4
             t == tT + tH + tS + other
  <2>1. r1 + r2 + r3 + r4 = c + t
    BY <1>2, <1>8, <1>9
  <2>2. c = pe - InitialCash - x /\ t = (e - pe) - net
    BY <1>5, <1>8, <1>9
  <2> HIDE DEF c, t
  <2>3. c + t = e - InitialCash - x - net
    BY <1>1, <1>6, <1>8, <1>14, <2>2
  <2> QED
    BY <1>9, <2>1, <2>3
<1>12. Attributed(st, Now, row, saved)
  BY <1>7, <1>10, <1>11 DEF Attributed, total, daily, r1, r2, r3, r4, cum, net
<1> QED
  BY <1>1, <1>10, <1>12, <1>14 DEF total, daily, row, e, pe, p, net

(* What the row of the snapshot before says in units of the account.       *)
LEMMA PreviousDiscounted ==
  ASSUME ReplayInv, HistoryInv, phase = "mark", Marked, Sealed(Visible)
  PROVE  LET p == PreviousRow(st)
             first == history[1].numeraire
         IN  /\ first \in Nat \ {0} /\ Now.numeraire \in Nat \ {0}
             /\ p.equity \in Int /\ p.discounted.external \in Int /\ p.carried \in Int
             /\ st.ledger = <<>> =>
                  /\ p.equity = InitialCash /\ p.carried = 0 /\ p.discounted.external = 0
                  /\ Now.numeraire = first
             /\ st.ledger # <<>> =>
                  /\ p.numeraire \in Nat \ {0}
                  /\ p.discounted.equity = Discounted(p.equity, p.numeraire)
                  /\ p.carried = Discounted(p.equity, p.numeraire)
                                   - Discounted(InitialCash, first) - p.discounted.external
<1> DEFINE p == PreviousRow(st)
           n == Len(history)
<1>1. /\ IsHistory(history) /\ n \in 1..n /\ n \in Nat /\ n > 0 /\ st.next = n
      /\ Now = history[n] /\ Len(st.ledger) = n - 1 /\ (st.ledger = <<>> <=> n = 1)
  BY DEF Marked, IsHistory
<1>2. \A i \in 1..n : history[i] \in Market /\ history[i].numeraire \in Nat \ {0}
  BY <1>1, MarketAssumption DEF IsHistory, Market
<1>3. AddsUp(p, CashBefore)
  BY PreviousAddsUp
<1>4. p.equity \in Int /\ p.discounted.external \in Int /\ p.carried \in Int
  BY <1>3 DEF AddsUp
<1>5. history[1].numeraire \in Nat \ {0} /\ Now.numeraire \in Nat \ {0}
  <2> HIDE DEF n
  <2>1. 1 \in 1..n /\ n \in 1..n
    BY <1>1
  <2> QED
    BY <1>1, <1>2, <2>1
<1>6. ASSUME st.ledger = <<>>
      PROVE  /\ p.equity = InitialCash /\ p.carried = 0 /\ p.discounted.external = 0
             /\ Now.numeraire = history[1].numeraire
  <2>1. p = NoRow
    BY <1>6 DEF PreviousRow
  <2>2. p.equity = InitialCash /\ p.carried = 0 /\ p.discounted.external = 0
    BY <2>1 DEF NoRow
  <2> QED
    BY <1>1, <1>6, <2>2
<1>7. ASSUME st.ledger # <<>>
      PROVE  /\ p.numeraire \in Nat \ {0}
             /\ p.discounted.equity = Discounted(p.equity, p.numeraire)
             /\ p.carried = Discounted(p.equity, p.numeraire)
                              - Discounted(InitialCash, history[1].numeraire)
                              - p.discounted.external
  <2>1. Visible.ledger # <<>> /\ p = PreviousRow(Visible)
    BY <1>7 DEF Marked
  <2>2. Balanced(p, Visible.cash)
    BY <2>1 DEF PreviousRow, Sealed
  <2>3. n - 1 \in 1..n /\ n - 1 \in 1..Len(st.ledger) /\ p = st.ledger[n - 1]
    <3> HIDE DEF n
    <3>1. n - 1 \in 1..n /\ n - 1 \in 1..Len(st.ledger)
      BY <1>1, <1>7
    <3> QED
      BY <1>1, <1>7, <3>1 DEF PreviousRow
  <2>4. KeepsRows(st, history, Len(st.ledger))
    BY DEF HistoryInv
  <2>5. RowFits(p, history, n - 1)
    BY <2>3, <2>4 DEF KeepsRows
  <2> HIDE DEF p, n
  <2>6. p.numeraire = history[n - 1].numeraire
    BY <2>5 DEF RowFits
  <2> QED
    BY <1>2, <2>2, <2>3, <2>5, <2>6 DEF RowFits, Balanced
<1> QED
  BY <1>4, <1>5, <1>6, <1>7

(* In units of the account, the row adds up as well.                       *)
LEMMA RowDiscounts ==
  ASSUME ReplayInv, HistoryInv, phase = "mark", Marked, Sealed(Visible),
         AccountsKept(st), AccountsKept(Visible)
  PROVE  /\ DiscountedAttributed(st, Now, NewRow, saved)
         /\ NewRow.carried \in Int /\ NewRow.discounted.external \in Int
         /\ NewRow.discounted.equity = Discounted(NewRow.equity, NewRow.numeraire)
<1> DEFINE p == PreviousRow(st)
           row == NewRow
           a == Now.numeraire
           first == history[1].numeraire
           b == IF st.ledger = <<>> THEN a ELSE p.numeraire
           total == AttributedTotal(st, Now, saved)
           net == SumFunction(Now.flows)
           e == row.equity
           pe == p.equity
           pnl == DiscountedPnl(st, Now, total)
           d == DiscountedRow(st, Now, first, e)
           de == Discounted(e, a)
           dpe == Discounted(pe, a)
           dpb == Discounted(pe, b)
           dnet == Discounted(net, a)
           di == Discounted(InitialCash, first)
           px == p.discounted.external
           pc == p.carried
           prior == IF st.ledger = <<>> THEN di ELSE p.discounted.equity
<1>1. total = (e - pe) - net /\ e \in Int /\ net \in Int
  BY RowAddsUp
<1>2. /\ first \in Nat \ {0} /\ a \in Nat \ {0} /\ pe \in Int /\ px \in Int /\ pc \in Int
      /\ st.ledger = <<>> => pe = InitialCash /\ pc = 0 /\ px = 0 /\ a = first
      /\ st.ledger # <<>> => /\ p.numeraire \in Nat \ {0}
                             /\ p.discounted.equity = Discounted(pe, p.numeraire)
                             /\ pc = Discounted(pe, p.numeraire) - di - px
  BY PreviousDiscounted
<1>3. InitialCash \in Int
  BY ConfigAssumption
<1>4. b \in Nat \ {0}
  BY <1>2
<1>5. /\ pnl = Discounted(total, a) + dpe - dpb
      /\ d.equity = de /\ d.external = px + dnet /\ d.daily = de - prior - dnet
      /\ d.cumulative = de - di - (px + dnet)
  BY DEF DiscountedPnl, DiscountedRow
<1>6. row.discounted = d /\ row.carried = pc + pnl /\ row.numeraire = a
  BY DEF NewRow, LedgerRow
<1>7. prior = dpb /\ pc = dpb - di - px
  <2>1. CASE st.ledger = <<>>
    <3>1. prior = di /\ dpb = di /\ pc = 0 /\ px = 0
      BY <1>2, <2>1
    <3>2. di \in Int
      <4> HIDE DEF first
      <4> QED
        BY <1>2, <1>3, DiscountedSplits
    <3> HIDE DEF di, px, pc, prior, dpb
    <3> QED
      BY <3>1, <3>2
  <2>2. CASE st.ledger # <<>>
    BY <1>2, <2>2
  <2> QED
    BY <2>1, <2>2
<1> HIDE DEF p, row, a, first, b, total, net, e, pe, pnl, d, px, pc, prior
<1>8. /\ de \in Int /\ dpe \in Int /\ dnet \in Int
      /\ Discounted((e - pe) - net, a) = de - dpe - dnet
  <2>1. e \in Int /\ pe \in Int /\ net \in Int /\ a \in Nat \ {0}
    BY <1>1, <1>2
  <2> QED
    BY <2>1, DiscountedSplits, ZenonT(30)
<1>9. dpb \in Int /\ di \in Int
  BY <1>2, <1>3, <1>4, DiscountedSplits
<1>10. Discounted(total, a) = de - dpe - dnet
  BY <1>1, <1>8
<1> HIDE DEF de, dpe, dpb, dnet, di
<1>11. pnl = de - dpb - dnet
  BY <1>5, <1>8, <1>9, <1>10
<1>12. pnl = d.daily
  BY <1>5, <1>7, <1>11
<1>13. pc + pnl = d.cumulative
  <2> DEFINE cum == d.cumulative
  <2>1. cum = de - di - (px + dnet)
    BY <1>5
  <2> HIDE DEF cum
  <2>2. pc + pnl = cum
    BY <1>2, <1>7, <1>8, <1>9, <1>11, <2>1
  <2> QED
    BY <2>2 DEF cum
<1>14. pc + pnl \in Int /\ px + dnet \in Int
  BY <1>2, <1>8, <1>9, <1>11
<1>15. DiscountedAttributed(st, Now, row, saved)
  BY <1>6, <1>12, <1>13 DEF DiscountedAttributed, pnl, total
<1>16. row.carried \in Int /\ row.discounted.external \in Int
  BY <1>5, <1>6, <1>14
<1>17. row.discounted.equity = Discounted(row.equity, row.numeraire)
  BY <1>5, <1>6 DEF de, e
<1> QED
  BY <1>15, <1>16, <1>17 DEF row

(* The row that is marked adds up in the next snapshot as well.            *)
LEMMA RowIsBalanced ==
  ASSUME ReplayInv, HistoryInv, phase = "mark", Marked, Sealed(Visible),
         AccountsKept(st), AccountsKept(Visible)
  PROVE  Balanced(NewRow, st.cash)
<1> DEFINE p == PreviousRow(st)
           row == NewRow
           part == Components(st, Now, saved)
           other == OtherComponents(st, saved)
           net == SumFunction(Now.flows)
<1>1. /\ Attributed(st, Now, row, saved) /\ net \in Int /\ row.equity \in Int
  BY RowAddsUp
<1>2. /\ DiscountedAttributed(st, Now, row, saved) /\ row.carried \in Int
      /\ row.discounted.external \in Int
      /\ row.discounted.equity = Discounted(row.equity, row.numeraire)
  BY RowDiscounts
<1>3. /\ part["targets"] \in Int /\ part["hedges"] \in Int /\ part["stock"] \in Int
      /\ other \in Int /\ row.value["targets"] \in Int /\ row.value["hedges"] \in Int
      /\ row.value["stock"] \in Int
      /\ row.equity = st.cash + row.value["targets"] + row.value["hedges"] + row.value["stock"]
  BY PartTypes
<1>4. AddsUp(p, CashBefore)
  BY PreviousAddsUp
<1>5. /\ row.cumulative = row.equity - InitialCash - p.external - net
      /\ row.external = p.external + net
      /\ row.component["targets"] = p.component["targets"] + part["targets"]
      /\ row.component["hedges"] = p.component["hedges"] + part["hedges"]
      /\ row.component["stock"] = p.component["stock"] + part["stock"]
      /\ row.other = p.other + other
  BY DEF NewRow, LedgerRow, Groups
<1>6. st.cash \in Int /\ InitialCash \in Int
  BY TableTypes, ConfigAssumption DEF Marked
<1>7. /\ p.component["targets"] \in Int /\ p.component["hedges"] \in Int
      /\ p.component["stock"] \in Int /\ p.other \in Int /\ p.external \in Int
  BY <1>4 DEF AddsUp
<1> DEFINE e == row.equity
           x == p.external
           cum == row.cumulative
           y == row.external
<1>8. cum = e - InitialCash - x - net /\ y = x + net /\ e \in Int /\ x \in Int
  BY <1>1, <1>5, <1>7
<1> HIDE DEF e, x, cum, y, net
<1>9. cum = e - InitialCash - y /\ y \in Int
  BY <1>1, <1>6, <1>8
<1>10. row.component["targets"] + row.component["hedges"] + row.component["stock"] + row.other = cum
  BY <1>1 DEF Attributed, cum
<1> HIDE DEF p, row, part, other
<1>11. /\ row.component["targets"] \in Int /\ row.component["hedges"] \in Int
       /\ row.component["stock"] \in Int /\ row.other \in Int
  BY <1>3, <1>5, <1>7
<1>12. AddsUp(row, st.cash)
  BY <1>1, <1>2, <1>3, <1>6, <1>9, <1>10, <1>11 DEF AddsUp, e, y
<1>13. row.carried = row.discounted.cumulative
  BY <1>2 DEF DiscountedAttributed
<1> QED
  BY <1>2, <1>12, <1>13 DEF Balanced, row
-----------------------------------------------------------------------------
(* Every ledger row adds up.                                               *)

(* A state with the same cash, trades and rows is as well sealed.          *)
LEMMA SameSealed ==
  ASSUME NEW r, NEW s, Sealed(s), r.ledger = s.ledger, r.cash = s.cash, r.fills = s.fills
  PROVE  Sealed(r)
  BY DEF Sealed

(* A row is sealed when it is marked.                                      *)
LEMMA MarkSeals ==
  ASSUME ReplayInv, HistoryInv, AccountsInv, Mark
  PROVE  st'.ledger # <<>> /\ Sealed(st')
<1>1. phase = "mark" /\ Marked
  <2>1. phase = "mark"
    BY DEF Mark, Step
  <2> QED
    BY <2>1, MarkedAt
<1>2. Sealed(Visible) /\ AccountsKept(st) /\ AccountsKept(Visible)
  BY DEF AccountsInv, Known, Seen
<1>3. Balanced(NewRow, st.cash)
  BY <1>1, <1>2, RowIsBalanced
<1>4. IsMarked(st', st, NewRow)
  BY MarkStep
<1>5. st.ledger \in Seq(RowsOf(st)) /\ Len(st.ledger) \in Nat
  BY <1>1, TableTypes DEF Marked
<1>6. /\ st'.ledger[Len(st'.ledger)] = NewRow /\ st'.cash = st.cash
      /\ st'.ledger # <<>>
  <2>1. /\ Len(st'.ledger) = Len(st.ledger) + 1 /\ st'.ledger[Len(st.ledger) + 1] = NewRow
        /\ st'.cash = st.cash
    BY <1>4 DEF IsMarked, SameCash
  <2>2. Len(st'.ledger) # 0
    BY <1>5, <2>1
  <2> QED
    BY <2>1, <2>2
<1> HIDE DEF NewRow
<1> QED
  BY <1>3, <1>6 DEF Sealed

(* Where the steps of a snapshot lead to.                                  *)
LEMMA SealedPhases ==
  ASSUME ProcessSnapshot
  PROVE  \/ Mark
         \/ (Decide \/ NoDecision) /\ phase = "decide"
         \/ phase' \notin {"decide", "commit"}
<1>1. CASE Validate \/ Carry \/ Capital \/ FixingDone \/ PaymentsDone
  BY <1>1 DEF Validate, Carry, Capital, FixingDone, PaymentsDone, Step
<1>2. CASE \E g \in HoldingGroups, c \in Contracts : FixHolding(g, c)
  BY <1>2 DEF FixHolding, Step
<1>3. CASE \E claim \in st.receivables : PayDueClaim(claim)
  BY <1>3 DEF PayDueClaim, Step
<1>4. CASE NoPendingOrder \/ RejectPending \/ AcceptPending
  BY <1>4 DEF NoPendingOrder, RejectPending, AcceptPending, Step
<1>5. CASE StartLiquidation \/ NoLiquidation
  BY <1>5 DEF StartLiquidation, NoLiquidation, Step
<1>6. CASE \E id \in Instruments : FillRow(id)
  BY <1>6 DEF FillRow, Step
<1>7. CASE BasketFilled
  BY <1>7 DEF BasketFilled
<1>8. CASE Decide \/ NoDecision \/ Commit
  BY <1>8 DEF Decide, NoDecision, Commit, Step
<1> QED
  BY <1>1, <1>2, <1>3, <1>4, <1>5, <1>6, <1>7, <1>8 DEF ProcessSnapshot

(* The row that a snapshot has marked still adds up when it commits.       *)
LEMMA StaysSealed ==
  ASSUME ReplayInv, HistoryInv, AccountsInv, [Next]_vars
  PROVE  phase' \in {"decide", "commit"} => st'.ledger # <<>> /\ Sealed(st')
<1>1. CASE ProcessSnapshot
  <2>1. CASE Mark
    BY <2>1, MarkSeals
  <2>2. CASE (Decide \/ NoDecision) /\ phase = "decide"
    <3>1. Quiet(st', st)
      BY <2>2, QuietStepsAre DEF QuietStep
    <3>2. st'.ledger = st.ledger
      <4>1. CASE Decide
        BY <4>1, DecideStep DEF SameButOrders, SameRun
      <4>2. CASE NoDecision
        BY <4>2 DEF NoDecision
      <4> QED
        BY <2>2, <4>1, <4>2
    <3>3. st.ledger # <<>> /\ Sealed(st)
      BY <2>2 DEF AccountsInv
    <3> QED
      BY <3>1, <3>2, <3>3, SameSealed DEF Quiet, SameCash
  <2> QED
    BY <1>1, <2>1, <2>2, SealedPhases
<1>2. CASE BeginSnapshot
  BY <1>2, BeginStep
<1>3. CASE FailSnapshot
  BY <1>3, FailStep
<1>4. CASE FinishRun
  BY <1>4, FinishStep
<1>5. CASE Restart
  <2>1. phase' = "idle"
    BY <1>5, StartStep DEF Restart
  <2> QED
    BY <2>1
<1>6. CASE UNCHANGED vars
  BY <1>6 DEF vars, AccountsInv
<1> QED
  BY <1>1, <1>2, <1>3, <1>4, <1>5, <1>6 DEF Next, Proceed

(* Every step keeps the invariant, rollbacks and resumed runs included.    *)
LEMMA AccountsStep ==
  ASSUME ReplayInv, HistoryInv, AccountsInv, [Next]_vars
  PROVE  AccountsInv'
<1>1. /\ ProcessSnapshot \/ st' \in Known
      /\ Known' \subseteq Known \union {st'}
      /\ Commit \/ Seen' \subseteq Seen
      /\ Commit => Seen' \subseteq Seen \union {st'}
  BY NewStates
<1>2. AccountsKept(st')
  <2>1. CASE st' \in Known
    BY <2>1 DEF AccountsInv
  <2>2. CASE ProcessSnapshot
    BY <2>2, StepsKeepAccounts DEF AccountsInv, Known
  <2> QED
    BY <1>1, <2>1, <2>2
<1>3. \A s \in Known' : AccountsKept(s)
  BY <1>1, <1>2 DEF AccountsInv
<1>4. \A s \in Seen' : Sealed(s)
  <2>1. CASE Commit
    <3>1. Sealed(st')
      <4>1. /\ phase = "commit" /\ st'.ledger = st.ledger /\ st'.cash = st.cash
            /\ st'.fills = st.fills
        BY <2>1, CommitStep DEF SameCash
      <4>2. Sealed(st)
        BY <4>1 DEF AccountsInv
      <4> QED
        BY <4>1, <4>2, SameSealed
    <3> QED
      BY <1>1, <2>1, <3>1 DEF AccountsInv
  <2>2. CASE ~Commit
    BY <1>1, <2>2 DEF AccountsInv
  <2> QED
    BY <2>1, <2>2
<1>5. phase' \in {"decide", "commit"} => st'.ledger # <<>> /\ Sealed(st')
  BY StaysSealed
<1>6. (\A s \in Known : AccountsKept(s))' /\ (\A s \in Seen : Sealed(s))'
  BY <1>3, <1>4 DEF AccountsKept, Sealed
<1>7. (phase \in {"decide", "commit"} => st.ledger # <<>> /\ Sealed(st))'
  BY <1>5
<1> QED
  BY <1>6, <1>7 DEF AccountsInv

(* A replay begins with it.                                                *)
LEMMA AccountsInit == Init => AccountsInv
<1> SUFFICES ASSUME Init PROVE AccountsInv
  OBVIOUS
<1>1. EntryState.ledger = <<>> /\ EntryState.fills = <<>>
  BY EntryIs DEF Unprocessed
<1>2. Sealed(EntryState)
  BY <1>1 DEF Sealed
<1>3. phase = "idle"
  BY DEF Init
<1> QED
  BY <1>2, <1>3, EntryIsKept, InitStates DEF AccountsInv

(* It holds in every state.                                                *)
LEMMA AccountsStaySound == Spec => [](ReplayInv /\ HistoryInv /\ AccountsInv)
<1>1. Init => ReplayInv /\ HistoryInv /\ AccountsInv
  BY InitStep, HistoryInit, AccountsInit
<1>2. ReplayInv /\ HistoryInv /\ AccountsInv /\ [Next]_vars => (ReplayInv /\ HistoryInv /\ AccountsInv)'
  BY ReplayStep, HistoryStep, AccountsStep
<1> QED
  BY <1>1, <1>2, PTL DEF Spec

(* The row that a snapshot is about to write splits the change of equity   *)
(* without a remainder, in money and in units of the account, today and    *)
(* since the start; and the cost-basis book has the positions held and the *)
(* spread paid.                                                            *)
RowsAddUp ==
  phase = "mark" =>
    /\ Attributed(st, Now, NewRow, saved)
    /\ DiscountedAttributed(st, Now, NewRow, saved)
    /\ BookMirrors(st) /\ SpreadAllocated(st)

(* The attribution of pnl.py and the discounted one of numeraire.py leave  *)
(* no remainder in any snapshot of any replay, and the cost book never     *)
(* drifts from the holdings, the claims and the spread attributed to the   *)
(* fills: whatever was traded, reversed, fixed, paid, rolled back and      *)
(* resumed.                                                                *)
THEOREM AccountsAddUp == Spec => []RowsAddUp
<1>1. ReplayInv /\ HistoryInv /\ AccountsInv => RowsAddUp
  <2> SUFFICES ASSUME ReplayInv, HistoryInv, AccountsInv, phase = "mark"
               PROVE  /\ Attributed(st, Now, NewRow, saved)
                      /\ DiscountedAttributed(st, Now, NewRow, saved)
                      /\ BookMirrors(st) /\ SpreadAllocated(st)
    BY DEF RowsAddUp
  <2>1. Marked
    BY MarkedAt
  <2>2. Sealed(Visible) /\ AccountsKept(st) /\ AccountsKept(Visible)
    BY DEF AccountsInv, Known, Seen
  <2>3. Attributed(st, Now, NewRow, saved)
    BY <2>1, <2>2, RowAddsUp
  <2>4. DiscountedAttributed(st, Now, NewRow, saved)
    BY <2>1, <2>2, RowDiscounts
  <2> QED
    BY <2>2, <2>3, <2>4 DEF AccountsKept
<1> QED
  BY <1>1, AccountsStaySound, PTL
-----------------------------------------------------------------------------
(* The cost book explains each group: what a trade does to the cost of a   *)
(* slot, when no average is rounded.                                       *)
LEMMA ExactQuotient ==
  ASSUME NEW a \in Int, NEW m \in Int, m > 0, a % m = 0
  PROVE  a \div m \in Int /\ (a \div m) * m = a
<1> DEFINE q == a \div m
           e == a % m
<1>1. q \in Int /\ e \in Int /\ a = m * q + e
  OBVIOUS
<1> HIDE DEF q
<1>2. a = m * q
  BY <1>1
<1>3. q * m = a
  BY <1>1, <1>2
<1> QED
  BY <1>1, <1>3 DEF q

(* A trade that opens or extends a position adds its price to the cost.    *)
LEMMA OpeningCost ==
  ASSUME NEW old \in Int, NEW average \in Int, NEW quantity \in Int, NEW price \in Int,
         quantity # 0, Opens(old, quantity),
         old + quantity # 0 =>
           WeightedPrice(old, average, quantity, price) % Magnitude(old + quantity) = 0
  PROVE  LET after == AverageAfter(old, average, quantity, price)
             gain == RealizedBy(old, average, quantity, price)
         IN  /\ after \in Int /\ gain \in Int
             /\ (old + quantity) * after = old * average + quantity * price + gain
<1> DEFINE after == AverageAfter(old, average, quantity, price)
           gain == RealizedBy(old, average, quantity, price)
           w == WeightedPrice(old, average, quantity, price)
           m == Magnitude(old + quantity)
<1>1. gain = 0 /\ old + quantity # 0
  BY DEF RealizedBy, Opens
<1>2. after = w \div m
  BY <1>1 DEF AverageAfter
<1>3. m > 0 /\ m \in Int
  BY <1>1 DEF Magnitude
<1>4. w \in Int /\ w = Magnitude(old) * average + Magnitude(quantity) * price
  BY DEF WeightedPrice, Magnitude
<1> HIDE DEF w, m, gain, after
<1>5. w % m = 0
  BY <1>1 DEF w, m
<1>6. after \in Int /\ after * m = w
  BY <1>2, <1>3, <1>4, <1>5, ExactQuotient
<1>7. CASE quantity > 0
  <2>1. Magnitude(old) = old /\ Magnitude(quantity) = quantity /\ m = old + quantity
    BY <1>7 DEF Opens, Magnitude, m
  <2>2. w = old * average + quantity * price
    BY <1>4, <2>1
  <2>3. (old + quantity) * after = w
    BY <1>6, <2>1
  <2> QED
    BY <1>1, <1>6, <2>2, <2>3 DEF after, gain
<1>8. CASE quantity < 0
  <2>1. Magnitude(old) = -old /\ Magnitude(quantity) = -quantity /\ m = -(old + quantity)
    BY <1>8 DEF Opens, Magnitude, m
  <2>2. w = -(old * average) - quantity * price
    BY <1>4, <2>1
  <2>3. (old + quantity) * after = -w
    BY <1>6, <2>1
  <2>4. old * average \in Int /\ quantity * price \in Int
    OBVIOUS
  <2> DEFINE x == old * average
             y == quantity * price
             z == (old + quantity) * after
  <2>5. z = -w /\ w = -x - y /\ x \in Int /\ y \in Int /\ gain = 0
    BY <1>1, <2>2, <2>3, <2>4
  <2> HIDE DEF x, y, z
  <2>6. z = x + y + gain /\ gain \in Int
    BY <2>5
  <2> QED
    BY <1>6, <2>6 DEF after, gain, x, y, z
<1> QED
  BY <1>7, <1>8

(* A trade that closes or reverses one realizes what the cost does not     *)
(* say.                                                                    *)
LEMMA ClosingCost ==
  ASSUME NEW old \in Int, NEW average \in Int, NEW quantity \in Int, NEW price \in Int,
         quantity # 0, ~Opens(old, quantity)
  PROVE  LET after == AverageAfter(old, average, quantity, price)
             gain == RealizedBy(old, average, quantity, price)
         IN  /\ after \in Int /\ gain \in Int
             /\ (old + quantity) * after = old * average + quantity * price + gain
<1> DEFINE after == AverageAfter(old, average, quantity, price)
           gain == RealizedBy(old, average, quantity, price)
           close == Smaller(Magnitude(old), Magnitude(quantity))
           pa == price - average
<1>1. old # 0 /\ (old > 0) # (quantity > 0)
  BY DEF Opens
<1>2. gain = SignOf(old) * close * pa
  BY DEF RealizedBy
<1>3. pa \in Int /\ SignOf(old) \in Int /\ close \in Int
  BY DEF SignOf, Smaller, Magnitude
<1>4. /\ Magnitude(quantity) < Magnitude(old) => SignOf(old) * close = -quantity
      /\ ~(Magnitude(quantity) < Magnitude(old)) => SignOf(old) * close = old
  BY <1>1 DEF SignOf, Smaller, Magnitude
<1>5. /\ Magnitude(quantity) < Magnitude(old) => after = average /\ old + quantity # 0
      /\ ~(Magnitude(quantity) < Magnitude(old)) => after = price \/ (after = 0 /\ old + quantity = 0)
  BY <1>1 DEF AverageAfter, Magnitude
<1> HIDE DEF after, gain, close
<1>6. gain \in Int /\ after \in Int
  BY <1>2, <1>3, <1>5
<1>7. CASE Magnitude(quantity) < Magnitude(old)
  <2>1. gain = -quantity * (price - average) /\ after = average
    BY <1>2, <1>4, <1>5, <1>7
  <2>2. (old + quantity) * average = old * average + quantity * price + (-quantity * (price - average))
    OBVIOUS
  <2> QED
    BY <1>6, <2>1, <2>2 DEF after, gain
<1>8. CASE ~(Magnitude(quantity) < Magnitude(old))
  <2>1. gain = old * (price - average)
    BY <1>2, <1>4, <1>8
  <2>2. (old + quantity) * after = (old + quantity) * price
    BY <1>5, <1>8
  <2>3. (old + quantity) * price = old * average + quantity * price + old * (price - average)
    OBVIOUS
  <2> QED
    BY <1>6, <2>1, <2>2, <2>3 DEF after, gain
<1> QED
  BY <1>7, <1>8

(* The sums over a group: what its positions cost, and what it is owed.    *)
GroupSlots(g) == {x \in Slots : x[1] = g}
CostsOf(book, g) == [x \in GroupSlots(g) |-> book.quantity[x] * book.average[x]]

(* There are finitely many slots.                                          *)
LEMMA SlotsFinite == IsFiniteSet(Slots)
<1>1. IsFiniteSet(HoldingGroups)
  <2>1. IsFiniteSet({"targets"})
    BY FS_Singleton
  <2>2. IsFiniteSet({"targets"} \union {"hedges"})
    BY <2>1, FS_AddElement
  <2> QED
    BY <2>2 DEF HoldingGroups
<1>2. IsFiniteSet(HoldingGroups \X Contracts)
  BY <1>1, ContractAssumption, FS_Product
<1> QED
  BY <1>2, FS_AddElement DEF Slots

(* The cost of a group is a sum over its slots.                            *)
LEMMA OpenCostIs ==
  ASSUME NEW book \in Books, NEW g
  PROVE  /\ OpenCost(book, g) = SumFunction(CostsOf(book, g)) /\ OpenCost(book, g) \in Int
         /\ CostsOf(book, g) \in [GroupSlots(g) -> Int] /\ IsFiniteSet(GroupSlots(g))
<1>1. book.quantity \in [Slots -> Int] /\ book.average \in [Slots -> Int]
  BY DEF Books, BookType
<1>2. IsFiniteSet(GroupSlots(g))
  BY SlotsFinite, FS_Subset DEF GroupSlots
<1>3. CostsOf(book, g) \in [GroupSlots(g) -> Int]
  BY <1>1 DEF CostsOf, GroupSlots
<1>4. OpenCost(book, g) = SumFunction(CostsOf(book, g))
  BY <1>1 DEF OpenCost, CostsOf, GroupSlots, SignedCost
<1> QED
  BY <1>2, <1>3, <1>4, SumType

(* The cost of a group changes by that of the one slot that changes.       *)
LEMMA OpenCostMoves ==
  ASSUME NEW book \in Books, NEW r \in Books, NEW slot \in Slots, NEW g,
         \A x \in Slots : x # slot => /\ r.quantity[x] = book.quantity[x]
                                      /\ r.average[x] = book.average[x]
  PROVE  OpenCost(r, g)
           = IF g = slot[1] THEN OpenCost(book, g) - book.quantity[slot] * book.average[slot]
                                   + r.quantity[slot] * r.average[slot]
             ELSE OpenCost(book, g)
<1> DEFINE a == CostsOf(book, g)
           b == CostsOf(r, g)
<1>1. /\ OpenCost(book, g) = SumFunction(a) /\ OpenCost(r, g) = SumFunction(b)
      /\ a \in [GroupSlots(g) -> Int] /\ b \in [GroupSlots(g) -> Int]
      /\ IsFiniteSet(GroupSlots(g))
  BY OpenCostIs
<1>2. \A x \in GroupSlots(g) : x # slot => a[x] = b[x]
  BY DEF CostsOf, GroupSlots
<1>3. CASE g = slot[1]
  <2>1. slot \in GroupSlots(g)
    BY <1>3 DEF GroupSlots
  <2>2. /\ a[slot] = book.quantity[slot] * book.average[slot]
        /\ b[slot] = r.quantity[slot] * r.average[slot]
    BY <2>1 DEF CostsOf
  <2> HIDE DEF a, b
  <2>3. SumFunction(b) = SumFunction(a) - a[slot] + b[slot]
    BY <1>1, <1>2, <2>1, SumChanges
  <2> QED
    BY <1>1, <1>3, <2>2, <2>3
<1>4. CASE g # slot[1]
  <2>1. slot \notin GroupSlots(g)
    BY <1>4 DEF GroupSlots
  <2> HIDE DEF a, b
  <2>2. a = b
    BY <1>1, <1>2, <2>1
  <2> QED
    BY <1>1, <1>4, <2>2
<1> QED
  BY <1>3, <1>4

(* What a group is owed, at face.                                          *)
FacesOf(claims, g) == SumFunction([c \in {x \in claims : x.slot[1] = g} |-> c.amount])

(* It is an integer.                                                       *)
LEMMA FacesType ==
  ASSUME NEW claims, claims \subseteq Claim, IsFiniteSet(claims), NEW g
  PROVE  FacesOf(claims, g) \in Int
<1> DEFINE D == {x \in claims : x.slot[1] = g}
           f == [c \in D |-> c.amount]
<1>1. IsFiniteSet(D) /\ D \subseteq Claim
  BY FS_Subset
<1>2. \A c \in Claim : c.amount \in Int
  BY DEF Claim
<1>3. f \in [D -> Int] /\ FacesOf(claims, g) = SumFunction(f)
  BY <1>1, <1>2 DEF FacesOf
<1> HIDE DEF D, f
<1> QED
  BY <1>1, <1>3, SumType

(* A new claim adds its amount.                                            *)
LEMMA ClaimAdded ==
  ASSUME NEW claims, claims \subseteq Claim, IsFiniteSet(claims), NEW claim \in Claim,
         claim \notin claims, NEW g
  PROVE  FacesOf(claims \union {claim}, g)
           = IF g = claim.slot[1] THEN FacesOf(claims, g) + claim.amount ELSE FacesOf(claims, g)
<1> DEFINE D == {x \in claims : x.slot[1] = g}
           E == {x \in claims \union {claim} : x.slot[1] = g}
           f == [c \in D |-> c.amount]
           h == [c \in E |-> c.amount]
<1>1. FacesOf(claims, g) = SumFunction(f) /\ FacesOf(claims \union {claim}, g) = SumFunction(h)
  BY DEF FacesOf
<1>2. CASE g # claim.slot[1]
  <2>1. E = D
    BY <1>2
  <2> QED
    BY <1>1, <1>2, <2>1
<1>3. CASE g = claim.slot[1]
  <2>1. /\ E = D \union {claim} /\ claim \notin D /\ E \subseteq Claim /\ claim \in E
        /\ E \ {claim} = D
    BY <1>3
  <2>2. IsFiniteSet(E)
    <3>1. IsFiniteSet(D)
      BY FS_Subset
    <3> QED
      BY <2>1, <3>1, FS_AddElement
  <2>3. \A c \in Claim : c.amount \in Int
    BY DEF Claim
  <2>4. h \in [E -> Int] /\ h[claim] = claim.amount
    BY <2>1, <2>3
  <2>5. [y \in E \ {claim} |-> h[y]] = f
    BY <2>1
  <2> HIDE DEF D, E, f, h
  <2>6. SumFunction(h) = h[claim] + SumFunction(f) /\ SumFunction(f) \in Int
    BY <2>1, <2>2, <2>4, <2>5, SumWithout
  <2>7. claim.amount \in Int
    BY <2>3
  <2> QED
    BY <1>1, <1>3, <2>4, <2>6, <2>7
<1> QED
  BY <1>2, <1>3

(* What a group has earned, less what its positions and claims cost.       *)
Balance(book, g) == book.realized[g] - OpenCost(book, g) - ClaimCost(book, g) - book.spread[g]

(* A balance is an integer.                                                *)
LEMMA BalanceIs ==
  ASSUME NEW book \in Books, IsFiniteSet(book.claims), NEW g \in Groups
  PROVE  /\ {book.realized[g], book.spread[g], OpenCost(book, g), ClaimCost(book, g),
             Balance(book, g)} \subseteq Int
         /\ ClaimCost(book, g) = FacesOf(book.claims, g)
<1>1. book.realized[g] \in Int /\ book.spread[g] \in Int /\ book.claims \subseteq Claim
  BY DEF Books, BookType
<1>2. ClaimCost(book, g) = FacesOf(book.claims, g)
  BY DEF ClaimCost, FacesOf
<1>3. OpenCost(book, g) \in Int /\ ClaimCost(book, g) \in Int
  BY <1>1, <1>2, OpenCostIs, FacesType
<1>4. Balance(book, g) \in Int
  BY <1>1, <1>3 DEF Balance
<1> QED
  BY <1>1, <1>2, <1>3, <1>4
-----------------------------------------------------------------------------
(* What the bookings do to the balance of a group.                         *)
IsTraded(r, book, slot, quantity, price, mid) ==
  LET old == book.quantity[slot]
      avg == book.average[slot]
  IN  /\ old \in Int /\ avg \in Int /\ slot[1] \in Groups
      /\ r.quantity[slot] = old + quantity
      /\ r.average[slot] = AverageAfter(old, avg, quantity, price)
      /\ r.claims = book.claims
      /\ \A x \in Slots : x # slot => /\ r.quantity[x] = book.quantity[x]
                                      /\ r.average[x] = book.average[x]
      /\ \A g \in Groups :
           /\ r.realized[g] = IF g = slot[1] THEN book.realized[g] + RealizedBy(old, avg, quantity, price)
                              ELSE book.realized[g]
           /\ r.spread[g] = IF g = slot[1] THEN book.spread[g] - quantity * (price - mid)
                            ELSE book.spread[g]

(* What a trade does to the book.                                          *)
LEMMA TradedBook ==
  ASSUME NEW book \in Books, NEW slot \in Slots, NEW quantity \in Int, quantity # 0,
         NEW price \in Int, NEW mid \in Int
  PROVE  IsTraded(Trade(book, slot, quantity, price, mid), book, slot, quantity, price, mid)
<1> DEFINE old == book.quantity[slot]
           avg == book.average[slot]
           after == AverageAfter(old, avg, quantity, price)
           gain == RealizedBy(old, avg, quantity, price)
           cost == quantity * (price - mid)
           q == [book.quantity EXCEPT ![slot] = old + quantity]
           a == [book.average EXCEPT ![slot] = after]
           z == [book.realized EXCEPT ![slot[1]] = @ + gain]
           p == [book.spread EXCEPT ![slot[1]] = @ - cost]
           r == Trade(book, slot, quantity, price, mid)
<1>1. /\ book.quantity \in [Slots -> Int] /\ book.average \in [Slots -> Int]
      /\ book.realized \in [Groups -> Int] /\ book.spread \in [Groups -> Int]
      /\ slot[1] \in Groups
  BY SlotGroups DEF Books, BookType
<1>2. r = [book EXCEPT !.quantity = q, !.average = a, !.realized = z, !.spread = p]
  BY DEF Trade
<1> HIDE DEF after, gain, cost
<1>3. /\ q[slot] = old + quantity /\ a[slot] = after
      /\ \A x \in Slots : x # slot => q[x] = book.quantity[x] /\ a[x] = book.average[x]
  BY <1>1
<1>4. \A g \in Groups :
        /\ z[g] = IF g = slot[1] THEN book.realized[g] + gain ELSE book.realized[g]
        /\ p[g] = IF g = slot[1] THEN book.spread[g] - cost ELSE book.spread[g]
  BY <1>1
<1>5. old \in Int /\ avg \in Int
  BY <1>1
<1> HIDE DEF q, a, z, p, old, avg, r
<1>6. /\ r.quantity = q /\ r.average = a /\ r.realized = z /\ r.spread = p
      /\ r.claims = book.claims
  BY <1>2 DEF Books, BookType
<1> QED
  BY <1>1, <1>3, <1>4, <1>5, <1>6 DEF IsTraded, after, gain, cost, old, avg, r

(* A trade whose average is exact takes its value at mid from its group.   *)
LEMMA TradeBalance ==
  ASSUME NEW book \in Books, IsFiniteSet(book.claims), NEW slot \in Slots, NEW quantity \in Int,
         NEW price \in Int, NEW mid \in Int, ExactTrade(book, slot, quantity, price),
         NEW g \in Groups
  PROVE  Balance(Trade(book, slot, quantity, price, mid), g)
           = IF g = slot[1] THEN Balance(book, g) - quantity * mid ELSE Balance(book, g)
<1> DEFINE r == Trade(book, slot, quantity, price, mid)
           old == book.quantity[slot]
           avg == book.average[slot]
           after == AverageAfter(old, avg, quantity, price)
           gain == RealizedBy(old, avg, quantity, price)
<1>1. CASE quantity = 0
  <2>1. r = book
    BY <1>1 DEF Trade
  <2>2. Balance(book, g) \in Int /\ quantity * mid = 0
    BY <1>1, BalanceIs
  <2> HIDE DEF r
  <2> QED
    BY <2>1, <2>2 DEF r
<1>2. CASE quantity # 0
  <2>1. /\ old \in Int /\ avg \in Int
        /\ r.quantity[slot] = old + quantity /\ r.average[slot] = after
        /\ r.claims = book.claims
        /\ \A x \in Slots : x # slot => /\ r.quantity[x] = book.quantity[x]
                                        /\ r.average[x] = book.average[x]
        /\ r.realized[g] = IF g = slot[1] THEN book.realized[g] + gain ELSE book.realized[g]
        /\ r.spread[g] = IF g = slot[1] THEN book.spread[g] - quantity * (price - mid) ELSE book.spread[g]
    <3>1. IsTraded(r, book, slot, quantity, price, mid)
      BY <1>2, TradedBook
    <3> HIDE DEF r
    <3> QED
      BY <3>1 DEF IsTraded
  <2>0. old \in Int /\ avg \in Int
    BY <2>1
  <2>2. /\ after \in Int /\ gain \in Int
        /\ (old + quantity) * after = old * avg + quantity * price + gain
    <3>1. CASE Opens(old, quantity)
      <4>1. old + quantity # 0 =>
              WeightedPrice(old, avg, quantity, price) % Magnitude(old + quantity) = 0
        BY <3>1 DEF ExactTrade
      <4> HIDE DEF old, avg
      <4> QED
        BY <1>2, <2>0, <3>1, <4>1, OpeningCost
    <3>2. CASE ~Opens(old, quantity)
      <4> HIDE DEF old, avg
      <4> QED
        BY <1>2, <2>0, <3>2, ClosingCost
    <3> QED
      BY <3>1, <3>2
  <2>3. r \in Books
    BY TradeType
  <2> DEFINE o == OpenCost(book, g)
             o2 == OpenCost(r, g)
             c == ClaimCost(book, g)
             c2 == ClaimCost(r, g)
             x == old * avg
             y == (old + quantity) * after
             w == quantity * price
             k == quantity * mid
             b == Balance(book, g)
             b2 == Balance(r, g)
  <2>4. o2 = IF g = slot[1] THEN o - x + y ELSE o
    <3> HIDE DEF r, after
    <3> QED
      BY <2>1, <2>3, OpenCostMoves
  <2>5. c2 = c
    BY <2>1 DEF ClaimCost
  <2>6. b = book.realized[g] - o - c - book.spread[g] /\ b2 = r.realized[g] - o2 - c2 - r.spread[g]
    BY DEF Balance
  <2>7. book.realized[g] \in Int /\ book.spread[g] \in Int /\ o \in Int /\ c \in Int /\ b \in Int
    BY BalanceIs
  <2>8. x \in Int /\ y \in Int /\ w \in Int /\ k \in Int /\ y = x + w + gain
        /\ quantity * (price - mid) = w - k
    BY <2>1, <2>2
  <2> DEFINE rg == book.realized[g]
             rs == book.spread[g]
             rg2 == r.realized[g]
             rs2 == r.spread[g]
  <2>9. /\ rg2 = IF g = slot[1] THEN rg + gain ELSE rg
        /\ rs2 = IF g = slot[1] THEN rs - (w - k) ELSE rs
    BY <2>1, <2>8
  <2> HIDE DEF o, o2, c, c2, x, y, w, k, b, b2, r, old, avg, after, gain, rg, rs, rg2, rs2
  <2>10. CASE g = slot[1]
    <3>1. b2 = (rg + gain) - (o - x + y) - c - (rs - (w - k))
      BY <2>4, <2>5, <2>6, <2>9, <2>10 DEF rg, rs, rg2, rs2
    <3>2. b = rg - o - c - rs /\ rg \in Int /\ rs \in Int
      BY <2>6, <2>7 DEF rg, rs
    <3>3. b2 = b - k
      BY <2>2, <2>7, <2>8, <3>1, <3>2
    <3> QED
      BY <2>10, <3>3 DEF b, b2, k, r
  <2>11. CASE g # slot[1]
    BY <2>4, <2>5, <2>6, <2>9, <2>11 DEF rg, rs, rg2, rs2, b, b2, r
  <2> QED
    BY <2>10, <2>11
<1> QED
  BY <1>1, <1>2

(* A fixing takes nothing: the claim at face replaces the position.        *)
LEMMA FixBalance ==
  ASSUME NEW book \in Books, IsFiniteSet(book.claims), NEW slot \in HoldingGroups \X Contracts,
         NEW amount \in Int, NEW keep \in BOOLEAN, amount # 0 => keep,
         [slot |-> slot, amount |-> amount] \notin book.claims, NEW g \in Groups
  PROVE  Balance(FixPosition(book, slot, amount, keep), g) = Balance(book, g)
<1> DEFINE claim == [slot |-> slot, amount |-> amount]
           cost == book.quantity[slot] * book.average[slot]
           q == [book.quantity EXCEPT ![slot] = 0]
           a == [book.average EXCEPT ![slot] = 0]
           z == [book.realized EXCEPT ![slot[1]] = @ + amount - cost]
           d == IF keep THEN book.claims \union {claim} ELSE book.claims
           r == FixPosition(book, slot, amount, keep)
<1>1. /\ slot \in Slots /\ slot[1] \in Groups
      /\ book.quantity \in [Slots -> Int] /\ book.average \in [Slots -> Int]
      /\ book.realized \in [Groups -> Int] /\ book.claims \subseteq Claim
  BY SlotGroups DEF Books, BookType
<1>2. r = [book EXCEPT !.quantity = q, !.average = a, !.realized = z, !.claims = d]
  BY DEF FixPosition, SignedCost
<1>3. q[slot] = 0 /\ a[slot] = 0
      /\ \A x \in Slots : x # slot => q[x] = book.quantity[x] /\ a[x] = book.average[x]
  BY <1>1
<1>4. /\ z[g] = IF g = slot[1] THEN book.realized[g] + amount - cost ELSE book.realized[g]
      /\ cost \in Int
  BY <1>1
<1>5. claim \in Claim /\ claim \notin book.claims /\ claim.slot = slot /\ claim.amount = amount
  BY DEF Claim
<1> HIDE DEF q, a, z, cost, claim, r
<1>6. /\ r.quantity = q /\ r.average = a /\ r.realized = z /\ r.spread = book.spread
      /\ r.claims = d
  BY <1>2 DEF Books, BookType
<1>7. r \in Books
  BY FixPositionType DEF r
<1>8. IsFiniteSet(d)
  BY FS_AddElement
<1> DEFINE o == OpenCost(book, g)
           o2 == OpenCost(r, g)
           c == ClaimCost(book, g)
           c2 == ClaimCost(r, g)
           b == Balance(book, g)
           b2 == Balance(r, g)
           rg == book.realized[g]
           rs == book.spread[g]
           rg2 == r.realized[g]
<1>9. o2 = IF g = slot[1] THEN o - cost + 0 ELSE o
  <2>1. r.quantity[slot] * r.average[slot] = 0
    BY <1>3, <1>6
  <2> QED
    BY <1>1, <1>3, <1>6, <1>7, <2>1, OpenCostMoves DEF cost
<1>10. c2 = FacesOf(d, g) /\ c = FacesOf(book.claims, g)
  BY <1>6, <1>7, <1>8, BalanceIs
<1>11. c2 = IF g = slot[1] THEN c + amount ELSE c
  <2>1. CASE keep
    <3>1. FacesOf(book.claims \union {claim}, g)
            = IF g = claim.slot[1] THEN FacesOf(book.claims, g) + claim.amount
              ELSE FacesOf(book.claims, g)
      BY <1>1, <1>5, ClaimAdded
    <3> QED
      BY <1>5, <1>10, <2>1, <3>1
  <2>2. CASE ~keep
    <3>1. c \in Int /\ amount = 0
      BY <2>2, BalanceIs
    <3> HIDE DEF c, c2
    <3> QED
      BY <1>10, <2>2, <3>1
  <2> QED
    BY <2>1, <2>2
<1>12. b = rg - o - c - rs /\ b2 = rg2 - o2 - c2 - rs
  BY <1>6 DEF Balance
<1>13. rg \in Int /\ rs \in Int /\ o \in Int /\ c \in Int
  BY BalanceIs
<1>14. rg2 = IF g = slot[1] THEN rg + amount - cost ELSE rg
  BY <1>4, <1>6
<1> HIDE DEF o, o2, c, c2, b, b2, rg, rs, rg2, d
<1>15. b2 = b
  <2>1. CASE g = slot[1]
    <3>1. b2 = (rg + amount - cost) - (o - cost + 0) - (c + amount) - rs
      BY <1>9, <1>11, <1>12, <1>14, <2>1
    <3> QED
      BY <1>4, <1>12, <1>13, <3>1
  <2>2. CASE g # slot[1]
    BY <1>9, <1>11, <1>12, <1>14, <2>2
  <2> QED
    BY <2>1, <2>2
<1> QED
  BY <1>15 DEF b, b2, r

(* A payment adds the claim to the balance of its group.                   *)
LEMMA PayBalance ==
  ASSUME NEW book \in Books, IsFiniteSet(book.claims), NEW claim \in book.claims, NEW g \in Groups
  PROVE  Balance(PayClaim(book, claim, claim.amount), g)
           = IF g = claim.slot[1] THEN Balance(book, g) + claim.amount ELSE Balance(book, g)
<1> DEFINE amount == claim.amount
           z == [book.realized EXCEPT ![claim.slot[1]] = @ + amount - amount]
           d == book.claims \ {claim}
           r == PayClaim(book, claim, claim.amount)
<1>1. /\ claim \in Claim /\ amount \in Int /\ book.realized \in [Groups -> Int]
      /\ book.claims \subseteq Claim
  BY DEF Books, BookType, Claim
<1>2. r = [book EXCEPT !.realized = z, !.claims = d]
  BY DEF PayClaim
<1>3. z[g] = book.realized[g]
  BY <1>1
<1> HIDE DEF z, amount, r
<1>4. /\ r.quantity = book.quantity /\ r.average = book.average /\ r.realized = z
      /\ r.spread = book.spread /\ r.claims = d
  BY <1>2 DEF Books, BookType
<1>5. r \in Books
  BY <1>1, PayClaimType DEF r
<1>6. /\ IsFiniteSet(d) /\ d \subseteq Claim /\ claim \notin d /\ d \union {claim} = book.claims
  BY <1>1, FS_Subset
<1> DEFINE o == OpenCost(book, g)
           o2 == OpenCost(r, g)
           c == ClaimCost(book, g)
           c2 == ClaimCost(r, g)
           b == Balance(book, g)
           b2 == Balance(r, g)
           rg == book.realized[g]
           rs == book.spread[g]
<1>7. o2 = o
  BY <1>4 DEF OpenCost, SignedCost
<1>8. c2 = FacesOf(d, g) /\ c = FacesOf(book.claims, g) /\ c2 \in Int
  BY <1>4, <1>5, <1>6, BalanceIs
<1>9. c = IF g = claim.slot[1] THEN c2 + amount ELSE c2
  <2>1. FacesOf(d \union {claim}, g)
          = IF g = claim.slot[1] THEN FacesOf(d, g) + claim.amount ELSE FacesOf(d, g)
    BY <1>1, <1>6, ClaimAdded
  <2> QED
    BY <1>6, <1>8, <2>1 DEF amount
<1>10. b = rg - o - c - rs /\ b2 = rg - o2 - c2 - rs
  BY <1>3, <1>4 DEF Balance
<1>11. rg \in Int /\ rs \in Int /\ o \in Int /\ c \in Int
  BY BalanceIs
<1> HIDE DEF o, o2, c, c2, b, b2, rg, rs, d
<1>12. b2 = IF g = claim.slot[1] THEN b + amount ELSE b
  BY <1>1, <1>7, <1>8, <1>9, <1>10, <1>11
<1> QED
  BY <1>12 DEF b, b2, r, amount

(* What a group was paid and what it traded: what its balance must be.     *)
Premiums(n) == Weighed(EntryPremiums, SubSeq(Portfolio, 1, n))

(* A group gets its settlements, less its trades at mid or its premiums.   *)
FlowTo(s, n) ==
  [targets |-> Posted(s, "targets_settlement") - Premiums(n),
   hedges  |-> Posted(s, "hedges_settlement") - Weighed(RestAtMid, s.fills),
   stock   |-> -Weighed(StockAtMid, s.fills)]

(* s, once n positions are entered.                                        *)
CostsExplainedAt(s, n) ==
  /\ Balance(s.book, "targets") = FlowTo(s, n)["targets"]
  /\ Balance(s.book, "hedges") = FlowTo(s, n)["hedges"]
  /\ Balance(s.book, "stock") = FlowTo(s, n)["stock"]

(* s, once all positions are entered.                                      *)
CostsExplained(s) == CostsExplainedAt(s, Len(Portfolio))

(* The kinds of cashflow that belong to a group.                           *)
Settlements == {"targets_settlement", "hedges_settlement"}

(* What leaves book, fills and settlements alone leaves them explained.    *)
LEMMA SameCosts ==
  ASSUME NEW r, NEW s, NEW n, CostsExplainedAt(s, n), r.book = s.book, r.fills = s.fills,
         \A k \in Settlements : Posted(r, k) = Posted(s, k)
  PROVE  CostsExplainedAt(r, n)
<1>1. /\ Posted(r, "targets_settlement") = Posted(s, "targets_settlement")
      /\ Posted(r, "hedges_settlement") = Posted(s, "hedges_settlement")
  BY DEF Settlements
<1>2. FlowTo(r, n) = FlowTo(s, n)
  BY <1>1 DEF FlowTo
<1> QED
  BY <1>2 DEF CostsExplainedAt

(* A weighed sum is an integer.                                            *)
LEMMA WeighedType ==
  ASSUME NEW S, NEW w \in [S -> Int], NEW rows \in Seq(S)
  PROVE  Weighed(w, rows) \in Int
<1>1. CASE rows = <<>>
  BY <1>1, WeighedOfNone
<1>2. CASE rows # <<>>
  <2>1. rows[1] \in S
    BY <1>2
  <2> QED
    BY <2>1, WeighedOfAppend
<1> QED
  BY <1>1, <1>2

(* The premiums of the first positions, one position further.              *)
LEMMA PremiumsType ==
  /\ Premiums(0) = 0 /\ Premiums(Len(Portfolio)) \in Int
  /\ \A n \in Nat : n + 1 <= Len(Portfolio) =>
       /\ Premiums(n) \in Int /\ EntryPremiums[Portfolio[n + 1]] \in Int
       /\ Premiums(n + 1) = Premiums(n) + EntryPremiums[Portfolio[n + 1]]
<1>1. EntryPremiums \in [Entry -> Int] /\ Portfolio \in Seq(Entry)
  BY CostTypes DEF EntryPremiums, Entry
<1>2. SubSeq(Portfolio, 1, 0) = <<>> /\ SubSeq(Portfolio, 1, Len(Portfolio)) = Portfolio
  BY <1>1
<1>3. Premiums(0) = 0 /\ Premiums(Len(Portfolio)) \in Int
  BY <1>1, <1>2, WeighedOfNone, WeighedType DEF Premiums
<1> QED
  BY <1>1, <1>3, WeighedNext DEF Premiums

(* A fill trades its group at mid.                                         *)
LEMMA FillExplained ==
  ASSUME NEW L, NEW s \in StateSet(L), IsFiniteSet(s.book.claims), NEW now \in Market,
         NEW id \in Instruments, NEW change \in Int, CostsExplained(s),
         ExactTrade(s.book, HedgeSlot(id), change, FillPrice(now, id, change)),
         NEW r, r = Filled(s, now, id, change)
  PROVE  CostsExplained(r)
<1> DEFINE slot == HedgeSlot(id)
           price == FillPrice(now, id, change)
           mid == now.mid[id]
           f == [at |-> s.next, kind |-> "hedge_trade", amount |-> RowCash(now, id, change)]
           fill == FillOf(s, now, id, change)
           n == Len(Portfolio)
           k == change * mid
<1>1. /\ r.book = Trade(s.book, slot, change, price, mid)
      /\ r.cashflows = Append(s.cashflows, f) /\ f \in Flow
      /\ r.fills = Append(s.fills, fill) /\ fill \in Fill
  BY FilledBook
<1>2. /\ s.book \in Books /\ slot \in Slots /\ price \in Int /\ mid \in Int
      /\ s.cashflows \in Seq(Flow) /\ s.fills \in Seq(Fill)
  BY SlotGroups, RowCashType DEF StateSet, Books
<1>3. f.kind = "hedge_trade" /\ fill.id = id /\ fill.quantity = change /\ fill.mid = mid
  BY DEF FillOf
<1>4. slot[1] = IF id = Spot THEN "stock" ELSE "hedges"
  BY DEF HedgeSlot
<1> HIDE DEF f, fill, price, mid, slot
<1>5. \A g \in Groups :
        Balance(r.book, g) = IF g = slot[1] THEN Balance(s.book, g) - change * mid ELSE Balance(s.book, g)
  <2>1. ExactTrade(s.book, slot, change, price)
    BY DEF slot, price
  <2>2. \A g \in Groups :
          Balance(Trade(s.book, slot, change, price, mid), g)
            = IF g = slot[1] THEN Balance(s.book, g) - change * mid ELSE Balance(s.book, g)
    BY <1>2, <2>1, TradeBalance, SMTT(30)
  <2> QED
    BY <1>1, <2>2
<1>6. /\ Posted(r, "targets_settlement") = Posted(s, "targets_settlement") + 0
      /\ Posted(r, "hedges_settlement") = Posted(s, "hedges_settlement") + 0
      /\ Posted(s, "targets_settlement") \in Int /\ Posted(s, "hedges_settlement") \in Int
  <2>1. Posts(r, s, f)
    BY <1>1, <1>2, PostsOfAppend
  <2>2. PartOf(f, "targets_settlement") = 0 /\ PartOf(f, "hedges_settlement") = 0
    BY <1>3 DEF PartOf
  <2> QED
    BY <2>1, <2>2 DEF Posts
<1>7. /\ Weighed(StockAtMid, r.fills) = Weighed(StockAtMid, s.fills) + (IF id = Spot THEN k ELSE 0)
      /\ Weighed(RestAtMid, r.fills) = Weighed(RestAtMid, s.fills) + (IF id = Spot THEN 0 ELSE k)
      /\ Weighed(StockAtMid, s.fills) \in Int /\ Weighed(RestAtMid, s.fills) \in Int
  <2>0. fill \in Fill /\ s.fills \in Seq(Fill)
    BY <1>1, <1>2
  <2>1. /\ StockAtMid[fill] = IF id = Spot THEN k ELSE 0
        /\ RestAtMid[fill] = IF id = Spot THEN 0 ELSE k
    BY <1>1, <1>3 DEF StockAtMid, RestAtMid
  <2>4. StockAtMid \in [Fill -> Int] /\ RestAtMid \in [Fill -> Int]
    BY FillWeights
  <2>2. /\ Weighed(StockAtMid, Append(s.fills, fill)) = Weighed(StockAtMid, s.fills) + StockAtMid[fill]
        /\ Weighed(StockAtMid, s.fills) \in Int
    BY <2>0, <2>4, WeighedOfAppend, ZenonT(30)
  <2>3. /\ Weighed(RestAtMid, Append(s.fills, fill)) = Weighed(RestAtMid, s.fills) + RestAtMid[fill]
        /\ Weighed(RestAtMid, s.fills) \in Int
    BY <2>0, <2>4, WeighedOfAppend, ZenonT(30)
  <2> HIDE DEF k
  <2> QED
    BY <1>1, <2>1, <2>2, <2>3
<1>8. k \in Int
  BY <1>2
<1>9. /\ Balance(r.book, "targets") = Balance(s.book, "targets")
      /\ Balance(r.book, "hedges") = IF id = Spot THEN Balance(s.book, "hedges") ELSE Balance(s.book, "hedges") - k
      /\ Balance(r.book, "stock") = IF id = Spot THEN Balance(s.book, "stock") - k ELSE Balance(s.book, "stock")
  BY <1>4, <1>5 DEF Groups
<1> HIDE DEF k
<1> DEFINE st0 == Posted(s, "targets_settlement")
           sh0 == Posted(s, "hedges_settlement")
           st1 == Posted(r, "targets_settlement")
           sh1 == Posted(r, "hedges_settlement")
           a0 == Weighed(StockAtMid, s.fills)
           a1 == Weighed(StockAtMid, r.fills)
           b0 == Weighed(RestAtMid, s.fills)
           b1 == Weighed(RestAtMid, r.fills)
           p == Premiums(n)
<1>10. /\ Balance(s.book, "targets") = st0 - p /\ Balance(s.book, "hedges") = sh0 - b0
       /\ Balance(s.book, "stock") = -a0
  BY DEF CostsExplained, CostsExplainedAt, FlowTo
<1>11. /\ FlowTo(r, n)["targets"] = st1 - p /\ FlowTo(r, n)["hedges"] = sh1 - b1
       /\ FlowTo(r, n)["stock"] = -a1
  BY DEF FlowTo
<1>12. st1 = st0 /\ sh1 = sh0 /\ sh0 \in Int /\ a0 \in Int /\ b0 \in Int
       /\ a1 = a0 + (IF id = Spot THEN k ELSE 0) /\ b1 = b0 + (IF id = Spot THEN 0 ELSE k)
  BY <1>6, <1>7
<1> HIDE DEF st0, sh0, st1, sh1, a0, a1, b0, b1, p, n
<1>13. Balance(r.book, "targets") = FlowTo(r, n)["targets"]
  BY <1>9, <1>10, <1>11, <1>12
<1>14. Balance(r.book, "hedges") = FlowTo(r, n)["hedges"]
  BY <1>8, <1>9, <1>10, <1>11, <1>12
<1>15. Balance(r.book, "stock") = FlowTo(r, n)["stock"]
  BY <1>8, <1>9, <1>10, <1>11, <1>12
<1> QED
  BY <1>13, <1>14, <1>15 DEF CostsExplained, CostsExplainedAt, n

(* A fixing turns the value of the option into a claim at face.            *)
LEMMA FixExplained ==
  ASSUME NEW L, NEW s \in StateSet(L), IsFiniteSet(s.book.claims),
         NEW slot \in HoldingGroups \X Contracts, NEW amount \in Int, NEW keep \in BOOLEAN,
         amount # 0 => keep, [slot |-> slot, amount |-> amount] \notin s.book.claims,
         CostsExplained(s), NEW r, r.book = FixPosition(s.book, slot, amount, keep),
         SameCash(r, s), r.fills = s.fills
  PROVE  CostsExplained(r)
<1>1. s.book \in Books
  BY DEF StateSet, Books
<1>2. \A g \in Groups : Balance(r.book, g) = Balance(s.book, g)
  BY <1>1, FixBalance
<1>3. FlowTo(r, Len(Portfolio)) = FlowTo(s, Len(Portfolio))
  BY DEF FlowTo, Posted, SameCash
<1> QED
  BY <1>2, <1>3 DEF CostsExplained, CostsExplainedAt, Groups

(* A payment pays its group the claim.                                     *)
LEMMA PayExplained ==
  ASSUME NEW L, NEW s \in StateSet(L), IsFiniteSet(s.book.claims), NEW claim \in s.book.claims,
         CostsExplained(s), NEW r, r.fills = s.fills,
         r.book = PayClaim(s.book, claim, claim.amount), NEW f \in Flow,
         r.cashflows = Append(s.cashflows, f), f.kind = PaymentKind(claim), f.amount = claim.amount
  PROVE  CostsExplained(r)
<1> DEFINE n == Len(Portfolio)
           g == claim.slot[1]
           x == claim.amount
<1>1. /\ s.book \in Books /\ claim \in Claim /\ s.cashflows \in Seq(Flow) /\ s.fills \in Seq(Fill)
  BY DEF StateSet, Books, BookType
<1>2. x \in Int /\ g \in {"targets", "hedges"}
  BY <1>1 DEF Claim, HoldingGroups
<1>3. f.kind = IF g = "targets" THEN "targets_settlement" ELSE "hedges_settlement"
  BY DEF PaymentKind
<1>4. /\ PartOf(f, "targets_settlement") = IF g = "targets" THEN x ELSE 0
      /\ PartOf(f, "hedges_settlement") = IF g = "targets" THEN 0 ELSE x
  BY <1>3 DEF PartOf
<1>5. Posts(r, s, f)
  BY <1>1, PostsOfAppend
<1>6. \A h \in Groups :
        Balance(r.book, h) = IF h = g THEN Balance(s.book, h) + x ELSE Balance(s.book, h)
  BY <1>1, PayBalance
<1> HIDE DEF g, x
<1>7. /\ Balance(r.book, "targets") = IF g = "targets" THEN Balance(s.book, "targets") + x ELSE Balance(s.book, "targets")
      /\ Balance(r.book, "hedges") = IF g = "targets" THEN Balance(s.book, "hedges") ELSE Balance(s.book, "hedges") + x
      /\ Balance(r.book, "stock") = Balance(s.book, "stock")
  BY <1>2, <1>6 DEF Groups
<1> DEFINE st0 == Posted(s, "targets_settlement")
           sh0 == Posted(s, "hedges_settlement")
           st1 == Posted(r, "targets_settlement")
           sh1 == Posted(r, "hedges_settlement")
           a == Weighed(StockAtMid, s.fills)
           b == Weighed(RestAtMid, s.fills)
           p == Premiums(n)
<1>8. /\ st0 \in Int /\ sh0 \in Int /\ st1 = st0 + (IF g = "targets" THEN x ELSE 0)
      /\ sh1 = sh0 + (IF g = "targets" THEN 0 ELSE x)
  BY <1>4, <1>5 DEF Posts
<1>9. a \in Int /\ b \in Int /\ p \in Int
  <2>1. a \in Int /\ b \in Int
    BY <1>1, FillWeights, WeighedType
  <2>2. p \in Int
    BY PremiumsType DEF n
  <2> QED
    BY <2>1, <2>2
<1>10. /\ Balance(s.book, "targets") = st0 - p /\ Balance(s.book, "hedges") = sh0 - b
       /\ Balance(s.book, "stock") = -a
  BY DEF CostsExplained, CostsExplainedAt, FlowTo
<1>11. /\ FlowTo(r, n)["targets"] = st1 - p /\ FlowTo(r, n)["hedges"] = sh1 - b
       /\ FlowTo(r, n)["stock"] = -a
  BY DEF FlowTo
<1> HIDE DEF st0, sh0, st1, sh1, a, b, p, n
<1>12. Balance(r.book, "targets") = FlowTo(r, n)["targets"]
  BY <1>2, <1>7, <1>8, <1>9, <1>10, <1>11
<1>13. Balance(r.book, "hedges") = FlowTo(r, n)["hedges"]
  BY <1>2, <1>7, <1>8, <1>9, <1>10, <1>11
<1> QED
  BY <1>7, <1>10, <1>11, <1>12, <1>13 DEF CostsExplained, CostsExplainedAt, n
-----------------------------------------------------------------------------
(* The entry positions cost their premiums.                                *)
LEMMA UntouchedExplained == CostsExplainedAt(Untouched, 0)
<1> DEFINE book == NewBook(Slots)
<1>1. book \in Books
  BY DEF NewBook, Books, BookType
<1>2. Untouched.book = book /\ Untouched.fills = <<>> /\ Untouched.cashflows = <<>>
  BY DEF Untouched
<1>3. ASSUME NEW g \in Groups PROVE Balance(book, g) = 0
  <2> DEFINE f == CostsOf(book, g)
             D == GroupSlots(g)
  <2>1. OpenCost(book, g) = SumFunction(f) /\ f \in [D -> Int] /\ IsFiniteSet(D)
    BY <1>1, OpenCostIs
  <2>2. \A x \in D : f[x] = 0
    BY DEF CostsOf, NewBook, GroupSlots
  <2>3. SumFunction(f) = 0
    <3> DEFINE h == [x \in {} |-> f[x]]
    <3> HIDE DEF f, D
    <3>1. SumFunction(h) = SumFunction(f)
      BY <2>1, <2>2, SumOfNonzero
    <3>2. h \in [{} -> Int] /\ IsFiniteSet({})
      BY FS_EmptySet
    <3> HIDE DEF h
    <3>3. SumFunction(h) = 0
      BY <3>2, SumType
    <3> QED
      BY <3>1, <3>3
  <2>4. ClaimCost(book, g) = 0
    <3> DEFINE h == [c \in {x \in book.claims : x.slot[1] = g} |-> c.amount]
    <3>1. h \in [{} -> Int] /\ IsFiniteSet({})
      BY FS_EmptySet DEF NewBook
    <3>2. ClaimCost(book, g) = SumFunction(h)
      BY DEF ClaimCost
    <3> HIDE DEF h
    <3> QED
      BY <3>1, <3>2, SumType
  <2>5. book.realized[g] = 0 /\ book.spread[g] = 0
    BY DEF NewBook
  <2> HIDE DEF f, book
  <2> QED
    BY <2>1, <2>3, <2>4, <2>5 DEF Balance
<1>4. /\ Balance(book, "targets") = 0 /\ Balance(book, "hedges") = 0 /\ Balance(book, "stock") = 0
  BY <1>3 DEF Groups
<1>5. ASSUME NEW kind PROVE Posted(Untouched, kind) = 0
  <2> DEFINE w == [f \in Flow |-> PartOf(f, kind)]
  <2>1. <<>> \in Seq(Flow)
    OBVIOUS
  <2>2. Posted(Untouched, kind) = Weighed(w, <<>>)
    BY <1>2, <2>1, PostedIsWeighed
  <2> HIDE DEF w
  <2> QED
    BY <2>2, WeighedOfNone
<1>6. /\ Premiums(0) = 0
      /\ Weighed(RestAtMid, Untouched.fills) = 0 /\ Weighed(StockAtMid, Untouched.fills) = 0
  BY <1>2, WeighedOfNone, PremiumsType
<1> HIDE DEF book
<1>7. FlowTo(Untouched, 0) = [targets |-> 0, hedges |-> 0, stock |-> 0]
  BY <1>5, <1>6 DEF FlowTo
<1> QED
  BY <1>2, <1>4, <1>7 DEF CostsExplainedAt

(* An entry position costs its premium.                                    *)
LEMMA EnteredExplained ==
  ASSUME NEW s, Unprocessed(s), IsFiniteSet(s.book.claims), NEW n \in Nat,
         n + 1 <= Len(Portfolio), CostsExplainedAt(s, n),
         ExactTrade(s.book, <<"targets", Portfolio[n + 1].contract>>,
                    Portfolio[n + 1].quantity, Portfolio[n + 1].price)
  PROVE  CostsExplainedAt(Entered(s, Portfolio[n + 1]), n + 1)
<1> DEFINE p == Portfolio[n + 1]
           slot == <<"targets", p.contract>>
           r == Entered(s, p)
           k == p.quantity * p.price
           f == [at |-> 1, kind |-> "target_entry", amount |-> -p.quantity * p.price - p.fee]
<1>1. p \in Entry
  BY CostTypes
<1>2. /\ p.contract \in Contracts /\ p.quantity \in Int /\ p.price \in Int
      /\ EntryPremiums[p] = k
  BY <1>1 DEF Entry, EntryPremiums
<1>3. /\ r.book = Trade(s.book, slot, p.quantity, p.price, p.price)
      /\ r.cashflows = Append(s.cashflows, f) /\ f \in Flow /\ r.fills = s.fills
  BY <1>1, EnteredBook
<1>4. f.kind = "target_entry" /\ slot[1] = "targets"
  OBVIOUS
<1>5. s.book \in Books /\ s.cashflows \in Seq(Flow) /\ slot \in Slots
  BY <1>2 DEF Unprocessed, StateSet, Books, Slots, HoldingGroups
<1>6. Premiums(n + 1) = Premiums(n) + k /\ Premiums(n) \in Int /\ k \in Int
  BY <1>2, PremiumsType
<1>7. ExactTrade(s.book, slot, p.quantity, p.price)
  OBVIOUS
<1> HIDE DEF p, r, f, k, slot
<1>8. \A g \in Groups :
        Balance(r.book, g) = IF g = slot[1] THEN Balance(s.book, g) - p.quantity * p.price ELSE Balance(s.book, g)
  BY <1>2, <1>3, <1>5, <1>7, TradeBalance
<1>9. /\ Balance(r.book, "targets") = Balance(s.book, "targets") - k
      /\ Balance(r.book, "hedges") = Balance(s.book, "hedges")
      /\ Balance(r.book, "stock") = Balance(s.book, "stock")
  BY <1>4, <1>8 DEF Groups, k
<1>10. /\ Posted(r, "targets_settlement") = Posted(s, "targets_settlement") + 0
       /\ Posted(r, "hedges_settlement") = Posted(s, "hedges_settlement") + 0
       /\ Posted(s, "targets_settlement") \in Int /\ Posted(s, "hedges_settlement") \in Int
  <2>1. Posts(r, s, f)
    BY <1>3, <1>5, PostsOfAppend
  <2>2. PartOf(f, "targets_settlement") = 0 /\ PartOf(f, "hedges_settlement") = 0
    BY <1>4 DEF PartOf
  <2> QED
    BY <2>1, <2>2 DEF Posts
<1> DEFINE a0 == Posted(s, "targets_settlement")
           a1 == Posted(r, "targets_settlement")
           q0 == Premiums(n)
           q1 == Premiums(n + 1)
<1>11. /\ Balance(s.book, "targets") = a0 - q0
       /\ FlowTo(r, n + 1)["targets"] = a1 - q1
  BY DEF CostsExplainedAt, FlowTo
<1>12. a1 = a0 /\ a0 \in Int /\ q0 \in Int /\ q1 = q0 + k
  BY <1>6, <1>10
<1> HIDE DEF a0, a1, q0, q1
<1>13. Balance(r.book, "targets") = FlowTo(r, n + 1)["targets"]
  BY <1>6, <1>9, <1>11, <1>12
<1>14. /\ FlowTo(r, n + 1)["hedges"] = FlowTo(s, n)["hedges"]
       /\ FlowTo(r, n + 1)["stock"] = FlowTo(s, n)["stock"]
  BY <1>3, <1>10 DEF FlowTo
<1>15. CostsExplainedAt(r, n + 1)
  BY <1>9, <1>13, <1>14 DEF CostsExplainedAt
<1> QED
  BY <1>15 DEF r, p

(* A run begins with its costs explained.                                  *)
LEMMA EntryExplained == EntriesExact => CostsExplained(EntryState)
<1> SUFFICES ASSUME EntriesExact PROVE CostsExplained(EntryState)
  OBVIOUS
<1> DEFINE N == Len(Portfolio)
<1>1. /\ Entries[0] = Untouched /\ EntryState = Entries[N]
      /\ \A n \in 0..N : Unprocessed(Entries[n])
      /\ \A n \in 1..N : Entries[n] = Entered(Entries[n - 1], Portfolio[n])
  BY EntryUnfolds
<1>2. N \in Nat
  BY CostTypes
<1> DEFINE T == {n \in Nat : n <= N => /\ CostsExplainedAt(Entries[n], n)
                                       /\ IsFiniteSet(Entries[n].book.claims)}
<1>3. 0 \in T
  <2>1. Untouched.book.claims = {}
    BY DEF Untouched, NewBook
  <2> QED
    BY <1>1, <2>1, UntouchedExplained, FS_EmptySet
<1>4. ASSUME NEW n \in Nat, n \in T PROVE n + 1 \in T
  <2>1. SUFFICES ASSUME n + 1 <= N
                 PROVE  /\ CostsExplainedAt(Entries[n + 1], n + 1)
                        /\ IsFiniteSet(Entries[n + 1].book.claims)
    OBVIOUS
  <2>2. /\ n + 1 \in 1..N /\ n \in 0..N /\ (n + 1) - 1 = n /\ CostsExplainedAt(Entries[n], n)
        /\ IsFiniteSet(Entries[n].book.claims)
    BY <1>2, <1>4, <2>1
  <2> DEFINE s == Entries[n]
             p == Portfolio[n + 1]
             slot == <<"targets", p.contract>>
  <2>3. Unprocessed(s) /\ Entries[n + 1] = Entered(s, p)
    BY <1>1, <2>2
  <2>4. ExactTrade(s.book, slot, p.quantity, p.price)
    BY <2>2 DEF EntriesExact
  <2>5. p \in Entry
    BY <2>2, CostTypes
  <2>6. CostsExplainedAt(Entered(s, p), n + 1)
    BY <2>1, <2>2, <2>3, <2>4, EnteredExplained
  <2>7. Entered(s, p).book.claims = s.book.claims
    <3>1. Entered(s, p).book = Trade(s.book, slot, p.quantity, p.price, p.price)
      BY <2>3, <2>5, EnteredBook, ZenonT(40)
    <3>2. s.book \in Books /\ slot \in Slots /\ p.quantity \in Int
      BY <2>3, <2>5 DEF Unprocessed, StateSet, Books, Slots, HoldingGroups, Entry
    <3> HIDE DEF s, p, slot
    <3> QED
      BY <3>1, <3>2, TradeMoves
  <2> HIDE DEF s, p
  <2> QED
    BY <2>2, <2>3, <2>6, <2>7 DEF s
<1> HIDE DEF T
<1>5. N \in T
  BY <1>2, <1>3, <1>4, Induction
<1> QED
  BY <1>1, <1>2, <1>5 DEF T, CostsExplained
-----------------------------------------------------------------------------
(* Every step of a snapshot keeps the costs explained.                     *)
LEMMA CarryExplains ==
  ASSUME ReplayInv, Carry, CostsExplained(st)
  PROVE  CostsExplained(st')
<1>1. OnlyBooked(st', st)
  BY CarryStep
<1>2. CASE st' = st
  BY <1>2
<1>3. ASSUME NEW previous \in Market, NEW now \in Market, NEW days \in Int,
             st' = Carried(st, previous, now, days), st \in StateSet(RowsOf(st))
      PROVE  CostsExplained(st')
  <2>1. Elsewhere(st', st, CarryKinds)
    BY <1>3, CarriedElsewhere
  <2>2. Settlements \subseteq FlowKinds \ CarryKinds
    BY DEF Settlements, CarryKinds, FlowKinds
  <2> QED
    BY <1>1, <2>1, <2>2, SameCosts DEF OnlyBooked, CostsExplained, Elsewhere
<1> QED
  BY <1>2, <1>3, CarryIs

(* Capital belongs to no group.                                            *)
LEMMA CapitalExplains ==
  ASSUME ReplayInv, Capital, CostsExplained(st)
  PROVE  CostsExplained(st')
<1> DEFINE flows == Now.flows
<1>1. OnlyBooked(st', st)
  BY CapitalStep
<1>2. InSnapshot(Visible, "capital", st, basket, history) /\ st' = CapitalBooked(st, flows)
  BY DEF Capital, Step, ReplayInv
<1>3. st \in StateSet(RowsOf(st))
  BY KnownAreStates DEF Known, IsState
<1>4. Now \in Market /\ Now \in SnapshotsAt[st.next] /\ st.next \in 1..Horizon
  BY <1>2, TodaysMarket DEF Now
<1>5. IsFiniteSet(DOMAIN flows) /\ flows \in [DOMAIN flows -> Int] /\ DOMAIN flows \subseteq FlowIds
  BY <1>4, MarketSums DEF FlowIds
<1> HIDE DEF flows
<1>6. Elsewhere(st', st, {"external_capital"})
  BY <1>2, <1>3, <1>5, CapitalPosts
<1>7. Settlements \subseteq FlowKinds \ {"external_capital"}
  BY DEF Settlements, FlowKinds
<1> QED
  BY <1>1, <1>6, <1>7, SameCosts DEF OnlyBooked, CostsExplained, Elsewhere

(* A fixed position has no claim yet: it has not been fixed before.        *)
LEMMA FixExplains ==
  ASSUME ReplayInv, Orderly(st), NEW g \in HoldingGroups, NEW c \in Contracts, FixHolding(g, c),
         AccountsKept(st), CostsExplained(st)
  PROVE  CostsExplained(st')
<1> DEFINE slot == <<g, c>>
<1>1. st \in StateSet(RowsOf(st)) /\ Held(st, slot) # 0 /\ slot \in HoldingGroups \X Contracts
  BY FixIs
<1>2. PICK amount \in Int, keep \in BOOLEAN :
        (amount # 0 => keep) /\ st' = Fixed(st, slot, amount, keep)
  BY FixIs
<1> HIDE DEF slot
<1> DEFINE claim == [slot |-> slot, amount |-> amount]
           r == Fixed(st, slot, amount, keep)
<1>3. claim \notin st.book.claims
  <2> SUFFICES ASSUME claim \in st.receivables PROVE FALSE
    BY DEF AccountsKept, BookMirrors
  <2>1. PICK i \in 1..Len(st.settlements) : st.settlements[i].slot = claim.slot
    BY DEF Orderly, Backed
  <2>2. Held(st, st.settlements[i].slot) = 0 /\ claim.slot = slot
    BY DEF Orderly
  <2> HIDE DEF claim
  <2> QED
    BY <1>1, <2>1, <2>2
<1> HIDE DEF claim
<1>4. IsFixed(r, st, slot, amount, keep) /\ r.book = FixPosition(st.book, slot, amount, keep)
  BY <1>1, FixedIs, FixedBook
<1>5. st' = r
  BY <1>2
<1> HIDE DEF r
<1>6. IsFiniteSet(st.book.claims)
  BY DEF AccountsKept, BookMirrors
<1>7. SameCash(r, st) /\ r.fills = st.fills
  BY <1>4 DEF IsFixed
<1>8. CostsExplained(r)
  BY <1>1, <1>2, <1>3, <1>4, <1>6, <1>7, FixExplained DEF claim
<1> QED
  BY <1>5, <1>8

(* A payment moves the balance and the settlements alike.                  *)
LEMMA PayExplains ==
  ASSUME ReplayInv, NEW claim \in st.receivables, PayDueClaim(claim), AccountsKept(st),
         CostsExplained(st)
  PROVE  CostsExplained(st')
<1> DEFINE f == [at |-> st.next, kind |-> PaymentKind(claim), amount |-> claim.amount]
<1>1. IsPaid(st', st, claim) /\ st' = Paid(st, claim)
  BY PayStep DEF PayDueClaim
<1>2. IsState(st) /\ st \in StateSet(RowsOf(st)) /\ claim \in Claim
  BY KnownAreStates DEF Known, IsState, StateSet
<1>3. /\ st'.book = PayClaim(st.book, claim, claim.amount)
      /\ st'.cashflows = Append(st.cashflows, f) /\ f \in Flow
  BY <1>1, <1>2, PaidBook
<1>4. f.kind = PaymentKind(claim) /\ f.amount = claim.amount
  OBVIOUS
<1>5. st'.fills = st.fills /\ claim \in st.book.claims /\ IsFiniteSet(st.book.claims)
  BY <1>1 DEF IsPaid, AccountsKept, BookMirrors
<1> HIDE DEF f
<1> QED
  BY <1>2, <1>3, <1>4, <1>5, PayExplained

(* A fill moves the balance and what was traded at mid alike.              *)
LEMMA FillExplains ==
  ASSUME ReplayInv, NEW id \in Instruments, FillRow(id), AccountsKept(st), AveragesExact,
         CostsExplained(st)
  PROVE  CostsExplained(st')
<1> DEFINE change == ChangeOf(st, basket.want, id)
<1>1. /\ st' = Filled(st, Now, id, change) /\ Now \in Market /\ change \in Int
      /\ st \in StateSet(RowsOf(st)) /\ phase = "fill" /\ id \in basket.rows
  BY FillIs
<1>2. ExactTrade(st.book, HedgeSlot(id), change, FillPrice(Now, id, change))
  BY <1>1 DEF AveragesExact
<1>3. IsFiniteSet(st.book.claims)
  BY DEF AccountsKept, BookMirrors
<1> HIDE DEF change
<1> DEFINE r == Filled(st, Now, id, change)
<1>4. CostsExplained(r)
  BY <1>1, <1>2, <1>3, FillExplained
<1> QED
  BY <1>1, <1>4

(* The other steps book nothing.                                           *)
LEMMA QuietExplains ==
  ASSUME ReplayInv, QuietStep, CostsExplained(st)
  PROVE  CostsExplained(st')
<1>1. Quiet(st', st) /\ st'.book = st.book
  BY QuietStepsAre, QuietBooks
<1>2. \A k \in Settlements : Posted(st', k) = Posted(st, k)
  BY <1>1 DEF Quiet, SameCash, Posted
<1> QED
  BY <1>1, <1>2, SameCosts DEF Quiet, CostsExplained

(* So every step keeps the costs explained.                                *)
LEMMA StepsExplainCosts ==
  ASSUME ReplayInv, ProcessSnapshot, Orderly(st), AccountsKept(st), AveragesExact,
         CostsExplained(st)
  PROVE  CostsExplained(st')
  BY StepKinds, CarryExplains, CapitalExplains, FixExplains, PayExplains, FillExplains,
     QuietExplains
-----------------------------------------------------------------------------
(* The components of a row, since the start.                               *)

(* The premiums are attributed to the first snapshot.                      *)
LEMMA EntryPremiumIs ==
  ASSUME NEW s
  PROVE  EntryPremium(s) = IF s.next # 1 THEN 0 ELSE -Premiums(Len(Portfolio))
<1>1. SubSeq(Portfolio, 1, Len(Portfolio)) = Portfolio
  BY CostTypes, FirstElements
<1> QED
  BY <1>1, PremiumPaid DEF EntryPremium, Premiums

(* The components of a row, since the start: the value of the group and    *)
(* what it was paid, less what it traded.                                  *)
RowExplained(row, s) ==
  LET flows == FlowTo(s, Len(Portfolio))
  IN  /\ row.component["targets"] = row.value["targets"] + flows["targets"]
      /\ row.component["hedges"] = row.value["hedges"] + flows["hedges"]
      /\ row.component["stock"] = row.value["stock"] + flows["stock"]

(* The last row of a state explains its components.                        *)
RowFlows(s) == s.ledger # <<>> => RowExplained(PreviousRow(s), s)

(* Flows are integers.                                                     *)
LEMMA FlowTypes ==
  ASSUME NEW s, IsState(s)
  PROVE  LET flows == FlowTo(s, Len(Portfolio))
         IN  flows["targets"] \in Int /\ flows["hedges"] \in Int /\ flows["stock"] \in Int
<1>1. s.cashflows \in Seq(Flow) /\ s.fills \in Seq(Fill)
  BY TableTypes
<1>2. Posted(s, "targets_settlement") \in Int /\ Posted(s, "hedges_settlement") \in Int
  BY <1>1, PostedType
<1>3. Weighed(RestAtMid, s.fills) \in Int /\ Weighed(StockAtMid, s.fills) \in Int
  BY <1>1, FillWeights, WeighedType
<1>4. Premiums(Len(Portfolio)) \in Int
  BY PremiumsType
<1> QED
  BY <1>2, <1>3, <1>4 DEF FlowTo

(* What the flows of a group moved by in the snapshot.                     *)
FlowBefore(g) == IF st.next = 1 THEN 0 ELSE FlowTo(Visible, Len(Portfolio))[g]

(* They moved by what the attribution of the snapshot sums.                *)
LEMMA FlowsMove ==
  ASSUME Marked, Sealed(Visible)
  PROVE  LET flows == FlowTo(st, Len(Portfolio))
             fills == NewFills(st, saved)
         IN  /\ flows["targets"] = FlowBefore("targets")
                                     + Since("targets_settlement") + EntryPremium(st)
             /\ flows["hedges"] = FlowBefore("hedges")
                                    + Since("hedges_settlement") + TradedAtMid(fills, FALSE)
             /\ flows["stock"] = FlowBefore("stock") + TradedAtMid(fills, TRUE)
<1> DEFINE flows == FlowTo(st, Len(Portfolio))
           before == FlowTo(Visible, Len(Portfolio))
           fills == NewFills(st, saved)
           first == st.next = 1
           p == Premiums(Len(Portfolio))
           t1 == Posted(st, "targets_settlement")
           t0 == Posted(Visible, "targets_settlement")
           t == Since("targets_settlement")
           h1 == Posted(st, "hedges_settlement")
           h0 == Posted(Visible, "hedges_settlement")
           h == Since("hedges_settlement")
           a1 == Weighed(StockAtMid, st.fills)
           a0 == Weighed(StockAtMid, Visible.fills)
           a == Weighed(StockAtMid, fills)
           b1 == Weighed(RestAtMid, st.fills)
           b0 == Weighed(RestAtMid, Visible.fills)
           b == Weighed(RestAtMid, fills)
           stock == TradedAtMid(fills, TRUE)
           rest == TradedAtMid(fills, FALSE)
<1>1. /\ t \in Int /\ t1 \in Int /\ t0 \in Int /\ t = t1 - (IF first THEN 0 ELSE t0)
      /\ h \in Int /\ h1 \in Int /\ h0 \in Int /\ h = h1 - (IF first THEN 0 ELSE h0)
  BY SinceIs
<1>2. a \in Int /\ a1 \in Int /\ a = a1 - (IF first THEN 0 ELSE a0) /\ fills \in Seq(Fill)
  BY FillWeights, WeighedSince
<1>3. b \in Int /\ b1 \in Int /\ b = b1 - (IF first THEN 0 ELSE b0)
  BY FillWeights, WeighedSince
<1>4. a0 \in Int /\ b0 \in Int
  <2>1. Visible.fills \in Seq(Fill)
    BY TableTypes DEF Marked
  <2> QED
    BY <2>1, FillWeights, WeighedType
<1>5. stock = -a /\ rest = -b
  BY <1>2, FillsWeighed
<1>6. p \in Int /\ EntryPremium(st) = IF first THEN -p ELSE 0
  BY PremiumsType, EntryPremiumIs
<1>7. /\ flows["targets"] = t1 - p /\ flows["hedges"] = h1 - b1 /\ flows["stock"] = -a1
      /\ before["targets"] = t0 - p /\ before["hedges"] = h0 - b0 /\ before["stock"] = -a0
  BY DEF FlowTo
<1>8. /\ FlowBefore("targets") = IF first THEN 0 ELSE before["targets"]
      /\ FlowBefore("hedges") = IF first THEN 0 ELSE before["hedges"]
      /\ FlowBefore("stock") = IF first THEN 0 ELSE before["stock"]
  BY DEF FlowBefore
<1> HIDE DEF flows, before, fills, first, p, t1, t0, t, h1, h0, h, a1, a0, a, b1, b0, b,
             stock, rest
<1>9. flows["targets"] = FlowBefore("targets") + t + EntryPremium(st)
  BY <1>1, <1>6, <1>7, <1>8
<1>10. flows["hedges"] = FlowBefore("hedges") + h + rest
  BY <1>1, <1>3, <1>4, <1>5, <1>7, <1>8
<1>11. flows["stock"] = FlowBefore("stock") + stock
  BY <1>2, <1>4, <1>5, <1>7, <1>8
<1> QED
  BY <1>9, <1>10, <1>11 DEF flows, fills, t, h, stock, rest

(* The row of this snapshot is explained if the one before it is.          *)
LEMMA RowIsExplained ==
  ASSUME Marked, Sealed(Visible), AccountsKept(st), AccountsKept(Visible), RowFlows(Visible)
  PROVE  RowExplained(NewRow, st)
<1> DEFINE p == PreviousRow(st)
           row == NewRow
           part == Components(st, Now, saved)
           fills == NewFills(st, saved)
           flows == FlowTo(st, Len(Portfolio))
           vT == row.value["targets"]
           vH == row.value["hedges"]
           vS == row.value["stock"]
           pT == p.value["targets"]
           pH == p.value["hedges"]
           pS == p.value["stock"]
           cT == p.component["targets"]
           cH == p.component["hedges"]
           cS == p.component["stock"]
           bT == FlowBefore("targets")
           bH == FlowBefore("hedges")
           bS == FlowBefore("stock")
           t == Since("targets_settlement")
           h == Since("hedges_settlement")
           prem == EntryPremium(st)
           rest == TradedAtMid(fills, FALSE)
           stock == TradedAtMid(fills, TRUE)
<1>1. vT \in Int /\ vH \in Int /\ vS \in Int
  BY PartTypes
<1>2. /\ pT \in Int /\ pH \in Int /\ pS \in Int /\ cT \in Int /\ cH \in Int /\ cS \in Int
  BY PreviousAddsUp DEF AddsUp
<1>3. /\ row.component["targets"] = cT + (vT - pT + t + prem)
      /\ row.component["hedges"] = cH + (vH - pH + h + rest)
      /\ row.component["stock"] = cS + (vS - pS + stock)
  BY DEF NewRow, LedgerRow, Components, Groups, Since
<1>4. /\ flows["targets"] = bT + t + prem /\ flows["hedges"] = bH + h + rest
      /\ flows["stock"] = bS + stock
  BY FlowsMove
<1>5. t \in Int /\ h \in Int /\ prem \in Int
  BY SinceIs, EntryCostSplits
<1>6. rest \in Int /\ stock \in Int
  <2>1. fills \in Seq(Fill)
    BY CostTypes, WeighedSince
  <2> HIDE DEF fills
  <2> QED
    BY <2>1, CostSplits
<1>7. /\ cT = pT + bT /\ cH = pH + bH /\ cS = pS + bS
      /\ bT \in Int /\ bH \in Int /\ bS \in Int
  <2>1. CASE st.ledger = <<>>
    <3>1. p = NoRow /\ st.next = 1
      BY <2>1 DEF PreviousRow, Marked
    <3>2. /\ NoRow.value["targets"] = 0 /\ NoRow.value["hedges"] = 0 /\ NoRow.value["stock"] = 0
          /\ NoRow.component["targets"] = 0 /\ NoRow.component["hedges"] = 0
          /\ NoRow.component["stock"] = 0
      BY DEF NoRow, Groups
    <3>3. bT = 0 /\ bH = 0 /\ bS = 0
      BY <3>1 DEF FlowBefore
    <3> HIDE DEF bT, bH, bS
    <3> QED
      BY <3>1, <3>2, <3>3
  <2>2. CASE st.ledger # <<>>
    <3>1. p = PreviousRow(Visible) /\ Visible.ledger # <<>> /\ st.next # 1 /\ IsState(Visible)
      BY <2>2 DEF Marked
    <3>2. RowExplained(p, Visible)
      BY <3>1 DEF RowFlows
    <3> DEFINE old == FlowTo(Visible, Len(Portfolio))
    <3>3. bT = old["targets"] /\ bH = old["hedges"] /\ bS = old["stock"]
      BY <3>1 DEF FlowBefore
    <3>4. old["targets"] \in Int /\ old["hedges"] \in Int /\ old["stock"] \in Int
      BY <3>1, FlowTypes
    <3>5. cT = pT + old["targets"] /\ cH = pH + old["hedges"] /\ cS = pS + old["stock"]
      BY <3>2 DEF RowExplained
    <3> HIDE DEF old, bT, bH, bS, cT, cH, cS, pT, pH, pS
    <3> QED
      BY <3>3, <3>4, <3>5
  <2> QED
    BY <2>1, <2>2
<1> DEFINE rT == row.component["targets"]
           rH == row.component["hedges"]
           rS == row.component["stock"]
           fT == flows["targets"]
           fH == flows["hedges"]
           fS == flows["stock"]
<1>8. /\ rT = cT + (vT - pT + t + prem) /\ rH = cH + (vH - pH + h + rest)
      /\ rS = cS + (vS - pS + stock)
      /\ fT = bT + t + prem /\ fH = bH + h + rest /\ fS = bS + stock
  BY <1>3, <1>4
<1> HIDE DEF rT, rH, rS, fT, fH, fS, vT, vH, vS, pT, pH, pS, cT, cH, cS, bT, bH, bS, t, h,
             prem, rest, stock
<1>9. rT = vT + fT
  BY <1>1, <1>2, <1>5, <1>7, <1>8
<1>10. rH = vH + fH
  BY <1>1, <1>2, <1>5, <1>6, <1>7, <1>8
<1>11. rS = vS + fS
  BY <1>1, <1>2, <1>6, <1>7, <1>8
<1> QED
  BY <1>9, <1>10, <1>11
  DEF RowExplained, rT, rH, rS, vT, vH, vS, fT, fH, fS, row, flows
-----------------------------------------------------------------------------
(* The accounts reconcile.                                                 *)

(* The inductive invariant: costs are explained in every state that the    *)
(* replay may go on from or return to, and so are the components of the    *)
(* last row of each that is committed or has just been marked.             *)
CostInv ==
  /\ \A s \in Known : CostsExplained(s)
  /\ \A s \in Seen : RowFlows(s)
  /\ phase \in {"decide", "commit"} => RowFlows(st)

(* Flows are read off cash tables and fills.                               *)
LEMMA SameFlows ==
  ASSUME NEW r, NEW s, SameCash(r, s), r.fills = s.fills
  PROVE  FlowTo(r, Len(Portfolio)) = FlowTo(s, Len(Portfolio))
  BY DEF FlowTo, SameCash, Posted

(* A row stays explained while tables and fills stay.                      *)
LEMMA SameRowFlows ==
  ASSUME NEW r, NEW s, RowFlows(s), r.ledger = s.ledger, SameCash(r, s), r.fills = s.fills
  PROVE  RowFlows(r)
<1>1. FlowTo(r, Len(Portfolio)) = FlowTo(s, Len(Portfolio))
  BY SameFlows
<1> QED
  BY <1>1 DEF RowFlows, RowExplained, PreviousRow

(* A row explains its components when it is marked.                        *)
LEMMA MarkExplains ==
  ASSUME ReplayInv, AccountsInv, CostInv, Mark
  PROVE  RowFlows(st')
<1>1. phase = "mark" /\ Marked
  <2>1. phase = "mark"
    BY DEF Mark, Step
  <2> QED
    BY <2>1, MarkedAt
<1>2. Sealed(Visible) /\ AccountsKept(st) /\ AccountsKept(Visible) /\ RowFlows(Visible)
  BY DEF AccountsInv, CostInv, Known, Seen
<1>3. RowExplained(NewRow, st)
  BY <1>1, <1>2, RowIsExplained
<1>4. IsMarked(st', st, NewRow)
  BY MarkStep
<1>5. st.ledger \in Seq(RowsOf(st)) /\ Len(st.ledger) \in Nat
  BY <1>1, TableTypes DEF Marked
<1>6. /\ st'.ledger[Len(st'.ledger)] = NewRow /\ SameCash(st', st) /\ st'.fills = st.fills
      /\ st'.ledger # <<>>
  <2>1. /\ Len(st'.ledger) = Len(st.ledger) + 1 /\ st'.ledger[Len(st.ledger) + 1] = NewRow
        /\ SameCash(st', st) /\ st'.fills = st.fills
    BY <1>4 DEF IsMarked
  <2>2. Len(st'.ledger) # 0
    BY <1>5, <2>1
  <2> QED
    BY <2>1, <2>2
<1>7. FlowTo(st', Len(Portfolio)) = FlowTo(st, Len(Portfolio))
  BY <1>6, SameFlows
<1> HIDE DEF NewRow
<1> QED
  BY <1>3, <1>6, <1>7 DEF RowFlows, RowExplained, PreviousRow

(* The row that a snapshot has marked is still explained at its commit.    *)
LEMMA StaysExplained ==
  ASSUME ReplayInv, AccountsInv, CostInv, [Next]_vars
  PROVE  phase' \in {"decide", "commit"} => RowFlows(st')
<1>1. CASE ProcessSnapshot
  <2>1. CASE Mark
    BY <2>1, MarkExplains
  <2>2. CASE (Decide \/ NoDecision) /\ phase = "decide"
    <3>1. Quiet(st', st)
      BY <2>2, QuietStepsAre DEF QuietStep
    <3>2. st'.ledger = st.ledger
      <4>1. CASE Decide
        BY <4>1, DecideStep DEF SameButOrders, SameRun
      <4>2. CASE NoDecision
        BY <4>2 DEF NoDecision
      <4> QED
        BY <2>2, <4>1, <4>2
    <3>3. RowFlows(st)
      BY <2>2 DEF CostInv
    <3> QED
      BY <3>1, <3>2, <3>3, SameRowFlows DEF Quiet
  <2> QED
    BY <1>1, <2>1, <2>2, SealedPhases
<1>2. CASE BeginSnapshot
  BY <1>2, BeginStep
<1>3. CASE FailSnapshot
  BY <1>3, FailStep
<1>4. CASE FinishRun
  BY <1>4, FinishStep
<1>5. CASE Restart
  <2>1. phase' = "idle"
    BY <1>5, StartStep DEF Restart
  <2> QED
    BY <2>1
<1>6. CASE UNCHANGED vars
  BY <1>6 DEF vars, CostInv
<1> QED
  BY <1>1, <1>2, <1>3, <1>4, <1>5, <1>6 DEF Next, Proceed

(* Every step whose averages are exact keeps the invariant.                *)
LEMMA CostStep ==
  ASSUME ReplayInv, ClaimsInv, AccountsInv, CostInv, AveragesExact, [Next]_vars
  PROVE  CostInv'
<1>1. /\ ProcessSnapshot \/ st' \in Known
      /\ Known' \subseteq Known \union {st'}
      /\ Commit \/ Seen' \subseteq Seen
      /\ Commit => Seen' \subseteq Seen \union {st'}
  BY NewStates
<1>2. CostsExplained(st')
  <2>1. CASE st' \in Known
    BY <2>1 DEF CostInv
  <2>2. CASE ProcessSnapshot
    <3>1. Orderly(st) /\ AccountsKept(st) /\ CostsExplained(st)
      BY DEF ClaimsInv, AccountsInv, CostInv, Known
    <3> QED
      BY <2>2, <3>1, StepsExplainCosts
  <2> QED
    BY <1>1, <2>1, <2>2
<1>3. \A s \in Known' : CostsExplained(s)
  BY <1>1, <1>2 DEF CostInv
<1>4. \A s \in Seen' : RowFlows(s)
  <2>1. CASE Commit
    <3>1. RowFlows(st')
      <4>1. /\ phase = "commit" /\ st'.ledger = st.ledger /\ SameCash(st', st)
            /\ st'.fills = st.fills
        BY <2>1, CommitStep
      <4>2. RowFlows(st)
        BY <4>1 DEF CostInv
      <4> QED
        BY <4>1, <4>2, SameRowFlows
    <3> QED
      BY <1>1, <2>1, <3>1 DEF CostInv
  <2>2. CASE ~Commit
    BY <1>1, <2>2 DEF CostInv
  <2> QED
    BY <2>1, <2>2
<1>5. phase' \in {"decide", "commit"} => RowFlows(st')
  BY StaysExplained
<1>6. (\A s \in Known : CostsExplained(s))' /\ (\A s \in Seen : RowFlows(s))'
  BY <1>3, <1>4 DEF CostsExplained, CostsExplainedAt, Balance, OpenCost, ClaimCost, FlowTo, RowFlows
<1>7. (phase \in {"decide", "commit"} => RowFlows(st))'
  BY <1>5
<1> QED
  BY <1>6, <1>7 DEF CostInv

(* A replay begins with it.                                                *)
LEMMA CostInit == Init /\ AveragesExact => CostInv
<1> SUFFICES ASSUME Init, AveragesExact PROVE CostInv
  OBVIOUS
<1>1. CostsExplained(EntryState)
  BY EntryExplained DEF AveragesExact
<1>2. RowFlows(EntryState)
  BY EntryIs DEF Unprocessed, RowFlows
<1>3. phase = "idle"
  BY DEF Init
<1> QED
  BY <1>1, <1>2, <1>3, InitStates DEF CostInv

(* The book explains what the row says.                                    *)
LEMMA RowIsReported ==
  ASSUME ReplayInv, AccountsInv, CostInv, phase = "mark"
  PROVE  Reported(st, NewRow)
<1>1. Marked
  BY MarkedAt
<1>2. /\ Sealed(Visible) /\ AccountsKept(st) /\ AccountsKept(Visible) /\ RowFlows(Visible)
      /\ CostsExplained(st)
  BY DEF AccountsInv, CostInv, Known, Seen
<1> DEFINE flows == FlowTo(st, Len(Portfolio))
           book == st.book
           row == NewRow
<1>3. \A g \in Groups : row.component[g] = row.value[g] + flows[g] /\ Balance(book, g) = flows[g]
  <2>1. RowExplained(NewRow, st)
    BY <1>1, <1>2, RowIsExplained
  <2> HIDE DEF row
  <2> QED
    BY <1>2, <2>1 DEF RowExplained, CostsExplained, CostsExplainedAt, Groups, row
<1>4. \A g \in Groups : row.value[g] \in Int
  BY <1>1, <1>2, PartTypes DEF Groups
<1>5. book \in Books /\ IsFiniteSet(book.claims)
  BY <1>1, <1>2 DEF Marked, IsState, StateSet, Books, AccountsKept, BookMirrors
<1> HIDE DEF flows, book, row
<1>6. ASSUME NEW g \in Groups
      PROVE  TotalPnl(book, g, row.value[g]) = row.component[g] + book.spread[g]
  <2> DEFINE r == book.realized[g]
             s == book.spread[g]
             o == OpenCost(book, g)
             c == ClaimCost(book, g)
             b == Balance(book, g)
             v == row.value[g]
             m == row.component[g]
             total == TotalPnl(book, g, v)
  <2>1. r \in Int /\ s \in Int /\ o \in Int /\ c \in Int /\ b \in Int
    BY <1>5, BalanceIs
  <2>2. b = r - o - c - s /\ total = r + v - o - c
    BY DEF Balance, TotalPnl
  <2>3. v \in Int /\ m = v + b
    BY <1>3, <1>4
  <2> HIDE DEF r, s, o, c, b, v, m, total
  <2>4. total = m + s
    BY <2>1, <2>2, <2>3
  <2> QED
    BY <2>4 DEF total, v, m, s
<1>7. BookMirrors(st) /\ SpreadAllocated(st)
  BY <1>2 DEF AccountsKept
<1> QED
  BY <1>6, <1>7 DEF Reported, book, row

(* In a replay in which no average that a trade forms is rounded, none of  *)
(* the reconciliation errors of pnl.py, numeraire.py and cost_basis.py is  *)
(* ever raised: besides what AccountsAddUp says, realized and unrealized   *)
(* P&L of the cost book explain the component of each group in every       *)
(* snapshot. The code rounds averages to binary64 and allows for it; a     *)
(* model of integers would round them to the unit.                         *)
THEOREM AccountsAreReconciled == Spec /\ []AveragesExact => []AccountsReconcile
<1> DEFINE Inv == ReplayInv /\ HistoryInv /\ ClaimsInv /\ AccountsInv /\ CostInv
<1>1. Init /\ AveragesExact => Inv
  BY InitStep, HistoryInit, ClaimsInit, AccountsInit, CostInit
<1>2. Inv /\ AveragesExact /\ [Next]_vars => Inv'
  BY ReplayStep, HistoryStep, ClaimsStep, AccountsStep, CostStep
<1>3. Inv => AccountsReconcile
  <2> SUFFICES ASSUME Inv, phase = "mark" PROVE Reconciled(st, Now, NewRow, saved)
    BY DEF AccountsReconcile
  <2>1. Marked
    BY MarkedAt
  <2>2. Sealed(Visible) /\ AccountsKept(st) /\ AccountsKept(Visible)
    BY DEF AccountsInv, Known, Seen
  <2>3. Attributed(st, Now, NewRow, saved)
    BY <2>1, <2>2, RowAddsUp
  <2>4. DiscountedAttributed(st, Now, NewRow, saved)
    BY <2>1, <2>2, RowDiscounts
  <2>5. Reported(st, NewRow)
    BY RowIsReported
  <2> QED
    BY <2>3, <2>4, <2>5 DEF Reconciled
<1> HIDE DEF Inv
<1> QED
  BY <1>1, <1>2, <1>3, PTL DEF Spec
=============================================================================
