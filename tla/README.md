# TLA+ models and proofs of the pricing library and its replay engine

This directory specifies the parts of the repository in which *control and
order* decide correctness: the daily hedging replay and its accounts, the
deterministic parallel executor under every Monte Carlo price, the shared cache
of the pricing provider, and, inside one price, what is compiled, drawn, walked,
decided and differentiated. Floating-point numerics are not specified; where
they meet a model they are exact arithmetic, a given function or a
nondeterministic choice, as said below.

Three kinds of evidence: TLC checks small instances exhaustively (the `.cfg`
files); mutants of the definitions (`Mut...`, defined right before what they
mutate, used by no specification) show that each property can be broken by a
plausible bug; TLAPS proves the replay, its accounts, the executor, the provider
cache, fixings, the exercise policy and the plan of a bridge for instances of
every size.

## Inventory

`PROJECT.json` lists every part with its sources and status; this is the
overview.

| Part | State it keeps | Operations | What makes it correct |
| --- | --- | --- | --- |
| Replay engine (`engine.py`) | cash, stock, targets, hedges, claims, the pending order, capital IDs, the cost book, append-only tables, the next index | `run_backtest`, `process_snapshot`, `execute`, `_savepoint`, `_rollback` | snapshots commit whole or not at all; orders fill one snapshot later or not at all; claims are fixed and paid once; cash explains itself |
| Cost basis, P&L, numeraire (`cost_basis.py`, `pnl.py`, `numeraire.py`) | average cost, claims at face, realized and spread sums; the account value of each snapshot | `trade`, `fix`, `pay`, `report`, `attribute_pnl`, `discounted_*` | components add up to the ledger, in money and in units of the account |
| Path fixings (`path_history.py`, `domain.py`) | the fixing book in the replay state | `resolve`, `native_product`, `settlement` | a contract is priced for what it settles at |
| Block executor, fixed tree, AAD workspace (`mc/execution.rs`, `reduction.rs`, `aad/workspace.rs`) | blocks, per-job workspace, lanes, block results | `try_map_reduce_*`, `fixed_blocks`, `fixed_tree_reduce`, `reset_positive_zero` | answer independent of threads and schedule; lowest failure reported; a unit never sees another unit's values |
| Provider cache (`provider_cache.py`, `rust_adapter.py`, `portfolio_market_risk.py`, `quote_control.py`) | current snapshot cache; LRU results and native audits; agreed surface | `_evaluate`, `clear_cache`, `store` | no answer, audit or surface crosses snapshots; no rejected audit is released |
| Requests (`api/request.rs`, `engine/risk/pricing.rs`) | the validated request, the plans of a width ladder | `new_with_lsm`, `with_risk`, `PricingPlan::compile` | what is accepted can be compiled and draws no price of the past |
| Payoff machines (`payoff/`, `product/`) | graph, tape, hit states, running extrema | `compile`, `evaluate`, `reverse` | the tape pays the contract; its reverse sweep is the derivative |
| Dividends and barriers (`market/dividend.rs`, `black_scholes.rs`, `local_vol_valuation.rs`) | the affine coordinate; the walk along the dates | `event_timeline`, the four bridge walks | contacts are hits; no dividend is inside a diffusion interval |
| Local-volatility path (`local_vol.rs`, `local_variance.rs`) | time grid, states, step cache, boundary statistics, adjoints | `compile`, `evolve_path`, `evolve_states`, `reverse_*` | the same path however it is walked; its adjoints are derivatives |
| Sampling (`sampling/bridge.rs`, `qmc.rs`) | bridge instructions, scramble table | `compile`, `apply`, `reverse`, `normal` | the bridge keeps normals independent; scrambling keeps the net property |
| Early exercise (`mc/lsm.rs`, `early_exercise.rs`) | path matrices, fitted decisions, the frozen policy, QR factors | `train_exercise_policy`, `value_exercise_policy`, `fit_cpqr` | trained backwards, applied forwards, on independent words |
| Optimizers, ensemble, joint replay, Greek and IV reports, multi-step provider | none between calls | reports over committed rows, numerics | see *Not modelled* |
| Processes other than these, calibration, VegaKT, Bass LV, multi-asset, wire, bindings | none between calls | numerics, parsing | see *Not modelled* |

How they interact: the replay calls the provider for each instrument of each
snapshot, in one thread; a provider may be shared by threads, and its native
calls release the interpreter lock. A contract's fixings go from the book into
the statement that a request carries; the request is validated and compiled
into plans. The sampling units of a plan are handed to the executor; a unit
draws its normals from the scrambled points through the bridge, walks a path,
runs the payoff tape or a barrier bridge on it, and sweeps adjoints back
through tape, path and bridge. The executor reduces the statistics in a fixed
tree. A failure anywhere below reaches the replay as one expected error, which
rolls the snapshot back.

The behaviours that are hard to test are listed, each at its source line, in
`PROJECT.json` under `hazards`, with the properties that cover them.

## Modules

| Module | Models | Remarks |
| --- | --- | --- |
| `CostBasis` | `cost_basis.py` | operators on a book record; a flat slot has quantity and average 0, as the code pops it; averages are integers, and exact where `AveragesExact` holds |
| `ReplayAccounts` | the replay state, savepoint/rollback, `cashflow`, carry, capital, fixing, payment, `execute`'s arithmetic, the valuation row, `pnl.py`, `numeraire.py` | operators only; extends `CostBasis` |
| `SnapshotReplay` | `run_backtest`, `process_snapshot`, `round_lot` | the state machine; one action per step of a snapshot |
| `ReplayProperties` | what the replay promises | invariants and the refinement of `AtomicReplay` |
| `AtomicReplay` | what a caller sees: whole snapshots | abstract specification |
| `SequenceFacts` | induction over the naturals, sequences, sums | lemmas that the other proofs share |
| `ReplayProofs`, `LedgerProofs` | theorems about the replay: types and the refinement; cash, claims, history, orders and limits, and then the accounts | TLAPS; the second extends the first, which begins with what each booking does to the state |
| `PathFixings` | fixings in a replay, from the offer to the settlement | state machine; extends the pricer's side of a statement |
| `PathFixingsProofs` | theorems about fixings | TLAPS |
| `ContractHistory`, `PricingRequest` | dates and history of a contract; a request from its statement to its plans | state machine over `PayoffProducts` |
| `BlockExecutor` | `mc/execution.rs`, `reduction.rs` | state machine and its invariants |
| `OrderedReduction` | what an executor call promises: one fixed answer | abstract specification |
| `BlockExecutorProofs` | theorems about the executor | TLAPS |
| `ProviderCache` | provider, caches, in-flight calls | state machine and its properties |
| `ProviderCacheProofs` | theorems about the provider | TLAPS |
| `PayoffGraph`, `PayoffProducts` | source graphs and their opcodes; the graphs of the products and what the contracts pay | operators |
| `PayoffTape` | compiling, running and differentiating a tape | state machine |
| `AffineDividends`, `ContinuousBarrier` | escrowed dividends; four walks past a continuous barrier | operators; state machine |
| `LocalVarianceGrid`, `LocalVolPath` | the surface; a path on it and its reverse sweep | operators; state machine |
| `GreedyBridge`, `BrownianBridge` | what compiling a bridge promises; the bridge | abstract specification; state machine |
| `BridgeProofs` | theorems about compiling a bridge | TLAPS |
| `ScrambledSobol` | points, scrambles and replicates of a request | state machine |
| `ExercisePolicy` | training, freezing, applying and differentiating a policy | state machine |
| `ExercisePolicyProofs` | theorems about the policy | TLAPS |
| `PolynomialBasis`, `Regression` | the basis and its size; the pivoted regression | operators; state machine |
| `MC...` | instances for TLC | where two or three components run side by side in one instance (`MCSampling`, `MCExercise`, `MCHistories`), a behaviour is about one of them and the others rest |

### Replay

`st` is the Python dictionary `state`. The five append-only tables that other
steps read back (`ledger`, `orders`, `fills`, `cashflows`, `settlements`) are
sequences of records; the report tables that nothing reads back
(`greek_pnl`, `iv_alignment`, `decisions`, risk rows) are left out, and the
rows of `pnl_components`, `cost_basis` and the discounted tables are fields of
the ledger row. Indices count from 1, where the code counts from 0;
`pending = 0` is `None`.

`phase` is the program counter of `process_snapshot`: validate, carry,
capital, fix, pay, execute, liquidate, fill, mark, decide, commit. Every step
of it mutates `st` in place, as the code does, and `FailSnapshot` is enabled in
every phase: a missing or stale quote, a provider error or a failed
requirement can come up anywhere, in the middle of a basket too. What the code
requires explicitly appears as a guard of the step, so that the step is not
taken and only the failure remains.

Dates are numbers; prices, cash and quantities are integers in arbitrary
units; rates and discount factors are multiples of `1/RateUnit`, rounded down
when they multiply. The contract multiplier is 1. The decision is *any* point
within the position and trade limits over the tradeable contracts, rounded as
`round_lot` rounds it: limits are in quarters of a lot, a solver's result is
off by at most one unit of noise, within which the code snaps to the nearest
lot before it truncates. A numeraire account is always configured; its values
divide `NumeraireUnit`, so that discounted amounts are exact. Slippage is part
of the half spread. The `16 ulp` and `1e-12` allowances of the accounts vanish
in integers.

A behaviour may contain several runs (`MaxRuns`): `StartRun` begins one from
any checkpoint that an earlier result, complete, partial or failed, has
carried, at any moment, since the run before may have been lost. The history
is chosen as it is read; a resumed run may be given other entries behind the
processed prefix, and must be refused if the prefix differs.

### Fixings and requests

In `PathFixings` a snapshot receives fixings (late, twice, dated wrongly,
revised), checks them against the book, books them contract by contract,
settles and values, all in place between a savepoint and a commit; it may fail
at every step and be tried again with other data. Contracts are booked in any
order; orders, cash and prices are those of `SnapshotReplay` and not repeated,
so that any listed contract may be valued, and be held once it was. What the
pricer is told (`Statement`) is a product of `PayoffProducts`.

`PricingRequest` starts from any statement of a contract, right or wrong, of
the seven kinds, and any demand for risk. Validation reports the first of its
errors in the code's order; `WithRisk` exchanges the risk and validates again;
the ladder's copies are compiled without validation. A local-volatility surface
is that of the contract: it ends at the expiry. Markets, engine settings and
user-defined graphs are left out.

### Executor

A sampling unit's value is the unit number; `Stale` replaces it if the lane it
was given held something. Statistics are the *sequence* of values added and
the *set of groups* that merges have formed, since in floating point exactly
these decide the bits of the result. Rayon is external: a job is a range of
blocks, split whenever and taken by whichever worker; each job gets one
workspace by `map_init`. Which units fail and whether workspaces can be
allocated is chosen initially and fixed, as the evaluation is deterministic.
Unit numbers saturate at `MaxUnit`, as the code's do at 2^64 - 1, and the
instance ends exactly there, so that the sum is exercised although no real
call has so many units. The variants without workspace or tiles are this
machine without resets, or with one tile per block.

### Provider

`caches` holds every `SnapshotCache` object ever created, and the provider
points at the last one, so that a call in flight can go on with the one it was
given. An action is what one lock of the code protects; between two actions of
a thread the others run. The pricing path is that of the quote-controlled
sampling policy, the only one that uses both stores of a cache. A result is
identified with the key it was computed for and the parts it was computed
from, so a mixed-up answer is a different value.

### Inside one price

Numbers. Where a program is a fixed sequence of arithmetic (payoff tapes,
local-volatility steps) numbers are residues modulo a prime: every operation
and every derivative is exact, two sides that differ as polynomials differ on
some of the inputs, and the only value that is not finite comes from a division
by zero. Orders (of dates, log-moneyness, hits) are those of integers. The
regression computes in exact fractions, with squared tolerances and the inner
products of columns instead of their entries, which a reflection keeps. The
bridge's values are linear forms of the normals they are made of.

Tapes. `PayoffTape` runs the compiler (validation, topological order by
smallest identifier, folding, renumbering), the forward sweep opcode by opcode
and the reverse sweep. `PaysContract` compares with the contract written down
independently, `ReverseIsDerivative` with the derivative of the source graph.

Barriers. Prices are in eighths, a proportional dividend takes half, and a
bridge probability strictly between 0 and 1 is one half; a smoothed hit weight
is none, part or full. Each of the two processes walks the same path exactly
and smoothed, one date per action.

Local volatility. `Compile` builds the time grid from surface, observations and
ex-dates, `Evolve` takes one step of `evolve_path` with its dividend checks,
`StartReverse` is `reverse_path_with_variance_seeds` up to the sweep,
`ReverseStep` one step of it. Logarithm, exponential and root are given
functions with their rules of differentiation, times are such that substeps
are whole. `PriceStates` is the walk that remembers nothing but the last cells,
`ContinuedStates` the one that starts behind the first step. The engine asks
for steps as long as the largest gap of the surface; shorter ones are asked for
by callers of the public grid.

Sampling. A word of `ScrambledSobol` is the set of its one bits, a normal an
odd integer in the order of the unit interval's midpoints, the generator a
given table; a payoff is the indicator of a box, whose exact mean is known.
`BrownianBridge` runs the heap of intervals, the forward transform factor by
factor and the transpose instruction by instruction.

Exercise. A path is one of a few trajectories; which one the words of a unit
give is arbitrary, but the same words give the same one. The fitted polynomial
is any of a few predictors in `ExercisePolicy` and the pivoted least-squares
fit in `Regression`, where columns are chosen, reflected and ranked one action
at a time.

## Runs

Every run is exhaustive for its instance. `CHECK_DEADLOCK FALSE` everywhere:
a replay ends with its last run, a call ends when it has returned, threads
have a bounded number of calls, and a price is computed once.

| Run | States | Bounds | Asks |
| --- | --- | --- | --- |
| `Ledger` | 59k | 4 dates, 1 target entered in three positions at two prices, 1 hedge, stock, two markets on three dates, cash floor and gross cap that the market can break, one run | Do orders, claims, accounts and limits stay consistent through shorts, reversals, dividends, capital, settlement, liquidation and failure? |
| `Resume` | 95k | 3 dates, one missing an expiry and a payment day, capital on either of the last two, three runs (two resumptions or losses), fair | Is every visible change one whole snapshot, does the result match the history it was given, and does every run end? |
| `Blocks` | 71k | 8 units of which the last is the largest, blocks of 3, tiles of 2, 2 workers, at most 2 failing units, fair | Executor invariants; does the call return the one ordered reduction? |
| `Provider` | 170k | 2 threads, 2 snapshots, 2 contracts, 3 calls, 1 clear, capacity 2 | Isolation, surface agreement, gate, eviction |
| `Sampling` | 41k | all time grids within 0..6, 0 to 3 factors; 3-bit words, 64 generators, up to 2 dimensions; 4 surfaces of 3 x 3 nodes, 5 dividend schedules, paths of up to 6 steps, 3 payoffs | Is the bridge the greedy one and its transform orthogonal; do points stay a net; do paths and adjoints agree? |
| `Exercise` | 82k | 3 dates, 4 trajectories, 7 pairs of engines; samples of up to 4 rows and 6 columns | Is the policy consistent and blind to the future; is the fit the exact one? |
| `Payoffs` | 346k | 168 contracts on 16 paths each; every graph of three nodes over the listed opcodes | Does the tape mean the graph and pay the contract, and is the reverse sweep its derivative? |
| `Barrier` | 234k | 3 dates, barriers on both sides, up to 2 dividends, every path of 3 states, both processes, exact and smoothed | Is every contact a hit, no dividend inside an interval, smoothing local? |
| `Histories` | 94k | 3 contracts over 3 snapshots and 10 offered fixings; every stated history of 7 kinds of contract over 4 days, valued on 3 of them, with every small demand for risk | Is a contract priced for what it settles at; is what is accepted priced right? |
| `JumpToday`, `PolicyDomain`, `FixedUnderLocalVol` | | as `Barrier`, `Exercise`, `Histories` | The findings below |

Why the bounds are enough. A replay step reads at most the previous snapshot
and the pending order; four dates put an entry, a rebalance, a fixing and a
payment with liquidation in one run, and three runs resume a resumed one. In
the executor, blocks whose middle one fails, two tiles per block of which one
is short, and two workers show every way in which a lane can be reused; three
leaves give a tree with a carried partial. In the provider three calls by two
threads can overlap on one snapshot while the other is switched away from it;
capacity 2 is exceeded by the three native pieces of one snapshot. A bridge
instruction reads two neighbours, so seven times contain every nesting of three
levels. Two dates around a dividend, one before it and one behind, are all that
a barrier's interval can see; three states reach below, into and above every
interval between the barriers. A hinted cell search meets hints before, at and
behind the value on three nodes, and paths leave the surface on both sides. Two
surfaces that differ in a single value make a stale path fail on some paths
and pass on others. A tape opcode reads at most two slots, so that graphs of
three nodes contain every pair of adjacent opcodes.

Components that run side by side in one instance share no state: their product
is the union of their behaviours, and each property speaks of one of them.

Fairness. `SnapshotReplay!FairSpec`: the replay is one thread in a loop
without waits, so some step of a running replay is eventually taken
(`WF(Proceed)`); nothing is assumed about which one, and restarts are not
fair. `BlockExecutor!FairSpec`: each worker thread runs (`WF(WorkerStep(w))`),
and so does the caller (`WF(CallerStep)`); splitting is not fair, since rayon
need not split. The bridge is a function that runs to its end
(`WF` of its next step), as `GreedyBridge!Spec` asks of it.

### Properties worth reading

* `CommitsAtomically` (refinement): seen through the savepoint, the steps of a
  snapshot are invisible until it commits; then every table has been extended,
  nothing rewritten, and only the pending order resolved. Through failure,
  loss and resumption.
* `OrdersKept`, `CommittedWithinLimits`: the order was sized on yesterday's
  state and is filled on today's; the lots were rounded between limits that
  are no lots.
* `AccountsReconcile`: the reconciliation errors of `pnl.py`, `cost_basis.py`
  and `numeraire.py` never fire. The ledger row, the attribution, the cost book
  and the discounted rows are computed from different data. Proved for
  every instance in which no average is rounded.
* `ClaimsFixThenPayOnce`, `NothingOverdue`: settlement across snapshots.
* `ReturnsOrderedReduction` (refinement with liveness),
  `LowestFailureReported`, `BlocksIndependent`, `LanesZeroed`.
* `CachesStayApart`, `SurfaceSticks`, `AnswersAsUncached`, `RefusedForCause`:
  the comment "must not mix or repopulate the provider's new cache" and the
  second surface check, under every interleaving.
* `BookIsShared`, `PricingFollowsBook`: two contracts that share a fixing
  settle on the same value, and each is priced beforehand for the payoff that
  it will have, although both sides read the book separately.
* `AcceptedIsPriced`, `RiskIsServed`: validation, the builder of the graph and
  the unvalidated copies of a width ladder read a contract's history separately
  and must agree.
* `TapeIsFaithful`, `ReverseIsDerivative`, `PaidIfPriced`.
* `DividendsStayOutside`, `ContactsDecide`, `SmoothingAgrees`: of four walks
  along a path.
* `PathsAgree`: the three walks take the same states, every dividend up to the
  expiry is checked once and in order, unless one is due today: that one stands
  before the first step, `evolve_path`'s cursor waits for it, and none is
  checked. The escrow keeps the checked prices positive in any case.
* `ReverseAgrees`: the adjoints are compared with derivatives carried forwards,
  in the direction of the start, every shock, every step's variance and every
  value of the surface.
* `ChoosesGreedily` (refinement); `PlanFillsGrid`: the transform trusts the plan
  to have an instruction and a normal for every node, with what it reads filled
  before it, and never looks; `TransformKeepsNormals`: the increments have
  the covariance of Brownian motion, and the reverse sweep is the transpose.
* `PointsAreScrambled`: scrambling keeps every dyadic box of the net, each
  scramble and dimension has bits of its own.
* `TrainsBackwards`, `ExercisesOnce`, `WordsKeptApart`, `FitIsExact`.

## Findings

* `JumpToday`: a dividend on the valuation date can take the price through a
  continuously monitored barrier unseen, under Black-Scholes.
* `PolicyDomain`: a policy trained on quasi-random paths names the scrambling
  domain and not the training domain.
* `FixedUnderLocalVol`: a contract whose payoff is determined is accepted under
  a local volatility and cannot be compiled, since without an observation the
  last simulated time is today and no surface can end there. Under a constant
  volatility it is priced (`AcceptedIsPriced` says that this is the only way in
  which an accepted request fails).

`PROJECT.json` quotes the documents that say otherwise.

## Proofs

The theorems hold for every value of the constants that the `ASSUME`s of the
models allow; TLC evaluates these assumptions in every run.

### The executor

`BlockExecutorProofs` proves, for every number of workers and units, every
block size and tile capacity (`ExecutorAssumption`: natural numbers, the sizes
positive, as the code's `NonZero` types make them; the units do not exceed the
largest unit number):

* `TypeCorrect`, `LanesAreZeroed`, `BlocksAreIndependent`,
  `LowestFailureIsReported`, from `StaysOnTrack`.

`BlocksIndependent` alone is not inductive: that a delivered result is right
follows from what its worker had in hand. `OnTrack` adds, for every worker,
that its unit is inside its block, that its statistics hold exactly the units
before it and none of them failed (`BlockInHand`), and that its tile is inside
the block and the workspace and the lanes not yet used are zero (`TileInHand`).
A worker's step preserves its own part (`OwnInHand`) and leaves the others'
alone (`OthersInHand`); what it delivers is sound (`WorkerSound`). The caller's
error is the lowest because blocks partition the units in order and all blocks
before the first error are sound and complete (`FirstErrorLowest`). The lemmas
on `BlockStart` and `BlockEnd` (`BlockBounds`, `BlockOfUnit`, `BlocksFollow`)
carry the nonlinear arithmetic. The `Blocks` run checks `OnTrack` itself.

That each block is handed out once is rayon's promise and is built into the
model's jobs, so nothing is claimed of it.

* `AnswerIsDetermined`: the executor implements the safety of `OrderedReduction`,
  from `OnTrack` and `LevelIsTree`. What is being merged are the nodes of one
  height: the `k`-th holds the units of the `k`-th run of `RunSize[h]` blocks
  and the groups of all runs below it (`Node`). A pass over adjacent pairs goes
  up by one height (`NodeOfHalves`, `RunsOfHalves`); a node without a neighbour
  already is the node above, since the second half of that one's run has no
  blocks. `OrderedReduction` gives the run sizes as a recursive function because
  the provers know no powers.

### The replay

Assumptions: dates that follow each other (`ScheduleAssumption`), finitely many
contracts, listed before they expire and paid no earlier (`ContractAssumption`),
natural limits and a rounding tolerance below half a lot (`ConfigAssumption`), a
finite opening portfolio (`PortfolioAssumption`), markets of integer prices with
model values and rates, a positive numeraire and finitely many capital flows
(`MarketAssumption`), and at least one run (`RunsAssumption`). Prices may be negative and the opening
portfolio anything.

* `ReplayTypesHold` and `SnapshotsCommitAtomically`, from `ReplayInv`. A snapshot
  writes the state in place, so the state alone says nothing about what a
  rollback returns to. `ReplayInv` keeps, for every step of a snapshot, the
  committed state that the savepoint was taken from (`Visible`) and that what
  was appended and resolved since can be undone (`InSnapshot`); every checkpoint
  is a committed state. The refinement then follows step by step: a commit
  extends each visible table, a rollback and every step before the commit are
  stutters, a resumed run restarts from a carried result. Only the safety part
  is there to be proved: `AtomicReplay` asks for no liveness.
* `LedgerFinancesItself`, from `CashInv`: cash is explained in *every* state that
  the replay may return to (`Known`), not only in the present one.
* `ClaimsAreFixedThenPaid` and `NothingIsOverdue`, from `ClaimsInv`: the
  settlements of every known state are in order, those of every committed state
  complete; within a snapshot, what has expired is gone after the fixing step,
  what is due after the payment step, and a basket only trades the unexpired.
* `HistoryIsBookedOnce`, from `HistoryInv`: pairs of a state and the prefix of
  the history it was given. In a snapshot the last movement of capital is or is
  not yet booked, depending on the step.
* `OrdersAreKept`, from `OrdersInv`: what fills is what was decided, although
  contracts of the order may have been fixed in between; how far the basket has
  got says what is filled (`Underway`).
* `CommitsStayWithinLimits`, from `LimitsInv`: the rows of an accepted basket
  that are still to fill are covered by cash, a decision is in the box around a
  holding that is itself within limits, and the gross notional that the
  valuation checks is that of everything held, since nothing held has expired.
* `AccountsAddUp`, from `AccountsInv`: in every snapshot of every replay the
  attribution leaves no remainder, in money and in units of the account, for the
  day and since the start; and the cost book has the positions and claims that
  the state has (`BookMirrors`) and has allocated the spread of every fill
  (`SpreadAllocated`). That the rows add up is not inductive: a row is compared
  with the one before it, which a rollback or an earlier run may have left, so
  that `AccountsInv` says of every state in `Known` where its cash came from
  (`Accounted`: the initial cash and the income, less what entries and fills
  cost), and of every committed state, and of a marked one, that its last row has
  the cash of the state and adds up since the start (`Sealed`). The row of a
  snapshot is then the row before plus what the snapshot booked, in which every
  cashflow and every fill is in exactly one component.
* `AccountsAreReconciled`: `AccountsReconcile` in every behaviour in which no
  average that a trade forms is rounded (`AveragesExact`), from `CostInv`: what a
  group has realized, less what its positions and claims cost and less its spread
  (`Balance`), is what it was paid less what it traded at mid (`FlowTo`), and the
  components of the last row are the values of the groups plus the same flows
  (`RowFlows`). Opening, extending, closing and reversing a position keep the
  balance (`OpeningCost`, `ClosingCost`); a fixing keeps it because the claim it
  adds is not there yet, which `ClaimsInv` knows. The hypothesis is about the
  unit: the code's averages are binary64, whose rounding its tolerances allow
  for, while an average of the model is an integer. `Ledger` meets it, with an
  average of two prices among others, in all its states.

`ReplayProofs` begins with lemmas that say once what each booking does to each
field of the state.
Facts about data of any length (sums, recursions along a sequence) are proved
from `Induction`, by a least counterexample; the model writes them as functions
for that reason. TLC found each of these invariants to hold on the instances of
`Ledger` and `Resume`.

### The provider

* `CachesStayApartAlways`, `AnswersAreUncached`, `RefusalsHaveCause` and
  `SurfacesStick`, from `CachesStaySound`, for any number of threads, snapshots and
  contracts, any capacities and any surfaces. `CachesSound` says of every entry
  of a cache object that it is what an uncached evaluation gives on the object's
  snapshot and surface, and of every call what it has collected and has behind
  it. It speaks of all cache objects that were ever made, since a call may still
  hold one that the provider has dropped.

### The exercise policy

`ExercisePolicyProofs` proves, for any number of exercise dates, any
trajectories and predictors, and engines with any positive numbers of scrambles
and points (`ExerciseAssumption`, as `RqmcConfig`'s `NonZero` fields make them):

* `PolicyTrainsBackwards` and `PathsExerciseOnce`, from `PolicyInv`: in the middle
  of the backward sweep, a path's stopping date is its first exercise *from the
  dates fitted so far* (`SweptSoFar`), and in the middle of the forward walk a
  path that has stopped did so at its first exercise, and one that has not had
  none (`ValuedSoFar`). `FirstStep` says how the first exercise changes when one
  earlier date is added; it is what the sweep does.
* `WordsStayApart`, from `WordsInv` and `PolicyInv`: paths are numbered by
  scramble, point and lane. `SlotHasPath`, `PathHasSlot` and `PathHasOneSlot` make
  this a bijection, so that the trajectory a stopping date is looked up for is
  the one that it was decided for, and a sample's chunk is its words' paths.

TLC found `PolicyInv` and `WordsInv` to hold on the instance of `Exercise`.

### Path fixings

`PathFixingsProofs` proves, for any contracts with unique names, listed before
they expire, whose observations are dated and weighted by integers
(`ContractAssumption`), any calendar that increases and any fixings of integer
values, and an opening portfolio of contracts that are alive on its first day
(`HistoryAssumption`, as the snapshot parser requires them):

* `BookStaysShared` and `PricingKeepsToBook`, from `BookStaysTrue`. Neither is
  inductive: a statement is right for what the contract *will* settle at, and
  that is decided by fixings that are not there yet. `Inv` says of the state,
  and of the savepoint a failure returns to, that each statement agrees with
  the book (`Agree`), that validation accepts it, and that it pays, by whatever
  complete book the present one may grow into, what the contract settles at by
  that book (`Foretells`). It is kept because the book only grows (`BooksGrow`):
  a merged fixing either repeats what the book holds or fails the snapshot.
  A settlement is then what the complete book says (`SettledTrue`), so that two
  contracts that share a fixing have settled on one value.
* `ToldFromBook` and `StatementAccepted` derive a statement from the book and
  show that it is accepted; `StatementForetells` compares its sum, extremum or
  fixing with that of the settlement (`ExtremumOfParts`: the extremum of two
  parts is that of the whole).

TLC found `Inv` to hold on an instance of `Histories` with fewer fixings: the
clause about every book there may be is slow to evaluate.

### The bridge

`BridgeProofs` proves, for any finite grids, any numbers of factors and any
positive precisions (`BridgeAssumption`; a grid is a slice in the code, so it is
indexed from 0 and finite, and may break every rule that `compile` checks):

* `BridgeChoosesGreedily`: compiling implements the safety of `GreedyBridge`,
  initial states to initial states, and each step to a choice, a refusal or a
  stutter. The abstract specification looks at every open node of the grid, the
  code at the top of a heap that has one candidate per gap. `BridgeInv` says that
  every candidate is the best of its gap, that every open node is in a gap that
  has one, and that no node of such a gap rounds to zero (`Covers`). The best of
  a gap is ahead of any node in it, and the top ahead of the best, so the top is
  ahead of all (`TopIsNext`, by `AheadTransitive`: variances are fractions that are
  compared by cross-multiplication). When a split is refused, a node of the two
  new gaps rounds to zero; since none of the other gaps has one, that is
  the same as one of all open nodes (`SplitVanishes`).
* `BridgeFillsGrid`: `PlanFillsGrid`, from the same invariant. `BestIsOne` (of two
  best of one gap, each is above the other or they are the same) makes the heap
  as large as the set of gaps. When the heap is empty no gap is left, so every
  node is filled; and since each instruction fills a node of its own, there are
  as many as intervals (`CoveredGrid`).

TLC found `BridgeInv` to hold on the instance of `Sampling`.

### Only model-checked

* Liveness under fairness: `RunEnds`, and the liveness halves of
  `ReturnsOrderedReduction` and `ChoosesGreedily`; their safety halves are
  `AnswerIsDetermined` and `BridgeChoosesGreedily`.
* What the cost book reports when an average is rounded to the unit of the
  model's amounts: `AccountsAreReconciled` excludes it, and no instance has it.
* The properties of requests, payoffs, tapes, barriers, paths and points: folds
  over paths, tapes and graphs, and recursion over dyadic levels.
* The transform of a bridge (`IncrementsIndependent`, `ReverseTransposes`, and that
  forms are exact, in `TypeOK`): sums of products of weights along a plan of any
  length, whose remainders depend on the unit `Scale` of the instance.

## Plan

Done: the accounts, the replay and its atomic view, numeraire and lots; the
executor with its abstract specification; the provider cache; sampling,
exercise, payoffs, barriers, requests, fixings, the local-volatility path; and
the proofs above.

What could still be proved: `HintedCell = LowerCell` on every increasing grid,
from the count of the nodes at or before a value being unique.

## Not modelled

* Floating-point values themselves, and the numerical algorithms around the
  modelled control: construction and calibration of surfaces, quantile and
  generator rounds, Hull-White, LSV and rough-volatility schemes, closed forms,
  Bass and multi-asset engines, the solvers of the hedge optimizer. They are
  straight-line arithmetic without state between calls; what TLC could check of
  them is arithmetic that its integers do not have.
* VegaKT and bump validation: linear algebra over finished results.
* Scenario ensemble, Greek explanation, IV alignment, joint replay, budget
  audits: reports over committed rows. A failing one fails the snapshot, and
  that failure is modelled.
* The branches of the multi-step provider other than quote control: the same
  calls with other numbers of native pieces.
* Wire format, serialization, schemas and bindings: parsing, version checks and
  copies of fields. A fingerprint is taken to identify what it covers.
* Operating-system failures below a lost run. The scripts, fixtures, benchmarks
  and design records are not program behaviour.
