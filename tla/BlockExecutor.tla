---------------------------- MODULE BlockExecutor ----------------------------
(***************************************************************************)
(* DeterministicExecutor of mc/execution.rs, as its AAD variant runs it:   *)
(* the sampling units are cut into fixed blocks, the workers of the pool   *)
(* take and split jobs of blocks in any order, each job reusing one        *)
(* zeroed-by-tile workspace, and the results of the blocks are reduced in  *)
(* block order by the fixed tree of pricing-numerics/reduction.rs.         *)
(*                                                                         *)
(* A unit's value is the unit itself, unless its lane still held what an   *)
(* earlier unit left there.  Statistics are the values in the order they   *)
(* were added and the groups of values that merges have formed: floating   *)
(* point makes both of them visible in the result's bits.                  *)
(***************************************************************************)
EXTENDS Integers, Sequences, FiniteSets

CONSTANTS
  Workers,       \* worker threads of the pool
  Units,         \* number of sampling units
  BlockSize,     \* reduction_block_size
  TileCapacity,  \* units that share one reset of the workspace
  MaxUnit,       \* largest unit index the machine represents (u64::MAX)
  MaxFailing     \* bound: units that evaluate may fail on

ASSUME ExecutorAssumption ==
  /\ Units \in Nat /\ BlockSize \in Nat \ {0} /\ TileCapacity \in Nat \ {0}
  /\ MaxFailing \in Nat
  /\ MaxUnit \in Nat /\ Units <= MaxUnit

VARIABLES
  failing,    \* the units on which evaluate returns an error
  allocates,  \* does SoaWorkspace::new succeed
  jobs,       \* ranges <<lo, hi>> of blocks that no worker has started
  job,        \* per worker, the blocks of its job that are left
  unit,       \* per worker, the next unit of its block
  tile,       \* per worker, the units <<begin, end>> of its tile
  added,      \* per worker, the values added to its block's statistics
  lanes,      \* per worker, what each lane of its workspace holds
  step,       \* per worker: "idle", "job", "tile" or "evaluate"
  results,    \* per block, what the map returned for it
  level,      \* the partials that the reduction is merging
  outcome     \* what the call returned

vars == <<failing, allocates, jobs, job, unit, tile, added, lanes, step, results,
          level, outcome>>

work == <<job, unit, tile, added, lanes, step>>
-----------------------------------------------------------------------------
UnitSet == 0..Units - 1
LaneSet == 0..TileCapacity - 1
Lesser(a, b) == IF a <= b THEN a ELSE b

SaturatingSum(a, b) == Lesser(a + b, MaxUnit)

(* fixed_blocks: contiguous ranges of BlockSize units, the last one short. *)
BlockCount == (Units + BlockSize - 1) \div BlockSize
Blocks == 0..BlockCount - 1
BlockStart(b) == b * BlockSize
BlockEnd(b) == Lesser(SaturatingSum(BlockStart(b), BlockSize), Units)

Zero == -1
Stale == -2
Value(u, held) == IF held = Zero THEN u ELSE Stale

Pending == [kind |-> "pending"]
Ok(values) == [kind |-> "ok", values |-> values]
Error(u) == [kind |-> "error", unit |-> u]
NoJob == <<0, 0>>
ZeroLanes == [l \in LaneSet |-> Zero]
-----------------------------------------------------------------------------
Init ==
  /\ failing \in {f \in SUBSET UnitSet : Cardinality(f) <= MaxFailing}
  /\ allocates \in BOOLEAN
  /\ jobs = IF Units = 0 THEN {} ELSE {<<0, BlockCount>>}
  /\ job = [w \in Workers |-> NoJob]
  /\ unit = [w \in Workers |-> 0]
  /\ tile = [w \in Workers |-> <<0, 0>>]
  /\ added = [w \in Workers |-> <<>>]
  /\ lanes = [w \in Workers |-> ZeroLanes]
  /\ step = [w \in Workers |-> "idle"]
  /\ results = [b \in Blocks |-> Pending]
  /\ level = <<>>
  /\ outcome = Pending

(* Rayon halves a job whenever it likes; every half gets its own workspace.*)
Split(j) ==
  /\ j[2] - j[1] > 1
  /\ LET mid == j[1] + (j[2] - j[1]) \div 2
     IN  jobs' = (jobs \ {j}) \union {<<j[1], mid>>, <<mid, j[2]>>}
  /\ UNCHANGED <<failing, allocates, work, results, level, outcome>>

(* An idle worker starts a job: map_init creates the workspace, zeroed.    *)
Take(w, j) ==
  /\ step[w] = "idle"
  /\ jobs' = jobs \ {j}
  /\ job' = [job EXCEPT ![w] = j]
  /\ lanes' = [lanes EXCEPT ![w] = ZeroLanes]
  /\ step' = [step EXCEPT ![w] = "job"]
  /\ UNCHANGED <<failing, allocates, unit, tile, added, results, level, outcome>>

(* The result of the block in hand; the worker goes on to its next block.  *)
Deliver(w, result) ==
  /\ results' = [results EXCEPT ![job[w][1]] = result]
  /\ job' = [job EXCEPT ![w] = <<@[1] + 1, @[2]>>]
  /\ step' = [step EXCEPT ![w] = "job"]

(* Mutants: starts a block past the end of the job; goes on adding to the  *)
(* statistics of the block before.                                         *)
MutStartBlockPastEnd(w) ==
  /\ step[w] = "job"
  /\ job[w][1] <= job[w][2]
  /\ allocates
  /\ unit' = [unit EXCEPT ![w] = BlockStart(job[w][1])]
  /\ added' = [added EXCEPT ![w] = <<>>]
  /\ step' = [step EXCEPT ![w] = "tile"]
  /\ UNCHANGED <<failing, allocates, jobs, job, tile, lanes, results, level, outcome>>

MutStartBlockAdding(w) ==
  /\ step[w] = "job"
  /\ job[w][1] < job[w][2]
  /\ allocates
  /\ unit' = [unit EXCEPT ![w] = BlockStart(job[w][1])]
  /\ step' = [step EXCEPT ![w] = "tile"]
  /\ UNCHANGED <<failing, allocates, jobs, job, tile, added, lanes, results, level,
                 outcome>>

StartBlock(w) ==
  /\ step[w] = "job"
  /\ job[w][1] < job[w][2]
  /\ allocates
  /\ unit' = [unit EXCEPT ![w] = BlockStart(job[w][1])]
  /\ added' = [added EXCEPT ![w] = <<>>]
  /\ step' = [step EXCEPT ![w] = "tile"]
  /\ UNCHANGED <<failing, allocates, jobs, job, tile, lanes, results, level, outcome>>

(* Without a workspace every block of the job fails at its first unit.     *)
FailBlock(w) ==
  /\ step[w] = "job"
  /\ job[w][1] < job[w][2]
  /\ ~allocates
  /\ Deliver(w, Error(BlockStart(job[w][1])))
  /\ UNCHANGED <<failing, allocates, jobs, unit, tile, added, lanes, level, outcome>>

TileEnd(w) ==
  Lesser(SaturatingSum(unit[w], TileCapacity), BlockEnd(job[w][1]))

(* Mutants: resets the workspace once per job; lets a tile be as long as   *)
(* the block.                                                              *)
MutStartTileDirty(w) ==
  /\ step[w] = "tile"
  /\ unit[w] < BlockEnd(job[w][1])
  /\ tile' = [tile EXCEPT ![w] = <<unit[w], TileEnd(w)>>]
  /\ step' = [step EXCEPT ![w] = "evaluate"]
  /\ UNCHANGED <<failing, allocates, jobs, job, unit, added, lanes, results, level,
                 outcome>>

MutStartTileLong(w) ==
  /\ step[w] = "tile"
  /\ unit[w] < BlockEnd(job[w][1])
  /\ lanes' = [lanes EXCEPT ![w] = ZeroLanes]
  /\ tile' = [tile EXCEPT ![w] = <<unit[w], BlockEnd(job[w][1])>>]
  /\ step' = [step EXCEPT ![w] = "evaluate"]
  /\ UNCHANGED <<failing, allocates, jobs, job, unit, added, results, level, outcome>>

(* reset_positive_zero before each tile, whatever the last one left.       *)
StartTile(w) ==
  /\ step[w] = "tile"
  /\ unit[w] < BlockEnd(job[w][1])
  /\ lanes' = [lanes EXCEPT ![w] = ZeroLanes]
  /\ tile' = [tile EXCEPT ![w] = <<unit[w], TileEnd(w)>>]
  /\ step' = [step EXCEPT ![w] = "evaluate"]
  /\ UNCHANGED <<failing, allocates, jobs, job, unit, added, results, level, outcome>>

Lane(w) == unit[w] - tile[w][1]

(* evaluate(unit, lane, workspace) reads and writes its own lane.          *)
Evaluate(w) ==
  /\ step[w] = "evaluate"
  /\ unit[w] < tile[w][2] /\ unit[w] \notin failing
  /\ added' = [added EXCEPT ![w] = Append(@, Value(unit[w], lanes[w][Lane(w)]))]
  /\ lanes' = [lanes EXCEPT ![w][Lane(w)] = unit[w]]
  /\ unit' = [unit EXCEPT ![w] = @ + 1]
  /\ UNCHANGED <<failing, allocates, jobs, job, tile, step, results, level, outcome>>

(* The block stops at its first failing unit, its lane perhaps written.    *)
FailUnit(w) ==
  /\ step[w] = "evaluate"
  /\ unit[w] < tile[w][2] /\ unit[w] \in failing
  /\ Deliver(w, Error(unit[w]))
  /\ \E held \in {lanes[w][Lane(w)], unit[w]} :
       lanes' = [lanes EXCEPT ![w][Lane(w)] = held]
  /\ UNCHANGED <<failing, allocates, jobs, unit, tile, added, level, outcome>>

FinishTile(w) ==
  /\ step[w] = "evaluate"
  /\ unit[w] = tile[w][2]
  /\ step' = [step EXCEPT ![w] = "tile"]
  /\ UNCHANGED <<failing, allocates, jobs, job, unit, tile, added, lanes, results, level,
                 outcome>>

FinishBlock(w) ==
  /\ step[w] = "tile"
  /\ unit[w] = BlockEnd(job[w][1])
  /\ Deliver(w, Ok(added[w]))
  /\ UNCHANGED <<failing, allocates, jobs, unit, tile, added, lanes, level, outcome>>

FinishJob(w) ==
  /\ step[w] = "job"
  /\ job[w][1] = job[w][2]
  /\ step' = [step EXCEPT ![w] = "idle"]
  /\ UNCHANGED <<failing, allocates, jobs, job, unit, tile, added, lanes, results, level,
                 outcome>>
-----------------------------------------------------------------------------
(* The caller: the indexed collect has every block's result in its place.  *)

Collected == outcome = Pending /\ level = <<>> /\ \A b \in Blocks : results[b] # Pending

(* Mutant: any error is the error of the call.                             *)
MutFirstError(b) == results[b].kind = "error"

FirstError(b) ==
  results[b].kind = "error" /\ \A c \in Blocks : c < b => results[c].kind = "ok"

ReturnError ==
  /\ Collected
  /\ \E b \in Blocks : FirstError(b) /\ outcome' = results[b]
  /\ UNCHANGED <<failing, allocates, jobs, work, results, level>>

Partial(b) == [values |-> results[b].values, merged |-> {}]

Collect ==
  /\ Collected /\ Blocks # {}
  /\ \A b \in Blocks : results[b].kind = "ok"
  /\ level' = [i \in 1..BlockCount |-> Partial(i - 1)]
  /\ UNCHANGED <<failing, allocates, jobs, work, results, outcome>>

Merge(left, right) ==
  LET values == left.values \o right.values
  IN  [values |-> values, merged |-> left.merged \union right.merged \union {values}]

(* Mutant: an odd level is paired from its end, and carries its first.     *)
MutMergeLevel ==
  /\ Len(level) > 1
  /\ LET odd == Len(level) % 2
     IN  level' = [i \in 1..(Len(level) + odd) \div 2 |->
                     IF odd = 1 /\ i = 1 THEN level[1]
                     ELSE Merge(level[2 * i - 1 - odd], level[2 * i - odd])]
  /\ UNCHANGED <<failing, allocates, jobs, work, results, outcome>>

(* fixed_tree_reduce: one pass over adjacent pairs, an odd last one is     *)
(* carried to the next level.                                              *)
MergeLevel ==
  /\ Len(level) > 1
  /\ level' = [i \in 1..(Len(level) + 1) \div 2 |->
                 IF 2 * i <= Len(level) THEN Merge(level[2 * i - 1], level[2 * i])
                 ELSE level[2 * i - 1]]
  /\ UNCHANGED <<failing, allocates, jobs, work, results, outcome>>

Total(values, merged) == [kind |-> "total", values |-> values, merged |-> merged]

ReturnTotal ==
  /\ outcome = Pending
  /\ Blocks = {} \/ Len(level) = 1
  /\ outcome' = IF Blocks = {} THEN Total(<<>>, {})
                ELSE Total(level[1].values, level[1].merged)
  /\ UNCHANGED <<failing, allocates, jobs, work, results, level>>
-----------------------------------------------------------------------------
WorkerStep(w) ==
  \/ \E j \in jobs : Take(w, j)
  \/ StartBlock(w) \/ FailBlock(w) \/ StartTile(w) \/ Evaluate(w) \/ FailUnit(w)
  \/ FinishTile(w) \/ FinishBlock(w) \/ FinishJob(w)

CallerStep == ReturnError \/ Collect \/ MergeLevel \/ ReturnTotal

Next ==
  \/ \E j \in jobs : Split(j)
  \/ \E w \in Workers : WorkerStep(w)
  \/ CallerStep

Spec == Init /\ [][Next]_vars

(* Every worker thread of the pool runs, and so does the caller.           *)
FairSpec ==
  /\ Spec
  /\ \A w \in Workers : WF_vars(WorkerStep(w))
  /\ WF_vars(CallerStep)
-----------------------------------------------------------------------------
JobSet == {j \in (0..BlockCount) \X (0..BlockCount) : j[1] <= j[2]}
PartialSet == [values : Seq(Int), merged : SUBSET Seq(Int)]
BlockResult == {Pending} \union [kind : {"ok"}, values : Seq(Int)]
                        \union [kind : {"error"}, unit : Nat]
CallResult == {Pending} \union [kind : {"error"}, unit : Nat]
  \union [kind : {"total"}, values : Seq(Int), merged : SUBSET Seq(Int)]

(* The shapes of the pool's work and of the caller's.                      *)
TypeOK ==
  /\ failing \subseteq UnitSet /\ allocates \in BOOLEAN
  /\ jobs \subseteq JobSet /\ job \in [Workers -> JobSet]
  /\ unit \in [Workers -> Nat] /\ tile \in [Workers -> Nat \X Nat]
  /\ added \in [Workers -> Seq(Int)]
  /\ lanes \in [Workers -> [LaneSet -> Int]]
  /\ step \in [Workers -> {"idle", "job", "tile", "evaluate"}]
  /\ results \in [Blocks -> BlockResult]
  /\ level \in Seq(PartialSet)
  /\ outcome \in CallResult

(* The workspace contract of evaluate ("aligned, zeroed and reused by      *)
(* logical lane"): the lane is inside the workspace, and it and the lanes  *)
(* after it are zero although earlier tiles, blocks and failed units of    *)
(* the job have used them.                                                 *)
LanesZeroed ==
  \A w \in Workers : step[w] = "evaluate" /\ unit[w] < tile[w][2] =>
    /\ Lane(w) \in LaneSet
    /\ \A l \in LaneSet : l >= Lane(w) => lanes[w][l] = Zero

(* Each block's result is that of evaluating it alone, in unit order, from *)
(* a fresh workspace, whichever worker ran it after whatever other blocks: *)
(* its units, or its first unit that fails.                                *)
UnitsFrom(from, to) == [i \in 1..to - from |-> from + i - 1]
FailsFrom(from, to) == \E u \in failing : from <= u /\ u < to

Sound(b, result) ==
  /\ result.kind = "ok" =>
       /\ allocates /\ ~FailsFrom(BlockStart(b), BlockEnd(b))
       /\ result.values = UnitsFrom(BlockStart(b), BlockEnd(b))
  /\ result.kind = "error" =>
       IF allocates
         THEN /\ result.unit \in failing
              /\ BlockStart(b) <= result.unit /\ result.unit < BlockEnd(b)
              /\ ~FailsFrom(BlockStart(b), result.unit)
         ELSE result.unit = BlockStart(b)

BlocksIndependent == \A b \in Blocks : Sound(b, results[b])

(* A failed call names the lowest unit that failed, although later blocks  *)
(* may have failed earlier in time (the test                               *)
(* centered_vector_covariance_survives_offsets_and_replays_fixed_blocks    *)
(* expects unit 6 of 6 and 11).                                            *)
LowestFailureReported ==
  outcome.kind = "error" =>
    IF allocates
      THEN outcome.unit \in failing /\ \A u \in failing : outcome.unit <= u
      ELSE outcome.unit = 0

(* The statistics of the block in hand hold the units before the next one, *)
(* none of which failed.                                                   *)
BlockInHand(w) ==
  step[w] \in {"tile", "evaluate"} =>
    LET b == job[w][1]
    IN  /\ allocates /\ b < job[w][2]
        /\ BlockStart(b) <= unit[w] /\ unit[w] <= BlockEnd(b)
        /\ added[w] = UnitsFrom(BlockStart(b), unit[w])
        /\ ~FailsFrom(BlockStart(b), unit[w])

TileInHand(w) ==
  step[w] = "evaluate" =>
    /\ tile[w][1] <= unit[w] /\ unit[w] <= tile[w][2]
    /\ tile[w][2] <= BlockEnd(job[w][1]) /\ tile[w][2] <= tile[w][1] + TileCapacity
    /\ \A l \in LaneSet : l >= Lane(w) => lanes[w][l] = Zero

(* The induction behind the three properties above: the work in progress   *)
(* of every worker is on the way to the result its block must have.        *)
OnTrack ==
  /\ TypeOK
  /\ \A w \in Workers : BlockInHand(w) /\ TileInHand(w)
  /\ BlocksIndependent
  /\ LowestFailureReported

Ordered == INSTANCE OrderedReduction WITH answer <- outcome

(* The executor implements the ordered reduction: whatever the workers do, *)
(* the call returns, once, the answer a sequential reader would compute.   *)
ReturnsOrderedReduction == Ordered!Spec
=============================================================================
