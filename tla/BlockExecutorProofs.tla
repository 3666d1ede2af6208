------------------------- MODULE BlockExecutorProofs -------------------------
(* Proofs about BlockExecutor for every pool, number of units, block size, *)
(* tile capacity and set of failing units.                                 *)
EXTENDS BlockExecutor, SequenceFacts
-----------------------------------------------------------------------------
(* The blocks of fixed_blocks.                                             *)

(* The quotient and remainder of the division that counts the blocks.      *)
LEMMA Quotient ==
  ASSUME NEW n \in Nat, NEW d \in Nat \ {0}
  PROVE  /\ n \div d \in Nat
         /\ (n \div d) * d <= n
         /\ n < (n \div d) * d + d
  OBVIOUS

(* Products of block numbers and the block size, for the linear solver.    *)
LEMMA Products ==
  ASSUME NEW a \in Nat, NEW b \in Nat, NEW d \in Nat \ {0}
  PROVE  /\ a * d \in Nat
         /\ a < b => a * d + d <= b * d
  OBVIOUS

(* Blocks are numbered from 0, as the chunks of fixed_blocks.              *)
LEMMA BlockCountType == BlockCount \in Nat /\ Blocks \subseteq Nat
  BY ExecutorAssumption, Quotient DEF BlockCount, Blocks

(* A block starts inside the units and ends after its start, at the start  *)
(* of the next block or at the last unit.                                  *)
LEMMA BlockBounds ==
  ASSUME NEW b \in Blocks
  PROVE  /\ b \in Nat /\ BlockStart(b) \in Nat /\ BlockEnd(b) \in Nat
         /\ BlockStart(b) < BlockEnd(b)
         /\ BlockEnd(b) <= Units
<1>1. b \in Nat /\ BlockCount \in Nat /\ b < BlockCount
  BY BlockCountType DEF Blocks
<1>2. BlockStart(b) \in Nat
  BY <1>1, Products, ExecutorAssumption DEF BlockStart
<1>3. BlockStart(b) + BlockSize <= BlockCount * BlockSize
  BY <1>1, Products, ExecutorAssumption DEF BlockStart
<1>4. BlockCount * BlockSize <= Units + BlockSize - 1
  BY Quotient, ExecutorAssumption DEF BlockCount
<1>5. BlockCount * BlockSize \in Nat
  BY <1>1, Products, ExecutorAssumption
<1>6. BlockStart(b) < Units
  BY <1>2, <1>3, <1>4, <1>5, ExecutorAssumption
<1> QED
  BY <1>1, <1>2, <1>6, ExecutorAssumption DEF BlockEnd, SaturatingSum, Lesser

(* Every unit lies in a block.                                             *)
LEMMA BlockOfUnit ==
  ASSUME NEW u \in UnitSet
  PROVE  \E b \in Blocks : BlockStart(b) <= u /\ u < BlockEnd(b)
<1> DEFINE q == u \div BlockSize
<1>1. u \in Nat /\ u < Units
  BY ExecutorAssumption DEF UnitSet
<1>2. q \in Nat /\ q * BlockSize <= u /\ u < q * BlockSize + BlockSize
  BY <1>1, Quotient, ExecutorAssumption
<1>3. q * BlockSize \in Nat /\ BlockCount \in Nat
  BY <1>2, Products, BlockCountType, ExecutorAssumption
<1>4. Units + BlockSize - 1 < BlockCount * BlockSize + BlockSize
  BY Quotient, ExecutorAssumption DEF BlockCount
<1>5. q < BlockCount
  <2>1. SUFFICES ASSUME BlockCount <= q PROVE FALSE
    BY <1>2, <1>3
  <2>2. BlockCount * BlockSize <= q * BlockSize
    BY <2>1, <1>2, <1>3, Products, ExecutorAssumption
  <2>3. BlockCount * BlockSize \in Nat
    BY <1>3, Products, ExecutorAssumption
  <2> QED
    BY <1>1, <1>2, <1>3, <1>4, <2>2, <2>3, ExecutorAssumption
<1>6. q \in Blocks
  BY <1>2, <1>3, <1>5 DEF Blocks
<1>7. BlockStart(q) <= u /\ u < BlockEnd(q)
  BY <1>1, <1>2, <1>3, ExecutorAssumption DEF BlockStart, BlockEnd, SaturatingSum, Lesser
<1> QED
  BY <1>6, <1>7

(* Blocks follow each other.                                               *)
LEMMA BlocksFollow ==
  ASSUME NEW b \in Blocks, NEW c \in Blocks, BlockStart(b) < BlockEnd(c)
  PROVE  b <= c
<1>1. b \in Nat /\ c \in Nat
  BY BlockCountType
<1>2. c < b => BlockStart(c) + BlockSize <= BlockStart(b)
  BY <1>1, Products, ExecutorAssumption DEF BlockStart
<1>3. BlockEnd(c) <= BlockStart(c) + BlockSize
  BY BlockBounds, ExecutorAssumption DEF BlockEnd, SaturatingSum, Lesser
<1> QED
  BY <1>1, <1>2, <1>3, BlockBounds, ExecutorAssumption
-----------------------------------------------------------------------------
(* The statistics of a block grow by one unit.                             *)
LEMMA UnitsFromType ==
  ASSUME NEW from \in Nat, NEW to \in Nat, from <= to
  PROVE  /\ UnitsFrom(from, to) \in Seq(Int)
         /\ UnitsFrom(from, from) = <<>>
         /\ Append(UnitsFrom(from, to), to) = UnitsFrom(from, to + 1)
<1>1. UnitsFrom(from, to) \in Seq(Int) /\ Len(UnitsFrom(from, to)) = to - from
  BY DEF UnitsFrom
<1>2. UnitsFrom(from, from) = <<>>
  BY DEF UnitsFrom
<1>3. Append(UnitsFrom(from, to), to) = UnitsFrom(from, to + 1)
  BY <1>1 DEF UnitsFrom
<1> QED
  BY <1>1, <1>2, <1>3
-----------------------------------------------------------------------------
(* Type correctness.                                                       *)

(* A call starts with state of the right shape.                            *)
LEMMA InitType == Init => TypeOK
<1> SUFFICES ASSUME Init PROVE TypeOK
  OBVIOUS
<1>1. jobs \subseteq JobSet
  BY BlockCountType DEF Init, JobSet
<1>2. job \in [Workers -> JobSet]
  BY BlockCountType DEF Init, JobSet, NoJob
<1>3. results \in [Blocks -> BlockResult]
  BY DEF Init, BlockResult
<1>4. outcome \in CallResult /\ level \in Seq(PartialSet)
  BY DEF Init, CallResult
<1>5. lanes \in [Workers -> [LaneSet -> Int]]
  BY DEF Init, ZeroLanes, Zero
<1> QED
  BY <1>1, <1>2, <1>3, <1>4, <1>5 DEF Init, TypeOK

(* Delivering a result keeps the results and the job well shaped.          *)
LEMMA DeliverType ==
  ASSUME TypeOK, NEW w \in Workers, NEW r \in BlockResult, Deliver(w, r),
         job[w][1] < job[w][2]
  PROVE  /\ results' \in [Blocks -> BlockResult]
         /\ job' \in [Workers -> JobSet]
         /\ step' \in [Workers -> {"idle", "job", "tile", "evaluate"}]
<1>1. results' \in [Blocks -> BlockResult]
  BY DEF TypeOK, Deliver
<1>2. job[w] \in JobSet /\ BlockCount \in Nat
  BY BlockCountType DEF TypeOK
<1>3. <<job[w][1] + 1, job[w][2]>> \in JobSet
  BY <1>2 DEF JobSet
<1>4. job' \in [Workers -> JobSet]
  BY <1>3 DEF TypeOK, Deliver
<1>5. step' \in [Workers -> {"idle", "job", "tile", "evaluate"}]
  BY DEF TypeOK, Deliver
<1> QED
  BY <1>1, <1>4, <1>5

(* The block a worker has in hand.                                         *)
LEMMA InHand ==
  ASSUME TypeOK, NEW w \in Workers, job[w][1] < job[w][2]
  PROVE  job[w][1] \in Blocks
BY BlockCountType DEF TypeOK, JobSet, Blocks

(* What the kind of a result says of its other field.                      *)
LEMMA ResultKinds ==
  ASSUME NEW r \in BlockResult
  PROVE  /\ r.kind = "ok" => r.values \in Seq(Int)
         /\ r.kind = "error" => r \in [kind : {"error"}, unit : Nat]
         /\ r.kind \notin {"ok", "error"} => r = Pending
<1>1. CASE r = Pending
  BY <1>1 DEF Pending
<1>2. CASE r \in [kind : {"ok"}, values : Seq(Int)]
  BY <1>2
<1>3. CASE r \in [kind : {"error"}, unit : Nat]
  BY <1>3
<1> QED
  BY <1>1, <1>2, <1>3 DEF BlockResult

(* An element of a sequence is of the sequence's type.                     *)
LEMMA Element ==
  ASSUME NEW S, NEW s \in Seq(S), NEW i \in 1..Len(s)
  PROVE  s[i] \in S
OBVIOUS

(* Merging two partials gives a partial.                                   *)
LEMMA MergeType ==
  ASSUME NEW p \in PartialSet, NEW q \in PartialSet
  PROVE  Merge(p, q) \in PartialSet
<1>1. p.values \o q.values \in Seq(Int)
  BY DEF PartialSet
<1>2. p.merged \union q.merged \union {p.values \o q.values} \in SUBSET Seq(Int)
  BY <1>1 DEF PartialSet
<1> QED
  BY <1>1, <1>2 DEF Merge, PartialSet

(* The unit in hand has a lane of the workspace.                           *)
LEMMA LaneInside ==
  ASSUME TypeOK, NEW w \in Workers, TileInHand(w),
         step[w] = "evaluate", unit[w] < tile[w][2]
  PROVE  Lane(w) \in LaneSet
BY ExecutorAssumption DEF TypeOK, TileInHand, Lane, LaneSet

(* No step of a worker breaks the shape of the state.                      *)
LEMMA WorkerType ==
  ASSUME TypeOK, NEW w \in Workers, BlockInHand(w), TileInHand(w), WorkerStep(w)
  PROVE  TypeOK'
<1> USE DEF TypeOK
<1>1. ASSUME NEW j \in jobs, Take(w, j) PROVE TypeOK'
  <2>1. job' \in [Workers -> JobSet]
    BY <1>1 DEF Take
  <2>2. lanes' \in [Workers -> [LaneSet -> Int]]
    BY <1>1 DEF Take, ZeroLanes, Zero
  <2> QED
    BY <1>1, <2>1, <2>2 DEF Take
<1>2. CASE StartBlock(w)
  <2>1. BlockStart(job[w][1]) \in Nat
    BY <1>2, InHand, BlockBounds DEF StartBlock
  <2> QED
    BY <1>2, <2>1 DEF StartBlock
<1>3. CASE FailBlock(w)
  <2>1. Error(BlockStart(job[w][1])) \in BlockResult
    BY <1>3, InHand, BlockBounds DEF FailBlock, Error, BlockResult
  <2> QED
    BY <1>3, <2>1, DeliverType DEF FailBlock
<1>4. CASE StartTile(w)
  <2>1. job[w][1] \in Blocks
    BY <1>4, InHand DEF StartTile, BlockInHand
  <2>2. TileEnd(w) \in Nat
    BY <2>1, BlockBounds, ExecutorAssumption DEF TileEnd, SaturatingSum, Lesser, TypeOK
  <2>3. lanes' \in [Workers -> [LaneSet -> Int]]
    BY <1>4 DEF StartTile, ZeroLanes, Zero
  <2>4. tile' \in [Workers -> Nat \X Nat]
    BY <1>4, <2>2 DEF StartTile
  <2> QED
    BY <1>4, <2>3, <2>4 DEF StartTile
<1>5. CASE Evaluate(w)
  <2>1. unit[w] \in Nat
    OBVIOUS
  <2>2. Value(unit[w], lanes[w][Lane(w)]) \in Int
    BY <2>1 DEF Value, Stale
  <2>3. added' \in [Workers -> Seq(Int)]
    BY <1>5, <2>2 DEF Evaluate
  <2>4. lanes' \in [Workers -> [LaneSet -> Int]]
    <3>1. Lane(w) \in LaneSet
      BY <1>5, LaneInside DEF Evaluate
    <3> QED
      BY <1>5, <2>1, <3>1 DEF Evaluate
  <2>5. unit' \in [Workers -> Nat]
    BY <1>5, <2>1 DEF Evaluate
  <2> QED
    BY <1>5, <2>3, <2>4, <2>5 DEF Evaluate
<1>6. CASE FailUnit(w)
  <2>1. job[w][1] < job[w][2] /\ Error(unit[w]) \in BlockResult
    BY <1>6 DEF FailUnit, BlockInHand, Error, BlockResult
  <2>2. PICK held \in {lanes[w][Lane(w)], unit[w]} :
           lanes' = [lanes EXCEPT ![w][Lane(w)] = held]
    BY <1>6 DEF FailUnit
  <2>3. Lane(w) \in LaneSet
    BY <1>6, LaneInside DEF FailUnit
  <2>4. held \in Int
    BY <2>2, <2>3
  <2>5. lanes' \in [Workers -> [LaneSet -> Int]]
    BY <2>2, <2>4
  <2> QED
    BY <1>6, <2>1, <2>5, DeliverType DEF FailUnit
<1>7. CASE FinishTile(w)
  BY <1>7 DEF FinishTile
<1>8. CASE FinishBlock(w)
  <2>1. job[w][1] < job[w][2] /\ Ok(added[w]) \in BlockResult
    BY <1>8 DEF FinishBlock, BlockInHand, Ok, BlockResult
  <2> QED
    BY <1>8, <2>1, DeliverType DEF FinishBlock
<1>9. CASE FinishJob(w)
  BY <1>9 DEF FinishJob
<1> QED
  BY <1>1, <1>2, <1>3, <1>4, <1>5, <1>6, <1>7, <1>8, <1>9 DEF WorkerStep

(* No step of the caller breaks the shape of the state.                    *)
LEMMA CallerType ==
  ASSUME TypeOK, CallerStep
  PROVE  TypeOK'
<1> USE DEF TypeOK, work
<1>1. CASE ReturnError
  <2>1. PICK b \in Blocks : FirstError(b) /\ outcome' = results[b]
    BY <1>1 DEF ReturnError
  <2>2. outcome' \in CallResult
    BY <2>1, ResultKinds DEF FirstError, CallResult
  <2> QED
    BY <1>1, <2>2 DEF ReturnError
<1>2. CASE Collect
  <2>1. ASSUME NEW b \in Blocks PROVE Partial(b) \in PartialSet
    <3>1. results[b] \in BlockResult /\ results[b].kind = "ok"
      BY <1>2 DEF Collect
    <3>2. results[b].values \in Seq(Int)
      BY <3>1, ResultKinds
    <3> QED
      BY <3>2 DEF Partial, PartialSet
  <2>2. \A i \in 1..BlockCount : i - 1 \in Blocks
    BY BlockCountType DEF Blocks
  <2>3. level' \in Seq(PartialSet)
    BY <1>2, <2>1, <2>2, BlockCountType DEF Collect
  <2> QED
    BY <1>2, <2>3 DEF Collect
<1>3. CASE MergeLevel
  <2> DEFINE half == (Len(level) + 1) \div 2
  <2>1. half \in Nat /\ \A i \in 1..half : 2 * i - 1 \in 1..Len(level)
    OBVIOUS
  <2>2. ASSUME NEW i \in 1..half
        PROVE  (IF 2 * i <= Len(level) THEN Merge(level[2 * i - 1], level[2 * i])
                ELSE level[2 * i - 1]) \in PartialSet
    <3>1. level[2 * i - 1] \in PartialSet
      BY <2>1
    <3>2. 2 * i <= Len(level) => level[2 * i] \in PartialSet
      OBVIOUS
    <3> QED
      BY <3>1, <3>2, MergeType
  <2>3. level' \in Seq(PartialSet)
    BY <1>3, <2>1, <2>2 DEF MergeLevel
  <2> QED
    BY <1>3, <2>3 DEF MergeLevel
<1>4. CASE ReturnTotal
  <2>1. outcome' \in CallResult
    <3>1. CASE Blocks # {}
      <4>1. level \in Seq(PartialSet) /\ 1 \in 1..Len(level)
        BY <1>4, <3>1 DEF ReturnTotal
      <4>2. level[1] \in PartialSet
        BY <4>1, Element
      <4> QED
        BY <1>4, <3>1, <4>2 DEF ReturnTotal, PartialSet, Total, CallResult
    <3>2. CASE Blocks = {}
      BY <1>4, <3>2 DEF ReturnTotal, Total, CallResult
    <3> QED
      BY <3>1, <3>2
  <2> QED
    BY <1>4, <2>1 DEF ReturnTotal
<1> QED
  BY <1>1, <1>2, <1>3, <1>4 DEF CallerStep

(* Splitting a job breaks no shape.                                        *)
LEMMA SplitType ==
  ASSUME TypeOK, NEW j \in jobs, Split(j)
  PROVE  TypeOK'
<1> DEFINE mid == j[1] + (j[2] - j[1]) \div 2
<1>1. j \in JobSet /\ BlockCount \in Nat
  BY BlockCountType DEF TypeOK
<1>2. j[1] \in 0..BlockCount /\ j[2] \in 0..BlockCount /\ j[1] < j[2]
  BY <1>1 DEF Split, JobSet
<1>3. <<j[1], mid>> \in JobSet /\ <<mid, j[2]>> \in JobSet
  BY <1>1, <1>2 DEF JobSet
<1>4. jobs' \subseteq JobSet
  BY <1>3 DEF Split, TypeOK
<1> QED
  BY <1>4 DEF Split, TypeOK, work
-----------------------------------------------------------------------------
(* The work in hand of the worker that moves, and of the others.           *)

(* A worker's step leaves the work in hand of the others alone.            *)
LEMMA OthersInHand ==
  ASSUME TypeOK, NEW w \in Workers, NEW v \in Workers, v # w, WorkerStep(w),
         BlockInHand(v), TileInHand(v)
  PROVE  BlockInHand(v)' /\ TileInHand(v)'
<1>1. /\ job'[v] = job[v] /\ unit'[v] = unit[v] /\ tile'[v] = tile[v]
      /\ added'[v] = added[v] /\ lanes'[v] = lanes[v] /\ step'[v] = step[v]
      /\ failing' = failing /\ allocates' = allocates
  BY DEF WorkerStep, Take, StartBlock, FailBlock, StartTile, Evaluate, FailUnit,
         FinishTile, FinishBlock, FinishJob, Deliver, TypeOK
<1> QED
  BY <1>1 DEF BlockInHand, TileInHand, FailsFrom, Lane

(* A worker's own step keeps its block and its tile on track.              *)
LEMMA OwnInHand ==
  ASSUME TypeOK, NEW w \in Workers, WorkerStep(w), BlockInHand(w), TileInHand(w)
  PROVE  BlockInHand(w)' /\ TileInHand(w)'
<1>1. ASSUME NEW j \in jobs, Take(w, j) PROVE BlockInHand(w)' /\ TileInHand(w)'
  BY <1>1 DEF Take, BlockInHand, TileInHand, TypeOK
<1>2. CASE StartBlock(w)
  <2> DEFINE b == job[w][1]
  <2>1. b \in Blocks
    BY <1>2, InHand DEF StartBlock
  <2>2. BlockStart(b) \in Nat /\ BlockStart(b) <= BlockEnd(b)
    BY <2>1, BlockBounds
  <2>3. /\ step'[w] = "tile" /\ job' = job /\ unit'[w] = BlockStart(b)
        /\ added'[w] = <<>> /\ failing' = failing /\ allocates' /\ b < job[w][2]
    BY <1>2 DEF StartBlock, TypeOK
  <2>4. UnitsFrom(BlockStart(b), BlockStart(b)) = <<>>
    BY <2>2, UnitsFromType
  <2>5. ~\E u \in failing : BlockStart(b) <= u /\ u < BlockStart(b)
    BY <2>2, ExecutorAssumption DEF TypeOK, UnitSet
  <2> QED
    BY <2>2, <2>3, <2>4, <2>5 DEF BlockInHand, TileInHand, FailsFrom
<1>3. CASE FailBlock(w)
  BY <1>3 DEF FailBlock, Deliver, BlockInHand, TileInHand, TypeOK
<1>4. CASE StartTile(w)
  <2> DEFINE b == job[w][1]
             end == TileEnd(w)
  <2>1. b \in Blocks /\ unit[w] \in Nat /\ unit[w] < BlockEnd(b)
    BY <1>4, InHand DEF StartTile, BlockInHand, TypeOK
  <2>2. BlockEnd(b) \in Nat
    BY <2>1, BlockBounds
  <2>3. unit[w] <= end /\ end <= BlockEnd(b) /\ end <= unit[w] + TileCapacity
    <3>1. end = Lesser(SaturatingSum(unit[w], TileCapacity), BlockEnd(b))
      BY DEF TileEnd
    <3>2. BlockEnd(b) <= MaxUnit
      BY <2>1, <2>2, BlockBounds, ExecutorAssumption
    <3> QED
      BY <2>1, <2>2, <3>1, <3>2, ExecutorAssumption DEF SaturatingSum, Lesser
  <2>4. /\ step[w] = "tile" /\ step'[w] = "evaluate" /\ job' = job /\ unit' = unit
        /\ added' = added /\ failing' = failing /\ allocates' = allocates
        /\ tile'[w] = <<unit[w], end>> /\ lanes'[w] = ZeroLanes
    BY <1>4 DEF StartTile, TypeOK
  <2>5. BlockInHand(w)'
    BY <2>4 DEF BlockInHand, FailsFrom
  <2>6. TileInHand(w)'
    BY <2>1, <2>3, <2>4 DEF TileInHand, Lane, ZeroLanes
  <2> QED
    BY <2>5, <2>6
<1>5. CASE Evaluate(w)
  <2> DEFINE b == job[w][1]
  <2>1. /\ step[w] = "evaluate" /\ step' = step /\ job' = job /\ tile' = tile
        /\ failing' = failing /\ allocates' = allocates /\ unit'[w] = unit[w] + 1
        /\ unit[w] < tile[w][2] /\ unit[w] \notin failing
    BY <1>5 DEF Evaluate, TypeOK
  <2>2. b \in Blocks
    BY <2>1, InHand DEF BlockInHand
  <2>3. BlockStart(b) \in Nat /\ BlockEnd(b) \in Nat /\ unit[w] \in Nat
        /\ tile[w][1] \in Nat /\ tile[w][2] \in Nat
    BY <2>2, BlockBounds DEF TypeOK
  <2>4. Lane(w) \in LaneSet
    BY <2>1, LaneInside
  <2>5. lanes[w][Lane(w)] = Zero
    BY <2>1, <2>4, ExecutorAssumption DEF TileInHand, LaneSet
  <2>6. added'[w] = Append(added[w], unit[w])
    BY <1>5, <2>5 DEF Evaluate, Value, TypeOK
  <2>7. added'[w] = UnitsFrom(BlockStart(b), unit[w] + 1)
    BY <2>1, <2>3, <2>6, UnitsFromType DEF BlockInHand
  <2>8. ~\E u \in failing : BlockStart(b) <= u /\ u < unit[w] + 1
    BY <2>1, <2>3, ExecutorAssumption DEF BlockInHand, FailsFrom, TypeOK, UnitSet
  <2>9. BlockInHand(w)'
    BY <2>1, <2>3, <2>7, <2>8 DEF BlockInHand, TileInHand, FailsFrom
  <2>10. ASSUME NEW l \in LaneSet, l >= Lane(w)' PROVE lanes'[w][l] = Zero
    <3>1. l > Lane(w)
      BY <2>1, <2>3, <2>10, ExecutorAssumption DEF Lane, LaneSet
    <3>2. lanes'[w][l] = lanes[w][l]
      BY <1>5, <2>3, <2>4, <3>1 DEF Evaluate, TypeOK, Lane
    <3> QED
      BY <2>1, <2>3, <3>1, <3>2, ExecutorAssumption DEF TileInHand, Lane, LaneSet
  <2>11. TileInHand(w)'
    BY <2>1, <2>3, <2>10 DEF TileInHand
  <2> QED
    BY <2>9, <2>11
<1>6. CASE FailUnit(w)
  BY <1>6 DEF FailUnit, Deliver, BlockInHand, TileInHand, TypeOK
<1>7. CASE FinishTile(w)
  BY <1>7 DEF FinishTile, BlockInHand, TileInHand, FailsFrom, TypeOK
<1>8. CASE FinishBlock(w)
  BY <1>8 DEF FinishBlock, Deliver, BlockInHand, TileInHand, TypeOK
<1>9. CASE FinishJob(w)
  BY <1>9 DEF FinishJob, BlockInHand, TileInHand, TypeOK
<1> QED
  BY <1>1, <1>2, <1>3, <1>4, <1>5, <1>6, <1>7, <1>8, <1>9 DEF WorkerStep
-----------------------------------------------------------------------------
(* The results of the blocks.                                              *)

(* The result that a worker delivers is sound for its block.               *)
LEMMA WorkerSound ==
  ASSUME TypeOK, NEW w \in Workers, BlockInHand(w), TileInHand(w), WorkerStep(w),
         BlocksIndependent
  PROVE  BlocksIndependent'
<1> DEFINE b == job[w][1]
<1>1. SUFFICES ASSUME NEW c \in Blocks PROVE Sound(c, results'[c])
  <2>1. failing' = failing /\ allocates' = allocates
    BY DEF WorkerStep, Take, StartBlock, FailBlock, StartTile, Evaluate, FailUnit,
           FinishTile, FinishBlock, FinishJob
  <2> QED
    BY <1>1, <2>1 DEF BlocksIndependent, Sound, FailsFrom
<1>2. Sound(c, results[c])
  BY DEF BlocksIndependent, Sound
<1>3. ASSUME NEW r, b \in Blocks, results' = [results EXCEPT ![b] = r], Sound(b, r)
      PROVE  Sound(c, results'[c])
  BY <1>2, <1>3 DEF TypeOK
<1>4. CASE FailBlock(w)
  <2>1. b \in Blocks
    BY <1>4, InHand DEF FailBlock
  <2>2. Sound(b, Error(BlockStart(b)))
    BY <1>4 DEF FailBlock, Sound, Error
  <2> QED
    BY <1>3, <1>4, <2>1, <2>2 DEF FailBlock, Deliver
<1>5. CASE FailUnit(w)
  <2>1. b \in Blocks /\ allocates
    BY <1>5, InHand DEF FailUnit, BlockInHand
  <2>2. BlockStart(b) \in Nat /\ BlockEnd(b) \in Nat /\ unit[w] \in Nat
        /\ tile[w][2] \in Nat
    BY <2>1, BlockBounds DEF TypeOK
  <2>3. BlockStart(b) <= unit[w] /\ unit[w] < BlockEnd(b)
    BY <1>5, <2>2 DEF FailUnit, BlockInHand, TileInHand
  <2>4. Sound(b, Error(unit[w]))
    BY <1>5, <2>1, <2>3 DEF FailUnit, Sound, Error, BlockInHand
  <2> QED
    BY <1>3, <1>5, <2>1, <2>4 DEF FailUnit, Deliver
<1>6. CASE FinishBlock(w)
  <2>1. b \in Blocks /\ allocates
    BY <1>6, InHand DEF FinishBlock, BlockInHand
  <2>2. Sound(b, Ok(added[w]))
    BY <1>6, <2>1 DEF FinishBlock, Sound, Ok, BlockInHand
  <2> QED
    BY <1>3, <1>6, <2>1, <2>2 DEF FinishBlock, Deliver
<1>7. CASE results' = results
  BY <1>2, <1>7
<1> QED
  BY <1>4, <1>5, <1>6, <1>7 DEF WorkerStep, Take, StartBlock, StartTile, Evaluate,
     FinishTile, FinishJob

(* The first error in block order is the lowest failure.                   *)
LEMMA FirstErrorLowest ==
  ASSUME TypeOK, BlocksIndependent, NEW b \in Blocks, FirstError(b)
  PROVE  IF allocates
           THEN results[b].unit \in failing /\ \A u \in failing : results[b].unit <= u
           ELSE results[b].unit = 0
<1>1. b \in Nat /\ \A c \in Blocks : c \in Nat
  BY BlockCountType
<1>2. CASE allocates
  <2>1. /\ results[b].unit \in failing
        /\ BlockStart(b) <= results[b].unit /\ results[b].unit < BlockEnd(b)
        /\ ~FailsFrom(BlockStart(b), results[b].unit)
    BY <1>2 DEF FirstError, BlocksIndependent, Sound
  <2>2. ASSUME NEW u \in failing, u < results[b].unit PROVE FALSE
    <3>1. PICK c \in Blocks : BlockStart(c) <= u /\ u < BlockEnd(c)
      BY BlockOfUnit DEF TypeOK
    <3>2. /\ u \in Nat /\ results[b].unit \in Nat /\ BlockStart(b) \in Nat
          /\ BlockEnd(c) \in Nat /\ BlockStart(c) \in Nat /\ BlockEnd(b) \in Nat
      <4>1. u \in 0..Units - 1 /\ results[b].unit \in 0..Units - 1
        BY <2>1 DEF TypeOK, UnitSet
      <4> QED
        BY <4>1, BlockBounds, ExecutorAssumption
    <3>3. u < BlockStart(b)
      BY <2>1, <2>2, <3>2 DEF FailsFrom
    <3>4. c # b
      BY <3>1, <3>2, <3>3
    <3>5. c <= b
      BY <2>1, <2>2, <3>1, <3>2, BlocksFollow
    <3>6. results[c].kind = "ok"
      BY <1>1, <3>4, <3>5 DEF FirstError
    <3> QED
      BY <3>1, <3>6 DEF BlocksIndependent, Sound, FailsFrom
  <2>3. \A u \in failing : u \in Nat
    BY ExecutorAssumption DEF TypeOK, UnitSet
  <2> QED
    BY <1>2, <2>1, <2>2, <2>3
<1>3. CASE ~allocates
  <2>1. ASSUME 0 < b PROVE FALSE
    <3>1. 0 \in Blocks
      BY <1>1, <2>1, BlockCountType DEF Blocks
    <3>2. results[0].kind = "ok"
      BY <2>1, <3>1 DEF FirstError
    <3> QED
      BY <1>3, <3>1, <3>2 DEF BlocksIndependent, Sound
  <2>2. b = 0
    BY <1>1, <2>1
  <2> QED
    BY <1>3, <2>2, ExecutorAssumption DEF FirstError, BlocksIndependent, Sound, BlockStart
<1> QED
  BY <1>2, <1>3
-----------------------------------------------------------------------------
(* The invariant of the executor.                                          *)

(* The inductive invariant holds initially.                                *)
LEMMA InitOnTrack == Init => OnTrack
<1> SUFFICES ASSUME Init PROVE OnTrack
  OBVIOUS
<1>1. TypeOK
  BY InitType
<1>2. \A w \in Workers : BlockInHand(w) /\ TileInHand(w)
  BY DEF Init, BlockInHand, TileInHand
<1>3. BlocksIndependent
  BY DEF Init, BlocksIndependent, Sound, Pending
<1>4. LowestFailureReported
  BY DEF Init, LowestFailureReported, Pending
<1> QED
  BY <1>1, <1>2, <1>3, <1>4 DEF OnTrack

(* Every step of the pool and of the caller preserves it.                  *)
LEMMA NextOnTrack == OnTrack /\ [Next]_vars => OnTrack'
<1> SUFFICES ASSUME OnTrack, [Next]_vars PROVE OnTrack'
  OBVIOUS
<1> USE DEF OnTrack
<1>1. ASSUME NEW w \in Workers, WorkerStep(w) PROVE OnTrack'
  <2>1. TypeOK'
    BY <1>1, WorkerType
  <2>2. \A v \in Workers : BlockInHand(v)' /\ TileInHand(v)'
    BY <1>1, OthersInHand, OwnInHand
  <2>3. BlocksIndependent'
    BY <1>1, WorkerSound
  <2>4. outcome' = outcome /\ failing' = failing /\ allocates' = allocates
    BY <1>1 DEF WorkerStep, Take, StartBlock, FailBlock, StartTile, Evaluate, FailUnit,
           FinishTile, FinishBlock, FinishJob
  <2>5. LowestFailureReported'
    BY <2>4 DEF LowestFailureReported
  <2> QED
    BY <2>1, <2>2, <2>3, <2>5
<1>2. ASSUME CallerStep \/ (\E j \in jobs : Split(j)) \/ UNCHANGED vars PROVE OnTrack'
  <2>1. TypeOK'
    BY <1>2, CallerType, SplitType DEF TypeOK, vars
  <2>2. /\ UNCHANGED <<failing, allocates, results>> /\ UNCHANGED work
    BY <1>2 DEF CallerStep, ReturnError, Collect, MergeLevel, ReturnTotal, Split, vars, work
  <2>3. \A v \in Workers : BlockInHand(v)' /\ TileInHand(v)'
    BY <2>2 DEF work, BlockInHand, TileInHand, FailsFrom, Lane
  <2>4. BlocksIndependent'
    BY <2>2 DEF BlocksIndependent, Sound, FailsFrom
  <2>5. LowestFailureReported'
    <3>1. CASE outcome' = outcome
      BY <2>2, <3>1 DEF LowestFailureReported
    <3>2. CASE ReturnError
      <4>1. PICK b \in Blocks : FirstError(b) /\ outcome' = results[b]
        BY <3>2 DEF ReturnError
      <4> QED
        BY <2>2, <4>1, FirstErrorLowest DEF LowestFailureReported
    <3>3. CASE ReturnTotal
      BY <3>3 DEF ReturnTotal, Total, LowestFailureReported
    <3> QED
      BY <1>2, <3>1, <3>2, <3>3 DEF CallerStep, Collect, MergeLevel, Split, vars
  <2> QED
    BY <2>1, <2>3, <2>4, <2>5
<1> QED
  BY <1>1, <1>2 DEF Next

(* The work in progress of every worker stays on track.                    *)
THEOREM StaysOnTrack == Spec => []OnTrack
  BY InitOnTrack, NextOnTrack, PTL DEF Spec

(* The shapes of the pool's work and of the caller's never go wrong.       *)
THEOREM TypeCorrect == Spec => []TypeOK
<1>1. OnTrack => TypeOK
  BY DEF OnTrack
<1> QED
  BY <1>1, StaysOnTrack, PTL

(* evaluate always gets a lane of its workspace that is zero, as are the   *)
(* lanes after it.                                                         *)
THEOREM LanesAreZeroed == Spec => []LanesZeroed
<1>1. OnTrack => LanesZeroed
  BY LaneInside DEF OnTrack, LanesZeroed, TileInHand
<1> QED
  BY <1>1, StaysOnTrack, PTL

(* The result of a block does not depend on which worker ran it, when, or  *)
(* after which other blocks.                                               *)
THEOREM BlocksAreIndependent == Spec => []BlocksIndependent
<1>1. OnTrack => BlocksIndependent
  BY DEF OnTrack
<1> QED
  BY <1>1, StaysOnTrack, PTL

(* A failed call always names the lowest failing unit.                     *)
THEOREM LowestFailureIsReported == Spec => []LowestFailureReported
<1>1. OnTrack => LowestFailureReported
  BY DEF OnTrack
<1> QED
  BY <1>1, StaysOnTrack, PTL
-----------------------------------------------------------------------------
(* The tree over the blocks.                                               *)

Size(h) == Ordered!RunSize[h]
Run(first, count) == Ordered!UnitsOfRun(first, count)

(* The two modules count the same blocks.                                  *)
LEMMA SameBlocks == Ordered!BlockCount = BlockCount /\ Ordered!Blocks = Blocks
  BY DEF Ordered!BlockCount, Ordered!Blocks, BlockCount, Blocks

(* The runs of each height are twice as long as those below.               *)
LEMMA SizeDoubles ==
  /\ Size(0) = 1
  /\ \A h \in 0..BlockCount : Size(h) \in Nat
  /\ \A h \in 1..BlockCount : Size(h) = 2 * Size(h - 1)
<1> DEFINE N == BlockCount
           Doubled(f) == [h \in 0..N |-> IF h = 0 THEN 1 ELSE 2 * f[h - 1]]
           twice == [k \in 1..N |-> [x \in Nat |-> 2 * x]]
<1>1. N \in Nat /\ 1 \in Nat /\ twice \in [1..N -> [Nat -> Nat]]
  BY BlockCountType
<1>2. Ordered!RunSize = CHOOSE f : f = Doubled(f)
  BY SameBlocks DEF Ordered!RunSize
<1>3. \A k \in 1..N : \A x \in Nat : twice[k][x] = 2 * x
  OBVIOUS
<1> HIDE DEF N, twice
<1>4. PICK f \in [0..N -> Nat] : f[0] = 1 /\ \A k \in 1..N : f[k] = twice[k][f[k - 1]]
  <2> DEFINE S == Nat
             base == 1
  <2>1. N \in Nat /\ base \in S /\ twice \in [1..N -> [S -> S]]
    BY <1>1
  <2> HIDE DEF S, base
  <2>2. \E f \in [0..N -> S] : f[0] = base /\ \A k \in 1..N : f[k] = twice[k][f[k - 1]]
    BY <2>1, RecursionHasSolution
  <2> QED
    BY <2>2 DEF S, base
<1>5. ASSUME NEW k \in 1..N PROVE k - 1 \in 0..N /\ f[k] = 2 * f[k - 1]
  <2>1. k - 1 \in 0..N
    BY <1>1
  <2>2. f[k - 1] \in Nat
    BY <1>4, <2>1
  <2> QED
    BY <1>3, <1>4, <2>1, <2>2
<1>6. f = Doubled(f)
  BY <1>1, <1>4, <1>5
<1>7. Ordered!RunSize = Doubled(Ordered!RunSize)
  BY <1>2, <1>6
<1>8. \A h \in 0..N : Ordered!RunSize[h] = IF h = 0 THEN 1 ELSE 2 * Ordered!RunSize[h - 1]
  BY <1>7
<1>9. Size(0) = 1 /\ \A h \in 1..N : Size(h) = 2 * Size(h - 1)
  BY <1>1, <1>8 DEF Size
<1> DEFINE T == {h \in Nat : h <= N => Size(h) \in Nat}
<1>10. 0 \in T
  BY <1>9
<1>11. ASSUME NEW h \in Nat, h \in T PROVE h + 1 \in T
  <2>1. SUFFICES ASSUME h + 1 <= N PROVE Size(h + 1) \in Nat
    OBVIOUS
  <2>2. h + 1 \in 1..N /\ Size(h) \in Nat /\ (h + 1) - 1 = h
    BY <1>1, <1>11, <2>1
  <2>3. Size(h + 1) = 2 * Size(h)
    BY <1>9, <2>2
  <2> QED
    BY <2>2, <2>3
<1> HIDE DEF T
<1>12. \A h \in Nat : h \in T
  BY <1>10, <1>11, Induction
<1> QED
  BY <1>1, <1>9, <1>12 DEF T, N

(* They hold more blocks than their height, and do not get shorter.        *)
LEMMA SizeGrows ==
  /\ \A h \in 0..BlockCount : h < Size(h)
  /\ \A g, h \in 0..BlockCount : g <= h => Size(g) <= Size(h)
<1> DEFINE N == BlockCount
           T == {h \in Nat : h <= N => h < Size(h) /\ \A g \in 0..h : Size(g) <= Size(h)}
<1>1. N \in Nat
  BY BlockCountType
<1>2. 0 \in T
  BY SizeDoubles
<1>3. ASSUME NEW h \in Nat, h \in T PROVE h + 1 \in T
  <2>1. SUFFICES ASSUME h + 1 <= N
                 PROVE  h + 1 < Size(h + 1) /\ \A g \in 0..h + 1 : Size(g) <= Size(h + 1)
    OBVIOUS
  <2>2. /\ h + 1 \in 1..N /\ (h + 1) - 1 = h /\ h \in 0..N
        /\ h < Size(h) /\ \A g \in 0..h : Size(g) <= Size(h) /\ g \in 0..N
    BY <1>1, <1>3, <2>1
  <2>3. Size(h + 1) = 2 * Size(h) /\ Size(h) \in Nat
    BY <2>2, SizeDoubles
  <2>4. h + 1 < Size(h + 1)
    BY <2>2, <2>3
  <2>5. ASSUME NEW g \in 0..h + 1 PROVE Size(g) <= Size(h + 1)
    <3>1. CASE g = h + 1
      BY <2>3, <3>1
    <3>2. CASE g \in 0..h
      <4>1. Size(g) \in Nat /\ Size(g) <= Size(h)
        BY <2>2, <3>2, SizeDoubles
      <4> QED
        BY <2>3, <4>1
    <3> QED
      BY <3>1, <3>2
  <2> QED
    BY <2>4, <2>5
<1> HIDE DEF T
<1>4. \A h \in Nat : h \in T
  BY <1>2, <1>3, Induction
<1> QED
  BY <1>1, <1>4 DEF T

(* A number is that of a block if the block would start before the end.    *)
LEMMA BlocksReachUnits ==
  ASSUME NEW b \in Nat
  PROVE  b * BlockSize \in Nat /\ (b \in Blocks <=> b * BlockSize < Units)
<1>1. b * BlockSize \in Nat /\ BlockCount \in Nat /\ Units \in Nat
  BY Products, BlockCountType, ExecutorAssumption
<1>2. ASSUME b \in Blocks PROVE b * BlockSize < Units
  BY <1>1, <1>2, BlockBounds DEF BlockStart
<1>3. ASSUME b * BlockSize < Units PROVE b \in Blocks
  <2>1. b * BlockSize \in UnitSet
    BY <1>1, <1>3 DEF UnitSet
  <2>2. PICK c \in Blocks : BlockStart(c) <= b * BlockSize /\ b * BlockSize < BlockEnd(c)
    BY <2>1, BlockOfUnit
  <2>3. c \in Nat /\ c < BlockCount /\ BlockStart(c) = c * BlockSize /\ c * BlockSize \in Nat
    BY <1>1, <2>2, Products, BlockBounds, ExecutorAssumption DEF Blocks, BlockStart
  <2>4. BlockEnd(c) <= c * BlockSize + BlockSize
    BY <1>1, <2>3, ExecutorAssumption DEF BlockEnd, SaturatingSum, Lesser
  <2>5. BlockEnd(c) \in Nat
    BY BlockBounds
  <2>6. ~(c < b)
    BY <1>1, <2>2, <2>3, <2>4, <2>5, Products, ExecutorAssumption
  <2> QED
    BY <1>1, <2>3, <2>6 DEF Blocks
<1> QED
  BY <1>1, <1>2, <1>3

(* What concatenation returns.                                             *)
LEMMA Joined ==
  ASSUME NEW S, NEW s \in Seq(S), NEW t \in Seq(S)
  PROVE  /\ s \o t \in Seq(S) /\ Len(s \o t) = Len(s) + Len(t)
         /\ \A i \in 1..Len(s) + Len(t) : (s \o t)[i] = IF i <= Len(s) THEN s[i] ELSE t[i - Len(s)]
OBVIOUS

(* Units counted on are units counted at once.                             *)
LEMMA UnitsJoin ==
  ASSUME NEW a \in Nat, NEW b \in Nat, NEW c \in Nat, a <= b, b <= c
  PROVE  UnitsFrom(a, b) \o UnitsFrom(b, c) = UnitsFrom(a, c)
<1> DEFINE x == UnitsFrom(a, b)
           y == UnitsFrom(b, c)
           z == UnitsFrom(a, c)
<1>1. /\ x \in Seq(Int) /\ Len(x) = b - a /\ \A i \in 1..b - a : x[i] = a + i - 1
      /\ y \in Seq(Int) /\ Len(y) = c - b /\ \A i \in 1..c - b : y[i] = b + i - 1
      /\ z \in Seq(Int) /\ Len(z) = c - a /\ \A i \in 1..c - a : z[i] = a + i - 1
  BY DEF UnitsFrom
<1> HIDE DEF x, y, z
<1>2. /\ x \o y \in Seq(Int) /\ Len(x \o y) = c - a
      /\ \A i \in 1..c - a : (x \o y)[i] = IF i <= b - a THEN x[i] ELSE y[i - (b - a)]
  <2>1. Len(x) = b - a /\ Len(x) + Len(y) = c - a
    BY <1>1
  <2>2. /\ x \o y \in Seq(Int) /\ Len(x \o y) = Len(x) + Len(y)
        /\ \A i \in 1..Len(x) + Len(y) : (x \o y)[i] = IF i <= Len(x) THEN x[i] ELSE y[i - Len(x)]
    BY <1>1, Joined
  <2> QED
    BY <2>1, <2>2
<1>3. ASSUME NEW i \in 1..c - a PROVE (x \o y)[i] = z[i]
  <2>1. CASE i <= b - a
    <3>1. x[i] = a + i - 1
      BY <1>1, <2>1
    <3>2. (x \o y)[i] = x[i] /\ z[i] = a + i - 1
      BY <1>1, <1>2, <2>1
    <3> QED
      BY <3>1, <3>2
  <2>2. CASE i > b - a
    <3>1. i - (b - a) \in 1..c - b
      BY <2>2
    <3>2. y[i - (b - a)] = b + (i - (b - a)) - 1 /\ z[i] = a + i - 1
      BY <1>1, <3>1
    <3>3. (x \o y)[i] = y[i - (b - a)]
      BY <1>2, <2>2
    <3> QED
      BY <3>2, <3>3
  <2>3. i <= b - a \/ i > b - a
    OBVIOUS
  <2> QED
    BY <2>1, <2>2, <2>3, Zenon
<1>4. x \o y = z
  BY <1>1, <1>2, <1>3, SameElements
<1> QED
  BY <1>4 DEF x, y, z

(* The units of a run: up to the run behind it, or to the last unit.       *)
LEMMA RunUnits ==
  ASSUME NEW f \in Nat, NEW s \in Nat
  PROVE  Run(f, s) = UnitsFrom(f * BlockSize, IF f + s \in Blocks THEN (f + s) * BlockSize ELSE Units)
<1>1. f + s \in Nat /\ (f + s) * BlockSize \in Nat /\ Units \in Nat
  BY BlocksReachUnits, ExecutorAssumption
<1>2. Run(f, s) = UnitsFrom(f * BlockSize, IF (f + s) * BlockSize <= Units THEN (f + s) * BlockSize ELSE Units)
  BY DEF Run, Ordered!UnitsOfRun, Ordered!UnitsFrom, UnitsFrom
<1>3. f + s \in Blocks <=> (f + s) * BlockSize < Units
  BY <1>1, BlocksReachUnits
<1> QED
  BY <1>1, <1>2, <1>3

(* A run is what its two halves hold, or its first half if the blocks end  *)
(* there.                                                                  *)
LEMMA RunOfHalves ==
  ASSUME NEW f \in Blocks, NEW s \in Nat \ {0}
  PROVE  /\ f + s \in Blocks => Run(f, s) \o Run(f + s, s) = Run(f, 2 * s)
         /\ f + s \notin Blocks => Run(f, s) = Run(f, 2 * s)
<1> DEFINE g == f + s
           e == f + 2 * s
           end == IF e \in Blocks THEN e * BlockSize ELSE Units
<1>1. f \in Nat /\ g \in Nat /\ e \in Nat /\ g + s = e /\ 2 * s \in Nat /\ Units \in Nat
  BY BlockCountType, ExecutorAssumption
<1>2. /\ f * BlockSize \in Nat /\ g * BlockSize \in Nat /\ e * BlockSize \in Nat
      /\ f * BlockSize <= g * BlockSize /\ g * BlockSize <= e * BlockSize
  <2>1. f < g /\ g < e
    BY <1>1
  <2> QED
    BY <1>1, <2>1, Products, ExecutorAssumption
<1>3. g \in Blocks <=> g * BlockSize < Units
  BY <1>1, BlocksReachUnits
<1>4. e \in Blocks <=> e * BlockSize < Units
  BY <1>1, BlocksReachUnits
<1>5. Run(f, 2 * s) = UnitsFrom(f * BlockSize, end)
  BY <1>1, RunUnits
<1>6. CASE g \in Blocks
  <2>1. Run(f, s) = UnitsFrom(f * BlockSize, g * BlockSize)
    BY <1>1, <1>6, RunUnits
  <2>2. Run(g, s) = UnitsFrom(g * BlockSize, end)
    BY <1>1, <1>6, RunUnits
  <2>3. end \in Nat /\ g * BlockSize <= end
    BY <1>1, <1>2, <1>3, <1>6
  <2>4. UnitsFrom(f * BlockSize, g * BlockSize) \o UnitsFrom(g * BlockSize, end)
          = UnitsFrom(f * BlockSize, end)
    BY <1>2, <2>3, UnitsJoin
  <2> QED
    BY <1>5, <1>6, <2>1, <2>2, <2>4
<1>7. CASE g \notin Blocks
  <2>1. e \notin Blocks
    BY <1>1, <1>2, <1>3, <1>4, <1>7
  <2>2. Run(f, s) = UnitsFrom(f * BlockSize, Units)
    BY <1>1, <1>7, RunUnits
  <2> QED
    BY <1>5, <1>7, <2>1, <2>2
<1> QED
  BY <1>6, <1>7
-----------------------------------------------------------------------------
(* The partials at height h of the tree: the k-th holds the k-th run, and  *)
(* the groups of the runs that it was merged from.                         *)
First(h, k) == k * Size(h)
RunsIn(h, k) ==
  {r \in Ordered!AlignedRuns : /\ r[1] <= h
                              /\ First(h, k) <= First(r[1], r[2])
                              /\ First(r[1], r[2]) < First(h, k) + Size(h)}
Node(h, k) ==
  [values |-> Run(First(h, k), Size(h)), merged |-> {Ordered!Group(r) : r \in RunsIn(h, k)}]

IsLevel(lv, h) ==
  /\ Len(lv) * Size(h) < BlockCount + Size(h) /\ BlockCount <= Len(lv) * Size(h)
  /\ \A i \in 1..Len(lv) : lv[i] = Node(h, i - 1)

(* What AlignedRuns says in the terms above.                               *)
LEMMA Aligned ==
  ASSUME NEW r
  PROVE  r \in Ordered!AlignedRuns <=> /\ r \in (1..BlockCount) \X Blocks
                                      /\ First(r[1], r[2]) + Size(r[1] - 1) \in Blocks
  BY SameBlocks DEF Ordered!AlignedRuns, First, Size

LEMMA GroupIsRun == \A r : Ordered!Group(r) = Run(First(r[1], r[2]), Size(r[1]))
  BY DEF Ordered!Group, Run, First, Size

(* A node's first block, and those of the nodes it will be merged into.    *)
LEMMA Firsts ==
  ASSUME NEW h \in 0..BlockCount, NEW k \in Nat
  PROVE  /\ First(h, k) \in Nat /\ Size(h) \in Nat \ {0} /\ k <= First(h, k)
         /\ First(h, k + 1) = First(h, k) + Size(h)
         /\ \A j \in Nat : j < k => First(h, j) + Size(h) <= First(h, k)
         /\ h < BlockCount => /\ h + 1 \in 1..BlockCount /\ Size(h + 1) = 2 * Size(h)
                              /\ First(h + 1, k) = First(h, 2 * k)
                              /\ First(h, 2 * k + 1) = First(h, 2 * k) + Size(h)
<1>1. Size(h) \in Nat \ {0} /\ BlockCount \in Nat
  BY SizeDoubles, SizeGrows, BlockCountType
<1> DEFINE s == Size(h)
<1> HIDE DEF s
<1>2. /\ k * s \in Nat /\ k <= k * s /\ (k + 1) * s = k * s + s
      /\ (2 * k + 1) * s = (2 * k) * s + s /\ k * (2 * s) = (2 * k) * s
  BY <1>1 DEF s
<1>3. \A j \in Nat : j < k => j * s + s <= k * s
  BY <1>1, Products DEF s
<1>4. h < BlockCount => h + 1 \in 1..BlockCount /\ Size(h + 1) = 2 * s
  BY <1>1, SizeDoubles DEF s
<1> QED
  BY <1>1, <1>2, <1>3, <1>4 DEF First, s

(* Where the runs start that AlignedRuns has.                              *)
LEMMA AlignedStarts ==
  ASSUME NEW r \in Ordered!AlignedRuns
  PROVE  /\ r = <<r[1], r[2]>> /\ r[1] \in 1..BlockCount /\ r[2] \in Blocks /\ r[2] \in Nat
         /\ First(r[1], r[2]) \in Nat /\ First(r[1], r[2]) \in Blocks
         /\ Size(r[1] - 1) \in Nat \ {0} /\ First(r[1], r[2]) + Size(r[1] - 1) \in Blocks
<1>1. /\ r \in (1..BlockCount) \X Blocks /\ First(r[1], r[2]) + Size(r[1] - 1) \in Blocks
  BY Aligned
<1>2. r = <<r[1], r[2]>> /\ r[1] \in 1..BlockCount /\ r[2] \in Blocks
  BY <1>1
<1>3. BlockCount \in Nat /\ r[2] \in Nat /\ r[1] \in 0..BlockCount /\ r[1] - 1 \in 0..BlockCount
  BY <1>2, BlockCountType
<1>4. First(r[1], r[2]) \in Nat /\ Size(r[1] - 1) \in Nat \ {0}
  BY <1>3, Firsts
<1>5. First(r[1], r[2]) \in Blocks
  BY <1>1, <1>3, <1>4 DEF Blocks
<1> QED
  BY <1>1, <1>2, <1>3, <1>4, <1>5

(* A run of the height of a node that starts in the node is the node's.    *)
LEMMA OnlyRun ==
  ASSUME NEW h \in 0..BlockCount, NEW k \in Nat, NEW j \in Nat,
         First(h, k) <= First(h, j), First(h, j) < First(h, k) + Size(h)
  PROVE  j = k
<1>1. /\ First(h, k) \in Nat /\ First(h, j) \in Nat /\ Size(h) \in Nat \ {0}
      /\ j < k => First(h, j) + Size(h) <= First(h, k)
      /\ k < j => First(h, k) + Size(h) <= First(h, j)
  BY Firsts
<1> QED
  BY <1>1

(* The runs of a node are those of its two halves and its own, if the      *)
(* second half has blocks, and those of its first half otherwise.          *)
LEMMA RunsOfHalves ==
  ASSUME NEW h \in Nat, h < BlockCount, NEW k \in Nat, First(h, 2 * k) \in Blocks
  PROVE  /\ First(h, 2 * k + 1) \in Blocks =>
              RunsIn(h + 1, k) = RunsIn(h, 2 * k) \union RunsIn(h, 2 * k + 1) \union {<<h + 1, k>>}
         /\ First(h, 2 * k + 1) \notin Blocks => RunsIn(h + 1, k) = RunsIn(h, 2 * k)
<1> DEFINE f == First(h, 2 * k)
           g == First(h, 2 * k + 1)
           s == Size(h)
           own == <<h + 1, k>>
<1>1. BlockCount \in Nat /\ h \in 0..BlockCount /\ h + 1 \in 0..BlockCount
  BY BlockCountType
<1>2. /\ f \in Nat /\ s \in Nat \ {0} /\ g = f + s /\ h + 1 \in 1..BlockCount
      /\ Size(h + 1) = 2 * s /\ First(h + 1, k) = f /\ k <= f
  <2>1. 2 * k \in Nat /\ First(h + 1, k) = f /\ g = f + s /\ Size(h + 1) = 2 * s
        /\ h + 1 \in 1..BlockCount
    BY <1>1, Firsts
  <2>2. f \in Nat /\ s \in Nat \ {0} /\ k <= First(h + 1, k)
    BY <1>1, <2>1, Firsts
  <2> QED
    BY <2>1, <2>2
<1>3. ASSUME NEW r \in Ordered!AlignedRuns
      PROVE  /\ r \in RunsIn(h, 2 * k) <=>
                  r[1] <= h /\ f <= First(r[1], r[2]) /\ First(r[1], r[2]) < f + s
             /\ r \in RunsIn(h, 2 * k + 1) <=>
                  r[1] <= h /\ f + s <= First(r[1], r[2]) /\ First(r[1], r[2]) < f + s + s
             /\ r \in RunsIn(h + 1, k) <=>
                  r[1] <= h + 1 /\ f <= First(r[1], r[2]) /\ First(r[1], r[2]) < f + s + s
             /\ r[1] = h + 1 /\ r \in RunsIn(h + 1, k) => r = own
  <2>1. r \in RunsIn(h + 1, k) <=>
          r[1] <= h + 1 /\ f <= First(r[1], r[2]) /\ First(r[1], r[2]) < f + 2 * s
    BY <1>2 DEF RunsIn
  <2>2. r = <<r[1], r[2]>> /\ r[2] \in Nat /\ First(r[1], r[2]) \in Nat
    BY AlignedStarts
  <2>3. ASSUME r[1] = h + 1, r \in RunsIn(h + 1, k) PROVE r = own
    <3>1. r[2] = k
      BY <1>1, <1>2, <2>1, <2>2, <2>3, OnlyRun
    <3> QED
      BY <2>2, <2>3, <3>1
  <2>4. 2 * s = s + s
    BY <1>2
  <2> QED
    BY <1>2, <2>1, <2>2, <2>3, <2>4 DEF RunsIn
<1>4. own \in Ordered!AlignedRuns <=> g \in Blocks
  <2>1. k \in Blocks
    BY <1>1, <1>2 DEF Blocks
  <2>2. own[1] = h + 1 /\ own[2] = k /\ (h + 1) - 1 = h /\ own \in (1..BlockCount) \X Blocks
    BY <1>2, <2>1
  <2> QED
    BY <1>2, <2>2, Aligned
<1>5. ASSUME g \in Blocks
      PROVE  RunsIn(h + 1, k) = RunsIn(h, 2 * k) \union RunsIn(h, 2 * k + 1) \union {own}
  <2>1. own \in RunsIn(h + 1, k)
    <3>1. own[1] = h + 1 /\ own[2] = k
      OBVIOUS
    <3> QED
      BY <1>1, <1>2, <1>4, <1>5, <3>1 DEF RunsIn
  <2>2. ASSUME NEW r \in Ordered!AlignedRuns, r # own
        PROVE  r \in RunsIn(h + 1, k) <=> r \in RunsIn(h, 2 * k) \union RunsIn(h, 2 * k + 1)
    <3>1. r[1] \in Int /\ First(r[1], r[2]) \in Int
      BY AlignedStarts
    <3> QED
      BY <1>2, <1>3, <2>2, <3>1
  <2>3. \A j, i : RunsIn(j, i) \subseteq Ordered!AlignedRuns
    BY DEF RunsIn
  <2> QED
    BY <2>1, <2>2, <2>3
<1>6. ASSUME g \notin Blocks PROVE RunsIn(h + 1, k) = RunsIn(h, 2 * k)
  <2>1. ASSUME NEW r \in Ordered!AlignedRuns
        PROVE  r \in RunsIn(h + 1, k) <=> r \in RunsIn(h, 2 * k)
    <3>1. r[1] \in Int /\ First(r[1], r[2]) \in Nat /\ First(r[1], r[2]) \in Blocks
      BY AlignedStarts
    <3>2. r # own
      BY <1>4, <1>6
    <3>3. First(r[1], r[2]) < f + s
      BY <1>1, <1>2, <1>6, <3>1 DEF Blocks
    <3> QED
      BY <1>2, <1>3, <3>1, <3>2, <3>3
  <2> QED
    BY <2>1 DEF RunsIn
<1> QED
  BY <1>5, <1>6

(* Merging two nodes gives the node above; one that has no neighbour is    *)
(* the node above.                                                         *)
LEMMA NodeOfHalves ==
  ASSUME NEW h \in Nat, h < BlockCount, NEW k \in Nat, First(h, 2 * k) \in Blocks
  PROVE  /\ First(h, 2 * k + 1) \in Blocks =>
              Merge(Node(h, 2 * k), Node(h, 2 * k + 1)) = Node(h + 1, k)
         /\ First(h, 2 * k + 1) \notin Blocks => Node(h, 2 * k) = Node(h + 1, k)
<1> DEFINE f == First(h, 2 * k)
           g == First(h, 2 * k + 1)
           s == Size(h)
           Groups(R) == {Ordered!Group(r) : r \in R}
<1>1. h \in 0..BlockCount /\ 2 * k \in Nat
  BY BlockCountType
<1>2. /\ g = f + s /\ First(h + 1, k) = f /\ Size(h + 1) = 2 * s /\ s \in Nat \ {0}
  BY <1>1, Firsts
<1>3. Node(h + 1, k) = [values |-> Run(f, 2 * s), merged |-> Groups(RunsIn(h + 1, k))]
  BY <1>2 DEF Node
<1>4. CASE g \in Blocks
  <2>1. Run(f, s) \o Run(g, s) = Run(f, 2 * s)
    BY <1>2, <1>4, RunOfHalves
  <2>2. /\ Node(h, 2 * k) = [values |-> Run(f, s), merged |-> Groups(RunsIn(h, 2 * k))]
        /\ Node(h, 2 * k + 1) = [values |-> Run(g, s), merged |-> Groups(RunsIn(h, 2 * k + 1))]
    BY DEF Node
  <2>3. Merge(Node(h, 2 * k), Node(h, 2 * k + 1))
          = [values |-> Run(f, 2 * s),
             merged |-> Groups(RunsIn(h, 2 * k)) \union Groups(RunsIn(h, 2 * k + 1))
                          \union {Run(f, 2 * s)}]
    <3> DEFINE left == Node(h, 2 * k)
               right == Node(h, 2 * k + 1)
    <3>1. /\ left.values = Run(f, s) /\ left.merged = Groups(RunsIn(h, 2 * k))
          /\ right.values = Run(g, s) /\ right.merged = Groups(RunsIn(h, 2 * k + 1))
      BY <2>2
    <3> HIDE DEF left, right, Groups, f, g, s
    <3>2. Merge(left, right)
            = [values |-> left.values \o right.values,
               merged |-> left.merged \union right.merged \union {left.values \o right.values}]
      BY DEF Merge
    <3>3. left.values \o right.values = Run(f, 2 * s)
      BY <2>1, <3>1
    <3>4. Merge(left, right)
            = [values |-> Run(f, 2 * s),
               merged |-> Groups(RunsIn(h, 2 * k)) \union Groups(RunsIn(h, 2 * k + 1))
                            \union {Run(f, 2 * s)}]
      BY <3>1, <3>2, <3>3
    <3> QED
      BY <3>4 DEF left, right
  <2>4. Ordered!Group(<<h + 1, k>>) = Run(f, 2 * s)
    BY <1>2, GroupIsRun
  <2>5. RunsIn(h + 1, k) = RunsIn(h, 2 * k) \union RunsIn(h, 2 * k + 1) \union {<<h + 1, k>>}
    BY <1>4, RunsOfHalves
  <2>6. Groups(RunsIn(h + 1, k))
          = Groups(RunsIn(h, 2 * k)) \union Groups(RunsIn(h, 2 * k + 1)) \union {Run(f, 2 * s)}
    BY <2>4, <2>5
  <2> QED
    BY <1>3, <1>4, <2>3, <2>6
<1>5. CASE g \notin Blocks
  <2>1. Run(f, s) = Run(f, 2 * s)
    BY <1>2, <1>5, RunOfHalves
  <2>2. RunsIn(h + 1, k) = RunsIn(h, 2 * k)
    BY <1>5, RunsOfHalves
  <2> QED
    BY <1>3, <1>5, <2>1, <2>2 DEF Node
<1> QED
  BY <1>4, <1>5
-----------------------------------------------------------------------------
(* The reduction.                                                          *)

(* What is being merged are the nodes of one height, over blocks none of   *)
(* which failed.                                                           *)
LevelIsTree ==
  level # <<>> => /\ Units > 0 /\ failing = {} /\ allocates
                  /\ \E h \in 0..BlockCount : IsLevel(level, h)

(* Collecting starts with the leaves.                                      *)
LEMMA CollectsLeaves ==
  ASSUME OnTrack, Collect
  PROVE  LevelIsTree'
<1>1. /\ BlockCount \in Nat \ {0} /\ 0 \in 0..BlockCount
      /\ \A i \in 1..BlockCount : i - 1 \in Blocks /\ i - 1 \in Nat
  BY BlockCountType DEF Collect, Blocks
<1>2. ASSUME NEW b \in Blocks
      PROVE  allocates /\ ~FailsFrom(BlockStart(b), BlockEnd(b))
             /\ results[b].values = UnitsFrom(BlockStart(b), BlockEnd(b))
  BY DEF Collect, OnTrack, BlocksIndependent, Sound
<1>3. failing = {} /\ allocates /\ Units > 0
  <2>1. ASSUME NEW u \in failing PROVE FALSE
    <3>1. u \in UnitSet
      BY DEF OnTrack, TypeOK
    <3>2. PICK b \in Blocks : BlockStart(b) <= u /\ u < BlockEnd(b)
      BY <3>1, BlockOfUnit
    <3> QED
      BY <1>2, <3>2 DEF FailsFrom
  <2>2. PICK b \in Blocks : TRUE
    BY <1>1 DEF Blocks
  <2>3. BlockStart(b) \in Nat /\ BlockEnd(b) \in Nat /\ BlockStart(b) < BlockEnd(b) /\ BlockEnd(b) <= Units
    BY BlockBounds
  <2> QED
    BY <1>2, <2>1, <2>2, <2>3, ExecutorAssumption
<1>4. level' = [i \in 1..BlockCount |-> Partial(i - 1)]
  BY DEF Collect
<1>5. Len(level') = BlockCount
  BY <1>1, <1>4
<1>6. ASSUME NEW i \in 1..BlockCount PROVE level'[i] = Node(0, i - 1)
  <2> DEFINE b == i - 1
  <2>1. b \in Blocks /\ b \in Nat
    BY <1>1
  <2>2. Size(0) = 1 /\ First(0, b) = b
    BY <2>1, SizeDoubles DEF First
  <2>3. RunsIn(0, b) = {}
    <3>1. ASSUME NEW r \in Ordered!AlignedRuns, r[1] <= 0 PROVE FALSE
      BY <1>1, <3>1, AlignedStarts
    <3> QED
      BY <3>1 DEF RunsIn
  <2>4. Run(b, 1) = UnitsFrom(BlockStart(b), BlockEnd(b))
    <3>1. BlockEnd(b) = IF b + 1 \in Blocks THEN (b + 1) * BlockSize ELSE Units
      <4>1. /\ b * BlockSize \in Nat /\ (b + 1) * BlockSize = b * BlockSize + BlockSize
            /\ b + 1 \in Blocks <=> (b + 1) * BlockSize < Units
        BY <2>1, BlocksReachUnits, ExecutorAssumption
      <4>2. BlockEnd(b) = IF b * BlockSize + BlockSize < Units THEN b * BlockSize + BlockSize ELSE Units
        BY <4>1, ExecutorAssumption DEF BlockEnd, BlockStart, SaturatingSum, Lesser
      <4> QED
        BY <4>1, <4>2
    <3> QED
      BY <2>1, <3>1, RunUnits DEF BlockStart
  <2>5. Partial(b) = [values |-> Run(b, 1), merged |-> {}]
    BY <1>2, <2>1, <2>4 DEF Partial
  <2>6. {Ordered!Group(r) : r \in RunsIn(0, b)} = {}
    BY <2>3
  <2> QED
    BY <1>4, <2>2, <2>5, <2>6 DEF Node
<1>7. IsLevel(level', 0)
  <2>1. Size(0) = 1
    BY SizeDoubles
  <2> QED
    BY <1>1, <1>5, <1>6, <2>1 DEF IsLevel
<1>8. UNCHANGED <<failing, allocates>>
  BY DEF Collect
<1> QED
  BY <1>1, <1>3, <1>7, <1>8 DEF LevelIsTree

(* The nodes of a height are those that begin with a block.                *)
LEMMA LevelNodes ==
  ASSUME TypeOK, NEW h \in 0..BlockCount, IsLevel(level, h)
  PROVE  /\ Len(level) \in Nat
         /\ \A k \in Nat : First(h, k) \in Blocks <=> k < Len(level)
<1>1. Len(level) \in Nat /\ BlockCount \in Nat
  BY BlockCountType DEF TypeOK
<1> DEFINE n == Len(level)
<1>2. First(h, n) = n * Size(h) /\ First(h, n) \in Nat /\ Size(h) \in Nat \ {0}
  BY <1>1, Firsts DEF First
<1>3. First(h, n) < BlockCount + Size(h) /\ BlockCount <= First(h, n)
  BY <1>2 DEF IsLevel
<1>4. ASSUME NEW k \in Nat PROVE First(h, k) \in Blocks <=> k < n
  <2>1. First(h, k) \in Nat
    BY Firsts
  <2>2. k < n => First(h, k) + Size(h) <= First(h, n)
    BY <1>1, Firsts
  <2>3. n < k => First(h, n) + Size(h) <= First(h, k)
    BY <1>1, Firsts
  <2> QED
    BY <1>1, <1>2, <1>3, <2>1, <2>2, <2>3 DEF Blocks
<1> QED
  BY <1>1, <1>4

(* One pass over adjacent pairs goes up by one height.                     *)
LEMMA MergesUpwards ==
  ASSUME OnTrack, LevelIsTree, MergeLevel
  PROVE  LevelIsTree'
<1> DEFINE n == Len(level)
           half == (n + 1) \div 2
<1>1. /\ level \in Seq(PartialSet) /\ n \in Nat /\ n > 1 /\ half \in Nat
      /\ half > 0 /\ (n = 2 * half \/ n + 1 = 2 * half)
  <2>1. level \in Seq(PartialSet) /\ n > 1
    BY DEF OnTrack, TypeOK, MergeLevel
  <2>2. n \in Nat
    BY <2>1
  <2> HIDE DEF n
  <2>3. half \in Nat /\ half > 0 /\ (n = 2 * half \/ n + 1 = 2 * half)
    BY <2>1, <2>2
  <2> QED
    BY <2>1, <2>2, <2>3
<1>2. Units > 0 /\ failing = {} /\ allocates
  BY <1>1 DEF LevelIsTree
<1>3. PICK h \in 0..BlockCount : IsLevel(level, h)
  BY <1>1 DEF LevelIsTree
<1>4. TypeOK /\ BlockCount \in Nat /\ h \in Nat
  BY BlockCountType DEF OnTrack
<1>5. \A k \in Nat : First(h, k) \in Blocks <=> k < n
  BY <1>3, <1>4, LevelNodes
<1>6. h < BlockCount
  <2>1. First(h, 1) \in Blocks /\ First(h, 1) = Size(h)
    BY <1>1, <1>5, SizeDoubles DEF First
  <2>2. h < Size(h) /\ Size(h) \in Nat
    BY SizeGrows, SizeDoubles
  <2> QED
    BY <1>4, <2>1, <2>2 DEF Blocks
<1>7. level' = [i \in 1..half |-> IF 2 * i <= n THEN Merge(level[2 * i - 1], level[2 * i])
                                 ELSE level[2 * i - 1]]
  BY DEF MergeLevel
<1> HIDE DEF half
<1>8. Len(level') = half /\ level' # <<>>
  BY <1>1, <1>7
<1>9. ASSUME NEW i \in 1..half PROVE level'[i] = Node(h + 1, i - 1)
  <2> DEFINE k == i - 1
  <2>1. k \in Nat /\ 2 * k \in Nat /\ 2 * k < n /\ 2 * i - 1 = 2 * k + 1 /\ 2 * i = 2 * k + 2
    BY <1>1
  <2>2. level[2 * i - 1] = Node(h, 2 * k)
    <3>1. 2 * i - 1 \in 1..n /\ (2 * i - 1) - 1 = 2 * k
      BY <1>1, <2>1
    <3> QED
      BY <1>3, <3>1 DEF IsLevel
  <2>3. First(h, 2 * k) \in Blocks /\ (First(h, 2 * k + 1) \in Blocks <=> 2 * i <= n)
    BY <1>1, <1>5, <2>1
  <2>4. CASE 2 * i <= n
    <3>1. 2 * i \in 1..n /\ 2 * i - 1 = 2 * k + 1
      BY <1>1, <2>1, <2>4
    <3>2. level[2 * i] = Node(h, 2 * k + 1)
      BY <1>3, <3>1 DEF IsLevel
    <3>3. Merge(Node(h, 2 * k), Node(h, 2 * k + 1)) = Node(h + 1, k)
      BY <1>4, <1>6, <2>1, <2>3, <2>4, NodeOfHalves
    <3> QED
      BY <1>7, <2>2, <2>4, <3>2, <3>3
  <2>5. CASE ~(2 * i <= n)
    <3>1. Node(h, 2 * k) = Node(h + 1, k)
      BY <1>4, <1>6, <2>1, <2>3, <2>5, NodeOfHalves
    <3> QED
      BY <1>7, <2>2, <2>5, <3>1
  <2> QED
    BY <2>4, <2>5
<1>10. half * Size(h + 1) < BlockCount + Size(h + 1) /\ BlockCount <= half * Size(h + 1)
  <2> DEFINE last == half - 1
  <2>1. last \in Nat /\ 2 * last \in Nat /\ 2 * last < n /\ 2 * half \in Nat /\ n <= 2 * half
        /\ last + 1 = half
    BY <1>1
  <2>2. /\ First(h + 1, half) = First(h, 2 * half) /\ First(h + 1, last) = First(h, 2 * last)
        /\ h + 1 \in 0..BlockCount
    <3>1. h + 1 \in 0..BlockCount /\ half \in Nat
      BY <1>1, <1>4, <1>6
    <3>2. First(h + 1, half) = First(h, 2 * half)
      BY <1>6, <3>1, Firsts
    <3>3. First(h + 1, last) = First(h, 2 * last)
      BY <1>6, <2>1, Firsts
    <3> QED
      BY <3>1, <3>2, <3>3
  <2>3. /\ First(h + 1, half) = First(h + 1, last) + Size(h + 1)
        /\ First(h + 1, half) \in Nat /\ First(h + 1, last) \in Nat /\ Size(h + 1) \in Nat
    BY <1>1, <2>1, <2>2, Firsts
  <2>4. First(h, 2 * last) \in Blocks /\ First(h, 2 * half) \notin Blocks
    BY <1>1, <1>5, <2>1
  <2>5. First(h + 1, last) < BlockCount /\ BlockCount <= First(h + 1, half)
    BY <1>4, <2>2, <2>3, <2>4 DEF Blocks
  <2>6. First(h + 1, half) = half * Size(h + 1)
    BY DEF First
  <2> QED
    BY <1>4, <2>3, <2>5, <2>6
<1>11. IsLevel(level', h + 1) /\ h + 1 \in 0..BlockCount
  BY <1>4, <1>6, <1>8, <1>9, <1>10 DEF IsLevel
<1>12. UNCHANGED <<failing, allocates>>
  BY DEF MergeLevel
<1> QED
  BY <1>2, <1>11, <1>12 DEF LevelIsTree

(* The root of the tree is what the ordered reduction promises.            *)
LEMMA RootIsTotal ==
  ASSUME OnTrack, LevelIsTree, Len(level) = 1
  PROVE  Total(level[1].values, level[1].merged) = Ordered!FixedTotal
<1>1. PICK h \in 0..BlockCount : IsLevel(level, h)
  <2>1. level # <<>>
    OBVIOUS
  <2> QED
    BY <2>1 DEF LevelIsTree
<1>2. TypeOK /\ BlockCount \in Nat /\ Size(h) \in Nat
  BY BlockCountType, SizeDoubles DEF OnTrack
<1>3. BlockCount <= Size(h) /\ level[1] = Node(h, 0)
  BY <1>1, <1>2 DEF IsLevel
<1>4. First(h, 0) = 0
  BY <1>2 DEF First
<1>5. 0 \in Blocks
  BY <1>1, <1>2, <1>4, LevelNodes
<1>6. Run(0, Size(h)) = UnitsFrom(0, Units)
  <2>1. 0 + Size(h) \notin Blocks /\ 0 * BlockSize = 0
    BY <1>2, <1>3, ExecutorAssumption DEF Blocks
  <2> QED
    BY <1>2, <2>1, RunUnits
<1>7. RunsIn(h, 0) = Ordered!AlignedRuns
  <2>1. ASSUME NEW r \in Ordered!AlignedRuns PROVE r \in RunsIn(h, 0)
    <3>1. /\ r[1] \in 1..BlockCount /\ First(r[1], r[2]) \in Nat /\ First(r[1], r[2]) \in Blocks
          /\ Size(r[1] - 1) \in Nat /\ First(r[1], r[2]) + Size(r[1] - 1) \in Blocks
      BY AlignedStarts
    <3>2. First(r[1], r[2]) < Size(h) /\ Size(r[1] - 1) < Size(h)
      BY <1>2, <1>3, <3>1 DEF Blocks
    <3>3. r[1] <= h
      <4>1. SUFFICES ASSUME h <= r[1] - 1 PROVE FALSE
        BY <1>2, <3>1
      <4>2. r[1] - 1 \in 0..BlockCount
        BY <1>2, <3>1
      <4>3. Size(h) <= Size(r[1] - 1)
        BY <4>1, <4>2, SizeGrows
      <4> QED
        BY <1>2, <3>1, <3>2, <4>3
    <3> QED
      BY <1>2, <1>4, <3>1, <3>2, <3>3 DEF RunsIn
  <2> QED
    BY <2>1 DEF RunsIn
<1>8. Ordered!UnitsFrom(0, Units) = UnitsFrom(0, Units)
  BY DEF Ordered!UnitsFrom, UnitsFrom
<1>9. level[1].values = UnitsFrom(0, Units)
      /\ level[1].merged = {Ordered!Group(r) : r \in Ordered!AlignedRuns}
  BY <1>3, <1>4, <1>6, <1>7 DEF Node
<1> QED
  BY <1>8, <1>9 DEF Total, Ordered!FixedTotal

(* Every step keeps what is being merged a level of the tree.              *)
LEMMA NextIsTree == OnTrack /\ LevelIsTree /\ [Next]_vars => LevelIsTree'
<1> SUFFICES ASSUME OnTrack, LevelIsTree, [Next]_vars PROVE LevelIsTree'
  OBVIOUS
<1>1. CASE UNCHANGED <<failing, allocates, level>>
  BY <1>1 DEF LevelIsTree
<1>2. ASSUME NEW w \in Workers, WorkerStep(w) PROVE UNCHANGED <<failing, allocates, level>>
  BY <1>2 DEF WorkerStep, Take, StartBlock, FailBlock, StartTile, Evaluate, FailUnit,
         FinishTile, FinishBlock, FinishJob
<1>3. ASSUME (\E j \in jobs : Split(j)) \/ ReturnError \/ ReturnTotal \/ UNCHANGED vars
      PROVE  UNCHANGED <<failing, allocates, level>>
  BY <1>3 DEF Split, ReturnError, ReturnTotal, vars
<1> QED
  BY <1>1, <1>2, <1>3, CollectsLeaves, MergesUpwards DEF Next, CallerStep

(* The error that is returned is the one that the abstract call names.     *)
LEMMA ErrorIsAnswer ==
  ASSUME OnTrack, ReturnError
  PROVE  outcome' = Ordered!Answer
<1>1. PICK b \in Blocks : FirstError(b) /\ outcome' = results[b]
  BY DEF ReturnError
<1>2. results[b].kind = "error" /\ results[b] \in BlockResult
  BY <1>1 DEF FirstError, OnTrack, TypeOK
<1>3. outcome' = [kind |-> "error", unit |-> results[b].unit] /\ results[b].unit \in Nat
  BY <1>1, <1>2, ResultKinds
<1>4. Units > 0
  BY BlockBounds, ExecutorAssumption
<1>5. /\ allocates => results[b].unit \in failing /\ \A u \in failing : results[b].unit <= u
      /\ ~allocates => results[b].unit = 0
  BY <1>1, FirstErrorLowest DEF OnTrack
<1>6. CASE allocates
  <2>1. failing \subseteq Nat
    BY ExecutorAssumption DEF OnTrack, TypeOK, UnitSet
  <2>2. Ordered!Lowest \in failing /\ \A u \in failing : Ordered!Lowest <= u
    BY <1>5, <1>6 DEF Ordered!Lowest
  <2>3. Ordered!Lowest = results[b].unit
    <3> DEFINE x == Ordered!Lowest
               y == results[b].unit
    <3>1. x \in Nat /\ y \in Nat /\ x <= y /\ y <= x
      BY <1>5, <1>6, <2>1, <2>2
    <3> HIDE DEF x, y
    <3>2. x = y
      BY <3>1
    <3> QED
      BY <3>2 DEF x, y
  <2> QED
    BY <1>3, <1>4, <1>5, <1>6, <2>3 DEF Ordered!Answer
<1>7. CASE ~allocates
  BY <1>3, <1>4, <1>5, <1>7 DEF Ordered!Answer, Ordered!Lowest
<1> QED
  BY <1>6, <1>7

(* The total that is returned is the one that the abstract call gives.     *)
LEMMA TotalIsAnswer ==
  ASSUME OnTrack, LevelIsTree, ReturnTotal
  PROVE  outcome' = Ordered!Answer
<1>1. CASE Blocks = {}
  <2>1. Units = 0
    <3>1. 0 \notin UnitSet
      BY <1>1, BlockOfUnit
    <3> QED
      BY <3>1, ExecutorAssumption DEF UnitSet
  <2>2. Ordered!AlignedRuns = {}
    BY <1>1, SameBlocks DEF Ordered!AlignedRuns
  <2>3. Ordered!UnitsFrom(0, Units) = <<>>
    BY <2>1 DEF Ordered!UnitsFrom
  <2>4. Ordered!FixedTotal = Total(<<>>, {})
    BY <2>2, <2>3 DEF Ordered!FixedTotal, Total
  <2> QED
    BY <1>1, <2>1, <2>4 DEF ReturnTotal, Ordered!Answer
<1>2. CASE Blocks # {}
  <2>1. Len(level) = 1 /\ outcome' = Total(level[1].values, level[1].merged)
    BY <1>2 DEF ReturnTotal
  <2>2. outcome' = Ordered!FixedTotal
    BY <2>1, RootIsTotal
  <2>3. failing = {} /\ allocates
    <3>1. level # <<>>
      BY <2>1
    <3> QED
      BY <3>1 DEF LevelIsTree
  <2> QED
    BY <2>2, <2>3 DEF Ordered!Answer
<1> QED
  BY <1>1, <1>2

(* The safety of OrderedReduction: however the pool runs the blocks, a     *)
(* call returns at most once, and the one answer that the units, their     *)
(* blocks and the units that fail determine: the same values added in the  *)
(* same order and merged in the same groups.                               *)
THEOREM AnswerIsDetermined == Spec => Ordered!Safety
<1>1. Init => LevelIsTree
  BY DEF Init, LevelIsTree
<1>2. Spec => []LevelIsTree
  BY <1>1, NextIsTree, StaysOnTrack, PTL DEF Spec
<1>3. Init => Ordered!Init
  BY DEF Init, Ordered!Init, Pending
<1>4. OnTrack /\ LevelIsTree /\ [Next]_vars => [Ordered!Return]_(Ordered!vars)
  <2> SUFFICES ASSUME OnTrack, LevelIsTree, [Next]_vars
               PROVE  Ordered!Return \/ UNCHANGED <<failing, allocates, outcome>>
    BY DEF Ordered!vars
  <2>1. ASSUME NEW w \in Workers, WorkerStep(w) PROVE UNCHANGED <<failing, allocates, outcome>>
    BY <2>1 DEF WorkerStep, Take, StartBlock, FailBlock, StartTile, Evaluate, FailUnit,
           FinishTile, FinishBlock, FinishJob
  <2>2. ASSUME (\E j \in jobs : Split(j)) \/ Collect \/ MergeLevel \/ UNCHANGED vars
        PROVE  UNCHANGED <<failing, allocates, outcome>>
    BY <2>2 DEF Split, Collect, MergeLevel, vars
  <2>3. CASE ReturnError
    BY <2>3, ErrorIsAnswer DEF ReturnError, Collected, Ordered!Return, Pending
  <2>4. CASE ReturnTotal
    BY <2>4, TotalIsAnswer DEF ReturnTotal, Ordered!Return, Pending
  <2> QED
    BY <2>1, <2>2, <2>3, <2>4 DEF Next, CallerStep
<1> QED
  BY <1>2, <1>3, <1>4, StaysOnTrack, PTL DEF Spec, Ordered!Safety
=============================================================================
