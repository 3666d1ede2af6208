-------------------------- MODULE OrderedReduction --------------------------
(***************************************************************************)
(* What a DeterministicExecutor call promises: one answer, fixed by the    *)
(* units, the block size and the units that fail, and by nothing that the  *)
(* pool decides.  The values are added in unit order; the merged groups    *)
(* are those of the balanced tree over the blocks: at height h, the        *)
(* aligned runs of 2^h blocks, the last of them cut short.                 *)
(***************************************************************************)
EXTENDS Integers

CONSTANTS Units, BlockSize

VARIABLES
  failing,    \* the units that fail
  allocates,  \* can the workspaces be allocated
  answer      \* what the call returned

BlockCount == (Units + BlockSize - 1) \div BlockSize
Blocks == 0..BlockCount - 1

UnitsFrom(from, to) == [i \in 1..to - from |-> from + i - 1]

UnitsOfRun(first, count) ==
  LET to == (first + count) * BlockSize
  IN  UnitsFrom(first * BlockSize, IF to <= Units THEN to ELSE Units)

(* The blocks in a run at each height of the tree, where all are there.    *)
RunSize[h \in 0..BlockCount] == IF h = 0 THEN 1 ELSE 2 * RunSize[h - 1]

(* The runs <<h, k>>, the k-th at height h, that two runs were merged to:  *)
(* those whose second half has blocks.                                     *)
AlignedRuns ==
  {r \in (1..BlockCount) \X Blocks :
     r[2] * RunSize[r[1]] + RunSize[r[1] - 1] \in Blocks}

Group(r) == UnitsOfRun(r[2] * RunSize[r[1]], RunSize[r[1]])

FixedTotal ==
  [kind |-> "total", values |-> UnitsFrom(0, Units), merged |-> {Group(r) : r \in AlignedRuns}]

Lowest == IF allocates THEN CHOOSE u \in failing : \A v \in failing : u <= v ELSE 0

Answer ==
  IF Units > 0 /\ (failing # {} \/ ~allocates) THEN [kind |-> "error", unit |-> Lowest]
  ELSE FixedTotal

Init == answer = [kind |-> "pending"]

Return ==
  /\ answer.kind = "pending"
  /\ answer' = Answer
  /\ UNCHANGED <<failing, allocates>>

vars == <<failing, allocates, answer>>

(* One answer, if any; and an answer.                                      *)
Safety == Init /\ [][Return]_vars

Spec == Safety /\ WF_vars(Return)
=============================================================================
