---------------------------- MODULE AtomicReplay ----------------------------
(***************************************************************************)
(* What a caller of run_backtest can see of its state: it moves one whole  *)
(* snapshot at a time, extending every table, and a run only ever starts   *)
(* from a state that an earlier result has carried.                        *)
(***************************************************************************)
EXTENDS Integers, SequencesExt

VARIABLES
  visible,   \* the last committed state
  results    \* the states carried by checkpoints

(* The tables are append-only, except for the order that was pending: it   *)
(* leaves the snapshot resolved there.                                     *)
OrdersExtend(a, b) ==
  /\ Len(a.orders) <= Len(b.orders)
  /\ \A k \in 1..Len(a.orders) :
       IF k = a.pending
         THEN /\ b.orders[k].status # "pending" /\ b.orders[k].fillAt = a.next
              /\ b.orders[k].want = a.orders[k].want
         ELSE b.orders[k] = a.orders[k]

Extends(a, b) ==
  /\ b.next = a.next + 1
  /\ Len(b.ledger) = Len(a.ledger) + 1
  /\ IsPrefix(a.ledger, b.ledger) /\ IsPrefix(a.fills, b.fills)
  /\ IsPrefix(a.cashflows, b.cashflows) /\ IsPrefix(a.settlements, b.settlements)
  /\ OrdersExtend(a, b)
  /\ a.flowIds \subseteq b.flowIds

Init == results = {visible} /\ visible.next = 1

CommitSnapshot == Extends(visible, visible') /\ UNCHANGED results
CarryResult == results' = results \union {visible} /\ UNCHANGED visible
StartFrom == visible' \in results /\ UNCHANGED results

Next == CommitSnapshot \/ CarryResult \/ StartFrom

Spec == Init /\ [][Next]_<<visible, results>>
=============================================================================
