----------------------------- MODULE MCExecutor -----------------------------
(* Instances of the executor for TLC.                                      *)
EXTENDS BlockExecutor

CONSTANTS w1, w2

TwoWorkers == {w1, w2}
=============================================================================
