----------------------------- MODULE MCProvider -----------------------------
(* Two threads, two snapshots and two contracts that were given different  *)
(* surfaces on the first snapshot and the same one on the second.          *)
EXTENDS ProviderCache, TLC

CONSTANTS t1, t2, s1, s2, a, b, control, x, y

MCThreads == {t1, t2}
MCSurface == (s1 :> ((a :> x) @@ (b :> y))) @@ (s2 :> ((a :> x) @@ (b :> x)))
Interchangeable == Permutations(MCThreads)
MCRejected == {<<s2, b>>}
=============================================================================
