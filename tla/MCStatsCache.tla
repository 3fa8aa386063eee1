---------------------------- MODULE MCStatsCache ----------------------------
(* StatsCache on a small instance: two changes, whose writes and bumps may  *)
(* cross, and one dashboard that asks again and again while its earlier     *)
(* cache writes are still on their way.                                     *)
EXTENDS StatsCache, TLC

CONSTANTS c1, c2, r1, here

MCChange == {c1, c2}

Interchangeable == Permutations(MCChange)
=============================================================================
