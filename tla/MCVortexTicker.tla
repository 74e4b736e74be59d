---------------------------- MODULE MCVortexTicker ----------------------------
(* Shards of one token each, and sockets that get replaced.                   *)
EXTENDS VortexShardedTicker, TLC
CONSTANTS t1, t2, i1, i2, j1, j2
Symmetry == Permutations({t1, t2}) \cup Permutations({i1, i2}) \cup Permutations({j1, j2})
=============================================================================
