----------------------------- MODULE MCKiteTicker -----------------------------
(* Two shards of one token each for three tokens: both fill up, one token is *)
(* left over, and the shards lose and regain their connections on their own. *)
EXTENDS KiteShardedTicker, TLC

MCSymmetry == Permutations(Tokens)
=============================================================================
