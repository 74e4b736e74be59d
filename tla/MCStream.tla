------------------------------ MODULE MCStream ------------------------------
(* StreamBatching on the kite/vortex pair.  Two configurations: one client  *)
(* and two instruments against small upstream limits (MCStreamRouting), and *)
(* one client per gateway on one instrument, with pins (MCStreamClients).   *)
EXTENDS StreamBatching, TLC

MCProviders == {"kite", "vortex"}
MCExchange == [u \in Uirs |-> "indian"]
MCTokens == Uirs \X MCProviders
MCLimit == [p \in MCProviders |-> IF p = "kite" THEN 1 ELSE 2]
MCSymmetry == Permutations(Uirs)
=============================================================================
