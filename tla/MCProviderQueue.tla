-------------------------- MODULE MCProviderQueue --------------------------
(* Two instances with a caller each compete for the gate.  A tick is half a *)
(* second, so the interval is two ticks and a jitter rounds to none or one. *)
EXTENDS ProviderQueue, TLC

MCInstanceOf == ("c1" :> "i1") @@ ("c2" :> "i2")
=============================================================================
