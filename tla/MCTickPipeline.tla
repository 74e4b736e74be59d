----------------------------- MODULE MCTickPipeline -----------------------------
(* One instrument may tick once, the other twice.                          *)
EXTENDS TickPipeline

CONSTANTS a, b

MCMaxTicks == [i \in {a, b} |-> IF i = a THEN 1 ELSE 2]
=============================================================================
