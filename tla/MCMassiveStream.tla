--------------------------- MODULE MCMassiveStream ---------------------------
(* Two asset classes, one of them with a symbol: enough sockets for both and *)
(* for one that outlives its client's next dial.                            *)
EXTENDS MassiveStream, TLC

MCClassOf == [y \in Symbols |-> "stocks"]
MCSymmetry == Permutations(Sockets)
=============================================================================
