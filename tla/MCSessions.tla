------------------------------ MODULE MCSessions ------------------------------
(* Connections of one gateway, and pending calls, are interchangeable.  The *)
(* number of one instrument may also denote another.                        *)
EXTENDS GatewaySessions, TLC

CONSTANTS i1, i2

MCNamesakes == (i1 :> {i1, i2}) @@ (i2 :> {i2})
MCSymmetry == Permutations(Sockets \ Native) \cup Permutations(Calls)

\* Bounds.  What befalls the counter and what befalls the entries do not meet: once the key
\* ran out, Redis failed or the process died, nobody subscribes.  Several clients share one
\* instrument, maybe in the room of the other; only a client that is alone asks for both.
Mishap == expired \/ silent \/ \E s \in Sockets : life[s] = "lost"
NothingHeld == (\A s \in Sockets : instruments[s] = {}) /\ (\A k \in Calls : call[k] = Idle)
Alone == Cardinality({s \in Sockets : life[s] # "none"}) <= 1
OneAskedFor ==
    /\ \A s \in Sockets : instruments[s] \subseteq {i1}
    /\ \A k \in Calls : call[k].ids \subseteq {i1}
    /\ interest[i2] = 0
MCBound == (Mishap => NothingHeld) /\ (Alone \/ OneAskedFor)
=============================================================================
