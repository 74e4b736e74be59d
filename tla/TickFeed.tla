------------------------------- MODULE TickFeed -------------------------------
(***************************************************************************)
(* TickFeed: what a client may count on from a live feed of prices: what it *)
(* is shown has arrived, and it is shown an instrument's ticks in their     *)
(* order, maybe not all, until the feed gives that instrument up.           *)
(***************************************************************************)
EXTENDS Naturals

CONSTANTS Instruments, Clients

VARIABLES
    newest,    \* the number of the newest tick of each instrument
    seen,      \* what each client was shown last
    givenUp    \* instruments whose order is no longer promised

vars == <<newest, seen, givenUp>>

Init ==
    /\ newest = [i \in Instruments |-> 0]
    /\ seen = [c \in Clients |-> [i \in Instruments |-> 0]]
    /\ givenUp = {}

\* An event carries new ticks; where the last event's are still being worked on, the order
\* may be given up.
Arrive(is) ==
    /\ newest' = [i \in Instruments |-> IF i \in is THEN newest[i] + 1 ELSE newest[i]]
    /\ \E gone \in SUBSET is : givenUp' = givenUp \cup gone
    /\ UNCHANGED seen

\* One tick is shown to some clients, and none of them has seen a newer one.
Show(i, n, who) ==
    /\ seen' = [c \in Clients |-> IF c \in who THEN [seen[c] EXCEPT ![i] = n] ELSE seen[c]]
    /\ givenUp' \in {givenUp, givenUp \cup {i}}
    /\ i \notin givenUp' => \A c \in who : seen[c][i] <= n
    /\ UNCHANGED newest

Next ==
    \/ \E is \in SUBSET Instruments : Arrive(is)
    \/ \E i \in Instruments, who \in SUBSET Clients : \E n \in 0..newest[i] : Show(i, n, who)

Spec == Init /\ [][Next]_vars

=============================================================================
