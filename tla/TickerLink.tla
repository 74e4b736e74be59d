----------------------------- MODULE TickerLink -----------------------------
(***************************************************************************)
(* TickerLink: what the stream service may count on from a ticker that      *)
(* reconnects by itself, whatever sockets, timers and handshakes it takes:  *)
(* a link that is wanted or not, up or down, with a budget of retries.      *)
(***************************************************************************)
EXTENDS Naturals

CONSTANT Budget    \* a number: reconnection attempts between two successes

VARIABLES
    wanted,        \* connect() was called, and neither disconnect() nor a refusal since
    up,            \* the ticker calls itself connected
    spent          \* attempts made since the link was last up

vars == <<wanted, up, spent>>

Init == wanted = FALSE /\ up = FALSE /\ spent = 0

Start ==
    /\ wanted' = TRUE
    /\ UNCHANGED <<up, spent>>

\* Told to stop, or refused by the peer: nothing is retried, nothing comes up by it.
Stop ==
    /\ wanted' = FALSE
    /\ up' \in {up, FALSE}
    /\ UNCHANGED spent

\* Only success restores the budget.
Rise ==
    /\ up' = TRUE
    /\ spent' = 0
    /\ UNCHANGED wanted

\* An attempt is taken from the budget only by a wanted link that is down.
Fall ==
    /\ up' = FALSE
    /\ spent' \in {spent} \cup (IF wanted /\ spent < Budget THEN {spent + 1} ELSE {})
    /\ UNCHANGED wanted

\* The peer's process is gone and starts anew.
Restart == wanted' = FALSE /\ up' = FALSE /\ spent' = 0

Next == Start \/ Stop \/ Rise \/ Fall \/ Restart

\* A wanted link comes up, or is given up, or has used its budget.
Resolves == wanted ~> (up \/ ~wanted \/ spent = Budget)

SafeSpec == Init /\ [][Next]_vars
Spec == SafeSpec /\ Resolves

=============================================================================
