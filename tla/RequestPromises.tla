---------------------------- MODULE RequestPromises ----------------------------
(***************************************************************************)
(* RequestPromises: what a caller of batched requests may count on.  Who    *)
(* asks joins a group; once the group is closed instruments are asked for,  *)
(* and some are lost; a member that wanted one of those is refused at once, *)
(* and all that are left are answered together.  Chunks, prices, fallbacks  *)
(* and the clock are the implementation's own affair.                       *)
(***************************************************************************)
CONSTANTS Callers, Groups, Instruments

VARIABLES
    promise,   \* what became of a caller's promise
    wants,     \* what a caller waits for
    members,   \* to whom a group owes an answer
    closed,    \* whether nobody can join any more
    lost       \* the instruments that a group asked for in vain

vars == <<promise, wants, members, closed, lost>>

Init ==
    /\ promise = [c \in Callers |-> "none"]
    /\ wants = [c \in Callers |-> {}]
    /\ members = [g \in Groups |-> {}]
    /\ closed = [g \in Groups |-> FALSE]
    /\ lost = [g \in Groups |-> {}]

Join(c, g, is) ==
    /\ ~closed[g] /\ lost[g] = {}
    /\ \A h \in Groups : c \notin members[h]
    /\ promise' = [promise EXCEPT ![c] = "pending"]
    /\ wants' = [wants EXCEPT ![c] = is]
    /\ members' = [members EXCEPT ![g] = @ \cup {c}]
    /\ UNCHANGED <<closed, lost>>

Close(g) ==
    /\ ~closed[g]
    /\ closed' = [closed EXCEPT ![g] = TRUE]
    /\ UNCHANGED <<promise, wants, members, lost>>

\* Some instruments are lost, or none; the group goes on or is over.
Settle(g, is, over) ==
    LET refused == {c \in members[g] : wants[c] \cap is # {}}
        answered == IF over THEN members[g] \ refused ELSE {}
    IN  /\ closed[g]
        /\ promise' = [c \in Callers |-> IF c \in refused THEN "rejected"
                                        ELSE IF c \in answered THEN "fulfilled"
                                        ELSE promise[c]]
        /\ wants' = [c \in Callers |-> IF c \in refused \cup answered THEN {} ELSE wants[c]]
        /\ members' = [members EXCEPT ![g] = @ \ (refused \cup answered)]
        /\ closed' = [closed EXCEPT ![g] = ~over]
        /\ lost' = [lost EXCEPT ![g] = @ \cup is]

\* Groups that owe nobody anything start anew.
Renew(gs) ==
    /\ \A g \in gs : members[g] = {} /\ ~closed[g]
    /\ lost' = [g \in Groups |-> IF g \in gs THEN {} ELSE lost[g]]
    /\ UNCHANGED <<promise, wants, members, closed>>

Next ==
    \/ \E c \in Callers, g \in Groups, is \in SUBSET Instruments : Join(c, g, is)
    \/ \E g \in Groups :
          \/ Close(g)
          \/ \E is \in SUBSET Instruments, over \in BOOLEAN : Settle(g, is, over)
    \/ \E gs \in SUBSET Groups : Renew(gs)

Spec == Init /\ [][Next]_vars

=============================================================================
