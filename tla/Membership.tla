----------------------------- MODULE Membership -----------------------------
(***************************************************************************)
(* What paid membership promises, whatever carries it out: memberships are *)
(* granted one after the other; a grant in force ends only because a later *)
(* one is in force, so that a user who once became a member stays one.     *)
(***************************************************************************)
CONSTANTS Users, Grants, NULL

VARIABLES
    held,   \* the grants of each user that are in force
    newest  \* the last one granted; NULL: never a member

vars == <<held, newest>>

Init ==
    /\ held = [u \in Users |-> {}]
    /\ newest = [u \in Users |-> NULL]

Grant(u, g) ==
    /\ \A v \in Users : g \notin held[v]
    /\ held' = [held EXCEPT ![u] = held[u] \cup {g}]
    /\ newest' = [newest EXCEPT ![u] = g]

\* Earlier grants of one user end together.
Supersede(u, old) ==
    /\ newest[u] \in held[u] \ old
    /\ held' = [held EXCEPT ![u] = held[u] \ old]
    /\ UNCHANGED newest

Next ==
    \E u \in Users :
        \/ \E g \in Grants : Grant(u, g)
        \/ \E old \in SUBSET held[u] : Supersede(u, old)

Spec == Init /\ [][Next]_vars
=============================================================================
