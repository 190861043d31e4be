-------------------------- MODULE MCSubscriptions --------------------------
(* Small instances of Subscriptions for TLC. *)
EXTENDS Subscriptions, TLC

\* Requests, users and plans are interchangeable; no liveness is checked here.
Interchangeable ==
    Permutations(Requests) \cup Permutations(Users) \cup Permutations(Plans)

\* Bound: a third request overlaps another only when the same user pays and
\* is paid for in each of them, and the clock advances or a call raises.
Received == {r \in Requests : job[r] # NULL}

OneUser ==
    \A q, r \in Received : job[q].user = job[r].user /\ job[q].payer = job[r].user

FewAtOnce ==
    /\ Cardinality(Received) = 3 => OneUser \/ Cardinality(InFlight) <= 1
    /\ now = 0 \/ faults = 0
=============================================================================
