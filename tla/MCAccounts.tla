------------------------------ MODULE MCAccounts ------------------------------
(* Small instances of Accounts for TLC. *)
EXTENDS Accounts, TLC

CONSTANTS u1, u2, git1, git2, goo1

TheIdentities == {git1, git2, goo1}
TheProviderOf == git1 :> "github" @@ git2 :> "github" @@ goo1 :> "gplus"
TheEmailOf == git1 :> u1 @@ git2 :> u2 @@ goo1 :> u1

Interchangeable == Permutations(Requests)

\* History: two requests have been under way at the same time; one that takes
\* a single step, as a sign-up does, is under way with none.
VARIABLE overlapped

MCInit == Init /\ overlapped = FALSE
MCNext == Next /\ overlapped' = (overlapped \/ Cardinality(Open') > 1)
MCSpec == MCInit /\ [][MCNext]_<<vars, overlapped>>

\* Bound: six requests one after the other, five once some overlap.
Bounds == overlapped => \E r \in Requests : pc[r] = "idle"

\* What holds while requests come one at a time: one authentication of each
\* provider, none of a deactivated account, an identity linked once by the
\* callback.
SerialOneOfEachProvider == ~overlapped => OneOfEachProvider
SerialRowsOfActiveAccounts == ~overlapped => RowsOfActiveAccounts
SerialCallbackLinksFreeIdentities == ~overlapped => CallbackLinksFreeIdentities
=============================================================================
