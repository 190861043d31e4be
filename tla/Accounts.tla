------------------------------- MODULE Accounts -------------------------------
(***************************************************************************)
(* Members' accounts and the identities at GitHub and Google they sign in  *)
(* with: authentications are created by the OmniAuth callback, removed by  *)
(* unlinking and by deactivating the account.                              *)
(*                                                                         *)
(* An account is named by its email address, which has a unique index, and *)
(* a row of authentications, which has none, by the request that inserted  *)
(* it.  A request reads in one step what it writes on in another.          *)
(***************************************************************************)
EXTENDS Integers, FiniteSets

CONSTANTS
    Requests,
    Users,       \* accounts, named by their email addresses
    Identities,  \* <<provider, uid>> pairs
    NULL,
    ProviderOf,  \* the provider of an identity
    EmailOf,     \* the email address the provider reports for it
    MaxOpen      \* bound: requests at the same time

Providers == {"github", "gplus"}

ASSUME AccountsAssumption ==
    /\ ProviderOf \in [Identities -> Providers]
    /\ EmailOf \in [Identities -> Users]
    /\ MaxOpen \in Nat \ {0}
    /\ NULL \notin Users \cup Identities \cup Requests

\* A row is not NULL.
ASSUME RowAssumption == NULL \notin [user : Users, identity : Identities]

VARIABLES
    status,   \* of an account: "none", "active" or, soft-deleted, "deactivated"
    password, \* whether it has one, encrypted_password not being blank
    github,   \* its github_profile_url: the identity it is that of
    auths,    \* authentications: [user, identity], NULL where no row is
    offered,  \* identities kept in a session for the sign-up form
    pc,       \* "idle", "found", "checked", "counted", "profile", "loaded", "done"
    me,       \* current_user of the request, NULL for a visitor
    identity, \* omniauth.auth of a callback; that of the profile to write
    row,      \* the authentication to be unlinked
    seen      \* what the request has read: a count or a set of rows

vars == <<status, password, github, auths, offered, pc, me, identity, row, seen>>

Goto(r, label) == pc' = [pc EXCEPT ![r] = label]
Open == {r \in Requests : pc[r] \notin {"idle", "done"}}
Free(r) == pc[r] = "idle" /\ Cardinality(Open) < MaxOpen
Active == {u \in Users : status[u] = "active"}
Rows == {a \in Requests : auths[a] # NULL}
RowsOf(u) == {a \in Rows : auths[a].user = u}
HasProvider(u, provider) == \E a \in RowsOf(u) : ProviderOf[auths[a].identity] = provider

Init ==
    /\ status = [u \in Users |-> "none"]
    /\ password = [u \in Users |-> FALSE]
    /\ github = [u \in Users |-> NULL]
    /\ auths = [a \in Requests |-> NULL]
    /\ offered = {}
    /\ pc = [r \in Requests |-> "idle"]
    /\ me = [r \in Requests |-> NULL]
    /\ identity = [r \in Requests |-> NULL]
    /\ row = [r \in Requests |-> NULL]
    /\ seen = [r \in Requests |-> {}]

(***************************************************************************)
(* AuthenticationsController#create, for a visitor or a member signed in.  *)
(* A row found signs its user in; otherwise it is validated and inserted   *)
(* for the member, or with a new account for the visitor.                  *)
(***************************************************************************)
\* link_github_profile follows every sign-in or link by GitHub that finds no
\* profile yet.
ProfileOrDone(r, u, i) ==
    IF u # NULL /\ ProviderOf[i] = "github" /\ github[u] = NULL THEN "profile" ELSE "done"

CallbackFinding(r, rows) ==
    /\ Free(r)
    /\ \E u \in Active \cup {NULL}, i \in Identities :
         /\ identity' = [identity EXCEPT ![r] = i]
         /\ LET matching == {a \in rows : auths[a].identity = i} IN
              \/ /\ matching = {}
                 /\ me' = [me EXCEPT ![r] = u]
                 /\ Goto(r, "found")
              \/ \E a \in matching :
                   LET owner == auths[a].user
                       \* current_user after sign_in_and_redirect, which
                       \* raises for the user of a deactivated account
                       signedIn == IF u # NULL THEN u ELSE owner
                   IN  /\ me' = [me EXCEPT ![r] = signedIn]
                       /\ Goto(r, IF signedIn \in Active THEN ProfileOrDone(r, signedIn, i)
                                  ELSE "done")
    /\ UNCHANGED <<status, password, github, auths, offered, row, seen>>

\* Variant: the row is not looked for.
CallbackNotFinding(r) == CallbackFinding(r, {})
Callback(r) == CallbackFinding(r, Rows)

\* Authentication's validations: one of each provider for a user.  Variant:
\* the scope of the uniqueness is the identity.
ValidateLinkAgainst(r, taken) ==
    /\ pc[r] = "found" /\ me[r] # NULL
    /\ Goto(r, IF taken
               THEN ProfileOrDone(r, me[r], identity[r]) ELSE "checked")
    /\ UNCHANGED <<status, password, github, auths, offered, me, identity, row, seen>>

ValidateIdentity(r) ==
    ValidateLinkAgainst(r, \E a \in RowsOf(me[r]) : auths[a].identity = identity[r])
ValidateLink(r) == ValidateLinkAgainst(r, HasProvider(me[r], ProviderOf[identity[r]]))

InsertLink(r) ==
    /\ pc[r] = "checked" /\ me[r] # NULL
    /\ auths' = [auths EXCEPT ![r] = [user |-> me[r], identity |-> identity[r]]]
    /\ Goto(r, ProfileOrDone(r, me[r], identity[r]))
    /\ UNCHANGED <<status, password, github, offered, me, identity, row, seen>>

\* deactivated_user_with_email, create_new_user_with_authentication: the
\* account and its authentication are inserted in one transaction; an address
\* that is taken sends the visitor to the sign-up form.
CreateInserting(r, inserted) ==
    /\ pc[r] = "found" /\ me[r] = NULL
    /\ LET u == EmailOf[identity[r]] IN
         \/ /\ status[u] = "deactivated"
            /\ Goto(r, "done")
            /\ UNCHANGED <<status, auths, offered, me>>
         \/ /\ status[u] = "active"
            /\ offered' = offered \cup {identity[r]}
            /\ Goto(r, "done")
            /\ UNCHANGED <<status, auths, me>>
         \/ /\ status[u] = "none"
            /\ status' = [status EXCEPT ![u] = inserted]
            /\ auths' = [auths EXCEPT ![r] = [user |-> u, identity |-> identity[r]]]
            /\ me' = [me EXCEPT ![r] = u]
            /\ Goto(r, ProfileOrDone(r, u, identity[r]))
            /\ UNCHANGED offered
    /\ UNCHANGED <<password, github, identity, row, seen>>

\* Variant: the authentication is committed, its account is not.
CreateWithoutAccount(r) == CreateInserting(r, "none")
CreateWithAuthentication(r) == CreateInserting(r, "active")

LinkGithubProfile(r) ==
    /\ pc[r] = "profile" /\ identity[r] # NULL
    /\ github' = IF status[me[r]] = "active" THEN [github EXCEPT ![me[r]] = identity[r]] ELSE github
    /\ Goto(r, "done")
    /\ UNCHANGED <<status, password, auths, offered, me, identity, row, seen>>

(***************************************************************************)
(* RegistrationsController#create: with a password, or with the identity   *)
(* kept in the session and perhaps a password.  An address that is taken,  *)
(* also by a deactivated account, is refused.                              *)
(***************************************************************************)
Register(r) ==
    /\ Free(r)
    /\ \E u \in Users, i \in offered \cup {NULL}, given \in BOOLEAN :
         /\ status[u] = "none"
         /\ i = NULL => given
         /\ status' = [status EXCEPT ![u] = "active"]
         /\ password' = [password EXCEPT ![u] = given]
         /\ auths' = [auths EXCEPT ![r] = IF i = NULL THEN NULL ELSE [user |-> u, identity |-> i]]
         /\ offered' = offered \ {i}
    /\ Goto(r, "done")
    /\ UNCHANGED <<github, me, identity, row, seen>>

\* Devise's recoverable: a link sent to the address sets a password.
ResetPassword(r) ==
    /\ Free(r)
    /\ \E u \in Active : password' = [password EXCEPT ![u] = TRUE]
    /\ Goto(r, "done")
    /\ UNCHANGED <<status, github, auths, offered, me, identity, row, seen>>

(***************************************************************************)
(* AuthenticationsController#destroy: the row is found and the user's rows *)
(* are counted, the row is deleted, the GitHub profile is cleared.         *)
(***************************************************************************)
CountForUnlink(r) ==
    /\ Free(r)
    /\ \E a \in Rows :
         /\ auths[a].user \in Active
         /\ row' = [row EXCEPT ![r] = a]
         /\ me' = [me EXCEPT ![r] = auths[a].user]
         /\ seen' = [seen EXCEPT ![r] = RowsOf(auths[a].user)]
    /\ Goto(r, "counted")
    /\ UNCHANGED <<status, password, github, auths, offered, identity>>

UnlinkKeeping(r, least) ==
    /\ pc[r] = "counted"
    /\ \/ /\ Cardinality(seen[r]) = least /\ ~password[me[r]]
          /\ Goto(r, "done")
          /\ UNCHANGED auths
       \/ /\ Cardinality(seen[r]) # least \/ password[me[r]]
          /\ auths' = [auths EXCEPT ![row[r]] = NULL]
          /\ Goto(r, "profile")
    /\ identity' = [identity EXCEPT ![r] = NULL]
    /\ UNCHANGED <<status, password, github, offered, me, row, seen>>

\* Variant: the rows left are counted, not the rows there are.
UnlinkOffByOne(r) == UnlinkKeeping(r, 0)
Unlink(r) == UnlinkKeeping(r, 1)

ClearGithubProfile(r) ==
    /\ pc[r] = "profile" /\ identity[r] = NULL
    /\ github' = IF status[me[r]] = "active" THEN [github EXCEPT ![me[r]] = NULL] ELSE github
    /\ Goto(r, "done")
    /\ UNCHANGED <<status, password, auths, offered, me, identity, row, seen>>

(***************************************************************************)
(* UsersController#destroy: authentications, dependent: :destroy, are      *)
(* loaded and deleted, and the account is marked, in one transaction.      *)
(***************************************************************************)
LoadDependents(r) ==
    /\ Free(r)
    /\ \E u \in Active :
         /\ me' = [me EXCEPT ![r] = u]
         /\ seen' = [seen EXCEPT ![r] = RowsOf(u)]
    /\ Goto(r, "loaded")
    /\ UNCHANGED <<status, password, github, auths, offered, identity, row>>

DeactivateDeleting(r, rows) ==
    /\ pc[r] = "loaded"
    /\ status' = [status EXCEPT ![me[r]] = "deactivated"]
    /\ auths' = [a \in Requests |-> IF a \in rows THEN NULL ELSE auths[a]]
    /\ Goto(r, "done")
    /\ UNCHANGED <<password, github, offered, me, identity, row, seen>>

\* Variant: authentications without dependent: :destroy.
DeactivateOnly(r) == DeactivateDeleting(r, {})
Deactivate(r) == DeactivateDeleting(r, seen[r])

Step(r) ==
    \/ Callback(r)
    \/ ValidateLink(r)
    \/ InsertLink(r)
    \/ CreateWithAuthentication(r)
    \/ LinkGithubProfile(r)
    \/ Register(r)
    \/ ResetPassword(r)
    \/ CountForUnlink(r)
    \/ Unlink(r)
    \/ ClearGithubProfile(r)
    \/ LoadDependents(r)
    \/ Deactivate(r)

Next == \E r \in Requests : Step(r)

Spec == Init /\ [][Next]_vars

-----------------------------------------------------------------------------
\* Every variable holds a value of the kind the code stores in it; only an
\* account that was created has anything.
TypeOK ==
    /\ status \in [Users -> {"none", "active", "deactivated"}]
    /\ password \in [Users -> BOOLEAN]
    /\ github \in [Users -> Identities \cup {NULL}]
    /\ auths \in [Requests -> [user : Users, identity : Identities] \cup {NULL}]
    /\ \A a \in Rows : status[auths[a].user] # "none"
    /\ \A u \in Users : status[u] = "none" => ~password[u] /\ github[u] = NULL
    /\ offered \subseteq Identities
    /\ pc \in [Requests -> {"idle", "found", "checked", "counted", "profile", "loaded", "done"}]
    /\ me \in [Requests -> Users \cup {NULL}]
    /\ identity \in [Requests -> Identities \cup {NULL}]
    /\ row \in [Requests -> Requests \cup {NULL}]
    /\ seen \in [Requests -> SUBSET Requests]

LockedOut(u) == u \in Active /\ ~password[u] /\ RowsOf(u) = {}

\* An account keeps a means to sign in, a password or an authentication
\* (spec/controllers/authentications_controller_spec.rb, "should not be allowed
\* for users without any other means of authentication").
KeepsMeansOfSignIn == \A u \in Users : ~LockedOut(u)

\* Two requests unlink two authentications of u, each having counted the
\* other's.
Overlap(u) ==
    \E r, q \in Requests :
        /\ me[r] = u /\ me[q] = u
        /\ row[r] # NULL /\ row[q] # NULL /\ row[r] # row[q]
        /\ row[r] \in seen[q] /\ row[q] \in seen[r]

\* An account is locked out by nothing less than two overlapping requests that
\* unlink two of its authentications, each having counted the other's.
LockoutNeedsOverlap == \A u \in Users : LockedOut(u) => Overlap(u)

\* One request at a time: an account has one authentication of each provider.
OneOfEachProvider ==
    \A a, b \in Rows :
        /\ auths[a].user = auths[b].user
        /\ ProviderOf[auths[a].identity] = ProviderOf[auths[b].identity]
        => a = b

\* One request at a time: a deactivated account leaves no authentication
\* (has_many :authentications, dependent: :destroy), so that a visitor with
\* its identity is told so instead of meeting a row without a user.
RowsOfActiveAccounts == \A a \in Rows : auths[a].user \in Active

\* "Another account is already associated with these credentials!": one
\* request at a time, an identity signs in one account, among those the
\* callback linked or created itself.  The sign-up form, which links an identity
\* kept in the session without looking it up again, is the exception.
CallbackLinksFreeIdentities ==
    \A a, b \in Rows :
        auths[a].identity = auths[b].identity /\ identity[a] # NULL /\ identity[b] # NULL
            => auths[a].user = auths[b].user
=============================================================================
