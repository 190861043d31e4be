---------------------------- MODULE AccountsProofs ----------------------------
(***************************************************************************)
(* Proofs about Accounts, for any set of requests, accounts and identities *)
(* and any number of requests at the same time: what it takes to lock a    *)
(* member out, and what holds while requests come one at a time.           *)
(***************************************************************************)
EXTENDS MCAccounts, FiniteSetTheorems, TLAPS

\* A request that may have inserted its row, which it does once.
Inserted == {"profile", "done"}
BeforeReading == {"idle", "found", "checked"}

\* What a request remembers, and which rows it may have read.
MemoryInv ==
    \A r \in Requests :
        /\ pc[r] \in BeforeReading => seen[r] = {} /\ row[r] = NULL
        /\ pc[r] = "idle" => me[r] = NULL
        /\ pc[r] \in {"found", "checked"} => identity[r] \in Identities
        /\ me[r] # NULL => status[me[r]] # "none"
        /\ pc[r] \in {"counted", "loaded", "profile"} => me[r] # NULL
        /\ pc[r] = "counted" <=> row[r] # NULL /\ pc[r] \notin Inserted
        /\ row[r] # NULL => me[r] # NULL /\ row[r] \in seen[r]

\* A row is inserted by a request that has not to insert any more, and what
\* was read of a user is, as long as it is there, that user's.
RowInv ==
    /\ \A a \in Requests : auths[a] # NULL => pc[a] \in Inserted
    /\ \A r \in Requests : \A z \in seen[r] :
         /\ pc[z] \in Inserted
         /\ auths[z] # NULL => auths[z].user = me[r]

\* A request with rows to unlink: its row is still there.
Unlinking(r) == pc[r] = "counted" /\ auths[row[r]] # NULL

\* Who counted the rows of a user before the row r is about to unlink was
\* there counted nothing that is still there and r did not count.
OrderInv ==
    \A r, p \in Requests :
        /\ Unlinking(r)
        /\ row[p] # NULL /\ me[p] = me[r] /\ row[r] \notin seen[p]
        => \A z \in seen[p] : auths[z] # NULL => z \in seen[r]

\* Who is about to unlink one of several rows leaves one of them, unless an
\* overlap is there already.
OtherInv ==
    \A r \in Requests :
        /\ Unlinking(r)
        /\ status[me[r]] = "active" /\ ~password[me[r]] /\ seen[r] # {row[r]}
        => Overlap(me[r]) \/ \E z \in seen[r] : z # row[r] /\ auths[z] # NULL

IInv == TypeOK /\ MemoryInv /\ RowInv /\ OrderInv /\ OtherInv /\ LockoutNeedsOverlap

-----------------------------------------------------------------------------
\* Every step keeps the types.
LEMMA TypeStep == IInv /\ [Next]_vars => TypeOK'
<1> SUFFICES ASSUME IInv, [Next]_vars PROVE TypeOK'
  OBVIOUS
<1> USE AccountsAssumption DEF IInv, TypeOK, MemoryInv, Rows, RowsOf, Goto, Active
<1>1. CASE UNCHANGED vars
  BY <1>1 DEF vars
<1>2. ASSUME NEW r \in Requests, Step(r) PROVE TypeOK'
  <2>1. CASE Callback(r)
    BY <2>1 DEF Callback, CallbackFinding, ProfileOrDone
  <2>2. CASE ValidateLink(r)
    BY <2>2 DEF ValidateLink, ValidateLinkAgainst, ProfileOrDone
  <2>3. CASE InsertLink(r)
    BY <2>3 DEF InsertLink, ProfileOrDone
  <2>4. CASE CreateWithAuthentication(r)
    <3> DEFINE u == EmailOf[identity[r]]
    <3>1. u \in Users /\ identity[r] \in Identities
      BY <2>4 DEF CreateWithAuthentication, CreateInserting
    <3> HIDE DEF u
    <3>2. CASE status[u] # "none"
      BY <2>4, <3>1, <3>2 DEF CreateWithAuthentication, CreateInserting, u
    <3>3. CASE status[u] = "none"
      <4>1. /\ status' = [status EXCEPT ![u] = "active"]
            /\ auths' = [auths EXCEPT ![r] = [user |-> u, identity |-> identity[r]]]
            /\ me' = [me EXCEPT ![r] = u]
            /\ \E label \in {"profile", "done"} : pc' = [pc EXCEPT ![r] = label]
            /\ UNCHANGED <<password, github, offered, identity, row, seen>>
        BY <2>4, <3>3 DEF CreateWithAuthentication, CreateInserting, ProfileOrDone, u
      <4> QED
        BY <3>1, <4>1
    <3> QED
      BY <3>2, <3>3
  <2>5. CASE LinkGithubProfile(r)
    BY <2>5 DEF LinkGithubProfile
  <2>6. CASE Register(r)
    BY <2>6 DEF Register, Free
  <2>7. CASE ResetPassword(r)
    BY <2>7 DEF ResetPassword, Free
  <2>8. CASE CountForUnlink(r)
    BY <2>8 DEF CountForUnlink, Free
  <2>9. CASE Unlink(r)
    BY <2>9 DEF Unlink, UnlinkKeeping
  <2>10. CASE ClearGithubProfile(r)
    BY <2>10 DEF ClearGithubProfile
  <2>11. CASE LoadDependents(r)
    BY <2>11 DEF LoadDependents, Free
  <2>12. CASE Deactivate(r)
    BY <2>12 DEF Deactivate, DeactivateDeleting
  <2> QED
    BY <1>2, <2>1, <2>2, <2>3, <2>4, <2>5, <2>6, <2>7, <2>8, <2>9, <2>10, <2>11, <2>12 DEF Step
<1> QED
  BY <1>1, <1>2 DEF Next

\* The row of an identity of a user is a row.
LEMMA ARow ==
    ASSUME NEW u \in Users, NEW i \in Identities
    PROVE  LET a == [user |-> u, identity |-> i] IN a # NULL /\ a.user = u
BY RowAssumption

\* What the callback's first step changes.
LEMMA CallbackEffect ==
    ASSUME IInv, NEW r \in Requests, Callback(r)
    PROVE  /\ pc[r] = "idle"
           /\ UNCHANGED <<status, password, auths, row, seen>>
           /\ \E u \in Users \cup {NULL}, i \in Identities,
                 label \in {"found", "profile", "done"} :
                /\ pc' = [pc EXCEPT ![r] = label]
                /\ me' = [me EXCEPT ![r] = u]
                /\ identity' = [identity EXCEPT ![r] = i]
                /\ u # NULL => status[u] # "none"
                /\ label = "profile" => u # NULL
<1>1. PICK u \in Active \cup {NULL}, i \in Identities :
        /\ identity' = [identity EXCEPT ![r] = i]
        /\ LET matching == {a \in Rows : auths[a].identity = i} IN
             \/ matching = {} /\ me' = [me EXCEPT ![r] = u] /\ Goto(r, "found")
             \/ \E a \in matching :
                  LET signedIn == IF u # NULL THEN u ELSE auths[a].user IN
                    /\ me' = [me EXCEPT ![r] = signedIn]
                    /\ Goto(r, IF signedIn \in Active THEN ProfileOrDone(r, signedIn, i)
                               ELSE "done")
  BY DEF Callback, CallbackFinding
<1>2. \A a \in Rows : auths[a].user \in Users /\ status[auths[a].user] # "none"
  BY DEF IInv, TypeOK, Rows
<1>3. /\ pc[r] = "idle"
      /\ UNCHANGED <<status, password, auths, row, seen>>
  BY DEF Callback, CallbackFinding, Free
<1>4. u \in Users \cup {NULL} /\ (u # NULL => status[u] # "none")
  BY DEF Active
<1>5. CASE me' = [me EXCEPT ![r] = u] /\ Goto(r, "found")
  BY <1>1, <1>3, <1>4, <1>5 DEF Goto
<1>6. ASSUME NEW a \in Rows,
             LET signedIn == IF u # NULL THEN u ELSE auths[a].user IN
               /\ me' = [me EXCEPT ![r] = signedIn]
               /\ Goto(r, IF signedIn \in Active THEN ProfileOrDone(r, signedIn, i)
                          ELSE "done")
      PROVE  \E v \in Users, label \in {"profile", "done"} :
               /\ pc' = [pc EXCEPT ![r] = label]
               /\ me' = [me EXCEPT ![r] = v]
               /\ status[v] # "none"
  <2> DEFINE v == IF u # NULL THEN u ELSE auths[a].user
  <2>1. v \in Users /\ status[v] # "none"
    BY <1>2, <1>4
  <2>2. \E label \in {"profile", "done"} : pc' = [pc EXCEPT ![r] = label]
    BY <1>6 DEF Goto, ProfileOrDone
  <2> QED
    BY <1>6, <2>1, <2>2
<1>7. \A v \in Users : v # NULL
  BY AccountsAssumption
<1> QED
  BY <1>1, <1>3, <1>5, <1>6, <1>7

\* What unlinking changes: nothing, or its row is no more, when the account has
\* a password or other rows were counted.
LEMMA UnlinkEffect ==
    ASSUME IInv, NEW r \in Requests, Unlink(r)
    PROVE  /\ pc[r] = "counted" /\ row[r] \in Requests /\ row[r] \in seen[r]
           /\ \E label \in {"profile", "done"} : pc' = [pc EXCEPT ![r] = label]
           /\ UNCHANGED <<status, password, me, row, seen>>
           /\ \/ auths' = auths
              \/ /\ auths' = [auths EXCEPT ![row[r]] = NULL]
                 /\ password[me[r]] \/ seen[r] # {row[r]}
<1>1. Cardinality({row[r]}) = 1
  BY FS_Singleton
<1> QED
  BY <1>1 DEF IInv, TypeOK, MemoryInv, Inserted, Unlink, UnlinkKeeping, Goto

\* What a request remembers stays right.
LEMMA MemoryStep == IInv /\ [Next]_vars => MemoryInv'
<1> SUFFICES ASSUME IInv, [Next]_vars PROVE MemoryInv'
  OBVIOUS
<1>0. TypeOK'
  BY TypeStep
<1> USE AccountsAssumption DEF IInv, TypeOK, MemoryInv, Goto, Active, Rows, RowsOf, Inserted, BeforeReading
<1>1. CASE UNCHANGED vars
  BY <1>1 DEF vars
<1>2. ASSUME NEW r \in Requests, Step(r) PROVE MemoryInv'
  <2>1. CASE Callback(r)
    BY <1>0, <2>1, CallbackEffect
  <2>2. CASE ValidateLink(r)
    BY <1>0, <2>2 DEF ValidateLink, ValidateLinkAgainst, ProfileOrDone
  <2>3. CASE InsertLink(r)
    BY <1>0, <2>3 DEF InsertLink, ProfileOrDone
  <2>4. CASE CreateWithAuthentication(r)
    BY <1>0, <2>4 DEF CreateWithAuthentication, CreateInserting, ProfileOrDone
  <2>5. CASE LinkGithubProfile(r)
    BY <1>0, <2>5 DEF LinkGithubProfile
  <2>6. CASE Register(r)
    BY <1>0, <2>6 DEF Register, Free
  <2>7. CASE ResetPassword(r)
    BY <1>0, <2>7 DEF ResetPassword, Free
  <2>8. CASE CountForUnlink(r)
    BY <1>0, <2>8 DEF CountForUnlink, Free
  <2>9. CASE Unlink(r)
    BY <1>0, <2>9 DEF Unlink, UnlinkKeeping
  <2>10. CASE ClearGithubProfile(r)
    BY <1>0, <2>10 DEF ClearGithubProfile
  <2>11. CASE LoadDependents(r)
    BY <1>0, <2>11 DEF LoadDependents, Free
  <2>12. CASE Deactivate(r)
    BY <1>0, <2>12 DEF Deactivate, DeactivateDeleting
  <2> QED
    BY <1>2, <2>1, <2>2, <2>3, <2>4, <2>5, <2>6, <2>7, <2>8, <2>9, <2>10, <2>11, <2>12 DEF Step
<1> QED
  BY <1>1, <1>2 DEF Next

\* Rows stay with the requests that inserted them and the users they are of.
LEMMA RowStep == IInv /\ [Next]_vars => RowInv'
<1> SUFFICES ASSUME IInv, [Next]_vars PROVE RowInv'
  OBVIOUS
<1>0. TypeOK'
  BY TypeStep
<1> USE AccountsAssumption DEF IInv, TypeOK, MemoryInv, RowInv, Goto, Active, Rows, RowsOf, Inserted, BeforeReading
<1>1. CASE UNCHANGED vars
  BY <1>1 DEF vars
<1>2. ASSUME NEW r \in Requests, Step(r) PROVE RowInv'
  <2>1. CASE Callback(r)
    <3>1. UNCHANGED <<auths, row, seen>> /\ seen[r] = {} /\ row[r] = NULL
      BY <2>1, CallbackEffect
    <3>2. /\ \A q \in Requests : pc[q] \in Inserted => pc'[q] \in Inserted
          /\ \A q \in Requests : q # r => pc'[q] = pc[q] /\ me'[q] = me[q]
      BY <2>1, CallbackEffect
    <3> QED
      BY <3>1, <3>2
  <2>2. CASE ValidateLink(r)
    BY <1>0, <2>2 DEF ValidateLink, ValidateLinkAgainst, ProfileOrDone
  <2>3. CASE InsertLink(r)
    BY <1>0, <2>3 DEF InsertLink, ProfileOrDone
  <2>4. CASE CreateWithAuthentication(r)
    BY <1>0, <2>4 DEF CreateWithAuthentication, CreateInserting, ProfileOrDone
  <2>5. CASE LinkGithubProfile(r)
    BY <1>0, <2>5 DEF LinkGithubProfile
  <2>6. CASE Register(r)
    BY <1>0, <2>6 DEF Register, Free
  <2>7. CASE ResetPassword(r)
    BY <1>0, <2>7 DEF ResetPassword, Free
  <2>8. CASE CountForUnlink(r)
    <3>1. PICK a \in Rows :
            /\ me' = [me EXCEPT ![r] = auths[a].user]
            /\ seen' = [seen EXCEPT ![r] = RowsOf(auths[a].user)]
      BY <2>8 DEF CountForUnlink
    <3>2. pc[r] = "idle" /\ pc' = [pc EXCEPT ![r] = "counted"] /\ auths' = auths
      BY <2>8 DEF CountForUnlink, Free
    <3>3. \A q \in Requests : pc[q] \in Inserted => pc'[q] \in Inserted
      BY <3>2
    <3>4. \A z \in seen'[r] : z \in Requests /\ auths[z] # NULL /\ auths[z].user = me'[r]
      BY <3>1
    <3>5. \A q \in Requests : q # r => seen'[q] = seen[q] /\ me'[q] = me[q]
      BY <3>1
    <3>6. \A q \in Requests : auths'[q] # NULL => pc'[q] \in Inserted
      BY <3>2, <3>3
    <3>7. \A z \in seen'[r] : pc'[z] \in Inserted
      BY <3>2, <3>4, <3>6
    <3>8. \A q \in Requests : q # r => \A z \in seen'[q] :
            pc'[z] \in Inserted /\ (auths'[z] # NULL => auths'[z].user = me'[q])
      BY <3>2, <3>3, <3>5
    <3> QED
      BY <3>2, <3>4, <3>6, <3>7, <3>8
  <2>9. CASE Unlink(r)
    <3>1. \A q \in Requests : auths'[q] # NULL => auths[q] # NULL /\ auths'[q] = auths[q]
      BY <2>9, UnlinkEffect
    <3>2. \A q \in Requests : pc[q] \in Inserted => pc'[q] \in Inserted
      BY <2>9, UnlinkEffect
    <3>3. UNCHANGED <<me, row, seen>>
      BY <2>9, UnlinkEffect
    <3> QED
      BY <3>1, <3>2, <3>3
  <2>10. CASE ClearGithubProfile(r)
    BY <1>0, <2>10 DEF ClearGithubProfile
  <2>11. CASE LoadDependents(r)
    BY <1>0, <2>11 DEF LoadDependents, Free
  <2>12. CASE Deactivate(r)
    BY <1>0, <2>12 DEF Deactivate, DeactivateDeleting
  <2> QED
    BY <1>2, <2>1, <2>2, <2>3, <2>4, <2>5, <2>6, <2>7, <2>8, <2>9, <2>10, <2>11, <2>12 DEF Step
<1> QED
  BY <1>1, <1>2 DEF Next

\* What earlier counts saw stays among what later ones saw.
LEMMA OrderStep == IInv /\ [Next]_vars => OrderInv'
<1> SUFFICES ASSUME IInv, [Next]_vars PROVE OrderInv'
  OBVIOUS
<1>0. TypeOK'
  BY TypeStep
<1> USE AccountsAssumption DEF IInv, TypeOK, MemoryInv, RowInv, OrderInv, Unlinking, Goto, Active, Rows, RowsOf, Inserted, BeforeReading
<1>1. CASE UNCHANGED vars
  BY <1>1 DEF vars
<1>2. ASSUME NEW r \in Requests, Step(r) PROVE OrderInv'
  <2>1. CASE Callback(r)
    <3>1. UNCHANGED <<auths, row, seen>> /\ seen[r] = {} /\ row[r] = NULL
      BY <2>1, CallbackEffect
    <3>2. /\ \A q \in Requests : pc[q] \in Inserted => pc'[q] \in Inserted
          /\ \A q \in Requests : q # r => pc'[q] = pc[q] /\ me'[q] = me[q]
      BY <2>1, CallbackEffect
    <3>3. pc'[r] # "counted"
      BY <2>1, CallbackEffect
    <3> QED
      BY <3>1, <3>2, <3>3
  <2>2. CASE ValidateLink(r)
    BY <1>0, <2>2 DEF ValidateLink, ValidateLinkAgainst, ProfileOrDone
  <2>3. CASE InsertLink(r)
    BY <1>0, <2>3 DEF InsertLink, ProfileOrDone
  <2>4. CASE CreateWithAuthentication(r)
    BY <1>0, <2>4 DEF CreateWithAuthentication, CreateInserting, ProfileOrDone
  <2>5. CASE LinkGithubProfile(r)
    BY <1>0, <2>5 DEF LinkGithubProfile
  <2>6. CASE Register(r)
    BY <1>0, <2>6 DEF Register, Free
  <2>7. CASE ResetPassword(r)
    BY <1>0, <2>7 DEF ResetPassword, Free
  <2>8. CASE CountForUnlink(r)
    BY <1>0, <2>8 DEF CountForUnlink, Free
  <2>9. CASE Unlink(r)
    <3>1. \A q \in Requests : auths'[q] # NULL => auths[q] # NULL /\ auths'[q] = auths[q]
      BY <2>9, UnlinkEffect
    <3>2. \A q \in Requests : pc'[q] = "counted" => pc[q] = "counted"
      BY <2>9, UnlinkEffect
    <3>3. UNCHANGED <<me, row, seen>>
      BY <2>9, UnlinkEffect
    <3> QED
      BY <3>1, <3>2, <3>3
  <2>10. CASE ClearGithubProfile(r)
    BY <1>0, <2>10 DEF ClearGithubProfile
  <2>11. CASE LoadDependents(r)
    BY <1>0, <2>11 DEF LoadDependents, Free
  <2>12. CASE Deactivate(r)
    BY <1>0, <2>12 DEF Deactivate, DeactivateDeleting
  <2> QED
    BY <1>2, <2>1, <2>2, <2>3, <2>4, <2>5, <2>6, <2>7, <2>8, <2>9, <2>10, <2>11, <2>12 DEF Step
<1> QED
  BY <1>1, <1>2 DEF Next

\* What a request that counted rows to unlink one remembers, it keeps.
LEMMA ReaderStep ==
    IInv /\ [Next]_vars =>
      \A q \in Requests : row[q] # NULL =>
         row'[q] = row[q] /\ seen'[q] = seen[q] /\ me'[q] = me[q]
<1> DEFINE KEEP == \A q \in Requests : row[q] # NULL =>
         row'[q] = row[q] /\ seen'[q] = seen[q] /\ me'[q] = me[q]
<1> SUFFICES ASSUME IInv, [Next]_vars PROVE KEEP
  OBVIOUS
<1> USE AccountsAssumption DEF IInv, TypeOK, MemoryInv, Goto, Inserted, BeforeReading
<1>1. CASE UNCHANGED vars
  BY <1>1 DEF vars
<1>2. ASSUME NEW r \in Requests, Step(r) PROVE KEEP
  <2>1. CASE Callback(r)
    BY <2>1, CallbackEffect
  <2>2. CASE ValidateLink(r)
    BY <2>2 DEF ValidateLink, ValidateLinkAgainst, ProfileOrDone
  <2>3. CASE InsertLink(r)
    BY <2>3 DEF InsertLink, ProfileOrDone
  <2>4. CASE CreateWithAuthentication(r)
    BY <2>4 DEF CreateWithAuthentication, CreateInserting, ProfileOrDone
  <2>5. CASE LinkGithubProfile(r)
    BY <2>5 DEF LinkGithubProfile
  <2>6. CASE Register(r)
    BY <2>6 DEF Register, Free
  <2>7. CASE ResetPassword(r)
    BY <2>7 DEF ResetPassword, Free
  <2>8. CASE CountForUnlink(r)
    BY <2>8 DEF CountForUnlink, Free
  <2>9. CASE Unlink(r)
    BY <2>9 DEF Unlink, UnlinkKeeping
  <2>10. CASE ClearGithubProfile(r)
    BY <2>10 DEF ClearGithubProfile
  <2>11. CASE LoadDependents(r)
    BY <2>11 DEF LoadDependents, Free
  <2>12. CASE Deactivate(r)
    BY <2>12 DEF Deactivate, DeactivateDeleting
  <2> QED
    BY <1>2, <2>1, <2>2, <2>3, <2>4, <2>5, <2>6, <2>7, <2>8, <2>9, <2>10, <2>11, <2>12 DEF Step
<1> QED
  BY <1>1, <1>2 DEF Next

\* An overlap once there stays on record.
LEMMA OverlapStep == IInv /\ [Next]_vars => \A u \in Users : Overlap(u) => Overlap(u)'
BY ReaderStep DEF Overlap

\* A request about to unlink is at one of its user's rows, having read it.
LEMMA UnlinkingFacts ==
    ASSUME IInv, NEW q \in Requests, pc[q] = "counted"
    PROVE  /\ row[q] \in Requests /\ row[q] # NULL /\ me[q] \in Users
           /\ row[q] \in seen[q] /\ seen[q] \subseteq Requests
           /\ \A z \in seen[q] : auths[z] # NULL => auths[z].user = me[q]
BY AccountsAssumption DEF IInv, TypeOK, MemoryInv, RowInv, Inserted

\* The row that another request's unlinking takes away is not the last but
\* its own that a request about to unlink has counted: the other one leaves a
\* row, and by the order of the counts both have seen that.
LEMMA UnlinkLeavesOther ==
    ASSUME IInv, NEW r \in Requests, Unlink(r),
           NEW q \in Requests, pc[q] = "counted", q # r, auths'[row[q]] # NULL,
           status[me[q]] = "active", ~password[me[q]], seen[q] # {row[q]},
           ~Overlap(me[q])
    PROVE  \E z \in seen[q] : z # row[q] /\ auths'[z] # NULL
<1>1. /\ row[q] \in Requests /\ row[q] # NULL /\ row[q] \in seen[q]
      /\ seen[q] \subseteq Requests
      /\ \A z \in seen[q] : auths[z] # NULL => auths[z].user = me[q]
  BY UnlinkingFacts
<1>2. pc[r] = "counted"
  BY UnlinkEffect
<1>3. /\ row[r] \in Requests /\ row[r] # NULL /\ row[r] \in seen[r]
      /\ seen[r] \subseteq Requests
      /\ \A z \in seen[r] : auths[z] # NULL => auths[z].user = me[r]
  BY <1>2, UnlinkingFacts
<1>4. auths \in [Requests -> [user : Users, identity : Identities] \cup {NULL}]
  BY DEF IInv, TypeOK
<1>5. /\ \A z \in Requests : z # row[r] => auths'[z] = auths[z]
      /\ auths'[row[r]] # NULL => auths' = auths
  BY <1>3, <1>4, UnlinkEffect
<1>6. Unlinking(q)
  BY <1>1, <1>5 DEF Unlinking
<1>7. PICK z \in seen[q] : z # row[q] /\ auths[z] # NULL
  BY <1>6 DEF IInv, OtherInv
<1>8. CASE auths'[z] # NULL
  BY <1>7, <1>8
<1>9. CASE auths'[z] = NULL
  <2>1. z = row[r] /\ row[r] # row[q]
    BY <1>1, <1>5, <1>7, <1>9
  <2>2. me[r] = me[q]
    BY <1>1, <1>3, <1>7, <2>1
  <2>3. row[q] \notin seen[r]
    BY <1>1, <1>3, <2>1, <2>2 DEF Overlap
  <2>4. seen[r] # {row[r]}
    BY <1>7, <1>9, <2>1, <2>2, UnlinkEffect
  <2>5. Unlinking(r)
    BY <1>2, <1>7, <2>1 DEF Unlinking
  <2>6. PICK y \in seen[r] : y # row[r] /\ auths[y] # NULL
    BY <2>2, <2>4, <2>5 DEF IInv, OtherInv
  <2>7. y \in seen[q]
    BY <1>3, <1>6, <2>2, <2>3, <2>6 DEF IInv, OrderInv
  <2> QED
    BY <1>3, <1>5, <2>3, <2>6, <2>7
<1> QED
  BY <1>8, <1>9

\* Who is about to unlink one of several rows leaves one.
LEMMA OtherStep == IInv /\ [Next]_vars => OtherInv'
<1> SUFFICES ASSUME IInv, [Next]_vars PROVE OtherInv'
  OBVIOUS
<1>0. TypeOK'
  BY TypeStep
<1>3. \A u \in Users : Overlap(u) => Overlap(u)'
  BY OverlapStep
<1> USE AccountsAssumption DEF IInv, TypeOK, MemoryInv, RowInv, OtherInv, Unlinking, Goto, Active, Rows, RowsOf, Inserted, BeforeReading
<1>1. CASE UNCHANGED vars
  BY <1>1, <1>3 DEF vars
<1>2. ASSUME NEW r \in Requests, Step(r) PROVE OtherInv'
  <2>1. CASE Callback(r)
    <3>1. UNCHANGED <<status, password, auths, row, seen>> /\ pc'[r] # "counted"
      BY <2>1, CallbackEffect
    <3>2. \A q \in Requests : q # r => pc'[q] = pc[q] /\ me'[q] = me[q]
      BY <2>1, CallbackEffect
    <3>3. \A q \in Requests : pc[q] = "counted" => me[q] \in Users
      OBVIOUS
    <3> QED
      BY <1>3, <3>1, <3>2, <3>3
  <2>2. CASE ValidateLink(r)
    BY <1>0, <1>3, <2>2 DEF ValidateLink, ValidateLinkAgainst, ProfileOrDone
  <2>3. CASE InsertLink(r)
    BY <1>0, <1>3, <2>3 DEF InsertLink, ProfileOrDone
  <2>4. CASE CreateWithAuthentication(r)
    BY <1>0, <1>3, <2>4 DEF CreateWithAuthentication, CreateInserting, ProfileOrDone
  <2>5. CASE LinkGithubProfile(r)
    BY <1>0, <1>3, <2>5 DEF LinkGithubProfile
  <2>6. CASE Register(r)
    BY <1>0, <1>3, <2>6 DEF Register, Free
  <2>7. CASE ResetPassword(r)
    BY <1>0, <1>3, <2>7 DEF ResetPassword, Free
  <2>8. CASE CountForUnlink(r)
    BY <1>0, <1>3, <2>8 DEF CountForUnlink, Free
  <2>9. CASE Unlink(r)
    <3> SUFFICES ASSUME NEW q \in Requests, Unlinking(q)',
                        status[me[q]] = "active", ~password[me[q]],
                        seen[q] # {row[q]}, ~Overlap(me[q])
                 PROVE  \E z \in seen[q] : z # row[q] /\ auths'[z] # NULL
      <4>1. UNCHANGED <<status, password, me, row, seen>>
        BY <2>9, UnlinkEffect
      <4>2. \A q \in Requests : pc'[q] = "counted" => me[q] \in Users
        BY <1>0, <4>1, MemoryStep
      <4> QED
        BY <1>3, <4>1, <4>2
    <3>1. row'[q] = row[q] /\ pc'[q] = "counted" /\ auths'[row'[q]] # NULL
      BY <2>9, UnlinkEffect
    <3>2. q # r /\ pc[q] = "counted"
      BY <2>9, <3>1, UnlinkEffect
    <3> HIDE DEF IInv, TypeOK, MemoryInv, RowInv, OtherInv
    <3> QED
      BY <2>9, <3>1, <3>2, UnlinkLeavesOther
  <2>10. CASE ClearGithubProfile(r)
    BY <1>0, <1>3, <2>10 DEF ClearGithubProfile
  <2>11. CASE LoadDependents(r)
    BY <1>0, <1>3, <2>11 DEF LoadDependents, Free
  <2>12. CASE Deactivate(r)
    <3>1. /\ UNCHANGED <<password, me, row, seen>>
          /\ pc' = [pc EXCEPT ![r] = "done"]
          /\ status' = [status EXCEPT ![me[r]] = "deactivated"]
          /\ \A z \in Requests : auths'[z] = IF z \in seen[r] THEN NULL ELSE auths[z]
      BY <2>12 DEF Deactivate, DeactivateDeleting
    <3> SUFFICES ASSUME NEW q \in Requests, Unlinking(q)',
                        status'[me[q]] = "active", ~password[me[q]],
                        seen[q] # {row[q]}, ~Overlap(me[q])
                 PROVE  \E z \in seen[q] : z # row[q] /\ auths'[z] # NULL
      <4>1. \A q \in Requests : pc'[q] = "counted" => me[q] \in Users
        BY <3>1
      <4>2. \A q \in Requests :
              pc'[q] = "counted" /\ Overlap(me[q]) => Overlap(me[q])'
        BY <1>3, <3>1, <4>1
      <4>3. \A q \in Requests :
              me'[q] = me[q] /\ password'[me'[q]] = password[me[q]]
              /\ row'[q] = row[q] /\ seen'[q] = seen[q]
        BY <3>1
      <4> QED
        BY <4>2, <4>3
    <3>2. q # r /\ pc[q] = "counted" /\ row[q] \in Requests /\ me[q] # me[r]
      BY <2>12, <3>1 DEF Deactivate, DeactivateDeleting
    <3>3. status[me[q]] = "active" /\ auths[row[q]] # NULL
      BY <3>1, <3>2
    <3>4. PICK z \in seen[q] : z # row[q] /\ auths[z] # NULL
      BY <3>2, <3>3
    <3>5. z \notin seen[r]
      BY <3>2, <3>4
    <3> QED
      BY <3>1, <3>4, <3>5
  <2> QED
    BY <1>2, <2>1, <2>2, <2>3, <2>4, <2>5, <2>6, <2>7, <2>8, <2>9, <2>10, <2>11, <2>12 DEF Step
<1> QED
  BY <1>1, <1>2 DEF Next

\* What signing up changes: a new account has a password or a row.
LEMMA RegisterEffect ==
    ASSUME IInv, NEW r \in Requests, Register(r)
    PROVE  /\ \A a \in Requests : auths[a] # NULL => auths'[a] = auths[a]
           /\ \E new \in Users :
                /\ status' = [status EXCEPT ![new] = "active"]
                /\ \A v \in Users : v # new => password'[v] = password[v]
                /\ password'[new] \/ (auths'[r] # NULL /\ auths'[r].user = new)
<1>1. PICK new \in Users, i \in offered \cup {NULL}, given \in BOOLEAN :
        /\ i = NULL => given
        /\ status' = [status EXCEPT ![new] = "active"]
        /\ password' = [password EXCEPT ![new] = given]
        /\ auths' = [auths EXCEPT ![r] =
                       IF i = NULL THEN NULL ELSE [user |-> new, identity |-> i]]
  BY DEF Register
<1>2. /\ password \in [Users -> BOOLEAN] /\ offered \subseteq Identities
      /\ auths \in [Requests -> [user : Users, identity : Identities] \cup {NULL}]
  BY DEF IInv, TypeOK
<1>3. auths[r] = NULL
  BY DEF IInv, RowInv, Register, Free, Inserted
<1>4. \A a \in Requests : auths[a] # NULL => auths'[a] = auths[a]
  BY <1>1, <1>2, <1>3
<1>5. \A v \in Users : v # new => password'[v] = password[v]
  BY <1>1, <1>2
<1>6. password'[new] \/ (auths'[r] # NULL /\ auths'[r].user = new)
  <2>1. CASE i = NULL
    BY <1>1, <1>2, <2>1
  <2>2. CASE i # NULL
    <3>1. auths'[r] = [user |-> new, identity |-> i] /\ i \in Identities
      BY <1>1, <1>2, <2>2
    <3> QED
      BY <3>1, ARow
  <2> QED
    BY <2>1, <2>2
<1> QED
  BY <1>1, <1>4, <1>5, <1>6

\* No step locks a member out but the second of an overlap.
LEMMA LockoutStep == IInv /\ [Next]_vars => LockoutNeedsOverlap'
<1> SUFFICES ASSUME IInv, [Next]_vars PROVE LockoutNeedsOverlap'
  OBVIOUS
<1>0. TypeOK'
  BY TypeStep
<1>3. \A u \in Users : Overlap(u) => Overlap(u)'
  BY OverlapStep
<1> USE AccountsAssumption DEF IInv, TypeOK, MemoryInv, RowInv, LockoutNeedsOverlap, Goto, Active, Inserted, BeforeReading
<1>4. /\ \A u : LockedOut(u) <=>
           /\ u \in Users /\ status[u] = "active" /\ ~password[u]
           /\ \A a \in Requests : auths[a] # NULL => auths[a].user # u
      /\ (\A u : LockedOut(u) <=>
            /\ u \in Users /\ status[u] = "active" /\ ~password[u]
            /\ \A a \in Requests : auths[a] # NULL => auths[a].user # u)'
  BY DEF LockedOut, Rows, RowsOf
<1>1. CASE UNCHANGED vars
  BY <1>1, <1>3, <1>4 DEF vars
<1>2. ASSUME NEW r \in Requests, Step(r) PROVE LockoutNeedsOverlap'
  <2>1. CASE Callback(r)
    BY <1>0, <1>3, <1>4, <2>1, CallbackEffect
  <2>2. CASE ValidateLink(r)
    BY <1>0, <1>3, <1>4, <2>2 DEF ValidateLink, ValidateLinkAgainst, ProfileOrDone
  <2>3. CASE InsertLink(r)
    BY <1>0, <1>3, <1>4, <2>3 DEF InsertLink, ProfileOrDone
  <2>4. CASE CreateWithAuthentication(r)
    <3> DEFINE new == EmailOf[identity[r]]
    <3>1. /\ new \in Users /\ identity[r] \in Identities
          /\ auths[r] = NULL /\ row[r] = NULL
      BY <2>4 DEF CreateWithAuthentication, CreateInserting
    <3>2. CASE UNCHANGED <<status, auths>>
      BY <1>3, <1>4, <2>4, <3>2 DEF CreateWithAuthentication, CreateInserting
    <3>3. CASE /\ status' = [status EXCEPT ![new] = "active"]
               /\ auths' = [auths EXCEPT ![r] = [user |-> new, identity |-> identity[r]]]
      <4>1. auths'[r].user = new /\ auths'[r] # NULL
        BY <3>1, <3>3, ARow
      <4>2. \A a \in Requests : auths[a] # NULL => auths'[a] = auths[a]
        BY <3>1, <3>3
      <4>3. \A u \in Users : u # new => status'[u] = status[u]
        BY <3>3
      <4>4. password' = password
        BY <2>4 DEF CreateWithAuthentication, CreateInserting
      <4>5. ASSUME NEW u \in Users, LockedOut(u)' PROVE LockedOut(u)
        <5>1. u # new
          BY <1>4, <4>1, <4>5
        <5> QED
          BY <1>4, <4>2, <4>3, <4>4, <4>5, <5>1
      <4> QED
        BY <1>3, <4>5
    <3> QED
      BY <2>4, <3>2, <3>3 DEF CreateWithAuthentication, CreateInserting
  <2>5. CASE LinkGithubProfile(r)
    BY <1>0, <1>3, <1>4, <2>5 DEF LinkGithubProfile
  <2>6. CASE Register(r)
    <3>1. PICK new \in Users :
            /\ status' = [status EXCEPT ![new] = "active"]
            /\ \A v \in Users : v # new => password'[v] = password[v]
            /\ password'[new] \/ (auths'[r] # NULL /\ auths'[r].user = new)
      BY <2>6, RegisterEffect
    <3>4. \A a \in Requests : auths[a] # NULL => auths'[a] = auths[a]
      BY <2>6, RegisterEffect
    <3>5. \A v \in Users : v # new => status'[v] = status[v] /\ password'[v] = password[v]
      BY <3>1
    <3>6. ASSUME NEW u \in Users, LockedOut(u)' PROVE LockedOut(u)
      <4>1. u # new
        BY <1>4, <3>1, <3>6
      <4>2. status[u] = "active" /\ ~password[u]
        BY <1>4, <3>5, <3>6, <4>1
      <4>3. \A a \in Requests : auths[a] # NULL => auths[a].user # u
        BY <1>4, <3>4, <3>6
      <4> QED
        BY <1>4, <4>2, <4>3
    <3> QED
      BY <1>3, <3>6
  <2>7. CASE ResetPassword(r)
    BY <1>0, <1>3, <1>4, <2>7 DEF ResetPassword, Free
  <2>8. CASE CountForUnlink(r)
    BY <1>0, <1>3, <1>4, <2>8 DEF CountForUnlink, Free
  <2>9. CASE Unlink(r)
    <3> SUFFICES ASSUME NEW u \in Users, LockedOut(u)', ~LockedOut(u), ~Overlap(u)
                 PROVE  FALSE
      BY <1>3
    <3>1. /\ pc[r] = "counted" /\ row[r] \in Requests
          /\ UNCHANGED <<status, password, me, row, seen>>
          /\ \A z \in Requests : z # row[r] => auths'[z] = auths[z]
      BY <2>9, UnlinkEffect
    <3>2. auths[row[r]] # NULL /\ auths[row[r]].user = u
      BY <1>4, <3>1
    <3>3. me[r] = u /\ status[u] = "active" /\ ~password[u]
      BY <1>4, <3>1, <3>2
    <3>4. seen[r] # {row[r]}
      <4>1. auths' # auths
        BY <1>4, <3>1
      <4> QED
        BY <2>9, <3>3, <4>1, UnlinkEffect
    <3>5. PICK z \in seen[r] : z # row[r] /\ auths[z] # NULL
      BY <3>1, <3>2, <3>3, <3>4 DEF OtherInv, Unlinking
    <3>6. auths'[z] # NULL /\ auths'[z].user = u
      BY <3>1, <3>3, <3>5
    <3> QED
      BY <1>4, <3>5, <3>6
  <2>10. CASE ClearGithubProfile(r)
    BY <1>0, <1>3, <1>4, <2>10 DEF ClearGithubProfile
  <2>11. CASE LoadDependents(r)
    BY <1>0, <1>3, <1>4, <2>11 DEF LoadDependents, Free
  <2>12. CASE Deactivate(r)
    <3>1. /\ UNCHANGED <<password, me, row, seen>>
          /\ status' = [status EXCEPT ![me[r]] = "deactivated"]
          /\ \A z \in Requests : auths'[z] = IF z \in seen[r] THEN NULL ELSE auths[z]
          /\ me[r] \in Users
      BY <2>12 DEF Deactivate, DeactivateDeleting
    <3> SUFFICES ASSUME NEW u \in Users, LockedOut(u)', ~LockedOut(u)
                 PROVE  FALSE
      BY <1>3
    <3>2. status[u] = "active" /\ ~password[u] /\ u # me[r]
      BY <1>4, <3>1
    <3>3. PICK z \in Requests : auths[z] # NULL /\ auths[z].user = u
      BY <1>4, <3>2
    <3> QED
      BY <1>4, <3>1, <3>2, <3>3
  <2> QED
    BY <1>2, <2>1, <2>2, <2>3, <2>4, <2>5, <2>6, <2>7, <2>8, <2>9, <2>10, <2>11, <2>12 DEF Step
<1> QED
  BY <1>1, <1>2 DEF Next

\* The accounts begin in the invariant.
LEMMA InitIInv == Init => IInv
BY AccountsAssumption DEF Init, IInv, TypeOK, MemoryInv, RowInv, OrderInv, OtherInv,
   Unlinking, LockoutNeedsOverlap, LockedOut, Active, Rows, Inserted, BeforeReading

\* However sign-ups, callbacks and removals of identities overlap, the inductive
\* invariant holds (authentications_controller.rb, registrations_controller.rb).
THEOREM Invariant == Spec => []IInv
<1>1. IInv /\ [Next]_vars => IInv'
  BY TypeStep, MemoryStep, RowStep, OrderStep, OtherStep, LockoutStep DEF IInv
<1> QED
  BY InitIInv, <1>1, PTL DEF Spec

\* Every variable keeps its type, for any number of requests.
THEOREM TypeCorrect == Spec => []TypeOK
<1>1. IInv => TypeOK
  BY DEF IInv
<1> QED
  BY Invariant, <1>1, PTL

\* AuthenticationsController#destroy locks nobody out but by two overlapping
\* requests for the same user, whatever else happens in between.
THEOREM LockoutTheorem == Spec => []LockoutNeedsOverlap
<1>1. IInv => LockoutNeedsOverlap
  BY DEF IInv
<1> QED
  BY Invariant, <1>1, PTL

-----------------------------------------------------------------------------
(***************************************************************************)
(* What holds while requests of several steps come one at a time.  Those   *)
(* of one step, a sign-up, a new password, a sign-in, may come in between. *)
(***************************************************************************)
Alone == IsFiniteSet(Open) /\ \A p, q \in Open : p = q

\* What the one request has read is still so.
FreshInv ==
    \A r \in Requests :
        /\ pc[r] = "idle" => identity[r] = NULL
        /\ pc[r] \in {"found", "checked"} =>
             /\ me[r] \in Active \cup {NULL}
             /\ \A a \in Rows : identity[a] # NULL => auths[a].identity # identity[r]
        /\ pc[r] = "checked" /\ me[r] # NULL => ~HasProvider(me[r], ProviderOf[identity[r]])
        /\ pc[r] = "loaded" => seen[r] = RowsOf(me[r])

SerialInv ==
    /\ Alone
    /\ FreshInv
    /\ OneOfEachProvider
    /\ RowsOfActiveAccounts
    /\ CallbackLinksFreeIdentities

SerialIInv == IInv /\ IsFiniteSet(Open) /\ (~overlapped => SerialInv)

\* What a step leaves alone: the other requests, and its own identity when it
\* has inserted a row.
Unmoved(q) ==
    /\ pc'[q] = pc[q] /\ me'[q] = me[q]
    /\ identity'[q] = identity[q] /\ seen'[q] = seen[q]

\* A step moves one request, and opens no other.
LEMMA StepsOne ==
    ASSUME IInv, NEW r \in Requests, Step(r)
    PROVE  /\ \A q \in Requests \ {r} : Unmoved(q)
           /\ Open' \subseteq Open \cup {r}
           /\ r \in Open \/ r \in Open' \/ (pc[r] = "idle" /\ pc'[r] = "done")
           /\ pc'[r] # "idle"
           /\ r \in Rows => pc[r] = "profile" /\ identity'[r] = identity[r]
<1>1. /\ pc \in [Requests -> {"idle", "found", "checked", "counted", "profile", "loaded", "done"}]
      /\ DOMAIN me = Requests /\ DOMAIN identity = Requests /\ DOMAIN seen = Requests
      /\ r \in Rows => pc[r] \in {"profile", "done"}
  BY DEF IInv, TypeOK, RowInv, Rows, Inserted
<1>2. CASE Callback(r) \/ Register(r) \/ ResetPassword(r) \/ CountForUnlink(r) \/ LoadDependents(r)
  <2>1. pc[r] = "idle" /\ pc'[r] # "idle" /\ pc'[r] \in {"found", "profile", "done", "counted", "loaded"}
    <3>1. CASE Callback(r)
      BY <1>1, <3>1, CallbackEffect
    <3>2. CASE Register(r) \/ ResetPassword(r) \/ CountForUnlink(r) \/ LoadDependents(r)
      BY <1>1, <3>2 DEF Register, ResetPassword, CountForUnlink, LoadDependents, Goto, Free
    <3> QED
      BY <1>2, <3>1, <3>2
  <2>2. ASSUME NEW q \in Requests \ {r} PROVE Unmoved(q)
    <3>1. CASE Callback(r)
      <4>1. seen' = seen
        BY <3>1, CallbackEffect
      <4>2. PICK u \in Users \cup {NULL}, i \in Identities, label \in {"found", "profile", "done"} :
              /\ pc' = [pc EXCEPT ![r] = label]
              /\ me' = [me EXCEPT ![r] = u]
              /\ identity' = [identity EXCEPT ![r] = i]
        BY <3>1, CallbackEffect
      <4> QED
        BY <1>1, <4>1, <4>2 DEF Unmoved
    <3>2. CASE Register(r) \/ ResetPassword(r) \/ CountForUnlink(r) \/ LoadDependents(r)
      BY <1>1, <3>2 DEF Unmoved, Register, ResetPassword, CountForUnlink, LoadDependents, Goto
    <3> QED
      BY <1>2, <3>1, <3>2
  <2>3. Open' \subseteq Open \cup {r}
    BY <2>2 DEF Open, Unmoved
  <2> QED
    BY <1>1, <2>1, <2>2, <2>3 DEF Open
<1>3. CASE ValidateLink(r) \/ InsertLink(r) \/ CreateWithAuthentication(r)
  <2>1. pc[r] \in {"found", "checked"} /\ pc'[r] \in {"checked", "profile", "done"}
    BY <1>1, <1>3 DEF ValidateLink, ValidateLinkAgainst, InsertLink, CreateWithAuthentication,
                      CreateInserting, Goto, ProfileOrDone
  <2>2. \A q \in Requests \ {r} : Unmoved(q)
    BY <1>1, <1>3 DEF Unmoved, ValidateLink, ValidateLinkAgainst, InsertLink, CreateWithAuthentication,
                CreateInserting, Goto
  <2>3. Open' \subseteq Open \cup {r}
    BY <2>2 DEF Open, Unmoved
  <2> QED
    BY <1>1, <2>1, <2>2, <2>3 DEF Open
<1>4. CASE LinkGithubProfile(r) \/ Unlink(r) \/ ClearGithubProfile(r) \/ Deactivate(r)
  <2>1. /\ pc[r] \in {"profile", "counted", "loaded"} /\ pc'[r] \in {"profile", "done"}
        /\ pc[r] = "profile" => UNCHANGED identity
    BY <1>1, <1>4 DEF LinkGithubProfile, Unlink, UnlinkKeeping, ClearGithubProfile, Deactivate,
                      DeactivateDeleting, Goto
  <2>2. \A q \in Requests \ {r} : Unmoved(q)
    BY <1>1, <1>4 DEF Unmoved, LinkGithubProfile, Unlink, UnlinkKeeping, ClearGithubProfile, Deactivate,
                DeactivateDeleting, Goto
  <2>3. Open' \subseteq Open \cup {r}
    BY <2>2 DEF Open, Unmoved
  <2> QED
    BY <1>1, <2>1, <2>2, <2>3 DEF Open
<1> QED
  BY <1>2, <1>3, <1>4 DEF Step

\* Which steps touch accounts and rows.
LEMMA QuietSteps ==
    ASSUME IInv, NEW r \in Requests, Step(r)
    PROVE  \/ UNCHANGED <<status, auths>>
           \/ InsertLink(r) \/ CreateWithAuthentication(r) \/ Register(r)
           \/ Unlink(r) \/ Deactivate(r)
BY CallbackEffect
   DEF Step, ValidateLink, ValidateLinkAgainst, LinkGithubProfile, ResetPassword,
       CountForUnlink, ClearGithubProfile, LoadDependents

\* A row is inserted: for an account that is active then, and has no other
\* of the provider; by a callback only if no callback's row has the identity.
LEMMA InsertKeeps ==
    ASSUME IInv, SerialInv, NEW r \in Requests, NEW u \in Users, NEW i \in Identities,
           auths' = [auths EXCEPT ![r] = [user |-> u, identity |-> i]],
           auths[r] = NULL,
           \A q \in Requests : auths[q] # NULL => identity'[q] = identity[q],
           \A v \in Active : v \in Active',
           u \in Active',
           ~HasProvider(u, ProviderOf[i]),
           identity'[r] = NULL \/ \A a \in Rows : identity[a] # NULL => auths[a].identity # i
    PROVE  OneOfEachProvider' /\ RowsOfActiveAccounts' /\ CallbackLinksFreeIdentities'
<1> DEFINE new == [user |-> u, identity |-> i]
<1>1. new # NULL /\ new.user = u /\ new.identity = i
  BY ARow
<1>2. /\ auths \in [Requests -> [user : Users, identity : Identities] \cup {NULL}]
      /\ OneOfEachProvider /\ RowsOfActiveAccounts /\ CallbackLinksFreeIdentities
  BY DEF IInv, TypeOK, SerialInv
<1> HIDE DEF new
<1>3. /\ Rows' = Rows \cup {r} /\ r \notin Rows
      /\ \A a \in Rows : auths'[a] = auths[a] /\ identity'[a] = identity[a]
      /\ auths'[r] = new
  BY <1>1, <1>2 DEF Rows, new
<1>4. \A a \in Rows : auths[a].user = u => ProviderOf[auths[a].identity] # ProviderOf[i]
  BY DEF HasProvider, RowsOf
<1>5. OneOfEachProvider'
  BY <1>1, <1>2, <1>3, <1>4 DEF OneOfEachProvider
<1>6. RowsOfActiveAccounts'
  BY <1>1, <1>2, <1>3 DEF RowsOfActiveAccounts
<1>7. CallbackLinksFreeIdentities'
  BY <1>1, <1>2, <1>3 DEF CallbackLinksFreeIdentities
<1> QED
  BY <1>5, <1>6, <1>7

\* Rows are only removed.
LEMMA RemoveKeeps ==
    ASSUME SerialInv,
           \A a \in Requests : auths'[a] # NULL =>
               auths'[a] = auths[a] /\ identity'[a] = identity[a] /\ auths[a].user \in Active'
    PROVE  OneOfEachProvider' /\ RowsOfActiveAccounts' /\ CallbackLinksFreeIdentities'
BY DEF SerialInv, OneOfEachProvider, RowsOfActiveAccounts, CallbackLinksFreeIdentities, Rows

\* Every step keeps what is said of the rows.
LEMMA SerialRowsStep ==
    ASSUME IInv, SerialInv, NEW r \in Requests, Step(r)
    PROVE  OneOfEachProvider' /\ RowsOfActiveAccounts' /\ CallbackLinksFreeIdentities'
<1>1. /\ auths \in [Requests -> [user : Users, identity : Identities] \cup {NULL}]
      /\ status \in [Users -> {"none", "active", "deactivated"}]
      /\ DOMAIN identity = Requests /\ me \in [Requests -> Users \cup {NULL}]
      /\ FreshInv /\ RowsOfActiveAccounts
      /\ \A a \in Rows : status[auths[a].user] # "none"
  BY DEF IInv, TypeOK, SerialInv
<1>2. \A a \in Rows : identity'[a] = identity[a]
  <2>1. \A a \in Rows : a # r => Unmoved(a)
    BY StepsOne DEF Rows
  <2> QED
    BY <2>1, StepsOne DEF Unmoved
<1>3. CASE UNCHANGED <<status, auths>>
  <2>1. \A a \in Requests : auths'[a] # NULL =>
          auths'[a] = auths[a] /\ identity'[a] = identity[a] /\ auths[a].user \in Active'
    BY <1>1, <1>2, <1>3 DEF Rows, Active, RowsOfActiveAccounts
  <2> QED
    BY <2>1, RemoveKeeps
<1>4. \A u \in Users : status[u] = "none" => \A provider : ~HasProvider(u, provider)
  BY <1>1 DEF HasProvider, RowsOf
<1>5. pc[r] # "profile" => auths[r] = NULL
  BY StepsOne DEF Rows
<1>6. \A q \in Requests : auths[q] # NULL => identity'[q] = identity[q]
  BY <1>2 DEF Rows
<1>7. CASE InsertLink(r)
  <2>1. /\ pc[r] = "checked" /\ me[r] # NULL /\ me[r] \in Users
        /\ auths' = [auths EXCEPT ![r] = [user |-> me[r], identity |-> identity[r]]]
        /\ status' = status
    BY <1>1, <1>7 DEF InsertLink
  <2>2. /\ me[r] \in Active /\ ~HasProvider(me[r], ProviderOf[identity[r]])
        /\ \A a \in Rows : identity[a] # NULL => auths[a].identity # identity[r]
        /\ identity[r] \in Identities
    BY <1>1, <2>1 DEF FreshInv, IInv, MemoryInv
  <2>3. Active' = Active
    BY <2>1 DEF Active
  <2> QED
    BY <1>5, <1>6, <2>1, <2>2, <2>3, InsertKeeps
<1>8. CASE CreateWithAuthentication(r)
  <2> DEFINE u == EmailOf[identity[r]]
  <2>1. /\ pc[r] = "found" /\ identity[r] \in Identities
        /\ \A a \in Rows : identity[a] # NULL => auths[a].identity # identity[r]
    BY <1>1, <1>8 DEF FreshInv, IInv, MemoryInv, CreateWithAuthentication, CreateInserting
  <2>2. u \in Users
    BY <2>1, AccountsAssumption
  <2>3. \/ UNCHANGED <<status, auths>>
        \/ /\ status[u] = "none" /\ status' = [status EXCEPT ![u] = "active"]
           /\ auths' = [auths EXCEPT ![r] = [user |-> u, identity |-> identity[r]]]
    BY <1>8 DEF CreateWithAuthentication, CreateInserting
  <2> HIDE DEF u
  <2>4. CASE status[u] = "none" /\ status' = [status EXCEPT ![u] = "active"]
             /\ auths' = [auths EXCEPT ![r] = [user |-> u, identity |-> identity[r]]]
    <3>1. u \in Active' /\ \A v \in Active : v \in Active'
      BY <1>1, <2>2, <2>4 DEF Active
    <3>2. ~HasProvider(u, ProviderOf[identity[r]])
      BY <1>4, <2>2, <2>4
    <3> QED
      BY <1>5, <1>6, <2>1, <2>2, <2>4, <3>1, <3>2, InsertKeeps
  <2> QED
    BY <1>3, <2>3, <2>4
<1>9. CASE Register(r)
  <2>1. PICK u \in Users, i \in offered \cup {NULL} :
          /\ status[u] = "none" /\ status' = [status EXCEPT ![u] = "active"]
          /\ auths' = [auths EXCEPT ![r] = IF i = NULL THEN NULL ELSE [user |-> u, identity |-> i]]
    BY <1>9 DEF Register
  <2>2. pc[r] = "idle" /\ identity' = identity
    BY <1>9 DEF Register, Free
  <2>3. u \in Active' /\ \A v \in Active : v \in Active'
    BY <1>1, <2>1 DEF Active
  <2>4. CASE i = NULL
    <3>1. auths' = auths
      BY <1>1, <1>5, <2>1, <2>2, <2>4
    <3>2. \A a \in Requests : auths'[a] # NULL =>
            auths'[a] = auths[a] /\ identity'[a] = identity[a] /\ auths[a].user \in Active'
      BY <1>1, <2>2, <2>3, <3>1 DEF RowsOfActiveAccounts, Rows
    <3> QED
      BY <3>2, RemoveKeeps
  <2>5. CASE i # NULL
    <3>1. i \in Identities /\ auths' = [auths EXCEPT ![r] = [user |-> u, identity |-> i]]
      BY <2>1, <2>5 DEF IInv, TypeOK
    <3>2. identity'[r] = NULL
      BY <1>1, <2>2 DEF FreshInv
    <3>3. ~HasProvider(u, ProviderOf[i])
      BY <1>4, <2>1
    <3> QED
      BY <1>5, <1>6, <2>2, <2>3, <3>1, <3>2, <3>3, InsertKeeps
  <2> QED
    BY <2>4, <2>5
<1>10. CASE Unlink(r)
  <2>1. /\ status' = status
        /\ auths' = auths \/ auths' = [auths EXCEPT ![row[r]] = NULL]
    BY <1>10, UnlinkEffect
  <2>2. \A a \in Requests : auths'[a] # NULL => auths'[a] = auths[a]
    BY <1>1, <2>1
  <2>3. \A a \in Requests : auths'[a] # NULL =>
          auths'[a] = auths[a] /\ identity'[a] = identity[a] /\ auths[a].user \in Active'
    BY <1>1, <1>6, <2>1, <2>2 DEF RowsOfActiveAccounts, Rows, Active
  <2> QED
    BY <2>3, RemoveKeeps
<1>11. CASE Deactivate(r)
  <2>1. /\ pc[r] = "loaded" /\ status' = [status EXCEPT ![me[r]] = "deactivated"]
        /\ \A a \in Requests : auths'[a] = IF a \in seen[r] THEN NULL ELSE auths[a]
    BY <1>11 DEF Deactivate, DeactivateDeleting
  <2>2. seen[r] = RowsOf(me[r])
    BY <1>1, <2>1 DEF FreshInv
  <2>3. \A a \in Requests : auths'[a] # NULL =>
          auths'[a] = auths[a] /\ identity'[a] = identity[a] /\ auths[a].user \in Active'
    BY <1>1, <1>6, <2>1, <2>2 DEF RowsOfActiveAccounts, Rows, RowsOf, Active
  <2> QED
    BY <2>3, RemoveKeeps
<1> QED
  BY <1>3, <1>7, <1>8, <1>9, <1>10, <1>11, QuietSteps

\* A step beside an open request is one of a single step, which inserts, if
\* anything, a row for a new account.
LEMMA BesideStep ==
    ASSUME IInv, SerialInv, Alone', NEW r \in Requests, Step(r),
           NEW q \in Open, q # r
    PROVE  UNCHANGED <<status, auths>> \/ Register(r)
<1>1. pc'[q] = pc[q] /\ q \in Open'
  BY StepsOne DEF Unmoved, Open
<1>2. r \notin Open /\ r \notin Open'
  BY <1>1 DEF SerialInv, Alone
<1>3. pc[r] = "idle" /\ pc'[r] = "done"
  BY <1>2, StepsOne
<1> QED
  BY <1>3, QuietSteps
     DEF InsertLink, CreateWithAuthentication, CreateInserting, Unlink, UnlinkKeeping,
         Deactivate, DeactivateDeleting

\* What the others have read stays so.
LEMMA FreshBeside ==
    ASSUME IInv, SerialInv, Alone', NEW r \in Requests, Step(r), NEW q \in Requests, q # r
    PROVE  /\ pc'[q] = "idle" => identity'[q] = NULL
           /\ pc'[q] \in {"found", "checked"} =>
                /\ me'[q] \in Active' \cup {NULL}
                /\ \A a \in Rows' : identity'[a] # NULL => auths'[a].identity # identity'[q]
           /\ pc'[q] = "checked" /\ me'[q] # NULL => ~HasProvider(me[q], ProviderOf[identity[q]])'
           /\ pc'[q] = "loaded" => seen'[q] = RowsOf(me[q])'
<1>1. /\ Unmoved(q) /\ FreshInv
      /\ auths \in [Requests -> [user : Users, identity : Identities] \cup {NULL}]
      /\ status \in [Users -> {"none", "active", "deactivated"}]
      /\ DOMAIN identity = Requests
  BY StepsOne DEF SerialInv, IInv, TypeOK
<1>2. \A a \in Rows : identity'[a] = identity[a]
  <2>1. \A a \in Rows : a # r => Unmoved(a)
    BY StepsOne DEF Rows
  <2> QED
    BY <2>1, StepsOne DEF Unmoved
<1>3. CASE UNCHANGED <<status, auths>>
  BY <1>1, <1>2, <1>3 DEF Unmoved, FreshInv, Active, Rows, RowsOf, HasProvider
<1>4. CASE Register(r) /\ pc[q] \in {"found", "checked", "loaded"}
  <2>1. PICK u \in Users, i \in offered \cup {NULL} :
          /\ status[u] = "none" /\ status' = [status EXCEPT ![u] = "active"]
          /\ auths' = [auths EXCEPT ![r] = IF i = NULL THEN NULL ELSE [user |-> u, identity |-> i]]
    BY <1>4 DEF Register
  <2>2. pc[r] = "idle" /\ identity' = identity /\ identity[r] = NULL
    BY <1>1, <1>4 DEF Register, Free, FreshInv
  <2>3. me[q] = NULL \/ (status[me[q]] # "none" /\ me[q] # u)
    BY <1>4, <2>1 DEF IInv, MemoryInv
  <2>4. Rows \subseteq Rows' /\ \A a \in Rows : a # r /\ auths'[a] = auths[a]
    BY <1>1, <2>1, <2>2, StepsOne DEF Rows
  <2>5. \A a \in Rows' : a \in Rows \/ (a = r /\ auths'[a].user = u)
    <3>1. \A a \in Requests \ {r} : auths'[a] = auths[a]
      BY <1>1, <2>1
    <3>2. auths'[r] # NULL => auths'[r].user = u
      BY <1>1, <2>1
    <3> QED
      BY <3>1, <3>2 DEF Rows
  <2>6. Active \subseteq Active' /\ u \in Users
    BY <1>1, <2>1 DEF Active
  <2>7. pc[q] # "loaded" \/ me[q] # NULL
    BY DEF IInv, MemoryInv
  <2>8. me[q] # NULL => RowsOf(me[q])' = RowsOf(me[q])
    BY <1>1, <2>3, <2>4, <2>5 DEF RowsOf, Unmoved
  <2>9. me[q] # NULL /\ ~HasProvider(me[q], ProviderOf[identity[q]]) =>
          ~HasProvider(me[q], ProviderOf[identity[q]])'
    BY <1>1, <2>4, <2>8 DEF HasProvider, RowsOf, Unmoved
  <2> QED
    BY <1>1, <1>4, <2>2, <2>3, <2>4, <2>5, <2>6, <2>7, <2>8, <2>9 DEF Unmoved, FreshInv
<1>5. CASE pc[q] \notin {"found", "checked", "loaded"}
  BY <1>1, <1>5 DEF Unmoved, FreshInv
<1>6. pc[q] \in {"found", "checked", "loaded"} => q \in Open
  BY DEF Open
<1> QED
  BY <1>3, <1>4, <1>5, <1>6, BesideStep

\* What a request has read itself is so.
LEMMA FreshOwn ==
    ASSUME IInv, SerialInv, NEW r \in Requests, Step(r)
    PROVE  /\ pc'[r] # "idle"
           /\ pc'[r] \in {"found", "checked"} =>
                /\ me'[r] \in Active' \cup {NULL}
                /\ \A a \in Rows' : identity'[a] # NULL => auths'[a].identity # identity'[r]
           /\ pc'[r] = "checked" /\ me'[r] # NULL => ~HasProvider(me[r], ProviderOf[identity[r]])'
           /\ pc'[r] = "loaded" => seen'[r] = RowsOf(me[r])'
<1>1. /\ FreshInv
      /\ pc \in [Requests -> {"idle", "found", "checked", "counted", "profile", "loaded", "done"}]
      /\ DOMAIN identity = Requests /\ DOMAIN me = Requests /\ DOMAIN seen = Requests
  BY DEF SerialInv, IInv, TypeOK
<1>2. pc'[r] # "idle"
  BY StepsOne
<1>3. CASE Callback(r)
  <2>1. CASE pc'[r] = "found"
    <3>1. PICK u \in Active \cup {NULL}, i \in Identities :
            /\ identity' = [identity EXCEPT ![r] = i]
            /\ \/ {a \in Rows : auths[a].identity = i} = {} /\ me' = [me EXCEPT ![r] = u]
               \/ \E label \in {"profile", "done"} : Goto(r, label)
      BY <1>3 DEF Callback, CallbackFinding, ProfileOrDone
    <3>2. /\ {a \in Rows : auths[a].identity = i} = {} /\ me'[r] = u /\ identity'[r] = i
          /\ UNCHANGED <<status, auths>>
      BY <1>1, <1>3, <2>1, <3>1, CallbackEffect DEF Goto
    <3> QED
      BY <2>1, <3>2 DEF Active, Rows
  <2>2. CASE pc'[r] # "found"
    <3>1. \E label \in {"found", "profile", "done"} : pc' = [pc EXCEPT ![r] = label]
      BY <1>3, CallbackEffect
    <3> QED
      BY <1>1, <2>2, <3>1
  <2> QED
    BY <2>1, <2>2
<1>4. CASE ValidateLink(r)
  <2>1. /\ pc[r] = "found" /\ me[r] # NULL
        /\ UNCHANGED <<status, auths, me, identity>>
        /\ pc'[r] \in {"checked", "profile", "done"}
        /\ pc'[r] = "checked" => ~HasProvider(me[r], ProviderOf[identity[r]])
    BY <1>1, <1>4 DEF ValidateLink, ValidateLinkAgainst, ProfileOrDone, Goto
  <2> QED
    BY <1>1, <2>1 DEF FreshInv, Active, Rows, HasProvider, RowsOf
<1>5. CASE LoadDependents(r)
  <2>1. /\ pc'[r] = "loaded" /\ auths' = auths
        /\ \E u \in Active : me' = [me EXCEPT ![r] = u] /\ seen' = [seen EXCEPT ![r] = RowsOf(u)]
    BY <1>1, <1>5 DEF LoadDependents, Goto
  <2> QED
    BY <1>1, <2>1 DEF RowsOf, Rows
<1>6. CASE pc'[r] \notin {"found", "checked", "loaded"}
  BY <1>2, <1>6
<1>7. ASSUME Register(r) \/ ResetPassword(r) \/ CountForUnlink(r) \/ InsertLink(r)
               \/ CreateWithAuthentication(r) \/ LinkGithubProfile(r) \/ Unlink(r)
               \/ ClearGithubProfile(r) \/ Deactivate(r)
      PROVE  pc'[r] \in {"counted", "profile", "done"}
  BY <1>1, <1>7
     DEF Register, ResetPassword, CountForUnlink, InsertLink, CreateWithAuthentication,
         CreateInserting, LinkGithubProfile, Unlink, UnlinkKeeping, ClearGithubProfile,
         Deactivate, DeactivateDeleting, ProfileOrDone, Goto
<1> QED
  BY <1>3, <1>4, <1>5, <1>6, <1>7 DEF Step

\* A finite set with two members counts more than one.
LEMMA AtMostOne ==
    ASSUME NEW S, IsFiniteSet(S), ~(Cardinality(S) > 1)
    PROVE  \A p, q \in S : p = q
<1> SUFFICES ASSUME NEW p \in S, NEW q \in S, p # q PROVE FALSE
  OBVIOUS
<1>1. Cardinality(S) \in Nat
  BY FS_CardinalityType
<1>2. Cardinality({p, q}) = 2
  <2>1. Cardinality({p}) = 1 /\ IsFiniteSet({p})
    BY FS_Singleton
  <2>2. Cardinality({p} \cup {q}) = Cardinality({p}) + 1
    BY <2>1, FS_AddElement
  <2>3. {p} \cup {q} = {p, q}
    OBVIOUS
  <2> QED
    BY <2>1, <2>2, <2>3
<1>3. Cardinality({p, q}) <= Cardinality(S)
  BY FS_Subset
<1> QED
  BY <1>1, <1>2, <1>3

\* Every step keeps the invariant of requests that come one at a time.
LEMMA SerialStep == SerialIInv /\ [MCNext]_<<vars, overlapped>> => SerialIInv'
<1> SUFFICES ASSUME SerialIInv, [MCNext]_<<vars, overlapped>> PROVE SerialIInv'
  OBVIOUS
<1>1. IInv /\ [Next]_vars
  BY DEF SerialIInv, MCNext
<1>2. IInv'
  BY <1>1, TypeStep, MemoryStep, RowStep, OrderStep, OtherStep, LockoutStep DEF IInv
<1>3. CASE UNCHANGED <<vars, overlapped>>
  BY <1>2, <1>3
     DEF SerialIInv, SerialInv, vars, Alone, Open, FreshInv, OneOfEachProvider,
         RowsOfActiveAccounts, CallbackLinksFreeIdentities, Rows, RowsOf, Active, HasProvider
<1>4. CASE MCNext
  <2>1. PICK r \in Requests : Step(r)
    BY <1>4 DEF MCNext, Next
  <2>2. IsFiniteSet(Open')
    <3>1. Open' \subseteq Open \cup {r}
      BY <1>1, <2>1, StepsOne
    <3>2. IsFiniteSet(Open \cup {r})
      BY FS_AddElement DEF SerialIInv
    <3> QED
      BY <3>1, <3>2, FS_Subset
  <2>3. ASSUME ~overlapped' PROVE SerialInv'
    <3>1. ~overlapped /\ ~(Cardinality(Open') > 1) /\ SerialInv
      BY <1>4, <2>3 DEF MCNext, SerialIInv
    <3>2. Alone'
      BY <2>2, <3>1, AtMostOne DEF Alone
    <3>3. FreshInv'
      <4>1. ASSUME NEW q \in Requests
            PROVE  /\ pc'[q] = "idle" => identity'[q] = NULL
                   /\ pc'[q] \in {"found", "checked"} =>
                        /\ me'[q] \in Active' \cup {NULL}
                        /\ \A a \in Rows' : identity'[a] # NULL =>
                                              auths'[a].identity # identity'[q]
                   /\ pc'[q] = "checked" /\ me'[q] # NULL =>
                        ~HasProvider(me[q], ProviderOf[identity[q]])'
                   /\ pc'[q] = "loaded" => seen'[q] = RowsOf(me[q])'
        BY <1>1, <2>1, <3>1, <3>2, FreshOwn, FreshBeside
      <4> QED
        BY <4>1 DEF FreshInv
    <3> QED
      BY <1>1, <2>1, <3>1, <3>2, <3>3, SerialRowsStep DEF SerialInv
  <2> QED
    BY <1>2, <2>2, <2>3 DEF SerialIInv
<1> QED
  BY <1>3, <1>4

\* The accounts begin in it.
LEMMA SerialInit == MCInit => SerialIInv
<1> SUFFICES ASSUME MCInit PROVE SerialIInv
  OBVIOUS
<1>1. Init /\ IInv
  BY InitIInv DEF MCInit
<1>2. Open = {} /\ Rows = {} /\ IsFiniteSet({})
  BY <1>1, FS_EmptySet DEF Init, Open, Rows
<1> QED
  BY <1>1, <1>2
     DEF SerialIInv, SerialInv, Alone, Init, FreshInv, OneOfEachProvider,
         RowsOfActiveAccounts, CallbackLinksFreeIdentities

\* So it always holds.
LEMMA SerialInvariant == MCSpec => []SerialIInv
BY SerialInit, SerialStep, PTL DEF MCSpec

\* Until requests overlap, an account has one authentication of each provider:
\* Authentication's validation is enough without a unique index.
THEOREM OneOfEachTheorem == MCSpec => []SerialOneOfEachProvider
<1>1. SerialIInv => SerialOneOfEachProvider
  BY DEF SerialIInv, SerialInv, SerialOneOfEachProvider
<1> QED
  BY <1>1, SerialInvariant, PTL

\* Until requests overlap, a deactivated account leaves no authentication.
THEOREM ActiveRowsTheorem == MCSpec => []SerialRowsOfActiveAccounts
<1>1. SerialIInv => SerialRowsOfActiveAccounts
  BY DEF SerialIInv, SerialInv, SerialRowsOfActiveAccounts
<1> QED
  BY <1>1, SerialInvariant, PTL

\* Until requests overlap, what the callback links and creates gives an
\* identity to one account.
THEOREM FreeIdentitiesTheorem == MCSpec => []SerialCallbackLinksFreeIdentities
<1>1. SerialIInv => SerialCallbackLinksFreeIdentities
  BY DEF SerialIInv, SerialInv, SerialCallbackLinksFreeIdentities
<1> QED
  BY <1>1, SerialInvariant, PTL
=============================================================================
