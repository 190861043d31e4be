------------------------------ MODULE Documents ------------------------------
(***************************************************************************)
(* The documents of a project: categories (documents without a parent) and *)
(* the documents below them, as DocumentsController creates, edits, moves  *)
(* and destroys them.                                                      *)
(*                                                                         *)
(* A request begins with the page it is sent from: a form or a list of     *)
(* categories shows what was stored when it was rendered.  It reads in one *)
(* step what it writes in the next.                                        *)
(***************************************************************************)
EXTENDS FiniteSets, Naturals

CONSTANTS
    Docs,      \* the documents that may come to exist
    Editors,   \* bound: the requests on documents
    NoDoc,     \* parent_id NULL
    MaxEdits   \* bound: pages and requests at the same time

VARIABLES
    docs,    \* the rows of documents
    parent,  \* their parent_id, acts_as_tree
    edits,   \* the requests, each with the page it comes from
    stale    \* history: documents put or left below what was no category then

docVars == <<docs, parent, edits, stale>>

Edit(what, d, p) ==
    [at |-> "page", op |-> what, doc |-> d, target |-> p, seen |-> NoDoc, tree |-> {}]
NoEdit == [Edit("none", NoDoc, NoDoc) EXCEPT !.at = "idle"]
Go(r, label) == edits' = [edits EXCEPT ![r].at = label]
Open == {r \in Editors : edits[r].at \notin {"idle", "done"}}

\* get_doc_categories, @documents.roots
Categories == {d \in docs : parent[d] = NoDoc}

\* children, and everything found by following them
ChildrenOf(D) == {d \in docs : parent[d] \in D}
Below(D) ==
    {d \in docs \cup D : \A S \in SUBSET (docs \cup D) :
        D \subseteq S /\ ChildrenOf(S) \subseteq S => d \in S}

DocInit ==
    /\ docs = {}
    /\ parent = [d \in Docs |-> NoDoc]
    /\ edits = [r \in Editors |-> NoEdit]
    /\ stale = {}

(***************************************************************************)
(* The pages.  "New document" is offered by the project's page, "new       *)
(* sub-document" by the page of a category; the form keeps the parent_id   *)
(* of its own address, which on the edit page has none.  "Change section"  *)
(* lists the categories but the document itself and its parent.            *)
(***************************************************************************)
OpenPage(r, what, d, p) ==
    /\ edits[r].at = "idle"
    /\ Cardinality(Open) < MaxEdits
    /\ edits' = [edits EXCEPT ![r] = Edit(what, d, p)]
    /\ UNCHANGED <<docs, parent, stale>>

\* A row keeps its id for good: each new document is another one of Docs.
OpenNew(r) ==
    \E d \in Docs \ docs, p \in Categories \cup {NoDoc} :
        /\ \A q \in Editors : edits[q].doc # d
        /\ OpenPage(r, "create", d, p)
OpenEdit(r) == \E d \in docs : OpenPage(r, "edit", d, NoDoc)
OpenSections(r) ==
    \E d \in docs : \E c \in Categories \ {d, parent[d]} : OpenPage(r, "move", d, c)
OpenToDestroy(r) == \E d \in docs : OpenPage(r, "destroy", d, NoDoc)

(***************************************************************************)
(* The requests.                                                           *)
(***************************************************************************)
\* stale follows a document wherever its parent_id is written.
StaleAfter(d, p) == IF p \in Categories \cup {NoDoc} THEN stale \ {d} ELSE stale \cup {d}

\* create: the parent_id of the form is stored as it is.
Create(r) ==
    /\ edits[r].at = "page" /\ edits[r].op = "create"
    /\ docs' = docs \cup {edits[r].doc}
    /\ parent' = [parent EXCEPT ![edits[r].doc] = edits[r].target]
    /\ stale' = StaleAfter(edits[r].doc, edits[r].target)
    /\ Go(r, "done")

\* A form without a title comes back, now without the parent_id, which is no
\* parameter of the address it was sent to.
Refuse(r) ==
    /\ edits[r].at = "page" /\ edits[r].op \in {"create", "edit"}
    /\ edits' = [edits EXCEPT ![r].target = NoDoc]
    /\ UNCHANGED <<docs, parent, stale>>

\* set_document raises for a row that is gone, and nothing is moved below one
\* that is gone.  Destroying loads all that is below the document, and in a
\* loop raises without having destroyed anything.
Load(r) ==
    /\ edits[r].at = "page" /\ edits[r].op # "create"
    /\ LET e == edits[r]
           ok == /\ e.doc \in docs
                 /\ e.op = "move" => e.target \in docs
                 /\ e.op = "destroy" => e.doc \notin Below(ChildrenOf({e.doc}))
       IN  edits' = [edits EXCEPT ![r] = [e EXCEPT
                !.at = IF ok THEN "loaded" ELSE "done",
                !.seen = IF ok THEN parent[e.doc] ELSE NoDoc,
                !.tree = IF ok /\ e.op = "destroy" THEN Below({e.doc}) ELSE {}]]
    /\ UNCHANGED <<docs, parent, stale>>

\* update, change_document_parent: a column is written when it differs from
\* what was loaded, and no row is written that is gone.
Write(r) ==
    /\ edits[r].at = "loaded" /\ edits[r].op \in {"edit", "move"}
    /\ LET e == edits[r] IN
        \/ /\ e.doc \in docs /\ e.seen # e.target
           /\ parent' = [parent EXCEPT ![e.doc] = e.target]
           /\ stale' = StaleAfter(e.doc, e.target)
        \/ /\ e.doc \notin docs \/ e.seen = e.target
           /\ UNCHANGED <<parent, stale>>
    /\ Go(r, "done")
    /\ UNCHANGED docs

\* destroy, with the children (acts_as_tree: dependent: :destroy).
DestroyRows(r, rows) ==
    /\ edits[r].at = "loaded" /\ edits[r].op = "destroy"
    /\ docs' = docs \ rows
    /\ stale' = (stale \ rows) \cup (ChildrenOf(edits[r].tree) \ edits[r].tree)
    /\ Go(r, "done")
    /\ UNCHANGED parent

\* Variant: a tree without dependent: :destroy.
DestroyAlone(r) == DestroyRows(r, {edits[r].doc})
Destroy(r) == DestroyRows(r, edits[r].tree)

DocNext ==
    \E r \in Editors :
        \/ OpenNew(r) \/ OpenEdit(r) \/ OpenSections(r) \/ OpenToDestroy(r)
        \/ Create(r) \/ Refuse(r) \/ Load(r) \/ Write(r) \/ Destroy(r)

-----------------------------------------------------------------------------
DocTypeOK ==
    /\ docs \subseteq Docs
    /\ parent \in [Docs -> Docs \cup {NoDoc}]
    /\ edits \in [Editors ->
         [at : {"idle", "page", "loaded", "done"},
          op : {"none", "create", "edit", "move", "destroy"},
          doc : Docs \cup {NoDoc}, target : Docs \cup {NoDoc},
          seen : Docs \cup {NoDoc}, tree : SUBSET Docs]]
    /\ stale \subseteq docs

\* A document that no category leads to (it is in a loop, or below a document
\* that is gone) is on no page but its own.  It got there by a request whose
\* page or whose reading was outdated: it is below a document that was put, or
\* left, where there was no category any more.
Lost == docs \ Below(Categories)
LostNeedsStalePage == Lost \subseteq Below(stale)

\* A document changes its section by "change section" and by nothing else
\* (features/project_documents.feature: "A logged in user could change a
\* document's parent section").
OnlyMovesChangeSection ==
    [][\A d \in docs \cap docs' : parent'[d] # parent[d] =>
          \E r \in Editors : /\ edits[r].op = "move" /\ edits[r].doc = d
                             /\ edits[r].at = "loaded"]_docVars
=============================================================================
