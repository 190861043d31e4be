----------------------------- MODULE MCHangouts -----------------------------
(* Small instances of Hangouts for TLC. *)
EXTENDS Hangouts, TLC

PremiumEvent == [category |-> "PairProgramming", premium |-> TRUE, channels |-> <<"project">>]
PairingEvent == [category |-> "PairProgramming", premium |-> FALSE, channels |-> <<"cs169">>]
ScrumEvent == [category |-> "Scrum", premium |-> FALSE, channels |-> <<>>]

PremiumPairingAndScrum == {PremiumEvent, PairingEvent, ScrumEvent}

Interchangeable ==
    Permutations(Requests) \cup Permutations(Links) \cup Permutations(Bylines)

\* History: two pages or requests have been open at the same time; for each
\* message in the Gitter room, the request that sent it (none: somebody else)
\* and its rivals, which had read the room and not sent yet.
VARIABLES overlapped, sent
mcVars == <<vars, overlapped, sent>>

Sending == [by |-> {r \in Requests : pc[r] = "gitter" /\ pc'[r] = "post"},
            rivals |-> {r \in Requests : pc'[r] = "gitter"}]

MCInit == Init /\ overlapped = FALSE /\ sent = <<>>
MCNext ==
    /\ Next
    /\ overlapped' = (overlapped \/ Cardinality(Open') > 1)
    /\ sent' = IF gitter' = gitter THEN sent ELSE Append(sent, Sending)
MCSpec == MCInit /\ [][MCNext]_mcVars

\* Bound: once requests overlap, bylines differ or others chat, no callback
\* comes, no post raises and the clock stops at 1; the three come one without
\* the others, the last two only where Gitter is told, and chat after a first
\* message.
BylinesUsed == {form[r].byline : r \in {r \in Requests : form[r] # NULL}} \ {NULL}
Chatted == \E n \in 1..Len(gitter) : gitter[n] = NULL
Bylined == Cardinality(BylinesUsed) > 1
Bounds ==
    /\ overlapped \/ Chatted \/ Bylined =>
         now <= 1 /\ faults = 0 /\ \A r \in Requests : kind[r] # "callback"
    /\ Chatted \/ Bylined =>
         ~overlapped /\ ~(Chatted /\ Bylined) /\ Contains(HangoutChannels(event), "gitter")
    /\ gitter # <<>> => gitter[1] # NULL

\* Within Limit messages the room gets a message again only from a request
\* that had read the room before the first one was sent
\* (send_gitter_message_avoid_repeats reads and sends in two calls).
GitterRepeatsOnlyRaced ==
    \A i, j \in 1..Len(gitter) :
        /\ i < j /\ j <= i + Limit
        /\ gitter[i] = gitter[j] /\ gitter[j] # NULL
        => \E r \in sent[i].rivals : sent[j].by = {r}

\* What holds while pages and requests come one at a time: a uid names one
\* hangout (find_or_create_by), each form changes its own link, and what is
\* finished is not reopened by a page.
SerialUidsUnique == ~overlapped => UidsUnique
SerialFormsChangeTheirOwn == [][~overlapped' => FormChangesItsOwn]_mcVars
SerialFinishedStaysFinished == [][~overlapped' => FinishedStays]_mcVars
=============================================================================
