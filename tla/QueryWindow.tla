------------------------------ MODULE QueryWindow ------------------------------
(***************************************************************************)
(* The query window of the UI (user_queries_window.rs) inside the frame    *)
(* that feeds it (ui.rs): the queue of queries, the one text entry or      *)
(* picker that may be open over the front query, the entry of the snapshot *)
(* name, and the mount list that may cover them all. The window's state    *)
(* does not say for which query an entry was opened; the model remembers.  *)
(***************************************************************************)
EXTENDS Integers, Sequences, FiniteSets

CONSTANTS
    Transfers,    \* transfer threads, which ask for an approval
    Main, Namer,  \* the main loop (unknown device) and the snapshot thread
    Nothing       \* no entry or picker is open

ASSUME AskersAssumption ==
    Main # Namer /\ {Main, Namer} \cap Transfers = {} /\ Nothing \notin Transfers \cup {Main, Namer}

VARIABLES
    asker,      \* what each thread that asks is doing
    coming,     \* queries on their way to the UI, oldest first
    queue,      \* query_queue, front first
    open,       \* the entry or picker that is open, and the query it was opened for
    nameEntry,  \* snapshot_name_entry.is_some()
    listOpen,   \* mount_list_state.open
    frame       \* the part of its frame the UI is at

vars == <<asker, coming, queue, open, nameEntry, listOpen, frame>>

Askers  == Transfers \cup {Main, Namer}
Entries == [field : {"text", "picker"}, of : Transfers]
Queries == [kind : {"approval", "dialog", "name"}, of : Askers, priority : BOOLEAN]

Front == Head(queue)

-----------------------------------------------------------------------------
Init ==
    /\ asker = [a \in Askers |-> "away"]
    /\ coming = <<>> /\ queue = <<>>
    /\ open = Nothing /\ nameEntry = FALSE /\ listOpen = FALSE
    /\ frame = "messages"

Ask(a, kind, priority, step) ==
    /\ asker' = [asker EXCEPT ![a] = step]
    /\ coming' = Append(coming, [kind |-> kind, of |-> a, priority |-> priority])
    /\ UNCHANGED <<queue, open, nameEntry, listOpen, frame>>

\* The first query of a transfer waits its turn; after "Back to query" it comes first.
AskApproval(t) ==
    \/ asker[t] = "away" /\ Ask(t, "approval", FALSE, "approving")
    \/ asker[t] = "back" /\ Ask(t, "approval", TRUE, "approving")

\* A warning, a conflict or an error of an approved transfer.
AskBack(t) == asker[t] = "approved" /\ Ask(t, "dialog", TRUE, "warning")

AskUnknownDevice == asker[Main] = "away" /\ Ask(Main, "dialog", FALSE, "warning")

AskName == asker[Namer] = "away" /\ Ask(Namer, "name", FALSE, "naming")

-----------------------------------------------------------------------------
\* prepare_for_front_query
Prepare(q) == nameEntry' = (q # <<>> /\ Head(q).kind = "name")

\* Mutant: a query that may wait is pushed in front of the others as well.
PushedInFront(query) == <<query>> \o queue

Pushed(query) == IF query.priority THEN <<query>> \o queue ELSE queue \o <<query>>

\* The UserQuery arm of the message loop; only an empty window is reset.
TakeQuery ==
    /\ frame = "messages" /\ coming # <<>>
    /\ coming' = Tail(coming)
    /\ queue' = Pushed(Head(coming))
    /\ open' = IF queue = <<>> THEN Nothing ELSE open
    /\ Prepare(queue')
    /\ UNCHANGED <<asker, listOpen, frame>>

EndMessages ==
    /\ frame = "messages" /\ coming = <<>> /\ frame' = "keys"
    /\ UNCHANGED <<asker, coming, queue, open, nameEntry, listOpen>>

NoKey ==
    /\ frame = "keys" /\ frame' = "messages"
    /\ UNCHANGED <<asker, coming, queue, open, nameEntry, listOpen>>

TextEntryActive == nameEntry \/ (open # Nothing /\ open.field = "text")

\* `f` opens the mount list unless it is a letter of a text; the list has every key then.
ToggleMountList ==
    /\ frame = "keys" /\ frame' = "messages"
    /\ listOpen \/ ~TextEntryActive
    /\ listOpen' = ~listOpen
    /\ UNCHANGED <<asker, coming, queue, open, nameEntry>>

\* A key for a front query of a kind.
KeyFor(kind) ==
    /\ frame = "keys" /\ frame' = "messages"
    /\ ~listOpen /\ queue # <<>> /\ Front.kind = kind
    /\ UNCHANGED <<coming, listOpen>>

\* Mutant: the key is not matched against the kind of the front query.
OpenEntryOnAny(field) ==
    /\ frame = "keys" /\ frame' = "messages"
    /\ ~listOpen /\ queue # <<>> /\ open = Nothing
    /\ open' = [field |-> field, of |-> Front.of]
    /\ UNCHANGED <<asker, coming, listOpen, queue, nameEntry>>

\* c, m, s, d, l or i on an approval query.
OpenEntry(field) ==
    /\ KeyFor("approval") /\ open = Nothing
    /\ open' = [field |-> field, of |-> Front.of]
    /\ UNCHANGED <<asker, queue, nameEntry>>

\* Enter sends what is in the entry to the front query, Esc does not; either closes it.
CloseEntry ==
    /\ KeyFor("approval") /\ open # Nothing
    /\ open' = Nothing
    /\ UNCHANGED <<asker, queue, nameEntry>>

\* Mutant: the window is reset but not prepared for the query that comes to the front.
PopUnprepared(step) ==
    /\ asker' = [asker EXCEPT ![Front.of] = step]
    /\ queue' = Tail(queue)
    /\ open' = Nothing /\ nameEntry' = FALSE

\* The front query is answered and leaves the queue: the window is reset.
Pop(step) ==
    /\ asker' = [asker EXCEPT ![Front.of] = step]
    /\ queue' = Tail(queue)
    /\ open' = Nothing
    /\ Prepare(queue')

AnswerApproval ==
    /\ KeyFor("approval") /\ open = Nothing
    /\ \E step \in {"approved", "ended"} : Pop(step)

\* The main loop goes on to the next device; a transfer goes back to its query or ends.
AnswerDialog ==
    /\ KeyFor("dialog")
    /\ IF Front.of = Main THEN Pop("away") ELSE \E step \in {"back", "ended"} : Pop(step)

AnswerName == KeyFor("name") /\ Pop("away")

-----------------------------------------------------------------------------
Next ==
    \/ \E t \in Transfers : AskApproval(t) \/ AskBack(t)
    \/ AskUnknownDevice \/ AskName
    \/ TakeQuery \/ EndMessages \/ NoKey \/ ToggleMountList
    \/ \E field \in {"text", "picker"} : OpenEntry(field)
    \/ CloseEntry \/ AnswerApproval \/ AnswerDialog \/ AnswerName

Spec == Init /\ [][Next]_vars

-----------------------------------------------------------------------------
(* Properties *)

\* Every variable has its type; an entry is only ever opened for a transfer's approval.
TypeOK ==
    /\ asker \in [Askers -> {"away", "approving", "approved", "warning", "back", "naming", "ended"}]
    /\ coming \in Seq(Queries) /\ queue \in Seq(Queries)
    /\ open \in Entries \cup {Nothing}
    /\ nameEntry \in BOOLEAN /\ listOpen \in BOOLEAN
    /\ frame \in {"messages", "keys"}

\* user_queries_window.rs:427-428: the snapshot name has its entry exactly while its query is
\* at the front, whatever was pushed before it and popped, so that `f` can be typed into it.
NameEntryFollowsItsQuery ==
    nameEntry <=> queue # <<>> /\ Front.kind = "name"

\* An open entry never outlives the query it was opened for, and only a query that came with
\* priority can get between the two.
OpenEntryKeepsItsQuery ==
    open # Nothing =>
        \E i \in DOMAIN queue :
            /\ queue[i].kind = "approval" /\ queue[i].of = open.of
            /\ \A j \in 1..(i - 1) : queue[j].priority

\* user_queries_window.rs:424-426: the entry states are consistent with the query at the
\* front, so that no text or choice made for one transfer is given to another.
EntryMatchesFrontQuery ==
    open # Nothing /\ queue # <<>> /\ Front.kind = "approval" => open.of = Front.of

-----------------------------------------------------------------------------
(* What the proofs of these properties rest on *)

\* Only transfers ask for approvals.
ApprovalsInv ==
    /\ \A i \in DOMAIN queue : queue[i].kind = "approval" => queue[i].of \in Transfers
    /\ \A i \in DOMAIN coming : coming[i].kind = "approval" => coming[i].of \in Transfers

IInv == TypeOK /\ ApprovalsInv /\ NameEntryFollowsItsQuery /\ OpenEntryKeepsItsQuery
=============================================================================
