--------------------------- MODULE QueryWindowProofs ---------------------------
(***************************************************************************)
(* Theorems about QueryWindow: types, and that entries follow their        *)
(* queries through pushes, priority pushes and pops.                       *)
(***************************************************************************)
EXTENDS QueryWindow, SequenceTheorems, TLAPS

-----------------------------------------------------------------------------
(* Queues of queries *)

Approvals(s) == \A i \in DOMAIN s : s[i].kind = "approval" => s[i].of \in Transfers

LEMMA TailOf ==
    ASSUME NEW s \in Seq(Queries), s # <<>>
    PROVE  /\ Head(s) \in Queries /\ Head(s) = s[1] /\ 1 \in DOMAIN s
           /\ Tail(s) \in Seq(Queries)
           /\ Approvals(s) => Approvals(Tail(s)) /\
                              (Head(s).kind = "approval" => Head(s).of \in Transfers)
<1>1. /\ Head(s) \in Queries /\ Head(s) = s[1] /\ Tail(s) \in Seq(Queries)
      /\ Len(s) \in Nat /\ Len(s) >= 1 /\ DOMAIN s = 1..Len(s) /\ Len(Tail(s)) = Len(s) - 1
      /\ \A i \in 1..Len(Tail(s)) : Tail(s)[i] = s[i + 1]
    OBVIOUS
<1>2. DOMAIN Tail(s) = 1..(Len(s) - 1)
    BY <1>1
<1>3. \A i \in DOMAIN Tail(s) : i + 1 \in DOMAIN s /\ Tail(s)[i] = s[i + 1]
    BY <1>1, <1>2
<1> QED  BY <1>1, <1>3 DEF Approvals

LEMMA OneMore ==
    ASSUME NEW s \in Seq(Queries), NEW q \in Queries
    PROVE  /\ <<q>> \o s \in Seq(Queries) /\ DOMAIN (<<q>> \o s) = 1..(Len(s) + 1)
           /\ (<<q>> \o s)[1] = q /\ \A i \in DOMAIN s : (<<q>> \o s)[i + 1] = s[i]
           /\ Append(s, q) \in Seq(Queries) /\ DOMAIN Append(s, q) = 1..(Len(s) + 1)
           /\ Append(s, q)[Len(s) + 1] = q /\ \A i \in DOMAIN s : Append(s, q)[i] = s[i]
           /\ s \o <<q>> = Append(s, q)
           /\ Len(s) \in Nat /\ DOMAIN s = 1..Len(s)
OBVIOUS

LEMMA OneMoreApproval ==
    ASSUME NEW s \in Seq(Queries), NEW q \in Queries, Approvals(s),
           q.kind = "approval" => q.of \in Transfers
    PROVE  Approvals(Append(s, q)) /\ Approvals(<<q>> \o s)
<1>1. ASSUME NEW i \in 1..(Len(s) + 1), i # Len(s) + 1
      PROVE  i \in DOMAIN s
    BY <1>1, OneMore
<1>2. ASSUME NEW i \in 1..(Len(s) + 1), i # 1
      PROVE  i - 1 \in DOMAIN s /\ (i - 1) + 1 = i
    BY <1>2, OneMore
<1>3. Approvals(Append(s, q))
    BY <1>1, OneMore DEF Approvals
<1>4. ASSUME NEW i \in 1..(Len(s) + 1), i # 1
      PROVE  (<<q>> \o s)[i] = s[i - 1]
    BY <1>2, <1>4, OneMore
<1>5. Approvals(<<q>> \o s)
    BY <1>2, <1>4, OneMore DEF Approvals
<1> QED  BY <1>3, <1>5

-----------------------------------------------------------------------------
(* Steps *)

LEMMA ApprovalsOfBoth == ApprovalsInv <=> Approvals(queue) /\ Approvals(coming)
BY DEF ApprovalsInv, Approvals

\* A query sets out for the UI.
LEMMA AskKeeps ==
    ASSUME IInv, NEW t \in Askers, NEW kind \in {"approval", "dialog", "name"},
           NEW priority \in BOOLEAN, NEW step \in {"approving", "warning", "naming"},
           kind = "approval" => t \in Transfers, Ask(t, kind, priority, step)
    PROVE  IInv'
<1>1. PICK q \in Queries : q = [kind |-> kind, of |-> t, priority |-> priority]
    BY DEF Queries
<1>2. q.kind = "approval" => q.of \in Transfers
    BY <1>1
<1>3. coming' = Append(coming, q) /\ queue' = queue
    BY <1>1 DEF Ask
<1>4. coming' \in Seq(Queries)
    BY <1>3, OneMore DEF IInv, TypeOK
<1>5. Approvals(coming')
    BY <1>2, <1>3, OneMoreApproval, ApprovalsOfBoth DEF IInv, TypeOK
<1>6. ApprovalsInv'
    BY <1>3, <1>5, ApprovalsOfBoth DEF IInv, ApprovalsInv, Approvals
<1>7. TypeOK'
    BY <1>4 DEF Ask, IInv, TypeOK
<1>8. NameEntryFollowsItsQuery' /\ OpenEntryKeepsItsQuery'
    BY DEF Ask, IInv, NameEntryFollowsItsQuery, OpenEntryKeepsItsQuery, Front
<1> QED  BY <1>6, <1>7, <1>8 DEF IInv

\* A query reaches the window, in front of the others or behind them.
LEMMA TakeQueryKeeps ==
    ASSUME IInv, TakeQuery
    PROVE  IInv'
<1>1. /\ coming \in Seq(Queries) /\ coming # <<>> /\ queue \in Seq(Queries)
      /\ Approvals(coming) /\ Approvals(queue)
    BY ApprovalsOfBoth DEF TakeQuery, IInv, TypeOK
<1>2. PICK q \in Queries : q = Head(coming)
    BY <1>1, TailOf
<1>3. q.kind = "approval" => q.of \in Transfers
    BY <1>1, <1>2, TailOf
<1>4. queue' = IF q.priority THEN <<q>> \o queue ELSE Append(queue, q)
    BY <1>1, <1>2, OneMore DEF TakeQuery, Pushed
<1>5. coming' \in Seq(Queries) /\ Approvals(coming')
    BY <1>1, TailOf DEF TakeQuery
<1>6. queue' \in Seq(Queries) /\ Approvals(queue')
    BY <1>1, <1>3, <1>4, OneMore, OneMoreApproval
<1>7. open' \in {open, Nothing} /\ (open' # Nothing => queue # <<>>)
    BY DEF TakeQuery
<1>8. nameEntry' \in BOOLEAN /\ NameEntryFollowsItsQuery'
    BY DEF TakeQuery, Prepare, NameEntryFollowsItsQuery, Front
<1>9. TypeOK'
    BY <1>5, <1>6, <1>7, <1>8 DEF TakeQuery, IInv, TypeOK
<1>10. ASSUME open' # Nothing
       PROVE  \E i \in DOMAIN queue' :
                /\ queue'[i].kind = "approval" /\ queue'[i].of = open.of
                /\ \A j \in 1..(i - 1) : queue'[j].priority
    <2>1. PICK i \in DOMAIN queue : /\ queue[i].kind = "approval" /\ queue[i].of = open.of
                                    /\ \A j \in 1..(i - 1) : queue[j].priority
        BY <1>7, <1>10 DEF IInv, OpenEntryKeepsItsQuery
    <2>2. i \in 1..Len(queue) /\ Len(queue) \in Nat
        BY <1>1, <2>1
    <2>3. CASE ~q.priority
        <3>1. i \in DOMAIN queue' /\ queue'[i] = queue[i]
            BY <1>1, <1>4, <2>2, <2>3, OneMore
        <3>2. \A j \in 1..(i - 1) : queue'[j] = queue[j]
            BY <1>1, <1>4, <2>2, <2>3, OneMore
        <3> QED  BY <2>1, <3>1, <3>2
    <2>4. CASE q.priority
        <3>1. /\ i + 1 \in DOMAIN queue' /\ queue'[i + 1] = queue[i] /\ queue'[1] = q
              /\ \A j \in DOMAIN queue : queue'[j + 1] = queue[j]
            BY <1>1, <1>4, <2>2, <2>4, OneMore
        <3>2. ASSUME NEW j \in 1..((i + 1) - 1)
              PROVE  queue'[j].priority
            <4>1. CASE j = 1
                BY <2>4, <3>1, <4>1
            <4>2. CASE j # 1
                <5>1. j - 1 \in 1..(i - 1) /\ j - 1 \in DOMAIN queue /\ (j - 1) + 1 = j
                    BY <1>1, <2>2, <3>2, <4>2
                <5> QED  BY <2>1, <3>1, <5>1
            <4> QED  BY <4>1, <4>2
        <3> QED  BY <2>1, <3>1, <3>2
    <2> QED  BY <2>3, <2>4
<1>11. open' # Nothing => open' = open
    BY <1>7
<1>12. OpenEntryKeepsItsQuery'
    BY <1>10, <1>11 DEF OpenEntryKeepsItsQuery
<1>13. ApprovalsInv'
    BY <1>5, <1>6 DEF ApprovalsInv, Approvals
<1> QED  BY <1>8, <1>9, <1>12, <1>13 DEF IInv

\* The front query leaves the queue.
LEMMA PopKeeps ==
    ASSUME IInv, queue # <<>>, NEW step \in {"away", "back", "approved", "ended"}, Pop(step),
           UNCHANGED <<coming, listOpen>>, frame' = "messages"
    PROVE  IInv'
<1>1. queue' \in Seq(Queries) /\ Approvals(queue')
    BY TailOf, ApprovalsOfBoth DEF Pop, IInv, TypeOK
<1>2. nameEntry' \in BOOLEAN /\ NameEntryFollowsItsQuery'
    BY DEF Pop, Prepare, NameEntryFollowsItsQuery, Front
<1>3. open' = Nothing /\ OpenEntryKeepsItsQuery'
    BY DEF Pop, OpenEntryKeepsItsQuery
<1>4. TypeOK'
    BY <1>1, <1>2, <1>3 DEF Pop, IInv, TypeOK
<1>5. ApprovalsInv'
    BY <1>1 DEF IInv, ApprovalsInv, Approvals
<1> QED  BY <1>2, <1>3, <1>4, <1>5 DEF IInv

LEMMA OpenEntryKeeps ==
    ASSUME IInv, NEW field \in {"text", "picker"}, OpenEntry(field)
    PROVE  IInv'
<1>1. /\ queue \in Seq(Queries) /\ queue # <<>> /\ Front.kind = "approval" /\ Front = queue[1]
      /\ 1 \in DOMAIN queue /\ Front.of \in Transfers
    BY TailOf, ApprovalsOfBoth DEF OpenEntry, KeyFor, IInv, TypeOK, Front
<1>2. PICK e \in Entries : e = [field |-> field, of |-> Front.of]
    BY <1>1 DEF Entries
<1>3. open' = e /\ e.of = Front.of /\ queue' = queue
    BY <1>2 DEF OpenEntry
<1>4. TypeOK'
    BY <1>3 DEF OpenEntry, KeyFor, IInv, TypeOK
<1>5. OpenEntryKeepsItsQuery'
    BY <1>1, <1>3 DEF OpenEntryKeepsItsQuery
<1>6. NameEntryFollowsItsQuery' /\ ApprovalsInv'
    BY DEF OpenEntry, KeyFor, IInv, NameEntryFollowsItsQuery, ApprovalsInv, Front
<1> QED  BY <1>4, <1>5, <1>6 DEF IInv

LEMMA StepKeeps ==
    ASSUME IInv, [Next]_vars
    PROVE  IInv'
<1>1. ASSUME NEW t \in Transfers, AskApproval(t) \/ AskBack(t)
      PROVE  IInv'
    <2>1. t \in Askers
        BY DEF Askers
    <2> QED  BY <1>1, <2>1, AskKeeps DEF AskApproval, AskBack
<1>2. CASE AskUnknownDevice
    BY <1>2, AskKeeps DEF AskUnknownDevice, Askers
<1>3. CASE AskName
    BY <1>3, AskKeeps DEF AskName, Askers
<1>4. CASE TakeQuery
    BY <1>4, TakeQueryKeeps
<1>5. CASE EndMessages \/ NoKey \/ ToggleMountList
    <2>1. UNCHANGED <<asker, coming, queue, open, nameEntry>> /\ frame' \in {"messages", "keys"}
        BY <1>5 DEF EndMessages, NoKey, ToggleMountList
    <2>2. listOpen' \in BOOLEAN
        BY <1>5 DEF EndMessages, NoKey, ToggleMountList, IInv, TypeOK
    <2>3. TypeOK'
        BY <2>1, <2>2 DEF IInv, TypeOK
    <2>4. ApprovalsInv' /\ NameEntryFollowsItsQuery' /\ OpenEntryKeepsItsQuery'
        BY <2>1 DEF IInv, ApprovalsInv, NameEntryFollowsItsQuery, OpenEntryKeepsItsQuery, Front
    <2> QED  BY <2>3, <2>4 DEF IInv
<1>6. ASSUME NEW field \in {"text", "picker"}, OpenEntry(field)
      PROVE  IInv'
    BY <1>6, OpenEntryKeeps
<1>7. CASE CloseEntry
    BY <1>7 DEF CloseEntry, KeyFor, IInv, TypeOK, ApprovalsInv, NameEntryFollowsItsQuery,
                OpenEntryKeepsItsQuery, Front
<1>8. CASE AnswerApproval \/ AnswerDialog \/ AnswerName
    BY <1>8, PopKeeps DEF AnswerApproval, AnswerDialog, AnswerName, KeyFor
<1>9. CASE UNCHANGED vars
    BY <1>9 DEF vars, IInv, TypeOK, ApprovalsInv, NameEntryFollowsItsQuery,
                OpenEntryKeepsItsQuery, Front
<1> QED  BY <1>1, <1>2, <1>3, <1>4, <1>5, <1>6, <1>7, <1>8, <1>9 DEF Next

-----------------------------------------------------------------------------
(* The theorems *)

LEMMA Invariance == Spec => []IInv
<1>1. Init => IInv
    <2> SUFFICES ASSUME Init
                 PROVE  IInv
        OBVIOUS
    <2>1. TypeOK
        <3>1. queue \in Seq(Queries) /\ coming \in Seq(Queries)
            BY DEF Init
        <3>2. nameEntry \in BOOLEAN /\ listOpen \in BOOLEAN
            BY DEF Init
        <3>3. /\ asker \in [Askers -> {"away", "approving", "approved", "warning", "back",
                                       "naming", "ended"}]
              /\ open \in Entries \cup {Nothing} /\ frame \in {"messages", "keys"}
            BY DEF Init
        <3> QED  BY <3>1, <3>2, <3>3 DEF TypeOK
    <2>2. queue = <<>> /\ coming = <<>> /\ nameEntry = FALSE /\ open = Nothing
        BY DEF Init
    <2>3. ApprovalsInv
        BY <2>2 DEF ApprovalsInv
    <2>4. NameEntryFollowsItsQuery
        BY <2>2, Zenon DEF NameEntryFollowsItsQuery
    <2>5. OpenEntryKeepsItsQuery
        BY <2>2 DEF OpenEntryKeepsItsQuery
    <2> QED  BY <2>1, <2>3, <2>4, <2>5 DEF IInv
<1>2. IInv /\ [Next]_vars => IInv'
    BY StepKeeps
<1> HIDE DEF IInv
<1> QED  BY <1>1, <1>2, PTL DEF Spec

\* Every variable keeps its type: an entry or picker is only ever opened for a transfer, as
\* only transfers ask for approvals (user_queries_window.rs).
THEOREM TypeCorrect == Spec => []TypeOK
<1>1. IInv => TypeOK
    BY DEF IInv
<1> HIDE DEF IInv, TypeOK
<1> QED  BY <1>1, Invariance, PTL

\* user_queries_window.rs:427-428: however many queries are pushed, in whatever order, the
\* entry of the snapshot name is there exactly while its query is at the front.
THEOREM NameEntryFollows == Spec => []NameEntryFollowsItsQuery
<1>1. IInv => NameEntryFollowsItsQuery
    BY DEF IInv
<1> HIDE DEF IInv, NameEntryFollowsItsQuery
<1> QED  BY <1>1, Invariance, PTL

\* However many transfers ask, the query of an open entry is still in the queue, and whatever
\* came in front of it came with priority (user_queries_window.rs, ui.rs).
THEOREM OpenEntriesKept == Spec => []OpenEntryKeepsItsQuery
<1>1. IInv => OpenEntryKeepsItsQuery
    BY DEF IInv
<1> HIDE DEF IInv, OpenEntryKeepsItsQuery
<1> QED  BY <1>1, Invariance, PTL
=============================================================================
