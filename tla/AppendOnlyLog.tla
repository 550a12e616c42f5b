---------------------------- MODULE AppendOnlyLog ----------------------------
(***************************************************************************)
(* What the backup log promises, without files, flushes or failures: a     *)
(* chain of entries in which only the last one is written to, which loses  *)
(* nothing it was given, and to which another entry is appended by naming  *)
(* the one before it. Nobody is told that a transfer is recorded before it *)
(* is (backup_log.rs:167, 175-177 and 215).                                *)
(***************************************************************************)
CONSTANTS
    Ids,        \* names of entries
    Transfers,  \* what is recorded
    NoId        \* there is no entry

VARIABLES
    recorded,   \* of each entry the one before it and the transfers it holds
    last,       \* the entry that is written to
    acked       \* the transfers somebody was told of

logVars == <<recorded, last, acked>>

Init ==
    /\ recorded = [i \in {} |-> NoId]
    /\ last = NoId
    /\ acked = {}

\* Somebody may be told, but only of what the last entry then holds.
Acknowledge ==
    \E told \in SUBSET recorded'[last'].transfers : acked' = acked \cup told

\* An entry may hold transfers when it first appears: a program that goes on with what a flush
\* cut short had written of it writes it for the first time together with a transfer.
AppendEntry ==
    \E i \in Ids \ DOMAIN recorded, held \in SUBSET Transfers :
        /\ recorded' = [j \in DOMAIN recorded \cup {i} |->
                           IF j = i THEN [before |-> last, transfers |-> held] ELSE recorded[j]]
        /\ last' = i
        /\ Acknowledge

\* Transfers are added to the last entry, to no other.
RecordTransfers ==
    \E held \in SUBSET Transfers :
        /\ last \in DOMAIN recorded
        /\ recorded' = [recorded EXCEPT ![last].transfers = @ \cup held]
        /\ last' = last
        /\ Acknowledge

Next == AppendEntry \/ RecordTransfers

Spec == Init /\ [][Next]_logVars
=============================================================================
