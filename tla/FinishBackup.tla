---------------------------- MODULE FinishBackup ----------------------------
(***************************************************************************)
(* The "Finish backup and do snapshot" workflow: snapshot_logic.rs drives  *)
(* the steps of zfs_specific.rs on a thread of its own, against the        *)
(* snapshots of the media dataset, the completed_backup flag of the        *)
(* current backup log entry (in memory and in its file), the check         *)
(* terminal of the UI, and the consistency check main.rs runs at startup.  *)
(*                                                                         *)
(* Every `zfs` command and every flush of the log may fail without effect, *)
(* the program may be killed between any two steps, and a second run may   *)
(* be started while the first one's query is still on its way to the UI.   *)
(***************************************************************************)
EXTENDS Integers, Sequences

CONSTANTS
    Threads,   \* threads spawn_snapshot may have running at once
    Names,     \* final snapshot names, "<date>_<message>"
    MaxEntry,  \* bound on the backup log entries the media directory sees
    NoThread,  \* the check terminal is not shown
    LogErrors  \* whether the add_transfer of a transfer may fail and keep the log locked

ASSUME NoThreadAssumption == NoThread \notin Threads
ASSUME MaxEntryAssumption == MaxEntry \in Nat \ {0}
ASSUME LogErrorsAssumption == LogErrors \in BOOLEAN

VARIABLES
    snaps,     \* snapshots of the dataset
    entry,     \* number of the newest backup log entry
    logDisk,   \* completed_backup in the file of that entry
    logMem,    \* completed_backup in BackupLogManager.entry
    prog,      \* whether the program runs
    pc,        \* the step each snapshot thread is at
    name,      \* final_name of each thread's run
    doomed,    \* the stages unwind has still to destroy for each run
    asked,     \* SnapshotName queries on their way to the UI, oldest first
    opening,   \* StartCheckTerminal messages on their way to the UI, oldest first
    queries,   \* SnapshotName queries shown by the UI, front first
    terminal,  \* the thread whose action_tx the check terminal holds
    drained,   \* the UI has taken its messages and not yet handled this frame's key
    logError   \* a transfer shows the error of a failed add_transfer, the log's mutex held

disk    == <<snaps, entry, logDisk>>
ui      == <<asked, opening, queries, terminal, drained, logError>>
threads == <<pc, name, doomed>>
vars    == <<snaps, entry, logDisk, logMem, prog, pc, name, doomed,
             asked, opening, queries, terminal, drained, logError>>

Tripwire == "pre_"
Check    == "check_"
Plain    == "plain"
Stages   == {Tripwire, Check}

Snapshots == [stage : Stages \cup {Plain}, name : Names, entry : 1..MaxEntry, complete : BOOLEAN]

\* Where a thread is: before the run proper (no thread, StartSnapshot sent, the name
\* asked for, the terminal asked for), in do_snapshot_steps_before_check, at the check,
\* in do_snapshot_steps_after_check, in unwind, and at the last button.
Steps == {"idle", "requested", "asking", "named",
          "tripwire", "complete", "check", "drop",
          "checking", "decide", "rename", "revert", "destroy", "returning", "completed"}

-----------------------------------------------------------------------------
(* The dataset *)

Id(s) == <<s.stage, s.name>>

Exists(stage, n) == \E s \in snaps : Id(s) = <<stage, n>>

\* `zfs snapshot`: a new snapshot freezes the log file as it is now.
Frozen(stage, n) == [stage |-> stage, name |-> n, entry |-> entry, complete |-> logDisk]

Without(stage, n) == {s \in snaps : Id(s) # <<stage, n>>}

StageTagged == {s \in snaps : s.stage \in Stages}

\* The entries carried by a plain-named snapshot in which the log says complete.
Sealed == {s.entry : s \in {r \in snaps : r.stage = Plain /\ r.complete}}

-----------------------------------------------------------------------------
Init ==
    /\ snaps = {}
    /\ entry = 1
    /\ logDisk = FALSE
    /\ logMem = FALSE
    /\ prog = "off"
    /\ pc = [t \in Threads |-> "idle"]
    /\ name \in [Threads -> Names]
    /\ doomed = [t \in Threads |-> {}]
    /\ asked = <<>> /\ opening = <<>> /\ queries = <<>>
    /\ terminal = NoThread
    /\ drained = FALSE /\ logError = FALSE

Goto(t, step) == pc' = [pc EXCEPT ![t] = step]

\* Mutant: unwind would destroy the final name as well.
UnwindOfFinalToo(t, stages) ==
    Goto(t, "revert") /\ doomed' = [doomed EXCEPT ![t] = stages \cup {Plain}]

\* unwind(&[stages]) is the rest of the run
UnwindOf(t, stages) == Goto(t, "revert") /\ doomed' = [doomed EXCEPT ![t] = stages]

\* The thread's action_tx is gone: its terminal was opened and has been replaced or closed.
Disconnected(t) == terminal # t /\ \A i \in 1..Len(opening) : opening[i] # t

\* The UI handles at most one key per frame, after it has taken its messages. The check
\* terminal gets the key if it is shown, else the front query, else the actions window.
Key             == prog = "up" /\ drained /\ drained' = FALSE
KeyOfTerminal(t) == Key /\ terminal = t
KeyOfQuery      == Key /\ terminal = NoThread /\ queries # <<>>
KeyOfActions    == Key /\ terminal = NoThread /\ queries = <<>>

\* The UI returns: who waits for an answer of it sees an error and goes on.
UiGone ==
    /\ asked' = <<>> /\ opening' = <<>> /\ queries' = <<>>
    /\ terminal' = NoThread /\ drained' = FALSE
    /\ logError' = FALSE

-----------------------------------------------------------------------------
(* Starting a run: the actions window, the main loop and the UI's queue *)

\* Enter on "Finish backup and do snapshot".
StartSnapshot(t) ==
    /\ KeyOfActions
    /\ pc[t] = "idle"
    /\ Goto(t, "requested")
    /\ UNCHANGED <<disk, logMem, prog, name, doomed, asked, opening, queries, terminal, logError>>

\* The main loop spawns the thread, which sends its SnapshotName query.
AskSnapshotName(t) ==
    /\ prog = "up" /\ pc[t] = "requested"
    /\ Goto(t, "asking")
    /\ asked' = Append(asked, t)
    /\ UNCHANGED <<disk, logMem, prog, name, doomed, opening, queries, terminal, drained, logError>>

\* A frame of the UI takes every message; a new check terminal replaces the old one.
UiDrain ==
    /\ prog = "up" /\ ~drained
    /\ drained' = TRUE
    /\ asked' = <<>> /\ queries' = queries \o asked
    /\ opening' = <<>>
    /\ terminal' = IF opening = <<>> THEN terminal ELSE opening[Len(opening)]
    /\ UNCHANGED <<disk, logMem, prog, threads, logError>>

\* A frame without a key.
UiFrame ==
    /\ Key
    /\ UNCHANGED <<disk, logMem, prog, threads, asked, opening, queries, terminal, logError>>

\* The user answers the front query: cancel, or a message that gives the final name.
AnswerSnapshotName ==
    /\ KeyOfQuery /\ pc[Head(queries)] = "asking"
    /\ queries' = Tail(queries)
    /\ \/ Goto(Head(queries), "idle") /\ UNCHANGED name
       \/ \E n \in Names : /\ Goto(Head(queries), "named")
                           /\ name' = [name EXCEPT ![Head(queries)] = n]
    /\ UNCHANGED <<disk, logMem, prog, doomed, asked, opening, terminal, logError>>

StartCheckTerminal(t) ==
    /\ pc[t] = "named"
    /\ IF prog = "up"
       THEN Goto(t, "tripwire") /\ opening' = Append(opening, t)
       ELSE Goto(t, "idle") /\ UNCHANGED opening
    /\ UNCHANGED <<disk, logMem, prog, name, doomed, asked, queries, terminal, drained, logError>>

-----------------------------------------------------------------------------
(* do_snapshot_steps_before_check *)

\* Mutant: the result of the first zfs command is not looked at.
TakeTripwireUnchecked(t) ==
    /\ pc[t] = "tripwire"
    /\ Goto(t, "complete")
    /\ \/ ~Exists(Tripwire, name[t]) /\ snaps' = snaps \cup {Frozen(Tripwire, name[t])}
       \/ UNCHANGED snaps
    /\ UNCHANGED <<entry, logDisk, logMem, prog, name, doomed, ui>>

\* `zfs snapshot pre_NAME`; findmnt or the command may fail, and it does if the name is taken.
TakeTripwire(t) ==
    /\ pc[t] = "tripwire"
    /\ \/ /\ ~Exists(Tripwire, name[t])
          /\ snaps' = snaps \cup {Frozen(Tripwire, name[t])}
          /\ Goto(t, "complete")
       \/ Goto(t, "returning") /\ UNCHANGED snaps
    /\ UNCHANGED <<entry, logDisk, logMem, prog, name, doomed, ui>>

\* Mutant: a failed flush of the completed log is taken for a success.
CompleteBackupUnflushed(t) ==
    /\ pc[t] = "complete" /\ ~logError /\ Goto(t, "check")
    /\ logMem' = TRUE
    /\ logDisk' \in {logDisk, TRUE}
    /\ UNCHANGED <<snaps, entry, prog, name, doomed, ui>>

\* complete_backup(), once the log's mutex is free: memory first, then the flush, which may
\* fail.
CompleteBackup(t) ==
    /\ pc[t] = "complete" /\ ~logError
    /\ logMem' = TRUE
    /\ \/ logDisk' = TRUE /\ Goto(t, "check") /\ UNCHANGED doomed
       \/ UNCHANGED logDisk /\ UnwindOf(t, {Tripwire})
    /\ UNCHANGED <<snaps, entry, prog, name, ui>>

\* Mutant: the unwind after a failed check snapshot destroys that one, too.
TakeCheckOvereager(t) ==
    /\ pc[t] = "check"
    /\ \/ /\ ~Exists(Check, name[t])
          /\ snaps' = snaps \cup {Frozen(Check, name[t])}
          /\ Goto(t, "drop") /\ UNCHANGED doomed
       \/ UnwindOf(t, Stages) /\ UNCHANGED snaps
    /\ UNCHANGED <<entry, logDisk, logMem, prog, name, ui>>

TakeCheck(t) ==
    /\ pc[t] = "check"
    /\ \/ /\ ~Exists(Check, name[t])
          /\ snaps' = snaps \cup {Frozen(Check, name[t])}
          /\ Goto(t, "drop") /\ UNCHANGED doomed
       \/ UnwindOf(t, {Tripwire}) /\ UNCHANGED snaps
    /\ UNCHANGED <<entry, logDisk, logMem, prog, name, ui>>

DropTripwire(t) ==
    /\ pc[t] = "drop"
    /\ \/ /\ Exists(Tripwire, name[t])
          /\ snaps' = Without(Tripwire, name[t])
          /\ Goto(t, "checking") /\ UNCHANGED doomed
       \/ UnwindOf(t, Stages) /\ UNCHANGED snaps
    /\ UNCHANGED <<entry, logDisk, logMem, prog, name, ui>>

-----------------------------------------------------------------------------
(* The check program and what the user makes of it *)

\* run_check_loop: the program passes, or it fails or cannot be started.
CheckEnds(t) ==
    /\ pc[t] = "checking"
    /\ \E step \in {"rename", "decide"} : Goto(t, step)
    /\ UNCHANGED <<disk, logMem, prog, name, doomed, ui>>

\* The buttons of the check terminal: keep ("Skip check & complete snapshot", "Keep
\* snapshot anyway") or remove ("Skip check & remove snapshot", "Destroy snapshot").
ChooseKeep(t) ==
    /\ pc[t] \in {"checking", "decide"} /\ KeyOfTerminal(t)
    /\ Goto(t, "rename")
    /\ UNCHANGED <<disk, logMem, prog, name, doomed, asked, opening, queries, terminal, logError>>

ChooseRemove(t) ==
    /\ pc[t] \in {"checking", "decide"} /\ KeyOfTerminal(t)
    /\ UnwindOf(t, {Check})
    /\ UNCHANGED <<disk, logMem, prog, name, asked, opening, queries, terminal, logError>>

\* The UI side of the action channel is gone: the thread returns as it stands.
LoseTerminal(t) ==
    /\ pc[t] \in {"checking", "decide", "returning", "completed"} /\ Disconnected(t)
    /\ Goto(t, "idle")
    /\ UNCHANGED <<disk, logMem, prog, name, doomed, ui>>

-----------------------------------------------------------------------------
(* do_snapshot_steps_after_check, unwind, and the last button *)

\* Mutant: the result of the rename is not looked at.
RenameCheckUnchecked(t) ==
    /\ pc[t] = "rename" /\ Goto(t, "completed")
    /\ UNCHANGED <<disk, logMem, prog, name, doomed, ui>>

\* `zfs rename` is atomic; it fails if the final name is taken.
RenameCheck(t) ==
    /\ pc[t] = "rename"
    /\ \/ /\ Exists(Check, name[t]) /\ ~Exists(Plain, name[t])
          /\ snaps' = Without(Check, name[t])
                        \cup {[s EXCEPT !.stage = Plain] : s \in snaps \ Without(Check, name[t])}
          /\ Goto(t, "completed") /\ UNCHANGED doomed
       \/ UnwindOf(t, {Check}) /\ UNCHANGED snaps
    /\ UNCHANGED <<entry, logDisk, logMem, prog, name, ui>>

\* Mutant: unwind goes on to destroy although the log still says complete.
RevertLogAnyway(t) ==
    /\ pc[t] = "revert" /\ ~logError /\ Goto(t, "destroy")
    /\ logMem' = FALSE
    /\ logDisk' \in {logDisk, FALSE}
    /\ UNCHANGED <<snaps, entry, prog, name, doomed, ui>>

\* mark_backup_incomplete(), under the same mutex; if its flush fails the snapshots are left
\* alone on purpose.
RevertLog(t) ==
    /\ pc[t] = "revert" /\ ~logError
    /\ logMem' = FALSE
    /\ \/ logDisk' = FALSE /\ Goto(t, "destroy") /\ UNCHANGED doomed
       \/ /\ UNCHANGED logDisk
          /\ Goto(t, "returning") /\ doomed' = [doomed EXCEPT ![t] = {}]
    /\ UNCHANGED <<snaps, entry, prog, name, ui>>

\* Mutants: destroy matches the name without its stage; a failed destroy restarts unwind.
DestroyByName(t) ==
    /\ pc[t] = "destroy" /\ doomed[t] # {}
    /\ doomed' = [doomed EXCEPT ![t] = {}]
    /\ snaps' = {s \in snaps : s.name # name[t]}
    /\ UNCHANGED <<entry, logDisk, logMem, prog, pc, name, ui>>

DestroyRetried(t) ==
    /\ pc[t] = "destroy" /\ doomed[t] # {}
    /\ \/ /\ snaps' = {s \in snaps : s.name = name[t] => s.stage \notin doomed[t]}
          /\ doomed' = [doomed EXCEPT ![t] = {}]
          /\ UNCHANGED pc
       \/ Goto(t, "revert") /\ UNCHANGED <<snaps, doomed>>
    /\ UNCHANGED <<entry, logDisk, logMem, prog, name, ui>>

\* One turn of unwind's loop, the check snapshot first: each `zfs destroy` is best-effort.
DestroyNext(t) ==
    /\ pc[t] = "destroy"
    /\ \E stage \in doomed[t] :
          /\ Check \in doomed[t] => stage = Check
          /\ doomed' = [doomed EXCEPT ![t] = @ \ {stage}]
          /\ \/ snaps' = Without(stage, name[t])
             \/ UNCHANGED snaps
    /\ UNCHANGED <<entry, logDisk, logMem, prog, pc, name, ui>>

UnwindDone(t) ==
    /\ pc[t] = "destroy" /\ doomed[t] = {}
    /\ Goto(t, "returning")
    /\ UNCHANGED <<disk, logMem, prog, name, doomed, ui>>

\* "Return to main screen": the thread sends Exit and ends.
ReturnToMain(t) ==
    /\ pc[t] = "returning" /\ KeyOfTerminal(t)
    /\ Goto(t, "idle")
    /\ terminal' = NoThread
    /\ UNCHANGED <<disk, logMem, prog, name, doomed, asked, opening, queries, logError>>

\* "Complete backup and exit": the main loop unmounts, tells the UI to quit and leaves its
\* loop. Queries the UI drops wake their threads, which return.
CompleteBackupAndExit(t) ==
    /\ prog = "up" /\ drained /\ pc[t] = "completed" /\ terminal = t
    /\ prog' = "quitting"
    /\ pc' = [u \in Threads |->
                IF u = t \/ pc[u] \in {"requested", "asking"} THEN "idle" ELSE pc[u]]
    /\ UiGone
    /\ UNCHANGED <<disk, logMem, name, doomed>>

-----------------------------------------------------------------------------
(* The rest of the program *)

\* A transfer thread (a card plugged in meanwhile) flushes the whole entry.
TransferFlush ==
    /\ prog \in {"up", "quitting"} /\ ~logError
    /\ logDisk' = logMem
    /\ UNCHANGED <<snaps, entry, logMem, prog, threads, ui>>

\* The flush of its add_transfer fails: the guard of the log's mutex lives on while the user
\* is told.
TransferFlushFails ==
    /\ LogErrors /\ prog = "up" /\ ~logError
    /\ logError' = TRUE
    /\ UNCHANGED <<disk, logMem, prog, threads, asked, opening, queries, terminal, drained>>

\* The user reads the error, which the UI does not show under the check terminal.
DismissLogError ==
    /\ Key /\ terminal = NoThread /\ logError
    /\ logError' = FALSE
    /\ UNCHANGED <<disk, logMem, prog, threads, asked, opening, queries, terminal>>

\* "Unmount and exit" is refused while a thread of either kind is running.
Quit ==
    /\ prog = "up" /\ drained /\ terminal = NoThread /\ queries = <<>>
    /\ ~logError /\ \A t \in Threads : pc[t] = "idle"
    /\ prog' = "quitting"
    /\ UiGone
    /\ UNCHANGED <<disk, logMem, threads>>

\* The process ends once every thread has dropped its clone of the UI.
ProcessEnds ==
    /\ prog = "quitting"
    /\ \A t \in Threads : pc[t] = "idle"
    /\ prog' = "off" /\ logMem' = FALSE
    /\ UNCHANGED <<disk, threads, ui>>

\* The program is killed. (Flushes are not synced, so a loss of power may undo what they did.)
Crash ==
    /\ prog \in {"up", "quitting"}
    /\ prog' = "off" /\ logMem' = FALSE
    /\ pc' = [t \in Threads |-> "idle"]
    /\ doomed' = [t \in Threads |-> {}]
    /\ UiGone
    /\ UNCHANGED <<disk, name>>

\* check_correct_shutdown refuses to start beside a stage-tagged snapshot.
StartRefused ==
    /\ prog = "off" /\ StageTagged # {}
    /\ prog' = "refused"
    /\ UNCHANGED <<disk, logMem, threads, ui>>

\* load_backup_log: an entry that is not complete is resumed.
StartExisting ==
    /\ prog = "off" /\ StageTagged = {} /\ ~logDisk
    /\ prog' = "up"
    /\ logMem' = logDisk
    /\ UNCHANGED <<disk, threads, ui>>

\* Mutant: the start does not look for stage-tagged snapshots.
StartNewEntryUnchecked ==
    /\ prog = "off" /\ logDisk
    /\ entry < MaxEntry
    /\ prog' = "up"
    /\ entry' = entry + 1
    /\ logDisk' = FALSE /\ logMem' = FALSE
    /\ UNCHANGED <<snaps, threads, ui>>

\* load_backup_log: a complete entry is closed and a new one created.
StartNewEntry ==
    /\ prog = "off" /\ StageTagged = {} /\ logDisk
    /\ entry < MaxEntry
    /\ prog' = "up"
    /\ entry' = entry + 1
    /\ logDisk' = FALSE /\ logMem' = FALSE
    /\ UNCHANGED <<snaps, threads, ui>>

\* A human sorts out what the refused start reported: the leftovers are destroyed and the
\* log claims completion only if a plain snapshot carries it.
SortOutByHand ==
    /\ prog = "refused"
    /\ prog' = "off"
    /\ snaps' = snaps \ StageTagged
    /\ logDisk' = (logDisk /\ entry \in Sealed)
    /\ UNCHANGED <<entry, logMem, threads, ui>>

-----------------------------------------------------------------------------
ThreadStep(t) ==
    \/ AskSnapshotName(t) \/ StartCheckTerminal(t)
    \/ TakeTripwire(t) \/ CompleteBackup(t) \/ TakeCheck(t) \/ DropTripwire(t)
    \/ CheckEnds(t) \/ LoseTerminal(t)
    \/ RenameCheck(t) \/ RevertLog(t) \/ DestroyNext(t) \/ UnwindDone(t)

UserStep(t) ==
    \/ StartSnapshot(t) \/ ChooseKeep(t) \/ ChooseRemove(t)
    \/ ReturnToMain(t) \/ CompleteBackupAndExit(t)

Next ==
    \/ \E t \in Threads : ThreadStep(t) \/ UserStep(t)
    \/ UiDrain \/ UiFrame \/ AnswerSnapshotName
    \/ TransferFlush \/ TransferFlushFails \/ DismissLogError \/ Quit \/ ProcessEnds \/ Crash
    \/ StartRefused \/ StartExisting \/ StartNewEntry \/ SortOutByHand

Spec == Init /\ [][Next]_vars

\* The scheduler runs every thread that can run, which one that waits for the log's mutex
\* cannot; the user and the rest are not obliged.
FairSpec == Spec /\ \A t \in Threads : WF_vars(ThreadStep(t))

-----------------------------------------------------------------------------
(* Properties *)

\* Every variable has its type: a run only ever names the two stages it tags, and the UI
\* only threads of the workflow.
TypeOK ==
    /\ snaps \subseteq Snapshots
    /\ entry \in 1..MaxEntry
    /\ logDisk \in BOOLEAN /\ logMem \in BOOLEAN
    /\ prog \in {"off", "refused", "up", "quitting"}
    /\ pc \in [Threads -> Steps]
    /\ name \in [Threads -> Names]
    /\ doomed \in [Threads -> SUBSET Stages]
    /\ asked \in Seq(Threads) /\ opening \in Seq(Threads) /\ queries \in Seq(Threads)
    /\ terminal \in Threads \cup {NoThread}
    /\ drained \in BOOLEAN /\ logError \in BOOLEAN

\* zfs_specific.rs:46-49: while the log file claims a completed backup that no plain
\* snapshot carries, a stage-tagged snapshot is on disk, so that a crash at this very
\* instant is noticed by the next start.
CompletionIsGuarded == logDisk /\ entry \notin Sealed => StageTagged # {}

\* What the workflow is for: an entry the program has put behind it (it opened a newer one)
\* is carried, marked complete, by a plain-named snapshot.
ClosedEntriesAreSealed == \A e \in 1..(entry - 1) : e \in Sealed

\* zfs_specific.rs:37: the frozen copy of the log says complete in every snapshot that ends
\* up with a plain name.
PlainSnapshotsSayComplete == \A s \in snaps : s.stage = Plain => s.complete

\* snapshot_logic.rs:411, main.rs:967: when "Complete backup and exit" is offered, the log
\* of the live media directory is marked complete and the snapshot exists.
ExitOfferedWhenSealed ==
    \A t \in Threads : pc[t] = "completed" => logDisk /\ entry \in Sealed

\* No step of the program destroys or replaces a plain-named snapshot, whatever names later
\* runs reuse.
PlainSnapshotsArePermanent ==
    [][\A s \in snaps : s.stage = Plain => s \in snaps']_vars

\* zfs_specific.rs:107: when the run is back at "Return to main screen" after an error,
\* nothing stage-tagged of that run is left.
ErrorLeavesNothingBehind ==
    \A t \in Threads : pc[t] = "returning" => ~\E stage \in Stages : Exists(stage, name[t])

\* zfs_specific.rs:51-52: when a plain-named snapshot comes into existence, nothing
\* stage-tagged is left beside it.
PlainSnapshotStandsAlone ==
    [][(\E s \in snaps' : s.stage = Plain /\ s \notin snaps) => StageTagged' = {}]_vars

\* A run that began to touch the dataset gets back to a point where the user is asked, or
\* ends: no failure of a command or a flush makes the thread retry or wait for ever. The one
\* thing that can is the error of a failed add_transfer, should it stay behind the terminal
\* with the log's mutex held (transfer_logic.rs:807).
RunsReachTheUser ==
    \A t \in Threads :
        [](pc[t] \in {"tripwire", "rename", "revert"}
            => <>(\/ pc[t] \in {"checking", "decide", "returning", "completed", "idle"}
                  \/ []logError))

-----------------------------------------------------------------------------
(* The inductive invariant behind CompletionIsGuarded *)

\* The snapshots a run took and has not yet given up: it alone may destroy or rename them.
Holds(t, stage) ==
    \/ stage = Tripwire /\ pc[t] \in {"complete", "check", "drop"}
    \/ stage = Check    /\ pc[t] \in {"drop", "checking", "decide", "rename"}
    \/ stage \in doomed[t] /\ pc[t] \in {"revert", "destroy"}

HeldBy(t, s) == s.name = name[t] /\ Holds(t, s.stage)

\* Stage-tagged snapshots no running thread will touch again: they stay until the next
\* start and make it refuse.
Strays == {s \in StageTagged : \A t \in Threads : ~HeldBy(t, s)}

\* The log's claim is the work of t, which either goes on to seal the entry with a check
\* snapshot that froze the claim, or is about to take the claim back.
Backs(t) ==
    \/ pc[t] = "check" /\ logDisk
    \/ /\ pc[t] \in {"drop", "checking", "decide", "rename"}
       /\ [stage |-> Check, name |-> name[t], entry |-> entry, complete |-> TRUE] \in snaps
    \/ pc[t] = "revert"

SnapshotIdsAreUnique == \A r, s \in snaps : Id(r) = Id(s) => r = s

HeldSnapshotsExist ==
    \A t \in Threads, stage \in Stages : Holds(t, stage) => Exists(stage, name[t])

HoldersAreExclusive ==
    \A t, u \in Threads, stage \in Stages :
        t # u /\ Holds(t, stage) /\ Holds(u, stage) => name[t] # name[u]

UnwindHasWork == \A t \in Threads : pc[t] = "revert" => doomed[t] # {}

OffMeansIdle ==
    prog \in {"off", "refused"} => ~logMem /\ \A t \in Threads : pc[t] = "idle"

MemoryClaimIsBacked ==
    logMem /\ entry \notin Sealed => Strays # {} \/ \E t \in Threads : Backs(t)

\* Memory no longer claims what the file still does: the flush of mark_backup_incomplete
\* failed and unwind left its snapshots alone.
DiskClaimIsFlagged == logDisk /\ ~logMem /\ entry \notin Sealed => Strays # {}

GuardInv ==
    /\ SnapshotIdsAreUnique
    /\ HeldSnapshotsExist
    /\ HoldersAreExclusive
    /\ UnwindHasWork
    /\ OffMeansIdle
    /\ MemoryClaimIsBacked
    /\ DiskClaimIsFlagged
    /\ ClosedEntriesAreSealed

-----------------------------------------------------------------------------
(* What holds of one run at a time, which is how the workflow is meant (main.rs:953) *)

OneRunAtATime == \A t, u \in Threads : t = u

\* From the flush of the completed log to the last button, the log says so and nobody takes
\* it back; what is frozen meanwhile says so, too.
CompletionStands ==
    \A t \in Threads :
        /\ pc[t] \in {"check", "drop", "checking", "decide", "rename", "completed"}
              => logMem /\ logDisk
        /\ pc[t] \in {"drop", "checking", "decide", "rename"}
              => \A s \in snaps : Id(s) = <<Check, name[t]>> => s.complete
        /\ pc[t] = "completed" => entry \in Sealed

OneRunInv == CompletionStands /\ PlainSnapshotsSayComplete

-----------------------------------------------------------------------------
(* The workflow implements the abstract promise *)

Promise == INSTANCE BackupSeal WITH
    open    <- entry,
    sealed  <- Sealed,
    claimed <- logDisk,
    guarded <- StageTagged # {}

\* Every step of the workflow, its failures and its crashes, is a step of the documented
\* protocol (or leaves what the protocol sees unchanged).
ImplementsPromise == Promise!Spec
=============================================================================
