------------------------------- MODULE CardMove -------------------------------
(***************************************************************************)
(* From a mounted card to the card directories: the mount thread's         *)
(* transfers (mount_manager.rs), and what a transfer thread does after the *)
(* approval (transfer_logic.rs) - planning, measuring, the record in the   *)
(* backup log, the move by the system's mv, its samples and its outcome -  *)
(* with the replay of the log at the next start (main.rs).                 *)
(*                                                                         *)
(* Card and media directory are on different filesystems, so mv copies an  *)
(* entry file by file and then removes it from the card. A file counts for *)
(* one byte, a torn copy for none. There are no symbolic links.            *)
(***************************************************************************)
EXTENDS DeviceConfig, Integers, Sequences

CONSTANTS
    Transfers,   \* transfer threads
    CardDirs,    \* card directories
    CardOf,      \* the card directory each transfer was approved for
    Cards,       \* cards that may be plugged in: a configuration and what is on the card
    Edits,       \* input paths a user may pick instead of the detected one
    MaxCrashes,  \* bound on the stops of the program
    NoNode,      \* mv is between two entries
    NoSample     \* no sample recorded

ASSUME TransfersAssumption == CardOf \in [Transfers -> CardDirs]
ASSUME CardsAssumption ==
    /\ Cards \subseteq [config : ConfigType, nodes : SUBSET Nodes]
    /\ \A c \in Cards : Root \in c.nodes /\ (c.config.state = "absent" \/ ConfigFile \in c.nodes)
ASSUME EditsAssumption == Edits \subseteq Nodes
ASSUME CrashesAssumption == MaxCrashes \in Nat
ASSUME NoNodeAssumption == NoNode \notin Nodes
ASSUME NoSampleAssumption == NoSample \notin Nat

VARIABLES
    prog,      \* the program runs, has stopped, or refused to start
    crashes,   \* how often it stopped
    plugged,   \* the card as it was plugged in
    card,      \* the nodes it has by now
    dest,      \* the copies in each card directory
    mem,       \* the transfers of the log entry, in memory
    disk,      \* and in its file
    mount,     \* the step of the mount thread
    overrides, \* the overrides it has still to start
    offers,    \* the transfers it started since it read the configuration
    pc,        \* the step of each transfer thread
    detected,  \* the input path it was started with
    input,     \* the one approved
    plan,      \* source_entries
    total,     \* bytes_total
    outcome,   \* move_outcome
    mv,        \* the state of its mv process, which outlives a killed program
    todo,      \* the arguments mv has not come to
    at,        \* the one it is moving
    left       \* the files of it still to copy

log      == <<mem, disk>>
mounting == <<plugged, mount, overrides, offers>>
planning == <<detected, input, plan, total>>
moving   == <<mv, todo, at, left>>
vars == <<prog, crashes, plugged, card, dest, mem, disk, mount, overrides, offers, pc, detected,
          input, plan, total, outcome, mv, todo, at, left>>

Steps == {"unborn", "asking", "approved", "warned", "recording", "moving", "finalizing",
          "reporting", "logerror", "ended"}
Copies == [entry : Nodes, file : Files, whole : BOOLEAN]
Records == [owner : Transfers, dir : CardDirs, total : Nat, last : Nat \cup {NoSample},
            outcome : {"open", "succeeded", "failed"}]

-----------------------------------------------------------------------------
Init ==
    /\ prog = "up" /\ crashes = 0
    /\ plugged \in Cards /\ card = plugged.nodes
    /\ dest = [d \in CardDirs |-> {}]
    /\ mem = <<>> /\ disk = <<>>
    /\ mount = "loading" /\ overrides = {} /\ offers = {}
    /\ pc = [t \in Transfers |-> "unborn"]
    /\ detected = [t \in Transfers |-> Root]
    /\ input = [t \in Transfers |-> Root]
    /\ plan = [t \in Transfers |-> {}]
    /\ total = [t \in Transfers |-> 0]
    /\ outcome = [t \in Transfers |-> "none"]
    /\ mv = [t \in Transfers |-> "none"]
    /\ todo = [t \in Transfers |-> {}]
    /\ at = [t \in Transfers |-> NoNode]
    /\ left = [t \in Transfers |-> {}]

Up == prog = "up"
Goto(t, step) == pc' = [pc EXCEPT ![t] = step]

\* The whole files in a card directory, which is what directory_size_bytes measures there.
WholeIn(d)  == {c \in dest[d] : c.whole}
BytesIn(d)  == Cardinality(WholeIn(d))
FilesOf(entries) == {f \in Files \cap card : \E e \in entries : f \in Under[e]}

\* finalize_transfer and update_transfer_samples: the first record of the directory.
IsFirst(records, i, d) ==
    records[i].dir = d /\ \A j \in DOMAIN records : j < i => records[j].dir # d

WithSample(records, d, bytes) ==
    [i \in DOMAIN records |->
        IF IsFirst(records, i, d) THEN [records[i] EXCEPT !.last = bytes] ELSE records[i]]

WithOutcome(records, d, result) ==
    [i \in DOMAIN records |->
        IF IsFirst(records, i, d) THEN [records[i] EXCEPT !.outcome = result] ELSE records[i]]

\* A transfer that shows the error of its record does so with the log's mutex held.
LogFree == \A t \in Transfers : pc[t] # "logerror"

\* A flush replaces the file by what is in memory, or fails and leaves it as it is.
Flush == disk' \in {mem', disk}

-----------------------------------------------------------------------------
(* The mount thread *)

\* What the mount thread finds at the root: nothing, once the file was moved off the card.
ConfigRead ==
    IF ConfigFile \in card THEN plugged.config ELSE [plugged.config EXCEPT !.state = "absent"]

\* The configuration is read once; an error is shown, and the whole card offered after it.
LoadConfig ==
    /\ Up /\ mount = "loading"
    /\ mount' = IF Rejected(ConfigRead, card) THEN "reporting" ELSE "spawning"
    /\ overrides' = EffectiveOverrides(ConfigRead, card)
    /\ offers' = {}
    /\ UNCHANGED <<prog, crashes, plugged, card, dest, log, pc, planning, outcome, moving>>

DismissConfigError ==
    /\ Up /\ mount = "reporting" /\ mount' = "spawning"
    /\ UNCHANGED <<prog, crashes, plugged, card, dest, log, overrides, offers, pc, planning,
                   outcome, moving>>

\* spawn_transfer for each override; without an input path the card's root is detected.
SpawnTransfer(t, o) ==
    /\ Up /\ mount = "spawning" /\ o \in overrides /\ pc[t] = "unborn"
    /\ Goto(t, "asking")
    /\ overrides' = overrides \ {o} /\ offers' = offers \cup {t}
    /\ mount' = IF overrides = {o} THEN "done" ELSE mount
    /\ LET path == IF o = WholeCard THEN Root ELSE o IN
       /\ detected' = [detected EXCEPT ![t] = path]
       /\ input' = [input EXCEPT ![t] = path]
    /\ UNCHANGED <<prog, crashes, plugged, card, dest, log, plan, total, outcome, moving>>

\* The card is unplugged and plugged in again.
Replug ==
    /\ Up /\ mount = "done" /\ mount' = "loading"
    /\ UNCHANGED <<prog, crashes, plugged, card, dest, log, overrides, offers, pc, planning,
                   outcome, moving>>

-----------------------------------------------------------------------------
(* The transfer thread *)

Approve(t) ==
    /\ Up /\ pc[t] = "asking" /\ Goto(t, "approved")
    /\ \E path \in {detected[t]} \cup Edits : input' = [input EXCEPT ![t] = path]
    /\ UNCHANGED <<prog, crashes, card, dest, log, mounting, detected, plan, total, outcome,
                   moving>>

Deny(t) ==
    /\ Up /\ pc[t] = "asking" /\ Goto(t, "ended")
    /\ UNCHANGED <<prog, crashes, card, dest, log, mounting, planning, outcome, moving>>

\* mv is not GNU's, or the card cannot be remounted read-write.
Unfit(t) ==
    /\ Up /\ pc[t] = "approved" /\ Goto(t, "reporting")
    /\ UNCHANGED <<prog, crashes, card, dest, log, mounting, planning, outcome, moving>>

\* Mutant: the configuration file is moved along with everything else at the root.
EntriesWithConfig(path) == IF path \in Files THEN {path} ELSE Children[path] \cap card

\* What plan_card_move selects: a file itself, or the contents of a directory, without the
\* configuration file at the root.
Entries(path) ==
    IF path \in Files THEN {path}
    ELSE (Children[path] \cap card) \ (IF path = Root THEN {ConfigFile} ELSE {})

\* The move is planned and measured, then recorded and started with the plan. A plan of no
\* bytes needs the user's word. The plan may fail, and the move then fails with its error.
PlanMove(t) ==
    /\ Up /\ pc[t] = "approved"
    /\ \/ /\ input[t] \in card
          /\ LET entries == Entries(input[t])
                 bytes   == Cardinality(FilesOf(entries)) IN
             /\ plan' = [plan EXCEPT ![t] = entries]
             /\ total' = [total EXCEPT ![t] = bytes]
             /\ Goto(t, IF bytes = 0 THEN "warned" ELSE "recording")
          /\ UNCHANGED outcome
       \/ /\ outcome' = [outcome EXCEPT ![t] = "failed"] /\ Goto(t, "warned")
          /\ UNCHANGED <<plan, total>>
    /\ UNCHANGED <<prog, crashes, card, dest, log, mounting, detected, input, moving>>

CancelEmpty(t) ==
    /\ Up /\ pc[t] = "warned" /\ Goto(t, "ended")
    /\ UNCHANGED <<prog, crashes, card, dest, log, mounting, planning, outcome, moving>>

ProceedEmpty(t) ==
    /\ Up /\ pc[t] = "warned" /\ Goto(t, "recording")
    /\ UNCHANGED <<prog, crashes, card, dest, log, mounting, planning, outcome, moving>>

NewRecord(t) ==
    [owner |-> t, dir |-> CardOf[t], total |-> total[t], last |-> NoSample, outcome |-> "open"]

\* Without entries there is nothing to run, and the move has succeeded.
StartMv(t) ==
    /\ mv' = [mv EXCEPT ![t] = IF plan[t] = {} THEN "ok" ELSE "running"]
    /\ todo' = [todo EXCEPT ![t] = plan[t]]

\* Mutant: the transfer goes on although the file of the log could not be written.
RecordAnyway(t) ==
    /\ Up /\ pc[t] = "recording" /\ LogFree
    /\ mem' = Append(mem, NewRecord(t)) /\ Flush
    /\ \/ outcome[t] # "failed" /\ Goto(t, "moving") /\ StartMv(t)
       \/ outcome[t] = "failed" /\ Goto(t, "finalizing") /\ UNCHANGED <<mv, todo>>
    /\ UNCHANGED <<prog, crashes, card, dest, mounting, planning, outcome, at, left>>

\* add_transfer; without a record in the file nothing is moved, and the log stays locked until
\* the error is dismissed. With a plan that failed the move has failed.
Record(t) ==
    /\ Up /\ pc[t] = "recording" /\ LogFree
    /\ mem' = Append(mem, NewRecord(t))
    /\ \/ /\ disk' = mem' /\ outcome[t] # "failed"
          /\ Goto(t, "moving") /\ StartMv(t)
       \/ /\ disk' = mem' /\ outcome[t] = "failed"
          /\ Goto(t, "finalizing") /\ UNCHANGED <<mv, todo>>
       \/ /\ disk' = disk
          /\ Goto(t, "logerror") /\ UNCHANGED <<mv, todo>>
    /\ UNCHANGED <<prog, crashes, card, dest, mounting, planning, outcome, at, left>>

\* Mutant: that mv could be run is taken for its success.
TakeResultUnchecked(t) ==
    /\ Up /\ pc[t] = "moving" /\ LogFree
    /\ mv[t] \in {"ok", "failed"} /\ Goto(t, "finalizing")
    /\ mem' = WithSample(mem, CardOf[t],
                    IF plan[t] = {} THEN total[t] ELSE BytesIn(CardOf[t])) /\ Flush
    /\ outcome' = [outcome EXCEPT ![t] = "succeeded"]
    /\ UNCHANGED <<prog, crashes, card, dest, mounting, planning, moving>>

\* Mutant: only a success ends the wait.
TakeSuccess(t) ==
    /\ Up /\ pc[t] = "moving" /\ LogFree
    /\ mv[t] = "ok" /\ Goto(t, "finalizing")
    /\ mem' = WithSample(mem, CardOf[t],
                    IF plan[t] = {} THEN total[t] ELSE BytesIn(CardOf[t])) /\ Flush
    /\ \E result \in {"succeeded", "failed"} : outcome' = [outcome EXCEPT ![t] = result]
    /\ UNCHANGED <<prog, crashes, card, dest, mounting, planning, moving>>

\* Mutant: the outcome is not kept.
TakeResultForgotten(t) ==
    /\ Up /\ pc[t] = "moving" /\ LogFree
    /\ mv[t] \in {"ok", "failed"} /\ Goto(t, "finalizing")
    /\ mem' = WithSample(mem, CardOf[t],
                    IF plan[t] = {} THEN total[t] ELSE BytesIn(CardOf[t])) /\ Flush
    /\ UNCHANGED <<prog, crashes, card, dest, mounting, planning, outcome, moving>>

\* mv has ended: a last sample (it replaces those before it), and the outcome.
\* normalize_copied_permissions may turn a success into a failure.
TakeResult(t) ==
    /\ Up /\ pc[t] = "moving" /\ LogFree
    /\ mv[t] \in {"ok", "failed"} /\ Goto(t, "finalizing")
    /\ mem' = WithSample(mem, CardOf[t],
                    IF plan[t] = {} THEN total[t] ELSE BytesIn(CardOf[t])) /\ Flush
    /\ \E result \in {"succeeded", "failed"} :
          /\ mv[t] = "failed" => result = "failed"
          /\ outcome' = [outcome EXCEPT ![t] = result]
    /\ UNCHANGED <<prog, crashes, card, dest, mounting, planning, moving>>

\* finalize_transfer, whose own failure is ignored; an error is shown.
Finalize(t) ==
    /\ Up /\ pc[t] = "finalizing" /\ LogFree
    /\ mem' = WithOutcome(mem, CardOf[t], outcome[t]) /\ Flush
    /\ Goto(t, IF outcome[t] = "succeeded" THEN "ended" ELSE "reporting")
    /\ UNCHANGED <<prog, crashes, card, dest, mounting, planning, outcome, moving>>

DismissError(t) ==
    /\ Up /\ pc[t] = "reporting" /\ Goto(t, "ended")
    /\ UNCHANGED <<prog, crashes, card, dest, log, mounting, planning, outcome, moving>>

\* The user dismisses the error of a record, and the log is unlocked.
DismissLogError(t) ==
    /\ Up /\ pc[t] = "logerror" /\ Goto(t, "ended")
    /\ UNCHANGED <<prog, crashes, card, dest, log, mounting, planning, outcome, moving>>

-----------------------------------------------------------------------------
(* The mv process *)

Runs(t) == mv[t] \in {"running", "failing"}
MvUnchanged == UNCHANGED <<prog, crashes, log, mounting, pc, planning, outcome>>

\* Copies that stand where mv wants to put an entry.
InTheWay(t, e) == {c \in dest[CardOf[t]] : Name[c.entry] = Name[e]}

\* mv comes to an entry. A file replaces a file of the same name; anything else in the way,
\* or an entry that is gone from the card, is an error, and mv goes on with the next.
MvEntry(t, e) ==
    /\ Runs(t) /\ at[t] = NoNode /\ e \in todo[t]
    /\ todo' = [todo EXCEPT ![t] = @ \ {e}]
    /\ \/ /\ e \in card
          /\ \/ InTheWay(t, e) = {}
             \/ e \in Files /\ \A c \in InTheWay(t, e) : c.entry \in Files
          /\ dest' = [dest EXCEPT ![CardOf[t]] = @ \ InTheWay(t, e)]
          /\ at' = [at EXCEPT ![t] = e]
          /\ left' = [left EXCEPT ![t] = FilesOf({e})]
          /\ UNCHANGED mv
       \/ /\ mv' = [mv EXCEPT ![t] = "failing"]
          /\ UNCHANGED <<dest, at, left>>
    /\ UNCHANGED card /\ MvUnchanged

Copy(t, f, whole) == [entry |-> at[t], file |-> f, whole |-> whole]

\* A file of the entry is copied, or no longer found in its directory.
MvCopy(t, f) ==
    /\ Runs(t) /\ f \in left[t]
    /\ left' = [left EXCEPT ![t] = @ \ {f}]
    /\ \/ f \in card /\ dest' = [dest EXCEPT ![CardOf[t]] = @ \cup {Copy(t, f, TRUE)}]
       \/ f \notin card /\ UNCHANGED dest
    /\ UNCHANGED <<card, mv, todo, at>> /\ MvUnchanged

\* Everything of the entry is copied: it is removed from the card.
MvRemove(t) ==
    /\ Runs(t) /\ at[t] # NoNode /\ left[t] = {}
    /\ card' = card \ Under[at[t]]
    /\ at' = [at EXCEPT ![t] = NoNode]
    /\ UNCHANGED <<dest, mv, todo, left>> /\ MvUnchanged

\* mv stops in the middle of an entry: a copy may be torn, or, if all were made, some of the
\* entry removed.
Stopped(t) ==
    /\ at' = [at EXCEPT ![t] = NoNode]
    /\ left' = [left EXCEPT ![t] = {}]
    /\ \/ UNCHANGED <<card, dest>>
       \/ /\ at[t] # NoNode /\ left[t] = {}
          /\ \E gone \in SUBSET Under[at[t]] : card' = card \ gone
          /\ UNCHANGED dest
       \/ /\ \E f \in left[t] \cap card :
                dest' = [dest EXCEPT ![CardOf[t]] = @ \cup {Copy(t, f, FALSE)}]
          /\ UNCHANGED card

\* A file cannot be read, written or removed: mv gives the entry up, perhaps after it copied
\* the other files, and goes on with the next.
MvGiveUp(t) ==
    /\ Runs(t) /\ at[t] # NoNode
    /\ mv' = [mv EXCEPT ![t] = "failing"]
    /\ Stopped(t)
    /\ UNCHANGED todo /\ MvUnchanged

MvEnds(t) ==
    /\ Runs(t) /\ at[t] = NoNode /\ todo[t] = {}
    /\ mv' = [mv EXCEPT ![t] = IF @ = "running" THEN "ok" ELSE "failed"]
    /\ UNCHANGED <<card, dest, todo, at, left>> /\ MvUnchanged

\* mv cannot be run, or is killed.
MvDies(t) ==
    /\ Runs(t)
    /\ mv' = [mv EXCEPT ![t] = "failed"]
    /\ todo' = [todo EXCEPT ![t] = {}]
    /\ Stopped(t)
    /\ MvUnchanged

-----------------------------------------------------------------------------
(* The program stops, and starts again; an mv it started may live on *)

Crash ==
    /\ Up /\ crashes < MaxCrashes
    /\ prog' = "down" /\ crashes' = crashes + 1
    /\ mem' = <<>>
    /\ mount' = "done" /\ overrides' = {}
    /\ pc' = [t \in Transfers |-> IF pc[t] = "unborn" THEN "unborn" ELSE "ended"]
    /\ UNCHANGED <<plugged, offers, card, dest, disk, planning, outcome, moving>>

\* The next start shows the transfers of the log, and refuses it if one recorded as
\* succeeded has a last sample that is not the total.
AddsUp(record) ==
    record.outcome = "succeeded" /\ record.last # NoSample => record.last = record.total

Restart ==
    /\ prog = "down"
    /\ IF \A i \in DOMAIN disk : AddsUp(disk[i])
       THEN prog' = "up" /\ mem' = disk /\ mount' = "loading"
       ELSE prog' = "refused" /\ UNCHANGED <<mem, mount>>
    /\ UNCHANGED <<crashes, plugged, card, dest, disk, overrides, offers, pc, planning, outcome,
                   moving>>

-----------------------------------------------------------------------------
MountStep ==
    \/ LoadConfig \/ DismissConfigError \/ Replug
    \/ \E t \in Transfers : \E o \in overrides : SpawnTransfer(t, o)

UserStep(t) ==
    \/ Approve(t) \/ Deny(t) \/ CancelEmpty(t) \/ ProceedEmpty(t)
    \/ DismissError(t) \/ DismissLogError(t)

ThreadStep(t) ==
    \/ Unfit(t) \/ PlanMove(t) \/ Record(t) \/ TakeResult(t) \/ Finalize(t)

MvStep(t) ==
    \/ \E e \in Nodes : MvEntry(t, e)
    \/ \E f \in Files : MvCopy(t, f)
    \/ MvRemove(t) \/ MvGiveUp(t) \/ MvEnds(t) \/ MvDies(t)

Next ==
    \/ MountStep \/ Crash \/ Restart
    \/ \E t \in Transfers : UserStep(t) \/ ThreadStep(t) \/ MvStep(t)

Spec == Init /\ [][Next]_vars

\* The threads are scheduled whenever they can run, which one that waits for the log cannot,
\* and mv comes to an end; nothing is assumed of the user.
FairSpec == Spec /\ \A t \in Transfers : WF_vars(ThreadStep(t)) /\ WF_vars(MvStep(t))

-----------------------------------------------------------------------------
(* Properties *)

\* Every variable has its type.
TypeOK ==
    /\ prog \in {"up", "down", "refused"} /\ crashes \in Nat
    /\ plugged \in Cards /\ card \subseteq Nodes
    /\ dest \in [CardDirs -> SUBSET Copies]
    /\ mem \in Seq(Records) /\ disk \in Seq(Records)
    /\ mount \in {"loading", "reporting", "spawning", "done"}
    /\ overrides \subseteq Nodes \cup {WholeCard} /\ offers \subseteq Transfers
    /\ pc \in [Transfers -> Steps]
    /\ detected \in [Transfers -> Nodes] /\ input \in [Transfers -> Nodes]
    /\ plan \in [Transfers -> SUBSET Nodes] /\ total \in [Transfers -> Nat]
    /\ outcome \in [Transfers -> {"none", "succeeded", "failed"}]
    /\ mv \in [Transfers -> {"none", "running", "failing", "ok", "failed"}]
    /\ todo \in [Transfers -> SUBSET Nodes] /\ left \in [Transfers -> SUBSET Files]
    /\ at \in [Transfers -> Nodes \cup {NoNode}]

\* The card directories in a list of records, and those the log's file knows of.
DirsOf(records) == {records[i].dir : i \in DOMAIN records}
Recorded == DirsOf(disk)

SavedIn(d, f) == \E c \in dest[d] : c.file = f /\ c.whole
Saved(f) == \E d \in Recorded : SavedIn(d, f)

\* What was once on the card is on it still, or whole in a card directory that the file of
\* the log has a record of: whatever step fails, the program or mv is killed, or another
\* transfer moves overlapping directories of the same card.
NothingIsLost ==
    \A f \in (Files \cap plugged.nodes) \ {ConfigFile} : f \in card \/ Saved(f)

\* A transfer the log's file calls succeeded (which the next start shows as such) has left
\* nothing of what it planned to move on the card.
SucceededTransfersAreComplete ==
    \A i \in DOMAIN disk : disk[i].outcome = "succeeded" =>
        \A e \in plan[disk[i].owner] : Under[e] \cap card = {}

\* The configuration file is only moved by a transfer whose input path is that very file:
\* the next start, or plugging the card in again, finds it where it was.
ConfigStaysOnCard ==
    \/ plugged.config.state = "absent" \/ ConfigFile \in card
    \/ \E t \in Transfers : input[t] = ConfigFile

\* Since the configuration was read a transfer was offered, or will be, that takes something
\* of a node. Transfers of an earlier plug do not count.
Offered(n) ==
    LET takes == Under[n] \cup {Root, WholeCard} IN
    \/ overrides \cap takes # {}
    \/ \E t \in offers : detected[t] \in takes

\* Every top-level directory the card still has is ignored by its configuration, or offered.
DirectoriesOffered ==
    plugged.config.state = "read" /\ ~plugged.config.lax =>
        \A n \in (Children[Root] \cap card) \ (Files \cup plugged.config.ignored) : Offered(n)

\* per_device_config.rs: unless the configuration says so, every top-level directory still on
\* the card is ignored, or the transfers of this plug, those still to be offered included, take
\* something of it. A card plugged in again is judged anew.
EveryDirectoryIsOffered == mount \in {"spawning", "done"} /\ Up => DirectoriesOffered

\* An approved transfer gets to an end, or to a dialog of its own, unless the user leaves the
\* dialog of another one up that keeps the log locked.
TransfersEnd ==
    \A t \in Transfers : [](pc[t] = "approved" =>
        <>(pc[t] \in {"warned", "reporting", "logerror", "ended"} \/ []~LogFree))

\* Every transfer has a card directory of its own, which is what CardIds!NumberedCardsAreExclusive
\* says of numbered cards.
DirsAreExclusive == \A t, u \in Transfers : CardOf[t] = CardOf[u] => t = u

\* The parts of the inductive invariant. A plan is made once, after the approval, of a
\* directory's contents or a file; no part of it holds the configuration file unless that
\* file itself was picked.
PlanInv ==
    \A t \in Transfers :
        /\ \E n \in Nodes : plan[t] \subseteq Children[n] \/ plan[t] = {n}
        /\ plan[t] # {} => pc[t] \notin {"unborn", "asking", "approved"}
        /\ \A e \in plan[t] : ConfigFile \in Under[e] => input[t] = ConfigFile

\* mv has files left to copy only of an entry it is at.
LeftInv == \A t \in Transfers : at[t] = NoNode => left[t] = {}

\* mv is started after the record was made, and goes through the plan; it is at one entry.
ArgumentsInv ==
    \A t \in Transfers :
        /\ pc[t] \in {"unborn", "asking", "approved", "warned", "recording"} => mv[t] = "none"
        /\ mv[t] = "none" => todo[t] = {} /\ at[t] = NoNode
        /\ todo[t] \subseteq plan[t]
        /\ at[t] # NoNode => at[t] \in plan[t] \ todo[t]

\* The configuration file is gone only if that very file was planned.
ConfigInv ==
    \/ plugged.config.state = "absent" \/ ConfigFile \in card
    \/ \E t \in Transfers : input[t] = ConfigFile /\ plan[t] # {}

\* While the program is up, memory has every directory the file has, and a transfer that
\* runs mv has its own in the file.
RecordedInv ==
    /\ prog = "up" => Recorded \subseteq DirsOf(mem)
    /\ \A t \in Transfers : mv[t] # "none" => CardOf[t] \in Recorded

\* A card directory has copies of entries mv has come to, and of the one it is at every file
\* is still to be copied, or was.
CopiesInv ==
    \A t \in Transfers :
        /\ mv[t] = "none" => dest[CardOf[t]] = {}
        /\ \A c \in dest[CardOf[t]] : c.entry \in plan[t] \ todo[t]
        /\ at[t] # NoNode => \A f \in Files \cap card :
              f \in Under[at[t]] => f \in left[t] \/ SavedIn(CardOf[t], f)

\* Without an error every entry mv is done with is gone from the card, and only then is the
\* outcome a success.
CompleteInv ==
    \A t \in Transfers :
        /\ mv[t] \in {"running", "ok"} =>
              \A e \in plan[t] : e \in todo[t] \/ e = at[t] \/ Under[e] \cap card = {}
        /\ mv[t] = "ok" => todo[t] = {} /\ at[t] = NoNode
        /\ outcome[t] = "succeeded" => mv[t] = "ok" /\ pc[t] \in {"finalizing", "ended"}

\* A record is of its owner's directory, and says succeeded only of one that has.
Owned(records, results) ==
    \A i \in DOMAIN records :
        /\ records[i].dir = CardOf[records[i].owner]
        /\ records[i].outcome = "succeeded" => results[records[i].owner] = "succeeded"

OwnersInv == Owned(mem, outcome) /\ Owned(disk, outcome)

\* What is to be offered is settled once the configuration is read, before its error is shown.
OfferedInv == mount # "loading" /\ Up => DirectoriesOffered

MovesInv ==
    /\ PlanInv /\ LeftInv /\ ArgumentsInv /\ ConfigInv
    /\ RecordedInv /\ CopiesInv /\ CompleteInv /\ OwnersInv

\* transfer_logic.rs:1255: "both the size measurement written to the backup log and the
\* actual move work from exactly the same paths". The next start relies on it.
SucceededTransfersAddUp == \A i \in DOMAIN disk : AddsUp(disk[i])
=============================================================================
