------------------------------ MODULE BackupLog ------------------------------
(***************************************************************************)
(* The backup log on disk (backup_log.rs): one file per entry, entries     *)
(* linked by previous_uuidv7 and next_uuidv7, every mutation written to a  *)
(* .json.tmp file that is then renamed, load_backup_log at the start of    *)
(* the program (main.rs), and what a failed step or a crash leaves behind. *)
(*                                                                         *)
(* An entry id is a uuid: its order in the directory listing is that of    *)
(* the clock that made it, which may have been set back in between.        *)
(***************************************************************************)
EXTENDS Integers

CONSTANTS
    MaxId,      \* entry ids are 1..MaxId, in the order of their file names
    Transfers,  \* card paths of the transfers recorded
    NoFile,     \* the file does not exist
    Torn        \* the file was not written to its end

NoId == 0
Ids  == 1..MaxId

ASSUME MaxIdAssumption == MaxId \in Nat

\* previous_uuidv7 and current_uuidv7 never change once an entry exists.
Entries == [id : Ids, prev : Ids \cup {NoId}, next : Ids \cup {NoId},
            complete : BOOLEAN, transfers : SUBSET Transfers]

ASSUME FilesAssumption == NoFile # Torn /\ {NoFile, Torn} \cap Entries = {}

VARIABLES
    files,    \* the <id>.json files
    temps,    \* the <id>.json.tmp files
    prog,     \* whether the program runs, or is refused by what it reads
    mem,      \* BackupLogManager.entry, or NoFile
    job,      \* the entry being flushed, or NoFile
    purpose,  \* what for: "link" and "new" of create_new, or a mutation
    written,  \* the .tmp file of the flush is complete
    fresh,    \* the id create_new made
    acked     \* transfers in the entry when an add_transfer returned Ok

disk == <<files, temps>>
vars == <<files, temps, prog, mem, job, purpose, written, fresh, acked>>

-----------------------------------------------------------------------------
(* load_backup_log *)

\* The directory listing has <id>.json before <id>.json.tmp, and both before a later id's.
Listed == {i \in Ids : files[i] # NoFile \/ temps[i] # NoFile}

Newest == CHOOSE i \in Listed : \A j \in Listed : j <= i

LastListed == IF temps[Newest] # NoFile THEN temps[Newest] ELSE files[Newest]

Readable(e) == e \notin {NoFile, Torn}

\* From there the next_uuidv7 links are followed, through .json files only ...
Reached(start) ==
    {i \in Ids : \A seen \in SUBSET Ids :
        /\ start.next \in seen
        /\ \A j \in seen : Readable(files[j]) => files[j].next \in seen \cup {NoId}
        => i \in seen}

Ends(start) == {i \in Reached(start) : ~Readable(files[i]) \/ files[i].next = NoId}

\* ... to the entry without a link, or to a file that cannot be read.
Follow(start) ==
    IF ~Readable(start) \/ start.next = NoId THEN start
    ELSE IF Ends(start) = {} THEN NoFile
    ELSE files[CHOOSE i \in Ends(start) : TRUE]

\* Mutant: the last file name is taken for the newest entry.
LoadedUnfollowed == LastListed

\* The entry the program goes on with; not Readable if the load is refused.
Loaded == Follow(LastListed)

NewEntry(i, prev) ==
    [id |-> i, prev |-> prev, next |-> NoId, complete |-> FALSE, transfers |-> {}]

-----------------------------------------------------------------------------
Init ==
    /\ files = [i \in Ids |-> NoFile] /\ temps = [i \in Ids |-> NoFile]
    /\ prog = "off"
    /\ mem = NoFile /\ job = NoFile
    /\ purpose = "none" /\ written = FALSE /\ fresh = NoId
    /\ acked = {}

\* A flush (or set_next_uuidv7_on_entry) begins.
Begin(entry, why) == job' = entry /\ purpose' = why /\ written' = FALSE

Finished == job' = NoFile /\ purpose' = "none" /\ written' = FALSE

Unused(i) == i \notin Listed /\ \A j \in Ids : files[j] # NoFile => files[j].next # i

-----------------------------------------------------------------------------
(* Starting the program *)

StartRefused ==
    /\ prog = "off" /\ Listed # {} /\ ~Readable(Loaded)
    /\ prog' = "refused"
    /\ UNCHANGED <<disk, mem, job, purpose, written, fresh, acked>>

\* UseExistingEntry, from_existing: nothing is written.
StartExisting ==
    /\ prog = "off" /\ Listed # {} /\ Readable(Loaded) /\ ~Loaded.complete
    /\ prog' = "up" /\ mem' = Loaded
    /\ UNCHANGED <<disk, job, purpose, written, fresh, acked>>

\* CreateNewEntry in an empty directory ...
StartFirst ==
    /\ prog = "off" /\ Listed = {}
    /\ prog' = "creating"
    /\ \E i \in Ids : /\ fresh' = i
                      /\ Begin(NewEntry(i, NoId), "new")
    /\ UNCHANGED <<disk, mem, acked>>

\* ... and after a complete entry, which is read again and linked to the new one first (if it
\* has no .json file of its own that fails, and the program ends as it began).
StartNext ==
    /\ prog = "off" /\ Listed # {} /\ Readable(Loaded) /\ Loaded.complete
    /\ Readable(files[Loaded.id])
    /\ prog' = "creating"
    /\ \E i \in Ids : /\ Unused(i)
                      /\ fresh' = i
                      /\ Begin([files[Loaded.id] EXCEPT !.next = i], "link")
    /\ UNCHANGED <<disk, mem, acked>>

-----------------------------------------------------------------------------
(* Mutations, under the manager's mutex *)

\* Each transfer is recorded once: a bound.
AddTransfer(x) ==
    /\ prog = "up" /\ job = NoFile /\ x \notin mem.transfers \cup acked
    /\ mem' = [mem EXCEPT !.transfers = @ \cup {x}]
    /\ Begin(mem', "add")
    /\ UNCHANGED <<disk, prog, fresh, acked>>

CompleteBackup ==
    /\ prog = "up" /\ job = NoFile
    /\ mem' = [mem EXCEPT !.complete = TRUE]
    /\ Begin(mem', "complete")
    /\ UNCHANGED <<disk, prog, fresh, acked>>

MarkBackupIncomplete ==
    /\ prog = "up" /\ job = NoFile /\ mem.complete
    /\ mem' = [mem EXCEPT !.complete = FALSE]
    /\ Begin(mem', "incomplete")
    /\ UNCHANGED <<disk, prog, fresh, acked>>

\* finalize_transfer and update_transfer_samples change fields of a recorded transfer.
AmendTransfer ==
    /\ prog = "up" /\ job = NoFile
    /\ Begin(mem, "amend")
    /\ UNCHANGED <<disk, prog, mem, fresh, acked>>

-----------------------------------------------------------------------------
(* The steps of a flush *)

\* std::fs::write and chown of the .tmp file.
WriteTemp ==
    /\ job # NoFile /\ ~written
    /\ temps' = [temps EXCEPT ![job.id] = job]
    /\ written' = TRUE
    /\ UNCHANGED <<files, prog, mem, job, purpose, fresh, acked>>

\* Mutant: the link replaces the previous entry by what load_backup_log knows of it.
RenameForgetful ==
    /\ job # NoFile /\ written
    /\ files' = [files EXCEPT ![job.id] =
                    IF purpose = "link" THEN [job EXCEPT !.transfers = {}] ELSE job]
    /\ temps' = [temps EXCEPT ![job.id] = NoFile]
    /\ acked' = IF purpose = "add" THEN acked \cup mem.transfers ELSE acked
    /\ IF purpose = "link"
       THEN Begin(NewEntry(fresh, job.id), "new") /\ UNCHANGED <<prog, mem, fresh>>
       ELSE /\ Finished /\ prog' = "up" /\ fresh' = NoId
            /\ mem' = IF purpose = "new" THEN job ELSE mem

\* Mutant: the new entry does not name the one it follows.
RenameUnlinked ==
    /\ job # NoFile /\ written
    /\ files' = [files EXCEPT ![job.id] = job]
    /\ temps' = [temps EXCEPT ![job.id] = NoFile]
    /\ acked' = IF purpose = "add" THEN acked \cup mem.transfers ELSE acked
    /\ IF purpose = "link"
       THEN Begin(NewEntry(fresh, NoId), "new") /\ UNCHANGED <<prog, mem, fresh>>
       ELSE /\ Finished /\ prog' = "up" /\ fresh' = NoId
            /\ mem' = IF purpose = "new" THEN job ELSE mem

\* Mutant: the id of the new entry is lost on the way.
RenameIdLost ==
    /\ job # NoFile /\ written
    /\ files' = [files EXCEPT ![job.id] = job]
    /\ temps' = [temps EXCEPT ![job.id] = NoFile]
    /\ acked' = IF purpose = "add" THEN acked \cup mem.transfers ELSE acked
    /\ IF purpose = "link"
       THEN Begin(NewEntry(NoId, job.id), "new") /\ UNCHANGED <<prog, mem, fresh>>
       ELSE /\ Finished /\ prog' = "up" /\ fresh' = NoId
            /\ mem' = IF purpose = "new" THEN job ELSE mem

\* The rename, after which the mutation returns Ok or create_new goes on.
Rename ==
    /\ job # NoFile /\ written
    /\ files' = [files EXCEPT ![job.id] = job]
    /\ temps' = [temps EXCEPT ![job.id] = NoFile]
    /\ acked' = IF purpose = "add" THEN acked \cup mem.transfers ELSE acked
    /\ IF purpose = "link"
       THEN Begin(NewEntry(fresh, job.id), "new") /\ UNCHANGED <<prog, mem, fresh>>
       ELSE /\ Finished /\ prog' = "up" /\ fresh' = NoId
            /\ mem' = IF purpose = "new" THEN job ELSE mem

\* What a flush cut short leaves of its .tmp file.
Leftover ==
    IF job = NoFile \/ written THEN UNCHANGED temps
    ELSE \/ UNCHANGED temps
         \/ \E left \in {Torn, job} : temps' = [temps EXCEPT ![job.id] = left]

\* Mutant: an add_transfer returns Ok although its flush failed.
FlushFailsSilently ==
    /\ job # NoFile
    /\ Leftover /\ Finished
    /\ prog' = IF purpose \in {"link", "new"} THEN "off" ELSE prog
    /\ fresh' = NoId
    /\ acked' = IF purpose = "add" THEN acked \cup mem.transfers ELSE acked
    /\ UNCHANGED <<files, mem>>

\* The write, the chown or the rename fails: a mutation returns Err and keeps its change in
\* memory; create_new ends the program.
FlushFails ==
    /\ job # NoFile
    /\ Leftover /\ Finished
    /\ prog' = IF purpose \in {"link", "new"} THEN "off" ELSE prog
    /\ fresh' = NoId
    /\ UNCHANGED <<files, mem, acked>>

\* The program ends between two steps: it quits or is killed. A flush is not synced, and what a
\* loss of power makes of it is left out.
Stop ==
    /\ prog \in {"creating", "up"}
    /\ Leftover /\ Finished
    /\ prog' = "off" /\ mem' = NoFile /\ fresh' = NoId
    /\ UNCHANGED <<files, acked>>

\* A human deletes the .tmp files and the links to files that were never written.
SortOutByHand ==
    /\ prog = "refused"
    /\ prog' = "off"
    /\ temps' = [i \in Ids |-> NoFile]
    /\ files' = [i \in Ids |->
            IF files[i] # NoFile /\ files[i].next # NoId /\ files[files[i].next] = NoFile
            THEN [files[i] EXCEPT !.next = NoId] ELSE files[i]]
    /\ UNCHANGED <<mem, job, purpose, written, fresh, acked>>

-----------------------------------------------------------------------------
Next ==
    \/ StartRefused \/ StartExisting \/ StartFirst \/ StartNext
    \/ \E x \in Transfers : AddTransfer(x)
    \/ CompleteBackup \/ MarkBackupIncomplete \/ AmendTransfer
    \/ WriteTemp \/ Rename \/ FlushFails \/ Stop
    \/ SortOutByHand

Spec == Init /\ [][Next]_vars

-----------------------------------------------------------------------------
(* Properties *)

\* Every variable has its type.
TypeOK ==
    /\ files \in [Ids -> Entries \cup {NoFile}]
    /\ temps \in [Ids -> Entries \cup {NoFile, Torn}]
    /\ prog \in {"off", "refused", "creating", "up"}
    /\ mem \in Entries \cup {NoFile}
    /\ job \in Entries \cup {NoFile}
    /\ purpose \in {"none", "link", "new", "add", "complete", "incomplete", "amend"}
    /\ written \in BOOLEAN
    /\ fresh \in Ids \cup {NoId}
    /\ acked \subseteq Transfers

OnDisk(i) == files[i] # NoFile

\* backup_log.rs:215: a transfer record whose flush returned Ok stays in the log, whatever
\* fails, crashes, is linked or is read back from a leftover afterwards.
AckedTransfersStay ==
    \A x \in acked : \E i \in Ids : OnDisk(i) /\ x \in files[i].transfers

\* backup_log.rs:175-177: links agree in both directions, so the entries on disk form one
\* chain whose only open end is the newest entry.
EntriesFormOneChain ==
    /\ \A i \in Ids : OnDisk(i) /\ files[i].prev # NoId
            => OnDisk(files[i].prev) /\ files[files[i].prev].next = i
    /\ \A i, j \in Ids : OnDisk(i) /\ OnDisk(j) /\ i # j
            => /\ files[i].prev # files[j].prev
               /\ files[i].next # NoId => files[i].next # files[j].next

NoTemps    == \A i \in Ids : temps[i] = NoFile
NoDangling == \A i \in Ids : OnDisk(i) /\ files[i].next # NoId => OnDisk(files[i].next)

\* load_backup_log finds the open end of the chain even when the clock was set back between
\* two entries, provided nothing was cut short.
CleanLoadFindsTheOpenEnd ==
    prog = "off" /\ NoTemps /\ NoDangling /\ Listed # {}
        => /\ Readable(Loaded) /\ Loaded.next = NoId
           /\ \A i \in Ids : OnDisk(i) /\ i # Loaded.id => files[i].next # NoId

\* An entry without a successor, or with the name of one that was never written.
Open(i) == OnDisk(i) /\ (files[i].next = NoId \/ ~OnDisk(files[i].next))

OpenEnd == IF \E i \in Ids : Open(i) THEN CHOOSE i \in Ids : Open(i) ELSE NoId

Recorded ==
    [i \in {j \in Ids : OnDisk(j)} |->
        [before |-> files[i].prev, transfers |-> files[i].transfers]]

Ledger == INSTANCE AppendOnlyLog WITH recorded <- Recorded, last <- OpenEnd

\* However flushes fail and the program ends, what is on the disk is a log that is only
\* appended to: a succeeded entry is never written again, except for its link, no step takes
\* a transfer away, and an entry appears only behind the one that was last.
ImplementsLog == Ledger!Spec

\* backup_log.rs:167: "All mutations flush the full entry atomically": a mutation that was
\* cut short or failed before its rename has no influence on the next start.
FlushesAreAtomic ==
    prog = "off" /\ (\E i \in Ids : OnDisk(i)) /\ NoDangling
        => /\ Readable(Loaded)
           /\ Loaded = files[Loaded.id]

\* backup_log.rs:288-289: "A new entry is started on the next program run once an entry is
\* marked complete": if the newest entry on disk is complete, the start is not refused.
CompleteEntriesAreSucceeded ==
    /\ prog = "off" /\ NoTemps /\ Listed # {}
    /\ \A i \in Ids : OnDisk(i) => files[i].complete
    => Readable(Loaded)

-----------------------------------------------------------------------------
(* What the proofs of these properties rest on *)

\* An entry may take the place of its file: it has the transfers and links of that file, and
\* a file of its own is either the first or linked to by the entry before it.
Fits(e) ==
    /\ OnDisk(e.id) => /\ files[e.id].transfers \subseteq e.transfers
                       /\ files[e.id].prev = e.prev
                       /\ e.next = NoId => files[e.id].next = NoId
    /\ ~OnDisk(e.id) =>
          /\ e.next = NoId
          /\ IF e.prev = NoId THEN Listed \subseteq {e.id}
             ELSE OnDisk(e.prev) /\ files[e.prev].next = e.id

FilesInv ==
    \A i \in Ids :
        /\ OnDisk(i) => files[i].id = i
        /\ Readable(temps[i]) => temps[i].id = i /\ Fits(temps[i])

\* A flush is of the entry in memory, or one of the two of create_new.
JobInv ==
    /\ prog = "up" => mem # NoFile /\ mem.next = NoId /\ Fits(mem)
    /\ (job = NoFile) <=> (purpose = "none")
    /\ (purpose \in {"link", "new"}) <=> (prog = "creating")
    /\ purpose \notin {"none", "link", "new"} => prog = "up" /\ job = mem
    /\ purpose = "link" =>
          /\ OnDisk(job.id) /\ files[job.id].next = NoId
          /\ fresh \in Ids /\ Unused(fresh)
          /\ job.prev = files[job.id].prev /\ job.next = fresh
          /\ job.transfers = files[job.id].transfers
    /\ purpose = "new" => ~OnDisk(job.id) /\ job.next = NoId /\ Fits(job)
    /\ written => job # NoFile /\ temps[job.id] = job

\* There is one first entry and one open end, and links go from older to newer entries.
Linked(i, j) == OnDisk(i) /\ files[i].next = j /\ j # NoId /\ OnDisk(j)

ChainInv ==
    /\ EntriesFormOneChain
    /\ \A i, j \in Ids : Open(i) /\ Open(j) => i = j
    /\ \E age \in [Ids -> Nat] : \A i, j \in Ids : Linked(i, j) => age[i] < age[j]

IInv == TypeOK /\ FilesInv /\ JobInv /\ ChainInv /\ AckedTransfersStay
=============================================================================
