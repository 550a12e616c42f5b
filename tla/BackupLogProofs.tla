---------------------------- MODULE BackupLogProofs ----------------------------
(***************************************************************************)
(* Theorems about BackupLog: types, that recorded transfers stay, that the *)
(* entries form one chain, and that a clean load finds its open end.       *)
(***************************************************************************)
EXTENDS BackupLog, FiniteSetTheorems, WellFoundedInduction, TLAPS

-----------------------------------------------------------------------------
(* Ids and entries *)

LEMMA IdsAreNaturals == Ids \subseteq Nat /\ NoId \notin Ids /\ NoId = 0
BY MaxIdAssumption DEF Ids, NoId, MaxIdAssumption

LEMMA EntriesAreReadable ==
    /\ NoFile \notin Entries /\ Torn \notin Entries /\ NoFile # Torn
    /\ \A e \in Entries : Readable(e)
BY FilesAssumption DEF Readable, FilesAssumption

\* Among some ids one is the greatest, by any measure.
LEMMA GreatestExists ==
    ASSUME NEW S \in SUBSET Ids, S # {}, NEW age \in [Ids -> Nat]
    PROVE  \E x \in S : \A y \in S : age[y] <= age[x]
<1> DEFINE above(i) == {j \in Ids : age[j] >= age[i]}
           sets == {above(i) : i \in S}
           wf == StrictSubsetOrdering(Ids)
<1>1. IsFiniteSet(Ids)
    <2>1. MaxId \in Nat
        BY MaxIdAssumption DEF MaxIdAssumption
    <2> QED  BY <2>1, FS_Interval DEF Ids
<1>2. FiniteSubsetsOf(Ids) = SUBSET Ids
    BY <1>1, FS_FiniteSubsetsOfFinite
<1>3. IsWellFoundedOn(wf, SUBSET Ids)
    BY <1>2, FS_StrictSubsetOrderingWellFounded
<1>4. sets \subseteq SUBSET Ids /\ sets # {}
    OBVIOUS
<1>5. PICK m \in sets : \A u \in sets : <<u, m>> \notin wf
    <2> HIDE DEF sets, wf
    <2> QED  BY <1>3, <1>4, WFMin, Zenon
<1>6. PICK x \in S : m = above(x)
    BY Zenon
<1>7. ASSUME NEW y \in S, ~(age[y] <= age[x])
      PROVE  FALSE
    <2>1. age[x] \in Nat /\ age[y] \in Nat /\ age[x] < age[y] /\ x \in Ids
        BY <1>7
    <2>2. above(y) \subseteq above(x)
        BY <2>1
    <2>3. x \in above(x) /\ x \notin above(y)
        BY <2>1
    <2>4. above(y) \in sets /\ above(y) \in SUBSET Ids /\ above(x) \in SUBSET Ids
        <3>1. above(y) \in sets
            BY Zenon
        <3> QED  BY <3>1
    <2>5. <<above(y), above(x)>> \in wf
        BY <2>2, <2>3, <2>4 DEF StrictSubsetOrdering
    <2> QED  BY <1>5, <1>6, <2>4, <2>5
<1> QED  BY <1>7

LEMMA NewestIsListed ==
    ASSUME Listed # {}
    PROVE  Newest \in Listed /\ Newest \in Ids
<1>1. Listed \subseteq Ids
    BY DEF Listed
<1> DEFINE self == [i \in Ids |-> i]
<1>2. self \in [Ids -> Nat]
    BY IdsAreNaturals
<1>3. PICK n \in Listed : \A y \in Listed : self[y] <= self[n]
    <2> HIDE DEF self
    <2> QED  BY <1>1, <1>2, GreatestExists
<1>4. \E x \in Listed : \A y \in Listed : y <= x
    BY <1>1, <1>3
<1> QED  BY <1>1, <1>4 DEF Newest

\* What is read is an entry without a successor, and came from a file or a temporary one.
LEMMA LoadedFrom ==
    ASSUME TypeOK, FilesInv, Listed # {}, Readable(Loaded)
    PROVE  /\ Loaded \in Entries /\ Loaded.next = NoId
           /\ \E i \in Ids : Loaded \in {files[i], temps[i]} /\ Loaded.id = i
<1>1. Newest \in Ids /\ LastListed \in {files[Newest], temps[Newest]}
    BY NewestIsListed DEF LastListed
<1>2. LastListed \in Entries \cup {NoFile, Torn}
    BY <1>1 DEF TypeOK
<1>3. CASE Loaded = LastListed /\ LastListed.next = NoId
    BY <1>1, <1>2, <1>3 DEF FilesInv, Readable, OnDisk
<1>4. CASE ~(Loaded = LastListed /\ LastListed.next = NoId)
    <2>1. Readable(LastListed) /\ LastListed.next # NoId /\ Ends(LastListed) # {}
        BY <1>4 DEF Loaded, Follow, Readable
    <2>2. PICK i \in Ends(LastListed) : Loaded = files[i]
        BY <2>1 DEF Loaded, Follow
    <2>3. i \in Ids /\ Readable(files[i]) /\ files[i].next = NoId
        BY <2>2 DEF Ends, Reached
    <2> QED  BY <2>2, <2>3 DEF FilesInv, Readable, OnDisk, TypeOK
<1> QED  BY <1>3, <1>4

LEMMA LoadedFits ==
    ASSUME TypeOK, FilesInv, Listed # {}, Readable(Loaded)
    PROVE  Fits(Loaded)
<1>1. PICK i \in Ids : Loaded \in {files[i], temps[i]} /\ Loaded.id = i
    BY LoadedFrom
<1>2. CASE Loaded = temps[i]
    BY <1>2 DEF FilesInv
<1>3. CASE Loaded = files[i]
    BY <1>1, <1>3 DEF Fits, OnDisk, Readable
<1> QED  BY <1>1, <1>2, <1>3

\* An entry with another link, more transfers or the other flag is an entry with the same id.
LEMMA EntryChanges ==
    ASSUME NEW e \in Entries
    PROVE  /\ \A i \in Ids \cup {NoId} : LET f == [e EXCEPT !.next = i] IN
                 /\ f \in Entries /\ f.id = e.id /\ f.prev = e.prev /\ f.next = i
                 /\ f.transfers = e.transfers
           /\ \A x \in Transfers : LET f == [e EXCEPT !.transfers = @ \cup {x}] IN
                 /\ f \in Entries /\ f.id = e.id /\ f.prev = e.prev /\ f.next = e.next
                 /\ f.transfers = e.transfers \cup {x}
           /\ \A b \in BOOLEAN : LET f == [e EXCEPT !.complete = b] IN
                 /\ f \in Entries /\ f.id = e.id /\ f.prev = e.prev /\ f.next = e.next
                 /\ f.transfers = e.transfers
BY DEF Entries

LEMMA NewEntryIsEntry ==
    ASSUME NEW i \in Ids, NEW p \in Ids \cup {NoId}
    PROVE  /\ NewEntry(i, p) \in Entries /\ NewEntry(i, p).id = i /\ NewEntry(i, p).prev = p
           /\ NewEntry(i, p).next = NoId /\ NewEntry(i, p).transfers = {}
BY DEF NewEntry, Entries

LEMMA EntryFields ==
    ASSUME NEW e \in Entries
    PROVE  /\ e.id \in Ids /\ e.prev \in Ids \cup {NoId} /\ e.next \in Ids \cup {NoId}
           /\ e.complete \in BOOLEAN /\ e.transfers \subseteq Transfers
BY DEF Entries

-----------------------------------------------------------------------------
(* Types *)

LEMMA LeftoverType ==
    ASSUME TypeOK, Leftover
    PROVE  temps' \in [Ids -> Entries \cup {NoFile, Torn}]
BY DEF TypeOK, Leftover

LEMMA TypeKept ==
    ASSUME TypeOK, FilesInv, JobInv, [Next]_vars
    PROVE  TypeOK'
<1>1. CASE StartRefused
    BY <1>1 DEF StartRefused, TypeOK, disk
<1>2. CASE StartExisting
    BY <1>2, LoadedFrom DEF StartExisting, TypeOK, disk
<1>3. CASE StartFirst
    <2>1. PICK i \in Ids : fresh' = i /\ Begin(NewEntry(i, NoId), "new")
        BY <1>3 DEF StartFirst
    <2> QED  BY <1>3, <2>1, NewEntryIsEntry DEF StartFirst, Begin, TypeOK, disk
<1>4. CASE StartNext
    <2>1. files[Loaded.id] \in Entries
        BY <1>4, LoadedFrom DEF StartNext, Readable, TypeOK
    <2>2. PICK i \in Ids : fresh' = i /\ Begin([files[Loaded.id] EXCEPT !.next = i], "link")
        BY <1>4 DEF StartNext
    <2>3. [files[Loaded.id] EXCEPT !.next = i] \in Entries
        BY <2>1, EntryChanges
    <2> QED  BY <1>4, <2>2, <2>3 DEF StartNext, Begin, TypeOK, disk
<1>5. ASSUME NEW x \in Transfers, AddTransfer(x)
      PROVE  TypeOK'
    <2>1. mem' \in Entries
        BY <1>5, EntryChanges DEF AddTransfer, JobInv, TypeOK
    <2> QED  BY <1>5, <2>1 DEF AddTransfer, Begin, TypeOK, disk
<1>6. CASE CompleteBackup
    <2>1. mem' \in Entries
        BY <1>6, EntryChanges DEF CompleteBackup, JobInv, TypeOK
    <2> QED  BY <1>6, <2>1 DEF CompleteBackup, Begin, TypeOK, disk
<1>7. CASE MarkBackupIncomplete
    <2>1. mem' \in Entries
        BY <1>7, EntryChanges DEF MarkBackupIncomplete, JobInv, TypeOK
    <2> QED  BY <1>7, <2>1 DEF MarkBackupIncomplete, Begin, TypeOK, disk
<1>8. CASE AmendTransfer
    BY <1>8 DEF AmendTransfer, Begin, JobInv, TypeOK, disk
<1>9. CASE WriteTemp
    BY <1>9 DEF WriteTemp, TypeOK
<1>10. CASE Rename
    <2>1. job \in Entries /\ job.id \in Ids
        BY <1>10, EntryFields DEF Rename, TypeOK
    <2>2. /\ files' \in [Ids -> Entries \cup {NoFile}]
          /\ temps' \in [Ids -> Entries \cup {NoFile, Torn}]
        BY <1>10, <2>1 DEF Rename, TypeOK
    <2>3. acked' \subseteq Transfers
        BY <1>10, EntryFields DEF Rename, TypeOK, JobInv
    <2>4. CASE purpose = "link"
        <3>1. NewEntry(fresh, job.id) \in Entries
            BY <2>1, <2>4, NewEntryIsEntry DEF JobInv
        <3> QED  BY <1>10, <2>2, <2>3, <2>4, <3>1 DEF Rename, Begin, TypeOK
    <2>5. CASE purpose # "link"
        BY <1>10, <2>1, <2>2, <2>3, <2>5 DEF Rename, Finished, TypeOK
    <2> QED  BY <2>4, <2>5
<1>11. CASE FlushFails
    BY <1>11, LeftoverType DEF FlushFails, Finished, TypeOK
<1>12. CASE Stop
    BY <1>12, LeftoverType DEF Stop, Finished, TypeOK
<1>13. CASE SortOutByHand
    <2>1. ASSUME NEW i \in Ids, files[i] # NoFile
          PROVE  [files[i] EXCEPT !.next = NoId] \in Entries
        BY <2>1, EntryChanges DEF TypeOK
    <2>2. files' \in [Ids -> Entries \cup {NoFile}]
        BY <1>13, <2>1 DEF SortOutByHand, TypeOK
    <2> QED  BY <1>13, <2>2 DEF SortOutByHand, TypeOK
<1>14. CASE UNCHANGED vars
    BY <1>14 DEF vars, TypeOK
<1> QED  BY <1>1, <1>2, <1>3, <1>4, <1>5, <1>6, <1>7, <1>8, <1>9, <1>10, <1>11, <1>12, <1>13, <1>14
         DEF Next

-----------------------------------------------------------------------------
(* Files, and the entry that may replace one *)

LEMMA IdleUnlessUp ==
    ASSUME JobInv, prog \in {"off", "refused"}
    PROVE  job = NoFile /\ purpose = "none" /\ ~written
BY DEF JobInv

LEMMA JobFits ==
    ASSUME TypeOK, FilesInv, JobInv, job # NoFile
    PROVE  job \in Entries /\ job.id \in Ids /\ Fits(job)
<1>1. job \in Entries /\ job.id \in Ids
    BY EntryFields DEF TypeOK
<1>2. CASE purpose = "link"
    <2>1. files[job.id] \in Entries /\ fresh # NoId
        BY <1>1, <1>2, IdsAreNaturals DEF JobInv, OnDisk, TypeOK
    <2>2. /\ job.next # NoId /\ job.transfers = files[job.id].transfers
          /\ job.prev = files[job.id].prev /\ OnDisk(job.id)
        BY <1>2, <2>1 DEF JobInv
    <2> QED  BY <1>1, <2>2 DEF Fits
<1>3. CASE purpose = "new"
    BY <1>1, <1>3 DEF JobInv
<1>4. CASE purpose \notin {"link", "new"}
    <2>1. prog = "up" /\ job = mem /\ Fits(mem)
        BY <1>4 DEF JobInv
    <2> QED  BY <1>1, <2>1
<1> QED  BY <1>2, <1>3, <1>4

\* The open end that is being written has no successor yet.
LEMMA JobIsOpenEnd ==
    ASSUME TypeOK, FilesInv, JobInv, job # NoFile, OnDisk(job.id)
    PROVE  files[job.id].next = NoId
BY JobFits DEF JobInv, Fits

LEMMA SameDiskSameFiles ==
    ASSUME FilesInv, UNCHANGED disk
    PROVE  FilesInv' /\ \A e \in Entries : Fits(e) => Fits(e)'
BY DEF FilesInv, Fits, OnDisk, Listed, Readable, disk

LEMMA TempWritten ==
    ASSUME TypeOK, FilesInv, JobInv, job # NoFile, NEW left \in {Torn, job},
           files' = files, temps' = [temps EXCEPT ![job.id] = left]
    PROVE  /\ FilesInv'
           /\ \A e \in Entries : e.id = job.id /\ Fits(e) => Fits(e)'
<1>1. job \in Entries /\ job.id \in Ids /\ Fits(job)
    BY JobFits
<1>2. Listed' \subseteq Listed \cup {job.id}
    BY <1>1 DEF Listed, TypeOK
<1>3. \A i \in Ids : OnDisk(i)' <=> OnDisk(i)
    BY DEF OnDisk
<1>4. ASSUME NEW e \in Entries, e.id = job.id, Fits(e)
      PROVE  Fits(e)'
    BY <1>1, <1>2, <1>4 DEF Fits, OnDisk
<1>5. ASSUME NEW i \in Ids, NEW e \in Entries, e = temps'[i], i # job.id
      PROVE  e.id = i /\ Fits(e)'
    <2>1. e = temps[i]
        BY <1>5 DEF TypeOK
    <2>2. e.id = i /\ Fits(e) /\ i \in Listed
        BY <2>1, EntriesAreReadable DEF FilesInv, Listed
    <2>3. ~OnDisk(i) /\ e.prev = NoId => FALSE
        <3> SUFFICES ASSUME ~OnDisk(i), e.prev = NoId
                     PROVE  FALSE
            OBVIOUS
        <3>1. Listed \subseteq {i}
            BY <2>2 DEF Fits
        <3>2. ~OnDisk(job.id) /\ job.prev # NoId
            BY <1>1, <1>5, <2>2, <3>1 DEF Fits, OnDisk, Listed
        <3>3. OnDisk(job.prev) /\ job.prev \in Ids
            BY <1>1, <3>2, EntryFields DEF Fits
        <3>4. job.prev \in Listed
            BY <3>3 DEF OnDisk, Listed
        <3> QED  BY <3>1, <3>3, <3>4
    <2> QED  BY <2>2, <2>3 DEF Fits, OnDisk
<1>6. ASSUME NEW i \in Ids
      PROVE  (OnDisk(i) => files[i].id = i)'
    BY DEF FilesInv, OnDisk
<1>7. ASSUME NEW i \in Ids
      PROVE  (Readable(temps[i]) => temps[i].id = i /\ Fits(temps[i]))'
    <2>1. CASE i = job.id
        BY <1>1, <1>4, <2>1 DEF TypeOK, Readable
    <2>2. CASE i # job.id
        <3>1. temps'[i] \in Entries \/ ~Readable(temps[i])'
            BY <2>2 DEF TypeOK, Readable
        <3> QED  BY <1>5, <2>2, <3>1
    <2> QED  BY <2>1, <2>2
<1> QED  BY <1>4, <1>6, <1>7 DEF FilesInv

LEMMA LeftoverKept ==
    ASSUME TypeOK, FilesInv, JobInv, Leftover, files' = files
    PROVE  /\ FilesInv'
           /\ prog = "up" => Fits(mem)'  \/ mem' # mem
<1>1. CASE UNCHANGED temps
    BY <1>1, SameDiskSameFiles DEF disk, JobInv, TypeOK
<1>2. CASE job # NoFile /\ \E left \in {Torn, job} : temps' = [temps EXCEPT ![job.id] = left]
    BY <1>2, TempWritten DEF JobInv, TypeOK
<1> QED  BY <1>1, <1>2 DEF Leftover

LEMMA Renamed ==
    ASSUME TypeOK, FilesInv, JobInv, Rename
    PROVE  /\ FilesInv' /\ job \in Entries /\ job.id \in Ids
           /\ files' = [files EXCEPT ![job.id] = job] /\ files'[job.id] = job
           /\ \A i \in Ids : OnDisk(i)' <=> OnDisk(i) \/ i = job.id
<1>1. job \in Entries /\ job.id \in Ids /\ job # NoFile
    BY JobFits DEF Rename
<1>2. files' = [files EXCEPT ![job.id] = job] /\ files'[job.id] = job
    BY <1>1 DEF Rename, TypeOK
<1>3. \A i \in Ids : OnDisk(i)' <=> OnDisk(i) \/ i = job.id
    BY <1>1, <1>2 DEF OnDisk, TypeOK
<1>4. ASSUME NEW i \in Ids
      PROVE  (OnDisk(i) => files[i].id = i)'
    BY <1>1, <1>2, <1>3 DEF FilesInv, TypeOK
<1>5. ASSUME NEW i \in Ids, NEW e \in Entries, e = temps'[i]
      PROVE  e.id = i /\ Fits(e)'
    <2>1. i # job.id /\ e = temps[i]
        BY <1>1, <1>5, EntriesAreReadable DEF Rename, TypeOK
    <2>2. e.id = i /\ Fits(e)
        BY <2>1, EntriesAreReadable DEF FilesInv
    <2>3. CASE OnDisk(i)
        BY <1>2, <1>3, <2>1, <2>2, <2>3 DEF Fits, TypeOK
    <2>4. CASE ~OnDisk(i)
        <3>1. job.id \in Listed
            BY <1>1 DEF Rename, JobInv, Listed
        <3>2. e.next = NoId /\ e.prev # NoId /\ OnDisk(e.prev) /\ files[e.prev].next = i
            BY <2>1, <2>2, <2>4, <3>1 DEF Fits
        <3>3. e.prev # job.id /\ e.prev \in Ids
            BY <1>1, <3>2, EntryFields, JobIsOpenEnd, IdsAreNaturals
        <3>4. OnDisk(e.prev)' /\ files'[e.prev] = files[e.prev] /\ ~OnDisk(i)'
            BY <1>2, <1>3, <2>1, <2>4, <3>2, <3>3 DEF TypeOK
        <3> QED  BY <2>2, <3>2, <3>4 DEF Fits
    <2> QED  BY <2>3, <2>4
<1>6. ASSUME NEW i \in Ids
      PROVE  (Readable(temps[i]) => temps[i].id = i /\ Fits(temps[i]))'
    <2>1. temps'[i] \in Entries \/ ~Readable(temps[i])'
        BY <1>1 DEF Rename, TypeOK, Readable
    <2> QED  BY <1>5, <2>1
<1> QED  BY <1>1, <1>2, <1>3, <1>4, <1>6 DEF FilesInv

\* What a human leaves of the files.
LEMMA SortedOut ==
    ASSUME TypeOK, SortOutByHand, NEW i \in Ids
    PROVE  /\ OnDisk(i)' <=> OnDisk(i)
           /\ OnDisk(i) => /\ files'[i].id = files[i].id /\ files'[i].prev = files[i].prev
                           /\ files'[i].transfers = files[i].transfers
                           /\ files'[i].next = IF files[i].next # NoId /\ ~OnDisk(files[i].next)
                                               THEN NoId ELSE files[i].next
<1>1. CASE ~OnDisk(i)
    BY <1>1 DEF SortOutByHand, OnDisk
<1>2. CASE OnDisk(i)
    <2>1. files[i] \in Entries
        BY <1>2 DEF OnDisk, TypeOK
    <2>2. files'[i] = IF files[i].next # NoId /\ files[files[i].next] = NoFile
                      THEN [files[i] EXCEPT !.next = NoId] ELSE files[i]
        BY <1>2 DEF SortOutByHand, OnDisk
    <2>3. LET f == [files[i] EXCEPT !.next = NoId] IN
            /\ f \in Entries /\ f.id = files[i].id /\ f.prev = files[i].prev /\ f.next = NoId
            /\ f.transfers = files[i].transfers
        BY <2>1, EntryChanges
    <2>4. CASE files[i].next # NoId /\ files[files[i].next] = NoFile
        <3>1. files'[i] = [files[i] EXCEPT !.next = NoId]
            BY <2>2, <2>4
        <3> QED  BY <1>2, <2>3, <2>4, <3>1, EntriesAreReadable DEF OnDisk
    <2>5. CASE ~(files[i].next # NoId /\ files[files[i].next] = NoFile)
        BY <1>2, <2>2, <2>5 DEF OnDisk
    <2> QED  BY <2>4, <2>5
<1> QED  BY <1>1, <1>2

LEMMA FilesKept ==
    ASSUME TypeOK, FilesInv, JobInv, [Next]_vars
    PROVE  FilesInv'
<1>1. CASE UNCHANGED disk
    BY <1>1, SameDiskSameFiles
<1>2. CASE WriteTemp
    BY <1>2, TempWritten DEF WriteTemp
<1>3. CASE Rename
    BY <1>3, Renamed
<1>4. CASE FlushFails \/ Stop
    BY <1>4, LeftoverKept DEF FlushFails, Stop
<1>5. CASE SortOutByHand
    <2>1. \A i \in Ids : ~Readable(temps'[i])
        BY <1>5 DEF SortOutByHand, Readable
    <2>2. \A i \in Ids : OnDisk(i)' => files'[i].id = i
        BY <1>5, SortedOut DEF FilesInv
    <2> QED  BY <2>1, <2>2 DEF FilesInv, Readable
<1>6. CASE \/ StartRefused \/ StartExisting \/ StartFirst \/ StartNext
           \/ \E x \in Transfers : AddTransfer(x)
           \/ CompleteBackup \/ MarkBackupIncomplete \/ AmendTransfer
           \/ UNCHANGED vars
    <2>1. UNCHANGED disk
        BY <1>6 DEF StartRefused, StartExisting, StartFirst, StartNext, AddTransfer,
                    CompleteBackup, MarkBackupIncomplete, AmendTransfer, vars, disk
    <2> QED  BY <1>1, <2>1
<1> QED  BY <1>2, <1>3, <1>4, <1>5, <1>6 DEF Next

-----------------------------------------------------------------------------
(* The flush under way *)

LEMMA StartingKeepsJob ==
    ASSUME TypeOK, FilesInv, JobInv, StartFirst \/ StartNext
    PROVE  JobInv'
<1>1. CASE StartFirst
    <2>1. PICK i \in Ids : fresh' = i /\ Begin(NewEntry(i, NoId), "new")
        BY <1>1 DEF StartFirst
    <2> DEFINE e == NewEntry(i, NoId)
    <2>2. e \in Entries /\ e.id = i /\ e.prev = NoId /\ e.next = NoId
        BY NewEntryIsEntry
    <2> HIDE DEF e
    <2>3. Listed = {} /\ ~OnDisk(i)
        BY <1>1 DEF StartFirst, Listed, OnDisk
    <2>4. Fits(e)
        BY <2>2, <2>3 DEF Fits
    <2>5. job' = e /\ purpose' = "new" /\ ~written' /\ prog' = "creating" /\ e # NoFile
        BY <1>1, <2>1, <2>2, EntriesAreReadable DEF StartFirst, Begin, e
    <2>6. Fits(e)'
        BY <1>1, <2>2, <2>4, SameDiskSameFiles DEF StartFirst
    <2>7. ~OnDisk(i)'
        BY <1>1, <2>3 DEF StartFirst, OnDisk, disk
    <2> QED  BY <2>2, <2>5, <2>6, <2>7 DEF JobInv
<1>2. CASE StartNext
    <2>1. PICK i \in Ids : /\ fresh' = i /\ Unused(i)
                           /\ Begin([files[Loaded.id] EXCEPT !.next = i], "link")
        BY <1>2 DEF StartNext
    <2>2. Loaded \in Entries /\ Loaded.next = NoId /\ Fits(Loaded) /\ Loaded.id \in Ids
        BY <1>2, LoadedFrom, LoadedFits, EntryFields DEF StartNext
    <2>3. OnDisk(Loaded.id) /\ files[Loaded.id] \in Entries /\ files[Loaded.id].id = Loaded.id
        BY <1>2, <2>2 DEF StartNext, Readable, OnDisk, TypeOK, FilesInv
    <2>4. files[Loaded.id].next = NoId
        BY <2>2, <2>3 DEF Fits
    <2> DEFINE linked == [files[Loaded.id] EXCEPT !.next = i]
    <2>5. /\ linked \in Entries /\ linked.id = Loaded.id
          /\ linked.prev = files[Loaded.id].prev /\ linked.next = i
          /\ linked.transfers = files[Loaded.id].transfers
        BY <2>3, EntryChanges
    <2>6. PICK e \in Entries : e = linked
        BY <2>5
    <2>7. job' = e /\ purpose' = "link" /\ ~written' /\ prog' = "creating" /\ e # NoFile
        BY <1>2, <2>1, <2>6, EntriesAreReadable DEF StartNext, Begin
    <2>8. files' = files /\ temps' = temps
        BY <1>2 DEF StartNext, disk
    <2>9. Unused(i)' /\ OnDisk(e.id)' /\ files'[e.id].next = NoId
        BY <2>1, <2>3, <2>4, <2>5, <2>6, <2>8 DEF Unused, OnDisk, Listed
    <2>10. /\ e.prev = files'[e.id].prev /\ e.next = i
           /\ e.transfers = files'[e.id].transfers
        BY <2>5, <2>6, <2>8
    <2> QED  BY <2>1, <2>7, <2>9, <2>10 DEF JobInv
<1> QED  BY <1>1, <1>2

\* The entry a mutation flushes still fits: it only gains transfers, or changes its flag.
LEMMA MutationKeepsJob ==
    ASSUME TypeOK, FilesInv, JobInv,
           \/ \E x \in Transfers : AddTransfer(x)
           \/ CompleteBackup \/ MarkBackupIncomplete \/ AmendTransfer
    PROVE  JobInv'
<1>1. prog = "up" /\ prog' = "up" /\ mem \in Entries /\ mem.next = NoId /\ Fits(mem)
    BY DEF AddTransfer, CompleteBackup, MarkBackupIncomplete, AmendTransfer, JobInv, TypeOK
<1>2. UNCHANGED disk
    BY DEF AddTransfer, CompleteBackup, MarkBackupIncomplete, AmendTransfer
<1>3. /\ mem' \in Entries /\ mem'.id = mem.id /\ mem'.prev = mem.prev /\ mem'.next = NoId
      /\ mem.transfers \subseteq mem'.transfers
    <2>1. ASSUME NEW x \in Transfers, AddTransfer(x)
          PROVE  <1>3!:
        BY <1>1, <2>1, EntryChanges DEF AddTransfer
    <2>2. CASE CompleteBackup
        BY <1>1, <2>2, EntryChanges DEF CompleteBackup
    <2>3. CASE MarkBackupIncomplete
        BY <1>1, <2>3, EntryChanges DEF MarkBackupIncomplete
    <2>4. CASE AmendTransfer
        BY <1>1, <2>4 DEF AmendTransfer
    <2> QED  BY <2>1, <2>2, <2>3, <2>4
<1>4. PICK e \in Entries : e = mem'
    BY <1>3
<1>5. Fits(e)
    BY <1>1, <1>3, <1>4 DEF Fits
<1>6. Fits(e)'
    BY <1>2, <1>5, SameDiskSameFiles
<1>7. /\ job' = e /\ ~written' /\ purpose' \in {"add", "complete", "incomplete", "amend"}
    BY <1>4 DEF AddTransfer, CompleteBackup, MarkBackupIncomplete, AmendTransfer, Begin
<1> QED  BY <1>1, <1>3, <1>4, <1>6, <1>7, EntriesAreReadable DEF JobInv

\* Writing the .tmp file changes nothing else that the flush rests on.
LEMMA WritingKeepsJob ==
    ASSUME TypeOK, FilesInv, JobInv, WriteTemp
    PROVE  JobInv'
<1>1. job \in Entries /\ job.id \in Ids /\ job # NoFile /\ Fits(job)
    BY JobFits DEF WriteTemp
<1>2. /\ files' = files /\ temps' = [temps EXCEPT ![job.id] = job] /\ temps'[job.id] = job
      /\ job' = job /\ mem' = mem /\ prog' = prog /\ purpose' = purpose /\ fresh' = fresh
    BY <1>1 DEF WriteTemp, TypeOK
<1>3. \A e \in Entries : e.id = job.id /\ Fits(e) => Fits(e)'
    BY <1>1, <1>2, TempWritten
<1>4. prog = "up" => mem = job
    BY <1>1 DEF JobInv
<1>5. (prog = "up" => mem # NoFile /\ mem.next = NoId /\ Fits(mem))'
    BY <1>1, <1>2, <1>3, <1>4 DEF JobInv
<1>6. purpose = "link" => Unused(fresh)'
    BY <1>1, <1>2 DEF JobInv, Unused, Listed, OnDisk, TypeOK
<1>7. Fits(job)'
    BY <1>1, <1>2, <1>3
<1>8. \A i \in Ids : OnDisk(i)' <=> OnDisk(i)
    BY <1>2 DEF OnDisk
<1> QED  BY <1>1, <1>2, <1>5, <1>6, <1>7, <1>8 DEF JobInv

\* After the rename the entry is its file; a link makes room for the new entry.
LEMMA RenamingKeepsJob ==
    ASSUME TypeOK, FilesInv, JobInv, Rename
    PROVE  JobInv'
<1>1. /\ job \in Entries /\ job.id \in Ids /\ job # NoFile /\ written
      /\ files' = [files EXCEPT ![job.id] = job] /\ files'[job.id] = job
      /\ \A i \in Ids : OnDisk(i)' <=> OnDisk(i) \/ i = job.id
    BY Renamed DEF Rename
<1>2. CASE purpose = "link"
    <2>1. /\ fresh \in Ids /\ job.next = fresh /\ Unused(fresh) /\ fresh # job.id
          /\ prog = "creating" /\ ~OnDisk(fresh)
        BY <1>1, <1>2 DEF JobInv, Unused, Listed, OnDisk
    <2>2. PICK e \in Entries : e = NewEntry(fresh, job.id)
        BY <1>1, <2>1, NewEntryIsEntry
    <2>3. e.id = fresh /\ e.prev = job.id /\ e.next = NoId
        BY <1>1, <2>1, <2>2, NewEntryIsEntry
    <2>4. ~OnDisk(e.id)' /\ OnDisk(e.prev)' /\ files'[e.prev].next = e.id
        BY <1>1, <2>1, <2>3
    <2>5. Fits(e)'
        BY <1>1, <2>3, <2>4, IdsAreNaturals DEF Fits
    <2>6. job' = e /\ purpose' = "new" /\ ~written' /\ prog' = "creating" /\ e # NoFile
        BY <1>2, <2>1, <2>2, EntriesAreReadable DEF Rename, Begin
    <2> QED  BY <2>3, <2>4, <2>5, <2>6 DEF JobInv
<1>3. CASE purpose # "link"
    <2>1. job.next = NoId
        BY <1>1, <1>3 DEF JobInv
    <2>2. mem' = job
        BY <1>1, <1>3 DEF Rename, JobInv
    <2>3. PICK e \in Entries : e = job
        BY <1>1
    <2>4. OnDisk(e.id)' /\ files'[e.id] = e
        BY <1>1, <2>3
    <2>5. Fits(e)'
        BY <1>1, <2>1, <2>3, <2>4 DEF Fits
    <2>6. /\ job' = NoFile /\ purpose' = "none" /\ ~written' /\ prog' = "up"
        BY <1>3 DEF Rename, Finished
    <2>7. mem' = e /\ e # NoFile /\ e.next = NoId
        BY <1>1, <2>1, <2>2, <2>3
    <2> QED  BY <2>5, <2>6, <2>7 DEF JobInv
<1> QED  BY <1>2, <1>3

LEMMA JobKept ==
    ASSUME TypeOK, FilesInv, JobInv, [Next]_vars
    PROVE  JobInv'
<1>1. CASE StartRefused
    BY <1>1, IdleUnlessUp DEF StartRefused, JobInv
<1>2. CASE StartExisting
    <2>1. PICK e \in Entries : e = Loaded
        BY <1>2, LoadedFrom DEF StartExisting
    <2>2. Fits(e) /\ e.next = NoId
        BY <1>2, <2>1, LoadedFrom, LoadedFits DEF StartExisting
    <2>3. Fits(e)'
        BY <1>2, <2>2, SameDiskSameFiles DEF StartExisting
    <2>4. mem' = e /\ e # NoFile /\ prog' = "up"
        BY <1>2, <2>1, EntriesAreReadable DEF StartExisting
    <2> QED  BY <1>2, <2>2, <2>3, <2>4, IdleUnlessUp DEF StartExisting, JobInv
<1>3. CASE StartFirst \/ StartNext
    BY <1>3, StartingKeepsJob
<1>4. CASE \/ \E x \in Transfers : AddTransfer(x)
           \/ CompleteBackup \/ MarkBackupIncomplete \/ AmendTransfer
    BY <1>4, MutationKeepsJob
<1>5. CASE WriteTemp
    BY <1>5, WritingKeepsJob
<1>6. CASE Rename
    BY <1>6, RenamingKeepsJob
<1>7. CASE FlushFails
    <2>1. prog' = "up" => prog = "up"
        BY <1>7 DEF FlushFails
    <2>2. mem' = mem /\ prog' # "creating"
        BY <1>7 DEF FlushFails, JobInv
    <2>3. prog' = "up" => mem # NoFile /\ mem.next = NoId /\ Fits(mem)'
        BY <1>7, <2>1, <2>2, LeftoverKept DEF FlushFails, JobInv
    <2> QED  BY <1>7, <2>2, <2>3 DEF FlushFails, Finished, JobInv
<1>8. CASE Stop
    BY <1>8 DEF Stop, Finished, JobInv
<1>9. CASE SortOutByHand
    BY <1>9, IdleUnlessUp DEF SortOutByHand, JobInv
<1>10. CASE UNCHANGED vars
    <2>1. Fits(mem) => Fits(mem)'
        BY <1>10 DEF vars, disk, Fits, OnDisk, Listed
    <2>2. Fits(job) => Fits(job)'
        BY <1>10 DEF vars, disk, Fits, OnDisk, Listed
    <2> QED  BY <1>10, <2>1, <2>2 DEF vars, disk, JobInv, OnDisk, Unused, Listed
<1> QED  BY <1>1, <1>2, <1>3, <1>4, <1>5, <1>6, <1>7, <1>8, <1>9, <1>10 DEF Next

-----------------------------------------------------------------------------
(* The chain *)

\* A file is replaced that was and remains the open end.
LEMMA EndReplaced ==
    ASSUME TypeOK, ChainInv, NEW e \in Entries, e.id \in Ids, OnDisk(e.id),
           files' = [files EXCEPT ![e.id] = e],
           files[e.id].next = NoId, files[e.id].prev = e.prev,
           e.next = NoId \/ (e.next \in Ids /\ Unused(e.next))
    PROVE  ChainInv'
<1>1. \A i \in Ids : /\ OnDisk(i)' <=> OnDisk(i)
                     /\ files'[i] = IF i = e.id THEN e ELSE files[i]
    BY EntriesAreReadable DEF OnDisk, TypeOK
<1>2. e.next # NoId => ~OnDisk(e.next) /\ \A j \in Ids : OnDisk(j) => files[j].next # e.next
    BY DEF Unused, Listed, OnDisk
<1>3. \A i \in Ids : OnDisk(i) => /\ files[i].next \in Ids \cup {NoId}
                                  /\ files[i].prev \in Ids \cup {NoId}
    BY EntryFields DEF OnDisk, TypeOK
<1>4. EntriesFormOneChain'
    <2>1. ASSUME NEW i \in Ids, OnDisk(i)', files'[i].prev # NoId
          PROVE  OnDisk(files[i].prev)' /\ files'[files'[i].prev].next = i
        <3>1. files'[i].prev = files[i].prev /\ OnDisk(i)
            BY <1>1, <2>1
        <3>2. OnDisk(files[i].prev) /\ files[files[i].prev].next = i
            BY <2>1, <3>1 DEF ChainInv, EntriesFormOneChain
        <3>3. files[i].prev \in Ids /\ files[i].prev # e.id
            BY <1>3, <2>1, <3>1, <3>2, IdsAreNaturals
        <3> QED  BY <1>1, <3>1, <3>2, <3>3 DEF OnDisk
    <2>2. ASSUME NEW i \in Ids, NEW j \in Ids, OnDisk(i)', OnDisk(j)', i # j
          PROVE  /\ files'[i].prev # files'[j].prev
                 /\ files'[i].next # NoId => files'[i].next # files'[j].next
        <3>1. /\ files[i].prev # files[j].prev
              /\ files[i].next # NoId => files[i].next # files[j].next
            BY <1>1, <2>2 DEF ChainInv, EntriesFormOneChain
        <3> QED  BY <1>1, <1>2, <2>2, <3>1
    <2> QED  BY <2>1, <2>2 DEF EntriesFormOneChain, OnDisk
<1>5. ASSUME NEW i \in Ids, Open(i)'
      PROVE  Open(i)
    BY <1>1, <1>3, <1>5 DEF Open, OnDisk
<1>6. ASSUME NEW i \in Ids, NEW j \in Ids, Linked(i, j)'
      PROVE  Linked(i, j)
    BY <1>1, <1>2, <1>6 DEF Linked, OnDisk
<1>7. \A i, j \in Ids : Open(i)' /\ Open(j)' => i = j
    BY <1>5 DEF ChainInv
<1>8. \E age \in [Ids -> Nat] : \A i, j \in Ids : Linked(i, j)' => age[i] < age[j]
    BY <1>6 DEF ChainInv
<1> QED  BY <1>4, <1>7, <1>8 DEF ChainInv

\* A file is added: the first one, or the one the open end names.
LEMMA EndAdded ==
    ASSUME TypeOK, ChainInv, NEW e \in Entries, e.id \in Ids, ~OnDisk(e.id), Fits(e),
           files' = [files EXCEPT ![e.id] = e]
    PROVE  ChainInv'
<1>1. \A i \in Ids : /\ OnDisk(i)' <=> OnDisk(i) \/ i = e.id
                     /\ files'[i] = IF i = e.id THEN e ELSE files[i]
    BY EntriesAreReadable DEF OnDisk, TypeOK
<1>2. e.next = NoId
    BY DEF Fits
<1>3. \A i \in Ids : OnDisk(i) => /\ files[i].next \in Ids \cup {NoId}
                                  /\ files[i].prev \in Ids \cup {NoId}
    BY EntryFields DEF OnDisk, TypeOK
<1>4. CASE e.prev = NoId
    <2>1. \A i \in Ids : ~OnDisk(i)
        BY <1>4 DEF Fits, Listed, OnDisk
    <2>2. \A i \in Ids : OnDisk(i)' => i = e.id
        BY <1>1, <2>1
    <2>3. files'[e.id].prev = NoId /\ files'[e.id].next = NoId
        BY <1>1, <1>2, <1>4
    <2>4. EntriesFormOneChain'
        BY <2>2, <2>3 DEF EntriesFormOneChain
    <2>5. \A i, j \in Ids : Open(i)' /\ Open(j)' => i = j
        BY <2>2 DEF Open
    <2>6. \A i, j \in Ids : ~Linked(i, j)'
        BY <2>2, <2>3 DEF Linked
    <2>7. \E age \in [Ids -> Nat] : \A i, j \in Ids : Linked(i, j)' => age[i] < age[j]
        BY <2>6 DEF ChainInv
    <2> QED  BY <2>4, <2>5, <2>7 DEF ChainInv
<1>5. CASE e.prev # NoId
    <2>1. PICK p \in Ids : p = e.prev
        BY <1>5, EntryFields
    <2>2. OnDisk(p) /\ files[p].next = e.id /\ p # e.id /\ e.id # NoId
        BY <1>5, <2>1, IdsAreNaturals DEF Fits
    <2>3. EntriesFormOneChain'
        <3>1. ASSUME NEW i \in Ids, OnDisk(i)', files'[i].prev # NoId
              PROVE  OnDisk(files[i].prev)' /\ files'[files'[i].prev].next = i
            <4>1. CASE i = e.id
                BY <1>1, <2>1, <2>2, <4>1 DEF OnDisk
            <4>2. CASE i # e.id
                <5>1. files'[i].prev = files[i].prev /\ OnDisk(i)
                    BY <1>1, <3>1, <4>2
                <5>2. OnDisk(files[i].prev) /\ files[files[i].prev].next = i
                    BY <3>1, <5>1 DEF ChainInv, EntriesFormOneChain
                <5>3. files[i].prev \in Ids /\ files[i].prev # e.id
                    BY <1>3, <3>1, <5>1, <5>2
                <5> QED  BY <1>1, <5>1, <5>2, <5>3 DEF OnDisk
            <4> QED  BY <4>1, <4>2
        <3>2. ASSUME NEW j \in Ids, OnDisk(j), j # e.id
              PROVE  files[j].prev # p
            BY <2>2, <3>2, IdsAreNaturals DEF ChainInv, EntriesFormOneChain
        <3>3. ASSUME NEW i \in Ids, NEW j \in Ids, OnDisk(i)', OnDisk(j)', i # j
              PROVE  /\ files'[i].prev # files'[j].prev
                     /\ files'[i].next # NoId => files'[i].next # files'[j].next
            <4>1. CASE i # e.id /\ j # e.id
                BY <1>1, <3>3, <4>1 DEF ChainInv, EntriesFormOneChain
            <4>2. CASE i = e.id \/ j = e.id
                BY <1>1, <1>2, <2>1, <3>2, <3>3, <4>2
            <4> QED  BY <4>1, <4>2
        <3> QED  BY <3>1, <3>3 DEF EntriesFormOneChain, OnDisk
    <2>4. Open(p)
        BY <2>2 DEF Open
    <2>5. ASSUME NEW i \in Ids, Open(i)', i # e.id
          PROVE  FALSE
        <3>1. OnDisk(i) /\ files'[i] = files[i]
            BY <1>1, <2>5 DEF Open
        <3>2. Open(i)
            BY <1>1, <1>3, <2>5, <3>1 DEF Open, OnDisk
        <3>3. i = p
            BY <2>4, <3>2 DEF ChainInv
        <3> QED  BY <1>1, <2>2, <2>5, <3>1, <3>3 DEF Open, OnDisk
    <2>6. PICK age \in [Ids -> Nat] : \A i, j \in Ids : Linked(i, j) => age[i] < age[j]
        BY DEF ChainInv
    <2> DEFINE later == [age EXCEPT ![e.id] = age[p] + 1]
    <2>7. later \in [Ids -> Nat]
        OBVIOUS
    <2>8. ASSUME NEW i \in Ids, NEW j \in Ids, Linked(i, j)'
          PROVE  later[i] < later[j]
        <3>1. i # e.id /\ OnDisk(i) /\ files[i].next = j
            BY <1>1, <1>2, <2>8 DEF Linked
        <3>2. CASE j = e.id
            <4>1. i = p
                BY <2>2, <3>1, <3>2 DEF ChainInv, EntriesFormOneChain
            <4> QED  BY <2>2, <3>2, <4>1
        <3>3. CASE j # e.id
            <4>1. Linked(i, j)
                BY <1>1, <2>8, <3>1, <3>3 DEF Linked
            <4> QED  BY <2>6, <3>1, <3>3, <4>1
        <3> QED  BY <3>2, <3>3
    <2>9. \E a \in [Ids -> Nat] : \A i, j \in Ids : Linked(i, j)' => a[i] < a[j]
        BY <2>7, <2>8
    <2>10. \A i, j \in Ids : Open(i)' /\ Open(j)' => i = j
        BY <2>5
    <2> QED  BY <2>3, <2>9, <2>10 DEF ChainInv
<1> QED  BY <1>4, <1>5

\* Links to files that are not there are no links of the chain.
LEMMA EndSortedOut ==
    ASSUME TypeOK, ChainInv, SortOutByHand
    PROVE  ChainInv'
<1>1. \A i \in Ids : /\ OnDisk(i)' <=> OnDisk(i)
                     /\ OnDisk(i) => files'[i].prev = files[i].prev
                     /\ OnDisk(i) => files'[i].next =
                            IF files[i].next # NoId /\ ~OnDisk(files[i].next)
                            THEN NoId ELSE files[i].next
    BY SortedOut
<1>2. \A i \in Ids : OnDisk(i) => /\ files[i].next \in Ids \cup {NoId}
                                  /\ files[i].prev \in Ids \cup {NoId}
    BY EntryFields DEF OnDisk, TypeOK
<1>3. EntriesFormOneChain'
    <2>1. ASSUME NEW i \in Ids, OnDisk(i)', files'[i].prev # NoId
          PROVE  OnDisk(files[i].prev)' /\ files'[files'[i].prev].next = i
        <3>1. files'[i].prev = files[i].prev /\ OnDisk(i)
            BY <1>1, <2>1
        <3>2. OnDisk(files[i].prev) /\ files[files[i].prev].next = i
            BY <2>1, <3>1 DEF ChainInv, EntriesFormOneChain
        <3>3. PICK k \in Ids : k = files[i].prev
            BY <1>2, <2>1, <3>1
        <3>4. OnDisk(k)' /\ files'[k].next = i
            BY <1>1, <3>1, <3>2, <3>3
        <3> QED  BY <3>1, <3>3, <3>4 DEF OnDisk
    <2>2. ASSUME NEW i \in Ids, NEW j \in Ids, OnDisk(i)', OnDisk(j)', i # j
          PROVE  /\ files'[i].prev # files'[j].prev
                 /\ files'[i].next # NoId => files'[i].next # files'[j].next
        <3>1. OnDisk(i) /\ OnDisk(j)
            BY <1>1, <2>2
        <3>2. /\ files[i].prev # files[j].prev
              /\ files[i].next # NoId => files[i].next # files[j].next
            BY <2>2, <3>1 DEF ChainInv, EntriesFormOneChain
        <3> QED  BY <1>1, <3>1, <3>2
    <2> QED  BY <2>1, <2>2 DEF EntriesFormOneChain, OnDisk
<1>4. ASSUME NEW i \in Ids, Open(i)'
      PROVE  Open(i)
    BY <1>1, <1>2, <1>4 DEF Open, OnDisk
<1>5. ASSUME NEW i \in Ids, NEW j \in Ids, Linked(i, j)'
      PROVE  Linked(i, j)
    BY <1>1, <1>5 DEF Linked, OnDisk
<1>6. \A i, j \in Ids : Open(i)' /\ Open(j)' => i = j
    BY <1>4 DEF ChainInv
<1>7. \E age \in [Ids -> Nat] : \A i, j \in Ids : Linked(i, j)' => age[i] < age[j]
    BY <1>5 DEF ChainInv
<1> QED  BY <1>3, <1>6, <1>7 DEF ChainInv

LEMMA ChainKept ==
    ASSUME TypeOK, FilesInv, JobInv, ChainInv, [Next]_vars
    PROVE  ChainInv'
<1>1. CASE Rename
    <2>1. /\ job \in Entries /\ job.id \in Ids /\ files' = [files EXCEPT ![job.id] = job]
          /\ Fits(job)
        BY <1>1, Renamed, JobFits DEF Rename
    <2>2. PICK e \in Entries : e = job
        BY <2>1
    <2>3. CASE OnDisk(job.id)
        <3>1. files[job.id].next = NoId /\ files[job.id].prev = job.prev
            BY <1>1, <2>1, <2>3, JobIsOpenEnd DEF Rename, Fits
        <3>2. job.next = NoId \/ (job.next \in Ids /\ Unused(job.next))
            BY <1>1 DEF Rename, JobInv
        <3> QED  BY <2>1, <2>2, <2>3, <3>1, <3>2, EndReplaced
    <2>4. CASE ~OnDisk(job.id)
        BY <2>1, <2>2, <2>4, EndAdded
    <2> QED  BY <2>3, <2>4
<1>2. CASE SortOutByHand
    BY <1>2, EndSortedOut
<1>3. CASE UNCHANGED files
    BY <1>3 DEF ChainInv, EntriesFormOneChain, Open, Linked, OnDisk
<1>4. CASE \/ StartRefused \/ StartExisting \/ StartFirst \/ StartNext
           \/ \E x \in Transfers : AddTransfer(x)
           \/ CompleteBackup \/ MarkBackupIncomplete \/ AmendTransfer
           \/ WriteTemp \/ FlushFails \/ Stop \/ UNCHANGED vars
    <2>1. UNCHANGED files
        BY <1>4 DEF StartRefused, StartExisting, StartFirst, StartNext, AddTransfer,
                    CompleteBackup, MarkBackupIncomplete, AmendTransfer, WriteTemp, FlushFails,
                    Stop, vars, disk
    <2> QED  BY <1>3, <2>1
<1> QED  BY <1>1, <1>2, <1>4 DEF Next

-----------------------------------------------------------------------------
(* Recorded transfers *)

LEMMA AckedKept ==
    ASSUME TypeOK, FilesInv, JobInv, AckedTransfersStay, [Next]_vars
    PROVE  AckedTransfersStay'
<1>1. CASE Rename
    <2>1. /\ job \in Entries /\ job.id \in Ids /\ job # NoFile /\ Fits(job)
          /\ files' = [files EXCEPT ![job.id] = job] /\ files'[job.id] = job
          /\ \A i \in Ids : OnDisk(i)' <=> OnDisk(i) \/ i = job.id
        BY <1>1, Renamed, JobFits DEF Rename
    <2>2. ASSUME NEW x \in acked
          PROVE  \E i \in Ids : OnDisk(i)' /\ x \in files'[i].transfers
        <3>1. PICK i \in Ids : OnDisk(i) /\ x \in files[i].transfers
            BY DEF AckedTransfersStay
        <3>2. x \in files'[i].transfers
            BY <2>1, <3>1 DEF Fits, TypeOK
        <3> QED  BY <2>1, <3>1, <3>2
    <2>3. ASSUME NEW x \in acked', x \notin acked
          PROVE  \E i \in Ids : OnDisk(i)' /\ x \in files'[i].transfers
        <3>1. purpose = "add" /\ x \in mem.transfers
            BY <1>1, <2>3 DEF Rename
        <3>2. mem = job
            BY <3>1 DEF JobInv
        <3> QED  BY <2>1, <3>1, <3>2
    <2> QED  BY <2>2, <2>3 DEF AckedTransfersStay
<1>2. CASE SortOutByHand
    <2>1. ASSUME NEW x \in acked
          PROVE  \E i \in Ids : OnDisk(i)' /\ x \in files'[i].transfers
        <3>1. PICK i \in Ids : OnDisk(i) /\ x \in files[i].transfers
            BY DEF AckedTransfersStay
        <3> QED  BY <1>2, <3>1, SortedOut
    <2> QED  BY <1>2, <2>1 DEF SortOutByHand, AckedTransfersStay
<1>3. CASE UNCHANGED <<files, acked>>
    BY <1>3 DEF AckedTransfersStay, OnDisk
<1>4. CASE \/ StartRefused \/ StartExisting \/ StartFirst \/ StartNext
           \/ \E x \in Transfers : AddTransfer(x)
           \/ CompleteBackup \/ MarkBackupIncomplete \/ AmendTransfer
           \/ WriteTemp \/ FlushFails \/ Stop \/ UNCHANGED vars
    <2>1. UNCHANGED <<files, acked>>
        BY <1>4 DEF StartRefused, StartExisting, StartFirst, StartNext, AddTransfer,
                    CompleteBackup, MarkBackupIncomplete, AmendTransfer, WriteTemp, FlushFails,
                    Stop, vars, disk
    <2> QED  BY <1>3, <2>1
<1> QED  BY <1>1, <1>2, <1>4 DEF Next

-----------------------------------------------------------------------------
(* A clean load *)

LEMMA CleanLoadFollows ==
    ASSUME IInv
    PROVE  CleanLoadFindsTheOpenEnd
<1> SUFFICES ASSUME prog = "off", NoTemps, NoDangling, Listed # {}
             PROVE  /\ Readable(Loaded) /\ Loaded.next = NoId
                    /\ \A i \in Ids : OnDisk(i) /\ i # Loaded.id => files[i].next # NoId
    BY DEF CleanLoadFindsTheOpenEnd
<1> DEFINE start == LastListed
<1>1. start = files[Newest] /\ Newest \in Ids /\ OnDisk(Newest) /\ start \in Entries
    BY NewestIsListed DEF LastListed, NoTemps, Listed, OnDisk, IInv, TypeOK
<1>2. \A i \in Ids : OnDisk(i) => /\ files[i] \in Entries /\ Readable(files[i])
                                  /\ files[i].next \in Ids \cup {NoId} /\ files[i].id = i
    BY EntriesAreReadable, EntryFields DEF OnDisk, IInv, TypeOK, FilesInv
<1>3. ASSUME NEW i \in Ids, OnDisk(i), files[i].next = NoId
      PROVE  \A j \in Ids : OnDisk(j) /\ j # i => files[j].next # NoId
    BY <1>3 DEF IInv, ChainInv, Open
<1>4. CASE start.next = NoId
    <2>1. Loaded = start
        BY <1>4 DEF Loaded, Follow
    <2> QED  BY <1>1, <1>2, <1>3, <1>4, <2>1
<1>5. CASE start.next # NoId
    <2> DEFINE S == Reached(start)
    <2>1. start.next \in Ids /\ OnDisk(start.next)
        BY <1>1, <1>2, <1>5 DEF NoDangling
    <2>2. S \subseteq {i \in Ids : OnDisk(i)}
        <3> DEFINE seen == {i \in Ids : OnDisk(i)}
        <3>1. start.next \in seen
            BY <2>1
        <3>2. \A j \in seen : files[j].next \in seen \cup {NoId}
            BY <1>2 DEF NoDangling
        <3>3. seen \in SUBSET Ids
            OBVIOUS
        <3> HIDE DEF seen
        <3>4. \A i \in S : i \in seen
            BY <3>1, <3>2, <3>3, Zenon DEF Reached
        <3> QED  BY <3>4 DEF seen
    <2>3. start.next \in S
        BY <2>1 DEF Reached
    <2>4. ASSUME NEW i \in S, files[i].next # NoId
          PROVE  files[i].next \in S
        <3>1. i \in Ids /\ Readable(files[i]) /\ files[i].next \in Ids
            BY <1>2, <2>2, <2>4
        <3> QED  BY <2>4, <3>1 DEF Reached
    <2>5. PICK age \in [Ids -> Nat] : \A i, j \in Ids : Linked(i, j) => age[i] < age[j]
        BY DEF IInv, ChainInv
    <2>6. PICK m \in S : \A y \in S : age[y] <= age[m]
        <3> HIDE DEF S
        <3> QED  BY <2>2, <2>3, <2>5, GreatestExists
    <2>7. files[m].next = NoId
        <3> SUFFICES ASSUME files[m].next # NoId
                     PROVE  FALSE
            OBVIOUS
        <3>1. PICK n \in S : n = files[m].next
            BY <2>4, <2>6
        <3>2. m \in Ids /\ n \in Ids /\ OnDisk(m) /\ OnDisk(n)
            BY <2>2, <2>6, <3>1
        <3>3. age[m] < age[n]
            BY <2>5, <3>1, <3>2 DEF Linked
        <3>4. age[m] \in Nat /\ age[n] \in Nat /\ age[n] <= age[m]
            BY <2>5, <2>6, <3>1, <3>2
        <3> QED  BY <3>3, <3>4
    <2>8. m \in Ends(start)
        BY <2>6, <2>7 DEF Ends
    <2>9. PICK i \in Ends(start) : Loaded = files[i]
        BY <1>1, <1>5, <2>8, EntriesAreReadable DEF Loaded, Follow
    <2>10. i \in Ids /\ OnDisk(i) /\ Readable(files[i]) /\ files[i].next = NoId /\ files[i].id = i
        BY <1>2, <2>2, <2>9 DEF Ends
    <2> QED  BY <1>3, <2>9, <2>10
<1> QED  BY <1>4, <1>5

-----------------------------------------------------------------------------
(* The theorems *)

LEMMA InitHolds ==
    ASSUME Init
    PROVE  IInv
<1>1. TypeOK
    BY DEF Init, TypeOK
<1>2. FilesInv
    BY DEF Init, FilesInv, OnDisk, Readable
<1>3. JobInv
    BY DEF Init, JobInv
<1>4. \A i \in Ids : ~OnDisk(i)
    BY DEF Init, OnDisk
<1>5. [i \in Ids |-> 0] \in [Ids -> Nat]
    OBVIOUS
<1>6. ChainInv
    BY <1>4, <1>5 DEF ChainInv, EntriesFormOneChain, Open, Linked
<1>7. AckedTransfersStay
    BY DEF Init, AckedTransfersStay
<1> QED  BY <1>1, <1>2, <1>3, <1>6, <1>7 DEF IInv

LEMMA StepKeeps ==
    ASSUME IInv, [Next]_vars
    PROVE  IInv'
BY TypeKept, FilesKept, JobKept, ChainKept, AckedKept DEF IInv

LEMMA Invariance == Spec => []IInv
<1>1. Init => IInv
    BY InitHolds
<1>2. IInv /\ [Next]_vars => IInv'
    BY StepKeeps
<1> HIDE DEF IInv
<1> QED  BY <1>1, <1>2, PTL DEF Spec

\* The entry in memory, the one being flushed and everything on disk are entries, and what
\* create_new links is an id (backup_log.rs:168-207).
THEOREM TypeCorrect == Spec => []TypeOK
<1>1. IInv => TypeOK
    BY DEF IInv
<1> HIDE DEF IInv, TypeOK
<1> QED  BY <1>1, Invariance, PTL

\* backup_log.rs:215: a transfer whose record was flushed stays in the log through every later
\* flush, link, failure, crash and restart, in any number of them.
THEOREM AckedStay == Spec => []AckedTransfersStay
<1>1. IInv => AckedTransfersStay
    BY DEF IInv
<1> HIDE DEF IInv, AckedTransfersStay
<1> QED  BY <1>1, Invariance, PTL

\* backup_log.rs:175-177: the two kinds of links agree however often create_new is cut short.
THEOREM OneChain == Spec => []EntriesFormOneChain
<1>1. IInv => EntriesFormOneChain
    BY DEF IInv, ChainInv
<1> HIDE DEF IInv, EntriesFormOneChain
<1> QED  BY <1>1, Invariance, PTL

\* backup_log.rs:368-406: with nothing cut short, following the links from whichever file sorts
\* last ends at the one entry without a successor, whatever the clock did.
THEOREM CleanLoad == Spec => []CleanLoadFindsTheOpenEnd
<1>1. IInv => CleanLoadFindsTheOpenEnd
    BY CleanLoadFollows
<1> HIDE DEF IInv, CleanLoadFindsTheOpenEnd
<1> QED  BY <1>1, Invariance, PTL

-----------------------------------------------------------------------------
(* The log is only appended to *)

LEMMA RecordedFields ==
    /\ DOMAIN Recorded = {j \in Ids : OnDisk(j)}
    /\ \A i \in Ids : OnDisk(i) =>
          Recorded[i] = [before |-> files[i].prev, transfers |-> files[i].transfers]
BY DEF Recorded

LEMMA OpenEndIsOpen ==
    ASSUME ChainInv
    PROVE  /\ \A i \in Ids : Open(i) => OpenEnd = i
           /\ (\A i \in Ids : ~Open(i)) => OpenEnd = NoId
<1>1. ASSUME NEW i \in Ids, Open(i) PROVE OpenEnd = i
    <2>1. Open(CHOOSE j \in Ids : Open(j)) /\ (CHOOSE j \in Ids : Open(j)) \in Ids
        BY <1>1
    <2> QED  BY <1>1, <2>1 DEF ChainInv, OpenEnd
<1> QED  BY <1>1 DEF OpenEnd

\* Other links and other flags are no other record.
LEMMA SameRecord ==
    ASSUME ChainInv, ChainInv',
           \A i \in Ids : /\ OnDisk(i)' <=> OnDisk(i)
                          /\ Open(i)' <=> Open(i)
                          /\ OnDisk(i) => /\ files'[i].prev = files[i].prev
                                          /\ files'[i].transfers = files[i].transfers
    PROVE  Recorded' = Recorded /\ OpenEnd' = OpenEnd
<1>1. {j \in Ids : OnDisk(j)}' = {j \in Ids : OnDisk(j)}
    OBVIOUS
<1>2. Recorded' = Recorded
    BY <1>1 DEF Recorded
<1>3. CASE \E i \in Ids : Open(i)
    <2>1. PICK i \in Ids : Open(i)
        BY <1>3
    <2>2. OpenEnd = i
        BY <2>1, OpenEndIsOpen
    <2>3. OpenEnd' = i
        <3>1. \A j, k \in Ids : Open(j)' /\ Open(k)' => j = k
            BY DEF ChainInv
        <3> QED  BY <2>1, <3>1 DEF OpenEnd
    <2> QED  BY <1>2, <2>2, <2>3
<1>4. CASE \A i \in Ids : ~Open(i)
    <2>1. OpenEnd = NoId
        BY <1>4, OpenEndIsOpen
    <2>2. OpenEnd' = NoId
        BY <1>4 DEF OpenEnd
    <2> QED  BY <1>2, <2>1, <2>2
<1> QED  BY <1>3, <1>4

\* The end of the log after a rename, and what is written there.
LEMMA RenamedEnd ==
    ASSUME TypeOK, FilesInv, JobInv, ChainInv', Rename, purpose # "link",
           NEW e \in Entries, NEW i \in Ids, job = e, e.id = i
    PROVE  /\ OpenEnd' = i
           /\ Recorded'[i] = [before |-> e.prev, transfers |-> e.transfers]
           /\ acked' = acked \/ acked' = acked \cup e.transfers
<1>1. files'[i] = e /\ OnDisk(i)'
    BY Renamed
<1>2. e.next = NoId
    BY DEF Rename, JobInv
<1>3. Open(i)'
    BY <1>1, <1>2 DEF Open
<1>4. \A j, k \in Ids : Open(j)' /\ Open(k)' => j = k
    BY DEF ChainInv
<1>5. OpenEnd' = i
    BY <1>3, <1>4 DEF OpenEnd
<1>6. Recorded'[i] = [before |-> e.prev, transfers |-> e.transfers]
    BY <1>1 DEF Recorded
<1>7. acked' = acked \/ acked' = acked \cup e.transfers
    BY DEF Rename, JobInv
<1> QED  BY <1>5, <1>6, <1>7

\* The link of the last entry is no record yet.
LEMMA LinkIsNoStep ==
    ASSUME TypeOK, FilesInv, JobInv, ChainInv, ChainInv', Rename, purpose = "link",
           NEW e \in Entries, NEW i \in Ids, job = e, e.id = i
    PROVE  Recorded' = Recorded /\ OpenEnd' = OpenEnd /\ acked' = acked
<1>1. /\ files'[i] = e /\ \A j \in Ids : OnDisk(j)' <=> OnDisk(j) \/ j = i
      /\ \A j \in Ids \ {i} : files'[j] = files[j]
    BY Renamed DEF TypeOK
<1>2. PICK n \in Ids : e.next = n /\ ~OnDisk(n)
    BY DEF JobInv, Unused, OnDisk, Listed
<1>3. /\ OnDisk(i) /\ files[i].next = NoId
      /\ e.prev = files[i].prev /\ e.transfers = files[i].transfers
    BY DEF JobInv
<1>4. \A j \in Ids : OnDisk(j)' <=> OnDisk(j)
    BY <1>1, <1>3
<1>5. Open(i) /\ Open(i)'
    BY <1>1, <1>2, <1>3, <1>4 DEF Open
<1>6. \A j \in Ids : Open(j)' <=> Open(j)
    BY <1>5 DEF ChainInv
<1>7. acked' = acked
    BY DEF Rename
<1>8. \A j \in Ids : OnDisk(j) => files'[j].prev = files[j].prev /\ files'[j].transfers = files[j].transfers
    BY <1>1, <1>3
<1> QED  BY <1>4, <1>6, <1>7, <1>8, SameRecord

LEMMA RenameIsStep ==
    ASSUME TypeOK, FilesInv, JobInv, ChainInv, ChainInv', Rename
    PROVE  Ledger!Next \/ UNCHANGED <<Recorded, OpenEnd, acked>>
<1>1. PICK e \in Entries : e = job /\ e.id \in Ids /\ Fits(e)
    BY JobFits DEF Rename
<1>2. PICK i \in Ids : i = e.id
    BY <1>1
<1>3. /\ files'[i] = e /\ \A j \in Ids : OnDisk(j)' <=> OnDisk(j) \/ j = i
      /\ \A j \in Ids \ {i} : files'[j] = files[j]
    BY <1>1, <1>2, Renamed DEF TypeOK
<1>4. e.transfers \in SUBSET Transfers
    BY EntryFields
<1>5. CASE purpose = "link"
    BY <1>1, <1>2, <1>5, LinkIsNoStep
<1>6. purpose # "link" =>
          /\ OpenEnd' = i
          /\ Recorded'[i] = [before |-> e.prev, transfers |-> e.transfers]
          /\ Recorded'[OpenEnd'].transfers = e.transfers
          /\ \E told \in SUBSET e.transfers : acked' = acked \cup told
    <2> SUFFICES ASSUME purpose # "link"
                 PROVE  /\ OpenEnd' = i
                        /\ Recorded'[i] = [before |-> e.prev, transfers |-> e.transfers]
                        /\ Recorded'[OpenEnd'].transfers = e.transfers
                        /\ \E told \in SUBSET e.transfers : acked' = acked \cup told
        OBVIOUS
    <2>1. /\ OpenEnd' = i
          /\ Recorded'[i] = [before |-> e.prev, transfers |-> e.transfers]
          /\ acked' = acked \/ acked' = acked \cup e.transfers
        BY <1>1, <1>2, RenamedEnd
    <2>2. Recorded'[OpenEnd'].transfers = e.transfers
        BY <2>1
    <2>3. \E told \in SUBSET e.transfers : acked' = acked \cup told
        <3>1. acked = acked \cup {} /\ {} \in SUBSET e.transfers /\ e.transfers \in SUBSET e.transfers
            OBVIOUS
        <3>2. acked' = acked \cup {} \/ acked' = acked \cup e.transfers
            BY <2>1, <3>1
        <3> QED  BY <3>1, <3>2
    <2> QED  BY <2>1, <2>2, <2>3
<1>7. CASE purpose # "link" /\ OnDisk(i)
    <2>1. files[i].transfers \subseteq e.transfers /\ files[i].prev = e.prev /\ files[i].next = NoId
        BY <1>1, <1>2, <1>7, JobIsOpenEnd DEF Fits, Rename
    <2>2. OpenEnd = i
        BY <1>7, <2>1, OpenEndIsOpen DEF Open
    <2>3. {j \in Ids : OnDisk(j)}' = {j \in Ids : OnDisk(j)}
        BY <1>3, <1>7
    <2>4. i \in DOMAIN Recorded /\ DOMAIN Recorded' = DOMAIN Recorded
        BY <1>7, <2>3 DEF Recorded
    <2>5. \A j \in DOMAIN Recorded \ {i} : Recorded'[j] = Recorded[j]
        BY <1>3, <1>7 DEF Recorded
    <2>6. Recorded[i] = [before |-> e.prev, transfers |-> files[i].transfers]
        BY <1>7, <2>1, RecordedFields
    <2>7. files[i].transfers \cup e.transfers = e.transfers
        BY <2>1
    <2>8. [Recorded[i] EXCEPT !.transfers = @ \cup e.transfers] = Recorded'[i]
        BY <1>6, <1>7, <2>6, <2>7
    <2>9. Recorded' = [Recorded EXCEPT ![i].transfers = @ \cup e.transfers]
        <3> DEFINE r == Recorded
                   s == Recorded'
        <3>1. r = [j \in DOMAIN r |-> r[j]] /\ s = [j \in DOMAIN s |-> s[j]]
            BY DEF Recorded
        <3> HIDE DEF r, s
        <3>2. DOMAIN r = DOMAIN s /\ i \in DOMAIN r
            BY <2>4 DEF r, s
        <3>3. /\ \A j \in DOMAIN r \ {i} : s[j] = r[j]
              /\ s[i] = [r[i] EXCEPT !.transfers = @ \cup e.transfers]
            BY <2>5, <2>8 DEF r, s
        <3>4. s = [r EXCEPT ![i].transfers = @ \cup e.transfers]
            BY <3>1, <3>2, <3>3
        <3> QED  BY <3>4 DEF r, s
    <2>10. Ledger!RecordTransfers
        BY <1>4, <1>6, <1>7, <2>2, <2>4, <2>9 DEF Ledger!RecordTransfers, Ledger!Acknowledge
    <2> QED  BY <2>10 DEF Ledger!Next
<1>8. CASE purpose # "link" /\ ~OnDisk(i)
    <2>1. OpenEnd = e.prev
        <3>1. CASE e.prev = NoId
            <4>1. \A j \in Ids : ~OnDisk(j)
                BY <1>1, <1>2, <1>8, <3>1 DEF Fits, Listed, OnDisk
            <4> QED  BY <3>1, <4>1, OpenEndIsOpen DEF Open
        <3>2. CASE e.prev # NoId
            <4>1. OnDisk(e.prev) /\ files[e.prev].next = i /\ e.prev \in Ids
                BY <1>1, <1>2, <1>8, <3>2, EntryFields DEF Fits
            <4> QED  BY <1>8, <4>1, OpenEndIsOpen DEF Open
        <3> QED  BY <3>1, <3>2
    <2>2. DOMAIN Recorded' = DOMAIN Recorded \cup {i} /\ i \in Ids \ DOMAIN Recorded
        BY <1>3, <1>8 DEF Recorded
    <2>3. \A j \in DOMAIN Recorded : Recorded'[j] = Recorded[j]
        BY <1>3, <1>8 DEF Recorded
    <2>4. Recorded' = [j \in DOMAIN Recorded \cup {i} |->
                         IF j = i THEN [before |-> OpenEnd, transfers |-> e.transfers] ELSE Recorded[j]]
        <3> DEFINE s == Recorded'
        <3>1. s = [j \in DOMAIN s |-> s[j]]
            BY DEF Recorded
        <3>2. DOMAIN s = DOMAIN Recorded \cup {i}
            BY <2>2
        <3>3. \A j \in DOMAIN s :
                s[j] = IF j = i THEN [before |-> OpenEnd, transfers |-> e.transfers] ELSE Recorded[j]
            BY <1>6, <1>8, <2>1, <2>2, <2>3
        <3> HIDE DEF s
        <3>4. s = [j \in DOMAIN Recorded \cup {i} |->
                     IF j = i THEN [before |-> OpenEnd, transfers |-> e.transfers] ELSE Recorded[j]]
            BY <3>1, <3>2, <3>3
        <3> QED  BY <3>4 DEF s
    <2>5. Ledger!AppendEntry
        BY <1>4, <1>6, <1>8, <2>2, <2>4 DEF Ledger!AppendEntry, Ledger!Acknowledge
    <2> QED  BY <2>5 DEF Ledger!Next
<1> QED  BY <1>5, <1>7, <1>8

LEMMA LedgerStep ==
    ASSUME IInv, IInv', [Next]_vars
    PROVE  Ledger!Next \/ UNCHANGED <<Recorded, OpenEnd, acked>>
<1> USE DEF IInv
<1>1. CASE Rename
    BY <1>1, RenameIsStep
<1>2. CASE SortOutByHand
    <2>1. \A i \in Ids : OnDisk(i)' <=> OnDisk(i)
        BY <1>2, SortedOut
    <2>2. \A i \in Ids : Open(i)' <=> Open(i)
        <3> SUFFICES ASSUME NEW i \in Ids, OnDisk(i) PROVE Open(i)' <=> Open(i)
            BY <2>1 DEF Open
        <3>1. files[i].next \in Ids \cup {NoId}
            BY EntryFields DEF TypeOK, OnDisk
        <3>2. files'[i].next = IF files[i].next # NoId /\ ~OnDisk(files[i].next)
                               THEN NoId ELSE files[i].next
            BY <1>2, SortedOut
        <3> QED  BY <2>1, <3>1, <3>2 DEF Open
    <2>3. \A i \in Ids : OnDisk(i) => /\ files'[i].prev = files[i].prev
                                       /\ files'[i].transfers = files[i].transfers
        BY <1>2, SortedOut
    <2> QED  BY <1>2, <2>1, <2>2, <2>3, SameRecord DEF SortOutByHand
<1>3. CASE ~Rename /\ ~SortOutByHand
    <2>1. UNCHANGED <<files, acked>>
        BY <1>3 DEF Next, StartRefused, StartExisting, StartFirst, StartNext, AddTransfer,
                    CompleteBackup, MarkBackupIncomplete, AmendTransfer, WriteTemp, FlushFails,
                    Stop, vars, disk
    <2>2. \A i \in Ids : (OnDisk(i)' <=> OnDisk(i)) /\ (Open(i)' <=> Open(i))
        BY <2>1 DEF OnDisk, Open
    <2> QED  BY <2>1, <2>2, SameRecord
<1> QED  BY <1>1, <1>2, <1>3

\* backup_log.rs:167, 175-177 and 215: whatever fails or is cut short, the files are a log that
\* is only appended to. Every step is a step of AppendOnlyLog or leaves its state alone.
THEOREM KeepsTheLog == Spec => ImplementsLog
<1>1. Init => Ledger!Init
    <2> SUFFICES ASSUME Init PROVE Ledger!Init
        OBVIOUS
    <2>1. \A i \in Ids : ~OnDisk(i) /\ ~Open(i)
        BY DEF Init, OnDisk, Open
    <2>2. {j \in Ids : OnDisk(j)} = {}
        BY <2>1
    <2>3. Recorded = [i \in {} |-> NoId]
        BY <2>2 DEF Recorded
    <2>4. OpenEnd = NoId
        BY <2>1 DEF OpenEnd
    <2> QED  BY <2>3, <2>4 DEF Init, Ledger!Init
<1>2. IInv /\ IInv' /\ [Next]_vars => [Ledger!Next]_(Ledger!logVars)
    BY LedgerStep DEF Ledger!logVars
<1> HIDE DEF IInv
<1> QED  BY <1>1, <1>2, Invariance, PTL DEF Spec, ImplementsLog, Ledger!Spec
=============================================================================
