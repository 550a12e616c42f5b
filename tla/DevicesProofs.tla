----------------------------- MODULE DevicesProofs -----------------------------
(***************************************************************************)
(* Theorems about Devices: its types, what is saved of the user's answers, *)
(* and that the mount entries follow what is plugged in.                   *)
(***************************************************************************)
EXTENDS Devices, FiniteSetTheorems, SequenceTheorems, WellFoundedInduction, TLAPS

-----------------------------------------------------------------------------
(* Names *)

\* A set of positions has a first one.
LEMMA FirstExists ==
    ASSUME NEW n \in Nat, NEW S \in SUBSET (1..n), S # {}
    PROVE  \E x \in S : \A y \in S : x <= y
<1> DEFINE up == {1..i : i \in S}
           wf == StrictSubsetOrdering(1..n)
<1>1. IsFiniteSet(1..n)
    BY FS_Interval
<1>2. FiniteSubsetsOf(1..n) = SUBSET (1..n)
    BY <1>1, FS_FiniteSubsetsOfFinite
<1>3. IsWellFoundedOn(wf, SUBSET (1..n))
    BY <1>2, FS_StrictSubsetOrderingWellFounded
<1>4. up \subseteq SUBSET (1..n) /\ up # {}
    <2>1. \A i \in S : 1..i \in SUBSET (1..n)
        OBVIOUS
    <2> QED  BY <2>1, Zenon
<1>5. PICK m \in up : \A u \in up : <<u, m>> \notin wf
    <2> HIDE DEF up, wf
    <2> QED  BY <1>3, <1>4, WFMin, Zenon
<1>6. PICK x \in S : m = 1..x
    BY Zenon
<1>7. ASSUME NEW y \in S, y < x
      PROVE  FALSE
    <2>1. 1..y \subseteq 1..x /\ 1..y # 1..x
        <3>1. x \in 1..x /\ x \notin 1..y
            BY <1>7
        <3> QED  BY <3>1, <1>7
    <2>2. 1..y \in up /\ 1..y \in SUBSET (1..n) /\ 1..x \in SUBSET (1..n)
        <3>1. 1..y \in up
            BY Zenon
        <3> QED  BY <3>1
    <2>3. <<1..y, 1..x>> \in wf
        BY <2>1, <2>2 DEF StrictSubsetOrdering
    <2> QED  BY <1>5, <1>6, <2>2, <2>3
<1> QED  BY <1>7

\* The names of a device, and what they are drawn from.
LEMMA NamesOfDevices ==
    ASSUME NEW d \in Devices
    PROVE  Names[d] \in Seq(ByIdNames) /\ Range(Names[d]) \subseteq ByIdNames
<1>1. Names[d] \in Seq(ByIdNames)
    BY DevicesAssumption DEF DevicesAssumption
<1> QED  BY <1>1 DEF Range

\* A device that is let in has a name to let it in under.
LEMMA AllowedNameIsName ==
    ASSUME NEW d \in Devices, DeviceFilter(d) = "allowed"
    PROVE  AllowedName(d) \in Range(Names[d]) /\ AllowedName(d) \in ByIdNames
<1>1. Names[d] \in Seq(ByIdNames) /\ Range(Names[d]) \subseteq ByIdNames
    BY NamesOfDevices
<1>2. PICK name \in Range(Names[d]) : Listed(name, runtime)
    BY Zenon DEF DeviceFilter
<1>3. PICK i \in DOMAIN Names[d] : Names[d][i] = name
    BY DEF Range
<1>4. AllowedNames(d) # {} /\ AllowedNames(d) \in SUBSET (1..Len(Names[d]))
    <2>1. i \in AllowedNames(d)
        BY <1>2, <1>3, Zenon DEF AllowedNames
    <2>2. DOMAIN Names[d] = 1..Len(Names[d])
        BY <1>1
    <2> QED  BY <2>1, <2>2, Zenon DEF AllowedNames
<1>5. \E x \in AllowedNames(d) : \A y \in AllowedNames(d) : x <= y
    <2>1. Len(Names[d]) \in Nat
        BY <1>1
    <2> QED  BY <1>4, <2>1, FirstExists, Zenon
<1>6. Min(AllowedNames(d)) \in AllowedNames(d)
    BY <1>5 DEF Min
<1>7. Min(AllowedNames(d)) \in DOMAIN Names[d]
    BY <1>6 DEF AllowedNames
<1> QED  BY <1>1, <1>7 DEF AllowedName, Range

LEMMA FirstNameIsName ==
    ASSUME NEW d \in Devices, Names[d] # <<>>
    PROVE  FirstName(d) \in Range(Names[d]) /\ FirstName(d) \in ByIdNames
<1>1. Names[d] \in Seq(ByIdNames) /\ Range(Names[d]) \subseteq ByIdNames
    BY NamesOfDevices
<1>2. 1 \in DOMAIN Names[d]
    BY <1>1
<1> QED  BY <1>1, <1>2 DEF FirstName, Range

\* A device that is asked about has a name.
LEMMA UnknownHasName ==
    ASSUME NEW d, DeviceFilter(d) = "unknown"
    PROVE  Names[d] # <<>>
BY Zenon DEF DeviceFilter

\* Only answers and a new start change how devices are classified.
LEMMA ClassificationStays ==
    ASSUME UNCHANGED memory, NEW d
    PROVE  /\ (DeviceFilter(d))' = DeviceFilter(d)
           /\ (AllowedName(d))' = AllowedName(d)
<1>1. lists' = lists /\ runtime' = runtime
    BY DEF memory
<1> QED  BY <1>1, Zenon DEF DeviceFilter, IsIgnored, Listed, Matches, AllowedName, AllowedNames

-----------------------------------------------------------------------------
(* Types *)

LEMMA ListsGrow ==
    ASSUME NEW l \in Lists, NEW name \in ByIdNames
    PROVE  /\ NoLists \in Lists
           /\ [l EXCEPT !.allow = @ \cup {name}] \in Lists
           /\ [l EXCEPT !.ignore = @ \cup {name}] \in Lists
BY DEF Lists, NoLists

LEMMA EditsAreNames == Edits \subseteq ByIdNames
BY DEF ByIdNames

\* The answer to a question goes on a list, under a name.
LEMMA AnswerIsName ==
    ASSUME QueuesTypeOK, pc \notin {"down", "creating", "listening", "ready"}
    PROVE  /\ asked \in Devices /\ FirstName(asked) \in ByIdNames
           /\ FirstName(asked) \in Range(Names[asked])
<1>1. asked \in Devices /\ Names[asked] # <<>>
    BY DEF QueuesTypeOK
<1> QED  BY <1>1, FirstNameIsName

LEMMA MemoryTypeNext ==
    ASSUME MemoryTypeOK, QueuesTypeOK, [Next]_vars
    PROVE  MemoryTypeOK'
<1> USE DEF MemoryTypeOK, MainSteps
<1>1. NoLists \in Lists
    BY DEF NoLists, Lists
<1>2. CASE UNCHANGED vars
    BY <1>2 DEF vars
<1>3. CASE FillFile \/ ReadFile \/ CreateFile
    <2>1. file \in Lists => file.allow \in SUBSET ByIdNames
        BY DEF Lists
    <2>2. NoLists.allow \in SUBSET ByIdNames
        BY DEF NoLists
    <2> QED  BY <1>1, <1>3, <2>1, <2>2 DEF FillFile, ReadFile, CreateFile, Opened, memory
<1>4. CASE Scan \/ \E d \in Devices : StartupMount(d) \/ StartupAsk(d)
    BY <1>4 DEF Scan, StartupMount, StartupAsk, disk, memory
<1>5. CASE HandleEvent
    BY <1>5 DEF HandleEvent, AddAllowed, AddUnknown, AddOther, RemoveConnected, RemoveOther,
        disk, memory
<1>6. CASE \E node \in Range(Node) : Mounts(node)
    BY <1>6 DEF Mounts, MountThread, disk, memory
<1>7. CASE Answer
    <2>1. pc = "asking"
        BY <1>7 DEF Answer, AnswerAllow, AnswerIgnoreAlways, AnswerAllowOnce, AnswerIgnore
    <2>2. FirstName(asked) \in ByIdNames
        BY <2>1, AnswerIsName
    <2>3. Listing("allow") \in Lists /\ Listing("ignore") \in Lists
        BY <2>2, ListsGrow DEF Listing
    <2> QED  BY <1>7, <2>2, <2>3
            DEF Answer, AnswerAllow, AnswerIgnoreAlways, AnswerAllowOnce, AnswerIgnore, disk,
                memory
<1>8. CASE Save
    BY <1>8 DEF Save, WriteTemp, RenameTemp, SaveFails, Answered, memory
<1>9. CASE Stop
    BY <1>1, <1>9 DEF Stop, disk
<1>10. CASE \E d \in Devices : Plug(d) \/ Unplug(d)
    BY <1>10 DEF Plug, Unplug, disk, memory
<1>11. CASE \E name \in Edits : Edit(name)
    <2>1. PICK name \in Edits : Edit(name)
        BY <1>11
    <2>2. file' \in Lists
        BY <2>1, EditsAreNames, ListsGrow DEF Edit
    <2> QED  BY <2>1, <2>2 DEF Edit, memory
<1> QED
    BY <1>2, <1>3, <1>4, <1>5, <1>6, <1>7, <1>8, <1>9, <1>10, <1>11, Zenon DEF Next, MainLoop

LEMMA QueuedTypes ==
    ASSUME QueuesTypeOK, NEW action \in {"add", "remove"}, NEW d \in Devices, Queued(action, d)
    PROVE  events' \in Seq(Event)
<1>1. [action |-> action, device |-> d] \in Event
    BY DEF Event
<1>2. events \in Seq(Event)
    BY DEF QueuesTypeOK
<1>3. Append(events, [action |-> action, device |-> d]) \in Seq(Event)
    BY <1>1, <1>2
<1> QED  BY <1>2, <1>3, Zenon DEF Queued

\* The event at the head of the queue.
LEMMA HeadTypes ==
    ASSUME QueuesTypeOK, events # <<>>
    PROVE  /\ Head(events).device \in Devices /\ Head(events).action \in {"add", "remove"}
           /\ Tail(events) \in Seq(Event)
<1>1. events \in Seq(Event)
    BY DEF QueuesTypeOK
<1>2. Head(events) \in Event /\ Tail(events) \in Seq(Event)
    BY <1>1, HeadTailProperties
<1> QED  BY <1>2 DEF Event

LEMMA QueuesTypeNext ==
    ASSUME QueuesTypeOK, ClassifiedInv, [Next]_vars
    PROVE  QueuesTypeOK'
<1> USE DEF QueuesTypeOK
<1>0. NoDevice \notin Devices
    BY NothingAssumption DEF NothingAssumption
<1>1. CASE UNCHANGED vars
    BY <1>1 DEF vars
<1>2. CASE FillFile \/ ReadFile \/ CreateFile
    BY <1>2 DEF FillFile, ReadFile, CreateFile, Opened
<1>3. CASE Scan
    <2>1. startup' \in [mount : SUBSET Devices, ask : SUBSET Devices]
        BY <1>3 DEF Scan
    <2> QED  BY <1>3, <2>1 DEF Scan
<1>4. CASE \E d \in Devices : StartupMount(d) \/ StartupAsk(d)
    <2>1. PICK d \in Devices : StartupMount(d) \/ StartupAsk(d)
        BY <1>4
    <2>2. startup' \in [mount : SUBSET Devices, ask : SUBSET Devices]
        BY <2>1 DEF StartupMount, StartupAsk
    <2>3. StartupAsk(d) => Names[d] # <<>>
        BY DEF StartupAsk, ClassifiedInv
    <2> QED  BY <1>0, <2>1, <2>2, <2>3 DEF StartupMount, StartupAsk
<1>5. CASE HandleEvent
    <2>1. events # <<>>
        BY <1>5 DEF HandleEvent, AddAllowed, AddUnknown, AddOther, RemoveConnected, RemoveOther
    <2>2. AddUnknown => Names[Head(events).device] # <<>>
        BY UnknownHasName DEF AddUnknown
    <2> QED  BY <1>0, <1>5, <2>1, <2>2, HeadTypes
            DEF HandleEvent, AddAllowed, AddUnknown, AddOther, RemoveConnected, RemoveOther, Idle
<1>6. CASE \E node \in Range(Node) : Mounts(node)
    BY <1>6 DEF Mounts, MountThread
<1>7. CASE Answer
    BY <1>7 DEF Answer, AnswerAllow, AnswerIgnoreAlways, AnswerAllowOnce, AnswerIgnore
<1>8. CASE Save
    BY <1>8 DEF Save, WriteTemp, RenameTemp, SaveFails, Answered
<1>9. CASE Stop
    BY <1>9 DEF Stop, NoStartup
<1>10. CASE \E d \in Devices : Plug(d) \/ Unplug(d)
    <2>1. PICK d \in Devices : Plug(d) \/ Unplug(d)
        BY <1>10
    <2>2. events' \in Seq(Event)
        BY <2>1, QueuedTypes DEF Plug, Unplug
    <2> QED  BY <2>1, <2>2 DEF Plug, Unplug
<1>11. CASE \E name \in Edits : Edit(name)
    BY <1>11 DEF Edit
<1> QED
    BY <1>1, <1>2, <1>3, <1>4, <1>5, <1>6, <1>7, <1>8, <1>9, <1>10, <1>11, Zenon
        DEF Next, MainLoop

\* Letting a device in under one of its names keeps the types.
LEMMA StartedTypes ==
    ASSUME MountsTypeOK, NEW d \in Devices, NEW name \in ByIdNames
    PROVE  Started(Node[d], name) \in SUBSET Entry
<1>1. Node[d] \in Range(Node)
    BY DevicesAssumption DEF DevicesAssumption, Range
<1>2. [node |-> Node[d], name |-> name, holds |-> Mounting] \in Entry
    BY <1>1 DEF Entry
<1> QED  BY <1>2 DEF Started, MountsTypeOK

LEMMA AdmitTypes ==
    ASSUME MountsTypeOK, NEW d \in Devices, NEW name \in ByIdNames, Admit(d, name)
    PROVE  MountsTypeOK'
<1>1. Node[d] \in Range(Node) /\ Syspath[d] \in Range(Syspath)
    BY DevicesAssumption DEF DevicesAssumption, Range
<1>2. DOMAIN connected' = DOMAIN connected \cup {Syspath[d]}
    BY DEF Admit
<1>3. \A s \in DOMAIN connected' : connected'[s] \in [name : ByIdNames, node : Range(Node)]
    BY <1>1 DEF Admit, MountsTypeOK
<1>4. entries' \in SUBSET Entry
    BY StartedTypes DEF Admit
<1>5. picker' \in SUBSET ByIdNames
    BY DEF Admit, MountsTypeOK
<1> QED  BY <1>1, <1>2, <1>3, <1>4, <1>5 DEF MountsTypeOK

\* The scan connects the allowed devices under names of theirs.
LEMMA ScanConnects ==
    ASSUME QueuesTypeOK, Scan, NEW s \in DOMAIN connected'
    PROVE  \E d \in plugged : /\ DeviceFilter(d) = "allowed" /\ Syspath[d] = s
                              /\ connected'[s] = [name |-> AllowedName(d), node |-> Node[d]]
<1> DEFINE allowed == {d \in plugged : DeviceFilter(d) = "allowed"}
           pick == CHOOSE c \in allowed : Syspath[c] = s
<1>1. s \in {Syspath[d] : d \in allowed}
    BY DEF Scan
<1>2. pick \in allowed /\ Syspath[pick] = s
    BY <1>1, Zenon
<1>3. connected'[s] = [name |-> AllowedName(pick), node |-> Node[pick]]
    BY <1>1 DEF Scan
<1> QED  BY <1>2, <1>3

\* What a removal of a connected device leaves.
LEMMA RemovalLeaves ==
    ASSUME RemoveConnected
    PROVE  LET gone == Syspath[Head(events).device] IN
           /\ gone \in DOMAIN connected
           /\ DOMAIN connected' = DOMAIN connected \ {gone}
           /\ \A s \in DOMAIN connected' : connected'[s] = connected[s]
           /\ entries' = {e \in entries : e.node # connected[gone].node}
           /\ picker' \subseteq picker
BY DEF RemoveConnected, Restrict

LEMMA MountThreadTypes ==
    ASSUME MountsTypeOK, QueuesTypeOK, NEW e \in entries, MountThread(e)
    PROVE  entries' \in SUBSET Entry
<1>1. e \in Entry /\ entries \in SUBSET Entry
    BY DEF MountsTypeOK
<1>2. ASSUME NEW result \in Devices \cup {Broken}
      PROVE  [e EXCEPT !.holds = result] \in Entry
    BY <1>1 DEF Entry
<1>3. plugged \in SUBSET Devices
    BY DEF QueuesTypeOK
<1> QED  BY <1>1, <1>2, <1>3 DEF MountThread

LEMMA MountsTypeNext ==
    ASSUME MountsTypeOK, QueuesTypeOK, ClassifiedInv, [Next]_vars
    PROVE  MountsTypeOK'
<1>0. plugged \in SUBSET Devices
    BY DEF QueuesTypeOK
<1>1. CASE UNCHANGED devices
    BY <1>1 DEF devices, MountsTypeOK
<1>2. CASE Scan
    <2>1. \A s \in DOMAIN connected' : \E d \in Devices :
              /\ DeviceFilter(d) = "allowed" /\ Syspath[d] = s
              /\ connected'[s] = [name |-> AllowedName(d), node |-> Node[d]]
        BY <1>0, <1>2, ScanConnects
    <2>2. \A d \in Devices : Node[d] \in Range(Node) /\ Syspath[d] \in Range(Syspath)
        BY DevicesAssumption DEF DevicesAssumption, Range
    <2>3. picker' \in SUBSET ByIdNames
        BY <1>0, <1>2, AllowedNameIsName DEF Scan
    <2>4. entries' \in SUBSET Entry
        BY <1>2 DEF Scan, MountsTypeOK
    <2>5. \A s \in DOMAIN connected' :
             s \in Range(Syspath) /\ connected'[s] \in [name : ByIdNames, node : Range(Node)]
        BY <2>1, <2>2, AllowedNameIsName
    <2> QED  BY <2>3, <2>4, <2>5 DEF MountsTypeOK
<1>3. CASE \E d \in Devices : StartupMount(d)
    <2>1. PICK d \in Devices : StartupMount(d)
        BY <1>3
    <2>2. AllowedName(d) \in ByIdNames
        BY <2>1, AllowedNameIsName DEF StartupMount, ClassifiedInv
    <2>3. entries' \in SUBSET Entry
        BY <2>1, <2>2, StartedTypes DEF StartupMount
    <2> QED  BY <2>1, <2>3 DEF StartupMount, MountsTypeOK
<1>4. CASE AddAllowed
    <2>1. Head(events).device \in Devices
        BY <1>4, HeadTypes DEF AddAllowed
    <2>2. AllowedName(Head(events).device) \in ByIdNames
        BY <1>4, <2>1, AllowedNameIsName DEF AddAllowed
    <2> QED  BY <1>4, <2>1, <2>2, AdmitTypes DEF AddAllowed
<1>5. CASE RemoveConnected
    BY <1>5, RemovalLeaves DEF MountsTypeOK
<1>6. CASE \E node \in Range(Node) : Mounts(node)
    <2>1. PICK e \in entries : MountThread(e)
        BY <1>6 DEF Mounts
    <2>2. entries' \in SUBSET Entry
        BY <2>1, MountThreadTypes
    <2> QED  BY <2>1, <2>2 DEF MountThread, MountsTypeOK
<1>7. CASE AnswerAllowOnce \/ RenameTemp \/ SaveFails
    <2>1. asked \in Devices /\ FirstName(asked) \in ByIdNames
        BY <1>7, AnswerIsName DEF AnswerAllowOnce, RenameTemp, SaveFails
    <2>2. CASE Admit(asked, FirstName(asked))
        BY <2>1, <2>2, AdmitTypes
    <2> QED  BY <1>1, <1>7, <2>2 DEF AnswerAllowOnce, RenameTemp, SaveFails, Answered
<1>8. CASE Stop
    BY <1>8 DEF Stop, NobodyConnected, MountsTypeOK
<1> QED
    BY <1>1, <1>2, <1>3, <1>4, <1>5, <1>6, <1>7, <1>8
        DEF Next, MainLoop, HandleEvent, Answer, Save, vars, devices, FillFile, ReadFile,
            CreateFile, Opened, StartupAsk, AddUnknown, AddOther, RemoveOther, AnswerAllow,
            AnswerIgnoreAlways, AnswerIgnore, WriteTemp, Plug, Unplug, Edit

-----------------------------------------------------------------------------
(* The base of the invariant *)

LEMMA DownNext ==
    ASSUME DownInv, QueuesTypeOK, [Next]_vars
    PROVE  DownInv'
<1> USE DEF DownInv
<1>1. CASE UNCHANGED vars
    BY <1>1 DEF vars, NoStartup, NobodyConnected
<1>2. CASE FillFile \/ ReadFile \/ CreateFile \/ Scan
    BY <1>2 DEF FillFile, ReadFile, CreateFile, Scan, Opened, memory, devices
<1>3. CASE \E d \in Devices : StartupMount(d) \/ StartupAsk(d)
    BY <1>3 DEF StartupMount, StartupAsk
<1>4. CASE HandleEvent
    BY <1>4 DEF HandleEvent, AddAllowed, AddUnknown, AddOther, RemoveConnected, RemoveOther, Idle
<1>5. CASE \E node \in Range(Node) : Mounts(node)
    BY <1>5 DEF Mounts, MountThread, memory
<1>6. CASE Answer \/ Save
    BY <1>6 DEF Answer, AnswerAllow, AnswerIgnoreAlways, AnswerAllowOnce, AnswerIgnore, Save,
        WriteTemp, RenameTemp, SaveFails, Answered
<1>7. CASE Stop
    BY <1>7 DEF Stop
<1>8. CASE \E d \in Devices : Plug(d) \/ Unplug(d)
    BY <1>8 DEF Plug, Unplug, Queued, Listening, memory, devices
<1>9. CASE \E name \in Edits : Edit(name)
    BY <1>9 DEF Edit, memory, devices
<1> QED
    BY <1>1, <1>2, <1>3, <1>4, <1>5, <1>6, <1>7, <1>8, <1>9, Zenon DEF Next, MainLoop

LEMMA ClassifiedNext ==
    ASSUME ClassifiedInv, DownInv, QueuesTypeOK, [Next]_vars
    PROVE  ClassifiedInv'
<1>1. CASE UNCHANGED <<startup, asked, lists, runtime>>
    BY <1>1, ClassificationStays DEF ClassifiedInv, memory
<1>2. CASE FillFile \/ ReadFile \/ CreateFile
    <2>1. startup' = NoStartup /\ asked' = NoDevice
        BY <1>2 DEF DownInv, QueuesTypeOK, FillFile, ReadFile, CreateFile, Opened
    <2> QED  BY <2>1 DEF NoStartup, ClassifiedInv
<1>3. CASE Scan
    <2>1. UNCHANGED memory /\ asked' = NoDevice
        BY <1>3 DEF Scan, QueuesTypeOK
    <2>2. \A d \in startup'.mount : DeviceFilter(d) = "allowed"
        BY <1>3 DEF Scan
    <2>3. \A d \in startup'.ask : DeviceFilter(d) = "unknown"
        BY <1>3 DEF Scan
    <2> QED  BY <2>1, <2>2, <2>3, ClassificationStays, UnknownHasName DEF ClassifiedInv
<1>4. CASE \E d \in Devices : StartupMount(d)
    <2>1. UNCHANGED memory /\ asked' = NoDevice
        BY <1>4 DEF StartupMount, QueuesTypeOK
    <2>2. startup'.mount \subseteq startup.mount /\ startup'.ask = startup.ask
        BY <1>4 DEF StartupMount, QueuesTypeOK
    <2> QED  BY <2>1, <2>2, ClassificationStays DEF ClassifiedInv
<1>5. CASE \E d \in Devices : StartupAsk(d)
    BY <1>5 DEF StartupAsk, QueuesTypeOK, ClassifiedInv
<1>6. CASE AddUnknown
    BY <1>6 DEF AddUnknown, Idle, NoStartup, ClassifiedInv
<1>7. CASE Answer \/ Save
    <2>1. asked # NoDevice /\ startup' = startup
        BY <1>7 DEF QueuesTypeOK, Answer, AnswerAllow, AnswerIgnoreAlways, AnswerAllowOnce,
            AnswerIgnore, Save, WriteTemp, RenameTemp, SaveFails, Answered
    <2> QED  BY <2>1 DEF ClassifiedInv
<1>8. CASE Stop
    BY <1>8 DEF Stop, NoStartup, ClassifiedInv
<1> QED
    BY <1>1, <1>2, <1>3, <1>4, <1>5, <1>6, <1>7, <1>8
        DEF Next, MainLoop, HandleEvent, vars, memory, AddAllowed, AddOther, RemoveConnected,
            RemoveOther, Mounts, MountThread, Plug, Unplug, Edit

LEMMA BaseInit == Init => BaseInv
<1>1. NoLists \in Lists /\ FirstFiles \subseteq Lists \cup {Absent, Partial}
    BY FirstFilesAssumption DEF FirstFilesAssumption, NoLists, Lists
<1> QED  BY <1>1
        DEF Init, BaseInv, TypeOK, MemoryTypeOK, QueuesTypeOK, MountsTypeOK, MainSteps, NoStartup,
            NobodyConnected, DownInv, ClassifiedInv

LEMMA BaseNext ==
    ASSUME BaseInv, [Next]_vars
    PROVE  BaseInv'
BY MemoryTypeNext, QueuesTypeNext, MountsTypeNext, DownNext, ClassifiedNext DEF BaseInv, TypeOK

\* In every state the variables have their types, whatever is plugged in, answered and edited
\* (the lists, the files, the queue of events, the maps and entries of main.rs).
THEOREM TypeCorrect == Spec => []TypeOK
<1>1. BaseInv /\ [Next]_vars => BaseInv'
    BY BaseNext
<1>2. BaseInv => TypeOK
    BY DEF BaseInv
<1> QED  BY BaseInit, <1>1, <1>2, PTL DEF Spec

-----------------------------------------------------------------------------
(* What is saved *)

LEMMA SavedNext ==
    ASSUME SavedInv, BaseInv, [Next]_vars
    PROVE  SavedInv'
<1> USE DEF SavedInv
<1>0. /\ lists \in Lists /\ pc \in MainSteps
      /\ Absent \notin Lists /\ Partial \notin Lists /\ Partial # Absent
    BY NothingAssumption DEF NothingAssumption, BaseInv, TypeOK, MemoryTypeOK
<1>1. CASE UNCHANGED <<file, temp, lists, pc>>
    BY <1>1
<1>2. CASE FillFile \/ ReadFile \/ CreateFile
    <2>1. NoLists \in Lists
        BY DEF NoLists, Lists
    <2> QED  BY <1>2, <2>1 DEF FillFile, ReadFile, CreateFile, Opened
<1>3. CASE Scan \/ AddUnknown \/ \E d \in Devices : StartupAsk(d)
    BY <1>3 DEF Scan, AddUnknown, StartupAsk, Idle, disk, memory
<1>4. CASE Answer
    <2>1. lists.allow \subseteq lists'.allow
        BY <1>0, <1>4 DEF Lists, Answer, AnswerAllow, AnswerIgnoreAlways, AnswerAllowOnce,
            AnswerIgnore, Listing, memory
    <2> QED  BY <1>4, <2>1 DEF Answer, AnswerAllow, AnswerIgnoreAlways, AnswerAllowOnce,
            AnswerIgnore, disk
<1>5. CASE Save
    BY <1>0, <1>5 DEF Save, WriteTemp, RenameTemp, SaveFails, Answered, memory
<1>6. CASE Stop
    BY <1>6 DEF Stop
<1>7. CASE \E name \in Edits : Edit(name)
    <2>1. PICK name \in Edits : Edit(name)
        BY <1>7
    <2>2. file \in Lists /\ file' \in Lists /\ file'.allow = file.allow
        BY <2>1, EditsAreNames DEF Edit, Lists
    <2> QED  BY <1>0, <2>1, <2>2 DEF Edit, memory
<1> QED
    BY <1>1, <1>2, <1>3, <1>4, <1>5, <1>6, <1>7
        DEF Next, MainLoop, HandleEvent, vars, disk, memory, StartupMount, AddAllowed, AddOther,
            RemoveConnected, RemoveOther, Mounts, MountThread, Plug, Unplug

LEMMA SavedInit == Init => SavedInv
BY DEF Init, SavedInv

\* What was allowed for one session never reaches the configuration file or the file about to
\* replace it (write_config_atomically is given allow_device_list, not the runtime list).
THEOREM OnceNotSaved == Spec => []OnceIsNotSaved
<1>1. BaseInv /\ SavedInv /\ [Next]_vars => (BaseInv /\ SavedInv)'
    BY BaseNext, SavedNext
<1>2. BaseInv /\ SavedInv => OnceIsNotSaved
    BY DEF BaseInv, SavedInv, DownInv, OnceIsNotSaved
<1> QED  BY BaseInit, SavedInit, <1>1, <1>2, PTL DEF Spec

LEMMA IgnoredInit == Init => IgnoredInv
BY DEF Init, IgnoredInv

\* Nobody adds to the file's ignore list behind a running program.
LEMMA IgnoredNext ==
    ASSUME IgnoredInv, SavedInv, BaseInv, ~EditsWhileUp, [Next]_vars
    PROVE  IgnoredInv'
<1> USE DEF IgnoredInv
<1>0. lists \in Lists /\ pc \in MainSteps
    BY DEF BaseInv, TypeOK, MemoryTypeOK
<1>1. CASE UNCHANGED <<file, lists, pc>>
    BY <1>1
<1>2. CASE FillFile \/ ReadFile \/ CreateFile
    BY <1>2 DEF FillFile, ReadFile, CreateFile, Opened
<1>3. CASE Scan \/ AddUnknown \/ \E d \in Devices : StartupAsk(d)
    BY <1>3 DEF Scan, AddUnknown, StartupAsk, Idle, disk, memory
<1>4. CASE Answer
    <2>1. lists.ignore \subseteq lists'.ignore
        BY <1>0, <1>4 DEF Lists, Answer, AnswerAllow, AnswerIgnoreAlways, AnswerAllowOnce,
            AnswerIgnore, Listing, memory
    <2> QED  BY <1>4, <2>1 DEF Answer, AnswerAllow, AnswerIgnoreAlways, AnswerAllowOnce,
            AnswerIgnore, disk
<1>5. CASE Save
    BY <1>5 DEF Save, WriteTemp, RenameTemp, SaveFails, Answered, memory, SavedInv
<1>6. CASE Stop \/ \E name \in Edits : Edit(name)
    BY <1>6 DEF Stop, Edit
<1> QED
    BY <1>1, <1>2, <1>3, <1>4, <1>5, <1>6
        DEF Next, MainLoop, HandleEvent, vars, disk, memory, StartupMount, AddAllowed, AddOther,
            RemoveConnected, RemoveOther, Mounts, MountThread, Plug, Unplug

LEMMA DecisionsNext ==
    ASSUME IgnoredInv, SavedInv, BaseInv, [Next]_vars, file \in Lists
    PROVE  KeepsDecisions(file, file')
<1>0. NoLists \in Lists /\ lists \in Lists /\ Absent \notin Lists /\ Partial \notin Lists
    BY NothingAssumption
        DEF NothingAssumption, NoLists, Lists, BaseInv, TypeOK, MemoryTypeOK
<1>1. CASE UNCHANGED file
    BY <1>1 DEF KeepsDecisions
<1>2. CASE FillFile \/ CreateFile
    BY <1>0, <1>2 DEF FillFile, CreateFile, SavedInv
<1>3. CASE RenameTemp
    BY <1>0, <1>3 DEF RenameTemp, SavedInv, IgnoredInv, KeepsDecisions
<1>4. CASE \E name \in Edits : Edit(name)
    <2>1. PICK name \in Edits : Edit(name)
        BY <1>4
    <2>2. /\ file' \in Lists /\ file'.allow = file.allow
          /\ file'.ignore = file.ignore \cup {name}
        BY <2>1, EditsAreNames DEF Edit, Lists
    <2> QED  BY <2>2 DEF KeepsDecisions
<1> QED
    BY <1>1, <1>2, <1>3, <1>4
        DEF Next, MainLoop, HandleEvent, Save, Answer, vars, disk, memory, ReadFile, Scan,
            StartupMount, StartupAsk, AddAllowed, AddUnknown, AddOther, RemoveConnected,
            RemoveOther, AnswerAllow, AnswerIgnoreAlways, AnswerAllowOnce, AnswerIgnore,
            WriteTemp, SaveFails, Stop, Mounts, MountThread, Plug, Unplug

\* A complete configuration file stays complete and keeps every decision in it, over saves,
\* failed saves, kills and restarts, as long as nobody edits it while the program runs
\* (write_config_atomically writes the lists in memory, which were read at startup).
THEOREM DecisionsKept ==
    ASSUME ~EditsWhileUp
    PROVE  Spec => DecisionsStay
<1> DEFINE Inv == BaseInv /\ SavedInv /\ IgnoredInv
<1>1. Init => Inv
    BY BaseInit, SavedInit, IgnoredInit
<1>2. Inv /\ [Next]_vars => Inv'
    BY BaseNext, SavedNext, IgnoredNext
<1>3. Inv /\ [Next]_vars => [(file \in Lists) => KeepsDecisions(file, file')]_vars
    BY DecisionsNext
<1> QED  BY <1>1, <1>2, <1>3, PTL DEF Spec, DecisionsStay

-----------------------------------------------------------------------------
(* What is plugged in *)

\* A removal in the queue stays there but when it is handled.
LEMMA QueuedKeeps ==
    ASSUME QueuesTypeOK, NEW action \in {"add", "remove"}, NEW d \in Devices,
           Queued(action, d), NEW i \in DOMAIN events
    PROVE  i \in DOMAIN events' /\ events'[i] = events[i]
<1>1. events \in Seq(Event) /\ [action |-> action, device |-> d] \in Event
    BY DEF QueuesTypeOK, Event
<1> QED  BY <1>1 DEF Queued

LEMMA TailKeeps ==
    ASSUME QueuesTypeOK, events # <<>>, events' = Tail(events), NEW i \in DOMAIN events, i # 1
    PROVE  i - 1 \in DOMAIN events' /\ events'[i - 1] = events[i]
<1>1. events \in Seq(Event)
    BY DEF QueuesTypeOK
<1> QED  BY <1>1

LEMMA TailIsKept ==
    ASSUME QueuesTypeOK, events # <<>>, events' = Tail(events), NEW i \in DOMAIN events'
    PROVE  i \in Nat /\ i + 1 \in DOMAIN events /\ i + 1 # 1 /\ events'[i] = events[i + 1]
<1>1. events \in Seq(Event)
    BY DEF QueuesTypeOK
<1> QED  BY <1>1

\* The removal of another device does not take a removal out of the queue.
LEMMA LeavingAfterTail ==
    ASSUME QueuesTypeOK, events # <<>>, events' = Tail(events), NEW d \in Devices,
           Leaving(d), Head(events) # Removal(d)
    PROVE  Leaving(d)'
<1>1. PICK i \in DOMAIN events : events[i] = Removal(d)
    BY DEF Leaving
<1>2. events \in Seq(Event) /\ Head(events) = events[1]
    BY DEF QueuesTypeOK
<1>3. i # 1
    BY <1>1, <1>2
<1>4. i - 1 \in DOMAIN events' /\ events'[i - 1] = Removal(d)
    BY <1>1, <1>3, TailKeeps
<1> QED  BY <1>4, Zenon DEF Leaving, Removal

LEMMA LeavingAfterQueued ==
    ASSUME QueuesTypeOK, NEW action \in {"add", "remove"}, NEW c \in Devices,
           Queued(action, c), NEW d \in Devices, Leaving(d)
    PROVE  Leaving(d)'
<1>1. PICK i \in DOMAIN events : events[i] = Removal(d)
    BY DEF Leaving
<1>2. i \in DOMAIN events' /\ events'[i] = Removal(d)
    BY <1>1, QueuedKeeps
<1> QED  BY <1>2, Zenon DEF Leaving, Removal

\* What is unplugged while the monitor listens is going to be told of.
LEMMA UnpluggedIsLeaving ==
    ASSUME QueuesTypeOK, ~Lossy, Listening, NEW d \in Devices, Unplug(d)
    PROVE  /\ Len(events) + 1 \in DOMAIN events' /\ events'[Len(events) + 1] = Removal(d)
           /\ Leaving(d)'
<1>1. events \in Seq(Event) /\ Removal(d) \in Event
    BY DEF QueuesTypeOK, Event, Removal
<1>2. events' = Append(events, Removal(d))
    BY DEF Unplug, Queued, Removal
<1>3. Len(events) + 1 \in DOMAIN events' /\ events'[Len(events) + 1] = Removal(d)
    BY <1>1, <1>2
<1> QED  BY <1>3, Zenon DEF Leaving, Removal

\* A device the program turns to stays plugged in or on its way out, whatever is plugged in
\* or unplugged.
LEMMA StillHereStays ==
    ASSUME QueuesTypeOK, ~Lossy, Listening, NEW c \in Devices, Plug(c) \/ Unplug(c),
           NEW d \in Devices, StillHere(d)
    PROVE  StillHere(d)'
<1>1. CASE Leaving(d)
    <2>1. Leaving(d)'
        BY <1>1, LeavingAfterQueued DEF Plug, Unplug
    <2> QED  BY <2>1 DEF StillHere
<1>2. CASE d \in plugged /\ Plug(c)
    BY <1>2 DEF StillHere, Plug
<1>3. CASE d \in plugged /\ Unplug(c)
    <2>1. CASE d = c
        BY <1>3, <2>1, UnpluggedIsLeaving DEF StillHere
    <2>2. CASE d # c
        BY <1>3, <2>2 DEF StillHere, Unplug
    <2> QED  BY <2>1, <2>2
<1> QED  BY <1>1, <1>2, <1>3 DEF StillHere

\* The device of an event at the head is plugged in or has its removal behind it.
LEMMA HeadIsStillHere ==
    ASSUME QueuesTypeOK, AnnouncedInv, events # <<>>, Head(events).action = "add",
           events' = Tail(events), UNCHANGED plugged,
           NEW d \in Devices, d = Head(events).device
    PROVE  StillHere(d)'
<1>1. events \in Seq(Event) /\ 1 \in DOMAIN events /\ Head(events) = events[1]
    BY DEF QueuesTypeOK
<1>2. CASE d \in plugged
    BY <1>2 DEF StillHere
<1>3. CASE d \notin plugged
    <2>1. PICK j \in DOMAIN events : j > 1 /\ events[j] = Removal(d)
        BY <1>1, <1>3 DEF AnnouncedInv
    <2>2. j - 1 \in DOMAIN events' /\ events'[j - 1] = Removal(d)
        BY <2>1, TailKeeps
    <2> QED  BY <2>2, Zenon DEF StillHere, Leaving, Removal
<1> QED  BY <1>2, <1>3

LEMMA AnnouncedNext ==
    ASSUME AnnouncedInv, BaseInv, ~Lossy, [Next]_vars
    PROVE  AnnouncedInv'
<1>0. QueuesTypeOK
    BY DEF BaseInv, TypeOK
<1> DEFINE Told(i) == \/ events[i].device \in plugged
                     \/ \E j \in DOMAIN events : j > i /\ events[j] = Removal(events[i].device)
<1>1. CASE UNCHANGED <<events, plugged>>
    BY <1>1 DEF AnnouncedInv, Removal
<1>2. CASE Stop
    <2>1. DOMAIN events' = {}
        BY <1>2 DEF Stop
    <2> QED  BY <2>1 DEF AnnouncedInv
<1>3. CASE HandleEvent
    <2>1. events # <<>> /\ events' = Tail(events) /\ UNCHANGED plugged
        BY <1>3 DEF HandleEvent, AddAllowed, AddUnknown, AddOther, RemoveConnected, RemoveOther
    <2>2. SUFFICES ASSUME NEW i \in DOMAIN events', events'[i].action = "add"
                   PROVE  Told(i)'
        BY DEF AnnouncedInv
    <2>3. i \in Nat /\ i + 1 \in DOMAIN events /\ i + 1 # 1 /\ events'[i] = events[i + 1]
        BY <1>0, <2>1, TailIsKept
    <2>4. CASE events[i + 1].device \in plugged
        BY <2>1, <2>3, <2>4
    <2>5. CASE events[i + 1].device \notin plugged
        <3>1. PICK j \in DOMAIN events :
                  j > i + 1 /\ events[j] = Removal(events[i + 1].device)
            BY <2>2, <2>3, <2>5 DEF AnnouncedInv
        <3>2. j \in Nat
            BY <1>0 DEF QueuesTypeOK
        <3>3. j # 1 /\ j - 1 > i
            BY <2>3, <3>1, <3>2
        <3>4. j - 1 \in DOMAIN events' /\ events'[j - 1] = events[j]
            BY <1>0, <2>1, <3>3, TailKeeps
        <3> QED  BY <2>3, <3>1, <3>3, <3>4 DEF Removal
    <2> QED  BY <2>4, <2>5
<1>4. CASE \E d \in Devices : Plug(d) \/ Unplug(d)
    <2>1. PICK d \in Devices : Plug(d) \/ Unplug(d)
        BY <1>4
    <2>2. CASE ~Listening
        <3>1. events' = <<>>
            BY <2>1, <2>2 DEF Plug, Unplug, Queued, Listening, BaseInv, DownInv
        <3> QED  BY <3>1 DEF AnnouncedInv
    <2>3. CASE Listening
        <3> SUFFICES ASSUME NEW i \in DOMAIN events', events'[i].action = "add"
                     PROVE  Told(i)'
            BY DEF AnnouncedInv
        <3>1. events \in Seq(Event)
            BY <1>0 DEF QueuesTypeOK
        <3>2. CASE i \in DOMAIN events
            <4>1. events'[i] = events[i] /\ events[i].action = "add" /\ Told(i)
                BY <1>0, <2>1, <3>2, QueuedKeeps DEF Plug, Unplug, AnnouncedInv
            <4>2. CASE events[i].device \in plugged'
                BY <4>1, <4>2
            <4>3. CASE events[i].device \in plugged /\ events[i].device \notin plugged'
                <5>1. Unplug(d) /\ events[i].device = d
                    BY <2>1, <4>3 DEF Plug, Unplug
                <5>2. /\ Len(events) + 1 \in DOMAIN events'
                      /\ events'[Len(events) + 1] = Removal(d)
                    BY <1>0, <2>3, <5>1, UnpluggedIsLeaving
                <5>3. Len(events) + 1 > i
                    BY <3>1, <3>2
                <5> QED  BY <4>1, <5>1, <5>2, <5>3 DEF Removal
            <4>4. CASE events[i].device \notin plugged
                <5>1. PICK j \in DOMAIN events : j > i /\ events[j] = Removal(events[i].device)
                    BY <4>1, <4>4
                <5>2. j \in DOMAIN events' /\ events'[j] = events[j]
                    BY <1>0, <2>1, QueuedKeeps DEF Plug, Unplug
                <5> QED  BY <4>1, <5>1, <5>2 DEF Removal
            <4> QED  BY <4>2, <4>3, <4>4
        <3>3. CASE i \notin DOMAIN events
            <4>1. Plug(d) /\ events'[i] = [action |-> "add", device |-> d]
                <5>1. CASE Plug(d)
                    BY <3>1, <3>3, <5>1 DEF Plug, Queued, Event
                <5>2. CASE Unplug(d)
                    BY <3>1, <3>3, <5>2 DEF Unplug, Queued, Event
                <5> QED  BY <2>1, <5>1, <5>2
            <4> QED  BY <4>1 DEF Plug
        <3> QED  BY <3>2, <3>3
    <2> QED  BY <2>2, <2>3
<1> QED
    BY <1>1, <1>2, <1>3, <1>4
        DEF Next, MainLoop, Save, Answer, vars, FillFile, ReadFile, CreateFile, Opened, Scan,
            StartupMount, StartupAsk, AnswerAllow, AnswerIgnoreAlways, AnswerAllowOnce,
            AnswerIgnore, WriteTemp, RenameTemp, SaveFails, Answered, Mounts, MountThread, Edit

LEMMA OnePerNodeNext ==
    ASSUME OnePerNode, [Next]_vars
    PROVE  OnePerNode'
<1>1. CASE UNCHANGED plugged
    BY <1>1 DEF OnePerNode
<1>2. CASE \E d \in Devices : Plug(d) \/ Unplug(d)
    BY <1>2 DEF OnePerNode, Plug, Unplug
<1> QED
    BY <1>1, <1>2
        DEF Next, MainLoop, HandleEvent, Save, Answer, vars, FillFile, ReadFile, CreateFile,
            Opened, Scan, StartupMount, StartupAsk, AddAllowed, AddUnknown, AddOther,
            RemoveConnected, RemoveOther, AnswerAllow, AnswerIgnoreAlways, AnswerAllowOnce,
            AnswerIgnore, WriteTemp, RenameTemp, SaveFails, Answered, Mounts, MountThread, Edit,
            Stop

\* Letting a device in connects its syspath to its node, and leaves the other ones alone.
LEMMA AdmitConnects ==
    ASSUME ConnectedInv, NEW d \in Devices, NEW name, Admit(d, name)
    PROVE  /\ ConnectedInv'
           /\ Syspath[d] \in DOMAIN connected' /\ connected'[Syspath[d]].node = Node[d]
           /\ \A s \in DOMAIN connected :
                 s \in DOMAIN connected' /\ connected'[s].node = connected[s].node
<1>1. DOMAIN connected' = DOMAIN connected \cup {Syspath[d]}
    BY DEF Admit
<1>2. \A s \in DOMAIN connected' : connected'[s] = IF s = Syspath[d]
                                                  THEN [name |-> name, node |-> Node[d]]
                                                  ELSE connected[s]
    BY DEF Admit
<1>3. \A c \in Devices : Syspath[c] = Syspath[d] => Node[c] = Node[d]
    BY DevicesAssumption DEF DevicesAssumption
<1>4. connected'[Syspath[d]].node = Node[d]
    BY <1>1, <1>2
<1>5. ConnectedInv'
    <2> SUFFICES ASSUME NEW s \in DOMAIN connected'
                 PROVE  \E c \in Devices : Syspath[c] = s /\ connected'[s].node = Node[c]
        BY DEF ConnectedInv
    <2>1. CASE s = Syspath[d]
        BY <1>4, <2>1
    <2>2. CASE s # Syspath[d]
        BY <1>1, <1>2, <2>2 DEF ConnectedInv
    <2> QED  BY <2>1, <2>2
<1>6. ASSUME NEW s \in DOMAIN connected
      PROVE  s \in DOMAIN connected' /\ connected'[s].node = connected[s].node
    <2>1. CASE s = Syspath[d]
        <3>1. PICK c \in Devices : Syspath[c] = s /\ connected[s].node = Node[c]
            BY DEF ConnectedInv
        <3> QED  BY <1>1, <1>3, <1>4, <2>1, <3>1
    <2>2. CASE s # Syspath[d]
        BY <1>1, <1>2, <2>2
    <2> QED  BY <2>1, <2>2
<1> QED  BY <1>1, <1>4, <1>5, <1>6

LEMMA ConnectedNext ==
    ASSUME ConnectedInv, BaseInv, [Next]_vars
    PROVE  ConnectedInv'
<1>0. QueuesTypeOK
    BY DEF BaseInv, TypeOK
<1>1. CASE UNCHANGED connected
    BY <1>1 DEF ConnectedInv
<1>2. CASE Scan
    <2>1. plugged \in SUBSET Devices
        BY <1>0 DEF QueuesTypeOK
    <2> QED  BY <1>0, <1>2, <2>1, ScanConnects DEF ConnectedInv
<1>3. CASE AddAllowed
    BY <1>0, <1>3, HeadTypes, AdmitConnects DEF AddAllowed
<1>4. CASE RemoveConnected
    BY <1>4, RemovalLeaves DEF ConnectedInv
<1>5. CASE AnswerAllowOnce \/ RenameTemp \/ SaveFails
    <2>1. asked \in Devices
        BY <1>0, <1>5, AnswerIsName DEF AnswerAllowOnce, RenameTemp, SaveFails
    <2>2. CASE Admit(asked, FirstName(asked))
        BY <2>1, <2>2, AdmitConnects
    <2> QED
        BY <1>1, <1>5, <2>2 DEF AnswerAllowOnce, RenameTemp, SaveFails, Answered, devices
<1>6. CASE Stop
    BY <1>6 DEF Stop, NobodyConnected, ConnectedInv
<1> QED
    BY <1>1, <1>2, <1>3, <1>4, <1>5, <1>6
        DEF Next, MainLoop, HandleEvent, Save, Answer, vars, devices, FillFile, ReadFile,
            CreateFile, Opened, StartupMount, StartupAsk, AddUnknown, AddOther, RemoveOther,
            AnswerAllow, AnswerIgnoreAlways, AnswerIgnore, WriteTemp, Mounts, MountThread, Plug,
            Unplug, Edit

LEMMA StartupNext ==
    ASSUME StartupInv, AnnouncedInv, BaseInv, ~Lossy, [Next]_vars
    PROVE  StartupInv'
<1>0. QueuesTypeOK
    BY DEF BaseInv, TypeOK
<1>1. CASE UNCHANGED <<startup, asked, plugged, events, connected>>
    BY <1>1 DEF StartupInv, StillHere, Leaving, Removal
<1>2. CASE FillFile \/ ReadFile \/ CreateFile \/ Stop
    <2>1. startup' = NoStartup /\ asked' = NoDevice
        BY <1>0, <1>2 DEF FillFile, ReadFile, CreateFile, Stop, Opened, BaseInv, DownInv,
            QueuesTypeOK
    <2> QED  BY <2>1 DEF NoStartup, StartupInv
<1>3. CASE Scan
    <2>1. startup'.mount \subseteq plugged' /\ startup'.ask \subseteq plugged'
        BY <1>3 DEF Scan
    <2>2. \A d \in startup'.mount : Syspath[d] \in DOMAIN connected'
        BY <1>3 DEF Scan
    <2>3. asked' = NoDevice
        BY <1>0, <1>3 DEF Scan, QueuesTypeOK
    <2> QED  BY <2>1, <2>2, <2>3 DEF StartupInv, StillHere
<1>4. CASE \E d \in Devices : StartupMount(d) \/ StartupAsk(d)
    <2>1. PICK d \in Devices : StartupMount(d) \/ StartupAsk(d)
        BY <1>4
    <2>2. \A c \in Devices : StillHere(c) => StillHere(c)'
        BY <2>1 DEF StartupMount, StartupAsk, StillHere, Leaving, Removal
    <2>3. /\ startup'.mount \subseteq startup.mount /\ startup'.ask \subseteq startup.ask
          /\ asked' = NoDevice \/ asked' \in startup.ask
          /\ UNCHANGED connected
        BY <1>0, <2>1 DEF StartupMount, StartupAsk, QueuesTypeOK, devices
    <2>4. startup.mount \subseteq Devices /\ startup.ask \subseteq Devices
        BY <1>0 DEF QueuesTypeOK
    <2> QED  BY <2>2, <2>3, <2>4 DEF StartupInv
<1>5. CASE HandleEvent
    <2>1. /\ events # <<>> /\ events' = Tail(events) /\ UNCHANGED plugged
          /\ startup' = NoStartup
        BY <1>5 DEF HandleEvent, AddAllowed, AddUnknown, AddOther, RemoveConnected, RemoveOther,
            Idle
    <2>2. CASE asked' = NoDevice
        BY <2>1, <2>2 DEF StartupInv, NoStartup
    <2>3. CASE AddUnknown
        <3>1. Head(events).device \in Devices
            BY <1>0, <2>1, HeadTypes
        <3>2. PICK d \in Devices : d = Head(events).device
            BY <3>1
        <3>3. StillHere(d)'
            BY <1>0, <2>1, <2>3, <3>2, HeadIsStillHere DEF AddUnknown
        <3>4. asked' = d
            BY <2>3, <3>2 DEF AddUnknown
        <3> QED  BY <2>1, <3>3, <3>4 DEF StartupInv, NoStartup, StillHere, Leaving, Removal
    <2>4. asked' = NoDevice \/ AddUnknown
        BY <1>0, <1>5 DEF HandleEvent, AddAllowed, AddOther, RemoveConnected, RemoveOther, Idle,
            QueuesTypeOK
    <2> QED  BY <2>2, <2>3, <2>4
<1>6. CASE Answer \/ Save
    <2>1. /\ UNCHANGED <<startup, plugged, events>> /\ asked' \in {asked, NoDevice}
          /\ asked # NoDevice
        BY <1>0, <1>6 DEF QueuesTypeOK, Answer, AnswerAllow, AnswerIgnoreAlways,
            AnswerAllowOnce, AnswerIgnore, Save, WriteTemp, RenameTemp, SaveFails, Answered
    <2>2. startup.mount = {}
        BY <2>1 DEF BaseInv, ClassifiedInv
    <2> QED  BY <2>1, <2>2 DEF StartupInv, StillHere, Leaving, Removal
<1>7. CASE \E d \in Devices : Plug(d) \/ Unplug(d)
    <2>1. PICK d \in Devices : Plug(d) \/ Unplug(d)
        BY <1>7
    <2>2. UNCHANGED <<startup, asked, connected>>
        BY <2>1 DEF Plug, Unplug, devices
    <2>3. CASE ~Listening
        <3>1. startup = NoStartup /\ asked = NoDevice
            BY <1>0, <2>3 DEF Listening, BaseInv, DownInv, QueuesTypeOK
        <3> QED  BY <2>2, <3>1 DEF NoStartup, StartupInv
    <2>4. CASE Listening
        <3>1. \A c \in Devices : StillHere(c) => StillHere(c)'
            BY <1>0, <2>1, <2>4, StillHereStays
        <3>2. startup.mount \subseteq Devices /\ startup.ask \subseteq Devices
              /\ asked \in Devices \cup {NoDevice}
            BY <1>0 DEF QueuesTypeOK
        <3> QED  BY <2>2, <3>1, <3>2 DEF StartupInv
    <2> QED  BY <2>3, <2>4
<1> QED
    BY <1>1, <1>2, <1>3, <1>4, <1>5, <1>6, <1>7
        DEF Next, MainLoop, vars, devices, Mounts, MountThread, Edit

\* Every connected syspath goes with one node.
LEMMA NodeOfConnected ==
    ASSUME ConnectedInv, NEW d \in Devices, Syspath[d] \in DOMAIN connected
    PROVE  connected[Syspath[d]].node = Node[d]
BY DevicesAssumption DEF DevicesAssumption, ConnectedInv

\* An entry keeps its device when the maps only grow and no removal is handled.
LEMMA FollowsStays ==
    ASSUME NEW e, Follows(e),
           \A s \in DOMAIN connected :
               s \in DOMAIN connected' /\ connected'[s].node = connected[s].node,
           plugged \subseteq plugged',
           \A d \in Devices : Leaving(d) => Leaving(d)'
    PROVE  Follows(e)'
BY DEF Follows

\* The entry of a mount that starts is that of a device the program turns to.
LEMMA StartedFollows ==
    ASSUME ConnectedInv', NEW d \in Devices, NEW name \in Range(Names[d]),
           Syspath[d] \in DOMAIN connected', StillHere(d)', UNCHANGED plugged,
           entries' = Started(Node[d], name), \A e \in entries : Follows(e)'
    PROVE  EntriesInv'
<1> DEFINE new == [node |-> Node[d], name |-> name, holds |-> Mounting]
<1>1. connected'[Syspath[d]].node = Node[d]
    BY DevicesAssumption DEF DevicesAssumption, ConnectedInv
<1>2. entries' \subseteq entries \cup {new}
    BY DEF Started
<1>3. new.node = Node[d] /\ new.name = name /\ new.holds = Mounting
    OBVIOUS
<1>4. Follows(new)'
    BY <1>1, <1>3 DEF Follows, StillHere
<1> QED  BY <1>2, <1>4 DEF EntriesInv

LEMMA AdmitFollows ==
    ASSUME ConnectedInv, EntriesInv, NEW d \in Devices, NEW name \in Range(Names[d]),
           Admit(d, name), StillHere(d)', UNCHANGED plugged,
           \A c \in Devices : Leaving(c) => Leaving(c)'
    PROVE  EntriesInv'
<1>1. \A e \in entries : Follows(e)'
    BY AdmitConnects, FollowsStays DEF EntriesInv
<1>2. ConnectedInv' /\ Syspath[d] \in DOMAIN connected'
    BY AdmitConnects
<1>3. entries' = Started(Node[d], name)
    BY DEF Admit
<1> QED  BY <1>1, <1>2, <1>3, StartedFollows

\* A handled removal takes the entries at its device's node with it, and the others wait for
\* the removals of other places.
LEMMA RemovalFollows ==
    ASSUME EntriesInv, QueuesTypeOK, RemoveConnected \/ RemoveOther
    PROVE  EntriesInv'
<1> DEFINE gone == Syspath[Head(events).device]
<1>1. events # <<>> /\ events' = Tail(events) /\ UNCHANGED plugged
    BY DEF RemoveConnected, RemoveOther
<1>2. entries' \subseteq entries
    BY RemovalLeaves DEF RemoveOther, devices
<1>3. SUFFICES ASSUME NEW e \in entries'
               PROVE  Follows(e)'
    BY DEF EntriesInv
<1>4. PICK s \in DOMAIN connected :
          /\ connected[s].node = e.node
          /\ \/ \E d \in Devices : Syspath[d] = s /\ Leaving(d)
             \/ \E d \in plugged : /\ Syspath[d] = s /\ e.name \in Range(Names[d])
                                   /\ e.holds \in {d, Mounting, Broken}
    BY <1>2 DEF EntriesInv, Follows
<1>5. s # gone
    <2>1. CASE RemoveConnected
        BY <1>4, <2>1, RemovalLeaves
    <2>2. CASE RemoveOther
        BY <1>4, <2>2 DEF RemoveOther
    <2> QED  BY <2>1, <2>2
<1>6. s \in DOMAIN connected' /\ connected'[s] = connected[s]
    BY <1>5, RemovalLeaves DEF RemoveOther, devices
<1>7. ASSUME NEW d \in Devices, Syspath[d] = s, Leaving(d)
      PROVE  Leaving(d)'
    <2>1. Head(events) # Removal(d)
        BY <1>5, <1>7 DEF Removal
    <2> QED  BY <1>1, <1>7, <2>1, LeavingAfterTail
<1> QED  BY <1>1, <1>4, <1>6, <1>7 DEF Follows

\* What a mount thread finds at its node is the device its entry follows.
LEMMA MountFollows ==
    ASSUME EntriesInv, ConnectedInv, OnePerNode, QueuesTypeOK, NEW e \in entries,
           MountThread(e), MountsTypeOK
    PROVE  EntriesInv'
<1>1. UNCHANGED <<plugged, connected, events>>
    BY DEF MountThread
<1>2. SUFFICES ASSUME NEW f \in entries'
               PROVE  Follows(f)
    BY <1>1 DEF EntriesInv, Follows, Leaving, Removal
<1>3. CASE f \in entries
    BY <1>3 DEF EntriesInv
<1>4. CASE f \notin entries
    <2>1. PICK result \in {d \in plugged : Node[d] = e.node} \cup {Broken} :
              f = [e EXCEPT !.holds = result]
        BY <1>4 DEF MountThread
    <2>2. e \in Entry
        BY DEF MountsTypeOK
    <2>3. f.node = e.node /\ f.name = e.name /\ f.holds = result
        BY <2>1, <2>2 DEF Entry
    <2>4. PICK s \in DOMAIN connected :
              /\ connected[s].node = e.node
              /\ \/ \E d \in Devices : Syspath[d] = s /\ Leaving(d)
                 \/ \E d \in plugged : /\ Syspath[d] = s /\ e.name \in Range(Names[d])
                                       /\ e.holds \in {d, Mounting, Broken}
        BY DEF EntriesInv, Follows
    <2>5. CASE \E d \in Devices : Syspath[d] = s /\ Leaving(d)
        BY <2>3, <2>4, <2>5 DEF Follows
    <2>6. ASSUME NEW d \in plugged, Syspath[d] = s, e.name \in Range(Names[d])
          PROVE  Follows(f)
        <3>1. d \in Devices
            BY DEF QueuesTypeOK
        <3>2. Node[d] = e.node
            BY <2>4, <2>6, <3>1, NodeOfConnected
        <3>3. result \in {d, Broken}
            BY <2>1, <3>2 DEF OnePerNode
        <3> QED  BY <2>3, <2>4, <2>6, <3>3 DEF Follows
    <2> QED  BY <2>4, <2>5, <2>6
<1> QED  BY <1>3, <1>4

LEMMA EntriesNext ==
    ASSUME EntriesInv, StartupInv, ConnectedInv, AnnouncedInv, OnePerNode, BaseInv, ~Lossy,
           [Next]_vars
    PROVE  EntriesInv'
<1>0. QueuesTypeOK /\ MountsTypeOK /\ ConnectedInv'
    BY ConnectedNext DEF BaseInv, TypeOK
<1>1. CASE UNCHANGED <<entries, connected, plugged, events>>
    BY <1>1 DEF EntriesInv, Follows, Leaving, Removal
<1>2. CASE FillFile \/ ReadFile \/ CreateFile \/ Scan \/ Stop
    <2>1. entries' = {}
        BY <1>2 DEF FillFile, ReadFile, CreateFile, Opened, Scan, Stop, devices, BaseInv, DownInv
    <2> QED  BY <2>1 DEF EntriesInv
<1>3. CASE \E d \in Devices : StartupMount(d)
    <2>1. PICK d \in Devices : StartupMount(d)
        BY <1>3
    <2>2. /\ UNCHANGED <<plugged, connected, events>> /\ d \in startup.mount
          /\ entries' = Started(Node[d], AllowedName(d))
        BY <2>1 DEF StartupMount
    <2>3. AllowedName(d) \in Range(Names[d])
        BY <2>2, AllowedNameIsName DEF BaseInv, ClassifiedInv
    <2>4. StillHere(d)' /\ Syspath[d] \in DOMAIN connected'
        BY <2>2 DEF StartupInv, StillHere, Leaving, Removal
    <2>5. \A e \in entries : Follows(e)'
        BY <2>2 DEF EntriesInv, Follows, Leaving, Removal
    <2> QED  BY <1>0, <2>2, <2>3, <2>4, <2>5, StartedFollows
<1>4. CASE AddAllowed \/ AddUnknown \/ AddOther
    <2>1. /\ events # <<>> /\ events' = Tail(events) /\ UNCHANGED plugged
          /\ Head(events).action = "add"
        BY <1>4 DEF AddAllowed, AddUnknown, AddOther
    <2>2. \A c \in Devices : Leaving(c) => Leaving(c)'
        <3>1. \A c \in Devices : Head(events) # Removal(c)
            BY <2>1 DEF Removal
        <3> QED  BY <1>0, <2>1, <3>1, LeavingAfterTail
    <2>3. CASE AddAllowed
        <3>1. PICK d \in Devices : d = Head(events).device
            BY <1>0, <2>1, HeadTypes
        <3>2. Admit(d, AllowedName(d)) /\ AllowedName(d) \in Range(Names[d])
            BY <2>3, <3>1, AllowedNameIsName DEF AddAllowed
        <3>3. StillHere(d)'
            BY <1>0, <2>1, <3>1, HeadIsStillHere
        <3> QED  BY <2>1, <2>2, <3>2, <3>3, AdmitFollows
    <2>4. CASE UNCHANGED devices
        BY <2>1, <2>2, <2>4, FollowsStays DEF EntriesInv, devices
    <2> QED  BY <1>4, <2>3, <2>4 DEF AddUnknown, AddOther
<1>5. CASE RemoveConnected \/ RemoveOther
    BY <1>0, <1>5, RemovalFollows
<1>6. CASE AnswerAllowOnce \/ RenameTemp \/ SaveFails
    <2>1. asked \in Devices /\ FirstName(asked) \in Range(Names[asked])
        BY <1>0, <1>6, AnswerIsName DEF AnswerAllowOnce, RenameTemp, SaveFails
    <2>2. PICK d \in Devices : d = asked
        BY <2>1
    <2>3. UNCHANGED <<plugged, events>>
        BY <1>6 DEF AnswerAllowOnce, RenameTemp, SaveFails, Answered
    <2>4. asked # NoDevice
        BY <2>1, NothingAssumption DEF NothingAssumption
    <2>5. StillHere(d)' /\ \A c \in Devices : Leaving(c) => Leaving(c)'
        BY <2>2, <2>3, <2>4 DEF StartupInv, StillHere, Leaving, Removal
    <2>6. CASE Admit(asked, FirstName(asked))
        BY <2>1, <2>2, <2>3, <2>5, <2>6, AdmitFollows
    <2>7. CASE UNCHANGED devices
        BY <1>1, <2>3, <2>7 DEF devices
    <2> QED  BY <1>6, <2>6, <2>7 DEF AnswerAllowOnce, RenameTemp, SaveFails, Answered
<1>7. CASE \E node \in Range(Node) : Mounts(node)
    <2>1. PICK e \in entries : MountThread(e)
        BY <1>7 DEF Mounts
    <2> QED  BY <1>0, <2>1, MountFollows
<1>8. CASE \E d \in Devices : Plug(d) \/ Unplug(d)
    <2>1. PICK d \in Devices : Plug(d) \/ Unplug(d)
        BY <1>8
    <2>2. UNCHANGED devices
        BY <2>1 DEF Plug, Unplug
    <2>3. CASE ~Listening
        BY <2>2, <2>3 DEF Listening, BaseInv, DownInv, EntriesInv, devices
    <2>4. CASE Listening
        <3>1. \A c \in Devices : Leaving(c) => Leaving(c)'
            BY <1>0, <2>1, LeavingAfterQueued DEF Plug, Unplug
        <3>2. CASE Plug(d)
            BY <2>2, <3>1, <3>2, FollowsStays DEF Plug, EntriesInv, devices
        <3>3. CASE Unplug(d)
            <4>1. Leaving(d)'
                BY <1>0, <2>4, <3>3, UnpluggedIsLeaving
            <4>2. plugged' = plugged \ {d}
                BY <3>3 DEF Unplug
            <4>3. ASSUME NEW e \in entries
                  PROVE  Follows(e)'
                BY <2>2, <3>1, <4>1, <4>2 DEF EntriesInv, Follows, devices
            <4> QED  BY <2>2, <4>3 DEF EntriesInv, devices
        <3> QED  BY <2>1, <3>2, <3>3
    <2> QED  BY <2>3, <2>4
<1> QED
    BY <1>1, <1>2, <1>3, <1>4, <1>5, <1>6, <1>7, <1>8
        DEF Next, MainLoop, HandleEvent, Save, Answer, vars, devices, StartupAsk, AnswerAllow,
            AnswerIgnoreAlways, AnswerIgnore, WriteTemp, Edit

LEMMA FollowingInit ==
    Init => OnePerNode /\ AnnouncedInv /\ StartupInv /\ ConnectedInv /\ EntriesInv
<1>1. \A i : i \notin DOMAIN <<>>
    OBVIOUS
<1> QED  BY <1>1
        DEF Init, OnePerNode, AnnouncedInv, StartupInv, ConnectedInv, EntriesInv, NoStartup,
            NobodyConnected

\* As long as no event is lost, the mount entries are of the devices plugged in once everything
\* announced is handled, whatever was swapped during startup, a question, a save or a mount
\* (unmount_by_real_path, start_mount and the mount thread, from the udev events of main.rs).
THEOREM QuietEntries ==
    ASSUME ~Lossy
    PROVE  Spec => []QuietEntriesAreCurrent
<1> DEFINE Inv == /\ BaseInv /\ OnePerNode /\ AnnouncedInv
                  /\ StartupInv /\ ConnectedInv /\ EntriesInv
<1>1. Init => Inv
    BY BaseInit, FollowingInit
<1>2. Inv /\ [Next]_vars => Inv'
    BY BaseNext, OnePerNodeNext, AnnouncedNext, StartupNext, ConnectedNext, EntriesNext
<1>3. Inv => QuietEntriesAreCurrent
    <2> SUFFICES ASSUME Inv, Quiet, NEW e \in entries
                 PROVE  \E d \in plugged : /\ Node[d] = e.node /\ e.name \in Range(Names[d])
                                           /\ e.holds \in {d, Broken}
        BY DEF QuietEntriesAreCurrent
    <2>1. \A d \in Devices : ~Leaving(d)
        BY DEF Quiet, Leaving
    <2>2. PICK s \in DOMAIN connected, d \in plugged :
              /\ connected[s].node = e.node /\ Syspath[d] = s
              /\ e.name \in Range(Names[d]) /\ e.holds \in {d, Mounting, Broken}
        BY <2>1 DEF EntriesInv, Follows
    <2>3. Node[d] = e.node
        BY <2>2, NodeOfConnected DEF BaseInv, TypeOK, QueuesTypeOK
    <2> QED  BY <2>2, <2>3 DEF Quiet
<1> HIDE DEF Inv
<1> QED  BY <1>1, <1>2, <1>3, PTL DEF Spec

-----------------------------------------------------------------------------
(* What the maps tell of *)

\* What is known of a connected syspath stays true when its mapping does, removals stay in
\* the queue, and what was plugged in still is or is on its way out.
LEMMA MapsStay ==
    ASSUME MapsInv,
           \A s \in DOMAIN connected' : s \in DOMAIN connected /\ connected'[s] = connected[s],
           \A d \in Devices : Syspath[d] \in DOMAIN connected' /\ Leaving(d) => Leaving(d)',
           \A d \in plugged : d \in Devices /\ (d \in plugged' \/ Leaving(d)')
    PROVE  MapsInv'
<1> SUFFICES ASSUME NEW s \in DOMAIN connected'
             PROVE  \/ \E d \in Devices : Syspath[d] = s /\ Leaving(d)'
                    \/ \E d \in plugged' : /\ Syspath[d] = s
                                           /\ connected'[s].name \in Range(Names[d])
    BY DEF MapsInv
<1>1. s \in DOMAIN connected /\ connected'[s] = connected[s]
    OBVIOUS
<1>2. CASE \E d \in Devices : Syspath[d] = s /\ Leaving(d)
    BY <1>2
<1>3. CASE \E d \in plugged : Syspath[d] = s /\ connected[s].name \in Range(Names[d])
    BY <1>1, <1>3
<1> QED  BY <1>1, <1>2, <1>3 DEF MapsInv

\* A device that is let in under a name of its own is plugged in, or on its way out again.
LEMMA AdmitMaps ==
    ASSUME MapsInv, NEW d \in Devices, NEW name \in Range(Names[d]),
           Admit(d, name), StillHere(d)', UNCHANGED plugged,
           \A c \in Devices : Leaving(c) => Leaving(c)'
    PROVE  MapsInv'
<1>1. DOMAIN connected' = DOMAIN connected \cup {Syspath[d]}
    BY DEF Admit
<1>2. \A s \in DOMAIN connected' : connected'[s] = IF s = Syspath[d]
                                                  THEN [name |-> name, node |-> Node[d]]
                                                  ELSE connected[s]
    BY DEF Admit
<1> SUFFICES ASSUME NEW s \in DOMAIN connected'
             PROVE  \/ \E c \in Devices : Syspath[c] = s /\ Leaving(c)'
                    \/ \E c \in plugged' : /\ Syspath[c] = s
                                           /\ connected'[s].name \in Range(Names[c])
    BY DEF MapsInv
<1>3. CASE s = Syspath[d]
    <2>1. connected'[s].name = name
        BY <1>2, <1>3
    <2> QED  BY <1>3, <2>1 DEF StillHere
<1>4. CASE s # Syspath[d]
    <2>1. s \in DOMAIN connected /\ connected'[s] = connected[s]
        BY <1>1, <1>2, <1>4
    <2> QED  BY <2>1 DEF MapsInv
<1> QED  BY <1>3, <1>4

LEMMA MapsNext ==
    ASSUME MapsInv, StartupInv, AnnouncedInv, BaseInv, ~Lossy, [Next]_vars
    PROVE  MapsInv'
<1>0. QueuesTypeOK /\ plugged \subseteq Devices
    BY DEF BaseInv, TypeOK, QueuesTypeOK
<1>1. CASE UNCHANGED <<connected, plugged, events>>
    BY <1>1 DEF MapsInv, Leaving, Removal
<1>2. CASE FillFile \/ ReadFile \/ CreateFile \/ Stop
    <2>1. connected' = NobodyConnected
        BY <1>2 DEF FillFile, ReadFile, CreateFile, Opened, Stop, devices, BaseInv, DownInv
    <2> QED  BY <2>1 DEF MapsInv, NobodyConnected
<1>3. CASE Scan
    <2> SUFFICES ASSUME NEW s \in DOMAIN connected'
                 PROVE  \E d \in plugged' : /\ Syspath[d] = s
                                           /\ connected'[s].name \in Range(Names[d])
        BY DEF MapsInv
    <2>1. PICK d \in plugged : /\ DeviceFilter(d) = "allowed" /\ Syspath[d] = s
                               /\ connected'[s] = [name |-> AllowedName(d), node |-> Node[d]]
        BY <1>0, <1>3, ScanConnects
    <2>2. AllowedName(d) \in Range(Names[d])
        BY <1>0, <2>1, AllowedNameIsName
    <2>3. connected'[s].name = AllowedName(d)
        BY <2>1
    <2>4. plugged' = plugged
        BY <1>3 DEF Scan
    <2> QED  BY <2>1, <2>2, <2>3, <2>4
<1>4. CASE AddAllowed \/ AddUnknown \/ AddOther
    <2>1. /\ events # <<>> /\ events' = Tail(events) /\ UNCHANGED plugged
          /\ Head(events).action = "add"
        BY <1>4 DEF AddAllowed, AddUnknown, AddOther
    <2>2. \A c \in Devices : Leaving(c) => Leaving(c)'
        <3>1. \A c \in Devices : Head(events) # Removal(c)
            BY <2>1 DEF Removal
        <3> QED  BY <1>0, <2>1, <3>1, LeavingAfterTail
    <2>3. CASE AddAllowed
        <3>1. PICK d \in Devices : d = Head(events).device
            BY <1>0, <2>1, HeadTypes
        <3>2. Admit(d, AllowedName(d)) /\ AllowedName(d) \in Range(Names[d])
            BY <2>3, <3>1, AllowedNameIsName DEF AddAllowed
        <3>3. StillHere(d)'
            BY <1>0, <2>1, <3>1, HeadIsStillHere
        <3> QED  BY <2>1, <2>2, <3>2, <3>3, AdmitMaps
    <2>4. CASE UNCHANGED devices
        BY <1>0, <2>1, <2>2, <2>4, MapsStay DEF devices
    <2> QED  BY <1>4, <2>3, <2>4 DEF AddUnknown, AddOther
<1>5. CASE RemoveConnected \/ RemoveOther
    <2> DEFINE gone == Syspath[Head(events).device]
    <2>1. events # <<>> /\ events' = Tail(events) /\ UNCHANGED plugged
        BY <1>5 DEF RemoveConnected, RemoveOther
    <2>2. gone \notin DOMAIN connected'
        BY <1>5, RemovalLeaves DEF RemoveOther, devices
    <2>3. \A s \in DOMAIN connected' : s \in DOMAIN connected /\ connected'[s] = connected[s]
        BY <1>5, RemovalLeaves DEF RemoveOther, devices
    <2>4. ASSUME NEW d \in Devices, Syspath[d] \in DOMAIN connected', Leaving(d)
          PROVE  Leaving(d)'
        <3>1. Head(events) # Removal(d)
            BY <2>2, <2>4 DEF Removal
        <3> QED  BY <1>0, <2>1, <2>4, <3>1, LeavingAfterTail
    <2> QED  BY <1>0, <2>1, <2>3, <2>4, MapsStay
<1>6. CASE AnswerAllowOnce \/ RenameTemp \/ SaveFails
    <2>1. asked \in Devices /\ FirstName(asked) \in Range(Names[asked])
        BY <1>0, <1>6, AnswerIsName DEF AnswerAllowOnce, RenameTemp, SaveFails
    <2>2. PICK d \in Devices : d = asked
        BY <2>1
    <2>3. UNCHANGED <<plugged, events>>
        BY <1>6 DEF AnswerAllowOnce, RenameTemp, SaveFails, Answered
    <2>4. asked # NoDevice
        BY <2>1, NothingAssumption DEF NothingAssumption
    <2>5. StillHere(d)' /\ \A c \in Devices : Leaving(c) => Leaving(c)'
        BY <2>2, <2>3, <2>4 DEF StartupInv, StillHere, Leaving, Removal
    <2>6. CASE Admit(asked, FirstName(asked))
        BY <2>1, <2>2, <2>3, <2>5, <2>6, AdmitMaps
    <2>7. CASE UNCHANGED devices
        BY <1>1, <2>3, <2>7 DEF devices
    <2> QED  BY <1>6, <2>6, <2>7 DEF AnswerAllowOnce, RenameTemp, SaveFails, Answered
<1>7. CASE \E d \in Devices : Plug(d) \/ Unplug(d)
    <2>1. PICK d \in Devices : Plug(d) \/ Unplug(d)
        BY <1>7
    <2>2. UNCHANGED connected
        BY <2>1 DEF Plug, Unplug, devices
    <2>3. CASE ~Listening
        BY <2>2, <2>3 DEF Listening, BaseInv, DownInv, MapsInv, NobodyConnected
    <2>4. CASE Listening
        <3>1. \A c \in Devices : Leaving(c) => Leaving(c)'
            BY <1>0, <2>1, LeavingAfterQueued DEF Plug, Unplug
        <3>2. \A c \in plugged : c \in plugged' \/ Leaving(c)'
            <4>1. CASE Plug(d)
                BY <4>1 DEF Plug
            <4>2. CASE Unplug(d)
                BY <1>0, <2>4, <4>2, UnpluggedIsLeaving DEF Unplug
            <4> QED  BY <2>1, <4>1, <4>2
        <3> QED  BY <1>0, <2>2, <3>1, <3>2, MapsStay
    <2> QED  BY <2>3, <2>4
<1> QED
    BY <1>1, <1>2, <1>3, <1>4, <1>5, <1>6, <1>7
        DEF Next, MainLoop, HandleEvent, Save, Answer, vars, devices, StartupMount, StartupAsk,
            AnswerAllow, AnswerIgnoreAlways, AnswerIgnore, WriteTemp, Mounts, MountThread, Edit

\* A name leaves the picker only when no connected device has it.
LEMMA PickerNext ==
    ASSUME PickerInv, [Next]_vars
    PROVE  PickerInv'
<1>1. CASE UNCHANGED <<connected, picker>>
    BY <1>1 DEF PickerInv
<1>2. CASE Stop
    BY <1>2 DEF Stop, PickerInv, NobodyConnected
<1>3. CASE Scan
    <2> DEFINE allowed == {d \in plugged : DeviceFilter(d) = "allowed"}
    <2> SUFFICES ASSUME NEW s \in DOMAIN connected' PROVE connected'[s].name \in picker'
        BY DEF PickerInv
    <2> DEFINE pick == CHOOSE c \in allowed : Syspath[c] = s
    <2>1. s \in {Syspath[d] : d \in allowed}
        BY <1>3 DEF Scan
    <2>2. pick \in allowed
        BY <2>1, Zenon
    <2>3. connected'[s] = [name |-> AllowedName(pick), node |-> Node[pick]]
        BY <1>3, <2>1 DEF Scan
    <2>4. picker' = {AllowedName(d) : d \in allowed}
        BY <1>3 DEF Scan
    <2> HIDE DEF allowed, pick
    <2>5. connected'[s].name = AllowedName(pick)
        BY <2>3
    <2> QED  BY <2>2, <2>4, <2>5
<1>4. ASSUME NEW d, NEW name, Admit(d, name) PROVE PickerInv'
    <2> SUFFICES ASSUME NEW s \in DOMAIN connected' PROVE connected'[s].name \in picker'
        BY DEF PickerInv
    <2>1. connected'[s] = (IF s = Syspath[d] THEN [name |-> name, node |-> Node[d]]
                                            ELSE connected[s])
        BY <1>4 DEF Admit
    <2>2. picker' = picker \cup {name} /\ s \in DOMAIN connected \cup {Syspath[d]}
        BY <1>4 DEF Admit
    <2>3. CASE s = Syspath[d]
        BY <2>1, <2>2, <2>3
    <2>4. CASE s # Syspath[d]
        BY <2>1, <2>2, <2>4 DEF PickerInv
    <2> QED  BY <2>3, <2>4
<1>5. CASE RemoveConnected
    <2> DEFINE gone == Syspath[Head(events).device]
    <2>1. \A s \in DOMAIN connected' : s \in DOMAIN connected /\ connected'[s] = connected[s]
        BY <1>5, RemovalLeaves
    <2>2. picker' = picker \ ({connected[gone].name} \ StillConnected(connected'))
        BY <1>5 DEF RemoveConnected
    <2> SUFFICES ASSUME NEW s \in DOMAIN connected' PROVE connected'[s].name \in picker'
        BY DEF PickerInv
    <2>3. connected'[s].name \in StillConnected(connected')
        BY DEF StillConnected
    <2>4. connected'[s].name \in picker
        BY <2>1 DEF PickerInv
    <2> QED  BY <2>2, <2>3, <2>4
<1> QED
    BY <1>1, <1>2, <1>3, <1>4, <1>5
        DEF Next, MainLoop, HandleEvent, Save, Answer, vars, devices, FillFile, ReadFile,
            CreateFile, Opened, StartupMount, StartupAsk, AddAllowed, AddUnknown, AddOther,
            RemoveOther, AnswerAllow, AnswerIgnoreAlways, AnswerAllowOnce, AnswerIgnore,
            WriteTemp, RenameTemp, SaveFails, Answered, Mounts, MountThread, Plug, Unplug, Edit

\* As long as no event is lost, the maps tell of what is plugged in once everything announced
\* is handled, by names it has, and the picker lacks none of them (the maps and the picker of
\* main.rs).
THEOREM QuietMaps ==
    ASSUME ~Lossy
    PROVE  Spec => []QuietMapsAreCurrent
<1> DEFINE Inv == /\ BaseInv /\ AnnouncedInv /\ StartupInv /\ ConnectedInv
                  /\ MapsInv /\ PickerInv
<1>1. Init => Inv
    <2>1. Init => MapsInv /\ PickerInv
        BY DEF Init, MapsInv, PickerInv, NobodyConnected
    <2> QED  BY <2>1, BaseInit, FollowingInit
<1>2. Inv /\ [Next]_vars => Inv'
    BY BaseNext, AnnouncedNext, StartupNext, ConnectedNext, MapsNext, PickerNext
<1>3. Inv => QuietMapsAreCurrent
    <2> SUFFICES ASSUME Inv, Quiet
                 PROVE  \A s \in DOMAIN connected : \E d \in plugged :
                           /\ Syspath[d] = s /\ connected[s].node = Node[d]
                           /\ connected[s].name \in Range(Names[d])
        BY DEF QuietMapsAreCurrent, PickerInv
    <2> TAKE s \in DOMAIN connected
    <2>1. \A d \in Devices : ~Leaving(d)
        BY DEF Quiet, Leaving
    <2>2. PICK d \in plugged : Syspath[d] = s /\ connected[s].name \in Range(Names[d])
        BY <2>1 DEF MapsInv
    <2>3. d \in Devices
        BY DEF BaseInv, TypeOK, QueuesTypeOK
    <2>4. connected[s].node = Node[d]
        BY <2>2, <2>3, NodeOfConnected
    <2> WITNESS d \in plugged
    <2> QED  BY <2>2, <2>4
<1> HIDE DEF Inv
<1> QED  BY <1>1, <1>2, <1>3, PTL DEF Spec
=============================================================================
