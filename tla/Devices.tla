-------------------------------- MODULE Devices --------------------------------
(***************************************************************************)
(* Which devices the main loop lets in (main.rs): the allow and ignore     *)
(* lists in memory and in the configuration file, the devices found at     *)
(* startup, the hot-plug events, the question about an unknown device, and *)
(* the maps and mount entries that have to follow what is plugged in.      *)
(*                                                                         *)
(* A step is what the main loop does between two looks at what others      *)
(* change (the events, the device nodes, the answer of the user) and two   *)
(* writes to the disk. How a mount ends, and how it is taken away by a     *)
(* user or a transfer, is MountManager's subject.                          *)
(***************************************************************************)
EXTENDS Integers, SequencesExt

CONSTANTS
    Devices,       \* what may be plugged in
    Syspath,       \* the udev syspath of each device, the same for those plugged in one place
    Node,          \* its device node
    Names,         \* its links in /dev/disk/by-id, none for other block devices
    LunSegments,   \* segments of a name that contain a colon
    FirstFiles,    \* what the configuration file may be at first
    Edits,         \* names its owner may put on its ignore list by hand
    EditsWhileUp,  \* whether also while the program runs
    MaxEvents,     \* bound on the hot-plug events not handled yet
    Lossy,         \* whether the kernel drops events beyond that bound
    Absent,        \* no configuration file, or no temporary one
    Partial,       \* a file not written to its end
    NoDevice,      \* no device is asked about
    Mounting,      \* the mount thread has not finished
    Broken         \* the mount failed

\* A name is the sequence of the segments between its dashes.
ByIdNames == UNION ({Range(Names[d]) : d \in Devices} \cup {Edits} \cup
                    {f.allow \cup f.ignore : f \in FirstFiles \ {Absent, Partial}})
Lists == [allow : SUBSET ByIdNames, ignore : SUBSET ByIdNames]

ASSUME DevicesAssumption ==
    /\ DOMAIN Syspath = Devices /\ DOMAIN Node = Devices /\ Names \in [Devices -> Seq(ByIdNames)]
    /\ \A c, d \in Devices : Syspath[c] = Syspath[d] => Node[c] = Node[d]
ASSUME BoundsAssumption == MaxEvents \in Nat /\ EditsWhileUp \in BOOLEAN /\ Lossy \in BOOLEAN
ASSUME FirstFilesAssumption == FirstFiles \subseteq Lists \cup {Absent, Partial}
ASSUME NothingAssumption ==
    /\ Absent \notin Lists /\ Partial \notin Lists /\ Absent # Partial
    /\ {NoDevice, Mounting, Broken} \cap Devices = {}

VARIABLES
    pc,        \* the step of the main loop
    file,      \* the configuration file
    temp,      \* the temporary file beside it
    lists,     \* allow_device_list and ignore_device_list
    runtime,   \* runtime_allow_list
    plugged,   \* the devices plugged in
    events,    \* the hot-plug events the monitor holds
    startup,   \* the devices found at startup: those to mount, those to ask about
    asked,     \* the device the question or its answer is about
    connected, \* syspath_to_by_id and syspath_to_real_path, always changed together
    picker,    \* allowed_connected_devices
    entries    \* the mount manager's entries: node, name and the device mounted

disk == <<file, temp>>
memory == <<lists, runtime>>
devices == <<connected, picker, entries>>
vars == <<pc, file, temp, lists, runtime, plugged, events, startup, asked,
          connected, picker, entries>>

NoLists == [allow |-> {}, ignore |-> {}]
NoStartup == [mount |-> {}, ask |-> {}]
NobodyConnected == [s \in {} |-> s]

Init ==
    /\ pc = "down" /\ file \in FirstFiles /\ temp = Absent
    /\ lists = NoLists /\ runtime = {}
    /\ plugged = {} /\ events = <<>> /\ startup = NoStartup /\ asked = NoDevice
    /\ connected = NobodyConnected /\ picker = {} /\ entries = {}

-----------------------------------------------------------------------------
(* Classifying a device *)

\* device_name_matches: an entry without a colon also covers the names it begins.
Matches(name, entry) ==
    \/ name = entry
    \/ Range(entry) \cap LunSegments = {} /\ IsStrictPrefix(entry, name)

Listed(name, list) == \E entry \in list : Matches(name, entry)
IsIgnored(d) == \E name \in Range(Names[d]) : Listed(name, lists.ignore)

\* device_filter: the ignore list wins.
DeviceFilter(d) ==
    CASE Names[d] = <<>>                                 -> "none"
      [] IsIgnored(d)                                    -> "ignored"
      [] \E name \in Range(Names[d]) : Listed(name, runtime) -> "allowed"
      [] OTHER                                           -> "unknown"

\* The name a device is admitted or asked under: the first that an allow entry matches, or
\* the first it has.
AllowedNames(d) == {i \in DOMAIN Names[d] : Listed(Names[d][i], runtime)}
AllowedName(d) == Names[d][Min(AllowedNames(d))]
FirstName(d) == Names[d][1]

-----------------------------------------------------------------------------
(* Devices come and go; the owner edits the configuration file *)

Listening == pc \notin {"down", "creating"}

\* The monitor holds what happens while somebody listens; its buffer is not endless.
Queued(action, d) ==
    LET event == [action |-> action, device |-> d] IN
    \/ /\ ~Listening /\ UNCHANGED events
    \/ /\ Listening /\ Len(events) < MaxEvents /\ events' = Append(events, event)
    \/ /\ Listening /\ Lossy /\ Len(events) >= MaxEvents /\ UNCHANGED events

Plug(d) ==
    /\ \A c \in plugged : Node[c] # Node[d]
    /\ plugged' = plugged \cup {d} /\ Queued("add", d)
    /\ UNCHANGED <<pc, disk, memory, startup, asked, devices>>

Unplug(d) ==
    /\ d \in plugged
    /\ plugged' = plugged \ {d} /\ Queued("remove", d)
    /\ UNCHANGED <<pc, disk, memory, startup, asked, devices>>

Edit(name) ==
    /\ pc = "down" \/ EditsWhileUp
    /\ file \in Lists /\ file' = [file EXCEPT !.ignore = @ \cup {name}]
    /\ UNCHANGED <<pc, temp, memory, plugged, events, startup, asked, devices>>

-----------------------------------------------------------------------------
(* Startup *)

\* parse_config_file makes an empty file if there is none; the write is not atomic.
CreateFile ==
    /\ pc = "down" /\ file = Absent
    /\ pc' = "creating" /\ file' = Partial
    /\ UNCHANGED <<temp, memory, plugged, events, startup, asked, devices>>

Opened(contents) ==
    /\ pc' = "listening"
    /\ lists' = contents /\ runtime' = contents.allow
    /\ UNCHANGED <<temp, plugged, events, startup, asked, devices>>

FillFile ==
    /\ pc = "creating" /\ file' = NoLists /\ Opened(NoLists)

\* The file is read and the monitor listens; a file cut short ends the program.
ReadFile ==
    /\ pc = "down" /\ file \in Lists /\ Opened(file) /\ UNCHANGED file

\* scan_devices: every device is classified before the first is mounted or asked about.
Scan ==
    /\ pc = "listening" /\ pc' = "ready"
    /\ LET allowed == {d \in plugged : DeviceFilter(d) = "allowed"} IN
       /\ startup' = [mount |-> allowed,
                      ask |-> {d \in plugged : DeviceFilter(d) = "unknown"}]
       /\ connected' = [s \in {Syspath[d] : d \in allowed} |->
                            LET d == CHOOSE c \in allowed : Syspath[c] = s
                            IN  [name |-> AllowedName(d), node |-> Node[d]]]
       /\ picker' = {AllowedName(d) : d \in allowed}
    /\ UNCHANGED <<disk, memory, plugged, events, asked, entries>>

\* Mutant: an entry is looked for by name.
StartedByName(node, name) ==
    IF (\E e \in entries : e.name = name) \/ (\A d \in plugged : Node[d] # node) THEN entries
    ELSE entries \cup {[node |-> node, name |-> name, holds |-> Mounting]}

\* start_mount: nothing for a node that has an entry, or is gone again.
Started(node, name) ==
    IF (\E e \in entries : e.node = node) \/ (\A d \in plugged : Node[d] # node) THEN entries
    ELSE entries \cup {[node |-> node, name |-> name, holds |-> Mounting]}

StartupMount(d) ==
    /\ pc = "ready" /\ d \in startup.mount
    /\ startup' = [startup EXCEPT !.mount = @ \ {d}]
    /\ entries' = Started(Node[d], AllowedName(d))
    /\ UNCHANGED <<pc, disk, memory, plugged, events, asked, connected, picker>>

StartupAsk(d) ==
    /\ pc = "ready" /\ startup.mount = {} /\ d \in startup.ask
    /\ startup' = [startup EXCEPT !.ask = @ \ {d}]
    /\ pc' = "asking" /\ asked' = d
    /\ UNCHANGED <<disk, memory, plugged, events, devices>>

-----------------------------------------------------------------------------
(* Hot-plug events *)

Idle == pc = "ready" /\ startup = NoStartup

\* The maps, the picker and the mount of a device that is let in.
Admit(d, name) ==
    /\ connected' = [s \in DOMAIN connected \cup {Syspath[d]} |->
                        IF s = Syspath[d] THEN [name |-> name, node |-> Node[d]]
                        ELSE connected[s]]
    /\ picker' = picker \cup {name}
    /\ entries' = Started(Node[d], name)

AddAllowed ==
    /\ Idle /\ events # <<>> /\ Head(events).action = "add"
    /\ DeviceFilter(Head(events).device) = "allowed"
    /\ events' = Tail(events)
    /\ Admit(Head(events).device, AllowedName(Head(events).device))
    /\ UNCHANGED <<pc, disk, memory, plugged, startup, asked>>

AddUnknown ==
    /\ Idle /\ events # <<>> /\ Head(events).action = "add"
    /\ DeviceFilter(Head(events).device) = "unknown"
    /\ events' = Tail(events)
    /\ pc' = "asking" /\ asked' = Head(events).device
    /\ UNCHANGED <<disk, memory, plugged, startup, devices>>

AddOther ==
    /\ Idle /\ events # <<>> /\ Head(events).action = "add"
    /\ DeviceFilter(Head(events).device) \in {"ignored", "none"}
    /\ events' = Tail(events)
    /\ UNCHANGED <<pc, disk, memory, plugged, startup, asked, devices>>

\* Mutant: the picker keeps none.
StillConnectedNever(rest) == {}

\* The picker keeps a name another connected device has.
StillConnected(rest) == {rest[s].name : s \in DOMAIN rest}

\* Mutant: the mounts go only with the last device of that name.
RemoveConnectedLast ==
    /\ Idle /\ events # <<>> /\ Head(events).action = "remove"
    /\ events' = Tail(events)
    /\ LET s == Syspath[Head(events).device]
           rest == Restrict(connected, DOMAIN connected \ {s}) IN
       /\ s \in DOMAIN connected
       /\ connected' = rest
       /\ entries' = IF connected[s].name \in StillConnected(rest) THEN entries
                     ELSE {e \in entries : e.node # connected[s].node}
       /\ picker' = picker \ ({connected[s].name} \ StillConnected(rest))
    /\ UNCHANGED <<pc, disk, memory, plugged, startup, asked>>

RemoveConnected ==
    /\ Idle /\ events # <<>> /\ Head(events).action = "remove"
    /\ events' = Tail(events)
    /\ LET s == Syspath[Head(events).device]
           rest == Restrict(connected, DOMAIN connected \ {s}) IN
       /\ s \in DOMAIN connected
       /\ connected' = rest
       /\ entries' = {e \in entries : e.node # connected[s].node}
       /\ picker' = picker \ ({connected[s].name} \ StillConnected(rest))
    /\ UNCHANGED <<pc, disk, memory, plugged, startup, asked>>

RemoveOther ==
    /\ Idle /\ events # <<>> /\ Head(events).action = "remove"
    /\ Syspath[Head(events).device] \notin DOMAIN connected
    /\ events' = Tail(events)
    /\ UNCHANGED <<pc, disk, memory, plugged, startup, asked, devices>>

\* The mount thread mounts what it finds at the node, and removes the entry if there is
\* nothing.
MountThread(e) ==
    /\ e.holds = Mounting
    /\ LET found == {d \in plugged : Node[d] = e.node} IN
       \/ found = {} /\ entries' = entries \ {e}
       \/ \E result \in found \cup {Broken} :
             entries' = (entries \ {e}) \cup {[e EXCEPT !.holds = result]}
    /\ UNCHANGED <<pc, disk, memory, plugged, events, startup, asked, connected, picker>>

-----------------------------------------------------------------------------
(* The answer about an unknown device, and saving it *)

Listing(list) == [lists EXCEPT ![list] = @ \cup {FirstName(asked)}]

AnswerAllow ==
    /\ pc = "asking" /\ pc' = "allowing"
    /\ lists' = Listing("allow") /\ runtime' = runtime \cup {FirstName(asked)}
    /\ UNCHANGED <<disk, plugged, events, startup, asked, devices>>

AnswerIgnoreAlways ==
    /\ pc = "asking" /\ pc' = "ignoring"
    /\ lists' = Listing("ignore")
    /\ UNCHANGED <<disk, runtime, plugged, events, startup, asked, devices>>

AnswerAllowOnce ==
    /\ pc = "asking" /\ pc' = "ready" /\ asked' = NoDevice
    /\ runtime' = runtime \cup {FirstName(asked)}
    /\ Admit(asked, FirstName(asked))
    /\ UNCHANGED <<disk, lists, plugged, events, startup>>

\* Mutant: the question is not done with.
AnswerIgnoreAskedStill ==
    /\ pc = "asking" /\ pc' = "ready"
    /\ UNCHANGED <<disk, memory, plugged, events, startup, asked, devices>>

\* Also what a query the UI dropped counts as.
AnswerIgnore ==
    /\ pc = "asking" /\ pc' = "ready" /\ asked' = NoDevice
    /\ UNCHANGED <<disk, memory, plugged, events, startup, devices>>

\* Mutant: the list of this session is saved.
WriteTempOfSession ==
    /\ pc \in {"allowing", "ignoring"} /\ temp' = [lists EXCEPT !.allow = runtime]
    /\ pc' = IF pc = "allowing" THEN "allowing renames" ELSE "ignoring renames"
    /\ UNCHANGED <<file, memory, plugged, events, startup, asked, devices>>

\* Mutant: the configuration file itself is opened for writing.
WriteTempInPlace ==
    /\ pc \in {"allowing", "ignoring"} /\ temp' = lists /\ file' = Partial
    /\ pc' = IF pc = "allowing" THEN "allowing renames" ELSE "ignoring renames"
    /\ UNCHANGED <<memory, plugged, events, startup, asked, devices>>

\* write_config_atomically: the temporary file is written, then renamed.
WriteTemp ==
    /\ pc \in {"allowing", "ignoring"} /\ temp' = lists
    /\ pc' = IF pc = "allowing" THEN "allowing renames" ELSE "ignoring renames"
    /\ UNCHANGED <<file, memory, plugged, events, startup, asked, devices>>

\* What the main loop does with the device once the answer is saved, or could not be.
Answered ==
    /\ pc' = "ready" /\ asked' = NoDevice
    /\ \/ pc \in {"allowing", "allowing renames"} /\ Admit(asked, FirstName(asked))
       \/ pc \in {"ignoring", "ignoring renames"} /\ UNCHANGED devices
    /\ UNCHANGED <<memory, plugged, events, startup>>

RenameTemp ==
    /\ pc \in {"allowing renames", "ignoring renames"}
    /\ file' = temp /\ temp' = Absent
    /\ Answered

\* A failure is printed and goes no further; the next save writes the lists in full.
SaveFails ==
    /\ \/ pc \in {"allowing", "ignoring"} /\ temp' = Partial
       \/ pc \in {"allowing renames", "ignoring renames"} /\ UNCHANGED temp
    /\ UNCHANGED file
    /\ Answered

-----------------------------------------------------------------------------
\* The program ends at any point, by its exit (which removes every entry) or killed.
Stop ==
    /\ pc # "down" /\ pc' = "down"
    /\ lists' = NoLists /\ runtime' = {}
    /\ events' = <<>> /\ startup' = NoStartup /\ asked' = NoDevice
    /\ connected' = NobodyConnected /\ picker' = {} /\ entries' = {}
    /\ UNCHANGED <<disk, plugged>>

HandleEvent ==
    AddAllowed \/ AddUnknown \/ AddOther \/ RemoveConnected \/ RemoveOther
Answer == AnswerAllow \/ AnswerIgnoreAlways \/ AnswerAllowOnce \/ AnswerIgnore
Save == WriteTemp \/ RenameTemp \/ SaveFails
MainLoop ==
    \/ FillFile \/ Scan \/ HandleEvent \/ Save
    \/ \E d \in Devices : StartupMount(d) \/ StartupAsk(d)
Mounts(node) == \E e \in entries : e.node = node /\ MountThread(e)

Next ==
    \/ MainLoop \/ Answer \/ CreateFile \/ ReadFile \/ Stop
    \/ \E d \in Devices : Plug(d) \/ Unplug(d)
    \/ \E node \in Range(Node) : Mounts(node)
    \/ \E name \in Edits : Edit(name)

Spec == Init /\ [][Next]_vars

\* The main loop keeps running and mounts end; the user may never answer, and nobody has to
\* start the program.
FairSpec == Spec /\ WF_vars(MainLoop) /\ \A node \in Range(Node) : WF_vars(Mounts(node))

-----------------------------------------------------------------------------
Event == [action : {"add", "remove"}, device : Devices]
Entry == [node : Range(Node), name : ByIdNames, holds : Devices \cup {Mounting, Broken}]
MainSteps == {"down", "creating", "listening", "ready", "asking", "allowing", "ignoring",
              "allowing renames", "ignoring renames"}

MemoryTypeOK ==
    /\ pc \in MainSteps
    /\ file \in Lists \cup {Absent, Partial} /\ temp \in Lists \cup {Absent, Partial}
    /\ lists \in Lists /\ runtime \in SUBSET ByIdNames

QueuesTypeOK ==
    /\ plugged \in SUBSET Devices
    /\ events \in Seq(Event)
    /\ startup \in [mount : SUBSET Devices, ask : SUBSET Devices]
    /\ asked \in Devices \cup {NoDevice}
    /\ (pc \in {"down", "creating", "listening", "ready"}) <=> (asked = NoDevice)
    /\ asked # NoDevice => Names[asked] # <<>>

MountsTypeOK ==
    /\ DOMAIN connected \subseteq Range(Syspath)
    /\ \A s \in DOMAIN connected : connected[s] \in [name : ByIdNames, node : Range(Node)]
    /\ picker \in SUBSET ByIdNames /\ entries \in SUBSET Entry

\* The variables have their types; a question is about a device that has a name.
TypeOK == MemoryTypeOK /\ QueuesTypeOK /\ MountsTypeOK

\* Nothing waits to be handled: no startup device, no event, no question, no mount.
Quiet == Idle /\ events = <<>> /\ \A e \in entries : e.holds # Mounting

\* When all is quiet, every mount entry holds what is plugged in at its node now, under a
\* name that device has, however devices were swapped while the program started, waited for
\* an answer or mounted (unless the mount failed).
QuietEntriesAreCurrent ==
    Quiet => \A e \in entries : \E d \in plugged :
                /\ Node[d] = e.node /\ e.name \in Range(Names[d])
                /\ e.holds \in {d, Broken}

\* When all is quiet, the maps from syspaths tell of devices that are plugged in, by names
\* they have, and the picker lacks none of these names; events seen twice (by the scan and by
\* the monitor), questions in between and names several devices share do not change that.
QuietMapsAreCurrent ==
    Quiet => \A s \in DOMAIN connected :
                /\ connected[s].name \in picker
                /\ \E d \in plugged : /\ Syspath[d] = s /\ connected[s].node = Node[d]
                                      /\ connected[s].name \in Range(Names[d])

\* What was allowed for this session only never gets into the configuration file, also when
\* later answers rewrite it and earlier saves failed.
OnceIsNotSaved ==
    pc # "down" =>
        \A name \in runtime \ lists.allow :
            /\ file \in Lists => name \notin file.allow
            /\ pc \in {"allowing renames", "ignoring renames"} => name \notin temp.allow

KeepsDecisions(old, new) ==
    /\ new \in Lists
    /\ old.allow \subseteq new.allow /\ old.ignore \subseteq new.ignore

\* A configuration file that was complete stays so, and keeps every decision it holds:
\* neither a kill in the middle of a save, nor a failed save followed by others, nor a
\* restart takes one out of it.
DecisionsStay ==
    [][(file \in Lists) => KeepsDecisions(file, file')]_vars

\* Whether the main loop has been told of a device and has not turned to it yet.
Announced(d) ==
    \/ d \in startup.mount
    \/ \E i \in DOMAIN events : events[i] = [action |-> "add", device |-> d]

Unhandled(d) == d \in plugged /\ Announced(d) /\ DeviceFilter(d) = "allowed"

Settled(d) ==
    \/ \E e \in entries : e.node = Node[d] /\ e.holds \in {d, Broken}
    \/ d \notin plugged \/ DeviceFilter(d) # "allowed" \/ pc \in {"asking", "down"}

\* An allowed device that is announced gets mounted (or the mount fails), unless it is
\* unplugged, an answer has it ignored, a question waits for the user or the program ends.
AllowedDevicesAreMounted == \A d \in Devices : Unhandled(d) ~> Settled(d)

-----------------------------------------------------------------------------
(* What the proofs of these properties rest on *)

Removal(d) == [action |-> "remove", device |-> d]
Leaving(d) == \E i \in DOMAIN events : events[i] = Removal(d)

\* What the program turns to is plugged in, or its removal is still to be handled.
StillHere(d) == d \in plugged \/ Leaving(d)

OnePerNode == \A c, d \in plugged : Node[c] = Node[d] => c = d

DownInv ==
    /\ pc \in {"down", "creating", "listening"} =>
          startup = NoStartup /\ connected = NobodyConnected /\ entries = {}
    /\ pc \in {"down", "creating"} => events = <<>> /\ runtime = {}

\* While the program runs, memory holds at least what the file does.
SavedInv ==
    /\ pc = "creating" => file = Partial
    /\ pc \notin {"down", "creating"} => file \in Lists /\ file.allow \subseteq lists.allow
    /\ pc \in {"allowing renames", "ignoring renames"} => temp = lists

IgnoredInv == pc \notin {"down", "creating"} => file.ignore \subseteq lists.ignore

AnnouncedInv ==
    \A i \in DOMAIN events : events[i].action = "add" =>
        \/ events[i].device \in plugged
        \/ \E j \in DOMAIN events : j > i /\ events[j] = Removal(events[i].device)

\* The startup devices stay classified as they were until the first question.
ClassifiedInv ==
    /\ \A d \in startup.mount : DeviceFilter(d) = "allowed"
    /\ \A d \in startup.ask : Names[d] # <<>>
    /\ asked # NoDevice => startup.mount = {}

StartupInv ==
    /\ \A d \in startup.mount : StillHere(d) /\ Syspath[d] \in DOMAIN connected
    /\ \A d \in startup.ask : StillHere(d)
    /\ asked # NoDevice => StillHere(asked)

ConnectedInv ==
    \A s \in DOMAIN connected :
        \E d \in Devices : Syspath[d] = s /\ connected[s].node = Node[d]

\* An entry is cleared by a removal of a connected device at its node; until there is one
\* in the queue, it is of the device plugged in there.
Follows(e) ==
    \E s \in DOMAIN connected :
        /\ connected[s].node = e.node
        /\ \/ \E d \in Devices : Syspath[d] = s /\ Leaving(d)
           \/ \E d \in plugged : /\ Syspath[d] = s /\ e.name \in Range(Names[d])
                                 /\ e.holds \in {d, Mounting, Broken}

EntriesInv == \A e \in entries : Follows(e)

\* What a syspath maps to is of the device plugged in there, or its removal is in the queue.
MapsInv ==
    \A s \in DOMAIN connected :
        \/ \E d \in Devices : Syspath[d] = s /\ Leaving(d)
        \/ \E d \in plugged : Syspath[d] = s /\ connected[s].name \in Range(Names[d])

PickerInv == \A s \in DOMAIN connected : connected[s].name \in picker

BaseInv == TypeOK /\ DownInv /\ ClassifiedInv
IInv == /\ BaseInv /\ OnePerNode /\ SavedInv
        /\ AnnouncedInv /\ StartupInv /\ ConnectedInv /\ EntriesInv /\ MapsInv /\ PickerInv

-----------------------------------------------------------------------------
(* Claims the code does not keep *)

\* "Ignore list wins" (main.rs:424): what is mounted is not on the ignore list.
IgnoredDevicesStayOut == \A e \in entries : e.holds \in Devices => ~IsIgnored(e.holds)

\* A configuration file that could not be read again is never left behind.
FileCanBeRead == pc # "creating" => file # Partial

\* "by-id names of currently connected allowed block devices" (main.rs:798): the picker has
\* no other name. A device told of twice may be let in under another name the second time.
PickerIsExact == Quiet => picker = StillConnected(connected)
=============================================================================
