----------------------------- MODULE MountManager -----------------------------
(***************************************************************************)
(* The life of a mounted card: the entries of mount_manager.rs, its mount  *)
(* and unmount threads, the hot-plug events and unmount requests the main  *)
(* loop handles, the transfers that use a mount (transfer_logic.rs), and   *)
(* the mount list the UI shows.                                            *)
(*                                                                         *)
(* A step is what a thread does under one hold of the manager's mutex, one *)
(* system call, or one message to the UI (whose channel keeps their        *)
(* order). A device is its node, a mount its id and mountpoint.            *)
(***************************************************************************)
EXTENDS Integers, Sequences, FiniteSets

CONSTANTS
    Devices,    \* device nodes of allowed devices
    Mounts,     \* mount ids, a bound on the mounts started
    MaxEvents,  \* bound on the events and requests waiting for the main loop
    Transfers,  \* transfer threads
    NoDevice,   \* no device location selected
    NoMount     \* no mount root

ASSUME MaxEventsAssumption == MaxEvents \in Nat
ASSUME NothingAssumption == NoDevice \notin Devices /\ NoMount \notin Mounts

VARIABLES
    prog,      \* the main loop runs, or has left
    plugged,   \* device nodes that exist
    events,    \* hot-plug events the main loop has not seen
    requests,  \* unmount requests the main loop has not seen
    device,    \* the device each mount was started for
    entries,   \* mounts the manager has an entry for
    marked,    \* entries with is_mounted
    users,     \* user_transfer_ids of each entry
    kernel,    \* mountpoints something is mounted on
    given_up,  \* mounts an unmount failed for whose failure is not shown
    mpc,       \* the step of each mount thread
    tasks,     \* the unmount threads
    shown,     \* the mount list of the UI
    tpc,       \* the step of each transfer
    location,  \* its device location
    root       \* its mount_root

manager == <<device, entries, marked, users>>
transfer == <<tpc, location, root>>
vars == <<prog, plugged, events, requests, device, entries, marked, users, kernel, given_up,
          mpc, tasks, shown, tpc, location, root>>

MountSteps    == {"none", "starting", "mounting", "mounted", "marked", "spawning", "done"}
TransferSteps == {"unborn", "resolving", "registering", "asking", "approved", "moving", "ended"}
Statuses      == {"absent", "Mounting", "Mounted", "Failed", "UnmountFailed"}

\* Unmount threads: why one was started, and whether it is about to unmount, to remove the
\* entry, or to tell the UI. Two requests that reach the same step count as one.
\* The task "main" is the main loop itself, which goes on when it is done.
Tasks == [mount : Mounts, why : {"user", "transfer", "unplug", "main"},
          step : {"unmount", "forget", "tell"}]

-----------------------------------------------------------------------------
Init ==
    /\ prog = "up"
    /\ plugged = {} /\ events = <<>> /\ requests = {}
    /\ device = [m \in Mounts |-> NoDevice]
    /\ entries = {} /\ marked = {} /\ kernel = {} /\ given_up = {}
    /\ users = [m \in Mounts |-> {}]
    /\ mpc = [m \in Mounts |-> "none"]
    /\ tasks = {}
    /\ shown = [m \in Mounts |-> "absent"]
    /\ tpc = [t \in Transfers |-> "unborn"]
    /\ location = [t \in Transfers |-> NoDevice]
    /\ root = [t \in Transfers |-> NoMount]

\* The entries of a device; start_mount keeps it to one.
EntriesOf(d) == {m \in entries : device[m] = d}
MountedAt(d) == EntriesOf(d) \cap marked

\* An entry is removed with all it records.
Remove(gone) ==
    /\ entries' = entries \ gone
    /\ marked' = marked \ gone
    /\ users' = [m \in Mounts |-> IF m \in gone THEN {} ELSE users[m]]

\* An update changes the status of a mount the UI still lists.
Tell(m, status) ==
    shown' = [shown EXCEPT ![m] = IF @ = "absent" THEN "absent" ELSE status]

MountGoto(m, step)    == mpc' = [mpc EXCEPT ![m] = step]
TransferGoto(t, step) == tpc' = [tpc EXCEPT ![t] = step]

TransferEnds(t) ==
    /\ TransferGoto(t, "ended")
    /\ location' = [location EXCEPT ![t] = NoDevice]
    /\ root' = [root EXCEPT ![t] = NoMount]

-----------------------------------------------------------------------------
(* Devices come and go, and the user presses the unmount key *)

\* What the main loop has not taken yet; nobody takes it once the loop is left.
Waiting == Len(events) + Cardinality(requests)

Queued(event) == IF prog = "up" THEN Append(events, event) ELSE events

Plug(d) ==
    /\ d \notin plugged /\ Waiting < MaxEvents
    /\ plugged' = plugged \cup {d}
    /\ events' = Queued([device |-> d, action |-> "add"])
    /\ UNCHANGED <<prog, requests, manager, kernel, given_up, mpc, tasks, shown, transfer>>

Unplug(d) ==
    /\ d \in plugged /\ Waiting < MaxEvents
    /\ plugged' = plugged \ {d}
    /\ events' = Queued([device |-> d, action |-> "remove"])
    /\ UNCHANGED <<prog, requests, manager, kernel, given_up, mpc, tasks, shown, transfer>>

RequestUnmount(m) ==
    /\ prog = "up" /\ shown[m] # "absent" /\ m \notin requests /\ Waiting < MaxEvents
    /\ requests' = requests \cup {m}
    /\ UNCHANGED <<prog, plugged, events, manager, kernel, given_up, mpc, tasks, shown, transfer>>

-----------------------------------------------------------------------------
(* The main loop *)

MainLoopFree == prog = "up" /\ \A k \in tasks : k.why # "main"

\* start_mount: a device that has an entry, or is gone again, is skipped.
StartMount ==
    /\ MainLoopFree /\ events # <<>> /\ Head(events).action = "add"
    /\ events' = Tail(events)
    /\ LET d == Head(events).device IN
       \/ /\ EntriesOf(d) # {} \/ d \notin plugged
          /\ UNCHANGED <<manager, mpc, shown>>
       \/ /\ EntriesOf(d) = {} /\ d \in plugged
          /\ \E m \in Mounts :
                /\ mpc[m] = "none" /\ MountGoto(m, "starting")
                /\ device' = [device EXCEPT ![m] = d]
                /\ entries' = entries \cup {m}
                /\ shown' = [shown EXCEPT ![m] = "Mounting"]
          /\ UNCHANGED <<marked, users>>
    /\ UNCHANGED <<prog, plugged, requests, kernel, given_up, tasks, transfer>>

\* remove_mounts_for_device: the entries go at once, mounted ones are then unmounted.
RemoveMounts ==
    /\ MainLoopFree /\ events # <<>> /\ Head(events).action = "remove"
    /\ events' = Tail(events)
    /\ LET gone == EntriesOf(Head(events).device) IN
       /\ Remove(gone)
       /\ tasks' = tasks \cup [mount : gone \cap marked, why : {"unplug"}, step : {"unmount"}]
       /\ shown' = [m \in Mounts |-> IF m \in gone \ marked THEN "absent" ELSE shown[m]]
    /\ UNCHANGED <<prog, plugged, requests, device, kernel, given_up, mpc, transfer>>

\* start_unmount, for an entry the manager still has. One that is not mounted is looked up
\* and removed under two holds of the mutex.
StartUnmount(m) ==
    /\ MainLoopFree /\ m \in requests
    /\ requests' = requests \ {m}
    /\ \/ m \notin entries /\ UNCHANGED tasks
       \/ /\ m \in marked
          /\ tasks' = tasks \cup {[mount |-> m, why |-> "user", step |-> "unmount"]}
       \/ /\ m \in entries \ marked
          /\ tasks' = tasks \cup {[mount |-> m, why |-> "main", step |-> "forget"]}
    /\ UNCHANGED <<prog, plugged, events, manager, kernel, given_up, mpc, shown, transfer>>

\* unmount_all_sync, and out of the loop; an unmount that fails is reported and forgotten.
LeaveLoop ==
    /\ prog' = "left"
    /\ \E failed \in SUBSET marked :
          /\ kernel' = kernel \ (marked \ failed)
          /\ given_up' = given_up \cup (failed \cap kernel)
    /\ Remove(entries)
    /\ events' = <<>> /\ requests' = {}
    /\ UNCHANGED <<plugged, device, mpc, tasks, shown, transfer>>

\* "Unmount and exit", refused while a transfer's handle is not finished.
Quit ==
    /\ MainLoopFree /\ \A t \in Transfers : tpc[t] \in {"unborn", "ended"}
    /\ LeaveLoop

\* After a completed snapshot run no transfer is looked for: one may have started since.
CompleteBackupAndExit == MainLoopFree /\ LeaveLoop

-----------------------------------------------------------------------------
(* The mount thread *)

\* The device may be gone already, the mountpoint may not come into being.
CheckDevice(m) ==
    /\ mpc[m] = "starting"
    /\ \/ /\ device[m] \notin plugged /\ MountGoto(m, "done")
          /\ Remove({m}) /\ shown' = [shown EXCEPT ![m] = "absent"]
       \/ /\ device[m] \in plugged /\ MountGoto(m, "done")
          /\ Tell(m, "Failed") /\ UNCHANGED <<entries, marked, users>>
       \/ /\ device[m] \in plugged /\ MountGoto(m, "mounting")
          /\ UNCHANGED <<entries, marked, users, shown>>
    /\ UNCHANGED <<prog, plugged, events, requests, device, kernel, given_up, tasks, transfer>>

\* Mutant: the thread ends without a word if no filesystem type fits.
MountQuietly(m) ==
    /\ mpc[m] = "mounting"
    /\ \/ /\ device[m] \in plugged /\ MountGoto(m, "mounted")
          /\ kernel' = kernel \cup {m}
       \/ MountGoto(m, "done") /\ UNCHANGED kernel
    /\ UNCHANGED <<prog, plugged, events, requests, manager, given_up, tasks, shown, transfer>>

\* The filesystem types are tried in turn, all read-only.
Mount(m) ==
    /\ mpc[m] = "mounting"
    /\ \/ /\ device[m] \in plugged /\ MountGoto(m, "mounted")
          /\ kernel' = kernel \cup {m} /\ UNCHANGED shown
       \/ MountGoto(m, "done") /\ Tell(m, "Failed") /\ UNCHANGED kernel
    /\ UNCHANGED <<prog, plugged, events, requests, manager, given_up, tasks, transfer>>

\* The entry, if it is still there, is marked.
Mark(m) ==
    /\ mpc[m] = "mounted" /\ MountGoto(m, "marked")
    /\ marked' = marked \cup ({m} \cap entries)
    /\ UNCHANGED <<prog, plugged, events, requests, device, entries, users, kernel, given_up,
                   tasks, shown, transfer>>

MountCompleted(m) ==
    /\ mpc[m] = "marked" /\ MountGoto(m, "spawning")
    /\ Tell(m, "Mounted")
    /\ UNCHANGED <<prog, plugged, events, requests, manager, kernel, given_up, tasks, transfer>>

\* One transfer per entry of the card's configuration, on the device of the mount.
SpawnTransfer(m, t) ==
    /\ mpc[m] = "spawning" /\ tpc[t] = "unborn" /\ TransferGoto(t, "resolving")
    /\ location' = [location EXCEPT ![t] = device[m]]
    /\ UNCHANGED <<prog, plugged, events, requests, manager, kernel, given_up, mpc, tasks,
                   shown, root>>

MountThreadEnds(m) ==
    /\ mpc[m] = "spawning" /\ MountGoto(m, "done")
    /\ UNCHANGED <<prog, plugged, events, requests, manager, kernel, given_up, tasks, shown,
                   transfer>>

-----------------------------------------------------------------------------
(* The unmount threads *)

Become(k, step) == tasks' = (tasks \ {k}) \cup {[k EXCEPT !.step = step]}

\* Mutant: the entry stays although nothing is mounted any more.
UnmountKeepingEntry(k) ==
    /\ k \in tasks /\ k.step = "unmount"
    /\ \/ /\ k.mount \in kernel /\ kernel' = kernel \ {k.mount}
          /\ Become(k, "tell")
          /\ given_up' = given_up \ {k.mount} /\ UNCHANGED shown
       \/ /\ k.why = "unplug" /\ Become(k, "tell")
          /\ given_up' = given_up \cup ({k.mount} \cap kernel)
          /\ UNCHANGED <<kernel, shown>>
       \/ /\ k.why # "unplug" /\ tasks' = tasks \ {k}
          /\ Tell(k.mount, "UnmountFailed")
          /\ UNCHANGED <<kernel, given_up>>
    /\ UNCHANGED <<prog, plugged, events, requests, manager, mpc, transfer>>

\* do_unmount, lazily if the mount is busy. A failure is shown and the entry stays, except
\* after an unplug, where it is ignored.
Unmount(k) ==
    /\ k \in tasks /\ k.step = "unmount"
    /\ \/ /\ k.mount \in kernel /\ kernel' = kernel \ {k.mount}
          /\ Become(k, IF k.why = "unplug" THEN "tell" ELSE "forget")
          /\ given_up' = given_up \ {k.mount} /\ UNCHANGED shown
       \/ /\ k.why = "unplug" /\ Become(k, "tell")
          /\ given_up' = given_up \cup ({k.mount} \cap kernel)
          /\ UNCHANGED <<kernel, shown>>
       \/ /\ k.why # "unplug" /\ tasks' = tasks \ {k}
          /\ Tell(k.mount, "UnmountFailed")
          /\ UNCHANGED <<kernel, given_up>>
    /\ UNCHANGED <<prog, plugged, events, requests, manager, mpc, transfer>>

Forget(k) ==
    /\ k \in tasks /\ k.step = "forget" /\ Become(k, "tell")
    /\ Remove({k.mount})
    /\ UNCHANGED <<prog, plugged, events, requests, device, kernel, given_up, mpc, shown,
                   transfer>>

MountRemoved(k) ==
    /\ k \in tasks /\ k.step = "tell" /\ tasks' = tasks \ {k}
    /\ shown' = [shown EXCEPT ![k.mount] = "absent"]
    /\ UNCHANGED <<prog, plugged, events, requests, manager, kernel, given_up, mpc, transfer>>

-----------------------------------------------------------------------------
(* Transfers: what they ask of the manager *)

\* A manual transfer has no device location until the user picks one.
StartManual(t) ==
    /\ MainLoopFree /\ tpc[t] = "unborn" /\ TransferGoto(t, "asking")
    /\ UNCHANGED <<prog, plugged, events, requests, manager, kernel, given_up, mpc, tasks,
                   shown, location, root>>

PickLocation(t, d) ==
    /\ tpc[t] = "asking" /\ d \in plugged /\ TransferGoto(t, "resolving")
    /\ location' = [location EXCEPT ![t] = d]
    /\ UNCHANGED <<prog, plugged, events, requests, manager, kernel, given_up, mpc, tasks,
                   shown, root>>

\* Mutant: the mount root is the device's node instead of its mountpoint.
ResolveRootAsNode(t) ==
    /\ tpc[t] = "resolving"
    /\ \/ /\ MountedAt(location[t]) = {} /\ TransferGoto(t, "asking")
          /\ root' = [root EXCEPT ![t] = NoMount]
       \/ /\ MountedAt(location[t]) # {} /\ TransferGoto(t, "registering")
          /\ root' = [root EXCEPT ![t] = location[t]]
    /\ UNCHANGED <<prog, plugged, events, requests, manager, kernel, given_up, mpc, tasks,
                   shown, location>>

\* get_mountpoint_for_real_device: the mount root is settled here and only here.
ResolveRoot(t) ==
    /\ tpc[t] = "resolving"
    /\ \/ /\ MountedAt(location[t]) = {} /\ TransferGoto(t, "asking")
          /\ root' = [root EXCEPT ![t] = NoMount]
       \/ \E m \in MountedAt(location[t]) :
             TransferGoto(t, "registering") /\ root' = [root EXCEPT ![t] = m]
    /\ UNCHANGED <<prog, plugged, events, requests, manager, kernel, given_up, mpc, tasks,
                   shown, location>>

\* register_mount_user, of whatever entry the device has by now.
RegisterUser(t) ==
    /\ tpc[t] = "registering" /\ TransferGoto(t, "asking")
    /\ users' = [m \in Mounts |->
            IF m \in EntriesOf(location[t]) THEN users[m] \cup {t} ELSE users[m]]
    /\ UNCHANGED <<prog, plugged, events, requests, device, entries, marked, kernel, given_up,
                   mpc, tasks, shown, location, root>>

\* Approved with the device still there (else the query is shown again).
Approve(t) ==
    /\ tpc[t] = "asking" /\ location[t] \in plugged /\ TransferGoto(t, "approved")
    /\ UNCHANGED <<prog, plugged, events, requests, manager, kernel, given_up, mpc, tasks,
                   shown, location, root>>

\* Denied, or ended by one of the errors before the move: the mount keeps its user.
GiveUp(t) ==
    /\ tpc[t] \in {"asking", "approved"} /\ TransferEnds(t)
    /\ UNCHANGED <<prog, plugged, events, requests, manager, kernel, given_up, mpc, tasks, shown>>

\* remount_readwrite, of whatever mount the device has by now; the data is moved from the
\* mount root.
RemountReadWrite(t) ==
    /\ tpc[t] = "approved" /\ MountedAt(location[t]) # {} /\ TransferGoto(t, "moving")
    /\ UNCHANGED <<prog, plugged, events, requests, manager, kernel, given_up, mpc, tasks,
                   shown, location, root>>

\* start_unmount_for_transfer: the mounts that lose their last user are unmounted by threads.
FinishMove(t) ==
    /\ tpc[t] = "moving" /\ TransferEnds(t)
    /\ users' = [m \in Mounts |-> users[m] \ {t}]
    /\ tasks' = tasks \cup
            UNION {[mount : {m}, why : {"transfer"},
                    step : {IF m \in marked THEN "unmount" ELSE "forget"}]
                   : m \in {e \in entries : users[e] = {t}}}
    /\ UNCHANGED <<prog, plugged, events, requests, device, entries, marked, kernel, given_up,
                   mpc, shown>>

-----------------------------------------------------------------------------
MountStep(m) ==
    \/ CheckDevice(m) \/ Mount(m) \/ Mark(m) \/ MountCompleted(m) \/ MountThreadEnds(m)

UnmountStep == \E k \in tasks : Unmount(k) \/ Forget(k) \/ MountRemoved(k)

TransferStep(t) ==
    \/ ResolveRoot(t) \/ RegisterUser(t) \/ RemountReadWrite(t) \/ FinishMove(t)

UserStep(t) ==
    \/ StartManual(t) \/ Approve(t) \/ GiveUp(t)
    \/ \E d \in Devices : PickLocation(t, d)

Next ==
    \/ \E d \in Devices : Plug(d) \/ Unplug(d)
    \/ StartMount \/ RemoveMounts \/ Quit \/ CompleteBackupAndExit
    \/ \E m \in Mounts : RequestUnmount(m) \/ StartUnmount(m) \/ MountStep(m)
    \/ UnmountStep
    \/ \E t \in Transfers : TransferStep(t) \/ UserStep(t)
    \/ \E m \in Mounts, t \in Transfers : SpawnTransfer(m, t)

Spec == Init /\ [][Next]_vars

-----------------------------------------------------------------------------
(* Properties *)

\* Every variable has its type.
TypeOK ==
    /\ prog \in {"up", "left"}
    /\ plugged \subseteq Devices /\ requests \subseteq Mounts
    /\ events \in Seq([device : Devices, action : {"add", "remove"}])
    /\ device \in [Mounts -> Devices \cup {NoDevice}]
    /\ entries \subseteq Mounts /\ marked \subseteq Mounts
    /\ kernel \subseteq Mounts /\ given_up \subseteq Mounts
    /\ users \in [Mounts -> SUBSET Transfers]
    /\ mpc \in [Mounts -> MountSteps]
    /\ tasks \subseteq Tasks
    /\ shown \in [Mounts -> Statuses]
    /\ tpc \in [Transfers -> TransferSteps]
    /\ location \in [Transfers -> Devices \cup {NoDevice}]
    /\ root \in [Transfers -> Mounts \cup {NoMount}]

\* What get_mountpoint_for_real_device and remount_readwrite trust: an entry with is_mounted
\* is mounted, unless the thread that unmounted it is about to remove it.
MarkedEntriesAreMounted ==
    \A m \in marked :
        m \in kernel \/ \E k \in tasks : k.mount = m /\ k.step = "forget"

Quiet(m) == mpc[m] \in {"none", "done"} /\ \A k \in tasks : k.mount # m

\* Once its threads are done, the UI lists exactly the mounts the manager has an entry for,
\* none is left showing as being mounted for ever, and those it says are mounted are the
\* ones with is_mounted.
QuietMountsAreShownAsTheyAre ==
    prog = "up" => \A m \in Mounts : Quiet(m) =>
        /\ m \in entries <=> shown[m] # "absent"
        /\ shown[m] # "Mounting"
        /\ m \in entries => (m \in marked <=> shown[m] \in {"Mounted", "UnmountFailed"})

\* mount_manager.rs:276-278: a mount is only unmounted for a transfer when the count of its
\* users has dropped to zero.
UsersKeepTheirMount ==
    \A k \in tasks : k.why = "transfer" /\ k.step = "unmount" => users[k.mount] = {}

\* mount_manager.rs:165, :269, :343: an entry that is not marked as mounted has no kernel
\* state to clean up. So what is mounted is some thread's or the manager's to unmount, or an
\* unmount of it has failed.
NoMountIsForgotten ==
    \A m \in kernel :
        \/ m \in entries
        \/ \E k \in tasks : k.mount = m /\ k.step = "unmount"
        \/ m \in given_up

\* transfer_logic.rs:1157-1159: a transfer from a block device reads from the mountpoint of
\* the device; only for a local transfer is the input path an actual path.
DeviceTransfersReadTheDevice ==
    \A t \in Transfers : tpc[t] = "moving" => root[t] # NoMount

-----------------------------------------------------------------------------
(* What the proofs of these properties rest on *)

\* Mount threads whose Mark is behind them.
Past == {"marked", "spawning", "done"}

\* An entry is made once; it is marked by its thread, once, and while the mount is there.
EntriesInv ==
    /\ marked \subseteq entries
    /\ \A m \in Mounts :
          /\ m \in entries => mpc[m] # "none"
          /\ m \in marked => mpc[m] \in Past
          /\ m \in entries /\ mpc[m] \in {"marked", "spawning"} => m \in marked
          /\ mpc[m] = "mounted" => m \in kernel

\* An unmount thread works on a mount that was marked, and tells of one that is forgotten.
TasksInv ==
    \A k \in tasks :
        /\ mpc[k.mount] # "none"
        /\ k.step = "unmount" => /\ mpc[k.mount] \in Past
                                 /\ k.mount \in entries => k.mount \in marked
        /\ k.why = "unplug" \/ k.step = "tell" => k.mount \notin entries
        /\ k.why = "unplug" => k.step # "forget"

\* The mount list has what has an entry, and what a thread is about to take off it.
ShownInv ==
    \A m \in Mounts :
        /\ mpc[m] = "none" => shown[m] = "absent"
        /\ m \in entries => shown[m] # "absent"
        /\ prog = "up" /\ m \notin entries /\ shown[m] # "absent"
              => \E k \in tasks : k.mount = m /\ (k.why = "unplug" \/ k.step = "tell")
        /\ shown[m] = "Mounting" => mpc[m] \in {"starting", "mounting", "mounted", "marked"}
        /\ m \in marked /\ mpc[m] \in {"spawning", "done"} => shown[m] \in {"Mounted", "UnmountFailed"}
        /\ m \in entries /\ shown[m] \in {"Mounted", "UnmountFailed"} => m \in marked

Invs == EntriesInv /\ TasksInv /\ ShownInv /\ MarkedEntriesAreMounted
=============================================================================
