-------------------------- MODULE MountManagerProofs --------------------------
(***************************************************************************)
(* Theorems about MountManager: types, that marked entries are mounted,    *)
(* and that the mount list shows what the manager has.                     *)
(***************************************************************************)
EXTENDS MountManager, SequenceTheorems, TLAPS

-----------------------------------------------------------------------------
(* Types *)

Events == [device : Devices, action : {"add", "remove"}]

LEMMA TaskFields ==
    ASSUME NEW k \in Tasks
    PROVE  /\ k.mount \in Mounts /\ k.why \in {"user", "transfer", "unplug", "main"}
           /\ k.step \in {"unmount", "forget", "tell"}
           /\ \A step \in {"unmount", "forget", "tell"} : LET n == [k EXCEPT !.step = step] IN
                 n \in Tasks /\ n.mount = k.mount /\ n.why = k.why /\ n.step = step
BY DEF Tasks

LEMMA NewTask ==
    ASSUME NEW m \in Mounts, NEW why \in {"user", "transfer", "unplug", "main"},
           NEW step \in {"unmount", "forget", "tell"}
    PROVE  LET n == [mount |-> m, why |-> why, step |-> step] IN
              n \in Tasks /\ n.mount = m /\ n.why = why /\ n.step = step
BY DEF Tasks

LEMMA EventTaken ==
    ASSUME NEW s \in Seq(Events), s # <<>>
    PROVE  Head(s) \in Events /\ Head(s).device \in Devices /\ Tail(s) \in Seq(Events)
<1>1. Head(s) \in Events /\ Tail(s) \in Seq(Events)
    OBVIOUS
<1> QED  BY <1>1 DEF Events

LEMMA RemoveType ==
    ASSUME TypeOK, NEW gone \in SUBSET Mounts, Remove(gone)
    PROVE  entries' \subseteq Mounts /\ marked' \subseteq Mounts
           /\ users' \in [Mounts -> SUBSET Transfers]
BY DEF TypeOK, Remove

LEMMA TellType ==
    ASSUME TypeOK, NEW m \in Mounts, NEW status \in Statuses, Tell(m, status)
    PROVE  shown' \in [Mounts -> Statuses]
BY DEF TypeOK, Tell, Statuses

LEMMA BecomeType ==
    ASSUME TypeOK, NEW k \in tasks, NEW step \in {"unmount", "forget", "tell"}, Become(k, step)
    PROVE  tasks' \subseteq Tasks
<1>1. k \in Tasks
    BY DEF TypeOK
<1>2. [k EXCEPT !.step = step] \in Tasks
    BY <1>1, TaskFields
<1> QED  BY <1>2 DEF TypeOK, Become

LEMMA EventsType ==
    ASSUME TypeOK
    PROVE  events \in Seq(Events)
BY DEF TypeOK, Events

LEMMA TransferTypes ==
    ASSUME TypeOK, NEW t \in Transfers,
           TransferStep(t) \/ StartManual(t) \/ Approve(t) \/ GiveUp(t)
    PROVE  TypeOK'
<1>1. CASE ResolveRoot(t)
    <2>1. MountedAt(location[t]) \subseteq Mounts
        BY DEF MountedAt, EntriesOf, TypeOK
    <2>2. root' \in [Transfers -> Mounts \cup {NoMount}]
        BY <1>1, <2>1 DEF ResolveRoot, TypeOK
    <2> QED  BY <1>1, <2>2 DEF ResolveRoot, TransferGoto, TypeOK, TransferSteps, manager
<1>2. CASE RegisterUser(t)
    BY <1>2 DEF RegisterUser, TransferGoto, TypeOK, TransferSteps
<1>3. CASE RemountReadWrite(t)
    BY <1>3 DEF RemountReadWrite, TransferGoto, TypeOK, TransferSteps, manager
<1>4. CASE FinishMove(t)
    <2>1. tasks' \subseteq Tasks
        <3>1. ASSUME NEW k \in tasks'
              PROVE  k \in Tasks
            <4>1. k \in tasks \/ \E m \in entries :
                    k \in [mount : {m}, why : {"transfer"},
                           step : {IF m \in marked THEN "unmount" ELSE "forget"}]
                BY <1>4 DEF FinishMove
            <4> QED  BY <4>1 DEF TypeOK, Tasks
        <3> QED  BY <3>1
    <2> QED  BY <1>4, <2>1 DEF FinishMove, TransferEnds, TransferGoto, TypeOK, TransferSteps
<1>5. CASE StartManual(t)
    BY <1>5 DEF StartManual, TransferGoto, TypeOK, TransferSteps, manager
<1>6. CASE Approve(t)
    BY <1>6 DEF Approve, TransferGoto, TypeOK, TransferSteps, manager
<1>7. CASE GiveUp(t)
    BY <1>7 DEF GiveUp, TransferEnds, TransferGoto, TypeOK, TransferSteps, manager
<1> QED  BY <1>1, <1>2, <1>3, <1>4, <1>5, <1>6, <1>7 DEF TransferStep

LEMMA LocationTypes ==
    ASSUME TypeOK, NEW t \in Transfers, NEW d \in Devices, PickLocation(t, d)
    PROVE  TypeOK'
BY DEF PickLocation, TransferGoto, TypeOK, TransferSteps, manager

LEMMA DeviceTypes ==
    ASSUME TypeOK, NEW d \in Devices, Plug(d) \/ Unplug(d)
    PROVE  TypeOK'
<1>1. ASSUME NEW action \in {"add", "remove"},
             events' = Queued([device |-> d, action |-> action])
      PROVE  events' \in Seq(Events)
    <2>1. [device |-> d, action |-> action] \in Events
        BY DEF Events
    <2> QED  BY <1>1, <2>1, EventsType DEF Queued
<1>2. events' \in Seq(Events) /\ plugged' \subseteq Devices
    BY <1>1 DEF Plug, Unplug, TypeOK
<1> QED  BY <1>2 DEF Plug, Unplug, TypeOK, manager, transfer, Events

LEMMA LoopTypes ==
    ASSUME TypeOK, StartMount \/ RemoveMounts \/ LeaveLoop
    PROVE  TypeOK'
<1>1. CASE StartMount
    <2>1. Head(events).device \in Devices /\ events' \in Seq(Events)
        BY <1>1, EventTaken, EventsType DEF StartMount
    <2>2. PICK d \in Devices : d = Head(events).device
        BY <2>1
    <2>3. CASE UNCHANGED <<manager, mpc, shown>>
        BY <1>1, <2>1, <2>3 DEF StartMount, TypeOK, manager, transfer, Events
    <2>4. CASE \E n \in Mounts :
                /\ mpc[n] = "none" /\ MountGoto(n, "starting")
                /\ device' = [device EXCEPT ![n] = d]
                /\ entries' = entries \cup {n}
                /\ shown' = [shown EXCEPT ![n] = "Mounting"]
                /\ UNCHANGED <<marked, users>>
        BY <1>1, <2>1, <2>4 DEF StartMount, MountGoto, TypeOK, MountSteps, Statuses, transfer, Events
    <2> QED  BY <1>1, <2>2, <2>3, <2>4 DEF StartMount
<1>2. CASE RemoveMounts
    <2> DEFINE gone == EntriesOf(Head(events).device)
    <2>1. events' \in Seq(Events)
        BY <1>2, EventTaken, EventsType DEF RemoveMounts
    <2>2. gone \in SUBSET Mounts
        BY DEF EntriesOf, TypeOK
    <2>3. Remove(gone)
        BY <1>2 DEF RemoveMounts
    <2>4. tasks' \subseteq Tasks
        <3>1. [mount : gone \cap marked, why : {"unplug"}, step : {"unmount"}] \subseteq Tasks
            BY <2>2 DEF Tasks
        <3> QED  BY <1>2, <3>1 DEF RemoveMounts, TypeOK
    <2>5. shown' \in [Mounts -> Statuses]
        BY <1>2 DEF RemoveMounts, TypeOK, Statuses
    <2> HIDE DEF gone
    <2>6. /\ entries' \subseteq Mounts /\ marked' \subseteq Mounts
          /\ users' \in [Mounts -> SUBSET Transfers]
        BY <2>2, <2>3, RemoveType
    <2> QED  BY <1>2, <2>1, <2>4, <2>5, <2>6 DEF RemoveMounts, TypeOK, transfer, Events
<1>3. CASE LeaveLoop
    <2>1. /\ entries' \subseteq Mounts /\ marked' \subseteq Mounts
          /\ users' \in [Mounts -> SUBSET Transfers]
        BY <1>3, RemoveType DEF LeaveLoop, TypeOK
    <2>2. kernel' \subseteq Mounts /\ given_up' \subseteq Mounts
        BY <1>3 DEF LeaveLoop, TypeOK
    <2> QED  BY <1>3, <2>1, <2>2 DEF LeaveLoop, TypeOK, transfer
<1> QED  BY <1>1, <1>2, <1>3

LEMMA RequestTypes ==
    ASSUME TypeOK, NEW m \in Mounts, RequestUnmount(m) \/ StartUnmount(m)
    PROVE  TypeOK'
<1>1. CASE StartUnmount(m)
    <2>1. \A why \in {"user", "main"}, step \in {"unmount", "forget"} :
            [mount |-> m, why |-> why, step |-> step] \in Tasks
        BY NewTask
    <2>2. \/ tasks' = tasks
          \/ tasks' = tasks \cup {[mount |-> m, why |-> "user", step |-> "unmount"]}
          \/ tasks' = tasks \cup {[mount |-> m, why |-> "main", step |-> "forget"]}
        BY <1>1 DEF StartUnmount
    <2>3. tasks' \subseteq Tasks
        BY <2>1, <2>2 DEF TypeOK
    <2> QED  BY <1>1, <2>3 DEF StartUnmount, TypeOK, manager, transfer
<1>2. CASE RequestUnmount(m)
    BY <1>2 DEF RequestUnmount, TypeOK, manager, transfer
<1> QED  BY <1>1, <1>2

LEMMA MountTypes ==
    ASSUME TypeOK, NEW m \in Mounts, MountStep(m)
    PROVE  TypeOK'
<1>1. CASE CheckDevice(m)
    <2>1. mpc' \in [Mounts -> MountSteps]
        BY <1>1 DEF CheckDevice, MountGoto, TypeOK, MountSteps
    <2>2. shown' \in [Mounts -> Statuses]
        BY <1>1, TellType DEF CheckDevice, TypeOK, Statuses
    <2>3. /\ entries' \subseteq Mounts /\ marked' \subseteq Mounts
          /\ users' \in [Mounts -> SUBSET Transfers]
        <3>1. Remove({m}) \/ UNCHANGED <<entries, marked, users>>
            BY <1>1 DEF CheckDevice
        <3> QED  BY <3>1, RemoveType DEF TypeOK
    <2> QED  BY <1>1, <2>1, <2>2, <2>3 DEF CheckDevice, TypeOK, transfer
<1>2. CASE Mount(m)
    <2>1. mpc' \in [Mounts -> MountSteps]
        BY <1>2 DEF Mount, MountGoto, TypeOK, MountSteps
    <2>2. shown' \in [Mounts -> Statuses]
        BY <1>2, TellType DEF Mount, TypeOK, Statuses
    <2>3. kernel' \subseteq Mounts
        BY <1>2 DEF Mount, TypeOK
    <2> QED  BY <1>2, <2>1, <2>2, <2>3 DEF Mount, TypeOK, transfer, manager
<1>3. CASE Mark(m)
    BY <1>3 DEF Mark, MountGoto, TypeOK, MountSteps, transfer
<1>4. CASE MountCompleted(m)
    <2>1. shown' \in [Mounts -> Statuses]
        BY <1>4, TellType DEF MountCompleted, Statuses
    <2> QED  BY <1>4, <2>1 DEF MountCompleted, MountGoto, TypeOK, MountSteps, transfer, manager
<1>5. CASE MountThreadEnds(m)
    BY <1>5 DEF MountThreadEnds, MountGoto, TypeOK, MountSteps, transfer, manager
<1> QED  BY <1>1, <1>2, <1>3, <1>4, <1>5 DEF MountStep

LEMMA UnmountTypes ==
    ASSUME TypeOK, NEW k \in tasks, Unmount(k) \/ Forget(k) \/ MountRemoved(k)
    PROVE  TypeOK'
<1>1. k \in Tasks /\ k.mount \in Mounts
    BY TaskFields DEF TypeOK
<1>2. CASE Unmount(k)
    <2>1. tasks' \subseteq Tasks
        BY <1>2, BecomeType DEF Unmount, TypeOK
    <2>2. shown' \in [Mounts -> Statuses]
        BY <1>1, <1>2, TellType DEF Unmount, TypeOK, Statuses
    <2>3. kernel' \subseteq Mounts /\ given_up' \subseteq Mounts
        BY <1>2 DEF Unmount, TypeOK
    <2> QED  BY <1>2, <2>1, <2>2, <2>3 DEF Unmount, TypeOK, transfer, manager
<1>3. CASE Forget(k)
    <2>1. tasks' \subseteq Tasks
        BY <1>3, BecomeType DEF Forget
    <2>2. /\ entries' \subseteq Mounts /\ marked' \subseteq Mounts
          /\ users' \in [Mounts -> SUBSET Transfers]
        BY <1>1, <1>3, RemoveType DEF Forget
    <2> QED  BY <1>3, <2>1, <2>2 DEF Forget, TypeOK, transfer
<1>4. CASE MountRemoved(k)
    BY <1>1, <1>4 DEF MountRemoved, TypeOK, Statuses, transfer, manager
<1> QED  BY <1>2, <1>3, <1>4

LEMMA TypeKept ==
    ASSUME TypeOK, [Next]_vars
    PROVE  TypeOK'
<1>1. CASE \E d \in Devices : Plug(d) \/ Unplug(d)
    BY <1>1, DeviceTypes
<1>2. CASE StartMount \/ RemoveMounts \/ Quit \/ CompleteBackupAndExit
    BY <1>2, LoopTypes DEF Quit, CompleteBackupAndExit
<1>3. CASE \E m \in Mounts : RequestUnmount(m) \/ StartUnmount(m) \/ MountStep(m)
    BY <1>3, RequestTypes, MountTypes
<1>4. CASE UnmountStep
    BY <1>4, UnmountTypes DEF UnmountStep
<1>5. CASE \E t \in Transfers : TransferStep(t) \/ UserStep(t)
    <2>1. PICK t \in Transfers : TransferStep(t) \/ UserStep(t)
        BY <1>5
    <2> QED  BY <2>1, TransferTypes, LocationTypes DEF UserStep
<1>6. CASE \E m \in Mounts, t \in Transfers : SpawnTransfer(m, t)
    <2>1. PICK m \in Mounts, t \in Transfers : SpawnTransfer(m, t)
        BY <1>6
    <2> QED  BY <2>1 DEF SpawnTransfer, TransferGoto, TypeOK, TransferSteps, manager
<1>7. CASE UNCHANGED vars
    BY <1>7 DEF vars, TypeOK
<1> QED  BY <1>1, <1>2, <1>3, <1>4, <1>5, <1>6, <1>7 DEF Next

-----------------------------------------------------------------------------
(* Steps that leave what the invariants speak of alone *)

core == <<prog, entries, marked, kernel, mpc, tasks, shown>>

LEMMA CoreUnchanged ==
    ASSUME Invs, UNCHANGED core
    PROVE  Invs'
BY DEF Invs, core, EntriesInv, TasksInv, ShownInv, MarkedEntriesAreMounted

LEMMA QuietStepKeeps ==
    ASSUME Invs,
           \/ \E d \in Devices : Plug(d) \/ Unplug(d)
           \/ \E m \in Mounts : RequestUnmount(m)
           \/ \E m \in Mounts, t \in Transfers : SpawnTransfer(m, t)
           \/ \E t \in Transfers : ResolveRoot(t) \/ RegisterUser(t) \/ RemountReadWrite(t)
           \/ \E t \in Transfers : UserStep(t)
           \/ UNCHANGED vars
    PROVE  Invs'
<1>1. UNCHANGED core
    BY DEF core, Plug, Unplug, RequestUnmount, SpawnTransfer, ResolveRoot, RegisterUser,
           RemountReadWrite, UserStep, StartManual, Approve, GiveUp, PickLocation, vars, manager
<1> QED  BY <1>1, CoreUnchanged

-----------------------------------------------------------------------------
(* The main loop *)

LEMMA StartMountKeeps ==
    ASSUME TypeOK, Invs, StartMount
    PROVE  Invs'
<1>1. CASE UNCHANGED <<manager, mpc, shown>>
    BY <1>1, CoreUnchanged DEF StartMount, core, manager
<1>2. CASE ~UNCHANGED <<manager, mpc, shown>>
    <2>1. PICK m \in Mounts : /\ mpc[m] = "none" /\ mpc' = [mpc EXCEPT ![m] = "starting"]
                              /\ entries' = entries \cup {m}
                              /\ shown' = [shown EXCEPT ![m] = "Mounting"]
        BY <1>2 DEF StartMount, MountGoto
    <2>2. UNCHANGED <<prog, marked, kernel, tasks>>
        BY <1>2 DEF StartMount
    <2>3. \A n \in Mounts : /\ mpc'[n] = IF n = m THEN "starting" ELSE mpc[n]
                            /\ shown'[n] = IF n = m THEN "Mounting" ELSE shown[n]
        BY <2>1 DEF TypeOK
    <2>4. \A k \in tasks : k.mount \in Mounts /\ k.mount # m
        <3>1. ASSUME NEW k \in tasks
              PROVE  k.mount \in Mounts /\ k.mount # m
            <4>1. k \in Tasks /\ mpc[k.mount] # "none"
                BY DEF Invs, TasksInv, TypeOK
            <4> QED  BY <2>1, <4>1, TaskFields
        <3> QED  BY <3>1
    <2>5. EntriesInv'
        BY <2>1, <2>2, <2>3 DEF Invs, EntriesInv, Past
    <2>6. TasksInv'
        BY <2>1, <2>2, <2>3, <2>4 DEF Invs, TasksInv
    <2>7. ShownInv'
        BY <2>1, <2>2, <2>3 DEF Invs, ShownInv, EntriesInv, Past
    <2>8. MarkedEntriesAreMounted'
        BY <2>2 DEF Invs, MarkedEntriesAreMounted
    <2> QED  BY <2>5, <2>6, <2>7, <2>8 DEF Invs
<1> QED  BY <1>1, <1>2

LEMMA RemoveMountsKeeps ==
    ASSUME TypeOK, Invs, RemoveMounts
    PROVE  Invs'
<1>1. PICK gone \in SUBSET entries :
        /\ entries' = entries \ gone /\ marked' = marked \ gone
        /\ tasks' = tasks \cup [mount : gone \cap marked, why : {"unplug"}, step : {"unmount"}]
        /\ shown' = [m \in Mounts |-> IF m \in gone \ marked THEN "absent" ELSE shown[m]]
    <2>1. EntriesOf(Head(events).device) \in SUBSET entries
        BY DEF EntriesOf
    <2> QED  BY <2>1 DEF RemoveMounts, Remove
<1>2. UNCHANGED <<prog, kernel, mpc>>
    BY DEF RemoveMounts
<1>3. ASSUME NEW k \in tasks', k \notin tasks
      PROVE  k.mount \in gone \cap marked /\ k.why = "unplug" /\ k.step = "unmount"
    BY <1>1, <1>3
<1>4. \A m \in gone \cap marked : \E k \in tasks' : k.mount = m /\ k.why = "unplug"
    <2>1. ASSUME NEW m \in gone \cap marked
          PROVE  \E k \in tasks' : k.mount = m /\ k.why = "unplug"
        <3> DEFINE n == [mount |-> m, why |-> "unplug", step |-> "unmount"]
        <3>1. n \in tasks' /\ n.mount = m /\ n.why = "unplug"
            BY <1>1
        <3> QED  BY <3>1
    <2> QED  BY <2>1
<1>5. EntriesInv'
    BY <1>1, <1>2 DEF Invs, EntriesInv, Past
<1>6. TasksInv'
    <2>1. ASSUME NEW k \in tasks'
          PROVE  /\ mpc[k.mount] # "none"
                 /\ k.step = "unmount" => /\ mpc[k.mount] \in Past
                                          /\ k.mount \in entries' => k.mount \in marked'
                 /\ k.why = "unplug" \/ k.step = "tell" => k.mount \notin entries'
                 /\ k.why = "unplug" => k.step # "forget"
        <3>1. CASE k \in tasks
            BY <1>1, <3>1 DEF Invs, TasksInv
        <3>2. CASE k \notin tasks
            <4>1. k.mount \in gone /\ k.mount \in marked /\ k.why = "unplug" /\ k.step = "unmount"
                BY <1>3, <3>2
            <4>2. k.mount \in Mounts
                BY <4>1 DEF TypeOK
            <4> QED  BY <1>1, <4>1, <4>2 DEF Invs, EntriesInv, Past
        <3> QED  BY <3>1, <3>2
    <2> QED  BY <1>2, <2>1 DEF TasksInv
<1>7. ShownInv'
    <2>1. \A m \in Mounts : shown'[m] = IF m \in gone \ marked THEN "absent" ELSE shown[m]
        BY <1>1
    <2>2. ASSUME NEW m \in Mounts, prog = "up", m \notin entries', shown'[m] # "absent"
          PROVE  \E k \in tasks' : k.mount = m /\ (k.why = "unplug" \/ k.step = "tell")
        <3>1. CASE m \in gone
            BY <1>4, <2>1, <2>2, <3>1
        <3>2. CASE m \notin gone
            BY <1>1, <2>1, <2>2, <3>2 DEF Invs, ShownInv
        <3> QED  BY <3>1, <3>2
    <2>3. ASSUME NEW m \in Mounts
          PROVE  /\ mpc[m] = "none" => shown'[m] = "absent"
                 /\ m \in entries' => shown'[m] # "absent"
                 /\ shown'[m] = "Mounting" => mpc[m] \in {"starting", "mounting", "mounted", "marked"}
                 /\ m \in marked' /\ mpc[m] \in {"spawning", "done"}
                        => shown'[m] \in {"Mounted", "UnmountFailed"}
                 /\ m \in entries' /\ shown'[m] \in {"Mounted", "UnmountFailed"} => m \in marked'
        BY <1>1, <2>1 DEF Invs, ShownInv
    <2> QED  BY <1>2, <2>2, <2>3 DEF ShownInv
<1>8. MarkedEntriesAreMounted'
    BY <1>1, <1>2 DEF Invs, MarkedEntriesAreMounted
<1> QED  BY <1>5, <1>6, <1>7, <1>8 DEF Invs

\* Tasks are only added; each works on an entry, and unmounts it only if it is marked.
LEMMA TasksAdded ==
    ASSUME TypeOK, Invs, UNCHANGED <<prog, entries, marked, kernel, mpc, shown>>,
           tasks \subseteq tasks',
           \A k \in tasks' \ tasks :
                /\ k.mount \in entries /\ k.why # "unplug" /\ k.step \in {"unmount", "forget"}
                /\ k.step = "unmount" => k.mount \in marked
    PROVE  Invs'
<1>1. EntriesInv' /\ ShownInv' /\ MarkedEntriesAreMounted'
    BY DEF Invs, EntriesInv, ShownInv, MarkedEntriesAreMounted
<1>2. TasksInv'
    <2>1. ASSUME NEW k \in tasks'
          PROVE  /\ mpc[k.mount] # "none"
                 /\ k.step = "unmount" => /\ mpc[k.mount] \in Past
                                          /\ k.mount \in entries => k.mount \in marked
                 /\ k.why = "unplug" \/ k.step = "tell" => k.mount \notin entries
                 /\ k.why = "unplug" => k.step # "forget"
        <3>1. CASE k \in tasks
            BY <3>1 DEF Invs, TasksInv
        <3>2. CASE k \notin tasks
            BY <3>2 DEF Invs, EntriesInv, TypeOK
        <3> QED  BY <3>1, <3>2
    <2> QED  BY <2>1 DEF TasksInv
<1> QED  BY <1>1, <1>2 DEF Invs

LEMMA StartUnmountKeeps ==
    ASSUME TypeOK, Invs, NEW m \in Mounts, StartUnmount(m)
    PROVE  Invs'
<1>1. \/ tasks' = tasks
      \/ /\ m \in marked
         /\ tasks' = tasks \cup {[mount |-> m, why |-> "user", step |-> "unmount"]}
      \/ /\ m \in entries \ marked
         /\ tasks' = tasks \cup {[mount |-> m, why |-> "main", step |-> "forget"]}
    BY DEF StartUnmount
<1>2. UNCHANGED <<prog, entries, marked, kernel, mpc, shown>>
    BY DEF StartUnmount, manager
<1>3. marked \subseteq entries
    BY DEF Invs, EntriesInv
<1>4. ASSUME NEW k \in tasks', k \notin tasks
      PROVE  /\ k.mount \in entries /\ k.why # "unplug" /\ k.step \in {"unmount", "forget"}
             /\ k.step = "unmount" => k.mount \in marked
    BY <1>1, <1>3, <1>4
<1>5. tasks \subseteq tasks'
    BY <1>1
<1> QED  BY <1>2, <1>4, <1>5, TasksAdded

LEMMA FinishMoveKeeps ==
    ASSUME TypeOK, Invs, NEW t \in Transfers, FinishMove(t)
    PROVE  Invs'
<1>1. UNCHANGED <<prog, entries, marked, kernel, mpc, shown>> /\ tasks \subseteq tasks'
    BY DEF FinishMove
<1>2. ASSUME NEW k \in tasks', k \notin tasks
      PROVE  /\ k.mount \in entries /\ k.why # "unplug" /\ k.step \in {"unmount", "forget"}
             /\ k.step = "unmount" => k.mount \in marked
    <2>1. PICK m \in entries : k \in [mount : {m}, why : {"transfer"},
                                      step : {IF m \in marked THEN "unmount" ELSE "forget"}]
        BY <1>2 DEF FinishMove
    <2> QED  BY <2>1
<1> QED  BY <1>1, <1>2, TasksAdded

LEMMA LeaveLoopKeeps ==
    ASSUME TypeOK, Invs, LeaveLoop
    PROVE  Invs'
<1>1. /\ prog' = "left" /\ entries' = {} /\ UNCHANGED <<mpc, tasks, shown>> /\ marked' = {}
      /\ \A m \in Mounts : m \in kernel /\ m \notin marked => m \in kernel'
    BY DEF LeaveLoop, Remove, Invs, EntriesInv
<1>2. EntriesInv'
    BY <1>1 DEF Invs, EntriesInv, Past
<1>3. TasksInv'
    BY <1>1 DEF Invs, TasksInv
<1>4. ShownInv' /\ MarkedEntriesAreMounted'
    BY <1>1 DEF Invs, ShownInv, MarkedEntriesAreMounted
<1> QED  BY <1>2, <1>3, <1>4 DEF Invs

-----------------------------------------------------------------------------
(* The mount thread *)

\* What a step of the mount thread of m may change; the others' mounts stay as they are.
LEMMA MountStepKeeps ==
    ASSUME TypeOK, Invs, NEW m \in Mounts, MountStep(m)
    PROVE  Invs'
<1>1. /\ UNCHANGED <<prog, tasks>> /\ mpc[m] \notin {"none", "done"}
      /\ \E step \in MountSteps : mpc' = [mpc EXCEPT ![m] = step]
      /\ kernel \subseteq kernel'
    BY DEF MountStep, CheckDevice, Mount, Mark, MountCompleted, MountThreadEnds, MountGoto, MountSteps
<1>2. /\ \A n \in Mounts : n # m => mpc'[n] = mpc[n]
      /\ \A n \in Mounts : n # m => shown'[n] = shown[n]
      /\ \A n \in Mounts : n # m => (n \in entries' <=> n \in entries)
      /\ \A n \in Mounts : n # m => (n \in marked' <=> n \in marked)
      /\ entries' \subseteq entries /\ entries' \subseteq Mounts /\ marked' \subseteq Mounts
    <2>1. \A n \in Mounts : n # m => mpc'[n] = mpc[n]
        BY <1>1 DEF TypeOK
    <2>2. \A n \in Mounts : n # m => shown'[n] = shown[n]
        BY DEF MountStep, CheckDevice, Mount, Mark, MountCompleted, MountThreadEnds, Tell, TypeOK
    <2>3. /\ entries' \subseteq entries
          /\ \A n \in Mounts : n # m => (n \in entries' <=> n \in entries)
          /\ \A n \in Mounts : n # m => (n \in marked' <=> n \in marked)
        BY DEF MountStep, CheckDevice, Mount, Mark, MountCompleted, MountThreadEnds, Remove, manager
    <2>4. marked' \subseteq Mounts
        BY DEF MountStep, CheckDevice, Mount, Mark, MountCompleted, MountThreadEnds, Remove, manager,
               TypeOK
    <2> QED  BY <2>1, <2>2, <2>3, <2>4 DEF TypeOK
\* The conjuncts of the invariants that speak of m itself.
<1>3. /\ mpc'[m] # "none"
      /\ m \in marked' => m \in entries' /\ mpc'[m] \in Past
      /\ m \in entries' /\ mpc'[m] \in {"marked", "spawning"} => m \in marked'
      /\ mpc'[m] = "mounted" => m \in kernel'
      /\ mpc[m] \in Past => mpc'[m] \in Past /\ (m \in entries' => m \in entries)
                            /\ (m \in marked' <=> m \in marked)
      /\ m \in entries' => shown'[m] # "absent"
      /\ m \notin entries' /\ shown'[m] # "absent" => m \notin entries /\ shown[m] # "absent"
      /\ shown'[m] = "Mounting" => mpc'[m] \in {"starting", "mounting", "mounted", "marked"}
      /\ m \in marked' /\ mpc'[m] \in {"spawning", "done"} => shown'[m] \in {"Mounted", "UnmountFailed"}
      /\ m \in entries' /\ shown'[m] \in {"Mounted", "UnmountFailed"} => m \in marked'
      /\ m \in marked' /\ m \notin marked => m \in kernel'
    <2>1. /\ m \in marked => m \in entries /\ mpc[m] \in Past
          /\ m \in entries /\ mpc[m] \in {"marked", "spawning"} => m \in marked
          /\ mpc[m] = "mounted" => m \in kernel
          /\ m \in entries => shown[m] # "absent"
          /\ shown[m] = "Mounting" => mpc[m] \in {"starting", "mounting", "mounted", "marked"}
          /\ m \in marked /\ mpc[m] \in {"spawning", "done"} => shown[m] \in {"Mounted", "UnmountFailed"}
          /\ m \in entries /\ shown[m] \in {"Mounted", "UnmountFailed"} => m \in marked
          /\ mpc \in [Mounts -> MountSteps] /\ shown \in [Mounts -> Statuses]
        BY DEF Invs, EntriesInv, ShownInv, TypeOK
    <2>2. CASE CheckDevice(m)
        BY <2>1, <2>2 DEF CheckDevice, MountGoto, Remove, Tell, Past, Statuses
    <2>3. CASE Mount(m)
        BY <2>1, <2>3 DEF Mount, MountGoto, Tell, Past, Statuses, manager
    <2>4. CASE Mark(m)
        BY <2>1, <2>4 DEF Mark, MountGoto, Past, Statuses
    <2>5. CASE MountCompleted(m)
        BY <2>1, <2>5 DEF MountCompleted, MountGoto, Tell, Past, Statuses, manager
    <2>6. CASE MountThreadEnds(m)
        BY <2>1, <2>6 DEF MountThreadEnds, MountGoto, Past, Statuses, manager
    <2> QED  BY <2>2, <2>3, <2>4, <2>5, <2>6 DEF MountStep
<1>4. EntriesInv'
    BY <1>1, <1>2, <1>3 DEF Invs, EntriesInv, TypeOK
<1>5. TasksInv'
    <2>1. ASSUME NEW k \in tasks
          PROVE  /\ mpc'[k.mount] # "none"
                 /\ k.step = "unmount" => /\ mpc'[k.mount] \in Past
                                          /\ k.mount \in entries' => k.mount \in marked'
                 /\ k.why = "unplug" \/ k.step = "tell" => k.mount \notin entries'
                 /\ k.why = "unplug" => k.step # "forget"
        <3>1. PICK n \in Mounts : n = k.mount
            BY TaskFields DEF TypeOK
        <3>2. /\ mpc[n] # "none"
              /\ k.step = "unmount" => mpc[n] \in Past /\ (n \in entries => n \in marked)
              /\ k.why = "unplug" \/ k.step = "tell" => n \notin entries
              /\ k.why = "unplug" => k.step # "forget"
            BY <3>1 DEF Invs, TasksInv
        <3>3. CASE n = m
            BY <1>2, <1>3, <3>1, <3>2, <3>3
        <3>4. CASE n # m
            BY <1>2, <3>1, <3>2, <3>4
        <3> QED  BY <3>3, <3>4
    <2> QED  BY <1>1, <2>1 DEF TasksInv
<1>6. ShownInv'
    BY <1>1, <1>2, <1>3 DEF Invs, ShownInv
<1>7. MarkedEntriesAreMounted'
    BY <1>1, <1>2, <1>3 DEF Invs, MarkedEntriesAreMounted
<1> QED  BY <1>4, <1>5, <1>6, <1>7 DEF Invs

-----------------------------------------------------------------------------
(* The unmount threads *)

LEMMA Becomes ==
    ASSUME TypeOK, NEW k \in tasks, NEW step \in {"unmount", "forget", "tell"}, Become(k, step)
    PROVE  \E n \in Tasks : /\ n.mount = k.mount /\ n.why = k.why /\ n.step = step
                            /\ tasks' = (tasks \ {k}) \cup {n}
<1>1. k \in Tasks
    BY DEF TypeOK
<1> DEFINE n == [k EXCEPT !.step = step]
<1>2. n \in Tasks /\ n.mount = k.mount /\ n.why = k.why /\ n.step = step
    BY <1>1 DEF Tasks
<1>3. tasks' = (tasks \ {k}) \cup {n}
    BY DEF Become
<1> HIDE DEF n
<1> QED  BY <1>2, <1>3

LEMMA UnmountKeeps ==
    ASSUME TypeOK, Invs, NEW k \in tasks, Unmount(k)
    PROVE  Invs'
<1>1. PICK m \in Mounts : m = k.mount
    BY TaskFields DEF TypeOK
<1>2. /\ k.step = "unmount" /\ mpc[m] \in Past /\ (m \in entries => m \in marked)
      /\ k.why = "unplug" => m \notin entries
    BY <1>1 DEF Unmount, Invs, TasksInv
<1>3. UNCHANGED <<prog, entries, marked, mpc>>
    BY DEF Unmount, manager
<1>4. marked \subseteq entries
    BY DEF Invs, EntriesInv
<1>5. \/ /\ k.why # "unplug" /\ kernel' = kernel \ {m} /\ Become(k, "forget") /\ UNCHANGED shown
      \/ /\ k.why = "unplug" /\ kernel' \in {kernel, kernel \ {m}} /\ Become(k, "tell")
         /\ UNCHANGED shown
      \/ /\ k.why # "unplug" /\ tasks' = tasks \ {k} /\ kernel' = kernel /\ Tell(m, "UnmountFailed")
    BY <1>1 DEF Unmount
<1>6. EntriesInv'
    <2>1. \A x \in Mounts : x \in kernel /\ x # m => x \in kernel'
        BY <1>5
    <2> QED  BY <1>2, <1>3, <2>1 DEF Invs, EntriesInv, Past
<1>7. CASE k.why # "unplug" /\ kernel' = kernel \ {m} /\ Become(k, "forget") /\ UNCHANGED shown
    <2>1. PICK n \in Tasks : /\ n.mount = m /\ n.why = k.why /\ n.step = "forget"
                             /\ tasks' = (tasks \ {k}) \cup {n}
        BY <1>1, <1>7, Becomes
    <2>2. TasksInv'
        BY <1>2, <1>3, <1>7, <2>1 DEF Invs, TasksInv, Past
    <2>3. ShownInv'
        BY <1>2, <1>3, <1>7, <2>1 DEF Invs, ShownInv
    <2>4. MarkedEntriesAreMounted'
        BY <1>2, <1>3, <1>7, <2>1 DEF Invs, MarkedEntriesAreMounted
    <2> QED  BY <1>6, <2>2, <2>3, <2>4 DEF Invs
<1>8. CASE /\ k.why = "unplug" /\ kernel' \in {kernel, kernel \ {m}} /\ Become(k, "tell")
           /\ UNCHANGED shown
    <2>1. PICK n \in Tasks : /\ n.mount = m /\ n.why = k.why /\ n.step = "tell"
                             /\ tasks' = (tasks \ {k}) \cup {n}
        BY <1>1, <1>8, Becomes
    <2>2. TasksInv'
        BY <1>2, <1>3, <1>8, <2>1 DEF Invs, TasksInv, Past
    <2>3. ShownInv'
        BY <1>1, <1>2, <1>3, <1>8, <2>1 DEF Invs, ShownInv
    <2>4. MarkedEntriesAreMounted'
        BY <1>2, <1>3, <1>4, <1>8, <2>1 DEF Invs, MarkedEntriesAreMounted
    <2> QED  BY <1>6, <2>2, <2>3, <2>4 DEF Invs
<1>9. CASE /\ k.why # "unplug" /\ tasks' = tasks \ {k} /\ kernel' = kernel
           /\ Tell(m, "UnmountFailed")
    <2>1. \A x \in Mounts : shown'[x] = IF x # m \/ shown[m] = "absent" THEN shown[x]
                                        ELSE "UnmountFailed"
        BY <1>9 DEF Tell, TypeOK
    <2>2. TasksInv'
        BY <1>3, <1>9 DEF Invs, TasksInv
    <2>3. ShownInv'
        BY <1>2, <1>3, <1>9, <2>1 DEF Invs, ShownInv, Past
    <2>4. MarkedEntriesAreMounted'
        BY <1>2, <1>3, <1>9 DEF Invs, MarkedEntriesAreMounted
    <2> QED  BY <1>6, <2>2, <2>3, <2>4 DEF Invs
<1> QED  BY <1>5, <1>7, <1>8, <1>9

LEMMA ForgetKeeps ==
    ASSUME TypeOK, Invs, NEW k \in tasks, Forget(k)
    PROVE  Invs'
<1>1. PICK m \in Mounts : m = k.mount
    BY TaskFields DEF TypeOK
<1>2. k.step = "forget" /\ mpc[m] # "none" /\ k.why # "unplug"
    BY <1>1 DEF Forget, Invs, TasksInv
<1>3. UNCHANGED <<prog, kernel, mpc, shown>> /\ entries' = entries \ {m} /\ marked' = marked \ {m}
    BY <1>1 DEF Forget, Remove
<1>4. PICK n \in Tasks : /\ n.mount = m /\ n.why = k.why /\ n.step = "tell"
                         /\ tasks' = (tasks \ {k}) \cup {n}
    BY <1>1, Becomes DEF Forget
<1>5. EntriesInv'
    BY <1>3 DEF Invs, EntriesInv, Past
<1>6. TasksInv'
    BY <1>2, <1>3, <1>4 DEF Invs, TasksInv
<1>7. ShownInv'
    BY <1>2, <1>3, <1>4 DEF Invs, ShownInv
<1>8. MarkedEntriesAreMounted'
    BY <1>1, <1>3, <1>4 DEF Invs, MarkedEntriesAreMounted
<1> QED  BY <1>5, <1>6, <1>7, <1>8 DEF Invs

LEMMA MountRemovedKeeps ==
    ASSUME TypeOK, Invs, NEW k \in tasks, MountRemoved(k)
    PROVE  Invs'
<1>1. PICK m \in Mounts : m = k.mount
    BY TaskFields DEF TypeOK
<1>2. k.step = "tell" /\ m \notin entries /\ m \notin marked
    BY <1>1 DEF MountRemoved, Invs, TasksInv, EntriesInv
<1>3. UNCHANGED <<prog, entries, marked, kernel, mpc>> /\ tasks' = tasks \ {k}
    BY DEF MountRemoved, manager
<1>4. \A x \in Mounts : shown'[x] = IF x = m THEN "absent" ELSE shown[x]
    BY <1>1 DEF MountRemoved, TypeOK
<1>5. EntriesInv' /\ TasksInv'
    BY <1>3 DEF Invs, EntriesInv, TasksInv
<1>6. ShownInv'
    BY <1>1, <1>2, <1>3, <1>4 DEF Invs, ShownInv
<1>7. MarkedEntriesAreMounted'
    BY <1>1, <1>2, <1>3 DEF Invs, MarkedEntriesAreMounted
<1> QED  BY <1>5, <1>6, <1>7 DEF Invs

-----------------------------------------------------------------------------
(* The theorems *)

LEMMA InitHolds ==
    ASSUME Init
    PROVE  TypeOK /\ Invs
<1>1. TypeOK
    BY DEF Init, TypeOK, MountSteps, TransferSteps, Statuses
<1>2. EntriesInv /\ TasksInv /\ ShownInv /\ MarkedEntriesAreMounted
    BY DEF Init, EntriesInv, TasksInv, ShownInv, MarkedEntriesAreMounted, Past
<1> QED  BY <1>1, <1>2 DEF Invs

LEMMA InvsKept ==
    ASSUME TypeOK, Invs, [Next]_vars
    PROVE  Invs'
<1>1. CASE StartMount \/ RemoveMounts \/ Quit \/ CompleteBackupAndExit
    BY <1>1, StartMountKeeps, RemoveMountsKeeps, LeaveLoopKeeps DEF Quit, CompleteBackupAndExit
<1>2. CASE \E m \in Mounts : StartUnmount(m) \/ MountStep(m)
    BY <1>2, StartUnmountKeeps, MountStepKeeps
<1>3. CASE UnmountStep
    BY <1>3, UnmountKeeps, ForgetKeeps, MountRemovedKeeps DEF UnmountStep
<1>4. CASE \E t \in Transfers : FinishMove(t)
    BY <1>4, FinishMoveKeeps
<1>5. CASE \/ \E d \in Devices : Plug(d) \/ Unplug(d)
           \/ \E m \in Mounts : RequestUnmount(m)
           \/ \E m \in Mounts, t \in Transfers : SpawnTransfer(m, t)
           \/ \E t \in Transfers : ResolveRoot(t) \/ RegisterUser(t) \/ RemountReadWrite(t)
           \/ \E t \in Transfers : UserStep(t)
           \/ UNCHANGED vars
    BY <1>5, QuietStepKeeps
<1> QED  BY <1>1, <1>2, <1>3, <1>4, <1>5 DEF Next, TransferStep

LEMMA Invariance == Spec => [](TypeOK /\ Invs)
<1>1. Init => TypeOK /\ Invs
    BY InitHolds
<1>2. TypeOK /\ Invs /\ [Next]_vars => (TypeOK /\ Invs)'
    BY TypeKept, InvsKept
<1> HIDE DEF Invs, TypeOK
<1> QED  BY <1>1, <1>2, PTL DEF Spec

\* Every variable keeps its type, whatever is plugged, unplugged, requested and quit when
\* (mount_manager.rs).
THEOREM TypeCorrect == Spec => []TypeOK
<1> HIDE DEF TypeOK, Invs
<1> QED  BY Invariance, PTL

\* However many devices, mounts, unmount threads and transfers there are, an entry with
\* is_mounted is mounted or about to be removed by the thread that unmounted it, which is
\* what get_mountpoint_for_real_device and remount_readwrite trust (mount_manager.rs).
THEOREM MarkedMounted == Spec => []MarkedEntriesAreMounted
<1>1. Invs => MarkedEntriesAreMounted
    BY DEF Invs
<1> HIDE DEF TypeOK, Invs, MarkedEntriesAreMounted
<1> QED  BY <1>1, Invariance, PTL

\* Whatever unmount threads overlapped, once those of a mount are done the UI lists it exactly
\* if it has an entry, as mounted exactly if it is marked, and never for ever as being mounted.
THEOREM QuietMountsShown == Spec => []QuietMountsAreShownAsTheyAre
<1>1. TypeOK /\ Invs => QuietMountsAreShownAsTheyAre
    BY DEF TypeOK, Invs, ShownInv, EntriesInv, Quiet, QuietMountsAreShownAsTheyAre
<1> HIDE DEF TypeOK, Invs, QuietMountsAreShownAsTheyAre
<1> QED  BY <1>1, Invariance, PTL
=============================================================================
