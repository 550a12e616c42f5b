# TLA+ specifications of ingest_and_snapshot

The program copies camera cards and other removable media into a media directory
that lives on a ZFS dataset, records every transfer in a backup log inside that
directory, and, when the user is done, marks the log complete, snapshots the dataset,
lets a check program look at the snapshot, and exits. It is one process with many
threads and a terminal UI. What it must never do is let a backup look finished that is
not: the interesting part of the code is how it keeps that promise while commands fail,
threads interleave, devices come and go, and the program is killed.

This directory holds the specifications of that behaviour, the TLC configurations that
check them, and machine-checked proofs about several of them. All paths are relative to
the repository; `src/x.rs:12` stands for `src/src/x.rs`, line 12, when `src/` is the
root of the checkout.

* `tlc -config FinishBackup.cfg MCFinishBackup.tla` checks an instance,
* `tlapm FinishBackupProofs.tla` checks the proofs about that module.

`PROJECT.json` lists the components, the runs, a mutant for every property of a passing
run, the map from definitions to source lines, the findings, the hazards and the theorems.

## 1. The system

### Components, their state and operations

| Component (source) | State | Operations |
| --- | --- | --- |
| Finish-backup workflow (`snapshot_logic.rs`, `zfs_specific.rs`) | the dataset's snapshots `pre_N`, `check_N`, `N`; the step of each snapshot thread | ask for the name; tripwire snapshot, complete the log, check snapshot, drop the tripwire; run the check program; rename, or unwind; the last button |
| Backup log (`backup_log.rs`) | one JSON file per entry, linked both ways; the current entry in memory behind a mutex | `load_backup_log`, `create_new`, `add_transfer`, `complete_backup`, `mark_backup_incomplete`, `update_transfer_*`, each with an atomic flush |
| Transfer registry (`transfer_registry.rs`) | per source media directory: pending transfers with their card ids, subscribers, an approval lock | `register`, `update_id`, `move_source_media`, `unregister`, `subscribe`, `next_card_id`, `is_card_id_taken`, `with_approval_lock` |
| Transfer thread (`transfer_logic.rs`) | the fields the user edits, its card id, its row, its `mv` | approval loop, conflict dialogs, creating the card directory, planning and measuring, log record, moving, samples, outcome, reporting errors |
| Mount manager (`mount_manager.rs`) | an entry per mount (`is_mounted`, users), the kernel's mounts, its threads | `start_mount`, the mount thread, unmount on request, on unplug, after the last transfer and at exit, `remount_readwrite` |
| Main loop (`main.rs`) | the allow and ignore lists, in memory and in the configuration file; the list of the session; maps of connected devices; the handles of transfers and snapshot threads | startup checks and scan; the messages of the UI; hot-plug; the unknown-device question and saving its answer; the guarded exit and teardown |
| UI event loop (`ui.rs`, `ui_api.rs`) | rows, statuses, queries, the terminal | a frame: transfer events, the gate, terminal updates, messages, at most one key |
| Query window (`ui/user_queries_window.rs`) | a queue of queries, one text entry or picker | push (with or without priority), open and close an entry, answer and pop |
| Check terminal (`ui/check_terminal_window.rs`) | the channel to the snapshot thread, its buttons | open, replace, press a button, close |
| Actions window, mount list (`ui/user_actions_window.rs`, `ui/mount_list_overlay.rs`) | which actions are greyed out; whether the list is open | start a transfer or a snapshot run, quit; request an unmount |
| Per-device configuration (`per_device_config.rs`) | none; the file at the root of a card | read it, expand its entries into overrides, reject what it does not cover |
| Transfers window, status bar, widgets, thumbnails, dummy data | what is drawn | drawing only |

### How they interact

Threads: one for the UI, one for the main loop, one per transfer, per mount, per unmount
and per snapshot run. They meet in four ways.

* **Channels.** Everybody sends `UiMessage`s to the UI; the UI sends `MainMessage`s to
  the main loop. A query carries the channel for its answer: whoever asks blocks in
  `recv()` until the user answers or the UI drops the query. Snapshot thread and check
  terminal have a channel in each direction.
* **Mutexes.** The backup log, the transfer registry, each directory's approval lock and
  the mount manager. Some are held across a dialog.
* **The disk.** The log files, the card directories, the snapshots and the kernel's mount
  table outlive the process. The startup checks are the only recovery.
* **Frames.** The UI takes all its messages, then handles one key, so what the user sees
  when pressing a key lags what the threads have already sent.

### What is hard

* The log is completed *before* the snapshot that freezes it, so between the two the disk
  claims something untrue. Stage-tagged snapshots make the next start refuse. Every
  failure of `zfs`, of a flush or of the process has to leave that guard in place.
* A query is invisible under the check terminal or behind other queries, and its asker,
  perhaps the main loop, is blocked meanwhile, perhaps with a mutex.
* Card ids are chosen by several threads at once; check and use are apart.
* A mount is recorded before and marked after the system call, and may be taken away by
  an unplug, a user or an exit in between.
* Two runs of the workflow can be started although one is meant to exist.
* The move is an external process that fails at one file and goes on with the next, and
  that outlives a killed program; the log is told in three flushes what became of it.
* Devices are known by their names, their place and their node, and any of these may have
  passed to another device by the time an event or an answer is handled.

### What makes each component correct

* *Workflow*: an uncovered claim is always guarded; a closed entry is carried by a
  snapshot that says complete; a final snapshot is never lost and says complete; "exit" is
  offered only when that is so; failures get back to the user.
* *Log*: acknowledged records stay; links form one chain; a load finds its open end; a
  flush cut short has no effect.
* *Registry and approval*: no two transfers own one card directory; registry and fields
  agree when a thread relies on it; approval locks are released; ids settle.
* *Moves*: whatever fails, a file is on the card or whole in a directory the log knows of;
  a recorded success left nothing behind; the configuration stays; every directory of a
  card is offered.
* *Devices*: once all is handled, entries and maps are of what is plugged in; the file keeps
  every decision and only those meant to last; allowed devices get mounted.
* *Mounts*: what is marked is mounted; what is mounted is known; the list shows what is;
  a transfer keeps its mount.
* *UI and main loop*: a waiting thread has exactly one query; queries get answered; the
  terminal is closed again; leaving the main loop ends the process.
* *Query window*: entries belong to the query in front.

## 2. The modules

| Module | Models | Used by |
| --- | --- | --- |
| `BackupSeal` | abstract: what the workflow promises, after the module documentation of `zfs_specific.rs` | refined by `FinishBackup` |
| `FinishBackup` | the workflow against snapshots, log flag, check terminal and startup check | `MCFinishBackup`, `FinishBackupProofs` |
| `CardIds` | registry and approval loop of concurrent transfers | `MCCardIds`, `CardIdsProofs` |
| `AppendOnlyLog` | abstract: what the log promises, without files, flushes and failures | refined by `BackupLog` |
| `BackupLog` | the log's files, flushes, crashes and loads | `MCBackupLog`, `BackupLogProofs` |
| `MountManager` | mounts, hot-plug, unmount threads and transfers | `MCMountManager`, `MountManagerProofs` |
| `Session` | UI frame, main loop, transfers and a snapshot run: who waits for whom | `MCSession`, `SessionProofs` |
| `QueryWindow` | queue and entries of the query window in the frame | `MCQueryWindow`, `QueryWindowProofs` |
| `DeviceConfig` | what a card's configuration makes transfers of, as operators over trees | `CardMove` |
| `CardMove` | from a mounted card to the card directories: planning, record, `mv`, outcome, replay at the next start | `MCCardMove`, `CardMoveProofs` |
| `Devices` | which devices the main loop lets in: scan, events, questions, lists, their file, mount entries | `MCDevices`, `DevicesProofs` |
| `FinishBackupProofs`, `CardIdsProofs`, `BackupLogProofs`, `MountManagerProofs`, `SessionProofs`, `QueryWindowProofs`, `CardMoveProofs`, `DevicesProofs` | theorems about the module each is named after, and their proofs | |

An `MC` module EXTENDS its specification with sets of model values and, where no liveness
property is checked, symmetry. The configurations give the constants values and replace
no definition. Definitions whose name continues that of the following one and whose
comment starts with "Mutant" are plausible bugs; they are used by no specification, and
serve only to show that each property can fail.

### FinishBackup

A snapshot is a record `[stage, name, entry, complete]`: its tag, its final name, and what
its frozen copy of the log says (which entry is newest and whether it is complete). The
log is reduced to that flag, in memory (`logMem`) and in the file (`logDisk`). `pc[t]` is
the step of the thread `spawn_snapshot` started; `doomed[t]` is what its `unwind` has
still to destroy.

* `TakeTripwire`, `CompleteBackup`, `TakeCheck`, `DropTripwire` are
  `do_snapshot_steps_before_check`; `RenameCheck` is `do_snapshot_steps_after_check`;
  `RevertLog`, `DestroyNext`, `UnwindDone` are `unwind`. Each has a failing disjunct: a
  `zfs` command either fails without effect or takes effect; it fails if a name is taken
  (create, rename) or missing. A destroy is best-effort, as in the code.
* `StartSnapshot` to `StartCheckTerminal` are the way from the actions window through the
  main loop and the UI's queue to the run, with the lag of the frame (`asked`, `opening`,
  `drained`), because that lag is what lets a second run start.
* `CheckEnds`, `ChooseKeep`, `ChooseRemove`, `LoseTerminal`, `ReturnToMain` and
  `CompleteBackupAndExit` are the check program and the buttons.
* `TransferFlush` is a transfer of a card plugged in meanwhile: it writes the *whole*
  entry, the flag in memory included. `TransferFlushFails` is its `add_transfer` failing: the
  guard of the log's mutex lives to the end of the `if let` (`transfer_logic.rs:807`), so the
  log stays locked (`logError`) until the user has dismissed the error (`DismissLogError`),
  which cannot be done under the check terminal. `CompleteBackup`, `RevertLog` and every
  flush wait for it.
* `Crash`, `ProcessEnds`, `StartRefused`, `StartExisting`, `StartNewEntry` are the end and
  the next start (`check_correct_shutdown`, `load_backup_log`). `SortOutByHand` is external:
  the operator destroys the leftovers the refused start reports and makes the log claim
  completion only if a plain snapshot carries it.

Abstractions: a failed flush leaves the file as it was (a leftover `.tmp` is `BackupLog`'s
subject); `Crash` is a killed process, whose completed writes stay (a flush is not synced,
and what a loss of power makes of it is not modelled); other than for the error of a record,
the log's mutex is not held across an action.

`BackupSeal` has four variables: the open entry, the sealed entries, whether the open
entry's file claims completion, and whether something is there that halts the next start.
The refinement maps them to `entry`, `Sealed`, `logDisk` and `StageTagged # {}`.

### CardIds

One thread per transfer goes through the approval loop of `run_transfer`. A step is one
hold of the registry's mutex or one access to the filesystem, so the gap between
`next_card_id` and `update_id`, between `is_card_id_taken` and `create_card_directory`,
and between the lock's release and the directory are all there. A card id is a number
(`CARD####`), a word, or empty; `reg`, `slot`, `sub`, `note`, `lock` are the registry;
`dir`, `card`, `manual` the fields; `via` remembers how the id was settled.

Abstractions: notifications coalesce (the thread only recomputes); a user's edit is
atomic with the loop's `select`, and an approval with the fields it is given; dialogs that
hold no lock take no time; taking the approval lock is merged with the first check under
it; `detected.card_id` is always `None`; a transfer runs once. Somebody may delete card
directories (`Tidied`), which is external.

### BackupLog

Ids are ordered like uuid file names; `create_new` may pick any unused one, since the clock
may have been set back between two entries. A flush is three steps (write the `.tmp`,
finish it, rename), each of which may fail or be the last one of the process.
`load_backup_log` is the operator `Loaded`: the newest file *of either kind* in the
listing, then the links. `acked` collects transfers in the entry when an `add_transfer`
returned Ok. The operator's repair of a refused start is external.

`AppendOnlyLog` is a chain of entries of which only the last is written to: an entry appears
behind the one that was last, transfers are added to the last and never taken away, and
nobody is told of a transfer that is not recorded. The mapping reads it off the directory:
`Recorded` is each entry's file without its forward link, `OpenEnd` the entry that has no
successor or names one that was never written, and `acked` is itself. Neither memory nor
temporary files are in it, so every failed flush and every end of the process is a stutter;
so is the forward link, which `create_new` writes before the entry it names exists.

### MountManager

`entries`, `marked` and `users` are the manager's, `kernel` what is mounted, `mpc` the
mount threads and `tasks` the unmount threads; `shown` is the mount list of the UI. A step
is one hold of the manager's mutex, one system call or one message to the UI.

Abstractions: a generated id is fresh; two unmount threads of the same kind at the same
step count as one; transfers from a local directory are left out, as they use no mount;
spawning a transfer and pushing its handle is one step; the program ends by `Quit`, which is
refused while a transfer runs, or by `CompleteBackupAndExit`, which is not; the lock hold of `start_mount`
and of the removal of entries is merged with the UI message that follows it; the main
loop may take a hot-plug event or a message in either order.

### Session

The UI's frame (`events`, `messages`, `keys`), the main loop, the transfer threads and one
snapshot run, each reduced to where it can block: a query (`Waiting`), the log's mutex
(`LogFree`), the check's buttons, and the teardown. `rows`, `greyed` are the transfers
window's statuses and the gate of the actions window that is computed from them. The UI
takes one message per step (`TakeMessage`), so that others may come between two, until there
is none (`MessagesTaken`) or it is told to quit (`UiQuits`).

The check terminal takes every key, so a query behind it is neither seen nor answered. Two
such queries keep it up for ever: the error of a transfer's record, shown with the log locked
while the run is about to complete or revert the log, and a question of the main loop (about
an unknown device, or that transfers are active), which then does not come to the request to
leave. `TerminalIsLeft` says that nothing else does; `SessionLogError` and `SessionExit`
reach the two. `TerminalHasAnOwner` says only which step the run of a shown terminal is at.

Left out: dialogs a transfer raises while its approval query stays open, the keys of the
mount list, the mount thread's dialog about a bad configuration, the dialogs before the
main loop starts, and a second snapshot run (`FinishBackup` has it).

### QueryWindow

`queue` and `coming` are the queries shown and on their way, `open` the one text entry or
picker. The window does not record for which query it was opened; the model remembers, so
that this can be compared. `TakeQuery` is the message arm of `ui.rs`, with the reset it
performs only when the window was empty (`ui.rs:303`), `Pop` the reset after an answer.

Left out: what is typed or picked, drawing, the lag of `update_rx`, and the dialogs a
transfer raises while its approval query stays open.

### DeviceConfig

A card is a tree of opaque nodes, given by the constants `Children` and `Under`; what it
holds at a time is a set of nodes. A configuration is a record of what the code tells apart:
whether the file is absent, bad or read, the input paths of its entries, whether the media
they name are known, the ignored directories and `ignore_unhandled_dirs`.
`EffectiveOverrides` is `load_per_device_config` followed by what `mount_manager.rs` makes of
its result: one transfer per override, or one of the whole card if there is none or an
error. `UnhandledDirs` is `check_for_unhandled_dirs`.

The code and its comment differ in one point, and the module follows the code: an entry
with an explicitly empty list of input paths is a transfer of the whole card
(`per_device_config.rs:219-225`), while the documentation says such entries "are dropped
entirely" (`per_device_config.rs:157`).

### CardMove

`card` is what is still on the card, `dest[d]` the copies in a card directory (a copy may be
torn), `mem` and `disk` the transfers of the log entry in memory and in its file. `mount`
and `overrides` are the mount thread, which starts a transfer per override and reports a
bad configuration first. `pc[t]` is the step of a transfer thread after its approval:
`PlanMove` plans and measures (`plan_card_move`), `Record` is `add_transfer`, `TakeResult`
and `Finalize` what follows the end of mv (last sample, `finalize_transfer`).

* mv is a process of its own with `mv`, `todo`, `at` and `left`: it takes its arguments in
  any order (`MvEntry`), copies an entry file by file (`MvCopy`), then removes it
  (`MvRemove`); it may refuse an entry, give it up half way and go on (`MvGiveUp`), or be
  killed (`MvDies`). `Crash` ends the program and leaves mv as it is.
* `Restart` replays the log and refuses to start if a succeeded transfer's last sample is
  not its total (`main.rs:703`).
* A failed `add_transfer` keeps the log locked while its error is shown (step `logerror`,
  `DismissLogError`); the log steps of the other transfers (`Record`, `TakeResult`,
  `Finalize`) wait for `LogFree`.
* `Replug` makes the mount thread read the configuration again, for what is left on the card
  and from what is left of it (`ConfigRead`: a moved configuration file is found absent).
  `offers` are the transfers started since, so that those of an earlier plug do not count as
  taking what is still there.

Abstractions: card and media directory are on different filesystems, which is what the
program is for, so mv copies; a file counts one byte and a torn copy none; there are no
symbolic links; of the samples a transfer records, the last stays, the others would be
overwritten by it; the feature that copies instead of moving is left out, and so is an
error of `directory_size_bytes` at the end. A transfer runs once. Two transfers with one
card directory are an input (`CardOf`); `CardIds` says when that happens. Input paths are
nodes: the code compares the directory with the mount root as text (`transfer_logic.rs:767`),
and a path with `..` in it that leads back to the root would evade that comparison, so
`ConfigStaysOnCard` says nothing of such paths. That the dialog of `logerror` may be hidden
behind the check terminal is left to `Session`.

### Devices

`lists` and `file`, `temp` are the configured lists, in memory and on disk; `runtime` is the
list of the session; `connected` stands for the two maps from syspaths, which change
together, `picker` for `allowed_connected_devices` (which the code never reads; it lacks no
name of a device let in, but may keep one too many), `entries` for what the main loop has in
the mount manager. `events` is the monitor's buffer, filled from the moment it listens. `pc`
is the step of the main loop, which is blocked while a question waits (`asked`).

A step is what the main loop does between two looks at what others change and two writes
to the disk: the scan is one look at all devices, a hot-plug event is handled in one step
unless it asks a question, the answer in up to three (memory, temporary file, rename).
`DeviceFilter` is `device_filter`, with the names of a device as sequences of segments, so
that an entry without a LUN covers the names it begins.

`MountThread` mounts what is *then* at the node. How an entry ends otherwise (a request of
the user, the last transfer, a failing unmount) is `MountManager`'s; there devices are
always allowed, here a mount has one step. The other fields of the file are left out, and so
are the other things the main loop waits for, such as the dialog that refuses to quit while
transfers are active (`main.rs:911-919`): that is `Session`'s.

## 3. The runs

| Run | Instance | Asks |
| --- | --- | --- |
| `FinishBackup` | one thread, two names, three entries, `FairSpec` | all properties of the workflow for one run at a time, the refinement of `BackupSeal`, and that a run gets back to a button unless the log stays locked |
| `FinishBackupTwoThreads` | two threads, two names, one entry | the inductive invariant of the proofs, which implies the guard, with two runs at once |
| `CardIds` | two transfers, one numbered and one freeform directory, one word, numbers 0..2 | exclusive numbers and a registry that agrees with the fields |
| `BackupLog` | three ids, two transfers | records stay, one chain, a clean load finds its open end, the refinement of `AppendOnlyLog` |
| `MountManager` | one device, two mounts, one transfer, one waiting event or request | marks, kernel and mount list agree |
| `Session` | one transfer, two waiting messages, one unknown device, `FairSpec` | nobody waits in vain; the process ends; the terminal is closed again unless it hides one of two dialogs |
| `QueryWindow` | three transfers, main loop and snapshot thread | entries follow their queries; no deadlock |
| `CardMove` | two transfers, a card with overlapping configured directories and one that lacks a configured path, one stop, `FairSpec` | nothing is lost, successes are complete, the configuration stays, all is offered anew at each plug, transfers end or reach a dialog unless that of another keeps the log locked |
| `Devices` | two cards that share a name, a stick that shares a node with one of them, two events, `FairSpec` | entries and maps are current when all is quiet, decisions stay, allowed devices are mounted |
| `FinishBackupTwoStarts` | two threads | violated: `PlainSnapshotsSayComplete` |
| `CardIdsShared` | two transfers, a freeform directory | violated: `CardDirectoriesAreExclusive` |
| `CardMoveSums` | two transfers, overlapping directories | violated: `SucceededTransfersAddUp` |

### What the passing runs show, and why the bounds suffice

* **FinishBackup.** Two names make a name be reused or be different; the third entry
  lets an entry be closed, succeeded and its name taken by a snapshot of an earlier one.
  Nothing else grows. `PlainSnapshotsSayComplete`, `ExitOfferedWhenSealed` and liveness
  are properties of one run at a time; the guard, the refinement and permanence are
  proved for any number.
* **FinishBackupTwoThreads.** One log entry is enough for two runs to interfere, and they
  use the same final name or different ones. Only here is a check terminal replaced, so
  that its thread loses it (`LoseTerminal`). Here `LogErrors` is FALSE: a locked log only makes
  steps wait and changes nothing the invariant reads, so the states it reads are no fewer.
* **CardIds.** A conflict needs two transfers; numbers 0..2 give an id below, at and past
  the sequence, and the last number exercises the error of `next_card_id`.
  `NumberedCardsAreExclusive` excuses only a transfer whose user was shown the conflict
  dialog and insisted. `RegistryMatchesFields` covers the `expect()`s of the registry:
  were it false, a thread would panic with the registry's mutex held.
* **BackupLog.** Three ids give an entry with a predecessor and a successor, with the
  clock going forwards and backwards at each link.
* **MountManager.** Two mounts are an old one of a device still being unmounted while the
  device's next one is mounted; more than two are never in flight for one device in a way
  that differs. The listed instance takes a few minutes.
* **Session.** One transfer, the main loop, the run and the UI already give every kind of
  blocking on another; `SessionTwoTransfers.cfg` checks the invariants, the inductive one
  of the proofs among them, with two (5 million states).
* **QueryWindow.** Three transfers make a priority query go before an entry's query and a
  further one wait behind it. Deadlock is checked here: the UI always has a frame to draw.
* **CardMove.** Two transfers are what it takes for one to move what another has planned;
  the directories they take lie in each other, and the inner one has a file. `MaxCrashes`
  is one: after a stop the old mv runs beside the transfers of the next start, a second stop
  adds no new pair. `CardMoveWhole.cfg` checks the same invariants and the inductive one for
  one transfer on a card with everything (nested files, files of one name in two
  directories, no configuration, input paths picked by the user).
* **Devices.** Two events let a removal and the addition after it wait together while a
  question is open; a third device at the same node adds no new order. One instance shares
  a name between devices and a node between others; `DevicesSwap.cfg` checks the same
  properties, with the invariants of the proofs, for three devices that take turns at one
  node, two of them at one syspath, and three events.

The other instances say `CHECK_DEADLOCK FALSE`: the program may end for good, its user
need do nothing, and bounds (`MaxEntry`, `MaxId`, `Mounts`, `MaxUnknown`) run out.

Bounds, all of them constants: `MaxEntry` log entries, `MaxCard` card numbers (9999 in the
code), `MaxId` log files, `Mounts` mounts started, `MaxEvents` hot-plug events
and unmount requests waiting for the main loop,
`MaxInbox` messages waiting, `MaxUnknown` unknown devices, `MaxCrashes` stops of the program
in `CardMove`. `LogErrors` of `FinishBackup` says whether a transfer's `add_transfer` may fail,
`Lossy` of `Devices` whether the kernel may drop events.

### Fairness

* `FinishBackup!FairSpec`: weak fairness of each snapshot thread. The operating system
  schedules it, and between two buttons it waits for nobody but for the log's mutex: its log
  steps are not enabled while a transfer keeps the log locked, and `RunsReachTheUser` excuses
  a run for which it stays so. The end of the check program
  is part of `ThreadStep`, but `RunsReachTheUser` already counts a running check as
  reaching the user, who can skip it. Nothing is assumed of the user.
* `Session!FairSpec`: weak fairness of the UI's frames, the main loop, the run and each
  transfer, for the same reason. Strong fairness of `AnswerQuery` and `PressButton`: a user
  who is shown a query, or the terminal's last buttons, again and again answers at some
  point. Strong, because a frame alternates between its phases and the key only counts in
  one. Nothing obliges the user to start or quit anything, or a device to be plugged.
  `QueriesAreAnswered` further assumes that the user does not press "Back to query" for
  ever, and excuses queries behind the terminal. `TerminalIsLeft` excuses the two dialogs
  named above.
* `CardMove!FairSpec`: weak fairness of each transfer thread between its dialogs, and of each
  mv, which goes through a finite list and may always fail. A thread that waits for the log
  is not enabled, and `TransfersEnd` excuses it if another's dialog keeps the log locked for
  ever. Nothing is assumed of the user.
* `Devices!FairSpec`: weak fairness of the main loop, which returns to its select after each
  event, and of the mount threads of each node. A question may stay unanswered for ever
  (`AllowedDevicesAreMounted` excuses that), and nobody has to start the program.

### Claims the code does not keep

Each violated run checks one claim, quoted in `PROJECT.json`, of a comment or a doc:

* two snapshot runs can coexist; the unwind of one reverts the log the other completed
  and a final snapshot says "incomplete" (`main.rs:953`);
* the approval lock is dropped before the card directory exists (`transfer_logic.rs:683`);
  numbered directories are saved by the registry, freeform ones are not;
* a transfer can succeed although another one moved part of what it had measured; its last
  sample then falls short of its total and every later start refuses
  (`transfer_logic.rs:1371`, `main.rs:703`).

Further instances of the same kind, for which a configuration is kept though no run is
listed: `MountManagerForgotten` (a mount whose entry is taken away before it is marked is
never unmounted, `mount_manager.rs:444`), `SessionExit` (the main loop waits for a query that
the check terminal hides, and "Complete backup and exit" is not received, `main.rs:999`),
`QueryWindowEntries` (an entry opened for one transfer stays open when a priority query of
another comes in front, `ui/user_queries_window.rs:429`), `FinishBackupErrorPath` (an unwind
whose flush or destroys fail leaves its snapshots, and so a stage-tagged snapshot can be left
beside a plain one; `tlc -continue` reports both), `BackupLogCutShort` (with
`tlc -continue`: a temporary file left by an interrupted or failed
flush is read as the newest entry at `backup_log.rs:378`, and a stop
between link and new entry leaves a completed entry without a successor; the next start
refuses both),
`CardIdsLogReuse` (two log entries for one card directory, once it was tidied
away), `CardIdsChase` (two automatic ids recomputing for ever in answer to each other),
`MountManagerShared` (a mount joined by a transfer after the count of users was found to
be zero), `MountManagerRoot` (a transfer approved for a device whose mount is gone),
`SessionLogError` (an error dialog that holds the log's mutex behind the terminal whose
thread needs it), `SessionInterrupt` (leaving while a transfer moves), `SessionRows` (a
row that keeps the actions greyed out after its transfer ended), `CardMoveShared` (two
transfers with one card directory and a file of the same name: one overwrites the other's),
`DevicesFile` (with `tlc -continue`: a device of the ignore list is mounted, for a while, at
the node of one that was allowed; killed while it makes its first configuration file, the
program leaves one it cannot read, `main.rs:250`; a hand edit of the file under a running
program is overwritten by the next save), `DevicesLost` (a removal lost by the kernel's buffer
leaves a device in the maps), `DevicesPicker` (a device that is told of twice, by the scan and
by the monitor, may be let in under another of its names the second time, and the picker keeps
the first, `main.rs:798`). Each is violated. `CardMoveWhole` and
`DevicesSwap` are instances that pass.

## 4. The proofs

Eight modules prove theorems about the module each is named after, for every value of its
constants. They assume only what the modules state with `ASSUME`, which TLC evaluates in the
runs, and the hypotheses named below.

| Proofs | Theorems |
| --- | --- |
| `FinishBackupProofs` | `TypeCorrect`; `GuardHolds`: who answers for each claim of completion; `CompletionGuarded`: a claim no plain snapshot carries has a stage-tagged snapshot beside it; `ClosedEntriesSealed`; `PlainSnapshotsStay`; `KeepsThePromise`: the refinement of `BackupSeal`; and if runs do not overlap, `PlainSnapshotsComplete` and `ExitOfferedSealed` |
| `CardIdsProofs` | `TypeCorrect`; `RegistryAgrees`: the registry lists each transfer as its fields say when its thread relies on it; `NumberedCardsExclusive` |
| `BackupLogProofs` | `TypeCorrect`; `AckedStay`; `OneChain`; `CleanLoad`: a load ends at the open end; `KeepsTheLog`: the refinement of `AppendOnlyLog` |
| `CardMoveProofs` | `TypeCorrect`; `ConfigStays`; `EveryDirectoryOffered`; and if no two transfers have one card directory, `NothingLost` and `SucceededComplete` |
| `DevicesProofs` | `TypeCorrect`; `OnceNotSaved`; `DecisionsKept` if nobody edits the file under a running program; `QuietEntries` and `QuietMaps` if no event is lost |
| `SessionProofs` | `TypeCorrect`; `WaitersHaveQuery`: one query for each who waits; `TerminalOwned` |
| `QueryWindowProofs` | `TypeCorrect`; `NameEntryFollows`; `OpenEntriesKept` |
| `MountManagerProofs` | `TypeCorrect`; `MarkedMounted`; `QuietMountsShown` |

Each proof has the same shape: an inductive invariant, stated in the module it is about so
that TLC can check it first, kept by each action in turn, and a last step that combines the
three facts.

**Workflow.** No bound on threads is assumed, so the theorems hold for the concurrent runs
that the run `FinishBackup`, with one thread, leaves out; two names and threads are exactly
where an argument by example would be weakest. `CompletionIsGuarded` is not inductive: it
does not say *which* snapshot guards, so a step that destroys one could remove the last.
`GuardInv` says who answers for the claim. Each stage-tagged snapshot is either *held* by a
thread, which alone may destroy or rename it, or a *stray*, which nobody touches until the
next start.

* `SnapshotIdsAreUnique`, `HeldSnapshotsExist`, `HoldersAreExclusive`: names are unique on
  the dataset, so a thread whose `zfs snapshot` succeeded holds what no other holds. This
  is what makes the interference of two runs tractable: a step of one leaves the held
  snapshots of the other alone (`OthersHold`, `TakingASnapshot`, `GivingUpSnapshots`).
* `MemoryClaimIsBacked`: if memory claims an unsealed completion, there is a stray, or a
  thread that backs the claim, which either holds a check snapshot that froze the claim
  or is about to revert the log. It is stated of memory because a `TransferFlush` of any
  other thread may carry memory to the file at any time.
* `DiskClaimIsFlagged`: if only the file still claims it, the flush of
  `mark_backup_incomplete` failed, and `unwind` left its snapshots, now strays.
* `UnwindHasWork`, `OffMeansIdle`, `ClosedEntriesAreSealed` close the induction at unwind,
  at a restart and at a new entry.

The refinement further needs `HeldSnapshotsAreCurrent` (a held snapshot is of the newest
entry), so that `RenameCheck` seals the open entry. `GuardInv` is itself an invariant of the
run `FinishBackupTwoThreads`. The last two theorems have `OneRunAtATime` as their hypothesis,
which is what the main loop's comment expects and `FinishBackupTwoStarts` refutes for two
threads: only another run's unwind could take the claim back between its flush and the last
button (`CompletionStands`).

**Card ids.** `StepsInv` says where a transfer is listed at each step of the approval.
`ClaimsInv` says who owns a number: from the second check on, a transfer *claims* it, first
through its slot in the registry and then through the directory it made. The key lemma,
`GeneratedIsUnclaimed`, is that `next_card_id` never returns a claimed number, as the slot
keeps it until the directory does. The theorem excuses a transfer whose user insisted on an
id, which is the conflict dialog's "use original".

**Backup log.** `Fits` says when an entry may take the place of its file: it has the same
predecessor and at least its transfers, and does not drop its link to a successor. `FilesInv` and
`JobInv` say that whatever is in memory, in a temporary file or being flushed fits, so that a
rename at any point, or none, does no harm. `ChainInv` adds that one entry at most has no
successor, and that links go one way: some rank `age` grows along them. The rank stands for
the order of creation, which ids do not show since the clock may be set back; it is what makes
the walk of `load_backup_log` end, and end at the open end. In the refinement a rename is the
only step that changes the record. The rename of a link is a stutter (`LinkIsNoStep`): the
entry it names is not there yet, so the one that is linked is still the open end. A mutation
is `RecordTransfers`, where `Fits` gives that nothing is taken away and `ChainInv` that the
entry is the last one (`OpenEndIsOpen`); the first rename of an entry is `AppendEntry`,
behind the one whose link it completes.

**Moves.** `CopiesInv` is the heart of `NothingLost`: while mv is at an entry, each file of it
that is still on the card is still to be copied or was; `RecordedInv` keeps the directory
of a running mv in the log's file; `CompleteInv` ties a success to an mv that refused nothing.
The hypothesis `DirsAreExclusive` is what `CardIds` is about: `NumberedCardsExclusive` gives it
for numbered directories, `CardIdsShared` shows that freeform ones may break it, and
`CardMoveShared` what is lost then. `EveryDirectoryOffered` needs no hypothesis: `OfferedInv`
says that from the moment the configuration is read, which is before its error is shown, each
directory still on the card is ignored, taken by an override that is still to start, or taken
by a transfer that has started since (`offers`), unless the configuration is lax. Overrides become transfers
one by one (`OffersStay`), the card only loses nodes, and `EffectiveOverridesCover` says that
what the code makes of a configuration, its check for unhandled directories included, takes
something of each.

**Devices.** `SavedInv` says that memory holds what the file does. For `QuietEntries`,
`Follows` says of each mount entry that the device it is of is plugged in, or that a removal
that will clear it is in the queue; `StartupInv` says the same of the devices of the scan,
whose events the monitor has from before it. `AnnouncedInv` and `ConnectedInv` tie the queue
and the maps to what is plugged in. For `QuietMaps`, `MapsInv` follows each syspath of the
maps: the device that was let in there is plugged in, under a name it has, or its removal is
in the queue. `PickerInv` says that the picker lacks none of these names. That it has no others is
false (`DevicesPicker`), and the theorem does not say it.

**Session.** That whoever waits has one query is a statement about two queues and a count.
`QueriesInv` says it of places: `OneQuery` that there is one place, in either queue, and
`NoQuery` that there is none; `QueriesCounted` gets back to the numbers. A message on its way
moves every place by one when the UI takes the first of the queue, and so does a priority query
that is pushed to the front; each of these steps is a lemma about all askers at once
(`TakenQuery`, `AnsweredQuery`, `SentQuery`, `SentOther`). That nobody starts or ends waiting in
any other step is not immediate: a request to start a transfer or a run would put a thread
that waits back to its beginning. `RequestsInv` says that each is sent once and finds its
thread where it was. `TerminalOwned` rests on `OpeningInv`: a run opens the terminal once, and
not while that of the run before is still up, so that the key which ends one run never closes
the terminal of the next. It says who is in charge of a shown terminal, and not that it will
be closed.

**Query window.** The properties are nearly inductive; `ApprovalsInv` adds that an approval,
the only kind with pickers, is of a transfer.

**Mounts.** `EntriesInv` ties entries and marks to the steps of the mount thread; `TasksInv`
says that unmount threads work on mounts that were marked, and that those of an unplug have
no entry left; `ShownInv` says that what the list shows has an entry, or a thread that is
about to take it off.

Only model-checked are liveness and whatever rests on ENABLED (`RunsReachTheUser`,
`ShutdownCompletes`, `QueriesAreAnswered`, `TerminalIsLeft`, `TransfersEnd`,
`AllowedDevicesAreMounted`), which the
backends do not handle, and what is said of `DeviceConfig` beyond `EffectiveOverridesCover`.
Every safety property of a passing run is a theorem.

## 5. Not modelled

* The check program's pty and output, callbacks, file ownership, drawing, formatting, the
  thumbnails and previews, system information and the dummy data.
* Persistence order of writes at a power loss: a crash keeps what completed before it.
* The fields of a log record that only describe it, and the fields of the configuration file
  other than the two lists.
* The feature that copies instead of moving; symbolic links on a card.
* A transfer's use of a mount that is never released after an error (`transfer_logic.rs:463`):
  it only keeps a mount from being taken away early.
* The error dialog raised while the registry's mutex is held (`transfer_logic.rs:955`): every
  transfer and the card-id column then wait for the user, as they do in `SessionLogError`.
* The lag between a transfer's fields and the display of its query (`ui.rs:178`): the user may
  approve what the window has not yet been told was changed.
* The mount thread's dialog about a bad configuration is in `CardMove`, but not its meeting
  with an exit.
* The parts of each component named as left out in section 2 and in `PROJECT.json`.

## 6. Plan

Order of work so far: `FinishBackup` with `BackupSeal` and its proofs first, since it is
what the program exists for; then the log it relies on; then the components whose threads
interfere (`CardIds`, `MountManager`); then who waits for whom (`Session`, `QueryWindow`);
then what the program moves and by which rules (`DeviceConfig`, `CardMove`) and which devices
it lets in (`Devices`); then the proofs.

Next, modules:

1. The dialogs before the main loop starts, and a second snapshot run in `Session`, with the
   mount thread's dialog and the ones that keep the registry's mutex.
2. The lag of `update_rx`: an approval given on a stale display; composing `QueryWindow` with
   the fields of `CardIds`.
3. Symbolic links and the GNU check of mv in `CardMove`.
4. The text entry's cursor at the boundaries of a string.

An abstract specification worth adding is a mutual exclusion that `CardIds` refines in
numbered directories.

Next, theorems: this refinement; that `CardIds` gives what `CardMove` assumes of its
directories, as one composed theorem for numbered directories.
