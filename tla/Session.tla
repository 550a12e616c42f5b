------------------------------- MODULE Session -------------------------------
(***************************************************************************)
(* A session of the program: the UI thread and its frame (ui.rs), the main *)
(* loop (main.rs), the transfer threads (transfer_logic.rs) and one run of *)
(* the finish-backup workflow (snapshot_logic.rs), which talk through two  *)
(* channels and meet at the mutex of the backup log. Whoever asks the user *)
(* something blocks until the answer comes, and the UI shows one query at  *)
(* a time, and none under the check terminal.                              *)
(*                                                                         *)
(* What the threads do to cards, mounts, snapshots and log entries is the  *)
(* subject of CardIds, MountManager, FinishBackup and BackupLog.           *)
(***************************************************************************)
EXTENDS Integers, Sequences, FiniteSets

CONSTANTS
    Transfers,   \* transfer threads
    MaxInbox,    \* bound on the messages of the actions window not yet handled
    MaxUnknown,  \* bound on the unknown devices plugged in
    Main, Run    \* who else asks the user: the main loop and the snapshot thread

ASSUME BoundsAssumption == MaxInbox \in Nat /\ MaxUnknown \in Nat
ASSUME AskersAssumption == Main # Run /\ {Main, Run} \cap Transfers = {}

VARIABLES
    main,      \* what the main loop does
    inbox,     \* messages from the UI to the main loop, oldest first
    unknown,   \* unknown devices that may still be plugged in
    tpc,       \* the step of each transfer thread
    run,       \* the step of the snapshot thread
    outbox,    \* messages to the UI, oldest first
    events,    \* events on each transfer's control channel
    leaving,   \* SnapshotUpdate::Exit is on its way to the check terminal
    uiUp,      \* the UI thread runs
    frame,     \* the part of its frame the UI is at
    queries,   \* who asked the queries the UI has, front first
    rows,      \* the status of each transfer's row
    greyed,    \* actions_state.transfers_in_progress
    terminal   \* the check terminal is shown

channels == <<inbox, outbox, events, leaving>>
ui       == <<uiUp, frame, queries, rows, greyed, terminal>>
vars     == <<main, unknown, tpc, run, channels, ui>>

Askers == Transfers \cup {Main, Run}

\* run_transfer: up to the query, the query and the dialogs after its approval, the log
\* ("logfailed" and "logerror" hold its mutex), the move, an error being reported.
TransferSteps == {"unborn", "requested", "starting", "announced", "reasking", "approving",
                  "preparing", "confirming", "refused", "measuring", "sizing", "recording",
                  "logfailed", "logerror", "moving", "moved", "botched",
                  "failed", "failing", "ended"}

\* run_snapshot: the name asked for, the steps before the check, the check, those after it,
\* unwind, and the last button.
RunSteps == {"idle", "requested", "naming", "asking", "named", "before", "completing",
             "checking", "deciding", "sealing", "reverting", "returning", "completed"}

InDialog == {"approving", "confirming", "refused", "sizing", "logerror", "failing"}

Waiting(who) ==
    CASE who = Main -> main \in {"asking", "refusing"}
      [] who = Run  -> run = "asking"
      [] OTHER      -> tpc[who] \in InDialog

\* has_active_transfer_handles
Active ==
    \/ run \notin {"idle", "requested"}
    \/ \E t \in Transfers : tpc[t] \notin {"unborn", "requested", "ended"}

\* add_transfer's error dialog is shown with the guard of the log's mutex still alive.
LogFree == \A t \in Transfers : tpc[t] \notin {"logfailed", "logerror"}

-----------------------------------------------------------------------------
Init ==
    /\ main = "loop" /\ inbox = <<>> /\ unknown = MaxUnknown
    /\ tpc = [t \in Transfers |-> "unborn"]
    /\ run = "idle"
    /\ outbox = <<>> /\ leaving = FALSE
    /\ events = [t \in Transfers |-> {}]
    /\ uiUp = TRUE /\ frame = "events"
    /\ queries = <<>>
    /\ rows = [t \in Transfers |-> "absent"]
    /\ greyed = FALSE /\ terminal = FALSE

Goto(t, step) == tpc' = [tpc EXCEPT ![t] = step]

\* A message to the UI; it is dropped once the UI is gone.
Send(kind, who) ==
    outbox' = IF uiUp THEN Append(outbox, [kind |-> kind, of |-> who]) ELSE outbox

Signal(t, event) == events' = IF uiUp THEN [events EXCEPT ![t] = @ \cup {event}] ELSE events

\* A transfer shows a query and waits for the answer; without a UI it gives up.
Ask(t, kind, step) == Goto(t, IF uiUp THEN step ELSE "ended") /\ Send(kind, t)

-----------------------------------------------------------------------------
(* The UI's frame: row events and the gate, then the messages, then at most one key *)

\* What a row's events, taken in order, make of it.
RowAfter(t) ==
    CASE "removed" \in events[t] -> "gone"
      [] "failed" \in events[t] -> "failed"
      [] "reached" \in events[t] /\ (rows[t] = "moving" \/ "started" \in events[t]) -> "finished"
      [] "started" \in events[t] /\ "reached" \notin events[t] -> "moving"
      [] OTHER -> rows[t]

Unsettled == {"waiting", "moving"}

FrameEvents ==
    /\ uiUp /\ frame = "events" /\ frame' = "messages"
    /\ rows' = [t \in Transfers |-> IF rows[t] = "absent" THEN "absent" ELSE RowAfter(t)]
    /\ events' = [t \in Transfers |-> IF rows[t] = "absent" THEN events[t] ELSE {}]
    /\ greyed' = (\E t \in Transfers : rows'[t] \in Unsettled)
    /\ terminal' = (terminal /\ ~leaving)
    /\ leaving' = (leaving /\ ~terminal)
    /\ UNCHANGED <<main, unknown, tpc, run, inbox, outbox, uiUp, queries>>

\* Mutant: the message is queued in the place of its query.
EnqueuedMessage(message) ==
    CASE message.kind = "priority" -> <<message>> \o queries
      [] message.kind = "query"    -> queries \o <<message.of>>
      [] OTHER                     -> queries

\* A priority query is pushed to the front of the queue, any other to its back.
Enqueued(message) ==
    CASE message.kind = "priority" -> <<message.of>> \o queries
      [] message.kind = "query"    -> queries \o <<message.of>>
      [] OTHER                     -> queries

\* One message after another; others may come meanwhile.
TakeMessage ==
    /\ uiUp /\ frame = "messages" /\ outbox # <<>> /\ Head(outbox).kind # "quit"
    /\ outbox' = Tail(outbox)
    /\ LET message == Head(outbox) IN
       /\ queries' = Enqueued(message)
       /\ rows' = IF message.kind = "transfer" THEN [rows EXCEPT ![message.of] = "waiting"]
                  ELSE rows
       /\ terminal' = (terminal \/ message.kind = "terminal")
    /\ UNCHANGED <<main, unknown, tpc, run, inbox, events, leaving, uiUp, frame, greyed>>

MessagesTaken ==
    /\ uiUp /\ frame = "messages" /\ outbox = <<>> /\ frame' = "keys"
    /\ UNCHANGED <<main, unknown, tpc, run, channels, uiUp, queries, rows, greyed, terminal>>

\* The UI returns and takes its queries, the terminal and its ends of the channels with it.
UiQuits ==
    /\ uiUp /\ frame = "messages" /\ outbox # <<>> /\ Head(outbox).kind = "quit"
    /\ uiUp' = FALSE /\ frame' = "events"
    /\ outbox' = <<>> /\ queries' = <<>>
    /\ events' = [t \in Transfers |-> {}]
    /\ rows' = [t \in Transfers |-> "gone"]
    /\ greyed' = FALSE /\ terminal' = FALSE /\ leaving' = FALSE
    /\ UNCHANGED <<main, unknown, tpc, run, inbox>>

FrameWithoutKey ==
    /\ uiUp /\ frame = "keys" /\ frame' = "events"
    /\ UNCHANGED <<main, unknown, tpc, run, channels, uiUp, queries, rows, greyed, terminal>>

\* The check terminal captures the key, else the front query does, else the actions window.
Key           == uiUp /\ frame = "keys" /\ frame' = "events"
KeyOfTerminal == Key /\ terminal
KeyOfQuery(who) == Key /\ ~terminal /\ queries # <<>> /\ Head(queries) = who
KeyOfActions  == Key /\ ~terminal /\ queries = <<>>

-----------------------------------------------------------------------------
(* The actions window *)

PressQuit ==
    /\ KeyOfActions /\ ~greyed /\ Len(inbox) < MaxInbox
    /\ inbox' = Append(inbox, <<"Quit">>)
    /\ UNCHANGED <<main, unknown, tpc, run, outbox, events, leaving,
                   uiUp, queries, rows, greyed, terminal>>

PressManualTransfer(t) ==
    /\ KeyOfActions /\ Len(inbox) < MaxInbox
    /\ tpc[t] = "unborn" /\ Goto(t, "requested")
    /\ inbox' = Append(inbox, <<"StartManualTransfer", t>>)
    /\ UNCHANGED <<main, unknown, run, outbox, events, leaving,
                   uiUp, queries, rows, greyed, terminal>>

\* One run at a time: a second one beside it is the subject of FinishBackup.
PressSnapshot ==
    /\ KeyOfActions /\ ~greyed /\ Len(inbox) < MaxInbox
    /\ run = "idle" /\ run' = "requested"
    /\ inbox' = Append(inbox, <<"StartSnapshot">>)
    /\ UNCHANGED <<main, unknown, tpc, outbox, events, leaving,
                   uiUp, queries, rows, greyed, terminal>>

-----------------------------------------------------------------------------
(* The main loop handles one message per turn, then the hot-plug events *)

Receive(message) ==
    /\ main = "loop" /\ inbox # <<>> /\ Head(inbox)[1] = message
    /\ inbox' = Tail(inbox)

\* unmount_all_sync, quit() of the UI, and out of the loop.
Leave == main' = "left" /\ Send("quit", Main)

\* "Unmount and exit" with a thread still running only shows the ActiveTransfers error.
Quit ==
    /\ Receive("Quit")
    /\ IF Active THEN main' = "refusing" /\ Send("priority", Main) ELSE Leave
    /\ UNCHANGED <<unknown, tpc, run, events, leaving, ui>>

StartManualTransfer ==
    /\ Receive("StartManualTransfer")
    /\ Goto(Head(inbox)[2], "starting")
    /\ UNCHANGED <<main, unknown, run, outbox, events, leaving, ui>>

StartSnapshot ==
    /\ Receive("StartSnapshot")
    /\ run' = "naming"
    /\ UNCHANGED <<main, unknown, tpc, outbox, events, leaving, ui>>

CompleteBackupAndExit ==
    /\ Receive("CompleteBackupAndExit")
    /\ Leave
    /\ UNCHANGED <<unknown, tpc, run, events, leaving, ui>>

\* The main loop waits for the user to say what an unknown device is.
UnknownDevice ==
    /\ main = "loop" /\ unknown > 0
    /\ main' = "asking" /\ unknown' = unknown - 1
    /\ Send("query", Main)
    /\ UNCHANGED <<tpc, run, inbox, events, leaving, ui>>

\* Mutant: when the front query is answered the rest of the queue is not put back.
AnswerMainForgetful ==
    /\ KeyOfQuery(Main) /\ queries' = <<>>
    /\ main' = "loop"
    /\ UNCHANGED <<unknown, tpc, run, channels, uiUp, rows, greyed, terminal>>

AnswerMain ==
    /\ KeyOfQuery(Main) /\ queries' = Tail(queries)
    /\ main' = "loop"
    /\ UNCHANGED <<unknown, tpc, run, channels, uiUp, rows, greyed, terminal>>

\* The process ends when every thread has dropped its clone of the UI.
ProcessEnds ==
    /\ main = "left" /\ ~uiUp /\ ~Active
    /\ main' = "ended"
    /\ UNCHANGED <<unknown, tpc, run, channels, ui>>

-----------------------------------------------------------------------------
(* A transfer thread, up to its approval *)

\* A mount thread starts a transfer for a card; such a thread may outlive the main loop.
PlugCard(t) ==
    /\ main # "ended" /\ tpc[t] = "unborn"
    /\ Goto(t, "starting")
    /\ UNCHANGED <<main, unknown, run, channels, ui>>

\* new_transfer adds the row; without an initial card id there is only an error.
Announce(t) ==
    /\ tpc[t] = "starting"
    /\ Ask(t, "transfer", "announced") \/ Ask(t, "priority", "failing")
    /\ UNCHANGED <<main, unknown, run, inbox, events, leaving, ui>>

AskApproval(t) ==
    /\ \/ tpc[t] = "announced" /\ Ask(t, "query", "approving")
       \/ tpc[t] = "reasking" /\ Ask(t, "priority", "approving")
    /\ UNCHANGED <<main, unknown, run, inbox, events, leaving, ui>>

\* After the approval: a warning or a conflict is put to the user, a card id error is shown,
\* or the card directory is made (or not).
Prepare(t) ==
    /\ tpc[t] = "preparing"
    /\ \/ /\ \E step \in {"confirming", "refused"} : Ask(t, "priority", step)
          /\ UNCHANGED events
       \/ Goto(t, "measuring") /\ UNCHANGED <<outbox, events>>
       \/ Goto(t, "failed") /\ Signal(t, "failed") /\ UNCHANGED outbox
    /\ UNCHANGED <<main, unknown, run, inbox, leaving, ui>>

\* The checks up to the plan of the move; a size of zero is put to the user.
Measure(t) ==
    /\ tpc[t] = "measuring"
    /\ \/ Ask(t, "priority", "sizing") /\ UNCHANGED events
       \/ Goto(t, "recording") /\ UNCHANGED <<outbox, events>>
       \/ Goto(t, "failed") /\ Signal(t, "failed") /\ UNCHANGED outbox
    /\ UNCHANGED <<main, unknown, run, inbox, leaving, ui>>

\* add_transfer; what could not be planned is recorded too, and fails at once.
Record(t) ==
    /\ tpc[t] = "recording" /\ LogFree
    /\ \/ Goto(t, "moving") /\ Signal(t, "started")
       \/ Goto(t, "botched") /\ UNCHANGED events
       \/ Goto(t, "logfailed") /\ Signal(t, "failed")
    /\ UNCHANGED <<main, unknown, run, inbox, outbox, leaving, ui>>

\* A sample shows all bytes at the destination, with `mv` still at work on the source.
Sample(t) ==
    /\ tpc[t] = "moving" /\ LogFree
    /\ Signal(t, "reached")
    /\ UNCHANGED <<main, unknown, tpc, run, inbox, outbox, leaving, ui>>

\* `mv` is done or has failed; the last sample may fall short, or not be taken.
EndMove(t) ==
    /\ tpc[t] = "moving"
    /\ \E step \in {"moved", "botched"} : Goto(t, step)
    /\ UNCHANGED events \/ (LogFree /\ Signal(t, "reached"))
    /\ UNCHANGED <<main, unknown, run, inbox, outbox, leaving, ui>>

\* finalize_transfer, and the unmount or the error.
Finalize(t) ==
    /\ tpc[t] \in {"moved", "botched"} /\ LogFree
    /\ IF tpc[t] = "moved" THEN Goto(t, "ended") /\ UNCHANGED events
       ELSE Goto(t, "failed") /\ Signal(t, "failed")
    /\ UNCHANGED <<main, unknown, run, inbox, outbox, leaving, ui>>

\* show_transfer_error, once the row is marked failed.
ShowError(t) ==
    /\ \/ tpc[t] = "failed" /\ Ask(t, "priority", "failing")
       \/ tpc[t] = "logfailed" /\ Ask(t, "priority", "logerror")
    /\ UNCHANGED <<main, unknown, run, inbox, events, leaving, ui>>

\* Where an answer may send the thread.
Answers(step) ==
    CASE step = "approving"  -> {"preparing", "ended"}
      [] step = "confirming" -> {"measuring", "reasking", "ended"}
      [] step = "sizing"     -> {"recording", "ended"}
      [] OTHER               -> {"ended"}

\* A refusal takes the row away, an error read leaves it.
AnswerTransfer(t) ==
    /\ KeyOfQuery(t) /\ queries' = Tail(queries)
    /\ \E step \in Answers(tpc[t]) :
          /\ Goto(t, step)
          /\ IF step = "ended" /\ tpc[t] \notin {"failing", "logerror"}
             THEN Signal(t, "removed") ELSE UNCHANGED events
    /\ UNCHANGED <<main, unknown, run, inbox, outbox, leaving, uiUp, rows, greyed, terminal>>

\* Mutant: the failure of an error dialog is retried instead of ending the thread.
TransferWakesUnlessFailing(t) ==
    /\ ~uiUp /\ tpc[t] \in InDialog \ {"failing"}
    /\ Goto(t, "ended")
    /\ UNCHANGED <<main, unknown, run, channels, ui>>

\* The UI dropped the query or refuses it: the thread sees an error and returns.
TransferWakes(t) ==
    /\ ~uiUp /\ tpc[t] \in InDialog
    /\ Goto(t, "ended")
    /\ UNCHANGED <<main, unknown, run, channels, ui>>

-----------------------------------------------------------------------------
(* The snapshot thread; its one run has ended before the main loop can be left *)

AskName ==
    /\ run = "naming"
    /\ run' = IF uiUp THEN "asking" ELSE "idle"
    /\ Send("query", Run)
    /\ UNCHANGED <<main, unknown, tpc, inbox, events, leaving, ui>>

\* Mutant: as AnswerMainForgetful.
AnswerRunForgetful ==
    /\ KeyOfQuery(Run) /\ queries' = <<>>
    /\ run' \in {"named", "idle"}
    /\ UNCHANGED <<main, unknown, tpc, channels, uiUp, rows, greyed, terminal>>

AnswerRun ==
    /\ KeyOfQuery(Run) /\ queries' = Tail(queries)
    /\ run' \in {"named", "idle"}
    /\ UNCHANGED <<main, unknown, tpc, channels, uiUp, rows, greyed, terminal>>

OpenTerminal ==
    /\ run = "named"
    /\ run' = IF uiUp THEN "before" ELSE "idle"
    /\ Send("terminal", Run)
    /\ UNCHANGED <<main, unknown, tpc, inbox, events, leaving, ui>>

RunGoes(from, to) ==
    /\ run = from /\ run' \in to
    /\ UNCHANGED <<main, unknown, tpc, channels, ui>>

TakeTripwire   == RunGoes("before", {"completing", "returning"})
CompleteBackup == LogFree /\ RunGoes("completing", {"checking", "reverting"})
CheckEnds      == RunGoes("checking", {"sealing", "deciding"})
SealBackup     == RunGoes("sealing", {"completed", "reverting"})
Unwind         == LogFree /\ RunGoes("reverting", {"returning"})

\* The buttons of the check terminal.
PressKeepOrRemove ==
    /\ KeyOfTerminal /\ run \in {"checking", "deciding"}
    /\ run' \in {"sealing", "reverting"}
    /\ UNCHANGED <<main, unknown, tpc, channels, uiUp, queries, rows, greyed, terminal>>

\* Mutant: the thread ends without sending Exit.
PressReturnSilently ==
    /\ KeyOfTerminal /\ run = "returning"
    /\ run' = "idle"
    /\ UNCHANGED <<main, unknown, tpc, channels, uiUp, queries, rows, greyed, terminal>>

\* "Return to main screen": the thread sends Exit and ends.
PressReturn ==
    /\ KeyOfTerminal /\ run = "returning"
    /\ run' = "idle" /\ leaving' = TRUE
    /\ UNCHANGED <<main, unknown, tpc, inbox, outbox, events, uiUp, queries, rows, greyed, terminal>>

\* "Complete backup and exit": the thread leaves the rest to the main loop and ends.
PressExit ==
    /\ KeyOfTerminal /\ run = "completed"
    /\ run' = "idle"
    /\ inbox' = Append(inbox, <<"CompleteBackupAndExit">>)
    /\ UNCHANGED <<main, unknown, tpc, outbox, events, leaving, uiUp, queries, rows, greyed, terminal>>

-----------------------------------------------------------------------------
Frame == FrameEvents \/ TakeMessage \/ MessagesTaken \/ UiQuits \/ FrameWithoutKey

MainStep ==
    \/ Quit \/ StartManualTransfer \/ StartSnapshot \/ CompleteBackupAndExit \/ ProcessEnds

TransferStep(t) ==
    \/ Announce(t) \/ AskApproval(t) \/ Prepare(t) \/ Measure(t) \/ Record(t)
    \/ EndMove(t) \/ Finalize(t) \/ ShowError(t) \/ TransferWakes(t)

RunStep ==
    \/ AskName \/ OpenTerminal \/ TakeTripwire \/ CompleteBackup \/ CheckEnds
    \/ SealBackup \/ Unwind

AnswerQuery == AnswerMain \/ AnswerRun \/ \E t \in Transfers : AnswerTransfer(t)

PressButton == PressKeepOrRemove \/ PressReturn \/ PressExit

Next ==
    \/ Frame \/ MainStep \/ UnknownDevice \/ RunStep
    \/ AnswerQuery \/ PressButton
    \/ PressQuit \/ PressSnapshot
    \/ \E t \in Transfers :
          TransferStep(t) \/ Sample(t) \/ PlugCard(t) \/ PressManualTransfer(t)

Spec == Init /\ [][Next]_vars

\* The UI draws frames and every thread that can run does; the user answers the query and
\* presses a button of the terminal that is shown again and again. What the user starts, and
\* what is plugged in, nobody is obliged to.
FairSpec ==
    /\ Spec
    /\ WF_vars(Frame) /\ WF_vars(MainStep) /\ WF_vars(RunStep)
    /\ \A t \in Transfers : WF_vars(TransferStep(t))
    /\ SF_vars(AnswerQuery) /\ SF_vars(PressButton)

-----------------------------------------------------------------------------
(* Properties *)

Requests == {<<"Quit">>, <<"StartSnapshot">>, <<"CompleteBackupAndExit">>}
                \cup ({"StartManualTransfer"} \X Transfers)
Kinds    == {"transfer", "query", "priority", "terminal", "quit"}
Messages == [kind : Kinds, of : Askers]
RowEvents == {"started", "reached", "failed", "removed"}
RowStates == {"absent", "waiting", "moving", "finished", "failed", "gone"}

\* Every variable has its type.
TypeOK ==
    /\ main \in {"loop", "asking", "refusing", "left", "ended"}
    /\ inbox \in Seq(Requests)
    /\ unknown \in 0..MaxUnknown
    /\ tpc \in [Transfers -> TransferSteps] /\ run \in RunSteps
    /\ outbox \in Seq(Messages)
    /\ events \in [Transfers -> SUBSET RowEvents]
    /\ leaving \in BOOLEAN /\ uiUp \in BOOLEAN
    /\ frame \in {"events", "messages", "keys"}
    /\ queries \in Seq(Askers)
    /\ rows \in [Transfers -> RowStates]
    /\ greyed \in BOOLEAN /\ terminal \in BOOLEAN

\* Where the queries of somebody are: in the UI's queue, or on their way there.
Queued(who) == {i \in DOMAIN queries : queries[i] = who}
Coming(who) ==
    {i \in DOMAIN outbox : outbox[i].of = who /\ outbox[i].kind \in {"query", "priority"}}

Pending(who) == Cardinality(Queued(who)) + Cardinality(Coming(who))

\* ui.rs:299-306: while the UI runs, whoever waits for an answer has exactly one query at the
\* UI or on its way there, and no query is left of somebody who does not wait.
WaitersHaveTheirQuery ==
    uiUp => \A who \in Askers : Pending(who) = IF Waiting(who) THEN 1 ELSE 0

\* The steps of a run that has the check terminal. They lead to its buttons, but "completing"
\* and "reverting" wait for the log.
InTerminal == {"before", "completing", "checking", "deciding", "sealing", "reverting",
               "returning", "completed"}

\* ui.rs:296-298: the check terminal captures every key until its run lets go of it. It is
\* closed again, unless one of two dialogs is hidden under it that nobody can dismiss: the
\* error of a transfer's record, which keeps the log locked and the run waiting, or a question
\* of the main loop, which then does not come to the request to leave.
TerminalIsLeft ==
    [](terminal => <>(\/ ~terminal
                      \/ []~LogFree
                      \/ [](main \in {"asking", "refusing"})))

\* While the check terminal is shown its run is at work, or the run has ended with an Exit on
\* its way, the request to leave sent, or the main loop left. This does not say that it is
\* ever closed, which is TerminalIsLeft.
TerminalHasAnOwner ==
    terminal => \/ run \in InTerminal
                \/ leaving
                \/ \E i \in DOMAIN inbox : inbox[i] = <<"CompleteBackupAndExit">>
                \/ main = "left"

\* Once the main loop is left the process ends, whatever the threads were waiting for.
ShutdownCompletes == main = "left" ~> main = "ended"

GoesBack == \E t \in Transfers : tpc[t] = "confirming" /\ tpc'[t] = "reasking"

\* No query is lost or overtaken for ever: unless the check terminal is in front of it, it is
\* answered, provided the user does not go back to a transfer's query for ever.
QueriesAreAnswered ==
    <>[][~GoesBack]_vars =>
        \A who \in Askers : Waiting(who) ~> ~Waiting(who) \/ terminal

\* snapshot_logic.rs:426-427: after "Complete backup and exit" the main loop tears the program
\* down, so that the terminal needs no Exit.
ExitIsHonoured ==
    (\E i \in DOMAIN inbox : inbox[i] = <<"CompleteBackupAndExit">>) ~> main = "ended"

\* transfer_logic.rs:1385: the error of a transfer is shown, to be read and dismissed.
LogErrorsAreShown ==
    \A t \in Transfers : tpc[t] = "logfailed" ~> tpc[t] = "ended"

\* main.rs:967-969: when the program leaves, no transfer is there to interrupt.
NothingToInterrupt ==
    [][main = "loop" /\ main' = "left" => \A t \in Transfers : tpc[t] # "moving"]_vars

\* user_actions_window.rs:15-17: the options are greyed out while transfers are running, so
\* the row of a transfer that has ended does not hold them back.
RowsSettle ==
    \A t \in Transfers : tpc[t] = "ended" ~> rows[t] \notin Unsettled

-----------------------------------------------------------------------------
(* What the proofs of the invariants rest on *)

\* The places of the queries, without counting them.
NoQuery(who) == Queued(who) = {} /\ Coming(who) = {}
OneQuery(who) ==
    \/ Coming(who) = {} /\ \E i \in Queued(who) : Queued(who) = {i}
    \/ Queued(who) = {} /\ \E i \in Coming(who) : Coming(who) = {i}

QueriesInv ==
    uiUp => \A who \in Askers : IF Waiting(who) THEN OneQuery(who) ELSE NoQuery(who)

\* What the user started waits for its request, which is sent once.
Requested(request) == {i \in DOMAIN inbox : inbox[i] = request}
RequestsInv ==
    /\ \A t \in Transfers :
          /\ Requested(<<"StartManualTransfer", t>>) # {} => tpc[t] = "requested"
          /\ \A i, j \in Requested(<<"StartManualTransfer", t>>) : i = j
    /\ Requested(<<"StartSnapshot">>) # {} => run = "requested"
    /\ \A i, j \in Requested(<<"StartSnapshot">>) : i = j

Opening == {i \in DOMAIN outbox : outbox[i].kind = "terminal"}

\* The terminal is opened at most once for a run, not while the one before is still up.
OpeningInv ==
    /\ \A i, j \in Opening : i = j
    /\ Opening # {} => run \in InTerminal /\ ~terminal
    /\ run \in {"requested", "naming", "asking", "named"} => ~terminal
    /\ leaving => terminal
    /\ ~uiUp => ~terminal

IInv == TypeOK /\ RequestsInv /\ QueriesInv /\ OpeningInv /\ TerminalHasAnOwner
=============================================================================
