----------------------------- MODULE SessionProofs -----------------------------
(***************************************************************************)
(* Proofs about Session, for any number of transfers and any bounds.       *)
(***************************************************************************)
EXTENDS Session, FiniteSetTheorems, TLAPS

-----------------------------------------------------------------------------
(* Queues *)

\* The first of a queue is taken.
LEMMA Taken ==
  ASSUME NEW S, NEW s \in Seq(S), s # <<>>
  PROVE  /\ Tail(s) \in Seq(S) /\ 1 \in DOMAIN s /\ Head(s) = s[1] /\ Head(s) \in S
         /\ DOMAIN s \subseteq Nat \ {0}
         /\ \A i \in DOMAIN Tail(s) : i \in Nat \ {0} /\ i + 1 \in DOMAIN s /\ Tail(s)[i] = s[i + 1]
         /\ \A i \in DOMAIN s \ {1} : i - 1 \in DOMAIN Tail(s) /\ Tail(s)[i - 1] = s[i]
  OBVIOUS

\* One more at the end.
LEMMA Appended ==
  ASSUME NEW S, NEW s \in Seq(S), NEW x \in S
  PROVE  /\ Append(s, x) \in Seq(S) /\ s \o <<x>> = Append(s, x)
         /\ Len(s) + 1 \notin DOMAIN s
         /\ DOMAIN Append(s, x) = DOMAIN s \cup {Len(s) + 1}
         /\ Append(s, x)[Len(s) + 1] = x
         /\ \A i \in DOMAIN s : Append(s, x)[i] = s[i]
  OBVIOUS

\* One more at the front.
LEMMA Pushed ==
  ASSUME NEW S, NEW s \in Seq(S), NEW x \in S
  PROVE  /\ <<x>> \o s \in Seq(S)
         /\ 1 \in DOMAIN (<<x>> \o s) /\ (<<x>> \o s)[1] = x
         /\ \A i \in DOMAIN s : i + 1 \in DOMAIN (<<x>> \o s) /\ (<<x>> \o s)[i + 1] = s[i]
         /\ \A i \in DOMAIN (<<x>> \o s) \ {1} :
               i \in Nat \ {0} /\ i - 1 \in DOMAIN s /\ (<<x>> \o s)[i] = s[i - 1]
  OBVIOUS

-----------------------------------------------------------------------------
(* Type correctness *)

LEMMA SendTypes ==
  ASSUME TypeOK, NEW kind \in Kinds, NEW who \in Askers, Send(kind, who)
  PROVE  outbox' \in Seq(Messages)
<1>1. [kind |-> kind, of |-> who] \in Messages
  BY DEF Messages
<1> QED
  BY <1>1, Appended DEF Send, TypeOK

LEMMA GotoTypes ==
  ASSUME TypeOK, NEW t, NEW step \in TransferSteps, Goto(t, step)
  PROVE  tpc' \in [Transfers -> TransferSteps]
  BY DEF Goto, TypeOK

LEMMA SignalTypes ==
  ASSUME TypeOK, NEW t, NEW event \in RowEvents, Signal(t, event)
  PROVE  events' \in [Transfers -> SUBSET RowEvents]
  BY DEF Signal, TypeOK

LEMMA AskTypes ==
  ASSUME TypeOK, NEW t \in Transfers, NEW kind \in Kinds, NEW step \in TransferSteps,
         Ask(t, kind, step)
  PROVE  tpc' \in [Transfers -> TransferSteps] /\ outbox' \in Seq(Messages)
<1>1. (IF uiUp THEN step ELSE "ended") \in TransferSteps
  BY DEF TransferSteps
<1>2. t \in Askers
  BY DEF Askers
<1> QED
  BY <1>1, <1>2, GotoTypes, SendTypes DEF Ask

\* The UI's own steps.
LEMMA FrameTypes == TypeOK /\ Frame => TypeOK'
<1> SUFFICES ASSUME TypeOK, Frame PROVE TypeOK'
  OBVIOUS
<1> USE DEF channels
<1>1. CASE FrameEvents
  <2>1. \A t \in Transfers : RowAfter(t) \in RowStates
    BY DEF RowAfter, RowStates, TypeOK
  <2>2. rows' \in [Transfers -> RowStates]
    BY <1>1, <2>1 DEF FrameEvents, RowStates
  <2>3. events' \in [Transfers -> SUBSET RowEvents]
    BY <1>1 DEF FrameEvents, TypeOK
  <2> QED
    BY <1>1, <2>2, <2>3 DEF FrameEvents, TypeOK
<1>2. CASE TakeMessage
  <2> DEFINE m == Head(outbox)
  <2>1. m \in Messages /\ outbox' \in Seq(Messages)
    BY <1>2, Taken DEF TakeMessage, TypeOK
  <2>2. m.of \in Askers
    BY <2>1 DEF Messages
  <2>3. queries' \in Seq(Askers)
    <3>1. queries' = Enqueued(m) /\ queries \in Seq(Askers)
      BY <1>2 DEF TakeMessage, TypeOK
    <3> HIDE DEF m
    <3> QED
      BY <2>2, <3>1, Appended, Pushed DEF Enqueued
  <2>4. rows' \in [Transfers -> RowStates] /\ terminal' \in BOOLEAN
    BY <1>2 DEF TakeMessage, TypeOK, RowStates
  <2> QED
    BY <1>2, <2>1, <2>3, <2>4 DEF TakeMessage, TypeOK
<1>3. CASE MessagesTaken \/ FrameWithoutKey
  BY <1>3 DEF MessagesTaken, FrameWithoutKey, TypeOK
<1>4. CASE UiQuits
  <2>1. outbox' \in Seq(Messages) /\ queries' \in Seq(Askers)
    BY <1>4 DEF UiQuits
  <2>2. rows' \in [Transfers -> RowStates] /\ events' \in [Transfers -> SUBSET RowEvents]
    BY <1>4 DEF UiQuits, RowStates
  <2> QED
    BY <1>4, <2>1, <2>2 DEF UiQuits, TypeOK
<1> QED
  BY <1>1, <1>2, <1>3, <1>4 DEF Frame

\* The actions window and the terminal.
LEMMA ButtonTypes ==
  TypeOK /\ (PressQuit \/ PressSnapshot \/ PressButton \/ \E t \in Transfers : PressManualTransfer(t))
    => TypeOK'
<1> SUFFICES ASSUME TypeOK, PressQuit \/ PressSnapshot \/ PressButton
                              \/ \E t \in Transfers : PressManualTransfer(t)
             PROVE  TypeOK'
  OBVIOUS
<1> USE DEF channels
<1>1. frame' \in {"events", "messages", "keys"}
  BY DEF PressQuit, PressSnapshot, PressButton, PressManualTransfer, PressKeepOrRemove, PressReturn,
     PressExit, KeyOfActions, KeyOfTerminal, Key
<1>2. \A x \in Requests : Append(inbox, x) \in Seq(Requests)
  BY Appended DEF TypeOK
<1>3. CASE PressQuit
  <2>1. <<"Quit">> \in Requests
    BY DEF Requests
  <2> QED
    BY <1>1, <1>2, <1>3, <2>1 DEF PressQuit, TypeOK
<1>4. CASE PressSnapshot
  <2>1. <<"StartSnapshot">> \in Requests
    BY DEF Requests
  <2> QED
    BY <1>1, <1>2, <1>4, <2>1 DEF PressSnapshot, TypeOK, RunSteps
<1>5. CASE PressKeepOrRemove \/ PressReturn
  BY <1>1, <1>5 DEF PressKeepOrRemove, PressReturn, TypeOK, RunSteps
<1>6. CASE PressExit
  <2>1. <<"CompleteBackupAndExit">> \in Requests
    BY DEF Requests
  <2> QED
    BY <1>1, <1>2, <1>6, <2>1 DEF PressExit, TypeOK, RunSteps
<1>7. ASSUME NEW t \in Transfers, PressManualTransfer(t) PROVE TypeOK'
  <2>1. <<"StartManualTransfer", t>> \in Requests
    BY DEF Requests
  <2>2. tpc' \in [Transfers -> TransferSteps]
    BY <1>7, GotoTypes DEF PressManualTransfer, TransferSteps
  <2> QED
    BY <1>1, <1>2, <1>7, <2>1, <2>2 DEF PressManualTransfer, TypeOK
<1> QED
  BY <1>3, <1>4, <1>5, <1>6, <1>7 DEF PressButton

LEMMA MainTypes == TypeOK /\ (MainStep \/ UnknownDevice) => TypeOK'
<1> SUFFICES ASSUME TypeOK, MainStep \/ UnknownDevice PROVE TypeOK'
  OBVIOUS
<1> USE DEF channels, ui
<1>1. Main \in Askers
  BY DEF Askers
<1>2. \A message : Receive(message) => inbox' \in Seq(Requests)
  BY Taken DEF Receive, TypeOK
<1>3. \A kind \in Kinds : Send(kind, Main) => outbox' \in Seq(Messages)
  BY <1>1, SendTypes
<1>4. CASE Quit \/ CompleteBackupAndExit
  <2>1. outbox' \in Seq(Messages)
    BY <1>3, <1>4 DEF Quit, CompleteBackupAndExit, Leave, Kinds
  <2> QED
    BY <1>2, <1>4, <2>1 DEF Quit, CompleteBackupAndExit, Leave, TypeOK
<1>5. CASE StartManualTransfer
  <2>1. tpc' \in [Transfers -> TransferSteps]
    BY <1>5, GotoTypes DEF StartManualTransfer, TransferSteps
  <2> QED
    BY <1>2, <1>5, <2>1 DEF StartManualTransfer, Receive, TypeOK
<1>6. CASE StartSnapshot
  BY <1>2, <1>6 DEF StartSnapshot, Receive, TypeOK, RunSteps
<1>7. CASE UnknownDevice
  <2>1. outbox' \in Seq(Messages)
    BY <1>3, <1>7 DEF UnknownDevice, Kinds
  <2>2. unknown' \in 0..MaxUnknown
    BY <1>7, BoundsAssumption DEF UnknownDevice, TypeOK, BoundsAssumption
  <2> QED
    BY <1>7, <2>1, <2>2 DEF UnknownDevice, TypeOK
<1>8. CASE ProcessEnds
  BY <1>8 DEF ProcessEnds, TypeOK
<1> QED
  BY <1>4, <1>5, <1>6, <1>7, <1>8 DEF MainStep

LEMMA TransferTypes ==
  ASSUME TypeOK, NEW t \in Transfers, TransferStep(t) \/ Sample(t) \/ PlugCard(t)
  PROVE  TypeOK'
<1> USE DEF channels, ui
<1>1. \A kind \in Kinds, step \in TransferSteps : Ask(t, kind, step) =>
         tpc' \in [Transfers -> TransferSteps] /\ outbox' \in Seq(Messages)
  BY AskTypes
<1>2. \A step \in TransferSteps : Goto(t, step) => tpc' \in [Transfers -> TransferSteps]
  BY GotoTypes
<1>3. \A event \in RowEvents : Signal(t, event) => events' \in [Transfers -> SUBSET RowEvents]
  BY SignalTypes
<1>4. CASE Announce(t) \/ AskApproval(t) \/ ShowError(t)
  <2>1. tpc' \in [Transfers -> TransferSteps] /\ outbox' \in Seq(Messages)
    BY <1>1, <1>4 DEF Announce, AskApproval, ShowError, Kinds, TransferSteps
  <2> QED
    BY <1>4, <2>1 DEF Announce, AskApproval, ShowError, TypeOK
<1>5. CASE Prepare(t)
  <2>1. tpc' \in [Transfers -> TransferSteps] /\ outbox' \in Seq(Messages)
    BY <1>1, <1>2, <1>5 DEF Prepare, Kinds, TransferSteps, TypeOK
  <2>2. events' \in [Transfers -> SUBSET RowEvents]
    BY <1>3, <1>5 DEF Prepare, RowEvents, TypeOK
  <2> QED
    BY <1>5, <2>1, <2>2 DEF Prepare, TypeOK
<1>6. CASE Measure(t)
  <2>1. tpc' \in [Transfers -> TransferSteps] /\ outbox' \in Seq(Messages)
    BY <1>1, <1>2, <1>6 DEF Measure, Kinds, TransferSteps, TypeOK
  <2>2. events' \in [Transfers -> SUBSET RowEvents]
    BY <1>3, <1>6 DEF Measure, RowEvents, TypeOK
  <2> QED
    BY <1>6, <2>1, <2>2 DEF Measure, TypeOK
<1>7. CASE Record(t) \/ EndMove(t) \/ Finalize(t) \/ Sample(t)
  <2>1. tpc' \in [Transfers -> TransferSteps]
    BY <1>2, <1>7 DEF Record, EndMove, Finalize, Sample, TransferSteps, TypeOK
  <2>2. events' \in [Transfers -> SUBSET RowEvents]
    BY <1>3, <1>7 DEF Record, EndMove, Finalize, Sample, RowEvents, TypeOK
  <2> QED
    BY <1>7, <2>1, <2>2 DEF Record, EndMove, Finalize, Sample, TypeOK
<1>8. CASE TransferWakes(t) \/ PlugCard(t)
  <2>1. tpc' \in [Transfers -> TransferSteps]
    BY <1>2, <1>8 DEF TransferWakes, PlugCard, TransferSteps
  <2> QED
    BY <1>8, <2>1 DEF TransferWakes, PlugCard, TypeOK
<1> QED
  BY <1>4, <1>5, <1>6, <1>7, <1>8 DEF TransferStep

LEMMA AnswerTypes == TypeOK /\ AnswerQuery => TypeOK'
<1> SUFFICES ASSUME TypeOK, AnswerQuery PROVE TypeOK'
  OBVIOUS
<1> USE DEF channels
<1>1. \A who : KeyOfQuery(who) => queries # <<>> /\ frame' \in {"events", "messages", "keys"}
  BY DEF KeyOfQuery, Key
<1>2. queries' \in Seq(Askers)
  <2>1. queries # <<>> /\ queries' = Tail(queries)
    BY <1>1 DEF AnswerQuery, AnswerMain, AnswerRun, AnswerTransfer
  <2> QED
    BY <2>1, Taken DEF TypeOK
<1>3. CASE AnswerMain \/ AnswerRun
  BY <1>1, <1>2, <1>3 DEF AnswerMain, AnswerRun, TypeOK, RunSteps
<1>4. ASSUME NEW t \in Transfers, AnswerTransfer(t) PROVE TypeOK'
  <2>1. Answers(tpc[t]) \subseteq TransferSteps
    BY DEF Answers, TransferSteps
  <2>2. tpc' \in [Transfers -> TransferSteps]
    BY <1>4, <2>1, GotoTypes DEF AnswerTransfer
  <2>3. events' \in [Transfers -> SUBSET RowEvents]
    BY <1>4, SignalTypes DEF AnswerTransfer, RowEvents, TypeOK
  <2> QED
    BY <1>1, <1>2, <1>4, <2>2, <2>3 DEF AnswerTransfer, TypeOK
<1> QED
  BY <1>3, <1>4 DEF AnswerQuery

LEMMA RunTypes == TypeOK /\ RunStep => TypeOK'
<1> SUFFICES ASSUME TypeOK, RunStep PROVE TypeOK'
  OBVIOUS
<1> USE DEF channels, ui
<1>1. Run \in Askers
  BY DEF Askers
<1>2. CASE AskName \/ OpenTerminal
  <2>1. outbox' \in Seq(Messages)
    BY <1>1, <1>2, SendTypes DEF AskName, OpenTerminal, Kinds
  <2> QED
    BY <1>2, <2>1 DEF AskName, OpenTerminal, TypeOK, RunSteps
<1>3. CASE TakeTripwire \/ CompleteBackup \/ CheckEnds \/ SealBackup \/ Unwind
  BY <1>3 DEF TakeTripwire, CompleteBackup, CheckEnds, SealBackup, Unwind, RunGoes, TypeOK, RunSteps
<1> QED
  BY <1>2, <1>3 DEF RunStep

LEMMA TypeInit == Init => TypeOK
<1> SUFFICES ASSUME Init PROVE TypeOK
  OBVIOUS
<1>1. inbox \in Seq(Requests) /\ outbox \in Seq(Messages) /\ queries \in Seq(Askers)
  BY DEF Init
<1>2. tpc \in [Transfers -> TransferSteps] /\ rows \in [Transfers -> RowStates]
  BY DEF Init, TransferSteps, RowStates
<1>3. events \in [Transfers -> SUBSET RowEvents] /\ unknown \in 0..MaxUnknown
  BY BoundsAssumption DEF BoundsAssumption, Init
<1> QED
  BY <1>1, <1>2, <1>3 DEF Init, TypeOK, RunSteps

LEMMA TypeNext == TypeOK /\ [Next]_vars => TypeOK'
<1>1. TypeOK /\ UNCHANGED vars => TypeOK'
  BY DEF TypeOK, vars, channels, ui
<1> QED
  BY <1>1, FrameTypes, ButtonTypes, MainTypes, TransferTypes, AnswerTypes, RunTypes DEF Next

\* Every variable keeps its type, for any number of transfers.
THEOREM TypeCorrect == Spec => []TypeOK
  BY TypeInit, TypeNext, PTL DEF Spec

-----------------------------------------------------------------------------
(* What the user starts is requested once *)

\* The kinds of requests differ.
LEMMA RequestsDiffer ==
  /\ \A t \in Transfers : \A x \in {<<"Quit">>, <<"StartSnapshot">>, <<"CompleteBackupAndExit">>} :
        x # <<"StartManualTransfer", t>>
  /\ \A t, u : <<"StartManualTransfer", t>> = <<"StartManualTransfer", u>> => t = u
  /\ <<"Quit">> # <<"StartSnapshot">> /\ <<"CompleteBackupAndExit">> # <<"StartSnapshot">>
  /\ <<"Quit">> # <<"CompleteBackupAndExit">>
  OBVIOUS

\* A request that has come to its turn.
LEMMA Received ==
  ASSUME TypeOK, NEW message, Receive(message)
  PROVE  /\ 1 \in Requested(Head(inbox))
         /\ message \in {"Quit", "StartSnapshot", "CompleteBackupAndExit"} => Head(inbox) = <<message>>
         /\ message = "StartManualTransfer" =>
               Head(inbox)[2] \in Transfers /\ Head(inbox) = <<"StartManualTransfer", Head(inbox)[2]>>
<1>1. Head(inbox) \in Requests /\ Head(inbox)[1] = message /\ 1 \in Requested(Head(inbox))
  BY Taken DEF Receive, TypeOK, Requested
<1> QED
  BY <1>1 DEF Requests

\* It leaves the others where they were, one place ahead.
LEMMA RequestTaken ==
  ASSUME TypeOK, inbox # <<>>, inbox' = Tail(inbox), NEW x
  PROVE  /\ \A i \in Requested(x)' : i \in Nat \ {0} /\ i + 1 \in Requested(x)
         /\ \A i \in Requested(x) \ {1} : i - 1 \in Requested(x)'
         /\ 1 \in Requested(x) <=> Head(inbox) = x
         /\ (\A i, j \in Requested(x) : i = j) =>
               /\ \A i, j \in Requested(x)' : i = j
               /\ Head(inbox) = x => Requested(x)' = {}
<1>1. /\ 1 \in DOMAIN inbox /\ Head(inbox) = inbox[1]
      /\ \A i \in DOMAIN inbox' : i \in Nat \ {0} /\ i + 1 \in DOMAIN inbox /\ inbox'[i] = inbox[i + 1]
      /\ \A i \in DOMAIN inbox \ {1} : i - 1 \in DOMAIN inbox' /\ inbox'[i - 1] = inbox[i]
  BY Taken DEF TypeOK
<1>2. \A i \in Requested(x)' : i \in Nat \ {0} /\ i + 1 \in Requested(x)
  BY <1>1 DEF Requested
<1>3. \A i \in Requested(x) \ {1} : i - 1 \in Requested(x)'
  BY <1>1 DEF Requested
<1>4. 1 \in Requested(x) <=> Head(inbox) = x
  BY <1>1 DEF Requested
<1>5. ASSUME \A i, j \in Requested(x) : i = j PROVE \A i, j \in Requested(x)' : i = j
  <2> SUFFICES ASSUME NEW i \in Requested(x)', NEW j \in Requested(x)' PROVE i = j
    OBVIOUS
  <2>1. i \in Nat /\ j \in Nat /\ i + 1 \in Requested(x) /\ j + 1 \in Requested(x)
    BY <1>2
  <2>2. i + 1 = j + 1
    BY <1>5, <2>1
  <2> QED
    BY <2>1, <2>2
<1>6. ASSUME \A i, j \in Requested(x) : i = j, Head(inbox) = x PROVE Requested(x)' = {}
  <2> SUFFICES ASSUME NEW i \in Requested(x)' PROVE FALSE
    OBVIOUS
  <2>1. i \in Nat \ {0} /\ i + 1 \in Requested(x)
    BY <1>2
  <2>2. i + 1 = 1
    BY <1>4, <1>6, <2>1
  <2> QED
    BY <2>1, <2>2
<1> QED
  BY <1>2, <1>3, <1>4, <1>5, <1>6

\* Another one is queued behind them.
LEMMA RequestAdded ==
  ASSUME TypeOK, NEW y \in Requests, inbox' = Append(inbox, y), NEW x
  PROVE  /\ x # y => Requested(x)' = Requested(x)
         /\ Requested(y)' = Requested(y) \cup {Len(inbox) + 1}
<1>1. /\ DOMAIN inbox' = DOMAIN inbox \cup {Len(inbox) + 1}
      /\ inbox'[Len(inbox) + 1] = y
      /\ \A i \in DOMAIN inbox : inbox'[i] = inbox[i]
  BY Appended DEF TypeOK
<1> QED
  BY <1>1 DEF Requested

LEMMA RequestsStay ==
  ASSUME RequestsInv, UNCHANGED inbox, run = "requested" => run' = "requested",
         \A t \in Transfers : tpc[t] = "requested" => tpc'[t] = "requested"
  PROVE  RequestsInv'
  BY DEF RequestsInv, Requested

\* A transfer that has been asked for only goes when the main loop takes the request.
LEMMA RequestsGo ==
  ASSUME TypeOK, RequestsInv, NEW t \in Transfers, NEW step, Goto(t, step), tpc[t] # "requested",
         UNCHANGED <<inbox, run>>
  PROVE  RequestsInv'
  BY RequestsStay DEF Goto, TypeOK

LEMMA RequestsFrame ==
  TypeOK /\ RequestsInv /\ (Frame \/ RunStep \/ UnknownDevice) => RequestsInv'
<1> SUFFICES ASSUME TypeOK, RequestsInv, Frame \/ RunStep \/ UnknownDevice PROVE RequestsInv'
  OBVIOUS
<1> USE DEF channels, ui
<1>1. CASE Frame \/ UnknownDevice
  <2>1. UNCHANGED <<inbox, run, tpc>>
    BY <1>1 DEF Frame, FrameEvents, TakeMessage, MessagesTaken, UiQuits, FrameWithoutKey, UnknownDevice
  <2> QED
    BY <2>1, RequestsStay
<1>2. CASE RunStep
  <2>1. UNCHANGED <<inbox, tpc>> /\ run # "requested"
    BY <1>2 DEF RunStep, AskName, OpenTerminal, TakeTripwire, CompleteBackup, CheckEnds, SealBackup,
       Unwind, RunGoes
  <2> QED
    BY <2>1, RequestsStay
<1> QED
  BY <1>1, <1>2

LEMMA RequestsTransfer ==
  ASSUME TypeOK, RequestsInv, NEW t \in Transfers, TransferStep(t) \/ Sample(t) \/ PlugCard(t)
  PROVE  RequestsInv'
<1> USE DEF channels, ui
<1>1. UNCHANGED <<inbox, run>> /\ (tpc' = tpc \/ \E step : Goto(t, step)) /\ (tpc' = tpc \/ tpc[t] # "requested")
  BY DEF TransferStep, Announce, AskApproval, Prepare, Measure, Record, EndMove, Finalize, ShowError,
     TransferWakes, Sample, PlugCard, Ask, InDialog
<1> QED
  BY <1>1, RequestsGo, RequestsStay

LEMMA RequestsButton ==
  TypeOK /\ RequestsInv
    /\ (PressQuit \/ PressSnapshot \/ PressButton \/ \E t \in Transfers : PressManualTransfer(t))
  => RequestsInv'
<1> SUFFICES ASSUME TypeOK, RequestsInv,
                    PressQuit \/ PressSnapshot \/ PressButton
                      \/ \E t \in Transfers : PressManualTransfer(t)
             PROVE  RequestsInv'
  OBVIOUS
<1> USE DEF channels
<1>1. <<"Quit">> \in Requests /\ <<"CompleteBackupAndExit">> \in Requests /\ <<"StartSnapshot">> \in Requests
  BY DEF Requests
<1>2. CASE PressQuit \/ PressExit
  <2>1. /\ \A t \in Transfers : Requested(<<"StartManualTransfer", t>>)' = Requested(<<"StartManualTransfer", t>>)
        /\ Requested(<<"StartSnapshot">>)' = Requested(<<"StartSnapshot">>)
    BY <1>1, <1>2, RequestAdded, RequestsDiffer DEF PressQuit, PressExit
  <2>2. tpc' = tpc /\ (run = "requested" => run' = "requested")
    BY <1>2 DEF PressQuit, PressExit
  <2> QED
    BY <2>1, <2>2 DEF RequestsInv
<1>3. CASE PressSnapshot
  <2>1. \A t \in Transfers : Requested(<<"StartManualTransfer", t>>)' = Requested(<<"StartManualTransfer", t>>)
    BY <1>1, <1>3, RequestAdded, RequestsDiffer DEF PressSnapshot
  <2>2. Requested(<<"StartSnapshot">>) = {} /\ tpc' = tpc /\ run' = "requested"
    BY <1>3 DEF PressSnapshot, RequestsInv
  <2>3. Requested(<<"StartSnapshot">>)' = {Len(inbox) + 1}
    BY <1>1, <1>3, <2>2, RequestAdded DEF PressSnapshot
  <2> QED
    BY <2>1, <2>2, <2>3 DEF RequestsInv
<1>4. ASSUME NEW t \in Transfers, PressManualTransfer(t) PROVE RequestsInv'
  <2>1. <<"StartManualTransfer", t>> \in Requests
    BY DEF Requests
  <2>2. /\ Requested(<<"StartSnapshot">>)' = Requested(<<"StartSnapshot">>)
        /\ \A u \in Transfers \ {t} :
              Requested(<<"StartManualTransfer", u>>)' = Requested(<<"StartManualTransfer", u>>)
    BY <1>4, <2>1, RequestAdded, RequestsDiffer DEF PressManualTransfer
  <2>3. Requested(<<"StartManualTransfer", t>>) = {}
    BY <1>4 DEF PressManualTransfer, RequestsInv
  <2>4. Requested(<<"StartManualTransfer", t>>)' = {Len(inbox) + 1}
    BY <1>4, <2>1, <2>3, RequestAdded DEF PressManualTransfer
  <2>5. run' = run /\ tpc' = [tpc EXCEPT ![t] = "requested"] /\ tpc \in [Transfers -> TransferSteps]
    BY <1>4 DEF PressManualTransfer, Goto, TypeOK
  <2>6. \A u \in Transfers \ {t} : tpc'[u] = tpc[u]
    BY <2>5
  <2>7. tpc'[t] = "requested"
    BY <2>5
  <2> QED
    BY <2>2, <2>4, <2>5, <2>6, <2>7 DEF RequestsInv
<1>5. CASE PressKeepOrRemove \/ PressReturn
  <2>1. UNCHANGED <<inbox, tpc>> /\ run # "requested"
    BY <1>5 DEF PressKeepOrRemove, PressReturn
  <2> QED
    BY <2>1, RequestsStay
<1> QED
  BY <1>2, <1>3, <1>4, <1>5 DEF PressButton

\* What comes to its turn is what its thread waits for.
LEMMA RequestsMain == TypeOK /\ RequestsInv /\ MainStep => RequestsInv'
<1> SUFFICES ASSUME TypeOK, RequestsInv, MainStep PROVE RequestsInv'
  OBVIOUS
<1> USE DEF channels, ui
<1>1. CASE ProcessEnds
  BY <1>1, RequestsStay DEF ProcessEnds
<1>2. CASE ~ProcessEnds
  <2>1. inbox # <<>> /\ inbox' = Tail(inbox)
    BY <1>2 DEF MainStep, Quit, StartManualTransfer, StartSnapshot, CompleteBackupAndExit, Receive
  <2>2. ASSUME NEW x, \A i, j \in Requested(x) : i = j
        PROVE  /\ \A i, j \in Requested(x)' : i = j
               /\ Requested(x) = {} => Requested(x)' = {}
               /\ Head(inbox) = x => Requested(x)' = {}
    BY <2>1, <2>2, RequestTaken
  <2>3. CASE Quit \/ CompleteBackupAndExit
    <3>1. UNCHANGED <<run, tpc>>
      BY <2>3 DEF Quit, CompleteBackupAndExit
    <3> QED
      BY <2>2, <3>1 DEF RequestsInv
  <2>4. CASE StartSnapshot
    <3>1. Head(inbox) = <<"StartSnapshot">> /\ tpc' = tpc
      BY <2>4, Received DEF StartSnapshot
    <3>2. Requested(<<"StartSnapshot">>)' = {}
      BY <2>2, <3>1 DEF RequestsInv
    <3> QED
      BY <2>2, <3>1, <3>2 DEF RequestsInv
  <2>5. CASE StartManualTransfer
    <3>1. PICK t \in Transfers : t = Head(inbox)[2] /\ Head(inbox) = <<"StartManualTransfer", t>>
      BY <2>5, Received DEF StartManualTransfer
    <3>2. Requested(<<"StartManualTransfer", t>>)' = {}
      BY <2>2, <3>1 DEF RequestsInv
    <3>3. run' = run /\ \A u \in Transfers \ {t} : tpc'[u] = tpc[u]
      BY <2>5, <3>1 DEF StartManualTransfer, Goto, TypeOK
    <3> QED
      BY <2>2, <3>2, <3>3 DEF RequestsInv
  <2> QED
    BY <1>2, <2>3, <2>4, <2>5 DEF MainStep
<1> QED
  BY <1>1, <1>2

-----------------------------------------------------------------------------
(* Who waits has one query *)

\* Who waits, asker by asker, before and after a step.
LEMMA WaitingOf ==
  /\ Waiting(Main) <=> main \in {"asking", "refusing"}
  /\ Waiting(Main)' <=> main' \in {"asking", "refusing"}
  /\ Waiting(Run) <=> run = "asking"
  /\ Waiting(Run)' <=> run' = "asking"
  /\ \A t \in Transfers : Waiting(t) <=> tpc[t] \in InDialog
  /\ \A t \in Transfers : Waiting(t)' <=> tpc'[t] \in InDialog
  BY AskersAssumption DEF AskersAssumption, Waiting

\* Nobody starts or ends waiting.
Unmoved == \A who \in Askers : Waiting(who)' <=> Waiting(who)

LEMMA WaitingStays ==
  ASSUME main' = main \/ (~Waiting(Main) /\ main' \notin {"asking", "refusing"}),
         run' = run \/ (run # "asking" /\ run' # "asking"),
         \A t \in Transfers : tpc'[t] = tpc[t] \/ (tpc[t] \notin InDialog /\ tpc'[t] \notin InDialog)
  PROVE  Unmoved
  BY WaitingOf DEF Unmoved, Askers

LEMMA QueriesStay ==
  ASSUME QueriesInv, UNCHANGED <<queries, outbox, uiUp>>, Unmoved
  PROVE  QueriesInv'
  BY DEF QueriesInv, Unmoved, OneQuery, NoQuery, Queued, Coming

\* A message that asks nothing.
LEMMA SentOther ==
  ASSUME TypeOK, QueriesInv, NEW kind \in {"transfer", "terminal", "quit"}, NEW who \in Askers,
         Send(kind, who), UNCHANGED <<queries, uiUp>>, Unmoved
  PROVE  QueriesInv'
<1>1. CASE ~uiUp
  BY <1>1 DEF QueriesInv
<1>2. CASE uiUp
  <2> DEFINE m == [kind |-> kind, of |-> who]
  <2>1. m \in Messages /\ m.kind \notin {"query", "priority"}
    BY DEF Messages, Kinds
  <2>2. outbox' = Append(outbox, m)
    BY <1>2 DEF Send
  <2> HIDE DEF m
  <2>3. /\ DOMAIN outbox' = DOMAIN outbox \cup {Len(outbox) + 1}
        /\ outbox'[Len(outbox) + 1] = m
        /\ \A i \in DOMAIN outbox : outbox'[i] = outbox[i]
    BY <2>1, <2>2, Appended DEF TypeOK
  <2>4. \A w : Coming(w)' = Coming(w) /\ Queued(w)' = Queued(w)
    BY <2>1, <2>3 DEF Coming, Queued
  <2> QED
    BY <2>4 DEF QueriesInv, Unmoved, OneQuery, NoQuery
<1> QED
  BY <1>1, <1>2

\* The query of somebody who waits from now on.
LEMMA SentQuery ==
  ASSUME TypeOK, QueriesInv, NEW kind \in {"query", "priority"}, NEW who \in Askers,
         Send(kind, who), UNCHANGED <<queries, uiUp>>,
         uiUp => ~Waiting(who) /\ Waiting(who)',
         \A w \in Askers \ {who} : Waiting(w)' <=> Waiting(w)
  PROVE  QueriesInv'
<1>1. CASE ~uiUp
  BY <1>1 DEF QueriesInv
<1>2. CASE uiUp
  <2> DEFINE m == [kind |-> kind, of |-> who]
  <2>1. m \in Messages /\ m.kind \in {"query", "priority"} /\ m.of = who
    BY DEF Messages, Kinds
  <2>2. outbox' = Append(outbox, m)
    BY <1>2 DEF Send
  <2> HIDE DEF m
  <2>3. /\ DOMAIN outbox' = DOMAIN outbox \cup {Len(outbox) + 1}
        /\ outbox'[Len(outbox) + 1] = m
        /\ \A i \in DOMAIN outbox : outbox'[i] = outbox[i]
        /\ Len(outbox) + 1 \notin DOMAIN outbox
    BY <2>1, <2>2, Appended DEF TypeOK
  <2>4. \A w : Queued(w)' = Queued(w)
    BY DEF Queued
  <2>5. \A w \in Askers \ {who} : Coming(w)' = Coming(w)
    BY <2>1, <2>3 DEF Coming
  <2>6. OneQuery(who)'
    <3>1. Queued(who) = {} /\ Coming(who) = {}
      BY <1>2 DEF QueriesInv, NoQuery
    <3>2. Coming(who)' = {Len(outbox) + 1}
      BY <2>1, <2>3, <3>1 DEF Coming
    <3> QED
      BY <2>4, <3>1, <3>2 DEF OneQuery
  <2>7. ASSUME NEW w \in Askers \ {who}
        PROVE  IF Waiting(w)' THEN OneQuery(w)' ELSE NoQuery(w)'
    BY <1>2, <2>4, <2>5 DEF QueriesInv, OneQuery, NoQuery
  <2> QED
    BY <1>2, <2>6, <2>7 DEF QueriesInv
<1> QED
  BY <1>1, <1>2

\* The front query is answered: it was the only one of somebody who waited for it.
LEMMA AnsweredQuery ==
  ASSUME TypeOK, QueriesInv, uiUp, queries # <<>>, queries' = Tail(queries),
         UNCHANGED <<outbox, uiUp>>, NEW who \in Askers, Head(queries) = who
  PROVE  /\ Waiting(who)
         /\ ~Waiting(who)' /\ (\A w \in Askers \ {who} : Waiting(w)' <=> Waiting(w)) => QueriesInv'
<1>1. /\ 1 \in DOMAIN queries /\ queries[1] = who
      /\ DOMAIN queries \subseteq Nat \ {0}
      /\ \A i \in DOMAIN queries' :
            i \in Nat \ {0} /\ i + 1 \in DOMAIN queries /\ queries'[i] = queries[i + 1]
      /\ \A i \in DOMAIN queries \ {1} : i - 1 \in DOMAIN queries' /\ queries'[i - 1] = queries[i]
  BY Taken DEF TypeOK
<1>2. 1 \in Queued(who)
  BY <1>1 DEF Queued
<1>3. Waiting(who) /\ OneQuery(who)
  BY <1>2 DEF QueriesInv, NoQuery
<1>4. Queued(who) = {1} /\ Coming(who) = {}
  BY <1>2, <1>3 DEF OneQuery
<1>5. NoQuery(who)'
  <2>1. \A i \in DOMAIN queries' : queries'[i] # who
    <3> SUFFICES ASSUME NEW i \in DOMAIN queries', queries'[i] = who PROVE FALSE
      OBVIOUS
    <3>1. i + 1 \in Queued(who) /\ i \in Nat \ {0}
      BY <1>1 DEF Queued
    <3> QED
      BY <1>4, <3>1
  <2> QED
    BY <1>4, <2>1 DEF NoQuery, Queued, Coming
<1>6. ASSUME NEW w \in Askers \ {who}
      PROVE  /\ OneQuery(w) => OneQuery(w)'
             /\ NoQuery(w) => NoQuery(w)'
  <2>1. Coming(w)' = Coming(w)
    BY DEF Coming
  <2>2. \A i \in Queued(w)' : i \in Nat \ {0} /\ i + 1 \in Queued(w)
    BY <1>1 DEF Queued
  <2>3. \A i \in Queued(w) : i \in Nat \ {0} /\ i # 1 /\ i - 1 \in Queued(w)'
    BY <1>1 DEF Queued
  <2>4. ASSUME NEW i \in Queued(w), Queued(w) = {i} PROVE Queued(w)' = {i - 1}
    <3>1. \A j \in Queued(w)' : j = i - 1
      BY <2>2, <2>3, <2>4
    <3> QED
      BY <2>3, <3>1
  <2>5. Queued(w) = {} => Queued(w)' = {}
    BY <2>2
  <2> QED
    BY <2>1, <2>4, <2>5 DEF OneQuery, NoQuery
<1>7. ASSUME ~Waiting(who)', \A w \in Askers \ {who} : Waiting(w)' <=> Waiting(w)
      PROVE  QueriesInv'
  BY <1>5, <1>6, <1>7 DEF QueriesInv
<1> QED
  BY <1>3, <1>7

\* The UI takes a message: its query is the one that was on its way.
LEMMA TakenQuery ==
  ASSUME TypeOK, QueriesInv, TakeMessage PROVE QueriesInv'
<1> DEFINE m == Head(outbox)
<1>1. /\ m \in Messages /\ 1 \in DOMAIN outbox /\ outbox[1] = m
      /\ DOMAIN outbox \subseteq Nat \ {0}
      /\ \A i \in DOMAIN outbox' :
            i \in Nat \ {0} /\ i + 1 \in DOMAIN outbox /\ outbox'[i] = outbox[i + 1]
      /\ \A i \in DOMAIN outbox \ {1} : i - 1 \in DOMAIN outbox' /\ outbox'[i - 1] = outbox[i]
  BY Taken DEF TakeMessage, TypeOK
<1>2. m.of \in Askers /\ queries \in Seq(Askers) /\ queries' = Enqueued(m)
  BY <1>1 DEF TakeMessage, TypeOK, Messages
<1>3. Unmoved /\ uiUp /\ uiUp'
  BY WaitingStays DEF TakeMessage
<1> HIDE DEF m
<1> DEFINE asks == m.kind \in {"query", "priority"}
<1>4. \A w : \A i \in Coming(w)' : i \in Nat \ {0} /\ i + 1 \in Coming(w)
  BY <1>1 DEF Coming
<1>5. \A w : \A i \in Coming(w) \ {1} : i \in Nat \ {0} /\ i - 1 \in Coming(w)'
  BY <1>1 DEF Coming
<1>6. ASSUME NEW w, 1 \notin Coming(w)
      PROVE  /\ Coming(w) = {} => Coming(w)' = {}
             /\ \A i : Coming(w) = {i} => Coming(w)' = {i - 1}
  <2>1. Coming(w) = {} => Coming(w)' = {}
    BY <1>4
  <2>2. ASSUME NEW i, Coming(w) = {i} PROVE Coming(w)' = {i - 1}
    <3>1. i \in Nat /\ i - 1 \in Coming(w)'
      BY <1>5, <1>6, <2>2
    <3>2. \A j \in Coming(w)' : j = i - 1
      BY <1>4, <2>2, <3>1
    <3> QED
      BY <3>1, <3>2
  <2> QED
    BY <2>1, <2>2
<1>7. \A w : 1 \in Coming(w) <=> asks /\ w = m.of
  BY <1>1 DEF Coming
<1>8. ASSUME NEW w \in Askers, 1 \notin Coming(w)
      PROVE  /\ NoQuery(w) => NoQuery(w)'
             /\ OneQuery(w) => OneQuery(w)'
  <2>1. CASE m.kind = "priority"
    <3>1. queries' = <<m.of>> \o queries /\ w # m.of
      BY <1>2, <1>7, <1>8, <2>1 DEF Enqueued
    <3>2. /\ 1 \in DOMAIN queries' /\ queries'[1] = m.of
          /\ \A i \in DOMAIN queries : i + 1 \in DOMAIN queries' /\ queries'[i + 1] = queries[i]
          /\ \A i \in DOMAIN queries' \ {1} :
                i \in Nat \ {0} /\ i - 1 \in DOMAIN queries /\ queries'[i] = queries[i - 1]
          /\ DOMAIN queries \subseteq Nat
      BY <1>2, <3>1, Pushed
    <3>3. \A i \in Queued(w) : i \in Nat /\ i + 1 \in Queued(w)'
      BY <3>2 DEF Queued
    <3>4. \A i \in Queued(w)' : i \in Nat /\ i - 1 \in Queued(w)
      BY <3>1, <3>2 DEF Queued
    <3>5. Queued(w) = {} => Queued(w)' = {}
      BY <3>4
    <3>6. ASSUME NEW i \in Queued(w), Queued(w) = {i} PROVE Queued(w)' = {i + 1}
      <4>1. \A j \in Queued(w)' : j = i + 1
        BY <3>3, <3>4, <3>6
      <4> QED
        BY <3>3, <4>1
    <3> QED
      BY <1>6, <1>8, <3>5, <3>6 DEF NoQuery, OneQuery
  <2>2. CASE m.kind = "query"
    <3>1. queries' = Append(queries, m.of) /\ w # m.of
      BY <1>2, <1>7, <1>8, <2>2, Appended DEF Enqueued
    <3>2. /\ DOMAIN queries' = DOMAIN queries \cup {Len(queries) + 1}
          /\ queries'[Len(queries) + 1] = m.of
          /\ \A i \in DOMAIN queries : queries'[i] = queries[i]
      BY <1>2, <3>1, Appended
    <3>3. Queued(w)' = Queued(w)
      BY <3>1, <3>2 DEF Queued
    <3> QED
      BY <1>6, <1>8, <3>3 DEF NoQuery, OneQuery
  <2>3. CASE ~asks
    <3>1. Queued(w)' = Queued(w)
      BY <1>2, <2>3 DEF Enqueued, Queued
    <3> QED
      BY <1>6, <1>8, <3>1 DEF NoQuery, OneQuery
  <2> QED
    BY <2>1, <2>2, <2>3
<1>9. ASSUME NEW w \in Askers, 1 \in Coming(w) PROVE Waiting(w) /\ OneQuery(w)'
  <2>1. asks /\ w = m.of
    BY <1>7, <1>9
  <2>2. Waiting(w) /\ OneQuery(w)
    BY <1>3, <1>9 DEF QueriesInv, NoQuery
  <2>3. Queued(w) = {} /\ Coming(w) = {1}
    BY <1>9, <2>2 DEF OneQuery
  <2>4. Coming(w)' = {}
    <3> SUFFICES ASSUME NEW i \in Coming(w)' PROVE FALSE
      OBVIOUS
    <3>1. i \in Nat \ {0} /\ i + 1 \in Coming(w)
      BY <1>4
    <3> QED
      BY <2>3, <3>1
  <2>5. CASE m.kind = "priority"
    <3>1. queries' = <<w>> \o queries
      BY <1>2, <2>1, <2>5 DEF Enqueued
    <3>2. /\ 1 \in DOMAIN queries' /\ queries'[1] = w
          /\ \A i \in DOMAIN queries' \ {1} :
                i - 1 \in DOMAIN queries /\ queries'[i] = queries[i - 1]
      BY <1>2, <3>1, Pushed
    <3>3. Queued(w)' = {1}
      BY <2>3, <3>2 DEF Queued
    <3> QED
      BY <2>2, <2>4, <3>3 DEF OneQuery
  <2>6. CASE m.kind = "query"
    <3>1. queries' = Append(queries, w)
      BY <1>2, <2>1, <2>6, Appended DEF Enqueued
    <3>2. /\ DOMAIN queries' = DOMAIN queries \cup {Len(queries) + 1}
          /\ queries'[Len(queries) + 1] = w
          /\ \A i \in DOMAIN queries : queries'[i] = queries[i]
      BY <1>2, <3>1, Appended
    <3>3. Queued(w)' = {Len(queries) + 1}
      BY <2>3, <3>2 DEF Queued
    <3> QED
      BY <2>2, <2>4, <3>3 DEF OneQuery
  <2> QED
    BY <2>1, <2>2, <2>5, <2>6
<1>10. ASSUME NEW w \in Askers PROVE IF Waiting(w)' THEN OneQuery(w)' ELSE NoQuery(w)'
  <2>1. CASE 1 \in Coming(w)
    BY <1>3, <1>9, <2>1 DEF Unmoved
  <2>2. CASE 1 \notin Coming(w)
    BY <1>3, <1>8, <2>2 DEF Unmoved, QueriesInv
  <2> QED
    BY <2>1, <2>2
<1> QED
  BY <1>3, <1>10 DEF QueriesInv

\* A transfer asks.
LEMMA AskedQuery ==
  ASSUME TypeOK, QueriesInv, NEW t \in Transfers, NEW kind \in {"query", "priority"},
         NEW step \in InDialog, tpc[t] \notin InDialog, Ask(t, kind, step),
         UNCHANGED <<main, run, queries, uiUp>>
  PROVE  QueriesInv'
<1>1. t \in Askers /\ t # Main /\ t # Run
  BY AskersAssumption DEF AskersAssumption, Askers
<1>2. tpc' = [tpc EXCEPT ![t] = IF uiUp THEN step ELSE "ended"] /\ tpc \in [Transfers -> TransferSteps]
  BY DEF Ask, Goto, TypeOK
<1>3. uiUp => ~Waiting(t) /\ Waiting(t)'
  BY <1>2, WaitingOf
<1>4. \A w \in Askers \ {t} : Waiting(w)' <=> Waiting(w)
  BY <1>2, WaitingOf DEF Askers
<1> QED
  BY <1>1, <1>3, <1>4, SentQuery DEF Ask

\* A transfer goes on from one step to another with no dialog at either.
LEMMA TransferGoes ==
  ASSUME TypeOK, QueriesInv, NEW t \in Transfers, NEW step, Goto(t, step),
         tpc[t] \notin InDialog, step \notin InDialog, UNCHANGED <<main, run>>
  PROVE  Unmoved /\ (UNCHANGED <<queries, outbox, uiUp>> => QueriesInv')
<1>1. \A u \in Transfers : tpc'[u] = tpc[u] \/ (tpc[u] \notin InDialog /\ tpc'[u] \notin InDialog)
  BY DEF Goto, TypeOK
<1> QED
  BY <1>1, WaitingStays, QueriesStay

LEMMA QueriesFrame == TypeOK /\ QueriesInv /\ Frame => QueriesInv'
<1> SUFFICES ASSUME TypeOK, QueriesInv, Frame PROVE QueriesInv'
  OBVIOUS
<1>1. CASE FrameEvents \/ MessagesTaken \/ FrameWithoutKey
  <2>1. UNCHANGED <<main, run, tpc, queries, outbox, uiUp>>
    BY <1>1 DEF FrameEvents, MessagesTaken, FrameWithoutKey, channels
  <2> QED
    BY <2>1, WaitingStays, QueriesStay
<1>2. CASE UiQuits
  BY <1>2 DEF UiQuits, QueriesInv
<1> QED
  BY <1>1, <1>2, TakenQuery DEF Frame

LEMMA QueriesButton ==
  TypeOK /\ QueriesInv
    /\ (PressQuit \/ PressSnapshot \/ PressButton \/ \E t \in Transfers : PressManualTransfer(t))
  => QueriesInv'
<1> SUFFICES ASSUME TypeOK, QueriesInv,
                    PressQuit \/ PressSnapshot \/ PressButton
                      \/ \E t \in Transfers : PressManualTransfer(t)
             PROVE  QueriesInv'
  OBVIOUS
<1>1. UNCHANGED <<main, queries, outbox, uiUp>>
  BY DEF PressQuit, PressSnapshot, PressButton, PressManualTransfer, PressKeepOrRemove, PressReturn,
     PressExit, channels
<1>2. run' = run \/ (run # "asking" /\ run' # "asking")
  BY DEF PressQuit, PressSnapshot, PressButton, PressManualTransfer, PressKeepOrRemove, PressReturn,
     PressExit
<1>3. \A t \in Transfers : tpc'[t] = tpc[t] \/ (tpc[t] \notin InDialog /\ tpc'[t] \notin InDialog)
  <2>1. CASE tpc' = tpc
    BY <2>1
  <2>2. ASSUME NEW t \in Transfers, PressManualTransfer(t)
        PROVE  \A u \in Transfers : tpc'[u] = tpc[u] \/ (tpc[u] \notin InDialog /\ tpc'[u] \notin InDialog)
    BY <2>2 DEF PressManualTransfer, Goto, InDialog, TypeOK
  <2> QED
    BY <2>1, <2>2 DEF PressQuit, PressSnapshot, PressButton, PressKeepOrRemove, PressReturn, PressExit
<1> QED
  BY <1>1, <1>2, <1>3, WaitingStays, QueriesStay

LEMMA QueriesMain ==
  TypeOK /\ RequestsInv /\ QueriesInv /\ (MainStep \/ UnknownDevice) => QueriesInv'
<1> SUFFICES ASSUME TypeOK, RequestsInv, QueriesInv, MainStep \/ UnknownDevice PROVE QueriesInv'
  OBVIOUS
<1> USE DEF channels, ui
<1>1. Main \in Askers
  BY DEF Askers
<1>2. UNCHANGED <<queries, uiUp>>
  BY DEF MainStep, Quit, StartManualTransfer, StartSnapshot, CompleteBackupAndExit, ProcessEnds,
     UnknownDevice
<1>3. ASSUME main = "loop", Leave, UNCHANGED <<tpc, run>> PROVE QueriesInv'
  <2>1. Unmoved
    BY <1>3, WaitingOf, WaitingStays DEF Leave
  <2> QED
    BY <1>1, <1>2, <1>3, <2>1, SentOther DEF Leave
<1>4. ASSUME NEW kind \in {"query", "priority"}, main = "loop", main' \in {"asking", "refusing"},
             Send(kind, Main), UNCHANGED <<tpc, run>>
      PROVE  QueriesInv'
  <2>1. \A w \in Askers \ {Main} : Waiting(w)' <=> Waiting(w)
    BY <1>4, WaitingOf DEF Askers
  <2> QED
    BY <1>1, <1>2, <1>4, <2>1, WaitingOf, SentQuery
<1>5. CASE Quit
  BY <1>3, <1>4, <1>5 DEF Quit, Receive
<1>6. CASE CompleteBackupAndExit
  BY <1>3, <1>6 DEF CompleteBackupAndExit, Receive
<1>7. CASE UnknownDevice
  BY <1>4, <1>7 DEF UnknownDevice
<1>8. CASE StartSnapshot
  <2>1. run = "requested"
    BY <1>8, Received DEF StartSnapshot, RequestsInv
  <2>2. Unmoved
    BY <1>8, <2>1, WaitingStays DEF StartSnapshot
  <2> QED
    BY <1>8, <2>2, QueriesStay DEF StartSnapshot
<1>9. CASE StartManualTransfer
  <2>1. PICK t \in Transfers : t = Head(inbox)[2] /\ tpc[t] = "requested"
    BY <1>9, Received DEF StartManualTransfer, RequestsInv
  <2>2. Goto(t, "starting") /\ UNCHANGED <<main, run, queries, outbox, uiUp>>
    BY <1>9, <2>1 DEF StartManualTransfer
  <2> QED
    BY <2>1, <2>2, TransferGoes DEF InDialog
<1>10. CASE ProcessEnds
  <2>1. Unmoved
    BY <1>10, WaitingOf, WaitingStays DEF ProcessEnds
  <2> QED
    BY <1>10, <2>1, QueriesStay DEF ProcessEnds
<1> QED
  BY <1>5, <1>6, <1>7, <1>8, <1>9, <1>10 DEF MainStep

\* The thread of a transfer asks, goes on, or wakes from a dialog once the UI is gone.
LEMMA QueriesTransfer ==
  ASSUME TypeOK, QueriesInv, NEW t \in Transfers, TransferStep(t) \/ Sample(t) \/ PlugCard(t)
  PROVE  QueriesInv'
<1> USE DEF channels, ui
<1>1. UNCHANGED <<main, run, queries, uiUp>> /\ t \in Askers
  BY DEF TransferStep, Announce, AskApproval, Prepare, Measure, Record, EndMove, Finalize, ShowError,
     TransferWakes, Sample, PlugCard, Askers
<1>2. ASSUME NEW kind \in {"query", "priority"}, NEW step \in InDialog, tpc[t] \notin InDialog,
             Ask(t, kind, step)
      PROVE  QueriesInv'
  BY <1>1, <1>2, AskedQuery
<1>3. ASSUME NEW step, Goto(t, step), tpc[t] \notin InDialog, step \notin InDialog, UNCHANGED outbox
      PROVE  QueriesInv'
  BY <1>1, <1>3, TransferGoes
<1>4. CASE Announce(t)
  <2>1. tpc[t] \notin InDialog
    BY <1>4 DEF Announce, InDialog
  <2>2. CASE Ask(t, "transfer", "announced")
    <3>1. Unmoved
      BY <1>1, <2>1, <2>2, TransferGoes DEF Ask, InDialog
    <3> QED
      BY <1>1, <2>2, <3>1, SentOther DEF Ask
  <2>3. CASE Ask(t, "priority", "failing")
    BY <1>2, <2>1, <2>3 DEF InDialog
  <2> QED
    BY <1>4, <2>2, <2>3 DEF Announce
<1>5. CASE AskApproval(t) \/ ShowError(t)
  BY <1>2, <1>5 DEF AskApproval, ShowError, InDialog
<1>6. CASE Prepare(t)
  BY <1>2, <1>3, <1>6 DEF Prepare, InDialog
<1>7. CASE Measure(t)
  BY <1>2, <1>3, <1>7 DEF Measure, InDialog
<1>8. CASE Record(t) \/ EndMove(t) \/ Finalize(t) \/ PlugCard(t)
  BY <1>3, <1>8 DEF Record, EndMove, Finalize, PlugCard, InDialog
<1>9. CASE Sample(t)
  BY <1>1, <1>9, WaitingStays, QueriesStay DEF Sample
<1>10. CASE TransferWakes(t)
  BY <1>1, <1>10 DEF TransferWakes, QueriesInv
<1> QED
  BY <1>4, <1>5, <1>6, <1>7, <1>8, <1>9, <1>10 DEF TransferStep

LEMMA QueriesRun == TypeOK /\ QueriesInv /\ RunStep => QueriesInv'
<1> SUFFICES ASSUME TypeOK, QueriesInv, RunStep PROVE QueriesInv'
  OBVIOUS
<1> USE DEF channels, ui
<1>1. Run \in Askers /\ UNCHANGED <<main, tpc, queries, uiUp>>
  BY DEF Askers, RunStep, AskName, OpenTerminal, TakeTripwire, CompleteBackup, CheckEnds, SealBackup,
     Unwind, RunGoes
<1>2. CASE AskName
  <2>1. \A w \in Askers \ {Run} : Waiting(w)' <=> Waiting(w)
    BY <1>1, WaitingOf DEF Askers
  <2> QED
    BY <1>1, <1>2, <2>1, WaitingOf, SentQuery DEF AskName
<1>3. CASE OpenTerminal
  <2>1. Unmoved
    BY <1>1, <1>3, WaitingStays DEF OpenTerminal
  <2> QED
    BY <1>1, <1>3, <2>1, SentOther DEF OpenTerminal
<1>4. CASE TakeTripwire \/ CompleteBackup \/ CheckEnds \/ SealBackup \/ Unwind
  <2>1. run # "asking" /\ run' # "asking" /\ outbox' = outbox
    BY <1>4 DEF TakeTripwire, CompleteBackup, CheckEnds, SealBackup, Unwind, RunGoes
  <2> QED
    BY <1>1, <2>1, WaitingStays, QueriesStay
<1> QED
  BY <1>2, <1>3, <1>4 DEF RunStep

\* Whoever is answered was waiting, and waits no more.
LEMMA QueriesAnswer ==
  TypeOK /\ RequestsInv /\ QueriesInv /\ AnswerQuery =>
    /\ QueriesInv' /\ RequestsInv'
    /\ AnswerRun => run = "asking"
    /\ AnswerMain => main \in {"asking", "refusing"}
<1> SUFFICES ASSUME TypeOK, RequestsInv, QueriesInv, AnswerQuery
             PROVE  /\ QueriesInv' /\ RequestsInv'
                    /\ AnswerRun => run = "asking"
                    /\ AnswerMain => main \in {"asking", "refusing"}
  OBVIOUS
<1> USE DEF channels
<1>1. ASSUME NEW who \in Askers, KeyOfQuery(who), queries' = Tail(queries), UNCHANGED <<outbox, uiUp>>
      PROVE  /\ Waiting(who)
             /\ ~Waiting(who)' /\ (\A w \in Askers \ {who} : Waiting(w)' <=> Waiting(w)) => QueriesInv'
  BY <1>1, AnsweredQuery DEF KeyOfQuery, Key
<1>2. Main \in Askers /\ Run \in Askers /\ Main # Run
  BY AskersAssumption DEF Askers, AskersAssumption
<1>3. CASE AnswerMain
  <2>1. Waiting(Main) /\ ~Waiting(Main)'
    BY <1>1, <1>2, <1>3, WaitingOf DEF AnswerMain
  <2>2. \A w \in Askers \ {Main} : Waiting(w)' <=> Waiting(w)
    BY <1>3, WaitingOf DEF AnswerMain, Askers
  <2>3. QueriesInv'
    BY <1>1, <1>2, <1>3, <2>1, <2>2 DEF AnswerMain
  <2>4. RequestsInv'
    BY <1>3, RequestsStay DEF AnswerMain
  <2> QED
    BY <2>1, <2>3, <2>4, WaitingOf, <1>1, <1>2 DEF AnswerRun
<1>4. CASE AnswerRun
  <2>1. Waiting(Run) /\ ~Waiting(Run)'
    BY <1>1, <1>2, <1>4, WaitingOf DEF AnswerRun
  <2>2. \A w \in Askers \ {Run} : Waiting(w)' <=> Waiting(w)
    BY <1>4, WaitingOf DEF AnswerRun, Askers
  <2>3. QueriesInv'
    BY <1>1, <1>2, <1>4, <2>1, <2>2 DEF AnswerRun
  <2>4. RequestsInv'
    BY <1>4, <2>1, RequestsStay, WaitingOf DEF AnswerRun
  <2> QED
    BY <2>1, <2>3, <2>4, WaitingOf, <1>1, <1>2 DEF AnswerMain
<1>5. ASSUME NEW t \in Transfers, AnswerTransfer(t) PROVE QueriesInv' /\ RequestsInv'
  <2>1. t \in Askers /\ t # Main /\ t # Run
    BY AskersAssumption DEF AskersAssumption, Askers
  <2>2. Waiting(t)
    BY <1>1, <1>5, <2>1 DEF AnswerTransfer
  <2>3. PICK step \in Answers(tpc[t]) : Goto(t, step)
    BY <1>5 DEF AnswerTransfer
  <2>4. tpc' = [tpc EXCEPT ![t] = step] /\ tpc \in [Transfers -> TransferSteps] /\ step \notin InDialog
    BY <2>3 DEF Goto, TypeOK, Answers, InDialog
  <2>5. ~Waiting(t)'
    BY <2>4, WaitingOf
  <2>6. \A w \in Askers \ {t} : Waiting(w)' <=> Waiting(w)
    BY <1>5, <2>4, WaitingOf DEF AnswerTransfer, Askers
  <2>7. QueriesInv'
    BY <1>1, <1>5, <2>1, <2>5, <2>6 DEF AnswerTransfer
  <2>8. tpc[t] # "requested"
    BY <2>2, WaitingOf DEF InDialog
  <2>9. RequestsInv'
    BY <1>5, <2>3, <2>8, RequestsGo DEF AnswerTransfer
  <2> QED
    BY <2>7, <2>9
<1>6. AnswerRun => Waiting(Run)
  BY <1>1, <1>2 DEF AnswerRun
<1>7. AnswerMain => Waiting(Main)
  BY <1>1, <1>2 DEF AnswerMain
<1> QED
  BY <1>3, <1>4, <1>5, <1>6, <1>7, WaitingOf DEF AnswerQuery

LEMMA QueriesInit == Init => RequestsInv /\ QueriesInv
<1> SUFFICES ASSUME Init PROVE RequestsInv /\ QueriesInv
  OBVIOUS
<1>1. \A x : Requested(x) = {}
  BY DEF Init, Requested
<1>2. \A w : NoQuery(w)
  BY DEF Init, NoQuery, Queued, Coming
<1>3. \A w \in Askers : ~Waiting(w)
  BY WaitingOf DEF Init, Askers, InDialog
<1> QED
  BY <1>1, <1>2, <1>3 DEF RequestsInv, QueriesInv

LEMMA QueriesNext ==
  TypeOK /\ RequestsInv /\ QueriesInv /\ [Next]_vars => RequestsInv' /\ QueriesInv'
<1> SUFFICES ASSUME TypeOK, RequestsInv, QueriesInv, [Next]_vars PROVE RequestsInv' /\ QueriesInv'
  OBVIOUS
<1>1. CASE UNCHANGED vars
  <2>1. UNCHANGED <<main, inbox, tpc, run, outbox, queries, uiUp>>
    BY <1>1 DEF vars, channels, ui
  <2> QED
    BY <2>1, RequestsStay, QueriesStay, WaitingStays
<1>2. CASE Next
  <2>1. ASSUME NEW t \in Transfers, TransferStep(t) \/ Sample(t) \/ PlugCard(t)
        PROVE  RequestsInv' /\ QueriesInv'
    BY <2>1, RequestsTransfer, QueriesTransfer
  <2>2. CASE AnswerQuery
    BY <2>2, QueriesAnswer
  <2>3. CASE Frame \/ RunStep \/ UnknownDevice
    BY <2>3, RequestsFrame, QueriesFrame, QueriesRun, QueriesMain
  <2>4. CASE MainStep
    BY <2>4, RequestsMain, QueriesMain
  <2>5. CASE PressQuit \/ PressSnapshot \/ PressButton \/ \E t \in Transfers : PressManualTransfer(t)
    BY <2>5, RequestsButton, QueriesButton
  <2> QED
    BY <1>2, <2>1, <2>2, <2>3, <2>4, <2>5 DEF Next
<1> QED
  BY <1>1, <1>2

\* One query for each that waits, in numbers.
LEMMA QueriesCounted == TypeOK /\ QueriesInv => WaitersHaveTheirQuery
<1> SUFFICES ASSUME TypeOK, QueriesInv, uiUp, NEW who \in Askers
             PROVE  Pending(who) = IF Waiting(who) THEN 1 ELSE 0
  BY DEF WaitersHaveTheirQuery
<1>1. CASE Waiting(who)
  <2>1. OneQuery(who)
    BY <1>1 DEF QueriesInv
  <2>2. \/ Queued(who) = {} /\ \E i : Coming(who) = {i}
        \/ Coming(who) = {} /\ \E i : Queued(who) = {i}
    BY <2>1 DEF OneQuery
  <2>3. \A i : Cardinality({i}) = 1
    BY FS_Singleton
  <2>4. ASSUME Queued(who) = {}, NEW i, Coming(who) = {i} PROVE Pending(who) = 1
    <3>1. Cardinality(Queued(who)) = 0
      BY <2>4, FS_EmptySet
    <3>2. Cardinality(Coming(who)) = 1
      BY <2>3, <2>4
    <3> QED
      BY <3>1, <3>2 DEF Pending
  <2>5. ASSUME Coming(who) = {}, NEW i, Queued(who) = {i} PROVE Pending(who) = 1
    <3>1. Cardinality(Coming(who)) = 0
      BY <2>5, FS_EmptySet
    <3>2. Cardinality(Queued(who)) = 1
      BY <2>3, <2>5
    <3> QED
      BY <3>1, <3>2 DEF Pending
  <2> QED
    BY <1>1, <2>2, <2>4, <2>5
<1>2. CASE ~Waiting(who)
  <2>1. Queued(who) = {} /\ Coming(who) = {}
    BY <1>2 DEF QueriesInv, NoQuery
  <2>2. Cardinality(Queued(who)) = 0 /\ Cardinality(Coming(who)) = 0
    BY <2>1, FS_EmptySet
  <2> QED
    BY <1>2, <2>2 DEF Pending
<1> QED
  BY <1>1, <1>2

\* Whoever waits for an answer has exactly one query at the UI or on its way there, while the UI
\* runs: none is lost when the front one is answered and the rest put back, none is left over.
THEOREM WaitersHaveQuery == Spec => []WaitersHaveTheirQuery
<1>1. Init => TypeOK /\ RequestsInv /\ QueriesInv
  BY TypeInit, QueriesInit
<1>2. TypeOK /\ RequestsInv /\ QueriesInv /\ [Next]_vars => (TypeOK /\ RequestsInv /\ QueriesInv)'
  BY TypeNext, QueriesNext
<1> QED
  BY <1>1, <1>2, QueriesCounted, PTL DEF Spec

-----------------------------------------------------------------------------
(* The check terminal and its owner *)

LEMMA SentOpening ==
  ASSUME TypeOK, NEW kind \in Kinds \ {"terminal"}, NEW who \in Askers, Send(kind, who)
  PROVE  Opening' = Opening
<1>1. CASE ~uiUp
  BY <1>1 DEF Send, Opening
<1>2. CASE uiUp
  <2> DEFINE m == [kind |-> kind, of |-> who]
  <2>1. m \in Messages /\ m.kind # "terminal" /\ outbox' = Append(outbox, m)
    BY <1>2 DEF Messages, Send
  <2> HIDE DEF m
  <2>2. /\ DOMAIN outbox' = DOMAIN outbox \cup {Len(outbox) + 1}
        /\ outbox'[Len(outbox) + 1] = m
        /\ \A i \in DOMAIN outbox : outbox'[i] = outbox[i]
    BY <2>1, Appended DEF TypeOK
  <2> QED
    BY <2>1, <2>2 DEF Opening
<1> QED
  BY <1>1, <1>2

\* What asks or ends nothing leaves the openings alone.
LEMMA OpeningStays ==
  ASSUME OpeningInv, Opening' = Opening, UNCHANGED <<leaving, terminal, uiUp>>,
         \/ run' = run
         \/ run \notin InTerminal /\ run' = "idle"
         \/ run \notin InTerminal /\ ~terminal
         \/ run \in InTerminal /\ run' \in InTerminal
  PROVE  OpeningInv'
  BY DEF OpeningInv, InTerminal

\* An owner of the terminal stays one.
LEMMA OwnerStays ==
  ASSUME TerminalHasAnOwner, terminal' => terminal,
         run' = run \/ (run \in InTerminal => run' \in InTerminal),
         leaving => leaving' \/ ~terminal',
         Requested(<<"CompleteBackupAndExit">>) # {} => Requested(<<"CompleteBackupAndExit">>)' # {},
         main = "left" => main' = "left"
  PROVE  TerminalHasAnOwner'
<1>1. CASE Requested(<<"CompleteBackupAndExit">>) # {}
  BY <1>1 DEF TerminalHasAnOwner, Requested
<1>2. CASE Requested(<<"CompleteBackupAndExit">>) = {}
  BY <1>2 DEF TerminalHasAnOwner, Requested
<1> QED
  BY <1>1, <1>2

\* The terminal goes up for the one opening there is.
LEMMA TerminalTaken ==
  ASSUME TypeOK, OpeningInv, TerminalHasAnOwner, TakeMessage
  PROVE  OpeningInv' /\ TerminalHasAnOwner'
<1> DEFINE m == Head(outbox)
<1>1. /\ 1 \in DOMAIN outbox /\ outbox[1] = m
      /\ \A i \in DOMAIN outbox' :
            i \in Nat \ {0} /\ i + 1 \in DOMAIN outbox /\ outbox'[i] = outbox[i + 1]
  BY Taken DEF TakeMessage, TypeOK
<1>2. /\ UNCHANGED <<main, run, inbox, leaving, uiUp>> /\ uiUp
      /\ terminal' = (terminal \/ m.kind = "terminal")
  BY DEF TakeMessage
<1> HIDE DEF m
<1>3. \A i \in Opening' : i \in Nat \ {0} /\ i + 1 \in Opening
  BY <1>1 DEF Opening
<1>4. \A i, j \in Opening' : i = j
  <2> SUFFICES ASSUME NEW i \in Opening', NEW j \in Opening' PROVE i = j
    OBVIOUS
  <2>1. i \in Nat /\ j \in Nat /\ i + 1 = j + 1
    BY <1>3 DEF OpeningInv
  <2> QED
    BY <2>1
<1>5. CASE m.kind = "terminal"
  <2>1. 1 \in Opening
    BY <1>1, <1>5 DEF Opening
  <2>2. Opening' = {}
    <3> SUFFICES ASSUME NEW i \in Opening' PROVE FALSE
      OBVIOUS
    <3>1. i \in Nat \ {0} /\ i + 1 = 1
      BY <1>3, <2>1 DEF OpeningInv
    <3> QED
      BY <3>1
  <2>3. run \in InTerminal
    BY <2>1 DEF OpeningInv
  <2> QED
    BY <1>2, <1>5, <2>2, <2>3 DEF OpeningInv, TerminalHasAnOwner, InTerminal
<1>6. CASE m.kind # "terminal"
  <2>1. terminal' = terminal
    BY <1>2, <1>6 DEF TypeOK
  <2>2. Opening' # {} => Opening # {}
    BY <1>3
  <2>3. TerminalHasAnOwner'
    BY <1>2, <2>1 DEF TerminalHasAnOwner, InTerminal
  <2> QED
    BY <1>2, <1>4, <2>1, <2>2, <2>3 DEF OpeningInv
<1> QED
  BY <1>5, <1>6

LEMMA TerminalFrame ==
  TypeOK /\ OpeningInv /\ TerminalHasAnOwner /\ Frame => OpeningInv' /\ TerminalHasAnOwner'
<1> SUFFICES ASSUME TypeOK, OpeningInv, TerminalHasAnOwner, Frame
             PROVE  OpeningInv' /\ TerminalHasAnOwner'
  OBVIOUS
<1> USE DEF channels
<1>1. CASE FrameEvents
  <2>1. UNCHANGED <<main, run, inbox, outbox, uiUp>> /\ terminal' = (terminal /\ ~leaving) /\ ~leaving'
    BY <1>1 DEF FrameEvents, OpeningInv
  <2>2. Opening' = Opening
    BY <2>1 DEF Opening
  <2>3. OpeningInv'
    BY <2>1, <2>2 DEF OpeningInv
  <2>4. TerminalHasAnOwner'
    BY <2>1 DEF TerminalHasAnOwner
  <2> QED
    BY <2>3, <2>4
<1>2. CASE MessagesTaken \/ FrameWithoutKey
  <2>1. UNCHANGED <<main, run, inbox, outbox, uiUp, leaving, terminal>>
    BY <1>2 DEF MessagesTaken, FrameWithoutKey
  <2>2. Opening' = Opening /\ Requested(<<"CompleteBackupAndExit">>)' = Requested(<<"CompleteBackupAndExit">>)
    BY <2>1 DEF Opening, Requested
  <2> QED
    BY <2>1, <2>2, OpeningStays, OwnerStays
<1>3. CASE UiQuits
  <2>1. ~terminal' /\ ~leaving' /\ outbox' = <<>>
    BY <1>3 DEF UiQuits
  <2>2. Opening' = {}
    BY <2>1 DEF Opening
  <2> QED
    BY <2>1, <2>2 DEF OpeningInv, TerminalHasAnOwner
<1> QED
  BY <1>1, <1>2, <1>3, TerminalTaken DEF Frame

LEMMA TerminalButton ==
  TypeOK /\ OpeningInv /\ TerminalHasAnOwner
    /\ (PressQuit \/ PressSnapshot \/ PressButton \/ \E t \in Transfers : PressManualTransfer(t))
  => OpeningInv' /\ TerminalHasAnOwner'
<1> SUFFICES ASSUME TypeOK, OpeningInv, TerminalHasAnOwner,
                    PressQuit \/ PressSnapshot \/ PressButton
                      \/ \E t \in Transfers : PressManualTransfer(t)
             PROVE  OpeningInv' /\ TerminalHasAnOwner'
  OBVIOUS
<1> USE DEF channels
<1>1. UNCHANGED <<main, outbox, uiUp, terminal>> /\ Opening' = Opening
  BY DEF PressQuit, PressSnapshot, PressButton, PressManualTransfer, PressKeepOrRemove, PressReturn,
     PressExit, Opening
<1>2. CASE PressQuit \/ PressSnapshot \/ \E t \in Transfers : PressManualTransfer(t)
  <2>1. ~terminal /\ leaving' = leaving /\ (run' = run \/ run \notin InTerminal)
    BY <1>2 DEF PressQuit, PressSnapshot, PressManualTransfer, KeyOfActions, InTerminal
  <2>2. OpeningInv'
    BY <1>1, <2>1, OpeningStays
  <2>3. TerminalHasAnOwner'
    BY <1>1, <2>1 DEF TerminalHasAnOwner
  <2> QED
    BY <2>2, <2>3
<1>3. CASE PressKeepOrRemove
  <2>1. run \in InTerminal /\ run' \in InTerminal /\ leaving' = leaving
    BY <1>3 DEF PressKeepOrRemove, InTerminal
  <2>2. OpeningInv'
    BY <1>1, <2>1, OpeningStays
  <2>3. TerminalHasAnOwner'
    BY <2>1 DEF TerminalHasAnOwner
  <2> QED
    BY <2>2, <2>3
<1>4. CASE PressReturn \/ PressExit
  <2>1. terminal /\ run' = "idle" /\ (leaving' = leaving \/ leaving')
    BY <1>4 DEF PressReturn, PressExit, KeyOfTerminal
  <2>2. OpeningInv'
    BY <1>1, <2>1 DEF OpeningInv
  <2>3. CASE PressReturn
    <3>1. leaving'
      BY <2>3 DEF PressReturn
    <3> QED
      BY <2>2, <3>1 DEF TerminalHasAnOwner
  <2>4. CASE PressExit
    <3>1. <<"CompleteBackupAndExit">> \in Requests
      BY DEF Requests
    <3>2. Requested(<<"CompleteBackupAndExit">>)' # {}
      BY <2>4, <3>1, RequestAdded DEF PressExit
    <3>3. \E i \in DOMAIN inbox' : inbox'[i] = <<"CompleteBackupAndExit">>
      BY <3>2 DEF Requested
    <3> QED
      BY <2>2, <3>3 DEF TerminalHasAnOwner
  <2> QED
    BY <1>4, <2>3, <2>4
<1> QED
  BY <1>2, <1>3, <1>4 DEF PressButton

LEMMA TerminalMain ==
  TypeOK /\ RequestsInv /\ OpeningInv /\ TerminalHasAnOwner /\ (MainStep \/ UnknownDevice)
    => OpeningInv' /\ TerminalHasAnOwner'
<1> SUFFICES ASSUME TypeOK, RequestsInv, OpeningInv, TerminalHasAnOwner, MainStep \/ UnknownDevice
             PROVE  OpeningInv' /\ TerminalHasAnOwner'
  OBVIOUS
<1> USE DEF channels, ui
<1>1. UNCHANGED <<leaving, uiUp, terminal>>
  BY DEF MainStep, Quit, StartManualTransfer, StartSnapshot, CompleteBackupAndExit, ProcessEnds,
     UnknownDevice
<1>2. ASSUME NEW kind \in Kinds \ {"terminal"}, Send(kind, Main) PROVE Opening' = Opening
  BY <1>2, SentOpening DEF Askers
<1>3. CASE CompleteBackupAndExit \/ (Quit /\ Leave)
  <2>1. run' = run /\ main' = "left" /\ Opening' = Opening
    BY <1>2, <1>3 DEF CompleteBackupAndExit, Quit, Leave, Kinds
  <2>2. OpeningInv'
    BY <1>1, <2>1, OpeningStays
  <2> QED
    BY <2>1, <2>2 DEF TerminalHasAnOwner
<1>4. ASSUME NEW message \in {"Quit", "StartManualTransfer", "StartSnapshot"}, Receive(message)
      PROVE  /\ main # "left"
             /\ Requested(<<"CompleteBackupAndExit">>) # {} => Requested(<<"CompleteBackupAndExit">>)' # {}
  <2>1. Head(inbox) # <<"CompleteBackupAndExit">>
    BY <1>4 DEF Receive
  <2>2. inbox # <<>> /\ inbox' = Tail(inbox) /\ main # "left"
    BY <1>4 DEF Receive
  <2>3. /\ \A i \in Requested(<<"CompleteBackupAndExit">>) \ {1} : i - 1 \in Requested(<<"CompleteBackupAndExit">>)'
        /\ 1 \notin Requested(<<"CompleteBackupAndExit">>)
    BY <2>1, <2>2, RequestTaken
  <2> QED
    BY <2>2, <2>3
<1>5. CASE Quit /\ ~Leave
  <2>1. run' = run /\ Opening' = Opening
    BY <1>2, <1>5 DEF Quit, Kinds
  <2>2. OpeningInv'
    BY <1>1, <2>1, OpeningStays
  <2> QED
    BY <1>1, <1>4, <1>5, <2>1, <2>2, OwnerStays DEF Quit
<1>6. CASE StartManualTransfer
  <2>1. run' = run /\ Opening' = Opening
    BY <1>6 DEF StartManualTransfer, Opening
  <2>2. OpeningInv'
    BY <1>1, <2>1, OpeningStays
  <2> QED
    BY <1>1, <1>4, <1>6, <2>1, <2>2, OwnerStays DEF StartManualTransfer
<1>7. CASE StartSnapshot
  <2>1. run = "requested" /\ Opening' = Opening
    BY <1>7, Received DEF StartSnapshot, RequestsInv, Opening
  <2>2. run \notin InTerminal /\ ~terminal
    BY <2>1 DEF OpeningInv, InTerminal
  <2>3. OpeningInv'
    BY <1>1, <2>1, <2>2, OpeningStays
  <2> QED
    BY <1>1, <2>2, <2>3 DEF TerminalHasAnOwner
<1>8. CASE UnknownDevice
  <2>1. run' = run /\ inbox' = inbox /\ main # "left" /\ Opening' = Opening
    BY <1>2, <1>8 DEF UnknownDevice, Kinds
  <2>2. OpeningInv'
    BY <1>1, <2>1, OpeningStays
  <2>3. Requested(<<"CompleteBackupAndExit">>)' = Requested(<<"CompleteBackupAndExit">>)
    BY <2>1 DEF Requested
  <2> QED
    BY <1>1, <2>1, <2>2, <2>3, OwnerStays
<1>9. CASE ProcessEnds
  <2>1. run' = run /\ Opening' = Opening /\ ~terminal
    BY <1>9 DEF ProcessEnds, Opening, OpeningInv
  <2>2. OpeningInv'
    BY <1>1, <2>1, OpeningStays
  <2> QED
    BY <1>1, <2>1, <2>2 DEF TerminalHasAnOwner
<1> QED
  BY <1>3, <1>5, <1>6, <1>7, <1>8, <1>9 DEF MainStep

LEMMA TerminalTransfer ==
  ASSUME TypeOK, OpeningInv, TerminalHasAnOwner, NEW t \in Transfers,
         TransferStep(t) \/ Sample(t) \/ PlugCard(t)
  PROVE  OpeningInv' /\ TerminalHasAnOwner'
<1> USE DEF channels, ui
<1>1. UNCHANGED <<main, run, inbox, leaving, uiUp, terminal>>
  BY DEF TransferStep, Announce, AskApproval, Prepare, Measure, Record, EndMove, Finalize, ShowError,
     TransferWakes, Sample, PlugCard
<1>2. outbox' = outbox \/ \E kind \in {"transfer", "query", "priority"} : Send(kind, t)
  BY DEF TransferStep, Announce, AskApproval, Prepare, Measure, Record, EndMove, Finalize, ShowError,
     TransferWakes, Sample, PlugCard, Ask
<1>3. Opening' = Opening
  <2>1. CASE outbox' = outbox
    BY <2>1 DEF Opening
  <2>2. ASSUME NEW kind \in {"transfer", "query", "priority"}, Send(kind, t) PROVE Opening' = Opening
    BY <2>2, SentOpening DEF Askers, Kinds
  <2> QED
    BY <1>2, <2>1, <2>2
<1>4. Requested(<<"CompleteBackupAndExit">>)' = Requested(<<"CompleteBackupAndExit">>)
  BY <1>1 DEF Requested
<1> QED
  BY <1>1, <1>3, <1>4, OpeningStays, OwnerStays

\* A run opens the terminal once the one before is gone.
LEMMA TerminalRun ==
  TypeOK /\ OpeningInv /\ TerminalHasAnOwner /\ RunStep => OpeningInv' /\ TerminalHasAnOwner'
<1> SUFFICES ASSUME TypeOK, OpeningInv, TerminalHasAnOwner, RunStep
             PROVE  OpeningInv' /\ TerminalHasAnOwner'
  OBVIOUS
<1> USE DEF channels, ui
<1>1. Run \in Askers /\ UNCHANGED <<main, inbox, leaving, uiUp, terminal>>
  BY DEF Askers, RunStep, AskName, OpenTerminal, TakeTripwire, CompleteBackup, CheckEnds, SealBackup,
     Unwind, RunGoes
<1>2. CASE AskName
  <2>1. run \notin InTerminal /\ ~terminal
    BY <1>2 DEF AskName, OpeningInv, InTerminal
  <2>2. Opening' = Opening
    BY <1>1, <1>2, SentOpening DEF AskName, Kinds
  <2>3. OpeningInv'
    BY <1>1, <2>1, <2>2, OpeningStays
  <2> QED
    BY <1>1, <2>1, <2>3 DEF TerminalHasAnOwner
<1>3. CASE OpenTerminal
  <2>1. Opening = {} /\ ~terminal
    BY <1>3 DEF OpenTerminal, OpeningInv, InTerminal
  <2>2. TerminalHasAnOwner'
    BY <1>1, <2>1 DEF TerminalHasAnOwner
  <2>3. CASE ~uiUp
    <3>1. Opening' = {}
      BY <1>3, <2>1, <2>3 DEF OpenTerminal, Send, Opening
    <3>2. run' = "idle"
      BY <1>3, <2>3 DEF OpenTerminal
    <3> QED
      BY <1>1, <2>1, <2>2, <3>1, <3>2 DEF OpeningInv
  <2>4. CASE uiUp
    <3> DEFINE m == [kind |-> "terminal", of |-> Run]
    <3>1. m \in Messages /\ outbox' = Append(outbox, m)
      BY <1>1, <1>3, <2>4 DEF OpenTerminal, Send, Messages, Kinds
    <3> HIDE DEF m
    <3>2. DOMAIN outbox' = DOMAIN outbox \cup {Len(outbox) + 1} /\ \A i \in DOMAIN outbox : outbox'[i] = outbox[i]
      BY <3>1, Appended DEF TypeOK
    <3>3. Opening' \subseteq {Len(outbox) + 1}
      BY <2>1, <3>2 DEF Opening
    <3>4. run' \in InTerminal /\ run' \notin {"requested", "naming", "asking", "named"}
      BY <1>3, <2>4 DEF OpenTerminal, InTerminal
    <3> QED
      BY <1>1, <2>1, <2>2, <2>4, <3>3, <3>4 DEF OpeningInv
  <2> QED
    BY <2>3, <2>4
<1>4. CASE TakeTripwire \/ CompleteBackup \/ CheckEnds \/ SealBackup \/ Unwind
  <2>1. run \in InTerminal /\ run' \in InTerminal /\ outbox' = outbox
    BY <1>4 DEF TakeTripwire, CompleteBackup, CheckEnds, SealBackup, Unwind, RunGoes, InTerminal
  <2>2. Opening' = Opening
    BY <2>1 DEF Opening
  <2>3. OpeningInv'
    BY <1>1, <2>1, <2>2, OpeningStays
  <2> QED
    BY <2>1, <2>3 DEF TerminalHasAnOwner
<1> QED
  BY <1>2, <1>3, <1>4 DEF RunStep

LEMMA TerminalAnswer ==
  TypeOK /\ RequestsInv /\ QueriesInv /\ OpeningInv /\ TerminalHasAnOwner /\ AnswerQuery
    => OpeningInv' /\ TerminalHasAnOwner'
<1> SUFFICES ASSUME TypeOK, RequestsInv, QueriesInv, OpeningInv, TerminalHasAnOwner, AnswerQuery
             PROVE  OpeningInv' /\ TerminalHasAnOwner'
  OBVIOUS
<1> USE DEF channels
<1>1. ~terminal /\ UNCHANGED <<leaving, uiUp, terminal>> /\ Opening' = Opening
  BY DEF AnswerQuery, AnswerMain, AnswerRun, AnswerTransfer, KeyOfQuery, Opening
<1>2. run' = run \/ run \notin InTerminal
  BY QueriesAnswer DEF AnswerQuery, AnswerMain, AnswerRun, AnswerTransfer, InTerminal
<1>3. OpeningInv'
  BY <1>1, <1>2, OpeningStays
<1> QED
  BY <1>1, <1>3 DEF TerminalHasAnOwner

LEMMA TerminalNext ==
  TypeOK /\ RequestsInv /\ QueriesInv /\ OpeningInv /\ TerminalHasAnOwner /\ [Next]_vars
    => OpeningInv' /\ TerminalHasAnOwner'
<1> SUFFICES ASSUME TypeOK, RequestsInv, QueriesInv, OpeningInv, TerminalHasAnOwner, [Next]_vars
             PROVE  OpeningInv' /\ TerminalHasAnOwner'
  OBVIOUS
<1>1. CASE UNCHANGED vars
  BY <1>1 DEF vars, channels, ui, OpeningInv, Opening, TerminalHasAnOwner
<1>2. CASE Next
  BY <1>2, TerminalFrame, TerminalButton, TerminalMain, TerminalTransfer, TerminalRun, TerminalAnswer
     DEF Next
<1> QED
  BY <1>1, <1>2

\* The check terminal is not left behind by its run: while it is shown the run is at work, or
\* has ended with its Exit on the way, the request to leave sent, or the main loop left.
\* Whether the run comes to its button, and the main loop to the request, is no part of this.
THEOREM TerminalOwned == Spec => []TerminalHasAnOwner
<1>1. Init => IInv
  BY TypeInit, QueriesInit DEF Init, IInv, OpeningInv, Opening, TerminalHasAnOwner
<1>2. IInv /\ [Next]_vars => IInv'
  BY TypeNext, QueriesNext, TerminalNext DEF IInv
<1>3. IInv => TerminalHasAnOwner
  BY DEF IInv
<1> QED
  BY <1>1, <1>2, <1>3, PTL DEF Spec
=============================================================================
