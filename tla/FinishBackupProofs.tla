------------------------- MODULE FinishBackupProofs -------------------------
(***************************************************************************)
(* Proofs about FinishBackup, for any number of runs at once, any names    *)
(* and any number of log entries.                                          *)
(***************************************************************************)
EXTENDS FinishBackup, TLAPS

USE DEF disk, threads, ui, Tripwire, Check, Plain, Stages, Goto

-----------------------------------------------------------------------------
(* Type correctness *)

LEMMA TypeInit == Init => TypeOK
<1> SUFFICES ASSUME Init PROVE TypeOK
  OBVIOUS
<1>1. entry \in 1..MaxEntry
  BY MaxEntryAssumption DEF MaxEntryAssumption, Init
<1>2. asked \in Seq(Threads) /\ opening \in Seq(Threads) /\ queries \in Seq(Threads)
  BY DEF Init
<1>3. snaps \subseteq Snapshots
  BY DEF Init
<1>4. pc \in [Threads -> Steps]
  BY DEF Init, Steps
<1>5. name \in [Threads -> Names] /\ doomed \in [Threads -> SUBSET Stages]
  BY DEF Init
<1> QED
  BY <1>1, <1>2, <1>3, <1>4, <1>5 DEF Init, TypeOK

\* A new snapshot, and a renamed one, are snapshots.
LEMMA FrozenType ==
  ASSUME TypeOK, NEW t \in Threads, NEW stage \in Stages
  PROVE  Frozen(stage, name[t]) \in Snapshots
  BY DEF TypeOK, Frozen, Snapshots

LEMMA TypeNext == TypeOK /\ [Next]_vars => TypeOK'
<1> SUFFICES ASSUME TypeOK, [Next]_vars PROVE TypeOK'
  OBVIOUS
<1> USE DEF TypeOK
<1>1. ASSUME NEW t \in Threads, AskSnapshotName(t) PROVE TypeOK'
  BY <1>1 DEF AskSnapshotName, Steps
<1>2. ASSUME NEW t \in Threads, StartCheckTerminal(t) PROVE TypeOK'
  <2>1. CASE prog = "up"
    <3>1. pc' = [pc EXCEPT ![t] = "tripwire"] /\ opening' = Append(opening, t)
      BY <1>2, <2>1 DEF StartCheckTerminal
    <3>2. opening' \in Seq(Threads)
      BY <3>1
    <3> QED
      BY <1>2, <3>1, <3>2 DEF StartCheckTerminal, Steps
  <2>2. CASE prog # "up"
    <3>1. pc' = [pc EXCEPT ![t] = "idle"] /\ UNCHANGED <<disk, logMem, prog, name, doomed, ui>>
      BY <1>2, <2>2 DEF StartCheckTerminal
    <3> QED
      BY <3>1 DEF Steps
  <2> QED
    BY <2>1, <2>2
<1>3. ASSUME NEW t \in Threads, TakeTripwire(t) PROVE TypeOK'
  BY <1>3, FrozenType DEF TakeTripwire, Steps
<1>4. ASSUME NEW t \in Threads, CompleteBackup(t) PROVE TypeOK'
  BY <1>4 DEF CompleteBackup, UnwindOf, Steps
<1>5. ASSUME NEW t \in Threads, TakeCheck(t) PROVE TypeOK'
  BY <1>5, FrozenType DEF TakeCheck, UnwindOf, Steps
<1>6. ASSUME NEW t \in Threads, DropTripwire(t) PROVE TypeOK'
  BY <1>6 DEF DropTripwire, UnwindOf, Without, Steps
<1>7. ASSUME NEW t \in Threads, CheckEnds(t) \/ LoseTerminal(t) \/ UnwindDone(t) PROVE TypeOK'
  BY <1>7 DEF CheckEnds, LoseTerminal, UnwindDone, Steps
<1>8. ASSUME NEW t \in Threads, RenameCheck(t) PROVE TypeOK'
  <2>1. \A s \in snaps : [s EXCEPT !.stage = Plain] \in Snapshots
    BY DEF Snapshots
  <2>2. snaps' \subseteq Snapshots
    BY <1>8, <2>1 DEF RenameCheck, Without
  <2>3. doomed' = doomed \/ doomed' = [doomed EXCEPT ![t] = {Check}]
    BY <1>8 DEF RenameCheck, UnwindOf
  <2>4. Goto(t, "completed") \/ Goto(t, "revert")
    BY <1>8 DEF RenameCheck, UnwindOf
  <2>5. pc' \in [Threads -> Steps]
    BY <2>4 DEF Steps
  <2> QED
    BY <1>8, <2>2, <2>3, <2>5 DEF RenameCheck
<1>9. ASSUME NEW t \in Threads, RevertLog(t) PROVE TypeOK'
  BY <1>9 DEF RevertLog, Steps
<1>10. ASSUME NEW t \in Threads, DestroyNext(t) PROVE TypeOK'
  BY <1>10 DEF DestroyNext, Without
<1>11. ASSUME NEW t \in Threads, StartSnapshot(t) PROVE TypeOK'
  BY <1>11 DEF StartSnapshot, KeyOfActions, Key, Steps
<1>12. ASSUME NEW t \in Threads, ChooseKeep(t) \/ ChooseRemove(t) \/ ReturnToMain(t) PROVE TypeOK'
  <2>1. CASE ChooseKeep(t)
    BY <2>1 DEF ChooseKeep, KeyOfTerminal, Key, Steps
  <2>2. CASE ChooseRemove(t)
    BY <2>2 DEF ChooseRemove, KeyOfTerminal, Key, UnwindOf, Steps
  <2>3. CASE ReturnToMain(t)
    BY <2>3 DEF ReturnToMain, KeyOfTerminal, Key, Steps
  <2> QED
    BY <1>12, <2>1, <2>2, <2>3
<1>13. ASSUME NEW t \in Threads, CompleteBackupAndExit(t) PROVE TypeOK'
  <2>1. pc' \in [Threads -> Steps]
    BY <1>13 DEF CompleteBackupAndExit, Steps
  <2>2. UiGone /\ prog' = "quitting" /\ UNCHANGED <<disk, logMem, name, doomed>>
    BY <1>13 DEF CompleteBackupAndExit
  <2>3. asked' \in Seq(Threads) /\ opening' \in Seq(Threads) /\ queries' \in Seq(Threads)
    BY <2>2 DEF UiGone
  <2> QED
    BY <2>1, <2>2, <2>3 DEF UiGone
<1>14. CASE UiDrain
  BY <1>14 DEF UiDrain
<1>15. CASE AnswerSnapshotName
  <2>1. Head(queries) \in Threads /\ Tail(queries) \in Seq(Threads)
    BY <1>15 DEF AnswerSnapshotName, KeyOfQuery
  <2> QED
    BY <1>15, <2>1 DEF AnswerSnapshotName, KeyOfQuery, Key, Steps
<1>16. CASE \/ UiFrame \/ TransferFlush \/ TransferFlushFails \/ DismissLogError
            \/ ProcessEnds
  BY <1>16 DEF UiFrame, Key, TransferFlush, TransferFlushFails, DismissLogError, ProcessEnds
<1>17. CASE Quit \/ Crash
  <2>1. UiGone => /\ asked' \in Seq(Threads) /\ opening' \in Seq(Threads)
                  /\ queries' \in Seq(Threads)
    BY DEF UiGone
  <2>2. CASE Quit
    BY <2>1, <2>2 DEF Quit, UiGone
  <2>3. CASE Crash
    <3>1. pc' \in [Threads -> Steps] /\ doomed' \in [Threads -> SUBSET Stages]
      BY <2>3 DEF Crash, Steps
    <3> QED
      BY <2>1, <2>3, <3>1 DEF Crash, UiGone
  <2> QED
    BY <1>17, <2>2, <2>3
<1>18. CASE StartNewEntry
  <2>1. entry' \in 1..MaxEntry
    BY <1>18, MaxEntryAssumption DEF MaxEntryAssumption, StartNewEntry
  <2> QED
    BY <1>18, <2>1 DEF StartNewEntry
<1>19. CASE StartRefused \/ StartExisting \/ SortOutByHand
  BY <1>19 DEF StartRefused, StartExisting, SortOutByHand, StageTagged
<1>20. CASE UNCHANGED vars
  BY <1>20 DEF vars
<1> QED
  BY <1>1, <1>2, <1>3, <1>4, <1>5, <1>6, <1>7, <1>8, <1>9, <1>10, <1>11, <1>12, <1>13,
     <1>14, <1>15, <1>16, <1>17, <1>18, <1>19, <1>20 DEF Next, ThreadStep, UserStep

\* Every variable of the workflow keeps its type, whatever fails and whenever it crashes.
THEOREM TypeCorrect == Spec => []TypeOK
  BY TypeInit, TypeNext, PTL DEF Spec

-----------------------------------------------------------------------------
(* What a step of one thread does to the snapshots held by all of them *)

Holding == SnapshotIdsAreUnique /\ HeldSnapshotsExist /\ HoldersAreExclusive

\* Only t moves, and not to another name.
OthersStay(t) ==
    /\ name' = name /\ entry' = entry
    /\ \A u \in Threads \ {t} : pc'[u] = pc[u] /\ doomed'[u] = doomed[u]

LEMMA OthersHold ==
  ASSUME NEW t \in Threads, OthersStay(t), NEW u \in Threads \ {t}, NEW stage \in Stages
  PROVE  Holds(u, stage)' <=> Holds(u, stage)
  BY DEF OthersStay, Holds

\* t creates a snapshot nobody has: it holds it, and nothing else changes hands.
LEMMA TakingASnapshot ==
  ASSUME TypeOK, Holding, NEW t \in Threads, OthersStay(t), NEW new \in Stages,
         ~Exists(new, name[t]),
         snaps' = snaps \cup {Frozen(new, name[t])},
         \A x \in Stages : Holds(t, x)' <=> Holds(t, x) \/ x = new
  PROVE  Holding' /\ Strays \subseteq Strays' /\ Sealed' = Sealed
<1> DEFINE f == Frozen(new, name[t])
<1>1. f.stage = new /\ f.name = name[t] /\ f.stage # Plain
  BY DEF Frozen
<1>2. SnapshotIdsAreUnique'
  BY <1>1 DEF Holding, SnapshotIdsAreUnique, Id, Exists
<1>3. HeldSnapshotsExist'
  <2> SUFFICES ASSUME NEW u \in Threads, NEW stage \in Stages, Holds(u, stage)'
               PROVE  Exists(stage, name[u])'
    BY DEF HeldSnapshotsExist
  <2>1. CASE u = t /\ stage = new
    BY <1>1, <2>1 DEF Exists, Id, OthersStay
  <2>2. CASE ~(u = t /\ stage = new)
    <3>1. Holds(u, stage)
      BY <2>2, OthersHold
    <3> QED
      BY <3>1 DEF Holding, HeldSnapshotsExist, Exists, Id, OthersStay
  <2> QED
    BY <2>1, <2>2
<1>4. HoldersAreExclusive'
  <2> SUFFICES ASSUME NEW u \in Threads, NEW v \in Threads, NEW stage \in Stages,
                      u # v, Holds(u, stage)', Holds(v, stage)'
               PROVE  name[u] # name[v]
    BY DEF HoldersAreExclusive, OthersStay
  <2>1. \A w \in Threads : w # t /\ Holds(w, stage)' => Holds(w, stage)
    BY OthersHold
  <2>2. CASE stage = new /\ t \in {u, v}
    BY <2>1, <2>2 DEF Holding, HeldSnapshotsExist
  <2>3. CASE ~(stage = new /\ t \in {u, v})
    <3>1. Holds(u, stage) /\ Holds(v, stage)
      BY <2>1, <2>3
    <3> QED
      BY <3>1 DEF Holding, HoldersAreExclusive
  <2> QED
    BY <2>2, <2>3
<1>5. Strays \subseteq Strays'
  <2> SUFFICES ASSUME NEW s \in Strays, NEW u \in Threads, HeldBy(u, s)' PROVE FALSE
    BY DEF Strays, StageTagged
  <2>1. s \in snaps /\ s.stage \in Stages /\ ~HeldBy(u, s) /\ s.name = name[u]
    BY DEF Strays, StageTagged, HeldBy, OthersStay
  <2>2. ~Holds(u, s.stage) /\ Holds(u, s.stage)'
    BY <2>1 DEF HeldBy
  <2>3. u = t /\ s.stage = new
    BY <2>1, <2>2, OthersHold
  <2> QED
    BY <2>1, <2>3 DEF Exists, Id
<1>6. Sealed' = Sealed
  BY <1>1 DEF Sealed
<1> QED
  BY <1>2, <1>3, <1>4, <1>5, <1>6 DEF Holding

\* t destroys or renames the snapshots it holds of the stages in gone, the new ones (at most
\* one, with a final name that was free) are in final, and it takes no others.
GivesUp(t, gone, final) ==
    /\ OthersStay(t)
    /\ gone \subseteq Stages /\ \A x \in gone : Holds(t, x)
    /\ snaps' = {s \in snaps : ~(s.name = name[t] /\ s.stage \in gone)} \cup final
    /\ \A s \in final : s.stage = Plain /\ s.name = name[t] /\ ~Exists(Plain, name[t])
    /\ \A r, s \in final : r = s
    /\ \A x \in Stages : Holds(t, x)' => Holds(t, x) /\ x \notin gone

\* Nobody else's snapshots are touched, and what t gives up without destroying it is a stray.
LEMMA GivingUpSnapshots ==
  ASSUME TypeOK, Holding, NEW t \in Threads, NEW gone, NEW final, GivesUp(t, gone, final)
  PROVE  /\ Holding' /\ Strays \subseteq Strays' /\ Sealed \subseteq Sealed'
         /\ \A u \in Threads \ {t} : logDisk' = logDisk /\ Backs(u) => Backs(u)'
         /\ (\E x \in Stages \ gone : Holds(t, x) /\ ~Holds(t, x)') => Strays' # {}
<1> USE DEF GivesUp
<1>1. ASSUME NEW u \in Threads \ {t}, NEW s \in snaps, s.stage \in Stages,
             Holds(u, s.stage), s.name = name[u]
      PROVE  s \in snaps'
  BY <1>1 DEF Holding, HoldersAreExclusive
<1>2. SnapshotIdsAreUnique'
  BY DEF Holding, SnapshotIdsAreUnique, Id, Exists
<1>3. HeldSnapshotsExist'
  <2> SUFFICES ASSUME NEW u \in Threads, NEW stage \in Stages, Holds(u, stage)'
               PROVE  Exists(stage, name[u])'
    BY DEF HeldSnapshotsExist
  <2>1. Holds(u, stage)
    BY OthersHold
  <2>2. PICK s \in snaps : s.stage = stage /\ s.name = name[u]
    BY <2>1 DEF Holding, HeldSnapshotsExist, Exists, Id
  <2>3. s \in snaps'
    BY <1>1, <2>1, <2>2
  <2> QED
    BY <2>2, <2>3 DEF Exists, Id, OthersStay
<1>4. HoldersAreExclusive'
  <2> SUFFICES ASSUME NEW u \in Threads, NEW v \in Threads, NEW stage \in Stages,
                      u # v, Holds(u, stage)', Holds(v, stage)'
               PROVE  name[u] # name[v]
    BY DEF HoldersAreExclusive, OthersStay
  <2>1. Holds(u, stage) /\ Holds(v, stage)
    BY OthersHold
  <2> QED
    BY <2>1 DEF Holding, HoldersAreExclusive
<1>5. \A s \in snaps', u \in Threads :
         s.stage \in Stages /\ HeldBy(u, s)' => HeldBy(u, s)
  <2> SUFFICES ASSUME NEW s \in snaps', NEW u \in Threads, s.stage \in Stages, HeldBy(u, s)'
               PROVE  HeldBy(u, s)
    OBVIOUS
  <2>1. Holds(u, s.stage)' /\ s.name = name[u]
    BY DEF HeldBy, OthersStay
  <2> QED
    BY <2>1, OthersHold DEF HeldBy
<1>6. Strays \subseteq Strays'
  <2> SUFFICES ASSUME NEW s \in Strays PROVE s \in Strays'
    OBVIOUS
  <2>1. s \in snaps /\ s.stage \in Stages /\ \A u \in Threads : ~HeldBy(u, s)
    BY DEF Strays, StageTagged
  <2>2. s \in snaps'
    BY <2>1 DEF HeldBy
  <2> QED
    BY <1>5, <2>1, <2>2 DEF Strays, StageTagged
<1>7. Sealed \subseteq Sealed'
  BY DEF Sealed
<1>8. ASSUME NEW u \in Threads \ {t}, logDisk' = logDisk, Backs(u) PROVE Backs(u)'
  <2>1. pc'[u] = pc[u] /\ name'[u] = name[u] /\ entry' = entry
    BY DEF OthersStay
  <2> DEFINE c == [stage |-> Check, name |-> name[u], entry |-> entry, complete |-> TRUE]
  <2>2. CASE pc[u] \in {"drop", "checking", "decide", "rename"} /\ c \in snaps
    <3>1. Holds(u, Check)
      BY <2>2 DEF Holds
    <3>2. c \in snaps'
      BY <1>1, <2>2, <3>1
    <3> QED
      BY <2>1, <2>2, <3>2 DEF Backs
  <2>3. CASE pc[u] = "revert" \/ (pc[u] = "check" /\ logDisk)
    BY <1>8, <2>1, <2>3 DEF Backs
  <2> QED
    BY <1>8, <2>2, <2>3 DEF Backs
<1>9. ASSUME NEW x \in Stages \ gone, Holds(t, x), ~Holds(t, x)' PROVE Strays' # {}
  <2>1. PICK s \in snaps : s.stage = x /\ s.name = name[t]
    BY <1>9 DEF Holding, HeldSnapshotsExist, Exists, Id
  <2>2. s \in snaps'
    BY <2>1
  <2>3. \A u \in Threads \ {t} : ~HeldBy(u, s)'
    BY <1>5, <1>9, <2>1, <2>2 DEF HeldBy, Holding, HoldersAreExclusive
  <2>4. ~HeldBy(t, s)'
    BY <1>9, <2>1 DEF HeldBy
  <2> QED
    BY <2>1, <2>2, <2>3, <2>4 DEF Strays, StageTagged
<1> QED
  BY <1>2, <1>3, <1>4, <1>6, <1>7, <1>8, <1>9 DEF Holding

-----------------------------------------------------------------------------
(* The inductive invariant *)

\* A step of t keeps the invariant if it keeps what the steps above keep and, were t's work
\* behind the log's claim, leaves something that still is.
LEMMA ThreadStepKeeps ==
  ASSUME TypeOK, GuardInv, NEW t \in Threads, OthersStay(t), pc[t] # "idle" \/ prog = "up",
         Holding', Strays \subseteq Strays', Sealed \subseteq Sealed',
         \A u \in Threads \ {t} : Backs(u) => Backs(u)',
         UNCHANGED <<logMem, logDisk, prog>>,
         pc'[t] = "revert" => doomed'[t] # {},
         Backs(t) => Backs(t)' \/ Strays' # {} \/ entry \in Sealed'
  PROVE  GuardInv'
<1>1. UnwindHasWork'
  BY DEF GuardInv, UnwindHasWork, OthersStay
<1>2. OffMeansIdle'
  BY DEF GuardInv, OffMeansIdle
<1>3. MemoryClaimIsBacked' /\ DiskClaimIsFlagged'
  BY DEF GuardInv, MemoryClaimIsBacked, DiskClaimIsFlagged, OthersStay
<1>4. ClosedEntriesAreSealed'
  BY DEF GuardInv, ClosedEntriesAreSealed, OthersStay
<1> QED
  BY <1>1, <1>2, <1>3, <1>4 DEF GuardInv, Holding

\* The case of a step that neither takes nor destroys a snapshot and gives none up.
LEMMA QuietStepKeeps ==
  ASSUME TypeOK, GuardInv, NEW t \in Threads, OthersStay(t), pc[t] # "idle" \/ prog = "up",
         UNCHANGED <<snaps, logMem, logDisk, prog>>,
         \A x \in Stages : Holds(t, x)' => Holds(t, x),
         pc'[t] = "revert" => doomed'[t] # {},
         Backs(t) => Backs(t)' \/ \E x \in Stages : Holds(t, x) /\ ~Holds(t, x)'
  PROVE  GuardInv'
<1>1. Holding
  BY DEF GuardInv, Holding
<1>2. GivesUp(t, {}, {})
  BY DEF GivesUp
<1>3. /\ Holding' /\ Strays \subseteq Strays' /\ Sealed \subseteq Sealed'
      /\ \A u \in Threads \ {t} : Backs(u) => Backs(u)'
      /\ (\E x \in Stages : Holds(t, x) /\ ~Holds(t, x)') => Strays' # {}
  BY <1>1, <1>2, GivingUpSnapshots
<1> QED
  BY <1>3, ThreadStepKeeps

\* Without a thread moving, snapshots stay in the same hands.
LEMMA NoThreadMoves ==
  ASSUME GuardInv, UNCHANGED <<snaps, entry, threads>>
  PROVE  /\ Holding' /\ UnwindHasWork' /\ ClosedEntriesAreSealed'
         /\ Strays' = Strays /\ Sealed' = Sealed
         /\ (logDisk => logDisk') => \A u \in Threads : Backs(u) => Backs(u)'
<1>1. \A u \in Threads, x \in Stages : Holds(u, x)' <=> Holds(u, x)
  BY DEF Holds
<1>2. Holding'
  BY <1>1 DEF GuardInv, Holding, SnapshotIdsAreUnique, HeldSnapshotsExist,
              HoldersAreExclusive, Exists, Id
<1>3. Strays' = Strays
  BY <1>1 DEF Strays, StageTagged, HeldBy
<1>4. Sealed' = Sealed
  BY DEF Sealed
<1>5. (logDisk => logDisk') => \A u \in Threads : Backs(u) => Backs(u)'
  BY DEF Backs
<1> QED
  BY <1>2, <1>3, <1>4, <1>5 DEF GuardInv, UnwindHasWork, ClosedEntriesAreSealed

LEMMA GuardInit == Init => GuardInv
<1> SUFFICES ASSUME Init PROVE GuardInv
  OBVIOUS
<1>1. \A t \in Threads, x \in Stages : ~Holds(t, x)
  BY DEF Init, Holds
<1>2. SnapshotIdsAreUnique /\ HeldSnapshotsExist /\ HoldersAreExclusive
  BY <1>1 DEF Init, SnapshotIdsAreUnique, HeldSnapshotsExist, HoldersAreExclusive
<1>3. UnwindHasWork /\ OffMeansIdle /\ MemoryClaimIsBacked /\ DiskClaimIsFlagged
  BY DEF Init, UnwindHasWork, OffMeansIdle, MemoryClaimIsBacked, DiskClaimIsFlagged
<1>4. ClosedEntriesAreSealed
  BY DEF Init, ClosedEntriesAreSealed
<1> QED
  BY <1>2, <1>3, <1>4 DEF GuardInv

\* The invariant is strong enough: a run that backs the claim holds a snapshot.
LEMMA GuardImplies == TypeOK /\ GuardInv => CompletionIsGuarded
<1> SUFFICES ASSUME TypeOK, GuardInv, logDisk, entry \notin Sealed PROVE StageTagged # {}
  BY DEF CompletionIsGuarded
<1>1. CASE Strays # {}
  BY <1>1 DEF Strays
<1>2. CASE Strays = {}
  <2>1. PICK t \in Threads : Backs(t)
    BY <1>2 DEF GuardInv, MemoryClaimIsBacked, DiskClaimIsFlagged
  <2>2. PICK x \in Stages : Holds(t, x)
    BY <2>1 DEF Backs, Holds, GuardInv, UnwindHasWork, TypeOK
  <2> QED
    BY <2>2 DEF GuardInv, HeldSnapshotsExist, Exists, Id, StageTagged
<1> QED
  BY <1>1, <1>2

LEMMA GuardNext == TypeOK /\ GuardInv /\ [Next]_vars => GuardInv'
<1> SUFFICES ASSUME TypeOK, GuardInv, [Next]_vars PROVE GuardInv'
  OBVIOUS
<1>a. Holding
  BY DEF GuardInv, Holding
<1>1. ASSUME NEW t \in Threads,
             \/ AskSnapshotName(t) \/ StartSnapshot(t) \/ StartCheckTerminal(t)
             \/ UnwindDone(t) \/ ReturnToMain(t)
      PROVE  GuardInv'
  <2>1. OthersStay(t) /\ UNCHANGED <<snaps, logMem, logDisk, prog, doomed>>
    BY <1>1 DEF AskSnapshotName, StartSnapshot, StartCheckTerminal, UnwindDone,
                ReturnToMain, OthersStay, TypeOK
  <2>2. pc[t] # "idle" \/ prog = "up"
    BY <1>1 DEF AskSnapshotName, StartSnapshot, StartCheckTerminal, UnwindDone,
                ReturnToMain, KeyOfActions, Key
  <2>3. /\ pc'[t] \in {"asking", "requested", "tripwire", "idle", "returning"}
        /\ pc[t] \in {"requested", "idle", "named", "destroy", "returning"}
    BY <1>1 DEF AskSnapshotName, StartSnapshot, StartCheckTerminal, UnwindDone,
                ReturnToMain, TypeOK
  <2>4. \A x \in Stages : ~Holds(t, x)'
    BY <2>3 DEF Holds
  <2>5. ~Backs(t)
    BY <2>3 DEF Backs
  <2> QED
    BY <2>1, <2>2, <2>3, <2>4, <2>5, QuietStepKeeps
<1>2. ASSUME NEW t \in Threads, TakeTripwire(t) PROVE GuardInv'
  <2>1. /\ OthersStay(t) /\ pc[t] = "tripwire"
        /\ UNCHANGED <<logMem, logDisk, prog, doomed>>
    BY <1>2 DEF TakeTripwire, OthersStay, TypeOK
  <2>2. CASE pc'[t] = "returning"
    <3>1. UNCHANGED snaps /\ ~Backs(t) /\ \A x \in Stages : ~Holds(t, x)'
      BY <1>2, <2>1, <2>2 DEF TakeTripwire, Backs, Holds, TypeOK
    <3> QED
      BY <2>1, <2>2, <3>1, QuietStepKeeps
  <2>3. CASE pc'[t] # "returning"
    <3>1. /\ pc'[t] = "complete" /\ ~Exists(Tripwire, name[t])
          /\ snaps' = snaps \cup {Frozen(Tripwire, name[t])}
      BY <1>2, <2>3 DEF TakeTripwire, TypeOK
    <3>2. \A x \in Stages : Holds(t, x)' <=> Holds(t, x) \/ x = Tripwire
      BY <2>1, <3>1 DEF Holds
    <3>3. Holding' /\ Strays \subseteq Strays' /\ Sealed' = Sealed
      BY <1>a, <2>1, <3>1, <3>2, TakingASnapshot
    <3>4. \A u \in Threads \ {t} : Backs(u) => Backs(u)'
      BY <2>1, <3>1 DEF Backs, OthersStay
    <3>5. ~Backs(t)
      BY <2>1 DEF Backs
    <3> QED
      BY <2>1, <3>1, <3>3, <3>4, <3>5, ThreadStepKeeps
  <2> QED
    BY <2>2, <2>3
<1>3. ASSUME NEW t \in Threads, CompleteBackup(t) PROVE GuardInv'
  <2>1. /\ OthersStay(t) /\ pc[t] = "complete" /\ logMem' = TRUE
        /\ UNCHANGED <<snaps, prog>>
    BY <1>3 DEF CompleteBackup, UnwindOf, OthersStay, TypeOK
  <2>2. \/ pc'[t] = "check" /\ logDisk' = TRUE
        \/ pc'[t] = "revert" /\ doomed'[t] = {Tripwire}
    BY <1>3 DEF CompleteBackup, UnwindOf, TypeOK
  <2>3. Backs(t)' /\ \A x \in Stages : Holds(t, x)' => Holds(t, x)
    BY <2>1, <2>2 DEF Backs, Holds
  <2>4. GivesUp(t, {}, {})
    BY <2>1, <2>3 DEF GivesUp
  <2>5. Holding' /\ Sealed \subseteq Sealed'
    BY <1>a, <2>4, GivingUpSnapshots
  <2>6. UnwindHasWork'
    BY <2>1, <2>2 DEF GuardInv, UnwindHasWork, OthersStay
  <2>7. OffMeansIdle'
    BY <2>1 DEF GuardInv, OffMeansIdle
  <2>8. MemoryClaimIsBacked' /\ DiskClaimIsFlagged'
    BY <2>1, <2>3 DEF MemoryClaimIsBacked, DiskClaimIsFlagged
  <2>9. ClosedEntriesAreSealed'
    BY <2>1, <2>5 DEF GuardInv, ClosedEntriesAreSealed, OthersStay
  <2> QED
    BY <2>5, <2>6, <2>7, <2>8, <2>9 DEF GuardInv, Holding
<1>4. ASSUME NEW t \in Threads, TakeCheck(t) PROVE GuardInv'
  <2>1. /\ OthersStay(t) /\ pc[t] = "check"
        /\ UNCHANGED <<entry, logMem, logDisk, prog>>
    BY <1>4 DEF TakeCheck, UnwindOf, OthersStay, TypeOK
  <2>2. CASE pc'[t] = "revert"
    <3>1. UNCHANGED snaps /\ doomed'[t] = {Tripwire}
      BY <1>4, <2>2 DEF TakeCheck, UnwindOf, TypeOK
    <3>2. Backs(t)' /\ \A x \in Stages : Holds(t, x)' => Holds(t, x)
      BY <2>1, <2>2, <3>1 DEF Backs, Holds
    <3> QED
      BY <2>1, <3>1, <3>2, QuietStepKeeps
  <2>3. CASE pc'[t] # "revert"
    <3>1. /\ pc'[t] = "drop" /\ ~Exists(Check, name[t])
          /\ snaps' = snaps \cup {Frozen(Check, name[t])} /\ UNCHANGED doomed
      BY <1>4, <2>3 DEF TakeCheck, UnwindOf, TypeOK
    <3>2. \A x \in Stages : Holds(t, x)' <=> Holds(t, x) \/ x = Check
      BY <2>1, <3>1 DEF Holds
    <3>3. Holding' /\ Strays \subseteq Strays' /\ Sealed' = Sealed
      BY <1>a, <2>1, <3>1, <3>2, TakingASnapshot
    <3>4. \A u \in Threads \ {t} : Backs(u) => Backs(u)'
      BY <2>1, <3>1 DEF Backs, OthersStay
    <3>5. Backs(t) => Backs(t)'
      BY <2>1, <3>1 DEF Backs, Frozen, OthersStay, TypeOK
    <3> QED
      BY <2>1, <3>1, <3>3, <3>4, <3>5, ThreadStepKeeps
  <2> QED
    BY <2>2, <2>3
<1>5. ASSUME NEW t \in Threads, DropTripwire(t) PROVE GuardInv'
  <2>1. /\ OthersStay(t) /\ pc[t] = "drop"
        /\ UNCHANGED <<entry, logMem, logDisk, prog>>
    BY <1>5 DEF DropTripwire, UnwindOf, OthersStay, TypeOK
  <2>2. CASE pc'[t] = "revert"
    <3>1. UNCHANGED snaps /\ doomed'[t] = Stages
      BY <1>5, <2>2 DEF DropTripwire, UnwindOf, TypeOK
    <3>2. Backs(t)' /\ \A x \in Stages : Holds(t, x)' => Holds(t, x)
      BY <2>1, <2>2, <3>1 DEF Backs, Holds
    <3> QED
      BY <2>1, <3>1, <3>2, QuietStepKeeps
  <2>3. CASE pc'[t] # "revert"
    <3>1. pc'[t] = "checking" /\ snaps' = Without(Tripwire, name[t]) /\ UNCHANGED doomed
      BY <1>5, <2>3 DEF DropTripwire, UnwindOf, TypeOK
    <3>2. GivesUp(t, {Tripwire}, {})
      BY <2>1, <3>1 DEF GivesUp, Without, Id, Holds
    <3>3. /\ Holding' /\ Strays \subseteq Strays' /\ Sealed \subseteq Sealed'
          /\ \A u \in Threads \ {t} : Backs(u) => Backs(u)'
      BY <1>a, <2>1, <3>2, GivingUpSnapshots
    <3>4. Backs(t) => Backs(t)'
      BY <2>1, <3>1 DEF Backs, Without, Id, OthersStay
    <3> QED
      BY <2>1, <3>1, <3>3, <3>4, ThreadStepKeeps
  <2> QED
    BY <2>2, <2>3
<1>6. ASSUME NEW t \in Threads, CheckEnds(t) \/ ChooseKeep(t) \/ ChooseRemove(t) PROVE GuardInv'
  <2>1. /\ OthersStay(t) /\ pc[t] \in {"checking", "decide"}
        /\ UNCHANGED <<snaps, entry, logMem, logDisk, prog>>
    BY <1>6 DEF CheckEnds, ChooseKeep, ChooseRemove, UnwindOf, OthersStay, TypeOK
  <2>2. \/ pc'[t] \in {"rename", "decide"}
        \/ pc'[t] = "revert" /\ doomed'[t] = {Check}
    BY <1>6 DEF CheckEnds, ChooseKeep, ChooseRemove, UnwindOf, TypeOK
  <2>3. \A x \in Stages : Holds(t, x)' => Holds(t, x)
    BY <2>1, <2>2 DEF Holds
  <2>4. Backs(t) => Backs(t)'
    BY <2>1, <2>2 DEF Backs, OthersStay
  <2> QED
    BY <2>1, <2>2, <2>3, <2>4, QuietStepKeeps
<1>7. ASSUME NEW t \in Threads, LoseTerminal(t) PROVE GuardInv'
  <2>1. /\ OthersStay(t) /\ pc'[t] = "idle"
        /\ pc[t] \in {"checking", "decide", "returning", "completed"}
        /\ UNCHANGED <<snaps, entry, logMem, logDisk, prog>>
    BY <1>7 DEF LoseTerminal, OthersStay, TypeOK
  <2>2. \A x \in Stages : ~Holds(t, x)'
    BY <2>1 DEF Holds
  <2>3. Backs(t) => Holds(t, Check)
    BY <2>1 DEF Backs, Holds
  <2> QED
    BY <2>1, <2>2, <2>3, QuietStepKeeps
<1>8. ASSUME NEW t \in Threads, RenameCheck(t) PROVE GuardInv'
  <2>1. /\ OthersStay(t) /\ pc[t] = "rename"
        /\ UNCHANGED <<entry, logMem, logDisk, prog>>
    BY <1>8 DEF RenameCheck, UnwindOf, OthersStay, TypeOK
  <2>2. CASE pc'[t] = "revert"
    <3>1. UNCHANGED snaps /\ doomed'[t] = {Check}
      BY <1>8, <2>2 DEF RenameCheck, UnwindOf, TypeOK
    <3>2. Backs(t)' /\ \A x \in Stages : Holds(t, x)' => Holds(t, x)
      BY <2>1, <2>2, <3>1 DEF Backs, Holds
    <3> QED
      BY <2>1, <3>1, <3>2, QuietStepKeeps
  <2>3. CASE pc'[t] # "revert"
    <3> DEFINE checked == snaps \ Without(Check, name[t])
               final   == {[s EXCEPT !.stage = Plain] : s \in checked}
    <3>1. /\ pc'[t] = "completed" /\ ~Exists(Plain, name[t])
          /\ snaps' = Without(Check, name[t]) \cup final /\ UNCHANGED doomed
      BY <1>8, <2>3 DEF RenameCheck, UnwindOf, TypeOK
    <3>2. \A s \in checked : s \in Snapshots /\ Id(s) = <<Check, name[t]>>
      BY DEF Without, TypeOK
    <3>3. \A r, s \in checked : r = s
      BY <3>2 DEF GuardInv, SnapshotIdsAreUnique, Without
    <3>4. \A s \in final : s.stage = Plain /\ s.name = name[t]
      BY <3>2 DEF Snapshots, Id
    <3>5. \A r, s \in final : r = s
      BY <3>3
    <3>6. GivesUp(t, {Check}, final)
      <4>1. Without(Check, name[t]) = {s \in snaps : ~(s.name = name[t] /\ s.stage \in {Check})}
        BY DEF Without, Id
      <4>2. Holds(t, Check) /\ \A x \in Stages : ~Holds(t, x)'
        BY <2>1, <3>1 DEF Holds
      <4> HIDE DEF final
      <4> QED
        BY <2>1, <3>1, <3>4, <3>5, <4>1, <4>2 DEF GivesUp
    <3>7. /\ Holding' /\ Strays \subseteq Strays' /\ Sealed \subseteq Sealed'
          /\ \A u \in Threads \ {t} : Backs(u) => Backs(u)'
      <4> HIDE DEF final
      <4> QED
        BY <1>a, <2>1, <3>6, GivingUpSnapshots
    <3>8. Backs(t) => entry \in Sealed'
      <4> SUFFICES ASSUME Backs(t) PROVE entry \in Sealed'
        OBVIOUS
      <4> DEFINE c == [stage |-> Check, name |-> name[t], entry |-> entry, complete |-> TRUE]
      <4>1. c \in snaps
        BY <2>1 DEF Backs
      <4>2. c \in checked
        BY <4>1 DEF Without, Id
      <4>3. [c EXCEPT !.stage = Plain] \in snaps'
        BY <3>1, <4>2
      <4> QED
        BY <4>3 DEF Sealed
    <3> QED
      BY <2>1, <3>1, <3>7, <3>8, ThreadStepKeeps
  <2> QED
    BY <2>2, <2>3
<1>9. ASSUME NEW t \in Threads, RevertLog(t) PROVE GuardInv'
  <2>1. /\ OthersStay(t) /\ pc[t] = "revert" /\ logMem' = FALSE
        /\ UNCHANGED <<snaps, entry, prog>>
    BY <1>9 DEF RevertLog, OthersStay, TypeOK
  <2>2. \/ pc'[t] = "destroy" /\ logDisk' = FALSE /\ UNCHANGED doomed
        \/ pc'[t] = "returning" /\ UNCHANGED logDisk
    BY <1>9 DEF RevertLog, TypeOK
  <2>3. \A x \in Stages : Holds(t, x)' => Holds(t, x)
    BY <2>1, <2>2 DEF Holds
  <2>4. GivesUp(t, {}, {})
    BY <2>1, <2>3 DEF GivesUp
  <2>5. /\ Holding' /\ Strays \subseteq Strays' /\ Sealed \subseteq Sealed'
        /\ (\E x \in Stages : Holds(t, x) /\ ~Holds(t, x)') => Strays' # {}
    BY <1>a, <2>4, GivingUpSnapshots
  <2>6. logDisk' => Strays' # {}
    <3> SUFFICES ASSUME logDisk' PROVE Strays' # {}
      OBVIOUS
    <3>1. pc'[t] = "returning"
      BY <2>2
    <3>2. PICK x \in Stages : x \in doomed[t]
      BY <2>1 DEF GuardInv, UnwindHasWork, TypeOK
    <3>3. Holds(t, x) /\ ~Holds(t, x)'
      BY <2>1, <3>1, <3>2 DEF Holds
    <3> QED
      BY <2>5, <3>3
  <2>7. UnwindHasWork' /\ OffMeansIdle'
    BY <2>1, <2>2 DEF GuardInv, UnwindHasWork, OffMeansIdle, OthersStay
  <2>8. MemoryClaimIsBacked' /\ DiskClaimIsFlagged'
    BY <2>1, <2>6 DEF MemoryClaimIsBacked, DiskClaimIsFlagged
  <2>9. ClosedEntriesAreSealed'
    BY <2>1, <2>5 DEF GuardInv, ClosedEntriesAreSealed
  <2> QED
    BY <2>5, <2>7, <2>8, <2>9 DEF GuardInv, Holding
<1>10. ASSUME NEW t \in Threads, DestroyNext(t) PROVE GuardInv'
  <2>1. PICK x \in doomed[t] : /\ doomed' = [doomed EXCEPT ![t] = @ \ {x}]
                               /\ snaps' = Without(x, name[t]) \/ UNCHANGED snaps
    BY <1>10 DEF DestroyNext
  <2>2. /\ OthersStay(t) /\ pc[t] = "destroy" /\ pc' = pc
        /\ UNCHANGED <<entry, logMem, logDisk, prog>>
        /\ doomed'[t] = doomed[t] \ {x} /\ x \in Stages
    BY <1>10, <2>1 DEF DestroyNext, OthersStay, TypeOK
  <2>3. \A y \in Stages : Holds(t, y)' <=> Holds(t, y) /\ y # x
    BY <2>2 DEF Holds
  <2>4. Holds(t, x)
    BY <2>1, <2>2 DEF Holds
  <2>5. ~Backs(t)
    BY <2>2 DEF Backs
  <2>6. CASE snaps' = Without(x, name[t])
    <3>1. GivesUp(t, {x}, {})
      BY <2>2, <2>3, <2>4, <2>6 DEF GivesUp, Without, Id
    <3>2. /\ Holding' /\ Strays \subseteq Strays' /\ Sealed \subseteq Sealed'
          /\ \A u \in Threads \ {t} : Backs(u) => Backs(u)'
      BY <1>a, <2>2, <3>1, GivingUpSnapshots
    <3> QED
      BY <2>2, <2>5, <3>2, ThreadStepKeeps
  <2>7. CASE UNCHANGED snaps
    BY <2>2, <2>3, <2>5, <2>7, QuietStepKeeps
  <2> QED
    BY <2>1, <2>6, <2>7
<1>11. CASE AnswerSnapshotName
  <2> DEFINE t == Head(queries)
  <2>1. /\ t \in Threads /\ pc[t] = "asking" /\ prog = "up"
        /\ UNCHANGED <<snaps, entry, logMem, logDisk, prog, doomed>>
    BY <1>11 DEF AnswerSnapshotName, KeyOfQuery, Key, TypeOK
  <2>2. pc'[t] \in {"idle", "named"} /\ \A u \in Threads \ {t} : pc'[u] = pc[u] /\ name'[u] = name[u]
    BY <1>11, <2>1 DEF AnswerSnapshotName, TypeOK
  <2> HIDE DEF t
  <2>3. \A u \in Threads, x \in Stages : Holds(u, x)' <=> Holds(u, x)
    BY <2>1, <2>2 DEF Holds
  <2>4. \A u \in Threads, x \in Stages : Holds(u, x) => name'[u] = name[u]
    BY <2>1, <2>2 DEF Holds
  <2>5. Holding'
    BY <1>a, <2>1, <2>3, <2>4 DEF Holding, SnapshotIdsAreUnique, HeldSnapshotsExist,
                                 HoldersAreExclusive, Exists, Id
  <2>6. Strays' = Strays /\ Sealed' = Sealed
    BY <2>1, <2>3, <2>4 DEF Strays, StageTagged, HeldBy, Sealed
  <2>7. \A u \in Threads : Backs(u) => Backs(u)'
    BY <2>1, <2>2 DEF Backs
  <2>8. UnwindHasWork' /\ OffMeansIdle'
    BY <2>1, <2>2 DEF GuardInv, UnwindHasWork, OffMeansIdle
  <2>9. MemoryClaimIsBacked' /\ DiskClaimIsFlagged' /\ ClosedEntriesAreSealed'
    BY <2>1, <2>6, <2>7 DEF GuardInv, MemoryClaimIsBacked, DiskClaimIsFlagged,
                            ClosedEntriesAreSealed
  <2> QED
    BY <2>5, <2>8, <2>9 DEF GuardInv, Holding
<1>12. ASSUME NEW t \in Threads, CompleteBackupAndExit(t) PROVE GuardInv'
  <2>1. /\ UNCHANGED <<snaps, entry, logMem, logDisk, name, doomed>>
        /\ prog' = "quitting"
        /\ \A u \in Threads :
              pc'[u] = pc[u] \/ (pc'[u] = "idle" /\ pc[u] \in {"completed", "requested", "asking"})
    BY <1>12 DEF CompleteBackupAndExit, TypeOK
  <2>2. \A u \in Threads, x \in Stages : Holds(u, x)' <=> Holds(u, x)
    BY <2>1 DEF Holds
  <2>3. Holding'
    BY <1>a, <2>1, <2>2 DEF Holding, SnapshotIdsAreUnique, HeldSnapshotsExist,
                            HoldersAreExclusive, Exists, Id
  <2>4. Strays' = Strays /\ Sealed' = Sealed
    BY <2>1, <2>2 DEF Strays, StageTagged, HeldBy, Sealed
  <2>5. \A u \in Threads : Backs(u) => Backs(u)'
    BY <2>1 DEF Backs
  <2>6. UnwindHasWork' /\ OffMeansIdle'
    BY <2>1 DEF GuardInv, UnwindHasWork, OffMeansIdle
  <2>7. MemoryClaimIsBacked' /\ DiskClaimIsFlagged' /\ ClosedEntriesAreSealed'
    BY <2>1, <2>4, <2>5 DEF GuardInv, MemoryClaimIsBacked, DiskClaimIsFlagged,
                            ClosedEntriesAreSealed
  <2> QED
    BY <2>3, <2>6, <2>7 DEF GuardInv, Holding
<1>13. CASE \/ UiDrain \/ UiFrame \/ TransferFlushFails \/ DismissLogError \/ Quit
            \/ StartRefused \/ UNCHANGED vars
  <2>1. UNCHANGED <<snaps, entry, logDisk, logMem, threads>>
    BY <1>13 DEF UiDrain, UiFrame, TransferFlushFails, DismissLogError, Quit, StartRefused, vars
  <2>2. OffMeansIdle'
    BY <1>13, <2>1 DEF UiDrain, UiFrame, Key, TransferFlushFails, DismissLogError, Quit,
                       StartRefused, vars, GuardInv, OffMeansIdle
  <2> QED
    BY <2>1, <2>2, NoThreadMoves
       DEF GuardInv, Holding, MemoryClaimIsBacked, DiskClaimIsFlagged
<1>14. CASE TransferFlush
  <2>1. UNCHANGED <<snaps, entry, logMem, prog, threads>> /\ logDisk' = logMem
    BY <1>14 DEF TransferFlush
  <2>2. OffMeansIdle'
    BY <2>1 DEF GuardInv, OffMeansIdle
  <2>3. DiskClaimIsFlagged'
    BY <2>1 DEF DiskClaimIsFlagged
  <2>4. MemoryClaimIsBacked'
    BY <2>1, NoThreadMoves DEF GuardInv, MemoryClaimIsBacked
  <2> QED
    BY <2>1, <2>2, <2>3, <2>4, NoThreadMoves DEF GuardInv, Holding
<1>15. CASE ProcessEnds
  <2>1. /\ UNCHANGED <<snaps, entry, logDisk, threads>> /\ logMem' = FALSE
        /\ \A t \in Threads : pc[t] = "idle"
    BY <1>15 DEF ProcessEnds
  <2>2. OffMeansIdle' /\ MemoryClaimIsBacked'
    BY <2>1 DEF OffMeansIdle, MemoryClaimIsBacked
  <2>3. \A t \in Threads : ~Backs(t)
    BY <2>1 DEF Backs
  <2>4. DiskClaimIsFlagged'
    BY <2>1, <2>3, NoThreadMoves
       DEF GuardInv, DiskClaimIsFlagged, MemoryClaimIsBacked
  <2> QED
    BY <2>1, <2>2, <2>4, NoThreadMoves DEF GuardInv, Holding
<1>16. CASE Crash
  <2>1. /\ UNCHANGED <<snaps, entry, logDisk, name>> /\ logMem' = FALSE
        /\ \A t \in Threads : pc'[t] = "idle"
    BY <1>16 DEF Crash
  <2>2. \A t \in Threads, x \in Stages : ~Holds(t, x)'
    BY <2>1 DEF Holds
  <2>3. Holding'
    BY <1>a, <2>1, <2>2 DEF Holding, SnapshotIdsAreUnique, HeldSnapshotsExist,
                            HoldersAreExclusive, Id
  <2>4. Strays' = StageTagged /\ Sealed' = Sealed
    BY <2>1, <2>2 DEF Strays, StageTagged, HeldBy, Sealed
  <2>5. DiskClaimIsFlagged'
    BY <2>1, <2>4, GuardImplies DEF DiskClaimIsFlagged, CompletionIsGuarded
  <2>6. UnwindHasWork' /\ OffMeansIdle' /\ MemoryClaimIsBacked'
    BY <2>1 DEF UnwindHasWork, OffMeansIdle, MemoryClaimIsBacked
  <2>7. ClosedEntriesAreSealed'
    BY <2>1, <2>4 DEF GuardInv, ClosedEntriesAreSealed
  <2> QED
    BY <2>3, <2>5, <2>6, <2>7 DEF GuardInv, Holding
<1>17. CASE StartExisting
  <2>1. UNCHANGED <<snaps, entry, logDisk, threads>> /\ prog' = "up" /\ ~logDisk /\ logMem' = logDisk
    BY <1>17 DEF StartExisting
  <2>2. OffMeansIdle' /\ MemoryClaimIsBacked' /\ DiskClaimIsFlagged'
    BY <2>1 DEF OffMeansIdle, MemoryClaimIsBacked, DiskClaimIsFlagged
  <2> QED
    BY <2>1, <2>2, NoThreadMoves DEF GuardInv, Holding
<1>18. CASE StartNewEntry
  <2>1. /\ UNCHANGED <<snaps, threads>> /\ prog' = "up" /\ entry' = entry + 1
        /\ logDisk' = FALSE /\ logMem' = FALSE /\ logDisk /\ StageTagged = {}
    BY <1>18 DEF StartNewEntry
  <2>2. entry \in Sealed /\ Sealed' = Sealed
    BY <2>1, GuardImplies DEF CompletionIsGuarded, Sealed
  <2>3. ClosedEntriesAreSealed'
    BY <2>1, <2>2 DEF GuardInv, ClosedEntriesAreSealed, TypeOK
  <2>4. OffMeansIdle' /\ MemoryClaimIsBacked' /\ DiskClaimIsFlagged' /\ UnwindHasWork'
    BY <2>1 DEF GuardInv, OffMeansIdle, MemoryClaimIsBacked, DiskClaimIsFlagged, UnwindHasWork
  <2>5. \A u \in Threads, x \in Stages : Holds(u, x)' <=> Holds(u, x)
    BY <2>1 DEF Holds
  <2>6. Holding'
    BY <1>a, <2>1, <2>5 DEF Holding, SnapshotIdsAreUnique, HeldSnapshotsExist,
                            HoldersAreExclusive, Exists, Id
  <2> QED
    BY <2>3, <2>4, <2>6 DEF GuardInv, Holding
<1>19. CASE SortOutByHand
  <2>1. /\ UNCHANGED <<entry, logMem, threads>> /\ prog = "refused" /\ prog' = "off"
        /\ snaps' = snaps \ StageTagged /\ logDisk' = (logDisk /\ entry \in Sealed)
    BY <1>19 DEF SortOutByHand
  <2>2. ~logMem /\ \A t \in Threads : pc[t] = "idle"
    BY <2>1 DEF GuardInv, OffMeansIdle
  <2>3. Sealed' = Sealed
    BY <2>1 DEF Sealed, StageTagged
  <2>4. OffMeansIdle' /\ MemoryClaimIsBacked' /\ DiskClaimIsFlagged'
    BY <2>1, <2>2, <2>3 DEF OffMeansIdle, MemoryClaimIsBacked, DiskClaimIsFlagged
  <2>5. \A t \in Threads, x \in Stages : ~Holds(t, x)'
    BY <2>1, <2>2 DEF Holds
  <2>6. SnapshotIdsAreUnique' /\ HeldSnapshotsExist' /\ HoldersAreExclusive'
    BY <1>a, <2>1, <2>5 DEF Holding, SnapshotIdsAreUnique, HeldSnapshotsExist,
                            HoldersAreExclusive, Id
  <2>7. UnwindHasWork' /\ ClosedEntriesAreSealed'
    BY <2>1, <2>3 DEF GuardInv, UnwindHasWork, ClosedEntriesAreSealed
  <2> QED
    BY <2>4, <2>6, <2>7 DEF GuardInv
<1> QED
  BY <1>1, <1>2, <1>3, <1>4, <1>5, <1>6, <1>7, <1>8, <1>9, <1>10, <1>11, <1>12, <1>13,
     <1>14, <1>15, <1>16, <1>17, <1>18, <1>19 DEF Next, ThreadStep, UserStep

-----------------------------------------------------------------------------
(* The theorems *)

LEMMA GuardInvariant == Spec => [](TypeOK /\ GuardInv)
<1>1. Init => TypeOK /\ GuardInv
  BY TypeInit, GuardInit
<1>2. TypeOK /\ GuardInv /\ [Next]_vars => (TypeOK /\ GuardInv)'
  BY TypeNext, GuardNext
<1> QED
  BY <1>1, <1>2, PTL DEF Spec

\* The guarantee of zfs_specific.rs:46-49, whatever fails, whenever the program is killed,
\* and even with any number of runs started at once: a log file that claims a completed
\* backup no plain snapshot carries never stands on the disk without a stage-tagged one.
THEOREM CompletionGuarded == Spec => []CompletionIsGuarded
  BY GuardInvariant, GuardImplies, PTL

\* What the guarantee rests on: a run holds snapshots that exist and no other run holds, and
\* a claim of completion in memory or in the file is backed by a run that will take it back
\* or seal it, or by a stage-tagged snapshot left behind.
THEOREM GuardHolds == Spec => []GuardInv
  BY GuardInvariant, PTL

\* Every entry the program has put behind it is carried by a plain-named snapshot whose
\* frozen log says complete.
THEOREM ClosedEntriesSealed == Spec => []ClosedEntriesAreSealed
<1>1. GuardInv => ClosedEntriesAreSealed
  BY DEF GuardInv
<1> QED
  BY <1>1, GuardInvariant, PTL

-----------------------------------------------------------------------------
(* The steps that reach the dataset or the log *)

DiskStep(t) ==
    \/ TakeTripwire(t) \/ CompleteBackup(t) \/ TakeCheck(t) \/ DropTripwire(t)
    \/ RenameCheck(t) \/ RevertLog(t) \/ DestroyNext(t)

LEMMA OnlyDiskSteps ==
  ASSUME [Next]_vars
  PROVE  \/ \E t \in Threads : DiskStep(t)
         \/ TransferFlush \/ StartNewEntry \/ SortOutByHand
         \/ UNCHANGED <<snaps, entry, logDisk>>
<1>1. ASSUME NEW t \in Threads, ThreadStep(t)
      PROVE  DiskStep(t) \/ UNCHANGED <<snaps, entry, logDisk>>
  BY <1>1 DEF ThreadStep, DiskStep, AskSnapshotName, StartCheckTerminal, CheckEnds,
              LoseTerminal, UnwindDone
<1>2. ASSUME NEW t \in Threads, UserStep(t) PROVE UNCHANGED <<snaps, entry, logDisk>>
  BY <1>2 DEF UserStep, StartSnapshot, ChooseKeep, ChooseRemove, ReturnToMain,
              CompleteBackupAndExit
<1>3. CASE \/ UiDrain \/ UiFrame \/ AnswerSnapshotName \/ TransferFlushFails
           \/ DismissLogError \/ Quit \/ ProcessEnds \/ Crash
  BY <1>3 DEF UiDrain, UiFrame, AnswerSnapshotName, TransferFlushFails, DismissLogError, Quit,
              ProcessEnds, Crash
<1>4. CASE StartRefused \/ StartExisting \/ UNCHANGED vars
  BY <1>4 DEF StartRefused, StartExisting, vars
<1> QED
  BY <1>1, <1>2, <1>3, <1>4 DEF Next

\* No step destroys or alters a plain-named snapshot: only stage-tagged names are ever
\* destroyed, and a rename never lands on a name that is taken.
THEOREM PlainSnapshotsStay == Spec => PlainSnapshotsArePermanent
<1>1. TypeOK /\ [Next]_vars => [\A s \in snaps : s.stage = Plain => s \in snaps']_vars
  <2> SUFFICES ASSUME TypeOK, [Next]_vars, NEW s \in snaps, s.stage = Plain
               PROVE  s \in snaps'
    OBVIOUS
  <2>1. \A stage \in Stages, n \in Names : s \in Without(stage, n)
    BY DEF Without, Id
  <2>2. ASSUME NEW t \in Threads, DiskStep(t) PROVE s \in snaps'
    <3>1. CASE TakeTripwire(t) \/ TakeCheck(t)
      BY <3>1 DEF TakeTripwire, TakeCheck
    <3>2. CASE DropTripwire(t) \/ RenameCheck(t)
      BY <2>1, <3>2 DEF DropTripwire, RenameCheck, TypeOK
    <3>3. CASE DestroyNext(t)
      <4>1. PICK stage \in doomed[t] : snaps' = Without(stage, name[t]) \/ snaps' = snaps
        BY <3>3 DEF DestroyNext
      <4>2. stage \in Stages /\ name[t] \in Names
        BY DEF TypeOK
      <4> QED
        BY <2>1, <4>1, <4>2
    <3>4. CASE CompleteBackup(t) \/ RevertLog(t)
      BY <3>4 DEF CompleteBackup, RevertLog
    <3>5. \/ TakeTripwire(t) \/ TakeCheck(t) \/ DropTripwire(t) \/ RenameCheck(t)
          \/ DestroyNext(t) \/ CompleteBackup(t) \/ RevertLog(t)
      BY <2>2 DEF DiskStep
    <3> QED
      BY <3>1, <3>2, <3>3, <3>4, <3>5
  <2>3. CASE SortOutByHand
    BY <2>3 DEF SortOutByHand, StageTagged
  <2>4. CASE TransferFlush \/ StartNewEntry
    BY <2>4 DEF TransferFlush, StartNewEntry
  <2> QED
    BY <2>2, <2>3, <2>4, OnlyDiskSteps
<1> QED
  BY <1>1, TypeCorrect, PTL DEF Spec, PlainSnapshotsArePermanent

-----------------------------------------------------------------------------
(* Refinement *)

\* The snapshots a run holds were taken in the entry that is still open: a new entry is
\* opened only when no thread runs.
HeldSnapshotsAreCurrent ==
    \A t \in Threads, stage \in Stages : Holds(t, stage) =>
        \A s \in snaps : Id(s) = <<stage, name[t]>> => s.entry = entry

\* A step by which t itself does not move leaves t what it held; one by which it does
\* gives it something new only if it takes it.
LEMMA HoldingNoMore ==
  ASSUME TypeOK, [Next]_vars, NEW t \in Threads, NEW stage \in Stages, Holds(t, stage)'
  PROVE  \/ Holds(t, stage) /\ name'[t] = name[t]
         \/ TakeTripwire(t) /\ stage = Tripwire /\ name' = name /\ ~Exists(stage, name[t])
         \/ TakeCheck(t) /\ stage = Check /\ name' = name /\ ~Exists(stage, name[t])
<1> DEFINE Kept == Holds(t, stage) /\ name'[t] = name[t]
<1>1. ASSUME pc'[t] = pc[t], doomed'[t] = doomed[t], name'[t] = name[t] PROVE Kept
  BY <1>1 DEF Holds
<1>2. ASSUME NEW u \in Threads, u # t, ThreadStep(u) \/ UserStep(u) PROVE Kept
  <2>1. CASE CompleteBackupAndExit(u)
    <3>1. pc'[t] = pc[t] \/ pc'[t] = "idle"
      BY <2>1 DEF CompleteBackupAndExit
    <3>2. pc'[t] # "idle" /\ name' = name /\ doomed' = doomed
      BY <2>1 DEF Holds, CompleteBackupAndExit
    <3> QED
      BY <1>1, <3>1, <3>2
  <2>2. CASE ThreadStep(u)
    <3>1. pc'[t] = pc[t] /\ doomed'[t] = doomed[t] /\ name' = name
      BY <1>2, <2>2 DEF ThreadStep, AskSnapshotName, StartCheckTerminal, TakeTripwire,
            CompleteBackup, TakeCheck, DropTripwire, CheckEnds, LoseTerminal, RenameCheck,
            RevertLog, DestroyNext, UnwindDone, UnwindOf, TypeOK
    <3> QED
      BY <1>1, <3>1
  <2>3. CASE StartSnapshot(u) \/ ChooseKeep(u) \/ ChooseRemove(u) \/ ReturnToMain(u)
    <3>1. pc'[t] = pc[t] /\ doomed'[t] = doomed[t] /\ name' = name
      BY <1>2, <2>3 DEF StartSnapshot, ChooseKeep, ChooseRemove, ReturnToMain, UnwindOf, TypeOK
    <3> QED
      BY <1>1, <3>1
  <2> QED
    BY <1>2, <2>1, <2>2, <2>3 DEF UserStep
<1>3. CASE \/ AskSnapshotName(t) \/ StartCheckTerminal(t) \/ LoseTerminal(t) \/ UnwindDone(t)
           \/ StartSnapshot(t) \/ ReturnToMain(t) \/ CompleteBackupAndExit(t)
  <2>1. pc'[t] \in {"asking", "tripwire", "idle", "returning", "requested"}
    BY <1>3 DEF AskSnapshotName, StartCheckTerminal, LoseTerminal, UnwindDone, StartSnapshot,
                ReturnToMain, CompleteBackupAndExit, TypeOK
  <2> QED
    BY <2>1 DEF Holds
<1>4. CASE CompleteBackup(t) \/ DropTripwire(t) \/ CheckEnds(t) \/ RenameCheck(t)
           \/ ChooseKeep(t) \/ ChooseRemove(t)
  <2>1. name' = name
    BY <1>4 DEF CompleteBackup, DropTripwire, CheckEnds, RenameCheck, ChooseKeep, ChooseRemove
  <2>2. CASE CompleteBackup(t) \/ DropTripwire(t)
    BY <2>1, <2>2 DEF CompleteBackup, DropTripwire, UnwindOf, Holds, TypeOK
  <2>3. CASE CheckEnds(t) \/ ChooseKeep(t)
    BY <2>1, <2>3 DEF CheckEnds, ChooseKeep, Holds, TypeOK
  <2>4. CASE RenameCheck(t) \/ ChooseRemove(t)
    BY <2>1, <2>4 DEF RenameCheck, ChooseRemove, UnwindOf, Holds, TypeOK
  <2> QED
    BY <1>4, <2>2, <2>3, <2>4
<1>5. CASE RevertLog(t) \/ DestroyNext(t)
  BY <1>5 DEF RevertLog, DestroyNext, Holds, TypeOK
<1>6. CASE TakeTripwire(t)
  BY <1>6 DEF TakeTripwire, Holds, TypeOK
<1>7. CASE TakeCheck(t)
  BY <1>7 DEF TakeCheck, UnwindOf, Holds, TypeOK
<1>8. CASE AnswerSnapshotName
  <2>1. Head(queries) \in Threads
    BY <1>8 DEF AnswerSnapshotName, KeyOfQuery, TypeOK
  <2>2. CASE t = Head(queries)
    <3>1. pc'[t] \in {"idle", "named"}
      BY <1>8, <2>2 DEF AnswerSnapshotName, TypeOK
    <3> QED
      BY <3>1 DEF Holds
  <2>3. CASE t # Head(queries)
    <3>1. pc'[t] = pc[t] /\ doomed'[t] = doomed[t] /\ name'[t] = name[t]
      BY <1>8, <2>1, <2>3 DEF AnswerSnapshotName, TypeOK
    <3> QED
      BY <1>1, <3>1
  <2> QED
    BY <2>2, <2>3
<1>9. CASE Crash
  BY <1>9 DEF Crash, Holds
<1>10. CASE \/ UiDrain \/ UiFrame \/ TransferFlush \/ TransferFlushFails \/ DismissLogError
            \/ Quit \/ ProcessEnds \/ StartRefused \/ StartExisting \/ StartNewEntry
            \/ SortOutByHand \/ UNCHANGED vars
  <2>1. UNCHANGED threads
    BY <1>10 DEF UiDrain, UiFrame, TransferFlush, TransferFlushFails, DismissLogError, Quit,
                 ProcessEnds, StartRefused, StartExisting, StartNewEntry, SortOutByHand, vars
  <2> QED
    BY <1>1, <2>1
<1> QED
  <2>1. \A u \in Threads : u # t /\ (ThreadStep(u) \/ UserStep(u)) => Kept
    BY <1>2
  <2>2. ThreadStep(t) \/ UserStep(t)
          => \/ AskSnapshotName(t) \/ StartCheckTerminal(t) \/ LoseTerminal(t) \/ UnwindDone(t)
             \/ StartSnapshot(t) \/ ReturnToMain(t) \/ CompleteBackupAndExit(t)
             \/ CompleteBackup(t) \/ DropTripwire(t) \/ CheckEnds(t) \/ RenameCheck(t)
             \/ ChooseKeep(t) \/ ChooseRemove(t) \/ RevertLog(t) \/ DestroyNext(t)
             \/ TakeTripwire(t) \/ TakeCheck(t)
    BY DEF ThreadStep, UserStep
  <2>3. CASE \E u \in Threads : ThreadStep(u) \/ UserStep(u)
    <3>1. PICK u \in Threads : ThreadStep(u) \/ UserStep(u)
      BY <2>3
    <3>2. CASE u # t
      BY <2>1, <3>1, <3>2
    <3>3. CASE u = t
      BY <2>2, <3>1, <3>3, <1>3, <1>4, <1>5, <1>6, <1>7
    <3> QED
      BY <3>2, <3>3
  <2> QED
    BY <2>3, <1>8, <1>9, <1>10 DEF Next

LEMMA HeldCurrentNext ==
  TypeOK /\ GuardInv /\ HeldSnapshotsAreCurrent /\ [Next]_vars => HeldSnapshotsAreCurrent'
<1> SUFFICES ASSUME TypeOK, GuardInv, HeldSnapshotsAreCurrent, [Next]_vars,
                    NEW t \in Threads, NEW stage \in Stages, Holds(t, stage)',
                    NEW s \in snaps', Id(s) = <<stage, name'[t]>>
             PROVE  s.entry = entry'
  BY DEF HeldSnapshotsAreCurrent, Id
<1>1. s.stage = stage /\ s.name = name'[t]
  BY DEF Id
<1>2. entry' = entry /\ (s \in snaps \/ s.entry = entry)
  <2>1. ASSUME NEW u \in Threads, DiskStep(u)
        PROVE  entry' = entry /\ (s \in snaps \/ s.entry = entry)
    <3>1. entry' = entry
      BY <2>1 DEF DiskStep, TakeTripwire, TakeCheck, DropTripwire, RenameCheck, RevertLog,
                  DestroyNext, CompleteBackup
    <3>2. CASE TakeTripwire(u) \/ TakeCheck(u)
      BY <3>1, <3>2 DEF TakeTripwire, TakeCheck, Frozen
    <3>3. CASE RenameCheck(u)
      <4>1. \A r \in snaps : [r EXCEPT !.stage = Plain].stage = Plain
        BY DEF TypeOK, Snapshots
      <4> DEFINE Gone == Without(Check, name[u])
                 New == {[r EXCEPT !.stage = Plain] : r \in snaps \ Gone}
      <4>2. snaps' = snaps \/ snaps' = Gone \cup New
        BY <3>3 DEF RenameCheck
      <4>3. Gone \subseteq snaps /\ \A r \in New : r.stage = Plain
        BY <4>1 DEF Without
      <4> HIDE DEF Gone, New
      <4> QED
        BY <1>1, <3>1, <4>2, <4>3
    <3>4. CASE DropTripwire(u) \/ DestroyNext(u)
      BY <3>1, <3>4 DEF DropTripwire, DestroyNext, Without
    <3>5. CASE CompleteBackup(u) \/ RevertLog(u)
      BY <3>1, <3>5 DEF CompleteBackup, RevertLog
    <3>6. \/ TakeTripwire(u) \/ TakeCheck(u) \/ DropTripwire(u) \/ RenameCheck(u)
          \/ DestroyNext(u) \/ CompleteBackup(u) \/ RevertLog(u)
      BY <2>1 DEF DiskStep
    <3> QED
      BY <3>2, <3>3, <3>4, <3>5, <3>6
  <2>2. ~StartNewEntry
    <3> SUFFICES ASSUME StartNewEntry PROVE FALSE
      OBVIOUS
    <3>1. pc'[t] = "idle"
      BY DEF StartNewEntry, GuardInv, OffMeansIdle
    <3> QED
      BY <3>1 DEF Holds
  <2>3. CASE TransferFlush \/ SortOutByHand
    BY <2>3 DEF TransferFlush, SortOutByHand
  <2> QED
    BY <2>1, <2>2, <2>3, OnlyDiskSteps
<1>3. CASE s \in snaps
  <2>1. Holds(t, stage) /\ name'[t] = name[t]
    BY <1>1, <1>3, HoldingNoMore DEF Exists, Id
  <2> QED
    BY <1>1, <1>2, <1>3, <2>1 DEF HeldSnapshotsAreCurrent, Id
<1> QED
  BY <1>2, <1>3

\* In terms of the promise: a log step is a claim or a disclaim, a new snapshot a guard, a
\* destroyed one an unguard at most, and the rename the seal.
LEMMA PromiseInit == Init => Promise!Init
  BY DEF Init, Promise!Init, Sealed, StageTagged

LEMMA PromiseStutters ==
  ASSUME UNCHANGED <<snaps, entry, logDisk>>
  PROVE  UNCHANGED Promise!sealVars
  BY DEF Promise!sealVars, Sealed, StageTagged

LEMMA PromiseGuard ==
  ASSUME NEW n, NEW stage \in Stages,
         snaps' = snaps \cup {Frozen(stage, n)}, UNCHANGED <<entry, logDisk>>
  PROVE  Promise!Guard
<1>1. Sealed' = Sealed
  BY DEF Sealed, Frozen
<1>2. StageTagged' # {}
  <2>1. Frozen(stage, n) \in StageTagged'
    BY DEF StageTagged, Frozen
  <2> QED
    BY <2>1
<1> QED
  BY <1>1, <1>2 DEF Promise!Guard

LEMMA PromiseClaims ==
  ASSUME TypeOK, CompletionIsGuarded', UNCHANGED <<snaps, entry>>, logDisk' \in BOOLEAN
  PROVE  Promise!Claim \/ Promise!Disclaim
<1>1. Sealed' = Sealed /\ StageTagged' = StageTagged
  BY DEF Sealed, StageTagged
<1>2. CASE logDisk' = TRUE
  <2>1. StageTagged # {} \/ entry \in Sealed
    BY <1>1, <1>2 DEF CompletionIsGuarded
  <2> QED
    BY <1>1, <1>2, <2>1 DEF Promise!Claim
<1>3. CASE logDisk' = FALSE
  BY <1>1, <1>3 DEF Promise!Disclaim
<1> QED
  BY <1>2, <1>3

LEMMA PromiseUnguard ==
  ASSUME CompletionIsGuarded', NEW n, NEW stage \in Stages,
         snaps' = Without(stage, n), UNCHANGED <<entry, logDisk>>
  PROVE  [Promise!Unguard]_(Promise!sealVars)
<1>1. Sealed' = Sealed
  BY DEF Sealed, Without, Id
<1>2. StageTagged' \subseteq StageTagged
  BY DEF StageTagged, Without
<1>3. CASE StageTagged' = {}
  <2>1. logDisk => entry \in Sealed
    BY <1>1, <1>3 DEF CompletionIsGuarded
  <2> QED
    BY <1>1, <1>3, <2>1 DEF Promise!Unguard
<1>4. CASE StageTagged' # {}
  BY <1>1, <1>2, <1>4 DEF Promise!sealVars
<1> QED
  BY <1>3, <1>4

LEMMA PromiseSeal ==
  ASSUME TypeOK, GuardInv, HeldSnapshotsAreCurrent, CompletionIsGuarded',
         NEW t \in Threads, RenameCheck(t), snaps' # snaps
  PROVE  [Promise!Next]_(Promise!sealVars)
<1> DEFINE Gone == Without(Check, name[t])
           New == {[x EXCEPT !.stage = Plain] : x \in snaps \ Gone}
<1>1. /\ UNCHANGED <<entry, logDisk>> /\ pc[t] = "rename"
      /\ snaps' = Gone \cup New
  BY DEF RenameCheck
<1>2. PICK s \in snaps : Id(s) = <<Check, name[t]>>
  BY <1>1 DEF GuardInv, HeldSnapshotsExist, Holds, Exists
<1>3. snaps \ Gone = {s}
  BY <1>2 DEF Without, GuardInv, SnapshotIdsAreUnique
<1> DEFINE r == [s EXCEPT !.stage = Plain]
<1>4. s.stage = Check /\ s.entry = entry
  BY <1>1, <1>2 DEF Id, HeldSnapshotsAreCurrent, Holds
<1>5. r.stage = Plain /\ r.entry = entry /\ r.complete = s.complete
  BY <1>4 DEF TypeOK, Snapshots
<1>6. snaps' = Gone \cup {r}
  BY <1>1, <1>3
<1>7. \A x \in snaps : x \in Gone \/ x = s
  BY <1>3
<1>8. Gone \subseteq snaps
  BY DEF Without
<1> HIDE DEF Gone, New, r
<1>9. StageTagged # {} /\ StageTagged' \subseteq StageTagged
  BY <1>4, <1>5, <1>6, <1>8 DEF StageTagged
<1>10. CASE s.complete
  <2>1. Sealed' = Sealed \cup {entry}
    BY <1>4, <1>5, <1>6, <1>7, <1>8, <1>10 DEF Sealed
  <2>2. (StageTagged # {})' \in BOOLEAN
    OBVIOUS
  <2> QED
    BY <1>1, <1>9, <2>1, <2>2 DEF Promise!Next, Promise!Seal
<1>11. CASE ~s.complete
  <2>1. Sealed' = Sealed
    BY <1>4, <1>5, <1>6, <1>7, <1>8, <1>11 DEF Sealed
  <2>2. CASE StageTagged' = {}
    <3>1. logDisk => entry \in Sealed
      BY <1>1, <2>1, <2>2 DEF CompletionIsGuarded
    <3> QED
      BY <1>1, <2>1, <2>2, <3>1 DEF Promise!Next, Promise!Unguard
  <2>3. CASE StageTagged' # {}
    BY <1>1, <1>9, <2>1, <2>3 DEF Promise!sealVars
  <2> QED
    BY <2>2, <2>3
<1> QED
  BY <1>10, <1>11

LEMMA PromiseNext ==
  TypeOK /\ GuardInv /\ HeldSnapshotsAreCurrent /\ CompletionIsGuarded'
    /\ [Next]_vars => [Promise!Next]_(Promise!sealVars)
<1> SUFFICES ASSUME TypeOK, GuardInv, HeldSnapshotsAreCurrent, CompletionIsGuarded',
                    [Next]_vars
             PROVE  [Promise!Next]_(Promise!sealVars)
  OBVIOUS
<1>1. CASE UNCHANGED <<snaps, entry, logDisk>>
  BY <1>1, PromiseStutters
<1>2. ASSUME NEW t \in Threads, TakeTripwire(t) \/ TakeCheck(t)
      PROVE  [Promise!Next]_(Promise!sealVars)
  <2>1. /\ UNCHANGED <<entry, logDisk>>
        /\ snaps' = snaps \/ \E stage \in Stages : snaps' = snaps \cup {Frozen(stage, name[t])}
    BY <1>2 DEF TakeTripwire, TakeCheck
  <2> QED
    BY <2>1, PromiseGuard, PromiseStutters DEF Promise!Next
<1>3. ASSUME NEW t \in Threads, CompleteBackup(t) \/ RevertLog(t)
      PROVE  [Promise!Next]_(Promise!sealVars)
  <2>1. UNCHANGED <<snaps, entry>> /\ logDisk' \in BOOLEAN
    BY <1>3 DEF CompleteBackup, RevertLog, TypeOK
  <2> QED
    BY <2>1, PromiseClaims DEF Promise!Next
<1>4. ASSUME NEW t \in Threads, DropTripwire(t) \/ DestroyNext(t)
      PROVE  [Promise!Next]_(Promise!sealVars)
  <2>1. /\ UNCHANGED <<entry, logDisk>>
        /\ snaps' = snaps \/ \E stage \in Stages : snaps' = Without(stage, name[t])
    BY <1>4 DEF DropTripwire, DestroyNext, TypeOK
  <2> QED
    BY <2>1, PromiseUnguard, PromiseStutters DEF Promise!Next
<1>5. ASSUME NEW t \in Threads, RenameCheck(t) PROVE [Promise!Next]_(Promise!sealVars)
  <2>1. CASE snaps' = snaps
    BY <1>5, <2>1, PromiseStutters DEF RenameCheck
  <2> QED
    BY <1>5, <2>1, PromiseSeal
<1>6. CASE TransferFlush
  <2>1. UNCHANGED <<snaps, entry>> /\ logDisk' \in BOOLEAN
    BY <1>6 DEF TransferFlush, TypeOK
  <2> QED
    BY <2>1, PromiseClaims DEF Promise!Next
<1>7. CASE StartNewEntry
  <2>1. Sealed' = Sealed /\ StageTagged' = StageTagged
    BY <1>7 DEF StartNewEntry, Sealed, StageTagged
  <2> QED
    BY <1>7, <2>1 DEF StartNewEntry, Promise!Next, Promise!OpenNext
<1>8. CASE SortOutByHand
  <2>1. Sealed' = Sealed /\ StageTagged' = {}
    BY <1>8 DEF SortOutByHand, Sealed, StageTagged
  <2>2. CASE StageTagged # {}
    BY <1>8, <2>1, <2>2 DEF SortOutByHand, Promise!Next, Promise!Repair
  <2>3. CASE StageTagged = {}
    <3>1. logDisk' = logDisk \/ logDisk' = FALSE
      BY <1>8 DEF SortOutByHand, TypeOK
    <3> QED
      BY <1>8, <2>1, <2>3, <3>1
         DEF SortOutByHand, Promise!Next, Promise!Disclaim, Promise!sealVars
  <2> QED
    BY <2>2, <2>3
<1> QED
  BY <1>1, <1>2, <1>3, <1>4, <1>5, <1>6, <1>7, <1>8, OnlyDiskSteps DEF DiskStep

\* The workflow implements the protocol its documentation states: every step of any number
\* of runs, its failures and its crashes included, is a step of BackupSeal or a stutter.
THEOREM KeepsThePromise == Spec => ImplementsPromise
<1>1. Init => HeldSnapshotsAreCurrent
  BY DEF Init, HeldSnapshotsAreCurrent
<1>2. Spec => []HeldSnapshotsAreCurrent
  BY <1>1, HeldCurrentNext, GuardInvariant, PTL DEF Spec
<1> QED
  BY <1>2, PromiseInit, PromiseNext, GuardInvariant, CompletionGuarded, PTL
     DEF Spec, ImplementsPromise, Promise!Spec

-----------------------------------------------------------------------------
(* One run at a time *)

LEMMA OneRunInit == Init => OneRunInv
  BY DEF Init, OneRunInv, CompletionStands, PlainSnapshotsSayComplete

\* A step that leaves dataset, log and names alone, and brings no thread further than the
\* check, keeps what stands.
LEMMA OneRunStays ==
  ASSUME OneRunInv, UNCHANGED <<snaps, entry>>, logMem => logMem', logDisk => logDisk',
         \A u \in Threads :
             \/ pc'[u] = pc[u] /\ name'[u] = name[u]
             \/ pc'[u] \notin {"check", "drop", "checking", "decide", "rename", "completed"}
             \/ /\ pc[u] \in {"checking", "decide"} /\ name'[u] = name[u]
                /\ pc'[u] \in {"checking", "decide", "rename"}
  PROVE  OneRunInv'
<1>1. Sealed' = Sealed /\ PlainSnapshotsSayComplete'
  BY DEF Sealed, OneRunInv, PlainSnapshotsSayComplete
<1>2. CompletionStands'
  <2> SUFFICES ASSUME NEW u \in Threads,
                      pc'[u] \in {"check", "drop", "checking", "decide", "rename", "completed"}
               PROVE  /\ logMem' /\ logDisk'
                      /\ pc'[u] \in {"drop", "checking", "decide", "rename"}
                           => \A s \in snaps : Id(s) = <<Check, name'[u]>> => s.complete
                      /\ pc'[u] = "completed" => entry \in Sealed
    BY <1>1 DEF CompletionStands, Id
  <2> QED
    BY DEF OneRunInv, CompletionStands
<1> QED
  BY <1>1, <1>2 DEF OneRunInv

LEMMA OneRunNext ==
  ASSUME OneRunAtATime, TypeOK, GuardInv, HeldSnapshotsAreCurrent, OneRunInv, [Next]_vars
  PROVE  OneRunInv'
<1>1. ASSUME NEW t \in Threads,
             \/ AskSnapshotName(t) \/ StartCheckTerminal(t) \/ CheckEnds(t) \/ LoseTerminal(t)
             \/ UnwindDone(t) \/ StartSnapshot(t) \/ ChooseKeep(t) \/ ChooseRemove(t)
             \/ ReturnToMain(t) \/ CompleteBackupAndExit(t)
      PROVE  OneRunInv'
  <2>1. \A u \in Threads : u = t
    BY DEF OneRunAtATime
  <2>2. UNCHANGED <<snaps, entry, logMem, logDisk, name>>
    BY <1>1 DEF AskSnapshotName, StartCheckTerminal, CheckEnds, LoseTerminal, UnwindDone,
          StartSnapshot, ChooseKeep, ChooseRemove, ReturnToMain, CompleteBackupAndExit
  <2>3. CASE CheckEnds(t) \/ ChooseKeep(t)
    <3>1. pc[t] \in {"checking", "decide"} /\ pc'[t] \in {"rename", "decide"}
      BY <2>3 DEF CheckEnds, ChooseKeep, TypeOK
    <3> QED
      BY <2>1, <2>2, <3>1, OneRunStays
  <2>4. CASE ~(CheckEnds(t) \/ ChooseKeep(t))
    <3>1. pc'[t] \in {"asking", "tripwire", "idle", "returning", "requested", "revert"}
      BY <1>1, <2>4 DEF AskSnapshotName, StartCheckTerminal, LoseTerminal, UnwindDone,
            StartSnapshot, ChooseRemove, ReturnToMain, CompleteBackupAndExit, UnwindOf, TypeOK
    <3> QED
      BY <2>1, <2>2, <3>1, OneRunStays
  <2> QED
    BY <2>3, <2>4
<1>2. ASSUME NEW t \in Threads, TakeTripwire(t) \/ TakeCheck(t) PROVE OneRunInv'
  <2>1. \A u \in Threads : u = t
    BY DEF OneRunAtATime
  <2>2. UNCHANGED <<entry, logMem, logDisk, name>>
    BY <1>2 DEF TakeTripwire, TakeCheck
  <2>3. CASE TakeTripwire(t)
    <3>1. pc'[t] \in {"complete", "returning"}
      BY <2>3 DEF TakeTripwire, TypeOK
    <3>2. PlainSnapshotsSayComplete'
      BY <2>3 DEF TakeTripwire, Frozen, OneRunInv, PlainSnapshotsSayComplete
    <3> QED
      BY <2>1, <3>1, <3>2 DEF OneRunInv, CompletionStands
  <2>4. CASE TakeCheck(t)
    <3>1. pc[t] = "check" /\ logMem /\ logDisk /\ pc'[t] \in {"drop", "revert"}
      BY <2>4 DEF TakeCheck, UnwindOf, TypeOK, OneRunInv, CompletionStands
    <3>2. PlainSnapshotsSayComplete'
      BY <2>4 DEF TakeCheck, Frozen, OneRunInv, PlainSnapshotsSayComplete
    <3>3. ASSUME pc'[t] = "drop", NEW s \in snaps', Id(s) = <<Check, name[t]>>
          PROVE  s.complete
      <4>1. ~Exists(Check, name[t]) /\ snaps' = snaps \cup {Frozen(Check, name[t])}
        BY <2>4, <3>3 DEF TakeCheck, UnwindOf, TypeOK
      <4>2. s = Frozen(Check, name[t])
        BY <3>3, <4>1 DEF Exists
      <4> QED
        BY <3>1, <4>2 DEF Frozen
    <3> QED
      BY <2>1, <2>2, <3>1, <3>2, <3>3 DEF OneRunInv, CompletionStands, Id
  <2> QED
    BY <1>2, <2>3, <2>4
<1>3. ASSUME NEW t \in Threads, CompleteBackup(t) PROVE OneRunInv'
  <2>1. \A u \in Threads : u = t
    BY DEF OneRunAtATime
  <2>2. UNCHANGED <<snaps, name>> /\ logMem'
    BY <1>3 DEF CompleteBackup
  <2>3. (pc'[t] = "check" /\ logDisk') \/ pc'[t] = "revert"
    BY <1>3 DEF CompleteBackup, UnwindOf, TypeOK
  <2>4. PlainSnapshotsSayComplete'
    BY <2>2 DEF OneRunInv, PlainSnapshotsSayComplete
  <2> QED
    BY <2>1, <2>2, <2>3, <2>4 DEF OneRunInv, CompletionStands
<1>4. ASSUME NEW t \in Threads, DropTripwire(t) PROVE OneRunInv'
  <2>1. \A u \in Threads : u = t
    BY DEF OneRunAtATime
  <2>2. UNCHANGED <<entry, logMem, logDisk, name>> /\ snaps' \subseteq snaps
    BY <1>4 DEF DropTripwire, Without
  <2>3. pc[t] = "drop" /\ pc'[t] \in {"checking", "revert"}
    BY <1>4 DEF DropTripwire, UnwindOf, TypeOK
  <2>4. PlainSnapshotsSayComplete'
    BY <2>2 DEF OneRunInv, PlainSnapshotsSayComplete
  <2>5. pc'[t] = "checking" => /\ logMem' /\ logDisk'
                               /\ \A s \in snaps' : Id(s) = <<Check, name'[t]>> => s.complete
    BY <2>2, <2>3 DEF OneRunInv, CompletionStands
  <2> QED
    BY <2>1, <2>3, <2>4, <2>5 DEF OneRunInv, CompletionStands, Id
<1>5. ASSUME NEW t \in Threads, RenameCheck(t) PROVE OneRunInv'
  <2>1. \A u \in Threads : u = t
    BY DEF OneRunAtATime
  <2>2. UNCHANGED <<entry, logMem, logDisk, name>> /\ pc[t] = "rename"
    BY <1>5 DEF RenameCheck
  <2>3. CASE pc'[t] = "completed"
    <3> DEFINE Gone == Without(Check, name[t])
               New == {[x EXCEPT !.stage = Plain] : x \in snaps \ Gone}
    <3>1. Exists(Check, name[t]) /\ snaps' = Gone \cup New
      BY <1>5, <2>3 DEF RenameCheck, UnwindOf, TypeOK
    <3>2. ASSUME NEW x \in snaps \ Gone
          PROVE  LET r == [x EXCEPT !.stage = Plain]
                 IN  r.stage = Plain /\ r.entry = entry /\ r.complete
      <4>1. Id(x) = <<Check, name[t]>>
        BY DEF Without
      <4>2. x.complete /\ x.entry = entry
        BY <2>2, <4>1 DEF OneRunInv, CompletionStands, HeldSnapshotsAreCurrent, Holds
      <4> QED
        BY <4>2 DEF TypeOK, Snapshots
    <3>3. \A r \in New : r.stage = Plain /\ r.entry = entry /\ r.complete
      BY <3>2
    <3>4. New # {}
      BY <3>1 DEF Exists, Without
    <3>5. Gone \subseteq snaps
      BY DEF Without
    <3> HIDE DEF Gone, New
    <3>6. PlainSnapshotsSayComplete'
      BY <3>1, <3>3, <3>5 DEF OneRunInv, PlainSnapshotsSayComplete
    <3>7. entry \in Sealed'
      BY <3>1, <3>3, <3>4 DEF Sealed
    <3>8. logMem' /\ logDisk'
      BY <2>2 DEF OneRunInv, CompletionStands
    <3> QED
      BY <2>1, <2>2, <2>3, <3>6, <3>7, <3>8 DEF OneRunInv, CompletionStands
  <2>4. CASE pc'[t] # "completed"
    <3>1. snaps' = snaps /\ pc'[t] = "revert"
      BY <1>5, <2>4 DEF RenameCheck, UnwindOf, TypeOK
    <3> QED
      BY <2>1, <2>2, <3>1, OneRunStays
  <2> QED
    BY <2>3, <2>4
<1>6. ASSUME NEW t \in Threads, RevertLog(t) \/ DestroyNext(t) PROVE OneRunInv'
  <2>1. \A u \in Threads : u = t
    BY DEF OneRunAtATime
  <2>2. pc'[t] \in {"destroy", "returning"} /\ snaps' \subseteq snaps
    BY <1>6 DEF RevertLog, DestroyNext, Without, TypeOK
  <2>3. PlainSnapshotsSayComplete'
    BY <2>2 DEF OneRunInv, PlainSnapshotsSayComplete
  <2> QED
    BY <2>1, <2>2, <2>3 DEF OneRunInv, CompletionStands
<1>7. CASE AnswerSnapshotName
  <2>1. UNCHANGED <<snaps, entry, logMem, logDisk>> /\ Head(queries) \in Threads
    BY <1>7 DEF AnswerSnapshotName, KeyOfQuery, TypeOK
  <2>2. pc'[Head(queries)] \in {"idle", "named"}
    BY <1>7, <2>1 DEF AnswerSnapshotName, TypeOK
  <2>3. \A u \in Threads : u = Head(queries)
    BY <2>1 DEF OneRunAtATime
  <2> QED
    BY <2>1, <2>2, <2>3, OneRunStays
<1>8. CASE TransferFlush
  <2>1. UNCHANGED <<snaps, entry, logMem, threads>> /\ logDisk' = logMem
    BY <1>8 DEF TransferFlush
  <2>2. Sealed' = Sealed
    BY <2>1 DEF Sealed
  <2> QED
    BY <2>1, <2>2 DEF OneRunInv, CompletionStands, PlainSnapshotsSayComplete, Id
<1>9. CASE \/ UiDrain \/ UiFrame \/ TransferFlushFails \/ DismissLogError \/ Quit
           \/ StartRefused \/ UNCHANGED vars
  <2>1. UNCHANGED <<snaps, entry, logMem, logDisk, pc, name>>
    BY <1>9 DEF UiDrain, UiFrame, TransferFlushFails, DismissLogError, Quit, StartRefused, vars
  <2> QED
    BY <2>1, OneRunStays
<1>10. CASE ProcessEnds \/ Crash \/ StartExisting \/ StartNewEntry \/ SortOutByHand
  <2>1. \A u \in Threads : pc'[u] = "idle"
    BY <1>10 DEF ProcessEnds, Crash, StartExisting, StartNewEntry, SortOutByHand, GuardInv,
          OffMeansIdle
  <2>2. snaps' \subseteq snaps
    BY <1>10 DEF ProcessEnds, Crash, StartExisting, StartNewEntry, SortOutByHand
  <2>3. PlainSnapshotsSayComplete'
    BY <2>2 DEF OneRunInv, PlainSnapshotsSayComplete
  <2> QED
    BY <2>1, <2>3 DEF OneRunInv, CompletionStands
<1> QED
  BY <1>1, <1>2, <1>3, <1>4, <1>5, <1>6, <1>7, <1>8, <1>9, <1>10
     DEF Next, ThreadStep, UserStep

LEMMA OneRunInvariant == OneRunAtATime => (Spec => []OneRunInv)
<1> SUFFICES ASSUME OneRunAtATime PROVE Spec => []OneRunInv
  OBVIOUS
<1>1. Init => HeldSnapshotsAreCurrent
  BY DEF Init, HeldSnapshotsAreCurrent
<1>2. TypeOK /\ GuardInv /\ HeldSnapshotsAreCurrent /\ OneRunInv /\ [Next]_vars => OneRunInv'
  BY OneRunNext
<1> QED
  BY <1>1, <1>2, OneRunInit, HeldCurrentNext, GuardInvariant, PTL DEF Spec

\* zfs_specific.rs:37: as long as runs do not overlap, every plain-named snapshot says
\* complete, whatever fails or is skipped and whoever flushes the log meanwhile.
THEOREM PlainSnapshotsComplete ==
  ASSUME OneRunAtATime PROVE Spec => []PlainSnapshotsSayComplete
<1>1. OneRunInv => PlainSnapshotsSayComplete
  BY DEF OneRunInv
<1> QED
  BY <1>1, OneRunInvariant, PTL

\* snapshot_logic.rs:411: as long as runs do not overlap, "Complete backup and exit" is only
\* offered over a log that says complete and a snapshot that carries it.
THEOREM ExitOfferedSealed ==
  ASSUME OneRunAtATime PROVE Spec => []ExitOfferedWhenSealed
<1>1. OneRunInv => ExitOfferedWhenSealed
  BY DEF OneRunInv, CompletionStands, ExitOfferedWhenSealed
<1> QED
  BY <1>1, OneRunInvariant, PTL
=============================================================================
