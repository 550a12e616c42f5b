---------------------------- MODULE CardMoveProofs ----------------------------
(***************************************************************************)
(* Proofs about CardMove, for any card tree, any cards plugged in, any     *)
(* number of transfers and of stops.                                       *)
(***************************************************************************)
EXTENDS CardMove, FiniteSetTheorems, SequenceTheorems, TLAPS

USE DEF Goto, Up, Runs

-----------------------------------------------------------------------------
(* Lists of records *)

\* A new sample or outcome makes a list of records of the same length.
LEMMA UpdatedRecords ==
  ASSUME NEW records \in Seq(Records), NEW d \in CardDirs
  PROVE  /\ \A bytes \in Nat : WithSample(records, d, bytes) \in Seq(Records)
         /\ \A result \in {"open", "succeeded", "failed"} :
               WithOutcome(records, d, result) \in Seq(Records)
<1>1. Len(records) \in Nat /\ DOMAIN records = 1..Len(records)
  OBVIOUS
<1>2. \A i \in 1..Len(records) : records[i] \in Records
  OBVIOUS
<1>3. ASSUME NEW bytes \in Nat PROVE WithSample(records, d, bytes) \in Seq(Records)
  <2>1. \A i \in 1..Len(records) : [records[i] EXCEPT !.last = bytes] \in Records
    BY <1>2 DEF Records
  <2>2. WithSample(records, d, bytes) =
          [i \in 1..Len(records) |-> IF IsFirst(records, i, d)
              THEN [records[i] EXCEPT !.last = bytes] ELSE records[i]]
    BY <1>1 DEF WithSample
  <2> QED
    BY <1>1, <1>2, <2>1, <2>2, IsASeq
<1>4. ASSUME NEW result \in {"open", "succeeded", "failed"}
      PROVE  WithOutcome(records, d, result) \in Seq(Records)
  <2>1. \A i \in 1..Len(records) : [records[i] EXCEPT !.outcome = result] \in Records
    BY <1>2 DEF Records
  <2>2. WithOutcome(records, d, result) =
          [i \in 1..Len(records) |-> IF IsFirst(records, i, d)
              THEN [records[i] EXCEPT !.outcome = result] ELSE records[i]]
    BY <1>1 DEF WithOutcome
  <2> QED
    BY <1>1, <1>2, <2>1, <2>2, IsASeq
<1> QED
  BY <1>3, <1>4

-----------------------------------------------------------------------------
(* Type correctness *)

\* The copies in a card directory can be counted.
FiniteCopies == \A d \in CardDirs : IsFiniteSet(dest[d])

\* What is written as the outcome of a move is one.
OutcomeKnown == \A t \in Transfers : pc[t] = "finalizing" => outcome[t] # "none"

TypeInv == TypeOK /\ FiniteCopies /\ OutcomeKnown /\ LeftInv

LEMMA TypeInit == Init => TypeInv
<1> SUFFICES ASSUME Init PROVE TypeInv
  OBVIOUS
<1>1. TypeOK
  BY CardsAssumption, TreeAssumption DEF CardsAssumption, TreeAssumption, Init, TypeOK, Steps
<1>2. FiniteCopies
  BY FS_EmptySet DEF Init, FiniteCopies
<1>3. OutcomeKnown /\ LeftInv
  BY DEF Init, OutcomeKnown, LeftInv
<1> QED
  BY <1>1, <1>2, <1>3 DEF TypeInv

\* What is measured is a number.
LEMMA Measured ==
  ASSUME TypeInv
  PROVE  /\ \A entries : Cardinality(FilesOf(entries)) \in Nat
         /\ \A d \in CardDirs : BytesIn(d) \in Nat
<1>1. \A entries : IsFiniteSet(FilesOf(entries))
  <2>1. \A entries : FilesOf(entries) \subseteq Nodes
    BY TreeAssumption DEF TreeAssumption, FilesOf
  <2> QED
    BY <2>1, TreeAssumption, FS_Subset DEF TreeAssumption
<1>2. \A d \in CardDirs : IsFiniteSet(WholeIn(d))
  <2>1. \A d \in CardDirs : WholeIn(d) \subseteq dest[d]
    BY DEF WholeIn
  <2> QED
    BY <2>1, FS_Subset DEF TypeInv, FiniteCopies
<1> QED
  BY <1>1, <1>2, FS_CardinalityType DEF BytesIn

LEMMA TypeMount ==
  TypeInv /\ (MountStep \/ Crash \/ Restart) => TypeInv'
<1> SUFFICES ASSUME TypeInv, MountStep \/ Crash \/ Restart PROVE TypeInv'
  OBVIOUS
<1> USE TreeAssumption DEF TypeInv, TypeOK, TreeAssumption, log, planning, moving
<1>1. CASE LoadConfig
  <2>1. overrides' \subseteq Nodes \cup {WholeCard}
    <3>1. \A entry \in ConfigRead.entries : EntryOverrides(entry, card) \subseteq Nodes \cup {WholeCard}
      BY DEF EntryOverrides
    <3>2. Overrides(ConfigRead, card) \subseteq Nodes \cup {WholeCard}
      BY <3>1 DEF Overrides
    <3> QED
      BY <1>1, <3>2 DEF LoadConfig, EffectiveOverrides
  <2> QED
    BY <1>1, <2>1 DEF LoadConfig, FiniteCopies, OutcomeKnown, LeftInv
<1>2. CASE DismissConfigError \/ Replug
  BY <1>2 DEF DismissConfigError, Replug, FiniteCopies, OutcomeKnown, LeftInv
<1>3. ASSUME NEW t \in Transfers, NEW o \in overrides, SpawnTransfer(t, o) PROVE TypeInv'
  BY <1>3, WholeCardAssumption DEF SpawnTransfer, FiniteCopies, OutcomeKnown, LeftInv, Steps, WholeCardAssumption
<1>4. CASE Crash
  BY <1>4 DEF Crash, FiniteCopies, OutcomeKnown, LeftInv, Steps
<1>5. CASE Restart
  BY <1>5 DEF Restart, FiniteCopies, OutcomeKnown, LeftInv
<1> QED
  BY <1>1, <1>2, <1>3, <1>4, <1>5 DEF MountStep

LEMMA TypeThread ==
  ASSUME TypeInv, NEW t \in Transfers, UserStep(t) \/ ThreadStep(t) PROVE TypeInv'
<1> USE TreeAssumption, TransfersAssumption
    DEF TypeInv, TypeOK, TreeAssumption, TransfersAssumption, log, planning, moving, mounting
<1>1. CASE Approve(t)
  BY <1>1, EditsAssumption DEF Approve, FiniteCopies, OutcomeKnown, LeftInv, Steps, EditsAssumption
<1>2. CASE \/ Deny(t) \/ Unfit(t) \/ CancelEmpty(t) \/ ProceedEmpty(t)
           \/ DismissError(t) \/ DismissLogError(t)
  BY <1>2 DEF Deny, Unfit, CancelEmpty, ProceedEmpty, DismissError, DismissLogError, FiniteCopies, OutcomeKnown, LeftInv, Steps
<1>3. CASE PlanMove(t)
  <2>1. Entries(input[t]) \subseteq Nodes
    BY DEF Entries
  <2>2. CASE input[t] \in card /\ plan' = [plan EXCEPT ![t] = Entries(input[t])]
    <3>1. Cardinality(FilesOf(Entries(input[t]))) \in Nat
      BY Measured
    <3>2. total' \in [Transfers -> Nat] /\ plan' \in [Transfers -> SUBSET Nodes]
      BY <1>3, <2>1, <2>2, <3>1 DEF PlanMove
    <3>3. pc' \in [Transfers -> Steps] /\ pc'[t] # "finalizing"
          /\ \A u \in Transfers \ {t} : pc'[u] = pc[u]
      BY <1>3 DEF PlanMove, Steps
    <3>4. outcome' \in [Transfers -> {"none", "succeeded", "failed"}]
          /\ \A u \in Transfers \ {t} : outcome'[u] = outcome[u]
      BY <1>3 DEF PlanMove
    <3> QED
      BY <1>3, <3>2, <3>3, <3>4 DEF PlanMove, FiniteCopies, OutcomeKnown, LeftInv
  <2>3. CASE outcome' = [outcome EXCEPT ![t] = "failed"] /\ UNCHANGED <<plan, total>>
    BY <1>3, <2>3 DEF PlanMove, FiniteCopies, OutcomeKnown, LeftInv, Steps
  <2> QED
    BY <1>3, <2>2, <2>3 DEF PlanMove
<1>4. CASE Record(t)
  <2>1. NewRecord(t) \in Records
    BY DEF NewRecord, Records
  <2>2. Append(mem, NewRecord(t)) \in Seq(Records)
    BY <2>1
  <2>3. mem' \in Seq(Records) /\ disk' \in Seq(Records)
    BY <1>4, <2>2 DEF Record
  <2>4. pc' \in [Transfers -> Steps]
        /\ \A u \in Transfers :
              pc'[u] = "finalizing" => (u = t /\ outcome[t] = "failed") \/ pc[u] = "finalizing"
    BY <1>4 DEF Record, Steps
  <2>5. mv' \in [Transfers -> {"none", "running", "failing", "ok", "failed"}]
        /\ todo' \in [Transfers -> SUBSET Nodes]
    <3>1. StartMv(t) \/ UNCHANGED <<mv, todo>>
      BY <1>4 DEF Record
    <3> QED
      BY <3>1 DEF StartMv
  <2> QED
    BY <1>4, <2>3, <2>4, <2>5 DEF Record, FiniteCopies, OutcomeKnown, LeftInv
<1>5. CASE TakeResult(t)
  <2>1. (IF plan[t] = {} THEN total[t] ELSE BytesIn(CardOf[t])) \in Nat
    BY Measured
  <2>2. mem' \in Seq(Records)
    BY <1>5, <2>1, UpdatedRecords DEF TakeResult
  <2> QED
    BY <1>5, <2>2 DEF TakeResult, Flush, FiniteCopies, OutcomeKnown, LeftInv, Steps
<1>6. CASE Finalize(t)
  <2>1. mem' \in Seq(Records)
    BY <1>6, UpdatedRecords DEF Finalize, OutcomeKnown
  <2> QED
    BY <1>6, <2>1 DEF Finalize, Flush, FiniteCopies, OutcomeKnown, LeftInv, Steps
<1> QED
  BY <1>1, <1>2, <1>3, <1>4, <1>5, <1>6 DEF UserStep, ThreadStep

\* An mv only changes the card, its card directory, its own state and marks.
LEMMA TypeMv ==
  ASSUME TypeInv, NEW t \in Transfers, MvStep(t) PROVE TypeInv'
<1> DEFINE d == CardOf[t]
<1>1. d \in CardDirs
  BY TransfersAssumption DEF TransfersAssumption
<1>2. dest[d] \subseteq Copies /\ IsFiniteSet(dest[d]) /\ card \subseteq Nodes
      /\ dest \in [CardDirs -> SUBSET Copies] /\ todo \in [Transfers -> SUBSET Nodes]
      /\ mv \in [Transfers -> {"none", "running", "failing", "ok", "failed"}]
      /\ left \in [Transfers -> SUBSET Files] /\ at \in [Transfers -> Nodes \cup {NoNode}]
  BY <1>1 DEF TypeInv, TypeOK, FiniteCopies
<1>3. MvUnchanged
  BY DEF MvStep, MvEntry, MvCopy, MvRemove, MvGiveUp, MvEnds, MvDies
<1>4. card' \subseteq Nodes
  BY <1>2 DEF MvStep, MvEntry, MvCopy, MvRemove, MvGiveUp, MvEnds, MvDies, Stopped
<1>5. mv' \in [Transfers -> {"none", "running", "failing", "ok", "failed"}]
  <2>1. \E s \in {"failing", "ok", "failed"} : mv' = [mv EXCEPT ![t] = s] \/ mv' = mv
    BY <1>2 DEF MvStep, MvEntry, MvCopy, MvRemove, MvGiveUp, MvEnds, MvDies
  <2> QED
    BY <1>2, <2>1
<1>6. todo' \in [Transfers -> SUBSET Nodes]
  <2>1. \E r \in SUBSET Nodes : todo' = [todo EXCEPT ![t] = r] \/ todo' = todo
    BY <1>2 DEF MvStep, MvEntry, MvCopy, MvRemove, MvGiveUp, MvEnds, MvDies
  <2> QED
    BY <1>2, <2>1
<1>7. left' \in [Transfers -> SUBSET Files]
  <2>1. \A e : FilesOf({e}) \subseteq Files
    BY DEF FilesOf
  <2>2. \E r \in SUBSET Files : left' = [left EXCEPT ![t] = r] \/ left' = left
    BY <1>2, <2>1 DEF MvStep, MvEntry, MvCopy, MvRemove, MvGiveUp, MvEnds, MvDies, Stopped
  <2> QED
    BY <1>2, <2>2
<1>8. at' \in [Transfers -> Nodes \cup {NoNode}]
  <2>1. \E e \in Nodes \cup {NoNode} : at' = [at EXCEPT ![t] = e] \/ at' = at
    BY <1>2 DEF MvStep, MvEntry, MvCopy, MvRemove, MvGiveUp, MvEnds, MvDies, Stopped
  <2> QED
    BY <1>2, <2>1
<1>9. LeftInv'
  <2>1. \A u \in Transfers : u # t => at'[u] = at[u] /\ left'[u] = left[u]
    BY <1>2 DEF MvStep, MvEntry, MvCopy, MvRemove, MvGiveUp, MvEnds, MvDies, Stopped
  <2>2. at'[t] = NoNode => left'[t] = {}
    BY <1>2, NoNodeAssumption
    DEF MvStep, MvEntry, MvCopy, MvRemove, MvGiveUp, MvEnds, MvDies, Stopped, TypeInv, LeftInv,
        NoNodeAssumption
  <2> QED
    BY <2>1, <2>2 DEF TypeInv, LeftInv
<1>10. \/ dest' = dest
       \/ \E copies \in SUBSET Copies : IsFiniteSet(copies) /\ dest' = [dest EXCEPT ![d] = copies]
  <2>1. ASSUME NEW e \in Nodes, MvEntry(t, e) PROVE <1>10!1 \/ <1>10!2
    <3>1. dest[d] \ InTheWay(t, e) \subseteq dest[d]
      OBVIOUS
    <3>2. IsFiniteSet(dest[d] \ InTheWay(t, e))
      BY <1>2, <3>1, FS_Subset
    <3>3. dest' = [dest EXCEPT ![d] = dest[d] \ InTheWay(t, e)] \/ dest' = dest
      BY <2>1 DEF MvEntry
    <3> QED
      BY <1>2, <3>1, <3>2, <3>3
  <2>2. ASSUME NEW f \in left[t], NEW whole \in BOOLEAN
        PROVE  LET copies == dest[d] \cup {Copy(t, f, whole)}
               IN  copies \in SUBSET Copies /\ IsFiniteSet(copies)
    <3>1. at[t] \in Nodes /\ f \in Files
      BY <1>2 DEF TypeInv, LeftInv
    <3>2. Copy(t, f, whole) \in Copies
      BY <3>1 DEF Copy, Copies
    <3> QED
      BY <1>2, <3>2, FS_AddElement
  <2>3. CASE \E f \in Files : MvCopy(t, f)
    <3>1. PICK f \in left[t] : \/ dest' = [dest EXCEPT ![d] = dest[d] \cup {Copy(t, f, TRUE)}]
                               \/ dest' = dest
      BY <2>3 DEF MvCopy
    <3> QED
      BY <2>2, <3>1
  <2>4. CASE MvGiveUp(t) \/ MvDies(t)
    <3>1. CASE dest' = dest
      BY <3>1
    <3>2. CASE dest' # dest
      <4>1. PICK f \in left[t] : dest' = [dest EXCEPT ![d] = dest[d] \cup {Copy(t, f, FALSE)}]
        BY <2>4, <3>2 DEF MvGiveUp, MvDies, Stopped
      <4> QED
        BY <2>2, <4>1
    <3> QED
      BY <3>1, <3>2
  <2>5. CASE MvRemove(t) \/ MvEnds(t)
    BY <2>5 DEF MvRemove, MvEnds
  <2> QED
    BY <2>1, <2>3, <2>4, <2>5 DEF MvStep
<1>11. dest' \in [CardDirs -> SUBSET Copies] /\ FiniteCopies'
  BY <1>1, <1>2, <1>10 DEF TypeInv, FiniteCopies
<1> QED
  BY <1>3, <1>4, <1>5, <1>6, <1>7, <1>8, <1>9, <1>11
  DEF TypeInv, TypeOK, OutcomeKnown, MvUnchanged, log, mounting, planning

\* The type invariant is kept by every step.
LEMMA TypeNext == TypeInv /\ [Next]_vars => TypeInv'
<1> SUFFICES ASSUME TypeInv, [Next]_vars PROVE TypeInv'
  OBVIOUS
<1>1. CASE UNCHANGED vars
  BY <1>1 DEF vars, TypeInv, TypeOK, FiniteCopies, OutcomeKnown, LeftInv
<1> QED
  BY <1>1, TypeMount, TypeThread, TypeMv DEF Next

\* Every variable has its type, whatever the tree, the configurations and the transfers are.
THEOREM TypeCorrect == Spec => []TypeOK
<1>1. TypeInv => TypeOK
  BY DEF TypeInv
<1> QED
  BY <1>1, TypeInit, TypeNext, PTL DEF Spec

-----------------------------------------------------------------------------
(* Plans, arguments of mv, and the configuration file *)

BaseInv == TypeInv /\ PlanInv /\ ArgumentsInv /\ ConfigInv

LEMMA BaseInit == Init => BaseInv
<1> SUFFICES ASSUME Init PROVE BaseInv
  OBVIOUS
<1>1. PlanInv
  BY TreeAssumption DEF TreeAssumption, Init, PlanInv
<1>2. ArgumentsInv
  BY DEF Init, ArgumentsInv
<1>3. ConfigInv
  BY CardsAssumption DEF CardsAssumption, Init, ConfigInv
<1> QED
  BY <1>1, <1>2, <1>3, TypeInit DEF BaseInv

\* No planned entry holds the configuration file, unless it is that very file.
LEMMA PlannedEntries ==
  ASSUME NEW n \in Nodes, TypeInv
  PROVE  /\ \E m \in Nodes : Entries(n) \subseteq Children[m] \/ Entries(n) = {m}
         /\ \A e \in Entries(n) : ConfigFile \in Under[e] => n = ConfigFile
<1> USE TreeAssumption, ConfigFileAssumption DEF TreeAssumption, ConfigFileAssumption
<1>1. CASE n \in Files
  BY <1>1 DEF Entries
<1>2. CASE n \notin Files
  <2>1. Entries(n) \subseteq Children[n] \cap Nodes
    BY <1>2 DEF Entries, TypeInv, TypeOK
  <2>2. \A e \in Entries(n) : ConfigFile \notin Under[e]
    <3>1. SUFFICES ASSUME NEW e \in Entries(n), ConfigFile \in Under[e] PROVE FALSE
      OBVIOUS
    <3>2. e \in {Root, ConfigFile} /\ e \in Children[n]
      BY <2>1, <3>1
    <3>3. n = Root
      BY <3>2
    <3>4. e # ConfigFile
      BY <1>2, <3>1, <3>3 DEF Entries
    <3> QED
      BY <3>2, <3>3, <3>4
  <2> QED
    BY <2>1, <2>2
<1> QED
  BY <1>1, <1>2

\* PlanInv is about the plan of a transfer, its input and its step.
LEMMA PlanNext == BaseInv /\ [Next]_vars => PlanInv'
<1> SUFFICES ASSUME BaseInv, [Next]_vars PROVE PlanInv'
  OBVIOUS
<1> USE DEF BaseInv, TypeInv
<1>1. CASE UNCHANGED <<plan, input, pc>>
  BY <1>1 DEF PlanInv
<1>2. ASSUME NEW t \in Transfers, NEW step \in Steps \ {"unborn", "asking", "approved"},
             Goto(t, step), UNCHANGED <<plan, input>>
      PROVE  PlanInv'
  BY <1>2 DEF PlanInv, TypeOK
<1>3. ASSUME NEW t \in Transfers, NEW o \in overrides, SpawnTransfer(t, o) PROVE PlanInv'
  BY <1>3 DEF SpawnTransfer, PlanInv, TypeOK
<1>4. ASSUME NEW t \in Transfers, Approve(t) PROVE PlanInv'
  BY <1>4 DEF Approve, PlanInv, TypeOK
<1>5. ASSUME NEW t \in Transfers, PlanMove(t) PROVE PlanInv'
  <2>1. CASE plan' = [plan EXCEPT ![t] = Entries(input[t])]
    <3>1. \A u \in Transfers \ {t} : plan'[u] = plan[u] /\ pc'[u] = pc[u]
      BY <1>5, <2>1 DEF PlanMove, TypeOK
    <3>2. plan'[t] = Entries(input[t]) /\ pc'[t] \in {"warned", "recording"} /\ input' = input
      BY <1>5, <2>1 DEF PlanMove, TypeOK, planning
    <3>3. input[t] \in Nodes
      BY DEF TypeOK
    <3> QED
      BY <3>1, <3>2, <3>3, PlannedEntries DEF PlanInv
  <2>2. CASE plan' = plan
    <3>1. Goto(t, "warned") \/ Goto(t, "recording")
      BY <1>5 DEF PlanMove
    <3> QED
      BY <1>2, <1>5, <2>2, <3>1 DEF PlanMove, Steps
  <2> QED
    BY <1>5, <2>1, <2>2 DEF PlanMove
<1>6. ASSUME NEW t \in Transfers, UserStep(t) \/ ThreadStep(t), ~Approve(t), ~PlanMove(t)
      PROVE  PlanInv'
  <2>1. UNCHANGED <<plan, input>>
    BY <1>6 DEF UserStep, ThreadStep, Deny, CancelEmpty, ProceedEmpty, DismissError, DismissLogError, Unfit, Record,
                TakeResult, Finalize, planning
  <2>2. \E step \in Steps \ {"unborn", "asking", "approved"} : Goto(t, step)
    BY <1>6 DEF UserStep, ThreadStep, Deny, CancelEmpty, ProceedEmpty, DismissError, DismissLogError, Unfit, Record,
                TakeResult, Finalize, Steps
  <2> QED
    BY <1>2, <2>1, <2>2
<1>7. CASE Crash
  BY <1>7 DEF Crash, PlanInv, TypeOK, planning
<1>8. CASE LoadConfig \/ DismissConfigError \/ Replug \/ Restart
  BY <1>1, <1>8 DEF LoadConfig, DismissConfigError, Replug, Restart, planning
<1>9. ASSUME NEW t \in Transfers, MvStep(t) PROVE PlanInv'
  BY <1>1, <1>9 DEF MvStep, MvEntry, MvCopy, MvRemove, MvGiveUp, MvEnds, MvDies, MvUnchanged, planning
<1>10. CASE UNCHANGED vars
  BY <1>1, <1>10 DEF vars
<1> QED
  BY <1>3, <1>4, <1>5, <1>6, <1>7, <1>8, <1>9, <1>10 DEF Next, MountStep

\* ArgumentsInv is about a transfer's step, its plan and the marks of its mv.
LEMMA ArgumentsNext == BaseInv /\ [Next]_vars => ArgumentsInv'
<1> SUFFICES ASSUME BaseInv, [Next]_vars PROVE ArgumentsInv'
  OBVIOUS
<1> USE DEF BaseInv, TypeInv
<1>1. CASE UNCHANGED <<plan, pc, mv, todo, at>>
  BY <1>1 DEF ArgumentsInv
<1>2. ASSUME NEW t \in Transfers, NEW step \in Steps, Goto(t, step), UNCHANGED <<plan, mv, todo, at>>,
             step \in {"unborn", "asking", "approved", "warned", "recording"} =>
                 pc[t] \in {"unborn", "asking", "approved", "warned", "recording"}
      PROVE  ArgumentsInv'
  BY <1>2 DEF ArgumentsInv, TypeOK
<1>3. ASSUME NEW t \in Transfers, NEW o \in overrides, SpawnTransfer(t, o) PROVE ArgumentsInv'
  BY <1>3 DEF SpawnTransfer, ArgumentsInv, TypeOK, moving
<1>4. ASSUME NEW t \in Transfers, PlanMove(t) PROVE ArgumentsInv'
  <2>1. UNCHANGED <<mv, todo, at>> /\ pc[t] = "approved"
    BY <1>4 DEF PlanMove, moving
  <2>2. \A u \in Transfers \ {t} : plan'[u] = plan[u] /\ pc'[u] = pc[u]
    BY <1>4 DEF PlanMove, TypeOK
  <2> QED
    BY <2>1, <2>2, NoNodeAssumption DEF ArgumentsInv, NoNodeAssumption
<1>5. ASSUME NEW t \in Transfers, Record(t) PROVE ArgumentsInv'
  <2>1. pc'[t] \notin {"unborn", "asking", "approved", "warned", "recording"}
        /\ \A u \in Transfers \ {t} : pc'[u] = pc[u] /\ mv'[u] = mv[u] /\ todo'[u] = todo[u]
    BY <1>5 DEF Record, StartMv, TypeOK
  <2>2. plan' = plan /\ at' = at /\ mv[t] = "none" /\ at[t] = NoNode
    BY <1>5 DEF Record, planning, ArgumentsInv
  <2>3. \/ mv'[t] # "none" /\ todo'[t] = plan[t]
        \/ mv'[t] = mv[t] /\ todo'[t] = todo[t]
    <3>1. StartMv(t) \/ UNCHANGED <<mv, todo>>
      BY <1>5 DEF Record
    <3>2. DOMAIN mv = Transfers /\ DOMAIN todo = Transfers
      BY DEF TypeOK
    <3> QED
      BY <3>1, <3>2 DEF StartMv
  <2> QED
    BY <2>1, <2>2, <2>3 DEF ArgumentsInv
<1>6. ASSUME NEW t \in Transfers, UserStep(t) \/ ThreadStep(t), ~PlanMove(t), ~Record(t)
      PROVE  ArgumentsInv'
  <2>1. UNCHANGED <<plan, mv, todo, at>>
    BY <1>6 DEF UserStep, ThreadStep, Approve, Deny, CancelEmpty, ProceedEmpty, DismissError, DismissLogError, Unfit,
                TakeResult, Finalize, planning, moving
  <2>2. \E step \in Steps : Goto(t, step) /\
           (step \in {"unborn", "asking", "approved", "warned", "recording"} =>
                 pc[t] \in {"unborn", "asking", "approved", "warned", "recording"})
    BY <1>6 DEF UserStep, ThreadStep, Approve, Deny, CancelEmpty, ProceedEmpty, DismissError, DismissLogError, Unfit,
                TakeResult, Finalize, Steps
  <2> QED
    BY <1>2, <2>1, <2>2
<1>7. CASE Crash
  BY <1>7 DEF Crash, ArgumentsInv, TypeOK, planning, moving
<1>8. CASE LoadConfig \/ DismissConfigError \/ Replug \/ Restart
  BY <1>1, <1>8 DEF LoadConfig, DismissConfigError, Replug, Restart, planning, moving
<1>9. ASSUME NEW t \in Transfers, MvStep(t) PROVE ArgumentsInv'
  <2>1. UNCHANGED <<plan, pc>>
    BY <1>9 DEF MvStep, MvEntry, MvCopy, MvRemove, MvGiveUp, MvEnds, MvDies, MvUnchanged, planning
  <2>2. \A u \in Transfers \ {t} : mv'[u] = mv[u] /\ todo'[u] = todo[u] /\ at'[u] = at[u]
    BY <1>9 DEF MvStep, MvEntry, MvCopy, MvRemove, MvGiveUp, MvEnds, MvDies, Stopped, TypeOK
  <2>0. DOMAIN mv = Transfers /\ DOMAIN todo = Transfers /\ DOMAIN at = Transfers
    BY DEF TypeOK
  <2>3. mv[t] # "none" /\ mv'[t] # "none"
    BY <1>9, <2>0 DEF MvStep, MvEntry, MvCopy, MvRemove, MvGiveUp, MvEnds, MvDies
  <2>4. todo'[t] \subseteq todo[t]
    BY <1>9, <2>0 DEF MvStep, MvEntry, MvCopy, MvRemove, MvGiveUp, MvEnds, MvDies
  <2>5. at'[t] # NoNode => at'[t] = at[t] \/ (at'[t] \in todo[t] /\ todo'[t] = todo[t] \ {at'[t]})
    <3>1. CASE \E e \in Nodes : MvEntry(t, e)
      BY <2>0, <3>1 DEF MvEntry
    <3>2. CASE ~\E e \in Nodes : MvEntry(t, e)
      BY <1>9, <2>0, <3>2 DEF MvStep, MvCopy, MvRemove, MvGiveUp, MvEnds, MvDies, Stopped
    <3> QED
      BY <3>1, <3>2
  <2> QED
    BY <2>1, <2>2, <2>3, <2>4, <2>5 DEF ArgumentsInv
<1>10. CASE UNCHANGED vars
  BY <1>1, <1>10 DEF vars
<1> QED
  BY <1>3, <1>4, <1>5, <1>6, <1>7, <1>8, <1>9, <1>10 DEF Next, MountStep

\* What disappears from the card is of the entry an mv is at, which it planned to move.
LEMMA CardShrinks ==
  ASSUME BaseInv, NEW t \in Transfers, MvStep(t)
  PROVE  /\ card' \subseteq card
         /\ card' # card => at[t] \in plan[t] /\ left[t] = {}
         /\ card \ card' \subseteq Under[at[t]]
<1>1. at[t] # NoNode => at[t] \in plan[t]
  BY DEF BaseInv, ArgumentsInv
<1>2. CASE card' = card
  BY <1>2
<1>3. CASE card' # card
  BY <1>1, <1>3 DEF MvStep, MvEntry, MvCopy, MvRemove, MvGiveUp, MvEnds, MvDies, Stopped
<1> QED
  BY <1>2, <1>3

LEMMA ConfigNext == BaseInv /\ [Next]_vars => ConfigInv'
<1> SUFFICES ASSUME BaseInv, [Next]_vars PROVE ConfigInv'
  OBVIOUS
<1> USE DEF BaseInv, TypeInv
<1>1. plugged' = plugged
  BY DEF Next, MountStep, LoadConfig, DismissConfigError, Replug, SpawnTransfer, Crash, Restart,
     UserStep, ThreadStep, Approve, Deny, CancelEmpty, ProceedEmpty, DismissError, DismissLogError, Unfit, PlanMove,
     Record, TakeResult, Finalize, MvStep, MvEntry, MvCopy, MvRemove, MvGiveUp, MvEnds, MvDies,
     MvUnchanged, mounting, vars
<1>2. \A u \in Transfers : plan[u] # {} => plan'[u] = plan[u] /\ input'[u] = input[u]
  <2>1. CASE UNCHANGED <<plan, input>>
    BY <2>1
  <2>2. ASSUME NEW t \in Transfers, plan[t] = {},
               \A u \in Transfers \ {t} : plan'[u] = plan[u] /\ input'[u] = input[u]
        PROVE  \A u \in Transfers : plan[u] # {} => plan'[u] = plan[u] /\ input'[u] = input[u]
    BY <2>2
  <2>3. ASSUME NEW t \in Transfers, NEW o \in overrides, SpawnTransfer(t, o)
        PROVE  \A u \in Transfers : plan[u] # {} => plan'[u] = plan[u] /\ input'[u] = input[u]
    <3>1. plan[t] = {}
      BY <2>3 DEF SpawnTransfer, PlanInv
    <3> QED
      BY <2>2, <2>3, <3>1 DEF SpawnTransfer, TypeOK
  <2>4. ASSUME NEW t \in Transfers, Approve(t) \/ PlanMove(t)
        PROVE  \A u \in Transfers : plan[u] # {} => plan'[u] = plan[u] /\ input'[u] = input[u]
    <3>1. plan[t] = {}
      BY <2>4 DEF Approve, PlanMove, PlanInv
    <3> QED
      BY <2>2, <2>4, <3>1 DEF Approve, PlanMove, TypeOK
  <2>5. ASSUME NEW t \in Transfers, UserStep(t) \/ ThreadStep(t), ~Approve(t), ~PlanMove(t)
        PROVE  UNCHANGED <<plan, input>>
    BY <2>5 DEF UserStep, ThreadStep, Deny, CancelEmpty, ProceedEmpty, DismissError, DismissLogError, Unfit, Record,
                TakeResult, Finalize, planning
  <2>6. CASE LoadConfig \/ DismissConfigError \/ Replug \/ Crash \/ Restart \/ UNCHANGED vars
    BY <2>6 DEF LoadConfig, DismissConfigError, Replug, Crash, Restart, planning, vars
  <2>7. ASSUME NEW t \in Transfers, MvStep(t) PROVE UNCHANGED <<plan, input>>
    BY <2>7 DEF MvStep, MvEntry, MvCopy, MvRemove, MvGiveUp, MvEnds, MvDies, MvUnchanged, planning
  <2> QED
    BY <2>1, <2>3, <2>4, <2>5, <2>6, <2>7 DEF Next, MountStep
<1>3. CASE card' = card
  BY <1>1, <1>2, <1>3 DEF ConfigInv
<1>4. ASSUME NEW t \in Transfers, MvStep(t), card' # card PROVE ConfigInv'
  <2>1. at[t] \in plan[t] /\ card \ card' \subseteq Under[at[t]]
    BY <1>4, CardShrinks
  <2>2. CASE ConfigFile \in Under[at[t]]
    BY <1>2, <2>1, <2>2 DEF PlanInv, ConfigInv
  <2>3. CASE ConfigFile \notin Under[at[t]]
    BY <1>1, <1>2, <2>1, <2>3 DEF ConfigInv
  <2> QED
    BY <2>2, <2>3
<1> QED
  <2>1. card' = card \/ \E t \in Transfers : MvStep(t)
    BY DEF Next, MountStep, LoadConfig, DismissConfigError, Replug, SpawnTransfer, Crash, Restart,
       UserStep, ThreadStep, Approve, Deny, CancelEmpty, ProceedEmpty, DismissError, DismissLogError, Unfit, PlanMove,
       Record, TakeResult, Finalize, vars
  <2> QED
    BY <1>3, <1>4, <2>1

LEMMA BaseNext == BaseInv /\ [Next]_vars => BaseInv'
  BY TypeNext, PlanNext, ArgumentsNext, ConfigNext DEF BaseInv

\* The configuration file stays on the card whatever is moved, unless it was the input path.
THEOREM ConfigStays == Spec => []ConfigStaysOnCard
<1>1. BaseInv => ConfigStaysOnCard
  BY DEF BaseInv, ConfigInv, ConfigStaysOnCard
<1> QED
  BY <1>1, BaseInit, BaseNext, PTL DEF Spec

-----------------------------------------------------------------------------
(* Records *)

\* A sample or an outcome leaves the directories and the owners of the records alone; only a
\* record of the directory gets the outcome.
LEMMA UpdatesKeepOwners ==
  ASSUME NEW records \in Seq(Records), NEW d \in CardDirs,
         NEW bytes \in Nat, NEW result \in {"open", "succeeded", "failed"}
  PROVE  /\ DOMAIN WithSample(records, d, bytes) = DOMAIN records
         /\ DOMAIN WithOutcome(records, d, result) = DOMAIN records
         /\ \A i \in DOMAIN records :
              /\ WithSample(records, d, bytes)[i].dir = records[i].dir
              /\ WithSample(records, d, bytes)[i].owner = records[i].owner
              /\ WithSample(records, d, bytes)[i].outcome = records[i].outcome
              /\ WithOutcome(records, d, result)[i].dir = records[i].dir
              /\ WithOutcome(records, d, result)[i].owner = records[i].owner
              /\ \/ WithOutcome(records, d, result)[i].outcome = records[i].outcome
                 \/ records[i].dir = d /\ WithOutcome(records, d, result)[i].outcome = result
<1>1. \A i \in DOMAIN records : records[i] \in Records
  OBVIOUS
<1>2. \A i \in DOMAIN records :
        /\ WithSample(records, d, bytes)[i] \in {records[i], [records[i] EXCEPT !.last = bytes]}
        /\ \/ WithOutcome(records, d, result)[i] = records[i]
           \/ /\ records[i].dir = d
              /\ WithOutcome(records, d, result)[i] = [records[i] EXCEPT !.outcome = result]
  BY DEF WithSample, WithOutcome, IsFirst
<1>3. \A r \in Records :
        /\ [r EXCEPT !.last = bytes].dir = r.dir /\ [r EXCEPT !.last = bytes].owner = r.owner
        /\ [r EXCEPT !.last = bytes].outcome = r.outcome
        /\ [r EXCEPT !.outcome = result].dir = r.dir /\ [r EXCEPT !.outcome = result].owner = r.owner
        /\ [r EXCEPT !.outcome = result].outcome = result
  BY DEF Records
<1>4. DOMAIN WithSample(records, d, bytes) = DOMAIN records
      /\ DOMAIN WithOutcome(records, d, result) = DOMAIN records
  BY DEF WithSample, WithOutcome
<1>5. ASSUME NEW i \in DOMAIN records
      PROVE  /\ WithSample(records, d, bytes)[i].dir = records[i].dir
             /\ WithSample(records, d, bytes)[i].owner = records[i].owner
             /\ WithSample(records, d, bytes)[i].outcome = records[i].outcome
  BY <1>1, <1>2, <1>3
<1>6. ASSUME NEW i \in DOMAIN records
      PROVE  /\ WithOutcome(records, d, result)[i].dir = records[i].dir
             /\ WithOutcome(records, d, result)[i].owner = records[i].owner
             /\ \/ WithOutcome(records, d, result)[i].outcome = records[i].outcome
                \/ records[i].dir = d /\ WithOutcome(records, d, result)[i].outcome = result
  BY <1>1, <1>2, <1>3
<1> QED
  BY <1>4, <1>5, <1>6

\* A directory once in the file of the log stays there.
LEMMA RecordedNext ==
  ASSUME TypeInv, RecordedInv, [Next]_vars PROVE RecordedInv' /\ Recorded \subseteq Recorded'
<1> USE DEF TypeInv, RecordedInv, Recorded
<1>1. CASE UNCHANGED <<prog, mem, disk, mv>>
  BY <1>1 DEF DirsOf
<1>2. ASSUME NEW t \in Transfers, TakeResult(t) \/ Finalize(t)
      PROVE  RecordedInv' /\ Recorded \subseteq Recorded'
  <2>1. CardOf[t] \in CardDirs
    BY TransfersAssumption DEF TransfersAssumption
  <2>2. DirsOf(mem') = DirsOf(mem)
    <3>1. mem \in Seq(Records)
      BY DEF TypeOK
    <3>2. DOMAIN mem' = DOMAIN mem /\ \A i \in DOMAIN mem : mem'[i].dir = mem[i].dir
      <4>1. CASE TakeResult(t)
        <5>1. PICK bytes \in Nat : mem' = WithSample(mem, CardOf[t], bytes)
          BY <2>1, <4>1, Measured DEF TakeResult, TypeOK
        <5>2. DOMAIN WithSample(mem, CardOf[t], bytes) = DOMAIN mem
              /\ \A i \in DOMAIN mem : WithSample(mem, CardOf[t], bytes)[i].dir = mem[i].dir
          BY <2>1, <3>1, UpdatesKeepOwners
        <5> QED
          BY <5>1, <5>2
      <4>2. CASE Finalize(t)
        <5>1. PICK result \in {"succeeded", "failed"} : mem' = WithOutcome(mem, CardOf[t], result)
          BY <4>2 DEF Finalize, TypeOK, OutcomeKnown
        <5>2. DOMAIN WithOutcome(mem, CardOf[t], result) = DOMAIN mem
              /\ \A i \in DOMAIN mem : WithOutcome(mem, CardOf[t], result)[i].dir = mem[i].dir
          BY <2>1, <3>1, UpdatesKeepOwners
        <5> QED
          BY <5>1, <5>2
      <4> QED
        BY <1>2, <4>1, <4>2
    <3> QED
      BY <3>2 DEF DirsOf
  <2>3. disk' \in {mem', disk} /\ mv' = mv /\ prog' = prog /\ prog = "up"
    BY <1>2 DEF TakeResult, Finalize, Flush, moving
  <2>4. DirsOf(disk)' \in {DirsOf(mem'), DirsOf(disk)} /\ DirsOf(mem)' = DirsOf(mem')
    BY <2>3 DEF DirsOf
  <2> QED
    BY <2>2, <2>3, <2>4
<1>3. ASSUME NEW t \in Transfers, Record(t) PROVE RecordedInv' /\ Recorded \subseteq Recorded'
  <2>1. DirsOf(mem') = DirsOf(mem) \cup {CardOf[t]}
    <3>1. mem' = Append(mem, NewRecord(t)) /\ mem \in Seq(Records)
      BY <1>3 DEF Record, TypeOK
    <3>2. DOMAIN mem' = DOMAIN mem \cup {Len(mem) + 1} /\ mem'[Len(mem) + 1] = NewRecord(t)
          /\ \A i \in DOMAIN mem : mem'[i] = mem[i]
      BY <3>1
    <3>3. NewRecord(t).dir = CardOf[t]
      BY DEF NewRecord
    <3> QED
      BY <3>2, <3>3 DEF DirsOf
  <2>2. disk' = mem' \/ (disk' = disk /\ mv' = mv)
    BY <1>3 DEF Record
  <2>3. \A u \in Transfers \ {t} : mv'[u] = mv[u]
    BY <1>3 DEF Record, StartMv, TypeOK
  <2>4. prog' = prog /\ prog = "up"
    BY <1>3 DEF Record
  <2>5. /\ DirsOf(disk)' = DirsOf(mem') \/ (DirsOf(disk)' = DirsOf(disk) /\ mv' = mv)
        /\ DirsOf(mem)' = DirsOf(mem')
    BY <2>2 DEF DirsOf
  <2> QED
    BY <2>1, <2>3, <2>4, <2>5
<1>4. ASSUME NEW t \in Transfers, UserStep(t) \/ ThreadStep(t), ~TakeResult(t), ~Finalize(t), ~Record(t)
      PROVE  UNCHANGED <<prog, mem, disk, mv>>
  BY <1>4 DEF UserStep, ThreadStep, Approve, Deny, CancelEmpty, ProceedEmpty, DismissError, DismissLogError, Unfit,
              PlanMove, log, moving
<1>5. ASSUME NEW t \in Transfers, MvStep(t) PROVE RecordedInv' /\ Recorded \subseteq Recorded'
  <2>1. UNCHANGED <<prog, mem, disk>>
    BY <1>5 DEF MvStep, MvEntry, MvCopy, MvRemove, MvGiveUp, MvEnds, MvDies, MvUnchanged, log
  <2>2. mv[t] # "none" /\ \A u \in Transfers \ {t} : mv'[u] = mv[u]
    BY <1>5 DEF MvStep, MvEntry, MvCopy, MvRemove, MvGiveUp, MvEnds, MvDies, TypeOK
  <2> QED
    BY <2>1, <2>2 DEF DirsOf
<1>6. CASE Crash
  BY <1>6 DEF Crash, moving, DirsOf
<1>7. CASE Restart
  BY <1>7 DEF Restart, moving, DirsOf
<1>8. CASE MountStep \/ UNCHANGED vars
  BY <1>1, <1>8 DEF MountStep, LoadConfig, DismissConfigError, Replug, SpawnTransfer, log, moving, vars
<1> QED
  BY <1>1, <1>2, <1>3, <1>4, <1>5, <1>6, <1>7, <1>8 DEF Next

-----------------------------------------------------------------------------
(* Moves that succeeded *)

\* Until it is recorded a transfer has not succeeded; then its mv goes through the plan.
LEMMA CompleteNext == BaseInv /\ CompleteInv /\ [Next]_vars => CompleteInv'
<1> SUFFICES ASSUME BaseInv, CompleteInv, [Next]_vars PROVE CompleteInv'
  OBVIOUS
<1> USE DEF BaseInv, TypeInv
<1>1. CASE UNCHANGED <<plan, mv, todo, at, card, outcome, pc>>
  BY <1>1 DEF CompleteInv
<1>2. ASSUME NEW t \in Transfers, NEW step \in Steps, Goto(t, step),
             UNCHANGED <<plan, mv, todo, at, card, outcome>>,
             outcome[t] = "succeeded" => step \in {"finalizing", "ended"}
      PROVE  CompleteInv'
  BY <1>2 DEF CompleteInv, TypeOK
<1>3. ASSUME NEW t \in Transfers, NEW o \in overrides, SpawnTransfer(t, o) PROVE CompleteInv'
  BY <1>2, <1>3 DEF SpawnTransfer, CompleteInv, Steps, moving
<1>4. ASSUME NEW t \in Transfers, PlanMove(t) PROVE CompleteInv'
  <2>1. UNCHANGED <<mv, todo, at, card>> /\ mv[t] = "none" /\ outcome'[t] # "succeeded"
    BY <1>4 DEF PlanMove, ArgumentsInv, CompleteInv, TypeOK, moving
  <2>2. \A u \in Transfers \ {t} : plan'[u] = plan[u] /\ pc'[u] = pc[u] /\ outcome'[u] = outcome[u]
    BY <1>4 DEF PlanMove, TypeOK
  <2> QED
    BY <2>1, <2>2 DEF CompleteInv
<1>5. ASSUME NEW t \in Transfers, Record(t) PROVE CompleteInv'
  <2>1. UNCHANGED <<plan, at, card, outcome>> /\ at[t] = NoNode /\ outcome[t] # "succeeded"
    BY <1>5 DEF Record, ArgumentsInv, CompleteInv, planning
  <2>2. \A u \in Transfers \ {t} : mv'[u] = mv[u] /\ todo'[u] = todo[u] /\ pc'[u] = pc[u]
    BY <1>5 DEF Record, StartMv, TypeOK
  <2>3. \/ mv'[t] \in {"ok", "running"} /\ todo'[t] = plan[t] /\ (mv'[t] = "ok" => plan[t] = {})
        \/ mv'[t] = mv[t] /\ todo'[t] = todo[t]
    <3>1. StartMv(t) \/ UNCHANGED <<mv, todo>>
      BY <1>5 DEF Record
    <3>2. DOMAIN mv = Transfers /\ DOMAIN todo = Transfers
      BY DEF TypeOK
    <3> QED
      BY <3>1, <3>2 DEF StartMv
  <2> QED
    BY <2>1, <2>2, <2>3 DEF CompleteInv
<1>6. ASSUME NEW t \in Transfers, TakeResult(t) PROVE CompleteInv'
  <2>1. UNCHANGED <<plan, mv, todo, at, card>> /\ pc'[t] = "finalizing"
    BY <1>6 DEF TakeResult, TypeOK, planning, moving
  <2>2. \A u \in Transfers \ {t} : outcome'[u] = outcome[u] /\ pc'[u] = pc[u]
    BY <1>6 DEF TakeResult, TypeOK
  <2>3. outcome'[t] = "succeeded" => mv[t] = "ok"
    BY <1>6 DEF TakeResult, TypeOK
  <2> QED
    BY <2>1, <2>2, <2>3 DEF CompleteInv
<1>7. ASSUME NEW t \in Transfers, UserStep(t) \/ Unfit(t) \/ Finalize(t) PROVE CompleteInv'
  <2>1. UNCHANGED <<plan, mv, todo, at, card, outcome>>
    BY <1>7 DEF UserStep, Approve, Deny, CancelEmpty, ProceedEmpty, DismissError, DismissLogError, Unfit, Finalize,
                planning, moving
  <2>2. \E step \in Steps : Goto(t, step) /\ (outcome[t] = "succeeded" => step \in {"finalizing", "ended"})
    BY <1>7 DEF UserStep, Approve, Deny, CancelEmpty, ProceedEmpty, DismissError, DismissLogError, Unfit, Finalize,
                Steps, CompleteInv
  <2> QED
    BY <1>2, <2>1, <2>2
<1>8. CASE Crash
  BY <1>8 DEF Crash, CompleteInv, TypeOK, planning, moving
<1>9. CASE LoadConfig \/ DismissConfigError \/ Replug \/ Restart \/ UNCHANGED vars
  BY <1>1, <1>9 DEF LoadConfig, DismissConfigError, Replug, Restart, planning, moving, vars
<1>10. ASSUME NEW t \in Transfers, MvStep(t) PROVE CompleteInv'
  <2>1. UNCHANGED <<plan, pc, outcome>>
    BY <1>10 DEF MvStep, MvEntry, MvCopy, MvRemove, MvGiveUp, MvEnds, MvDies, MvUnchanged, planning
  <2>2. card' \subseteq card
    BY <1>10, CardShrinks
  <2>3. \A u \in Transfers \ {t} : mv'[u] = mv[u] /\ todo'[u] = todo[u] /\ at'[u] = at[u]
    BY <1>10 DEF MvStep, MvEntry, MvCopy, MvRemove, MvGiveUp, MvEnds, MvDies, Stopped, TypeOK
  <2>4. DOMAIN mv = Transfers /\ DOMAIN todo = Transfers /\ DOMAIN at = Transfers
    BY DEF TypeOK
  <2>5. mv[t] # "ok"
    BY <1>10 DEF MvStep, MvEntry, MvCopy, MvRemove, MvGiveUp, MvEnds, MvDies
  <2>6. outcome[t] # "succeeded"
    BY <2>5 DEF CompleteInv
  <2>7. /\ mv'[t] \in {"running", "ok"} =>
             \A e \in plan[t] : e \in todo'[t] \/ e = at'[t] \/ Under[e] \cap card' = {}
        /\ mv'[t] = "ok" => todo'[t] = {} /\ at'[t] = NoNode
    <3>1. ASSUME NEW e \in Nodes, MvEntry(t, e) PROVE <2>7
      <4>1. CASE at' = [at EXCEPT ![t] = e] /\ mv' = mv
        <5>1. at[t] = NoNode /\ todo'[t] = todo[t] \ {e} /\ at'[t] = e /\ mv'[t] # "ok"
              /\ mv'[t] = mv[t]
          BY <2>4, <2>5, <3>1, <4>1 DEF MvEntry
        <5>2. NoNode \notin plan[t]
          BY NoNodeAssumption DEF NoNodeAssumption, TypeOK
        <5> QED
          BY <2>2, <5>1, <5>2 DEF CompleteInv
      <4>2. CASE mv' = [mv EXCEPT ![t] = "failing"]
        BY <2>4, <4>2
      <4> QED
        BY <3>1, <4>1, <4>2 DEF MvEntry
    <3>2. ASSUME NEW f \in Files, MvCopy(t, f) PROVE <2>7
      BY <2>2, <2>5, <3>2 DEF MvCopy, CompleteInv
    <3>3. CASE MvRemove(t)
      <4>1. mv' = mv /\ todo' = todo /\ at'[t] = NoNode /\ card' = card \ Under[at[t]]
        BY <2>4, <3>3 DEF MvRemove
      <4> QED
        BY <2>5, <4>1 DEF CompleteInv
    <3>4. CASE MvGiveUp(t) \/ MvDies(t)
      BY <2>4, <3>4 DEF MvGiveUp, MvDies
    <3>5. CASE MvEnds(t)
      BY <2>4, <3>5 DEF MvEnds, CompleteInv
    <3> QED
      BY <1>10, <3>1, <3>2, <3>3, <3>4, <3>5 DEF MvStep
  <2> QED
    BY <2>1, <2>2, <2>3, <2>6, <2>7 DEF CompleteInv
<1> QED
  BY <1>3, <1>4, <1>5, <1>6, <1>7, <1>8, <1>9, <1>10 DEF Next, MountStep, ThreadStep

\* A success is never taken back.
LEMMA SuccessStays ==
  ASSUME BaseInv, CompleteInv, [Next]_vars
  PROVE  \A u \in Transfers : outcome[u] = "succeeded" => outcome'[u] = "succeeded"
<1> USE DEF BaseInv, TypeInv
<1>1. ASSUME NEW t \in Transfers, PlanMove(t) \/ TakeResult(t)
      PROVE  \A u \in Transfers : outcome[u] = "succeeded" => outcome'[u] = "succeeded"
  <2>1. outcome[t] # "succeeded"
    BY <1>1 DEF PlanMove, TakeResult, CompleteInv
  <2>2. \A u \in Transfers \ {t} : outcome'[u] = outcome[u]
    BY <1>1 DEF PlanMove, TakeResult, TypeOK
  <2> QED
    BY <2>1, <2>2
<1>2. ASSUME NEW t \in Transfers, UserStep(t) \/ Unfit(t) \/ Record(t) \/ Finalize(t) \/ MvStep(t)
      PROVE  outcome' = outcome
  BY <1>2 DEF UserStep, Approve, Deny, CancelEmpty, ProceedEmpty, DismissError, DismissLogError, Unfit, Record, Finalize,
              MvStep, MvEntry, MvCopy, MvRemove, MvGiveUp, MvEnds, MvDies, MvUnchanged
<1>3. CASE MountStep \/ Crash \/ Restart \/ UNCHANGED vars
  BY <1>3 DEF MountStep, LoadConfig, DismissConfigError, Replug, SpawnTransfer, Crash, Restart, vars
<1> QED
  BY <1>1, <1>2, <1>3 DEF Next, ThreadStep

\* Records stay owned when more transfers have succeeded, and one can be added.
LEMMA OwnedMore ==
  ASSUME NEW records \in Seq(Records), NEW before, Owned(records, before), NEW after,
         \A u \in Transfers : before[u] = "succeeded" => after[u] = "succeeded"
  PROVE  Owned(records, after)
<1>1. \A i \in DOMAIN records : records[i].owner \in Transfers
  <2>1. \A i \in DOMAIN records : records[i] \in Records
    OBVIOUS
  <2> QED
    BY <2>1 DEF Records
<1> QED
  BY <1>1 DEF Owned

LEMMA OwnedAppend ==
  ASSUME NEW records \in Seq(Records), NEW results, Owned(records, results), NEW r \in Records,
         r.dir = CardOf[r.owner], r.outcome = "open"
  PROVE  Owned(Append(records, r), results)
<1>1. \A i \in DOMAIN Append(records, r) :
         \/ Append(records, r)[i] = r
         \/ i \in DOMAIN records /\ Append(records, r)[i] = records[i]
  OBVIOUS
<1> QED
  BY <1>1 DEF Owned

\* With directories of their own, the record that gets the outcome is the transfer's.
LEMMA OwnedUpdates ==
  ASSUME DirsAreExclusive, NEW records \in Seq(Records), NEW results, Owned(records, results),
         NEW t \in Transfers, NEW bytes \in Nat, NEW result \in {"open", "succeeded", "failed"},
         result = "succeeded" => results[t] = "succeeded"
  PROVE  /\ Owned(WithSample(records, CardOf[t], bytes), results)
         /\ Owned(WithOutcome(records, CardOf[t], result), results)
<1>1. CardOf[t] \in CardDirs
  BY TransfersAssumption DEF TransfersAssumption
<1>2. \A i \in DOMAIN records : records[i].owner \in Transfers
  <2>1. \A i \in DOMAIN records : records[i] \in Records
    OBVIOUS
  <2> QED
    BY <2>1 DEF Records
<1>3. Owned(WithSample(records, CardOf[t], bytes), results)
  <2> DEFINE new == WithSample(records, CardOf[t], bytes)
  <2>1. DOMAIN new = DOMAIN records
        /\ \A i \in DOMAIN records : /\ new[i].dir = records[i].dir
                                     /\ new[i].owner = records[i].owner
                                     /\ new[i].outcome = records[i].outcome
    BY <1>1, UpdatesKeepOwners
  <2> HIDE DEF new
  <2>2. Owned(new, results)
    BY <2>1 DEF Owned
  <2> QED
    BY <2>2 DEF new
<1>4. Owned(WithOutcome(records, CardOf[t], result), results)
  <2> DEFINE new == WithOutcome(records, CardOf[t], result)
  <2>1. DOMAIN new = DOMAIN records
        /\ \A i \in DOMAIN records :
             /\ new[i].dir = records[i].dir
             /\ new[i].owner = records[i].owner
             /\ \/ new[i].outcome = records[i].outcome
                \/ records[i].dir = CardOf[t] /\ new[i].outcome = result
    BY <1>1, UpdatesKeepOwners
  <2> HIDE DEF new
  <2>2. \A i \in DOMAIN records : records[i].dir = CardOf[t] => records[i].owner = t
    BY <1>2 DEF Owned, DirsAreExclusive
  <2>3. Owned(new, results)
    BY <2>1, <2>2 DEF Owned
  <2> QED
    BY <2>3 DEF new
<1> QED
  BY <1>3, <1>4

LEMMA OwnersNext ==
  ASSUME DirsAreExclusive, BaseInv, CompleteInv, OwnersInv, [Next]_vars
  PROVE  OwnersInv'
<1>1. mem \in Seq(Records) /\ disk \in Seq(Records)
  BY DEF BaseInv, TypeInv, TypeOK
<1>2. Owned(mem, outcome') /\ Owned(disk, outcome')
  BY <1>1, SuccessStays, OwnedMore DEF OwnersInv
<1>3. ASSUME NEW t \in Transfers, Record(t) PROVE OwnersInv'
  <2>1. NewRecord(t) \in Records /\ NewRecord(t).dir = CardOf[NewRecord(t).owner]
        /\ NewRecord(t).outcome = "open"
    BY TransfersAssumption DEF TransfersAssumption, NewRecord, Records, BaseInv, TypeInv, TypeOK
  <2>2. Owned(Append(mem, NewRecord(t)), outcome')
    BY <1>1, <1>2, <2>1, OwnedAppend
  <2>3. mem' = Append(mem, NewRecord(t)) /\ disk' \in {mem', disk}
    BY <1>3 DEF Record
  <2> QED
    BY <1>2, <2>2, <2>3 DEF OwnersInv
<1>4. ASSUME NEW t \in Transfers, TakeResult(t) PROVE OwnersInv'
  <2>1. PICK bytes \in Nat : mem' = WithSample(mem, CardOf[t], bytes)
    BY <1>4, Measured, TransfersAssumption
    DEF TakeResult, TransfersAssumption, BaseInv, TypeInv, TypeOK
  <2>2. Owned(WithSample(mem, CardOf[t], bytes), outcome')
    BY <1>1, <1>2, OwnedUpdates
  <2>3. disk' \in {mem', disk}
    BY <1>4 DEF TakeResult, Flush
  <2> QED
    BY <1>2, <2>1, <2>2, <2>3 DEF OwnersInv
<1>5. ASSUME NEW t \in Transfers, Finalize(t) PROVE OwnersInv'
  <2>1. outcome[t] \in {"open", "succeeded", "failed"} /\ outcome' = outcome
    BY <1>5 DEF Finalize, BaseInv, TypeInv, TypeOK, OutcomeKnown
  <2>2. Owned(WithOutcome(mem, CardOf[t], outcome[t]), outcome')
    BY <1>1, <1>2, <2>1, OwnedUpdates
  <2>3. mem' = WithOutcome(mem, CardOf[t], outcome[t]) /\ disk' \in {mem', disk}
    BY <1>5 DEF Finalize, Flush
  <2> QED
    BY <1>2, <2>2, <2>3 DEF OwnersInv
<1>6. CASE UNCHANGED <<mem, disk>>
  BY <1>2, <1>6 DEF OwnersInv
<1>7. CASE Crash
  BY <1>2, <1>7 DEF Crash, OwnersInv, Owned
<1>8. CASE Restart
  BY <1>2, <1>8 DEF Restart, OwnersInv
<1>9. ASSUME NEW t \in Transfers, UserStep(t) \/ Unfit(t) \/ PlanMove(t) \/ MvStep(t)
      PROVE  UNCHANGED <<mem, disk>>
  BY <1>9 DEF UserStep, Approve, Deny, CancelEmpty, ProceedEmpty, DismissError, DismissLogError, Unfit, PlanMove,
              MvStep, MvEntry, MvCopy, MvRemove, MvGiveUp, MvEnds, MvDies, MvUnchanged, log
<1>10. CASE MountStep \/ UNCHANGED vars
  BY <1>6, <1>10 DEF MountStep, LoadConfig, DismissConfigError, Replug, SpawnTransfer, log, vars
<1> QED
  BY <1>3, <1>4, <1>5, <1>6, <1>7, <1>8, <1>9, <1>10 DEF Next, ThreadStep

-----------------------------------------------------------------------------
(* Copies *)

\* An entry mv comes to finds nothing of its name in its own card directory.
LEMMA NothingInTheWay ==
  ASSUME BaseInv, CopiesInv, NEW t \in Transfers, NEW e \in todo[t]
  PROVE  InTheWay(t, e) = {}
<1>1. SUFFICES ASSUME NEW c \in dest[CardOf[t]], Name[c.entry] = Name[e] PROVE FALSE
  BY DEF InTheWay
<1>2. c.entry \in plan[t] \ todo[t] /\ e \in plan[t]
  BY DEF CopiesInv, BaseInv, ArgumentsInv
<1>3. PICK n \in Nodes : plan[t] \subseteq Children[n] \/ plan[t] = {n}
  BY DEF BaseInv, PlanInv
<1>4. c.entry = e
  BY <1>1, <1>2, <1>3, TreeAssumption DEF TreeAssumption
<1> QED
  BY <1>2, <1>4

\* No copy is ever removed, and an mv makes them in its own directory only.
LEMMA CopiesStay ==
  ASSUME BaseInv, CopiesInv, [Next]_vars
  PROVE  \A d \in CardDirs : dest[d] \subseteq dest'[d]
<1>1. CASE dest' = dest
  BY <1>1
<1>2. ASSUME NEW t \in Transfers, MvStep(t) PROVE \A d \in CardDirs : dest[d] \subseteq dest'[d]
  <2>1. dest \in [CardDirs -> SUBSET Copies]
    BY DEF BaseInv, TypeInv, TypeOK
  <2>2. ASSUME NEW e \in Nodes, MvEntry(t, e) PROVE dest' = dest
    <3>1. InTheWay(t, e) = {}
      BY <2>2, NothingInTheWay DEF MvEntry
    <3>2. dest' = [dest EXCEPT ![CardOf[t]] = dest[CardOf[t]] \ InTheWay(t, e)] \/ dest' = dest
      BY <2>2 DEF MvEntry
    <3> QED
      BY <2>1, <3>1, <3>2
  <2>3. (\E e \in Nodes : MvEntry(t, e)) \/ dest' = dest
        \/ \E c : dest' = [dest EXCEPT ![CardOf[t]] = dest[CardOf[t]] \cup {c}]
    BY <1>2 DEF MvStep, MvCopy, MvRemove, MvGiveUp, MvEnds, MvDies, Stopped
  <2> QED
    BY <1>1, <2>1, <2>2, <2>3
<1> QED
  <2>1. dest' = dest \/ \E t \in Transfers : MvStep(t)
    BY DEF Next, MountStep, LoadConfig, DismissConfigError, Replug, SpawnTransfer, Crash, Restart,
       UserStep, ThreadStep, Approve, Deny, CancelEmpty, ProceedEmpty, DismissError, DismissLogError, Unfit, PlanMove,
       Record, TakeResult, Finalize, vars
  <2> QED
    BY <1>1, <1>2, <2>1

LEMMA CopiesNext ==
  ASSUME DirsAreExclusive, BaseInv, CopiesInv, [Next]_vars
  PROVE  CopiesInv'
<1> USE DEF BaseInv, TypeInv
<1>1. CASE UNCHANGED <<dest, plan, mv, todo, at, left, card>>
  BY <1>1 DEF CopiesInv, SavedIn
<1>2. ASSUME NEW t \in Transfers, PlanMove(t) PROVE CopiesInv'
  <2>1. UNCHANGED <<dest, mv, todo, at, left, card>> /\ mv[t] = "none" /\ at[t] = NoNode
    BY <1>2 DEF PlanMove, ArgumentsInv, moving
  <2>2. \A u \in Transfers \ {t} : plan'[u] = plan[u]
    BY <1>2 DEF PlanMove, TypeOK
  <2>3. dest[CardOf[t]] = {}
    BY <2>1 DEF CopiesInv
  <2> QED
    BY <2>1, <2>2, <2>3 DEF CopiesInv, SavedIn
<1>3. ASSUME NEW t \in Transfers, Record(t) PROVE CopiesInv'
  <2>1. UNCHANGED <<dest, plan, at, left, card>> /\ mv[t] = "none" /\ at[t] = NoNode
    BY <1>3 DEF Record, ArgumentsInv, planning
  <2>2. \A u \in Transfers \ {t} : mv'[u] = mv[u] /\ todo'[u] = todo[u]
    BY <1>3 DEF Record, StartMv, TypeOK
  <2>3. dest[CardOf[t]] = {}
    BY <2>1 DEF CopiesInv
  <2> QED
    BY <2>1, <2>2, <2>3 DEF CopiesInv, SavedIn
<1>4. ASSUME NEW t \in Transfers, UserStep(t) \/ Unfit(t) \/ TakeResult(t) \/ Finalize(t)
      PROVE  UNCHANGED <<dest, plan, mv, todo, at, left, card>>
  BY <1>4 DEF UserStep, Approve, Deny, CancelEmpty, ProceedEmpty, DismissError, DismissLogError, Unfit, TakeResult,
              Finalize, planning, moving
<1>5. CASE MountStep \/ Crash \/ Restart \/ UNCHANGED vars
  BY <1>1, <1>5 DEF MountStep, LoadConfig, DismissConfigError, Replug, SpawnTransfer, Crash, Restart,
              planning, moving, vars
<1>6. ASSUME NEW t \in Transfers, MvStep(t) PROVE CopiesInv'
  <2> DEFINE d == CardOf[t]
  <2>1. d \in CardDirs /\ \A u \in Transfers : CardOf[u] \in CardDirs /\ (u # t => CardOf[u] # d)
    BY TransfersAssumption DEF TransfersAssumption, DirsAreExclusive
  <2>2. plan' = plan /\ card' \subseteq card /\ \A u \in Transfers : dest[CardOf[u]] \subseteq dest'[CardOf[u]]
    <3>1. plan' = plan
      BY <1>6 DEF MvStep, MvEntry, MvCopy, MvRemove, MvGiveUp, MvEnds, MvDies, MvUnchanged, planning
    <3>2. card' \subseteq card
      BY <1>6, CardShrinks
    <3> QED
      BY <2>1, <3>1, <3>2, CopiesStay
  <2>3. \A u \in Transfers \ {t} : mv'[u] = mv[u] /\ todo'[u] = todo[u] /\ at'[u] = at[u] /\ left'[u] = left[u]
    BY <1>6 DEF MvStep, MvEntry, MvCopy, MvRemove, MvGiveUp, MvEnds, MvDies, Stopped, TypeOK
  <2>4. /\ DOMAIN mv = Transfers /\ DOMAIN todo = Transfers /\ DOMAIN at = Transfers
        /\ DOMAIN left = Transfers /\ DOMAIN dest = CardDirs
    BY DEF TypeOK
  <2>5. mv'[t] # "none" /\ todo'[t] \subseteq todo[t]
    BY <1>6, <2>4 DEF MvStep, MvEntry, MvCopy, MvRemove, MvGiveUp, MvEnds, MvDies
  <2>6. \A u \in Transfers \ {t} : dest'[CardOf[u]] = dest[CardOf[u]]
    BY <1>6, <2>1, <2>4 DEF MvStep, MvEntry, MvCopy, MvRemove, MvGiveUp, MvEnds, MvDies, Stopped
  <2>7. \A c \in dest'[d] : c \in dest[d] \/ (c.entry = at[t] /\ at[t] # NoNode)
    <3>1. CASE dest'[d] \subseteq dest[d]
      BY <3>1
    <3>2. CASE \E f \in left[t], whole \in BOOLEAN : dest'[d] = dest[d] \cup {Copy(t, f, whole)}
      <4>1. at[t] # NoNode
        BY <3>2 DEF LeftInv
      <4> QED
        BY <3>2, <4>1 DEF Copy
    <3>3. ASSUME NEW e \in Nodes, MvEntry(t, e) PROVE dest'[d] \subseteq dest[d]
      BY <2>1, <2>4, <3>3 DEF MvEntry
    <3>4. ASSUME NEW f \in Files, MvCopy(t, f)
          PROVE  dest'[d] \subseteq dest[d] \/ dest'[d] = dest[d] \cup {Copy(t, f, TRUE)}
      BY <2>1, <2>4, <3>4 DEF MvCopy
    <3>5. CASE MvGiveUp(t) \/ MvDies(t)
      <4>1. dest' = dest
            \/ \E f \in left[t] : dest' = [dest EXCEPT ![d] = dest[d] \cup {Copy(t, f, FALSE)}]
        BY <3>5 DEF MvGiveUp, MvDies, Stopped
      <4> QED
        BY <2>1, <2>4, <3>1, <3>2, <4>1
    <3>6. CASE MvRemove(t) \/ MvEnds(t)
      BY <3>1, <3>6 DEF MvRemove, MvEnds
    <3>7. CASE \E f \in Files : MvCopy(t, f)
      BY <3>1, <3>2, <3>4, <3>7 DEF MvCopy
    <3> QED
      BY <1>6, <3>1, <3>3, <3>5, <3>6, <3>7 DEF MvStep
  <2>8. \A c \in dest'[d] : c.entry \in plan'[t] \ todo'[t]
    BY <2>2, <2>5, <2>7 DEF CopiesInv, ArgumentsInv
  <2>9. \A f : SavedIn(d, f) => SavedIn(d, f)'
    BY <2>2 DEF SavedIn
  <2>10. at'[t] # NoNode => \A f \in Files \cap card' :
            f \in Under[at'[t]] => f \in left'[t] \/ SavedIn(CardOf[t], f)'
    <3>1. ASSUME NEW e \in Nodes, MvEntry(t, e) PROVE <2>10
      <4>1. CASE at' = [at EXCEPT ![t] = e] /\ left' = [left EXCEPT ![t] = FilesOf({e})]
        BY <2>2, <2>4, <4>1 DEF FilesOf
      <4>2. CASE UNCHANGED <<at, left>>
        BY <3>1, <4>2 DEF MvEntry
      <4> QED
        BY <3>1, <4>1, <4>2 DEF MvEntry
    <3>2. ASSUME NEW f \in Files, MvCopy(t, f) PROVE <2>10
      <4>1. at' = at /\ left'[t] = left[t] \ {f}
        BY <2>4, <3>2 DEF MvCopy
      <4>2. f \in card' => SavedIn(d, f)'
        <5>1. SUFFICES ASSUME f \in card' PROVE SavedIn(d, f)'
          OBVIOUS
        <5>2. dest' = [dest EXCEPT ![d] = dest[d] \cup {Copy(t, f, TRUE)}]
          BY <2>2, <3>2, <5>1 DEF MvCopy
        <5>3. Copy(t, f, TRUE) \in dest'[d]
          BY <2>1, <2>4, <5>2
        <5> QED
          BY <5>3 DEF SavedIn, Copy
      <4> QED
        BY <2>2, <2>9, <4>1, <4>2 DEF CopiesInv
    <3>3. CASE MvRemove(t) \/ MvGiveUp(t) \/ MvDies(t) \/ MvEnds(t)
      BY <2>4, <3>3 DEF MvRemove, MvGiveUp, MvDies, MvEnds, Stopped
    <3> QED
      BY <1>6, <3>1, <3>2, <3>3 DEF MvStep
  <2>11. \A u \in Transfers \ {t} : \A f : SavedIn(CardOf[u], f)' = SavedIn(CardOf[u], f)
    BY <2>6 DEF SavedIn
  <2> QED
    BY <2>2, <2>3, <2>5, <2>6, <2>8, <2>10, <2>11 DEF CopiesInv
<1> QED
  BY <1>1, <1>2, <1>3, <1>4, <1>5, <1>6 DEF Next, ThreadStep

-----------------------------------------------------------------------------
(* The theorems of the move *)

IInv == BaseInv /\ RecordedInv /\ CopiesInv /\ CompleteInv /\ OwnersInv /\ NothingIsLost

LEMMA MovesInit == Init => IInv
<1> SUFFICES ASSUME Init PROVE IInv
  OBVIOUS
<1>1. RecordedInv
  BY DEF Init, RecordedInv, Recorded, DirsOf
<1>2. CopiesInv
  BY TransfersAssumption DEF TransfersAssumption, Init, CopiesInv
<1>3. CompleteInv /\ OwnersInv
  BY DEF Init, CompleteInv, OwnersInv, Owned
<1>4. NothingIsLost
  BY DEF Init, NothingIsLost
<1> QED
  BY <1>1, <1>2, <1>3, <1>4, BaseInit DEF IInv

\* A file that disappears from the card is whole in a directory the log's file knows of, and
\* stays there.
LEMMA LostNext ==
  ASSUME DirsAreExclusive, IInv, [Next]_vars PROVE NothingIsLost'
<1> USE DEF IInv
<1>1. Recorded \subseteq Recorded'
  BY RecordedNext DEF BaseInv
<1>2. Recorded \subseteq CardDirs
  <2>1. \A i \in DOMAIN disk : disk[i] \in Records
    BY DEF BaseInv, TypeInv, TypeOK
  <2> QED
    BY <2>1 DEF Recorded, DirsOf, Records
<1>3. \A f : Saved(f) => Saved(f)'
  <2>1. \A d \in CardDirs : dest[d] \subseteq dest'[d]
    BY CopiesStay
  <2> QED
    BY <1>1, <1>2, <2>1 DEF Saved, SavedIn
<1>4. plugged' = plugged
  BY DEF Next, MountStep, LoadConfig, DismissConfigError, Replug, SpawnTransfer, Crash, Restart,
     UserStep, ThreadStep, Approve, Deny, CancelEmpty, ProceedEmpty, DismissError, DismissLogError, Unfit, PlanMove,
     Record, TakeResult, Finalize, MvStep, MvEntry, MvCopy, MvRemove, MvGiveUp, MvEnds, MvDies,
     MvUnchanged, mounting, vars
<1>5. CASE card' = card
  BY <1>3, <1>4, <1>5 DEF NothingIsLost
<1>6. ASSUME NEW t \in Transfers, MvStep(t), card' # card PROVE NothingIsLost'
  <2>1. /\ at[t] \in plan[t] /\ left[t] = {} /\ card \ card' \subseteq Under[at[t]]
        /\ at[t] # NoNode
    BY <1>6, CardShrinks, NoNodeAssumption DEF NoNodeAssumption, BaseInv, TypeInv, TypeOK
  <2>2. CardOf[t] \in Recorded
    <3>1. mv[t] # "none"
      BY <1>6 DEF MvStep, MvEntry, MvCopy, MvRemove, MvGiveUp, MvEnds, MvDies
    <3> QED
      BY <3>1 DEF RecordedInv
  <2>3. \A f \in Files \cap card : f \in card' \/ SavedIn(CardOf[t], f)
    BY <2>1 DEF CopiesInv
  <2> QED
    BY <1>3, <1>4, <2>2, <2>3 DEF NothingIsLost, Saved
<1> QED
  <2>1. card' = card \/ \E t \in Transfers : MvStep(t)
    BY DEF Next, MountStep, LoadConfig, DismissConfigError, Replug, SpawnTransfer, Crash, Restart,
       UserStep, ThreadStep, Approve, Deny, CancelEmpty, ProceedEmpty, DismissError, DismissLogError, Unfit, PlanMove,
       Record, TakeResult, Finalize, vars
  <2> QED
    BY <1>5, <1>6, <2>1

LEMMA MovesNext == ASSUME DirsAreExclusive PROVE IInv /\ [Next]_vars => IInv'
<1> SUFFICES ASSUME IInv, [Next]_vars PROVE IInv'
  OBVIOUS
<1>1. BaseInv' /\ CompleteInv'
  BY BaseNext, CompleteNext DEF IInv
<1>2. RecordedInv'
  BY RecordedNext DEF IInv, BaseInv
<1>3. CopiesInv' /\ OwnersInv'
  BY CopiesNext, OwnersNext DEF IInv
<1>4. NothingIsLost'
  BY LostNext
<1> QED
  BY <1>1, <1>2, <1>3, <1>4 DEF IInv

-----------------------------------------------------------------------------
(* Every directory is offered *)

\* What the mount thread settles on takes something of every directory it has to.
LEMMA EffectiveOverridesCover ==
  ASSUME NEW config, NEW nodes, config.state = "read", ~config.lax,
         NEW n \in (Children[Root] \cap nodes) \ (Files \cup config.ignored)
  PROVE  EffectiveOverrides(config, nodes) \cap (Under[n] \cup {Root, WholeCard}) # {}
<1>1. CASE EffectiveOverrides(config, nodes) = {WholeCard}
  BY <1>1
<1>2. CASE EffectiveOverrides(config, nodes) # {WholeCard}
  <2>1. /\ ~Rejected(config, nodes)
        /\ EffectiveOverrides(config, nodes) = Overrides(config, nodes)
        /\ Overrides(config, nodes) # {}
    BY <1>2 DEF EffectiveOverrides
  <2>2. UnhandledDirs(config, nodes) = {}
    BY <2>1 DEF Rejected
  <2>3. CASE WholeCard \in Overrides(config, nodes)
    BY <2>1, <2>3
  <2>4. CASE WholeCard \notin Overrides(config, nodes)
    <3>1. n \notin {m \in (Children[Root] \cap nodes) \ Files :
                      m \notin config.ignored /\ Overrides(config, nodes) \cap Under[m] = {}}
      BY <2>1, <2>2, <2>4 DEF UnhandledDirs
    <3> QED
      BY <2>1, <3>1
  <2> QED
    BY <2>3, <2>4
<1> QED
  BY <1>1, <1>2

\* Nothing else takes an offer back: a transfer that is started takes the place of its
\* override, and the card only loses nodes.
LEMMA OffersStay ==
  ASSUME DirectoriesOffered, plugged' = plugged, card' \subseteq card,
         \A n \in Nodes : Offered(n) => Offered(n)'
  PROVE  DirectoriesOffered'
<1>1. Children[Root] \subseteq Nodes
  BY TreeAssumption DEF TreeAssumption
<1> QED
  BY <1>1 DEF DirectoriesOffered

\* What was offered are transfers that were started.
OffersInv == \A t \in offers : pc[t] # "unborn"

LEMMA OffersNext == BaseInv /\ OffersInv /\ [Next]_vars => OffersInv'
<1> SUFFICES ASSUME BaseInv, OffersInv, [Next]_vars PROVE OffersInv'
  OBVIOUS
<1> USE DEF OffersInv, BaseInv, TypeInv, TypeOK
<1>1. CASE LoadConfig
  BY <1>1 DEF LoadConfig
<1>2. CASE DismissConfigError \/ Replug \/ Crash \/ Restart \/ UNCHANGED vars
  BY <1>2 DEF DismissConfigError, Replug, Crash, Restart, vars
<1>3. ASSUME NEW t \in Transfers, NEW o \in overrides, SpawnTransfer(t, o) PROVE OffersInv'
  BY <1>3 DEF SpawnTransfer
<1>4. ASSUME NEW t \in Transfers, UserStep(t) \/ ThreadStep(t) PROVE OffersInv'
  <2>1. offers' = offers
    BY <1>4 DEF UserStep, ThreadStep, Approve, Deny, CancelEmpty, ProceedEmpty, DismissError,
       DismissLogError, Unfit, PlanMove, Record, TakeResult, Finalize, mounting
  <2>2. \E step \in Steps \ {"unborn"} : pc' = [pc EXCEPT ![t] = step]
    BY <1>4 DEF UserStep, ThreadStep, Approve, Deny, CancelEmpty, ProceedEmpty, DismissError,
       DismissLogError, Unfit, PlanMove, Record, TakeResult, Finalize, Steps
  <2> QED
    BY <2>1, <2>2
<1>5. ASSUME NEW t \in Transfers, MvStep(t) PROVE OffersInv'
  BY <1>5 DEF MvStep, MvEntry, MvCopy, MvRemove, MvGiveUp, MvEnds, MvDies, MvUnchanged, mounting
<1> QED
  BY <1>1, <1>2, <1>3, <1>4, <1>5 DEF Next, MountStep

LEMMA OfferedNext == BaseInv /\ OffersInv /\ OfferedInv /\ [Next]_vars => OfferedInv'
<1> SUFFICES ASSUME BaseInv, OffersInv, OfferedInv, [Next]_vars PROVE OfferedInv'
  OBVIOUS
<1>1. CASE LoadConfig
  <2>1. /\ plugged' = plugged /\ card' = card
        /\ overrides' = EffectiveOverrides(ConfigRead, card)
    BY <1>1 DEF LoadConfig
  <2>2. plugged.config.state = "read" /\ ~plugged.config.lax =>
          \A n \in (Children[Root] \cap card) \ (Files \cup plugged.config.ignored) :
             overrides' \cap (Under[n] \cup {Root, WholeCard}) # {}
    <3>1. CASE ConfigFile \in card
      BY <2>1, <3>1, EffectiveOverridesCover DEF ConfigRead
    <3>2. CASE ConfigFile \notin card
      <4>1. plugged.config \in ConfigType
        BY CardsAssumption DEF CardsAssumption, BaseInv, TypeInv, TypeOK
      <4>2. ConfigRead.state = "absent"
        BY <3>2, <4>1 DEF ConfigRead, ConfigType
      <4>3. overrides' = {WholeCard}
        BY <2>1, <4>2 DEF EffectiveOverrides
      <4> QED
        BY <4>3
    <3> QED
      BY <3>1, <3>2
  <2> QED
    BY <2>1, <2>2 DEF OfferedInv, DirectoriesOffered, Offered
<1>2. CASE DismissConfigError
  <2>1. DirectoriesOffered
    BY <1>2 DEF DismissConfigError, OfferedInv
  <2>2. UNCHANGED <<plugged, card, overrides, offers, detected>>
    BY <1>2 DEF DismissConfigError, planning
  <2> QED
    BY <2>1, <2>2, OffersStay DEF Offered, OfferedInv
<1>3. CASE Replug \/ Crash \/ Restart
  BY <1>3 DEF Replug, Crash, Restart, OfferedInv
<1>4. ASSUME NEW t \in Transfers, NEW o \in overrides, SpawnTransfer(t, o) PROVE OfferedInv'
  <2>1. DirectoriesOffered
    BY <1>4 DEF SpawnTransfer, OfferedInv
  <2>2. /\ plugged' = plugged /\ card' = card
        /\ overrides' = overrides \ {o} /\ offers' = offers \cup {t}
    BY <1>4 DEF SpawnTransfer
  <2>3. /\ detected'[t] = IF o = WholeCard THEN Root ELSE o
        /\ \A u \in Transfers \ {t} : detected'[u] = detected[u]
        /\ t \notin offers /\ offers \subseteq Transfers
    BY <1>4 DEF SpawnTransfer, OffersInv, BaseInv, TypeInv, TypeOK
  <2>4. ASSUME NEW n \in Nodes, Offered(n) PROVE Offered(n)'
    BY <2>2, <2>3, <2>4 DEF Offered
  <2> QED
    BY <2>1, <2>2, <2>4, OffersStay DEF OfferedInv
<1>5. ASSUME UNCHANGED <<prog, plugged, mount, overrides, offers, detected>>, card' \subseteq card
      PROVE  OfferedInv'
  <2>1. ASSUME NEW n \in Nodes, Offered(n) PROVE Offered(n)'
    BY <1>5, <2>1 DEF Offered
  <2> QED
    BY <1>5, <2>1, OffersStay DEF OfferedInv
<1>6. ASSUME NEW t \in Transfers, UserStep(t) \/ ThreadStep(t) PROVE OfferedInv'
  <2>1. UNCHANGED <<prog, plugged, mount, overrides, offers, detected, card>>
    BY <1>6 DEF UserStep, ThreadStep, Approve, Deny, CancelEmpty, ProceedEmpty, DismissError,
       DismissLogError, Unfit, PlanMove, Record, TakeResult, Finalize, mounting, planning
  <2> QED
    BY <1>5, <2>1
<1>7. ASSUME NEW t \in Transfers, MvStep(t) PROVE OfferedInv'
  <2>1. UNCHANGED <<prog, plugged, mount, overrides, offers, detected>>
    BY <1>7 DEF MvStep, MvEntry, MvCopy, MvRemove, MvGiveUp, MvEnds, MvDies, MvUnchanged,
       mounting, planning
  <2> QED
    BY <1>5, <1>7, <2>1, CardShrinks
<1>8. CASE UNCHANGED vars
  BY <1>5, <1>8 DEF vars
<1> QED
  BY <1>1, <1>2, <1>3, <1>4, <1>6, <1>7, <1>8 DEF Next, MountStep

\* Unless its configuration says so, no directory of a card goes without a transfer that
\* takes something of it, whatever the configuration, the tree, the moves and the stops.
THEOREM EveryDirectoryOffered == Spec => []EveryDirectoryIsOffered
<1>1. Init => OffersInv /\ OfferedInv
  BY DEF Init, OffersInv, OfferedInv
<1>2. OfferedInv => EveryDirectoryIsOffered
  BY DEF OfferedInv, EveryDirectoryIsOffered
<1>3. BaseInv /\ OffersInv /\ OfferedInv /\ [Next]_vars => (BaseInv /\ OffersInv /\ OfferedInv)'
  BY BaseNext, OffersNext, OfferedNext
<1> QED
  BY <1>1, <1>2, <1>3, BaseInit, PTL DEF Spec

-----------------------------------------------------------------------------
(* The theorems about the files *)

\* While every transfer has a card directory of its own, no file of a card is lost: it is on
\* the card or whole where the log's file says.
THEOREM NothingLost ==
  ASSUME DirsAreExclusive PROVE Spec => []NothingIsLost
<1>1. IInv => NothingIsLost
  BY DEF IInv
<1>2. IInv /\ [Next]_vars => IInv'
  BY MovesNext
<1> QED
  BY <1>1, <1>2, MovesInit, PTL DEF Spec

\* A transfer the log's file calls succeeded has left nothing of its plan on the card.
THEOREM SucceededComplete ==
  ASSUME DirsAreExclusive PROVE Spec => []SucceededTransfersAreComplete
<1>1. IInv => SucceededTransfersAreComplete
  <2> SUFFICES ASSUME IInv, NEW i \in DOMAIN disk, disk[i].outcome = "succeeded",
                      NEW e \in plan[disk[i].owner]
               PROVE  Under[e] \cap card = {}
    BY DEF SucceededTransfersAreComplete
  <2> DEFINE t == disk[i].owner
  <2>1. t \in Transfers
    <3>1. disk[i] \in Records
      BY DEF IInv, BaseInv, TypeInv, TypeOK
    <3> QED
      BY <3>1 DEF Records
  <2>2. outcome[t] = "succeeded"
    BY DEF IInv, OwnersInv, Owned
  <2>3. mv[t] = "ok" /\ todo[t] = {} /\ at[t] = NoNode
    BY <2>1, <2>2 DEF IInv, CompleteInv
  <2>4. e # NoNode
    BY <2>1, NoNodeAssumption DEF NoNodeAssumption, IInv, BaseInv, TypeInv, TypeOK
  <2> QED
    BY <2>1, <2>3, <2>4 DEF IInv, CompleteInv
<1>2. IInv /\ [Next]_vars => IInv'
  BY MovesNext
<1> QED
  BY <1>1, <1>2, MovesInit, PTL DEF Spec
=============================================================================
