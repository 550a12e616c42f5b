----------------------------- MODULE CardIdsProofs -----------------------------
(***************************************************************************)
(* Theorems about CardIds: types, the agreement of registry and fields,    *)
(* and that numbered card directories are not shared.                      *)
(***************************************************************************)
EXTENDS CardIds, FiniteSetTheorems, WellFoundedInduction, TLAPS

-----------------------------------------------------------------------------
(* Numbers *)

LEMMA NumbersAreNaturals == Numbers \subseteq Nat /\ Numbers \subseteq Int
BY MaxCardAssumption DEF Numbers, MaxCardAssumption

LEMMA NoNumberIsNone ==
    /\ NoNumber \notin Ids /\ NoNumber \notin Numbers /\ Empty \notin Numbers
    /\ Empty \notin Words /\ Numbers \subseteq Ids
BY NumbersAreNaturals, IdsAssumption DEF Ids, IdsAssumption

LEMMA NumberType ==
    ASSUME NEW id
    PROVE  Number(id) \in Numbers \cup {NoNumber}
BY DEF Number

\* A set of card numbers has a first and a last one.
LEMMA FirstExists ==
    ASSUME NEW S \in SUBSET Numbers, S # {}
    PROVE  \E x \in S : \A y \in S : x <= y
<1> DEFINE up == {0..i : i \in S}
           wf == StrictSubsetOrdering(Numbers)
<1>0. MaxCard \in Nat
    BY MaxCardAssumption DEF MaxCardAssumption
<1>1. IsFiniteSet(Numbers)
    BY <1>0, FS_Interval DEF Numbers
<1>2. FiniteSubsetsOf(Numbers) = SUBSET Numbers
    BY <1>1, FS_FiniteSubsetsOfFinite
<1>3. IsWellFoundedOn(wf, SUBSET Numbers)
    BY <1>2, FS_StrictSubsetOrderingWellFounded
<1>4. up \subseteq SUBSET Numbers /\ up # {}
    <2>1. \A i \in S : 0..i \in SUBSET Numbers
        BY <1>0 DEF Numbers
    <2> QED  BY <2>1, Zenon
<1>5. PICK m \in up : \A u \in up : <<u, m>> \notin wf
    <2> HIDE DEF up, wf
    <2> QED  BY <1>3, <1>4, WFMin, Zenon
<1>6. PICK x \in S : m = 0..x
    BY Zenon
<1>7. ASSUME NEW y \in S, y < x
      PROVE  FALSE
    <2>0. x \in Nat /\ y \in Nat
        BY NumbersAreNaturals
    <2>1. 0..y \subseteq 0..x /\ 0..y # 0..x
        <3>1. x \in 0..x /\ x \notin 0..y
            BY <1>7, <2>0
        <3> QED  BY <3>1, <1>7, <2>0
    <2>2. 0..y \in up /\ 0..y \in SUBSET Numbers /\ 0..x \in SUBSET Numbers
        <3>1. 0..y \in up
            BY Zenon
        <3> QED  BY <3>1, <1>0 DEF Numbers
    <2>3. <<0..y, 0..x>> \in wf
        BY <2>1, <2>2 DEF StrictSubsetOrdering
    <2> QED  BY <1>5, <1>6, <2>2, <2>3
<1> QED  BY <1>7, NumbersAreNaturals

LEMMA LastExists ==
    ASSUME NEW S \in SUBSET Numbers, S # {}
    PROVE  \E x \in S : \A y \in S : y <= x
<1> DEFINE T == {MaxCard - i : i \in S}
<1>0. MaxCard \in Nat
    BY MaxCardAssumption DEF MaxCardAssumption
<1>1. T \in SUBSET Numbers /\ T # {}
    <2>1. \A i \in S : MaxCard - i \in Numbers
        BY <1>0 DEF Numbers
    <2> QED  BY <2>1, Zenon
<1>2. PICK m \in T : \A y \in T : m <= y
    <2> HIDE DEF T
    <2> QED  BY <1>1, FirstExists, Zenon
<1>3. PICK x \in S : m = MaxCard - x
    BY Zenon
<1>4. ASSUME NEW y \in S
      PROVE  y <= x
    <2>1. MaxCard - x <= MaxCard - y
        BY <1>2, <1>3, Zenon
    <2> QED  BY <2>1, <1>0, NumbersAreNaturals
<1> QED  BY <1>4

\* The base of a directory is past every number that has a card directory there.
LEMMA BaseIsPast ==
    ASSUME NEW d \in Dirs
    PROVE  /\ Base(d) \in Nat
           /\ \A n \in cards[d] \cap Numbers : n < Base(d)
<1> DEFINE used == cards[d] \cap Numbers
           last == CHOOSE n \in used : \A m \in used : m <= n
<1>1. CASE used = {}
    BY <1>1 DEF Base
<1>2. CASE used # {}
    <2>1. last \in used /\ \A m \in used : m <= last
        <3>1. \E x \in used : \A y \in used : y <= x
            BY <1>2, LastExists
        <3> QED  BY <3>1
    <2>2. Base(d) = 1 + last
        BY <1>2 DEF Base
    <2> HIDE DEF last
    <2>3. last \in Nat /\ \A m \in used : m \in Nat
        BY <2>1, NumbersAreNaturals
    <2>4. \A m \in used : m < Base(d)
        BY <2>1, <2>2, <2>3
    <2> QED  BY <2>2, <2>3, <2>4
<1> QED  BY <1>1, <1>2

\* What next_card_id returns is no error only if it is a free number.
LEMMA GeneratedIsFree ==
    ASSUME NEW d \in Dirs, NEW t, NEW n \in Generated(d, t), n # NoNumber
    PROVE  n \in Free(d, t) /\ n \in Numbers
<1>1. Free(d, t) \subseteq Numbers
    BY BaseIsPast, MaxCardAssumption DEF Free, Numbers, MaxCardAssumption
<1>2. n = NextCardId(d, t) /\ Free(d, t) # {}
    BY DEF Generated, NextCardId
<1>3. \E x \in Free(d, t) : \A y \in Free(d, t) : x <= y
    BY <1>1, <1>2, FirstExists
<1>4. n \in Free(d, t)
    BY <1>2, <1>3 DEF NextCardId
<1> QED  BY <1>1, <1>4

LEMMA GeneratedType ==
    ASSUME NEW d \in Dirs, NEW t, NEW n \in Generated(d, t)
    PROVE  n \in Numbers \cup {NoNumber}
BY GeneratedIsFree

-----------------------------------------------------------------------------
(* Types *)

\* Registrations keep the types of the registry.
LEMMA RegisterType ==
    ASSUME TypeOK, NEW t \in Transfers, NEW d \in Dirs, NEW n \in Numbers \cup {NoNumber},
           RegisterUnder(t, d, n)
    PROVE  /\ reg' \in [Transfers -> Dirs \cup {NoDir}]
           /\ slot' \in [Transfers -> Numbers \cup {NoNumber}]
BY DEF TypeOK, RegisterUnder

LEMMA UnregisterType ==
    ASSUME TypeOK, NEW t \in Transfers, Unregister(t)
    PROVE  /\ reg' \in [Transfers -> Dirs \cup {NoDir}]
           /\ slot' \in [Transfers -> Numbers \cup {NoNumber}]
           /\ sub' \subseteq Transfers /\ note' \subseteq Transfers
BY DEF TypeOK, Unregister, Subscribers

LEMMA UpdateType ==
    ASSUME TypeOK, NEW t \in Transfers, NEW n \in Numbers \cup {NoNumber}, UpdateSlot(t, n)
    PROVE  /\ reg' \in [Transfers -> Dirs \cup {NoDir}]
           /\ slot' \in [Transfers -> Numbers \cup {NoNumber}]
           /\ sub' \subseteq Transfers /\ note' \subseteq Transfers
BY DEF TypeOK, UpdateSlot, Subscribers

LEMMA GotoType ==
    ASSUME TypeOK, NEW t \in Transfers, NEW step \in Steps, Goto(t, step)
    PROVE  pc' \in [Transfers -> Steps]
BY DEF TypeOK, Goto

LEMMA GiveUpType ==
    ASSUME TypeOK, NEW t \in Transfers, GiveUp(t)
    PROVE  TypeOK'
<1>1. pc' \in [Transfers -> Steps]
    <2>1. "ended" \in Steps
        BY DEF Steps
    <2> QED  BY <2>1, GotoType DEF GiveUp
<1>2. lock' \in [Dirs -> Transfers \cup {Nobody}]
    BY DEF GiveUp, TypeOK
<1> QED  BY <1>1, <1>2, UnregisterType DEF GiveUp, TypeOK, fields

LEMMA CardType ==
    ASSUME TypeOK, NEW t \in Transfers, NEW id \in Ids, NEW over \in BOOLEAN,
           card' \in {card, [card EXCEPT ![t] = id]}, manual' \in {manual, [manual EXCEPT ![t] = over]}
    PROVE  card' \in [Transfers -> Ids] /\ manual' \in [Transfers -> BOOLEAN]
BY DEF TypeOK

LEMMA IdTypes ==
    /\ Empty \in Ids /\ Numbers \subseteq Ids /\ Typed \subseteq Ids
    /\ FourDigit \subseteq Dirs /\ Freeform \subseteq Dirs
BY TypedAssumption DEF Ids, Dirs, Numbers, TypedAssumption

LEMMA ThreadType ==
    ASSUME TypeOK, StepsInv, NEW t \in Transfers, ThreadStep(t) \/ UserStep(t)
    PROVE  TypeOK'
<1>1. CASE Spawn(t)
    BY <1>1, GotoType DEF Spawn, TypeOK, Steps, registry
<1>2. CASE InitialCardId(t)
    <2>1. CASE dir[t] \notin FourDigit \/ UNCHANGED card
        BY <1>2, <2>1, GotoType DEF InitialCardId, TypeOK, Steps, registry
    <2>2. CASE dir[t] \in FourDigit /\ card' # card
        <3>1. PICK n \in Generated(dir[t], t) : n # NoNumber /\ Goto(t, "registering")
                                               /\ card' = [card EXCEPT ![t] = n]
            BY <1>2, <2>2, DirsAssumption DEF InitialCardId, DirsAssumption
        <3>2. n \in Ids
            BY <2>2, <3>1, GeneratedIsFree, IdTypes
        <3> QED  BY <1>2, <3>1, <3>2, GotoType DEF InitialCardId, TypeOK, Steps, registry
    <2> QED  BY <2>1, <2>2
<1>3. CASE Register(t)
    <2>1. dir[t] \in Dirs
        BY <1>3 DEF Register, StepsInv, InStep
    <2>2. note' \subseteq Transfers
        BY <1>3 DEF Register, TypeOK, Subscribers
    <2> QED  BY <1>3, <2>1, <2>2, GotoType, RegisterType, NumberType
             DEF Register, TypeOK, Steps, fields
<1>4. CASE Subscribe(t)
    BY <1>4, GotoType DEF Subscribe, TypeOK, Steps, fields
<1>5. CASE ChangeCardId(t)
    <2>1. pc' \in [Transfers -> Steps]
        <3>1. "asking" \in Steps /\ "claiming" \in Steps
            BY DEF Steps
        <3> QED  BY <1>5, <3>1, GotoType DEF ChangeCardId
    <2>2. CASE \E id \in Typed : /\ card' = [card EXCEPT ![t] = id]
                                /\ manual' = [manual EXCEPT ![t] = TRUE]
        BY <1>5, <2>1, <2>2, IdTypes, CardType DEF ChangeCardId, TypeOK, registry
    <2>3. ASSUME NEW n \in IF dir[t] \in FourDigit THEN Generated(dir[t], t) ELSE {NoNumber},
                 card' = [card EXCEPT ![t] = IF n = NoNumber THEN Empty ELSE n],
                 manual' = [manual EXCEPT ![t] = (n = NoNumber)]
          PROVE  TypeOK'
        <3>1. n \in Numbers \cup {NoNumber}
            BY IdTypes, GeneratedType
        <3>2. card' \in [Transfers -> Ids] /\ manual' \in [Transfers -> BOOLEAN]
            BY <2>3, <3>1, IdTypes DEF TypeOK
        <3> QED  BY <1>5, <2>1, <3>2 DEF ChangeCardId, TypeOK, registry
    <2> QED  BY <1>5, <2>2, <2>3 DEF ChangeCardId
<1>6. CASE Notified(t)
    <2>1. PICK n \in IF dir[t] \in FourDigit /\ ~manual[t] THEN Generated(dir[t], t) ELSE {NoNumber} :
              IF n \in {NoNumber, card[t]} THEN UNCHANGED <<pc, card>>
              ELSE Goto(t, "claiming") /\ card' = [card EXCEPT ![t] = n]
        BY <1>6 DEF Notified
    <2>2. n \in Numbers \cup {NoNumber}
        BY IdTypes, GeneratedType
    <2>3. pc' \in [Transfers -> Steps] /\ card' \in [Transfers -> Ids]
        BY <2>1, <2>2, IdTypes, GotoType DEF TypeOK, Steps
    <2>4. note' \subseteq Transfers
        BY <1>6 DEF Notified, TypeOK
    <2> QED  BY <1>6, <2>3, <2>4 DEF Notified, TypeOK
<1>7. CASE UpdateId(t)
    BY <1>7, GotoType, UpdateType, NumberType DEF UpdateId, TypeOK, Steps, fields
<1>8. CASE ChooseSourceMedia(t)
    <2>1. PICK d \in Dirs :
              /\ dir' = [dir EXCEPT ![t] = d]
              /\ IF d \in FourDigit /\ ~manual[t]
                 THEN \E n \in Generated(d, t) :
                         card' = [card EXCEPT ![t] = IF n = NoNumber THEN Empty ELSE n]
                 ELSE UNCHANGED card
        BY <1>8 DEF ChooseSourceMedia
    <2>2. card' \in [Transfers -> Ids]
        <3>1. ASSUME NEW n \in Generated(d, t),
                     card' = [card EXCEPT ![t] = IF n = NoNumber THEN Empty ELSE n]
              PROVE  card' \in [Transfers -> Ids]
            BY <3>1, GeneratedType, IdTypes DEF TypeOK
        <3> QED  BY <2>1, <3>1 DEF TypeOK
    <2> QED  BY <1>8, <2>1, <2>2, GotoType DEF ChooseSourceMedia, TypeOK, Steps, registry
<1>9. CASE MoveSourceMedia(t)
    <2>1. dir[t] \in Dirs
        BY <1>9 DEF MoveSourceMedia, StepsInv, InStep
    <2>2. note' \subseteq Transfers /\ sub' \subseteq Transfers
        BY <1>9 DEF MoveSourceMedia, TypeOK, Subscribers
    <2> QED  BY <1>9, <2>1, <2>2, GotoType, RegisterType, NumberType
             DEF MoveSourceMedia, TypeOK, Steps, fields
<1>10. CASE Approve(t)
    BY <1>10, GotoType DEF Approve, TypeOK, Steps, fields, registry
<1>11. CASE Deny(t)
    BY <1>11, GiveUpType DEF Deny
<1>12. CASE Withdraw(t)
    BY <1>12, GiveUpType DEF Withdraw
<1>13. CASE Warn(t)
    BY <1>13, GiveUpType, GotoType DEF Warn, TypeOK, Steps, fields, registry
<1>14. CASE TakeApprovalLock(t)
    BY <1>14, GotoType DEF TakeApprovalLock, TypeOK, Steps, fields, registry
<1>15. CASE CheckSequence(t)
    BY <1>15, GiveUpType, GotoType DEF CheckSequence, TypeOK, Steps, fields, registry
<1>16. CASE Suggest(t)
    <2>1. CASE uiUp
        <3>1. PICK n \in IF dir[t] \in FourDigit THEN Generated(dir[t], t) ELSE {NoNumber} :
                offer' = [offer EXCEPT ![t] =
                    IF (pc[t] = "gap" /\ n # card[t]) \/ (pc[t] = "taken" /\ ~manual[t])
                    THEN n ELSE NoNumber]
            BY <1>16, <2>1 DEF Suggest
        <3>2. n \in Numbers \cup {NoNumber}
            BY IdTypes, GeneratedType
        <3>3. offer' \in [Transfers -> Numbers \cup {NoNumber}]
            BY <3>1, <3>2 DEF TypeOK
        <3>4. pc' \in [Transfers -> Steps]
            BY <1>16, <2>1, GotoType DEF Suggest, Steps
        <3> QED  BY <1>16, <2>1, <3>3, <3>4 DEF Suggest, TypeOK, fields, registry
    <2>2. CASE ~uiUp
        BY <1>16, <2>2, GiveUpType DEF Suggest
    <2> QED  BY <2>1, <2>2
<1>17. CASE UseNew(t)
    BY <1>17, GotoType, UpdateType, IdTypes DEF UseNew, TypeOK, Steps
<1>18. CASE UseOriginal(t)
    BY <1>18, GotoType DEF UseOriginal, TypeOK, Steps, fields, registry
<1>19. CASE BackToQuery(t)
    BY <1>19, GotoType DEF BackToQuery, TypeOK, Steps, fields, registry
<1>20. CASE CheckLog(t)
    BY <1>20, GiveUpType, GotoType DEF CheckLog, TypeOK, Steps, fields, registry
<1>21. CASE CreateCardDirectory(t)
    <2>1. CASE GiveUp(t)
        BY <2>1, GiveUpType
    <2>2. CASE ~GiveUp(t)
        <3>1. card[t] \in Ids \ {Empty} /\ dir[t] \in Dirs
            BY <1>21 DEF CreateCardDirectory, StepsInv, InStep, Settled, TypeOK
        <3>2. cards' \in [Dirs -> SUBSET (Ids \ {Empty})]
            BY <1>21, <2>2, <3>1 DEF CreateCardDirectory, TypeOK
        <3> QED  BY <1>21, <2>2, <3>2, GotoType
                 DEF CreateCardDirectory, TypeOK, Steps, fields, registry
    <2> QED  BY <2>1, <2>2
<1>22. CASE UnregisterMade(t)
    BY <1>22, GotoType, UnregisterType DEF UnregisterMade, TypeOK, Steps, fields
<1>23. CASE AddTransfer(t)
    <2>1. card[t] \in Ids \ {Empty} /\ dir[t] \in Dirs
        BY <1>23 DEF AddTransfer, StepsInv, InStep, Working, TypeOK
    <2>2. log' \subseteq [by : Transfers, dir : Dirs, card : Ids \ {Empty}]
        BY <1>23, <2>1 DEF AddTransfer, TypeOK
    <2>3. pc' \in [Transfers -> Steps]
        BY <1>23, GotoType DEF AddTransfer, Steps
    <2> QED  BY <1>23, <2>2, <2>3 DEF AddTransfer, TypeOK, fields, registry
<1>24. CASE Finish(t)
    BY <1>24, GotoType DEF Finish, TypeOK, Steps, fields, registry
<1> QED  BY <1>1, <1>2, <1>3, <1>4, <1>5, <1>6, <1>7, <1>8, <1>9, <1>10, <1>11, <1>12, <1>13, <1>14,
            <1>15, <1>16, <1>17, <1>18, <1>19, <1>20, <1>21, <1>22, <1>23, <1>24
         DEF ThreadStep, UserStep

-----------------------------------------------------------------------------
(* A step of one transfer, as the others see it *)

OthersKeep(t) ==
    /\ \A u \in Transfers \ {t} :
          /\ pc'[u] = pc[u] /\ dir'[u] = dir[u] /\ card'[u] = card[u]
          /\ reg'[u] = reg[u] /\ slot'[u] = slot[u]
          /\ offer'[u] = offer[u] /\ via'[u] = via[u]
          /\ \A d \in Dirs : lock'[d] = u <=> lock[d] = u
    /\ \A d \in Dirs : cards[d] \subseteq cards'[d]

LEMMA GiveUpOthers ==
    ASSUME TypeOK, NEW t \in Transfers, GiveUp(t)
    PROVE  OthersKeep(t)
BY NobodyAssumption
   DEF GiveUp, Goto, Unregister, OthersKeep, TypeOK, fields, NobodyAssumption

\* Only the transfer itself changes its fields, its place and its step; others take and
\* release only locks of their own, and no thread removes a card directory.
LEMMA OthersKept ==
    ASSUME TypeOK, RegistryMatchesFields, StepsInv, NEW t \in Transfers,
           ThreadStep(t) \/ UserStep(t)
    PROVE  OthersKeep(t)
<1>1. CASE Spawn(t)
    BY <1>1 DEF Spawn, Goto, OthersKeep, TypeOK, fields, registry
<1>2. CASE InitialCardId(t)
    BY <1>2 DEF InitialCardId, Goto, OthersKeep, TypeOK, fields, registry
<1>3. CASE Register(t)
    BY <1>3 DEF Register, Goto, OthersKeep, TypeOK, RegisterUnder, fields, registry
<1>4. CASE Subscribe(t)
    BY <1>4 DEF Subscribe, Goto, OthersKeep, TypeOK, fields, registry
<1>5. CASE ChangeCardId(t)
    BY <1>5 DEF ChangeCardId, Goto, OthersKeep, TypeOK, fields, registry
<1>6. CASE Notified(t)
    BY <1>6 DEF Notified, Goto, OthersKeep, TypeOK, fields, registry
<1>7. CASE UpdateId(t)
    BY <1>7 DEF UpdateId, Goto, OthersKeep, TypeOK, UpdateSlot, fields, registry
<1>8. CASE ChooseSourceMedia(t)
    BY <1>8 DEF ChooseSourceMedia, Goto, OthersKeep, TypeOK, fields, registry
<1>9. CASE MoveSourceMedia(t)
    BY <1>9 DEF MoveSourceMedia, Goto, OthersKeep, TypeOK, RegisterUnder, fields, registry
<1>10. CASE Approve(t)
    BY <1>10 DEF Approve, Goto, OthersKeep, TypeOK, fields, registry
<1>11. CASE Deny(t)
    BY <1>11, GiveUpOthers DEF Deny
<1>12. CASE Withdraw(t)
    BY <1>12, GiveUpOthers DEF Withdraw
<1>13. CASE Warn(t)
    BY <1>13, GiveUpOthers DEF Warn, Goto, OthersKeep, TypeOK, fields, registry
<1>14. CASE TakeApprovalLock(t)
    BY <1>14, NobodyAssumption DEF TakeApprovalLock, Goto, OthersKeep, TypeOK, fields, registry, StepsInv, InStep, Locking, NobodyAssumption
<1>15. CASE CheckSequence(t)
    BY <1>15, GiveUpOthers, NobodyAssumption DEF CheckSequence, Goto, OthersKeep, TypeOK, fields, registry, StepsInv, InStep, Locking, NobodyAssumption
<1>16. CASE Suggest(t)
    BY <1>16, GiveUpOthers DEF Suggest, Goto, OthersKeep, TypeOK, fields, registry
<1>17. CASE UseNew(t)
    BY <1>17, NobodyAssumption DEF UseNew, Goto, OthersKeep, TypeOK, UpdateSlot, fields, registry, StepsInv, InStep, Locking, NobodyAssumption
<1>18. CASE UseOriginal(t)
    BY <1>18, NobodyAssumption DEF UseOriginal, Goto, OthersKeep, TypeOK, fields, registry, StepsInv, InStep, Locking, NobodyAssumption
<1>19. CASE BackToQuery(t)
    BY <1>19, NobodyAssumption DEF BackToQuery, Goto, OthersKeep, TypeOK, fields, registry, StepsInv, InStep, Locking, NobodyAssumption
<1>20. CASE CheckLog(t)
    BY <1>20, GiveUpOthers DEF CheckLog, Goto, OthersKeep, TypeOK, fields, registry
<1>21. CASE CreateCardDirectory(t)
    BY <1>21, GiveUpOthers DEF CreateCardDirectory, Goto, OthersKeep, TypeOK, fields, registry
<1>22. CASE UnregisterMade(t)
    BY <1>22 DEF UnregisterMade, Goto, OthersKeep, TypeOK, Unregister, fields, registry
<1>23. CASE AddTransfer(t)
    BY <1>23 DEF AddTransfer, Goto, OthersKeep, TypeOK, fields, registry
<1>24. CASE Finish(t)
    BY <1>24 DEF Finish, Goto, OthersKeep, TypeOK, fields, registry
<1> QED  BY <1>1, <1>2, <1>3, <1>4, <1>5, <1>6, <1>7, <1>8, <1>9, <1>10, <1>11, <1>12, <1>13, <1>14,
            <1>15, <1>16, <1>17, <1>18, <1>19, <1>20, <1>21, <1>22, <1>23, <1>24
         DEF ThreadStep, UserStep

-----------------------------------------------------------------------------
(* What a transfer has at each of its steps *)

LEMMA GiveUpInStep ==
    ASSUME TypeOK, NEW t \in Transfers, GiveUp(t)
    PROVE  InStep(t)'
BY DEF GiveUp, Goto, TypeOK, InStep, Locking, Settled, Working

LEMMA OwnStep ==
    ASSUME TypeOK, StepsInv, NEW t \in Transfers, ThreadStep(t) \/ UserStep(t)
    PROVE  InStep(t)'
<1>1. CASE Spawn(t)
    BY <1>1
       DEF Spawn, Goto, StepsInv, InStep, TypeOK, Locking, Settled, Working, fields, registry, Dirs
<1>2. CASE InitialCardId(t)
    BY <1>2
       DEF InitialCardId, Goto, StepsInv, InStep, TypeOK, Locking, Settled, Working, fields, registry, Dirs
<1>3. CASE Register(t)
    BY <1>3
       DEF Register, Goto, StepsInv, InStep, TypeOK, Locking, Settled, Working, RegisterUnder, fields, registry
<1>4. CASE Subscribe(t)
    BY <1>4
       DEF Subscribe, Goto, StepsInv, InStep, TypeOK, Locking, Settled, Working, fields, registry
<1>5. CASE ChangeCardId(t)
    BY <1>5
       DEF ChangeCardId, Goto, StepsInv, InStep, TypeOK, Locking, Settled, Working, fields, registry
<1>6. CASE Notified(t)
    BY <1>6 DEF Notified, Goto, StepsInv, InStep, TypeOK, Locking, Settled, Working, Dirs
<1>7. CASE UpdateId(t)
    BY <1>7
       DEF UpdateId, Goto, StepsInv, InStep, TypeOK, Locking, Settled, Working, UpdateSlot, fields, registry
<1>8. CASE ChooseSourceMedia(t)
    BY <1>8
       DEF ChooseSourceMedia, Goto, StepsInv, InStep, TypeOK, Locking, Settled, Working, fields, registry, Dirs
<1>9. CASE MoveSourceMedia(t)
    BY <1>9
       DEF MoveSourceMedia, Goto, StepsInv, InStep, TypeOK, Locking, Settled, Working, RegisterUnder, fields, registry
<1>10. CASE Approve(t)
    BY <1>10
       DEF Approve, Goto, StepsInv, InStep, TypeOK, Locking, Settled, Working, fields, registry
<1>11. CASE Deny(t)
    BY <1>11, GiveUpInStep DEF Deny
<1>12. CASE Withdraw(t)
    BY <1>12, GiveUpInStep DEF Withdraw
<1>13. CASE Warn(t)
    BY <1>13, GiveUpInStep
       DEF Warn, Goto, StepsInv, InStep, TypeOK, Locking, Settled, Working, fields, registry
<1>14. CASE TakeApprovalLock(t)
    BY <1>14
       DEF TakeApprovalLock, Goto, StepsInv, InStep, TypeOK, Locking, Settled, Working, fields, registry
<1>15. CASE CheckSequence(t)
    BY <1>15, GiveUpInStep
       DEF CheckSequence, Goto, StepsInv, InStep, TypeOK, Locking, Settled, Working, fields, registry
<1>16. CASE Suggest(t)
    BY <1>16, GiveUpInStep
       DEF Suggest, Goto, StepsInv, InStep, TypeOK, Locking, Settled, Working, fields, registry
<1>17. CASE UseNew(t)
    BY <1>17, NoNumberIsNone
       DEF UseNew, Goto, StepsInv, InStep, TypeOK, Locking, Settled, Working, UpdateSlot, fields, registry
<1>18. CASE UseOriginal(t)
    BY <1>18
       DEF UseOriginal, Goto, StepsInv, InStep, TypeOK, Locking, Settled, Working, fields, registry
<1>19. CASE BackToQuery(t)
    BY <1>19
       DEF BackToQuery, Goto, StepsInv, InStep, TypeOK, Locking, Settled, Working, fields, registry
<1>20. CASE CheckLog(t)
    BY <1>20, GiveUpInStep
       DEF CheckLog, Goto, StepsInv, InStep, TypeOK, Locking, Settled, Working, fields, registry
<1>21. CASE CreateCardDirectory(t)
    BY <1>21, GiveUpInStep
       DEF CreateCardDirectory, Goto, StepsInv, InStep, TypeOK, Locking, Settled, Working, fields, registry
<1>22. CASE UnregisterMade(t)
    BY <1>22
       DEF UnregisterMade, Goto, StepsInv, InStep, TypeOK, Locking, Settled, Working, Unregister, fields, registry
<1>23. CASE AddTransfer(t)
    BY <1>23
       DEF AddTransfer, Goto, StepsInv, InStep, TypeOK, Locking, Settled, Working, fields, registry
<1>24. CASE Finish(t)
    BY <1>24
       DEF Finish, Goto, StepsInv, InStep, TypeOK, Locking, Settled, Working, fields, registry
<1> QED  BY <1>1, <1>2, <1>3, <1>4, <1>5, <1>6, <1>7, <1>8, <1>9, <1>10, <1>11, <1>12, <1>13, <1>14,
            <1>15, <1>16, <1>17, <1>18, <1>19, <1>20, <1>21, <1>22, <1>23, <1>24
         DEF ThreadStep, UserStep

LEMMA StepsKept ==
    ASSUME TypeOK, RegistryMatchesFields, StepsInv, NEW t \in Transfers,
           ThreadStep(t) \/ UserStep(t)
    PROVE  StepsInv'
<1>1. OthersKeep(t)
    BY OthersKept
<1>2. ASSUME NEW u \in Transfers, u # t
      PROVE  InStep(u)'
    <2>1. dir[u] \in Dirs => (lock'[dir[u]] = u <=> lock[dir[u]] = u)
                             /\ cards[dir[u]] \subseteq cards'[dir[u]]
        BY <1>1, <1>2 DEF OthersKeep
    <2>2. pc'[u] = pc[u] /\ dir'[u] = dir[u] /\ card'[u] = card[u] /\ reg'[u] = reg[u]
        BY <1>1, <1>2 DEF OthersKeep
    <2> QED  BY <2>1, <2>2 DEF StepsInv, InStep
<1>3. InStep(t)'
    BY OwnStep
<1> QED  BY <1>2, <1>3 DEF StepsInv

-----------------------------------------------------------------------------
(* The registry agrees with the fields *)

ListedRight(t) ==
    pc[t] \notin {"unborn", "starting", "registering", "moving", "unregistered", "copying", "ended"}
        => /\ reg[t] = dir[t]
           /\ dir[t] \in FourDigit /\ pc[t] # "claiming" => slot[t] = Number(card[t])

HeldRight(t) ==
    \A d \in Dirs : lock[d] = t => dir[t] = d /\ reg[t] = d /\ pc[t] \in Locking

LEMMA RegistryByTransfer ==
    ASSUME TypeOK
    PROVE  RegistryMatchesFields <=> \A t \in Transfers : ListedRight(t) /\ HeldRight(t)
BY NobodyAssumption
   DEF TypeOK, RegistryMatchesFields, ListedRight, HeldRight, Locking, NobodyAssumption

LEMMA GiveUpRight ==
    ASSUME TypeOK, NEW t \in Transfers, GiveUp(t)
    PROVE  ListedRight(t)' /\ HeldRight(t)'
BY NobodyAssumption DEF GiveUp, Goto, TypeOK, ListedRight, HeldRight, NobodyAssumption

LEMMA OwnPlace ==
    ASSUME TypeOK, StepsInv, NEW t \in Transfers, ListedRight(t), HeldRight(t),
           ThreadStep(t) \/ UserStep(t)
    PROVE  ListedRight(t)' /\ HeldRight(t)'
<1>1. CASE Spawn(t)
    BY <1>1
       DEF Spawn, Goto, StepsInv, InStep, TypeOK, ListedRight, HeldRight, Number, Locking, fields, registry
<1>2. CASE InitialCardId(t)
    BY <1>2, DirsAssumption
       DEF InitialCardId, Goto, StepsInv, InStep, TypeOK, ListedRight, HeldRight, Locking,
           registry, DirsAssumption
<1>3. CASE Register(t)
    BY <1>3
       DEF Register, Goto, StepsInv, InStep, TypeOK, ListedRight, HeldRight, Number, Locking, RegisterUnder, fields, registry
<1>4. CASE Subscribe(t)
    BY <1>4
       DEF Subscribe, Goto, StepsInv, InStep, TypeOK, ListedRight, HeldRight, Number, Locking, fields, registry
<1>5. CASE ChangeCardId(t)
    <2>1. pc'[t] \in {"asking", "claiming"} /\ (pc'[t] = "asking" => dir[t] = NoDir)
        BY <1>5 DEF ChangeCardId, Goto, TypeOK
    <2>2. dir' = dir /\ reg' = reg /\ lock' = lock /\ pc[t] = "asking"
        BY <1>5 DEF ChangeCardId, registry
    <2> QED  BY <2>1, <2>2, DirsAssumption
             DEF ListedRight, HeldRight, Locking, DirsAssumption
<1>6. CASE Notified(t)
    BY <1>6
       DEF Notified, Goto, StepsInv, InStep, TypeOK, ListedRight, HeldRight, Number, Locking, fields, registry
<1>7. CASE UpdateId(t)
    BY <1>7
       DEF UpdateId, Goto, StepsInv, InStep, TypeOK, ListedRight, HeldRight, Number, Locking, UpdateSlot, fields, registry
<1>8. CASE ChooseSourceMedia(t)
    BY <1>8
       DEF ChooseSourceMedia, Goto, StepsInv, InStep, TypeOK, ListedRight, HeldRight, Number, Locking, fields, registry
<1>9. CASE MoveSourceMedia(t)
    BY <1>9
       DEF MoveSourceMedia, Goto, StepsInv, InStep, TypeOK, ListedRight, HeldRight, Number, Locking, RegisterUnder, fields, registry
<1>10. CASE Approve(t)
    BY <1>10
       DEF Approve, Goto, StepsInv, InStep, TypeOK, ListedRight, HeldRight, Number, Locking, fields, registry
<1>11. CASE Deny(t)
    BY <1>11, GiveUpRight DEF Deny
<1>12. CASE Withdraw(t)
    BY <1>12, GiveUpRight DEF Withdraw
<1>13. CASE Warn(t)
    BY <1>13, GiveUpRight
       DEF Warn, Goto, StepsInv, InStep, TypeOK, ListedRight, HeldRight, Number, Locking, fields, registry
<1>14. CASE TakeApprovalLock(t)
    BY <1>14, NobodyAssumption
       DEF TakeApprovalLock, Goto, StepsInv, InStep, TypeOK, ListedRight, HeldRight, Number, Locking, fields, registry, NobodyAssumption
<1>15. CASE CheckSequence(t)
    BY <1>15, GiveUpRight, NobodyAssumption
       DEF CheckSequence, Goto, StepsInv, InStep, TypeOK, ListedRight, HeldRight, Number, Locking, fields, registry, NobodyAssumption
<1>16. CASE Suggest(t)
    BY <1>16, GiveUpRight
       DEF Suggest, Goto, StepsInv, InStep, TypeOK, ListedRight, HeldRight, Number, Locking, fields, registry
<1>17. CASE UseNew(t)
    BY <1>17, NobodyAssumption, NoNumberIsNone
       DEF UseNew, Goto, StepsInv, InStep, TypeOK, ListedRight, HeldRight, Number, Locking, UpdateSlot, fields, registry, NobodyAssumption
<1>18. CASE UseOriginal(t)
    BY <1>18, NobodyAssumption
       DEF UseOriginal, Goto, StepsInv, InStep, TypeOK, ListedRight, HeldRight, Number, Locking, fields, registry, NobodyAssumption
<1>19. CASE BackToQuery(t)
    BY <1>19, NobodyAssumption
       DEF BackToQuery, Goto, StepsInv, InStep, TypeOK, ListedRight, HeldRight, Number, Locking, fields, registry, NobodyAssumption
<1>20. CASE CheckLog(t)
    BY <1>20, GiveUpRight
       DEF CheckLog, Goto, StepsInv, InStep, TypeOK, ListedRight, HeldRight, Number, Locking, fields, registry
<1>21. CASE CreateCardDirectory(t)
    BY <1>21, GiveUpRight
       DEF CreateCardDirectory, Goto, StepsInv, InStep, TypeOK, ListedRight, HeldRight, Number, Locking, fields, registry
<1>22. CASE UnregisterMade(t)
    BY <1>22
       DEF UnregisterMade, Goto, StepsInv, InStep, TypeOK, ListedRight, HeldRight, Number, Locking, Unregister, fields, registry
<1>23. CASE AddTransfer(t)
    BY <1>23
       DEF AddTransfer, Goto, StepsInv, InStep, TypeOK, ListedRight, HeldRight, Number, Locking, fields, registry
<1>24. CASE Finish(t)
    BY <1>24
       DEF Finish, Goto, StepsInv, InStep, TypeOK, ListedRight, HeldRight, Number, Locking, fields, registry
<1> QED  BY <1>1, <1>2, <1>3, <1>4, <1>5, <1>6, <1>7, <1>8, <1>9, <1>10, <1>11, <1>12, <1>13, <1>14,
            <1>15, <1>16, <1>17, <1>18, <1>19, <1>20, <1>21, <1>22, <1>23, <1>24
         DEF ThreadStep, UserStep

LEMMA RegistryKept ==
    ASSUME TypeOK, TypeOK', RegistryMatchesFields, StepsInv, NEW t \in Transfers,
           ThreadStep(t) \/ UserStep(t)
    PROVE  RegistryMatchesFields'
<1>1. OthersKeep(t)
    BY OthersKept
<1>2. \A u \in Transfers : ListedRight(u) /\ HeldRight(u)
    BY RegistryByTransfer
<1>3. ASSUME NEW u \in Transfers, u # t
      PROVE  ListedRight(u)' /\ HeldRight(u)'
    <2>1. /\ pc'[u] = pc[u] /\ dir'[u] = dir[u] /\ card'[u] = card[u]
          /\ reg'[u] = reg[u] /\ slot'[u] = slot[u]
          /\ \A d \in Dirs : lock'[d] = u <=> lock[d] = u
        BY <1>1, <1>3 DEF OthersKeep
    <2> QED  BY <1>2, <2>1 DEF ListedRight, HeldRight, Number
<1>4. ListedRight(t)' /\ HeldRight(t)'
    BY <1>2, OwnPlace
<1>5. \A u \in Transfers : ListedRight(u)' /\ HeldRight(u)'
    BY <1>3, <1>4
<1>6. (RegistryMatchesFields <=> \A u \in Transfers : ListedRight(u) /\ HeldRight(u))'
    BY NobodyAssumption
       DEF TypeOK, RegistryMatchesFields, ListedRight, HeldRight, Locking, NobodyAssumption
<1> QED  BY <1>5, <1>6

-----------------------------------------------------------------------------
(* Who claims a number *)

\* A generated number is none that another transfer claims: until that one's directory is
\* there its place in the registry keeps the number, afterwards the directory does.
LEMMA GeneratedIsUnclaimed ==
    ASSUME TypeOK, RegistryMatchesFields, StepsInv,
           NEW t \in Transfers, NEW u \in Transfers, u # t, Claims(u),
           NEW n \in Generated(dir[u], t), n # NoNumber
    PROVE  n # card[u]
<1> SUFFICES ASSUME n = card[u]
             PROVE  FALSE
    OBVIOUS
<1>1. dir[u] \in FourDigit /\ dir[u] \in Dirs
    BY DEF Claims, Dirs
<1>2. n \in Free(dir[u], t) /\ n \in Numbers
    BY <1>1, GeneratedIsFree
<1>3. CASE pc[u] \in Working
    <2>1. n \in cards[dir[u]] \cap Numbers
        BY <1>2, <1>3 DEF StepsInv, InStep
    <2>2. n < Base(dir[u]) /\ Base(dir[u]) \in Nat
        BY <1>1, <2>1, BaseIsPast
    <2>3. n >= Base(dir[u])
        BY <1>2, <2>2, MaxCardAssumption DEF Free, MaxCardAssumption
    <2> QED  BY <1>2, <2>2, <2>3, NumbersAreNaturals
<1>4. CASE pc[u] \in Settled
    <2>1. reg[u] = dir[u] /\ slot[u] = Number(card[u])
        BY <1>1, <1>4 DEF RegistryMatchesFields, Settled
    <2>2. slot[u] = n
        BY <1>2, <2>1 DEF Number
    <2>3. n \in Taken(dir[u], t)
        BY <2>1, <2>2 DEF Taken
    <2> QED  BY <1>2, <2>3 DEF Free
<1> QED  BY <1>3, <1>4 DEF Claims, Settled

\* A transfer comes to claim a number under the approval lock, and then one that no other
\* claims; afterwards it keeps it.
NewClaim(t) ==
    /\ dir'[t] = dir[t] /\ pc[t] \in Locking
    /\ \A u \in Transfers : u # t /\ Claims(u) /\ dir[u] = dir[t] => card'[t] # card[u]

OldClaim(t) == Claims(t) /\ dir'[t] = dir[t] /\ card'[t] = card[t]

LEMMA GiveUpClaims ==
    ASSUME TypeOK, NEW t \in Transfers, GiveUp(t)
    PROVE  ~Claims(t)' /\ pc'[t] = "ended"
BY DEF GiveUp, Goto, TypeOK, Claims, Working

LEMMA ClaimsAreNewOrOld ==
    ASSUME TypeOK, RegistryMatchesFields, StepsInv, ClaimsInv, NEW t \in Transfers,
           ThreadStep(t) \/ UserStep(t), Claims(t)'
    PROVE  OldClaim(t) \/ NewClaim(t)
<1>1. CASE CheckSequence(t)
    <2>1. PICK n \in Generated(dir[t], t) :
              n # NoNumber /\ n = card[t] /\ dir' = dir /\ card' = card /\ pc[t] = "sequence"
        BY <1>1, GiveUpClaims, NoNumberIsNone
           DEF CheckSequence, Goto, TypeOK, Claims, Working, fields
    <2>2. ASSUME NEW u \in Transfers, u # t, Claims(u), dir[u] = dir[t]
          PROVE  card'[t] # card[u]
        <3>1. n \in Generated(dir[u], t)
            BY <2>2
        <3> QED  BY <2>1, <2>2, <3>1, GeneratedIsUnclaimed
    <2> QED  BY <2>1, <2>2 DEF NewClaim, Locking
<1>2. CASE UseNew(t)
    <2>1. /\ pc[t] \in {"askgap", "asktaken"} /\ dir' = dir
          /\ card'[t] = offer[t]
        BY <1>2 DEF UseNew, TypeOK
    <2> QED  BY <2>1 DEF NewClaim, ClaimsInv, Locking
<1>3. CASE UseOriginal(t)
    BY <1>3 DEF UseOriginal, Goto, TypeOK, Claims, Working
<1>4. CASE TakeApprovalLock(t)
    BY <1>4, DirsAssumption
       DEF TakeApprovalLock, Goto, TypeOK, Claims, Working, fields, DirsAssumption
<1>5. CASE CheckLog(t) \/ CreateCardDirectory(t) \/ UnregisterMade(t) \/ AddTransfer(t)
    <2>1. pc[t] \in {"logcheck", "create", "made", "unregistered"} /\ dir' = dir /\ card' = card
        BY <1>5, GiveUpClaims
           DEF CheckLog, CreateCardDirectory, UnregisterMade, AddTransfer, fields
    <2>2. pc[t] # "logcheck" => via' = via /\ pc'[t] # "logcheck"
        BY <1>5, GiveUpClaims
           DEF CheckLog, CreateCardDirectory, UnregisterMade, AddTransfer, Goto, TypeOK
    <2> QED  BY <2>1, <2>2 DEF OldClaim, Claims, Working
<1>6. CASE InitialCardId(t) \/ Register(t) \/ Subscribe(t) \/ Notified(t)
            \/ UpdateId(t) \/ MoveSourceMedia(t) \/ Withdraw(t) \/ Suggest(t)
            \/ Finish(t)
    BY <1>6, GiveUpClaims
       DEF InitialCardId, Register, Subscribe, Notified, UpdateId, MoveSourceMedia,
           Withdraw, Suggest, Finish, Goto, TypeOK, Claims, Working
<1>7. CASE Spawn(t) \/ ChangeCardId(t) \/ ChooseSourceMedia(t) \/ Approve(t)
            \/ Deny(t) \/ Warn(t) \/ BackToQuery(t)
    BY <1>7, GiveUpClaims
       DEF Spawn, ChangeCardId, ChooseSourceMedia, Approve, Deny, Warn, BackToQuery, Goto,
           TypeOK, Claims, Working
<1> QED  BY <1>1, <1>2, <1>3, <1>4, <1>5, <1>6, <1>7 DEF ThreadStep, UserStep

\* What is suggested is a number that no other transfer claims, or nothing.
LEMMA OffersAreUnclaimed ==
    ASSUME TypeOK, RegistryMatchesFields, StepsInv, NEW t \in Transfers,
           ThreadStep(t) \/ UserStep(t), pc'[t] \in {"askgap", "asktaken"},
           NEW u \in Transfers, u # t, Claims(u), dir[u] = dir'[t]
    PROVE  offer'[t] # card[u]
<1>1. Suggest(t) /\ uiUp
    BY GiveUpClaims
       DEF ThreadStep, UserStep, Goto, TypeOK, fields, Spawn, InitialCardId, Register, Subscribe, ChangeCardId, Notified, UpdateId,
           ChooseSourceMedia, MoveSourceMedia, Approve, Deny, Withdraw, Warn,
           TakeApprovalLock, CheckSequence, Suggest, UseNew, UseOriginal, BackToQuery,
           CheckLog, CreateCardDirectory, UnregisterMade, AddTransfer, Finish
<1>2. PICK n \in IF dir[t] \in FourDigit THEN Generated(dir[t], t) ELSE {NoNumber} :
          offer'[t] \in {n, NoNumber}
    BY <1>1, GiveUpClaims DEF Suggest, TypeOK
<1>3. dir' = dir
    BY <1>1 DEF Suggest, GiveUp, fields
<1>4. n # NoNumber => n # card[u]
    BY <1>2, <1>3, GeneratedIsUnclaimed
<1>5. NoNumber # card[u]
    BY NoNumberIsNone DEF TypeOK
<1> QED  BY <1>2, <1>4, <1>5

LEMMA ClaimsKept ==
    ASSUME TypeOK, RegistryMatchesFields, StepsInv, ClaimsInv, NEW t \in Transfers,
           ThreadStep(t) \/ UserStep(t)
    PROVE  ClaimsInv'
<1>1. OthersKeep(t)
    BY OthersKept
<1>2. ASSUME NEW u \in Transfers, u # t
      PROVE  /\ Claims(u)' <=> Claims(u)
             /\ dir'[u] = dir[u] /\ card'[u] = card[u] /\ pc'[u] = pc[u] /\ offer'[u] = offer[u]
    BY <1>1, <1>2 DEF OthersKeep, Claims
<1>3. ASSUME NEW u \in Transfers, u # t, Claims(u), Claims(t)', dir'[t] = dir[u]
      PROVE  card'[t] # card[u]
    BY <1>3, ClaimsAreNewOrOld DEF OldClaim, NewClaim, ClaimsInv
<1>4. ASSUME NEW u \in Transfers, u # t, Claims(t)', dir'[t] = dir[u],
             pc[u] \in {"askgap", "asktaken"}
      PROVE  offer[u] # card'[t]
    <2>1. CASE OldClaim(t)
        BY <1>4, <2>1 DEF OldClaim, ClaimsInv
    <2>2. CASE NewClaim(t)
        <3>1. lock[dir[t]] = t /\ lock[dir[u]] = u
            BY <1>4, <2>2 DEF NewClaim, StepsInv, InStep, Locking
        <3> QED  BY <1>4, <2>2, <3>1 DEF NewClaim
    <2> QED  BY <1>4, <2>1, <2>2, ClaimsAreNewOrOld
<1>5. ASSUME NEW u \in Transfers, u # t, Claims(u), dir'[t] = dir[u],
             pc'[t] \in {"askgap", "asktaken"}
      PROVE  offer'[t] # card[u]
    BY <1>5, OffersAreUnclaimed
<1>6. ASSUME NEW a \in Transfers, NEW b \in Transfers, a # b, Claims(b)', dir'[a] = dir'[b]
      PROVE  /\ Claims(a)' => card'[a] # card'[b]
             /\ pc'[a] \in {"askgap", "asktaken"} => offer'[a] # card'[b]
    <2>1. CASE a # t /\ b # t
        BY <1>2, <1>6, <2>1 DEF ClaimsInv
    <2>2. CASE a = t
        BY <1>2, <1>3, <1>5, <1>6, <2>2
    <2>3. CASE b = t
        BY <1>2, <1>3, <1>4, <1>6, <2>3
    <2> QED  BY <2>1, <2>2, <2>3
<1> QED  BY <1>6 DEF ClaimsInv

-----------------------------------------------------------------------------
(* The theorems *)

LEMMA InitHolds == Init => IInv
<1> SUFFICES ASSUME Init
             PROVE  IInv
    OBVIOUS
<1>1. TypeOK
    BY NoNumberIsNone, IdTypes DEF Init, TypeOK, Steps
<1>2. StepsInv /\ ClaimsInv
    BY DEF Init, StepsInv, InStep, ClaimsInv, Claims, Locking, Settled, Working
<1>3. RegistryMatchesFields
    BY DEF Init, RegistryMatchesFields
<1> QED  BY <1>1, <1>2, <1>3 DEF IInv

LEMMA StepKeeps ==
    ASSUME IInv, [Next]_vars
    PROVE  IInv'
<1> USE DEF IInv
<1>1. ASSUME NEW t \in Transfers, ThreadStep(t) \/ UserStep(t)
      PROVE  IInv'
    <2>1. TypeOK' /\ StepsInv' /\ ClaimsInv'
        BY <1>1, ThreadType, StepsKept, ClaimsKept
    <2>2. RegistryMatchesFields'
        BY <1>1, <2>1, RegistryKept
    <2> QED  BY <2>1, <2>2
<1>2. CASE UiQuits
    <2>1. TypeOK'
        BY <1>2 DEF UiQuits, TypeOK, fields, registry
    <2>2. RegistryMatchesFields'
        BY <1>2 DEF UiQuits, RegistryMatchesFields, Number, fields, registry
    <2>3. StepsInv' /\ ClaimsInv'
        BY <1>2 DEF UiQuits, StepsInv, InStep, ClaimsInv, Claims, fields, registry
    <2> QED  BY <2>1, <2>2, <2>3
<1>3. CASE DeleteCard
    <2>1. /\ UNCHANGED <<uiUp, log, pc, fields, registry, lock, offer, via>>
          /\ cards' \in [Dirs -> SUBSET (Ids \ {Empty})]
        BY <1>3 DEF DeleteCard, TypeOK
    <2>2. \A u \in Transfers : pc[u] \in Working => card[u] \in cards'[dir[u]]
        BY <1>3 DEF DeleteCard, TypeOK, StepsInv, InStep
    <2>3. TypeOK' /\ RegistryMatchesFields' /\ ClaimsInv'
        BY <2>1 DEF TypeOK, RegistryMatchesFields, ClaimsInv, Claims, Number, fields, registry
    <2>4. StepsInv'
        BY <2>1, <2>2 DEF StepsInv, InStep, fields, registry
    <2> QED  BY <2>3, <2>4
<1>4. CASE UNCHANGED vars
    BY <1>4 DEF vars, TypeOK, RegistryMatchesFields, StepsInv, InStep, ClaimsInv, Claims,
                Number, fields, registry
<1> QED  BY <1>1, <1>2, <1>3, <1>4 DEF Next

LEMMA Invariance == Spec => []IInv
<1> HIDE DEF IInv
<1> QED  BY InitHolds, StepKeeps, PTL DEF Spec

\* Every variable keeps its type, for any transfers, directories and card numbers: no number
\* past the last one is ever held, listed or offered (transfer_registry.rs).
THEOREM TypeCorrect == Spec => []TypeOK
<1>1. IInv => TypeOK
    BY DEF IInv
<1> QED  BY <1>1, Invariance, PTL

\* The registry lists every transfer where and as its fields say whenever the thread relies
\* on it, and approval locks are held by transfers that check (transfer_registry.rs).
THEOREM RegistryAgrees == Spec => []RegistryMatchesFields
<1>1. IInv => RegistryMatchesFields
    BY DEF IInv
<1> QED  BY <1>1, Invariance, PTL

\* However many transfers run, no two of them work in one numbered card directory unless the
\* user insisted on an id out of sequence for one of them (transfer_logic.rs).
THEOREM NumberedCardsExclusive == Spec => []NumberedCardsAreExclusive
<1>1. IInv => NumberedCardsAreExclusive
    BY DEF IInv, ClaimsInv, Claims, NumberedCardsAreExclusive, SameCard
<1> QED  BY <1>1, Invariance, PTL
=============================================================================
