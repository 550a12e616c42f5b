------------------------------- MODULE CardIds -------------------------------
(***************************************************************************)
(* How concurrent transfers come by their card directories: the registry   *)
(* of pending transfers (transfer_registry.rs) and the approval loop of    *)
(* run_transfer (transfer_logic.rs), one thread per transfer, up to the    *)
(* point where the transfer is recorded in the backup log and copies.      *)
(*                                                                         *)
(* A step is what a thread does under one hold of the registry's mutex, or *)
(* one access to the filesystem. Each transfer runs once. A card id is a   *)
(* number (CARD####), a free-form word, or Empty.                          *)
(***************************************************************************)
EXTENDS Integers

CONSTANTS
    Transfers,   \* transfer threads
    FourDigit,   \* source media directories numbered CARD####
    Freeform,    \* source media directories with free-form card names
    Words,       \* card ids that are not of the form CARD####
    Typed,       \* the card ids the user may type in
    Tidied,      \* directories from which somebody may delete card directories
    MaxCard,     \* the largest card number (9999 in the code)
    Empty,       \* the empty card id
    NoNumber,    \* no CARD#### number: a word, or an error of next_card_id
    NoDir,       \* no source media directory selected
    Nobody       \* holder of a free approval lock

ASSUME MaxCardAssumption == MaxCard \in Nat
ASSUME IdsAssumption ==
    /\ Empty \notin Int \cup Words /\ NoNumber \notin Int \cup Words
    /\ Words \cap Int = {} /\ NoNumber # Empty
ASSUME DirsAssumption ==
    /\ FourDigit \cap Freeform = {} /\ NoDir \notin FourDigit \cup Freeform
    /\ Tidied \subseteq FourDigit \cup Freeform
ASSUME TypedAssumption == Typed \subseteq (0..MaxCard) \cup Words
ASSUME NobodyAssumption == Nobody \notin Transfers

VARIABLES
    uiUp,    \* the UI still takes queries
    cards,   \* card directories that exist under <dir>/DATA
    log,     \* transfers recorded in the backup log
    pc,      \* where each transfer is
    dir,     \* fields.source_media() of each transfer
    card,    \* fields.card_id_string()
    manual,  \* fields.card_id_selected.is_overridden()
    reg,     \* the directory under which the registry lists the transfer
    slot,    \* the number the registry lists it with
    sub,     \* transfers subscribed to the changes of their directory
    note,    \* transfers with a notification waiting
    lock,    \* holder of each directory's approval lock
    offer,   \* the id the ConfirmCardId dialog suggests
    via      \* how the card id was settled

fields   == <<dir, card, manual>>
registry == <<reg, slot, sub, note>>
vars     == <<uiUp, cards, log, pc, dir, card, manual, reg, slot, sub, note, lock, offer, via>>

Dirs    == FourDigit \cup Freeform
Numbers == 0..MaxCard
Ids     == Numbers \cup Words \cup {Empty}

\* The approval loop: the query is shown ("asking"), a change is computed and not yet in the
\* registry ("claiming", "moving"), the approval is being checked ("approved" to "logcheck"),
\* with a conflict found ("gap", "taken") and its dialog shown ("askgap", "asktaken").
Steps == {"unborn", "starting", "registering", "listed",
          "asking", "claiming", "moving",
          "approved", "sequence", "gap", "taken", "askgap", "asktaken", "logcheck",
          "create", "made", "unregistered", "copying", "ended"}

\* The threads that own a card directory.
Working == {"made", "unregistered", "copying"}

-----------------------------------------------------------------------------
(* The registry *)

\* parse_card_number
Number(id) == IF id \in Numbers THEN id ELSE NoNumber

Subscribers(d) == {u \in sub : reg[u] = d}

Taken(d, t) == {slot[u] : u \in {v \in Transfers \ {t} : reg[v] = d}}

\* filesystem_get_last_card_number, plus one
Base(d) ==
    LET used == cards[d] \cap Numbers
    IN  IF used = {} THEN 0 ELSE 1 + (CHOOSE n \in used : \A m \in used : m <= n)

\* Mutant: format_card_id does not refuse the number after the last one.
FreeUnbounded(d, t) == {n \in Base(d)..(MaxCard + 1) : n \notin Taken(d, t)}

Free(d, t) == {n \in Base(d)..MaxCard : n \notin Taken(d, t)}

\* next_card_id: the first free number, or an error past the last number.
NextCardId(d, t) ==
    IF Free(d, t) = {} THEN NoNumber
    ELSE CHOOSE n \in Free(d, t) : \A m \in Free(d, t) : n <= m

\* What a call may return: DATA may also be missing or unreadable.
Generated(d, t) == {NextCardId(d, t), NoNumber}

RegisterUnder(t, d, n) ==
    /\ reg' = [reg EXCEPT ![t] = d]
    /\ slot' = [slot EXCEPT ![t] = n]

UpdateSlot(t, n) ==
    /\ slot' = [slot EXCEPT ![t] = n]
    /\ note' = note \cup Subscribers(reg[t])
    /\ UNCHANGED <<reg, sub>>

\* unregister_current, by a thread that no longer listens.
Unregister(t) ==
    /\ reg' = [reg EXCEPT ![t] = NoDir]
    /\ slot' = [slot EXCEPT ![t] = NoNumber]
    /\ sub' = sub \ {t}
    /\ note' = (note \cup Subscribers(reg[t])) \ {t}

-----------------------------------------------------------------------------
Init ==
    /\ uiUp = TRUE
    /\ cards = [d \in Dirs |-> {}]
    /\ log = {}
    /\ pc = [t \in Transfers |-> "unborn"]
    /\ dir = [t \in Transfers |-> NoDir]
    /\ card = [t \in Transfers |-> Empty]
    /\ manual = [t \in Transfers |-> FALSE]
    /\ reg = [t \in Transfers |-> NoDir]
    /\ slot = [t \in Transfers |-> NoNumber]
    /\ sub = {} /\ note = {}
    /\ lock = [d \in Dirs |-> Nobody]
    /\ offer = [t \in Transfers |-> NoNumber]
    /\ via = [t \in Transfers |-> "open"]

Goto(t, step) == pc' = [pc EXCEPT ![t] = step]

\* The thread reports an error or sees the UI gone, unregisters and returns.
GiveUp(t) ==
    /\ Goto(t, "ended")
    /\ Unregister(t)
    /\ lock' = [d \in Dirs |-> IF lock[d] = t THEN Nobody ELSE lock[d]]
    /\ UNCHANGED <<uiUp, cards, log, fields, offer, via>>

-----------------------------------------------------------------------------
(* Up to the query *)

\* A device was mounted, or the user started a manual transfer (no directory then).
Spawn(t) ==
    /\ uiUp /\ pc[t] = "unborn"
    /\ \E d \in Dirs \cup {NoDir} : dir' = [dir EXCEPT ![t] = d]
    /\ Goto(t, "starting")
    /\ UNCHANGED <<uiUp, cards, log, card, manual, registry, lock, offer, via>>

\* initial_card_id_and_register computes the id under one hold of the mutex ...
InitialCardId(t) ==
    /\ pc[t] = "starting"
    /\ \/ dir[t] = NoDir /\ Goto(t, "listed") /\ UNCHANGED card
       \/ dir[t] \in Freeform /\ Goto(t, "registering") /\ UNCHANGED card
       \/ /\ dir[t] \in FourDigit
          /\ \E n \in Generated(dir[t], t) :
                IF n = NoNumber THEN Goto(t, "ended") /\ UNCHANGED card
                ELSE Goto(t, "registering") /\ card' = [card EXCEPT ![t] = n]
    /\ UNCHANGED <<uiUp, cards, log, dir, manual, registry, lock, offer, via>>

\* ... and registers it under another.
Register(t) ==
    /\ pc[t] = "registering" /\ Goto(t, "listed")
    /\ RegisterUnder(t, dir[t], Number(card[t]))
    /\ note' = note \cup Subscribers(dir[t])
    /\ UNCHANGED <<uiUp, cards, log, fields, sub, lock, offer, via>>

\* new_transfer, subscribe_or_never and the ApproveTransfer query.
Subscribe(t) ==
    /\ pc[t] = "listed" /\ uiUp /\ Goto(t, "asking")
    /\ sub' = IF dir[t] = NoDir THEN sub ELSE sub \cup {t}
    /\ UNCHANGED <<uiUp, cards, log, fields, reg, slot, note, lock, offer, via>>

-----------------------------------------------------------------------------
(* While the query is open: the user edits, and other transfers' changes are notified *)

\* handle_card_id_changed: an empty id reverts to the generated one where there is one.
ChangeCardId(t) ==
    /\ pc[t] = "asking" /\ uiUp
    /\ \/ \E id \in Typed : /\ card' = [card EXCEPT ![t] = id]
                          /\ manual' = [manual EXCEPT ![t] = TRUE]
       \/ \E n \in IF dir[t] \in FourDigit THEN Generated(dir[t], t) ELSE {NoNumber} :
              /\ card' = [card EXCEPT ![t] = IF n = NoNumber THEN Empty ELSE n]
              /\ manual' = [manual EXCEPT ![t] = (n = NoNumber)]
    /\ Goto(t, IF dir[t] = NoDir THEN "asking" ELSE "claiming")
    /\ UNCHANGED <<uiUp, cards, log, dir, registry, lock, offer, via>>

\* A notification: an automatic id is generated anew, under one hold of the mutex, ...
Notified(t) ==
    /\ pc[t] = "asking" /\ t \in note
    /\ note' = note \ {t}
    /\ \E n \in IF dir[t] \in FourDigit /\ ~manual[t] THEN Generated(dir[t], t) ELSE {NoNumber} :
          IF n \in {NoNumber, card[t]} THEN UNCHANGED <<pc, card>>
          ELSE Goto(t, "claiming") /\ card' = [card EXCEPT ![t] = n]
    /\ UNCHANGED <<uiUp, cards, log, dir, manual, reg, slot, sub, lock, offer, via>>

\* ... and registered with update_id under another.
UpdateId(t) ==
    /\ pc[t] = "claiming" /\ Goto(t, "asking")
    /\ UpdateSlot(t, IF dir[t] \in FourDigit THEN Number(card[t]) ELSE NoNumber)
    /\ UNCHANGED <<uiUp, cards, log, fields, lock, offer, via>>

\* handle_device_overwrite computes the id in the new directory ...
ChooseSourceMedia(t) ==
    /\ pc[t] = "asking" /\ uiUp /\ Goto(t, "moving")
    /\ \E d \in Dirs :
          /\ dir' = [dir EXCEPT ![t] = d]
          /\ IF d \in FourDigit /\ ~manual[t]
             THEN \E n \in Generated(d, t) :
                     card' = [card EXCEPT ![t] = IF n = NoNumber THEN Empty ELSE n]
             ELSE UNCHANGED card
    /\ UNCHANGED <<uiUp, cards, log, manual, registry, lock, offer, via>>

\* ... then moves the registration and subscribes anew, all under one hold of the mutex.
MoveSourceMedia(t) ==
    /\ pc[t] = "moving" /\ Goto(t, "asking")
    /\ RegisterUnder(t, dir[t], Number(card[t]))
    /\ note' = (note \cup Subscribers(reg[t]) \cup Subscribers(dir[t])) \ {t}
    /\ sub' = sub \cup {t}
    /\ UNCHANGED <<uiUp, cards, log, fields, lock, offer, via>>

\* The query offers approval once a directory and a card id are there (can_approve).
Approve(t) ==
    /\ pc[t] = "asking" /\ uiUp /\ Goto(t, "approved")
    /\ dir[t] # NoDir /\ card[t] # Empty
    /\ UNCHANGED <<uiUp, cards, log, fields, registry, lock, offer, via>>

Deny(t) == pc[t] = "asking" /\ uiUp /\ GiveUp(t)

\* The UI is gone and has taken its half of the channels with it.
Withdraw(t) == pc[t] \in {"listed", "asking"} /\ ~uiUp /\ GiveUp(t)

-----------------------------------------------------------------------------
(* After the approval *)

\* The device is gone or no input path is set: back to the query, or cancel.
Warn(t) ==
    /\ pc[t] = "approved"
    /\ \/ /\ Goto(t, "asking")
          /\ UNCHANGED <<uiUp, cards, log, fields, registry, lock, offer, via>>
       \/ GiveUp(t)

\* The approval lock is taken and is_card_id_taken looks for the directory.
TakeApprovalLock(t) ==
    /\ pc[t] = "approved" /\ lock[dir[t]] = Nobody
    /\ \/ /\ card[t] \in cards[dir[t]]
          /\ Goto(t, "taken") /\ lock' = [lock EXCEPT ![dir[t]] = t]
       \/ /\ card[t] \notin cards[dir[t]] /\ dir[t] \in FourDigit
          /\ Goto(t, "sequence") /\ lock' = [lock EXCEPT ![dir[t]] = t]
       \/ /\ card[t] \notin cards[dir[t]] /\ dir[t] \in Freeform
          /\ Goto(t, "logcheck") /\ UNCHANGED lock
    /\ UNCHANGED <<uiUp, cards, log, fields, registry, offer, via>>

\* In a numbered directory the id must also be the next one; without a conflict the lock is
\* dropped here, before the directory exists.
CheckSequence(t) ==
    /\ pc[t] = "sequence"
    /\ \E n \in Generated(dir[t], t) :
          \/ n = NoNumber /\ GiveUp(t)
          \/ /\ n = card[t] /\ Goto(t, "logcheck")
             /\ lock' = [lock EXCEPT ![dir[t]] = Nobody]
             /\ UNCHANGED <<uiUp, cards, log, fields, registry, offer, via>>
          \/ /\ n \notin {NoNumber, card[t]} /\ Goto(t, "gap")
             /\ UNCHANGED <<uiUp, cards, log, fields, registry, lock, offer, via>>

\* The ConfirmCardId dialog: a new number is suggested after a gap, or when an automatic id
\* is taken.
Suggest(t) ==
    /\ pc[t] \in {"gap", "taken"}
    /\ \/ ~uiUp /\ GiveUp(t)
       \/ /\ uiUp
          /\ \E n \in IF dir[t] \in FourDigit THEN Generated(dir[t], t) ELSE {NoNumber} :
                offer' = [offer EXCEPT ![t] =
                    IF (pc[t] = "gap" /\ n # card[t]) \/ (pc[t] = "taken" /\ ~manual[t])
                    THEN n ELSE NoNumber]
          /\ Goto(t, IF pc[t] = "gap" THEN "askgap" ELSE "asktaken")
          /\ UNCHANGED <<uiUp, cards, log, fields, registry, lock, via>>

\* Mutant: the registry is not told of the new number.
UseNewUnlisted(t) ==
    /\ pc[t] \in {"askgap", "asktaken"} /\ uiUp /\ offer[t] # NoNumber
    /\ Goto(t, "create") /\ via' = [via EXCEPT ![t] = "new"]
    /\ card' = [card EXCEPT ![t] = offer[t]]
    /\ manual' = [manual EXCEPT ![t] = FALSE]
    /\ lock' = [lock EXCEPT ![dir[t]] = Nobody]
    /\ UNCHANGED <<uiUp, cards, log, dir, registry, offer>>

UseNew(t) ==
    /\ pc[t] \in {"askgap", "asktaken"} /\ uiUp /\ offer[t] # NoNumber
    /\ Goto(t, "create") /\ via' = [via EXCEPT ![t] = "new"]
    /\ card' = [card EXCEPT ![t] = offer[t]]
    /\ manual' = [manual EXCEPT ![t] = FALSE]
    /\ UpdateSlot(t, offer[t])
    /\ lock' = [lock EXCEPT ![dir[t]] = Nobody]
    /\ UNCHANGED <<uiUp, cards, log, dir, offer>>

\* Offered after a gap only.
UseOriginal(t) ==
    /\ pc[t] = "askgap" /\ uiUp
    /\ Goto(t, "create") /\ via' = [via EXCEPT ![t] = "original"]
    /\ lock' = [lock EXCEPT ![dir[t]] = Nobody]
    /\ UNCHANGED <<uiUp, cards, log, fields, registry, offer>>

\* Mutant: the lock is kept while the query is shown again.
BackToQueryLocked(t) ==
    /\ pc[t] \in {"askgap", "asktaken"} /\ Goto(t, "asking")
    /\ UNCHANGED <<uiUp, cards, log, fields, registry, lock, offer, via>>

BackToQuery(t) ==
    /\ pc[t] \in {"askgap", "asktaken"} /\ Goto(t, "asking")
    /\ lock' = [lock EXCEPT ![dir[t]] = Nobody]
    /\ UNCHANGED <<uiUp, cards, log, fields, registry, offer, via>>

\* has_transfer_for_card_path, on the path without a conflict only.
CheckLog(t) ==
    /\ pc[t] = "logcheck"
    /\ IF \E e \in log : e.dir = dir[t] /\ e.card = card[t]
       THEN \/ /\ Goto(t, "asking")
               /\ UNCHANGED <<uiUp, cards, log, fields, registry, lock, offer, via>>
            \/ GiveUp(t)
       ELSE /\ Goto(t, "create") /\ via' = [via EXCEPT ![t] = "clean"]
            /\ UNCHANGED <<uiUp, cards, log, fields, registry, lock, offer>>

\* create_dir_all succeeds on a directory that is already there.
CreateCardDirectory(t) ==
    /\ pc[t] = "create"
    /\ \/ /\ Goto(t, "made")
          /\ cards' = [cards EXCEPT ![dir[t]] = @ \cup {card[t]}]
          /\ UNCHANGED <<uiUp, log, fields, registry, lock, offer, via>>
       \/ GiveUp(t)

UnregisterMade(t) ==
    /\ pc[t] = "made" /\ Goto(t, "unregistered")
    /\ Unregister(t)
    /\ UNCHANGED <<uiUp, cards, log, fields, lock, offer, via>>

\* add_transfer (the record stays in memory even if its flush fails, which ends the thread),
\* or one of the steps before it fails.
AddTransfer(t) ==
    /\ pc[t] = "unregistered"
    /\ \/ /\ log' = log \cup {[by |-> t, dir |-> dir[t], card |-> card[t]]}
          /\ \E step \in {"copying", "ended"} : Goto(t, step)
       \/ Goto(t, "ended") /\ UNCHANGED log
    /\ UNCHANGED <<uiUp, cards, fields, registry, lock, offer, via>>

Finish(t) ==
    /\ pc[t] = "copying" /\ Goto(t, "ended")
    /\ UNCHANGED <<uiUp, cards, log, fields, registry, lock, offer, via>>

-----------------------------------------------------------------------------
(* The rest of the program, and the human *)

\* "Complete backup and exit" takes the UI away under the transfers that still run.
UiQuits ==
    /\ uiUp /\ uiUp' = FALSE
    /\ UNCHANGED <<cards, log, pc, fields, registry, lock, offer, via>>

\* Somebody deletes a card directory no transfer is working in.
DeleteCard ==
    /\ \E d \in Tidied : \E id \in cards[d] :
          /\ \A t \in Transfers : pc[t] \in Working => dir[t] # d \/ card[t] # id
          /\ cards' = [cards EXCEPT ![d] = @ \ {id}]
    /\ UNCHANGED <<uiUp, log, pc, fields, registry, lock, offer, via>>

ThreadStep(t) ==
    \/ InitialCardId(t) \/ Register(t) \/ Subscribe(t)
    \/ Notified(t) \/ UpdateId(t) \/ MoveSourceMedia(t) \/ Withdraw(t)
    \/ TakeApprovalLock(t) \/ CheckSequence(t) \/ Suggest(t) \/ CheckLog(t)
    \/ CreateCardDirectory(t) \/ UnregisterMade(t) \/ AddTransfer(t) \/ Finish(t)

UserStep(t) ==
    \/ Spawn(t) \/ ChangeCardId(t) \/ ChooseSourceMedia(t) \/ Approve(t) \/ Deny(t)
    \/ Warn(t) \/ UseNew(t) \/ UseOriginal(t) \/ BackToQuery(t)

Next ==
    \/ \E t \in Transfers : ThreadStep(t) \/ UserStep(t)
    \/ UiQuits \/ DeleteCard

Spec == Init /\ [][Next]_vars

\* Every thread that can run does; the user and the rest are not obliged.
FairSpec == Spec /\ \A t \in Transfers : WF_vars(ThreadStep(t))

-----------------------------------------------------------------------------
(* Properties *)

\* Every variable has its type: no number past the last one is ever held, listed or offered.
TypeOK ==
    /\ uiUp \in BOOLEAN
    /\ cards \in [Dirs -> SUBSET (Ids \ {Empty})]
    /\ log \subseteq [by : Transfers, dir : Dirs, card : Ids \ {Empty}]
    /\ pc \in [Transfers -> Steps]
    /\ dir \in [Transfers -> Dirs \cup {NoDir}]
    /\ card \in [Transfers -> Ids]
    /\ manual \in [Transfers -> BOOLEAN]
    /\ reg \in [Transfers -> Dirs \cup {NoDir}]
    /\ slot \in [Transfers -> Numbers \cup {NoNumber}]
    /\ sub \subseteq Transfers /\ note \subseteq Transfers
    /\ lock \in [Dirs -> Transfers \cup {Nobody}]
    /\ offer \in [Transfers -> Numbers \cup {NoNumber}]
    /\ via \in [Transfers -> {"open", "clean", "new", "original"}]

SameCard(t, u) == dir[t] = dir[u] /\ card[t] = card[u]

\* transfer_logic.rs:468, :666: the conflict check is safe, so no two transfers work in the
\* same card directory.
CardDirectoriesAreExclusive ==
    \A t, u \in Transfers :
        t # u /\ pc[t] \in Working /\ pc[u] \in Working => ~SameCard(t, u)

\* In a numbered directory that much does hold, although the lock is dropped before the card
\* directory exists, as long as nobody insists on an id that is out of sequence: the registry
\* keeps a settled number from being given out until the directory is there.
NumberedCardsAreExclusive ==
    \A t, u \in Transfers :
        /\ t # u /\ pc[t] \in Working /\ pc[u] \in Working
        /\ dir[t] \in FourDigit /\ via[t] # "original" /\ via[u] # "original"
        => ~SameCard(t, u)

\* transfer_logic.rs:685: a card id that already has an entry in the backup log is rejected,
\* so that find() by card path is never ambiguous.
LogEntriesAreDistinct ==
    \A e, f \in log : e.dir = f.dir /\ e.card = f.card => e.by = f.by

\* The registry lists a transfer under the directory its fields name, whenever the thread
\* relies on it (the expect()s of update_id and unregister), and with the number of its card
\* while the approval is checked; the approval lock is held by a transfer that keeps the
\* entry the lock lives in.
RegistryMatchesFields ==
    /\ \A t \in Transfers : pc[t] \notin {"unborn", "starting", "registering", "moving",
                                          "unregistered", "copying", "ended"}
          => /\ reg[t] = dir[t]
             /\ dir[t] \in FourDigit /\ pc[t] # "claiming" => slot[t] = Number(card[t])
    /\ \A d \in Dirs : lock[d] # Nobody
          => /\ dir[lock[d]] = d /\ reg[lock[d]] = d
             /\ pc[lock[d]] \in {"sequence", "gap", "taken", "askgap", "asktaken"}

\* transfer_registry.rs:139-141: concurrent automatic ids do not chase each other for ever.
\* While the UI is up and once the user does no more, every thread stops claiming new ids.
UserRests == <>[][\A t \in Transfers : ~UserStep(t)]_vars

AutoIdsSettle == []uiUp /\ UserRests => \A t \in Transfers : <>[](pc[t] # "claiming")

-----------------------------------------------------------------------------
(* What the proofs of these properties rest on *)

Locking == {"sequence", "gap", "taken", "askgap", "asktaken"}
Settled == {"logcheck", "create"}

\* A thread is listed once it has registered; an approved one has a directory and a card id,
\* and while it checks them the approval lock of its directory.
InStep(t) ==
    /\ pc[t] \in {"unborn", "starting"} => reg[t] = NoDir
    /\ pc[t] \in {"registering", "claiming", "moving", "approved"} \cup Locking
                 \cup Settled \cup Working => dir[t] \in Dirs
    /\ pc[t] \in {"approved"} \cup Locking \cup Settled \cup Working => card[t] # Empty
    /\ pc[t] \in Locking => lock[dir[t]] = t
    /\ pc[t] \in Working => card[t] \in cards[dir[t]]

StepsInv == \A t \in Transfers : InStep(t)

\* A transfer claims its number from the check that settles it on: first by its place in the
\* registry, then by its directory.
Claims(t) ==
    /\ dir[t] \in FourDigit
    /\ pc[t] = "logcheck" \/ (pc[t] \in {"create"} \cup Working /\ via[t] # "original")

\* No two transfers claim one number, and none is suggested that another claims.
ClaimsInv ==
    \A t, u \in Transfers : t # u /\ Claims(u) /\ dir[t] = dir[u] =>
        /\ Claims(t) => card[t] # card[u]
        /\ pc[t] \in {"askgap", "asktaken"} => offer[t] # card[u]

IInv == TypeOK /\ RegistryMatchesFields /\ StepsInv /\ ClaimsInv
=============================================================================
