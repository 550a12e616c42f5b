----------------------------- MODULE BackupSeal -----------------------------
(***************************************************************************)
(* What the finish-backup workflow promises, without snapshots, threads or *)
(* failures: the module documentation of zfs_specific.rs (lines 46-58) as  *)
(* a state machine. The log of the open entry may claim a completed backup *)
(* only under a guard that makes the next start halt, the guard may go     *)
(* only when the claim is withdrawn or the entry sealed by a snapshot, and *)
(* a new entry is opened only when the old one's claim stands unguarded.   *)
(***************************************************************************)
EXTENDS Integers

VARIABLES
    open,     \* the entry backups are being recorded in
    sealed,   \* the entries a snapshot carries, marked complete
    claimed,  \* the file of the open entry says completed_backup
    guarded   \* something is on the disk that makes the next start halt

sealVars == <<open, sealed, claimed, guarded>>

Init ==
    /\ open = 1
    /\ sealed = {}
    /\ claimed = FALSE
    /\ guarded = FALSE

Guard ==
    /\ guarded' = TRUE
    /\ UNCHANGED <<open, sealed, claimed>>

Claim ==
    /\ guarded \/ open \in sealed
    /\ claimed' = TRUE
    /\ UNCHANGED <<open, sealed, guarded>>

Disclaim ==
    /\ claimed' = FALSE
    /\ UNCHANGED <<open, sealed, guarded>>

\* The guard itself becomes the seal; another run's guard may remain.
Seal ==
    /\ guarded
    /\ sealed' = sealed \cup {open}
    /\ guarded' \in BOOLEAN
    /\ UNCHANGED <<open, claimed>>

Unguard ==
    /\ claimed => open \in sealed
    /\ guarded' = FALSE
    /\ UNCHANGED <<open, sealed, claimed>>

\* A halted start has been sorted out.
Repair ==
    /\ guarded
    /\ guarded' = FALSE
    /\ claimed' = (claimed /\ open \in sealed)
    /\ UNCHANGED <<open, sealed>>

OpenNext ==
    /\ claimed /\ ~guarded
    /\ open' = open + 1
    /\ claimed' = FALSE
    /\ UNCHANGED <<sealed, guarded>>

Next == Guard \/ Claim \/ Disclaim \/ Seal \/ Unguard \/ Repair \/ OpenNext

Spec == Init /\ [][Next]_sealVars
=============================================================================
