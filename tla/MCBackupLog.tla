----------------------------- MODULE MCBackupLog -----------------------------
(* Model-checking instances of BackupLog. *)
EXTENDS BackupLog, TLC

CONSTANTS card1, card2

OneTransfer  == {card1}
TwoTransfers == {card1, card2}

\* Transfers are interchangeable; used where no liveness property is checked.
Symmetry == Permutations(TwoTransfers)
=============================================================================
