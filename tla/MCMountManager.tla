--------------------------- MODULE MCMountManager ---------------------------
(* Model-checking instances of MountManager. *)
EXTENDS MountManager, TLC

CONSTANTS sdb1, m1, m2, a, b

OneDevice    == {sdb1}
OneMount     == {m1}
TwoMounts    == {m1, m2}
OneTransfer  == {a}
TwoTransfers == {a, b}

\* Transfers and mounts are interchangeable; used where no liveness property is checked.
Symmetry == Permutations(TwoMounts) \cup Permutations(TwoTransfers)
=============================================================================
