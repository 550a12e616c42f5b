--------------------------- MODULE MCFinishBackup ---------------------------
(* Model-checking instances of FinishBackup. *)
EXTENDS FinishBackup, TLC

CONSTANTS t1, t2, n1, n2

OneThread  == {t1}
TwoThreads == {t1, t2}
TwoNames   == {n1, n2}

\* Threads and names are interchangeable; used where no liveness property is checked.
Symmetry == Permutations(TwoNames) \cup Permutations(TwoThreads)
=============================================================================
