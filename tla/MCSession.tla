------------------------------ MODULE MCSession ------------------------------
(* Instances of Session for TLC. *)
EXTENDS Session, TLC

CONSTANTS a, b

OneTransfer  == {a}
TwoTransfers == {a, b}

\* Transfers are interchangeable; used where no liveness property is checked.
Symmetry == Permutations(TwoTransfers)
=============================================================================
