---------------------------- MODULE MCQueryWindow ----------------------------
(* Model-checking instances of QueryWindow. *)
EXTENDS QueryWindow, TLC

CONSTANTS a, b, c

TwoTransfers   == {a, b}
ThreeTransfers == {a, b, c}

\* Transfers are interchangeable; there is no liveness property.
Symmetry == Permutations(ThreeTransfers)
=============================================================================
