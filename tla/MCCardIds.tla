----------------------------- MODULE MCCardIds -----------------------------
(* Model-checking instances of CardIds. *)
EXTENDS CardIds, TLC

CONSTANTS a, b, photos, scans, w

TwoTransfers == {a, b}
OnePhotos    == {photos}
OneScans     == {scans}
BothDirs     == {photos, scans}
OneWord      == {w}
None         == {}
Everything   == 0..MaxCard \cup Words

\* Transfers are interchangeable; used where no liveness property is checked.
Symmetry == Permutations(TwoTransfers)
=============================================================================
