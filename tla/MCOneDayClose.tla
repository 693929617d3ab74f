--------------------------- MODULE MCOneDayClose ---------------------------
(* Instances of OneDayClose for TLC.                                       *)
EXTENDS OneDayClose, TLC

Symmetry == Permutations(Phrases) \cup Permutations(Calls)
=============================================================================
