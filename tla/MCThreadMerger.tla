-------------------------- MODULE MCThreadMerger ---------------------------
(* Instances of ThreadMerger for TLC.                                      *)
EXTENDS ThreadMerger
=============================================================================
