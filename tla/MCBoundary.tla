----------------------------- MODULE MCBoundary -----------------------------
(* Instances of Boundary for TLC.                                          *)
EXTENDS Boundary
=============================================================================
