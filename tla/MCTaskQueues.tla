---------------------------- MODULE MCTaskQueues ----------------------------
(* Instances of TaskQueues for TLC.  The queues are interchangeable, but a   *)
(* liveness property is checked, so no symmetry is used.                     *)
EXTENDS TaskQueues
=============================================================================
