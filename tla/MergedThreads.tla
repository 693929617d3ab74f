--------------------------- MODULE MergedThreads ---------------------------
(***************************************************************************)
(* What the raster tasks may rely on while the threads merge and part      *)
(* (fml::RasterThreadMerger, apps/after_app/engine/src/flutter/fml): a     *)
(* raster task starts on the thread that serves the raster queue, the      *)
(* threads merge within a task of the raster thread and part within one of *)
(* the platform thread, and the task goes on where it started.             *)
(*                                                                         *)
(* ThreadMerger implements this with leases and the task queues;           *)
(* FramePipeline is built on it.                                           *)
(***************************************************************************)
VARIABLES
  merged,  \* the platform thread serves the raster queue
  busy     \* the threads that are in a raster task

vars == <<merged, busy>>

Init == merged = FALSE /\ busy = {}

Server == IF merged THEN "platform" ELSE "raster"

Start ==
  /\ Server \notin busy
  /\ busy' = busy \cup {Server}
  /\ UNCHANGED merged

Merge ==
  /\ ~merged /\ "raster" \in busy
  /\ merged' = TRUE
  /\ UNCHANGED busy

\* The lease may run out with the last step of a task.
Part ==
  /\ merged /\ "platform" \in busy
  /\ merged' = FALSE
  /\ busy' \in {busy, busy \ {"platform"}}

End(t) == t \in busy /\ busy' = busy \ {t} /\ UNCHANGED merged

Next == Start \/ Merge \/ Part \/ \E t \in busy : End(t)

Spec == Init /\ [][Next]_vars
=============================================================================
