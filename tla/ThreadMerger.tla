---------------------------- MODULE ThreadMerger ----------------------------
(***************************************************************************)
(* Merging the raster thread into the platform thread, and the platform    *)
(* views that ask for it: fml::RasterThreadMerger, SharedThreadMerger,     *)
(* Rasterizer and the surface callbacks of Shell                           *)
(* (apps/after_app/engine/src/flutter).                                    *)
(*                                                                         *)
(* Engines spawned from one another share the two task queues and one      *)
(* SharedThreadMerger.  A frame that shows platform views leases the       *)
(* platform thread for the raster tasks; every frame drawn spends one of   *)
(* the lease, and the threads part when all leases are spent.  The draw    *)
(* that merges goes on on the raster thread, while the platform thread     *)
(* starts the next raster task.  When a surface comes or goes the platform *)
(* thread waits on a latch, with merging disabled.                         *)
(***************************************************************************)
EXTENDS Integers, Sequences, FiniteSets

CONSTANTS
  Engines,    \* engines that share the threads, each with a RasterThreadMerger
  LeaseTerm,  \* kDefaultMergedLeaseDuration
  MaxDraws,   \* draws an engine has in the raster queue at most
  MaxLag      \* raster tasks the platform thread starts while the raster
              \* thread is still in the draw that merged

ASSUME TermsAreNatural == LeaseTerm \in Nat \ {0} /\ MaxDraws \in Nat /\ MaxLag \in Nat

VARIABLES
  merged,   \* the platform queue owns the raster queue
  enabled,  \* enabled_, shared by all the mergers
  lease,    \* lease_term_by_caller_
  surface,  \* per engine, the rasterizer has its surface_
  view,     \* per engine, the platform has a surface
  queue,    \* the raster tasks that wait
  at,       \* per thread, the step it has come to
  task,     \* per thread, the raster task it runs, or waits to be run
  retry,    \* per thread, the draw has an item to resubmit
  lag,      \* raster tasks started on the platform thread meanwhile
  io,       \* what the IO thread has been asked to do for the platform thread
  aborted   \* an FML_CHECK failed

mergerVars == <<merged, enabled, lease>>
threadVars == <<queue, at, task, retry, lag, io>>
vars == <<mergerVars, surface, view, threadVars, aborted>>

Threads == {"raster", "platform"}
NoLease == -1

DrawSteps  == {"draw", "preroll", "merge", "merging", "extend", "drawn", "decrementing"}
TaskSteps  == {"enable", "setup", "teardown", "unmerge", "destroyed"}
ShellSteps == {"created", "destroy", "wait"}

Task == [do : {"draw", "setup", "teardown"}, engine : Engines, views : BOOLEAN]

TypeOK ==
  /\ merged \in BOOLEAN /\ enabled \in BOOLEAN /\ aborted \in BOOLEAN
  /\ lease \in [Engines -> 0..LeaseTerm \cup {NoLease}]
  /\ surface \in [Engines -> BOOLEAN] /\ view \in [Engines -> BOOLEAN]
  /\ queue \in Seq(Task)
  /\ at \in [Threads -> {"idle"} \cup DrawSteps \cup TaskSteps \cup ShellSteps]
  /\ task \in [Threads -> Task] /\ retry \in [Threads -> BOOLEAN]
  /\ lag \in 0..MaxLag
  /\ io \in {"none", "create", "createAndPost", "created", "destroyed"}

\* Every engine has been set up and draws; nothing is merged.
Init ==
  /\ merged = FALSE /\ enabled = TRUE /\ aborted = FALSE
  /\ lease = [e \in Engines |-> NoLease]
  /\ surface = [e \in Engines |-> TRUE] /\ view = [e \in Engines |-> TRUE]
  /\ queue = <<>>
  /\ at = [t \in Threads |-> "idle"]
  /\ task \in [Threads -> {[do |-> "draw", engine |-> e, views |-> FALSE] : e \in Engines}]
  /\ retry = [t \in Threads |-> FALSE]
  /\ lag = 0 /\ io = "none"

-----------------------------------------------------------------------------
(* The leases.                                                             *)

\* IsMergedUnSafe reads the leases, not the task queues.
IsMerged(leases) == \E e \in Engines : leases[e] > 0

(* mutex_ of the engine's own merger, held from checking whether merging   *)
(* is enabled to the change of the shared state.                           *)
MutexFree(e) ==
  \A t \in Threads : task[t].engine = e => at[t] \notin {"merging", "decrementing"}

Check(condition) == aborted' = ~condition

(* Mutant of UnMergeNow: the task queues are left merged. *)
UnMergeNowForgotten == Check(merged) /\ UNCHANGED merged

\* UnMergeNowUnSafe: the task queues must have been merged.
UnMergeNow == Check(merged) /\ merged' = FALSE

GoTo(t, step) == at' = [at EXCEPT ![t] = step]

-----------------------------------------------------------------------------
(* A raster task runs on the thread that serves the raster queue.          *)

Serves(t) == (t = "platform") <=> merged

StartTask(t) ==
  /\ at[t] = "idle"
  /\ queue # <<>>
  /\ Serves(t)
  /\ t = "platform" /\ at["raster"] # "idle" => lag < MaxLag
  /\ lag' = IF t = "platform" /\ at["raster"] # "idle" THEN lag + 1 ELSE 0
  /\ queue' = Tail(queue)
  /\ task' = [task EXCEPT ![t] = Head(queue)]
  /\ retry' = [retry EXCEPT ![t] = FALSE]
  /\ GoTo(t, IF Head(queue).do = "draw" THEN "draw" ELSE "enable")
  /\ UNCHANGED <<mergerVars, surface, view, io, aborted>>

\* A draw ends; an item to resubmit goes back, with a Draw to come for it.
EndDraw(t) ==
  /\ GoTo(t, "idle")
  /\ queue' = IF retry[t] THEN Append(queue, task[t]) ELSE queue

\* Rasterizer::Draw yields on the wrong thread, and gives up with no surface.
Draw(t) ==
  /\ at[t] = "draw"
  /\ MutexFree(task[t].engine)
  /\ IF ((t = "platform") <=> IsMerged(lease)) /\ surface[task[t].engine]
       THEN GoTo(t, "preroll") /\ UNCHANGED queue
       ELSE EndDraw(t)
  /\ UNCHANGED <<mergerVars, surface, view, task, retry, lag, io, aborted>>

\* Merged, the first frame after the surfaces were switched is drawn again.
PostPrerollAction(t) ==
  /\ at[t] = "preroll"
  /\ MutexFree(task[t].engine)
  /\ GoTo(t, IF ~task[t].views THEN "drawn"
             ELSE IF IsMerged(lease) THEN "extend" ELSE "merge")
  /\ \E again \in BOOLEAN :
       retry' = [retry EXCEPT ![t] = task[t].views /\ (~IsMerged(lease) \/ again)]
  /\ UNCHANGED <<mergerVars, surface, view, queue, task, lag, io, aborted>>

(* Mutant of Extended: the term is added to what is left. *)
Lengthened(term) == term + LeaseTerm

\* The lease is set anew, whatever is left of it.
Extended(term) == LeaseTerm

ExtendLeaseTo(t) ==
  /\ at[t] = "extend"
  /\ MutexFree(task[t].engine)
  /\ lease' = IF enabled
                THEN [lease EXCEPT ![task[t].engine] = Extended(lease[task[t].engine])]
                ELSE lease
  /\ GoTo(t, "drawn")
  /\ UNCHANGED <<merged, enabled, surface, view, queue, task, retry, lag, io, aborted>>

MayMerge == enabled /\ ~IsMerged(lease)

MergeWithLease(t) ==
  /\ at[t] = "merge"
  /\ MutexFree(task[t].engine)
  /\ GoTo(t, IF MayMerge THEN "merging" ELSE "drawn")
  /\ UNCHANGED <<mergerVars, surface, view, queue, task, retry, lag, io, aborted>>

\* The shared merger: a caller that comes second is not recorded.
SharedMergeWithLease(t) ==
  /\ at[t] = "merging"
  /\ IF IsMerged(lease)
       THEN UNCHANGED <<merged, lease>>
       ELSE merged' = TRUE /\ lease' = [lease EXCEPT ![task[t].engine] = LeaseTerm]
  /\ GoTo(t, "drawn")
  /\ UNCHANGED <<enabled, surface, view, queue, task, retry, lag, io, aborted>>

DecrementLease(t) ==
  /\ at[t] = "drawn"
  /\ MutexFree(task[t].engine)
  /\ IF IsMerged(lease) /\ enabled
       THEN GoTo(t, "decrementing") /\ UNCHANGED queue
       ELSE EndDraw(t)
  /\ UNCHANGED <<mergerVars, surface, view, task, retry, lag, io, aborted>>

(* Mutant of Spent: the lease never gets to its end. *)
SpentButOne(term) == IF term > 1 THEN term - 1 ELSE term

\* A caller that was erased spends nothing.
Spent(term) == IF term > 0 THEN term - 1 ELSE term

(* Mutant of AllSpent: the threads part when one draw is left. *)
OneLeft(leases) == \A e \in Engines : leases[e] <= 1

AllSpent(leases) == ~IsMerged(leases)

SharedDecrementLease(t) ==
  LET e == task[t].engine
      left == [lease EXCEPT ![e] = Spent(lease[e])] IN
  /\ at[t] = "decrementing"
  /\ lease' = left
  /\ IF lease[e] = 0
       THEN Check(FALSE) /\ UNCHANGED merged
       ELSE IF AllSpent(left)
         THEN UnMergeNow
         ELSE UNCHANGED <<merged, aborted>>
  /\ EndDraw(t)
  /\ UNCHANGED <<enabled, surface, view, task, retry, lag, io>>

-----------------------------------------------------------------------------
(* The raster tasks of a surface that comes or goes.                       *)

EnableThreadMerger(t) ==
  /\ at[t] = "enable"
  /\ MutexFree(task[t].engine)
  /\ enabled' = TRUE
  /\ GoTo(t, task[t].do)
  /\ UNCHANGED <<merged, lease, surface, view, queue, task, retry, lag, io, aborted>>

Setup(t) ==
  /\ at[t] = "setup"
  /\ surface' = [surface EXCEPT ![task[t].engine] = TRUE]
  /\ GoTo(t, "idle")
  /\ UNCHANGED <<mergerVars, view, queue, task, retry, lag, io, aborted>>

Teardown(t) ==
  /\ at[t] = "teardown"
  /\ MutexFree(task[t].engine)
  /\ surface' = [surface EXCEPT ![task[t].engine] = FALSE]
  /\ GoTo(t, IF IsMerged(lease) THEN "unmerge" ELSE "destroyed")
  /\ UNCHANGED <<mergerVars, view, queue, task, retry, lag, io, aborted>>

(* Mutant of Erased: a torn down engine keeps its lease. *)
KeptOnTeardown(e) == lease

Erased(e) == [lease EXCEPT ![e] = NoLease]

UnMergeNowIfLastOne(t) ==
  /\ at[t] = "unmerge"
  /\ MutexFree(task[t].engine)
  /\ IF enabled
       THEN /\ lease' = Erased(task[t].engine)
            /\ IF IsMerged(lease') THEN UNCHANGED <<merged, aborted>> ELSE UnMergeNow
       ELSE UNCHANGED <<merged, lease, aborted>>
  /\ GoTo(t, "destroyed")
  /\ UNCHANGED <<enabled, surface, view, queue, task, retry, lag, io>>

\* The last of OnPlatformViewDestroyed's raster task: the IO thread goes on.
PostIoTask(t) ==
  /\ at[t] = "destroyed"
  /\ io' = "destroyed"
  /\ GoTo(t, IF t = "platform" THEN "wait" ELSE "idle")
  /\ UNCHANGED <<mergerVars, surface, view, queue, task, retry, lag, aborted>>

-----------------------------------------------------------------------------
(* The platform thread: surfaces come and go.                              *)

\* Merging is disabled before anything is assumed of the threads.
SurfaceCallback(e, do, step) ==
  /\ at["platform"] = "idle"
  /\ MutexFree(e)
  /\ view' = [view EXCEPT ![e] = (do = "setup")]
  /\ enabled' = FALSE
  /\ task' = [task EXCEPT !["platform"] = [do |-> do, engine |-> e, views |-> FALSE]]
  /\ GoTo("platform", step)
  /\ UNCHANGED <<merged, lease, surface, queue, retry, lag, io, aborted>>

OnPlatformViewCreated(e) == ~view[e] /\ SurfaceCallback(e, "setup", "created")

OnPlatformViewDestroyed(e) == view[e] /\ SurfaceCallback(e, "teardown", "destroy")

\* should_post_raster_task is decided here, before the wait.
AwaitIoTask ==
  /\ at["platform"] = "created"
  /\ io' = IF merged THEN "create" ELSE "createAndPost"
  /\ GoTo("platform", "wait")
  /\ UNCHANGED <<mergerVars, surface, view, queue, task, retry, lag, aborted>>

IoPostsSetup ==
  /\ io = "createAndPost"
  /\ queue' = Append(queue, task["platform"])
  /\ io' = "created"
  /\ UNCHANGED <<mergerVars, surface, view, at, task, retry, lag, aborted>>

\* The latch: with no setup posted, the platform thread runs it itself.
IoSignals ==
  /\ io \in {"create", "created", "destroyed"}
  /\ io' = "none"
  /\ GoTo("platform", IF io = "create" THEN "enable" ELSE "idle")
  /\ UNCHANGED <<mergerVars, surface, view, queue, task, retry, lag, aborted>>

(* Mutant of RunsNow: a raster task is always posted. *)
NeverRunsNow(owned) == FALSE

\* RunsTasksOnCurrentThread: is the raster queue the platform thread's own?
RunsNow(owned) == owned

RunNowOrPostTask ==
  /\ at["platform"] = "destroy"
  /\ IF RunsNow(merged)
       THEN GoTo("platform", "enable") /\ UNCHANGED queue
       ELSE GoTo("platform", "wait") /\ queue' = Append(queue, task["platform"])
  /\ UNCHANGED <<mergerVars, surface, view, task, retry, lag, io, aborted>>

\* The animator of an engine has a frame, with or without platform views.
OnAnimatorDraw(e, views) ==
  /\ Cardinality({i \in DOMAIN queue : queue[i].do = "draw" /\ queue[i].engine = e}) < MaxDraws
  /\ queue' = Append(queue, [do |-> "draw", engine |-> e, views |-> views])
  /\ UNCHANGED <<mergerVars, surface, view, at, task, retry, lag, io, aborted>>

-----------------------------------------------------------------------------
RasterStep(t) ==
  \/ StartTask(t) \/ Draw(t) \/ PostPrerollAction(t) \/ ExtendLeaseTo(t)
  \/ MergeWithLease(t) \/ SharedMergeWithLease(t)
  \/ DecrementLease(t) \/ SharedDecrementLease(t)
  \/ EnableThreadMerger(t) \/ Setup(t) \/ Teardown(t)
  \/ UnMergeNowIfLastOne(t) \/ PostIoTask(t)

ShellStep == AwaitIoTask \/ IoPostsSetup \/ IoSignals \/ RunNowOrPostTask

Next ==
  /\ ~aborted
  /\ \/ \E t \in Threads : RasterStep(t)
     \/ ShellStep
     \/ \E e \in Engines :
          \/ OnPlatformViewCreated(e) \/ OnPlatformViewDestroyed(e)
          \/ \E views \in BOOLEAN : OnAnimatorDraw(e, views)

Spec == Init /\ [][Next]_vars

(* Threads are scheduled and serve their queues.  Frames and surfaces come *)
(* and go as the program and its user please.                              *)
Fairness ==
  /\ \A t \in Threads : SF_vars(~aborted /\ RasterStep(t))
  /\ WF_vars(~aborted /\ ShellStep)

FairSpec == Spec /\ Fairness

-----------------------------------------------------------------------------
(* Properties.                                                             *)

(* The mergers and the task queues agree on whether the threads are merged *)
(* ("should be merged state when calling this method",                     *)
(* shared_thread_merger.cc:82): the one decides by the leases, the loops   *)
(* by the queues.                                                          *)
LeasesMatchQueues == IsMerged(lease) <=> merged

(* A lease is never spent below nothing while the threads are merged       *)
(* ("lease_term should always be positive when merged",                    *)
(* shared_thread_merger.cc:60): a frame counts against its own engine's    *)
(* lease, whoever's lease it is that keeps the threads merged.             *)
LeaseIsPositive ==
  \A t \in Threads : merged /\ at[t] = "decrementing" => lease[task[t].engine] # 0

(* The leases and the latch keep the contract the draws rely on: raster    *)
(* tasks start on the thread that serves them, the threads merge within a  *)
(* task of the raster thread and part within one of the platform thread,   *)
(* never under the other one's feet.                                       *)
Merging == INSTANCE MergedThreads WITH
  busy <- {t \in Threads : at[t] \in DrawSteps \cup TaskSteps}

MergingIsKept == Merging!Spec

(* A draw never finds itself on the wrong thread when it starts: the       *)
(* frames it would yield have nobody to serve them (rasterizer.cc:248).    *)
NoDrawYields ==
  \A t \in Threads : at[t] = "draw" => ((t = "platform") <=> IsMerged(lease))

(* While the platform thread waits for its surface to be torn down, the    *)
(* threads stay as they were when it looked ("Prevent any request to       *)
(* change the thread configuration for raster and platform queues while    *)
(* the platform view is being destroyed", shell.cc:1051).                  *)
ConfigurationIsFixed ==
  [][at["platform"] = "wait" /\ task["platform"].do = "teardown" => merged' = merged]_vars

\* The platform thread waits for a task of a queue it would have to serve.
WaitsForItself ==
  /\ merged /\ at["platform"] = "wait"
  /\ \E i \in DOMAIN queue : queue[i].do = "teardown"

(* The deadlock that shell.cc:1058 warns of comes about in one way only:   *)
(* the raster queue is merged by a draw under way while the teardown waits *)
(* in it.  No post, no setup, no draw put back and no parting leads to it. *)
OnlyAMergeDeadlocks ==
  [][WaitsForItself' => WaitsForItself \/ (~merged /\ merged')]_vars

(* An engine that has lost its surface keeps no lease, once its teardown   *)
(* is through: no frame of it will come to spend one, and the threads      *)
(* would stay merged for good (rasterizer.cc:137).                         *)
TeardownUnmerges ==
  \A e \in Engines : ~surface[e] =>
    lease[e] <= 0 \/ \E t \in Threads : at[t] = "unmerge" /\ task[t].engine = e

(* An engine's lease holds: while it is not its own to spend, nobody else  *)
(* parts the threads ("otherwise it will remove the caller record and      *)
(* return", raster_thread_merger.h:63).                                    *)
LeaseProtects ==
  [][\A e \in Engines : merged /\ lease[e] > 0 /\ lease'[e] = lease[e] => merged']_vars

NoViews ==
  /\ \A i \in DOMAIN queue : ~queue[i].views
  /\ \A t \in Threads : at[t] \in DrawSteps => ~task[t].views

(* When no frame shows a platform view any more, and frames go on, the     *)
(* raster tasks get their own thread back.                                 *)
LeaseExpires ==
  <>[]NoViews /\ []<>(\E t \in Threads : at[t] = "drawn") => <>[]~merged
=============================================================================
