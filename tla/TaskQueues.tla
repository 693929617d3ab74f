----------------------------- MODULE TaskQueues -----------------------------
(***************************************************************************)
(* The task queues of the engine: fml::MessageLoopTaskQueues, the          *)
(* TaskSource of each queue and the message loop that serves it            *)
(* (apps/after_app/engine/src/flutter/fml).                                *)
(*                                                                         *)
(* Any thread posts tasks to a queue.  A loop sleeps on a timer, and when  *)
(* the timer fires it takes the tasks that are due one by one.  A queue    *)
(* may be merged into another: its tasks then run on the owner's loop.     *)
(* A vsync pauses the Dart tasks of a queue until the frame it posts ran.  *)
(* Every operation below holds queue_mutex_ throughout: it is one step.    *)
(***************************************************************************)
EXTENDS Integers, FiniteSets

CONSTANTS
  Queues,     \* the TaskQueueIds, each with its own loop and thread
  kUnmerged,  \* TaskQueueId::kUnmerged
  MaxTime,    \* the clock runs from 0 to MaxTime
  MaxTasks,   \* how many tasks are ever posted
  AnyThread   \* TRUE: Merge and Unmerge come from any thread, as in the unit
              \* tests; FALSE: from the threads the engine calls them on

ASSUME QueuesAreFinite == IsFiniteSet(Queues)
ASSUME kUnmergedIsNoQueue == kUnmerged \notin Queues
ASSUME BoundsAreNaturals == MaxTime \in Nat /\ MaxTasks \in Nat
ASSUME AnyThreadIsBoolean == AnyThread \in BOOLEAN

VARIABLES
  now,         \* TimePoint::Now()
  order,       \* order_: the next task's position
  tasks,       \* per queue, the two heaps of its TaskSource
  paused,      \* per queue, secondary_pause_requests_
  ownerOf,     \* per queue, owner_of
  subsumedBy,  \* per queue, subsumed_by
  wake,        \* per loop, the time its timer is armed for
  loop,        \* per loop: asleep, taking the next task, running one
  flushNow,    \* per loop, the time FlushTasks read when it began
  running,     \* per loop, the queue and the task it runs
  vsync        \* per queue, a FireCallback between pausing and posting

mergeVars == <<ownerOf, subsumedBy>>
loopVars  == <<loop, flushNow, running>>
vars == <<now, order, tasks, paused, mergeVars, wake, loopVars, vsync>>

(* A task: order_, target_time_, the grade that picks its heap, and        *)
(* whether it is the frame of a vsync, which ends by resuming Dart tasks.  *)
Task == [order : Nat, time : 0..MaxTime,
         grade : {"primary", "dart"}, frame : BOOLEAN]

Never   == MaxTime + 1
NoTask  == [queue |-> kUnmerged]
Running == {NoTask} \cup [queue : Queues, task : Task]

TypeOK ==
  /\ now \in 0..MaxTime
  /\ order \in Nat
  /\ tasks \in [Queues -> SUBSET Task]
  /\ paused \in [Queues -> Nat]
  /\ ownerOf \in [Queues -> SUBSET Queues]
  /\ subsumedBy \in [Queues -> Queues \cup {kUnmerged}]
  /\ wake \in [Queues -> 0..Never]
  /\ loop \in [Queues -> {"idle", "flush", "run"}]
  /\ flushNow \in [Queues -> 0..MaxTime]
  /\ running \in [Queues -> Running]
  /\ vsync \in [Queues -> BOOLEAN]

Init ==
  /\ now = 0
  /\ order = 0
  /\ tasks = [q \in Queues |-> {}]
  /\ paused = [q \in Queues |-> 0]
  /\ ownerOf = [q \in Queues |-> {}]
  /\ subsumedBy = [q \in Queues |-> kUnmerged]
  /\ wake = [q \in Queues |-> Never]
  /\ loop = [q \in Queues |-> "idle"]
  /\ flushNow = [q \in Queues |-> 0]
  /\ running = [q \in Queues |-> NoTask]
  /\ vsync = [q \in Queues |-> FALSE]

-----------------------------------------------------------------------------
(* What a queue offers to its loop.                                        *)

\* DelayedTask::operator>, turned round.
Before(t, u) == t.time < u.time \/ (t.time = u.time /\ t.order < u.order)

Subsumed(q) == subsumedBy[q] # kUnmerged

\* The tasks a TaskSource counts: Dart tasks do not show while paused.
Visible(q) == {t \in tasks[q] : t.grade = "primary" \/ paused[q] = 0}

\* The tasks PeekNextTaskUnlocked chooses from.
Offered(q) == UNION {Visible(s) : s \in {q} \cup ownerOf[q]}

HasPending(q) == ~Subsumed(q) /\ Offered(q) # {}

Earliest(T) == CHOOSE t \in T : \A u \in T : ~Before(u, t)

PeekNext(q) == Earliest(Offered(q))

NextWakeTime(q) == PeekNext(q).time

\* The loops of Q that have something to do after this step are woken for it.
WakeIfPending(Q) ==
  wake' = [q \in Queues |->
            IF q \in Q /\ HasPending(q)' THEN NextWakeTime(q)' ELSE wake[q]]

(* Mutant of LoopToWake: the queue's own loop is woken, merged or not. *)
LoopOfQueue(q) == q

LoopToWake(q) == IF Subsumed(q) THEN subsumedBy[q] ELSE q

-----------------------------------------------------------------------------
(* Posting a task, from any thread.                                        *)

RegisterTask(q, time, grade, frame) ==
  /\ tasks' = [tasks EXCEPT ![q] = @ \cup
                {[order |-> order, time |-> time, grade |-> grade, frame |-> frame]}]
  /\ order' = order + 1
  /\ UNCHANGED <<paused, mergeVars>>
  /\ WakeIfPending({LoopToWake(q)})

\* A frame about to be posted has its place among the MaxTasks.
RoomForOne == order + Cardinality({q \in Queues : vsync[q]}) < MaxTasks

PostTask(q) ==
  /\ RoomForOne
  /\ \E time \in now..MaxTime, grade \in {"primary", "dart"} :
       RegisterTask(q, time, grade, FALSE)
  /\ UNCHANGED <<now, loopVars, vsync>>

(* Mutant of PauseSecondary: a flag instead of a count. *)
PauseSecondaryOnce(q) == paused' = [paused EXCEPT ![q] = 1]

(* VsyncWaiter::FireCallback pauses the Dart tasks, then posts the frame.  *)
PauseSecondary(q) == paused' = [paused EXCEPT ![q] = @ + 1]

FireCallback(q) ==
  /\ ~vsync[q]
  /\ RoomForOne
  /\ PauseSecondary(q)
  /\ vsync' = [vsync EXCEPT ![q] = TRUE]
  /\ UNCHANGED <<now, order, tasks, mergeVars, wake, loopVars>>

PostFrame(q) ==
  /\ vsync[q]
  /\ RegisterTask(q, now, "primary", TRUE)
  /\ vsync' = [vsync EXCEPT ![q] = FALSE]
  /\ UNCHANGED <<now, loopVars>>

-----------------------------------------------------------------------------
(* The loop of a queue.                                                    *)

\* The timer fires; draining it disarms it, and FlushTasks reads the clock.
OnEventFired(q) ==
  /\ loop[q] = "idle"
  /\ wake[q] <= now
  /\ wake' = [wake EXCEPT ![q] = Never]
  /\ loop' = [loop EXCEPT ![q] = "flush"]
  /\ flushNow' = [flushNow EXCEPT ![q] = now]
  /\ UNCHANGED <<now, order, tasks, paused, mergeVars, running, vsync>>

NothingToRun(q) ==
  /\ ~HasPending(q)
  /\ loop' = [loop EXCEPT ![q] = "idle"]
  /\ UNCHANGED <<tasks, wake, running>>

NotYetDue(q) ==
  /\ HasPending(q)
  /\ NextWakeTime(q) > flushNow[q]
  /\ wake' = [wake EXCEPT ![q] = NextWakeTime(q)]
  /\ loop' = [loop EXCEPT ![q] = "idle"]
  /\ UNCHANGED <<tasks, running>>

\* The wake-up is armed before the task is taken off its heap.
TakeTask(q) ==
  /\ HasPending(q)
  /\ NextWakeTime(q) <= flushNow[q]
  /\ wake' = [wake EXCEPT ![q] = NextWakeTime(q)]
  /\ \E s \in {q} \cup ownerOf[q] :
       /\ PeekNext(q) \in Visible(s)
       /\ tasks' = [tasks EXCEPT ![s] = @ \ {PeekNext(q)}]
       /\ running' = [running EXCEPT ![q] = [queue |-> s, task |-> PeekNext(q)]]
  /\ loop' = [loop EXCEPT ![q] = "run"]

GetNextTaskToRun(q) ==
  /\ loop[q] = "flush"
  /\ NothingToRun(q) \/ NotYetDue(q) \/ TakeTask(q)
  /\ UNCHANGED <<now, order, paused, mergeVars, flushNow, vsync>>

(* The task returns.  A frame has resumed the Dart tasks of its queue,     *)
(* which wakes that queue's own loop, if it has one to itself.             *)
ResumeSecondary(q) ==
  /\ paused' = [paused EXCEPT ![q] = @ - 1]
  /\ UNCHANGED <<tasks, mergeVars>>
  /\ WakeIfPending({q})

TaskReturns(q) ==
  /\ loop[q] = "run"
  /\ IF running[q].task.frame
       THEN ResumeSecondary(running[q].queue)
       ELSE UNCHANGED <<tasks, paused, mergeVars, wake>>
  /\ loop' = [loop EXCEPT ![q] = "flush"]
  /\ running' = [running EXCEPT ![q] = NoTask]
  /\ UNCHANGED <<now, order, flushNow, vsync>>

-----------------------------------------------------------------------------
(* Merging and unmerging.                                                  *)

RunsFrame(q) == loop[q] = "run" /\ running[q].task.frame

(* The engine merges a queue from one of its own tasks (Engine::Run on the *)
(* UI thread, the preroll on the raster thread), and unmerges it on the    *)
(* owner's thread; neither happens inside the callback of a vsync.         *)
MergingThread(s) ==
  \/ AnyThread
  \/ loop[s] = "run" /\ running[s].queue = s /\ ~RunsFrame(s)

UnmergingThread(o) == AnyThread \/ ~RunsFrame(o)

(* Mutant of CanMerge: the queue to subsume may own others. *)
CanMergeOwner(o, s) ==
  /\ o # s
  /\ s \notin ownerOf[o]
  /\ ~Subsumed(o)
  /\ ~Subsumed(s)

CanMerge(o, s) ==
  /\ o # s
  /\ s \notin ownerOf[o]
  /\ ~Subsumed(o)
  /\ ownerOf[s] = {}
  /\ ~Subsumed(s)

Merge(o, s) ==
  /\ MergingThread(s)
  /\ CanMerge(o, s)
  /\ ownerOf' = [ownerOf EXCEPT ![o] = @ \cup {s}]
  /\ subsumedBy' = [subsumedBy EXCEPT ![s] = o]
  /\ UNCHANGED <<now, order, tasks, paused, loopVars, vsync>>
  /\ WakeIfPending({o})

CanUnmerge(o, s) ==
  /\ ownerOf[o] # {}
  /\ ~Subsumed(o)
  /\ Subsumed(s)
  /\ s \in ownerOf[o]

(* Mutant of LoopsAfterUnmerge: only the owner is woken, as Merge does. *)
OwnerAfterUnmerge(o, s) == {o}

\* Both queues are looked at: each may have tasks of its own.
LoopsAfterUnmerge(o, s) == {o, s}

Unmerge(o, s) ==
  /\ UnmergingThread(o)
  /\ CanUnmerge(o, s)
  /\ ownerOf' = [ownerOf EXCEPT ![o] = @ \ {s}]
  /\ subsumedBy' = [subsumedBy EXCEPT ![s] = kUnmerged]
  /\ UNCHANGED <<now, order, tasks, paused, loopVars, vsync>>
  /\ WakeIfPending(LoopsAfterUnmerge(o, s))

Tick ==
  /\ now < MaxTime
  /\ now' = now + 1
  /\ UNCHANGED <<order, tasks, paused, mergeVars, wake, loopVars, vsync>>

-----------------------------------------------------------------------------
Next ==
  \/ \E q \in Queues :
       \/ PostTask(q) \/ FireCallback(q) \/ PostFrame(q)
       \/ OnEventFired(q) \/ GetNextTaskToRun(q) \/ TaskReturns(q)
  \/ \E o, s \in Queues : Merge(o, s) \/ Unmerge(o, s)
  \/ Tick

Spec == Init /\ [][Next]_vars

(* The operating system schedules every thread and fires its timers, tasks *)
(* return, and time passes.  Nobody has to post, merge or unmerge.         *)
Fairness ==
  /\ WF_vars(Tick)
  /\ \A q \in Queues :
       /\ WF_vars(PostFrame(q))
       /\ WF_vars(OnEventFired(q))
       /\ WF_vars(GetNextTaskToRun(q))
       /\ WF_vars(TaskReturns(q))

FairSpec == Spec /\ Fairness

-----------------------------------------------------------------------------
(* Properties.                                                             *)

(* Who owns whom, as the header promises: a queue is an owner, subsumed    *)
(* or independent, and the two sides of a merge agree, whatever threads    *)
(* merge and unmerge in whatever order (message_loop_task_queues.h:113).   *)
MergeState ==
  \A o \in Queues :
    /\ ownerOf[o] # {} => ~Subsumed(o)
    /\ \A s \in Queues : s \in ownerOf[o] <=> subsumedBy[s] = o

(* No lost wake-up: a sleeping loop is armed no later than any task it     *)
(* could run, its own or a subsumed queue's, through merges, unmerges,     *)
(* pauses and spurious wake-ups ("This also wakes up the loop at the       *)
(* required times", message_loop_task_queues.h:62).                        *)
NoLostWakeup ==
  \A q \in Queues :
    loop[q] = "idle" /\ ~Subsumed(q) => \A t \in Offered(q) : wake[q] <= t.time

(* Every pause is accounted for: what a queue counts is the frames not    *)
(* yet posted, waiting or running, wherever the queue is served.  A leak   *)
(* would silence Dart for good, a missing one would let Dart tasks run     *)
(* ahead of a frame (vsync_waiter.cc:114-145).                             *)
PausesAreFrames ==
  \A s \in Queues :
    paused[s] = (IF vsync[s] THEN 1 ELSE 0)
              + Cardinality({t \in tasks[s] : t.frame})
              + Cardinality({q \in Queues : RunsFrame(q) /\ running[q].queue = s})

(* Every task posted is eventually taken by some loop, whatever is merged, *)
(* unmerged or paused meanwhile.                                           *)
EveryTaskRuns ==
  \A n \in 0..(MaxTasks - 1) :
    order > n ~> \A q \in Queues : \A t \in tasks[q] : t.order # n
=============================================================================
