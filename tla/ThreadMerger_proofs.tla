------------------------- MODULE ThreadMerger_proofs -------------------------
(* Theorems about ThreadMerger, for any number of engines and any embedder:  *)
(* types, the protection of leases, the latch, and how alone it can deadlock; *)
(* and, if a lease is longer than the lead of the platform thread by two,    *)
(* that leases and queues agree, that a teardown leaves no lease and that    *)
(* the threads keep the contract of MergedThreads.                           *)
EXTENDS ThreadMerger, TLAPS

(* Whoever spends or gives up a lease, the threads are not parted while      *)
(* another engine's lease is positive (SharedThreadMerger::DecrementLease    *)
(* and UnMergeNowIfLastOne).                                                 *)
THEOREM LeaseProtectsHolds == Spec => LeaseProtects
<1> DEFINE Protects ==
      \A e \in Engines : merged /\ lease[e] > 0 /\ lease'[e] = lease[e] => merged'
<1>1. Next => Protects
  <2> SUFFICES ASSUME Next, merged, ~merged', NEW e \in Engines,
                      lease[e] > 0, lease'[e] = lease[e]
               PROVE  FALSE
    OBVIOUS
  <2>1. PICK t \in Threads : SharedDecrementLease(t) \/ UnMergeNowIfLastOne(t)
    BY DEF Next, RasterStep, ShellStep, StartTask, Draw, PostPrerollAction,
           ExtendLeaseTo, MergeWithLease, SharedMergeWithLease, DecrementLease,
           EnableThreadMerger, Setup, Teardown, PostIoTask, AwaitIoTask,
           IoPostsSetup, IoSignals, RunNowOrPostTask, OnPlatformViewCreated,
           OnPlatformViewDestroyed, SurfaceCallback, OnAnimatorDraw, mergerVars
  <2>2. ~IsMerged(lease')
    BY <2>1 DEF SharedDecrementLease, AllSpent, UnMergeNowIfLastOne
  <2> QED BY <2>2 DEF IsMerged
<1>2. [Next]_vars => [Protects]_vars
  BY <1>1
<1> QED BY <1>2, PTL DEF Spec, LeaseProtects

-----------------------------------------------------------------------------
(* The types.                                                                *)

Steps == {"idle"} \cup DrawSteps \cup TaskSteps \cup ShellSteps

LEMMA GoesTo ==
  ASSUME TypeOK, NEW t \in Threads, NEW step, GoTo(t, step)
  PROVE  /\ at'[t] = step /\ \A u \in Threads \ {t} : at'[u] = at[u]
         /\ step \in Steps => at' \in [Threads -> Steps]
  BY DEF TypeOK, GoTo, Steps

LEMMA EndsDraw ==
  ASSUME TypeOK, NEW t \in Threads, EndDraw(t)
  PROVE  /\ at' \in [Threads -> Steps] /\ queue' \in Seq(Task)
<1>1. at' \in [Threads -> Steps]
  BY GoesTo DEF EndDraw, Steps
<1>2. queue' \in Seq(Task)
  BY DEF EndDraw, TypeOK
<1> QED BY <1>1, <1>2

LEMMA TypeStart ==
  ASSUME TypeOK, NEW t \in Threads, StartTask(t)
  PROVE  TypeOK'
<1>1. /\ queue \in Seq(Task) /\ queue # <<>> /\ queue' = Tail(queue)
      /\ task' = [task EXCEPT ![t] = Head(queue)]
      /\ retry' = [retry EXCEPT ![t] = FALSE]
      /\ lag \in 0..MaxLag /\ UNCHANGED <<mergerVars, surface, view, io, aborted>>
      /\ (lag' = lag + 1 /\ lag < MaxLag) \/ lag' = 0
  BY DEF StartTask, TypeOK
<1>2. queue' \in Seq(Task) /\ Head(queue) \in Task
  BY <1>1
<1>3. lag' \in 0..MaxLag
  BY <1>1, TermsAreNatural
<1>4. at' \in [Threads -> Steps]
  BY GoesTo DEF StartTask, Steps, DrawSteps, TaskSteps
<1>5. task' \in [Threads -> Task] /\ retry' \in [Threads -> BOOLEAN]
  BY <1>1, <1>2 DEF TypeOK
<1> QED BY <1>1, <1>2, <1>3, <1>4, <1>5 DEF TypeOK, mergerVars, Steps

LEMMA TypeDraw ==
  ASSUME TypeOK, NEW t \in Threads,
         Draw(t) \/ PostPrerollAction(t) \/ MergeWithLease(t) \/ DecrementLease(t)
  PROVE  TypeOK'
<1>1. UNCHANGED <<mergerVars, surface, view, task, lag, io, aborted>>
  BY DEF Draw, PostPrerollAction, MergeWithLease, DecrementLease
<1>2. \/ EndDraw(t)
      \/ queue' = queue /\ \E step \in DrawSteps : GoTo(t, step)
  BY DEF Draw, PostPrerollAction, MergeWithLease, DecrementLease, DrawSteps
<1>3. at' \in [Threads -> Steps] /\ queue' \in Seq(Task)
  <2>1. CASE EndDraw(t)
    BY <2>1, EndsDraw
  <2>2. ASSUME queue' = queue, NEW step \in DrawSteps, GoTo(t, step)
        PROVE  at' \in [Threads -> Steps] /\ queue' \in Seq(Task)
    <3>1. step \in Steps
      BY <2>2 DEF Steps
    <3> QED BY <2>2, <3>1, GoesTo DEF TypeOK
  <2> QED BY <1>2, <2>1, <2>2
<1>4. retry' \in [Threads -> BOOLEAN]
  <2>1. \/ retry' = retry
        \/ \E again \in BOOLEAN :
             retry' = [retry EXCEPT ![t] = task[t].views /\ (~IsMerged(lease) \/ again)]
    BY DEF Draw, PostPrerollAction, MergeWithLease, DecrementLease
  <2>2. task[t].views \in BOOLEAN
    BY DEF TypeOK, Task
  <2>3. ASSUME NEW b \in BOOLEAN PROVE [retry EXCEPT ![t] = b] \in [Threads -> BOOLEAN]
    BY DEF TypeOK
  <2>4. ASSUME NEW again \in BOOLEAN
        PROVE  (task[t].views /\ (~IsMerged(lease) \/ again)) \in BOOLEAN
    OBVIOUS
  <2> QED BY <2>1, <2>3, <2>4 DEF TypeOK
<1> QED BY <1>1, <1>3, <1>4 DEF TypeOK, mergerVars, Steps

LEMMA TypeLease ==
  ASSUME TypeOK, NEW t \in Threads,
         ExtendLeaseTo(t) \/ SharedMergeWithLease(t) \/ SharedDecrementLease(t)
  PROVE  TypeOK'
<1> DEFINE e == task[t].engine
<1>1. e \in Engines
  BY DEF TypeOK, Task
<1>2. UNCHANGED <<enabled, surface, view, task, retry, lag, io>>
  BY DEF ExtendLeaseTo, SharedMergeWithLease, SharedDecrementLease
<1>3. /\ merged' \in BOOLEAN /\ aborted' \in BOOLEAN
  BY DEF TypeOK, ExtendLeaseTo, SharedMergeWithLease, SharedDecrementLease, UnMergeNow, Check
<1>4. lease' \in [Engines -> 0..LeaseTerm \cup {NoLease}]
  <2>1. lease' \in {lease, [lease EXCEPT ![e] = LeaseTerm], [lease EXCEPT ![e] = Spent(lease[e])]}
    BY DEF ExtendLeaseTo, Extended, SharedMergeWithLease, SharedDecrementLease
  <2>2. LeaseTerm \in 0..LeaseTerm
    BY TermsAreNatural
  <2>3. Spent(lease[e]) \in 0..LeaseTerm \cup {NoLease}
    BY <1>1, TermsAreNatural DEF TypeOK, Spent, NoLease
  <2> HIDE DEF e
  <2> QED BY <1>1, <2>1, <2>2, <2>3 DEF TypeOK
<1>5. at' \in [Threads -> Steps] /\ queue' \in Seq(Task)
  <2>1. CASE EndDraw(t)
    BY <2>1, EndsDraw
  <2>2. CASE GoTo(t, "drawn") /\ queue' = queue
    BY <2>2, GoesTo DEF TypeOK, Steps, DrawSteps
  <2> QED BY <2>1, <2>2 DEF ExtendLeaseTo, SharedMergeWithLease, SharedDecrementLease
<1> QED BY <1>2, <1>3, <1>4, <1>5 DEF TypeOK, Steps

LEMMA TypeSurface ==
  ASSUME TypeOK, NEW t \in Threads,
         \/ EnableThreadMerger(t) \/ Setup(t) \/ Teardown(t)
         \/ UnMergeNowIfLastOne(t) \/ PostIoTask(t)
  PROVE  TypeOK'
<1>1. UNCHANGED <<view, queue, task, retry, lag>>
  BY DEF EnableThreadMerger, Setup, Teardown, UnMergeNowIfLastOne, PostIoTask
<1>2. /\ merged' \in BOOLEAN /\ aborted' \in BOOLEAN /\ enabled' \in BOOLEAN
      /\ io' \in {"none", "create", "createAndPost", "created", "destroyed"}
  BY DEF TypeOK, EnableThreadMerger, Setup, Teardown, UnMergeNowIfLastOne, PostIoTask,
         UnMergeNow, Check, mergerVars
<1>3. surface' \in [Engines -> BOOLEAN]
  BY DEF TypeOK, EnableThreadMerger, Setup, Teardown, UnMergeNowIfLastOne, PostIoTask
<1>4. lease' \in [Engines -> 0..LeaseTerm \cup {NoLease}]
  <2>1. lease' = lease \/ lease' = [lease EXCEPT ![task[t].engine] = NoLease]
    BY DEF EnableThreadMerger, Setup, Teardown, UnMergeNowIfLastOne, PostIoTask,
           mergerVars, Erased
  <2> QED BY <2>1 DEF TypeOK
<1>5. at' \in [Threads -> Steps]
  <2>1. task[t].do \in {"draw", "setup", "teardown"}
    BY DEF TypeOK, Task
  <2>2. PICK step : GoTo(t, step) /\ step \in {task[t].do, "idle", "unmerge", "destroyed", "wait"}
    BY DEF EnableThreadMerger, Setup, Teardown, UnMergeNowIfLastOne, PostIoTask
  <2>3. step \in Steps
    BY <2>1, <2>2 DEF Steps, DrawSteps, TaskSteps, ShellSteps
  <2> QED BY <2>2, <2>3, GoesTo
<1> QED BY <1>1, <1>2, <1>3, <1>4, <1>5 DEF TypeOK, Steps

LEMMA TypeShell ==
  ASSUME TypeOK, ShellStep
  PROVE  TypeOK'
<1>1. UNCHANGED <<mergerVars, surface, view, task, retry, lag, aborted>>
  BY DEF ShellStep, AwaitIoTask, IoPostsSetup, IoSignals, RunNowOrPostTask
<1>2. io' \in {"none", "create", "createAndPost", "created", "destroyed"}
  BY DEF TypeOK, ShellStep, AwaitIoTask, IoPostsSetup, IoSignals, RunNowOrPostTask
<1>3. queue' \in Seq(Task)
  <2>1. queue' = queue \/ queue' = Append(queue, task["platform"])
    BY DEF ShellStep, AwaitIoTask, IoPostsSetup, IoSignals, RunNowOrPostTask
  <2>2. task["platform"] \in Task
    BY DEF TypeOK, Threads
  <2> QED BY <2>1, <2>2 DEF TypeOK
<1>4. at' \in [Threads -> Steps]
  <2>1. at' = at \/ \E step \in {"wait", "enable", "idle"} : GoTo("platform", step)
    BY DEF ShellStep, AwaitIoTask, IoPostsSetup, IoSignals, RunNowOrPostTask
  <2>2. {"wait", "enable", "idle"} \subseteq Steps
    BY DEF Steps, TaskSteps, ShellSteps
  <2> QED BY <2>1, <2>2, GoesTo DEF TypeOK, Steps, Threads
<1> QED BY <1>1, <1>2, <1>3, <1>4 DEF TypeOK, mergerVars, Steps

LEMMA TypeView ==
  ASSUME TypeOK, NEW e \in Engines, NEW do \in {"setup", "teardown"},
         NEW step \in {"created", "destroy"}, SurfaceCallback(e, do, step)
  PROVE  TypeOK'
<1>1. UNCHANGED <<merged, lease, surface, queue, retry, lag, io, aborted>> /\ enabled' = FALSE
  BY DEF SurfaceCallback
<1>2. view' \in [Engines -> BOOLEAN]
  BY DEF SurfaceCallback, TypeOK
<1>3. [do |-> do, engine |-> e, views |-> FALSE] \in Task
  BY DEF Task
<1>4. task' \in [Threads -> Task]
  BY <1>3 DEF SurfaceCallback, TypeOK
<1>5. at' \in [Threads -> Steps]
  BY GoesTo DEF SurfaceCallback, Steps, ShellSteps, Threads
<1> QED BY <1>1, <1>2, <1>4, <1>5 DEF TypeOK, Steps

LEMMA TypeNext == TypeOK /\ [Next]_vars => TypeOK'
<1> SUFFICES ASSUME TypeOK, [Next]_vars PROVE TypeOK'
  OBVIOUS
<1>1. ASSUME NEW t \in Threads, RasterStep(t) PROVE TypeOK'
  BY <1>1, TypeStart, TypeDraw, TypeLease, TypeSurface DEF RasterStep
<1>2. CASE ShellStep
  BY <1>2, TypeShell
<1>3. ASSUME NEW e \in Engines, OnPlatformViewCreated(e) \/ OnPlatformViewDestroyed(e)
      PROVE  TypeOK'
  BY <1>3, TypeView DEF OnPlatformViewCreated, OnPlatformViewDestroyed
<1>4. ASSUME NEW e \in Engines, NEW views \in BOOLEAN, OnAnimatorDraw(e, views)
      PROVE  TypeOK'
  <2>1. [do |-> "draw", engine |-> e, views |-> views] \in Task
    BY DEF Task
  <2>2. UNCHANGED <<merged, enabled, lease, surface, view, at, task, retry, lag, io, aborted>>
    BY <1>4 DEF OnAnimatorDraw, mergerVars
  <2>3. queue' \in Seq(Task)
    BY <1>4, <2>1 DEF TypeOK, OnAnimatorDraw
  <2> QED BY <2>2, <2>3 DEF TypeOK
<1>5. CASE UNCHANGED vars
  BY <1>5 DEF vars, mergerVars, threadVars, TypeOK
<1> QED BY <1>1, <1>2, <1>3, <1>4, <1>5 DEF Next

LEMMA TypeInit == Init => TypeOK
<1> SUFFICES ASSUME Init PROVE TypeOK
  OBVIOUS
<1>1. \A e \in Engines : [do |-> "draw", engine |-> e, views |-> FALSE] \in Task
  BY DEF Task
<1>2. task \in [Threads -> Task] /\ queue \in Seq(Task)
  <2>1. queue = <<>> /\ task \in [Threads -> {[do |-> "draw", engine |-> e, views |-> FALSE] : e \in Engines}]
    BY DEF Init
  <2> QED BY <1>1, <2>1
<1>3. /\ merged \in BOOLEAN /\ enabled \in BOOLEAN /\ aborted \in BOOLEAN
      /\ io \in {"none", "create", "createAndPost", "created", "destroyed"}
      /\ lag = 0
  BY DEF Init
<1>4. lease \in [Engines -> 0..LeaseTerm \cup {NoLease}]
  BY DEF Init
<1>5. /\ surface \in [Engines -> BOOLEAN] /\ view \in [Engines -> BOOLEAN]
      /\ retry \in [Threads -> BOOLEAN]
      /\ at \in [Threads -> Steps]
  BY DEF Init, Steps
<1>6. lag \in 0..MaxLag
  BY <1>3, TermsAreNatural
<1> QED BY <1>2, <1>3, <1>4, <1>5, <1>6 DEF TypeOK, Steps

\* The types of the mergers, the tasks and the threads, for any number of
\* engines: a lease is never negative but for the mark of an engine that has
\* none, and never above its term.
THEOREM TypeCorrect == Spec => []TypeOK
  BY TypeInit, TypeNext, PTL DEF Spec

-----------------------------------------------------------------------------
(* The tasks and the latch, for any number of engines.                       *)

\* The task a thread is at, and what its step says of it.
Does(t) ==
  /\ at[t] \in DrawSteps => task[t].do = "draw"
  /\ at[t] \in TaskSteps \cup ShellSteps => task[t].do # "draw"
  /\ at[t] \in {"teardown", "unmerge", "destroyed", "destroy"} => task[t].do = "teardown"
  /\ at[t] \in {"setup", "created"} => task[t].do = "setup"

DoesInv == (\A t \in Threads : Does(t)) /\ at["raster"] \notin ShellSteps

SurfaceTask(t) == at[t] \in TaskSteps

TearsDown == SurfaceTask("raster") /\ task["raster"].do = "teardown"

NoTeardown(q) == \A i \in 1..Len(q) : q[i].do # "teardown"

OneTeardown(q) ==
  \A i, j \in 1..Len(q) : q[i].do = "teardown" /\ q[j].do = "teardown" => i = j

\* There is a raster task of a surface that goes only while the platform thread
\* waits for it, and only one; and while it waits there is one, or the IO thread
\* has been asked.
LatchInv ==
  /\ io # "none" => at["platform"] = "wait"
  /\ io \in {"create", "createAndPost"} => task["platform"].do = "setup"
  /\ at["platform"] # "wait" \/ io # "none" => NoTeardown(queue) /\ ~TearsDown
  /\ OneTeardown(queue)
  /\ TearsDown => NoTeardown(queue)
  /\ at["platform"] = "wait" => io # "none" \/ TearsDown \/ ~NoTeardown(queue)

\* A step of one thread leaves the other where it is, in its task.
LEMMA OtherThread ==
  ASSUME TypeOK, NEW t \in Threads, NEW step, GoTo(t, step),
         \A u \in Threads \ {t} : task'[u] = task[u]
  PROVE  /\ at'[t] = step
         /\ \A u \in Threads \ {t} : at'[u] = at[u] /\ (Does(u)' <=> Does(u))
         /\ t = "raster" => at'["platform"] = at["platform"]
         /\ t = "platform" => at'["raster"] = at["raster"]
<1>1. at'[t] = step /\ \A u \in Threads \ {t} : at'[u] = at[u]
  BY GoesTo
<1>2. \A u \in Threads \ {t} : (Does(u)' <=> Does(u))
  BY <1>1 DEF Does
<1> QED BY <1>1, <1>2 DEF Threads

LEMMA TailTeardowns ==
  ASSUME NEW q \in Seq(Task), q # <<>>
  PROVE  /\ Head(q) \in Task
         /\ NoTeardown(q) <=> Head(q).do # "teardown" /\ NoTeardown(Tail(q))
         /\ OneTeardown(q) => OneTeardown(Tail(q))
         /\ OneTeardown(q) /\ Head(q).do = "teardown" => NoTeardown(Tail(q))
<1> DEFINE r == Tail(q)
<1>1. /\ Len(q) \in Nat /\ Len(q) >= 1 /\ Head(q) = q[1] /\ q[1] \in Task
      /\ r \in Seq(Task) /\ Len(r) = Len(q) - 1
      /\ \A i \in 1..Len(r) : r[i] = q[i + 1]
  OBVIOUS
<1> HIDE DEF r
<1>2. 1 \in 1..Len(q) /\ \A i \in 1..Len(r) : i + 1 \in 1..Len(q) /\ i + 1 # 1
  BY <1>1
<1>3. \A i \in 1..Len(q) : i = 1 \/ \E j \in 1..Len(r) : i = j + 1
  <2> TAKE i \in 1..Len(q)
  <2>1. i = 1 \/ (i - 1 \in 1..Len(r) /\ i = (i - 1) + 1)
    BY <1>1
  <2> QED BY <2>1
<1>4. NoTeardown(q) <=> Head(q).do # "teardown" /\ NoTeardown(r)
  <2>1. NoTeardown(q) => Head(q).do # "teardown" /\ NoTeardown(r)
    BY <1>1, <1>2 DEF NoTeardown
  <2>2. ASSUME Head(q).do # "teardown", NoTeardown(r), NEW i \in 1..Len(q)
        PROVE  q[i].do # "teardown"
    <3>1. CASE i = 1
      BY <1>1, <2>2, <3>1
    <3>2. ASSUME NEW j \in 1..Len(r), i = j + 1 PROVE q[i].do # "teardown"
      BY <1>1, <2>2, <3>2 DEF NoTeardown
    <3> QED BY <1>3, <3>1, <3>2
  <2> QED BY <2>1, <2>2 DEF NoTeardown
<1>5. ASSUME OneTeardown(q) PROVE OneTeardown(r)
  <2> SUFFICES ASSUME NEW i \in 1..Len(r), NEW j \in 1..Len(r),
                      r[i].do = "teardown", r[j].do = "teardown"
               PROVE  i = j
    BY DEF OneTeardown
  <2>1. i + 1 \in 1..Len(q) /\ j + 1 \in 1..Len(q)
    BY <1>2
  <2>2. q[i + 1].do = "teardown" /\ q[j + 1].do = "teardown"
    BY <1>1
  <2>3. i + 1 = j + 1
    BY <1>5, <2>1, <2>2 DEF OneTeardown
  <2> QED BY <2>3
<1>6. ASSUME OneTeardown(q), Head(q).do = "teardown", NEW i \in 1..Len(r)
      PROVE  r[i].do # "teardown"
  <2>1. r[i] = q[i + 1] /\ i + 1 \in 1..Len(q) /\ i + 1 # 1 /\ 1 \in 1..Len(q)
    BY <1>1, <1>2
  <2>2. q[1].do = "teardown"
    BY <1>1, <1>6
  <2> QED BY <1>6, <2>1, <2>2 DEF OneTeardown
<1>7. OneTeardown(q) /\ Head(q).do = "teardown" => NoTeardown(r)
  BY <1>6 DEF NoTeardown
<1> QED BY <1>1, <1>4, <1>5, <1>7 DEF r

LEMMA AppendTeardowns ==
  ASSUME NEW q \in Seq(Task), NEW x
  PROVE  LET r == Append(q, x) IN
         /\ NoTeardown(r) <=> NoTeardown(q) /\ x.do # "teardown"
         /\ OneTeardown(q) /\ x.do # "teardown" => OneTeardown(r)
         /\ NoTeardown(q) => OneTeardown(r)
<1> DEFINE r == Append(q, x)
<1>1. /\ Len(r) = Len(q) + 1 /\ Len(q) \in Nat
      /\ r[Len(q) + 1] = x /\ \A i \in 1..Len(q) : r[i] = q[i]
  OBVIOUS
<1> HIDE DEF r
<1>2. /\ \A i \in 1..Len(r) : i \in 1..Len(q) \/ i = Len(q) + 1
      /\ \A i \in 1..Len(q) : i \in 1..Len(r)
      /\ Len(q) + 1 \in 1..Len(r)
  BY <1>1
<1>3. NoTeardown(r) <=> NoTeardown(q) /\ x.do # "teardown"
  BY <1>1, <1>2 DEF NoTeardown
<1>4. OneTeardown(q) /\ x.do # "teardown" => OneTeardown(r)
  BY <1>1, <1>2 DEF OneTeardown
<1>5. NoTeardown(q) => OneTeardown(r)
  BY <1>1, <1>2 DEF OneTeardown, NoTeardown
<1> QED BY <1>3, <1>4, <1>5 DEF r

\* A task put back is a draw.
LEMMA BackInQueue ==
  ASSUME TypeOK, DoesInv, NEW t \in Threads, at[t] \in DrawSteps,
         queue' = queue \/ queue' = Append(queue, task[t])
  PROVE  /\ NoTeardown(queue') <=> NoTeardown(queue)
         /\ OneTeardown(queue) => OneTeardown(queue')
<1>1. task[t].do = "draw" /\ queue \in Seq(Task)
  BY DEF DoesInv, Does, TypeOK
<1>2. CASE queue' = queue
  BY <1>2
<1>3. CASE queue' = Append(queue, task[t])
  BY <1>1, <1>3, AppendTeardowns
<1> QED BY <1>2, <1>3

LEMMA LatchStart ==
  ASSUME TypeOK, DoesInv, LatchInv, NEW t \in Threads, StartTask(t)
  PROVE  DoesInv' /\ LatchInv'
<1>1. /\ queue \in Seq(Task) /\ queue # <<>> /\ at[t] = "idle"
      /\ queue' = Tail(queue) /\ io' = io
      /\ task' = [task EXCEPT ![t] = Head(queue)]
      /\ GoTo(t, IF Head(queue).do = "draw" THEN "draw" ELSE "enable")
  BY DEF StartTask, TypeOK
<1>2. task'[t] = Head(queue) /\ \A u \in Threads \ {t} : task'[u] = task[u]
  BY <1>1 DEF TypeOK
<1>3. /\ at'[t] = IF Head(queue).do = "draw" THEN "draw" ELSE "enable"
      /\ \A u \in Threads \ {t} : at'[u] = at[u] /\ (Does(u)' <=> Does(u))
      /\ t = "raster" => at'["platform"] = at["platform"]
      /\ t = "platform" => at'["raster"] = at["raster"]
  BY <1>1, <1>2, OtherThread
<1>4. Does(t)'
  BY <1>2, <1>3 DEF Does, DrawSteps, TaskSteps, ShellSteps
<1>5. \A u \in Threads : Does(u)'
  BY <1>3, <1>4 DEF DoesInv
<1>6. at'["raster"] \notin ShellSteps
  BY <1>3 DEF DoesInv, ShellSteps, Threads
<1>7. /\ NoTeardown(queue) <=> Head(queue).do # "teardown" /\ NoTeardown(queue')
      /\ OneTeardown(queue')
      /\ Head(queue).do = "teardown" => NoTeardown(queue')
  BY <1>1, TailTeardowns DEF LatchInv
<1>8. CASE t = "platform"
  <2>1. NoTeardown(queue) /\ ~TearsDown /\ io = "none"
    BY <1>1, <1>8 DEF LatchInv
  <2>2. ~TearsDown'
    BY <1>2, <1>3, <1>8, <2>1 DEF TearsDown, SurfaceTask, Threads
  <2>3. at'["platform"] # "wait"
    BY <1>3, <1>8
  <2> QED BY <1>1, <1>5, <1>6, <1>7, <2>1, <2>2, <2>3 DEF DoesInv, LatchInv
<1>9. CASE t = "raster"
  <2>1. ~TearsDown
    BY <1>1, <1>9 DEF TearsDown, SurfaceTask, TaskSteps
  <2>2. TearsDown' <=> Head(queue).do = "teardown"
    BY <1>2, <1>3, <1>9 DEF TearsDown, SurfaceTask, TaskSteps
  <2>3. at'["platform"] = at["platform"] /\ task'["platform"] = task["platform"]
    BY <1>2, <1>3, <1>9 DEF Threads
  <2> QED BY <1>1, <1>5, <1>6, <1>7, <2>1, <2>2, <2>3 DEF DoesInv, LatchInv
<1> QED BY <1>8, <1>9 DEF Threads

LEMMA LatchDraw ==
  ASSUME TypeOK, DoesInv, LatchInv, NEW t \in Threads,
         \/ Draw(t) \/ PostPrerollAction(t) \/ ExtendLeaseTo(t) \/ MergeWithLease(t)
         \/ SharedMergeWithLease(t) \/ DecrementLease(t) \/ SharedDecrementLease(t)
  PROVE  DoesInv' /\ LatchInv'
<1>1. /\ at[t] \in DrawSteps /\ io' = io /\ task' = task
      /\ queue' = queue \/ queue' = Append(queue, task[t])
      /\ \E step \in DrawSteps \cup {"idle"} : GoTo(t, step)
  BY DEF Draw, PostPrerollAction, ExtendLeaseTo, MergeWithLease, SharedMergeWithLease,
         DecrementLease, SharedDecrementLease, EndDraw, DrawSteps
<1>2. PICK step \in DrawSteps \cup {"idle"} : GoTo(t, step)
  BY <1>1
<1>3. /\ at'[t] = step
      /\ \A u \in Threads \ {t} : at'[u] = at[u] /\ (Does(u)' <=> Does(u))
      /\ t = "raster" => at'["platform"] = at["platform"]
      /\ t = "platform" => at'["raster"] = at["raster"]
  BY <1>1, <1>2, OtherThread
<1>4. step \notin TaskSteps \cup ShellSteps /\ at[t] \notin TaskSteps \cup ShellSteps
  BY <1>1 DEF DrawSteps, TaskSteps, ShellSteps
<1>5. step \notin {"teardown", "unmerge", "destroyed", "destroy", "setup", "created", "wait"}
  BY <1>4 DEF TaskSteps, ShellSteps
<1>6. Does(t)'
  BY <1>1, <1>3, <1>4, <1>5 DEF Does, DoesInv
<1>7. DoesInv'
  BY <1>3, <1>4, <1>6 DEF DoesInv, Threads
<1>8. /\ NoTeardown(queue') <=> NoTeardown(queue)
      /\ OneTeardown(queue) => OneTeardown(queue')
  BY <1>1, BackInQueue
<1>9. TearsDown' <=> TearsDown
  BY <1>1, <1>3, <1>4 DEF TearsDown, SurfaceTask, Threads
<1>10. at'["platform"] = "wait" <=> at["platform"] = "wait"
  BY <1>3, <1>4, <1>5 DEF Threads, ShellSteps
<1> QED BY <1>1, <1>7, <1>8, <1>9, <1>10 DEF LatchInv

LEMMA LatchSurface ==
  ASSUME TypeOK, DoesInv, LatchInv, NEW t \in Threads,
         \/ EnableThreadMerger(t) \/ Setup(t) \/ Teardown(t)
         \/ UnMergeNowIfLastOne(t) \/ PostIoTask(t)
  PROVE  DoesInv' /\ LatchInv'
<1>1. /\ at[t] \in TaskSteps /\ task' = task /\ queue' = queue /\ task[t].do # "draw"
      /\ task[t].do \in {"draw", "setup", "teardown"}
  BY DEF EnableThreadMerger, Setup, Teardown, UnMergeNowIfLastOne, PostIoTask,
         TaskSteps, DoesInv, Does, TypeOK, Task
<1>2. CASE EnableThreadMerger(t) \/ Teardown(t) \/ UnMergeNowIfLastOne(t)
  <2>1. PICK step \in TaskSteps :
          /\ GoTo(t, step) /\ io' = io
          /\ step \in {"teardown", "unmerge", "destroyed", "destroy"} => task[t].do = "teardown"
          /\ step \in {"setup", "created"} => task[t].do = "setup"
    BY <1>1, <1>2 DEF EnableThreadMerger, Teardown, UnMergeNowIfLastOne, TaskSteps,
                      DoesInv, Does
  <2>2. /\ at'[t] = step
        /\ \A u \in Threads \ {t} : at'[u] = at[u] /\ (Does(u)' <=> Does(u))
        /\ t = "raster" => at'["platform"] = at["platform"]
        /\ t = "platform" => at'["raster"] = at["raster"]
    BY <1>1, <2>1, OtherThread
  <2>3. step \notin DrawSteps \cup ShellSteps /\ at[t] # "wait" /\ step # "wait"
    BY <1>1, <2>1 DEF DrawSteps, TaskSteps, ShellSteps
  <2>4. Does(t)'
    BY <1>1, <2>1, <2>2, <2>3 DEF Does
  <2>5. DoesInv'
    BY <2>2, <2>3, <2>4 DEF DoesInv, Threads
  <2>6. TearsDown' <=> TearsDown
    BY <1>1, <2>1, <2>2 DEF TearsDown, SurfaceTask, Threads
  <2>7. at'["platform"] = "wait" <=> at["platform"] = "wait"
    BY <2>2, <2>3 DEF Threads
  <2> QED BY <1>1, <2>1, <2>5, <2>6, <2>7 DEF LatchInv
<1>3. CASE Setup(t)
  <2>1. at[t] = "setup" /\ task[t].do = "setup" /\ io' = io /\ GoTo(t, "idle")
    BY <1>3 DEF Setup, DoesInv, Does
  <2>2. /\ at'[t] = "idle"
        /\ \A u \in Threads \ {t} : at'[u] = at[u] /\ (Does(u)' <=> Does(u))
        /\ t = "raster" => at'["platform"] = at["platform"]
        /\ t = "platform" => at'["raster"] = at["raster"]
    BY <1>1, <2>1, OtherThread
  <2>3. DoesInv'
    BY <2>2 DEF DoesInv, Does, DrawSteps, TaskSteps, ShellSteps, Threads
  <2>4. TearsDown' <=> TearsDown
    BY <1>1, <2>1, <2>2 DEF TearsDown, SurfaceTask, TaskSteps, Threads
  <2>5. at'["platform"] = "wait" <=> at["platform"] = "wait"
    BY <2>1, <2>2 DEF Threads
  <2> QED BY <1>1, <2>1, <2>3, <2>4, <2>5 DEF LatchInv
<1>4. CASE PostIoTask(t)
  <2>1. /\ at[t] = "destroyed" /\ task[t].do = "teardown" /\ io' = "destroyed"
        /\ GoTo(t, IF t = "platform" THEN "wait" ELSE "idle")
    BY <1>4 DEF PostIoTask, DoesInv, Does
  <2>2. /\ at'[t] = IF t = "platform" THEN "wait" ELSE "idle"
        /\ \A u \in Threads \ {t} : at'[u] = at[u] /\ (Does(u)' <=> Does(u))
        /\ t = "raster" => at'["platform"] = at["platform"]
        /\ t = "platform" => at'["raster"] = at["raster"]
    BY <1>1, <2>1, OtherThread
  <2>3. Does(t)'
    BY <1>1, <2>1, <2>2 DEF Does, DrawSteps, TaskSteps, ShellSteps
  <2>4. DoesInv'
    BY <2>2, <2>3 DEF DoesInv, ShellSteps, Threads
  <2>5. CASE t = "raster"
    <3>1. TearsDown /\ ~TearsDown'
      BY <1>1, <2>1, <2>2, <2>5 DEF TearsDown, SurfaceTask, TaskSteps
    <3>2. at["platform"] = "wait" /\ NoTeardown(queue) /\ at'["platform"] = "wait"
      BY <2>2, <2>5, <3>1 DEF LatchInv
    <3> QED BY <1>1, <2>1, <2>4, <3>1, <3>2 DEF LatchInv
  <2>6. CASE t = "platform"
    <3>1. NoTeardown(queue) /\ ~TearsDown
      BY <2>1, <2>6 DEF LatchInv
    <3>2. ~TearsDown' /\ at'["platform"] = "wait"
      BY <1>1, <2>2, <2>6, <3>1 DEF TearsDown, SurfaceTask
    <3> QED BY <1>1, <2>1, <2>4, <3>1, <3>2 DEF LatchInv
  <2> QED BY <2>5, <2>6 DEF Threads
<1> QED BY <1>2, <1>3, <1>4

LEMMA LatchShell ==
  ASSUME TypeOK, DoesInv, LatchInv, ShellStep
  PROVE  DoesInv' /\ LatchInv'
<1>0. task' = task /\ "platform" \in Threads /\ "raster" \in Threads /\ queue \in Seq(Task)
  BY DEF ShellStep, AwaitIoTask, IoPostsSetup, IoSignals, RunNowOrPostTask, Threads, TypeOK
<1>1. ASSUME NEW step, GoTo("platform", step)
      PROVE  /\ at'["platform"] = step /\ at'["raster"] = at["raster"]
             /\ (TearsDown' <=> TearsDown)
             /\ Does("platform")' => DoesInv'
  <2>1. /\ at'["platform"] = step /\ at'["raster"] = at["raster"]
        /\ \A u \in Threads \ {"platform"} : Does(u)' <=> Does(u)
    BY <1>0, <1>1, OtherThread
  <2> QED BY <1>0, <2>1 DEF TearsDown, SurfaceTask, DoesInv
<1>2. CASE AwaitIoTask
  <2>1. /\ at["platform"] = "created" /\ GoTo("platform", "wait") /\ queue' = queue
        /\ io' \in {"create", "createAndPost"} /\ task["platform"].do = "setup"
    BY <1>0, <1>2 DEF AwaitIoTask, DoesInv, Does
  <2>2. at'["platform"] = "wait" /\ (TearsDown' <=> TearsDown)
    BY <1>1, <2>1
  <2>3. DoesInv'
    BY <1>0, <1>1, <2>1, <2>2 DEF Does, DrawSteps, ShellSteps
  <2>4. NoTeardown(queue) /\ ~TearsDown
    BY <2>1 DEF LatchInv
  <2> QED BY <1>0, <2>1, <2>2, <2>3, <2>4 DEF LatchInv
<1>3. CASE IoPostsSetup
  <2>1. /\ io = "createAndPost" /\ io' = "created" /\ at' = at
        /\ queue' = Append(queue, task["platform"]) /\ task["platform"].do = "setup"
        /\ at["platform"] = "wait"
    BY <1>3 DEF IoPostsSetup, LatchInv
  <2>2. NoTeardown(queue) /\ ~TearsDown
    BY <2>1 DEF LatchInv
  <2>3. NoTeardown(queue') /\ OneTeardown(queue')
    BY <1>0, <2>1, <2>2, AppendTeardowns
  <2>4. DoesInv' /\ ~TearsDown'
    BY <1>0, <2>1, <2>2 DEF DoesInv, Does, TearsDown, SurfaceTask
  <2> QED BY <1>0, <2>1, <2>3, <2>4 DEF LatchInv
<1>4. CASE IoSignals
  <2>1. /\ io # "none" /\ io' = "none" /\ queue' = queue /\ at["platform"] = "wait"
        /\ GoTo("platform", IF io = "create" THEN "enable" ELSE "idle")
    BY <1>4 DEF IoSignals, LatchInv
  <2>2. /\ at'["platform"] = IF io = "create" THEN "enable" ELSE "idle"
        /\ (TearsDown' <=> TearsDown)
        /\ Does("platform")' => DoesInv'
    BY <1>1, <2>1
  <2>3. NoTeardown(queue) /\ ~TearsDown
    BY <2>1 DEF LatchInv
  <2>4. task["platform"].do # "draw"
    BY <1>0, <2>1 DEF DoesInv, Does, ShellSteps
  <2>5. DoesInv'
    BY <1>0, <2>2, <2>4 DEF Does, DrawSteps, TaskSteps, ShellSteps
  <2>6. at'["platform"] # "wait"
    BY <2>2
  <2> QED BY <1>0, <2>1, <2>2, <2>3, <2>5, <2>6 DEF LatchInv
<1>5. CASE RunNowOrPostTask
  <2>1. /\ at["platform"] = "destroy" /\ task["platform"].do = "teardown" /\ io' = io
        /\ io = "none" /\ NoTeardown(queue) /\ ~TearsDown
    BY <1>0, <1>5 DEF RunNowOrPostTask, DoesInv, Does, LatchInv
  <2>2. CASE GoTo("platform", "enable") /\ queue' = queue
    <3>1. at'["platform"] = "enable" /\ ~TearsDown' /\ (Does("platform")' => DoesInv')
      BY <1>1, <2>1, <2>2
    <3>2. DoesInv'
      BY <1>0, <2>1, <3>1 DEF Does, DrawSteps, TaskSteps, ShellSteps
    <3> QED BY <1>0, <2>1, <2>2, <3>1, <3>2 DEF LatchInv
  <2>3. CASE GoTo("platform", "wait") /\ queue' = Append(queue, task["platform"])
    <3>1. at'["platform"] = "wait" /\ ~TearsDown' /\ (Does("platform")' => DoesInv')
      BY <1>1, <2>1, <2>3
    <3>2. DoesInv'
      BY <1>0, <2>1, <3>1 DEF Does, DrawSteps, TaskSteps, ShellSteps
    <3>3. ~NoTeardown(queue') /\ OneTeardown(queue')
      BY <1>0, <2>1, <2>3, AppendTeardowns
    <3> QED BY <1>0, <2>1, <3>1, <3>2, <3>3 DEF LatchInv
  <2> QED BY <1>5, <2>2, <2>3 DEF RunNowOrPostTask
<1> QED BY <1>2, <1>3, <1>4, <1>5 DEF ShellStep

LEMMA LatchView ==
  ASSUME TypeOK, DoesInv, LatchInv, NEW e \in Engines,
         OnPlatformViewCreated(e) \/ OnPlatformViewDestroyed(e)
  PROVE  DoesInv' /\ LatchInv'
<1>0. "platform" \in Threads /\ "raster" \in Threads
  BY DEF Threads
<1>1. PICK do \in {"setup", "teardown"}, step \in {"created", "destroy"} :
        /\ SurfaceCallback(e, do, step)
        /\ do = "setup" <=> step = "created"
  BY DEF OnPlatformViewCreated, OnPlatformViewDestroyed
<1>2. /\ at["platform"] = "idle" /\ GoTo("platform", step)
      /\ task' = [task EXCEPT !["platform"] = [do |-> do, engine |-> e, views |-> FALSE]]
      /\ queue' = queue /\ io' = io
  BY <1>1 DEF SurfaceCallback
<1>3. task'["platform"].do = do /\ task'["raster"] = task["raster"]
  BY <1>0, <1>2 DEF TypeOK
<1>4. /\ at'["platform"] = step /\ at'["raster"] = at["raster"]
      /\ Does("raster")' <=> Does("raster")
  <2>1. \A u \in Threads \ {"platform"} : task'[u] = task[u]
    BY <1>3 DEF Threads
  <2> QED BY <1>0, <1>2, <2>1, OtherThread
<1>5. Does("platform")'
  BY <1>1, <1>3, <1>4 DEF Does, DrawSteps, TaskSteps, ShellSteps
<1>6. DoesInv'
  BY <1>0, <1>4, <1>5 DEF DoesInv, Threads
<1>7. io = "none" /\ NoTeardown(queue) /\ ~TearsDown
  BY <1>2 DEF LatchInv
<1>8. ~TearsDown' /\ at'["platform"] # "wait"
  BY <1>3, <1>4, <1>7 DEF TearsDown, SurfaceTask
<1> QED BY <1>2, <1>6, <1>7, <1>8 DEF LatchInv

LEMMA LatchNext == TypeOK /\ DoesInv /\ LatchInv /\ [Next]_vars => DoesInv' /\ LatchInv'
<1> SUFFICES ASSUME TypeOK, DoesInv, LatchInv, [Next]_vars PROVE DoesInv' /\ LatchInv'
  OBVIOUS
<1>1. ASSUME NEW t \in Threads, RasterStep(t) PROVE DoesInv' /\ LatchInv'
  BY <1>1, LatchStart, LatchDraw, LatchSurface DEF RasterStep
<1>2. CASE ShellStep
  BY <1>2, LatchShell
<1>3. ASSUME NEW e \in Engines, OnPlatformViewCreated(e) \/ OnPlatformViewDestroyed(e)
      PROVE  DoesInv' /\ LatchInv'
  BY <1>3, LatchView
<1>4. ASSUME NEW e \in Engines, NEW views \in BOOLEAN, OnAnimatorDraw(e, views)
      PROVE  DoesInv' /\ LatchInv'
  <2>1. /\ queue' = Append(queue, [do |-> "draw", engine |-> e, views |-> views])
        /\ UNCHANGED <<at, task, io>> /\ queue \in Seq(Task)
    BY <1>4 DEF OnAnimatorDraw, TypeOK
  <2>2. /\ NoTeardown(queue') <=> NoTeardown(queue)
        /\ OneTeardown(queue) => OneTeardown(queue')
    BY <2>1, AppendTeardowns
  <2> QED BY <2>1, <2>2 DEF DoesInv, Does, LatchInv, TearsDown, SurfaceTask
<1>5. CASE UNCHANGED vars
  BY <1>5 DEF vars, threadVars, DoesInv, Does, LatchInv, TearsDown, SurfaceTask
<1> QED BY <1>1, <1>2, <1>3, <1>4, <1>5 DEF Next

LEMMA LatchInit == Init => DoesInv /\ LatchInv
<1> SUFFICES ASSUME Init PROVE DoesInv /\ LatchInv
  OBVIOUS
<1>1. /\ queue = <<>> /\ io = "none" /\ \A t \in Threads : at[t] = "idle"
      /\ "platform" \in Threads /\ "raster" \in Threads
  BY DEF Init, Threads
<1>2. NoTeardown(queue) /\ OneTeardown(queue)
  BY <1>1 DEF NoTeardown, OneTeardown
<1>3. ~TearsDown /\ at["platform"] # "wait"
  BY <1>1 DEF TearsDown, SurfaceTask, TaskSteps
<1>4. DoesInv
  BY <1>1 DEF DoesInv, Does, DrawSteps, TaskSteps, ShellSteps
<1> QED BY <1>1, <1>2, <1>3, <1>4 DEF LatchInv
-----------------------------------------------------------------------------
(* The leases and the queues, for any number of engines.                     *)

\* The lease outlasts the draws the platform thread may be ahead of the tail of
\* the draw that merged, by the last one and by that tail's own.
ShortLead == MaxLag + 2 <= LeaseTerm

MergedSteps == (DrawSteps \ {"merge", "merging"}) \cup (TaskSteps \ {"destroyed"})
BeforeMerge == {"draw", "preroll", "merge", "merging"}

\* Where the threads are says whether they are merged.
PlacesInv ==
  /\ LeasesMatchQueues
  /\ at["platform"] \in MergedSteps => merged
  /\ at["platform"] \notin {"merge", "merging"}
  /\ io = "create" => merged
  /\ at["raster"] \in BeforeMerge \cup TaskSteps => ~merged
  /\ at["raster"] \notin {"extend", "unmerge"}
  /\ at["raster"] \in BeforeMerge => lag = 0

\* A draw the platform thread has begun and not paid for.
Owed == IF at["platform"] \in DrawSteps THEN 1 ELSE 0

\* In the tail of the draw that merged, its engine's lease has its term but for
\* the draws begun since, or a teardown has erased it.
TailInv ==
  merged /\ at["raster"] \in {"drawn", "decrementing"} =>
    /\ \/ lease[task["raster"].engine] = NoLease
       \/ lease[task["raster"].engine] >= LeaseTerm - lag + Owed
    /\ Owed <= lag

LeadInv == PlacesInv /\ TailInv

\* A step that leaves the mergers alone and takes a thread from a step to a like one.
LEMMA LeadUnchanged ==
  ASSUME TypeOK, LeadInv, UNCHANGED <<merged, lease, task, lag>>,
         io' # "create" \/ io' = io,
         /\ at'["platform"] \in MergedSteps => at["platform"] \in MergedSteps \/ merged
         /\ at'["platform"] \in DrawSteps => at["platform"] \in DrawSteps
         /\ at'["platform"] \notin {"merge", "merging"}
         /\ at'["raster"] \in BeforeMerge => at["raster"] \in BeforeMerge
         /\ at'["raster"] \in TaskSteps => ~merged
         /\ at'["raster"] \notin {"extend", "unmerge"}
         /\ at'["raster"] \in {"drawn", "decrementing"} =>
               at["raster"] \in {"drawn", "decrementing"} \/ ~merged
  PROVE  LeadInv'
<1>1. PlacesInv'
  BY DEF LeadInv, PlacesInv, LeasesMatchQueues, IsMerged
<1>2. TailInv'
  <2> SUFFICES ASSUME merged, at'["raster"] \in {"drawn", "decrementing"}
               PROVE  /\ \/ lease[task["raster"].engine] = NoLease
                         \/ lease[task["raster"].engine] >= LeaseTerm - lag + Owed'
                      /\ Owed' <= lag
    BY DEF TailInv
  <2>1. /\ \/ lease[task["raster"].engine] = NoLease
           \/ lease[task["raster"].engine] >= LeaseTerm - lag + Owed
        /\ Owed <= lag
    BY DEF LeadInv, TailInv
  <2>2. Owed \in {0, 1} /\ Owed' \in {0, 1} /\ Owed' <= Owed
    BY DEF Owed
  <2>3. task["raster"].engine \in Engines
    BY DEF TypeOK, Task, Threads
  <2>4. lease[task["raster"].engine] \in Int /\ lag \in Int /\ LeaseTerm \in Int
    BY <2>3, TermsAreNatural DEF TypeOK, NoLease
  <2> QED BY <2>1, <2>2, <2>4
<1> QED BY <1>1, <1>2 DEF LeadInv

LEMMA LeadStart ==
  ASSUME TypeOK, LeadInv, NEW t \in Threads, StartTask(t)
  PROVE  LeadInv'
<1>0. "platform" \in Threads /\ "raster" \in Threads
  BY DEF Threads
<1>1. /\ at[t] = "idle" /\ Serves(t) /\ UNCHANGED <<merged, lease, io>>
      /\ GoTo(t, "draw") \/ GoTo(t, "enable")
      /\ lag' = IF t = "platform" /\ at["raster"] # "idle" THEN lag + 1 ELSE 0
      /\ task' = [task EXCEPT ![t] = Head(queue)]
  BY DEF StartTask, mergerVars
<1>2. PICK step \in {"draw", "enable"} : GoTo(t, step)
  BY <1>1
<1>3. LeasesMatchQueues'
  BY <1>1 DEF LeadInv, PlacesInv, LeasesMatchQueues, IsMerged
<1>4. CASE t = "raster"
  <2>1. ~merged /\ lag' = 0
    BY <1>1, <1>4 DEF Serves
  <2>2. at'["raster"] = step /\ at'["platform"] = at["platform"]
    BY <1>0, <1>2, <1>4, GoesTo
  <2>3. PlacesInv'
    BY <1>1, <1>3, <2>1, <2>2 DEF LeadInv, PlacesInv, BeforeMerge, TaskSteps
  <2>4. TailInv'
    BY <1>1, <2>1 DEF TailInv
  <2> QED BY <2>3, <2>4 DEF LeadInv
<1>5. CASE t = "platform"
  <2>1. merged
    BY <1>1, <1>5 DEF Serves
  <2>2. at'["platform"] = step /\ at'["raster"] = at["raster"] /\ at["platform"] = "idle"
    BY <1>0, <1>1, <1>2, <1>5, GoesTo
  <2>3. at["raster"] \notin BeforeMerge
    BY <2>1 DEF LeadInv, PlacesInv
  <2>4. PlacesInv'
    BY <1>1, <1>3, <2>1, <2>2, <2>3 DEF LeadInv, PlacesInv
  <2>5. task'["raster"] = task["raster"]
    BY <1>0, <1>1, <1>5 DEF TypeOK
  <2>6. TailInv'
    <3> DEFINE e == task["raster"].engine
    <3> SUFFICES ASSUME at["raster"] \in {"drawn", "decrementing"}
                 PROVE  /\ lease[e] = NoLease \/ lease[e] >= LeaseTerm - lag' + Owed'
                        /\ Owed' <= lag'
      BY <1>1, <2>2, <2>5 DEF TailInv
    <3>1. lease[e] = NoLease \/ lease[e] >= LeaseTerm - lag + Owed
      BY <2>1 DEF LeadInv, TailInv
    <3>2. Owed = 0 /\ Owed' \in {0, 1}
      BY <2>2 DEF Owed, DrawSteps
    <3>3. lag' = lag + 1
      BY <1>1, <1>5
    <3>4. e \in Engines
      BY <1>0 DEF TypeOK, Task
    <3>5. lease[e] \in Int /\ lag \in Nat /\ LeaseTerm \in Int
      BY <3>4, TermsAreNatural DEF TypeOK, NoLease
    <3> QED BY <3>1, <3>2, <3>3, <3>5
  <2> QED BY <2>4, <2>6 DEF LeadInv
<1> QED BY <1>4, <1>5 DEF Threads

LEMMA LeadDraw ==
  ASSUME TypeOK, LeadInv, NEW t \in Threads,
         Draw(t) \/ PostPrerollAction(t) \/ MergeWithLease(t) \/ DecrementLease(t)
  PROVE  LeadInv'
<1>0. "platform" \in Threads /\ "raster" \in Threads
  BY DEF Threads
<1>1. /\ UNCHANGED <<merged, lease, task, lag, io>>
      /\ at[t] \in {"draw", "preroll", "merge", "drawn"}
  BY DEF Draw, PostPrerollAction, MergeWithLease, DecrementLease, mergerVars
<1>2. PICK step :
        /\ GoTo(t, step)
        /\ \/ at[t] = "draw" /\ step \in {"preroll", "idle"}
           \/ at[t] = "preroll" /\ (step = "extend" => IsMerged(lease))
              /\ (step = "merge" => ~IsMerged(lease)) /\ step \in {"drawn", "extend", "merge"}
           \/ at[t] = "merge" /\ step \in {"merging", "drawn"}
           \/ at[t] = "drawn" /\ step \in {"decrementing", "idle"}
  BY DEF Draw, PostPrerollAction, MergeWithLease, DecrementLease, EndDraw
<1>3. IsMerged(lease) <=> merged
  BY DEF LeadInv, PlacesInv, LeasesMatchQueues
<1>4. CASE t = "platform"
  <2>1. at'["platform"] = step /\ at'["raster"] = at["raster"]
    BY <1>0, <1>2, <1>4, GoesTo
  <2>2. merged /\ at["platform"] \in DrawSteps /\ at["platform"] # "merge"
    BY <1>1, <1>4 DEF LeadInv, PlacesInv, MergedSteps, DrawSteps
  <2>3. step \notin {"merge", "merging"}
    BY <1>2, <1>3, <1>4, <2>2
  <2>4. at["raster"] \notin BeforeMerge \cup TaskSteps
    BY <2>2 DEF LeadInv, PlacesInv
  <2>5. at["raster"] \notin {"extend", "unmerge"}
    BY DEF LeadInv, PlacesInv
  <2> QED BY <1>1, <2>1, <2>2, <2>3, <2>4, <2>5, LeadUnchanged
<1>5. CASE t = "raster"
  <2>1. at'["raster"] = step /\ at'["platform"] = at["platform"]
    BY <1>0, <1>2, <1>5, GoesTo
  <2>2. step # "extend"
    BY <1>1, <1>2, <1>3, <1>5 DEF LeadInv, PlacesInv, BeforeMerge
  <2>3. step \notin TaskSteps /\ step # "unmerge"
    BY <1>2 DEF TaskSteps
  <2>4. step \in BeforeMerge => at["raster"] \in BeforeMerge
    BY <1>2, <1>5 DEF BeforeMerge
  <2>5. step \in {"drawn", "decrementing"} => at["raster"] = "drawn" \/ ~merged
    BY <1>1, <1>2, <1>5 DEF LeadInv, PlacesInv, BeforeMerge
  <2>6. at["platform"] \notin {"merge", "merging"}
    BY DEF LeadInv, PlacesInv
  <2> QED BY <1>1, <2>1, <2>2, <2>3, <2>4, <2>5, <2>6, LeadUnchanged
<1> QED BY <1>4, <1>5 DEF Threads

\* The leases of other engines, and the caller's own.
LEMMA LeaseOf ==
  ASSUME TypeOK, NEW t \in Threads, NEW term,
         lease' = [lease EXCEPT ![task[t].engine] = term]
  PROVE  /\ task[t].engine \in Engines
         /\ lease'[task[t].engine] = term
         /\ \A c \in Engines \ {task[t].engine} : lease'[c] = lease[c]
         /\ \A u \in Threads : task[u].engine \in Engines /\ lease[task[u].engine] \in Int
<1>1. \A u \in Threads : task[u].engine \in Engines
  BY DEF TypeOK, Task
<1>2. lease \in [Engines -> Int]
  BY TermsAreNatural DEF TypeOK, NoLease
<1> QED BY <1>1, <1>2

LEMMA LeadExtend ==
  ASSUME TypeOK, LeadInv, NEW t \in Threads, ExtendLeaseTo(t)
  PROVE  LeadInv'
<1>0. "platform" \in Threads /\ "raster" \in Threads
  BY DEF Threads
<1>1. /\ at[t] = "extend" /\ GoTo(t, "drawn") /\ UNCHANGED <<merged, task, lag, io>>
      /\ lease' = IF enabled THEN [lease EXCEPT ![task[t].engine] = LeaseTerm] ELSE lease
  BY DEF ExtendLeaseTo, Extended
<1>2. t = "platform" /\ merged
  BY <1>1 DEF LeadInv, PlacesInv, MergedSteps, DrawSteps, Threads
<1>3. at'["platform"] = "drawn" /\ at'["raster"] = at["raster"]
  BY <1>0, <1>1, <1>2, GoesTo
<1>4. CASE lease' = lease
  <2>1. at["raster"] \notin BeforeMerge \cup TaskSteps
    BY <1>2 DEF LeadInv, PlacesInv
  <2>2. at["raster"] \notin {"extend", "unmerge"}
    BY DEF LeadInv, PlacesInv
  <2> QED BY <1>1, <1>2, <1>3, <1>4, <2>1, <2>2, LeadUnchanged DEF DrawSteps
<1>5. CASE lease' = [lease EXCEPT ![task[t].engine] = LeaseTerm]
  <2>1. /\ task[t].engine \in Engines /\ lease'[task[t].engine] = LeaseTerm
        /\ \A c \in Engines \ {task[t].engine} : lease'[c] = lease[c]
        /\ \A u \in Threads : task[u].engine \in Engines /\ lease[task[u].engine] \in Int
    BY <1>5, LeaseOf
  <2>2. LeaseTerm > 0
    BY TermsAreNatural
  <2>3. LeasesMatchQueues'
    BY <1>1, <1>2, <2>1, <2>2 DEF LeasesMatchQueues, IsMerged
  <2>4. PlacesInv'
    BY <1>1, <1>2, <1>3, <2>3 DEF LeadInv, PlacesInv
  <2>5. TailInv'
    <3> DEFINE e == task["raster"].engine
    <3> SUFFICES ASSUME at["raster"] \in {"drawn", "decrementing"}
                 PROVE  /\ lease'[e] = NoLease \/ lease'[e] >= LeaseTerm - lag + Owed'
                        /\ Owed' <= lag
      BY <1>1, <1>2, <1>3 DEF TailInv
    <3>1. /\ lease[e] = NoLease \/ lease[e] >= LeaseTerm - lag + Owed
          /\ Owed <= lag
      BY <1>2 DEF LeadInv, TailInv
    <3>2. Owed = 1 /\ Owed' = 1
      BY <1>1, <1>2, <1>3 DEF Owed, DrawSteps
    <3>3. lag \in Nat /\ LeaseTerm \in Nat
      BY TermsAreNatural DEF TypeOK
    <3>4. lease'[e] = LeaseTerm \/ lease'[e] = lease[e]
      BY <1>0, <2>1
    <3> QED BY <3>1, <3>2, <3>3, <3>4
  <2> QED BY <2>4, <2>5 DEF LeadInv
<1> QED BY <1>1, <1>4, <1>5

LEMMA LeadMerge ==
  ASSUME TypeOK, LeadInv, NEW t \in Threads, SharedMergeWithLease(t)
  PROVE  LeadInv' /\ t = "raster" /\ ~merged /\ merged'
<1>0. "platform" \in Threads /\ "raster" \in Threads
  BY DEF Threads
<1>1. at[t] = "merging" /\ GoTo(t, "drawn") /\ UNCHANGED <<task, lag, io>>
  BY DEF SharedMergeWithLease
<1>2. t = "raster"
  BY <1>1 DEF LeadInv, PlacesInv, Threads
<1>3. ~merged /\ lag = 0 /\ ~IsMerged(lease)
  BY <1>1, <1>2 DEF LeadInv, PlacesInv, BeforeMerge, LeasesMatchQueues
<1>4. merged' = TRUE /\ lease' = [lease EXCEPT ![task[t].engine] = LeaseTerm]
  BY <1>3 DEF SharedMergeWithLease
<1>5. task[t].engine \in Engines /\ lease'[task[t].engine] = LeaseTerm
  BY <1>4, LeaseOf
<1>6. at'["raster"] = "drawn" /\ at'["platform"] = at["platform"]
  BY <1>0, <1>1, <1>2, GoesTo
<1>7. LeasesMatchQueues'
  BY <1>4, <1>5, TermsAreNatural DEF LeasesMatchQueues, IsMerged
<1>8. at["platform"] \notin DrawSteps
  BY <1>3 DEF LeadInv, PlacesInv, MergedSteps
<1>9. PlacesInv'
  BY <1>1, <1>3, <1>4, <1>6, <1>7 DEF LeadInv, PlacesInv, BeforeMerge, TaskSteps
<1>10. TailInv'
  <2>1. Owed' = 0
    BY <1>6, <1>8 DEF Owed
  <2> QED BY <1>1, <1>2, <1>3, <1>5, <2>1, TermsAreNatural DEF TailInv
<1> QED BY <1>2, <1>3, <1>4, <1>9, <1>10 DEF LeadInv

\* The tail of the draw that merged never takes the last of the leases, and a
\* draw of the platform thread leaves the tail enough.
LEMMA LeadDecrement ==
  ASSUME TypeOK, LatchInv, LeadInv, ShortLead, NEW t \in Threads, SharedDecrementLease(t)
  PROVE  LeadInv' /\ (t = "raster" => merged' = merged)
<1> DEFINE e == task[t].engine
<1> DEFINE left == [lease EXCEPT ![e] = Spent(lease[e])]
<1>0. "platform" \in Threads /\ "raster" \in Threads
  BY DEF Threads
<1>1. /\ at[t] = "decrementing" /\ GoTo(t, "idle") /\ UNCHANGED <<task, lag, io>>
      /\ lease' = left
      /\ lease[e] = 0 => merged' = merged
      /\ lease[e] # 0 => merged' = IF IsMerged(left) THEN merged ELSE FALSE
  BY DEF SharedDecrementLease, EndDraw, UnMergeNow, AllSpent
<1>2. /\ e \in Engines /\ lease'[e] = Spent(lease[e])
      /\ \A c \in Engines \ {e} : lease'[c] = lease[c]
      /\ \A u \in Threads : task[u].engine \in Engines /\ lease[task[u].engine] \in Int
  BY <1>1, LeaseOf
<1> HIDE DEF e, left
<1>3. /\ lease[e] \in Int
      /\ lease[e] > 0 => lease'[e] = lease[e] - 1
      /\ ~(lease[e] > 0) => lease'[e] = lease[e]
  BY <1>0, <1>2 DEF Spent, e
<1>4. IsMerged(lease') => IsMerged(lease)
  <2> SUFFICES ASSUME NEW c \in Engines, lease'[c] > 0 PROVE IsMerged(lease)
    BY DEF IsMerged
  <2>1. lease[c] > 0
    <3>1. CASE c = e
      BY <1>3, <3>1
    <3>2. CASE c # e
      BY <1>2, <3>2
    <3> QED BY <3>1, <3>2
  <2> QED BY <2>1 DEF IsMerged
<1>5. ~(lease[e] > 0) => (IsMerged(lease') <=> IsMerged(lease))
  <2> SUFFICES ASSUME ~(lease[e] > 0) PROVE IsMerged(lease') <=> IsMerged(lease)
    OBVIOUS
  <2>1. \A c \in Engines : lease'[c] = lease[c]
    BY <1>2, <1>3
  <2> QED BY <2>1 DEF IsMerged
<1>6. IsMerged(lease) <=> merged
  BY DEF LeadInv, PlacesInv, LeasesMatchQueues
<1>7. merged' => merged
  BY <1>1
<1>8. IsMerged(lease') <=> merged'
  <2>1. CASE lease[e] = 0
    BY <1>1, <1>5, <1>6, <2>1
  <2>2. CASE lease[e] # 0
    BY <1>1, <1>4, <1>6, <2>2
  <2> QED BY <2>1, <2>2
<1>9. LeasesMatchQueues'
  BY <1>8 DEF LeasesMatchQueues
<1>10. CASE t = "raster"
  <2>1. at'["raster"] = "idle" /\ at'["platform"] = at["platform"]
    BY <1>0, <1>1, <1>10, GoesTo
  <2>2. merged' = merged
    <3>1. CASE ~merged
      <4>1. merged = FALSE /\ (merged' = merged \/ merged' = FALSE)
        BY <1>1, <3>1 DEF TypeOK
      <4> QED BY <4>1
    <3>2. CASE merged
      <4>1. /\ lease[e] = NoLease \/ lease[e] >= LeaseTerm - lag + Owed
            /\ Owed \in {0, 1} /\ lag \in 0..MaxLag
        BY <1>1, <1>10, <3>2 DEF LeadInv, TailInv, TypeOK, Owed, e
      <4>2. ~(lease[e] > 0) \/ lease[e] >= 2
        BY <1>3, <4>1, TermsAreNatural DEF ShortLead, NoLease
      <4>3. IsMerged(lease')
        <5>1. CASE lease[e] >= 2
          <6>1. lease'[e] > 0
            BY <1>3, <5>1
          <6> QED BY <1>2, <6>1 DEF IsMerged
        <5>2. CASE ~(lease[e] > 0)
          BY <1>5, <1>6, <3>2, <5>2
        <5> QED BY <4>2, <5>1, <5>2
      <4> QED BY <1>1, <4>3
    <3> QED BY <3>1, <3>2
  <2>3. PlacesInv'
    BY <1>1, <1>9, <2>1, <2>2 DEF LeadInv, PlacesInv, BeforeMerge, TaskSteps
  <2>4. TailInv'
    BY <2>1 DEF TailInv
  <2> QED BY <2>2, <2>3, <2>4 DEF LeadInv
<1>11. CASE t = "platform"
  <2>1. at'["platform"] = "idle" /\ at'["raster"] = at["raster"] /\ at["platform"] = "decrementing"
    BY <1>0, <1>1, <1>11, GoesTo
  <2>2. merged
    BY <2>1 DEF LeadInv, PlacesInv, MergedSteps, DrawSteps
  <2>3. at["raster"] \notin BeforeMerge \cup TaskSteps
    BY <2>2 DEF LeadInv, PlacesInv
  <2>4. PlacesInv'
    <3>1. io' # "create"
      BY <1>1, <2>1 DEF LatchInv
    <3> QED BY <1>1, <1>9, <2>1, <2>3, <3>1
            DEF LeadInv, PlacesInv, MergedSteps, DrawSteps, TaskSteps
  <2>5. TailInv'
    <3> DEFINE f == task["raster"].engine
    <3> SUFFICES ASSUME at["raster"] \in {"drawn", "decrementing"}
                 PROVE  /\ lease'[f] = NoLease \/ lease'[f] >= LeaseTerm - lag + Owed'
                        /\ Owed' <= lag
      BY <1>1, <2>1 DEF TailInv
    <3>1. /\ lease[f] = NoLease \/ lease[f] >= LeaseTerm - lag + Owed
          /\ Owed <= lag
      BY <2>2 DEF LeadInv, TailInv
    <3>2. Owed = 1 /\ Owed' = 0
      BY <2>1 DEF Owed, DrawSteps
    <3>3. lag \in 0..MaxLag /\ lag \in Nat /\ LeaseTerm \in Nat /\ MaxLag \in Nat /\ lease[f] \in Int
      BY <1>0, <1>2, TermsAreNatural DEF TypeOK
    <3>4. lease'[f] = lease[f] \/ (lease[f] > 0 /\ lease'[f] = lease[f] - 1)
      BY <1>0, <1>2, <1>3
    <3> HIDE DEF f
    <3> QED BY <3>1, <3>2, <3>3, <3>4 DEF NoLease
  <2> QED BY <1>11, <2>4, <2>5 DEF LeadInv
<1> QED BY <1>10, <1>11 DEF Threads

LEMMA LeadSurface ==
  ASSUME TypeOK, DoesInv, LeadInv, NEW t \in Threads,
         EnableThreadMerger(t) \/ Setup(t) \/ Teardown(t) \/ PostIoTask(t)
  PROVE  LeadInv'
<1>0. "platform" \in Threads /\ "raster" \in Threads
  BY DEF Threads
<1>1. /\ UNCHANGED <<merged, lease, task, lag>> /\ (io' = io \/ io' = "destroyed")
      /\ at[t] \in TaskSteps
  BY DEF EnableThreadMerger, Setup, Teardown, PostIoTask, mergerVars, TaskSteps
<1>2. IsMerged(lease) <=> merged
  BY DEF LeadInv, PlacesInv, LeasesMatchQueues
<1>3. PICK step :
        /\ GoTo(t, step)
        /\ step \in TaskSteps \cup {"idle", "wait"}
        /\ step = "unmerge" => merged
        /\ step \in MergedSteps => at[t] \in MergedSteps \/ merged
  <2>1. CASE EnableThreadMerger(t)
    <3>1. GoTo(t, task[t].do) /\ task[t].do \in {"setup", "teardown"}
      BY <1>0, <1>1, <2>1 DEF EnableThreadMerger, DoesInv, Does, TypeOK, Task
    <3>2. at[t] \in MergedSteps
      BY <2>1 DEF EnableThreadMerger, MergedSteps, TaskSteps
    <3> QED BY <3>1, <3>2 DEF TaskSteps
  <2>2. CASE Setup(t)
    BY <2>2 DEF Setup, MergedSteps, DrawSteps, TaskSteps
  <2>3. CASE Teardown(t)
    BY <1>2, <2>3 DEF Teardown, MergedSteps, TaskSteps
  <2>4. CASE PostIoTask(t)
    BY <2>4 DEF PostIoTask, MergedSteps, DrawSteps, TaskSteps
  <2> QED BY <2>1, <2>2, <2>3, <2>4
<1>4. step \notin DrawSteps /\ step \notin BeforeMerge /\ step \notin {"merge", "merging", "extend"}
      /\ step \notin {"drawn", "decrementing"}
  BY <1>3 DEF DrawSteps, BeforeMerge, TaskSteps
<1>5. CASE t = "platform"
  <2>1. at'["platform"] = step /\ at'["raster"] = at["raster"]
    BY <1>0, <1>3, <1>5, GoesTo
  <2>2. at["raster"] \notin {"extend", "unmerge"} /\ (at["raster"] \in TaskSteps => ~merged)
    BY DEF LeadInv, PlacesInv
  <2> QED BY <1>1, <1>3, <1>4, <1>5, <2>1, <2>2, LeadUnchanged
<1>6. CASE t = "raster"
  <2>1. at'["raster"] = step /\ at'["platform"] = at["platform"]
    BY <1>0, <1>3, <1>6, GoesTo
  <2>2. ~merged /\ at["platform"] \notin {"merge", "merging"}
    BY <1>1, <1>6 DEF LeadInv, PlacesInv
  <2> QED BY <1>1, <1>3, <1>4, <1>6, <2>1, <2>2, LeadUnchanged
<1> QED BY <1>5, <1>6 DEF Threads

LEMMA LeadTeardown ==
  ASSUME TypeOK, LatchInv, LeadInv, NEW t \in Threads, UnMergeNowIfLastOne(t)
  PROVE  LeadInv' /\ t = "platform" /\ merged
<1> DEFINE e == task[t].engine
<1>0. "platform" \in Threads /\ "raster" \in Threads
  BY DEF Threads
<1>1. /\ at[t] = "unmerge" /\ GoTo(t, "destroyed") /\ UNCHANGED <<task, lag, io>>
      /\ ~enabled => merged' = merged /\ lease' = lease
      /\ enabled => /\ lease' = [lease EXCEPT ![e] = NoLease]
                    /\ merged' = IF IsMerged(lease') THEN merged ELSE FALSE
  BY DEF UnMergeNowIfLastOne, UnMergeNow, Erased
<1>2. t = "platform" /\ merged
  BY <1>1 DEF LeadInv, PlacesInv, MergedSteps, TaskSteps, Threads
<1>3. at'["platform"] = "destroyed" /\ at'["raster"] = at["raster"] /\ at["platform"] # "wait"
  BY <1>0, <1>1, <1>2, GoesTo
<1>4. IsMerged(lease) <=> merged
  BY DEF LeadInv, PlacesInv, LeasesMatchQueues
<1>5. LeasesMatchQueues'
  BY <1>1, <1>2, <1>4 DEF LeasesMatchQueues, IsMerged
<1>6. at["raster"] \notin BeforeMerge \cup TaskSteps
  BY <1>2 DEF LeadInv, PlacesInv
<1>7. PlacesInv'
  <2>1. io' # "create"
    BY <1>1, <1>3 DEF LatchInv
  <2> QED BY <1>3, <1>5, <1>6, <2>1 DEF LeadInv, PlacesInv, MergedSteps, DrawSteps
<1>8. TailInv'
  <2> DEFINE f == task["raster"].engine
  <2> SUFFICES ASSUME at["raster"] \in {"drawn", "decrementing"}
               PROVE  /\ lease'[f] = NoLease \/ lease'[f] >= LeaseTerm - lag + Owed'
                      /\ Owed' <= lag
    BY <1>1, <1>3 DEF TailInv
  <2>1. /\ lease[f] = NoLease \/ lease[f] >= LeaseTerm - lag + Owed
        /\ Owed <= lag
    BY <1>2 DEF LeadInv, TailInv
  <2>2. Owed = 0 /\ Owed' = 0
    BY <1>1, <1>2, <1>3 DEF Owed, DrawSteps
  <2>3. lease'[f] = lease[f] \/ lease'[f] = NoLease
    <3>1. CASE enabled
      <4>1. lease' = [lease EXCEPT ![task[t].engine] = NoLease]
        BY <1>1, <3>1
      <4> QED BY <1>0, <4>1, LeaseOf
    <3>2. CASE ~enabled
      BY <1>1, <3>2
    <3> QED BY <3>1, <3>2
  <2> QED BY <2>1, <2>2, <2>3
<1> QED BY <1>2, <1>7, <1>8 DEF LeadInv

LEMMA LeadShell ==
  ASSUME TypeOK, DoesInv, LatchInv, LeadInv, ShellStep
  PROVE  LeadInv'
<1>0. "platform" \in Threads /\ UNCHANGED <<merged, lease, task, lag>>
  BY DEF Threads, ShellStep, AwaitIoTask, IoPostsSetup, IoSignals, RunNowOrPostTask, mergerVars
<1>1. \/ at' = at /\ io' # "create"
      \/ /\ \E step \in {"wait", "enable", "idle"} :
               GoTo("platform", step) /\ (step = "enable" => merged)
         /\ io' # "create" \/ merged
  BY DEF ShellStep, AwaitIoTask, IoPostsSetup, IoSignals, RunNowOrPostTask, RunsNow, LeadInv, PlacesInv
<1>2. CASE at' = at /\ io' # "create"
  <2>1. /\ at["platform"] \notin {"merge", "merging"} /\ at["raster"] \notin {"extend", "unmerge"}
        /\ at["raster"] \in TaskSteps => ~merged
    BY DEF LeadInv, PlacesInv
  <2> QED BY <1>0, <1>2, <2>1, LeadUnchanged
<1>3. ASSUME NEW step \in {"wait", "enable", "idle"}, GoTo("platform", step),
             step = "enable" => merged, io' # "create" \/ merged
      PROVE  LeadInv'
  <2>1. at'["platform"] = step /\ at'["raster"] = at["raster"]
    BY <1>0, <1>3, GoesTo DEF Threads
  <2>2. LeasesMatchQueues'
    BY <1>0 DEF LeadInv, PlacesInv, LeasesMatchQueues, IsMerged
  <2>3. PlacesInv'
    BY <1>0, <1>3, <2>1, <2>2 DEF LeadInv, PlacesInv, MergedSteps, DrawSteps, TaskSteps
  <2>4. TailInv'
    <3>1. Owed' = 0 /\ Owed \in {0, 1}
      BY <1>3, <2>1 DEF Owed, DrawSteps
    <3>2. task["raster"].engine \in Engines
      BY DEF TypeOK, Task, Threads
    <3>3. lease[task["raster"].engine] \in Int /\ lag \in Nat /\ LeaseTerm \in Int
      BY <3>2, TermsAreNatural DEF TypeOK, NoLease
    <3> QED BY <1>0, <2>1, <3>1, <3>3 DEF LeadInv, TailInv
  <2> QED BY <2>3, <2>4 DEF LeadInv
<1> QED BY <1>1, <1>2, <1>3

LEMMA LeadNext ==
  ASSUME ShortLead
  PROVE  TypeOK /\ DoesInv /\ LatchInv /\ LeadInv /\ [Next]_vars => LeadInv'
<1> SUFFICES ASSUME TypeOK, DoesInv, LatchInv, LeadInv, [Next]_vars PROVE LeadInv'
  OBVIOUS
<1>1. ASSUME NEW t \in Threads, RasterStep(t) PROVE LeadInv'
  BY <1>1, LeadStart, LeadDraw, LeadExtend, LeadMerge, LeadDecrement, LeadSurface, LeadTeardown
     DEF RasterStep
<1>2. CASE ShellStep
  BY <1>2, LeadShell
<1>3. /\ at["platform"] \notin {"merge", "merging"} /\ at["raster"] \notin {"extend", "unmerge"}
      /\ at["raster"] \in TaskSteps => ~merged
  BY DEF LeadInv, PlacesInv
<1>4. ASSUME NEW e \in Engines, OnPlatformViewCreated(e) \/ OnPlatformViewDestroyed(e)
      PROVE  LeadInv'
  <2>1. PICK step \in {"created", "destroy"} :
          /\ GoTo("platform", step) /\ UNCHANGED <<merged, lease, lag, io>>
          /\ \E x : task' = [task EXCEPT !["platform"] = x]
    BY <1>4 DEF OnPlatformViewCreated, OnPlatformViewDestroyed, SurfaceCallback
  <2>2. at'["platform"] = step /\ at'["raster"] = at["raster"]
    BY <2>1, GoesTo DEF Threads
  <2>3. task'["raster"] = task["raster"]
    BY <2>1 DEF TypeOK, Threads
  <2>4. LeasesMatchQueues'
    BY <2>1 DEF LeadInv, PlacesInv, LeasesMatchQueues, IsMerged
  <2>5. PlacesInv'
    BY <2>1, <2>2, <2>4 DEF LeadInv, PlacesInv, MergedSteps, DrawSteps, TaskSteps
  <2>6. TailInv'
    <3>1. Owed' = 0 /\ Owed \in {0, 1}
      BY <2>2 DEF Owed, DrawSteps
    <3>2. task["raster"].engine \in Engines
      BY DEF TypeOK, Task, Threads
    <3>3. lease[task["raster"].engine] \in Int /\ lag \in Nat /\ LeaseTerm \in Int
      BY <3>2, TermsAreNatural DEF TypeOK, NoLease
    <3> QED BY <2>1, <2>2, <2>3, <3>1, <3>3 DEF LeadInv, TailInv
  <2> QED BY <2>5, <2>6 DEF LeadInv
<1>5. ASSUME NEW e \in Engines, NEW views \in BOOLEAN, OnAnimatorDraw(e, views)
      PROVE  LeadInv'
  <2>1. UNCHANGED <<merged, lease, at, task, lag, io>>
    BY <1>5 DEF OnAnimatorDraw, mergerVars
  <2> QED BY <1>3, <2>1, LeadUnchanged
<1>6. CASE UNCHANGED vars
  <2>1. UNCHANGED <<merged, lease, at, task, lag, io>>
    BY <1>6 DEF vars, mergerVars, threadVars
  <2> QED BY <1>3, <2>1, LeadUnchanged
<1> QED BY <1>1, <1>2, <1>4, <1>5, <1>6 DEF Next

LEMMA LeadInit == Init => LeadInv
<1> SUFFICES ASSUME Init PROVE LeadInv
  OBVIOUS
<1>1. /\ merged = FALSE /\ io = "none" /\ at["raster"] = "idle" /\ at["platform"] = "idle"
      /\ \A e \in Engines : lease[e] = NoLease
  BY DEF Init, Threads
<1>2. LeasesMatchQueues
  BY <1>1 DEF LeasesMatchQueues, IsMerged, NoLease
<1> QED BY <1>1, <1>2 DEF LeadInv, PlacesInv, TailInv, MergedSteps, BeforeMerge,
                          DrawSteps, TaskSteps
-----------------------------------------------------------------------------
(* A surface that goes.                                                      *)

\* The steps of a draw that come only after the surface was found there.
Surfaced == {"preroll", "merge", "merging", "extend"}

\* The strengthening of TeardownUnmerges: no draw that could set a lease is under
\* way without a surface, and merging is enabled when the lease is to be erased.
GoneInv ==
  /\ \A t \in Threads : at[t] \in Surfaced => surface[task[t].engine]
  /\ at["platform"] \in {"teardown", "unmerge"} => enabled
  /\ TeardownUnmerges

\* A step that takes no surface, erases no lease and sets none where no surface is.
LEMMA GoneMoves ==
  ASSUME TypeOK, GoneInv, NEW t \in Threads, NEW step, GoTo(t, step), at[t] # "unmerge",
         \A u \in Threads \ {t} : task'[u] = task[u],
         \A e \in Engines : surface[e] => surface'[e],
         \A e \in Engines : ~surface'[e] /\ lease[e] <= 0 => lease'[e] <= 0,
         step \in Surfaced => surface'[task'[t].engine],
         enabled' = enabled \/ enabled' \/ t = "platform",
         t = "platform" /\ step \in {"teardown", "unmerge"} => enabled'
  PROVE  GoneInv'
<1>1. at'[t] = step /\ \A u \in Threads \ {t} : at'[u] = at[u]
  BY GoesTo
<1>2. \A u \in Threads : task[u].engine \in Engines
  BY DEF TypeOK, Task
<1>3. ASSUME NEW u \in Threads, at'[u] \in Surfaced PROVE surface'[task'[u].engine]
  <2>1. CASE u = t
    BY <1>1, <1>3, <2>1
  <2>2. CASE u # t
    BY <1>1, <1>2, <1>3, <2>2 DEF GoneInv
  <2> QED BY <2>1, <2>2
<1>4. at'["platform"] \in {"teardown", "unmerge"} => enabled'
  <2>1. CASE t = "platform"
    BY <1>1, <2>1
  <2>2. CASE t # "platform"
    BY <1>1, <2>2 DEF GoneInv, Threads
  <2> QED BY <2>1, <2>2
<1>5. ASSUME NEW e \in Engines, ~surface'[e]
      PROVE  lease'[e] <= 0 \/ \E u \in Threads : at'[u] = "unmerge" /\ task'[u].engine = e
  <2>1. ~surface[e]
    BY <1>5
  <2>2. CASE lease[e] <= 0
    BY <1>5, <2>2
  <2>3. ASSUME NEW u \in Threads, at[u] = "unmerge", task[u].engine = e
        PROVE  at'[u] = "unmerge" /\ task'[u].engine = e
    BY <1>1, <2>3
  <2> QED BY <2>1, <2>2, <2>3 DEF GoneInv, TeardownUnmerges
<1>6. TeardownUnmerges'
  BY <1>5 DEF TeardownUnmerges
<1> QED BY <1>3, <1>4, <1>6 DEF GoneInv

LEMMA GoneStays ==
  ASSUME GoneInv, UNCHANGED <<at, task, surface, lease, enabled>>
  PROVE  GoneInv'
  BY DEF GoneInv, TeardownUnmerges

LEMMA GoneStart ==
  ASSUME TypeOK, GoneInv, NEW t \in Threads, StartTask(t)
  PROVE  GoneInv'
<1>1. /\ at[t] = "idle" /\ (GoTo(t, "draw") \/ GoTo(t, "enable"))
      /\ UNCHANGED <<surface, lease, enabled>>
      /\ task' = [task EXCEPT ![t] = Head(queue)]
  BY DEF StartTask, mergerVars
<1>2. \A u \in Threads \ {t} : task'[u] = task[u]
  BY <1>1 DEF TypeOK
<1> QED BY <1>1, <1>2, GoneMoves DEF Surfaced

LEMMA GoneDraw ==
  ASSUME TypeOK, GoneInv, NEW t \in Threads,
         Draw(t) \/ PostPrerollAction(t) \/ MergeWithLease(t) \/ DecrementLease(t)
  PROVE  GoneInv'
<1>1. UNCHANGED <<surface, lease, enabled, task>> /\ at[t] # "unmerge"
  BY DEF Draw, PostPrerollAction, MergeWithLease, DecrementLease, mergerVars
<1>2. PICK step :
        /\ GoTo(t, step)
        /\ step \in Surfaced => surface[task[t].engine] \/ at[t] \in Surfaced
        /\ step \notin {"teardown", "unmerge"}
  BY DEF Draw, PostPrerollAction, MergeWithLease, DecrementLease, EndDraw, Surfaced
<1>3. step \in Surfaced => surface[task[t].engine]
  BY <1>2 DEF GoneInv
<1> QED BY <1>1, <1>2, <1>3, GoneMoves

LEMMA GoneLease ==
  ASSUME TypeOK, GoneInv, NEW t \in Threads,
         ExtendLeaseTo(t) \/ SharedMergeWithLease(t) \/ SharedDecrementLease(t)
  PROVE  GoneInv'
<1> DEFINE e == task[t].engine
<1>1. /\ UNCHANGED <<surface, enabled, task>> /\ at[t] # "unmerge"
      /\ GoTo(t, "drawn") \/ GoTo(t, "idle")
  BY DEF ExtendLeaseTo, SharedMergeWithLease, SharedDecrementLease, EndDraw
<1>2. e \in Engines /\ lease \in [Engines -> 0..LeaseTerm \cup {NoLease}]
  BY DEF TypeOK, Task
<1>3. PICK term :
        /\ lease' = [lease EXCEPT ![e] = term]
        /\ at[t] = "decrementing" => term = Spent(lease[e])
  <2>1. CASE lease' = lease
    <3>1. at[t] # "decrementing" \/ lease' = [lease EXCEPT ![e] = Spent(lease[e])]
      BY DEF ExtendLeaseTo, SharedMergeWithLease, SharedDecrementLease
    <3>2. lease' = [lease EXCEPT ![e] = lease[e]]
      BY <1>2, <2>1
    <3> QED BY <3>1, <3>2
  <2>2. CASE lease' # lease
    BY <2>2 DEF ExtendLeaseTo, SharedMergeWithLease, SharedDecrementLease
  <2> QED BY <2>1, <2>2
<1>4. lease'[e] = term /\ \A c \in Engines \ {e} : lease'[c] = lease[c]
  BY <1>2, <1>3
<1>5. ASSUME ~surface[e], lease[e] <= 0 PROVE lease'[e] <= 0
  <2>1. at[t] = "decrementing"
    BY <1>5 DEF GoneInv, Surfaced, ExtendLeaseTo, SharedMergeWithLease, SharedDecrementLease
  <2>2. lease[e] \in Int
    BY <1>2, TermsAreNatural DEF NoLease
  <2> HIDE DEF e
  <2> QED BY <1>3, <1>4, <1>5, <2>1, <2>2 DEF Spent
<1>6. \A c \in Engines : ~surface'[c] /\ lease[c] <= 0 => lease'[c] <= 0
  BY <1>1, <1>4, <1>5
<1> QED BY <1>1, <1>6, GoneMoves DEF Surfaced

LEMMA GoneSurface ==
  ASSUME TypeOK, DoesInv, GoneInv, NEW t \in Threads,
         EnableThreadMerger(t) \/ Setup(t) \/ PostIoTask(t)
  PROVE  GoneInv'
<1>1. UNCHANGED <<lease, task>> /\ at[t] # "unmerge"
  BY DEF EnableThreadMerger, Setup, PostIoTask, mergerVars
<1>2. PICK step :
        /\ GoTo(t, step)
        /\ step \in {"setup", "teardown", "idle", "destroyed", "wait"}
        /\ step = "teardown" => enabled'
        /\ enabled' = enabled \/ enabled'
  <2>1. at[t] = "enable" => task[t].do \in {"setup", "teardown"}
    BY DEF DoesInv, Does, TaskSteps, TypeOK, Task
  <2> QED BY <2>1 DEF EnableThreadMerger, Setup, PostIoTask, mergerVars
<1>3. \A e \in Engines : surface[e] => surface'[e]
  BY DEF EnableThreadMerger, Setup, PostIoTask, TypeOK
<1> QED BY <1>1, <1>2, <1>3, GoneMoves DEF Surfaced

\* A teardown takes a surface from no draw under way: those that could still set
\* a lease run while the threads are as the teardown does not find them.
LEMMA GoneTeardown ==
  ASSUME TypeOK, LeadInv, GoneInv, NEW t \in Threads, Teardown(t)
  PROVE  GoneInv'
<1>0. "platform" \in Threads /\ "raster" \in Threads
  BY DEF Threads
<1>1. /\ at[t] = "teardown" /\ UNCHANGED <<lease, enabled, task>>
      /\ surface' = [surface EXCEPT ![task[t].engine] = FALSE]
      /\ GoTo(t, IF IsMerged(lease) THEN "unmerge" ELSE "destroyed")
  BY DEF Teardown, mergerVars
<1>2. PICK step \in {"unmerge", "destroyed"} :
        GoTo(t, step) /\ (IsMerged(lease) <=> step = "unmerge")
  BY <1>1
<1>3. at'[t] = step /\ \A u \in Threads \ {t} : at'[u] = at[u]
  BY <1>2, GoesTo
<1>4. /\ t = "platform" => merged
      /\ t = "raster" => ~merged
      /\ at["raster"] \in Surfaced => ~merged
      /\ at["platform"] \in Surfaced => merged
  BY <1>1 DEF LeadInv, PlacesInv, MergedSteps, BeforeMerge, DrawSteps, TaskSteps, Surfaced
<1>5. \A u \in Threads : at'[u] \notin Surfaced
  BY <1>2, <1>3, <1>4 DEF Surfaced, Threads
<1>6. at'["platform"] \in {"teardown", "unmerge"} => enabled'
  <2>1. CASE t = "platform"
    BY <1>1, <2>1 DEF GoneInv
  <2>2. CASE t = "raster"
    BY <1>0, <1>1, <1>3, <2>2 DEF GoneInv
  <2> QED BY <2>1, <2>2 DEF Threads
<1>7. ASSUME NEW e \in Engines, ~surface'[e]
      PROVE  lease'[e] <= 0 \/ \E u \in Threads : at'[u] = "unmerge" /\ task'[u].engine = e
  <2>1. CASE e = task[t].engine
    <3>1. CASE step = "unmerge"
      BY <1>1, <1>3, <2>1, <3>1
    <3>2. CASE step # "unmerge"
      <4>1. ~(lease[e] > 0)
        BY <1>2, <3>2 DEF IsMerged
      <4>2. lease[e] \in Int
        BY TermsAreNatural DEF TypeOK, NoLease
      <4> QED BY <1>1, <4>1, <4>2
    <3> QED BY <3>1, <3>2
  <2>2. CASE e # task[t].engine
    <3>1. ~surface[e]
      BY <1>1, <1>7, <2>2 DEF TypeOK
    <3>2. CASE lease[e] <= 0
      BY <1>1, <3>2
    <3>3. ASSUME NEW u \in Threads, at[u] = "unmerge", task[u].engine = e
          PROVE  at'[u] = "unmerge" /\ task'[u].engine = e
      BY <1>1, <1>3, <3>3
    <3> QED BY <3>1, <3>2, <3>3 DEF GoneInv, TeardownUnmerges
  <2> QED BY <2>1, <2>2
<1> QED BY <1>5, <1>6, <1>7 DEF GoneInv, TeardownUnmerges

\* The lease is erased, for merging has been enabled by the task itself.
LEMMA GoneUnmerge ==
  ASSUME TypeOK, LatchInv, LeadInv, GoneInv, NEW t \in Threads, UnMergeNowIfLastOne(t)
  PROVE  GoneInv'
<1>0. "platform" \in Threads /\ "raster" \in Threads /\ t = "platform"
  BY LeadTeardown DEF Threads
<1>1. /\ at["platform"] = "unmerge" /\ GoTo("platform", "destroyed")
      /\ UNCHANGED <<task, surface, enabled>>
      /\ enabled => lease' = [lease EXCEPT ![task["platform"].engine] = NoLease]
  BY <1>0 DEF UnMergeNowIfLastOne, Erased
<1>2. enabled
  BY <1>1 DEF GoneInv
<1>3. /\ lease'[task["platform"].engine] = NoLease
      /\ \A c \in Engines \ {task["platform"].engine} : lease'[c] = lease[c]
      /\ \A u \in Threads : task[u].engine \in Engines
  BY <1>0, <1>1, <1>2, LeaseOf
<1>4. at'["platform"] = "destroyed" /\ \A u \in Threads \ {"platform"} : at'[u] = at[u]
  BY <1>0, <1>1, GoesTo
<1>5. at["raster"] # "unmerge"
  BY DEF LeadInv, PlacesInv
<1>6. ASSUME NEW e \in Engines, ~surface'[e] PROVE lease'[e] <= 0
  <2>1. CASE e = task["platform"].engine
    BY <1>3, <2>1 DEF NoLease
  <2>2. CASE e # task["platform"].engine
    <3>1. ~\E u \in Threads : at[u] = "unmerge" /\ task[u].engine = e
      BY <1>5, <2>2 DEF Threads
    <3>2. lease[e] <= 0
      BY <1>1, <1>6, <3>1 DEF GoneInv, TeardownUnmerges
    <3> QED BY <1>3, <2>2, <3>2
  <2> QED BY <2>1, <2>2
<1>7. \A u \in Threads : at'[u] \in Surfaced => surface'[task'[u].engine]
  BY <1>1, <1>4 DEF GoneInv, Surfaced
<1> QED BY <1>4, <1>6, <1>7 DEF GoneInv, TeardownUnmerges

LEMMA GoneShell ==
  ASSUME TypeOK, DoesInv, LatchInv, GoneInv, ShellStep
  PROVE  GoneInv'
<1>0. "platform" \in Threads /\ UNCHANGED <<surface, lease, enabled, task>>
  BY DEF Threads, ShellStep, AwaitIoTask, IoPostsSetup, IoSignals, RunNowOrPostTask, mergerVars
<1>1. CASE IoPostsSetup
  BY <1>0, <1>1, GoneStays DEF IoPostsSetup
<1>2. CASE ~IoPostsSetup
  <2>1. PICK step \in {"wait", "enable", "idle"} : GoTo("platform", step)
    BY <1>2 DEF ShellStep, AwaitIoTask, IoSignals, RunNowOrPostTask
  <2>2. at["platform"] # "unmerge"
    BY <1>2 DEF ShellStep, AwaitIoTask, IoSignals, RunNowOrPostTask, LatchInv
  <2> QED BY <1>0, <2>1, <2>2, GoneMoves DEF Surfaced
<1> QED BY <1>1, <1>2

LEMMA GoneNext ==
  TypeOK /\ DoesInv /\ LatchInv /\ LeadInv /\ GoneInv /\ [Next]_vars => GoneInv'
<1> SUFFICES ASSUME TypeOK, DoesInv, LatchInv, LeadInv, GoneInv, [Next]_vars PROVE GoneInv'
  OBVIOUS
<1>1. ASSUME NEW t \in Threads, RasterStep(t) PROVE GoneInv'
  BY <1>1, GoneStart, GoneDraw, GoneLease, GoneSurface, GoneTeardown, GoneUnmerge DEF RasterStep
<1>2. CASE ShellStep
  BY <1>2, GoneShell
<1>3. ASSUME NEW e \in Engines, OnPlatformViewCreated(e) \/ OnPlatformViewDestroyed(e)
      PROVE  GoneInv'
  <2>1. PICK step \in {"created", "destroy"} :
          /\ GoTo("platform", step) /\ UNCHANGED <<surface, lease>>
          /\ \E x : task' = [task EXCEPT !["platform"] = x]
          /\ at["platform"] = "idle"
    BY <1>3 DEF OnPlatformViewCreated, OnPlatformViewDestroyed, SurfaceCallback
  <2>2. "platform" \in Threads /\ \A u \in Threads \ {"platform"} : task'[u] = task[u]
    BY <2>1 DEF TypeOK, Threads
  <2> QED BY <2>1, <2>2, GoneMoves DEF Surfaced
<1>4. ASSUME NEW e \in Engines, NEW views \in BOOLEAN, OnAnimatorDraw(e, views)
      PROVE  GoneInv'
  BY <1>4, GoneStays DEF OnAnimatorDraw, mergerVars
<1>5. CASE UNCHANGED vars
  BY <1>5, GoneStays DEF vars, mergerVars, threadVars
<1> QED BY <1>1, <1>2, <1>3, <1>4, <1>5 DEF Next

LEMMA GoneInit == Init => GoneInv
  BY DEF Init, GoneInv, TeardownUnmerges, Surfaced, Threads

-----------------------------------------------------------------------------
(* What holds for any number of engines.                                     *)

\* The strengthening, with TypeOK, of LeasesMatchQueues.
Several == TypeOK /\ DoesInv /\ LatchInv /\ LeadInv

\* The raster task that tears a surface down is in the queue or on the raster
\* thread only while the platform thread waits for it, and there is one at
\* most; and whenever the platform thread waits, somebody is to open its latch:
\* that task, or the IO thread (Shell::OnPlatformViewDestroyed). This takes no
\* assumption, neither of the lease nor of the embedder.
THEOREM LatchHasAnOwner == Spec => []LatchInv
<1>1. Init => TypeOK /\ DoesInv /\ LatchInv
  BY TypeInit, LatchInit
<1>2. TypeOK /\ DoesInv /\ LatchInv /\ [Next]_vars => (TypeOK /\ DoesInv /\ LatchInv)'
  BY TypeNext, LatchNext
<1> QED BY <1>1, <1>2, PTL DEF Spec

\* Whatever engines share the threads, if their leases outlast the platform
\* thread's lead by two: the places of the two threads, the task queues and the
\* leases agree, and the tail of the draw that merged has a lease to spend.
THEOREM SeveralHold == ASSUME ShortLead PROVE Spec => []Several
<1>1. Init => Several
  BY TypeInit, LatchInit, LeadInit DEF Several
<1>2. Several /\ [Next]_vars => Several'
  BY TypeNext, LatchNext, LeadNext DEF Several
<1> QED BY <1>1, <1>2, PTL DEF Spec

\* Under the same condition the leases say that the threads are merged exactly
\* when the task queues are.
THEOREM LeasesMatchQueuesHolds == ASSUME ShortLead PROVE Spec => []LeasesMatchQueues
<1>1. Several => LeasesMatchQueues
  BY DEF Several, LeadInv, PlacesInv
<1> QED BY <1>1, SeveralHold, PTL

\* Under the same condition a draw starts on the thread that the leases name.
THEOREM NoDrawYieldsHolds == ASSUME ShortLead PROVE Spec => []NoDrawYields
<1>1. Several => NoDrawYields
  <2> SUFFICES ASSUME LeadInv, NEW t \in Threads, at[t] = "draw"
               PROVE  (t = "platform") <=> IsMerged(lease)
    BY DEF NoDrawYields, Several
  <2>1. IsMerged(lease) <=> merged
    BY DEF LeadInv, PlacesInv, LeasesMatchQueues
  <2>2. CASE t = "raster"
    BY <2>1, <2>2 DEF LeadInv, PlacesInv, BeforeMerge
  <2>3. CASE t = "platform"
    BY <2>1, <2>3 DEF LeadInv, PlacesInv, MergedSteps, DrawSteps
  <2> QED BY <2>2, <2>3 DEF Threads
<1> QED BY <1>1, SeveralHold, PTL

\* Under the same condition, whatever the embedder does: an engine without a
\* surface has no lease once its teardown is through, so the threads stay merged
\* only for another engine.
THEOREM TeardownUnmergesHolds == ASSUME ShortLead PROVE Spec => []TeardownUnmerges
<1>1. Init => Several /\ GoneInv
  BY TypeInit, LatchInit, LeadInit, GoneInit DEF Several
<1>2. Several /\ GoneInv /\ [Next]_vars => (Several /\ GoneInv)'
  BY TypeNext, LatchNext, LeadNext, GoneNext DEF Several
<1>3. GoneInv => TeardownUnmerges
  BY DEF GoneInv
<1> QED BY <1>1, <1>2, <1>3, PTL DEF Spec

\* While the threads are merged, no step but the latch's own wait has the platform
\* thread wait with a teardown in the queue.
LEMMA OnlyTheLatchWaits ==
  ASSUME TypeOK, DoesInv, LatchInv, Next, merged,
         at'["platform"] = "wait", ~NoTeardown(queue')
  PROVE  at["platform"] = "wait" /\ ~NoTeardown(queue)
<1>0. /\ "platform" \in Threads /\ "raster" \in Threads
      /\ queue \in Seq(Task) /\ task["platform"] \in Task
      /\ at["platform"] # "wait" \/ io # "none" => NoTeardown(queue)
  BY DEF Threads, TypeOK, LatchInv
<1>1. ASSUME NEW t \in Threads, RasterStep(t)
      PROVE  at["platform"] = "wait" /\ ~NoTeardown(queue)
  <2>1. ~NoTeardown(queue)
    <3>1. CASE StartTask(t)
      <4>1. queue # <<>> /\ queue' = Tail(queue)
        BY <3>1 DEF StartTask
      <4> QED BY <1>0, <4>1, TailTeardowns
    <3>2. CASE Draw(t) \/ DecrementLease(t) \/ SharedDecrementLease(t)
      <4>1. at[t] \in DrawSteps /\ (queue' = queue \/ queue' = Append(queue, task[t]))
        BY <3>2 DEF Draw, DecrementLease, SharedDecrementLease, EndDraw, DrawSteps
      <4> QED BY <4>1, BackInQueue
    <3>3. CASE ~(StartTask(t) \/ Draw(t) \/ DecrementLease(t) \/ SharedDecrementLease(t))
      BY <1>1, <3>3 DEF RasterStep, PostPrerollAction, ExtendLeaseTo, MergeWithLease,
           SharedMergeWithLease, EnableThreadMerger, Setup, Teardown, UnMergeNowIfLastOne,
           PostIoTask
    <3> QED BY <3>1, <3>2, <3>3
  <2> QED BY <1>0, <2>1
<1>2. ASSUME ShellStep
      PROVE  at["platform"] = "wait" /\ ~NoTeardown(queue)
  <2>1. CASE IoPostsSetup
    <3>1. queue' = Append(queue, task["platform"]) /\ task["platform"].do = "setup" /\ io # "none"
      BY <2>1 DEF IoPostsSetup, LatchInv
    <3> QED BY <1>0, <3>1, AppendTeardowns
  <2>2. CASE AwaitIoTask
    BY <1>0, <2>2 DEF AwaitIoTask
  <2>3. CASE IoSignals
    <3>1. GoTo("platform", "enable") \/ GoTo("platform", "idle")
      BY <2>3 DEF IoSignals
    <3> QED BY <1>0, <3>1, GoesTo
  <2>4. CASE RunNowOrPostTask
    <3>1. GoTo("platform", "enable")
      BY <2>4 DEF RunNowOrPostTask, RunsNow
    <3> QED BY <1>0, <3>1, GoesTo
  <2> QED BY <1>2, <2>1, <2>2, <2>3, <2>4 DEF ShellStep
<1>3. ASSUME NEW e \in Engines, OnPlatformViewCreated(e) \/ OnPlatformViewDestroyed(e)
      PROVE  FALSE
  <2>1. GoTo("platform", "created") \/ GoTo("platform", "destroy")
    BY <1>3 DEF OnPlatformViewCreated, OnPlatformViewDestroyed, SurfaceCallback
  <2> QED BY <1>0, <2>1, GoesTo
<1>4. ASSUME NEW e \in Engines, NEW views \in BOOLEAN, OnAnimatorDraw(e, views)
      PROVE  at["platform"] = "wait" /\ ~NoTeardown(queue)
  <2> DEFINE x == [do |-> "draw", engine |-> e, views |-> views]
  <2>1. queue' = Append(queue, x) /\ at' = at /\ x.do = "draw"
    BY <1>4 DEF OnAnimatorDraw
  <2> HIDE DEF x
  <2> QED BY <1>0, <2>1, AppendTeardowns
<1> QED BY <1>1, <1>2, <1>3, <1>4 DEF Next

\* Whatever the leases and the embedder: the platform thread comes to wait for a
\* teardown of a queue it would have to serve only by a merge that the teardown's
\* wait did not keep off; its own posts and the parting of the threads never do it.
THEOREM OnlyAMergeDeadlocksHolds == Spec => OnlyAMergeDeadlocks
<1> DEFINE Guilty == WaitsForItself' => WaitsForItself \/ (~merged /\ merged')
<1>1. TypeOK /\ DoesInv /\ LatchInv /\ Next => Guilty
  <2> SUFFICES ASSUME TypeOK, DoesInv, LatchInv, Next, WaitsForItself',
                      ~(~merged /\ merged')
               PROVE  WaitsForItself
    OBVIOUS
  <2>1. merged' /\ at'["platform"] = "wait" /\ ~NoTeardown(queue')
    BY TypeNext DEF WaitsForItself, NoTeardown, TypeOK
  <2>2. at["platform"] = "wait" /\ ~NoTeardown(queue)
    BY <2>1, OnlyTheLatchWaits
  <2> QED BY <2>1, <2>2 DEF WaitsForItself, NoTeardown, TypeOK
<1>2. TypeOK /\ DoesInv /\ LatchInv /\ [Next]_vars => [Guilty]_vars
  BY <1>1
<1>3. Spec => [](TypeOK /\ DoesInv /\ LatchInv)
  <2>1. Init => TypeOK /\ DoesInv /\ LatchInv
    BY TypeInit, LatchInit
  <2>2. TypeOK /\ DoesInv /\ LatchInv /\ [Next]_vars => (TypeOK /\ DoesInv /\ LatchInv)'
    BY TypeNext, LatchNext
  <2> QED BY <2>1, <2>2, PTL DEF Spec
<1> QED BY <1>2, <1>3, PTL DEF Spec, OnlyAMergeDeadlocks

-----------------------------------------------------------------------------
(* The contract of the merger: MergedThreads.                                *)

Busy == {t \in Threads : at[t] \in DrawSteps \cup TaskSteps}

\* What a thread that goes to another step does to the threads in a task.
LEMMA BusyFacts ==
  ASSUME TypeOK, NEW t \in Threads, NEW step, GoTo(t, step)
  PROVE  /\ t \in Busy /\ step \in DrawSteps \cup TaskSteps => Busy' = Busy
         /\ t \notin Busy /\ step \in DrawSteps \cup TaskSteps => Busy' = Busy \cup {t}
         /\ step \notin DrawSteps \cup TaskSteps => Busy' = Busy \ {t}
  BY GoesTo DEF Busy

LEMMA TaskEnds ==
  ASSUME TypeOK, NEW t \in Threads, at[t] \in DrawSteps \cup TaskSteps, NEW step,
         GoTo(t, step), merged' = merged
  PROVE  [Merging!Next]_(Merging!vars)
<1>1. t \in Busy
  BY DEF Busy
<1>2. CASE step \in DrawSteps \cup TaskSteps
  BY <1>1, <1>2, BusyFacts DEF Merging!vars, Busy
<1>3. CASE step \notin DrawSteps \cup TaskSteps
  <2>1. Busy' = Busy \ {t}
    BY <1>3, BusyFacts
  <2>2. Merging!End(t)
    BY <1>1, <2>1 DEF Merging!End, Busy
  <2> QED BY <1>1, <2>2 DEF Merging!Next, Busy
<1> QED BY <1>2, <1>3

LEMMA TaskStarts ==
  ASSUME TypeOK, NEW t \in Threads, at[t] \notin DrawSteps \cup TaskSteps, Serves(t),
         NEW step \in DrawSteps \cup TaskSteps, GoTo(t, step), merged' = merged
  PROVE  [Merging!Next]_(Merging!vars)
<1>1. t \notin Busy /\ Busy' = Busy \cup {t}
  BY BusyFacts DEF Busy
<1>2. t = Merging!Server
  BY DEF Merging!Server, Serves, Threads
<1>3. Merging!Start
  BY <1>1, <1>2 DEF Merging!Start, Busy
<1> QED BY <1>3 DEF Merging!Next

LEMMA RasterStepKeepsMerging ==
  ASSUME Several, ShortLead, NEW t \in Threads, RasterStep(t)
  PROVE  [Merging!Next]_(Merging!vars)
<1>0. /\ "platform" \in Threads /\ "raster" \in Threads
      /\ TypeOK /\ DoesInv /\ LatchInv /\ LeadInv
  BY DEF Threads, Several
<1>1. CASE StartTask(t)
  <2>1. at[t] = "idle" /\ Serves(t) /\ merged' = merged /\ (GoTo(t, "draw") \/ GoTo(t, "enable"))
    BY <1>1 DEF StartTask, mergerVars
  <2> QED BY <1>0, <2>1, TaskStarts DEF DrawSteps, TaskSteps
<1>2. CASE \/ Draw(t) \/ PostPrerollAction(t) \/ ExtendLeaseTo(t)
           \/ MergeWithLease(t) \/ DecrementLease(t)
           \/ EnableThreadMerger(t) \/ Setup(t) \/ Teardown(t) \/ PostIoTask(t)
  <2>1. at[t] \in DrawSteps \cup TaskSteps /\ merged' = merged
    BY <1>2 DEF Draw, PostPrerollAction, ExtendLeaseTo, MergeWithLease, DecrementLease,
                EnableThreadMerger, Setup, Teardown, PostIoTask, mergerVars,
                DrawSteps, TaskSteps
  <2>2. PICK step : GoTo(t, step)
    BY <1>2 DEF Draw, PostPrerollAction, ExtendLeaseTo, MergeWithLease, DecrementLease,
                EndDraw, EnableThreadMerger, Setup, Teardown, PostIoTask
  <2> QED BY <1>0, <2>1, <2>2, TaskEnds
<1>3. CASE SharedMergeWithLease(t)
  <2>1. t = "raster" /\ at["raster"] = "merging" /\ ~merged /\ merged' = TRUE
    <3>1. t = "raster" /\ ~merged /\ merged'
      BY <1>0, <1>3, LeadMerge
    <3> QED BY <1>3, <3>1 DEF SharedMergeWithLease
  <2>2. "raster" \in Busy /\ Busy' = Busy
    BY <1>0, <1>3, <2>1, BusyFacts DEF SharedMergeWithLease, Busy, DrawSteps
  <2>3. Merging!Merge
    BY <2>1, <2>2 DEF Merging!Merge, Busy
  <2> QED BY <2>3 DEF Merging!Next
<1>4. CASE SharedDecrementLease(t)
  <2>1. at[t] = "decrementing" /\ GoTo(t, "idle")
    BY <1>4 DEF SharedDecrementLease, EndDraw
  <2>2. CASE merged' = merged
    BY <1>0, <2>1, <2>2, TaskEnds DEF DrawSteps
  <2>3. CASE merged' # merged
    <3>1. t = "platform"
      BY <1>0, <1>4, <2>3, LeadDecrement DEF Threads
    <3>2. merged
      BY <1>0, <2>1, <3>1 DEF LeadInv, PlacesInv, MergedSteps, DrawSteps
    <3>3. merged' = FALSE
      BY <1>4, <2>3 DEF SharedDecrementLease, UnMergeNow
    <3>4. t \in Busy /\ Busy' = Busy \ {t}
      BY <1>0, <2>1, BusyFacts DEF Busy, DrawSteps, TaskSteps
    <3>5. Merging!Part
      BY <3>1, <3>2, <3>3, <3>4 DEF Merging!Part, Busy
    <3> QED BY <3>5 DEF Merging!Next
  <2> QED BY <2>2, <2>3
<1>5. CASE UnMergeNowIfLastOne(t)
  <2>1. at[t] = "unmerge" /\ GoTo(t, "destroyed")
    BY <1>5 DEF UnMergeNowIfLastOne
  <2>2. t = "platform" /\ merged
    BY <1>0, <1>5, LeadTeardown
  <2>3. CASE merged' = merged
    BY <1>0, <2>1, <2>3, TaskEnds DEF TaskSteps
  <2>4. CASE merged' # merged
    <3>1. merged' = FALSE
      BY <1>5, <2>4 DEF UnMergeNowIfLastOne, UnMergeNow
    <3>2. t \in Busy /\ Busy' = Busy
      BY <1>0, <2>1, BusyFacts DEF Busy, TaskSteps
    <3>3. Merging!Part
      BY <2>2, <3>1, <3>2 DEF Merging!Part, Busy
    <3> QED BY <3>3 DEF Merging!Next
  <2> QED BY <2>3, <2>4
<1> QED BY <1>1, <1>2, <1>3, <1>4, <1>5 DEF RasterStep

LEMMA ShellStepKeepsMerging ==
  ASSUME Several, ShellStep
  PROVE  [Merging!Next]_(Merging!vars)
<1>0. /\ "platform" \in Threads /\ merged' = merged
      /\ TypeOK /\ LatchInv /\ LeadInv
  BY DEF Threads, ShellStep, AwaitIoTask, IoPostsSetup, IoSignals, RunNowOrPostTask, mergerVars,
         Several
<1>1. ASSUME NEW step, at["platform"] \notin DrawSteps \cup TaskSteps,
             step \notin DrawSteps \cup TaskSteps, GoTo("platform", step)
      PROVE  UNCHANGED Merging!vars
  <2>1. Busy' = Busy \ {"platform"} /\ "platform" \notin Busy
    BY <1>0, <1>1, BusyFacts DEF Busy
  <2> QED BY <1>0, <2>1 DEF Merging!vars, Busy
<1>2. CASE AwaitIoTask
  BY <1>1, <1>2 DEF AwaitIoTask, DrawSteps, TaskSteps
<1>3. CASE IoPostsSetup
  BY <1>0, <1>3 DEF IoPostsSetup, Merging!vars
<1>4. CASE IoSignals
  <2>1. at["platform"] = "wait"
    BY <1>0, <1>4 DEF IoSignals, LatchInv
  <2>2. CASE io = "create"
    <3>1. GoTo("platform", "enable") /\ Serves("platform")
      BY <1>0, <1>4, <2>2 DEF IoSignals, Serves, LeadInv, PlacesInv
    <3> QED BY <1>0, <2>1, <3>1, TaskStarts DEF DrawSteps, TaskSteps
  <2>3. CASE io # "create"
    <3>1. GoTo("platform", "idle")
      BY <1>4, <2>3 DEF IoSignals
    <3> QED BY <1>1, <2>1, <3>1 DEF DrawSteps, TaskSteps
  <2> QED BY <2>2, <2>3
<1>5. CASE RunNowOrPostTask
  <2>1. at["platform"] = "destroy"
    BY <1>5 DEF RunNowOrPostTask
  <2>2. CASE merged
    <3>1. GoTo("platform", "enable") /\ Serves("platform")
      BY <1>5, <2>2 DEF RunNowOrPostTask, RunsNow, Serves
    <3> QED BY <1>0, <2>1, <3>1, TaskStarts DEF DrawSteps, TaskSteps
  <2>3. CASE ~merged
    <3>1. GoTo("platform", "wait")
      BY <1>5, <2>3 DEF RunNowOrPostTask, RunsNow
    <3> QED BY <1>1, <2>1, <3>1 DEF DrawSteps, TaskSteps
  <2> QED BY <2>2, <2>3
<1> QED BY <1>2, <1>3, <1>4, <1>5 DEF ShellStep

LEMMA MergingStep ==
  ASSUME ShortLead
  PROVE  Several /\ [Next]_vars => [Merging!Next]_(Merging!vars)
<1> SUFFICES ASSUME Several, [Next]_vars PROVE [Merging!Next]_(Merging!vars)
  OBVIOUS
<1>1. ASSUME NEW t \in Threads, RasterStep(t) PROVE [Merging!Next]_(Merging!vars)
  BY <1>1, RasterStepKeepsMerging
<1>2. CASE ShellStep
  BY <1>2, ShellStepKeepsMerging
<1>3. ASSUME NEW c \in Engines, NEW do, NEW step \in {"created", "destroy"},
             SurfaceCallback(c, do, step)
      PROVE  UNCHANGED Merging!vars
  <2>1. /\ "platform" \in Threads /\ at["platform"] = "idle" /\ GoTo("platform", step)
        /\ merged' = merged /\ TypeOK
    BY <1>3 DEF SurfaceCallback, Threads, Several
  <2>2. Busy' = Busy \ {"platform"} /\ "platform" \notin Busy
    BY <2>1, BusyFacts DEF Busy, DrawSteps, TaskSteps
  <2> QED BY <2>1, <2>2 DEF Merging!vars, Busy
<1>4. ASSUME NEW c \in Engines, OnPlatformViewCreated(c) \/ OnPlatformViewDestroyed(c)
      PROVE  UNCHANGED Merging!vars
  BY <1>3, <1>4 DEF OnPlatformViewCreated, OnPlatformViewDestroyed
<1>5. ASSUME NEW c \in Engines, NEW views \in BOOLEAN, OnAnimatorDraw(c, views)
      PROVE  UNCHANGED Merging!vars
  BY <1>5 DEF OnAnimatorDraw, mergerVars, Merging!vars
<1>6. CASE UNCHANGED vars
  BY <1>6 DEF vars, mergerVars, threadVars, Merging!vars
<1> QED BY <1>1, <1>2, <1>4, <1>5, <1>6 DEF Next

\* Under ShortLead, whatever engines share the threads: the leases, the flag and
\* the latch keep the contract of MergedThreads: raster tasks start on the thread
\* that serves them, and the threads merge and part only within such a task.
THEOREM MergingIsKeptHolds == ASSUME ShortLead PROVE Spec => MergingIsKept
<1>1. Init => Merging!Init
  BY DEF Init, Merging!Init, DrawSteps, TaskSteps
<1>2. Several /\ [Next]_vars => [Merging!Next]_(Merging!vars)
  BY MergingStep
<1> QED BY <1>1, <1>2, SeveralHold, PTL DEF Spec, MergingIsKept, Merging!Spec
=============================================================================
