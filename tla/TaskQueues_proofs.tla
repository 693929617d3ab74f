-------------------------- MODULE TaskQueues_proofs --------------------------
(* Theorems about TaskQueues, for any set of queues, any number of tasks     *)
(* and any horizon.                                                          *)
EXTENDS TaskQueues, FiniteSetTheorems, WellFoundedInduction, TLAPS

USE kUnmergedIsNoQueue, BoundsAreNaturals, AnyThreadIsBoolean

-----------------------------------------------------------------------------
(* Choosing the next task.                                                   *)

LEMMA SmallestNat ==
    ASSUME NEW S, S \subseteq Nat, S # {}
    PROVE  \E m \in S : \A n \in S : m <= n
<1> DEFINE R == OpToRel(<, Nat)
<1>1. IsWellFoundedOn(R, Nat)
  BY NatLessThanWellFounded
<1> HIDE DEF R
<1>2. PICK m \in S : \A n \in S : ~(<<n, m>> \in R)
  BY <1>1, WFMin
<1>3. \A n \in S : <<n, m>> \in R <=> n < m
  BY DEF R, OpToRel
<1>4. \A n \in S : ~(n < m)
  BY <1>2, <1>3
<1>5. m \in Nat /\ \A n \in S : n \in Nat
  OBVIOUS
<1> QED BY <1>4, <1>5


\* Of any tasks offered, one is first: Earliest is well defined.
LEMMA EarliestIsFirst ==
    ASSUME NEW O, O \subseteq Task, O # {}
    PROVE  /\ Earliest(O) \in O
           /\ \A u \in O : ~Before(u, Earliest(O))
           /\ \A u \in O : Earliest(O).time <= u.time
<1>1. \A t \in O : t.time \in Nat /\ t.order \in Nat
  BY DEF Task
<1>2. PICK m \in {t.time : t \in O} : \A n \in {t.time : t \in O} : m <= n
  BY <1>1, SmallestNat
<1> DEFINE P == {t \in O : t.time = m}
<1>3. PICK k \in {t.order : t \in P} : \A n \in {t.order : t \in P} : k <= n
  BY <1>1, <1>2, SmallestNat
<1>4. PICK t \in P : t.order = k
  BY <1>3
<1>5. \A u \in O : ~Before(u, t)
  BY <1>1, <1>2, <1>3, <1>4 DEF Before
<1>6. Earliest(O) \in O /\ \A u \in O : ~Before(u, Earliest(O))
  BY <1>4, <1>5 DEF Earliest
<1> QED BY <1>1, <1>6 DEF Before

-----------------------------------------------------------------------------
(* The shape of the state.                                                   *)

\* Types, and a loop that runs something runs a task of some queue.
Shape ==
  /\ now \in 0..MaxTime
  /\ order \in Nat
  /\ tasks \in [Queues -> SUBSET Task]
  /\ paused \in [Queues -> Int]
  /\ ownerOf \in [Queues -> SUBSET Queues]
  /\ subsumedBy \in [Queues -> Queues \cup {kUnmerged}]
  /\ wake \in [Queues -> 0..Never]
  /\ loop \in [Queues -> {"idle", "flush", "run"}]
  /\ flushNow \in [Queues -> 0..MaxTime]
  /\ running \in [Queues -> Running]
  /\ vsync \in [Queues -> BOOLEAN]
  /\ \A q \in Queues : loop[q] = "run" <=> running[q] # NoTask

LEMMA OfferedTasks ==
    ASSUME Shape, NEW q \in Queues
    PROVE  Offered(q) \subseteq Task
  BY DEF Shape, Offered, Visible

\* What waking the loops of Q does.
LEMMA WakeUp ==
    ASSUME NEW Q, WakeIfPending(Q),
           wake \in [Queues -> 0..Never],
           (tasks \in [Queues -> SUBSET Task])',
           (ownerOf \in [Queues -> SUBSET Queues])'
    PROVE  /\ wake' \in [Queues -> 0..Never]
           /\ \A q \in Queues \ Q : wake'[q] = wake[q]
           /\ \A q \in Queues \cap Q : ~Subsumed(q)' =>
                \A t \in Offered(q)' : wake'[q] <= t.time
<1>1. \A q \in Queues : Offered(q)' \subseteq Task
  BY DEF Offered, Visible
<1>2. \A q \in Queues : HasPending(q)' =>
        /\ NextWakeTime(q)' \in 0..Never
        /\ \A t \in Offered(q)' : NextWakeTime(q)' <= t.time
  <2> SUFFICES ASSUME NEW q \in Queues, HasPending(q)'
               PROVE  /\ NextWakeTime(q)' \in 0..Never
                      /\ \A t \in Offered(q)' : NextWakeTime(q)' <= t.time
    OBVIOUS
  <2>1. Offered(q)' # {} /\ Offered(q)' \subseteq Task
    BY <1>1 DEF HasPending
  <2>2. /\ Earliest(Offered(q)') \in Offered(q)'
        /\ \A t \in Offered(q)' : Earliest(Offered(q)').time <= t.time
    BY <2>1, EarliestIsFirst
  <2>3. NextWakeTime(q)' = Earliest(Offered(q)').time
    BY DEF NextWakeTime, PeekNext
  <2> QED BY <2>1, <2>2, <2>3 DEF Task, Never
<1>3. \A q \in Queues :
        wake'[q] = IF q \in Q /\ HasPending(q)' THEN NextWakeTime(q)' ELSE wake[q]
  BY DEF WakeIfPending
<1>4. wake' \in [Queues -> 0..Never]
  BY <1>2 DEF WakeIfPending
<1> QED BY <1>2, <1>3, <1>4 DEF HasPending


LEMMA ShapeInit == Init => Shape
  BY DEF Init, Shape, Never, Running, NoTask

\* Posting a task keeps the shape.
LEMMA ShapeRegister ==
    ASSUME Shape, NEW q \in Queues, NEW time \in 0..MaxTime,
           NEW grade \in {"primary", "dart"}, NEW frame \in BOOLEAN,
           RegisterTask(q, time, grade, frame)
    PROVE  /\ order' \in Nat
           /\ tasks' \in [Queues -> SUBSET Task]
           /\ wake' \in [Queues -> 0..Never]
           /\ UNCHANGED <<paused, mergeVars>>
<1> DEFINE t == [order |-> order, time |-> time, grade |-> grade, frame |-> frame]
<1>1. t \in Task
  BY DEF Shape, Task
<1> HIDE DEF t
<1>2. tasks' = [tasks EXCEPT ![q] = @ \cup {t}]
  BY DEF RegisterTask, t
<1>3. tasks' \in [Queues -> SUBSET Task]
  BY <1>1, <1>2 DEF Shape
<1>4. UNCHANGED <<paused, mergeVars>>
  BY DEF RegisterTask
<1>5. wake' \in [Queues -> 0..Never]
  BY <1>3, <1>4, WakeUp DEF RegisterTask, Shape, mergeVars
<1> QED BY <1>3, <1>4, <1>5 DEF RegisterTask, Shape

\* What the loop of q takes: the earliest task, from its own queue or one it owns.
LEMMA Taken ==
    ASSUME Shape, NEW q \in Queues, HasPending(q)
    PROVE  /\ PeekNext(q) \in Task
           /\ NextWakeTime(q) \in 0..MaxTime
           /\ \A t \in Offered(q) : NextWakeTime(q) <= t.time
<1>1. Offered(q) \subseteq Task /\ Offered(q) # {}
  BY OfferedTasks DEF HasPending
<1>2. /\ PeekNext(q) \in Offered(q)
      /\ \A t \in Offered(q) : PeekNext(q).time <= t.time
  BY <1>1, EarliestIsFirst DEF PeekNext
<1> QED BY <1>1, <1>2 DEF NextWakeTime, Task

LEMMA ShapeStep == Shape /\ [Next]_vars => Shape'
<1> SUFFICES ASSUME Shape, [Next]_vars PROVE Shape'
  OBVIOUS
<1>1. ASSUME NEW q \in Queues, PostTask(q) PROVE Shape'
  <2>1. PICK time \in now..MaxTime, grade \in {"primary", "dart"} :
           RegisterTask(q, time, grade, FALSE)
    BY <1>1 DEF PostTask
  <2>2. time \in 0..MaxTime
    BY DEF Shape
  <2>3. /\ order' \in Nat
        /\ tasks' \in [Queues -> SUBSET Task]
        /\ wake' \in [Queues -> 0..Never]
        /\ UNCHANGED <<paused, mergeVars>>
    BY <2>1, <2>2, ShapeRegister
  <2> QED BY <1>1, <2>3 DEF PostTask, Shape, mergeVars, loopVars
<1>2. ASSUME NEW q \in Queues, FireCallback(q) PROVE Shape'
  BY <1>2 DEF FireCallback, PauseSecondary, Shape, mergeVars, loopVars
<1>3. ASSUME NEW q \in Queues, PostFrame(q) PROVE Shape'
  <2>1. /\ order' \in Nat
        /\ tasks' \in [Queues -> SUBSET Task]
        /\ wake' \in [Queues -> 0..Never]
        /\ UNCHANGED <<paused, mergeVars>>
    BY <1>3, ShapeRegister DEF PostFrame, Shape
  <2> QED BY <1>3, <2>1 DEF PostFrame, Shape, mergeVars, loopVars
<1>4. ASSUME NEW q \in Queues, OnEventFired(q) PROVE Shape'
  BY <1>4 DEF OnEventFired, Shape, mergeVars, Never
<1>5. ASSUME NEW q \in Queues, GetNextTaskToRun(q) PROVE Shape'
  <2> USE <1>5 DEF GetNextTaskToRun
  <2>1. CASE NothingToRun(q)
    BY <2>1 DEF NothingToRun, Shape, mergeVars
  <2>2. CASE NotYetDue(q)
    BY <2>2, Taken DEF NotYetDue, Shape, mergeVars, Never
  <2>3. CASE TakeTask(q)
    <3>1. PICK s \in {q} \cup ownerOf[q] :
             /\ tasks' = [tasks EXCEPT ![s] = @ \ {PeekNext(q)}]
             /\ running' = [running EXCEPT ![q] =
                               [queue |-> s, task |-> PeekNext(q)]]
      BY <2>3 DEF TakeTask
    <3>2. s \in Queues
      BY <3>1 DEF Shape
    <3>3. PeekNext(q) \in Task /\ NextWakeTime(q) \in 0..MaxTime
      BY <2>3, Taken DEF TakeTask
    <3> DEFINE r == [queue |-> s, task |-> PeekNext(q)]
    <3>4. r \in Running /\ r # NoTask
      BY <3>2, <3>3 DEF Running, NoTask
    <3> HIDE DEF r
    <3>5. running' = [running EXCEPT ![q] = r]
      BY <3>1 DEF r
    <3>6. tasks' \in [Queues -> SUBSET Task]
      BY <3>1, <3>2 DEF Shape
    <3>7. /\ running' \in [Queues -> Running]
          /\ loop' \in [Queues -> {"idle", "flush", "run"}]
          /\ \A p \in Queues : loop'[p] = "run" <=> running'[p] # NoTask
      BY <2>3, <3>4, <3>5 DEF TakeTask, Shape
    <3>8. wake' \in [Queues -> 0..Never]
      BY <2>3, <3>3 DEF TakeTask, Shape, Never
    <3> QED BY <3>6, <3>7, <3>8 DEF Shape, mergeVars
  <2> QED BY <2>1, <2>2, <2>3
<1>6. ASSUME NEW q \in Queues, TaskReturns(q) PROVE Shape'
  <2>1. running[q] \in [queue : Queues, task : Task]
    BY <1>6 DEF TaskReturns, Shape, Running
  <2>2. /\ tasks' = tasks /\ UNCHANGED mergeVars
        /\ paused' \in [Queues -> Int]
        /\ wake' \in [Queues -> 0..Never]
    <3>1. CASE running[q].task.frame
      <4>1. ResumeSecondary(running[q].queue)
        BY <1>6, <3>1 DEF TaskReturns
      <4>2. tasks' = tasks /\ UNCHANGED mergeVars /\ paused' \in [Queues -> Int]
        BY <2>1, <4>1 DEF ResumeSecondary, Shape
      <4>3. wake' \in [Queues -> 0..Never]
        BY <4>1, <4>2, WakeUp DEF ResumeSecondary, Shape, mergeVars
      <4> QED BY <4>2, <4>3
    <3>2. CASE ~running[q].task.frame
      BY <1>6, <3>2 DEF TaskReturns, Shape
    <3> QED BY <3>1, <3>2
  <2>3. NoTask \in Running
    BY DEF Running
  <2> QED BY <1>6, <2>2, <2>3 DEF TaskReturns, Shape, mergeVars
<1>7. ASSUME NEW o \in Queues, NEW s \in Queues, Merge(o, s) PROVE Shape'
  <2>1. /\ ownerOf' \in [Queues -> SUBSET Queues]
        /\ subsumedBy' \in [Queues -> Queues \cup {kUnmerged}]
        /\ UNCHANGED <<now, order, tasks, paused, loopVars, vsync>>
    BY <1>7 DEF Merge, Shape
  <2>2. wake' \in [Queues -> 0..Never]
    BY <1>7, <2>1, WakeUp DEF Merge, Shape
  <2> QED BY <2>1, <2>2 DEF Shape, loopVars
<1>8. ASSUME NEW o \in Queues, NEW s \in Queues, Unmerge(o, s) PROVE Shape'
  <2>1. /\ ownerOf' \in [Queues -> SUBSET Queues]
        /\ subsumedBy' \in [Queues -> Queues \cup {kUnmerged}]
        /\ UNCHANGED <<now, order, tasks, paused, loopVars, vsync>>
    BY <1>8 DEF Unmerge, Shape
  <2>2. wake' \in [Queues -> 0..Never]
    BY <1>8, <2>1, WakeUp DEF Unmerge, Shape
  <2> QED BY <2>1, <2>2 DEF Shape, loopVars
<1>9. CASE Tick
  BY <1>9 DEF Tick, Shape, mergeVars, loopVars
<1>10. CASE UNCHANGED vars
  BY <1>10 DEF vars, Shape, mergeVars, loopVars
<1> QED
  BY <1>1, <1>2, <1>3, <1>4, <1>5, <1>6, <1>7, <1>8, <1>9, <1>10 DEF Next

-----------------------------------------------------------------------------
(* Who owns whom.                                                            *)

\* A merge leaves the two sides agreeing: neither queue was in a merge.
LEMMA MergeKeepsMergeState ==
    ASSUME Shape, MergeState, NEW o \in Queues, NEW s \in Queues, Merge(o, s)
    PROVE  MergeState'
<1>1. o # s /\ subsumedBy[o] = kUnmerged /\ subsumedBy[s] = kUnmerged /\ ownerOf[s] = {}
  BY DEF Merge, CanMerge, Subsumed
<1>2. /\ \A q \in Queues : ownerOf'[q] = IF q = o THEN ownerOf[o] \cup {s} ELSE ownerOf[q]
      /\ \A q \in Queues : subsumedBy'[q] = IF q = s THEN o ELSE subsumedBy[q]
  BY DEF Merge, Shape
<1>3. \A q, r \in Queues : r \in ownerOf'[q] <=> subsumedBy'[r] = q
  BY <1>1, <1>2 DEF MergeState, Shape
<1>4. \A q \in Queues : ownerOf'[q] # {} => subsumedBy'[q] = kUnmerged
  BY <1>1, <1>2 DEF MergeState, Subsumed
<1> QED BY <1>3, <1>4 DEF MergeState, Subsumed

LEMMA UnmergeKeepsMergeState ==
    ASSUME Shape, MergeState, NEW o \in Queues, NEW s \in Queues, Unmerge(o, s)
    PROVE  MergeState'
<1>1. s \in ownerOf[o] /\ subsumedBy[s] = o /\ subsumedBy[o] = kUnmerged
  BY DEF Unmerge, CanUnmerge, MergeState, Subsumed
<1>2. /\ \A q \in Queues : ownerOf'[q] = IF q = o THEN ownerOf[o] \ {s} ELSE ownerOf[q]
      /\ \A q \in Queues : subsumedBy'[q] = IF q = s THEN kUnmerged ELSE subsumedBy[q]
  BY DEF Unmerge, Shape
<1>3. \A q, r \in Queues : r \in ownerOf'[q] <=> subsumedBy'[r] = q
  BY <1>1, <1>2 DEF MergeState, Shape
<1>4. \A q \in Queues : ownerOf'[q] # {} => subsumedBy'[q] = kUnmerged
  BY <1>1, <1>2 DEF MergeState, Subsumed
<1> QED BY <1>3, <1>4 DEF MergeState, Subsumed

LEMMA MergeStateStep == Shape /\ MergeState /\ [Next]_vars => MergeState'
<1> SUFFICES ASSUME Shape, MergeState, [Next]_vars PROVE MergeState'
  OBVIOUS
<1>1. ASSUME UNCHANGED mergeVars PROVE MergeState'
  BY <1>1 DEF mergeVars, MergeState, Subsumed
<1>2. ASSUME NEW q \in Queues,
             PostTask(q) \/ FireCallback(q) \/ PostFrame(q)
               \/ OnEventFired(q) \/ GetNextTaskToRun(q) \/ TaskReturns(q)
      PROVE  UNCHANGED mergeVars
  BY <1>2 DEF PostTask, RegisterTask, FireCallback, PostFrame, OnEventFired,
              GetNextTaskToRun, TaskReturns, ResumeSecondary
<1>3. ASSUME NEW o \in Queues, NEW s \in Queues, Merge(o, s) \/ Unmerge(o, s)
      PROVE  MergeState'
  BY <1>3, MergeKeepsMergeState, UnmergeKeepsMergeState
<1>4. CASE Tick
  BY <1>1, <1>4 DEF Tick
<1>5. CASE UNCHANGED vars
  BY <1>1, <1>5 DEF vars
<1> QED BY <1>1, <1>2, <1>3, <1>4, <1>5 DEF Next

(* Owners and subsumed queues: whatever threads merge and unmerge, a queue   *)
(* is an owner, subsumed or independent, and each merge has two sides that   *)
(* agree (MessageLoopTaskQueues::Merge and Unmerge).                         *)
THEOREM MergeStateHolds == Spec => []MergeState
<1>1. Init => Shape /\ MergeState
  <2>1. Init => MergeState
    BY DEF Init, MergeState, Subsumed
  <2> QED BY <2>1, ShapeInit
<1>2. (Shape /\ MergeState) /\ [Next]_vars => (Shape /\ MergeState)'
  BY ShapeStep, MergeStateStep
<1> QED BY <1>1, <1>2, PTL DEF Spec

-----------------------------------------------------------------------------
(* Pauses.                                                                   *)

Frames(s)     == {t \in tasks[s] : t.frame}
FrameLoops(s) == {q \in Queues : RunsFrame(q) /\ running[q].queue = s}
InVsync(s)    == IF vsync[s] THEN 1 ELSE 0

\* A queue holds finitely many tasks, each posted before the next one will be.
Fresh ==
  \A s \in Queues : IsFiniteSet(tasks[s]) /\ \A t \in tasks[s] : t.order < order

LEMMA PausesByFrames ==
  PausesAreFrames <=>
    \A s \in Queues :
      paused[s] = InVsync(s) + Cardinality(Frames(s)) + Cardinality(FrameLoops(s))
  BY DEF PausesAreFrames, InVsync, Frames, FrameLoops

LEMMA FramesFinite ==
    ASSUME Fresh, NEW s \in Queues
    PROVE  /\ IsFiniteSet(Frames(s)) /\ Cardinality(Frames(s)) \in Nat
           /\ IsFiniteSet(FrameLoops(s)) /\ Cardinality(FrameLoops(s)) \in Nat
<1>1. Frames(s) \subseteq tasks[s] /\ FrameLoops(s) \subseteq Queues
  BY DEF Frames, FrameLoops
<1>2. IsFiniteSet(Frames(s)) /\ IsFiniteSet(FrameLoops(s))
  BY <1>1, FS_Subset, QueuesAreFinite DEF Fresh
<1> QED BY <1>2, FS_CardinalityType

LEMMA PausesAreNatural ==
    ASSUME Shape, Fresh, PausesAreFrames
    PROVE  paused \in [Queues -> Nat]
<1>1. \A s \in Queues : paused[s] \in Nat
  BY PausesByFrames, FramesFinite DEF InVsync
<1> QED BY <1>1 DEF Shape

LEMMA FreshStep == Shape /\ Fresh /\ [Next]_vars => Fresh'
<1> SUFFICES ASSUME Shape, Fresh, [Next]_vars PROVE Fresh'
  OBVIOUS
<1>1. ASSUME UNCHANGED <<order, tasks>> PROVE Fresh'
  BY <1>1 DEF Fresh
<1>2. ASSUME NEW q \in Queues, NEW time, NEW grade, NEW frame,
             RegisterTask(q, time, grade, frame)
      PROVE  Fresh'
  <2> DEFINE t == [order |-> order, time |-> time, grade |-> grade, frame |-> frame]
  <2>1. t.order = order
    OBVIOUS
  <2> HIDE DEF t
  <2>2. \A s \in Queues : tasks'[s] = IF s = q THEN tasks[q] \cup {t} ELSE tasks[s]
    BY <1>2 DEF RegisterTask, Shape, t
  <2>3. order' = order + 1 /\ order \in Nat
    BY <1>2 DEF RegisterTask, Shape
  <2>4. \A s \in Queues : IsFiniteSet(tasks'[s])
    <3>1. \A s \in Queues : IsFiniteSet(tasks[s])
      BY DEF Fresh
    <3>2. IsFiniteSet(tasks[q] \cup {t})
      BY <3>1, FS_AddElement
    <3> QED BY <2>2, <3>1, <3>2
  <2>5. \A s \in Queues : \A u \in tasks[s] : u.order \in Nat /\ u.order < order
    BY DEF Fresh, Shape, Task
  <2> QED BY <2>1, <2>2, <2>3, <2>4, <2>5 DEF Fresh
<1>3. ASSUME NEW q \in Queues, PostTask(q) \/ PostFrame(q) PROVE Fresh'
  BY <1>2, <1>3 DEF PostTask, PostFrame
<1>4. ASSUME NEW q \in Queues, FireCallback(q) \/ OnEventFired(q) \/ TaskReturns(q)
      PROVE  Fresh'
  BY <1>1, <1>4 DEF FireCallback, OnEventFired, TaskReturns, ResumeSecondary
<1>5. ASSUME NEW q \in Queues, GetNextTaskToRun(q) PROVE Fresh'
  <2>1. CASE TakeTask(q)
    <3>1. PICK s \in {q} \cup ownerOf[q] :
            tasks' = [tasks EXCEPT ![s] = @ \ {PeekNext(q)}]
      BY <2>1 DEF TakeTask
    <3>2. \A r \in Queues : tasks'[r] \subseteq tasks[r]
      BY <3>1 DEF Shape
    <3>3. order' = order
      BY <1>5 DEF GetNextTaskToRun
    <3>4. \A r \in Queues : IsFiniteSet(tasks'[r])
      BY <3>2, FS_Subset DEF Fresh
    <3> QED BY <3>2, <3>3, <3>4 DEF Fresh
  <2> QED BY <1>1, <1>5, <2>1 DEF GetNextTaskToRun, NothingToRun, NotYetDue
<1>6. ASSUME NEW o \in Queues, NEW s \in Queues, Merge(o, s) \/ Unmerge(o, s)
      PROVE  Fresh'
  BY <1>1, <1>6 DEF Merge, Unmerge
<1>7. CASE Tick
  BY <1>1, <1>7 DEF Tick
<1>8. CASE UNCHANGED vars
  BY <1>1, <1>8 DEF vars
<1> QED BY <1>3, <1>4, <1>5, <1>6, <1>7, <1>8 DEF Next

LEMMA PausesAfterStep ==
  PausesAreFrames' <=>
    \A s \in Queues :
      paused'[s] = InVsync(s)' + Cardinality(Frames(s)') + Cardinality(FrameLoops(s)')
  BY DEF PausesAreFrames, InVsync, Frames, FrameLoops

\* A step that moves no frame and no pause keeps the account.
LEMMA NoFrameMoves ==
    ASSUME PausesAreFrames, paused' = paused, vsync' = vsync,
           \A s \in Queues : Frames(s)' = Frames(s) /\ FrameLoops(s)' = FrameLoops(s)
    PROVE  PausesAreFrames'
<1>1. \A s \in Queues :
        paused'[s] = InVsync(s)' + Cardinality(Frames(s)') + Cardinality(FrameLoops(s)')
  BY PausesByFrames DEF InVsync
<1> QED BY <1>1, PausesAfterStep

\* The frame a vsync posts takes over its pause.
LEMMA PausesPostFrame ==
    ASSUME Shape, Fresh, PausesAreFrames, NEW q \in Queues, PostFrame(q)
    PROVE  PausesAreFrames'
<1> DEFINE t == [order |-> order, time |-> now, grade |-> "primary", frame |-> TRUE]
<1>1. t.frame /\ t.order = order
  OBVIOUS
<1>2. tasks' = [tasks EXCEPT ![q] = @ \cup {t}] /\ paused' = paused
  BY DEF PostFrame, RegisterTask
<1> HIDE DEF t
<1>3. t \notin Frames(q)
  BY <1>1 DEF Fresh, Frames, Shape, Task
<1>4. /\ Frames(q)' = Frames(q) \cup {t}
      /\ \A s \in Queues \ {q} : Frames(s)' = Frames(s)
  BY <1>1, <1>2 DEF Frames, Shape
<1>5. Cardinality(Frames(q)') = Cardinality(Frames(q)) + 1
  BY <1>3, <1>4, FramesFinite, FS_AddElement
<1>6. \A s \in Queues : FrameLoops(s)' = FrameLoops(s)
  BY DEF PostFrame, FrameLoops, RunsFrame, loopVars
<1>7. /\ InVsync(q) = 1 /\ InVsync(q)' = 0
      /\ \A s \in Queues \ {q} : InVsync(s)' = InVsync(s)
  BY DEF PostFrame, InVsync, Shape
<1>8. \A s \in Queues : Cardinality(Frames(s)) \in Nat /\ Cardinality(FrameLoops(s)) \in Nat
  BY FramesFinite
<1>9. paused'[q] = InVsync(q)' + Cardinality(Frames(q)') + Cardinality(FrameLoops(q)')
  <2>1. paused[q] = InVsync(q) + Cardinality(Frames(q)) + Cardinality(FrameLoops(q))
    BY PausesByFrames
  <2>2. Cardinality(FrameLoops(q)') = Cardinality(FrameLoops(q))
    BY <1>6
  <2> QED BY <1>2, <1>5, <1>7, <1>8, <2>1, <2>2
<1>10. \A s \in Queues \ {q} :
         paused'[s] = InVsync(s)' + Cardinality(Frames(s)') + Cardinality(FrameLoops(s)')
  BY <1>2, <1>4, <1>6, <1>7, PausesByFrames
<1> QED BY <1>9, <1>10, PausesAfterStep

\* A loop that takes a frame carries its pause; any other task carries none.
LEMMA PausesTakeTask ==
    ASSUME Shape, Fresh, PausesAreFrames, NEW q \in Queues,
           GetNextTaskToRun(q), TakeTask(q)
    PROVE  PausesAreFrames'
<1> DEFINE t == PeekNext(q)
<1>1. PICK s \in {q} \cup ownerOf[q] :
        /\ t \in Visible(s)
        /\ tasks' = [tasks EXCEPT ![s] = @ \ {t}]
        /\ running' = [running EXCEPT ![q] = [queue |-> s, task |-> t]]
  BY DEF TakeTask
<1> DEFINE r == [queue |-> s, task |-> t]
<1>2. r.queue = s /\ r.task = t
  OBVIOUS
<1>3. /\ s \in Queues /\ t \in tasks[s] /\ loop[q] = "flush"
      /\ paused' = paused /\ vsync' = vsync
      /\ loop' = [loop EXCEPT ![q] = "run"]
      /\ running' = [running EXCEPT ![q] = r]
  BY <1>1 DEF Shape, Visible, GetNextTaskToRun, TakeTask
<1> HIDE DEF t, r
<1>4. /\ Frames(s)' = Frames(s) \ {t}
      /\ \A p \in Queues \ {s} : Frames(p)' = Frames(p)
  BY <1>1, <1>3 DEF Frames, Shape
<1>5. \A p \in Queues : FrameLoops(p)' =
         IF p = s /\ t.frame THEN FrameLoops(p) \cup {q} ELSE FrameLoops(p)
  <2> SUFFICES ASSUME NEW p \in Queues
               PROVE  FrameLoops(p)' =
                        IF p = s /\ t.frame THEN FrameLoops(p) \cup {q} ELSE FrameLoops(p)
    OBVIOUS
  <2>1. \A l \in Queues \ {q} : l \in FrameLoops(p)' <=> l \in FrameLoops(p)
    BY <1>3 DEF FrameLoops, RunsFrame, Shape
  <2>2. q \notin FrameLoops(p)
    BY <1>3 DEF FrameLoops, RunsFrame
  <2>3. q \in FrameLoops(p)' <=> p = s /\ t.frame
    BY <1>2, <1>3 DEF FrameLoops, RunsFrame, Shape
  <2>4. FrameLoops(p) \subseteq Queues /\ FrameLoops(p)' \subseteq Queues
    BY DEF FrameLoops
  <2> QED BY <2>1, <2>2, <2>3, <2>4
<1>6. CASE ~t.frame
  <2>1. Frames(s)' = Frames(s)
    BY <1>4, <1>6 DEF Frames
  <2> QED BY <1>3, <1>4, <1>5, <1>6, <2>1, NoFrameMoves
<1>7. CASE t.frame
  <2>1. Cardinality(Frames(s)') = Cardinality(Frames(s)) - 1
    <3>1. t \in Frames(s)
      BY <1>3, <1>7 DEF Frames
    <3> QED BY <1>3, <1>4, <3>1, FramesFinite, FS_RemoveElement
  <2>2. Cardinality(FrameLoops(s)') = Cardinality(FrameLoops(s)) + 1
    <3>1. q \notin FrameLoops(s)
      BY <1>3 DEF FrameLoops, RunsFrame
    <3> QED BY <1>3, <1>5, <1>7, <3>1, FramesFinite, FS_AddElement
  <2>3. \A p \in Queues : InVsync(p)' = InVsync(p) /\ InVsync(p) \in Nat
    BY <1>3 DEF InVsync
  <2>4. paused'[s] = InVsync(s)' + Cardinality(Frames(s)') + Cardinality(FrameLoops(s)')
    <3>1. paused[s] = InVsync(s) + Cardinality(Frames(s)) + Cardinality(FrameLoops(s))
      BY <1>3, PausesByFrames
    <3>2. Cardinality(Frames(s)) \in Nat /\ Cardinality(FrameLoops(s)) \in Nat
      BY <1>3, FramesFinite
    <3>3. InVsync(s)' = InVsync(s) /\ InVsync(s) \in Nat
      BY <1>3, <2>3
    <3> QED BY <1>3, <2>1, <2>2, <3>1, <3>2, <3>3
  <2>5. \A p \in Queues \ {s} :
          paused'[p] = InVsync(p)' + Cardinality(Frames(p)') + Cardinality(FrameLoops(p)')
    BY <1>3, <1>4, <1>5, <2>3, PausesByFrames
  <2> QED BY <2>4, <2>5, PausesAfterStep
<1> QED BY <1>6, <1>7

\* A frame that returns ends its pause.
LEMMA PausesTaskReturns ==
    ASSUME Shape, Fresh, PausesAreFrames, NEW q \in Queues, TaskReturns(q)
    PROVE  PausesAreFrames'
<1>1. loop[q] = "run" /\ running[q] \in [queue : Queues, task : Task]
  BY DEF TaskReturns, Shape, Running
<1> PICK s \in Queues : s = running[q].queue
  BY <1>1
<1>2. /\ loop' = [loop EXCEPT ![q] = "flush"]
      /\ running' = [running EXCEPT ![q] = NoTask]
      /\ vsync' = vsync /\ tasks' = tasks
  BY DEF TaskReturns, ResumeSecondary
<1>3. \A p \in Queues : Frames(p)' = Frames(p)
  BY <1>2 DEF Frames
<1>4. \A p \in Queues : FrameLoops(p)' = FrameLoops(p) \ {q}
  <2> SUFFICES ASSUME NEW p \in Queues PROVE FrameLoops(p)' = FrameLoops(p) \ {q}
    OBVIOUS
  <2>1. \A l \in Queues \ {q} : l \in FrameLoops(p)' <=> l \in FrameLoops(p)
    BY <1>2 DEF FrameLoops, RunsFrame, Shape
  <2>2. q \notin FrameLoops(p)'
    BY <1>2 DEF FrameLoops, RunsFrame, Shape
  <2>3. FrameLoops(p) \subseteq Queues /\ FrameLoops(p)' \subseteq Queues
    BY DEF FrameLoops
  <2> QED BY <2>1, <2>2, <2>3
<1>5. CASE ~running[q].task.frame
  <2>1. \A p \in Queues : FrameLoops(p)' = FrameLoops(p)
    BY <1>4, <1>5 DEF FrameLoops, RunsFrame
  <2> QED BY <1>2, <1>3, <1>5, <2>1, NoFrameMoves DEF TaskReturns
<1>6. CASE running[q].task.frame
  <2>1. s = running[q].queue /\ paused' = [paused EXCEPT ![s] = @ - 1]
    BY <1>1, <1>6 DEF TaskReturns, ResumeSecondary
  <2>2. Cardinality(FrameLoops(s)') = Cardinality(FrameLoops(s)) - 1
    <3>1. q \in FrameLoops(s)
      BY <1>1, <1>6 DEF FrameLoops, RunsFrame
    <3> QED BY <1>4, <2>1, <3>1, FramesFinite, FS_RemoveElement
  <2>3. \A p \in Queues \ {s} : FrameLoops(p)' = FrameLoops(p)
    BY <1>4 DEF FrameLoops
  <2>4. \A p \in Queues : InVsync(p)' = InVsync(p)
    BY <1>2 DEF InVsync
  <2>5. paused'[s] = InVsync(s)' + Cardinality(Frames(s)') + Cardinality(FrameLoops(s)')
    <3>1. paused[s] = InVsync(s) + Cardinality(Frames(s)) + Cardinality(FrameLoops(s))
      BY <2>1, PausesByFrames
    <3>2. Cardinality(Frames(s)) \in Nat /\ Cardinality(FrameLoops(s)) \in Nat
      BY <2>1, FramesFinite
    <3>3. InVsync(s) \in Nat /\ InVsync(s)' = InVsync(s)
      BY <2>1, <2>4 DEF InVsync
    <3>4. paused'[s] = paused[s] - 1
      BY <2>1 DEF Shape
    <3>5. Cardinality(Frames(s)') = Cardinality(Frames(s))
      BY <1>3, <2>1
    <3> QED BY <2>2, <3>1, <3>2, <3>3, <3>4, <3>5
  <2>6. \A p \in Queues \ {s} :
          paused'[p] = InVsync(p)' + Cardinality(Frames(p)') + Cardinality(FrameLoops(p)')
    BY <1>3, <2>1, <2>3, <2>4, PausesByFrames DEF Shape
  <2> QED BY <2>5, <2>6, PausesAfterStep
<1> QED BY <1>5, <1>6

LEMMA PausesStep == Shape /\ Fresh /\ PausesAreFrames /\ [Next]_vars => PausesAreFrames'
<1> SUFFICES ASSUME Shape, Fresh, PausesAreFrames, [Next]_vars PROVE PausesAreFrames'
  OBVIOUS
<1>1. ASSUME UNCHANGED <<tasks, paused, loop, running, vsync>> PROVE PausesAreFrames'
  BY <1>1, NoFrameMoves DEF Frames, FrameLoops, RunsFrame
<1>2. ASSUME NEW q \in Queues, PostTask(q) PROVE PausesAreFrames'
  <2>1. PICK time \in now..MaxTime, grade \in {"primary", "dart"} :
          RegisterTask(q, time, grade, FALSE)
    BY <1>2 DEF PostTask
  <2> DEFINE t == [order |-> order, time |-> time, grade |-> grade, frame |-> FALSE]
  <2>2. ~t.frame
    OBVIOUS
  <2>3. /\ tasks' = [tasks EXCEPT ![q] = @ \cup {t}] /\ paused' = paused
        /\ UNCHANGED <<loop, running, vsync>>
    BY <1>2, <2>1 DEF RegisterTask, PostTask, loopVars
  <2> HIDE DEF t
  <2>4. \A s \in Queues : Frames(s)' = Frames(s)
    BY <2>2, <2>3 DEF Frames, Shape
  <2>5. \A s \in Queues : FrameLoops(s)' = FrameLoops(s)
    BY <2>3 DEF FrameLoops, RunsFrame
  <2> QED BY <2>3, <2>4, <2>5, NoFrameMoves
<1>3. ASSUME NEW q \in Queues, FireCallback(q) PROVE PausesAreFrames'
  <2>1. \A s \in Queues : Frames(s)' = Frames(s) /\ FrameLoops(s)' = FrameLoops(s)
    BY <1>3 DEF FireCallback, Frames, FrameLoops, RunsFrame, loopVars
  <2>2. \A s \in Queues : paused'[s] - InVsync(s)' = paused[s] - InVsync(s)
    BY <1>3 DEF FireCallback, PauseSecondary, InVsync, Shape
  <2>3. \A s \in Queues : Cardinality(Frames(s)) \in Nat /\ Cardinality(FrameLoops(s)) \in Nat
    BY FramesFinite
  <2>4. \A s \in Queues : paused[s] \in Int /\ paused'[s] \in Int
    BY <1>3 DEF FireCallback, PauseSecondary, Shape
  <2>5. \A s \in Queues : InVsync(s) \in Int /\ InVsync(s)' \in Int
    BY DEF InVsync
  <2>6. \A s \in Queues :
          paused'[s] = InVsync(s)' + Cardinality(Frames(s)') + Cardinality(FrameLoops(s)')
    BY <2>1, <2>2, <2>3, <2>4, <2>5, PausesByFrames
  <2> QED BY <2>6, PausesAfterStep
<1>4. ASSUME NEW q \in Queues, PostFrame(q) PROVE PausesAreFrames'
  BY <1>4, PausesPostFrame
<1>5. ASSUME NEW q \in Queues, OnEventFired(q) PROVE PausesAreFrames'
  <2>1. \A s \in Queues : FrameLoops(s)' = FrameLoops(s)
    BY <1>5 DEF OnEventFired, FrameLoops, RunsFrame, Shape
  <2> QED BY <1>5, <2>1, NoFrameMoves DEF OnEventFired, Frames
<1>6. ASSUME NEW q \in Queues, GetNextTaskToRun(q) PROVE PausesAreFrames'
  <2>1. CASE NothingToRun(q) \/ NotYetDue(q)
    <3>1. \A s \in Queues : FrameLoops(s)' = FrameLoops(s)
      BY <1>6, <2>1
      DEF GetNextTaskToRun, NothingToRun, NotYetDue, FrameLoops, RunsFrame, Shape
    <3> QED
      BY <1>6, <2>1, <3>1, NoFrameMoves DEF GetNextTaskToRun, NothingToRun, NotYetDue, Frames
  <2>2. CASE TakeTask(q)
    BY <1>6, <2>2, PausesTakeTask
  <2> QED BY <1>6, <2>1, <2>2 DEF GetNextTaskToRun
<1>7. ASSUME NEW q \in Queues, TaskReturns(q) PROVE PausesAreFrames'
  BY <1>7, PausesTaskReturns
<1>8. ASSUME NEW o \in Queues, NEW s \in Queues, Merge(o, s) \/ Unmerge(o, s)
      PROVE  PausesAreFrames'
  BY <1>1, <1>8 DEF Merge, Unmerge, loopVars
<1>9. CASE Tick
  BY <1>1, <1>9 DEF Tick, loopVars
<1>10. CASE UNCHANGED vars
  BY <1>1, <1>10 DEF vars, loopVars
<1> QED BY <1>2, <1>3, <1>4, <1>5, <1>6, <1>7, <1>8, <1>9, <1>10 DEF Next

-----------------------------------------------------------------------------
(* The pauses of a queue are the frames it has yet to finish, and so         *)
(* TaskSource's secondary_pause_requests_ never drops below zero.            *)

PauseInv == Shape /\ Fresh /\ PausesAreFrames

LEMMA PauseInvInit == Init => PauseInv
<1> SUFFICES ASSUME Init PROVE Shape /\ Fresh /\ PausesAreFrames
  BY DEF PauseInv
<1>1. \A s \in Queues : Frames(s) = {} /\ FrameLoops(s) = {} /\ InVsync(s) = 0
  BY DEF Init, Frames, FrameLoops, RunsFrame, InVsync
<1>2. Cardinality({}) = 0 /\ IsFiniteSet({})
  BY FS_EmptySet
<1>3. \A s \in Queues : paused[s] = 0 /\ tasks[s] = {}
  BY DEF Init
<1>4. \A s \in Queues : Cardinality(Frames(s)) = 0 /\ Cardinality(FrameLoops(s)) = 0
  BY <1>1, <1>2
<1>5. PausesAreFrames
  BY <1>1, <1>3, <1>4, PausesByFrames
<1>6. Fresh
  BY <1>2, <1>3 DEF Fresh
<1> QED BY <1>5, <1>6, ShapeInit

LEMMA PauseInvStep == PauseInv /\ [Next]_vars => PauseInv'
  BY ShapeStep, FreshStep, PausesStep DEF PauseInv

LEMMA PauseInvHolds == Spec => []PauseInv
  BY PauseInvInit, PauseInvStep, PTL DEF Spec

(* Types, the pause count a natural number among them.                       *)
THEOREM TypeCorrect == Spec => []TypeOK
<1>1. PauseInv => TypeOK
  BY PausesAreNatural DEF PauseInv, Shape, TypeOK
<1> QED BY <1>1, PauseInvHolds, PTL

(* Every pause of the Dart tasks is accounted for by one vsync callback or   *)
(* one frame of that queue, waiting or running, wherever the queue is        *)
(* served (VsyncWaiter::FireCallback).                                       *)
THEOREM PausesAreFramesHolds == Spec => []PausesAreFrames
<1>1. PauseInv => PausesAreFrames
  BY DEF PauseInv
<1> QED BY <1>1, PauseInvHolds, PTL

-----------------------------------------------------------------------------
(* Wake-ups, when queues are merged from the threads the engine uses.        *)

\* A frame runs on its own queue's loop, or on the loop of that queue's owner.
FrameAtHome ==
  \A q \in Queues :
    RunsFrame(q) => ~Subsumed(q) /\ running[q].queue \in {q} \cup ownerOf[q]

LEMMA FrameAtHomeStep ==
    ASSUME ~AnyThread, Shape, FrameAtHome, [Next]_vars
    PROVE  FrameAtHome'
<1>1. ASSUME UNCHANGED <<mergeVars, loop, running>> PROVE FrameAtHome'
  BY <1>1 DEF mergeVars, FrameAtHome, RunsFrame, Subsumed
<1>2. ASSUME NEW q \in Queues, PostTask(q) \/ FireCallback(q) \/ PostFrame(q)
      PROVE  FrameAtHome'
  BY <1>1, <1>2 DEF PostTask, FireCallback, PostFrame, RegisterTask, loopVars
<1>3. ASSUME NEW q \in Queues, OnEventFired(q) PROVE FrameAtHome'
  BY <1>3 DEF OnEventFired, mergeVars, FrameAtHome, RunsFrame, Subsumed, Shape
<1>4. ASSUME NEW q \in Queues, GetNextTaskToRun(q) PROVE FrameAtHome'
  <2>1. CASE NothingToRun(q) \/ NotYetDue(q)
    BY <1>4, <2>1 DEF GetNextTaskToRun, NothingToRun, NotYetDue, mergeVars,
                      FrameAtHome, RunsFrame, Subsumed, Shape
  <2>2. CASE TakeTask(q)
    <3>1. PICK s \in {q} \cup ownerOf[q] :
            running' = [running EXCEPT ![q] = [queue |-> s, task |-> PeekNext(q)]]
      BY <2>2 DEF TakeTask
    <3>2. running'[q].queue = s /\ \A p \in Queues \ {q} : running'[p] = running[p]
      BY <3>1 DEF Shape
    <3>3. ~Subsumed(q) /\ loop' = [loop EXCEPT ![q] = "run"]
      BY <2>2 DEF TakeTask, HasPending
    <3>4. UNCHANGED mergeVars
      BY <1>4 DEF GetNextTaskToRun
    <3> QED BY <3>2, <3>3, <3>4 DEF mergeVars, FrameAtHome, RunsFrame, Subsumed, Shape
  <2> QED BY <1>4, <2>1, <2>2 DEF GetNextTaskToRun
<1>5. ASSUME NEW q \in Queues, TaskReturns(q) PROVE FrameAtHome'
  BY <1>5 DEF TaskReturns, ResumeSecondary, mergeVars, FrameAtHome, RunsFrame, Subsumed, Shape
<1>6. ASSUME NEW o \in Queues, NEW s \in Queues, Merge(o, s) PROVE FrameAtHome'
  <2>1. ~RunsFrame(s) /\ UNCHANGED <<loop, running>>
    BY <1>6 DEF Merge, MergingThread, loopVars
  <2>2. /\ \A q \in Queues : ownerOf[q] \subseteq ownerOf'[q]
        /\ \A q \in Queues \ {s} : Subsumed(q)' = Subsumed(q)
    BY <1>6 DEF Merge, Subsumed, Shape
  <2> QED BY <2>1, <2>2 DEF FrameAtHome, RunsFrame
<1>7. ASSUME NEW o \in Queues, NEW s \in Queues, Unmerge(o, s) PROVE FrameAtHome'
  <2>1. ~RunsFrame(o) /\ Subsumed(s) /\ UNCHANGED <<loop, running>>
    BY <1>7 DEF Unmerge, UnmergingThread, CanUnmerge, loopVars
  <2>2. /\ \A q \in Queues \ {o} : ownerOf'[q] = ownerOf[q]
        /\ \A q \in Queues \ {s} : Subsumed(q)' = Subsumed(q)
    BY <1>7 DEF Unmerge, Subsumed, Shape
  <2> QED BY <2>1, <2>2 DEF FrameAtHome, RunsFrame
<1>8. CASE Tick
  BY <1>1, <1>8 DEF Tick, loopVars
<1>9. CASE UNCHANGED vars
  BY <1>1, <1>9 DEF vars, loopVars
<1> QED BY <1>2, <1>3, <1>4, <1>5, <1>6, <1>7, <1>8, <1>9 DEF Next

\* What NoLostWakeup says of one loop.
Awake(q) ==
  loop[q] = "idle" /\ ~Subsumed(q) => \A t \in Offered(q) : wake[q] <= t.time

\* A loop nobody touches sleeps on safely if nothing more is offered to it.
LEMMA SleepsOn ==
    ASSUME NEW q \in Queues, Awake(q),
           loop'[q] = "idle" => loop[q] = "idle",
           Subsumed(q) => Subsumed(q)',
           wake'[q] = wake[q],
           Offered(q)' \subseteq Offered(q)
    PROVE  Awake(q)'
  BY DEF Awake

\* A task posted to s wakes the only loop that could run it.
LEMMA RegisterWakes ==
    ASSUME Shape, MergeState, NoLostWakeup, NEW s \in Queues,
           NEW time \in 0..MaxTime, NEW grade \in {"primary", "dart"},
           NEW frame \in BOOLEAN, RegisterTask(s, time, grade, frame),
           UNCHANGED loopVars
    PROVE  NoLostWakeup'
<1>1. /\ UNCHANGED <<paused, mergeVars>> /\ WakeIfPending({LoopToWake(s)})
      /\ \A r \in Queues \ {s} : tasks'[r] = tasks[r]
      /\ tasks' \in [Queues -> SUBSET Task]
  BY ShapeRegister DEF RegisterTask, Shape
<1>2. /\ \A q \in Queues \ {LoopToWake(s)} : wake'[q] = wake[q]
      /\ \A q \in Queues \cap {LoopToWake(s)} :
           ~Subsumed(q)' => \A t \in Offered(q)' : wake'[q] <= t.time
  BY <1>1, WakeUp DEF Shape, mergeVars
<1>3. ASSUME NEW q \in Queues PROVE Awake(q)'
  <2>1. CASE q = LoopToWake(s)
    BY <1>2, <2>1 DEF Awake
  <2>2. CASE q # LoopToWake(s) /\ ~Subsumed(q)
    <3>1. s \notin {q} \cup ownerOf[q]
      BY <2>2 DEF LoopToWake, Subsumed, MergeState
    <3>2. Offered(q)' = Offered(q)
      BY <1>1, <3>1 DEF Offered, Visible, mergeVars, Shape
    <3> QED
      BY <1>1, <1>2, <2>2, <3>2 DEF Awake, NoLostWakeup, Subsumed, mergeVars, loopVars
  <2>3. CASE Subsumed(q)
    BY <1>1, <2>3 DEF Awake, Subsumed, mergeVars
  <2> QED BY <2>1, <2>2, <2>3
<1> QED BY <1>3 DEF NoLostWakeup, Awake

\* A frame that returns wakes its queue's loop, or runs on the owner's.
LEMMA ReturnWakes ==
    ASSUME Shape, MergeState, FrameAtHome, NoLostWakeup,
           NEW q \in Queues, TaskReturns(q)
    PROVE  NoLostWakeup'
<1>1. /\ loop' = [loop EXCEPT ![q] = "flush"] /\ UNCHANGED <<tasks, mergeVars>>
      /\ loop[q] = "run" /\ running[q] \in [queue : Queues, task : Task]
  BY DEF TaskReturns, ResumeSecondary, Shape, Running
<1>2. CASE ~running[q].task.frame
  BY <1>1, <1>2 DEF TaskReturns, NoLostWakeup, Offered, Visible, Subsumed, mergeVars, Shape
<1>3. CASE running[q].task.frame
  <2>1. PICK s \in Queues : s = running[q].queue
    BY <1>1
  <2>2. /\ s \in {q} \cup ownerOf[q] /\ ~Subsumed(q)
        /\ paused' = [paused EXCEPT ![s] = @ - 1] /\ WakeIfPending({s})
    BY <1>1, <1>3, <2>1 DEF TaskReturns, ResumeSecondary, FrameAtHome, RunsFrame
  <2>3. /\ \A p \in Queues \ {s} : wake'[p] = wake[p]
        /\ \A p \in Queues \cap {s} :
             ~Subsumed(p)' => \A t \in Offered(p)' : wake'[p] <= t.time
    BY <1>1, <2>2, WakeUp DEF Shape, mergeVars
  <2>4. ASSUME NEW p \in Queues PROVE Awake(p)'
    <3>1. CASE p = s
      BY <2>3, <3>1 DEF Awake
    <3>2. CASE p = q
      BY <1>1, <3>2 DEF Awake, Shape
    <3>3. CASE Subsumed(p)
      BY <1>1, <3>3 DEF Awake, Subsumed, mergeVars
    <3>4. CASE p # s /\ p # q /\ ~Subsumed(p)
      <4>1. s \notin {p} \cup ownerOf[p]
        BY <2>2, <3>4 DEF MergeState, Subsumed
      <4>2. Offered(p)' = Offered(p)
        BY <1>1, <2>2, <4>1 DEF Offered, Visible, mergeVars, Shape
      <4>3. loop'[p] = loop[p] /\ Subsumed(p)' = Subsumed(p) /\ wake'[p] = wake[p]
        BY <1>1, <2>3, <3>4 DEF Subsumed, mergeVars, Shape
      <4>4. Awake(p)
        BY DEF NoLostWakeup, Awake
      <4> QED BY <4>2, <4>3, <4>4, SleepsOn
    <3> QED BY <3>1, <3>2, <3>3, <3>4
  <2> QED BY <2>4 DEF NoLostWakeup, Awake
<1> QED BY <1>2, <1>3

\* A loop goes back to sleep on the next task's time, or with nothing to do.
LEMMA FlushWakes ==
    ASSUME Shape, NoLostWakeup, NEW q \in Queues, GetNextTaskToRun(q)
    PROVE  NoLostWakeup'
<1>1. UNCHANGED <<paused, mergeVars>> /\ \A p \in Queues : Subsumed(p)' = Subsumed(p)
  BY DEF GetNextTaskToRun, Subsumed, mergeVars
<1>2. \A p \in Queues : Awake(p)
  BY DEF NoLostWakeup, Awake
<1>3. CASE NothingToRun(q)
  <2>1. \A p \in Queues : Offered(p)' = Offered(p)
    BY <1>1, <1>3 DEF NothingToRun, Offered, Visible, mergeVars
  <2>2. \A p \in Queues \ {q} : Awake(p)'
    BY <1>1, <1>2, <1>3, <2>1 DEF NothingToRun, Awake, Shape
  <2>3. Awake(q)'
    BY <1>1, <1>3, <2>1 DEF NothingToRun, HasPending, Awake
  <2> QED BY <2>2, <2>3 DEF NoLostWakeup, Awake
<1>4. CASE NotYetDue(q)
  <2>1. \A p \in Queues : Offered(p)' = Offered(p)
    BY <1>1, <1>4 DEF NotYetDue, Offered, Visible, mergeVars
  <2>2. \A p \in Queues \ {q} : Awake(p)'
    BY <1>1, <1>2, <1>4, <2>1 DEF NotYetDue, Awake, Shape
  <2>3. Awake(q)'
    BY <1>4, <2>1, Taken DEF NotYetDue, Awake, Shape
  <2> QED BY <2>2, <2>3 DEF NoLostWakeup, Awake
<1>5. CASE TakeTask(q)
  <2>1. \A r \in Queues : tasks'[r] \subseteq tasks[r]
    BY <1>5 DEF TakeTask, Shape
  <2>2. \A p \in Queues : Offered(p)' \subseteq Offered(p)
    BY <1>1, <2>1 DEF Offered, Visible, mergeVars, Shape
  <2>3. \A p \in Queues \ {q} : Awake(p)'
    <3>1. \A p \in Queues \ {q} : wake'[p] = wake[p] /\ loop'[p] = loop[p]
      BY <1>5 DEF TakeTask, Shape
    <3> QED BY <1>1, <1>2, <2>2, <3>1, SleepsOn
  <2>4. Awake(q)'
    BY <1>5 DEF TakeTask, Awake, Shape
  <2> QED BY <2>3, <2>4 DEF NoLostWakeup, Awake
<1> QED BY <1>3, <1>4, <1>5 DEF GetNextTaskToRun

\* A merge wakes the owner, an unmerge both: no other loop is concerned.
LEMMA MergeWakes ==
    ASSUME Shape, NoLostWakeup, NEW o \in Queues, NEW s \in Queues,
           Merge(o, s) \/ Unmerge(o, s)
    PROVE  NoLostWakeup'
<1>1. UNCHANGED <<tasks, paused, loop>>
  BY DEF Merge, Unmerge, loopVars
<1>2. ownerOf' \in [Queues -> SUBSET Queues]
  BY DEF Merge, Unmerge, Shape
<1>3. \A q \in Queues \ {o, s} : ownerOf'[q] = ownerOf[q] /\ subsumedBy'[q] = subsumedBy[q]
  BY DEF Merge, Unmerge, Shape
<1>4. ASSUME NEW q \in Queues \ {o, s}, wake'[q] = wake[q] PROVE Awake(q)'
  BY <1>1, <1>3, <1>4 DEF NoLostWakeup, Awake, Offered, Visible, Subsumed
<1>5. CASE Merge(o, s)
  <2>1. WakeIfPending({o}) /\ Subsumed(s)'
    BY <1>5 DEF Merge, Subsumed, Shape
  <2>2. /\ \A q \in Queues \ {o} : wake'[q] = wake[q]
        /\ Awake(o)'
    BY <1>1, <1>2, <2>1, WakeUp DEF Awake, Shape
  <2>3. Awake(s)'
    BY <2>1 DEF Awake
  <2> QED BY <1>4, <2>2, <2>3 DEF NoLostWakeup, Awake
<1>6. CASE Unmerge(o, s)
  <2>1. WakeIfPending({o, s})
    BY <1>6 DEF Unmerge, LoopsAfterUnmerge
  <2>2. /\ \A q \in Queues \ {o, s} : wake'[q] = wake[q]
        /\ Awake(o)' /\ Awake(s)'
    BY <1>1, <1>2, <2>1, WakeUp DEF Awake, Shape
  <2> QED BY <1>4, <2>2 DEF NoLostWakeup, Awake
<1> QED BY <1>5, <1>6

LEMMA WakeupStep ==
    ASSUME ~AnyThread, Shape, MergeState, FrameAtHome, NoLostWakeup,
           paused \in [Queues -> Nat], [Next]_vars
    PROVE  NoLostWakeup'
<1>1. ASSUME UNCHANGED <<tasks, paused, mergeVars, wake, loop>> PROVE NoLostWakeup'
  BY <1>1 DEF mergeVars, NoLostWakeup, Offered, Visible, Subsumed
<1>2. ASSUME NEW q \in Queues, PostTask(q) PROVE NoLostWakeup'
  <2>1. PICK time \in now..MaxTime, grade \in {"primary", "dart"} :
          RegisterTask(q, time, grade, FALSE)
    BY <1>2 DEF PostTask
  <2>2. time \in 0..MaxTime
    BY DEF Shape
  <2>3. UNCHANGED loopVars
    BY <1>2 DEF PostTask
  <2> QED BY <2>1, <2>2, <2>3, RegisterWakes
<1>3. ASSUME NEW q \in Queues, PostFrame(q) PROVE NoLostWakeup'
  BY <1>3, RegisterWakes DEF PostFrame, Shape
<1>4. ASSUME NEW q \in Queues, FireCallback(q) PROVE NoLostWakeup'
  <2>1. \A p \in Queues : Offered(p)' \subseteq Offered(p)
    <3>1. \A s \in Queues : paused'[s] = 0 => paused[s] = 0
      BY <1>4 DEF FireCallback, PauseSecondary
    <3> QED BY <1>4, <3>1 DEF FireCallback, Offered, Visible, mergeVars, Shape
  <2>2. UNCHANGED <<mergeVars, wake, loop>>
    BY <1>4 DEF FireCallback, loopVars
  <2>3. \A p \in Queues : Awake(p)'
    BY <2>1, <2>2 DEF NoLostWakeup, Awake, Subsumed, mergeVars
  <2> QED BY <2>3 DEF NoLostWakeup, Awake
<1>5. ASSUME NEW q \in Queues, OnEventFired(q) PROVE NoLostWakeup'
  BY <1>5 DEF OnEventFired, mergeVars, NoLostWakeup, Offered, Visible, Subsumed, Shape
<1>6. ASSUME NEW q \in Queues, GetNextTaskToRun(q) PROVE NoLostWakeup'
  BY <1>6, FlushWakes
<1>7. ASSUME NEW q \in Queues, TaskReturns(q) PROVE NoLostWakeup'
  BY <1>7, ReturnWakes
<1>8. ASSUME NEW o \in Queues, NEW s \in Queues, Merge(o, s) \/ Unmerge(o, s)
      PROVE  NoLostWakeup'
  BY <1>8, MergeWakes
<1>9. CASE Tick
  BY <1>1, <1>9 DEF Tick, loopVars
<1>10. CASE UNCHANGED vars
  BY <1>1, <1>10 DEF vars, loopVars
<1> QED BY <1>2, <1>3, <1>4, <1>5, <1>6, <1>7, <1>8, <1>9, <1>10 DEF Next

(* No lost wake-up: if queues are merged and unmerged from the threads the   *)
(* engine does it on, a sleeping loop is armed no later than any task it     *)
(* could run.  (From any thread it is not so: a frame whose queue is merged  *)
(* away under it resumes Dart tasks that no loop is woken for.)              *)
THEOREM NoLostWakeupHolds ==
    ASSUME ~AnyThread
    PROVE  Spec => []NoLostWakeup
<1> DEFINE WakeInv == PauseInv /\ MergeState /\ FrameAtHome /\ NoLostWakeup
<1>1. Init => WakeInv
  <2> SUFFICES ASSUME Init PROVE MergeState /\ FrameAtHome /\ NoLostWakeup /\ PauseInv
    OBVIOUS
  <2>1. MergeState /\ FrameAtHome /\ NoLostWakeup
    BY DEF Init, MergeState, FrameAtHome, RunsFrame, NoLostWakeup, Offered, Visible, Subsumed
  <2>2. PauseInv
    BY PauseInvInit
  <2> QED BY <2>1, <2>2
<1>2. WakeInv /\ [Next]_vars => WakeInv'
  <2> SUFFICES ASSUME WakeInv, [Next]_vars PROVE WakeInv'
    OBVIOUS
  <2>1. PauseInv' /\ MergeState' /\ FrameAtHome'
    BY PauseInvStep, MergeStateStep, FrameAtHomeStep DEF PauseInv
  <2>2. NoLostWakeup'
    BY WakeupStep, PausesAreNatural DEF PauseInv
  <2> QED BY <2>1, <2>2
<1>3. WakeInv => NoLostWakeup
  OBVIOUS
<1> QED BY <1>1, <1>2, <1>3, PTL DEF Spec

=============================================================================
