-------------------------- MODULE FrameOrder_proofs --------------------------
(* The pipeline is a bounded queue of frames in the order of their making, *)
(* for any depth and any number of frames.                                 *)
EXTENDS FramePipeline_proofs, FiniteSetTheorems, SequenceTheorems

USE DepthIsPositive, MaxFramesIsNatural

(* The steps at which a thread has a frame that is in no queue.            *)
Carrying == {"rasterize", "drawn", "release", "again", "put"}

(* Frames wait in the order of their numbers, and none is in two places.   *)
OrderInv ==
  /\ \A i, j \in 1..Len(queue) : i < j => queue[i].no < queue[j].no
  /\ \A i \in 1..Len(queue) : queue[i].no <= made
  /\ \A t \in Threads : at[t] \in Carrying =>
       /\ frame[t].no <= made
       /\ \A i \in 1..Len(queue) : queue[i].no # frame[t].no
       /\ \A u \in Threads : u # t /\ at[u] \in Carrying => frame[u].no # frame[t].no

-----------------------------------------------------------------------------
(* The order is kept.                                                      *)

LEMMA FrameNumbers ==
  ASSUME TypeOK
  PROVE  /\ made \in Nat
         /\ \A i \in 1..Len(queue) : queue[i].no \in Nat
         /\ \A t \in Threads : frame[t].no \in Nat
<1>1. made \in Nat
  BY DEF TypeOK
<1>2. \A i \in 1..Len(queue) : queue[i] \in Frame
  BY DEF TypeOK
<1>3. \A i \in 1..Len(queue) : queue[i].no \in Nat
  BY <1>2 DEF Frame
<1>4. \A t \in Threads : frame[t].no \in Nat
  BY FrameFields
<1> QED BY <1>1, <1>3, <1>4

(* A step that changes neither the queue nor a frame, and puts no thread   *)
(* where it carries one, keeps the order.                                  *)
LEMMA OrderStays ==
  ASSUME OrderInv, UNCHANGED <<queue, frame, made>>,
         \A t \in Threads : at'[t] \in Carrying => at[t] \in Carrying
  PROVE  OrderInv'
  BY DEF OrderInv

LEMMA OrderCommit ==
  ASSUME Inv, OrderInv, NEW views \in BOOLEAN, ProducerCommit(views)
  PROVE  OrderInv'
<1> DEFINE f == [no |-> made + 1, views |-> views]
<1>1. /\ queue' = Append(queue, f) /\ made' = made + 1
      /\ UNCHANGED <<at, frame>> /\ f.no = made + 1
  BY DEF ProducerCommit, threadVars
<1>2. queue \in Seq(Frame) /\ Len(queue) \in Nat
  BY DEF Inv, TypeOK
<1> HIDE DEF f
<1>3. /\ Len(queue') = Len(queue) + 1
      /\ \A i \in 1..Len(queue) : queue'[i] = queue[i]
      /\ queue'[Len(queue) + 1] = f
  BY <1>1, <1>2
<1>4. \A i \in 1..Len(queue') : i \in 1..Len(queue) \/ i = Len(queue) + 1
  BY <1>2, <1>3
<1>5. /\ made \in Nat
      /\ \A i \in 1..Len(queue) : queue[i].no \in Nat
      /\ \A t \in Threads : frame[t].no \in Nat
  BY FrameNumbers DEF Inv
<1>6. \A i \in 1..Len(queue') : queue'[i].no <= made'
  BY <1>1, <1>3, <1>4, <1>5 DEF OrderInv
<1>7. \A i, j \in 1..Len(queue') : i < j => queue'[i].no < queue'[j].no
  <2> SUFFICES ASSUME NEW i \in 1..Len(queue'), NEW j \in 1..Len(queue'), i < j
               PROVE  queue'[i].no < queue'[j].no
    OBVIOUS
  <2>1. i \in 1..Len(queue)
    BY <1>2, <1>3, <1>4
  <2>2. CASE j \in 1..Len(queue)
    BY <1>3, <2>1, <2>2 DEF OrderInv
  <2>3. CASE j = Len(queue) + 1
    BY <1>1, <1>3, <1>5, <2>1, <2>3 DEF OrderInv
  <2> QED BY <1>4, <2>2, <2>3
<1>8. ASSUME NEW t \in Threads, at'[t] \in Carrying
      PROVE  /\ frame'[t].no <= made'
             /\ \A i \in 1..Len(queue') : queue'[i].no # frame'[t].no
             /\ \A u \in Threads : u # t /\ at'[u] \in Carrying => frame'[u].no # frame'[t].no
  <2>1. frame'[t].no <= made
    BY <1>1, <1>8 DEF OrderInv
  <2>2. frame'[t].no <= made' /\ frame'[t].no # made + 1
    BY <1>1, <1>5, <2>1
  <2>3. \A i \in 1..Len(queue') : queue'[i].no # frame'[t].no
    BY <1>1, <1>3, <1>4, <1>8, <2>2 DEF OrderInv
  <2>4. \A u \in Threads : u # t /\ at'[u] \in Carrying => frame'[u].no # frame'[t].no
    BY <1>1, <1>8 DEF OrderInv
  <2> QED BY <2>2, <2>3, <2>4
<1> QED BY <1>6, <1>7, <1>8 DEF OrderInv

LEMMA SomethingToPop ==
  ASSUME Inv, NEW t \in Threads, at[t] = "pop"
  PROVE  Len(queue) >= 1 /\ queue # <<>>
<1>1. at["raster"] = "pop" \/ at["platform"] = "pop"
  BY DEF Threads
<1>2. Tally(Between) >= 1
  BY <1>1, CountIsBit DEF Tally, Between, Count
<1>3. Len(queue) >= 1
  BY <1>2, CountIsBit, TallyIsNatural DEF Inv, TokensInv, TypeOK
<1> QED BY <1>3 DEF Inv, TypeOK

LEMMA OrderConsume ==
  ASSUME Inv, OrderInv, NEW t \in Threads, Consume(t)
  PROVE  OrderInv'
<1>1. /\ queue' = Tail(queue) /\ frame' = [frame EXCEPT ![t] = Head(queue)]
      /\ made' = made /\ GoTo(t, "rasterize") /\ at[t] = "pop"
  BY DEF Consume, uiVars
<1>2. queue \in Seq(Frame) /\ Len(queue) \in Nat /\ Len(queue) >= 1 /\ queue # <<>>
  BY <1>1, SomethingToPop DEF Inv, TypeOK
<1>3. /\ Len(queue') = Len(queue) - 1 /\ Head(queue) = queue[1]
      /\ \A i \in 1..Len(queue') : queue'[i] = queue[i + 1] /\ i + 1 \in 1..Len(queue)
  BY <1>1, <1>2
<1>4. 1 \in 1..Len(queue) /\ \A i \in 1..Len(queue') : 1 < i + 1
  BY <1>2, <1>3
<1>5. /\ frame'[t] = queue[1]
      /\ \A u \in Threads : u # t => frame'[u] = frame[u] /\ at'[u] = at[u]
  BY <1>1, <1>3 DEF Inv, TypeOK, GoTo
<1>6. \A i \in 1..Len(queue') : queue'[i].no <= made'
  BY <1>1, <1>3 DEF OrderInv
<1>7. \A i, j \in 1..Len(queue') : i < j => queue'[i].no < queue'[j].no
  <2> SUFFICES ASSUME NEW i \in 1..Len(queue'), NEW j \in 1..Len(queue'), i < j
               PROVE  queue'[i].no < queue'[j].no
    OBVIOUS
  <2>1. i + 1 < j + 1
    BY <1>2, <1>3
  <2> QED BY <1>3, <2>1 DEF OrderInv
<1>8. \A i \in 1..Len(queue') : queue[1].no < queue'[i].no
  BY <1>3, <1>4 DEF OrderInv
<1>9. /\ made \in Nat
      /\ \A i \in 1..Len(queue) : queue[i].no \in Nat
      /\ \A u \in Threads : frame[u].no \in Nat
  BY FrameNumbers DEF Inv
<1>10. \A i \in 1..Len(queue') : queue'[i].no # queue[1].no
  BY <1>3, <1>4, <1>8, <1>9
<1>11. ASSUME NEW v \in Threads, at'[v] \in Carrying
       PROVE  /\ frame'[v].no <= made'
              /\ \A i \in 1..Len(queue') : queue'[i].no # frame'[v].no
              /\ \A u \in Threads : u # v /\ at'[u] \in Carrying => frame'[u].no # frame'[v].no
  <2>1. CASE v = t
    <3>1. frame'[v].no <= made' /\ \A i \in 1..Len(queue') : queue'[i].no # frame'[v].no
      BY <1>1, <1>4, <1>5, <1>10, <2>1 DEF OrderInv
    <3>2. \A u \in Threads : u # t /\ at[u] \in Carrying => frame[u].no # queue[1].no
      BY <1>4 DEF OrderInv
    <3> QED BY <1>5, <2>1, <3>1, <3>2
  <2>2. CASE v # t
    <3>1. frame'[v] = frame[v] /\ at[v] \in Carrying
      BY <1>5, <1>11, <2>2
    <3>2. frame'[v].no <= made' /\ \A i \in 1..Len(queue') : queue'[i].no # frame'[v].no
      BY <1>1, <1>3, <3>1 DEF OrderInv
    <3>3. queue[1].no # frame[v].no
      BY <1>4, <3>1 DEF OrderInv
    <3>4. \A u \in Threads : u # v /\ u # t /\ at'[u] \in Carrying => frame'[u].no # frame'[v].no
      BY <1>5, <3>1 DEF OrderInv
    <3> QED BY <1>5, <3>1, <3>2, <3>3, <3>4
  <2> QED BY <2>1, <2>2
<1> QED BY <1>6, <1>7, <1>11 DEF OrderInv

LEMMA OrderPutBack ==
  ASSUME Inv, OrderInv, NEW t \in Threads, ProducerCommitIfEmpty(t)
  PROVE  OrderInv'
<1>1. frame' = frame /\ made' = made /\ at[t] = "put"
  BY DEF ProducerCommitIfEmpty, uiVars
<1>2. CASE ~MayPutBack(queue)
  <2>1. queue' = queue /\ GoTo(t, "end")
    BY <1>2 DEF ProducerCommitIfEmpty
  <2>2. \A u \in Threads : at'[u] \in Carrying => at[u] \in Carrying
    BY <2>1 DEF GoTo, Carrying, Inv, TypeOK
  <2> QED BY <1>1, <2>1, <2>2, OrderStays
<1>3. CASE MayPutBack(queue)
  <2>1. queue = <<>> /\ queue' = Append(queue, frame[t]) /\ GoTo(t, "signal")
    BY <1>3 DEF ProducerCommitIfEmpty, MayPutBack
  <2>2. frame[t] \in Frame
    BY <1>1 DEF Inv, FrameInv
  <2>3. Len(queue') = 1 /\ queue'[1] = frame[t]
    BY <2>1, <2>2
  <2>4. \A u \in Threads : at'[u] \in Carrying => u # t /\ at[u] \in Carrying
    BY <2>1 DEF GoTo, Carrying, Inv, TypeOK
  <2>5. \A i \in 1..Len(queue') : i = 1
    BY <2>3
  <2>6. at[t] \in Carrying
    BY <1>1 DEF Carrying
  <2>7. \A i \in 1..Len(queue') : queue'[i].no <= made'
    BY <1>1, <2>3, <2>5, <2>6 DEF OrderInv
  <2>8. \A i, j \in 1..Len(queue') : i < j => queue'[i].no < queue'[j].no
    BY <2>5
  <2>9. ASSUME NEW v \in Threads, at'[v] \in Carrying
        PROVE  /\ frame'[v].no <= made'
               /\ \A i \in 1..Len(queue') : queue'[i].no # frame'[v].no
               /\ \A u \in Threads : u # v /\ at'[u] \in Carrying => frame'[u].no # frame'[v].no
    BY <1>1, <2>3, <2>4, <2>5, <2>6, <2>9 DEF OrderInv
  <2> QED BY <2>7, <2>8, <2>9 DEF OrderInv
<1> QED BY <1>2, <1>3

LEMMA OrderEnd ==
  ASSUME Inv, OrderInv, NEW t \in Threads, EndDraw(t)
  PROVE  OrderInv'
<1>1. /\ frame' = [frame EXCEPT ![t] = NoFrame] /\ GoTo(t, "idle")
      /\ queue' = queue /\ made' = made
  BY DEF EndDraw, uiVars
<1>2. \A u \in Threads : at'[u] \in Carrying => u # t /\ at[u] \in Carrying /\ frame'[u] = frame[u]
  BY <1>1 DEF GoTo, Carrying, Inv, TypeOK
<1> QED BY <1>1, <1>2 DEF OrderInv

(* The other steps of a Draw carry a frame on, or let it go.               *)
LEMMA OrderCarried ==
  ASSUME Inv, OrderInv, NEW t \in Threads,
         \/ Draw(t) \/ DrawToSurfaces(t) \/ DecrementLease(t) \/ Release(t)
         \/ ProduceIfEmpty(t) \/ SignalAgain(t)
  PROVE  OrderInv'
<1>1. UNCHANGED <<queue, frame, made>>
  BY DEF Draw, DrawToSurfaces, DecrementLease, Release, ProduceIfEmpty, SignalAgain,
         uiVars, threadVars
<1>2. \/ UNCHANGED at \/ GoTo(t, "pop") \/ GoTo(t, "end")
      \/ at[t] \in Carrying /\ \E step \in Carrying : GoTo(t, step)
  BY DEF Draw, DrawToSurfaces, DecrementLease, Release, ProduceIfEmpty, SignalAgain, Carrying
<1>3. \A u \in Threads : at'[u] \in Carrying => at[u] \in Carrying
  BY <1>2 DEF GoTo, Carrying, Inv, TypeOK
<1> QED BY <1>1, <1>3, OrderStays

LEMMA OrderInit == Init => OrderInv
  BY DEF Init, OrderInv, Carrying

LEMMA OrderStep == Inv /\ OrderInv /\ [Next]_vars => OrderInv'
<1> SUFFICES ASSUME Inv, OrderInv, [Next]_vars PROVE OrderInv'
  OBVIOUS
<1>1. CASE UNCHANGED <<queue, frame, made, at>>
  BY <1>1, OrderStays
<1>2. ASSUME NEW t \in Threads, RasterStep(t) PROVE OrderInv'
  BY <1>2, OrderConsume, OrderPutBack, OrderEnd, OrderCarried DEF RasterStep
<1>3. ASSUME NEW views \in BOOLEAN, ProducerCommit(views) PROVE OrderInv'
  BY <1>3, OrderCommit
<1>4. CASE \/ \E anew \in BOOLEAN : RequestFrame(anew)
           \/ DrawLastLayerTrees \/ BeginFrame \/ EndFrame \/ Produce \/ Teardown
  BY <1>1, <1>4 DEF RequestFrame, DrawLastLayerTrees, BeginFrame, EndFrame, Produce,
                    Teardown, ProducerSignal, OnAnimatorDraw, uiVars, threadVars
<1>5. CASE UNCHANGED vars
  BY <1>1, <1>5 DEF vars, uiVars, threadVars
<1> QED BY <1>2, <1>3, <1>4, <1>5 DEF Next

(* The order is kept for ever.                                             *)
LEMMA OrderHolds == Spec => []OrderInv
  BY OrderInit, OrderStep, InvHolds, PTL DEF Spec

-----------------------------------------------------------------------------
(* The state of the queue that FrameQueue describes.                       *)

Of(S) == {frame[t] : t \in {t \in Threads : at[t] \in S}}

Promised == (IF continuation THEN {NoFrame} ELSE {})
              \cup {frame[t] : t \in {t \in Threads : at[t] = "put"}}
Drawn == {frame[t] : t \in {t \in Threads : at[t] \in Engaged}}
Undone == {frame[t] : t \in {t \in Threads : at[t] \in {"again", "put"}}}

LEMMA Mapped ==
  /\ Promised = (IF continuation THEN {NoFrame} ELSE {}) \cup Of({"put"})
  /\ Drawn = Of(Engaged)
  /\ Undone = Of({"again", "put"})
  BY DEF Promised, Drawn, Undone, Of

LEMMA MappedNext ==
  /\ Promised' = (IF continuation' THEN {NoFrame} ELSE {}) \cup Of({"put"})'
  /\ Drawn' = Of(Engaged)'
  /\ Undone' = Of({"again", "put"})'
  BY DEF Promised, Drawn, Undone, Of

LEMMA OfSize ==
  ASSUME TypeOK, NEW S
  PROVE  IsFiniteSet(Of(S)) /\ Cardinality(Of(S)) <= Tally(S)
<1> DEFINE A == IF at["raster"] \in S THEN {frame["raster"]} ELSE {}
           B == IF at["platform"] \in S THEN {frame["platform"]} ELSE {}
<1>1. Of(S) = A \cup B
  BY DEF Of, Threads
<1>2. IsFiniteSet(A) /\ Cardinality(A) = Count(at["raster"] \in S)
  BY FS_EmptySet, FS_Singleton DEF Count
<1>3. IsFiniteSet(B) /\ Cardinality(B) = Count(at["platform"] \in S)
  BY FS_EmptySet, FS_Singleton DEF Count
<1> HIDE DEF A, B
<1>4. /\ IsFiniteSet(A \cup B)
      /\ Cardinality(A \cup B) = Cardinality(A) + Cardinality(B) - Cardinality(A \cap B)
  BY <1>2, <1>3, FS_Union
<1>5. Cardinality(A \cap B) \in Nat
  BY <1>2, <1>3, FS_Intersection, FS_CardinalityType
<1> QED BY <1>1, <1>2, <1>3, <1>4, <1>5, CountIsBit DEF Tally

LEMMA SameCardinality == \A S : Frames!Cardinality(S) = Cardinality(S)
  BY DEF Frames!Cardinality, Cardinality, Frames!IsFiniteSet, IsFiniteSet

(* No more places are in use than the semaphore says.                      *)
LEMMA InUseBound ==
  ASSUME Inv
  PROVE  Frames!InUse \in Int /\ Frames!InUse <= Depth - empty
<1>1. IsFiniteSet(Of({"put"})) /\ Cardinality(Of({"put"})) <= Tally({"put"})
  BY OfSize DEF Inv
<1>2. IsFiniteSet(Drawn) /\ Cardinality(Drawn) <= Tally(Engaged)
  BY OfSize, Mapped DEF Inv
<1> DEFINE P == IF continuation THEN {NoFrame} ELSE {}
<1>3. IsFiniteSet(P) /\ Cardinality(P) = Count(continuation)
  BY FS_EmptySet, FS_Singleton DEF Count
<1>4. Promised = P \cup Of({"put"})
  BY Mapped
<1> HIDE DEF P
<1>5. /\ IsFiniteSet(Promised)
      /\ Cardinality(Promised) = Cardinality(P) + Cardinality(Of({"put"}))
                                   - Cardinality(P \cap Of({"put"}))
  BY <1>1, <1>3, <1>4, FS_Union
<1>6. /\ Cardinality(P \cap Of({"put"})) \in Nat /\ Cardinality(Of({"put"})) \in Nat
      /\ Cardinality(Drawn) \in Nat
  BY <1>1, <1>2, <1>3, FS_Intersection, FS_CardinalityType
<1>7. Tally(Holding) = Tally(Engaged) + Tally({"put"})
  BY DEF Tally, Holding, Engaged, Count
<1>8. /\ Tally(Engaged) \in Nat /\ Tally({"put"}) \in Nat
      /\ Len(queue) \in Nat /\ empty \in Nat
      /\ Count(continuation) \in {0, 1}
  BY TallyIsNatural, QueueLength, CountIsBit DEF Inv, TypeOK
<1>9. Cardinality(Promised) <= Count(continuation) + Tally({"put"})
  BY <1>1, <1>3, <1>5, <1>6, <1>8
<1>10. Cardinality(Promised) \in Nat
  BY <1>5, FS_CardinalityType
<1>11. Cardinality(Promised) + Len(queue) + Cardinality(Drawn) <= Depth - empty
  <2>1. Depth = empty + Count(continuation) + Len(queue) + Tally(Engaged) + Tally({"put"})
    BY <1>7, <1>8 DEF Inv, PlacesInv
  <2>2. Cardinality(Promised) + Len(queue) + Cardinality(Drawn)
          <= (Count(continuation) + Tally({"put"})) + Len(queue) + Tally(Engaged)
    BY <1>2, <1>6, <1>8, <1>9, <1>10
  <2>3. (Count(continuation) + Tally({"put"})) + Len(queue) + Tally(Engaged) = Depth - empty
    BY <1>8, <2>1
  <2> QED BY <2>2, <2>3
<1>12. Cardinality(Promised) + Len(queue) + Cardinality(Drawn) \in Int
  BY <1>6, <1>8, <1>10
<1> QED BY <1>11, <1>12, SameCardinality DEF Frames!InUse, Promised, Drawn

-----------------------------------------------------------------------------
(* How the sets change when a thread moves.                                *)

LEMMA OfStays ==
  ASSUME TypeOK, NEW t \in Threads, NEW step, GoTo(t, step), NEW S,
         \A u \in Threads : u # t => frame'[u] = frame[u],
         at[t] \in S => step \in S /\ frame'[t] = frame[t],
         step \in S => at[t] \in S
  PROVE  Of(S)' = Of(S)
<1>1. at'[t] = step /\ \A u \in Threads : u # t => at'[u] = at[u]
  BY DEF TypeOK, GoTo
<1>2. \A u \in Threads : (at'[u] \in S <=> at[u] \in S) /\ (at[u] \in S => frame'[u] = frame[u])
  BY <1>1
<1> QED BY <1>2 DEF Of

LEMMA OfEnters ==
  ASSUME TypeOK, NEW t \in Threads, NEW step, GoTo(t, step), NEW S,
         \A u \in Threads : u # t => frame'[u] = frame[u],
         at[t] \notin S, step \in S
  PROVE  Of(S)' = Of(S) \cup {frame'[t]}
<1>1. at'[t] = step /\ \A u \in Threads : u # t => at'[u] = at[u]
  BY DEF TypeOK, GoTo
<1> QED BY <1>1 DEF Of

LEMMA OfLeaves ==
  ASSUME TypeOK, NEW t \in Threads, NEW step, GoTo(t, step), NEW S,
         frame' = frame, at[t] \in S, step \notin S,
         \A u \in Threads : u # t /\ at[u] \in S => frame[u] # frame[t]
  PROVE  Of(S)' = Of(S) \ {frame[t]} /\ frame[t] \in Of(S)
<1>1. at'[t] = step /\ \A u \in Threads : u # t => at'[u] = at[u]
  BY DEF TypeOK, GoTo
<1> QED BY <1>1 DEF Of

(* Frames that are carried by different threads differ, and are frames.    *)
LEMMA CarriedDiffer ==
  ASSUME Inv, OrderInv, NEW t \in Threads, at[t] \in Carrying
  PROVE  /\ frame[t] \in Frame /\ frame[t] # NoFrame
         /\ \A u \in Threads : u # t /\ at[u] \in Carrying => frame[u] # frame[t]
<1>1. frame[t] \in Frame
  BY DEF Inv, FrameInv, Carrying
<1>2. frame[t].no # 0
  BY <1>1 DEF Frame
<1> QED BY <1>1, <1>2 DEF NoFrame, OrderInv

-----------------------------------------------------------------------------
(* Every step is a step of FrameQueue, or changes none of it.              *)

MappedVars == <<Promised, queue, Drawn, Undone>>

LEMMA QueueInit == Init => Frames!Init
<1> SUFFICES ASSUME Init PROVE Frames!Init
  OBVIOUS
<1>1. \A t \in Threads : at[t] = "idle"
  BY DEF Init
<1> QED BY <1>1 DEF Init, Frames!Init, Engaged

LEMMA QueueStutter == UNCHANGED MappedVars => UNCHANGED Frames!vars
  BY DEF MappedVars, Promised, Drawn, Undone, Frames!vars

LEMMA QueueBegin ==
  ASSUME Inv, BeginFrame
  PROVE  Frames!Promise(NoFrame) \/ UNCHANGED MappedVars
<1>1. UNCHANGED <<at, frame, queue>>
  BY DEF BeginFrame, threadVars
<1>2. UNCHANGED <<queue, Drawn, Undone>>
  BY <1>1 DEF Drawn, Undone
<1>3. CASE continuation' = continuation
  BY <1>1, <1>2, <1>3 DEF MappedVars, Promised
<1>4. CASE continuation' # continuation
  <2>1. ~continuation /\ continuation' /\ empty > 0
    BY <1>4 DEF BeginFrame, HasPlace, Inv, TypeOK
  <2>2. Frames!InUse < Depth
    BY <2>1, InUseBound DEF Inv, TypeOK
  <2>3. Promised' = Promised \cup {NoFrame}
    BY <1>1, <2>1 DEF Promised
  <2> QED BY <1>2, <2>2, <2>3 DEF Frames!Promise, Promised, Drawn, Undone
<1> QED BY <1>3, <1>4

LEMMA QueuePush ==
  ASSUME Inv, OrderInv, NEW views \in BOOLEAN, ProducerCommit(views)
  PROVE  \E f \in Frame : Frames!Push(f)
<1> DEFINE f == [no |-> made + 1, views |-> views]
<1>1. /\ UNCHANGED <<at, frame>> /\ queue' = Append(queue, f)
      /\ continuation /\ continuation' = FALSE /\ made < MaxFrames /\ f.no = made + 1
  BY DEF ProducerCommit, threadVars
<1>2. f \in Frame
  BY <1>1 DEF Frame, Inv, TypeOK
<1> HIDE DEF f
<1>3. UNCHANGED <<Drawn, Undone>>
  BY <1>1 DEF Drawn, Undone
<1>4. NoFrame \notin Of({"put"})
  BY CarriedDiffer DEF Of, Carrying
<1>5. Promised' = Promised \ {NoFrame} /\ NoFrame \in Promised
  <2>1. Of({"put"})' = Of({"put"})
    BY <1>1 DEF Of
  <2> QED BY <1>1, <1>4, <2>1, Mapped, MappedNext
<1>6. \A i \in DOMAIN queue : queue[i].no < f.no
  <2>1. DOMAIN queue = 1..Len(queue)
    BY DEF Inv, TypeOK
  <2> QED BY <1>1, <2>1, FrameNumbers DEF Inv, OrderInv
<1> QED BY <1>1, <1>2, <1>3, <1>5, <1>6 DEF Frames!Push, Promised, Drawn, Undone

LEMMA QueueTake ==
  ASSUME Inv, OrderInv, NEW t \in Threads, Consume(t)
  PROVE  Frames!Take
<1>1. /\ queue' = Tail(queue) /\ frame' = [frame EXCEPT ![t] = Head(queue)]
      /\ GoTo(t, "rasterize") /\ at[t] = "pop" /\ continuation' = continuation
  BY DEF Consume, uiVars
<1>2. queue # <<>>
  BY <1>1, SomethingToPop
<1>3. frame'[t] = Head(queue) /\ \A u \in Threads : u # t => frame'[u] = frame[u]
  BY <1>1 DEF Inv, TypeOK
<1>4. Of({"put"})' = Of({"put"})
  BY <1>1, <1>3, OfStays DEF Inv
<1>5. Of({"again", "put"})' = Of({"again", "put"})
  BY <1>1, <1>3, OfStays DEF Inv
<1>6. Of(Engaged)' = Of(Engaged) \cup {Head(queue)}
  <2>1. "pop" \notin Engaged /\ "rasterize" \in Engaged
    BY DEF Engaged
  <2> QED BY <1>1, <1>3, <2>1, OfEnters DEF Inv
<1>7. Promised' = Promised /\ Undone' = Undone /\ Drawn' = Drawn \cup {Head(queue)}
  BY <1>1, <1>4, <1>5, <1>6, Mapped, MappedNext
<1> QED BY <1>1, <1>2, <1>7 DEF Frames!Take, Promised, Drawn, Undone

LEMMA QueueFinish ==
  ASSUME Inv, OrderInv, NEW t \in Threads, Release(t)
  PROVE  \E f \in Drawn : Frames!Finish(f)
<1>1. /\ queue' = queue /\ frame' = frame /\ continuation' = continuation
      /\ at[t] = "release"
  BY DEF Release, uiVars
<1>2. PICK step \in {"again", "end"} : GoTo(t, step)
  BY DEF Release
<1>3. at[t] \in Engaged /\ step \notin Engaged /\ Engaged \subseteq Carrying
  BY <1>1 DEF Engaged, Carrying
<1>4. Of(Engaged)' = Of(Engaged) \ {frame[t]} /\ frame[t] \in Of(Engaged)
  BY <1>1, <1>2, <1>3, CarriedDiffer, OfLeaves DEF Inv
<1>5. Of({"put"})' = Of({"put"})
  BY <1>1, <1>2, OfStays DEF Inv
<1>6. Of({"again", "put"})' \in {Of({"again", "put"}), Of({"again", "put"}) \cup {frame[t]}}
  <2>1. CASE step = "again"
    BY <1>1, <1>2, <2>1, OfEnters DEF Inv
  <2>2. CASE step = "end"
    BY <1>1, <1>2, <2>2, OfStays DEF Inv
  <2> QED BY <2>1, <2>2
<1>7. /\ Promised' = Promised /\ Drawn' = Drawn \ {frame[t]} /\ frame[t] \in Drawn
      /\ Undone' \in {Undone, Undone \cup {frame[t]}}
  BY <1>1, <1>4, <1>5, <1>6, Mapped, MappedNext
<1> QED BY <1>1, <1>7 DEF Frames!Finish, Promised, Drawn, Undone

(* A frame that lost its place asks for another, or gives up.              *)
LEMMA QueueAgain ==
  ASSUME Inv, OrderInv, NEW t \in Threads, ProduceIfEmpty(t)
  PROVE  \E f \in Undone : Frames!Promise(f) \/ Frames!GiveUp(f)
<1>1. /\ queue' = queue /\ frame' = frame /\ continuation' = continuation
      /\ at[t] = "again"
  BY DEF ProduceIfEmpty, uiVars
<1>2. /\ frame[t] \in Frame /\ frame[t] # NoFrame
      /\ \A u \in Threads : u # t /\ at[u] \in Carrying => frame[u] # frame[t]
  BY <1>1, CarriedDiffer DEF Carrying
<1>3. frame[t] \in Undone
  BY <1>1 DEF Undone
<1>4. CASE HasPlace(empty)
  <2>1. GoTo(t, "put") /\ empty > 0
    BY <1>4 DEF ProduceIfEmpty, HasPlace
  <2>2. Frames!InUse < Depth
    BY <2>1, InUseBound DEF Inv, TypeOK
  <2>3. Of({"put"})' = Of({"put"}) \cup {frame[t]}
    BY <1>1, <2>1, OfEnters DEF Inv
  <2>4. Of({"again", "put"})' = Of({"again", "put"})
    BY <1>1, <2>1, OfStays DEF Inv
  <2>5. Of(Engaged)' = Of(Engaged)
    <3>1. "again" \notin Engaged /\ "put" \notin Engaged
      BY DEF Engaged
    <3> QED BY <1>1, <2>1, <3>1, OfStays DEF Inv
  <2>6. Promised' = Promised \cup {frame[t]} /\ Drawn' = Drawn /\ Undone' = Undone
    BY <1>1, <2>3, <2>4, <2>5, Mapped, MappedNext
  <2> QED BY <1>1, <1>3, <2>2, <2>6 DEF Frames!Promise, Promised, Drawn, Undone
<1>5. CASE ~HasPlace(empty)
  <2>1. GoTo(t, "end")
    BY <1>5 DEF ProduceIfEmpty
  <2>2. Of({"put"})' = Of({"put"})
    BY <1>1, <2>1, OfStays DEF Inv
  <2>3. Of({"again", "put"})' = Of({"again", "put"}) \ {frame[t]}
    <3>1. \A u \in Threads : u # t /\ at[u] \in {"again", "put"} => frame[u] # frame[t]
      BY <1>2 DEF Carrying
    <3> QED BY <1>1, <2>1, <3>1, OfLeaves DEF Inv
  <2>4. Of(Engaged)' = Of(Engaged)
    <3>1. "again" \notin Engaged /\ "end" \notin Engaged
      BY DEF Engaged
    <3> QED BY <1>1, <2>1, <3>1, OfStays DEF Inv
  <2>5. frame[t] \notin Promised
    <3>1. frame[t] \notin Of({"put"})
      BY <1>1, <1>2 DEF Of, Carrying
    <3> QED BY <1>2, <3>1, Mapped
  <2>6. Promised' = Promised \ {frame[t]} /\ Drawn' = Drawn /\ Undone' = Undone \ {frame[t]}
    BY <1>1, <2>2, <2>3, <2>4, <2>5, Mapped, MappedNext
  <2> QED BY <1>1, <1>3, <2>6 DEF Frames!GiveUp, Promised, Drawn, Undone
<1> QED BY <1>4, <1>5

LEMMA QueuePutBack ==
  ASSUME Inv, OrderInv, NEW t \in Threads, ProducerCommitIfEmpty(t)
  PROVE  \E f \in Undone : Frames!PutBack(f) \/ Frames!GiveUp(f)
<1>1. frame' = frame /\ continuation' = continuation /\ at[t] = "put"
  BY DEF ProducerCommitIfEmpty, uiVars
<1>2. /\ frame[t] \in Frame /\ frame[t] # NoFrame
      /\ \A u \in Threads : u # t /\ at[u] \in Carrying => frame[u] # frame[t]
  BY <1>1, CarriedDiffer DEF Carrying
<1>3. frame[t] \in Undone /\ frame[t] \in Promised
  BY <1>1 DEF Undone, Promised
<1>4. PICK step \in {"signal", "end"} : GoTo(t, step)
  BY DEF ProducerCommitIfEmpty
<1>5. Of({"put"})' = Of({"put"}) \ {frame[t]}
  <2>1. \A u \in Threads : u # t /\ at[u] \in {"put"} => frame[u] # frame[t]
    BY <1>2 DEF Carrying
  <2> QED BY <1>1, <1>4, <2>1, OfLeaves DEF Inv
<1>6. Of({"again", "put"})' = Of({"again", "put"}) \ {frame[t]}
  <2>1. \A u \in Threads : u # t /\ at[u] \in {"again", "put"} => frame[u] # frame[t]
    BY <1>2 DEF Carrying
  <2> QED BY <1>1, <1>4, <2>1, OfLeaves DEF Inv
<1>7. Of(Engaged)' = Of(Engaged)
  <2>1. "put" \notin Engaged /\ step \notin Engaged
    BY DEF Engaged
  <2> QED BY <1>1, <1>4, <2>1, OfStays DEF Inv
<1>8. Promised' = Promised \ {frame[t]} /\ Drawn' = Drawn /\ Undone' = Undone \ {frame[t]}
  BY <1>1, <1>2, <1>5, <1>6, <1>7, Mapped, MappedNext
<1>9. CASE MayPutBack(queue)
  <2>1. queue = <<>> /\ queue' = <<frame[t]>>
    BY <1>2, <1>9 DEF ProducerCommitIfEmpty, MayPutBack
  <2> QED BY <1>3, <1>8, <2>1 DEF Frames!PutBack, Promised, Drawn, Undone
<1>10. CASE ~MayPutBack(queue)
  <2>1. queue' = queue
    BY <1>10 DEF ProducerCommitIfEmpty
  <2> QED BY <1>3, <1>8, <2>1 DEF Frames!GiveUp, Promised, Drawn, Undone
<1> QED BY <1>9, <1>10

(* The steps within a draw, and its beginning and end, leave the queue.    *)
LEMMA QueueLeft ==
  ASSUME Inv, NEW t \in Threads,
         Draw(t) \/ DrawToSurfaces(t) \/ DecrementLease(t) \/ SignalAgain(t) \/ EndDraw(t)
  PROVE  UNCHANGED MappedVars
<1>1. /\ queue' = queue /\ continuation' = continuation
      /\ \A u \in Threads : u # t => frame'[u] = frame[u]
      /\ at[t] # "end" => frame' = frame
  BY DEF Draw, DrawToSurfaces, DecrementLease, SignalAgain, EndDraw, uiVars, threadVars, Inv, TypeOK
<1>2. CASE at' = at /\ frame' = frame
  BY <1>1, <1>2 DEF MappedVars, Promised, Drawn, Undone
<1>3. ASSUME NEW step, GoTo(t, step),
             \/ at[t] \in Engaged /\ step \in Engaged
             \/ at[t] \in {"idle", "signal", "end"} /\ step \in {"idle", "pop", "end"}
      PROVE  UNCHANGED MappedVars
  <2>1. "end" \notin Engaged /\ "put" \notin Engaged /\ "again" \notin Engaged
        /\ "idle" \notin Engaged /\ "signal" \notin Engaged /\ "pop" \notin Engaged
    BY DEF Engaged
  <2>2. Of(Engaged)' = Of(Engaged)
    BY <1>1, <1>3, <2>1, OfStays DEF Inv
  <2>3. Of({"put"})' = Of({"put"}) /\ Of({"again", "put"})' = Of({"again", "put"})
    <3>1. at[t] \notin {"again", "put"} /\ step \notin {"again", "put"}
      BY <1>3, <2>1
    <3>2. Of({"put"})' = Of({"put"})
      BY <1>1, <1>3, <3>1, OfStays DEF Inv
    <3>3. Of({"again", "put"})' = Of({"again", "put"})
      BY <1>1, <1>3, <3>1, OfStays DEF Inv
    <3> QED BY <3>2, <3>3
  <2> QED BY <1>1, <2>2, <2>3, Mapped, MappedNext DEF MappedVars
<1>4. CASE Draw(t)
  BY <1>2, <1>3, <1>4 DEF Draw
<1>5. CASE DrawToSurfaces(t)
  BY <1>3, <1>5 DEF DrawToSurfaces, Engaged
<1>6. CASE DecrementLease(t)
  BY <1>3, <1>6 DEF DecrementLease, Engaged
<1>7. CASE SignalAgain(t)
  BY <1>3, <1>7 DEF SignalAgain
<1>8. CASE EndDraw(t)
  BY <1>3, <1>8 DEF EndDraw
<1> QED BY <1>4, <1>5, <1>6, <1>7, <1>8

LEMMA QueueStep == Inv /\ OrderInv /\ [Next]_vars => [Frames!Next]_(Frames!vars)
<1> SUFFICES ASSUME Inv, OrderInv, [Next]_vars PROVE [Frames!Next]_(Frames!vars)
  OBVIOUS
<1>1. CASE UNCHANGED <<queue, frame, at, continuation>>
  BY <1>1, QueueStutter DEF MappedVars, Promised, Drawn, Undone
<1>2. CASE BeginFrame
  BY <1>2, QueueBegin, QueueStutter DEF Frames!Next
<1>3. ASSUME NEW views \in BOOLEAN, ProducerCommit(views) PROVE Frames!Next
  BY <1>3, QueuePush DEF Frames!Next
<1>4. ASSUME NEW t \in Threads, RasterStep(t) PROVE [Frames!Next]_(Frames!vars)
  <2>1. CASE Consume(t)
    BY <2>1, QueueTake DEF Frames!Next
  <2>2. CASE Release(t)
    BY <2>2, QueueFinish DEF Frames!Next, Drawn
  <2>3. CASE ProduceIfEmpty(t)
    BY <2>3, QueueAgain DEF Frames!Next, Undone
  <2>4. CASE ProducerCommitIfEmpty(t)
    BY <2>4, QueuePutBack DEF Frames!Next, Undone
  <2>5. CASE Draw(t) \/ DrawToSurfaces(t) \/ DecrementLease(t) \/ SignalAgain(t) \/ EndDraw(t)
    BY <2>5, QueueLeft, QueueStutter
  <2> QED BY <1>4, <2>1, <2>2, <2>3, <2>4, <2>5 DEF RasterStep
<1>5. CASE \/ \E anew \in BOOLEAN : RequestFrame(anew)
           \/ DrawLastLayerTrees \/ EndFrame \/ Produce \/ Teardown
  BY <1>1, <1>5 DEF RequestFrame, DrawLastLayerTrees, EndFrame, Produce, Teardown,
                    ProducerSignal, OnAnimatorDraw, uiVars, threadVars
<1>6. CASE UNCHANGED vars
  BY <1>1, <1>6 DEF vars, uiVars, threadVars
<1> QED BY <1>2, <1>3, <1>4, <1>5, <1>6 DEF Next

(* Two semaphores and a mutex, taken in the steps of two threads that      *)
(* consume and put back and of one that produces, make the bounded queue   *)
(* in order that FrameQueue describes (pipeline.h:39).                     *)
THEOREM FramesInOrderHolds == Spec => FramesInOrder
  BY QueueInit, QueueStep, InvHolds, OrderHolds, PTL DEF Spec, FramesInOrder, Frames!Spec
-----------------------------------------------------------------------------
(* The order on the screen.                                                *)

(* One thread takes frames at a time; what waits, or was taken and is to   *)
(* be shown, is no older than what was taken before it, save a frame that  *)
(* was put back when it had been overtaken.                                *)
ShownInv ==
  /\ at["raster"] \in {"pop", "rasterize"} => ~merged
  /\ shown <= taken /\ taken <= made
  /\ \A i \in 1..Len(queue) : queue[i].no >= taken \/ queue[i].no \in overtaken
  /\ \A t \in Threads : at[t] = "rasterize" =>
       frame[t].no <= taken /\ (frame[t].no >= taken \/ frame[t].no \in overtaken)

(* Most steps touch nothing of this.                                       *)
LEMMA ShownStays ==
  ASSUME ShownInv, UNCHANGED <<shown, taken, made, overtaken, queue>>,
         \A t \in Threads : at'[t] = "rasterize" => at[t] = "rasterize" /\ frame'[t] = frame[t],
         at'["raster"] \in {"pop", "rasterize"} => ~merged'
  PROVE  ShownInv'
  BY DEF ShownInv

LEMMA ShownCommit ==
  ASSUME Inv, ShownInv, NEW views \in BOOLEAN, ProducerCommit(views)
  PROVE  ShownInv'
<1> DEFINE f == [no |-> made + 1, views |-> views]
<1>1. /\ queue' = Append(queue, f) /\ made' = made + 1 /\ f.no = made + 1
      /\ UNCHANGED <<at, frame, merged, shown, taken, overtaken>>
  BY DEF ProducerCommit, threadVars, history
<1>2. queue \in Seq(Frame) /\ Len(queue) \in Nat /\ made \in Nat /\ taken \in Nat
  BY DEF Inv, TypeOK
<1> HIDE DEF f
<1>3. /\ Len(queue') = Len(queue) + 1
      /\ \A i \in 1..Len(queue) : queue'[i] = queue[i]
      /\ queue'[Len(queue) + 1] = f
  BY <1>1, <1>2
<1>4. \A i \in 1..Len(queue') : i \in 1..Len(queue) \/ i = Len(queue) + 1
  BY <1>2, <1>3
<1>5. taken <= made + 1
  BY <1>2 DEF ShownInv
<1>6. \A i \in 1..Len(queue') : queue'[i].no >= taken \/ queue'[i].no \in overtaken
  BY <1>1, <1>3, <1>4, <1>5 DEF ShownInv
<1> QED BY <1>1, <1>5, <1>6 DEF ShownInv

LEMMA ShownConsume ==
  ASSUME Inv, OrderInv, ShownInv, NEW t \in Threads, Consume(t)
  PROVE  ShownInv'
<1>1. /\ queue' = Tail(queue) /\ frame' = [frame EXCEPT ![t] = Head(queue)]
      /\ GoTo(t, "rasterize") /\ at[t] = "pop"
      /\ taken' = IF Head(queue).no > taken THEN Head(queue).no ELSE taken
      /\ UNCHANGED <<made, merged, shown, overtaken>>
  BY DEF Consume, uiVars
<1>2. queue \in Seq(Frame) /\ Len(queue) \in Nat /\ Len(queue) >= 1 /\ queue # <<>>
  BY <1>1, SomethingToPop DEF Inv, TypeOK
<1>3. /\ Len(queue') = Len(queue) - 1 /\ Head(queue) = queue[1]
      /\ \A i \in 1..Len(queue') : queue'[i] = queue[i + 1] /\ i + 1 \in 1..Len(queue)
  BY <1>1, <1>2
<1>4. 1 \in 1..Len(queue) /\ \A i \in 1..Len(queue') : 1 < i + 1
  BY <1>2, <1>3
<1>5. /\ made \in Nat /\ taken \in Nat /\ shown \in Nat
      /\ \A i \in 1..Len(queue) : queue[i].no \in Nat
  BY FrameNumbers DEF Inv, TypeOK
<1>6. /\ queue[1].no \in Nat /\ queue[1].no <= made
      /\ queue[1].no >= taken \/ queue[1].no \in overtaken
  BY <1>4, <1>5 DEF OrderInv, ShownInv
<1>7. /\ taken' = IF queue[1].no > taken THEN queue[1].no ELSE taken
      /\ taken' \in Nat /\ taken <= taken' /\ taken' <= made /\ queue[1].no <= taken'
      /\ queue[1].no >= taken' \/ queue[1].no \in overtaken
  <2>1. taken' = IF queue[1].no > taken THEN queue[1].no ELSE taken
    BY <1>1, <1>3
  <2>2. taken <= made
    BY DEF ShownInv
  <2> QED BY <1>5, <1>6, <2>1, <2>2
<1>8. shown' <= taken' /\ taken' <= made'
  <2>1. shown <= taken
    BY DEF ShownInv
  <2> QED BY <1>1, <1>5, <1>7, <2>1
<1>9. \A i \in 1..Len(queue') : queue'[i].no >= taken' \/ queue'[i].no \in overtaken'
  <2> SUFFICES ASSUME NEW i \in 1..Len(queue')
               PROVE  queue[i + 1].no >= taken' \/ queue[i + 1].no \in overtaken
    BY <1>1, <1>3
  <2>1. /\ queue[1].no < queue[i + 1].no /\ queue[i + 1].no \in Nat
        /\ queue[i + 1].no >= taken \/ queue[i + 1].no \in overtaken
    BY <1>3, <1>4, <1>5 DEF OrderInv, ShownInv
  <2> QED BY <1>5, <1>6, <1>7, <2>1
<1>10. /\ at'[t] = "rasterize" /\ frame'[t] = queue[1]
       /\ \A u \in Threads : u # t => at'[u] = at[u] /\ frame'[u] = frame[u]
  BY <1>1, <1>3 DEF Inv, TypeOK, GoTo
(* The other thread takes no frame: it would serve the queue as well.      *)
<1>11. \A u \in Threads : u # t => at[u] # "rasterize"
  BY <1>1 DEF Threads, ShownInv, Inv, ServerInv
<1>12. at'["raster"] \in {"pop", "rasterize"} => ~merged'
  BY <1>1, <1>10 DEF Threads, ShownInv
<1>13. \A u \in Threads : at'[u] = "rasterize" => u = t
  BY <1>10, <1>11
<1>14. frame'[t].no <= taken' /\ (frame'[t].no >= taken' \/ frame'[t].no \in overtaken')
  BY <1>1, <1>7, <1>10
<1> QED BY <1>8, <1>9, <1>12, <1>13, <1>14 DEF ShownInv

LEMMA ShownPutBack ==
  ASSUME Inv, ShownInv, NEW t \in Threads, ProducerCommitIfEmpty(t)
  PROVE  ShownInv'
<1>1. /\ UNCHANGED <<frame, made, merged, shown, taken>> /\ at[t] = "put"
      /\ GoTo(t, "signal") \/ GoTo(t, "end")
  BY DEF ProducerCommitIfEmpty, uiVars
<1>2. \A u \in Threads : at'[u] \in {"pop", "rasterize"} => at'[u] = at[u]
  BY <1>1 DEF GoTo, Inv, TypeOK
<1>3. at'["raster"] \in {"pop", "rasterize"} => ~merged'
  BY <1>1, <1>2 DEF ShownInv, Threads
<1>4. overtaken \subseteq overtaken'
  BY DEF ProducerCommitIfEmpty
<1>5. \A u \in Threads : at'[u] = "rasterize" =>
        frame'[u].no <= taken' /\ (frame'[u].no >= taken' \/ frame'[u].no \in overtaken')
  BY <1>1, <1>2, <1>4 DEF ShownInv
<1>6. \A i \in 1..Len(queue') : queue'[i].no >= taken' \/ queue'[i].no \in overtaken'
  <2>1. CASE ~MayPutBack(queue)
    BY <1>1, <1>4, <2>1 DEF ProducerCommitIfEmpty, ShownInv
  <2>2. CASE MayPutBack(queue)
    <3>1. /\ queue = <<>> /\ queue' = Append(queue, frame[t])
          /\ overtaken' = IF taken > frame[t].no THEN overtaken \cup {frame[t].no}
                          ELSE overtaken
      BY <2>2 DEF ProducerCommitIfEmpty, MayPutBack
    <3>2. frame[t] \in Frame
      BY <1>1 DEF Inv, FrameInv
    <3>3. Len(queue') = 1 /\ queue'[1] = frame[t]
      BY <3>1, <3>2
    <3>4. \A i \in 1..Len(queue') : i = 1
      BY <3>3
    <3>5. frame[t].no \in Nat /\ taken \in Nat
      BY FrameNumbers DEF Inv, TypeOK
    <3>6. frame[t].no >= taken \/ frame[t].no \in overtaken'
      BY <3>1, <3>5
    <3> QED BY <1>1, <3>3, <3>4, <3>6
  <2> QED BY <2>1, <2>2
<1> QED BY <1>1, <1>3, <1>5, <1>6 DEF ShownInv

LEMMA ShownSurfaces ==
  ASSUME Inv, ShownInv, NEW t \in Threads, DrawToSurfaces(t)
  PROVE  ShownInv' /\ (shown' >= shown \/ shown' \in overtaken)
<1>1. /\ UNCHANGED <<queue, frame, made, taken, overtaken>> /\ at[t] = "rasterize"
      /\ GoTo(t, "drawn")
      /\ shown' = shown \/ shown' = frame[t].no
      /\ merged' = merged \/ ~merged
  BY DEF DrawToSurfaces, Submit, Lose, SkipAndRetry, Resubmit, uiVars
<1>2. /\ shown \in Nat /\ taken \in Nat /\ frame[t].no \in Nat
  BY FrameNumbers DEF Inv, TypeOK
<1>3. /\ shown <= taken /\ frame[t].no <= taken
      /\ frame[t].no >= taken \/ frame[t].no \in overtaken
  BY <1>1 DEF ShownInv
<1>4. shown' <= taken' /\ (shown' >= shown \/ shown' \in overtaken)
  BY <1>1, <1>2, <1>3
<1>5. at'[t] = "drawn" /\ \A u \in Threads : u # t => at'[u] = at[u]
  BY <1>1 DEF GoTo, Inv, TypeOK
<1>6. at'["raster"] \in {"pop", "rasterize"} => ~merged'
  <2> SUFFICES ASSUME at'["raster"] \in {"pop", "rasterize"} PROVE ~merged'
    OBVIOUS
  <2>1. t = "platform" /\ at["raster"] \in {"pop", "rasterize"}
    BY <1>5 DEF Threads
  <2> QED BY <1>1, <2>1 DEF ShownInv, Inv, ServerInv
<1>7. \A u \in Threads : at'[u] = "rasterize" => at[u] = "rasterize"
  BY <1>5
<1> QED BY <1>1, <1>4, <1>6, <1>7 DEF ShownInv

(* A Draw starts on the thread that serves, and only a thread that has     *)
(* finished with its frame lets the other serve.                           *)
LEMMA ShownRaster ==
  ASSUME Inv, ShownInv, NEW t \in Threads,
         \/ Draw(t) \/ DecrementLease(t) \/ Release(t)
         \/ ProduceIfEmpty(t) \/ SignalAgain(t) \/ EndDraw(t)
  PROVE  ShownInv'
<1>1. UNCHANGED <<shown, taken, made, overtaken, queue>>
  BY DEF Draw, DecrementLease, Release, ProduceIfEmpty, SignalAgain, EndDraw,
         uiVars, history
<1>2. \A u \in Threads : at'[u] = "rasterize" => at[u] = "rasterize" /\ frame'[u] = frame[u]
  BY DEF Draw, DecrementLease, Release, ProduceIfEmpty, SignalAgain, EndDraw, GoTo,
         Inv, TypeOK
<1>3. at'["raster"] \in {"pop", "rasterize"} => ~merged'
  <2>1. CASE Draw(t)
    BY <2>1 DEF Draw, Serves, GoTo, ShownInv, Threads, Inv, TypeOK
  <2>2. CASE DecrementLease(t)
    <3>1. merged' = merged \/ ~merged'
      BY <2>2 DEF DecrementLease
    <3>2. at'["raster"] \in {"pop", "rasterize"} => at["raster"] = at'["raster"]
      BY <2>2 DEF DecrementLease, GoTo, Threads, Inv, TypeOK
    <3> QED BY <3>1, <3>2 DEF ShownInv
  <2>3. CASE Release(t) \/ ProduceIfEmpty(t) \/ SignalAgain(t) \/ EndDraw(t)
    <3>1. merged' = merged
      BY <2>3 DEF Release, ProduceIfEmpty, SignalAgain, EndDraw
    <3>2. at'["raster"] \in {"pop", "rasterize"} => at["raster"] = at'["raster"]
      BY <2>3 DEF Release, ProduceIfEmpty, SignalAgain, EndDraw, GoTo, Threads, Inv, TypeOK
    <3> QED BY <3>1, <3>2 DEF ShownInv
  <2> QED BY <2>1, <2>2, <2>3
<1> QED BY <1>1, <1>2, <1>3, ShownStays

LEMMA ShownInit == Init => ShownInv
  BY DEF Init, ShownInv, Threads

LEMMA ShownStep ==
  Inv /\ OrderInv /\ ShownInv /\ [Next]_vars
    => ShownInv' /\ (shown' >= shown \/ shown' \in overtaken)
<1> SUFFICES ASSUME Inv, OrderInv, ShownInv, [Next]_vars
             PROVE  ShownInv' /\ (shown' >= shown \/ shown' \in overtaken)
  OBVIOUS
<1>1. shown' = shown => shown' >= shown
  BY DEF Inv, TypeOK
<1>2. CASE \/ \E anew \in BOOLEAN : RequestFrame(anew)
           \/ DrawLastLayerTrees \/ BeginFrame \/ EndFrame \/ Produce
           \/ UNCHANGED vars
  <2>1. UNCHANGED <<shown, taken, made, overtaken, queue, at, frame, merged>>
    BY <1>2 DEF RequestFrame, DrawLastLayerTrees, BeginFrame, EndFrame, Produce,
                ProducerSignal, OnAnimatorDraw, threadVars, history, vars, uiVars
  <2>2. ShownInv'
    BY <2>1 DEF ShownInv
  <2> QED BY <1>1, <2>1, <2>2
<1>3. ASSUME NEW views \in BOOLEAN, ProducerCommit(views)
      PROVE  ShownInv' /\ shown' = shown
  BY <1>3, ShownCommit DEF ProducerCommit, history
<1>4. ASSUME NEW t \in Threads, RasterStep(t)
      PROVE  ShownInv' /\ (shown' >= shown \/ shown' \in overtaken)
  <2>1. CASE DrawToSurfaces(t)
    BY <2>1, ShownSurfaces
  <2>2. CASE ~DrawToSurfaces(t)
    <3>1. shown' = shown
      BY <1>4, <2>2 DEF RasterStep, Draw, Consume, DecrementLease, Release, ProduceIfEmpty,
         ProducerCommitIfEmpty, SignalAgain, EndDraw, history
    <3>2. ShownInv'
      BY <1>4, <2>2, ShownConsume, ShownPutBack, ShownRaster DEF RasterStep
    <3> QED BY <1>1, <3>1, <3>2
  <2> QED BY <2>1, <2>2
<1>5. CASE Teardown
  <2>1. /\ UNCHANGED <<shown, taken, made, overtaken, queue, at, frame>>
        /\ merged' = FALSE
    BY <1>5 DEF Teardown, history, uiVars
  <2> QED BY <1>1, <2>1, ShownStays
<1> QED BY <1>1, <1>2, <1>3, <1>4, <1>5 DEF Next

(* For any depth and number of frames, the screen goes back in time only   *)
(* to a frame that was overtaken before it was put back.                   *)
THEOREM ShownInOrderHolds == Spec => ShownInOrder
<1> DEFINE Shows == shown' >= shown \/ shown' \in overtaken
<1>1. Inv /\ OrderInv /\ ShownInv /\ [Next]_vars => [Shows]_vars
  BY ShownStep
<1>2. Inv /\ OrderInv /\ ShownInv /\ [Next]_vars => ShownInv'
  BY ShownStep
<1> QED BY <1>1, <1>2, ShownInit, InvHolds, OrderHolds, PTL DEF Spec, ShownInOrder
=============================================================================
