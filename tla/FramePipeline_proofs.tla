------------------------ MODULE FramePipeline_proofs ------------------------
(* Theorems about FramePipeline, for any depth and any number of frames.   *)
EXTENDS FramePipeline, TLAPS

USE DepthIsPositive, MaxFramesIsNatural

(* How many threads are at one of these steps.                             *)
Tally(S) == Count(at["raster"] \in S) + Count(at["platform"] \in S)

(* Between a token and the frame it stands for; with a place of the pipeline. *)
Between == {"pop", "signal"}
Holding == {"rasterize", "drawn", "release", "put"}

(* Every frame in the queue has a token, or is about to get one, or is     *)
(* about to be popped by the consumer that took its token.                 *)
TokensInv ==
  Len(queue) = available + Count(ui \in {"signalFirst", "signal"}) + Tally(Between)

(* Every place is free, promised, or held by a frame that waits or is drawn. *)
PlacesInv == Depth = empty + Count(continuation) + Len(queue) + Tally(Holding)

(* What the platform thread draws it draws as the server.                  *)
ServerInv == at["platform"] \in {"pop", "rasterize", "drawn"} => merged

(* What is drawn, or drawn once more, is a frame.                          *)
FrameInv ==
  \A t \in Threads :
    at[t] \in {"rasterize", "drawn", "release", "again", "put"} => frame[t] \in Frame

Inv == TypeOK /\ TokensInv /\ PlacesInv /\ ServerInv /\ FrameInv

-----------------------------------------------------------------------------
(* Type correctness and the two semaphores.                                *)

LEMMA CountIsBit == \A c : Count(c) \in {0, 1}
  BY DEF Count

LEMMA QueueLength == TypeOK => Len(queue) \in Nat
  BY DEF TypeOK

LEMMA TallyIsNatural == \A S : Tally(S) \in Nat
  BY CountIsBit DEF Tally

LEMMA FrameFields ==
  ASSUME TypeOK, NEW t \in Threads
  PROVE  frame[t].no \in 0..MaxFrames /\ frame[t].views \in BOOLEAN
<1>1. frame[t] \in Frame \/ frame[t] = NoFrame
  BY DEF TypeOK
<1>2. CASE frame[t] \in Frame
  BY <1>2 DEF Frame
<1>3. CASE frame[t] = NoFrame
  BY <1>3 DEF NoFrame
<1> QED BY <1>1, <1>2, <1>3

(* Where the threads are after one of them has moved.                      *)
LEMMA ThreadMoves ==
  ASSUME TypeOK, NEW t \in Threads, NEW step, GoTo(t, step)
  PROVE  /\ at'["raster"] = IF t = "raster" THEN step ELSE at["raster"]
         /\ at'["platform"] = IF t = "platform" THEN step ELSE at["platform"]
         /\ at'[t] = step
  BY DEF TypeOK, GoTo, Threads

LEMMA TallyMoves ==
  ASSUME TypeOK, NEW t \in Threads, NEW old, NEW step, at[t] = old, GoTo(t, step)
  PROVE  \A S : Tally(S)' = Tally(S) + Count(step \in S) - Count(old \in S)
<1> SUFFICES ASSUME NEW S
             PROVE  Tally(S)' = Tally(S) + Count(step \in S) - Count(old \in S)
  OBVIOUS
<1>1. CASE t = "raster"
  BY <1>1, ThreadMoves, CountIsBit DEF Tally
<1>2. CASE t = "platform"
  BY <1>2, ThreadMoves, CountIsBit DEF Tally
<1> QED BY <1>1, <1>2 DEF Threads

LEMMA ThreadTypes ==
  ASSUME TypeOK, NEW t \in Threads,
         NEW step \in {"idle", "pop", "rasterize", "drawn", "release",
                       "again", "put", "signal", "end"}
  PROVE  GoTo(t, step) =>
           at' \in [Threads -> {"idle", "pop", "rasterize", "drawn", "release",
                                "again", "put", "signal", "end"}]
  BY DEF TypeOK, GoTo

(* Neither semaphore counts more than the places.                          *)
LEMMA NextBounded ==
  ASSUME TokensInv', PlacesInv', empty' \in Nat, available' \in Nat
  PROVE  empty' \in 0..Depth /\ available' \in 0..Depth
<1>1. /\ Count((ui \in {"signalFirst", "signal"})') \in {0, 1}
      /\ Count(continuation') \in {0, 1}
      /\ Tally(Between)' \in Nat /\ Tally(Holding)' \in Nat
  BY CountIsBit DEF Tally
<1>2. empty' <= Depth
  BY <1>1 DEF TokensInv, PlacesInv
<1>3. available' <= Depth
  BY <1>1 DEF TokensInv, PlacesInv
<1> QED BY <1>2, <1>3

LEMMA InvInit == Init => Inv
<1> SUFFICES ASSUME Init PROVE Inv
  OBVIOUS
<1>1. at["raster"] = "idle" /\ at["platform"] = "idle"
  BY DEF Init, Threads
<1>2. /\ at \in [Threads -> {"idle", "pop", "rasterize", "drawn", "release",
                             "again", "put", "signal", "end"}]
      /\ frame \in [Threads -> Frame \cup {NoFrame}]
      /\ retry \in [Threads -> BOOLEAN] /\ more \in [Threads -> BOOLEAN]
  BY DEF Init
<1>3. TypeOK
  <2>1. queue \in Seq(Frame) /\ draws \in Nat /\ overtaken \subseteq 1..MaxFrames
    BY DEF Init
  <2>2. /\ pending \in BOOLEAN /\ regenerate \in BOOLEAN /\ continuation \in BOOLEAN
        /\ merged \in BOOLEAN /\ composed \in BOOLEAN
    BY DEF Init
  <2>3. ui \in {"idle", "build", "signalFirst", "signal", "announce"}
    BY DEF Init
  <2>4. /\ made \in 0..MaxFrames /\ shown \in 0..MaxFrames /\ taken \in 0..MaxFrames
        /\ empty \in 0..Depth /\ available \in 0..Depth
    BY DEF Init
  <2> QED BY <1>2, <2>1, <2>2, <2>3, <2>4 DEF TypeOK
<1>4. ui = "idle" /\ continuation = FALSE /\ Len(queue) = 0 /\ available = 0 /\ empty = Depth
  BY DEF Init
<1>5. TokensInv
  BY <1>1, <1>4 DEF TokensInv, Tally, Between, Count
<1>6. PlacesInv
  BY <1>1, <1>4 DEF PlacesInv, Tally, Holding, Count
<1> QED BY <1>1, <1>3, <1>5, <1>6 DEF Inv, ServerInv, FrameInv, Threads

LEMMA RequestFrameInv ==
  ASSUME Inv, NEW anew \in BOOLEAN, RequestFrame(anew)
  PROVE  Inv'
<1> USE DEF Inv, uiVars, semaphores, threadVars, history
<1>1. /\ UNCHANGED <<at, frame, retry, more, merged, composed, shown, taken, overtaken>>
      /\ queue' = queue /\ Len(queue) \in Nat
      /\ Tally(Between)' = Tally(Between) /\ Tally(Holding)' = Tally(Holding)
      /\ Tally(Between) \in Nat /\ Tally(Holding) \in Nat
  BY QueueLength, TallyIsNatural DEF RequestFrame, Tally
<1>2. TokensInv'
  BY <1>1 DEF RequestFrame, TypeOK, TokensInv, Count
<1>3. PlacesInv'
  BY <1>1 DEF RequestFrame, TypeOK, PlacesInv, Count
<1>4. empty' \in Nat /\ available' \in Nat
  BY DEF RequestFrame, TypeOK
<1>5. empty' \in 0..Depth /\ available' \in 0..Depth
  BY <1>2, <1>3, <1>4, NextBounded
<1>6. TypeOK'
  BY <1>1, <1>5 DEF RequestFrame, TypeOK
<1> QED BY <1>1, <1>2, <1>3, <1>6 DEF ServerInv, FrameInv


LEMMA DrawLastLayerTreesInv ==
  ASSUME Inv, DrawLastLayerTrees
  PROVE  Inv'
<1> USE DEF Inv, uiVars, semaphores, threadVars, history
<1>1. /\ UNCHANGED <<at, frame, retry, more, merged, composed, shown, taken, overtaken>>
      /\ queue' = queue /\ Len(queue) \in Nat
      /\ Tally(Between)' = Tally(Between) /\ Tally(Holding)' = Tally(Holding)
      /\ Tally(Between) \in Nat /\ Tally(Holding) \in Nat
  BY QueueLength, TallyIsNatural DEF DrawLastLayerTrees, Tally
<1>2. TokensInv'
  BY <1>1 DEF DrawLastLayerTrees, TypeOK, TokensInv, Count
<1>3. PlacesInv'
  BY <1>1 DEF DrawLastLayerTrees, TypeOK, PlacesInv, Count
<1>4. empty' \in Nat /\ available' \in Nat
  BY DEF DrawLastLayerTrees, TypeOK
<1>5. empty' \in 0..Depth /\ available' \in 0..Depth
  BY <1>2, <1>3, <1>4, NextBounded
<1>6. TypeOK'
  BY <1>1, <1>5 DEF DrawLastLayerTrees, TypeOK
<1> QED BY <1>1, <1>2, <1>3, <1>6 DEF ServerInv, FrameInv


LEMMA BeginFrameInv ==
  ASSUME Inv, BeginFrame
  PROVE  Inv'
<1> USE DEF Inv, uiVars, semaphores, threadVars, history
<1>1. /\ UNCHANGED <<at, frame, retry, more, merged, composed, shown, taken, overtaken>>
      /\ queue' = queue /\ Len(queue) \in Nat
      /\ Tally(Between)' = Tally(Between) /\ Tally(Holding)' = Tally(Holding)
      /\ Tally(Between) \in Nat /\ Tally(Holding) \in Nat
  BY QueueLength, TallyIsNatural DEF BeginFrame, Tally
<1>2. TokensInv'
  BY <1>1 DEF BeginFrame, HasPlace, AskedAgain, TypeOK, TokensInv, Count
<1>3. PlacesInv'
  <2>1. CASE continuation
    BY <1>1, <2>1 DEF BeginFrame, TypeOK, PlacesInv, Count
  <2>2. CASE ~continuation /\ ~HasPlace(empty)
    BY <1>1, <2>2 DEF BeginFrame, TypeOK, PlacesInv, Count
  <2>3. CASE ~continuation /\ HasPlace(empty)
    <3>1. empty' = empty - 1 /\ continuation' = TRUE
      BY <2>3 DEF BeginFrame
    <3>2. Count(continuation) = 0 /\ Count(continuation') = 1
      BY <2>3, <3>1 DEF Count
    <3> QED BY <1>1, <3>1, <3>2 DEF TypeOK, PlacesInv
  <2> QED BY <2>1, <2>2, <2>3
<1>4. empty' \in Nat /\ available' \in Nat
  BY DEF BeginFrame, HasPlace, AskedAgain, TypeOK
<1>5. empty' \in 0..Depth /\ available' \in 0..Depth
  BY <1>2, <1>3, <1>4, NextBounded
<1>6. TypeOK'
  BY <1>1, <1>5 DEF BeginFrame, HasPlace, AskedAgain, TypeOK
<1> QED BY <1>1, <1>2, <1>3, <1>6 DEF ServerInv, FrameInv


LEMMA EndFrameInv ==
  ASSUME Inv, EndFrame
  PROVE  Inv'
<1> USE DEF Inv, uiVars, semaphores, threadVars, history
<1>1. /\ UNCHANGED <<at, frame, retry, more, merged, composed, shown, taken, overtaken>>
      /\ queue' = queue /\ Len(queue) \in Nat
      /\ Tally(Between)' = Tally(Between) /\ Tally(Holding)' = Tally(Holding)
      /\ Tally(Between) \in Nat /\ Tally(Holding) \in Nat
  BY QueueLength, TallyIsNatural DEF EndFrame, Tally
<1>2. TokensInv'
  BY <1>1 DEF EndFrame, TypeOK, TokensInv, Count
<1>3. PlacesInv'
  BY <1>1 DEF EndFrame, TypeOK, PlacesInv, Count
<1>4. empty' \in Nat /\ available' \in Nat
  BY DEF EndFrame, TypeOK
<1>5. empty' \in 0..Depth /\ available' \in 0..Depth
  BY <1>2, <1>3, <1>4, NextBounded
<1>6. TypeOK'
  BY <1>1, <1>5 DEF EndFrame, TypeOK
<1> QED BY <1>1, <1>2, <1>3, <1>6 DEF ServerInv, FrameInv


LEMMA ProducerSignalInv ==
  ASSUME Inv, ProducerSignal
  PROVE  Inv'
<1> USE DEF Inv, uiVars, semaphores, threadVars, history
<1>1. /\ UNCHANGED <<at, frame, retry, more, merged, composed, shown, taken, overtaken>>
      /\ queue' = queue /\ Len(queue) \in Nat
      /\ Tally(Between)' = Tally(Between) /\ Tally(Holding)' = Tally(Holding)
      /\ Tally(Between) \in Nat /\ Tally(Holding) \in Nat
  BY QueueLength, TallyIsNatural DEF ProducerSignal, Tally
<1>2. TokensInv'
  BY <1>1 DEF ProducerSignal, TypeOK, TokensInv, Count
<1>3. PlacesInv'
  BY <1>1 DEF ProducerSignal, TypeOK, PlacesInv, Count
<1>4. empty' \in Nat /\ available' \in Nat
  BY DEF ProducerSignal, TypeOK
<1>5. empty' \in 0..Depth /\ available' \in 0..Depth
  BY <1>2, <1>3, <1>4, NextBounded
<1>6. TypeOK'
  BY <1>1, <1>5 DEF ProducerSignal, TypeOK
<1> QED BY <1>1, <1>2, <1>3, <1>6 DEF ServerInv, FrameInv


LEMMA OnAnimatorDrawInv ==
  ASSUME Inv, OnAnimatorDraw
  PROVE  Inv'
<1> USE DEF Inv, uiVars, semaphores, threadVars, history
<1>1. /\ UNCHANGED <<at, frame, retry, more, merged, composed, shown, taken, overtaken>>
      /\ queue' = queue /\ Len(queue) \in Nat
      /\ Tally(Between)' = Tally(Between) /\ Tally(Holding)' = Tally(Holding)
      /\ Tally(Between) \in Nat /\ Tally(Holding) \in Nat
  BY QueueLength, TallyIsNatural DEF OnAnimatorDraw, Tally
<1>2. TokensInv'
  BY <1>1 DEF OnAnimatorDraw, TypeOK, TokensInv, Count
<1>3. PlacesInv'
  BY <1>1 DEF OnAnimatorDraw, TypeOK, PlacesInv, Count
<1>4. empty' \in Nat /\ available' \in Nat
  BY DEF OnAnimatorDraw, TypeOK
<1>5. empty' \in 0..Depth /\ available' \in 0..Depth
  BY <1>2, <1>3, <1>4, NextBounded
<1>6. TypeOK'
  BY <1>1, <1>5 DEF OnAnimatorDraw, TypeOK
<1> QED BY <1>1, <1>2, <1>3, <1>6 DEF ServerInv, FrameInv

LEMMA DrawInv ==
  ASSUME Inv, NEW t \in Threads, Draw(t)
  PROVE  Inv'
<1> USE DEF Inv, uiVars, semaphores, threadVars, history
<1>1. /\ at[t] = "idle"
      /\ Len(queue) \in Nat /\ empty \in Nat /\ available \in Nat
      /\ Tally(Between) \in Nat /\ Tally(Holding) \in Nat
      /\ Count((ui \in {"signalFirst", "signal"})') = Count(ui \in {"signalFirst", "signal"})
      /\ Count(continuation') = Count(continuation)
      /\ Count(ui \in {"signalFirst", "signal"}) \in {0, 1} /\ Count(continuation) \in {0, 1}
  BY QueueLength, TallyIsNatural, CountIsBit DEF Draw, TypeOK
<1>2. TokensInv' /\ PlacesInv'
  <2>1. CASE HasToken(available)
    <3>1. empty' = empty /\ available' = available - 1 /\ queue' = queue
      BY <2>1, <1>1 DEF Draw, HasToken, Serves, TypeOK
    <3>2. GoTo(t, "pop")
      BY <2>1, <1>1 DEF Draw, HasToken, Serves
    <3>3. \A S : Tally(S)' = Tally(S) + Count("pop" \in S) - Count("idle" \in S)
      BY <1>1, <3>2, TallyMoves
    <3>4. Tally(Between)' = Tally(Between) + 1 /\ Tally(Holding)' = Tally(Holding)
      BY <1>1, <3>3 DEF Between, Holding, Count
    <3>5. TokensInv'
      BY <1>1, <3>1, <3>4 DEF TokensInv
    <3>6. PlacesInv'
      BY <1>1, <3>1, <3>4 DEF PlacesInv
    <3> QED BY <3>5, <3>6
  <2>2. CASE ~HasToken(available)
    <3>1. empty' = empty /\ available' = available /\ queue' = queue
      BY <2>2, <1>1 DEF Draw, HasToken, Serves, TypeOK
    <3>2. Tally(Between)' = Tally(Between) /\ Tally(Holding)' = Tally(Holding)
      BY <2>2, <1>1 DEF Draw, HasToken, Serves, Tally
    <3>3. TokensInv'
      BY <1>1, <3>1, <3>2 DEF TokensInv
    <3>4. PlacesInv'
      BY <1>1, <3>1, <3>2 DEF PlacesInv
    <3> QED BY <3>3, <3>4
  <2> QED BY <2>1, <2>2
<1>3. empty' \in Nat /\ available' \in Nat
  BY <1>1 DEF Draw, HasToken, Serves, TypeOK
<1>4. empty' \in 0..Depth /\ available' \in 0..Depth
  BY <1>2, <1>3, NextBounded
<1>5. at' \in [Threads -> {"idle", "pop", "rasterize", "drawn", "release",
                           "again", "put", "signal", "end"}]
  BY ThreadTypes DEF Draw, HasToken, Serves, TypeOK
<1>6. UNCHANGED <<pending, regenerate, continuation, made, ui, queue, merged, frame, retry, more, composed, shown, taken, overtaken>>
  BY DEF Draw, HasToken, Serves
<1>7. draws' \in Nat
  BY DEF Draw, TypeOK
<1>8. TypeOK'
  BY <1>4, <1>5, <1>6, <1>7 DEF TypeOK
<1>9. ServerInv'
  BY <1>1 DEF Draw, HasToken, Serves, GoTo, ServerInv, TypeOK, Threads
<1>10. FrameInv'
  BY <1>1 DEF Draw, HasToken, Serves, GoTo, FrameInv, TypeOK
<1> QED BY <1>2, <1>8, <1>9, <1>10

LEMMA ConsumeInv ==
  ASSUME Inv, NEW t \in Threads, Consume(t)
  PROVE  Inv'
<1> USE DEF Inv, uiVars, semaphores, threadVars, history
<1>0. Len(queue) >= 1 /\ queue # <<>>
  <2>1. at["raster"] = "pop" \/ at["platform"] = "pop"
    BY DEF Consume, Threads
  <2>2. Tally(Between) >= 1
    BY <2>1, CountIsBit DEF Tally, Between, Count
  <2>3. Len(queue) >= 1
    BY <2>2, CountIsBit, TallyIsNatural DEF TokensInv, TypeOK
  <2> QED BY <2>3 DEF TypeOK
<1>1. /\ at[t] = "pop"
      /\ Len(queue) \in Nat /\ empty \in Nat /\ available \in Nat
      /\ Tally(Between) \in Nat /\ Tally(Holding) \in Nat
      /\ Count((ui \in {"signalFirst", "signal"})') = Count(ui \in {"signalFirst", "signal"})
      /\ Count(continuation') = Count(continuation)
      /\ Count(ui \in {"signalFirst", "signal"}) \in {0, 1} /\ Count(continuation) \in {0, 1}
  BY QueueLength, TallyIsNatural, CountIsBit DEF Consume, TypeOK
<1>2. TokensInv' /\ PlacesInv'
  <2>1. empty' = empty /\ available' = available /\ Len(queue') = Len(queue) - 1
    BY <1>0, <1>1 DEF Consume, TypeOK
  <2>2. GoTo(t, "rasterize")
    BY <1>1 DEF Consume
  <2>3. \A S : Tally(S)' = Tally(S) + Count("rasterize" \in S) - Count("pop" \in S)
    BY <1>1, <2>2, TallyMoves
  <2>4. Tally(Between)' = Tally(Between) - 1 /\ Tally(Holding)' = Tally(Holding) + 1
    BY <1>1, <2>3 DEF Between, Holding, Count
  <2>5. TokensInv'
    BY <1>1, <2>1, <2>4 DEF TokensInv
  <2>6. PlacesInv'
    <3>1. empty + Count(continuation) \in Nat
      BY <1>1
    <3>2. Depth = (empty + Count(continuation)) + Len(queue) + Tally(Holding)
      BY DEF PlacesInv
    <3>3. Depth = (empty + Count(continuation)) + Len(queue') + Tally(Holding)'
      BY <1>1, <2>1, <2>4, <3>1, <3>2
    <3> QED BY <1>1, <2>1, <3>3 DEF PlacesInv
  <2> QED BY <2>5, <2>6
<1>3. empty' \in Nat /\ available' \in Nat
  BY <1>1 DEF Consume, TypeOK
<1>4. empty' \in 0..Depth /\ available' \in 0..Depth
  BY <1>2, <1>3, NextBounded
<1>5. at' \in [Threads -> {"idle", "pop", "rasterize", "drawn", "release",
                           "again", "put", "signal", "end"}]
  BY ThreadTypes DEF Consume
<1>6. UNCHANGED <<pending, regenerate, continuation, made, ui, draws, merged, retry, composed, shown, overtaken>>
  BY DEF Consume
<1>7. queue' \in Seq(Frame) /\ Head(queue) \in Frame
  BY <1>0 DEF Consume, TypeOK
<1>8. frame' \in [Threads -> Frame \cup {NoFrame}]
  BY <1>7 DEF Consume, TypeOK
<1>9. more' \in [Threads -> BOOLEAN]
  BY DEF Consume, MoreWait, TypeOK
<1>10. taken' \in 0..MaxFrames
  BY <1>7 DEF Consume, Frame, TypeOK
<1>11. TypeOK'
  BY <1>4, <1>5, <1>6, <1>7, <1>8, <1>9, <1>10 DEF TypeOK
<1>12. ServerInv'
  BY <1>1, ThreadMoves DEF Consume, ServerInv
<1>13. FrameInv'
  BY <1>1, <1>7 DEF Consume, GoTo, FrameInv, TypeOK
<1> QED BY <1>2, <1>11, <1>12, <1>13

LEMMA DrawToSurfacesInv ==
  ASSUME Inv, NEW t \in Threads, DrawToSurfaces(t)
  PROVE  Inv'
<1> USE DEF Inv, uiVars, semaphores, threadVars, history
<1>1. /\ at[t] = "rasterize"
      /\ Len(queue) \in Nat /\ empty \in Nat /\ available \in Nat
      /\ Tally(Between) \in Nat /\ Tally(Holding) \in Nat
      /\ Count((ui \in {"signalFirst", "signal"})') = Count(ui \in {"signalFirst", "signal"})
      /\ Count(continuation') = Count(continuation)
      /\ Count(ui \in {"signalFirst", "signal"}) \in {0, 1} /\ Count(continuation) \in {0, 1}
  BY QueueLength, TallyIsNatural, CountIsBit DEF DrawToSurfaces, TypeOK
<1>2. TokensInv' /\ PlacesInv'
  <2>1. empty' = empty /\ available' = available /\ queue' = queue
    BY <1>1 DEF DrawToSurfaces, TypeOK
  <2>2. GoTo(t, "drawn")
    BY <1>1 DEF DrawToSurfaces
  <2>3. \A S : Tally(S)' = Tally(S) + Count("drawn" \in S) - Count("rasterize" \in S)
    BY <1>1, <2>2, TallyMoves
  <2>4. Tally(Between)' = Tally(Between) /\ Tally(Holding)' = Tally(Holding)
    BY <1>1, <2>3 DEF Between, Holding, Count
  <2>5. TokensInv'
    BY <1>1, <2>1, <2>4 DEF TokensInv
  <2>6. PlacesInv'
    BY <1>1, <2>1, <2>4 DEF PlacesInv
  <2> QED BY <2>5, <2>6
<1>3. empty' \in Nat /\ available' \in Nat
  BY <1>1 DEF DrawToSurfaces, TypeOK
<1>4. empty' \in 0..Depth /\ available' \in 0..Depth
  BY <1>2, <1>3, NextBounded
<1>5. at' \in [Threads -> {"idle", "pop", "rasterize", "drawn", "release",
                           "again", "put", "signal", "end"}]
  BY ThreadTypes DEF DrawToSurfaces
<1>6. UNCHANGED <<pending, regenerate, continuation, made, ui, draws, queue, frame, more, taken, overtaken>>
  BY DEF DrawToSurfaces
<1>7. merged' \in BOOLEAN /\ composed' \in BOOLEAN
  <2>1. merged' \in {merged, TRUE, FALSE} /\ composed' \in {composed, FALSE, TRUE, frame[t].views}
    BY DEF DrawToSurfaces, Submit, Lose, SkipAndRetry, Resubmit
  <2> QED BY <2>1, FrameFields DEF TypeOK
<1>8. retry' \in [Threads -> BOOLEAN]
  BY DEF DrawToSurfaces, Submit, Lose, SkipAndRetry, Resubmit, TypeOK
<1>9. shown' \in 0..MaxFrames
  BY FrameFields DEF DrawToSurfaces, Submit, Lose, SkipAndRetry, Resubmit, TypeOK
<1>10. TypeOK'
  BY <1>4, <1>5, <1>6, <1>7, <1>8, <1>9 DEF TypeOK
<1>11. ServerInv'
  <2>1. merged => merged'
    BY DEF DrawToSurfaces, Submit, Lose, SkipAndRetry, Resubmit
  <2>2. at'["platform"] \in {"pop", "rasterize", "drawn"} => at["platform"] \in {"pop", "rasterize", "drawn"}
    BY <1>1, ThreadMoves DEF DrawToSurfaces
  <2> QED BY <2>1, <2>2 DEF ServerInv
<1>12. FrameInv'
  BY <1>1 DEF DrawToSurfaces, GoTo, FrameInv, TypeOK
<1> QED BY <1>2, <1>10, <1>11, <1>12

LEMMA DecrementLeaseInv ==
  ASSUME Inv, NEW t \in Threads, DecrementLease(t)
  PROVE  Inv'
<1> USE DEF Inv, uiVars, semaphores, threadVars, history
<1>1. /\ at[t] = "drawn"
      /\ Len(queue) \in Nat /\ empty \in Nat /\ available \in Nat
      /\ Tally(Between) \in Nat /\ Tally(Holding) \in Nat
      /\ Count((ui \in {"signalFirst", "signal"})') = Count(ui \in {"signalFirst", "signal"})
      /\ Count(continuation') = Count(continuation)
      /\ Count(ui \in {"signalFirst", "signal"}) \in {0, 1} /\ Count(continuation) \in {0, 1}
  BY QueueLength, TallyIsNatural, CountIsBit DEF DecrementLease, TypeOK
<1>2. TokensInv' /\ PlacesInv'
  <2>1. empty' = empty /\ available' = available /\ queue' = queue
    BY <1>1 DEF DecrementLease, TypeOK
  <2>2. GoTo(t, "release")
    BY <1>1 DEF DecrementLease
  <2>3. \A S : Tally(S)' = Tally(S) + Count("release" \in S) - Count("drawn" \in S)
    BY <1>1, <2>2, TallyMoves
  <2>4. Tally(Between)' = Tally(Between) /\ Tally(Holding)' = Tally(Holding)
    BY <1>1, <2>3 DEF Between, Holding, Count
  <2>5. TokensInv'
    BY <1>1, <2>1, <2>4 DEF TokensInv
  <2>6. PlacesInv'
    BY <1>1, <2>1, <2>4 DEF PlacesInv
  <2> QED BY <2>5, <2>6
<1>3. empty' \in Nat /\ available' \in Nat
  BY <1>1 DEF DecrementLease, TypeOK
<1>4. empty' \in 0..Depth /\ available' \in 0..Depth
  BY <1>2, <1>3, NextBounded
<1>5. at' \in [Threads -> {"idle", "pop", "rasterize", "drawn", "release",
                           "again", "put", "signal", "end"}]
  BY ThreadTypes DEF DecrementLease
<1>6. UNCHANGED <<pending, regenerate, continuation, made, ui, draws, queue, frame, retry, composed, shown, taken, overtaken>>
  BY DEF DecrementLease
<1>7. merged' \in BOOLEAN
  BY DEF DecrementLease, TypeOK
<1>8. more' \in [Threads -> BOOLEAN]
  BY DEF DecrementLease, TypeOK
<1>9. TypeOK'
  BY <1>4, <1>5, <1>6, <1>7, <1>8 DEF TypeOK
<1>10. ServerInv'
  <2>1. CASE UNCHANGED merged
    BY <1>1, <2>1, ThreadMoves DEF DecrementLease, ServerInv
  <2>2. CASE MayPart(t)
    BY <1>1, <2>2, ThreadMoves DEF DecrementLease, MayPart, ServerInv
  <2> QED BY <2>1, <2>2 DEF DecrementLease
<1>11. FrameInv'
  BY <1>1 DEF DecrementLease, GoTo, FrameInv, TypeOK
<1> QED BY <1>2, <1>9, <1>10, <1>11

LEMMA ReleaseInv ==
  ASSUME Inv, NEW t \in Threads, Release(t)
  PROVE  Inv'
<1> USE DEF Inv, uiVars, semaphores, threadVars, history
<1>1. /\ at[t] = "release"
      /\ Len(queue) \in Nat /\ empty \in Nat /\ available \in Nat
      /\ Tally(Between) \in Nat /\ Tally(Holding) \in Nat
      /\ Count((ui \in {"signalFirst", "signal"})') = Count(ui \in {"signalFirst", "signal"})
      /\ Count(continuation') = Count(continuation)
      /\ Count(ui \in {"signalFirst", "signal"}) \in {0, 1} /\ Count(continuation) \in {0, 1}
  BY QueueLength, TallyIsNatural, CountIsBit DEF Release, TypeOK
<1>2. TokensInv' /\ PlacesInv'
  <2>1. CASE retry[t]
    <3>1. empty' = empty + 1 /\ available' = available /\ queue' = queue
      BY <2>1, <1>1 DEF Release, TypeOK
    <3>2. GoTo(t, "again")
      BY <2>1, <1>1 DEF Release
    <3>3. \A S : Tally(S)' = Tally(S) + Count("again" \in S) - Count("release" \in S)
      BY <1>1, <3>2, TallyMoves
    <3>4. Tally(Between)' = Tally(Between) /\ Tally(Holding)' = Tally(Holding) - 1
      BY <1>1, <3>3 DEF Between, Holding, Count
    <3>5. TokensInv'
      BY <1>1, <3>1, <3>4 DEF TokensInv
    <3>6. PlacesInv'
      BY <1>1, <3>1, <3>4 DEF PlacesInv
    <3> QED BY <3>5, <3>6
  <2>2. CASE ~retry[t]
    <3>1. empty' = empty + 1 /\ available' = available /\ queue' = queue
      BY <2>2, <1>1 DEF Release, TypeOK
    <3>2. GoTo(t, "end")
      BY <2>2, <1>1 DEF Release
    <3>3. \A S : Tally(S)' = Tally(S) + Count("end" \in S) - Count("release" \in S)
      BY <1>1, <3>2, TallyMoves
    <3>4. Tally(Between)' = Tally(Between) /\ Tally(Holding)' = Tally(Holding) - 1
      BY <1>1, <3>3 DEF Between, Holding, Count
    <3>5. TokensInv'
      BY <1>1, <3>1, <3>4 DEF TokensInv
    <3>6. PlacesInv'
      BY <1>1, <3>1, <3>4 DEF PlacesInv
    <3> QED BY <3>5, <3>6
  <2> QED BY <2>1, <2>2
<1>3. empty' \in Nat /\ available' \in Nat
  BY <1>1 DEF Release, TypeOK
<1>4. empty' \in 0..Depth /\ available' \in 0..Depth
  BY <1>2, <1>3, NextBounded
<1>5. at' \in [Threads -> {"idle", "pop", "rasterize", "drawn", "release",
                           "again", "put", "signal", "end"}]
  BY ThreadTypes DEF Release, TypeOK
<1>6. UNCHANGED <<pending, regenerate, continuation, made, ui, draws, queue, merged, frame, retry, more, composed, shown, taken, overtaken>>
  BY DEF Release
<1>7. TypeOK'
  BY <1>4, <1>5, <1>6 DEF TypeOK
<1>8. ServerInv'
  <2>1. at'["platform"] \in {"pop", "rasterize", "drawn"} => at["platform"] = at'["platform"]
    BY <1>1, ThreadMoves DEF Release
  <2> QED BY <2>1 DEF Release, ServerInv
<1>9. FrameInv'
  BY <1>1 DEF Release, GoTo, FrameInv, TypeOK
<1> QED BY <1>2, <1>7, <1>8, <1>9

LEMMA ProduceIfEmptyInv ==
  ASSUME Inv, NEW t \in Threads, ProduceIfEmpty(t)
  PROVE  Inv'
<1> USE DEF Inv, uiVars, semaphores, threadVars, history
<1>1. /\ at[t] = "again"
      /\ Len(queue) \in Nat /\ empty \in Nat /\ available \in Nat
      /\ Tally(Between) \in Nat /\ Tally(Holding) \in Nat
      /\ Count((ui \in {"signalFirst", "signal"})') = Count(ui \in {"signalFirst", "signal"})
      /\ Count(continuation') = Count(continuation)
      /\ Count(ui \in {"signalFirst", "signal"}) \in {0, 1} /\ Count(continuation) \in {0, 1}
  BY QueueLength, TallyIsNatural, CountIsBit DEF ProduceIfEmpty, TypeOK
<1>2. TokensInv' /\ PlacesInv'
  <2>1. CASE HasPlace(empty)
    <3>1. empty' = empty - 1 /\ available' = available /\ queue' = queue
      BY <2>1, <1>1 DEF ProduceIfEmpty, HasPlace, TypeOK
    <3>2. GoTo(t, "put")
      BY <2>1, <1>1 DEF ProduceIfEmpty, HasPlace
    <3>3. \A S : Tally(S)' = Tally(S) + Count("put" \in S) - Count("again" \in S)
      BY <1>1, <3>2, TallyMoves
    <3>4. Tally(Between)' = Tally(Between) /\ Tally(Holding)' = Tally(Holding) + 1
      BY <1>1, <3>3 DEF Between, Holding, Count
    <3>5. TokensInv'
      BY <1>1, <3>1, <3>4 DEF TokensInv
    <3>6. PlacesInv'
      BY <1>1, <3>1, <3>4 DEF PlacesInv
    <3> QED BY <3>5, <3>6
  <2>2. CASE ~HasPlace(empty)
    <3>1. empty' = empty /\ available' = available /\ queue' = queue
      BY <2>2, <1>1 DEF ProduceIfEmpty, HasPlace, TypeOK
    <3>2. GoTo(t, "end")
      BY <2>2, <1>1 DEF ProduceIfEmpty, HasPlace
    <3>3. \A S : Tally(S)' = Tally(S) + Count("end" \in S) - Count("again" \in S)
      BY <1>1, <3>2, TallyMoves
    <3>4. Tally(Between)' = Tally(Between) /\ Tally(Holding)' = Tally(Holding)
      BY <1>1, <3>3 DEF Between, Holding, Count
    <3>5. TokensInv'
      BY <1>1, <3>1, <3>4 DEF TokensInv
    <3>6. PlacesInv'
      BY <1>1, <3>1, <3>4 DEF PlacesInv
    <3> QED BY <3>5, <3>6
  <2> QED BY <2>1, <2>2
<1>3. empty' \in Nat /\ available' \in Nat
  BY <1>1 DEF ProduceIfEmpty, HasPlace, TypeOK
<1>4. empty' \in 0..Depth /\ available' \in 0..Depth
  BY <1>2, <1>3, NextBounded
<1>5. at' \in [Threads -> {"idle", "pop", "rasterize", "drawn", "release",
                           "again", "put", "signal", "end"}]
  BY ThreadTypes DEF ProduceIfEmpty, HasPlace, TypeOK
<1>6. UNCHANGED <<pending, regenerate, continuation, made, ui, draws, queue, merged, frame, retry, more, composed, shown, taken, overtaken>>
  BY DEF ProduceIfEmpty, HasPlace
<1>7. TypeOK'
  BY <1>4, <1>5, <1>6 DEF TypeOK
<1>8. ServerInv'
  <2>1. at'["platform"] \in {"pop", "rasterize", "drawn"} => at["platform"] = at'["platform"]
    BY <1>1, ThreadMoves DEF ProduceIfEmpty
  <2> QED BY <2>1 DEF ProduceIfEmpty, ServerInv
<1>9. FrameInv'
  BY <1>1 DEF ProduceIfEmpty, HasPlace, GoTo, FrameInv, TypeOK
<1> QED BY <1>2, <1>7, <1>8, <1>9

LEMMA ProducerCommitIfEmptyInv ==
  ASSUME Inv, NEW t \in Threads, ProducerCommitIfEmpty(t)
  PROVE  Inv'
<1> USE DEF Inv, uiVars, semaphores, threadVars, history
<1>0. frame[t] \in Frame
  BY DEF ProducerCommitIfEmpty, FrameInv
<1>1. /\ at[t] = "put"
      /\ Len(queue) \in Nat /\ empty \in Nat /\ available \in Nat
      /\ Tally(Between) \in Nat /\ Tally(Holding) \in Nat
      /\ Count((ui \in {"signalFirst", "signal"})') = Count(ui \in {"signalFirst", "signal"})
      /\ Count(continuation') = Count(continuation)
      /\ Count(ui \in {"signalFirst", "signal"}) \in {0, 1} /\ Count(continuation) \in {0, 1}
  BY QueueLength, TallyIsNatural, CountIsBit DEF ProducerCommitIfEmpty, TypeOK
<1>2. TokensInv' /\ PlacesInv'
  <2>1. CASE MayPutBack(queue)
    <3>1. empty' = empty /\ available' = available /\ Len(queue') = Len(queue) + 1
      BY <2>1, <1>1 DEF ProducerCommitIfEmpty, TypeOK
    <3>2. GoTo(t, "signal")
      BY <2>1, <1>1 DEF ProducerCommitIfEmpty
    <3>3. \A S : Tally(S)' = Tally(S) + Count("signal" \in S) - Count("put" \in S)
      BY <1>1, <3>2, TallyMoves
    <3>4. Tally(Between)' = Tally(Between) + 1 /\ Tally(Holding)' = Tally(Holding) - 1
      BY <1>1, <3>3 DEF Between, Holding, Count
    <3>5. TokensInv'
      BY <1>1, <3>1, <3>4 DEF TokensInv
    <3>6. PlacesInv'
      <4>1. Depth = (empty + Count(continuation)) + Len(queue) + Tally(Holding)
        BY DEF PlacesInv
      <4>2. empty + Count(continuation) \in Nat
        BY <1>1
      <4>3. Depth = (empty + Count(continuation)) + Len(queue') + Tally(Holding)'
        BY <1>1, <3>1, <3>4, <4>1, <4>2
      <4> QED BY <1>1, <3>1, <4>3 DEF PlacesInv
    <3> QED BY <3>5, <3>6
  <2>2. CASE ~MayPutBack(queue)
    <3>1. empty' = empty + 1 /\ available' = available /\ queue' = queue
      BY <2>2, <1>1 DEF ProducerCommitIfEmpty, TypeOK
    <3>2. GoTo(t, "end")
      BY <2>2, <1>1 DEF ProducerCommitIfEmpty
    <3>3. \A S : Tally(S)' = Tally(S) + Count("end" \in S) - Count("put" \in S)
      BY <1>1, <3>2, TallyMoves
    <3>4. Tally(Between)' = Tally(Between) /\ Tally(Holding)' = Tally(Holding) - 1
      BY <1>1, <3>3 DEF Between, Holding, Count
    <3>5. TokensInv'
      BY <1>1, <3>1, <3>4 DEF TokensInv
    <3>6. PlacesInv'
      BY <1>1, <3>1, <3>4 DEF PlacesInv
    <3> QED BY <3>5, <3>6
  <2> QED BY <2>1, <2>2
<1>3. empty' \in Nat /\ available' \in Nat
  BY <1>1 DEF ProducerCommitIfEmpty, TypeOK
<1>4. empty' \in 0..Depth /\ available' \in 0..Depth
  BY <1>2, <1>3, NextBounded
<1>5. at' \in [Threads -> {"idle", "pop", "rasterize", "drawn", "release",
                           "again", "put", "signal", "end"}]
  BY ThreadTypes DEF ProducerCommitIfEmpty, TypeOK
<1>6. UNCHANGED <<pending, regenerate, continuation, made, ui, draws, merged, frame, retry, more, composed, shown, taken>>
  BY DEF ProducerCommitIfEmpty
<1>7. queue' \in Seq(Frame)
  BY <1>0 DEF ProducerCommitIfEmpty, TypeOK
<1>8. overtaken' \subseteq 1..MaxFrames
  <2>1. frame[t].no \in 1..MaxFrames
    BY <1>0 DEF Frame
  <2>2. overtaken' \in {overtaken, overtaken \cup {frame[t].no}}
    BY DEF ProducerCommitIfEmpty
  <2> QED BY <2>1, <2>2 DEF TypeOK
<1>9. TypeOK'
  BY <1>4, <1>5, <1>6, <1>7, <1>8 DEF TypeOK
<1>10. ServerInv'
  <2>1. at'["platform"] \in {"pop", "rasterize", "drawn"} => at["platform"] = at'["platform"]
    BY <1>1, ThreadMoves DEF ProducerCommitIfEmpty
  <2> QED BY <2>1 DEF ProducerCommitIfEmpty, ServerInv
<1>11. FrameInv'
  BY <1>1 DEF ProducerCommitIfEmpty, GoTo, FrameInv, TypeOK
<1> QED BY <1>2, <1>9, <1>10, <1>11

LEMMA SignalAgainInv ==
  ASSUME Inv, NEW t \in Threads, SignalAgain(t)
  PROVE  Inv'
<1> USE DEF Inv, uiVars, semaphores, threadVars, history
<1>1. /\ at[t] = "signal"
      /\ Len(queue) \in Nat /\ empty \in Nat /\ available \in Nat
      /\ Tally(Between) \in Nat /\ Tally(Holding) \in Nat
      /\ Count((ui \in {"signalFirst", "signal"})') = Count(ui \in {"signalFirst", "signal"})
      /\ Count(continuation') = Count(continuation)
      /\ Count(ui \in {"signalFirst", "signal"}) \in {0, 1} /\ Count(continuation) \in {0, 1}
  BY QueueLength, TallyIsNatural, CountIsBit DEF SignalAgain, TypeOK
<1>2. TokensInv' /\ PlacesInv'
  <2>1. available' = available + 1 /\ empty' = empty /\ queue' = queue
    BY <1>1 DEF SignalAgain, TypeOK
  <2>2. GoTo(t, "end")
    BY <1>1 DEF SignalAgain
  <2>3. \A S : Tally(S)' = Tally(S) + Count("end" \in S) - Count("signal" \in S)
    BY <1>1, <2>2, TallyMoves
  <2>4. Tally(Between)' = Tally(Between) - 1 /\ Tally(Holding)' = Tally(Holding)
    BY <1>1, <2>3 DEF Between, Holding, Count
  <2>5. TokensInv'
    BY <1>1, <2>1, <2>4 DEF TokensInv
  <2>6. PlacesInv'
    BY <1>1, <2>1, <2>4 DEF PlacesInv
  <2> QED BY <2>5, <2>6
<1>3. empty' \in Nat /\ available' \in Nat
  BY <1>1 DEF SignalAgain, TypeOK
<1>4. empty' \in 0..Depth /\ available' \in 0..Depth
  BY <1>2, <1>3, NextBounded
<1>5. at' \in [Threads -> {"idle", "pop", "rasterize", "drawn", "release",
                           "again", "put", "signal", "end"}]
  BY ThreadTypes DEF SignalAgain
<1>6. UNCHANGED <<pending, regenerate, continuation, made, ui, draws, queue, merged, frame, retry, composed, shown, taken, overtaken>>
  BY DEF SignalAgain
<1>7. more' \in [Threads -> BOOLEAN]
  BY DEF SignalAgain, TypeOK
<1>8. TypeOK'
  BY <1>4, <1>5, <1>6, <1>7 DEF TypeOK
<1>9. ServerInv'
  <2>1. at'["platform"] \in {"pop", "rasterize", "drawn"} => at["platform"] = at'["platform"]
    BY <1>1, ThreadMoves DEF SignalAgain
  <2> QED BY <2>1 DEF SignalAgain, ServerInv
<1>10. FrameInv'
  BY <1>1 DEF SignalAgain, GoTo, FrameInv, TypeOK
<1> QED BY <1>2, <1>8, <1>9, <1>10

LEMMA EndDrawInv ==
  ASSUME Inv, NEW t \in Threads, EndDraw(t)
  PROVE  Inv'
<1> USE DEF Inv, uiVars, semaphores, threadVars, history
<1>1. /\ at[t] = "end"
      /\ Len(queue) \in Nat /\ empty \in Nat /\ available \in Nat
      /\ Tally(Between) \in Nat /\ Tally(Holding) \in Nat
      /\ Count((ui \in {"signalFirst", "signal"})') = Count(ui \in {"signalFirst", "signal"})
      /\ Count(continuation') = Count(continuation)
      /\ Count(ui \in {"signalFirst", "signal"}) \in {0, 1} /\ Count(continuation) \in {0, 1}
  BY QueueLength, TallyIsNatural, CountIsBit DEF EndDraw, TypeOK
<1>2. TokensInv' /\ PlacesInv'
  <2>1. empty' = empty /\ available' = available /\ queue' = queue
    BY <1>1 DEF EndDraw, TypeOK
  <2>2. GoTo(t, "idle")
    BY <1>1 DEF EndDraw
  <2>3. \A S : Tally(S)' = Tally(S) + Count("idle" \in S) - Count("end" \in S)
    BY <1>1, <2>2, TallyMoves
  <2>4. Tally(Between)' = Tally(Between) /\ Tally(Holding)' = Tally(Holding)
    BY <1>1, <2>3 DEF Between, Holding, Count
  <2>5. TokensInv'
    BY <1>1, <2>1, <2>4 DEF TokensInv
  <2>6. PlacesInv'
    BY <1>1, <2>1, <2>4 DEF PlacesInv
  <2> QED BY <2>5, <2>6
<1>3. empty' \in Nat /\ available' \in Nat
  BY <1>1 DEF EndDraw, TypeOK
<1>4. empty' \in 0..Depth /\ available' \in 0..Depth
  BY <1>2, <1>3, NextBounded
<1>5. at' \in [Threads -> {"idle", "pop", "rasterize", "drawn", "release",
                           "again", "put", "signal", "end"}]
  BY ThreadTypes DEF EndDraw
<1>6. UNCHANGED <<pending, regenerate, continuation, made, ui, queue, merged, composed, shown, taken, overtaken>>
  BY DEF EndDraw
<1>7. draws' \in Nat
  BY DEF EndDraw, TypeOK
<1>8. frame' \in [Threads -> Frame \cup {NoFrame}]
  BY DEF EndDraw, TypeOK
<1>9. retry' \in [Threads -> BOOLEAN] /\ more' \in [Threads -> BOOLEAN]
  BY DEF EndDraw, TypeOK
<1>10. TypeOK'
  BY <1>4, <1>5, <1>6, <1>7, <1>8, <1>9 DEF TypeOK
<1>11. ServerInv'
  <2>1. at'["platform"] \in {"pop", "rasterize", "drawn"} => at["platform"] = at'["platform"]
    BY <1>1, ThreadMoves DEF EndDraw
  <2> QED BY <2>1 DEF EndDraw, ServerInv
<1>12. FrameInv'
  BY <1>1 DEF EndDraw, GoTo, FrameInv, TypeOK
<1> QED BY <1>2, <1>10, <1>11, <1>12

LEMMA ProducerCommitInv ==
  ASSUME Inv, NEW views \in BOOLEAN, ProducerCommit(views)
  PROVE  Inv'
<1> USE DEF Inv, uiVars, semaphores, threadVars, history
<1> DEFINE f == [no |-> made + 1, views |-> views]
<1>1. /\ UNCHANGED <<pending, regenerate, empty, available, draws, at, frame, retry, more,
                     merged, composed, shown, taken, overtaken>>
      /\ continuation /\ continuation' = FALSE /\ made' = made + 1 /\ queue' = Append(queue, f)
      /\ ui \in {"idle", "build"} /\ ui' \in {"signalFirst", "signal"}
  BY DEF ProducerCommit
<1>2. made' \in 1..MaxFrames
  BY <1>1 DEF ProducerCommit, TypeOK
<1>3. f \in Frame
  BY <1>1, <1>2 DEF Frame
<1> HIDE DEF f
<1>4. queue' \in Seq(Frame) /\ Len(queue') = Len(queue) + 1 /\ Len(queue) \in Nat
  BY <1>1, <1>3 DEF TypeOK
<1>5. /\ Tally(Between)' = Tally(Between) /\ Tally(Holding)' = Tally(Holding)
      /\ Tally(Between) \in Nat /\ Tally(Holding) \in Nat
  BY <1>1, TallyIsNatural DEF Tally
<1>6. /\ Count(continuation) = 1 /\ Count(continuation') = 0
      /\ Count(ui \in {"signalFirst", "signal"}) = 0
      /\ Count((ui \in {"signalFirst", "signal"})') = 1
  BY <1>1 DEF Count
<1>7. empty \in Nat /\ available \in Nat
  BY DEF TypeOK
<1>8. TokensInv'
  BY <1>1, <1>4, <1>5, <1>6, <1>7 DEF TokensInv
<1>9. PlacesInv'
  <2>1. Depth = empty + 1 + Len(queue) + Tally(Holding)
    BY <1>6 DEF PlacesInv
  <2>2. Depth = empty' + 0 + Len(queue') + Tally(Holding)'
    BY <1>1, <1>4, <1>5, <1>7, <2>1
  <2> QED BY <1>6, <2>2 DEF PlacesInv
<1>10. TypeOK'
  <2>1. continuation' \in BOOLEAN
    BY <1>1, Zenon
  <2>3. made' \in 0..MaxFrames
    BY <1>2
  <2>2. ui' \in {"idle", "build", "signalFirst", "signal", "announce"}
    BY <1>1
  <2> QED BY <1>1, <1>4, <2>1, <2>2, <2>3 DEF TypeOK
<1> QED BY <1>1, <1>8, <1>9, <1>10 DEF ServerInv, FrameInv

LEMMA TeardownInv ==
  ASSUME Inv, Teardown
  PROVE  Inv'
<1> USE DEF Inv, uiVars, semaphores, threadVars, history
<1>1. /\ UNCHANGED <<pending, regenerate, continuation, made, ui, empty, available, queue,
                     draws, at, frame, retry, more, composed, shown, taken, overtaken>>
      /\ merged' = FALSE /\ at["platform"] = "idle"
  BY DEF Teardown
<1>2. TypeOK'
  BY <1>1 DEF TypeOK
<1>3. TokensInv' /\ PlacesInv'
  BY <1>1 DEF TokensInv, PlacesInv, Tally
<1> QED BY <1>1, <1>2, <1>3 DEF ServerInv, FrameInv

LEMMA StutterInv ==
  ASSUME Inv, UNCHANGED vars
  PROVE  Inv'
<1> USE DEF vars, uiVars, semaphores, threadVars, history
<1>1. TypeOK'
  BY DEF Inv, TypeOK
<1>2. TokensInv' /\ PlacesInv'
  BY DEF Inv, TokensInv, PlacesInv, Tally
<1> QED BY <1>1, <1>2 DEF Inv, ServerInv, FrameInv

LEMMA InvStep == Inv /\ [Next]_vars => Inv'
<1> SUFFICES ASSUME Inv, [Next]_vars PROVE Inv'
  OBVIOUS
<1>1. ASSUME NEW anew \in BOOLEAN, RequestFrame(anew) PROVE Inv'
  BY <1>1, RequestFrameInv
<1>2. CASE DrawLastLayerTrees
  BY <1>2, DrawLastLayerTreesInv
<1>3. CASE BeginFrame
  BY <1>3, BeginFrameInv
<1>4. CASE EndFrame
  BY <1>4, EndFrameInv
<1>5. CASE Produce
  BY <1>5, ProducerSignalInv, OnAnimatorDrawInv DEF Produce
<1>6. ASSUME NEW views \in BOOLEAN, ProducerCommit(views) PROVE Inv'
  BY <1>6, ProducerCommitInv
<1>7. ASSUME NEW t \in Threads, RasterStep(t) PROVE Inv'
  <2>1. CASE Draw(t)                   BY <2>1, DrawInv
  <2>2. CASE Consume(t)                BY <2>2, ConsumeInv
  <2>3. CASE DrawToSurfaces(t)         BY <2>3, DrawToSurfacesInv
  <2>4. CASE DecrementLease(t)         BY <2>4, DecrementLeaseInv
  <2>5. CASE Release(t)                BY <2>5, ReleaseInv
  <2>6. CASE ProduceIfEmpty(t)         BY <2>6, ProduceIfEmptyInv
  <2>7. CASE ProducerCommitIfEmpty(t)  BY <2>7, ProducerCommitIfEmptyInv
  <2>8. CASE SignalAgain(t)            BY <2>8, SignalAgainInv
  <2>9. CASE EndDraw(t)                BY <2>9, EndDrawInv
  <2> QED BY <1>7, <2>1, <2>2, <2>3, <2>4, <2>5, <2>6, <2>7, <2>8, <2>9 DEF RasterStep
<1>8. CASE Teardown
  BY <1>8, TeardownInv
<1>9. CASE UNCHANGED vars
  BY <1>9, StutterInv
<1> QED BY <1>1, <1>2, <1>3, <1>4, <1>5, <1>6, <1>7, <1>8, <1>9 DEF Next

(* The invariant holds for ever.                                           *)
LEMMA InvHolds == Spec => []Inv
  BY InvInit, InvStep, PTL DEF Spec

-----------------------------------------------------------------------------
(* The state stays in its types: neither semaphore of a pipeline ever      *)
(* counts more than its places (pipeline.h:39).                            *)
THEOREM TypeCorrect == Spec => []TypeOK
<1>1. Inv => TypeOK
  BY DEF Inv
<1> QED BY <1>1, InvHolds, PTL

(* A consumer that has got a token finds a frame, whichever thread it runs *)
(* on and whoever else consumes or puts back: the deque is never popped    *)
(* empty (pipeline.h:196).                                                 *)
THEOREM TokensAreFramesHolds == Spec => []TokensAreFrames
<1>1. ASSUME Inv PROVE TokensAreFrames
  <2>1. /\ Count(at["raster"] = "pop") <= Count(at["raster"] \in Between)
        /\ Count(at["platform"] = "pop") <= Count(at["platform"] \in Between)
    BY DEF Count, Between
  <2>2. Tally(Between) >= Count(at["raster"] = "pop") + Count(at["platform"] = "pop")
    BY <2>1, CountIsBit DEF Tally
  <2>3. Len(queue) >= Tally(Between)
    BY <1>1, CountIsBit, TallyIsNatural DEF Inv, TokensInv, TypeOK
  <2>4. Count(at["raster"] = "pop") \in {0, 1} /\ Count(at["platform"] = "pop") \in {0, 1}
    BY CountIsBit
  <2> QED BY <1>1, <2>2, <2>3, <2>4, TallyIsNatural, QueueLength DEF TokensAreFrames, Inv
<1> QED BY <1>1, InvHolds, PTL

-----------------------------------------------------------------------------
(* What is left to nobody, and by whom.                                    *)

(* A Draw that finds no token has left no frame without one, unless the    *)
(* producer is between its push and its signal.                            *)
LEMMA DrawForgets ==
  ASSUME Inv, ~Forgotten, NEW t \in Threads, Draw(t)
  PROVE  Forgotten' => ui = "signal" /\ draws' = draws - 1
<1>1. /\ at[t] = "idle" /\ draws' = draws - 1
      /\ UNCHANGED <<ui, queue, more>>
  BY DEF Draw, uiVars
<1> SUFFICES ASSUME ui # "signal" PROVE ~Forgotten'
  BY <1>1
<1>2. CASE HasToken(available)
  <2>1. at'[t] = "pop"
    BY <1>2, ThreadMoves DEF Draw, Inv
  <2> QED BY <2>1 DEF Forgotten, Awaited
<1>3. CASE ~HasToken(available) /\ ui = "signalFirst"
  BY <1>1, <1>3 DEF Forgotten, Awaited
<1>4. CASE ~HasToken(available) /\ ui # "signalFirst"
  <2>1. at' = at /\ available = 0
    BY <1>4 DEF Draw, HasToken, Inv, TypeOK
  <2>2. Len(queue) = Tally(Between)
    <3>1. Count(ui \in {"signalFirst", "signal"}) = 0
      BY <1>4 DEF Count
    <3>2. Tally(Between) \in Nat
      BY TallyIsNatural
    <3> QED BY <2>1, <3>1, <3>2 DEF Inv, TokensInv
  <2>3. ASSUME queue # <<>> PROVE \E u \in Threads : at[u] \in Between
    <3>1. Len(queue) # 0
      BY <2>3 DEF Inv, TypeOK
    <3>2. at["raster"] \in Between \/ at["platform"] \in Between
      BY <2>2, <3>1 DEF Tally, Count
    <3> QED BY <3>2 DEF Threads
  <2> QED BY <1>1, <2>1, <2>3 DEF Forgotten, Awaited, Between
<1> QED BY <1>2, <1>3, <1>4

(* A frame is popped with the knowledge of whether another one waits.      *)
LEMMA ConsumeForgetsNone ==
  ASSUME Inv, NEW t \in Threads, Consume(t)
  PROVE  ~Forgotten'
<1> SUFFICES ASSUME queue' # <<>> PROVE Awaited'
  BY DEF Forgotten
<1>1. /\ queue \in Seq(Frame) /\ queue' = Tail(queue)
      /\ more' = [more EXCEPT ![t] = MoreWait(queue)] /\ more \in [Threads -> BOOLEAN]
  BY DEF Consume, Inv, TypeOK
<1>2. Len(queue) > 1
  <2>1. Len(queue) \in Nat /\ (Len(queue) = 1 => Tail(queue) = <<>>)
    BY <1>1
  <2>2. Len(queue) # 0
    <3>1. at[t] = "pop"
      BY DEF Consume
    <3>2. Count(at["raster"] \in Between) = 1 \/ Count(at["platform"] \in Between) = 1
      BY <3>1 DEF Between, Count, Threads
    <3>3. Tally(Between) >= 1
      BY <3>2, CountIsBit DEF Tally
    <3>4. available \in Nat /\ Tally(Between) \in Nat
          /\ Count(ui \in {"signalFirst", "signal"}) \in {0, 1}
      BY TallyIsNatural, CountIsBit DEF Inv, TypeOK
    <3> QED BY <3>3, <3>4 DEF Inv, TokensInv
  <2> QED BY <1>1, <2>1, <2>2
<1>3. more'[t]
  BY <1>1, <1>2 DEF MoreWait
<1> QED BY <1>3 DEF Awaited

(* The other steps of a Draw keep what it has seen, or say more.           *)
LEMMA DrawGoesOn ==
  ASSUME Inv, ~Forgotten, NEW t \in Threads,
         \/ DrawToSurfaces(t) \/ DecrementLease(t) \/ Release(t) \/ ProduceIfEmpty(t)
         \/ ProducerCommitIfEmpty(t) \/ SignalAgain(t) \/ EndDraw(t)
  PROVE  ~Forgotten'
<1> USE DEF uiVars, semaphores, threadVars, history
<1>0. more \in [Threads -> BOOLEAN] /\ draws \in Nat /\ TypeOK
  BY DEF Inv, TypeOK
<1>1. ui' = ui
  BY DEF DrawToSurfaces, DecrementLease, Release, ProduceIfEmpty, ProducerCommitIfEmpty,
         SignalAgain, EndDraw
<1>2. ASSUME NEW step, GoTo(t, step)
      PROVE  at'[t] = step /\ \A u \in Threads \ {t} : at'[u] = at[u]
  BY <1>0, <1>2 DEF GoTo, TypeOK
<1>3. CASE DrawToSurfaces(t) \/ Release(t) \/ ProduceIfEmpty(t)
  <2>1. /\ UNCHANGED <<queue, draws, more>> /\ at[t] \notin Between
        /\ \E step : GoTo(t, step)
    BY <1>3 DEF DrawToSurfaces, Release, ProduceIfEmpty, Between
  <2>2. \A u \in Threads : at[u] \in Between => at'[u] = at[u]
    BY <1>2, <2>1
  <2> QED BY <1>1, <2>1, <2>2 DEF Forgotten, Awaited, Between
<1>4. CASE DecrementLease(t)
  <2>1. /\ UNCHANGED <<queue, draws>> /\ at[t] \notin Between /\ GoTo(t, "release")
        /\ \A u \in Threads : more[u] => more'[u]
    BY <1>0, <1>4 DEF DecrementLease, Between
  <2>2. \A u \in Threads : at[u] \in Between => at'[u] = at[u]
    BY <1>2, <2>1
  <2> QED BY <1>1, <2>1, <2>2 DEF Forgotten, Awaited, Between
<1>5. CASE ProducerCommitIfEmpty(t)
  <2>1. UNCHANGED <<draws, more>> /\ at[t] = "put"
    BY <1>5 DEF ProducerCommitIfEmpty
  <2>2. CASE GoTo(t, "signal")
    <3>1. at'[t] \in Between
      BY <1>2, <2>2 DEF Between
    <3> QED BY <3>1 DEF Forgotten, Awaited, Between
  <2>3. CASE GoTo(t, "end") /\ queue' = queue
    <3>1. \A u \in Threads : at[u] \in Between => at'[u] = at[u]
      BY <1>2, <2>1, <2>3 DEF Between
    <3> QED BY <1>1, <2>1, <2>3, <3>1 DEF Forgotten, Awaited, Between
  <2> QED BY <1>5, <2>2, <2>3 DEF ProducerCommitIfEmpty
<1>6. CASE SignalAgain(t)
  <2>1. more'[t]
    BY <1>0, <1>6 DEF SignalAgain
  <2> QED BY <2>1 DEF Forgotten, Awaited, Between
<1>7. CASE EndDraw(t)
  <2>1. /\ queue' = queue /\ at[t] = "end" /\ GoTo(t, "idle")
        /\ draws' = IF more[t] THEN draws + 1 ELSE draws
        /\ more' = [more EXCEPT ![t] = FALSE]
    BY <1>7 DEF EndDraw
  <2>2. CASE more[t]
    BY <1>0, <2>1, <2>2 DEF Forgotten, Awaited, Between
  <2>3. CASE ~more[t]
    <3>1. \A u \in Threads : (at[u] \in Between => at'[u] = at[u]) /\ (more[u] => more'[u])
      BY <1>0, <1>2, <2>1, <2>3 DEF Between
    <3> QED BY <1>1, <2>1, <2>3, <3>1 DEF Forgotten, Awaited, Between
  <2> QED BY <2>2, <2>3
<1> QED BY <1>3, <1>4, <1>5, <1>6, <1>7

LEMMA ForgettingStep ==
  Inv /\ [Next]_vars
    => [Forgotten' => Forgotten \/ (ui = "signal" /\ draws' = draws - 1)]_vars
<1> SUFFICES ASSUME Inv, Next, Forgotten', ~Forgotten
             PROVE  ui = "signal" /\ draws' = draws - 1
  OBVIOUS
<1> USE DEF uiVars, semaphores, threadVars, history
<1>0. draws \in Nat
  BY DEF Inv, TypeOK
<1>1. ASSUME NEW t \in Threads, RasterStep(t)
      PROVE  ui = "signal" /\ draws' = draws - 1
  BY <1>1, DrawForgets, ConsumeForgetsNone, DrawGoesOn DEF RasterStep
<1>2. ASSUME NEW views \in BOOLEAN, ProducerCommit(views) PROVE FALSE
  <2>1. UNCHANGED <<draws, at, more>> /\ ui \in {"idle", "build"}
    BY <1>2 DEF ProducerCommit
  <2>2. CASE queue = <<>>
    BY <1>2, <2>2 DEF ProducerCommit, Forgotten, Awaited
  <2>3. CASE queue # <<>>
    BY <2>1, <2>3 DEF Forgotten, Awaited
  <2> QED BY <2>2, <2>3
<1>3. CASE ProducerSignal
  BY <1>3 DEF ProducerSignal, Forgotten, Awaited
<1>4. CASE OnAnimatorDraw
  BY <1>0, <1>4 DEF OnAnimatorDraw, Forgotten, Awaited
<1>5. CASE \/ \E anew \in BOOLEAN : RequestFrame(anew)
           \/ DrawLastLayerTrees \/ BeginFrame \/ EndFrame \/ Teardown
  <2>1. UNCHANGED <<queue, draws, at, more>>
    BY <1>5 DEF RequestFrame, DrawLastLayerTrees, BeginFrame, EndFrame, Teardown
  <2>2. ui \in {"signalFirst", "announce"} => ui' = ui
    BY <1>5 DEF RequestFrame, DrawLastLayerTrees, BeginFrame, EndFrame, Teardown
  <2> QED BY <2>1, <2>2 DEF Forgotten, Awaited
<1> QED BY <1>1, <1>2, <1>3, <1>4, <1>5 DEF Next, Produce

(* For any depth and number of frames, one step only can leave a frame     *)
(* that waits to nobody: a Draw that looks for its token between the push  *)
(* of a frame behind another one and its signal (pipeline.h:228).  Merging *)
(* and parting in the middle of a draw, frames that are put back, surfaces *)
(* that go and draws that lose their frame never do.                       *)
THEOREM OnlyTheRaceStrandsHolds == Spec => OnlyTheRaceStrands
  BY ForgettingStep, InvHolds, PTL DEF Spec, OnlyTheRaceStrands
=============================================================================
