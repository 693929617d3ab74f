--------------------------- MODULE FramePipeline ---------------------------
(***************************************************************************)
(* From the request for a frame to its drawing: Animator, Pipeline and     *)
(* Rasterizer::Draw (apps/after_app/engine/src/flutter/shell/common).      *)
(*                                                                         *)
(* The UI thread asks for a vsync, takes a place of the pipeline, builds a *)
(* frame and pushes it; it posts a Draw only for a frame that finds the    *)
(* queue empty, and leaves the others to the Draw under way, which posts   *)
(* the next one.  Draws run on the raster thread, or on the platform       *)
(* thread while the two are merged: a frame with platform views merges     *)
(* them and is put back, to be drawn again.  How the mergers decide to     *)
(* merge and part is in ThreadMerger; here they do as MergedThreads says.  *)
(***************************************************************************)
EXTENDS Integers, Sequences

CONSTANTS
  Depth,      \* places of the pipeline (2; 1 on a single thread)
  MaxFrames   \* frames the program makes

ASSUME DepthIsPositive == Depth \in Nat \ {0}
ASSUME MaxFramesIsNatural == MaxFrames \in Nat

VARIABLES
  pending,       \* pending_frame_semaphore_ is taken: a vsync is to come
  regenerate,    \* regenerate_layer_trees_
  continuation,  \* producer_continuation_ is held
  made,          \* the number of the last frame that was made
  ui,            \* the step the UI thread has come to
  empty,         \* the semaphore empty_
  available,     \* the semaphore available_
  queue,         \* queue_
  draws,         \* the Draw tasks that wait in the raster queue
  merged,        \* the platform thread serves the raster queue
  at,            \* per thread, the step its Draw has come to
  frame,         \* per thread, the frame it draws
  retry,         \* per thread, the frame is to be drawn again
  more,          \* per thread, consume_result is MoreAvailable
  composed,      \* the frame before showed platform views
  shown,         \* the number of the frame on the screen
  taken,         \* the number of the newest frame that left the queue
  overtaken      \* frames that were put back after a newer one was taken

uiVars == <<pending, regenerate, continuation, made, ui>>
semaphores == <<empty, available>>
threadVars == <<merged, at, frame, retry, more, composed>>
history == <<shown, taken, overtaken>>
vars == <<uiVars, semaphores, queue, draws, threadVars, history>>

Threads == {"raster", "platform"}
Frame == [no : 1..MaxFrames, views : BOOLEAN]
NoFrame == [no |-> 0, views |-> FALSE]

TypeOK ==
  /\ pending \in BOOLEAN /\ regenerate \in BOOLEAN /\ continuation \in BOOLEAN
  /\ made \in 0..MaxFrames
  /\ ui \in {"idle", "build", "signalFirst", "signal", "announce"}
  /\ empty \in 0..Depth /\ available \in 0..Depth /\ draws \in Nat
  /\ queue \in Seq(Frame)
  /\ merged \in BOOLEAN
  /\ at \in [Threads -> {"idle", "pop", "rasterize", "drawn", "release",
                         "again", "put", "signal", "end"}]
  /\ frame \in [Threads -> Frame \cup {NoFrame}]
  /\ retry \in [Threads -> BOOLEAN] /\ more \in [Threads -> BOOLEAN]
  /\ composed \in BOOLEAN
  /\ shown \in 0..MaxFrames /\ taken \in 0..MaxFrames
  /\ overtaken \subseteq 1..MaxFrames

Init ==
  /\ pending = FALSE /\ regenerate = FALSE /\ continuation = FALSE
  /\ made = 0 /\ ui = "idle"
  /\ empty = Depth /\ available = 0
  /\ queue = <<>> /\ draws = 0
  /\ merged = FALSE
  /\ at = [t \in Threads |-> "idle"] /\ frame = [t \in Threads |-> NoFrame]
  /\ retry = [t \in Threads |-> FALSE] /\ more = [t \in Threads |-> FALSE]
  /\ composed = FALSE
  /\ shown = 0 /\ taken = 0 /\ overtaken = {}

-----------------------------------------------------------------------------
(* The UI thread: Animator.                                                *)

RequestFrame(anew) ==
  /\ ui \in {"idle", "build"}
  /\ regenerate' = (regenerate \/ anew)
  /\ pending' = TRUE
  /\ UNCHANGED <<continuation, made, ui, semaphores, queue, draws, threadVars, history>>

\* A vsync for a texture only: no new frame is built.
DrawLastLayerTrees ==
  /\ ui = "idle" /\ pending /\ ~regenerate
  /\ pending' = FALSE
  /\ UNCHANGED <<regenerate, continuation, made, ui, semaphores, queue, draws,
                 threadVars, history>>

(* Mutant of HasPlace: a place is taken without a look at the semaphore.   *)
AlwaysRoom(places) == TRUE

\* TryWait of empty_.
HasPlace(places) == places > 0

(* Mutant of AskedAgain: a frame that finds the pipeline full is not asked *)
(* for again. *)
NotAskedAgain(full) == FALSE

\* PipelineFull: the animator tries again at the next vsync.
AskedAgain(full) == full

BeginFrame ==
  LET full == ~continuation /\ ~HasPlace(empty) IN
  /\ ui = "idle" /\ pending /\ regenerate
  /\ pending' = AskedAgain(full) /\ regenerate' = AskedAgain(full)
  /\ empty' = IF continuation \/ full THEN empty ELSE empty - 1
  /\ continuation' = ~full
  /\ ui' = IF full THEN "idle" ELSE "build"
  /\ UNCHANGED <<made, available, queue, draws, threadVars, history>>

\* The framework builds nothing: the continuation is kept for the next frame.
EndFrame ==
  /\ ui = "build"
  /\ ui' = "idle"
  /\ UNCHANGED <<pending, regenerate, continuation, made, semaphores, queue, draws,
                 threadVars, history>>

(* The frame is complete and committed, in a vsync or, for a warm-up       *)
(* frame, out of one; without a continuation it is dropped.                *)
ProducerCommit(views) ==
  /\ ui \in {"idle", "build"} /\ continuation
  /\ made < MaxFrames
  /\ made' = made + 1
  /\ queue' = Append(queue, [no |-> made + 1, views |-> views])
  /\ continuation' = FALSE
  /\ ui' = IF queue = <<>> THEN "signalFirst" ELSE "signal"
  /\ UNCHANGED <<pending, regenerate, semaphores, draws, threadVars, history>>

ProducerSignal ==
  /\ ui \in {"signalFirst", "signal"}
  /\ available' = available + 1
  /\ ui' = IF ui = "signalFirst" THEN "announce" ELSE "idle"
  /\ UNCHANGED <<pending, regenerate, continuation, made, empty, queue, draws,
                 threadVars, history>>

OnAnimatorDraw ==
  /\ ui = "announce"
  /\ draws' = draws + 1
  /\ ui' = "idle"
  /\ UNCHANGED <<pending, regenerate, continuation, made, semaphores, queue,
                 threadVars, history>>

-----------------------------------------------------------------------------
(* A Draw task on the thread that serves the raster queue.                 *)

GoTo(t, step) == at' = [at EXCEPT ![t] = step]

Serves(t) == (t = "platform") <=> merged

(* Mutant of HasToken: a Draw takes it that there is a frame for it.       *)
AlwaysOne(tokens) == TRUE

\* TryWait of available_.
HasToken(tokens) == tokens > 0

\* With no token there is no frame, and the Draw is over.
Draw(t) ==
  /\ at[t] = "idle" /\ Serves(t) /\ draws > 0
  /\ draws' = draws - 1
  /\ IF HasToken(available)
       THEN available' = available - 1 /\ GoTo(t, "pop")
       ELSE UNCHANGED <<available, at>>
  /\ UNCHANGED <<uiVars, empty, queue, merged, frame, retry, more, composed, history>>

(* Mutant of MoreWait: the count is taken before the frame is popped, and  *)
(* one too many is asked for. *)
TwoWait(line) == Len(line) > 2

MoreWait(line) == Len(line) > 1

Consume(t) ==
  /\ at[t] = "pop"
  /\ frame' = [frame EXCEPT ![t] = Head(queue)]
  /\ more' = [more EXCEPT ![t] = MoreWait(queue)]
  /\ queue' = Tail(queue)
  /\ taken' = IF Head(queue).no > taken THEN Head(queue).no ELSE taken
  /\ GoTo(t, "rasterize")
  /\ UNCHANGED <<uiVars, semaphores, draws, merged, retry, composed, shown, overtaken>>

Submit(t) ==
  /\ frame[t].views => merged /\ composed
  /\ shown' = frame[t].no
  /\ composed' = frame[t].views
  /\ UNCHANGED <<merged, retry>>

\* No surface, no GPU, or a layer tree that is discarded: the frame is lost.
Lose(t) ==
  /\ composed' \in {composed, FALSE}
  /\ UNCHANGED <<merged, retry, shown>>

\* kSkipAndRetryFrame: the threads merge before platform views are shown,
\* unless merging is disabled because a surface comes or goes.
SkipAndRetry(t) ==
  /\ frame[t].views /\ ~merged
  /\ merged' \in BOOLEAN
  /\ composed' = FALSE
  /\ retry' = [retry EXCEPT ![t] = TRUE]
  /\ UNCHANGED shown

\* kResubmitFrame: the first frame after the surfaces were switched.
Resubmit(t) ==
  /\ frame[t].views /\ merged /\ ~composed
  /\ composed' = TRUE
  /\ retry' = [retry EXCEPT ![t] = TRUE]
  /\ UNCHANGED <<merged, shown>>

DrawToSurfaces(t) ==
  /\ at[t] = "rasterize"
  /\ Submit(t) \/ Lose(t) \/ SkipAndRetry(t) \/ Resubmit(t)
  /\ GoTo(t, "drawn")
  /\ UNCHANGED <<uiVars, semaphores, queue, draws, frame, more, taken, overtaken>>

(* What MergedThreads says of the mergers and ThreadMerger does by its     *)
(* leases: they part within a draw of the platform thread.  The draw that  *)
(* merged ends on the raster thread, and spends no lease of it to its end. *)
MayPart(t) == merged /\ t = "platform"

\* kEnqueuePipeline: one more try, from the thread that serves now.
DecrementLease(t) ==
  /\ at[t] = "drawn"
  /\ \/ UNCHANGED <<merged, more>>
     \/ /\ MayPart(t)
        /\ merged' = FALSE
        /\ more' = [more EXCEPT ![t] = TRUE]
  /\ GoTo(t, "release")
  /\ UNCHANGED <<uiVars, semaphores, queue, draws, frame, retry, composed, history>>

\* Consume gives the place back before the frame asks for one again.
Release(t) ==
  /\ at[t] = "release"
  /\ empty' = empty + 1
  /\ GoTo(t, IF retry[t] THEN "again" ELSE "end")
  /\ UNCHANGED <<uiVars, available, queue, draws, merged, frame, retry, more,
                 composed, history>>

ProduceIfEmpty(t) ==
  /\ at[t] = "again"
  /\ IF HasPlace(empty)
       THEN empty' = empty - 1 /\ GoTo(t, "put")
       ELSE UNCHANGED empty /\ GoTo(t, "end")
  /\ UNCHANGED <<uiVars, available, queue, draws, merged, frame, retry, more,
                 composed, history>>

(* Mutant of MayPutBack: behind the frames that came meanwhile. *)
PutBackBehind(line) == TRUE

MayPutBack(line) == line = <<>>

ProducerCommitIfEmpty(t) ==
  /\ at[t] = "put"
  /\ IF MayPutBack(queue)
       THEN /\ queue' = Append(queue, frame[t])
            /\ overtaken' = IF taken > frame[t].no THEN overtaken \cup {frame[t].no}
                            ELSE overtaken
            /\ GoTo(t, "signal")
            /\ UNCHANGED empty
       ELSE /\ empty' = empty + 1
            /\ GoTo(t, "end")
            /\ UNCHANGED <<queue, overtaken>>
  /\ UNCHANGED <<uiVars, available, draws, merged, frame, retry, more, composed,
                 shown, taken>>

SignalAgain(t) ==
  /\ at[t] = "signal"
  /\ available' = available + 1
  /\ more' = [more EXCEPT ![t] = TRUE]
  /\ GoTo(t, "end")
  /\ UNCHANGED <<uiVars, empty, queue, draws, merged, frame, retry, composed, history>>

\* The Draw posts the next one if there is more to consume.
EndDraw(t) ==
  /\ at[t] = "end"
  /\ draws' = IF more[t] THEN draws + 1 ELSE draws
  /\ frame' = [frame EXCEPT ![t] = NoFrame]
  /\ retry' = [retry EXCEPT ![t] = FALSE] /\ more' = [more EXCEPT ![t] = FALSE]
  /\ GoTo(t, "idle")
  /\ UNCHANGED <<uiVars, semaphores, queue, merged, composed, history>>

\* Between two draws a surface goes, and its lease with it.
Teardown ==
  /\ merged /\ at["platform"] = "idle"
  /\ merged' = FALSE
  /\ UNCHANGED <<uiVars, semaphores, queue, draws, at, frame, retry, more, composed,
                 history>>

-----------------------------------------------------------------------------
Produce == ProducerSignal \/ OnAnimatorDraw

RasterStep(t) ==
  \/ Draw(t) \/ Consume(t) \/ DrawToSurfaces(t) \/ DecrementLease(t) \/ Release(t)
  \/ ProduceIfEmpty(t) \/ ProducerCommitIfEmpty(t) \/ SignalAgain(t) \/ EndDraw(t)

Next ==
  \/ \E anew \in BOOLEAN : RequestFrame(anew)
  \/ DrawLastLayerTrees \/ BeginFrame \/ EndFrame \/ Produce
  \/ \E views \in BOOLEAN : ProducerCommit(views)
  \/ \E t \in Threads : RasterStep(t)
  \/ Teardown

Spec == Init /\ [][Next]_vars

(* Threads are scheduled, the raster queue is served and vsyncs come; the  *)
(* framework ends its part of a frame.  Nobody has to ask for a frame.     *)
Fairness ==
  /\ \A t \in Threads : SF_vars(RasterStep(t))
  /\ WF_vars(BeginFrame) /\ WF_vars(EndFrame) /\ WF_vars(Produce)

FairSpec == Spec /\ Fairness

-----------------------------------------------------------------------------
(* Properties.                                                             *)

Count(condition) == IF condition THEN 1 ELSE 0

(* Every consumer that has got a token finds a frame: front() and          *)
(* pop_front() of an empty deque are undefined (pipeline.h:196).           *)
TokensAreFrames == Len(queue) >= Count(at["raster"] = "pop") + Count(at["platform"] = "pop")

Engaged == {"rasterize", "drawn", "release"}

(* The two semaphores and the mutex make a bounded queue of frames in the  *)
(* order of their making, also while two threads consume and put back      *)
(* (pipeline.h:39).                                                        *)
Frames == INSTANCE FrameQueue WITH
  Producer <- NoFrame,
  promised <- (IF continuation THEN {NoFrame} ELSE {})
                \cup {frame[t] : t \in {t \in Threads : at[t] = "put"}},
  line <- queue,
  drawn <- {frame[t] : t \in {t \in Threads : at[t] \in Engaged}},
  undone <- {frame[t] : t \in {t \in Threads : at[t] \in {"again", "put"}}}

FramesInOrder == Frames!Spec

(* No frame replaces a newer one on the screen, save one that was put back *)
(* when the thread that merged had been overtaken in the meantime          *)
(* (rasterizer.cc:268).                                                    *)
ShownInOrder == [][shown' >= shown \/ shown' \in overtaken]_vars

Waits(n) == \E i \in DOMAIN queue : queue[i].no = n

(* A frame that was pushed is consumed, although nobody is told of a frame *)
(* that does not find the queue empty ("Eventually the 'Rasterizer' will   *)
(* consume it", animator.cc:152).                                          *)
NoFrameStranded == \A n \in 1..MaxFrames : Waits(n) ~> ~Waits(n)

(* Somebody is to consume, or to post a Draw: the producer that found the  *)
(* queue empty, a Draw that has a token, puts its frame back or has seen   *)
(* more than it took.                                                      *)
Awaited ==
  \/ draws > 0
  \/ ui \in {"signalFirst", "announce"}
  \/ \E t \in Threads : at[t] \in {"pop", "signal"} \/ more[t]

Forgotten == queue # <<>> /\ ~Awaited

(* There is one way only to leave a frame to nobody: a Draw that looks for *)
(* its token after it was pushed behind another one and before it is       *)
(* signalled (pipeline.h:228-234).  Threads that merge and part, frames    *)
(* put back, surfaces that go and draws that lose their frame forget none. *)
OnlyTheRaceStrands ==
  [][Forgotten' => Forgotten \/ (ui = "signal" /\ draws' = draws - 1)]_vars

(* The frame n is put back again and again, for good: merging stays        *)
(* disabled, or surfaces come and go for ever. *)
NeverDone(n) == []<>(\E t \in Threads : at[t] = "put" /\ frame[t].no = n)

(* A frame that was asked for is begun, also when the pipeline was full    *)
(* (animator.cc:113) or only a texture had asked first: unless a frame was *)
(* forgotten, which keeps its place for good, or is never done.            *)
RequestsAreAnswered ==
  \/ \E n \in 1..MaxFrames : NeverDone(n)
  \/ pending /\ regenerate ~> ui = "build" \/ Forgotten
=============================================================================
