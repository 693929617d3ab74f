# A verification project for apps_monorepo

TLA+ models of the parts of this repository whose behaviour depends on the
order of things: the stores of four of its apps (After, One Day, the one-minute
diary, Boundary), and the task queues, thread merging and frame pipeline of the
Flutter engine that is kept beside them. TLC checks the models on small
instances; TLAPS proves the most important properties for instances of every
size.

Paths below are relative to the repository. Three prefixes are abbreviated:

- `after/` is `apps/after_app/dev/after_app/lib/`
- `oneday/` is `apps/after_app/dev/one_day_app/lib/`
- `engine/` is `apps/after_app/engine/src/flutter/`

Contents: 1 the system, 2 the modules, 3 the runs, 4 the proofs, 5 what the
models show of the code, 6 what is not modelled, 7 what is left open.

## 1. The system

The repository holds a dozen small Flutter apps and, under `apps/after_app`, a
copy of the Flutter framework and engine. Each app runs in one isolate: Dart
code runs to the next `await` without interruption, and what interleaves is
everything between awaits (several button presses in flight, timers, the
lifecycle callbacks), the writes the platform has not done yet, the death of
the process, the clock. The engine has real threads: platform, UI, raster and
IO, each with a task queue and a loop.

| Component | State it keeps | Operations | What makes it hard | What makes it correct |
|---|---|---|---|---|
| After: messages, notifications, startup (`after/data/message_repo.dart`, `after/core/notification.dart`, `after/main.dart`, the now, sealed and after controllers) | the Isar collection of messages; pending notifications in the operating system, under a message's id or a date's id | submit, change the date once, delete; at a start: ask for permission, open what is due, reschedule the reminders by date | a controller holds a copy of a row over two plugin calls; plugin calls and transactions fail; the process dies between any two; messages open only at a start | nothing opens early, an opened message is final, a deletion is final, one change of date, a sealed message has its reminder, a due message opens |
| One Day: the page of the day (`oneday/data/one_day_close_repo.dart`, `oneday/features/one_day/one_day_page.dart`) | two preferences (the phrases, the time of the last save), cached in memory and written later; the list on the screen | add a phrase, load, expire at 4 in the morning, reset | two keys written one after the other; five kinds of handler end in `setState` of what they read earlier; 4 AM and death in between | all phrases kept are of one day, the screen shows what is kept, nothing of today is lost |
| Engine: task queues and loops (`engine/fml/message_loop_task_queues.cc`, `task_source.cc`, `delayed_task.cc`, `message_loop_impl.cc`, `engine/shell/common/vsync_waiter.cc`) | per queue two heaps of delayed tasks, a pause count, whom it owns and who subsumed it; per loop a timer | post, take the next task, merge, unmerge, pause and resume Dart tasks | any thread posts, merges and unmerges; a loop sleeps on a timer somebody else must arm | no lost wake-up, one order of tasks, the two sides of a merge agree, pauses are balanced |
| Engine: thread merging (`engine/fml/raster_thread_merger.cc`, `shared_thread_merger.cc`, and its callers in `engine/shell`) | a lease per engine, an enabled flag, the merge itself | a frame with platform views merges or extends; every frame spends; a surface that goes gives up its lease | the decision is taken under one mutex and carried out under another; the thread that merges goes on; the platform thread waits on a latch for a raster task | leases and queues agree, no engine parts the threads under another's lease, the platform thread waits for itself in one known way only, the threads part in the end |
| Engine: frame pipeline and animator (`engine/shell/common/pipeline.h`, `animator.cc`, `rasterizer.cc`) | a queue of frames between two semaphores, the request for a vsync, the `Draw` tasks, the frame each thread draws | ask for a frame, begin, push, announce, consume, draw, put back | the UI thread pushes while two threads may consume and put back; only a frame that finds the queue empty is announced; a full pipeline | a bounded queue in order, no consumer without a frame, a frame left to nobody in one known way only, requests answered, no older frame shown last |
| One-minute diary (`apps/one_minute_diary/lib/features/entry`) | the stored entries, the page of the day, a timer, writes in flight | open, type, save now, the end of the minute | the button and the end of the minute both save; midnight, a refused write, a death at every step | one entry of a minute, never replaced; what is called saved is stored |
| Boundary (`apps/boundary_app/lib/main.dart`) | three lists and a draft, and the same in four preferences | load, type, submit, sort, move, remove, clear | every change and every letter starts a save of four writes; saves overlap; death between two writes | the preferences hold every task that nobody is moving or taking over |
| After: lists, calendar, sheet; lifecycle timers | one list per controller; debug timers | load after a query; start and stop by lifecycle state | answers out of order, on pages that are not routed | the list is that of the last choice |
| Mind capsule (`apps/mind_capsule_app/lib`) | entries, a monthly count | save, list, statistics | saving tested and set around an await | one entry of a save |
| Pulse apps, `packages/core_state` | a list of states | add, statistics | none: sequential | covered by its unit tests |
| One sentence, snow blackhole, particle | a text; animations | | none | |

The first seven rows are modelled; section 6 says why the others are not.

How they interact. The apps do not interact with one another. Within After, the
page controllers, `main()` and the notification plugin share the collection
and the pending notifications; `main()` runs to its end before `runApp`, so it
never overlaps a controller of the same process. Within One Day the page calls
the repository, which shares `SharedPreferences`. In the engine, the task
queues carry everything: the mergers call `Merge` and `Unmerge` of the queues,
the shell posts its raster tasks to them, a vsync pauses them, and the draws
that consume the pipeline are such raster tasks and merge the threads
themselves. All engines spawned from one another share the queues and one
`SharedThreadMerger`.

    RequestFrame -> vsync -> BeginFrame -> Pipeline -> Draw --(FramePipeline)
                                                        |
                          merges, renews, parts         v
      MergedThreads  <---- what a draw may rely on ---- RasterThreadMerger,
            ^                                           SharedThreadMerger
            |  implemented by (ThreadMerger)            --(ThreadMerger)
            |                                            |
            +-- used by FramePipeline                    v  Merge, Unmerge
                                           MessageLoopTaskQueues --(TaskQueues)

The hazards that follow from this are listed in `PROJECT.json`, each at its
line, with the properties that would notice.

## 2. The modules

Conventions. A module's variables are the code's own state, under its own names
where TLA+ allows. An action is one uninterruptible piece of the code. A
definition marked *mutant* is a plausible wrong version of the definition below
it, which no behaviour uses; it is put in that one's place to see that a
property notices. *History* variables record what has happened so that a
property can name it; no action reads them. An `MC*` module only adds the
symmetry of the model values.

### AfterMessages

| State | Code |
|---|---|
| `db` | the rows of the Isar collection: `openOn`, `openedAt`, `dateChangeUsed`; `status` tells a row that was never written from one that is sealed, opened or deleted |
| `calls` | controller calls in flight: where they await, and the `openOn` of the `Message` object they hold |
| `phase`, `work` | where `main()` is, and the query result it works through |
| `initialized` | `NotificationService._initialized` |
| `msgNotif`, `dateNotif` | pending notifications under a message id and under a date id |
| `overlapped`, `missed` | history: messages on which two calls overlapped; messages whose reminder a failure may have lost |

A step is what the isolate runs between two awaits that leave it: an Isar query
or transaction, or a plugin call. `NowController.submit` is `SubmitPut` and
`SubmitSchedule`; `SealedController.changeDate` is `ChangeRead`, `ChangeCancel`,
`ChangePut`, `ChangeSchedule`; a deletion is `SealedDelete`, `DeleteCancel` (or
`OpenedDelete` from the list of opened messages) and then `RepoFind`,
`RepoDelete`; the start is `Launch`, `FindDue`, `OpenDue`, `FindSealed`, and
`CancelDate`, `ScheduleDate` for each date. Every plugin call and transaction
may throw, and each place catches as the code does: `submit` swallows a
notification's failure, `changeDate` stops, a deletion goes on, a start gives up
the rest of its block and calls `runApp`. `Kill` is the end of the process at
any step: calls are forgotten, rows and notifications stay. `Tick` is the
clock; what was pending for the past has been delivered.

Instants stand for days at midnight, which is what `openOn` holds: the model
needs to know only which come before the clock. A date picker offers today and
later, and midnight may pass while it is open. The ids of notifications are
taken as distinct (the code derives a date's id from a hash). The sealed list
and its sheets are not reachable from the app's first page in this version;
their controllers are complete, and used by their pages and the tests, and so
are modelled. `simple_now_sheet.dart` is dead code. `Touched` is a bound: the messages the
user re-dates or deletes.

### OneDayClose

| State | Code |
|---|---|
| `day` | the clock, in days that begin at 4 AM |
| `cache`, `disk`, `writes` | `SharedPreferences` in memory, what the platform has stored, and the writes on their way |
| `calls` | handlers in flight: `_init`, `_checkExpiration` on resume, submitting, resetting |
| `shown` | `_phrases` of the page |
| `starts`, `born`, `checked`, `torn`, `stale` | history |

`SharedPreferences` changes its copy at once and sends the write; the platform
answers in order. A step is what the isolate runs between two such answers, or
between two readings of the clock. What starts a handler is `Launch` and
`StartInit`, `Resume`, `SubmitText`, `Reset`; `Answer` lets the handler that waits
go on to its next write; and `GoOn` takes a handler that waits for nothing from one
reading of the clock to the next. `_loadPhrases` reads it twice: `LoadPhrases` gets
the list, `CountPhrases` counts the characters, which loads again and may empty the
store, and the page then shows the list of the first reading (`ShowList`). 4 AM may
fall between the two, and so may the death of the process; no other handler runs there
(`NoneRuns`), since everything awaited in between is complete already. The operators
under the actions follow the methods: `Clear`, `AddPhrase`, `Put`, `Stamp` for the
repository, `CheckExpiration`, `CheckedEmpty`, `LoadPhrases`, `CountPhrases`,
`ShowList`, `ResetPage` for the page. A write may fail, which the repository catches.
`Kill` loses the writes not yet done; `FourAM` may come between any two steps. A
handler called before the first `getInstance` has answered waits behind `_init`
(`Ready`). The text
of a phrase is a model value.

### TaskQueues

| State | Code |
|---|---|
| `tasks`, `order` | the two heaps of each `TaskSource`, told apart by `grade`; `order_` |
| `paused` | `secondary_pause_requests_` |
| `ownerOf`, `subsumedBy` | the entries' `owner_of`, `subsumed_by` |
| `wake` | the time a loop's timer is armed for, `Never` when disarmed |
| `loop`, `flushNow`, `running` | the loop: asleep, in `FlushTasks`, in a task |
| `vsync` | a `FireCallback` between pausing the Dart tasks and posting the frame |

Every operation on the queues holds `queue_mutex_` from its first line to its
last, so each is one action: `RegisterTask` (by `PostTask`, `PostFrame`),
`GetNextTaskToRun` (its three outcomes `NothingToRun`, `NotYetDue`, `TakeTask`),
`Merge`, `Unmerge`, `PauseSecondary` (in `FireCallback`), `ResumeSecondary` (when
a frame returns). `WakeIfPending` is `WakeUpUnlocked`. The loop is that of
Linux: the timer fires, reading it disarms it, and `FlushTasks` reads the clock
once (`flushNow`) and takes tasks until none is due. A merged queue's own loop
may still be woken and finds nothing. Heaps are sets of tasks and
`Earliest` the top.

`AnyThread` says who merges. With FALSE it is the engine: a queue is merged
from one of its own tasks and unmerged on its owner's thread, never inside a
frame callback (`MergingThread`, `UnmergingThread`); that the raster merger
does so is itself checked, by `MergingIsKept` of ThreadMerger. With TRUE any
thread may, as in the unit tests. The guard `RoomForOne` keeps the number of
tasks within `MaxTasks`, with a place for each frame already announced.

### ThreadMerger

| State | Code |
|---|---|
| `merged` | the platform queue owns the raster queue |
| `enabled`, `lease` | `enabled_` and `lease_term_by_caller_` of the `SharedThreadMerger` |
| `surface`, `view` | per engine, `surface_` of the rasterizer; whether the platform has a surface |
| `queue` | the raster tasks that wait |
| `at`, `task`, `retry` | per thread, the step of the raster task or surface callback it is in, and whether its draw has an item to resubmit |
| `lag` | bound: raster tasks the platform thread has started while the raster thread is still in the draw that merged |
| `io` | what the IO thread has been asked to do while the platform thread waits on its latch |
| `aborted` | an `FML_CHECK` failed |

A draw is `Draw` (yield on the wrong thread), `PostPrerollAction` (merge, extend
or neither), `MergeWithLease` then `SharedMergeWithLease`, or `ExtendLeaseTo`,
then `DecrementLease`, `SharedDecrementLease`. `MergeWithLease` and
`DecrementLease` of a `RasterThreadMerger` check under its own mutex and act
under the shared one, with that own mutex held: two steps, `MutexFree`
between them for other callers of the same merger. The surface callbacks of
`Shell` are `OnPlatformViewCreated`, `OnPlatformViewDestroyed` (which disable
merging), the tasks they run or post (`EnableThreadMerger`, `Setup`,
`Teardown`, `UnMergeNowIfLastOne`, `PostIoTask`) and the latch (`AwaitIoTask`,
`IoPostsSetup`, `IoSignals`, `RunNowOrPostTask`). `Serves` is what TaskQueues
says of a merged queue: its tasks run on the owner's loop.

A surface goes as soon as the embedder likes, also before the raster thread has set it
up. Not in the model: `DrawLastLayerTrees`, the GPU-unavailable results,
`WaitUntilMerged` (unit tests only).

### MergedThreads

What a raster task may rely on, in two variables: whether the platform thread
serves the raster queue (`merged`), and which threads are in a raster task
(`busy`). A task starts on the thread that serves, the threads merge within a
task of the raster thread and part within one of the platform thread, and a
task goes on where it started. ThreadMerger implements it (`MergingIsKept` there,
with `busy` the threads whose `at` is a step of a raster task): that is the
contract the leases, the flag and the latch are for. FramePipeline takes it as its
model of merging: a `Draw` starts where `Serves` says, the threads merge within a draw
of the raster thread (`SkipAndRetry`), and part within a raster task of the platform
thread, a draw (`MayPart`) or the teardown of a surface (`Teardown`).

### FrameQueue and FramePipeline

`FrameQueue` is what the pipeline promises: a place is promised before a frame is
made; frames wait in `line` in the order of their numbers; no more than `Depth` are
promised, waiting or drawn; a frame that has to be drawn again needs a new place
and an empty line. `FramePipeline` is how the code keeps that:

| State | Code |
|---|---|
| `pending`, `regenerate`, `continuation`, `ui` | `pending_frame_semaphore_`, `regenerate_layer_trees_`, whether `producer_continuation_` is held, and where the UI thread is |
| `empty`, `available`, `queue` | `empty_`, `available_`, `queue_` |
| `draws` | the `Draw` tasks in the raster queue |
| `merged` | the platform thread serves the raster queue |
| `at`, `frame`, `retry`, `more` | per thread, the step of its `Draw`, its frame, whether it is to be drawn again, whether the draw posts another |
| `composed` | the last frame had platform views (the surfaces are switched) |
| `made` | bound: frames that were made |
| `shown`, `taken`, `overtaken` | history |

The animator is `RequestFrame`, `DrawLastLayerTrees` (a vsync for a texture),
`BeginFrame` with its full pipeline, `EndFrame` (nothing rendered, the
continuation kept), and `ProducerCommit`, `ProducerSignal`, `OnAnimatorDraw`: the push
under the mutex, the signal after it and the posted `Draw` are three steps.
A draw is `Draw` (`TryWait`), `Consume` (the pop, and what more is left),
`DrawToSurfaces` (one of `Submit`, `Lose`, `SkipAndRetry`, `Resubmit`),
`DecrementLease`, `Release` (the place goes back), and for a frame to be drawn again
`ProduceIfEmpty`, `ProducerCommitIfEmpty`, `SignalAgain`; `EndDraw` posts the next. The
draw that merged goes on on the raster thread while the platform thread draws:
both have their own `at`.

The refinement maps the continuation and the threads at `put` to promises, the
threads between the pop and `Release` to `drawn`, and those that may put a frame
back to `undone`. The semaphores do not appear in it: that `empty` and `available`
count what they should is the content of the refinement.

Merging may be disabled when a frame asks for it: `SkipAndRetry` merges the threads or
does not, and the frame is to be drawn again either way. `MayPart` abstracts the lease:
a draw of the platform thread may be the one that ends it. `Teardown` is a surface that
goes between two draws and parts the threads. The UI thread may be held as long as it
likes between its push and its signal.

### OneMinuteDiary

| State | Code |
|---|---|
| `today`, `entry` | the date of the clock; the stored text of each date |
| `open`, `day` | the process runs; the date the controller looked up, or on which its minute began |
| `isLoading`, `text`, `isReadOnly`, `hasSavedEntry` | `TodayEntryState` |
| `timer` | the `OneMinuteTimerController`: not begun, running, over |
| `write` | per caller of `upsertToday` (button, timer) where it is, with its date and text |

`Open` and `Loaded` are the constructor and `_initialize`; `onTextChanged` begins the
minute with the first letter; `saveNow` and `_onTimerFinished` make the page
read-only and call `upsertToday`, which takes the date at once and puts later
(`Put`, or `PutFails`), after which `Saved` sets `hasSavedEntry`. `Midnight` and `Die` come
at any step.

### Boundary

`lists` and `typed` are the page, `stored`, `draft` and `legacy` the preferences.
Every operation (`_submitTask`, `_classifyPendingTask`, `_moveTaskToBucket`,
`_deleteTask`, `_clearAll`, `onChanged`) changes the page and begins a `_saveTasks`;
`saves` counts how many saves have come to each of its writes, since saves differ in
nothing else: each write reads its list when its turn comes. `_loadTasks` puts the
preferences on the page, with the task of an earlier version. The preferences
reach the first read and the saves that wait for them in any order, so a save may
do its first write before the load. `moved` and `adopted` are history: what the saves
in flight add, move or remove; and the task of an earlier version from the load that
takes it over, and removes its preference, to the first save that writes the pending
list.

## 3. The runs

| Run | Instance | Distinct states | Properties |
|---|---|---|---|
| `after_days` | 2 messages, one of them touched again, 2 calls, 2 instants, permission given or refused | 181 000 | `TypeOK`, `SealedHasReminder`, `OpenedOnTime`, `DueArrives`, `OpenedIsFinal`, `DeletionIsFinal`, `OneDateChange` |
| `oneday_days` | 3 phrases, 3 handlers, 2 days, 2 starts | 973 000 | `TypeOK`, `OneDayOnly`, `ShownIsKept`, `ShowsToday`, `TodayIsKept` |
| `queues_merges` | 3 queues, 2 tasks, 2 instants | 81 000 | `TypeOK`, `MergeState`, `NoLostWakeup`, `PausesAreFrames`, `EveryTaskRuns` |
| `merger_one` | 1 engine, lease of 3, 2 draws queued, lag 1 | 7 000 | `TypeOK`, `LeasesMatchQueues`, `NoDrawYields`, `TeardownUnmerges`, `MergingIsKept`, `OnlyAMergeDeadlocks`, `LeaseExpires` |
| `pipeline_merges` | 3 frames, depth 2 | 333 000 | `TypeOK`, `TokensAreFrames`, `FramesInOrder`, `ShownInOrder`, `OnlyTheRaceStrands`, `RequestsAreAnswered` |
| `diary_days` | 2 words, 3 days | 546 | `SavedIsStored`, `EntriesAreFinal`, `SavesOnce`, `TextIsSaved` |
| `boundary_saves` | lists of 2, 3 tasks, 3 saves | 439 000 | `OthersAreStored` |

Five more runs end, as meant, in a counterexample that section 5 explains:
`after_undelete` (`DeletedStaysDeleted`), `diary_next_day` (`EachDayHasItsMinute`),
`merger_checks` (`LeaseIsPositive`, 2 engines), `merger_fixed`
(`ConfigurationIsFixed`, 1 engine) and `pipeline_stranded` (`NoFrameStranded`).

What the properties say is written above each of them in its module, with the
line of the code it is about. Two are refinements: `FramesInOrder`
(FramePipeline implements FrameQueue) and `MergingIsKept` (ThreadMerger implements
MergedThreads). Five are liveness: `DueArrives`, `EveryTaskRuns`, `LeaseExpires`,
`RequestsAreAnswered` and `TextIsSaved`; `NoFrameStranded` is a sixth, which fails under
the same fairness.

Why the bounds are enough.

- After: messages meet only in the groups of a start, so two show everything
  two groups or one group of two can do; the calls of one message meet those of
  another nowhere else, so one of the two is touched again. Two calls give every
  overlap of one writer with another. Two instants give a date that moves
  either way and a message that is due or not. That more messages, calls and
  days change nothing is proved for all but `DueArrives`.
- One Day: an overlap needs at most the submission that empties the page,
  another that slips in, and a phrase of the day before: three phrases and two
  days, with the one 4 AM between them, which is all that a single load can meet. Three
  handlers are the two that overlap and the start or resume that looks at 4.
- Queues: three queues are needed for "the owner is itself subsumed" and for an
  owner of two; two instants (0 and 1) for a timer armed too late. Two tasks are a
  frame and the Dart task it pauses, one of them left behind on the wrong side of a
  merge. The safety properties are proved for every number.
- Merger: a lease of three is the shortest with a frame that neither merges nor
  ends it. The platform thread may start `MaxLag` raster tasks while the raster
  thread is in the tail of the draw that merged; section 5 says what more would
  do. The safety properties are proved for any number of engines and, but for
  `OnlyAMergeDeadlocks`, which needs no condition, every lease at least two longer
  than the lead (section 4). The runs that find `LeaseIsPositive` and
  `ConfigurationIsFixed` violated take the fewest engines that show it, two and one.
- Pipeline: depth 2 is the engine's. Three frames are the one that merges the
  threads and is put back, the one that overtakes it, and one that finds the
  pipeline full, or is forgotten. The safety properties are proved for every depth and
  number.
- Diary: three days give an entry of yesterday, midnight within a minute, and a
  start on the day after; two words tell a replaced entry. The safety properties
  are proved for every number of both. A state has few parts, so there are few
  states; every action fires.
- Boundary: three saves at three different writes are what one list each is
  behind by; a list of two shows the task that a third pushes out.

`CHECK_DEADLOCK FALSE` is stated where the system may stop: the queues when all
`MaxTasks` tasks have run and the clock is at its end (the loops sleep), and the
merger when the platform thread waits for itself (the deadlock `shell.cc:1058` warns
of, the third finding) or an `FML_CHECK` has ended the process. In all other passing
runs deadlock is checked.

Fairness, and what justifies it.

- After: the isolate finishes what it began (`WF` of each call's steps). The
  process ends some day and is started again (`WF` of `Kill`, `Launch`). A start
  with the permission comes again and again, and gets through its first two
  queries again and again (`SF` of `LaunchGranted`, `FindDue`, `OpenDue`): the
  user who once grants is not asked again, and a failure at every single start
  is no program's to survive. Section 5 says what a user who never grants gets.
- TaskQueues: time passes, timers fire, loops and tasks go on, and a vsync
  callback that has paused goes on to post its frame (`WF` of `Tick`,
  `OnEventFired`, `GetNextTaskToRun`, `TaskReturns`, `PostFrame`): the operating
  system's scheduling. Nobody has to post, merge or unmerge.
- ThreadMerger: each thread goes on with its raster tasks, and does not lose
  the race for the raster queue or a mutex for ever (`SF` per thread), and the
  platform thread and the IO thread go on (`WF` of `ShellStep`). Frames and
  surfaces come as they please.
- FramePipeline: the thread that serves the raster queue goes on, also when the
  queue changes hands in between (`SF` per thread); a vsync that was asked for
  comes and the UI thread finishes its frame and its push (`WF` of `BeginFrame`,
  `EndFrame`, `Produce`). Nobody has to ask for a frame, and no fairness is stated of
  what a draw finds out: merging, losing or putting back may happen every time. So
  `RequestsAreAnswered` has two exceptions: a frame that was forgotten keeps its place
  for good (`Forgotten`), and one that is put back for ever because merging stays
  disabled, or surfaces come and go for ever, is never done (`NeverDone`).
- OneMinuteDiary: the query, the timer and the transactions come to an end while
  the process lives. Nobody has to open the app, type or tap.
- OneDayClose and Boundary have no liveness property: nothing in them has to
  happen.

## 4. The proofs

TLAPS checks the proofs for every value of the constants that satisfies the
assumptions their modules name: finite sets and natural bounds
(`AfterAssumption`, `OneDayAssumption`, `QueuesAreFinite`, `BoundsAreNaturals`,
`MaxFramesIsNatural`, `MaxDayIsNatural`), values told apart
(`kUnmergedIsNoQueue`, `NothingIsNoWord`), sizes of at least one
(`DepthIsPositive`, `TermsAreNatural`, `MaxItemsIsPositive`, `MaxSavesIsPositive`), a
switch that is Boolean (`AnyThreadIsBoolean`). TLC evaluates each of them in the runs.
Some theorems take a condition more, said in their statement: `NoLostWakeupHolds` takes
`~AnyThread`, and five of ThreadMerger take `ShortLead`.

**AfterMessages_proofs.** `TypeCorrect`: the hard part is that a group's
`Cardinality` is a natural, since `Msgs` is finite. `OpenedOnTimeHolds` and
`OpenedIsFinalHolds` rest on

    OpenedInv == TypeOK /\ NoCallBeforeRunApp /\ WorkIsDue
                        /\ CopyNotOpened /\ OpenedOnTime

`OpenedOnTime` alone is not inductive: `OpenDue` needs that what main() is about
to open is due (`WorkIsDue`), that holds between the query and the transaction
only because no controller runs then (`NoCallBeforeRunApp`), and `ChangePut`
needs that its row was not opened since it was read (`CopyNotOpened`), which is
again because opening needs a start and a start ends every call. The argument
is the design: opening is safe because it comes before `runApp`.
`DeletionIsFinalHolds` and `OneDateChangeHolds` add three facts to it,

    CallsInv == OpenedInv /\ SoleCall /\ CopyIsTrue /\ UsedIsPresent

of two calls on one message both are noticed, a change of date that nobody
overlaps holds a true copy of a row that is still sealed and unchanged, and only
a row that was written has used its change.
`SealedHasReminderHolds` speaks of the running app only, but what it says has to
outlive a death and every place `main()` can die in, so its invariant speaks of
all phases:

    RemindersInv == CallsInv /\ CopyDated /\ RemindedOutside /\ GroupsApart

Outside the announcement the reminders are there (`RemindedOutside`); during it
they are there for the messages `main()` has behind it, and none of these shares
its day with one ahead (`GroupsApart`), so that cancelling the next day silences
nobody and a death costs only what is in `work`. `CopyDated` says that a call about
to schedule, unless another overlaps it, holds the day its row has.

**OneDayClose_proofs.** All five properties. What the two preferences will be
depends on the writes under way and on their order, so the invariant says what
each pending write is about to do. `QueueInv`: each handler that waits has exactly
one write in the line. `WrittenInv`: which. `CacheInv` (in memory): the phrases
are of the day of the last save and nobody is about to remove them, or a put that
comes after every such removal is going to save today. `DiskInv`: the same of
what is stored, unless an `addPhrase` is between its two writes. `ClearsInv`,
`StampsInv`: a time is removed after phrases were put again only if the stamp
of that put comes later still, and it is today's. With the types, `HandlersInv`,
`AddsInv`, `BornInv` and `PutsToday` this is inductive (`Invariance`), and gives
`OneDayOnlyHolds`. What the page shows takes a second layer: if it shows something
else than is kept, and is not `stale`, a handler is under way that will show what is
kept (`ShownInv`); one handler at most is between two readings of the clock, and the
list it has in hand is what is kept, unless its clear has met a put that is still to
be shown (`CountedInv`); and once the age was checked today nothing older is kept
(`LookedInv`). With `RestInv` and `TimeInv` these give `ShownIsKeptHolds`,
`ShowsTodayHolds`, `TodayIsKeptHolds`. The first two except a stale page: the only step
that makes one is the second reading of a load that has a list in hand already.

**TaskQueues_proofs.** `MergeStateHolds` from the shape of the state; it does not
depend on who merges. `PausesAreFramesHolds` from

    PauseInv == Shape /\ Fresh /\ PausesAreFrames

where `Shape` is `TypeOK` with `paused` an integer only and `Fresh` says that
the queues are finite and every task older than `order`, so that a new frame is
counted once; that `paused` is a natural, and with it `TypeCorrect`, follows from
the account of the frames and cannot be had without it. `NoLostWakeupHolds`, under
`~AnyThread`, from `PauseInv /\ MergeState /\ FrameAtHome /\ NoLostWakeup`:
`FrameAtHome` says that a frame runs on the loop that serves its queue, without
which the resume after it would wake the wrong loop.

**ThreadMerger_proofs.** For any number of engines and any constants: `TypeCorrect`;
`LeaseProtectsHolds`, that no engine parts the threads under another's lease, which needs
no invariant (only two actions part the threads, and each leaves no positive lease);
`LatchHasAnOwner`, that somebody is to open the latch whenever the platform thread
waits; and `OnlyAMergeDeadlocksHolds`, that it comes to wait for itself in one step
only, a merge of the raster queue with the teardown in it. The invariant of the last two,
`DoesInv /\ LatchInv`, follows the one raster task that tears a surface down: it is in
the queue, or on the raster thread, or has asked the IO thread, and all the while the
platform thread waits.

For any number of engines, when a lease outlasts the platform thread's lead by two,

    ShortLead == MaxLag + 2 <= LeaseTerm

hold `LeasesMatchQueuesHolds`, `NoDrawYieldsHolds`, `TeardownUnmergesHolds` and
`MergingIsKeptHolds` (a step simulation of MergedThreads), with an embedder that
creates and destroys surfaces as it likes. The condition is needed: section 5 shows that
with a longer lead the leases and the queues part. The invariant is (`SeveralHold`)

    Several == TypeOK /\ DoesInv /\ LatchInv /\ LeadInv
    LeadInv == PlacesInv /\ TailInv

`PlacesInv` says what the step of each thread tells of the merge; `TailInv` has the
arithmetic: while the raster thread is in the tail of the draw that merged, the
lease of its engine is at least its term less the draws the platform thread has
started since (`lag`), and one more while it has not paid for its own (`Owed`), or a
teardown has erased it. So with `ShortLead` the late decrement never takes the last
lease. For the teardown `GoneInv` adds that the draws of an engine without a surface
get to no merge, although the draws of others do.

**FramePipeline_proofs, FrameOrder_proofs.** From

    Inv == TypeOK /\ TokensInv /\ PlacesInv /\ ServerInv /\ FrameInv

follow `TypeCorrect` and `TokensAreFramesHolds`: every frame in the queue has a token,
one on its way, or a consumer that took it (`TokensInv`); every place of the pipeline is
free, promised, or held by a frame (`PlacesInv`). Neither is inductive without the
other; `ServerInv` says that the platform thread draws only while the threads are merged.
`OnlyTheRaceStrandsHolds` is an action property from `TokensInv`: with no assumption on
the producer, the one step after which a frame waits and nobody is to see to it is a
Draw that finds no token for a frame pushed behind another and not yet signalled.
`FrameOrder_proofs` adds `OrderInv`, frames wait in the order of their numbers and
none is in two places, and shows the step simulation of FrameQueue,
`FramesInOrderHolds`. From `ShownInv` follows `ShownInOrderHolds`: one thread takes
frames at a time (a raster thread that takes one is not merged), and what waits or is drawn is no older than what was
taken before it, unless it was put back when overtaken.

**OneMinuteDiary_proofs.** `SavedIsStoredHolds`, `EntriesAreFinalHolds`,
`SavesOnceHolds`, from `Inv == TypeInv /\ ScreenInv /\ DatesInv /\ WritesInv /\
SavedIsStored`: there is no entry of the date the page has and of none after
it as long as the page can be written (`DatesInv`), and one caller's write is what
the page shows (`WritesInv`). `ClosedTextIsKept`, the safety half of `TextIsSaved`, adds
`ClosedInv`: a page is read-only exactly when its minute is over, and the text of such
a page is saved or a write has it, under way or refused.

**Boundary_proofs.** `OthersAreStoredHolds`, for lists of any length. What `Kept` gives
is a fact about a recursive function, for which the module needs induction: it is
stated over sets (`Induction`: a set that has 0 and with every number the next has all;
`SeqInduction`, the same for sequences), because an induction principle over operators
cannot be instantiated, while a set of numbers is a term like any other. From it
come the facts about the lists: `KeptAppend`, `KeptConcat`, `KeptTwice`, `KeptAgree`, and
`FitAgree`, that pushing the oldest tasks out of a full list is noticed as a move of
just these. The invariant is

    IInv == TypeInv /\ FewStepsBeforeTheLoad /\ WrittenIsStored /\ OthersAreStored

The pending list may differ from the stored one by what is in `moved` and in `adopted`,
the other two by `moved` only (`Unstored`); a save that has written the pending list
empties `adopted`.
`OthersAreStored` alone is not inductive: the end of the last save empties `moved`, and
that all lists are stored by then is what `WrittenIsStored` says of every write on
the way (a list that no running save is still to write is stored). That in turn
needs that a save which began before the load has come no further than its second
write (`FewStepsBeforeTheLoad`). `WrittenIsStoredHolds` states it as a theorem of its
own.

Only model-checked: the five liveness properties, which with ENABLED are out of the
prover's reach; of `TextIsSaved` the safety half is proved (`ClosedTextIsKept`). Only
proved: `LeaseProtects`, whose smallest interesting instance has two engines. No module
declares a recursive operator.

## 5. What the models show of the code

Five findings, each a run in which TLC shows the code do what its own text denies:

1. `after_undelete`: `changeDate` puts back the object it read before an await
   (`after/features/sealed/sealed_controller.dart:65`), and revives a message
   deleted meanwhile, which the dialog says cannot be undone
   (`after/features/sealed/sealed_page.dart:56`).
2. `merger_checks`: "lease_term should always be positive when merged"
   (`engine/fml/shared_thread_merger.cc:59`). An engine whose lease ran out while
   another's keeps the threads merged stays in the map at zero, and its next frame
   without a platform view fails the check.
3. `merger_fixed`: "Prevent any request to change the thread configuration for raster
   and platform queues while the platform view is being destroyed"
   (`engine/shell/common/shell.cc:1051`). `enabled_` is a flag, not a count. The raster
   task of an earlier `OnPlatformViewCreated`, which does not wait for it, enables
   merging again when the surface goes first; a queued frame then merges the queue that
   holds the teardown into the thread that waits for it: the deadlock line 1058 warns
   of. `OnlyAMergeDeadlocks` says that nothing else leads there.
4. `pipeline_stranded`: "Eventually the 'Rasterizer' will consume it"
   (`engine/shell/common/animator.cc:152`). The push and the signal of a frame are two
   steps (`pipeline.h:228-234`). A draw that ends between them has seen the frame in the
   queue and posts itself; that draw finds no token and ends, and the signal wakes
   nobody. Later frames do not find the queue empty and are announced to nobody either,
   until the pipeline is full and asks again at every vsync, in vain.
   `OnlyTheRaceStrands` says that no other step leaves a frame behind.
5. `diary_next_day`: a process that is still alive the next day shows the new date
   over the read-only page of the day before
   (`apps/one_minute_diary/lib/features/entry/application/today_entry_controller.dart:50`);
   there is no minute that day until the app is restarted, although the home screen
   promises one a day (`home_screen.dart:105`).

Observations. These contradict no text of the repository; where a constant or a
property is named, changing the run's configuration accordingly shows it.

- After, without the permission: due messages are opened only inside the `if` on the
  notification permission (`after/main.dart:106`). A user who refuses never gets
  a message, which leaves the sealed list all the same. (`after_days` with
  `Permissions = {FALSE}`: `DueArrives` fails.)
- After, the other id: re-dating and deleting cancel under the message's id; the
  reminder the last start left under the date's id stays, for records that are
  gone (`ChangeCancel` and `DeleteCancel` leave `dateNotif` alone).
- Merger, two engines, disabling: merging is disabled through one engine's merger, under
  that merger's mutex, while a draw of the other engine may be past the question
  whether it is enabled, under its own
  (`engine/fml/raster_thread_merger.cc:59`). That draw merges afterwards: a second way,
  without a hasty embedder, to the third finding. (`merger_fixed` with two engines and
  no `OnPlatformViewCreated`.)
- Merger, two engines, a second parting: a decrement under way whose record another
  engine's teardown has erased meanwhile, parting the threads, finds no lease left and
  parts them once more, and the check of `UnMergeNowUnSafe` fails
  (`aborted` of ThreadMerger). `LeasesMatchQueues` holds all the same.
- Merger, a long tail: the draw that merges decrements the lease on the raster
  thread while frames already run on the platform thread. As long as at most
  `LeaseTerm - 2` of them start meanwhile, leases and queues agree at every step.
  With one more, that late decrement may be the one that ends the lease, and the
  raster thread parts the threads. (`merger_one` with `MaxLag = 2`: `MergingIsKept`
  fails.) With two more it may fall between another frame's question whether the
  threads are merged and its extension of the lease, which leaves a lease with
  nothing merged. (`MaxLag = 3`: `LeasesMatchQueues` fails.) With the engine's term
  of 10 frames that takes nine or ten frames during the tail of one.
- Pipeline, a frame with platform views while merging stays disabled is put back and
  drawn again without end, as fast as the raster thread can, until the surface is set
  up (`NeverDone` in `RequestsAreAnswered`).
- Queues: if a queue were merged from any thread while its loop runs a frame
  (`AnyThread = TRUE`), the resume at the end of the frame looks at the queue
  itself, which is subsumed by now, and nobody wakes the owner for the Dart tasks.
  The engine never does that; the API would allow it.
- Boundary: a letter typed before the preferences have arrived begins a save, whose
  first write may put an empty list over the stored one
  (`apps/boundary_app/lib/main.dart:173`).
- Mind capsule: two quick taps on save store two entries
  (`apps/mind_capsule_app/lib/features/record/record_provider.dart:132`); read, not
  modelled.

What the passing properties had to except, each exception named in the property:

- After: two overlapping changes of date both pass the test of
  `dateChangeUsed` (`sealed_controller.dart:48`), so the date moves twice
  (`overlapped` in `OneDateChange` and `DeletionIsFinal`). A failed or interrupted
  call may leave a message without reminder until the next complete start
  (`missed` in `SealedHasReminder`).
- One Day: `addPhrase` writes the phrases and then the time. A death between the
  two, on an empty page, keeps phrases with no time, which never expire; 4 AM
  between them dates yesterday's list with today (`torn`). And the first
  submission of a new day empties the page in two awaited writes and then puts
  a list with its own phrase only: a phrase another submission put in between is
  lost (the last disjunct of `TodayIsKept`). `_loadPhrases` reads the clock twice
  (`oneday/features/one_day/one_day_page.dart:77-85`): with 4 AM between the two, the
  second reading empties the store and the page shows yesterday's list over it until
  its next `setState` (`stale` in `ShownIsKept` and `ShowsToday`).
- Pipeline: the thread that merged puts its frame back when the queue is empty, which
  does not say that the platform thread has not taken and shown a newer one
  meanwhile; the older is then shown last (`overtaken` in `ShownInOrder`).
- Diary: a text the store refuses is read-only and not stored, and gone with the
  process (`failed` in `TextIsSaved`).
- Boundary: a task that a running save is moving may be in two stored lists or in
  none (`moved` in `OthersAreStored`): one moved from mine to the others' is in
  neither for one write. The task of an earlier version is on the page after the load
  and its preference gone (`apps/boundary_app/lib/main.dart:186-188`), but no list is
  stored before the next save: a process that dies first has lost it (`adopted`).

## 6. What is not modelled, and why

- The rest of the shell, runtime, impeller, the embedders: rendering, platform
  glue and the Dart runtime. Of `shell.cc` only the surface callbacks and the draw
  are here. This is most of the repository's C++, so the share of its lines that
  the models stand for is small: they stand for the part whose correctness depends
  on an order of events.
- Start, stop and disposal of loops (`message_loop_impl.cc`, `DisposeTasks`): they
  happen once, before and after everything the modules are about.
- `IsMergedUnSafe` reads the lease map under one engine's mutex while another
  engine may insert: a data race in C++ terms, which two engines' tasks can reach only
  in the tail of the draw that merged. The model reads it in one step.
- `WaitUntilMerged` and statically merged threads: used by unit tests and by
  platforms without a raster thread.
- After, lists, calendar and the writing sheet: one list per controller, replaced
  after a query, on pages this version does not route. Lifecycle timers and the crash
  log: nothing the user sees.
- Mind capsule: the reachable part is one handler, whose overlap with itself
  breaks no rule the app states.
- One Day, `OneDayHomePage`: not shown by the app.
- Pulse, one sentence, snow blackhole, particle, `core_state`: sequential.
- Ids of notifications that collide (`after/core/notification.dart:144`): they are
  taken as distinct, a collision being a fact about the hash function.
- Vendored and generated code; platform runners; tools and documents.

## 7. What is left open

- The merger with several engines: `LeaseIsPositive` fails there, `ConfigurationIsFixed`
  also with one (section 5), and what would hold with a repaired record and a repaired
  flag is a question about code that does not exist. Everything else is proved for any
  number.
- FramePipeline and ThreadMerger meet in MergedThreads, which the one implements and the
  other takes as its model of merging; the two are not composed in one state space.
  What the contract leaves out, and one of the two could still need of the other, is the
  lease: FramePipeline lets any draw of the platform thread part the threads.
