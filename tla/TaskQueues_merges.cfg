SPECIFICATION FairSpec
CONSTANTS
  Queues = {q1, q2, q3}
  kUnmerged = kUnmerged
  MaxTime = 1
  MaxTasks = 2
  AnyThread = FALSE
CHECK_DEADLOCK FALSE
INVARIANTS TypeOK MergeState NoLostWakeup PausesAreFrames
PROPERTIES EveryTaskRuns
