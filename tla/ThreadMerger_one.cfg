SPECIFICATION FairSpec
CONSTANTS
  Engines = {e1}
  LeaseTerm = 3
  MaxDraws = 2
  MaxLag = 1
CHECK_DEADLOCK FALSE
INVARIANTS TypeOK LeasesMatchQueues NoDrawYields TeardownUnmerges
PROPERTIES MergingIsKept  LeaseExpires
