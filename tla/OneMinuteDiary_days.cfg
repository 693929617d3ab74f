SPECIFICATION FairSpec
CONSTANTS
  Words = {w1, w2}
  Nothing = Nothing
  MaxDay = 2
INVARIANTS SavedIsStored
PROPERTIES EntriesAreFinal SavesOnce TextIsSaved
