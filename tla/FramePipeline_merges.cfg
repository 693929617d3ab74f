SPECIFICATION FairSpec
CONSTANTS
  Depth = 2
  MaxFrames = 3
INVARIANTS TypeOK TokensAreFrames
PROPERTIES FramesInOrder ShownInOrder OnlyTheRaceStrands RequestsAreAnswered
