SPECIFICATION FairSpec
CONSTANTS
  Depth = 2
  MaxFrames = 3
PROPERTIES NoFrameStranded
