SPECIFICATION Spec
CONSTANTS
  MaxItems = 2
  MaxIds = 3
  MaxSaves = 3
INVARIANTS OthersAreStored
