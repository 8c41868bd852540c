SPECIFICATION Spec
CONSTANTS
  MaxHeight = 3
  MaxFile = 2
  MaxBlockfileSize = 3
  MinBlocksToKeep = 1
  PruneAfterHeight = 1
  MaxCrashes = 1
  Worlds <- MCUndoWorlds
  Null = Null
INVARIANTS
  UndoDurable
