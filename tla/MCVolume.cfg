\* Crashes at any point of creations, writes and removals.
SPECIFICATION AnySpec
CONSTANTS
  Names = {a, b}
  LastBlock = 5
  Reserved = 2
  MaxInodes = 4
  MaxData = 1
  MaxCrashes = 2
  MaxRefused = 1
  MaxLostNames = 1
INVARIANTS CarefulIsConsistent CarefulMapIsRight
