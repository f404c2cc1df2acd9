\* A crash in the middle of the copying.
SPECIFICATION AnySpec
CONSTANTS
  Names = {a, b}
  LastBlock = 8
  Reserved = 2
  MaxInodes = 4
  MaxData = 1
  MaxCrashes = 1
  MaxRefused = 1
  MaxLostNames = 0
INVARIANT LoadedIsOnDisk

