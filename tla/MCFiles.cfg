\* Any creations and removals; a file through all three kinds of reference.
SPECIFICATION AnySpec
CONSTANTS
  Names = {a, b, c, d}
  Free = free
  PerBlock = 2
  MaxDirBlocks = 3
  Direct = 1
  Refs = 3
  BlockSize = 2
  MaxWrite = 4
  MaxTxn = 8
  MaxBlocks = 8
  LastBlock = 14
  Foreign = {1, 4, 8, 14}
INVARIANTS NoBlockTwice HandleIsOnDisk TransactionFits
PROPERTIES TidyIsSet DeleteFreesTree
