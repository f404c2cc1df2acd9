\* Lists of up to four nodes; two sets of up to three keys; at most three rectangles,
\* one to a node of the tree and three levels; histories of three lines in an array
\* that grows by two.
SPECIFICATION AnySpec
CONSTANTS
  Addresses = {1, 2, 3, 4}
  Elements = {0, 1}
  NULL = NULL
  Free = Free
  MaxTurns = 2
  Names = {s1, s2}
  Keys = {1, 2, 3}
  Buffers = {b1, b2, b3}
  Nowhere = Nowhere
  Absent = Absent
  Lost = Lost
  Raw = Raw
  Moved = Moved
  Spilt = Spilt
  MaxCapacity = 3
  MaxDepth = 3
  MaxItems = 1
  Width = 17
  Height = 17
  Pressed <- MCPressed
  Released <- MCReleased
  MaxRects = 3
  MaxMoves = 1
  Lines <- MCLines
  Recalls <- MCRecalls
  Builtins = {"exit"}
  Growth = 2
  Pids = {1, 2}
  MaxHistory = 3
  MaxInterrupts = 2
SYMMETRY MCSymmetry
INVARIANTS ListsAreSequences SetsOwnTheirMemory CollisionsArePainted IterationVisitsAll ForegroundOnly
PROPERTIES SetsAreSorted HistoryKeepsCommands
\* A list may be full, and each of the programs may have ended or crashed.
CHECK_DEADLOCK FALSE
