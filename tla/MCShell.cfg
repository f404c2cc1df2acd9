\* Two commands with a common prefix; the other programs stand still.
SPECIFICATION AnySpec
CONSTANTS
  Addresses = {}
  Elements = {}
  NULL = NULL
  Free = Free
  MaxTurns = 2
  Names = {}
  Keys = {1, 2, 3}
  Buffers = {}
  Nowhere = Nowhere
  Absent = Absent
  Lost = Lost
  Raw = Raw
  Moved = Moved
  Spilt = Spilt
  MaxCapacity = 3
  MaxDepth = 3
  MaxItems = 1
  Width = 17
  Height = 17
  Pressed <- MCPressed
  Released <- MCReleased
  MaxRects = 0
  MaxMoves = 0
  Lines <- MCLines
  Recalls <- MCRecalls
  Builtins = {"exit"}
  Growth = 2
  Pids = {1}
  MaxHistory = 3
  MaxInterrupts = 0
PROPERTY RecallRunsMostRecent
CHECK_DEADLOCK FALSE
