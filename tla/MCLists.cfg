\* Lists of up to three nodes.
SPECIFICATION ListSpec
CONSTANTS
  Addresses = {1, 2, 3}
  Elements = {0, 1}
  NULL = NULL
  Free = Free
  MaxTurns = 0
INVARIANT UniqueKeepsFirst
\* There may be no memory for another node.
CHECK_DEADLOCK FALSE
