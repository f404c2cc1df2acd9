\* The queue, the pool and the dinner, each of them free or with a client that
\* behaves; and the search for a line through four points.
SPECIFICATION AnySpec
CONSTANTS
  Producers = {p1, p2}
  Consumers = {c1, c2}
  MaxSize = 1
  MaxCalls = 2
  Workers = {w1, w2}
  Clients = {a, b}
  Closers = {k, l}
  Jobs = {j1, j2, j3}
  NoJob = NoJob
  Capacity = 2
  N = 3
  Rows = 4
  NumThreads = 2
  Errors = {0, 1}
  NoLine = NoLine
INVARIANTS
  NoLostItem
  NoLostWakeUp PoliteShutdownIsDone
  SettledMugsExclusive NoDeadlock
  BestLineIsFound
PROPERTIES OpenCallsReturn PoliteShutdownReturns PoliteTasksRun DinnerGoesOn
\* The threads of the queue stop after MaxCalls calls, and a pool is destroyed.
CHECK_DEADLOCK FALSE
