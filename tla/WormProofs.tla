----------------------------- MODULE WormProofs -----------------------------
(***************************************************************************)
(* For a board of any size and any bounds: the types, that the worm stays  *)
(* in one piece, that one task runs at a time, and that main shows the end *)
(* of the game only when the tasks it waited for have returned.            *)
(***************************************************************************)
EXTENDS Worm, TLAPS

TaskStates == {"READY", "RUNNING", "TERMINATED", "WAITING", "WAITING_FOR_INPUT"}

-----------------------------------------------------------------------------
(* Types.                                                                  *)

\* Only the collision that ends the game puts a key more into the queue.
Types == TypeOK /\ wormLength > 0 /\ (running => Len(keys) <= MaxKeys)

LEMMA HandlesAre == Handles = 0..5 /\ NumTasks = 6
  BY WormAssumption DEF Handles

LEMMA AdvanceType == ASSUME current \in Handles, Advance PROVE current' \in Handles
  BY HandlesAre DEF Advance

LEMMA TypesInit == Init => Types
<1> SUFFICES ASSUME Init PROVE Types
  OBVIOUS
<1>1. SchedulerTypeOK
  BY HandlesAre, SchedulerAssumption DEF Init, SchedulerInit, SchedulerTypeOK, NoTask
<1>2. board \in [Cells -> Int]
  BY DEF Init
<1>3. wormDir \in Directions
  BY DEF Init, Directions, Opposite
<1>4. Len(keys) <= MaxKeys
  BY SchedulerAssumption DEF Init, SchedulerInit
<1> QED BY <1>1, <1>2, <1>3, <1>4, WormAssumption DEF Init, Types, TypeOK

\* A turn of the scheduler's loop.
LEMMA TurnTypes == SchedulerTypeOK /\ Turn => SchedulerTypeOK'
<1> SUFFICES ASSUME SchedulerTypeOK, Turn PROVE SchedulerTypeOK'
  OBVIOUS
<1>1. CASE MainWakes
  BY <1>1 DEF MainWakes, SchedulerTypeOK
<1>2. CASE Pass
  BY <1>2, AdvanceType DEF Pass, SchedulerTypeOK
<1>3. CASE Start
  BY <1>3 DEF Start, SwitchToCurrent, SwapTask, SchedulerTypeOK
<1>4. CASE Deliver
  <2>1. Head(keys) \in Keys /\ Tail(keys) \in Seq(Keys) /\ Len(Tail(keys)) <= MaxKeys + 1
    <3>1. Len(Tail(keys)) = Len(keys) - 1 /\ Len(keys) \in Nat /\ MaxKeys \in Nat
      BY <1>4, SchedulerAssumption DEF Deliver, SchedulerTypeOK
    <3> QED BY <1>4, <3>1 DEF Deliver, SchedulerTypeOK
  <2> QED BY <1>4, <2>1 DEF Deliver, SwitchToCurrent, SwapTask, SchedulerTypeOK
<1>5. ASSUME NEW t \in Handles \ {0}, Wake(t) PROVE SchedulerTypeOK'
  BY <1>5, AdvanceType DEF Wake, SchedulerTypeOK
<1> QED BY <1>1, <1>2, <1>3, <1>4, <1>5 DEF Turn

\* What a task calls; the keys are the caller's business.
LEMMA CallTypes ==
  ASSUME SchedulerTypeOK, TaskSleep \/ TaskBlock \/ TaskExit,
         keys' \in Seq(Keys), Len(keys') <= MaxKeys + 1
  PROVE  SchedulerTypeOK'
<1>1. state' \in [Handles -> TaskStates]
  BY DEF TaskSleep, TaskBlock, TaskExit, SwapTask, SchedulerTypeOK, TaskStates
<1>2. active' = "loop" /\ current' \in Handles /\ UNCHANGED <<waitingFor, input>>
  BY AdvanceType DEF TaskSleep, TaskBlock, TaskExit, BackToLoop, SchedulerTypeOK
<1> QED BY <1>1, <1>2 DEF SchedulerTypeOK, TaskStates

\* The keys that a task leaves are keys.
LEMMA TailIsKeys ==
  ASSUME SchedulerTypeOK, keys # <<>>
  PROVE  Tail(keys) \in Seq(Keys) /\ Len(Tail(keys)) <= MaxKeys + 1
<1>1. Len(Tail(keys)) = Len(keys) - 1 /\ Len(keys) \in Nat /\ MaxKeys \in Nat
  BY SchedulerAssumption DEF SchedulerTypeOK
<1> QED BY <1>1 DEF SchedulerTypeOK

\* A move of the worm.
LEMMA MoveTypes ==
  ASSUME Types, running, MoveWorm(Neighbour(WormHead, wormDir))
  PROVE  /\ board' \in [Cells -> Int] /\ wormDir' \in Directions
         /\ wormLength' \in Nat /\ wormLength' > 0 /\ running' \in BOOLEAN
         /\ keys' \in Seq(Keys) /\ Len(keys') <= MaxKeys + 1
         /\ running' => Len(keys') <= MaxKeys
<1> DEFINE to == Neighbour(WormHead, wormDir)
<1>1. Aged \in [Cells -> Int]
  BY DEF Aged, Types, TypeOK
<1>2. Len(keys) \in Nat /\ Len(keys) <= MaxKeys /\ keys \in Seq(Keys) /\ MaxKeys \in Nat
  BY SchedulerAssumption DEF Types, TypeOK, SchedulerTypeOK
<1>3. CASE Collide
  <2>1. keys' \in Seq(Keys) /\ Len(keys') = 1 + Len(keys)
    BY <1>2, <1>3, WormAssumption DEF Collide
  <2>2. Len(keys') <= MaxKeys + 1
    BY <1>2, <2>1
  <2>3. board' = Aged /\ running' = FALSE /\ UNCHANGED <<wormDir, wormLength>>
    BY <1>3 DEF Collide
  <2> QED BY <1>1, <2>1, <2>2, <2>3 DEF Types, TypeOK
<1>4. CASE ~(to \notin Cells \/ (to \in Cells /\ Aged[to] > 0))
  BY <1>1, <1>2, <1>4 DEF MoveWorm, Types, TypeOK
<1> QED BY <1>3, <1>4 DEF MoveWorm

LEMMA TypesStep == Types /\ [Next]_vars => Types'
<1> SUFFICES ASSUME Types, [Next]_vars PROVE Types'
  OBVIOUS
<1> USE DEF Types, TypeOK
<1>0. Len(keys) \in Nat /\ MaxKeys \in Nat
  BY SchedulerAssumption DEF SchedulerTypeOK
<1>1. CASE Main
  <2>1. CASE Wait
    BY <1>0, <2>1, HandlesAre DEF Wait, TaskWait, gameVars, SchedulerTypeOK
  <2>2. CASE ShowGameOver
    BY <2>2 DEF ShowGameOver, schedulerVars, gameVars, SchedulerTypeOK
  <2>3. CASE EndGame
    <3>1. Tail(keys) \in Seq(Keys) /\ Len(Tail(keys)) <= MaxKeys + 1
      BY <2>3, TailIsKeys DEF EndGame
    <3>2. running => Len(Tail(keys)) <= MaxKeys
      BY <1>0, <2>3 DEF EndGame, SchedulerTypeOK
    <3> QED BY <2>3, <3>1, <3>2 DEF EndGame, gameVars, SchedulerTypeOK
  <2> QED BY <1>1, <2>1, <2>2, <2>3 DEF Main
<1>2. CASE SchedulerTurn
  <2>1. SchedulerTypeOK' /\ UNCHANGED <<gameVars, waits>>
    BY <1>2, TurnTypes DEF SchedulerTurn
  <2>2. Len(keys') <= Len(keys)
    BY <1>0, <1>2 DEF SchedulerTurn, Turn, MainWakes, Pass, Start, Deliver, Wake, SchedulerTypeOK
  <2>3. Len(keys') \in Nat
    BY <2>1 DEF SchedulerTypeOK
  <2> QED BY <1>0, <2>1, <2>2, <2>3 DEF gameVars
<1>3. CASE RunUpdateWorm
  <2>1. MoveWorm(Neighbour(WormHead, wormDir)) /\ TaskSleep /\ running /\ waits' = waits
    BY <1>3 DEF RunUpdateWorm
  <2>2. SchedulerTypeOK'
    BY <2>1, MoveTypes, CallTypes
  <2> QED BY <2>1, <2>2, MoveTypes
\* The tasks that leave the keys alone.
<1>4. ASSUME TaskSleep \/ TaskBlock \/ TaskExit, keys' = keys, running' = running,
             board' \in [Cells -> Int], UNCHANGED <<wormDir, wormLength, waits>>
      PROVE  Types'
  <2>1. SchedulerTypeOK'
    BY <1>4, CallTypes DEF SchedulerTypeOK
  <2> QED BY <1>4, <2>1
<1>5. CASE RunDrawBoard
  BY <1>4, <1>5 DEF RunDrawBoard, gameVars
<1>6. CASE RunReadInput
  <2>1. CASE keys = <<>> /\ TaskBlock /\ UNCHANGED <<keys, gameVars>>
    BY <1>4, <1>6, <2>1 DEF RunReadInput, gameVars
  <2>2. CASE /\ keys # <<>> /\ keys' = Tail(keys) /\ running' = FALSE
             /\ UNCHANGED <<active, current, state, waitingFor, input>>
             /\ UNCHANGED <<board, wormDir, wormLength>>
    BY <1>6, <2>2, TailIsKeys DEF RunReadInput, SchedulerTypeOK
  <2> QED BY <1>6, <2>1, <2>2 DEF RunReadInput
<1>7. CASE HandleKey
  <2>1. wormDir' \in Directions
    BY <1>7 DEF HandleKey
  <2>2. running' = FALSE \/ running' = running
    BY <1>7 DEF HandleKey
  <2>3. input' \in [Handles -> Keys \cup {Err}]
    BY <1>7 DEF HandleKey, SchedulerTypeOK
  <2>4. UNCHANGED <<active, current, state, waitingFor, keys, board, wormLength, waits>>
    BY <1>7 DEF HandleKey
  <2>5. SchedulerTypeOK'
    BY <2>3, <2>4 DEF SchedulerTypeOK
  <2>6. running' \in BOOLEAN /\ (running' => Len(keys') <= MaxKeys)
    <3>1. CASE running' = FALSE
      BY <3>1
    <3>2. CASE running' = running
      <4>1. keys' = keys
        BY <2>4
      <4> QED BY <3>2, <4>1
    <3> QED BY <2>2, <3>1, <3>2
  <2> QED BY <2>1, <2>4, <2>5, <2>6
<1>8. CASE RunUpdateApples
  BY <1>4, <1>8 DEF RunUpdateApples
<1>9. CASE RunGenerateApple
  <2>1. PICK c \in Cells, age \in (AppleAge \div 2)..(AppleAge \div 2 + AppleAge - 1) :
          board' = [board EXCEPT ![c] = -age]
    BY <1>9 DEF RunGenerateApple
  <2>2. -age \in Int
    BY WormAssumption
  <2> QED BY <1>4, <1>9, <2>1, <2>2 DEF RunGenerateApple
<1>10. CASE Return
  BY <1>4, <1>10 DEF Return, gameVars
<1>11. CASE TypeKey
  <2>1. PICK k \in Keys : Press(k)
    BY <1>11 DEF TypeKey
  <2>2. keys' \in Seq(Keys) /\ Len(keys') <= MaxKeys
    <3>1. keys' \in Seq(Keys) /\ Len(keys') = Len(keys) + 1 /\ Len(keys) < MaxKeys
      BY <2>1 DEF Press, SchedulerTypeOK
    <3> QED BY <1>0, <3>1
  <2> QED BY <1>0, <1>11, <2>1, <2>2 DEF TypeKey, Press, gameVars, SchedulerTypeOK
<1>12. CASE UNCHANGED vars
  BY <1>12 DEF vars, schedulerVars, gameVars, SchedulerTypeOK
<1> QED BY <1>1, <1>2, <1>3, <1>5, <1>6, <1>7, <1>8, <1>9, <1>10, <1>11, <1>12 DEF Next, Task

\* Every variable keeps its range; the queue of keys holds at most one key that nobody
\* pressed.
THEOREM TypeCorrect == Spec => []TypeOK
<1>1. Types => TypeOK
  BY DEF Types
<1> QED BY <1>1, TypesInit, TypesStep, PTL DEF Spec

-----------------------------------------------------------------------------
(* The worm.                                                               *)

\* The first cell of a worm of two is next to the second from either side.
LEMMA AdjacentBack ==
  ASSUME NEW c \in Cells, NEW d \in Directions
  PROVE  Adjacent(Neighbour(c, d), c)
<1>1. c[1] \in Int /\ c[2] \in Int /\ c = <<c[1], c[2]>>
  BY WormAssumption DEF Cells
<1>2. Directions = {"north", "south", "east", "west"}
  BY DEF Directions, Opposite
<1>3. CASE d = "north"
  BY <1>1, <1>2, <1>3 DEF Adjacent, Neighbour
<1>4. CASE d = "south"
  BY <1>1, <1>2, <1>4 DEF Adjacent, Neighbour
<1>5. CASE d = "east"
  BY <1>1, <1>2, <1>5 DEF Adjacent, Neighbour
<1>6. CASE d = "west"
  BY <1>1, <1>2, <1>6 DEF Adjacent, Neighbour
<1> QED BY <1>2, <1>3, <1>4, <1>5, <1>6

\* Steps that leave the worm alone.
LEMMA WormKept ==
  ASSUME Types, Types', WormInOnePiece, running' => running, wormLength' = wormLength,
         \A c \in Cells : /\ board[c] > 0 => board'[c] = board[c]
                          /\ board[c] <= 0 => board'[c] <= 0
  PROVE  WormInOnePiece'
<1>1. SUFFICES ASSUME running'
               PROVE  /\ \E c \in Cells : board'[c] = 1
                      /\ \A c, d \in Segments' : board'[c] = board'[d] => c = d
                      /\ \A c \in Segments' : board'[c] <= wormLength'
                      /\ \A c \in Segments' : board'[c] > 1 =>
                           \E d \in Segments' : board'[d] = board'[c] - 1 /\ Adjacent(d, c)
  BY DEF WormInOnePiece
<1>2. /\ \E c \in Cells : board[c] = 1
      /\ \A c, d \in Segments : board[c] = board[d] => c = d
      /\ \A c \in Segments : board[c] <= wormLength
      /\ \A c \in Segments : board[c] > 1 =>
           \E d \in Segments : board[d] = board[c] - 1 /\ Adjacent(d, c)
  BY <1>1 DEF WormInOnePiece
<1>3. \A c \in Cells : board[c] \in Int /\ board'[c] \in Int
  BY DEF Types, TypeOK
<1>4. Segments' = Segments /\ \A c \in Segments : board'[c] = board[c]
  BY <1>3 DEF Segments
<1>5. Segments \subseteq Cells /\ \E c \in Segments : board[c] = 1
  BY <1>2 DEF Segments
<1> QED BY <1>2, <1>4, <1>5

LEMMA WormMoves ==
  ASSUME Types, WormInOnePiece, running, MoveWorm(Neighbour(WormHead, wormDir))
  PROVE  WormInOnePiece'
<1> DEFINE to == Neighbour(WormHead, wormDir)
<1>1. CASE Collide
  BY <1>1 DEF Collide, WormInOnePiece
<1>2. CASE ~(to \notin Cells \/ (to \in Cells /\ Aged[to] > 0))
  <2>1. /\ to \in Cells /\ ~(Aged[to] > 0)
        /\ board' = [Aged EXCEPT ![to] = 1]
        /\ wormLength' = IF Aged[to] < 0 THEN wormLength + 1 ELSE wormLength
    BY <1>2 DEF MoveWorm
  <2>2. /\ board \in [Cells -> Int] /\ wormLength \in Nat /\ wormLength > 0
        /\ wormDir \in Directions
    BY DEF Types, TypeOK
  <2>3. /\ \E c \in Cells : board[c] = 1
        /\ \A c, d \in Segments : board[c] = board[d] => c = d
        /\ \A c \in Segments : board[c] <= wormLength
        /\ \A c \in Segments : board[c] > 1 =>
             \E d \in Segments : board[d] = board[c] - 1 /\ Adjacent(d, c)
    BY DEF WormInOnePiece
  <2>4. WormHead \in Cells /\ board[WormHead] = 1
    BY <2>3 DEF WormHead
  <2>5. Adjacent(to, WormHead)
    BY <2>2, <2>4, AdjacentBack
  <2>6. \A c \in Cells : Aged[c] = IF board[c] <= 0 THEN board[c]
                                   ELSE IF board[c] + 1 > wormLength THEN 0
                                   ELSE board[c] + 1
    BY DEF Aged
  <2>7. wormLength' \in Nat /\ wormLength' >= wormLength
    BY <2>1, <2>2
  \* The worm after the move: the new head, and the old segments that are left.
  <2>8. /\ board'[to] = 1
        /\ \A c \in Cells : c # to => board'[c] = Aged[c]
    BY <2>1, <2>6 DEF Aged
  <2>9. \A c \in Segments' :
          c \in Cells /\ (c = to \/ /\ c \in Segments /\ c # to /\ board[c] \in Int
                                    /\ board[c] > 0
                                    /\ board'[c] = board[c] + 1
                                    /\ board[c] + 1 <= wormLength)
    BY <2>2, <2>6, <2>8 DEF Segments
  <2>10. \A c \in Segments : board[c] + 1 <= wormLength => c # to /\ c \in Segments'
                                                    /\ board'[c] = board[c] + 1
    BY <2>1, <2>2, <2>6, <2>8 DEF Segments
  <2>11. to \in Segments'
    BY <2>1, <2>8 DEF Segments
  <2>12. \A c, d \in Segments' : board'[c] = board'[d] => c = d
    BY <2>3, <2>8, <2>9
  <2>13. \A c \in Segments' : board'[c] <= wormLength'
    BY <2>2, <2>7, <2>8, <2>9
  <2>14. ASSUME NEW c \in Segments', board'[c] > 1
         PROVE  \E d \in Segments' : board'[d] = board'[c] - 1 /\ Adjacent(d, c)
    <3>1. /\ c \in Segments /\ board[c] \in Int /\ board[c] > 0
          /\ board'[c] = board[c] + 1 /\ board[c] + 1 <= wormLength
      BY <2>8, <2>9, <2>14
    <3>2. CASE board[c] = 1
      <4>1. WormHead \in Segments
        BY <2>4 DEF Segments
      <4>2. c = WormHead
        BY <2>3, <2>4, <3>1, <3>2, <4>1
      <4> QED BY <2>5, <2>8, <2>11, <3>1, <3>2, <4>2
    <3>3. CASE board[c] > 1
      <4>1. PICK d \in Segments : board[d] = board[c] - 1 /\ Adjacent(d, c)
        BY <2>3, <3>1, <3>3
      <4>2. board[d] + 1 <= wormLength
        BY <2>2, <3>1, <4>1
      <4> QED BY <2>10, <3>1, <4>1, <4>2
    <3> QED BY <3>1, <3>2, <3>3
  <2> QED BY <2>1, <2>8, <2>12, <2>13, <2>14 DEF WormInOnePiece
<1> QED BY <1>1, <1>2 DEF MoveWorm

LEMMA WormStep == Types /\ WormInOnePiece /\ [Next]_vars => WormInOnePiece'
<1> SUFFICES ASSUME Types, WormInOnePiece, [Next]_vars PROVE WormInOnePiece'
  OBVIOUS
<1>0. /\ Types'
      /\ board \in [Cells -> Int]
      /\ \A c \in Cells : board[c] \in Int
  BY TypesStep DEF Types, TypeOK
<1>1. ASSUME UNCHANGED <<board, wormLength>>, running' => running PROVE WormInOnePiece'
  BY <1>0, <1>1, WormKept
<1>2. CASE Main \/ SchedulerTurn \/ TypeKey \/ UNCHANGED vars
  <2>1. UNCHANGED gameVars
    BY <1>2 DEF Main, Wait, ShowGameOver, EndGame, SchedulerTurn, TypeKey, vars
  <2> QED BY <1>1, <2>1 DEF gameVars
<1>3. CASE RunUpdateWorm
  BY <1>3, WormMoves DEF RunUpdateWorm
<1>4. CASE RunDrawBoard \/ RunReadInput \/ Return
  <2>1. UNCHANGED <<board, wormLength>>
    BY <1>4 DEF RunDrawBoard, RunReadInput, Return, gameVars
  <2>2. running' = FALSE \/ running' = running
    BY <1>4 DEF RunDrawBoard, RunReadInput, Return, gameVars
  <2>3. running' => running
    BY <2>2
  <2> QED BY <1>1, <2>1, <2>3
<1>5. CASE HandleKey
  <2>1. UNCHANGED <<board, wormLength>>
    BY <1>5 DEF HandleKey
  <2>2. running' = FALSE \/ running' = running
    BY <1>5 DEF HandleKey
  <2>3. running' => running
    BY <2>2
  <2> QED BY <1>1, <2>1, <2>3
<1>6. CASE RunUpdateApples
  <2>1. \A c \in Cells : board'[c] = IF board[c] < 0 THEN board[c] + 1 ELSE board[c]
    BY <1>6 DEF RunUpdateApples
  <2>2. \A c \in Cells : /\ board[c] > 0 => board'[c] = board[c]
                         /\ board[c] <= 0 => board'[c] <= 0
    BY <1>0, <2>1
  <2>3. wormLength' = wormLength /\ running' = running
    BY <1>6 DEF RunUpdateApples
  <2> QED BY <1>0, <2>2, <2>3, WormKept
<1>7. CASE RunGenerateApple
  <2>1. PICK c \in Cells, age \in (AppleAge \div 2)..(AppleAge \div 2 + AppleAge - 1) :
          board[c] = 0 /\ board' = [board EXCEPT ![c] = -age]
    BY <1>7 DEF RunGenerateApple
  <2>2. -age <= 0
    BY WormAssumption
  <2>3. \A d \in Cells : /\ board[d] > 0 => board'[d] = board[d]
                         /\ board[d] <= 0 => board'[d] <= 0
    BY <1>0, <2>1, <2>2
  <2>4. wormLength' = wormLength /\ running' = running
    BY <1>7 DEF RunGenerateApple
  <2> QED BY <1>0, <2>3, <2>4, WormKept
<1> QED BY <1>2, <1>3, <1>4, <1>5, <1>6, <1>7 DEF Next, Task

LEMMA WormInit == Init => WormInOnePiece
<1> SUFFICES ASSUME Init PROVE WormInOnePiece
  OBVIOUS
<1> DEFINE mid == <<Rows \div 2, Cols \div 2>>
<1>1. mid \in Cells
  <2>1. Rows \div 2 \in 0..(Rows - 1) /\ Cols \div 2 \in 0..(Cols - 1)
    BY WormAssumption
  <2> QED BY <2>1 DEF Cells
<1>2. board = [c \in Cells |-> IF c = mid THEN 1 ELSE 0] /\ wormLength = InitLength
  BY DEF Init
<1>3. board[mid] = 1 /\ \A c \in Segments : c = mid
  BY <1>1, <1>2 DEF Segments
<1>4. 1 <= wormLength
  BY <1>2, WormAssumption
<1> QED BY <1>1, <1>3, <1>4 DEF WormInOnePiece

\* Whatever is typed and in whatever order the tasks run, the worm has one head and no
\* gap, for a board of any size: update_worm always finds the head it starts from.
THEOREM WormStaysInOnePiece == Spec => []WormInOnePiece
  BY TypesInit, TypesStep, WormInit, WormStep, PTL DEF Spec

-----------------------------------------------------------------------------
(* The scheduler.                                                          *)

Tasks == Handles \ {0}

\* A task is RUNNING exactly while it has the processor, and main WAITING meanwhile.
RunningInv ==
  /\ \A t \in Tasks : state[t] = "RUNNING" <=> active = "task" /\ current = t
  /\ active = "task" => current \in Tasks /\ state[0] = "WAITING"
  /\ state[0] # "WAITING_FOR_INPUT"

\* main waits for its tasks one after the other, and a task that returned stays so.
WaitInv ==
  /\ active # "main" => waits \in 1..4 /\ waitingFor = waits
  /\ \A t \in 1..4 : t < waits \/ (t = waits /\ active = "main") => state[t] = "TERMINATED"
  /\ \A t \in Tasks : state[t] = "TERMINATED" => ~running

SchedInv == RunningInv /\ WaitInv

LEMMA TasksAre == Tasks = 1..5 /\ 0 \in Handles /\ Tasks \subseteq Handles /\ 0 \notin Tasks
  BY HandlesAre DEF Tasks

LEMMA SchedInit == Init => SchedInv
  BY TasksAre DEF Init, SchedulerInit, SchedInv, RunningInv, WaitInv

\* Steps that do not concern the scheduler.
LEMMA SchedKept ==
  ASSUME SchedInv, UNCHANGED <<active, current, state, waitingFor, waits>>,
         running' = FALSE \/ running' = running
  PROVE  SchedInv'
  BY DEF SchedInv, RunningInv, WaitInv

\* The processor passes from the loop to the loop, a task or main.
LEMMA SchedTurn ==
  ASSUME Types, SchedInv, Turn, UNCHANGED <<running, waits>>
  PROVE  SchedInv'
<1>0. /\ state \in [Handles -> TaskStates] /\ current \in Handles
      /\ Handles = 0..5
  BY HandlesAre DEF Types, TypeOK, SchedulerTypeOK, TaskStates
<1>1. CASE active = "loop" /\ MainWakes
  BY <1>0, <1>1, TasksAre DEF MainWakes, SchedInv, RunningInv, WaitInv
<1>2. CASE active = "loop" /\ Pass
  <2>1. active' = "loop" /\ UNCHANGED <<state, waitingFor>>
    BY <1>2 DEF Pass
  <2> QED BY <1>2, <2>1 DEF SchedInv, RunningInv, WaitInv
<1>3. CASE active = "loop" /\ (Start \/ Deliver)
  <2>1. /\ active' = "task" /\ UNCHANGED <<current, waitingFor>>
        /\ state' = [state EXCEPT ![0] = "WAITING", ![current] = "RUNNING"]
        /\ state[current] \in {"READY", "WAITING_FOR_INPUT"}
    BY <1>3 DEF Start, Deliver, SwitchToCurrent, SwapTask
  <2>2. current \in Tasks
    <3>1. CASE Start
      BY <1>0, <3>1 DEF Start, Tasks
    <3>2. CASE Deliver
      BY <1>0, <3>2 DEF Deliver, Tasks, SchedInv, RunningInv
    <3> QED BY <1>3, <3>1, <3>2
  <2>3. /\ state'[0] = "WAITING" /\ state'[current] = "RUNNING"
        /\ \A t \in Tasks : t # current => state'[t] = state[t]
    BY <1>0, <2>1, <2>2, TasksAre
  <2>4. RunningInv'
    BY <1>3, <2>1, <2>2, <2>3 DEF SchedInv, RunningInv
  <2>5. WaitInv'
    BY <1>3, <2>1, <2>2, <2>3, TasksAre DEF SchedInv, WaitInv
  <2> QED BY <2>4, <2>5 DEF SchedInv
<1>4. ASSUME NEW t \in Tasks, Wake(t) PROVE SchedInv'
  <2>1. /\ active = "loop" /\ active' = "loop" /\ waitingFor' = waitingFor
        /\ state[t] = "WAITING" /\ state' = [state EXCEPT ![t] = "READY"]
    BY <1>4 DEF Wake
  <2>2. /\ state'[t] = "READY" /\ state'[0] = state[0]
        /\ \A u \in Tasks : u # t => state'[u] = state[u]
    BY <1>0, <2>1, TasksAre
  <2>3. RunningInv'
    BY <2>1, <2>2 DEF SchedInv, RunningInv
  <2>4. WaitInv'
    BY <2>1, <2>2, TasksAre DEF SchedInv, WaitInv
  <2> QED BY <2>3, <2>4 DEF SchedInv
<1> QED BY <1>1, <1>2, <1>3, <1>4 DEF Turn, Tasks

\* A task gives the processor back.
LEMMA SchedCall ==
  ASSUME Types, SchedInv, active = "task",
         TaskSleep \/ TaskBlock \/ (TaskExit /\ ~running),
         running' = FALSE \/ running' = running, waits' = waits
  PROVE  SchedInv'
<1>0. /\ state \in [Handles -> TaskStates]
      /\ current \in Tasks /\ state[0] = "WAITING" /\ state[current] = "RUNNING"
  BY DEF Types, TypeOK, SchedulerTypeOK, TaskStates, SchedInv, RunningInv
<1>1. active' = "loop" /\ waitingFor' = waitingFor
  BY DEF TaskSleep, TaskBlock, TaskExit, BackToLoop
<1>2. /\ state'[current] \in {"WAITING", "WAITING_FOR_INPUT", "TERMINATED"}
      /\ state'[current] = "TERMINATED" => ~running'
      /\ state'[0] \in {"RUNNING", "WAITING"}
      /\ \A t \in Tasks : t # current => state'[t] = state[t]
  <2>1. CASE TaskSleep \/ TaskBlock
    BY <1>0, <2>1, TasksAre DEF TaskSleep, TaskBlock, SwapTask
  <2>2. CASE TaskExit /\ ~running
    BY <1>0, <2>2, TasksAre DEF TaskExit
  <2> QED BY <2>1, <2>2
<1>3. RunningInv'
  BY <1>0, <1>1, <1>2 DEF SchedInv, RunningInv
<1>4. WaitInv'
  BY <1>0, <1>1, <1>2, TasksAre DEF SchedInv, WaitInv
<1> QED BY <1>3, <1>4 DEF SchedInv

LEMMA SchedStep == Types /\ SchedInv /\ [Next]_vars => SchedInv'
<1> SUFFICES ASSUME Types, SchedInv, [Next]_vars PROVE SchedInv'
  OBVIOUS
<1>1. CASE Wait
  <2>1. /\ active = "main" /\ active' = "loop" /\ waits < 4 /\ waits' = waits + 1
        /\ waitingFor' = waits + 1 /\ running' = running /\ waits \in 0..6
        /\ state' = [state EXCEPT ![0] = "WAITING"]
    BY <1>1 DEF Wait, TaskWait, gameVars, Types, TypeOK
  <2>2. state'[0] = "WAITING" /\ \A t \in Tasks : state'[t] = state[t]
    BY <2>1, TasksAre DEF Types, TypeOK, SchedulerTypeOK
  <2>3. RunningInv'
    BY <2>1, <2>2 DEF SchedInv, RunningInv
  <2>4. WaitInv'
    BY <2>1, <2>2, TasksAre DEF SchedInv, WaitInv
  <2> QED BY <2>3, <2>4 DEF SchedInv
<1>2. CASE ShowGameOver
  <2>1. RunningInv'
    BY <1>2 DEF ShowGameOver, schedulerVars, SchedInv, RunningInv
  <2>2. WaitInv'
    BY <1>2 DEF ShowGameOver, schedulerVars, gameVars, SchedInv, WaitInv
  <2> QED BY <2>1, <2>2 DEF SchedInv
<1>3. CASE EndGame
  <2>1. RunningInv'
    BY <1>3 DEF EndGame, SchedInv, RunningInv
  <2>2. WaitInv'
    BY <1>3 DEF EndGame, gameVars, SchedInv, WaitInv
  <2> QED BY <2>1, <2>2 DEF SchedInv
<1>4. CASE SchedulerTurn
  BY <1>4, SchedTurn DEF SchedulerTurn, gameVars
<1>5. CASE RunUpdateWorm
  BY <1>5, SchedCall DEF RunUpdateWorm, Runs, MoveWorm, Collide
<1>6. CASE RunDrawBoard \/ RunUpdateApples \/ RunGenerateApple \/ Return
  BY <1>6, SchedCall DEF RunDrawBoard, RunUpdateApples, RunGenerateApple, Return, Runs, gameVars
<1>7. CASE RunReadInput
  <2>1. CASE TaskBlock /\ UNCHANGED gameVars
    BY <1>7, <2>1, SchedCall DEF RunReadInput, Runs, gameVars
  <2>2. CASE running' = FALSE /\ UNCHANGED <<active, current, state, waitingFor>>
    BY <1>7, <2>2, SchedKept DEF RunReadInput
  <2> QED BY <1>7, <2>1, <2>2 DEF RunReadInput
<1>8. CASE HandleKey
  BY <1>8, SchedKept DEF HandleKey
<1>9. CASE TypeKey \/ UNCHANGED vars
  BY <1>9, SchedKept DEF TypeKey, Press, vars, schedulerVars, gameVars
<1> QED BY <1>1, <1>2, <1>3, <1>4, <1>5, <1>6, <1>7, <1>8, <1>9 DEF Next, Main, Task

\* swap_task's rule: never two tasks RUNNING, for any keys and any order of sleeps.
THEOREM OneRunningAlways == Spec => []OneRunning
<1>1. Types /\ SchedInv => OneRunning
  BY TasksAre DEF SchedInv, RunningInv, OneRunning, Tasks
<1> QED BY <1>1, TypesInit, TypesStep, SchedInit, SchedStep, PTL DEF Spec

\* main shows the end of the game only when the four tasks it waits for returned.
THEOREM OverMeansEndedAlways == Spec => []OverMeansEnded
<1>1. Types /\ SchedInv => OverMeansEnded
  BY TasksAre DEF Types, TypeOK, SchedInv, WaitInv, OverMeansEnded
<1> QED BY <1>1, TypesInit, TypesStep, SchedInit, SchedStep, PTL DEF Spec
=============================================================================
