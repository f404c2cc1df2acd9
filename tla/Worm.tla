-------------------------------- MODULE Worm --------------------------------
(***************************************************************************)
(* The worm game (worm.c): five tasks on the cooperative scheduler share   *)
(* the board, the direction and length of the worm and the flag running;   *)
(* main waits for four of them.  What a task does between two calls of the *)
(* scheduler is one step.                                                  *)
(***************************************************************************)
EXTENDS Scheduler, FiniteSets

CONSTANTS
  Zero,        (* the key update_worm puts into the queue, which means nothing *)
  Rows, Cols,  (* BOARD_HEIGHT, BOARD_WIDTH                                *)
  InitLength,  (* INIT_WORM_LENGTH                                         *)
  AppleAge,    (* apple_age                                                *)
  MaxApples,   (* bound on the apples that lie on the board at a time      *)
  MaxLength    (* bound on worm_length                                     *)

ASSUME WormAssumption ==
  /\ Zero \in Keys
  /\ Rows \in Nat \ {0} /\ Cols \in Nat \ {0}
  /\ InitLength \in Nat \ {0}
  /\ AppleAge \in Nat /\ AppleAge > 1
  /\ MaxApples \in Nat /\ MaxLength \in Nat
  /\ NumTasks = 6

VARIABLES
  board,       (* 0: empty; n > 0: the worm was there n - 1 moves ago;     *)
               (* -n: an apple that disappears in n updates                *)
  wormDir,     (* worm_dir                                                 *)
  wormLength,  (* worm_length                                              *)
  running,
  waits        (* calls of task_wait that returned to main; 5: game over is *)
               (* shown, 6: main returned                                  *)

gameVars == <<board, wormDir, wormLength, running>>
vars == <<schedulerVars, gameVars, waits>>

\* The handles, in the order of the calls of task_create.
UpdateWorm == 1
DrawBoard == 2
ReadInput == 3
UpdateApples == 4
GenerateApple == 5

Cells == (0..(Rows - 1)) \X (0..(Cols - 1))

Opposite == [north |-> "south", south |-> "north", east |-> "west", west |-> "east"]

Directions == DOMAIN Opposite

Neighbour(c, d) ==
  CASE d = "north" -> <<c[1] - 1, c[2]>>
    [] d = "south" -> <<c[1] + 1, c[2]>>
    [] d = "east"  -> <<c[1], c[2] + 1>>
    [] d = "west"  -> <<c[1], c[2] - 1>>

Init ==
  /\ SchedulerInit
  /\ board = [c \in Cells |-> IF c = <<Rows \div 2, Cols \div 2>> THEN 1 ELSE 0]
  /\ wormDir = "north"
  /\ wormLength = InitLength
  /\ running = TRUE
  /\ waits = 0

-----------------------------------------------------------------------------
(* update_worm                                                             *)

\* The cell update_worm found the head in; there is none after a collision.
WormHead == CHOOSE c \in Cells : board[c] = 1

\* Mutant: a segment stays one move too long.
Aged_TooOld ==
  [c \in Cells |-> IF board[c] <= 0 THEN board[c]
                   ELSE IF board[c] + 1 > wormLength + 1 THEN 0
                   ELSE board[c] + 1]

\* Every segment is a move older, the oldest is gone.
Aged ==
  [c \in Cells |-> IF board[c] <= 0 THEN board[c]
                   ELSE IF board[c] + 1 > wormLength THEN 0
                   ELSE board[c] + 1]

\* The worm hits the edge or itself; a key is put into the queue for read_input.
Collide ==
  /\ running' = FALSE
  /\ board' = Aged
  /\ keys' = <<Zero>> \o keys
  /\ UNCHANGED <<wormDir, wormLength>>

\* Mutant: no key is put into the queue.
MoveWorm_NoKey(to) ==
  IF to \notin Cells \/ (to \in Cells /\ Aged[to] > 0)
  THEN /\ running' = FALSE
       /\ board' = Aged
       /\ UNCHANGED <<wormDir, wormLength, keys>>
  ELSE /\ board' = [Aged EXCEPT ![to] = 1]
       /\ wormLength' = IF Aged[to] < 0 THEN wormLength + 1 ELSE wormLength
       /\ UNCHANGED <<wormDir, running, keys>>

MoveWorm(to) ==
  IF to \notin Cells \/ (to \in Cells /\ Aged[to] > 0)
  THEN Collide
  ELSE /\ board' = [Aged EXCEPT ![to] = 1]
       /\ wormLength' = IF Aged[to] < 0 THEN wormLength + 1 ELSE wormLength
       /\ UNCHANGED <<wormDir, running, keys>>

RunUpdateWorm ==
  /\ Runs(UpdateWorm)
  /\ running
  /\ MoveWorm(Neighbour(WormHead, wormDir))
  /\ TaskSleep
  /\ UNCHANGED waits

-----------------------------------------------------------------------------
(* The other tasks.                                                        *)

RunDrawBoard ==
  /\ Runs(DrawBoard)
  /\ running
  /\ TaskSleep
  /\ UNCHANGED <<keys, gameVars, waits>>

\* task_readchar at the head of read_input's loop: it blocks when there is no key,
\* and returns ERR when there is one.
RunReadInput ==
  /\ Runs(ReadInput)
  /\ running
  /\ input[ReadInput] = Err
  /\ \/ /\ keys = <<>>
        /\ TaskBlock
        /\ UNCHANGED <<keys, gameVars>>
     \/ /\ keys # <<>>
        /\ keys' = Tail(keys)
        /\ running' = FALSE
        /\ UNCHANGED <<active, current, state, waitingFor, input>>
        /\ UNCHANGED <<board, wormDir, wormLength>>
  /\ UNCHANGED waits

\* read_input goes on with the key the scheduler delivered: an arrow, q or another.
\* Which it was is decided here; nobody looks at a key before.
HandleKey ==
  /\ Runs(ReadInput)
  /\ input[ReadInput] # Err
  /\ \/ \E d \in Directions :
          /\ input[ReadInput] # Zero
          /\ wormDir' = IF wormDir # Opposite[d] THEN d ELSE wormDir
          /\ UNCHANGED running
     \/ input[ReadInput] # Zero /\ running' = FALSE /\ UNCHANGED wormDir
     \/ UNCHANGED <<wormDir, running>>
  /\ input' = [input EXCEPT ![ReadInput] = Err]
  /\ UNCHANGED <<active, current, state, waitingFor, keys, board, wormLength, waits>>

RunUpdateApples ==
  /\ Runs(UpdateApples)
  /\ running
  /\ board' = [c \in Cells |-> IF board[c] < 0 THEN board[c] + 1 ELSE board[c]]
  /\ TaskSleep
  /\ UNCHANGED <<keys, wormDir, wormLength, running, waits>>

\* On a board without an empty cell the task searches for ever.
RunGenerateApple ==
  /\ Runs(GenerateApple)
  /\ running
  /\ \E c \in Cells, age \in (AppleAge \div 2)..(AppleAge \div 2 + AppleAge - 1) :
       board[c] = 0 /\ board' = [board EXCEPT ![c] = -age]
  /\ TaskSleep
  /\ UNCHANGED <<keys, wormDir, wormLength, running, waits>>

\* Every task returns from the head of its loop.
Return ==
  /\ active = "task"
  /\ ~running
  /\ input[current] = Err
  /\ TaskExit
  /\ UNCHANGED <<keys, gameVars, waits>>

-----------------------------------------------------------------------------
(* main                                                                    *)

\* The next of the four calls of task_wait.
Wait ==
  /\ waits < 4
  /\ TaskWait(waits + 1)
  /\ waits' = waits + 1
  /\ UNCHANGED gameVars

\* end_game shows that the game is over and waits for a key.
ShowGameOver ==
  /\ active = "main"
  /\ waits = 4
  /\ waits' = 5
  /\ UNCHANGED <<schedulerVars, gameVars>>

EndGame ==
  /\ waits = 5
  /\ keys # <<>>
  /\ keys' = Tail(keys)
  /\ waits' = 6
  /\ UNCHANGED <<active, current, state, waitingFor, input, gameVars>>

Main == Wait \/ ShowGameOver \/ EndGame

-----------------------------------------------------------------------------
Apples == {c \in Cells : board[c] < 0}

\* Bound: generate_apple sleeps on while there are MaxApples apples, or the worm
\* could grow to MaxLength.
Room == Cardinality(Apples) < MaxApples /\ wormLength + Cardinality(Apples) < MaxLength

SchedulerTurn ==
  /\ Turn
  /\ running /\ state[GenerateApple] = "WAITING" /\ state'[GenerateApple] = "READY" => Room
  /\ UNCHANGED <<gameVars, waits>>

Task ==
  \/ RunUpdateWorm \/ RunDrawBoard \/ RunReadInput \/ HandleKey
  \/ RunUpdateApples \/ RunGenerateApple \/ Return

TypeKey ==
  /\ waits < 6
  /\ \E k \in Keys \ {Zero} : Press(k)
  /\ UNCHANGED <<gameVars, waits>>

Next == Main \/ SchedulerTurn \/ Task \/ TypeKey

Spec == Init /\ [][Next]_vars

\* The process runs, and every sleep ends: the laps of the scheduler take time.
Fairness ==
  /\ WF_vars(Main) /\ WF_vars(SchedulerTurn) /\ WF_vars(Task)
  /\ \A t \in {UpdateWorm, DrawBoard, UpdateApples} : SF_vars(SchedulerTurn /\ Wake(t))

FairSpec == Spec /\ Fairness

-----------------------------------------------------------------------------
TypeOK ==
  /\ SchedulerTypeOK
  /\ board \in [Cells -> Int]
  /\ wormDir \in Directions
  /\ wormLength \in Nat
  /\ running \in BOOLEAN
  /\ waits \in 0..6

Adjacent(c, d) == \E dir \in Directions : Neighbour(c, dir) = d

Segments == {c \in Cells : board[c] > 0}

\* While the game runs the worm is in one piece: it has one head, no two segments
\* of one age, never more than worm_length of them, and each lies next to the one
\* that came after it.  update_worm finds the head it starts from.
WormInOnePiece ==
  running =>
    /\ \E c \in Cells : board[c] = 1
    /\ \A c, d \in Segments : board[c] = board[d] => c = d
    /\ \A c \in Segments : board[c] <= wormLength
    /\ \A c \in Segments : board[c] > 1 =>
         \E d \in Segments : board[d] = board[c] - 1 /\ Adjacent(d, c)

\* "Display the end of game message": once the game has stopped, main comes to it,
\* whatever the tasks slept for or waited for.
GameOverIsShown == ~running ~> waits >= 5

\* main shows the end of the game only when the four tasks have returned.
OverMeansEnded ==
  waits >= 5 => ~running /\ \A t \in 1..4 : state[t] = "TERMINATED"
=============================================================================
