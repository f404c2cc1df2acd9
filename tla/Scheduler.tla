----------------------------- MODULE Scheduler -----------------------------
(***************************************************************************)
(* The cooperative scheduler of the worm game (scheduler.c).  The loop in  *)
(* schedule_task runs in the context of main, inside task_wait; a task runs *)
(* until it sleeps, reads when no key is there, or returns.  A step is one *)
(* turn of the loop up to a switch, or what a task does between two calls. *)
(* Time is not counted: a sleep that is looked at may be over or not.      *)
(***************************************************************************)
EXTENDS Integers, Sequences

CONSTANTS
  NumTasks,  (* num_tasks when main starts to wait: main and its tasks     *)
  Keys,      (* what a key press can be                                    *)
  Err,       (* curses' ERR                                                *)
  MaxKeys    (* bound on the keys that are typed ahead                     *)

ASSUME SchedulerAssumption ==
  /\ NumTasks \in Nat \ {0}
  /\ Err \notin Keys
  /\ MaxKeys \in Nat

VARIABLES
  active,      (* who runs: "main", "loop" (schedule_task) or "task"       *)
  current,     (* current_task                                             *)
  state,       (* state of every task                                      *)
  waitingFor,  (* waiting_for_id of main, the only task that waits         *)
  input,       (* of every task: the key it was resumed with, Err when it  *)
               (* has none to handle                                       *)
  keys         (* the input queue of curses                                *)

schedulerVars == <<active, current, state, waitingFor, input, keys>>

Handles == 0..(NumTasks - 1)

NoTask == -1

\* After scheduler_init and the calls of task_create.
SchedulerInit ==
  /\ active = "main"
  /\ current = 0
  /\ state = [t \in Handles |-> "READY"]
  /\ waitingFor = NoTask
  /\ input = [t \in Handles |-> Err]
  /\ keys = <<>>

SwapTask(from, to, s) == state' = [state EXCEPT ![from] = s, ![to] = "RUNNING"]

Advance == current' = (current + 1) % NumTasks

-----------------------------------------------------------------------------
(* schedule_task: one turn, for the task current.                          *)

SwitchToCurrent ==
  /\ SwapTask(0, current, "WAITING")
  /\ active' = "task"
  /\ UNCHANGED <<current, waitingFor>>

\* Mutant: handle_wait does not look at the task main waits for.
MainWakes_AtOnce ==
  /\ current = 0
  /\ state[0] = "WAITING"
  /\ state' = [state EXCEPT ![0] = "READY"]
  /\ waitingFor' = NoTask
  /\ active' = "main"
  /\ UNCHANGED <<current, input, keys>>

\* handle_wait for main, whose time_to_wake is 0: schedule_task returns.
MainWakes ==
  /\ current = 0
  /\ state[0] = "WAITING"
  /\ state[waitingFor] = "TERMINATED"
  /\ state' = [state EXCEPT ![0] = "READY"]
  /\ waitingFor' = NoTask
  /\ active' = "main"
  /\ UNCHANGED <<current, input, keys>>

\* handle_wait finds that the sleep of a task is over; it runs in the next lap.
Wake(t) ==
  /\ active = "loop"
  /\ current = t
  /\ state[t] = "WAITING"
  /\ state' = [state EXCEPT ![t] = "READY"]
  /\ Advance
  /\ UNCHANGED <<active, waitingFor, input, keys>>

\* The turn of a task that sleeps on, waits on, has ended or, main only, is
\* RUNNING: nothing happens.
Pass ==
  /\ \/ current # 0 /\ state[current] \in {"WAITING", "TERMINATED"}
     \/ current = 0 /\ ~(state[0] = "WAITING" /\ state[waitingFor] = "TERMINATED")
     \/ state[current] = "WAITING_FOR_INPUT" /\ keys = <<>>
  /\ Advance
  /\ UNCHANGED <<active, state, waitingFor, input, keys>>

Start ==
  /\ current # 0
  /\ state[current] = "READY"
  /\ SwitchToCurrent
  /\ UNCHANGED <<input, keys>>

\* handle_input.
Deliver ==
  /\ state[current] = "WAITING_FOR_INPUT"
  /\ keys # <<>>
  /\ input' = [input EXCEPT ![current] = Head(keys)]
  /\ keys' = Tail(keys)
  /\ SwitchToCurrent

Turn ==
  \/ active = "loop" /\ (MainWakes \/ Pass \/ Start \/ Deliver)
  \/ \E t \in Handles \ {0} : Wake(t)

-----------------------------------------------------------------------------
(* What main and the tasks call.  The caller says what happens to keys.    *)

Runs(t) == active = "task" /\ current = t

\* The calls end in the loop of schedule_task, in main's context.
BackToLoop ==
  /\ active' = "loop"
  /\ Advance
  /\ UNCHANGED <<waitingFor, input>>

TaskWait(t) ==
  /\ active = "main"
  /\ waitingFor' = t
  /\ state' = [state EXCEPT ![0] = "WAITING"]
  /\ active' = "loop"
  /\ UNCHANGED <<current, input, keys>>

TaskSleep == SwapTask(current, 0, "WAITING") /\ BackToLoop

\* task_readchar when there is no key.
TaskBlock == SwapTask(current, 0, "WAITING_FOR_INPUT") /\ BackToLoop

\* task_exit leaves the state of main as it was set when the task was resumed.
TaskExit == state' = [state EXCEPT ![current] = "TERMINATED"] /\ BackToLoop

\* A key is pressed.
Press(k) ==
  /\ Len(keys) < MaxKeys
  /\ keys' = Append(keys, k)
  /\ UNCHANGED <<active, current, state, waitingFor, input>>

-----------------------------------------------------------------------------
SchedulerTypeOK ==
  /\ active \in {"main", "loop", "task"}
  /\ current \in Handles
  /\ state \in [Handles -> {"READY", "RUNNING", "TERMINATED", "WAITING",
                            "WAITING_FOR_INPUT"}]
  /\ waitingFor \in Handles \cup {NoTask}
  /\ input \in [Handles -> Keys \cup {Err}]
  /\ keys \in Seq(Keys)
  /\ Len(keys) <= MaxKeys + 1

\* "Two tasks cannot simultaneously be in the running state" (swap_task), and the
\* task that has the processor is the one whose state says so.
OneRunning ==
  /\ \A t, u \in Handles : state[t] = "RUNNING" /\ state[u] = "RUNNING" => t = u
  /\ active = "task" => state[current] = "RUNNING" /\ current # 0
=============================================================================
