----------------------------- MODULE ThreadPool -----------------------------
(***************************************************************************)
(* ra::concurrency::thread_pool (lib/thread_pool.cpp): one mutex, task_mut_, *)
(* and three condition variables: new_jobs_ for the workers, can_push for  *)
(* the callers of schedule and all_done_ for those of shutdown.  The queue *)
(* inside is only used under task_mut_ and never blocks: it is a sequence. *)
(* A critical section is one step and ends when the call returns or waits; *)
(* is_shutdown_ is also read without the mutex, in a step of its own.      *)
(***************************************************************************)
EXTENDS Naturals, Sequences, FiniteSets

CONSTANTS
  Workers,  (* threads_                                                    *)
  Clients,  (* threads that call schedule                                  *)
  Closers,  (* threads that call shutdown or the destructor                *)
  Jobs,     (* tasks; each is scheduled at most once                       *)
  NoJob,
  Capacity  (* max_size of tasks_ (32 in the code)                         *)

ASSUME PoolAssumption ==
  /\ IsFiniteSet(Workers) /\ Workers # {} /\ IsFiniteSet(Clients)
  /\ Workers \cap Clients = {}
  /\ NoJob \notin Jobs
  /\ Capacity \in Nat \ {0}

VARIABLES
  tasks,       (* tasks_                                                   *)
  isShutdown,  (* is_shutdown_                                             *)
  idleThreads, (* idle_threads_                                            *)
  worker,      (* of a worker: "locking" (wants the mutex), "waiting" (on  *)
               (* new_jobs_), "running" (a task), "exited"                 *)
  running,     (* the task it runs                                         *)
  call,        (* of a caller of schedule: "none", "locking", "waiting"    *)
               (* (on can_push)                                            *)
  given,       (* the task it schedules                                    *)
  closer,      (* of a caller of shutdown: "idle", "locking", "waiting"    *)
               (* (on all_done_), "woken", "returned", "destroyed"         *)
  status       (* how far a task has come                                  *)

vars == <<tasks, isShutdown, idleThreads, worker, running, call, given, closer,
          status>>

workerVars == <<worker, running, idleThreads>>
callVars == <<call, given>>

Callers == Clients \cup Workers

WaitingFor(f, S) == {t \in S : f[t] = "waiting"}

NewJobs == WaitingFor(worker, Workers)
CanPush == WaitingFor(call, Callers)
AllDone == WaitingFor(closer, Closers)

Init ==
  /\ tasks = <<>>
  /\ isShutdown = FALSE
  /\ idleThreads = 0
  /\ worker = [w \in Workers |-> "locking"]
  /\ running = [w \in Workers |-> NoJob]
  /\ call = [c \in Callers |-> "none"]
  /\ given = [c \in Callers |-> NoJob]
  /\ closer = [k \in Closers |-> "idle"]
  /\ status = [j \in Jobs |-> "new"]

\* Nobody uses a pool that was destroyed.
Alive == \A k \in Closers : closer[k] # "destroyed"

-----------------------------------------------------------------------------
(* make_thread_handler: the loop of a worker.                              *)

\* Mutant: a worker is notified only when a task comes into an empty queue.
NotifyNewJobs_WhenEmpty ==
  IF NewJobs = {} \/ tasks # <<>>
  THEN worker' = worker
  ELSE \E w \in NewJobs : worker' = [worker EXCEPT ![w] = "locking"]

\* notify_one wakes one of those that wait, if there is one.
NotifyNewJobs ==
  IF NewJobs = {}
  THEN worker' = worker
  ELSE \E w \in NewJobs : worker' = [worker EXCEPT ![w] = "locking"]

NotifyCanPush ==
  IF CanPush = {}
  THEN call' = call
  ELSE \E c \in CanPush : call' = [call EXCEPT ![c] = "locking"]

\* Mutant: a worker that leaves does not notify.
NotifyAllDone_Nobody == closer' = closer

NotifyAllDone ==
  IF AllDone = {}
  THEN closer' = closer
  ELSE \E k \in AllDone : closer' = [closer EXCEPT ![k] = "woken"]

WorkerWait(w) ==
  /\ tasks = <<>>
  /\ ~isShutdown
  /\ worker' = [worker EXCEPT ![w] = "waiting"]
  /\ UNCHANGED <<tasks, isShutdown, idleThreads, running, callVars, closer, status>>

WorkerExit(w) ==
  /\ tasks = <<>>
  /\ isShutdown
  /\ worker' = [worker EXCEPT ![w] = "exited"]
  /\ idleThreads' = idleThreads + 1
  /\ NotifyAllDone
  /\ UNCHANGED <<tasks, isShutdown, running, callVars, status>>

WorkerPop(w) ==
  /\ tasks # <<>>
  /\ tasks' = Tail(tasks)
  /\ worker' = [worker EXCEPT ![w] = "running"]
  /\ running' = [running EXCEPT ![w] = Head(tasks)]
  /\ status' = [status EXCEPT ![Head(tasks)] = "running"]
  /\ NotifyCanPush
  /\ UNCHANGED <<isShutdown, idleThreads, given, closer>>

\* Mutant: a worker leaves as soon as the pool is shut down.
Take_LeavesTasks(w) ==
  /\ worker[w] = "locking"
  /\ \/ WorkerWait(w)
     \/ /\ isShutdown
        /\ worker' = [worker EXCEPT ![w] = "exited"]
        /\ idleThreads' = idleThreads + 1
        /\ NotifyAllDone
        /\ UNCHANGED <<tasks, isShutdown, running, callVars, status>>
     \/ ~isShutdown /\ WorkerPop(w)

\* The critical section of a worker, and of one that was woken.
Take(w) ==
  /\ worker[w] = "locking"
  /\ WorkerWait(w) \/ WorkerExit(w) \/ WorkerPop(w)

\* The task returns.
Finish(w) ==
  /\ worker[w] = "running"
  /\ call[w] = "none"
  /\ status' = [status EXCEPT ![running[w]] = "done"]
  /\ running' = [running EXCEPT ![w] = NoJob]
  /\ worker' = [worker EXCEPT ![w] = "locking"]
  /\ UNCHANGED <<tasks, isShutdown, idleThreads, callVars, closer>>

-----------------------------------------------------------------------------
(* schedule: the test of is_shutdown_ comes before the mutex.              *)

\* A client calls it, or a task that runs.
Schedule(c, j) ==
  /\ Alive
  /\ c \in Workers => worker[c] = "running"
  /\ call[c] = "none"
  /\ status[j] = "new"
  /\ IF isShutdown
     THEN /\ status' = [status EXCEPT ![j] = "refused"]
          /\ UNCHANGED callVars
     ELSE /\ status' = [status EXCEPT ![j] = "given"]
          /\ call' = [call EXCEPT ![c] = "locking"]
          /\ given' = [given EXCEPT ![c] = j]
  /\ UNCHANGED <<tasks, isShutdown, workerVars, closer>>

PushWait(c) ==
  /\ Len(tasks) = Capacity
  /\ call' = [call EXCEPT ![c] = "waiting"]
  /\ UNCHANGED <<tasks, isShutdown, workerVars, given, closer, status>>

PushTask(c) ==
  /\ tasks' = Append(tasks, given[c])
  /\ status' = [status EXCEPT ![given[c]] = "queued"]
  /\ call' = [call EXCEPT ![c] = "none"]
  /\ given' = [given EXCEPT ![c] = NoJob]
  /\ NotifyNewJobs
  /\ UNCHANGED <<isShutdown, running, idleThreads, closer>>

\* The critical section of schedule, and of a caller that was woken.
Push(c) ==
  /\ call[c] = "locking"
  /\ PushWait(c) \/ (Len(tasks) # Capacity /\ PushTask(c))

-----------------------------------------------------------------------------
(* shutdown and the destructor.                                            *)

\* The test of is_shutdown_ without the mutex.
BeginShutdown(k) ==
  /\ closer[k] = "idle"
  /\ Alive
  /\ closer' = [closer EXCEPT ![k] = IF isShutdown THEN "returned" ELSE "locking"]
  /\ UNCHANGED <<tasks, isShutdown, workerVars, callVars, status>>

\* Mutant: shutdown does not wait for the tasks that run.
IsDone_TasksOnly == tasks = <<>>

IsDone == tasks = <<>> /\ idleThreads = Cardinality(Workers)

WaitDone(k) ==
  closer' = [closer EXCEPT ![k] = IF IsDone THEN "returned" ELSE "waiting"]

\* The first part of shutdown's critical section ends in the wait.
Shutdown(k) ==
  /\ closer[k] = "locking"
  /\ isShutdown' = TRUE
  /\ worker' = [w \in Workers |-> IF w \in NewJobs THEN "locking" ELSE worker[w]]
  /\ WaitDone(k)
  /\ UNCHANGED <<tasks, running, idleThreads, callVars, status>>

Recheck(k) ==
  /\ closer[k] = "woken"
  /\ WaitDone(k)
  /\ UNCHANGED <<tasks, isShutdown, workerVars, callVars, status>>

\* The destructor joins every thread.  It is called when no other call is in
\* progress.
Destroy(k) ==
  /\ closer[k] = "returned"
  /\ \A l \in Closers : closer[l] \in {"idle", "returned"}
  /\ \A c \in Clients : call[c] = "none"
  /\ \A w \in Workers : worker[w] = "exited"
  /\ closer' = [closer EXCEPT ![k] = "destroyed"]
  /\ UNCHANGED <<tasks, isShutdown, workerVars, callVars, status>>

\* A condition variable may wake a thread that nobody notified.
WakeUp ==
  \/ \E w \in NewJobs :
       /\ worker' = [worker EXCEPT ![w] = "locking"]
       /\ UNCHANGED <<tasks, isShutdown, running, idleThreads, callVars, closer, status>>
  \/ \E c \in CanPush :
       /\ call' = [call EXCEPT ![c] = "locking"]
       /\ UNCHANGED <<tasks, isShutdown, workerVars, given, closer, status>>
  \/ \E k \in AllDone :
       /\ closer' = [closer EXCEPT ![k] = "woken"]
       /\ UNCHANGED <<tasks, isShutdown, workerVars, callVars, status>>

Next ==
  \/ \E w \in Workers : Take(w) \/ Finish(w)
  \/ \E c \in Callers : (\E j \in Jobs : Schedule(c, j)) \/ Push(c)
  \/ \E k \in Closers : BeginShutdown(k) \/ Shutdown(k) \/ Recheck(k) \/ Destroy(k)
  \/ WakeUp

Spec == Init /\ [][Next]_vars

\* Threads that want the mutex get it, tasks return, and a thread inside a call
\* goes on.  Nobody has to call, and no wake-up comes by itself.
Fairness ==
  /\ \A w \in Workers : WF_vars(Take(w)) /\ WF_vars(Finish(w))
  /\ \A c \in Callers : WF_vars(Push(c))
  /\ \A k \in Closers : WF_vars(Shutdown(k)) /\ WF_vars(Recheck(k)) /\ WF_vars(Destroy(k))

-----------------------------------------------------------------------------
(* What a program may do.                                                  *)

Begins(f, t, rest) == f[t] = rest /\ f'[t] # rest

\* The precondition of schedule: "The thread pool is not in the shutdown state and
\* is not currently in the process of being shutdown".  Tasks, which cannot know,
\* do not call it.
LegalStep ==
  \A c \in Callers :
    Begins(call, c, "none") => c \in Clients /\ \A k \in Closers : closer[k] = "idle"

\* Moreover shutdown is called once, when no thread is inside schedule.
PoliteStep ==
  /\ LegalStep
  /\ \A k \in Closers :
       Begins(closer, k, "idle") =>
         /\ \A l \in Closers : closer[l] = "idle"
         /\ \A c \in Clients : call[c] = "none"

-----------------------------------------------------------------------------
TypeOK ==
  /\ tasks \in Seq(Jobs)
  /\ Len(tasks) <= Capacity
  /\ isShutdown \in BOOLEAN
  /\ idleThreads \in 0..Cardinality(Workers)
  /\ worker \in [Workers -> {"locking", "waiting", "running", "exited"}]
  /\ running \in [Workers -> Jobs \cup {NoJob}]
  /\ call \in [Callers -> {"none", "locking", "waiting"}]
  /\ given \in [Callers -> Jobs \cup {NoJob}]
  /\ closer \in [Closers -> {"idle", "locking", "waiting", "woken", "returned",
                             "destroyed"}]
  /\ status \in [Jobs -> {"new", "given", "refused", "queued", "running", "done"}]

Locking(f, S) == {t \in S : f[t] = "locking"}

\* While a worker sleeps, there are as many others on their way to the mutex as
\* there are tasks: new_jobs_.notify_one is enough.
NoLostJob == NewJobs # {} => Len(tasks) <= Cardinality(Locking(worker, Workers))

\* While a caller of schedule sleeps, there are as many others on their way to the
\* mutex as there are free places: can_push.notify_one is enough.
NoLostRoom ==
  CanPush # {} => Capacity - Len(tasks) <= Cardinality(Locking(call, Callers))

\* No sleeper on either condition variable misses what it waits for.
NoLostWakeUp == NoLostJob /\ NoLostRoom

\* "The function blocks until all queued tasks have been executed and all threads in
\* the thread pool are idle" (shutdown).
ShutdownMeansDone ==
  \A k \in Closers :
    closer[k] \in {"returned", "destroyed"} =>
      /\ \A w \in Workers : worker[w] = "exited"
      /\ \A j \in Jobs : status[j] \notin {"given", "queued", "running"}

\* A task that schedule did not refuse is executed.
EveryTaskRuns == \A j \in Jobs : status[j] = "given" ~> status[j] = "done"

\* shutdown returns to everyone who calls it ("This function is thread safe").
ShutdownReturns ==
  \A k \in Closers : closer[k] = "locking" ~> closer[k] \in {"returned", "destroyed"}
=============================================================================
