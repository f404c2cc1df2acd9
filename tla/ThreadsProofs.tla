--------------------------- MODULE ThreadsProofs ----------------------------
(***************************************************************************)
(* Theorems about the programs with threads and their proofs.              *)
(*                                                                         *)
(* The queue, for any threads, any size and any number of calls: the type  *)
(* invariant, and that push and pop lose no notification: that of a        *)
(* consumer never, that of a producer as long as nobody closes or clears   *)
(* the queue.                                                              *)
(*                                                                         *)
(* The thread pool, for any numbers of workers, callers and tasks and any  *)
(* size of its queue: the types, that notify_one loses no wake-up, and what *)
(* shutdown promises to a polite program.                                  *)
(*                                                                         *)
(* The two programs with POSIX threads: the philosophers, for any number   *)
(* of them; the search for a line, for any number of points and threads:   *)
(* the division of the work leaves nothing out.                            *)
(***************************************************************************)
EXTENDS MCThreads, FiniteSetTheorems, TLAPS

-----------------------------------------------------------------------------
(* What a notification does.                                               *)

WorkerStates == {"locking", "waiting", "running", "exited"}
CallStates == {"none", "locking", "waiting"}
CloserStates == {"idle", "locking", "waiting", "woken", "returned", "destroyed"}

LEMMA NewJobsNotified ==
  ASSUME TypeOK, NotifyNewJobs
  PROVE  /\ worker' \in [Workers -> WorkerStates]
         /\ \A w \in Workers :
              worker'[w] # worker[w] => worker[w] = "waiting" /\ worker'[w] = "locking"
  BY DEF TypeOK, NotifyNewJobs, NewJobs, WaitingFor, WorkerStates

LEMMA CanPushNotified ==
  ASSUME TypeOK, NotifyCanPush
  PROVE  /\ call' \in [Callers -> CallStates]
         /\ \A c \in Callers :
              call'[c] # call[c] => call[c] = "waiting" /\ call'[c] = "locking"
  BY DEF TypeOK, NotifyCanPush, CanPush, WaitingFor, CallStates

LEMMA AllDoneNotified ==
  ASSUME TypeOK, NotifyAllDone
  PROVE  /\ closer' \in [Closers -> CloserStates]
         /\ \A k \in Closers :
              closer'[k] # closer[k] => closer[k] = "waiting" /\ closer'[k] = "woken"
  BY DEF TypeOK, NotifyAllDone, AllDone, WaitingFor, CloserStates

-----------------------------------------------------------------------------
(* Types, and where a task is.                                             *)

Exited == {w \in Workers : worker[w] = "exited"}

\* TypeOK without the bound on idle_threads_, which counts the workers that left.
Types ==
  /\ tasks \in Seq(Jobs)
  /\ Len(tasks) <= Capacity
  /\ isShutdown \in BOOLEAN
  /\ idleThreads = Cardinality(Exited)
  /\ worker \in [Workers -> WorkerStates]
  /\ running \in [Workers -> Jobs \cup {NoJob}]
  /\ call \in [Callers -> CallStates]
  /\ given \in [Callers -> Jobs \cup {NoJob}]
  /\ closer \in [Closers -> CloserStates]
  /\ status \in [Jobs -> {"new", "given", "refused", "queued", "running", "done"}]

\* Who is inside schedule has a task to give, and who runs one has it.
Carries ==
  /\ \A c \in Callers : call[c] # "none" => given[c] \in Jobs
  /\ \A w \in Workers : worker[w] = "running" => running[w] \in Jobs

LEMMA ExitedFinite == IsFiniteSet(Exited) /\ Cardinality(Exited) \in 0..Cardinality(Workers)
<1>1. Exited \in SUBSET Workers /\ IsFiniteSet(Workers)
  BY PoolAssumption DEF Exited
<1>2. IsFiniteSet(Exited) /\ Cardinality(Exited) <= Cardinality(Workers)
  BY <1>1, FS_Subset
<1>3. Cardinality(Exited) \in Nat /\ Cardinality(Workers) \in Nat
  BY <1>1, <1>2, FS_CardinalityType
<1> QED BY <1>2, <1>3

LEMMA TypesGiveTypeOK == Types => TypeOK
  BY ExitedFinite DEF Types, TypeOK, WorkerStates, CallStates, CloserStates

LEMMA TypesInit == Init => Types /\ Carries
<1> SUFFICES ASSUME Init PROVE Types /\ Carries
  OBVIOUS
<1>1. Exited = {}
  BY DEF Init, Exited
<1>2. idleThreads = Cardinality(Exited)
  BY <1>1, FS_EmptySet DEF Init
<1>3. tasks \in Seq(Jobs) /\ Len(tasks) <= Capacity
  BY PoolAssumption DEF Init
<1>4. Carries
  BY DEF Init, Carries
<1> QED BY <1>2, <1>3, <1>4 DEF Init, Types, WorkerStates, CallStates, CloserStates

\* A step that makes nobody leave.
LEMMA NobodyLeaves ==
  ASSUME Types, idleThreads' = idleThreads,
         \A w \in Workers : worker'[w] = "exited" <=> worker[w] = "exited"
  PROVE  idleThreads' = Cardinality(Exited')
<1>1. Exited' = Exited
  BY DEF Exited
<1> QED BY <1>1 DEF Types

LEMMA TypesStep == Types /\ Carries /\ [Next]_vars => Types' /\ Carries'
<1> SUFFICES ASSUME Types, Carries, [Next]_vars PROVE Types' /\ Carries'
  OBVIOUS
<1>0. TypeOK
  BY TypesGiveTypeOK
<1>1. ASSUME NEW w \in Workers, Take(w) PROVE Types' /\ Carries'
  <2>1. CASE WorkerWait(w)
    <3>1. idleThreads' = Cardinality(Exited')
      BY <1>1, <2>1, NobodyLeaves DEF Take, WorkerWait, Types
    <3> QED BY <1>1, <2>1, <3>1 DEF Take, WorkerWait, Types, Carries, WorkerStates, callVars
  <2>2. CASE WorkerExit(w)
    <3>1. Exited' = Exited \cup {w} /\ w \notin Exited
      BY <1>1, <2>2 DEF Take, WorkerExit, Exited, Types
    <3>2. idleThreads' = Cardinality(Exited')
      BY <2>2, <3>1, ExitedFinite, FS_AddElement DEF WorkerExit, Types
    <3>3. worker' \in [Workers -> WorkerStates]
      BY <2>2 DEF WorkerExit, Types, WorkerStates
    <3>4. closer' \in [Closers -> CloserStates]
      BY <1>0, <2>2, AllDoneNotified DEF WorkerExit
    <3> QED BY <1>1, <2>2, <3>2, <3>3, <3>4 DEF WorkerExit, Types, Carries, callVars
  <2>3. CASE WorkerPop(w)
    <3>1. Head(tasks) \in Jobs /\ tasks' \in Seq(Jobs) /\ Len(tasks') <= Capacity
      <4>1. Len(tasks) \in Nat /\ Capacity \in Nat /\ Len(Tail(tasks)) = Len(tasks) - 1
        BY <2>3, PoolAssumption DEF WorkerPop, Types
      <4> QED BY <2>3, <4>1 DEF WorkerPop, Types
    <3>2. idleThreads' = Cardinality(Exited')
      BY <1>1, <2>3, NobodyLeaves DEF Take, WorkerPop, Types
    <3>3. /\ call' \in [Callers -> CallStates]
          /\ \A c \in Callers : call'[c] # "none" => call[c] # "none"
      BY <1>0, <2>3, CanPushNotified DEF WorkerPop
    <3>4. Carries'
      BY <2>3, <3>1, <3>3 DEF WorkerPop, Carries, Types
    <3> QED BY <2>3, <3>1, <3>2, <3>3, <3>4 DEF WorkerPop, Types, WorkerStates
  <2> QED BY <1>1, <2>1, <2>2, <2>3 DEF Take
<1>2. ASSUME NEW w \in Workers, Finish(w) PROVE Types' /\ Carries'
  <2>1. idleThreads' = Cardinality(Exited')
    BY <1>2, NobodyLeaves DEF Finish, Types
  <2> QED BY <1>2, <2>1 DEF Finish, Types, Carries, WorkerStates, callVars
<1>3. ASSUME NEW c \in Callers, NEW j \in Jobs, Schedule(c, j) PROVE Types' /\ Carries'
  <2>1. idleThreads' = Cardinality(Exited')
    BY <1>3, NobodyLeaves DEF Schedule, workerVars
  <2>2. CASE isShutdown
    BY <1>3, <2>1, <2>2 DEF Schedule, workerVars, callVars, Types, Carries
  <2>3. CASE ~isShutdown
    <3>1. Types'
      BY <1>3, <2>1, <2>3 DEF Schedule, workerVars, Types, CallStates
    <3>2. Carries'
      BY <1>3, <2>3 DEF Schedule, workerVars, Types, Carries
    <3> QED BY <3>1, <3>2
  <2> QED BY <2>2, <2>3
<1>4. ASSUME NEW c \in Callers, Push(c) PROVE Types' /\ Carries'
  <2>1. CASE PushWait(c)
    <3>1. idleThreads' = Cardinality(Exited')
      BY <2>1, NobodyLeaves DEF PushWait, workerVars
    <3> QED BY <1>4, <2>1, <3>1 DEF Push, PushWait, workerVars, Types, Carries, CallStates
  <2>2. CASE Len(tasks) # Capacity /\ PushTask(c)
    <3>1. given[c] \in Jobs
      BY <1>4 DEF Push, Carries
    <3>2. tasks' \in Seq(Jobs) /\ Len(tasks') <= Capacity
      <4>1. Len(tasks) \in Nat /\ Capacity \in Nat /\ Len(tasks) <= Capacity
        BY PoolAssumption DEF Types
      <4>2. tasks' \in Seq(Jobs) /\ Len(tasks') = Len(tasks) + 1
        BY <2>2, <3>1 DEF PushTask, Types
      <4> QED BY <2>2, <4>1, <4>2
    <3>3. /\ worker' \in [Workers -> WorkerStates]
          /\ \A w \in Workers : /\ worker'[w] = "exited" <=> worker[w] = "exited"
                                /\ worker'[w] = "running" => worker[w] = "running"
      BY <1>0, <2>2, NewJobsNotified DEF PushTask
    <3>4. idleThreads' = Cardinality(Exited')
      BY <2>2, <3>3, NobodyLeaves DEF PushTask
    <3>5. Carries'
      BY <2>2, <3>3 DEF PushTask, Carries, Types
    <3> QED BY <2>2, <3>2, <3>3, <3>4, <3>5 DEF PushTask, Types, CallStates
  <2> QED BY <1>4, <2>1, <2>2 DEF Push
<1>5. ASSUME NEW k \in Closers, BeginShutdown(k) \/ Recheck(k) \/ Destroy(k)
      PROVE  Types' /\ Carries'
  <2>1. /\ closer' \in [Closers -> CloserStates]
        /\ UNCHANGED <<tasks, isShutdown, workerVars, callVars, status>>
    BY <1>5 DEF BeginShutdown, Recheck, Destroy, WaitDone, Types, CloserStates
  <2>2. idleThreads' = Cardinality(Exited')
    BY <2>1, NobodyLeaves DEF workerVars
  <2> QED BY <2>1, <2>2 DEF Types, Carries, workerVars, callVars
<1>6. ASSUME NEW k \in Closers, Shutdown(k) PROVE Types' /\ Carries'
  <2>1. /\ worker' \in [Workers -> WorkerStates]
        /\ \A w \in Workers : /\ worker'[w] = "exited" <=> worker[w] = "exited"
                              /\ worker'[w] = "running" => worker[w] = "running"
    BY <1>6 DEF Shutdown, NewJobs, WaitingFor, Types, WorkerStates
  <2>2. idleThreads' = Cardinality(Exited')
    BY <1>6, <2>1, NobodyLeaves DEF Shutdown
  <2>3. closer' \in [Closers -> CloserStates]
    BY <1>6 DEF Shutdown, WaitDone, Types, CloserStates
  <2> QED BY <1>6, <2>1, <2>2, <2>3 DEF Shutdown, Types, Carries, callVars
<1>7. CASE WakeUp
  <2>1. ASSUME NEW w \in NewJobs, worker' = [worker EXCEPT ![w] = "locking"],
               UNCHANGED <<tasks, isShutdown, running, idleThreads, callVars, closer, status>>
        PROVE  Types' /\ Carries'
    <3>1. worker[w] = "waiting" /\ w \in Workers
      BY DEF NewJobs, WaitingFor
    <3>2. idleThreads' = Cardinality(Exited')
      BY <2>1, <3>1, NobodyLeaves DEF Types
    <3> QED BY <2>1, <3>1, <3>2 DEF Types, Carries, WorkerStates, callVars
  <2>2. ASSUME NEW c \in CanPush, call' = [call EXCEPT ![c] = "locking"],
               UNCHANGED <<tasks, isShutdown, workerVars, given, closer, status>>
        PROVE  Types' /\ Carries'
    <3>1. call[c] = "waiting" /\ c \in Callers
      BY DEF CanPush, WaitingFor
    <3>2. idleThreads' = Cardinality(Exited')
      BY <2>2, NobodyLeaves DEF workerVars
    <3> QED BY <2>2, <3>1, <3>2 DEF Types, Carries, CallStates, workerVars
  <2>3. ASSUME NEW k \in AllDone, closer' = [closer EXCEPT ![k] = "woken"],
               UNCHANGED <<tasks, isShutdown, workerVars, callVars, status>>
        PROVE  Types' /\ Carries'
    <3>1. idleThreads' = Cardinality(Exited')
      BY <2>3, NobodyLeaves DEF workerVars
    <3> QED BY <2>3, <3>1 DEF Types, Carries, CloserStates, workerVars, callVars
  <2> QED BY <1>7, <2>1, <2>2, <2>3 DEF WakeUp
<1>8. CASE UNCHANGED vars
  <2>1. idleThreads' = Cardinality(Exited')
    BY <1>8, NobodyLeaves DEF vars
  <2> QED BY <1>8, <2>1 DEF vars, Types, Carries
<1> QED BY <1>1, <1>2, <1>3, <1>4, <1>5, <1>6, <1>7, <1>8 DEF Next

\* tasks_ never holds more than its size, idle_threads_ never exceeds the number of
\* threads, and every thread is in one of its states.
THEOREM PoolTypeCorrect == AnySpec => []TypeOK
<1>1. [AnyNext]_anyVars => [Next]_vars
  BY DEF AnyNext, QueueStep, PoolStep, DiningStep, LineStep, anyVars, vars
<1> QED BY <1>1, TypesInit, TypesStep, TypesGiveTypeOK, PTL DEF AnySpec, AnyInit

-----------------------------------------------------------------------------
(* How many threads are on their way to the mutex.                         *)

LEMMA LockingFinite ==
  ASSUME NEW S, IsFiniteSet(S), NEW f
  PROVE  IsFiniteSet(Locking(f, S)) /\ Cardinality(Locking(f, S)) \in Nat
<1>1. Locking(f, S) \in SUBSET S
  BY DEF Locking
<1> QED BY <1>1, FS_Subset, FS_CardinalityType

\* One more thread wants the mutex.
LEMMA Joins ==
  ASSUME NEW S, IsFiniteSet(S), NEW f, NEW g, NEW t \in S,
         f[t] # "locking", g[t] = "locking", \A u \in S : u # t => g[u] = f[u]
  PROVE  Cardinality(Locking(g, S)) = Cardinality(Locking(f, S)) + 1
<1>1. Locking(g, S) = Locking(f, S) \cup {t} /\ t \notin Locking(f, S)
  BY DEF Locking
<1> QED BY <1>1, LockingFinite, FS_AddElement

\* One thread got it.
LEMMA Leaves ==
  ASSUME NEW S, IsFiniteSet(S), NEW f, NEW g, NEW t \in S,
         f[t] = "locking", g[t] # "locking", \A u \in S : u # t => g[u] = f[u]
  PROVE  Cardinality(Locking(g, S)) = Cardinality(Locking(f, S)) - 1
<1>1. Locking(g, S) = Locking(f, S) \ {t} /\ t \in Locking(f, S)
  BY DEF Locking
<1>2. Cardinality(Locking(f, S)) \in Nat
  BY LockingFinite
<1> QED BY <1>1, <1>2, LockingFinite, FS_RemoveElement

-----------------------------------------------------------------------------
(* No wake-up of a worker is lost.                                         *)

LEMMA JobStep == Types /\ Carries /\ NoLostJob /\ [Next]_vars => NoLostJob'
<1> SUFFICES ASSUME Types, Carries, NoLostJob, [Next]_vars, NewJobs' # {}
             PROVE  Len(tasks') <= Cardinality(Locking(worker', Workers))
  BY DEF NoLostJob
<1>1. /\ IsFiniteSet(Workers)
      /\ Cardinality(Locking(worker, Workers)) \in Nat
      /\ Cardinality(Locking(worker', Workers)) \in Nat
  BY PoolAssumption, LockingFinite
<1>2. Len(tasks) \in Nat /\ worker \in [Workers -> WorkerStates]
  BY DEF Types
<1>3. ASSUME UNCHANGED <<tasks, worker>>
      PROVE  Len(tasks') <= Cardinality(Locking(worker', Workers))
  BY <1>3 DEF NoLostJob, NewJobs, WaitingFor
<1>4. ASSUME NEW w \in Workers, Take(w)
      PROVE  Len(tasks') <= Cardinality(Locking(worker', Workers))
  <2>1. CASE WorkerWait(w)
    BY <1>1, <2>1 DEF WorkerWait
  <2>2. CASE WorkerExit(w)
    BY <1>1, <2>2 DEF WorkerExit
  <2>3. CASE WorkerPop(w)
    <3>1. NewJobs # {}
      BY <2>3 DEF WorkerPop, NewJobs, WaitingFor, Types
    <3>2. Len(tasks) <= Cardinality(Locking(worker, Workers))
      BY <3>1 DEF NoLostJob
    <3>3. Len(tasks') = Len(tasks) - 1
      BY <1>2, <2>3 DEF WorkerPop, Types
    <3>4. worker[w] = "locking" /\ worker'[w] # "locking"
          /\ \A u \in Workers : u # w => worker'[u] = worker[u]
      BY <1>2, <1>4, <2>3 DEF Take, WorkerPop
    <3>5. Cardinality(Locking(worker', Workers)) = Cardinality(Locking(worker, Workers)) - 1
      BY <1>1, <3>4, Leaves
    <3> QED BY <1>1, <1>2, <3>2, <3>3, <3>5
  <2> QED BY <1>4, <2>1, <2>2, <2>3 DEF Take
<1>5. ASSUME NEW w \in Workers, worker[w] # "locking", worker' = [worker EXCEPT ![w] = "locking"],
             \/ worker[w] = "waiting" /\ Len(tasks') \in {Len(tasks), Len(tasks) + 1}
             \/ worker[w] # "waiting" /\ Len(tasks') = Len(tasks)
      PROVE  Len(tasks') <= Cardinality(Locking(worker', Workers))
  <2>1. Cardinality(Locking(worker', Workers)) = Cardinality(Locking(worker, Workers)) + 1
    <3>1. worker'[w] = "locking" /\ \A u \in Workers : u # w => worker'[u] = worker[u]
      BY <1>2, <1>5
    <3> QED BY <1>1, <1>5, <3>1, Joins
  <2>2. NewJobs # {}
    BY <1>2, <1>5 DEF NewJobs, WaitingFor
  <2>3. Len(tasks) <= Cardinality(Locking(worker, Workers))
    BY <2>2 DEF NoLostJob
  <2> QED BY <1>1, <1>2, <1>5, <2>1, <2>3
<1>6. ASSUME NEW w \in Workers, Finish(w)
      PROVE  Len(tasks') <= Cardinality(Locking(worker', Workers))
  BY <1>5, <1>6 DEF Finish
<1>7. ASSUME NEW c \in Callers, Push(c)
      PROVE  Len(tasks') <= Cardinality(Locking(worker', Workers))
  <2>1. CASE PushWait(c)
    BY <1>3, <2>1 DEF PushWait, workerVars
  <2>2. CASE PushTask(c)
    <3>1. Len(tasks') = Len(tasks) + 1
      BY <1>7, <2>2 DEF PushTask, Push, Carries, Types
    <3>2. NewJobs # {}
      BY <2>2 DEF PushTask, NotifyNewJobs, NewJobs, WaitingFor
    <3>3. PICK w \in NewJobs : worker' = [worker EXCEPT ![w] = "locking"]
      BY <2>2, <3>2 DEF PushTask, NotifyNewJobs
    <3>4. w \in Workers /\ worker[w] = "waiting"
      BY DEF NewJobs, WaitingFor
    <3> QED BY <1>5, <3>1, <3>3, <3>4
  <2> QED BY <1>7, <2>1, <2>2 DEF Push
<1>8. ASSUME NEW k \in Closers, Shutdown(k) PROVE FALSE
  BY <1>8 DEF Shutdown, NewJobs, WaitingFor
<1>9. CASE WakeUp
  <2>1. ASSUME NEW w \in NewJobs, worker' = [worker EXCEPT ![w] = "locking"], tasks' = tasks
        PROVE  Len(tasks') <= Cardinality(Locking(worker', Workers))
    <3>1. w \in Workers /\ worker[w] = "waiting"
      BY DEF NewJobs, WaitingFor
    <3> QED BY <1>5, <2>1, <3>1
  <2> QED BY <1>3, <1>9, <2>1 DEF WakeUp, workerVars
<1>10. ASSUME NEW c \in Callers, NEW j \in Jobs, Schedule(c, j)
       PROVE  Len(tasks') <= Cardinality(Locking(worker', Workers))
  BY <1>3, <1>10 DEF Schedule, workerVars
<1>11. ASSUME NEW k \in Closers, BeginShutdown(k) \/ Recheck(k) \/ Destroy(k)
       PROVE  Len(tasks') <= Cardinality(Locking(worker', Workers))
  BY <1>3, <1>11 DEF BeginShutdown, Recheck, Destroy, workerVars
<1>12. CASE UNCHANGED vars
  BY <1>3, <1>12 DEF vars
<1> QED BY <1>4, <1>6, <1>7, <1>8, <1>9, <1>10, <1>11, <1>12 DEF Next

\* new_jobs_.notify_one in schedule is enough: no worker sleeps while there are more
\* tasks than workers that are awake to fetch them.
THEOREM NoJobLost == AnySpec => []NoLostJob
<1>1. [AnyNext]_anyVars => [Next]_vars
  BY DEF AnyNext, QueueStep, PoolStep, DiningStep, LineStep, anyVars, vars
<1>2. Init => NoLostJob
  BY DEF Init, NoLostJob, NewJobs, WaitingFor
<1> QED BY <1>1, <1>2, TypesInit, TypesStep, JobStep, PTL DEF AnySpec, AnyInit

-----------------------------------------------------------------------------
(* No wake-up of a caller of schedule is lost.                             *)

LEMMA RoomStep == Types /\ Carries /\ NoLostRoom /\ [Next]_vars => NoLostRoom'
<1> SUFFICES ASSUME Types, Carries, NoLostRoom, [Next]_vars, CanPush' # {}
             PROVE  Capacity - Len(tasks') <= Cardinality(Locking(call', Callers))
  BY DEF NoLostRoom
<1>1. /\ IsFiniteSet(Callers)
      /\ Cardinality(Locking(call, Callers)) \in Nat
      /\ Cardinality(Locking(call', Callers)) \in Nat
  BY PoolAssumption, LockingFinite, FS_Union DEF Callers
<1>2. Len(tasks) \in Nat /\ Capacity \in Nat /\ call \in [Callers -> CallStates]
  BY PoolAssumption DEF Types
<1>3. ASSUME UNCHANGED <<tasks, call>>
      PROVE  Capacity - Len(tasks') <= Cardinality(Locking(call', Callers))
  BY <1>3 DEF NoLostRoom, CanPush, WaitingFor
<1>4. ASSUME NEW c \in Callers, call[c] # "locking", call' = [call EXCEPT ![c] = "locking"],
             \/ call[c] = "waiting" /\ Len(tasks') \in {Len(tasks), Len(tasks) - 1}
             \/ call[c] # "waiting" /\ Len(tasks') = Len(tasks)
      PROVE  Capacity - Len(tasks') <= Cardinality(Locking(call', Callers))
  <2>1. Cardinality(Locking(call', Callers)) = Cardinality(Locking(call, Callers)) + 1
    <3>1. call'[c] = "locking" /\ \A u \in Callers : u # c => call'[u] = call[u]
      BY <1>2, <1>4
    <3> QED BY <1>1, <1>4, <3>1, Joins
  <2>2. CanPush # {}
    BY <1>2, <1>4 DEF CanPush, WaitingFor
  <2>3. Capacity - Len(tasks) <= Cardinality(Locking(call, Callers))
    BY <2>2 DEF NoLostRoom
  <2> QED BY <1>1, <1>2, <1>4, <2>1, <2>3
<1>5. ASSUME NEW w \in Workers, Take(w)
      PROVE  Capacity - Len(tasks') <= Cardinality(Locking(call', Callers))
  <2>1. CASE WorkerWait(w) \/ WorkerExit(w)
    BY <1>3, <2>1 DEF WorkerWait, WorkerExit, callVars
  <2>2. CASE WorkerPop(w)
    <3>1. Len(tasks') = Len(tasks) - 1
      BY <1>2, <2>2 DEF WorkerPop, Types
    <3>2. CanPush # {}
      BY <2>2 DEF WorkerPop, NotifyCanPush, CanPush, WaitingFor
    <3>3. PICK c \in CanPush : call' = [call EXCEPT ![c] = "locking"]
      BY <2>2, <3>2 DEF WorkerPop, NotifyCanPush
    <3>4. c \in Callers /\ call[c] = "waiting"
      BY DEF CanPush, WaitingFor
    <3> QED BY <1>4, <3>1, <3>3, <3>4
  <2> QED BY <1>5, <2>1, <2>2 DEF Take
<1>6. ASSUME NEW w \in Workers, Finish(w)
      PROVE  Capacity - Len(tasks') <= Cardinality(Locking(call', Callers))
  BY <1>3, <1>6 DEF Finish, callVars
<1>7. ASSUME NEW c \in Callers, NEW j \in Jobs, Schedule(c, j)
      PROVE  Capacity - Len(tasks') <= Cardinality(Locking(call', Callers))
  <2>1. CASE isShutdown
    BY <1>3, <1>7, <2>1 DEF Schedule, callVars
  <2>2. CASE ~isShutdown
    BY <1>4, <1>7, <2>2 DEF Schedule
  <2> QED BY <2>1, <2>2
<1>8. ASSUME NEW c \in Callers, Push(c)
      PROVE  Capacity - Len(tasks') <= Cardinality(Locking(call', Callers))
  <2>1. CASE PushWait(c)
    BY <1>1, <1>2, <2>1 DEF PushWait
  <2>2. CASE PushTask(c)
    <3>1. Len(tasks') = Len(tasks) + 1
      BY <1>8, <2>2 DEF PushTask, Push, Carries, Types
    <3>2. CanPush # {}
      BY <2>2 DEF PushTask, CanPush, WaitingFor, Types
    <3>3. Capacity - Len(tasks) <= Cardinality(Locking(call, Callers))
      BY <3>2 DEF NoLostRoom
    <3>4. call[c] = "locking" /\ call'[c] # "locking"
          /\ \A u \in Callers : u # c => call'[u] = call[u]
      BY <1>2, <1>8, <2>2 DEF PushTask, Push
    <3>5. Cardinality(Locking(call', Callers)) = Cardinality(Locking(call, Callers)) - 1
      BY <1>1, <3>4, Leaves
    <3> QED BY <1>1, <1>2, <3>1, <3>3, <3>5
  <2> QED BY <1>8, <2>1, <2>2 DEF Push
<1>9. ASSUME NEW k \in Closers,
             BeginShutdown(k) \/ Shutdown(k) \/ Recheck(k) \/ Destroy(k)
      PROVE  Capacity - Len(tasks') <= Cardinality(Locking(call', Callers))
  BY <1>3, <1>9 DEF BeginShutdown, Shutdown, Recheck, Destroy, callVars
<1>10. CASE WakeUp
  <2>1. ASSUME NEW c \in CanPush, call' = [call EXCEPT ![c] = "locking"], tasks' = tasks
        PROVE  Capacity - Len(tasks') <= Cardinality(Locking(call', Callers))
    <3>1. c \in Callers /\ call[c] = "waiting"
      BY DEF CanPush, WaitingFor
    <3> QED BY <1>4, <2>1, <3>1
  <2> QED BY <1>3, <1>10, <2>1 DEF WakeUp, callVars
<1>11. CASE UNCHANGED vars
  BY <1>3, <1>11 DEF vars
<1> QED BY <1>5, <1>6, <1>7, <1>8, <1>9, <1>10, <1>11 DEF Next

\* can_push.notify_one in the worker is enough: no caller of schedule sleeps while
\* there are more free places than callers that are awake to fill them.
THEOREM NoRoomLost == AnySpec => []NoLostRoom
<1>1. [AnyNext]_anyVars => [Next]_vars
  BY DEF AnyNext, QueueStep, PoolStep, DiningStep, LineStep, anyVars, vars
<1>2. Init => NoLostRoom
  BY DEF Init, NoLostRoom, CanPush, WaitingFor
<1> QED BY <1>1, <1>2, TypesInit, TypesStep, RoomStep, PTL DEF AnySpec, AnyInit

\* Whatever the program does, neither a worker nor a caller of schedule sleeps
\* through what it waits for.
THEOREM NoWakeUpLost == AnySpec => []NoLostWakeUp
<1>1. NoLostJob /\ NoLostRoom => NoLostWakeUp
  BY DEF NoLostWakeUp
<1> QED BY <1>1, NoJobLost, NoRoomLost, PTL

-----------------------------------------------------------------------------
(* shutdown and a polite program.                                          *)

\* The status of a task tells who has it.
StatusInv == \A j \in Jobs :
  /\ status[j] = "given" => \E c \in Callers : call[c] # "none" /\ given[c] = j
  /\ status[j] = "queued" => \E i \in 1..Len(tasks) : tasks[i] = j
  /\ status[j] = "running" => \E w \in Workers : worker[w] = "running" /\ running[w] = j

Closing == \E k \in Closers : closer[k] # "idle"

\* No task calls schedule, from the first call of shutdown on nobody is inside
\* schedule, and a call of shutdown that returned left an empty queue and no worker.
PoliteInv ==
  /\ \A w \in Workers : call[w] = "none"
  /\ isShutdown => Closing
  /\ Closing => \A c \in Callers : call[c] = "none"
  /\ \A k \in Closers : closer[k] \in {"returned", "destroyed"} =>
       tasks = <<>> /\ \A w \in Workers : worker[w] = "exited"

LEMMA PoliteInvIsEnough == Types /\ StatusInv /\ PoliteInv => ShutdownMeansDone
<1> SUFFICES ASSUME Types, StatusInv, PoliteInv,
                    NEW k \in Closers, closer[k] \in {"returned", "destroyed"}
             PROVE  /\ \A w \in Workers : worker[w] = "exited"
                    /\ \A j \in Jobs : status[j] \notin {"given", "queued", "running"}
  BY DEF ShutdownMeansDone
<1>1. tasks = <<>> /\ \A w \in Workers : worker[w] = "exited"
  BY DEF PoliteInv
<1>2. \A c \in Callers : call[c] = "none"
  BY DEF PoliteInv, Closing
<1>3. ASSUME NEW j \in Jobs PROVE status[j] \notin {"given", "queued", "running"}
  <2>1. status[j] # "given"
    BY <1>2 DEF StatusInv
  <2>2. status[j] # "queued"
    <3>1. 1..Len(tasks) = {}
      BY <1>1
    <3> QED BY <3>1 DEF StatusInv
  <2>3. status[j] # "running"
    BY <1>1 DEF StatusInv
  <2> QED BY <2>1, <2>2, <2>3
<1> QED BY <1>1, <1>3

LEMMA StatusStep == Types /\ Carries /\ StatusInv /\ [Next]_vars => StatusInv'
<1> SUFFICES ASSUME Types, Carries, StatusInv, [Next]_vars PROVE StatusInv'
  OBVIOUS
<1>0. TypeOK
  BY TypesGiveTypeOK
<1>1. ASSUME status' = status, tasks' = tasks, given' = given, running' = running,
             \A c \in Callers : call[c] # "none" => call'[c] # "none",
             \A w \in Workers : worker[w] = "running" => worker'[w] = "running"
      PROVE  StatusInv'
  BY <1>1 DEF StatusInv
<1>2. ASSUME NEW w \in Workers, Take(w) PROVE StatusInv'
  <2>1. CASE WorkerWait(w) \/ WorkerExit(w)
    BY <1>1, <1>2, <2>1 DEF Take, WorkerWait, WorkerExit, callVars, Types
  <2>2. CASE WorkerPop(w)
    <3>1. /\ Head(tasks) = tasks[1] /\ Len(tasks) \in Nat /\ Len(tasks') = Len(tasks) - 1
          /\ \A i \in 1..Len(tasks) : i # 1 =>
               i - 1 \in 1..Len(tasks') /\ tasks'[i - 1] = tasks[i]
          /\ Head(tasks) \in Jobs
      BY <2>2 DEF WorkerPop, Types
    <3>2. \A c \in Callers : call[c] # "none" => call'[c] # "none"
      BY <1>0, <2>2, CanPushNotified DEF WorkerPop
    <3>3. worker'[w] = "running" /\ running'[w] = Head(tasks)
      BY <2>2 DEF WorkerPop, Types
    <3>4. \A v \in Workers : worker[v] = "running" =>
            worker'[v] = "running" /\ running'[v] = running[v]
      BY <1>2, <2>2 DEF Take, WorkerPop, Types
    <3>5. ASSUME NEW j \in Jobs
          PROVE  /\ status'[j] = "given" => \E c \in Callers : call'[c] # "none" /\ given'[c] = j
                 /\ status'[j] = "queued" => \E i \in 1..Len(tasks') : tasks'[i] = j
                 /\ status'[j] = "running" =>
                      \E v \in Workers : worker'[v] = "running" /\ running'[v] = j
      <4>1. CASE j = Head(tasks)
        <5>1. status'[j] = "running"
          BY <2>2, <4>1 DEF WorkerPop, Types
        <5> QED BY <3>3, <4>1, <5>1
      <4>2. CASE j # Head(tasks)
        <5>1. status'[j] = status[j] /\ given' = given
          BY <2>2, <4>2 DEF WorkerPop, Types
        <5>2. status[j] = "queued" => \E i \in 1..Len(tasks') : tasks'[i] = j
          BY <3>1, <4>2 DEF StatusInv
        <5> QED BY <3>2, <3>4, <5>1, <5>2 DEF StatusInv
      <4> QED BY <4>1, <4>2
    <3> QED BY <3>5 DEF StatusInv
  <2> QED BY <1>2, <2>1, <2>2 DEF Take
<1>3. ASSUME NEW w \in Workers, Finish(w) PROVE StatusInv'
  <2>1. running[w] \in Jobs
    BY <1>3 DEF Finish, Carries
  <2>2. \A v \in Workers : v # w => worker'[v] = worker[v] /\ running'[v] = running[v]
    BY <1>3 DEF Finish, Types
  <2>3. /\ status'[running[w]] = "done"
        /\ \A j \in Jobs : j # running[w] => status'[j] = status[j]
    BY <1>3, <2>1 DEF Finish, Types
  <2>4. tasks' = tasks /\ call' = call /\ given' = given
    BY <1>3 DEF Finish, callVars
  <2> QED BY <2>2, <2>3, <2>4 DEF StatusInv
<1>4. ASSUME NEW c \in Callers, NEW j \in Jobs, Schedule(c, j) PROVE StatusInv'
  <2>1. tasks' = tasks /\ worker' = worker /\ running' = running
    BY <1>4 DEF Schedule, workerVars
  <2>2. CASE isShutdown
    <3>1. /\ status'[j] = "refused" /\ call' = call /\ given' = given
          /\ \A i \in Jobs : i # j => status'[i] = status[i]
      BY <1>4, <2>2 DEF Schedule, callVars, Types
    <3> QED BY <2>1, <3>1 DEF StatusInv
  <2>3. CASE ~isShutdown
    <3>1. /\ status'[j] = "given" /\ call'[c] = "locking" /\ given'[c] = j
          /\ \A i \in Jobs : i # j => status'[i] = status[i]
          /\ \A d \in Callers : d # c => call'[d] = call[d] /\ given'[d] = given[d]
      BY <1>4, <2>3 DEF Schedule, Types
    <3>2. call[c] = "none"
      BY <1>4 DEF Schedule
    <3> QED BY <2>1, <3>1, <3>2 DEF StatusInv
  <2> QED BY <2>2, <2>3
<1>5. ASSUME NEW c \in Callers, Push(c) PROVE StatusInv'
  <2>1. CASE PushWait(c)
    BY <1>1, <1>5, <2>1 DEF Push, PushWait, workerVars, Types
  <2>2. CASE PushTask(c)
    <3>1. given[c] \in Jobs
      BY <1>5 DEF Push, Carries
    <3>2. /\ Len(tasks) \in Nat /\ Len(tasks') = Len(tasks) + 1
          /\ tasks'[Len(tasks) + 1] = given[c]
          /\ \A i \in 1..Len(tasks) : i \in 1..Len(tasks') /\ tasks'[i] = tasks[i]
          /\ Len(tasks) + 1 \in 1..Len(tasks')
      BY <2>2, <3>1 DEF PushTask, Types
    <3>3. /\ status'[given[c]] = "queued"
          /\ \A i \in Jobs : i # given[c] => status'[i] = status[i]
          /\ \A d \in Callers : d # c => call'[d] = call[d] /\ given'[d] = given[d]
      BY <2>2, <3>1 DEF PushTask, Types
    <3>4. running' = running /\ \A w \in Workers : worker[w] = "running" => worker'[w] = "running"
      BY <1>0, <2>2, NewJobsNotified DEF PushTask
    <3> QED BY <3>2, <3>3, <3>4 DEF StatusInv
  <2> QED BY <1>5, <2>1, <2>2 DEF Push
<1>6. ASSUME NEW k \in Closers,
             BeginShutdown(k) \/ Shutdown(k) \/ Recheck(k) \/ Destroy(k)
      PROVE  StatusInv'
  BY <1>1, <1>6 DEF BeginShutdown, Shutdown, Recheck, Destroy, workerVars, callVars, NewJobs,
                    WaitingFor, Types
<1>7. CASE WakeUp
  BY <1>1, <1>7 DEF WakeUp, workerVars, callVars, NewJobs, CanPush, WaitingFor, Types
<1>8. CASE UNCHANGED vars
  BY <1>1, <1>8 DEF vars
<1> QED BY <1>2, <1>3, <1>4, <1>5, <1>6, <1>7, <1>8 DEF Next

\* All workers left when shutdown's condition holds.
LEMMA DoneMeansExited == Types /\ IsDone => tasks = <<>> /\ \A w \in Workers : worker[w] = "exited"
<1> SUFFICES ASSUME Types, IsDone
             PROVE  tasks = <<>> /\ \A w \in Workers : worker[w] = "exited"
  OBVIOUS
<1>1. Exited \in SUBSET Workers /\ Cardinality(Exited) = Cardinality(Workers)
  BY DEF Exited, Types, IsDone
<1>2. Exited = Workers
  BY <1>1, PoolAssumption, FS_Subset
<1> QED BY <1>2 DEF Exited, IsDone

LEMMA PoliteInvStep == Types /\ PoliteInv /\ Next /\ PoliteStep => PoliteInv'
<1> SUFFICES ASSUME Types, PoliteInv, Next, PoliteStep PROVE PoliteInv'
  OBVIOUS
<1>0. TypeOK
  BY TypesGiveTypeOK
\* Steps of workers and callers: whoever was outside schedule still is.
<1>1. ASSUME isShutdown' = isShutdown,
             \A k \in Closers : /\ closer'[k] = "idle" <=> closer[k] = "idle"
                                /\ closer'[k] \in {"returned", "destroyed"} =>
                                     closer[k] \in {"returned", "destroyed"},
             \A c \in Callers : call[c] = "none" => call'[c] = "none",
             Closing => /\ \A w \in Workers : worker[w] = "exited" => worker'[w] = "exited"
                        /\ tasks = <<>> /\ (\A w \in Workers : worker[w] = "exited")
                             => tasks' = <<>>
      PROVE  PoliteInv'
  <2>1. Closing' <=> Closing
    BY <1>1 DEF Closing
  <2>2. \A k \in Closers : closer'[k] \in {"returned", "destroyed"} => Closing
    BY <1>1 DEF Closing
  <2> QED BY <1>1, <2>1, <2>2 DEF PoliteInv, Callers
<1>2. ASSUME NEW w \in Workers, Take(w) PROVE PoliteInv'
  <2>1. worker[w] = "locking" /\ \A v \in Workers : v # w => worker'[v] = worker[v]
    BY <1>2 DEF Take, WorkerWait, WorkerExit, WorkerPop, Types
  <2>2. CASE WorkerWait(w)
    BY <1>1, <2>1, <2>2 DEF WorkerWait, callVars
  <2>3. CASE WorkerExit(w)
    <3>1. \A k \in Closers :
            closer'[k] # closer[k] => closer[k] = "waiting" /\ closer'[k] = "woken"
      BY <1>0, <2>3, AllDoneNotified DEF WorkerExit
    <3> QED BY <1>1, <2>1, <2>3, <3>1 DEF WorkerExit, callVars
  <2>4. CASE WorkerPop(w)
    <3>1. \A c \in Callers : call[c] = "none" => call'[c] = "none"
      BY <1>0, <2>4, CanPushNotified DEF WorkerPop
    <3> QED BY <1>1, <2>1, <2>4, <3>1 DEF WorkerPop
  <2> QED BY <1>2, <2>2, <2>3, <2>4 DEF Take
<1>3. ASSUME NEW w \in Workers, Finish(w) PROVE PoliteInv'
  <2>1. worker[w] = "running" /\ \A v \in Workers : v # w => worker'[v] = worker[v]
    BY <1>3 DEF Finish, Types
  <2> QED BY <1>1, <1>3, <2>1 DEF Finish, callVars
<1>4. ASSUME NEW c \in Callers, NEW j \in Jobs, Schedule(c, j) PROVE PoliteInv'
  <2>1. CASE isShutdown
    BY <1>1, <1>4, <2>1 DEF Schedule, callVars, workerVars
  <2>2. CASE ~isShutdown
    <3>1. /\ call[c] = "none" /\ call'[c] = "locking"
          /\ \A d \in Callers : d # c => call'[d] = call[d]
          /\ UNCHANGED <<tasks, isShutdown, worker, closer>>
      BY <1>4, <2>2 DEF Schedule, workerVars, Types
    <3>2. c \in Clients /\ \A k \in Closers : closer[k] = "idle"
      BY <3>1 DEF PoliteStep, LegalStep, Begins
    <3>3. ~Closing' /\ ~isShutdown'
      BY <2>2, <3>1, <3>2 DEF Closing
    <3>4. \A w \in Workers : w # c /\ call'[w] = "none"
      BY <3>1, <3>2, PoolAssumption DEF PoliteInv, Callers
    <3>5. \A k \in Closers : closer'[k] \notin {"returned", "destroyed"}
      BY <3>1, <3>2
    <3> QED BY <3>3, <3>4, <3>5 DEF PoliteInv
  <2> QED BY <2>1, <2>2
<1>5. ASSUME NEW c \in Callers, Push(c) PROVE PoliteInv'
  <2>1. ~Closing
    BY <1>5 DEF Push, PoliteInv
  <2>2. UNCHANGED <<isShutdown, closer>>
    BY <1>5 DEF Push, PushWait, PushTask
  <2>3. \A d \in Callers : call[d] = "none" => call'[d] = "none"
    BY <1>5 DEF Push, PushWait, PushTask, Types
  <2> QED BY <1>1, <2>1, <2>2, <2>3
<1>6. ASSUME NEW k \in Closers, BeginShutdown(k) PROVE PoliteInv'
  <2>1. /\ \A l \in Closers : closer[l] = "idle"
        /\ \A c \in Clients : call[c] = "none"
    <3>1. closer[k] = "idle" /\ closer'[k] # "idle"
      BY <1>6 DEF BeginShutdown, Types
    <3> QED BY <3>1 DEF PoliteStep, Begins
  <2>2. \A c \in Callers : call[c] = "none"
    BY <2>1 DEF PoliteInv, Callers
  <2>3. ~isShutdown
    BY <2>1 DEF PoliteInv, Closing
  <2>4. /\ \A l \in Closers : closer'[l] \in {"idle", "locking"}
        /\ UNCHANGED <<isShutdown, call>>
    BY <1>6, <2>1, <2>3 DEF BeginShutdown, callVars, Types
  <2> QED BY <2>2, <2>3, <2>4 DEF PoliteInv, Callers
\* A closer that looks at the condition.
<1>7. ASSUME NEW k \in Closers, closer[k] # "idle",
             \A l \in Closers : l # k => closer'[l] = closer[l],
             closer'[k] # "idle",
             closer'[k] \in {"returned", "destroyed"} =>
               tasks = <<>> /\ \A w \in Workers : worker[w] = "exited",
             UNCHANGED <<tasks, call>>,
             \A w \in Workers : worker[w] = "exited" => worker'[w] = "exited"
      PROVE  PoliteInv'
  <2>1. Closing /\ Closing'
    BY <1>7 DEF Closing
  <2>2. ASSUME NEW l \in Closers, closer'[l] \in {"returned", "destroyed"}
        PROVE  tasks' = <<>> /\ \A w \in Workers : worker'[w] = "exited"
    BY <1>7, <2>2 DEF PoliteInv
  <2> QED BY <1>7, <2>1, <2>2 DEF PoliteInv
<1>8. ASSUME NEW k \in Closers, Shutdown(k) \/ Recheck(k) PROVE PoliteInv'
  <2>1. /\ closer[k] # "idle"
        /\ \A l \in Closers : l # k => closer'[l] = closer[l]
        /\ closer'[k] = IF IsDone THEN "returned" ELSE "waiting"
        /\ UNCHANGED <<tasks, call>>
    BY <1>8 DEF Shutdown, Recheck, WaitDone, callVars, Types
  <2>2. \A w \in Workers : worker[w] = "exited" => worker'[w] = "exited"
    BY <1>8 DEF Shutdown, Recheck, workerVars, NewJobs, WaitingFor
  <2> QED BY <1>7, <2>1, <2>2, DoneMeansExited
<1>9. ASSUME NEW k \in Closers, Destroy(k) PROVE PoliteInv'
  <2>1. tasks = <<>> /\ \A w \in Workers : worker[w] = "exited"
    BY <1>9 DEF Destroy, PoliteInv
  <2> QED BY <1>7, <1>9, <2>1 DEF Destroy, workerVars, callVars, Types
<1>10. CASE WakeUp
  <2>1. ASSUME NEW w \in NewJobs, worker' = [worker EXCEPT ![w] = "locking"],
               UNCHANGED <<tasks, isShutdown, running, idleThreads, callVars, closer, status>>
        PROVE  PoliteInv'
    <3>1. \A v \in Workers : worker[v] = "exited" => worker'[v] = "exited"
      BY <2>1 DEF NewJobs, WaitingFor, Types
    <3> QED BY <1>1, <2>1, <3>1 DEF callVars
  <2>2. ASSUME NEW c \in CanPush, call' = [call EXCEPT ![c] = "locking"],
               UNCHANGED <<tasks, isShutdown, workerVars, given, closer, status>>
        PROVE  PoliteInv'
    <3>1. \A d \in Callers : call[d] = "none" => call'[d] = "none"
      BY <2>2 DEF CanPush, WaitingFor, Types
    <3> QED BY <1>1, <2>2, <3>1 DEF workerVars
  <2>3. ASSUME NEW k \in AllDone, closer' = [closer EXCEPT ![k] = "woken"],
               UNCHANGED <<tasks, isShutdown, workerVars, callVars, status>>
        PROVE  PoliteInv'
    <3>1. closer[k] = "waiting" /\ k \in Closers
      BY DEF AllDone, WaitingFor
    <3>2. closer'[k] = "woken" /\ \A l \in Closers : l # k => closer'[l] = closer[l]
      BY <2>3, <3>1 DEF Types
    <3> QED BY <1>1, <2>3, <3>1, <3>2 DEF workerVars, callVars
  <2> QED BY <1>10, <2>1, <2>2, <2>3 DEF WakeUp
<1> QED BY <1>2, <1>3, <1>4, <1>5, <1>6, <1>8, <1>9, <1>10 DEF Next

\* When shutdown is called once and nobody is inside schedule, it returns only when
\* every worker has left and no task is queued, running or about to come.
THEOREM PoliteShutdown == AnySpec => []PoliteShutdownIsDone
<1> DEFINE Inv == Types /\ Carries /\ StatusInv /\ (Polite => PoliteInv)
<1>1. AnyInit => Inv
  <2>1. Init => StatusInv /\ PoliteInv
    BY DEF Init, StatusInv, PoliteInv, Closing, Callers
  <2> QED BY <2>1, TypesInit DEF AnyInit
<1>2. Inv /\ [AnyNext]_anyVars => Inv'
  <2> SUFFICES ASSUME Inv, [AnyNext]_anyVars PROVE Inv'
    OBVIOUS
  <2>1. [Next]_vars
    BY DEF AnyNext, QueueStep, PoolStep, DiningStep, LineStep, anyVars, vars
  <2>2. Types' /\ Carries' /\ StatusInv'
    BY <2>1, TypesStep, StatusStep
  <2>3. CASE PoolStep
    BY <2>2, <2>3, PoliteInvStep DEF PoolStep, Polite
  <2>4. CASE UNCHANGED vars
    <3>1. PoliteInv => PoliteInv'
      BY <2>4 DEF vars, PoliteInv, Closing
    <3>2. Polite' <=> Polite
      BY DEF AnyNext, QueueStep, PoolStep, DiningStep, LineStep, anyVars, Polite
    <3> QED BY <2>2, <3>1, <3>2
  <2> QED BY <2>3, <2>4 DEF AnyNext, QueueStep, DiningStep, LineStep, anyVars
<1>3. Inv => PoliteShutdownIsDone
  BY PoliteInvIsEnough DEF PoliteShutdownIsDone
<1> QED BY <1>1, <1>2, <1>3, PTL DEF AnySpec

-----------------------------------------------------------------------------
USE QueueAssumption DEF QueueAssumption

-----------------------------------------------------------------------------
(* Type correctness.                                                       *)

\* What ReturnNotifying leaves of the type of state.
LEMMA NotifyingType ==
  ASSUME QueueTypeOK, NEW t \in Threads, NEW waiters \in SUBSET Threads,
         ReturnNotifying(t, waiters)
  PROVE  state' \in [Threads -> {"idle", "locking", "waiting"}]
BY DEF QueueTypeOK, ReturnNotifying

\* Threads are producers and consumers, and so are those that wait.
LEMMA Sides ==
  /\ Producers \subseteq Threads
  /\ Consumers \subseteq Threads
  /\ WaitIsFull \subseteq Threads
  /\ WaitIsEmpty \subseteq Threads
BY DEF Threads, WaitIsFull, WaitIsEmpty

LEMMA QueueTypeStep == QueueTypeOK /\ [QueueNext]_queueVars => QueueTypeOK'
<1> SUFFICES ASSUME QueueTypeOK, [QueueNext]_queueVars PROVE QueueTypeOK'
    OBVIOUS
<1> USE DEF QueueTypeOK
<1>1. CASE UNCHANGED queueVars
    BY <1>1 DEF queueVars
<1>2. ASSUME NEW t \in Threads, Begin(t) PROVE QueueTypeOK'
    BY <1>2 DEF Begin
<1>3. ASSUME NEW t \in Threads, ThreadWakesUp(t) PROVE QueueTypeOK'
    BY <1>3 DEF ThreadWakesUp
<1>4. ASSUME NEW p \in Producers, PushItem(p) PROVE QueueTypeOK'
  <2>1. p \in Threads
      BY Sides
  <2>2. CASE Wait(p)
      BY <2>1, <2>2 DEF Wait
  <2>3. CASE ReturnClosed(p)
      BY <2>1, <2>3 DEF ReturnClosed
  <2>4. CASE /\ ~IsFull /\ ~closed
             /\ items' = Append(items, p)
             /\ ReturnNotifying(p, WaitIsEmpty)
             /\ answer' = [answer EXCEPT ![p] = "success"]
             /\ UNCHANGED <<closed, calls>>
    <3>1. state' \in [Threads -> {"idle", "locking", "waiting"}]
        BY <2>1, <2>4, NotifyingType, Sides
    <3>2. items' \in Seq(Producers) /\ Len(items') = Len(items) + 1
        BY <2>4
    <3>3. Len(items') <= MaxSize
        BY <2>4, <3>2 DEF IsFull
    <3> QED
        BY <2>1, <2>4, <3>1, <3>2, <3>3
  <2> QED
      BY <1>4, <2>2, <2>3, <2>4 DEF PushItem
<1>5. ASSUME NEW c \in Consumers, PopItem(c) PROVE QueueTypeOK'
  <2>1. c \in Threads
      BY Sides
  <2>2. CASE Wait(c)
      BY <2>1, <2>2 DEF Wait
  <2>3. CASE ReturnClosed(c)
      BY <2>1, <2>3 DEF ReturnClosed
  <2>4. CASE /\ items # <<>>
             /\ items' = Tail(items)
             /\ ReturnNotifying(c, WaitIsFull)
             /\ answer' = [answer EXCEPT ![c] = "success"]
             /\ UNCHANGED <<closed, calls>>
    <3>1. state' \in [Threads -> {"idle", "locking", "waiting"}]
        BY <2>1, <2>4, NotifyingType, Sides
    <3>2. items' \in Seq(Producers) /\ Len(items') = Len(items) - 1
        BY <2>4
    <3>3. Len(items') <= MaxSize
      <4>1. Len(items) \in Nat
          OBVIOUS
      <4> QED
          BY <3>2, <4>1
    <3> QED
        BY <2>1, <2>4, <3>1, <3>2, <3>3
  <2> QED
      BY <1>5, <2>2, <2>3, <2>4 DEF PopItem
<1>6. CASE Close
    BY <1>6 DEF Close
<1>7. CASE Clear
  <2>1. items' \in Seq(Producers) /\ Len(items') = 0
      BY <1>7 DEF Clear
  <2> QED
      BY <1>7, <2>1 DEF Clear
<1> QED
    BY <1>1, <1>2, <1>3, <1>4, <1>5, <1>6, <1>7 DEF QueueNext, Use

LEMMA TypeInit == QueueInit => QueueTypeOK
<1> SUFFICES ASSUME QueueInit PROVE QueueTypeOK
    OBVIOUS
<1>1. items \in Seq(Producers) /\ Len(items) <= MaxSize
    BY DEF QueueInit
<1>2. calls \in [Threads -> 0..MaxCalls]
    BY DEF QueueInit
<1>3. answer \in [Threads -> {"none", "success", "closed"}]
    BY DEF QueueInit
<1> QED
    BY <1>1, <1>2, <1>3 DEF QueueInit, QueueTypeOK

\* The queue never holds more than MaxSize items (push waits while is_full).
THEOREM QueueTypeCorrect == QueueSpec => []QueueTypeOK
BY TypeInit, QueueTypeStep, PTL DEF QueueSpec

-----------------------------------------------------------------------------
(* How a step changes the number of threads on their way to the mutex.      *)

LEMMA QueueLockingFinite ==
  ASSUME NEW S, IsFiniteSet(S)
  PROVE  /\ IsFiniteSet(WantMutex(S)) /\ Cardinality(WantMutex(S)) \in Nat
         /\ IsFiniteSet(WantMutex(S)') /\ Cardinality(WantMutex(S)') \in Nat
<1>1. WantMutex(S) \subseteq S /\ WantMutex(S)' \subseteq S
    BY DEF WantMutex
<1> QED
    BY <1>1, FS_Subset, FS_CardinalityType

LEMMA QueueJoins ==
  ASSUME NEW S, IsFiniteSet(S), NEW w, w \notin WantMutex(S),
         WantMutex(S)' = WantMutex(S) \cup {w}
  PROVE  Cardinality(WantMutex(S)') = Cardinality(WantMutex(S)) + 1
BY QueueLockingFinite, FS_AddElement

LEMMA QueueLeaves ==
  ASSUME NEW S, IsFiniteSet(S), NEW t \in WantMutex(S),
         WantMutex(S)' = WantMutex(S) \ {t}
  PROVE  Cardinality(WantMutex(S)') = Cardinality(WantMutex(S)) - 1
<1>1. Cardinality(WantMutex(S)) \in Nat
    BY QueueLockingFinite
<1> QED
    BY <1>1, QueueLockingFinite, FS_RemoveElement

\* A thread that calls, or wakes up by itself, joins those of its side.
LEMMA Joining ==
  ASSUME QueueTypeOK, NEW S \in SUBSET Threads, IsFiniteSet(S), NEW t \in Threads,
         state[t] # "locking", state' = [state EXCEPT ![t] = "locking"]
  PROVE  Cardinality(WantMutex(S)') >= Cardinality(WantMutex(S))
<1>1. CASE t \in S
  <2>1. t \notin WantMutex(S) /\ WantMutex(S)' = WantMutex(S) \cup {t}
      BY <1>1 DEF WantMutex, QueueTypeOK
  <2> QED
      BY <2>1, QueueJoins, QueueLockingFinite
<1>2. CASE t \notin S
  <2>1. WantMutex(S)' = WantMutex(S)
      BY <1>2 DEF WantMutex, QueueTypeOK
  <2> QED
      BY <2>1, QueueLockingFinite
<1> QED
    BY <1>1, <1>2

\* A thread that waits again, or returns, leaves those of its side only.
LEMMA Leaving ==
  ASSUME QueueTypeOK, NEW S \in SUBSET Threads, IsFiniteSet(S), NEW t \in Threads,
         state[t] = "locking", NEW v \in {"idle", "waiting"},
         state' = [state EXCEPT ![t] = v]
  PROVE  /\ t \in S =>
              Cardinality(WantMutex(S)') = Cardinality(WantMutex(S)) - 1
         /\ t \notin S => WantMutex(S)' = WantMutex(S)
<1>1. ASSUME t \in S
      PROVE  Cardinality(WantMutex(S)') = Cardinality(WantMutex(S)) - 1
  <2>1. t \in WantMutex(S) /\ WantMutex(S)' = WantMutex(S) \ {t}
      BY <1>1 DEF WantMutex, QueueTypeOK
  <2> QED
      BY <2>1, QueueLeaves
<1>2. ASSUME t \notin S PROVE WantMutex(S)' = WantMutex(S)
    BY <1>2 DEF WantMutex, QueueTypeOK
<1> QED
    BY <1>1, <1>2

\* A thread of one side returns and notifies the other side: its own side loses
\* it and nobody else, the other side gains one, or had nobody waiting.
LEMMA Notifying ==
  ASSUME QueueTypeOK, NEW S \in SUBSET Threads, NEW T \in SUBSET Threads,
         IsFiniteSet(S), IsFiniteSet(T), S \cap T = {}, NEW t \in S,
         state[t] = "locking",
         ReturnNotifying(t, {u \in T : state[u] = "waiting"})
  PROVE  /\ Cardinality(WantMutex(S)') = Cardinality(WantMutex(S)) - 1
         /\ {u \in S : state[u] = "waiting"}' = {u \in S : state[u] = "waiting"}
         /\ \/ {u \in T : state[u] = "waiting"}' = {}
            \/ Cardinality(WantMutex(T)') = Cardinality(WantMutex(T)) + 1
<1> DEFINE waiters == {u \in T : state[u] = "waiting"}
<1>1. CASE waiters = {}
  <2>1. state' = [state EXCEPT ![t] = "idle"]
      BY <1>1 DEF ReturnNotifying
  <2>2. Cardinality(WantMutex(S)') = Cardinality(WantMutex(S)) - 1
      BY <2>1, Leaving
  <2>3. {u \in T : state[u] = "waiting"}' = {}
      BY <1>1, <2>1 DEF QueueTypeOK
  <2>4. {u \in S : state[u] = "waiting"}' = {u \in S : state[u] = "waiting"}
      BY <2>1 DEF QueueTypeOK
  <2> QED
      BY <2>2, <2>3, <2>4
<1>2. CASE waiters # {}
  <2>1. PICK w \in waiters :
              state' = [state EXCEPT ![t] = "idle", ![w] = "locking"]
      BY <1>2 DEF ReturnNotifying
  <2>2. w \in T /\ w \notin S /\ w # t /\ state[w] = "waiting"
      BY <2>1
  <2>3. \A u \in Threads : state'[u] = IF u = w THEN "locking"
                                       ELSE IF u = t THEN "idle" ELSE state[u]
      BY <2>1, <2>2 DEF QueueTypeOK
  <2>4. t \in WantMutex(S) /\ WantMutex(S)' = WantMutex(S) \ {t}
      BY <2>2, <2>3 DEF WantMutex
  <2>5. w \notin WantMutex(T) /\ WantMutex(T)' = WantMutex(T) \cup {w}
      BY <2>2, <2>3 DEF WantMutex
  <2>6. {u \in S : state[u] = "waiting"}' = {u \in S : state[u] = "waiting"}
      BY <2>2, <2>3
  <2> QED
      BY <2>4, <2>5, <2>6, QueueJoins, QueueLeaves
<1> QED
    BY <1>1, <1>2

LEMMA Counts ==
  /\ Cardinality(WantMutex(Consumers)) \in Nat /\ Cardinality(WantMutex(Consumers)') \in Nat
  /\ Cardinality(WantMutex(Producers)) \in Nat /\ Cardinality(WantMutex(Producers)') \in Nat
BY QueueLockingFinite

-----------------------------------------------------------------------------
(* No notification of a consumer is lost, whatever is done with the queue.  *)

ItemInv == QueueTypeOK /\ NoLostItem

LEMMA ItemInvInit == QueueInit => ItemInv
<1> SUFFICES ASSUME QueueInit PROVE ItemInv
    OBVIOUS
<1>1. WaitIsEmpty = {}
    BY Sides DEF QueueInit, WaitIsEmpty
<1> QED
    BY <1>1, TypeInit DEF ItemInv, NoLostItem

LEMMA ItemPush ==
  ASSUME ItemInv, NEW p \in Producers, PushItem(p)
  PROVE  NoLostItem'
<1> USE DEF ItemInv
<1>1. /\ state[p] = "locking" /\ p \in Threads /\ p \notin Consumers
      /\ Len(items) \in Nat
    BY Sides DEF PushItem, QueueTypeOK
<1>2. CASE Wait(p) \/ ReturnClosed(p)
  <2>1. PICK v \in {"idle", "waiting"} : state' = [state EXCEPT ![p] = v]
      BY <1>2 DEF Wait, ReturnClosed
  <2>2. items' = items
      BY <1>2 DEF Wait, ReturnClosed
  <2>3. WantMutex(Consumers)' = WantMutex(Consumers)
      BY <1>1, <2>1, Sides, Leaving
  <2>4. WaitIsEmpty' = WaitIsEmpty
      BY <1>1, <2>1, Sides DEF WaitIsEmpty, QueueTypeOK
  <2> QED
      BY <2>2, <2>3, <2>4 DEF NoLostItem
<1>3. CASE items' = Append(items, p) /\ ReturnNotifying(p, WaitIsEmpty)
  <2>1. Len(items') = Len(items) + 1
      BY <1>3 DEF QueueTypeOK
  <2>2. \/ WaitIsEmpty' = {}
        \/ Cardinality(WantMutex(Consumers)') = Cardinality(WantMutex(Consumers)) + 1
      BY <1>1, <1>3, Sides, Notifying DEF WaitIsEmpty
  <2>3. WaitIsEmpty' \subseteq WaitIsEmpty
      BY <1>1, <1>3 DEF WaitIsEmpty, ReturnNotifying, QueueTypeOK, Threads
  <2> QED
      BY <1>1, <2>1, <2>2, <2>3, Counts DEF NoLostItem
<1> QED
    BY <1>2, <1>3 DEF PushItem

LEMMA ItemPop ==
  ASSUME ItemInv, NEW c \in Consumers, PopItem(c)
  PROVE  NoLostItem'
<1> USE DEF ItemInv
<1>1. /\ state[c] = "locking" /\ c \in Threads /\ c \notin Producers
      /\ Len(items) \in Nat
    BY Sides DEF PopItem, QueueTypeOK
<1>2. CASE items = <<>> /\ items' = items
    BY <1>2, Counts DEF NoLostItem
<1>3. CASE items # <<>> /\ items' = Tail(items) /\ ReturnNotifying(c, WaitIsFull)
  <2>1. Len(items') = Len(items) - 1
      BY <1>3 DEF QueueTypeOK
  <2>2. /\ Cardinality(WantMutex(Consumers)') = Cardinality(WantMutex(Consumers)) - 1
        /\ WaitIsEmpty' = WaitIsEmpty
      BY <1>1, <1>3, Sides, Notifying DEF WaitIsEmpty, WaitIsFull
  <2> QED
      BY <1>1, <2>1, <2>2, Counts DEF NoLostItem
<1> QED
    BY <1>2, <1>3 DEF PopItem, Wait, ReturnClosed

LEMMA ItemInvStep == ItemInv /\ [QueueNext]_queueVars => ItemInv'
<1> SUFFICES ASSUME ItemInv, [QueueNext]_queueVars PROVE ItemInv'
    OBVIOUS
<1>1. QueueTypeOK'
    BY QueueTypeStep DEF ItemInv
<1>2. CASE UNCHANGED queueVars \/ Close
    BY <1>1, <1>2 DEF queueVars, Close, ItemInv, NoLostItem, WaitIsEmpty, WantMutex
<1>3. ASSUME NEW t \in Threads, Begin(t) \/ ThreadWakesUp(t) PROVE ItemInv'
  <2>1. /\ state[t] # "locking" /\ state' = [state EXCEPT ![t] = "locking"]
        /\ items' = items
      BY <1>3 DEF Begin, ThreadWakesUp
  <2>2. WaitIsEmpty' \subseteq WaitIsEmpty
      BY <2>1, Sides DEF ItemInv, QueueTypeOK, WaitIsEmpty
  <2>3. Cardinality(WantMutex(Consumers)') >= Cardinality(WantMutex(Consumers))
      BY <2>1, Sides, Joining DEF ItemInv
  <2>4. Len(items) \in Nat
      BY DEF ItemInv, QueueTypeOK
  <2> QED
      BY <1>1, <2>1, <2>2, <2>3, <2>4, Counts DEF ItemInv, NoLostItem
<1>4. CASE Clear
  <2>1. Len(items') = 0
      BY <1>4 DEF Clear
  <2> QED
      BY <1>1, <2>1, Counts DEF ItemInv, NoLostItem
<1>5. ASSUME NEW p \in Producers, PushItem(p) PROVE ItemInv'
    BY <1>1, <1>5, ItemPush DEF ItemInv
<1>6. ASSUME NEW c \in Consumers, PopItem(c) PROVE ItemInv'
    BY <1>1, <1>6, ItemPop DEF ItemInv
<1> QED
    BY <1>2, <1>3, <1>4, <1>5, <1>6 DEF QueueNext, Use

\* While an item is in the queue and a consumer waits, another is on its way
\* (notify_one in push), also in a queue that is closed or cleared at any time.
THEOREM NoItemLost == QueueSpec => []NoLostItem
<1>1. ItemInv => NoLostItem
    BY DEF ItemInv
<1> QED
    BY <1>1, ItemInvInit, ItemInvStep, PTL DEF QueueSpec

-----------------------------------------------------------------------------
(* No notification of a producer is lost while nobody closes or clears the  *)
(* queue: clear makes places and tells nobody.                              *)

PlaceInv == QueueTypeOK /\ ~closed /\ NoLostPlace

LEMMA PlaceInvInit == QueueInit => PlaceInv
<1> SUFFICES ASSUME QueueInit PROVE PlaceInv
    OBVIOUS
<1>1. WaitIsFull = {}
    BY Sides DEF QueueInit, WaitIsFull
<1> QED
    BY <1>1, TypeInit DEF QueueInit, PlaceInv, NoLostPlace

LEMMA PlacePush ==
  ASSUME PlaceInv, NEW p \in Producers, PushItem(p)
  PROVE  NoLostPlace' /\ ~closed'
<1> USE DEF PlaceInv
<1>1. /\ state[p] = "locking" /\ p \in Threads /\ p \notin Consumers
      /\ ~closed /\ Len(items) \in Nat /\ MaxSize \in Nat
    BY Sides DEF PushItem, QueueTypeOK
<1>2. CASE IsFull /\ Wait(p)
  <2>1. items' = items /\ closed' = closed
      BY <1>2 DEF Wait
  <2> QED
      BY <1>1, <1>2, <2>1, Counts DEF NoLostPlace, IsFull
<1>3. CASE /\ items' = Append(items, p)
           /\ ReturnNotifying(p, WaitIsEmpty)
           /\ UNCHANGED closed
  <2>1. Len(items') = Len(items) + 1
      BY <1>3 DEF QueueTypeOK
  <2>2. /\ Cardinality(WantMutex(Producers)') = Cardinality(WantMutex(Producers)) - 1
        /\ WaitIsFull' = WaitIsFull
      BY <1>1, <1>3, Sides, Notifying DEF WaitIsEmpty, WaitIsFull
  <2> QED
      BY <1>1, <1>3, <2>1, <2>2, Counts DEF NoLostPlace
<1> QED
    BY <1>1, <1>2, <1>3 DEF PushItem

LEMMA PlacePop ==
  ASSUME PlaceInv, NEW c \in Consumers, PopItem(c)
  PROVE  NoLostPlace' /\ ~closed'
<1> USE DEF PlaceInv
<1>1. /\ state[c] = "locking" /\ c \in Threads /\ c \notin Producers
      /\ ~closed /\ Len(items) \in Nat /\ MaxSize \in Nat
    BY Sides DEF PopItem, QueueTypeOK
<1>2. CASE Wait(c)
  <2>1. /\ state' = [state EXCEPT ![c] = "waiting"]
        /\ items' = items /\ closed' = closed
      BY <1>2 DEF Wait
  <2>2. WantMutex(Producers)' = WantMutex(Producers)
      BY <1>1, <2>1, Sides, Leaving
  <2>3. WaitIsFull' = WaitIsFull
      BY <1>1, <2>1, Sides DEF WaitIsFull, QueueTypeOK
  <2> QED
      BY <1>1, <2>1, <2>2, <2>3 DEF NoLostPlace
<1>3. CASE /\ items # <<>>
           /\ items' = Tail(items)
           /\ ReturnNotifying(c, WaitIsFull)
           /\ UNCHANGED closed
  <2>1. Len(items') = Len(items) - 1
      BY <1>3 DEF QueueTypeOK
  <2>2. \/ WaitIsFull' = {}
        \/ Cardinality(WantMutex(Producers)') = Cardinality(WantMutex(Producers)) + 1
      BY <1>1, <1>3, Sides, Notifying DEF WaitIsFull
  <2>3. WaitIsFull' \subseteq WaitIsFull
      BY <1>1, <1>3 DEF WaitIsFull, ReturnNotifying, QueueTypeOK, Threads
  <2> QED
      BY <1>1, <1>3, <2>1, <2>2, <2>3, Counts DEF NoLostPlace
<1> QED
    BY <1>1, <1>2, <1>3 DEF PopItem

LEMMA PlaceInvStep == PlaceInv /\ [Use]_queueVars => PlaceInv'
<1> SUFFICES ASSUME PlaceInv, [Use]_queueVars PROVE PlaceInv'
    OBVIOUS
<1>1. QueueTypeOK'
    BY QueueTypeStep DEF PlaceInv, QueueNext
<1>2. CASE UNCHANGED queueVars
    BY <1>1, <1>2 DEF queueVars, PlaceInv, NoLostPlace, WaitIsFull, WantMutex
<1>3. ASSUME NEW t \in Threads, Begin(t) \/ ThreadWakesUp(t) PROVE PlaceInv'
  <2>1. /\ state[t] # "locking" /\ state' = [state EXCEPT ![t] = "locking"]
        /\ items' = items /\ closed' = closed
      BY <1>3 DEF Begin, ThreadWakesUp
  <2>2. WaitIsFull' \subseteq WaitIsFull
      BY <2>1, Sides DEF PlaceInv, QueueTypeOK, WaitIsFull
  <2>3. Cardinality(WantMutex(Producers)') >= Cardinality(WantMutex(Producers))
      BY <2>1, Sides, Joining DEF PlaceInv
  <2>4. Len(items) \in Nat
      BY DEF PlaceInv, QueueTypeOK
  <2> QED
      BY <1>1, <2>1, <2>2, <2>3, <2>4, Counts DEF PlaceInv, NoLostPlace
<1>4. ASSUME NEW p \in Producers, PushItem(p) PROVE PlaceInv'
    BY <1>1, <1>4, PlacePush DEF PlaceInv
<1>5. ASSUME NEW c \in Consumers, PopItem(c) PROVE PlaceInv'
    BY <1>1, <1>5, PlacePop DEF PlaceInv
<1> QED
    BY <1>2, <1>3, <1>4, <1>5 DEF Use

\* While a place is free and a producer waits, another is on its way (notify_one
\* in pop).
THEOREM NoPlaceLost == UseSpec => []NoLostPlace
<1>1. PlaceInv => NoLostPlace
    BY DEF PlaceInv
<1> QED
    BY <1>1, PlaceInvInit, PlaceInvStep, PTL DEF UseSpec

-----------------------------------------------------------------------------
(* The mugs of a philosopher.                                              *)

LEMMA RightOf ==
  ASSUME NEW p \in Philosophers
  PROVE  /\ Right(p) = IF p = N - 1 THEN 0 ELSE p + 1
         /\ Right(p) \in Philosophers /\ Right(p) # p
<1>1. N \in Nat /\ N >= 2 /\ p \in 0..(N - 1)
  BY DiningAssumption DEF Philosophers
<1>2. CASE p = N - 1
  <2>1. (p + 1) % N = 0
    BY <1>1, <1>2
  <2> QED BY <1>1, <1>2, <2>1 DEF Right, Philosophers
<1>3. CASE p # N - 1
  <2>1. p + 1 \in 0..(N - 1)
    BY <1>1, <1>3
  <2>2. (p + 1) % N = p + 1
    BY <1>1, <2>1
  <2> QED BY <1>1, <1>3, <2>1, <2>2 DEF Right, Philosophers
<1> QED BY <1>2, <1>3

LEMMA Mugs ==
  ASSUME NEW p \in Philosophers
  PROVE  /\ First(p) \in Philosophers /\ Second(p) \in Philosophers
         /\ First(p) # Second(p) /\ {First(p), Second(p)} = {p, Right(p)}
  BY RightOf DEF First, Second

\* Only odd mugs and mug 0 are ever somebody's first.
LEMMA FirstMugs ==
  ASSUME NEW p \in Philosophers
  PROVE  First(p) % 2 = 1 \/ First(p) = 0
<1>1. N \in Nat /\ p \in 0..(N - 1) /\ p \in Nat
  BY DiningAssumption DEF Philosophers
<1>2. CASE p % 2 = 0
  <2>1. (p + 1) % 2 = 1
    BY <1>1, <1>2
  <2> QED BY <1>2, <2>1, RightOf DEF First
<1>3. CASE p % 2 # 0
  BY <1>1, <1>3 DEF First
<1> QED BY <1>2, <1>3

\* Somebody's second mug is even: nobody's first mug unless it is 0.
LEMMA SecondMugs ==
  ASSUME NEW p \in Philosophers
  PROVE  Second(p) % 2 = 0
<1>1. N \in Nat /\ p \in 0..(N - 1) /\ p \in Nat
  BY DiningAssumption DEF Philosophers
<1>2. CASE p % 2 = 0
  BY <1>2 DEF Second
<1>3. CASE p % 2 # 0
  <2>1. (p + 1) % 2 = 0 /\ 0 % 2 = 0
    BY <1>1, <1>3
  <2> QED BY <1>3, <2>1, RightOf DEF Second
<1> QED BY <1>2, <1>3

-----------------------------------------------------------------------------
(* Types.                                                                  *)

LEMMA DiningTypeInit == DiningInit \/ SettledInit => DiningTypeOK
<1>1. N \in Nat /\ N >= 2
  BY DiningAssumption
<1>2. DiningInit => DiningTypeOK
  BY <1>1 DEF DiningInit, DiningTypeOK
<1>3. SettledInit => DiningTypeOK
  BY <1>1 DEF SettledInit, DiningTypeOK
<1> QED BY <1>2, <1>3

LEMMA DiningTypeStep == DiningTypeOK /\ [DiningNext]_diningVars => DiningTypeOK'
<1> SUFFICES ASSUME DiningTypeOK, [DiningNext]_diningVars PROVE DiningTypeOK'
  OBVIOUS
<1>1. N \in Nat /\ N >= 2
  BY DiningAssumption
<1>2. CASE MutexInit
  BY <1>2 DEF DiningTypeOK, MutexInit
<1>3. CASE Create
  BY <1>3 DEF DiningTypeOK, Create
<1>4. CASE SetThirsty
  <2>1. made # N /\ made \in 0..N
    BY <1>4 DEF DiningTypeOK, SetThirsty
  <2>2. made' = made + 1 /\ made' \in 0..N
    BY <1>1, <1>4, <2>1 DEF SetThirsty
  <2>3. main' \in {"mutex", "create", "thirsty", "join"} /\ (main' = "join" <=> made' = N)
    BY <1>4, <2>2 DEF SetThirsty
  <2> QED BY <1>4, <2>2, <2>3 DEF DiningTypeOK, SetThirsty
<1>5. ASSUME NEW p \in Philosophers, Phil(p) PROVE DiningTypeOK'
  <2>1. CASE StumbleAround(p) \/ NotDrunk(p) \/ Drink(p)
    BY <2>1 DEF DiningTypeOK, StumbleAround, NotDrunk, Drink
  <2>2. CASE LockFirst(p)
    BY <2>2 DEF DiningTypeOK, LockFirst
  <2>3. CASE LockSecond(p)
    BY <2>3 DEF DiningTypeOK, LockSecond
  <2>4. CASE SetDown(p)
    BY <2>4 DEF DiningTypeOK, SetDown
  <2>5. CASE SetDownNext(p)
    BY <2>5 DEF DiningTypeOK, SetDownNext
  <2> QED BY <1>5, <2>1, <2>2, <2>3, <2>4, <2>5 DEF Phil
<1>6. CASE UNCHANGED diningVars
  BY <1>6 DEF diningVars, DiningTypeOK
<1> QED BY <1>2, <1>3, <1>4, <1>5, <1>6 DEF DiningNext, Main

\* Every variable has its type, for any number of philosophers, from either start.
THEOREM DiningTypeCorrect == AnySpec => []DiningTypeOK
<1>1. AnyInit => DiningTypeOK
  BY DiningTypeInit DEF AnyInit, Settled
<1>2. [AnyNext]_anyVars => [DiningNext]_diningVars
  BY DEF AnyNext, QueueStep, PoolStep, DiningStep, LineStep, anyVars
<1> QED BY <1>1, <1>2, DiningTypeStep, PTL DEF AnySpec

-----------------------------------------------------------------------------
(* A mutex that is locked is held by somebody: initialising one again can  *)
(* only unlock it.                                                         *)

Unborn == \A p \in Philosophers :
  p > made \/ (p = made /\ main # "thirsty") => pc[p] = "none"

LockedIsHeld == \A m \in Philosophers : locked[m] => \E p \in Philosophers : m \in Holds(p)

LEMMA HeldInit == DiningInit \/ SettledInit => LockedIsHeld /\ Unborn
<1>1. N \in Nat /\ N >= 2 /\ \A p \in Philosophers : ~(p > N) /\ p # N
  BY DiningAssumption DEF Philosophers
<1> QED BY <1>1 DEF DiningInit, SettledInit, LockedIsHeld, Unborn

LEMMA UnbornStep == DiningTypeOK /\ Unborn /\ [DiningNext]_diningVars => Unborn'
<1> SUFFICES ASSUME DiningTypeOK, Unborn, [DiningNext]_diningVars, NEW p \in Philosophers,
                    p > made' \/ (p = made' /\ main' # "thirsty")
             PROVE  pc'[p] = "none"
  BY DEF Unborn
<1>1. N \in Nat /\ N >= 2 /\ p \in 0..(N - 1) /\ made \in 0..N
  BY DiningAssumption DEF Philosophers, DiningTypeOK
<1>2. CASE MutexInit
  BY <1>2 DEF MutexInit, Unborn
<1>3. CASE Create
  BY <1>1, <1>3 DEF Create, Unborn, DiningTypeOK
<1>4. CASE SetThirsty
  <2>1. p > made /\ pc' = pc
    BY <1>1, <1>4 DEF SetThirsty
  <2> QED BY <2>1 DEF Unborn
<1>5. ASSUME NEW q \in Philosophers, Phil(q) PROVE pc'[p] = "none"
  <2>1. made' = made /\ main' = main /\ pc[q] # "none"
    BY <1>5 DEF Phil, StumbleAround, NotDrunk, LockFirst, LockSecond, Drink, SetDown, SetDownNext
  <2>2. pc[p] = "none" /\ p # q
    BY <2>1 DEF Unborn
  <2> QED BY <1>5, <2>2 DEF Phil, StumbleAround, NotDrunk, LockFirst, LockSecond, Drink,
                            SetDown, SetDownNext, DiningTypeOK
<1>6. CASE UNCHANGED diningVars
  BY <1>6 DEF diningVars, Unborn
<1> QED BY <1>2, <1>3, <1>4, <1>5, <1>6 DEF DiningNext, Main

LEMMA HeldStep == DiningTypeOK /\ Unborn /\ LockedIsHeld /\ [DiningNext]_diningVars => LockedIsHeld'
<1> SUFFICES ASSUME DiningTypeOK, Unborn, LockedIsHeld, [DiningNext]_diningVars,
                    NEW m \in Philosophers, locked'[m]
             PROVE  \E p \in Philosophers : m \in Holds(p)'
  BY DEF LockedIsHeld
<1>1. CASE UNCHANGED diningVars
  <2>1. PICK p \in Philosophers : m \in Holds(p)
    BY <1>1 DEF LockedIsHeld, diningVars
  <2> QED BY <1>1, <2>1 DEF Holds, diningVars
<1>2. CASE Main
  <2>1. locked[m]
    BY <1>2 DEF Main, MutexInit, Create, SetThirsty, DiningTypeOK
  <2>2. PICK p \in Philosophers : m \in Holds(p)
    BY <2>1 DEF LockedIsHeld
  <2>3. pc[p] # "none"
    BY <2>2 DEF Holds
  <2>4. pc'[p] = pc[p]
    BY <1>2, <2>3 DEF Main, MutexInit, Create, SetThirsty, DiningTypeOK, Unborn
  <2> QED BY <2>2, <2>4 DEF Holds
<1>3. ASSUME NEW q \in Philosophers, Phil(q)
      PROVE  \E p \in Philosophers : m \in Holds(p)'
  <2>1. \A p \in Philosophers : p # q => Holds(p)' = Holds(p)
    BY <1>3 DEF Phil, StumbleAround, NotDrunk, LockFirst, LockSecond, Drink, SetDown,
                SetDownNext, Holds, DiningTypeOK
  <2>2. CASE LockFirst(q) /\ m = First(q)
    BY <2>2 DEF LockFirst, Holds, DiningTypeOK
  <2>3. CASE LockSecond(q) /\ m = Second(q)
    BY <2>3, Mugs DEF LockSecond, Holds, DiningTypeOK
  <2>4. CASE ~(LockFirst(q) /\ m = First(q)) /\ ~(LockSecond(q) /\ m = Second(q))
    <3>1. locked[m]
      BY <1>3, <2>4 DEF Phil, StumbleAround, NotDrunk, LockFirst, LockSecond, Drink, SetDown,
                        SetDownNext, DiningTypeOK
    <3>2. PICK p \in Philosophers : m \in Holds(p)
      BY <3>1 DEF LockedIsHeld
    <3>3. CASE p # q
      BY <2>1, <3>2, <3>3
    <3>4. CASE p = q
      <4>1. CASE LockSecond(q)
        BY <3>2, <3>4, <4>1, Mugs DEF LockSecond, Holds, DiningTypeOK
      <4>2. CASE Drink(q)
        BY <3>2, <3>4, <4>2 DEF Drink, Holds, DiningTypeOK
      <4>3. CASE SetDown(q)
        BY <3>2, <3>4, <4>3 DEF SetDown, Holds, DiningTypeOK
      <4>4. CASE SetDownNext(q)
        BY <3>2, <3>4, <4>4 DEF SetDownNext, Holds, DiningTypeOK
      <4>5. CASE StumbleAround(q) \/ NotDrunk(q) \/ LockFirst(q)
        BY <3>2, <3>4, <4>5 DEF StumbleAround, NotDrunk, LockFirst, Holds
      <4> QED BY <1>3, <4>1, <4>2, <4>3, <4>4, <4>5 DEF Phil
    <3> QED BY <3>3, <3>4
  <2> QED BY <2>2, <2>3, <2>4
<1> QED BY <1>1, <1>2, <1>3 DEF DiningNext

\* A chain of philosophers who wait for each other has at most three members.
LEMMA SomebodyMoves == DiningTypeOK /\ LockedIsHeld => NoDeadlock
<1> SUFFICES ASSUME DiningTypeOK, LockedIsHeld, \A p \in Philosophers : Waits(p)
             PROVE  FALSE
  BY DEF NoDeadlock
<1>1. \A p \in Philosophers : Holds(p) = IF pc[p] = "second" THEN {First(p)} ELSE {}
  BY DEF Waits, Holds
<1>2. ASSUME NEW p \in Philosophers, pc[p] = "second"
      PROVE  \E q \in Philosophers : pc[q] = "second" /\ First(q) = Second(p)
  <2>1. locked[Second(p)]
    BY <1>2 DEF Waits
  <2>2. PICK q \in Philosophers : Second(p) \in Holds(q)
    BY <2>1, Mugs DEF LockedIsHeld
  <2> QED BY <1>1, <2>2
<1>3. ASSUME NEW p \in Philosophers, pc[p] = "second"
      PROVE  Second(p) = 0
  <2>1. PICK q \in Philosophers : First(q) = Second(p)
    BY <1>2, <1>3
  <2>2. Second(p) % 2 = 0
    BY SecondMugs
  <2> QED BY <2>1, <2>2, FirstMugs
<1>4. \A p \in Philosophers : pc[p] # "second"
  <2> SUFFICES ASSUME NEW p \in Philosophers, pc[p] = "second" PROVE FALSE
    OBVIOUS
  <2>1. PICK q \in Philosophers : pc[q] = "second" /\ First(q) = Second(p)
    BY <1>2
  <2>2. First(q) = 0 /\ Second(q) = 0
    BY <1>3, <2>1
  <2> QED BY <2>2, Mugs
<1>5. 0 \in Philosophers
  BY DiningAssumption DEF Philosophers
<1>6. locked[First(0)]
  BY <1>4, <1>5 DEF Waits
<1>7. PICK q \in Philosophers : First(0) \in Holds(q)
  BY <1>5, <1>6, Mugs DEF LockedIsHeld
<1> QED BY <1>1, <1>4, <1>7

\* "It is impossible for there to be deadlock" (README.md), for any number of
\* philosophers, and from main's loop too.
THEOREM DeadlockImpossible == AnySpec => []NoDeadlock
<1>1. AnyInit => DiningTypeOK /\ LockedIsHeld /\ Unborn
  BY DiningTypeInit, HeldInit DEF AnyInit, Settled
<1>2. [AnyNext]_anyVars => [DiningNext]_diningVars
  BY DEF AnyNext, QueueStep, PoolStep, DiningStep, LineStep, anyVars
<1> QED BY <1>1, <1>2, DiningTypeStep, UnbornStep, HeldStep, SomebodyMoves, PTL DEF AnySpec

-----------------------------------------------------------------------------
(* After a settled start nobody loses a mug.                               *)

SettledInv == Settled => made = N /\ MugsAreExclusive

LEMMA ExclusiveStep ==
  ASSUME DiningTypeOK, MugsAreExclusive, NEW q \in Philosophers, Phil(q)
  PROVE  MugsAreExclusive'
<1>1. \A p \in Philosophers : p # q => Holds(p)' = Holds(p)
  BY DEF Phil, StumbleAround, NotDrunk, LockFirst, LockSecond, Drink, SetDown,
         SetDownNext, Holds, DiningTypeOK
<1>2. ASSUME NEW m \in Philosophers, ~locked[m], Holds(q)' = Holds(q) \cup {m},
             locked' = [locked EXCEPT ![m] = TRUE]
      PROVE  MugsAreExclusive'
  <2>1. \A p \in Philosophers : m \notin Holds(p)
    BY <1>2 DEF MugsAreExclusive
  <2>2. \A p \in Philosophers, r \in Philosophers : p # r => Holds(p)' \cap Holds(r)' = {}
    BY <1>1, <1>2, <2>1 DEF MugsAreExclusive
  <2>3. ASSUME NEW k \in Philosophers
        PROVE  locked'[k] <=> \E p \in Philosophers : k \in Holds(p)'
    <3>1. CASE k = m
      BY <1>2, <3>1 DEF DiningTypeOK
    <3>2. CASE k # m
      BY <1>1, <1>2, <3>2 DEF DiningTypeOK, MugsAreExclusive
    <3> QED BY <3>1, <3>2
  <2> QED BY <2>2, <2>3 DEF MugsAreExclusive
<1>3. ASSUME NEW m \in Philosophers, m \in Holds(q), Holds(q)' = Holds(q) \ {m},
             locked' = [locked EXCEPT ![m] = FALSE]
      PROVE  MugsAreExclusive'
  <2>1. \A p \in Philosophers : p # q => m \notin Holds(p)
    BY <1>3 DEF MugsAreExclusive
  <2>2. \A p \in Philosophers, r \in Philosophers : p # r => Holds(p)' \cap Holds(r)' = {}
    BY <1>1, <1>3 DEF MugsAreExclusive
  <2>3. ASSUME NEW k \in Philosophers
        PROVE  locked'[k] <=> \E p \in Philosophers : k \in Holds(p)'
    <3>1. CASE k = m
      BY <1>1, <1>3, <2>1, <3>1 DEF DiningTypeOK
    <3>2. CASE k # m
      BY <1>1, <1>3, <3>2 DEF DiningTypeOK, MugsAreExclusive
    <3> QED BY <3>1, <3>2
  <2> QED BY <2>2, <2>3 DEF MugsAreExclusive
<1>4. ASSUME Holds(q)' = Holds(q), locked' = locked
      PROVE  MugsAreExclusive'
  BY <1>1, <1>4 DEF MugsAreExclusive
<1>5. CASE StumbleAround(q) \/ NotDrunk(q) \/ Drink(q)
  <2>1. Holds(q)' = Holds(q) /\ locked' = locked
    BY <1>5 DEF StumbleAround, NotDrunk, Drink, Holds, DiningTypeOK
  <2> QED BY <1>4, <2>1
<1>6. CASE LockFirst(q)
  <2>1. Holds(q) = {} /\ Holds(q)' = {First(q)}
    BY <1>6 DEF LockFirst, Holds, DiningTypeOK
  <2> QED BY <1>2, <1>6, <2>1, Mugs DEF LockFirst
<1>7. CASE LockSecond(q)
  <2>1. Holds(q) = {First(q)} /\ Holds(q)' = {q, Right(q)}
    BY <1>7 DEF LockSecond, Holds, DiningTypeOK
  <2>2. Holds(q)' = Holds(q) \cup {Second(q)}
    BY <2>1, Mugs
  <2> QED BY <1>2, <1>7, <2>2, Mugs DEF LockSecond
<1>8. CASE SetDown(q)
  <2>1. Holds(q) = {q, Right(q)} /\ Holds(q)' = {Right(q)}
    BY <1>8 DEF SetDown, Holds, DiningTypeOK
  <2>2. Holds(q)' = Holds(q) \ {q} /\ q \in Holds(q)
    BY <2>1, RightOf
  <2> QED BY <1>3, <1>8, <2>2 DEF SetDown
<1>9. CASE SetDownNext(q)
  <2>1. Holds(q) = {Right(q)} /\ Holds(q)' = {}
    BY <1>9 DEF SetDownNext, Holds, DiningTypeOK
  <2> QED BY <1>3, <1>9, <2>1, RightOf DEF SetDownNext
<1> QED BY <1>5, <1>6, <1>7, <1>8, <1>9 DEF Phil

LEMMA SettledStart == AnyInit => SettledInv
  BY DEF AnyInit, Settled, SettledInit, SettledInv, MugsAreExclusive, Holds

LEMMA SettledStep == DiningTypeOK /\ SettledInv /\ [AnyNext]_anyVars => SettledInv'
<1> SUFFICES ASSUME DiningTypeOK, SettledInv, [AnyNext]_anyVars, Settled'
             PROVE  made' = N /\ MugsAreExclusive'
  BY DEF SettledInv
<1>1. made = N /\ MugsAreExclusive /\ main = "join"
  BY DEF SettledInv, AnyNext, QueueStep, PoolStep, DiningStep, LineStep, anyVars, Settled, DiningTypeOK
<1>2. CASE UNCHANGED diningVars
  BY <1>1, <1>2 DEF diningVars, MugsAreExclusive, Holds
<1>3. ASSUME NEW q \in Philosophers, Phil(q) PROVE made' = N /\ MugsAreExclusive'
  <2>1. made' = made
    BY <1>3 DEF Phil, StumbleAround, NotDrunk, LockFirst, LockSecond, Drink, SetDown, SetDownNext
  <2> QED BY <1>1, <1>3, <2>1, ExclusiveStep
<1>4. ~Main
  BY <1>1 DEF Main, MutexInit, Create, SetThirsty
<1> QED BY <1>2, <1>3, <1>4 DEF AnyNext, QueueStep, PoolStep, DiningStep, LineStep, anyVars, DiningNext

\* Whatever the number of philosophers, no mug is held by two of them, and no
\* mutex stays locked that nobody holds, when all of them were created before
\* anybody moved.
THEOREM MugsExclusive == AnySpec => []SettledMugsExclusive
<1>1. AnyInit => DiningTypeOK
  BY DiningTypeInit DEF AnyInit, Settled
<1>2. [AnyNext]_anyVars => [DiningNext]_diningVars
  BY DEF AnyNext, QueueStep, PoolStep, DiningStep, LineStep, anyVars
<1>3. SettledInv => SettledMugsExclusive
  BY DEF SettledInv, SettledMugsExclusive
<1> QED BY <1>1, <1>2, <1>3, DiningTypeStep, SettledStart, SettledStep, PTL DEF AnySpec

-----------------------------------------------------------------------------
(* The arithmetic of map.                                                  *)

LEMMA Sizes ==
  ASSUME start \in Nat, start < Rows - 1
  PROVE  /\ InputLen \in Nat \ {0}
         /\ NumWorkers \in Nat \ {0} /\ NumWorkers <= NumThreads
         /\ ItemsEach \in Nat
<1>1. Rows \in Nat /\ NumThreads \in Nat \ {0}
  BY MapReduceAssumption
<1>2. InputLen \in Nat \ {0}
  BY <1>1 DEF InputLen
<1>3. InputLen \div NumThreads \in Nat
  BY <1>1, <1>2
<1> QED BY <1>1, <1>2, <1>3 DEF NumWorkers, ItemsEach

LEMMA LineOf ==
  ASSUME start \in Nat, start < Rows - 1, NEW k \in 0..(InputLen - 1)
  PROVE  <<start, start + k + 1>> \in Line
<1>1. Rows \in Nat
  BY MapReduceAssumption
<1>2. start \in Points /\ start + k + 1 \in Points /\ start < start + k + 1
  BY <1>1 DEF Points, InputLen
<1> QED BY <1>2 DEF Line

\* No thread is given an item beyond the end of the array.
LEMMA WithinBounds ==
  ASSUME start \in Nat, start < Rows - 1, NEW t \in 0..(NumWorkers - 1)
  PROVE  UpperBound(t) \in Nat /\ UpperBound(t) <= InputLen
<1>1. /\ InputLen \in Nat \ {0} /\ NumWorkers \in Nat \ {0} /\ ItemsEach \in Nat
      /\ NumThreads \in Nat \ {0}
  BY Sizes, MapReduceAssumption
<1>2. t + 1 \in Nat /\ t + 1 <= NumWorkers
  BY <1>1
<1>3. NumWorkers * ItemsEach <= InputLen
  <2>1. CASE InputLen < NumThreads
    BY <1>1, <2>1 DEF NumWorkers, ItemsEach
  <2>2. CASE ~(InputLen < NumThreads)
    <3>1. NumThreads * (InputLen \div NumThreads) <= InputLen
      BY <1>1
    <3> QED BY <2>2, <3>1 DEF NumWorkers, ItemsEach
  <2> QED BY <2>1, <2>2
<1>4. \A a, b, c \in Nat : a <= b => a * c <= b * c
  OBVIOUS
<1>5. (t + 1) * ItemsEach <= NumWorkers * ItemsEach
  BY <1>1, <1>2, <1>4
<1>6. (t + 1) * ItemsEach \in Nat /\ NumWorkers * ItemsEach \in Nat
  BY <1>1, <1>2
<1> QED BY <1>1, <1>3, <1>5, <1>6 DEF UpperBound

-----------------------------------------------------------------------------
(* Types, and which row and which item the search has come to.             *)

LEMMA MapTypeInit == MapInit => MapTypeOK
  BY MapReduceAssumption DEF MapInit, MapTypeOK, MapThreads

\* In a call of map there is a row to compare with; the loops of map run over the
\* threads, that of l1_reg over the results.
Loops ==
  /\ stage \in {"create", "join", "reduce"} =>
       /\ start < Rows - 1
       /\ DOMAIN result = 0..(InputLen - 1)
  /\ stage \in {"create", "join"} => cursor < NumWorkers
  /\ stage = "reduce" => cursor < InputLen

\* What a thread writes is the line of its place.
Written ==
  stage \in {"create", "join", "reduce"} =>
    \A k \in DOMAIN result : result[k] \in {NoLine, <<start, start + k + 1>>}

\* A thread that is at work stays within the array, and only during a call of map;
\* one that is not created, or is joined, has nothing to do.
Working(t) == span[t].next < span[t].end

Spans ==
  \A t \in MapThreads : Working(t) =>
    /\ stage \in {"create", "join", "exit"}
    /\ start < Rows - 1
    /\ span[t].end <= InputLen
    /\ stage = "create" => t < cursor
    /\ stage = "join" => t >= cursor /\ t < NumWorkers

\* An item that has no result is before a thread, or still to be given to one.
Covered ==
  stage \in {"create", "join", "reduce"} =>
    \A k \in 0..(InputLen - 1) :
      \/ result[k] # NoLine
      \/ \E t \in MapThreads : k >= span[t].next /\ k < span[t].end
      \/ stage = "create" /\ k >= cursor * ItemsEach

\* The lines l1_reg has looked at, and the best of them.
Seen ==
  {l \in Line : l[1] < start \/ (stage = "reduce" /\ l[1] = start /\ l[2] <= start + cursor)}

BestSeen ==
  /\ stage \in {"row", "create", "join", "reduce"} =>
       IF Seen = {} THEN best = NoLine
       ELSE best \in Seen /\ \A l \in Seen : error[best] <= error[l]
  /\ stage = "done" /\ Line # {} =>
       best \in Line /\ \A l \in Line : error[best] <= error[l]

MapInv ==
  /\ MapTypeOK /\ stage # "crash"
  /\ Loops /\ Written /\ Spans /\ Covered /\ BestSeen

LEMMA MapInvInit == MapInit => MapInv
<1> SUFFICES ASSUME MapInit PROVE MapInv
  OBVIOUS
<1>1. MapTypeOK
  BY MapTypeInit
<1>2. Seen = {}
  BY DEF MapInit, Seen, Line, Points
<1> QED BY <1>1, <1>2 DEF MapInit, MapInv, Loops, Written, Spans, Working, Covered, BestSeen

-----------------------------------------------------------------------------
(* One step.                                                               *)

LEMMA CallMapStep == MapInv /\ CallMap => MapInv'
<1> SUFFICES ASSUME MapInv, CallMap PROVE MapInv'
  OBVIOUS
<1>1. /\ start \in Nat /\ start < Rows - 1 /\ start' = start /\ cursor' = 0 /\ span' = span
      /\ stage = "row" /\ stage' = "create"
      /\ result' = [k \in 0..(InputLen - 1) |-> NoLine]
  BY DEF CallMap, MapInv, MapTypeOK
<1>2. InputLen \in Nat \ {0} /\ NumWorkers \in Nat \ {0} /\ ItemsEach \in Nat
  BY <1>1, Sizes
<1>3. InputLen' = InputLen /\ NumWorkers' = NumWorkers /\ ItemsEach' = ItemsEach
  BY <1>1 DEF InputLen, NumWorkers, ItemsEach
<1>4. MapTypeOK'
  BY <1>1, <1>2 DEF CallMap, MapInv, MapTypeOK
<1>5. Loops' /\ Written'
  BY <1>1, <1>2, <1>3 DEF Loops, Written
<1>6. Spans'
  BY <1>1 DEF MapInv, Spans, Working
<1>7. Covered'
  BY <1>1, <1>2, <1>3 DEF Covered
<1>8. Seen' = Seen /\ best' = best /\ error' = error
  BY <1>1 DEF CallMap, Seen
<1>9. BestSeen'
  BY <1>1, <1>8 DEF MapInv, BestSeen
<1> QED BY <1>1, <1>4, <1>5, <1>6, <1>7, <1>9 DEF MapInv

LEMMA CreateThreadStep == MapInv /\ CreateThread => MapInv'
<1> SUFFICES ASSUME MapInv, CreateThread PROVE MapInv'
  OBVIOUS
<1>1. /\ start \in Nat /\ start < Rows - 1 /\ start' = start /\ result' = result
      /\ stage = "create" /\ stage' \in {"create", "join"}
      /\ cursor \in Nat /\ cursor < NumWorkers /\ DOMAIN result = 0..(InputLen - 1)
  BY DEF CreateThread, MapInv, MapTypeOK, Loops
<1>2. /\ InputLen \in Nat \ {0} /\ ItemsEach \in Nat
      /\ NumWorkers \in Nat \ {0} /\ NumWorkers <= NumThreads /\ NumThreads \in Nat
  BY <1>1, Sizes, MapReduceAssumption
<1>3. InputLen' = InputLen /\ NumWorkers' = NumWorkers /\ ItemsEach' = ItemsEach
  BY <1>1 DEF InputLen, NumWorkers, ItemsEach
<1>4. UpperBound(cursor) \in Nat /\ UpperBound(cursor) <= InputLen
  BY <1>1, <1>2, WithinBounds
<1>5. cursor \in MapThreads /\ cursor * ItemsEach \in Nat
  BY <1>1, <1>2 DEF MapThreads
<1>6. /\ span \in [MapThreads -> [next : Nat, end : Nat]]
      /\ span'[cursor] = [next |-> cursor * ItemsEach, end |-> UpperBound(cursor)]
      /\ \A t \in MapThreads \ {cursor} : span'[t] = span[t]
      /\ span' \in [MapThreads -> [next : Nat, end : Nat]]
  BY <1>4, <1>5 DEF CreateThread, MapInv, MapTypeOK
<1>7. \/ stage' = "create" /\ cursor' = cursor + 1 /\ cursor + 1 < NumWorkers
      \/ stage' = "join" /\ cursor' = 0 /\ cursor = NumWorkers - 1
  BY <1>1, <1>2 DEF CreateThread
<1>8. MapTypeOK'
  BY <1>1, <1>6, <1>7 DEF CreateThread, MapInv, MapTypeOK
<1>9. Loops'
  BY <1>1, <1>2, <1>3, <1>7 DEF Loops
<1>10. Written'
  BY <1>1 DEF MapInv, Written
<1>11. Spans'
  <2> SUFFICES ASSUME NEW t \in MapThreads, Working(t)'
               PROVE  /\ span'[t].end <= InputLen
                      /\ stage' = "create" => t < cursor'
                      /\ stage' = "join" => t >= cursor' /\ t < NumWorkers
    BY <1>1, <1>3 DEF Spans
  <2>1. t \in Nat
    BY <1>2 DEF MapThreads
  <2>2. CASE t = cursor
    BY <1>1, <1>2, <1>4, <1>6, <1>7, <2>1, <2>2
  <2>3. CASE t # cursor
    <3>1. Working(t)
      BY <1>6, <2>3 DEF Working
    <3>2. span[t].end <= InputLen /\ t < cursor
      BY <1>1, <3>1 DEF MapInv, Spans
    <3> QED BY <1>1, <1>2, <1>6, <1>7, <2>1, <2>3, <3>2
  <2> QED BY <2>2, <2>3
<1>12. Covered'
  <2> SUFFICES ASSUME NEW k \in 0..(InputLen - 1), result[k] = NoLine
               PROVE  \/ \E t \in MapThreads : k >= span'[t].next /\ k < span'[t].end
                      \/ stage' = "create" /\ k >= cursor' * ItemsEach
    BY <1>1, <1>3 DEF Covered
  <2>1. CASE \E t \in MapThreads : k >= span[t].next /\ k < span[t].end
    <3>1. PICK t \in MapThreads : k >= span[t].next /\ k < span[t].end
      BY <2>1
    <3>2. Working(t)
      BY <1>2, <1>6, <3>1 DEF Working
    <3>3. t < cursor
      BY <1>1, <3>2 DEF MapInv, Spans
    <3>4. t # cursor
      BY <1>1, <1>2, <3>3 DEF MapThreads
    <3> QED BY <1>6, <3>1, <3>4
  <2>2. CASE k >= cursor * ItemsEach
    <3>1. CASE k < UpperBound(cursor)
      BY <1>5, <1>6, <2>2, <3>1
    <3>2. CASE ~(k < UpperBound(cursor))
      <4>1. cursor # NumWorkers - 1
        BY <1>2, <1>4, <3>2 DEF UpperBound
      <4>2. k >= (cursor + 1) * ItemsEach
        BY <1>1, <1>2, <1>4, <3>2, <4>1 DEF UpperBound
      <4> QED BY <1>7, <4>1, <4>2
    <3> QED BY <3>1, <3>2
  <2> QED BY <1>1, <2>1, <2>2 DEF MapInv, Covered
<1>13. Seen' = Seen /\ best' = best /\ error' = error
  BY <1>1 DEF CreateThread, Seen
<1>14. BestSeen'
  BY <1>1, <1>13 DEF MapInv, BestSeen
<1> QED BY <1>1, <1>8, <1>9, <1>10, <1>11, <1>12, <1>14 DEF MapInv

LEMMA MapItemStep == ASSUME MapInv, NEW t \in MapThreads, MapItem(t) PROVE MapInv'
<1>1. /\ stage \in {"create", "join"} /\ stage' = stage /\ start \in Nat /\ start < Rows - 1
      /\ start' = start /\ cursor' = cursor /\ best' = best /\ error' = error
      /\ Working(t)
  BY DEF MapItem, MapInv, MapTypeOK, Spans, Working
<1> DEFINE k == span[t].next
<1>2. /\ InputLen \in Nat \ {0} /\ ItemsEach \in Nat /\ NumWorkers \in Nat \ {0}
  BY <1>1, Sizes
<1>3. InputLen' = InputLen /\ NumWorkers' = NumWorkers /\ ItemsEach' = ItemsEach
  BY <1>1 DEF InputLen, NumWorkers, ItemsEach
<1>4. /\ span \in [MapThreads -> [next : Nat, end : Nat]]
      /\ k \in 0..(InputLen - 1) /\ span[t].end <= InputLen
  BY <1>1, <1>2 DEF MapInv, MapTypeOK, Spans, Working
<1>5. /\ span'[t] = [next |-> k + 1, end |-> span[t].end]
      /\ \A s \in MapThreads \ {t} : span'[s] = span[s]
      /\ span' \in [MapThreads -> [next : Nat, end : Nat]]
  BY <1>4 DEF MapItem
<1>6. DOMAIN result = 0..(InputLen - 1)
  BY <1>1 DEF MapInv, Loops
<1>7. /\ DOMAIN result' = 0..(InputLen - 1)
      /\ result'[k] = <<start, start + k + 1>>
      /\ \A i \in 0..(InputLen - 1) : i # k => result'[i] = result[i]
  BY <1>4, <1>6 DEF MapItem
<1>8. <<start, start + k + 1>> \in Line /\ NoLine \notin Line
  BY <1>1, <1>4, LineOf, MapReduceAssumption
<1>9. MapTypeOK'
  BY <1>1, <1>5, <1>6, <1>7, <1>8 DEF MapInv, MapTypeOK
<1>10. Loops'
  BY <1>1, <1>3, <1>7 DEF MapInv, Loops
<1>11. Written'
  BY <1>1, <1>6, <1>7 DEF MapInv, Written
<1>12. Spans'
  <2> SUFFICES ASSUME NEW s \in MapThreads, Working(s)'
               PROVE  Working(s) /\ span'[s].end = span[s].end
    BY <1>1, <1>3 DEF MapInv, Spans
  <2> QED BY <1>1, <1>5 DEF Working
<1>13. Covered'
  <2> SUFFICES ASSUME NEW i \in 0..(InputLen - 1), result'[i] = NoLine
               PROVE  \/ \E s \in MapThreads : i >= span'[s].next /\ i < span'[s].end
                      \/ stage = "create" /\ i >= cursor * ItemsEach
    BY <1>1, <1>3 DEF Covered
  <2>1. i # k /\ result[i] = NoLine
    BY <1>7, <1>8
  <2>2. CASE \E s \in MapThreads : i >= span[s].next /\ i < span[s].end
    <3>1. PICK s \in MapThreads : i >= span[s].next /\ i < span[s].end
      BY <2>2
    <3>2. i >= span'[s].next /\ i < span'[s].end
      BY <1>2, <1>4, <1>5, <2>1, <3>1
    <3> QED BY <3>2
  <2> QED BY <1>1, <2>1, <2>2 DEF MapInv, Covered
<1>14. Seen' = Seen
  BY <1>1 DEF Seen
<1>15. BestSeen'
  BY <1>1, <1>14 DEF MapInv, BestSeen
<1> QED BY <1>1, <1>9, <1>10, <1>11, <1>12, <1>13, <1>15 DEF MapInv

LEMMA JoinThreadStep == MapInv /\ JoinThread => MapInv'
<1> SUFFICES ASSUME MapInv, JoinThread PROVE MapInv'
  OBVIOUS
<1>1. /\ start \in Nat /\ start < Rows - 1 /\ start' = start /\ result' = result
      /\ span' = span /\ best' = best /\ error' = error
      /\ stage = "join" /\ stage' \in {"join", "reduce"} /\ span[cursor].next = span[cursor].end
      /\ cursor \in Nat /\ cursor < NumWorkers /\ DOMAIN result = 0..(InputLen - 1)
  BY DEF JoinThread, MapInv, MapTypeOK, Loops
<1>2. /\ InputLen \in Nat \ {0} /\ ItemsEach \in Nat
      /\ NumWorkers \in Nat \ {0} /\ NumWorkers <= NumThreads /\ NumThreads \in Nat
  BY <1>1, Sizes, MapReduceAssumption
<1>3. InputLen' = InputLen /\ NumWorkers' = NumWorkers /\ ItemsEach' = ItemsEach
  BY <1>1 DEF InputLen, NumWorkers, ItemsEach
<1>4. \/ stage' = "join" /\ cursor' = cursor + 1 /\ cursor + 1 < NumWorkers
      \/ stage' = "reduce" /\ cursor' = 0 /\ cursor = NumWorkers - 1
  BY <1>1, <1>2 DEF JoinThread
<1>5. MapTypeOK'
  BY <1>1, <1>4 DEF MapInv, MapTypeOK
<1>6. Loops' /\ Written'
  BY <1>1, <1>2, <1>3, <1>4 DEF MapInv, Loops, Written
<1>7. ASSUME NEW t \in MapThreads, Working(t)
      PROVE  t \in Nat /\ t > cursor /\ t < NumWorkers /\ span[t].end <= InputLen
  <2>1. t \in Nat /\ t >= cursor /\ t < NumWorkers /\ span[t].end <= InputLen
    BY <1>1, <1>2, <1>7 DEF MapInv, Spans, MapThreads
  <2>2. span[t].next # span[t].end
    BY <1>7 DEF Working, MapInv, MapTypeOK
  <2> QED BY <1>1, <2>1, <2>2
<1>8. Spans'
  <2> SUFFICES ASSUME NEW t \in MapThreads, Working(t)
               PROVE  stage' = "join" /\ span[t].end <= InputLen /\ t >= cursor' /\ t < NumWorkers
    BY <1>1, <1>3 DEF Spans, Working
  <2> QED BY <1>1, <1>2, <1>4, <1>7
<1>9. Covered'
  BY <1>1, <1>3 DEF MapInv, Covered
<1>10. Seen' = Seen
  BY <1>1, <1>4 DEF Seen, Line, Points
<1>11. BestSeen'
  BY <1>1, <1>10 DEF MapInv, BestSeen
<1> QED BY <1>1, <1>5, <1>6, <1>8, <1>9, <1>11 DEF MapInv

\* When all threads are joined every place of the array has its result.
LEMMA AllComputed ==
  ASSUME MapInv, stage = "reduce"
  PROVE  \A k \in 0..(InputLen - 1) : result[k] = <<start, start + k + 1>>
<1>1. ASSUME NEW t \in MapThreads PROVE ~Working(t)
  BY DEF MapInv, Spans
<1>2. ASSUME NEW k \in 0..(InputLen - 1) PROVE result[k] # NoLine
  <2>1. start \in Nat /\ start < Rows - 1
    BY DEF MapInv, MapTypeOK, Loops
  <2>2. InputLen \in Nat
    BY <2>1, Sizes
  <2>3. ASSUME NEW t \in MapThreads, k >= span[t].next, k < span[t].end PROVE FALSE
    BY <1>1, <2>2, <2>3 DEF Working, MapInv, MapTypeOK
  <2> QED BY <2>3 DEF MapInv, Covered
<1> QED BY <1>2 DEF MapInv, Written, Loops

LEMMA ReduceItemStep == MapInv /\ ReduceItem => MapInv'
<1> SUFFICES ASSUME MapInv, ReduceItem PROVE MapInv'
  OBVIOUS
<1>1. /\ stage = "reduce" /\ start \in Nat /\ start < Rows - 1 /\ Rows \in Nat
      /\ cursor \in Nat /\ cursor < InputLen /\ DOMAIN result = 0..(InputLen - 1)
      /\ result' = result /\ span' = span /\ error' = error /\ error \in [Line -> Errors]
  BY MapReduceAssumption DEF ReduceItem, MapInv, MapTypeOK, Loops
<1>2. InputLen \in Nat \ {0} /\ InputLen = Rows - start - 1
  BY <1>1, Sizes DEF InputLen
<1> DEFINE line == <<start, start + cursor + 1>>
<1>3. result[cursor] = line /\ line \in Line /\ NoLine \notin Line
  BY <1>1, <1>2, AllComputed, LineOf, MapReduceAssumption
<1>4. best' = IF best = NoLine \/ error[line] < error[best] THEN line ELSE best
  BY <1>3 DEF ReduceItem
<1>5. \/ /\ cursor + 1 = InputLen
         /\ stage' = "row" /\ cursor' = 0 /\ start' = start + 1
      \/ /\ cursor + 1 # InputLen
         /\ stage' = "reduce" /\ cursor' = cursor + 1 /\ start' = start
  BY <1>1, <1>3 DEF ReduceItem
<1>6. best \in Line \cup {NoLine}
  BY DEF MapInv, MapTypeOK
<1>7. MapTypeOK'
  BY <1>1, <1>3, <1>4, <1>5, <1>6 DEF MapInv, MapTypeOK
<1>8. Loops' /\ Written'
  BY <1>1, <1>2, <1>5 DEF MapInv, Loops, Written, InputLen
<1>9. Spans'
  BY <1>1 DEF MapInv, Spans, Working
<1>10. Covered'
  <2>1. \A k \in 0..(InputLen - 1) : result[k] # NoLine
    BY <1>1, <1>3, AllComputed, LineOf
  <2> QED BY <1>1, <1>5, <2>1 DEF Covered, InputLen
<1>11. Seen' = Seen \cup {line}
  <2>1. ASSUME NEW l \in Line
        PROVE  /\ l[1] \in 0..(Rows - 1) /\ l[2] \in 0..(Rows - 1) /\ l[1] < l[2]
               /\ l = <<l[1], l[2]>>
    <3>1. PICK i \in Points, j \in Points : l = <<i, j>>
      BY DEF Line
    <3> QED BY <3>1 DEF Line, Points
  <2>2. \A l \in Line : l \in Seen' <=> l[1] < start \/ (l[1] = start /\ l[2] <= start + cursor + 1)
    <3>1. CASE cursor + 1 = InputLen
      <4>1. stage' = "row" /\ start' = start + 1 /\ start + cursor + 1 = Rows - 1
        BY <1>1, <1>2, <1>5, <3>1
      <4>2. \A l \in Line : l \in Seen' <=> l[1] < start + 1
        BY <4>1 DEF Seen
      <4>3. ASSUME NEW l \in Line PROVE l[1] \in Int /\ l[2] \in Int /\ l[2] <= Rows - 1
        <5>1. l[1] \in 0..(Rows - 1) /\ l[2] \in 0..(Rows - 1)
          BY <2>1
        <5> QED BY <1>1, <5>1
      <4> QED BY <1>1, <4>1, <4>2, <4>3
    <3>2. CASE cursor + 1 # InputLen
      <4>1. stage' = "reduce" /\ start' = start /\ cursor' = cursor + 1
        BY <1>5, <3>2
      <4>2. start' + cursor' = start + cursor + 1
        BY <1>1, <4>1
      <4> QED BY <4>1, <4>2 DEF Seen
    <3> QED BY <3>1, <3>2
  <2>3. \A l \in Line : l \in Seen <=> l[1] < start \/ (l[1] = start /\ l[2] <= start + cursor)
    BY <1>1 DEF Seen
  <2>4. \A l \in Line : l = line <=> l[1] = start /\ l[2] = start + cursor + 1
    BY <2>1
  <2>5. \A l \in Line : l \in Seen' <=> l \in Seen \/ l = line
    BY <1>1, <2>1, <2>2, <2>3, <2>4
  <2> QED BY <1>3, <2>5 DEF Seen
<1>12. BestSeen'
  <2>1. IF Seen = {} THEN best = NoLine
        ELSE best \in Seen /\ \A l \in Seen : error[best] <= error[l]
    BY <1>1 DEF MapInv, BestSeen
  <2>2. \A l \in Line : error[l] \in Int
    BY <1>1, MapReduceAssumption
  <2>3. Seen \subseteq Line
    BY DEF Seen
  <2>4. best' \in Seen' /\ \A l \in Seen' : error[best'] <= error[l]
    <3>1. CASE Seen = {}
      BY <1>3, <1>4, <1>11, <2>1, <2>2, <3>1
    <3>2. CASE Seen # {}
      BY <1>3, <1>4, <1>11, <2>1, <2>2, <2>3, <3>2
    <3> QED BY <3>1, <3>2
  <2> QED BY <1>1, <1>5, <1>11, <2>4 DEF BestSeen
<1> QED BY <1>1, <1>5, <1>7, <1>8, <1>9, <1>10, <1>12 DEF MapInv

\* The last row has no later one: all lines have been looked at.
LEMMA RowsEndStep == MapInv /\ RowsEnd => MapInv'
<1> SUFFICES ASSUME MapInv, RowsEnd PROVE MapInv'
  OBVIOUS
<1>1. /\ stage = "row" /\ stage' = "done" /\ start \in Nat /\ start >= Rows - 1 /\ Rows \in Nat
      /\ UNCHANGED <<error, start, cursor, span, result, best>>
  BY MapReduceAssumption DEF RowsEnd, MapInv, MapTypeOK
<1>2. MapTypeOK'
  BY <1>1 DEF MapInv, MapTypeOK
<1>3. Loops' /\ Written' /\ Covered'
  BY <1>1 DEF Loops, Written, Covered
<1>4. Spans'
  BY <1>1 DEF MapInv, Spans, Working
<1>5. Seen = Line
  BY <1>1 DEF Seen, Line, Points
<1>6. BestSeen'
  BY <1>1, <1>5 DEF MapInv, BestSeen
<1> QED BY <1>1, <1>2, <1>3, <1>4, <1>6 DEF MapInv

LEMMA CallFailsStep == MapInv /\ CallFails => MapInv'
<1> SUFFICES ASSUME MapInv, CallFails PROVE MapInv'
  OBVIOUS
<1>1. /\ stage' = "exit" /\ stage \in {"row", "create"}
      /\ UNCHANGED <<error, start, cursor, span, result, best>>
  BY DEF CallFails
<1>2. MapTypeOK'
  BY <1>1 DEF MapInv, MapTypeOK
<1>3. Loops' /\ Written' /\ Covered' /\ BestSeen'
  BY <1>1 DEF Loops, Written, Covered, BestSeen
<1>4. Spans'
  BY <1>1 DEF MapInv, Spans, Working, InputLen
<1> QED BY <1>1, <1>2, <1>3, <1>4 DEF MapInv

LEMMA MapInvStep == MapInv /\ [MapNext]_mapVars => MapInv'
<1> SUFFICES ASSUME MapInv, [MapNext]_mapVars PROVE MapInv'
  OBVIOUS
<1>1. CASE UNCHANGED mapVars
  <2>1. UNCHANGED <<error, stage, start, cursor, span, result, best>>
    BY <1>1 DEF mapVars
  <2>2. MapTypeOK' /\ Loops' /\ Written'
    BY <2>1 DEF MapInv, MapTypeOK, Loops, Written, InputLen, NumWorkers
  <2>3. Spans' /\ Covered'
    BY <2>1 DEF MapInv, Spans, Working, Covered, InputLen, NumWorkers, ItemsEach
  <2>4. BestSeen'
    BY <2>1 DEF MapInv, BestSeen, Seen
  <2> QED BY <2>1, <2>2, <2>3, <2>4 DEF MapInv
<1> QED BY <1>1, CallMapStep, CreateThreadStep, CallFailsStep, MapItemStep, JoinThreadStep,
           ReduceItemStep, RowsEndStep DEF MapNext

\* With any number of points and threads: at each point of the search, what the
\* threads have computed and what is left to them.
THEOREM MapInvariant == AnySpec => []MapInv
<1>1. [AnyNext]_anyVars => [MapNext]_mapVars
  BY DEF AnyNext, QueueStep, PoolStep, DiningStep, LineStep, anyVars
<1> QED BY <1>1, MapInvInit, MapInvStep, PTL DEF AnySpec, AnyInit

\* Whatever the errors and in whatever order the threads run, l1_reg reads no result
\* that was not computed and returns a line that no other is better than.
THEOREM BestLineFound == AnySpec => []BestLineIsFound
<1>1. MapInv => BestLineIsFound
  BY DEF MapInv, BestSeen, BestLineIsFound
<1> QED BY <1>1, MapInvariant, PTL
=============================================================================
