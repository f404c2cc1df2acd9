----------------------------- MODULE MCThreads -----------------------------
(* The programs that have threads, side by side: the queue with two        *)
(* producers and two consumers, which may be closed and cleared or stays   *)
(* open, as in thread_pool; the pool with two workers and a polite program *)
(* or any other; the philosophers, from main's start or from when          *)
(* everybody is created; and the search for a line.                        *)
EXTENDS ConcurrentQueue, ThreadPool, Dining, MapReduce

VARIABLE program

Open == program = "open queue"
Polite == program = "polite pool"
Settled == program = "settled dinner"

Queues == {"queue", "open queue"}
Pools == {"pool", "polite pool"}
Dinners == {"dinner", "settled dinner"}

AnyInit ==
  /\ program \in Queues \cup Pools \cup Dinners \cup {"line"}
  /\ QueueInit
  /\ Init
  /\ IF Settled THEN SettledInit ELSE DiningInit
  /\ MapInit
  /\ program # "line" => error = CHOOSE e \in [Line -> Errors] : TRUE

QueueStep ==
  /\ program \in Queues
  /\ QueueNext
  /\ Open => Use
  /\ UNCHANGED <<program, vars, diningVars, mapVars>>

PoolStep ==
  /\ program \in Pools
  /\ Next
  /\ Polite => PoliteStep
  /\ UNCHANGED <<program, queueVars, diningVars, mapVars>>

DiningStep ==
  /\ program \in Dinners
  /\ DiningNext
  /\ UNCHANGED <<program, queueVars, vars, mapVars>>

LineStep ==
  /\ program = "line"
  /\ MapNext
  /\ UNCHANGED <<program, queueVars, vars, diningVars>>

AnyNext == QueueStep \/ PoolStep \/ DiningStep \/ LineStep

anyVars == <<program, queueVars, vars, diningVars, mapVars>>

AnySpec ==
  /\ AnyInit
  /\ [][AnyNext]_anyVars
  /\ program \in Queues => QueueFairness
  /\ program \in Pools => Fairness
  /\ program \in Dinners => DiningFairness

\* and as many pops as pushes all return.
OpenCallsReturn == Open => EveryCallReturns

\* With a polite program shutdown returns when all is done,
PoliteShutdownIsDone == Polite => ShutdownMeansDone

\* it does return,
PoliteShutdownReturns == Polite => ShutdownReturns

\* and every task was executed that schedule did not refuse.
PoliteTasksRun == Polite => EveryTaskRuns

\* Once everybody is created before anybody moves, no mug is held twice.
SettledMugsExclusive == Settled => MugsAreExclusive

\* The dinner goes on for ever, from either start: whoever is overtaken, again and
\* again some philosopher drinks.
DinnerGoesOn == program \in Dinners => SomebodyDrinks
=============================================================================
