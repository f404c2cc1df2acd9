-------------------------- MODULE ConcurrentQueue --------------------------
(***************************************************************************)
(* ra::concurrency::queue (include/ra/queue.hpp): a bounded queue with one *)
(* mutex and a condition variable for each side.  A critical section is    *)
(* one step: it ends when the call returns, or when it waits.  A thread    *)
(* that was notified, or woke up by itself, takes the mutex again and      *)
(* looks at the condition again.                                           *)
(***************************************************************************)
EXTENDS Naturals, Sequences, FiniteSets

CONSTANTS
  Producers,  (* threads that call push                                    *)
  Consumers,  (* threads that call pop                                     *)
  MaxSize,    (* max_size_                                                 *)
  MaxCalls    (* bound on the calls of a thread                            *)

ASSUME QueueAssumption ==
  /\ Producers \cap Consumers = {}
  /\ IsFiniteSet(Producers) /\ IsFiniteSet(Consumers)
  /\ MaxSize \in Nat \ {0}
  /\ MaxCalls \in Nat

VARIABLES
  items,    (* items_: an item is the producer that pushed it              *)
  closed,   (* closed                                                      *)
  state,    (* of a thread: "idle", "locking" (wants the mutex), "waiting" *)
            (* (on the condition variable of its side)                     *)
  calls,    (* how many calls a thread has made                            *)
  answer    (* what its last call returned                                 *)

queueVars == <<items, closed, state, calls, answer>>

Threads == Producers \cup Consumers

WaitIsFull == {p \in Producers : state[p] = "waiting"}

WaitIsEmpty == {c \in Consumers : state[c] = "waiting"}

IsFull == Len(items) = MaxSize

QueueInit ==
  /\ items = <<>>
  /\ closed = FALSE
  /\ state = [t \in Threads |-> "idle"]
  /\ calls = [t \in Threads |-> 0]
  /\ answer = [t \in Threads |-> "none"]

\* A thread calls push or pop.
Begin(t) ==
  /\ state[t] = "idle"
  /\ calls[t] < MaxCalls
  /\ state' = [state EXCEPT ![t] = "locking"]
  /\ calls' = [calls EXCEPT ![t] = @ + 1]
  /\ UNCHANGED <<items, closed, answer>>

\* Mutant: the thread returns and notifies nobody.
ReturnNotifying_Nobody(t, waiters) ==
  state' = [state EXCEPT ![t] = "idle"]

\* The thread returns after notify_one: one of those that wait, if any, is to
\* take the mutex.
ReturnNotifying(t, waiters) ==
  IF waiters = {}
  THEN state' = [state EXCEPT ![t] = "idle"]
  ELSE \E w \in waiters : state' = [state EXCEPT ![t] = "idle", ![w] = "locking"]

Wait(t) ==
  /\ state' = [state EXCEPT ![t] = "waiting"]
  /\ UNCHANGED <<items, closed, calls, answer>>

\* What both calls do when the queue is closed for them.
ReturnClosed(t) ==
  /\ state' = [state EXCEPT ![t] = "idle"]
  /\ answer' = [answer EXCEPT ![t] = "closed"]
  /\ UNCHANGED <<items, closed, calls>>

PushItem(p) ==
  /\ state[p] = "locking"
  /\ \/ /\ IsFull /\ ~closed
        /\ Wait(p)
     \/ /\ closed
        /\ ReturnClosed(p)
     \/ /\ ~IsFull /\ ~closed
        /\ items' = Append(items, p)
        /\ ReturnNotifying(p, WaitIsEmpty)
        /\ answer' = [answer EXCEPT ![p] = "success"]
        /\ UNCHANGED <<closed, calls>>

PopItem(c) ==
  /\ state[c] = "locking"
  /\ \/ /\ items = <<>> /\ ~closed
        /\ Wait(c)
     \/ /\ items = <<>> /\ closed
        /\ ReturnClosed(c)
     \/ /\ items # <<>>
        /\ items' = Tail(items)
        /\ ReturnNotifying(c, WaitIsFull)
        /\ answer' = [answer EXCEPT ![c] = "success"]
        /\ UNCHANGED <<closed, calls>>

\* condition_variable::wait may return without a notification.
ThreadWakesUp(t) ==
  /\ state[t] = "waiting"
  /\ state' = [state EXCEPT ![t] = "locking"]
  /\ UNCHANGED <<items, closed, calls, answer>>

\* close and clear notify nobody.
Close ==
  /\ closed' = TRUE
  /\ UNCHANGED <<items, state, calls, answer>>

Clear ==
  /\ items' = <<>>
  /\ UNCHANGED <<closed, state, calls, answer>>

\* push and pop.
Use ==
  \/ \E t \in Threads : Begin(t) \/ ThreadWakesUp(t)
  \/ \E p \in Producers : PushItem(p)
  \/ \E c \in Consumers : PopItem(c)

QueueNext == Use \/ Close \/ Clear

QueueSpec == QueueInit /\ [][QueueNext]_queueVars

\* A queue that is neither closed nor cleared, as in thread_pool.
UseSpec == QueueInit /\ [][Use]_queueVars

\* Threads that want the mutex get it, and go on calling.  Nobody counts on a
\* wake-up that nobody asked for.
QueueFairness ==
  /\ \A t \in Threads : WF_queueVars(Begin(t))
  /\ \A p \in Producers : WF_queueVars(PushItem(p))
  /\ \A c \in Consumers : WF_queueVars(PopItem(c))

-----------------------------------------------------------------------------
QueueTypeOK ==
  /\ items \in Seq(Producers)
  /\ Len(items) <= MaxSize
  /\ closed \in BOOLEAN
  /\ state \in [Threads -> {"idle", "locking", "waiting"}]
  /\ calls \in [Threads -> 0..MaxCalls]
  /\ answer \in [Threads -> {"none", "success", "closed"}]

WantMutex(S) == {t \in S : state[t] = "locking"}

\* No wake-up of a consumer is lost: while one waits, there are as many others
\* on their way to the mutex as there are items.
NoLostItem == WaitIsEmpty # {} => Len(items) <= Cardinality(WantMutex(Consumers))

\* No wake-up of a producer is lost: while one waits, there are as many others
\* on their way to the mutex as there are free places.
NoLostPlace ==
  WaitIsFull # {} => MaxSize - Len(items) <= Cardinality(WantMutex(Producers))

\* When as many items are popped as are pushed, every call returns: nobody waits
\* for ever.
EveryCallReturns ==
  <>[](\A t \in Threads : state[t] = "idle" /\ calls[t] = MaxCalls)
=============================================================================
