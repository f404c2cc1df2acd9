------------------------------- MODULE Dining -------------------------------
(***************************************************************************)
(* dining-philosophers/diningOut.c: N threads and N mutexes, the mugs.     *)
(* Philosopher p drinks with mugs p and p + 1; an even philosopher locks   *)
(* p + 1 first, an odd one p.                                              *)
(*                                                                         *)
(* main initialises a mutex and creates the philosopher with its number in *)
(* one loop, so that the first philosophers run while later mutexes are    *)
(* still to be initialised.  A static mutex is all zeros and can be locked *)
(* before it is initialised; to initialise it then leaves it unlocked,     *)
(* whoever holds it.  Nobody waits for it at that time: of the two who use *)
(* mug i only philosopher i - 1 exists.                                    *)
(*                                                                         *)
(* The counts of stats only decide how long stumble_around sleeps, and     *)
(* time is not modelled.                                                   *)
(***************************************************************************)
EXTENDS Integers

CONSTANT N  (* MAX_PHILOSOPHERS *)

\* With one philosopher both of its mugs would be the same mutex.
ASSUME DiningAssumption == N \in Nat \ {0, 1}

VARIABLES
  made,    (* philosophers that main has created                            *)
  main,    (* what main does next for philosopher `made'                    *)
  locked,  (* the mutexes                                                   *)
  pc,      (* where each philosopher is                                     *)
  states   (* whether it has to stumble around before it drinks again       *)

diningVars == <<made, main, locked, pc, states>>

Philosophers == 0..(N - 1)

Right(p) == (p + 1) % N

\* Mutant: everybody takes the mug with its own number first.
First_SameSide(p) == p

\* The mug that grab_mug locks first, and the other one.
First(p) == IF p % 2 = 0 THEN Right(p) ELSE p
Second(p) == IF p % 2 = 0 THEN p ELSE Right(p)

\* The mugs that a philosopher has locked and not yet unlocked.
Holds(p) ==
  CASE pc[p] = "second" -> {First(p)}
    [] pc[p] \in {"drinking", "down"} -> {p, Right(p)}
    [] pc[p] = "down_next" -> {Right(p)}
    [] OTHER -> {}

-----------------------------------------------------------------------------
DiningInit ==
  /\ made = 0
  /\ main = "mutex"
  /\ locked = [m \in Philosophers |-> FALSE]
  /\ pc = [p \in Philosophers |-> "none"]
  /\ states = [p \in Philosophers |-> "thirsty"]

\* Everybody is created and nobody has moved.
SettledInit ==
  /\ made = N
  /\ main = "join"
  /\ locked = [m \in Philosophers |-> FALSE]
  /\ pc = [p \in Philosophers |-> "loop"]
  /\ states = [p \in Philosophers |-> "thirsty"]

MutexInit ==
  /\ main = "mutex"
  /\ locked' = [locked EXCEPT ![made] = FALSE]
  /\ main' = "create"
  /\ UNCHANGED <<made, pc, states>>

Create ==
  /\ main = "create"
  /\ pc' = [pc EXCEPT ![made] = "loop"]
  /\ main' = "thirsty"
  /\ UNCHANGED <<made, locked, states>>

\* The new philosopher may have drunk already.
SetThirsty ==
  /\ main = "thirsty"
  /\ states' = [states EXCEPT ![made] = "thirsty"]
  /\ made' = made + 1
  /\ main' = IF made + 1 = N THEN "join" ELSE "mutex"
  /\ UNCHANGED <<locked, pc>>

-----------------------------------------------------------------------------
\* Mutant: a philosopher that was drunk starts the loop over, still drunk.
StumbleAround_StaysDrunk(p) ==
  /\ pc[p] = "loop"
  /\ states[p] = "drunk"
  /\ UNCHANGED diningVars

StumbleAround(p) ==
  /\ pc[p] = "loop"
  /\ states[p] = "drunk"
  /\ states' = [states EXCEPT ![p] = "thirsty"]
  /\ pc' = [pc EXCEPT ![p] = "first"]
  /\ UNCHANGED <<made, main, locked>>

NotDrunk(p) ==
  /\ pc[p] = "loop"
  /\ states[p] = "thirsty"
  /\ pc' = [pc EXCEPT ![p] = "first"]
  /\ UNCHANGED <<made, main, locked, states>>

LockFirst(p) ==
  /\ pc[p] = "first"
  /\ ~locked[First(p)]
  /\ locked' = [locked EXCEPT ![First(p)] = TRUE]
  /\ pc' = [pc EXCEPT ![p] = "second"]
  /\ UNCHANGED <<made, main, states>>

\* Mutant: the second mug is not waited for.
LockSecond_NotWaited(p) ==
  /\ pc[p] = "second"
  /\ locked' = [locked EXCEPT ![Second(p)] = TRUE]
  /\ pc' = [pc EXCEPT ![p] = "drinking"]
  /\ UNCHANGED <<made, main, states>>

LockSecond(p) ==
  /\ pc[p] = "second"
  /\ ~locked[Second(p)]
  /\ locked' = [locked EXCEPT ![Second(p)] = TRUE]
  /\ pc' = [pc EXCEPT ![p] = "drinking"]
  /\ UNCHANGED <<made, main, states>>

Drink(p) ==
  /\ pc[p] = "drinking"
  /\ states' = [states EXCEPT ![p] = "drunk"]
  /\ pc' = [pc EXCEPT ![p] = "down"]
  /\ UNCHANGED <<made, main, locked>>

SetDown(p) ==
  /\ pc[p] = "down"
  /\ locked' = [locked EXCEPT ![p] = FALSE]
  /\ pc' = [pc EXCEPT ![p] = "down_next"]
  /\ UNCHANGED <<made, main, states>>

\* Mutant: the left neighbour's mug instead of the right one's.
SetDownNext_OtherSide(p) ==
  /\ pc[p] = "down_next"
  /\ locked' = [locked EXCEPT ![(p + N - 1) % N] = FALSE]
  /\ pc' = [pc EXCEPT ![p] = "loop"]
  /\ UNCHANGED <<made, main, states>>

SetDownNext(p) ==
  /\ pc[p] = "down_next"
  /\ locked' = [locked EXCEPT ![Right(p)] = FALSE]
  /\ pc' = [pc EXCEPT ![p] = "loop"]
  /\ UNCHANGED <<made, main, states>>

Main == MutexInit \/ Create \/ SetThirsty

Phil(p) ==
  \/ StumbleAround(p) \/ NotDrunk(p)
  \/ LockFirst(p) \/ LockSecond(p)
  \/ Drink(p) \/ SetDown(p) \/ SetDownNext(p)

DiningNext == Main \/ \E p \in Philosophers : Phil(p)

\* A thread that can run, and that nothing stops any more, does so in the end.  A
\* waiter may find its mutex taken by another whenever it looks.
DiningFairness ==
  /\ WF_diningVars(Main)
  /\ \A p \in Philosophers : WF_diningVars(Phil(p))

DiningSpec == DiningInit /\ [][DiningNext]_diningVars

\* Behaviours after a start in which main was done before anybody moved.
SettledSpec == SettledInit /\ [][DiningNext]_diningVars

-----------------------------------------------------------------------------
(* Every variable has its type, and main is done when all are made.        *)
DiningTypeOK ==
  /\ made \in 0..N
  /\ main \in {"mutex", "create", "thirsty", "join"}
  /\ main = "join" <=> made = N
  /\ locked \in [Philosophers -> BOOLEAN]
  /\ pc \in [Philosophers -> {"none", "loop", "first", "second", "drinking",
                              "down", "down_next"}]
  /\ states \in [Philosophers -> {"thirsty", "drunk"}]

\* No two philosophers hold the same mug (the mutexes of grab_mug), and the
\* mutex of a mug is locked exactly while somebody holds it.
MugsAreExclusive ==
  /\ \A p \in Philosophers, q \in Philosophers : p # q => Holds(p) \cap Holds(q) = {}
  /\ \A m \in Philosophers : locked[m] <=> \E p \in Philosophers : m \in Holds(p)

\* Waiting for a mug that is taken.
Waits(p) ==
  \/ pc[p] = "first" /\ locked[First(p)]
  \/ pc[p] = "second" /\ locked[Second(p)]

\* "It is impossible for there to be deadlock" (README.md): the philosophers
\* are never all waiting.
NoDeadlock == ~ \A p \in Philosophers : Waits(p)

\* The dinner goes on for ever: whoever is overtaken, again and again somebody
\* drinks.
SomebodyDrinks == []<>(\E p \in Philosophers : pc[p] = "drinking")
=============================================================================
