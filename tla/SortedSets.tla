----------------------------- MODULE SortedSets -----------------------------
(***************************************************************************)
(* What sv_set promises: each object is a set of keys, seen in ascending   *)
(* order.  The answer of a call is a position, and whether a key was       *)
(* inserted.  Two failures cost keys.  A copy assignment may lose what its *)
(* target held, and with it the use of the target; destroying such a       *)
(* target may cost another object its keys.  And an insertion may lose the *)
(* last key, with a key that was moved from where the new one should be.   *)
(***************************************************************************)
EXTENDS Naturals, FiniteSets, Sequences, SequencesExt

CONSTANTS Names, Keys, Absent, Lost, Moved

VARIABLES sets, answer

vars == <<sets, answer>>

Silent == <<0, FALSE>>

\* The keys of S in ascending order, and the place of k among them.
Ordered(S) ==
  CHOOSE s \in [1..Cardinality(S) -> S] : \A i, j \in DOMAIN s : i < j => s[i] < s[j]
Position(S, k) == 1 + Cardinality({j \in S : j < k})

Present(n) == sets[n] \notin {Absent, Lost}
Whole(n) == Present(n) /\ Moved \notin ToSet(sets[n])

Init == sets = [n \in Names |-> Absent] /\ answer = Silent

\* A new object, or an old one with other keys: those given, or those of another.
Construct(n) ==
  /\ sets[n] = Absent
  /\ \/ \E S \in SUBSET Keys : sets' = [sets EXCEPT ![n] = Ordered(S)]
     \/ \E m \in Names : Present(m) /\ sets' = [sets EXCEPT ![n] = sets[m]]
     \/ \E m \in Names : Present(m) /\ sets' = [sets EXCEPT ![n] = sets[m], ![m] = <<>>]
  /\ answer' = Silent

Assign(n, m) ==
  /\ n # m /\ Present(n) /\ Present(m)
  /\ sets' \in {[sets EXCEPT ![n] = sets[m]], [sets EXCEPT ![n] = sets[m], ![m] = <<>>],
                [sets EXCEPT ![n] = <<>>], [sets EXCEPT ![n] = Lost],
                [sets EXCEPT ![n] = sets[m], ![m] = sets[n]]}
  /\ answer' = Silent

Insert(n, k) ==
  LET S == ToSet(sets[n])
  IN /\ Whole(n)
     /\ sets' = [sets EXCEPT ![n] = Ordered(S \cup {k})]
     /\ answer' = <<Position(S, k), k \notin S>>

\* An insertion that fails when the larger keys have made room.
Spoil(n, k) ==
  LET S == ToSet(sets[n])
  IN /\ Whole(n) /\ k \notin S
     /\ Position(S, k) <= Len(sets[n])
     /\ sets' = [sets EXCEPT ![n] = InsertAt(Front(@), Position(S, k), Moved)]
     /\ answer' = Silent

\* A moved-from key can be erased like any other.
Erase(n) ==
  /\ Present(n)
  /\ \E i \in DOMAIN sets[n] :
       sets' = [sets EXCEPT ![n] = RemoveAt(@, i)] /\ answer' = <<i, FALSE>>

Find(n, k) ==
  LET S == ToSet(sets[n])
  IN /\ Whole(n)
     /\ answer' = <<IF k \in S THEN Position(S, k) ELSE Cardinality(S) + 1, FALSE>>
     /\ UNCHANGED sets

Clear(n) == Present(n) /\ sets' = [sets EXCEPT ![n] = <<>>] /\ answer' = Silent

Destroy(n) ==
  /\ sets[n] # Absent
  /\ answer' = Silent
  /\ \/ sets' = [sets EXCEPT ![n] = Absent]
     \/ /\ sets[n] = Lost
        /\ \E m \in Names \ {n} : sets' = [sets EXCEPT ![n] = Absent, ![m] = Lost]

\* A call that finds nothing to do, or no memory for it.
Nothing == answer' = Silent /\ UNCHANGED sets

Next ==
  \/ \E n \in Names :
       \/ Construct(n) \/ Clear(n) \/ Destroy(n) \/ Erase(n)
       \/ \E m \in Names : Assign(n, m)
       \/ \E k \in Keys : Insert(n, k) \/ Spoil(n, k) \/ Find(n, k)
  \/ Nothing

Spec == Init /\ [][Next]_vars
=============================================================================
