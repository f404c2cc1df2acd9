------------------------------- MODULE SvSet --------------------------------
(***************************************************************************)
(* advanced-cpp/containers: sv_set, a set kept in ascending order in one   *)
(* buffer of memory.  An object has the buffer's address and how much of   *)
(* it is in use and how much there is (finish_ and end_, counted from      *)
(* start_).  operator new may fail in every call that needs it, and so may *)
(* every copy of a key; moving and comparing keys does not fail.           *)
(***************************************************************************)
EXTENDS Naturals, FiniteSets, Sequences, SequencesExt

CONSTANTS
  Names,         (* the objects                                            *)
  Keys,
  Buffers,       (* the memory that operator new may return                *)
  Nowhere,       (* nullptr                                                *)
  Absent, Lost,  (* no object; an object without the use of its memory     *)
  Raw,           (* memory without a key                                   *)
  Moved, Spilt,  (* a key another was moved from; one behind finish_, which
                    nothing destroys                                       *)
  MaxCapacity    (* bound on what reserve is asked for                     *)

ASSUME SetAssumption ==
  /\ Nowhere \notin Buffers
  /\ Moved \notin {Raw, Spilt} /\ Keys \cap {Raw, Moved, Spilt} = {}
  /\ Absent \notin Seq(Keys \cup {Raw, Moved, Spilt})
  /\ Absent \notin [start : Buffers \cup {Nowhere}, finish : Nat, end : Nat]
  /\ Lost \notin Seq(Keys \cup {Moved}) /\ Lost # Absent
  /\ Keys \subseteq Nat /\ IsFiniteSet(Keys)
  /\ MaxCapacity \in Nat

VARIABLES
  objects,  (* Absent, or [start, finish, end]                             *)
  memory,   (* what a buffer holds, or Absent                              *)
  torn,     (* the objects whose start_ a failed assignment left dangling  *)
  answer,   (* the iterator a call returns, as a position, and the bool    *)
  crashed

setVars == <<objects, memory, torn, answer, crashed>>

Silent == <<0, FALSE>>
Empty == [start |-> Nowhere, finish |-> 0, end |-> 0]
Usable(n) == objects[n] # Absent /\ n \notin torn /\ ~crashed

Content(o) == IF o.start = Nowhere THEN <<>> ELSE SubSeq(memory[o.start], 1, o.finish)
Whole(n) == Usable(n) /\ Moved \notin ToSet(Content(objects[n]))

\* A buffer of that capacity with those keys.
Filled(keys, capacity) == keys \o [i \in 1..(capacity - Len(keys)) |-> Raw]

\* The buffer of o with other keys: what it used before is raw, the rest as it was.
Refilled(o, keys) ==
  [i \in 1..o.end |-> IF i <= Len(keys) THEN keys[i]
                      ELSE IF i <= o.finish THEN Raw
                      ELSE memory[o.start][i]]

\* The keys of S in ascending order.
Ascending(S) ==
  CHOOSE s \in [1..Cardinality(S) -> S] : \A i, j \in DOMAIN s : i < j => s[i] < s[j]

\* operator delete, of nullptr too.
Delete(mem, b) == [c \in Buffers |-> IF c = b THEN Absent ELSE mem[c]]
FreeIn(mem) == {b \in Buffers : mem[b] = Absent}

SetInit ==
  /\ objects = [n \in Names |-> Absent]
  /\ memory = [b \in Buffers |-> Absent]
  /\ torn = {} /\ answer = Silent /\ crashed = FALSE

\* The buffer of n, if there is one, is replaced by a new one with these keys.
Reallocate(n, keys, size, capacity) ==
  \E b \in FreeIn(memory) :
    /\ memory' = Delete([memory EXCEPT ![b] = Filled(keys, capacity)],
                        IF objects[n] = Absent THEN Nowhere ELSE objects[n].start)
    /\ objects' = [objects EXCEPT ![n] = [start |-> b, finish |-> size, end |-> capacity]]

\* An exception, after which everything is as before.
Fails ==
  /\ answer' = Silent
  /\ UNCHANGED <<objects, memory, torn, crashed>>

-----------------------------------------------------------------------------
(* Constructors, assignments and the destructor.                           *)

Construct(n) ==
  /\ objects[n] = Absent /\ ~crashed
  /\ objects' = [objects EXCEPT ![n] = Empty]
  /\ answer' = Silent
  /\ UNCHANGED <<memory, torn, crashed>>

OrderedConstruct(n, S) ==
  /\ objects[n] = Absent /\ ~crashed
  /\ \/ /\ Reallocate(n, Ascending(S), Cardinality(S), Cardinality(S))
        /\ answer' = Silent
        /\ UNCHANGED <<torn, crashed>>
     \/ Fails

CopyConstruct(n, m) ==
  /\ objects[n] = Absent /\ Usable(m)
  /\ \/ /\ Reallocate(n, Content(objects[m]), objects[m].finish, objects[m].end)
        /\ answer' = Silent
        /\ UNCHANGED <<torn, crashed>>
     \/ Fails

MoveConstruct(n, m) ==
  /\ objects[n] = Absent /\ Usable(m)
  /\ objects' = [objects EXCEPT ![n] = objects[m], ![m] = Empty]
  /\ answer' = Silent
  /\ UNCHANGED <<memory, torn, crashed>>

MoveAssign(n, m) ==
  /\ n # m /\ Usable(n) /\ Usable(m)
  /\ memory' = Delete(memory, objects[n].start)
  /\ objects' = [objects EXCEPT ![n] = objects[m], ![m] = Empty]
  /\ answer' = Silent
  /\ UNCHANGED <<torn, crashed>>

\* Mutant: the keys are destroyed, their buffer stays where it is.
CopyAssign_OldKept(n, m) ==
  /\ n # m /\ Usable(n) /\ Usable(m)
  /\ answer' = Silent
  /\ \E b \in FreeIn(memory) :
       /\ memory' = [memory EXCEPT ![b] = Filled(Content(objects[m]), objects[m].end)]
       /\ objects' = [objects EXCEPT ![n] = [objects[m] EXCEPT !.start = b]]
  /\ UNCHANGED <<torn, crashed>>

\* The old buffer is gone before the new one is there: if it does not come, or the keys
\* cannot be copied into it, start_ points to a buffer that is deleted.
CopyAssign(n, m) ==
  /\ n # m /\ Usable(n) /\ Usable(m)
  /\ answer' = Silent /\ UNCHANGED crashed
  /\ LET old == objects[n].start
         freed == Delete(memory, old)
     IN \/ /\ \E b \in FreeIn(freed) :
                /\ memory' = [freed EXCEPT ![b] = Filled(Content(objects[m]), objects[m].end)]
                /\ objects' = [objects EXCEPT ![n] = [objects[m] EXCEPT !.start = b]]
           /\ UNCHANGED torn
        \/ /\ memory' = freed
           /\ objects' = [objects EXCEPT ![n].finish = 0]
           /\ torn' = IF old = Nowhere THEN torn ELSE torn \cup {n}
        \/ /\ Content(objects[m]) # <<>>
           /\ memory' = freed
           /\ \E b \in FreeIn(freed) : objects' = [objects EXCEPT ![n].start = b]
           /\ torn' = torn \cup {n}

SwapWith(n, m) ==
  /\ Usable(n) /\ Usable(m)
  /\ objects' = [objects EXCEPT ![n] = objects[m], ![m] = objects[n]]
  /\ answer' = Silent
  /\ UNCHANGED <<memory, torn, crashed>>

Destruct(n) ==
  /\ Usable(n)
  /\ memory' = Delete(memory, objects[n].start)
  /\ objects' = [objects EXCEPT ![n] = Absent]
  /\ answer' = Silent
  /\ UNCHANGED <<torn, crashed>>

\* The buffer is deleted once more.  If it belongs to another object by now, that one
\* loses it.  Nothing else is done to a torn object here.
DestructTorn(n) ==
  /\ n \in torn /\ ~crashed
  /\ answer' = Silent
  /\ \/ crashed' = TRUE /\ UNCHANGED <<objects, memory, torn>>
     \/ /\ memory[objects[n].start] # Absent
        /\ memory' = Delete(memory, objects[n].start)
        /\ objects' = [objects EXCEPT ![n] = Absent]
        /\ torn' = {m \in Names \ {n} :
                     m \in torn \/ (objects[m] # Absent /\ objects[m].start = objects[n].start)}
        /\ UNCHANGED crashed

-----------------------------------------------------------------------------
(* Capacity and keys.                                                      *)

Reserve(n, capacity) ==
  /\ Usable(n) /\ objects[n].end < capacity
  /\ \/ /\ Reallocate(n, Content(objects[n]), objects[n].finish, capacity)
        /\ answer' = Silent
        /\ UNCHANGED <<torn, crashed>>
     \/ Fails

ShrinkToFit(n) ==
  /\ Usable(n) /\ objects[n].end > objects[n].finish
  /\ \/ /\ Reallocate(n, Content(objects[n]), objects[n].finish, objects[n].finish)
        /\ answer' = Silent
        /\ UNCHANGED <<torn, crashed>>
     \/ Fails

\* Mutant: the upper half begins with the middle, the lower half ends before it.
SearchSet_OneShort(keys, k) ==
  LET from[range \in (1 .. Len(keys) + 1) \X (0..Len(keys))] ==
        LET left == range[1]
            right == range[2]
            middle == left + (right - left) \div 2
        IN IF left >= right THEN Len(keys) + 1
           ELSE IF keys[middle] = k THEN middle
           ELSE IF keys[middle] < k THEN from[<<middle + 1, right>>] ELSE from[<<left, middle - 1>>]
  IN from[<<1, Len(keys)>>]

\* The position of k, or the end.
SearchSet(keys, k) ==
  LET from[range \in (1 .. Len(keys) + 1) \X (0..Len(keys))] ==
        LET left == range[1]
            right == range[2]
            middle == left + (right - left) \div 2
        IN IF left > right THEN Len(keys) + 1
           ELSE IF keys[middle] = k THEN middle
           ELSE IF keys[middle] < k THEN from[<<middle + 1, right>>] ELSE from[<<left, middle - 1>>]
  IN from[<<1, Len(keys)>>]

\* What becomes of comparing a key another was moved from, the code does not say.
Find(n, k) ==
  /\ Whole(n)
  /\ answer' = <<SearchSet(Content(objects[n]), k), FALSE>>
  /\ UNCHANGED <<objects, memory, torn, crashed>>

\* The first position whose key is not less.
LowerBound(keys, k) ==
  CHOOSE i \in 1 .. Len(keys) + 1 :
    /\ \A j \in 1 .. i - 1 : keys[j] < k
    /\ i <= Len(keys) => keys[i] >= k

\* With one key moved to the right of each from that place on, and none put in there.
Shifted(keys, at) ==
  IF at > Len(keys) THEN keys ELSE InsertAt(Front(keys), at, Moved) \o <<Spilt>>

\* These keys in the buffer of n, or in a larger one if it is full.
MakeRoom(n, keys, size) ==
  LET o == objects[n]
  IN \/ o.finish = o.end /\ Reallocate(n, keys, size, o.end + 1)
     \/ /\ o.finish < o.end
        /\ memory' = [memory EXCEPT ![o.start] = Refilled(o, keys)]
        /\ objects' = [objects EXCEPT ![n].finish = size]

\* The key is copied to its place when the others have been moved out of its way.
InsertKey(n, k) ==
  LET keys == Content(objects[n])
      found == SearchSet(keys, k)
      at == LowerBound(keys, k)
  IN /\ Whole(n)
     /\ \/ /\ found # Len(keys) + 1
           /\ answer' = <<found, FALSE>>
           /\ UNCHANGED <<objects, memory, torn, crashed>>
        \/ /\ found = Len(keys) + 1
           /\ MakeRoom(n, InsertAt(keys, at, k), Len(keys) + 1)
           /\ answer' = <<at, TRUE>>
           /\ UNCHANGED <<torn, crashed>>
        \/ found = Len(keys) + 1 /\ objects[n].finish = objects[n].end /\ Fails
        \/ /\ found = Len(keys) + 1
           /\ MakeRoom(n, Shifted(keys, at), Len(keys))
           /\ answer' = Silent
           /\ UNCHANGED <<torn, crashed>>

EraseAt(n, i) ==
  LET o == objects[n]
  IN /\ Usable(n) /\ i \in 1..o.finish
     /\ memory' = [memory EXCEPT ![o.start] = Refilled(o, RemoveAt(Content(o), i))]
     /\ objects' = [objects EXCEPT ![n].finish = @ - 1]
     /\ answer' = <<i, FALSE>>
     /\ UNCHANGED <<torn, crashed>>

ClearSet(n) ==
  /\ Usable(n) /\ objects[n].finish > 0
  /\ memory' = [memory EXCEPT ![objects[n].start] = Refilled(objects[n], <<>>)]
  /\ objects' = [objects EXCEPT ![n].finish = 0]
  /\ answer' = Silent
  /\ UNCHANGED <<torn, crashed>>

SetNext ==
  \E n \in Names :
    \/ Construct(n) \/ Destruct(n) \/ DestructTorn(n) \/ ShrinkToFit(n) \/ ClearSet(n)
    \/ \E S \in SUBSET Keys : OrderedConstruct(n, S)
    \/ \E m \in Names :
         CopyConstruct(n, m) \/ MoveConstruct(n, m) \/ CopyAssign(n, m) \/ MoveAssign(n, m) \/ SwapWith(n, m)
    \/ \E k \in Keys : Find(n, k) \/ InsertKey(n, k)
    \/ \E i \in 1..MaxCapacity : Reserve(n, i) \/ EraseAt(n, i)

SetSpec == SetInit /\ [][SetNext]_setVars
-----------------------------------------------------------------------------
Sets == INSTANCE SortedSets WITH
  sets <- [n \in Names |-> IF n \in torn THEN Lost
                           ELSE IF objects[n] = Absent THEN Absent
                           ELSE Content(objects[n])]

\* Whatever is constructed, copied, moved, swapped and reallocated, and whatever fails
\* on the way, the objects are sorted sets: the binary search, the linear one that
\* insert makes and the shifting of the keys agree on where a key is.  Only an insertion
\* that cannot copy its key behind others costs the set its last key and leaves a
\* moved-from one, which goes where the object goes until it is erased.
SetsAreSorted == Sets!Spec

\* Each object has a buffer of its own, as large as it thinks, with keys where it thinks
\* there are some and nowhere else, except the one that a failed insertion left behind
\* the others, and no buffer is left behind without an object: no way through
\* assignments, reallocations and failures leaks or shares memory.
SetsOwnTheirMemory ==
  LET owned(n) == {objects[n].start} \ {Nowhere}
      usable == {n \in Names : Usable(n)}
  IN /\ \A n \in usable : \A b \in owned(n) :
          /\ Len(memory[b]) = objects[n].end
          /\ \A i \in DOMAIN memory[b] :
               memory[b][i] \in Keys \cup {Moved} <=> i <= objects[n].finish
          /\ \A m \in usable \ {n} : b \notin owned(m)
     /\ ~crashed => Buffers \ FreeIn(memory) = UNION {owned(n) : n \in usable}
=============================================================================
