----------------------------- MODULE LinkedList -----------------------------
(***************************************************************************)
(* operating-systems/shell/doublylinkedlist.c: lists of nodes with a       *)
(* pointer each way.  Every function takes any node of a list and finds    *)
(* the ends itself.  h is the heap: what each address holds.               *)
(*                                                                         *)
(* The functions are operators on the heap; the state machine calls them   *)
(* in any order on any nodes, as far as the program's main does: concat    *)
(* gets the head of another list, unique a list whose first two elements   *)
(* differ (it follows the NULL in front of the head otherwise).            *)
(***************************************************************************)
EXTENDS Integers, Sequences, SequencesExt, FiniteSets

CONSTANTS
  Addresses,   (* where a node may be                                      *)
  Elements,    (* the data of the nodes                                    *)
  NULL, Free,  (* no address; what an address holds without a node         *)
  MaxTurns     (* bound: how far a list is rotated or shifted by a call     *)

NodeValues == [data : Elements, next : Addresses \cup {NULL}, prev : Addresses \cup {NULL}]

ASSUME ListAssumption ==
  /\ IsFiniteSet(Addresses) /\ NULL \notin Addresses
  /\ Elements \subseteq Int /\ Free \notin NodeValues
  /\ MaxTurns \in Nat

VARIABLE heap

Allocated(h) == {n \in Addresses : h[n] # Free}

WithNext(h, n, m) == IF n = NULL THEN h ELSE [h EXCEPT ![n].next = m]
WithPrev(h, n, m) == IF n = NULL THEN h ELSE [h EXCEPT ![n].prev = m]

\* A node more of those along a list, unless there is none.
WalkedOn(h, seen) ==
  LET next == h[Last(seen)].next IN IF next = NULL THEN seen ELSE Append(seen, next)

\* The nodes from n on, and those from n back: there are no more than addresses.
Forward(h, n) ==
  LET seen[k \in 0..Cardinality(Addresses)] ==
        IF k = 0 THEN <<n>> ELSE WalkedOn(h, seen[k - 1])
  IN seen[Cardinality(Addresses)]

TurnedRound(h) ==
  [a \in Addresses |->
     IF h[a] = Free THEN Free ELSE [h[a] EXCEPT !.next = h[a].prev, !.prev = h[a].next]]

Backward(h, n) == Forward(TurnedRound(h), n)

ListBegin(h, n) == Last(Backward(h, n))
ListEnd(h, n) == Last(Forward(h, n))
All(h, n) == Forward(h, ListBegin(h, n))
-----------------------------------------------------------------------------
(* One node more or less.                                                  *)

Create(h, new, e) == [h EXCEPT ![new] = [data |-> e, next |-> NULL, prev |-> NULL]]

\* Joins two nodes, one of them perhaps NULL.
Join(h, n, m) == WithNext(WithPrev(h, m, n), n, m)

PushBack(h, n, new, e) == Join(Create(h, new, e), ListEnd(h, n), new)
PushFront(h, n, new, e) == Join(Create(h, new, e), new, ListBegin(h, n))
InsertAfter(h, n, new, e) == Join(Join(Create(h, new, e), new, h[n].next), n, new)

Erase(h, n) == Join([h EXCEPT ![n] = Free], h[n].prev, h[n].next)

PopBack(h, n) == Erase(h, ListEnd(h, n))
PopFront(h, n) == Erase(h, ListBegin(h, n))

EraseHead(loop) ==
  [heap |-> Erase(loop.heap, loop.head), head |-> loop.heap[loop.head].next]

\* The first k nodes of a list are erased.
Beheaded(h, head, k) ==
  LET after[i \in 0..k] ==
        IF i = 0 THEN [heap |-> h, head |-> head] ELSE EraseHead(after[i - 1])
  IN after[k].heap

Clear(h, n) == Beheaded(h, ListBegin(h, n), Len(All(h, n)))

\* The last node stays, but nobody is told where it is.
ShiftLeft(h, head, k) ==
  LET others == Len(Forward(h, head)) - 1
  IN Beheaded(h, head, IF k < others THEN k ELSE others)

\* createFromArray
FromArray(h, news, arr) ==
  LET after[i \in 0..(Len(arr) - 1)] ==
        IF i = 0 THEN Create(h, news[1], arr[1])
                 ELSE PushBack(after[i - 1], news[i], news[i + 1], arr[i + 1])
  IN after[Len(arr) - 1]
-----------------------------------------------------------------------------
(* The order of the nodes.                                                 *)

\* n right before m.
SwapAdjacent(h, n, m) ==
  LET p == h[n].prev
      q == h[m].next
      g == WithPrev(WithNext(h, p, m), q, n)
  IN [g EXCEPT ![n].next = q, ![n].prev = m, ![m].next = n, ![m].prev = p]

\* Mutant: one of the four neighbours is forgotten.
SwapApart_Forgetful(h, n, m) ==
  LET f == WithPrev(WithNext(h, h[n].prev, m), h[n].next, m)
      g == WithNext(f, h[m].prev, n)
  IN [g EXCEPT ![n].next = h[m].next, ![n].prev = h[m].prev,
               ![m].next = h[n].next, ![m].prev = h[n].prev]

SwapApart(h, n, m) ==
  LET f == WithPrev(WithNext(h, h[n].prev, m), h[n].next, m)
      g == WithPrev(WithNext(f, h[m].prev, n), h[m].next, n)
  IN [g EXCEPT ![n].next = h[m].next, ![n].prev = h[m].prev,
               ![m].next = h[n].next, ![m].prev = h[n].prev]

Swap(h, n, m) ==
  IF h[n].next = m THEN SwapAdjacent(h, n, m)
  ELSE IF h[m].next = n THEN SwapAdjacent(h, m, n)
  ELSE SwapApart(h, n, m)

\* A round of reverse; where the nodes are neighbours it is the last.
SwapEnds(loop) ==
  LET nx == loop.heap[loop.head].next
      px == loop.heap[loop.tail].prev
  IN IF loop.head = loop.tail THEN loop
     ELSE [heap |-> Swap(loop.heap, loop.head, loop.tail),
           head |-> nx, tail |-> IF nx = loop.tail THEN nx ELSE px]

\* From both ends to the middle, which is reached before the rounds are over.
ReverseList(h, n) ==
  LET after[i \in 0..Cardinality(Addresses)] ==
        IF i = 0 THEN [heap |-> h, head |-> ListBegin(h, n), tail |-> ListEnd(h, n)]
                 ELSE SwapEnds(after[i - 1])
  IN after[Cardinality(Addresses)].heap

Concat(h, n, m) == Join(h, ListEnd(h, n), m)

\* Of equal nodes all but the last are unlinked; they are not freed.
UnlinkEqual(loop) ==
  LET item == loop.heap[loop.item]
      next == item.next
  IN IF next = NULL THEN loop
     ELSE [heap |-> IF loop.heap[next].data = item.data
                      THEN Join(loop.heap, item.prev, next) ELSE loop.heap,
           item |-> next]

Unique(h, n) ==
  LET after[i \in 0..Cardinality(Addresses)] ==
        IF i = 0 THEN [heap |-> h, item |-> ListBegin(h, n)] ELSE UnlinkEqual(after[i - 1])
  IN after[Cardinality(Addresses)].heap

\* The head of a list becomes its tail.
HeadToTail(loop) ==
  LET ring == Join(loop.heap, loop.tail, loop.head)
      next == ring[loop.head].next
      open == [ring EXCEPT ![next].prev = NULL]
      last == open[loop.tail].next
  IN [heap |-> [open EXCEPT ![last].next = NULL], head |-> next, tail |-> last]

RotateLeft(h, n, k) ==
  LET after[i \in 0..k] ==
        IF i = 0 THEN [heap |-> h, head |-> ListBegin(h, n), tail |-> ListEnd(h, n)]
                 ELSE HeadToTail(after[i - 1])
  IN after[k].heap

IndexIn(seq, n) == CHOOSE i \in DOMAIN seq : seq[i] = n

\* A node that is not in the list counts as the one in front of its head.
Distance(h, n, m) ==
  IF m \in Range(Forward(h, n)) THEN IndexIn(Forward(h, n), m) - 1
  ELSE IF m \in Range(Backward(h, n)) THEN 1 - IndexIn(Backward(h, n), m)
  ELSE 0 - Len(Backward(h, n))
-----------------------------------------------------------------------------
(* The lists: each from its head.  A node that unique unlinked is in none. *)

ListHeads(h) == {n \in Allocated(h) : h[n].prev = NULL}
Lists(h) == {Forward(h, n) : n \in ListHeads(h)}
Listed(h) == UNION {Range(c) : c \in Lists(h)}

ListInit == heap = [n \in Addresses |-> Free]

NewList(new, e) == heap' = Create(heap, new, e)

NewListOf(news, arr) == heap' = FromArray(heap, news, arr)

Grow(n, new, e) ==
  heap' \in {PushBack(heap, n, new, e), PushFront(heap, n, new, e), InsertAfter(heap, n, new, e)}

Shrink(n) ==
  heap' \in {Erase(heap, n), PopBack(heap, n), PopFront(heap, n), Clear(heap, n)}

IsUniqueSafe(h, n) ==
  LET list == All(h, n)
  IN Len(list) > 1 => h[list[1]].data # h[list[2]].data

Rearrange(n) ==
  \/ heap' \in {ReverseList(heap, n)} \cup
              {RotateLeft(heap, n, k) : k \in 0..MaxTurns} \cup
              {ShiftLeft(heap, ListBegin(heap, n), k) : k \in 0..MaxTurns}
  \/ IsUniqueSafe(heap, n) /\ heap' = Unique(heap, n)

Combine(n, m) ==
  \/ heap' = Swap(heap, n, m)
  \/ m \in ListHeads(heap) \ {ListBegin(heap, n)} /\ heap' = Concat(heap, n, m)

Available == Addresses \ Allocated(heap)

ListNext ==
  \/ \E new \in Available, e \in Elements :
       NewList(new, e) \/ \E n \in Listed(heap) : Grow(n, new, e)
  \/ \E size \in 1..Cardinality(Available) :
       \E news \in [1..size -> Available], arr \in [1..size -> Elements] :
         IsInjective(news) /\ NewListOf(news, arr)
  \/ \E n \in Listed(heap) : Shrink(n) \/ Rearrange(n)
  \/ \E n, m \in Listed(heap) : Combine(n, m)

ListSpec == ListInit /\ [][ListNext]_heap
-----------------------------------------------------------------------------
(* What the functions promise, in terms of sequences.                      *)

ListOf(n) == CHOOSE c \in Lists(heap) : n \in Range(c)

\* After the call the lists are those of S, and each node has the data it had.
Becomes(g, S) ==
  /\ Lists(g) = S
  /\ \A c \in S : Backward(g, Last(c)) = Reverse(c)
  /\ \A n \in Listed(g) \cap Listed(heap) : g[n].data = heap[n].data

\* In place of the list of n there is c.
Replaces(g, n, c) ==
  Becomes(g, (Lists(heap) \ {ListOf(n)}) \cup (IF c = <<>> THEN {} ELSE {c}))

Exchange(c, n, m) == [i \in DOMAIN c |-> CASE c[i] = n -> m [] c[i] = m -> n [] OTHER -> c[i]]

\* Equal elements at i, at j and between them.
SameGroup(c, i, j) == \A k \in (i..j) \cup (j..i) : heap[c[k]].data = heap[c[i]].data

OneOfEachGroup(c) ==
  {S \in SUBSET DOMAIN c :
     \A i \in DOMAIN c : \E j \in S : \A k \in S : SameGroup(c, i, k) <=> k = j}

\* The elements of c at the places in S.
Chosen(c, S) ==
  LET chosen[i \in 0..Len(c)] ==
        IF i = 0 THEN <<>>
        ELSE IF i \in S THEN Append(chosen[i - 1], c[i])
        ELSE chosen[i - 1]
  IN chosen[Len(c)]

\* From whichever of its nodes a list is entered, the pointers of both directions stay
\* those of one sequence: adjacent nodes are swapped as well as distant ones and those
\* of two lists, reversing stops in the middle of an even or odd number of nodes, and
\* a rotation of a list of one leaves it whole.  Of equal neighbours unique keeps one,
\* whichever it is.  Distances agree with that sequence.
ListsAreSequences ==
  \A n \in Listed(heap) :
    LET c == ListOf(n)
        i == IndexIn(c, n)
    IN /\ Replaces(Erase(heap, n), n, SubSeq(c, 1, i - 1) \o SubSeq(c, i + 1, Len(c)))
       /\ Replaces(Clear(heap, n), n, <<>>)
       /\ Replaces(ReverseList(heap, n), n, Reverse(c))
       /\ IsUniqueSafe(heap, n) => \E S \in OneOfEachGroup(c) : Replaces(Unique(heap, n), n, Chosen(c, S))
       /\ \A k \in 0..MaxTurns :
            LET r == k % Len(c)
                left == IF k < Len(c) THEN k ELSE Len(c) - 1
            IN /\ Replaces(RotateLeft(heap, n, k), n, SubSeq(c, r + 1, Len(c)) \o SubSeq(c, 1, r))
               /\ Replaces(ShiftLeft(heap, c[1], k), n, SubSeq(c, left + 1, Len(c)))
       /\ \A new \in Available, e \in Elements :
            /\ Replaces(PushBack(heap, n, new, e), n, Append(c, new))
            /\ Replaces(PushFront(heap, n, new, e), n, <<new>> \o c)
            /\ Replaces(InsertAfter(heap, n, new, e), n, InsertAt(c, i + 1, new))
       /\ \A m \in Listed(heap) :
            LET d == ListOf(m)
                j == IndexIn(d, m)
            IN /\ Becomes(Swap(heap, n, m), {Exchange(b, n, m) : b \in Lists(heap)})
               /\ c # d => Becomes(Concat(heap, n, d[1]), (Lists(heap) \ {c, d}) \cup {c \o d})
               /\ Distance(heap, n, m) = IF c = d THEN j - i ELSE 0 - i

\* Of each group of equal neighbours unique keeps the first, as the comment on it says.
UniqueKeepsFirst ==
  \A n \in Listed(heap) :
    LET c == ListOf(n)
        firsts == {i \in DOMAIN c : i = 1 \/ ~SameGroup(c, i - 1, i)}
    IN IsUniqueSafe(heap, n) => Replaces(Unique(heap, n), n, Chosen(c, firsts))
=============================================================================
