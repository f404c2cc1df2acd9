------------------------------ MODULE QuadTree ------------------------------
(***************************************************************************)
(* advanced-cpp/quadtree: rectangles drawn and moved with the mouse and    *)
(* the arrow keys (main.cpp).  After each event the program puts them in a *)
(* fresh quadtree (quad.hpp) and paints those that collide.  A step is one *)
(* event and the frame that follows it.                                    *)
(*                                                                         *)
(* A rectangle is known by its position in the program's vector: that is   *)
(* what the pointers in the tree, and the selection, point to.             *)
(***************************************************************************)
EXTENDS Integers, Sequences, SequencesExt, FiniteSets

CONSTANTS
  MaxDepth, MaxItems,    (* D and I: 5 and 5                               *)
  Width, Height,         (* the screen                                     *)
  Pressed, Released,     (* where the mouse is pressed, and where released *)
  MaxRects, MaxMoves     (* bounds of the model                            *)

ASSUME QuadTreeAssumption ==
  /\ {MaxDepth, MaxItems, Width, Height} \subseteq Nat \ {0}
  /\ {MaxRects, MaxMoves} \subseteq Nat
  /\ Pressed \cup Released \subseteq (0..(Width - 1)) \X (0..(Height - 1))

Least(S) == CHOOSE i \in S : \A j \in S : i <= j
-----------------------------------------------------------------------------
(* Rectangles.                                                             *)

AtLeastOne(n) == IF n <= 0 THEN 1 ELSE n

Rectangle(x, y, w, h) == [x |-> x, y |-> y, w |-> AtLeastOne(w), h |-> AtLeastOne(h)]

IsIntersecting(r, s) ==
  /\ r.x < s.x + s.w /\ s.x < r.x + r.w
  /\ r.y < s.y + s.h /\ s.y < r.y + r.h

\* s is inside r and does not touch its border.
IsContaining(r, s) ==
  /\ r.x < s.x /\ s.x + s.w < r.x + r.w
  /\ r.y < s.y /\ s.y + s.h < r.y + r.h

ScreenBound == Rectangle(0, 0, Width, Height)
-----------------------------------------------------------------------------
(* The tree: a node with its items, in the order of insertion, and either  *)
(* no children or one for each quadrant.  R is the vector of rectangles.   *)
(* "splits" counts how often the node was subdivided.                      *)

Quadrants == <<"TOP_RIGHT", "TOP_LEFT", "BOTTOM_LEFT", "BOTTOM_RIGHT">>

Node(bounds, depth) ==
  [bounds |-> bounds, depth |-> depth, items |-> <<>>, children |-> <<>>, splits |-> 0]

IsSplit(t) == DOMAIN t.children # {}

\* The quadrant that holds r, if there is one.
FindQuadrant(t, r) ==
  LET holding == SelectSeq(Quadrants, LAMBDA q : IsContaining(t.children[q].bounds, r))
  IN IF ~IsSplit(t) \/ holding = <<>> THEN "NONE" ELSE Head(holding)

\* The children that the node had, and whatever they hold, are forgotten.
Subdivide(t) ==
  LET b == t.bounds
      hw == b.w \div 2
      hh == b.h \div 2
      Child(x, y, w, h) == Node(Rectangle(x, y, w, h), t.depth + 1)
  IN [t EXCEPT
        !.splits = @ + 1,
        !.children =
          [TOP_RIGHT    |-> Child(b.x + hw, b.y, b.w - hw, hh + 1),
           TOP_LEFT     |-> Child(b.x, b.y, hw + 1, hh + 1),
           BOTTOM_LEFT  |-> Child(b.x, b.y + hh, hw + 1, b.h - hh),
           BOTTOM_RIGHT |-> Child(b.x + hw, b.y + hh, b.w - hw, b.h - hh)]]

\* insert throws full_tree_error, and leaves the tree as it is.
RECURSIVE Rejects(_, _)
Rejects(t, r) ==
  LET q == FindQuadrant(t, r)
  IN IF q = "NONE"
     THEN Len(t.items) = MaxItems /\ t.depth = MaxDepth
     ELSE Rejects(t.children[q], r)

RECURSIVE Insert(_, _, _)

\* Where a rectangle goes when the items of a node are arranged anew.
Place(t, i, R) ==
  LET q == FindQuadrant(t, R[i])
  IN IF q = "NONE"
     THEN [t EXCEPT !.items = Append(@, i)]
     ELSE [t EXCEPT !.children[q] = Insert(@, i, R)]

Arrange(t, R) ==
  LET s == IF t.depth < MaxDepth THEN Subdivide(t) ELSE t
  IN FoldLeft(LAMBDA u, i : Place(u, i, R), [s EXCEPT !.items = <<>>], t.items)

Insert(t, i, R) ==
  LET u == Place(t, i, R)
  IN IF FindQuadrant(t, R[i]) = "NONE" /\ Len(u.items) = MaxItems THEN Arrange(u, R) ELSE u

RECURSIVE Search(_, _)

\* Mutant: one that is in no quadrant is only compared with its own kind.
Search_NotBelow(t, r) ==
  LET q == FindQuadrant(t, r)
  IN Range(t.items) \cup IF q = "NONE" THEN {} ELSE Search(t.children[q], r)

\* Those that may intersect r.
Search(t, r) ==
  LET q == FindQuadrant(t, r)
      searched == IF ~IsSplit(t) THEN {} ELSE IF q = "NONE" THEN Range(Quadrants) ELSE {q}
  IN Range(t.items) \cup UNION {Search(t.children[p], r) : p \in searched}

\* Top right, top left, bottom left, bottom right: the order of the iterator.
RECURSIVE Preorder(_)
Preorder(t) ==
  IF ~IsSplit(t) THEN t.items
  ELSE t.items \o FlattenSeq([n \in 1..4 |-> Preorder(t.children[Quadrants[n]])])
-----------------------------------------------------------------------------
(* The iterator: the node it is at, as the path of quadrants from the      *)
(* root, an item there, and for each level the quadrant last entered.      *)
(* "counter" is all that it is compared by.                                *)

Begin == [path |-> <<>>, item |-> 1, quad |-> [l \in 0..(MaxDepth - 1) |-> 0], counter |-> 0]

RECURSIVE NodeAt(_, _)
NodeAt(t, path) == IF path = <<>> THEN t ELSE NodeAt(t.children[Head(path)], Tail(path))

\* Mutant: back at the parent, its items are seen again.
Step_SeesAgain(t, it) ==
  LET level == Len(it.path)
      last == it.quad[level]
      node == NodeAt(t, it.path)
  IN IF last < 4 /\ (last > 0 \/ IsSplit(node))
     THEN [it EXCEPT !.quad[level] = last + 1, !.path = Append(@, Quadrants[last + 1]), !.item = 1]
     ELSE IF level > 0
     THEN [it EXCEPT !.path = Front(@), !.item = 1]
     ELSE it

\* To the next quadrant of this node, or back to its parent, whose items were seen.
Step(t, it) ==
  LET level == Len(it.path)
      last == it.quad[level]
      node == NodeAt(t, it.path)
  IN IF last < 4 /\ (last > 0 \/ IsSplit(node))
     THEN [it EXCEPT !.quad[level] = last + 1, !.path = Append(@, Quadrants[last + 1]), !.item = 1]
     ELSE IF level > 0
     THEN [it EXCEPT !.path = Front(@), !.item = Len(NodeAt(t, Front(it.path)).items) + 1]
     ELSE it

\* As long as there is no item to look at; at the root the end is reached.
RECURSIVE Seek(_, _)
Seek(t, it) ==
  LET next == Step(t, it)
      atEnd == it.path = <<>> /\ it.quad[0] = 4
  IN IF atEnd \/ next.item <= Len(NodeAt(t, next.path).items) THEN next ELSE Seek(t, next)

Increment(t, it) ==
  LET next == [it EXCEPT !.item = @ + 1, !.counter = @ + 1]
  IN IF next.item <= Len(NodeAt(t, it.path).items) THEN next
     ELSE Seek(t, [next EXCEPT !.item = 1])

\* What a loop from begin() to end() sees.
RECURSIVE Visited(_, _)
Visited(t, it) ==
  IF it.counter = Len(Preorder(t)) THEN <<>>
  ELSE <<NodeAt(t, it.path).items[it.item]>> \o Visited(t, Increment(t, it))
-----------------------------------------------------------------------------
VARIABLES
  rects,       (* items                                                    *)
  selected,    (* the rectangle that the pointer points to, 0 for nullptr  *)
  editMode,    (* edit_mode                                                *)
  mouseDown,   (* mde: where the mouse was pressed last                    *)
  tree,        (* the tree of the last frame                               *)
  rejected,    (* rectangles that stay although the tree rejected them     *)
  yellow,      (* the rectangles painted as colliding                      *)
  moves        (* how many arrow keys there were: bounded                  *)

input == <<selected, editMode, mouseDown, moves>>
frame == <<rects, tree, rejected, yellow>>
quadVars == <<input, frame>>

EmptyTree == Node(ScreenBound, 1)

\* mde is not initialized.
QuadInit ==
  /\ rects = <<>>
  /\ selected = 0 /\ editMode = FALSE
  /\ mouseDown \in Pressed
  /\ tree = EmptyTree
  /\ rejected = {} /\ yellow = {}
  /\ moves = 0

\* The loop of main that fills the tree, from the i-th rectangle on.  When the tree
\* rejects one, the last one of the vector is removed, which may be another.
RECURSIVE Fill(_, _, _, _)
Fill(t, i, R, no) ==
  IF i > Len(R) THEN [tree |-> t, rects |-> R, rejected |-> no \cap 1..Len(R)]
  ELSE IF Rejects(t, R[i]) THEN Fill(t, i + 1, Front(R), no \cup {i})
  ELSE Fill(Insert(t, i, R), i + 1, R, no)

Collides(t, R, i) ==
  \E j \in Search(t, R[i]) : IsIntersecting(R[i], R[j]) /\ R[i] # R[j]

Frame(R) ==
  \E f \in {Fill(EmptyTree, 1, R, {})} :
     /\ tree' = f.tree
     /\ rects' = f.rects
     /\ rejected' = f.rejected
     /\ yellow' = {i \in 1..Len(f.rects) : i # selected' /\ Collides(f.tree, f.rects, i)}

\* A selected rectangle that is no longer there is drawn nevertheless: what comes
\* of it is not modelled.
Dangling == selected > Len(rects)

HitBy(p) == {i \in 1..Len(rects) : IsIntersecting(rects[i], Rectangle(p[1], p[2], 1, 1))}

MouseDown(p) ==
  /\ mouseDown' = p
  /\ IF HitBy(p) # {}
     THEN selected' = Least(HitBy(p)) /\ editMode' = TRUE
     ELSE UNCHANGED <<selected, editMode>>
  /\ Frame(rects)
  /\ UNCHANGED moves

MouseUp(p) ==
  /\ Len(rects) < MaxRects
  /\ UNCHANGED input
  /\ LET w == p[1] - mouseDown[1]
         h == p[2] - mouseDown[2]
     IN Frame(IF ~editMode /\ w > 0 /\ h > 0
              THEN Append(rects, Rectangle(mouseDown[1], mouseDown[2], w, h))
              ELSE rects)

Escape ==
  /\ IF editMode /\ selected # 0
     THEN editMode' = FALSE /\ selected' = 0
     ELSE UNCHANGED <<editMode, selected>>
  /\ Frame(rects)
  /\ UNCHANGED <<mouseDown, moves>>

\* An arrow key moves the selected rectangle, if "allowed" by the screen.
MoveSelected(allowed, dx, dy) ==
  /\ allowed
  /\ moves < MaxMoves
  /\ moves' = moves + 1
  /\ UNCHANGED <<selected, editMode, mouseDown>>
  /\ Frame([rects EXCEPT ![selected].x = @ + dx, ![selected].y = @ + dy])

Arrow ==
  /\ selected # 0
  /\ LET r == rects[selected]
     IN \/ MoveSelected(r.y + r.h < Height, 0, 1)
        \/ MoveSelected(r.y > 0, 0, -1)
        \/ MoveSelected(r.x > 0, -1, 0)
        \/ MoveSelected(r.x + r.w < Width, 1, 0)

\* An event that changes nothing: the frame is drawn again.
Redraw ==
  /\ UNCHANGED input
  /\ Frame(rects)

Event ==
  \/ \E p \in Pressed : MouseDown(p)
  \/ \E p \in Released : MouseUp(p)
  \/ Escape \/ Arrow \/ Redraw

QuadNext == ~Dangling /\ Event

QuadSpec == QuadInit /\ [][QuadNext]_quadVars
-----------------------------------------------------------------------------
RECURSIVE Nodes(_)
Nodes(t) ==
  {t} \cup UNION {Nodes(t.children[q]) : q \in IF IsSplit(t) THEN Range(Quadrants) ELSE {}}

\* The comment on subdivide: a node that is subdivided has no children.
SubdividedOnce == \A t \in Nodes(tree) : t.splits <= 1

\* Two rectangles that collide are both painted, however the quadrants separate them
\* and wherever they were moved, and no other is; every rectangle is in the tree
\* once.  A node that is subdivided again loses some, and one that the tree rejected
\* may stay unseen.
CollisionsArePainted ==
  SubdividedOnce =>
    LET present == 1..Len(rects) \ rejected
    IN /\ \A i \in 1..Len(rects) \ {selected} :
            i \in yellow <=>
              \E j \in present : IsIntersecting(rects[i], rects[j]) /\ rects[i] # rects[j]
       /\ Len(Preorder(tree)) = Cardinality(present) /\ Range(Preorder(tree)) = present

\* The iterator sees every item of the tree once, in the order of quadrants, as its
\* comment says; but only if there is an item at the root, where begin() points, and if
\* no level has two nodes with children, because it never forgets a quadrant entered.
IterationVisitsAll ==
  LET splitAt(depth) == {t \in Nodes(tree) : t.depth = depth /\ IsSplit(t)}
  IN tree.items # <<>> /\ (\A d \in 1..MaxDepth : Cardinality(splitAt(d)) <= 1)
       => Visited(tree, Begin) = Preorder(tree)

=============================================================================
