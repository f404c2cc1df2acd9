----------------------------- MODULE MCPrograms -----------------------------
(* Four programs without threads, side by side: the two lists of nodes and *)
(* of keys, the rectangles of quadtree, and the shell.                     *)
EXTENDS LinkedList, SvSet, QuadTree, Shell, TLC

VARIABLE part

listVars == heap

\* The values a program may find where it has put none yet matter in that program only.
AnyInit ==
  /\ part \in {"list", "set", "quadtree", "shell"}
  /\ ListInit /\ SetInit /\ QuadInit /\ ShellInit
  /\ part # "quadtree" => mouseDown = CHOOSE p \in Pressed : TRUE
  /\ part # "shell" => source = "stdin" /\ history.length = 0 /\ awaited = CHOOSE p \in Pids : TRUE

ListStep ==
  /\ part = "list"
  /\ ListNext
  /\ UNCHANGED <<part, setVars, quadVars, shellVars>>

SetStep ==
  /\ part = "set"
  /\ SetNext
  /\ UNCHANGED <<part, listVars, quadVars, shellVars>>

QuadStep ==
  /\ part = "quadtree"
  /\ QuadNext
  /\ UNCHANGED <<part, listVars, setVars, shellVars>>

ShellStep ==
  /\ part = "shell"
  /\ ShellNext
  /\ UNCHANGED <<part, listVars, setVars, quadVars>>

AnyNext == ListStep \/ SetStep \/ QuadStep \/ ShellStep

AnySpec == AnyInit /\ [][AnyNext]_<<part, listVars, setVars, quadVars, shellVars>>

\* Nothing in SvSet tells one buffer or one object from another.
MCSymmetry == Permutations(Buffers) \cup Permutations(Names)

\* Where the mouse is pressed and released.
MCPressed == {<<1, 1>>, <<2, 2>>, <<12, 1>>}
MCReleased == {<<2, 2>>, <<5, 3>>, <<13, 2>>}

\* What is typed, and typed after a !.
MCLines == {<<"ls", "-l">>, <<"ls", "-a">>, <<"exit">>, <<"exit", "now">>, <<>>}
MCRecalls == {<<>>, <<"ls">>, <<"ls", "-a">>}
=============================================================================
