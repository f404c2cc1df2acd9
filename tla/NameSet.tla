------------------------------ MODULE NameSet ------------------------------
(***************************************************************************)
(* What a directory promises: a set of names.  Creating a name adds it and *)
(* nothing else, removing it takes it out and nothing else, and the answer *)
(* tells which names there are.  A directory may be full, but only from    *)
(* Capacity names on.                                                      *)
(***************************************************************************)
EXTENDS Naturals, FiniteSets

CONSTANTS Names, Capacity

VARIABLES
  names,  (* the files of the directory    *)
  reply   (* what the last call returned   *)

vars == <<names, reply>>

Init == names = {} /\ reply = "none"

Create(n) ==
  /\ n \notin names
  /\ names' = names \cup {n}
  /\ reply' = "ok"

CreateExisting(n) ==
  /\ n \in names
  /\ reply' = "file_already_exists"
  /\ UNCHANGED names

CreateFull(n) ==
  /\ n \notin names
  /\ Cardinality(names) >= Capacity
  /\ reply' = "file_full"
  /\ UNCHANGED names

Remove(n) ==
  /\ n \in names
  /\ names' = names \ {n}
  /\ reply' = "ok"

RemoveMissing(n) ==
  /\ n \notin names
  /\ reply' = "file_not_found"
  /\ UNCHANGED names

Next == \E n \in Names :
  \/ Create(n) \/ CreateExisting(n) \/ CreateFull(n)
  \/ Remove(n) \/ RemoveMissing(n)

Spec == Init /\ [][Next]_vars
=============================================================================
