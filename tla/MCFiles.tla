------------------------------ MODULE MCFiles ------------------------------
(* One directory of small blocks, used in any way or tidily (only the last *)
(* entry is ever removed), and, side by side with it, one file of up to    *)
(* nine data blocks: neither looks at the other.                           *)
EXTENDS Directory, FileTree

VARIABLE part  (* "directory", "tidy directory" or "file" *)

AnyInit ==
  /\ part \in {"directory", "tidy directory", "file"}
  /\ Init
  /\ TreeInit

DirectoryStep ==
  /\ part \in {"directory", "tidy directory"}
  /\ Next
  /\ part = "tidy directory" /\ size' < size => Dense'
  /\ UNCHANGED <<part, treeVars>>

FileStep ==
  /\ part = "file"
  /\ TreeNext
  /\ UNCHANGED <<part, vars>>

AnyNext == DirectoryStep \/ FileStep

AnySpec == AnyInit /\ [][AnyNext]_<<part, vars, treeVars>>

\* A tidy directory is a set of names: nothing a creation or a removal does
\* disturbs another name, and every name that has an entry is found and can be
\* removed.
TidyIsSet ==
  /\ part = "tidy directory" => Set!Init
  /\ [][part = "tidy directory" => Set!Next]_<<Set!vars, part>>
=============================================================================
