----------------------------- MODULE Directory -----------------------------
(***************************************************************************)
(* One directory of LLFS: the blocks of its entries, as llfs_dir_append,   *)
(* llfs_search_dir and llfs_dir_remove (io/system.c) read and write them.  *)
(* An entry is a name; removing one leaves a hole, so file_size counts     *)
(* the entries but does not say where they end.                            *)
(***************************************************************************)
EXTENDS Naturals, Sequences, FiniteSets

CONSTANTS
  Names,         (* file names                                               *)
  Free,          (* an entry whose inode number is 0                         *)
  PerBlock,      (* entries per block: BLOCK_SIZE / sizeof(dir_entry)        *)
  MaxDirBlocks   (* bound on the blocks of the directory                     *)

ASSUME DirectoryAssumption ==
  /\ Free \notin Names
  /\ PerBlock \in Nat \ {0, 1}
  /\ MaxDirBlocks \in Nat \ {0}

VARIABLES
  blocks,  (* the blocks of the directory, flags.dir_blocks = Len(blocks)  *)
  size,    (* file_size of its inode, in entries                           *)
  reply    (* what the last call returned                                  *)

vars == <<blocks, size, reply>>

Slots == 1..PerBlock

Least(S) == CHOOSE i \in S : \A j \in S : i <= j

\* Blocks that a scan up to file_size looks at: ceil(file_size / BLOCK_SIZE).
Scanned == (size + PerBlock - 1) \div PerBlock

Live == {blocks[b][i] : b \in 1..Len(blocks), i \in Slots} \ {Free}

-----------------------------------------------------------------------------
Init ==
  /\ blocks = <<>>
  /\ size = 0
  /\ reply = "none"

\* llfs_search_dir: the name is in one of the blocks that file_size spans.
Found(n) == \E b \in 1..Scanned : \E i \in Slots : blocks[b][i] = n

\* llfs_dir_append's buffer after it has read block b.  The read stops at
\* file_size; the rest of the buffer is what the block before left there, or
\* zero.
Buffer(b) ==
  [i \in Slots |->
     IF (b - 1) * PerBlock + i <= size THEN blocks[b][i]
     ELSE IF b = 1 THEN Free ELSE blocks[b - 1][i]]

\* The blocks llfs_dir_append may come to before it has read file_size bytes.
Reached == 1..(IF size = 0 THEN 1 ELSE Scanned)

Holes(b) == {i \in Slots : Buffer(b)[i] = Free}

Room == {b \in Reached : Holes(b) # {}}

-----------------------------------------------------------------------------
(* llfs_create_file: llfs_search_dir, then llfs_dir_append.                *)

CreateExisting(n) ==
  /\ Found(n)
  /\ reply' = "file_already_exists"
  /\ UNCHANGED <<blocks, size>>

\* file_size says that the blocks are full: a new block with this one entry.
Extend(n) ==
  /\ ~Found(n)
  /\ size = PerBlock * Len(blocks)
  /\ Len(blocks) < MaxDirBlocks
  /\ blocks' = Append(blocks, [i \in Slots |-> IF i = 1 THEN n ELSE Free])
  /\ size' = size + 1
  /\ reply' = "ok"

\* The first free entry of the buffer takes the name, and the buffer is
\* written over the whole block.
Fill(n) ==
  /\ ~Found(n)
  /\ size # PerBlock * Len(blocks)
  /\ Room # {}
  /\ LET b == Least(Room)
     IN blocks' = [blocks EXCEPT ![b] = [Buffer(b) EXCEPT ![Least(Holes(b))] = n]]
  /\ size' = size + 1
  /\ reply' = "ok"

CreateFull(n) ==
  /\ ~Found(n)
  /\ size # PerBlock * Len(blocks)
  /\ Room = {}
  /\ reply' = "file_full"
  /\ UNCHANGED <<blocks, size>>

-----------------------------------------------------------------------------
(* llfs_delete: llfs_get_inode finds the name, llfs_dir_remove clears it.  *)

RemoveMissing(n) ==
  /\ ~Found(n)
  /\ reply' = "file_not_found"
  /\ UNCHANGED <<blocks, size>>

Positions == (1..Len(blocks)) \X Slots

Before(p, q) == p[1] < q[1] \/ (p[1] = q[1] /\ p[2] < q[2])

First(n) ==
  CHOOSE p \in Positions :
    /\ blocks[p[1]][p[2]] = n
    /\ \A q \in Positions : Before(q, p) => blocks[q[1]][q[2]] # n

\* The entries llfs_dir_remove passes before it comes to the name; it gives
\* up when there were file_size of them.
Passed(n) ==
  Cardinality({q \in Positions : Before(q, First(n)) /\ blocks[q[1]][q[2]] # Free})

\* Mutant: file_size is left as it was.
Remove_SizeKept(n) ==
  /\ Found(n)
  /\ Passed(n) < size
  /\ blocks' = [blocks EXCEPT ![First(n)[1]][First(n)[2]] = Free]
  /\ reply' = "ok"
  /\ UNCHANGED size

Remove(n) ==
  /\ Found(n)
  /\ Passed(n) < size
  /\ blocks' = [blocks EXCEPT ![First(n)[1]][First(n)[2]] = Free]
  /\ size' = size - 1
  /\ reply' = "ok"

\* Not reached within file_size entries: inode number 0 cannot be freed.
RemoveUnreached(n) ==
  /\ Found(n)
  /\ Passed(n) >= size
  /\ reply' = "inode_free"
  /\ UNCHANGED <<blocks, size>>

Next == \E n \in Names :
  \/ CreateExisting(n) \/ Extend(n) \/ Fill(n) \/ CreateFull(n)
  \/ RemoveMissing(n) \/ Remove(n) \/ RemoveUnreached(n)

Spec == Init /\ [][Next]_vars

\* The entries fill the blocks from the front, up to file_size.
Dense ==
  \A b \in 1..Len(blocks), i \in Slots :
    blocks[b][i] # Free <=> (b - 1) * PerBlock + i <= size

\* Directories from which only the last entry is ever removed.
TidyNext == Next /\ (size' < size => Dense')

TidySpec == Init /\ [][TidyNext]_vars

-----------------------------------------------------------------------------
(* Every variable has its type, and file_size never exceeds the blocks a   *)
(* scan up to it finds in memory.                                          *)
TypeOK ==
  /\ blocks \in Seq([Slots -> Names \cup {Free}])
  /\ Len(blocks) <= MaxDirBlocks
  /\ size \in 0..(PerBlock * Len(blocks))
  /\ reply \in {"none", "ok", "file_already_exists", "file_full",
                "file_not_found", "inode_free"}

\* A name whose entry is on the disk is found: llfs_create_file refuses it,
\* llfs_fopen opens it, llfs_rm removes it.
LiveIsFound == \A n \in Live : Found(n)

\* A directory from which only the last entry is removed has no holes, and at
\* most one entry more than fits in its first block: the others are refused.
DenseInv == Dense /\ size <= PerBlock + 1

\* Such a directory is a set of names.
Set == INSTANCE NameSet WITH names <- Live, Capacity <- PerBlock

ImplementsSet == Set!Spec
=============================================================================
