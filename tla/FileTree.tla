------------------------------ MODULE FileTree ------------------------------
(***************************************************************************)
(* The blocks of one LLFS file (io/system.c): ten direct references in the *)
(* inode, a single and a double indirect block.  llfs_write extends the    *)
(* tree block by block in an open handle and hands the changed blocks to   *)
(* the journal as one transaction; llfs_delete gives the blocks back to    *)
(* the free-block map.  The computer may stop between any two steps; the   *)
(* transaction itself is one step (see Journal for a crash inside it).  A  *)
(* client has the file open once at a time and closes it before it         *)
(* removes it.                                                             *)
(***************************************************************************)
EXTENDS Naturals, FiniteSets

CONSTANTS
  Direct,     (* direct references of an inode: 10              *)
  Refs,       (* references of an indirect block: 128           *)
  BlockSize,  (* bytes of a block: 512                          *)
  MaxWrite,   (* bytes of one llfs_write: MAX_WRITE_SIZE        *)
  MaxTxn,     (* blocks of a transaction: MAX_TRANSACTION_LEN   *)
  MaxBlocks,  (* bound on the data blocks of the file           *)
  LastBlock,  (* block numbers are 0..LastBlock                 *)
  Foreign     (* blocks of which another file may have one      *)

ASSUME FileTreeAssumption ==
  /\ {Direct, Refs, BlockSize, MaxWrite, MaxTxn} \subseteq Nat \ {0}
  /\ MaxBlocks \in 1..(Direct + Refs * Refs)
  /\ LastBlock \in Nat
  /\ Foreign \subseteq 1..LastBlock

VARIABLES
  free,    (* free_block_map in memory: the blocks marked free                *)
  map,     (* the free block map on the disk                                  *)
  disk,    (* contents of the data and indirect blocks on the disk            *)
  inode,   (* the inode on the disk, or NoFile                                *)
  loc,     (* the block of the inode                                          *)
  handle,  (* the open llfs_file: its inode and the blocks it has in memory   *)
  pc,      (* "none" (no file), "closed", "open", "writing", or "seekFault",  *)
           (* "writeFault", "deleteFault" when it has died in that call       *)
  pos,     (* pointer_byte_loc                                                *)
  left,    (* bytes llfs_write_bytes has still to write                       *)
  buffer   (* the block numbers in the write buffer                           *)

treeVars == <<free, map, disk, inode, loc, handle, pc, pos, left, buffer>>

Blocks == 0..LastBlock

NoRefs == [r \in 0..(Refs - 1) |-> 0]

EmptyInode ==
  [size |-> 0, direct |-> [d \in 0..(Direct - 1) |-> 0], indirect |-> 0, double |-> 0]

NoHandle == [inode |-> EmptyInode, mem |-> [b \in {} |-> NoRefs]]

LowestFree(S) == CHOOSE i \in S : \A j \in S : i <= j

CeilDiv(a, b) == (a + b - 1) \div b

NumBlocks(i) == CeilDiv(i.size, BlockSize)

\* The indirect blocks of a file of n blocks.
NumInner(n) ==
  (IF n > Direct THEN 1 ELSE 0)
    + (IF n > Direct + Refs THEN 1 + CeilDiv(n - Direct - Refs, Refs) ELSE 0)

\* The disk has room for the file, the inode, block 0 and one block of another file
\* (Volume has a disk that may be full); a write of MAX_WRITE_SIZE bytes is short.
ASSUME FileTreeSizes ==
  /\ MaxBlocks + NumInner(MaxBlocks) + 2 <= LastBlock
  /\ CeilDiv(MaxWrite, BlockSize) <= Refs
  /\ CeilDiv(MaxWrite, BlockSize) + 6 <= MaxTxn

-----------------------------------------------------------------------------
(* Where the blocks of a file are.                                         *)

\* llfs_get_pos, for the k-th block.
GetPos(k) ==
  IF k < Direct THEN [t |-> "direct", l1 |-> k]
  ELSE IF k < Refs + Direct THEN [t |-> "ind", l1 |-> k - Direct]
  ELSE LET d == (k - Direct - Refs) \div Refs
       IN [t |-> "dind", l1 |-> d, l2 |-> (k - Direct - Refs) - d * Refs]

\* The k-th block of the file with inode i, given the references in its
\* indirect blocks.
DataBlock(i, refs, k) ==
  LET p == GetPos(k)
  IN CASE p.t = "direct" -> i.direct[p.l1]
       [] p.t = "ind"    -> refs[i.indirect][p.l1]
       [] p.t = "dind"   -> refs[refs[i.double][p.l1]][p.l2]

Data(i, refs) == {DataBlock(i, refs, k) : k \in 0..(NumBlocks(i) - 1)}

Singles(n) == 0..(CeilDiv(n - Direct - Refs, Refs) - 1)

Inner(i, refs) ==
  (IF NumBlocks(i) > Direct THEN {i.indirect} ELSE {})
    \cup (IF NumBlocks(i) > Direct + Refs
          THEN {i.double} \cup {refs[i.double][d] : d \in Singles(NumBlocks(i))}
          ELSE {})

Tree(i, refs) == Data(i, refs) \cup Inner(i, refs)

\* llfs_open_indirect and llfs_open_dind read references up to the first 0.
UpToZero(refs) == {refs[r] : r \in {r \in DOMAIN refs : \A q \in 0..r : refs[q] # 0}}

ReadIn(i) ==
  {i.direct[d] : d \in {d \in 0..(Direct - 1) : d < NumBlocks(i)}}
    \cup (IF NumBlocks(i) > Direct
          THEN {i.indirect} \cup UpToZero(disk[i.indirect]) ELSE {})
    \cup (IF NumBlocks(i) > Direct + Refs
          THEN {i.double} \cup UNION {{s} \cup UpToZero(disk[s]) : s \in UpToZero(disk[i.double])}
          ELSE {})

-----------------------------------------------------------------------------
TreeInit ==
  /\ \E taken \in {{}} \cup {{b} : b \in Foreign} : free = Blocks \ ({0} \cup taken)
  /\ map = free
  /\ disk = [b \in Blocks |-> NoRefs]
  /\ inode = EmptyInode
  /\ loc = 0
  /\ handle = NoHandle
  /\ pc = "none"
  /\ pos = 0
  /\ left = 0
  /\ buffer = {}

\* llfs_create_file takes a block for the inode.
CreateFile ==
  /\ pc = "none"
  /\ loc' = LowestFree(free)
  /\ free' = free \ {loc'}
  /\ map' = free'
  /\ inode' = EmptyInode
  /\ pc' = "closed"
  /\ UNCHANGED <<disk, handle, pos, left, buffer>>

Open ==
  /\ pc = "closed"
  /\ handle' = [inode |-> inode, mem |-> [b \in ReadIn(inode) |-> disk[b]]]
  /\ pc' = "open"
  /\ UNCHANGED <<free, map, disk, inode, loc, pos, left, buffer>>

Close ==
  /\ pc = "open"
  /\ handle' = NoHandle
  /\ pc' = "closed"
  /\ pos' = 0
  /\ UNCHANGED <<free, map, disk, inode, loc, left, buffer>>

\* The computer stops and starts again: what was in memory only is lost, and
\* llfs_load reads the map.
Restart ==
  /\ free' = map
  /\ handle' = NoHandle
  /\ pc' = IF pc = "none" THEN "none" ELSE "closed"
  /\ pos' = 0
  /\ left' = 0
  /\ buffer' = {}
  /\ UNCHANGED <<map, disk, inode, loc>>

-----------------------------------------------------------------------------
\* Indirect blocks that are new with the block at position p.
NewInner(p) ==
  CASE p.t = "direct" -> 0
    [] p.t = "ind"    -> IF p.l1 = 0 THEN 1 ELSE 0
    [] p.t = "dind"   -> IF p.l2 # 0 THEN 0 ELSE IF p.l1 # 0 THEN 1 ELSE 2

\* Offsets that llfs_get_pos knows; for others it answers BYTE_OUT_OF_RANGE.
Offsets == {byte \in 0..(BlockSize * MaxBlocks) : byte \div BlockSize < Direct + Refs * Refs}

\* llfs_set goes through the indirect block that has the position, which there need
\* not be behind the end of the file, nor at an end where that block would be new.
Reachable(byte) ==
  LET p == GetPos(byte \div BlockSize)
  IN CASE p.t = "direct" -> TRUE
       [] p.t = "ind"    -> NumBlocks(handle.inode) > Direct
       [] p.t = "dind"   -> NumBlocks(handle.inode) > Direct + Refs + p.l1 * Refs

\* llfs_seek: LLFS_SEEK_START, LLFS_SEEK_END, and LLFS_SEEK_SET within the file or not.
Seek ==
  /\ pc = "open"
  /\ pos' \in {byte \in Offsets : Reachable(byte)}
  /\ UNCHANGED <<free, map, disk, inode, loc, handle, pc, left, buffer>>

SeekCrashes ==
  /\ pc = "open"
  /\ \E byte \in Offsets : ~Reachable(byte)
  /\ pc' = "seekFault"
  /\ UNCHANGED <<free, map, disk, inode, loc, handle, pos, left, buffer>>

-----------------------------------------------------------------------------
(* llfs_extend_file: a new block at the end of the file in the handle h,   *)
(* and the reference to it.                                                *)

\* The n-th block that llfs_reserve_blocks would take, lowest first: the new
\* block, then the indirect block for it, then the double indirect block.
Nth(n) == CHOOSE b \in free : Cardinality({c \in free : c <= b}) = n

\* The indirect block that will refer to the new block, and the double
\* indirect block above it.
Single(h, p) ==
  IF NewInner(p) > 0 THEN Nth(2)
  ELSE IF p.t = "ind" THEN h.inode.indirect ELSE h.mem[h.inode.double][p.l1]

Double(h, p) == IF NewInner(p) = 2 THEN Nth(3) ELSE h.inode.double

Taken(p) == {Nth(n) : n \in 1..(1 + NewInner(p))}

\* Mutant: an indirect block goes to the buffer when it is added only.
Changed_WhenNew(h, p) ==
  CASE p.t = "direct" -> {}
    [] p.t = "ind"    -> IF p.l1 = 0 THEN {Single(h, p)} ELSE {}
    [] p.t = "dind"   -> IF p.l2 = 0 THEN {Single(h, p), Double(h, p)} ELSE {}

\* The indirect blocks that go to the write buffer.
Changed(h, p) ==
  CASE p.t = "direct" -> {}
    [] p.t = "ind"    -> {Single(h, p)}
    [] p.t = "dind"   -> {Single(h, p)} \cup (IF p.l2 = 0 THEN {Double(h, p)} ELSE {})

ExtendedInode(h, p) ==
  CASE p.t = "direct" -> [h.inode EXCEPT !.direct[p.l1] = Nth(1)]
    [] p.t = "ind"    -> [h.inode EXCEPT !.indirect = Single(h, p)]
    [] p.t = "dind"   -> [h.inode EXCEPT !.double = Double(h, p)]

ExtendedMem(h, p) ==
  LET old(b) == IF b \in DOMAIN h.mem /\ b \notin Taken(p) THEN h.mem[b] ELSE NoRefs
  IN [b \in DOMAIN h.mem \cup Taken(p) |->
        CASE p.t = "ind" /\ b = Single(h, p)  -> [old(b) EXCEPT ![p.l1] = Nth(1)]
          [] p.t = "dind" /\ b = Single(h, p) -> [old(b) EXCEPT ![p.l2] = Nth(1)]
          [] p.t = "dind" /\ p.l2 = 0 /\ b = Double(h, p) ->
               [old(b) EXCEPT ![p.l1] = Single(h, p)]
          [] OTHER -> old(b)]

-----------------------------------------------------------------------------
(* llfs_write                                                              *)

\* Mutant: llfs_write takes a block more than MAX_WRITE_SIZE bytes.
Write_BlockMore ==
  /\ pc = "open"
  /\ left' \in {n \in 1..(MaxWrite + BlockSize) : CeilDiv(pos + n, BlockSize) <= MaxBlocks}
  /\ pc' = "writing"
  /\ buffer' = {}
  /\ UNCHANGED <<free, map, disk, inode, loc, handle, pos>>

Write ==
  /\ pc = "open"
  /\ left' \in {n \in 1..MaxWrite : CeilDiv(pos + n, BlockSize) <= MaxBlocks}
  /\ pc' = "writing"
  /\ buffer' = {}
  /\ UNCHANGED <<free, map, disk, inode, loc, handle, pos>>

Max2(a, b) == IF a > b THEN a ELSE b

\* file_size grows only where the pointer meets it.
SizeAfter(size, n) == IF pos <= size THEN Max2(size, pos + n) ELSE size

\* There is a block to write to, or one will be added.
HasBlock == pos = handle.inode.size \/ pos \div BlockSize < NumBlocks(handle.inode)

\* llfs_write_bytes up to the end of a block: the bytes at the end of a file
\* of full blocks need a new block first.
WriteBlock ==
  /\ pc = "writing"
  /\ left > 0
  /\ HasBlock
  /\ LET room == BlockSize - (pos % BlockSize)
         n    == IF left < room THEN left ELSE room
         p    == GetPos(pos \div BlockSize)
         grow == pos = handle.inode.size /\ pos % BlockSize = 0
         i    == IF grow THEN ExtendedInode(handle, p) ELSE handle.inode
         mem  == IF grow THEN ExtendedMem(handle, p) ELSE handle.mem
     IN /\ handle' = [inode |-> [i EXCEPT !.size = SizeAfter(@, n)], mem |-> mem]
        /\ free' = IF grow THEN free \ Taken(p) ELSE free
        /\ buffer' = buffer \cup {DataBlock(i, mem, pos \div BlockSize)}
                            \cup (IF grow THEN Changed(handle, p) ELSE {})
        /\ pos' = pos + n
        /\ left' = left - n
  /\ UNCHANGED <<map, disk, inode, loc, pc>>

\* Behind the last block of a file loc_pointer is null.
WriteCrashes ==
  /\ pc = "writing"
  /\ left > 0
  /\ ~HasBlock
  /\ pc' = "writeFault"
  /\ UNCHANGED <<free, map, disk, inode, loc, handle, pos, left, buffer>>

\* The buffer, the inode and the block map.
TxnLen == Cardinality(buffer) + 2

\* Mutant: the block map is left out of the transaction.
FinishWrite_MapKept ==
  /\ pc = "writing"
  /\ left = 0
  /\ disk' = [b \in Blocks |-> IF b \in buffer \cap DOMAIN handle.mem THEN handle.mem[b] ELSE disk[b]]
  /\ inode' = handle.inode
  /\ pc' = "open"
  /\ buffer' = {}
  /\ UNCHANGED <<free, map, loc, handle, pos, left>>

\* What journal_new_transaction answers is not looked at: a transaction that
\* is too long leaves the disk as it was.
FinishWrite ==
  /\ pc = "writing"
  /\ left = 0
  /\ IF TxnLen <= MaxTxn
     THEN /\ map' = free
          /\ disk' = [b \in Blocks |-> IF b \in buffer \cap DOMAIN handle.mem THEN handle.mem[b] ELSE disk[b]]
          /\ inode' = handle.inode
     ELSE UNCHANGED <<map, disk, inode>>
  /\ pc' = "open"
  /\ buffer' = {}
  /\ UNCHANGED <<free, loc, handle, pos, left>>

-----------------------------------------------------------------------------
(* llfs_delete: llfs_free_files opens the file, llfs_free_file_blocks      *)
(* frees what it refers to.                                                *)

SingleRefs(n) == {r \in 0..(Refs - 1) : Direct + r < n}

\* References in use in the d-th block of the double indirect block.
DoubleRefs(n, d) == {r \in 0..(Refs - 1) : Direct + Refs + d * Refs + r < n}

FreedDirect == {inode.direct[d] : d \in {d \in 0..(Direct - 1) : d < NumBlocks(inode)}}

\* Mutant: the indirect block itself is kept.
FreedIndirect_RefsOnly ==
  IF NumBlocks(inode) >= Direct
  THEN {disk[inode.indirect][r] : r \in SingleRefs(NumBlocks(inode))} ELSE {}

\* A file of exactly ten blocks has no indirect block: its reference is 0.
FreedIndirect ==
  IF NumBlocks(inode) >= Direct
  THEN {disk[inode.indirect][r] : r \in SingleRefs(NumBlocks(inode))} \cup {inode.indirect}
  ELSE {}

FreedDouble ==
  IF NumBlocks(inode) >= Direct + Refs
  THEN {inode.double} \cup UNION {
         {disk[inode.double][d]}
           \cup {disk[disk[inode.double][d]][r] : r \in DoubleRefs(NumBlocks(inode), d)} :
         d \in Singles(NumBlocks(inode))}
  ELSE {}

FreedInode == IF loc # 0 THEN {loc} ELSE {}

Delete ==
  /\ pc = "closed"
  /\ NumBlocks(inode) # Direct + Refs
  /\ free' = free \cup FreedInode \cup FreedDirect \cup FreedIndirect \cup FreedDouble
  /\ map' = free'
  /\ inode' = EmptyInode
  /\ loc' = 0
  /\ pc' = "none"
  /\ UNCHANGED <<disk, handle, pos, left, buffer>>

\* A file that fills its indirect block and has no double indirect block:
\* dind.content[0] is read through a null pointer.
DeleteCrashes ==
  /\ pc = "closed"
  /\ NumBlocks(inode) = Direct + Refs
  /\ free' = free \cup FreedInode \cup FreedDirect \cup FreedIndirect
  /\ pc' = "deleteFault"
  /\ UNCHANGED <<map, disk, inode, loc, handle, pos, left, buffer>>

TreeNext ==
  \/ CreateFile \/ Open \/ Close \/ Restart
  \/ Seek \/ SeekCrashes
  \/ Write \/ WriteBlock \/ WriteCrashes \/ FinishWrite
  \/ Delete \/ DeleteCrashes

TreeSpec == TreeInit /\ [][TreeNext]_treeVars

-----------------------------------------------------------------------------
TreeTypeOK ==
  LET Inode == [size : 0..(BlockSize * MaxBlocks), direct : [0..(Direct - 1) -> Blocks],
                indirect : Blocks, double : Blocks]
  IN /\ free \subseteq Blocks
     /\ map \subseteq Blocks
     /\ disk \in [Blocks -> [0..(Refs - 1) -> Blocks]]
     /\ inode \in Inode
     /\ loc \in Blocks
     /\ handle.inode \in Inode
     /\ \A b \in DOMAIN handle.mem : b \in Blocks /\ handle.mem[b] \in [0..(Refs - 1) -> Blocks]
     /\ pc \in {"none", "closed", "open", "writing", "seekFault", "writeFault", "deleteFault"}
     /\ pos \in 0..(BlockSize * MaxBlocks)
     /\ left \in 0..MaxWrite
     /\ buffer \subseteq Blocks

\* The blocks of the file on the disk are all different, none is the block of
\* its inode, and the map has none of them as free: neither this file nor
\* another one can be given a block that is in use.
NoBlockTwice ==
  pc \in {"closed", "open"} =>
    /\ Cardinality(Data(inode, disk)) = NumBlocks(inode)
    /\ Data(inode, disk) \cap Inner(inode, disk) = {}
    /\ loc \notin Tree(inode, disk)
    /\ 0 \notin Tree(inode, disk)
    /\ (Tree(inode, disk) \cup {loc}) \cap free = {}

\* What a process that opens the file would read is what the open handle has:
\* every changed reference reached the disk.
HandleIsOnDisk ==
  pc = "open" =>
    /\ inode = handle.inode
    /\ \A b \in Inner(inode, disk) : b \in DOMAIN handle.mem /\ handle.mem[b] = disk[b]

\* "ensure that the journal does not wrap around and write over itself": no
\* write of MAX_WRITE_SIZE bytes has more blocks than a transaction may have.
TransactionFits == pc = "writing" => TxnLen <= MaxTxn

\* Removing a file gives back all its blocks and no other block of a file.
DeleteFreesTree ==
  [][pc = "closed" /\ pc' = "none" =>
       free' \ {0} = (free \cup Tree(inode, disk) \cup {loc}) \ {0}]_treeVars
=============================================================================
