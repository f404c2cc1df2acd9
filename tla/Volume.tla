------------------------------- MODULE Volume -------------------------------
(***************************************************************************)
(* The LLFS volume (io/system.c): the free-block map and the inode map,    *)
(* in memory and on the disk, the inodes and one directory.  A call        *)
(* changes the maps in memory at once and hands the changed blocks to the  *)
(* journal, which logs them and copies them home one by one; the computer  *)
(* may stop before each of these, and llfs_load starts again from the      *)
(* disk.  The journal does what Journal shows of it, with no disk errors:  *)
(* it is atomic unless an old commit block stands where that of an         *)
(* interrupted entry would be.                                             *)
(* A file is opened for one write of one block and closed; its tree is in  *)
(* FileTree and the blocks of the directory are in Directory.              *)
(***************************************************************************)
EXTENDS Naturals, SequencesExt

CONSTANTS
  Names,         (* file names                                              *)
  LastBlock,     (* the blocks are 0..LastBlock: 4095                       *)
  Reserved,      (* blocks 0..Reserved-1 are never free: RESERVED_BLOCKS    *)
  MaxInodes,     (* inode numbers are 1..MaxInodes: MAX_INODES              *)
  MaxData,       (* bound on the data blocks of a file                      *)
  MaxCrashes,    (* bound on the crashes                                    *)
  MaxRefused,    (* bound on the creations refused for want of room         *)
  MaxLostNames   (* bound on the removals that do not reach the name        *)

ASSUME VolumeAssumption ==
  /\ LastBlock \in Nat
  /\ Reserved \in 1..LastBlock
  /\ MaxInodes \in Nat \ {0}
  /\ {MaxData, MaxCrashes, MaxRefused, MaxLostNames} \subseteq Nat

VARIABLES
  mem,       (* free_block_map and inode_map                                *)
  disk,      (* the same on the disk, the directory and the inodes          *)
  log,       (* the transaction: the blocks it changes, in order, and what  *)
             (* they become; NoTxn when there is none                       *)
  copied,    (* how many of them were copied home                           *)
  pc,        (* "up", "logging", "copying", "down", "recovering",           *)
             (* "recovered"                                                 *)
  reply,     (* what the last call returned                                 *)
  crashes, refused, lostNames  (* counters for the bounds                  *)

vars == <<mem, disk, log, copied, pc, reply, crashes, refused, lostNames>>

Blocks == 0..LastBlock

Inodes == 1..MaxInodes

NoTxn == [order |-> <<>>]

Least(S) == CHOOSE i \in S : \A j \in S : i <= j

-----------------------------------------------------------------------------
(* llfs_init: inode 1 is the root directory, in the last reserved block.   *)

InitialMaps == [free |-> Reserved..LastBlock,
                imap |-> [i \in Inodes |-> IF i = 1 THEN Reserved - 1 ELSE 0]]

Init ==
  /\ mem = InitialMaps
  /\ disk = [free  |-> InitialMaps.free,
             imap  |-> InitialMaps.imap,
             dir   |-> [n \in Names |-> 0],
             inode |-> [b \in Blocks |-> {}]]
  /\ log = NoTxn
  /\ copied = 0
  /\ pc = "up"
  /\ reply = "ok"
  /\ crashes = 0
  /\ refused = 0
  /\ lostNames = 0

-----------------------------------------------------------------------------
(* Parts of the calls.                                                     *)

\* Calls are made one at a time, once the volume is loaded.
Ready == pc \in {"up", "recovered"}

\* llfs_reserve_blocks, for one block: the lowest free one.  When there is
\* none, the scan runs off the map's end and reports no error: the number is
\* the caller's 0, or beyond the disk when the byte behind the map is not zero.
Reservable == IF mem.free # {} THEN {Least(mem.free)} ELSE {0, LastBlock + 1}

\* A directory entry has one byte for the inode number.
Entry(i) == i % MaxInodes

\* llfs_search_dir: the entry is on the disk, the inode map in memory.
Location(n) == mem.imap[disk.dir[n]]

\* What the inode at a block refers to.
InodeAt(b) == IF b \in Blocks THEN disk.inode[b] ELSE {}

WithInode(b, data) ==
  IF b \in Blocks THEN [disk.inode EXCEPT ![b] = data] ELSE disk.inode

\* journal_new_transaction starts.
Submit(order, target) ==
  /\ log' = [order |-> order, target |-> target]
  /\ copied' = 0
  /\ pc' = "logging"
  /\ UNCHANGED <<disk, crashes, refused, lostNames>>

\* A call that returns before it has a transaction.
Return(answer) ==
  /\ reply' = answer
  /\ UNCHANGED <<disk, log, copied, pc, crashes>>

-----------------------------------------------------------------------------
(* llfs_create_file                                                        *)

FreeInodes == {i \in Inodes : mem.imap[i] = 0}

Create(n) ==
  /\ Ready
  /\ disk.dir[n] = 0
  /\ FreeInodes # {}
  /\ \E b \in Reservable :
       LET i    == Least(FreeInodes)
           maps == [free |-> mem.free \ {b}, imap |-> [mem.imap EXCEPT ![i] = b]]
       IN /\ mem' = maps
          /\ Submit(<<"dir", "inode", "imap", "free">>,
                    [free  |-> maps.free,
                     imap  |-> maps.imap,
                     dir   |-> [disk.dir EXCEPT ![n] = Entry(i)],
                     inode |-> WithInode(b, {})])
  /\ reply' = "ok"

CreateExisting(n) ==
  /\ Ready
  /\ disk.dir[n] # 0
  /\ Return("file_already_exists")
  /\ UNCHANGED <<mem, refused, lostNames>>

\* llfs_reserve_inode finds none: the block stays reserved in memory.
CreateNoInode(n) ==
  /\ Ready
  /\ disk.dir[n] = 0
  /\ FreeInodes = {}
  /\ refused < MaxRefused
  /\ \E b \in Reservable : mem' = [mem EXCEPT !.free = @ \ {b}]
  /\ refused' = refused + 1
  /\ Return("disk_full")
  /\ UNCHANGED lostNames

\* llfs_dir_append finds no room: block and inode stay reserved in memory.
CreateDirFull(n) ==
  /\ Ready
  /\ disk.dir[n] = 0
  /\ FreeInodes # {}
  /\ refused < MaxRefused
  /\ \E b \in Reservable :
       mem' = [free |-> mem.free \ {b}, imap |-> [mem.imap EXCEPT ![Least(FreeInodes)] = b]]
  /\ refused' = refused + 1
  /\ Return("file_full")
  /\ UNCHANGED lostNames

-----------------------------------------------------------------------------
(* llfs_fopen, llfs_fwrite of a new block at the end, llfs_fclose          *)

\* Mutant: the free block map is not written.
Write_MapKept(n) ==
  /\ Ready
  /\ disk.dir[n] # 0
  /\ Cardinality(InodeAt(Location(n))) < MaxData
  /\ \E b \in Reservable :
       LET free == mem.free \ {b}
           loc  == Location(n)
       IN /\ mem' = [mem EXCEPT !.free = free]
          /\ Submit(<<"inode">>, [disk EXCEPT !.inode = WithInode(loc, InodeAt(loc) \cup {b})])
  /\ reply' = "ok"

Write(n) ==
  /\ Ready
  /\ disk.dir[n] # 0
  /\ Cardinality(InodeAt(Location(n))) < MaxData
  /\ \E b \in Reservable :
       LET free == mem.free \ {b}
           loc  == Location(n)
       IN /\ mem' = [mem EXCEPT !.free = free]
          /\ Submit(<<"inode", "free">>,
                    [disk EXCEPT !.inode = WithInode(loc, InodeAt(loc) \cup {b}), !.free = free])
  /\ reply' = "ok"

-----------------------------------------------------------------------------
(* llfs_delete: llfs_free_files, llfs_dir_remove, llfs_free_inode          *)

FreedBy(n) == ({Location(n)} \cup InodeAt(Location(n))) \cap Blocks

Delete(n) ==
  /\ Ready
  /\ disk.dir[n] # 0
  /\ LET maps == [free |-> mem.free \cup FreedBy(n),
                  imap |-> [mem.imap EXCEPT ![disk.dir[n]] = 0]]
     IN /\ mem' = maps
        /\ Submit(<<"dir", "free", "imap">>,
                  [disk EXCEPT !.free = maps.free, !.imap = maps.imap, !.dir[n] = 0])
  /\ reply' = "ok"

DeleteMissing(n) ==
  /\ Ready
  /\ disk.dir[n] = 0
  /\ Return("file_not_found")
  /\ UNCHANGED <<mem, refused, lostNames>>

\* llfs_dir_remove does not reach the name (RemoveUnreached in Directory): its
\* blocks are free in memory by now.
DeleteUnreached(n) ==
  /\ Ready
  /\ disk.dir[n] # 0
  /\ lostNames < MaxLostNames
  /\ mem' = [mem EXCEPT !.free = @ \cup FreedBy(n)]
  /\ lostNames' = lostNames + 1
  /\ Return("inode_free")
  /\ UNCHANGED refused

-----------------------------------------------------------------------------
(* The journal, crashes and llfs_load                                      *)

\* The commit block is in the log.
Commit ==
  /\ pc = "logging"
  /\ pc' = "copying"
  /\ UNCHANGED <<mem, disk, log, copied, reply, crashes, refused, lostNames>>

CopyHome ==
  /\ pc \in {"copying", "recovering"}
  /\ copied < Len(log.order)
  /\ LET part == log.order[copied + 1]
     IN disk' = [disk EXCEPT ![part] = log.target[part]]
  /\ copied' = copied + 1
  /\ UNCHANGED <<mem, log, pc, reply, crashes, refused, lostNames>>

\* The super block no longer points to the entry.
Retire ==
  /\ pc \in {"copying", "recovering"}
  /\ copied = Len(log.order)
  /\ log' = NoTxn
  /\ copied' = 0
  /\ pc' = IF pc = "copying" THEN "up" ELSE "recovered"
  /\ UNCHANGED <<mem, disk, reply, crashes, refused, lostNames>>

\* Mutant: an entry whose copying was interrupted is ignored afterwards.
Crash_EntryIgnored ==
  /\ crashes < MaxCrashes
  /\ pc # "down"
  /\ log' = NoTxn
  /\ copied' = 0
  /\ pc' = "down"
  /\ crashes' = crashes + 1
  /\ UNCHANGED <<mem, disk, reply, refused, lostNames>>

\* A block that is not a commit block stands where that of the entry would be: the
\* entry is ignored afterwards.
Crash ==
  /\ crashes < MaxCrashes
  /\ pc # "down"
  /\ log' = IF pc = "logging" THEN NoTxn ELSE log
  /\ copied' = 0
  /\ pc' = "down"
  /\ crashes' = crashes + 1
  /\ UNCHANGED <<mem, disk, reply, refused, lostNames>>

\* A commit block of an earlier lap of the log stands there: the entry will be
\* accepted, although only its first blocks were logged.  The slots of the others
\* hold what that lap left in them; the model takes an older version of the same
\* blocks.
CrashStaleCommit ==
  /\ crashes < MaxCrashes
  /\ pc = "logging"
  /\ \E k \in 0..Len(log.order) :
       LET logged == Range(SubSeq(log.order, 1, k))
       IN log' = [order  |-> log.order,
                  target |-> [part \in DOMAIN disk |->
                                IF part \in logged THEN log.target[part] ELSE disk[part]]]
  /\ copied' = 0
  /\ pc' = "down"
  /\ crashes' = crashes + 1
  /\ UNCHANGED <<mem, disk, reply, refused, lostNames>>

\* llfs_load reads the maps, then calls journal_recover.
Load ==
  /\ pc \in {"down", "up", "recovered"}
  /\ mem' = [free |-> disk.free, imap |-> disk.imap]
  /\ pc' = IF log = NoTxn THEN "up" ELSE "recovering"
  /\ UNCHANGED <<disk, log, copied, reply, crashes, refused, lostNames>>

Call == \E n \in Names :
  \/ Create(n) \/ CreateExisting(n) \/ CreateNoInode(n) \/ CreateDirFull(n)
  \/ Write(n)
  \/ Delete(n) \/ DeleteMissing(n) \/ DeleteUnreached(n)

Next == Call \/ Commit \/ CopyHome \/ Retire \/ Crash \/ CrashStaleCommit \/ Load

Spec == Init /\ [][Next]_vars

\* A call that reserves a block finds one.
ReservesFree == log' # log /\ "inode" \in Range(log'.order) => mem.free # {}

\* What a client can do about the faults of the code: call llfs_load again after a
\* recovery, before anything else, and reserve nothing on a full disk.  And what it
\* cannot do anything about: no removal fails half-way, and no crash in the middle
\* of logging meets an old commit block (the run journal_stale_commit shows that in
\* the journal, and AtomicUpdates what it promises without).
CarefulStep ==
  /\ pc = "recovered" => Load \/ Crash
  /\ ReservesFree
  /\ lostNames' = lostNames
  /\ ~CrashStaleCommit

CarefulNext == Next /\ CarefulStep

CarefulSpec == Init /\ [][CarefulNext]_vars

-----------------------------------------------------------------------------
TypeOK ==
  LET Maps(r) == r.free \subseteq Blocks /\ r.imap \in [Inodes -> 0..(LastBlock + 1)]
      Disk(r) == /\ Maps(r)
                 /\ r.dir \in [Names -> 0..MaxInodes]
                 /\ r.inode \in [Blocks -> SUBSET (0..(LastBlock + 1))]
  IN /\ Maps(mem)
     /\ Disk(disk)
     /\ log # NoTxn => Disk(log.target) /\ Range(log.order) \subseteq DOMAIN disk
     /\ copied \in 0..Len(log.order)
     /\ pc \in {"up", "logging", "copying", "down", "recovering", "recovered"}
     /\ pc \in {"logging", "copying", "recovering"} => log # NoTxn
     /\ pc \in {"up", "recovered"} => log = NoTxn

\* What the disk will be once the committed transaction is copied home.
Durable == IF log # NoTxn /\ pc # "logging" THEN log.target ELSE disk

Files(d) == {n \in Names : d.dir[n] # 0}

BlocksOf(d, n) == LET loc == d.imap[d.dir[n]] IN {loc} \cup d.inode[loc]

\* On the disk, and in what a recovery would make of it: every name has an inode of its own, no
\* block belongs to two files, and the map has none of them as free.
DiskConsistent ==
  \A n \in Files(Durable) :
    /\ Durable.imap[Durable.dir[n]] \in Reserved..LastBlock
    /\ BlocksOf(Durable, n) \cap Durable.free = {}
    /\ \A m \in Files(Durable) \ {n} :
         /\ Durable.dir[n] # Durable.dir[m]
         /\ BlocksOf(Durable, n) \cap BlocksOf(Durable, m) = {}

\* "A map of blocks which are available" (llfs_reserve_blocks): the map in memory
\* has no block of a file as available.
AvailableIsUnused ==
  pc = "up" => \A n \in Files(disk) : BlocksOf(disk, n) \cap mem.free = {}

\* "llfs_load which brings all of the data from the disk such as block map and
\* inode map into memory" (README.md): the maps in memory are those of the disk
\* when llfs_load has returned.
LoadedIsOnDisk ==
  pc = "recovered" => mem.free = disk.free /\ mem.imap = disk.imap
=============================================================================
