------------------------------ MODULE Journal ------------------------------
(***************************************************************************)
(* The LLFS redo journal (io/journal.c) over its disk (disk/disk.c), one   *)
(* action per block written to the disk, with a crash possible before      *)
(* every write and a disk error possible at every access.  The process is  *)
(* single threaded, so all the reads of a call are one action.             *)
(***************************************************************************)
EXTENDS Blocks

CONSTANTS
  LogLen,     (* slots of the log: JOURNAL_LENGTH - 1             *)
  MaxFaults   (* bound on the disk accesses that return an error  *)

ASSUME JournalAssumption ==
  /\ LogLen \in Nat
  /\ LogLen > MaxTxn + 2
  /\ MaxFaults \in Nat

VARIABLES
  home,       (* disk: the blocks outside the journal                       *)
  log,        (* disk: the slots of the circular log                        *)
  diskStart,  (* disk: log_start in the journal super block                 *)
  start,      (* memory: super.log_start                                    *)
  pc,         (* the next thing the running call does; "down" after a crash *)
  caller,     (* the call that is running: journal_new_transaction ("new"), *)
              (* journal_recover ("recover") or none                        *)
  txn,        (* memory: the argument of journal_new_transaction, then the  *)
              (* copy journal_transaction_commit reads back from the log    *)
  cursor,     (* memory: the loop index i + 1                               *)
  result,     (* what the last call returned, or the error it will return   *)
  faults      (* disk accesses that failed so far                           *)

vars == <<home, log, diskStart, start, pc, caller, txn, cursor, result, faults>>

Slots == 0..(LogLen - 1)

\* The slot of the log at an index (the location of the journal is dropped).
jindex(val) == val % LogLen

NumBlocks(t) == Len(t.locs)

-----------------------------------------------------------------------------
(* What a reader of the disk makes of the log at index s.                  *)

\* journal_transaction_commit accepts the entry: a descriptor, and a block
\* that reads as a commit block right after the blocks it announces.
Accepted(s) ==
  /\ log[jindex(s)].type = "descriptor"
  /\ log[jindex(s + Len(log[jindex(s)].blocks) + 1)].type = "commit"

\* The transaction that journal_transaction_commit reads from the log.
ReadBack(s) ==
  LET locs == log[jindex(s)].blocks
  IN [locs |-> locs, content |-> [k \in 1..Len(locs) |-> log[jindex(s + k)]]]

-----------------------------------------------------------------------------
\* journal_init on a disk that disk_init filled with zeros.
Init ==
  /\ home = [h \in Home |-> ZeroBlock]
  /\ log = [s \in Slots |-> ZeroBlock]
  /\ diskStart = 0
  /\ start = 0
  /\ pc = "idle"
  /\ caller = "none"
  /\ txn = NoTransaction
  /\ cursor = 1
  /\ result = "ok"
  /\ faults = 0

Returns(r) ==
  /\ pc' = "idle"
  /\ caller' = "none"
  /\ txn' = NoTransaction
  /\ cursor' = 1
  /\ result' = r

\* disk_read_block or disk_write_block returns an error; the disk is unchanged.
DiskError ==
  /\ faults < MaxFaults
  /\ faults' = faults + 1

-----------------------------------------------------------------------------
(* journal_new_transaction                                                 *)

NewTransaction(t) ==
  /\ pc = "idle"
  /\ pc' = "descriptor"
  /\ caller' = "new"
  /\ txn' = t
  /\ result' = "ok"
  /\ UNCHANGED <<home, log, diskStart, start, cursor, faults>>

\* More than MAX_TRANSACTION_LEN blocks: refused before anything is written.
TransactionTooLong ==
  /\ pc = "idle"
  /\ result' = "journal_error"
  /\ UNCHANGED <<home, log, diskStart, start, pc, caller, txn, cursor, faults>>

WriteDescriptor ==
  /\ pc = "descriptor"
  /\ log' = [log EXCEPT ![jindex(start)] = Descriptor(txn.locs)]
  /\ pc' = "data"
  /\ UNCHANGED <<home, diskStart, start, caller, txn, cursor, result, faults>>

WriteData ==
  /\ pc = "data"
  /\ log' = [log EXCEPT ![jindex(start + cursor)] = txn.content[cursor]]
  /\ IF cursor = NumBlocks(txn)
     THEN pc' = "commit" /\ cursor' = 1
     ELSE cursor' = cursor + 1 /\ UNCHANGED pc
  /\ UNCHANGED <<home, diskStart, start, caller, txn, result, faults>>

WriteCommit ==
  /\ pc = "commit"
  /\ log' = [log EXCEPT ![jindex(start + NumBlocks(txn) + 1)] = CommitBlock]
  /\ pc' = "apply"
  /\ UNCHANGED <<home, diskStart, start, caller, txn, cursor, result, faults>>

\* Any of those writes fails: the call gives up with DISK_ERROR.
LogWriteFails ==
  /\ pc \in {"descriptor", "data", "commit"}
  /\ DiskError
  /\ Returns("disk_error")
  /\ UNCHANGED <<home, log, diskStart, start>>

-----------------------------------------------------------------------------
(* journal_transaction_commit, called by journal_new_transaction and by    *)
(* journal_recover                                                         *)

\* Mutant: any descriptor is replayed, committed or not.
ReadEntry_NoCommitCheck ==
  /\ pc = "apply"
  /\ log[jindex(start)].type = "descriptor"
  /\ txn' = ReadBack(start)
  /\ pc' = "home"
  /\ UNCHANGED <<home, log, diskStart, start, caller, cursor, result, faults>>

\* The entry is complete: its blocks are read and write_blocks begins.
ReadEntry ==
  /\ pc = "apply"
  /\ Accepted(start)
  /\ txn' = ReadBack(start)
  /\ pc' = "home"
  /\ UNCHANGED <<home, log, diskStart, start, caller, cursor, result, faults>>

\* Mutant: journal_recover passes JOURNAL_ERROR on, so the load fails.
IgnoreEntry_LoadFails ==
  /\ pc = "apply"
  /\ ~Accepted(start)
  /\ pc' = IF caller = "recover" THEN "down" ELSE "idle"
  /\ caller' = "none"
  /\ txn' = NoTransaction
  /\ cursor' = 1
  /\ result' = "journal_error"
  /\ UNCHANGED <<home, log, diskStart, start, faults>>

\* No entry or an incomplete one: JOURNAL_ERROR, which journal_recover hides.
IgnoreEntry ==
  /\ pc = "apply"
  /\ ~Accepted(start)
  /\ Returns(IF caller = "recover" THEN "ok" ELSE "journal_error")
  /\ UNCHANGED <<home, log, diskStart, start, faults>>

\* The descriptor or the commit block cannot be read.
ReadHeaderFails ==
  /\ pc = "apply"
  /\ DiskError
  /\ Returns("disk_error")
  /\ UNCHANGED <<home, log, diskStart, start>>

\* A logged block cannot be read (or its buffer allocated): write_blocks is
\* skipped, err stays 0 and the entry is retired.
ReadDataFails ==
  /\ pc = "apply"
  /\ Accepted(start)
  /\ DiskError
  /\ txn' = ReadBack(start)
  /\ pc' = "zero"
  /\ UNCHANGED <<home, log, diskStart, start, caller, cursor, result>>

\* Mutant: the loop stops one block short.
WriteHome_LastSkipped ==
  /\ pc = "home"
  /\ home' = [home EXCEPT ![txn.locs[cursor]] = txn.content[cursor]]
  /\ IF cursor + 1 >= NumBlocks(txn)
     THEN pc' = "zero" /\ cursor' = 1
     ELSE cursor' = cursor + 1 /\ UNCHANGED pc
  /\ UNCHANGED <<log, diskStart, start, caller, txn, result, faults>>

\* write_blocks copies one block to its location.
WriteHome ==
  /\ pc = "home"
  /\ home' = [home EXCEPT ![txn.locs[cursor]] = txn.content[cursor]]
  /\ IF cursor = NumBlocks(txn)
     THEN pc' = "zero" /\ cursor' = 1
     ELSE cursor' = cursor + 1 /\ UNCHANGED pc
  /\ UNCHANGED <<log, diskStart, start, caller, txn, result, faults>>

\* write_blocks stops at the first error, but the entry is retired all the same.
WriteHomeFails ==
  /\ pc = "home"
  /\ DiskError
  /\ pc' = "zero"
  /\ cursor' = 1
  /\ result' = "disk_error"
  /\ UNCHANGED <<home, log, diskStart, start, caller, txn>>

NextStart == jindex(start + NumBlocks(txn) + 2)

\* Mutant: the slot of the next descriptor keeps what an earlier lap left there.
ZeroNextSlot_NotCleared ==
  /\ pc = "zero"
  /\ pc' = "super"
  /\ UNCHANGED <<home, log, diskStart, start, caller, txn, cursor, result, faults>>

\* The slot of the next descriptor is cleared before log_start moves to it.
ZeroNextSlot ==
  /\ pc = "zero"
  /\ log' = [log EXCEPT ![NextStart] = ZeroBlock]
  /\ pc' = "super"
  /\ UNCHANGED <<home, diskStart, start, caller, txn, cursor, result, faults>>

ZeroNextSlotFails ==
  /\ pc = "zero"
  /\ DiskError
  /\ pc' = "super"
  /\ result' = "disk_error"
  /\ UNCHANGED <<home, log, diskStart, start, caller, txn, cursor>>

WriteSuper ==
  /\ pc = "super"
  /\ start' = NextStart
  /\ diskStart' = NextStart
  /\ Returns(result)
  /\ UNCHANGED <<home, log, faults>>

\* The copy in memory has moved on although the disk's has not.
WriteSuperFails ==
  /\ pc = "super"
  /\ DiskError
  /\ start' = NextStart
  /\ Returns("disk_error")
  /\ UNCHANGED <<home, log, diskStart>>

-----------------------------------------------------------------------------
(* The process dies and llfs_load runs in a new one                        *)

Crash ==
  /\ pc # "down"
  /\ pc' = "down"
  /\ start' = 0
  /\ caller' = "none"
  /\ txn' = NoTransaction
  /\ cursor' = 1
  /\ result' = "ok"
  /\ UNCHANGED <<home, log, diskStart, faults>>

\* journal_recover reads the super block and calls journal_transaction_commit.
Recover ==
  /\ pc = "down"
  /\ start' = diskStart
  /\ pc' = "apply"
  /\ caller' = "recover"
  /\ UNCHANGED <<home, log, diskStart, txn, cursor, result, faults>>

\* The super block cannot be read: super keeps the zeros of a new process, and
\* nothing keeps the program from going on with it.
RecoverFails ==
  /\ pc = "down"
  /\ DiskError
  /\ Returns("disk_error")
  /\ UNCHANGED <<home, log, diskStart, start>>

Step ==
  \/ WriteDescriptor \/ WriteData \/ WriteCommit \/ LogWriteFails
  \/ ReadEntry \/ IgnoreEntry \/ ReadHeaderFails \/ ReadDataFails
  \/ WriteHome \/ WriteHomeFails
  \/ ZeroNextSlot \/ ZeroNextSlotFails \/ WriteSuper \/ WriteSuperFails

Next ==
  \/ \E t \in Transaction(DataBlock) : NewTransaction(t)
  \/ TransactionTooLong
  \/ Step
  \/ Crash
  \/ Recover
  \/ RecoverFails

Spec == Init /\ [][Next]_vars

\* A call that has begun goes on, and a disk that went down is loaded again.
Fairness == WF_vars(Step) /\ WF_vars(Recover \/ RecoverFails)

-----------------------------------------------------------------------------
(* The journal never looks whether the slot where it is about to expect a  *)
(* commit block already reads as one: a commit block of an earlier lap of  *)
(* the log, or data that looks like one.  The run journal_stale_commit     *)
(* shows what comes of it; CleanNext is the journal for a client whose     *)
(* transactions never meet such a slot.                                    *)

CommitSlotClean == log[jindex(start + NumBlocks(txn) + 1)].type # "commit"

CleanNext == Next /\ (pc = "idle" /\ pc' = "descriptor" => CommitSlotClean')

-----------------------------------------------------------------------------
(* Every variable has its type.                                            *)
TypeOK ==
  /\ home \in [Home -> Block]
  /\ log \in [Slots -> Block]
  /\ diskStart \in Slots
  /\ start \in Slots
  /\ pc \in {"idle", "descriptor", "data", "commit", "apply", "home", "zero",
             "super", "down"}
  /\ caller \in {"none", "new", "recover"}
  /\ txn \in Transaction(Block) \cup {NoTransaction}
  /\ pc \in {"descriptor", "data", "commit", "home", "zero", "super"}
       => txn \in Transaction(Block)
  /\ cursor \in 1..MaxTxn
  /\ cursor = 1 \/ (pc \in {"data", "home"} /\ cursor \in DOMAIN txn.locs)
  /\ result \in {"ok", "journal_error", "disk_error"}
  /\ faults \in 0..MaxFaults

\* "If error entry is incomplete and will be ignored" (journal_recover): while
\* an entry lacks a data block or its commit block, a recovery after a crash at
\* this point would not accept it.
IncompleteEntryIgnored ==
  pc \in {"data", "commit"} => ~Accepted(diskStart)

\* Write-ahead: as long as no disk access has failed, a block outside the journal
\* changes only while the log holds a complete entry for it, so that a crash in
\* the middle can be repaired.
WriteAhead ==
  [][faults' = 0 =>
       \A h \in Home : home'[h] # home[h] =>
         /\ Accepted(diskStart)
         /\ h \in {ReadBack(diskStart).locs[k] : k \in DOMAIN ReadBack(diskStart).locs}]_vars

Applied(t) == \A k \in DOMAIN t.locs : home[t.locs[k]] = t.content[k]

\* As long as no disk access has failed, log_start moves past an entry only once
\* its blocks are at their locations.
RetiredEntryIsApplied ==
  [][faults' = 0 /\ diskStart' # diskStart => Applied(txn)]_vars

\* Unless the machine goes down again and again, the journal always gets back
\* to where it accepts a transaction: calls and recoveries terminate.
AlwaysIdleAgain == []<><<Crash>>_vars \/ []<>(pc = "idle")

-----------------------------------------------------------------------------
(* Why all this holds while the disk returns no errors: where the running  *)
(* call is tells what the log holds and how far the copy has come.         *)

\* Who is running at each point of the code, and where the log starts for it.
ControlInv ==
  /\ pc # "down" => start = diskStart
  /\ pc \in {"idle", "down"} => caller = "none"
  /\ pc \in {"descriptor", "data", "commit"} => caller = "new"
  /\ pc \in {"apply", "home", "zero", "super"} => caller \in {"new", "recover"}
  /\ caller = "new" => txn \in Transaction(Block)

\* The part of txn that journal_new_transaction has written to the log.
Logged ==
  /\ log[jindex(start)] = Descriptor(txn.locs)
  /\ \A k \in DOMAIN txn.locs :
       (pc = "data" => k < cursor) => log[jindex(start + k)] = txn.content[k]

LogInv ==
  /\ pc \in {"data", "commit"} => Logged
  /\ pc = "apply" /\ caller = "new" => Logged /\ Accepted(start)
  /\ pc \in {"home", "zero", "super"} => Accepted(start) /\ txn = ReadBack(start)

\* The copy to the final locations, and the slot of the next descriptor.
ApplyInv ==
  /\ pc = "home" =>
       \A k \in DOMAIN txn.locs : k < cursor => home[txn.locs[k]] = txn.content[k]
  /\ pc \in {"zero", "super"} => Applied(txn)
  /\ pc = "super" => log[NextStart] = ZeroBlock

\* When no call is running, and until a call has written its descriptor, the
\* log holds nothing a recovery would replay over the blocks in place.
IdleLogIsEmpty == pc \in {"idle", "descriptor"} => ~Accepted(diskStart)

JournalInv == TypeOK /\ ControlInv /\ LogInv /\ ApplyInv /\ IdleLogIsEmpty

-----------------------------------------------------------------------------
(* The journal implements AtomicStore: the store is what a recovery started *)
(* now would leave on the disk.                                            *)

RecoveredStore ==
  IF Accepted(diskStart) THEN Overlay(home, ReadBack(diskStart)) ELSE home

Busy == caller = "new"

Store == INSTANCE AtomicStore WITH
  store   <- RecoveredStore,
  status  <- IF Busy THEN "busy" ELSE IF pc = "idle" THEN "idle" ELSE "down",
  request <- IF Busy THEN txn ELSE NoTransaction,
  done    <- Busy /\ Accepted(diskStart)
=============================================================================
