------------------------------- MODULE Blocks -------------------------------
(***************************************************************************)
(* The 512-byte blocks of an LLFS disk as the journal tells them apart,    *)
(* and the transactions (file_block lists) the file system hands to it.    *)
(* journal.c recognises a block by its first 32-bit word only, so a block  *)
(* is a record whose "type" is what that word says.  Nothing stops a block *)
(* of user data (or the inode of a two-byte file) from starting with the   *)
(* word JOURNAL_COMMIT: DataTypes says which first words data can have.    *)
(***************************************************************************)
EXTENDS Naturals, Sequences

CONSTANTS
  Home,       (* block numbers outside the journal that transactions update *)
  Data,       (* the contents such a block can be given                     *)
  DataTypes,  (* first words of data: "data", and "commit" for a look-alike *)
  MaxTxn      (* MAX_TRANSACTION_LEN                                        *)

ASSUME BlocksAssumption ==
  /\ MaxTxn \in Nat \ {0}
  /\ DataTypes \subseteq {"data", "commit"}

ZeroBlock   == [type |-> "zero"]
CommitBlock == [type |-> "commit"]
DataBlock   == [type : DataTypes, val : Data]

\* The write buffer refuses a second entry for a block number
\* (BUFFER_DUPLICATE_ERROR), so the locations of a transaction are distinct.
Distinct(s) == \A i, j \in DOMAIN s : s[i] = s[j] => i = j

Locations == {s \in UNION {[1..n -> Home] : n \in 1..MaxTxn} : Distinct(s)}

Descriptor(locs) == [type |-> "descriptor", blocks |-> locs]

Block == {ZeroBlock, CommitBlock} \cup DataBlock
           \cup {Descriptor(locs) : locs \in Locations}

\* A transaction: n file_blocks, each a block number and its new content.
Transaction(Content) ==
  {t \in [locs : Locations, content : UNION {[1..n -> Content] : n \in 1..MaxTxn}] :
     DOMAIN t.locs = DOMAIN t.content}

NoTransaction == [locs |-> <<>>, content |-> <<>>]

\* The store after every block of the transaction t reached its location.
Overlay(store, t) ==
  [h \in Home |->
     IF \E k \in DOMAIN t.locs : t.locs[k] = h
     THEN t.content[CHOOSE k \in DOMAIN t.locs : t.locs[k] = h]
     ELSE store[h]]
=============================================================================
