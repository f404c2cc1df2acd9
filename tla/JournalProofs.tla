--------------------------- MODULE JournalProofs ---------------------------
(* Theorems about the journal and their proofs. *)
EXTENDS MCJournal, SequenceTheorems, TLAPS

-----------------------------------------------------------------------------
(* The circular log: an index stays a slot, and distinct offsets smaller   *)
(* than the log from one start are distinct slots.                         *)

LEMMA DivisionUnique ==
  ASSUME NEW L \in Nat, L > 0, NEW q \in Int, NEW r \in Int, 0 <= r, r < L,
         NEW p \in Int, NEW t \in Int, 0 <= t, t < L, L * q + r = L * p + t
  PROVE  r = t
<1>1. L * (q - p) = t - r
  OBVIOUS
<1>2. CASE q = p
  BY <1>2
<1>3. CASE q - p >= 1
  <2>1. L * (q - p) >= L
    BY <1>3
  <2> QED BY <1>1, <2>1
<1>4. CASE q - p <= -1
  <2>1. L * (q - p) <= -L
    BY <1>4
  <2> QED BY <1>1, <2>1
<1> QED BY <1>2, <1>3, <1>4

LEMMA JindexType ==
  ASSUME NEW v \in Nat PROVE jindex(v) \in Slots
BY JournalAssumption, BlocksAssumption DEF jindex, Slots

LEMMA JindexCases ==
  ASSUME NEW v \in Nat, v < 2 * LogLen
  PROVE  jindex(v) = IF v < LogLen THEN v ELSE v - LogLen
<1> DEFINE r == IF v < LogLen THEN v ELSE v - LogLen
           p == IF v < LogLen THEN 0 ELSE 1
<1>1. LogLen \in Nat /\ LogLen > 0
  BY JournalAssumption, BlocksAssumption
<1>2. v = LogLen * (v \div LogLen) + (v % LogLen) /\ v % LogLen \in 0..(LogLen - 1)
      /\ v \div LogLen \in Int
  BY <1>1
<1>3. v = LogLen * p + r /\ r \in 0..(LogLen - 1)
  BY <1>1
<1>4. v % LogLen = r
  BY <1>1, <1>2, <1>3, DivisionUnique
<1> QED BY <1>4 DEF jindex

LEMMA JindexSlot ==
  ASSUME NEW s \in Slots PROVE jindex(s) = s
BY JindexCases, JournalAssumption, BlocksAssumption DEF Slots

LEMMA JindexDistinct ==
  ASSUME NEW s \in Slots, NEW a \in 0..(LogLen - 1), NEW b \in 0..(LogLen - 1), a # b
  PROVE  jindex(s + a) # jindex(s + b)
<1>1. LogLen \in Nat /\ LogLen > 0
  BY JournalAssumption, BlocksAssumption
<1>2. s + a \in Nat /\ s + b \in Nat /\ s + a < 2 * LogLen /\ s + b < 2 * LogLen
  BY <1>1 DEF Slots
<1> QED BY <1>1, <1>2, JindexCases DEF Slots

-----------------------------------------------------------------------------
(* Blocks and transactions.                                                *)

LEMMA LocationsFacts ==
  ASSUME NEW l \in Locations
  PROVE  /\ Len(l) \in 1..MaxTxn
         /\ l \in [1..Len(l) -> Home]
         /\ DOMAIN l = 1..Len(l)
         /\ Distinct(l)
<1>1. PICK n \in 1..MaxTxn : l \in [1..n -> Home]
  BY DEF Locations
<1>2. n \in Nat /\ l \in Seq(Home)
  BY <1>1, BlocksAssumption
<1>3. Len(l) = n
  BY <1>1, <1>2
<1> QED BY <1>1, <1>3 DEF Locations

LEMMA TransactionFacts ==
  ASSUME NEW S, NEW t \in Transaction(S)
  PROVE  /\ t.locs \in Locations
         /\ t.content \in [1..NumBlocks(t) -> S]
         /\ NumBlocks(t) \in 1..MaxTxn
         /\ DOMAIN t.locs = 1..NumBlocks(t)
<1>1. t.locs \in Locations /\ DOMAIN t.locs = DOMAIN t.content
  BY DEF Transaction
<1>2. PICK n \in 1..MaxTxn : t.content \in [1..n -> S]
  BY DEF Transaction
<1>3. DOMAIN t.content = 1..NumBlocks(t)
  BY <1>1, LocationsFacts DEF NumBlocks
<1> QED BY <1>1, <1>2, <1>3, LocationsFacts DEF NumBlocks

LEMMA TransactionIntro ==
  ASSUME NEW S, NEW l \in Locations, NEW c \in [1..Len(l) -> S]
  PROVE  [locs |-> l, content |-> c] \in Transaction(S)
BY LocationsFacts DEF Transaction

LEMMA DataIsBlock == Transaction(DataBlock) \subseteq Transaction(Block)
<1> SUFFICES ASSUME NEW t \in Transaction(DataBlock) PROVE t \in Transaction(Block)
  OBVIOUS
<1>1. t = [locs |-> t.locs, content |-> t.content]
  BY DEF Transaction
<1>2. t.content \in [1..Len(t.locs) -> Block] /\ t.locs \in Locations
  BY TransactionFacts DEF Block, NumBlocks
<1> QED BY <1>1, <1>2, TransactionIntro

LEMMA DescriptorFacts ==
  ASSUME NEW b \in Block, b.type = "descriptor"
  PROVE  b.blocks \in Locations /\ b = Descriptor(b.blocks)
BY BlocksAssumption DEF Block, ZeroBlock, CommitBlock, DataBlock, Descriptor

LEMMA ReadBackType ==
  ASSUME log \in [Slots -> Block], NEW s \in Slots, log[jindex(s)].type = "descriptor"
  PROVE  ReadBack(s) \in Transaction(Block)
<1> DEFINE l == log[jindex(s)].blocks
           c == [k \in 1..Len(l) |-> log[jindex(s + k)]]
<1>1. l \in Locations
  BY JindexSlot, DescriptorFacts
<1>2. Len(l) \in Nat /\ s \in Nat
  BY <1>1, LocationsFacts, BlocksAssumption, JournalAssumption DEF Slots
<1>3. \A k \in 1..Len(l) : log[jindex(s + k)] \in Block
  <2> SUFFICES ASSUME NEW k \in 1..Len(l) PROVE log[jindex(s + k)] \in Block
    OBVIOUS
  <2>1. s + k \in Nat
    BY <1>2
  <2> QED BY <2>1, JindexType
<1>4. c \in [1..Len(l) -> Block]
  BY <1>3
<1> QED BY <1>1, <1>4, TransactionIntro DEF ReadBack

-----------------------------------------------------------------------------
(* Types                                                                   *)

USE DEF DiskError, Returns

LEMMA InitTypeOK == Init => TypeOK
<1> SUFFICES ASSUME Init PROVE TypeOK
  OBVIOUS
<1>1. ZeroBlock \in Block
  BY DEF Block
<1>2. 0 \in Slots /\ 1 \in 1..MaxTxn /\ 0 \in 0..MaxFaults
  BY BlocksAssumption, JournalAssumption DEF Slots
<1> QED BY <1>1, <1>2 DEF Init, TypeOK

LEMMA NextTypeOK == TypeOK /\ [Next]_vars => TypeOK'
<1> SUFFICES ASSUME TypeOK, [Next]_vars PROVE TypeOK'
  OBVIOUS
<1> USE DEF TypeOK
<1>a. start \in Nat /\ cursor \in Nat /\ MaxTxn \in Nat /\ 1 \in 1..MaxTxn
  BY BlocksAssumption, JournalAssumption DEF Slots
<1>b. CommitBlock \in Block /\ ZeroBlock \in Block
      /\ \A l \in Locations : Descriptor(l) \in Block
  BY DEF Block
<1>c. ASSUME txn \in Transaction(Block)
      PROVE  /\ NumBlocks(txn) \in 1..MaxTxn /\ txn.locs \in Locations
             /\ DOMAIN txn.locs = 1..NumBlocks(txn)
             /\ \A k \in 1..NumBlocks(txn) : txn.content[k] \in Block /\ txn.locs[k] \in Home
             /\ cursor \in 1..NumBlocks(txn)
             /\ NextStart \in Slots
  <2>1. txn.locs \in Locations /\ txn.content \in [1..NumBlocks(txn) -> Block]
        /\ NumBlocks(txn) \in 1..MaxTxn /\ DOMAIN txn.locs = 1..NumBlocks(txn)
    BY <1>c, TransactionFacts
  <2>2. txn.locs \in [1..NumBlocks(txn) -> Home]
    BY <2>1, LocationsFacts DEF NumBlocks
  <2>3. cursor \in 1..NumBlocks(txn)
    BY <2>1, <1>a
  <2>4. NextStart \in Slots
    BY <2>1, <1>a, JindexType DEF NextStart
  <2> QED BY <2>1, <2>2, <2>3, <2>4
<1>1. ASSUME NEW t \in Transaction(DataBlock), NewTransaction(t) PROVE TypeOK'
  <2>1. txn' \in Transaction(Block) /\ cursor = 1
    BY <1>1, DataIsBlock DEF NewTransaction
  <2> QED BY <1>1, <2>1 DEF NewTransaction
<1>2. CASE TransactionTooLong
  BY <1>2 DEF TransactionTooLong
<1>3. CASE WriteDescriptor
  BY <1>3, <1>b, <1>c DEF WriteDescriptor
<1>4. CASE WriteData
  <2>1. txn.content[cursor] \in Block /\ cursor' \in 1..MaxTxn
    BY <1>4, <1>a, <1>c DEF WriteData
  <2>2. cursor' = 1 \/ (pc' = "data" /\ cursor' \in DOMAIN txn'.locs)
    BY <1>4, <1>a, <1>c DEF WriteData
  <2> QED BY <1>4, <2>1, <2>2 DEF WriteData
<1>5. CASE WriteCommit
  BY <1>5, <1>a, <1>b DEF WriteCommit
<1>6. CASE LogWriteFails
  BY <1>6, <1>a, JournalAssumption DEF LogWriteFails
<1>7. CASE ReadEntry
  BY <1>7, ReadBackType DEF ReadEntry, Accepted
<1>8. CASE IgnoreEntry
  BY <1>8, <1>a DEF IgnoreEntry
<1>9. CASE ReadHeaderFails
  BY <1>9, <1>a, JournalAssumption DEF ReadHeaderFails
<1>10. CASE ReadDataFails
  BY <1>10, <1>a, ReadBackType, JournalAssumption DEF ReadDataFails, Accepted
<1>11. CASE WriteHome
  <2>1. txn.content[cursor] \in Block /\ cursor' \in 1..MaxTxn
    BY <1>11, <1>a, <1>c DEF WriteHome
  <2>2. cursor' = 1 \/ (pc' = "home" /\ cursor' \in DOMAIN txn'.locs)
    BY <1>11, <1>a, <1>c DEF WriteHome
  <2> QED BY <1>11, <2>1, <2>2 DEF WriteHome
<1>12. CASE WriteHomeFails
  BY <1>12, <1>a, JournalAssumption DEF WriteHomeFails
<1>13. CASE ZeroNextSlot
  BY <1>13, <1>b DEF ZeroNextSlot
<1>14. CASE ZeroNextSlotFails
  BY <1>14, JournalAssumption DEF ZeroNextSlotFails
<1>15. CASE WriteSuper
  BY <1>15, <1>a, <1>c DEF WriteSuper
<1>16. CASE WriteSuperFails
  BY <1>16, <1>a, <1>c, JournalAssumption DEF WriteSuperFails
<1>17. CASE Crash
  BY <1>17, <1>a, JournalAssumption DEF Crash, Slots
<1>18. CASE Recover
  BY <1>18 DEF Recover
<1>19. CASE UNCHANGED vars
  BY <1>19 DEF vars
<1>20. CASE RecoverFails
  BY <1>20, <1>a, JournalAssumption DEF RecoverFails
<1> QED BY <1>1, <1>2, <1>3, <1>4, <1>5, <1>6, <1>7, <1>8, <1>9, <1>10, <1>11,
           <1>12, <1>13, <1>14, <1>15, <1>16, <1>17, <1>18, <1>19, <1>20 DEF Next, Step

\* Every variable of the journal keeps its type, for every size of the log and
\* of transactions, whatever crashes and disk errors happen (journal.c).
THEOREM TypeCorrect == Spec => []TypeOK
<1>1. QED BY InitTypeOK, NextTypeOK, PTL DEF Spec

-----------------------------------------------------------------------------
(* The inductive invariant, as long as no disk access has failed.          *)

\* The descriptor, the blocks, the commit block and the next descriptor of a
\* transaction are in different slots.
LEMMA EntrySlots ==
  ASSUME NEW s \in Slots, NEW n \in 1..MaxTxn,
         NEW a \in 0..(n + 2), NEW b \in 0..(n + 2)
  PROVE  /\ jindex(s + a) \in Slots
         /\ a # b => jindex(s + a) # jindex(s + b)
<1>1. a \in 0..(LogLen - 1) /\ b \in 0..(LogLen - 1) /\ s + a \in Nat
  BY JournalAssumption, BlocksAssumption DEF Slots
<1> QED BY <1>1, JindexDistinct, JindexType

LEMMA InitInv == Init => JournalInv
<1> SUFFICES ASSUME Init PROVE JournalInv
  OBVIOUS
<1>1. log[jindex(diskStart)] = ZeroBlock
  BY JindexType DEF Init
<1> QED BY <1>1, InitTypeOK DEF Init, JournalInv, ControlInv, LogInv, ApplyInv,
                               IdleLogIsEmpty, Accepted, ZeroBlock

\* What JournalInv says of a state in which txn is a transaction.
LEMMA TxnFacts ==
  ASSUME TypeOK, txn \in Transaction(Block)
  PROVE  /\ NumBlocks(txn) \in 1..MaxTxn
         /\ NumBlocks(txn) \in Nat
         /\ DOMAIN txn.locs = 1..NumBlocks(txn)
         /\ txn.locs \in [1..NumBlocks(txn) -> Home]
         /\ Distinct(txn.locs)
         /\ txn.content \in [1..NumBlocks(txn) -> Block]
         /\ cursor \in 1..NumBlocks(txn)
BY TransactionFacts, LocationsFacts, BlocksAssumption DEF TypeOK, NumBlocks

\* An access that fails is counted for good.
LEMMA NoDiskError == ASSUME TypeOK, faults' = 0 PROVE ~DiskError
BY DEF TypeOK

LEMMA FaultsGrow == TypeOK /\ [Next]_vars /\ faults' = 0 => faults = 0
<1> SUFFICES ASSUME TypeOK, [Next]_vars, faults' = 0 PROVE faults = 0
  OBVIOUS
<1>1. ~DiskError
  BY NoDiskError
<1>2. ~(LogWriteFails \/ ReadHeaderFails \/ ReadDataFails \/ WriteHomeFails
        \/ ZeroNextSlotFails \/ WriteSuperFails \/ RecoverFails)
  BY <1>1 DEF LogWriteFails, ReadHeaderFails, ReadDataFails, WriteHomeFails,
              ZeroNextSlotFails, WriteSuperFails, RecoverFails
<1> QED BY <1>2 DEF Next, Step, vars, NewTransaction, TransactionTooLong, WriteDescriptor,
                    WriteData, WriteCommit, ReadEntry, IgnoreEntry, WriteHome, ZeroNextSlot,
                    WriteSuper, Crash, Recover

LEMMA NextInv == JournalInv /\ [Next]_vars /\ faults' = 0 => JournalInv'
<1> SUFFICES ASSUME JournalInv, [Next]_vars, faults' = 0 PROVE JournalInv'
  OBVIOUS
<1> USE DEF NumBlocks
<1>t. TypeOK /\ TypeOK'
  BY NextTypeOK DEF JournalInv
<1>f. ~DiskError
  BY <1>t, NoDiskError
<1>s. start \in Slots /\ diskStart \in Slots /\ log \in [Slots -> Block]
      /\ home \in [Home -> Block]
  BY <1>t DEF TypeOK
<1>i. ControlInv /\ LogInv /\ ApplyInv /\ IdleLogIsEmpty
  BY DEF JournalInv
<1>1. ASSUME NEW t \in Transaction(DataBlock), NewTransaction(t) PROVE JournalInv'
  <2>1. t \in Transaction(Block)
    BY DataIsBlock
  <2> QED BY <1>1, <1>t, <1>i, <2>1
          DEF NewTransaction, JournalInv, ControlInv, LogInv, ApplyInv, IdleLogIsEmpty, Accepted
<1>2. CASE TransactionTooLong
  BY <1>2, <1>t, <1>i DEF TransactionTooLong, JournalInv, ControlInv, LogInv, ApplyInv,
                          IdleLogIsEmpty, Accepted
<1>3. CASE WriteDescriptor
  <2>1. txn \in Transaction(Block) /\ start = diskStart /\ cursor = 1
    BY <1>3, <1>t, <1>i DEF WriteDescriptor, TypeOK, ControlInv
  <2>2. log'[jindex(start)] = Descriptor(txn.locs)
    BY <1>3, <1>s, JindexSlot DEF WriteDescriptor
  <2>3. Logged'
    <3>1. \A k \in DOMAIN txn.locs : ~(k < 1)
      BY <2>1, TxnFacts, <1>t
    <3> QED BY <1>3, <2>1, <2>2, <3>1 DEF Logged, WriteDescriptor
  <2> QED BY <1>3, <1>t, <1>i, <2>3
          DEF WriteDescriptor, JournalInv, ControlInv, LogInv, ApplyInv, IdleLogIsEmpty
<1>4. CASE WriteData
  <2> DEFINE n == NumBlocks(txn)
  <2>1. txn \in Transaction(Block) /\ Logged /\ n \in 1..MaxTxn /\ cursor \in 1..n
        /\ DOMAIN txn.locs = 1..n /\ n \in Nat
    BY <1>4, <1>t, <1>i, TxnFacts DEF WriteData, TypeOK, LogInv
  <2>2. cursor \in 0..(n + 2) /\ cursor # 0
    BY <2>1
  <2>3. /\ log'[jindex(start + cursor)] = txn.content[cursor]
        /\ \A a \in 0..(n + 2) : a # cursor => log'[jindex(start + a)] = log[jindex(start + a)]
        /\ log'[jindex(start)] = log[jindex(start)]
    <3>1. jindex(start + cursor) \in Slots
      BY <2>1, <2>2, <1>s, EntrySlots
    <3>2. ASSUME NEW a \in 0..(n + 2), a # cursor
          PROVE  log'[jindex(start + a)] = log[jindex(start + a)]
      <4>1. jindex(start + a) \in Slots /\ jindex(start + a) # jindex(start + cursor)
        BY <3>2, <2>1, <2>2, <1>s, EntrySlots
      <4> QED BY <1>4, <4>1, <2>2, <1>s DEF WriteData
    <3>3. log'[jindex(start)] = log[jindex(start)]
      <4>1. 0 \in 0..(n + 2) /\ 0 # cursor /\ start + 0 = start
        BY <2>1, <2>2, <1>s DEF Slots
      <4> QED BY <4>1, <3>2
    <3> QED BY <1>4, <3>1, <3>2, <3>3, <2>2, <1>s DEF WriteData
  <2>4. ASSUME NEW k \in 1..n, pc' = "data" => k < cursor'
        PROVE  log'[jindex(start + k)] = txn.content[k]
    <3>1. k = cursor \/ k < cursor
      BY <1>4, <2>1, <2>4 DEF WriteData
    <3>2. CASE k = cursor
      BY <3>2, <2>3
    <3>3. CASE k < cursor
      <4>1. log[jindex(start + k)] = txn.content[k]
        BY <1>4, <3>3, <2>1 DEF Logged, WriteData
      <4>2. k \in 0..(n + 2) /\ k # cursor
        BY <3>3, <2>1
      <4> QED BY <4>1, <4>2, <2>3
    <3> QED BY <3>1, <3>2, <3>3
  <2>5. Logged'
    BY <1>4, <2>1, <2>3, <2>4 DEF Logged, WriteData
  <2> QED BY <1>4, <1>t, <1>i, <2>5
          DEF WriteData, JournalInv, ControlInv, LogInv, ApplyInv, IdleLogIsEmpty
<1>5. CASE WriteCommit
  <2> DEFINE n == NumBlocks(txn)
  <2>1. txn \in Transaction(Block) /\ Logged /\ n \in 1..MaxTxn
        /\ DOMAIN txn.locs = 1..n /\ n \in Nat
    BY <1>5, <1>t, <1>i, TxnFacts DEF WriteCommit, TypeOK, LogInv
  <2>2. n + 1 \in 0..(n + 2) /\ n + 1 # 0 /\ start + (n + 1) = start + n + 1
    BY <2>1, <1>s DEF Slots
  <2>3. /\ log'[jindex(start + n + 1)] = CommitBlock
        /\ \A a \in 0..(n + 2) : a # n + 1 => log'[jindex(start + a)] = log[jindex(start + a)]
        /\ log'[jindex(start)] = log[jindex(start)]
    <3>1. jindex(start + (n + 1)) \in Slots
      BY <2>1, <2>2, <1>s, EntrySlots
    <3>2. ASSUME NEW a \in 0..(n + 2), a # (n + 1)
          PROVE  log'[jindex(start + a)] = log[jindex(start + a)]
      <4>1. jindex(start + a) \in Slots /\ jindex(start + a) # jindex(start + (n + 1))
        BY <3>2, <2>1, <2>2, <1>s, EntrySlots
      <4> QED BY <1>5, <4>1, <2>2, <1>s DEF WriteCommit
    <3>3. log'[jindex(start)] = log[jindex(start)]
      <4>1. 0 \in 0..(n + 2) /\ 0 # (n + 1) /\ start + 0 = start
        BY <2>1, <2>2, <1>s DEF Slots
      <4> QED BY <4>1, <3>2
    <3> QED BY <1>5, <3>1, <3>2, <3>3, <2>2, <1>s DEF WriteCommit
  <2>4. \A k \in 1..n : log'[jindex(start + k)] = txn.content[k]
    <3> TAKE k \in 1..n
    <3>1. log[jindex(start + k)] = txn.content[k]
      BY <1>5, <2>1 DEF Logged, WriteCommit
    <3>2. k \in 0..(n + 2) /\ k # n + 1
      BY <2>1
    <3> QED BY <3>1, <3>2, <2>3
  <2>5. Logged'
    BY <1>5, <2>1, <2>3, <2>4 DEF Logged, WriteCommit
  <2>6. Accepted(start)'
    BY <1>5, <2>1, <2>3 DEF Accepted, WriteCommit, Logged, Descriptor, CommitBlock
  <2> QED BY <1>5, <1>t, <1>i, <2>5, <2>6
          DEF WriteCommit, JournalInv, ControlInv, LogInv, ApplyInv, IdleLogIsEmpty
<1>6. CASE ReadEntry
  <2>1. Accepted(start)' /\ txn' = ReadBack(start)'
    BY <1>6 DEF ReadEntry, Accepted, ReadBack
  <2>2. txn' \in Transaction(Block) /\ cursor' = 1
    BY <1>6, <1>t DEF ReadEntry, TypeOK
  <2>3. \A k \in DOMAIN txn'.locs : ~(k < 1)
    BY <2>2, TransactionFacts
  <2> QED BY <1>6, <1>t, <1>i, <2>1, <2>2, <2>3
          DEF ReadEntry, JournalInv, ControlInv, LogInv, ApplyInv, IdleLogIsEmpty
<1>7. CASE IgnoreEntry
  BY <1>7, <1>t, <1>i DEF IgnoreEntry, JournalInv, ControlInv, LogInv, ApplyInv,
                          IdleLogIsEmpty, Accepted
<1>8. CASE WriteHome
  <2> DEFINE n == NumBlocks(txn)
  <2>1. txn \in Transaction(Block) /\ n \in 1..MaxTxn /\ cursor \in 1..n
        /\ DOMAIN txn.locs = 1..n /\ n \in Nat /\ Distinct(txn.locs)
        /\ txn.locs \in [1..n -> Home]
    BY <1>8, <1>t, TxnFacts DEF WriteHome, TypeOK
  <2>2. \A k \in 1..n : k <= cursor => home'[txn.locs[k]] = txn.content[k]
    <3> TAKE k \in 1..n
    <3>1. CASE k = cursor
      BY <1>8, <3>1, <2>1, <1>s DEF WriteHome
    <3>2. CASE k < cursor
      <4>1. home[txn.locs[k]] = txn.content[k]
        BY <1>8, <3>2, <1>i, <2>1 DEF WriteHome, ApplyInv
      <4>2. txn.locs[k] # txn.locs[cursor]
        BY <3>2, <2>1 DEF Distinct
      <4> QED BY <1>8, <4>1, <4>2, <2>1, <1>s DEF WriteHome
    <3> QED BY <3>1, <3>2, <2>1
  <2>3. ApplyInv'
    <3>1. ASSUME pc' = "home", NEW k \in DOMAIN txn'.locs, k < cursor'
          PROVE  home'[txn'.locs[k]] = txn'.content[k]
      BY <1>8, <3>1, <2>1, <2>2 DEF WriteHome
    <3>2. pc' \in {"zero", "super"} => Applied(txn)'
      BY <1>8, <2>1, <2>2 DEF WriteHome, Applied
    <3> QED BY <1>8, <3>1, <3>2 DEF ApplyInv, WriteHome
  <2> QED BY <1>8, <1>t, <1>i, <2>3
          DEF WriteHome, JournalInv, ControlInv, LogInv, IdleLogIsEmpty, Accepted, ReadBack
<1>9. CASE ZeroNextSlot
  <2> DEFINE n == NumBlocks(txn)
  <2>1. txn \in Transaction(Block) /\ n \in 1..MaxTxn /\ n \in Nat
        /\ Accepted(start) /\ txn = ReadBack(start)
    BY <1>9, <1>t, <1>i, TxnFacts DEF ZeroNextSlot, TypeOK, LogInv
  <2>2. n + 2 \in 0..(n + 2) /\ n + 2 # 0 /\ start + (n + 2) = start + n + 2
        /\ start + (n + 1) = start + n + 1
        /\ n + 1 \in 0..(n + 2) /\ n + 1 # n + 2
    BY <2>1, <1>s DEF Slots
  <2>3. /\ log'[jindex(start + n + 2)] = ZeroBlock
        /\ \A a \in 0..(n + 2) : a # n + 2 => log'[jindex(start + a)] = log[jindex(start + a)]
        /\ log'[jindex(start)] = log[jindex(start)]
    <3>1. jindex(start + (n + 2)) \in Slots
      BY <2>1, <2>2, <1>s, EntrySlots
    <3>2. ASSUME NEW a \in 0..(n + 2), a # (n + 2)
          PROVE  log'[jindex(start + a)] = log[jindex(start + a)]
      <4>1. jindex(start + a) \in Slots /\ jindex(start + a) # jindex(start + (n + 2))
        BY <3>2, <2>1, <2>2, <1>s, EntrySlots
      <4> QED BY <1>9, <4>1, <2>2, <1>s DEF ZeroNextSlot, NextStart
    <3>3. log'[jindex(start)] = log[jindex(start)]
      <4>1. 0 \in 0..(n + 2) /\ 0 # (n + 2) /\ start + 0 = start
        BY <2>1, <2>2, <1>s DEF Slots
      <4> QED BY <4>1, <3>2
    <3> QED BY <1>9, <3>1, <3>2, <3>3, <2>2, <1>s DEF ZeroNextSlot, NextStart
  <2>4. n = Len(log[jindex(start)].blocks)
    BY <2>1 DEF ReadBack
  <2>5. Accepted(start)'
    <3>1. log'[jindex(start + n + 1)] = log[jindex(start + n + 1)]
      BY <2>2, <2>3
    <3> QED BY <1>9, <2>1, <2>3, <2>4, <3>1 DEF Accepted, ZeroNextSlot
  <2>6. ReadBack(start)' = ReadBack(start)
    <3>1. \A k \in 1..n : log'[jindex(start + k)] = log[jindex(start + k)]
      <4> TAKE k \in 1..n
      <4>1. k \in 0..(n + 2) /\ k # n + 2
        BY <2>1
      <4> QED BY <4>1, <2>3
    <3> QED BY <1>9, <2>3, <2>4, <3>1 DEF ReadBack, ZeroNextSlot
  <2>7. LogInv'
    BY <1>9, <2>1, <2>5, <2>6 DEF LogInv, ZeroNextSlot
  <2>8. ApplyInv'
    BY <1>9, <1>i, <2>3 DEF ApplyInv, ZeroNextSlot, NextStart, Applied
  <2> QED BY <1>9, <1>t, <1>i, <2>7, <2>8
          DEF ZeroNextSlot, JournalInv, ControlInv, IdleLogIsEmpty
<1>10. CASE WriteSuper
  <2>1. txn \in Transaction(Block) /\ NextStart \in Slots /\ log[NextStart] = ZeroBlock
    <3>1. txn \in Transaction(Block) /\ start \in Nat
      BY <1>10, <1>t, <1>s DEF WriteSuper, TypeOK, Slots
    <3>2. NumBlocks(txn) \in Nat
      BY <3>1, TransactionFacts
    <3>3. NextStart \in Slots
      BY <3>1, <3>2, JindexType DEF NextStart
    <3> QED BY <1>10, <1>i, <3>1, <3>3 DEF WriteSuper, ApplyInv
  <2>2. ~Accepted(diskStart)'
    BY <1>10, <2>1, JindexSlot DEF WriteSuper, Accepted, ZeroBlock
  <2> QED BY <1>10, <1>t, <2>2
          DEF WriteSuper, JournalInv, ControlInv, LogInv, ApplyInv, IdleLogIsEmpty
<1>11. CASE Crash
  BY <1>11, <1>t DEF Crash, JournalInv, ControlInv, LogInv, ApplyInv, IdleLogIsEmpty
<1>12. CASE Recover
  BY <1>12, <1>t DEF Recover, JournalInv, ControlInv, LogInv, ApplyInv, IdleLogIsEmpty
<1>13. CASE UNCHANGED vars
  BY <1>13, <1>t, <1>i DEF vars, JournalInv, ControlInv, LogInv, ApplyInv, IdleLogIsEmpty,
                           Accepted, ReadBack, Applied, Logged, NextStart
<1>14. ~(LogWriteFails \/ ReadHeaderFails \/ ReadDataFails \/ WriteHomeFails
         \/ ZeroNextSlotFails \/ WriteSuperFails \/ RecoverFails)
  BY <1>f DEF LogWriteFails, ReadHeaderFails, ReadDataFails, WriteHomeFails,
              ZeroNextSlotFails, WriteSuperFails, RecoverFails
<1> QED BY <1>1, <1>2, <1>3, <1>4, <1>5, <1>6, <1>7, <1>8, <1>9, <1>10, <1>11,
           <1>12, <1>13, <1>14 DEF Next, Step

SafeInv == TypeOK /\ (faults = 0 => JournalInv)

LEMMA NextSafe == SafeInv /\ [Next]_vars => SafeInv'
BY NextTypeOK, NextInv, FaultsGrow DEF SafeInv

LEMMA SafeInvariant == Spec => []SafeInv
<1>1. Init => SafeInv
  BY InitInv, InitTypeOK DEF SafeInv
<1> QED BY <1>1, NextSafe, PTL DEF Spec

\* As long as no disk access has failed, the log and the copy to the final
\* locations are where the code that runs takes them to be, whatever crashes
\* happen.
THEOREM JournalInvariant == Spec => [](faults = 0 => JournalInv)
<1>1. SafeInv => (faults = 0 => JournalInv)
  BY DEF SafeInv
<1> QED BY <1>1, SafeInvariant, PTL

\* As long as no disk access has failed, an idle journal has nothing for a recovery
\* to replay: the next descriptor's slot was cleared, also over old entries of the
\* log.
THEOREM IdleLogEmpty == Spec => [](faults = 0 => IdleLogIsEmpty)
<1>1. SafeInv => (faults = 0 => IdleLogIsEmpty)
  BY DEF SafeInv, JournalInv
<1> QED BY <1>1, SafeInvariant, PTL

\* As long as no disk access has failed, the journal writes outside the log only
\* blocks that a complete entry of the log covers (write-ahead logging).
THEOREM WritesAhead == Spec => WriteAhead
<1> DEFINE Ahead ==
      \A h \in Home : home'[h] # home[h] =>
        /\ Accepted(diskStart)
        /\ h \in {ReadBack(diskStart).locs[k] : k \in DOMAIN ReadBack(diskStart).locs}
<1>1. SafeInv /\ [Next]_vars => [faults' = 0 => Ahead]_vars
  <2> SUFFICES ASSUME SafeInv, Next, faults' = 0 PROVE Ahead
    OBVIOUS
  <2>i. JournalInv
    BY FaultsGrow DEF SafeInv
  <2>1. CASE WriteHome
    <3>1. txn \in Transaction(Block) /\ home \in [Home -> Block] /\ TypeOK
          /\ diskStart = start /\ Accepted(start) /\ txn = ReadBack(start)
      BY <2>1, <2>i DEF WriteHome, JournalInv, TypeOK, ControlInv, LogInv
    <3>2. cursor \in DOMAIN txn.locs
      BY <3>1, TxnFacts
    <3>3. \A h \in Home : h # txn.locs[cursor] => home'[h] = home[h]
      BY <2>1, <3>1 DEF WriteHome
    <3> QED BY <3>1, <3>2, <3>3
  <2>2. CASE UNCHANGED home
    BY <2>2
  <2> QED BY <2>1, <2>2
          DEF Next, Step, NewTransaction, TransactionTooLong, WriteDescriptor, WriteData,
              WriteCommit, LogWriteFails, ReadEntry, IgnoreEntry, ReadHeaderFails,
              ReadDataFails, WriteHomeFails, ZeroNextSlot, ZeroNextSlotFails, WriteSuper,
              WriteSuperFails, Crash, Recover, RecoverFails
<1> QED BY <1>1, SafeInvariant, PTL DEF Spec, WriteAhead

\* As long as no disk access has failed, log_start moves only past entries whose
\* blocks are all in place, in a call and in a recovery alike.
THEOREM RetiresApplied == Spec => RetiredEntryIsApplied
<1>1. SafeInv /\ [Next]_vars => [faults' = 0 /\ diskStart' # diskStart => Applied(txn)]_vars
  <2> SUFFICES ASSUME SafeInv, Next, faults' = 0, diskStart' # diskStart PROVE Applied(txn)
    OBVIOUS
  <2>i. JournalInv
    BY FaultsGrow DEF SafeInv
  <2>1. CASE WriteSuper
    BY <2>1, <2>i DEF WriteSuper, JournalInv, ApplyInv
  <2>2. CASE UNCHANGED diskStart
    BY <2>2
  <2> QED BY <2>1, <2>2
          DEF Next, Step, NewTransaction, TransactionTooLong, WriteDescriptor, WriteData,
              WriteCommit, LogWriteFails, ReadEntry, IgnoreEntry, ReadHeaderFails,
              ReadDataFails, WriteHome, WriteHomeFails, ZeroNextSlot, ZeroNextSlotFails,
              WriteSuperFails, Crash, Recover, RecoverFails
<1> QED BY <1>1, SafeInvariant, PTL DEF Spec, RetiredEntryIsApplied

-----------------------------------------------------------------------------
(* Clients whose descriptors never stand before an old commit block.       *)

CleanInv ==
  /\ JournalInv
  /\ pc = "descriptor" => CommitSlotClean
  /\ IncompleteEntryIgnored

LEMMA CleanIsNext == [CleanNext]_vars => [Next]_vars
BY DEF CleanNext

LEMMA NextClean == CleanInv /\ [CleanNext]_vars /\ faults' = 0 => CleanInv'
<1> SUFFICES ASSUME CleanInv, [CleanNext]_vars, faults' = 0 PROVE CleanInv'
  OBVIOUS
<1> USE DEF NumBlocks
<1>1. JournalInv /\ JournalInv' /\ IncompleteEntryIgnored /\ [Next]_vars
  BY NextInv, CleanIsNext DEF CleanInv
<1>t. TypeOK /\ ControlInv /\ start \in Slots /\ log \in [Slots -> Block]
  BY <1>1 DEF JournalInv, TypeOK
<1>2. (pc = "descriptor" => CommitSlotClean)'
  <2>1. CASE UNCHANGED <<log, start, txn, pc>>
    BY <2>1 DEF CleanInv, CommitSlotClean
  <2>2. CASE pc = "idle" /\ pc' = "descriptor"
    BY <2>2 DEF CleanNext, vars
  <2>3. CASE pc' # "descriptor"
    BY <2>3
  <2> QED BY <1>1, <2>1, <2>2, <2>3
          DEF Next, Step, vars, NewTransaction, TransactionTooLong, WriteDescriptor, WriteData,
              WriteCommit, LogWriteFails, ReadEntry, IgnoreEntry, ReadHeaderFails,
              ReadDataFails, WriteHome, WriteHomeFails, ZeroNextSlot, ZeroNextSlotFails,
              WriteSuper, WriteSuperFails, Crash, Recover, RecoverFails
<1>6. SUFFICES IncompleteEntryIgnored'
  BY <1>1, <1>2 DEF CleanInv
<1>3. CASE WriteDescriptor
  <2> DEFINE n == NumBlocks(txn)
  <2>1. txn \in Transaction(Block) /\ n \in 1..MaxTxn /\ n \in Nat /\ start = diskStart
    BY <1>3, <1>t, TxnFacts DEF WriteDescriptor, TypeOK, ControlInv
  <2>2. n + 1 \in 0..(n + 2) /\ n + 1 # 0 /\ 0 \in 0..(n + 2) /\ start + 0 = start
        /\ start + (n + 1) = start + n + 1
    BY <2>1, <1>t DEF Slots
  <2>3. jindex(start + (n + 1)) # jindex(start + 0) /\ jindex(start + (n + 1)) \in Slots
        /\ jindex(start + 0) \in Slots
    BY <2>1, <2>2, <1>t, EntrySlots
  <2>4. log[jindex(start + (n + 1))].type # "commit"
    BY <1>3, <2>2 DEF CleanInv, CommitSlotClean, WriteDescriptor
  <2>5. log'[jindex(start)] = Descriptor(txn.locs)
        /\ log'[jindex(start + (n + 1))] = log[jindex(start + (n + 1))]
    BY <1>3, <2>2, <2>3, <1>t DEF WriteDescriptor
  <2>6. ~Accepted(start)'
    BY <1>3, <2>2, <2>4, <2>5 DEF Accepted, Descriptor, WriteDescriptor
  <2> QED BY <1>3, <2>1, <2>6 DEF IncompleteEntryIgnored, WriteDescriptor
<1>4. CASE WriteData
  <2> DEFINE n == NumBlocks(txn)
  <2>1. txn \in Transaction(Block) /\ n \in 1..MaxTxn /\ n \in Nat /\ start = diskStart
        /\ cursor \in 1..n /\ Logged /\ Logged' /\ ~Accepted(start)
    BY <1>1, <1>4, <1>t, TxnFacts
       DEF WriteData, TypeOK, ControlInv, JournalInv, LogInv, IncompleteEntryIgnored
  <2>2. n + 1 \in 0..(n + 2) /\ cursor \in 0..(n + 2) /\ cursor # n + 1
        /\ start + (n + 1) = start + n + 1
    BY <2>1, <1>t DEF Slots
  <2>3. jindex(start + (n + 1)) # jindex(start + cursor) /\ jindex(start + (n + 1)) \in Slots
    BY <2>1, <2>2, <1>t, EntrySlots
  <2>4. log'[jindex(start + (n + 1))] = log[jindex(start + (n + 1))]
    BY <1>4, <2>3, <1>t DEF WriteData
  <2>5. ~Accepted(start)'
    BY <1>4, <2>1, <2>2, <2>4 DEF Accepted, Logged, Descriptor, WriteData
  <2> QED BY <1>4, <2>1, <2>5 DEF IncompleteEntryIgnored, WriteData
<1>5. CASE UNCHANGED <<log, diskStart>> /\ (pc' \in {"data", "commit"} => pc' = pc)
  BY <1>1, <1>5 DEF IncompleteEntryIgnored, Accepted
<1>7. CASE pc' \notin {"data", "commit"}
  BY <1>7 DEF IncompleteEntryIgnored
<1> QED BY <1>1, <1>3, <1>4, <1>5, <1>7
        DEF Next, Step, vars, NewTransaction, TransactionTooLong, WriteCommit, LogWriteFails,
            ReadEntry, IgnoreEntry, ReadHeaderFails, ReadDataFails, WriteHome, WriteHomeFails,
            ZeroNextSlot, ZeroNextSlotFails, WriteSuper, WriteSuperFails, Crash, Recover,
            RecoverFails

AnyInv == SafeInv /\ (clean /\ faults = 0 => CleanInv)

LEMMA NextAny == AnyInv /\ [AnyNext]_<<vars, clean>> => AnyInv'
<1> SUFFICES ASSUME AnyInv, [AnyNext]_<<vars, clean>> PROVE AnyInv'
  OBVIOUS
<1>1. [Next]_vars /\ clean' = clean /\ (clean => [CleanNext]_vars)
  BY DEF AnyNext, CleanNext
<1> QED BY <1>1, NextSafe, NextClean, FaultsGrow DEF AnyInv, SafeInv

LEMMA AnyInvariant == AnySpec => []AnyInv
<1>1. AnyInit => AnyInv
  BY InitInv, InitTypeOK
     DEF AnyInit, AnyInv, SafeInv, CleanInv, IncompleteEntryIgnored, Init
<1> QED BY <1>1, NextAny, PTL DEF AnySpec

-----------------------------------------------------------------------------
(* The journal implements AtomicStore.                                     *)

LEMMA OverlayApplied ==
  ASSUME home \in [Home -> Block], NEW t \in Transaction(Block), Applied(t)
  PROVE  Overlay(home, t) = home
<1>1. ASSUME NEW h \in Home, NEW k \in DOMAIN t.locs, t.locs[k] = h
      PROVE  t.content[CHOOSE j \in DOMAIN t.locs : t.locs[j] = h] = home[h]
  <2> DEFINE c == CHOOSE j \in DOMAIN t.locs : t.locs[j] = h
  <2>1. c \in DOMAIN t.locs /\ t.locs[c] = h
    BY <1>1
  <2> QED BY <2>1 DEF Applied
<1> QED BY <1>1 DEF Overlay

\* Writing one block of a transaction does not change what replaying the whole
\* transaction leads to.
LEMMA OverlayWrite ==
  ASSUME home \in [Home -> Block], NEW t \in Transaction(Block), NEW i \in DOMAIN t.locs,
         home' = [home EXCEPT ![t.locs[i]] = t.content[i]]
  PROVE  Overlay(home', t) = Overlay(home, t)
<1>1. ASSUME NEW h \in Home, ~\E k \in DOMAIN t.locs : t.locs[k] = h
      PROVE  home'[h] = home[h]
  BY <1>1
<1> QED BY <1>1 DEF Overlay

LEMMA LoggedReadBack ==
  ASSUME TypeOK, txn \in Transaction(Block), Logged, pc # "data"
  PROVE  ReadBack(start) = txn
<1>1. txn = [locs |-> txn.locs, content |-> txn.content]
  BY DEF Transaction
<1>2. txn.content = [k \in 1..NumBlocks(txn) |-> txn.content[k]] /\ DOMAIN txn.locs = 1..NumBlocks(txn)
  BY TxnFacts
<1>3. [k \in 1..NumBlocks(txn) |-> log[jindex(start + k)]] = txn.content
  BY <1>2 DEF Logged
<1> QED BY <1>1, <1>3 DEF ReadBack, Logged, Descriptor, NumBlocks

\* The store before an entry is complete, while it is applied, and at its end.
LEMMA StoreFacts ==
  ASSUME CleanInv
  PROVE  /\ pc \in {"idle", "descriptor", "data", "commit"} =>
              ~Accepted(diskStart) /\ RecoveredStore = home
         /\ pc \in {"home", "zero", "super"} =>
              Accepted(diskStart) /\ RecoveredStore = Overlay(home, txn)
         /\ pc = "apply" /\ Busy =>
              Accepted(diskStart) /\ RecoveredStore = Overlay(home, txn) /\ ReadBack(start) = txn
<1> USE DEF CleanInv, JournalInv
<1>1. pc \in {"idle", "descriptor", "data", "commit"} => ~Accepted(diskStart)
  BY DEF IdleLogIsEmpty, IncompleteEntryIgnored
<1>2. pc \in {"home", "zero", "super"} => Accepted(diskStart) /\ txn = ReadBack(diskStart)
  BY DEF LogInv, ControlInv
<1>3. pc = "apply" /\ Busy => Accepted(diskStart) /\ txn = ReadBack(diskStart) /\ start = diskStart
  <2> SUFFICES ASSUME pc = "apply", Busy
               PROVE  Accepted(diskStart) /\ txn = ReadBack(diskStart) /\ start = diskStart
    OBVIOUS
  <2>1. Logged /\ Accepted(start) /\ start = diskStart /\ txn \in Transaction(Block)
    BY DEF LogInv, ControlInv, Busy
  <2> QED BY <2>1, LoggedReadBack
<1> QED BY <1>1, <1>2, <1>3 DEF RecoveredStore

LEMMA InitImplements == Init => Store!Init
<1> SUFFICES ASSUME Init PROVE Store!Init
  OBVIOUS
<1>1. ~Accepted(diskStart)
  BY InitInv DEF JournalInv, IdleLogIsEmpty, Init
<1> QED BY <1>1 DEF Init, Store!Init, RecoveredStore, Busy, Store!ZeroBlock, ZeroBlock,
                    NoTransaction, Store!NoTransaction

LEMMA StepImplements ==
  CleanInv /\ CleanInv' /\ [CleanNext]_vars /\ faults' = 0 => [Store!Next]_Store!vars
<1> SUFFICES ASSUME CleanInv, CleanInv', [CleanNext]_vars, faults' = 0
             PROVE  [Store!Next]_Store!vars
  OBVIOUS
<1>n. [Next]_vars
  BY CleanIsNext
<1>t. TypeOK /\ ControlInv /\ home \in [Home -> Block] /\ ControlInv'
  BY DEF CleanInv, JournalInv, TypeOK
<1>f. ~DiskError
  BY <1>t, NoDiskError
<1> DEFINE Status == IF Busy THEN "busy" ELSE IF pc = "idle" THEN "idle" ELSE "down"
           Request == IF Busy THEN txn ELSE NoTransaction
           Done == Busy /\ Accepted(diskStart)
           Stutter == UNCHANGED <<RecoveredStore, Status, Request, Done>>
<1>v. Stutter => UNCHANGED Store!vars
  BY DEF Store!vars, Store!NoTransaction, NoTransaction
<1>e. UNCHANGED <<log, diskStart>> => Accepted(diskStart)' = Accepted(diskStart)
                                      /\ ReadBack(diskStart)' = ReadBack(diskStart)
  BY DEF Accepted, ReadBack
<1>r. UNCHANGED <<log, diskStart, home>> => RecoveredStore' = RecoveredStore
  BY <1>e DEF RecoveredStore, Overlay
<1>1. ASSUME NEW t \in Transaction(DataBlock), NewTransaction(t) PROVE Store!Submit(t)
  <2>1. ~Accepted(diskStart) /\ ~Accepted(diskStart)' /\ RecoveredStore' = RecoveredStore
    BY <1>1, <1>e, <1>r, StoreFacts DEF NewTransaction
  <2> QED BY <1>1, <1>t, <2>1 DEF NewTransaction, Store!Submit, Busy, ControlInv
<1>2. CASE TransactionTooLong
  BY <1>2, <1>v, <1>e, <1>r DEF TransactionTooLong, Busy
<1>3. CASE WriteDescriptor \/ WriteData
  <2>1. pc \in {"descriptor", "data"} /\ pc' \in {"data", "commit"} /\ UNCHANGED <<home, caller, txn>>
    BY <1>3 DEF WriteDescriptor, WriteData
  <2>2. RecoveredStore = home /\ ~Accepted(diskStart)
    BY <2>1, StoreFacts
  <2>3. (pc \in {"idle", "descriptor", "data", "commit"} =>
           ~Accepted(diskStart) /\ RecoveredStore = home)'
    BY StoreFacts, PTL
  <2>4. RecoveredStore' = home' /\ ~Accepted(diskStart)'
    BY <2>1, <2>3
  <2> QED BY <1>v, <1>t, <2>1, <2>2, <2>4 DEF Busy, ControlInv
<1>4. CASE WriteCommit
  <2>1. pc = "commit" /\ pc' = "apply" /\ UNCHANGED <<home, caller, txn, start, diskStart>>
        /\ caller = "new"
    BY <1>4, <1>t DEF WriteCommit, ControlInv
  <2>2. RecoveredStore = home /\ ~Accepted(diskStart)
    BY <2>1, StoreFacts
  <2>3. (pc = "apply" /\ Busy => Accepted(diskStart) /\ RecoveredStore = Overlay(home, txn))'
    BY StoreFacts, PTL
  <2>4. RecoveredStore' = Overlay(home, txn) /\ Accepted(diskStart)'
    BY <2>1, <2>3 DEF Busy, Overlay
  <2> QED BY <2>1, <2>2, <2>4 DEF Store!TakeEffect, Busy, Overlay, Store!Overlay, Store!Next
<1>5. CASE ReadEntry
  <2>1. pc = "apply" /\ UNCHANGED <<home, log, diskStart, caller, start>> /\ pc' = "home"
        /\ txn' = ReadBack(start)
    BY <1>5 DEF ReadEntry
  <2>2. Busy => txn' = txn
    BY <2>1, StoreFacts
  <2> QED BY <1>v, <1>e, <1>r, <2>1, <2>2 DEF Busy
<1>6. CASE IgnoreEntry
  <2>1. pc = "apply" /\ UNCHANGED <<home, log, diskStart, start>> /\ pc' = "idle"
        /\ ~Accepted(start) /\ start = diskStart /\ caller' = "none"
    BY <1>6, <1>t DEF IgnoreEntry, ControlInv, Returns
  <2>2. ~Busy
    BY <2>1, StoreFacts
  <2> QED BY <1>e, <1>r, <2>1, <2>2 DEF Store!Restart, Store!Next, Busy
<1>7. CASE WriteHome
  <2>1. pc = "home" /\ UNCHANGED <<log, diskStart, caller, txn, start>> /\ pc' \in {"home", "zero"}
        /\ txn \in Transaction(Block) /\ cursor \in DOMAIN txn.locs
        /\ home' = [home EXCEPT ![txn.locs[cursor]] = txn.content[cursor]]
    BY <1>7, <1>t, TxnFacts DEF WriteHome, TypeOK
  <2>2. Overlay(home', txn) = Overlay(home, txn)
    BY <2>1, <1>t, OverlayWrite
  <2>3. RecoveredStore = Overlay(home, txn)
    BY <2>1, StoreFacts
  <2>4. (pc \in {"home", "zero", "super"} => RecoveredStore = Overlay(home, txn))'
    BY StoreFacts, PTL
  <2>5. RecoveredStore' = Overlay(home', txn)
    BY <2>1, <2>4 DEF Overlay
  <2> QED BY <1>v, <1>e, <2>1, <2>2, <2>3, <2>5 DEF Busy
<1>8. CASE ZeroNextSlot
  <2>1. pc = "zero" /\ UNCHANGED <<home, diskStart, caller, txn, start>> /\ pc' = "super"
    BY <1>8 DEF ZeroNextSlot
  <2>2. RecoveredStore = Overlay(home, txn) /\ Accepted(diskStart)
    BY <2>1, StoreFacts
  <2>3. (pc \in {"home", "zero", "super"} =>
           RecoveredStore = Overlay(home, txn) /\ Accepted(diskStart))'
    BY StoreFacts, PTL
  <2>4. RecoveredStore' = Overlay(home, txn) /\ Accepted(diskStart)'
    BY <2>1, <2>3 DEF Overlay
  <2> QED BY <1>v, <2>1, <2>2, <2>4 DEF Busy
<1>9. CASE WriteSuper
  <2>1. pc = "super" /\ UNCHANGED <<home, log>> /\ pc' = "idle" /\ caller' = "none"
        /\ caller \in {"new", "recover"} /\ txn \in Transaction(Block) /\ Applied(txn)
    BY <1>9, <1>t DEF WriteSuper, ControlInv, TypeOK, CleanInv, JournalInv, ApplyInv
  <2>2. RecoveredStore = home /\ Accepted(diskStart)
    BY <2>1, <1>t, StoreFacts, OverlayApplied
  <2>3. (pc \in {"idle", "descriptor", "data", "commit"} =>
           ~Accepted(diskStart) /\ RecoveredStore = home)'
    BY StoreFacts, PTL
  <2>4. RecoveredStore' = home /\ ~Accepted(diskStart)'
    BY <2>1, <2>3
  <2>5. CASE caller = "new"
    BY <2>1, <2>2, <2>4, <2>5
       DEF Store!Return, Store!Next, Busy, NoTransaction, Store!NoTransaction
  <2>6. CASE caller = "recover"
    BY <2>1, <2>2, <2>4, <2>6 DEF Store!Restart, Store!Next, Busy
  <2> QED BY <2>1, <2>5, <2>6
<1>10. CASE Crash
  <2>1. UNCHANGED <<home, log, diskStart>> /\ pc # "down" /\ pc' = "down" /\ caller' = "none"
    BY <1>10 DEF Crash
  <2>2. RecoveredStore' = RecoveredStore
    BY <2>1, <1>r
  <2>3. CASE Busy \/ pc = "idle"
    BY <2>1, <2>2, <2>3 DEF Store!Crash, Store!Next, Busy, NoTransaction, Store!NoTransaction
  <2>4. CASE ~Busy /\ pc # "idle"
    BY <1>v, <2>1, <2>2, <2>4 DEF Busy
  <2> QED BY <2>3, <2>4
<1>11. CASE Recover
  BY <1>v, <1>r, <1>t, <1>11 DEF Recover, Busy, ControlInv
<1>12. CASE UNCHANGED vars
  BY <1>v, <1>e, <1>r, <1>12 DEF vars, Busy
<1>13. ~(LogWriteFails \/ ReadHeaderFails \/ ReadDataFails \/ WriteHomeFails
         \/ ZeroNextSlotFails \/ WriteSuperFails \/ RecoverFails)
  BY <1>f DEF LogWriteFails, ReadHeaderFails, ReadDataFails, WriteHomeFails,
              ZeroNextSlotFails, WriteSuperFails, RecoverFails
<1>14. Transaction(DataBlock) = Store!Transaction(Store!DataBlock)
  BY DEF Transaction, Store!Transaction, DataBlock, Store!DataBlock, Locations,
         Store!Locations, Distinct, Store!Distinct
<1> QED BY <1>n, <1>1, <1>2, <1>3, <1>4, <1>5, <1>6, <1>7, <1>8, <1>9, <1>10, <1>11,
           <1>12, <1>13, <1>14 DEF Next, Step, Store!Next

\* For clients whose descriptors never stand before an old commit block, and as
\* long as no disk access has failed, the journal is an atomic, durable store: a
\* transaction takes effect as a whole when its commit block is written, whatever
\* crashes hit it or its recovery.
THEOREM JournalImplementsStore == AnySpec => AtomicUpdates
<1>1. AnyInit => (clean => Store!Init)
  BY InitImplements DEF AnyInit
<1>2. AnyInv /\ AnyInv' /\ [AnyNext]_<<vars, clean>>
        => [clean /\ faults' = 0 => Store!Next]_<<Store!vars, clean>>
  <2> SUFFICES ASSUME AnyInv, AnyInv', [AnyNext]_<<vars, clean>>, clean, faults' = 0
               PROVE  Store!Next \/ UNCHANGED <<Store!vars, clean>>
    OBVIOUS
  <2>1. [Next]_vars /\ clean' = clean /\ [CleanNext]_vars
    BY DEF AnyNext, CleanNext
  <2>2. CleanInv /\ CleanInv'
    BY <2>1, FaultsGrow DEF AnyInv, SafeInv
  <2>3. [Store!Next]_Store!vars
    BY <2>1, <2>2, StepImplements
  <2> QED BY <2>1, <2>3
<1> QED BY <1>1, <1>2, AnyInvariant, PTL DEF AnySpec, AtomicUpdates
=============================================================================
