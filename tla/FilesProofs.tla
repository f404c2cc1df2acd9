---------------------------- MODULE FilesProofs ----------------------------
(* Theorems about one directory and about one file, and their proofs.      *)
EXTENDS MCFiles, Integers, FiniteSetTheorems, WellFoundedInduction, TLAPS

-----------------------------------------------------------------------------
(* Positions and their numbers.                                            *)

LEMMA LeastMember ==
  ASSUME NEW S \in SUBSET Nat, S # {}
  PROVE  Least(S) \in S /\ \A j \in S : Least(S) <= j
<1>1. IsWellFoundedOn(OpToRel(<, Nat), Nat)
  BY NatLessThanWellFounded
<1>2. \E x \in S : \A y \in S : ~(<<y, x>> \in OpToRel(<, Nat))
  BY <1>1, WFMin
<1>3. \E x \in S : \A y \in S : ~(y < x)
  BY <1>2 DEF OpToRel
<1>4. \E x \in S : \A y \in S : x <= y
  BY <1>3
<1> QED BY <1>4 DEF Least

\* The number of an entry, counted from the front of the directory.
Number(p) == (p[1] - 1) * PerBlock + p[2]

LEMMA BlockOrder ==
  ASSUME NEW a \in Nat \ {0}, NEW b \in Nat \ {0}, a < b
  PROVE  a * PerBlock <= (b - 1) * PerBlock
<1>1. PerBlock \in Nat
  BY DirectoryAssumption
<1>2. (b - 1) - a \in Nat
  OBVIOUS
<1>3. ((b - 1) - a) * PerBlock \in Nat
  BY <1>1, <1>2
<1> QED BY <1>1, <1>3

LEMMA NumberOrder ==
  ASSUME NEW a \in Nat \ {0}, NEW b \in Nat \ {0}, NEW i \in Slots, NEW j \in Slots, a < b
  PROVE  Number(<<a, i>>) < Number(<<b, j>>)
<1>1. PerBlock \in Nat /\ i \in 1..PerBlock /\ j \in 1..PerBlock
  BY DirectoryAssumption DEF Slots
<1>2. a * PerBlock <= (b - 1) * PerBlock
  BY BlockOrder
<1>3. (a - 1) * PerBlock + PerBlock = a * PerBlock
  BY <1>1
<1>4. (a - 1) * PerBlock \in Int /\ (b - 1) * PerBlock \in Int /\ a * PerBlock \in Int
  BY <1>1
<1>5. (a - 1) * PerBlock + i < (b - 1) * PerBlock + j
  BY <1>1, <1>2, <1>3, <1>4
<1> QED BY <1>5 DEF Number

LEMMA NumberInjective ==
  ASSUME NEW a \in Nat \ {0}, NEW b \in Nat \ {0}, NEW i \in Slots, NEW j \in Slots,
         Number(<<a, i>>) = Number(<<b, j>>)
  PROVE  a = b /\ i = j
<1>1. a = b
  <2>1. Number(<<a, i>>) \in Int /\ Number(<<b, j>>) \in Int
    BY DirectoryAssumption DEF Number, Slots
  <2>2. ~(a < b) /\ ~(b < a)
    BY <2>1, NumberOrder
  <2> QED BY <2>2
<1>2. (a - 1) * PerBlock \in Int /\ i \in Int /\ j \in Int
  BY DirectoryAssumption DEF Slots
<1>3. (a - 1) * PerBlock + i = (a - 1) * PerBlock + j
  BY <1>1 DEF Number
<1> QED BY <1>1, <1>2, <1>3

\* A search up to file_size looks at every block that has an entry up to there.
LEMMA ScannedBlocks ==
  ASSUME NEW b \in Nat \ {0}, size \in Nat
  PROVE  b <= Scanned <=> (b - 1) * PerBlock < size
<1> DEFINE P == PerBlock
           n == size + P - 1
           d == n \div P
<1>1. P \in Nat /\ P >= 1 /\ n \in Nat
  BY DirectoryAssumption
<1>2. n = P * d + (n % P) /\ n % P \in 0..(P - 1) /\ d \in Int
  BY <1>1
<1> HIDE DEF P, n, d
<1>3. CASE b <= d
  <2>1. (d - b) * P \in Nat
    BY <1>1, <1>2, <1>3
  <2>2. b * P <= n
    BY <1>1, <1>2, <2>1
  <2>3. (b - 1) * P + P = b * P /\ (b - 1) * P \in Int /\ b * P \in Int
    BY <1>1
  <2>4. (b - 1) * P < size
    BY <1>1, <2>2, <2>3 DEF n
  <2> QED BY <1>3, <2>4 DEF d, n, P, Scanned
<1>4. CASE d < b
  <2>1. ((b - 1) - d) * P \in Nat
    BY <1>1, <1>2, <1>4
  <2>2. n < (b - 1) * P + P
    BY <1>1, <1>2, <2>1
  <2>3. (b - 1) * P \in Int
    BY <1>1
  <2>4. ~((b - 1) * P < size)
    BY <1>1, <2>2, <2>3 DEF n
  <2> QED BY <1>2, <1>4, <2>4 DEF d, n, P, Scanned
<1> QED BY <1>2, <1>3, <1>4

-----------------------------------------------------------------------------
(* Types.                                                                  *)

Entries == [Slots -> Names \cup {Free}]

LEMMA BufferType ==
  ASSUME TypeOK, NEW b \in 1..Len(blocks)
  PROVE  Buffer(b) \in Entries
<1>1. \A c \in 1..Len(blocks) : blocks[c] \in Entries
  BY DEF TypeOK, Entries
<1>2. \A i \in Slots : blocks[b][i] \in Names \cup {Free}
  BY <1>1 DEF Entries
<1>3. b # 1 => \A i \in Slots : blocks[b - 1][i] \in Names \cup {Free}
  <2>1. b # 1 => b - 1 \in 1..Len(blocks)
    BY DEF TypeOK
  <2> QED BY <1>1, <2>1 DEF Entries
<1> QED BY <1>2, <1>3 DEF Buffer, Entries

\* Replacing an entry of a block, wherever it is, gives blocks again.
LEMMA ReplaceType ==
  ASSUME TypeOK, NEW b, NEW e, b \in 1..Len(blocks) => e \in Entries
  PROVE  /\ [blocks EXCEPT ![b] = e] \in Seq(Entries)
         /\ Len([blocks EXCEPT ![b] = e]) = Len(blocks)
<1>1. blocks \in Seq(Entries)
  BY DEF TypeOK, Entries
<1>2. CASE b \in 1..Len(blocks)
  BY <1>1, <1>2
<1>3. CASE b \notin 1..Len(blocks)
  <2>1. [blocks EXCEPT ![b] = e] = blocks
    BY <1>1, <1>3
  <2> QED BY <1>1, <2>1
<1> QED BY <1>2, <1>3

LEMMA EntryType ==
  ASSUME NEW f \in Entries, NEW i, NEW e \in Names \cup {Free}
  PROVE  [f EXCEPT ![i] = e] \in Entries
BY DEF Entries

LEMMA BlocksSize ==
  ASSUME NEW k \in Nat
  PROVE  PerBlock * k \in Nat /\ PerBlock * (k + 1) = PerBlock * k + PerBlock
BY DirectoryAssumption

LEMMA TypeStep ==
  ASSUME TypeOK, [Next]_vars
  PROVE  TypeOK'
<1>1. PerBlock \in Nat /\ MaxDirBlocks \in Nat /\ Len(blocks) \in Nat /\ size \in Nat
      /\ size <= PerBlock * Len(blocks) /\ blocks \in Seq(Entries)
  <2>1. PerBlock \in Nat /\ MaxDirBlocks \in Nat /\ Len(blocks) \in Nat
        /\ blocks \in Seq(Entries)
    BY DirectoryAssumption DEF TypeOK, Entries
  <2>2. PerBlock * Len(blocks) \in Nat
    BY <2>1, BlocksSize
  <2> QED BY <2>1, <2>2 DEF TypeOK
<1>2. PerBlock * Len(blocks) \in Nat
  BY <1>1, BlocksSize
<1>3. ASSUME NEW n \in Names, Extend(n) PROVE TypeOK'
  <2>1. [i \in Slots |-> IF i = 1 THEN n ELSE Free] \in Entries
    BY DEF Entries
  <2>2. blocks' \in Seq(Entries) /\ Len(blocks') = Len(blocks) + 1
    BY <1>1, <1>3, <2>1 DEF Extend
  <2>3. PerBlock * Len(blocks') = PerBlock * Len(blocks) + PerBlock
    BY <1>1, <2>2, BlocksSize
  <2>4. size' = size + 1 /\ size = PerBlock * Len(blocks) /\ PerBlock >= 1
    BY <1>3, DirectoryAssumption DEF Extend
  <2>5. size' \in 0..(PerBlock * Len(blocks'))
    BY <1>1, <1>2, <2>3, <2>4
  <2> QED BY <1>1, <1>3, <2>2, <2>5 DEF Extend, TypeOK, Entries
<1>4. ASSUME NEW n \in Names, Fill(n) PROVE TypeOK'
  <2> DEFINE b == Least(Room)
             e == [Buffer(b) EXCEPT ![Least(Holes(b))] = n]
  <2>1. blocks' = [blocks EXCEPT ![b] = e] /\ size' = size + 1 /\ size # PerBlock * Len(blocks)
        /\ reply' = "ok"
    BY <1>4 DEF Fill
  <2>2. b \in 1..Len(blocks) => e \in Entries
    <3> SUFFICES ASSUME b \in 1..Len(blocks) PROVE e \in Entries
      OBVIOUS
    <3>1. Buffer(b) \in Entries
      BY BufferType
    <3> QED BY <3>1, EntryType
  <2> HIDE DEF b, e
  <2>3. blocks' \in Seq(Entries) /\ Len(blocks') = Len(blocks)
    BY <2>1, <2>2, ReplaceType
  <2>4. size' \in 0..(PerBlock * Len(blocks'))
    BY <1>1, <1>2, <2>1, <2>3
  <2> QED BY <1>1, <2>1, <2>3, <2>4 DEF TypeOK, Entries
<1>5. ASSUME NEW n \in Names, Remove(n) PROVE TypeOK'
  <2> DEFINE b == First(n)[1]
             e == [blocks[b] EXCEPT ![First(n)[2]] = Free]
  <2>1. blocks' = [blocks EXCEPT ![b] = e] /\ size' = size - 1 /\ reply' = "ok"
    BY <1>5 DEF Remove
  <2>2. b \in 1..Len(blocks) => e \in Entries
    <3> SUFFICES ASSUME b \in 1..Len(blocks) PROVE e \in Entries
      OBVIOUS
    <3>1. blocks[b] \in Entries
      BY <1>1
    <3> QED BY <3>1, EntryType
  <2>3. size > 0
    <3>1. PICK c \in 1..Scanned : TRUE
      BY <1>5 DEF Remove, Found
    <3>2. c \in Nat \ {0} /\ c <= Scanned
      BY <3>1
    <3>3. (c - 1) * PerBlock < size
      BY <1>1, <3>2, ScannedBlocks
    <3>4. (c - 1) * PerBlock \in Nat
      BY <1>1, <3>2
    <3> QED BY <1>1, <3>3, <3>4
  <2> HIDE DEF b, e
  <2>4. blocks' \in Seq(Entries) /\ Len(blocks') = Len(blocks)
    BY <2>1, <2>2, ReplaceType
  <2>5. size' \in 0..(PerBlock * Len(blocks'))
    BY <1>1, <1>2, <2>1, <2>3, <2>4
  <2>6. Len(blocks') <= MaxDirBlocks
    BY <2>4 DEF TypeOK
  <2> QED BY <2>1, <2>4, <2>5, <2>6 DEF TypeOK, Entries
<1>6. ASSUME NEW n \in Names,
             CreateExisting(n) \/ CreateFull(n) \/ RemoveMissing(n) \/ RemoveUnreached(n)
      PROVE  TypeOK'
  BY <1>6 DEF CreateExisting, CreateFull, RemoveMissing, RemoveUnreached, TypeOK
<1>7. CASE UNCHANGED vars
  BY <1>7 DEF vars, TypeOK
<1> QED BY <1>3, <1>4, <1>5, <1>6, <1>7 DEF Next

LEMMA TypeInit == Init => TypeOK
<1> SUFFICES ASSUME Init PROVE TypeOK
  OBVIOUS
<1>1. blocks = <<>> /\ Len(blocks) = 0 /\ blocks \in Seq(Entries)
  BY DEF Init
<1>2. PerBlock * Len(blocks) = 0 /\ MaxDirBlocks >= 0
  BY <1>1, DirectoryAssumption
<1> QED BY <1>1, <1>2 DEF Init, TypeOK, Entries

\* file_size never exceeds the blocks of the directory, whatever is created and
\* removed: llfs_search_dir and llfs_dir_remove, which go by file_size, read no
\* block that is not there.
THEOREM SizeWithinBlocks == Spec => []TypeOK
<1>1. TypeOK /\ [Next]_vars => TypeOK'
  BY TypeStep
<1> QED BY <1>1, TypeInit, PTL DEF Spec

-----------------------------------------------------------------------------
(* Directories from which only the last entry is removed: the entries are  *)
(* dense, and no name is there twice.                                      *)

Distinct ==
  \A p \in Positions, q \in Positions :
    blocks[p[1]][p[2]] = blocks[q[1]][q[2]] /\ blocks[p[1]][p[2]] # Free => p = q

TidyInv == TypeOK /\ DenseInv /\ Distinct

LEMMA Sizes ==
  ASSUME TypeOK
  PROVE  /\ PerBlock \in Nat /\ PerBlock >= 2
         /\ Len(blocks) \in Nat /\ size \in Nat
         /\ PerBlock * Len(blocks) \in Nat /\ size <= PerBlock * Len(blocks)
         /\ blocks \in Seq(Entries)
         /\ \A b \in 1..Len(blocks) : blocks[b] \in Entries
<1>1. PerBlock \in Nat /\ PerBlock >= 2 /\ Len(blocks) \in Nat /\ blocks \in Seq(Entries)
  BY DirectoryAssumption DEF TypeOK, Entries
<1>2. PerBlock * Len(blocks) \in Nat
  BY <1>1, BlocksSize
<1> QED BY <1>1, <1>2 DEF TypeOK

LEMMA PositionsFinite == TypeOK => IsFiniteSet(Positions)
<1> SUFFICES ASSUME TypeOK PROVE IsFiniteSet(Positions)
  OBVIOUS
<1>1. Len(blocks) \in Int /\ PerBlock \in Int /\ 1 \in Int
  BY Sizes
<1>2. IsFiniteSet(1..Len(blocks))
  BY <1>1, FS_Interval
<1>3. IsFiniteSet(1..PerBlock)
  BY <1>1, FS_Interval
<1>4. IsFiniteSet((1..Len(blocks)) \X (1..PerBlock))
  BY <1>2, <1>3, FS_Product
<1> QED BY <1>4 DEF Positions, Slots

LEMMA DenseFinds ==
  ASSUME TypeOK, Dense
  PROVE  LiveIsFound
<1> SUFFICES ASSUME NEW b \in 1..Len(blocks), NEW i \in Slots, blocks[b][i] # Free
             PROVE  Found(blocks[b][i])
  BY DEF LiveIsFound, Live
<1>1. (b - 1) * PerBlock + i <= size
  BY DEF Dense
<1>2. i >= 1 /\ i \in Nat /\ (b - 1) * PerBlock \in Nat
  BY Sizes DEF Slots
<1>3. (b - 1) * PerBlock < size
  BY <1>1, <1>2, Sizes
<1>4. b \in Nat \ {0} /\ b <= Scanned
  <2>1. b \in Nat \ {0} /\ size \in Nat
    BY Sizes
  <2> QED BY <1>3, <2>1, ScannedBlocks
<1>5. b \in 1..Scanned
  BY <1>4, Sizes DEF Scanned
<1> QED BY <1>5 DEF Found

LEMMA SearchWithinBlocks ==
  ASSUME TypeOK, NEW b \in 1..Scanned
  PROVE  b \in 1..Len(blocks)
<1>1. b \in Nat \ {0} /\ b <= Scanned
  OBVIOUS
<1>2. (b - 1) * PerBlock < size
  BY <1>1, ScannedBlocks, Sizes
<1>3. CASE Len(blocks) < b
  <2>1. ((b - 1) - Len(blocks)) * PerBlock \in Nat
    BY <1>1, <1>3, Sizes
  <2>2. (b - 1) * PerBlock >= PerBlock * Len(blocks)
    BY <1>1, <2>1, Sizes
  <2> QED BY <1>1, <1>2, <2>2, Sizes
<1> QED BY <1>1, <1>3, Sizes

LEMMA NotLive ==
  ASSUME TypeOK, Dense, NEW n, ~Found(n)
  PROVE  n \notin Live
BY DenseFinds DEF LiveIsFound

\* Where llfs_dir_append looks: in the first block until it is full, and not in
\* vain; then nowhere.
LEMMA RoomInFirst ==
  ASSUME TypeOK, Dense, size # PerBlock * Len(blocks), size < PerBlock
  PROVE  /\ 1 \in 1..Len(blocks)
         /\ Room = {1}
         /\ Buffer(1) = blocks[1]
         /\ Least(Room) = 1
         /\ Least(Holes(1)) = size + 1 /\ size + 1 \in Slots
<1>1. 1 \in 1..Len(blocks)
  <2>1. Len(blocks) = 0 => PerBlock * Len(blocks) = 0
    BY Sizes
  <2> QED BY <2>1, Sizes
<1>2. \A i \in Slots : blocks[1][i] # Free <=> i <= size
  <2>1. \A i \in Slots : (1 - 1) * PerBlock + i = i
    BY Sizes DEF Slots
  <2> QED BY <1>1, <2>1 DEF Dense
<1>3. Buffer(1) = blocks[1]
  <2>1. \A i \in Slots : Buffer(1)[i] = blocks[1][i]
    <3>1. \A i \in Slots : (1 - 1) * PerBlock + i = i
      BY Sizes DEF Slots
    <3>2. \A i \in Slots : Buffer(1)[i] = IF i <= size THEN blocks[1][i] ELSE Free
      BY <3>1 DEF Buffer
    <3> QED BY <1>2, <3>2
  <2>2. blocks[1] \in Entries /\ Buffer(1) \in Entries
    BY <1>1, Sizes, BufferType
  <2> QED BY <2>1, <2>2 DEF Entries
<1>4. Holes(1) = {i \in Slots : i > size}
  BY <1>2, <1>3, Sizes DEF Holes, Slots
<1>5. size + 1 \in Holes(1) /\ size + 1 \in Slots /\ \A i \in Holes(1) : size + 1 <= i
  BY <1>4, Sizes DEF Slots
<1>6. Least(Holes(1)) = size + 1
  <2>1. Holes(1) \in SUBSET Nat /\ Holes(1) # {}
    BY <1>5 DEF Holes, Slots
  <2>2. Least(Holes(1)) \in Holes(1) /\ \A j \in Holes(1) : Least(Holes(1)) <= j
    BY <2>1, LeastMember
  <2> QED BY <1>5, <2>1, <2>2, Sizes
<1>7. Reached = {1}
  <2>1. CASE size = 0
    BY <2>1 DEF Reached
  <2>2. CASE size # 0
    <3>1. 1 <= Scanned /\ ~(2 <= Scanned)
      <4>1. (1 - 1) * PerBlock < size /\ ~((2 - 1) * PerBlock < size)
        BY <2>2, Sizes
      <4> QED BY <4>1, ScannedBlocks, Sizes
    <3>2. Scanned \in Int
      BY Sizes DEF Scanned
    <3>3. Scanned = 1
      BY <3>1, <3>2
    <3> QED BY <2>2, <3>3 DEF Reached
  <2> QED BY <2>1, <2>2
<1>8. Room = {1}
  BY <1>5, <1>7 DEF Room
<1>9. Least(Room) = 1
  BY <1>8 DEF Least
<1> QED BY <1>1, <1>3, <1>5, <1>6, <1>8, <1>9

LEMMA NoRoomAfterFirst ==
  ASSUME TypeOK, DenseInv, size >= PerBlock
  PROVE  Room = {}
<1> SUFFICES ASSUME NEW b \in Reached, NEW i \in Slots, Buffer(b)[i] = Free
             PROVE  FALSE
  BY DEF Room, Holes
<1>1. b \in Nat \ {0} /\ b <= Scanned /\ b \in 1..Len(blocks)
  <2>1. b \in 1..Scanned
    BY Sizes DEF Reached
  <2> QED BY <2>1, SearchWithinBlocks
<1>2. (b - 1) * PerBlock < size /\ size <= PerBlock + 1
  BY <1>1, ScannedBlocks, Sizes DEF DenseInv
<1>3. b = 1 \/ b = 2
  <2>1. CASE b >= 3
    <3>1. (b - 3) * PerBlock \in Nat
      BY <1>1, <2>1, Sizes
    <3>2. (b - 1) * PerBlock >= 2 * PerBlock
      BY <1>1, <3>1, Sizes
    <3> QED BY <1>1, <1>2, <3>2, Sizes
  <2> QED BY <1>1, <2>1
<1>4. \A j \in Slots : blocks[1][j] # Free
  <2>1. 1 \in 1..Len(blocks)
    BY <1>1
  <2>2. \A j \in Slots : (1 - 1) * PerBlock + j <= size
    BY Sizes DEF Slots
  <2> QED BY <2>1, <2>2 DEF DenseInv, Dense
<1>5. CASE b = 1
  <2>1. (1 - 1) * PerBlock + i <= size
    BY Sizes DEF Slots
  <2>2. Buffer(1)[i] = blocks[1][i]
    BY <2>1 DEF Buffer
  <2> QED BY <1>4, <1>5, <2>2
<1>6. CASE b = 2
  <2>1. Buffer(2)[i] = IF (2 - 1) * PerBlock + i <= size THEN blocks[2][i] ELSE blocks[2 - 1][i]
    BY DEF Buffer
  <2>2. (2 - 1) * PerBlock + i <= size => blocks[2][i] # Free
    BY <1>1, <1>6 DEF DenseInv, Dense
  <2> QED BY <1>4, <1>6, <2>1, <2>2
<1> QED BY <1>3, <1>5, <1>6

-----------------------------------------------------------------------------
(* The steps that change the directory keep TidyInv.                       *)

LEMMA TidyExtend ==
  ASSUME TidyInv, NEW n \in Names, Extend(n)
  PROVE  /\ DenseInv' /\ Distinct'
         /\ Live' = Live \cup {n} /\ n \notin Live
<1> DEFINE k == Len(blocks)
           new == [i \in Slots |-> IF i = 1 THEN n ELSE Free]
<1>1. TypeOK /\ DenseInv /\ Dense /\ Distinct /\ size <= PerBlock + 1
  BY DEF TidyInv, DenseInv
<1>2. /\ blocks' = Append(blocks, new) /\ size' = size + 1
      /\ size = PerBlock * k /\ n # Free /\ Free \notin Names /\ n \notin Live
  BY <1>1, NotLive, DirectoryAssumption DEF Extend
<1>3. /\ Len(blocks') = k + 1 /\ blocks'[k + 1] = new
      /\ \A b \in 1..k : blocks'[b] = blocks[b]
  BY <1>1, <1>2, Sizes
<1>4. \A b \in 1..(k + 1) : b \in 1..k \/ b = k + 1
  BY <1>1, Sizes
<1>5. k <= 1 /\ k \in Nat
  <2>1. CASE k >= 2
    <3>1. (k - 2) * PerBlock \in Nat
      BY <1>1, <2>1, Sizes
    <3>2. PerBlock * k >= 2 * PerBlock
      BY <1>1, <3>1, Sizes
    <3> QED BY <1>1, <1>2, <3>2, Sizes
  <2> QED BY <1>1, <2>1, Sizes
<1>6. Dense'
  <2> SUFFICES ASSUME NEW b \in 1..(k + 1), NEW i \in Slots
               PROVE  blocks'[b][i] # Free <=> (b - 1) * PerBlock + i <= size + 1
    BY <1>2, <1>3 DEF Dense, Slots
  <2>1. CASE b \in 1..k
    <3>1. b = 1 /\ k = 1
      <4>1. k = 0 \/ k = 1
        <5> HIDE DEF k
        <5> QED BY <1>5
      <4>2. k # 0
        BY <2>1
      <4>3. k = 1
        BY <4>1, <4>2
      <4>4. b \in 1..1
        BY <2>1, <4>3
      <4> QED BY <4>3, <4>4
    <3>2. blocks'[b][i] # Free <=> (b - 1) * PerBlock + i <= size
      BY <1>1, <1>3, <2>1 DEF Dense
    <3>3. (b - 1) * PerBlock + i = i /\ size = PerBlock /\ i <= PerBlock /\ i \in Nat
      BY <1>1, <1>2, <3>1, Sizes DEF Slots
    <3> QED BY <1>1, <3>2, <3>3, Sizes
  <2>2. CASE b = k + 1
    <3>1. (b - 1) * PerBlock = size
      BY <1>1, <1>2, <2>2, Sizes
    <3>2. blocks'[b][i] = IF i = 1 THEN n ELSE Free
      BY <1>3, <2>2
    <3>3. size \in Nat /\ i \in Nat /\ i >= 1
      BY <1>1, Sizes DEF Slots
    <3>4. (b - 1) * PerBlock + i <= size + 1 <=> i = 1
      BY <3>1, <3>3
    <3>5. blocks'[b][i] # Free <=> i = 1
      BY <3>2, DirectoryAssumption
    <3> QED BY <3>4, <3>5
  <2> QED BY <1>4, <2>1, <2>2
<1>7. size' <= PerBlock + 1
  <2>1. k = 0 \/ k = 1
    BY <1>5
  <2>2. size <= PerBlock
    BY <1>1, <1>2, <2>1, Sizes
  <2> QED BY <1>1, <1>2, <2>2, Sizes
<1>8. Live' = Live \cup {n}
  <2>1. ASSUME NEW x \in Live' PROVE x \in Live \cup {n}
    <3>1. PICK b \in 1..(k + 1), i \in Slots : x = blocks'[b][i] /\ x # Free
      BY <1>3, <2>1 DEF Live, Slots
    <3> QED BY <1>3, <1>4, <3>1 DEF Live
  <2>2. ASSUME NEW x \in Live PROVE x \in Live'
    <3>1. PICK b \in 1..k, i \in Slots : x = blocks[b][i] /\ x # Free
      BY <2>2 DEF Live
    <3>2. b \in 1..Len(blocks') /\ x = blocks'[b][i]
      BY <1>1, <1>3, <3>1, Sizes
    <3> QED BY <3>1, <3>2 DEF Live, Slots
  <2>3. n \in Live'
    <3>1. k + 1 \in 1..Len(blocks') /\ 1 \in Slots /\ blocks'[k + 1][1] = n
      BY <1>1, <1>3, Sizes DEF Slots
    <3> QED BY <1>2, <3>1 DEF Live, Slots
  <2> QED BY <2>1, <2>2, <2>3
<1>9. Distinct'
  <2> SUFFICES ASSUME NEW a \in 1..(k + 1), NEW i \in Slots, NEW b \in 1..(k + 1), NEW j \in Slots,
                      blocks'[a][i] = blocks'[b][j], blocks'[a][i] # Free
               PROVE  a = b /\ i = j
    BY <1>3 DEF Distinct, Positions, Slots
  <2>1. \A c \in 1..k, l \in Slots : blocks[c][l] # n
    BY <1>2 DEF Live
  <2>2. CASE a \in 1..k /\ b \in 1..k
    <3>1. blocks[a][i] = blocks[b][j] /\ blocks[a][i] # Free
      BY <1>3, <2>2
    <3>2. <<a, i>> \in Positions /\ <<b, j>> \in Positions
      BY <2>2 DEF Positions
    <3> QED BY <1>1, <3>1, <3>2 DEF Distinct
  <2>3. CASE a = k + 1 /\ b \in 1..k
    BY <1>3, <2>1, <2>3
  <2>4. CASE a \in 1..k /\ b = k + 1
    BY <1>3, <2>1, <2>4
  <2>5. CASE a = k + 1 /\ b = k + 1
    BY <1>3, <2>5
  <2> QED BY <1>4, <2>2, <2>3, <2>4, <2>5
<1> QED BY <1>2, <1>6, <1>7, <1>8, <1>9 DEF DenseInv

LEMMA TidyFill ==
  ASSUME TidyInv, NEW n \in Names, Fill(n)
  PROVE  /\ DenseInv' /\ Distinct'
         /\ Live' = Live \cup {n} /\ n \notin Live
<1>1. TypeOK /\ DenseInv /\ Dense /\ Distinct
  BY DEF TidyInv, DenseInv
<1>2. n # Free /\ n \notin Live /\ size' = size + 1
  BY <1>1, NotLive, DirectoryAssumption DEF Fill
<1>3. size < PerBlock
  BY <1>1, NoRoomAfterFirst, Sizes DEF Fill
<1>4. /\ 1 \in 1..Len(blocks) /\ size + 1 \in Slots
      /\ blocks' = [blocks EXCEPT ![1] = [blocks[1] EXCEPT ![size + 1] = n]]
  BY <1>1, <1>3, RoomInFirst DEF Fill
<1>5. /\ Len(blocks') = Len(blocks)
      /\ \A b \in 1..Len(blocks), i \in Slots :
           blocks'[b][i] = IF b = 1 /\ i = size + 1 THEN n ELSE blocks[b][i]
  <2>1. blocks \in Seq(Entries) /\ \A b \in 1..Len(blocks) : blocks[b] \in Entries
    BY <1>1, Sizes
  <2>2. Len(blocks') = Len(blocks)
    BY <1>4, <2>1
  <2>3. ASSUME NEW b \in 1..Len(blocks), NEW i \in Slots
        PROVE  blocks'[b][i] = IF b = 1 /\ i = size + 1 THEN n ELSE blocks[b][i]
    <3>1. CASE b = 1
      <4>1. blocks'[1] = [blocks[1] EXCEPT ![size + 1] = n]
        BY <1>4, <2>1
      <4>2. blocks[1] \in [Slots -> Names \cup {Free}]
        BY <1>4, <2>1 DEF Entries
      <4> QED BY <3>1, <4>1, <4>2
    <3>2. CASE b # 1
      BY <1>4, <2>1, <3>2
    <3> QED BY <3>1, <3>2
  <2> QED BY <2>2, <2>3
<1>6. Dense'
  <2> SUFFICES ASSUME NEW b \in 1..Len(blocks), NEW i \in Slots
               PROVE  blocks'[b][i] # Free <=> (b - 1) * PerBlock + i <= size + 1
    BY <1>2, <1>5 DEF Dense, Slots
  <2>1. blocks[b][i] # Free <=> (b - 1) * PerBlock + i <= size
    BY <1>1 DEF Dense
  <2>2. CASE b = 1
    <3>1. (b - 1) * PerBlock + i = i /\ i \in Nat
      BY <1>1, <2>2, Sizes DEF Slots
    <3> QED BY <1>1, <1>2, <1>5, <2>1, <2>2, <3>1, Sizes
  <2>3. CASE b # 1
    <3>1. b \in Int /\ b - 2 \in Nat /\ PerBlock \in Nat
      BY <1>1, <2>3, Sizes
    <3>2. (b - 2) * PerBlock \in Nat
      BY <3>1
    <3>3. (b - 1) * PerBlock = (b - 2) * PerBlock + PerBlock
      BY <3>1
    <3>4. (b - 1) * PerBlock >= PerBlock /\ (b - 1) * PerBlock \in Nat
      BY <3>1, <3>2, <3>3
    <3>5. ~((b - 1) * PerBlock + i <= size + 1)
      BY <1>1, <1>3, <3>4, Sizes DEF Slots
    <3>6. (b - 1) * PerBlock + i <= size => (b - 1) * PerBlock + i <= size + 1
      BY <1>1, <3>4, Sizes DEF Slots
    <3> QED BY <1>5, <2>1, <2>3, <3>5, <3>6
  <2> QED BY <2>2, <2>3
<1>7. size' <= PerBlock + 1
  BY <1>1, <1>2, <1>3, Sizes
<1>8. blocks[1][size + 1] = Free
  <2>1. ~((1 - 1) * PerBlock + (size + 1) <= size)
    BY <1>1, Sizes
  <2> QED BY <1>1, <1>4, <2>1 DEF Dense
<1>9. Live' = Live \cup {n}
  <2>1. ASSUME NEW x \in Live' PROVE x \in Live \cup {n}
    <3>1. PICK b \in 1..Len(blocks), i \in Slots : x = blocks'[b][i] /\ x # Free
      BY <1>5, <2>1 DEF Live, Slots
    <3> QED BY <1>5, <3>1 DEF Live
  <2>2. ASSUME NEW x \in Live PROVE x \in Live'
    <3>1. PICK b \in 1..Len(blocks), i \in Slots : x = blocks[b][i] /\ x # Free
      BY <2>2 DEF Live
    <3>2. x = blocks'[b][i]
      BY <1>5, <1>8, <3>1
    <3> QED BY <1>5, <3>1, <3>2 DEF Live, Slots
  <2>3. n \in Live'
    <3>1. blocks'[1][size + 1] = n
      BY <1>4, <1>5
    <3> QED BY <1>2, <1>4, <1>5, <3>1 DEF Live, Slots
  <2> QED BY <2>1, <2>2, <2>3
<1>10. Distinct'
  <2> SUFFICES ASSUME NEW a \in 1..Len(blocks), NEW i \in Slots,
                      NEW b \in 1..Len(blocks), NEW j \in Slots,
                      blocks'[a][i] = blocks'[b][j], blocks'[a][i] # Free
               PROVE  a = b /\ i = j
    BY <1>5 DEF Distinct, Positions, Slots
  <2>1. \A c \in 1..Len(blocks), l \in Slots : blocks[c][l] # n
    BY <1>2 DEF Live
  <2>2. <<a, i>> \in Positions /\ <<b, j>> \in Positions
    BY DEF Positions
  <2>3. blocks[a][i] = blocks[b][j] /\ blocks[a][i] # Free => a = b /\ i = j
    BY <1>1, <2>2 DEF Distinct
  <2> QED BY <1>5, <2>1, <2>3
<1> QED BY <1>2, <1>6, <1>7, <1>9, <1>10 DEF DenseInv

----------------------------------------------------
LEMMA FirstPosition ==
  ASSUME TypeOK, Distinct, NEW n \in Names, Found(n)
  PROVE  /\ First(n) \in Positions
         /\ blocks[First(n)[1]][First(n)[2]] = n
<1>1. PICK b \in 1..Scanned, i \in Slots : blocks[b][i] = n
  BY DEF Found
<1>2. b \in 1..Len(blocks)
  BY SearchWithinBlocks
<1> DEFINE p == <<b, i>>
<1>3. p \in Positions /\ blocks[p[1]][p[2]] = n /\ n # Free
  BY <1>1, <1>2, DirectoryAssumption DEF Positions
<1>4. ASSUME NEW q \in Positions, Before(q, p) PROVE blocks[q[1]][q[2]] # n
  <2>1. q # p
    BY <1>2, <1>4, Sizes DEF Before, Slots
  <2> QED BY <1>3, <2>1 DEF Distinct
<1> QED BY <1>3, <1>4 DEF First

\* Fewer than file_size entries stand before a name: llfs_dir_remove reaches it.
LEMMA RemoveReaches ==
  ASSUME TidyInv, NEW n \in Names, Found(n)
  PROVE  Passed(n) < size
<1> DEFINE p == First(n)
           Q == {q \in Positions : Before(q, p) /\ blocks[q[1]][q[2]] # Free}
           T == (1..size) \ {Number(p)}
           f == [q \in Q |-> Number(q)]
<1>1. TypeOK /\ Dense /\ Distinct
  BY DEF TidyInv, DenseInv
<1>2. p \in Positions /\ blocks[p[1]][p[2]] = n /\ n # Free
  BY <1>1, FirstPosition, DirectoryAssumption
<1> HIDE DEF p
<1>3. ASSUME NEW q \in Positions, blocks[q[1]][q[2]] # Free
      PROVE  Number(q) \in 1..size
  <2>1. q[1] \in 1..Len(blocks) /\ q[2] \in Slots
    BY DEF Positions
  <2>2. (q[1] - 1) * PerBlock + q[2] <= size
    BY <1>1, <1>3, <2>1 DEF Dense
  <2>3. q[1] - 1 \in Nat /\ PerBlock \in Nat /\ size \in Nat
    BY <1>1, <2>1, Sizes
  <2>4. (q[1] - 1) * PerBlock \in Nat
    BY <2>3
  <2>5. q[2] \in Nat /\ q[2] >= 1
    BY <2>1, <2>3 DEF Slots
  <2> QED BY <2>2, <2>3, <2>4, <2>5 DEF Number
<1>4. ASSUME NEW q \in Positions, NEW r \in Positions, Number(q) = Number(r)
      PROVE  q = r
  <2>1. /\ q = <<q[1], q[2]>> /\ q[1] \in Nat \ {0} /\ q[2] \in Slots
        /\ r = <<r[1], r[2]>> /\ r[1] \in Nat \ {0} /\ r[2] \in Slots
    BY <1>1, Sizes DEF Positions
  <2>2. q[1] = r[1] /\ q[2] = r[2]
    BY <1>4, <2>1, NumberInjective
  <2> QED BY <2>1, <2>2
<1>5. f \in Injection(Q, T)
  <2>1. ASSUME NEW q \in Q PROVE Number(q) \in T
    <3>1. q # p
      BY <1>1, <1>2, Sizes DEF Before, Positions, Slots
    <3> QED BY <1>2, <1>3, <1>4, <3>1
  <2>2. IsInjective(f)
    BY <1>4 DEF IsInjective
  <2> QED BY <2>1, <2>2 DEF Injection
<1>6. IsFiniteSet(T) /\ Cardinality(T) = size - 1
  <2>1. size \in Nat /\ 1 \in Int /\ size \in Int /\ size - 1 + 1 = size
    BY <1>1, Sizes
  <2>2. IsFiniteSet(1..size) /\ Cardinality(1..size) = IF 1 > size THEN 0 ELSE size - 1 + 1
    BY <2>1, FS_Interval
  <2>3. Cardinality(1..size) = size
    BY <2>1, <2>2
  <2>4. Number(p) \in 1..size
    BY <1>2, <1>3
  <2> QED BY <2>2, <2>3, <2>4, FS_RemoveElement
<1>7. IsFiniteSet(Q) /\ Cardinality(Q) <= Cardinality(T)
  BY <1>5, <1>6, FS_Injection
<1>8. Cardinality(Q) \in Nat
  BY <1>7, FS_CardinalityType
<1>9. Passed(n) = Cardinality(Q)
  BY DEF Passed, p
<1> QED BY <1>1, <1>6, <1>7, <1>8, <1>9, Sizes

LEMMA TidyRemove ==
  ASSUME TidyInv, NEW n \in Names, Remove(n)
  PROVE  /\ Distinct' /\ size' < size /\ size' <= PerBlock + 1
         /\ Live' = Live \ {n} /\ n \in Live
<1> DEFINE p == First(n)
<1>1. TypeOK /\ Dense /\ Distinct /\ size <= PerBlock + 1
  BY DEF TidyInv, DenseInv
<1>2. p \in Positions /\ blocks[p[1]][p[2]] = n /\ n # Free
  BY <1>1, FirstPosition, DirectoryAssumption DEF Remove
<1>3. blocks' = [blocks EXCEPT ![p[1]][p[2]] = Free] /\ size' = size - 1
  BY DEF Remove
<1> HIDE DEF p
<1>4. p[1] \in 1..Len(blocks) /\ p[2] \in Slots
  BY <1>2 DEF Positions
<1>5. /\ Len(blocks') = Len(blocks)
      /\ \A b \in 1..Len(blocks), i \in Slots :
           blocks'[b][i] = IF b = p[1] /\ i = p[2] THEN Free ELSE blocks[b][i]
  <2>1. blocks \in Seq(Entries) /\ \A b \in 1..Len(blocks) : blocks[b] \in Entries
    BY <1>1, Sizes
  <2>2. Len(blocks') = Len(blocks)
    BY <1>3, <1>4, <2>1
  <2>3. ASSUME NEW b \in 1..Len(blocks), NEW i \in Slots
        PROVE  blocks'[b][i] = IF b = p[1] /\ i = p[2] THEN Free ELSE blocks[b][i]
    <3>1. CASE b = p[1]
      <4>1. blocks'[b] = [blocks[b] EXCEPT ![p[2]] = Free]
        BY <1>3, <1>4, <2>1, <3>1
      <4>2. blocks[b] \in [Slots -> Names \cup {Free}]
        BY <2>1 DEF Entries
      <4> QED BY <1>4, <3>1, <4>1, <4>2
    <3>2. CASE b # p[1]
      BY <1>3, <1>4, <2>1, <3>2
    <3> QED BY <3>1, <3>2
  <2> QED BY <2>2, <2>3
<1>6. ASSUME NEW b \in 1..Len(blocks), NEW i \in Slots, blocks[b][i] = n
      PROVE  b = p[1] /\ i = p[2]
  <2>1. <<b, i>> \in Positions
    BY DEF Positions
  <2> QED BY <1>1, <1>2, <1>6, <2>1 DEF Distinct
<1>7. Live' = Live \ {n}
  <2>1. ASSUME NEW x \in Live' PROVE x \in Live \ {n}
    <3>1. PICK b \in 1..Len(blocks), i \in Slots : x = blocks'[b][i] /\ x # Free
      BY <1>5, <2>1 DEF Live, Slots
    <3> QED BY <1>5, <1>6, <3>1 DEF Live
  <2>2. ASSUME NEW x \in Live \ {n} PROVE x \in Live'
    <3>1. PICK b \in 1..Len(blocks), i \in Slots : x = blocks[b][i] /\ x # Free
      BY <2>2 DEF Live
    <3>2. x = blocks'[b][i]
      BY <1>2, <1>5, <2>2, <3>1
    <3> QED BY <1>5, <3>1, <3>2 DEF Live, Slots
  <2> QED BY <2>1, <2>2
<1>8. n \in Live
  BY <1>2, <1>4 DEF Live
<1>9. Distinct'
  <2> SUFFICES ASSUME NEW a \in 1..Len(blocks), NEW i \in Slots,
                      NEW b \in 1..Len(blocks), NEW j \in Slots,
                      blocks'[a][i] = blocks'[b][j], blocks'[a][i] # Free
               PROVE  a = b /\ i = j
    BY <1>5 DEF Distinct, Positions, Slots
  <2>1. <<a, i>> \in Positions /\ <<b, j>> \in Positions
    BY DEF Positions
  <2>2. blocks[a][i] = blocks[b][j] /\ blocks[a][i] # Free => a = b /\ i = j
    BY <1>1, <2>1 DEF Distinct
  <2> QED BY <1>5, <2>2
<1> QED BY <1>1, <1>3, <1>7, <1>8, <1>9, Sizes

LEMMA TidyStep ==
  ASSUME TidyInv, [TidyNext]_vars
  PROVE  TidyInv'
<1>1. TypeOK /\ DenseInv /\ Distinct
  BY DEF TidyInv
<1>2. TypeOK'
  BY <1>1, TypeStep DEF TidyNext
<1>3. ASSUME NEW n \in Names, Extend(n) PROVE DenseInv' /\ Distinct'
  BY <1>3, TidyExtend
<1>4. ASSUME NEW n \in Names, Fill(n) PROVE DenseInv' /\ Distinct'
  BY <1>4, TidyFill
<1>5. ASSUME NEW n \in Names, Remove(n), size' < size => Dense' PROVE DenseInv' /\ Distinct'
  BY <1>5, TidyRemove DEF DenseInv
<1>6. ASSUME NEW n \in Names,
             CreateExisting(n) \/ CreateFull(n) \/ RemoveMissing(n) \/ RemoveUnreached(n)
      PROVE  DenseInv' /\ Distinct'
  BY <1>1, <1>6 DEF CreateExisting, CreateFull, RemoveMissing, RemoveUnreached,
                    DenseInv, Dense, Distinct, Positions
<1>7. CASE UNCHANGED vars
  <2>1. blocks' = blocks /\ size' = size
    BY <1>7 DEF vars
  <2>2. DenseInv' /\ Distinct'
    BY <1>1, <2>1 DEF DenseInv, Dense, Distinct, Positions
  <2> QED BY <1>2, <2>2 DEF TidyInv
<1> QED BY <1>2, <1>3, <1>4, <1>5, <1>6, <1>7 DEF TidyNext, Next, TidyInv

LEMMA TidyInit == Init => TidyInv
<1> SUFFICES ASSUME Init PROVE TidyInv
  OBVIOUS
<1>1. blocks = <<>> /\ 1..Len(blocks) = {} /\ size = 0
  BY DEF Init
<1>2. Dense /\ Distinct
  BY <1>1 DEF Dense, Distinct, Positions
<1>3. size <= PerBlock + 1
  BY <1>1, DirectoryAssumption
<1> QED BY <1>2, <1>3, TypeInit DEF TidyInv, DenseInv

LEMMA TidyInvariant == TidySpec => []TidyInv
<1>1. TidyInv /\ [TidyNext]_vars => TidyInv'
  BY TidyStep
<1> QED BY <1>1, TidyInit, PTL DEF TidySpec

-----------------------------------------------------------------------------
(* A directory from which only the last entry is removed has no hole and   *)
(* never more than one entry beyond its first block, however many blocks   *)
(* there are: llfs_dir_append refuses the others.                          *)
THEOREM TidyIsDense == TidySpec => []DenseInv
BY TidyInvariant, PTL DEF TidyInv

\* In such a directory every name that has an entry is found.
THEOREM TidyFindsAll == TidySpec => []LiveIsFound
<1>1. TidyInv => LiveIsFound
  BY DenseFinds DEF TidyInv, DenseInv
<1> QED BY <1>1, TidyInvariant, PTL

LEMMA FullHasNames ==
  ASSUME TidyInv, NEW n \in Names, CreateFull(n)
  PROVE  Cardinality(Live) >= PerBlock
<1> DEFINE L == {p \in Positions : blocks[p[1]][p[2]] # Free}
           h == [p \in L |-> blocks[p[1]][p[2]]]
           g == [i \in Slots |-> blocks[1][i]]
<1>1. TypeOK /\ DenseInv /\ Dense /\ Distinct
  BY DEF TidyInv, DenseInv
<1>2. size >= PerBlock
  BY <1>1, RoomInFirst, Sizes DEF CreateFull
<1>3. 1 \in 1..Len(blocks)
  <2>1. Len(blocks) = 0 => PerBlock * Len(blocks) = 0
    BY <1>1, Sizes
  <2> QED BY <1>1, <1>2, <2>1, Sizes
<1>4. ASSUME NEW i \in Slots PROVE blocks[1][i] # Free
  <2>1. (1 - 1) * PerBlock + i <= size
    BY <1>1, <1>2, Sizes DEF Slots
  <2> QED BY <1>1, <1>3, <2>1 DEF Dense
<1>5. IsFiniteSet(Live)
  <2>1. IsFiniteSet(Positions)
    BY <1>1, PositionsFinite
  <2>2. IsFiniteSet(L)
    BY <2>1, FS_Subset
  <2>3. h \in Surjection(L, Live)
    <3>1. \A p \in L : h[p] \in Live
      BY DEF Live, Positions
    <3>2. ASSUME NEW x \in Live PROVE \E p \in L : h[p] = x
      <4>1. PICK b \in 1..Len(blocks), i \in Slots : x = blocks[b][i] /\ x # Free
        BY <3>2 DEF Live
      <4>2. <<b, i>> \in L /\ h[<<b, i>>] = x
        BY <4>1 DEF Positions
      <4> QED BY <4>2
    <3> QED BY <3>1, <3>2 DEF Surjection
  <2> QED BY <2>2, <2>3, FS_Surjection
<1>6. g \in Injection(Slots, Live)
  <2>1. \A i \in Slots : g[i] \in Live
    BY <1>3, <1>4 DEF Live
  <2>2. ASSUME NEW i \in Slots, NEW j \in Slots, g[i] = g[j] PROVE i = j
    <3>1. <<1, i>> \in Positions /\ <<1, j>> \in Positions
      BY <1>3 DEF Positions
    <3> QED BY <1>1, <1>4, <2>2, <3>1 DEF Distinct
  <2> QED BY <2>1, <2>2 DEF Injection, IsInjective
<1>7. Cardinality(Slots) <= Cardinality(Live)
  BY <1>5, <1>6, FS_Injection
<1>8. Cardinality(Slots) = PerBlock
  BY <1>1, FS_Interval, Sizes DEF Slots
<1> QED BY <1>1, <1>5, <1>7, <1>8, FS_CardinalityType, Sizes

LEMMA FoundIsLive ==
  ASSUME TypeOK, NEW n \in Names, Found(n)
  PROVE  n \in Live
<1>1. PICK b \in 1..Scanned, i \in Slots : blocks[b][i] = n
  BY DEF Found
<1>2. b \in 1..Len(blocks) /\ n # Free
  BY SearchWithinBlocks, DirectoryAssumption
<1> QED BY <1>1, <1>2 DEF Live

LEMMA TidyStepIsSetStep ==
  ASSUME TidyInv, [TidyNext]_vars
  PROVE  [Set!Next]_(Set!vars)
<1>1. TypeOK /\ Dense
  BY DEF TidyInv, DenseInv
<1>2. ASSUME NEW n \in Names, Extend(n) PROVE Set!Create(n)
  BY <1>2, TidyExtend DEF Extend, Set!Create
<1>3. ASSUME NEW n \in Names, Fill(n) PROVE Set!Create(n)
  BY <1>3, TidyFill DEF Fill, Set!Create
<1>4. ASSUME NEW n \in Names, Remove(n) PROVE Set!Remove(n)
  BY <1>4, TidyRemove DEF Remove, Set!Remove
<1>5. ASSUME NEW n \in Names, CreateExisting(n) PROVE Set!CreateExisting(n)
  <2>1. n \in Live
    BY <1>1, <1>5, FoundIsLive DEF CreateExisting
  <2> QED BY <1>5, <2>1 DEF CreateExisting, Set!CreateExisting, Live
<1>6. ASSUME NEW n \in Names, CreateFull(n) PROVE Set!CreateFull(n)
  <2>1. n \notin Live
    BY <1>1, <1>6, NotLive DEF CreateFull
  <2>2. Cardinality(Live) >= PerBlock
    BY <1>6, FullHasNames
  <2>3. Set!Cardinality(Live) = Cardinality(Live)
    BY DEF Set!Cardinality, Cardinality
  <2> QED BY <1>6, <2>1, <2>2, <2>3 DEF CreateFull, Set!CreateFull, Live
<1>7. ASSUME NEW n \in Names, RemoveMissing(n) PROVE Set!RemoveMissing(n)
  <2>1. n \notin Live
    BY <1>1, <1>7, NotLive DEF RemoveMissing
  <2> QED BY <1>7, <2>1 DEF RemoveMissing, Set!RemoveMissing, Live
<1>8. ASSUME NEW n \in Names, RemoveUnreached(n) PROVE FALSE
  <2>1. Passed(n) < size
    BY <1>8, RemoveReaches DEF RemoveUnreached
  <2>2. Passed(n) >= size
    BY <1>8 DEF RemoveUnreached
  <2>3. Passed(n) \in Nat
    <3>1. IsFiniteSet(Positions)
      BY <1>1, PositionsFinite
    <3>2. IsFiniteSet({q \in Positions : Before(q, First(n)) /\ blocks[q[1]][q[2]] # Free})
      BY <3>1, FS_Subset
    <3> QED BY <3>2, FS_CardinalityType DEF Passed
  <2> QED BY <1>1, <2>1, <2>2, <2>3, Sizes
<1>9. CASE UNCHANGED vars
  BY <1>9 DEF vars, Set!vars, Live
<1> QED BY <1>2, <1>3, <1>4, <1>5, <1>6, <1>7, <1>8, <1>9 DEF TidyNext, Next, Set!Next

\* A directory from which only the last entry is removed is a set of names that
\* may be full from PerBlock names on: no creation disturbs another name, and
\* every name that was found can be removed.
THEOREM TidyImplementsSet == TidySpec => ImplementsSet
<1>1. Init => Set!Init
  BY DEF Init, Set!Init, Live
<1> QED BY <1>1, TidyInvariant, TidyStepIsSetStep, PTL DEF TidySpec, ImplementsSet, Set!Spec

-----------------------------------------------------------------------------
(* Arithmetic of blocks and bytes.                                         *)

LEMMA Divided ==
  ASSUME NEW L \in Nat, L > 0, NEW a \in Nat
  PROVE  a \div L \in Nat /\ a % L \in 0..(L - 1) /\ a = L * (a \div L) + (a % L)
OBVIOUS

LEMMA QuotientUnique ==
  ASSUME NEW L \in Nat, L > 0, NEW a \in Nat, NEW q \in Nat, NEW r \in 0..(L - 1), a = L * q + r
  PROVE  a \div L = q /\ a % L = r
<1>1. PICK p \in Nat, t \in 0..(L - 1) : p = a \div L /\ t = a % L
  BY Divided
<1>2. a = L * p + t
  BY <1>1
<1>3. CASE p = q
  BY <1>1, <1>2, <1>3
<1>4. CASE p >= q + 1
  <2>1. L * p >= L * (q + 1)
    BY <1>4
  <2>2. L * (q + 1) = L * q + L
    OBVIOUS
  <2> QED BY <1>2, <2>1, <2>2
<1>5. CASE p + 1 <= q
  <2>1. L * q >= L * (p + 1)
    BY <1>5
  <2>2. L * (p + 1) = L * p + L
    OBVIOUS
  <2> QED BY <1>2, <2>1, <2>2
<1> QED BY <1>3, <1>4, <1>5

LEMMA Ceiling ==
  ASSUME NEW L \in Nat, L > 0, NEW a \in Nat
  PROVE  CeilDiv(a, L) \in Nat /\ \A k \in Nat : L * k < a <=> k < CeilDiv(a, L)
<1>1. PICK s \in Nat : s = a + L - 1
  OBVIOUS
<1>2. PICK c \in Nat, r \in 0..(L - 1) : c = s \div L /\ r = s % L
  BY Divided
<1>3. s = L * c + r
  BY <1>2
<1>4. CeilDiv(a, L) = c
  BY <1>1, <1>2 DEF CeilDiv
<1>5. ASSUME NEW k \in Nat PROVE L * k < a <=> k < c
  <2>1. CASE k < c
    <3>1. L * c >= L * (k + 1)
      BY <2>1
    <3>2. L * (k + 1) = L * k + L
      OBVIOUS
    <3> QED BY <1>1, <1>3, <2>1, <3>1, <3>2
  <2>2. CASE k >= c
    <3>1. L * k >= L * c
      BY <2>2
    <3> QED BY <1>1, <1>3, <2>2, <3>1
  <2> QED BY <2>1, <2>2
<1> QED BY <1>4, <1>5

\* A number of bytes that ends in block k.
LEMMA CeilingIs ==
  ASSUME NEW L \in Nat, L > 0, NEW a \in Nat, NEW k \in Nat, L * k < a, a <= L * k + L
  PROVE  CeilDiv(a, L) = k + 1
<1>1. CeilDiv(a, L) \in Nat /\ (L * k < a <=> k < CeilDiv(a, L))
  BY Ceiling
<1>2. L * (k + 1) < a <=> k + 1 < CeilDiv(a, L)
  <2>1. PICK j \in Nat : j = k + 1
    OBVIOUS
  <2>2. L * j < a <=> j < CeilDiv(a, L)
    BY Ceiling
  <2> QED BY <2>1, <2>2
<1>3. L * (k + 1) = L * k + L
  OBVIOUS
<1> QED BY <1>1, <1>2, <1>3

LEMMA CeilingOfMultiple ==
  ASSUME NEW L \in Nat, L > 0, NEW k \in Nat
  PROVE  CeilDiv(L * k, L) = k
<1>1. PICK a \in Nat : a = L * k
  OBVIOUS
<1>2. CASE k = 0
  <2>1. a = 0
    BY <1>1, <1>2
  <2>2. CeilDiv(a, L) \in Nat /\ (L * 0 < a <=> 0 < CeilDiv(a, L))
    BY Ceiling
  <2> QED BY <1>1, <1>2, <2>1, <2>2
<1>3. CASE k > 0
  <2>1. PICK j \in Nat : j + 1 = k
    BY <1>3
  <2>2. L * k = L * j + L
    BY <2>1
  <2> QED BY <1>1, <2>1, <2>2, CeilingIs
<1> QED BY <1>2, <1>3

\* The blocks that x bytes need end with the block of byte x at the latest.
LEMMA CeilingBelow ==
  ASSUME NEW L \in Nat, L > 0, NEW x \in Nat, NEW q \in Nat, q = x \div L
  PROVE  CeilDiv(x, L) \in Nat /\ CeilDiv(x, L) <= q + 1
<1>1. PICK r \in 0..(L - 1) : x = L * q + r
  BY Divided
<1>2. PICK k \in Nat : k = q + 1
  OBVIOUS
<1>3. L * k = L * q + L
  BY <1>2
<1>4. CeilDiv(x, L) \in Nat /\ (L * k < x <=> k < CeilDiv(x, L))
  BY Ceiling
<1> QED BY <1>1, <1>2, <1>3, <1>4

LEMMA Constants ==
  /\ Direct \in Nat /\ Direct >= 1 /\ Refs \in Nat /\ Refs >= 1
  /\ BlockSize \in Nat /\ BlockSize >= 1 /\ MaxWrite \in Nat /\ MaxWrite >= 1
  /\ MaxTxn \in Nat /\ LastBlock \in Nat /\ MaxBlocks \in Nat
  /\ MaxBlocks <= Direct + Refs * Refs
BY FileTreeAssumption

-----------------------------------------------------------------------------
(* The places in the tree of a file, and the blocks that are there.        *)

\* The places of a file of n blocks.
Places(n) ==
  {<<"data", k>> : k \in 0..(n - 1)}
    \cup (IF n > Direct THEN {<<"indirect", 0>>} ELSE {})
    \cup (IF n > Direct + Refs
          THEN {<<"double", 0>>} \cup {<<"single", d>> : d \in Singles(n)} ELSE {})

\* The block at a place.
At(i, refs, x) ==
  CASE x[1] = "data"     -> DataBlock(i, refs, x[2])
    [] x[1] = "indirect" -> i.indirect
    [] x[1] = "double"   -> i.double
    [] x[1] = "single"   -> refs[i.double][x[2]]

\* The places that are new with the block n.
NewPlaces(n) ==
  {<<"data", n>>}
    \cup (IF n = Direct THEN {<<"indirect", 0>>} ELSE {})
    \cup (IF n = Direct + Refs THEN {<<"double", 0>>} ELSE {})
    \cup (IF n >= Direct + Refs /\ (n - Direct - Refs) % Refs = 0
          THEN {<<"single", (n - Direct - Refs) \div Refs>>} ELSE {})

\* Where a block behind the double indirect block is.
LEMMA DoublePosition ==
  ASSUME NEW k \in Nat, k >= Direct + Refs
  PROVE  LET m == k - Direct - Refs
         IN /\ m \in Nat /\ m \div Refs \in Nat /\ m % Refs \in 0..(Refs - 1)
            /\ m = Refs * (m \div Refs) + (m % Refs)
            /\ GetPos(k) = [t |-> "dind", l1 |-> m \div Refs, l2 |-> m % Refs]
            /\ Singles(k + 1) = 0..(m \div Refs)
            /\ m % Refs # 0 => Singles(k) = 0..(m \div Refs)
            /\ m % Refs = 0 => Singles(k) = 0..(m \div Refs - 1)
<1>1. Refs \in Nat /\ Refs > 0 /\ Direct \in Nat /\ Direct > 0
  BY Constants
<1>2. PICK m \in Nat : m = k - Direct - Refs
  BY <1>1
<1>3. PICK d \in Nat, r \in 0..(Refs - 1) : d = m \div Refs /\ r = m % Refs
  BY <1>1, Divided
<1>4. m = Refs * d + r
  BY <1>1, <1>3
<1>5. GetPos(k) = [t |-> "dind", l1 |-> d, l2 |-> r]
  <2>1. m - d * Refs = r
    BY <1>1, <1>4
  <2>2. ~(k < Direct) /\ ~(k < Refs + Direct)
    BY <1>1
  <2> QED BY <1>2, <1>3, <2>1, <2>2 DEF GetPos
<1>6. Singles(k + 1) = 0..d
  <2>1. PICK a \in Nat, j \in Nat : a = m + 1 /\ j = k + 1
    OBVIOUS
  <2>2. CeilDiv(a, Refs) = d + 1
    BY <1>1, <1>3, <1>4, <2>1, CeilingIs
  <2>3. j - Direct - Refs = a
    BY <1>1, <1>2, <2>1
  <2>4. Singles(j) = 0..(d + 1 - 1)
    BY <2>2, <2>3 DEF Singles
  <2>5. d + 1 - 1 = d
    OBVIOUS
  <2> QED BY <2>1, <2>4, <2>5
<1>7. r # 0 => Singles(k) = 0..d
  <2> HAVE r # 0
  <2>1. CeilDiv(m, Refs) = d + 1
    BY <1>1, <1>3, <1>4, CeilingIs
  <2>2. d + 1 - 1 = d
    OBVIOUS
  <2> QED BY <1>2, <2>1, <2>2 DEF Singles
<1>8. r = 0 => Singles(k) = 0..(d - 1)
  <2> HAVE r = 0
  <2>1. m = Refs * d
    BY <1>1, <1>4
  <2>2. CeilDiv(m, Refs) = d
    BY <1>1, <2>1, CeilingOfMultiple
  <2> QED BY <1>2, <2>2 DEF Singles
<1> QED BY <1>2, <1>3, <1>4, <1>5, <1>6, <1>7, <1>8

LEMMA SinglesOf ==
  ASSUME NEW n \in Nat, n > Direct + Refs
  PROVE  /\ CeilDiv(n - Direct - Refs, Refs) \in Nat
         /\ Singles(n) = 0..(CeilDiv(n - Direct - Refs, Refs) - 1)
<1>1. Refs \in Nat /\ Refs > 0 /\ n - Direct - Refs \in Nat
  BY Constants
<1> QED BY <1>1, Ceiling DEF Singles

LEMMA MorePlaces ==
  ASSUME NEW n \in Nat
  PROVE  /\ Places(n + 1) = Places(n) \cup NewPlaces(n)
         /\ Places(n) \cap NewPlaces(n) = {}
<1>1. Refs \in Nat /\ Refs > 0 /\ Direct \in Nat /\ Direct > 0
  BY Constants
<1>2. {<<"data", k>> : k \in 0..(n + 1 - 1)} = {<<"data", k>> : k \in 0..(n - 1)} \cup {<<"data", n>>}
  OBVIOUS
<1>3. CASE n < Direct
  BY <1>1, <1>2, <1>3 DEF Places, NewPlaces
<1>4. CASE n >= Direct /\ n < Direct + Refs
  BY <1>1, <1>2, <1>4 DEF Places, NewPlaces
<1>5. CASE n >= Direct + Refs
  <2>1. PICK m \in Nat, d \in Nat, r \in 0..(Refs - 1) :
          m = n - Direct - Refs /\ d = m \div Refs /\ r = m % Refs
    BY <1>5, DoublePosition
  <2>2. m = Refs * d + r /\ Singles(n + 1) = 0..d
        /\ (r # 0 => Singles(n) = 0..d) /\ (r = 0 => Singles(n) = 0..(d - 1))
    BY <1>5, <2>1, DoublePosition
  <2>3. n = Direct + Refs => r = 0 /\ d = 0
    BY <1>1, <2>1, QuotientUnique
  <2>4. CASE r # 0
    <3>1. n # Direct + Refs /\ n # Direct /\ n > Direct + Refs
      BY <1>1, <1>5, <2>3, <2>4
    <3>2. NewPlaces(n) = {<<"data", n>>}
      BY <2>1, <2>4, <3>1 DEF NewPlaces
    <3>3. Places(n + 1) = {<<"data", k>> : k \in 0..(n + 1 - 1)} \cup {<<"indirect", 0>>}
             \cup {<<"double", 0>>} \cup {<<"single", e>> : e \in 0..d}
      BY <1>1, <2>2, <3>1 DEF Places
    <3>4. Places(n) = {<<"data", k>> : k \in 0..(n - 1)} \cup {<<"indirect", 0>>}
             \cup {<<"double", 0>>} \cup {<<"single", e>> : e \in 0..d}
      BY <1>1, <2>2, <2>4, <3>1 DEF Places
    <3> QED BY <1>2, <3>2, <3>3, <3>4
  <2>5. CASE r = 0
    <3>1. Places(n + 1) = {<<"data", k>> : k \in 0..(n + 1 - 1)} \cup {<<"indirect", 0>>}
             \cup {<<"double", 0>>} \cup {<<"single", e>> : e \in 0..d}
      BY <1>1, <1>5, <2>2 DEF Places
    <3>2. {<<"single", e>> : e \in 0..d} = {<<"single", e>> : e \in 0..(d - 1)} \cup {<<"single", d>>}
      OBVIOUS
    <3>3. CASE n = Direct + Refs
      <4>1. NewPlaces(n) = {<<"data", n>>, <<"double", 0>>, <<"single", d>>}
        BY <1>1, <2>1, <2>5, <3>3 DEF NewPlaces
      <4>2. Places(n) = {<<"data", k>> : k \in 0..(n - 1)} \cup {<<"indirect", 0>>}
        BY <1>1, <3>3 DEF Places
      <4>3. {<<"single", e>> : e \in 0..(d - 1)} = {}
        BY <2>3, <3>3
      <4> QED BY <1>2, <3>1, <3>2, <4>1, <4>2, <4>3
    <3>4. CASE n # Direct + Refs
      <4>1. NewPlaces(n) = {<<"data", n>>, <<"single", d>>}
        BY <1>1, <1>5, <2>1, <2>5, <3>4 DEF NewPlaces
      <4>2. Places(n) = {<<"data", k>> : k \in 0..(n - 1)} \cup {<<"indirect", 0>>}
             \cup {<<"double", 0>>} \cup {<<"single", e>> : e \in 0..(d - 1)}
        BY <1>1, <1>5, <2>2, <2>5, <3>4 DEF Places
      <4> QED BY <1>2, <3>1, <3>2, <4>1, <4>2
    <3> QED BY <3>3, <3>4
  <2> QED BY <2>4, <2>5
<1> QED BY <1>1, <1>3, <1>4, <1>5

-----------------------------------------------------------------------------
(* What a tree has at its places.                                          *)

Inodes ==
  [size : 0..(BlockSize * MaxBlocks), direct : [0..(Direct - 1) -> Blocks],
   indirect : Blocks, double : Blocks]

Rows == [0..(Refs - 1) -> Blocks]

\* The inode and the indirect blocks of a file, as they are read.
Readable(i, refs) ==
  /\ i \in Inodes
  /\ \A b \in DOMAIN refs : b \in Blocks /\ refs[b] \in Rows
  /\ Inner(i, refs) \subseteq DOMAIN refs

\* The blocks of the file, and that no block is at two places.
Used(i, refs) == {At(i, refs, x) : x \in Places(NumBlocks(i))}

Formed(i, refs) ==
  \A x \in Places(NumBlocks(i)), y \in Places(NumBlocks(i)) :
    At(i, refs, x) = At(i, refs, y) => x = y

LEMMA BlocksOf ==
  ASSUME NEW i \in Inodes
  PROVE  /\ NumBlocks(i) \in 0..MaxBlocks
         /\ \A k \in Nat : BlockSize * k < i.size <=> k < NumBlocks(i)
<1>1. BlockSize \in Nat /\ BlockSize > 0 /\ MaxBlocks \in Nat
  BY Constants
<1>2. PICK a \in Nat, top \in Nat : a = i.size /\ top = BlockSize * MaxBlocks /\ a <= top
  BY <1>1 DEF Inodes
<1>3. CeilDiv(a, BlockSize) \in Nat /\ \A k \in Nat : BlockSize * k < a <=> k < CeilDiv(a, BlockSize)
  BY <1>1, Ceiling
<1>4. ~(MaxBlocks < CeilDiv(a, BlockSize))
  <2>1. BlockSize * MaxBlocks < a <=> MaxBlocks < CeilDiv(a, BlockSize)
    BY <1>1, <1>3
  <2> QED BY <1>2, <2>1
<1> QED BY <1>1, <1>2, <1>3, <1>4 DEF NumBlocks

LEMMA AtPlaces ==
  ASSUME NEW i, NEW refs
  PROVE  /\ \A k \in Nat : At(i, refs, <<"data", k>>) = DataBlock(i, refs, k)
         /\ At(i, refs, <<"indirect", 0>>) = i.indirect
         /\ At(i, refs, <<"double", 0>>) = i.double
         /\ \A d \in Nat : At(i, refs, <<"single", d>>) = refs[i.double][d]
BY DEF At

LEMMA DataAt ==
  ASSUME NEW i, NEW refs, NEW k \in Nat
  PROVE  /\ k < Direct => DataBlock(i, refs, k) = i.direct[k]
         /\ k >= Direct /\ k < Direct + Refs => DataBlock(i, refs, k) = refs[i.indirect][k - Direct]
         /\ k >= Direct + Refs =>
              DataBlock(i, refs, k) =
                refs[refs[i.double][(k - Direct - Refs) \div Refs]][(k - Direct - Refs) % Refs]
<1>1. Refs \in Nat /\ Refs > 0 /\ Direct \in Nat /\ Direct > 0
  BY Constants
<1>2. CASE k < Direct
  BY <1>1, <1>2 DEF DataBlock, GetPos
<1>3. CASE k >= Direct /\ k < Direct + Refs
  BY <1>1, <1>3 DEF DataBlock, GetPos
<1>4. CASE k >= Direct + Refs
  <2>1. PICK m \in Nat : m = k - Direct - Refs
    BY <1>1, <1>4
  <2>2. GetPos(k) = [t |-> "dind", l1 |-> m \div Refs, l2 |-> m % Refs]
    BY <1>4, <2>1, DoublePosition
  <2>3. DataBlock(i, refs, k) = refs[refs[i.double][m \div Refs]][m % Refs]
    BY <2>2 DEF DataBlock
  <2>4. ~(k < Direct) /\ ~(k < Direct + Refs)
    BY <1>1, <1>4
  <2> QED BY <2>1, <2>3, <2>4
<1> QED BY <1>1, <1>2, <1>3, <1>4

LEMMA PlacesAre ==
  ASSUME NEW n \in Nat
  PROVE  /\ \A k \in 0..(n - 1) : <<"data", k>> \in Places(n)
         /\ n > Direct => <<"indirect", 0>> \in Places(n)
         /\ n > Direct + Refs => /\ <<"double", 0>> \in Places(n)
                                 /\ \A d \in Singles(n) : <<"single", d>> \in Places(n)
         /\ \A x \in Places(n) :
              \/ \E k \in 0..(n - 1) : x = <<"data", k>>
              \/ n > Direct /\ x = <<"indirect", 0>>
              \/ n > Direct + Refs /\ x = <<"double", 0>>
              \/ n > Direct + Refs /\ \E d \in Singles(n) : x = <<"single", d>>
BY DEF Places

\* The places of the singles are within an indirect block, and the block
\* behind a single is in its reach.
LEMMA WithinRows ==
  ASSUME NEW n \in 0..MaxBlocks, n > Direct + Refs
  PROVE  /\ Singles(n) \subseteq 0..(Refs - 1)
         /\ \A k \in Nat : k >= Direct + Refs /\ k < n =>
              /\ (k - Direct - Refs) \div Refs \in Singles(n)
              /\ (k - Direct - Refs) % Refs \in 0..(Refs - 1)
<1>1. Refs \in Nat /\ Refs > 0 /\ Direct \in Nat /\ MaxBlocks \in Nat /\ MaxBlocks <= Direct + Refs * Refs
  BY Constants
<1>2. PICK c \in Nat : c = CeilDiv(n - Direct - Refs, Refs) /\ Singles(n) = 0..(c - 1)
  BY <1>1, SinglesOf
<1>3. PICK a \in Nat : a = n - Direct - Refs
  BY <1>1
<1>4. \A k \in Nat : Refs * k < a <=> k < c
  BY <1>1, <1>2, <1>3, Ceiling
<1>5. c <= Refs
  <2>1. Refs * Refs < a <=> Refs < c
    BY <1>1, <1>4
  <2>2. PICK q \in Nat : q = Refs * Refs
    BY <1>1
  <2>3. a <= q
    BY <1>1, <1>3, <2>2
  <2> QED BY <1>1, <2>1, <2>2, <2>3
<1>6. ASSUME NEW k \in Nat, k >= Direct + Refs, k < n
      PROVE  (k - Direct - Refs) \div Refs \in Singles(n) /\ (k - Direct - Refs) % Refs \in 0..(Refs - 1)
  <2>1. PICK m \in Nat, d \in Nat, r \in 0..(Refs - 1) :
          m = k - Direct - Refs /\ d = m \div Refs /\ r = m % Refs /\ m = Refs * d + r
    BY <1>6, DoublePosition
  <2>2. m < a
    BY <1>1, <1>3, <1>6, <2>1
  <2>3. Refs * d < a
    BY <1>1, <1>3, <2>1, <2>2
  <2>4. d < c
    BY <1>4, <2>3
  <2> QED BY <1>2, <2>1, <2>4
<1> QED BY <1>1, <1>2, <1>5, <1>6

LEMMA UsedIsTree ==
  ASSUME NEW i \in Inodes, NEW refs
  PROVE  /\ Used(i, refs) = Tree(i, refs)
         /\ Inner(i, refs) \subseteq Used(i, refs)
<1>1. NumBlocks(i) \in Nat /\ Singles(NumBlocks(i)) \subseteq Int
  BY BlocksOf, Constants DEF Singles
<1>2. PICK n \in Nat : n = NumBlocks(i)
  BY <1>1
<1>3. n > Direct + Refs => n > Direct /\ Singles(n) \subseteq Nat
  BY <1>1, <1>2, SinglesOf, Constants
<1>4. ASSUME NEW b \in Tree(i, refs) PROVE b \in Used(i, refs)
  <2>1. CASE b \in Data(i, refs)
    <3>1. PICK k \in 0..(n - 1) : b = DataBlock(i, refs, k)
      BY <1>2, <2>1 DEF Data
    <3>k. k \in Nat
      BY <1>2
    <3>2. <<"data", k>> \in Places(n)
      BY PlacesAre
    <3>3. b = At(i, refs, <<"data", k>>)
      BY <3>1, <3>k, AtPlaces, Zenon
    <3> QED BY <1>2, <3>2, <3>3 DEF Used
  <2>2. CASE b \in Inner(i, refs)
    <3>1. CASE n > Direct /\ b = i.indirect
      <4>1. <<"indirect", 0>> \in Places(n) /\ b = At(i, refs, <<"indirect", 0>>)
        BY <3>1, PlacesAre, AtPlaces
      <4> QED BY <1>2, <4>1 DEF Used
    <3>2. CASE n > Direct + Refs /\ b = i.double
      <4>1. <<"double", 0>> \in Places(n) /\ b = At(i, refs, <<"double", 0>>)
        BY <3>2, PlacesAre, AtPlaces
      <4> QED BY <1>2, <4>1 DEF Used
    <3>3. ASSUME n > Direct + Refs, NEW d \in Singles(n), b = refs[i.double][d]
          PROVE  b \in Used(i, refs)
      <4>1. <<"single", d>> \in Places(n) /\ b = At(i, refs, <<"single", d>>)
        BY <1>3, <3>3, PlacesAre, AtPlaces
      <4> QED BY <1>2, <4>1 DEF Used
    <3> QED BY <1>2, <2>2, <3>1, <3>2, <3>3 DEF Inner
  <2> QED BY <2>1, <2>2 DEF Tree
<1>5. ASSUME NEW x \in Places(n) PROVE At(i, refs, x) \in Tree(i, refs)
  <2>1. CASE \E k \in 0..(n - 1) : x = <<"data", k>>
    <3>1. PICK k \in 0..(n - 1) : x = <<"data", k>>
      BY <2>1
    <3>k. k \in Nat
      BY <1>2
    <3>2. At(i, refs, x) = DataBlock(i, refs, k)
      BY <3>1, <3>k, AtPlaces, Zenon
    <3> QED BY <1>2, <3>2 DEF Tree, Data
  <2>2. CASE n > Direct /\ x = <<"indirect", 0>>
    BY <1>2, <2>2, AtPlaces DEF Tree, Inner
  <2>3. CASE n > Direct + Refs /\ x = <<"double", 0>>
    BY <1>2, <2>3, AtPlaces DEF Tree, Inner
  <2>4. CASE n > Direct + Refs /\ \E d \in Singles(n) : x = <<"single", d>>
    <3>1. PICK d \in Singles(n) : x = <<"single", d>>
      BY <2>4
    <3>2. At(i, refs, x) = refs[i.double][d]
      BY <1>3, <2>4, <3>1, AtPlaces
    <3> QED BY <1>2, <2>4, <3>2 DEF Tree, Inner
  <2> QED BY <2>1, <2>2, <2>3, <2>4, PlacesAre
<1>6. \A b \in Used(i, refs) : b \in Tree(i, refs)
  BY <1>2, <1>5 DEF Used
<1> QED BY <1>4, <1>6 DEF Tree

\* A data block of the file is where its inner blocks say.
LEMMA WayTo ==
  ASSUME NEW i \in Inodes, NEW refs, NEW k \in Nat, k < NumBlocks(i)
  PROVE  /\ k >= Direct => i.indirect \in Inner(i, refs)
         /\ k >= Direct + Refs => /\ i.double \in Inner(i, refs)
                                  /\ refs[i.double][(k - Direct - Refs) \div Refs] \in Inner(i, refs)
<1>1. PICK n \in 0..MaxBlocks : n = NumBlocks(i)
  BY BlocksOf
<1>2. Refs \in Nat /\ Refs > 0 /\ Direct \in Nat /\ MaxBlocks \in Nat
  BY Constants
<1>3. k >= Direct => i.indirect \in Inner(i, refs)
  BY <1>1, <1>2 DEF Inner
<1>4. ASSUME k >= Direct + Refs
      PROVE  /\ i.double \in Inner(i, refs)
             /\ refs[i.double][(k - Direct - Refs) \div Refs] \in Inner(i, refs)
  <2>1. n > Direct + Refs
    BY <1>1, <1>2, <1>4
  <2>2. PICK d \in Singles(n) : d = (k - Direct - Refs) \div Refs
    BY <1>1, <1>4, <2>1, WithinRows
  <2>3. i.double \in Inner(i, refs)
    BY <1>1, <2>1 DEF Inner
  <2>4. refs[i.double][d] \in Inner(i, refs)
    BY <1>1, <2>1 DEF Inner
  <2> QED BY <2>2, <2>3, <2>4
<1> QED BY <1>3, <1>4

\* The references in the inner blocks of a file say where its blocks are.
LEMMA Agree ==
  ASSUME NEW i \in Inodes, NEW j \in Inodes, NEW refs, NEW others,
         NumBlocks(j) = NumBlocks(i), j.direct = i.direct,
         j.indirect = i.indirect, j.double = i.double,
         \A b \in Inner(i, refs) : others[b] = refs[b]
  PROVE  /\ \A x \in Places(NumBlocks(i)) : At(j, others, x) = At(i, refs, x)
         /\ \A k \in Nat : k < NumBlocks(i) => DataBlock(j, others, k) = DataBlock(i, refs, k)
         /\ Inner(j, others) = Inner(i, refs)
         /\ Used(j, others) = Used(i, refs)
         /\ Formed(i, refs) => Formed(j, others)
<1>1. PICK n \in 0..MaxBlocks : n = NumBlocks(i)
  BY BlocksOf
<1>2. Refs \in Nat /\ Refs > 0 /\ Direct \in Nat /\ Direct > 0 /\ MaxBlocks \in Nat /\ n \in Nat
  BY Constants
<1>3. ASSUME n > Direct + Refs
      PROVE  /\ Singles(n) \subseteq Nat
             /\ \A d \in Singles(n) : others[i.double][d] = refs[i.double][d]
  <2>1. Singles(n) \subseteq Nat
    BY <1>2, <1>3, SinglesOf
  <2>2. i.double \in Inner(i, refs)
    BY <1>1, <1>3 DEF Inner
  <2> QED BY <2>1, <2>2
<1>4. ASSUME NEW k \in Nat, k < n
      PROVE  DataBlock(j, others, k) = DataBlock(i, refs, k)
  <2>0. k < NumBlocks(i)
    BY <1>1, <1>4
  <2>1. CASE k < Direct
    BY <2>1, DataAt
  <2>2. CASE k >= Direct /\ k < Direct + Refs
    <3>1. i.indirect \in Inner(i, refs)
      BY <2>0, <2>2, WayTo
    <3>2. others[i.indirect] = refs[i.indirect]
      BY <3>1
    <3> QED BY <2>2, <3>2, DataAt
  <2>3. CASE k >= Direct + Refs
    <3>1. PICK m \in Nat, d \in Nat, r \in Nat :
            m = k - Direct - Refs /\ d = m \div Refs /\ r = m % Refs
      BY <2>3, DoublePosition
    <3>2. i.double \in Inner(i, refs) /\ refs[i.double][d] \in Inner(i, refs)
      BY <2>0, <2>3, <3>1, WayTo
    <3>3. others[i.double] = refs[i.double] /\ others[refs[i.double][d]] = refs[refs[i.double][d]]
      BY <3>2
    <3>4. DataBlock(i, refs, k) = refs[refs[i.double][d]][r]
      BY <2>3, <3>1, DataAt
    <3>5. DataBlock(j, others, k) = others[others[j.double][d]][r]
      BY <2>3, <3>1, DataAt
    <3> QED BY <3>3, <3>4, <3>5
  <2> QED BY <1>2, <2>1, <2>2, <2>3
<1>5. ASSUME NEW x \in Places(n) PROVE At(j, others, x) = At(i, refs, x)
  <2>1. ASSUME NEW k \in 0..(n - 1), x = <<"data", k>> PROVE At(j, others, x) = At(i, refs, x)
    <3>1. k \in Nat /\ k < n
      BY <1>2
    <3>2. At(j, others, <<"data", k>>) = DataBlock(j, others, k)
      BY <3>1, AtPlaces, Zenon
    <3>3. At(i, refs, <<"data", k>>) = DataBlock(i, refs, k)
      BY <3>1, AtPlaces, Zenon
    <3> QED BY <1>4, <2>1, <3>1, <3>2, <3>3
  <2>2. CASE x = <<"indirect", 0>> \/ x = <<"double", 0>>
    BY <2>2, AtPlaces
  <2>3. ASSUME n > Direct + Refs, NEW d \in Singles(n), x = <<"single", d>>
        PROVE At(j, others, x) = At(i, refs, x)
    <3>1. d \in Nat
      BY <1>3, <2>3
    <3>2. At(j, others, <<"single", d>>) = others[j.double][d]
      BY <3>1, AtPlaces, Zenon
    <3>3. At(i, refs, <<"single", d>>) = refs[i.double][d]
      BY <3>1, AtPlaces, Zenon
    <3> QED BY <1>3, <2>3, <3>2, <3>3
  <2> QED BY <1>2, <2>1, <2>2, <2>3, PlacesAre
<1>6. Inner(j, others) = Inner(i, refs)
  BY <1>1, <1>3 DEF Inner
<1>7. Used(j, others) = Used(i, refs)
  BY <1>1, <1>5 DEF Used
<1>8. Formed(i, refs) => Formed(j, others)
  BY <1>1, <1>5 DEF Formed
<1> QED BY <1>1, <1>4, <1>5, <1>6, <1>7, <1>8

LEMMA BlocksAreBlocks ==
  ASSUME NEW i, NEW refs, Readable(i, refs)
  PROVE  /\ Used(i, refs) \subseteq Blocks
         /\ \A k \in Nat : k < NumBlocks(i) => DataBlock(i, refs, k) \in Blocks
<1>1. PICK n \in 0..MaxBlocks : n = NumBlocks(i)
  BY BlocksOf DEF Readable
<1>2. Refs \in Nat /\ Refs > 0 /\ Direct \in Nat /\ Direct > 0 /\ MaxBlocks \in Nat /\ n \in Nat
  BY Constants
<1>3. i.direct \in [0..(Direct - 1) -> Blocks] /\ i.indirect \in Blocks /\ i.double \in Blocks
  BY DEF Readable, Inodes
<1>4. \A b \in Inner(i, refs) : b \in Blocks /\ refs[b] \in [0..(Refs - 1) -> Blocks]
  BY DEF Readable, Rows
<1>5. ASSUME NEW k \in Nat, k < n PROVE DataBlock(i, refs, k) \in Blocks
  <2>0. k < NumBlocks(i) /\ i \in Inodes
    BY <1>1, <1>5 DEF Readable
  <2>1. CASE k < Direct
    BY <1>2, <1>3, <2>1, DataAt
  <2>2. CASE k >= Direct /\ k < Direct + Refs
    <3>1. i.indirect \in Inner(i, refs)
      BY <2>0, <2>2, WayTo
    <3>2. k - Direct \in 0..(Refs - 1)
      BY <1>2, <2>2
    <3>3. refs[i.indirect][k - Direct] \in Blocks
      BY <1>4, <3>1, <3>2
    <3> QED BY <2>2, <3>3, DataAt
  <2>3. CASE k >= Direct + Refs
    <3>1. PICK m \in Nat, d \in Nat, r \in 0..(Refs - 1) :
            m = k - Direct - Refs /\ d = m \div Refs /\ r = m % Refs
      BY <2>3, DoublePosition
    <3>2. refs[i.double][d] \in Inner(i, refs)
      BY <2>0, <2>3, <3>1, WayTo
    <3>3. refs[refs[i.double][d]][r] \in Blocks
      BY <1>4, <3>2
    <3>4. DataBlock(i, refs, k) = refs[refs[i.double][d]][r]
      BY <2>3, <3>1, DataAt
    <3> QED BY <3>3, <3>4
  <2> QED BY <1>2, <2>1, <2>2, <2>3
<1>6. Data(i, refs) \subseteq Blocks
  BY <1>1, <1>5 DEF Data
<1>7. Inner(i, refs) \subseteq Blocks
  BY <1>4
<1>8. Used(i, refs) = Tree(i, refs)
  BY UsedIsTree DEF Readable
<1> QED BY <1>1, <1>5, <1>6, <1>7, <1>8 DEF Tree

-----------------------------------------------------------------------------
(* How many blocks a file has, and what is left for it.                    *)

NumPlaces(n) == n + NumInner(n)

\* The values of a function.
Image(f) == {f[k] : k \in DOMAIN f}

LEMMA ImageCount ==
  ASSUME NEW f, NEW a \in Int, NEW b \in Int, DOMAIN f = a..b
  PROVE  /\ IsFiniteSet(Image(f)) /\ Cardinality(Image(f)) \in Nat
         /\ Cardinality(Image(f)) <= (IF a > b THEN 0 ELSE b - a + 1)
<1>1. IsFiniteSet(a..b) /\ Cardinality(a..b) = IF a > b THEN 0 ELSE b - a + 1
  BY FS_Interval
<1>2. PICK S, T : S = a..b /\ T = Image(f)
  OBVIOUS
<1>3. PICK g : g = [k \in S |-> f[k]]
  OBVIOUS
<1>4. g \in Surjection(S, T)
  BY <1>2, <1>3 DEF Surjection, Image
<1>5. IsFiniteSet(T) /\ Cardinality(T) <= Cardinality(S)
  BY <1>1, <1>2, <1>4, FS_Surjection
<1>6. Cardinality(T) \in Nat /\ Cardinality(S) \in Nat
  BY <1>1, <1>2, <1>5, FS_CardinalityType
<1> QED BY <1>1, <1>2, <1>5, <1>6

LEMMA Together ==
  ASSUME NEW S, NEW T, IsFiniteSet(S), IsFiniteSet(T)
  PROVE  /\ IsFiniteSet(S \cup T)
         /\ Cardinality(S) \in Nat /\ Cardinality(T) \in Nat /\ Cardinality(S \cup T) \in Nat
         /\ Cardinality(S \cup T) <= Cardinality(S) + Cardinality(T)
<1>1. /\ IsFiniteSet(S \cup T) /\ IsFiniteSet(S \cap T)
      /\ Cardinality(S \cup T) = Cardinality(S) + Cardinality(T) - Cardinality(S \cap T)
  BY FS_Union, FS_Intersection
<1>2. Cardinality(S) \in Nat /\ Cardinality(T) \in Nat /\ Cardinality(S \cup T) \in Nat
      /\ Cardinality(S \cap T) \in Nat
  BY <1>1, FS_CardinalityType
<1> QED BY <1>1, <1>2

LEMMA SmallSets ==
  /\ \A x : IsFiniteSet({x}) /\ Cardinality({x}) = 1
  /\ IsFiniteSet({}) /\ Cardinality({}) = 0
BY FS_Singleton, FS_EmptySet

LEMMA NumInnerIs ==
  ASSUME NEW n \in Nat
  PROVE  /\ NumInner(n) \in Nat
         /\ n <= Direct => NumInner(n) = 0
         /\ n > Direct /\ n <= Direct + Refs => NumInner(n) = 1
         /\ n > Direct + Refs => NumInner(n) = 2 + CeilDiv(n - Direct - Refs, Refs)
<1>1. Refs \in Nat /\ Refs > 0 /\ Direct \in Nat
  BY Constants
<1>2. n > Direct + Refs => CeilDiv(n - Direct - Refs, Refs) \in Nat
  BY SinglesOf
<1> QED BY <1>1, <1>2 DEF NumInner

LEMMA NextNumPlaces ==
  ASSUME NEW n \in Nat
  PROVE  /\ NumPlaces(n) \in Nat /\ NewInner(GetPos(n)) \in 0..2
         /\ NumPlaces(n + 1) = NumPlaces(n) + 1 + NewInner(GetPos(n))
<1>1. Refs \in Nat /\ Refs > 0 /\ Direct \in Nat /\ Direct > 0
  BY Constants
<1>2. NumPlaces(n) \in Nat
  BY NumInnerIs DEF NumPlaces
<1>3. PICK j \in Nat : j = n + 1
  OBVIOUS
<1>4. CASE n < Direct
  <2>1. NewInner(GetPos(n)) = 0
    BY <1>4 DEF GetPos, NewInner
  <2>2. NumInner(n) = 0 /\ NumInner(j) = 0
    BY <1>1, <1>3, <1>4, NumInnerIs
  <2> QED BY <1>2, <1>3, <2>1, <2>2 DEF NumPlaces
<1>5. CASE n >= Direct /\ n < Direct + Refs
  <2>1. NewInner(GetPos(n)) = IF n = Direct THEN 1 ELSE 0
    BY <1>1, <1>5 DEF GetPos, NewInner
  <2>2. NumInner(j) = 1
    BY <1>1, <1>3, <1>5, NumInnerIs
  <2>3. NumInner(n) = IF n = Direct THEN 0 ELSE 1
    BY <1>1, <1>5, NumInnerIs
  <2> QED BY <1>2, <1>3, <2>1, <2>2, <2>3 DEF NumPlaces
<1>6. CASE n >= Direct + Refs
  <2>1. PICK m \in Nat, d \in Nat, r \in 0..(Refs - 1) :
          m = n - Direct - Refs /\ d = m \div Refs /\ r = m % Refs /\ m = Refs * d + r
    BY <1>6, DoublePosition
  <2>2. GetPos(n) = [t |-> "dind", l1 |-> d, l2 |-> r]
    BY <1>6, <2>1, DoublePosition
  <2>3. NewInner(GetPos(n)) = IF r # 0 THEN 0 ELSE IF d # 0 THEN 1 ELSE 2
    BY <2>2 DEF NewInner
  <2>4. NumInner(j) = d + 3
    <3>1. PICK a \in Nat : a = m + 1 /\ a = j - Direct - Refs
      BY <1>1, <1>3, <1>6, <2>1
    <3>2. CeilDiv(a, Refs) = d + 1
      BY <1>1, <2>1, <3>1, CeilingIs
    <3>3. NumInner(j) = 2 + CeilDiv(a, Refs)
      BY <1>1, <1>3, <1>6, <3>1, NumInnerIs
    <3> QED BY <3>2, <3>3
  <2>5. m = 0 => d = 0 /\ r = 0
    BY <1>1, <2>1, QuotientUnique
  <2>6. m # 0 => NumInner(n) = 2 + CeilDiv(m, Refs)
    BY <1>1, <1>6, <2>1, NumInnerIs
  <2>7. m = 0 => NumInner(n) = 1
    BY <1>1, <1>6, <2>1, NumInnerIs
  <2>8. r # 0 => CeilDiv(m, Refs) = d + 1
    BY <1>1, <2>1, CeilingIs
  <2>9. r = 0 => CeilDiv(m, Refs) = d
    <3> HAVE r = 0
    <3>1. m = Refs * d
      BY <1>1, <2>1
    <3> QED BY <1>1, <3>1, CeilingOfMultiple
  <2>a. d = 0 /\ r = 0 => m = 0
    BY <1>1, <2>1
  <2>b. NumInner(j) = NumInner(n) + NewInner(GetPos(n))
    <3>1. CASE r # 0
      BY <2>3, <2>4, <2>5, <2>6, <2>8, <3>1
    <3>2. CASE r = 0 /\ d # 0
      BY <2>3, <2>4, <2>5, <2>6, <2>9, <3>2
    <3>3. CASE r = 0 /\ d = 0
      BY <2>3, <2>4, <2>7, <2>a, <3>3
    <3> QED BY <3>1, <3>2, <3>3
  <2>c. NewInner(GetPos(n)) \in 0..2
    BY <2>3
  <2>d. NumInner(n) \in Nat
    BY NumInnerIs
  <2> QED BY <1>2, <1>3, <2>b, <2>c, <2>d DEF NumPlaces
<1> QED BY <1>1, <1>4, <1>5, <1>6

LEMMA NumPlacesGrow ==
  ASSUME NEW n \in Nat, NEW q \in Nat, n <= q
  PROVE  NumPlaces(n) <= NumPlaces(q)
<1>1. Refs \in Nat /\ Refs > 0 /\ Direct \in Nat /\ Direct > 0
  BY Constants
<1>2. NumInner(n) \in Nat /\ NumInner(q) \in Nat
  BY NumInnerIs
<1>3. NumInner(n) <= NumInner(q)
  <2>1. CASE n <= Direct
    BY <1>1, <1>2, <2>1, NumInnerIs
  <2>2. CASE n > Direct /\ n <= Direct + Refs
    <3>1. NumInner(n) = 1
      BY <2>2, NumInnerIs
    <3>2. q > Direct + Refs => CeilDiv(q - Direct - Refs, Refs) \in Nat
      BY SinglesOf
    <3> QED BY <1>1, <2>2, <3>1, <3>2, NumInnerIs
  <2>3. CASE n > Direct + Refs
    <3>1. PICK a \in Nat, b \in Nat : a = n - Direct - Refs /\ b = q - Direct - Refs
      BY <1>1, <2>3
    <3>2. PICK c \in Nat, d \in Nat : c = CeilDiv(a, Refs) /\ d = CeilDiv(b, Refs)
      BY <1>1, Ceiling
    <3>3. c <= d
      <4>1. Refs * d < a <=> d < c
        BY <1>1, <3>2, Ceiling
      <4>2. Refs * d < b <=> d < d
        BY <1>1, <3>2, Ceiling
      <4>3. PICK z \in Nat : z = Refs * d
        BY <1>1
      <4> QED BY <1>1, <3>1, <3>2, <4>1, <4>2, <4>3
    <3>4. NumInner(n) = 2 + c /\ NumInner(q) = 2 + d
      BY <1>1, <2>3, <3>1, <3>2, NumInnerIs
    <3> QED BY <3>3, <3>4
  <2> QED BY <1>1, <2>1, <2>2, <2>3
<1> QED BY <1>2, <1>3 DEF NumPlaces

LEMMA UsedCount ==
  ASSUME NEW i \in Inodes, NEW refs
  PROVE  /\ IsFiniteSet(Used(i, refs)) /\ Cardinality(Used(i, refs)) \in Nat
         /\ Cardinality(Used(i, refs)) <= NumPlaces(NumBlocks(i))
<1>1. PICK n \in Nat : n = NumBlocks(i)
  BY BlocksOf, Constants
<1>2. Refs \in Nat /\ Refs > 0 /\ Direct \in Nat /\ Direct > 0
  BY Constants
<1>3. IsFiniteSet(Data(i, refs)) /\ Cardinality(Data(i, refs)) <= n
  <2>e. PICK e \in Int : e = n - 1
    OBVIOUS
  <2>1. PICK f : f = [k \in 0..e |-> DataBlock(i, refs, k)]
    OBVIOUS
  <2>2. Data(i, refs) = Image(f) /\ DOMAIN f = 0..e
    BY <1>1, <2>e, <2>1 DEF Data, Image
  <2>3. /\ IsFiniteSet(Image(f)) /\ Cardinality(Image(f)) \in Nat
        /\ Cardinality(Image(f)) <= (IF 0 > e THEN 0 ELSE e - 0 + 1)
    BY <2>2, ImageCount
  <2> QED BY <2>e, <2>2, <2>3
<1>4. IsFiniteSet(Inner(i, refs)) /\ Cardinality(Inner(i, refs)) <= NumInner(n)
  <2>1. CASE n <= Direct
    <3>1. Inner(i, refs) = {}
      BY <1>1, <1>2, <2>1 DEF Inner
    <3> QED BY <2>1, <3>1, NumInnerIs, SmallSets
  <2>2. CASE n > Direct /\ n <= Direct + Refs
    <3>1. Inner(i, refs) = {i.indirect}
      BY <1>1, <1>2, <2>2 DEF Inner
    <3>2. NumInner(n) = 1
      BY <2>2, NumInnerIs
    <3>3. IsFiniteSet({i.indirect}) /\ Cardinality({i.indirect}) = 1
      BY SmallSets
    <3> QED BY <3>1, <3>2, <3>3
  <2>3. CASE n > Direct + Refs
    <3>1. PICK c \in Nat : c = CeilDiv(n - Direct - Refs, Refs) /\ Singles(n) = 0..(c - 1)
      BY <2>3, SinglesOf
    <3>2. PICK T : T = {refs[i.double][d] : d \in 0..(c - 1)}
      OBVIOUS
    <3>e. PICK e \in Int : e = c - 1
      OBVIOUS
    <3>3. IsFiniteSet(T) /\ Cardinality(T) <= (IF 0 > e THEN 0 ELSE e - 0 + 1)
      <4>1. PICK f : f = [d \in 0..e |-> refs[i.double][d]]
        OBVIOUS
      <4>2. T = Image(f) /\ DOMAIN f = 0..e
        BY <3>e, <3>2, <4>1 DEF Image
      <4> QED BY <4>2, ImageCount
    <3>4. Cardinality(T) <= c
      BY <3>e, <3>3
    <3>5. Inner(i, refs) = {i.indirect} \cup ({i.double} \cup T)
      <4>1. n > Direct
        BY <1>2, <2>3
      <4>2. T = {refs[i.double][d] : d \in Singles(n)}
        BY <3>1, <3>2
      <4>3. Inner(i, refs) = {i.indirect} \cup ({i.double} \cup {refs[i.double][d] : d \in Singles(n)})
        BY <1>1, <2>3, <4>1 DEF Inner
      <4> QED BY <4>2, <4>3
    <3>6. IsFiniteSet({i.double} \cup T) /\ Cardinality({i.double} \cup T) \in Nat
          /\ Cardinality({i.double} \cup T) <= 1 + c
      <4>1. IsFiniteSet({i.double}) /\ Cardinality({i.double}) = 1
        BY SmallSets
      <4> QED BY <3>3, <3>4, <4>1, Together
    <3>7. IsFiniteSet({i.indirect}) /\ Cardinality({i.indirect}) = 1
      BY SmallSets
    <3>8. IsFiniteSet(Inner(i, refs)) /\ Cardinality(Inner(i, refs)) \in Nat
          /\ Cardinality(Inner(i, refs)) <= 1 + (1 + c)
      BY <3>5, <3>6, <3>7, Together
    <3>9. NumInner(n) = 2 + c
      BY <2>3, <3>1, NumInnerIs
    <3> QED BY <3>8, <3>9
  <2> QED BY <1>2, <2>1, <2>2, <2>3
<1>5. Used(i, refs) = Data(i, refs) \cup Inner(i, refs)
  BY UsedIsTree DEF Tree
<1>6. NumInner(n) \in Nat
  BY NumInnerIs
<1> QED BY <1>1, <1>3, <1>4, <1>5, <1>6, Together DEF NumPlaces

\* Every block that is not free is of the file, or block 0, the block of the
\* inode, or the one that another file has.
LEMMA RoomLeft ==
  ASSUME NEW S, S \subseteq Blocks, NEW T, IsFiniteSet(T), NEW n \in Nat, n < MaxBlocks,
         Cardinality(T) <= NumPlaces(n), NEW l, NEW f, Blocks \subseteq S \cup T \cup {0, l, f}
  PROVE  /\ IsFiniteSet(S) /\ Cardinality(S) \in Nat
         /\ 1 + NewInner(GetPos(n)) <= Cardinality(S)
<1>1. LastBlock \in Nat /\ MaxBlocks \in Nat
  BY Constants
<1>2. IsFiniteSet(Blocks) /\ Cardinality(Blocks) = LastBlock + 1
  BY <1>1, FS_Interval DEF Blocks
<1>3. IsFiniteSet(S) /\ Cardinality(S) \in Nat
  BY <1>2, FS_Subset, FS_CardinalityType
<1>4. PICK U : U = {0, l, f}
  OBVIOUS
<1>5. IsFiniteSet(U) /\ Cardinality(U) <= 3
  <2>1. IsFiniteSet({0}) /\ Cardinality({0}) = 1
    BY SmallSets
  <2>2. IsFiniteSet({l}) /\ Cardinality({l}) = 1
    BY SmallSets
  <2>3. IsFiniteSet({f}) /\ Cardinality({f}) = 1
    BY SmallSets
  <2>4. PICK V : V = {0} \cup {l}
    OBVIOUS
  <2>5. IsFiniteSet(V) /\ Cardinality(V) \in Nat /\ Cardinality(V) <= 2
    BY <2>1, <2>2, <2>4, Together
  <2>6. U = V \cup {f}
    BY <1>4, <2>4
  <2>7. Cardinality(U) \in Nat /\ Cardinality(U) <= Cardinality(V) + Cardinality({f})
    BY <2>3, <2>5, <2>6, Together
  <2> QED BY <2>3, <2>5, <2>6, <2>7, Together
<1>6. PICK V : V = S \cup T
  OBVIOUS
<1>7. /\ IsFiniteSet(V) /\ Cardinality(V) \in Nat /\ Cardinality(T) \in Nat
      /\ Cardinality(V) <= Cardinality(S) + Cardinality(T)
  BY <1>3, <1>6, Together
<1>8. /\ IsFiniteSet(V \cup U) /\ Cardinality(V \cup U) \in Nat
      /\ Cardinality(V \cup U) <= Cardinality(V) + Cardinality(U) /\ Cardinality(U) \in Nat
  BY <1>5, <1>7, Together
<1>9. Blocks \subseteq V \cup U
  BY <1>4, <1>6
<1>a. LastBlock + 1 <= Cardinality(V \cup U)
  BY <1>2, <1>8, <1>9, FS_Subset
<1>b. LastBlock + 1 <= Cardinality(S) + Cardinality(T) + 3
  BY <1>1, <1>3, <1>5, <1>7, <1>8, <1>a
<1>c. PICK j \in Nat : j = n + 1 /\ j <= MaxBlocks
  BY <1>1
<1>d. NumPlaces(j) <= NumPlaces(MaxBlocks) /\ NumPlaces(j) \in Nat /\ NumPlaces(MaxBlocks) \in Nat
  BY <1>1, <1>c, NumPlacesGrow, NextNumPlaces
<1>e. NumPlaces(MaxBlocks) + 2 <= LastBlock
  BY FileTreeSizes DEF NumPlaces
<1>f. NumPlaces(j) = NumPlaces(n) + 1 + NewInner(GetPos(n)) /\ NumPlaces(n) \in Nat
      /\ NewInner(GetPos(n)) \in Nat
  BY <1>c, NextNumPlaces
<1> QED BY <1>1, <1>3, <1>7, <1>b, <1>d, <1>e, <1>f

LEMMA LeastIn ==
  ASSUME NEW S, S \subseteq Blocks, S # {}
  PROVE  \E b \in S : \A c \in S : b <= c
<1>1. IsWellFoundedOn(OpToRel(<, Nat), Nat)
  BY NatLessThanWellFounded
<1>2. S \subseteq Nat
  BY DEF Blocks
<1>3. \E b \in S : \A c \in S : ~(<<c, b>> \in OpToRel(<, Nat))
  BY <1>1, <1>2, WFMin
<1>4. \E b \in S : \A c \in S : ~(c < b)
  BY <1>2, <1>3 DEF OpToRel
<1> QED BY <1>2, <1>4

\* llfs_reserve_blocks takes different blocks, which are free.
LEMMA NthBlocks ==
  ASSUME free \subseteq Blocks, IsFiniteSet(free), Cardinality(free) \in Nat
  PROVE  /\ Cardinality(free) >= 1 => Nth(1) \in free
         /\ Cardinality(free) >= 2 => Nth(2) \in free /\ Nth(2) # Nth(1)
         /\ Cardinality(free) >= 3 => Nth(3) \in free /\ Nth(3) # Nth(1) /\ Nth(3) # Nth(2)
<1> DEFINE Upto(b) == {c \in free : c <= b}
<1>1. free \subseteq Nat
  BY DEF Blocks
<1>2. \A n \in Nat : (\E b \in free : Cardinality(Upto(b)) = n)
                       => Nth(n) \in free /\ Cardinality(Upto(Nth(n))) = n
  BY DEF Nth
<1>3. ASSUME NEW D, D \subseteq free, IsFiniteSet(D), Cardinality(D) \in Nat,
             Cardinality(D) < Cardinality(free), \A c \in D, e \in free \ D : c < e
      PROVE  \E b \in free \ D : Upto(b) = D \cup {b} /\ IsFiniteSet(D \cup {b})
                                 /\ Cardinality(D \cup {b}) = Cardinality(D) + 1
                                 /\ \A c \in D \cup {b}, e \in free \ (D \cup {b}) : c < e
  <2>1. free \ D # {}
    <3>1. free \ D = {} => D = free
      BY <1>3
    <3> QED BY <1>3, <3>1
  <2>2. PICK b \in free \ D : \A c \in free \ D : b <= c
    BY <2>1, LeastIn
  <2>3. Upto(b) = D \cup {b}
    <3>1. \A c \in D : c \in free /\ c <= b
      BY <1>1, <1>3, <2>2
    <3>2. \A c \in free \ D : c <= b => c = b
      BY <1>1, <2>2
    <3>3. b <= b /\ b \in free
      BY <1>1, <2>2
    <3> QED BY <3>1, <3>2, <3>3
  <2>4. IsFiniteSet(D \cup {b}) /\ Cardinality(D \cup {b}) = Cardinality(D) + 1
    BY <1>3, FS_AddElement
  <2>5. \A c \in D \cup {b}, e \in free \ (D \cup {b}) : c < e
    BY <1>1, <1>3, <2>2
  <2> QED BY <2>2, <2>3, <2>4, <2>5
<1>4. CASE Cardinality(free) = 0
  BY <1>4
<1>5. CASE Cardinality(free) >= 1
  <2>1. PICK a \in free : /\ Upto(a) = {a} /\ IsFiniteSet({a}) /\ Cardinality({a}) = 1
                          /\ \A e \in free \ {a} : a < e
    <3>1. PICK D : D = {}
      OBVIOUS
    <3>2. IsFiniteSet(D) /\ Cardinality(D) = 0
      BY <3>1, SmallSets
    <3>3. PICK a \in free \ D : /\ Upto(a) = D \cup {a} /\ IsFiniteSet(D \cup {a})
                                /\ Cardinality(D \cup {a}) = Cardinality(D) + 1
                                /\ \A c \in D \cup {a}, e \in free \ (D \cup {a}) : c < e
      <4>1. Cardinality(D) \in Nat /\ Cardinality(D) < Cardinality(free)
        BY <1>5, <3>2
      <4>2. D \subseteq free /\ \A c \in D, e \in free \ D : c < e
        BY <3>1
      <4> HIDE DEF Upto
      <4> QED BY <1>3, <3>2, <4>1, <4>2
    <3>4. D \cup {a} = {a}
      BY <3>1
    <3> QED BY <3>2, <3>3, <3>4
  <2>2. Nth(1) \in free /\ Cardinality(Upto(Nth(1))) = 1
    <3> HIDE DEF Upto
    <3> QED BY <1>2, <2>1
  <2>3. CASE Cardinality(free) = 1
    BY <2>2, <2>3
  <2>4. CASE Cardinality(free) >= 2
    <3>1. PICK b \in free : /\ b # a /\ Upto(b) = {a, b} /\ IsFiniteSet({a, b}) /\ Cardinality({a, b}) = 2
                            /\ \A c \in {a, b}, e \in free \ {a, b} : c < e
      <4>1. PICK D : D = {a}
        OBVIOUS
      <4>2. /\ D \subseteq free /\ IsFiniteSet(D) /\ Cardinality(D) = 1 /\ Cardinality(D) \in Nat
            /\ Cardinality(D) < Cardinality(free) /\ \A c \in D, e \in free \ D : c < e
        BY <2>1, <2>4, <4>1
      <4>3. PICK b \in free \ D : /\ Upto(b) = D \cup {b} /\ IsFiniteSet(D \cup {b})
                                  /\ Cardinality(D \cup {b}) = Cardinality(D) + 1
                                  /\ \A c \in D \cup {b}, e \in free \ (D \cup {b}) : c < e
        <5> HIDE DEF Upto
        <5> QED BY <1>3, <4>2
      <4>4. D \cup {b} = {a, b} /\ b # a
        BY <4>1, <4>3
      <4>5. /\ Upto(b) = {a, b} /\ IsFiniteSet({a, b}) /\ Cardinality({a, b}) = Cardinality(D) + 1
            /\ \A c \in {a, b}, e \in free \ {a, b} : c < e
        <5> HIDE DEF Upto
        <5> QED BY <4>3, <4>4, Zenon
      <4>6. Cardinality({a, b}) = 2
        BY <4>2, <4>5
      <4>7. b \in free
        BY <4>3
      <4> HIDE DEF Upto
      <4> QED BY <4>4, <4>5, <4>6, <4>7, Zenon
    <3>2. Nth(2) \in free /\ Cardinality(Upto(Nth(2))) = 2
      <4> HIDE DEF Upto
      <4> QED BY <1>2, <3>1
    <3>3. Nth(2) # Nth(1)
      BY <2>2, <3>2
    <3>4. CASE Cardinality(free) = 2
      BY <2>2, <3>2, <3>3, <3>4
    <3>5. CASE Cardinality(free) >= 3
      <4>1. PICK D : D = {a, b}
        OBVIOUS
      <4>2. /\ D \subseteq free /\ IsFiniteSet(D) /\ Cardinality(D) = 2 /\ Cardinality(D) \in Nat
            /\ Cardinality(D) < Cardinality(free) /\ \A c \in D, e \in free \ D : c < e
        BY <3>1, <3>5, <4>1
      <4>3. PICK g \in free \ D : /\ Upto(g) = D \cup {g}
                                  /\ Cardinality(D \cup {g}) = Cardinality(D) + 1
        <5> HIDE DEF Upto
        <5> QED BY <1>3, <4>2
      <4>4. Cardinality(Upto(g)) = 3
        BY <4>2, <4>3
      <4>5. Nth(3) \in free /\ Cardinality(Upto(Nth(3))) = 3
        <5> HIDE DEF Upto
        <5> QED BY <1>2, <4>4
      <4>6. Nth(3) # Nth(1) /\ Nth(3) # Nth(2)
        BY <2>2, <3>2, <4>5
      <4> QED BY <2>2, <3>2, <3>3, <4>5, <4>6
    <3> QED BY <2>4, <3>4, <3>5
  <2> QED BY <1>5, <2>3, <2>4
<1> QED BY <1>4, <1>5

-----------------------------------------------------------------------------
(* llfs_extend_file: the places of the file keep their blocks, and the new *)
(* places have the blocks that were reserved.                              *)

\* A handle with room for a block.
Growing(h) ==
  LET w == NewInner(GetPos(NumBlocks(h.inode)))
  IN /\ Readable(h.inode, h.mem)
     /\ Formed(h.inode, h.mem)
     /\ NumBlocks(h.inode) < MaxBlocks
     /\ free \subseteq Blocks
     /\ Used(h.inode, h.mem) \cap free = {}
     /\ Nth(1) \in free
     /\ w >= 1 => Nth(2) \in free /\ Nth(2) # Nth(1)
     /\ w = 2 => Nth(3) \in free /\ Nth(3) # Nth(1) /\ Nth(3) # Nth(2)

\* The indirect block of the k-th block, from the eleventh on.
SingleAt(i, refs, k) ==
  IF k < Direct + Refs THEN i.indirect ELSE refs[i.double][(k - Direct - Refs) \div Refs]

\* The inode i and the indirect blocks mem have one block more.
Grows(h, i, mem) ==
  LET n == NumBlocks(h.inode)
      p == GetPos(n)
  IN /\ Readable(i, mem)
     /\ n < Direct => i.indirect = h.inode.indirect
     /\ n >= Direct => Single(h, p) = SingleAt(i, mem, n)
     /\ n >= Direct + Refs => Double(h, p) = i.double
     /\ \A x \in Places(n) : At(i, mem, x) = At(h.inode, h.mem, x)
     /\ \A x \in NewPlaces(n), y \in NewPlaces(n) : At(i, mem, x) = At(i, mem, y) => x = y
     /\ {At(i, mem, x) : x \in NewPlaces(n)} = Taken(p)
     /\ \A b \in Inner(i, mem) :
          b \in Changed(h, p) \/ (b \in Inner(h.inode, h.mem) /\ mem[b] = h.mem[b])

OldRow(h, p, b) == IF b \in DOMAIN h.mem /\ b \notin Taken(p) THEN h.mem[b] ELSE NoRefs

LEMMA TakenIs ==
  ASSUME NEW p
  PROVE  /\ NewInner(p) = 0 => Taken(p) = {Nth(1)}
         /\ NewInner(p) = 1 => Taken(p) = {Nth(1), Nth(2)}
         /\ NewInner(p) = 2 => Taken(p) = {Nth(1), Nth(2), Nth(3)}
<1>1. 1..(1 + 0) = {1} /\ 1..(1 + 1) = {1, 2} /\ 1..(1 + 2) = {1, 2, 3}
  OBVIOUS
<1>2. ASSUME NewInner(p) = 0 PROVE Taken(p) = {Nth(1)}
  BY <1>1, <1>2 DEF Taken
<1>3. ASSUME NewInner(p) = 1 PROVE Taken(p) = {Nth(1), Nth(2)}
  BY <1>1, <1>3 DEF Taken
<1>4. ASSUME NewInner(p) = 2 PROVE Taken(p) = {Nth(1), Nth(2), Nth(3)}
  BY <1>1, <1>4 DEF Taken
<1> QED BY <1>2, <1>3, <1>4

LEMMA OldRows ==
  ASSUME NEW h, NEW p, \A b \in DOMAIN h.mem : b \in Blocks /\ h.mem[b] \in Rows
  PROVE  \A b : OldRow(h, p, b) \in Rows
<1>1. NoRefs \in Rows
  BY Constants DEF NoRefs, Rows, Blocks
<1> QED BY <1>1 DEF OldRow

\* The indirect blocks in memory after the extension, by the region of the file.
LEMMA MemDirect ==
  ASSUME NEW h, NEW p, p.t = "direct"
  PROVE  ExtendedMem(h, p) = [b \in DOMAIN h.mem \cup Taken(p) |-> OldRow(h, p, b)]
BY DEF ExtendedMem, OldRow

LEMMA MemIndirect ==
  ASSUME NEW h, NEW p, p.t = "ind"
  PROVE  ExtendedMem(h, p) =
           [b \in DOMAIN h.mem \cup Taken(p) |->
              IF b = Single(h, p) THEN [OldRow(h, p, b) EXCEPT ![p.l1] = Nth(1)]
              ELSE OldRow(h, p, b)]
BY DEF ExtendedMem, OldRow

LEMMA DataPlace ==
  ASSUME NEW i, NEW refs, NEW k \in Nat
  PROVE  /\ k < Direct => At(i, refs, <<"data", k>>) = i.direct[k]
         /\ k >= Direct /\ k < Direct + Refs =>
              At(i, refs, <<"data", k>>) = refs[i.indirect][k - Direct]
         /\ k >= Direct + Refs =>
              At(i, refs, <<"data", k>>) =
                refs[refs[i.double][(k - Direct - Refs) \div Refs]][(k - Direct - Refs) % Refs]
<1>1. At(i, refs, <<"data", k>>) = DataBlock(i, refs, k)
  BY AtPlaces
<1>2. PICK b : b = DataBlock(i, refs, k)
  OBVIOUS
<1>3. /\ k < Direct => b = i.direct[k]
      /\ k >= Direct /\ k < Direct + Refs => b = refs[i.indirect][k - Direct]
      /\ k >= Direct + Refs =>
           b = refs[refs[i.double][(k - Direct - Refs) \div Refs]][(k - Direct - Refs) % Refs]
  BY <1>2, DataAt
<1> QED BY <1>1, <1>2, <1>3, Zenon

\* An inode is its fields.
\* Block k is reference r of the indirect block.
InSingle(k, r) == k \in Nat /\ k >= Direct /\ k < Direct + Refs /\ r = k - Direct

LEMMA SinglePlace ==
  ASSUME NEW i, NEW refs, NEW k, NEW r, InSingle(k, r)
  PROVE  At(i, refs, <<"data", k>>) = refs[i.indirect][r]
BY DataPlace DEF InSingle

\* Block k is reference r of indirect block d of the double indirect block.
InDouble(k, d, r) ==
  /\ k \in Nat /\ k >= Direct + Refs
  /\ d = (k - Direct - Refs) \div Refs /\ r = (k - Direct - Refs) % Refs

LEMMA DoublePlace ==
  ASSUME NEW i, NEW refs, NEW k, NEW d, NEW r, InDouble(k, d, r)
  PROVE  At(i, refs, <<"data", k>>) = refs[refs[i.double][d]][r]
<1>1. PICK a, b : a = At(i, refs, <<"data", k>>)
                  /\ b = refs[refs[i.double][(k - Direct - Refs) \div Refs]][(k - Direct - Refs) % Refs]
  OBVIOUS
<1>2. a = b
  <2>1. k \in Nat /\ k >= Direct + Refs
    BY DEF InDouble
  <2> QED BY <1>1, <2>1, DataPlace
<1>3. b = refs[refs[i.double][d]][r]
  BY <1>1 DEF InDouble
<1> QED BY <1>1, <1>2, <1>3

LEMMA Fields ==
  ASSUME NEW j \in Inodes
  PROVE  \E s \in 0..(BlockSize * MaxBlocks), d \in [0..(Direct - 1) -> Blocks],
            e \in Blocks, f \in Blocks :
           j = [size |-> s, direct |-> d, indirect |-> e, double |-> f]
<1>1. PICK S, D : S = 0..(BlockSize * MaxBlocks) /\ D = [0..(Direct - 1) -> Blocks]
  OBVIOUS
<1>2. \E s \in S, d \in D, e \in Blocks, f \in Blocks :
        j = [size |-> s, direct |-> d, indirect |-> e, double |-> f]
  BY <1>1 DEF Inodes
<1> QED BY <1>1, <1>2

LEMMA MadeInode ==
  ASSUME NEW s \in 0..(BlockSize * MaxBlocks), NEW d \in [0..(Direct - 1) -> Blocks],
         NEW e \in Blocks, NEW f \in Blocks
  PROVE  [size |-> s, direct |-> d, indirect |-> e, double |-> f] \in Inodes
<1>1. PICK S, D : S = 0..(BlockSize * MaxBlocks) /\ D = [0..(Direct - 1) -> Blocks]
  OBVIOUS
<1> QED BY <1>1 DEF Inodes

LEMMA GrowDirect ==
  ASSUME NEW h, Growing(h), NumBlocks(h.inode) < Direct,
         NEW bytes \in 0..(BlockSize * MaxBlocks),
         NEW i, i = [ExtendedInode(h, GetPos(NumBlocks(h.inode))) EXCEPT !.size = bytes],
         NumBlocks(i) = NumBlocks(h.inode) + 1
  PROVE  Grows(h, i, ExtendedMem(h, GetPos(NumBlocks(h.inode))))
<1>1. PICK n \in Nat : n = NumBlocks(h.inode) /\ n < Direct
  BY BlocksOf, Constants DEF Growing, Readable
<1>2. Refs \in Nat /\ Refs > 0 /\ Direct \in Nat /\ Direct > 0
  BY Constants
<1>3. PICK p : p = GetPos(n) /\ p = [t |-> "direct", l1 |-> n]
  BY <1>1 DEF GetPos
<1>4. NewInner(p) = 0 /\ Taken(p) = {Nth(1)} /\ Nth(1) \in Blocks
  BY <1>1, <1>3, TakenIs DEF Growing, NewInner
<1>5. PICK mem : mem = ExtendedMem(h, p)
  OBVIOUS
<1>6. h.inode \in Inodes /\ \A b \in DOMAIN h.mem : b \in Blocks /\ h.mem[b] \in Rows
  BY DEF Growing, Readable
<1>7. i = [[h.inode EXCEPT !.direct[n] = Nth(1)] EXCEPT !.size = bytes]
  BY <1>1, <1>3 DEF ExtendedInode
<1>8. /\ i \in Inodes /\ i.indirect = h.inode.indirect /\ i.double = h.inode.double
      /\ i.direct = [h.inode.direct EXCEPT ![n] = Nth(1)]
  <2>1. PICK s \in 0..(BlockSize * MaxBlocks), d \in [0..(Direct - 1) -> Blocks],
             e \in Blocks, f \in Blocks :
          h.inode = [size |-> s, direct |-> d, indirect |-> e, double |-> f]
    BY <1>6, Fields
  <2>2. PICK g : g = [d EXCEPT ![n] = Nth(1)]
    OBVIOUS
  <2>3. g \in [0..(Direct - 1) -> Blocks]
    BY <1>1, <1>2, <1>4, <2>2
  <2>4. i = [size |-> bytes, direct |-> g, indirect |-> e, double |-> f]
    <3>1. PICK j : j = h.inode
      OBVIOUS
    <3>2. i = [[j EXCEPT !.direct[n] = Nth(1)] EXCEPT !.size = bytes]
      BY <1>7, <3>1
    <3>3. j = [size |-> s, direct |-> d, indirect |-> e, double |-> f]
      BY <2>1, <3>1
    <3> QED BY <2>2, <3>2, <3>3
  <2>5. i \in Inodes
    BY <2>3, <2>4, MadeInode
  <2>6. h.inode.direct = d /\ h.inode.indirect = e /\ h.inode.double = f
    BY <2>1
  <2>7. i.direct = g /\ i.indirect = e /\ i.double = f
    BY <2>4
  <2> QED BY <2>2, <2>5, <2>6, <2>7
<1>9. Inner(i, mem) = {}
  BY <1>1, <1>2 DEF Inner
<1>a. Readable(i, mem)
  <2>1. mem = [b \in DOMAIN h.mem \cup Taken(p) |-> OldRow(h, p, b)]
    <3>1. p.t = "direct"
      BY <1>3
    <3> QED BY <1>5, <3>1, MemDirect
  <2>2. \A b : OldRow(h, p, b) \in Rows
    BY <1>6, OldRows
  <2> QED BY <1>4, <1>6, <1>8, <1>9, <2>1, <2>2 DEF Readable
<1>b. h.inode.direct \in [0..(Direct - 1) -> Blocks]
  BY <1>6 DEF Inodes
<1>c. ASSUME NEW x \in Places(n) PROVE At(i, mem, x) = At(h.inode, h.mem, x)
  <2>1. PICK k \in 0..(n - 1) : x = <<"data", k>>
    BY <1>1, <1>2, PlacesAre
  <2>2. k \in Nat /\ k < Direct /\ k # n
    BY <1>1, <1>2
  <2>3. At(i, mem, <<"data", k>>) = i.direct[k]
    BY <2>2, DataPlace
  <2>4. At(h.inode, h.mem, <<"data", k>>) = h.inode.direct[k]
    BY <2>2, DataPlace
  <2>5. i.direct[k] = h.inode.direct[k]
    <3>1. k \in 0..(Direct - 1)
      BY <1>2, <2>2
    <3> QED BY <1>8, <1>b, <2>2, <3>1
  <2> QED BY <2>1, <2>3, <2>4, <2>5
<1>d. NewPlaces(n) = {<<"data", n>>}
  BY <1>1, <1>2 DEF NewPlaces
<1>e. At(i, mem, <<"data", n>>) = Nth(1)
  <2>1. At(i, mem, <<"data", n>>) = i.direct[n]
    BY <1>1, DataPlace
  <2> QED BY <1>1, <1>2, <1>8, <1>b, <2>1
<1> QED BY <1>1, <1>2, <1>3, <1>4, <1>5, <1>8, <1>9, <1>a, <1>c, <1>d, <1>e DEF Grows

LEMMA GrowIndirect ==
  ASSUME NEW h, Growing(h), NumBlocks(h.inode) >= Direct, NumBlocks(h.inode) < Direct + Refs,
         NEW bytes \in 0..(BlockSize * MaxBlocks),
         NEW i, i = [ExtendedInode(h, GetPos(NumBlocks(h.inode))) EXCEPT !.size = bytes],
         NumBlocks(i) = NumBlocks(h.inode) + 1
  PROVE  Grows(h, i, ExtendedMem(h, GetPos(NumBlocks(h.inode))))
<1>1. PICK n \in Nat : n = NumBlocks(h.inode) /\ n >= Direct /\ n < Direct + Refs
  BY BlocksOf, Constants DEF Growing, Readable
<1>2. Refs \in Nat /\ Refs > 0 /\ Direct \in Nat /\ Direct > 0
  BY Constants
<1>3. PICK p : p = GetPos(n) /\ p = [t |-> "ind", l1 |-> n - Direct]
  BY <1>1, <1>2 DEF GetPos
<1>l. PICK l \in 0..(Refs - 1) : l = n - Direct
  BY <1>1, <1>2
<1>4. NewInner(p) = IF n = Direct THEN 1 ELSE 0
  BY <1>1, <1>2, <1>3 DEF NewInner
<1>5. PICK mem, s, b1 : mem = ExtendedMem(h, p) /\ s = Single(h, p) /\ b1 = Nth(1)
  OBVIOUS
<1>6. h.inode \in Inodes /\ \A b \in DOMAIN h.mem : b \in Blocks /\ h.mem[b] \in Rows
  BY DEF Growing, Readable
<1>7. b1 \in free /\ b1 \in Blocks /\ (n = Direct => s \in free /\ s # b1 /\ s = Nth(2))
  BY <1>1, <1>3, <1>4, <1>5 DEF Growing, Single
<1>8. n # Direct => s = h.inode.indirect /\ s \in Inner(h.inode, h.mem)
  BY <1>1, <1>2, <1>3, <1>4, <1>5 DEF Single, Inner
<1>9. \A b \in Inner(h.inode, h.mem) : b \in DOMAIN h.mem /\ b \in Blocks /\ b \notin free
  BY UsedIsTree DEF Growing, Readable
<1>a. Taken(p) = {b1} \cup (IF n = Direct THEN {s} ELSE {})
  BY <1>4, <1>5, <1>7, TakenIs
<1>b. s \in Blocks /\ (n # Direct => s \notin Taken(p))
  BY <1>7, <1>8, <1>9, <1>a DEF Growing
<1>c. i.indirect = s /\ i.double = h.inode.double /\ i.direct = h.inode.direct /\ i \in Inodes
  <2>1. PICK z \in 0..(BlockSize * MaxBlocks), d \in [0..(Direct - 1) -> Blocks],
             e \in Blocks, f \in Blocks :
          h.inode = [size |-> z, direct |-> d, indirect |-> e, double |-> f]
    BY <1>6, Fields
  <2>2. i = [size |-> bytes, direct |-> d, indirect |-> s, double |-> f]
    <3>1. PICK j : j = h.inode
      OBVIOUS
    <3>2. i = [[j EXCEPT !.indirect = s] EXCEPT !.size = bytes]
      BY <1>1, <1>3, <1>5, <3>1 DEF ExtendedInode
    <3>3. j = [size |-> z, direct |-> d, indirect |-> e, double |-> f]
      BY <2>1, <3>1
    <3> QED BY <3>2, <3>3
  <2>3. i \in Inodes
    BY <1>b, <2>2, MadeInode
  <2>4. h.inode.direct = d /\ h.inode.double = f
    BY <2>1
  <2>5. i.direct = d /\ i.indirect = s /\ i.double = f
    BY <2>2
  <2> QED BY <2>3, <2>4, <2>5
<1>d. /\ DOMAIN mem = DOMAIN h.mem \cup Taken(p)
      /\ \A b \in DOMAIN mem : mem[b] \in Rows
      /\ s \in DOMAIN mem /\ mem[s][l] = b1
      /\ n # Direct => \A q \in 0..(Refs - 1) : q # l => mem[s][q] = h.mem[s][q]
  <2>1. p.t = "ind" /\ p.l1 = l
    BY <1>3, <1>l
  <2>2. mem = [b \in DOMAIN h.mem \cup Taken(p) |->
                 IF b = s THEN [OldRow(h, p, b) EXCEPT ![l] = b1] ELSE OldRow(h, p, b)]
    <3>1. ExtendedMem(h, p) =
            [b \in DOMAIN h.mem \cup Taken(p) |->
               IF b = Single(h, p) THEN [OldRow(h, p, b) EXCEPT ![p.l1] = Nth(1)]
               ELSE OldRow(h, p, b)]
      BY <2>1, MemIndirect
    <3> QED BY <1>5, <2>1, <3>1, Zenon
  <2>3. \A b : OldRow(h, p, b) \in [0..(Refs - 1) -> Blocks]
    BY <1>6, OldRows DEF Rows
  <2>4. \A b \in DOMAIN mem : mem[b] \in [0..(Refs - 1) -> Blocks]
    BY <1>7, <2>2, <2>3
  <2>5. s \in DOMAIN h.mem \cup Taken(p)
    BY <1>8, <1>9, <1>a
  <2>6. mem[s] = [OldRow(h, p, s) EXCEPT ![l] = b1]
    BY <2>2, <2>5
  <2>7. n # Direct => OldRow(h, p, s) = h.mem[s]
    BY <1>8, <1>9, <1>b DEF OldRow
  <2>8. mem[s][l] = b1 /\ \A q \in 0..(Refs - 1) : q # l => mem[s][q] = OldRow(h, p, s)[q]
    BY <2>3, <2>6
  <2> QED BY <2>2, <2>4, <2>5, <2>7, <2>8 DEF Rows
<1>e. Inner(i, mem) = {s}
  BY <1>1, <1>2, <1>c DEF Inner
<1>f. Readable(i, mem)
  <2>1. Taken(p) \subseteq Blocks
    BY <1>7, <1>a, <1>b
  <2> QED BY <1>6, <1>c, <1>d, <1>e, <2>1 DEF Readable
<1>g. ASSUME NEW x \in Places(n) PROVE At(i, mem, x) = At(h.inode, h.mem, x)
  <2>1. ASSUME NEW k \in 0..(n - 1), x = <<"data", k>> PROVE At(i, mem, x) = At(h.inode, h.mem, x)
    <3>1. k \in Nat /\ k < Direct + Refs /\ k < n
      BY <1>1, <1>2
    <3>2. CASE k < Direct
      <4>1. At(i, mem, <<"data", k>>) = i.direct[k]
        BY <3>1, <3>2, DataPlace
      <4>2. At(h.inode, h.mem, <<"data", k>>) = h.inode.direct[k]
        BY <3>1, <3>2, DataPlace
      <4> QED BY <1>c, <2>1, <4>1, <4>2
    <3>3. CASE k >= Direct
      <4>1. At(i, mem, <<"data", k>>) = mem[i.indirect][k - Direct]
        BY <3>1, <3>3, DataPlace
      <4>2. At(h.inode, h.mem, <<"data", k>>) = h.mem[h.inode.indirect][k - Direct]
        BY <3>1, <3>3, DataPlace
      <4>3. n # Direct /\ k - Direct \in 0..(Refs - 1) /\ k - Direct # l
        BY <1>1, <1>2, <1>l, <3>1, <3>3
      <4> QED BY <1>8, <1>c, <1>d, <2>1, <4>1, <4>2, <4>3
    <3> QED BY <1>2, <3>1, <3>2, <3>3
  <2>2. ASSUME n > Direct, x = <<"indirect", 0>> PROVE At(i, mem, x) = At(h.inode, h.mem, x)
    <3>1. At(i, mem, <<"indirect", 0>>) = i.indirect
      BY AtPlaces
    <3>2. At(h.inode, h.mem, <<"indirect", 0>>) = h.inode.indirect
      BY AtPlaces
    <3>3. n # Direct
      BY <1>2, <2>2
    <3> QED BY <1>8, <1>c, <2>2, <3>1, <3>2, <3>3
  <2> QED BY <1>1, <1>2, <2>1, <2>2, PlacesAre
<1>h. At(i, mem, <<"data", n>>) = b1
  <2>1. At(i, mem, <<"data", n>>) = mem[i.indirect][n - Direct]
    <3>1. PICK r : r = n - Direct
      OBVIOUS
    <3>2. InSingle(n, r)
      BY <1>1, <3>1 DEF InSingle
    <3>3. At(i, mem, <<"data", n>>) = mem[i.indirect][r]
      BY ONLY <3>2, SinglePlace
    <3> QED BY <3>1, <3>3
  <2> QED BY <1>c, <1>d, <1>l, <2>1
<1>i. At(i, mem, <<"indirect", 0>>) = s
  BY <1>c, AtPlaces
<1>j. NewPlaces(n) = {<<"data", n>>} \cup (IF n = Direct THEN {<<"indirect", 0>>} ELSE {})
  BY <1>1, <1>2 DEF NewPlaces
<1>k. {At(i, mem, x) : x \in NewPlaces(n)} = Taken(p)
  BY <1>a, <1>h, <1>i, <1>j
<1>m. \A x \in NewPlaces(n), y \in NewPlaces(n) : At(i, mem, x) = At(i, mem, y) => x = y
  BY <1>7, <1>h, <1>i, <1>j
<1>n. Changed(h, p) = {s}
  BY <1>3, <1>5 DEF Changed
<1>o. Single(h, p) = SingleAt(i, mem, n) /\ ~(n >= Direct + Refs)
  BY <1>1, <1>2, <1>5, <1>c DEF SingleAt
<1> QED BY <1>1, <1>2, <1>3, <1>5, <1>o, <1>e, <1>f, <1>g, <1>k, <1>m, <1>n DEF Grows

LEMMA GrowDouble ==
  ASSUME NEW h, Growing(h), NumBlocks(h.inode) >= Direct + Refs,
         NEW bytes \in 0..(BlockSize * MaxBlocks),
         NEW i, i = [ExtendedInode(h, GetPos(NumBlocks(h.inode))) EXCEPT !.size = bytes],
         NumBlocks(i) = NumBlocks(h.inode) + 1
  PROVE  Grows(h, i, ExtendedMem(h, GetPos(NumBlocks(h.inode))))
<1>1. PICK n \in 0..MaxBlocks : n = NumBlocks(h.inode) /\ n >= Direct + Refs /\ n < MaxBlocks /\ n \in Nat
  BY BlocksOf, Constants DEF Growing, Readable
<1>2. Refs \in Nat /\ Refs > 0 /\ Direct \in Nat /\ Direct > 0 /\ MaxBlocks \in Nat
  BY Constants
<1>3. PICK m \in Nat, d \in Nat, r \in 0..(Refs - 1) :
        m = n - Direct - Refs /\ d = m \div Refs /\ r = m % Refs /\ m = Refs * d + r
  BY <1>1, DoublePosition
<1>4. PICK p : p = GetPos(n) /\ p = [t |-> "dind", l1 |-> d, l2 |-> r]
  BY <1>1, <1>3, DoublePosition
<1>p. p.t = "dind" /\ p.l1 = d /\ p.l2 = r
  BY <1>4
<1>5. NewInner(p) = IF r # 0 THEN 0 ELSE IF d # 0 THEN 1 ELSE 2
  BY <1>p DEF NewInner
<1>6. /\ n = Direct + Refs <=> d = 0 /\ r = 0
      /\ Singles(n + 1) = 0..d
      /\ r # 0 => Singles(n) = 0..d
      /\ r = 0 => Singles(n) = 0..(d - 1)
      /\ d \in 0..(Refs - 1)
  <2>1. Singles(n + 1) = 0..d /\ (r # 0 => Singles(n) = 0..d) /\ (r = 0 => Singles(n) = 0..(d - 1))
    BY <1>1, <1>3, DoublePosition
  <2>2. m = 0 => d = 0 /\ r = 0
    BY <1>2, <1>3, QuotientUnique
  <2>3. d = 0 /\ r = 0 => m = 0
    BY <1>2, <1>3
  <2>4. PICK j \in 0..MaxBlocks : j = n + 1 /\ j > Direct + Refs
    BY <1>1, <1>2
  <2>5. Singles(j) \subseteq 0..(Refs - 1)
    BY <2>4, WithinRows
  <2>6. d \in Singles(j)
    BY <2>1, <2>4
  <2>7. n = Direct + Refs <=> m = 0
    <3>1. m = n - Direct - Refs
      BY <1>3
    <3>2. n \in Nat
      BY <1>1
    <3> QED BY ONLY <1>2, <3>1, <3>2
  <2> QED BY <2>1, <2>2, <2>3, <2>5, <2>6, <2>7
<1>7. PICK mem, s, t, u, b1 : /\ mem = ExtendedMem(h, p) /\ s = Single(h, p) /\ t = Double(h, p)
                              /\ u = h.inode.indirect /\ b1 = Nth(1)
  OBVIOUS
<1>8. h.inode \in Inodes /\ \A b \in DOMAIN h.mem : b \in Blocks /\ h.mem[b] \in Rows
  BY DEF Growing, Readable
<1>9. \A b \in Inner(h.inode, h.mem) : b \in DOMAIN h.mem /\ b \in Blocks /\ b \notin free
  BY UsedIsTree DEF Growing, Readable
<1>a. /\ b1 \in free /\ b1 \in Blocks
      /\ r = 0 => s \in free /\ s \in Blocks /\ s # b1 /\ s = Nth(2)
      /\ r = 0 /\ d = 0 => t \in free /\ t \in Blocks /\ t # b1 /\ t # s /\ t = Nth(3)
      /\ r # 0 => s = h.mem[h.inode.double][d]
      /\ ~(r = 0 /\ d = 0) => t = h.inode.double
  BY <1>1, <1>4, <1>p, <1>5, <1>7 DEF Growing, Single, Double
<1>b. n > Direct
  BY <1>1, <1>2
<1>c. u \in Inner(h.inode, h.mem)
  BY <1>1, <1>7, <1>b DEF Inner
<1>d. n > Direct + Refs <=> ~(r = 0 /\ d = 0)
  BY <1>1, <1>2, <1>6
<1>e. ASSUME n > Direct + Refs
      PROVE  /\ t \in Inner(h.inode, h.mem) /\ t = h.inode.double
             /\ \A q \in Singles(n) : h.mem[t][q] \in Inner(h.inode, h.mem)
  BY <1>1, <1>a, <1>d, <1>e DEF Inner
<1>f. r # 0 => n > Direct + Refs /\ d \in Singles(n) /\ s = h.mem[t][d] /\ s \in Inner(h.inode, h.mem)
  BY <1>6, <1>a, <1>d, <1>e
\* The blocks of the old file are different.
<1>g. /\ n > Direct + Refs => u # t
      /\ n > Direct + Refs => \A q \in Singles(n) : /\ h.mem[t][q] # u /\ h.mem[t][q] # t
                                                    /\ q # d => (r # 0 => h.mem[t][q] # s)
  <2> SUFFICES ASSUME n > Direct + Refs
               PROVE  /\ u # t
                      /\ \A q \in Singles(n) : /\ h.mem[t][q] # u /\ h.mem[t][q] # t
                                               /\ q # d => (r # 0 => h.mem[t][q] # s)
    OBVIOUS
  <2>1. \A x \in Places(n), y \in Places(n) :
          At(h.inode, h.mem, x) = At(h.inode, h.mem, y) => x = y
    BY <1>1 DEF Growing, Formed
  <2>2. At(h.inode, h.mem, <<"indirect", 0>>) = u /\ At(h.inode, h.mem, <<"double", 0>>) = t
    BY <1>7, <1>e, AtPlaces
  <2>3. <<"indirect", 0>> \in Places(n) /\ <<"double", 0>> \in Places(n)
    BY <1>b, PlacesAre
  <2>4. u # t
    BY <2>1, <2>2, <2>3
  <2>5. ASSUME NEW q \in Singles(n)
        PROVE  <<"single", q>> \in Places(n) /\ At(h.inode, h.mem, <<"single", q>>) = h.mem[t][q]
    <3>1. q \in Nat
      BY SinglesOf
    <3>2. At(h.inode, h.mem, <<"single", q>>) = h.mem[h.inode.double][q]
      BY <3>1, AtPlaces
    <3> QED BY <1>e, <3>2, PlacesAre
  <2>6. ASSUME NEW q \in Singles(n)
        PROVE  h.mem[t][q] # u /\ h.mem[t][q] # t /\ (q # d => (r # 0 => h.mem[t][q] # s))
    <3>1. <<"single", q>> # <<"indirect", 0>> /\ <<"single", q>> # <<"double", 0>>
          /\ (q # d => <<"single", q>> # <<"single", d>>)
      OBVIOUS
    <3>2. h.mem[t][q] # u /\ h.mem[t][q] # t
      BY <2>1, <2>2, <2>3, <2>5, <3>1
    <3>3. ASSUME q # d, r # 0 PROVE h.mem[t][q] # s
      <4>1. d \in Singles(n) /\ s = h.mem[t][d]
        BY <1>f, <3>3
      <4> QED BY <2>1, <2>5, <3>1, <3>3, <4>1
    <3> QED BY <3>2, <3>3
  <2> QED BY <2>4, <2>6
<1>h. /\ s \in Blocks /\ t \in Blocks /\ u \in Blocks /\ s # t /\ u # s /\ u # t
      /\ u \notin Taken(p) /\ (r # 0 => s \notin Taken(p)) /\ (n > Direct + Refs => t \notin Taken(p))
      /\ Taken(p) = {b1} \cup (IF r = 0 THEN {s} ELSE {}) \cup (IF r = 0 /\ d = 0 THEN {t} ELSE {})
  <2>1. Taken(p) = {b1} \cup (IF r = 0 THEN {s} ELSE {}) \cup (IF r = 0 /\ d = 0 THEN {t} ELSE {})
    BY <1>5, <1>7, <1>a, TakenIs
  <2>2. Taken(p) \subseteq free
    BY <1>a, <2>1
  <2>3. u \in Blocks /\ u \notin free
    BY <1>9, <1>c
  <2>4. r # 0 => s \in Blocks /\ s \notin free /\ s # u /\ s # t
    BY <1>9, <1>f, <1>g
  <2>5. n > Direct + Refs => t \in Blocks /\ t \notin free /\ t # u
    BY <1>9, <1>e, <1>g
  <2> QED BY <1>a, <1>d, <2>1, <2>2, <2>3, <2>4, <2>5
<1>i. i.indirect = u /\ i.double = t /\ i.direct = h.inode.direct /\ i \in Inodes
  <2>1. PICK z \in 0..(BlockSize * MaxBlocks), v \in [0..(Direct - 1) -> Blocks],
             e \in Blocks, f \in Blocks :
          h.inode = [size |-> z, direct |-> v, indirect |-> e, double |-> f]
    BY <1>8, Fields
  <2>2. i = [size |-> bytes, direct |-> v, indirect |-> e, double |-> t]
    <3>1. PICK j : j = h.inode
      OBVIOUS
    <3>2. i = [[j EXCEPT !.double = t] EXCEPT !.size = bytes]
      BY <1>1, <1>4, <1>p, <1>7, <3>1 DEF ExtendedInode
    <3>3. j = [size |-> z, direct |-> v, indirect |-> e, double |-> f]
      BY <2>1, <3>1
    <3> QED BY <3>2, <3>3
  <2>3. i \in Inodes
    BY <1>h, <2>2, MadeInode
  <2>4. h.inode.direct = v /\ h.inode.indirect = e
    BY <2>1
  <2>5. i.direct = v /\ i.indirect = e /\ i.double = t
    BY <2>2
  <2> QED BY <1>7, <2>3, <2>4, <2>5
<1>j. PICK D, old : D = DOMAIN h.mem \cup Taken(p) /\ old = [b \in D |-> OldRow(h, p, b)]
  OBVIOUS
<1>k. /\ DOMAIN mem = D
      /\ \A b \in D : old[b] \in [0..(Refs - 1) -> Blocks]
      /\ \A b \in DOMAIN h.mem : b \in D /\ (b \notin Taken(p) => old[b] = h.mem[b])
      /\ s \in D /\ t \in D
      /\ mem[s] = [old[s] EXCEPT ![r] = b1]
      /\ r = 0 => mem[t] = [old[t] EXCEPT ![d] = s]
      /\ r # 0 => mem[t] = old[t]
      /\ \A b \in D : b # s /\ b # t => mem[b] = old[b]
  <2>1. ExtendedMem(h, p) =
          [b \in DOMAIN h.mem \cup Taken(p) |->
             IF b = Single(h, p) THEN [OldRow(h, p, b) EXCEPT ![p.l2] = Nth(1)]
             ELSE IF p.l2 = 0 /\ b = Double(h, p) THEN [OldRow(h, p, b) EXCEPT ![p.l1] = Single(h, p)]
             ELSE OldRow(h, p, b)]
    <3>1. Single(h, p) # Double(h, p)
      BY <1>7, <1>h
    <3>2. p.t = "dind"
      BY <1>p
    <3> QED BY ONLY <3>1, <3>2 DEF ExtendedMem, OldRow
  <2>2. mem = [b \in D |->
                 IF b = s THEN [OldRow(h, p, b) EXCEPT ![r] = b1]
                 ELSE IF r = 0 /\ b = t THEN [OldRow(h, p, b) EXCEPT ![d] = s]
                 ELSE OldRow(h, p, b)]
    BY <1>p, <1>7, <1>j, <2>1, Zenon
  <2>3. \A b : OldRow(h, p, b) \in [0..(Refs - 1) -> Blocks]
    BY <1>8, OldRows DEF Rows
  <2>4. \A b \in DOMAIN h.mem : b \in D /\ (b \notin Taken(p) => old[b] = h.mem[b])
    BY <1>j DEF OldRow
  <2>5. s \in D /\ t \in D
    BY <1>9, <1>d, <1>e, <1>f, <1>h, <1>j
  <2>6. \A b \in D : old[b] = OldRow(h, p, b)
    BY <1>j
  <2> QED BY <1>h, <2>2, <2>3, <2>4, <2>5, <2>6
<1>l. /\ \A b \in D : mem[b] \in [0..(Refs - 1) -> Blocks]
      /\ mem[t][d] = s /\ mem[s][r] = b1
      /\ mem[u] = h.mem[u]
      /\ r # 0 => mem[t] = h.mem[t]
      /\ n > Direct + Refs => \A q \in 0..(Refs - 1) : q # d => mem[t][q] = h.mem[t][q]
      /\ r # 0 => \A q \in 0..(Refs - 1) : q # r => mem[s][q] = h.mem[s][q]
  <2>1. \A b \in D : mem[b] \in [0..(Refs - 1) -> Blocks]
    <3>1. mem[s] \in [0..(Refs - 1) -> Blocks]
      BY <1>a, <1>k
    <3>2. mem[t] \in [0..(Refs - 1) -> Blocks]
      <4>1. CASE r = 0
        <5>1. s \in Blocks
          BY <1>h
        <5>2. old[t] \in [0..(Refs - 1) -> Blocks] /\ mem[t] = [old[t] EXCEPT ![d] = s]
          BY <1>k, <4>1
        <5> QED BY <5>1, <5>2
      <4>2. CASE r # 0
        BY <1>k, <4>2
      <4> QED BY <4>1, <4>2
    <3> QED BY <1>k, <3>1, <3>2
  <2>2. mem[s][r] = b1
    BY <1>k
  <2>3. mem[u] = h.mem[u]
    BY <1>9, <1>c, <1>h, <1>k
  <2>4. n > Direct + Refs => old[t] = h.mem[t]
    BY <1>9, <1>e, <1>h, <1>k
  <2>5. r # 0 => old[s] = h.mem[s]
    BY <1>9, <1>f, <1>h, <1>k
  <2>6. r # 0 => mem[t] = h.mem[t]
    BY <1>f, <1>k, <2>4
  <2>7. mem[t][d] = s
    <3>1. CASE r = 0
      BY <1>6, <1>k, <3>1
    <3>2. CASE r # 0
      BY <1>f, <2>6, <3>2
    <3> QED BY <3>1, <3>2
  <2>8. ASSUME n > Direct + Refs, NEW q \in 0..(Refs - 1), q # d PROVE mem[t][q] = h.mem[t][q]
    <3>1. CASE r = 0
      <4>1. mem[t] = [old[t] EXCEPT ![d] = s] /\ old[t] \in [0..(Refs - 1) -> Blocks]
        BY <1>k, <3>1
      <4>2. mem[t][q] = old[t][q]
        BY <2>8, <4>1
      <4> QED BY <2>4, <2>8, <4>2
    <3>2. CASE r # 0
      BY <2>6, <3>2
    <3> QED BY <3>1, <3>2
  <2>9. ASSUME r # 0, NEW q \in 0..(Refs - 1), q # r PROVE mem[s][q] = h.mem[s][q]
    <3>1. mem[s][q] = old[s][q]
      BY <1>k, <2>9
    <3> QED BY <2>5, <2>9, <3>1
  <2> QED BY <2>1, <2>2, <2>3, <2>6, <2>7, <2>8, <2>9
\* The indirect blocks that the extension leaves alone.
<1>m. ASSUME n > Direct + Refs, NEW q \in Singles(n), q # d
      PROVE  mem[t][q] = h.mem[t][q] /\ mem[mem[t][q]] = h.mem[h.mem[t][q]]
  <2>1. Singles(n) \subseteq 0..(Refs - 1)
    BY <1>m, WithinRows
  <2>2. mem[t][q] = h.mem[t][q]
    BY <1>l, <1>m, <2>1
  <2>3. PICK b : b = h.mem[t][q]
    OBVIOUS
  <2>4. b \in Inner(h.inode, h.mem) /\ b # t /\ b # u
    BY <1>e, <1>g, <1>m, <2>3
  <2>5. b \in DOMAIN h.mem /\ b \notin free
    BY <1>9, <2>4
  <2>6. b # s
    <3>1. CASE r = 0
      BY <1>a, <2>5, <3>1
    <3>2. CASE r # 0
      BY <1>g, <1>m, <2>3, <3>2
    <3> QED BY <3>1, <3>2
  <2>7. b \notin Taken(p)
    BY <1>a, <1>d, <1>h, <2>5
  <2>8. mem[b] = h.mem[b]
    BY <1>k, <2>4, <2>5, <2>6, <2>7
  <2> QED BY <2>2, <2>3, <2>8
<1>n. Inner(i, mem) = {u, t} \cup {mem[t][q] : q \in 0..d}
  <2>1. n + 1 > Direct /\ n + 1 > Direct + Refs
    BY <1>1, <1>2
  <2> QED BY <1>1, <1>6, <1>i, <2>1 DEF Inner
<1>o. \A q \in 0..d : q = d \/ (n > Direct + Refs /\ q \in Singles(n) /\ q # d)
  BY <1>6, <1>d
<1>q. Changed(h, p) = {s} \cup (IF r = 0 THEN {t} ELSE {})
  BY <1>p, <1>7 DEF Changed
<1>r. ASSUME NEW b \in Inner(i, mem)
      PROVE  b \in Changed(h, p) \/ (b \in Inner(h.inode, h.mem) /\ mem[b] = h.mem[b])
  <2>1. CASE b = u
    BY <1>c, <1>l, <2>1
  <2>2. CASE b = t
    BY <1>e, <1>f, <1>l, <1>q, <2>2
  <2>3. ASSUME NEW q \in 0..d, b = mem[t][q]
        PROVE  b \in Changed(h, p) \/ (b \in Inner(h.inode, h.mem) /\ mem[b] = h.mem[b])
    <3>1. CASE q = d
      BY <1>l, <1>q, <2>3, <3>1
    <3>2. CASE n > Direct + Refs /\ q \in Singles(n) /\ q # d
      <4>1. mem[t][q] = h.mem[t][q] /\ mem[mem[t][q]] = h.mem[h.mem[t][q]]
        BY <1>m, <3>2
      <4>2. h.mem[t][q] \in Inner(h.inode, h.mem)
        BY <1>e, <3>2
      <4> QED BY <2>3, <4>1, <4>2
    <3> QED BY <1>o, <3>1, <3>2
  <2> QED BY <1>n, <2>1, <2>2, <2>3
<1>s. Readable(i, mem)
  <2>1. D \subseteq Blocks
    BY <1>8, <1>a, <1>h, <1>j
  <2>2. Inner(i, mem) \subseteq D
    <3>1. u \in D
      BY <1>9, <1>c, <1>k
    <3>2. ASSUME NEW q \in 0..d PROVE mem[t][q] \in D
      <4>1. CASE q = d
        BY <1>k, <1>l, <4>1
      <4>2. CASE n > Direct + Refs /\ q \in Singles(n) /\ q # d
        <5>1. mem[t][q] = h.mem[t][q]
          BY <1>m, <4>2
        <5>2. h.mem[t][q] \in DOMAIN h.mem
          BY <1>9, <1>e, <4>2
        <5> QED BY <1>k, <5>1, <5>2
      <4> QED BY <1>o, <4>1, <4>2
    <3> QED BY <1>k, <1>n, <3>1, <3>2
  <2> QED BY <1>i, <1>k, <1>l, <2>1, <2>2 DEF Readable, Rows
<1>t. ASSUME NEW x \in Places(n) PROVE At(i, mem, x) = At(h.inode, h.mem, x)
  <2>1. ASSUME NEW k \in 0..(n - 1), x = <<"data", k>> PROVE At(i, mem, x) = At(h.inode, h.mem, x)
    <3>1. k \in Nat /\ k < n
      BY <1>1
    <3>2. CASE k < Direct
      <4>1. At(i, mem, <<"data", k>>) = i.direct[k]
        BY <3>1, <3>2, DataPlace
      <4>2. At(h.inode, h.mem, <<"data", k>>) = h.inode.direct[k]
        BY <3>1, <3>2, DataPlace
      <4> QED BY <1>i, <2>1, <4>1, <4>2
    <3>3. CASE k >= Direct /\ k < Direct + Refs
      <4>1. At(i, mem, <<"data", k>>) = mem[i.indirect][k - Direct]
        BY <3>1, <3>3, DataPlace
      <4>2. At(h.inode, h.mem, <<"data", k>>) = h.mem[h.inode.indirect][k - Direct]
        BY <3>1, <3>3, DataPlace
      <4> QED BY <1>7, <1>i, <1>l, <2>1, <4>1, <4>2
    <3>4. CASE k >= Direct + Refs
      <4>1. PICK e \in Nat, q \in Nat, o \in 0..(Refs - 1) :
              /\ e = k - Direct - Refs /\ q = e \div Refs /\ o = e % Refs
              /\ e = Refs * q + o
        BY <3>1, <3>4, DoublePosition
      <4>2. n > Direct + Refs
        BY <1>1, <1>2, <3>1, <3>4
      <4>3. q \in Singles(n)
        BY <3>1, <3>4, <4>1, <4>2, WithinRows
      <4>k. InDouble(k, q, o)
        BY <3>1, <3>4, <4>1 DEF InDouble
      <4>4. At(i, mem, <<"data", k>>) = mem[mem[t][q]][o]
        <5>1. At(i, mem, <<"data", k>>) = mem[mem[i.double][q]][o]
          BY ONLY <4>k, DoublePlace
        <5> QED BY <1>i, <5>1
      <4>5. At(h.inode, h.mem, <<"data", k>>) = h.mem[h.mem[t][q]][o]
        <5>1. At(h.inode, h.mem, <<"data", k>>) = h.mem[h.mem[h.inode.double][q]][o]
          BY ONLY <4>k, DoublePlace
        <5> QED BY <1>e, <4>2, <5>1
      <4>6. CASE q # d
        BY <1>m, <2>1, <4>2, <4>3, <4>4, <4>5, <4>6
      <4>7. CASE q = d
        <5>1. r # 0
          BY <1>6, <4>3, <4>7
        <5>2. o # r
          BY <1>1, <1>2, <1>3, <3>1, <4>1, <4>7
        <5>3. mem[t][q] = s /\ h.mem[t][q] = s
          BY <1>f, <1>l, <4>7, <5>1
        <5>4. mem[s][o] = h.mem[s][o]
          BY <1>l, <5>1, <5>2
        <5> QED BY <2>1, <4>4, <4>5, <5>3, <5>4
      <4> QED BY <4>6, <4>7
    <3> QED BY <1>2, <3>1, <3>2, <3>3, <3>4
  <2>2. ASSUME x = <<"indirect", 0>> PROVE At(i, mem, x) = At(h.inode, h.mem, x)
    <3>1. At(i, mem, <<"indirect", 0>>) = i.indirect
      BY AtPlaces
    <3>2. At(h.inode, h.mem, <<"indirect", 0>>) = h.inode.indirect
      BY AtPlaces
    <3> QED BY <1>7, <1>i, <2>2, <3>1, <3>2
  <2>3. ASSUME n > Direct + Refs, x = <<"double", 0>> PROVE At(i, mem, x) = At(h.inode, h.mem, x)
    <3>1. At(i, mem, <<"double", 0>>) = i.double
      BY ONLY AtPlaces
    <3>2. At(h.inode, h.mem, <<"double", 0>>) = h.inode.double
      BY ONLY AtPlaces
    <3> QED BY <1>e, <1>i, <2>3, <3>1, <3>2
  <2>4. ASSUME n > Direct + Refs, NEW q \in Singles(n), x = <<"single", q>>
        PROVE  At(i, mem, x) = At(h.inode, h.mem, x)
    <3>1. q \in Nat
      BY <2>4, SinglesOf
    <3>2. At(i, mem, <<"single", q>>) = mem[i.double][q]
      BY <3>1, AtPlaces
    <3>3. At(h.inode, h.mem, <<"single", q>>) = h.mem[h.inode.double][q]
      BY <3>1, AtPlaces
    <3>4. CASE q = d
      <4>1. r # 0
        BY <1>6, <2>4, <3>4
      <4> QED BY <1>e, <1>i, <1>l, <2>4, <3>2, <3>3, <4>1
    <3>5. CASE q # d
      <4>1. mem[t][q] = h.mem[t][q]
        BY <1>m, <2>4, <3>5
      <4> QED BY <1>e, <1>i, <2>4, <3>2, <3>3, <4>1
    <3> QED BY <3>4, <3>5
  <2> QED BY <1>1, <2>1, <2>2, <2>3, <2>4, PlacesAre
<1>u. At(i, mem, <<"data", n>>) = b1
  <2>1. At(i, mem, <<"data", n>>) = mem[mem[i.double][d]][r]
    <3>1. n \in Nat /\ n >= Direct + Refs
      BY <1>1
    <3>2. d = (n - Direct - Refs) \div Refs /\ r = (n - Direct - Refs) % Refs
      BY <1>3
    <3>3. InDouble(n, d, r)
      BY <3>1, <3>2 DEF InDouble
    <3> QED BY ONLY <3>3, DoublePlace
  <2> QED BY <1>i, <1>l, <2>1
<1>v. At(i, mem, <<"double", 0>>) = t /\ At(i, mem, <<"single", d>>) = s
  <2>1. At(i, mem, <<"single", d>>) = mem[i.double][d]
    BY AtPlaces
  <2>2. At(i, mem, <<"double", 0>>) = i.double
    BY ONLY AtPlaces
  <2> QED BY <1>i, <1>l, <2>1, <2>2
<1>w. NewPlaces(n) = {<<"data", n>>} \cup (IF r = 0 THEN {<<"single", d>>} ELSE {})
                       \cup (IF r = 0 /\ d = 0 THEN {<<"double", 0>>} ELSE {})
  <2>1. n # Direct /\ n >= Direct + Refs
    BY <1>1, <1>2
  <2>2. (n - Direct - Refs) % Refs = r /\ (n - Direct - Refs) \div Refs = d
    BY <1>3
  <2> QED BY <1>6, <2>1, <2>2 DEF NewPlaces
<1>x. {At(i, mem, x) : x \in NewPlaces(n)} = Taken(p)
  BY <1>h, <1>u, <1>v, <1>w
<1>y. \A x \in NewPlaces(n), y \in NewPlaces(n) : At(i, mem, x) = At(i, mem, y) => x = y
  BY <1>a, <1>h, <1>u, <1>v, <1>w
<1>z. Single(h, p) = SingleAt(i, mem, n) /\ Double(h, p) = i.double
  <2>1. ~(n < Direct + Refs) /\ (n - Direct - Refs) \div Refs = d
    BY <1>1, <1>2, <1>3
  <2>2. SingleAt(i, mem, n) = mem[i.double][d]
    BY <2>1 DEF SingleAt
  <2> QED BY <1>7, <1>i, <1>l, <2>2
<1> QED BY <1>1, <1>2, <1>4, <1>7, <1>z, <1>r, <1>s, <1>t, <1>x, <1>y DEF Grows

-----------------------------------------------------------------------------
(* The inductive invariant.                                                *)

Typed ==
  /\ free \subseteq Blocks /\ map \subseteq Blocks
  /\ disk \in [Blocks -> Rows]
  /\ inode \in Inodes /\ loc \in Blocks
  /\ handle.inode \in Inodes
  /\ \A b \in DOMAIN handle.mem : b \in Blocks /\ handle.mem[b] \in Rows
  /\ pc \in {"none", "closed", "open", "writing", "seekFault", "writeFault", "deleteFault"}
  /\ pos \in 0..(BlockSize * MaxBlocks)
  /\ left \in 0..MaxWrite
  /\ buffer \subseteq Blocks

\* Every block is free, in S, or of the file, in T, or block 0, the block of
\* the inode, or the one that another file may have; and nothing else of these.
Accounted(S, T) ==
  /\ S \cap (T \cup {0, loc}) = {}
  /\ T \cap {0, loc} = {}
  /\ \E f \in Blocks : Blocks \subseteq S \cup T \cup {0, loc, f}

\* Without an indirect block there is no reference to one.
Bare(i) == NumBlocks(i) <= Direct => i.indirect = 0

OnDisk == Formed(inode, disk) /\ Bare(inode) /\ Accounted(map, Used(inode, disk))

InHandle ==
  /\ Readable(handle.inode, handle.mem)
  /\ Formed(handle.inode, handle.mem)
  /\ Bare(handle.inode)
  /\ Accounted(free, Used(handle.inode, handle.mem))

Clean ==
  /\ free = map /\ inode = handle.inode
  /\ \A b \in Inner(handle.inode, handle.mem) : handle.mem[b] = disk[b]

\* The data blocks from block first to the pointer.
WrittenTo(i, refs, first, byte) ==
  {DataBlock(i, refs, k) : k \in first..(CeilDiv(byte, BlockSize) - 1)}

\* The indirect blocks above the blocks from block grown to block n - 1.
SinglesFrom(i, refs, grown, n) ==
  {SingleAt(i, refs, k) : k \in {k \in grown..(n - 1) : k >= Direct}}

Above(i, refs, grown) ==
  SinglesFrom(i, refs, grown, NumBlocks(i))
    \cup (IF NumBlocks(i) > Direct + Refs THEN {i.double} ELSE {})

\* A write from byte begin to the pointer has extended the file from block
\* grown on: the buffer has what that changed and no more.
Since(begin, grown) ==
  /\ pos - begin + left <= MaxWrite
  /\ grown < NumBlocks(handle.inode) => begin <= grown * BlockSize /\ pos = handle.inode.size
  /\ buffer \subseteq WrittenTo(handle.inode, handle.mem, begin \div BlockSize, pos)
                        \cup Above(handle.inode, handle.mem, grown)

Dirty ==
  /\ \A b \in Inner(handle.inode, handle.mem) : b \in buffer \/ handle.mem[b] = disk[b]
  /\ CeilDiv(pos + left, BlockSize) <= MaxBlocks
  /\ \E begin \in 0..pos, grown \in 0..NumBlocks(handle.inode) : Since(begin, grown)

TreeInv ==
  /\ Typed
  /\ pc = "none" => map = free /\ \E f \in Blocks : Blocks \subseteq free \cup {0, f}
  /\ pc # "none" => OnDisk
  /\ pc = "closed" => free = map
  /\ pc \in {"none", "closed"} => pos = 0
  /\ pc = "open" => InHandle /\ Clean
  /\ pc = "writing" => InHandle /\ Dirty

LEMMA EmptyFile ==
  /\ EmptyInode \in Inodes /\ NumBlocks(EmptyInode) = 0
  /\ Bare(EmptyInode) /\ \A refs : Formed(EmptyInode, refs) /\ Used(EmptyInode, refs) = {}
  /\ NoHandle.inode \in Inodes /\ DOMAIN NoHandle.mem = {}
<1>1. BlockSize \in Nat /\ BlockSize > 0 /\ MaxBlocks \in Nat /\ Direct \in Nat /\ Refs \in Nat
      /\ LastBlock \in Nat
  BY Constants
<1>2. 0 \in 0..(BlockSize * MaxBlocks) /\ 0 \in Blocks
  BY <1>1 DEF Blocks
<1>3. EmptyInode \in Inodes
  BY <1>2, MadeInode DEF EmptyInode
<1>4. NumBlocks(EmptyInode) = 0
  <2>1. CeilDiv(BlockSize * 0, BlockSize) = 0
    BY <1>1, CeilingOfMultiple
  <2>2. EmptyInode.size = BlockSize * 0
    BY <1>1 DEF EmptyInode
  <2> QED BY <2>1, <2>2 DEF NumBlocks
<1>5. Places(0) = {}
  BY <1>1 DEF Places
<1>6. Bare(EmptyInode)
  BY DEF Bare, EmptyInode
<1> QED BY <1>3, <1>4, <1>5, <1>6 DEF Formed, Used, NoHandle

LEMMA TreeInitInv == TreeInit => TreeInv
<1> SUFFICES ASSUME TreeInit PROVE TreeInv
  OBVIOUS
<1>1. /\ map = free /\ disk = [b \in Blocks |-> NoRefs] /\ inode = EmptyInode /\ loc = 0
      /\ handle = NoHandle /\ pc = "none" /\ pos = 0 /\ left = 0 /\ buffer = {}
  BY DEF TreeInit
<1>2. NoRefs \in Rows /\ 0 \in Blocks /\ 0 \in 0..(BlockSize * MaxBlocks) /\ 0 \in 0..MaxWrite
  BY Constants DEF NoRefs, Rows, Blocks
<1>3. PICK taken \in {{}} \cup {{b} : b \in Foreign} : free = Blocks \ ({0} \cup taken)
  BY DEF TreeInit
<1>4. Foreign \subseteq Blocks
  BY FileTreeAssumption DEF Blocks
<1>5. \E f \in Blocks : Blocks \subseteq free \cup {0, f}
  BY <1>2, <1>3, <1>4
<1>6. Typed
  BY <1>1, <1>2, <1>3, EmptyFile DEF Typed
<1> QED BY <1>1, <1>5, <1>6 DEF TreeInv

\* What the disk has can be read.
LEMMA DiskReadable ==
  ASSUME NEW i \in Inodes, NEW refs \in [Blocks -> Rows]
  PROVE  Readable(i, refs)
<1>1. PICK n \in 0..MaxBlocks : n = NumBlocks(i)
  BY BlocksOf
<1>2. i.indirect \in Blocks /\ i.double \in Blocks
  BY DEF Inodes
<1>3. ASSUME n > Direct + Refs, NEW d \in Singles(n) PROVE refs[i.double][d] \in Blocks
  <2>1. d \in 0..(Refs - 1)
    BY <1>3, WithinRows
  <2> QED BY <1>2, <2>1 DEF Rows
<1>4. Inner(i, refs) \subseteq Blocks
  BY <1>1, <1>2, <1>3 DEF Inner
<1> QED BY <1>4 DEF Readable

\* The parts of the invariant that an action leaves alone.
LEMMA SameDisk ==
  ASSUME OnDisk, UNCHANGED <<map, disk, inode, loc>>
  PROVE  OnDisk'
BY DEF OnDisk, Accounted, Bare

LEMMA CreateFileStep == TreeInv /\ CreateFile => TreeInv'
<1> SUFFICES ASSUME TreeInv, CreateFile PROVE TreeInv'
  OBVIOUS
<1>1. Typed /\ map = free /\ pos = 0
  BY DEF TreeInv, CreateFile
<1>2. PICK f \in Blocks : Blocks \subseteq free \cup {0, f}
  BY DEF TreeInv, CreateFile
<1>3. free # {}
  <2>1. LastBlock \in Nat /\ LastBlock >= 2
    BY FileTreeSizes, Constants, NumInnerIs
  <2>2. 1 \in Blocks /\ 2 \in Blocks
    BY <2>1 DEF Blocks
  <2> QED BY <1>2, <2>2
<1>4. loc' \in free /\ \A b \in free : loc' <= b
  BY <1>1, <1>3, LeastIn DEF CreateFile, LowestFree, Typed
<1>5. 0 \notin free \ {loc'}
  <2>1. 0 \in free => loc' <= 0
    BY <1>4
  <2>2. loc' \in Nat
    BY <1>1, <1>4 DEF Typed, Blocks
  <2> QED BY <2>1, <2>2
<1>6. free' = free \ {loc'} /\ map' = free' /\ inode' = EmptyInode /\ pc' = "closed"
      /\ UNCHANGED <<disk, handle, pos, left, buffer>>
  BY DEF CreateFile
<1>7. Typed'
  BY <1>1, <1>4, <1>6, EmptyFile DEF Typed
<1>8. OnDisk'
  <2>1. Formed(inode', disk') /\ Bare(inode') /\ Used(inode', disk') = {}
    BY <1>6, EmptyFile
  <2>2. Accounted(map, Used(inode, disk))'
    BY <1>2, <1>4, <1>5, <1>6, <2>1 DEF Accounted
  <2> QED BY <2>1, <2>2 DEF OnDisk
<1> QED BY <1>1, <1>6, <1>7, <1>8 DEF TreeInv

LEMMA RestartStep == TreeInv /\ Restart => TreeInv'
<1> SUFFICES ASSUME TreeInv, Restart PROVE TreeInv'
  OBVIOUS
<1>1. /\ free' = map /\ handle' = NoHandle /\ pc' = (IF pc = "none" THEN "none" ELSE "closed")
      /\ pos' = 0 /\ left' = 0 /\ buffer' = {} /\ UNCHANGED <<map, disk, inode, loc>>
  BY DEF Restart
<1>2. 0 \in 0..(BlockSize * MaxBlocks) /\ 0 \in 0..MaxWrite
  BY Constants
<1>3. Typed'
  BY <1>1, <1>2, EmptyFile DEF TreeInv, Typed
<1>4. pc # "none" => OnDisk'
  BY <1>1, SameDisk DEF TreeInv
<1> QED BY <1>1, <1>3, <1>4 DEF TreeInv

LEMMA CloseStep == TreeInv /\ Close => TreeInv'
<1> SUFFICES ASSUME TreeInv, Close PROVE TreeInv'
  OBVIOUS
<1>1. /\ pc = "open" /\ handle' = NoHandle /\ pc' = "closed" /\ pos' = 0
      /\ UNCHANGED <<free, map, disk, inode, loc, left, buffer>>
  BY DEF Close
<1>2. 0 \in 0..(BlockSize * MaxBlocks)
  BY Constants
<1>3. Typed'
  BY <1>1, <1>2, EmptyFile DEF TreeInv, Typed
<1>4. OnDisk'
  BY <1>1, SameDisk DEF TreeInv
<1> QED BY <1>1, <1>3, <1>4 DEF TreeInv, Clean

LEMMA SeekStep == TreeInv /\ (Seek \/ SeekCrashes) => TreeInv'
<1> SUFFICES ASSUME TreeInv, Seek \/ SeekCrashes PROVE TreeInv'
  OBVIOUS
<1>1. /\ pc = "open" /\ UNCHANGED <<free, map, disk, inode, loc, handle, left, buffer>>
      /\ Typed /\ OnDisk /\ InHandle /\ Clean
  BY DEF Seek, SeekCrashes, TreeInv
<1>2. OnDisk'
  BY <1>1, SameDisk
<1>3. CASE Seek
  <2>1. pc' = "open" /\ pos' \in 0..(BlockSize * MaxBlocks)
    BY <1>1, <1>3 DEF Seek, Offsets
  <2>2. Typed'
    BY <1>1, <2>1 DEF Typed
  <2>3. InHandle' /\ Clean'
    BY <1>1 DEF InHandle, Clean, Accounted, Bare
  <2> QED BY <1>2, <2>1, <2>2, <2>3 DEF TreeInv
<1>4. CASE SeekCrashes
  <2>1. pc' = "seekFault" /\ pos' = pos
    BY <1>4 DEF SeekCrashes
  <2>2. Typed'
    BY <1>1, <2>1 DEF Typed
  <2> QED BY <1>2, <2>1, <2>2 DEF TreeInv
<1> QED BY <1>3, <1>4

LEMMA OpenStep == TreeInv /\ Open => TreeInv'
<1> SUFFICES ASSUME TreeInv, Open PROVE TreeInv'
  OBVIOUS
<1>1. /\ pc = "closed" /\ pc' = "open" /\ Typed /\ OnDisk /\ free = map /\ pos = 0
      /\ UNCHANGED <<free, map, disk, inode, loc, pos, left, buffer>>
  BY DEF TreeInv, Open
<1>n. PICK n \in 0..MaxBlocks : n = NumBlocks(inode)
  BY <1>1, BlocksOf DEF Typed
<1>m. PICK mem : mem = [b \in ReadIn(inode) |-> disk[b]]
  OBVIOUS
<1>2. n = NumBlocks(inode) /\ mem = [b \in ReadIn(inode) |-> disk[b]]
  BY <1>n, <1>m
<1>3. inode \in Inodes /\ disk \in [Blocks -> Rows] /\ Readable(inode, disk)
  BY <1>1, DiskReadable DEF Typed
<1>4. handle'.inode = inode /\ handle'.mem = mem
  BY <1>2 DEF Open
<1>5. Direct \in Nat /\ Refs \in Nat /\ Refs > 0 /\ MaxBlocks \in Nat
  BY Constants
<1>6. ReadIn(inode) \subseteq Blocks
  <2>1. \A row \in Rows : UpToZero(row) \subseteq Blocks
    BY DEF UpToZero, Rows
  <2>2. \A b \in Blocks : UpToZero(disk[b]) \subseteq Blocks
    BY <1>3, <2>1
  <2>3. inode.direct \in [0..(Direct - 1) -> Blocks] /\ inode.indirect \in Blocks /\ inode.double \in Blocks
    BY <1>3 DEF Inodes
  <2>4. {inode.direct[d] : d \in {d \in 0..(Direct - 1) : d < NumBlocks(inode)}} \subseteq Blocks
    BY <2>3
  <2>5. UNION {{s} \cup UpToZero(disk[s]) : s \in UpToZero(disk[inode.double])} \subseteq Blocks
    BY <2>2, <2>3
  <2> QED BY <2>2, <2>3, <2>4, <2>5 DEF ReadIn
\* llfs_open_indirect and llfs_open_dind read the indirect blocks: no
\* reference before the last one is 0.
<1>7. Inner(inode, disk) \subseteq ReadIn(inode)
  <2>1. n > Direct => inode.indirect \in ReadIn(inode)
    BY <1>2 DEF ReadIn
  <2>2. n > Direct + Refs => inode.double \in ReadIn(inode)
    BY <1>2 DEF ReadIn
  <2>3. ASSUME n > Direct + Refs, NEW d \in Singles(n) PROVE disk[inode.double][d] \in ReadIn(inode)
    <3>1. Singles(n) \subseteq 0..(Refs - 1) /\ \A q \in 0..d : q \in Singles(n)
      <4>1. Singles(n) = 0..(CeilDiv(n - Direct - Refs, Refs) - 1)
            /\ CeilDiv(n - Direct - Refs, Refs) \in Nat
        BY <1>5, <2>3, SinglesOf
      <4>2. Singles(n) \subseteq 0..(Refs - 1)
        BY <2>3, WithinRows
      <4> QED BY <2>3, <4>1, <4>2
    <3>2. \A q \in 0..d : disk[inode.double][q] # 0
      <4>1. \A q \in Singles(n) : disk[inode.double][q] \in Inner(inode, disk)
        BY <1>2, <2>3 DEF Inner
      <4>2. 0 \notin Inner(inode, disk)
        BY <1>1, <1>3, UsedIsTree DEF OnDisk, Accounted
      <4> QED BY <3>1, <4>1, <4>2
    <3>3. DOMAIN disk[inode.double] = 0..(Refs - 1)
      BY <1>3 DEF Rows, Inodes
    <3>4. disk[inode.double][d] \in UpToZero(disk[inode.double])
      BY <2>3, <3>1, <3>2, <3>3 DEF UpToZero
    <3> QED BY <1>2, <2>3, <3>4 DEF ReadIn
  <2> QED BY <1>2, <2>1, <2>2, <2>3 DEF Inner
<1>8. \A b \in Inner(inode, disk) : mem[b] = disk[b]
  BY <1>2, <1>7
<1>9. /\ Inner(inode, mem) = Inner(inode, disk)
      /\ Used(inode, mem) = Used(inode, disk)
      /\ Formed(inode, disk) => Formed(inode, mem)
  BY <1>3, <1>8, Agree
<1>a. \A b \in DOMAIN mem : b \in Blocks /\ mem[b] \in Rows
  BY <1>2, <1>3, <1>6
<1>b. Readable(inode, mem)
  BY <1>2, <1>3, <1>7, <1>9, <1>a DEF Readable
<1>c. Typed'
  BY <1>1, <1>4, <1>a DEF Typed
<1>d. OnDisk'
  BY <1>1, SameDisk
<1>e. Formed(inode, mem) /\ Bare(inode) /\ Accounted(free, Used(inode, mem))
  BY <1>1, <1>9 DEF OnDisk
<1>f. InHandle'
  BY <1>1, <1>4, <1>b, <1>e DEF InHandle, Accounted
<1>g. Clean'
  BY <1>1, <1>4, <1>8, <1>9 DEF Clean
<1> QED BY <1>1, <1>c, <1>d, <1>f, <1>g DEF TreeInv

LEMMA WriteStep == TreeInv /\ Write => TreeInv'
<1> SUFFICES ASSUME TreeInv, Write PROVE TreeInv'
  OBVIOUS
<1>1. /\ pc = "open" /\ pc' = "writing" /\ Typed /\ OnDisk /\ InHandle /\ Clean /\ buffer' = {}
      /\ left' \in 1..MaxWrite /\ CeilDiv(pos + left', BlockSize) <= MaxBlocks
      /\ UNCHANGED <<free, map, disk, inode, loc, handle, pos>>
  BY DEF TreeInv, Write
<1>2. Typed'
  BY <1>1, Constants DEF Typed
<1>3. OnDisk'
  BY <1>1, SameDisk
<1>4. InHandle'
  BY <1>1 DEF InHandle, Accounted
<1>5. PICK n \in Nat : n = NumBlocks(handle.inode)
  BY <1>1, BlocksOf, Constants DEF Typed
<1>6. pos \in 0..pos /\ n \in 0..n /\ pos - pos + left' <= MaxWrite /\ ~(n < n)
  <2>1. pos \in Nat
    BY <1>1, Constants DEF Typed
  <2>2. left' \in Nat /\ left' <= MaxWrite
    BY <1>1, Constants
  <2> QED BY <2>1, <2>2
<1>7. Since(pos, n)'
  BY <1>1, <1>5, <1>6 DEF Since
<1>8. \E begin \in 0..pos', grown \in 0..NumBlocks(handle'.inode) : Since(begin, grown)'
  <2>1. pos' = pos /\ NumBlocks(handle'.inode) = n
    BY <1>1, <1>5
  <2> QED BY <1>6, <1>7, <2>1
<1>9. Dirty'
  BY <1>1, <1>8 DEF Dirty, Clean
<1> QED BY <1>1, <1>2, <1>3, <1>4, <1>9 DEF TreeInv

-----------------------------------------------------------------------------
(* A write changes few indirect blocks, since it is shorter than what an   *)
(* indirect block refers to: its transaction is not too long.              *)

\* The blocks that w blocks' worth of bytes reach.
LEMMA SpanOfBytes ==
  ASSUME NEW q \in Nat, NEW c \in Nat, NEW w \in Nat, NEW last,
         last < BlockSize * (q + w + 1), BlockSize * (c - 1) < last, last \in Nat
  PROVE  c - q <= w + 1
<1>1. BlockSize \in Nat /\ BlockSize > 0
  BY Constants
<1>2. CASE c <= q + w + 1
  BY <1>2
<1>3. CASE c >= q + w + 2
  <2>1. PICK a \in Nat, b \in Nat : a = q + w + 1 /\ b = c - 1 /\ a <= b
    BY <1>3
  <2>2. BlockSize * a <= BlockSize * b
    BY <1>1, <2>1
  <2>3. last < BlockSize * a /\ BlockSize * b < last
    BY <2>1
  <2> QED BY <1>1, <2>1, <2>2, <2>3
<1> QED BY <1>2, <1>3

LEMMA GroupOf ==
  ASSUME NEW i, NEW refs, NEW k \in Nat, k >= Direct
  PROVE  SingleAt(i, refs, k) =
           IF (k - Direct) \div Refs = 0 THEN i.indirect
           ELSE refs[i.double][(k - Direct) \div Refs - 1]
<1>1. Refs \in Nat /\ Refs > 0 /\ Direct \in Nat
  BY Constants
<1>2. CASE k < Direct + Refs
  <2>1. PICK a \in 0..(Refs - 1) : a = k - Direct /\ a = Refs * 0 + a
    BY <1>1, <1>2
  <2>2. a \div Refs = 0
    BY <1>1, <2>1, QuotientUnique
  <2> QED BY <1>2, <2>1, <2>2 DEF SingleAt
<1>3. CASE k >= Direct + Refs
  <2>1. PICK m \in Nat, d \in Nat, r \in 0..(Refs - 1) :
          m = k - Direct - Refs /\ d = m \div Refs /\ m = Refs * d + r
    BY <1>3, DoublePosition
  <2>2. PICK a \in Nat, e \in Nat : a = k - Direct /\ a = m + Refs /\ e = d + 1
    BY <1>1, <1>3, <2>1
  <2>3. a = Refs * e + r
    <3>1. Refs * e = Refs * d + Refs
      BY <1>1, <2>2
    <3> QED BY <1>1, <2>1, <2>2, <3>1
  <2>4. a \div Refs = e
    BY <1>1, <2>3, QuotientUnique
  <2>5. SingleAt(i, refs, k) = refs[i.double][d]
    BY <1>1, <1>3, <2>1 DEF SingleAt
  <2>6. e # 0 /\ e - 1 = d
    BY <2>2
  <2> QED BY <2>2, <2>4, <2>5, <2>6
<1> QED BY <1>1, <1>2, <1>3

\* The blocks of the file from grown on are below two indirect blocks.
LEMMA TwoSingles ==
  ASSUME NEW i, NEW refs, NEW n \in Nat, NEW grown \in Nat, n - grown <= Refs
  PROVE  \E x, y : SinglesFrom(i, refs, grown, n) \subseteq {x, y}
<1>1. Refs \in Nat /\ Refs > 0 /\ Direct \in Nat
  BY Constants
<1>2. PICK f : f = [g \in Nat |-> IF g = 0 THEN i.indirect ELSE refs[i.double][g - 1]]
  OBVIOUS
<1>3. \A k \in Nat : k >= Direct => /\ (k - Direct) \div Refs \in Nat
                                    /\ SingleAt(i, refs, k) = f[(k - Direct) \div Refs]
  <2> SUFFICES ASSUME NEW k \in Nat, k >= Direct
               PROVE  /\ (k - Direct) \div Refs \in Nat
                      /\ SingleAt(i, refs, k) = f[(k - Direct) \div Refs]
    OBVIOUS
  <2>1. PICK a \in Nat : a = k - Direct
    BY <1>1
  <2>2. PICK g \in Nat : g = a \div Refs
    BY <1>1, Divided
  <2>3. SingleAt(i, refs, k) = IF g = 0 THEN i.indirect ELSE refs[i.double][g - 1]
    BY <2>1, <2>2, GroupOf
  <2> QED BY <1>2, <2>1, <2>2, <2>3
<1>4. \E g \in Nat : \A k \in grown..(n - 1) : k >= Direct => (k - Direct) \div Refs \in {g, g + 1}
  <2>1. CASE grown >= Direct
    <3>1. PICK a \in Nat : a = grown - Direct
      BY <1>1, <2>1
    <3>2. PICK g \in Nat, o \in 0..(Refs - 1) : g = a \div Refs /\ a = Refs * g + o
      BY <1>1, Divided
    <3>3. ASSUME NEW k \in grown..(n - 1), k >= Direct PROVE (k - Direct) \div Refs \in {g, g + 1}
      <4>1. PICK b \in Nat : b = k - Direct /\ a <= b /\ b <= a + Refs - 1
        BY <1>1, <3>1, <3>3
      <4>2. CASE b < Refs * g + Refs
        <5>1. PICK r \in 0..(Refs - 1) : b = Refs * g + r
          <6>1. PICK z \in Nat : z = Refs * g
            BY <1>1
          <6>2. b - z \in 0..(Refs - 1) /\ b = z + (b - z)
            BY <1>1, <3>2, <4>1, <4>2, <6>1
          <6> QED BY <6>1, <6>2
        <5>2. b \div Refs = g
          BY <1>1, <5>1, QuotientUnique
        <5> QED BY <4>1, <5>2
      <4>3. CASE b >= Refs * g + Refs
        <5>1. PICK e \in Nat, z \in Nat : e = g + 1 /\ z = Refs * e /\ z = Refs * g + Refs
          BY <1>1
        <5>2. PICK r \in 0..(Refs - 1) : b = Refs * e + r
          <6>1. b - z \in 0..(Refs - 1) /\ b = z + (b - z)
            BY <1>1, <3>2, <4>1, <4>3, <5>1
          <6> QED BY <5>1, <6>1
        <5>3. b \div Refs = e
          BY <1>1, <5>2, QuotientUnique
        <5> QED BY <4>1, <5>1, <5>3
      <4> QED BY <1>1, <3>2, <4>1, <4>2, <4>3
    <3> QED BY <3>3
  <2>2. CASE grown < Direct
    <3>1. ASSUME NEW k \in grown..(n - 1), k >= Direct PROVE (k - Direct) \div Refs \in {0, 0 + 1}
      <4>1. PICK b \in 0..(Refs - 1) : b = k - Direct /\ b = Refs * 0 + b
        BY <1>1, <2>2, <3>1
      <4>2. b \div Refs = 0
        BY <1>1, <4>1, QuotientUnique
      <4> QED BY <4>1, <4>2
    <3> QED BY <3>1
  <2> QED BY <1>1, <2>1, <2>2
<1>5. PICK g \in Nat : \A k \in grown..(n - 1) : k >= Direct => (k - Direct) \div Refs \in {g, g + 1}
  BY <1>4
<1>6. \A k \in grown..(n - 1) : k >= Direct => SingleAt(i, refs, k) \in {f[g], f[g + 1]}
  <2> SUFFICES ASSUME NEW k \in grown..(n - 1), k >= Direct
               PROVE  SingleAt(i, refs, k) \in {f[g], f[g + 1]}
    OBVIOUS
  <2>1. k \in Nat
    OBVIOUS
  <2>2. PICK e : e = (k - Direct) \div Refs
    OBVIOUS
  <2>3. e \in {g, g + 1}
    BY <1>5, <2>2
  <2>4. SingleAt(i, refs, k) = f[e]
    BY <1>3, <2>1, <2>2
  <2> QED BY <2>3, <2>4
<1>7. SinglesFrom(i, refs, grown, n) \subseteq {f[g], f[g + 1]}
  BY <1>6 DEF SinglesFrom
<1> QED BY <1>7

LEMMA BufferFits ==
  ASSUME Typed, InHandle, Dirty
  PROVE  IsFiniteSet(buffer) /\ TxnLen \in Nat /\ TxnLen <= MaxTxn
<1> DEFINE i == handle.inode
           refs == handle.mem
<1>1. PICK begin \in 0..pos, grown \in 0..NumBlocks(i) : Since(begin, grown)
  BY DEF Dirty
<1>2. /\ BlockSize \in Nat /\ BlockSize > 0 /\ MaxWrite \in Nat /\ Refs \in Nat /\ Refs > 0
      /\ MaxTxn \in Nat /\ MaxBlocks \in Nat /\ Direct \in Nat
  BY Constants
<1>3. PICK n \in Nat : n = NumBlocks(i) /\ \A k \in Nat : BlockSize * k < i.size <=> k < n
  <2>1. i \in Inodes
    BY DEF Typed
  <2>2. NumBlocks(i) \in 0..MaxBlocks /\ \A k \in Nat : BlockSize * k < i.size <=> k < NumBlocks(i)
    BY <2>1, BlocksOf
  <2>3. NumBlocks(i) \in Nat
    BY <1>2, <2>2
  <2> HIDE DEF i
  <2> QED BY <2>2, <2>3
<1>4. pos \in Nat /\ left \in Nat /\ begin \in Nat /\ grown \in Nat /\ begin <= pos
  BY <1>1, <1>2, <1>3 DEF Typed
<1>5. PICK w \in Nat : w = CeilDiv(MaxWrite, BlockSize) /\ MaxWrite <= BlockSize * w
                       /\ w <= Refs /\ w + 6 <= MaxTxn
  <2>1. PICK w \in Nat : w = CeilDiv(MaxWrite, BlockSize)
    BY <1>2, Ceiling
  <2>2. BlockSize * w < MaxWrite <=> w < w
    BY <1>2, <2>1, Ceiling
  <2>3. PICK z \in Nat : z = BlockSize * w
    BY <1>2
  <2>4. MaxWrite <= z
    BY <1>2, <2>2, <2>3
  <2> QED BY <2>1, <2>3, <2>4, FileTreeSizes
<1>6. pos <= begin + BlockSize * w
  <2>1. PICK z \in Nat : z = BlockSize * w
    BY <1>2
  <2>2. pos - begin + left <= MaxWrite
    BY <1>1 DEF Since
  <2> QED BY <1>2, <1>4, <1>5, <2>1, <2>2
\* The data blocks.
<1>7. PICK q \in Nat, o \in 0..(BlockSize - 1) : q = begin \div BlockSize /\ begin = BlockSize * q + o
  BY <1>2, <1>4, Divided
<1>8. PICK c \in Nat : c = CeilDiv(pos, BlockSize) /\ \A k \in Nat : BlockSize * k < pos <=> k < c
  BY <1>2, <1>4, Ceiling
<1>9. c - q <= w + 1
  <2>1. CASE c = 0
    BY <2>1
  <2>2. CASE c > 0
    <3>1. BlockSize * (c - 1) < pos
      <4>1. PICK k \in Nat : k = c - 1
        BY <2>2
      <4> QED BY <1>8, <4>1
    <3>2. pos < BlockSize * (q + w + 1)
      <4>1. BlockSize * (q + w + 1) = BlockSize * q + BlockSize * w + BlockSize
        BY <1>2
      <4>2. PICK y \in Nat, z \in Nat : y = BlockSize * q /\ z = BlockSize * w
        BY <1>2
      <4> QED BY <1>2, <1>4, <1>6, <1>7, <4>1, <4>2
    <3> QED BY <1>4, <3>1, <3>2, SpanOfBytes
  <2> QED BY <2>1, <2>2
<1>a. PICK A : A = WrittenTo(i, refs, q, pos)
  OBVIOUS
<1>b. IsFiniteSet(A) /\ Cardinality(A) \in Nat /\ Cardinality(A) <= w + 1
  <2>1. PICK e \in Int : e = c - 1
    OBVIOUS
  <2>2. PICK f : f = [k \in q..e |-> DataBlock(i, refs, k)]
    OBVIOUS
  <2>3. A = Image(f) /\ DOMAIN f = q..e
    BY <1>8, <1>a, <2>1, <2>2 DEF WrittenTo, Image
  <2>4. /\ IsFiniteSet(Image(f)) /\ Cardinality(Image(f)) \in Nat
        /\ Cardinality(Image(f)) <= (IF q > e THEN 0 ELSE e - q + 1)
    BY <2>3, ImageCount
  <2> QED BY <1>9, <2>1, <2>3, <2>4
\* The indirect blocks.
<1>c. PICK B : B = SinglesFrom(i, refs, grown, n)
  OBVIOUS
<1>d. n - grown <= Refs
  <2>1. CASE grown = n
    BY <1>2, <2>1
  <2>2. CASE grown < n
    <3>1. begin <= grown * BlockSize /\ pos = i.size
      BY <1>1, <1>3, <2>2 DEF Since
    <3>2. PICK k \in Nat : k = n - 1 /\ k < n
      BY <1>4, <2>2
    <3>3. BlockSize * k < pos
      BY <1>3, <3>1, <3>2
    <3>4. CASE k < grown + w
      BY <1>2, <1>4, <1>5, <3>2, <3>4
    <3>5. CASE k >= grown + w
      <4>1. PICK a \in Nat : a = grown + w /\ a <= k
        BY <1>4, <3>5
      <4>2. BlockSize * a <= BlockSize * k
        BY <1>2, <4>1
      <4>3. BlockSize * a = grown * BlockSize + BlockSize * w
        BY <1>2, <1>4, <4>1
      <4>4. PICK x \in Nat, y \in Nat, z \in Nat, v \in Nat :
              /\ x = BlockSize * a /\ y = BlockSize * k /\ z = BlockSize * w
              /\ v = grown * BlockSize
        BY <1>2, <1>4
      <4>5. x <= y /\ x = v + z /\ y < pos /\ pos <= begin + z /\ begin <= v
        BY <1>6, <3>1, <3>3, <4>2, <4>3, <4>4
      <4> QED BY ONLY <1>4, <4>4, <4>5
    <3> QED BY <1>4, <3>4, <3>5
  <2>3. grown <= n
    BY <1>1, <1>3
  <2> QED BY <1>4, <2>1, <2>2, <2>3
<1>e. PICK x, y : B \subseteq {x, y}
  <2>1. grown \in Nat
    BY <1>4
  <2>2. \E x, y : SinglesFrom(i, refs, grown, n) \subseteq {x, y}
    BY <1>d, <2>1, TwoSingles
  <2> QED BY <1>c, <2>2
<1>f. PICK C : C = {x} \cup ({y} \cup {i.double})
  OBVIOUS
<1>g. IsFiniteSet(C) /\ Cardinality(C) \in Nat /\ Cardinality(C) <= 3
  <2>1. IsFiniteSet({x}) /\ Cardinality({x}) = 1
    BY SmallSets
  <2>2. IsFiniteSet({y}) /\ Cardinality({y}) = 1
    BY SmallSets
  <2>3. IsFiniteSet({i.double}) /\ Cardinality({i.double}) = 1
    BY SmallSets
  <2>4. PICK V : V = {y} \cup {i.double}
    OBVIOUS
  <2>5. IsFiniteSet(V) /\ Cardinality(V) \in Nat /\ Cardinality(V) <= 2
    BY <2>2, <2>3, <2>4, Together
  <2> QED BY <1>f, <2>1, <2>4, <2>5, Together
<1>h. buffer \subseteq A \cup C
  <2>1. buffer \subseteq WrittenTo(i, refs, q, pos) \cup Above(i, refs, grown)
    BY <1>1, <1>7 DEF Since
  <2>2. Above(i, refs, grown) \subseteq B \cup {i.double}
    BY <1>3, <1>c DEF Above
  <2>3. A \cup Above(i, refs, grown) \subseteq A \cup C
    BY <1>e, <1>f, <2>2
  <2> QED BY <1>a, <2>1, <2>3
<1>i. /\ IsFiniteSet(A \cup C) /\ Cardinality(A \cup C) \in Nat
      /\ Cardinality(A \cup C) <= Cardinality(A) + Cardinality(C)
  BY <1>b, <1>g, Together
<1>j. IsFiniteSet(buffer) /\ Cardinality(buffer) <= Cardinality(A \cup C)
  BY <1>h, <1>i, FS_Subset
<1>k. Cardinality(buffer) \in Nat
  BY <1>j, FS_CardinalityType
<1> QED BY <1>2, <1>5, <1>b, <1>g, <1>i, <1>j, <1>k DEF TxnLen

LEMMA FinishWriteStep == TreeInv /\ FinishWrite => TreeInv'
<1> SUFFICES ASSUME TreeInv, FinishWrite PROVE TreeInv'
  OBVIOUS
<1>1. /\ pc = "writing" /\ pc' = "open" /\ Typed /\ OnDisk /\ InHandle /\ Dirty /\ buffer' = {}
      /\ UNCHANGED <<free, loc, handle, pos, left>>
  BY DEF TreeInv, FinishWrite
<1>2. TxnLen <= MaxTxn
  BY <1>1, BufferFits
<1>3. /\ map' = free /\ inode' = handle.inode
      /\ disk' = [b \in Blocks |-> IF b \in buffer \cap DOMAIN handle.mem THEN handle.mem[b] ELSE disk[b]]
  BY <1>2 DEF FinishWrite
<1>4. Typed'
  BY <1>1, <1>3 DEF Typed
<1>5. PICK i, refs : i = handle.inode /\ refs = handle.mem
  OBVIOUS
<1>6. Readable(i, refs) /\ i \in Inodes
  BY <1>1, <1>5 DEF InHandle, Readable
<1>7. \A b \in Inner(i, refs) : disk'[b] = refs[b]
  <2>1. \A b \in Inner(i, refs) : b \in Blocks /\ b \in DOMAIN refs
    BY <1>6 DEF Readable
  <2> QED BY <1>1, <1>3, <1>5, <2>1 DEF Dirty
<1>8. Used(i, disk') = Used(i, refs) /\ (Formed(i, refs) => Formed(i, disk'))
  BY <1>6, <1>7, Agree
<1>9. OnDisk'
  <2>1. Formed(i, refs) /\ Bare(i) /\ Accounted(free, Used(i, refs))
    BY <1>1, <1>5 DEF InHandle
  <2>2. Formed(i, disk') /\ Accounted(free, Used(i, disk'))
    BY <1>8, <2>1
  <2> QED BY <1>1, <1>3, <1>5, <2>1, <2>2 DEF OnDisk, Accounted
<1>a. InHandle'
  BY <1>1 DEF InHandle, Accounted
<1>b. Clean'
  BY <1>1, <1>3, <1>5, <1>7 DEF Clean
<1> QED BY <1>1, <1>4, <1>9, <1>a, <1>b DEF TreeInv

-----------------------------------------------------------------------------
(* llfs_delete gives back the blocks of the file.                          *)

LEMMA FreedBlocks ==
  ASSUME Typed
  PROVE  FreedInode \subseteq Blocks /\ FreedDirect \subseteq Blocks /\ FreedIndirect \subseteq Blocks
<1>1. /\ inode.direct \in [0..(Direct - 1) -> Blocks] /\ inode.indirect \in Blocks
      /\ disk \in [Blocks -> [0..(Refs - 1) -> Blocks]] /\ loc \in Blocks
  BY DEF Typed, Inodes, Rows
<1>2. \A r \in 0..(Refs - 1) : disk[inode.indirect][r] \in Blocks
  BY <1>1
<1> QED BY <1>1, <1>2 DEF FreedInode, FreedDirect, FreedIndirect, SingleRefs

LEMMA DeleteFrees ==
  ASSUME Typed, OnDisk, NumBlocks(inode) # Direct + Refs
  PROVE  (FreedInode \cup FreedDirect \cup FreedIndirect \cup FreedDouble) \ {0}
           = (Tree(inode, disk) \cup {loc}) \ {0}
<1>1. PICK n \in 0..MaxBlocks : n = NumBlocks(inode) /\ n # Direct + Refs
  BY BlocksOf DEF Typed
<1>2. Refs \in Nat /\ Refs > 0 /\ Direct \in Nat /\ Direct > 0 /\ MaxBlocks \in Nat /\ n \in Nat
  BY Constants
<1>3. PICK F : F = FreedDirect \cup FreedIndirect \cup FreedDouble
  OBVIOUS
\* What is freed is of the file, or the reference 0 to no indirect block.
<1>4. ASSUME NEW b \in F, b # 0 PROVE b \in Tree(inode, disk)
  <2>1. ASSUME NEW k \in Nat, k < n, b = DataBlock(inode, disk, k) PROVE b \in Tree(inode, disk)
    BY <1>1, <1>2, <2>1 DEF Tree, Data
  <2>2. CASE b \in FreedDirect
    <3>1. PICK d \in 0..(Direct - 1) : d < n /\ b = inode.direct[d]
      BY <1>1, <2>2 DEF FreedDirect
    <3>2. d \in Nat /\ d < Direct
      BY <1>2
    <3>3. DataBlock(inode, disk, d) = inode.direct[d]
      BY <3>2, DataAt
    <3> QED BY <2>1, <3>1, <3>2, <3>3
  <2>3. CASE b \in FreedIndirect
    <3>1. n >= Direct
      BY <1>1, <2>3 DEF FreedIndirect
    <3>2. CASE b = inode.indirect
      <4>1. n > Direct
        BY <1>1, <1>2, <1>4, <3>2 DEF OnDisk, Bare
      <4> QED BY <1>1, <3>2, <4>1 DEF Tree, Inner
    <3>3. ASSUME NEW r \in SingleRefs(n), b = disk[inode.indirect][r] PROVE b \in Tree(inode, disk)
      <4>1. PICK k \in Nat : k = Direct + r /\ k >= Direct /\ k < Direct + Refs /\ k < n /\ k - Direct = r
        BY <1>2, <3>3 DEF SingleRefs
      <4>2. DataBlock(inode, disk, k) = disk[inode.indirect][k - Direct]
        BY <4>1, DataAt
      <4> QED BY <2>1, <3>3, <4>1, <4>2
    <3> QED BY <1>1, <2>3, <3>2, <3>3 DEF FreedIndirect
  <2>4. CASE b \in FreedDouble
    <3>1. n > Direct + Refs
      BY <1>1, <1>2, <2>4 DEF FreedDouble
    <3>2. CASE b = inode.double
      BY <1>1, <3>1, <3>2 DEF Tree, Inner
    <3>3. ASSUME NEW d \in Singles(n), b = disk[inode.double][d] PROVE b \in Tree(inode, disk)
      BY <1>1, <3>1, <3>3 DEF Tree, Inner
    <3>4. ASSUME NEW d \in Singles(n), NEW r \in DoubleRefs(n, d), b = disk[disk[inode.double][d]][r]
          PROVE b \in Tree(inode, disk)
      <4>1. d \in Nat
        BY <3>1, SinglesOf
      <4>2. r \in 0..(Refs - 1) /\ Direct + Refs + d * Refs + r < n
        BY DEF DoubleRefs
      <4>3. PICK m \in Nat : m = Refs * d + r
        BY <1>2, <4>1, <4>2
      <4>4. m \div Refs = d /\ m % Refs = r
        BY <1>2, <4>1, <4>2, <4>3, QuotientUnique
      <4>5. PICK k \in Nat : k = Direct + Refs + m /\ k < n /\ k >= Direct + Refs /\ k - Direct - Refs = m
        <5>1. d * Refs = Refs * d
          BY <1>2, <4>1
        <5>2. PICK z \in Nat : z = Refs * d
          BY <1>2, <4>1
        <5> QED BY <1>2, <4>2, <4>3, <5>1, <5>2
      <4>6. DataBlock(inode, disk, k) =
              disk[disk[inode.double][(k - Direct - Refs) \div Refs]][(k - Direct - Refs) % Refs]
        BY <4>5, DataAt
      <4>7. DataBlock(inode, disk, k) = b
        BY <3>4, <4>4, <4>5, <4>6
      <4> QED BY <2>1, <4>5, <4>7
    <3> QED BY <1>1, <2>4, <3>2, <3>3, <3>4 DEF FreedDouble
  <2> QED BY <1>3, <2>2, <2>3, <2>4
<1>5. ASSUME NEW k \in Nat, k < n PROVE DataBlock(inode, disk, k) \in F
  <2>1. CASE k < Direct
    <3>1. DataBlock(inode, disk, k) = inode.direct[k]
      BY <2>1, DataAt
    <3>2. inode.direct[k] \in FreedDirect
      BY <1>1, <1>2, <1>5, <2>1 DEF FreedDirect
    <3> QED BY <1>3, <3>1, <3>2
  <2>2. CASE k >= Direct /\ k < Direct + Refs
    <3>1. DataBlock(inode, disk, k) = disk[inode.indirect][k - Direct]
      BY <2>2, DataAt
    <3>2. PICK r \in 0..(Refs - 1) : r = k - Direct
      BY <1>2, <2>2
    <3>3. r \in SingleRefs(n) /\ n >= Direct
      BY <1>2, <1>5, <2>2, <3>2 DEF SingleRefs
    <3>4. disk[inode.indirect][r] \in FreedIndirect
      BY <1>1, <3>3 DEF FreedIndirect
    <3> QED BY <1>3, <3>1, <3>2, <3>4
  <2>3. CASE k >= Direct + Refs
    <3>1. PICK m \in Nat, d \in Nat, r \in 0..(Refs - 1) :
            /\ m = k - Direct - Refs /\ d = m \div Refs /\ r = m % Refs /\ m = Refs * d + r
      BY <2>3, DoublePosition
    <3>2. n > Direct + Refs
      BY <1>2, <1>5, <2>3
    <3>3. d \in Singles(n)
      BY <1>5, <2>3, <3>1, <3>2, WithinRows
    <3>4. r \in DoubleRefs(n, d)
      <4>1. d * Refs = Refs * d
        BY <1>2, <3>1
      <4>2. PICK z \in Nat : z = Refs * d
        BY <1>2, <3>1
      <4>3. Direct + Refs + d * Refs + r < n
        BY <1>2, <1>5, <3>1, <4>1, <4>2
      <4> QED BY <4>3 DEF DoubleRefs
    <3>5. disk[disk[inode.double][d]][r] \in FreedDouble
      BY <1>1, <1>2, <3>2, <3>3, <3>4 DEF FreedDouble
    <3>6. DataBlock(inode, disk, k) =
            disk[disk[inode.double][(k - Direct - Refs) \div Refs]][(k - Direct - Refs) % Refs]
      BY <2>3, DataAt
    <3>7. DataBlock(inode, disk, k) = disk[disk[inode.double][d]][r]
      BY <3>1, <3>6
    <3> QED BY <1>3, <3>5, <3>7
  <2> QED BY <1>2, <2>1, <2>2, <2>3
<1>6. Data(inode, disk) \subseteq F
  BY <1>1, <1>2, <1>5 DEF Data
<1>7. Inner(inode, disk) \subseteq F
  <2>1. n > Direct => inode.indirect \in FreedIndirect
    BY <1>1, <1>2 DEF FreedIndirect
  <2>2. n > Direct + Refs => /\ inode.double \in FreedDouble
                             /\ \A d \in Singles(n) : disk[inode.double][d] \in FreedDouble
    BY <1>1, <1>2 DEF FreedDouble
  <2> QED BY <1>1, <1>3, <2>1, <2>2 DEF Inner
<1>8. FreedInode \ {0} = {loc} \ {0}
  BY DEF FreedInode
<1>9. F \ {0} = Tree(inode, disk) \ {0}
  BY <1>4, <1>6, <1>7 DEF Tree
<1> QED BY <1>3, <1>8, <1>9

LEMMA DeleteStep == TreeInv /\ Delete => TreeInv'
<1> SUFFICES ASSUME TreeInv, Delete PROVE TreeInv'
  OBVIOUS
<1>1. /\ pc = "closed" /\ pc' = "none" /\ Typed /\ OnDisk /\ free = map /\ pos = 0
      /\ NumBlocks(inode) # Direct + Refs
      /\ free' = free \cup FreedInode \cup FreedDirect \cup FreedIndirect \cup FreedDouble
      /\ map' = free' /\ inode' = EmptyInode /\ loc' = 0
      /\ UNCHANGED <<disk, handle, pos, left, buffer>>
  BY DEF TreeInv, Delete
<1>2. (FreedInode \cup FreedDirect \cup FreedIndirect \cup FreedDouble) \ {0}
        = (Tree(inode, disk) \cup {loc}) \ {0}
  BY <1>1, DeleteFrees
<1>3. inode \in Inodes /\ 0 \in Blocks /\ loc \in Blocks /\ free \subseteq Blocks
  BY <1>1, Constants DEF Typed, Blocks
<1>4. Used(inode, disk) = Tree(inode, disk) /\ Used(inode, disk) \subseteq Blocks
  <2>1. Readable(inode, disk)
    BY <1>1, DiskReadable DEF Typed
  <2> QED BY <1>3, <2>1, UsedIsTree, BlocksAreBlocks
<1>5. free' \subseteq Blocks
  BY <1>1, <1>2, <1>3, <1>4
<1>6. Typed'
  BY <1>1, <1>3, <1>5, EmptyFile DEF Typed
<1>7. PICK f \in Blocks : Blocks \subseteq free \cup Used(inode, disk) \cup {0, loc, f}
  BY <1>1 DEF OnDisk, Accounted
<1>8. Blocks \subseteq free' \cup {0, f}
  BY <1>1, <1>2, <1>4, <1>7
<1> QED BY <1>1, <1>6, <1>8 DEF TreeInv

LEMMA DeleteCrashesStep == TreeInv /\ DeleteCrashes => TreeInv'
<1> SUFFICES ASSUME TreeInv, DeleteCrashes PROVE TreeInv'
  OBVIOUS
<1>1. /\ pc = "closed" /\ pc' = "deleteFault" /\ Typed /\ OnDisk
      /\ free' = free \cup FreedInode \cup FreedDirect \cup FreedIndirect
      /\ UNCHANGED <<map, disk, inode, loc, handle, pos, left, buffer>>
  BY DEF TreeInv, DeleteCrashes
<1>2. Typed'
  BY <1>1, FreedBlocks DEF Typed
<1>3. OnDisk'
  BY <1>1, SameDisk
<1> QED BY <1>1, <1>2, <1>3 DEF TreeInv

-----------------------------------------------------------------------------
(* llfs_write_bytes.                                                       *)

LEMMA CanGrow ==
  ASSUME Typed, InHandle, NumBlocks(handle.inode) < MaxBlocks
  PROVE  Growing(handle)
<1>1. handle.inode \in Inodes /\ free \subseteq Blocks
  BY DEF Typed
<1>n. PICK n \in Nat : n = NumBlocks(handle.inode)
  BY <1>1, BlocksOf, Constants
<1>t. PICK T : T = Used(handle.inode, handle.mem)
  OBVIOUS
<1>2. n = NumBlocks(handle.inode) /\ T = Used(handle.inode, handle.mem)
  BY <1>n, <1>t
<1>3. IsFiniteSet(T) /\ Cardinality(T) <= NumPlaces(n)
  BY <1>1, <1>2, UsedCount
<1>4. T \cap free = {} /\ \E f \in Blocks : Blocks \subseteq free \cup T \cup {0, loc, f}
  BY <1>2 DEF InHandle, Accounted
<1>5. PICK f \in Blocks : Blocks \subseteq free \cup T \cup {0, loc, f}
  BY <1>4
<1>6. n < MaxBlocks
  BY <1>2
<1>7. /\ IsFiniteSet(free) /\ Cardinality(free) \in Nat
      /\ 1 + NewInner(GetPos(n)) <= Cardinality(free)
  BY <1>1, <1>3, <1>5, <1>6, RoomLeft
<1>8. /\ Cardinality(free) >= 1 => Nth(1) \in free
      /\ Cardinality(free) >= 2 => Nth(2) \in free /\ Nth(2) # Nth(1)
      /\ Cardinality(free) >= 3 => Nth(3) \in free /\ Nth(3) # Nth(1) /\ Nth(3) # Nth(2)
  BY <1>1, <1>7, NthBlocks
<1>9. PICK w \in Nat, c \in Nat : w = NewInner(GetPos(n)) /\ c = Cardinality(free) /\ 1 + w <= c
  BY <1>7, NextNumPlaces
<1>a. Nth(1) \in free
  BY <1>8, <1>9
<1>b. w >= 1 => Nth(2) \in free /\ Nth(2) # Nth(1)
  BY <1>8, <1>9
<1>c. w = 2 => Nth(3) \in free /\ Nth(3) # Nth(1) /\ Nth(3) # Nth(2)
  BY <1>8, <1>9
<1>d. Readable(handle.inode, handle.mem) /\ Formed(handle.inode, handle.mem)
  BY DEF InHandle
<1> QED BY <1>1, <1>2, <1>4, <1>6, <1>9, <1>a, <1>b, <1>c, <1>d DEF Growing

LEMMA GrowsBy ==
  ASSUME NEW h, Growing(h),
         NEW bytes \in 0..(BlockSize * MaxBlocks),
         NEW i, i = [ExtendedInode(h, GetPos(NumBlocks(h.inode))) EXCEPT !.size = bytes],
         NumBlocks(i) = NumBlocks(h.inode) + 1
  PROVE  Grows(h, i, ExtendedMem(h, GetPos(NumBlocks(h.inode))))
<1>1. NumBlocks(h.inode) \in Nat /\ Direct \in Nat /\ Refs \in Nat
  BY BlocksOf, Constants DEF Growing, Readable
<1>2. \/ NumBlocks(h.inode) < Direct
      \/ NumBlocks(h.inode) >= Direct /\ NumBlocks(h.inode) < Direct + Refs
      \/ NumBlocks(h.inode) >= Direct + Refs
  BY <1>1
<1> QED BY <1>2, GrowDirect, GrowIndirect, GrowDouble

\* The size is not looked at to find a block.
LEMMA ExtendedFields ==
  ASSUME NEW h, h.inode \in Inodes, NEW k \in Nat, NEW bytes, NEW i, NEW j,
         i = ExtendedInode(h, GetPos(k)), j = [i EXCEPT !.size = bytes]
  PROVE  /\ i.size = h.inode.size /\ j.size = bytes
         /\ j.direct = i.direct /\ j.indirect = i.indirect /\ j.double = i.double
<1>1. PICK z, d, e, f : h.inode = [size |-> z, direct |-> d, indirect |-> e, double |-> f]
  BY Fields
<1>2. PICK g : g = h.inode
  OBVIOUS
<1>3. g = [size |-> z, direct |-> d, indirect |-> e, double |-> f]
  BY <1>1, <1>2
<1>4. GetPos(k).t \in {"direct", "ind", "dind"}
  BY DEF GetPos
<1>5. \E d2, e2, f2 : i = [size |-> z, direct |-> d2, indirect |-> e2, double |-> f2]
  <2>1. CASE GetPos(k).t = "direct"
    <3>1. PICK x, y : x = GetPos(k).l1 /\ y = Nth(1)
      OBVIOUS
    <3>2. i = [g EXCEPT !.direct[x] = y]
      BY <1>2, <2>1, <3>1 DEF ExtendedInode
    <3>3. i = [size |-> z, direct |-> [d EXCEPT ![x] = y], indirect |-> e, double |-> f]
      BY <1>3, <3>2
    <3> QED BY <3>3
  <2>2. CASE GetPos(k).t = "ind"
    <3>1. PICK y : i = [g EXCEPT !.indirect = y]
      BY <1>2, <2>2 DEF ExtendedInode
    <3>2. i = [size |-> z, direct |-> d, indirect |-> y, double |-> f]
      BY <1>3, <3>1
    <3> QED BY <3>2
  <2>3. CASE GetPos(k).t = "dind"
    <3>1. PICK y : i = [g EXCEPT !.double = y]
      BY <1>2, <2>3 DEF ExtendedInode
    <3>2. i = [size |-> z, direct |-> d, indirect |-> e, double |-> y]
      BY <1>3, <3>1
    <3> QED BY <3>2
  <2> QED BY <1>4, <2>1, <2>2, <2>3
<1>6. h.inode.size = z
  BY <1>1
<1> QED BY <1>5, <1>6

LEMMA SameFields ==
  ASSUME NEW i, NEW j, NEW refs, NEW k \in Nat,
         j.direct = i.direct, j.indirect = i.indirect, j.double = i.double
  PROVE  DataBlock(j, refs, k) = DataBlock(i, refs, k)
BY DEF DataBlock

LEMMA SingleIsAt ==
  ASSUME NEW i, NEW refs, NEW n \in 0..MaxBlocks, NEW k \in Nat, k >= Direct, k < n
  PROVE  \E x \in Places(n) : \A j, others : SingleAt(j, others, k) = At(j, others, x)
<1>1. Refs \in Nat /\ Refs > 0 /\ Direct \in Nat /\ MaxBlocks \in Nat /\ n \in Nat
  BY Constants
<1>2. CASE k < Direct + Refs
  <2>1. <<"indirect", 0>> \in Places(n)
    BY <1>1, PlacesAre
  <2> QED BY <1>2, <2>1, AtPlaces DEF SingleAt
<1>3. CASE k >= Direct + Refs
  <2>1. n > Direct + Refs
    BY <1>1, <1>3
  <2>2. PICK d : d = (k - Direct - Refs) \div Refs
    OBVIOUS
  <2>3. d \in Singles(n)
    BY <1>3, <2>1, <2>2, WithinRows
  <2>4. d \in Nat
    BY <1>1, <2>1, <2>3, SinglesOf
  <2>5. <<"single", d>> \in Places(n)
    BY <1>1, <2>1, <2>3, PlacesAre
  <2>6. ASSUME NEW j, NEW others PROVE SingleAt(j, others, k) = At(j, others, <<"single", d>>)
    <3>1. At(j, others, <<"single", d>>) = others[j.double][d]
      BY <2>4, AtPlaces
    <3>2. ~(k < Direct + Refs)
      BY <1>1, <1>3
    <3> QED BY <2>2, <3>1, <3>2 DEF SingleAt
  <2> QED BY <2>5, <2>6
<1> QED BY <1>1, <1>2, <1>3

\* The buffer of a tree that grows stays among the blocks written and what is
\* above them.
LEMMA StaysBelow ==
  ASSUME NEW i \in Inodes, NEW j \in Inodes, NEW refs, NEW others,
         NumBlocks(i) <= NumBlocks(j),
         \A x \in Places(NumBlocks(i)) : At(j, others, x) = At(i, refs, x),
         NEW first \in Nat, NEW grown \in Nat, NEW byte \in Nat, NEW later \in Nat,
         CeilDiv(byte, BlockSize) <= NumBlocks(i),
         CeilDiv(byte, BlockSize) <= CeilDiv(later, BlockSize)
  PROVE  /\ WrittenTo(i, refs, first, byte) \subseteq WrittenTo(j, others, first, later)
         /\ Above(i, refs, grown) \subseteq Above(j, others, grown)
<1>1. PICK n \in 0..MaxBlocks, m \in Nat : n = NumBlocks(i) /\ m = NumBlocks(j) /\ n <= m /\ n \in Nat
  BY BlocksOf, Constants
<1>2. PICK c \in Nat, e \in Nat : c = CeilDiv(byte, BlockSize) /\ e = CeilDiv(later, BlockSize)
  <2>1. BlockSize \in Nat /\ BlockSize > 0
    BY Constants
  <2>2. CeilDiv(byte, BlockSize) \in Nat /\ CeilDiv(later, BlockSize) \in Nat
    BY <2>1, Ceiling
  <2> QED BY <2>2
<1>3. c <= n /\ c <= e
  BY <1>1, <1>2
<1>4. ASSUME NEW k \in first..(c - 1)
      PROVE  k \in first..(e - 1) /\ DataBlock(j, others, k) = DataBlock(i, refs, k)
  <2>1. k \in Nat /\ k \in 0..(n - 1)
    BY <1>3
  <2>2. <<"data", k>> \in Places(n)
    BY <2>1, PlacesAre
  <2>3. At(j, others, <<"data", k>>) = DataBlock(j, others, k)
    BY <2>1, AtPlaces
  <2>4. At(i, refs, <<"data", k>>) = DataBlock(i, refs, k)
    BY <2>1, AtPlaces
  <2>5. At(j, others, <<"data", k>>) = At(i, refs, <<"data", k>>)
    BY <1>1, <2>2
  <2> QED BY <1>3, <2>3, <2>4, <2>5
<1>5. WrittenTo(i, refs, first, byte) \subseteq WrittenTo(j, others, first, later)
  BY <1>2, <1>4 DEF WrittenTo
<1>6. ASSUME NEW k \in grown..(n - 1), k >= Direct
      PROVE  k \in grown..(m - 1) /\ SingleAt(j, others, k) = SingleAt(i, refs, k)
  <2>1. k \in Nat /\ k < n
    BY <1>1
  <2>2. PICK x \in Places(n) : /\ SingleAt(j, others, k) = At(j, others, x)
                               /\ SingleAt(i, refs, k) = At(i, refs, x)
    BY <1>6, <2>1, SingleIsAt
  <2> QED BY <1>1, <2>1, <2>2
<1>7. SinglesFrom(i, refs, grown, n) \subseteq SinglesFrom(j, others, grown, m)
  BY <1>6 DEF SinglesFrom
<1>8. n > Direct + Refs => i.double = j.double
  <2> HAVE n > Direct + Refs
  <2>1. <<"double", 0>> \in Places(n)
    BY <1>1, PlacesAre
  <2> QED BY <1>1, <2>1, AtPlaces
<1>9. n > Direct + Refs => m > Direct + Refs
  BY <1>1, Constants
<1> QED BY <1>1, <1>5, <1>7, <1>8, <1>9 DEF Above

\* The numbers of a step of llfs_write_bytes, in block q.
LEMMA Step ==
  ASSUME Typed, Dirty, left > 0, HasBlock
  PROVE  LET room == BlockSize - (pos % BlockSize)
             n    == IF left < room THEN left ELSE room
             q    == pos \div BlockSize
             bytes == SizeAfter(handle.inode.size, n)
         IN /\ n \in 1..left /\ q \in Nat /\ q < MaxBlocks
            /\ pos + n \in 0..(BlockSize * MaxBlocks) /\ bytes \in 0..(BlockSize * MaxBlocks)
            /\ pos = handle.inode.size => bytes = pos + n
            /\ CeilDiv(pos + n, BlockSize) = q + 1
            /\ pos = handle.inode.size /\ pos % BlockSize = 0 =>
                 /\ NumBlocks(handle.inode) = q /\ pos = BlockSize * q
                 /\ CeilDiv(bytes, BlockSize) = q + 1
            /\ ~(pos = handle.inode.size /\ pos % BlockSize = 0) =>
                 /\ q < NumBlocks(handle.inode)
                 /\ CeilDiv(bytes, BlockSize) = NumBlocks(handle.inode)
<1>1. /\ BlockSize \in Nat /\ BlockSize > 0 /\ MaxBlocks \in Nat /\ MaxWrite \in Nat
  BY Constants
<1>2. PICK B \in Nat, top \in Nat : B = BlockSize /\ B > 0 /\ top = BlockSize * MaxBlocks
  BY <1>1
<1>3. PICK x \in Nat, l \in Nat, s \in Nat : /\ x = pos /\ l = left /\ s = handle.inode.size
                                            /\ s <= top /\ l > 0
  <2>1. pos \in 0..(BlockSize * MaxBlocks) /\ left \in 0..MaxWrite
    BY DEF Typed
  <2>2. handle.inode \in Inodes
    BY DEF Typed
  <2>3. PICK z \in 0..(BlockSize * MaxBlocks), d \in [0..(Direct - 1) -> Blocks],
             f \in Blocks, g \in Blocks :
          handle.inode = [size |-> z, direct |-> d, indirect |-> f, double |-> g]
    BY <2>2, Fields
  <2>4. handle.inode.size = z
    BY <2>3
  <2> QED BY <1>1, <1>2, <2>1, <2>4
<1>4. PICK q \in Nat, o \in 0..(B - 1) : q = x \div B /\ o = x % B /\ x = B * q + o
  BY <1>2, Divided
<1>5. PICK n \in 1..l : n = (IF l < B - o THEN l ELSE B - o) /\ n <= B - o
  <2>1. B - o >= 1 /\ l \in Nat /\ l >= 1 /\ B - o \in Nat
    BY <1>2, <1>3
  <2> QED BY <2>1
<1>6. PICK z \in Nat : z = SizeAfter(s, n) /\ s <= z /\ (z = s \/ z = x + n) /\ (x = s => z = x + n)
  BY <1>3 DEF SizeAfter, Max2
<1>7. x + n <= top /\ x + l <= top
  <2>1. CeilDiv(x + l, B) <= MaxBlocks
    BY <1>2, <1>3 DEF Dirty
  <2>2. PICK a \in Nat : a = x + l
    OBVIOUS
  <2>3. CeilDiv(a, B) \in Nat /\ (B * MaxBlocks < a <=> MaxBlocks < CeilDiv(a, B))
    BY <1>1, <1>2, Ceiling
  <2>4. ~(MaxBlocks < CeilDiv(a, B))
    BY <1>1, <2>1, <2>2, <2>3
  <2>5. a <= top
    BY <1>2, <2>3, <2>4
  <2> QED BY <2>2, <2>5
<1>8. PICK y \in Nat : y = B * q
  BY <1>2
<1>9. PICK e \in Nat : e = x + n /\ y < e /\ e <= y + B /\ e <= top
  BY <1>4, <1>5, <1>6, <1>7, <1>8
<1>a. CeilDiv(e, B) = q + 1
  BY <1>2, <1>8, <1>9, CeilingIs
<1>b. q < MaxBlocks
  <2>1. CASE q >= MaxBlocks
    <3>1. B * q >= B * MaxBlocks
      BY <1>1, <1>2, <2>1
    <3> QED BY <1>2, <1>8, <1>9, <3>1
  <2> QED BY <1>1, <2>1
<1>c. NumBlocks(handle.inode) = CeilDiv(s, B)
  BY <1>2, <1>3 DEF NumBlocks
<1>d. x = s => z = e
  BY <1>6, <1>9
<1>e. x = s /\ o = 0 => CeilDiv(s, B) = q /\ x = y /\ CeilDiv(z, B) = q + 1
  <2> HAVE x = s /\ o = 0
  <2>1. s = B * q
    BY <1>4, <1>8
  <2>2. CeilDiv(s, B) = q
    BY <1>2, <2>1, CeilingOfMultiple
  <2> QED BY <1>8, <1>a, <1>d, <2>1, <2>2
<1>f. ASSUME ~(x = s /\ o = 0) PROVE q < CeilDiv(s, B) /\ CeilDiv(z, B) = CeilDiv(s, B)
  <2>2. CeilDiv(s, B) \in Nat /\ (B * q < s <=> q < CeilDiv(s, B))
    BY <1>2, Ceiling
  <2>0. x = s \/ q < CeilDiv(s, B)
    BY <1>2, <1>3, <1>4, <1>c DEF HasBlock
  <2>1. y < s
    BY <1>4, <1>8, <1>f, <2>0, <2>2
  <2>3. CASE z = s
    BY <1>8, <2>1, <2>2, <2>3
  <2>4. CASE z # s
    <3>1. z = e /\ s <= y + B
      BY <1>6, <1>9, <2>4
    <3>2. CeilDiv(s, B) = q + 1
      BY <1>2, <1>8, <2>1, <3>1, CeilingIs
    <3> QED BY <1>a, <3>1, <3>2
  <2> QED BY <2>3, <2>4
<1>g. e \in 0..top /\ z \in 0..top
  BY <1>3, <1>6, <1>9
<1> QED BY <1>2, <1>3, <1>4, <1>5, <1>6, <1>8, <1>9, <1>a, <1>b, <1>c, <1>d, <1>e, <1>f, <1>g

\* What remains to be shown of a step of llfs_write_bytes when the tree of the
\* handle is known.
\* A write that goes from one byte to a later one, within block q.
Wrote(begin, grown, q, byte, later, i, j, refs, others) ==
  /\ begin \in Nat /\ grown \in Nat /\ q \in Nat /\ byte \in Nat /\ later \in Nat
  /\ begin <= byte /\ byte < later /\ CeilDiv(later, BlockSize) = q + 1
  /\ q = byte \div BlockSize /\ CeilDiv(byte, BlockSize) <= NumBlocks(i) /\ q < NumBlocks(j)
  /\ i \in Inodes /\ j \in Inodes /\ NumBlocks(i) <= NumBlocks(j)
  /\ \A x \in Places(NumBlocks(i)) : At(j, others, x) = At(i, refs, x)

LEMMA BufferFollows ==
  ASSUME NEW begin, NEW grown, NEW q, NEW byte, NEW later, NEW i, NEW j, NEW refs, NEW others,
         Wrote(begin, grown, q, byte, later, i, j, refs, others),
         NEW f, f = begin \div BlockSize
  PROVE  /\ WrittenTo(i, refs, f, byte) \subseteq WrittenTo(j, others, f, later)
         /\ Above(i, refs, grown) \subseteq Above(j, others, grown)
         /\ DataBlock(j, others, q) \in WrittenTo(j, others, f, later)
<1> USE DEF Wrote
<1>1. BlockSize \in Nat /\ BlockSize > 0
  BY Constants
<1>2. PICK first \in Nat, o \in 0..(BlockSize - 1) :
        first = begin \div BlockSize /\ begin = BlockSize * first + o
  BY <1>1, Divided
<1>3. PICK r \in 0..(BlockSize - 1) : byte = BlockSize * q + r
  BY <1>1, Divided
<1>4. first <= q
  <2>1. CASE first >= q + 1
    <3>1. BlockSize * first >= BlockSize * (q + 1)
      BY <1>1, <2>1
    <3>2. BlockSize * (q + 1) = BlockSize * q + BlockSize
      BY <1>1
    <3>3. PICK v \in Nat, w \in Nat : v = BlockSize * first /\ w = BlockSize * q
      BY <1>1
    <3> QED BY <1>1, <1>2, <1>3, <3>1, <3>2, <3>3
  <2> QED BY <2>1
<1>5. PICK c \in Nat : c = CeilDiv(byte, BlockSize) /\ \A k \in Nat : BlockSize * k < byte <=> k < c
  BY <1>1, Ceiling
<1>6. c <= q + 1
  <2>1. PICK k \in Nat : k = q + 1
    OBVIOUS
  <2>2. BlockSize * k = BlockSize * q + BlockSize
    BY <1>1, <2>1
  <2>3. PICK w \in Nat : w = BlockSize * q
    BY <1>1
  <2>4. ~(BlockSize * k < byte)
    BY <1>1, <1>3, <2>2, <2>3
  <2> QED BY <1>5, <2>1, <2>4
<1>7. c <= NumBlocks(i)
  BY <1>5
<1>8. CeilDiv(byte, BlockSize) <= NumBlocks(i) /\ CeilDiv(byte, BlockSize) <= CeilDiv(later, BlockSize)
  BY <1>5, <1>6, <1>7
<1>9. /\ WrittenTo(i, refs, first, byte) \subseteq WrittenTo(j, others, first, later)
      /\ Above(i, refs, grown) \subseteq Above(j, others, grown)
  BY <1>8, StaysBelow
<1>a. DataBlock(j, others, q) \in WrittenTo(j, others, first, later)
  <2>1. q \in first..(q + 1 - 1)
    BY <1>4
  <2> QED BY <2>1 DEF WrittenTo
<1> QED BY <1>2, <1>9, <1>a

\* What is changed above the new block.
LEMMA ChangedIsAbove ==
  ASSUME NEW h, h.inode \in Inodes, NEW j \in Inodes, NEW others, NEW n \in Nat, n = NumBlocks(h.inode),
         NumBlocks(j) = n + 1, NEW grown \in 0..n,
         Grows(h, j, others)
  PROVE  Changed(h, GetPos(n)) \subseteq Above(j, others, grown)
<1>1. Refs \in Nat /\ Refs > 0 /\ Direct \in Nat /\ Direct > 0
  BY Constants
<1>2. n >= Direct => SingleAt(j, others, n) \in Above(j, others, grown)
  <2> HAVE n >= Direct
  <2>1. n \in {k \in grown..(n + 1 - 1) : k >= Direct}
    OBVIOUS
  <2> QED BY <2>1 DEF Above, SinglesFrom
<1>3. n + 1 > Direct + Refs => j.double \in Above(j, others, grown)
  BY DEF Above
<1>4. n >= Direct => Single(h, GetPos(n)) \in Above(j, others, grown)
  BY <1>2 DEF Grows
<1>5. n >= Direct + Refs => Double(h, GetPos(n)) \in Above(j, others, grown)
  BY <1>1, <1>3 DEF Grows
<1>6. CASE n < Direct
  BY <1>6 DEF Changed, GetPos
<1>7. CASE n >= Direct /\ n < Direct + Refs
  <2>1. GetPos(n).t = "ind"
    BY <1>1, <1>7 DEF GetPos
  <2> QED BY <1>4, <1>7, <2>1 DEF Changed
<1>8. CASE n >= Direct + Refs
  <2>1. GetPos(n).t = "dind" /\ n >= Direct
    <3>1. ~(n < Direct) /\ ~(n < Refs + Direct) /\ n >= Direct
      BY <1>1, <1>8
    <3> QED BY <3>1 DEF GetPos
  <2> QED BY <1>4, <1>5, <1>8, <2>1 DEF Changed
<1> QED BY <1>1, <1>6, <1>7, <1>8

LEMMA GrownTree ==
  ASSUME NEW h, NEW j, NEW mem, NEW n \in Nat, n = NumBlocks(h.inode), NumBlocks(j) = n + 1,
         Growing(h), Grows(h, j, mem)
  PROVE  /\ Formed(j, mem) /\ Taken(GetPos(n)) \subseteq free
         /\ Used(j, mem) = Used(h.inode, h.mem) \cup Taken(GetPos(n))
<1>1. Places(n + 1) = Places(n) \cup NewPlaces(n)
  BY MorePlaces
<1>2. PICK p, i, refs, T, U : /\ p = GetPos(n) /\ i = h.inode /\ refs = h.mem
                              /\ T = Taken(p) /\ U = Used(i, refs)
  OBVIOUS
<1>3. /\ \A x \in Places(n) : At(j, mem, x) = At(i, refs, x)
      /\ \A x \in NewPlaces(n), y \in NewPlaces(n) : At(j, mem, x) = At(j, mem, y) => x = y
      /\ {At(j, mem, x) : x \in NewPlaces(n)} = T
  BY <1>2 DEF Grows
<1>4. U = {At(i, refs, x) : x \in Places(n)} /\ U \cap free = {}
      /\ \A x \in Places(n), y \in Places(n) : At(i, refs, x) = At(i, refs, y) => x = y
  BY <1>2 DEF Used, Growing, Formed
<1>5. T \subseteq free
  <2>1. NewInner(p) \in 0..2
    BY <1>2, NextNumPlaces
  <2>2. /\ Nth(1) \in free /\ (NewInner(p) >= 1 => Nth(2) \in free)
        /\ (NewInner(p) = 2 => Nth(3) \in free)
    BY <1>2 DEF Growing
  <2>3. \/ NewInner(p) = 0 /\ T = {Nth(1)}
        \/ NewInner(p) = 1 /\ T = {Nth(1), Nth(2)}
        \/ NewInner(p) = 2 /\ T = {Nth(1), Nth(2), Nth(3)}
    BY <1>2, <2>1, TakenIs
  <2> QED BY <2>2, <2>3
<1>6. Used(j, mem) = {At(j, mem, x) : x \in Places(n) \cup NewPlaces(n)}
  BY <1>1 DEF Used
<1>7. Used(j, mem) = U \cup T
  BY <1>3, <1>4, <1>6
<1>8. \A x \in Places(n), y \in NewPlaces(n) : At(j, mem, x) # At(j, mem, y)
  BY <1>3, <1>4, <1>5
<1>9. \A x \in Places(n) \cup NewPlaces(n), y \in Places(n) \cup NewPlaces(n) :
        At(j, mem, x) = At(j, mem, y) => x = y
  BY <1>3, <1>4, <1>8
<1>a. Formed(j, mem)
  BY <1>1, <1>9 DEF Formed
<1> QED BY <1>2, <1>5, <1>7, <1>a

LEMMA WriteBlockStep == TreeInv /\ WriteBlock => TreeInv'
<1> SUFFICES ASSUME TreeInv, WriteBlock PROVE TreeInv'
  OBVIOUS
<1>1. /\ pc = "writing" /\ left > 0 /\ HasBlock /\ Typed /\ OnDisk /\ InHandle /\ Dirty
      /\ UNCHANGED <<map, disk, inode, loc, pc>>
  BY DEF TreeInv, WriteBlock
<1>2. PICK room, n, q, bytes :
        /\ room = BlockSize - (pos % BlockSize) /\ n = (IF left < room THEN left ELSE room)
        /\ q = pos \div BlockSize /\ bytes = SizeAfter(handle.inode.size, n)
  OBVIOUS
<1>3. /\ n \in 1..left /\ q \in Nat /\ q < MaxBlocks
      /\ pos + n \in 0..(BlockSize * MaxBlocks) /\ bytes \in 0..(BlockSize * MaxBlocks)
      /\ pos = handle.inode.size => bytes = pos + n
      /\ CeilDiv(pos + n, BlockSize) = q + 1
      /\ pos = handle.inode.size /\ pos % BlockSize = 0 =>
           /\ NumBlocks(handle.inode) = q /\ pos = BlockSize * q
           /\ CeilDiv(bytes, BlockSize) = q + 1
      /\ ~(pos = handle.inode.size /\ pos % BlockSize = 0) =>
           /\ q < NumBlocks(handle.inode)
           /\ CeilDiv(bytes, BlockSize) = NumBlocks(handle.inode)
  BY <1>1, <1>2, Step
<1> DEFINE grow == pos = handle.inode.size /\ pos % BlockSize = 0
<1>4. PICK h, p : h = handle /\ p = GetPos(q)
  OBVIOUS
<1>5. PICK e, mem : /\ e = (IF grow THEN ExtendedInode(h, p) ELSE h.inode)
                    /\ mem = (IF grow THEN ExtendedMem(h, p) ELSE h.mem)
  OBVIOUS
<1>6. PICK j : j = [e EXCEPT !.size = SizeAfter(e.size, n)]
  OBVIOUS
<1>7. /\ handle' = [inode |-> j, mem |-> mem]
      /\ free' = (IF grow THEN free \ Taken(p) ELSE free)
      /\ buffer' = buffer \cup {DataBlock(e, mem, q)} \cup (IF grow THEN Changed(h, p) ELSE {})
      /\ pos' = pos + n /\ left' = left - n
  <2>1. /\ handle' = [inode |-> [(IF grow THEN ExtendedInode(h, p) ELSE h.inode)
                                   EXCEPT !.size = SizeAfter(@, n)],
                      mem |-> IF grow THEN ExtendedMem(h, p) ELSE h.mem]
        /\ free' = (IF grow THEN free \ Taken(p) ELSE free)
        /\ buffer' = buffer \cup {DataBlock(IF grow THEN ExtendedInode(h, p) ELSE h.inode,
                                            IF grow THEN ExtendedMem(h, p) ELSE h.mem, q)}
                            \cup (IF grow THEN Changed(h, p) ELSE {})
        /\ pos' = pos + n /\ left' = left - n
    BY <1>2, <1>4 DEF WriteBlock
  <2> QED BY <1>5, <1>6, <2>1
<1>8. handle'.inode = j /\ handle'.mem = mem
  BY <1>7
<1>9. h.inode \in Inodes /\ Readable(h.inode, h.mem) /\ Formed(h.inode, h.mem)
      /\ Bare(h.inode) /\ Accounted(free, Used(h.inode, h.mem))
  BY <1>1, <1>4 DEF Typed, InHandle
<1>a. PICK i, refs, m : i = h.inode /\ refs = h.mem /\ m = NumBlocks(i)
  OBVIOUS
<1>b. m \in 0..MaxBlocks /\ m \in Nat
  BY <1>9, <1>a, BlocksOf, Constants
\* The tree after the step.
<1>c. /\ j \in Inodes /\ j.size = bytes /\ NumBlocks(j) = (IF grow THEN m + 1 ELSE m)
      /\ \A k \in Nat : DataBlock(e, mem, k) = DataBlock(j, mem, k)
  <2>1. CASE grow
    <3>1. e = ExtendedInode(h, GetPos(q)) /\ m = q
      BY <1>3, <1>4, <1>5, <1>a, <2>1
    <3>2. e.size = h.inode.size /\ j.size = SizeAfter(e.size, n)
          /\ j.direct = e.direct /\ j.indirect = e.indirect /\ j.double = e.double
      <4>1. PICK z : z = SizeAfter(e.size, n)
        OBVIOUS
      <4>2. j = [e EXCEPT !.size = z]
        BY <1>6, <4>1
      <4>3. h.inode \in Inodes /\ q \in Nat /\ e = ExtendedInode(h, GetPos(q))
        BY <1>3, <1>9, <3>1
      <4>4. e.size = h.inode.size /\ j.size = z
            /\ j.direct = e.direct /\ j.indirect = e.indirect /\ j.double = e.double
        BY <4>2, <4>3, ExtendedFields
      <4> QED BY <4>1, <4>4
    <3>3. j.size = bytes
      BY <1>2, <1>4, <3>2
    <3>4. NumBlocks(j) = m + 1
      BY <1>3, <1>4, <2>1, <3>1, <3>3 DEF NumBlocks
    <3>5. j = [ExtendedInode(h, GetPos(NumBlocks(h.inode))) EXCEPT !.size = bytes]
      BY <1>2, <1>4, <1>6, <1>a, <3>1, <3>2
    <3>6. Growing(h)
      BY <1>1, <1>3, <1>4, <1>a, <3>1, CanGrow
    <3>7. Grows(h, j, ExtendedMem(h, GetPos(NumBlocks(h.inode))))
      BY <1>3, <1>a, <3>4, <3>5, <3>6, GrowsBy
    <3>8. j \in Inodes
      BY <3>7 DEF Grows, Readable
    <3> QED BY <2>1, <3>2, <3>3, <3>4, <3>8, SameFields
  <2>2. CASE ~grow
    <3>1. e = i
      BY <1>5, <1>a, <2>2
    <3>2. PICK z \in 0..(BlockSize * MaxBlocks), d \in [0..(Direct - 1) -> Blocks],
               f \in Blocks, g \in Blocks :
            i = [size |-> z, direct |-> d, indirect |-> f, double |-> g]
      BY <1>9, <1>a, Fields
    <3>3. i.size = z /\ bytes = SizeAfter(z, n)
      BY <1>2, <1>4, <1>a, <3>2
    <3>4. j = [size |-> bytes, direct |-> d, indirect |-> f, double |-> g]
      BY <1>6, <3>1, <3>2, <3>3
    <3>5. j \in Inodes
      BY <1>3, <3>4, MadeInode
    <3>6. j.size = bytes /\ j.direct = e.direct /\ j.indirect = e.indirect /\ j.double = e.double
      BY <3>1, <3>2, <3>4
    <3>7. NumBlocks(j) = m
      BY <1>3, <1>4, <1>a, <2>2, <3>6 DEF NumBlocks
    <3> QED BY <2>2, <3>5, <3>6, <3>7, SameFields
  <2> QED BY <2>1, <2>2
<1>d. /\ Readable(j, mem) /\ Formed(j, mem) /\ Bare(j) /\ free' \subseteq Blocks
      /\ free' \cap (Used(j, mem) \cup {0, loc}) = {} /\ Used(j, mem) \cap {0, loc} = {}
      /\ \E f \in Blocks : Blocks \subseteq free' \cup Used(j, mem) \cup {0, loc, f}
      /\ \A x \in Places(m) : At(j, mem, x) = At(i, refs, x)
      /\ \A b \in Inner(j, mem) : b \in buffer' \/ (b \in Inner(i, refs) /\ mem[b] = refs[b])
      /\ grow => \A g \in 0..m : Changed(h, p) \subseteq Above(j, mem, g)
  <2>0. /\ free \cap (Used(i, refs) \cup {0, loc}) = {} /\ Used(i, refs) \cap {0, loc} = {}
        /\ \E f \in Blocks : Blocks \subseteq free \cup Used(i, refs) \cup {0, loc, f}
        /\ free \subseteq Blocks
    BY <1>1, <1>9, <1>a DEF Accounted, Typed
  <2>1. CASE grow
    <3>1. m = q /\ p = GetPos(m) /\ m < MaxBlocks
      BY <1>3, <1>4, <1>a, <2>1
    <3>2. Growing(h)
      BY <1>1, <1>4, <1>a, <3>1, CanGrow
    <3>3. j = [ExtendedInode(h, GetPos(NumBlocks(h.inode))) EXCEPT !.size = bytes]
      <4>1. e = ExtendedInode(h, GetPos(q))
        BY <1>4, <1>5, <2>1
      <4>2. e.size = h.inode.size
        <5>1. PICK z, y : y = [e EXCEPT !.size = z]
          OBVIOUS
        <5>2. h.inode \in Inodes /\ q \in Nat
          BY <1>3, <1>9
        <5> QED BY <4>1, <5>1, <5>2, ExtendedFields
      <4> QED BY <1>2, <1>4, <1>6, <1>a, <3>1, <4>1, <4>2
    <3>4. mem = ExtendedMem(h, GetPos(NumBlocks(h.inode)))
      BY <1>5, <1>a, <2>1, <3>1
    <3>5. NumBlocks(j) = m + 1
      BY <1>c, <2>1
    <3>6. Grows(h, j, mem)
      <4>1. NumBlocks(j) = NumBlocks(h.inode) + 1
        BY <1>a, <3>5
      <4>2. Grows(h, j, ExtendedMem(h, GetPos(NumBlocks(h.inode))))
        BY <1>3, <3>2, <3>3, <4>1, GrowsBy
      <4> QED BY <3>4, <4>2
    <3>7. Formed(j, mem) /\ Taken(p) \subseteq free /\ Used(j, mem) = Used(i, refs) \cup Taken(p)
      BY <1>a, <1>b, <3>1, <3>2, <3>5, <3>6, GrownTree
    <3>8. /\ Readable(j, mem)
          /\ m < Direct => j.indirect = i.indirect
          /\ \A x \in Places(m) : At(j, mem, x) = At(i, refs, x)
          /\ \A b \in Inner(j, mem) :
               b \in Changed(h, p) \/ (b \in Inner(i, refs) /\ mem[b] = refs[b])
      BY <1>a, <3>1, <3>6 DEF Grows
    <3>9. Bare(j)
      BY <1>9, <1>a, <1>b, <3>5, <3>8, Constants DEF Bare
    <3>a. free' = free \ Taken(p) /\ Changed(h, p) \subseteq buffer'
      BY <1>7, <2>1
    <3>b. \A g \in 0..m : Changed(h, p) \subseteq Above(j, mem, g)
      BY <1>9, <1>a, <1>b, <1>c, <3>1, <3>5, <3>6, ChangedIsAbove
    <3> QED BY <2>0, <3>7, <3>8, <3>9, <3>a, <3>b
  <2>2. CASE ~grow
    <3>1. e = i /\ mem = refs /\ free' = free
      BY <1>5, <1>7, <1>a, <2>2
    <3>2. NumBlocks(j) = NumBlocks(i)
      BY <1>a, <1>c, <2>2
    <3>3. j.direct = i.direct /\ j.indirect = i.indirect /\ j.double = i.double
      <4>0. i \in Inodes
        BY <1>9, <1>a
      <4>1. PICK z \in 0..(BlockSize * MaxBlocks), d \in [0..(Direct - 1) -> Blocks],
                 f \in Blocks, g \in Blocks :
              i = [size |-> z, direct |-> d, indirect |-> f, double |-> g]
        BY <4>0, Fields
      <4>2. PICK w : w = SizeAfter(e.size, n)
        OBVIOUS
      <4>3. j = [size |-> w, direct |-> d, indirect |-> f, double |-> g]
        BY <1>6, <3>1, <4>1, <4>2
      <4> QED BY <4>1, <4>3
    <3>4. /\ \A x \in Places(NumBlocks(i)) : At(j, refs, x) = At(i, refs, x)
          /\ Inner(j, refs) = Inner(i, refs)
          /\ Used(j, refs) = Used(i, refs)
          /\ Formed(i, refs) => Formed(j, refs)
      BY <1>9, <1>a, <1>c, <3>2, <3>3, Agree
    <3>5. Readable(j, refs)
      BY <1>9, <1>a, <1>c, <3>4 DEF Readable
    <3>6. Bare(j)
      BY <1>9, <1>a, <3>2, <3>3 DEF Bare
    <3> QED BY <1>9, <1>a, <2>0, <2>2, <3>1, <3>4, <3>5, <3>6
  <2> QED BY <2>1, <2>2
\* The buffer.
<1>e. PICK begin \in 0..pos, grown \in 0..NumBlocks(handle.inode) : Since(begin, grown)
  BY <1>1 DEF Dirty
<1>f. PICK x \in Nat, l \in Nat, s \in Nat, w \in Nat :
        x = pos /\ l = left /\ s = handle.inode.size /\ w = n /\ w <= l /\ w > 0 /\ l <= MaxWrite
  <2>1. pos \in Nat /\ left \in Nat /\ left <= MaxWrite
    <3>1. pos \in 0..(BlockSize * MaxBlocks) /\ left \in 0..MaxWrite
      BY <1>1 DEF Typed
    <3> QED BY <3>1, Constants
  <2>2. handle.inode.size \in Nat
    <3>1. handle.inode \in Inodes
      BY <1>4, <1>9
    <3>2. PICK z \in 0..(BlockSize * MaxBlocks), d \in [0..(Direct - 1) -> Blocks],
               f \in Blocks, g \in Blocks :
            handle.inode = [size |-> z, direct |-> d, indirect |-> f, double |-> g]
      BY <3>1, Fields
    <3>3. handle.inode.size = z
      BY <3>2
    <3> QED BY <3>3
  <2>3. n \in Nat /\ n <= left /\ n > 0
    BY <1>3, <2>1
  <2> QED BY <2>1, <2>2, <2>3
<1>g. pos' = x + w /\ left' = l - w /\ handle'.inode.size = bytes /\ begin \in 0..x /\ grown \in 0..m
      /\ begin \in Nat /\ grown \in Nat /\ bytes \in Nat
  <2>1. handle'.inode.size = bytes
    BY <1>8, <1>c
  <2>2. bytes \in Nat
    BY <1>3, Constants
  <2> QED BY <1>3, <1>4, <1>7, <1>a, <1>b, <1>e, <1>f, <2>1, <2>2
<1>h. buffer' \subseteq WrittenTo(j, mem, begin \div BlockSize, x + w) \cup Above(j, mem, grown)
  <2>0. x + w \in Nat
    BY <1>f
  <2>a. PICK U : U = (IF grow THEN Changed(h, p) ELSE {})
    OBVIOUS
  <2>1. PICK later \in Nat : later = x + w /\ U = (IF grow THEN Changed(h, p) ELSE {})
    BY <2>0, <2>a
  <2>2. U \subseteq Above(j, mem, grown)
    BY <1>d, <1>g, <2>1
  <2>3. buffer \subseteq WrittenTo(i, refs, begin \div BlockSize, x) \cup Above(i, refs, grown)
    BY <1>4, <1>a, <1>e, <1>f DEF Since
  <2>4. buffer' = buffer \cup {DataBlock(j, mem, q)} \cup U
    BY <1>3, <1>7, <1>c, <2>1
  <2>5. i \in Inodes /\ j \in Inodes /\ NumBlocks(i) <= NumBlocks(j) /\ q < NumBlocks(j)
    BY <1>3, <1>4, <1>9, <1>a, <1>b, <1>c
  <2>6. begin <= x /\ x < later /\ CeilDiv(later, BlockSize) = q + 1 /\ q = x \div BlockSize
    BY <1>2, <1>3, <1>f, <1>g, <2>1
  <2>7. \A y \in Places(NumBlocks(i)) : At(j, mem, y) = At(i, refs, y)
    BY <1>a, <1>d
  <2>9. CeilDiv(x, BlockSize) <= NumBlocks(i)
    <3>1. CASE grow
      <4>1. x = BlockSize * q /\ NumBlocks(i) = q
        BY <1>3, <1>4, <1>a, <1>f, <3>1
      <4>2. CeilDiv(x, BlockSize) = q
        <5>1. BlockSize \in Nat /\ BlockSize > 0 /\ q \in Nat
          BY <1>3, Constants
        <5>2. CeilDiv(BlockSize * q, BlockSize) = q
          BY <5>1, CeilingOfMultiple
        <5> QED BY <4>1, <5>2
      <4> QED BY <1>3, <4>1, <4>2
    <3>2. CASE ~grow
      <4>1. q < NumBlocks(i) /\ NumBlocks(i) \in Nat
        BY <1>3, <1>4, <1>a, <1>b, <3>2
      <4>2. CeilDiv(x, BlockSize) \in Nat /\ CeilDiv(x, BlockSize) <= q + 1
        <5>1. BlockSize \in Nat /\ BlockSize > 0 /\ q \in Nat /\ x \in Nat /\ q = x \div BlockSize
          BY <1>3, <1>f, <2>6, Constants
        <5> QED BY <5>1, CeilingBelow
      <4> QED BY <1>3, <4>1, <4>2
    <3> QED BY <3>1, <3>2
  <2>8. buffer \cup {DataBlock(j, mem, q)} \cup U
          \subseteq WrittenTo(j, mem, begin \div BlockSize, later) \cup Above(j, mem, grown)
    <3>1. PICK f : f = begin \div BlockSize
      OBVIOUS
    <3>2. begin \in Nat /\ grown \in Nat /\ q \in Nat
      BY <1>3, <1>g
    <3>3. /\ WrittenTo(i, refs, f, x) \subseteq WrittenTo(j, mem, f, later)
          /\ Above(i, refs, grown) \subseteq Above(j, mem, grown)
          /\ DataBlock(j, mem, q) \in WrittenTo(j, mem, f, later)
      <4>1. Wrote(begin, grown, q, x, later, i, j, refs, mem)
        BY <2>5, <2>6, <2>7, <2>9, <3>2, <1>f DEF Wrote
      <4> QED BY <3>1, <4>1, BufferFollows
    <3> QED BY <2>2, <2>3, <3>1, <3>3
  <2> QED BY <2>1, <2>4, <2>8
<1>i. Since(begin, grown)'
  <2>1. pos' - begin + left' <= MaxWrite
    <3>1. x - begin + l <= MaxWrite
      BY <1>e, <1>f DEF Since
    <3> QED BY ONLY <1>f, <1>g, <3>1, Constants
  <2>2. ASSUME grown < NumBlocks(j) PROVE begin <= grown * BlockSize /\ pos' = bytes
    <3>1. CASE grown < m
      <4>1. begin <= grown * BlockSize /\ pos = handle.inode.size
        BY <1>4, <1>a, <1>e, <3>1 DEF Since
      <4> QED BY <1>3, <1>7, <4>1
    <3>2. CASE ~(grown < m)
      <4>1. grow /\ grown = m
        BY <1>b, <1>c, <1>g, <2>2, <3>2
      <4>2. m = q /\ pos = BlockSize * q
        BY <1>3, <1>4, <1>a, <4>1
      <4>3. pos = grown * BlockSize
        BY <1>3, <4>1, <4>2, Constants
      <4> QED BY <1>3, <1>7, <1>f, <1>g, <4>1, <4>3
    <3> QED BY <3>1, <3>2
  <2>3. buffer' \subseteq WrittenTo(handle'.inode, handle'.mem, begin \div BlockSize, pos')
                            \cup Above(handle'.inode, handle'.mem, grown)
    BY <1>8, <1>g, <1>h
  <2> QED BY <1>8, <1>c, <1>g, <2>1, <2>2, <2>3 DEF Since
<1>j. Dirty'
  <2>1. \A b \in Inner(handle'.inode, handle'.mem) : b \in buffer' \/ handle'.mem[b] = disk'[b]
    <3>1. \A b \in Inner(i, refs) : b \in buffer \/ refs[b] = disk[b]
      BY <1>1, <1>4, <1>a DEF Dirty
    <3>2. buffer \subseteq buffer' /\ disk' = disk
      BY <1>1, <1>7
    <3>3. \A b \in Inner(j, mem) : b \in buffer' \/ (b \in Inner(i, refs) /\ mem[b] = refs[b])
      BY <1>d
    <3> QED BY <1>8, <3>1, <3>2, <3>3
  <2>2. CeilDiv(pos' + left', BlockSize) <= MaxBlocks
    <3>1. pos' + left' = pos + left
      BY ONLY <1>f, <1>g
    <3> QED BY <1>1, <3>1 DEF Dirty
  <2>3. begin \in 0..pos' /\ grown \in 0..NumBlocks(handle'.inode)
    BY <1>8, <1>b, <1>c, <1>f, <1>g
  <2> QED BY <1>i, <2>1, <2>2, <2>3 DEF Dirty
<1>k. buffer' \subseteq Blocks
  <2>1. \A k \in Nat : k < NumBlocks(j) => DataBlock(j, mem, k) \in Blocks
    BY <1>d, BlocksAreBlocks
  <2>2. q < NumBlocks(j)
    BY <1>3, <1>4, <1>a, <1>b, <1>c
  <2>3. DataBlock(e, mem, q) \in Blocks
    BY <1>3, <1>c, <2>1, <2>2
  <2>4. grow => Changed(h, p) \subseteq Blocks
    <3> HAVE grow
    <3>1. Changed(h, p) \subseteq Above(j, mem, m) /\ m < NumBlocks(j)
      BY <1>b, <1>c, <1>d
    <3>2. \A b \in Above(j, mem, m) : b \in Blocks
      <4>1. Used(j, mem) \subseteq Blocks
        BY <1>d, BlocksAreBlocks
      <4>2. j.double \in Blocks
        BY <1>c DEF Inodes
      <4>3. NumBlocks(j) \in 0..MaxBlocks /\ NumBlocks(j) \in Nat
        BY <1>c, BlocksOf, Constants
      <4>4. ASSUME NEW k \in m..(NumBlocks(j) - 1), k >= Direct PROVE SingleAt(j, mem, k) \in Blocks
        <5>1. k \in Nat /\ k < NumBlocks(j)
          BY <1>b, <4>3
        <5>2. PICK y \in Places(NumBlocks(j)) : SingleAt(j, mem, k) = At(j, mem, y)
          BY <4>3, <4>4, <5>1, SingleIsAt
        <5> QED BY <4>1, <5>2 DEF Used
      <4> QED BY <4>2, <4>4 DEF Above, SinglesFrom
    <3> QED BY <3>1, <3>2
  <2> QED BY <1>1, <1>7, <2>3, <2>4 DEF Typed
<1>l. Typed'
  <2>1. pos' \in 0..(BlockSize * MaxBlocks) /\ left' \in 0..MaxWrite
    <3>1. left' \in 0..MaxWrite
      BY <1>f, <1>g, Constants
    <3> QED BY <1>3, <1>7, <3>1
  <2>2. \A b \in DOMAIN mem : b \in Blocks /\ mem[b] \in Rows
    BY <1>d DEF Readable
  <2> QED BY <1>1, <1>8, <1>c, <1>d, <1>k, <2>1, <2>2 DEF Typed
<1>m. OnDisk'
  BY <1>1, SameDisk
<1>n. InHandle'
  <2>1. Accounted(free, Used(handle.inode, handle.mem))'
    BY <1>1, <1>8, <1>d DEF Accounted
  <2> QED BY <1>8, <1>d, <2>1 DEF InHandle
<1> QED BY <1>1, <1>j, <1>l, <1>m, <1>n DEF TreeInv

LEMMA WriteCrashesStep == TreeInv /\ WriteCrashes => TreeInv'
<1> SUFFICES ASSUME TreeInv, WriteCrashes PROVE TreeInv'
  OBVIOUS
<1>1. /\ pc = "writing" /\ pc' = "writeFault" /\ Typed /\ OnDisk
      /\ UNCHANGED <<free, map, disk, inode, loc, handle, pos, left, buffer>>
  BY DEF WriteCrashes, TreeInv
<1>2. OnDisk'
  BY <1>1, SameDisk
<1>3. Typed'
  BY <1>1 DEF Typed
<1> QED BY <1>1, <1>2, <1>3 DEF TreeInv

-----------------------------------------------------------------------------
(* Every step, and what the invariant says.                                *)

LEMMA TreeNextInv == TreeInv /\ [TreeNext]_treeVars => TreeInv'
<1> SUFFICES ASSUME TreeInv, [TreeNext]_treeVars PROVE TreeInv'
  OBVIOUS
<1>1. CASE UNCHANGED treeVars
  <2>1. UNCHANGED <<free, map, disk, inode, loc, handle, pc, pos, left, buffer>>
    BY <1>1 DEF treeVars
  <2>2. /\ Typed => Typed'
        /\ InHandle => InHandle'
        /\ OnDisk => OnDisk'
        /\ Clean => Clean'
    BY <2>1, SameDisk DEF Typed, InHandle, Clean, Accounted
  <2>3. Dirty => Dirty'
    BY <2>1 DEF Dirty, Since
  <2> QED BY <2>1, <2>2, <2>3 DEF TreeInv
<1>2. CASE TreeNext
  <2>1. CASE CreateFile
    BY <2>1, CreateFileStep
  <2>2. CASE Open
    BY <2>2, OpenStep
  <2>3. CASE Close
    BY <2>3, CloseStep
  <2>4. CASE Restart
    BY <2>4, RestartStep
  <2>5. CASE Seek \/ SeekCrashes
    BY <2>5, SeekStep
  <2>6. CASE Write
    BY <2>6, WriteStep
  <2>7. CASE WriteBlock
    BY <2>7, WriteBlockStep
  <2>b. CASE WriteCrashes
    BY <2>b, WriteCrashesStep
  <2>8. CASE FinishWrite
    BY <2>8, FinishWriteStep
  <2>9. CASE Delete
    BY <2>9, DeleteStep
  <2>a. CASE DeleteCrashes
    BY <2>a, DeleteCrashesStep
  <2> QED BY <1>2, <2>1, <2>2, <2>3, <2>4, <2>5, <2>6, <2>7, <2>8, <2>9, <2>a, <2>b DEF TreeNext
<1> QED BY <1>1, <1>2

LEMMA TreeTypes == TreeInv => TreeTypeOK
BY DEF TreeInv, Typed, TreeTypeOK, Inodes, Rows

\* The data blocks of a tree are as many as the inode says.
LEMMA CountOfData ==
  ASSUME NEW i \in Inodes, NEW refs, Formed(i, refs)
  PROVE  /\ Cardinality(Data(i, refs)) = NumBlocks(i)
         /\ Data(i, refs) \cap Inner(i, refs) = {}
<1>1. PICK n \in Nat : n = NumBlocks(i)
  BY BlocksOf, Constants
<1>2. ASSUME NEW k \in 0..(n - 1)
      PROVE  <<"data", k>> \in Places(n) /\ At(i, refs, <<"data", k>>) = DataBlock(i, refs, k)
  <2>1. k \in Nat
    OBVIOUS
  <2> QED BY <2>1, PlacesAre, AtPlaces
<1>3. ASSUME NEW x \in Places(n), NEW y \in Places(n), At(i, refs, x) = At(i, refs, y) PROVE x = y
  BY <1>1, <1>3 DEF Formed
<1>4. PICK f : f = [k \in 0..(n - 1) |-> DataBlock(i, refs, k)]
  OBVIOUS
<1>5. Data(i, refs) = Image(f)
  BY <1>1, <1>4 DEF Data, Image
<1>6. ASSUME NEW a \in 0..(n - 1), NEW b \in 0..(n - 1), f[a] = f[b] PROVE a = b
  <2>1. At(i, refs, <<"data", a>>) = At(i, refs, <<"data", b>>)
    BY <1>2, <1>4, <1>6
  <2>2. <<"data", a>> = <<"data", b>>
    BY <1>2, <1>3, <2>1
  <2> QED BY <2>2
<1>7. Cardinality(Image(f)) = n
  <2>1. PICK S, T : S = 0..(n - 1) /\ T = Image(f)
    OBVIOUS
  <2>2. f \in Bijection(S, T)
    BY <1>4, <1>6, <2>1 DEF Bijection, Injection, Surjection, IsInjective, Image
  <2>3. ExistsBijection(S, T)
    BY <2>2 DEF ExistsBijection
  <2>4. IsFiniteSet(S) /\ Cardinality(S) = n
    BY <2>1, FS_Interval
  <2> QED BY <2>1, <2>3, <2>4, FS_Bijection
<1>8. ASSUME NEW b \in Data(i, refs), b \in Inner(i, refs) PROVE FALSE
  <2>1. PICK k \in 0..(n - 1) : b = DataBlock(i, refs, k)
    BY <1>1 DEF Data
  <2>2. ASSUME NEW x \in Places(n), b = At(i, refs, x) PROVE x = <<"data", k>>
    BY <1>2, <1>3, <2>1, <2>2
  <2>3. n > Direct => b # i.indirect
    BY <2>2, PlacesAre, AtPlaces
  <2>4. n > Direct + Refs => b # i.double
    BY <2>2, PlacesAre, AtPlaces
  <2>5. ASSUME n > Direct + Refs, NEW d \in Singles(n) PROVE b # refs[i.double][d]
    <3>1. d \in Nat
      BY <2>5, SinglesOf
    <3>2. <<"single", d>> \in Places(n) /\ At(i, refs, <<"single", d>>) = refs[i.double][d]
      BY <2>5, <3>1, PlacesAre, AtPlaces
    <3> QED BY <2>2, <3>2
  <2> QED BY <1>1, <1>8, <2>3, <2>4, <2>5 DEF Inner
<1> QED BY <1>1, <1>5, <1>7, <1>8

LEMMA DiskIsRight == TreeInv => NoBlockTwice
<1> SUFFICES ASSUME TreeInv, pc \in {"closed", "open"}
             PROVE  /\ Cardinality(Data(inode, disk)) = NumBlocks(inode)
                    /\ Data(inode, disk) \cap Inner(inode, disk) = {}
                    /\ loc \notin Tree(inode, disk)
                    /\ 0 \notin Tree(inode, disk)
                    /\ (Tree(inode, disk) \cup {loc}) \cap free = {}
  BY DEF NoBlockTwice
<1>1. OnDisk /\ inode \in Inodes /\ free = map
  BY DEF TreeInv, Clean, Typed
<1>2. Tree(inode, disk) = Used(inode, disk)
  BY <1>1, UsedIsTree
<1> QED BY <1>1, <1>2, CountOfData DEF OnDisk, Accounted

LEMMA HandleIsRight == TreeInv => HandleIsOnDisk
<1> SUFFICES ASSUME TreeInv, pc = "open"
             PROVE  /\ inode = handle.inode
                    /\ \A b \in Inner(inode, disk) : b \in DOMAIN handle.mem /\ handle.mem[b] = disk[b]
  BY DEF HandleIsOnDisk
<1>1. InHandle /\ Clean /\ handle.inode \in Inodes /\ inode = handle.inode
  BY DEF TreeInv, Clean, Typed
<1>2. Inner(handle.inode, handle.mem) \subseteq DOMAIN handle.mem
  BY <1>1 DEF InHandle, Readable
<1>3. Inner(handle.inode, disk) = Inner(handle.inode, handle.mem)
  <2>a. PICK i \in Inodes : i = handle.inode
    BY <1>1
  <2>1. PICK j, refs, others : i = handle.inode /\ refs = handle.mem /\ others = disk /\ j = i
    BY <2>a
  <2>2. \A b \in Inner(i, refs) : others[b] = refs[b]
    BY <1>1, <2>1 DEF Clean
  <2>3. Inner(j, others) = Inner(i, refs)
    <3>1. /\ NumBlocks(j) = NumBlocks(i) /\ j.direct = i.direct
          /\ j.indirect = i.indirect /\ j.double = i.double
      BY <2>1
    <3>2. i \in Inodes /\ j \in Inodes
      BY <2>1
    <3> QED BY <2>2, <3>1, <3>2, Agree
  <2> QED BY <2>1, <2>3
<1> QED BY <1>1, <1>2, <1>3 DEF Clean

LEMMA WriteFits == TreeInv => TransactionFits
BY BufferFits DEF TreeInv, TransactionFits

LEMMA DeleteGivesBack ==
  TreeInv /\ [TreeNext]_treeVars /\ pc = "closed" /\ pc' = "none" =>
    free' \ {0} = (free \cup Tree(inode, disk) \cup {loc}) \ {0}
<1> SUFFICES ASSUME TreeInv, [TreeNext]_treeVars, pc = "closed", pc' = "none"
             PROVE  free' \ {0} = (free \cup Tree(inode, disk) \cup {loc}) \ {0}
  OBVIOUS
<1>1. Typed /\ OnDisk
  BY DEF TreeInv
<1>2. Delete
  BY DEF TreeNext, treeVars, CreateFile, Open, Close, Restart, Seek, SeekCrashes, Write, WriteBlock,
         WriteCrashes, FinishWrite, DeleteCrashes
<1>3. PICK F : F = FreedInode \cup FreedDirect \cup FreedIndirect \cup FreedDouble
  OBVIOUS
<1>4. free' = free \cup F /\ NumBlocks(inode) # Direct + Refs
  BY <1>2, <1>3 DEF Delete
<1>5. F \ {0} = (Tree(inode, disk) \cup {loc}) \ {0}
  BY <1>1, <1>3, <1>4, DeleteFrees
<1> QED BY <1>4, <1>5
-----------------------------------------------------------------------------
(* The directory and the file side by side.                                *)

FilesInv ==
  /\ part \in {"directory", "tidy directory", "file"}
  /\ part = "tidy directory" => TidyInv
  /\ TreeInv

LEMMA FilesInitInv == AnyInit => FilesInv
BY TreeInitInv, TidyInit DEF AnyInit, FilesInv

\* A step of the one leaves the other alone.
LEMMA EitherSteps ==
  ASSUME [AnyNext]_<<part, vars, treeVars>>
  PROVE  /\ [TreeNext]_treeVars /\ part' = part
         /\ part = "tidy directory" => [TidyNext]_vars
BY DEF AnyNext, DirectoryStep, FileStep, TidyNext

LEMMA FilesStepInv == FilesInv /\ [AnyNext]_<<part, vars, treeVars>> => FilesInv'
<1> SUFFICES ASSUME FilesInv, [AnyNext]_<<part, vars, treeVars>> PROVE FilesInv'
  OBVIOUS
<1>1. TreeInv'
  BY EitherSteps, TreeNextInv DEF FilesInv
<1>2. part' = "tidy directory" => TidyInv'
  BY EitherSteps, TidyStep DEF FilesInv
<1> QED BY <1>1, <1>2, EitherSteps DEF FilesInv

LEMMA FilesInvariant == AnySpec => []FilesInv
BY FilesInitInv, FilesStepInv, PTL DEF AnySpec

\* The variables of the file keep their types: the pointer stays within the
\* largest file there may be, and what is read as a reference is a block.
THEOREM FileTypes == AnySpec => []TreeTypeOK
<1>1. FilesInv => TreeTypeOK
  BY TreeTypes DEF FilesInv
<1> QED BY <1>1, FilesInvariant, PTL

\* Whatever is written, extended, deleted and created, and wherever the
\* computer stops: no block is twice in the tree of a file, none of its blocks
\* is free, and its inode is not among them.
THEOREM BlocksAreUsedOnce == AnySpec => []NoBlockTwice
<1>1. FilesInv => NoBlockTwice
  BY DiskIsRight DEF FilesInv
<1> QED BY <1>1, FilesInvariant, PTL

\* When no write is under way, the disk has what the open handle has: every
\* indirect block that llfs_extend_file changed was put into the transaction.
THEOREM DiskHasTheHandle == AnySpec => []HandleIsOnDisk
<1>1. FilesInv => HandleIsOnDisk
  BY HandleIsRight DEF FilesInv
<1> QED BY <1>1, FilesInvariant, PTL

\* The blocks of one llfs_write_bytes, with the indirect blocks it changed, the
\* inode and the map, fit into a transaction of the journal.
THEOREM WritesFitTheJournal == AnySpec => []TransactionFits
<1>1. FilesInv => TransactionFits
  BY WriteFits DEF FilesInv
<1> QED BY <1>1, FilesInvariant, PTL

\* llfs_delete gives back all blocks of the file and no other block.
THEOREM DeleteGivesBackTheTree == AnySpec => DeleteFreesTree
<1>1. FilesInv /\ [AnyNext]_<<part, vars, treeVars>> =>
        [pc = "closed" /\ pc' = "none" =>
           free' \ {0} = (free \cup Tree(inode, disk) \cup {loc}) \ {0}]_treeVars
  BY EitherSteps, DeleteGivesBack DEF FilesInv
<1> QED BY <1>1, FilesInvariant, PTL DEF AnySpec, DeleteFreesTree

\* The same of the directory that is used beside a file, as the runs check it:
\* from its first to its last step a tidy directory is a set of names.
THEOREM TidyDirectoryIsSet == AnySpec => TidyIsSet
<1>1. AnyInit => (part = "tidy directory" => Set!Init)
  <2>1. Init => Set!Init
    BY DEF Init, Set!Init, Live
  <2> QED BY <2>1 DEF AnyInit
<1>2. FilesInv /\ [AnyNext]_<<part, vars, treeVars>> =>
        [part = "tidy directory" => Set!Next]_<<Set!vars, part>>
  <2> SUFFICES ASSUME FilesInv, [AnyNext]_<<part, vars, treeVars>>, part = "tidy directory"
               PROVE  Set!Next \/ UNCHANGED <<Set!vars, part>>
    OBVIOUS
  <2>1. [Set!Next]_(Set!vars)
    BY EitherSteps, TidyStepIsSetStep DEF FilesInv
  <2> QED BY <2>1, EitherSteps
<1> QED BY <1>1, <1>2, FilesInvariant, PTL DEF AnySpec, TidyIsSet

=============================================================================
