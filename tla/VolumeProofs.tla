---------------------------- MODULE VolumeProofs ----------------------------
(* Theorems about the volume and their proofs: a careful client keeps the  *)
(* disk consistent for any number of blocks, inodes, names and crashes.    *)
EXTENDS MCVolume, SequenceTheorems, WellFoundedInduction, TLAPS

-----------------------------------------------------------------------------
(* The invariant.                                                          *)

Parts == {"free", "imap", "dir", "inode"}

Usable == Reserved..LastBlock

Numbers == 0..(LastBlock + 1)

MapRecords == [free : SUBSET Usable, imap : [Inodes -> Numbers]]

Disks == [free  : SUBSET Usable,
          imap  : [Inodes -> Numbers],
          dir   : [Names -> 0..MaxInodes],
          inode : [Blocks -> SUBSET Numbers]]

Fields(d) ==
  /\ d.free \in SUBSET Usable
  /\ d.imap \in [Inodes -> Numbers]
  /\ d.dir \in [Names -> 0..MaxInodes]
  /\ d.inode \in [Blocks -> SUBSET Numbers]

VolumeType ==
  /\ mem \in MapRecords
  /\ disk \in Disks
  /\ log # NoTxn => log.order \in Seq(Parts) /\ log.target \in Disks
  /\ copied \in Nat
  /\ pc \in {"up", "logging", "copying", "down", "recovering", "recovered"}
  /\ pc \in {"logging", "copying", "recovering"} => log # NoTxn
  /\ pc \in {"up", "recovered"} => log = NoTxn

\* Every name has an inode and blocks of its own, and none of them is free.
Sound(d) ==
  \A n \in Files(d) :
    /\ d.imap[d.dir[n]] \in Usable
    /\ BlocksOf(d, n) \subseteq Usable
    /\ BlocksOf(d, n) \cap d.free = {}
    /\ \A m \in Files(d) \ {n} :
         /\ d.dir[n] # d.dir[m]
         /\ BlocksOf(d, n) \cap BlocksOf(d, m) = {}

\* The maps in memory may hold more back than those of the disk, never less.
Holds(r, d) ==
  /\ r.free \subseteq d.free
  /\ \A i \in Inodes : d.imap[i] # 0 => r.imap[i] = d.imap[i]

\* What is not as the transaction wants it is still to be copied home.
Remaining(d, t, k) ==
  \A part \in Parts :
    d[part] = t.target[part] \/ \E j \in (k + 1)..Len(t.order) : t.order[j] = part

\* A disk that is not being changed is sound, and so is the one that a transaction
\* makes; the maps in memory run ahead of the disk to those of the transaction.
VolumeInv ==
  /\ VolumeType
  /\ log = NoTxn \/ pc = "logging" => Sound(disk)
  /\ log # NoTxn => Sound(log.target) /\ Remaining(disk, log, copied)
  /\ pc = "up" => Holds(mem, disk)
  /\ pc \in {"logging", "copying"} => Holds(mem, log.target)

-----------------------------------------------------------------------------
(* What the calls make of a sound disk.                                    *)

LEMMA LeastIn ==
  ASSUME NEW S \in SUBSET Nat, S # {}
  PROVE  Least(S) \in S
<1>1. IsWellFoundedOn(OpToRel(<, Nat), Nat)
  BY NatLessThanWellFounded
<1>2. \E x \in S : \A y \in S : ~(<<y, x>> \in OpToRel(<, Nat))
  BY <1>1, WFMin
<1>3. \E x \in S : \A y \in S : ~(y < x)
  BY <1>2 DEF OpToRel
<1>4. \E x \in S : \A y \in S : x <= y
  BY <1>3
<1> QED BY <1>4 DEF Least

\* Soundness from what holds of each name and of each two.
LEMMA SoundIf ==
  ASSUME NEW t,
         \A m \in Files(t) :
           /\ t.imap[t.dir[m]] \in Usable
           /\ BlocksOf(t, m) \subseteq Usable
           /\ BlocksOf(t, m) \cap t.free = {},
         \A m \in Files(t) : \A o \in Files(t) \ {m} :
           t.dir[m] # t.dir[o] /\ BlocksOf(t, m) \cap BlocksOf(t, o) = {}
  PROVE  Sound(t)
BY DEF Sound

LEMMA CreateSound ==
  ASSUME NEW d \in Disks, NEW r \in MapRecords, Sound(d), Holds(r, d),
         NEW n \in Names, d.dir[n] = 0,
         NEW b \in r.free, NEW i \in Inodes, r.imap[i] = 0,
         NEW t,
         t.free = r.free \ {b},
         t.imap = [r.imap EXCEPT ![i] = b],
         t.dir = [d.dir EXCEPT ![n] = Entry(i)],
         t.inode = [d.inode EXCEPT ![b] = {}]
  PROVE  Fields(t) /\ Sound(t)
<1>1. /\ MaxInodes \in Nat \ {0} /\ LastBlock \in Nat /\ Reserved \in 1..LastBlock
  BY VolumeAssumption
<1>2. /\ Entry(i) \in 0..MaxInodes
      /\ Entry(i) # 0 => Entry(i) = i
  BY <1>1 DEF Entry, Inodes
<1>3. Fields(t)
  <2>1. t.free \in SUBSET Usable
    BY DEF MapRecords
  <2>2. t.imap \in [Inodes -> Numbers]
    BY <1>1 DEF MapRecords, Numbers, Usable
  <2>3. t.dir \in [Names -> 0..MaxInodes]
    BY <1>2 DEF Disks
  <2>4. t.inode \in [Blocks -> SUBSET Numbers]
    BY DEF Disks
  <2> QED BY <2>1, <2>2, <2>3, <2>4 DEF Fields
<1>4. b \in Usable /\ b \in d.free
  BY DEF MapRecords, Holds
<1>5. ASSUME NEW m \in Files(t), m # n
      PROVE  /\ m \in Files(d)
             /\ t.dir[m] = d.dir[m]
             /\ d.dir[m] \in Inodes /\ d.dir[m] # i
             /\ t.imap[t.dir[m]] = d.imap[d.dir[m]]
             /\ BlocksOf(t, m) = BlocksOf(d, m)
             /\ b \notin BlocksOf(d, m)
  <2>1. m \in Names /\ t.dir[m] = d.dir[m] /\ d.dir[m] # 0 /\ m \in Files(d)
    BY <1>5 DEF Files, Disks
  <2>2. d.dir[m] \in Inodes
    BY <2>1, <1>1 DEF Disks, Inodes
  <2>3. d.imap[d.dir[m]] \in Usable /\ BlocksOf(d, m) \cap d.free = {}
    BY <2>1 DEF Sound
  <2>4. d.imap[d.dir[m]] # 0
    BY <2>3, <1>1 DEF Usable
  <2>5. r.imap[d.dir[m]] = d.imap[d.dir[m]]
    BY <2>2, <2>4 DEF Holds
  <2>6. d.dir[m] # i
    BY <2>4, <2>5
  <2>7. t.imap[t.dir[m]] = d.imap[d.dir[m]]
    BY <2>1, <2>2, <2>5, <2>6 DEF MapRecords
  <2>8. b \notin BlocksOf(d, m)
    BY <2>3, <1>4
  <2>9. b # d.imap[d.dir[m]] /\ d.imap[d.dir[m]] \in Blocks
    BY <2>8, <2>3, <1>1 DEF BlocksOf, Usable, Blocks
  <2>10. t.inode[d.imap[d.dir[m]]] = d.inode[d.imap[d.dir[m]]]
    BY <2>9 DEF Disks
  <2>11. BlocksOf(t, m) = BlocksOf(d, m)
    BY <2>7, <2>10 DEF BlocksOf
  <2> QED BY <2>1, <2>2, <2>6, <2>7, <2>8, <2>11
<1>6. ASSUME n \in Files(t)
      PROVE  t.dir[n] = i /\ t.imap[i] = b /\ BlocksOf(t, n) = {b}
  <2>1. t.dir[n] = i
    BY <1>6, <1>2 DEF Files, Disks
  <2>2. t.imap[i] = b
    BY DEF MapRecords
  <2>3. b \in Blocks
    BY <1>4, <1>1 DEF Usable, Blocks
  <2>4. t.inode[b] = {}
    BY <2>3 DEF Disks
  <2> QED BY <2>1, <2>2, <2>4 DEF BlocksOf
<1>7. ASSUME NEW m \in Files(t)
      PROVE  /\ t.imap[t.dir[m]] \in Usable
             /\ BlocksOf(t, m) \subseteq Usable
             /\ BlocksOf(t, m) \cap t.free = {}
  <2>1. CASE m = n
    BY <2>1, <1>4, <1>6
  <2>2. CASE m # n
    <3>1. /\ d.imap[d.dir[m]] \in Usable
          /\ BlocksOf(d, m) \subseteq Usable
          /\ BlocksOf(d, m) \cap d.free = {}
      BY <2>2, <1>5 DEF Sound
    <3>2. t.free \subseteq d.free
      BY DEF Holds
    <3> QED BY <2>2, <1>5, <3>1, <3>2
  <2> QED BY <2>1, <2>2
<1>8. ASSUME NEW m \in Files(t), NEW o \in Files(t), m # o
      PROVE  t.dir[m] # t.dir[o] /\ BlocksOf(t, m) \cap BlocksOf(t, o) = {}
  <2>1. CASE m # n /\ o # n
    <3>1. /\ m \in Files(d) /\ o \in Files(d)
          /\ t.dir[m] = d.dir[m] /\ BlocksOf(t, m) = BlocksOf(d, m)
          /\ t.dir[o] = d.dir[o] /\ BlocksOf(t, o) = BlocksOf(d, o)
      BY <2>1, <1>5
    <3> QED BY <3>1, <1>8 DEF Sound
  <2>2. ASSUME NEW q \in Files(t), q # n, n \in Files(t)
        PROVE  t.dir[q] # t.dir[n] /\ BlocksOf(t, q) \cap BlocksOf(t, n) = {}
    <3>1. t.dir[q] = d.dir[q] /\ d.dir[q] # i /\ b \notin BlocksOf(t, q)
      BY <2>2, <1>5
    <3>2. t.dir[n] = i /\ BlocksOf(t, n) = {b}
      BY <2>2, <1>6
    <3> QED BY <3>1, <3>2
  <2>3. CASE m = n \/ o = n
    <3>1. CASE m = n
      BY <2>2, <3>1, <1>8
    <3>2. CASE o = n
      BY <2>2, <3>2, <1>8
    <3> QED BY <2>3, <3>1, <3>2
  <2> QED BY <2>1, <2>3
<1> QED BY <1>3, <1>7, <1>8, SoundIf

LEMMA WriteSound ==
  ASSUME NEW d \in Disks, NEW r \in MapRecords, Sound(d), Holds(r, d),
         NEW n \in Files(d), NEW b \in r.free, NEW loc, loc = d.imap[d.dir[n]],
         NEW t,
         t.free = r.free \ {b},
         t.imap = d.imap,
         t.dir = d.dir,
         t.inode = [d.inode EXCEPT ![loc] = d.inode[loc] \cup {b}]
  PROVE  Fields(t) /\ Sound(t)
<1>1. /\ MaxInodes \in Nat \ {0} /\ LastBlock \in Nat /\ Reserved \in 1..LastBlock
  BY VolumeAssumption
<1>2. /\ t.free = r.free \ {b}
      /\ t.imap = d.imap
      /\ t.dir = d.dir
      /\ t.inode = [d.inode EXCEPT ![loc] = d.inode[loc] \cup {b}]
  OBVIOUS
<1>3. b \in Usable /\ b \in d.free /\ b \in Numbers
  BY <1>1 DEF MapRecords, Holds, Usable, Numbers
<1>4. loc \in Usable /\ loc \in Blocks
  BY <1>1 DEF Sound, Usable, Blocks
<1>5. Fields(t)
  <2>1. t.free \in SUBSET Usable
    BY <1>2 DEF MapRecords
  <2>2. t.inode \in [Blocks -> SUBSET Numbers]
    BY <1>2, <1>3, <1>4 DEF Disks
  <2> QED BY <1>2, <2>1, <2>2 DEF Fields, Disks
<1>6. Files(t) = Files(d)
  BY <1>2 DEF Files
<1>7. ASSUME NEW m \in Files(d)
      PROVE  BlocksOf(t, m) = IF m = n THEN BlocksOf(d, m) \cup {b} ELSE BlocksOf(d, m)
  <2>1. d.imap[d.dir[m]] \in Usable /\ d.imap[d.dir[m]] \in Blocks
    BY <1>1 DEF Sound, Usable, Blocks
  <2>2. m # n => d.imap[d.dir[m]] # loc
    BY DEF Sound, BlocksOf
  <2>3. CASE m = n
    <3>1. t.inode[loc] = d.inode[loc] \cup {b}
      BY <1>2, <1>4 DEF Disks
    <3> QED BY <2>3, <3>1, <1>2 DEF BlocksOf
  <2>4. CASE m # n
    <3>1. t.inode[d.imap[d.dir[m]]] = d.inode[d.imap[d.dir[m]]]
      BY <1>2, <2>1, <2>2, <2>4 DEF Disks
    <3> QED BY <2>4, <3>1, <1>2 DEF BlocksOf
  <2> QED BY <2>3, <2>4
<1>8. ASSUME NEW m \in Files(d)
      PROVE  /\ d.imap[d.dir[m]] \in Usable
             /\ BlocksOf(d, m) \subseteq Usable
             /\ BlocksOf(d, m) \cap d.free = {}
             /\ b \notin BlocksOf(d, m)
  BY <1>3 DEF Sound
<1>9. ASSUME NEW m \in Files(d)
      PROVE  /\ t.imap[t.dir[m]] \in Usable
             /\ BlocksOf(t, m) \subseteq Usable
             /\ BlocksOf(t, m) \cap t.free = {}
  <2>1. t.imap[t.dir[m]] = d.imap[d.dir[m]]
    BY <1>2
  <2>2. t.free \subseteq d.free /\ b \notin t.free
    BY <1>2 DEF Holds
  <2> QED BY <2>1, <2>2, <1>3, <1>7, <1>8
<1>10. ASSUME NEW m \in Files(d), NEW o \in Files(d), m # o
       PROVE  t.dir[m] # t.dir[o] /\ BlocksOf(t, m) \cap BlocksOf(t, o) = {}
  <2>1. d.dir[m] # d.dir[o] /\ BlocksOf(d, m) \cap BlocksOf(d, o) = {}
    BY <1>10 DEF Sound
  <2>2. t.dir[m] # t.dir[o]
    BY <2>1, <1>2
  <2>3. b \notin BlocksOf(d, m) /\ b \notin BlocksOf(d, o)
    BY <1>8
  <2>4. /\ BlocksOf(t, m) \in {BlocksOf(d, m), BlocksOf(d, m) \cup {b}}
        /\ BlocksOf(t, o) \in {BlocksOf(d, o), BlocksOf(d, o) \cup {b}}
        /\ BlocksOf(t, m) = BlocksOf(d, m) \/ BlocksOf(t, o) = BlocksOf(d, o)
    <3>1. m # n \/ o # n
      BY <1>10
    <3> QED BY <3>1, <1>7
  <2>5. ASSUME NEW e \in BlocksOf(t, m) \cap BlocksOf(t, o)
        PROVE  FALSE
    BY <2>1, <2>3, <2>4
  <2> QED BY <2>2, <2>5
<1>11. \A m \in Files(t) :
         /\ t.imap[t.dir[m]] \in Usable
         /\ BlocksOf(t, m) \subseteq Usable
         /\ BlocksOf(t, m) \cap t.free = {}
  BY <1>6, <1>9, Zenon
<1>12. \A m \in Files(t) : \A o \in Files(t) \ {m} :
         t.dir[m] # t.dir[o] /\ BlocksOf(t, m) \cap BlocksOf(t, o) = {}
  BY <1>6, <1>10, Zenon
<1>13. Sound(t)
  BY <1>11, <1>12, SoundIf, Zenon
<1> QED BY <1>5, <1>13

LEMMA DeleteSound ==
  ASSUME NEW d \in Disks, NEW r \in MapRecords, Sound(d), Holds(r, d),
         NEW n \in Files(d), NEW t,
         t.free = r.free \cup BlocksOf(d, n),
         t.imap = [r.imap EXCEPT ![d.dir[n]] = 0],
         t.dir = [d.dir EXCEPT ![n] = 0],
         t.inode = d.inode
  PROVE  Fields(t) /\ Sound(t)
<1>1. /\ MaxInodes \in Nat \ {0} /\ LastBlock \in Nat /\ Reserved \in 1..LastBlock
  BY VolumeAssumption
<1>2. /\ t.free = r.free \cup BlocksOf(d, n)
      /\ t.imap = [r.imap EXCEPT ![d.dir[n]] = 0]
      /\ t.dir = [d.dir EXCEPT ![n] = 0]
      /\ t.inode = d.inode
  OBVIOUS
<1>3. n \in Names /\ BlocksOf(d, n) \subseteq Usable
  BY DEF Sound, Files
<1>4. Fields(t)
  <2>1. t.free \in SUBSET Usable
    BY <1>2, <1>3 DEF MapRecords
  <2>2. t.imap \in [Inodes -> Numbers]
    <3>1. r.imap \in [Inodes -> Numbers] /\ 0 \in Numbers
      BY <1>1 DEF MapRecords, Numbers
    <3> QED BY <3>1, <1>2
  <2>3. t.dir \in [Names -> 0..MaxInodes]
    <3>1. d.dir \in [Names -> 0..MaxInodes] /\ 0 \in 0..MaxInodes
      BY <1>1 DEF Disks
    <3> QED BY <3>1, <1>2
  <2> QED BY <1>2, <2>1, <2>2, <2>3 DEF Fields, Disks
<1>5. ASSUME NEW m \in Files(t)
      PROVE  /\ m \in Files(d) /\ m # n
             /\ t.dir[m] = d.dir[m]
             /\ t.imap[t.dir[m]] = d.imap[d.dir[m]]
             /\ BlocksOf(t, m) = BlocksOf(d, m)
  <2>1. m \in Names /\ t.dir[m] # 0
    BY DEF Files
  <2>2. m # n /\ t.dir[m] = d.dir[m] /\ m \in Files(d)
    BY <2>1, <1>2, <1>3 DEF Files, Disks
  <2>3. d.dir[m] \in Inodes
    BY <2>1, <2>2, <1>1 DEF Disks, Inodes
  <2>4. d.imap[d.dir[m]] \in Usable /\ d.dir[m] # d.dir[n]
    BY <2>2 DEF Sound
  <2>5. r.imap[d.dir[m]] = d.imap[d.dir[m]]
    BY <2>3, <2>4, <1>1 DEF Holds, Usable
  <2>6. t.imap[t.dir[m]] = d.imap[d.dir[m]]
    BY <2>2, <2>3, <2>4, <2>5, <1>2 DEF MapRecords
  <2> QED BY <2>2, <2>6, <1>2 DEF BlocksOf
<1>6. ASSUME NEW m \in Files(t)
      PROVE  /\ t.imap[t.dir[m]] \in Usable
             /\ BlocksOf(t, m) \subseteq Usable
             /\ BlocksOf(t, m) \cap t.free = {}
  <2>1. /\ d.imap[d.dir[m]] \in Usable
        /\ BlocksOf(d, m) \subseteq Usable
        /\ BlocksOf(d, m) \cap d.free = {}
        /\ BlocksOf(d, m) \cap BlocksOf(d, n) = {}
    BY <1>5 DEF Sound
  <2>2. t.free \subseteq d.free \cup BlocksOf(d, n)
    BY <1>2 DEF Holds
  <2> QED BY <2>1, <2>2, <1>5
<1>7. ASSUME NEW m \in Files(t), NEW o \in Files(t), m # o
      PROVE  t.dir[m] # t.dir[o] /\ BlocksOf(t, m) \cap BlocksOf(t, o) = {}
  BY <1>5, <1>7 DEF Sound
<1> QED BY <1>4, <1>6, <1>7, SoundIf

-----------------------------------------------------------------------------
(* The calls.  A call that has a transaction hands it to the journal on a  *)
(* sound disk, and the maps in memory are the transaction's already.       *)

\* What a transaction begins with.
LEMMA Submitted ==
  ASSUME VolumeInv, Ready, NEW order \in Seq(Parts), order # <<>>,
         NEW t \in Disks, Sound(t), Submit(order, t),
         mem' \in MapRecords, Holds(mem', t), Sound(disk),
         \A part \in Parts : disk[part] = t[part] \/ \E j \in 1..Len(order) : order[j] = part
  PROVE  VolumeInv'
<1>1. /\ log' = [order |-> order, target |-> t]
      /\ log'.order = order /\ log'.target = t
      /\ copied' = 0 /\ pc' = "logging" /\ disk' = disk
  BY DEF Submit
<1>2. log' # NoTxn
  BY <1>1 DEF NoTxn
<1>3. VolumeType'
  BY <1>1, <1>2 DEF VolumeInv, VolumeType
<1>4. Remaining(disk', log', copied')
  BY <1>1 DEF Remaining
<1>5. Sound(disk') /\ Sound(log'.target) /\ Holds(mem', log'.target)
  BY <1>1
<1> QED BY <1>1, <1>2, <1>3, <1>4, <1>5 DEF VolumeInv

LEMMA ReadyInv ==
  ASSUME VolumeInv, pc = "up"
  PROVE  /\ mem \in MapRecords /\ disk \in Disks /\ Sound(disk) /\ Holds(mem, disk)
         /\ log = NoTxn
  BY DEF VolumeInv, VolumeType

\* The inode map in memory has the inodes of the names on the disk.
LEMMA WhereItIs ==
  ASSUME mem \in MapRecords, disk \in Disks, Sound(disk), Holds(mem, disk),
         NEW n \in Files(disk)
  PROVE  Location(n) = disk.imap[disk.dir[n]] /\ Location(n) \in Blocks
<1>1. disk.imap[disk.dir[n]] \in Usable
  BY DEF Sound
<1>2. disk.dir[n] \in Inodes
  BY VolumeAssumption DEF Files, Disks, Inodes
<1>3. disk.imap[disk.dir[n]] \in Blocks /\ disk.imap[disk.dir[n]] # 0
  BY <1>1, VolumeAssumption DEF Usable, Blocks
<1> QED BY <1>2, <1>3 DEF Holds, Location

LEMMA CreateStep ==
  ASSUME VolumeInv, pc = "up", NEW n \in Names, Create(n), ReservesFree
  PROVE  VolumeInv'
<1>1. /\ mem \in MapRecords /\ disk \in Disks /\ Sound(disk) /\ Holds(mem, disk)
      /\ log = NoTxn
  BY ReadyInv
<1> DEFINE i == Least(FreeInodes)
           order == <<"dir", "inode", "imap", "free">>
<1>2. PICK b \in Reservable :
        LET maps == [free |-> mem.free \ {b}, imap |-> [mem.imap EXCEPT ![i] = b]]
        IN /\ mem' = maps
           /\ Submit(order,
                     [free  |-> maps.free,
                      imap  |-> maps.imap,
                      dir   |-> [disk.dir EXCEPT ![n] = Entry(i)],
                      inode |-> WithInode(b, {})])
  BY DEF Create
<1> DEFINE t == [free  |-> mem.free \ {b},
                 imap  |-> [mem.imap EXCEPT ![i] = b],
                 dir   |-> [disk.dir EXCEPT ![n] = Entry(i)],
                 inode |-> WithInode(b, {})]
<1>3. mem' = [free |-> mem.free \ {b}, imap |-> [mem.imap EXCEPT ![i] = b]]
      /\ Submit(order, t)
  BY <1>2
<1>4. order \in Seq(Parts) /\ Len(order) = 4
      /\ order[1] = "dir" /\ order[2] = "inode" /\ order[3] = "imap" /\ order[4] = "free"
  BY DEF Parts
<1>5. mem.free # {}
  <2>1. log' = [order |-> order, target |-> t]
    BY <1>3 DEF Submit
  <2>2. log'.order = order
    BY <2>1
  <2>3. log' # log /\ "inode" \in Range(log'.order)
    BY <2>1, <2>2, <1>1, <1>4 DEF NoTxn, Range
  <2> QED BY <2>3 DEF ReservesFree
<1>6. b \in mem.free
  <2>1. mem.free \in SUBSET Nat
    BY <1>1, VolumeAssumption DEF MapRecords, Usable
  <2> QED BY <2>1, <1>2, <1>5, LeastIn DEF Reservable
<1>7. i \in Inodes /\ mem.imap[i] = 0
  <2>1. FreeInodes \in SUBSET Nat /\ FreeInodes # {}
    BY VolumeAssumption DEF FreeInodes, Inodes, Create
  <2>2. i \in FreeInodes
    BY <2>1, LeastIn
  <2> QED BY <2>2 DEF FreeInodes
<1>8. t.inode = [disk.inode EXCEPT ![b] = {}]
  BY <1>1, <1>6, VolumeAssumption DEF WithInode, MapRecords, Usable, Blocks
<1>9. disk.dir[n] = 0
  BY DEF Create
<1>10. Fields(t) /\ Sound(t)
  BY <1>1, <1>6, <1>7, <1>8, <1>9, CreateSound
<1>11. t \in Disks
  BY <1>10 DEF Fields, Disks
<1>12. mem' \in MapRecords /\ Holds(mem', t)
  <2>1. mem'.free = t.free /\ mem'.imap = t.imap
    BY <1>3
  <2> QED BY <1>3, <1>10, <2>1 DEF Fields, MapRecords, Holds
<1>13. \A part \in Parts : \E j \in 1..Len(order) : order[j] = part
  BY <1>4 DEF Parts
<1>14. Ready /\ order # <<>>
  BY DEF Ready
<1> HIDE DEF t, order
<1> QED BY <1>1, <1>3, <1>4, <1>10, <1>11, <1>12, <1>13, <1>14, Submitted

LEMMA WriteStep ==
  ASSUME VolumeInv, pc = "up", NEW n \in Names, Write(n), ReservesFree
  PROVE  VolumeInv'
<1>1. /\ mem \in MapRecords /\ disk \in Disks /\ Sound(disk) /\ Holds(mem, disk)
      /\ log = NoTxn
  BY ReadyInv
<1> DEFINE loc == Location(n)
           order == <<"inode", "free">>
<1>2. PICK b \in Reservable :
        /\ mem' = [mem EXCEPT !.free = mem.free \ {b}]
        /\ Submit(order, [disk EXCEPT !.inode = WithInode(loc, InodeAt(loc) \cup {b}),
                                      !.free = mem.free \ {b}])
  BY DEF Write
<1> DEFINE t == [disk EXCEPT !.inode = WithInode(loc, InodeAt(loc) \cup {b}),
                             !.free = mem.free \ {b}]
<1>3. Submit(order, t)
  BY <1>2
<1>4. order \in Seq(Parts) /\ Len(order) = 2 /\ order[1] = "inode" /\ order[2] = "free"
  BY DEF Parts
<1>5. mem.free # {}
  <2>1. log' = [order |-> order, target |-> t]
    BY <1>3 DEF Submit
  <2>2. log'.order = order
    BY <2>1
  <2>3. log' # log /\ "inode" \in Range(log'.order)
    BY <2>1, <2>2, <1>1, <1>4 DEF NoTxn, Range
  <2> QED BY <2>3 DEF ReservesFree
<1>6. b \in mem.free
  <2>1. mem.free \in SUBSET Nat
    BY <1>1, VolumeAssumption DEF MapRecords, Usable
  <2> QED BY <2>1, <1>2, <1>5, LeastIn DEF Reservable
<1>7. n \in Files(disk)
  BY DEF Write, Files
<1>8. loc = disk.imap[disk.dir[n]] /\ loc \in Blocks
  BY <1>1, <1>7, WhereItIs
<1>9. /\ t.free = mem.free \ {b}
      /\ t.imap = disk.imap
      /\ t.dir = disk.dir
      /\ t.inode = [disk.inode EXCEPT ![loc] = disk.inode[loc] \cup {b}]
      /\ t = [free |-> t.free, imap |-> t.imap, dir |-> t.dir, inode |-> t.inode]
  <2>1. WithInode(loc, InodeAt(loc) \cup {b})
          = [disk.inode EXCEPT ![loc] = disk.inode[loc] \cup {b}]
    BY <1>8 DEF WithInode, InodeAt
  <2>2. PICK inode : inode = WithInode(loc, InodeAt(loc) \cup {b})
    OBVIOUS
  <2>3. PICK free : free = mem.free \ {b}
    OBVIOUS
  <2>4. PICK u : u = t
    OBVIOUS
  <2>5. u = [disk EXCEPT !.inode = inode, !.free = free]
    BY <2>2, <2>3, <2>4
  <2>6. /\ u.free = free /\ u.imap = disk.imap /\ u.dir = disk.dir /\ u.inode = inode
        /\ u = [free |-> u.free, imap |-> u.imap, dir |-> u.dir, inode |-> u.inode]
    BY <1>1, <2>5 DEF Disks
  <2> HIDE DEF t, loc
  <2>7. t.free = free /\ t.imap = disk.imap /\ t.dir = disk.dir /\ t.inode = inode
    BY <2>4, <2>6, Zenon
  <2>8. t = [free |-> t.free, imap |-> t.imap, dir |-> t.dir, inode |-> t.inode]
    BY <2>4, <2>6, Zenon
  <2> QED BY <2>1, <2>2, <2>3, <2>7, <2>8, Zenon
<1> HIDE DEF t, loc, order
<1>10. Fields(t) /\ Sound(t)
  BY <1>1, <1>6, <1>7, <1>8, <1>9, WriteSound
<1>11. t \in Disks
  BY <1>9, <1>10 DEF Fields, Disks
<1>12. mem' \in MapRecords /\ Holds(mem', t)
  <2>1. mem' = [free |-> mem.free \ {b}, imap |-> mem.imap]
    BY <1>1, <1>2 DEF MapRecords
  <2>2. mem'.free = t.free /\ mem'.imap = mem.imap
    BY <2>1, <1>9
  <2>3. mem' \in MapRecords
    BY <2>1, <1>1 DEF MapRecords
  <2> QED BY <1>1, <1>9, <2>2, <2>3 DEF Holds
<1>13. \A part \in Parts : disk[part] = t[part] \/ \E j \in 1..Len(order) : order[j] = part
  BY <1>4, <1>9 DEF Parts
<1>14. Ready /\ order # <<>>
  BY <1>4 DEF Ready
<1> QED BY <1>1, <1>3, <1>4, <1>10, <1>11, <1>12, <1>13, <1>14, Submitted

LEMMA DeleteStep ==
  ASSUME VolumeInv, pc = "up", NEW n \in Names, Delete(n)
  PROVE  VolumeInv'
<1>1. /\ mem \in MapRecords /\ disk \in Disks /\ Sound(disk) /\ Holds(mem, disk)
      /\ log = NoTxn
  BY ReadyInv
<1> DEFINE order == <<"dir", "free", "imap">>
           freed == mem.free \cup FreedBy(n)
           imap == [mem.imap EXCEPT ![disk.dir[n]] = 0]
           t == [disk EXCEPT !.free = freed, !.imap = imap, !.dir[n] = 0]
<1>2. mem' = [free |-> freed, imap |-> imap] /\ Submit(order, t)
  BY DEF Delete
<1>3. n \in Files(disk)
  BY DEF Delete, Files
<1>4. Location(n) = disk.imap[disk.dir[n]] /\ Location(n) \in Blocks
  BY <1>1, <1>3, WhereItIs
<1>5. FreedBy(n) = BlocksOf(disk, n)
  <2>1. BlocksOf(disk, n) \subseteq Blocks
    BY <1>1, <1>3, VolumeAssumption DEF Sound, Usable, Blocks
  <2> QED BY <2>1, <1>4 DEF FreedBy, InodeAt, BlocksOf
<1>6. order \in Seq(Parts) /\ Len(order) = 3
      /\ order[1] = "dir" /\ order[2] = "free" /\ order[3] = "imap"
  BY DEF Parts
<1>7. /\ t.free = mem.free \cup BlocksOf(disk, n)
      /\ t.imap = imap
      /\ t.dir = [disk.dir EXCEPT ![n] = 0]
      /\ t.inode = disk.inode
      /\ t = [free |-> t.free, imap |-> t.imap, dir |-> t.dir, inode |-> t.inode]
  <2>1. PICK f : f = freed
    OBVIOUS
  <2>2. PICK m : m = imap
    OBVIOUS
  <2>3. PICK u : u = t
    OBVIOUS
  <2>4. u = [disk EXCEPT !.free = f, !.imap = m, !.dir[n] = 0]
    BY <2>1, <2>2, <2>3
  <2>5. /\ u.free = f /\ u.imap = m /\ u.dir = [disk.dir EXCEPT ![n] = 0]
        /\ u.inode = disk.inode
        /\ u = [free |-> u.free, imap |-> u.imap, dir |-> u.dir, inode |-> u.inode]
    BY <1>1, <2>4 DEF Disks
  <2>6. f = mem.free \cup BlocksOf(disk, n)
    BY <2>1, <1>5
  <2> HIDE DEF t, imap
  <2>7. /\ t.free = f /\ t.imap = m /\ t.dir = [disk.dir EXCEPT ![n] = 0]
        /\ t.inode = disk.inode
    BY <2>3, <2>5, Zenon
  <2>8. t = [free |-> t.free, imap |-> t.imap, dir |-> t.dir, inode |-> t.inode]
    BY <2>3, <2>5, Zenon
  <2> QED BY <2>2, <2>6, <2>7, <2>8, Zenon
<1>8. mem' = [free |-> t.free, imap |-> t.imap]
  BY <1>2, <1>5, <1>7
<1> HIDE DEF t, order
<1>9. Fields(t) /\ Sound(t)
  BY <1>1, <1>3, <1>7, DeleteSound
<1>10. t \in Disks
  BY <1>7, <1>9 DEF Fields, Disks
<1>11. mem' \in MapRecords /\ Holds(mem', t)
  <2>1. mem'.free = t.free /\ mem'.imap = t.imap
    BY <1>8
  <2> QED BY <1>8, <1>9, <2>1 DEF Fields, MapRecords, Holds
<1>12. \A part \in Parts : disk[part] = t[part] \/ \E j \in 1..Len(order) : order[j] = part
  BY <1>6, <1>7 DEF Parts
<1>13. Ready /\ order # <<>>
  BY <1>6 DEF Ready
<1> QED BY <1>1, <1>2, <1>6, <1>9, <1>10, <1>11, <1>12, <1>13, Submitted

\* A refused creation holds a block back in memory, and an inode perhaps.
LEMMA RefusedStep ==
  ASSUME VolumeInv, pc = "up", NEW n \in Names, CreateNoInode(n) \/ CreateDirFull(n)
  PROVE  VolumeInv'
<1>1. /\ mem \in MapRecords /\ disk \in Disks /\ Sound(disk) /\ Holds(mem, disk)
      /\ log = NoTxn
  BY ReadyInv
<1>2. mem' \in MapRecords /\ Holds(mem', disk)
  <2>1. CASE CreateNoInode(n)
    <3>1. PICK b \in Reservable : mem' = [mem EXCEPT !.free = mem.free \ {b}]
      BY <2>1 DEF CreateNoInode
    <3>2. mem' = [free |-> mem.free \ {b}, imap |-> mem.imap]
      BY <1>1, <3>1 DEF MapRecords
    <3>3. mem'.free \subseteq mem.free /\ mem'.imap = mem.imap
      BY <3>2
    <3>4. mem' \in MapRecords
      BY <1>1, <3>2 DEF MapRecords
    <3> QED BY <1>1, <3>3, <3>4 DEF Holds
  <2>2. CASE CreateDirFull(n)
    <3> DEFINE i == Least(FreeInodes)
    <3>1. PICK b \in Reservable :
            mem' = [free |-> mem.free \ {b}, imap |-> [mem.imap EXCEPT ![i] = b]]
      BY <2>2 DEF CreateDirFull
    <3>2. i \in Inodes /\ mem.imap[i] = 0
      <4>1. FreeInodes \in SUBSET Nat /\ FreeInodes # {}
        BY <2>2, VolumeAssumption DEF FreeInodes, Inodes, CreateDirFull
      <4>2. i \in FreeInodes
        BY <4>1, LeastIn
      <4> QED BY <4>2 DEF FreeInodes
    <3>3. b \in Numbers
      <4>1. CASE mem.free = {}
        BY <4>1, <3>1, VolumeAssumption DEF Reservable, Numbers
      <4>2. CASE mem.free # {}
        <5>1. mem.free \in SUBSET Usable /\ mem.free \in SUBSET Nat
          BY <1>1, VolumeAssumption DEF MapRecords, Usable
        <5>2. b \in mem.free
          BY <5>1, <4>2, <3>1, LeastIn DEF Reservable
        <5> QED BY <5>1, <5>2, VolumeAssumption DEF Usable, Numbers
      <4> QED BY <4>1, <4>2
    <3> HIDE DEF i
    <3>4. mem.imap \in [Inodes -> Numbers] /\ mem.free \in SUBSET Usable
      BY <1>1 DEF MapRecords
    <3>5. /\ mem'.free \in SUBSET Usable /\ mem'.free \subseteq mem.free
          /\ mem'.imap = [mem.imap EXCEPT ![i] = b]
      BY <3>1, <3>4
    <3>6. mem'.imap \in [Inodes -> Numbers]
      BY <3>3, <3>4, <3>5
    <3>7. mem' \in MapRecords
      BY <3>1, <3>5, <3>6 DEF MapRecords
    <3>8. \A j \in Inodes : disk.imap[j] # 0 => mem'.imap[j] = disk.imap[j]
      BY <1>1, <3>2, <3>4, <3>5 DEF Holds
    <3> QED BY <1>1, <3>5, <3>7, <3>8 DEF Holds
  <2> QED BY <2>1, <2>2
<1>3. UNCHANGED <<disk, log, copied, pc>>
  BY DEF CreateNoInode, CreateDirFull, Return
<1>4. VolumeType'
  BY <1>2, <1>3 DEF VolumeInv, VolumeType
<1> QED BY <1>1, <1>2, <1>3, <1>4 DEF VolumeInv

-----------------------------------------------------------------------------
(* The journal, crashes and llfs_load.                                     *)

LEMMA CopyStep ==
  ASSUME VolumeInv, CopyHome
  PROVE  VolumeInv'
<1>1. /\ log # NoTxn /\ log.order \in Seq(Parts) /\ log.target \in Disks /\ disk \in Disks
      /\ copied \in Nat /\ copied + 1 \in 1..Len(log.order)
      /\ pc \in {"copying", "recovering"}
  BY DEF VolumeInv, VolumeType, CopyHome
<1> DEFINE part == log.order[copied + 1]
<1>2. /\ disk' = [disk EXCEPT ![part] = log.target[part]]
      /\ copied' = copied + 1
      /\ UNCHANGED <<mem, log, pc>>
  BY DEF CopyHome
<1>3. part \in Parts
  BY <1>1
<1> HIDE DEF part
<1>4. disk' \in Disks /\ \A p \in Parts : disk'[p] = IF p = part THEN log.target[p] ELSE disk[p]
  <2>1. CASE part = "free"
    BY <2>1, <1>1, <1>2 DEF Disks, Parts
  <2>2. CASE part = "imap"
    BY <2>2, <1>1, <1>2 DEF Disks, Parts
  <2>3. CASE part = "dir"
    BY <2>3, <1>1, <1>2 DEF Disks, Parts
  <2>4. CASE part = "inode"
    BY <2>4, <1>1, <1>2 DEF Disks, Parts
  <2> QED BY <2>1, <2>2, <2>3, <2>4, <1>3 DEF Parts
<1>5. Remaining(disk', log', copied')
  <2> SUFFICES ASSUME NEW p \in Parts, disk'[p] # log.target[p]
               PROVE  \E j \in (copied + 1 + 1)..Len(log.order) : log.order[j] = p
    BY <1>2 DEF Remaining
  <2>1. p # part /\ disk[p] # log.target[p]
    BY <1>4
  <2>2. PICK j \in (copied + 1)..Len(log.order) : log.order[j] = p
    BY <2>1, <1>1 DEF VolumeInv, Remaining
  <2>3. j # copied + 1
    BY <2>1, <2>2 DEF part
  <2> QED BY <2>2, <2>3, <1>1
<1>6. VolumeType'
  BY <1>1, <1>2, <1>4 DEF VolumeInv, VolumeType
<1> QED BY <1>1, <1>2, <1>5, <1>6 DEF VolumeInv

\* When all is copied home the disk is what the transaction makes of it.
LEMMA RetiredIsHome ==
  ASSUME VolumeInv, Retire
  PROVE  disk = log.target
<1>1. /\ log # NoTxn /\ log.order \in Seq(Parts) /\ log.target \in Disks /\ disk \in Disks
      /\ copied = Len(log.order) /\ Remaining(disk, log, copied)
  BY DEF VolumeInv, VolumeType, Retire
<1>2. \A p \in Parts : disk[p] = log.target[p]
  BY <1>1 DEF Remaining
<1>3. /\ disk["free"] = log.target["free"] /\ disk["imap"] = log.target["imap"]
      /\ disk["dir"] = log.target["dir"] /\ disk["inode"] = log.target["inode"]
  BY <1>2 DEF Parts
<1> QED BY <1>3, <1>1 DEF Disks

LEMMA RetireStep ==
  ASSUME VolumeInv, Retire
  PROVE  VolumeInv'
<1>1. /\ log # NoTxn /\ Sound(log.target)
      /\ pc = "copying" => Holds(mem, log.target)
  BY DEF VolumeInv, VolumeType, Retire
<1>2. /\ log' = NoTxn /\ copied' = 0
      /\ pc' = (IF pc = "copying" THEN "up" ELSE "recovered")
      /\ UNCHANGED <<mem, disk>>
  BY DEF Retire
<1>3. disk = log.target
  BY RetiredIsHome
<1>4. VolumeType'
  BY <1>2 DEF VolumeInv, VolumeType
<1> QED BY <1>1, <1>2, <1>3, <1>4 DEF VolumeInv

LEMMA OtherStep ==
  ASSUME VolumeInv, Commit \/ Crash \/ Load
  PROVE  VolumeInv'
<1>1. CASE Commit
  <2>1. VolumeType'
    BY <1>1 DEF Commit, VolumeInv, VolumeType
  <2> QED BY <1>1, <2>1 DEF Commit, VolumeInv
<1>2. CASE Crash
  <2>1. /\ copied' = 0 /\ pc' = "down" /\ UNCHANGED <<mem, disk>>
        /\ log' = IF pc = "logging" THEN NoTxn ELSE log
    BY <1>2 DEF Crash
  <2>2. VolumeType'
    BY <2>1 DEF VolumeInv, VolumeType
  <2>3. log' = NoTxn => Sound(disk')
    BY <2>1 DEF VolumeInv, VolumeType
  <2>4. log' # NoTxn => Sound(log'.target) /\ Remaining(disk', log', copied')
    <3> SUFFICES ASSUME log' # NoTxn PROVE Sound(log'.target) /\ Remaining(disk', log', copied')
      OBVIOUS
    <3>1. log' = log /\ log # NoTxn /\ copied \in Nat /\ Len(log.order) \in Nat
      BY <2>1 DEF VolumeInv, VolumeType
    <3>2. Remaining(disk, log, copied) /\ Sound(log.target)
      BY <3>1 DEF VolumeInv
    <3>3. Remaining(disk, log, 0)
      BY <3>1, <3>2 DEF Remaining
    <3> QED BY <2>1, <3>1, <3>2, <3>3
  <2> QED BY <2>1, <2>2, <2>3, <2>4 DEF VolumeInv
<1>3. CASE Load
  <2>1. /\ mem' = [free |-> disk.free, imap |-> disk.imap]
        /\ pc' = (IF log = NoTxn THEN "up" ELSE "recovering")
        /\ UNCHANGED <<disk, log, copied>>
        /\ pc \in {"down", "up", "recovered"}
    BY <1>3 DEF Load
  <2>2. mem'.free = disk.free /\ mem'.imap = disk.imap
    BY <2>1
  <2>3. mem' \in MapRecords
    BY <2>1 DEF VolumeInv, VolumeType, Disks, MapRecords
  <2>4. VolumeType'
    BY <2>1, <2>3 DEF VolumeInv, VolumeType
  <2>5. Holds(mem', disk')
    BY <2>1, <2>2 DEF Holds
  <2> QED BY <2>1, <2>4, <2>5 DEF VolumeInv
<1> QED BY <1>1, <1>2, <1>3

-----------------------------------------------------------------------------
(* The theorems.                                                           *)

LEMMA VolumeInit == Init => VolumeInv
<1> SUFFICES ASSUME Init PROVE VolumeInv
  OBVIOUS
<1>1. /\ LastBlock \in Nat /\ Reserved \in 1..LastBlock /\ MaxInodes \in Nat \ {0}
  BY VolumeAssumption
<1>2. InitialMaps.free = Usable /\ InitialMaps.imap \in [Inodes -> Numbers]
      /\ InitialMaps = [free |-> InitialMaps.free, imap |-> InitialMaps.imap]
  BY <1>1 DEF InitialMaps, Usable, Numbers
<1>3. /\ mem = InitialMaps /\ disk.free = InitialMaps.free /\ disk.imap = InitialMaps.imap
      /\ disk.dir = [n \in Names |-> 0]
      /\ log = NoTxn /\ pc = "up" /\ copied = 0
  BY DEF Init
<1>4. mem \in MapRecords
  BY <1>2, <1>3 DEF MapRecords
<1>5. disk \in Disks
  BY <1>1, <1>2 DEF Init, Disks
<1>6. VolumeType
  BY <1>3, <1>4, <1>5 DEF VolumeType
<1>7. Sound(disk) /\ Holds(mem, disk)
  BY <1>3 DEF Sound, Files, Holds
<1> QED BY <1>3, <1>6, <1>7 DEF VolumeInv

LEMMA VolumeStep ==
  ASSUME VolumeInv, lostNames \in Nat, Next, CarefulStep
  PROVE  VolumeInv'
<1>1. CASE Call
  <2>1. pc = "up"
    <3>1. pc \in {"up", "recovered"} /\ pc' \in {"logging", pc}
      BY <1>1 DEF Call, Create, CreateExisting, CreateNoInode, CreateDirFull, Write, Delete,
        DeleteMissing, DeleteUnreached, Ready, Return, Submit
    <3>2. Load \/ Crash => pc' \in {"up", "recovering", "down"}
      BY DEF Load, Crash
    <3>3. pc = "recovered" => Load \/ Crash
      BY DEF CarefulStep
    <3> QED BY <3>1, <3>2, <3>3
  <2>2. PICK n \in Names :
          \/ Create(n) \/ CreateExisting(n) \/ CreateNoInode(n) \/ CreateDirFull(n)
          \/ Write(n)
          \/ Delete(n) \/ DeleteMissing(n) \/ DeleteUnreached(n)
    BY <1>1 DEF Call
  <2>3. CASE CreateExisting(n) \/ DeleteMissing(n)
    <3>1. UNCHANGED <<mem, disk, log, copied, pc>>
      BY <2>3 DEF CreateExisting, DeleteMissing, Return
    <3>2. VolumeType'
      BY <3>1 DEF VolumeInv, VolumeType
    <3> QED BY <3>1, <3>2 DEF VolumeInv
  <2>4. ~DeleteUnreached(n)
    BY DEF DeleteUnreached, CarefulStep
  <2> QED BY <2>1, <2>2, <2>3, <2>4, CreateStep, WriteStep, DeleteStep, RefusedStep
       DEF CarefulStep
<1>2. ~CrashStaleCommit
  BY DEF CarefulStep
<1> QED BY <1>1, <1>2, CopyStep, RetireStep, OtherStep DEF Next

\* The invariant of a volume with a careful client.
CarefulInv ==
  /\ careful \in BOOLEAN
  /\ careful => VolumeInv /\ lostNames \in Nat

LEMMA CarefulInvariant == AnySpec => []CarefulInv
<1>1. AnyInit => CarefulInv
  BY VolumeInit DEF AnyInit, CarefulInv, Init
<1>2. CarefulInv /\ [AnyNext]_<<vars, careful>> => CarefulInv'
  <2> SUFFICES ASSUME CarefulInv, [AnyNext]_<<vars, careful>> PROVE CarefulInv'
    OBVIOUS
  <2>1. CASE AnyNext
    <3>1. careful' = careful
      BY <2>1 DEF AnyNext
    <3>2. careful => Next /\ CarefulStep
      BY <2>1 DEF AnyNext
    <3>3. careful => lostNames' = lostNames
      BY <3>2 DEF CarefulStep
    <3> QED BY <3>1, <3>2, <3>3, VolumeStep DEF CarefulInv
  <2>2. CASE UNCHANGED <<vars, careful>>
    <3>1. UNCHANGED <<mem, disk, log, copied, pc, lostNames, careful>>
      BY <2>2 DEF vars
    <3>2. VolumeInv => VolumeInv'
      BY <3>1 DEF VolumeInv, VolumeType
    <3> QED BY <3>1, <3>2 DEF CarefulInv
  <2> QED BY <2>1, <2>2
<1> QED BY <1>1, <1>2, PTL DEF AnySpec

\* With a client that calls llfs_load again after a recovery and reserves nothing on
\* a full disk, and as long as no crash in the middle of logging meets an old commit
\* block, every name on the disk has an inode and blocks of its own, none of them
\* free, whatever the other crashes and for any number of blocks, inodes and names.
THEOREM CarefulKeepsDisk == AnySpec => []CarefulIsConsistent
<1>1. CarefulInv => CarefulIsConsistent
  BY DEF CarefulInv, VolumeInv, VolumeType, CarefulIsConsistent, DiskConsistent, Durable,
    Sound, Usable
<1> QED BY <1>1, CarefulInvariant, PTL

\* The map in memory from which such a client reserves has no block of a file, under
\* the same proviso: no reservation takes a block that is in use.
THEOREM CarefulReservesUnused == AnySpec => []CarefulMapIsRight
<1>1. CarefulInv => CarefulMapIsRight
  <2> SUFFICES ASSUME CarefulInv, careful, pc = "up", NEW n \in Files(disk)
               PROVE  BlocksOf(disk, n) \cap mem.free = {}
    BY DEF CarefulMapIsRight, AvailableIsUnused
  <2>1. Sound(disk) /\ mem.free \subseteq disk.free
    BY DEF CarefulInv, VolumeInv, VolumeType, Holds
  <2>2. BlocksOf(disk, n) \cap disk.free = {}
    BY <2>1 DEF Sound
  <2> QED BY <2>1, <2>2
<1> QED BY <1>1, CarefulInvariant, PTL

-----------------------------------------------------------------------------
(* When the disk changes for good, whatever the client does.               *)

\* Only a commit block changes what a recovery would make of the disk, the entry's own
\* or an old one that a crash leaves in its place: no other crash, and neither
\* llfs_load, the copying nor the end of a transaction, adds or takes anything.
OnlyCommitsLast == [][Durable' # Durable => Commit \/ CrashStaleCommit]_vars

Whole(d) ==
  d = [free |-> d.free, imap |-> d.imap, dir |-> d.dir, inode |-> d.inode]

\* The transaction in the log changes no part of the disk that it does not write.
LogIsWhole ==
  /\ Whole(disk)
  /\ copied \in Nat
  /\ pc \in {"up", "logging", "copying", "down", "recovering", "recovered"}
  /\ pc \in {"logging", "copying", "recovering"} => log # NoTxn
  /\ pc \in {"up", "recovered"} => log = NoTxn
  /\ log # NoTxn => /\ log.order \in Seq(Parts)
                    /\ Whole(log.target)
                    /\ Remaining(disk, log, copied)

\* What a call hands to the journal.
LEMMA SubmitIsWhole ==
  ASSUME LogIsWhole, NEW order \in Seq(Parts), NEW t, Submit(order, t), Whole(t),
         \A part \in Parts : disk[part] = t[part] \/ \E j \in 1..Len(order) : order[j] = part
  PROVE  LogIsWhole'
<1>1. /\ log' = [order |-> order, target |-> t]
      /\ log'.order = order /\ log'.target = t
      /\ copied' = 0 /\ pc' = "logging" /\ disk' = disk
  BY DEF Submit
<1>2. log' # NoTxn
  BY <1>1 DEF NoTxn
<1>3. Remaining(disk', log', copied')
  BY <1>1 DEF Remaining
<1> QED BY <1>1, <1>2, <1>3 DEF LogIsWhole, Whole

LEMMA CallIsWhole ==
  ASSUME LogIsWhole, Call
  PROVE  LogIsWhole'
<1>1. PICK n \in Names :
        \/ Create(n) \/ CreateExisting(n) \/ CreateNoInode(n) \/ CreateDirFull(n)
        \/ Write(n)
        \/ Delete(n) \/ DeleteMissing(n) \/ DeleteUnreached(n)
  BY DEF Call
<1>w. disk = [free |-> disk.free, imap |-> disk.imap, dir |-> disk.dir, inode |-> disk.inode]
  BY DEF LogIsWhole, Whole
<1>2. CASE Create(n)
  <2> DEFINE order == <<"dir", "inode", "imap", "free">>
  <2>1. PICK t : Submit(order, t) /\ Whole(t)
    BY <1>2 DEF Create, Whole
  <2>2. order \in Seq(Parts) /\ Len(order) = 4
        /\ order[1] = "dir" /\ order[2] = "inode" /\ order[3] = "imap" /\ order[4] = "free"
    BY DEF Parts
  <2>3. \A part \in Parts : \E j \in 1..Len(order) : order[j] = part
    BY <2>2 DEF Parts
  <2> QED BY <2>1, <2>2, <2>3, SubmitIsWhole
<1>3. CASE Write(n)
  <2> DEFINE order == <<"inode", "free">>
  <2>1. PICK x, f, t : t = [disk EXCEPT !.inode = x, !.free = f] /\ Submit(order, t)
    BY <1>3 DEF Write
  <2>2. Whole(t) /\ t.imap = disk.imap /\ t.dir = disk.dir
    <3>1. t = [free |-> f, imap |-> disk.imap, dir |-> disk.dir, inode |-> x]
      BY <1>w, <2>1
    <3> QED BY <3>1 DEF Whole
  <2>3. order \in Seq(Parts) /\ Len(order) = 2 /\ order[1] = "inode" /\ order[2] = "free"
    BY DEF Parts
  <2>4. \A part \in Parts : disk[part] = t[part] \/ \E j \in 1..Len(order) : order[j] = part
    BY <2>2, <2>3 DEF Parts
  <2> QED BY <2>1, <2>2, <2>3, <2>4, SubmitIsWhole
<1>4. CASE Delete(n)
  <2> DEFINE order == <<"dir", "free", "imap">>
  <2>1. PICK t : Submit(order, t) /\ Whole(t) /\ t.inode = disk.inode
    <3>1. PICK f, m, t : t = [disk EXCEPT !.free = f, !.imap = m, !.dir[n] = 0]
                         /\ Submit(order, t)
      BY <1>4 DEF Delete
    <3>2. t = [free |-> f, imap |-> m, dir |-> [disk.dir EXCEPT ![n] = 0], inode |-> disk.inode]
      BY <1>w, <3>1
    <3>3. Whole(t) /\ t.inode = disk.inode
      BY <3>2 DEF Whole
    <3> QED BY <3>1, <3>3
  <2>2. order \in Seq(Parts) /\ Len(order) = 3
        /\ order[1] = "dir" /\ order[2] = "free" /\ order[3] = "imap"
    BY DEF Parts
  <2>3. \A part \in Parts : disk[part] = t[part] \/ \E j \in 1..Len(order) : order[j] = part
    BY <2>1, <2>2 DEF Parts
  <2> QED BY <2>1, <2>2, <2>3, SubmitIsWhole
<1>5. CASE \/ CreateExisting(n) \/ CreateNoInode(n) \/ CreateDirFull(n)
           \/ DeleteMissing(n) \/ DeleteUnreached(n)
  <2>1. UNCHANGED <<disk, log, copied, pc>>
    BY <1>5 DEF CreateExisting, CreateNoInode, CreateDirFull, DeleteMissing,
                DeleteUnreached, Return
  <2> QED BY <2>1 DEF LogIsWhole
<1> QED BY <1>1, <1>2, <1>3, <1>4, <1>5

LEMMA CopyIsWhole ==
  ASSUME LogIsWhole, CopyHome
  PROVE  LogIsWhole'
<1>1. /\ log # NoTxn /\ log.order \in Seq(Parts) /\ Whole(log.target) /\ Whole(disk)
      /\ copied \in Nat /\ copied + 1 \in 1..Len(log.order)
      /\ Remaining(disk, log, copied)
  BY DEF LogIsWhole, CopyHome
<1> DEFINE part == log.order[copied + 1]
<1>2. /\ disk' = [disk EXCEPT ![part] = log.target[part]]
      /\ copied' = copied + 1
      /\ UNCHANGED <<log, pc>>
  BY DEF CopyHome
<1>3. part \in Parts
  BY <1>1
<1> HIDE DEF part
<1>4. Whole(disk') /\ \A p \in Parts : disk'[p] = IF p = part THEN log.target[p] ELSE disk[p]
  <2>1. CASE part = "free"
    BY <2>1, <1>1, <1>2 DEF Whole, Parts
  <2>2. CASE part = "imap"
    BY <2>2, <1>1, <1>2 DEF Whole, Parts
  <2>3. CASE part = "dir"
    BY <2>3, <1>1, <1>2 DEF Whole, Parts
  <2>4. CASE part = "inode"
    BY <2>4, <1>1, <1>2 DEF Whole, Parts
  <2> QED BY <2>1, <2>2, <2>3, <2>4, <1>3 DEF Parts
<1>5. Remaining(disk', log', copied')
  <2> SUFFICES ASSUME NEW p \in Parts, disk'[p] # log.target[p]
               PROVE  \E j \in (copied + 1 + 1)..Len(log.order) : log.order[j] = p
    BY <1>2 DEF Remaining
  <2>1. p # part /\ disk[p] # log.target[p]
    BY <1>4
  <2>2. PICK j \in (copied + 1)..Len(log.order) : log.order[j] = p
    BY <2>1, <1>1 DEF Remaining
  <2>3. j # copied + 1
    BY <2>1, <2>2 DEF part
  <2> QED BY <2>2, <2>3, <1>1
<1> QED BY <1>1, <1>2, <1>4, <1>5 DEF LogIsWhole

\* An entry that an old commit block completes.
LEMMA StaleIsWhole ==
  ASSUME LogIsWhole, CrashStaleCommit
  PROVE  LogIsWhole'
<1>1. PICK k \in 0..Len(log.order) :
        log' = [order  |-> log.order,
                target |-> [part \in DOMAIN disk |->
                              IF part \in Range(SubSeq(log.order, 1, k))
                              THEN log.target[part] ELSE disk[part]]]
  BY DEF CrashStaleCommit
<1>2. /\ copied' = 0 /\ pc' = "down" /\ disk' = disk /\ log # NoTxn
      /\ log.order \in Seq(Parts) /\ Whole(disk)
  BY DEF CrashStaleCommit, LogIsWhole
<1>3. DOMAIN disk = Parts
  BY <1>2 DEF Whole, Parts
<1> DEFINE logged == Range(SubSeq(log.order, 1, k))
           t == [part \in Parts |-> IF part \in logged THEN log.target[part] ELSE disk[part]]
<1>4. log'.order = log.order /\ log'.target = t /\ log' # NoTxn
  BY <1>1, <1>3 DEF NoTxn
<1>5. Whole(t)
  BY DEF Whole, Parts
<1>6. ASSUME NEW p \in logged PROVE \E j \in 1..Len(log.order) : log.order[j] = p
  <2>1. Len(SubSeq(log.order, 1, k)) = k
        /\ \A j \in 1..k : SubSeq(log.order, 1, k)[j] = log.order[j]
    BY <1>2
  <2>2. PICK j \in DOMAIN SubSeq(log.order, 1, k) : SubSeq(log.order, 1, k)[j] = p
    BY DEF Range
  <2>3. j \in 1..k
    BY <2>1, <2>2, <1>2
  <2> QED BY <2>1, <2>2, <2>3, <1>2
<1>7. Remaining(disk', log', copied')
  BY <1>2, <1>4, <1>6 DEF Remaining
<1> QED BY <1>2, <1>4, <1>5, <1>7 DEF LogIsWhole

LEMMA WholeStep ==
  ASSUME LogIsWhole, Next
  PROVE  LogIsWhole'
<1>1. CASE Commit
  BY <1>1 DEF Commit, LogIsWhole
<1>2. CASE Retire
  BY <1>2 DEF Retire, LogIsWhole
<1>3. CASE Crash
  <2>1. /\ copied' = 0 /\ pc' = "down" /\ disk' = disk
        /\ log' = IF pc = "logging" THEN NoTxn ELSE log
    BY <1>3 DEF Crash
  <2>2. ASSUME log' # NoTxn
        PROVE  log'.order \in Seq(Parts) /\ Whole(log'.target) /\ Remaining(disk', log', copied')
    <3>1. log' = log /\ log # NoTxn /\ copied \in Nat /\ Len(log.order) \in Nat
          /\ log.order \in Seq(Parts) /\ Whole(log.target) /\ Remaining(disk, log, copied)
      BY <2>1, <2>2 DEF LogIsWhole
    <3>2. Remaining(disk, log, 0)
      BY <3>1 DEF Remaining
    <3> QED BY <2>1, <3>1, <3>2
  <2> QED BY <2>1, <2>2 DEF LogIsWhole
<1>4. CASE Load
  BY <1>4 DEF Load, LogIsWhole
<1> QED BY <1>1, <1>2, <1>3, <1>4, CallIsWhole, CopyIsWhole, StaleIsWhole DEF Next

LEMMA WholeInvariant == Spec => []LogIsWhole
<1>1. Init => LogIsWhole
  BY DEF Init, LogIsWhole, Whole
<1>2. LogIsWhole /\ [Next]_vars => LogIsWhole'
  <2>1. ASSUME LogIsWhole, UNCHANGED vars PROVE LogIsWhole'
    BY <2>1 DEF vars, LogIsWhole
  <2> QED BY <2>1, WholeStep
<1> QED BY <1>1, <1>2, PTL DEF Spec

\* When all is copied home the disk is what the transaction makes of it.
LEMMA RetiredIsDone ==
  ASSUME LogIsWhole, Retire
  PROVE  disk = log.target
<1>1. /\ log # NoTxn /\ log.order \in Seq(Parts) /\ Whole(log.target) /\ Whole(disk)
      /\ copied = Len(log.order) /\ Remaining(disk, log, copied)
  BY DEF LogIsWhole, Retire
<1>2. \A p \in Parts : disk[p] = log.target[p]
  BY <1>1 DEF Remaining
<1>3. /\ disk["free"] = log.target["free"] /\ disk["imap"] = log.target["imap"]
      /\ disk["dir"] = log.target["dir"] /\ disk["inode"] = log.target["inode"]
  BY <1>2 DEF Parts
<1> QED BY <1>3, <1>1 DEF Whole

LEMMA DurableStep ==
  ASSUME LogIsWhole, Next, ~Commit, ~CrashStaleCommit
  PROVE  Durable' = Durable
<1>1. CASE Call
  <2>1. pc \in {"up", "recovered"} /\ disk' = disk
        /\ (pc' = "logging" \/ (pc' = pc /\ log' = log))
    BY <1>1 DEF Call, Create, CreateExisting, CreateNoInode, CreateDirFull, Write, Delete,
      DeleteMissing, DeleteUnreached, Ready, Return, Submit
  <2>2. log = NoTxn
    BY <2>1 DEF LogIsWhole
  <2> QED BY <2>1, <2>2 DEF Durable
<1>2. CASE CopyHome
  <2>1. pc' = pc /\ log' = log /\ pc \in {"copying", "recovering"} /\ log # NoTxn
    BY <1>2 DEF CopyHome, LogIsWhole
  <2> QED BY <2>1 DEF Durable
<1>3. CASE Retire
  <2>1. disk = log.target
    BY <1>3, RetiredIsDone
  <2>2. log' = NoTxn /\ disk' = disk /\ pc \in {"copying", "recovering"}
    BY <1>3 DEF Retire
  <2> QED BY <2>1, <2>2 DEF Durable
<1>4. CASE Crash
  <2>1. /\ disk' = disk /\ pc' = "down"
        /\ log' = IF pc = "logging" THEN NoTxn ELSE log
    BY <1>4 DEF Crash
  <2> QED BY <2>1 DEF Durable
<1>5. CASE Load
  <2>1. /\ disk' = disk /\ log' = log /\ pc \in {"down", "up", "recovered"}
        /\ pc' \in {"up", "recovering"}
    BY <1>5 DEF Load
  <2> QED BY <2>1 DEF Durable
<1> QED BY <1>1, <1>2, <1>3, <1>4, <1>5 DEF Next

\* What a recovery would bring about (the disk, or the target of the transaction in the
\* log) changes only in the step that writes a commit block, or when a crash leaves an
\* old commit block in its place, for every client: otherwise creating, writing and
\* removing a file each happen at once or not at all.
THEOREM CommitsAreAtomic == Spec => OnlyCommitsLast
<1>1. LogIsWhole /\ [Next]_vars => [Durable' # Durable => Commit \/ CrashStaleCommit]_vars
  BY DurableStep
<1> QED BY <1>1, WholeInvariant, PTL DEF Spec, OnlyCommitsLast
=============================================================================
