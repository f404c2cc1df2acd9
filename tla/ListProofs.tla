----------------------------- MODULE ListProofs -----------------------------
(***************************************************************************)
(* Theorems about the linked list and their proofs.                        *)
(*                                                                         *)
(* Whatever is called on the lists of the program, in whatever order, for  *)
(* any number of addresses and any data, the heap is a set of chains that  *)
(* have no node in common and do what the functions promise: what each     *)
(* returns is the list it was given with the one change it is named for,   *)
(* and all the other lists stay what they are.                             *)
(*                                                                         *)
(* The first part is about chains and what one or two pointers written do  *)
(* to them, the next ones about the functions with a loop (swap, clear and *)
(* shift_left, reverse, rotate, unique, from_array), the last about the    *)
(* calls.                                                                  *)
(***************************************************************************)
EXTENDS LinkedList, FiniteSetTheorems, SequenceTheorems, WellFoundedInduction, TLAPS

-----------------------------------------------------------------------------
(* Numbers, loops and chains.                                              *)

\* A set of numbers that is not empty has a least.
LEMMA LeastNumber ==
  ASSUME NEW S \in SUBSET Nat, S # {}
  PROVE  \E x \in S : \A y \in S : x <= y
<1>1. IsWellFoundedOn(OpToRel(<, Nat), Nat)
  BY NatLessThanWellFounded
<1>2. \E x \in S : \A y \in S : ~(<<y, x>> \in OpToRel(<, Nat))
  BY <1>1, WFMin
<1>3. \E x \in S : \A y \in S : ~(y < x)
  BY <1>2 DEF OpToRel
<1> QED BY <1>3

-----------------------------------------------------------------------------
(* Loops.  One that starts with s and whose rounds are given by body is a  *)
(* function of the number of rounds; good says what holds after each.      *)

Rounds(K, s, body, f) == [k \in 0..K |-> IF k = 0 THEN s ELSE body[f[k - 1]]]

\* There is a function that is the rounds of a loop: where the recursive equation failed
\* first, the round before would be wrong.
LEMMA LoopExists ==
  ASSUME NEW s, NEW body, NEW K \in Nat
  PROVE  \E f : f = Rounds(K, s, body, f)
<1> DEFINE without == {k \in Nat : ~\E f : f = Rounds(k, s, body, f)}
<1>1. SUFFICES ASSUME without # {} PROVE FALSE
  OBVIOUS
<1>2. without \in SUBSET Nat
  OBVIOUS
<1>3. \E k \in without : \A l \in without : k <= l
  <2> HIDE DEF without
  <2> QED BY <1>1, <1>2, LeastNumber
<1>4. PICK k \in without : \A l \in without : k <= l
  BY <1>3
<1>5. CASE k = 0
  <2>1. PICK f : f = [i \in 0..0 |-> s]
    OBVIOUS
  <2>2. Rounds(0, s, body, f) = [i \in 0..0 |-> s]
    <3>1. \A i \in 0..0 : i = 0
      OBVIOUS
    <3> QED BY <3>1 DEF Rounds
  <2>3. f = Rounds(0, s, body, f)
    BY <2>1, <2>2
  <2> QED BY <1>4, <1>5, <2>3
<1>6. CASE k # 0
  <2>1. PICK m \in Nat : m = k - 1 /\ k = m + 1
    BY <1>6
  <2>2. m \notin without
    BY <1>4, <2>1
  <2>3. PICK h : h = Rounds(m, s, body, h)
    BY <2>2
  <2>4. PICK f : f = [i \in 0..k |-> IF i <= m THEN h[i] ELSE body[h[m]]]
    OBVIOUS
  <2>5. ASSUME NEW i \in 0..k
        PROVE  f[i] = IF i = 0 THEN s ELSE body[f[i - 1]]
    <3>1. CASE i <= m
      <4>a. \A j \in 0..k : f[j] = IF j <= m THEN h[j] ELSE body[h[m]]
        BY ONLY <2>4
      <4>1. f[i] = h[i] /\ i \in 0..m
        BY <2>1, <4>a, <3>1
      <4>2. h[i] = IF i = 0 THEN s ELSE body[h[i - 1]]
        BY <2>3, <4>1 DEF Rounds
      <4>3. i # 0 => f[i - 1] = h[i - 1]
        BY <2>1, <2>4, <3>1
      <4> QED BY <4>1, <4>2, <4>3
    <3>2. CASE ~(i <= m)
      <4>1. i = k /\ i # 0 /\ i - 1 = m /\ m \in 0..k
        BY <2>1, <3>2
      <4>2. f[i] = body[h[m]]
        BY <2>4, <3>2
      <4>3. f[m] = h[m]
        BY <2>4, <4>1
      <4> QED BY <4>1, <4>2, <4>3
    <3> QED BY <3>1, <3>2
  <2>6. f = [i \in 0..k |-> f[i]]
    BY <2>4
  <2>7. f = Rounds(k, s, body, f)
    BY <2>5, <2>6 DEF Rounds
  <2> QED BY <1>4, <2>7
<1> QED BY <1>5, <1>6

\* What holds at first and is kept by each round holds after any number of them.
LEMMA LoopKeeps ==
  ASSUME NEW K \in Nat, NEW f, NEW good, f[0] \in good[0],
         \A k \in 1..K : f[k - 1] \in good[k - 1] => f[k] \in good[k]
  PROVE  \A k \in 0..K : f[k] \in good[k]
<1> DEFINE bad == {k \in Nat : k <= K /\ f[k] \notin good[k]}
<1>1. SUFFICES ASSUME bad # {} PROVE FALSE
  OBVIOUS
<1>2. bad \in SUBSET Nat
  OBVIOUS
<1>3. \E k \in bad : \A l \in bad : k <= l
  <2> HIDE DEF bad
  <2> QED BY <1>1, <1>2, LeastNumber
<1>4. PICK k \in bad : \A l \in bad : k <= l
  BY <1>3
<1>5. k # 0
  BY <1>4
<1>6. PICK j \in Nat : j = k - 1 /\ k = j + 1
  BY <1>4, <1>5
<1>7. j \notin bad
  BY <1>4, <1>6
<1>8. f[j] \in good[j]
  BY <1>4, <1>6, <1>7
<1>9. k \in 1..K /\ k - 1 = j
  BY <1>4, <1>6
<1> QED BY <1>4, <1>8, <1>9

\* A loop whose rounds are known where it comes to.
LEMMA LoopRuns ==
  ASSUME NEW K \in Nat, NEW s, NEW good, s \in good[0], NEW body,
         \A k \in 1..K : \A x \in good[k - 1] : body[x] \in good[k]
  PROVE  \E f : f = Rounds(K, s, body, f) /\ \A k \in 0..K : f[k] \in good[k]
<1>1. PICK f : f = Rounds(K, s, body, f)
  BY LoopExists
<1>2. \A k \in 0..K : f[k] = IF k = 0 THEN s ELSE body[f[k - 1]]
  BY <1>1 DEF Rounds
<1>3. f[0] \in good[0]
  BY <1>2
<1>4. \A k \in 1..K : f[k - 1] \in good[k - 1] => f[k] \in good[k]
  <2>1. \A k \in 1..K : f[k] = body[f[k - 1]]
    BY <1>2
  <2> QED BY <2>1
<1>5. \A k \in 0..K : f[k] \in good[k]
  BY <1>3, <1>4, LoopKeeps
<1> QED BY <1>1, <1>5

-----------------------------------------------------------------------------
(* The heap as lists.                                                      *)

\* The pointers of both directions are those of the sequence c.
Chain(h, c) ==
  /\ c \in Seq(Addresses) /\ Len(c) > 0
  /\ \A i \in 1..Len(c) :
       /\ h[c[i]] # Free
       /\ h[c[i]].next = IF i < Len(c) THEN c[i + 1] ELSE NULL
       /\ h[c[i]].prev = IF i > 1 THEN c[i - 1] ELSE NULL

\* No node is in two places.
Apart(S) ==
  \A c \in S, d \in S : \A i \in 1..Len(c), j \in 1..Len(d) : c[i] = d[j] => c = d /\ i = j

Within(x, S) == \E c \in S : \E i \in 1..Len(c) : x = c[i]

Heap == [Addresses -> NodeValues \cup {Free}]

\* The lists of a heap, and only they: a node without a predecessor is the first of one.
Chained(h, S) ==
  /\ h \in Heap
  /\ \A c \in S : Chain(h, c)
  /\ Apart(S)
  /\ \A x \in Addresses : h[x] # Free /\ h[x].prev = NULL => \E c \in S : x = c[1]

\* No list is longer than there are addresses.
LEMMA ListFits ==
  ASSUME NEW h, NEW c, Chain(h, c), Apart({c})
  PROVE  Cardinality(Addresses) \in Nat /\ Len(c) \in 1..Cardinality(Addresses)
<1>1. c \in Seq(Addresses) /\ Len(c) \in Nat /\ Len(c) > 0
  BY DEF Chain
<1>2. PICK n \in Nat : n = Len(c)
  BY <1>1
<1>3. IsFiniteSet(Addresses) /\ Cardinality(Addresses) \in Nat
  BY ListAssumption, FS_CardinalityType
<1>4. IsFiniteSet(1..n) /\ Cardinality(1..n) = n
  <2>1. /\ Cardinality(1..n) = IF 1 > n THEN 0 ELSE n - 1 + 1
        /\ IsFiniteSet(1..n)
    BY FS_Interval
  <2> QED BY <2>1
<1>5. PICK f : f = [i \in 1..n |-> c[i]]
  OBVIOUS
<1>6. f \in [1..n -> Addresses]
  BY <1>1, <1>2, <1>5
<1>7. \A i \in 1..n, j \in 1..n : c[i] = c[j] => i = j
  BY <1>2 DEF Apart
<1>8. f \in Injection(1..n, Addresses)
  <2>1. \A i \in 1..n, j \in 1..n : f[i] = f[j] => i = j
    BY <1>5, <1>7
  <2> QED BY <1>6, <2>1, Zenon DEF Injection, IsInjective
<1>9. Cardinality(1..n) <= Cardinality(Addresses)
  BY <1>3, <1>4, <1>8, FS_Injection
<1> QED BY <1>1, <1>2, <1>3, <1>4, <1>9

-----------------------------------------------------------------------------
(* Walking along a list.                                                   *)

\* The nodes of c from i on, n of them if there are so many.
From(c, i, n) == SubSeq(c, i, IF i + n - 1 < Len(c) THEN i + n - 1 ELSE Len(c))

LEMMA OneMore ==
  ASSUME NEW T, NEW c \in Seq(T), NEW i \in 1..Len(c), NEW j \in i..Len(c), j < Len(c)
  PROVE  Append(SubSeq(c, i, j), c[j + 1]) = SubSeq(c, i, j + 1)
<1>1. PICK s : s = SubSeq(c, i, j)
  OBVIOUS
<1>2. s \in Seq(T) /\ Len(s) = j - i + 1 /\ \A k \in 1..(j - i + 1) : s[k] = c[i + k - 1]
  BY <1>1
<1>3. PICK t : t = SubSeq(c, i, j + 1)
  OBVIOUS
<1>4. t \in Seq(T) /\ Len(t) = j - i + 2 /\ \A k \in 1..(j - i + 2) : t[k] = c[i + k - 1]
  BY <1>3
<1>5. PICK e \in T : e = c[j + 1]
  OBVIOUS
<1>6. PICK u : u = Append(s, e)
  OBVIOUS
<1>7. /\ u \in Seq(T) /\ Len(u) = Len(s) + 1 /\ \A k \in 1..Len(s) : u[k] = s[k]
      /\ u[Len(s) + 1] = e
  <2>1. s \in Seq(T) /\ e \in T
    BY <1>2, <1>5
  <2>2. /\ Append(s, e) \in Seq(T) /\ Len(Append(s, e)) = Len(s) + 1
        /\ (\A k \in 1..Len(s) : Append(s, e)[k] = s[k])
        /\ Append(s, e)[Len(s) + 1] = e
    BY <2>1, AppendProperties
  <2> QED BY <1>6, <2>2
<1>8. Len(u) = Len(t) /\ \A k \in 1..Len(u) : u[k] = t[k]
  <2>1. Len(u) = Len(t) /\ Len(s) = j - i + 1 /\ Len(u) = j - i + 2
    BY <1>2, <1>4, <1>7
  <2>2. ASSUME NEW k \in 1..Len(u) PROVE u[k] = t[k]
    <3>1. k \in 1..(j - i + 2)
      BY <2>1, <2>2
    <3>2. CASE k <= j - i + 1
      <4>1. u[k] = s[k] /\ s[k] = c[i + k - 1] /\ t[k] = c[i + k - 1]
        BY <1>2, <1>4, <1>7, <2>1, <3>1, <3>2
      <4> QED BY <4>1
    <3>3. CASE k = j - i + 2
      <4>1. u[k] = e
        BY <1>7, <2>1, <3>3
      <4>2. t[k] = c[i + k - 1] /\ i + k - 1 = j + 1
        BY <1>4, <3>1, <3>3
      <4> QED BY <1>5, <4>1, <4>2
    <3> QED BY <3>1, <3>2, <3>3
  <2> QED BY <2>1, <2>2
<1>9. u = t
  BY <1>4, <1>7, <1>8, SeqEqual
<1> QED BY <1>1, <1>3, <1>5, <1>6, <1>9

\* A step of the walk along a list.
LEMMA StepOn ==
  ASSUME NEW h, NEW c, Chain(h, c), NEW i \in 1..Len(c), NEW j \in i..Len(c)
  PROVE  WalkedOn(h, SubSeq(c, i, j)) = IF j < Len(c) THEN SubSeq(c, i, j + 1) ELSE SubSeq(c, i, j)
<1>1. c \in Seq(Addresses) /\ Len(c) \in Nat /\ \A k \in 1..Len(c) : c[k] \in Addresses
  BY DEF Chain
<1>2. PICK s : s = SubSeq(c, i, j)
  OBVIOUS
<1>3. s \in Seq(Addresses) /\ Len(s) = j - i + 1 /\ \A k \in 1..(j - i + 1) : s[k] = c[i + k - 1]
  BY <1>1, <1>2
<1>4. Last(s) = c[j]
  BY <1>1, <1>3 DEF Last
<1>5. h[Last(s)].next = IF j < Len(c) THEN c[j + 1] ELSE NULL
  BY <1>1, <1>4 DEF Chain
<1>6. CASE j < Len(c)
  <2>1. c[j + 1] \in Addresses /\ c[j + 1] # NULL
    BY <1>1, <1>6, ListAssumption
  <2>2. WalkedOn(h, s) = Append(s, c[j + 1])
    BY <1>5, <1>6, <2>1 DEF WalkedOn
  <2>3. Append(SubSeq(c, i, j), c[j + 1]) = SubSeq(c, i, j + 1)
    BY <1>1, <1>6, OneMore
  <2> QED BY <1>2, <1>6, <2>2, <2>3
<1>7. CASE ~(j < Len(c))
  BY <1>2, <1>5, <1>7 DEF WalkedOn
<1> QED BY <1>6, <1>7

LEMMA WalkOn ==
  ASSUME NEW h, NEW c, Chain(h, c), NEW i \in 1..Len(c), NEW n \in Nat \ {0}
  PROVE  WalkedOn(h, From(c, i, n)) = From(c, i, n + 1)
<1>1. Len(c) \in Nat
  BY DEF Chain
<1>2. CASE i + n - 1 < Len(c)
  <2>1. PICK j \in i..Len(c) : j = i + n - 1
    BY <1>1, <1>2
  <2>2. j < Len(c) /\ From(c, i, n) = SubSeq(c, i, j)
    BY <1>2, <2>1 DEF From
  <2>3. WalkedOn(h, SubSeq(c, i, j)) = SubSeq(c, i, j + 1)
    BY <2>2, StepOn
  <2>4. From(c, i, n + 1) = SubSeq(c, i, j + 1)
    <3>1. (IF i + (n + 1) - 1 < Len(c) THEN i + (n + 1) - 1 ELSE Len(c)) = j + 1
      BY <1>1, <2>1, <2>2
    <3> QED BY <3>1 DEF From
  <2> QED BY <2>2, <2>3, <2>4
<1>3. CASE ~(i + n - 1 < Len(c))
  <2>1. From(c, i, n) = SubSeq(c, i, Len(c))
    BY <1>3 DEF From
  <2>2. From(c, i, n + 1) = SubSeq(c, i, Len(c))
    <3>1. ~(i + (n + 1) - 1 < Len(c))
      BY <1>1, <1>3
    <3> QED BY <3>1 DEF From
  <2>3. Len(c) \in i..Len(c) /\ ~(Len(c) < Len(c))
    BY <1>1
  <2>4. WalkedOn(h, SubSeq(c, i, Len(c))) = SubSeq(c, i, Len(c))
    BY <2>3, StepOn
  <2> QED BY <2>1, <2>2, <2>4
<1> QED BY <1>2, <1>3

OnRounds(h, n, f) ==
  [k \in 0..Cardinality(Addresses) |-> IF k = 0 THEN <<n>> ELSE WalkedOn(h, f[k - 1])]

\* What CHOOSE picks for the rounds of the walk satisfies their equation, since
\* something does.
LEMMA ForwardUnfolds ==
  ASSUME NEW h, NEW n, NEW g, g = OnRounds(h, n, g)
  PROVE  \E f : f = OnRounds(h, n, f) /\ Forward(h, n) = f[Cardinality(Addresses)]
BY Zenon DEF Forward, OnRounds

\* From a node of a list one sees the rest of it.
LEMMA ForwardIs ==
  ASSUME NEW h, NEW c, Chain(h, c), Apart({c}), NEW i \in 1..Len(c)
  PROVE  Forward(h, c[i]) = SubSeq(c, i, Len(c))
<1>1. PICK K \in Nat : K = Cardinality(Addresses)
  BY ListFits
<1>2. Chain(h, c) /\ Len(c) \in 1..K
  BY <1>1, ListFits
<1>3. Cardinality(Addresses) \in Nat /\ c \in Seq(Addresses) /\ c[i] \in Addresses
  BY <1>1, <1>2 DEF Chain
<1> DEFINE good == [k \in 0..K |-> {From(c, i, k + 1)}]
           body == [x \in Seq(Addresses) |-> WalkedOn(h, x)]
<1>4. <<c[i]>> \in good[0]
  <2>1. From(c, i, 1) = SubSeq(c, i, i)
    <3>1. (IF i + 1 - 1 < Len(c) THEN i + 1 - 1 ELSE Len(c)) = i
      BY <1>2
    <3> QED BY <3>1 DEF From
  <2>2. SubSeq(c, i, i) = <<c[i]>>
    <3>1. PICK s : s = SubSeq(c, i, i)
      OBVIOUS
    <3>2. s \in Seq(Addresses) /\ Len(s) = 1 /\ s[1] = c[i]
      BY <1>2, <1>3, <3>1
    <3>3. s = <<s[1]>>
      BY <3>2
    <3> QED BY <3>1, <3>2, <3>3
  <2>3. good[0] = {From(c, i, 1)}
    OBVIOUS
  <2> QED BY <2>1, <2>2, <2>3
<1>5. ASSUME NEW k \in 1..K
      PROVE  /\ From(c, i, k) \in Seq(Addresses)
             /\ WalkedOn(h, From(c, i, k)) = From(c, i, k + 1)
             /\ good[k - 1] = {From(c, i, k)} /\ good[k] = {From(c, i, k + 1)}
  <2>1. WalkedOn(h, From(c, i, k)) = From(c, i, k + 1)
    BY <1>2, WalkOn
  <2>2. From(c, i, k) \in Seq(Addresses)
    <3>1. PICK m \in Int : m = (IF i + k - 1 < Len(c) THEN i + k - 1 ELSE Len(c)) /\ m <= Len(c)
      BY <1>2
    <3>2. SubSeq(c, i, m) \in Seq(Addresses)
      BY <1>2, <1>3, <3>1
    <3> QED BY <3>1, <3>2 DEF From
  <2>3. k - 1 \in 0..K /\ k - 1 + 1 = k
    OBVIOUS
  <2> QED BY <2>1, <2>2, <2>3
<1>6. PICK f : f = Rounds(K, <<c[i]>>, body, f) /\ \A k \in 0..K : f[k] \in good[k]
  <2>1. \A k \in 1..K : \A x \in good[k - 1] : body[x] \in good[k]
    BY <1>5
  <2> HIDE DEF good, body
  <2> QED BY <1>4, <2>1, LoopRuns
<1>7. f = OnRounds(h, c[i], f)
  <2>1. \A k \in 0..K : f[k] = IF k = 0 THEN <<c[i]>> ELSE WalkedOn(h, f[k - 1])
    <3>1. \A k \in 0..K : f[k] = IF k = 0 THEN <<c[i]>> ELSE body[f[k - 1]]
      BY <1>6 DEF Rounds
    <3>2. ASSUME NEW k \in 0..K, k # 0 PROVE body[f[k - 1]] = WalkedOn(h, f[k - 1])
      <4>1. k \in 1..K /\ k - 1 \in 0..K
        BY <3>2
      <4>2. f[k - 1] = From(c, i, k)
        BY <1>5, <1>6, <4>1
      <4> QED BY <1>5, <4>1, <4>2
    <3> QED BY <3>1, <3>2
  <2>2. f = [k \in 0..K |-> f[k]]
    BY <1>6 DEF Rounds
  <2> QED BY <1>1, <2>1, <2>2 DEF OnRounds
<1>8. PICK g : g = OnRounds(h, c[i], g) /\ Forward(h, c[i]) = g[K]
  BY <1>1, <1>7, ForwardUnfolds
<1>9. \A k \in 0..K : g[k] \in good[k]
  <2>1. \A k \in 0..K : g[k] = IF k = 0 THEN <<c[i]>> ELSE WalkedOn(h, g[k - 1])
    BY <1>1, <1>8 DEF OnRounds
  <2>2. g[0] \in good[0]
    BY <1>4, <2>1
  <2>3. \A k \in 1..K : g[k - 1] \in good[k - 1] => g[k] \in good[k]
    BY <1>5, <2>1
  <2> HIDE DEF good
  <2> QED BY <2>2, <2>3, LoopKeeps
<1>10. g[K] = From(c, i, K + 1)
  BY <1>9
<1>11. From(c, i, K + 1) = SubSeq(c, i, Len(c))
  <2>1. ~(i + (K + 1) - 1 < Len(c))
    BY <1>2
  <2> QED BY <2>1 DEF From
<1> QED BY <1>8, <1>10, <1>11

LEMMA ReverseIs ==
  ASSUME NEW T, NEW c \in Seq(T)
  PROVE  /\ Reverse(c) \in Seq(T) /\ Len(Reverse(c)) = Len(c)
         /\ \A i \in 1..Len(c) : Reverse(c)[i] = c[Len(c) - i + 1] /\ Len(c) - i + 1 \in 1..Len(c)
<1>1. PICK n \in Nat : n = Len(c)
  OBVIOUS
<1>2. \A i \in 1..n : n - i + 1 \in 1..n /\ c[n - i + 1] \in T
  BY <1>1
<1>3. PICK r : r = [i \in 1..n |-> c[n - i + 1]]
  OBVIOUS
<1>4. r \in Seq(T) /\ Len(r) = n /\ \A i \in 1..n : r[i] = c[n - i + 1]
  BY <1>2, <1>3
<1>5. Reverse(c) = r
  BY <1>1, <1>3 DEF Reverse
<1> QED BY <1>1, <1>2, <1>4, <1>5

\* With next and prev exchanged in every node a list is its own reverse.
LEMMA TurnedChain ==
  ASSUME NEW h \in Heap, NEW c, Chain(h, c), Apart({c})
  PROVE  Chain(TurnedRound(h), Reverse(c)) /\ Apart({Reverse(c)})
<1>1. c \in Seq(Addresses) /\ Len(c) \in Nat /\ Len(c) > 0 /\ \A i \in 1..Len(c) : c[i] \in Addresses
  BY DEF Chain
<1>2. PICK n \in Nat : n = Len(c)
  BY <1>1
<1>3. PICK r \in Seq(Addresses) : r = Reverse(c)
  BY <1>1, ReverseIs
<1>4. Len(r) = n /\ \A i \in 1..n : r[i] = c[n - i + 1] /\ n - i + 1 \in 1..n
  BY <1>1, <1>2, <1>3, ReverseIs
<1>5. PICK g : g = TurnedRound(h)
  OBVIOUS
<1>6. ASSUME NEW i \in 1..n
      PROVE  /\ g[r[i]] # Free
             /\ g[r[i]].next = IF i < n THEN r[i + 1] ELSE NULL
             /\ g[r[i]].prev = IF i > 1 THEN r[i - 1] ELSE NULL
  <2>1. PICK j \in 1..n : j = n - i + 1 /\ r[i] = c[j]
    BY <1>4
  <2>2. PICK x \in Addresses : x = c[j]
    BY <1>1, <1>2
  <2>3. h[x] \in NodeValues
    BY <1>2, <2>2 DEF Heap, Chain
  <2>4. g[x] = [h[x] EXCEPT !.next = h[x].prev, !.prev = h[x].next]
    BY <1>5, <2>3, ListAssumption DEF TurnedRound
  <2>5. g[x] \in NodeValues /\ g[x].next = h[x].prev /\ g[x].prev = h[x].next
    BY <2>3, <2>4 DEF NodeValues
  <2>6. g[x].next = (IF j > 1 THEN c[j - 1] ELSE NULL) /\ g[x].prev = (IF j < n THEN c[j + 1] ELSE NULL)
    BY <1>2, <2>2, <2>5 DEF Chain
  <2>7. i < n => r[i + 1] = c[j - 1] /\ j > 1
    <3>1. i < n => i + 1 \in 1..n /\ n - (i + 1) + 1 = j - 1 /\ j > 1
      BY <2>1
    <3> QED BY <1>4, <3>1
  <2>8. i > 1 => r[i - 1] = c[j + 1] /\ j < n
    <3>1. i > 1 => i - 1 \in 1..n /\ n - (i - 1) + 1 = j + 1 /\ j < n
      BY <2>1
    <3> QED BY <1>4, <3>1
  <2>9. (i = n => j = 1) /\ (i = 1 => j = n) /\ (i < n \/ i = n) /\ (i > 1 \/ i = 1)
    BY <2>1
  <2>10. g[x] # Free
    BY <2>5, ListAssumption
  <2> QED BY <2>1, <2>2, <2>6, <2>7, <2>8, <2>9, <2>10
<1>7. ASSUME NEW i \in 1..n, NEW j \in 1..n, r[i] = r[j] PROVE i = j
  <2>1. n - i + 1 = n - j + 1
    <3>1. PICK a \in 1..n, b \in 1..n : a = n - i + 1 /\ b = n - j + 1 /\ c[a] = c[b]
      BY <1>4, <1>7
    <3> QED BY <1>2, <3>1 DEF Apart
  <2> QED BY <2>1
<1>8. Chain(g, r)
  BY <1>1, <1>2, <1>4, <1>6 DEF Chain
<1>9. Apart({r})
  BY <1>4, <1>7 DEF Apart
<1> QED BY <1>3, <1>5, <1>8, <1>9

\* The walk back is the walk on in the heap turned round.
LEMMA BackwardIs ==
  ASSUME NEW h \in Heap, NEW c, Chain(h, c), Apart({c}), NEW i \in 1..Len(c)
  PROVE  Backward(h, c[i]) = SubSeq(Reverse(c), Len(c) - i + 1, Len(c))
<1>1. c \in Seq(Addresses)
  BY DEF Chain
<1>2. PICK j \in 1..Len(c) : j = Len(c) - i + 1 /\ i = Len(c) - j + 1
  <2>1. PICK n \in Nat : n = Len(c)
    BY <1>1
  <2>2. n - i + 1 \in 1..n /\ i = n - (n - i + 1) + 1
    BY <2>1
  <2> QED BY <2>1, <2>2
<1>3. PICK r \in Seq(Addresses) : r = Reverse(c)
  BY <1>1, ReverseIs
<1>4. Len(r) = Len(c) /\ r[j] = c[i]
  BY <1>1, <1>2, <1>3, ReverseIs
<1>5. Chain(TurnedRound(h), r) /\ Apart({r})
  BY <1>3, TurnedChain
<1>6. Forward(TurnedRound(h), r[j]) = SubSeq(r, j, Len(r))
  BY <1>4, <1>5, ForwardIs
<1>7. Backward(h, c[i]) = Forward(TurnedRound(h), c[i])
  BY Zenon DEF Backward
<1>8. Forward(TurnedRound(h), c[i]) = SubSeq(r, j, Len(c))
  BY ONLY <1>4, <1>6
<1> QED BY ONLY <1>2, <1>3, <1>7, <1>8

-----------------------------------------------------------------------------
(* What is seen of a heap are its lists.                                   *)

\* What is known of each list of a heap.
LEMMA ChainOf ==
  ASSUME NEW h, NEW S, Chained(h, S), NEW c \in S
  PROVE  /\ h \in Heap /\ Chain(h, c) /\ Apart({c})
         /\ c \in Seq(Addresses) /\ Len(c) \in Nat \ {0}
<1>1. h \in Heap /\ Chain(h, c)
  BY DEF Chained
<1>2. Apart({c})
  BY DEF Chained, Apart
<1>3. c \in Seq(Addresses) /\ Len(c) \in Nat \ {0}
  BY <1>1 DEF Chain
<1> QED BY <1>1, <1>2, <1>3

\* A node of a list.
LEMMA NodeOf ==
  ASSUME NEW h, NEW S, Chained(h, S), NEW c \in S, NEW i \in 1..Len(c)
  PROVE  /\ c[i] \in Addresses /\ c[i] # NULL /\ h[c[i]] \in NodeValues /\ h[c[i]] # Free
         /\ h[c[i]].next = IF i < Len(c) THEN c[i + 1] ELSE NULL
         /\ h[c[i]].prev = IF i > 1 THEN c[i - 1] ELSE NULL
<1>1. h \in Heap /\ Chain(h, c) /\ c \in Seq(Addresses)
  BY ChainOf
<1>2. PICK x \in Addresses : x = c[i]
  BY <1>1
<1>3. h[x] # Free
  BY <1>1, <1>2 DEF Chain
<1>4. x # NULL /\ h[x] \in NodeValues
  BY <1>1, <1>2, <1>3, ListAssumption DEF Heap
<1>5. /\ h[c[i]].next = IF i < Len(c) THEN c[i + 1] ELSE NULL
      /\ h[c[i]].prev = IF i > 1 THEN c[i - 1] ELSE NULL
  BY <1>1 DEF Chain
<1> QED BY <1>2, <1>3, <1>4, <1>5

\* A node is in one list, at one place.
LEMMA ApartIn ==
  ASSUME NEW h, NEW S, Chained(h, S), NEW c \in S, NEW d \in S,
         NEW i \in 1..Len(c), NEW j \in 1..Len(d), c[i] = d[j]
  PROVE  c = d /\ i = j
BY DEF Chained, Apart

LEMMA WholeList ==
  ASSUME NEW T, NEW c \in Seq(T)
  PROVE  SubSeq(c, 1, Len(c)) = c
<1>1. PICK n \in Nat : n = Len(c)
  OBVIOUS
<1>2. PICK s : s = SubSeq(c, 1, n)
  OBVIOUS
<1>3. s \in Seq(T) /\ Len(s) = n /\ \A i \in 1..n : s[i] = c[i]
  BY <1>1, <1>2
<1>4. s = c
  BY <1>1, <1>3, SeqEqual
<1> QED BY <1>1, <1>2, <1>4

\* From any node of a list its ends are found, and so the list.
LEMMA EndsAre ==
  ASSUME NEW h, NEW S, Chained(h, S), NEW c \in S, NEW i \in 1..Len(c)
  PROVE  /\ ListBegin(h, c[i]) = c[1] /\ ListEnd(h, c[i]) = c[Len(c)]
         /\ Forward(h, c[1]) = c /\ All(h, c[i]) = c
         /\ Backward(h, c[Len(c)]) = Reverse(c)
<1>1. PICK n \in Nat \ {0} : n = Len(c)
  BY ChainOf
<1>2. c \in Seq(Addresses) /\ 1 \in 1..n /\ n \in 1..n /\ h \in Heap /\ Chain(h, c) /\ Apart({c})
  BY <1>1, ChainOf
<1>3. PICK r \in Seq(Addresses) : r = Reverse(c)
  BY <1>2, ReverseIs
<1>4. Len(r) = n /\ r[n] = c[1] /\ r[1] = c[n]
  <2>1. Len(r) = n /\ \A k \in 1..n : r[k] = c[n - k + 1]
    BY <1>1, <1>2, <1>3, ReverseIs
  <2> QED BY <1>2, <2>1
<1>5. ListEnd(h, c[i]) = c[n]
  <2>1. PICK s : s = SubSeq(c, i, n)
    OBVIOUS
  <2>2. s \in Seq(Addresses) /\ Len(s) = n - i + 1 /\ s[n - i + 1] = c[n]
    BY <1>1, <1>2, <2>1
  <2>3. Last(s) = c[n]
    BY <2>2 DEF Last
  <2>4. Forward(h, c[i]) = s
    BY <1>1, <1>2, <2>1, ForwardIs
  <2> QED BY <2>3, <2>4, Zenon DEF ListEnd
<1>6. ListBegin(h, c[i]) = c[1]
  <2>1. PICK j \in 1..n : j = n - i + 1
    <3>1. i \in 1..n
      BY <1>1
    <3>2. n - i + 1 \in 1..n
      BY ONLY n \in Nat \ {0}, <3>1
    <3> QED BY <3>2, Zenon
  <2>2. PICK s : s = SubSeq(r, j, n)
    OBVIOUS
  <2>3. s \in Seq(Addresses) /\ Len(s) = n - j + 1 /\ s[n - j + 1] = r[n]
    <3>1. SubSeq(r, j, n) \in Seq(Addresses) /\ Len(SubSeq(r, j, n)) = n - j + 1
      BY ONLY n \in Nat \ {0}, j \in 1..n, r \in Seq(Addresses), <1>4
    <3>2. SubSeq(r, j, n)[n - j + 1] = r[n]
      BY ONLY n \in Nat \ {0}, j \in 1..n, r \in Seq(Addresses), <1>4
    <3> QED BY <2>2, <3>1, <3>2
  <2>4. Last(s) = c[1]
    BY <1>4, <2>3 DEF Last
  <2>5. Backward(h, c[i]) = s
    BY <1>1, <1>2, <1>3, <2>1, <2>2, BackwardIs
  <2> QED BY <2>4, <2>5, Zenon DEF ListBegin
<1>7. Forward(h, c[1]) = c
  <2>1. Forward(h, c[1]) = SubSeq(c, 1, n)
    BY <1>1, <1>2, ForwardIs
  <2> QED BY <1>1, <1>2, <2>1, WholeList
<1>8. All(h, c[i]) = c
  BY <1>6, <1>7, Zenon DEF All
<1>9. Backward(h, c[n]) = Reverse(c)
  <2>1. Backward(h, c[n]) = SubSeq(r, n - n + 1, n)
    BY <1>1, <1>2, <1>3, BackwardIs
  <2>2. n - n + 1 = 1
    OBVIOUS
  <2>3. SubSeq(r, 1, n) = r
    BY <1>3, <1>4, WholeList
  <2> QED BY <1>3, <2>1, <2>2, <2>3
<1> QED BY <1>1, <1>5, <1>6, <1>7, <1>8, <1>9

\* The lists found from the heads in the heap are the lists it is made of.
LEMMA ListsAre ==
  ASSUME NEW h, NEW S, Chained(h, S)
  PROVE  /\ Lists(h) = S /\ ListHeads(h) = {c[1] : c \in S}
         /\ Listed(h) = {x \in Addresses : Within(x, S)}
<1>1. ASSUME NEW c \in S
      PROVE  /\ c[1] \in ListHeads(h) /\ Forward(h, c[1]) = c
             /\ Range(c) = {c[i] : i \in 1..Len(c)} /\ Range(c) \subseteq Addresses
  <2>0. c \in Seq(Addresses) /\ Len(c) \in Nat \ {0}
    BY ChainOf
  <2>1. 1 \in 1..Len(c) /\ DOMAIN c = 1..Len(c)
    BY <2>0
  <2>2. c[1] \in Addresses /\ h[c[1]] # Free /\ h[c[1]].prev = NULL
    BY <2>1, NodeOf
  <2>3. Forward(h, c[1]) = c
    BY <2>1, EndsAre
  <2>4. Range(c) = {c[i] : i \in 1..Len(c)}
    BY <2>1, Zenon DEF Range
  <2>5. \A i \in 1..Len(c) : c[i] \in Addresses
    BY NodeOf
  <2> QED BY <2>2, <2>3, <2>4, <2>5 DEF ListHeads, Allocated
<1>2. ASSUME NEW x \in ListHeads(h) PROVE \E c \in S : x = c[1]
  BY <1>2 DEF ListHeads, Allocated, Chained
<1>3. ListHeads(h) = {c[1] : c \in S}
  BY <1>1, <1>2
<1>4. Lists(h) = S
  <2>1. \A c \in S : c \in Lists(h)
    BY <1>1 DEF Lists
  <2>2. \A c \in Lists(h) : c \in S
    BY <1>1, <1>2 DEF Lists
  <2> QED BY <2>1, <2>2
<1>5. Listed(h) = {x \in Addresses : Within(x, S)}
  <2>1. Listed(h) = UNION {Range(c) : c \in S}
    BY <1>4, Zenon DEF Listed
  <2>2. \A x : x \in Listed(h) <=> x \in Addresses /\ Within(x, S)
    BY <1>1, <2>1 DEF Within
  <2> QED BY <2>2
<1> QED BY <1>3, <1>4, <1>5

-----------------------------------------------------------------------------
(* Lists in place of others.                                               *)

\* What has not been freed or created has its data.
SameData(h, g) == \A x \in Addresses : h[x] # Free /\ g[x] # Free => g[x].data = h[x].data

LEMMA OnlyData ==
  ASSUME NEW h, NEW f, NEW g, SameData(h, f), SameData(f, g),
         \A x \in Addresses : g[x] # Free => f[x] # Free
  PROVE  SameData(h, g)
BY DEF SameData

\* The lists R are taken apart and the lists T made of their nodes and new ones;
\* what is left over is freed or keeps a pointer back.
LEMMA Replaced ==
  ASSUME NEW h, NEW S, Chained(h, S), NEW R \in SUBSET S, NEW T, NEW g \in Heap,
         \A d \in T : Chain(g, d), Apart(T),
         \A x \in Addresses : Within(x, T) => h[x] = Free \/ Within(x, R),
         \A x \in Addresses : ~Within(x, T) /\ ~Within(x, R) => g[x] = h[x],
         \A x \in Addresses : ~Within(x, T) /\ Within(x, R) => g[x] = Free \/ g[x].prev # NULL
  PROVE  Chained(g, (S \ R) \cup T)
<1>1. ASSUME NEW c \in S \ R, NEW i \in 1..Len(c)
      PROVE  /\ c[i] \in Addresses /\ ~Within(c[i], R) /\ ~Within(c[i], T)
             /\ g[c[i]] = h[c[i]] /\ h[c[i]] # Free
  <2>1. c[i] \in Addresses /\ h[c[i]] # Free
    BY NodeOf
  <2>2. ~Within(c[i], R)
    BY ApartIn DEF Within
  <2> QED BY <2>1, <2>2
<1>2. ASSUME NEW c \in S \ R PROVE Chain(g, c)
  <2>1. Chain(h, c)
    BY DEF Chained
  <2>2. c \in Seq(Addresses) /\ Len(c) > 0
    BY <2>1 DEF Chain
  <2>3. ASSUME NEW i \in 1..Len(c)
        PROVE  /\ g[c[i]] # Free
               /\ g[c[i]].next = IF i < Len(c) THEN c[i + 1] ELSE NULL
               /\ g[c[i]].prev = IF i > 1 THEN c[i - 1] ELSE NULL
    <3>1. g[c[i]] = h[c[i]]
      BY <1>1
    <3>2. /\ h[c[i]] # Free
          /\ h[c[i]].next = IF i < Len(c) THEN c[i + 1] ELSE NULL
          /\ h[c[i]].prev = IF i > 1 THEN c[i - 1] ELSE NULL
      BY <2>1 DEF Chain
    <3> QED BY <3>1, <3>2
  <2> QED BY <2>2, <2>3 DEF Chain
<1>3. Apart((S \ R) \cup T)
  <2>1. ASSUME NEW c \in S \ R, NEW d \in T, NEW i \in 1..Len(c), NEW j \in 1..Len(d), c[i] = d[j]
        PROVE  FALSE
    BY <1>1, <2>1 DEF Within
  <2>2. Apart(S \ R)
    BY DEF Chained, Apart
  <2> QED BY <2>1, <2>2 DEF Apart
<1>4. ASSUME NEW x \in Addresses, g[x] # Free, g[x].prev = NULL
      PROVE  \E c \in (S \ R) \cup T : x = c[1]
  <2>1. CASE Within(x, T)
    <3>1. PICK d \in T : \E i \in 1..Len(d) : x = d[i]
      BY <2>1 DEF Within
    <3>2. PICK i \in 1..Len(d) : x = d[i]
      BY <3>1
    <3>3. Chain(g, d) /\ d \in Seq(Addresses) /\ Len(d) \in Nat
      BY DEF Chain
    <3>4. g[x].prev = IF i > 1 THEN d[i - 1] ELSE NULL
      BY <3>2, <3>3 DEF Chain
    <3>5. CASE i > 1
      <4>1. d[i - 1] \in Addresses
        BY <3>3, <3>5
      <4> QED BY <1>4, <3>4, <3>5, <4>1, ListAssumption
    <3>6. CASE ~(i > 1)
      BY <3>2, <3>3, <3>6
    <3> QED BY <3>5, <3>6
  <2>2. CASE ~Within(x, T) /\ Within(x, R)
    BY <1>4, <2>2
  <2>3. CASE ~Within(x, T) /\ ~Within(x, R)
    <3>1. g[x] = h[x]
      BY <2>3
    <3>2. PICK c \in S : x = c[1]
      BY <1>4, <3>1 DEF Chained
    <3>3. 1 \in 1..Len(c)
      <4>1. Len(c) \in Nat \ {0}
        BY ChainOf
      <4> QED BY <4>1
    <3>4. c \notin R
      BY <2>3, <3>2, <3>3 DEF Within
    <3> QED BY <3>2, <3>4
  <2> QED BY <2>1, <2>2, <2>3
<1>5. \A c \in (S \ R) \cup T : Chain(g, c)
  BY <1>2
<1> QED BY <1>3, <1>4, <1>5 DEF Chained

-----------------------------------------------------------------------------
(* Pointers.                                                               *)

Pointees == Addresses \cup {NULL}

\* What the two assignments to pointers change, and what Join does with both.
LEMMA WithPrevIs ==
  ASSUME NEW h \in Heap, NEW n \in Pointees, NEW m \in Pointees, m # NULL => h[m] # Free
  PROVE  /\ WithPrev(h, m, n) \in Heap
         /\ \A x \in Addresses : x # m => WithPrev(h, m, n)[x] = h[x]
         /\ m # NULL => /\ WithPrev(h, m, n)[m] \in NodeValues
                        /\ WithPrev(h, m, n)[m].data = h[m].data
                        /\ WithPrev(h, m, n)[m].next = h[m].next
                        /\ WithPrev(h, m, n)[m].prev = n
<1>1. CASE m = NULL
  BY <1>1, ListAssumption DEF WithPrev
<1>2. CASE m # NULL
  <2>1. m \in Addresses /\ h[m] \in NodeValues
    BY <1>2 DEF Pointees, Heap
  <2>2. PICK v : v = [h[m] EXCEPT !.prev = n]
    OBVIOUS
  <2>3. v \in NodeValues /\ v.data = h[m].data /\ v.next = h[m].next /\ v.prev = n
    BY <2>1, <2>2 DEF NodeValues, Pointees
  <2>4. WithPrev(h, m, n) = [h EXCEPT ![m] = v]
    BY <1>2, <2>2 DEF WithPrev
  <2>5. PICK g : g = [h EXCEPT ![m] = v]
    OBVIOUS
  <2>6. g \in Heap /\ g[m] = v /\ \A x \in Addresses : x # m => g[x] = h[x]
    BY <2>1, <2>3, <2>5 DEF Heap
  <2> QED BY <2>3, <2>4, <2>5, <2>6
<1> QED BY <1>1, <1>2

LEMMA WithNextIs ==
  ASSUME NEW h \in Heap, NEW n \in Pointees, NEW m \in Pointees, n # NULL => h[n] # Free
  PROVE  /\ WithNext(h, n, m) \in Heap
         /\ \A x \in Addresses : x # n => WithNext(h, n, m)[x] = h[x]
         /\ n # NULL => /\ WithNext(h, n, m)[n] \in NodeValues
                        /\ WithNext(h, n, m)[n].data = h[n].data
                        /\ WithNext(h, n, m)[n].prev = h[n].prev
                        /\ WithNext(h, n, m)[n].next = m
<1>1. CASE n = NULL
  BY <1>1, ListAssumption DEF WithNext
<1>2. CASE n # NULL
  <2>1. n \in Addresses /\ h[n] \in NodeValues
    BY <1>2 DEF Pointees, Heap
  <2>2. PICK v : v = [h[n] EXCEPT !.next = m]
    OBVIOUS
  <2>3. v \in NodeValues /\ v.data = h[n].data /\ v.prev = h[n].prev /\ v.next = m
    BY <2>1, <2>2 DEF NodeValues, Pointees
  <2>4. WithNext(h, n, m) = [h EXCEPT ![n] = v]
    BY <1>2, <2>2 DEF WithNext
  <2>5. PICK g : g = [h EXCEPT ![n] = v]
    OBVIOUS
  <2>6. g \in Heap /\ g[n] = v /\ \A x \in Addresses : x # n => g[x] = h[x]
    BY <2>1, <2>3, <2>5 DEF Heap
  <2> QED BY <2>3, <2>4, <2>5, <2>6
<1> QED BY <1>1, <1>2

\* In g the node n is followed by m, otherwise it is h; one of them may be missing.
Joined(h, g, n, m) ==
  /\ g \in Heap
  /\ \A x \in Addresses :
       /\ x # n /\ x # m => g[x] = h[x]
       /\ h[x] # Free => /\ g[x] # Free /\ g[x].data = h[x].data
                         /\ g[x].next = IF x = n THEN m ELSE h[x].next
                         /\ g[x].prev = IF x = m THEN n ELSE h[x].prev

LEMMA JoinIs ==
  ASSUME NEW h \in Heap, NEW n \in Pointees, NEW m \in Pointees,
         n # NULL => h[n] # Free, m # NULL => h[m] # Free
  PROVE  Joined(h, Join(h, n, m), n, m)
<1>1. PICK f : f = WithPrev(h, m, n)
  OBVIOUS
<1>2. /\ f \in Heap
      /\ \A x \in Addresses : x # m => f[x] = h[x]
      /\ m # NULL => /\ f[m] \in NodeValues /\ f[m].data = h[m].data
                     /\ f[m].next = h[m].next /\ f[m].prev = n
  BY <1>1, WithPrevIs
<1>3. n # NULL => f[n] # Free
  BY <1>2, ListAssumption DEF Pointees
<1>4. PICK g : g = WithNext(f, n, m)
  OBVIOUS
<1>5. /\ g \in Heap
      /\ \A x \in Addresses : x # n => g[x] = f[x]
      /\ n # NULL => /\ g[n] \in NodeValues /\ g[n].data = f[n].data
                     /\ g[n].prev = f[n].prev /\ g[n].next = m
  BY <1>2, <1>3, <1>4, WithNextIs
<1>6. Join(h, n, m) = g
  BY <1>1, <1>4 DEF Join
<1>7. ASSUME NEW x \in Addresses, h[x] # Free
      PROVE  /\ g[x] # Free /\ g[x].data = h[x].data
             /\ g[x].next = IF x = n THEN m ELSE h[x].next
             /\ g[x].prev = IF x = m THEN n ELSE h[x].prev
  <2>1. x # NULL
    BY ListAssumption
  <2>2. /\ f[x] # Free /\ f[x].data = h[x].data
        /\ f[x].next = h[x].next /\ f[x].prev = IF x = m THEN n ELSE h[x].prev
    <3>1. CASE x = m
      BY <1>2, <2>1, <3>1, ListAssumption
    <3>2. CASE x # m
      BY <1>2, <1>7, <3>2
    <3> QED BY <3>1, <3>2
  <2>3. CASE x = n
    BY <1>5, <2>1, <2>2, <2>3, ListAssumption
  <2>4. CASE x # n
    BY <1>5, <2>2, <2>4
  <2> QED BY <2>3, <2>4
<1>8. \A x \in Addresses : x # n /\ x # m => g[x] = h[x]
  BY <1>2, <1>5
<1> QED BY <1>5, <1>6, <1>7, <1>8 DEF Joined

-----------------------------------------------------------------------------
(* One node more.                                                          *)

\* g has d where h has c.
Takes(h, c, g, d) ==
  /\ \A j \in 1..Len(d) : h[d[j]] = Free \/ \E i \in 1..Len(c) : d[j] = c[i]
  /\ \A x \in Addresses : \/ g[x] = h[x]
                          \/ \E j \in 1..Len(d) : x = d[j]
                          \/ \E i \in 1..Len(c) : x = c[i]
  /\ \A i \in 1..Len(c) : \/ \E j \in 1..Len(d) : c[i] = d[j]
                          \/ g[c[i]] = Free
                          \/ g[c[i]].prev # NULL

\* One list takes the place of another, or is removed.
LEMMA OneReplaced ==
  ASSUME NEW h, NEW S, Chained(h, S), NEW c \in S, NEW g \in Heap, NEW d, Chain(g, d), Apart({d}),
         Takes(h, c, g, d)
  PROVE  Chained(g, (S \ {c}) \cup {d})
<1>1. \A x : Within(x, {c}) <=> \E i \in 1..Len(c) : x = c[i]
  BY Zenon DEF Within
<1>2. \A x : Within(x, {d}) <=> \E j \in 1..Len(d) : x = d[j]
  BY Zenon DEF Within
<1>3. ASSUME NEW x \in Addresses, Within(x, {d}) PROVE h[x] = Free \/ Within(x, {c})
  <2>1. PICK j \in 1..Len(d) : x = d[j]
    BY <1>2, <1>3
  <2>2. h[x] = Free \/ \E i \in 1..Len(c) : x = c[i]
    BY <2>1 DEF Takes
  <2> QED BY <1>1, <2>2
<1>4. \A x \in Addresses : ~Within(x, {d}) /\ ~Within(x, {c}) => g[x] = h[x]
  BY <1>1, <1>2 DEF Takes
<1>5. ASSUME NEW x \in Addresses, ~Within(x, {d}), Within(x, {c})
      PROVE  g[x] = Free \/ g[x].prev # NULL
  <2>1. PICK i \in 1..Len(c) : x = c[i]
    BY <1>1, <1>5
  <2>2. ~\E j \in 1..Len(d) : c[i] = d[j]
    BY <1>2, <1>5, <2>1
  <2> QED BY <2>1, <2>2 DEF Takes
<1>6. {c} \in SUBSET S /\ \A b \in {d} : Chain(g, b)
  OBVIOUS
<1> QED BY <1>3, <1>4, <1>5, <1>6, Replaced

LEMMA OneRemoved ==
  ASSUME NEW h, NEW S, Chained(h, S), NEW c \in S, NEW g \in Heap,
         \A x \in Addresses : g[x] = h[x] \/ \E i \in 1..Len(c) : x = c[i],
         \A i \in 1..Len(c) : g[c[i]] = Free
  PROVE  Chained(g, S \ {c})
<1>1. \A x : Within(x, {c}) <=> \E i \in 1..Len(c) : x = c[i]
  BY Zenon DEF Within
<1>2. \A x : ~Within(x, {})
  BY DEF Within
<1>3. Apart({}) /\ {c} \in SUBSET S /\ \A b \in {} : Chain(g, b)
  BY DEF Apart
<1>4. \A x \in Addresses : ~Within(x, {}) /\ ~Within(x, {c}) => g[x] = h[x]
  BY <1>1
<1>5. \A x \in Addresses : ~Within(x, {}) /\ Within(x, {c}) => g[x] = Free \/ g[x].prev # NULL
  BY <1>1
<1>6. Chained(g, (S \ {c}) \cup {})
  BY <1>2, <1>3, <1>4, <1>5, Replaced
<1>7. (S \ {c}) \cup {} = S \ {c}
  OBVIOUS
<1> QED BY <1>6, <1>7

\* A list of one node.
LEMMA Single ==
  ASSUME NEW x \in Addresses
  PROVE  <<x>> \in Seq(Addresses) /\ Len(<<x>>) = 1 /\ <<x>>[1] = x /\ Apart({<<x>>})
<1>1. <<x>> \in Seq(Addresses) /\ Len(<<x>>) = 1 /\ <<x>>[1] = x
  OBVIOUS
<1>2. \A i \in 1..1, j \in 1..1 : i = j
  OBVIOUS
<1> QED BY <1>1, <1>2 DEF Apart

\* A new node is a list of its own.
LEMMA Created ==
  ASSUME NEW h, NEW S, Chained(h, S), NEW new \in Addresses, h[new] = Free, NEW e \in Elements
  PROVE  /\ Chained(Create(h, new, e), S \cup {<<new>>}) /\ SameData(h, Create(h, new, e))
         /\ <<new>> \notin S
         /\ \A x \in Addresses : x # new => Create(h, new, e)[x] = h[x]
<1>1. PICK v : v = [data |-> e, next |-> NULL, prev |-> NULL]
  OBVIOUS
<1>2. v \in NodeValues /\ v.data = e /\ v.next = NULL /\ v.prev = NULL /\ v # Free
  BY <1>1, ListAssumption DEF NodeValues
<1>3. PICK g : g = Create(h, new, e)
  OBVIOUS
<1>4. h \in Heap
  BY DEF Chained
<1>5. g \in Heap /\ g[new] = v /\ \A x \in Addresses : x # new => g[x] = h[x]
  <2>1. g = [h EXCEPT ![new] = v]
    BY <1>1, <1>3 DEF Create
  <2> QED BY <1>2, <1>4, <2>1 DEF Heap
<1>6. PICK c : c = <<new>>
  OBVIOUS
<1>7. c \in Seq(Addresses) /\ Len(c) = 1 /\ c[1] = new /\ Apart({c})
  BY <1>6, Single
<1>8. Chain(g, c)
  <2>1. \A i \in 1..1 : i = 1
    OBVIOUS
  <2> QED BY <1>2, <1>5, <1>7, <2>1 DEF Chain
<1>9. \A x : Within(x, {c}) <=> x = new
  <2>1. \A x : Within(x, {c}) <=> \E i \in 1..1 : x = c[i]
    BY <1>7, Zenon DEF Within
  <2>2. \A i : i \in 1..1 <=> i = 1
    OBVIOUS
  <2> QED BY <1>7, <2>1, <2>2
<1>10. Chained(g, (S \ {}) \cup {c})
  <2>1. \A x \in Addresses : ~Within(x, {})
    BY DEF Within
  <2>2. \A x \in Addresses : ~Within(x, {c}) /\ ~Within(x, {}) => g[x] = h[x]
    BY <1>5, <1>9
  <2>3. {} \in SUBSET S /\ \A d \in {c} : Chain(g, d)
    BY <1>8
  <2>4. \A x \in Addresses : Within(x, {c}) => h[x] = Free \/ Within(x, {})
    BY <1>9
  <2>5. \A x \in Addresses : ~Within(x, {c}) /\ Within(x, {}) => g[x] = Free \/ g[x].prev # NULL
    BY <2>1
  <2> QED BY <1>5, <1>7, <2>2, <2>3, <2>4, <2>5, Replaced
<1>11. (S \ {}) \cup {c} = S \cup {c}
  OBVIOUS
<1>12. SameData(h, g)
  BY <1>5 DEF SameData
<1>13. c \notin S
  <2>1. ASSUME c \in S PROVE FALSE
    <3>1. 1 \in 1..Len(c)
      BY <1>7
    <3>2. h[c[1]] # Free
      BY <2>1, <3>1, NodeOf
    <3> QED BY <1>7, <3>2
  <2> QED BY <2>1
<1> QED BY <1>3, <1>5, <1>6, <1>10, <1>11, <1>12, <1>13

\* Two lists become one.
LEMMA JoinedLists ==
  ASSUME NEW h, NEW S, Chained(h, S), NEW c \in S, NEW d \in S, c # d
  PROVE  /\ Chained(Join(h, c[Len(c)], d[1]), (S \ {c, d}) \cup {c \o d})
         /\ SameData(h, Join(h, c[Len(c)], d[1]))
         /\ \A x \in Addresses : Join(h, c[Len(c)], d[1])[x] = Free <=> h[x] = Free
<1>1. h \in Heap /\ c \in Seq(Addresses) /\ d \in Seq(Addresses)
  BY ChainOf
<1>2. PICK m \in Nat \ {0} : m = Len(c)
  BY ChainOf
<1>3. PICK n \in Nat \ {0} : n = Len(d)
  BY ChainOf
<1>4. m \in 1..m /\ 1 \in 1..n
  OBVIOUS
<1>5. c[m] \in Addresses /\ h[c[m]] # Free /\ d[1] \in Addresses /\ h[d[1]] # Free
  BY <1>2, <1>3, <1>4, NodeOf
<1>6. PICK g : g = Join(h, c[m], d[1])
  OBVIOUS
<1>7. Joined(h, g, c[m], d[1])
  BY <1>1, <1>5, <1>6, JoinIs DEF Pointees
<1>8. PICK e : e = c \o d
  OBVIOUS
<1>9. e \in Seq(Addresses) /\ Len(e) = m + n
      /\ \A i \in 1..(m + n) : e[i] = IF i <= m THEN c[i] ELSE d[i - m]
  BY <1>1, <1>2, <1>3, <1>8, ConcatProperties
<1>10. ASSUME NEW i \in 1..m
       PROVE  /\ g[c[i]] # Free
              /\ g[c[i]].next = IF i < m THEN c[i + 1] ELSE d[1]
              /\ g[c[i]].prev = IF i > 1 THEN c[i - 1] ELSE NULL
  <2>1. /\ c[i] \in Addresses /\ h[c[i]] # Free
        /\ h[c[i]].next = IF i < m THEN c[i + 1] ELSE NULL
        /\ h[c[i]].prev = IF i > 1 THEN c[i - 1] ELSE NULL
    BY <1>2, NodeOf
  <2>2. (c[i] = c[m] <=> i = m) /\ c[i] # d[1]
    BY <1>2, <1>3, <1>4, ApartIn
  <2> QED BY <1>7, <2>1, <2>2 DEF Joined
<1>11. ASSUME NEW i \in 1..n
       PROVE  /\ g[d[i]] # Free
              /\ g[d[i]].next = IF i < n THEN d[i + 1] ELSE NULL
              /\ g[d[i]].prev = IF i > 1 THEN d[i - 1] ELSE c[m]
  <2>1. /\ d[i] \in Addresses /\ h[d[i]] # Free
        /\ h[d[i]].next = IF i < n THEN d[i + 1] ELSE NULL
        /\ h[d[i]].prev = IF i > 1 THEN d[i - 1] ELSE NULL
    BY <1>3, NodeOf
  <2>2. (d[i] = d[1] <=> i = 1) /\ d[i] # c[m]
    BY <1>2, <1>3, <1>4, ApartIn
  <2> QED BY <1>7, <2>1, <2>2 DEF Joined
<1>12. ASSUME NEW i \in 1..(m + n)
       PROVE  /\ g[e[i]] # Free
              /\ g[e[i]].next = IF i < m + n THEN e[i + 1] ELSE NULL
              /\ g[e[i]].prev = IF i > 1 THEN e[i - 1] ELSE NULL
  <2>1. CASE i <= m
    <3>1. i \in 1..m /\ e[i] = c[i]
      BY <1>9, <2>1
    <3>2. (i < m => e[i + 1] = c[i + 1]) /\ (i = m => e[i + 1] = d[1]) /\ i < m + n
      BY <1>9, <2>1
    <3>3. i > 1 => e[i - 1] = c[i - 1]
      BY <1>9, <2>1
    <3> QED BY <1>10, <3>1, <3>2, <3>3
  <2>2. CASE ~(i <= m)
    <3>1. PICK j \in 1..n : j = i - m
      BY <2>2
    <3>2. e[i] = d[j] /\ i > 1
      BY <1>9, <2>2, <3>1
    <3>3. (j < n <=> i < m + n) /\ (j < n => e[i + 1] = d[j + 1])
      BY <1>9, <2>2, <3>1
    <3>4. (j > 1 => e[i - 1] = d[j - 1]) /\ (~(j > 1) => e[i - 1] = c[m])
      BY <1>9, <2>2, <3>1
    <3> QED BY <1>11, <3>1, <3>2, <3>3, <3>4
  <2> QED BY <2>1, <2>2
<1>13. Chain(g, e)
  BY <1>9, <1>12 DEF Chain
<1>14. \A x : Within(x, {e}) <=> Within(x, {c, d})
  <2>1. \A x : Within(x, {e}) <=> \E i \in 1..(m + n) : x = e[i]
    BY <1>9, Zenon DEF Within
  <2>2. \A x : Within(x, {c, d}) <=> (\E i \in 1..m : x = c[i]) \/ (\E i \in 1..n : x = d[i])
    BY <1>2, <1>3, Zenon DEF Within
  <2>3. ASSUME NEW i \in 1..m PROVE i \in 1..(m + n) /\ c[i] = e[i]
    BY <1>9
  <2>4. ASSUME NEW i \in 1..n PROVE m + i \in 1..(m + n) /\ d[i] = e[m + i]
    BY <1>9
  <2>5. ASSUME NEW i \in 1..(m + n)
        PROVE  (\E j \in 1..m : e[i] = c[j]) \/ (\E j \in 1..n : e[i] = d[j])
    <3>1. CASE i <= m
      BY <1>9, <3>1
    <3>2. CASE ~(i <= m)
      <4>1. i - m \in 1..n /\ e[i] = d[i - m]
        BY <1>9, <3>2
      <4> QED BY <4>1
    <3> QED BY <3>1, <3>2
  <2>6. ASSUME NEW x, Within(x, {e}) PROVE Within(x, {c, d})
    BY <2>1, <2>2, <2>5, <2>6
  <2>7. ASSUME NEW x, Within(x, {c, d}) PROVE Within(x, {e})
    BY <2>1, <2>2, <2>3, <2>4, <2>7
  <2> QED BY <2>6, <2>7
<1>15. Apart({e})
  <2>1. ASSUME NEW i \in 1..(m + n), NEW j \in 1..(m + n), e[i] = e[j] PROVE i = j
    <3>1. CASE i <= m /\ j <= m
      <4>1. i \in 1..m /\ j \in 1..m /\ c[i] = c[j]
        BY <1>9, <2>1, <3>1
      <4> QED BY <1>2, <4>1, ApartIn
    <3>2. CASE i <= m /\ ~(j <= m)
      <4>1. i \in 1..m /\ j - m \in 1..n /\ c[i] = d[j - m]
        BY <1>9, <2>1, <3>2
      <4> QED BY <1>2, <1>3, <4>1, ApartIn
    <3>3. CASE ~(i <= m) /\ j <= m
      <4>1. j \in 1..m /\ i - m \in 1..n /\ c[j] = d[i - m]
        BY <1>9, <2>1, <3>3
      <4> QED BY <1>2, <1>3, <4>1, ApartIn
    <3>4. CASE ~(i <= m) /\ ~(j <= m)
      <4>1. PICK a \in 1..n, b \in 1..n : a = i - m /\ b = j - m
        BY <3>4
      <4>2. d[a] = d[b]
        BY <1>9, <2>1, <3>4, <4>1
      <4>3. a = b
        BY <1>3, <4>2, ApartIn
      <4> QED BY <4>1, <4>3
    <3> QED BY <3>1, <3>2, <3>3, <3>4
  <2> QED BY <1>9, <2>1 DEF Apart
<1>16. \A x \in Addresses : ~Within(x, {c, d}) => g[x] = h[x]
  <2>1. Within(c[m], {c, d}) /\ Within(d[1], {c, d})
    BY <1>2, <1>3, <1>4 DEF Within
  <2> QED BY <1>7, <2>1 DEF Joined
<1>17. g \in Heap
  BY <1>7 DEF Joined
<1>18. Chained(g, (S \ {c, d}) \cup {e})
  <2>1. {c, d} \in SUBSET S /\ \A b \in {e} : Chain(g, b)
    BY <1>13
  <2> QED BY <1>14, <1>15, <1>16, <1>17, <2>1, Replaced
<1>19. SameData(h, g) /\ \A x \in Addresses : g[x] = Free <=> h[x] = Free
  BY <1>5, <1>7 DEF SameData, Joined
<1> QED BY <1>2, <1>6, <1>8, <1>18, <1>19

\* A list with one node more at an end.
FreeAsBefore(h, g, n) == \A x \in Addresses : g[x] = Free <=> h[x] = Free /\ x # n

\* push_back, push_front and insert.
LEMMA PushedBack ==
  ASSUME NEW h, NEW S, Chained(h, S), NEW c \in S, NEW k \in 1..Len(c),
         NEW new \in Addresses, h[new] = Free, NEW e \in Elements
  PROVE  /\ Chained(PushBack(h, c[k], new, e), (S \ {c}) \cup {Append(c, new)})
         /\ SameData(h, PushBack(h, c[k], new, e))
         /\ FreeAsBefore(h, PushBack(h, c[k], new, e), new)
<1>1. PICK f : f = Create(h, new, e)
  OBVIOUS
<1>2. PICK d : d = <<new>>
  OBVIOUS
<1>3. /\ Chained(f, S \cup {d}) /\ SameData(h, f) /\ d \notin S
      /\ \A x \in Addresses : x # new => f[x] = h[x]
  BY <1>1, <1>2, Created
<1>4. d \in Seq(Addresses) /\ Len(d) = 1 /\ d[1] = new
  BY <1>2, Single
<1>5. PICK g : g = Join(f, c[Len(c)], d[1])
  OBVIOUS
<1>6. /\ Chained(g, ((S \cup {d}) \ {c, d}) \cup {c \o d}) /\ SameData(f, g)
      /\ \A x \in Addresses : g[x] = Free <=> f[x] = Free
  <2>1. PICK Q : Q = S \cup {d}
    OBVIOUS
  <2>2. c \in Q /\ d \in Q /\ c # d /\ Chained(f, Q)
    BY <1>3, <2>1
  <2>3. /\ Chained(g, (Q \ {c, d}) \cup {c \o d}) /\ SameData(f, g)
        /\ \A x \in Addresses : g[x] = Free <=> f[x] = Free
    <3>1. /\ Chained(Join(f, c[Len(c)], d[1]), (Q \ {c, d}) \cup {c \o d})
          /\ SameData(f, Join(f, c[Len(c)], d[1]))
          /\ \A x \in Addresses : Join(f, c[Len(c)], d[1])[x] = Free <=> f[x] = Free
      BY <2>2, JoinedLists
    <3> QED BY <1>5, <3>1
  <2> QED BY <2>1, <2>3
<1>7. ((S \cup {d}) \ {c, d}) \cup {c \o d} = (S \ {c}) \cup {Append(c, new)}
  <2>1. c \o d = Append(c, new)
    <3>1. c \in Seq(Addresses)
      BY ChainOf
    <3> QED BY <1>2, <3>1, AppendIsConcat
  <2> QED BY <1>3, <2>1
<1>8. PushBack(h, c[k], new, e) = g
  <2>1. ListEnd(h, c[k]) = c[Len(c)]
    BY EndsAre
  <2> QED BY <1>1, <1>4, <1>5, <2>1 DEF PushBack
<1>9. f[new] # Free
  <2>1. PICK Q : Q = S \cup {d}
    OBVIOUS
  <2>2. 1 \in 1..Len(d) /\ d \in Q /\ Chained(f, Q)
    BY <1>3, <1>4, <2>1
  <2>3. f[d[1]] # Free
    BY <2>2, NodeOf
  <2> QED BY <1>4, <2>3
<1>10. SameData(h, g) /\ \A x \in Addresses : g[x] = Free <=> h[x] = Free /\ x # new
  BY <1>3, <1>6, <1>9, OnlyData
<1> QED BY <1>6, <1>7, <1>8, <1>10 DEF FreeAsBefore

LEMMA PushedFront ==
  ASSUME NEW h, NEW S, Chained(h, S), NEW c \in S, NEW k \in 1..Len(c),
         NEW new \in Addresses, h[new] = Free, NEW e \in Elements
  PROVE  /\ Chained(PushFront(h, c[k], new, e), (S \ {c}) \cup {<<new>> \o c})
         /\ SameData(h, PushFront(h, c[k], new, e))
<1>1. PICK f : f = Create(h, new, e)
  OBVIOUS
<1>2. PICK d : d = <<new>>
  OBVIOUS
<1>3. Chained(f, S \cup {d}) /\ SameData(h, f) /\ d \notin S
  BY <1>1, <1>2, Created
<1>4. d \in Seq(Addresses) /\ Len(d) = 1 /\ d[1] = new
  BY <1>2, Single
<1>5. PICK g : g = Join(f, d[Len(d)], c[1])
  OBVIOUS
<1>6. /\ Chained(g, ((S \cup {d}) \ {d, c}) \cup {d \o c}) /\ SameData(f, g)
      /\ \A x \in Addresses : g[x] = Free <=> f[x] = Free
  <2>1. PICK Q : Q = S \cup {d}
    OBVIOUS
  <2>2. c \in Q /\ d \in Q /\ d # c /\ Chained(f, Q)
    BY <1>3, <2>1
  <2>3. /\ Chained(g, (Q \ {d, c}) \cup {d \o c}) /\ SameData(f, g)
        /\ \A x \in Addresses : g[x] = Free <=> f[x] = Free
    <3>1. /\ Chained(Join(f, d[Len(d)], c[1]), (Q \ {d, c}) \cup {d \o c})
          /\ SameData(f, Join(f, d[Len(d)], c[1]))
          /\ \A x \in Addresses : Join(f, d[Len(d)], c[1])[x] = Free <=> f[x] = Free
      BY <2>2, JoinedLists
    <3> QED BY <1>5, <3>1
  <2> QED BY <2>1, <2>3
<1>7. ((S \cup {d}) \ {d, c}) \cup {d \o c} = (S \ {c}) \cup {d \o c}
  BY <1>3
<1>8. PushFront(h, c[k], new, e) = g
  <2>1. ListBegin(h, c[k]) = c[1]
    BY EndsAre
  <2> QED BY <1>1, <1>4, <1>5, <2>1 DEF PushFront
<1>9. SameData(h, g)
  BY <1>3, <1>6, OnlyData
<1> QED BY <1>2, <1>6, <1>7, <1>8, <1>9

LEMMA InsertAtIs ==
  ASSUME NEW c, NEW i, NEW x
  PROVE  InsertAt(c, i, x) = SubSeq(c, 1, i - 1) \o <<x>> \o SubSeq(c, i, Len(c))
BY DEF InsertAt

\* A sequence with one element more in between, or less.
LEMMA PutIn ==
  ASSUME NEW T, NEW c \in Seq(T), NEW i \in 1..Len(c), NEW x \in T
  PROVE  /\ InsertAt(c, i + 1, x) \in Seq(T) /\ Len(InsertAt(c, i + 1, x)) = Len(c) + 1
         /\ \A j \in 1..(Len(c) + 1) :
              InsertAt(c, i + 1, x)[j] = IF j <= i THEN c[j] ELSE IF j = i + 1 THEN x ELSE c[j - 1]
<1>1. PICK n \in Nat : n = Len(c)
  OBVIOUS
<1>2. PICK a : a = SubSeq(c, 1, i)
  OBVIOUS
<1>3. a \in Seq(T) /\ Len(a) = i /\ \A j \in 1..i : a[j] = c[j]
  BY <1>1, <1>2
<1>4. PICK b : b = SubSeq(c, i + 1, n)
  OBVIOUS
<1>5. b \in Seq(T) /\ Len(b) = n - i /\ \A j \in 1..(n - i) : b[j] = c[i + j]
  BY <1>1, <1>4
<1>6. PICK y : y = <<x>>
  OBVIOUS
<1>7. y \in Seq(T) /\ Len(y) = 1 /\ y[1] = x
  BY <1>6
<1>8. PICK d : d = a \o y
  OBVIOUS
<1>9. d \in Seq(T) /\ Len(d) = i + 1 /\ \A j \in 1..(i + 1) : d[j] = IF j <= i THEN c[j] ELSE x
  <2>1. /\ d \in Seq(T) /\ Len(d) = Len(a) + Len(y)
        /\ \A j \in 1 .. Len(a) + Len(y) : d[j] = IF j <= Len(a) THEN a[j] ELSE y[j - Len(a)]
    BY <1>3, <1>7, <1>8, ConcatProperties
  <2> QED BY <1>1, <1>3, <1>7, <2>1
<1>10. PICK e : e = d \o b
  OBVIOUS
<1>11. /\ e \in Seq(T) /\ Len(e) = n + 1
       /\ \A j \in 1..(n + 1) : e[j] = IF j <= i + 1 THEN d[j] ELSE b[j - (i + 1)]
  <2>1. /\ e \in Seq(T) /\ Len(e) = Len(d) + Len(b)
        /\ \A j \in 1 .. Len(d) + Len(b) : e[j] = IF j <= Len(d) THEN d[j] ELSE b[j - Len(d)]
    BY <1>5, <1>9, <1>10, ConcatProperties
  <2> QED BY <1>1, <1>5, <1>9, <2>1
<1>12. ASSUME NEW j \in 1..(n + 1)
       PROVE  e[j] = IF j <= i THEN c[j] ELSE IF j = i + 1 THEN x ELSE c[j - 1]
  <2>1. CASE j <= i + 1
    BY <1>1, <1>9, <1>11, <2>1
  <2>2. CASE ~(j <= i + 1)
    <3>1. j - (i + 1) \in 1..(n - i) /\ i + (j - (i + 1)) = j - 1
      BY <1>1, <2>2
    <3>2. b[j - (i + 1)] = c[j - 1]
      BY <1>5, <3>1
    <3> QED BY <1>1, <1>11, <2>2, <3>2
  <2> QED BY <2>1, <2>2
<1>13. InsertAt(c, i + 1, x) = e
  <2>1. PICK k \in Nat : k = i + 1 /\ k - 1 = i
    BY <1>1
  <2>2. SubSeq(c, 1, k - 1) = a /\ SubSeq(c, k, Len(c)) = b
    BY <1>1, <1>2, <1>4, <2>1
  <2>3. InsertAt(c, k, x) = SubSeq(c, 1, k - 1) \o <<x>> \o SubSeq(c, k, Len(c))
    BY InsertAtIs, Zenon
  <2>4. InsertAt(c, k, x) = (a \o y) \o b
    BY <1>6, <2>2, <2>3, Zenon
  <2>5. InsertAt(c, k, x) = e
    BY <1>8, <1>10, <2>4, Zenon
  <2> QED BY <2>1, <2>5
<1> QED BY <1>1, <1>11, <1>12, <1>13

CutOut(c, i) == SubSeq(c, 1, i - 1) \o SubSeq(c, i + 1, Len(c))

LEMMA CutOutIs ==
  ASSUME NEW T, NEW c \in Seq(T), NEW i \in 1..Len(c)
  PROVE  /\ CutOut(c, i) \in Seq(T) /\ Len(CutOut(c, i)) = Len(c) - 1
         /\ \A j \in 1..(Len(c) - 1) : CutOut(c, i)[j] = IF j < i THEN c[j] ELSE c[j + 1]
<1>1. PICK n \in Nat : n = Len(c)
  OBVIOUS
<1>2. PICK a : a = SubSeq(c, 1, i - 1)
  OBVIOUS
<1>3. a \in Seq(T) /\ Len(a) = i - 1 /\ \A j \in 1..(i - 1) : a[j] = c[j]
  BY <1>1, <1>2
<1>4. PICK b : b = SubSeq(c, i + 1, n)
  OBVIOUS
<1>5. b \in Seq(T) /\ Len(b) = n - i /\ \A j \in 1..(n - i) : b[j] = c[i + j]
  BY <1>1, <1>4
<1>6. PICK e : e = a \o b
  OBVIOUS
<1>7. /\ e \in Seq(T) /\ Len(e) = n - 1
      /\ \A j \in 1..(n - 1) : e[j] = IF j <= i - 1 THEN a[j] ELSE b[j - (i - 1)]
  <2>1. /\ e \in Seq(T) /\ Len(e) = Len(a) + Len(b)
        /\ \A j \in 1 .. Len(a) + Len(b) : e[j] = IF j <= Len(a) THEN a[j] ELSE b[j - Len(a)]
    BY <1>3, <1>5, <1>6, ConcatProperties
  <2> QED BY <1>1, <1>3, <1>5, <2>1
<1>8. ASSUME NEW j \in 1..(n - 1)
      PROVE  e[j] = IF j < i THEN c[j] ELSE c[j + 1]
  <2>1. CASE j < i
    BY <1>1, <1>3, <1>7, <2>1
  <2>2. CASE ~(j < i)
    <3>1. j - (i - 1) \in 1..(n - i) /\ i + (j - (i - 1)) = j + 1
      BY <1>1, <2>2
    <3>2. b[j - (i - 1)] = c[j + 1]
      BY <1>5, <3>1
    <3> QED BY <1>1, <1>7, <2>2, <3>2
  <2> QED BY <2>1, <2>2
<1>9. CutOut(c, i) = e
  BY <1>1, <1>2, <1>4, <1>6 DEF CutOut
<1> QED BY <1>1, <1>7, <1>8, <1>9

\* A node inserted behind the k-th of a list: in the middle, or at the end.
LEMMA Inserted ==
  ASSUME NEW h, NEW S, Chained(h, S), NEW c \in S, NEW k \in 1..Len(c),
         NEW new \in Addresses, h[new] = Free, NEW e \in Elements
  PROVE  /\ Chained(InsertAfter(h, c[k], new, e), (S \ {c}) \cup {InsertAt(c, k + 1, new)})
         /\ SameData(h, InsertAfter(h, c[k], new, e))
<1>1. PICK L \in Nat \ {0} : L = Len(c)
  BY ChainOf
<1>2. c \in Seq(Addresses) /\ h \in Heap
  BY ChainOf
<1>3. PICK v : v = [data |-> e, next |-> NULL, prev |-> NULL]
  OBVIOUS
<1>4. v \in NodeValues /\ v.data = e /\ v.next = NULL /\ v.prev = NULL /\ v # Free
  BY <1>3, ListAssumption DEF NodeValues
<1>5. PICK f : f = Create(h, new, e)
  OBVIOUS
<1>6. f \in Heap /\ f[new] = v /\ \A x \in Addresses : x # new => f[x] = h[x]
  <2>1. f = [h EXCEPT ![new] = v]
    BY <1>3, <1>5 DEF Create
  <2> QED BY <1>2, <1>4, <2>1 DEF Heap
<1>7. PICK n \in Addresses : n = c[k]
  BY NodeOf
<1>8. h[n] # Free /\ n # NULL /\ n # new
  BY <1>7, NodeOf
<1>9. PICK q : q = h[n].next
  OBVIOUS
<1>10. /\ k < L => q = c[k + 1] /\ q \in Addresses /\ h[q] # Free
       /\ k = L => q = NULL
       /\ k < L \/ k = L
  <2>1. q = IF k < L THEN c[k + 1] ELSE NULL
    BY <1>1, <1>7, <1>9, NodeOf
  <2>2. k < L => k + 1 \in 1..L
    BY <1>1
  <2>3. k < L => c[k + 1] \in Addresses /\ h[c[k + 1]] # Free
    BY <1>1, <2>2, NodeOf
  <2>4. k < L \/ k = L
    BY <1>1
  <2> QED BY <2>1, <2>3, <2>4
<1>11. q \in Pointees /\ q # new /\ (q # NULL => f[q] # Free)
  BY <1>6, <1>10, ListAssumption DEF Pointees
<1>12. PICK f2 : f2 = Join(f, new, q)
  OBVIOUS
<1>13. Joined(f, f2, new, q)
  BY <1>4, <1>6, <1>11, <1>12, JoinIs DEF Pointees
<1>14. PICK g : g = Join(f2, n, new)
  OBVIOUS
<1>15. Joined(f2, g, n, new)
  <2>1. f2 \in Heap /\ f2[n] # Free /\ f2[new] # Free
    BY <1>4, <1>6, <1>8, <1>13 DEF Joined
  <2> QED BY <1>14, <2>1, JoinIs DEF Pointees
<1>16. InsertAfter(h, c[k], new, e) = g
  BY <1>5, <1>7, <1>9, <1>12, <1>14 DEF InsertAfter
<1>17. ASSUME NEW x \in Addresses, h[x] # Free
       PROVE  /\ g[x] # Free /\ g[x].data = h[x].data
              /\ g[x].next = IF x = n THEN new ELSE h[x].next
              /\ g[x].prev = IF x = q THEN new ELSE h[x].prev
  <2>1. x # new /\ f[x] = h[x]
    BY <1>6, <1>17
  <2>2. /\ f2[x] # Free /\ f2[x].data = h[x].data
        /\ f2[x].next = h[x].next
        /\ f2[x].prev = IF x = q THEN new ELSE h[x].prev
    BY <1>13, <1>17, <2>1 DEF Joined
  <2> QED BY <1>15, <2>1, <2>2 DEF Joined
<1>18. g[new] # Free /\ g[new].next = q /\ g[new].prev = n
  <2>1. f2[new] # Free /\ f2[new].next = q
    BY <1>4, <1>6, <1>13 DEF Joined
  <2> QED BY <1>8, <1>15, <2>1 DEF Joined
<1>19. \A x \in Addresses : g[x] = h[x] \/ x = n \/ x = new \/ x = q
  BY <1>6, <1>13, <1>15 DEF Joined
<1>20. PICK d : d = InsertAt(c, k + 1, new)
  OBVIOUS
<1>21. /\ d \in Seq(Addresses) /\ Len(d) = L + 1
       /\ \A j \in 1..(L + 1) :
            d[j] = IF j <= k THEN c[j] ELSE IF j = k + 1 THEN new ELSE c[j - 1]
  <2>1. /\ InsertAt(c, k + 1, new) \in Seq(Addresses) /\ Len(InsertAt(c, k + 1, new)) = Len(c) + 1
        /\ \A j \in 1..(Len(c) + 1) :
             InsertAt(c, k + 1, new)[j]
               = IF j <= k THEN c[j] ELSE IF j = k + 1 THEN new ELSE c[j - 1]
    <3>1. c \in Seq(Addresses)
      BY <1>1, <1>2
    <3> QED BY <3>1, PutIn
  <2> QED BY <1>1, <1>20, <2>1, Zenon
<1>22. ASSUME NEW j \in 1..L
       PROVE  /\ c[j] \in Addresses /\ h[c[j]] # Free /\ c[j] # new /\ g[c[j]] # Free
              /\ g[c[j]].next = IF j = k THEN new ELSE IF j < L THEN c[j + 1] ELSE NULL
              /\ g[c[j]].prev = IF j = k + 1 THEN new ELSE IF j > 1 THEN c[j - 1] ELSE NULL
  <2>1. /\ c[j] \in Addresses /\ h[c[j]] # Free /\ c[j] # NULL
        /\ h[c[j]].next = IF j < L THEN c[j + 1] ELSE NULL
        /\ h[c[j]].prev = IF j > 1 THEN c[j - 1] ELSE NULL
    BY <1>1, NodeOf
  <2>2. c[j] = n <=> j = k
    BY <1>1, <1>7, ApartIn
  <2>3. c[j] = q <=> j = k + 1
    <3>1. CASE k < L
      <4>1. k + 1 \in 1..L /\ q = c[k + 1]
        BY <1>1, <1>10, <3>1
      <4> QED BY <1>1, <4>1, ApartIn
    <3>2. CASE k = L
      BY <1>1, <1>10, <2>1, <3>2
    <3> QED BY <1>10, <3>1, <3>2
  <2> QED BY <1>17, <2>1, <2>2, <2>3
<1>23. ASSUME NEW j \in 1..(L + 1)
       PROVE  /\ g[d[j]] # Free
              /\ g[d[j]].next = IF j < L + 1 THEN d[j + 1] ELSE NULL
              /\ g[d[j]].prev = IF j > 1 THEN d[j - 1] ELSE NULL
  <2>1. CASE j <= k
    <3>1. j \in 1..L /\ d[j] = c[j] /\ j < L + 1 /\ j # k + 1
      BY <1>1, <1>21, <2>1
    <3>2. d[j + 1] = (IF j = k THEN new ELSE c[j + 1]) /\ (j # k => j < L)
      BY <1>1, <1>21, <2>1
    <3>3. j > 1 => d[j - 1] = c[j - 1]
      BY <1>1, <1>21, <2>1
    <3> QED BY <1>22, <3>1, <3>2, <3>3
  <2>2. CASE j = k + 1
    <3>1. d[j] = new /\ d[j - 1] = n /\ j > 1
      BY <1>1, <1>7, <1>21, <2>2
    <3>2. (j < L + 1 <=> k < L) /\ (k < L => d[j + 1] = c[k + 1])
      BY <1>1, <1>21, <2>2
    <3> QED BY <1>10, <1>18, <3>1, <3>2
  <2>3. CASE j > k + 1
    <3>1. PICK i \in 1..L : i = j - 1 /\ i > k
      BY <1>1, <2>3
    <3>2. d[j] = c[i] /\ j > 1
      BY <1>21, <2>3, <3>1
    <3>3. (j < L + 1 <=> i < L) /\ (i < L => d[j + 1] = c[i + 1])
      BY <1>1, <1>21, <2>3, <3>1
    <3>4. d[j - 1] = IF i = k + 1 THEN new ELSE c[i - 1]
      BY <1>1, <1>21, <2>3, <3>1
    <3> QED BY <1>22, <3>1, <3>2, <3>3, <3>4
  <2> QED BY <2>1, <2>2, <2>3
<1>24. Chain(g, d)
  BY <1>21, <1>23 DEF Chain
<1>25. Apart({d})
  <2>1. ASSUME NEW i \in 1..(L + 1), NEW j \in 1..(L + 1), d[i] = d[j] PROVE i = j
    <3>1. PICK a : a = IF i <= k THEN i ELSE i - 1
      OBVIOUS
    <3>2. PICK b : b = IF j <= k THEN j ELSE j - 1
      OBVIOUS
    <3>3. (i # k + 1 => a \in 1..L /\ d[i] = c[a]) /\ (i = k + 1 => d[i] = new)
      BY <1>1, <1>21, <3>1
    <3>4. (j # k + 1 => b \in 1..L /\ d[j] = c[b]) /\ (j = k + 1 => d[j] = new)
      BY <1>1, <1>21, <3>2
    <3>5. CASE i # k + 1 /\ j # k + 1
      <4>1. a = b
        BY <1>1, <2>1, <3>3, <3>4, <3>5, ApartIn
      <4> QED BY <3>1, <3>2, <3>5, <4>1
    <3>6. CASE i = k + 1 \/ j = k + 1
      BY <1>22, <2>1, <3>3, <3>4, <3>6
    <3> QED BY <3>5, <3>6
  <2> QED BY <1>21, <2>1 DEF Apart
<1>26. ASSUME NEW j \in 1..(L + 1) PROVE h[d[j]] = Free \/ \E i \in 1..L : d[j] = c[i]
  <2>1. CASE j = k + 1
    BY <1>1, <1>21, <2>1
  <2>2. CASE j # k + 1
    <3>1. (j <= k => j \in 1..L /\ d[j] = c[j]) /\ (~(j <= k) => j - 1 \in 1..L /\ d[j] = c[j - 1])
      BY <1>1, <1>21, <2>2
    <3> QED BY <3>1
  <2> QED BY <2>1, <2>2
<1>27. ASSUME NEW i \in 1..L PROVE \E j \in 1..(L + 1) : c[i] = d[j]
  <2>1. (i <= k => i \in 1..(L + 1) /\ c[i] = d[i]) /\ (~(i <= k) => i + 1 \in 1..(L + 1) /\ c[i] = d[i + 1])
    BY <1>1, <1>21
  <2> QED BY <2>1
<1>28. ASSUME NEW x \in Addresses PROVE g[x] = h[x] \/ (\E j \in 1..(L + 1) : x = d[j]) \/ \E i \in 1..L : x = c[i]
  <2>1. k + 1 \in 1..(L + 1) /\ d[k + 1] = new
    BY <1>1, <1>21
  <2>2. x = q => \E i \in 1..L : x = c[i]
    <3>1. k < L => k + 1 \in 1..L
      BY <1>1
    <3> QED BY <1>10, <3>1, ListAssumption
  <2> QED BY <1>1, <1>7, <1>19, <2>1, <2>2
<1>29. g \in Heap
  BY <1>15 DEF Joined
<1>30. Chained(g, (S \ {c}) \cup {d})
  <2>1. \A j \in 1..Len(d) : h[d[j]] = Free \/ \E i \in 1..Len(c) : d[j] = c[i]
    BY <1>1, <1>21, <1>26
  <2>2. \A x \in Addresses : \/ g[x] = h[x]
                             \/ \E j \in 1..Len(d) : x = d[j]
                             \/ \E i \in 1..Len(c) : x = c[i]
    BY <1>1, <1>21, <1>28
  <2>3. \A i \in 1..Len(c) : \/ \E j \in 1..Len(d) : c[i] = d[j]
                             \/ g[c[i]] = Free
                             \/ g[c[i]].prev # NULL
    BY <1>1, <1>21, <1>27
  <2>4. Takes(h, c, g, d)
    BY <2>1, <2>2, <2>3 DEF Takes
  <2> QED BY <1>24, <1>25, <1>29, <2>4, OneReplaced
<1>31. SameData(h, g)
  BY <1>17 DEF SameData
<1> QED BY <1>16, <1>20, <1>30, <1>31

\* One node less, in a list of more than that one.
LEMMA ErasedOne ==
  ASSUME NEW h, NEW S, Chained(h, S), NEW c \in S, NEW k \in 1..Len(c)
  PROVE  /\ Erase(h, c[k]) \in Heap /\ Erase(h, c[k])[c[k]] = Free
         /\ \A j \in 1..Len(c) : j # k =>
              /\ Erase(h, c[k])[c[j]] # Free
              /\ Erase(h, c[k])[c[j]].data = h[c[j]].data
              /\ Erase(h, c[k])[c[j]].next = IF j = k - 1 THEN h[c[k]].next ELSE h[c[j]].next
              /\ Erase(h, c[k])[c[j]].prev = IF j = k + 1 THEN h[c[k]].prev ELSE h[c[j]].prev
         /\ \A x \in Addresses : Erase(h, c[k])[x] = h[x] \/ \E j \in 1..Len(c) : x = c[j]
<1>1. PICK L \in Nat \ {0} : L = Len(c)
  BY ChainOf
<1>2. h \in Heap
  BY ChainOf
<1>3. PICK n \in Addresses : n = c[k]
  BY NodeOf
<1>4. PICK f : f = [h EXCEPT ![n] = Free]
  OBVIOUS
<1>5. f \in Heap /\ f[n] = Free /\ \A x \in Addresses : x # n => f[x] = h[x]
  BY <1>2, <1>4 DEF Heap
<1>6. PICK p : p = h[n].prev
  OBVIOUS
<1>7. PICK q : q = h[n].next
  OBVIOUS
<1>8. /\ k > 1 => p = c[k - 1] /\ p \in Addresses /\ f[p] # Free
      /\ ~(k > 1) => p = NULL
  <2>1. p = IF k > 1 THEN c[k - 1] ELSE NULL
    BY <1>1, <1>3, <1>6, NodeOf
  <2>2. k > 1 => k - 1 \in 1..L
    BY <1>1
  <2>3. k > 1 => c[k - 1] \in Addresses /\ h[c[k - 1]] # Free
    BY <1>1, <2>2, NodeOf
  <2>4. k > 1 => c[k - 1] # n
    BY <1>1, <1>3, <2>2, ApartIn
  <2> QED BY <1>5, <2>1, <2>3, <2>4
<1>9. /\ k < L => q = c[k + 1] /\ q \in Addresses /\ f[q] # Free
      /\ ~(k < L) => q = NULL
  <2>1. q = IF k < L THEN c[k + 1] ELSE NULL
    BY <1>1, <1>3, <1>7, NodeOf
  <2>2. k < L => k + 1 \in 1..L
    BY <1>1
  <2>3. k < L => c[k + 1] \in Addresses /\ h[c[k + 1]] # Free
    BY <1>1, <2>2, NodeOf
  <2>4. k < L => c[k + 1] # n
    BY <1>1, <1>3, <2>2, ApartIn
  <2> QED BY <1>5, <2>1, <2>3, <2>4
<1>10. PICK g : g = Join(f, p, q)
  OBVIOUS
<1>11. p \in Pointees /\ q \in Pointees /\ (p # NULL => f[p] # Free) /\ (q # NULL => f[q] # Free)
  BY <1>8, <1>9 DEF Pointees
<1>12. Joined(f, g, p, q)
  BY <1>5, <1>10, <1>11, JoinIs
<1>13. Erase(h, c[k]) = g
  BY <1>3, <1>4, <1>6, <1>7, <1>10 DEF Erase
<1>14. g[n] = Free
  <2>1. n # p /\ n # q
    BY <1>5, <1>8, <1>9, ListAssumption
  <2> QED BY <1>5, <1>12, <2>1 DEF Joined
<1>15. ASSUME NEW j \in 1..L, j # k
       PROVE  /\ g[c[j]] # Free /\ g[c[j]].data = h[c[j]].data
              /\ g[c[j]].next = IF j = k - 1 THEN q ELSE h[c[j]].next
              /\ g[c[j]].prev = IF j = k + 1 THEN p ELSE h[c[j]].prev
  <2>1. c[j] \in Addresses /\ h[c[j]] # Free /\ c[j] # NULL
    BY <1>1, NodeOf
  <2>2. c[j] # n
    BY <1>1, <1>3, <1>15, ApartIn
  <2>3. c[j] = p <=> j = k - 1
    <3>1. CASE k > 1
      <4>1. k - 1 \in 1..L /\ p = c[k - 1]
        BY <1>1, <1>8, <3>1
      <4> QED BY <1>1, <4>1, ApartIn
    <3>2. CASE ~(k > 1)
      BY <1>1, <1>8, <2>1, <3>2
    <3> QED BY <3>1, <3>2
  <2>4. c[j] = q <=> j = k + 1
    <3>1. CASE k < L
      <4>1. k + 1 \in 1..L /\ q = c[k + 1]
        BY <1>1, <1>9, <3>1
      <4> QED BY <1>1, <4>1, ApartIn
    <3>2. CASE ~(k < L)
      BY <1>1, <1>9, <2>1, <3>2
    <3> QED BY <3>1, <3>2
  <2> QED BY <1>5, <1>12, <2>1, <2>2, <2>3, <2>4 DEF Joined
<1>16. ASSUME NEW x \in Addresses PROVE g[x] = h[x] \/ \E j \in 1..L : x = c[j]
  <2>1. k > 1 => k - 1 \in 1..L
    BY <1>1
  <2>2. k < L => k + 1 \in 1..L
    BY <1>1
  <2>3. x = p => \E j \in 1..L : x = c[j]
    BY <1>8, <2>1, ListAssumption
  <2>4. x = q => \E j \in 1..L : x = c[j]
    BY <1>9, <2>2, ListAssumption
  <2>5. x # n /\ x # p /\ x # q => g[x] = h[x]
    BY <1>5, <1>12 DEF Joined
  <2> QED BY <1>1, <1>3, <2>3, <2>4, <2>5
<1>17. g \in Heap
  BY <1>12 DEF Joined
<1> QED BY <1>1, <1>3, <1>6, <1>7, <1>13, <1>14, <1>15, <1>16, <1>17

OneLess(S, c, k) == (S \ {c}) \cup (IF Len(c) = 1 THEN {} ELSE {CutOut(c, k)})

\* The pointers pass over node k, which is freed or keeps a pointer back.
PassesOver(h, c, k, g) ==
  /\ g \in Heap /\ (g[c[k]] = Free \/ g[c[k]].prev # NULL)
  /\ \A j \in 1..Len(c) : j # k =>
       /\ g[c[j]] # Free
       /\ g[c[j]].next = IF j = k - 1 THEN h[c[k]].next ELSE h[c[j]].next
       /\ g[c[j]].prev = IF j = k + 1 THEN h[c[k]].prev ELSE h[c[j]].prev
  /\ \A x \in Addresses : g[x] = h[x] \/ \E j \in 1..Len(c) : x = c[j]

\* A list whose k-th node is passed over by both neighbours has all its other nodes.
LEMMA PassedOver ==
  ASSUME NEW h, NEW S, Chained(h, S), NEW c \in S, NEW k \in 1..Len(c), Len(c) # 1,
         NEW g, PassesOver(h, c, k, g)
  PROVE  Chained(g, (S \ {c}) \cup {CutOut(c, k)})
<1>1. PICK L \in Nat \ {0} : L = Len(c)
  BY ChainOf
<1>2. c \in Seq(Addresses)
  BY ChainOf
<1>3. L # 1
  BY <1>1
<1>4. /\ g \in Heap /\ (g[c[k]] = Free \/ g[c[k]].prev # NULL)
      /\ \A j \in 1..L : j # k =>
           /\ g[c[j]] # Free
           /\ g[c[j]].next = IF j = k - 1 THEN h[c[k]].next ELSE h[c[j]].next
           /\ g[c[j]].prev = IF j = k + 1 THEN h[c[k]].prev ELSE h[c[j]].prev
      /\ \A x \in Addresses : g[x] = h[x] \/ \E j \in 1..L : x = c[j]
  BY <1>1 DEF PassesOver
<1>5. PICK d : d = CutOut(c, k)
  OBVIOUS
<1>6. /\ d \in Seq(Addresses) /\ Len(d) = L - 1
      /\ \A j \in 1..(L - 1) : d[j] = IF j < k THEN c[j] ELSE c[j + 1]
  BY <1>1, <1>2, <1>5, CutOutIs
<1>7. ASSUME NEW j \in 1..L
      PROVE  /\ h[c[j]] # Free
             /\ h[c[j]].next = IF j < L THEN c[j + 1] ELSE NULL
             /\ h[c[j]].prev = IF j > 1 THEN c[j - 1] ELSE NULL
  BY <1>1, NodeOf
<1>8. ASSUME NEW j \in 1..(L - 1)
      PROVE  /\ g[d[j]] # Free
             /\ g[d[j]].next = IF j < L - 1 THEN d[j + 1] ELSE NULL
             /\ g[d[j]].prev = IF j > 1 THEN d[j - 1] ELSE NULL
  <2>1. CASE j < k
    <3>1. j \in 1..L /\ j # k /\ d[j] = c[j] /\ j # k + 1 /\ j < L
      BY <1>1, <1>6, <2>1
    <3>2. j > 1 => d[j - 1] = c[j - 1]
      BY <1>1, <1>6, <2>1
    <3>3. CASE j = k - 1
      <4>1. (j < L - 1 <=> k < L) /\ (k < L => d[j + 1] = c[k + 1])
        BY <1>1, <1>6, <3>3
      <4> QED BY <1>4, <1>7, <3>1, <3>2, <3>3, <4>1
    <3>4. CASE j # k - 1
      <4>1. j + 1 < k /\ j < L - 1 /\ j + 1 \in 1..(L - 1)
        <5>1. k \in 1..L
          BY <1>1
        <5> QED BY <2>1, <3>4, <5>1
      <4>2. d[j + 1] = c[j + 1]
        BY <1>6, <4>1
      <4> QED BY <1>4, <1>7, <3>1, <3>2, <3>4, <4>1, <4>2
    <3> QED BY <3>3, <3>4
  <2>2. CASE ~(j < k)
    <3>1. PICK i \in 1..L : i = j + 1 /\ i # k /\ i # k - 1 /\ i > k
      BY <1>1, <2>2
    <3>2. d[j] = c[i] /\ i > 1
      BY <1>6, <2>2, <3>1
    <3>3. (j < L - 1 <=> i < L) /\ (i < L => d[j + 1] = c[i + 1])
      BY <1>1, <1>6, <2>2, <3>1
    <3>4. CASE i = k + 1
      <4>1. (j > 1 <=> k > 1) /\ (k > 1 => d[j - 1] = c[k - 1])
        BY <1>1, <1>6, <3>1, <3>4
      <4> QED BY <1>4, <1>7, <3>1, <3>2, <3>3, <3>4, <4>1
    <3>5. CASE i # k + 1
      <4>1. j > 1 /\ d[j - 1] = c[i - 1]
        <5>1. k \in 1..L
          BY <1>1
        <5>2. j > 1 /\ j - 1 \in 1..(L - 1) /\ ~(j - 1 < k) /\ (j - 1) + 1 = i - 1
          BY <2>2, <3>1, <3>5, <5>1
        <5> QED BY <1>6, <5>2
      <4>2. g[c[i]] # Free /\ g[c[i]].next = h[c[i]].next /\ g[c[i]].prev = h[c[i]].prev
        BY <1>4, <3>1, <3>5
      <4>3. /\ h[c[i]].next = IF i < L THEN c[i + 1] ELSE NULL
            /\ h[c[i]].prev = c[i - 1]
        BY <1>7, <3>1, <3>2
      <4> QED BY <3>2, <3>3, <4>1, <4>2, <4>3
    <3> QED BY <3>4, <3>5
  <2> QED BY <2>1, <2>2
<1>9. Chain(g, d)
  BY <1>1, <1>3, <1>6, <1>8 DEF Chain
<1>10. Apart({d})
  <2>1. ASSUME NEW i \in 1..(L - 1), NEW j \in 1..(L - 1), d[i] = d[j] PROVE i = j
    <3>1. PICK a \in 1..L : a = (IF i < k THEN i ELSE i + 1) /\ d[i] = c[a]
      BY <1>1, <1>6
    <3>2. PICK b \in 1..L : b = (IF j < k THEN j ELSE j + 1) /\ d[j] = c[b]
      BY <1>1, <1>6
    <3>3. c[a] = c[b]
      BY <2>1, <3>1, <3>2
    <3>4. a \in 1..Len(c) /\ b \in 1..Len(c)
      BY <1>1, <3>1, <3>2
    <3>5. a = b
      BY <3>3, <3>4, ApartIn
    <3> QED BY <3>1, <3>2, <3>5
  <2> QED BY <1>6, <2>1 DEF Apart
<1>11. ASSUME NEW j \in 1..Len(d) PROVE \E i \in 1..Len(c) : d[j] = c[i]
  <2>1. (j < k => j \in 1..L /\ d[j] = c[j]) /\ (~(j < k) => j + 1 \in 1..L /\ d[j] = c[j + 1])
    BY <1>1, <1>6
  <2> QED BY <1>1, <2>1
<1>12. ASSUME NEW i \in 1..Len(c), i # k PROVE \E j \in 1..Len(d) : c[i] = d[j]
  <2>1. i < k => i \in 1..Len(d) /\ c[i] = d[i]
    BY <1>1, <1>6
  <2>2. ~(i < k) => i - 1 \in 1..Len(d) /\ c[i] = d[i - 1]
    BY <1>1, <1>6, <1>12
  <2> QED BY <2>1, <2>2
<1>13. \A i \in 1..Len(c) : \/ \E j \in 1..Len(d) : c[i] = d[j]
                           \/ g[c[i]] = Free
                           \/ g[c[i]].prev # NULL
  BY <1>4, <1>12
<1>14. \A x \in Addresses : \/ g[x] = h[x]
                            \/ \E j \in 1..Len(d) : x = d[j]
                            \/ \E i \in 1..Len(c) : x = c[i]
  <2>1. \A x \in Addresses : g[x] = h[x] \/ \E j \in 1..Len(c) : x = c[j]
    BY <1>1, <1>4
  <2> QED BY <2>1
<1>15. Chained(g, (S \ {c}) \cup {d})
  <2>1. g \in Heap
    BY <1>4
  <2>2. \A j \in 1..Len(d) : h[d[j]] = Free \/ \E i \in 1..Len(c) : d[j] = c[i]
    BY <1>11
  <2>3. Takes(h, c, g, d)
    BY <1>13, <1>14, <2>2 DEF Takes
  <2> QED BY <1>9, <1>10, <2>1, <2>3, OneReplaced
<1> QED BY <1>5, <1>15

\* erase takes the node out of its list, and the list away if it was the only one.
LEMMA Erased ==
  ASSUME NEW h, NEW S, Chained(h, S), NEW c \in S, NEW k \in 1..Len(c)
  PROVE  /\ Chained(Erase(h, c[k]), OneLess(S, c, k))
         /\ SameData(h, Erase(h, c[k]))
         /\ \A x \in Addresses : Erase(h, c[k])[x] # Free => h[x] # Free
<1>1. PICK L \in Nat \ {0} : L = Len(c)
  BY ChainOf
<1>2. c \in Seq(Addresses)
  BY ChainOf
<1>3. PICK g : g = Erase(h, c[k])
  OBVIOUS
<1>4. /\ g \in Heap /\ g[c[k]] = Free
      /\ \A j \in 1..L : j # k =>
           /\ g[c[j]] # Free
           /\ g[c[j]].data = h[c[j]].data
           /\ g[c[j]].next = IF j = k - 1 THEN h[c[k]].next ELSE h[c[j]].next
           /\ g[c[j]].prev = IF j = k + 1 THEN h[c[k]].prev ELSE h[c[j]].prev
      /\ \A x \in Addresses : g[x] = h[x] \/ \E j \in 1..L : x = c[j]
  BY <1>1, <1>3, ErasedOne
<1>5. SameData(h, g) /\ \A x \in Addresses : g[x] # Free => h[x] # Free
  <2>1. \A j \in 1..L : h[c[j]] # Free
    BY <1>1, NodeOf
  <2>2. ASSUME NEW x \in Addresses, g[x] # Free PROVE h[x] # Free /\ g[x].data = h[x].data
    <3>1. CASE g[x] = h[x]
      BY <2>2, <3>1
    <3>2. CASE \E j \in 1..L : x = c[j]
      <4>1. PICK j \in 1..L : x = c[j]
        BY <3>2
      <4> QED BY <1>4, <2>1, <2>2, <4>1
    <3> QED BY <1>4, <3>1, <3>2
  <2> QED BY <2>2 DEF SameData
<1>6. CASE L = 1
  <2>1. \A i \in 1..Len(c) : g[c[i]] = Free
    <3>1. \A i \in 1..Len(c) : i = k
      BY <1>1, <1>6
    <3> QED BY <1>4, <3>1
  <2>2. Chained(g, S \ {c})
    BY <1>1, <1>4, <2>1, OneRemoved
  <2>3. OneLess(S, c, k) = S \ {c}
    BY <1>1, <1>6 DEF OneLess
  <2> QED BY <1>3, <1>5, <2>2, <2>3
<1>7. CASE L # 1
  <2>1. PassesOver(h, c, k, g)
    BY <1>1, <1>4 DEF PassesOver
  <2>2. Chained(g, (S \ {c}) \cup {CutOut(c, k)})
    BY <1>1, <1>7, <2>1, PassedOver
  <2>3. OneLess(S, c, k) = (S \ {c}) \cup {CutOut(c, k)}
    BY <1>1, <1>7 DEF OneLess
  <2> QED BY <1>3, <1>5, <2>2, <2>3
<1> QED BY <1>6, <1>7

-----------------------------------------------------------------------------
(* Two nodes exchanged.                                                    *)

ListNodes(S) == {x \in Addresses : Within(x, S)}

\* The nodes of A point at each other, and none at itself or back at the one before it.
Linked(h, A) ==
  /\ A \subseteq Addresses
  /\ \A x \in A : h[x] \in NodeValues /\ h[x] # Free
  /\ \A x \in A : h[x].next \in A \cup {NULL} /\ h[x].prev \in A \cup {NULL}
  /\ \A x \in A, y \in A : h[x].next = y <=> h[y].prev = x
  /\ \A x \in A, y \in A : h[x].next = y => x # y /\ h[y].next # x

\* What swap needs of the lists it changes.
LEMMA ChainedIsLinked ==
  ASSUME NEW h, NEW S, Chained(h, S)
  PROVE  Linked(h, ListNodes(S))
<1>1. PICK A : A = ListNodes(S)
  OBVIOUS
<1>2. ASSUME NEW x \in A
      PROVE  \E c \in S : \E i \in 1..Len(c) : x = c[i]
  BY <1>1, <1>2, Zenon DEF ListNodes, Within
<1>3. ASSUME NEW c \in S, NEW i \in 1..Len(c) PROVE c[i] \in A
  BY <1>1, NodeOf DEF ListNodes, Within
<1>4. ASSUME NEW x \in A
      PROVE  /\ h[x] \in NodeValues /\ h[x] # Free
             /\ h[x].next \in A \cup {NULL} /\ h[x].prev \in A \cup {NULL}
  <2>1. PICK c \in S : \E i \in 1..Len(c) : x = c[i]
    BY <1>2
  <2>2. PICK i \in 1..Len(c) : x = c[i]
    BY <2>1
  <2>3. PICK L \in Nat : L = Len(c)
    BY ChainOf
  <2>4. /\ h[x] \in NodeValues /\ h[x] # Free
        /\ h[x].next = IF i < L THEN c[i + 1] ELSE NULL
        /\ h[x].prev = IF i > 1 THEN c[i - 1] ELSE NULL
    BY <2>2, <2>3, NodeOf
  <2>5. i < L => c[i + 1] \in A
    <3>1. i < L => i + 1 \in 1..Len(c)
      BY <2>3
    <3> QED BY <1>3, <3>1
  <2>6. i > 1 => c[i - 1] \in A
    <3>1. i > 1 => i - 1 \in 1..Len(c)
      BY <2>3
    <3> QED BY <1>3, <3>1
  <2> QED BY <2>4, <2>5, <2>6
<1>5. ASSUME NEW x \in A, NEW y \in A
      PROVE  /\ h[x].next = y <=> h[y].prev = x
             /\ h[x].next = y => x # y /\ h[y].next # x
  <2>1. PICK c \in S : \E i \in 1..Len(c) : x = c[i]
    BY <1>2
  <2>2. PICK i \in 1..Len(c) : x = c[i]
    BY <2>1
  <2>3. PICK L \in Nat : L = Len(c)
    BY ChainOf
  <2>4. PICK d \in S : \E j \in 1..Len(d) : y = d[j]
    BY <1>2
  <2>5. PICK j \in 1..Len(d) : y = d[j]
    BY <2>4
  <2>6. PICK M \in Nat : M = Len(d)
    BY ChainOf
  <2>7. h[x].next = (IF i < L THEN c[i + 1] ELSE NULL) /\ x # NULL
    BY <2>2, <2>3, NodeOf
  <2>8. /\ h[y].next = IF j < M THEN d[j + 1] ELSE NULL
        /\ h[y].prev = IF j > 1 THEN d[j - 1] ELSE NULL
        /\ y # NULL
    BY <2>5, <2>6, NodeOf
  <2>9. h[x].next = y <=> i < L /\ c = d /\ j = i + 1
    <3>1. CASE i < L
      <4>1. i + 1 \in 1..Len(c)
        BY <2>3, <3>1
      <4>2. c[i + 1] = d[j] => c = d /\ i + 1 = j
        BY <4>1, ApartIn
      <4> QED BY <2>5, <2>7, <3>1, <4>2
    <3>2. CASE ~(i < L)
      BY <2>7, <2>8, <3>2
    <3> QED BY <3>1, <3>2
  <2>10. h[y].prev = x <=> j > 1 /\ c = d /\ j = i + 1
    <3>1. CASE j > 1
      <4>1. j - 1 \in 1..Len(d)
        BY <2>6, <3>1
      <4>2. d[j - 1] = c[i] => c = d /\ j - 1 = i
        BY <4>1, ApartIn
      <4>3. c = d /\ j = i + 1 => d[j - 1] = c[i]
        BY <2>3
      <4> QED BY <2>2, <2>3, <2>6, <2>8, <3>1, <4>2, <4>3
    <3>2. CASE ~(j > 1)
      BY <2>7, <2>8, <3>2
    <3> QED BY <3>1, <3>2
  <2>11. h[y].next = x => j < M /\ i = j + 1
    <3>1. CASE j < M
      <4>1. j + 1 \in 1..Len(d)
        BY <2>6, <3>1
      <4>2. d[j + 1] = c[i] => j + 1 = i
        BY <4>1, ApartIn
      <4> QED BY <2>2, <2>8, <3>1, <4>2
    <3>2. CASE ~(j < M)
      BY <2>7, <2>8, <3>2
    <3> QED BY <3>1, <3>2
  <2>12. x = y => i = j
    <3>1. c[i] = d[j] => i = j
      BY ApartIn
    <3> QED BY <2>2, <2>5, <3>1
  <2>13. c = d => L = M
    BY <2>3, <2>6
  <2>14. i < L /\ c = d /\ j = i + 1 <=> j > 1 /\ c = d /\ j = i + 1
    <3>1. L = M => (j = i + 1 => i < L /\ j > 1)
      BY <2>3, <2>6
    <3> QED BY <2>13, <3>1
  <2>15. j = i + 1 => i # j /\ ~(i = j + 1)
    OBVIOUS
  <2>16. h[x].next = y <=> h[y].prev = x
    BY <2>9, <2>10, <2>14
  <2>17. h[x].next = y => x # y /\ h[y].next # x
    <3>1. i \in Int /\ j \in Int
      OBVIOUS
    <3>2. h[x].next = y => j = i + 1
      BY ONLY <2>9
    <3>3. h[y].next = x => i = j + 1
      BY ONLY <2>11
    <3> QED BY ONLY <2>12, <2>15, <3>1, <3>2, <3>3
  <2> QED BY <2>16, <2>17
<1>6. A \subseteq Addresses
  BY <1>1 DEF ListNodes
<1>7. Linked(h, A)
  BY <1>4, <1>5, <1>6, Zenon DEF Linked
<1> QED BY <1>1, <1>7

LEMMA NodeIs ==
  ASSUME NEW v \in NodeValues, NEW w \in NodeValues,
         v.data = w.data, v.next = w.next, v.prev = w.prev
  PROVE  v = w
BY DEF NodeValues

LEMMA Repointed ==
  ASSUME NEW u \in NodeValues, NEW a \in Pointees, NEW b \in Pointees
  PROVE  [[u EXCEPT !.next = a] EXCEPT !.prev = b] = [data |-> u.data, next |-> a, prev |-> b]
<1>1. PICK v : v = [u EXCEPT !.next = a]
  OBVIOUS
<1>2. v \in NodeValues /\ v.data = u.data /\ v.next = a
  BY <1>1 DEF NodeValues, Pointees
<1>3. PICK w : w = [v EXCEPT !.prev = b]
  OBVIOUS
<1>4. w \in NodeValues /\ w.data = u.data /\ w.next = a /\ w.prev = b
  BY <1>2, <1>3 DEF NodeValues, Pointees
<1>5. PICK y : y = [data |-> u.data, next |-> a, prev |-> b]
  OBVIOUS
<1>6. y \in NodeValues /\ y.data = u.data /\ y.next = a /\ y.prev = b
  BY <1>5 DEF NodeValues, Pointees
<1>7. w = y
  BY <1>4, <1>6, NodeIs
<1> QED BY <1>1, <1>3, <1>5, <1>7

\* Both pointers of two nodes.
WithBoth(g, n, a, b, m, c, d) ==
  [g EXCEPT ![n].next = a, ![n].prev = b, ![m].next = c, ![m].prev = d]

\* Four pointers of two nodes written, which may be one and the same.
LEMMA WithBothIs ==
  ASSUME NEW g \in Heap, NEW n \in Addresses, g[n] # Free, NEW m \in Addresses, g[m] # Free,
         NEW a \in Pointees, NEW b \in Pointees, NEW c \in Pointees, NEW d \in Pointees,
         n = m => a = c /\ b = d
  PROVE  /\ WithBoth(g, n, a, b, m, c, d) \in Heap
         /\ \A x \in Addresses : x # n /\ x # m => WithBoth(g, n, a, b, m, c, d)[x] = g[x]
         /\ WithBoth(g, n, a, b, m, c, d)[n] = [data |-> g[n].data, next |-> a, prev |-> b]
         /\ WithBoth(g, n, a, b, m, c, d)[m] = [data |-> g[m].data, next |-> c, prev |-> d]
<1>1. g[n] \in NodeValues /\ g[m] \in NodeValues
  BY DEF Heap
<1>2. PICK v : v = [data |-> g[n].data, next |-> a, prev |-> b]
  OBVIOUS
<1>3. v \in NodeValues /\ v.data = g[n].data /\ v.next = a /\ v.prev = b
  BY <1>1, <1>2 DEF NodeValues, Pointees
<1>4. [[g[n] EXCEPT !.next = a] EXCEPT !.prev = b] = v
  BY <1>1, <1>2, Repointed
<1>5. PICK w : w = [data |-> g[m].data, next |-> c, prev |-> d]
  OBVIOUS
<1>6. w \in NodeValues /\ [[g[m] EXCEPT !.next = c] EXCEPT !.prev = d] = w
  BY <1>1, <1>5, Repointed DEF NodeValues, Pointees
<1>7. PICK f : f = [[g EXCEPT ![n].next = a] EXCEPT ![n].prev = b]
  OBVIOUS
<1>8. f = [g EXCEPT ![n] = v]
  BY <1>4, <1>7 DEF Heap
<1>9. f \in Heap /\ f[n] = v /\ \A x \in Addresses : x # n => f[x] = g[x]
  BY <1>3, <1>8 DEF Heap
<1>10. PICK e : e = [[f EXCEPT ![m].next = c] EXCEPT ![m].prev = d]
  OBVIOUS
<1>11. e = [f EXCEPT ![m] = w]
  <2>1. [[f[m] EXCEPT !.next = c] EXCEPT !.prev = d] = w
    <3>1. CASE n = m
      <4>1. [[v EXCEPT !.next = c] EXCEPT !.prev = d] = [data |-> v.data, next |-> c, prev |-> d]
        BY <1>3, Repointed
      <4> QED BY <1>3, <1>5, <1>9, <3>1, <4>1
    <3>2. CASE n # m
      BY <1>6, <1>9, <3>2
    <3> QED BY <3>1, <3>2
  <2> QED BY <1>9, <1>10, <2>1 DEF Heap
<1>12. e \in Heap /\ e[m] = w /\ \A x \in Addresses : x # m => e[x] = f[x]
  BY <1>6, <1>9, <1>11 DEF Heap
<1>13. e[n] = v
  BY <1>2, <1>5, <1>9, <1>12
<1>14. WithBoth(g, n, a, b, m, c, d) = e
  BY <1>7, <1>10 DEF WithBoth
<1> QED BY <1>2, <1>5, <1>9, <1>12, <1>13, <1>14

NextSet(h, g, n, m) ==
  /\ g \in Heap
  /\ \A x \in Addresses : x # n => g[x] = h[x]
  /\ n # NULL => /\ g[n] \in NodeValues /\ g[n].data = h[n].data
                 /\ g[n].prev = h[n].prev /\ g[n].next = m

PrevSet(h, g, m, n) ==
  /\ g \in Heap
  /\ \A x \in Addresses : x # m => g[x] = h[x]
  /\ m # NULL => /\ g[m] \in NodeValues /\ g[m].data = h[m].data
                 /\ g[m].next = h[m].next /\ g[m].prev = n

LEMMA NextIsSet ==
  ASSUME NEW h \in Heap, NEW n \in Pointees, NEW m \in Pointees, n # NULL => h[n] # Free
  PROVE  NextSet(h, WithNext(h, n, m), n, m)
BY WithNextIs DEF NextSet

LEMMA PrevIsSet ==
  ASSUME NEW h \in Heap, NEW n \in Pointees, NEW m \in Pointees, m # NULL => h[m] # Free
  PROVE  PrevSet(h, WithPrev(h, m, n), m, n)
BY WithPrevIs DEF PrevSet

Exchanged(x, n, m) == IF x = n THEN m ELSE IF x = m THEN n ELSE x

\* In g the nodes n and m of A have each other's places.
Swapped(h, g, n, m, A) ==
  /\ g \in Heap
  /\ \A x \in Addresses \ A : g[x] = h[x]
  /\ \A x \in A :
       /\ g[x] # Free /\ g[x].data = h[x].data
       /\ g[Exchanged(x, n, m)].next = Exchanged(h[x].next, n, m)
       /\ g[Exchanged(x, n, m)].prev = Exchanged(h[x].prev, n, m)

\* swap, where the first node is right in front of the second,
LEMMA SwapAdjacentIs ==
  ASSUME NEW h \in Heap, NEW A, Linked(h, A), NEW n \in A, NEW m \in A, h[n].next = m
  PROVE  Swapped(h, SwapAdjacent(h, n, m), n, m, A)
<1>1. n \in Addresses /\ m \in Addresses /\ NULL \notin A /\ A \subseteq Addresses
  BY ListAssumption DEF Linked
<1>2. PICK p : p = h[n].prev
  OBVIOUS
<1>3. PICK q : q = h[m].next
  OBVIOUS
<1>4. p \in A \cup {NULL} /\ q \in A \cup {NULL} /\ p \in Pointees /\ q \in Pointees
  BY <1>1, <1>2, <1>3 DEF Linked, Pointees
<1>5. n # m /\ h[m].prev = n
  BY DEF Linked
<1>6. p # n /\ p # m
  BY <1>1, <1>2, <1>4 DEF Linked
<1>7. q # n /\ q # m
  BY <1>1, <1>3, <1>4 DEF Linked
<1>8. PICK f1 : f1 = WithNext(h, p, m)
  OBVIOUS
<1>9. NextSet(h, f1, p, m)
  <2>1. (p # NULL => h[p] # Free) /\ m \in Pointees
    BY <1>1, <1>4 DEF Linked, Pointees
  <2> QED BY <1>4, <1>8, <2>1, NextIsSet
<1>10. PICK f2 : f2 = WithPrev(f1, q, n)
  OBVIOUS
<1>11. PrevSet(f1, f2, q, n)
  <2>1. (q # NULL => f1[q] # Free) /\ n \in Pointees
    BY <1>1, <1>4, <1>9, ListAssumption DEF Linked, Pointees, NextSet, PrevSet
  <2>2. f1 \in Heap
    BY <1>9 DEF NextSet
  <2> QED BY <1>4, <1>10, <2>1, <2>2, PrevIsSet
<1>12. PICK g : g = WithBoth(f2, n, q, m, m, n, p)
  OBVIOUS
<1>13. f2[n] = h[n] /\ f2[m] = h[m]
  BY <1>1, <1>6, <1>7, <1>9, <1>11 DEF NextSet, PrevSet
<1>14. /\ g \in Heap
       /\ \A x \in Addresses : x # n /\ x # m => g[x] = f2[x]
       /\ g[n] = [data |-> h[n].data, next |-> q, prev |-> m]
       /\ g[m] = [data |-> h[m].data, next |-> n, prev |-> p]
  <2>1. f2[n] # Free /\ f2[m] # Free /\ n \in Pointees /\ m \in Pointees
    BY <1>1, <1>13 DEF Linked, Pointees
  <2>2. f2 \in Heap
    BY <1>11 DEF PrevSet
  <2> QED BY <1>1, <1>4, <1>5, <1>12, <1>13, <2>1, <2>2, WithBothIs
<1>15. /\ g[n].data = h[n].data /\ g[n].next = q /\ g[n].prev = m
       /\ g[m].data = h[m].data /\ g[m].next = n /\ g[m].prev = p
       /\ g[n] # Free /\ g[m] # Free
  <2>1. g[n] \in NodeValues /\ g[m] \in NodeValues
    BY <1>1, <1>4, <1>14 DEF Linked, NodeValues, Pointees
  <2> QED BY <1>14, <2>1, ListAssumption
<1>16. \A x \in Addresses \ A : g[x] = h[x]
  BY <1>1, <1>4, <1>9, <1>11, <1>14, ListAssumption DEF NextSet, PrevSet
<1>17. ASSUME NEW x \in A, x # n, x # m
       PROVE  /\ g[x] # Free /\ g[x].data = h[x].data
              /\ g[x].next = IF x = p THEN m ELSE h[x].next
              /\ g[x].prev = IF x = q THEN n ELSE h[x].prev
  <2>1. x \in Addresses /\ x # NULL /\ h[x] # Free
    BY <1>1 DEF Linked
  <2>2. /\ f1[x] # Free /\ f1[x].data = h[x].data
        /\ f1[x].next = IF x = p THEN m ELSE h[x].next
        /\ f1[x].prev = h[x].prev
    BY <1>9, <2>1, ListAssumption DEF NextSet, PrevSet
  <2>3. /\ f2[x] # Free /\ f2[x].data = f1[x].data
        /\ f2[x].next = f1[x].next
        /\ f2[x].prev = IF x = q THEN n ELSE f1[x].prev
    BY <1>11, <2>1, <2>2, ListAssumption DEF NextSet, PrevSet
  <2>4. g[x] = f2[x]
    BY <1>14, <1>17, <2>1
  <2> QED BY <2>2, <2>3, <2>4
<1>18. ASSUME NEW x \in A
       PROVE  /\ x = p <=> h[x].next = n
              /\ x = n <=> h[x].next = m
              /\ x = q <=> h[x].prev = m
              /\ x = m <=> h[x].prev = n
  <2>1. \A y \in A, z \in A : h[y].next = z <=> h[z].prev = y
    BY DEF Linked
  <2>2. h[x].next = n <=> h[n].prev = x
    BY ONLY <2>1, x \in A, n \in A
  <2>3. h[x].next = m <=> h[m].prev = x
    BY ONLY <2>1, x \in A, m \in A
  <2>4. h[m].next = x <=> h[x].prev = m
    BY ONLY <2>1, x \in A, m \in A
  <2>5. h[n].next = x <=> h[x].prev = n
    BY ONLY <2>1, x \in A, n \in A
  <2> QED BY <1>2, <1>3, <1>5, <2>2, <2>3, <2>4, <2>5
<1>19. ASSUME NEW x \in A
       PROVE  /\ g[x] # Free /\ g[x].data = h[x].data
              /\ g[Exchanged(x, n, m)].next = Exchanged(h[x].next, n, m)
              /\ g[Exchanged(x, n, m)].prev = Exchanged(h[x].prev, n, m)
  <2>1. CASE x = n
    <3>1. Exchanged(x, n, m) = m /\ Exchanged(h[x].next, n, m) = n /\ Exchanged(h[x].prev, n, m) = p
      BY <1>2, <1>5, <1>6, <2>1 DEF Exchanged
    <3> QED BY <1>15, <2>1, <3>1
  <2>2. CASE x = m
    <3>1. Exchanged(x, n, m) = n /\ Exchanged(h[x].next, n, m) = q /\ Exchanged(h[x].prev, n, m) = m
      BY <1>3, <1>5, <1>7, <2>2 DEF Exchanged
    <3> QED BY <1>15, <2>2, <3>1
  <2>3. CASE x # n /\ x # m
    <3>1. Exchanged(x, n, m) = x
      BY <2>3 DEF Exchanged
    <3>2. Exchanged(h[x].next, n, m) = IF x = p THEN m ELSE h[x].next
      BY <1>18, <2>3 DEF Exchanged
    <3>3. Exchanged(h[x].prev, n, m) = IF x = q THEN n ELSE h[x].prev
      BY <1>18, <2>3 DEF Exchanged
    <3> QED BY <1>17, <2>3, <3>1, <3>2, <3>3
  <2> QED BY <2>1, <2>2, <2>3
<1>20. SwapAdjacent(h, n, m) = g
  BY <1>2, <1>3, <1>8, <1>10, <1>12, Zenon DEF SwapAdjacent, WithBoth
<1> QED BY <1>14, <1>16, <1>19, <1>20 DEF Swapped

\* where neither is next to the other, perhaps because they are the same,
LEMMA SwapApartIs ==
  ASSUME NEW h \in Heap, NEW A, Linked(h, A), NEW n \in A, NEW m \in A,
         h[n].next # m, h[m].next # n
  PROVE  Swapped(h, SwapApart(h, n, m), n, m, A)
<1>1. n \in Addresses /\ m \in Addresses /\ NULL \notin A /\ A \subseteq Addresses
  BY ListAssumption DEF Linked
<1>2. PICK p : p = h[n].prev
  OBVIOUS
<1>3. PICK q : q = h[n].next
  OBVIOUS
<1>4. PICK r : r = h[m].prev
  OBVIOUS
<1>5. PICK s : s = h[m].next
  OBVIOUS
<1>6. /\ p \in A \cup {NULL} /\ q \in A \cup {NULL} /\ r \in A \cup {NULL} /\ s \in A \cup {NULL}
  BY <1>2, <1>3, <1>4, <1>5 DEF Linked
<1>7. p # n /\ p # m
  BY <1>1, <1>2, <1>6 DEF Linked
<1>8. q # n /\ q # m
  BY <1>1, <1>3, <1>6 DEF Linked
<1>9. r # n /\ r # m
  BY <1>1, <1>4, <1>6 DEF Linked
<1>10. s # n /\ s # m
  BY <1>1, <1>5, <1>6 DEF Linked
<1>11. /\ n \in Pointees /\ m \in Pointees
       /\ p \in Pointees /\ q \in Pointees /\ r \in Pointees /\ s \in Pointees
  BY <1>1, <1>6 DEF Pointees
<1>12. PICK f1 : f1 = WithNext(h, p, m)
  OBVIOUS
<1>13. NextSet(h, f1, p, m)
  <2>1. p # NULL => h[p] # Free
    BY <1>1, <1>6 DEF Linked
  <2> QED BY <1>11, <1>12, <2>1, NextIsSet
<1>14. PICK f2 : f2 = WithPrev(f1, q, m)
  OBVIOUS
<1>15. PrevSet(f1, f2, q, m)
  <2>1. q # NULL => f1[q] # Free
    BY <1>1, <1>6, <1>13, ListAssumption DEF Linked, NextSet, PrevSet
  <2>0. f1 \in Heap
    BY <1>13 DEF NextSet, PrevSet
  <2> QED BY <1>11, <1>14, <2>0, <2>1, PrevIsSet
<1>16. PICK f3 : f3 = WithNext(f2, r, n)
  OBVIOUS
<1>17. NextSet(f2, f3, r, n)
  <2>1. r # NULL => f1[r] # Free
    BY <1>1, <1>6, <1>13, ListAssumption DEF Linked, NextSet, PrevSet
  <2>2. r # NULL => f2[r] # Free
    BY <1>1, <1>6, <1>15, <2>1, ListAssumption DEF NextSet, PrevSet
  <2>0. f2 \in Heap
    BY <1>15 DEF NextSet, PrevSet
  <2> QED BY <1>11, <1>16, <2>0, <2>2, NextIsSet
<1>18. PICK f4 : f4 = WithPrev(f3, s, n)
  OBVIOUS
<1>19. PrevSet(f3, f4, s, n)
  <2>1. s # NULL => f1[s] # Free
    BY <1>1, <1>6, <1>13, ListAssumption DEF Linked, NextSet, PrevSet
  <2>2. s # NULL => f2[s] # Free
    BY <1>1, <1>6, <1>15, <2>1, ListAssumption DEF NextSet, PrevSet
  <2>3. s # NULL => f3[s] # Free
    BY <1>1, <1>6, <1>17, <2>2, ListAssumption DEF NextSet, PrevSet
  <2>0. f3 \in Heap
    BY <1>17 DEF NextSet, PrevSet
  <2> QED BY <1>11, <1>18, <2>0, <2>3, PrevIsSet
<1>20. f4[n] = h[n] /\ f4[m] = h[m]
  BY <1>1, <1>7, <1>8, <1>9, <1>10, <1>13, <1>15, <1>17, <1>19 DEF NextSet, PrevSet
<1>21. PICK g : g = WithBoth(f4, n, s, r, m, q, p)
  OBVIOUS
<1>22. /\ g \in Heap
       /\ \A x \in Addresses : x # n /\ x # m => g[x] = f4[x]
       /\ g[n] = [data |-> h[n].data, next |-> s, prev |-> r]
       /\ g[m] = [data |-> h[m].data, next |-> q, prev |-> p]
  <2>1. f4[n] # Free /\ f4[m] # Free
    BY <1>20 DEF Linked
  <2>2. n = m => s = q /\ r = p
    BY <1>2, <1>3, <1>4, <1>5
  <2>3. f4 \in Heap
    BY <1>19 DEF NextSet, PrevSet
  <2> QED BY <1>1, <1>11, <1>20, <1>21, <2>1, <2>2, <2>3, WithBothIs
<1>23. /\ g[n].data = h[n].data /\ g[n].next = s /\ g[n].prev = r
       /\ g[m].data = h[m].data /\ g[m].next = q /\ g[m].prev = p
       /\ g[n] # Free /\ g[m] # Free
  <2>1. g[n] \in NodeValues /\ g[m] \in NodeValues
    BY <1>1, <1>11, <1>22 DEF Linked, NodeValues, Pointees
  <2> QED BY <1>22, <2>1, ListAssumption
<1>24. \A x \in Addresses \ A : g[x] = h[x]
  BY <1>1, <1>6, <1>13, <1>15, <1>17, <1>19, <1>22, ListAssumption DEF NextSet, PrevSet
<1>25. ASSUME NEW x \in A, x # n, x # m
       PROVE  /\ g[x] # Free /\ g[x].data = h[x].data
              /\ g[x].next = IF x = r THEN n ELSE IF x = p THEN m ELSE h[x].next
              /\ g[x].prev = IF x = s THEN n ELSE IF x = q THEN m ELSE h[x].prev
  <2>1. x \in Addresses /\ x # NULL /\ h[x] # Free
    BY <1>1 DEF Linked
  <2>2. /\ f1[x] # Free /\ f1[x].data = h[x].data
        /\ f1[x].next = IF x = p THEN m ELSE h[x].next
        /\ f1[x].prev = h[x].prev
    BY <1>13, <2>1, ListAssumption DEF NextSet, PrevSet
  <2>3. /\ f2[x] # Free /\ f2[x].data = f1[x].data
        /\ f2[x].next = f1[x].next
        /\ f2[x].prev = IF x = q THEN m ELSE f1[x].prev
    BY <1>15, <2>1, <2>2, ListAssumption DEF NextSet, PrevSet
  <2>4. /\ f3[x] # Free /\ f3[x].data = f2[x].data
        /\ f3[x].next = IF x = r THEN n ELSE f2[x].next
        /\ f3[x].prev = f2[x].prev
    BY <1>17, <2>1, <2>3, ListAssumption DEF NextSet, PrevSet
  <2>5. /\ f4[x] # Free /\ f4[x].data = f3[x].data
        /\ f4[x].next = f3[x].next
        /\ f4[x].prev = IF x = s THEN n ELSE f3[x].prev
    BY <1>19, <2>1, <2>4, ListAssumption DEF NextSet, PrevSet
  <2>6. g[x] = f4[x]
    BY <1>22, <1>25, <2>1
  <2> QED BY <2>2, <2>3, <2>4, <2>5, <2>6
<1>26. ASSUME NEW x \in A
       PROVE  /\ x = p <=> h[x].next = n
              /\ x = q <=> h[x].prev = n
              /\ x = r <=> h[x].next = m
              /\ x = s <=> h[x].prev = m
  <2>1. \A y \in A, z \in A : h[y].next = z <=> h[z].prev = y
    BY DEF Linked
  <2>2. h[x].next = n <=> h[n].prev = x
    BY ONLY <2>1, x \in A, n \in A
  <2>3. h[x].next = m <=> h[m].prev = x
    BY ONLY <2>1, x \in A, m \in A
  <2>4. h[m].next = x <=> h[x].prev = m
    BY ONLY <2>1, x \in A, m \in A
  <2>5. h[n].next = x <=> h[x].prev = n
    BY ONLY <2>1, x \in A, n \in A
  <2> QED BY <1>2, <1>3, <1>4, <1>5, <2>2, <2>3, <2>4, <2>5
<1>27. ASSUME NEW x \in A
       PROVE  /\ g[x] # Free /\ g[x].data = h[x].data
              /\ g[Exchanged(x, n, m)].next = Exchanged(h[x].next, n, m)
              /\ g[Exchanged(x, n, m)].prev = Exchanged(h[x].prev, n, m)
  <2>1. CASE x = n
    <3>1. Exchanged(x, n, m) = m /\ Exchanged(h[x].next, n, m) = q /\ Exchanged(h[x].prev, n, m) = p
      BY <1>2, <1>3, <1>7, <1>8, <2>1 DEF Exchanged
    <3> QED BY <1>23, <2>1, <3>1
  <2>2. CASE x = m
    <3>1. Exchanged(x, n, m) = n /\ Exchanged(h[x].next, n, m) = s /\ Exchanged(h[x].prev, n, m) = r
      BY <1>4, <1>5, <1>9, <1>10, <2>2 DEF Exchanged
    <3> QED BY <1>23, <2>2, <3>1
  <2>3. CASE x # n /\ x # m
    <3>1. Exchanged(x, n, m) = x
      BY <2>3 DEF Exchanged
    <3>2. Exchanged(h[x].next, n, m) = IF x = r THEN n ELSE IF x = p THEN m ELSE h[x].next
      BY <1>26, <2>3 DEF Exchanged
    <3>3. Exchanged(h[x].prev, n, m) = IF x = s THEN n ELSE IF x = q THEN m ELSE h[x].prev
      BY <1>26, <2>3 DEF Exchanged
    <3> QED BY <1>25, <2>3, <3>1, <3>2, <3>3
  <2> QED BY <2>1, <2>2, <2>3
<1>28. SwapApart(h, n, m) = g
  BY <1>2, <1>3, <1>4, <1>5, <1>12, <1>14, <1>16, <1>18, <1>21, Zenon DEF SwapApart, WithBoth
<1> QED BY <1>22, <1>24, <1>27, <1>28 DEF Swapped

\* and in every case: each pointer to one of them has become one to the other.
LEMMA SwapIs ==
  ASSUME NEW h \in Heap, NEW A, Linked(h, A), NEW n \in A, NEW m \in A
  PROVE  Swapped(h, Swap(h, n, m), n, m, A)
<1>1. CASE h[n].next = m
  BY <1>1, SwapAdjacentIs DEF Swap
<1>2. CASE h[n].next # m /\ h[m].next = n
  <2>1. Swapped(h, SwapAdjacent(h, m, n), m, n, A)
    BY <1>2, SwapAdjacentIs
  <2>2. \A x : Exchanged(x, m, n) = Exchanged(x, n, m)
    BY DEF Exchanged
  <2>3. Swapped(h, SwapAdjacent(h, m, n), n, m, A)
    BY <2>1, <2>2 DEF Swapped
  <2> QED BY <1>2, <2>3 DEF Swap
<1>3. CASE h[n].next # m /\ h[m].next # n
  BY <1>3, SwapApartIs DEF Swap
<1> QED BY <1>1, <1>2, <1>3

LEMMA ExchangeIs ==
  ASSUME NEW T, NEW c \in Seq(T), NEW n \in T, NEW m \in T
  PROVE  /\ Exchange(c, n, m) \in Seq(T) /\ Len(Exchange(c, n, m)) = Len(c)
         /\ \A i \in 1..Len(c) : Exchange(c, n, m)[i] = Exchanged(c[i], n, m)
<1>1. PICK L \in Nat : L = Len(c)
  OBVIOUS
<1>2. PICK e : e = [i \in 1..L |-> Exchanged(c[i], n, m)]
  OBVIOUS
<1>3. \A i \in 1..L : Exchanged(c[i], n, m) \in T
  BY <1>1 DEF Exchanged
<1>4. e \in Seq(T) /\ Len(e) = L /\ \A i \in 1..L : e[i] = Exchanged(c[i], n, m)
  BY <1>2, <1>3
<1>5. Exchange(c, n, m) = e
  <2>1. DOMAIN c = 1..L
    BY <1>1
  <2>2. Exchange(c, n, m) = [i \in 1..L |-> CASE c[i] = n -> m [] c[i] = m -> n [] OTHER -> c[i]]
    BY <2>1 DEF Exchange
  <2>3. ASSUME NEW i \in 1..L
        PROVE  (CASE c[i] = n -> m [] c[i] = m -> n [] OTHER -> c[i]) = Exchanged(c[i], n, m)
    <3>1. CASE c[i] = n /\ n = m
      BY <3>1 DEF Exchanged
    <3>2. CASE c[i] = n /\ n # m
      BY <3>2 DEF Exchanged
    <3>3. CASE c[i] # n
      BY <3>3 DEF Exchanged
    <3> QED BY <3>1, <3>2, <3>3
  <2> QED BY <1>2, <2>2, <2>3
<1> QED BY <1>1, <1>4, <1>5

ExchangedIn(S, n, m) == {Exchange(b, n, m) : b \in S}

\* Two nodes of the lists change places.
LEMMA SwappedLists ==
  ASSUME NEW h, NEW S, Chained(h, S), NEW n, Within(n, S), NEW m, Within(m, S)
  PROVE  /\ Chained(Swap(h, n, m), ExchangedIn(S, n, m))
         /\ SameData(h, Swap(h, n, m))
         /\ \A x \in Addresses : Swap(h, n, m)[x] = Free <=> h[x] = Free
<1>1. PICK A : A = ListNodes(S)
  OBVIOUS
<1>2. h \in Heap /\ Linked(h, A)
  BY <1>1, ChainedIsLinked DEF Chained
<1>3. \A c \in S : \A i \in 1..Len(c) : c[i] \in A
  BY <1>1, NodeOf DEF ListNodes, Within
<1>4. n \in A /\ m \in A
  BY <1>3 DEF Within
<1>5. A \subseteq Addresses /\ \A x \in A : \E c \in S : \E i \in 1..Len(c) : x = c[i]
  BY <1>1, Zenon DEF ListNodes, Within
<1>6. PICK g : g = Swap(h, n, m)
  OBVIOUS
<1>7. Swapped(h, g, n, m, A)
  BY <1>2, <1>4, <1>6, SwapIs
<1>7a. PICK T : T = ExchangedIn(S, n, m)
  OBVIOUS
<1>8. T = {Exchange(b, n, m) : b \in S}
  BY <1>7a DEF ExchangedIn
<1>9. ASSUME NEW b \in S
      PROVE  /\ b \in Seq(Addresses) /\ Exchange(b, n, m) \in Seq(Addresses)
             /\ Len(b) \in Nat \ {0} /\ Len(Exchange(b, n, m)) = Len(b)
             /\ \A i \in 1..Len(b) : Exchange(b, n, m)[i] = Exchanged(b[i], n, m)
  <2>1. b \in Seq(Addresses) /\ Len(b) \in Nat \ {0}
    BY ChainOf
  <2>2. n \in Addresses /\ m \in Addresses
    BY <1>4, <1>5
  <2> QED BY <2>1, <2>2, ExchangeIs
<1>10. \A x \in A : Exchanged(x, n, m) \in A /\ Exchanged(Exchanged(x, n, m), n, m) = x
  BY <1>4 DEF Exchanged
<1>11. ASSUME NEW b \in S PROVE Chain(g, Exchange(b, n, m))
  <2>1. PICK L \in Nat \ {0} : L = Len(b)
    BY <1>9
  <2>2. PICK e : e = Exchange(b, n, m)
    OBVIOUS
  <2>3. e \in Seq(Addresses) /\ Len(e) = L /\ \A i \in 1..L : e[i] = Exchanged(b[i], n, m)
    BY <1>9, <2>1, <2>2
  <2>4. ASSUME NEW i \in 1..L
        PROVE  /\ g[e[i]] # Free
               /\ g[e[i]].next = IF i < L THEN e[i + 1] ELSE NULL
               /\ g[e[i]].prev = IF i > 1 THEN e[i - 1] ELSE NULL
    <3>1. PICK x \in A : x = b[i]
      BY <1>3, <2>1
    <3>2. e[i] = Exchanged(x, n, m) /\ e[i] \in A
      BY <1>10, <2>3, <3>1
    <3>3. /\ h[x].next = IF i < L THEN b[i + 1] ELSE NULL
          /\ h[x].prev = IF i > 1 THEN b[i - 1] ELSE NULL
      BY <2>1, <3>1, NodeOf
    <3>4. g[e[i]] # Free
      BY <1>7, <3>2 DEF Swapped
    <3>5. g[e[i]].next = Exchanged(h[x].next, n, m) /\ g[e[i]].prev = Exchanged(h[x].prev, n, m)
      BY <1>7, <3>2 DEF Swapped
    <3>6. Exchanged(NULL, n, m) = NULL
      BY <1>4, <1>5, ListAssumption DEF Exchanged
    <3>7. i < L => e[i + 1] = Exchanged(b[i + 1], n, m)
      BY <2>3
    <3>8. i > 1 => e[i - 1] = Exchanged(b[i - 1], n, m)
      BY <2>3
    <3> QED BY <3>3, <3>4, <3>5, <3>6, <3>7, <3>8
  <2> QED BY <2>2, <2>3, <2>4 DEF Chain
<1>12. Apart(T)
  <2>1. ASSUME NEW c \in S, NEW d \in S, NEW i \in 1..Len(c), NEW j \in 1..Len(d),
               Exchange(c, n, m)[i] = Exchange(d, n, m)[j]
        PROVE  c = d /\ i = j
    <3>1. c[i] \in A /\ d[j] \in A
      BY <1>3
    <3>2. Exchanged(c[i], n, m) = Exchanged(d[j], n, m)
      BY <1>9, <2>1
    <3>3. c[i] = d[j]
      BY <1>10, <3>1, <3>2
    <3> QED BY <3>3, ApartIn
  <2>2. ASSUME NEW c \in T, NEW d \in T, NEW i \in 1..Len(c), NEW j \in 1..Len(d), c[i] = d[j]
        PROVE  c = d /\ i = j
    <3>1. PICK a \in S : c = Exchange(a, n, m)
      BY <1>8
    <3>2. PICK b \in S : d = Exchange(b, n, m)
      BY <1>8
    <3>3. i \in 1..Len(a) /\ j \in 1..Len(b)
      BY <1>9, <3>1, <3>2
    <3>4. a = b /\ i = j
      BY <2>1, <2>2, <3>1, <3>2, <3>3
    <3> QED BY <3>1, <3>2, <3>4
  <2> QED BY <2>2 DEF Apart
<1>13. ASSUME NEW x \in Addresses PROVE Within(x, T) <=> Within(x, S)
  <2>1. ASSUME Within(x, T) PROVE Within(x, S)
    <3>1. PICK c \in T : \E i \in 1..Len(c) : x = c[i]
      BY <2>1 DEF Within
    <3>2. PICK i \in 1..Len(c) : x = c[i]
      BY <3>1
    <3>3. PICK b \in S : c = Exchange(b, n, m)
      BY <1>8
    <3>4. i \in 1..Len(b) /\ x = Exchanged(b[i], n, m)
      BY <1>9, <3>2, <3>3
    <3>5. x \in A
      BY <1>3, <1>10, <3>4
    <3> QED BY <1>5, <3>5 DEF Within
  <2>2. ASSUME Within(x, S) PROVE Within(x, T)
    <3>1. x \in A
      BY <1>1, <2>2 DEF ListNodes
    <3>2. PICK b \in S : \E i \in 1..Len(b) : Exchanged(x, n, m) = b[i]
      BY <1>5, <1>10, <3>1
    <3>3. PICK i \in 1..Len(b) : Exchanged(x, n, m) = b[i]
      BY <3>2
    <3>4. PICK c \in T : c = Exchange(b, n, m)
      BY <1>8
    <3>5. i \in 1..Len(c) /\ c[i] = x
      BY <1>9, <1>10, <3>1, <3>3, <3>4
    <3> QED BY <3>5 DEF Within
  <2> QED BY <2>1, <2>2
<1>14. Chained(g, (S \ S) \cup T)
  <2>1. g \in Heap
    BY <1>7 DEF Swapped
  <2>2. \A d \in T : Chain(g, d)
    BY <1>8, <1>11
  <2>3. \A x \in Addresses : Within(x, T) => h[x] = Free \/ Within(x, S)
    BY <1>13
  <2>4. \A x \in Addresses : ~Within(x, T) /\ ~Within(x, S) => g[x] = h[x]
    BY <1>1, <1>7 DEF Swapped, ListNodes
  <2>5. \A x \in Addresses : ~Within(x, T) /\ Within(x, S) => g[x] = Free \/ g[x].prev # NULL
    BY <1>13
  <2> QED BY <1>12, <2>1, <2>2, <2>3, <2>4, <2>5, Replaced
<1>15. (S \ S) \cup T = T
  OBVIOUS
<1>16. SameData(h, g) /\ \A x \in Addresses : g[x] = Free <=> h[x] = Free
  <2>1. ASSUME NEW x \in Addresses PROVE (g[x] = Free <=> h[x] = Free) /\ g[x].data = h[x].data
    <3>1. CASE x \in A
      <4>1. h[x] # Free
        BY <1>2, <3>1 DEF Linked
      <4> QED BY <1>7, <3>1, <4>1 DEF Swapped
    <3>2. CASE x \notin A
      BY <1>7, <3>2 DEF Swapped
    <3> QED BY <3>1, <3>2
  <2> QED BY <2>1 DEF SameData
<1> QED BY <1>6, <1>7a, <1>14, <1>15, <1>16

\* Two nodes of one list change places: the other lists are as before.
LEMMA SwappedWithin ==
  ASSUME NEW h, NEW S, Chained(h, S), NEW c \in S, NEW i \in 1..Len(c), NEW j \in 1..Len(c)
  PROVE  ExchangedIn(S, c[i], c[j]) = (S \ {c}) \cup {Exchange(c, c[i], c[j])}
<1>1. PICK n \in Addresses : n = c[i]
  BY NodeOf
<1>2. PICK m \in Addresses : m = c[j]
  BY NodeOf
<1>3. ASSUME NEW b \in S \ {c} PROVE Exchange(b, n, m) = b
  <2>1. b \in Seq(Addresses)
    BY ChainOf
  <2>2. PICK e : e = Exchange(b, n, m)
    OBVIOUS
  <2>3. e \in Seq(Addresses) /\ Len(e) = Len(b) /\ \A k \in 1..Len(b) : e[k] = Exchanged(b[k], n, m)
    <3>1. /\ Exchange(b, n, m) \in Seq(Addresses) /\ Len(Exchange(b, n, m)) = Len(b)
          /\ \A k \in 1..Len(b) : Exchange(b, n, m)[k] = Exchanged(b[k], n, m)
      BY <2>1, ExchangeIs
    <3> QED BY <2>2, <3>1
  <2>4. ASSUME NEW k \in 1..Len(b) PROVE e[k] = b[k]
    <3>1. b[k] # n
      BY <1>1, ApartIn
    <3>2. b[k] # m
      BY <1>2, ApartIn
    <3> QED BY <2>3, <3>1, <3>2 DEF Exchanged
  <2>5. e = b
    <3>1. e \in Seq(Addresses) /\ Len(e) = Len(b) /\ \A k \in 1..Len(e) : e[k] = b[k]
      BY <2>3, <2>4
    <3> QED BY ONLY <2>1, <3>1, SeqEqual
  <2> QED BY <2>2, <2>5
<1>4. {Exchange(b, n, m) : b \in S} = (S \ {c}) \cup {Exchange(c, n, m)}
  BY <1>3
<1> QED BY <1>1, <1>2, <1>4 DEF ExchangedIn

-----------------------------------------------------------------------------
(* The first nodes erased.                                                 *)

\* All but the first i nodes of c, and the other lists.
WithoutFirst(S, c, i) ==
  (S \ {c}) \cup (IF i = Len(c) THEN {} ELSE {SubSeq(c, i + 1, Len(c))})

LEMMA RestIs ==
  ASSUME NEW T, NEW c \in Seq(T), NEW i \in 0..(Len(c) - 1)
  PROVE  /\ SubSeq(c, i + 1, Len(c)) \in Seq(T) /\ Len(SubSeq(c, i + 1, Len(c))) = Len(c) - i
         /\ \A j \in 1..(Len(c) - i) : SubSeq(c, i + 1, Len(c))[j] = c[i + j]
<1>1. PICK n \in Nat : n = Len(c)
  OBVIOUS
<1>2. PICK s : s = SubSeq(c, i + 1, n)
  OBVIOUS
<1>3. s \in Seq(T) /\ Len(s) = n - i /\ \A j \in 1..(n - i) : s[j] = c[i + j]
  BY <1>1, <1>2
<1> QED BY <1>1, <1>2, <1>3

\* Erasing the first of the rest leaves the rest after it.
LEMMA RestOfRest ==
  ASSUME NEW h, NEW S, Chained(h, S), NEW c \in S, NEW g, NEW i \in 0..(Len(c) - 1),
         Chained(g, WithoutFirst(S, c, i))
  PROVE  /\ SubSeq(c, i + 1, Len(c)) \in WithoutFirst(S, c, i)
         /\ OneLess(WithoutFirst(S, c, i), SubSeq(c, i + 1, Len(c)), 1) = WithoutFirst(S, c, i + 1)
<1>1. c \in Seq(Addresses) /\ Len(c) \in Nat \ {0}
  BY ChainOf
<1>2. PICK L \in Nat \ {0} : L = Len(c)
  BY <1>1
<1>3. PICK d : d = SubSeq(c, i + 1, L)
  OBVIOUS
<1>4. d \in Seq(Addresses) /\ Len(d) = L - i /\ \A j \in 1..(L - i) : d[j] = c[i + j]
  <2>1. /\ SubSeq(c, i + 1, Len(c)) \in Seq(Addresses) /\ Len(SubSeq(c, i + 1, Len(c))) = Len(c) - i
        /\ \A j \in 1..(Len(c) - i) : SubSeq(c, i + 1, Len(c))[j] = c[i + j]
    BY <1>1, RestIs
  <2> QED BY <1>2, <1>3, <2>1
<1>5. WithoutFirst(S, c, i) = (S \ {c}) \cup {d}
  BY <1>2, <1>3 DEF WithoutFirst
<1>6. d \notin S \ {c}
  <2>1. 1 \in 1..Len(d) /\ i + 1 \in 1..Len(c) /\ d[1] = c[i + 1]
    BY <1>2, <1>4
  <2>2. d \in S => d = c
    BY <2>1, ApartIn
  <2> QED BY <2>2
<1>7. ((S \ {c}) \cup {d}) \ {d} = S \ {c}
  BY <1>6
<1>8. CASE i + 1 = L
  <2>1. OneLess((S \ {c}) \cup {d}, d, 1) = (((S \ {c}) \cup {d}) \ {d}) \cup {}
    BY <1>2, <1>4, <1>8 DEF OneLess
  <2>2. WithoutFirst(S, c, i + 1) = (S \ {c}) \cup {}
    BY <1>2, <1>8 DEF WithoutFirst
  <2> QED BY <1>2, <1>3, <1>5, <1>7, <2>1, <2>2
<1>9. CASE i + 1 # L
  <2>1. PICK k \in 0..(L - 1) : k = i + 1
    BY <1>2, <1>9
  <2>2. PICK e : e = SubSeq(c, k + 1, L)
    OBVIOUS
  <2>3. e \in Seq(Addresses) /\ Len(e) = L - k /\ \A j \in 1..(L - k) : e[j] = c[k + j]
    <3>1. k \in 0..(Len(c) - 1)
      BY <1>2, <2>1
    <3>2. /\ SubSeq(c, k + 1, Len(c)) \in Seq(Addresses) /\ Len(SubSeq(c, k + 1, Len(c))) = Len(c) - k
          /\ \A j \in 1..(Len(c) - k) : SubSeq(c, k + 1, Len(c))[j] = c[k + j]
      BY <1>1, <3>1, RestIs
    <3> QED BY <1>2, <2>2, <3>2
  <2>4. PICK b : b = CutOut(d, 1)
    OBVIOUS
  <2>5. b \in Seq(Addresses) /\ Len(b) = Len(d) - 1 /\ \A j \in 1..(Len(d) - 1) : b[j] = d[j + 1]
    <3>1. 1 \in 1..Len(d)
      BY <1>2, <1>4
    <3>2. /\ CutOut(d, 1) \in Seq(Addresses) /\ Len(CutOut(d, 1)) = Len(d) - 1
          /\ \A j \in 1..(Len(d) - 1) : CutOut(d, 1)[j] = IF j < 1 THEN d[j] ELSE d[j + 1]
      BY <1>4, <3>1, CutOutIs
    <3>3. \A j \in 1..(Len(d) - 1) : ~(j < 1)
      BY <1>2, <1>4
    <3> QED BY <2>4, <3>2, <3>3
  <2>6. b = e
    <3>1. Len(b) = Len(e) /\ Len(b) = L - k
      BY <1>2, <1>4, <2>1, <2>3, <2>5
    <3>2. ASSUME NEW j \in 1..Len(b) PROVE b[j] = e[j]
      <4>1. j \in 1..(L - k) /\ j + 1 \in 1..(L - i) /\ j \in 1..(Len(d) - 1) /\ i + (j + 1) = k + j
        BY <1>2, <1>4, <2>1, <3>1
      <4>2. b[j] = d[j + 1]
        BY <2>5, <4>1
      <4>3. d[j + 1] = c[i + (j + 1)]
        BY <1>4, <4>1
      <4>4. e[j] = c[k + j]
        BY <2>3, <4>1
      <4> QED BY <4>1, <4>2, <4>3, <4>4
    <3> QED BY <2>3, <2>5, <3>1, <3>2, SeqEqual
  <2>7. OneLess((S \ {c}) \cup {d}, d, 1) = (((S \ {c}) \cup {d}) \ {d}) \cup {b}
    BY <1>2, <1>4, <1>9, <2>4 DEF OneLess
  <2>8. WithoutFirst(S, c, k) = (S \ {c}) \cup {e}
    BY <1>2, <2>1, <2>2, <1>9 DEF WithoutFirst
  <2> QED BY <1>2, <1>3, <1>5, <1>7, <2>1, <2>6, <2>7, <2>8
<1> QED BY <1>8, <1>9

HeadLoops == [heap : Heap, head : Pointees]

\* Where the loop is after i rounds.
Beheadings(h, S, c, i) ==
  {l \in HeadLoops :
     /\ Chained(l.heap, WithoutFirst(S, c, i)) /\ SameData(h, l.heap)
     /\ \A x \in Addresses : l.heap[x] # Free => h[x] # Free
     /\ l.head = IF i < Len(c) THEN c[i + 1] ELSE NULL}

\* One more round of clear and shift_left,
LEMMA HeadErased ==
  ASSUME NEW h, NEW S, Chained(h, S), NEW c \in S, NEW i \in 1..Len(c),
         NEW l \in Beheadings(h, S, c, i - 1)
  PROVE  EraseHead(l) \in Beheadings(h, S, c, i)
<1>1. PICK L \in Nat \ {0} : L = Len(c)
  BY ChainOf
<1>2. c \in Seq(Addresses)
  BY ChainOf
<1>3. PICK j \in 0..(L - 1) : j = i - 1 /\ i = j + 1
  BY <1>1
<1>4. PICK f \in Heap : f = l.heap
  BY DEF Beheadings, HeadLoops
<1>5. /\ Chained(f, WithoutFirst(S, c, j)) /\ SameData(h, f)
      /\ \A x \in Addresses : f[x] # Free => h[x] # Free
  BY <1>3, <1>4 DEF Beheadings
<1>6. l.head = c[i]
  <2>1. i - 1 < Len(c) /\ i - 1 + 1 = i
    BY <1>1
  <2> QED BY <2>1 DEF Beheadings
<1>7. PICK Q : Q = WithoutFirst(S, c, j)
  OBVIOUS
<1>8. PICK d : d = SubSeq(c, i, L)
  OBVIOUS
<1>9. d \in Q /\ OneLess(Q, d, 1) = WithoutFirst(S, c, i) /\ Chained(f, Q)
  <2>1. /\ SubSeq(c, j + 1, Len(c)) \in WithoutFirst(S, c, j)
        /\ OneLess(WithoutFirst(S, c, j), SubSeq(c, j + 1, Len(c)), 1) = WithoutFirst(S, c, j + 1)
    <3>1. j \in 0..(Len(c) - 1)
      BY <1>1
    <3> QED BY <1>5, <3>1, RestOfRest
  <2> QED BY <1>1, <1>3, <1>5, <1>7, <1>8, <2>1
<1>10. d \in Seq(Addresses) /\ Len(d) = L - j /\ \A k \in 1..(L - j) : d[k] = c[j + k]
  <2>1. j \in 0..(Len(c) - 1)
    BY <1>1
  <2>2. /\ SubSeq(c, j + 1, Len(c)) \in Seq(Addresses) /\ Len(SubSeq(c, j + 1, Len(c))) = Len(c) - j
        /\ \A k \in 1..(Len(c) - j) : SubSeq(c, j + 1, Len(c))[k] = c[j + k]
    BY <1>2, <2>1, RestIs
  <2> QED BY <1>1, <1>3, <1>8, <2>2
<1>11. 1 \in 1..Len(d) /\ d[1] = c[i] /\ (1 < Len(d) <=> i < L) /\ (i < L => d[2] = c[i + 1])
  BY <1>1, <1>3, <1>10
<1>12. /\ Chained(Erase(f, c[i]), WithoutFirst(S, c, i)) /\ SameData(f, Erase(f, c[i]))
       /\ \A x \in Addresses : Erase(f, c[i])[x] # Free => f[x] # Free
  <2>1. /\ Chained(Erase(f, d[1]), OneLess(Q, d, 1)) /\ SameData(f, Erase(f, d[1]))
        /\ \A x \in Addresses : Erase(f, d[1])[x] # Free => f[x] # Free
    BY <1>9, <1>11, Erased
  <2> QED BY <1>9, <1>11, <2>1
<1>13. f[c[i]].next = IF i < L THEN c[i + 1] ELSE NULL
  <2>1. f[d[1]].next = IF 1 < Len(d) THEN d[1 + 1] ELSE NULL
    BY <1>9, <1>11, NodeOf
  <2> QED BY <1>11, <2>1
<1>14. PICK g : g = Erase(f, c[i])
  OBVIOUS
<1>15. /\ Chained(g, WithoutFirst(S, c, i)) /\ SameData(h, g) /\ g \in Heap
       /\ \A x \in Addresses : g[x] # Free => h[x] # Free
  <2>1. SameData(h, g)
    BY <1>5, <1>12, <1>14, OnlyData
  <2>2. g \in Heap
    BY <1>12, <1>14 DEF Chained
  <2> QED BY <1>5, <1>12, <1>14, <2>1, <2>2
<1>16. PICK q \in Pointees : q = IF i < L THEN c[i + 1] ELSE NULL
  <2>1. i < L => c[i + 1] \in Addresses
    <3>1. i < L => i + 1 \in 1..L
      OBVIOUS
    <3> QED BY <1>1, <1>2, <3>1
  <2> QED BY <2>1 DEF Pointees
<1>17. EraseHead(l) = [heap |-> g, head |-> q]
  BY <1>4, <1>6, <1>13, <1>14, <1>16 DEF EraseHead
<1>18. PICK m : m = [heap |-> g, head |-> q]
  OBVIOUS
<1>19. m \in HeadLoops /\ m.heap = g /\ m.head = q
  BY <1>15, <1>16, <1>18 DEF HeadLoops
<1>20. m \in Beheadings(h, S, c, i)
  BY <1>1, <1>15, <1>16, <1>19 DEF Beheadings
<1> QED BY <1>17, <1>18, <1>20

BeheadingRounds(h, head, k, f) ==
  [i \in 0..k |-> IF i = 0 THEN [heap |-> h, head |-> head] ELSE EraseHead(f[i - 1])]

LEMMA BeheadedUnfolds ==
  ASSUME NEW h, NEW head, NEW k, NEW g, g = BeheadingRounds(h, head, k, g)
  PROVE  \E f : f = BeheadingRounds(h, head, k, f) /\ Beheaded(h, head, k) = f[k].heap
BY Zenon DEF Beheaded, BeheadingRounds

\* and all of them.
LEMMA BeheadedIs ==
  ASSUME NEW h, NEW S, Chained(h, S), NEW c \in S, NEW k \in 0..Len(c)
  PROVE  /\ Chained(Beheaded(h, c[1], k), WithoutFirst(S, c, k))
         /\ SameData(h, Beheaded(h, c[1], k))
<1>1. PICK L \in Nat \ {0} : L = Len(c)
  BY ChainOf
<1>2. c \in Seq(Addresses) /\ h \in Heap /\ k \in Nat
  <2>1. c \in Seq(Addresses) /\ h \in Heap
    BY ChainOf
  <2> QED BY <1>1, <2>1
<1> DEFINE good == [i \in 0..k |-> Beheadings(h, S, c, i)]
           body == [x \in HeadLoops |-> EraseHead(x)]
           s == [heap |-> h, head |-> c[1]]
<1>3. s \in good[0]
  <2>1. WithoutFirst(S, c, 0) = S
    <3>1. SubSeq(c, 0 + 1, Len(c)) = c
      BY <1>2, WholeList
    <3>2. WithoutFirst(S, c, 0) = (S \ {c}) \cup {c}
      BY <1>1, <3>1 DEF WithoutFirst
    <3> QED BY <3>2
  <2>2. SameData(h, h)
    BY DEF SameData
  <2>3. c[1] \in Pointees
    BY <1>1, <1>2 DEF Pointees
  <2>4. PICK m : m = s
    OBVIOUS
  <2>5. m \in HeadLoops /\ m.heap = h /\ m.head = c[1]
    BY <1>2, <2>3, <2>4 DEF HeadLoops
  <2>6. m \in Beheadings(h, S, c, 0)
    BY <1>1, <2>1, <2>2, <2>5 DEF Beheadings
  <2> QED BY <2>4, <2>6
<1>4. ASSUME NEW i \in 1..k, NEW x \in good[i - 1]
      PROVE  x \in HeadLoops /\ EraseHead(x) \in good[i]
  <2>1. i - 1 \in 0..k /\ i \in 0..k /\ i \in 1..Len(c)
    BY <1>1
  <2>2. x \in Beheadings(h, S, c, i - 1)
    BY <2>1, <1>4
  <2>3. EraseHead(x) \in Beheadings(h, S, c, i)
    BY <2>1, <2>2, HeadErased
  <2> QED BY <2>1, <2>2, <2>3 DEF Beheadings
<1>5. PICK f : f = Rounds(k, s, body, f) /\ \A i \in 0..k : f[i] \in good[i]
  <2>1. \A i \in 1..k : \A x \in good[i - 1] : body[x] \in good[i]
    BY <1>4
  <2> HIDE DEF good, body
  <2> QED BY <1>2, <1>3, <2>1, LoopRuns
<1>6. f = BeheadingRounds(h, c[1], k, f)
  <2>1. ASSUME NEW i \in 0..k PROVE f[i] = IF i = 0 THEN s ELSE EraseHead(f[i - 1])
    <3>1. f[i] = IF i = 0 THEN s ELSE body[f[i - 1]]
      BY <1>5, Zenon DEF Rounds
    <3>2. CASE i = 0
      BY <3>1, <3>2
    <3>3. CASE i # 0
      <4>1. i \in 1..k /\ i - 1 \in 0..k
        BY <3>3
      <4>2. f[i - 1] \in good[i - 1]
        BY <1>5, <4>1
      <4>3. f[i - 1] \in HeadLoops
        BY <1>4, <4>1, <4>2
      <4> QED BY <3>1, <3>3, <4>3
    <3> QED BY <3>2, <3>3
  <2>2. f = [i \in 0..k |-> f[i]]
    BY <1>5 DEF Rounds
  <2> QED BY <2>1, <2>2 DEF BeheadingRounds
<1>7. PICK g : g = BeheadingRounds(h, c[1], k, g) /\ Beheaded(h, c[1], k) = g[k].heap
  BY <1>6, BeheadedUnfolds
<1>8. \A i \in 0..k : g[i] \in good[i]
  <2>1. \A i \in 0..k : g[i] = IF i = 0 THEN s ELSE EraseHead(g[i - 1])
    BY <1>7, Zenon DEF BeheadingRounds
  <2>2. g[0] \in good[0]
    BY <1>2, <1>3, <2>1
  <2>3. ASSUME NEW i \in 1..k, g[i - 1] \in good[i - 1] PROVE g[i] \in good[i]
    <3>1. EraseHead(g[i - 1]) \in good[i]
      BY <1>4, <2>3
    <3>2. i \in 0..k /\ i # 0
      OBVIOUS
    <3>3. g[i] = EraseHead(g[i - 1])
      BY <2>1, <3>2
    <3> QED BY <3>1, <3>3
  <2> HIDE DEF good
  <2> QED BY <1>2, <2>2, <2>3, LoopKeeps
<1>9. g[k] \in Beheadings(h, S, c, k)
  BY <1>2, <1>8
<1> QED BY <1>7, <1>9 DEF Beheadings

-----------------------------------------------------------------------------
(* A list reversed.                                                        *)

\* c with its first p nodes and its last p exchanged, end for end.
TurnedOver(c, p) ==
  [j \in 1..Len(c) |-> IF j <= p \/ j > Len(c) - p THEN c[Len(c) - j + 1] ELSE c[j]]

LEMMA TurnedOverIs ==
  ASSUME NEW T, NEW c \in Seq(T), NEW p \in Nat
  PROVE  /\ TurnedOver(c, p) \in Seq(T) /\ Len(TurnedOver(c, p)) = Len(c)
         /\ \A j \in 1..Len(c) :
              TurnedOver(c, p)[j] = IF j <= p \/ j > Len(c) - p THEN c[Len(c) - j + 1] ELSE c[j]
<1>1. PICK n \in Nat : n = Len(c)
  OBVIOUS
<1>2. PICK e : e = [j \in 1..n |-> IF j <= p \/ j > n - p THEN c[n - j + 1] ELSE c[j]]
  OBVIOUS
<1>3. \A j \in 1..n : c[n - j + 1] \in T /\ c[j] \in T
  <2>1. \A j \in 1..n : n - j + 1 \in 1..n
    OBVIOUS
  <2> QED BY <1>1, <2>1
<1>4. /\ e \in Seq(T) /\ Len(e) = n
      /\ \A j \in 1..n : e[j] = IF j <= p \/ j > n - p THEN c[n - j + 1] ELSE c[j]
  BY <1>2, <1>3
<1>5. TurnedOver(c, p) = e
  BY <1>1, <1>2 DEF TurnedOver
<1> QED BY <1>1, <1>4, <1>5

LEMMA NothingTurned ==
  ASSUME NEW T, NEW c \in Seq(T)
  PROVE  TurnedOver(c, 0) = c
<1>1. PICK e : e = TurnedOver(c, 0)
  OBVIOUS
<1>2. /\ e \in Seq(T) /\ Len(e) = Len(c)
      /\ \A j \in 1..Len(c) : e[j] = IF j <= 0 \/ j > Len(c) - 0 THEN c[Len(c) - j + 1] ELSE c[j]
  BY <1>1, TurnedOverIs
<1>3. \A j \in 1..Len(e) : e[j] = c[j]
  BY <1>2
<1>4. e = c
  BY <1>2, <1>3, SeqEqual
<1> QED BY <1>1, <1>4

\* Where the ends meet, all is turned.
LEMMA AllTurned ==
  ASSUME NEW T, NEW c \in Seq(T), NEW p \in Nat, p + p = Len(c) \/ p + p + 1 = Len(c)
  PROVE  TurnedOver(c, p) = Reverse(c)
<1>1. PICK n \in Nat : n = Len(c)
  OBVIOUS
<1>2. PICK e : e = TurnedOver(c, p)
  OBVIOUS
<1>3. /\ e \in Seq(T) /\ Len(e) = n
      /\ \A j \in 1..n : e[j] = IF j <= p \/ j > n - p THEN c[n - j + 1] ELSE c[j]
  BY <1>1, <1>2, TurnedOverIs
<1>4. PICK r : r = Reverse(c)
  OBVIOUS
<1>5. r \in Seq(T) /\ Len(r) = n /\ \A j \in 1..n : r[j] = c[n - j + 1]
  BY <1>1, <1>4, ReverseIs
<1>6. ASSUME NEW j \in 1..n PROVE e[j] = r[j]
  <2>1. CASE j <= p \/ j > n - p
    BY <1>3, <1>5, <2>1
  <2>2. CASE ~(j <= p \/ j > n - p)
    <3>1. n - j + 1 = j
      BY <1>1, <2>2
    <3> QED BY <1>3, <1>5, <2>2, <3>1
  <2> QED BY <2>1, <2>2
<1>7. e = r
  BY <1>3, <1>5, <1>6, SeqEqual
<1> QED BY <1>2, <1>4, <1>7

TurnedIn(S, c, p) == (S \ {c}) \cup {TurnedOver(c, p)}

ReversalLoops == [heap : Heap, head : Addresses, tail : Addresses]

SameNodes(h, g) == \A x \in Addresses : g[x] = Free <=> h[x] = Free

\* Where the loop is after k rounds: on its way or where the ends met.
Reversing(h, S, c, k, l) ==
  /\ k + k + 1 <= Len(c)
  /\ Chained(l.heap, TurnedIn(S, c, k))
  /\ l.head = c[k + 1] /\ l.tail = c[Len(c) - k]

Reversed(S, c, l) ==
  /\ Chained(l.heap, (S \ {c}) \cup {Reverse(c)})
  /\ l.head = l.tail

Reversals(h, S, c, k) ==
  {l \in ReversalLoops : /\ SameData(h, l.heap) /\ SameNodes(h, l.heap)
                         /\ Reversing(h, S, c, k, l) \/ Reversed(S, c, l)}

OneTurn(S, c, i, j, f, g) ==
  /\ Chained(g, TurnedIn(S, c, i)) /\ SameData(f, g) /\ SameNodes(f, g)
  /\ f[c[i]].next = c[i + 1] /\ f[c[j]].prev = c[j - 1]

\* Two nodes as far from their ends of the list are swapped: the list is turned over by
\* one node more at both ends.
LEMMA EndsTurned ==
  ASSUME NEW h, NEW S, Chained(h, S), NEW c \in S, NEW p \in Nat, p + p + 1 < Len(c),
         NEW i \in 1..Len(c), i = p + 1, NEW j \in 1..Len(c), j = Len(c) - p,
         NEW f, Chained(f, TurnedIn(S, c, p))
  PROVE  OneTurn(S, c, i, j, f, Swap(f, c[i], c[j]))
<1>1. PICK L \in Nat \ {0} : L = Len(c)
  BY ChainOf
<1>2. c \in Seq(Addresses)
  BY ChainOf
<1>3. PICK d : d = TurnedOver(c, p)
  OBVIOUS
<1>4. /\ d \in Seq(Addresses) /\ Len(d) = L
      /\ \A t \in 1..L : d[t] = IF t <= p \/ t > L - p THEN c[L - t + 1] ELSE c[t]
  BY <1>1, <1>2, <1>3, TurnedOverIs
<1>5. PICK Q : Q = (S \ {c}) \cup {d}
  OBVIOUS
<1>6. Chained(f, Q) /\ d \in Q
  BY <1>3, <1>5 DEF TurnedIn
<1>60. i \in 1..Len(d) /\ j \in 1..Len(d)
  BY ONLY <1>1, <1>4, i \in 1..Len(c), j \in 1..Len(c)
<1>7. i \in 1..L /\ i = p + 1 /\ i + 1 \in 1..L /\ i <= L - p /\ i + 1 <= L - p
  BY <1>1
<1>8. j \in 1..L /\ j = L - p /\ j - 1 \in 1..L /\ j > 1 /\ j > p /\ j - 1 > p
  BY <1>1
<1>9. /\ d[i] = c[i] /\ d[i + 1] = c[i + 1] /\ d[j] = c[j] /\ d[j - 1] = c[j - 1]
  BY <1>4, <1>7, <1>8
<1>10. f[c[i]].next = c[i + 1] /\ f[c[j]].prev = c[j - 1]
  <2>1. i \in 1..Len(d) /\ j \in 1..Len(d) /\ i < Len(d) /\ j > 1
    BY <1>4, <1>60, <1>7, <1>8
  <2>2. f[d[i]].next = (IF i < Len(d) THEN d[i + 1] ELSE NULL)
    BY <1>6, <2>1, NodeOf
  <2>3. f[d[j]].prev = (IF j > 1 THEN d[j - 1] ELSE NULL)
    BY <1>6, <2>1, NodeOf
  <2> QED BY <1>9, <2>1, <2>2, <2>3
<1>11. PICK n \in Addresses : n = c[i] /\ n = d[i]
  <2>1. c[i] \in Addresses
    BY <1>1, <1>2
  <2> QED BY <1>9, <2>1
<1>12. PICK m \in Addresses : m = c[j] /\ m = d[j]
  <2>1. c[j] \in Addresses
    BY <1>1, <1>2
  <2> QED BY <1>9, <2>1
<1>13. PICK g : g = Swap(f, n, m)
  OBVIOUS
<1>14. Chained(g, ExchangedIn(Q, n, m)) /\ SameData(f, g) /\ SameNodes(f, g)
  <2>1. Within(n, Q) /\ Within(m, Q)
    BY ONLY <1>6, <1>60, <1>11, <1>12 DEF Within
  <2>2. /\ Chained(Swap(f, n, m), ExchangedIn(Q, n, m))
        /\ SameData(f, Swap(f, n, m))
        /\ \A x \in Addresses : Swap(f, n, m)[x] = Free <=> f[x] = Free
    <3>1. Chained(f, Q)
      BY <1>6
    <3> QED BY <2>1, <3>1, SwappedLists
  <2> QED BY <1>13, <2>2 DEF SameNodes
<1>15. ExchangedIn(Q, n, m) = (Q \ {d}) \cup {Exchange(d, n, m)}
  <2>1. i \in 1..Len(d) /\ j \in 1..Len(d)
    BY <1>60
  <2>2. ExchangedIn(Q, d[i], d[j]) = (Q \ {d}) \cup {Exchange(d, d[i], d[j])}
    BY <1>6, <2>1, SwappedWithin
  <2> QED BY <1>11, <1>12, <2>2
<1>16. Q \ {d} = S \ {c}
  <2>1. d \in S => d = c
    BY <1>1, <1>4, <1>9, ApartIn
  <2> QED BY <1>5, <2>1
<1>17. PICK e : e = TurnedOver(c, p + 1)
  OBVIOUS
<1>18. /\ e \in Seq(Addresses) /\ Len(e) = L
       /\ \A k \in 1..L : e[k] = IF k <= p + 1 \/ k > L - (p + 1) THEN c[L - k + 1] ELSE c[k]
  <2>1. PICK p1 \in Nat : p1 = p + 1
    OBVIOUS
  <2>2. e = TurnedOver(c, p1)
    BY <1>17, <2>1
  <2>3. /\ e \in Seq(Addresses) /\ Len(e) = L
        /\ \A k \in 1..L : e[k] = IF k <= p1 \/ k > L - p1 THEN c[L - k + 1] ELSE c[k]
    BY <1>1, <1>2, <2>2, TurnedOverIs
  <2> QED BY <2>1, <2>3
<1>19. PICK x : x = Exchange(d, n, m)
  OBVIOUS
<1>20. /\ x \in Seq(Addresses) /\ Len(x) = L
       /\ \A k \in 1..L : x[k] = Exchanged(d[k], n, m)
  <2>1. /\ Exchange(d, n, m) \in Seq(Addresses) /\ Len(Exchange(d, n, m)) = Len(d)
        /\ \A k \in 1..Len(d) : Exchange(d, n, m)[k] = Exchanged(d[k], n, m)
    <3>1. d \in Seq(Addresses)
      BY <1>4
    <3> QED BY <3>1, ExchangeIs
  <2> QED BY <1>4, <1>19, <2>1
<1>21. ASSUME NEW k \in 1..L PROVE x[k] = e[k]
  <2>1. d[k] = n <=> k = i
    <3>1. k \in 1..Len(d)
      BY <1>4
    <3>2. d[k] = d[i] => k = i
      BY <1>6, <1>60, <3>1, ApartIn
    <3> QED BY <1>11, <3>2
  <2>2. d[k] = m <=> k = j
    <3>1. k \in 1..Len(d)
      BY <1>4
    <3>2. d[k] = d[j] => k = j
      BY <1>6, <1>60, <3>1, ApartIn
    <3> QED BY <1>12, <3>2
  <2>3. x[k] = IF k = i THEN c[j] ELSE IF k = j THEN c[i] ELSE d[k]
    BY <1>11, <1>12, <1>20, <2>1, <2>2 DEF Exchanged
  <2>4. CASE k = i
    <3>1. L - k + 1 = j /\ k <= p + 1
      BY <1>7, <1>8, <2>4
    <3> QED BY <1>18, <2>3, <2>4, <3>1
  <2>5. CASE k = j /\ k # i
    <3>1. L - k + 1 = i /\ k > L - (p + 1)
      BY <1>7, <1>8, <2>5
    <3> QED BY <1>18, <2>3, <2>5, <3>1
  <2>6. CASE k # i /\ k # j
    <3>1. k <= p \/ k > L - p <=> k <= p + 1 \/ k > L - (p + 1)
      BY <1>7, <1>8, <2>6
    <3> QED BY <1>4, <1>18, <2>3, <2>6, <3>1
  <2> QED BY <2>4, <2>5, <2>6
<1>22. x = e
  BY <1>18, <1>20, <1>21, SeqEqual
<1>23. Chained(g, (S \ {c}) \cup {e})
  BY <1>14, <1>15, <1>16, <1>19, <1>22
<1>24. TurnedIn(S, c, i) = (S \ {c}) \cup {e}
  BY <1>7, <1>17 DEF TurnedIn
<1> QED BY <1>10, <1>11, <1>12, <1>13, <1>14, <1>23, <1>24 DEF OneTurn

\* One more round of reverse, also after it has met the middle,
LEMMA EndsSwapped ==
  ASSUME NEW h, NEW S, Chained(h, S), NEW c \in S, NEW k \in Nat \ {0},
         NEW l \in Reversals(h, S, c, k - 1)
  PROVE  SwapEnds(l) \in Reversals(h, S, c, k)
<1>1. PICK L \in Nat \ {0} : L = Len(c)
  BY ChainOf
<1>2. c \in Seq(Addresses)
  BY ChainOf
<1>3. PICK p \in Nat : p = k - 1 /\ k = p + 1
  OBVIOUS
<1>4. /\ l \in ReversalLoops /\ SameData(h, l.heap) /\ SameNodes(h, l.heap)
      /\ Reversing(h, S, c, p, l) \/ Reversed(S, c, l)
  BY <1>3 DEF Reversals
<1>5. CASE Reversed(S, c, l)
  <2>1. SwapEnds(l) = l
    BY <1>5 DEF Reversed, SwapEnds
  <2> QED BY <1>4, <1>5, <2>1 DEF Reversals
<1>6. CASE Reversing(h, S, c, p, l) /\ p + p + 1 = L
  <2>1. p + 1 = Len(c) - p
    BY <1>1, <1>6
  <2>2. l.head = l.tail
    BY <1>6, <2>1 DEF Reversing
  <2>3. SwapEnds(l) = l
    BY <2>2 DEF SwapEnds
  <2>4. TurnedOver(c, p) = Reverse(c)
    BY <1>1, <1>2, <1>6, AllTurned
  <2>5. Reversed(S, c, l)
    BY <1>6, <2>2, <2>4 DEF Reversing, Reversed, TurnedIn
  <2> QED BY <1>4, <2>3, <2>5 DEF Reversals
<1>7. CASE Reversing(h, S, c, p, l) /\ p + p + 1 # L
  <2>1. p + p + 1 < L
    BY <1>1, <1>7 DEF Reversing
  <2>2. PICK f \in Heap : f = l.heap
    BY <1>4 DEF ReversalLoops
  <2>3. /\ Chained(f, TurnedIn(S, c, p)) /\ SameData(h, f) /\ SameNodes(h, f)
        /\ l.head = c[p + 1] /\ l.tail = c[L - p]
    BY <1>1, <1>4, <1>7, <2>2 DEF Reversing
  <2>4. PICK g : g = Swap(f, c[p + 1], c[L - p])
    OBVIOUS
  <2>5. /\ Chained(g, TurnedIn(S, c, k)) /\ SameData(f, g) /\ SameNodes(f, g)
        /\ f[c[p + 1]].next = c[p + 2] /\ f[c[L - p]].prev = c[L - p - 1]
    <3>1. p + p + 1 < Len(c) /\ Chained(f, TurnedIn(S, c, p))
      BY <1>1, <2>1, <2>3
    <3>2. PICK i \in 1..Len(c) : i = p + 1
      BY <1>1, <2>1
    <3>3. PICK j \in 1..Len(c) : j = Len(c) - p
      <4>1. L - p \in 1..L
        BY <1>1, <2>1
      <4> QED BY <1>1, <4>1
    <3>4. OneTurn(S, c, i, j, f, Swap(f, c[i], c[j]))
      BY <3>1, <3>2, <3>3, EndsTurned
    <3>5. k = i /\ p + 1 = i /\ i + 1 = p + 2 /\ L - p = j /\ L - p - 1 = j - 1
      BY <1>1, <1>3, <3>2, <3>3
    <3> QED BY <2>4, <3>4, <3>5 DEF OneTurn
  <2>6. SameData(h, g) /\ SameNodes(h, g) /\ g \in Heap
    <3>1. \A x \in Addresses : g[x] # Free => f[x] # Free
      BY <2>5 DEF SameNodes
    <3>2. SameData(h, g)
      BY <2>3, <2>5, <3>1, OnlyData
    <3> QED BY <2>3, <2>5, <3>2 DEF SameNodes, Chained
  <2>7. p + 1 \in 1..L /\ L - p \in 1..L /\ p + 2 \in 1..L /\ L - p - 1 \in 1..L /\ p + 1 # L - p
    BY <1>1, <2>1
  <2>8. \A i \in 1..L, j \in 1..L : c[i] = c[j] => i = j
    BY <1>1, ApartIn
  <2>9. l.head # l.tail
    BY <2>3, <2>7, <2>8
  <2>10. PICK m : m = [heap |-> g, head |-> c[p + 2],
                       tail |-> IF c[p + 2] = c[L - p] THEN c[p + 2] ELSE c[L - p - 1]]
    OBVIOUS
  <2>11. SwapEnds(l) = m
    BY <2>2, <2>3, <2>4, <2>5, <2>9, <2>10 DEF SwapEnds
  <2>12. m.heap = g /\ m.head = c[p + 2]
         /\ m.tail = IF c[p + 2] = c[L - p] THEN c[p + 2] ELSE c[L - p - 1]
    BY <2>10
  <2>13. m \in ReversalLoops
    BY <1>1, <1>2, <2>6, <2>7, <2>10 DEF ReversalLoops
  <2>14. CASE p + 2 = L - p
    <3>1. m.head = m.tail
      BY <2>12, <2>14
    <3>2. TurnedOver(c, k) = Reverse(c)
      <4>1. k + k = Len(c) /\ k \in Nat
        BY <1>1, <1>3, <2>14
      <4> QED BY <1>2, <4>1, AllTurned
    <3>3. Reversed(S, c, m)
      BY <2>5, <2>12, <3>1, <3>2 DEF Reversed, TurnedIn
    <3> QED BY <2>6, <2>11, <2>12, <2>13, <3>3 DEF Reversals
  <2>15. CASE p + 2 # L - p
    <3>1. c[p + 2] # c[L - p]
      BY <2>7, <2>8, <2>15
    <3>2. k + k + 1 <= Len(c) /\ k + 1 = p + 2 /\ Len(c) - k = L - p - 1
      BY <1>1, <1>3, <2>1, <2>15
    <3>3. Reversing(h, S, c, k, m)
      BY <2>5, <2>12, <3>1, <3>2 DEF Reversing
    <3> QED BY <2>6, <2>11, <2>12, <2>13, <3>3 DEF Reversals
  <2> QED BY <2>14, <2>15
<1> QED BY <1>4, <1>5, <1>6, <1>7

ReversalRounds(h, n, f) ==
  [i \in 0..Cardinality(Addresses) |->
     IF i = 0 THEN [heap |-> h, head |-> ListBegin(h, n), tail |-> ListEnd(h, n)]
              ELSE SwapEnds(f[i - 1])]

LEMMA ReverseListUnfolds ==
  ASSUME NEW h, NEW n, NEW g, g = ReversalRounds(h, n, g)
  PROVE  \E f : /\ f = ReversalRounds(h, n, f)
                /\ ReverseList(h, n) = f[Cardinality(Addresses)].heap
BY Zenon DEF ReverseList, ReversalRounds

\* and all of them: as many as addresses are enough.
LEMMA ReverseListIs ==
  ASSUME NEW h, NEW S, Chained(h, S), NEW c \in S, NEW j \in 1..Len(c)
  PROVE  /\ Chained(ReverseList(h, c[j]), (S \ {c}) \cup {Reverse(c)})
         /\ SameData(h, ReverseList(h, c[j]))
<1>1. PICK L \in Nat \ {0} : L = Len(c)
  BY ChainOf
<1>2. c \in Seq(Addresses) /\ h \in Heap /\ Chain(h, c) /\ Apart({c})
  BY ChainOf
<1>3. PICK K \in Nat : K = Cardinality(Addresses) /\ L <= K
  BY <1>1, <1>2, ListFits
<1> DEFINE good == [i \in 0..K |-> Reversals(h, S, c, i)]
           body == [x \in ReversalLoops |-> SwapEnds(x)]
           s == [heap |-> h, head |-> ListBegin(h, c[j]), tail |-> ListEnd(h, c[j])]
<1>4. s \in good[0]
  <2>1. TurnedOver(c, 0) = c
    BY <1>2, NothingTurned
  <2>2. SameData(h, h) /\ SameNodes(h, h)
    BY DEF SameData, SameNodes
  <2>3. ListBegin(h, c[j]) = c[1] /\ ListEnd(h, c[j]) = c[L]
    BY <1>1, EndsAre
  <2>4. PICK m : m = [heap |-> h, head |-> c[1], tail |-> c[L]]
    OBVIOUS
  <2>5. m \in ReversalLoops /\ m.heap = h /\ m.head = c[1] /\ m.tail = c[L]
    BY <1>1, <1>2, <2>4 DEF ReversalLoops
  <2>6. Reversing(h, S, c, 0, m)
    <3>1. 0 + 0 + 1 <= Len(c) /\ 0 + 1 = 1 /\ Len(c) - 0 = L
      BY <1>1
    <3>2. (S \ {c}) \cup {c} = S
      OBVIOUS
    <3>3. TurnedIn(S, c, 0) = S
      BY <2>1, <3>2 DEF TurnedIn
    <3> QED BY <2>5, <3>1, <3>3 DEF Reversing
  <2>7. m \in Reversals(h, S, c, 0)
    BY <2>2, <2>5, <2>6 DEF Reversals
  <2> QED BY <2>3, <2>4, <2>7
<1>5. ASSUME NEW i \in 1..K, NEW x \in good[i - 1]
      PROVE  x \in ReversalLoops /\ SwapEnds(x) \in good[i]
  <2>1. i - 1 \in 0..K /\ i \in 0..K /\ i \in Nat \ {0}
    OBVIOUS
  <2>2. x \in Reversals(h, S, c, i - 1)
    BY <2>1, <1>5
  <2>3. SwapEnds(x) \in Reversals(h, S, c, i)
    BY <2>1, <2>2, EndsSwapped
  <2> QED BY <2>1, <2>2, <2>3 DEF Reversals
<1>6. PICK f : f = Rounds(K, s, body, f) /\ \A i \in 0..K : f[i] \in good[i]
  <2>1. \A i \in 1..K : \A x \in good[i - 1] : body[x] \in good[i]
    BY <1>5
  <2> HIDE DEF good, body
  <2> QED BY <1>4, <2>1, LoopRuns
<1>7. f = ReversalRounds(h, c[j], f)
  <2>1. ASSUME NEW i \in 0..K PROVE f[i] = IF i = 0 THEN s ELSE SwapEnds(f[i - 1])
    <3>1. f[i] = IF i = 0 THEN s ELSE body[f[i - 1]]
      BY <1>6, Zenon DEF Rounds
    <3>2. CASE i = 0
      BY <3>1, <3>2
    <3>3. CASE i # 0
      <4>1. i \in 1..K /\ i - 1 \in 0..K
        BY <3>3
      <4>2. f[i - 1] \in good[i - 1]
        BY <1>6, <4>1
      <4>3. f[i - 1] \in ReversalLoops
        BY <1>5, <4>1, <4>2
      <4> QED BY <3>1, <3>3, <4>3
    <3> QED BY <3>2, <3>3
  <2>2. f = [i \in 0..K |-> f[i]]
    BY <1>6 DEF Rounds
  <2> QED BY <1>3, <2>1, <2>2 DEF ReversalRounds
<1>8. PICK g : g = ReversalRounds(h, c[j], g) /\ ReverseList(h, c[j]) = g[K].heap
  BY <1>3, <1>7, ReverseListUnfolds
<1>9. \A i \in 0..K : g[i] \in good[i]
  <2>1. \A i \in 0..K : g[i] = IF i = 0 THEN s ELSE SwapEnds(g[i - 1])
    BY <1>3, <1>8, Zenon DEF ReversalRounds
  <2>2. g[0] \in good[0]
    BY <1>4, <2>1
  <2>3. ASSUME NEW i \in 1..K, g[i - 1] \in good[i - 1] PROVE g[i] \in good[i]
    <3>1. SwapEnds(g[i - 1]) \in good[i]
      BY <1>5, <2>3
    <3>2. i \in 0..K /\ i # 0
      OBVIOUS
    <3>3. g[i] = SwapEnds(g[i - 1])
      BY <2>1, <3>2
    <3> QED BY <3>1, <3>3
  <2> HIDE DEF good
  <2> QED BY <2>2, <2>3, LoopKeeps
<1>10. g[K] \in Reversals(h, S, c, K)
  BY <1>9
<1>11. ~Reversing(h, S, c, K, g[K])
  <2>1. ~(K + K + 1 <= Len(c))
    BY <1>1, <1>3
  <2> QED BY <2>1 DEF Reversing
<1>12. Reversed(S, c, g[K]) /\ SameData(h, g[K].heap)
  BY <1>10, <1>11 DEF Reversals
<1> QED BY <1>8, <1>12 DEF Reversed

-----------------------------------------------------------------------------
(* A list rotated.                                                         *)

LEMMA RemainderIs ==
  ASSUME NEW L \in Nat \ {0}, NEW a \in Nat, NEW q \in Int, NEW r \in 0..(L - 1), a = L * q + r
  PROVE  a % L = r
<1>1. PICK p \in Int, t \in 0..(L - 1) : p = a \div L /\ t = a % L
  OBVIOUS
<1>2. a = L * p + t
  BY <1>1
<1>3. CASE p = q
  BY <1>1, <1>2, <1>3
<1>4. CASE p >= q + 1
  <2>1. L * p >= L * (q + 1)
    BY <1>4
  <2>2. L * (q + 1) = L * q + L
    OBVIOUS
  <2> QED BY <1>2, <2>1, <2>2
<1>5. CASE p + 1 <= q
  <2>1. L * q >= L * (p + 1)
    BY <1>5
  <2>2. L * (p + 1) = L * p + L
    OBVIOUS
  <2> QED BY <1>2, <2>1, <2>2
<1> QED BY <1>3, <1>4, <1>5

\* A number of turns modulo the length, and one turn more.
LEMMA NextTurn ==
  ASSUME NEW L \in Nat \ {0}, NEW k \in Nat
  PROVE  /\ (k + 1) % L = IF (k % L) + 1 = L THEN 0 ELSE (k % L) + 1
         /\ k % L \in 0..(L - 1) /\ 0 % L = 0
<1>1. PICK q \in Int, r \in 0..(L - 1) : q = k \div L /\ r = k % L
  OBVIOUS
<1>2. k = L * q + r
  BY <1>1
<1>3. CASE r + 1 = L
  <2>1. PICK p \in Int : p = q + 1
    OBVIOUS
  <2>2. L * p = L * q + L
    BY <2>1
  <2>3. k + 1 = L * p + 0 /\ k + 1 \in Nat /\ 0 \in 0..(L - 1)
    BY <1>2, <1>3, <2>2
  <2>4. (k + 1) % L = 0
    BY <2>3, RemainderIs
  <2> QED BY <1>1, <1>3, <2>4
<1>4. CASE r + 1 # L
  <2>1. k + 1 = L * q + (r + 1) /\ k + 1 \in Nat /\ r + 1 \in 0..(L - 1)
    BY <1>2, <1>4
  <2>2. (k + 1) % L = r + 1
    BY <2>1, RemainderIs
  <2> QED BY <1>1, <1>4, <2>2
<1>5. 0 % L = 0
  <2>1. L * 0 = 0 /\ 0 = L * 0 + 0 /\ 0 \in 0..(L - 1)
    OBVIOUS
  <2> QED BY <2>1, RemainderIs
<1> QED BY <1>1, <1>3, <1>4, <1>5

\* c from its node r + 1 on and then the first r.
Rotation(c, r) ==
  [j \in 1..Len(c) |-> IF j + r <= Len(c) THEN c[j + r] ELSE c[j + r - Len(c)]]

LEMMA RotationIs ==
  ASSUME NEW T, NEW c \in Seq(T), NEW r \in 0..(Len(c) - 1)
  PROVE  /\ Rotation(c, r) \in Seq(T) /\ Len(Rotation(c, r)) = Len(c)
         /\ \A j \in 1..Len(c) :
              Rotation(c, r)[j] = IF j + r <= Len(c) THEN c[j + r] ELSE c[j + r - Len(c)]
<1>1. PICK n \in Nat : n = Len(c)
  OBVIOUS
<1>2. PICK e : e = [j \in 1..n |-> IF j + r <= n THEN c[j + r] ELSE c[j + r - n]]
  OBVIOUS
<1>3. ASSUME NEW j \in 1..n PROVE (IF j + r <= n THEN c[j + r] ELSE c[j + r - n]) \in T
  <2>1. j + r <= n => j + r \in 1..n
    BY <1>1
  <2>2. ~(j + r <= n) => j + r - n \in 1..n
    BY <1>1
  <2> QED BY <1>1, <2>1, <2>2
<1>4. /\ e \in Seq(T) /\ Len(e) = n
      /\ \A j \in 1..n : e[j] = IF j + r <= n THEN c[j + r] ELSE c[j + r - n]
  BY <1>2, <1>3
<1>5. Rotation(c, r) = e
  BY <1>1, <1>2 DEF Rotation
<1> QED BY <1>1, <1>4, <1>5

LEMMA NotRotated ==
  ASSUME NEW T, NEW c \in Seq(T), Len(c) > 0
  PROVE  Rotation(c, 0) = c
<1>1. PICK n \in Nat \ {0} : n = Len(c)
  OBVIOUS
<1>2. PICK e : e = Rotation(c, 0)
  OBVIOUS
<1>3. /\ e \in Seq(T) /\ Len(e) = n
      /\ \A j \in 1..n : e[j] = IF j + 0 <= n THEN c[j + 0] ELSE c[j + 0 - n]
  <2>1. 0 \in 0..(Len(c) - 1)
    BY <1>1
  <2> QED BY <1>1, <1>2, <2>1, RotationIs
<1>4. \A j \in 1..n : e[j] = c[j]
  BY <1>3
<1>5. e = c
  BY <1>1, <1>3, <1>4, SeqEqual
<1> QED BY <1>2, <1>5

LEMMA RotationParts ==
  ASSUME NEW T, NEW c \in Seq(T), NEW r \in 0..(Len(c) - 1)
  PROVE  SubSeq(c, r + 1, Len(c)) \o SubSeq(c, 1, r) = Rotation(c, r)
<1>1. PICK n \in Nat : n = Len(c)
  OBVIOUS
<1>2. PICK a : a = SubSeq(c, r + 1, n)
  OBVIOUS
<1>3. a \in Seq(T) /\ Len(a) = n - r /\ \A j \in 1..(n - r) : a[j] = c[r + j]
  <2>1. /\ SubSeq(c, r + 1, Len(c)) \in Seq(T) /\ Len(SubSeq(c, r + 1, Len(c))) = Len(c) - r
        /\ \A j \in 1..(Len(c) - r) : SubSeq(c, r + 1, Len(c))[j] = c[r + j]
    BY RestIs
  <2> QED BY <1>1, <1>2, <2>1
<1>4. PICK b : b = SubSeq(c, 1, r)
  OBVIOUS
<1>5. b \in Seq(T) /\ Len(b) = r /\ \A j \in 1..r : b[j] = c[j]
  BY <1>1, <1>4
<1>6. PICK d : d = a \o b
  OBVIOUS
<1>7. /\ d \in Seq(T) /\ Len(d) = n
      /\ \A j \in 1..n : d[j] = IF j <= n - r THEN a[j] ELSE b[j - (n - r)]
  <2>1. /\ d \in Seq(T) /\ Len(d) = Len(a) + Len(b)
        /\ \A j \in 1 .. Len(a) + Len(b) : d[j] = IF j <= Len(a) THEN a[j] ELSE b[j - Len(a)]
    BY <1>3, <1>5, <1>6, ConcatProperties
  <2> QED BY <1>1, <1>3, <1>5, <2>1
<1>8. PICK e : e = Rotation(c, r)
  OBVIOUS
<1>9. /\ e \in Seq(T) /\ Len(e) = n
      /\ \A j \in 1..n : e[j] = IF j + r <= n THEN c[j + r] ELSE c[j + r - n]
  BY <1>1, <1>8, RotationIs
<1>10. ASSUME NEW j \in 1..n PROVE d[j] = e[j]
  <2>1. CASE j <= n - r
    <3>1. j \in 1..(n - r) /\ j + r <= n /\ r + j = j + r
      BY <1>1, <2>1
    <3> QED BY <1>3, <1>7, <1>9, <2>1, <3>1
  <2>2. CASE ~(j <= n - r)
    <3>1. j - (n - r) \in 1..r /\ ~(j + r <= n) /\ j - (n - r) = j + r - n
      BY <1>1, <2>2
    <3>2. b[j - (n - r)] = c[j + r - n]
      BY <1>5, <3>1
    <3> QED BY <1>7, <1>9, <2>2, <3>1, <3>2
  <2> QED BY <2>1, <2>2
<1>11. d = e
  BY <1>7, <1>9, <1>10, SeqEqual
<1> QED BY <1>1, <1>2, <1>4, <1>6, <1>8, <1>11

\* The first of a list becomes the last.
TurnedOnce(c) == [j \in 1..Len(c) |-> IF j < Len(c) THEN c[j + 1] ELSE c[1]]

LEMMA TurnedOnceIs ==
  ASSUME NEW T, NEW c \in Seq(T), Len(c) > 0
  PROVE  /\ TurnedOnce(c) \in Seq(T) /\ Len(TurnedOnce(c)) = Len(c)
         /\ \A j \in 1..Len(c) : TurnedOnce(c)[j] = IF j < Len(c) THEN c[j + 1] ELSE c[1]
<1>1. PICK n \in Nat \ {0} : n = Len(c)
  OBVIOUS
<1>2. PICK e : e = [j \in 1..n |-> IF j < n THEN c[j + 1] ELSE c[1]]
  OBVIOUS
<1>3. ASSUME NEW j \in 1..n PROVE (IF j < n THEN c[j + 1] ELSE c[1]) \in T
  <2>1. (j < n => j + 1 \in 1..n) /\ 1 \in 1..n
    BY <1>1
  <2> QED BY <1>1, <2>1
<1>4. /\ e \in Seq(T) /\ Len(e) = n
      /\ \A j \in 1..n : e[j] = IF j < n THEN c[j + 1] ELSE c[1]
  BY <1>2, <1>3
<1>5. TurnedOnce(c) = e
  BY <1>1, <1>2 DEF TurnedOnce
<1> QED BY <1>1, <1>4, <1>5

LEMMA TurnedOnceMore ==
  ASSUME NEW T, NEW c \in Seq(T), NEW r \in 0..(Len(c) - 1)
  PROVE  TurnedOnce(Rotation(c, r)) = Rotation(c, IF r + 1 = Len(c) THEN 0 ELSE r + 1)
<1>1. PICK n \in Nat \ {0} : n = Len(c)
  <2>1. Len(c) \in Nat
    OBVIOUS
  <2> QED BY <2>1
<1>2. PICK d : d = Rotation(c, r)
  OBVIOUS
<1>3. /\ d \in Seq(T) /\ Len(d) = n
      /\ \A j \in 1..n : d[j] = IF j + r <= n THEN c[j + r] ELSE c[j + r - n]
  BY <1>1, <1>2, RotationIs
<1>4. PICK e : e = TurnedOnce(d)
  OBVIOUS
<1>5. /\ e \in Seq(T) /\ Len(e) = n
      /\ \A j \in 1..n : e[j] = IF j < n THEN d[j + 1] ELSE d[1]
  <2>1. /\ TurnedOnce(d) \in Seq(T) /\ Len(TurnedOnce(d)) = Len(d)
        /\ \A j \in 1..Len(d) : TurnedOnce(d)[j] = IF j < Len(d) THEN d[j + 1] ELSE d[1]
    BY <1>3, TurnedOnceIs
  <2> QED BY <1>3, <1>4, <2>1
<1>6. PICK q \in 0..(n - 1) : q = IF r + 1 = n THEN 0 ELSE r + 1
  <2>1. (IF r + 1 = n THEN 0 ELSE r + 1) \in 0..(n - 1)
    BY <1>1
  <2> QED BY <2>1
<1>7. PICK b : b = Rotation(c, q)
  OBVIOUS
<1>8. /\ b \in Seq(T) /\ Len(b) = n
      /\ \A j \in 1..n : b[j] = IF j + q <= n THEN c[j + q] ELSE c[j + q - n]
  BY <1>1, <1>7, RotationIs
<1>9. ASSUME NEW j \in 1..n PROVE e[j] = b[j]
  <2>1. CASE j < n
    <3>1. e[j] = IF (j + 1) + r <= n THEN c[(j + 1) + r] ELSE c[(j + 1) + r - n]
      BY <1>3, <1>5, <2>1
    <3>2. CASE r + 1 = n
      <4>1. ~((j + 1) + r <= n) /\ (j + 1) + r - n = j /\ j + q = j /\ j <= n
        BY <1>1, <1>6, <3>2
      <4>2. e[j] = c[j]
        BY <3>1, <4>1
      <4>3. b[j] = c[j]
        BY <1>8, <4>1
      <4> QED BY <4>2, <4>3
    <3>3. CASE r + 1 # n
      <4>0. (j + 1) + r = j + q /\ j + q \in Nat
        BY <1>1, <1>6, <3>3
      <4>1. PICK p \in Nat : p = (j + 1) + r /\ p = j + q
        BY <4>0
      <4>2. e[j] = IF p <= n THEN c[p] ELSE c[p - n]
        BY <3>1, <4>1
      <4>3. b[j] = IF p <= n THEN c[p] ELSE c[p - n]
        <5>1. \A i \in 1..n : b[i] = IF i + q <= n THEN c[i + q] ELSE c[i + q - n]
          BY <1>8
        <5>2. b[j] = IF j + q <= n THEN c[j + q] ELSE c[j + q - n]
          BY <5>1, Zenon
        <5> QED BY <4>1, <5>2
      <4> QED BY <4>2, <4>3
    <3> QED BY <3>2, <3>3
  <2>2. CASE j = n
    <3>1. e[j] = c[1 + r]
      <4>1. 1 \in 1..n /\ 1 + r <= n
        BY <1>1
      <4> QED BY <1>3, <1>5, <2>2, <4>1
    <3>2. CASE r + 1 = n
      <4>1. j + q = 1 + r /\ j + q <= n
        BY <1>1, <1>6, <2>2, <3>2
      <4> QED BY <1>8, <3>1, <4>1
    <3>3. CASE r + 1 # n
      <4>1. ~(j + q <= n) /\ j + q - n = 1 + r
        BY <1>1, <1>6, <2>2, <3>3
      <4> QED BY <1>8, <3>1, <4>1
    <3> QED BY <3>2, <3>3
  <2> QED BY <2>1, <2>2
<1>10. e = b
  BY <1>5, <1>8, <1>9, SeqEqual
<1> QED BY <1>1, <1>2, <1>4, <1>6, <1>7, <1>10

RotationLoops == [heap : Heap, head : Addresses, tail : Addresses]

InPlaceOf(S, c, d) == (S \ {c}) \cup {d}

\* A round of rotate_left: the ring is closed and opened again one node further on.
LEMMA HeadMoved ==
  ASSUME NEW h, NEW S, Chained(h, S), NEW c \in S, NEW l \in RotationLoops,
         l.heap = h, l.head = c[1], l.tail = c[Len(c)]
  PROVE  /\ HeadToTail(l) \in RotationLoops
         /\ Chained(HeadToTail(l).heap, InPlaceOf(S, c, TurnedOnce(c)))
         /\ SameData(h, HeadToTail(l).heap) /\ SameNodes(h, HeadToTail(l).heap)
         /\ HeadToTail(l).head = TurnedOnce(c)[1] /\ HeadToTail(l).tail = TurnedOnce(c)[Len(c)]
<1>1. PICK L \in Nat \ {0} : L = Len(c)
  BY ChainOf
<1>2. c \in Seq(Addresses) /\ h \in Heap
  BY ChainOf
<1>3. ASSUME NEW j \in 1..L
      PROVE  /\ c[j] \in Addresses /\ c[j] # NULL /\ h[c[j]] # Free
             /\ h[c[j]].next = IF j < L THEN c[j + 1] ELSE NULL
             /\ h[c[j]].prev = IF j > 1 THEN c[j - 1] ELSE NULL
  BY <1>1, NodeOf
<1>4. \A i \in 1..L, j \in 1..L : c[i] = c[j] => i = j
  BY <1>1, ApartIn
<1>5. 1 \in 1..L /\ L \in 1..L /\ (L > 1 => 2 \in 1..L)
  OBVIOUS
<1>6. PICK a \in Addresses : a = c[1]
  BY <1>3, <1>5
<1>7. PICK z \in Addresses : z = c[L]
  BY <1>3, <1>5
<1>8. a \in Pointees /\ z \in Pointees /\ NULL \in Pointees /\ a # NULL /\ z # NULL
  BY ListAssumption DEF Pointees
<1>9. PICK ring : ring = Join(h, z, a)
  OBVIOUS
<1>10. Joined(h, ring, z, a)
  <2>1. h[a] # Free /\ h[z] # Free
    BY <1>3, <1>5, <1>6, <1>7
  <2> QED BY <1>2, <1>8, <1>9, <2>1, JoinIs
<1>11. ASSUME NEW j \in 1..L
       PROVE  /\ ring[c[j]] # Free /\ ring[c[j]].data = h[c[j]].data
              /\ ring[c[j]].next = IF j = L THEN a ELSE c[j + 1]
              /\ ring[c[j]].prev = IF j = 1 THEN z ELSE c[j - 1]
  <2>1. (c[j] = z <=> j = L) /\ (c[j] = a <=> j = 1)
    BY <1>4, <1>5, <1>6, <1>7
  <2>2. (j # L => j < L) /\ (j # 1 => j > 1)
    OBVIOUS
  <2> QED BY <1>3, <1>10, <2>1, <2>2 DEF Joined
<1>12. PICK i \in 1..L : i = IF L = 1 THEN 1 ELSE 2
  BY <1>5
<1>13. PICK b \in Addresses : b = c[i]
  BY <1>3
<1>14. ring[a].next = b
  BY <1>5, <1>6, <1>11, <1>12, <1>13
<1>15. PICK open : open = WithPrev(ring, b, NULL)
  OBVIOUS
<1>16. PrevSet(ring, open, b, NULL)
  <2>1. ring \in Heap
    BY <1>10 DEF Joined
  <2>2. ring[b] # Free /\ b \in Pointees
    BY <1>11, <1>13 DEF Pointees
  <2> QED BY <1>8, <1>15, <2>1, <2>2, PrevIsSet
<1>17. ASSUME NEW j \in 1..L
       PROVE  /\ open[c[j]] # Free /\ open[c[j]].data = h[c[j]].data
              /\ open[c[j]].next = IF j = L THEN a ELSE c[j + 1]
              /\ open[c[j]].prev = IF j = i THEN NULL ELSE IF j = 1 THEN z ELSE c[j - 1]
  <2>1. c[j] = b <=> j = i
    BY <1>4, <1>13
  <2>2. c[j] \in Addresses /\ c[j] # NULL
    BY <1>3
  <2> QED BY <1>11, <1>16, <2>1, <2>2, ListAssumption DEF PrevSet
<1>18. open[z].next = a
  BY <1>5, <1>7, <1>17
<1>19. PICK g : g = WithNext(open, a, NULL)
  OBVIOUS
<1>20. NextSet(open, g, a, NULL)
  <2>1. open \in Heap
    BY <1>16 DEF PrevSet
  <2>2. open[a] # Free
    BY <1>5, <1>6, <1>17
  <2> QED BY <1>8, <1>19, <2>1, <2>2, NextIsSet
<1>21. ASSUME NEW j \in 1..L
       PROVE  /\ g[c[j]] # Free /\ g[c[j]].data = h[c[j]].data
              /\ g[c[j]].next = IF j = 1 THEN NULL ELSE IF j = L THEN a ELSE c[j + 1]
              /\ g[c[j]].prev = IF j = i THEN NULL ELSE IF j = 1 THEN z ELSE c[j - 1]
  <2>1. c[j] = a <=> j = 1
    BY <1>4, <1>5, <1>6
  <2>2. c[j] \in Addresses /\ c[j] # NULL
    BY <1>3
  <2> QED BY <1>17, <1>20, <2>1, <2>2, ListAssumption DEF NextSet
<1>22. ASSUME NEW x \in Addresses PROVE g[x] = h[x] \/ \E j \in 1..L : x = c[j]
  <2>1. x # a /\ x # z /\ x # b => g[x] = h[x]
    BY <1>10, <1>16, <1>20 DEF Joined, PrevSet, NextSet
  <2> QED BY <1>5, <1>6, <1>7, <1>13, <2>1
<1>23. g \in Heap
  BY <1>20 DEF NextSet
<1>24. PICK d : d = TurnedOnce(c)
  OBVIOUS
<1>25. /\ d \in Seq(Addresses) /\ Len(d) = L
       /\ \A j \in 1..L : d[j] = IF j < L THEN c[j + 1] ELSE a
  <2>1. Len(c) > 0
    BY <1>1
  <2>2. /\ TurnedOnce(c) \in Seq(Addresses) /\ Len(TurnedOnce(c)) = Len(c)
        /\ \A j \in 1..Len(c) : TurnedOnce(c)[j] = IF j < Len(c) THEN c[j + 1] ELSE c[1]
    BY <1>2, <2>1, TurnedOnceIs
  <2> QED BY <1>1, <1>6, <1>24, <2>2
<1>26. ASSUME NEW j \in 1..L
       PROVE  /\ g[d[j]] # Free
              /\ g[d[j]].next = IF j < L THEN d[j + 1] ELSE NULL
              /\ g[d[j]].prev = IF j > 1 THEN d[j - 1] ELSE NULL
  <2>1. CASE j < L
    <3>1. PICK k \in 1..L : k = j + 1 /\ d[j] = c[k] /\ k # 1
      BY <1>25, <2>1
    <3>2. d[j + 1] = IF k = L THEN a ELSE c[k + 1]
      BY <1>25, <2>1, <3>1
    <3>3. (k = i <=> ~(j > 1)) /\ (j > 1 => d[j - 1] = c[k - 1])
      BY <1>12, <1>25, <2>1, <3>1
    <3> QED BY <1>21, <2>1, <3>1, <3>2, <3>3
  <2>2. CASE j = L
    <3>1. d[j] = c[1]
      BY <1>6, <1>25, <2>2
    <3>2. (1 = i <=> ~(j > 1)) /\ (j > 1 => d[j - 1] = z)
      BY <1>7, <1>12, <1>25, <2>2
    <3> QED BY <1>5, <1>21, <2>2, <3>1, <3>2
  <2> QED BY <2>1, <2>2
<1>27. Chain(g, d)
  BY <1>25, <1>26 DEF Chain
<1>28. ASSUME NEW j \in 1..L PROVE \E k \in 1..L : d[j] = c[k] /\ k = IF j < L THEN j + 1 ELSE 1
  BY <1>5, <1>6, <1>25
<1>29. ASSUME NEW j \in 1..L PROVE \E k \in 1..L : c[j] = d[k]
  <2>1. CASE j = 1
    BY <1>5, <1>6, <1>25, <2>1
  <2>2. CASE j # 1
    <3>1. j - 1 \in 1..L /\ j - 1 < L /\ j - 1 + 1 = j
      BY <2>2
    <3> QED BY <1>25, <3>1
  <2> QED BY <2>1, <2>2
<1>30. Apart({d})
  <2>1. ASSUME NEW j \in 1..L, NEW k \in 1..L, d[j] = d[k] PROVE j = k
    <3>1. PICK p \in 1..L : d[j] = c[p] /\ p = IF j < L THEN j + 1 ELSE 1
      BY <1>28
    <3>2. PICK q \in 1..L : d[k] = c[q] /\ q = IF k < L THEN k + 1 ELSE 1
      BY <1>28
    <3>3. c[p] = c[q]
      BY <2>1, <3>1, <3>2
    <3>4. p = q
      BY <1>4, <3>3
    <3> QED BY <3>1, <3>2, <3>4
  <2> QED BY <1>25, <2>1 DEF Apart
<1>31. Takes(h, c, g, d)
  <2>1. \A j \in 1..Len(d) : h[d[j]] = Free \/ \E k \in 1..Len(c) : d[j] = c[k]
    BY <1>1, <1>25, <1>28
  <2>2. \A x \in Addresses : \/ g[x] = h[x]
                             \/ \E j \in 1..Len(d) : x = d[j]
                             \/ \E k \in 1..Len(c) : x = c[k]
    BY <1>1, <1>22
  <2>3. \A j \in 1..Len(c) : \/ \E k \in 1..Len(d) : c[j] = d[k]
                             \/ g[c[j]] = Free
                             \/ g[c[j]].prev # NULL
    BY <1>1, <1>25, <1>29
  <2> QED BY <2>1, <2>2, <2>3 DEF Takes
<1>32. Chained(g, InPlaceOf(S, c, d))
  BY <1>23, <1>27, <1>30, <1>31, OneReplaced DEF InPlaceOf
<1>33. SameData(h, g) /\ SameNodes(h, g)
  <2>1. ASSUME NEW x \in Addresses PROVE (g[x] = Free <=> h[x] = Free) /\ g[x].data = h[x].data
    <3>1. CASE g[x] = h[x]
      BY <3>1
    <3>2. CASE \E j \in 1..L : x = c[j]
      BY <1>3, <1>21, <3>2
    <3> QED BY <1>22, <3>1, <3>2
  <2> QED BY <2>1 DEF SameData, SameNodes
<1>34. HeadToTail(l) = [heap |-> g, head |-> b, tail |-> a]
  <2>1. open = [ring EXCEPT ![b].prev = NULL]
    BY <1>15, ListAssumption DEF WithPrev
  <2>2. g = [open EXCEPT ![a].next = NULL]
    BY <1>8, <1>19 DEF WithNext
  <2>3. ring = Join(l.heap, l.tail, l.head) /\ ring[l.head].next = b /\ open[l.tail].next = a
    BY <1>1, <1>6, <1>7, <1>9, <1>14, <1>18
  <2> QED BY <2>1, <2>2, <2>3 DEF HeadToTail
<1>35. PICK m : m = [heap |-> g, head |-> b, tail |-> a]
  OBVIOUS
<1>36. m \in RotationLoops /\ m.heap = g /\ m.head = b /\ m.tail = a
  BY <1>23, <1>35 DEF RotationLoops
<1>37. d[1] = b /\ d[L] = a
  BY <1>5, <1>6, <1>12, <1>13, <1>25
<1> QED BY <1>1, <1>24, <1>32, <1>33, <1>34, <1>35, <1>36, <1>37

\* Where the loop is after k rounds.
Rotations(h, S, c, k) ==
  {l \in RotationLoops :
     /\ SameData(h, l.heap) /\ SameNodes(h, l.heap)
     /\ Chained(l.heap, InPlaceOf(S, c, Rotation(c, k % Len(c))))
     /\ l.head = Rotation(c, k % Len(c))[1] /\ l.tail = Rotation(c, k % Len(c))[Len(c)]}

LEMMA InPlaceAgain ==
  ASSUME NEW h, NEW S, Chained(h, S), NEW c \in S, NEW r \in 0..(Len(c) - 1), NEW e
  PROVE  /\ InPlaceOf(InPlaceOf(S, c, Rotation(c, r)), Rotation(c, r), e) = InPlaceOf(S, c, e)
         /\ Rotation(c, r) \in InPlaceOf(S, c, Rotation(c, r))
<1>1. c \in Seq(Addresses) /\ Len(c) \in Nat \ {0}
  BY ChainOf
<1>2. PICK d : d = Rotation(c, r)
  OBVIOUS
<1>3. d[1] = c[r + 1] /\ 1 \in 1..Len(d) /\ r + 1 \in 1..Len(c)
  <2>1. /\ Rotation(c, r) \in Seq(Addresses) /\ Len(Rotation(c, r)) = Len(c)
        /\ \A j \in 1..Len(c) :
             Rotation(c, r)[j] = IF j + r <= Len(c) THEN c[j + r] ELSE c[j + r - Len(c)]
    BY <1>1, RotationIs
  <2>2. 1 \in 1..Len(c) /\ 1 + r <= Len(c) /\ 1 + r = r + 1
    BY <1>1
  <2> QED BY <1>1, <1>2, <2>1, <2>2
<1>4. d \notin S \ {c}
  <2>1. d \in S => d = c
    BY <1>3, ApartIn
  <2> QED BY <2>1
<1>5. ((S \ {c}) \cup {d}) \ {d} = S \ {c}
  BY <1>4
<1> QED BY <1>2, <1>5 DEF InPlaceOf

\* After k rounds the list is rotated by k modulo its length.
LEMMA RotatedOn ==
  ASSUME NEW h, NEW S, Chained(h, S), NEW c \in S, NEW k \in Nat, NEW l \in Rotations(h, S, c, k)
  PROVE  HeadToTail(l) \in Rotations(h, S, c, k + 1)
<1>1. PICK L \in Nat \ {0} : L = Len(c)
  BY ChainOf
<1>2. c \in Seq(Addresses)
  BY ChainOf
<1>3. PICK r \in 0..(L - 1) : r = k % L
  <2>1. k % L \in 0..(L - 1)
    BY NextTurn
  <2> QED BY <2>1
<1>4. PICK q \in 0..(L - 1) : q = (k + 1) % L /\ q = IF r + 1 = L THEN 0 ELSE r + 1
  <2>1. (k + 1) % L = IF r + 1 = L THEN 0 ELSE r + 1
    BY <1>3, NextTurn
  <2>2. (IF r + 1 = L THEN 0 ELSE r + 1) \in 0..(L - 1)
    OBVIOUS
  <2> QED BY <2>1, <2>2
<1>5. PICK d : d = Rotation(c, r)
  OBVIOUS
<1>6. PICK T : T = InPlaceOf(S, c, d)
  OBVIOUS
<1>7. d \in T /\ Len(d) = L
  <2>1. r \in 0..(Len(c) - 1)
    BY <1>1
  <2>2. Rotation(c, r) \in InPlaceOf(S, c, Rotation(c, r))
    BY <2>1, InPlaceAgain
  <2>3. Len(Rotation(c, r)) = Len(c)
    BY <1>2, <2>1, RotationIs
  <2> QED BY <1>1, <1>5, <1>6, <2>2, <2>3
<1>8. PICK f : f = l.heap
  OBVIOUS
<1>9. /\ l \in RotationLoops /\ SameData(h, f) /\ SameNodes(h, f) /\ Chained(f, T)
      /\ l.head = d[1] /\ l.tail = d[L]
  BY <1>1, <1>3, <1>5, <1>6, <1>8 DEF Rotations
<1>10. PICK m : m = HeadToTail(l)
  OBVIOUS
<1>11. PICK e : e = TurnedOnce(d)
  OBVIOUS
<1>12. /\ m \in RotationLoops /\ Chained(m.heap, InPlaceOf(T, d, e))
       /\ SameData(f, m.heap) /\ SameNodes(f, m.heap) /\ m.head = e[1] /\ m.tail = e[L]
  <2>1. l.head = d[1] /\ l.tail = d[Len(d)] /\ l.heap = f
    BY <1>7, <1>8, <1>9
  <2>2. /\ HeadToTail(l) \in RotationLoops
        /\ Chained(HeadToTail(l).heap, InPlaceOf(T, d, TurnedOnce(d)))
        /\ SameData(f, HeadToTail(l).heap) /\ SameNodes(f, HeadToTail(l).heap)
        /\ HeadToTail(l).head = TurnedOnce(d)[1] /\ HeadToTail(l).tail = TurnedOnce(d)[Len(d)]
    BY <1>7, <1>9, <2>1, HeadMoved
  <2> QED BY <1>7, <1>10, <1>11, <2>2
<1>13. e = Rotation(c, q)
  <2>1. r \in 0..(Len(c) - 1)
    BY <1>1
  <2>2. TurnedOnce(Rotation(c, r)) = Rotation(c, IF r + 1 = Len(c) THEN 0 ELSE r + 1)
    BY <1>2, <2>1, TurnedOnceMore
  <2> QED BY <1>1, <1>4, <1>5, <1>11, <2>2
<1>14. InPlaceOf(T, d, e) = InPlaceOf(S, c, e)
  <2>1. r \in 0..(Len(c) - 1)
    BY <1>1
  <2>2. InPlaceOf(InPlaceOf(S, c, Rotation(c, r)), Rotation(c, r), e) = InPlaceOf(S, c, e)
    BY <2>1, InPlaceAgain
  <2> QED BY <1>5, <1>6, <2>2
<1>15. SameNodes(h, m.heap)
  BY <1>9, <1>12 DEF SameNodes
<1>16. SameData(h, m.heap)
  <2>1. \A x \in Addresses : m.heap[x] # Free => f[x] # Free
    BY <1>12 DEF SameNodes
  <2> QED BY <1>9, <1>12, <2>1, OnlyData
<1> QED BY <1>1, <1>4, <1>10, <1>12, <1>13, <1>14, <1>15, <1>16 DEF Rotations

RotationRounds(h, n, k, f) ==
  [i \in 0..k |-> IF i = 0 THEN [heap |-> h, head |-> ListBegin(h, n), tail |-> ListEnd(h, n)]
                           ELSE HeadToTail(f[i - 1])]

LEMMA RotateLeftUnfolds ==
  ASSUME NEW h, NEW n, NEW k, NEW g, g = RotationRounds(h, n, k, g)
  PROVE  \E f : f = RotationRounds(h, n, k, f) /\ RotateLeft(h, n, k) = f[k].heap
BY Zenon DEF RotateLeft, RotationRounds

\* All the rounds of rotate_left.
LEMMA RotateLeftIs ==
  ASSUME NEW h, NEW S, Chained(h, S), NEW c \in S, NEW j \in 1..Len(c), NEW k \in Nat
  PROVE  /\ Chained(RotateLeft(h, c[j], k), InPlaceOf(S, c, Rotation(c, k % Len(c))))
         /\ SameData(h, RotateLeft(h, c[j], k))
<1>1. PICK L \in Nat \ {0} : L = Len(c)
  BY ChainOf
<1>2. c \in Seq(Addresses) /\ h \in Heap
  BY ChainOf
<1> DEFINE good == [i \in 0..k |-> Rotations(h, S, c, i)]
           body == [x \in RotationLoops |-> HeadToTail(x)]
           s == [heap |-> h, head |-> ListBegin(h, c[j]), tail |-> ListEnd(h, c[j])]
<1>3. s \in good[0]
  <2>1. 0 % L = 0
    BY NextTurn
  <2>2. Rotation(c, 0) = c
    BY <1>1, <1>2, NotRotated
  <2>3. SameData(h, h) /\ SameNodes(h, h)
    BY DEF SameData, SameNodes
  <2>4. ListBegin(h, c[j]) = c[1] /\ ListEnd(h, c[j]) = c[L]
    BY <1>1, EndsAre
  <2>5. PICK m : m = [heap |-> h, head |-> c[1], tail |-> c[L]]
    OBVIOUS
  <2>6. m \in RotationLoops /\ m.heap = h /\ m.head = c[1] /\ m.tail = c[L]
    BY <1>1, <1>2, <2>5 DEF RotationLoops
  <2>7. InPlaceOf(S, c, c) = S
    BY DEF InPlaceOf
  <2>8. m \in Rotations(h, S, c, 0)
    BY <1>1, <2>1, <2>2, <2>3, <2>6, <2>7 DEF Rotations
  <2> QED BY <2>4, <2>5, <2>8
<1>4. ASSUME NEW i \in 1..k, NEW x \in good[i - 1]
      PROVE  x \in RotationLoops /\ HeadToTail(x) \in good[i]
  <2>1. i - 1 \in 0..k /\ i \in 0..k /\ i - 1 \in Nat /\ (i - 1) + 1 = i
    OBVIOUS
  <2>2. x \in Rotations(h, S, c, i - 1)
    BY <2>1, <1>4
  <2>3. HeadToTail(x) \in Rotations(h, S, c, (i - 1) + 1)
    BY <2>1, <2>2, RotatedOn
  <2> QED BY <2>1, <2>2, <2>3 DEF Rotations
<1>5. PICK f : f = Rounds(k, s, body, f) /\ \A i \in 0..k : f[i] \in good[i]
  <2>1. \A i \in 1..k : \A x \in good[i - 1] : body[x] \in good[i]
    BY <1>4
  <2> HIDE DEF good, body
  <2> QED BY <1>3, <2>1, LoopRuns
<1>6. f = RotationRounds(h, c[j], k, f)
  <2>1. ASSUME NEW i \in 0..k PROVE f[i] = IF i = 0 THEN s ELSE HeadToTail(f[i - 1])
    <3>1. f[i] = IF i = 0 THEN s ELSE body[f[i - 1]]
      BY <1>5, Zenon DEF Rounds
    <3>2. CASE i = 0
      BY <3>1, <3>2
    <3>3. CASE i # 0
      <4>1. i \in 1..k /\ i - 1 \in 0..k
        BY <3>3
      <4>2. f[i - 1] \in good[i - 1]
        BY <1>5, <4>1
      <4>3. f[i - 1] \in RotationLoops
        BY <1>4, <4>1, <4>2
      <4> QED BY <3>1, <3>3, <4>3
    <3> QED BY <3>2, <3>3
  <2>2. f = [i \in 0..k |-> f[i]]
    BY <1>5 DEF Rounds
  <2> QED BY <2>1, <2>2 DEF RotationRounds
<1>7. PICK g : g = RotationRounds(h, c[j], k, g) /\ RotateLeft(h, c[j], k) = g[k].heap
  BY <1>6, RotateLeftUnfolds
<1>8. \A i \in 0..k : g[i] \in good[i]
  <2>1. \A i \in 0..k : g[i] = IF i = 0 THEN s ELSE HeadToTail(g[i - 1])
    BY <1>7, Zenon DEF RotationRounds
  <2>2. g[0] \in good[0]
    BY <1>3, <2>1
  <2>3. ASSUME NEW i \in 1..k, g[i - 1] \in good[i - 1] PROVE g[i] \in good[i]
    <3>1. HeadToTail(g[i - 1]) \in good[i]
      BY <1>4, <2>3
    <3>2. i \in 0..k /\ i # 0
      OBVIOUS
    <3>3. g[i] = HeadToTail(g[i - 1])
      BY <2>1, <3>2
    <3> QED BY <3>1, <3>3
  <2> HIDE DEF good
  <2> QED BY <2>2, <2>3, LoopKeeps
<1>9. g[k] \in Rotations(h, S, c, k)
  BY <1>8
<1> QED BY <1>7, <1>9 DEF Rotations

-----------------------------------------------------------------------------
(* Rounds that know their number.                                          *)

NumberedRounds(K, s, body, f) == [k \in 0..K |-> IF k = 0 THEN s ELSE body[k][f[k - 1]]]

\* As LoopRuns, for rounds that depend on their number.
LEMMA NumberedLoopRuns ==
  ASSUME NEW K \in Nat, NEW s, NEW good, s \in good[0], NEW body,
         \A k \in 1..K : \A x \in good[k - 1] : body[k][x] \in good[k]
  PROVE  \E f : f = NumberedRounds(K, s, body, f) /\ \A k \in 0..K : f[k] \in good[k]
<1> DEFINE pairs == [k \in 0..K |-> {k} \X good[k]]
           step == [y \in UNION {pairs[k] : k \in 0..K} |-> <<y[1] + 1, body[y[1] + 1][y[2]]>>]
<1>1. <<0, s>> \in pairs[0]
  OBVIOUS
<1>2. ASSUME NEW k \in 1..K, NEW y \in pairs[k - 1]
      PROVE  step[y] = <<k, body[k][y[2]]>> /\ step[y] \in pairs[k]
  <2>1. k - 1 \in 0..K /\ k \in 0..K /\ (k - 1) + 1 = k
    OBVIOUS
  <2>2. y[1] = k - 1 /\ y[2] \in good[k - 1] /\ y \in UNION {pairs[i] : i \in 0..K}
    BY <1>2, <2>1
  <2>3. step[y] = <<k, body[k][y[2]]>>
    BY <2>1, <2>2
  <2>4. body[k][y[2]] \in good[k]
    BY <2>2
  <2> QED BY <2>1, <2>3, <2>4
<1>3. PICK g : g = Rounds(K, <<0, s>>, step, g) /\ \A k \in 0..K : g[k] \in pairs[k]
  <2>1. \A k \in 1..K : \A y \in pairs[k - 1] : step[y] \in pairs[k]
    BY <1>2
  <2> HIDE DEF pairs, step
  <2> QED BY <1>1, <2>1, LoopRuns
<1>4. PICK f : f = [k \in 0..K |-> g[k][2]]
  OBVIOUS
<1>5. ASSUME NEW k \in 0..K PROVE f[k] \in good[k]
  BY <1>3, <1>4
<1>6. ASSUME NEW k \in 0..K PROVE f[k] = IF k = 0 THEN s ELSE body[k][f[k - 1]]
  <2>1. g[k] = IF k = 0 THEN <<0, s>> ELSE step[g[k - 1]]
    BY <1>3, Zenon DEF Rounds
  <2>2. CASE k = 0
    BY <1>4, <2>1, <2>2
  <2>3. CASE k # 0
    <3>1. k \in 1..K /\ k - 1 \in 0..K
      BY <2>3
    <3>2. step[g[k - 1]] = <<k, body[k][g[k - 1][2]]>>
      BY <1>2, <1>3, <3>1
    <3>3. f[k] = g[k][2] /\ f[k - 1] = g[k - 1][2]
      BY <1>4, <3>1
    <3>4. g[k] = <<k, body[k][g[k - 1][2]]>>
      BY <2>1, <2>3, <3>2
    <3> HIDE DEF step, pairs
    <3> QED BY <2>3, <3>3, <3>4
  <2> QED BY <2>2, <2>3
<1>7. f = NumberedRounds(K, s, body, f)
  BY <1>4, <1>6 DEF NumberedRounds
<1> QED BY <1>5, <1>7

-----------------------------------------------------------------------------
(* Equal neighbours unlinked.                                              *)

\* K, and c from its node p on.
Tied(K, c, p) == K \o SubSeq(c, p, Len(c))

TiedTo(T, K, c, p, d) ==
  /\ d \in Seq(T) /\ Len(d) = Len(K) + (Len(c) - p + 1)
  /\ \A j \in 1..(Len(K) + (Len(c) - p + 1)) :
       d[j] = IF j <= Len(K) THEN K[j] ELSE c[j - Len(K) + p - 1]

\* The nodes kept so far, followed by c from its node p on.
LEMMA TiedIs ==
  ASSUME NEW T, NEW K \in Seq(T), NEW c \in Seq(T), NEW p \in 1..Len(c)
  PROVE  TiedTo(T, K, c, p, Tied(K, c, p))
<1>1. PICK n \in Nat : n = Len(c)
  OBVIOUS
<1>2. PICK i \in 0..(n - 1) : i = p - 1
  <2>1. p - 1 \in 0..(n - 1)
    BY <1>1
  <2> QED BY <2>1
<1>3. PICK b : b = SubSeq(c, p, n)
  OBVIOUS
<1>4. b \in Seq(T) /\ Len(b) = n - i /\ \A j \in 1..(n - i) : b[j] = c[i + j]
  <2>1. i \in 0..(Len(c) - 1) /\ i + 1 = p
    BY <1>1, <1>2
  <2>2. /\ SubSeq(c, i + 1, Len(c)) \in Seq(T) /\ Len(SubSeq(c, i + 1, Len(c))) = Len(c) - i
        /\ \A j \in 1..(Len(c) - i) : SubSeq(c, i + 1, Len(c))[j] = c[i + j]
    BY <2>1, RestIs
  <2> QED BY <1>1, <1>3, <2>1, <2>2
<1>5. PICK k \in Nat : k = Len(K)
  OBVIOUS
<1>6. PICK d : d = K \o b
  OBVIOUS
<1>7. /\ d \in Seq(T) /\ Len(d) = k + (n - i)
      /\ \A j \in 1..(k + (n - i)) : d[j] = IF j <= k THEN K[j] ELSE b[j - k]
  <2>1. /\ d \in Seq(T) /\ Len(d) = Len(K) + Len(b)
        /\ \A j \in 1 .. Len(K) + Len(b) : d[j] = IF j <= Len(K) THEN K[j] ELSE b[j - Len(K)]
    BY <1>4, <1>6, ConcatProperties
  <2> QED BY <1>4, <1>5, <2>1
<1>8. n - i = n - p + 1
  BY <1>2
<1>9. ASSUME NEW j \in 1..(k + (n - p + 1))
      PROVE  d[j] = IF j <= k THEN K[j] ELSE c[j - k + p - 1]
  <2>1. CASE j <= k
    BY <1>7, <1>8, <2>1
  <2>2. CASE ~(j <= k)
    <3>1. j - k \in 1..(n - i) /\ i + (j - k) = j - k + p - 1
      BY <1>2, <1>8, <2>2
    <3>2. d[j] = b[j - k]
      BY <1>7, <1>8, <2>2
    <3> QED BY <1>4, <2>2, <3>1, <3>2
  <2> QED BY <2>1, <2>2
<1>10. Tied(K, c, p) = d
  BY <1>1, <1>3, <1>6 DEF Tied
<1>11. TiedTo(T, K, c, p, d)
  BY <1>1, <1>5, <1>7, <1>8, <1>9 DEF TiedTo
<1> QED BY <1>10, <1>11

LEMMA TiedFirst ==
  ASSUME NEW T, NEW c \in Seq(T), Len(c) > 0
  PROVE  Tied(<<>>, c, 1) = c
<1>1. SubSeq(c, 1, Len(c)) = c
  BY WholeList
<1>2. <<>> \o c = c
  BY ConcatEmptySeq
<1> QED BY <1>1, <1>2 DEF Tied

LEMMA TiedLast ==
  ASSUME NEW T, NEW K \in Seq(T), NEW c \in Seq(T), Len(c) > 0
  PROVE  Tied(K, c, Len(c)) = Append(K, c[Len(c)])
<1>1. PICK n \in Nat \ {0} : n = Len(c)
  OBVIOUS
<1>2. PICK k \in Nat : k = Len(K)
  OBVIOUS
<1>3. PICK d : d = Tied(K, c, n)
  OBVIOUS
<1>4. d \in Seq(T) /\ Len(d) = k + 1 /\ \A j \in 1..(k + 1) : d[j] = IF j <= k THEN K[j] ELSE c[n]
  <2>1. n \in 1..Len(c)
    BY <1>1
  <2>2. TiedTo(T, K, c, n, Tied(K, c, n))
    BY <2>1, TiedIs
  <2>3. Len(K) + (Len(c) - n + 1) = k + 1
    BY <1>1, <1>2
  <2>4. ASSUME NEW j \in 1..(k + 1), ~(j <= k) PROVE j - k + n - 1 = n
    BY <2>4
  <2>5. \A j \in 1..(k + 1) : d[j] = IF j <= k THEN K[j] ELSE c[j - k + n - 1]
    BY <1>2, <1>3, <2>2, <2>3 DEF TiedTo
  <2> QED BY <1>3, <2>2, <2>3, <2>4, <2>5 DEF TiedTo
<1>5. PICK e : e = Append(K, c[n])
  OBVIOUS
<1>6. e \in Seq(T) /\ Len(e) = k + 1 /\ \A j \in 1..(k + 1) : e[j] = IF j <= k THEN K[j] ELSE c[n]
  <2>1. c[n] \in T
    BY <1>1
  <2> QED BY <1>2, <1>5, <2>1, AppendProperties
<1>7. d = e
  BY <1>4, <1>6, SeqEqual
<1> QED BY <1>1, <1>3, <1>5, <1>7

\* A node equal to the next one is cut out, another is kept.
LEMMA TiedNext ==
  ASSUME NEW T, NEW K \in Seq(T), NEW c \in Seq(T), NEW p \in 1..Len(c), p < Len(c)
  PROVE  /\ CutOut(Tied(K, c, p), Len(K) + 1) = Tied(K, c, p + 1)
         /\ Tied(Append(K, c[p]), c, p + 1) = Tied(K, c, p)
<1>1. PICK n \in Nat \ {0} : n = Len(c)
  OBVIOUS
<1>2. PICK k \in Nat : k = Len(K)
  OBVIOUS
<1>3. PICK q \in 1..n : q = p + 1
  BY <1>1
<1>4. PICK d : d = Tied(K, c, p)
  OBVIOUS
<1>5. PICK m \in Nat \ {0} : m = n - p
  <2>1. n - p \in Nat \ {0}
    BY <1>1
  <2> QED BY <2>1
<1>6. /\ d \in Seq(T) /\ Len(d) = k + m + 1
      /\ \A j \in 1..(k + m + 1) : d[j] = IF j <= k THEN K[j] ELSE c[j - k + p - 1]
  <2>1. TiedTo(T, K, c, p, Tied(K, c, p))
    BY TiedIs
  <2>2. Len(K) + (Len(c) - p + 1) = k + m + 1
    BY <1>1, <1>2, <1>5
  <2> QED BY <1>2, <1>4, <2>1, <2>2 DEF TiedTo
<1>7. PICK e : e = Tied(K, c, q)
  OBVIOUS
<1>8. /\ e \in Seq(T) /\ Len(e) = k + m
      /\ \A j \in 1..(k + m) : e[j] = IF j <= k THEN K[j] ELSE c[j - k + p]
  <2>1. q \in 1..Len(c)
    BY <1>1
  <2>2. TiedTo(T, K, c, q, Tied(K, c, q))
    BY <2>1, TiedIs
  <2>3. Len(K) + (Len(c) - q + 1) = k + m
    BY <1>1, <1>2, <1>3, <1>5
  <2>4. ASSUME NEW j \in 1..(k + m) PROVE j - k + q - 1 = j - k + p
    BY <1>3
  <2>5. \A j \in 1..(k + m) : e[j] = IF j <= k THEN K[j] ELSE c[j - k + q - 1]
    BY <1>2, <1>7, <2>2, <2>3 DEF TiedTo
  <2> QED BY <1>7, <2>2, <2>3, <2>4, <2>5 DEF TiedTo
<1>9. PICK b : b = CutOut(d, k + 1)
  OBVIOUS
<1>10. /\ b \in Seq(T) /\ Len(b) = k + m
       /\ \A j \in 1..(k + m) : b[j] = IF j < k + 1 THEN d[j] ELSE d[j + 1]
  <2>1. k + 1 \in 1..Len(d) /\ Len(d) - 1 = k + m
    BY <1>6
  <2>2. /\ CutOut(d, k + 1) \in Seq(T) /\ Len(CutOut(d, k + 1)) = Len(d) - 1
        /\ \A j \in 1..(Len(d) - 1) : CutOut(d, k + 1)[j] = IF j < k + 1 THEN d[j] ELSE d[j + 1]
    BY <1>6, <2>1, CutOutIs
  <2> QED BY <1>9, <2>1, <2>2
<1>11. ASSUME NEW j \in 1..(k + m) PROVE b[j] = e[j]
  <2>1. CASE j <= k
    <3>1. j < k + 1 /\ j \in 1..(k + m + 1)
      BY <2>1
    <3> QED BY <1>6, <1>8, <1>10, <2>1, <3>1
  <2>2. CASE ~(j <= k)
    <3>1. PICK i \in 1..(k + m + 1) : i = j + 1
      OBVIOUS
    <3>2. ~(i <= k) /\ i - k + p - 1 = j - k + p /\ ~(j < k + 1)
      BY <2>2, <3>1
    <3>3. b[j] = d[i]
      BY <1>10, <3>1, <3>2
    <3>4. d[i] = c[j - k + p]
      BY <1>6, <3>2
    <3> QED BY <1>8, <2>2, <3>3, <3>4
  <2> QED BY <2>1, <2>2
<1>12. b = e
  BY <1>8, <1>10, <1>11, SeqEqual
<1>13. PICK A : A = Append(K, c[p])
  OBVIOUS
<1>14. A \in Seq(T) /\ Len(A) = k + 1 /\ \A j \in 1..(k + 1) : A[j] = IF j <= k THEN K[j] ELSE c[p]
  <2>1. c[p] \in T
    OBVIOUS
  <2> QED BY <1>2, <1>13, <2>1, AppendProperties
<1>15. PICK a : a = Tied(A, c, q)
  OBVIOUS
<1>16. /\ a \in Seq(T) /\ Len(a) = k + m + 1
       /\ \A j \in 1..(k + m + 1) : a[j] = IF j <= k + 1 THEN A[j] ELSE c[j - (k + 1) + q - 1]
  <2>1. q \in 1..Len(c)
    BY <1>1
  <2>2. TiedTo(T, A, c, q, Tied(A, c, q))
    BY <1>14, <2>1, TiedIs
  <2>3. Len(A) + (Len(c) - q + 1) = k + m + 1
    BY <1>1, <1>3, <1>5, <1>14
  <2> QED BY <1>14, <1>15, <2>2, <2>3 DEF TiedTo
<1>17. ASSUME NEW j \in 1..(k + m + 1) PROVE a[j] = d[j]
  <2>1. CASE j <= k
    <3>1. j <= k + 1 /\ j \in 1..(k + 1)
      BY <2>1
    <3> QED BY <1>6, <1>14, <1>16, <2>1, <3>1
  <2>2. CASE j = k + 1
    <3>1. j <= k + 1 /\ j \in 1..(k + 1) /\ ~(j <= k) /\ j - k + p - 1 = p
      BY <2>2
    <3>2. a[j] = c[p]
      BY <1>14, <1>16, <3>1
    <3>3. d[j] = c[p]
      BY <1>6, <3>1
    <3> QED BY <3>2, <3>3
  <2>3. CASE j > k + 1
    <3>1. ~(j <= k) /\ ~(j <= k + 1) /\ j - (k + 1) + q - 1 = j - k + p - 1
      BY <1>3, <2>3
    <3>2. a[j] = c[j - k + p - 1]
      BY <1>16, <3>1
    <3>3. d[j] = c[j - k + p - 1]
      BY <1>6, <3>1
    <3> QED BY <3>2, <3>3
  <2> QED BY <2>1, <2>2, <2>3
<1>18. a = d
  BY <1>6, <1>16, <1>17, SeqEqual
<1> QED BY <1>2, <1>3, <1>4, <1>7, <1>9, <1>12, <1>13, <1>15, <1>18

\* A node in between unlinked, which keeps its own pointers.
LEMMA Unlinked ==
  ASSUME NEW h, NEW S, Chained(h, S), NEW c \in S, NEW k \in 1..Len(c), k > 1, k < Len(c),
         NEW g, g = Join(h, h[c[k]].prev, h[c[k]].next)
  PROVE  /\ Chained(g, InPlaceOf(S, c, CutOut(c, k)))
         /\ SameData(h, g) /\ SameNodes(h, g)
<1>1. PICK L \in Nat \ {0} : L = Len(c)
  BY ChainOf
<1>2. c \in Seq(Addresses) /\ h \in Heap
  BY ChainOf
<1>3. ASSUME NEW j \in 1..L
      PROVE  /\ c[j] \in Addresses /\ c[j] # NULL /\ h[c[j]] # Free
             /\ h[c[j]].next = IF j < L THEN c[j + 1] ELSE NULL
             /\ h[c[j]].prev = IF j > 1 THEN c[j - 1] ELSE NULL
  BY <1>1, NodeOf
<1>4. PICK i \in 1..L : i = k - 1
  <2>1. k - 1 \in 1..L
    BY <1>1
  <2> QED BY <2>1
<1>5. PICK m \in 1..L : m = k + 1
  <2>1. k + 1 \in 1..L
    BY <1>1
  <2> QED BY <2>1
<1>6. h[c[k]].prev = c[i] /\ h[c[k]].next = c[m]
  BY <1>1, <1>3, <1>4, <1>5
<1>7. Joined(h, g, c[i], c[m])
  <2>1. c[i] \in Pointees /\ c[m] \in Pointees /\ h[c[i]] # Free /\ h[c[m]] # Free
    BY <1>3 DEF Pointees
  <2>2. g = Join(h, c[i], c[m])
    BY <1>6
  <2> QED BY <1>2, <2>1, <2>2, JoinIs
<1>8. \A a \in 1..L, b \in 1..L : c[a] = c[b] => a = b
  BY <1>1, ApartIn
<1>9. ASSUME NEW j \in 1..L
      PROVE  /\ g[c[j]] # Free
             /\ g[c[j]].next = IF j = k - 1 THEN h[c[k]].next ELSE h[c[j]].next
             /\ g[c[j]].prev = IF j = k + 1 THEN h[c[k]].prev ELSE h[c[j]].prev
  <2>1. (c[j] = c[i] <=> j = k - 1) /\ (c[j] = c[m] <=> j = k + 1)
    BY <1>4, <1>5, <1>8
  <2>2. /\ g[c[j]] # Free
        /\ g[c[j]].next = IF c[j] = c[i] THEN c[m] ELSE h[c[j]].next
        /\ g[c[j]].prev = IF c[j] = c[m] THEN c[i] ELSE h[c[j]].prev
    BY <1>3, <1>7 DEF Joined
  <2> QED BY <1>6, <2>1, <2>2
<1>10. g[c[k]].prev # NULL
  <2>1. k \in 1..L /\ k # k + 1 /\ k > 1
    BY <1>1
  <2>2. g[c[k]].prev = h[c[k]].prev
    BY <1>9, <2>1
  <2> QED BY <1>3, <1>6, <2>2
<1>11. ASSUME NEW x \in Addresses PROVE g[x] = h[x] \/ \E j \in 1..Len(c) : x = c[j]
  <2>1. x # c[i] /\ x # c[m] => g[x] = h[x]
    BY <1>7 DEF Joined
  <2> QED BY <1>1, <2>1
<1>12. PassesOver(h, c, k, g)
  <2>1. g \in Heap
    BY <1>7 DEF Joined
  <2> QED BY <1>1, <1>9, <1>10, <1>11, <2>1 DEF PassesOver
<1>13. Chained(g, InPlaceOf(S, c, CutOut(c, k)))
  <2>1. Len(c) # 1
    OBVIOUS
  <2> QED BY <1>12, <2>1, PassedOver DEF InPlaceOf
<1>14. SameData(h, g) /\ SameNodes(h, g)
  <2>1. ASSUME NEW x \in Addresses PROVE (g[x] = Free <=> h[x] = Free) /\ g[x].data = h[x].data
    <3>1. CASE g[x] = h[x]
      BY <3>1
    <3>2. CASE \E j \in 1..Len(c) : x = c[j]
      <4>1. h[x] # Free
        BY <1>1, <1>3, <3>2
      <4> QED BY <1>7, <4>1 DEF Joined
    <3> QED BY <1>11, <3>1, <3>2
  <2> QED BY <2>1 DEF SameData, SameNodes
<1> QED BY <1>13, <1>14

\* What unique keeps: the last element of each group of equal neighbours.
Lasts(c) == {i \in 1..Len(c) : ~(i < Len(c) /\ heap[c[i]].data = heap[c[i + 1]].data)}
LastOfGroups(c) == Chosen(c, Lasts(c))

KeptRounds(h, c, f) ==
  [i \in 0..Len(c) |->
     IF i = 0 THEN <<>>
     ELSE IF i < Len(c) /\ h[c[i]].data = h[c[i + 1]].data THEN f[i - 1]
     ELSE Append(f[i - 1], c[i])]

AreKept(h, c, f) ==
  /\ f = KeptRounds(h, c, f)
  /\ \A i \in 0..Len(c) : f[i] \in Seq(Addresses) /\ (i > 0 => Len(f[i]) > 0)

\* What LastOfGroups keeps of the first k nodes, for each k.
LEMMA KeptExist ==
  ASSUME NEW h, NEW c \in Seq(Addresses), Len(c) > 1 => h[c[1]].data # h[c[2]].data
  PROVE  \E f : AreKept(h, c, f)
<1>1. PICK L \in Nat : L = Len(c)
  OBVIOUS
<1>2. \A k \in 1..L : c[k] \in Addresses
  BY <1>1
<1> DEFINE same(k) == k < L /\ h[c[k]].data = h[c[k + 1]].data
           good == [i \in 0..L |-> {x \in Seq(Addresses) : i > 0 => Len(x) > 0}]
           body == [k \in 1..L |-> [x \in Seq(Addresses) |-> IF same(k) THEN x ELSE Append(x, c[k])]]
<1>3. ASSUME NEW k \in 1..L, NEW x \in good[k - 1]
      PROVE  /\ x \in Seq(Addresses) /\ body[k][x] \in good[k]
             /\ body[k][x] = IF same(k) THEN x ELSE Append(x, c[k])
  <2>1. k - 1 \in 0..L /\ k \in 0..L
    OBVIOUS
  <2>2. x \in Seq(Addresses) /\ (k - 1 > 0 => Len(x) > 0)
    BY <1>3, <2>1
  <2>3. body[k][x] = IF same(k) THEN x ELSE Append(x, c[k])
    BY <2>2
  <2>4. CASE same(k)
    <3>1. k # 1
      BY <1>1, <2>4
    <3>2. k - 1 > 0
      BY <3>1
    <3>3. Len(x) > 0
      BY <2>2, <3>2
    <3> QED BY <2>1, <2>2, <2>3, <2>4, <3>3
  <2>5. CASE ~same(k)
    <3>1. Append(x, c[k]) \in Seq(Addresses) /\ Len(Append(x, c[k])) = Len(x) + 1 /\ Len(x) \in Nat
      BY <1>2, <2>2, AppendProperties
    <3>2. Len(Append(x, c[k])) > 0
      BY <3>1
    <3> QED BY <2>1, <2>2, <2>3, <2>5, <3>1, <3>2
  <2> QED BY <2>4, <2>5
<1>4. <<>> \in good[0]
  OBVIOUS
<1>5. PICK f : f = NumberedRounds(L, <<>>, body, f) /\ \A i \in 0..L : f[i] \in good[i]
  <2>1. \A k \in 1..L : \A x \in good[k - 1] : body[k][x] \in good[k]
    BY <1>3
  <2> HIDE DEF good, body
  <2> QED BY <1>4, <2>1, NumberedLoopRuns
<1>6. ASSUME NEW i \in 0..L
      PROVE  f[i] = IF i = 0 THEN <<>>
                    ELSE IF i < Len(c) /\ h[c[i]].data = h[c[i + 1]].data THEN f[i - 1]
                    ELSE Append(f[i - 1], c[i])
  <2>1. f[i] = IF i = 0 THEN <<>> ELSE body[i][f[i - 1]]
    BY <1>5, Zenon DEF NumberedRounds
  <2>2. CASE i = 0
    BY <2>1, <2>2
  <2>3. CASE i # 0
    <3>1. i \in 1..L /\ i - 1 \in 0..L
      BY <2>3
    <3>2. f[i - 1] \in good[i - 1]
      BY <1>5, <3>1
    <3>3. body[i][f[i - 1]] = IF same(i) THEN f[i - 1] ELSE Append(f[i - 1], c[i])
      BY <1>3, <3>1, <3>2
    <3> QED BY <1>1, <2>1, <2>3, <3>3
  <2> QED BY <2>2, <2>3
<1>7. f = KeptRounds(h, c, f)
  <2>1. f = [i \in 0..L |-> f[i]]
    BY <1>5 DEF NumberedRounds
  <2> QED BY <1>1, <1>6, <2>1 DEF KeptRounds
<1> QED BY <1>1, <1>5, <1>7 DEF AreKept

LEMMA LastOfGroupsUnfolds ==
  ASSUME NEW c, NEW g, g = KeptRounds(heap, c, g), Len(c) \in Nat
  PROVE  \E f : f = KeptRounds(heap, c, f) /\ LastOfGroups(c) = f[Len(c)]
<1> DEFINE chosen(f) ==
             [i \in 0..Len(c) |->
                IF i = 0 THEN <<>> ELSE IF i \in Lasts(c) THEN Append(f[i - 1], c[i]) ELSE f[i - 1]]
<1>1. ASSUME NEW f PROVE chosen(f) = KeptRounds(heap, c, f)
  <2>1. \A i \in 0..Len(c) :
          i # 0 => (i \in Lasts(c) <=> ~(i < Len(c) /\ heap[c[i]].data = heap[c[i + 1]].data))
    BY DEF Lasts
  <2> QED BY <2>1 DEF KeptRounds
<1>2. g = chosen(g)
  BY <1>1
<1>3. PICK f : f = chosen(f) /\ Chosen(c, Lasts(c)) = f[Len(c)]
  BY <1>2, Zenon DEF Chosen
<1>4. f = KeptRounds(heap, c, f)
  BY <1>1, <1>3
<1> QED BY <1>3, <1>4 DEF LastOfGroups

\* The last elements are one of each group.
LEMMA LastsAreOne ==
  ASSUME NEW c \in Seq(Addresses)
  PROVE  Lasts(c) \in OneOfEachGroup(c)
<1>1. PICK L \in Nat : L = Len(c)
  OBVIOUS
<1> DEFINE data(k) == heap[c[k]].data
<1>2. ASSUME NEW k \in 1..L PROVE k \in Lasts(c) <=> ~(k < L /\ data(k) = data(k + 1))
  BY <1>1 DEF Lasts
<1>3. ASSUME NEW i \in 1..L, NEW k \in 1..L
      PROVE  SameGroup(c, i, k) <=> \A x \in (i..k) \cup (k..i) : data(x) = data(i)
  BY DEF SameGroup
<1> HIDE DEF data
<1>4. ASSUME NEW i \in 1..L
      PROVE  \E j \in Lasts(c) : \A k \in Lasts(c) : SameGroup(c, i, k) <=> k = j
  <2> DEFINE from == {k \in i..L : k \in Lasts(c)}
  <2>1. L \in from /\ from \in SUBSET Nat
    BY <1>2
  <2>2. PICK j \in from : \A k \in from : j <= k
    <3> HIDE DEF from
    <3> QED BY <2>1, LeastNumber
  <2>3. ASSUME NEW x \in i..j PROVE data(x) = data(i)
    <3> DEFINE other == {k \in i..j : data(k) # data(i)}
    <3>1. SUFFICES ASSUME other # {} PROVE FALSE
      OBVIOUS
    <3>2. PICK k \in other : \A l \in other : k <= l
      <4>1. other \in SUBSET Nat
        OBVIOUS
      <4> HIDE DEF other
      <4> QED BY <3>1, <4>1, LeastNumber
    <3>3. k # i /\ k - 1 \in i..j /\ k - 1 \notin other
      BY <3>2
    <3>4. k - 1 \notin Lasts(c)
      BY <2>2, <3>2, <3>3
    <3>5. data(k - 1) = data(k)
      <4>1. k - 1 \in 1..L /\ (k - 1) + 1 = k
        BY <3>2, <3>3
      <4>2. data(k - 1) = data((k - 1) + 1)
        BY <1>2, <3>4, <4>1
      <4> QED BY <4>1, <4>2
    <3> QED BY <3>2, <3>3, <3>5
  <2>4. j \in 1..L /\ j \in Lasts(c) /\ i <= j
    BY <2>2
  <2>5. SameGroup(c, i, j)
    <3>1. \A x \in (i..j) \cup (j..i) : x \in i..j
      BY <2>4
    <3> QED BY <1>3, <2>3, <2>4, <3>1
  <2>6. ASSUME NEW k \in Lasts(c), SameGroup(c, i, k) PROVE k = j
    <3>1. k \in 1..L
      BY <1>1 DEF Lasts
    <3>2. \A x \in (i..k) \cup (k..i) : data(x) = data(i)
      BY <1>3, <2>6, <3>1
    <3>3. CASE k < i
      <4>1. k \in (i..k) \cup (k..i) /\ k + 1 \in (i..k) \cup (k..i) /\ k < L
        BY <3>1, <3>3
      <4>2. data(k) = data(k + 1)
        BY <3>2, <4>1
      <4> QED BY <1>2, <3>1, <4>1, <4>2
    <3>4. CASE i <= k /\ k < j
      BY <2>2, <3>1, <3>4
    <3>5. CASE j < k
      <4>1. j \in (i..k) \cup (k..i) /\ j + 1 \in (i..k) \cup (k..i) /\ j < L
        BY <2>4, <3>1, <3>5
      <4>2. data(j) = data(j + 1)
        BY <3>2, <4>1
      <4> QED BY <1>2, <2>4, <4>1, <4>2
    <3> QED BY <2>4, <3>1, <3>3, <3>4, <3>5
  <2> QED BY <2>4, <2>5, <2>6
<1>5. Lasts(c) \in SUBSET DOMAIN c /\ DOMAIN c = 1..L
  BY <1>1 DEF Lasts
<1> QED BY <1>4, <1>5 DEF OneOfEachGroup

ItemLoops == [heap : Heap, item : Addresses]

\* The loop has come to node p and kept K of those in front.
UnlinkedTo(h, S, c, K, p, l) ==
  /\ l \in ItemLoops /\ l.item = c[p]
  /\ SameData(h, l.heap) /\ SameNodes(h, l.heap)
  /\ Chained(l.heap, InPlaceOf(S, c, Tied(K, c, p)))

\* A round of unique: the node stays, or is unlinked, as LastOfGroups has it.
LEMMA UnlinkedOn ==
  ASSUME NEW h, NEW S, Chained(h, S), NEW c \in S, NEW kept, AreKept(h, c, kept),
         NEW p \in 1..Len(c), NEW l, UnlinkedTo(h, S, c, kept[p - 1], p, l)
  PROVE  IF p < Len(c) THEN UnlinkedTo(h, S, c, kept[p], p + 1, UnlinkEqual(l))
                       ELSE UnlinkEqual(l) = l
<1>1. PICK L \in Nat \ {0} : L = Len(c)
  BY ChainOf
<1>2. c \in Seq(Addresses) /\ h \in Heap
  BY ChainOf
<1>3. PICK K \in Seq(Addresses) : K = kept[p - 1] /\ (p > 1 => Len(K) > 0)
  <2>1. p - 1 \in 0..Len(c) /\ (p > 1 => p - 1 > 0)
    BY <1>1
  <2> QED BY <2>1 DEF AreKept
<1>4. PICK k \in Nat : k = Len(K)
  OBVIOUS
<1>5. PICK d : d = Tied(K, c, p)
  OBVIOUS
<1>6. PICK f : f = l.heap
  OBVIOUS
<1>7. PICK T : T = InPlaceOf(S, c, d)
  OBVIOUS
<1>8. /\ l \in ItemLoops /\ l.item = c[p] /\ l = [heap |-> f, item |-> c[p]]
      /\ SameData(h, f) /\ SameNodes(h, f) /\ Chained(f, T)
  <2>1. /\ l \in ItemLoops /\ l.item = c[p]
        /\ SameData(h, f) /\ SameNodes(h, f) /\ Chained(f, T)
    BY <1>3, <1>5, <1>6, <1>7 DEF UnlinkedTo
  <2>2. l = [heap |-> l.heap, item |-> l.item]
    BY <2>1 DEF ItemLoops
  <2> QED BY <1>6, <2>1, <2>2
<1>9. PICK m \in Nat : m = L - p
  <2>1. L - p \in Nat
    BY <1>1
  <2> QED BY <2>1
<1>10. /\ d \in Seq(Addresses) /\ Len(d) = k + m + 1
       /\ \A j \in 1..(k + m + 1) : d[j] = IF j <= k THEN K[j] ELSE c[j - k + p - 1]
  <2>1. TiedTo(Addresses, K, c, p, Tied(K, c, p))
    BY <1>2, TiedIs
  <2>2. Len(K) + (Len(c) - p + 1) = k + m + 1
    BY <1>1, <1>4, <1>9
  <2> QED BY <1>4, <1>5, <2>1, <2>2 DEF TiedTo
<1>11. d \in T
  BY <1>7 DEF InPlaceOf
<1>12. PICK q \in 1..(k + m + 1) : q = k + 1
  OBVIOUS
<1>13. d[q] = c[p]
  BY <1>10, <1>12
<1>14. f[c[p]].next = (IF q < Len(d) THEN d[q + 1] ELSE NULL) /\ f[c[p]] # Free
  <2>1. q \in 1..Len(d)
    BY <1>10
  <2>2. f[d[q]].next = (IF q < Len(d) THEN d[q + 1] ELSE NULL) /\ f[d[q]] # Free
    BY <1>8, <1>11, <2>1, NodeOf
  <2> QED BY <1>13, <2>2
<1>15. CASE p < L
  <2>1. PICK r \in 1..L : r = p + 1
    BY <1>1, <1>15
  <2>2. q < Len(d) /\ d[q + 1] = c[r]
    <3>1. m > 0
      BY <1>9, <1>15
    <3>2. PICK s \in 1..(k + m + 1) : s = q + 1 /\ ~(s <= k) /\ s - k + p - 1 = r
      BY <1>12, <2>1, <3>1
    <3>3. d[s] = c[s - k + p - 1]
      BY <1>10, <3>2
    <3>4. q < k + m + 1
      BY <1>12, <3>1
    <3> QED BY <1>10, <3>2, <3>3, <3>4
  <2>3. f[c[p]].next = c[r]
    BY <1>14, <2>2
  <2>4. /\ c[r] \in Addresses /\ c[r] # NULL /\ h[c[r]] # Free /\ h[c[p]] # Free
        /\ c[p] \in Addresses
    BY <1>1, <2>1, NodeOf
  <2>5. f[c[r]].data = h[c[r]].data /\ f[c[p]].data = h[c[p]].data
    BY <1>8, <2>4 DEF SameData, SameNodes
  <2>6. kept[p] = IF h[c[p]].data = h[c[r]].data THEN K ELSE Append(K, c[p])
    <3>1. p \in 0..Len(c) /\ p # 0 /\ p < Len(c)
      BY <1>1, <1>15
    <3>2. kept[p] = IF p = 0 THEN <<>>
                    ELSE IF p < Len(c) /\ h[c[p]].data = h[c[p + 1]].data THEN kept[p - 1]
                    ELSE Append(kept[p - 1], c[p])
      BY <3>1, Zenon DEF AreKept, KeptRounds
    <3> QED BY <1>3, <2>1, <3>1, <3>2
  <2>7. /\ CutOut(d, q) = Tied(K, c, r) /\ Tied(Append(K, c[p]), c, r) = d
    <3>1. p < Len(c)
      BY <1>1, <1>15
    <3>2. /\ CutOut(Tied(K, c, p), Len(K) + 1) = Tied(K, c, p + 1)
          /\ Tied(Append(K, c[p]), c, p + 1) = Tied(K, c, p)
      BY <1>2, <3>1, TiedNext
    <3> QED BY <1>4, <1>5, <1>12, <2>1, <3>2
  <2>8. CASE f[c[r]].data = f[c[p]].data
    <3>1. PICK g : g = Join(f, f[c[p]].prev, f[c[p]].next)
      OBVIOUS
    <3>2. q > 1
      <4>1. p # 1
        <5>1. p = 1 => Len(c) > 1 /\ r = 2 /\ kept[1] = K /\ K = kept[0]
          BY <1>1, <1>3, <1>15, <2>1, <2>5, <2>6, <2>8
        <5>2. 0 \in 0..Len(c) /\ 1 \in 0..Len(c) /\ 1 > 0
          BY <1>1
        <5>3. kept[0] = <<>>
          BY <5>2, Zenon DEF AreKept, KeptRounds
        <5>4. Len(kept[1]) > 0
          BY <5>2 DEF AreKept
        <5>5. Len(<<>>) = 0
          OBVIOUS
        <5> QED BY <5>1, <5>3, <5>4, <5>5
      <4>2. p > 1
        BY <4>1
      <4>3. k > 0
        BY <1>3, <1>4, <4>2
      <4> QED BY <1>12, <4>3
    <3>3. /\ Chained(g, InPlaceOf(T, d, CutOut(d, q)))
          /\ SameData(f, g) /\ SameNodes(f, g)
      <4>1. q \in 1..Len(d)
        BY <1>10
      <4>2. g = Join(f, f[d[q]].prev, f[d[q]].next)
        BY <1>13, <3>1
      <4> QED BY <1>8, <1>11, <2>2, <3>2, <4>1, <4>2, Unlinked
    <3>4. InPlaceOf(T, d, CutOut(d, q)) = InPlaceOf(S, c, Tied(K, c, r))
      <4>1. d \notin S \ {c}
        <5>1. d \in S => d = c
          <6>1. q \in 1..Len(d)
            BY <1>10
          <6> QED BY <1>13, <6>1, ApartIn
        <5> QED BY <5>1
      <4>2. ((S \ {c}) \cup {d}) \ {d} = S \ {c}
        BY <4>1
      <4> QED BY <1>7, <2>7, <4>2 DEF InPlaceOf
    <3>5. SameData(h, g) /\ SameNodes(h, g)
      <4>1. SameNodes(h, g)
        BY <1>8, <3>3 DEF SameNodes
      <4>2. \A x \in Addresses : g[x] # Free => f[x] # Free
        BY <3>3 DEF SameNodes
      <4> QED BY <1>8, <3>3, <4>1, <4>2, OnlyData
    <3>6. UnlinkEqual(l) = [heap |-> g, item |-> c[r]]
      BY <1>6, <1>8, <2>3, <2>4, <2>8, <3>1 DEF UnlinkEqual
    <3>7. g \in Heap
      BY <3>3 DEF Chained
    <3>8. PICK w : w = [heap |-> g, item |-> c[r]]
      OBVIOUS
    <3>9. w \in ItemLoops /\ w.heap = g /\ w.item = c[r]
      BY <2>4, <3>7, <3>8 DEF ItemLoops
    <3>10. UnlinkedTo(h, S, c, K, r, w)
      BY <3>3, <3>4, <3>5, <3>9 DEF UnlinkedTo
    <3>11. kept[p] = K
      BY <2>5, <2>6, <2>8
    <3> QED BY <1>1, <1>15, <2>1, <3>6, <3>8, <3>10, <3>11
  <2>9. CASE f[c[r]].data # f[c[p]].data
    <3>1. UnlinkEqual(l) = [heap |-> f, item |-> c[r]]
      BY <1>6, <1>8, <2>3, <2>4, <2>9 DEF UnlinkEqual
    <3>2. f \in Heap
      BY <1>8 DEF Chained
    <3>3. PICK w : w = [heap |-> f, item |-> c[r]]
      OBVIOUS
    <3>4. w \in ItemLoops /\ w.heap = f /\ w.item = c[r]
      BY <2>4, <3>2, <3>3 DEF ItemLoops
    <3>5. kept[p] = Append(K, c[p])
      BY <2>5, <2>6, <2>9
    <3>6. UnlinkedTo(h, S, c, kept[p], r, w)
      BY <1>7, <1>8, <2>7, <3>4, <3>5 DEF UnlinkedTo
    <3> QED BY <1>1, <1>15, <2>1, <3>1, <3>3, <3>6
  <2> QED BY <2>8, <2>9
<1>16. CASE ~(p < L)
  <2>1. ~(q < Len(d))
    BY <1>1, <1>9, <1>10, <1>12, <1>16
  <2>2. f[c[p]].next = NULL
    BY <1>14, <2>1
  <2> QED BY <1>1, <1>6, <1>8, <1>16, <2>2 DEF UnlinkEqual
<1> QED BY <1>15, <1>16

LEMMA KeptAre ==
  ASSUME NEW h, NEW c \in Seq(Addresses), Len(c) > 1 => h[c[1]].data # h[c[2]].data,
         NEW f, f = KeptRounds(h, c, f)
  PROVE  AreKept(h, c, f)
<1>1. PICK L \in Nat : L = Len(c)
  OBVIOUS
<1>2. \A k \in 1..L : c[k] \in Addresses
  BY <1>1
<1> DEFINE good == [i \in 0..L |-> {x \in Seq(Addresses) : i > 0 => Len(x) > 0}]
<1>3. ASSUME NEW i \in 0..L
      PROVE  f[i] = IF i = 0 THEN <<>>
                    ELSE IF i < Len(c) /\ h[c[i]].data = h[c[i + 1]].data THEN f[i - 1]
                    ELSE Append(f[i - 1], c[i])
  BY <1>1, Zenon DEF KeptRounds
<1>4. f[0] \in good[0]
  <2>1. f[0] = <<>>
    BY <1>1, <1>3
  <2> QED BY <2>1
<1>5. ASSUME NEW k \in 1..L, f[k - 1] \in good[k - 1] PROVE f[k] \in good[k]
  <2>1. k - 1 \in 0..L /\ k \in 0..L /\ k # 0
    OBVIOUS
  <2>2. f[k - 1] \in Seq(Addresses) /\ (k - 1 > 0 => Len(f[k - 1]) > 0)
    BY <1>5, <2>1
  <2>3. f[k] = IF k < Len(c) /\ h[c[k]].data = h[c[k + 1]].data THEN f[k - 1]
               ELSE Append(f[k - 1], c[k])
    BY <1>3, <2>1
  <2>4. CASE k < Len(c) /\ h[c[k]].data = h[c[k + 1]].data
    <3>1. k # 1
      BY <1>1, <2>4
    <3>2. k - 1 > 0
      BY <3>1
    <3> QED BY <2>1, <2>2, <2>3, <2>4, <3>2
  <2>5. CASE ~(k < Len(c) /\ h[c[k]].data = h[c[k + 1]].data)
    <3>1. PICK x \in Seq(Addresses) : x = f[k - 1]
      BY <2>2
    <3>2. Append(x, c[k]) \in Seq(Addresses) /\ Len(Append(x, c[k])) = Len(x) + 1 /\ Len(x) \in Nat
      BY <1>2, AppendProperties
    <3>3. Len(Append(x, c[k])) > 0
      BY <3>2
    <3>4. f[k] = Append(x, c[k])
      BY <2>3, <2>5, <3>1
    <3> QED BY <2>1, <3>2, <3>3, <3>4
  <2> QED BY <2>4, <2>5
<1>6. \A i \in 0..L : f[i] \in good[i]
  <2> HIDE DEF good
  <2> QED BY <1>4, <1>5, LoopKeeps
<1>7. \A i \in 0..L : f[i] \in Seq(Addresses) /\ (i > 0 => Len(f[i]) > 0)
  BY <1>6
<1> QED BY <1>1, <1>7 DEF AreKept

UnlinkingRounds(h, n, f) ==
  [i \in 0..Cardinality(Addresses) |->
     IF i = 0 THEN [heap |-> h, item |-> ListBegin(h, n)] ELSE UnlinkEqual(f[i - 1])]

LEMMA UniqueUnfolds ==
  ASSUME NEW h, NEW n, NEW g, g = UnlinkingRounds(h, n, g)
  PROVE  \E f : f = UnlinkingRounds(h, n, f) /\ Unique(h, n) = f[Cardinality(Addresses)].heap
BY Zenon DEF Unique, UnlinkingRounds

\* Where the loop is after k rounds: it stays at the last node.
Unlinkings(h, S, c, kept, k) ==
  {l \in ItemLoops :
     \E p \in 1..Len(c) : /\ p = k + 1 \/ (p = Len(c) /\ k + 1 > Len(c))
                          /\ UnlinkedTo(h, S, c, kept[p - 1], p, l)}

LEMMA UnlinkedRound ==
  ASSUME NEW h, NEW S, Chained(h, S), NEW c \in S, NEW kept, AreKept(h, c, kept),
         NEW k \in Nat \ {0}, NEW l \in Unlinkings(h, S, c, kept, k - 1)
  PROVE  UnlinkEqual(l) \in Unlinkings(h, S, c, kept, k)
<1>1. PICK L \in Nat \ {0} : L = Len(c)
  BY ChainOf
<1>2. PICK p \in 1..Len(c) : /\ p = (k - 1) + 1 \/ (p = Len(c) /\ (k - 1) + 1 > Len(c))
                             /\ UnlinkedTo(h, S, c, kept[p - 1], p, l)
  BY DEF Unlinkings
<1>3. CASE p < Len(c)
  <2>1. PICK q \in 1..Len(c) : q = p + 1 /\ q - 1 = p /\ q = k + 1
    BY <1>1, <1>2, <1>3
  <2>2. UnlinkedTo(h, S, c, kept[p], p + 1, UnlinkEqual(l))
    BY <1>2, <1>3, UnlinkedOn
  <2>3. UnlinkedTo(h, S, c, kept[q - 1], q, UnlinkEqual(l))
    BY <2>1, <2>2
  <2>4. UnlinkEqual(l) \in ItemLoops
    BY <2>3 DEF UnlinkedTo
  <2> QED BY <2>1, <2>3, <2>4 DEF Unlinkings
<1>4. CASE ~(p < Len(c))
  <2>1. UnlinkEqual(l) = l
    BY <1>2, <1>4, UnlinkedOn
  <2>2. p = Len(c) /\ k + 1 > Len(c)
    BY <1>1, <1>2, <1>4
  <2>3. l \in ItemLoops
    BY <1>2 DEF UnlinkedTo
  <2> QED BY <1>2, <2>1, <2>2, <2>3 DEF Unlinkings
<1> QED BY <1>3, <1>4

\* All the rounds of unique.
LEMMA UniqueIs ==
  ASSUME NEW h, NEW S, Chained(h, S), NEW c \in S, NEW j \in 1..Len(c),
         NEW kept, AreKept(h, c, kept)
  PROVE  /\ Chained(Unique(h, c[j]), InPlaceOf(S, c, kept[Len(c)]))
         /\ SameData(h, Unique(h, c[j]))
<1>1. PICK L \in Nat \ {0} : L = Len(c)
  BY ChainOf
<1>2. c \in Seq(Addresses) /\ h \in Heap /\ Chain(h, c) /\ Apart({c})
  BY ChainOf
<1>3. PICK K \in Nat : K = Cardinality(Addresses) /\ L <= K
  BY <1>1, <1>2, ListFits
<1> DEFINE good == [i \in 0..K |-> Unlinkings(h, S, c, kept, i)]
           body == [x \in ItemLoops |-> UnlinkEqual(x)]
           s == [heap |-> h, item |-> ListBegin(h, c[j])]
<1>4. s \in good[0]
  <2>1. kept[0] = <<>>
    <3>1. 0 \in 0..Len(c)
      BY <1>1
    <3> QED BY <3>1, Zenon DEF AreKept, KeptRounds
  <2>2. Tied(<<>>, c, 1) = c
    <3>1. Len(c) > 0
      BY <1>1
    <3> QED BY <1>2, <3>1, TiedFirst
  <2>3. SameData(h, h) /\ SameNodes(h, h)
    BY DEF SameData, SameNodes
  <2>4. ListBegin(h, c[j]) = c[1]
    BY EndsAre
  <2>5. 1 \in 1..Len(c) /\ c[1] \in Addresses /\ 1 - 1 = 0
    BY <1>1, <1>2
  <2>6. PICK m : m = [heap |-> h, item |-> c[1]]
    OBVIOUS
  <2>7. m \in ItemLoops /\ m.heap = h /\ m.item = c[1]
    BY <1>2, <2>5, <2>6 DEF ItemLoops
  <2>8. InPlaceOf(S, c, c) = S
    BY DEF InPlaceOf
  <2>9. UnlinkedTo(h, S, c, kept[0], 1, m)
    BY <2>1, <2>2, <2>3, <2>7, <2>8 DEF UnlinkedTo
  <2>10. m \in Unlinkings(h, S, c, kept, 0)
    <3>1. UnlinkedTo(h, S, c, kept[1 - 1], 1, m) /\ 1 = 0 + 1
      BY <2>5, <2>9
    <3> QED BY <2>5, <2>7, <3>1 DEF Unlinkings
  <2> QED BY <2>4, <2>6, <2>10
<1>5. ASSUME NEW i \in 1..K, NEW x \in good[i - 1]
      PROVE  x \in ItemLoops /\ UnlinkEqual(x) \in good[i]
  <2>1. i - 1 \in 0..K /\ i \in 0..K /\ i \in Nat \ {0}
    OBVIOUS
  <2>2. x \in Unlinkings(h, S, c, kept, i - 1)
    BY <2>1, <1>5
  <2>3. UnlinkEqual(x) \in Unlinkings(h, S, c, kept, i)
    BY <2>1, <2>2, UnlinkedRound
  <2> QED BY <2>1, <2>2, <2>3 DEF Unlinkings
<1>6. PICK f : f = Rounds(K, s, body, f) /\ \A i \in 0..K : f[i] \in good[i]
  <2>1. \A i \in 1..K : \A x \in good[i - 1] : body[x] \in good[i]
    BY <1>5
  <2> HIDE DEF good, body
  <2> QED BY <1>4, <2>1, LoopRuns
<1>7. f = UnlinkingRounds(h, c[j], f)
  <2>1. ASSUME NEW i \in 0..K PROVE f[i] = IF i = 0 THEN s ELSE UnlinkEqual(f[i - 1])
    <3>1. f[i] = IF i = 0 THEN s ELSE body[f[i - 1]]
      BY <1>6, Zenon DEF Rounds
    <3>2. CASE i = 0
      BY <3>1, <3>2
    <3>3. CASE i # 0
      <4>1. i \in 1..K /\ i - 1 \in 0..K
        BY <3>3
      <4>2. f[i - 1] \in good[i - 1]
        BY <1>6, <4>1
      <4>3. f[i - 1] \in ItemLoops
        BY <1>5, <4>1, <4>2
      <4> QED BY <3>1, <3>3, <4>3
    <3> QED BY <3>2, <3>3
  <2>2. f = [i \in 0..K |-> f[i]]
    BY <1>6 DEF Rounds
  <2> QED BY <1>3, <2>1, <2>2 DEF UnlinkingRounds
<1>8. PICK g : g = UnlinkingRounds(h, c[j], g) /\ Unique(h, c[j]) = g[K].heap
  BY <1>3, <1>7, UniqueUnfolds
<1>9. \A i \in 0..K : g[i] \in good[i]
  <2>1. \A i \in 0..K : g[i] = IF i = 0 THEN s ELSE UnlinkEqual(g[i - 1])
    BY <1>3, <1>8, Zenon DEF UnlinkingRounds
  <2>2. g[0] \in good[0]
    BY <1>4, <2>1
  <2>3. ASSUME NEW i \in 1..K, g[i - 1] \in good[i - 1] PROVE g[i] \in good[i]
    <3>1. UnlinkEqual(g[i - 1]) \in good[i]
      BY <1>5, <2>3
    <3>2. i \in 0..K /\ i # 0
      OBVIOUS
    <3>3. g[i] = UnlinkEqual(g[i - 1])
      BY <2>1, <3>2
    <3> QED BY <3>1, <3>3
  <2> HIDE DEF good
  <2> QED BY <2>2, <2>3, LoopKeeps
<1>10. g[K] \in Unlinkings(h, S, c, kept, K)
  BY <1>9
<1>11. PICK p \in 1..Len(c) : /\ p = K + 1 \/ (p = Len(c) /\ K + 1 > Len(c))
                              /\ UnlinkedTo(h, S, c, kept[p - 1], p, g[K])
  BY <1>10 DEF Unlinkings
<1>12. p = L
  BY <1>1, <1>3, <1>11
<1>13. Tied(kept[L - 1], c, L) = Append(kept[L - 1], c[L])
  <2>1. L - 1 \in 0..Len(c) /\ Len(c) > 0
    BY <1>1
  <2>2. kept[L - 1] \in Seq(Addresses)
    BY <2>1 DEF AreKept
  <2> QED BY <1>1, <1>2, <2>1, <2>2, TiedLast
<1>14. kept[L] = Append(kept[L - 1], c[L])
  <2>1. L \in 0..Len(c) /\ L # 0 /\ ~(L < Len(c))
    BY <1>1
  <2>2. kept[L] = IF L = 0 THEN <<>>
                  ELSE IF L < Len(c) /\ h[c[L]].data = h[c[L + 1]].data THEN kept[L - 1]
                  ELSE Append(kept[L - 1], c[L])
    BY <2>1, Zenon DEF AreKept, KeptRounds
  <2> QED BY <2>1, <2>2
<1>15. UnlinkedTo(h, S, c, kept[L - 1], L, g[K])
  BY <1>11, <1>12
<1> QED BY <1>1, <1>8, <1>13, <1>14, <1>15 DEF UnlinkedTo

-----------------------------------------------------------------------------
(* A list made of an array.                                                *)

EndsWith(g, n) == \E T : Chained(g, T) /\ \E c \in T : c[Len(c)] = n

\* The first node of createFromArray.
LEMMA FirstFilled ==
  ASSUME NEW h, NEW S, Chained(h, S), NEW new \in Addresses, h[new] = Free, NEW e \in Elements,
         NEW g, g = Create(h, new, e)
  PROVE  Chained(g, S \cup {<<new>>}) /\ FreeAsBefore(h, g, new)
<1>1. Chained(g, S \cup {<<new>>}) /\ \A x \in Addresses : x # new => g[x] = h[x]
  BY Created
<1>2. g[new] # Free
  <2>1. PICK d : d = <<new>>
    OBVIOUS
  <2>2. PICK T : T = S \cup {d}
    OBVIOUS
  <2>3. Chained(g, T) /\ d \in T
    BY <1>1, <2>1, <2>2
  <2>4. 1 \in 1..Len(d) /\ d[1] = new
    BY <2>1, Single
  <2>5. g[d[1]] # Free
    BY <2>3, <2>4, NodeOf
  <2> QED BY <2>4, <2>5
<1> QED BY <1>1, <1>2 DEF FreeAsBefore

\* The node i + 1 is the last of a list and those after it are not made yet.
Filled(news, size, i) ==
  {g \in Heap : /\ EndsWith(g, news[i + 1])
                /\ \A j \in 1..size : j > i + 1 => g[news[j]] = Free}

FillingRounds(h, news, arr, N, f) ==
  [i \in 0..N |-> IF i = 0 THEN Create(h, news[1], arr[1])
                           ELSE PushBack(f[i - 1], news[i], news[i + 1], arr[i + 1])]

LEMMA FromArrayUnfolds ==
  ASSUME NEW h, NEW news, NEW arr, NEW N, N = Len(arr) - 1,
         NEW g, g = FillingRounds(h, news, arr, N, g)
  PROVE  \E f : f = FillingRounds(h, news, arr, N, f) /\ FromArray(h, news, arr) = f[N]
BY Zenon DEF FromArray, FillingRounds

LEMMA OneFilled ==
  ASSUME NEW size \in Nat \ {0}, NEW news \in [1..size -> Addresses],
         \A i \in 1..size, j \in 1..size : news[i] = news[j] => i = j,
         NEW arr \in [1..size -> Elements], NEW i \in Nat \ {0}, i < size,
         NEW x \in Filled(news, size, i - 1)
  PROVE  PushBack(x, news[i], news[i + 1], arr[i + 1]) \in Filled(news, size, i)
<1>1. i \in 1..size /\ i + 1 \in 1..size /\ (i - 1) + 1 = i
  OBVIOUS
<1>2. /\ EndsWith(x, news[i]) /\ \A j \in 1..size : j > i => x[news[j]] = Free
  BY <1>1 DEF Filled
<1>3. PICK T : Chained(x, T) /\ \E c \in T : c[Len(c)] = news[i]
  BY <1>2 DEF EndsWith
<1>4. PICK c \in T : c[Len(c)] = news[i]
  BY <1>3
<1>5. PICK L \in Nat \ {0} : L = Len(c)
  BY <1>3, ChainOf
<1>6. PICK new \in Addresses : new = news[i + 1]
  BY <1>1
<1>7. x[new] = Free
  BY <1>1, <1>2, <1>6
<1>8. PICK e \in Elements : e = arr[i + 1]
  BY <1>1
<1>9. PICK g : g = PushBack(x, c[L], new, e)
  OBVIOUS
<1>10. Chained(g, (T \ {c}) \cup {Append(c, new)}) /\ FreeAsBefore(x, g, new)
  <2>1. L \in 1..Len(c) /\ Chained(x, T)
    BY <1>3, <1>5
  <2>2. /\ Chained(PushBack(x, c[L], new, e), (T \ {c}) \cup {Append(c, new)})
        /\ FreeAsBefore(x, PushBack(x, c[L], new, e), new)
    BY <1>7, <2>1, PushedBack
  <2> QED BY <1>9, <2>2
<1>11. EndsWith(g, new)
  <2>1. c \in Seq(Addresses)
    BY <1>3, ChainOf
  <2>2. PICK d : d = Append(c, new)
    OBVIOUS
  <2>3. d[Len(d)] = new
    BY <2>1, <2>2, AppendProperties
  <2>4. PICK Q : Q = (T \ {c}) \cup {d}
    OBVIOUS
  <2>5. Chained(g, Q) /\ d \in Q
    BY <1>10, <2>2, <2>4
  <2> QED BY <2>3, <2>5 DEF EndsWith
<1>12. ASSUME NEW j \in 1..size, j > i + 1 PROVE g[news[j]] = Free
  <2>1. j > i /\ j # i + 1
    BY <1>12
  <2>2. news[j] # new
    BY <1>1, <1>6, <2>1
  <2>3. x[news[j]] = Free /\ news[j] \in Addresses
    BY <1>2, <2>1
  <2> QED BY <1>10, <2>2, <2>3 DEF FreeAsBefore
<1>13. g \in Heap
  BY <1>10 DEF Chained
<1>14. g = PushBack(x, news[i], news[i + 1], arr[i + 1])
  BY <1>4, <1>5, <1>6, <1>8, <1>9
<1> QED BY <1>6, <1>11, <1>12, <1>13, <1>14 DEF Filled

\* createFromArray leaves lists.
LEMMA FromArrayIs ==
  ASSUME NEW h, NEW S, Chained(h, S), NEW size \in Nat \ {0}, NEW news \in [1..size -> Addresses],
         \A i \in 1..size, j \in 1..size : news[i] = news[j] => i = j,
         \A i \in 1..size : h[news[i]] = Free, NEW arr \in [1..size -> Elements]
  PROVE  \E T : Chained(FromArray(h, news, arr), T)
<1>1. PICK N \in Nat : N = size - 1 /\ N = Len(arr) - 1
  <2>1. Len(arr) = size /\ size - 1 \in Nat
    OBVIOUS
  <2> QED BY <2>1
<1> DEFINE good == [i \in 0..N |-> Filled(news, size, i)]
           body == [i \in 1..N |-> [x \in Heap |-> PushBack(x, news[i], news[i + 1], arr[i + 1])]]
           s == Create(h, news[1], arr[1])
<1>2. s \in good[0]
  <2>1. 1 \in 1..size /\ 0 + 1 = 1
    OBVIOUS
  <2>2. PICK new \in Addresses : new = news[1]
    BY <2>1
  <2>3. PICK e \in Elements : e = arr[1]
    BY <2>1
  <2>4. h[new] = Free
    BY <2>1, <2>2
  <2>5. PICK g : g = Create(h, new, e)
    OBVIOUS
  <2>6. Chained(g, S \cup {<<new>>}) /\ FreeAsBefore(h, g, new)
    BY <2>4, <2>5, FirstFilled
  <2>7. EndsWith(g, new)
    <3>1. PICK d : d = <<new>>
      OBVIOUS
    <3>2. d[Len(d)] = new
      BY <3>1, Single
    <3>3. PICK T : T = S \cup {d}
      OBVIOUS
    <3>4. Chained(g, T) /\ d \in T
      BY <2>6, <3>1, <3>3
    <3> QED BY <3>2, <3>4 DEF EndsWith
  <2>8. ASSUME NEW j \in 1..size, j > 0 + 1 PROVE g[news[j]] = Free
    <3>1. j # 1 /\ news[j] \in Addresses
      BY <2>8
    <3>2. news[j] # new
      BY <2>1, <2>2, <3>1
    <3> QED BY <2>6, <3>1, <3>2 DEF FreeAsBefore
  <2>9. g \in Heap
    BY <2>6 DEF Chained
  <2>10. g \in Filled(news, size, 0)
    BY <2>1, <2>2, <2>7, <2>8, <2>9 DEF Filled
  <2>11. s = g
    BY <2>2, <2>3, <2>5
  <2> QED BY <2>10, <2>11
<1>3. ASSUME NEW i \in 1..N, NEW x \in good[i - 1]
      PROVE  /\ x \in Heap /\ body[i][x] = PushBack(x, news[i], news[i + 1], arr[i + 1])
             /\ PushBack(x, news[i], news[i + 1], arr[i + 1]) \in good[i]
  <2>1. i - 1 \in 0..N /\ i \in 0..N /\ i \in Nat \ {0} /\ i < size
    BY <1>1
  <2>2. x \in Filled(news, size, i - 1)
    BY <1>3, <2>1
  <2>3. PushBack(x, news[i], news[i + 1], arr[i + 1]) \in Filled(news, size, i)
    BY <2>1, <2>2, OneFilled
  <2>4. x \in Heap
    BY <2>2 DEF Filled
  <2> QED BY <2>1, <2>3, <2>4
<1>4. PICK f : f = NumberedRounds(N, s, body, f) /\ \A i \in 0..N : f[i] \in good[i]
  <2>1. \A i \in 1..N : \A x \in good[i - 1] : body[i][x] \in good[i]
    BY <1>3
  <2> HIDE DEF good, body, s
  <2> QED BY <1>2, <2>1, NumberedLoopRuns
<1>5. f = FillingRounds(h, news, arr, N, f)
  <2>1. ASSUME NEW i \in 0..N
        PROVE  f[i] = IF i = 0 THEN s ELSE PushBack(f[i - 1], news[i], news[i + 1], arr[i + 1])
    <3>1. f[i] = IF i = 0 THEN s ELSE body[i][f[i - 1]]
      BY <1>4, Zenon DEF NumberedRounds
    <3>2. CASE i = 0
      BY <3>1, <3>2
    <3>3. CASE i # 0
      <4>1. i \in 1..N /\ i - 1 \in 0..N
        BY <3>3
      <4>2. f[i - 1] \in good[i - 1]
        BY <1>4, <4>1
      <4>3. body[i][f[i - 1]] = PushBack(f[i - 1], news[i], news[i + 1], arr[i + 1])
        BY <1>3, <4>1, <4>2
      <4> QED BY <3>1, <3>3, <4>3
    <3> QED BY <3>2, <3>3
  <2>2. f = [i \in 0..N |-> f[i]]
    BY <1>4 DEF NumberedRounds
  <2> QED BY <2>1, <2>2 DEF FillingRounds
<1>6. PICK g : g = FillingRounds(h, news, arr, N, g) /\ FromArray(h, news, arr) = g[N]
  BY <1>1, <1>5, FromArrayUnfolds
<1>7. \A i \in 0..N : g[i] \in good[i]
  <2>1. \A i \in 0..N : g[i] = IF i = 0 THEN s ELSE PushBack(g[i - 1], news[i], news[i + 1], arr[i + 1])
    BY <1>6, Zenon DEF FillingRounds
  <2>2. g[0] \in good[0]
    BY <1>2, <2>1
  <2>3. ASSUME NEW i \in 1..N, g[i - 1] \in good[i - 1] PROVE g[i] \in good[i]
    <3>1. PushBack(g[i - 1], news[i], news[i + 1], arr[i + 1]) \in good[i]
      BY <1>3, <2>3
    <3>2. i \in 0..N /\ i # 0
      OBVIOUS
    <3>3. g[i] = PushBack(g[i - 1], news[i], news[i + 1], arr[i + 1])
      BY <2>1, <3>2
    <3> QED BY <3>1, <3>3
  <2> HIDE DEF good
  <2> QED BY <2>2, <2>3, LoopKeeps
<1>8. g[N] \in Filled(news, size, N)
  BY <1>7
<1> QED BY <1>6, <1>8 DEF Filled, EndsWith

-----------------------------------------------------------------------------
(* What the functions promise.                                             *)

\* From any of its nodes a list is found again.
LEMMA ListOfIs ==
  ASSUME NEW S, Chained(heap, S), NEW c \in S, NEW i \in 1..Len(c)
  PROVE  /\ c[i] \in Listed(heap) /\ Lists(heap) = S
         /\ ListOf(c[i]) = c /\ IndexIn(c, c[i]) = i
<1>1. Lists(heap) = S /\ Listed(heap) = {x \in Addresses : Within(x, S)}
  BY ListsAre
<1>2. c[i] \in Addresses /\ Within(c[i], S)
  <2>1. c[i] \in Addresses
    BY NodeOf
  <2> QED BY <2>1 DEF Within
<1>3. ASSUME NEW d \in S PROVE c[i] \in Range(d) <=> d = c
  <2>1. d \in Seq(Addresses) /\ c \in Seq(Addresses)
    BY ChainOf
  <2>2. DOMAIN d = 1..Len(d) /\ DOMAIN c = 1..Len(c)
    BY <2>1
  <2>3. c[i] \in Range(c)
    BY <2>2 DEF Range
  <2>4. c[i] \in Range(d) => \E j \in 1..Len(d) : c[i] = d[j]
    BY <2>2 DEF Range
  <2> QED BY <2>3, <2>4, ApartIn
<1>4. ListOf(c[i]) = c
  BY <1>1, <1>3 DEF ListOf
<1>5. DOMAIN c = 1..Len(c)
  <2>1. c \in Seq(Addresses)
    BY ChainOf
  <2> QED BY <2>1
<1>6. \A j \in DOMAIN c : c[j] = c[i] <=> j = i
  BY <1>5, ApartIn
<1>7. IndexIn(c, c[i]) = i
  BY <1>5, <1>6 DEF IndexIn
<1> QED BY <1>1, <1>2, <1>4, <1>7

LEMMA ListedIn ==
  ASSUME NEW S, Chained(heap, S), NEW n \in Listed(heap)
  PROVE  \E c \in S : \E i \in 1..Len(c) : n = c[i]
BY ListsAre DEF Within

\* A heap that is made of lists has the form in which the promises are stated.
LEMMA BecomesIs ==
  ASSUME NEW S, Chained(heap, S), NEW g, NEW T, Chained(g, T), SameData(heap, g)
  PROVE  Becomes(g, T)
<1>1. Lists(g) = T /\ Listed(g) = {x \in Addresses : Within(x, T)}
  BY ListsAre
<1>2. Listed(heap) = {x \in Addresses : Within(x, S)}
  BY ListsAre
<1>3. ASSUME NEW c \in T PROVE Backward(g, Last(c)) = Reverse(c)
  <2>1. PICK k \in 1..Len(c) : k = Len(c)
    <3>1. Len(c) \in Nat \ {0}
      BY ChainOf
    <3>2. Len(c) \in 1..Len(c)
      BY <3>1
    <3> QED BY <3>2
  <2>2. /\ ListBegin(g, c[k]) = c[1] /\ ListEnd(g, c[k]) = c[Len(c)]
        /\ Forward(g, c[1]) = c /\ All(g, c[k]) = c
        /\ Backward(g, c[Len(c)]) = Reverse(c)
    BY EndsAre
  <2> QED BY <2>2 DEF Last
<1>4. ASSUME NEW n \in Listed(g) \cap Listed(heap) PROVE g[n].data = heap[n].data
  <2>1. n \in Addresses /\ Within(n, T) /\ Within(n, S)
    BY <1>1, <1>2
  <2>2. g[n] # Free
    <3>1. PICK c \in T : \E i \in 1..Len(c) : n = c[i]
      BY <2>1 DEF Within
    <3> QED BY <3>1, NodeOf
  <2>3. heap[n] # Free
    <3>1. PICK c \in S : \E i \in 1..Len(c) : n = c[i]
      BY <2>1 DEF Within
    <3> QED BY <3>1, NodeOf
  <2> QED BY <2>1, <2>2, <2>3 DEF SameData
<1> QED BY <1>1, <1>3, <1>4 DEF Becomes

LEMMA ReplacesIs ==
  ASSUME NEW S, Chained(heap, S), NEW c \in S, NEW i \in 1..Len(c), NEW g, NEW d, d # <<>>,
         Chained(g, InPlaceOf(S, c, d)), SameData(heap, g)
  PROVE  Replaces(g, c[i], d)
<1>1. Becomes(g, (S \ {c}) \cup {d})
  BY BecomesIs DEF InPlaceOf
<1>2. Lists(heap) = S /\ ListOf(c[i]) = c
  BY ListOfIs
<1> QED BY <1>1, <1>2 DEF Replaces

LEMMA RemovesIs ==
  ASSUME NEW S, Chained(heap, S), NEW c \in S, NEW i \in 1..Len(c), NEW g,
         Chained(g, S \ {c}), SameData(heap, g)
  PROVE  Replaces(g, c[i], <<>>)
<1>1. Becomes(g, (S \ {c}) \cup {})
  <2>1. (S \ {c}) \cup {} = S \ {c}
    OBVIOUS
  <2> QED BY <2>1, BecomesIs
<1>2. Lists(heap) = S /\ ListOf(c[i]) = c
  BY ListOfIs
<1> QED BY <1>1, <1>2 DEF Replaces

\* Each function does what it promises: erase,
LEMMA EraseReplaces ==
  ASSUME NEW S, Chained(heap, S), NEW c \in S, NEW i \in 1..Len(c)
  PROVE  Replaces(Erase(heap, c[i]), c[i], SubSeq(c, 1, i - 1) \o SubSeq(c, i + 1, Len(c)))
<1>1. PICK L \in Nat \ {0} : L = Len(c)
  BY ChainOf
<1>2. c \in Seq(Addresses)
  BY ChainOf
<1>3. PICK g : g = Erase(heap, c[i])
  OBVIOUS
<1>4. Chained(g, OneLess(S, c, i)) /\ SameData(heap, g)
  BY <1>3, Erased
<1>5. PICK d : d = CutOut(c, i)
  OBVIOUS
<1>6. d \in Seq(Addresses) /\ Len(d) = L - 1
  BY <1>1, <1>2, <1>5, CutOutIs
<1>7. CASE L = 1
  <2>1. d = <<>>
    BY <1>6, <1>7
  <2>2. OneLess(S, c, i) = S \ {c}
    BY <1>1, <1>7 DEF OneLess
  <2>3. Replaces(g, c[i], <<>>)
    BY <1>4, <2>2, RemovesIs
  <2> QED BY <1>3, <1>5, <2>1, <2>3 DEF CutOut
<1>8. CASE L # 1
  <2>1. d # <<>>
    BY <1>6, <1>8
  <2>2. OneLess(S, c, i) = InPlaceOf(S, c, d)
    BY <1>1, <1>5, <1>8 DEF OneLess, InPlaceOf
  <2>3. Replaces(g, c[i], d)
    BY <1>4, <2>1, <2>2, ReplacesIs
  <2> QED BY <1>3, <1>5, <2>3 DEF CutOut
<1> QED BY <1>7, <1>8

\* clear,
LEMMA ClearReplaces ==
  ASSUME NEW S, Chained(heap, S), NEW c \in S, NEW i \in 1..Len(c)
  PROVE  /\ Replaces(Clear(heap, c[i]), c[i], <<>>)
         /\ Chained(Clear(heap, c[i]), S \ {c})
<1>1. PICK L \in Nat \ {0} : L = Len(c)
  BY ChainOf
<1>2. PICK g : g = Beheaded(heap, c[1], L)
  OBVIOUS
<1>3. Chained(g, WithoutFirst(S, c, L)) /\ SameData(heap, g)
  <2>1. L \in 0..Len(c)
    BY <1>1
  <2> QED BY <1>2, <2>1, BeheadedIs
<1>4. WithoutFirst(S, c, L) = S \ {c}
  BY <1>1 DEF WithoutFirst
<1>5. Clear(heap, c[i]) = g
  <2>1. ListBegin(heap, c[i]) = c[1] /\ All(heap, c[i]) = c
    BY EndsAre
  <2> QED BY <1>1, <1>2, <2>1 DEF Clear
<1>6. Replaces(g, c[i], <<>>)
  BY <1>3, <1>4, RemovesIs
<1> QED BY <1>3, <1>4, <1>5, <1>6

\* reverse,
LEMMA ReverseReplaces ==
  ASSUME NEW S, Chained(heap, S), NEW c \in S, NEW i \in 1..Len(c)
  PROVE  Replaces(ReverseList(heap, c[i]), c[i], Reverse(c))
<1>1. c \in Seq(Addresses) /\ Len(c) \in Nat \ {0}
  BY ChainOf
<1>2. Reverse(c) # <<>>
  <2>1. Len(Reverse(c)) = Len(c)
    BY <1>1, ReverseIs
  <2> QED BY <1>1, <2>1
<1>3. /\ Chained(ReverseList(heap, c[i]), InPlaceOf(S, c, Reverse(c)))
      /\ SameData(heap, ReverseList(heap, c[i]))
  BY ReverseListIs DEF InPlaceOf
<1> QED BY <1>2, <1>3, ReplacesIs

LEMMA SafeMeans ==
  ASSUME NEW S, Chained(heap, S), NEW c \in S, NEW i \in 1..Len(c), IsUniqueSafe(heap, c[i])
  PROVE  Len(c) > 1 => heap[c[1]].data # heap[c[2]].data
<1>1. All(heap, c[i]) = c
  BY EndsAre
<1> QED BY <1>1 DEF IsUniqueSafe

\* unique,
LEMMA UniqueReplaces ==
  ASSUME NEW S, Chained(heap, S), NEW c \in S, NEW i \in 1..Len(c), IsUniqueSafe(heap, c[i])
  PROVE  /\ Replaces(Unique(heap, c[i]), c[i], LastOfGroups(c))
         /\ Chained(Unique(heap, c[i]), InPlaceOf(S, c, LastOfGroups(c)))
<1>1. c \in Seq(Addresses) /\ Len(c) \in Nat \ {0}
  BY ChainOf
<1>2. Len(c) > 1 => heap[c[1]].data # heap[c[2]].data
  BY SafeMeans
<1>3. PICK f : AreKept(heap, c, f)
  BY <1>1, <1>2, KeptExist
<1>4. PICK g : g = KeptRounds(heap, c, g) /\ LastOfGroups(c) = g[Len(c)]
  BY <1>3, LastOfGroupsUnfolds DEF AreKept
<1>5. AreKept(heap, c, g)
  BY <1>1, <1>2, <1>4, KeptAre
<1>6. g[Len(c)] # <<>>
  <2>1. Len(c) \in 0..Len(c) /\ Len(c) > 0
    BY <1>1
  <2>2. Len(g[Len(c)]) > 0
    BY <1>5, <2>1 DEF AreKept
  <2> QED BY <2>2
<1>7. Chained(Unique(heap, c[i]), InPlaceOf(S, c, g[Len(c)])) /\ SameData(heap, Unique(heap, c[i]))
  BY <1>5, UniqueIs
<1> QED BY <1>4, <1>6, <1>7, ReplacesIs

\* rotate_left,
LEMMA RotateReplaces ==
  ASSUME NEW S, Chained(heap, S), NEW c \in S, NEW i \in 1..Len(c), NEW k \in Nat,
         NEW r, r = k % Len(c)
  PROVE  Replaces(RotateLeft(heap, c[i], k), c[i], SubSeq(c, r + 1, Len(c)) \o SubSeq(c, 1, r))
<1>1. PICK L \in Nat \ {0} : L = Len(c)
  BY ChainOf
<1>2. c \in Seq(Addresses)
  BY ChainOf
<1>3. k % L \in 0..(L - 1)
  BY NextTurn
<1>4. r \in 0..(Len(c) - 1)
  BY <1>1, <1>3
<1>5. PICK d : d = Rotation(c, r)
  OBVIOUS
<1>6. d = SubSeq(c, r + 1, Len(c)) \o SubSeq(c, 1, r)
  BY <1>2, <1>4, <1>5, RotationParts
<1>7. d # <<>>
  <2>1. Len(Rotation(c, r)) = Len(c)
    BY <1>2, <1>4, RotationIs
  <2> QED BY <1>1, <1>5, <2>1
<1>8. Chained(RotateLeft(heap, c[i], k), InPlaceOf(S, c, d)) /\ SameData(heap, RotateLeft(heap, c[i], k))
  BY <1>5, RotateLeftIs
<1> QED BY <1>6, <1>7, <1>8, ReplacesIs

\* shift_left, which keeps the last node,
LEMMA ShiftReplaces ==
  ASSUME NEW S, Chained(heap, S), NEW c \in S, NEW i \in 1..Len(c), NEW k \in Nat,
         NEW left, left = IF k < Len(c) THEN k ELSE Len(c) - 1
  PROVE  /\ Replaces(ShiftLeft(heap, c[1], k), c[i], SubSeq(c, left + 1, Len(c)))
         /\ Chained(ShiftLeft(heap, c[1], k), InPlaceOf(S, c, SubSeq(c, left + 1, Len(c))))
<1>1. PICK L \in Nat \ {0} : L = Len(c)
  BY ChainOf
<1>2. c \in Seq(Addresses)
  BY ChainOf
<1>3. left \in 0..(Len(c) - 1) /\ left = IF k < L - 1 THEN k ELSE L - 1
  BY <1>1
<1>4. PICK g : g = Beheaded(heap, c[1], left)
  OBVIOUS
<1>5. PICK d : d = SubSeq(c, left + 1, Len(c))
  OBVIOUS
<1>6. Chained(g, InPlaceOf(S, c, d)) /\ SameData(heap, g)
  <2>1. left \in 0..Len(c) /\ left # Len(c)
    BY <1>1, <1>3
  <2>2. Chained(Beheaded(heap, c[1], left), WithoutFirst(S, c, left)) /\ SameData(heap, Beheaded(heap, c[1], left))
    BY <2>1, BeheadedIs
  <2>3. WithoutFirst(S, c, left) = InPlaceOf(S, c, d)
    BY <1>5, <2>1 DEF WithoutFirst, InPlaceOf
  <2> QED BY <1>4, <2>2, <2>3
<1>7. d # <<>>
  <2>1. Len(SubSeq(c, left + 1, Len(c))) = Len(c) - left
    <3>1. PICK j \in 0..(Len(c) - 1) : j = left
      BY <1>3
    <3>2. /\ SubSeq(c, j + 1, Len(c)) \in Seq(Addresses) /\ Len(SubSeq(c, j + 1, Len(c))) = Len(c) - j
          /\ \A a \in 1..(Len(c) - j) : SubSeq(c, j + 1, Len(c))[a] = c[j + a]
      BY <1>2, RestIs
    <3> QED BY <3>1, <3>2
  <2>2. Len(d) = Len(c) - left
    BY <1>5, <2>1
  <2>3. Len(d) # 0
    BY <1>1, <1>3, <2>2
  <2>4. Len(<<>>) = 0
    OBVIOUS
  <2> QED BY <2>3, <2>4
<1>8. ShiftLeft(heap, c[1], k) = g
  <2>1. Forward(heap, c[1]) = c
    <3>1. 1 \in 1..Len(c)
      BY <1>1
    <3> QED BY <3>1, EndsAre
  <2> QED BY <1>1, <1>3, <1>4, <2>1 DEF ShiftLeft
<1> QED BY <1>5, <1>6, <1>7, <1>8, ReplacesIs

\* push_back, push_front and insert,
LEMMA GrowReplaces ==
  ASSUME NEW S, Chained(heap, S), NEW c \in S, NEW i \in 1..Len(c),
         NEW new \in Available, NEW e \in Elements
  PROVE  /\ Replaces(PushBack(heap, c[i], new, e), c[i], Append(c, new))
         /\ Replaces(PushFront(heap, c[i], new, e), c[i], <<new>> \o c)
         /\ Replaces(InsertAfter(heap, c[i], new, e), c[i], InsertAt(c, i + 1, new))
<1>1. c \in Seq(Addresses) /\ Len(c) \in Nat \ {0}
  BY ChainOf
<1>2. new \in Addresses /\ heap[new] = Free
  BY DEF Available, Allocated
<1>3. Append(c, new) # <<>>
  <2>1. Len(Append(c, new)) = Len(c) + 1
    BY <1>1, <1>2, AppendProperties
  <2>2. Len(Append(c, new)) # 0
    BY <1>1, <2>1
  <2>3. Len(<<>>) = 0
    OBVIOUS
  <2> QED BY <2>2, <2>3
<1>4. <<new>> \o c # <<>>
  <2>1. PICK d : d = <<new>>
    OBVIOUS
  <2>2. d \in Seq(Addresses) /\ Len(d) = 1
    BY <1>2, <2>1, Single
  <2>3. Len(d \o c) = Len(d) + Len(c)
    BY <1>1, <2>2, ConcatProperties
  <2>4. Len(d \o c) # 0
    BY <1>1, <2>2, <2>3
  <2>5. Len(<<>>) = 0
    OBVIOUS
  <2> QED BY <2>1, <2>4, <2>5
<1>5. InsertAt(c, i + 1, new) # <<>>
  <2>1. Len(InsertAt(c, i + 1, new)) = Len(c) + 1
    BY <1>1, <1>2, PutIn
  <2>2. Len(InsertAt(c, i + 1, new)) # 0
    BY <1>1, <2>1
  <2>3. Len(<<>>) = 0
    OBVIOUS
  <2> QED BY <2>2, <2>3
<1>6. Replaces(PushBack(heap, c[i], new, e), c[i], Append(c, new))
  <2>1. /\ Chained(PushBack(heap, c[i], new, e), InPlaceOf(S, c, Append(c, new)))
        /\ SameData(heap, PushBack(heap, c[i], new, e))
    BY <1>2, PushedBack DEF InPlaceOf
  <2> QED BY <1>3, <2>1, ReplacesIs
<1>7. Replaces(PushFront(heap, c[i], new, e), c[i], <<new>> \o c)
  <2>1. /\ Chained(PushFront(heap, c[i], new, e), InPlaceOf(S, c, <<new>> \o c))
        /\ SameData(heap, PushFront(heap, c[i], new, e))
    BY <1>2, PushedFront DEF InPlaceOf
  <2> QED BY <1>4, <2>1, ReplacesIs
<1>8. Replaces(InsertAfter(heap, c[i], new, e), c[i], InsertAt(c, i + 1, new))
  <2>1. /\ Chained(InsertAfter(heap, c[i], new, e), InPlaceOf(S, c, InsertAt(c, i + 1, new)))
        /\ SameData(heap, InsertAfter(heap, c[i], new, e))
    BY <1>2, Inserted DEF InPlaceOf
  <2> QED BY <1>5, <2>1, ReplacesIs
<1> QED BY <1>6, <1>7, <1>8

\* swap,
LEMMA SwapBecomes ==
  ASSUME NEW S, Chained(heap, S), NEW c \in S, NEW i \in 1..Len(c), NEW d \in S, NEW j \in 1..Len(d)
  PROVE  Becomes(Swap(heap, c[i], d[j]), ExchangedIn(Lists(heap), c[i], d[j]))
<1>1. PICK n : n = c[i]
  OBVIOUS
<1>2. PICK m : m = d[j]
  OBVIOUS
<1>3. Within(n, S) /\ Within(m, S)
  BY <1>1, <1>2 DEF Within
<1>4. Chained(Swap(heap, n, m), ExchangedIn(S, n, m)) /\ SameData(heap, Swap(heap, n, m))
  BY <1>3, SwappedLists
<1>5. Lists(heap) = S
  BY ListsAre
<1>6. Becomes(Swap(heap, n, m), ExchangedIn(S, n, m))
  BY <1>4, BecomesIs
<1> QED BY <1>1, <1>2, <1>5, <1>6

\* concat,
LEMMA ConcatBecomes ==
  ASSUME NEW S, Chained(heap, S), NEW c \in S, NEW i \in 1..Len(c), NEW d \in S, c # d
  PROVE  /\ Becomes(Concat(heap, c[i], d[1]), (Lists(heap) \ {c, d}) \cup {c \o d})
         /\ Chained(Concat(heap, c[i], d[1]), (S \ {c, d}) \cup {c \o d})
<1>1. PICK g : g = Join(heap, c[Len(c)], d[1])
  OBVIOUS
<1>2. Chained(g, (S \ {c, d}) \cup {c \o d}) /\ SameData(heap, g)
  BY <1>1, JoinedLists
<1>3. Concat(heap, c[i], d[1]) = g
  <2>1. ListEnd(heap, c[i]) = c[Len(c)]
    BY EndsAre
  <2> QED BY <1>1, <2>1 DEF Concat
<1>4. Becomes(g, (S \ {c, d}) \cup {c \o d})
  BY <1>2, BecomesIs
<1>5. Lists(heap) = S
  BY ListsAre
<1> QED BY <1>2, <1>3, <1>4, <1>5

\* Where an element is in a sequence without repetitions.
LEMMA IndexIs ==
  ASSUME NEW T, NEW s \in Seq(T), NEW k \in 1..Len(s), \A a \in 1..Len(s) : s[a] = s[k] => a = k
  PROVE  s[k] \in Range(s) /\ IndexIn(s, s[k]) = k
<1>1. DOMAIN s = 1..Len(s)
  OBVIOUS
<1>2. \A a \in DOMAIN s : s[a] = s[k] <=> a = k
  BY <1>1
<1> QED BY <1>1, <1>2 DEF IndexIn, Range

\* and distance, which of two lists counts to the front of the first.
LEMMA DistanceIs ==
  ASSUME NEW S, Chained(heap, S), NEW c \in S, NEW i \in 1..Len(c), NEW d \in S, NEW j \in 1..Len(d)
  PROVE  Distance(heap, c[i], d[j]) = IF c = d THEN j - i ELSE 0 - i
<1>1. PICK L \in Nat \ {0} : L = Len(c)
  BY ChainOf
<1>2. c \in Seq(Addresses) /\ heap \in Heap /\ Chain(heap, c) /\ Apart({c})
  BY ChainOf
<1>3. PICK f : f = SubSeq(c, i, L)
  OBVIOUS
<1>4. Forward(heap, c[i]) = f
  BY <1>1, <1>2, <1>3, ForwardIs
<1>5. PICK q \in 0..(L - 1) : q = i - 1
  <2>1. i - 1 \in 0..(L - 1)
    BY <1>1
  <2> QED BY <2>1
<1>6. f \in Seq(Addresses) /\ Len(f) = L - q /\ \A a \in 1..(L - q) : f[a] = c[q + a]
  <2>1. q \in 0..(Len(c) - 1) /\ q + 1 = i
    BY <1>1, <1>5
  <2>2. /\ SubSeq(c, q + 1, Len(c)) \in Seq(Addresses) /\ Len(SubSeq(c, q + 1, Len(c))) = Len(c) - q
        /\ \A a \in 1..(Len(c) - q) : SubSeq(c, q + 1, Len(c))[a] = c[q + a]
    BY <1>2, <2>1, RestIs
  <2> QED BY <1>1, <1>3, <2>1, <2>2
<1>7. PICK r : r = Reverse(c)
  OBVIOUS
<1>8. r \in Seq(Addresses) /\ Len(r) = L /\ \A a \in 1..L : r[a] = c[L - a + 1]
  BY <1>1, <1>2, <1>7, ReverseIs
<1>9. PICK b : b = SubSeq(r, L - i + 1, L)
  OBVIOUS
<1>10. Backward(heap, c[i]) = b
  <2>1. Backward(heap, c[i]) = SubSeq(Reverse(c), Len(c) - i + 1, Len(c))
    BY <1>2, BackwardIs
  <2> QED BY <1>1, <1>7, <1>9, <2>1
<1>11. b \in Seq(Addresses) /\ Len(b) = i /\ \A a \in 1..i : b[a] = c[i - a + 1]
  <2>1. PICK p \in 0..(Len(r) - 1) : p = L - i
    <3>1. L - i \in 0..(Len(r) - 1)
      BY <1>1, <1>8
    <3> QED BY <3>1
  <2>2. /\ SubSeq(r, p + 1, Len(r)) \in Seq(Addresses) /\ Len(SubSeq(r, p + 1, Len(r))) = Len(r) - p
        /\ \A a \in 1..(Len(r) - p) : SubSeq(r, p + 1, Len(r))[a] = r[p + a]
    BY <1>8, RestIs
  <2>3. Len(r) - p = i
    BY <1>1, <1>8, <2>1
  <2>4. b \in Seq(Addresses) /\ Len(b) = i /\ \A a \in 1..i : b[a] = r[p + a]
    BY <1>8, <1>9, <2>1, <2>2, <2>3
  <2>5. ASSUME NEW a \in 1..i PROVE b[a] = c[i - a + 1]
    <3>1. PICK t \in 1..L : t = p + a /\ L - t + 1 = i - a + 1
      <4>1. p + a \in 1..L /\ L - (p + a) + 1 = i - a + 1
        BY <1>1, <1>8, <2>1
      <4> QED BY <4>1
    <3> QED BY <1>8, <2>4, <3>1
  <2> QED BY <2>4, <2>5
<1>12. \A a \in 1..L, t \in 1..L : c[a] = c[t] => a = t
  BY <1>1, ApartIn
<1>13. DOMAIN f = 1..Len(f) /\ DOMAIN b = 1..Len(b)
  BY <1>6, <1>11
<1>14. CASE c = d
  <2>1. j \in 1..L /\ d[j] = c[j]
    BY <1>1, <1>14
  <2>2. CASE j >= i
    <3>1. PICK k \in 1..(L - q) : k = j - q /\ q + k = j
      <4>1. j - q \in 1..(L - q) /\ q + (j - q) = j
        BY <1>5, <2>1, <2>2
      <4> QED BY <4>1
    <3>2. f[k] = c[j]
      BY <1>6, <3>1
    <3>3. ASSUME NEW a \in 1..Len(f), f[a] = f[k] PROVE a = k
      <4>1. PICK t \in 1..L : t = q + a /\ f[a] = c[t]
        <5>1. q + a \in 1..L /\ f[a] = c[q + a]
          BY <1>5, <1>6
        <5> QED BY <5>1
      <4>2. t = j
        BY <1>12, <2>1, <3>2, <3>3, <4>1
      <4> QED BY <1>5, <3>1, <4>1, <4>2
    <3>4. k \in 1..Len(f)
      BY <1>6
    <3>5. f[k] \in Range(f) /\ IndexIn(f, f[k]) = k
      BY <1>6, <3>3, <3>4, IndexIs
    <3>6. Distance(heap, c[i], d[j]) = k - 1
      BY <1>4, <2>1, <3>2, <3>5 DEF Distance
    <3>7. k - 1 = j - i
      BY <1>5, <2>1, <3>1
    <3> QED BY <1>14, <3>6, <3>7
  <2>3. CASE j < i
    <3>1. d[j] \notin Range(f)
      <4>1. ASSUME NEW a \in 1..Len(f), f[a] = c[j] PROVE FALSE
        <5>1. PICK t \in 1..L : t = q + a /\ f[a] = c[t]
          <6>1. q + a \in 1..L /\ f[a] = c[q + a]
            BY <1>5, <1>6
          <6> QED BY <6>1
        <5>2. t = j
          BY <1>12, <2>1, <4>1, <5>1
        <5> QED BY <1>5, <2>3, <5>1, <5>2
      <4> QED BY <1>13, <2>1, <4>1 DEF Range
    <3>2. PICK k \in 1..i : k = i - j + 1 /\ i - k + 1 = j
      <4>1. i - j + 1 \in 1..i /\ i - (i - j + 1) + 1 = j
        BY <2>1, <2>3
      <4> QED BY <4>1
    <3>3. b[k] = c[j]
      BY <1>11, <3>2
    <3>4. ASSUME NEW a \in 1..Len(b), b[a] = b[k] PROVE a = k
      <4>1. PICK t \in 1..L : t = i - a + 1 /\ b[a] = c[t]
        <5>1. i - a + 1 \in 1..L /\ b[a] = c[i - a + 1]
          BY <1>1, <1>11
        <5> QED BY <5>1
      <4>2. t = j
        BY <1>12, <2>1, <3>3, <3>4, <4>1
      <4> QED BY <1>11, <3>2, <4>1, <4>2
    <3>5. k \in 1..Len(b)
      BY <1>11
    <3>6. b[k] \in Range(b) /\ IndexIn(b, b[k]) = k
      BY <1>11, <3>4, <3>5, IndexIs
    <3>7. Distance(heap, c[i], d[j]) = 1 - k
      BY <1>4, <1>10, <2>1, <3>1, <3>3, <3>6 DEF Distance
    <3>8. 1 - k = j - i
      BY <2>1, <3>2
    <3> QED BY <1>14, <3>7, <3>8
  <2>4. j >= i \/ j < i
    BY <2>1
  <2> QED BY <2>2, <2>3, <2>4
<1>15. CASE c # d
  <2>1. \A a \in 1..L : c[a] # d[j]
    BY <1>1, <1>15, ApartIn
  <2>2. ASSUME NEW a \in 1..Len(f) PROVE f[a] # d[j]
    <3>1. q + a \in 1..L /\ f[a] = c[q + a]
      BY <1>5, <1>6
    <3> QED BY <2>1, <3>1
  <2>3. ASSUME NEW a \in 1..Len(b) PROVE b[a] # d[j]
    <3>1. i - a + 1 \in 1..L /\ b[a] = c[i - a + 1]
      BY <1>1, <1>11
    <3> QED BY <2>1, <3>1
  <2>4. d[j] \notin Range(f) /\ d[j] \notin Range(b)
    BY <1>13, <2>2, <2>3 DEF Range
  <2>5. Distance(heap, c[i], d[j]) = 0 - i
    BY <1>4, <1>10, <1>11, <2>4 DEF Distance
  <2> QED BY <1>15, <2>5
<1> QED BY <1>14, <1>15

\* All the promises together, of a heap that is made of lists.
LEMMA ChainedAreSequences ==
  ASSUME NEW S, Chained(heap, S)
  PROVE  ListsAreSequences
<1> SUFFICES ASSUME NEW n \in Listed(heap), NEW c, c = ListOf(n), NEW i, i = IndexIn(c, n)
    PROVE  /\ Replaces(Erase(heap, n), n, SubSeq(c, 1, i - 1) \o SubSeq(c, i + 1, Len(c)))
           /\ Replaces(Clear(heap, n), n, <<>>)
           /\ Replaces(ReverseList(heap, n), n, Reverse(c))
           /\ IsUniqueSafe(heap, n) =>
                \E S1 \in OneOfEachGroup(c) : Replaces(Unique(heap, n), n, Chosen(c, S1))
           /\ \A k \in 0..MaxTurns :
                LET r == k % Len(c)
                    left == IF k < Len(c) THEN k ELSE Len(c) - 1
                IN /\ Replaces(RotateLeft(heap, n, k), n, SubSeq(c, r + 1, Len(c)) \o SubSeq(c, 1, r))
                   /\ Replaces(ShiftLeft(heap, c[1], k), n, SubSeq(c, left + 1, Len(c)))
           /\ \A new \in Available, e \in Elements :
                /\ Replaces(PushBack(heap, n, new, e), n, Append(c, new))
                /\ Replaces(PushFront(heap, n, new, e), n, <<new>> \o c)
                /\ Replaces(InsertAfter(heap, n, new, e), n, InsertAt(c, i + 1, new))
           /\ \A m \in Listed(heap) :
                LET d == ListOf(m)
                    j == IndexIn(d, m)
                IN /\ Becomes(Swap(heap, n, m), {Exchange(b, n, m) : b \in Lists(heap)})
                   /\ c # d => Becomes(Concat(heap, n, d[1]), (Lists(heap) \ {c, d}) \cup {c \o d})
                   /\ Distance(heap, n, m) = IF c = d THEN j - i ELSE 0 - i
  BY DEF ListsAreSequences
<1>1. c \in S /\ i \in 1..Len(c) /\ n = c[i]
  <2>1. PICK b \in S : \E k \in 1..Len(b) : n = b[k]
    BY ListedIn
  <2>2. PICK k \in 1..Len(b) : n = b[k]
    BY <2>1
  <2>3. ListOf(b[k]) = b /\ IndexIn(b, b[k]) = k
    BY ListOfIs
  <2> QED BY <2>2, <2>3
<1>2. Replaces(Erase(heap, n), n, SubSeq(c, 1, i - 1) \o SubSeq(c, i + 1, Len(c)))
  BY <1>1, EraseReplaces
<1>3. Replaces(Clear(heap, n), n, <<>>)
  BY <1>1, ClearReplaces
<1>4. Replaces(ReverseList(heap, n), n, Reverse(c))
  BY <1>1, ReverseReplaces
<1>5. IsUniqueSafe(heap, n) =>
        \E S1 \in OneOfEachGroup(c) : Replaces(Unique(heap, n), n, Chosen(c, S1))
  <2>1. IsUniqueSafe(heap, n) => Replaces(Unique(heap, n), n, Chosen(c, Lasts(c)))
    BY <1>1, UniqueReplaces DEF LastOfGroups
  <2>2. c \in Seq(Addresses)
    BY <1>1, ChainOf
  <2> QED BY <2>1, <2>2, LastsAreOne
<1>6. ASSUME NEW k \in 0..MaxTurns, NEW r, r = k % Len(c),
             NEW left, left = IF k < Len(c) THEN k ELSE Len(c) - 1
      PROVE  /\ Replaces(RotateLeft(heap, n, k), n, SubSeq(c, r + 1, Len(c)) \o SubSeq(c, 1, r))
             /\ Replaces(ShiftLeft(heap, c[1], k), n, SubSeq(c, left + 1, Len(c)))
  <2>1. k \in Nat
    BY ListAssumption
  <2>2. Replaces(RotateLeft(heap, c[i], k), c[i], SubSeq(c, r + 1, Len(c)) \o SubSeq(c, 1, r))
    BY <1>1, <1>6, <2>1, RotateReplaces
  <2>3. Replaces(ShiftLeft(heap, c[1], k), c[i], SubSeq(c, left + 1, Len(c)))
    BY ONLY Chained(heap, S), <1>1, <1>6, <2>1, ShiftReplaces
  <2> QED BY <1>1, <2>2, <2>3
<1>7. ASSUME NEW new \in Available, NEW e \in Elements
      PROVE  /\ Replaces(PushBack(heap, n, new, e), n, Append(c, new))
             /\ Replaces(PushFront(heap, n, new, e), n, <<new>> \o c)
             /\ Replaces(InsertAfter(heap, n, new, e), n, InsertAt(c, i + 1, new))
  BY <1>1, GrowReplaces
<1>8. ASSUME NEW m \in Listed(heap), NEW d, d = ListOf(m), NEW j, j = IndexIn(d, m)
      PROVE  /\ Becomes(Swap(heap, n, m), {Exchange(b, n, m) : b \in Lists(heap)})
             /\ c # d => Becomes(Concat(heap, n, d[1]), (Lists(heap) \ {c, d}) \cup {c \o d})
             /\ Distance(heap, n, m) = IF c = d THEN j - i ELSE 0 - i
  <2>1. d \in S /\ j \in 1..Len(d) /\ m = d[j]
    <3>1. PICK b \in S : \E k \in 1..Len(b) : m = b[k]
      BY ListedIn
    <3>2. PICK k \in 1..Len(b) : m = b[k]
      BY <3>1
    <3>3. ListOf(b[k]) = b /\ IndexIn(b, b[k]) = k
      BY ListOfIs
    <3> QED BY <1>8, <3>2, <3>3
  <2>2. Becomes(Swap(heap, n, m), {Exchange(b, n, m) : b \in Lists(heap)})
    <3>1. Becomes(Swap(heap, c[i], d[j]), ExchangedIn(Lists(heap), c[i], d[j]))
      BY <1>1, <2>1, SwapBecomes
    <3>2. Becomes(Swap(heap, n, m), ExchangedIn(Lists(heap), n, m))
      BY <1>1, <2>1, <3>1
    <3> QED BY <3>2 DEF ExchangedIn
  <2>3. c # d => Becomes(Concat(heap, c[i], d[1]), (Lists(heap) \ {c, d}) \cup {c \o d})
    BY <1>1, <2>1, ConcatBecomes
  <2>4. Distance(heap, c[i], d[j]) = IF c = d THEN j - i ELSE 0 - i
    BY <1>1, <2>1, DistanceIs
  <2> QED BY <1>1, <2>1, <2>2, <2>3, <2>4
<1> QED BY <1>2, <1>3, <1>4, <1>5, <1>6, <1>7, <1>8

-----------------------------------------------------------------------------
(* Every call leaves lists.                                                *)

\* Each allocated node whose pointer back is NULL heads one of the lists, and the lists
\* are chains that have no node in common.
HeapIsLists == Chained(heap, Lists(heap))

LEMMA HeapIsListsIf ==
  ASSUME NEW S, Chained(heap, S)
  PROVE  HeapIsLists
BY ListsAre DEF HeapIsLists

\* It is enough to name the lists of the next heap.
LEMMA HeapIsListsNext ==
  ASSUME NEW S, Chained(heap', S)
  PROVE  HeapIsLists'
<1>1. Lists(heap') = S
  BY ListsAre
<1> QED BY <1>1 DEF HeapIsLists

LEMMA EmptyIsLists ==
  ASSUME ListInit
  PROVE  HeapIsLists
<1>1. heap \in Heap /\ \A x \in Addresses : heap[x] = Free
  BY DEF ListInit, Heap
<1>2. Chained(heap, {})
  BY <1>1 DEF Chained, Apart
<1> QED BY <1>2, HeapIsListsIf

\* Each call of each function leaves lists.
LEMMA CallLeavesLists ==
  ASSUME HeapIsLists, ListNext
  PROVE  HeapIsLists'
<1>1. PICK S : S = Lists(heap) /\ Chained(heap, S)
  BY DEF HeapIsLists
<1>2. ASSUME NEW new \in Available PROVE new \in Addresses /\ heap[new] = Free
  BY DEF Available, Allocated
<1>3. ASSUME NEW new \in Available, NEW e \in Elements, NewList(new, e) PROVE HeapIsLists'
  <2>1. Chained(Create(heap, new, e), S \cup {<<new>>})
    BY <1>1, <1>2, Created
  <2>2. Chained(heap', S \cup {<<new>>})
    BY <1>3, <2>1 DEF NewList
  <2> QED BY <2>2, HeapIsListsNext
<1>4. ASSUME NEW new \in Available, NEW e \in Elements, NEW n \in Listed(heap), Grow(n, new, e)
      PROVE  HeapIsLists'
  <2>1. PICK c \in S : \E i \in 1..Len(c) : n = c[i]
    BY <1>1, ListedIn
  <2>2. PICK i \in 1..Len(c) : n = c[i]
    BY <2>1
  <2>3. CASE heap' = PushBack(heap, n, new, e)
    <3>1. Chained(PushBack(heap, c[i], new, e), (S \ {c}) \cup {Append(c, new)})
      BY <1>1, <1>2, PushedBack
    <3> QED BY <2>2, <2>3, <3>1, HeapIsListsNext
  <2>4. CASE heap' = PushFront(heap, n, new, e)
    <3>1. Chained(PushFront(heap, c[i], new, e), (S \ {c}) \cup {<<new>> \o c})
      BY <1>1, <1>2, PushedFront
    <3> QED BY <2>2, <2>4, <3>1, HeapIsListsNext
  <2>5. CASE heap' = InsertAfter(heap, n, new, e)
    <3>1. Chained(InsertAfter(heap, c[i], new, e), (S \ {c}) \cup {InsertAt(c, i + 1, new)})
      BY <1>1, <1>2, Inserted
    <3> QED BY <2>2, <2>5, <3>1, HeapIsListsNext
  <2> QED BY <1>4, <2>3, <2>4, <2>5 DEF Grow
<1>5. ASSUME NEW size \in 1..Cardinality(Available), NEW news \in [1..size -> Available],
             NEW arr \in [1..size -> Elements], IsInjective(news), NewListOf(news, arr)
      PROVE  HeapIsLists'
  <2>1. size \in Nat \ {0}
    OBVIOUS
  <2>2. news \in [1..size -> Addresses]
    BY <1>2
  <2>3. \A i \in 1..size, j \in 1..size : news[i] = news[j] => i = j
    BY <1>5 DEF IsInjective
  <2>4. \A i \in 1..size : heap[news[i]] = Free
    BY <1>2
  <2>5. PICK T : Chained(FromArray(heap, news, arr), T)
    BY <1>1, <2>1, <2>2, <2>3, <2>4, FromArrayIs
  <2> QED BY <1>5, <2>5, HeapIsListsNext DEF NewListOf
<1>6. ASSUME NEW n \in Listed(heap), Shrink(n) PROVE HeapIsLists'
  <2>1. PICK c \in S : \E i \in 1..Len(c) : n = c[i]
    BY <1>1, ListedIn
  <2>2. PICK i \in 1..Len(c) : n = c[i]
    BY <2>1
  <2>3. PICK L \in Nat \ {0} : L = Len(c)
    BY <1>1, ChainOf
  <2>4. ASSUME NEW k \in 1..Len(c), heap' = Erase(heap, c[k]) PROVE HeapIsLists'
    <3>1. Chained(Erase(heap, c[k]), OneLess(S, c, k))
      BY <1>1, Erased
    <3> QED BY <2>4, <3>1, HeapIsListsNext
  <2>5. ListBegin(heap, n) = c[1] /\ ListEnd(heap, n) = c[L] /\ 1 \in 1..Len(c) /\ L \in 1..Len(c)
    <3>1. ListBegin(heap, c[i]) = c[1] /\ ListEnd(heap, c[i]) = c[Len(c)]
      BY <1>1, EndsAre
    <3> QED BY <2>2, <2>3, <3>1
  <2>6. CASE heap' = Erase(heap, n)
    BY <2>2, <2>4, <2>6
  <2>7. CASE heap' = PopBack(heap, n)
    BY <2>4, <2>5, <2>7 DEF PopBack
  <2>8. CASE heap' = PopFront(heap, n)
    BY <2>4, <2>5, <2>8 DEF PopFront
  <2>9. CASE heap' = Clear(heap, n)
    <3>1. Chained(Clear(heap, c[i]), S \ {c})
      BY <1>1, ClearReplaces
    <3> QED BY <2>2, <2>9, <3>1, HeapIsListsNext
  <2> QED BY <1>6, <2>6, <2>7, <2>8, <2>9 DEF Shrink
<1>7. ASSUME NEW n \in Listed(heap), Rearrange(n) PROVE HeapIsLists'
  <2>1. PICK c \in S : \E i \in 1..Len(c) : n = c[i]
    BY <1>1, ListedIn
  <2>2. PICK i \in 1..Len(c) : n = c[i]
    BY <2>1
  <2>3. CASE heap' = ReverseList(heap, n)
    <3>1. Chained(ReverseList(heap, c[i]), (S \ {c}) \cup {Reverse(c)})
      BY <1>1, ReverseListIs
    <3> QED BY <2>2, <2>3, <3>1, HeapIsListsNext
  <2>4. ASSUME NEW k \in 0..MaxTurns, heap' = RotateLeft(heap, n, k) PROVE HeapIsLists'
    <3>1. k \in Nat
      BY ListAssumption
    <3>2. Chained(RotateLeft(heap, c[i], k), InPlaceOf(S, c, Rotation(c, k % Len(c))))
      BY <1>1, <3>1, RotateLeftIs
    <3> QED BY <2>2, <2>4, <3>2, HeapIsListsNext
  <2>5. ASSUME NEW k \in 0..MaxTurns, heap' = ShiftLeft(heap, ListBegin(heap, n), k)
        PROVE  HeapIsLists'
    <3>1. k \in Nat
      BY ListAssumption
    <3>2. PICK left : left = IF k < Len(c) THEN k ELSE Len(c) - 1
      OBVIOUS
    <3>3. Chained(ShiftLeft(heap, c[1], k), InPlaceOf(S, c, SubSeq(c, left + 1, Len(c))))
      BY <1>1, <3>1, <3>2, ShiftReplaces
    <3>4. ListBegin(heap, c[i]) = c[1]
      BY <1>1, EndsAre
    <3> QED BY <2>2, <2>5, <3>3, <3>4, HeapIsListsNext
  <2>6. CASE IsUniqueSafe(heap, n) /\ heap' = Unique(heap, n)
    <3>1. Chained(Unique(heap, c[i]), InPlaceOf(S, c, LastOfGroups(c)))
      BY <1>1, <2>2, <2>6, UniqueReplaces
    <3> QED BY <2>2, <2>6, <3>1, HeapIsListsNext
  <2> QED BY <1>7, <2>3, <2>4, <2>5, <2>6 DEF Rearrange
<1>8. ASSUME NEW n \in Listed(heap), NEW m \in Listed(heap), Combine(n, m) PROVE HeapIsLists'
  <2>1. PICK c \in S : \E i \in 1..Len(c) : n = c[i]
    BY <1>1, ListedIn
  <2>2. PICK i \in 1..Len(c) : n = c[i]
    BY <2>1
  <2>3. PICK d \in S : \E j \in 1..Len(d) : m = d[j]
    BY <1>1, ListedIn
  <2>4. CASE heap' = Swap(heap, n, m)
    <3>1. Within(n, S) /\ Within(m, S)
      BY <2>1, <2>3 DEF Within
    <3>2. Chained(Swap(heap, n, m), ExchangedIn(S, n, m))
      BY <1>1, <3>1, SwappedLists
    <3> QED BY <2>4, <3>2, HeapIsListsNext
  <2>5. CASE m \in ListHeads(heap) \ {ListBegin(heap, n)} /\ heap' = Concat(heap, n, m)
    <3>1. PICK b \in S : m = b[1]
      BY <1>1, <2>5, ListsAre
    <3>2. ListBegin(heap, c[i]) = c[1]
      BY <1>1, EndsAre
    <3>3. c # b
      BY <2>2, <2>5, <3>1, <3>2
    <3>4. Chained(Concat(heap, c[i], b[1]), (S \ {c, b}) \cup {c \o b})
      BY <1>1, <3>3, ConcatBecomes
    <3> QED BY <2>2, <2>5, <3>1, <3>4, HeapIsListsNext
  <2> QED BY <1>8, <2>4, <2>5 DEF Combine
<1> QED BY <1>3, <1>4, <1>5, <1>6, <1>7, <1>8 DEF ListNext

\* In whatever order the list functions are called, on whichever nodes, the heap is made of
\* lists whose pointers of both directions agree.
THEOREM HeapStaysLists == ListSpec => []HeapIsLists
<1>1. ListInit => HeapIsLists
  BY EmptyIsLists
<1>2. HeapIsLists /\ [ListNext]_heap => HeapIsLists'
  <2>1. ASSUME HeapIsLists, ListNext PROVE HeapIsLists'
    BY <2>1, CallLeavesLists
  <2>2. ASSUME HeapIsLists, UNCHANGED heap PROVE HeapIsLists'
    BY <2>2 DEF HeapIsLists
  <2> QED BY <2>1, <2>2
<1> QED BY <1>1, <1>2, PTL DEF ListSpec

\* Each function does to any list it is called on what it promises of the sequence of nodes:
\* erase, clear, reverse, unique, rotate, shift, push, insert, swap, concat and distance of
\* doublylinkedlist.c.
THEOREM ListsStaySequences == ListSpec => []ListsAreSequences
<1>1. HeapIsLists => ListsAreSequences
  <2>1. ASSUME HeapIsLists PROVE ListsAreSequences
    <3>1. PICK S : S = Lists(heap) /\ Chained(heap, S)
      BY <2>1 DEF HeapIsLists
    <3> QED BY <3>1, ChainedAreSequences
  <2> QED BY <2>1
<1> QED BY <1>1, HeapStaysLists, PTL

=============================================================================
