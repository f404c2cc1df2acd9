-------------------------- MODULE SimulationProofs --------------------------
(***************************************************************************)
(* Theorems about the SystemC models and their proofs.                     *)
(*                                                                         *)
(* hw_fifo with its two handshakes implements the bounded channel, for any *)
(* size and any words.  The channel of producer and consumer prints every  *)
(* number once, for any size and period.  The assertions of the memory's   *)
(* test bench hold, for any number of addresses, blocks and words.  No byte *)
(* of a digest is handed out twice in a period of the random source, and a *)
(* digest is that of the whole message, for any sizes of bytes and blocks. *)
(***************************************************************************)
EXTENDS HwFifo, SharedFifo, MemoryController, RandomBytes, Integers, SequenceTheorems,
        FiniteSetTheorems, TLAPS

-----------------------------------------------------------------------------
(* Remainders: going on from one, and two offsets from one place.          *)

\* The remainder is the only one.
LEMMA RemainderUnique ==
  ASSUME NEW L \in Nat, L > 0, NEW q \in Int, NEW r \in 0..(L - 1),
         NEW p \in Int, NEW t \in 0..(L - 1), L * q + r = L * p + t
  PROVE  r = t
<1>1. L * (q - p) = t - r
  OBVIOUS
<1>2. CASE q = p
  BY <1>2
<1>3. CASE q - p >= 1
  <2>1. L * (q - p) >= L
    BY <1>3
  <2> QED BY <1>1, <2>1
<1>4. CASE q - p <= -1
  <2>1. L * (q - p) <= -L
    BY <1>4
  <2> QED BY <1>1, <2>1
<1> QED BY <1>2, <1>3, <1>4

\* Going on from a remainder.
LEMMA RemainderAdd ==
  ASSUME NEW L \in Nat, L > 0, NEW a \in Nat, NEW i \in Nat
  PROVE  ((a % L) + i) % L = (a + i) % L
<1> DEFINE q == a \div L
           r == a % L
<1>1. q \in Int /\ r \in 0..(L - 1) /\ a = L * q + r
  OBVIOUS
<1>2. PICK b \in Nat : b = r + i
  BY <1>1
<1>3. PICK c \in Nat : c = a + i
  OBVIOUS
<1>4. b \div L \in Int /\ b % L \in 0..(L - 1) /\ b = L * (b \div L) + (b % L)
  OBVIOUS
<1>5. c \div L \in Int /\ c % L \in 0..(L - 1) /\ c = L * (c \div L) + (c % L)
  OBVIOUS
<1> HIDE DEF q, r
<1>6. c = L * q + b
  BY <1>1, <1>2, <1>3
<1>7. c = L * (q + (b \div L)) + (b % L)
  BY <1>1, <1>4, <1>6
<1>8. q + (b \div L) \in Int
  BY <1>1, <1>4
<1>9. PICK s \in Int : s = q + (b \div L)
  BY <1>8
<1>10. PICK u \in Int : u = c \div L
  BY <1>5
<1>11. L * s + (b % L) = L * u + (c % L)
  BY <1>5, <1>7, <1>9, <1>10
<1>12. b % L = c % L
  BY <1>4, <1>5, <1>11, RemainderUnique
<1> QED BY <1>2, <1>3, <1>12 DEF r

\* Different offsets from one place lead to different places.
LEMMA RemainderApart ==
  ASSUME NEW L \in Nat, L > 0, NEW a \in Nat, NEW j \in 0..(L - 1), NEW k \in 0..(L - 1),
         (a + j) % L = (a + k) % L
  PROVE  j = k
<1>1. PICK b \in Nat : b = a + j
  OBVIOUS
<1>2. PICK c \in Nat : c = a + k
  OBVIOUS
<1>3. b \div L \in Int /\ b = L * (b \div L) + (b % L)
  OBVIOUS
<1>4. c \div L \in Int /\ c = L * (c \div L) + (c % L)
  OBVIOUS
<1>5. b % L = c % L /\ b % L \in Int
  BY <1>1, <1>2
<1>6. PICK q \in Int, p \in Int : q = b \div L /\ p = c \div L
  BY <1>3, <1>4
<1>7. L * p + j = L * q + k
  BY <1>1, <1>2, <1>3, <1>4, <1>5, <1>6
<1> QED BY <1>7, RemainderUnique

LEMMA SmallRemainder ==
  ASSUME NEW L \in Nat, L > 0, NEW a \in 0..(L - 1)
  PROVE  a % L = a
<1>1. a = L * 0 + a /\ a = L * (a \div L) + (a % L) /\ a % L \in 0..(L - 1) /\ a \div L \in Int
  OBVIOUS
<1> QED BY <1>1, RemainderUnique

LEMMA OwnRemainder ==
  ASSUME NEW L \in Nat, L > 0
  PROVE  L % L = 0
<1>1. L \div L \in Int /\ L % L \in 0..(L - 1) /\ L = L * (L \div L) + (L % L)
  OBVIOUS
<1>2. PICK q \in Int, r \in 0..(L - 1) : q = L \div L /\ r = L % L
  BY <1>1
<1>3. PICK p \in Int, t \in 0..(L - 1) : p = 1 /\ t = 0
  OBVIOUS
<1>4. L * p = L /\ L = L * q + r
  BY <1>1, <1>2, <1>3
<1>5. L * q + r = L * p + t
  BY <1>3, <1>4
<1>6. r = t
  BY <1>5, RemainderUnique
<1> QED BY <1>2, <1>3, <1>6

-----------------------------------------------------------------------------
(* The hardware FIFO.  The ring of places: an index that runs over the end *)
(* begins again, and different offsets from one index are different places. *)

LEMMA Ring ==
  ASSUME NEW v \in Nat, v < 2 * FifoSize
  PROVE  v % FifoSize = IF v < FifoSize THEN v ELSE v - FifoSize
<1>1. FifoSize \in Nat /\ FifoSize > 0
  BY HwFifoAssumption
<1>2. /\ v = FifoSize * (v \div FifoSize) + (v % FifoSize)
      /\ v % FifoSize \in 0..(FifoSize - 1) /\ v \div FifoSize \in Int
  BY <1>1
<1>3. CASE v < FifoSize
  <2>1. v = FifoSize * 0 + v /\ v \in 0..(FifoSize - 1)
    BY <1>1, <1>3
  <2> QED BY <1>1, <1>2, <1>3, <2>1, RemainderUnique
<1>4. CASE ~(v < FifoSize)
  <2>1. v = FifoSize * 1 + (v - FifoSize) /\ v - FifoSize \in 0..(FifoSize - 1)
    BY <1>1, <1>4
  <2>2. v % FifoSize = v - FifoSize
    BY <1>1, <1>2, <2>1, RemainderUnique
  <2> QED BY <1>4, <2>2
<1> QED BY <1>3, <1>4

LEMMA Place ==
  ASSUME NEW f \in 0..(FifoSize - 1), NEW i \in 0..FifoSize
  PROVE  (f + i) % FifoSize = IF f + i < FifoSize THEN f + i ELSE f + i - FifoSize
<1>1. FifoSize \in Nat /\ FifoSize > 0
  BY HwFifoAssumption
<1>2. \E n \in Nat : n = f + i /\ n < 2 * FifoSize
  BY <1>1
<1>3. PICK v \in Nat : v = f + i /\ v < 2 * FifoSize
  BY <1>2
<1>4. v % FifoSize = IF v < FifoSize THEN v ELSE v - FifoSize
  BY <1>3, Ring
<1>5. (f + i) % FifoSize = v % FifoSize
  BY <1>3
<1>6. CASE v < FifoSize
  BY <1>1, <1>3, <1>4, <1>5, <1>6
<1>7. CASE ~(v < FifoSize)
  BY <1>1, <1>3, <1>4, <1>5, <1>7
<1> QED BY <1>6, <1>7

LEMMA Slots ==
  ASSUME first \in 0..(FifoSize - 1), NEW i \in 0..FifoSize
  PROVE  Slot(i) = IF first + i < FifoSize THEN first + i ELSE first + i - FifoSize
  BY Place DEF Slot

-----------------------------------------------------------------------------
(* What the lines say before each edge is so.                              *)

HwInv ==
  /\ HwTypeOK
  /\ (inReady <=> items < FifoSize)
  /\ (outValid <=> items > 0)
  /\ items > 0 => outData = store[first]
  /\ (inValid <=> sender = "offers")
  /\ (outReady <=> receiver = "asks")

LEMMA HwInvInit == HwInit => HwInv
<1> SUFFICES ASSUME HwInit PROVE HwInv
  OBVIOUS
<1>1. FifoSize \in Nat /\ FifoSize > 0
  BY HwFifoAssumption
<1>2. HwTypeOK
  <2>1. first \in 0..(FifoSize - 1) /\ items \in 0..FifoSize
    BY <1>1 DEF HwInit
  <2>2. /\ inValid \in BOOLEAN /\ inReady \in BOOLEAN
        /\ outValid \in BOOLEAN /\ outReady \in BOOLEAN
    BY DEF HwInit
  <2> QED BY <2>1, <2>2 DEF HwInit, HwTypeOK
<1>3. /\ (inReady <=> items < FifoSize) /\ (outValid <=> items > 0) /\ ~(items > 0)
      /\ (inValid <=> sender = "offers") /\ (outReady <=> receiver = "asks")
  BY <1>1 DEF HwInit
<1> QED BY <1>2, <1>3 DEF HwInv

\* The registers after an edge.
LEMMA EdgeTypes ==
  ASSUME HwInv, FifoProcess
  PROVE  /\ first' \in 0..(FifoSize - 1) /\ items' \in 0..FifoSize
         /\ store' \in [0..(FifoSize - 1) -> Words]
<1>1. /\ FifoSize \in Nat \ {0} /\ first \in 0..(FifoSize - 1) /\ items \in 0..FifoSize
      /\ store \in [0..(FifoSize - 1) -> Words] /\ inData \in Words
  BY HwFifoAssumption DEF HwInv, HwTypeOK
<1>2. Slot(1) \in 0..(FifoSize - 1) /\ Slot(items) \in 0..(FifoSize - 1)
  BY <1>1, Slots
<1>3. items' \in 0..FifoSize
  BY <1>1 DEF FifoProcess, Accepts, Delivers
<1> QED BY <1>1, <1>2, <1>3 DEF FifoProcess

LEMMA HwInvStep == HwInv /\ [HwNext]_hwVars => HwInv'
<1> SUFFICES ASSUME HwInv, [HwNext]_hwVars PROVE HwInv'
  OBVIOUS
<1>1. ASSUME NEW w \in Words, Write(w) PROVE HwInv'
  BY <1>1 DEF Write, HwInv, HwTypeOK, registers, outLines
<1>2. CASE Read
  BY <1>2 DEF Read, HwInv, HwTypeOK, registers, inLines
<1>3. CASE ClockEdge
  <2>1. /\ first' \in 0..(FifoSize - 1) /\ items' \in 0..FifoSize
        /\ store' \in [0..(FifoSize - 1) -> Words]
    BY <1>3, EdgeTypes DEF ClockEdge
  <2>2. /\ (inReady' <=> items' < FifoSize) /\ (outValid' <=> items' > 0)
        /\ outData' = store'[first'] /\ inData' = inData
    BY <1>3 DEF ClockEdge, FifoProcess, FifoLines
  <2>3. (inValid' <=> sender' = "offers") /\ sender' \in {"idle", "offers"}
    BY <1>3 DEF ClockEdge, EndOfWrite, HwInv, HwTypeOK
  <2>4. /\ (outReady' <=> receiver' = "asks") /\ receiver' \in {"idle", "asks"}
        /\ word' \in Words
    BY <1>3 DEF ClockEdge, EndOfRead, HwInv, HwTypeOK
  <2>5. outData' \in Words /\ inData \in Words
    BY <2>1, <2>2 DEF HwInv, HwTypeOK
  <2>6. /\ inValid' \in BOOLEAN /\ inReady' \in BOOLEAN
        /\ outValid' \in BOOLEAN /\ outReady' \in BOOLEAN
    <3>1. inReady' \in BOOLEAN /\ outValid' \in BOOLEAN
      BY <1>3 DEF ClockEdge, FifoProcess, FifoLines
    <3>2. inValid' \in BOOLEAN /\ outReady' \in BOOLEAN
      BY <1>3 DEF ClockEdge, EndOfWrite, EndOfRead, HwInv, HwTypeOK
    <3> QED BY <3>1, <3>2
  <2>7. HwTypeOK'
    BY <2>1, <2>2, <2>3, <2>4, <2>5, <2>6 DEF HwTypeOK
  <2> QED BY <2>2, <2>3, <2>4, <2>7 DEF HwInv
<1>4. CASE UNCHANGED hwVars
  BY <1>4 DEF hwVars, registers, inLines, outLines, HwInv, HwTypeOK
<1> QED BY <1>1, <1>2, <1>3, <1>4 DEF HwNext

\* At every moment, for any size: the lines tell the sender and the receiver what
\* hw_fifo will do at the next edge.
THEOREM LinesAreTrue == HwSpec => []HwInv
  BY HwInvInit, HwInvStep, PTL DEF HwSpec

-----------------------------------------------------------------------------
(* The words in hw_fifo, and what an edge does to them.                    *)

LEMMA BufferedWords ==
  ASSUME HwTypeOK
  PROVE  /\ Buffered \in Seq(Words) /\ Len(Buffered) = items
         /\ \A j \in 1..items : Buffered[j] = store[Slot(j - 1)]
<1>1. /\ FifoSize \in Nat \ {0} /\ first \in 0..(FifoSize - 1) /\ items \in 0..FifoSize
      /\ store \in [0..(FifoSize - 1) -> Words]
  BY HwFifoAssumption DEF HwTypeOK
<1>2. ASSUME NEW j \in 1..items PROVE Slot(j - 1) \in 0..(FifoSize - 1)
  <2>1. j - 1 \in 0..FifoSize
    BY <1>1
  <2> QED BY <1>1, <2>1, Slots
<1>3. \A j \in 1..items : store[Slot(j - 1)] \in Words
  BY <1>1, <1>2
<1> QED BY <1>1, <1>3 DEF Buffered

\* When the oldest word is delivered, every other moves up.
LEMMA MovesUp ==
  ASSUME first \in 0..(FifoSize - 1), first' = Slot(1), NEW i \in 0..(FifoSize - 1)
  PROVE  Slot(i)' = Slot(i + 1)
<1>1. FifoSize \in Nat \ {0}
  BY HwFifoAssumption
<1>2. i \in 0..FifoSize /\ i + 1 \in 0..FifoSize /\ 1 \in 0..FifoSize
  BY <1>1
<1>3. first' = IF first + 1 < FifoSize THEN first + 1 ELSE first + 1 - FifoSize
  BY <1>2, Slots
<1>4. first' \in 0..(FifoSize - 1)
  BY <1>1, <1>3
<1>5. Slot(i)' = IF first' + i < FifoSize THEN first' + i ELSE first' + i - FifoSize
  BY <1>2, <1>4, Place DEF Slot
<1>6. Slot(i + 1)
        = IF first + (i + 1) < FifoSize THEN first + (i + 1) ELSE first + (i + 1) - FifoSize
  BY <1>2, Slots
<1> QED BY <1>1, <1>3, <1>5, <1>6

\* A word that is accepted takes a place of its own.
LEMMA OwnPlace ==
  ASSUME first \in 0..(FifoSize - 1), NEW n \in 0..(FifoSize - 1), NEW i \in 0..(n - 1)
  PROVE  Slot(i) # Slot(n)
<1>1. FifoSize \in Nat \ {0} /\ i \in 0..FifoSize /\ n \in 0..FifoSize
  BY HwFifoAssumption
<1> QED BY <1>1, Slots

Moved == IF Delivers THEN 1 ELSE 0

LEMMA KeptWords ==
  ASSUME HwInv, FifoProcess, NEW j \in 1..(items - Moved)
  PROVE  Buffered'[j] = store[Slot(j - 1 + Moved)]
<1>1. /\ FifoSize \in Nat \ {0} /\ first \in 0..(FifoSize - 1) /\ items \in 0..FifoSize
      /\ store \in [0..(FifoSize - 1) -> Words]
  BY HwFifoAssumption DEF HwInv, HwTypeOK
<1>2. Moved \in {0, 1} /\ (Moved = 1 <=> Delivers)
  BY DEF Moved
<1>3. items' = items + (IF Accepts THEN 1 ELSE 0) - Moved
  BY DEF FifoProcess, Moved
<1>4. j \in 1..items' /\ j - 1 \in 0..(FifoSize - 1) /\ j - 1 + Moved \in 0..(items - 1)
  BY <1>1, <1>2, <1>3
<1>5. Buffered'[j] = store'[Slot(j - 1)']
  BY <1>4 DEF Buffered
<1>6. Slot(j - 1)' = Slot(j - 1 + Moved)
  <2>1. CASE Delivers
    <3>1. first' = Slot(1) /\ j - 1 + Moved = (j - 1) + 1
      BY <1>2, <2>1 DEF FifoProcess
    <3> QED BY <1>1, <1>4, <3>1, MovesUp
  <2>2. CASE ~Delivers
    <3>1. first' = first /\ j - 1 + Moved = j - 1
      BY <1>1, <1>2, <1>4, <2>2 DEF FifoProcess
    <3> QED BY <3>1 DEF Slot
  <2> QED BY <2>1, <2>2
<1>7. store'[Slot(j - 1 + Moved)] = store[Slot(j - 1 + Moved)]
  <2>1. CASE Accepts
    <3>1. items \in 0..(FifoSize - 1)
      BY <1>1, <2>1 DEF Accepts
    <3>2. Slot(j - 1 + Moved) # Slot(items)
      BY <1>1, <1>4, <3>1, OwnPlace
    <3> QED BY <1>1, <2>1, <3>2 DEF FifoProcess
  <2>2. CASE ~Accepts
    BY <2>2 DEF FifoProcess
  <2> QED BY <2>1, <2>2
<1> QED BY <1>5, <1>6, <1>7

LEMMA NewWord ==
  ASSUME HwInv, FifoProcess, Accepts
  PROVE  Buffered'[items'] = inData
<1>1. /\ FifoSize \in Nat \ {0} /\ first \in 0..(FifoSize - 1) /\ items \in 0..(FifoSize - 1)
      /\ store \in [0..(FifoSize - 1) -> Words]
  BY HwFifoAssumption DEF HwInv, HwTypeOK, Accepts
<1>2. items \in 0..FifoSize /\ Slot(items) \in 0..(FifoSize - 1)
  BY <1>1, Slots
<1>3. store'[Slot(items)] = inData
  BY <1>1, <1>2 DEF FifoProcess
<1>4. CASE Delivers
  <2>1. items' = items /\ items \in 1..items' /\ items - 1 \in 0..(FifoSize - 1)
    BY <1>1, <1>4 DEF FifoProcess, Delivers
  <2>2. Slot(items - 1)' = Slot(items - 1 + 1)
    BY <1>1, <1>4, <2>1, MovesUp DEF FifoProcess
  <2>3. Slot(items - 1 + 1) = Slot(items)
    BY <1>1 DEF Slot
  <2>4. Buffered'[items'] = store'[(first' + (items' - 1)) % FifoSize]
    BY <2>1 DEF Buffered, Slot
  <2>5. (first' + (items - 1)) % FifoSize = Slot(items - 1)'
    BY <2>1 DEF Slot
  <2> QED BY <1>3, <2>1, <2>2, <2>3, <2>4, <2>5
<1>5. CASE ~Delivers
  <2>1. items' = items + 1 /\ items' \in 1..items' /\ first' = first
    BY <1>1, <1>5 DEF FifoProcess
  <2>2. Buffered'[items'] = store'[(first' + (items' - 1)) % FifoSize]
    BY <2>1 DEF Buffered, Slot
  <2>3. items' - 1 = items
    BY <1>1, <2>1
  <2> QED BY <1>3, <2>1, <2>2, <2>3 DEF Slot
<1> QED BY <1>4, <1>5

LEMMA BufferedAfter ==
  ASSUME HwInv, FifoProcess
  PROVE  /\ Buffered' \in Seq(Words) /\ Len(Buffered') = items'
<1>1. /\ first' \in 0..(FifoSize - 1) /\ items' \in 0..FifoSize
      /\ store' \in [0..(FifoSize - 1) -> Words] /\ FifoSize \in Nat \ {0}
  BY EdgeTypes, HwFifoAssumption
<1>2. ASSUME NEW j \in 1..items' PROVE (first' + (j - 1)) % FifoSize \in 0..(FifoSize - 1)
  <2>1. PICK f \in 0..(FifoSize - 1) : f = first'
    BY <1>1
  <2>2. PICK i \in 0..FifoSize : i = j - 1
    BY <1>1
  <2>3. (f + i) % FifoSize \in 0..(FifoSize - 1)
    <3>1. (f + i) % FifoSize = IF f + i < FifoSize THEN f + i ELSE f + i - FifoSize
      BY Place
    <3>2. (IF f + i < FifoSize THEN f + i ELSE f + i - FifoSize) \in 0..(FifoSize - 1)
      BY <1>1
    <3> QED BY <3>1, <3>2
  <2> QED BY <2>1, <2>2, <2>3
<1>3. \A j \in 1..items' : store'[(first' + (j - 1)) % FifoSize] \in Words
  BY <1>1, <1>2
<1>4. Buffered' = [j \in 1..items' |-> store'[(first' + (j - 1)) % FifoSize]]
  BY DEF Buffered, Slot
<1>5. items' \in Nat
  BY <1>1
<1> QED BY <1>3, <1>4, <1>5

Rest == IF Delivers THEN Tail(Buffered) ELSE Buffered
Added == IF Accepts THEN <<inData>> ELSE <<>>

LEMMA RestWords ==
  ASSUME HwInv
  PROVE  /\ Rest \in Seq(Words) /\ Len(Rest) = items - Moved
         /\ \A j \in 1..(items - Moved) : Rest[j] = store[Slot(j - 1 + Moved)]
<1>1. /\ Buffered \in Seq(Words) /\ Len(Buffered) = items /\ items \in Nat
      /\ \A j \in 1..items : Buffered[j] = store[Slot(j - 1)]
  BY BufferedWords, HwFifoAssumption DEF HwInv, HwTypeOK
<1>2. CASE Delivers
  <2>1. Buffered # <<>> /\ items > 0
    BY <1>1, <1>2 DEF Delivers
  <2>2. /\ Tail(Buffered) \in Seq(Words) /\ Len(Tail(Buffered)) = items - 1
        /\ \A j \in 1..(items - 1) : Tail(Buffered)[j] = Buffered[j + 1]
    BY <1>1, <2>1, HeadTailProperties
  <2>3. ASSUME NEW j \in 1..(items - 1) PROVE Tail(Buffered)[j] = store[Slot(j - 1 + 1)]
    <3>1. j + 1 \in 1..items /\ j + 1 - 1 = j - 1 + 1
      BY <1>1
    <3> QED BY <1>1, <2>2, <3>1
  <2>4. Rest = Tail(Buffered) /\ Moved = 1
    BY <1>2 DEF Rest, Moved
  <2> QED BY <2>2, <2>3, <2>4
<1>3. CASE ~Delivers
  <2>1. Rest = Buffered /\ Moved = 0
    BY <1>3 DEF Rest, Moved
  <2>2. \A j \in 1..items : j - 1 + 0 = j - 1
    BY <1>1
  <2>3. items - 0 = items
    BY <1>1
  <2> QED BY <1>1, <2>1, <2>2, <2>3
<1> QED BY <1>2, <1>3

\* An edge removes the oldest word, if it delivers, and adds the one on the line, if
\* it accepts.
LEMMA BufferedEdge ==
  ASSUME HwInv, FifoProcess
  PROVE  Buffered' = Rest \o Added
<1>1. /\ Rest \in Seq(Words) /\ Len(Rest) = items - Moved /\ items \in Nat /\ Moved \in {0, 1}
      /\ items - Moved \in Nat /\ inData \in Words
      /\ \A j \in 1..(items - Moved) : Rest[j] = store[Slot(j - 1 + Moved)]
  <2>1. items \in Nat /\ Moved \in {0, 1} /\ items - Moved \in Nat /\ inData \in Words
    BY HwFifoAssumption DEF HwInv, HwTypeOK, Moved, Delivers
  <2> QED BY <2>1, RestWords
<1>2. Buffered' \in Seq(Words) /\ Len(Buffered') = items'
  BY BufferedAfter
<1>3. Added \in Seq(Words) /\ Len(Added) = (IF Accepts THEN 1 ELSE 0)
  BY <1>1 DEF Added
<1>4. items' = items - Moved + Len(Added)
  BY <1>1, <1>3 DEF FifoProcess, Moved
<1>5. /\ Rest \o Added \in Seq(Words) /\ Len(Rest \o Added) = items'
      /\ \A j \in 1..items' : (Rest \o Added)[j]
           = IF j <= items - Moved THEN Rest[j] ELSE Added[j - (items - Moved)]
  <2>1. /\ Rest \o Added \in Seq(Words) /\ Len(Rest \o Added) = Len(Rest) + Len(Added)
        /\ \A j \in 1..(Len(Rest) + Len(Added)) : (Rest \o Added)[j]
             = IF j <= Len(Rest) THEN Rest[j] ELSE Added[j - Len(Rest)]
    BY <1>1, <1>3, ConcatProperties
  <2>2. Len(Rest) + Len(Added) = items'
    BY <1>1, <1>4
  <2> QED BY <1>1, <2>1, <2>2
<1>6. ASSUME NEW j \in 1..items' PROVE Buffered'[j] = (Rest \o Added)[j]
  <2>1. CASE j <= items - Moved
    <3>1. j \in 1..(items - Moved)
      BY <1>1, <2>1
    <3> QED BY <1>1, <1>5, <2>1, <3>1, KeptWords
  <2>2. CASE ~(j <= items - Moved)
    <3>1. Accepts
      BY <1>1, <1>3, <1>4, <2>2
    <3>2. j = items' /\ j - (items - Moved) = 1
      BY <1>1, <1>3, <1>4, <2>2, <3>1
    <3>3. Added[1] = inData
      BY <3>1 DEF Added
    <3>4. Buffered'[items'] = inData
      BY <3>1, NewWord
    <3> QED BY <1>5, <2>2, <3>2, <3>3, <3>4
  <2> QED BY <2>1, <2>2
<1> QED BY <1>2, <1>5, <1>6, SeqEqual

-----------------------------------------------------------------------------
(* The refinement.                                                         *)

LEMMA InitRefines == HwInit => Channel!Init
<1> SUFFICES ASSUME HwInit PROVE Channel!Init
  OBVIOUS
<1>1. items = 0 /\ sender = "idle" /\ receiver = "idle" /\ word \in Words
  BY DEF HwInit
<1>2. Buffered = <<>>
  BY <1>1 DEF Buffered
<1> QED BY <1>1, <1>2 DEF Channel!Init

LEMMA HeadIsOldest ==
  ASSUME HwInv, items > 0
  PROVE  Head(Buffered) = store[first]
<1>1. /\ FifoSize \in Nat \ {0} /\ first \in 0..(FifoSize - 1) /\ items \in 0..FifoSize
      /\ Buffered \in Seq(Words) /\ Len(Buffered) = items
      /\ \A j \in 1..items : Buffered[j] = store[Slot(j - 1)]
  BY BufferedWords, HwFifoAssumption DEF HwInv, HwTypeOK
<1>2. 1 \in 1..items /\ 1 - 1 = 0
  BY <1>1
<1>3. Slot(0) = first
  <2>1. first % FifoSize = first /\ first + 0 = first
    <3>1. FifoSize \in Nat /\ FifoSize > 0 /\ first + 0 = first
      BY <1>1
    <3> QED BY <1>1, <3>1, SmallRemainder, Zenon
  <2> QED BY <2>1 DEF Slot
<1>4. Buffered # <<>>
  BY <1>1
<1>5. Head(Buffered) = Buffered[1]
  BY <1>1, <1>4
<1> QED BY <1>1, <1>2, <1>3, <1>5

LEMMA EdgeRefines ==
  ASSUME HwInv, ClockEdge
  PROVE  Channel!Next \/ UNCHANGED Channel!vars
<1>1. FifoProcess /\ EndOfWrite /\ EndOfRead /\ inData' = inData
  BY DEF ClockEdge
<1>2. /\ Buffered \in Seq(Words) /\ Len(Buffered) = items /\ items \in 0..FifoSize
      /\ FifoSize \in Nat \ {0}
      /\ \A j \in 1..items : Buffered[j] = store[Slot(j - 1)]
  BY BufferedWords, HwFifoAssumption DEF HwInv, HwTypeOK
<1>3. Buffered' = Rest \o Added
  BY <1>1, BufferedEdge
<1>4. (Accepts <=> sender = "offers" /\ items < FifoSize) /\ (Accepts <=> Channel!MayPut)
  BY <1>2 DEF Accepts, HwInv, Channel!MayPut
<1>5. (Delivers <=> receiver = "asks" /\ items > 0) /\ (Delivers <=> Channel!MayGet)
  <2>1. items > 0 <=> Buffered # <<>>
    BY <1>2
  <2> QED BY <1>2, <2>1 DEF Delivers, HwInv, Channel!MayGet
<1>6. CASE Accepts /\ Delivers
  <2>1. Buffered' = Tail(Buffered) \o <<inData>>
    BY <1>3, <1>6 DEF Rest, Added
  <2>2. sender = "offers" /\ sender' = "idle" /\ receiver' = "idle" /\ word' = outData
    BY <1>1, <1>2, <1>4, <1>5, <1>6 DEF EndOfWrite, EndOfRead, HwInv
  <2>3. word' = Head(Buffered)
    BY <1>2, <1>5, <1>6, <2>2, HeadIsOldest DEF HwInv
  <2>4. Channel!PutAndGet
    BY <1>4, <1>5, <1>6, <2>1, <2>2, <2>3 DEF Channel!PutAndGet
  <2> QED BY <2>4 DEF Channel!Next
<1>7. CASE Accepts /\ ~Delivers
  <2>1. Buffered' = Buffered \o <<inData>>
    BY <1>3, <1>7 DEF Rest, Added
  <2>2. sender = "offers" /\ sender' = "idle" /\ receiver' = receiver /\ word' = word
    BY <1>1, <1>2, <1>4, <1>5, <1>7 DEF EndOfWrite, EndOfRead, HwInv
  <2>3. Channel!Put
    BY <1>4, <1>7, <2>1, <2>2 DEF Channel!Put
  <2> QED BY <2>3 DEF Channel!Next
<1>8. CASE ~Accepts /\ Delivers
  <2>1. Buffered' = Tail(Buffered)
    <3>1. Tail(Buffered) \in Seq(Words)
      <4>1. Buffered # <<>>
        BY <1>2, <1>5, <1>8
      <4> QED BY <1>2, <4>1, HeadTailProperties
    <3>2. Buffered' = Tail(Buffered) \o <<>>
      BY <1>3, <1>8 DEF Rest, Added
    <3> QED BY <3>1, <3>2, ConcatEmptySeq
  <2>2. sender' = sender /\ receiver' = "idle" /\ word' = outData
    BY <1>1, <1>2, <1>4, <1>5, <1>8 DEF EndOfWrite, EndOfRead, HwInv
  <2>3. word' = Head(Buffered)
    BY <1>2, <1>5, <1>8, <2>2, HeadIsOldest DEF HwInv
  <2>4. Channel!Get
    BY <1>1, <1>5, <1>8, <2>1, <2>2, <2>3 DEF Channel!Get
  <2> QED BY <2>4 DEF Channel!Next
<1>9. CASE ~Accepts /\ ~Delivers
  <2>1. Buffered' = Buffered
    <3>1. Buffered' = Buffered \o <<>>
      BY <1>3, <1>9 DEF Rest, Added
    <3> QED BY <1>2, <3>1, ConcatEmptySeq
  <2>2. sender' = sender /\ receiver' = receiver /\ word' = word
    BY <1>1, <1>2, <1>4, <1>5, <1>9 DEF EndOfWrite, EndOfRead, HwInv
  <2>3. UNCHANGED Channel!vars
    BY <1>1, <2>1, <2>2 DEF Channel!vars
  <2> QED BY <2>3
<1> QED BY <1>6, <1>7, <1>8, <1>9

LEMMA StepRefines == HwInv /\ [HwNext]_hwVars => [Channel!Next]_(Channel!vars)
<1> SUFFICES ASSUME HwInv, [HwNext]_hwVars PROVE Channel!Next \/ UNCHANGED Channel!vars
  OBVIOUS
<1>1. ASSUME NEW w \in Words, Write(w) PROVE Channel!Next
  <2>1. sender = "idle" /\ sender' = "offers" /\ inData' = w
        /\ first' = first /\ items' = items /\ store' = store
        /\ receiver' = receiver /\ word' = word
    BY <1>1 DEF Write, registers
  <2>2. Buffered' = Buffered
    BY <2>1 DEF Buffered, Slot
  <2>3. <<w>> \in Seq(Words) /\ Len(<<w>>) = 1
    OBVIOUS
  <2>4. Channel!Offer
    BY <2>1, <2>2, <2>3 DEF Channel!Offer
  <2> QED BY <2>4 DEF Channel!Next
<1>2. CASE Read
  <2>1. receiver = "idle" /\ receiver' = "asks" /\ sender' = sender /\ inData' = inData
        /\ first' = first /\ items' = items /\ store' = store /\ word' = word
    BY <1>2 DEF Read, registers, inLines
  <2>2. Buffered' = Buffered
    BY <2>1 DEF Buffered, Slot
  <2>3. Channel!Ask
    BY <2>1, <2>2 DEF Channel!Ask
  <2> QED BY <2>3 DEF Channel!Next
<1>3. CASE ClockEdge
  BY <1>3, EdgeRefines
<1>4. CASE UNCHANGED hwVars
  <2>1. receiver' = receiver /\ sender' = sender /\ inData' = inData
        /\ first' = first /\ items' = items /\ store' = store /\ word' = word
    BY <1>4 DEF hwVars, registers, inLines, outLines
  <2>2. Buffered' = Buffered
    BY <2>1 DEF Buffered, Slot
  <2>3. UNCHANGED Channel!vars
    BY <2>1, <2>2 DEF Channel!vars
  <2> QED BY <2>3
<1> QED BY <1>1, <1>2, <1>3, <1>4 DEF HwNext

\* For any size and any words: the sender, hw_fifo and the receiver together are a
\* bounded channel; no word is lost, doubled or overtaken.
THEOREM HandshakeImplementsChannel == HwSpec => HandshakeIsChannel
<1>1. HwSpec => []HwInv
  BY LinesAreTrue
<1> QED BY <1>1, InitRefines, StepRefines, PTL
        DEF HwSpec, HandshakeIsChannel, Channel!Spec

-----------------------------------------------------------------------------
(* The channel of producer and consumer.                                   *)

\* A call is asked at the edge of the caller's clock and answered by the next turn
\* of the arbitrator; until then the caller does not run.
Turns ==
  /\ waitsFor["arbitrator"] = "request"
  /\ waitsFor["producer"] # "request" /\ waitsFor["consumer"] # "request"
  /\ writeFlag => waitsFor["producer"] = "done" /\ "producer" \notin runnable
                  /\ writeItem = number
  /\ readFlag => waitsFor["consumer"] = "done" /\ "consumer" \notin runnable

\* A number that was read and not printed, and one that was written and not counted.
Told == IF Answered("consumer", readFlag) /\ readStatus THEN 1 ELSE 0
Taken == IF Answered("producer", writeFlag) /\ writeStatus THEN 1 ELSE 0

\* The number at a distance from the last one printed.
AfterPrinted(n) == (printed + n) % Period

\* What was read, what is stored and what is written next go on from what was printed.
InOrder ==
  /\ Told = 1 => received = AfterPrinted(1)
  /\ \A j \in 0..(numItems - 1) : data[(front + j) % Size] = AfterPrinted(Told + j + 1)
  /\ (number + Taken) % Period = AfterPrinted(Told + numItems + 1)

FifoInv == FifoTypeOK /\ Turns /\ InOrder

LEMMA FifoFacts ==
  /\ Size \in Nat /\ Size >= 1 /\ Period \in Nat /\ Period >= 1
  /\ 1 \in Nat
  /\ Numbers \subseteq Nat
  /\ \A a \in Nat : a % Size \in 0..(Size - 1) /\ a % Period \in Numbers
BY FifoAssumption DEF Numbers

LEMMA NumberIsRemainder ==
  ASSUME NEW n \in Numbers
  PROVE  n % Period = n /\ n + 0 = n
BY FifoFacts, SmallRemainder DEF Numbers

LEMMA FifoInitInv == FifoInit => FifoInv
<1> SUFFICES ASSUME FifoInit PROVE FifoInv
  OBVIOUS
<1> USE FifoFacts DEF FifoInit
<1>1. FifoTypeOK
  <2>1. front \in 0..(Size - 1) /\ numItems \in 0..Size
    OBVIOUS
  <2>2. {0, Period - 1} \subseteq Numbers
    BY DEF Numbers
  <2>3. data \in [0..(Size - 1) -> Numbers]
    BY <2>2
  <2>4. waitsFor \in [Processes -> {"edge", "done", "request"}]
    OBVIOUS
  <2> QED BY <2>1, <2>2, <2>3, <2>4 DEF FifoTypeOK, Processes
<1>2. Turns
  BY DEF Turns, Processes
<1>3. Told = 0 /\ Taken = 0
  BY DEF Told, Taken, Answered, Processes
<1>4. InOrder
  <2>1. 0 % Period = 0
    BY SmallRemainder
  <2>2. Period % Period = 0
    BY OwnRemainder
  <2>3. Period - 1 + (0 + 0 + 1) = Period
    OBVIOUS
  <2> QED BY <1>3, <2>1, <2>2, <2>3 DEF InOrder, AfterPrinted
<1> QED BY <1>1, <1>2, <1>4 DEF FifoInv

\* The type invariant, one variable at a time, with what a solver needs of it.
Typed ==
  /\ front \in Nat /\ front \in 0..(Size - 1) /\ numItems \in 0..Size /\ numItems \in Nat
  /\ data \in [0..(Size - 1) -> Numbers]
  /\ readFlag \in BOOLEAN /\ writeFlag \in BOOLEAN
  /\ readStatus \in BOOLEAN /\ writeStatus \in BOOLEAN /\ slowEdge \in BOOLEAN
  /\ writeItem \in Numbers /\ number \in Numbers /\ received \in Numbers /\ printed \in Numbers
  /\ number \in Nat /\ printed \in Nat
  /\ waitsFor \in [Processes -> {"edge", "done", "request"}]
  /\ runnable \subseteq Processes
  /\ Told \in {0, 1} /\ Taken \in {0, 1}

LEMMA FifoTypes ==
  ASSUME FifoTypeOK
  PROVE  Typed
<1>1. Told \in {0, 1} /\ Taken \in {0, 1}
  BY DEF Told, Taken
<1>2. Numbers \subseteq Nat /\ Size \in Nat
  BY FifoFacts
<1>3. readFlag \in BOOLEAN /\ writeFlag \in BOOLEAN
      /\ readStatus \in BOOLEAN /\ writeStatus \in BOOLEAN /\ slowEdge \in BOOLEAN
  BY Zenon DEF FifoTypeOK
<1>4. writeItem \in Numbers /\ number \in Numbers /\ received \in Numbers /\ printed \in Numbers
  BY DEF FifoTypeOK
<1>5. front \in Nat /\ front \in 0..(Size - 1) /\ numItems \in 0..Size /\ numItems \in Nat
  BY <1>2 DEF FifoTypeOK
<1>6. data \in [0..(Size - 1) -> Numbers] /\ runnable \subseteq Processes
      /\ waitsFor \in [Processes -> {"edge", "done", "request"}]
  BY DEF FifoTypeOK
<1> QED BY <1>1, <1>2, <1>3, <1>4, <1>5, <1>6 DEF Typed

\* A step that leaves the order of the numbers alone.
LEMMA SameOrder ==
  ASSUME InOrder, Told' = Told, Taken' = Taken,
         UNCHANGED <<front, numItems, data, number, received, printed>>
  PROVE  InOrder'
BY DEF InOrder, AfterPrinted

LEMMA FromWriteCall ==
  ASSUME FifoInv, WriteCall
  PROVE  FifoInv'
<1>0. FifoTypeOK /\ Turns /\ InOrder /\ Typed
  BY FifoTypes DEF FifoInv
<1> USE <1>0 DEF Typed
<1>1. waitsFor["producer"] = "edge" /\ waitsFor'["producer"] = "done"
      /\ waitsFor'["consumer"] = waitsFor["consumer"]
      /\ waitsFor'["arbitrator"] = waitsFor["arbitrator"]
  BY DEF WriteCall, Ask, Processes
<1>2. FifoTypeOK'
  <2>1. waitsFor' \in [Processes -> {"edge", "done", "request"}]
    BY DEF WriteCall, Ask, Processes
  <2>2. runnable' \subseteq Processes
    BY DEF WriteCall, Ask, Awaiting
  <2> QED BY <2>1, <2>2 DEF FifoTypeOK, WriteCall, fifoState, answers
<1>3. "producer" \notin runnable' /\ ("consumer" \notin runnable => "consumer" \notin runnable')
  BY DEF WriteCall, Ask, Awaiting, Turns
<1>4. Turns'
  BY <1>1, <1>3 DEF Turns, WriteCall
<1>5. Told' = Told
  BY <1>1 DEF Told, Answered, WriteCall, answers
<1>6. Taken' = Taken
  BY <1>1 DEF Taken, Answered, WriteCall, answers
<1>7. InOrder'
  BY <1>5, <1>6, SameOrder DEF WriteCall, fifoState
<1> QED BY <1>2, <1>4, <1>7 DEF FifoInv

LEMMA FromReadCall ==
  ASSUME FifoInv, ReadCall
  PROVE  FifoInv'
<1>0. FifoTypeOK /\ Turns /\ InOrder /\ Typed
  BY FifoTypes DEF FifoInv
<1> USE <1>0 DEF Typed
<1>1. waitsFor["consumer"] = "edge" /\ waitsFor'["consumer"] = "done"
      /\ waitsFor'["producer"] = waitsFor["producer"]
      /\ waitsFor'["arbitrator"] = waitsFor["arbitrator"]
  BY DEF ReadCall, Ask, Processes
<1>2. FifoTypeOK'
  <2>1. waitsFor' \in [Processes -> {"edge", "done", "request"}]
    BY DEF ReadCall, Ask, Processes
  <2>2. runnable' \subseteq Processes
    BY DEF ReadCall, Ask, Awaiting
  <2> QED BY <2>1, <2>2 DEF FifoTypeOK, ReadCall, fifoState, answers
<1>3. "consumer" \notin runnable' /\ ("producer" \notin runnable => "producer" \notin runnable')
  BY DEF ReadCall, Ask, Awaiting, Turns
<1>4. Turns'
  BY <1>1, <1>3 DEF Turns, ReadCall
<1>5. Told' = Told
  BY <1>1 DEF Told, Answered, ReadCall, answers
<1>6. Taken' = Taken
  BY <1>1 DEF Taken, Answered, ReadCall, answers
<1>7. InOrder'
  BY <1>5, <1>6, SameOrder DEF ReadCall, fifoState
<1> QED BY <1>2, <1>4, <1>7 DEF FifoInv

LEMMA FromEdge ==
  ASSUME FifoInv, Edge
  PROVE  FifoInv'
<1>0. FifoTypeOK /\ Turns /\ InOrder /\ Typed
  BY FifoTypes DEF FifoInv
<1> USE <1>0 DEF Typed
<1>1. FifoTypeOK'
  <2>1. runnable' \subseteq Processes /\ slowEdge' \in BOOLEAN
    BY DEF Edge, Awaiting
  <2> QED BY <2>1 DEF FifoTypeOK, Edge, fifoState, answers, requests
<1>2. Turns'
  BY DEF Turns, Edge, Awaiting, requests
<1>3. Told' = Told /\ Taken' = Taken
  BY DEF Told, Taken, Answered, Edge, requests, answers
<1>4. InOrder'
  BY <1>3, SameOrder DEF Edge, fifoState
<1> QED BY <1>1, <1>2, <1>4 DEF FifoInv

LEMMA FromWriteReturns ==
  ASSUME FifoInv, WriteReturns
  PROVE  FifoInv'
<1>0. FifoTypeOK /\ Turns /\ InOrder /\ Typed
  BY FifoTypes DEF FifoInv
<1> USE <1>0, FifoFacts DEF Typed
<1>1. waitsFor["producer"] = "done" /\ waitsFor'["producer"] = "edge"
      /\ waitsFor'["consumer"] = waitsFor["consumer"]
      /\ waitsFor'["arbitrator"] = waitsFor["arbitrator"]
      /\ "producer" \in runnable
  BY DEF WriteReturns, Proceed, Processes
<1>2. ~writeFlag
  BY <1>1 DEF Turns
<1>3. number' \in Numbers
  <2>1. number + 1 \in Nat
    OBVIOUS
  <2>2. After(number) \in Numbers
    BY <2>1 DEF After
  <2> QED BY <2>2 DEF WriteReturns
<1>4. FifoTypeOK'
  <2>1. waitsFor' \in [Processes -> {"edge", "done", "request"}]
    BY DEF WriteReturns, Proceed, Processes
  <2>2. runnable' \subseteq Processes
    BY DEF WriteReturns, Proceed
  <2> QED BY <1>3, <2>1, <2>2 DEF FifoTypeOK, WriteReturns, fifoState, answers, requests
<1>5. Turns'
  BY <1>1, <1>2 DEF Turns, WriteReturns, Proceed, requests
<1>6. Told' = Told /\ Taken' = 0
  BY <1>1 DEF Told, Taken, Answered, WriteReturns, requests, answers
<1>7. Taken = IF writeStatus THEN 1 ELSE 0
  BY <1>1, <1>2 DEF Taken, Answered
<1>8. number' = (number + Taken) % Period
  <2>1. number % Period = number
    BY NumberIsRemainder, Zenon
  <2>2. number + 0 = number
    OBVIOUS
  <2>3. number' = (IF writeStatus THEN (number + 1) % Period ELSE number)
    BY DEF WriteReturns, After
  <2>4. CASE writeStatus
    BY <1>7, <2>3, <2>4
  <2>5. CASE ~writeStatus
    BY <1>7, <2>1, <2>2, <2>3, <2>5
  <2> QED BY <2>4, <2>5
<1>9. (number' + Taken') % Period = (number + Taken) % Period
  <2>1. PICK n \in Numbers : n = number'
    BY <1>3
  <2>2. n % Period = n /\ n + 0 = n
    BY NumberIsRemainder, Zenon
  <2> QED BY <1>6, <1>8, <2>1, <2>2
<1>10. InOrder'
  BY <1>6, <1>9 DEF InOrder, AfterPrinted, WriteReturns, fifoState
<1> QED BY <1>4, <1>5, <1>10 DEF FifoInv

LEMMA FromReadReturns ==
  ASSUME FifoInv, ReadReturns
  PROVE  FifoInv'
<1>0. FifoTypeOK /\ Turns /\ InOrder /\ Typed
  BY FifoTypes DEF FifoInv
<1> USE <1>0, FifoFacts DEF Typed
<1>1. waitsFor["consumer"] = "done" /\ waitsFor'["consumer"] = "edge"
      /\ waitsFor'["producer"] = waitsFor["producer"]
      /\ waitsFor'["arbitrator"] = waitsFor["arbitrator"]
      /\ "consumer" \in runnable
  BY DEF ReadReturns, Proceed, Processes
<1>2. ~readFlag
  BY <1>1 DEF Turns
<1>3. printed' \in Numbers
  BY DEF ReadReturns
<1>4. FifoTypeOK'
  <2>1. waitsFor' \in [Processes -> {"edge", "done", "request"}]
    BY DEF ReadReturns, Proceed, Processes
  <2>2. runnable' \subseteq Processes
    BY DEF ReadReturns, Proceed
  <2> QED BY <1>3, <2>1, <2>2 DEF FifoTypeOK, ReadReturns, fifoState, answers, requests
<1>5. Turns'
  BY <1>1, <1>2 DEF Turns, ReadReturns, Proceed, requests
<1>6. Taken' = Taken /\ Told' = 0
  BY <1>1 DEF Told, Taken, Answered, ReadReturns, requests, answers
<1>7. Told = IF readStatus THEN 1 ELSE 0
  BY <1>1, <1>2 DEF Told, Answered
<1>8. printed' = (printed + Told) % Period
  <2>1. CASE readStatus
    BY <1>7, <2>1 DEF ReadReturns, InOrder, AfterPrinted
  <2>2. CASE ~readStatus
    <3>1. printed % Period = printed /\ printed + 0 = printed
      BY NumberIsRemainder, Zenon
    <3> QED BY <1>7, <2>2, <3>1 DEF ReadReturns
  <2> QED BY <2>1, <2>2
<1>9. ASSUME NEW n \in Nat
      PROVE  AfterPrinted(n)' = AfterPrinted(Told + n)
  <2>1. PICK s \in Nat : s = printed + Told
    OBVIOUS
  <2>2. ((s % Period) + n) % Period = (s + n) % Period
    <3>1. Period \in Nat /\ Period > 0
      OBVIOUS
    <3> QED BY <3>1, <1>9, RemainderAdd, Zenon
  <2> QED BY <1>8, <2>1, <2>2 DEF AfterPrinted
<1>10. InOrder'
  <2>1. ASSUME NEW j \in 0..(numItems - 1)
        PROVE  data[(front + j) % Size] = AfterPrinted(0 + j + 1)'
    <3>1. j + 1 \in Nat
      OBVIOUS
    <3>2. PICK n \in Nat : n = j + 1
      BY <3>1
    <3>3. AfterPrinted(n)' = AfterPrinted(Told + n)
      BY <1>9
    <3>4. AfterPrinted(Told + n) = data[(front + j) % Size]
      BY <3>2 DEF InOrder, AfterPrinted
    <3>5. 0 + j + 1 = n
      BY <3>2
    <3> QED BY <3>3, <3>4, <3>5
  <2>2. (number + Taken) % Period = AfterPrinted(0 + numItems + 1)'
    <3>1. PICK n \in Nat : n = numItems + 1
      OBVIOUS
    <3>2. AfterPrinted(n)' = AfterPrinted(Told + n)
      BY <1>9
    <3>3. AfterPrinted(Told + n) = AfterPrinted(Told + numItems + 1)
      BY <3>1 DEF AfterPrinted
    <3>4. 0 + numItems' + 1 = n
      BY <3>1 DEF ReadReturns, fifoState
    <3>5. (number + Taken) % Period = AfterPrinted(Told + numItems + 1)
      BY DEF InOrder
    <3>6. (number + Taken) % Period = AfterPrinted(n)'
      BY <3>2, <3>3, <3>5, Zenon
    <3> QED BY <3>4, <3>6
  <2> QED BY <1>6, <2>1, <2>2 DEF InOrder, AfterPrinted, ReadReturns, fifoState
<1> QED BY <1>4, <1>5, <1>10 DEF FifoInv

-----------------------------------------------------------------------------
LEMMA ArbitrateTurns ==
  ASSUME FifoInv, Arbitrate
  PROVE  Turns'
BY DEF FifoInv, Turns, Arbitrate

LEMMA ServeTypes ==
  ASSUME FifoInv, Arbitrate
  PROVE  /\ Remaining \in 0..numItems
         /\ front' \in 0..(Size - 1) /\ numItems' \in 0..Size
         /\ data' \in [0..(Size - 1) -> Numbers]
         /\ FifoTypeOK'
<1>0. FifoTypeOK /\ Turns /\ InOrder /\ Typed
  BY FifoTypes DEF FifoInv
<1> USE <1>0, FifoFacts DEF Typed
<1>1. Remaining \in 0..numItems /\ Remaining \in Nat
  BY DEF Remaining, Reads
<1>2. front' \in 0..(Size - 1)
  <2>1. front + 1 \in Nat
    OBVIOUS
  <2>2. (front + 1) % Size \in 0..(Size - 1)
    BY <2>1, Zenon
  <2> QED BY <2>2 DEF Arbitrate, ServeRead
<1>3. received' \in Numbers
  BY DEF Arbitrate, ServeRead
<1>4. numItems' \in 0..Size
  BY <1>1 DEF Arbitrate, ServeWrite
<1>5. data' \in [0..(Size - 1) -> Numbers]
  BY DEF Arbitrate, ServeWrite
<1>6. readStatus' \in BOOLEAN
  BY DEF Arbitrate, ServeRead, Reads
<1>7. writeStatus' \in BOOLEAN
  BY DEF Arbitrate, ServeWrite
<1>8. runnable' \subseteq Processes
  BY DEF Arbitrate, Awaiting
<1>9. readFlag' = FALSE /\ writeFlag' = FALSE
      /\ UNCHANGED <<writeItem, number, printed, waitsFor, slowEdge>>
  BY DEF Arbitrate
<1>10. {readFlag', writeFlag', readStatus', writeStatus', slowEdge'} \subseteq BOOLEAN
  BY <1>6, <1>7, <1>9
<1>11. {writeItem', number', received', printed'} \subseteq Numbers
  BY <1>3, <1>9
<1>12. FifoTypeOK'
  BY <1>2, <1>4, <1>5, <1>8, <1>9, <1>10, <1>11 DEF FifoTypeOK
<1> QED BY <1>1, <1>2, <1>4, <1>5, <1>12

\* Serving the read: what it takes is the next number to print.
LEMMA AfterRead ==
  ASSUME FifoInv, Arbitrate
  PROVE  /\ Told' + Remaining = Told + numItems
         /\ Told' = 1 => received' = AfterPrinted(1)
         /\ \A j \in 0..(Remaining - 1) :
              data[(front' + j) % Size] = AfterPrinted(Told' + j + 1)
<1>0. FifoTypeOK /\ Turns /\ InOrder /\ Typed
  BY FifoTypes DEF FifoInv
<1> USE <1>0, FifoFacts DEF Typed
<1>1. Told' = IF waitsFor["consumer"] = "done" /\ readStatus' THEN 1 ELSE 0
  BY DEF Told, Answered, Arbitrate
<1>2. CASE Reads
  <2>1. readFlag /\ numItems > 0 /\ waitsFor["consumer"] = "done"
    BY <1>2 DEF Reads, Turns
  <2>2. Told = 0
    BY <2>1 DEF Told, Answered
  <2>3. Told' = 1
    BY <1>1, <1>2, <2>1 DEF Arbitrate, ServeRead
  <2>4. Remaining = numItems - 1
    BY <1>2 DEF Remaining
  <2>5. received' = AfterPrinted(1)
    <3>1. front % Size = front /\ front + 0 = front
      <4>1. Size > 0 /\ front + 0 = front
        OBVIOUS
      <4> QED BY <4>1, SmallRemainder, Zenon
    <3>2. 0 \in 0..(numItems - 1)
      BY <2>1
    <3>3. data[(front + 0) % Size] = AfterPrinted(Told + 0 + 1)
      BY <3>2, Zenon DEF InOrder
    <3>4. Told + 0 + 1 = 1
      BY <2>2
    <3>5. received' = data[front]
      BY <1>2 DEF Arbitrate, ServeRead
    <3> QED BY <3>1, <3>3, <3>4, <3>5, Zenon
  <2>6. ASSUME NEW j \in 0..(Remaining - 1)
        PROVE  data[(front' + j) % Size] = AfterPrinted(1 + j + 1)
    <3>1. PICK a \in Nat : a = front + 1
      OBVIOUS
    <3>2. ((a % Size) + j) % Size = (a + j) % Size
      <4>1. Size > 0 /\ j \in Nat
        OBVIOUS
      <4> QED BY <4>1, RemainderAdd, Zenon
    <3>3. front' = a % Size
      BY <1>2, <3>1 DEF Arbitrate, ServeRead
    <3>4. PICK k \in 0..(numItems - 1) : k = j + 1
      BY <2>4
    <3>5. data[(front + k) % Size] = AfterPrinted(Told + k + 1)
      BY DEF InOrder
    <3>6. a + j = front + k /\ Told + k + 1 = 1 + j + 1
      BY <2>2, <3>1, <3>4
    <3> QED BY <3>2, <3>3, <3>5, <3>6, Zenon
  <2>7. Told' + Remaining = Told + numItems
    BY <2>2, <2>3, <2>4
  <2> QED BY <2>3, <2>5, <2>6, <2>7, Zenon
<1>3. CASE ~Reads
  <2>1. Remaining = numItems /\ front' = front /\ received' = received
    BY <1>3 DEF Remaining, Arbitrate, ServeRead
  <2>2. Told' = Told
    <3>1. CASE readFlag
      <4>1. ~readStatus'
        BY <1>3, <3>1 DEF Arbitrate, ServeRead
      <4>2. Told = 0
        BY <3>1 DEF Told, Answered
      <4> QED BY <1>1, <4>1, <4>2
    <3>2. CASE ~readFlag
      BY <1>1, <3>2 DEF Told, Answered, Arbitrate, ServeRead
    <3> QED BY <3>1, <3>2
  <2> QED BY <2>1, <2>2 DEF InOrder
<1> QED BY <1>2, <1>3

\* Serving the write: what it stores comes after everything that is stored.
LEMMA AfterWrite ==
  ASSUME FifoInv, Arbitrate
  PROVE  /\ numItems' + Taken = Remaining + Taken'
         /\ \A j \in 0..(Remaining - 1) : data'[(front' + j) % Size] = data[(front' + j) % Size]
         /\ numItems' # Remaining => /\ numItems' = Remaining + 1 /\ Taken = 0
                                     /\ data'[(front' + Remaining) % Size] = number
<1>0. FifoTypeOK /\ Turns /\ InOrder /\ Typed
  BY FifoTypes DEF FifoInv
<1>b. Remaining \in 0..numItems /\ Remaining \in Nat /\ front' \in Nat
  BY ServeTypes, <1>0 DEF Typed
<1> USE <1>0, <1>b, FifoFacts DEF Typed
<1>1. Taken' = IF waitsFor["producer"] = "done" /\ writeStatus' THEN 1 ELSE 0
  BY DEF Taken, Answered, Arbitrate
<1>2. CASE writeFlag /\ Remaining < Size
  <2>1. waitsFor["producer"] = "done" /\ writeItem = number
    BY <1>2 DEF Turns
  <2>2. Taken = 0 /\ Taken' = 1
    BY <1>1, <1>2, <2>1 DEF Taken, Answered, Arbitrate, ServeWrite
  <2>3. numItems' = Remaining + 1
    BY <1>2 DEF Arbitrate, ServeWrite
  <2>4. PICK k \in 0..(Size - 1) : k = (front' + Remaining) % Size
    <3>a. PICK a \in Nat, b \in Nat : a = front' /\ b = Remaining
      BY <1>b, Zenon
    <3>b. a + b \in Nat
      BY ONLY a \in Nat, b \in Nat
    <3>1. front' + Remaining \in Nat
      BY ONLY <3>a, <3>b, Zenon
    <3> QED BY <3>1, Zenon
  <2>5. data' = [data EXCEPT ![k] = number]
    BY <1>2, <2>1, <2>4 DEF Arbitrate, ServeWrite
  <2>6. data'[k] = number
    BY <2>5
  <2>7. ASSUME NEW j \in 0..(Remaining - 1)
        PROVE  data'[(front' + j) % Size] = data[(front' + j) % Size]
    <3>1. PICK b \in Nat : b = front'
      OBVIOUS
    <3>2. j \in 0..(Size - 1) /\ Remaining \in 0..(Size - 1) /\ j # Remaining
      BY <1>2
    <3>3. PICK c \in 0..(Size - 1) : c = Remaining
      BY <3>2
    <3>4. (b + j) % Size # (b + c) % Size
      <4>1. Size > 0
        OBVIOUS
      <4> QED BY <4>1, <3>2, <3>3, RemainderApart, Zenon
    <3>5. (b + j) % Size \in 0..(Size - 1)
      <4>1. b + j \in Nat
        OBVIOUS
      <4> QED BY <4>1, Zenon
    <3> QED BY <2>4, <2>5, <3>1, <3>3, <3>4, <3>5
  <2>8. numItems' + Taken = Remaining + Taken'
    BY <2>2, <2>3
  <2> QED BY <2>2, <2>3, <2>4, <2>6, <2>7, <2>8, Zenon
<1>3. CASE ~(writeFlag /\ Remaining < Size)
  <2>1. numItems' = Remaining /\ data' = data
    BY <1>3 DEF Arbitrate, ServeWrite
  <2>2. Taken' = Taken
    <3>1. CASE writeFlag
      <4>1. ~writeStatus'
        BY <1>3, <3>1 DEF Arbitrate, ServeWrite
      <4>2. Taken = 0
        BY <3>1 DEF Taken, Answered
      <4> QED BY <1>1, <4>1, <4>2
    <3>2. CASE ~writeFlag
      BY <1>1, <3>2 DEF Taken, Answered, Arbitrate, ServeWrite
    <3> QED BY <3>1, <3>2
  <2> QED BY <2>1, <2>2
<1> QED BY <1>2, <1>3

LEMMA FromArbitrate ==
  ASSUME FifoInv, Arbitrate
  PROVE  FifoInv'
<1>0. FifoTypeOK /\ Turns /\ InOrder /\ Typed
  BY FifoTypes DEF FifoInv
<1>1. FifoTypeOK' /\ Remaining \in 0..numItems /\ numItems' \in 0..Size
  BY ServeTypes
<1>2. Turns'
  BY ArbitrateTurns
<1>3. printed' = printed /\ number' = number
  BY DEF Arbitrate
<1>4. Told' \in {0, 1} /\ Taken' \in {0, 1}
  BY DEF Told, Taken
<1>5. PICK told \in {0, 1}, taken \in {0, 1}, left \in Nat : told = Told' /\ taken = Taken' /\ left = Remaining
  BY <1>0, <1>1, <1>4 DEF Typed
<1>6. told + left = Told + numItems
  BY <1>5, AfterRead
<1>7. (number + Taken) % Period = AfterPrinted(told + left + 1)
  BY <1>6, <1>0 DEF InOrder
<1>8. ASSUME NEW n \in Nat
      PROVE  AfterPrinted(n)' = AfterPrinted(n)
  BY <1>3 DEF AfterPrinted
<1>9. told = 1 => received' = AfterPrinted(1)
  BY <1>5, AfterRead
<1>10. \A j \in 0..(left - 1) : data'[(front' + j) % Size] = AfterPrinted(told + j + 1)
  BY <1>5, AfterRead, AfterWrite
<1>a. numItems' + Taken = left + taken
  BY <1>5, AfterWrite
<1>b. SUFFICES /\ \A j \in 0..(numItems' - 1) : data'[(front' + j) % Size] = AfterPrinted(told + j + 1)
               /\ (number + taken) % Period = AfterPrinted(told + numItems' + 1)
  <2>1. told = 1 => received' = AfterPrinted(1)'
    BY <1>8, <1>9, FifoFacts
  <2>3. ASSUME NEW j \in 0..(numItems' - 1)
        PROVE  data'[(front' + j) % Size] = (printed' + (told + j + 1)) % Period
    BY <1>b, <1>3 DEF AfterPrinted
  <2>4. (number' + taken) % Period = (printed' + (told + numItems' + 1)) % Period
    BY <1>b, <1>3 DEF AfterPrinted
  <2>5. InOrder'
    BY <1>5, <2>1, <2>3, <2>4 DEF InOrder, AfterPrinted
  <2> QED BY <1>1, <1>2, <2>5 DEF FifoInv
<1>11. CASE numItems' = Remaining
  <2>1. taken = Taken
    <3>1. Taken \in {0, 1} /\ numItems' = left
      BY <1>0, <1>5, <1>11 DEF Typed
    <3> QED BY ONLY <3>1, <1>a, left \in Nat, taken \in {0, 1}
  <2>2. (number + taken) % Period = AfterPrinted(told + numItems' + 1)
    BY <1>5, <1>7, <1>11, <2>1
  <2> QED BY <1>5, <1>10, <1>11, <2>2
<1>12. CASE numItems' # Remaining
  <2>1. numItems' = left + 1 /\ Taken = 0 /\ data'[(front' + left) % Size] = number
    BY <1>5, <1>12, AfterWrite
  <2>2. taken = 1
    BY ONLY <1>a, <2>1, left \in Nat, taken \in {0, 1}
  <2>3. number % Period = number /\ number + 0 = number /\ number \in Nat
    BY <1>0, NumberIsRemainder DEF Typed
  <2>4. number = AfterPrinted(told + left + 1)
    BY <1>7, <2>1, <2>3
  <2>5. ASSUME NEW j \in 0..(numItems' - 1)
        PROVE  data'[(front' + j) % Size] = AfterPrinted(told + j + 1)
    <3>1. CASE j = left
      BY <2>1, <2>4, <3>1
    <3>2. CASE j # left
      <4>1. j \in 0..(left - 1)
        BY <2>1, <3>2
      <4> QED BY <4>1, <1>10, Zenon
    <3> QED BY <3>1, <3>2
  <2>6. (number + 1) % Period = AfterPrinted(told + left + 2)
    <3>1. PICK a \in Nat : a = printed + (told + left + 1)
      BY <1>0 DEF Typed
    <3>2. ((a % Period) + 1) % Period = (a + 1) % Period
      <4>1. Period \in Nat /\ Period > 0 /\ 1 \in Nat
        BY FifoFacts
      <4> QED BY <4>1, RemainderAdd, Zenon
    <3>3. number = a % Period
      BY <2>4, <3>1 DEF AfterPrinted
    <3>4. a + 1 = printed + (told + left + 2)
      BY <1>0, <3>1 DEF Typed
    <3> QED BY <3>2, <3>3, <3>4, Zenon DEF AfterPrinted
  <2>7. told + left + 2 = told + numItems' + 1
    BY <2>1
  <2>8. (number + taken) % Period = AfterPrinted(told + numItems' + 1)
    BY <2>2, <2>6, <2>7, Zenon
  <2> QED BY <2>5, <2>8
<1> QED BY <1>11, <1>12

LEMMA FifoInvariant == FifoSpec => []FifoInv
<1>1. FifoInit => FifoInv
  BY FifoInitInv
<1>2. FifoInv /\ [FifoNext]_fifoVars => FifoInv'
  <2>1. FifoInv /\ FifoNext => FifoInv'
    BY FromWriteCall, FromWriteReturns, FromReadCall, FromReadReturns, FromArbitrate, FromEdge
       DEF FifoNext
  <2>2. FifoInv /\ UNCHANGED fifoVars => FifoInv'
    BY DEF FifoInv, fifoVars, fifoState, requests, answers, FifoTypeOK, Turns, InOrder, Told,
           Taken, Answered, AfterPrinted
  <2> QED BY <2>1, <2>2
<1> QED BY <1>1, <1>2, PTL DEF FifoSpec

LEMMA InOrderPrints == FifoInv => EveryNumberOnce
<1> SUFFICES ASSUME FifoInv PROVE EveryNumberOnce
  OBVIOUS
<1>0. FifoTypeOK /\ Turns /\ InOrder /\ Typed
  BY FifoTypes DEF FifoInv
<1> DEFINE read == IF Answered("consumer", readFlag) /\ readStatus THEN <<received>> ELSE <<>>
<1>1. PICK told \in {0, 1} : told = Told
  BY <1>0 DEF Typed
<1>2. read \in Seq(Numbers) /\ Len(read) = told /\ (told = 1 => read[1] = received)
  BY <1>0, <1>1 DEF Typed, Told
<1>3. Items \in Seq(Numbers) /\ Len(Items) = numItems
      /\ \A i \in 1..numItems : Items[i] = data[(front + i - 1) % Size]
  <2>1. ASSUME NEW i \in 1..numItems
        PROVE  data[(front + i - 1) % Size] \in Numbers
    <3>1. PICK a \in Nat : a = front + i - 1
      BY <1>0 DEF Typed
    <3>2. a % Size \in 0..(Size - 1)
      BY FifoFacts, Zenon
    <3> QED BY <1>0, <3>1, <3>2 DEF Typed
  <2> QED BY <1>0, <2>1 DEF Items, Typed
<1>4. Stream = read \o Items
  BY DEF Stream
<1> HIDE DEF read
<1>5. Len(Stream) = told + numItems
  BY <1>0, <1>2, <1>3, <1>4 DEF Typed
<1>6. ASSUME NEW i \in 1..Len(Stream)
      PROVE  Stream[i] = (printed + i) % Period
  <2>1. CASE i <= told
    <3>1. i = 1 /\ told = 1
      BY <1>0, <1>5, <2>1 DEF Typed
    <3>2. Stream[1] = received
      <4>1. read[1] = (read \o Items)[1]
        BY <1>2, <1>3, <3>1, ConcatProperties, SMTT(30)
      <4> QED BY <1>2, <1>4, <3>1, <4>1
    <3> QED BY <1>0, <1>1, <3>1, <3>2 DEF InOrder, AfterPrinted
  <2>2. CASE i > told
    <3>1. PICK k \in 1..numItems : k = i - told
      BY <1>0, <1>5, <2>2 DEF Typed
    <3>2. Stream[i] = Items[k]
      <4>1. i \in 1..(Len(read) + Len(Items)) /\ ~(i <= Len(read)) /\ i - Len(read) = k
        BY <1>0, <1>2, <1>3, <1>5, <3>1, <2>2 DEF Typed
      <4>2. (read \o Items)[i] = Items[i - Len(read)]
        BY <1>2, <1>3, <4>1, ConcatProperties
      <4> QED BY <1>4, <4>1, <4>2
    <3>3. PICK j \in 0..(numItems - 1) : j = k - 1
      BY <1>0, <3>1 DEF Typed
    <3>4. Items[k] = data[(front + j) % Size]
      <4>1. front + k - 1 = front + j
        BY <1>0, <3>1, <3>3 DEF Typed
      <4> QED BY <1>3, <3>1, <4>1
    <3>5. data[(front + j) % Size] = AfterPrinted(Told + j + 1)
      BY <1>0 DEF InOrder
    <3>6. Told + j + 1 = i
      BY <1>0, <1>1, <1>5, <3>1, <3>3 DEF Typed
    <3> QED BY <3>2, <3>4, <3>5, <3>6 DEF AfterPrinted
  <2> QED BY <1>0, <1>1, <1>5, <2>1, <2>2 DEF Typed
<1>7. Taken = IF Answered("producer", writeFlag) /\ writeStatus THEN 1 ELSE 0
  BY DEF Taken
<1>8. (number + Taken) % Period = (printed + Len(Stream) + 1) % Period
  <2>1. printed + Len(Stream) + 1 = printed + (Told + numItems + 1)
    BY <1>0, <1>1, <1>5 DEF Typed
  <2> QED BY <1>0, <2>1 DEF InOrder, AfterPrinted
<1> QED BY <1>6, <1>7, <1>8 DEF EveryNumberOnce

\* For any size of the FIFO and any larger period: the arbitrator answers every call
\* once, in whatever order the three processes run, so that every number is printed
\* once and in order.
THEOREM FifoDeliversInOrder == FifoSpec => []EveryNumberOnce
BY FifoInvariant, InOrderPrints, PTL

-----------------------------------------------------------------------------
(* The memory and its test bench.                                          *)

\* A command has at least one word.
LEMMA LengthType ==
  ASSUME NEW c
  PROVE  Length(c) \in Nat /\ Length(c) >= 1
  BY MemoryAssumption DEF Length

\* Going on from one address to the next.
LEMMA Along ==
  ASSUME NEW a \in Addresses, NEW k \in Nat
  PROVE  /\ Plus(a, k) \in Addresses
         /\ Plus(a, 0) = a
         /\ Plus(Plus(a, k), 1) = Plus(a, k + 1)
         /\ Plus(a, k + 1) # Plus(a, k)
<1>1. NumAddresses \in Nat /\ NumAddresses > 1 /\ a \in Nat /\ a < NumAddresses
  BY MemoryAssumption DEF Addresses
<1>2. PICK n \in Nat : n = a + k
  BY <1>1
<1>3. n % NumAddresses \in 0..(NumAddresses - 1)
  BY <1>1
<1>4. Plus(a, k) \in Addresses
  BY <1>1, <1>2, <1>3 DEF Plus, Addresses
<1>5. Plus(a, 0) = a
  <2>1. a = NumAddresses * 0 + a /\ a = NumAddresses * (a \div NumAddresses) + (a % NumAddresses)
        /\ a % NumAddresses \in 0..(NumAddresses - 1) /\ a \div NumAddresses \in Int
    BY <1>1
  <2>2. a % NumAddresses = a
    BY <1>1, <2>1, RemainderUnique
  <2> QED BY <1>1, <2>2 DEF Plus
<1>6. ((n % NumAddresses) + 1) % NumAddresses = (n + 1) % NumAddresses
  <2>1. 1 \in Nat /\ NumAddresses \in Nat /\ NumAddresses > 0
    BY <1>1
  <2> QED BY <2>1, RemainderAdd, Zenon
<1>7. Plus(Plus(a, k), 1) = Plus(a, k + 1)
  BY <1>1, <1>2, <1>6 DEF Plus
<1>8. n % NumAddresses # (n + 1) % NumAddresses
  <2>1. PICK i \in 0..(NumAddresses - 1), j \in 0..(NumAddresses - 1) : i = 0 /\ j = 1
    BY <1>1
  <2>2. (n + i) % NumAddresses # (n + j) % NumAddresses
    BY <1>1, <2>1, RemainderApart
  <2>3. n + i = n
    BY <2>1
  <2> QED BY <2>1, <2>2, <2>3
<1>9. Plus(a, k + 1) # Plus(a, k)
  BY <1>1, <1>2, <1>8 DEF Plus
<1> QED BY <1>4, <1>5, <1>7, <1>9

-----------------------------------------------------------------------------
(* The invariant of the bus: how far the two sides of a transfer have come.  *)

\* The words of the command that the controller has dealt with.
WordsMoved == Length(comm) - sample.left

\* The memory is what the bench has written, except there.
Same(S) == \A a \in Addresses \ S : memory[a] = written[a]

\* Between two commands.
AtRest ==
  /\ control = "idle" /\ memDrives = Z
  /\ ~newComm /\ ~complete /\ ~reset
  /\ Same({})
  /\ bench = "ended" /\ comm \in Reading => benchDrives = Z

\* The bench has set its lines, and the controller has not seen them.
Issued ==
  /\ control = "idle" /\ memDrives = Z
  /\ newComm /\ ~complete /\ ~reset
  /\ count = 0
  /\ bench = CASE comm = "WTBLK" /\ Block > 1 -> "feeds"
               [] comm = "RDBLK" -> "listens"
               [] OTHER -> "waits"
  /\ IF comm \in Reading
     THEN benchDrives = Z /\ Same({})
     ELSE benchDrives = written[addr] /\ Same({addr})

\* While words move, the data lines belong to the side that sends them.
ReadMoving ==
  /\ benchDrives = Z /\ Same({})
  /\ memDrives = IF WordsMoved = 0 THEN Z ELSE written[Plus(addr, WordsMoved - 1)]
  /\ IF comm = "RDBLK" THEN bench = "listens" /\ count = WordsMoved + 1 ELSE bench = "waits"

WriteMoving ==
  /\ memDrives = Z
  /\ Same({Plus(addr, j) : j \in WordsMoved..count})
  /\ count = IF WordsMoved < Length(comm) - 1 THEN WordsMoved + 1 ELSE WordsMoved
  /\ benchDrives = written[Plus(addr, count)]
  /\ bench = IF count < Length(comm) - 1 THEN "feeds" ELSE "waits"

\* The controller is in the middle of a command.
Moving ==
  /\ control = "moving"
  /\ newComm /\ ~complete /\ ~reset
  /\ sample.comm = comm /\ sample.left \in 1..Length(comm)
  /\ sample.addr = Plus(addr, WordsMoved)
  /\ sample.data = written[sample.addr]
  /\ IF comm \in Reading THEN ReadMoving ELSE WriteMoving

\* The controller says that it is done, and the bench sees it or has just seen it.
Acknowledging ==
  /\ control = "acknowledges" /\ complete
  /\ sample.comm = comm
  /\ Same({})
  /\ IF comm \in Reading
     THEN benchDrives = Z /\ memDrives = written[Plus(addr, Length(comm) - 1)]
     ELSE memDrives = Z
  /\ \/ newComm /\ ~reset /\ IF comm = "RDBLK" THEN bench = "listens" /\ count = Block + 1 ELSE bench = "waits"
     \/ ~newComm /\ ~reset /\ bench = "ends"
     \/ reset /\ bench = "resets" /\ comm = "RDBYT"

\* The bench ends with a reset.
AfterAReset ==
  /\ bench \in {"reset", "stopped"}
  /\ control = "idle" /\ reset /\ ~complete /\ memDrives = Z

BusInv ==
  \/ bench \in {"start", "ended"} /\ AtRest
  \/ Issued
  \/ Moving
  \/ Acknowledging
  \/ AfterAReset

MemInv == MemoryTypeOK /\ BusInv

\* What a word may be.
Values == Bytes \cup {X}

LEMMA Types ==
  MemoryTypeOK <=>
     /\ newComm \in BOOLEAN /\ reset \in BOOLEAN /\ complete \in BOOLEAN
     /\ comm \in Commands /\ addr \in Addresses
     /\ benchDrives \in Values \cup {Z} /\ memDrives \in Values \cup {Z}
     /\ memory \in [Addresses -> Values] /\ written \in [Addresses -> Values]
     /\ control \in {"idle", "moving", "acknowledges"}
     /\ sample \in [comm : Commands, addr : Addresses, data : Values \cup {Z}, left : 0..Block]
     /\ bench \in {"start", "feeds", "listens", "waits", "ends", "ended", "resets", "reset",
                   "stopped"}
     /\ count \in 0 .. Block + 2
  BY DEF MemoryTypeOK, Values

\* The values of a word and of the bus.
LEMMA BusTypes ==
  ASSUME MemoryTypeOK
  PROVE  Bus \in Values \cup {Z}
  BY Types DEF Bus, Values

-----------------------------------------------------------------------------
(* One edge of the clock from each part of the invariant.                  *)

LEMMA FromRest ==
  ASSUME MemoryTypeOK, bench \in {"start", "ended"}, AtRest, MemoryNext
  PROVE  Issued'
<1>1. /\ control' = "idle" /\ complete' = FALSE /\ memDrives' = Z /\ memory' = memory
  BY DEF MemoryNext, Controller, Idle, Move, Acknowledged, AtRest
<1>2. NextCommand
  BY DEF MemoryNext, Bench, Feed, Listen, Wait, End, Reset, AfterReset
<1>3. PICK c \in Commands, a \in Addresses, w \in Bytes : Issue(c, a, w)
  BY <1>2 DEF NextCommand
<1>4. /\ comm' = c /\ addr' = a /\ newComm' = TRUE /\ reset' = FALSE /\ count' = 0
      /\ bench' = CASE c = "WTBLK" /\ Block > 1 -> "feeds"
                    [] c = "RDBLK" -> "listens"
                    [] OTHER -> "waits"
  BY <1>3 DEF Issue, AtRest
<1>5. Same({})
  BY DEF AtRest
<1>6. CASE c \in Reading
  <2>1. benchDrives' = Z /\ written' = written
    BY <1>3, <1>6 DEF Issue
  <2>2. Same({})'
    BY <1>1, <1>5, <2>1 DEF Same
  <2> QED BY <1>1, <1>4, <1>6, <2>1, <2>2 DEF Issued
<1>7. CASE c \notin Reading
  <2>1. benchDrives' = w /\ written' = [written EXCEPT ![a] = w]
    BY <1>3, <1>7 DEF Issue
  <2>2. written \in [Addresses -> Values]
    BY Types
  <2>3. written'[a] = w /\ \A b \in Addresses \ {a} : written'[b] = written[b]
    BY <2>1, <2>2
  <2>4. Same({addr})'
    BY <1>1, <1>4, <1>5, <2>3 DEF Same
  <2> QED BY <1>1, <1>4, <1>7, <2>1, <2>3, <2>4 DEF Issued
<1> QED BY <1>6, <1>7

\* The first words: the controller has sampled one, the bench may feed the next.
LEMMA FromIssued ==
  ASSUME MemoryTypeOK, Issued, MemoryNext
  PROVE  Moving'
<1>1. /\ Block \in Nat /\ Block >= 1 /\ addr \in Addresses /\ comm \in Commands
      /\ written \in [Addresses -> Values]
  BY Types, MemoryAssumption
<1>2. /\ control' = "moving" /\ complete' = FALSE
      /\ sample' = [comm |-> comm, addr |-> addr, left |-> Length(comm),
                    data |-> IF comm \in Reading THEN memory[addr] ELSE Bus]
      /\ memDrives' = Z /\ memory' = memory
  BY DEF MemoryNext, Controller, Idle, Move, Acknowledged, Issued
<1>3. /\ newComm /\ ~complete /\ ~reset /\ count = 0
      /\ bench = CASE comm = "WTBLK" /\ Block > 1 -> "feeds"
                   [] comm = "RDBLK" -> "listens"
                   [] OTHER -> "waits"
  BY DEF Issued
<1>4. Feed \/ Listen \/ Wait
  BY <1>3 DEF MemoryNext, Bench, NextCommand, End, Reset, AfterReset
<1>5. comm' = comm /\ addr' = addr /\ reset' = reset
  BY <1>4 DEF Feed, Listen, Wait
<1>6. newComm' = TRUE
  BY <1>3, <1>4 DEF Feed, Listen, Wait, WaitOrEnd
<1>7. Length(comm) \in Nat /\ Length(comm) >= 1
  BY LengthType
<1>8. /\ sample'.comm = comm /\ sample'.left = Length(comm) /\ sample'.addr = addr
      /\ sample'.data = (IF comm \in Reading THEN memory[addr] ELSE Bus)
  BY <1>2
<1>9. WordsMoved' = 0
  BY <1>5, <1>7, <1>8 DEF WordsMoved
<1>10. sample'.addr = Plus(addr', WordsMoved')
  BY <1>1, <1>5, <1>8, <1>9, Along
<1>11. CASE comm \in Reading
  <2>1. benchDrives = Z /\ Same({})
    BY <1>11 DEF Issued
  <2>2. bench \in {"listens", "waits"} /\ (bench = "listens" <=> comm = "RDBLK")
    BY <1>3, <1>11 DEF Reading
  <2>3. Listen \/ Wait
    BY <1>4, <2>2 DEF Feed
  <2>4. benchDrives' = Z /\ written' = written
    BY <2>1, <2>3 DEF Listen, Wait
  <2>5. IF comm = "RDBLK" THEN bench' = "listens" /\ count' = 1 ELSE bench' = "waits"
    <3>1. CASE comm = "RDBLK"
      <4>1. Listen
        BY <3>1, <2>2, <2>3 DEF Wait
      <4>2. count' = 1 /\ count' # Block + 2
        BY <4>1, <1>1, <1>3 DEF Listen
      <4> QED BY <3>1, <4>1, <4>2 DEF Listen
    <3>2. CASE comm # "RDBLK"
      BY <3>2, <2>2, <2>3, <1>3 DEF Listen, Wait, WaitOrEnd
    <3> QED BY <3>1, <3>2
  <2>6. Same({})'
    BY <1>2, <2>1, <2>4 DEF Same
  <2>7. sample'.data = written'[sample'.addr]
    BY <1>1, <1>8, <1>11, <2>1, <2>4 DEF Same
  <2>8. ReadMoving'
    BY <1>2, <1>5, <1>9, <2>4, <2>5, <2>6 DEF ReadMoving
  <2> QED BY <1>2, <1>3, <1>5, <1>6, <1>7, <1>8, <1>10, <1>11, <2>7, <2>8 DEF Moving
<1>12. CASE comm \notin Reading
  <2>1. benchDrives = written[addr] /\ Same({addr}) /\ memDrives = Z
    BY <1>12 DEF Issued
  <2>2. sample'.data = written[addr]
    BY <1>8, <1>12, <2>1 DEF Bus
  <2>3. comm # "RDBLK" /\ comm # "RDBYT"
    BY <1>12 DEF Reading
  <2>4. (bench = "feeds" <=> Length(comm) > 1) /\ bench \in {"feeds", "waits"}
    BY <1>1, <1>3, <2>3 DEF Length, Commands, Reading
  <2>5. CASE Length(comm) > 1
    <3>1. Feed /\ Length(comm) = Block
      BY <1>4, <2>4, <2>5 DEF Listen, Wait, Length
    <3>2. count' = 1
      BY <1>3, <3>1 DEF Feed
    <3>3. PICK w \in Bytes : benchDrives' = w /\ written' = [written EXCEPT ![Plus(addr, 1)] = w]
      BY <3>1, <3>2 DEF Feed
    <3>4. Plus(addr, 1) \in Addresses /\ Plus(addr, 1) # addr /\ Plus(addr, 0) = addr
      <4>1. Plus(addr, 0) = addr /\ Plus(addr, 0 + 1) # Plus(addr, 0)
        BY <1>1, Along
      <4>2. Plus(addr, 1) \in Addresses
        BY <1>1, Along
      <4> QED BY <4>1, <4>2
    <3>5. /\ written'[Plus(addr, 1)] = w
          /\ \A a \in Addresses \ {Plus(addr, 1)} : written'[a] = written[a]
      BY <1>1, <3>3, <3>4
    <3>6. bench' = IF 1 < Length(comm) - 1 THEN "feeds" ELSE "waits"
      <4>1. IF 1 = Block - 1 THEN bench' = "waits" ELSE bench' = bench
        BY <1>3, <3>1, <3>2 DEF Feed, WaitOrEnd
      <4> QED BY <4>1, <3>1, <2>4, <2>5, <1>1
    <3>7. Same({Plus(addr, j) : j \in WordsMoved..count})'
      <4> SUFFICES ASSUME NEW a \in Addresses \ {Plus(addr', j) : j \in WordsMoved'..count'}
                   PROVE  memory'[a] = written'[a]
        BY DEF Same
      <4>1. Plus(addr, 0) \in {Plus(addr', j) : j \in WordsMoved'..count'}
            /\ Plus(addr, 1) \in {Plus(addr', j) : j \in WordsMoved'..count'}
        BY <1>5, <1>9, <3>2
      <4>2. a # addr /\ a # Plus(addr, 1)
        BY <4>1, <3>4
      <4>3. memory[a] = written[a]
        BY <2>1, <4>2 DEF Same
      <4> QED BY <1>2, <3>5, <4>2, <4>3
    <3>8. sample'.data = written'[sample'.addr]
      BY <1>1, <1>8, <2>2, <3>4, <3>5
    <3>9. benchDrives' = written'[Plus(addr', count')]
      BY <1>5, <3>2, <3>3, <3>5
    <3>10. count' = IF WordsMoved' < Length(comm') - 1 THEN WordsMoved' + 1 ELSE WordsMoved'
      BY <1>5, <1>7, <1>9, <2>5, <3>2
    <3>11. bench' = IF count' < Length(comm') - 1 THEN "feeds" ELSE "waits"
      BY <1>5, <3>2, <3>6
    <3>12. WriteMoving'
      BY <1>2, <3>7, <3>9, <3>10, <3>11 DEF WriteMoving
    <3> QED BY <1>2, <1>3, <1>5, <1>6, <1>7, <1>8, <1>10, <1>12, <3>8, <3>12 DEF Moving
  <2>6. CASE ~(Length(comm) > 1)
    <3>1. Wait /\ Length(comm) = 1
      BY <1>4, <1>7, <2>4, <2>6 DEF Listen, Feed
    <3>2. count' = 0 /\ bench' = "waits" /\ written' = written /\ benchDrives' = benchDrives
      BY <1>3, <3>1 DEF Wait, WaitOrEnd
    <3>3. Plus(addr, 0) = addr
      BY <1>1, Along
    <3>4. Same({Plus(addr, j) : j \in WordsMoved..count})'
      <4> SUFFICES ASSUME NEW a \in Addresses \ {Plus(addr', j) : j \in WordsMoved'..count'}
                   PROVE  memory'[a] = written'[a]
        BY DEF Same
      <4>1. Plus(addr, 0) \in {Plus(addr', j) : j \in WordsMoved'..count'}
        BY <1>5, <1>9, <3>2
      <4>2. a # addr
        BY <4>1, <3>3
      <4> QED BY <1>2, <2>1, <3>2, <4>2 DEF Same
    <3>5. sample'.data = written'[sample'.addr]
      BY <1>8, <2>2, <3>2
    <3>6. benchDrives' = written'[Plus(addr', count')]
      BY <1>5, <2>1, <3>2, <3>3
    <3>7. count' = IF WordsMoved' < Length(comm') - 1 THEN WordsMoved' + 1 ELSE WordsMoved'
      BY <1>5, <1>9, <3>1, <3>2
    <3>8. bench' = IF count' < Length(comm') - 1 THEN "feeds" ELSE "waits"
      BY <1>5, <3>1, <3>2
    <3>9. WriteMoving'
      BY <1>2, <3>4, <3>6, <3>7, <3>8 DEF WriteMoving
    <3> QED BY <1>2, <1>3, <1>5, <1>6, <1>7, <1>8, <1>10, <1>12, <3>5, <3>9 DEF Moving
  <2> QED BY <2>5, <2>6
<1> QED BY <1>11, <1>12
\* A word is moved, and the next one is sampled or the command is acknowledged.
LEMMA FromMoving ==
  ASSUME MemoryTypeOK, Moving, MemoryNext
  PROVE  Moving' \/ Acknowledging'
<1>1. /\ Block \in Nat /\ Block >= 1 /\ addr \in Addresses /\ comm \in Commands
      /\ written \in [Addresses -> Values] /\ memory \in [Addresses -> Values]
      /\ sample \in [comm : Commands, addr : Addresses, data : Values \cup {Z}, left : 0..Block]
  BY Types, MemoryAssumption
<1>2. /\ newComm /\ ~complete /\ ~reset
      /\ sample.comm = comm /\ sample.left \in 1..Length(comm)
      /\ sample.addr = Plus(addr, WordsMoved)
      /\ sample.data = written[sample.addr]
      /\ IF comm \in Reading THEN ReadMoving ELSE WriteMoving
  BY DEF Moving
<1>3. Move
  BY DEF MemoryNext, Controller, Idle, Acknowledged, Moving
<1>4. Feed \/ Listen \/ Wait
  <2>1. bench \in {"feeds", "listens", "waits"}
    BY <1>2 DEF ReadMoving, WriteMoving
  <2> QED BY <1>2, <2>1 DEF MemoryNext, Bench, NextCommand, End, Reset, AfterReset
<1>5. comm' = comm /\ addr' = addr /\ reset' = reset
  BY <1>4 DEF Feed, Listen, Wait
<1>6. newComm' = TRUE
  BY <1>2, <1>4 DEF Feed, Listen, Wait, WaitOrEnd
<1>7. Length(comm) \in Nat /\ Length(comm) >= 1 /\ Length(comm) <= Block
  BY <1>1, LengthType DEF Length
<1>8. WordsMoved \in Nat /\ WordsMoved <= Length(comm) - 1 /\ (sample.left = 1 <=> WordsMoved = Length(comm) - 1)
      /\ WordsMoved = Length(comm) - sample.left
  BY <1>2, <1>7 DEF WordsMoved
<1>9. memory' = IF comm \in Reading THEN memory ELSE [memory EXCEPT ![sample.addr] = sample.data]
  BY <1>2, <1>3 DEF Move
<1>10. CASE sample.left = 1
  <2>1. complete' = TRUE /\ control' = "acknowledges" /\ sample' = sample
    BY <1>2, <1>3, <1>10 DEF Move, Acknowledge, EndsCommand
  <2>2. memDrives' = IF comm \in Reading THEN sample.data ELSE memDrives
    BY <1>2, <1>3, <2>1 DEF Move
  <2>3. CASE comm \in Reading
    <3>1. ReadMoving
      BY <1>2, <2>3
    <3>2. Listen \/ Wait
      BY <1>4, <3>1 DEF ReadMoving, Feed
    <3>3. benchDrives' = Z /\ written' = written
      BY <3>1, <3>2 DEF ReadMoving, Listen, Wait
    <3>4. IF comm = "RDBLK" THEN bench' = "listens" /\ count' = Block + 1 ELSE bench' = "waits"
      <4>1. CASE comm = "RDBLK"
        <5>1. Listen /\ count = Block
          BY <1>1, <1>8, <1>10, <3>1, <3>2, <4>1 DEF ReadMoving, Wait, Length
        <5>2. count' = Block + 1 /\ count' # Block + 2
          BY <1>1, <5>1 DEF Listen
        <5> QED BY <4>1, <5>1, <5>2 DEF Listen
      <4>2. CASE comm # "RDBLK"
        BY <1>2, <3>1, <3>2, <4>2 DEF ReadMoving, Listen, Wait, WaitOrEnd
      <4> QED BY <4>1, <4>2
    <3>5. Same({})'
      BY <1>9, <2>3, <3>1, <3>3 DEF ReadMoving, Same
    <3>6. memDrives' = written'[Plus(addr', Length(comm') - 1)]
      BY <1>2, <1>5, <1>8, <1>10, <2>2, <2>3, <3>3
    <3> QED BY <1>2, <1>5, <1>6, <2>1, <2>3, <3>3, <3>4, <3>5, <3>6 DEF Acknowledging
  <2>4. CASE comm \notin Reading
    <3>1. WriteMoving
      BY <1>2, <2>4
    <3>2. count = WordsMoved /\ bench = "waits"
      BY <1>7, <1>8, <1>10, <3>1 DEF WriteMoving
    <3>3. written' = written /\ bench' = "waits"
      BY <1>2, <1>4, <3>2 DEF Feed, Listen, Wait, WaitOrEnd
    <3>4. Same({})'
      <4> SUFFICES ASSUME NEW a \in Addresses
                   PROVE  memory'[a] = written'[a]
        BY DEF Same
      <4>1. CASE a = sample.addr
        BY <1>1, <1>2, <1>9, <2>4, <3>3, <4>1
      <4>2. CASE a # sample.addr
        <5>1. memory'[a] = memory[a]
          BY <1>1, <1>9, <2>4, <4>2
        <5>2. a \notin {Plus(addr, j) : j \in WordsMoved..count}
          BY <1>2, <1>8, <3>2, <4>2
        <5>3. memory[a] = written[a]
          BY <3>1, <5>2 DEF WriteMoving, Same
        <5> QED BY <3>3, <5>1, <5>3
      <4> QED BY <4>1, <4>2
    <3>5. memDrives' = Z
      BY <2>2, <2>4, <3>1 DEF WriteMoving
    <3>6. comm # "RDBLK"
      BY <2>4 DEF Reading
    <3> QED BY <1>2, <1>5, <1>6, <2>1, <2>4, <3>3, <3>4, <3>5, <3>6 DEF Acknowledging
  <2> QED BY <2>3, <2>4
<1>11. CASE sample.left # 1
  <2>1. /\ complete' = FALSE /\ control' = "moving"
        /\ sample' = [sample EXCEPT !.left = sample.left - 1, !.addr = Plus(sample.addr, 1),
                        !.data = IF comm \in Reading THEN memory[Plus(sample.addr, 1)] ELSE Bus]
    BY <1>2, <1>3, <1>11 DEF Move, NextWord, Moving
  <2>2. /\ sample'.comm = comm /\ sample'.left = sample.left - 1
        /\ sample'.addr = Plus(sample.addr, 1)
        /\ sample'.data = IF comm \in Reading THEN memory[Plus(sample.addr, 1)] ELSE Bus
    BY <1>1, <1>2, <2>1
  <2>3. memDrives' = IF comm \in Reading THEN sample.data ELSE memDrives
    BY <1>2, <1>3, <2>1 DEF Move
  <2>4. WordsMoved' = WordsMoved + 1 /\ sample'.left \in 1..Length(comm)
    BY <1>2, <1>5, <1>7, <1>8, <1>11, <2>2 DEF WordsMoved
  <2>5. sample'.addr = Plus(addr', WordsMoved')
    BY <1>1, <1>2, <1>5, <1>8, <2>2, <2>4, Along
  <2>6. Plus(addr, WordsMoved + 1) \in Addresses /\ Plus(addr, WordsMoved + 1) # Plus(addr, WordsMoved)
        /\ Plus(sample.addr, 1) = Plus(addr, WordsMoved + 1)
    BY <1>1, <1>2, <1>5, <1>8, <2>2, <2>4, <2>5, Along
  <2>7. CASE comm \in Reading
    <3>1. ReadMoving
      BY <1>2, <2>7
    <3>2. Listen \/ Wait
      BY <1>4, <3>1 DEF ReadMoving, Feed
    <3>3. benchDrives' = Z /\ written' = written
      BY <3>1, <3>2 DEF ReadMoving, Listen, Wait
    <3>4. IF comm = "RDBLK" THEN bench' = "listens" /\ count' = WordsMoved + 2 ELSE bench' = "waits"
      <4>1. CASE comm = "RDBLK"
        <5>1. Listen /\ count = WordsMoved + 1
          BY <3>1, <3>2, <4>1 DEF ReadMoving, Wait
        <5>2. count' = WordsMoved + 2 /\ count' # Block + 2
          BY <1>1, <1>7, <1>8, <5>1 DEF Listen
        <5> QED BY <4>1, <5>1, <5>2 DEF Listen
      <4>2. CASE comm # "RDBLK"
        BY <1>2, <3>1, <3>2, <4>2 DEF ReadMoving, Listen, Wait, WaitOrEnd
      <4> QED BY <4>1, <4>2
    <3>5. Same({})'
      BY <1>9, <2>7, <3>1, <3>3 DEF ReadMoving, Same
    <3>6. memDrives' = written'[Plus(addr', WordsMoved' - 1)] /\ WordsMoved' # 0
      <4>1. WordsMoved' - 1 = WordsMoved /\ WordsMoved' # 0
        BY <1>8, <2>4
      <4> QED BY <1>2, <1>5, <2>3, <2>7, <3>3, <4>1
    <3>7. sample'.data = written'[sample'.addr]
      <4>1. memory[Plus(addr, WordsMoved + 1)] = written[Plus(addr, WordsMoved + 1)]
        BY <2>6, <3>1 DEF ReadMoving, Same
      <4> QED BY <2>2, <2>6, <2>7, <3>3, <4>1
    <3>8. IF comm' = "RDBLK" THEN bench' = "listens" /\ count' = WordsMoved' + 1 ELSE bench' = "waits"
      BY <1>5, <1>8, <2>4, <3>4
    <3>9. ReadMoving'
      BY <3>3, <3>5, <3>6, <3>8 DEF ReadMoving
    <3> QED BY <1>2, <1>5, <1>6, <2>1, <2>2, <2>4, <2>5, <2>7, <3>7, <3>9 DEF Moving
  <2>8. CASE comm \notin Reading
    <3>1. WriteMoving
      BY <1>2, <2>8
    <3>2. /\ count = WordsMoved + 1 /\ WordsMoved < Length(comm) - 1
          /\ benchDrives = written[Plus(addr, WordsMoved + 1)] /\ memDrives = Z
          /\ bench = IF count < Length(comm) - 1 THEN "feeds" ELSE "waits"
      BY <1>7, <1>8, <1>11, <3>1 DEF WriteMoving
    <3>3. sample'.data = written[Plus(addr, WordsMoved + 1)] /\ memDrives' = Z
      BY <2>2, <2>3, <2>8, <3>2 DEF Bus
    <3>4. Length(comm) = Block
      BY <1>8, <3>2 DEF Length
    <3>5. memory'[Plus(addr, WordsMoved)] = written[Plus(addr, WordsMoved)]
          /\ \A a \in Addresses \ {Plus(addr, WordsMoved)} : memory'[a] = memory[a]
      BY <1>1, <1>2, <1>9, <2>8
    <3>6. \A a \in Addresses \ {Plus(addr, WordsMoved + 1)} : memory'[a] = written[a]
      <4> SUFFICES ASSUME NEW a \in Addresses \ {Plus(addr, WordsMoved + 1)}
                   PROVE  memory'[a] = written[a]
        OBVIOUS
      <4>1. CASE a = Plus(addr, WordsMoved)
        BY <3>5, <4>1
      <4>2. CASE a # Plus(addr, WordsMoved)
        <5>1. \A j \in WordsMoved..count : j = WordsMoved \/ j = WordsMoved + 1
          BY <1>8, <3>2
        <5>2. a \notin {Plus(addr, j) : j \in WordsMoved..count}
          BY <4>2, <5>1
        <5>3. memory[a] = written[a]
          BY <3>1, <5>2 DEF WriteMoving, Same
        <5> QED BY <3>5, <4>2, <5>3
      <4> QED BY <4>1, <4>2
    <3>7. CASE bench = "feeds"
      <4>1. Feed /\ count < Block - 1
        BY <1>4, <3>2, <3>4, <3>7 DEF Listen, Wait
      <4>2. count' = WordsMoved + 2
        BY <1>8, <3>2, <4>1 DEF Feed
      <4>3. PICK w \in Bytes :
              benchDrives' = w /\ written' = [written EXCEPT ![Plus(addr, WordsMoved + 2)] = w]
        BY <4>1, <4>2 DEF Feed
      <4>4. Plus(addr, WordsMoved + 2) \in Addresses /\ Plus(addr, WordsMoved + 2) # Plus(addr, WordsMoved + 1)
        <5>1. PICK m \in Nat : m = WordsMoved + 1
          BY <1>8
        <5>2. Plus(addr, m + 1) # Plus(addr, m)
          BY <1>1, Along
        <5>3. m + 1 \in Nat
          OBVIOUS
        <5>4. Plus(addr, m + 1) \in Addresses
          BY <1>1, <5>3, Along
        <5>5. m + 1 = WordsMoved + 2
          BY <1>8, <5>1
        <5> QED BY <5>1, <5>2, <5>4, <5>5
      <4>5. /\ written'[Plus(addr, WordsMoved + 2)] = w
            /\ \A a \in Addresses \ {Plus(addr, WordsMoved + 2)} : written'[a] = written[a]
        BY <1>1, <4>3, <4>4
      <4>6. bench' = IF count' < Length(comm') - 1 THEN "feeds" ELSE "waits"
        <5>1. IF count' = Block - 1 THEN bench' = "waits" ELSE bench' = bench
          BY <1>2, <4>1 DEF Feed, WaitOrEnd
        <5> QED BY <1>1, <1>5, <1>8, <3>2, <3>4, <3>7, <4>1, <4>2, <5>1
      <4>7. WordsMoved' = WordsMoved + 1 /\ WordsMoved' + 1 = count' /\ count' \in Nat
            /\ WordsMoved' < Length(comm') - 1
        BY <1>5, <1>7, <1>8, <2>4, <3>2, <3>4, <4>1, <4>2
      <4>8. Same({Plus(addr, j) : j \in WordsMoved..count})'
        <5> SUFFICES ASSUME NEW a \in Addresses \ {Plus(addr', j) : j \in WordsMoved'..count'}
                     PROVE  memory'[a] = written'[a]
          BY DEF Same
        <5>1. WordsMoved + 1 \in WordsMoved'..count' /\ WordsMoved + 2 \in WordsMoved'..count'
          BY <1>8, <4>2, <4>7
        <5>2. a # Plus(addr, WordsMoved + 1) /\ a # Plus(addr, WordsMoved + 2)
          BY <1>5, <5>1
        <5> QED BY <3>6, <4>5, <5>2
      <4>9. sample'.data = written'[sample'.addr]
        BY <2>2, <2>6, <3>3, <4>4, <4>5
      <4>10. benchDrives' = written'[Plus(addr', count')]
        BY <1>5, <4>2, <4>3, <4>5
      <4>11. WriteMoving'
        BY <3>3, <4>6, <4>7, <4>8, <4>10 DEF WriteMoving
      <4> QED BY <1>2, <1>5, <1>6, <2>1, <2>2, <2>4, <2>5, <2>8, <4>9, <4>11 DEF Moving
    <3>8. CASE bench # "feeds"
      <4>1. Wait /\ ~(count < Length(comm) - 1)
        BY <1>4, <3>2, <3>8 DEF Listen, Feed
      <4>2. count' = count /\ bench' = "waits" /\ written' = written /\ benchDrives' = benchDrives
        BY <1>2, <4>1 DEF Wait, WaitOrEnd
      <4>3. WordsMoved' = count' /\ WordsMoved' = Length(comm') - 1 /\ WordsMoved' = WordsMoved + 1 /\ count' \in Nat
        BY <1>5, <1>7, <1>8, <2>4, <3>2, <4>1, <4>2
      <4>4. Same({Plus(addr, j) : j \in WordsMoved..count})'
        <5> SUFFICES ASSUME NEW a \in Addresses \ {Plus(addr', j) : j \in WordsMoved'..count'}
                     PROVE  memory'[a] = written'[a]
          BY DEF Same
        <5>1. WordsMoved + 1 \in WordsMoved'..count'
          BY <1>8, <4>3
        <5>2. a # Plus(addr, WordsMoved + 1)
          BY <1>5, <5>1
        <5> QED BY <3>6, <4>2, <5>2
      <4>5. sample'.data = written'[sample'.addr]
        BY <2>2, <2>6, <3>3, <4>2
      <4>6. benchDrives' = written'[Plus(addr', count')]
        BY <1>5, <3>2, <4>2, <4>3
      <4>7. WriteMoving'
        BY <1>7, <1>5, <3>3, <4>2, <4>3, <4>4, <4>6 DEF WriteMoving
      <4> QED BY <1>2, <1>5, <1>6, <2>1, <2>2, <2>4, <2>5, <2>8, <4>5, <4>7 DEF Moving
    <3> QED BY <3>7, <3>8
  <2> QED BY <2>7, <2>8
<1> QED BY <1>10, <1>11

LEMMA FromAcknowledging ==
  ASSUME MemoryTypeOK, Acknowledging, MemoryNext
  PROVE  \/ Acknowledging'
         \/ bench' = "ended" /\ AtRest'
         \/ AfterAReset'
<1>1. /\ control = "acknowledges" /\ complete /\ sample.comm = comm /\ Same({})
      /\ IF comm \in Reading
         THEN benchDrives = Z /\ memDrives = written[Plus(addr, Length(comm) - 1)]
         ELSE memDrives = Z
  BY DEF Acknowledging
<1>2. /\ complete' = ~EndsCommand
      /\ control' = (IF EndsCommand THEN "idle" ELSE "acknowledges")
      /\ memDrives' = (IF EndsCommand /\ sample.comm \in Reading THEN Z ELSE memDrives)
      /\ memory' = memory /\ sample' = sample
  BY <1>1 DEF MemoryNext, Controller, Idle, Move, Acknowledged, Acknowledge
<1>3. ASSUME written' = written, benchDrives' = benchDrives, comm' = comm, addr' = addr
      PROVE  /\ Same({})' /\ sample'.comm = comm'
             /\ EndsCommand => memDrives' = Z
             /\ comm' \in Reading => benchDrives' = Z
             /\ ~EndsCommand =>
                  IF comm' \in Reading
                  THEN benchDrives' = Z /\ memDrives' = written'[Plus(addr', Length(comm') - 1)]
                  ELSE memDrives' = Z
  <2>1. Same({})'
    BY <1>1, <1>2, <1>3 DEF Same
  <2> QED BY <1>1, <1>2, <1>3, <2>1
<1>4. CASE newComm /\ ~reset
           /\ IF comm = "RDBLK" THEN bench = "listens" /\ count = Block + 1 ELSE bench = "waits"
  <2>1. ~EndsCommand
    BY <1>4 DEF EndsCommand
  <2>2. Listen \/ Wait \/ Reset
    BY <1>4 DEF MemoryNext, Bench, NextCommand, Feed, End, AfterReset
  <2>3. written' = written /\ benchDrives' = benchDrives /\ comm' = comm /\ addr' = addr
    BY <2>2 DEF Listen, Wait, Reset
  <2>4. \/ ~newComm' /\ ~reset' /\ bench' = "ends"
        \/ reset' /\ bench' = "resets" /\ comm' = "RDBYT"
    <3>1. CASE Listen
      <4>1. count = Block + 1 /\ Block \in Nat
        BY <1>4, <3>1, MemoryAssumption DEF Listen
      <4>2. count' = Block + 2
        BY <4>1, <3>1 DEF Listen
      <4> QED BY <1>1, <1>4, <3>1, <4>2 DEF Listen, WaitOrEnd
    <3>2. CASE Wait
      BY <1>1, <1>4, <3>2 DEF Wait, WaitOrEnd
    <3>3. CASE Reset
      BY <3>3 DEF Reset
    <3> QED BY <2>2, <3>1, <3>2, <3>3
  <2> QED BY <1>2, <1>3, <2>1, <2>3, <2>4 DEF Acknowledging
<1>5. CASE ~newComm /\ ~reset /\ bench = "ends"
  <2>1. EndsCommand
    BY <1>5 DEF EndsCommand
  <2>2. End
    BY <1>5 DEF MemoryNext, Bench, NextCommand, Feed, Listen, Wait, Reset, AfterReset
  <2>3. /\ written' = written /\ benchDrives' = benchDrives /\ comm' = comm /\ addr' = addr
        /\ newComm' = newComm /\ reset' = reset /\ bench' = "ended"
    BY <2>2 DEF End, lines
  <2> QED BY <1>2, <1>3, <1>5, <2>1, <2>3 DEF AtRest
<1>6. CASE reset /\ bench = "resets" /\ comm = "RDBYT"
  <2>1. EndsCommand
    BY <1>6 DEF EndsCommand
  <2>2. AfterReset
    BY <1>6 DEF MemoryNext, Bench, NextCommand, Feed, Listen, Wait, Reset, End
  <2>3. /\ written' = written /\ benchDrives' = benchDrives /\ comm' = comm /\ addr' = addr
        /\ reset' = reset /\ bench' = "reset"
    BY <1>6, <2>2 DEF AfterReset, lines
  <2> QED BY <1>2, <1>3, <1>6, <2>1, <2>3 DEF AfterAReset
<1> QED BY <1>4, <1>5, <1>6 DEF Acknowledging

LEMMA FromAReset ==
  ASSUME AfterAReset, MemoryNext
  PROVE  AfterAReset'
<1>1. control' = "idle" /\ memDrives' = Z /\ ~complete'
  BY DEF MemoryNext, Controller, Idle, Move, Acknowledged, AfterAReset
<1>2. AfterReset
  BY DEF MemoryNext, Bench, NextCommand, Feed, Listen, Wait, End, Reset, AfterAReset
<1>3. bench' \in {"reset", "stopped"} /\ reset' = reset
  BY <1>2 DEF AfterReset, lines
<1> QED BY <1>1, <1>3 DEF AfterAReset

LEMMA BusStep ==
  ASSUME MemInv, MemoryNext
  PROVE  BusInv'
<1>1. CASE bench \in {"start", "ended"} /\ AtRest
  BY <1>1, FromRest DEF MemInv, BusInv
<1>2. CASE Issued
  BY <1>2, FromIssued DEF MemInv, BusInv
<1>3. CASE Moving
  BY <1>3, FromMoving DEF MemInv, BusInv
<1>4. CASE Acknowledging
  BY <1>4, FromAcknowledging DEF MemInv, BusInv
<1>5. CASE AfterAReset
  BY <1>5, FromAReset DEF MemInv, BusInv
<1> QED BY <1>1, <1>2, <1>3, <1>4, <1>5 DEF MemInv, BusInv

\* The types, with the count of the bench's waits and the words that are moved.
LEMMA BusTypesStep ==
  ASSUME MemInv, MemoryNext
  PROVE  MemoryTypeOK'
<1>1. /\ newComm \in BOOLEAN /\ reset \in BOOLEAN /\ complete \in BOOLEAN
      /\ comm \in Commands /\ addr \in Addresses
      /\ benchDrives \in Values \cup {Z} /\ memDrives \in Values \cup {Z}
      /\ memory \in [Addresses -> Values] /\ written \in [Addresses -> Values]
      /\ control \in {"idle", "moving", "acknowledges"}
      /\ sample \in [comm : Commands, addr : Addresses, data : Values \cup {Z}, left : 0..Block]
      /\ count \in 0 .. Block + 2 /\ Block \in Nat /\ Block >= 1
      /\ Bus \in Values \cup {Z}
  BY Types, BusTypes, MemoryAssumption DEF MemInv
<1>2. /\ complete' \in BOOLEAN
      /\ control' \in {"idle", "moving", "acknowledges"}
  <2>1. CASE Idle
    BY <1>1, <2>1 DEF Idle
  <2>2. CASE Move
    BY <1>1, <2>2 DEF Move, Acknowledge, EndsCommand
  <2>3. CASE Acknowledged
    BY <1>1, <2>3 DEF Acknowledged, Acknowledge, EndsCommand
  <2> QED BY <2>1, <2>2, <2>3 DEF MemoryNext, Controller
<1>3. control = "moving" => sample.left \in 1..Block /\ sample.data \in Values
  <2>1. ASSUME Moving PROVE sample.left \in 1..Block /\ sample.data \in Values
    BY <1>1, <2>1 DEF Moving, Length
  <2> QED BY <2>1 DEF MemInv, BusInv, AtRest, Issued, Acknowledging, AfterAReset
<1>4. /\ memDrives' \in Values \cup {Z}
      /\ memory' \in [Addresses -> Values]
  <2>1. CASE Idle
    BY <1>1, <2>1 DEF Idle
  <2>2. CASE Move
    BY <1>1, <1>3, <2>2 DEF Move
  <2>3. CASE Acknowledged
    BY <1>1, <2>3 DEF Acknowledged
  <2> QED BY <2>1, <2>2, <2>3 DEF MemoryNext, Controller
<1>5. sample' \in [comm : Commands, addr : Addresses, data : Values \cup {Z}, left : 0..Block]
  <2>1. CASE Idle
    BY <1>1, <2>1 DEF Idle, Length
  <2>2. CASE Move
    <3>1. CASE sample.left = 1
      BY <1>1, <2>2, <3>1 DEF Move
    <3>2. CASE sample.left # 1
      <4>1. Plus(sample.addr, 1) \in Addresses
        BY <1>1, Along
      <4>2. sample.left - 1 \in 0..Block
        BY <1>1, <1>3, <2>2 DEF Move
      <4>3. (IF sample.comm \in Reading THEN memory[Plus(sample.addr, 1)] ELSE Bus)
              \in Values \cup {Z}
        BY <1>1, <4>1
      <4> QED BY <1>1, <2>2, <3>2, <4>1, <4>2, <4>3 DEF Move, NextWord
    <3> QED BY <3>1, <3>2
  <2>3. CASE Acknowledged
    BY <1>1, <2>3 DEF Acknowledged
  <2> QED BY <2>1, <2>2, <2>3 DEF MemoryNext, Controller
<1>6. ASSUME NEW c \in Commands, NEW a \in Addresses, NEW w \in Bytes, Issue(c, a, w)
      PROVE  /\ newComm' \in BOOLEAN /\ reset' \in BOOLEAN
             /\ comm' \in Commands /\ addr' \in Addresses
             /\ benchDrives' \in Values \cup {Z}
             /\ written' \in [Addresses -> Values]
             /\ bench' \in {"feeds", "listens", "waits"}
             /\ count' \in 0 .. Block + 2
  <2>1. benchDrives' \in Values \cup {Z} /\ written' \in [Addresses -> Values]
    BY <1>1, <1>6 DEF Issue, Values
  <2>2. bench' \in {"feeds", "listens", "waits"}
    BY <1>6 DEF Issue
  <2> QED BY <1>1, <1>6, <2>1, <2>2 DEF Issue
<1>7. bench = "feeds" => count + 1 \in 0 .. Block
  <2>1. Moving => (bench = "feeds" => count + 1 \in 0 .. Block)
    BY <1>1 DEF Moving, ReadMoving, WriteMoving, Length
  <2> QED BY <1>1, <2>1 DEF MemInv, BusInv, AtRest, Issued, Acknowledging, AfterAReset
<1>8. bench = "listens" => count + 1 \in 0 .. Block + 2
  <2>1. Moving => (bench = "listens" => count + 1 \in 0 .. Block + 2)
    BY <1>1 DEF Moving, ReadMoving, WriteMoving, WordsMoved, Length
  <2> QED BY <1>1, <2>1 DEF MemInv, BusInv, AtRest, Issued, Acknowledging, AfterAReset
<1>9. ASSUME Feed \/ Listen \/ Wait \/ End \/ Reset \/ AfterReset
      PROVE  /\ newComm' \in BOOLEAN /\ reset' \in BOOLEAN
             /\ comm' = comm /\ addr' = addr
             /\ bench' \in {"feeds", "listens", "waits", "ends", "ended", "resets", "reset", "stopped"}
             /\ count' \in 0 .. Block + 2
  <2>1. CASE Feed
    <3>1. count' \in 0 .. Block + 2
      BY <1>1, <1>7, <2>1 DEF Feed
    <3>2. newComm' \in BOOLEAN /\ bench' \in {"feeds", "waits", "ends"}
      BY <1>1, <2>1 DEF Feed, WaitOrEnd
    <3> QED BY <1>1, <2>1, <3>1, <3>2 DEF Feed
  <2>2. CASE Listen
    BY <1>1, <1>8, <2>2 DEF Listen, WaitOrEnd
  <2>3. CASE Wait \/ End \/ Reset \/ AfterReset
    BY <1>1, <2>3 DEF Wait, WaitOrEnd, End, Reset, AfterReset, lines
  <2> QED BY <1>9, <2>1, <2>2, <2>3
<1>10. ASSUME Feed \/ Listen \/ Wait \/ End \/ Reset \/ AfterReset
       PROVE  benchDrives' \in Values \cup {Z} /\ written' \in [Addresses -> Values]
  <2>1. CASE Feed
    <3>1. PICK w \in Bytes : benchDrives' = w /\ written' = [written EXCEPT ![Plus(addr, count')] = w]
      BY <2>1, Zenon DEF Feed
    <3> QED BY <1>1, <3>1 DEF Values
  <2>2. CASE Listen \/ Wait \/ End \/ Reset \/ AfterReset
    BY <1>1, <2>2 DEF Listen, Wait, End, Reset, AfterReset
  <2> QED BY <1>10, <2>1, <2>2
<1>11. /\ newComm' \in BOOLEAN /\ reset' \in BOOLEAN
       /\ comm' \in Commands /\ addr' \in Addresses
       /\ benchDrives' \in Values \cup {Z}
       /\ written' \in [Addresses -> Values]
       /\ bench' \in {"start", "feeds", "listens", "waits", "ends", "ended", "resets", "reset",
                      "stopped"}
       /\ count' \in 0 .. Block + 2
  <2>1. CASE NextCommand
    BY <1>6, <2>1 DEF NextCommand
  <2>2. CASE ~NextCommand
    <3>1. Feed \/ Listen \/ Wait \/ End \/ Reset \/ AfterReset
      BY <2>2 DEF MemoryNext, Bench
    <3> QED BY <1>1, <1>9, <1>10, <3>1
  <2> QED BY <2>1, <2>2
<1> QED BY <1>2, <1>4, <1>5, <1>11 DEF MemoryTypeOK, Values

LEMMA MemoryInvariant == MemorySpec => []MemInv
<1>1. MemoryInit => MemInv
  <2> SUFFICES ASSUME MemoryInit PROVE MemInv
    OBVIOUS
  <2>1. 0 \in Addresses /\ Block \in Nat
    BY MemoryAssumption DEF Addresses
  <2>2. MemoryTypeOK
    <3>1. X \in Values
      BY DEF Values
    <3>2. memory \in [Addresses -> Values] /\ written \in [Addresses -> Values]
      BY <3>1 DEF MemoryInit
    <3>3. comm \in Commands
      BY DEF MemoryInit, Commands, Reading
    <3>4. sample \in [comm : Commands, addr : Addresses, data : Values \cup {Z}, left : 0..Block]
      BY <2>1, <3>1, <3>3 DEF MemoryInit
    <3>5. /\ newComm \in BOOLEAN /\ reset \in BOOLEAN /\ complete \in BOOLEAN
          /\ benchDrives = Z /\ memDrives = Z
          /\ addr \in Addresses /\ control = "idle" /\ bench = "start"
      BY <2>1 DEF MemoryInit
    <3>6. count \in 0 .. Block + 2
      BY <2>1 DEF MemoryInit
    <3> QED BY <3>2, <3>3, <3>4, <3>5, <3>6, Types
  <2>3. AtRest /\ bench = "start"
    BY DEF MemoryInit, AtRest, Same
  <2> QED BY <2>2, <2>3 DEF MemInv, BusInv
<1>2. MemInv /\ [MemoryNext]_busVars => MemInv'
  <2> SUFFICES ASSUME MemInv, [MemoryNext]_busVars PROVE MemInv'
    OBVIOUS
  <2>1. CASE MemoryNext
    BY <2>1, BusStep, BusTypesStep DEF MemInv
  <2>2. CASE UNCHANGED busVars
    <3>1. UNCHANGED <<newComm, comm, addr, reset, complete, memDrives, memory, control, sample,
                      benchDrives, bench, count, written>>
      BY <2>2 DEF busVars, memVars, benchVars, lines
    <3>2. MemoryTypeOK'
      BY <3>1 DEF MemInv, MemoryTypeOK
    <3>3. BusInv'
      BY <3>1 DEF MemInv, BusInv, AtRest, Issued, Moving, ReadMoving, WriteMoving,
        Acknowledging, AfterAReset, WordsMoved, Same
    <3> QED BY <3>2, <3>3 DEF MemInv
  <2> QED BY <2>1, <2>2
<1> QED BY <1>1, <1>2, PTL DEF MemorySpec

\* For any number of addresses and words of a block, and any commands in any order:
\* what stim.cpp asserts holds, and the controller and the bench never drive the
\* bus together.
THEOREM BenchAssertionsHold == MemorySpec => []AssertionsHold
<1>1. MemInv => AssertionsHold
  <2> SUFFICES ASSUME MemInv PROVE AssertionsHold
    OBVIOUS
  <2>1. /\ Block \in Nat /\ Block >= 1 /\ count \in Nat /\ comm \in Commands
    BY Types, MemoryAssumption DEF MemInv
  <2>2. CASE bench \in {"start", "ended"} /\ AtRest
    BY <2>2 DEF AtRest, AssertionsHold, Bus
  <2>3. CASE Issued
    BY <2>3 DEF Issued, AssertionsHold
  <2>4. CASE Moving
    <3>1. bench = "listens" => comm \in Reading
      BY <2>4 DEF Moving, WriteMoving
    <3>2. bench \in {"feeds", "listens", "waits"}
      BY <2>4 DEF Moving, ReadMoving, WriteMoving
    <3>3. bench = "listens" /\ count >= 2 => Bus = written[Plus(addr, count - 2)]
      <4> SUFFICES ASSUME bench = "listens", count >= 2
                   PROVE  Bus = written[Plus(addr, count - 2)]
        OBVIOUS
      <4>1. ReadMoving /\ WordsMoved \in Int
        BY <2>4, <3>1, LengthType DEF Moving, WordsMoved
      <4>2. count = WordsMoved + 1
        BY <4>1 DEF ReadMoving
      <4>3. WordsMoved # 0 /\ WordsMoved - 1 = count - 2
        BY <2>1, <4>1, <4>2
      <4>4. memDrives = written[Plus(addr, count - 2)] /\ benchDrives = Z
        BY <4>1, <4>3 DEF ReadMoving
      <4> QED BY <4>4 DEF Bus
    <3>4. Z \in {benchDrives, memDrives}
      BY <2>4 DEF Moving, ReadMoving, WriteMoving
    <3> QED BY <2>4, <3>2, <3>3, <3>4 DEF Moving, AssertionsHold
  <2>5. CASE Acknowledging
    <3>1. Z \in {benchDrives, memDrives}
      BY <2>5 DEF Acknowledging
    <3>2. bench \in {"listens", "waits", "ends", "resets"}
          /\ (bench = "listens" => comm = "RDBLK" /\ count = Block + 1)
      BY <2>5 DEF Acknowledging
    <3>3. comm \in Reading => Bus = written[Plus(addr, Length(comm) - 1)]
      BY <2>5 DEF Acknowledging, Bus
    <3>4. comm = "RDBYT" => Bus = written[addr]
      <4>1. Plus(addr, 0) = addr
        BY Types, Along DEF MemInv
      <4> QED BY <3>3, <4>1 DEF Length, Reading
    <3>5. comm = "RDBLK" => Bus = written[Plus(addr, Block - 1)]
      BY <3>3 DEF Length, Reading
    <3>6. bench = "listens" => count - 2 = Block - 1
      BY <2>1, <3>2
    <3> QED BY <3>1, <3>2, <3>4, <3>5, <3>6 DEF AssertionsHold
  <2>6. CASE AfterAReset
    BY <2>6 DEF AfterAReset, AssertionsHold
  <2> QED BY <2>2, <2>3, <2>4, <2>5, <2>6 DEF MemInv, BusInv
<1> QED BY <1>1, MemoryInvariant, PTL

-----------------------------------------------------------------------------
(* Random bytes: incrementing the state runs through all states.           *)

Byte == 0 .. ByteValues - 1

\* A number of states, and products of them.
LEMMA ByteFacts ==
  /\ ByteValues \in Nat \ {0} /\ StateLen \in Nat \ {0} /\ DigestLen \in Nat \ {0}
  /\ Byte \subseteq Nat /\ 0 \in Byte
BY RandomBytesAssumption DEF Byte

\* "Increment state" on the first n bytes.
IncrementOf(n, s) ==
  [i \in 1..n |-> IF \A j \in i + 1 .. n : s[j] = 0 THEN (s[i] + 1) % ByteValues ELSE s[i]]

\* The place of a state: the next state has the next place, and no other state has it.
NextPlace(M, p) == IF p = M - 1 THEN 0 ELSE p + 1
Places(n, M, f) ==
  /\ f \in [[1..n -> Byte] -> 0 .. M - 1]
  /\ \A s, t \in [1..n -> Byte] : f[s] = f[t] => s = t
  /\ \A s \in [1..n -> Byte] : f[IncrementOf(n, s)] = NextPlace(M, f[s])

LEMMA IncrementOfType ==
  ASSUME NEW n \in Nat, NEW s \in [1..n -> Byte]
  PROVE  IncrementOf(n, s) \in [1..n -> Byte]
<1>1. ASSUME NEW i \in 1..n
      PROVE  (IF \A j \in i + 1 .. n : s[j] = 0 THEN (s[i] + 1) % ByteValues ELSE s[i]) \in Byte
  <2>1. s[i] \in Byte
    OBVIOUS
  <2>2. (s[i] + 1) % ByteValues \in Byte
    BY <2>1, ByteFacts DEF Byte
  <2> QED BY <2>1, <2>2
<1> QED BY <1>1 DEF IncrementOf

\* A place among M, then one among B: the arithmetic.
LEMMA PairBounds ==
  ASSUME NEW B \in Nat, NEW M \in Nat, NEW p \in 0 .. M - 1, NEW d \in 0 .. B - 1
  PROVE  /\ B * p + d \in 0 .. B * M - 1
         /\ B * M \in Nat
         /\ p < M - 1 => B * (p + 1) < B * M
         /\ p = M - 1 => B * (p + 1) = B * M
<1>1. p + 1 <= M /\ p \in Nat /\ B * p \in Nat /\ B * M \in Nat
  OBVIOUS
<1>2. B * (p + 1) = B * p + B
  BY <1>1
<1>3. PICK e \in Nat : M = (p + 1) + e
  BY <1>1
<1>4. B * M = B * (p + 1) + B * e
  BY <1>3
<1>5. B * e \in Nat /\ (e > 0 => B * e > 0)
  <2>1. CASE e = 0
    BY <2>1
  <2>2. CASE e > 0
    <3>1. B * e >= B
      <4>1. PICK c \in Nat : e = c + 1
        BY <2>2
      <4>2. B * e = B * c + B /\ B * c \in Nat
        BY <4>1
      <4> QED BY <4>2
    <3> QED BY <2>2, <3>1
  <2> QED BY <2>1, <2>2
<1> HIDE <1>2
<1>6. B * (p + 1) = B * p + B
  BY <1>2
<1>7. B * p + d \in 0 .. B * M - 1
  BY <1>1, <1>4, <1>5, <1>6
<1>8. p < M - 1 => e > 0
  BY <1>3
<1>9. B * (p + 1) \in Nat
  BY <1>1, <1>6
<1>10. p = M - 1 => B * (p + 1) = B * M
  OBVIOUS
<1> QED BY <1>1, <1>4, <1>5, <1>7, <1>8, <1>9, <1>10

LEMMA PairUnique ==
  ASSUME NEW B \in Nat, NEW p \in Nat, NEW d \in 0 .. B - 1, NEW q \in Nat, NEW e \in 0 .. B - 1,
         B * p + d = B * q + e
  PROVE  p = q /\ d = e
<1>1. B * (p - q) = e - d
  OBVIOUS
<1>2. CASE p - q >= 1
  <2>1. B * (p - q) >= B
    BY <1>2
  <2> QED BY <1>1, <2>1
<1>3. CASE p - q <= -1
  <2>1. B * (p - q) <= -B
    BY <1>3
  <2> QED BY <1>1, <2>1
<1>4. CASE p = q
  BY <1>4
<1> QED BY <1>2, <1>3, <1>4

\* The last byte steps always, the bytes before it when it was zero.
LEMMA IncrementSplits ==
  ASSUME NEW n \in Nat, NEW s \in [1..(n + 1) -> Byte]
  PROVE  LET before == [i \in 1..n |-> s[i]]
             after  == [i \in 1..n |-> IncrementOf(n + 1, s)[i]]
         IN /\ IncrementOf(n + 1, s)[n + 1] = (s[n + 1] + 1) % ByteValues
            /\ s[n + 1] = 0 => after = IncrementOf(n, before)
            /\ s[n + 1] # 0 => after = before
<1> DEFINE before == [i \in 1..n |-> s[i]]
           after  == [i \in 1..n |-> IncrementOf(n + 1, s)[i]]
<1>1. IncrementOf(n + 1, s)[n + 1] = (s[n + 1] + 1) % ByteValues
  <2>1. \A j \in n + 1 + 1 .. n + 1 : s[j] = 0
    OBVIOUS
  <2> QED BY <2>1 DEF IncrementOf
<1>2. ASSUME NEW i \in 1..n
      PROVE  after[i] = IF \A j \in i + 1 .. n + 1 : s[j] = 0 THEN (s[i] + 1) % ByteValues ELSE s[i]
  BY DEF IncrementOf
<1>3. ASSUME s[n + 1] = 0 PROVE after = IncrementOf(n, before)
  <2>1. ASSUME NEW i \in 1..n
        PROVE  (\A j \in i + 1 .. n + 1 : s[j] = 0) <=> (\A j \in i + 1 .. n : before[j] = 0)
    <3>1. \A j \in i + 1 .. n : before[j] = s[j]
      OBVIOUS
    <3>2. i + 1 .. n + 1 = (i + 1 .. n) \cup {n + 1}
      OBVIOUS
    <3> QED BY <1>3, <3>1, <3>2
  <2>2. ASSUME NEW i \in 1..n PROVE after[i] = IncrementOf(n, before)[i]
    BY <1>2, <2>1 DEF IncrementOf
  <2> QED BY <2>2 DEF IncrementOf
<1>4. ASSUME s[n + 1] # 0 PROVE after = before
  <2>1. ASSUME NEW i \in 1..n PROVE after[i] = before[i]
    <3>1. n + 1 \in i + 1 .. n + 1
      OBVIOUS
    <3> QED BY <1>2, <1>4, <3>1
  <2> QED BY <2>1
<1> QED BY <1>1, <1>3, <1>4

LEMMA FirstNumber ==
  ASSUME NEW S \in SUBSET Nat, S # {}
  PROVE  \E x \in S : \A y \in S : x <= y
<1>1. IsWellFoundedOn(OpToRel(<, Nat), Nat)
  BY NatLessThanWellFounded
<1>2. \E x \in S : \A y \in S : ~(<<y, x>> \in OpToRel(<, Nat))
  BY <1>1, WFMin
<1>3. \E x \in S : \A y \in S : ~(y < x)
  BY <1>2 DEF OpToRel
<1> QED BY <1>3

-----------------------------------------------------------------------------
\* A byte that is stepped; how far a byte is past its first step.
LEMMA NextByte ==
  ASSUME NEW d \in Byte
  PROVE  (d + 1) % ByteValues = IF d = ByteValues - 1 THEN 0 ELSE d + 1
BY ByteFacts DEF Byte

PastZero(d) == IF d = 0 THEN ByteValues - 1 ELSE d - 1

LEMMA PastZeroFacts ==
  ASSUME NEW d \in Byte
  PROVE  /\ PastZero(d) \in 0 .. ByteValues - 1
         /\ \A e \in Byte : PastZero(d) = PastZero(e) => d = e
         /\ PastZero((d + 1) % ByteValues) = d
         /\ d = 0 => PastZero(d) = ByteValues - 1
         /\ d # 0 => PastZero(d) < ByteValues - 1 /\ d = PastZero(d) + 1
<1>1. (d + 1) % ByteValues = IF d = ByteValues - 1 THEN 0 ELSE d + 1
  BY NextByte
<1> QED BY <1>1, ByteFacts DEF Byte, PastZero

LEMMA PlacesNext ==
  ASSUME NEW n \in Nat, NEW M \in Nat \ {0}, NEW f, Places(n, M, f)
  PROVE  \E g : Places(n + 1, ByteValues * M, g)
<1> DEFINE B == ByteValues
           S == [1..(n + 1) -> Byte]
           before(s) == [i \in 1..n |-> s[i]]
           place(s) == B * f[before(s)] + PastZero(s[n + 1])
<1>1. PICK g : g = [s \in S |-> place(s)]
  OBVIOUS
<1>2. B \in Nat \ {0}
  BY ByteFacts
<1>3. \A d \in Byte : PastZero(d) \in 0 .. B - 1
  BY PastZeroFacts
<1>4. ASSUME NEW s \in S
      PROVE  before(s) \in [1..n -> Byte] /\ s[n + 1] \in Byte /\ f[before(s)] \in 0 .. M - 1
  <2>1. before(s) \in [1..n -> Byte] /\ s[n + 1] \in Byte
    OBVIOUS
  <2> QED BY <2>1 DEF Places
<1>5. g \in [S -> 0 .. B * M - 1]
  <2>1. ASSUME NEW s \in S PROVE place(s) \in 0 .. B * M - 1
    <3>1. f[before(s)] \in 0 .. M - 1 /\ PastZero(s[n + 1]) \in 0 .. B - 1
      BY <1>3, <1>4
    <3> HIDE DEF before
    <3>2. PICK p \in 0 .. M - 1 : p = f[before(s)]
      BY <3>1
    <3>3. PICK d \in 0 .. B - 1 : d = PastZero(s[n + 1])
      BY <3>1
    <3> QED BY <1>2, <3>2, <3>3, PairBounds
  <2> HIDE DEF place, S
  <2> QED BY <1>1, <2>1
<1>6. ASSUME NEW s \in S, NEW t \in S, g[s] = g[t] PROVE s = t
  <2>1. /\ f[before(s)] \in Nat /\ PastZero(s[n + 1]) \in 0 .. B - 1
        /\ f[before(t)] \in Nat /\ PastZero(t[n + 1]) \in 0 .. B - 1
    <3>1. ASSUME NEW u \in S PROVE f[before(u)] \in Nat /\ PastZero(u[n + 1]) \in 0 .. B - 1
      <4>1. f[before(u)] \in 0 .. M - 1 /\ u[n + 1] \in Byte
        BY <1>4
      <4> HIDE DEF before
      <4> QED BY <1>3, <4>1
    <3> HIDE DEF before, S
    <3> QED BY <3>1
  <2>2. place(s) = place(t)
    BY <1>1, <1>6
  <2>3. f[before(s)] = f[before(t)] /\ PastZero(s[n + 1]) = PastZero(t[n + 1])
    <3>1. PICK p \in Nat, q \in Nat : p = f[before(s)] /\ q = f[before(t)]
      BY <2>1
    <3>2. PICK d \in 0 .. B - 1, e \in 0 .. B - 1 :
            d = PastZero(s[n + 1]) /\ e = PastZero(t[n + 1])
      BY <2>1
    <3>3. B * p + d = B * q + e
      BY <2>2, <3>1, <3>2
    <3>4. p = q /\ d = e
      BY <1>2, <3>3, PairUnique
    <3> QED BY <3>1, <3>2, <3>4
  <2>4. before(s) = before(t)
    BY <1>4, <2>3 DEF Places
  <2>5. s[n + 1] = t[n + 1]
    BY <1>4, <2>3, PastZeroFacts
  <2>6. ASSUME NEW i \in 1 .. n + 1 PROVE s[i] = t[i]
    <3>1. CASE i = n + 1
      BY <2>5, <3>1
    <3>2. CASE i \in 1..n
      <4>1. before(s)[i] = s[i] /\ before(t)[i] = t[i]
        BY <3>2
      <4> QED BY <2>4, <4>1
    <3> QED BY <3>1, <3>2
  <2> QED BY <2>6
<1>7. ASSUME NEW s \in S PROVE g[IncrementOf(n + 1, s)] = NextPlace(B * M, g[s])
  <2>1. PICK t : t = IncrementOf(n + 1, s)
    OBVIOUS
  <2>2. t \in S
    BY <2>1, IncrementOfType
  <2>3. /\ t[n + 1] = (s[n + 1] + 1) % B
        /\ s[n + 1] = 0 => before(t) = IncrementOf(n, before(s))
        /\ s[n + 1] # 0 => before(t) = before(s)
    BY <2>1, IncrementSplits
  <2>4. g[t] = place(t) /\ g[s] = place(s)
    BY <1>1, <2>2
  <2>5. PICK p \in 0 .. M - 1 : p = f[before(s)]
    BY <1>4
  <2>6. PICK d \in 0 .. B - 1 : d = PastZero(s[n + 1])
    BY <1>3, <1>4
  <2>7. t[n + 1] \in Byte /\ PastZero(t[n + 1]) = s[n + 1]
    <3>1. s[n + 1] \in Byte /\ t[n + 1] \in Byte
      BY <1>4, <2>2
    <3> QED BY <2>3, <3>1, PastZeroFacts
  <2>8. g[s] = B * p + d
    BY <2>4, <2>5, <2>6
  <2>9. CASE s[n + 1] = 0
    <3>1. d = B - 1
      BY <1>4, <2>6, <2>9, PastZeroFacts
    <3>2. f[before(t)] = NextPlace(M, p)
      BY <1>4, <2>3, <2>5, <2>9 DEF Places
    <3>3. g[t] = B * NextPlace(M, p) + 0
      BY <2>4, <2>7, <2>9, <3>2
    <3>4. NextPlace(M, p) \in Nat /\ B * NextPlace(M, p) \in Nat /\ B * (p + 1) = B * p + B
      BY <1>2 DEF NextPlace
    <3>5. /\ p < M - 1 => B * (p + 1) < B * M
          /\ p = M - 1 => B * (p + 1) = B * M
          /\ B * M \in Nat
      BY <1>2, PairBounds
    <3>6. CASE p = M - 1
      <4>1. g[t] = 0
        BY <1>2, <3>3, <3>6 DEF NextPlace
      <4>2. g[s] = B * M - 1
        BY <1>2, <2>8, <3>1, <3>4, <3>5, <3>6
      <4> QED BY <2>1, <4>1, <4>2 DEF NextPlace
    <3>7. CASE p < M - 1
      <4>1. NextPlace(M, p) = p + 1
        BY <3>7 DEF NextPlace
      <4>2. g[t] = B * (p + 1)
        BY <3>3, <3>4, <4>1
      <4>3. PICK q \in Nat : q = B * p
        BY <1>2
      <4>4. g[t] = q + B /\ g[s] = q + B - 1
        BY <1>2, <2>8, <3>1, <3>4, <4>2, <4>3
      <4>5. q + B < B * M
        BY <3>4, <3>5, <3>7, <4>3
      <4> QED BY <1>2, <2>1, <3>5, <4>4, <4>5 DEF NextPlace
    <3> QED BY <3>6, <3>7
  <2>10. CASE s[n + 1] # 0
    <3>1. d < B - 1 /\ s[n + 1] = d + 1
      BY <1>4, <2>6, <2>10, PastZeroFacts
    <3>2. g[t] = B * p + (d + 1)
      BY <2>3, <2>4, <2>5, <2>7, <2>10, <3>1
    <3>3. B * p + (d + 1) \in 0 .. B * M - 1 /\ B * M \in Nat
      BY <1>2, <3>1, PairBounds
    <3>4. PICK q \in Nat : q = B * p
      BY <1>2
    <3>5. g[t] = q + d + 1 /\ g[s] = q + d /\ q + d + 1 <= B * M - 1
      BY <2>8, <3>2, <3>3, <3>4
    <3> QED BY <2>1, <3>3, <3>5 DEF NextPlace
  <2> QED BY <2>9, <2>10
<1> HIDE DEF S
<1>8. Places(n + 1, B * M, g)
  BY <1>5, <1>6, <1>7 DEF Places, S
<1> QED BY <1>8

LEMMA PlacesExist ==
  ASSUME NEW n \in Nat
  PROVE  \E M \in Nat \ {0} : \E f : Places(n, M, f)
<1> DEFINE without == {k \in Nat : ~\E M \in Nat \ {0} : \E f : Places(k, M, f)}
<1>1. SUFFICES ASSUME without # {} PROVE FALSE
  OBVIOUS
<1>2. without \in SUBSET Nat
  OBVIOUS
<1>3. \E k \in without : \A l \in without : k <= l
  <2> HIDE DEF without
  <2> QED BY <1>1, <1>2, FirstNumber
<1>4. PICK k \in without : \A l \in without : k <= l
  BY <1>3
<1>5. CASE k = 0
  <2>1. PICK f : f = [s \in [1..0 -> Byte] |-> 0]
    OBVIOUS
  <2>2. \A s, t \in [1..0 -> Byte] : s = t
    OBVIOUS
  <2>3. \A s \in [1..0 -> Byte] : IncrementOf(0, s) \in [1..0 -> Byte] /\ f[s] = 0
    BY <2>1, IncrementOfType
  <2>4. f \in [[1..0 -> Byte] -> 0 .. 1 - 1]
    BY <2>1
  <2>5. Places(0, 1, f)
    BY <2>2, <2>3, <2>4 DEF Places, NextPlace
  <2> QED BY <1>5, <2>5
<1>6. CASE k # 0
  <2>1. k - 1 \in Nat /\ k - 1 \notin without
    BY <1>4, <1>6
  <2>m. PICK M \in Nat \ {0} : \E f : Places(k - 1, M, f)
    BY <2>1
  <2>2. PICK f : Places(k - 1, M, f)
    BY <2>m
  <2>3. \E g : Places(k - 1 + 1, ByteValues * M, g)
    BY <2>1, <2>2, PlacesNext
  <2>4. k - 1 + 1 = k /\ ByteValues * M \in Nat \ {0}
    BY ByteFacts
  <2> QED BY <2>3, <2>4
<1> QED BY <1>5, <1>6

\* The places count from any state on, and there is one for each state.
LEMMA PlacesFrom ==
  ASSUME NEW start \in [1..StateLen -> Byte]
  PROVE  \E M \in Nat \ {0} : \E g :
           /\ Places(StateLen, M, g)
           /\ g[start] = 0
           /\ Cardinality([1..StateLen -> Byte]) \in Nat
           /\ Cardinality([1..StateLen -> Byte]) <= M
<1>m. PICK M \in Nat \ {0} : \E f : Places(StateLen, M, f)
  BY ByteFacts, PlacesExist
<1>1. PICK f : Places(StateLen, M, f)
  BY <1>m
<1> DEFINE S == [1..StateLen -> Byte]
           turned(s) == IF f[s] >= f[start] THEN f[s] - f[start] ELSE f[s] - f[start] + M
<1>2. PICK g : g = [s \in S |-> turned(s)]
  OBVIOUS
<1>3. \A s \in S : f[s] \in 0 .. M - 1 /\ IncrementOf(StateLen, s) \in S
  BY <1>1, ByteFacts, IncrementOfType DEF Places
<1>4. start \in S /\ f[start] \in 0 .. M - 1
  BY <1>3
<1>5. g \in [S -> 0 .. M - 1]
  <2> HIDE DEF S
  <2> QED BY <1>2, <1>3, <1>4
<1>6. ASSUME NEW s \in S, NEW t \in S, g[s] = g[t] PROVE s = t
  <2>1. f[s] = f[t]
    <3>1. turned(s) = turned(t)
      BY <1>2, <1>6
    <3> HIDE DEF S
    <3> QED BY <1>3, <1>4, <3>1
  <2> QED BY <1>1, <2>1 DEF Places
<1>7. ASSUME NEW s \in S PROVE g[IncrementOf(StateLen, s)] = NextPlace(M, g[s])
  <2>1. f[IncrementOf(StateLen, s)] = NextPlace(M, f[s])
    BY <1>1 DEF Places
  <2>2. g[s] = turned(s) /\ g[IncrementOf(StateLen, s)] = turned(IncrementOf(StateLen, s))
    BY <1>2, <1>3
  <2>3. f[s] \in 0 .. M - 1 /\ f[start] \in 0 .. M - 1
    BY <1>3, <1>4
  <2> HIDE DEF S
  <2> QED BY <2>1, <2>2, <2>3, SMTT(30) DEF NextPlace
<1>8. g[start] = 0
  BY <1>2, <1>4
<1>9. Places(StateLen, M, g)
  BY <1>5, <1>6, <1>7 DEF Places
<1>10. g \in Injection(S, 0 .. M - 1)
  <2> HIDE DEF S
  <2> QED BY <1>5, <1>6 DEF Injection, IsInjective
<1>11. IsFiniteSet(0 .. M - 1) /\ Cardinality(0 .. M - 1) = M
  BY FS_Interval
<1>12. Cardinality(S) \in Nat /\ Cardinality(S) <= M
  BY <1>10, <1>11, FS_Injection, FS_CardinalityType
<1> QED BY <1>8, <1>9, <1>12

-----------------------------------------------------------------------------
States == [1..StateLen -> Byte]

\* The source after k refills, of which all but the output that is left is given.
Before(g, k, r, s, i) ==
  g[s] < k - 1 \/ (g[s] = k - 1 /\ i <= DigestLen - r.outputAvailable)

Source(M, g, k, r, G, c) ==
  /\ k \in 0..M
  /\ r \in [state : States, output : {NoOutput} \cup States, outputAvailable : 0..DigestLen]
  /\ g[r.state] = IF k = M THEN 0 ELSE k
  /\ k > 0 => r.output \in States /\ g[r.output] = k - 1
  /\ k = 0 => r.outputAvailable = 0
  /\ c \in Nat /\ c + r.outputAvailable = k * DigestLen
  /\ \A b \in G : \E s \in States, i \in 1..DigestLen : b = <<s, i>> /\ Before(g, k, r, s, i)
  /\ IsFiniteSet(G) /\ Cardinality(G) = c

\* The k bytes of a digest after its first a: there are k.
BytesOf(output, a, k) == {<<output, i>> : i \in a + 1 .. a + k}

LEMMA CopiedCounts ==
  ASSUME NEW output, NEW a \in Int, NEW k \in Nat
  PROVE  IsFiniteSet(BytesOf(output, a, k)) /\ Cardinality(BytesOf(output, a, k)) = k
<1> DEFINE I == a + 1 .. a + k
           C == {<<output, i>> : i \in I}
<1>1. PICK f : f = [i \in I |-> <<output, i>>]
  OBVIOUS
<1>2. f \in Bijection(I, C)
  <2>1. f \in [I -> C]
    BY <1>1
  <2>2. \A i, j \in I : f[i] = f[j] => i = j
    BY <1>1
  <2>3. \A b \in C : \E i \in I : f[i] = b
    BY <1>1
  <2> HIDE DEF I, C
  <2> QED BY <2>1, <2>2, <2>3 DEF Bijection, Injection, IsInjective, Surjection
<1>3. IsFiniteSet(I) /\ Cardinality(I) = k
  BY FS_Interval
<1>4. ExistsBijection(I, C)
  BY <1>2 DEF ExistsBijection
<1> HIDE DEF I, C
<1>5. IsFiniteSet(C) /\ Cardinality(C) = Cardinality(I)
  BY <1>3, <1>4, FS_Bijection
<1> QED BY <1>3, <1>5 DEF I, C, BytesOf

\* Copying out keeps the account.
LEMMA CopyKeeps ==
  ASSUME NEW M \in Nat \ {0}, NEW g, NEW k, NEW r, NEW G, NEW c, Places(StateLen, M, g),
         Source(M, g, k, r, G, c), NEW n \in 0 .. r.outputAvailable
  PROVE  Source(M, g, k, [r EXCEPT !.outputAvailable = @ - n], G \cup Copied(r, n), c + n)
<1>1. DigestLen \in Nat
  BY ByteFacts
<1>2. PICK v \in 0..DigestLen : v = r.outputAvailable
  BY DEF Source
<1>3. n \in 0..v
  BY <1>2
<1>4. PICK q : q = [r EXCEPT !.outputAvailable = @ - n]
  OBVIOUS
<1>5. r \in [state : States, output : {NoOutput} \cup States, outputAvailable : 0..DigestLen]
  BY DEF Source
<1>6. q.state = r.state /\ q.output = r.output /\ q.outputAvailable = v - n
  BY <1>2, <1>4, <1>5
<1>7. q \in [state : States, output : {NoOutput} \cup States, outputAvailable : 0..DigestLen]
  <2>1. v - n \in 0..DigestLen
    BY <1>1, <1>3
  <2> QED BY <1>2, <1>4, <1>5, <2>1
<1>8. k \in Nat /\ (k = 0 => v = 0)
  BY <1>2 DEF Source
<1>9. CASE n = 0
  <2>1. DigestLen - v + 1 .. DigestLen - v + n = {}
    BY <1>1, <1>9
  <2>2. Copied(r, n) = {}
    BY <1>2, <2>1 DEF Copied
  <2>3. q = r
    BY <1>2, <1>4, <1>5, <1>9
  <2>4. c + n = c
    BY <1>9 DEF Source
  <2>5. G \cup Copied(r, n) = G
    BY <2>2
  <2> QED BY <1>4, <2>3, <2>4, <2>5
<1>10. CASE n > 0
  <2>1. k > 0
    BY <1>3, <1>8, <1>10
  <2>2. r.output \in States /\ g[r.output] = k - 1
    BY <2>1 DEF Source
  <2>3. PICK C : C = {<<r.output, i>> : i \in (DigestLen - v) + 1 .. (DigestLen - v) + n}
    OBVIOUS
  <2>4. C = Copied(r, n)
    BY <1>2, <2>3 DEF Copied
  <2>5. IsFiniteSet(C) /\ Cardinality(C) = n
    <3>1. PICK a \in Int : a = DigestLen - v
      BY <1>1
    <3>2. C = BytesOf(r.output, a, n)
      BY <2>3, <3>1 DEF BytesOf
    <3>3. n \in Nat
      BY <1>3
    <3> QED BY <3>2, <3>3, CopiedCounts
  <2>6. IsFiniteSet(G) /\ Cardinality(G) = c /\ c \in Nat
    BY DEF Source
  <2>7. \A b \in G : \E s \in States, i \in 1..DigestLen :
          b = <<s, i>> /\ (g[s] < k - 1 \/ (g[s] = k - 1 /\ i <= DigestLen - v))
    BY <1>2 DEF Source, Before
  <2>8. G \cap C = {}
    <3> SUFFICES ASSUME NEW b \in G, b \in C PROVE FALSE
      OBVIOUS
    <3>1. PICK s \in States, i \in 1..DigestLen :
            b = <<s, i>> /\ (g[s] < k - 1 \/ (g[s] = k - 1 /\ i <= DigestLen - v))
      BY <2>7
    <3>2. PICK j \in (DigestLen - v) + 1 .. (DigestLen - v) + n : b = <<r.output, j>>
      BY <2>3
    <3>3. s = r.output /\ i = j
      BY <3>1, <3>2
    <3> QED BY <1>1, <1>8, <2>2, <3>1, <3>2, <3>3
  <2>9. IsFiniteSet(G \cup C) /\ Cardinality(G \cup C) = c + n
    <3>1. /\ IsFiniteSet(G \cup C)
          /\ Cardinality(G \cup C) = Cardinality(G) + Cardinality(C) - Cardinality(G \cap C)
      BY <2>5, <2>6, FS_Union
    <3>2. Cardinality(G \cap C) = 0
      BY <2>8, FS_EmptySet
    <3> QED BY <1>3, <2>5, <2>6, <3>1, <3>2
  <2>10. ASSUME NEW b \in G \cup C
         PROVE  \E s \in States, i \in 1..DigestLen : b = <<s, i>> /\ Before(g, k, q, s, i)
    <3>1. CASE b \in G
      <4>1. PICK s \in States, i \in 1..DigestLen :
              b = <<s, i>> /\ (g[s] < k - 1 \/ (g[s] = k - 1 /\ i <= DigestLen - v))
        BY <2>7, <3>1
      <4>2. Before(g, k, q, s, i)
        BY <1>1, <1>3, <1>6, <4>1 DEF Before
      <4> QED BY <4>1, <4>2
    <3>2. CASE b \in C
      <4>1. PICK j \in (DigestLen - v) + 1 .. (DigestLen - v) + n : b = <<r.output, j>>
        BY <2>3, <3>2
      <4>2. j \in 1..DigestLen
        BY <1>1, <1>3
      <4>3. Before(g, k, q, r.output, j)
        BY <1>1, <1>3, <1>6, <2>2 DEF Before
      <4> QED BY <2>2, <4>1, <4>2, <4>3
    <3> QED BY <3>1, <3>2
  <2>11. c + n \in Nat /\ c + n + q.outputAvailable = k * DigestLen
    <3>1. c + v = k * DigestLen /\ c \in Nat
      BY <1>2 DEF Source
    <3>2. c + n + (v - n) = c + v
      BY <1>3, <3>1
    <3> QED BY <1>3, <1>6, <3>1, <3>2
  <2>12. /\ k \in 0..M
         /\ g[q.state] = IF k = M THEN 0 ELSE k
         /\ k > 0 => q.output \in States /\ g[q.output] = k - 1
    BY <1>6 DEF Source
  <2>13. Source(M, g, k, q, G \cup C, c + n)
    BY ONLY <1>7, <2>1, <2>9, <2>10, <2>11, <2>12 DEF Source
  <2> QED BY <1>4, <2>4, <2>13
<1> QED BY <1>3, <1>9, <1>10

\* A refill keeps the account, as long as there is a state left.
LEMMA RefillKeeps ==
  ASSUME NEW M \in Nat \ {0}, NEW g, NEW k, NEW r, NEW G, NEW c, Places(StateLen, M, g),
         Source(M, g, k, r, G, c), r.outputAvailable = 0, k < M,
         NEW q, q = [state |-> Increment(r.state), output |-> r.state, outputAvailable |-> DigestLen]
  PROVE  Source(M, g, k + 1, q, G, c)
<1>1. DigestLen \in Nat /\ StateLen \in Nat
  BY ByteFacts
<1>2. k \in 0..M /\ k + 1 \in 0..M
  BY DEF Source
<1>3. r.state \in States /\ g[r.state] = k
  BY <1>2 DEF Source
<1>4. Increment(r.state) = IncrementOf(StateLen, r.state)
  BY DEF Increment, IncrementOf
<1>5. Increment(r.state) \in States
  BY <1>1, <1>3, <1>4, IncrementOfType DEF States
<1>6. g[Increment(r.state)] = IF k = M - 1 THEN 0 ELSE k + 1
  BY <1>3, <1>4 DEF Places, NextPlace, States
<1>7. q.state = Increment(r.state) /\ q.output = r.state /\ q.outputAvailable = DigestLen
  OBVIOUS
<1>8. q \in [state : States, output : {NoOutput} \cup States, outputAvailable : 0..DigestLen]
  BY <1>1, <1>3, <1>5
<1>9. g[q.state] = IF k + 1 = M THEN 0 ELSE k + 1
  BY <1>2, <1>6, <1>7
<1>10. k + 1 > 0 /\ q.output \in States /\ g[q.output] = k + 1 - 1 /\ k + 1 # 0
  BY <1>2, <1>3, <1>7
<1>11. c \in Nat /\ c + q.outputAvailable = (k + 1) * DigestLen
  <2>1. c \in Nat /\ c + 0 = k * DigestLen
    BY DEF Source
  <2>2. (k + 1) * DigestLen = k * DigestLen + DigestLen
    BY <1>1, <1>2
  <2> QED BY <1>1, <1>7, <2>1, <2>2
<1>12. ASSUME NEW b \in G
       PROVE  \E s \in States, i \in 1..DigestLen : b = <<s, i>> /\ Before(g, k + 1, q, s, i)
  <2>1. PICK s \in States, i \in 1..DigestLen : b = <<s, i>> /\ Before(g, k, r, s, i)
    BY DEF Source
  <2>2. g[s] \in 0 .. M - 1
    BY DEF Places, States
  <2>3. Before(g, k + 1, q, s, i)
    BY <1>2, <2>1, <2>2 DEF Before
  <2> QED BY <2>1, <2>3
<1>13. IsFiniteSet(G) /\ Cardinality(G) = c
  BY DEF Source
<1> QED BY ONLY <1>2, <1>8, <1>9, <1>10, <1>11, <1>12, <1>13 DEF Source

-----------------------------------------------------------------------------
(* The loop of R_GenerateBytes. *)

\* The loop at a round: what it has handed out is on the account.
Account(M, g, loop, G, c, total) ==
  /\ loop.blockLen \in 0..total
  /\ \E k : Source(M, g, k, loop.random, G \cup loop.block, c + total - loop.blockLen)

\* Each round but the first copies a byte, or the output suffices.
Nearer(loop, round, total) ==
  round > 0 => \/ loop.blockLen <= loop.random.outputAvailable
               \/ loop.random.outputAvailable > 0 /\ loop.blockLen <= total + 1 - round

LEMMA FewerThanAll ==
  ASSUME NEW L \in Nat, NEW k \in Nat, NEW M \in Nat, NEW P \in Nat, NEW t \in Nat,
         P <= M, t <= L * P, k * L < t
  PROVE  k < M
<1>1. SUFFICES ASSUME k >= M PROVE FALSE
  OBVIOUS
<1>2. PICK e \in Nat : k = P + e
  BY <1>1
<1>3. k * L = L * P + L * e /\ L * e \in Nat /\ L * P \in Nat
  BY <1>2
<1> QED BY <1>3

LEMMA RoundKeeps ==
  ASSUME NEW M \in Nat \ {0}, NEW g, NEW loop, NEW G, NEW c \in Nat, NEW total \in Nat,
         Places(StateLen, M, g), Account(M, g, loop, G, c, total),
         NEW P \in Nat, P <= M, c + total <= DigestLen * P
  PROVE  Account(M, g, Refill(loop), G, c, total)
<1>1. CASE ~(loop.blockLen > loop.random.outputAvailable)
  BY <1>1 DEF Refill
<1>2. CASE loop.blockLen > loop.random.outputAvailable
  <2>1. PICK k : Source(M, g, k, loop.random, G \cup loop.block, c + total - loop.blockLen)
    BY DEF Account
  <2>2. PICK r : r = loop.random
    OBVIOUS
  <2>3. PICK left \in 0..total : left = loop.blockLen
    BY DEF Account
  <2>4. PICK a \in 0..DigestLen : a = r.outputAvailable
    BY <2>1, <2>2 DEF Source
  <2>5. PICK block : block = loop.block
    OBVIOUS
  <2>6. DigestLen \in Nat
    BY ByteFacts
  <2>7. Source(M, g, k, r, G \cup block, c + total - left)
    BY <2>1, <2>2, <2>3, <2>5
  <2>8. a \in 0 .. r.outputAvailable
    BY <2>4, <2>6
  <2>9. PICK q : q = [r EXCEPT !.outputAvailable = @ - a]
    OBVIOUS
  <2>10. Source(M, g, k, q, (G \cup block) \cup Copied(r, a), c + total - left + a)
    BY <2>7, <2>8, <2>9, CopyKeeps
  <2>11. r \in [state : States, output : {NoOutput} \cup States, outputAvailable : 0..DigestLen]
    BY <2>7 DEF Source
  <2>12. q.outputAvailable = 0 /\ q.state = r.state
    BY <2>4, <2>9, <2>11
  <2>13. k \in 0..M /\ c + total - left + a = k * DigestLen
    <3>1. k \in 0..M /\ c + total - left + a + q.outputAvailable = k * DigestLen
      BY <2>10 DEF Source
    <3> QED BY <2>3, <2>4, <2>6, <2>12, <3>1
  <2>14. k < M
    <3>1. left > a
      BY <1>2, <2>2, <2>3, <2>4
    <3>2. PICK t \in Nat : t = c + total
      OBVIOUS
    <3>3. k * DigestLen < t
      BY <2>3, <2>4, <2>6, <2>13, <3>1, <3>2
    <3>4. k \in Nat
      BY <2>13
    <3> QED BY <2>6, <3>2, <3>3, <3>4, FewerThanAll
  <2>15. PICK p : p = [state |-> Increment(q.state), output |-> q.state, outputAvailable |-> DigestLen]
    OBVIOUS
  <2>16. Source(M, g, k + 1, p, (G \cup block) \cup Copied(r, a), c + total - left + a)
    BY <2>10, <2>12, <2>14, <2>15, RefillKeeps
  <2>17. PICK next : next = Refill(loop)
    OBVIOUS
  <2>18. next.random = p /\ next.blockLen = left - a /\ next.block = block \cup Copied(r, a)
    BY <1>2, <2>2, <2>3, <2>4, <2>5, <2>12, <2>15, <2>17 DEF Refill
  <2>19. left - a \in 0..total
    BY <1>2, <2>2, <2>3, <2>4, <2>6
  <2>20. c + total - next.blockLen = c + total - left + a
    BY <2>3, <2>4, <2>6, <2>18
  <2>21. G \cup next.block = (G \cup block) \cup Copied(r, a)
    BY <2>18
  <2>22. Source(M, g, k + 1, next.random, G \cup next.block, c + total - next.blockLen)
    BY <2>16, <2>18, <2>20, <2>21
  <2> QED BY <2>17, <2>18, <2>19, <2>22 DEF Account
<1> QED BY <1>1, <1>2

LEMMA RoundNearer ==
  ASSUME NEW M, NEW g, NEW loop, NEW G, NEW c, NEW total \in Nat,
         Account(M, g, loop, G, c, total), NEW round \in Nat, Nearer(loop, round, total)
  PROVE  Nearer(Refill(loop), round + 1, total)
<1>1. loop.blockLen \in 0..total /\ loop.random.outputAvailable \in 0..DigestLen
  BY DEF Account, Source
<1>2. DigestLen \in Nat \ {0}
  BY ByteFacts
<1>3. CASE loop.blockLen <= loop.random.outputAvailable
  <2>1. Refill(loop) = loop
    BY <1>1, <1>2, <1>3 DEF Refill
  <2> QED BY <1>3, <2>1 DEF Nearer
<1>4. CASE loop.blockLen > loop.random.outputAvailable
  <2>1. PICK next : next = Refill(loop)
    OBVIOUS
  <2>2. next.random.outputAvailable = DigestLen
        /\ next.blockLen = loop.blockLen - loop.random.outputAvailable
    BY <1>4, <2>1 DEF Refill
  <2>3. round = 0 \/ (loop.random.outputAvailable > 0 /\ loop.blockLen <= total + 1 - round)
    BY <1>1, <1>2, <1>4 DEF Nearer
  <2>4. next.blockLen <= total + 1 - (round + 1)
    BY <1>1, <1>2, <2>2, <2>3
  <2> QED BY <1>2, <2>1, <2>2, <2>4 DEF Nearer
<1> QED BY <1>1, <1>2, <1>3, <1>4

\* The rounds, with h for those before.
Rounds(r, blockLen, n, h) ==
  [round \in 0..n |->
     IF round = 0 THEN [random |-> r, blockLen |-> blockLen, block |-> {}]
                  ELSE Refill(h[round - 1])]

LEMMA RoundsExist ==
  ASSUME NEW r, NEW blockLen, NEW n \in Nat
  PROVE  \E h : h = Rounds(r, blockLen, n, h)
<1> DEFINE without == {k \in Nat : ~\E h : h = Rounds(r, blockLen, k, h)}
<1>1. SUFFICES ASSUME without # {} PROVE FALSE
  OBVIOUS
<1>2. without \in SUBSET Nat
  OBVIOUS
<1>3. \E k \in without : \A l \in without : k <= l
  <2> HIDE DEF without
  <2> QED BY <1>1, <1>2, FirstNumber
<1>4. PICK k \in without : \A l \in without : k <= l
  BY <1>3
<1> DEFINE start == [random |-> r, blockLen |-> blockLen, block |-> {}]
<1>5. CASE k = 0
  <2>1. PICK h : h = [round \in 0..0 |-> start]
    OBVIOUS
  <2>2. Rounds(r, blockLen, 0, h) = [round \in 0..0 |-> start]
    <3>1. \A round \in 0..0 : round = 0
      OBVIOUS
    <3> QED BY <3>1 DEF Rounds
  <2>3. h = Rounds(r, blockLen, 0, h)
    BY <2>1, <2>2
  <2> QED BY <1>4, <1>5, <2>3
<1>6. CASE k # 0
  <2>1. PICK m \in Nat : m = k - 1 /\ k = m + 1
    BY <1>6
  <2>2. m \notin without
    BY <1>4, <2>1
  <2>3. PICK h : h = Rounds(r, blockLen, m, h)
    BY <2>2
  <2>4. PICK f : f = [round \in 0..k |-> IF round <= m THEN h[round] ELSE Refill(h[m])]
    OBVIOUS
  <2>5. ASSUME NEW round \in 0..k
        PROVE  f[round] = IF round = 0 THEN start ELSE Refill(f[round - 1])
    <3>1. CASE round <= m
      <4>1. f[round] = h[round] /\ round \in 0..m
        BY <2>1, <2>4, <3>1
      <4>2. h[round] = IF round = 0 THEN start ELSE Refill(h[round - 1])
        BY <2>3, <4>1 DEF Rounds
      <4>3. round # 0 => f[round - 1] = h[round - 1]
        BY <2>1, <2>4, <3>1
      <4> QED BY <4>1, <4>2, <4>3
    <3>2. CASE ~(round <= m)
      <4>1. round = k /\ round # 0 /\ round - 1 = m /\ m \in 0..k
        BY <2>1, <3>2
      <4>2. f[round] = Refill(h[m])
        BY <2>4, <3>2
      <4>3. f[m] = h[m]
        BY <2>4, <4>1
      <4> HIDE DEF start
      <4> QED BY <4>1, <4>2, <4>3
    <3> QED BY <3>1, <3>2
  <2>6. f = [round \in 0..k |-> f[round]]
    BY <2>4
  <2>7. f = Rounds(r, blockLen, k, f)
    BY <2>5, <2>6 DEF Rounds
  <2> QED BY <1>4, <2>7
<1> QED BY <1>5, <1>6

LEMMA GenerateUnfolds ==
  ASSUME NEW r, NEW blockLen, NEW h, h = Rounds(r, blockLen, blockLen + 1, h)
  PROVE  \E f : f = Rounds(r, blockLen, blockLen + 1, f) /\ Generate(r, blockLen) = f[blockLen + 1]
BY Zenon DEF Generate, Rounds

\* What the loop ends with is on the account, and the output suffices for the rest.
LEMMA GenerateKeeps ==
  ASSUME NEW M \in Nat \ {0}, NEW g, NEW k, NEW r, NEW G, NEW c \in Nat, NEW total \in Nat,
         Places(StateLen, M, g), Source(M, g, k, r, G, c),
         NEW P \in Nat, P <= M, c + total <= DigestLen * P
  PROVE  /\ Account(M, g, Generate(r, total), G, c, total)
         /\ Generate(r, total).blockLen <= Generate(r, total).random.outputAvailable
<1>1. \E h : h = Rounds(r, total, total + 1, h)
  <2>1. total + 1 \in Nat
    OBVIOUS
  <2> QED BY <2>1, RoundsExist, Zenon
<1>2. PICK f : f = Rounds(r, total, total + 1, f) /\ Generate(r, total) = f[total + 1]
  BY <1>1, GenerateUnfolds
<1> DEFINE good(i) == Account(M, g, f[i], G, c, total) /\ Nearer(f[i], i, total)
           bad == {i \in Nat : i <= total + 1 /\ ~good(i)}
<1>3. bad = {}
  <2>1. SUFFICES ASSUME bad # {} PROVE FALSE
    OBVIOUS
  <2>2. bad \in SUBSET Nat
    OBVIOUS
  <2>3. \E i \in bad : \A j \in bad : i <= j
    <3> HIDE DEF bad
    <3> QED BY <2>1, <2>2, FirstNumber
  <2>4. PICK i \in bad : \A j \in bad : i <= j
    BY <2>3
  <2>5. i \in 0..total + 1 /\ ~good(i)
    BY <2>4
  <2>6. f[i] = IF i = 0 THEN [random |-> r, blockLen |-> total, block |-> {}] ELSE Refill(f[i - 1])
    BY <1>2, <2>5 DEF Rounds
  <2>7. CASE i = 0
    <3>1. PICK start : start = [random |-> r, blockLen |-> total, block |-> {}]
      OBVIOUS
    <3>2. start.random = r /\ start.blockLen = total /\ start.block = {}
      BY <3>1
    <3>3. G \cup start.block = G /\ c + total - start.blockLen = c
      BY <3>2
    <3>4. Account(M, g, start, G, c, total)
      BY <3>2, <3>3 DEF Account
    <3>5. Nearer(start, 0, total)
      BY DEF Nearer
    <3> QED BY <2>5, <2>6, <2>7, <3>1, <3>4, <3>5
  <2>8. CASE i # 0
    <3>1. PICK j \in Nat : j = i - 1 /\ i = j + 1
      BY <2>5, <2>8
    <3>2. j \notin bad
      BY <2>4, <3>1
    <3>3. Account(M, g, f[j], G, c, total) /\ Nearer(f[j], j, total)
      BY <2>5, <3>1, <3>2
    <3>4. Account(M, g, Refill(f[j]), G, c, total)
      BY <3>3, RoundKeeps
    <3>5. Nearer(Refill(f[j]), j + 1, total)
      BY <3>3, RoundNearer
    <3> QED BY <2>5, <2>6, <2>8, <3>1, <3>4, <3>5
  <2> QED BY <2>7, <2>8
<1>4. Account(M, g, f[total + 1], G, c, total) /\ Nearer(f[total + 1], total + 1, total)
  BY <1>3
<1>5. PICK last : last = f[total + 1]
  OBVIOUS
<1>6. last.blockLen \in 0..total /\ last.random.outputAvailable \in 0..DigestLen
  BY <1>4, <1>5 DEF Account, Source
<1>7. DigestLen \in Nat
  BY ByteFacts
<1>8. last.blockLen <= last.random.outputAvailable
  BY <1>4, <1>5, <1>6, <1>7 DEF Nearer
<1> QED BY <1>2, <1>4, <1>5, <1>8

-----------------------------------------------------------------------------
\* The states have places from the first on; all that was given is on the account.
RandomInv ==
  \E M \in Nat \ {0} : \E g, k :
    /\ Places(StateLen, M, g)
    /\ Cardinality(States) \in Nat /\ Cardinality(States) <= M
    /\ Source(M, g, k, random, given, calls)

LEMMA RandomInitInv == RandomInit => RandomInv
<1> SUFFICES ASSUME RandomInit PROVE RandomInv
  OBVIOUS
<1>1. /\ random \in [state : States, output : {NoOutput}, outputAvailable : {0}]
      /\ given = {} /\ calls = 0
  BY DEF RandomInit, States, Byte
<1>2. random.state \in [1..StateLen -> Byte] /\ random.outputAvailable = 0
  BY <1>1 DEF States
<1>3. \E M \in Nat \ {0} : \E g :
        /\ Places(StateLen, M, g) /\ g[random.state] = 0
        /\ Cardinality(States) \in Nat /\ Cardinality(States) <= M
  BY <1>2, PlacesFrom DEF States
<1>4. PICK M \in Nat \ {0} : \E g :
        /\ Places(StateLen, M, g) /\ g[random.state] = 0
        /\ Cardinality(States) \in Nat /\ Cardinality(States) <= M
  BY <1>3
<1>5. PICK g :
        /\ Places(StateLen, M, g) /\ g[random.state] = 0
        /\ Cardinality(States) \in Nat /\ Cardinality(States) <= M
  BY <1>4
<1>6. DigestLen \in Nat
  BY ByteFacts
<1>7. random \in [state : States, output : {NoOutput} \cup States, outputAvailable : 0..DigestLen]
  BY <1>1, <1>6
<1>8. calls \in Nat /\ calls + random.outputAvailable = 0 * DigestLen
  BY <1>1, <1>2, <1>6
<1>9. IsFiniteSet(given) /\ Cardinality(given) = calls
  BY <1>1, FS_EmptySet
<1>10. Source(M, g, 0, random, given, calls)
  BY ONLY <1>1, <1>2, <1>5, <1>7, <1>8, <1>9, M \in Nat \ {0} DEF Source
<1> QED BY <1>5, <1>10 DEF RandomInv

LEMMA RandomStep ==
  RandomInv /\ [\E blockLen \in Nat : R_GenerateBytes(blockLen)]_randomVars => RandomInv'
<1>1. SUFFICES ASSUME RandomInv, NEW blockLen \in Nat, R_GenerateBytes(blockLen) PROVE RandomInv'
  <2>1. ASSUME RandomInv, UNCHANGED randomVars PROVE RandomInv'
    <3>1. random' = random /\ given' = given /\ calls' = calls
      BY <2>1 DEF randomVars
    <3> QED BY <2>1, <3>1 DEF RandomInv
  <2> QED BY <2>1
<1>2. PICK M \in Nat \ {0} : \E g, k :
        /\ Places(StateLen, M, g)
        /\ Cardinality(States) \in Nat /\ Cardinality(States) <= M
        /\ Source(M, g, k, random, given, calls)
  BY <1>1 DEF RandomInv
<1>3. PICK g, k :
        /\ Places(StateLen, M, g)
        /\ Cardinality(States) \in Nat /\ Cardinality(States) <= M
        /\ Source(M, g, k, random, given, calls)
  BY <1>2
<1>4. PICK last : last = Generate(random, blockLen)
  OBVIOUS
<1>5. /\ calls + blockLen <= PeriodLength
      /\ random' = [last.random EXCEPT !.outputAvailable = @ - last.blockLen]
      /\ given' = given \cup last.block \cup Copied(last.random, last.blockLen)
      /\ calls' = calls + blockLen
  BY <1>1, <1>4 DEF R_GenerateBytes
<1>6. calls \in Nat
  BY <1>3 DEF Source
<1>7. calls + blockLen <= DigestLen * Cardinality(States)
  BY <1>5 DEF PeriodLength, States, Byte
<1>8. Account(M, g, last, given, calls, blockLen) /\ last.blockLen <= last.random.outputAvailable
  BY <1>3, <1>4, <1>6, <1>7, GenerateKeeps
<1>9. PICK j : Source(M, g, j, last.random, given \cup last.block, calls + blockLen - last.blockLen)
  BY <1>8 DEF Account
<1>10. /\ last.blockLen \in 0 .. last.random.outputAvailable
       /\ calls + blockLen - last.blockLen + last.blockLen = calls + blockLen
  <2>1. last.blockLen \in 0..blockLen
    BY <1>8 DEF Account
  <2>2. last.random.outputAvailable \in Nat
    BY <1>9, ByteFacts DEF Source
  <2> QED BY <1>6, <1>8, <2>1, <2>2
<1>11. Source(M, g, j, [last.random EXCEPT !.outputAvailable = @ - last.blockLen],
              (given \cup last.block) \cup Copied(last.random, last.blockLen),
              calls + blockLen - last.blockLen + last.blockLen)
  BY <1>3, <1>9, <1>10, CopyKeeps
<1>12. Source(M, g, j, random', given', calls')
  BY <1>5, <1>10, <1>11
<1> QED BY <1>3, <1>12 DEF RandomInv

\* In a period of the state no byte of a digest is handed out twice.
THEOREM RandomBytesDiffer == RandomSpec => []NoByteTwice
<1>1. RandomInv => NoByteTwice
  BY DEF RandomInv, Source, NoByteTwice
<1> QED BY <1>1, RandomInitInv, RandomStep, PTL DEF RandomSpec

-----------------------------------------------------------------------------
(* MD5: a message in pieces.                                               *)

LEMMA BlockFacts ==
  BlockLen \in Nat \ {0} /\ CountLen \in Nat \ {0} /\ CountLen < BlockLen
BY RandomBytesAssumption

\* Quotient and remainder are the only ones.
LEMMA QuotientIs ==
  ASSUME NEW L \in Nat \ {0}, NEW N \in Nat, NEW q \in Nat, NEW r \in 0 .. L - 1, N = L * q + r
  PROVE  N \div L = q /\ N % L = r
<1>1. N \div L \in Nat /\ N % L \in 0 .. L - 1 /\ N = L * (N \div L) + (N % L)
  OBVIOUS
<1>2. PICK p \in Nat : p = N \div L
  BY <1>1
<1>3. PICK t \in 0 .. L - 1 : t = N % L
  BY <1>1
<1>4. L * p + t = L * q + r
  BY <1>1, <1>2, <1>3
<1>5. p = q /\ t = r
  BY <1>4, PairUnique
<1> QED BY <1>2, <1>3, <1>5

LEMMA QuotientExists ==
  ASSUME NEW N \in Nat
  PROVE  \E q \in Nat, r \in 0 .. BlockLen - 1 : N = BlockLen * q + r
<1>1. PICK L \in Nat \ {0} : L = BlockLen
  BY BlockFacts
<1>2. N \div L \in Nat /\ N % L \in 0 .. L - 1 /\ N = L * (N \div L) + (N % L)
  OBVIOUS
<1> QED BY <1>1, <1>2

\* The part of a sequence from a up to b.
LEMMA CutFacts ==
  ASSUME NEW S, NEW s \in Seq(S), NEW a \in Nat, NEW b \in Nat, a <= b, b <= Len(s)
  PROVE  /\ SubSeq(s, a + 1, b) \in Seq(S)
         /\ Len(SubSeq(s, a + 1, b)) = b - a
         /\ \A i \in 1 .. b - a : SubSeq(s, a + 1, b)[i] = s[a + i]
<1>1. \A i \in a + 1 .. b : s[i] \in S
  OBVIOUS
<1>2. /\ SubSeq(s, a + 1, b) \in Seq(S)
      /\ Len(SubSeq(s, a + 1, b)) = IF a + 1 <= b THEN b - (a + 1) + 1 ELSE 0
      /\ \A i \in 1 .. b - (a + 1) + 1 : SubSeq(s, a + 1, b)[i] = s[a + 1 + i - 1]
  BY <1>1, SubSeqProperties
<1>3. b - (a + 1) + 1 = b - a /\ \A i \in 1 .. b - a : a + 1 + i - 1 = a + i
  OBVIOUS
<1>4. a + 1 <= b \/ b - a = 0
  OBVIOUS
<1> QED BY <1>2, <1>3, <1>4

\* The parts of a message that goes on.
LEMMA CutBefore ==
  ASSUME NEW S, NEW m \in Seq(S), NEW x \in Seq(S), NEW a \in Nat, NEW b \in Nat,
         a <= b, b <= Len(m)
  PROVE  SubSeq(m \o x, a + 1, b) = SubSeq(m, a + 1, b)
<1>1. /\ m \o x \in Seq(S) /\ Len(m \o x) = Len(m) + Len(x)
      /\ \A i \in 1..Len(m) : (m \o x)[i] = m[i]
  OBVIOUS
<1>2. PICK n \in Nat : n = Len(m)
  OBVIOUS
<1>3. Len(x) \in Nat
  OBVIOUS
<1>4. PICK s : s = SubSeq(m \o x, a + 1, b)
  OBVIOUS
<1>5. PICK t : t = SubSeq(m, a + 1, b)
  OBVIOUS
<1>6. b <= Len(m \o x)
  BY <1>1, <1>2, <1>3
<1>7. s \in Seq(S) /\ Len(s) = b - a /\ \A i \in 1 .. b - a : s[i] = (m \o x)[a + i]
  BY <1>1, <1>4, <1>6, CutFacts
<1>8. t \in Seq(S) /\ Len(t) = b - a /\ \A i \in 1 .. b - a : t[i] = m[a + i]
  BY <1>5, CutFacts
<1>9. \A i \in 1 .. b - a : a + i \in 1..Len(m)
  BY <1>2
<1>10. \A i \in 1 .. b - a : s[i] = t[i]
  BY <1>1, <1>7, <1>8, <1>9
<1>11. s = t
  BY <1>7, <1>8, <1>10, SeqEqual
<1> QED BY <1>4, <1>5, <1>11

LEMMA CutAfter ==
  ASSUME NEW S, NEW m \in Seq(S), NEW x \in Seq(S), NEW a \in Nat, NEW b \in Nat,
         a <= b, b <= Len(x)
  PROVE  SubSeq(m \o x, Len(m) + a + 1, Len(m) + b) = SubSeq(x, a + 1, b)
<1>1. PICK n \in Nat : n = Len(m)
  OBVIOUS
<1>2. /\ m \o x \in Seq(S) /\ Len(m \o x) = n + Len(x)
      /\ \A i \in 1..Len(x) : (m \o x)[n + i] = x[i]
  BY <1>1
<1>4. PICK s : s = SubSeq(m \o x, n + a + 1, n + b)
  OBVIOUS
<1>5. PICK t : t = SubSeq(x, a + 1, b)
  OBVIOUS
<1>6. PICK c \in Nat, d \in Nat : c = n + a /\ d = n + b
  OBVIOUS
<1>7. s = SubSeq(m \o x, c + 1, d) /\ c <= d /\ d <= Len(m \o x) /\ d - c = b - a
  BY <1>2, <1>4, <1>6, SMTT(30)
<1>8. s \in Seq(S) /\ Len(s) = b - a /\ \A i \in 1 .. b - a : s[i] = (m \o x)[c + i]
  BY <1>2, <1>7, CutFacts, SMTT(30)
<1>9. t \in Seq(S) /\ Len(t) = b - a /\ \A i \in 1 .. b - a : t[i] = x[a + i]
  BY <1>5, CutFacts
<1>10. ASSUME NEW i \in 1 .. b - a PROVE s[i] = t[i]
  <2>1. a + i \in 1..Len(x) /\ c + i = n + (a + i)
    BY <1>6
  <2>2. (m \o x)[n + (a + i)] = x[a + i]
    BY <1>2, <2>1
  <2> QED BY <1>8, <1>9, <2>1, <2>2
<1>11. s = t
  BY <1>8, <1>9, <1>10, SeqEqual
<1> QED BY <1>1, <1>4, <1>5, <1>11

LEMMA CutAcross ==
  ASSUME NEW S, NEW m \in Seq(S), NEW x \in Seq(S), NEW a \in Nat, NEW b \in Nat,
         a <= Len(m), b <= Len(x)
  PROVE  SubSeq(m \o x, a + 1, Len(m) + b) = SubSeq(m, a + 1, Len(m)) \o SubSeq(x, 1, b)
<1>1. PICK n \in Nat : n = Len(m)
  OBVIOUS
<1>2. PICK y : y = m \o x
  OBVIOUS
<1>3. /\ y \in Seq(S) /\ Len(y) = n + Len(x)
      /\ \A i \in 1..n : y[i] = m[i]
      /\ \A i \in 1..Len(x) : y[n + i] = x[i]
  BY <1>1, <1>2
<1>4. PICK d \in Nat : d = n + b
  OBVIOUS
<1>5. PICK s : s = SubSeq(y, a + 1, d)
  OBVIOUS
<1>6. PICK u : u = SubSeq(m, a + 1, n)
  OBVIOUS
<1>7. PICK v : v = SubSeq(x, 0 + 1, b)
  OBVIOUS
<1>8. s \in Seq(S) /\ Len(s) = d - a /\ \A i \in 1 .. d - a : s[i] = y[a + i]
  <2>1. a <= d /\ d <= Len(y)
    BY <1>1, <1>3, <1>4
  <2> QED BY <1>3, <1>5, <2>1, CutFacts
<1>9. u \in Seq(S) /\ Len(u) = n - a /\ \A i \in 1 .. n - a : u[i] = m[a + i]
  BY <1>1, <1>6, CutFacts
<1>10. v \in Seq(S) /\ Len(v) = b /\ \A i \in 1..b : v[i] = x[i]
  <2>1. v \in Seq(S) /\ Len(v) = b - 0 /\ \A i \in 1 .. b - 0 : v[i] = x[0 + i]
    BY <1>7, CutFacts
  <2> QED BY <2>1
<1>11. PICK t : t = u \o v
  OBVIOUS
<1>12. /\ t \in Seq(S) /\ Len(t) = (n - a) + b
       /\ \A i \in 1 .. (n - a) + b : t[i] = IF i <= n - a THEN u[i] ELSE v[i - (n - a)]
  <2>1. t \in Seq(S) /\ Len(t) = Len(u) + Len(v)
        /\ \A i \in 1 .. Len(u) + Len(v) : t[i] = IF i <= Len(u) THEN u[i] ELSE v[i - Len(u)]
    BY <1>9, <1>10, <1>11, ConcatProperties
  <2> QED BY <1>9, <1>10, <2>1
<1>13. ASSUME NEW i \in 1 .. d - a PROVE s[i] = t[i]
  <2>1. CASE i <= n - a
    <3>1. t[i] = u[i] /\ i \in 1 .. n - a /\ a + i \in 1..n
      BY <1>1, <1>4, <1>12, <2>1
    <3> QED BY <1>3, <1>8, <1>9, <3>1
  <2>2. CASE ~(i <= n - a)
    <3>1. PICK j \in 1..b : j = i - (n - a) /\ a + i = n + j
      BY <1>1, <1>4, <2>2
    <3>2. t[i] = v[j]
      BY <1>1, <1>4, <1>12, <2>2, <3>1
    <3>3. y[n + j] = x[j]
      <4>1. j \in 1..Len(x)
        BY <3>1
      <4> QED BY ONLY <1>3, <4>1, Zenon
    <3> QED BY <1>8, <1>10, <3>1, <3>2, <3>3
  <2> QED BY <2>1, <2>2
<1>14. d - a = (n - a) + b
  BY <1>1, <1>4
<1>15. s = t
  BY <1>8, <1>12, <1>13, <1>14, SeqEqual
<1>16. v = SubSeq(x, 1, b)
  BY <1>7
<1> QED BY <1>1, <1>2, <1>4, <1>5, <1>6, <1>11, <1>15, <1>16

\* The same for a message y of two parts, with names for the places.
Joins(S, m, x, y) == m \in Seq(S) /\ x \in Seq(S) /\ y = m \o x
CutOfRest(x, y, a, b, c, d) == SubSeq(y, c + 1, d) = SubSeq(x, a + 1, b)
CutOfBoth(m, x, y, a, b, d) == SubSeq(y, a + 1, d) = SubSeq(m, a + 1, Len(m)) \o SubSeq(x, 1, b)

LEMMA CutRest ==
  ASSUME NEW S, NEW m, NEW x, NEW y, Joins(S, m, x, y), NEW a \in Nat, NEW b \in Nat,
         a <= b, b <= Len(x), NEW c, c = Len(m) + a, NEW d, d = Len(m) + b
  PROVE  CutOfRest(x, y, a, b, c, d)
<1>1. SubSeq(m \o x, Len(m) + a + 1, Len(m) + b) = SubSeq(x, a + 1, b)
  BY CutAfter DEF Joins
<1> QED BY <1>1 DEF CutOfRest, Joins

LEMMA CutBoth ==
  ASSUME NEW S, NEW m, NEW x, NEW y, Joins(S, m, x, y), NEW a \in Nat, NEW b \in Nat,
         a <= Len(m), b <= Len(x), NEW d, d = Len(m) + b
  PROVE  CutOfBoth(m, x, y, a, b, d)
<1>1. SubSeq(m \o x, a + 1, Len(m) + b) = SubSeq(m, a + 1, Len(m)) \o SubSeq(x, 1, b)
  BY CutAcross DEF Joins
<1> QED BY <1>1 DEF CutOfBoth, Joins

\* What the context is after a message, however it came.
BlockAt(m, k) == SubSeq(m, (k - 1) * BlockLen + 1, k * BlockLen)

CutOfBlock(m, k, u, v) == BlockAt(m, k) = SubSeq(m, u + 1, v)

LEMMA BlockIsCut ==
  ASSUME NEW m, NEW k, NEW u, u = (k - 1) * BlockLen, NEW v, v = k * BlockLen
  PROVE  CutOfBlock(m, k, u, v)
BY DEF BlockAt, CutOfBlock

Blocks(m) == [k \in 1 .. Len(m) \div BlockLen |-> BlockAt(m, k)]
Context(m) ==
  [count |-> Len(m), buffer |-> SubSeq(m, (Len(m) \div BlockLen) * BlockLen + 1, Len(m)),
   state |-> Blocks(m)]

\* The same with the whole blocks and the rest as numbers.
LEMMA ContextIs ==
  ASSUME NEW S, NEW m \in Seq(S), NEW q \in Nat, NEW d \in 0 .. BlockLen - 1,
         Len(m) = BlockLen * q + d
  PROVE  /\ Context(m).count = Len(m) /\ Len(m) % BlockLen = d
         /\ Context(m).buffer = SubSeq(m, q * BlockLen + 1, Len(m))
         /\ Context(m).state = [k \in 1..q |-> BlockAt(m, k)]
<1>1. Len(m) \div BlockLen = q /\ Len(m) % BlockLen = d
  <2>1. PICK n \in Nat : n = Len(m)
    OBVIOUS
  <2> QED BY <2>1, BlockFacts, QuotientIs
<1> QED BY <1>1 DEF Context, Blocks

\* Blocks of a message stay what they are when it goes on.
LEMMA BlocksStay ==
  ASSUME NEW S, NEW m \in Seq(S), NEW x \in Seq(S), NEW k \in Nat \ {0}, k * BlockLen <= Len(m)
  PROVE  BlockAt(m \o x, k) = BlockAt(m, k)
<1>1. PICK a \in Nat : a = (k - 1) * BlockLen
  BY BlockFacts
<1>2. PICK b \in Nat : b = k * BlockLen
  BY BlockFacts
<1>3. b = a + BlockLen
  BY <1>1, <1>2, BlockFacts
<1>4. a <= b /\ b <= Len(m)
  BY <1>2, <1>3, BlockFacts
<1>5. SubSeq(m \o x, a + 1, b) = SubSeq(m, a + 1, b)
  BY <1>4, CutBefore
<1> QED BY <1>1, <1>2, <1>5 DEF BlockAt

\* The first k of q blocks end where the q-th ends at the latest.
LEMMA BlocksFit ==
  ASSUME NEW q \in Nat, NEW k \in 1..q
  PROVE  k * BlockLen <= q * BlockLen
<1>1. PICK e \in Nat : q = k + e
  OBVIOUS
<1>2. q * BlockLen = k * BlockLen + e * BlockLen /\ e * BlockLen \in Nat /\ k * BlockLen \in Nat
  BY <1>1, BlockFacts
<1> QED BY <1>2

LEMMA UpdateShort ==
  ASSUME NEW S, NEW m \in Seq(S), NEW x \in Seq(S), NEW q \in Nat, NEW d \in 0 .. BlockLen - 1,
         Len(m) = BlockLen * q + d, Len(x) < BlockLen - d
  PROVE  MD5Update(Context(m), x) = Context(m \o x)
<1>1. PICK c : c = Context(m)
  OBVIOUS
<1>2. /\ c.count = Len(m) /\ Len(m) % BlockLen = d
      /\ c.buffer = SubSeq(m, q * BlockLen + 1, Len(m))
      /\ c.state = [k \in 1..q |-> BlockAt(m, k)]
  BY <1>1, ContextIs
<1>3. PICK n \in Nat, l \in Nat : n = Len(m) /\ l = Len(x)
  OBVIOUS
<1>4. PICK y \in Seq(S) : y = m \o x
  BY ConcatProperties
<1>j. Joins(S, m, x, y)
  BY <1>4 DEF Joins
<1>5. Len(y) = n + l
  BY <1>3, <1>4, ConcatProperties
<1>6. PICK a \in Nat : a = q * BlockLen
  BY BlockFacts
<1>7. n = a + d /\ d + l \in 0 .. BlockLen - 1
  BY <1>3, <1>6, BlockFacts
<1>8. Len(y) = BlockLen * q + (d + l)
  BY <1>3, <1>5, BlockFacts
<1>9. Context(y) = [count |-> Len(y), buffer |-> SubSeq(y, a + 1, Len(y)),
                    state |-> [k \in 1..q |-> BlockAt(y, k)]]
  <2>1. Len(y) \div BlockLen = q
    <3>1. PICK z \in Nat : z = Len(y)
      OBVIOUS
    <3> QED BY <1>7, <1>8, <3>1, BlockFacts, QuotientIs
  <2> QED BY <1>6, <2>1 DEF Context, Blocks
<1>10. MD5Update(c, x) = [count |-> n + l, buffer |-> c.buffer \o x, state |-> c.state]
  <2>1. c.count % BlockLen = d /\ ~(Len(x) >= BlockLen - d) /\ c.count = n
    BY <1>2, <1>3, BlockFacts
  <2> QED BY <1>3, <2>1 DEF MD5Update
<1>11. SubSeq(y, a + 1, Len(y)) = c.buffer \o x
  <2>1. SubSeq(y, a + 1, n + l) = SubSeq(m, a + 1, n) \o SubSeq(x, 1, l)
    <3>1. a <= Len(m) /\ l <= Len(x)
      BY <1>3, <1>7
    <3>2. PICK v : v = Len(m) + l
      OBVIOUS
    <3>3. CutOfBoth(m, x, y, a, l, v)
      BY <1>j, <3>1, <3>2, CutBoth
    <3> QED BY <1>3, <3>2, <3>3 DEF CutOfBoth
  <2>2. SubSeq(x, 1, l) = x
    BY <1>3, SubSeqFull
  <2> QED BY <1>2, <1>3, <1>5, <1>6, <2>1, <2>2
<1>12. [k \in 1..q |-> BlockAt(y, k)] = c.state
  <2>1. ASSUME NEW k \in 1..q PROVE BlockAt(y, k) = BlockAt(m, k)
    <3>1. k * BlockLen <= a
      BY <1>6, BlocksFit
    <3>2. k * BlockLen <= Len(m) /\ k \in Nat \ {0}
      <4>1. k * BlockLen \in Nat
        BY BlockFacts
      <4> QED BY <1>3, <1>7, <3>1, <4>1
    <3> QED BY <1>4, <3>2, BlocksStay
  <2> QED BY <1>2, <2>1
<1> QED BY <1>1, <1>4, <1>5, <1>9, <1>10, <1>11, <1>12

LEMMA UpdateLong ==
  ASSUME NEW S, NEW m \in Seq(S), NEW x \in Seq(S), NEW q \in Nat, NEW d \in 0 .. BlockLen - 1,
         Len(m) = BlockLen * q + d, NEW w \in Nat, NEW e \in 0 .. BlockLen - 1,
         Len(x) = (BlockLen - d) + (BlockLen * w + e)
  PROVE  MD5Update(Context(m), x) = Context(m \o x)
<1>1. PICK c : c = Context(m)
  OBVIOUS
<1>2. /\ c.count = Len(m) /\ Len(m) % BlockLen = d
      /\ c.buffer = SubSeq(m, q * BlockLen + 1, Len(m))
      /\ c.state = [k \in 1..q |-> BlockAt(m, k)]
  BY <1>1, ContextIs
<1>3. PICK n \in Nat, l \in Nat : n = Len(m) /\ l = Len(x)
  OBVIOUS
<1>4. PICK y \in Seq(S) : y = m \o x
  BY ConcatProperties
<1>j. Joins(S, m, x, y)
  BY <1>4 DEF Joins
<1>5. Len(y) = n + l
  BY <1>3, <1>4, ConcatProperties
<1>6. PICK a \in Nat : a = q * BlockLen
  BY BlockFacts
<1>7. PICK p \in 1..BlockLen : p = BlockLen - d
  BY BlockFacts
<1>8. PICK r \in Nat : r = w * BlockLen
  BY BlockFacts
<1>9. n = a + d /\ l = p + r + e /\ n + p = a + BlockLen
  BY <1>3, <1>6, <1>7, <1>8, BlockFacts
<1>10. (l - p) \div BlockLen = w
  <2>1. PICK z \in Nat : z = l - p
    BY <1>9, BlockFacts
  <2>2. z = BlockLen * w + e
    BY <1>8, <1>9, <2>1, BlockFacts
  <2> QED BY <2>1, <2>2, BlockFacts, QuotientIs
<1>11. PICK t \in Nat : t = q + 1 + w
  OBVIOUS
<1>12. t * BlockLen = a + BlockLen + r /\ t * BlockLen \in Nat
  BY <1>6, <1>8, <1>11, BlockFacts
<1>13. Len(y) \div BlockLen = t
  <2>1. PICK z \in Nat : z = Len(y)
    OBVIOUS
  <2>2. z = BlockLen * t + e
    BY <1>5, <1>7, <1>9, <1>12, <2>1, BlockFacts
  <2> QED BY <2>1, <2>2, BlockFacts, QuotientIs
<1>14. Context(y) = [count |-> Len(y), buffer |-> SubSeq(y, t * BlockLen + 1, Len(y)),
                     state |-> [k \in 1..t |-> BlockAt(y, k)]]
  BY <1>13 DEF Context, Blocks
<1> DEFINE Piece(k) == SubSeq(x, p + (k - 1) * BlockLen + 1, p + k * BlockLen)
           filled == Append(c.state, c.buffer \o SubSeq(x, 1, p))
<1>15. MD5Update(c, x) = [count |-> n + l, buffer |-> SubSeq(x, p + w * BlockLen + 1, l),
                          state |-> filled \o [k \in 1..w |-> Piece(k)]]
  <2>1. c.count % BlockLen = d /\ c.count = n
    BY <1>2, <1>3
  <2>2. Len(x) >= BlockLen - d
    BY <1>3, <1>7, <1>9, SMTT(30)
  <2> QED BY <1>3, <1>7, <1>10, <2>1, <2>2 DEF MD5Update, MD5Transform
<1>16. SubSeq(y, t * BlockLen + 1, Len(y)) = SubSeq(x, p + w * BlockLen + 1, l)
  <2>1. PICK b \in Nat : b = p + r
    OBVIOUS
  <2>2. b <= l /\ l <= Len(x)
    BY <1>3, <1>9, <2>1
  <2>3. SubSeq(y, Len(m) + b + 1, Len(m) + l) = SubSeq(x, b + 1, l)
    <3>1. PICK u, v : u = Len(m) + b /\ v = Len(m) + l
      OBVIOUS
    <3>2. CutOfRest(x, y, b, l, u, v)
      BY <1>j, <2>2, <3>1, CutRest
    <3> QED BY <3>1, <3>2 DEF CutOfRest
  <2>4. Len(m) + b = t * BlockLen /\ Len(m) + l = Len(y) /\ p + w * BlockLen = b
    BY <1>3, <1>5, <1>8, <1>9, <1>12, <2>1, BlockFacts
  <2> QED BY <2>3, <2>4
<1>17. ASSUME NEW k \in 1..q PROVE BlockAt(y, k) = BlockAt(m, k)
  <2>1. k * BlockLen <= a
    BY <1>6, BlocksFit
  <2>2. k * BlockLen <= Len(m) /\ k \in Nat \ {0}
    <3>1. k * BlockLen \in Nat
      BY BlockFacts
    <3> QED BY <1>3, <1>9, <2>1, <3>1
  <2> QED BY <1>4, <2>2, BlocksStay
<1>18. BlockAt(y, q + 1) = c.buffer \o SubSeq(x, 1, p)
  <2>1. a <= Len(m) /\ p <= Len(x) /\ p \in Nat
    BY <1>3, <1>7, <1>9, BlockFacts
  <2>2. SubSeq(y, a + 1, Len(m) + p) = SubSeq(m, a + 1, Len(m)) \o SubSeq(x, 1, p)
    <3>1. PICK v : v = Len(m) + p
      OBVIOUS
    <3>2. CutOfBoth(m, x, y, a, p, v)
      BY <1>j, <2>1, <3>1, CutBoth
    <3> QED BY <3>1, <3>2 DEF CutOfBoth
  <2>3. (q + 1 - 1) * BlockLen = a /\ (q + 1) * BlockLen = Len(m) + p
    BY <1>3, <1>6, <1>9, BlockFacts
  <2>4. BlockAt(y, q + 1) = SubSeq(y, a + 1, Len(m) + p)
    <3>1. PICK k, v : k = q + 1 /\ v = Len(m) + p
      OBVIOUS
    <3>2. a = (k - 1) * BlockLen /\ v = k * BlockLen
      BY <2>3, <3>1
    <3>3. CutOfBlock(y, k, a, v)
      BY ONLY <3>2, BlockIsCut
    <3> QED BY <3>1, <3>3 DEF CutOfBlock
  <2> QED BY <1>2, <1>6, <2>2, <2>4
<1>19. ASSUME NEW k \in 1..w PROVE BlockAt(y, q + 1 + k) = Piece(k)
  <2>1. PICK u \in Nat : u = (k - 1) * BlockLen
    BY BlockFacts
  <2>2. PICK v \in Nat : v = k * BlockLen
    BY BlockFacts
  <2>3. v = u + BlockLen /\ v <= r
    BY <1>8, <2>1, <2>2, BlockFacts, BlocksFit
  <2>4. PICK b \in Nat, f \in Nat : b = p + u /\ f = p + v
    BY <1>7, SMTT(30)
  <2>5. b <= f /\ f <= Len(x)
    BY <1>3, <1>9, <2>3, <2>4, BlockFacts
  <2>6. SubSeq(y, Len(m) + b + 1, Len(m) + f) = SubSeq(x, b + 1, f)
    <3>1. PICK g, h : g = Len(m) + b /\ h = Len(m) + f
      OBVIOUS
    <3>2. CutOfRest(x, y, b, f, g, h)
      BY <1>j, <2>5, <3>1, CutRest
    <3> QED BY <3>1, <3>2 DEF CutOfRest
  <2>7. (q + 1 + k - 1) * BlockLen = Len(m) + b
    <3>1. (q + 1 + k - 1) * BlockLen = a + BlockLen + u
      BY <1>6, <2>1, BlockFacts
    <3> QED BY <1>3, <1>9, <2>4, <3>1, BlockFacts
  <2>8. (q + 1 + k) * BlockLen = Len(m) + f
    <3>1. (q + 1 + k) * BlockLen = a + BlockLen + v
      BY <1>6, <2>2, BlockFacts
    <3> QED BY <1>3, <1>9, <2>4, <3>1, BlockFacts
  <2>9. BlockAt(y, q + 1 + k) = SubSeq(y, Len(m) + b + 1, Len(m) + f)
    <3>1. PICK j, g, h : j = q + 1 + k /\ g = Len(m) + b /\ h = Len(m) + f
      OBVIOUS
    <3>2. g = (j - 1) * BlockLen /\ h = j * BlockLen
      BY <2>7, <2>8, <3>1
    <3>3. CutOfBlock(y, j, g, h)
      BY ONLY <3>2, BlockIsCut
    <3> QED BY <3>1, <3>3 DEF CutOfBlock
  <2> QED BY <2>1, <2>2, <2>4, <2>6, <2>9
<1> HIDE DEF Piece
<1>20. filled \o [k \in 1..w |-> Piece(k)] = [k \in 1..t |-> BlockAt(y, k)]
  <2>1. PICK B : B = [k \in 1..t |-> BlockAt(y, k)]
    OBVIOUS
  <2>2. PICK T : T = {BlockAt(y, k) : k \in 1..t}
    OBVIOUS
  <2>3. \A k \in 1..t : B[k] \in T
    BY <2>1, <2>2
  <2>4. B \in Seq(T) /\ Len(B) = t
    BY <2>1, <2>3
  <2>5. PICK A : A = c.state
    OBVIOUS
  <2>6. A \in Seq(T) /\ Len(A) = q /\ \A k \in 1..q : A[k] = B[k]
    <3>1. \A k \in 1..q : k \in 1..t
      BY <1>11
    <3>2. \A k \in 1..q : BlockAt(m, k) = B[k] /\ BlockAt(m, k) \in T
      BY <1>17, <2>1, <2>3, <3>1
    <3> QED BY <1>2, <2>5, <3>2
  <2>7. PICK o : o = c.buffer \o SubSeq(x, 1, p)
    OBVIOUS
  <2>8. q + 1 \in 1..t /\ o = B[q + 1] /\ o \in T
    <3>1. q + 1 \in 1..t
      BY <1>11
    <3> QED BY <1>18, <2>1, <2>3, <2>7, <3>1
  <2>9. PICK F : F = Append(A, o)
    OBVIOUS
  <2>10. F \in Seq(T) /\ Len(F) = q + 1 /\ \A k \in 1 .. q + 1 : F[k] = B[k]
    BY <2>6, <2>8, <2>9, SMTT(30)
  <2>11. PICK R : R = [k \in 1..w |-> Piece(k)]
    OBVIOUS
  <2>12. R \in Seq(T) /\ Len(R) = w /\ \A k \in 1..w : R[k] = B[q + 1 + k]
    <3>1. \A k \in 1..w : q + 1 + k \in 1..t
      BY <1>11
    <3>2. \A k \in 1..w : Piece(k) = B[q + 1 + k] /\ Piece(k) \in T
      BY <1>19, <2>1, <2>3, <3>1
    <3> QED BY <2>11, <3>2
  <2>13. PICK C : C = F \o R
    OBVIOUS
  <2>14. /\ C \in Seq(T) /\ Len(C) = (q + 1) + w
         /\ \A k \in 1 .. (q + 1) + w : C[k] = IF k <= q + 1 THEN F[k] ELSE R[k - (q + 1)]
    <3>1. /\ C \in Seq(T) /\ Len(C) = Len(F) + Len(R)
          /\ \A k \in 1 .. Len(F) + Len(R) : C[k] = IF k <= Len(F) THEN F[k] ELSE R[k - Len(F)]
      BY <2>10, <2>12, <2>13, ConcatProperties
    <3> QED BY <2>10, <2>12, <3>1
  <2>15. ASSUME NEW k \in 1..t PROVE C[k] = B[k]
    <3>1. CASE k <= q + 1
      BY <1>11, <2>10, <2>14, <3>1
    <3>2. CASE ~(k <= q + 1)
      <4>1. PICK j \in 1..w : j = k - (q + 1) /\ k = q + 1 + j
        BY <1>11, <3>2
      <4> QED BY <1>11, <2>12, <2>14, <3>2, <4>1
    <3> QED BY <3>1, <3>2
  <2>16. C = B
    BY <1>11, <2>4, <2>14, <2>15, SeqEqual
  <2> QED BY <2>1, <2>5, <2>7, <2>9, <2>11, <2>13, <2>16
<1> QED BY <1>1, <1>4, <1>5, <1>14, <1>15, <1>16, <1>20

\* The context is that of the message, whatever the pieces it came in.
LEMMA UpdateTakesIn ==
  ASSUME NEW S, NEW m \in Seq(S), NEW x \in Seq(S)
  PROVE  MD5Update(Context(m), x) = Context(m \o x)
<1>1. PICK n \in Nat, l \in Nat : n = Len(m) /\ l = Len(x)
  OBVIOUS
<1>2. PICK q \in Nat, d \in 0 .. BlockLen - 1 : n = BlockLen * q + d
  BY QuotientExists
<1>3. CASE l < BlockLen - d
  BY <1>1, <1>2, <1>3, UpdateShort
<1>4. CASE l >= BlockLen - d
  <2>1. PICK r \in Nat : l = (BlockLen - d) + r
    BY <1>4, BlockFacts
  <2>2. PICK w \in Nat, e \in 0 .. BlockLen - 1 : r = BlockLen * w + e
    BY QuotientExists
  <2> QED BY <1>1, <1>2, <2>1, <2>2, UpdateLong
<1> QED BY <1>3, <1>4, BlockFacts

\* The padding that closes a message after n bytes, of which d are past a whole block.
PadLength(d) == IF d < BlockLen - CountLen THEN BlockLen - CountLen - d ELSE 2 * BlockLen - CountLen - d

\* It is the only one up to a block that fills a block.
LEMMA PadLengthIs ==
  ASSUME NEW q \in Nat, NEW d \in 0 .. BlockLen - 1, NEW n \in Nat, n = BlockLen * q + d
  PROVE  /\ PadLength(d) \in 1..BlockLen
         /\ (CHOOSE z \in 1..BlockLen : (n + z + CountLen) % BlockLen = 0) = PadLength(d)
<1>1. PICK L \in Nat \ {0}, C \in Nat \ {0} : L = BlockLen /\ C = CountLen /\ C < L
  BY BlockFacts
<1>2. PICK p : p = PadLength(d)
  OBVIOUS
<1>3. p \in 1..L /\ (d + p + C = L \/ d + p + C = 2 * L)
  BY <1>1, <1>2 DEF PadLength
<1>4. PICK j \in Nat : n + p + C = L * j + 0
  <2>1. CASE d + p + C = L
    <3>1. PICK j \in Nat : j = q + 1
      OBVIOUS
    <3>2. n + p + C = L * j + 0
      BY <1>1, <1>3, <2>1, <3>1
    <3> QED BY <3>2
  <2>2. CASE d + p + C = 2 * L
    <3>1. PICK j \in Nat : j = q + 2
      OBVIOUS
    <3>2. n + p + C = L * j + 0
      BY <1>1, <1>3, <2>2, <3>1
    <3> QED BY <3>2
  <2> QED BY <1>3, <2>1, <2>2
<1>5. (n + p + C) % L = 0
  <2>1. PICK N \in Nat : N = n + p + C
    BY <1>1, <1>3
  <2>2. N = L * j + 0 /\ 0 \in 0 .. L - 1
    BY <1>4, <2>1
  <2>3. N % L = 0
    BY <2>2, QuotientIs
  <2> QED BY <2>1, <2>3
<1>6. ASSUME NEW z \in 1..L, (n + z + C) % L = 0 PROVE z = p
  <2>1. PICK N \in Nat : N = n + z + C
    BY <1>1
  <2>2. PICK i \in Nat, e \in 0 .. L - 1 : N = L * i + e
    BY <1>1, QuotientExists
  <2>3. e = 0
    <3>1. N % L = e
      BY <1>1, <2>2, QuotientIs
    <3> QED BY <1>6, <2>1, <3>1
  <2>4. PICK a \in 0 .. L - 1, b \in 0 .. L - 1 : a = p - 1 /\ b = z - 1
    BY <1>1, <1>3
  <2>5. L * i + a = L * j + b
    BY <1>1, <1>3, <1>4, <2>1, <2>2, <2>3, <2>4
  <2>6. a = b
    BY <1>1, <2>5, PairUnique
  <2> QED BY <1>3, <2>4, <2>6
<1> DEFINE Fills(z) == (n + z + CountLen) % BlockLen = 0
<1>7. p \in 1..BlockLen /\ Fills(p) /\ \A z \in 1..BlockLen : Fills(z) => z = p
  BY <1>1, <1>3, <1>5, <1>6
<1> HIDE DEF Fills
<1>8. (CHOOSE z \in 1..BlockLen : Fills(z)) = p
  BY <1>7
<1> QED BY <1>2, <1>7, <1>8 DEF Fills

-----------------------------------------------------------------------------
\* The bytes of a message, of the padding and of the length.
MessageBytes == ({"byte"} \X Nat) \cup ({"padding"} \X {0, 128}) \cup ({"count"} \X Nat \X (1..CountLen))

\* The context has taken in the message.
DigestInv == message \in Seq({"byte"} \X Nat) /\ md5 = Context(message)

LEMMA DigestInitInv == DigestInit => DigestInv
<1> SUFFICES ASSUME DigestInit PROVE DigestInv
  OBVIOUS
<1>1. message = <<>> /\ md5 = [count |-> 0, buffer |-> <<>>, state |-> <<>>]
  BY DEF DigestInit, MD5Init
<1>2. message \in Seq({"byte"} \X Nat) /\ Len(message) = BlockLen * 0 + 0 /\ 0 \in 0 .. BlockLen - 1
  BY <1>1, BlockFacts
<1>3. Len(message) = 0 /\ 0 \div BlockLen = 0
  BY <1>1, BlockFacts, QuotientIs
<1>4. SubSeq(message, 0 * BlockLen + 1, 0) = <<>>
  BY BlockFacts, SubSeqEmpty
<1>5. Context(message) = [count |-> 0, buffer |-> <<>>, state |-> [k \in 1..0 |-> BlockAt(message, k)]]
  BY <1>3, <1>4 DEF Context, Blocks
<1>6. [k \in 1..0 |-> BlockAt(message, k)] = <<>>
  OBVIOUS
<1> QED BY <1>1, <1>2, <1>5, <1>6 DEF DigestInv

LEMMA DigestStep ==
  DigestInv /\ [\E piece \in Seq({"byte"} \X Nat) : TakeIn(piece)]_digestVars => DigestInv'
<1>1. ASSUME DigestInv, NEW piece \in Seq({"byte"} \X Nat), TakeIn(piece) PROVE DigestInv'
  <2>1. md5' = MD5Update(Context(message), piece) /\ message' = message \o piece
    BY <1>1 DEF DigestInv, TakeIn
  <2>2. message \in Seq({"byte"} \X Nat)
    BY <1>1 DEF DigestInv
  <2>3. md5' = Context(message \o piece) /\ message \o piece \in Seq({"byte"} \X Nat)
    BY <2>1, <2>2, UpdateTakesIn, ConcatProperties
  <2>4. md5' = Context(message')
    BY <2>1, <2>3
  <2> QED BY <2>1, <2>3, <2>4 DEF DigestInv
<1>2. ASSUME DigestInv, UNCHANGED digestVars PROVE DigestInv'
  <2>1. md5' = md5 /\ message' = message
    BY <1>2 DEF digestVars
  <2> QED BY <1>2, <2>1 DEF DigestInv
<1> QED BY <1>1, <1>2

LEMMA DigestOfAll ==
  ASSUME NEW m \in Seq({"byte"} \X Nat)
  PROVE  MD5Final(Context(m)) = Padded(m)
<1>1. PICK n \in Nat : n = Len(m)
  OBVIOUS
<1>2. PICK q \in Nat, d \in 0 .. BlockLen - 1 : n = BlockLen * q + d
  BY QuotientExists
<1>3. Context(m).count = n /\ n % BlockLen = d
  <2>1. Len(m) = BlockLen * q + d
    BY <1>1, <1>2
  <2>2. Context(m).count = Len(m) /\ Len(m) % BlockLen = d
    BY <2>1, ContextIs, Zenon
  <2> QED BY <1>1, <2>2
<1>4. PICK p \in 1..BlockLen : p = PadLength(d)
  BY <1>2, PadLengthIs
<1>5. MD5Final(Context(m)) = MD5Update(MD5Update(Context(m), Padding(p)), Encode(n)).state
  BY <1>3, <1>4 DEF MD5Final, PadLength
<1>6. Padding(p) \in Seq(MessageBytes)
  <2>1. \A i \in 1..p : <<"padding", IF i = 1 THEN 128 ELSE 0>> \in MessageBytes
    BY DEF MessageBytes
  <2>2. p \in Nat
    BY BlockFacts
  <2>3. PICK f : f = [i \in 1..p |-> <<"padding", IF i = 1 THEN 128 ELSE 0>>]
    OBVIOUS
  <2>4. f \in [1..p -> MessageBytes]
    BY <2>1, <2>3
  <2>5. f \in Seq(MessageBytes)
    BY <2>2, <2>4
  <2> QED BY <2>3, <2>5 DEF Padding
<1>7. Encode(n) \in Seq(MessageBytes)
  <2>1. \A i \in 1..CountLen : <<"count", n, i>> \in MessageBytes
    BY DEF MessageBytes
  <2> QED BY <2>1, BlockFacts DEF Encode
<1>8. m \in Seq(MessageBytes)
  <2>1. \A i \in 1..Len(m) : m[i] \in MessageBytes
    BY DEF MessageBytes
  <2> QED BY <2>1
<1>9. PICK padded \in Seq(MessageBytes) : padded = m \o Padding(p)
  BY <1>6, <1>8, ConcatProperties
<1>10. PICK whole : whole = padded \o Encode(n)
  OBVIOUS
<1>11. MD5Update(Context(m), Padding(p)) = Context(padded)
  BY <1>6, <1>8, <1>9, UpdateTakesIn
<1>12. MD5Update(Context(padded), Encode(n)) = Context(whole)
  BY <1>7, <1>9, <1>10, UpdateTakesIn
<1>13. MD5Final(Context(m)) = Blocks(whole)
  BY <1>5, <1>11, <1>12 DEF Context
<1>14. (CHOOSE z \in 1..BlockLen : (n + z + CountLen) % BlockLen = 0) = p
  BY <1>2, <1>4, PadLengthIs
<1>15. Padded(m) = Blocks(whole)
  <2> DEFINE z == CHOOSE zeros \in 1..BlockLen : (Len(m) + zeros + CountLen) % BlockLen = 0
  <2>1. z = p
    BY <1>1, <1>14
  <2>2. Padded(m) = Blocks(m \o Padding(z) \o Encode(Len(m)))
    BY Zenon DEF Padded, Blocks, BlockAt
  <2> HIDE DEF z
  <2> QED BY <1>1, <1>9, <1>10, <2>1, <2>2
<1> QED BY <1>13, <1>15

\* A digest is that of the whole message, however it was cut into pieces.
THEOREM DigestIgnoresCuts == DigestSpec => []DigestOfWhole
<1>1. DigestInv => DigestOfWhole
  BY DigestOfAll DEF DigestInv, DigestOfWhole
<1> QED BY <1>1, DigestInitInv, DigestStep, PTL DEF DigestSpec
=============================================================================
