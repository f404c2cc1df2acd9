------------------------------- MODULE HwFifo -------------------------------
(***************************************************************************)
(* systemc/adaptors: hw_fifo between a sender (the write of DF_Adder, or   *)
(* of FIFO_WRITE_HS) and a receiver (the read of FIFO_READ_HS).  They      *)
(* share valid, ready and data lines.  At an edge of the clock all three   *)
(* look at the lines as they were before it; what they write is seen after *)
(* it.  Between two edges the sender may offer a word and the receiver may *)
(* ask for one.                                                            *)
(***************************************************************************)
EXTENDS Naturals, Sequences

CONSTANTS
  Words,    (* what the data lines may carry                               *)
  FifoSize  (* _size: 1 in main.cpp                                        *)

ASSUME HwFifoAssumption == FifoSize \in Nat \ {0}

VARIABLES
  first, items, store,          (* _first, _items and _data of hw_fifo     *)
  inValid, inReady, inData,     (* adder_valid, adder_ready, adder_data    *)
  outValid, outReady, outData,  (* fork_valid, fork_ready, fork_data       *)
  sender,                       (* "idle", or "offers" inside write        *)
  receiver,                     (* "idle", or "asks" inside read           *)
  word                          (* what read returned last                 *)

registers == <<first, items, store>>
inLines == <<inValid, inReady, inData>>
outLines == <<outValid, outReady, outData>>
hwVars == <<registers, inLines, outLines, sender, receiver, word>>

\* The lines have the values that the constructors initialize; what is in store
\* and on the data lines is not looked at yet.
HwInit ==
  /\ first = 0 /\ items = 0
  /\ store \in [0..(FifoSize - 1) -> Words]
  /\ inValid = FALSE /\ inReady = TRUE /\ inData \in Words
  /\ outValid = FALSE /\ outReady = FALSE /\ outData \in Words
  /\ sender = "idle" /\ receiver = "idle"
  /\ word \in Words

\* The sender calls write.
Write(w) ==
  /\ sender = "idle"
  /\ sender' = "offers"
  /\ inData' = w
  /\ inValid' = TRUE
  /\ UNCHANGED <<registers, inReady, outLines, receiver, word>>

\* The receiver calls read.
Read ==
  /\ receiver = "idle"
  /\ receiver' = "asks"
  /\ outReady' = TRUE
  /\ UNCHANGED <<registers, inLines, outValid, outData, sender, word>>

-----------------------------------------------------------------------------
(* An edge.                                                                *)

EndOfWrite ==
  IF sender = "offers" /\ inReady
  THEN sender' = "idle" /\ inValid' = FALSE
  ELSE UNCHANGED <<sender, inValid>>

EndOfRead ==
  IF receiver = "asks" /\ outValid
  THEN receiver' = "idle" /\ word' = outData /\ outReady' = FALSE
  ELSE UNCHANGED <<receiver, word, outReady>>

Slot(i) == (first + i) % FifoSize

Accepts == inValid /\ items < FifoSize
Delivers == outReady /\ items > 0

\* Mutant: the lines tell what was before the words were moved.
FifoLines_Late ==
  /\ inReady' = (items < FifoSize)
  /\ outValid' = (items > 0)
  /\ outData' = store[first]

FifoLines ==
  /\ inReady' = (items' < FifoSize)
  /\ outValid' = (items' > 0)
  /\ outData' = store'[first']

\* fifo_process
FifoProcess ==
  /\ store' = IF Accepts THEN [store EXCEPT ![Slot(items)] = inData] ELSE store
  /\ first' = IF Delivers THEN Slot(1) ELSE first
  /\ items' = items + (IF Accepts THEN 1 ELSE 0) - (IF Delivers THEN 1 ELSE 0)
  /\ FifoLines

ClockEdge == EndOfWrite /\ EndOfRead /\ FifoProcess /\ UNCHANGED inData

HwNext == (\E w \in Words : Write(w)) \/ Read \/ ClockEdge

HwSpec == HwInit /\ [][HwNext]_hwVars

-----------------------------------------------------------------------------
HwTypeOK ==
  /\ first \in 0..(FifoSize - 1) /\ items \in 0..FifoSize
  /\ store \in [0..(FifoSize - 1) -> Words]
  /\ inValid \in BOOLEAN /\ inReady \in BOOLEAN /\ inData \in Words
  /\ outValid \in BOOLEAN /\ outReady \in BOOLEAN /\ outData \in Words
  /\ word \in Words
  /\ sender \in {"idle", "offers"} /\ receiver \in {"idle", "asks"}

\* The words in hw_fifo, oldest first.
Buffered == [i \in 1..items |-> store[Slot(i - 1)]]

Channel == INSTANCE BoundedChannel WITH
  Capacity <- FifoSize,
  offered <- IF sender = "offers" THEN <<inData>> ELSE <<>>,
  queue <- Buffered,
  asked <- receiver = "asks",
  given <- word

\* Although the sender, hw_fifo and the receiver each decide on lines of the cycle
\* before, they agree at every edge whether a word is taken and whether one is given:
\* whoever calls them, they are a bounded channel that neither loses nor doubles a word.
HandshakeIsChannel == Channel!Spec
=============================================================================
