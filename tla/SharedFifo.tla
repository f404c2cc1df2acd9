----------------------------- MODULE SharedFifo -----------------------------
(***************************************************************************)
(* systemc/fifo-interface: a producer and a consumer call a channel that   *)
(* answers neither of them itself.  A call leaves its request in a member  *)
(* of the channel, notifies the arbitrator and waits for done_, the one    *)
(* event that answers everybody.                                           *)
(*                                                                         *)
(* The notifications are immediate: whoever waits becomes runnable in the  *)
(* same evaluation phase, whose runnable processes run one after another,  *)
(* in any order, each until it waits again.  The clocks go on when nobody  *)
(* is runnable any more; the producer's has twice the rate.                *)
(***************************************************************************)
EXTENDS Naturals, Sequences

CONSTANTS
  Size,   (* size_: 4 in main.cpp                                          *)
  Period  (* the producer counts modulo 10                                 *)

ASSUME FifoAssumption ==
  /\ Size \in Nat \ {0}
  /\ Period \in Nat /\ Period > Size + 1

VARIABLES
  front, numItems, data,      (* front_, num_items_ and data_              *)
  readFlag, writeFlag,        (* read_flag_ and write_flag_                *)
  readStatus, writeStatus,    (* read_status_ and write_status_            *)
  writeItem,                  (* write_item_                               *)
  number,                     (* the producer's data: what it writes next  *)
  received,                   (* the consumer's data, written through      *)
                              (* read_item_                                *)
  printed,                    (* the last number that the consumer printed *)
  waitsFor,                   (* what a process waits for: "edge", "done", *)
                              (* or "request"                              *)
  runnable,                   (* the processes yet to run in this phase    *)
  slowEdge                    (* the next edge is one of both clocks       *)

fifoState == <<front, numItems, data>>
requests == <<readFlag, writeFlag, writeItem>>
answers == <<readStatus, writeStatus>>
fifoVars == <<fifoState, requests, answers, number, received, printed, waitsFor,
              runnable, slowEdge>>

Processes == {"producer", "consumer", "arbitrator"}

Numbers == 0..(Period - 1)

After(n) == (n + 1) % Period

\* The items, oldest first.
Items == [i \in 1..numItems |-> data[(front + i - 1) % Size]]

\* Every process runs at first, but those with dont_initialize wait for an edge.
\* What members hold that no constructor sets is never looked at.
FifoInit ==
  /\ front = 0 /\ numItems = 0
  /\ data = [i \in 0..(Size - 1) |-> 0]
  /\ readFlag = FALSE /\ writeFlag = FALSE
  /\ readStatus = FALSE /\ writeStatus = FALSE
  /\ writeItem = 0
  /\ number = 0
  /\ received \in Numbers
  /\ printed = Period - 1
  /\ waitsFor = [p \in Processes |-> IF p = "arbitrator" THEN "request" ELSE "edge"]
  /\ runnable = {"arbitrator"}
  /\ slowEdge = TRUE

\* The processes that an event makes runnable: those that wait for it.
Awaiting(event) == {p \in Processes : waitsFor[p] = event}

\* The process waits for an answer, after it notified the arbitrator.
Ask(p) ==
  /\ p \in runnable
  /\ waitsFor[p] = "edge"
  /\ waitsFor' = [waitsFor EXCEPT ![p] = "done"]
  /\ runnable' = (runnable \ {p}) \cup Awaiting("request")

\* The process has its answer and waits for its clock.
Proceed(p) ==
  /\ p \in runnable
  /\ waitsFor[p] = "done"
  /\ waitsFor' = [waitsFor EXCEPT ![p] = "edge"]
  /\ runnable' = runnable \ {p}

-----------------------------------------------------------------------------
WriteCall ==
  /\ Ask("producer")
  /\ writeItem' = number
  /\ writeFlag' = TRUE
  /\ UNCHANGED <<fifoState, readFlag, answers, number, received, printed, slowEdge>>

\* Mutant: the producer counts on whatever the answer is.
WriteReturns_StatusIgnored ==
  /\ Proceed("producer")
  /\ number' = After(number)
  /\ UNCHANGED <<fifoState, requests, answers, received, printed, slowEdge>>

WriteReturns ==
  /\ Proceed("producer")
  /\ number' = IF writeStatus THEN After(number) ELSE number
  /\ UNCHANGED <<fifoState, requests, answers, received, printed, slowEdge>>

ReadCall ==
  /\ Ask("consumer")
  /\ readFlag' = TRUE
  /\ UNCHANGED <<fifoState, writeFlag, writeItem, answers, number, received, printed,
                 slowEdge>>

ReadReturns ==
  /\ Proceed("consumer")
  /\ printed' = IF readStatus THEN received ELSE printed
  /\ UNCHANGED <<fifoState, requests, answers, number, received, slowEdge>>

-----------------------------------------------------------------------------
(* The arbitrator: the read before the write.                              *)

Reads == readFlag /\ numItems > 0

ServeRead ==
  /\ readStatus' = IF readFlag THEN Reads ELSE readStatus
  /\ received' = IF Reads THEN data[front] ELSE received
  /\ front' = IF Reads THEN (front + 1) % Size ELSE front

\* What the read leaves to the write.
Remaining == IF Reads THEN numItems - 1 ELSE numItems

ServeWrite ==
  LET stores == writeFlag /\ Remaining < Size
  IN /\ writeStatus' = IF writeFlag THEN stores ELSE writeStatus
     /\ data' = IF stores THEN [data EXCEPT ![(front' + Remaining) % Size] = writeItem] ELSE data
     /\ numItems' = IF stores THEN Remaining + 1 ELSE Remaining

\* Mutant: done_ wakes only one of those who wait for it.
Arbitrate_WakesOne ==
  /\ "arbitrator" \in runnable
  /\ ServeRead
  /\ ServeWrite
  /\ readFlag' = FALSE /\ writeFlag' = FALSE
  /\ \E p \in Awaiting("done") \cup {"arbitrator"} :
       runnable' = (runnable \ {"arbitrator"}) \cup (Awaiting("done") \cap {p})
  /\ UNCHANGED <<writeItem, number, printed, waitsFor, slowEdge>>

\* One turn of its loop; done_ wakes whoever waits for it.
Arbitrate ==
  /\ "arbitrator" \in runnable
  /\ ServeRead
  /\ ServeWrite
  /\ readFlag' = FALSE /\ writeFlag' = FALSE
  /\ runnable' = (runnable \ {"arbitrator"}) \cup Awaiting("done")
  /\ UNCHANGED <<writeItem, number, printed, waitsFor, slowEdge>>

\* An edge of the producer's clock, or one of both clocks at the same time.
Edge ==
  /\ runnable = {}
  /\ runnable' = Awaiting("edge") \cap (IF slowEdge THEN Processes ELSE {"producer"})
  /\ slowEdge' = ~slowEdge
  /\ UNCHANGED <<fifoState, requests, answers, number, received, printed, waitsFor>>

FifoNext == WriteCall \/ WriteReturns \/ ReadCall \/ ReadReturns \/ Arbitrate \/ Edge

\* The simulator runs whatever is runnable, and the clocks.
FifoFairness == WF_fifoVars(FifoNext)

FifoSpec == FifoInit /\ [][FifoNext]_fifoVars

-----------------------------------------------------------------------------
FifoTypeOK ==
  /\ front \in 0..(Size - 1) /\ numItems \in 0..Size
  /\ data \in [0..(Size - 1) -> Numbers]
  /\ {readFlag, writeFlag, readStatus, writeStatus, slowEdge} \subseteq BOOLEAN
  /\ {writeItem, number, received, printed} \subseteq Numbers
  /\ waitsFor \in [Processes -> {"edge", "done", "request"}]
  /\ runnable \subseteq Processes

\* A call was answered and has not returned yet.
Answered(p, flag) == waitsFor[p] = "done" /\ ~flag

\* Numbers on their way from the producer to the printer.
Stream ==
  (IF Answered("consumer", readFlag) /\ readStatus THEN <<received>> ELSE <<>>) \o Items

\* Every number that the producer was told is written is printed once, in the
\* order of writing, and no other: whatever the order in which the three run, a
\* call returns the answer to its own request.
EveryNumberOnce ==
  LET written == Answered("producer", writeFlag) /\ writeStatus
  IN /\ \A i \in 1..Len(Stream) : Stream[i] = (printed + i) % Period
     /\ (number + IF written THEN 1 ELSE 0) % Period = (printed + Len(Stream) + 1) % Period

\* Numbers arrive again and again: every call is answered.
NumbersArrive == []<><<ReadReturns /\ readStatus>>_fifoVars
=============================================================================
