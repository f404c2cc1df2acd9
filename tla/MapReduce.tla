----------------------------- MODULE MapReduce -----------------------------
(***************************************************************************)
(* The best line through points, by threads (map-reduce-l1-fitting).       *)
(* l1_reg takes the rows one after the other; for each it has map compute, *)
(* in several threads, the error of the line from that row to every later  *)
(* one, and then looks at the results.  The threads share the array of the *)
(* results and the context, in which l1_reg keeps the row it is at.        *)
(***************************************************************************)
EXTENDS Integers

CONSTANTS
  Rows,        (* rows of the matrix: one point each                       *)
  NumThreads,  (* num_threads                                              *)
  Errors,      (* what sum_error may compute                               *)
  NoLine       (* no line yet, or a result nobody has written              *)

Points == 0..(Rows - 1)

\* A line goes through two points.
Line == {l \in Points \X Points : l[1] < l[2]}

ASSUME MapReduceAssumption ==
  /\ Rows \in Nat
  /\ NumThreads \in Nat \ {0}
  /\ Errors \subseteq Int
  /\ NoLine \notin Line

VARIABLES
  error,   (* the sum of the errors of each line                           *)
  stage,   (* of l1_reg: "row" (at the head of its loop), in map "create"  *)
           (* and "join", "reduce", "done"; "exit" when a call has failed, *)
           (* "crash" when it follows a pointer nobody has set             *)
  start,   (* ctx.start                                                    *)
  cursor,  (* the loop variable of the stage                               *)
  span,    (* of a thread: start_index, which it counts up, and end_index  *)
  result,  (* data: the array of the results                               *)
  best     (* min                                                          *)

mapVars == <<error, stage, start, cursor, span, result, best>>

MapThreads == 0..(NumThreads - 1)

InputLen == Rows - start - 1

NumWorkers == IF InputLen < NumThreads THEN InputLen ELSE NumThreads

ItemsEach == IF InputLen < NumThreads THEN 1 ELSE InputLen \div NumThreads

\* Mutant: the last thread gets as many items as the others.
UpperBound_AllAlike(t) == (t + 1) * ItemsEach

\* The last thread gets what the division leaves.
UpperBound(t) == IF t # NumWorkers - 1 THEN (t + 1) * ItemsEach ELSE InputLen

MapInit ==
  /\ error \in [Line -> Errors]
  /\ stage = "row"
  /\ start = 0
  /\ cursor = 0
  /\ span = [t \in MapThreads |-> [next |-> 0, end |-> 0]]
  /\ result = [k \in {} |-> NoLine]
  /\ best = NoLine

\* l1_reg calls map for the next row.
CallMap ==
  /\ stage = "row"
  /\ start < Rows - 1
  /\ result' = [k \in 0..(InputLen - 1) |-> NoLine]
  /\ stage' = "create"
  /\ cursor' = 0
  /\ UNCHANGED <<error, start, span, best>>

CreateThread ==
  /\ stage = "create"
  /\ span' = [span EXCEPT ![cursor] =
                [next |-> cursor * ItemsEach, end |-> UpperBound(cursor)]]
  /\ IF cursor + 1 < NumWorkers
     THEN stage' = stage /\ cursor' = cursor + 1
     ELSE stage' = "join" /\ cursor' = 0
  /\ UNCHANGED <<error, start, result, best>>

\* malloc or pthread_create fails: the process ends, with all its threads.
CallFails ==
  /\ stage \in {"row", "create"}
  /\ start < Rows - 1
  /\ stage' = "exit"
  /\ UNCHANGED <<error, start, cursor, span, result, best>>

\* map_sync with sum_error, for one item.
MapItem(t) ==
  /\ stage \notin {"exit", "crash"}
  /\ span[t].next < span[t].end
  /\ result' = [result EXCEPT ![span[t].next] = <<start, start + span[t].next + 1>>]
  /\ span' = [span EXCEPT ![t].next = @ + 1]
  /\ UNCHANGED <<error, stage, start, cursor, best>>

JoinThread ==
  /\ stage = "join"
  /\ span[cursor].next = span[cursor].end
  /\ IF cursor + 1 < NumWorkers
     THEN stage' = stage /\ cursor' = cursor + 1
     ELSE stage' = "reduce" /\ cursor' = 0
  /\ UNCHANGED <<error, start, span, result, best>>

\* l1_reg looks at the next result, through a pointer, and keeps it if it is
\* better.
ReduceItem ==
  /\ stage = "reduce"
  /\ LET line == result[cursor]
         last == cursor + 1 = InputLen
     IN /\ best' = IF line # NoLine /\ (best = NoLine \/ error[line] < error[best])
                   THEN line ELSE best
        /\ stage' = IF line = NoLine THEN "crash" ELSE IF last THEN "row" ELSE stage
        /\ cursor' = IF last THEN 0 ELSE cursor + 1
        /\ start' = IF last THEN start + 1 ELSE start
  /\ UNCHANGED <<error, span, result>>

RowsEnd ==
  /\ stage = "row"
  /\ start >= Rows - 1
  /\ stage' = "done"
  /\ UNCHANGED <<error, start, cursor, span, result, best>>

MapNext ==
  \/ CallMap \/ CreateThread \/ CallFails \/ JoinThread
  \/ ReduceItem \/ RowsEnd
  \/ \E t \in MapThreads : MapItem(t)

MapSpec == MapInit /\ [][MapNext]_mapVars

-----------------------------------------------------------------------------
MapTypeOK ==
  /\ error \in [Line -> Errors]
  /\ stage \in {"row", "create", "join", "reduce", "done", "exit", "crash"}
  /\ start \in Nat
  /\ cursor \in Nat
  /\ span \in [MapThreads -> [next : Nat, end : Nat]]
  /\ DOMAIN result \subseteq Nat
  /\ \A k \in DOMAIN result : result[k] \in Line \cup {NoLine}
  /\ best \in Line \cup {NoLine}

\* In whatever order the threads run, l1_reg reads no result that was not
\* computed, and what it returns is a line whose error no other line is below.
BestLineIsFound ==
  /\ stage # "crash"
  /\ stage = "done" /\ Line # {} =>
       best \in Line /\ \A l \in Line : error[best] <= error[l]
=============================================================================
