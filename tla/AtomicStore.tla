---------------------------- MODULE AtomicStore ----------------------------
(***************************************************************************)
(* What the journal promises the file system: a store of blocks updated by *)
(* transactions, one at a time, each of which takes effect as a whole or   *)
(* not at all, and never once the system went down before it took effect.  *)
(* The store survives a crash; a transaction that returned has taken       *)
(* effect.                                                                 *)
(***************************************************************************)
EXTENDS Blocks

VARIABLES
  store,    (* content of every block, as a reader after recovery sees it *)
  status,   (* "idle", "busy" with a transaction, or "down"               *)
  request,  (* the transaction in progress                                *)
  done      (* whether that transaction has taken effect                  *)

vars == <<store, status, request, done>>

Init ==
  /\ store = [h \in Home |-> ZeroBlock]
  /\ status = "idle"
  /\ request = NoTransaction
  /\ done = FALSE

Submit(t) ==
  /\ status = "idle"
  /\ status' = "busy"
  /\ request' = t
  /\ UNCHANGED <<store, done>>

TakeEffect ==
  /\ status = "busy"
  /\ ~done
  /\ store' = Overlay(store, request)
  /\ done' = TRUE
  /\ UNCHANGED <<status, request>>

Return ==
  /\ status = "busy"
  /\ done
  /\ status' = "idle"
  /\ request' = NoTransaction
  /\ done' = FALSE
  /\ UNCHANGED store

Crash ==
  /\ status # "down"
  /\ status' = "down"
  /\ request' = NoTransaction
  /\ done' = FALSE
  /\ UNCHANGED store

Restart ==
  /\ status = "down"
  /\ status' = "idle"
  /\ UNCHANGED <<store, request, done>>

Next ==
  \/ \E t \in Transaction(DataBlock) : Submit(t)
  \/ TakeEffect
  \/ Return
  \/ Crash
  \/ Restart

Spec == Init /\ [][Next]_vars
=============================================================================
