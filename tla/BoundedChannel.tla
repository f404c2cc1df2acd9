--------------------------- MODULE BoundedChannel ---------------------------
(***************************************************************************)
(* What a channel with a handshake on either side promises: a sender       *)
(* offers a word and is free again when the channel has taken it; a        *)
(* receiver that asks for a word gets the oldest.  Both may happen in the  *)
(* same step.                                                              *)
(***************************************************************************)
EXTENDS Naturals, Sequences

CONSTANTS Words, Capacity

VARIABLES
  offered,  (* the word that the sender offers, if it does: <<w>> or <<>>  *)
  queue,    (* the words in the channel                                    *)
  asked,    (* the receiver asks for a word                                *)
  given     (* the last word that it was given                             *)

vars == <<offered, queue, asked, given>>

Init ==
  /\ offered = <<>>
  /\ queue = <<>>
  /\ asked = FALSE
  /\ given \in Words

Offer ==
  /\ offered = <<>>
  /\ offered' \in Seq(Words) /\ Len(offered') = 1
  /\ UNCHANGED <<queue, asked, given>>

Ask ==
  /\ ~asked
  /\ asked' = TRUE
  /\ UNCHANGED <<offered, queue, given>>

MayPut == offered # <<>> /\ Len(queue) < Capacity
MayGet == asked /\ queue # <<>>

Put ==
  /\ MayPut
  /\ queue' = queue \o offered
  /\ offered' = <<>>
  /\ UNCHANGED <<asked, given>>

Get ==
  /\ MayGet
  /\ given' = Head(queue)
  /\ queue' = Tail(queue)
  /\ asked' = FALSE
  /\ UNCHANGED offered

PutAndGet ==
  /\ MayPut /\ MayGet
  /\ given' = Head(queue)
  /\ queue' = Tail(queue) \o offered
  /\ offered' = <<>>
  /\ asked' = FALSE

Next == Offer \/ Ask \/ Put \/ Get \/ PutAndGet

Spec == Init /\ [][Next]_vars
=============================================================================
