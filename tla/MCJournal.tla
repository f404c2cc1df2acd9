----------------------------- MODULE MCJournal -----------------------------
(* The journal on small disks, for clients that put a descriptor before an *)
(* old commit block and, side by side with them, for clients that never do. *)
EXTENDS Journal

VARIABLE clean  (* whether the client is one of those that never do *)

AnyInit ==
  /\ clean \in BOOLEAN
  /\ Init

AnyNext ==
  /\ IF clean THEN CleanNext ELSE Next
  /\ UNCHANGED clean

AnySpec == AnyInit /\ [][AnyNext]_<<vars, clean>>

FairSpec == AnySpec /\ Fairness

\* For clean clients, as long as no disk access has failed, transactions are atomic
\* and durable across crashes at any write, including crashes of the recovery
\* itself.
AtomicUpdates ==
  /\ clean => Store!Init
  /\ [][clean /\ faults' = 0 => Store!Next]_<<Store!vars, clean>>
=============================================================================
