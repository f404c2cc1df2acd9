------------------------------ MODULE MCVolume ------------------------------
(* A volume of a few blocks with a careful client (CarefulStep); or with   *)
(* one that does not load again after a recovery, whose removals may fail  *)
(* and whose journal may accept an incomplete entry, and one fault.        *)
(* Neither goes on when the disk is full.                                  *)
EXTENDS Volume

VARIABLE careful  (* which of the two it is *)

AnyInit == Init /\ careful \in BOOLEAN

AnyNext ==
  /\ Next
  /\ IF careful THEN CarefulStep ELSE ReservesFree /\ crashes' + refused' + lostNames' <= 1
  /\ UNCHANGED careful

AnySpec == AnyInit /\ [][AnyNext]_<<vars, careful>>

\* A careful client keeps the disk consistent, whatever crash interrupts it, unless
\* the crash completes an entry by an old commit block.
CarefulIsConsistent == careful => DiskConsistent

\* The map that a careful client reserves from has no block of a file, under the
\* same proviso.
CarefulMapIsRight == careful => AvailableIsUnused
=============================================================================
