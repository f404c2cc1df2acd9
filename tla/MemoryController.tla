-------------------------- MODULE MemoryController --------------------------
(***************************************************************************)
(* systemc/memory: a memory controller (memory.cpp) and its test bench     *)
(* (stim.cpp), two clocked processes that share five lines and a data bus  *)
(* which both may drive.  At an edge both look at the lines as they were   *)
(* before it, go on to their next wait(), and what they write is seen      *)
(* after it: a step is one edge.                                           *)
(*                                                                         *)
(* The bench of the repository issues eleven commands one after another;   *)
(* this one issues any commands in any order, in the same way.             *)
(***************************************************************************)
EXTENDS Naturals

CONSTANTS
  NumAddresses,  (* 256                                                    *)
  Block,         (* words of RDBLK and WTBLK: 4                            *)
  Bytes,         (* what a word may be                                     *)
  X, Z           (* a word never written; a driver that does not drive     *)

ASSUME MemoryAssumption ==
  /\ NumAddresses \in Nat \ {0, 1}
  /\ Block \in Nat \ {0}
  /\ {X, Z} \cap Bytes = {} /\ X # Z

VARIABLES
  newComm, comm, addr, reset,  (* lines that the bench writes              *)
  complete,                    (* the line that the controller writes      *)
  benchDrives, memDrives,      (* what each of them drives the bus with    *)
  memory,
  control,  (* the controller: "idle", "moving" words, or "acknowledges"   *)
  sample,   (* comm_s, addr_s and data_s, and how many words are to move   *)
  bench,    (* the bench: "start", "feeds" words, "listens" to words,      *)
            (* "waits" for complete, "ends" and "ended" the command,       *)
            (* "resets", "reset" and "stopped"                             *)
  count,    (* how often it has waited since the command was issued        *)
  written   (* the bench's own record: the word last written to an address *)

lines == <<newComm, comm, addr, reset>>
memVars == <<complete, memDrives, memory, control, sample>>
benchVars == <<lines, benchDrives, bench, count, written>>
busVars == <<memVars, benchVars>>

Addresses == 0..(NumAddresses - 1)
Plus(a, n) == (a + n) % NumAddresses

Reading == {"RDBYT", "RDBLK"}
Commands == Reading \cup {"WTBYT", "WTBLK"}
Length(c) == IF c \in {"RDBLK", "WTBLK"} THEN Block ELSE 1

\* The resolved value of a line with two drivers.
Bus ==
  IF memDrives = Z THEN benchDrives
  ELSE IF benchDrives \in {Z, memDrives} THEN memDrives ELSE X

MemoryInit ==
  /\ newComm = FALSE /\ comm = "RDBLK" /\ addr = 0 /\ reset = FALSE
  /\ complete = FALSE
  /\ benchDrives = Z /\ memDrives = Z
  /\ memory = [a \in Addresses |-> X]
  /\ control = "idle"
  /\ sample = [comm |-> "RDBLK", addr |-> 0, data |-> X, left |-> 0]
  /\ bench = "start"
  /\ count = 0
  /\ written = [a \in Addresses |-> X]

-----------------------------------------------------------------------------
(* mem_process, from one wait() to the next.                               *)

Idle ==
  /\ control = "idle"
  /\ IF newComm /\ ~reset
     THEN /\ control' = "moving"
          /\ sample' = [comm |-> comm, addr |-> addr, left |-> Length(comm),
                        data |-> IF comm \in Reading THEN memory[addr] ELSE Bus]
     ELSE UNCHANGED <<control, sample>>
  /\ complete' = (complete /\ ~reset)
  /\ UNCHANGED <<memDrives, memory>>

\* What is left to do after the last word, and while new_comm is up.
EndsCommand == ~newComm \/ reset

Acknowledge ==
  /\ complete' = ~EndsCommand
  /\ control' = IF EndsCommand THEN "idle" ELSE "acknowledges"

\* The next word of a block: read from the memory, or sampled from the bus.
NextWord ==
  LET a == Plus(sample.addr, 1)
  IN sample' = [sample EXCEPT !.left = @ - 1, !.addr = a,
                  !.data = IF sample.comm \in Reading THEN memory[a] ELSE Bus]

Move ==
  /\ control = "moving"
  /\ IF sample.comm \in Reading
     THEN UNCHANGED memory
     ELSE memory' = [memory EXCEPT ![sample.addr] = sample.data]
  /\ IF sample.left = 1
     THEN Acknowledge /\ UNCHANGED sample
     ELSE NextWord /\ UNCHANGED <<control, complete>>
  /\ memDrives' =
       IF sample.comm \notin Reading THEN memDrives
       ELSE IF control' = "idle" THEN Z ELSE sample.data

\* Mutant: after a read the controller goes on driving the bus.
Acknowledged_BusKept ==
  /\ control = "acknowledges"
  /\ complete' = ~EndsCommand
  /\ control' = IF EndsCommand THEN "idle" ELSE "acknowledges"
  /\ UNCHANGED <<memory, sample, memDrives>>

Acknowledged ==
  /\ control = "acknowledges"
  /\ Acknowledge
  /\ memDrives' = IF EndsCommand /\ sample.comm \in Reading THEN Z ELSE memDrives
  /\ UNCHANGED <<memory, sample>>

Controller == Idle \/ Move \/ Acknowledged

-----------------------------------------------------------------------------
(* stim::run, from one wait() to the next.                                 *)

\* write_mem_cmd and read_mem_cmd; the loop that follows them sees complete as it
\* was, which is FALSE.
Issue(c, a, w) ==
  /\ comm' = c /\ addr' = a /\ newComm' = TRUE
  /\ count' = 0
  /\ bench' = CASE c = "WTBLK" /\ Block > 1 -> "feeds"
                [] c = "RDBLK" -> "listens"
                [] OTHER -> "waits"
  /\ IF c \in Reading
     THEN benchDrives' = Z /\ UNCHANGED written
     ELSE benchDrives' = w /\ written' = [written EXCEPT ![a] = w]
  /\ UNCHANGED reset

NextCommand ==
  /\ bench \in {"start", "ended"}
  /\ \E c \in Commands, a \in Addresses, w \in Bytes : Issue(c, a, w)

\* The loop that waits for complete, and then the first line of end_mem_cmd.
WaitOrEnd ==
  /\ bench' = IF complete THEN "ends" ELSE "waits"
  /\ newComm' = ~complete

\* The words of WTBLK, one at each wait.
Feed ==
  /\ bench = "feeds"
  /\ count' = count + 1
  /\ \E w \in Bytes :
       /\ benchDrives' = w
       /\ written' = [written EXCEPT ![Plus(addr, count')] = w]
  /\ IF count' = Block - 1 THEN WaitOrEnd ELSE UNCHANGED <<bench, newComm>>
  /\ UNCHANGED <<comm, addr, reset>>

\* The words of RDBLK come at the third wait and those after it.
Listen ==
  /\ bench = "listens"
  /\ count' = count + 1
  /\ IF count' = Block + 2 THEN WaitOrEnd ELSE UNCHANGED <<bench, newComm>>
  /\ UNCHANGED <<comm, addr, reset, benchDrives, written>>

Wait ==
  /\ bench = "waits"
  /\ WaitOrEnd
  /\ UNCHANGED <<comm, addr, reset, benchDrives, count, written>>

\* The second wait of end_mem_cmd.
End ==
  /\ bench = "ends"
  /\ bench' = "ended"
  /\ UNCHANGED <<lines, benchDrives, count, written>>

\* The last test: a reset in place of the end of a read.
Reset ==
  /\ bench = "waits" /\ comm = "RDBYT" /\ complete
  /\ reset' = TRUE
  /\ bench' = "resets"
  /\ UNCHANGED <<newComm, comm, addr, benchDrives, count, written>>

AfterReset ==
  /\ bench \in {"resets", "reset"}
  /\ bench' = IF bench = "resets" THEN "reset" ELSE "stopped"
  /\ UNCHANGED <<lines, benchDrives, count, written>>

Bench == NextCommand \/ Feed \/ Listen \/ Wait \/ End \/ Reset \/ AfterReset

MemoryNext == Controller /\ Bench

MemorySpec == MemoryInit /\ [][MemoryNext]_busVars
-----------------------------------------------------------------------------
MemoryTypeOK ==
  LET Values == Bytes \cup {X}
  IN /\ {newComm, reset, complete} \subseteq BOOLEAN
     /\ comm \in Commands /\ addr \in Addresses
     /\ {benchDrives, memDrives} \subseteq Values \cup {Z}
     /\ {memory, written} \subseteq [Addresses -> Values]
     /\ control \in {"idle", "moving", "acknowledges"}
     /\ sample \in [comm : Commands, addr : Addresses, data : Values \cup {Z}, left : 0..Block]
     /\ bench \in {"start", "feeds", "listens", "waits", "ends", "ended", "resets", "reset",
                   "stopped"}
     /\ count \in 0 .. Block + 2

\* What stim.cpp asserts, for any commands in any order: a byte that is read, and
\* each word of a block at its own wait, is the one written there last; after
\* end_mem_cmd and after a reset complete is down, and after a read nobody drives
\* the bus.  Nor do the two ever drive it together.
AssertionsHold ==
  /\ bench = "waits" /\ comm = "RDBYT" /\ complete => Bus = written[addr]
  /\ bench = "listens" /\ count >= 2 => Bus = written[Plus(addr, count - 2)]
  /\ bench = "ended" => ~complete /\ (comm \in Reading => Bus = Z)
  /\ bench = "reset" => ~complete
  /\ Z \in {benchDrives, memDrives}

\* Every command is completed: the bench never waits for ever.
CommandsEnd == []<>(bench \in {"ended", "stopped"})
=============================================================================
