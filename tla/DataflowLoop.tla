---------------------------- MODULE DataflowLoop ----------------------------
(***************************************************************************)
(* systemc/adaptors/main.cpp: a loop of processes around hw_fifo.          *)
(*                                                                         *)
(*   constant -> const_out -> adder -> hw_fifo -> fork -> printer_in       *)
(*                              ^                  |         |             *)
(*                              +---- feedback <---+      printer          *)
(*                                                                         *)
(* The adder is the sender of HwFifo and the fork its receiver.  The other *)
(* channels are sc_fifos of one place.  Between two edges they let the     *)
(* processes run, one after another in any order, until none can go on.    *)
(***************************************************************************)
EXTENDS HwFifo

CONSTANTS
  Start,     (* the word in feedback: 40                                   *)
  Constant,  (* what the constant writes: 1                                *)
  Prints     (* n_iterations_ of the printer: 10                           *)

ASSUME LoopAssumption == Prints \in Nat \ {0}

VARIABLES
  constOut, feedback, printerIn,  (* the sc_fifos                          *)
  operand1, operand2,             (* what the adder has read, if it has    *)
  fork,                           (* the fork "reads", or writes to        *)
                                  (* "output1" or "output2"                *)
  output                          (* what the printer has printed          *)

operands == <<operand1, operand2>>
loopVars == <<hwVars, constOut, feedback, printerIn, operands, fork, output>>

IsFree(channel) == channel = <<>>

LoopInit ==
  /\ HwInit
  /\ constOut = <<>> /\ feedback = <<Start>> /\ printerIn = <<>>
  /\ operand1 = <<>> /\ operand2 = <<>>
  /\ fork = "reads"
  /\ output = <<>>

\* The printer stops the simulation after its last iteration.
Stopped == Len(output) = Prints

-----------------------------------------------------------------------------
ConstantWrites ==
  /\ IsFree(constOut)
  /\ constOut' = <<Constant>>
  /\ UNCHANGED <<hwVars, feedback, printerIn, operands, fork, output>>

\* input1.read() + input2.read(), in the order that the compiler likes.
ReadInput1 ==
  /\ sender = "idle"
  /\ IsFree(operand1) /\ ~IsFree(constOut)
  /\ operand1' = constOut
  /\ constOut' = <<>>
  /\ UNCHANGED <<hwVars, feedback, printerIn, operand2, fork, output>>

ReadInput2 ==
  /\ sender = "idle"
  /\ IsFree(operand2) /\ ~IsFree(feedback)
  /\ operand2' = feedback
  /\ feedback' = <<>>
  /\ UNCHANGED <<hwVars, constOut, printerIn, operand1, fork, output>>

AdderWrites ==
  /\ ~IsFree(operand1) /\ ~IsFree(operand2)
  /\ Write(Head(operand1) + Head(operand2))
  /\ operand1' = <<>> /\ operand2' = <<>>
  /\ UNCHANGED <<constOut, feedback, printerIn, fork, output>>

ForkReads ==
  /\ fork = "reads"
  /\ Read
  /\ UNCHANGED <<constOut, feedback, printerIn, operands, fork, output>>

ForkWrites1 ==
  /\ fork = "output1"
  /\ IsFree(feedback)
  /\ feedback' = <<word>>
  /\ fork' = "output2"
  /\ UNCHANGED <<hwVars, constOut, printerIn, operands, output>>

ForkWrites2 ==
  /\ fork = "output2"
  /\ IsFree(printerIn)
  /\ printerIn' = <<word>>
  /\ fork' = "reads"
  /\ UNCHANGED <<hwVars, constOut, feedback, operands, output>>

PrinterReads ==
  /\ ~IsFree(printerIn)
  /\ output' = output \o printerIn
  /\ printerIn' = <<>>
  /\ UNCHANGED <<hwVars, constOut, feedback, operands, fork>>

\* No process can go on before the next edge.
Quiet ==
  /\ ~IsFree(constOut) /\ IsFree(printerIn)
  /\ sender = "idle" => IsFree(feedback) /\ ~IsFree(operand1) /\ IsFree(operand2)
  /\ \/ fork = "reads" /\ receiver = "asks"
     \/ fork = "output1" /\ ~IsFree(feedback)

\* When the adapter's read returns the fork goes on to write.
LoopEdge ==
  /\ Quiet
  /\ ClockEdge
  /\ fork' = IF receiver = "asks" /\ receiver' = "idle" THEN "output1" ELSE fork
  /\ UNCHANGED <<constOut, feedback, printerIn, operands, output>>

Untimed ==
  \/ ConstantWrites \/ ReadInput1 \/ ReadInput2 \/ AdderWrites
  \/ ForkReads \/ ForkWrites1 \/ ForkWrites2 \/ PrinterReads

LoopNext == ~Stopped /\ (Untimed \/ LoopEdge)

LoopSpec == LoopInit /\ [][LoopNext]_loopVars

\* The printer gets every word of the loop, each once and in order, and ends the
\* simulation: the loop never comes to a standstill.
EverythingPrinted == <>(output = [i \in 1..Prints |-> Start + i * Constant])
=============================================================================
