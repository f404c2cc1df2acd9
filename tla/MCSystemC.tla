----------------------------- MODULE MCSystemC -----------------------------
(* The simulations side by side: the channel of fifo-interface, hw_fifo    *)
(* between any sender and any receiver, the loop around it, the memory     *)
(* controller with its test bench, and the key exchange.                   *)
EXTENDS SharedFifo, DataflowLoop, MemoryController, MCKeyExchange

channelVars == <<constOut, feedback, printerIn, operands, fork, output>>

\* The values that are never looked at matter in their own part only.
SimulationInit ==
  /\ part \in {"channel", "handshake", "loop", "memory"}
  /\ Init /\ RandomInit /\ DigestInit /\ SourceUnused /\ operand = None /\ result = None
  /\ FifoInit /\ LoopInit /\ MemoryInit
  /\ part # "channel" => received = 0
  /\ part # "handshake" =>
       {inData, outData, word} = {0} /\ \A i \in DOMAIN store : store[i] = 0

ExchangeInit ==
  /\ received = 0 /\ inData = 0 /\ outData = 0 /\ word = 0 /\ store = [i \in 0..(FifoSize - 1) |-> 0]
  /\ FifoInit /\ LoopInit /\ MemoryInit
  /\ MCInit

AnyInit == SimulationInit \/ ExchangeInit

exchangeParts == <<exchangeVars, randomVars, digestVars, operand, result>>

ChannelStep ==
  /\ part = "channel"
  /\ FifoNext
  /\ UNCHANGED <<part, loopVars, busVars, exchangeParts>>

HandshakeStep ==
  /\ part = "handshake"
  /\ HwNext
  /\ UNCHANGED <<part, fifoVars, channelVars, busVars, exchangeParts>>

LoopStep ==
  /\ part = "loop"
  /\ LoopNext
  /\ UNCHANGED <<part, fifoVars, busVars, exchangeParts>>

MemoryStep ==
  /\ part = "memory"
  /\ MemoryNext
  /\ UNCHANGED <<part, fifoVars, loopVars, exchangeParts>>

ExchangeStep ==
  /\ MCNext
  /\ UNCHANGED <<part, fifoVars, loopVars, busVars>>

SimulationStep == ChannelStep \/ HandshakeStep \/ LoopStep \/ MemoryStep

AnyNext == SimulationStep \/ ExchangeStep

anyVars == <<part, fifoVars, loopVars, busVars, exchangeParts>>

\* The simulator goes on until it is stopped.
AnySpec == AnyInit /\ [][AnyNext]_anyVars /\ WF_anyVars(SimulationStep)

\* Every call on the channel is answered and numbers go on arriving, the loop
\* prints every word and ends, and the controller completes every command.
NothingGetsStuck ==
  /\ part = "channel" => NumbersArrive
  /\ part = "loop" => EverythingPrinted
  /\ part = "memory" => CommandsEnd
=============================================================================
