---------------------------- MODULE RandomBytes ----------------------------
(* The random bytes of dh_sw.cpp: MD5 over messages that arrive in pieces, *)
(* and R_GenerateBytes, which hands out the digests of a state that is     *)
(* stepped after each of them. A digest is a free function of its input:   *)
(* MD5Transform appends a block to the sequence of those it has taken in.  *)
EXTENDS Integers, Sequences, FiniteSets, SequencesExt

CONSTANTS
  BlockLen,   \* bytes in a block of MD5 (64)
  CountLen,   \* bytes of the bit count that ends a message (8)
  StateLen,   \* bytes of the state of an R_RANDOM_STRUCT (16)
  DigestLen,  \* bytes of a digest (16)
  ByteValues  \* values of a byte (256)

ASSUME RandomBytesAssumption ==
  /\ {BlockLen, CountLen, StateLen, DigestLen, ByteValues} \subseteq Nat \ {0}
  /\ CountLen < BlockLen

-----------------------------------------------------------------------------
(* MD5. *)

\* The context: bytes taken in, those that wait for a whole block, and the
\* state, which is what MD5Transform made of the blocks so far.
MD5Init == [count |-> 0, buffer |-> <<>>, state |-> <<>>]

MD5Transform(state, block) == Append(state, block)

\* Fills the block in the buffer, then takes whole blocks from the input, then
\* buffers the rest. Each of those blocks is one more that was taken in.
MD5Update(context, input) ==
  LET index   == context.count % BlockLen
      partLen == BlockLen - index
      whole   == (Len(input) - partLen) \div BlockLen
      Piece(k) == SubSeq(input, partLen + (k - 1) * BlockLen + 1, partLen + k * BlockLen)
      first   == MD5Transform(context.state, context.buffer \o SubSeq(input, 1, partLen))
  IN IF Len(input) >= partLen
       THEN [count  |-> context.count + Len(input),
             buffer |-> SubSeq(input, partLen + whole * BlockLen + 1, Len(input)),
             state  |-> first \o [k \in 1..whole |-> Piece(k)]]
       ELSE [count  |-> context.count + Len(input),
             buffer |-> context.buffer \o input,
             state  |-> context.state]

\* PADDING, and the bit count as the bytes that Encode makes of it.
Padding(n)    == [i \in 1..n |-> <<"padding", IF i = 1 THEN 128 ELSE 0>>]
Encode(count) == [i \in 1..CountLen |-> <<"count", count, i>>]

\* A message that ends where the bit count begins gets no padding.
MD5Final_NoPadding(context) ==
  LET index  == context.count % BlockLen
      padLen == IF index <= BlockLen - CountLen
                  THEN BlockLen - CountLen - index
                  ELSE 2 * BlockLen - CountLen - index
  IN MD5Update(MD5Update(context, Padding(padLen)), Encode(context.count)).state

MD5Final(context) ==
  LET index  == context.count % BlockLen
      padLen == IF index < BlockLen - CountLen
                  THEN BlockLen - CountLen - index
                  ELSE 2 * BlockLen - CountLen - index
  IN MD5Update(MD5Update(context, Padding(padLen)), Encode(context.count)).state

-----------------------------------------------------------------------------
(* R_GenerateBytes. *)

VARIABLES
  random,  \* the R_RANDOM_STRUCT: state, output (the state it digests), outputAvailable
  given,   \* the bytes handed out, each the place of a byte in a digest
  calls    \* how many they are

randomVars == <<random, given, calls>>

NoOutput == <<>>

\* After InitRandomStruct, whatever the seed: there is a state and no output.
RandomInit ==
  /\ random \in [state : [1..StateLen -> 0 .. ByteValues - 1], output : {NoOutput}, outputAvailable : {0}]
  /\ given = {}
  /\ calls = 0

\* The carry never leaves the last byte.
Increment_LastOnly(state) ==
  [state EXCEPT ![StateLen] = (@ + 1) % ByteValues]

\* "Increment state": from the last byte on, each byte is stepped up to and
\* including the first that was not zero before its step.
Increment(state) ==
  LET Stepped(i) == \A j \in i + 1 .. StateLen : state[j] = 0
  IN [i \in 1..StateLen |-> IF Stepped(i) THEN (state[i] + 1) % ByteValues ELSE state[i]]

\* The last n bytes of the output, of which the first k are copied out.
Copied(r, k) ==
  {<<r.output, i>> : i \in DigestLen - r.outputAvailable + 1 .. DigestLen - r.outputAvailable + k}

\* A round of the loop: what is left of the output is copied out, then the
\* state is digested and incremented. No round is left once the output suffices.
Refill(loop) ==
  IF loop.blockLen > loop.random.outputAvailable
    THEN [random   |-> [state |-> Increment(loop.random.state), output |-> loop.random.state,
                        outputAvailable |-> DigestLen],
          blockLen |-> loop.blockLen - loop.random.outputAvailable,
          block    |-> loop.block \cup Copied(loop.random, loop.random.outputAvailable)]
    ELSE loop

\* Every round but the first copies a byte at least: this many are enough.
Generate(r, blockLen) ==
  LET after[round \in 0 .. blockLen + 1] ==
        IF round = 0 THEN [random |-> r, blockLen |-> blockLen, block |-> {}]
                     ELSE Refill(after[round - 1])
  IN after[blockLen + 1]

\* One digest for each value of the state.
PeriodLength == DigestLen * Cardinality([1..StateLen -> 0 .. ByteValues - 1])

R_GenerateBytes(blockLen) ==
  LET last == Generate(random, blockLen)
  IN /\ calls + blockLen <= PeriodLength  \* bound: one period of the state
     /\ random' = [last.random EXCEPT !.outputAvailable = @ - last.blockLen]
     /\ given' = given \cup last.block \cup Copied(last.random, last.blockLen)
     /\ calls' = calls + blockLen

RandomSpec == RandomInit /\ [][\E blockLen \in Nat : R_GenerateBytes(blockLen)]_randomVars

-----------------------------------------------------------------------------
(* A message that is digested piece by piece. *)

VARIABLES
  md5,     \* the MD5_CTX
  message  \* the bytes it has taken in, each known by a number

digestVars == <<md5, message>>

DigestInit ==
  /\ md5 = MD5Init
  /\ message = <<>>

TakeIn(piece) ==
  /\ md5' = MD5Update(md5, piece)
  /\ message' = message \o piece

DigestSpec == DigestInit /\ [][\E piece \in Seq({"byte"} \X Nat) : TakeIn(piece)]_digestVars

-----------------------------------------------------------------------------
\* R_GenerateBytes hands out no byte of a digest twice before it has handed out
\* all the bytes of the digests of all the states, although the carry of
\* "increment state" leaves a byte when that was zero, not when it becomes zero.
NoByteTwice == Cardinality(given) = calls

\* A message, padded to whole blocks and closed by its length, as blocks.
Padded(m) ==
  LET zeros == CHOOSE n \in 1..BlockLen : (Len(m) + n + CountLen) % BlockLen = 0
      whole == m \o Padding(zeros) \o Encode(Len(m))
  IN [k \in 1 .. Len(whole) \div BlockLen |-> SubSeq(whole, (k - 1) * BlockLen + 1, k * BlockLen)]

\* The digest of a message does not depend on how it was cut into pieces, and
\* is that of the message, padded to whole blocks and closed by its length.
DigestOfWhole == MD5Final(md5) = Padded(message)
=============================================================================
