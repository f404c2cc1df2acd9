---------------------------- MODULE KeyExchange ----------------------------
(* Diffie-Hellman in dh_sw.cpp: the parameters, the two halves of an       *)
(* agreement, and process_sw, which plays both parties. A byte string is a *)
(* sequence of bytes, the most significant first.                          *)
EXTENDS Bignum

CONSTANTS
  DigitLen,         \* NN_DIGIT_LEN, bytes in a digit
  KeyLength,        \* KEY_LENGTH: bits of a generated prime, bytes of a private value
  Prime1,           \* PRIME1 and GENERATOR1
  Generator1,
  NumKeyExchange,   \* NUM_KEYEXCHANGE
  Random,           \* numbers that random bytes may stand for
  PrivateValues     \* private values that random bytes may be

ByteBits == DigitBits \div DigitLen

\* Numbers from byte strings, and back; what does not fit is cut off at the top.
NN_Decode(digits, b) ==
  LET Byte(j) == IF j < Len(b) THEN b[Len(b) - j] ELSE 0
      Digit(i) == FoldRightDomain(LAMBDA k, x : x * 2^ByteBits + Byte((i - 1) * DigitLen + k - 1),
                                  Zeros(DigitLen), 0)
  IN [i \in 1..digits |-> Digit(i)]

NN_Encode(len, b) ==
  LET Byte(j) == IF j \div DigitLen >= Len(b) THEN 0
                 ELSE (b[j \div DigitLen + 1] \div 2^(ByteBits * (j % DigitLen))) % 2^ByteBits
  IN [k \in 1..len |-> Byte(len - k)]

NN_Assign2Exp(b, digits) ==
  [i \in 1..digits |-> IF i = b \div DigitBits + 1 THEN 2^(b % DigitBits) ELSE 0]

Params1 == [prime |-> Prime1, generator |-> Generator1]

\* The digits of a prime, which set the length of the numbers modulo it.
PrimeOf(params) ==
  LET p == NN_Decode((Len(params.prime) + DigitLen - 1) \div DigitLen, params.prime)
  IN SubSeq(p, 1, NN_Digits(p))

\* What R_GenerateDHParams returns for the primes q and p: 2^((p - 1) / q) is
\* the generator.
ParamsOf(q, p) ==
  LET len == (KeyLength + ByteBits - 1) \div ByteBits
  IN IF q.ok /\ p.ok
       THEN [ok        |-> TRUE,
             prime     |-> NN_Encode(len, p.a),
             generator |-> NN_Encode(len, NN_ModExp(Small(2, Len(p.a)), NN_Div(p.a, q.a).a, p.a)),
             q         |-> q.a]
       ELSE [ok |-> FALSE]

\* The primes of so many bits of the form k * d + 1 that are found, or not found,
\* from the random numbers in a set.
PrimesOfLength(bits, d, random) ==
  LET n    == (KeyLength + DigitBits - 1) \div DigitBits
      low  == NN_Assign2Exp(bits - 1, n)
      high == NN_Add(low, NN_Sub(low, Small(1, n)).a).a
  IN {GeneratePrime(r, low, high, d) : r \in random}

\* What R_GenerateDHParams may return when its random numbers are from these
\* sets: a prime q of half the length, then a prime p of the form 2 * k * q + 1.
R_GenerateDHParams(qRandom, pRandom) ==
  LET two == Small(2, (KeyLength + DigitBits - 1) \div DigitBits)
  IN UNION {{ParamsOf(q, p) : p \in IF q.ok THEN PrimesOfLength(KeyLength, NN_LShift(q.a, 1).a, pRandom)
                                            ELSE {q}}
              : q \in PrimesOfLength(KeyLength \div 2, two, qRandom)}

\* The private value is read with the length of the shorter of two numbers.
R_SetupDHAgreement_DigitShort(privateValue, params) ==
  LET p == PrimeOf(params)
      x == NN_Decode(Len(p) - 1, privateValue)
  IN NN_Encode(Len(params.prime), NN_ModExp(NN_Decode(Len(p), params.generator), x, p))

\* The public value of a private value.
R_SetupDHAgreement(privateValue, params) ==
  LET p == PrimeOf(params)
      x == NN_Decode(Len(p), privateValue)
  IN NN_Encode(Len(params.prime), NN_ModExp(NN_Decode(Len(p), params.generator), x, p))

\* The key agreed with the owner of a public value.
R_ComputeDHAgreedKey(otherPublicValue, privateValue, params) ==
  LET p == PrimeOf(params)
      x == NN_Decode(Len(p), privateValue)
      y == NN_Decode(Len(p), SubSeq(otherPublicValue, 1, Len(params.prime)))
  IN IF NN_Cmp(y, p) >= 0
       THEN [ok |-> FALSE]
       ELSE [ok |-> TRUE, key |-> NN_Encode(Len(params.prime), NN_ModExp(y, x, p))]

\* strncpy of a byte string: it ends at a zero byte.
CopiedString(s) == [i \in DOMAIN s |-> IF \E j \in 1..i : s[j] = 0 THEN 0 ELSE s[i]]

-----------------------------------------------------------------------------
VARIABLES
  pc,                    \* where process_sw is
  params2,               \* PARAMS2, and the q it was made with
  keys_exchanged,
  otherPrivateValue,     \* the private value of the first agreement
  gen_otherPublicValue,  \* and its public value
  privateValue,          \* the private value of this exchange as it was generated
                         \* (the code clears it once it is copied),
  gen_privateValue,      \* as it was copied,
  gen_publicValue,       \* and its public value
  agreedKey

exchangeVars == <<pc, params2, keys_exchanged, otherPrivateValue, gen_otherPublicValue,
                  privateValue, gen_privateValue, gen_publicValue, agreedKey>>

Unset == <<>>

Init ==
  /\ pc = "first"
  /\ params2 = [ok |-> FALSE]
  /\ keys_exchanged = 0
  /\ otherPrivateValue = Unset /\ gen_otherPublicValue = Unset
  /\ privateValue = Unset /\ gen_privateValue = Unset /\ gen_publicValue = Unset
  /\ agreedKey = Unset

\* The results of R_GenerateDHParams. process_sw calls it before the loop and
\* once in each round of it.
GeneratedParams == R_GenerateDHParams(Random, Random)

\* That the first parameters could not be generated is reported and does not end
\* the process.
GenerateFirst ==
  /\ pc = "first"
  /\ params2' \in GeneratedParams
  /\ pc' = "setup_other"
  /\ UNCHANGED <<keys_exchanged, otherPrivateValue, gen_otherPublicValue,
                 privateValue, gen_privateValue, gen_publicValue, agreedKey>>

\* One round of the loop begins. A failure ends the loop.
NextRound ==
  /\ pc = "exchange" /\ keys_exchanged # NumKeyExchange
  /\ keys_exchanged' = keys_exchanged + 1
  /\ \E params \in GeneratedParams :
       \/ /\ params.ok
          /\ params2' = params
          /\ pc' = "setup"
       \/ /\ ~params.ok
          /\ pc' = "done"
          /\ UNCHANGED params2
  /\ UNCHANGED <<otherPrivateValue, gen_otherPublicValue,
                 privateValue, gen_privateValue, gen_publicValue, agreedKey>>

\* Both parties set up their agreement with PARAMS1. The private value of a
\* round is copied before it is cleared.
Setup ==
  /\ pc \in {"setup_other", "setup"}
  /\ \E x \in PrivateValues : \E y \in {R_SetupDHAgreement(x, Params1)} :
       \/ /\ pc = "setup_other"
          /\ otherPrivateValue' = x
          /\ gen_otherPublicValue' = y
          /\ pc' = "exchange"
          /\ UNCHANGED <<privateValue, gen_privateValue, gen_publicValue>>
       \/ /\ pc = "setup"
          /\ privateValue' = x
          /\ gen_privateValue' = CopiedString(x)
          /\ gen_publicValue' = y
          /\ pc' = "agree"
          /\ UNCHANGED <<otherPrivateValue, gen_otherPublicValue>>
  /\ UNCHANGED <<params2, keys_exchanged, agreedKey>>

\* The parameters of the agreement change from round to round.
ParamsInUse == IF keys_exchanged % 2 = 0 THEN Params1 ELSE params2

\* The key is computed and printed; where it is refused, agreedKey is printed as
\* it is.
Agree ==
  /\ pc = "agree"
  /\ \E agreed \in {R_ComputeDHAgreedKey(gen_otherPublicValue, gen_privateValue, ParamsInUse)} :
       agreedKey' = IF agreed.ok THEN agreed.key ELSE Unset
  /\ pc' = "print"
  /\ UNCHANGED <<params2, keys_exchanged, otherPrivateValue, gen_otherPublicValue,
                 privateValue, gen_privateValue, gen_publicValue>>

\* The secrets are cleared before the next round.
Clear ==
  /\ pc = "print"
  /\ gen_privateValue' = Zeros(KeyLength) /\ privateValue' = Zeros(KeyLength)
  /\ agreedKey' = Unset
  /\ pc' = "exchange"
  /\ UNCHANGED <<params2, keys_exchanged, otherPrivateValue, gen_otherPublicValue, gen_publicValue>>

Stop ==
  /\ pc = "exchange" /\ keys_exchanged = NumKeyExchange
  /\ pc' = "done"
  /\ UNCHANGED <<params2, keys_exchanged, otherPrivateValue, gen_otherPublicValue,
                 privateValue, gen_privateValue, gen_publicValue, agreedKey>>

Next == GenerateFirst \/ NextRound \/ Setup \/ Agree \/ Clear \/ Stop

-----------------------------------------------------------------------------
\* The key that process_sw prints after a round with PARAMS1 is the one the
\* other party computes from its own private value and the public value of this
\* one, if the private value reached the agreement whole (strncpy ends at a
\* zero byte).
AgreedKeyIsShared ==
  pc = "print" /\ keys_exchanged % 2 = 0 /\ gen_privateValue = privateValue =>
    R_ComputeDHAgreedKey(gen_publicValue, otherPrivateValue, Params1)
      = [ok |-> TRUE, key |-> agreedKey]
=============================================================================
