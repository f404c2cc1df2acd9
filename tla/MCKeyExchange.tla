--------------------------- MODULE MCKeyExchange ---------------------------
(* process_sw, its source of random bytes, and the arithmetic library      *)
(* under them, side by side: a behaviour is a run of process_sw, a series  *)
(* of calls of R_GenerateBytes, a message that is digested piece by piece, *)
(* or one call of the library.                                             *)
EXTENDS KeyExchange, RandomBytes

VARIABLES
  part,    \* which of the programs this is
  operand, \* the first operand of the call of the library
  result   \* the call and what it returned

allVars == <<exchangeVars, randomVars, digestVars, part, operand, result>>

Number(n, len) == [i \in 1..len |-> (n \div Base^(i - 1)) % Base]
Value(a) == FoldRightDomain(LAMBDA i, v : v * Base + a[i], a, 0)

\* Digits at which carries, borrows and estimates change.
Edges == {0, 1, Base \div 2 - 1, Base \div 2, MaxDigit - 1, MaxDigit}
Operands == [1..2 -> Edges]
Dividends == [1..3 -> 0..MaxDigit]
Modulus == Number(227, 2)

\* Random numbers, private values and the primes of a small key exchange.
MCRandom == Operands
MCPrivateValues ==
  {<<1, 2, 3, 1>> \o low : low \in {<<1, 1, 1, 1>>, <<2, 3, 1, 2>>, <<3, 3, 3, 3>>, <<1, 0, 2, 3>>}}
MCPrime1 == <<3, 2, 0, 3>>        \* 227
MCGenerator1 == <<0, 0, 0, 2>>    \* 2, of order 226

None == [op |-> "none"]

\* Where the bytes are not used, their source is of no interest.
SourceUnused == random.state = [i \in 1..StateLen |-> 0]

MCInit ==
  /\ Init /\ RandomInit /\ DigestInit /\ result = None
  /\ \/ part = "random" /\ operand = None
     \/ part \in {"exchange", "digest"} /\ operand = None /\ SourceUnused
     \/ part = "library" /\ operand \in Operands \cup Dividends /\ SourceUnused

Call ==
  LET b == operand
  IN /\ part = "library" /\ result = None
     /\ \/ /\ b \in Dividends
           /\ \E c \in Operands :
                ~NN_Zero(c) /\ result' = [op |-> "div", b |-> b, c |-> c, value |-> NN_Div(b, c)]
        \/ /\ b \in Operands
           /\ \/ \E c \in Operands :
                   result' = [op |-> "arithmetic", b |-> b, c |-> c, sum |-> NN_Add(b, c),
                              difference |-> NN_Sub(b, c), product |-> NN_Mult(b, c),
                              sign |-> NN_Cmp(b, c)]
              \/ \E n \in 0 .. DigitBits - 1 :
                   result' = [op |-> "shift", b |-> b, n |-> n,
                              left |-> NN_LShift(b, n), right |-> NN_RShift(b, n)]
              \/ \E n \in 0..40 :
                   result' = [op |-> "modexp", b |-> b, n |-> n,
                              value |-> NN_ModExp(b, Number(n, 2), Modulus)]
              \/ /\ ~NN_Zero(NN_Mod(b, Modulus))
                 /\ result' = [op |-> "inverse", b |-> b, value |-> NN_ModInv(b, Modulus),
                               gcd |-> NN_Gcd(Modulus, b)]
     /\ UNCHANGED <<exchangeVars, randomVars, digestVars, part, operand>>

\* Pieces of up to two blocks and a byte, of a message of up to five blocks.
NextBytes(n) == [i \in 1..n |-> <<"byte", Len(message) + i>>]

MCNext ==
  \/ part = "exchange" /\ Next /\ UNCHANGED <<randomVars, digestVars, part, operand, result>>
  \/ /\ part = "random" /\ \E n \in 0 .. 2 * DigestLen + 1 : R_GenerateBytes(n)
     /\ UNCHANGED <<exchangeVars, digestVars, part, operand, result>>
  \/ /\ part = "digest" /\ \E n \in 0 .. 2 * BlockLen + 1 :
          Len(message) + n <= 5 * BlockLen /\ TakeIn(NextBytes(n))
     /\ UNCHANGED <<exchangeVars, randomVars, part, operand, result>>
  \/ Call

-----------------------------------------------------------------------------
\* a^n modulo m.
PowerMod(a, n, m) == FoldRightDomain(LAMBDA i, x : (x * a) % m, Zeros(n), 1 % m)

\* The library computes what the table in dh_sw.h says, and returns the carry or
\* the borrow, at every combination of extreme digits: NN_Div too, although
\* NN_DigitDiv, whose low half nothing corrects, only returns an estimate of a
\* quotient digit.
ArithmeticIsExact ==
  LET size == Base^2
      b == Value(result.b)
      c == Value(result.c)
  IN CASE result.op = "arithmetic" ->
            /\ Value(result.sum.a) + size * result.sum.carry = b + c
            /\ Value(result.difference.a) - size * result.difference.borrow = b - c
            /\ Value(result.product) = b * c
            /\ result.sign = (IF b > c THEN 1 ELSE IF b < c THEN -1 ELSE 0)
       [] result.op = "div" ->
            /\ Value(result.value.a) = b \div c
            /\ Value(result.value.b) = b % c
       [] result.op = "shift" ->
            /\ Value(result.left.a) + size * result.left.carry = b * 2^result.n
            /\ Value(result.right) = b \div 2^result.n
       [] result.op = "modexp" -> Value(result.value) = PowerMod(b, result.n, Value(Modulus))
       [] result.op = "inverse" ->
            /\ (Value(result.value) * b) % Value(Modulus) = 1
            /\ Value(result.gcd) = 1
       [] OTHER -> TRUE
=============================================================================
