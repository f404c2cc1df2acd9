------------------------------- MODULE Bignum -------------------------------
(* The multiple-precision arithmetic of dh_sw.cpp. A natural number is a   *)
(* sequence of digits, least significant first; a digit is a word of       *)
(* 2 * HalfBits bits whose overflow the code relies on.                    *)
EXTENDS Integers, Sequences, SequencesExt

CONSTANT HalfBits  \* NN_HALF_DIGIT_BITS

ASSUME HalfBitsAssumption == HalfBits \in Nat \ {0}

DigitBits == 2 * HalfBits
HalfBase  == 2 ^ HalfBits
Base      == 2 ^ DigitBits
MaxDigit  == Base - 1
MaxHalf   == HalfBase - 1

\* What an assignment to a digit, or to half a digit, keeps of a value.
Wrap(x)     == x % Base
WrapHalf(x) == x % HalfBase

HighHalf(x)   == x \div HalfBase
LowHalf(x)    == x % HalfBase
ToHighHalf(x) == Wrap(x * HalfBase)

\* op(x), where x is computed before op begins: the rounds of a loop, each an
\* argument of the next, follow each other and do not nest when TLC evaluates them.
OnceComputed(x, op(_)) == CHOOSE y \in {op(v) : v \in {x}} : TRUE

Zeros(n) == [i \in 1..n |-> 0]

\* NN_ASSIGN_DIGIT: the number of n digits whose value is the digit x.
Small(x, n) == [i \in 1..n |-> IF i = 1 THEN x ELSE 0]

\* The array s after the digits t were written to it from index i on.
Splice(s, i, t) == SubSeq(s, 1, i - 1) \o t \o SubSeq(s, i + Len(t), Len(s))

-----------------------------------------------------------------------------
(* One digit. *)

NN_DigitBits(a) == CHOOSE i \in 0..DigitBits : a < 2^i /\ \A j \in 0 .. i - 1 : a >= 2^j

\* b * c in two digits, from the products of the halves.
NN_DigitMult(b, c) ==
  LET middle == Wrap(LowHalf(b) * HighHalf(c) + HighHalf(b) * LowHalf(c))
      carry  == IF middle < HighHalf(b) * LowHalf(c) THEN ToHighHalf(1) ELSE 0
      low    == Wrap(LowHalf(b) * LowHalf(c) + ToHighHalf(middle))
      lost   == IF low < ToHighHalf(middle) THEN 1 ELSE 0
  IN <<low, Wrap(HighHalf(b) * HighHalf(c) + carry + lost + HighHalf(middle))>>

\* The two digits t minus the digit x of the lower one: a borrow shows as a
\* difference above MaxDigit - x.
Minus(t, x) ==
  LET low == Wrap(t[1] - x)
  IN <<low, IF low > MaxDigit - x THEN Wrap(t[2] - 1) ELSE t[2]>>

MinusHigh(t, x) == <<t[1], Wrap(t[2] - x)>>

\* The correction of the high half of a quotient: c is subtracted, half a digit
\* to the left, for as long as it fits.
RECURSIVE CorrectHigh(_, _, _)
CorrectHigh(aHigh, t, c) ==
  IF t[2] > HighHalf(c) \/ (t[2] = HighHalf(c) /\ t[1] >= ToHighHalf(LowHalf(c)))
    THEN CorrectHigh(WrapHalf(aHigh + 1),
                     MinusHigh(Minus(t, ToHighHalf(LowHalf(c))), HighHalf(c)), c)
    ELSE [aHigh |-> aHigh, t |-> t]

\* The low half of a quotient is left to the accelerator. process_sw never
\* waits, so that no signal changes while it runs: each call finds hw_enable and
\* hw_done FALSE, writes the operands and returns, and aLow stays the estimate.
NN_DigitDivLH(aLow, t, c) == aLow

\* The rest of b when the half digit aHigh was taken as the high half of b / c.
AfterHigh(b, aHigh, c) ==
  LET u == aHigh * LowHalf(c)
  IN CorrectHigh(aHigh, MinusHigh(MinusHigh(Minus(b, ToHighHalf(u)), HighHalf(u)),
                                  aHigh * HighHalf(c)), c)

\* The quotient from its high half and what that leaves.
WithLow(high, c) ==
  LET t    == high.t
      aLow == IF HighHalf(c) = MaxHalf
                THEN LowHalf(t[2])
                ELSE WrapHalf(Wrap(ToHighHalf(t[2]) + HighHalf(t[1])) \div (HighHalf(c) + 1))
  IN Wrap(ToHighHalf(high.aHigh) + NN_DigitDivLH(aLow, t, c))

\* b / c for two digits b and a digit c, as far as the low half goes.
NN_DigitDiv(b, c) ==
  LET aHigh == IF HighHalf(c) = MaxHalf
                 THEN HighHalf(b[2])
                 ELSE WrapHalf(b[2] \div (HighHalf(c) + 1))
  IN WithLow(AfterHigh(b, aHigh, c), c)

-----------------------------------------------------------------------------
(* Comparison and length. *)

NN_Digits(a) ==
  CHOOSE n \in 0 .. Len(a) : (n = 0 \/ a[n] # 0) /\ \A i \in n + 1 .. Len(a) : a[i] = 0

NN_Zero(a) == \A i \in DOMAIN a : a[i] = 0

\* The sign of a - b.
NN_Cmp(a, b) ==
  LET differ == {i \in DOMAIN a : a[i] # b[i]}
      top    == CHOOSE i \in differ : \A j \in differ : j <= i
  IN IF differ = {} THEN 0 ELSE IF a[top] > b[top] THEN 1 ELSE -1

-----------------------------------------------------------------------------
(* Sums, differences and shifts, with the carry that is returned. *)

\* As if a digit that the carry wraps could not carry on.
NN_Add_CarryLost(b, c) ==
  LET Step(s, i) ==
        LET ai == Wrap(b[i] + s.carry + c[i])
        IN [a |-> Append(s.a, ai), carry |-> IF ai < c[i] THEN 1 ELSE 0]
  IN FoldLeftDomain(Step, [a |-> <<>>, carry |-> 0], b)

NN_Add(b, c) ==
  LET Step(s, i) ==
        LET bi == Wrap(b[i] + s.carry)
            ai == Wrap(bi + c[i])
        IN IF bi < s.carry
             THEN [a |-> Append(s.a, c[i]), carry |-> s.carry]
             ELSE [a |-> Append(s.a, ai), carry |-> IF ai < c[i] THEN 1 ELSE 0]
  IN FoldLeftDomain(Step, [a |-> <<>>, carry |-> 0], b)

NN_Sub(b, c) ==
  LET Step(s, i) ==
        LET bi == Wrap(b[i] - s.borrow)
            ai == Wrap(bi - c[i])
        IN IF bi > MaxDigit - s.borrow
             THEN [a |-> Append(s.a, MaxDigit - c[i]), borrow |-> s.borrow]
             ELSE [a |-> Append(s.a, ai), borrow |-> IF ai > MaxDigit - c[i] THEN 1 ELSE 0]
  IN FoldLeftDomain(Step, [a |-> <<>>, borrow |-> 0], b)

\* b * 2^n for n < DigitBits.
NN_LShift(b, n) ==
  LET Carry(i) == IF n = 0 \/ i = 0 THEN 0 ELSE b[i] \div 2^(DigitBits - n)
  IN [a |-> [i \in DOMAIN b |-> Wrap(b[i] * 2^n) + Carry(i - 1)], carry |-> Carry(Len(b))]

\* b \div 2^n for n < DigitBits.
NN_RShift(b, n) ==
  LET Carry(i) == IF n = 0 \/ i > Len(b) THEN 0 ELSE Wrap(b[i] * 2^(DigitBits - n))
  IN [i \in DOMAIN b |-> b[i] \div 2^n + Carry(i + 1)]

\* b + c * d for a digit c, and b - c * d: each round adds (takes off) the two
\* digits t of a product and what the round before carried (borrowed).
NN_AddDigitMult(b, c, d) ==
  LET Sum(s, sum, t) ==
        LET ai == Wrap(sum + t[1])
        IN [a     |-> Append(s.a, ai),
            carry |-> Wrap((IF sum < s.carry THEN 1 ELSE 0) + (IF ai < t[1] THEN 1 ELSE 0) + t[2])]
      Step(s, i) == Sum(s, Wrap(b[i] + s.carry), NN_DigitMult(c, d[i]))
  IN IF c = 0 THEN [a |-> b, carry |-> 0] ELSE FoldLeftDomain(Step, [a |-> <<>>, carry |-> 0], d)

NN_SubDigitMult(b, c, d) ==
  LET Difference(s, less, t) ==
        LET ai == Wrap(less - t[1])
        IN [a      |-> Append(s.a, ai),
            borrow |-> Wrap((IF less > MaxDigit - s.borrow THEN 1 ELSE 0)
                            + (IF ai > MaxDigit - t[1] THEN 1 ELSE 0) + t[2])]
      Step(s, i) == Difference(s, Wrap(b[i] - s.borrow), NN_DigitMult(c, d[i]))
  IN IF c = 0 THEN [a |-> b, borrow |-> 0] ELSE FoldLeftDomain(Step, [a |-> <<>>, borrow |-> 0], d)

-----------------------------------------------------------------------------
(* Products and quotients. *)

\* The digits of a sum, with its carry added to the digit above them.
CarriedInto(sum, above)         == Append(sum.a, Wrap(above + sum.carry))
BorrowedFrom(difference, above) == Append(difference.a, Wrap(above - difference.borrow))

NN_Mult(b, c) ==
  LET cs == SubSeq(c, 1, NN_Digits(c))
      Added(t, i) ==
        LET sum == NN_AddDigitMult(SubSeq(t, i, i + Len(cs) - 1), b[i], cs)
        IN Splice(t, i, CarriedInto(sum, t[i + Len(cs)]))
      Step(t, i) == OnceComputed(t, LAMBDA product : Added(product, i))
  IN FoldLeftDomain(Step, Zeros(2 * Len(b)), SubSeq(b, 1, NN_Digits(b)))

\* The subtractions are not counted in the quotient digit.
RECURSIVE CorrectDigit_NotCounted(_, _, _)
CorrectDigit_NotCounted(ai, part, dd) ==
  LET n   == Len(dd)
      low == SubSeq(part, 1, n)
  IN IF part[n + 1] # 0 \/ NN_Cmp(low, dd) >= 0
       THEN CorrectDigit_NotCounted(ai, BorrowedFrom(NN_Sub(low, dd), part[n + 1]), dd)
       ELSE [ai |-> ai, part |-> part]

\* The correction of a quotient digit: dd is subtracted for as long as it fits.
RECURSIVE CorrectDigit(_, _, _)
CorrectDigit(ai, part, dd) ==
  LET n   == Len(dd)
      low == SubSeq(part, 1, n)
  IN IF part[n + 1] # 0 \/ NN_Cmp(low, dd) >= 0
       THEN CorrectDigit(Wrap(ai + 1), BorrowedFrom(NN_Sub(low, dd), part[n + 1]), dd)
       ELSE [ai |-> ai, part |-> part]

\* One quotient digit from its estimate guess, and what it leaves of part.
Subtracted(part, guess, dd) ==
  LET n == Len(dd)
  IN CorrectDigit(guess, BorrowedFrom(NN_SubDigitMult(SubSeq(part, 1, n), guess, dd), part[n + 1]), dd)

QuotientDigit(part, dd) ==
  LET n == Len(dd)
  IN Subtracted(part, IF dd[n] = MaxDigit THEN part[n + 1]
                      ELSE NN_DigitDiv(<<part[n], part[n + 1]>>, dd[n] + 1), dd)

\* The m rounds of the division of cc by the normalized dd.
Rounds(cc, dd, m) ==
  LET Put(s, i, digit) == [cc |-> Splice(s.cc, i, digit.part), a |-> Splice(s.a, i, <<digit.ai>>)]
      Divided(i, s)    == Put(s, i, QuotientDigit(SubSeq(s.cc, i, i + Len(dd)), dd))
      Round(i, s)      == OnceComputed(s, LAMBDA left : Divided(i, left))
  IN FoldRightDomain(Round, Zeros(m), [cc |-> cc, a |-> Zeros(m + Len(dd) - 1)])

\* The quotient and the remainder of c by d, for d > 0: the operands are shifted
\* until the top bit of d is set, then there is one quotient digit per round.
NN_Div(c, d) ==
  LET n     == NN_Digits(d)
      shift == DigitBits - NN_DigitBits(d[n])
      Carried(moved) == Append(moved.a, moved.carry) \o Zeros(n)
      Restored(last) == [a |-> last.a, b |-> NN_RShift(SubSeq(last.cc, 1, n), shift) \o Zeros(Len(d) - n)]
  IN Restored(Rounds(Carried(NN_LShift(c, shift)), NN_LShift(SubSeq(d, 1, n), shift).a, Len(c) - n + 1))

NN_Mod(b, c) == NN_Div(b, c).b

NN_ModMult(b, c, d) == OnceComputed(NN_Mult(b, c), LAMBDA t : NN_Mod(t, d))

-----------------------------------------------------------------------------
(* Number theory. *)

\* b^c mod d: two bits of the exponent a round, from the highest that are set. A
\* round computes t^4 * b^s for the two bits s: squared (0) twice, then, where s
\* is not 0, multiplied by one of the three powers of b.
NN_ModExp(b, c, d) ==
  LET Times(x, y) == OnceComputed(<<x, y>>, LAMBDA t : NN_ModMult(t[1], t[2], d))
      Power(s)    == FoldLeft(LAMBDA x, i : Times(x, b), b, Zeros(s - 1))
      Bits2(k)    == (c[k \div HalfBits + 1] \div 4^(k % HalfBits)) % 4
      Factors(s)  == <<0, 0>> \o (IF s = 0 THEN <<>> ELSE <<s>>)
      Round(k, t) == FoldLeft(LAMBDA x, s : Times(x, IF s = 0 THEN x ELSE Power(s)),
                              t, Factors(Bits2(k - 1)))
      leading     == {k \in 0 .. NN_Digits(c) * HalfBits - 1 : Bits2(k) # 0}
      rounds      == {0} \cup {k + 1 : k \in leading}
  IN FoldRightDomain(Round, Zeros(CHOOSE n \in rounds : \A k \in rounds : k <= n), Small(1, Len(d)))

\* The rounds of the extended Euclidean algorithm without negative numbers.
RECURSIVE Euclid(_, _, _, _, _)
Euclid(u1, v1, u3, v3, sign) ==
  LET Next(division) ==
        Euclid(v1, NN_Add(u1, SubSeq(NN_Mult(division.a, v1), 1, Len(u1))).a, v3, division.b, -sign)
  IN IF NN_Zero(v3) THEN [u1 |-> u1, u3 |-> u3, sign |-> sign] ELSE Next(NN_Div(u3, v3))

\* 1 / b mod c, for b and c without a common divisor.
NN_ModInv(b, c) ==
  LET Signed(end) == IF end.sign < 0 THEN NN_Sub(c, end.u1).a ELSE end.u1
  IN Signed(Euclid(Small(1, Len(b)), Zeros(Len(b)), b, c, 1))

RECURSIVE NN_Gcd(_, _)
NN_Gcd(b, c) == IF NN_Zero(c) THEN b ELSE NN_Gcd(c, NN_Mod(b, c))

-----------------------------------------------------------------------------
(* Primes. *)

SmallPrimes == {3, 5, 7, 11}

SmallFactor(a) ==
  \E p \in SmallPrimes :
    /\ NN_Zero(NN_Mod(a, <<p>>))
    /\ Len(a) = 1 => \A q \in SmallPrimes : q <= p => NN_Cmp(a, <<q>>) # 0

FermatTest(a) ==
  NN_Cmp(NN_ModExp(Small(2, Len(a)), a, a), Small(2, Len(a))) = 0

ProbablePrime(a) == ~SmallFactor(a) /\ FermatTest(a)

\* The first probable prime from a on in steps of d. c is the bound.
RECURSIVE Search(_, _, _)
Search(a, c, d) ==
  IF ProbablePrime(a) THEN [ok |-> TRUE, a |-> a]
  ELSE IF NN_Cmp(a, NN_Sub(c, d).a) > 0 THEN [ok |-> FALSE, a |-> a]
  ELSE Search(NN_Add(a, d).a, c, d)

\* The number between b and c that the random number r stands for.
Inside(r, b, c) ==
  NN_Add(NN_Mod(r, NN_Add(NN_Sub(c, b).a, Small(1, Len(b))).a), b).a

\* The number next to a, between b and c, that is one more than a multiple of d.
Aligned(a, b, c, d) ==
  LET Raised(x)  == IF NN_Cmp(x, b) < 0 THEN NN_Add(x, d).a ELSE x
      Lowered(x) == IF NN_Cmp(x, c) > 0 THEN NN_Sub(x, d).a ELSE x
  IN Lowered(Raised(NN_Add(NN_Sub(a, NN_Mod(a, d)).a, Small(1, Len(a))).a))

\* A probable prime between b and c of the form k * d + 1, from the random
\* number r; ok is FALSE where the code returns RE_DATA.
GeneratePrime(r, b, c, d) == Search(Aligned(Inside(r, b, c), b, c, d), c, d)
=============================================================================
