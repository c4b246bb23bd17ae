---------------------------- MODULE ShortestFloat ----------------------------
(***************************************************************************)
(* NewFromFloat and NewFromFloatWithExponent: from the bits of a binary    *)
(* floating-point number to a decimal (decimal-go.go, rounding.go and the  *)
(* two constructors of decimal.go).                                        *)
(*                                                                         *)
(* A format is the code's floatInfo; the checks use formats of a few bits, *)
(* and MaxShift and Size stand for the shift of one pass and the digits of *)
(* the buffer (60 and 800 in the code).  A multiprecision decimal is       *)
(* 0.d1d2d3... * 10^dp.                                                    *)
(***************************************************************************)
EXTENDS Decimal, FiniteSets

CONSTANTS Formats, MaxShift, Size,
          Exponents  \* those given to NewFromFloatWithExponent

VARIABLES flt,      \* the format
          bits      \* the number: sign, biased exponent, mantissa

-----------------------------------------------------------------------------
(* Multiprecision decimals *)

Digits(v) ==
    LET text[n \in Nat] == IF n < 10 THEN <<n>> ELSE Append(text[n \div 10], n % 10)
    IN  IF v = 0 THEN <<>> ELSE text[v]

IntOf(digits) == FoldLeft(LAMBDA n, c : 10 * n + c, 0, digits)

Untrimmed(digits, dp, trunc) == [d |-> digits, dp |-> dp, trunc |-> trunc]

\* trim
Trimmed(digits, dp, trunc) ==
    LET kept == {i \in 1..Len(digits) : digits[i] # 0}
    IN  IF kept = {} THEN Untrimmed(<<>>, 0, trunc)
        ELSE Untrimmed(SubSeq(digits, 1, CHOOSE i \in kept : \A j \in kept : j <= i), dp, trunc)

Assign(v) == Trimmed(Digits(v), Len(Digits(v)), FALSE)

\* What does not fit the buffer is dropped, and remembered if it was not zero.
Fitted(digits, dp, trunc) ==
    IF Len(digits) <= Size THEN Trimmed(digits, dp, trunc)
    ELSE Trimmed(SubSeq(digits, 1, Size), dp,
                 trunc \/ \E i \in Size + 1..Len(digits) : digits[i] # 0)

\* The digits of digits * m.
Product(digits, m) ==
    LET Step(c, acc) == LET n == acc.n + c * m
                        IN  [n |-> n \div 10, out |-> <<n % 10>> \o acc.out]
        all == FoldRight(Step, digits, [n |-> 0, out |-> <<>>])
    IN  Digits(all.n) \o all.out

\* leftcheats: the digits a shift by k adds, unless the number's digits are
\* before those of 5^k.
Power(base, k) == FoldLeft(LAMBDA digits, i : Product(digits, base), <<1>>, [i \in 1..k |-> i])
Delta(k) == IF k = 0 THEN 0 ELSE Len(Power(2, k))
CutoffRounded(k) == IF k = 0 THEN <<>> ELSE <<5>>
Cutoff(k) == IF k = 0 THEN <<>> ELSE Power(5, k)

PrefixIsLessThan(b, s) ==
    \E i \in 1..Len(s) :
        /\ \A j \in 1..i - 1 : j <= Len(b) /\ b[j] = s[j]
        /\ i > Len(b) \/ b[i] < s[i]

\* The product is laid down from the right in as many places as the table
\* says; in one too few it runs out of the buffer.
Laid(product, a, delta) ==
    IF Len(product) > Len(a.d) + delta THEN Panic
    ELSE Fitted(IF Len(product) < Len(a.d) + delta THEN <<0>> \o product ELSE product,
                a.dp + delta, a.trunc)

LeftShift(a, k) ==
    Laid(Product(a.d, 2^k), a, Delta(k) - IF PrefixIsLessThan(a.d, Cutoff(k)) THEN 1 ELSE 0)

\* Long division by 2^k: n is what has been picked up and not put down.
RECURSIVE LongDivision(_, _, _)
LongDivision(n, rest, k) ==
    IF rest # <<>>
    THEN <<n \div 2^k>> \o LongDivision(10 * (n % 2^k) + Head(rest), Tail(rest), k)
    ELSE IF n > 0 THEN <<n \div 2^k>> \o LongDivision(10 * (n % 2^k), <<>>, k)
    ELSE <<>>

\* It starts with the first r digits, as few as reach the divisor.
Lead(a, r) == IntOf([i \in 1..r |-> IF i <= Len(a.d) THEN a.d[i] ELSE 0])
Divided(a, k, r) ==
    Fitted(LongDivision(Lead(a, r), SubSeq(a.d, r + 1, Len(a.d)), k), a.dp - (r - 1), a.trunc)

RightShift(a, k) ==
    Divided(a, k, CHOOSE i \in 1..(Len(a.d) + k) : Lead(a, i) >= 2^k /\ Lead(a, i - 1) < 2^k)

RECURSIVE Shifted(_, _)
Shifted(a, k) ==
    IF a = Panic \/ a.d = <<>> \/ k = 0 THEN a
    ELSE IF k > MaxShift THEN Shifted(LeftShift(a, MaxShift), k - MaxShift)
    ELSE IF k > 0 THEN LeftShift(a, k)
    ELSE IF k < -MaxShift THEN Shifted(RightShift(a, MaxShift), k + MaxShift)
    ELSE RightShift(a, -k)

-----------------------------------------------------------------------------
(* Rounding to nd digits *)

ShouldRoundUp(a, nd) ==
    IF a.d[nd + 1] = 5 /\ nd + 1 = Len(a.d)
    THEN a.trunc \/ (nd > 0 /\ a.d[nd] % 2 # 0)
    ELSE a.d[nd + 1] >= 5

DigitsDown(a, nd) ==
    IF nd < 0 \/ nd >= Len(a.d) THEN a ELSE Trimmed(SubSeq(a.d, 1, nd), a.dp, a.trunc)

DigitsUp(a, nd) ==
    LET below9 == {i \in 1..nd : a.d[i] < 9}
        last == CHOOSE i \in below9 : \A j \in below9 : j <= i
    IN  IF nd < 0 \/ nd >= Len(a.d) THEN a
        ELSE IF below9 = {} THEN Untrimmed(<<1>>, a.dp + 1, a.trunc)
        ELSE Untrimmed([SubSeq(a.d, 1, last) EXCEPT ![last] = @ + 1], a.dp, a.trunc)

DigitsNearest(a, nd) ==
    IF nd < 0 \/ nd >= Len(a.d) THEN a
    ELSE IF ShouldRoundUp(a, nd) THEN DigitsUp(a, nd) ELSE DigitsDown(a, nd)

-----------------------------------------------------------------------------
(* The shortest decimal that is read back as the same number *)

DigitAt(a, i) == IF i \in 0..Len(a.d) - 1 THEN a.d[i + 1] ELSE 0

\* How far upper is above the digits so far, in units of the last: 0, 1 or more.
UpperDelta(before, mid, u) ==
    CASE before = 0 /\ mid + 1 < u -> 2
      [] before = 0 /\ mid + 1 >= u /\ mid # u -> 1
      [] before = 1 /\ (mid # 9 \/ u # 0) -> 2
      [] OTHER -> before

\* Digit by digit along upper, until the number differs from a bound.
RECURSIVE Walk(_, _, _, _, _, _)
Walk(d, lower, upper, inclusive, ui, before) ==
    LET mi == ui - upper.dp + d.dp
        li == ui - upper.dp + lower.dp
        okdown == DigitAt(lower, li) # DigitAt(d, mi) \/ (inclusive /\ li + 1 = Len(lower.d))
        upperdelta == UpperDelta(before, DigitAt(d, mi), DigitAt(upper, ui))
        okup == upperdelta > 0 /\ (inclusive \/ upperdelta > 1 \/ ui + 1 < Len(upper.d))
    IN  IF mi >= Len(d.d) THEN d
        ELSE IF okdown /\ okup THEN DigitsNearest(d, mi + 1)
        ELSE IF okdown THEN DigitsDown(d, mi + 1)
        ELSE IF okup THEN DigitsUp(d, mi + 1)
        ELSE Walk(d, lower, upper, inclusive, ui + 1, upperdelta)

\* The halves of the way to the next floating-point numbers.
UpperBound(mant, exp, f) == Shifted(Assign(mant * 2 + 1), exp - f.mantbits - 1)

LowerBoundSymmetric(mant, exp, f) == Shifted(Assign(mant * 2 - 1), exp - f.mantbits - 1)

LowerBound(mant, exp, f) ==
    IF mant > 2^f.mantbits \/ exp = f.bias + 1
    THEN Shifted(Assign((mant - 1) * 2 + 1), exp - f.mantbits - 1)
    ELSE Shifted(Assign((mant * 2 - 1) * 2 + 1), exp - 1 - f.mantbits - 1)

RoundShortest(d, mant, exp, f) ==
    IF mant = 0 THEN Untrimmed(<<>>, d.dp, d.trunc)
    ELSE IF exp > f.bias + 1 /\ 332 * (d.dp - Len(d.d)) >= 100 * (exp - f.mantbits) THEN d
    ELSE Walk(d, LowerBound(mant, exp, f), UpperBound(mant, exp, f), mant % 2 = 0, 0, 0)

Mantissa(b, f) == b.mant + IF b.exp = 0 THEN 0 ELSE 2^f.mantbits
Exponent(b, f) == f.bias + IF b.exp = 0 THEN 1 ELSE b.exp
IsSpecial(b, f) == b.exp = 2^f.expbits - 1       \* infinities and NaN

OfDigits(neg, d) == New((IF neg THEN -1 ELSE 1) * IntOf(d.d), d.dp - Len(d.d))

NewFromFloat(b, f) ==
    LET mant == Mantissa(b, f)
        exp == Exponent(b, f)
    IN  IF mant = 0 THEN New(0, 0)
        ELSE IF IsSpecial(b, f) THEN Panic
        ELSE OfDigits(b.neg, RoundShortest(Shifted(Assign(mant), exp - f.mantbits), mant, exp, f))

Quotient(numerator, divisor) == numerator \div divisor
RoundedQuotient(numerator, divisor) == (numerator + (divisor \div 2)) \div divisor

\* With the digits given: the multiple of 10^exp nearest to the number, or the
\* number itself when it has fewer digits.
NewFromFloatWithExponent(b, f, exp) ==
    LET odd == CHOOSE n \in 1..Mantissa(b, f) :
                  n % 2 = 1 /\ \E i \in 0..f.mantbits : Mantissa(b, f) = n * 2^i
        shifts == CHOOSE i \in 0..f.mantbits : Mantissa(b, f) = odd * 2^i
        exp2 == Exponent(b, f) - f.mantbits + shifts
        kept == IF exp < 0 /\ exp < exp2 THEN (IF exp2 < 0 THEN exp2 ELSE 0) ELSE exp
        twos == exp2 - kept
        numerator == odd * (IF kept < 0 THEN 5^(-kept) ELSE 1) * (IF twos > 0 THEN 2^twos ELSE 1)
        divisor == (IF kept > 0 THEN 5^kept ELSE 1) * (IF twos < 0 THEN 2^(-twos) ELSE 1)
        rounded == RoundedQuotient(numerator, divisor)
    IN  IF IsSpecial(b, f) THEN Panic
        ELSE IF Mantissa(b, f) = 0 THEN New(Nil, 0)
        ELSE New(IF b.neg THEN -rounded ELSE rounded, kept)

-----------------------------------------------------------------------------
Init ==
    /\ flt \in Formats
    /\ bits \in [neg : BOOLEAN, exp : 0..2^flt.expbits - 1, mant : 0..2^flt.mantbits - 1]

\* The number in units of a quarter of the smallest positive one, and the two
\* points beyond which another number is nearer.
Smallest == flt.bias + 1 - flt.mantbits - 2
Quarters(n, exp) == n * 2^(exp - flt.mantbits - Smallest)
Exact == Quarters(Mantissa(bits, flt), Exponent(bits, flt))
Top == Quarters(2 * Mantissa(bits, flt) + 1, Exponent(bits, flt)) \div 2
Bottom ==
    IF bits.mant = 0 /\ bits.exp > 1
    THEN Quarters(4 * Mantissa(bits, flt) - 1, Exponent(bits, flt)) \div 4
    ELSE Quarters(2 * Mantissa(bits, flt) - 1, Exponent(bits, flt)) \div 2

\* How n * 10^e compares with q quarters.
Against(n, e, q) ==
    LET left == n * (IF e > 0 THEN 10^e ELSE 1) * (IF Smallest < 0 THEN 2^(-Smallest) ELSE 1)
        right == q * (IF e < 0 THEN 10^(-e) ELSE 1) * (IF Smallest > 0 THEN 2^Smallest ELSE 1)
    IN  left - right

ReadsBack(n, e) ==
    /\ Against(n, e, Top) < 0 \/ (Against(n, e, Top) = 0 /\ bits.mant % 2 = 0)
    /\ Against(n, e, Bottom) > 0 \/ (Against(n, e, Bottom) = 0 /\ bits.mant % 2 = 0)

Finite == ~IsSpecial(bits, flt) /\ Mantissa(bits, flt) # 0

(* NewFromFloat's digits are read back as the same floating-point number     *)
(* ("reliable roundtrip"), no decimal with a digit less is, none of as many  *)
(* digits is nearer, and the sign is kept.                                   *)
ShortestRoundTrip ==
    Finite =>
        \E r \in {NewFromFloat(bits, flt)} : \E n \in {Magnitude(r.value)} :
            LET short == n \div 10
            IN  /\ Sign(r) = IF bits.neg THEN -1 ELSE 1
                /\ ReadsBack(n, r.exp)
                /\ \A other \in {short, short + 1} : ~ReadsBack(other, r.exp + 1)
                /\ \A other \in {n - 1, n + 1} :
                      ReadsBack(other, r.exp) =>
                          Magnitude(Against(n, r.exp, Exact)) <= Magnitude(Against(other, r.exp, Exact))

(* A shift of the digits by any number of bits, in passes of MaxShift, is    *)
(* exact, and undone by the shift the other way: the table of how many       *)
(* digits a pass adds is right for every prefix.                             *)
ShiftsExact ==
    Finite =>
        LET k == Magnitude(Exponent(bits, flt)) + flt.mantbits
        IN  \E a \in {Assign(Mantissa(bits, flt))} : \E up \in {Shifted(a, k)} :
                /\ up # Panic
                /\ up = Assign(Mantissa(bits, flt) * 2^k)
                /\ Shifted(up, -k) = a
                /\ Shifted(Shifted(a, -k), k) = a

(* NewFromFloatWithExponent gives the multiple of 10^exp nearest to the      *)
(* number, halfway away from zero; a finer exponent than the number needs    *)
(* gives the number exactly.                                                 *)
WithExponentNearest ==
    Finite => \A places \in Exponents :
        \E r \in {NewFromFloatWithExponent(bits, flt, places)} : \E n \in {Magnitude(r.value)} :
            /\ r.exp = places \/ (r.exp > places /\ Against(n, r.exp, Exact) = 0)
            /\ n # 0 => Sign(r) = IF bits.neg THEN -1 ELSE 1
            /\ 2 * Against(n, r.exp, Exact) <= Against(n + 1, r.exp, Exact) - Against(n, r.exp, Exact)
            /\ 2 * Against(n, r.exp, Exact) > Against(n - 1, r.exp, Exact) - Against(n, r.exp, Exact)

(* Both conversions of a binary floating-point number, and the shifts the    *)
(* first rests on, are right to the last digit.                              *)
FloatsFaithful == ShortestRoundTrip /\ ShiftsExact /\ WithExponentNearest
=============================================================================
