------------------------------- MODULE Decimal -------------------------------
(***************************************************************************)
(* The decimal library of src/utils/decimal: value * 10^exp with a value   *)
(* of any size and an exponent of ExpBits bits (32 in the code); an int64  *)
(* has IntBits.                                                            *)
(*                                                                         *)
(* The operators are the methods of decimal.go.  Nil is the value pointer  *)
(* of the Go zero value Decimal{}, and Panic the outcome of a call that    *)
(* does not return.  Which big.Int a result points to is the subject of    *)
(* DecimalHeap; here a decimal is its number.                              *)
(***************************************************************************)
EXTENDS Integers, Sequences, SequencesExt

CONSTANTS ExpBits,           \* width of the exponent, at least 1
          IntBits,           \* width of an int64, at least 1
          DivisionPrecision, \* the package variable, an integer
          Nil, Panic

MaxExp == 2^(ExpBits - 1) - 1
MinExp == -(2^(ExpBits - 1))

\* Go's conversion to the exponent's type.
Wrap(n) == ((n - MinExp) % 2^ExpBits) + MinExp

MaxInt == 2^(IntBits - 1) - 1
MinInt == -(2^(IntBits - 1))

\* big.Int.Int64 keeps the low bits of a number that an int64 cannot hold.
Int64(n) == ((n - MinInt) % 2^IntBits) + MinInt

Magnitude(n) == IF n < 0 THEN -n ELSE n
SignOf(n) == IF n < 0 THEN -1 ELSE IF n > 0 THEN 1 ELSE 0

\* big.Int.Quo and Rem truncate towards zero; Div and DivMod round down when
\* the divisor is positive, as \div and % do.
QuoDown(a, b) == (SignOf(b) * a) \div Magnitude(b)

Quo(a, b) == SignOf(a) * SignOf(b) * (Magnitude(a) \div Magnitude(b))
Rem(a, b) == a - b * Quo(a, b)

-----------------------------------------------------------------------------
(* Construction and the zero value *)

New(value, exp) == [value |-> value, exp |-> exp]
NewFromInt(value) == New(value, 0)

\* ensureInitialized
Val(d) == IF d.value = Nil THEN 0 ELSE d.value

\* The result of f on d, when d is a result at all.
Then(d, f(_)) == IF d = Panic THEN Panic ELSE f(d)

-----------------------------------------------------------------------------
(* Scale *)

Rescale(d, exp) ==
    LET scale == 10^Magnitude(exp - d.exp)
    IN  New(IF exp > d.exp THEN Quo(Val(d), scale) ELSE Val(d) * scale, exp)

RescalePairToCoarser(d, d2) ==
    LET base == IF d.exp >= d2.exp THEN d.exp ELSE d2.exp
    IN  <<Rescale(d, base), Rescale(d2, base)>>

RescalePair(d, d2) ==
    LET base == IF d.exp >= d2.exp THEN d2.exp ELSE d.exp
    IN  <<Rescale(d, base), Rescale(d2, base)>>

Shift(d, shift) == New(Val(d), Wrap(d.exp + shift))

-----------------------------------------------------------------------------
(* Comparison *)

CmpUnscaled(d, d2) == SignOf(Val(d) - Val(d2))

Cmp(d, d2) ==
    LET pair == RescalePair(d, d2) IN SignOf(pair[1].value - pair[2].value)

Equal(d, d2) == Cmp(d, d2) = 0
GreaterThan(d, d2) == Cmp(d, d2) = 1
GreaterThanOrEqual(d, d2) == Cmp(d, d2) \in {0, 1}
LessThan(d, d2) == Cmp(d, d2) = -1
LessThanOrEqual(d, d2) == Cmp(d, d2) \in {-1, 0}

Sign(d) == SignOf(Val(d))
IsPositive(d) == Sign(d) = 1
IsNegative(d) == Sign(d) = -1
IsZero(d) == Sign(d) = 0

MinOfUnscaled(first, rest) ==
    FoldLeft(LAMBDA ans, item : IF CmpUnscaled(item, ans) < 0 THEN item ELSE ans, first, rest)

MinOf(first, rest) ==
    FoldLeft(LAMBDA ans, item : IF Cmp(item, ans) < 0 THEN item ELSE ans, first, rest)
MaxOf(first, rest) ==
    FoldLeft(LAMBDA ans, item : IF Cmp(item, ans) > 0 THEN item ELSE ans, first, rest)

-----------------------------------------------------------------------------
(* Exact arithmetic *)

Abs(d) == IF ~IsNegative(d) THEN d ELSE New(-Val(d), d.exp)
NegUninitialized(d) == IF d.value = Nil THEN Panic ELSE New(-d.value, d.exp)
Neg(d) == New(-Val(d), d.exp)

Add(d, d2) ==
    LET pair == RescalePair(d, d2) IN New(pair[1].value + pair[2].value, pair[1].exp)
Sub(d, d2) ==
    LET pair == RescalePair(d, d2) IN New(pair[1].value - pair[2].value, pair[1].exp)

MulKeepingScale(d, d2) == New(Val(d) * Val(d2), d.exp)

\* The sum of the exponents is taken in 64 bits; out of range is a panic.
Mul(d, d2) ==
    IF d.exp + d2.exp \in MinExp..MaxExp
    THEN New(Val(d) * Val(d2), d.exp + d2.exp)
    ELSE Panic

Sum(first, rest) == FoldLeft(Add, first, rest)

-----------------------------------------------------------------------------
(* Division.  The exponents are subtracted in ExpBits bits, so the check    *)
(* for an overflow that follows sees a number that is always in range.      *)

QuoRem(d, d2, precision) ==
    LET scale == Wrap(-precision)
        e == Wrap(d.exp - d2.exp - scale)
        aa == IF e < 0 THEN Val(d) ELSE Val(d) * 10^e
        bb == IF e < 0 THEN Val(d2) * 10^(-e) ELSE Val(d2)
        scalerest == IF e < 0 THEN d.exp ELSE Wrap(scale + d2.exp)
    IN  IF Val(d2) = 0 \/ e \notin MinExp..MaxExp
        THEN Panic
        ELSE <<New(Quo(aa, bb), scale), New(Rem(aa, bb), scalerest)>>

DivRoundCut(d, d2, precision) ==
    LET Quotient(qr) == qr[1] IN Then(QuoRem(d, d2, precision), Quotient)

\* Twice the remainder, at the divisor's scale, decides the last digit.
DivRound(d, d2, precision) ==
    LET Decide(qr) ==
            LET r2 == New(2 * Magnitude(qr[2].value), Wrap(qr[2].exp + precision))
                last == New(1, Wrap(-precision))
            IN  CASE Cmp(r2, Abs(d2)) < 0 -> qr[1]
                  [] Cmp(r2, Abs(d2)) >= 0 /\ Sign(d) * Sign(d2) < 0 -> Sub(qr[1], last)
                  [] OTHER -> Add(qr[1], last)
    IN  Then(QuoRem(d, d2, precision), Decide)

Div(d, d2) == DivRound(d, d2, Wrap(DivisionPrecision))

AvgOfShares(first, rest) ==
    LET Share(d) == Div(d, NewFromInt(Len(rest) + 1))
    IN  FoldLeft(LAMBDA total, d : Add(total, Share(d)), Share(first), rest)

Avg(first, rest) == Div(Sum(first, rest), NewFromInt(Len(rest) + 1))

-----------------------------------------------------------------------------
(* Integers *)

IntPart(d) == Int64(Rescale(d, 0).value)

\* Digit by digit, for as many digits as abs(exp) says; abs is an int32's.
IsInteger(d) ==
    \/ d.exp >= 0
    \/ \A z \in 1..Wrap(-d.exp) : Rem(Quo(d.value, 10^(z - 1)), 10) = 0

Floor(d) == IF d.exp >= 0 THEN d ELSE NewFromInt(Val(d) \div 10^(-d.exp))

CeilOfQuo(d) ==
    LET unit == 10^(-d.exp)
    IN  IF d.exp >= 0 THEN d
        ELSE NewFromInt(Quo(Val(d), unit) + IF Val(d) % unit # 0 THEN 1 ELSE 0)

Ceil(d) ==
    LET unit == 10^(-d.exp)
    IN  IF d.exp >= 0 THEN d
        ELSE NewFromInt((Val(d) \div unit) + IF Val(d) % unit # 0 THEN 1 ELSE 0)

Truncate(d, precision) ==
    IF precision >= 0 /\ -precision > d.exp THEN Rescale(d, -precision) ELSE d

Mod(d, d2) ==
    LET Rest(product) == Sub(d, product)
        Product(quo) == Mul(d2, Truncate(quo, 0))
    IN  Then(Then(Div(d, d2), Product), Rest)

-----------------------------------------------------------------------------
(* Rounding *)

RoundHalfUp(d, places) ==
    New((Rescale(d, Wrap(-places - 1)).value + 5) \div 10, Wrap(-places))

Round(d, places) ==
    LET ret == Rescale(d, Wrap(-places - 1))
        half == ret.value + IF ret.value < 0 THEN -5 ELSE 5
        floor == half \div 10
        up == IF floor < 0 /\ half % 10 # 0 THEN 1 ELSE 0
    IN  IF d.exp = Wrap(-places) THEN d ELSE New(floor + up, Wrap(ret.exp + 1))

RoundDirectedAlways(d, places, step) ==
    IF d.exp >= Wrap(-places) THEN d
    ELSE New(Rescale(d, Wrap(-places)).value + step, Wrap(-places))

\* The four directed roundings differ only in what they add to a number that
\* the rescaling has changed.
RoundDirected(d, places, step) ==
    LET rescaled == Rescale(d, Wrap(-places))
    IN  IF d.exp >= Wrap(-places) \/ Equal(d, rescaled)
        THEN d ELSE New(rescaled.value + step, rescaled.exp)

RoundCeil(d, places) == RoundDirected(d, places, IF Sign(d) > 0 THEN 1 ELSE 0)
RoundFloor(d, places) == RoundDirected(d, places, IF Sign(d) < 0 THEN -1 ELSE 0)
RoundUp(d, places) == RoundDirected(d, places, Sign(d))
RoundDown(d, places) == RoundDirected(d, places, 0)

RoundBank(d, places) ==
    LET round == Round(d, places)
        tie == Equal(Abs(Sub(d, round)), New(5, Wrap(-places - 1)))
        step == IF Sign(round) < 0 THEN 1 ELSE -1
    IN  IF tie /\ Val(round) % 2 # 0
        THEN New(round.value + step, round.exp) ELSE round

CashIntervals == {5, 10, 25, 50, 100}

RoundCashToEven(d, interval) ==
    LET unit == NewFromInt(100 \div interval)
        Rounded(product) == Div(RoundBank(product, 0), unit)
    IN  Then(Mul(d, unit), Rounded)

RoundCash(d, interval) ==
    LET unit == NewFromInt(100 \div interval)
        Rounded(product) == Div(Round(product, 0), unit)
        Cut(quo) == Truncate(quo, 2)
    IN  IF interval \notin CashIntervals THEN Panic
        ELSE Then(Then(Mul(d, unit), Rounded), Cut)
=============================================================================
