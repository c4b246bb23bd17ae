----------------------------- MODULE DecimalLaws -----------------------------
(***************************************************************************)
(* What decimal.go promises of its arithmetic, checked against exact       *)
(* integer arithmetic on operands x, y and a number of places p.           *)
(*                                                                         *)
(* A decimal is compared with its reference at a unit 10^u below both:     *)
(* At(d, u) is the integer d / 10^u.                                       *)
(***************************************************************************)
EXTENDS Decimal

CONSTANT Cases    \* the triples <<x, y, p>> that are checked

VARIABLES x, y, p

\* As fine as every scale in use, and as cents.
Unit == Min({x.exp, y.exp, -p, -2})
ZeroValue == New(Nil, 0)

\* What is used of powers of ten with exponents in S.
PowersOfTen(S) == \A m, n \in S : 10^m \in Nat \ {0} /\ 10^(m + n) = 10^m * 10^n

\* A pointer to an integer of any size, or none, and an exponent.
Decimals == [value : Int \cup {Nil}, exp : Int]

Parameters ==
    /\ Nil \notin Int /\ Panic \notin Decimals /\ Panic \notin Decimals \X Decimals
    /\ \A c \in Cases : c[1] \in Decimals /\ c[2] \in Decimals /\ c[3] \in Int

\* No exponent wraps when d is rounded to a number of places or divided by d2,
\* and a number without an integer is what Decimal{} is.
InRange(d, d2, places) ==
    /\ {d.exp, -d.exp, d2.exp, -places, -places - 1, d2.exp - places,
        d.exp + places, d.exp - d2.exp + places} \subseteq MinExp..MaxExp
    /\ d.value = Nil => d.exp = 0

\* What rounding and division need besides: that, and cents in a quotient.
RoundingParameters ==
    /\ ExpBits \in Nat \ {0}
    /\ MinExp \in Int /\ MaxExp \in Int /\ 2^ExpBits = MaxExp - MinExp + 1
    /\ MinInt \in Int /\ MaxInt \in Int /\ 2^IntBits = MaxInt - MinInt + 1
    /\ 0 \in MinInt..MaxInt
    /\ DivisionPrecision \in 2..MaxExp
    /\ \A c \in Cases : InRange(c[1], c[2], c[3])

\* And a mean: no exponent wraps when a sum is divided.
SeriesParameters ==
    \A c \in Cases : {c[1].exp + DivisionPrecision, c[2].exp + DivisionPrecision} \subseteq MinExp..MaxExp

Init == \E c \in Cases : x = c[1] /\ y = c[2] /\ p = c[3]
Next == UNCHANGED <<x, y, p>>
Spec == Init /\ [][Next]_<<x, y, p>>

-----------------------------------------------------------------------------
At(d, u) == Val(d) * 10^(d.exp - u)

\* r is the multiple of 10^e nearest to n (all in units of 10^u); when two are
\* equally near, Tie(r) says which.
IsNearest(r, n, e, u, Tie(_)) ==
    LET step == 10^(e - u)
    IN  /\ r % step = 0
        /\ 2 * Magnitude(r - n) <= step
        /\ 2 * Magnitude(r - n) = step => Tie(r)

Far(n, r) == Magnitude(r) > Magnitude(n)

(* Add, Sub, Neg, Abs and Mul are exact at every pair of scales, and Mul     *)
(* panics exactly when the exponent of the product cannot be represented.    *)
ArithmeticExact ==
    LET product == Mul(x, y)
    IN  /\ At(Add(x, y), Unit) = At(x, Unit) + At(y, Unit)
        /\ At(Sub(x, y), Unit) = At(x, Unit) - At(y, Unit)
        /\ Equal(Add(Sub(x, y), y), x) /\ Equal(Add(x, Neg(x)), NewFromInt(0))
        /\ At(Abs(x), Unit) = Magnitude(At(x, Unit))
        /\ IF x.exp + y.exp \in MinExp..MaxExp
           THEN product # Panic /\ At(product, 2 * Unit) = At(x, Unit) * At(y, Unit)
           ELSE product = Panic

(* Cmp and the comparisons made from it order numbers by what they are worth, *)
(* whatever the scales they are written in.                                  *)
OrderByWorth ==
    LET gap == At(x, Unit) - At(y, Unit)
    IN  /\ Cmp(x, y) = SignOf(gap)
        /\ Equal(x, y) <=> gap = 0
        /\ GreaterThan(x, y) <=> gap > 0
        /\ GreaterThanOrEqual(x, y) <=> gap >= 0
        /\ LessThan(x, y) <=> gap < 0
        /\ LessThanOrEqual(x, y) <=> gap <= 0

(* QuoRem's documented law: d = d2 * q + r, q a multiple of 10^-precision,   *)
(* r smaller than d2 * 10^-precision and of the sign of d.                   *)
QuoRemLaw ==
    LET u == 2 * Unit
        qr == QuoRem(x, y, p)
        rest == At(qr[2], u)
    IN  IF IsZero(y) THEN qr = Panic
        ELSE /\ qr # Panic
             /\ qr[1].exp = Wrap(-p)
             /\ At(x, u) = At(Mul(y, qr[1]), u) + rest
             /\ Magnitude(rest) < Magnitude(Val(y)) * 10^(y.exp - p - u)
             /\ rest # 0 => SignOf(rest) = Sign(x)

(* DivRound gives the multiple of 10^-precision nearest to the quotient, and *)
(* of two equally near the one away from zero.                               *)
DivNearest ==
    ~IsZero(y) =>
        LET u == 2 * Unit
            q == DivRound(x, y, p)
            miss == 2 * Magnitude(At(x, u) - At(Mul(y, q), u))
            step == Magnitude(Val(y)) * 10^(y.exp - p - u)
        IN  /\ q.exp = -p
            /\ miss <= step
            /\ miss = step => Far(At(x, u), At(Mul(y, q), u))

(* Avg is the mean rounded once, at DivisionPrecision, and neither it nor    *)
(* Sum depends on the order of the arguments.                                *)
MeanRoundedOnce ==
    LET u == Unit - DivisionPrecision
        total == At(Add(Add(x, y), y), u)
    IN  /\ At(Sum(x, <<y, y>>), u) = total
        /\ Equal(Sum(x, <<y, y>>), Sum(y, <<x, y>>))
        /\ Equal(Avg(x, <<y, y>>), Avg(y, <<x, y>>))
        /\ Avg(x, <<y, y>>).exp = -DivisionPrecision
        /\ 2 * Magnitude(3 * At(Avg(x, <<y, y>>), u) - total)
              <= 3 * 10^(-DivisionPrecision - u)

(* Min and Max bound every one of their arguments, and are among them.       *)
ExtremesOfAll ==
    \A rest \in {<<y>>, <<y, Neg(x)>>, <<Neg(y), y, x>>} :
        LET all == ToSet(rest) \cup {x}
        IN  /\ {MinOf(x, rest), MaxOf(x, rest)} \subseteq all
            /\ \A d \in all : /\ LessThanOrEqual(MinOf(x, rest), d)
                             /\ GreaterThanOrEqual(MaxOf(x, rest), d)

(* Decimal{} is 0 in every operation, on either side.                        *)
ZeroValueIsZero ==
    LET zero == NewFromInt(0)
        Same(d, d2) == IF Panic \in {d, d2} THEN d = d2 ELSE Equal(d, d2)
    IN  /\ Same(Add(ZeroValue, x), Add(zero, x)) /\ Same(Sub(x, ZeroValue), Sub(x, zero))
        /\ Same(Mul(ZeroValue, x), Mul(zero, x)) /\ Same(Div(x, ZeroValue), Div(x, zero))
        /\ ~IsZero(x) => /\ Same(Div(ZeroValue, x), Div(zero, x))
                         /\ Same(Mod(ZeroValue, x), Mod(zero, x))
        /\ Cmp(ZeroValue, x) = Cmp(zero, x) /\ Cmp(x, ZeroValue) = Cmp(x, zero)
        /\ \A d \in {Neg(ZeroValue), Abs(ZeroValue), Shift(ZeroValue, p),
                     Round(ZeroValue, p), RoundBank(ZeroValue, p), RoundUp(ZeroValue, p),
                     RoundCeil(ZeroValue, p), RoundFloor(ZeroValue, p),
                     RoundDown(ZeroValue, p), Truncate(ZeroValue, p),
                     RoundCash(ZeroValue, 5), Floor(ZeroValue), Ceil(ZeroValue)} :
              d # Panic /\ IsZero(d)

(* Round and RoundBank give the multiple of 10^-places nearest to d; halfway *)
(* Round goes away from zero and RoundBank to the even digit.                *)
RoundNearest ==
    LET u == Unit - 1
        n == At(x, u)
        Away(r) == Far(n, r)
        Even(r) == (r \div 10^(-p - u)) % 2 = 0
    IN  /\ Round(x, p).exp = -p
        /\ IsNearest(At(Round(x, p), u), n, -p, u, Away)
        /\ IsNearest(At(RoundBank(x, p), u), n, -p, u, Even)

(* The directed roundings give the next multiple of 10^-places in their      *)
(* direction: up, down, away from zero, towards zero; and leave a multiple   *)
(* as it is.                                                                 *)
RoundDirectedRight ==
    LET u == Unit - 1
        n == At(x, u)
        step == 10^(-p - u)
        down == (n \div step) * step
        up == -(((0 - n) \div step) * step)
    IN  /\ At(RoundFloor(x, p), u) = down
        /\ At(RoundCeil(x, p), u) = up
        /\ At(RoundUp(x, p), u) = (IF n < 0 THEN down ELSE up)
        /\ At(RoundDown(x, p), u) = (IF n < 0 THEN up ELSE down)

(* Floor, Ceil, Truncate and IsInteger agree with integer division, and so   *)
(* does IntPart where an int64 can hold the integer; where it cannot, the    *)
(* result has another value and the same low bits.                           *)
IntegerParts ==
    LET one == 10^(-Unit)
        n == At(x, Unit)
        cut == 10^(-p - Unit)
    IN  /\ At(Floor(x), 0) = n \div one
        /\ At(Ceil(x), 0) = -((0 - n) \div one)
        /\ IntPart(x) \in MinInt..MaxInt /\ (IntPart(x) - Quo(n, one)) % 2^IntBits = 0
        /\ Quo(n, one) \in MinInt..MaxInt => IntPart(x) = Quo(n, one)
        /\ IsInteger(x) <=> n % one = 0
        /\ At(Truncate(x, p), Unit) = (IF p >= 0 THEN Quo(n, cut) * cut ELSE n)

(* RoundCash gives the multiple of the interval (in hundredths) nearest to   *)
(* d, halfway away from zero: the multiplication, the rounding, the division *)
(* and the truncation lose nothing between them.                             *)
CashNearest ==
    \A interval \in CashIntervals :
        LET n == 100 * At(x, Unit)
            step == interval * 10^(-Unit)
            r == 100 * At(RoundCash(x, interval), Unit)
        IN  /\ r % step = 0
            /\ 2 * Magnitude(r - n) <= step
            /\ 2 * Magnitude(r - n) = step => Far(n, r)

(* Whatever is exact is exact at every pair of scales: the arithmetic and    *)
(* the order.                                                                *)
ExactAtEveryScale == ArithmeticExact /\ OrderByWorth

(* Every rounding gives the multiple it names: nearest, in its direction,    *)
(* towards an integer, to a coin, of a quotient.                             *)
RoundingRight ==
    /\ RoundNearest /\ RoundDirectedRight /\ IntegerParts /\ CashNearest
    /\ QuoRemLaw /\ DivNearest

(* A mean of several numbers is rounded once, and their extremes are theirs. *)
SeriesRight == MeanRoundedOnce /\ ExtremesOfAll
=============================================================================
