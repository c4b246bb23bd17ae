----------------------------- MODULE DecimalPow ------------------------------
(***************************************************************************)
(* Pow, which calls itself with its exponent halved, on the operands of    *)
(* DecimalLaws.                                                            *)
(***************************************************************************)
EXTENDS DecimalLaws

RECURSIVE PowEven(_, _)
PowEven(d, d2) ==
    LET Squared(t) == Mul(t, t)
        ByHalf(h) == Then(PowEven(d, h), Squared)
    IN  IF IntPart(d2) = 0 THEN NewFromInt(1) ELSE Then(Div(d2, NewFromInt(2)), ByHalf)

\* Pow halves its exponent with Div, which rounds, until the integer part of
\* the exponent is 0.
RECURSIVE Pow(_, _)
Pow(d, d2) ==
    LET Squared(t) == Mul(t, t)
        ByHalf(h) == Then(Pow(d, h), Squared)
        LastFactor(t) ==
            IF IntPart(d2) % 2 = 0 THEN t
            ELSE IF IntPart(d2) > 0 THEN Mul(t, d) ELSE Div(t, d)
    IN  IF IntPart(d2) = 0 THEN NewFromInt(1)
        ELSE Then(Then(Div(d2, NewFromInt(2)), ByHalf), LastFactor)

-----------------------------------------------------------------------------
(* Pow with a whole exponent that DivisionPrecision can halve is repeated    *)
(* multiplication.                                                           *)
PowOfInteger ==
    y.exp = 0 /\ Val(y) \in 0..3 =>
        LET times[n \in 0..3] == IF n = 0 THEN 1 ELSE times[n - 1] * Val(x)
        IN  Pow(x, y) # Panic /\ Equal(Pow(x, y), New(times[Val(y)], Wrap(x.exp * Val(y))))

(* "Pow returns d to the power d2" (decimal.go:620): doubling the power      *)
(* squares the result.                                                       *)
PowDoubles ==
    LET once == Pow(x, y)
        twice == Pow(x, Add(y, y))
    IN  Equal(twice, Mul(once, once))
=============================================================================
