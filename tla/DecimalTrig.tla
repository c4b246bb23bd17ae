----------------------------- MODULE DecimalTrig -----------------------------
(***************************************************************************)
(* Sin, Cos, Tan and Atan of decimal.go: how an argument is brought into   *)
(* the range where a polynomial stands for the function, and how the       *)
(* polynomial's value is turned back.  A polynomial is its name here: the  *)
(* result [sign, fn, arg] is sign * fn(arg).                               *)
(*                                                                         *)
(* An angle is -1^neg * (octant * PerOctant + rest), in units of which     *)
(* PerOctant make pi/4: octant is what multiplying by M4PI and IntPart     *)
(* give.  The code's constants are decimals of sixteen digits: M4PI is not *)
(* 4/pi, so that an angle within Slack of a multiple of pi/4 may be given  *)
(* the octant beside its own, and PI4A, PI4B and PI4C together are Drift   *)
(* less than pi/4.  The angles are those whose octant is of MaxOctant at   *)
(* most: to there j, an int64, and y, made from float64(j), are exact;     *)
(* beyond, the code loses the angle.  The argument of Atan is steep/100.   *)
(***************************************************************************)
EXTENDS Integers

CONSTANTS PerOctant, Slack, Drift,
          MantBits,    \* width of a float64's significand, 53
          MaxOctant, Slopes

ASSUME PerOctantAssumption == PerOctant \in Nat \ {0}
ASSUME SlackAssumption == Slack \in Nat /\ Slack < PerOctant
ASSUME DriftAssumption == Drift \in Int
ASSUME MaxOctantAssumption == MaxOctant \in Nat /\ MaxOctant + 1 <= 2^MantBits
ASSUME SlopesAssumption == Slopes \subseteq Int

VARIABLES neg, octant, rest, steep
vars == <<neg, octant, rest, steep>>

Pole == [fn |-> "panic"]
Result(sign, fn, arg) == [sign |-> sign, fn |-> fn, arg |-> arg]
Signed(minus) == IF minus THEN -1 ELSE 1

-----------------------------------------------------------------------------
(* Octants *)

NotToOrigin(j) == j

\* An odd octant is measured back from its end: j and y are one more.
ToOrigin(j) == IF j % 2 = 1 THEN j + 1 ELSE j

\* What is left of the angle after y times the three parts of pi/4.
Reduced(j, f) == j * PerOctant + f - ToOrigin(j) * (PerOctant - Drift)

IsZeroAngle == octant = 0 /\ rest = 0

SinUnreflected ==
    LET k == ToOrigin(octant) % 4
    IN  Result(Signed(neg), IF k \in {1, 2} THEN "cos" ELSE "sin", Reduced(octant, rest))

Sin ==
    LET j == ToOrigin(octant) % 8
        minus == neg # (j > 3)
        k == IF j > 3 THEN j - 4 ELSE j
    IN  IF IsZeroAngle THEN Result(1, "sin", 0)
        ELSE Result(Signed(minus), IF k \in {1, 2} THEN "cos" ELSE "sin", Reduced(octant, rest))

CosUnreflected ==
    LET j == ToOrigin(octant) % 8
        k == IF j > 3 THEN j - 4 ELSE j
    IN  Result(Signed(k > 1), IF k \in {1, 2} THEN "sin" ELSE "cos", Reduced(octant, rest))

Cos ==
    LET j == ToOrigin(octant) % 8
        k == IF j > 3 THEN j - 4 ELSE j
        minus == (j > 3) # (k > 1)
    IN  Result(Signed(minus), IF k \in {1, 2} THEN "sin" ELSE "cos", Reduced(octant, rest))

TanUnmapped ==
    IF (octant \div 2) % 2 = 0
    THEN Result(Signed(neg), "tan", Reduced(octant, rest))
    ELSE Result(Signed(~neg), "1/tan", Reduced(octant, rest))

\* For every other octant pair the result is -1/tan; at the pole itself that
\* is a division by zero.
Tan ==
    LET z == Reduced(octant, rest)
        inverted == (ToOrigin(octant) \div 2) % 2 = 1
    IN  IF IsZeroAngle THEN Result(1, "tan", 0)
        ELSE IF ~inverted THEN Result(Signed(neg), "tan", z)
        ELSE IF z = 0 THEN Pole
        ELSE Result(Signed(~neg), "1/tan", z)

-----------------------------------------------------------------------------
(* Slopes: base eighths of pi, plus xatan of num/den. *)

Part(sign, base, num, den) == [sign |-> sign, base |-> base, num |-> num, den |-> den]

\* tan(3*pi/8) is 2.414 in the units of steep.
SatanUnsplit(d) == IF d <= 66 THEN Part(1, 0, d, 100) ELSE Part(1, 4, -100, d)

Satan(d) ==
    IF d <= 66 THEN Part(1, 0, d, 100)
    ELSE IF d > 241 THEN Part(1, 4, -100, d)
    ELSE Part(1, 2, d - 100, d + 100)

Atan ==
    IF steep = 0 THEN Part(1, 0, 0, 1)
    ELSE IF steep > 0 THEN Satan(steep)
    ELSE [Satan(-steep) EXCEPT !.sign = -1]

-----------------------------------------------------------------------------
Init ==
    /\ neg \in BOOLEAN /\ octant \in 0..MaxOctant
    /\ rest \in (-Slack)..(PerOctant - 1 + Slack) /\ (octant = 0 => rest >= 0)
    /\ steep \in Slopes
Next == UNCHANGED vars
Spec == Init /\ [][Next]_vars

(* The angle is its reduced part and a number of quarter turns.  The sine    *)
(* and the cosine of the sum, by quarter turns: sin, cos, -sin, -cos and     *)
(* cos, -sin, -cos, sin of the reduced part.                                 *)
Quarter == (ToOrigin(octant) \div 2) % 4

(* The polynomials are used within pi/4 of zero, where they are good, and    *)
(* the angle is a number of quarter turns from the argument they get: both   *)
(* but for what the constants lack, which grows with the angle.              *)
ReducedToOctant ==
    LET z == Reduced(octant, rest)
        lost == ToOrigin(octant) * Drift
    IN  /\ z - lost \in -(PerOctant + Slack)..(PerOctant + Slack)
        /\ ToOrigin(octant) * PerOctant + z = octant * PerOctant + rest + lost
        /\ ToOrigin(octant) % 2 = 0

(* Sin and Cos are the sine and the cosine of the angle, in every octant and *)
(* for both signs.                                                           *)
SinIsSine ==
    /\ Sin.fn = IF Quarter \in {0, 2} THEN "sin" ELSE "cos"
    /\ ~IsZeroAngle => Sin.sign = Signed(neg # (Quarter >= 2))

CosIsCosine ==
    /\ Cos.fn = IF Quarter \in {0, 2} THEN "cos" ELSE "sin"
    /\ Cos.sign = Signed(Quarter \in {1, 2})

(* Tan is the quotient of the two, and panics exactly where the constants    *)
(* put a pole.                                                               *)
TanIsQuotient ==
    LET quotient == Sin.sign * Cos.sign
    IN  IF Tan = Pole THEN Quarter \in {1, 3} /\ Reduced(octant, rest) = 0
        ELSE /\ Tan.fn = IF Sin.fn = "sin" THEN "tan" ELSE "1/tan"
             /\ ~IsZeroAngle => Tan.sign = quotient
             /\ Tan.arg = Reduced(octant, rest)

(* Atan's parts add up to an angle whose tangent is the argument, and xatan  *)
(* is used within 0.66 of zero: tan(pi/4 + atan(a)) = (1 + a)/(1 - a) and    *)
(* tan(pi/2 + atan(a)) = -1/a.                                               *)
AddsUpTo(a, magnitude) ==
    /\ 100 * (IF a.num < 0 THEN -a.num ELSE a.num) <= 66 * a.den
    /\ \/ a.base = 0 /\ a.num * 100 = magnitude * a.den
       \/ a.base = 2 /\ (a.den + a.num) * 100 = magnitude * (a.den - a.num)
       \/ a.base = 4 /\ -a.den * 100 = magnitude * a.num

AtanIsInverse == AddsUpTo(Atan, steep * Atan.sign)

(* The four functions are what they are called: see each part above.         *)
TrigRight == ReducedToOctant /\ SinIsSine /\ CosIsCosine /\ TanIsQuotient /\ AtanIsInverse
=============================================================================
