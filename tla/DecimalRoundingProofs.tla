------------------------ MODULE DecimalRoundingProofs ------------------------
(***************************************************************************)
(* Rounding and division of decimals of any size, at any scale and to any  *)
(* number of places. What is used of powers of ten is again the hypothesis *)
(* PowersOfTen.                                                            *)
(***************************************************************************)
EXTENDS DecimalProofs, WellFoundedInduction

-----------------------------------------------------------------------------
(* Integer division. *)

\* Division by a positive number leaves a remainder below it.
LEMMA DivIs ==
    ASSUME NEW a \in Int, NEW b \in Nat \ {0}
    PROVE  /\ a \div b \in Int /\ a % b \in Int
           /\ a = (a \div b) * b + (a % b) /\ 0 <= a % b /\ a % b < b
  OBVIOUS

\* Only one quotient does.
LEMMA DivUnique ==
    ASSUME NEW a \in Int, NEW b \in Nat \ {0}, NEW q \in Int, q * b <= a, a < q * b + b
    PROVE  a \div b = q /\ a % b = a - q * b
<1>1. a \div b = q
  OBVIOUS
<1> QED BY <1>1, DivIs

\* A multiple is divided without a remainder.
LEMMA DivMultiple ==
    ASSUME NEW m \in Int, NEW b \in Nat \ {0}
    PROVE  (m * b) \div b = m /\ (m * b) % b = 0
<1>1. m * b \in Int /\ m * b < m * b + b
  OBVIOUS
<1> QED BY <1>1, DivUnique

\* A common factor cancels.
LEMMA DivScaled ==
    ASSUME NEW a \in Int, NEW b \in Nat \ {0}, NEW q \in Nat \ {0}
    PROVE  (a * q) \div (b * q) = a \div b /\ (a * q) % (b * q) = (a % b) * q
<1> DEFINE m == a \div b  r == a % b
<1>1. m \in Int /\ r \in Int /\ a = m * b + r /\ 0 <= r /\ r <= b - 1
  BY DivIs
<1> HIDE DEF m, r
<1>2. b * q \in Nat \ {0} /\ a * q \in Int
  OBVIOUS
<1>3. a * q = m * (b * q) + r * q
  BY <1>1
<1>4. 0 <= r * q /\ r * q <= (b - 1) * q /\ (b - 1) * q = b * q - q
  BY <1>1
<1>5. m * (b * q) <= a * q /\ a * q < m * (b * q) + b * q
  BY <1>1, <1>2, <1>3, <1>4
<1>6. (a * q) \div (b * q) = m /\ (a * q) % (b * q) = a * q - m * (b * q)
  <2> DEFINE aa == a * q  bb == b * q
  <2> HIDE DEF aa, bb
  <2>1. aa \in Int /\ bb \in Nat \ {0} /\ m * bb <= aa /\ aa < m * bb + bb
    BY <1>2, <1>5 DEF aa, bb
  <2>2. aa \div bb = m /\ aa % bb = aa - m * bb
    BY <1>1, <2>1, DivUnique
  <2> QED BY <2>2 DEF aa, bb
<1>7. a * q - m * (b * q) = r * q
  BY <1>1, <1>2, <1>3
<1> QED BY <1>6, <1>7 DEF m, r

\* Quo truncates: what is left has the sign of the dividend.
LEMMA QuoIs ==
    ASSUME NEW a \in Int, NEW b \in Int \ {0}
    PROVE  LET q == Laws!Quo(a, b)
               r == Laws!Rem(a, b)
           IN  /\ q \in Int /\ r \in Int /\ a = b * q + r
               /\ Laws!Magnitude(r) < Laws!Magnitude(b)
               /\ (a >= 0 => r >= 0) /\ (a <= 0 => r <= 0)
               /\ b > 0 => (a >= 0 => q >= 0) /\ (a <= 0 => q <= 0)
<1> DEFINE aa == Laws!Magnitude(a)  bb == Laws!Magnitude(b)
           m == aa \div bb  k == aa % bb  q == Laws!Quo(a, b)  r == Laws!Rem(a, b)
<1>1. aa \in Nat /\ bb \in Nat \ {0}
  BY DEF Laws!Magnitude
<1>2. m \in Int /\ k \in Int /\ aa = m * bb + k /\ 0 <= k /\ k < bb
  <2> HIDE DEF aa, bb
  <2> QED BY <1>1, DivIs
<1>3. m >= 0
  <2> HIDE DEF aa, bb, m, k
  <2>1. m < 0 => m * bb <= -bb
    BY <1>1, <1>2
  <2> QED BY <1>1, <1>2, <2>1
<1>4. q = Laws!SignOf(a) * Laws!SignOf(b) * m /\ r = a - b * q
  BY DEF Laws!Quo, Laws!Rem
<1>5. CASE a = 0
  <2>1. m * bb = 0 /\ k = 0
    <3>1. aa = 0
      BY <1>5 DEF Laws!Magnitude
    <3>2. m * bb >= 0
      BY <1>1, <1>2, <1>3
    <3> QED BY <1>1, <1>2, <3>1, <3>2
  <2>2. q = 0
    BY <1>2, <1>4, <1>5 DEF Laws!SignOf
  <2>3. r = 0
    BY <1>4, <1>5, <2>2
  <2> QED BY <1>1, <1>5, <2>2, <2>3 DEF Laws!Magnitude
<1>6. CASE a > 0
  <2>1. aa = a /\ Laws!SignOf(a) = 1
    BY <1>6 DEF Laws!Magnitude, Laws!SignOf
  <2>2. q = (IF b > 0 THEN m ELSE -m) /\ b * q = m * bb
    <3> HIDE DEF q, r, m, k
    <3>1. CASE b > 0
      BY <1>2, <1>4, <2>1, <3>1 DEF Laws!Magnitude, Laws!SignOf
    <3>2. CASE b < 0
      BY <1>2, <1>4, <2>1, <3>2 DEF Laws!Magnitude, Laws!SignOf
    <3> QED BY <3>1, <3>2
  <2>3. r = k
    BY <1>1, <1>2, <1>4, <2>1, <2>2
  <2> HIDE DEF q, r, m, k
  <2>4. Laws!Magnitude(r) = r
    BY <1>2, <2>3 DEF Laws!Magnitude
  <2> QED BY <1>1, <1>2, <1>3, <1>6, <2>1, <2>2, <2>3, <2>4 DEF q, r
<1>7. CASE a < 0
  <2>1. aa = -a /\ Laws!SignOf(a) = -1
    BY <1>7 DEF Laws!Magnitude, Laws!SignOf
  <2>2. q = (IF b > 0 THEN -m ELSE m) /\ b * q = -(m * bb)
    <3> HIDE DEF q, r, m, k
    <3>1. CASE b > 0
      BY <1>2, <1>4, <2>1, <3>1 DEF Laws!Magnitude, Laws!SignOf
    <3>2. CASE b < 0
      BY <1>2, <1>4, <2>1, <3>2 DEF Laws!Magnitude, Laws!SignOf
    <3> QED BY <3>1, <3>2
  <2>3. r = -k
    BY <1>1, <1>2, <1>4, <2>1, <2>2
  <2> HIDE DEF q, r, m, k
  <2>4. Laws!Magnitude(r) = k
    BY <1>2, <2>3 DEF Laws!Magnitude
  <2> QED BY <1>1, <1>2, <1>3, <1>7, <2>1, <2>2, <2>3, <2>4 DEF q, r
<1> QED BY <1>5, <1>6, <1>7

\* No other number that leaves such a remainder is the quotient.
LEMMA QuoUnique ==
    ASSUME NEW w \in Int, NEW s \in Nat \ {0}, NEW z \in Int,
           Laws!Magnitude(z) < s, w > 0 => z >= 0, w < 0 => z <= 0
    PROVE  Laws!Quo(w * s + z, s) = w
<1> DEFINE a == w * s + z
<1>1. a \in Int /\ Laws!Quo(a, s) = Laws!SignOf(a) * (Laws!Magnitude(a) \div s)
  BY DEF Laws!Quo, Laws!SignOf, Laws!Magnitude
<1>2. CASE w = 0
  <2>1. Laws!Magnitude(a) \in Nat /\ Laws!Magnitude(a) < s
    BY <1>2 DEF Laws!Magnitude
  <2>2. Laws!Magnitude(a) \div s = 0
    <3> DEFINE n == Laws!Magnitude(a)
    <3> HIDE DEF n
    <3>1. n \in Int /\ 0 * s <= n /\ n < 0 * s + s
      BY <2>1 DEF n
    <3>2. n \div s = 0
      BY <3>1, DivUnique
    <3> QED BY <3>2 DEF n
  <2> QED BY <1>1, <1>2, <2>2 DEF Laws!SignOf
<1>3. CASE w > 0
  <2>1. w * s >= s /\ z >= 0 /\ z < s
    BY <1>3 DEF Laws!Magnitude
  <2>2. a > 0 /\ w * s <= a /\ a < w * s + s
    BY <2>1
  <2> HIDE DEF a
  <2>3. a \div s = w
    BY <1>1, <2>2, DivUnique
  <2>4. Laws!Magnitude(a) = a /\ Laws!SignOf(a) = 1
    BY <1>1, <2>2 DEF Laws!Magnitude, Laws!SignOf
  <2> QED BY <1>1, <2>3, <2>4 DEF a
<1>4. CASE w < 0
  <2>1. (-w) * s >= s /\ (-w) * s = -(w * s) /\ z <= 0 /\ -z < s
    BY <1>4 DEF Laws!Magnitude
  <2>2. a < 0 /\ (-w) * s <= -a /\ -a < (-w) * s + s
    BY <2>1
  <2> HIDE DEF a
  <2>3. Laws!Magnitude(a) = -a /\ Laws!SignOf(a) = -1 /\ (-a) \div s = -w
    <3> DEFINE b == -a  k == -w
    <3>1. b \in Int /\ k \in Int /\ k * s <= b /\ b < k * s + s
      BY <1>1, <2>2
    <3> HIDE DEF b, k
    <3>2. b \div s = k
      BY <3>1, DivUnique
    <3> QED BY <1>1, <2>2, <3>2 DEF b, k, Laws!Magnitude, Laws!SignOf
  <2> QED BY <1>1, <2>3 DEF a
<1> QED BY <1>2, <1>3, <1>4

-----------------------------------------------------------------------------
(* Scales. *)

\* w is n in units of s, cut towards zero, and z is what is cut off.
Cut(n, s, w, z) ==
    /\ n = w * s + z /\ Laws!Magnitude(z) < s
    /\ n >= 0 => w >= 0 /\ z >= 0
    /\ n <= 0 => w <= 0 /\ z <= 0

\* Rescaling cuts towards zero, and cuts nothing off at a finer exponent.
LEMMA RescaleCuts ==
    ASSUME Laws!PowersOfTen(Nat), Laws!Parameters, NEW d \in Laws!Decimals,
           NEW e \in Int, NEW u \in Int, u <= e, u <= d.exp
    PROVE  \E w, z \in Int : /\ Laws!Rescale(d, e) = Laws!New(w, e)
                             /\ Cut(Laws!At(d, u), 10^(e - u), w, z)
                             /\ e <= d.exp => z = 0
<1> DEFINE v == Laws!Val(d)
           n == Laws!At(d, u)
<1>1. v \in Int /\ d.exp \in Int /\ 10^(e - u) \in Nat \ {0}
  <2>1. e - u \in Nat
    OBVIOUS
  <2> QED BY <2>1, ValIs DEF Laws!PowersOfTen
<1>2. CASE e <= d.exp
  <2>1. PICK w \in Int : Laws!Rescale(d, e) = Laws!New(w, e) /\ n = w * 10^(e - u)
    BY <1>2, RescaleExact
  <2> DEFINE s == 10^(e - u)
  <2>2. s \in Nat \ {0} /\ n = w * s
    BY <1>1, <2>1
  <2> HIDE DEF s, n
  <2>3. (n >= 0 => w >= 0) /\ (n <= 0 => w <= 0)
    BY <2>2
  <2>4. Cut(n, s, w, 0)
    BY <2>2, <2>3 DEF Cut, Laws!Magnitude
  <2> QED BY <2>1, <2>4 DEF s, n
<1>3. CASE e > d.exp
  <2> DEFINE b == 10^(e - d.exp)  a == 10^(d.exp - u)
             w == Laws!Quo(v, b)  r == Laws!Rem(v, b)
  <2>1. b \in Nat \ {0} /\ a \in Nat \ {0} /\ 10^(e - u) = b * a
    <3>1. e - d.exp \in Nat /\ d.exp - u \in Nat /\ (e - d.exp) + (d.exp - u) = e - u
      BY <1>1, <1>3
    <3> QED BY <3>1 DEF Laws!PowersOfTen
  <2>2. Laws!Rescale(d, e) = Laws!New(w, e)
    <3>1. Laws!Magnitude(e - d.exp) = e - d.exp
      BY <1>1, <1>3 DEF Laws!Magnitude
    <3> QED BY <1>3, <3>1 DEF Laws!Rescale
  <2>3. n = v * a
    BY DEF Laws!At
  <2> HIDE DEF v, b, a, n
  <2>4. /\ w \in Int /\ r \in Int /\ v = b * w + r /\ Laws!Magnitude(r) < b
        /\ (v >= 0 => r >= 0) /\ (v <= 0 => r <= 0)
        /\ (v >= 0 => w >= 0) /\ (v <= 0 => w <= 0)
    <3>1. v \in Int /\ b \in Int \ {0} /\ b > 0 /\ Laws!Magnitude(b) = b
      BY <1>1, <2>1 DEF Laws!Magnitude
    <3>2. /\ w \in Int /\ r \in Int /\ v = b * w + r
          /\ Laws!Magnitude(r) < Laws!Magnitude(b)
          /\ (v >= 0 => r >= 0) /\ (v <= 0 => r <= 0)
          /\ b > 0 => (v >= 0 => w >= 0) /\ (v <= 0 => w <= 0)
      BY <3>1, QuoIs
    <3> QED BY <3>1, <3>2
  <2> HIDE DEF w, r
  <2>5. n = w * (b * a) + r * a /\ r * a \in Int
    BY <2>1, <2>3, <2>4
  <2>6. Laws!Magnitude(r * a) < b * a
    <3>1. r * a < b * a /\ (-r) * a < b * a /\ (-r) * a = -(r * a)
      BY <2>1, <2>4 DEF Laws!Magnitude
    <3> QED BY <2>5, <3>1 DEF Laws!Magnitude
  <2>7. (n >= 0 => v >= 0) /\ (n <= 0 => v <= 0)
    BY <1>1, <2>1, <2>3
  <2>8. (r >= 0 => r * a >= 0) /\ (r <= 0 => r * a <= 0)
    BY <2>1, <2>4
  <2>9. Cut(n, b * a, w, r * a)
    BY <2>4, <2>5, <2>6, <2>7, <2>8 DEF Cut
  <2> QED BY <1>1, <1>3, <2>1, <2>2, <2>4, <2>5, <2>9 DEF n
<1> QED BY <1>1, <1>2, <1>3

\* Cutting is what Quo does.
LEMMA QuoCuts ==
    ASSUME NEW n \in Int, NEW s \in Nat \ {0}, NEW w \in Int, NEW z \in Int, Cut(n, s, w, z)
    PROVE  Laws!Quo(n, s) = w
<1>1. n = w * s + z /\ Laws!Magnitude(z) < s
  BY DEF Cut
<1>2. (w > 0 => z >= 0) /\ (w < 0 => z <= 0)
  BY DEF Cut
<1> QED BY <1>1, <1>2, QuoUnique

\* The multiples of s around n, from what is cut off.
LEMMA AroundCut ==
    ASSUME NEW n \in Int, NEW s \in Nat \ {0}, NEW w \in Int, NEW z \in Int, Cut(n, s, w, z)
    PROVE  /\ n \div s = (IF z < 0 THEN w - 1 ELSE w)
           /\ -((0 - n) \div s) = (IF z > 0 THEN w + 1 ELSE w)
           /\ n % s = 0 <=> z = 0
<1>1. n = w * s + z /\ -s < z /\ z < s
  BY DEF Cut, Laws!Magnitude
<1>2. (w - 1) * s = w * s - s /\ (-w) * s = -(w * s) /\ (-(w + 1)) * s = -(w * s) - s
  OBVIOUS
<1> DEFINE minus == 0 - n  below == w - 1  next == -w  further == -(w + 1)
<1>3. /\ below \in Int /\ next \in Int /\ further \in Int /\ minus \in Int /\ w * s \in Int
      /\ below * s = w * s - s /\ next * s = -(w * s) /\ further * s = -(w * s) - s
      /\ minus = -n
  BY <1>2
<1> HIDE DEF minus, below, next, further
<1>4. CASE z < 0
  <2>1. n \div s = below /\ n % s = n - below * s
    <3>1. below * s <= n /\ n < below * s + s
      BY <1>1, <1>3, <1>4
    <3> QED BY <1>3, <3>1, DivUnique
  <2>2. minus \div s = next
    <3>1. next * s <= minus /\ minus < next * s + s
      BY <1>1, <1>3, <1>4
    <3> QED BY <1>3, <3>1, DivUnique
  <2>3. n % s = z + s
    BY <1>1, <1>3, <2>1
  <2> QED BY <1>1, <1>4, <2>1, <2>2, <2>3 DEF minus, below, next
<1>5. CASE z = 0
  <2>1. n \div s = w /\ n % s = n - w * s
    <3>1. w * s <= n /\ n < w * s + s
      BY <1>1, <1>3, <1>5
    <3> QED BY <3>1, DivUnique
  <2>2. minus \div s = next
    BY <1>1, <1>3, <1>5, DivUnique
  <2> QED BY <1>1, <1>3, <1>5, <2>1, <2>2 DEF minus, next
<1>6. CASE z > 0
  <2>1. n \div s = w /\ n % s = n - w * s
    BY <1>1, <1>3, <1>6, DivUnique
  <2>2. minus \div s = further
    <3>1. further * s <= minus /\ minus < further * s + s
      BY <1>1, <1>3, <1>6
    <3> QED BY <1>3, <3>1, DivUnique
  <2>3. n % s = z
    BY <1>1, <1>3, <2>1
  <2> QED BY <1>1, <1>6, <2>1, <2>2, <2>3 DEF minus, further
<1> QED BY <1>4, <1>5, <1>6

\* An exponent in range is not changed by the conversion to the exponent's type.
LEMMA WrapInRange ==
    ASSUME Laws!RoundingParameters, NEW e \in Laws!MinExp..Laws!MaxExp
    PROVE  e \in Int /\ Laws!Wrap(e) = e
<1> DEFINE low == Laws!MinExp  size == 2^LawsBits  n == e - low
<1>1. low \in Int /\ Laws!MaxExp \in Int /\ size = Laws!MaxExp - low + 1
  BY DEF Laws!RoundingParameters
<1>2. Laws!Wrap(e) = (n % size) + low
  BY DEF Laws!Wrap
<1> HIDE DEF low, size
<1>3. e \in Int /\ size \in Nat \ {0} /\ n \in Int /\ 0 * size <= n /\ n < 0 * size + size
  BY <1>1 DEF low
<1> HIDE DEF n
<1>4. n % size = n - 0 * size
  BY <1>3, DivUnique
<1> QED BY <1>1, <1>2, <1>3, <1>4 DEF n

\* The conversion to an int64: in range, with the low bits kept, so that what an int64 can
\* hold is not changed.
LEMMA Int64Is ==
    ASSUME Laws!RoundingParameters, NEW w \in Int
    PROVE  LET i == Laws!Int64(w)
           IN  /\ i \in Laws!MinInt..Laws!MaxInt
               /\ (i - w) % 2^IntBits = 0
               /\ w \in Laws!MinInt..Laws!MaxInt => i = w
<1> DEFINE low == Laws!MinInt  high == Laws!MaxInt  size == 2^IntBits  above == w - low
           turns == above \div size  left == above % size  back == 0 - turns
<1>1. low \in Int /\ high \in Int /\ size = high - low + 1 /\ size \in Nat \ {0}
  <2>1. low \in Int /\ high \in Int /\ size = high - low + 1 /\ 0 \in low..high
    BY DEF Laws!RoundingParameters
  <2> HIDE DEF low, high, size
  <2> QED BY <2>1
<1>2. Laws!Int64(w) = left + low
  BY DEF Laws!Int64
<1> HIDE DEF low, high, size
<1>3. above \in Int
  BY <1>1
<1>4. turns \in Int /\ left \in Int /\ above = turns * size + left /\ 0 <= left /\ left < size
  <2> HIDE DEF above
  <2> QED BY <1>1, <1>3, DivIs
<1>5. w \in low..high => left = above
  <2> SUFFICES ASSUME w \in low..high PROVE left = above
    OBVIOUS
  <2>1. 0 * size <= above /\ above < 0 * size + size /\ 0 * size = 0
    <3>1. w - low >= 0 /\ w - low < size
      BY <1>1
    <3>2. 0 * size = 0
      BY <1>1
    <3> QED BY <1>1, <1>3, <3>1, <3>2
  <2> DEFINE none == 0
  <2>2. none \in Int /\ none * size <= above /\ above < none * size + size /\ none * size = 0
    BY <2>1
  <2> HIDE DEF above, none, turns, left, back
  <2>3. above % size = above - none * size
    BY <1>1, <1>3, <2>2, DivUnique
  <2> QED BY <1>3, <2>2, <2>3 DEF left
<1>6. ((left + low) - w) % size = 0
  <2>1. back \in Int /\ (left + low) - w = back * size
    <3> HIDE DEF turns, left
    <3>1. (0 - turns) * size = 0 - turns * size
      BY <1>1, <1>4
    <3>2. above = w - low
      OBVIOUS
    <3> HIDE DEF above
    <3> QED BY <1>1, <1>3, <1>4, <3>1, <3>2
  <2> HIDE DEF back, left
  <2> QED BY <1>1, <2>1, DivMultiple
<1> HIDE DEF left
<1>7. (left + low) \in low..high
  BY <1>1, <1>4
<1>8. w \in low..high => left + low = w
  BY <1>1, <1>5
<1> QED BY <1>2, <1>6, <1>7, <1>8 DEF low, high, size

\* What a number is in a finer unit, and its sign.
LEMMA AtIs ==
    ASSUME Laws!PowersOfTen(Nat), Laws!Parameters, NEW d \in Laws!Decimals,
           NEW u \in Int, u <= d.exp
    PROVE  /\ 10^(d.exp - u) \in Nat \ {0}
           /\ Laws!At(d, u) \in Int /\ Laws!At(d, u) = Laws!Val(d) * 10^(d.exp - u)
           /\ Laws!Sign(d) = Laws!SignOf(Laws!At(d, u))
<1> DEFINE s == 10^(d.exp - u)  v == Laws!Val(d)
<1>1. s \in Nat \ {0} /\ v \in Int
  <2>1. d.exp - u \in Nat
    BY ValIs
  <2> QED BY <2>1, ValIs DEF Laws!PowersOfTen
<1>2. Laws!At(d, u) = v * s /\ Laws!Sign(d) = Laws!SignOf(v)
  BY DEF Laws!At, Laws!Sign
<1> HIDE DEF s, v
<1>3. Laws!SignOf(v * s) = Laws!SignOf(v) /\ v * s \in Int
  BY <1>1, SignScaled
<1> QED BY <1>1, <1>2, <1>3 DEF s, v

-----------------------------------------------------------------------------
(* Directed rounding. *)

\* The directed roundings cut, and add their step unless nothing was cut off.
LEMMA DirectedIs ==
    ASSUME Laws!PowersOfTen(Nat), Laws!Parameters, Laws!RoundingParameters,
           NEW d \in Laws!Decimals, NEW places \in Int, -places \in Laws!MinExp..Laws!MaxExp,
           NEW u \in Int, u <= d.exp, u <= -places
    PROVE  \E w, z \in Int :
             /\ 10^(-places - u) \in Nat \ {0}
             /\ Cut(Laws!At(d, u), 10^(-places - u), w, z)
             /\ \A step \in Int :
                  Laws!At(Laws!RoundDirected(d, places, step), u)
                    = (IF z = 0 THEN w ELSE w + step) * 10^(-places - u)
<1> DEFINE e == -places  s == 10^(e - u)  n == Laws!At(d, u)
<1>1. e \in Int /\ Laws!Wrap(e) = e /\ d.exp \in Int /\ n \in Int
  BY WrapInRange, ValIs, AtIs
<1>2. PICK w \in Int, z \in Int :
          Laws!Rescale(d, e) = Laws!New(w, e) /\ Cut(n, s, w, z) /\ (e <= d.exp => z = 0)
  BY <1>1, RescaleCuts
<1>3. s \in Nat \ {0}
  <2>1. e - u \in Nat
    BY <1>1
  <2> QED BY <2>1 DEF Laws!PowersOfTen
<1>4. n = w * s + z
  BY <1>2 DEF Cut
<1>5. ASSUME NEW k \in Int PROVE Laws!At(Laws!New(k, e), u) = k * s
  BY <1>1, AtNew
<1>6. ASSUME NEW step \in Int
      PROVE  Laws!At(Laws!RoundDirected(d, places, step), u)
               = (IF z = 0 THEN w ELSE w + step) * s
  <2> DEFINE rescaled == Laws!New(w, e)
  <2>1. Laws!RoundDirected(d, places, step)
          = IF d.exp >= e \/ Laws!Equal(d, rescaled)
            THEN d ELSE Laws!New(rescaled.value + step, rescaled.exp)
    BY <1>1, <1>2 DEF Laws!RoundDirected
  <2>2. rescaled \in Laws!Decimals /\ rescaled.value = w /\ rescaled.exp = e
    BY <1>1, NewIs
  <2> HIDE DEF rescaled, e, s, n
  <2>3. Laws!Cmp(d, rescaled) = Laws!SignOf(n - Laws!At(rescaled, u))
    BY <1>1, <2>2, SumExact DEF n, e
  <2>4. Laws!At(rescaled, u) = w * s
    BY <1>5 DEF rescaled
  <2>5. n - w * s = z /\ w * s \in Int
    BY <1>3, <1>4
  <2>6. Laws!Equal(d, rescaled) <=> z = 0
    BY <2>3, <2>4, <2>5 DEF Laws!Equal, Laws!SignOf
  <2>7. CASE z = 0
    <3>1. Laws!RoundDirected(d, places, step) = d
      BY <2>1, <2>6, <2>7
    <3> QED BY <2>5, <2>7, <3>1, <1>4 DEF n
  <2>8. CASE z # 0
    <3>1. ~(d.exp >= e)
      BY <1>1, <1>2, <2>8
    <3>2. Laws!RoundDirected(d, places, step) = Laws!New(w + step, e)
      BY <2>1, <2>2, <2>6, <2>8, <3>1
    <3>3. w + step \in Int
      OBVIOUS
    <3> QED BY <1>5, <2>8, <3>2, <3>3
  <2> QED BY <2>7, <2>8
<1> QED BY <1>2, <1>3, <1>6

\* RoundFloor, RoundCeil, RoundUp and RoundDown go where they say.
LEMMA DirectedRight ==
    ASSUME Laws!PowersOfTen(Nat), Laws!Parameters, Laws!RoundingParameters,
           NEW d \in Laws!Decimals, NEW places \in Int, -places \in Laws!MinExp..Laws!MaxExp,
           NEW u \in Int, u <= d.exp, u <= -places
    PROVE  LET n == Laws!At(d, u)
               s == 10^(-places - u)
               down == (n \div s) * s
               up == -(((0 - n) \div s) * s)
           IN  /\ Laws!At(Laws!RoundFloor(d, places), u) = down
               /\ Laws!At(Laws!RoundCeil(d, places), u) = up
               /\ Laws!At(Laws!RoundUp(d, places), u) = (IF n < 0 THEN down ELSE up)
               /\ Laws!At(Laws!RoundDown(d, places), u) = (IF n < 0 THEN up ELSE down)
<1> DEFINE n == Laws!At(d, u)  s == 10^(-places - u)
           below == n \div s  above == (0 - n) \div s
           Rounded(step) == Laws!At(Laws!RoundDirected(d, places, step), u)
<1>1. PICK w \in Int, z \in Int :
          /\ s \in Nat \ {0} /\ Cut(n, s, w, z)
          /\ \A step \in Int : Rounded(step) = (IF z = 0 THEN w ELSE w + step) * s
  BY DirectedIs
<1>2. n \in Int /\ Laws!Sign(d) = Laws!SignOf(n)
  BY AtIs
<1>3. /\ Laws!At(Laws!RoundFloor(d, places), u) = Rounded(IF Laws!Sign(d) < 0 THEN -1 ELSE 0)
      /\ Laws!At(Laws!RoundCeil(d, places), u) = Rounded(IF Laws!Sign(d) > 0 THEN 1 ELSE 0)
      /\ Laws!At(Laws!RoundUp(d, places), u) = Rounded(Laws!Sign(d))
      /\ Laws!At(Laws!RoundDown(d, places), u) = Rounded(0)
  BY DEF Laws!RoundFloor, Laws!RoundCeil, Laws!RoundUp, Laws!RoundDown
<1> HIDE DEF n, s, Rounded
<1>4. below = (IF z < 0 THEN w - 1 ELSE w) /\ -above = (IF z > 0 THEN w + 1 ELSE w)
  BY <1>1, <1>2, AroundCut
<1>5. (n < 0 => z <= 0) /\ (n > 0 => z >= 0) /\ (n = 0 => z = 0)
  BY <1>1, <1>2 DEF Cut
<1>6. Laws!SignOf(n) = (IF n < 0 THEN -1 ELSE IF n > 0 THEN 1 ELSE 0)
  BY DEF Laws!SignOf
<1>7. above \in Int /\ -(above * s) = (-above) * s
  <2>1. above \in Int
    BY <1>1, <1>2, DivIs
  <2> HIDE DEF above
  <2> QED BY <1>1, <2>1
<1>8. /\ (IF n < 0 THEN -1 ELSE 0) \in Int /\ (IF n > 0 THEN 1 ELSE 0) \in Int
      /\ Laws!SignOf(n) \in Int /\ 0 \in Int
  BY <1>6
<1> HIDE DEF below, above
<1>9. /\ Rounded(IF Laws!Sign(d) < 0 THEN -1 ELSE 0) = below * s
      /\ Rounded(IF Laws!Sign(d) > 0 THEN 1 ELSE 0) = (-above) * s
      /\ Rounded(Laws!Sign(d)) = (IF n < 0 THEN below ELSE -above) * s
      /\ Rounded(0) = (IF n < 0 THEN -above ELSE below) * s
  <2>1. CASE n < 0
    <3>1. Laws!Sign(d) = -1
      BY <1>2, <1>6, <2>1
    <3>2. below = (IF z = 0 THEN w ELSE w - 1) /\ -above = w
      BY <1>4, <1>5, <2>1
    <3> QED BY <1>1, <2>1, <3>1, <3>2
  <2>2. CASE n = 0
    <3>1. Laws!Sign(d) = 0
      BY <1>2, <1>6, <2>2
    <3>2. z = 0 /\ below = w /\ -above = w
      BY <1>4, <1>5, <2>2
    <3> QED BY <1>1, <2>2, <3>1, <3>2
  <2>3. CASE n > 0
    <3>1. Laws!Sign(d) = 1
      BY <1>2, <1>6, <2>3
    <3>2. below = w /\ -above = (IF z = 0 THEN w ELSE w + 1)
      BY <1>4, <1>5, <2>3
    <3> QED BY <1>1, <1>2, <2>3, <3>1, <3>2
  <2> QED BY <1>2, <2>1, <2>2, <2>3
<1> QED BY <1>3, <1>7, <1>9 DEF n, s, below, above

-----------------------------------------------------------------------------
(* Rounding to the nearest. *)

\* r is as near to n as a multiple of s can be, and farther from 0 when halfway.
NearestAway(r, n, s) ==
    /\ 2 * Laws!Magnitude(r - n) <= s
    /\ 2 * Laws!Magnitude(r - n) = s => Laws!Magnitude(r) > Laws!Magnitude(n)

\* What Round makes of a number with one digit too many.
Halved(w) ==
    LET half == w + IF w < 0 THEN -5 ELSE 5
        floor == half \div 10
    IN  floor + IF floor < 0 /\ half % 10 # 0 THEN 1 ELSE 0

\* Adding five, away from zero, and cutting the digit off rounds it.
LEMMA HalvedIs ==
    ASSUME NEW w \in Int
    PROVE  /\ Halved(w) \in Int
           /\ w = 0 => Halved(w) = 0
           /\ w > 0 => 10 * Halved(w) - w \in -4..5
           /\ w < 0 => 10 * Halved(w) - w \in -5..4
  BY DEF Halved

\* It does so too when more than the digit is cut off.
LEMMA HalvedNearest ==
    ASSUME NEW n \in Int, NEW t \in Nat \ {0}, NEW w \in Int, NEW z \in Int, Cut(n, t, w, z)
    PROVE  NearestAway(Halved(w) * (10 * t), n, 10 * t)
<1> DEFINE m == Halved(w)  k == 10 * m - w  r == m * (10 * t)
<1>1. m \in Int /\ k \in Int
  BY HalvedIs
<1>2. (w = 0 => k = 0) /\ (w > 0 => -4 <= k /\ k <= 5) /\ (w < 0 => -5 <= k /\ k <= 4)
  BY HalvedIs
<1> HIDE DEF m
<1>3. /\ n = w * t + z /\ -t < z /\ z < t
      /\ w > 0 => n >= 0 /\ z >= 0
      /\ w < 0 => n <= 0 /\ z <= 0
  <2>1. n = w * t + z /\ -t < z /\ z < t
    BY DEF Cut, Laws!Magnitude
  <2> QED BY <2>1 DEF Cut
<1>4. r = w * t + k * t
  BY <1>1
<1>5. k * t \in Int /\ w * t \in Int /\ r \in Int /\ r - n = k * t - z
  BY <1>1, <1>3, <1>4
<1> SUFFICES NearestAway(r, n, 10 * t)
  BY DEF m
<1> HIDE DEF r, k
<1>6. /\ \A i \in Int : k <= i => k * t <= i * t
      /\ \A i \in Int : i <= k => i * t <= k * t
  BY <1>1
<1>7. CASE w = 0
  <2>1. k * t = 0
    BY <1>2, <1>7
  <2>2. r - n = -z
    BY <1>5, <2>1
  <2> QED BY <1>3, <1>5, <2>2 DEF NearestAway, Laws!Magnitude
<1>8. CASE w > 0
  <2>1. -4 * t <= k * t /\ k * t <= 5 * t
    BY <1>2, <1>6, <1>8
  <2>2. k < 5 => k * t <= 4 * t
    BY <1>1, <1>6
  <2>3. w * t >= t
    BY <1>8
  <2> QED BY <1>3, <1>4, <1>5, <1>8, <2>1, <2>3 DEF NearestAway, Laws!Magnitude
<1>9. CASE w < 0
  <2>1. -5 * t <= k * t /\ k * t <= 4 * t
    BY <1>2, <1>6, <1>9
  <2>2. w * t <= -t
    BY <1>9
  <2> QED BY <1>3, <1>4, <1>5, <1>9, <2>1, <2>2 DEF NearestAway, Laws!Magnitude
<1> QED BY <1>7, <1>8, <1>9

\* Ten units of one place are one of the next.
LEMMA TenTimes ==
    ASSUME Laws!PowersOfTen(Nat), NEW places \in Int, NEW u \in Int, u <= -places - 1
    PROVE  /\ 10^(-places - 1 - u) \in Nat \ {0}
           /\ 10^(-places - u) = 10 * 10^(-places - 1 - u)
<1> DEFINE j == -places - 1 - u
<1>1. j \in Nat /\ -places - u = 1 + j /\ 1 \in Nat
  OBVIOUS
<1> HIDE DEF j
<1>2. 10^(1 + j) = 10^1 * 10^j /\ 10^j \in Nat \ {0}
  BY <1>1 DEF Laws!PowersOfTen
<1>3. 10^1 = 10
  OBVIOUS
<1> QED BY <1>1, <1>2, <1>3 DEF j

\* Round gives the nearest number of that many places; halfway, the farther from 0.
LEMMA RoundIs ==
    ASSUME Laws!PowersOfTen(Nat), Laws!Parameters, Laws!RoundingParameters,
           NEW d \in Laws!Decimals, NEW places \in Int,
           {-places, -places - 1} \subseteq Laws!MinExp..Laws!MaxExp,
           NEW u \in Int, u <= d.exp, u <= -places - 1
    PROVE  LET round == Laws!Round(d, places)
               s == 10^(-places - u)
           IN  /\ round \in Laws!Decimals /\ round.exp = -places
               /\ d.exp = -places => round = d
               /\ d.exp # -places => round.value = Laws!Val(round)
               /\ Laws!At(round, u) = Laws!Val(round) * s
               /\ NearestAway(Laws!At(round, u), Laws!At(d, u), s)
<1> DEFINE e == -places - 1  n == Laws!At(d, u)  t == 10^(e - u)  s == 10^(-places - u)
           round == Laws!Round(d, places)
<1>1. /\ Laws!Wrap(e) = e /\ Laws!Wrap(e + 1) = -places /\ Laws!Wrap(-places) = -places
      /\ d.exp \in Int /\ n \in Int /\ e \in Int
  <2>1. e + 1 = -places
    OBVIOUS
  <2> QED BY <2>1, WrapInRange, ValIs, AtIs
<1>2. t \in Nat \ {0} /\ s = 10 * t
  BY TenTimes
<1>3. CASE d.exp = -places
  <2>1. round = d
    BY <1>1, <1>3 DEF Laws!Round
  <2>2. Laws!At(d, u) = Laws!Val(d) * s
    BY <1>3, AtIs
  <2>3. NearestAway(n, n, s)
    <3> HIDE DEF n, s, t
    <3> QED BY <1>1, <1>2 DEF NearestAway, Laws!Magnitude
  <2> QED BY <1>3, <2>1, <2>2, <2>3
<1>4. CASE d.exp # -places
  <2>1. PICK w \in Int, z \in Int : Laws!Rescale(d, e) = Laws!New(w, e) /\ Cut(n, t, w, z)
    BY <1>1, RescaleCuts
  <2>2. Halved(w) \in Int
    BY HalvedIs
  <2>3. round = Laws!New(Halved(w), -places)
    <3>1. Laws!New(w, e).value = w /\ Laws!New(w, e).exp = e
      BY DEF Laws!New
    <3> QED BY <1>1, <1>4, <2>1, <3>1 DEF Laws!Round, Halved
  <2>4. /\ round \in Laws!Decimals /\ round.exp = -places
        /\ round.value = Halved(w) /\ Laws!Val(round) = Halved(w)
    BY <2>2, <2>3, NewIs
  <2>5. Laws!At(round, u) = Halved(w) * s
    <3> DEFINE h == Halved(w)  f == -places
    <3>1. h \in Int /\ f \in Int
      BY <2>2
    <3> HIDE DEF h, f
    <3>2. Laws!At(Laws!New(h, f), u) = h * 10^(f - u)
      BY <3>1, AtNew
    <3> QED BY <2>3, <3>2 DEF h, f
  <2>6. NearestAway(Halved(w) * s, n, s)
    <3> HIDE DEF n, s, t
    <3> QED BY <1>1, <1>2, <2>1, HalvedNearest
  <2> QED BY <1>4, <2>4, <2>5, <2>6
<1> QED BY <1>3, <1>4

\* The absolute value has the number's scale.
LEMMA AbsIs ==
    ASSUME Laws!Parameters, NEW d \in Laws!Decimals
    PROVE  Laws!Abs(d) \in Laws!Decimals /\ Laws!Abs(d).exp = d.exp
<1>1. Laws!Val(d) \in Int /\ -Laws!Val(d) \in Int /\ d.exp \in Int
  BY ValIs
<1>2. Laws!New(-Laws!Val(d), d.exp) \in Laws!Decimals /\ Laws!New(-Laws!Val(d), d.exp).exp = d.exp
  <2> DEFINE k == -Laws!Val(d)
  <2> HIDE DEF k
  <2>1. k \in Int
    BY <1>1 DEF k
  <2>2. Laws!New(k, d.exp) \in Laws!Decimals /\ Laws!New(k, d.exp).exp = d.exp
    BY <1>1, <2>1, NewIs
  <2> QED BY <2>2 DEF k
<1> QED BY <1>2 DEF Laws!Abs

\* r is half a step from n.
Halfway(r, n, s) == 2 * Laws!Magnitude(r - n) = s

\* The next number towards 0.
Lower(m) == m + IF m < 0 THEN 1 ELSE -1

\* An odd multiple that is half a step too far is one step from an even one.
LEMMA OtherNeighbour ==
    ASSUME NEW m \in Int, m % 2 # 0, NEW s \in Nat \ {0}, NEW n \in Int,
           NEW r \in Int, r = m * s, NearestAway(r, n, s), Halfway(r, n, s),
           NEW r2 \in Int, r2 = Lower(m) * s
    PROVE  Lower(m) % 2 = 0 /\ Halfway(r2, n, s)
<1>1. (m + 1) * s = r + s /\ (m - 1) * s = r - s /\ m # 0
  OBVIOUS
<1>2. Laws!Magnitude(r) > Laws!Magnitude(n) /\ 2 * Laws!Magnitude(r - n) = s
  BY DEF NearestAway, Halfway
<1>3. CASE m > 0
  <2>1. r >= s
    BY <1>3
  <2>2. 2 * (r - n) = s
    BY <1>1, <1>2, <2>1 DEF Laws!Magnitude
  <2>3. Lower(m) = m - 1 /\ (m - 1) % 2 = 0
    BY <1>3 DEF Lower
  <2>4. r2 = r - s
    BY <1>1, <2>3
  <2> QED BY <2>2, <2>3, <2>4 DEF Laws!Magnitude, Halfway
<1>4. CASE m < 0
  <2>1. r <= -s
    BY <1>4
  <2>2. 2 * (n - r) = s
    BY <1>1, <1>2, <2>1 DEF Laws!Magnitude
  <2>3. Lower(m) = m + 1 /\ (m + 1) % 2 = 0
    BY <1>4 DEF Lower
  <2>4. r2 = r + s
    BY <1>1, <2>3
  <2> QED BY <2>2, <2>3, <2>4 DEF Laws!Magnitude, Halfway
<1> QED BY <1>1, <1>3, <1>4

\* RoundBank corrects Round in the ties, and there only.
LEMMA BankIs ==
    ASSUME Laws!PowersOfTen(Nat), Laws!Parameters, Laws!RoundingParameters,
           NEW d \in Laws!Decimals, NEW places \in Int,
           {-places, -places - 1} \subseteq Laws!MinExp..Laws!MaxExp,
           NEW u \in Int, u <= d.exp, u <= -places - 1
    PROVE  \E k \in Int :
             LET n == Laws!At(d, u)
                 s == 10^(-places - u)
             IN  /\ Laws!At(Laws!RoundBank(d, places), u) = k * s
                 /\ 2 * Laws!Magnitude(k * s - n) <= s
                 /\ 2 * Laws!Magnitude(k * s - n) = s => k % 2 = 0
<1> DEFINE e == -places - 1  n == Laws!At(d, u)  t == 10^(e - u)  s == 10^(-places - u)
           round == Laws!Round(d, places)  m == Laws!Val(round)
           gap == Laws!Abs(Laws!Sub(d, round))  five == Laws!New(5, e)
           tie == Laws!Equal(gap, five)
           even == Lower(m)
<1>1. e \in Int /\ n \in Int /\ Laws!Wrap(e) = e /\ e \in Laws!MinExp..Laws!MaxExp
  BY WrapInRange, AtIs
<1>2. t \in Nat \ {0} /\ s = 10 * t
  BY TenTimes
<1>3. /\ round \in Laws!Decimals /\ round.exp = -places /\ m \in Int
      /\ d.exp = -places => round = d
      /\ d.exp # -places => round.value = m
      /\ Laws!At(round, u) = m * s
      /\ NearestAway(m * s, n, s)
  BY RoundIs, ValIs
<1>4. tie <=> 2 * Laws!Magnitude(m * s - n) = s
  <2> HIDE DEF s, t, round, m, n
  <2>1. /\ Laws!Sub(d, round) \in Laws!Decimals /\ Laws!Sub(d, round).exp >= u
        /\ Laws!At(Laws!Sub(d, round), u) = n - m * s
    <3>1. u <= round.exp
      BY <1>3
    <3> QED BY <1>3, <3>1, SumExact DEF n
  <2>2. Laws!Sub(d, round).exp \in Int
    BY <2>1, ValIs
  <2>3. /\ gap \in Laws!Decimals /\ gap.exp >= u
        /\ Laws!At(gap, u) = Laws!Magnitude(n - m * s)
    BY <2>1, <2>2, AbsIs, NegExact
  <2>4. five \in Laws!Decimals /\ five.exp = e /\ Laws!At(five, u) = 5 * t
    <3> HIDE DEF e
    <3>1. 5 \in Int
      OBVIOUS
    <3>2. five \in Laws!Decimals /\ five.exp = e /\ Laws!At(five, u) = 5 * 10^(e - u)
      BY <1>1, <3>1, NewIs, AtNew
    <3> QED BY <3>2 DEF t
  <2> HIDE DEF gap, five, e
  <2>5. Laws!Cmp(gap, five) = Laws!SignOf(Laws!Magnitude(n - m * s) - 5 * t)
    <3>1. u <= gap.exp /\ u <= five.exp
      BY <2>3, <2>4, ValIs DEF e
    <3> QED BY <2>3, <2>4, <3>1, SumExact
  <2>6. m * s \in Int
    BY <1>2, <1>3
  <2> DEFINE r == m * s
  <2> HIDE DEF r
  <2>7. Laws!Magnitude(n - r) = Laws!Magnitude(r - n) /\ Laws!Magnitude(r - n) \in Int
    BY <1>1, <2>6 DEF r, Laws!Magnitude
  <2>8. tie <=> Laws!Magnitude(r - n) - 5 * t = 0
    BY <1>2, <2>5, <2>7 DEF r, Laws!Equal, Laws!SignOf
  <2>9. tie <=> 2 * Laws!Magnitude(r - n) = s
    BY <1>2, <2>7, <2>8
  <2> QED BY <2>9 DEF r
<1>5. Laws!RoundBank(d, places)
        = IF tie /\ m % 2 # 0
          THEN Laws!New(round.value + (IF Laws!Sign(round) < 0 THEN 1 ELSE -1), round.exp)
          ELSE round
  BY <1>1 DEF Laws!RoundBank
<1>6. CASE ~(tie /\ m % 2 # 0)
  <2>1. Laws!RoundBank(d, places) = round
    BY <1>5, <1>6
  <2>2. 2 * Laws!Magnitude(m * s - n) <= s
    BY <1>3 DEF NearestAway
  <2> HIDE DEF tie, s, round, n, m
  <2> QED BY <1>3, <1>4, <1>6, <2>1, <2>2 DEF s, n
<1>7. CASE tie /\ m % 2 # 0
  <2>1. even \in Int /\ even % 2 = 0 /\ 2 * Laws!Magnitude(even * s - n) = s
    <3>1. s \in Nat \ {0} /\ 2 * Laws!Magnitude(m * s - n) = s
      BY <1>2, <1>4, <1>7
    <3>2. m \in Int /\ n \in Int /\ NearestAway(m * s, n, s) /\ m % 2 # 0
      BY <1>1, <1>3, <1>7
    <3> HIDE DEF tie, s, round, n, m, t
    <3> DEFINE r == m * s  r2 == even * s
    <3>3. even \in Int
      BY <3>2 DEF Lower
    <3>4. r \in Int /\ r2 \in Int /\ r = m * s /\ r2 = Lower(m) * s
      BY <3>1, <3>2, <3>3
    <3> HIDE DEF r, r2
    <3>5. NearestAway(r, n, s) /\ Halfway(r, n, s)
      BY <3>1, <3>2, <3>4 DEF Halfway
    <3>6. even % 2 = 0 /\ Halfway(r2, n, s)
      BY <3>1, <3>2, <3>4, <3>5, OtherNeighbour
    <3> QED BY <3>3, <3>6 DEF r2, Halfway
  <2>2. d.exp # -places
    <3>1. 2 * Laws!Magnitude(m * s - n) = s
      BY <1>4, <1>7
    <3>2. d.exp = -places => m * s = n
      BY <1>3
    <3> HIDE DEF tie, s, round, n, m, t
    <3>3. Laws!Magnitude(n - n) = 0
      BY <1>1 DEF Laws!Magnitude
    <3> QED BY <1>2, <3>1, <3>2, <3>3
  <2>3. Laws!RoundBank(d, places) = Laws!New(even, -places)
    <3>1. Laws!Sign(round) < 0 <=> m < 0
      BY <1>3 DEF Laws!Sign, Laws!SignOf
    <3> HIDE DEF tie, round, m
    <3> QED BY <1>3, <1>5, <1>7, <2>2, <3>1 DEF Lower
  <2>4. Laws!At(Laws!New(even, -places), u) = even * s
    <3> DEFINE f == -places
    <3>1. f \in Int
      OBVIOUS
    <3> HIDE DEF f, even
    <3>2. Laws!At(Laws!New(even, f), u) = even * 10^(f - u)
      BY <2>1, <3>1, AtNew
    <3> QED BY <3>2 DEF f
  <2>5. 2 * Laws!Magnitude(even * s - n) <= s
    BY <1>2, <2>1
  <2> HIDE DEF even, s, n, tie
  <2> QED BY <2>1, <2>3, <2>4, <2>5 DEF s, n
<1> QED BY <1>6, <1>7

-----------------------------------------------------------------------------
(* The operands that are checked. *)

\* The unit is as fine as everything, and no exponent wraps.
LEMMA OperandsAre ==
    ASSUME Laws!Init
    PROVE  /\ x \in Laws!Decimals /\ y \in Laws!Decimals /\ p \in Int
           /\ x.exp \in Int /\ y.exp \in Int /\ Laws!InRange(x, y, p)
           /\ Laws!Unit \in Int /\ Laws!Unit <= x.exp /\ Laws!Unit <= y.exp
           /\ Laws!Unit <= -p /\ Laws!Unit <= -2
<1> USE LawsAssumption, RoundingAssumption
<1>1. /\ x \in Laws!Decimals /\ y \in Laws!Decimals /\ p \in Int
      /\ Laws!InRange(x, y, p)
  BY DEF Laws!Init, Laws!Parameters, Laws!RoundingParameters
<1>2. x.exp \in Int /\ y.exp \in Int
  BY <1>1, ValIs
<1> DEFINE S == {x.exp, y.exp, -p, -2}
<1>3. S \subseteq Int /\ \E m \in S : \A n \in S : m <= n
  BY <1>1, <1>2
<1>4. Laws!Unit \in S /\ \A n \in S : Laws!Unit <= n
  BY <1>3 DEF Laws!Unit, Laws!Min
<1> QED BY <1>1, <1>2, <1>3, <1>4

\* Round and RoundBank: decimal.go:865, 1103.
LEMMA NearestRight ==
    ASSUME Laws!PowersOfTen(Nat), Laws!Init
    PROVE  Laws!RoundNearest
<1> USE LawsAssumption, RoundingAssumption
<1> DEFINE u == Laws!Unit - 1  n == Laws!At(x, u)  s == 10^(-p - u)
           round == Laws!Round(x, p)  bank == Laws!RoundBank(x, p)
           m == Laws!Val(round)
<1>1. /\ x \in Laws!Decimals /\ p \in Int /\ u \in Int /\ u <= x.exp /\ u <= -p - 1
      /\ {-p, -p - 1} \subseteq Laws!MinExp..Laws!MaxExp
  BY OperandsAre DEF Laws!InRange
<1> HIDE DEF u
<1>2. /\ round \in Laws!Decimals /\ round.exp = -p
      /\ Laws!At(round, u) = m * s /\ NearestAway(m * s, n, s)
  BY <1>1, RoundIs
<1>3. PICK k \in Int : /\ Laws!At(bank, u) = k * s
                       /\ 2 * Laws!Magnitude(k * s - n) <= s
                       /\ 2 * Laws!Magnitude(k * s - n) = s => k % 2 = 0
  BY <1>1, BankIs
<1>4. s \in Nat \ {0}
  BY <1>1, TenTimes
<1>5. m \in Int
  BY <1>2, ValIs
<1> HIDE DEF s, n, m, round, bank
<1>6. /\ (m * s) % s = 0 /\ (k * s) % s = 0 /\ (k * s) \div s = k
  BY <1>4, <1>5, DivMultiple
<1>7. /\ 2 * Laws!Magnitude(m * s - n) <= s
      /\ 2 * Laws!Magnitude(m * s - n) = s => Laws!Magnitude(m * s) > Laws!Magnitude(n)
  BY <1>2 DEF NearestAway
<1>8. round.exp = -p
  BY <1>2
<1>9. /\ Laws!At(round, u) % s = 0
      /\ 2 * Laws!Magnitude(Laws!At(round, u) - n) <= s
      /\ 2 * Laws!Magnitude(Laws!At(round, u) - n) = s => Laws!Far(n, Laws!At(round, u))
  BY <1>2, <1>6, <1>7 DEF Laws!Far
<1>10. /\ Laws!At(bank, u) % s = 0
       /\ 2 * Laws!Magnitude(Laws!At(bank, u) - n) <= s
       /\ 2 * Laws!Magnitude(Laws!At(bank, u) - n) = s => (Laws!At(bank, u) \div s) % 2 = 0
  BY <1>3, <1>6
<1> QED BY <1>8, <1>9, <1>10 DEF Laws!RoundNearest, Laws!IsNearest, u, s, n, round, bank

\* RoundFloor, RoundCeil, RoundUp and RoundDown: decimal.go:893-1078.
LEMMA DirectedRoundingRight ==
    ASSUME Laws!PowersOfTen(Nat), Laws!Init
    PROVE  Laws!RoundDirectedRight
<1> USE LawsAssumption, RoundingAssumption
<1> DEFINE u == Laws!Unit - 1
<1>1. /\ x \in Laws!Decimals /\ p \in Int /\ u \in Int /\ u <= x.exp /\ u <= -p
      /\ -p \in Laws!MinExp..Laws!MaxExp
  BY OperandsAre DEF Laws!InRange
<1> HIDE DEF u
<1> QED BY <1>1, DirectedRight DEF Laws!RoundDirectedRight, u

-----------------------------------------------------------------------------
(* Integers. *)

\* A set of natural numbers has a least one.
LEMMA LeastNumber ==
    ASSUME NEW S \in SUBSET Nat, S # {}
    PROVE  \E i \in S : \A j \in S : i <= j
<1>1. PICK i \in S : \A j \in S : <<j, i>> \notin OpToRel(<, Nat)
  BY NatLessThanWellFounded, WFMin
<1>2. \A j \in S : ~(j < i)
  BY <1>1 DEF OpToRel
<1> QED BY <1>2

\* What truncation leaves is 0 exactly for the multiples.
LEMMA RemIs ==
    ASSUME NEW v \in Int, NEW b \in Nat \ {0}
    PROVE  /\ Cut(v, b, Laws!Quo(v, b), Laws!Rem(v, b))
           /\ Laws!Quo(v, b) \in Int /\ Laws!Rem(v, b) \in Int
           /\ v = b * Laws!Quo(v, b) + Laws!Rem(v, b)
           /\ Laws!Rem(v, b) = 0 <=> v % b = 0
<1> DEFINE q == Laws!Quo(v, b)  r == Laws!Rem(v, b)
<1>1. b \in Int \ {0} /\ b > 0 /\ Laws!Magnitude(b) = b
  BY DEF Laws!Magnitude
<1>2. /\ q \in Int /\ r \in Int /\ v = b * q + r
      /\ Laws!Magnitude(r) < Laws!Magnitude(b)
      /\ (v >= 0 => r >= 0) /\ (v <= 0 => r <= 0)
      /\ b > 0 => (v >= 0 => q >= 0) /\ (v <= 0 => q <= 0)
  BY <1>1, QuoIs
<1> HIDE DEF q, r
<1>3. b * q = q * b
  BY <1>2
<1>4. Cut(v, b, q, r)
  BY <1>1, <1>2, <1>3 DEF Cut
<1>5. v % b = 0 <=> r = 0
  BY <1>2, <1>4, AroundCut
<1> QED BY <1>2, <1>4, <1>5 DEF q, r

\* A number ends in one zero more if it ends in the others and the next digit is one.
LEMMA NextDigit ==
    ASSUME NEW v \in Int, NEW b \in Nat \ {0}
    PROVE  v % (10 * b) = 0 <=> v % b = 0 /\ Laws!Rem(Laws!Quo(v, b), 10) = 0
<1> DEFINE q == Laws!Quo(v, b)
<1>1. q \in Int /\ v % b = 0 <=> q \in Int /\ v = q * b
  <2>1. v = q * b => v % b = 0
    <3> HIDE DEF q
    <3>1. q \in Int
      BY RemIs DEF q
    <3> QED BY <3>1, DivMultiple
  <2>2. v % b = 0 => v = q * b
    <3>1. v = b * q + Laws!Rem(v, b) /\ q \in Int /\ (v % b = 0 => Laws!Rem(v, b) = 0)
      BY RemIs
    <3> HIDE DEF q
    <3> QED BY <3>1
  <2> QED BY <2>1, <2>2
<1>2. q \in Int
  BY RemIs
<1> HIDE DEF q
<1>3. ASSUME v % (10 * b) = 0 PROVE v = q * b /\ Laws!Rem(q, 10) = 0
  <2> DEFINE c == 10 * b  w == v \div c
  <2>1. c \in Nat \ {0}
    OBVIOUS
  <2>2. v = w * c + (v % c) /\ w \in Int
    <3> HIDE DEF c
    <3> QED BY <2>1, DivIs
  <2> HIDE DEF w
  <2> DEFINE m == 10 * w
  <2>3. m \in Int /\ v = m * b
    BY <1>3, <2>2
  <2>4. m % 10 = 0
    BY <2>2
  <2> HIDE DEF m
  <2>5. v % b = 0
    BY <2>3, DivMultiple
  <2>6. q = m
    <3>1. v = q * b
      BY <1>1, <1>2, <2>5
    <3> QED BY <1>2, <2>3, <3>1
  <2>7. Laws!Rem(q, 10) = 0
    <3>1. q \in Int /\ q % 10 = 0 /\ 10 \in Nat \ {0}
      BY <1>2, <2>4, <2>6
    <3> QED BY <3>1, RemIs
  <2> QED BY <1>1, <1>2, <2>5, <2>7
<1>4. ASSUME v = q * b, Laws!Rem(q, 10) = 0 PROVE v % (10 * b) = 0
  <2> DEFINE w == Laws!Quo(q, 10)
  <2>1. w \in Int /\ q = 10 * w + Laws!Rem(q, 10)
    <3>1. 10 \in Nat \ {0}
      OBVIOUS
    <3> QED BY <1>2, <3>1, RemIs
  <2> HIDE DEF w
  <2> DEFINE c == 10 * b
  <2>2. c \in Nat \ {0} /\ v = w * c
    BY <1>4, <2>1
  <2> HIDE DEF c
  <2>3. v % c = 0
    BY <2>1, <2>2, DivMultiple
  <2> QED BY <2>3 DEF c
<1> QED BY <1>1, <1>2, <1>3, <1>4 DEF q

\* The digits that IsInteger looks at are all zeros exactly for the integers.
LEMMA DigitsZero ==
    ASSUME Laws!PowersOfTen(Nat), NEW v \in Int, NEW k \in Nat
    PROVE  (\A z \in 1..k : Laws!Rem(Laws!Quo(v, 10^(z - 1)), 10) = 0) <=> v % 10^k = 0
<1> DEFINE Zeros(z) == v % 10^z = 0
           Digit(z) == Laws!Rem(Laws!Quo(v, 10^(z - 1)), 10) = 0
<1>1. ASSUME NEW z \in Nat \ {0} PROVE Zeros(z) <=> Zeros(z - 1) /\ Digit(z)
  <2> DEFINE b == 10^(z - 1)
  <2>1. b \in Nat \ {0} /\ 10^z = 10 * b
    <3> DEFINE j == z - 1
    <3>1. j \in Nat /\ 1 \in Nat /\ 1 + j = z
      OBVIOUS
    <3> HIDE DEF j
    <3>2. 10^(1 + j) = 10^1 * 10^j /\ 10^j \in Nat \ {0}
      BY <3>1 DEF Laws!PowersOfTen
    <3>3. 10^1 = 10
      OBVIOUS
    <3> QED BY <3>1, <3>2, <3>3 DEF j
  <2> HIDE DEF b
  <2>2. v % (10 * b) = 0 <=> v % b = 0 /\ Laws!Rem(Laws!Quo(v, b), 10) = 0
    BY <2>1, NextDigit
  <2> QED BY <2>1, <2>2 DEF b
<1>2. Zeros(0)
  <2>1. 10^0 = 1
    OBVIOUS
  <2>2. v % 1 = 0
    OBVIOUS
  <2> QED BY <2>1, <2>2
<1> HIDE DEF Zeros, Digit
<1>3. ASSUME \A z \in 1..k : Digit(z) PROVE Zeros(k)
  <2> DEFINE S == {z \in 0..k : ~Zeros(z)}
  <2>1. ASSUME S # {} PROVE FALSE
    <3>1. S \in SUBSET Nat
      OBVIOUS
    <3>2. PICK i \in S : \A j \in S : i <= j
      BY <2>1, <3>1, LeastNumber
    <3>3. i \in Nat \ {0} /\ i \in 1..k
      BY <1>2, <3>2
    <3>4. Zeros(i - 1)
      <4>1. i - 1 \in 0..k /\ ~(i <= i - 1)
        BY <3>3
      <4> QED BY <3>2, <4>1
    <3> QED BY <1>1, <1>3, <3>2, <3>3, <3>4
  <2> QED BY <2>1
<1>4. ASSUME Zeros(k) PROVE \A z \in 1..k : Digit(z)
  <2> DEFINE S == {z \in Nat : z <= k /\ ~Zeros(k - z)}
  <2>1. ASSUME S # {} PROVE FALSE
    <3>1. S \in SUBSET Nat
      OBVIOUS
    <3>2. PICK i \in S : \A j \in S : i <= j
      BY <2>1, <3>1, LeastNumber
    <3>3. i # 0
      BY <1>4, <3>2
    <3>4. i - 1 \in Nat /\ i - 1 <= k /\ ~(i <= i - 1)
      BY <3>2, <3>3
    <3>5. Zeros(k - (i - 1))
      BY <3>2, <3>4
    <3>6. k - (i - 1) \in Nat \ {0} /\ k - (i - 1) - 1 = k - i
      BY <3>2
    <3> QED BY <1>1, <3>2, <3>5, <3>6
  <2>2. \A z \in 1..k : Zeros(z)
    <3> TAKE z \in 1..k
    <3>1. k - z \in Nat /\ k - z <= k /\ k - (k - z) = z
      OBVIOUS
    <3> QED BY <2>1, <3>1
  <2> QED BY <1>1, <2>2
<1> QED BY <1>3, <1>4 DEF Zeros, Digit

\* The power of ten that a unit is, from the powers of its parts.
LEMMA PowersAdd ==
    ASSUME Laws!PowersOfTen(Nat), NEW a \in Int, NEW b \in Int, NEW c \in Int, c <= b, b <= a
    PROVE  /\ 10^(a - b) \in Nat \ {0} /\ 10^(b - c) \in Nat \ {0}
           /\ 10^(a - c) = 10^(a - b) * 10^(b - c)
<1> DEFINE m == a - b  n == b - c
<1>1. m \in Nat /\ n \in Nat /\ a - c = m + n
  OBVIOUS
<1> HIDE DEF m, n
<1>2. 10^m \in Nat \ {0} /\ 10^n \in Nat \ {0} /\ 10^(m + n) = 10^m * 10^n
  BY <1>1 DEF Laws!PowersOfTen
<1> QED BY <1>1, <1>2 DEF m, n

\* An integer in the unit 1.
LEMMA AtOfInt ==
    ASSUME Laws!Parameters, NEW k \in Int
    PROVE  Laws!At(Laws!NewFromInt(k), 0) = k
<1> DEFINE o == 0
<1>1. o \in Int
  OBVIOUS
<1>2. 10^(o - o) = 1
  OBVIOUS
<1>3. Laws!NewFromInt(k) = Laws!New(k, o)
  BY DEF Laws!NewFromInt
<1> HIDE DEF o
<1>4. Laws!At(Laws!New(k, o), o) = k * 10^(o - o)
  BY <1>1, AtNew
<1> QED BY <1>2, <1>3, <1>4 DEF o

\* Floor, Ceil and IsInteger: decimal.go:1085-1128, 637-653.
LEMMA FloorAndCeil ==
    ASSUME Laws!PowersOfTen(Nat), Laws!Parameters, Laws!RoundingParameters,
           NEW d \in Laws!Decimals, {d.exp, -d.exp} \subseteq Laws!MinExp..Laws!MaxExp,
           d.value = Nil => d.exp = 0,
           NEW u \in Int, u <= d.exp, u <= 0
    PROVE  LET n == Laws!At(d, u)
               one == 10^(0 - u)
           IN  /\ Laws!At(Laws!Floor(d), 0) = n \div one
               /\ Laws!At(Laws!Ceil(d), 0) = -((0 - n) \div one)
               /\ Laws!IsInteger(d) <=> n % one = 0
<1> DEFINE v == Laws!Val(d)  n == Laws!At(d, u)  one == 10^(0 - u)
<1>1. v \in Int /\ d.exp \in Int /\ n \in Int /\ n = v * 10^(d.exp - u)
  BY ValIs, AtIs
<1>2. CASE d.exp >= 0
  <2> DEFINE k == v * 10^(d.exp - 0)
  <2>1. /\ 10^(d.exp - 0) \in Nat \ {0} /\ one \in Nat \ {0}
        /\ 10^(d.exp - u) = 10^(d.exp - 0) * one
    <3> DEFINE o == 0  e == d.exp
    <3>1. o \in Int /\ e \in Int /\ u <= o /\ o <= e
      BY <1>1, <1>2
    <3> HIDE DEF o, e
    <3>2. /\ 10^(e - o) \in Nat \ {0} /\ 10^(o - u) \in Nat \ {0}
          /\ 10^(e - u) = 10^(e - o) * 10^(o - u)
      BY <3>1, PowersAdd
    <3> QED BY <3>2 DEF o, e
  <2>2. Laws!Floor(d) = d /\ Laws!Ceil(d) = d /\ Laws!IsInteger(d) /\ Laws!At(d, 0) = k
    BY <1>2 DEF Laws!Floor, Laws!Ceil, Laws!IsInteger, Laws!At
  <2> HIDE DEF one, n, v
  <2>3. k \in Int /\ n = k * one
    BY <1>1, <2>1
  <2> HIDE DEF k
  <2>4. n \div one = k /\ n % one = 0
    BY <2>1, <2>3, DivMultiple
  <2> DEFINE minus == 0 - n  j == -k
  <2>5. j \in Int /\ minus = j * one
    BY <2>1, <2>3
  <2> HIDE DEF minus, j
  <2>6. minus \div one = j
    BY <2>1, <2>5, DivMultiple
  <2>7. -(minus \div one) = k
    BY <2>3, <2>6 DEF j
  <2> QED BY <2>2, <2>4, <2>7 DEF minus, n, one
<1>3. CASE d.exp < 0
  <2> DEFINE b == 10^(0 - d.exp)  g == 10^(d.exp - u)  minus == 0 - v
             w == Laws!Quo(v, b)  z == Laws!Rem(v, b)
  <2>1. b \in Nat \ {0} /\ g \in Nat \ {0} /\ one = b * g
    <3> DEFINE o == 0  e == d.exp
    <3>1. o \in Int /\ e \in Int /\ u <= e /\ e <= o
      BY <1>1, <1>3
    <3> HIDE DEF o, e
    <3>2. /\ 10^(o - e) \in Nat \ {0} /\ 10^(e - u) \in Nat \ {0}
          /\ 10^(o - u) = 10^(o - e) * 10^(e - u)
      BY <3>1, PowersAdd
    <3> QED BY <3>2 DEF o, e
  <2>2. -d.exp = 0 - d.exp
    BY <1>1
  <2>3. /\ Laws!Floor(d) = Laws!NewFromInt(v \div b)
        /\ Laws!Ceil(d) = Laws!NewFromInt((v \div b) + IF v % b # 0 THEN 1 ELSE 0)
    BY <1>1, <1>3, <2>2 DEF Laws!Floor, Laws!Ceil
  <2>4. Laws!IsInteger(d) <=> v % b = 0
    <3> DEFINE k == 0 - d.exp
    <3>1. k \in Nat /\ Laws!Wrap(-d.exp) = k
      BY <1>1, <1>3, <2>2, WrapInRange
    <3>2. d.value = v
      BY <1>1, <1>3 DEF Laws!Val
    <3>3. Laws!IsInteger(d)
            <=> \A i \in 1..k : Laws!Rem(Laws!Quo(v, 10^(i - 1)), 10) = 0
      BY <1>1, <1>3, <3>1, <3>2 DEF Laws!IsInteger
    <3> HIDE DEF k, v
    <3>4. (\A i \in 1..k : Laws!Rem(Laws!Quo(v, 10^(i - 1)), 10) = 0) <=> v % 10^k = 0
      BY <1>1, <3>1, DigitsZero
    <3> QED BY <3>3, <3>4 DEF k
  <2> HIDE DEF b, g, v, one, n
  <2>5. n = v * g /\ minus \in Int /\ 0 - n = minus * g
    BY <1>1, <2>1 DEF g
  <2>6. (v * g) \div (b * g) = v \div b /\ (v * g) % (b * g) = (v % b) * g
    BY <1>1, <2>1, DivScaled
  <2>7. (minus * g) \div (b * g) = minus \div b
    <3> HIDE DEF minus
    <3> QED BY <2>1, <2>5, DivScaled
  <2>8. w \in Int /\ z \in Int /\ Cut(v, b, w, z)
    BY <1>1, <2>1, RemIs
  <2> HIDE DEF w, z
  <2>9. /\ v \div b = (IF z < 0 THEN w - 1 ELSE w)
        /\ -((0 - v) \div b) = (IF z > 0 THEN w + 1 ELSE w)
        /\ v % b = 0 <=> z = 0
    BY <1>1, <2>1, <2>8, AroundCut
  <2>10. (v \div b) + (IF v % b # 0 THEN 1 ELSE 0) = -(minus \div b)
    BY <2>8, <2>9
  <2>11. v \div b \in Int /\ v % b \in Int /\ -(minus \div b) \in Int
    <3>1. v \div b \in Int /\ v % b \in Int
      BY <1>1, <2>1, DivIs
    <3>2. minus \div b \in Int
      <4> HIDE DEF minus
      <4> QED BY <2>1, <2>5, DivIs
    <3> QED BY <3>1, <3>2
  <2>12. n % one = 0 <=> v % b = 0
    <3> DEFINE r == v % b
    <3>1. n % one = r * g /\ r \in Int
      BY <2>1, <2>5, <2>6, <2>11
    <3> HIDE DEF r
    <3>2. r * g = 0 <=> r = 0
      BY <2>1, <3>1
    <3> QED BY <3>1, <3>2 DEF r
  <2> DEFINE f == v \div b  c == -(minus \div b)
  <2>13. Laws!Floor(d) = Laws!NewFromInt(f) /\ Laws!Ceil(d) = Laws!NewFromInt(c)
    BY <2>3, <2>10
  <2>14. f = n \div one /\ c = -((0 - n) \div one)
    BY <2>1, <2>5, <2>6, <2>7
  <2>15. Laws!At(Laws!NewFromInt(f), 0) = f /\ Laws!At(Laws!NewFromInt(c), 0) = c
    <3>1. f \in Int /\ c \in Int
      BY <2>11
    <3> HIDE DEF f, c
    <3> QED BY <3>1, AtOfInt
  <2> HIDE DEF f, c
  <2> QED BY <2>4, <2>12, <2>13, <2>14, <2>15 DEF n, one
<1> QED BY <1>1, <1>2, <1>3

\* Truncate cuts towards zero, at a scale coarser than the number's and not below 1.
LEMMA TruncateCuts ==
    ASSUME Laws!PowersOfTen(Nat), Laws!Parameters,
           NEW d \in Laws!Decimals, NEW places \in Int,
           NEW u \in Int, u <= d.exp, u <= -places
    PROVE  LET n == Laws!At(d, u)
               cut == 10^(-places - u)
               short == Laws!Truncate(d, places)
           IN  /\ short \in Laws!Decimals /\ u <= short.exp
               /\ Laws!At(short, u) = (IF places >= 0 THEN Laws!Quo(n, cut) * cut ELSE n)
<1> DEFINE n == Laws!At(d, u)  e == -places  cut == 10^(e - u)
           short == Laws!Truncate(d, places)
<1>1. e \in Int /\ u <= e /\ d.exp \in Int /\ n \in Int
  BY ValIs, AtIs
<1>2. Laws!Truncate(d, places)
        = IF places >= 0 /\ e > d.exp THEN Laws!Rescale(d, e) ELSE d
  BY DEF Laws!Truncate
<1>3. cut \in Nat \ {0}
  BY <1>1 DEF Laws!PowersOfTen
<1>4. PICK w \in Int, z \in Int :
          /\ Laws!Rescale(d, e) = Laws!New(w, e)
          /\ Cut(n, cut, w, z) /\ (e <= d.exp => z = 0)
  BY <1>1, RescaleCuts
<1>5. /\ Laws!New(w, e) \in Laws!Decimals /\ Laws!New(w, e).exp = e
      /\ Laws!At(Laws!New(w, e), u) = w * cut
  <2> HIDE DEF e
  <2>1. w \in Int /\ e \in Int /\ u \in Int /\ u <= e
    BY <1>1, <1>4
  <2>2. Laws!New(w, e) \in Laws!Decimals /\ Laws!New(w, e).exp = e
    BY <2>1, NewIs
  <2>3. Laws!At(Laws!New(w, e), u) = w * 10^(e - u)
    BY <2>1, AtNew
  <2> QED BY <2>2, <2>3
<1> HIDE DEF n, cut
<1>6. Laws!Quo(n, cut) = w
  BY <1>1, <1>3, <1>4, QuoCuts
<1>7. e <= d.exp => n = w * cut
  BY <1>1, <1>3, <1>4 DEF Cut
<1>8. CASE places >= 0 /\ e > d.exp
  BY <1>1, <1>2, <1>4, <1>5, <1>6, <1>8 DEF n, cut
<1>9. CASE ~(places >= 0 /\ e > d.exp)
  <2>1. short = d
    BY <1>2, <1>9
  <2>2. places >= 0 => n = Laws!Quo(n, cut) * cut
    BY <1>1, <1>6, <1>7, <1>9
  <2> HIDE DEF short
  <2> QED BY <2>1, <2>2 DEF n, cut, short
<1> QED BY <1>8, <1>9

\* Floor, Ceil, IntPart, Truncate and IsInteger: decimal.go:637, 779, 1085-1137.
LEMMA IntegersRight ==
    ASSUME Laws!PowersOfTen(Nat), Laws!Init
    PROVE  Laws!IntegerParts
<1> USE LawsAssumption, RoundingAssumption
<1> DEFINE u == Laws!Unit  n == Laws!At(x, u)  one == 10^(-u)
<1>1. /\ x \in Laws!Decimals /\ p \in Int /\ u \in Int /\ u <= x.exp /\ u <= -p /\ u <= 0
      /\ {x.exp, -x.exp} \subseteq Laws!MinExp..Laws!MaxExp /\ (x.value = Nil => x.exp = 0)
  BY OperandsAre DEF Laws!InRange
<1> HIDE DEF u
<1>2. 0 - u = -u /\ n \in Int /\ one \in Nat \ {0}
  <2>1. -u \in Nat
    BY <1>1
  <2> QED BY <1>1, <2>1, AtIs DEF Laws!PowersOfTen
<1>3. /\ Laws!At(Laws!Floor(x), 0) = n \div one
      /\ Laws!At(Laws!Ceil(x), 0) = -((0 - n) \div one)
      /\ Laws!IsInteger(x) <=> n % one = 0
  BY <1>1, <1>2, FloorAndCeil
<1>4. /\ Laws!IntPart(x) \in Laws!MinInt..Laws!MaxInt
      /\ (Laws!IntPart(x) - Laws!Quo(n, one)) % 2^IntBits = 0
      /\ Laws!Quo(n, one) \in Laws!MinInt..Laws!MaxInt => Laws!IntPart(x) = Laws!Quo(n, one)
  <2> DEFINE o == 0
  <2>1. o \in Int /\ u <= o /\ one = 10^(o - u)
    BY <1>1, <1>2
  <2>2. Laws!IntPart(x) = Laws!Int64(Laws!Rescale(x, o).value)
    BY DEF Laws!IntPart
  <2> HIDE DEF o, one
  <2>3. PICK w \in Int, z \in Int :
            Laws!Rescale(x, o) = Laws!New(w, o) /\ Cut(n, one, w, z)
    BY <1>1, <2>1, RescaleCuts
  <2>4. Laws!IntPart(x) = Laws!Int64(w)
    BY <2>1, <2>2, <2>3, NewIs
  <2> HIDE DEF n
  <2>5. Laws!Quo(n, one) = w
    BY <1>2, <2>3, QuoCuts
  <2> QED BY <2>4, <2>5, Int64Is
<1>5. Laws!At(Laws!Truncate(x, p), u)
        = (IF p >= 0 THEN Laws!Quo(n, 10^(-p - u)) * 10^(-p - u) ELSE n)
  BY <1>1, TruncateCuts
<1> QED BY <1>3, <1>4, <1>5 DEF Laws!IntegerParts, u

-----------------------------------------------------------------------------
(* Division. *)

\* Numbers at one scale are added and subtracted at it.
LEMMA SameScale ==
    ASSUME Laws!Parameters, NEW a \in Int, NEW b \in Int, NEW e \in Int
    PROVE  /\ Laws!Add(Laws!New(a, e), Laws!New(b, e)) = Laws!New(a + b, e)
           /\ Laws!Sub(Laws!New(a, e), Laws!New(b, e)) = Laws!New(a - b, e)
<1>1. ASSUME NEW k \in Int PROVE Laws!Rescale(Laws!New(k, e), e) = Laws!New(k, e)
  <2> DEFINE d == Laws!New(k, e)
  <2>1. Laws!Val(d) = k /\ d.exp = e
    BY NewIs
  <2> HIDE DEF d
  <2>2. Laws!Magnitude(e - d.exp) = 0 /\ ~(e > d.exp)
    BY <2>1 DEF Laws!Magnitude
  <2>3. Laws!Rescale(d, e) = Laws!New(k * 10^0, e)
    BY <2>1, <2>2, Zenon DEF Laws!Rescale
  <2>4. k * 10^0 = k
    OBVIOUS
  <2> QED BY <2>3, <2>4 DEF d
<1>2. Laws!RescalePair(Laws!New(a, e), Laws!New(b, e)) = <<Laws!New(a, e), Laws!New(b, e)>>
  BY <1>1, NewIs DEF Laws!RescalePair
<1> QED BY <1>2, NewIs DEF Laws!Add, Laws!Sub

\* No exponent wraps in a division to this many places.
Divides(d, d2, places) ==
    {-places, d2.exp, d2.exp - places, d.exp + places, d.exp - d2.exp + places}
        \subseteq Laws!MinExp..Laws!MaxExp

\* n is q times the divisor and a rest smaller than it, of the dividend's sign.
Leaves(n, divisor, q, left) ==
    /\ n = divisor * q + left
    /\ Laws!Magnitude(left) < Laws!Magnitude(divisor)
    /\ (n >= 0 => left >= 0) /\ (n <= 0 => left <= 0)

\* Integer division keeps its law in any finer unit.
LEMMA LeavesScaled ==
    ASSUME NEW a \in Int, NEW b \in Int \ {0}, NEW g \in Nat \ {0}
    PROVE  /\ Laws!Quo(a, b) \in Int /\ Laws!Rem(a, b) \in Int
           /\ Leaves(a * g, b * g, Laws!Quo(a, b), Laws!Rem(a, b) * g)
<1> DEFINE q == Laws!Quo(a, b)  r == Laws!Rem(a, b)
<1>1. /\ q \in Int /\ r \in Int /\ a = b * q + r
      /\ Laws!Magnitude(r) < Laws!Magnitude(b)
      /\ (a >= 0 => r >= 0) /\ (a <= 0 => r <= 0)
  BY QuoIs
<1> HIDE DEF q, r
<1>2. a * g = (b * g) * q + r * g
  BY <1>1
<1>3. ASSUME NEW k \in Int PROVE Laws!Magnitude(k * g) = Laws!Magnitude(k) * g
  <2>1. (k < 0 => k * g < 0) /\ (k >= 0 => k * g >= 0) /\ (-k) * g = -(k * g)
    OBVIOUS
  <2> QED BY <2>1 DEF Laws!Magnitude
<1>4. Laws!Magnitude(r * g) < Laws!Magnitude(b * g)
  <2> DEFINE i == Laws!Magnitude(r)  j == Laws!Magnitude(b)
  <2>1. i \in Int /\ j \in Int /\ i < j
    BY <1>1 DEF Laws!Magnitude
  <2> HIDE DEF i, j
  <2>2. i * g < j * g
    BY <2>1
  <2> QED BY <1>1, <1>3, <2>2 DEF i, j
<1>5. (a * g >= 0 => a >= 0) /\ (a * g <= 0 => a <= 0)
  OBVIOUS
<1>6. (r >= 0 => r * g >= 0) /\ (r <= 0 => r * g <= 0)
  BY <1>1
<1> QED BY <1>1, <1>2, <1>4, <1>5, <1>6 DEF Leaves, q, r

\* QuoRem: what is left, in any unit as fine as the dividend and as the last
\* place of the quotient times the divisor.
LEMMA QuoRemIs ==
    ASSUME Laws!PowersOfTen(Nat), Laws!Parameters, Laws!RoundingParameters,
           NEW d \in Laws!Decimals, NEW d2 \in Laws!Decimals, NEW places \in Int,
           Laws!Val(d2) # 0, Divides(d, d2, places),
           NEW u \in Int, u <= d.exp, u <= d2.exp - places
    PROVE  \E q, r, e \in Int :
             /\ Laws!QuoRem(d, d2, places) = <<Laws!New(q, -places), Laws!New(r, e)>>
             /\ u <= e /\ e + places \in Laws!MinExp..Laws!MaxExp
             /\ 10^(e - u) \in Nat \ {0}
             /\ Leaves(Laws!At(d, u), Laws!Val(d2) * 10^(d2.exp - places - u),
                       q, r * 10^(e - u))
<1> DEFINE s == -places  diff == d.exp - d2.exp + places
           v == Laws!Val(d)  v2 == Laws!Val(d2)  last == d2.exp - places
<1>1. /\ v \in Int /\ v2 \in Int \ {0} /\ d.exp \in Int /\ d2.exp \in Int
      /\ last \in Int /\ diff \in Int /\ u <= last /\ diff = d.exp - last
  BY ValIs
<1>2. /\ Laws!Wrap(s) = s /\ Laws!Wrap(diff) = diff /\ Laws!Wrap(last) = last
      /\ diff \in Laws!MinExp..Laws!MaxExp
      /\ d.exp - d2.exp - s = diff /\ s + d2.exp = last
  <2>1. d.exp - d2.exp - s = diff /\ s + d2.exp = last
    BY <1>1
  <2>2. {s, diff, last} \subseteq Laws!MinExp..Laws!MaxExp
    BY DEF Divides
  <2> HIDE DEF s, diff, last
  <2> QED BY <2>1, <2>2, WrapInRange
<1>3. Laws!QuoRem(d, d2, places)
        = IF diff < 0
          THEN <<Laws!New(Laws!Quo(v, v2 * 10^(-diff)), s),
                 Laws!New(Laws!Rem(v, v2 * 10^(-diff)), d.exp)>>
          ELSE <<Laws!New(Laws!Quo(v * 10^diff, v2), s),
                 Laws!New(Laws!Rem(v * 10^diff, v2), last)>>
  <2> HIDE DEF s, diff, v, v2, last
  <2> QED BY <1>1, <1>2 DEF Laws!QuoRem, s, v, v2
<1>4. Laws!At(d, u) = v * 10^(d.exp - u)
  BY DEF Laws!At
<1>5. CASE diff < 0
  <2> DEFINE b == v2 * 10^(last - d.exp)  g == 10^(d.exp - u)
             q == Laws!Quo(v, b)  r == Laws!Rem(v, b)
  <2>1. /\ 10^(last - d.exp) \in Nat \ {0} /\ g \in Nat \ {0}
        /\ 10^(last - u) = 10^(last - d.exp) * g /\ -diff = last - d.exp
    <3> DEFINE e == d.exp
    <3> HIDE DEF last, diff
    <3>1. e \in Int /\ last \in Int /\ e <= last /\ u <= e /\ -diff = last - e
      BY <1>1, <1>5
    <3> HIDE DEF e
    <3> DEFINE i == last - e  j == e - u
    <3>2. i \in Nat /\ j \in Nat /\ last - u = i + j
      BY <3>1
    <3> HIDE DEF i, j
    <3>3. 10^i \in Nat \ {0} /\ 10^j \in Nat \ {0} /\ 10^(i + j) = 10^i * 10^j
      BY <3>2 DEF Laws!PowersOfTen
    <3>4. /\ 10^(last - e) \in Nat \ {0} /\ 10^(e - u) \in Nat \ {0}
          /\ 10^(last - u) = 10^(last - e) * 10^(e - u)
      BY <3>2, <3>3 DEF i, j
    <3> QED BY <3>1, <3>4 DEF e
  <2>2. b \in Int \ {0} /\ v2 * 10^(last - u) = b * g
    <3> DEFINE h == 10^(last - d.exp)
    <3> HIDE DEF last, v2, g, h
    <3>1. h \in Nat \ {0} /\ v2 * (h * g) = (v2 * h) * g /\ v2 * h \in Int \ {0}
      BY <1>1, <2>1 DEF h
    <3> QED BY <2>1, <3>1 DEF h
  <2>3. Laws!QuoRem(d, d2, places) = <<Laws!New(q, s), Laws!New(r, d.exp)>>
    BY <1>3, <1>5, <2>1
  <2>4. d.exp + places \in Laws!MinExp..Laws!MaxExp
    BY DEF Divides
  <2> HIDE DEF v, v2, b, g, q, r, s
  <2>5. q \in Int /\ r \in Int /\ Leaves(v * g, b * g, q, r * g)
    BY <1>1, <2>1, <2>2, LeavesScaled DEF q, r
  <2>6. Leaves(Laws!At(d, u), v2 * 10^(last - u), q, r * g)
    BY <1>4, <2>2, <2>5 DEF g
  <2> QED BY <1>1, <2>1, <2>3, <2>4, <2>5, <2>6 DEF g, s, v2
<1>6. CASE ~(diff < 0)
  <2> DEFINE a == v * 10^(d.exp - last)  g == 10^(last - u)
             q == Laws!Quo(a, v2)  r == Laws!Rem(a, v2)
  <2>1. /\ 10^(d.exp - last) \in Nat \ {0} /\ g \in Nat \ {0}
        /\ 10^(d.exp - u) = 10^(d.exp - last) * g
    <3> DEFINE e == d.exp
    <3> HIDE DEF last, diff
    <3>1. e \in Int /\ last \in Int /\ u <= last /\ last <= e
      BY <1>1, <1>6
    <3> HIDE DEF e
    <3> DEFINE i == e - last  j == last - u
    <3>2. i \in Nat /\ j \in Nat /\ e - u = i + j
      BY <3>1
    <3> HIDE DEF i, j
    <3>3. 10^i \in Nat \ {0} /\ 10^j \in Nat \ {0} /\ 10^(i + j) = 10^i * 10^j
      BY <3>2 DEF Laws!PowersOfTen
    <3>4. /\ 10^(e - last) \in Nat \ {0} /\ 10^(last - u) \in Nat \ {0}
          /\ 10^(e - u) = 10^(e - last) * 10^(last - u)
      BY <3>2, <3>3 DEF i, j
    <3> QED BY <3>4 DEF e
  <2>2. a \in Int /\ v * 10^(d.exp - u) = a * g
    <3> DEFINE h == 10^(d.exp - last)
    <3> HIDE DEF last, v, g, h
    <3>1. h \in Nat \ {0} /\ v * (h * g) = (v * h) * g /\ v * h \in Int
      BY <1>1, <2>1 DEF h
    <3> QED BY <2>1, <3>1 DEF h
  <2>3. Laws!QuoRem(d, d2, places) = <<Laws!New(q, s), Laws!New(r, last)>>
    <3> HIDE DEF last
    <3> QED BY <1>1, <1>3, <1>6, <2>1
  <2>4. last + places \in Laws!MinExp..Laws!MaxExp
    <3>1. last + places = d2.exp
      BY <1>1
    <3> QED BY <3>1 DEF Divides
  <2> HIDE DEF v, v2, a, g, q, r, s
  <2>5. q \in Int /\ r \in Int /\ Leaves(a * g, v2 * g, q, r * g)
    BY <1>1, <2>1, <2>2, LeavesScaled DEF q, r
  <2>6. Leaves(Laws!At(d, u), v2 * 10^(last - u), q, r * g)
    BY <1>4, <2>2, <2>5 DEF g
  <2> QED BY <1>1, <2>1, <2>3, <2>4, <2>5, <2>6 DEF g, s, v2
<1> QED BY <1>5, <1>6

\* The integer nearest to n / divisor, from what truncation leaves; halfway, the
\* farther from 0. Opposed says that dividend and divisor have opposite signs.
Nearer(divisor, q, left, opposed) ==
    IF 2 * Laws!Magnitude(left) < Laws!Magnitude(divisor) THEN q
    ELSE IF opposed THEN q - 1 ELSE q + 1

\* k times the divisor is as near to n as it can be.
Divided(n, divisor, k) ==
    /\ 2 * Laws!Magnitude(n - divisor * k) <= Laws!Magnitude(divisor)
    /\ 2 * Laws!Magnitude(n - divisor * k) = Laws!Magnitude(divisor)
         => Laws!Magnitude(divisor * k) > Laws!Magnitude(n)

\* Twice the rest decides it.
LEMMA NearerDivides ==
    ASSUME NEW n \in Int, NEW divisor \in Int \ {0}, NEW q \in Int, NEW left \in Int,
           Leaves(n, divisor, q, left), NEW opposed \in BOOLEAN,
           opposed <=> (n > 0 /\ divisor < 0) \/ (n < 0 /\ divisor > 0)
    PROVE  Nearer(divisor, q, left, opposed) \in Int
           /\ Divided(n, divisor, Nearer(divisor, q, left, opposed))
<1> DEFINE m == divisor * q  k == Nearer(divisor, q, left, opposed)
<1>1. /\ m \in Int /\ n = m + left /\ (n >= 0 => left >= 0) /\ (n <= 0 => left <= 0)
      /\ Laws!Magnitude(left) < Laws!Magnitude(divisor)
      /\ divisor * (q - 1) = m - divisor /\ divisor * (q + 1) = m + divisor
  BY DEF Leaves
<1>2. m = 0 \/ Laws!Magnitude(m) >= Laws!Magnitude(divisor)
  <2>1. CASE q = 0
    BY <2>1
  <2>2. CASE q > 0
    <3>1. CASE divisor > 0
      <4>1. m >= divisor
        BY <2>2, <3>1
      <4> QED BY <1>1, <3>1, <4>1 DEF Laws!Magnitude
    <3>2. CASE divisor < 0
      <4>1. m <= divisor
        BY <2>2, <3>2
      <4> QED BY <1>1, <3>2, <4>1 DEF Laws!Magnitude
    <3> QED BY <3>1, <3>2
  <2>3. CASE q < 0
    <3>1. CASE divisor > 0
      <4>1. m <= -divisor
        BY <2>3, <3>1
      <4> QED BY <1>1, <3>1, <4>1 DEF Laws!Magnitude
    <3>2. CASE divisor < 0
      <4>1. m >= -divisor
        BY <2>3, <3>2
      <4> QED BY <1>1, <3>2, <4>1 DEF Laws!Magnitude
    <3> QED BY <3>1, <3>2
  <2> QED BY <2>1, <2>2, <2>3
<1>3. /\ k \in Int
      /\ divisor * k = IF 2 * Laws!Magnitude(left) < Laws!Magnitude(divisor) THEN m
                       ELSE IF opposed THEN m - divisor ELSE m + divisor
  BY <1>1 DEF Nearer
<1> DEFINE j == divisor * k
<1>4. Divided(n, divisor, k) <=>
        /\ 2 * Laws!Magnitude(n - j) <= Laws!Magnitude(divisor)
        /\ 2 * Laws!Magnitude(n - j) = Laws!Magnitude(divisor)
             => Laws!Magnitude(j) > Laws!Magnitude(n)
  BY DEF Divided
<1> HIDE DEF m, k, j
<1>5. CASE 2 * Laws!Magnitude(left) < Laws!Magnitude(divisor)
  <2>1. j = m
    BY <1>3, <1>5 DEF j
  <2>2. n - j = left
    BY <1>1, <2>1
  <2> QED BY <1>1, <1>3, <1>4, <1>5, <2>2 DEF k, Laws!Magnitude
<1>6. CASE ~(2 * Laws!Magnitude(left) < Laws!Magnitude(divisor))
  <2>1. left # 0 /\ n # 0
    BY <1>1, <1>6 DEF Laws!Magnitude
  <2>2. (n > 0 => left > 0 /\ m >= 0) /\ (n < 0 => left < 0 /\ m <= 0)
    BY <1>1, <1>2, <2>1 DEF Laws!Magnitude
  <2>3. j = IF opposed THEN m - divisor ELSE m + divisor
    BY <1>3, <1>6 DEF j
  <2>4. CASE n > 0
    <3>1. j = m + Laws!Magnitude(divisor)
      BY <1>1, <2>3, <2>4 DEF Laws!Magnitude
    <3> QED BY <1>1, <1>3, <1>4, <1>6, <2>2, <2>4, <3>1 DEF k, Laws!Magnitude
  <2>5. CASE n < 0
    <3>1. j = m - Laws!Magnitude(divisor)
      BY <1>1, <2>3, <2>5 DEF Laws!Magnitude
    <3> QED BY <1>1, <1>3, <1>4, <1>6, <2>2, <2>5, <3>1 DEF k, Laws!Magnitude
  <2> QED BY <2>1, <2>4, <2>5
<1> QED BY <1>5, <1>6

\* DivRound gives the nearest number of that many places, whatever the scales.
LEMMA DivRoundIs ==
    ASSUME Laws!PowersOfTen(Nat), Laws!Parameters, Laws!RoundingParameters,
           NEW d \in Laws!Decimals, NEW d2 \in Laws!Decimals, NEW places \in Int,
           Laws!Val(d2) # 0, Divides(d, d2, places),
           NEW u \in Int, u <= d.exp, u <= d2.exp - places
    PROVE  \E k \in Int :
             /\ Laws!DivRound(d, d2, places) = Laws!New(k, -places)
             /\ Divided(Laws!At(d, u), Laws!Val(d2) * 10^(d2.exp - places - u), k)
<1> DEFINE s == -places  n == Laws!At(d, u)  v2 == Laws!Val(d2)
           g == 10^(d2.exp - places - u)  divisor == v2 * g
<1>1. PICK q \in Int, r \in Int, e \in Int :
          /\ Laws!QuoRem(d, d2, places) = <<Laws!New(q, s), Laws!New(r, e)>>
          /\ u <= e /\ e + places \in Laws!MinExp..Laws!MaxExp
          /\ 10^(e - u) \in Nat \ {0} /\ Leaves(n, divisor, q, r * 10^(e - u))
  BY QuoRemIs
<1> DEFINE h == 10^(e - u)  left == r * h
           w == u + places  f == e + places
           r2 == Laws!New(2 * Laws!Magnitude(r), f)  size == Laws!Abs(d2)
           opposed == (n > 0 /\ divisor < 0) \/ (n < 0 /\ divisor > 0)
<1>2. /\ v2 \in Int \ {0} /\ d2.exp \in Int /\ n \in Int /\ s \in Int /\ f \in Int
      /\ h \in Nat \ {0} /\ left \in Int /\ w \in Int /\ w <= f /\ w <= d2.exp
      /\ d2.exp - places - u \in Nat /\ d2.exp - w = d2.exp - places - u /\ f - w = e - u
  <2>1. v2 \in Int \ {0} /\ d2.exp \in Int /\ n \in Int
    BY ValIs, AtIs
  <2>2. h \in Nat \ {0} /\ left \in Int
    <3>1. h \in Nat \ {0}
      BY <1>1
    <3> HIDE DEF h
    <3> QED BY <3>1
  <2> HIDE DEF v2, n, h, left
  <2> QED BY <1>1, <2>1, <2>2
<1>3. g \in Nat \ {0}
  BY <1>2 DEF Laws!PowersOfTen
<1>4. divisor \in Int \ {0} /\ Laws!SignOf(divisor) = Laws!Sign(d2)
  <2> HIDE DEF v2, g
  <2>1. Laws!SignOf(v2 * g) = Laws!SignOf(v2) /\ v2 * g \in Int \ {0}
    BY <1>2, <1>3, SignScaled
  <2> QED BY <2>1 DEF Laws!Sign, v2
<1>5. Laws!Sign(d) = Laws!SignOf(n)
  BY AtIs
<1>6. Laws!Wrap(s) = s /\ Laws!Wrap(f) = f
  <2>1. s \in Laws!MinExp..Laws!MaxExp /\ f \in Laws!MinExp..Laws!MaxExp
    BY <1>1 DEF Divides
  <2> HIDE DEF s, f
  <2> QED BY <2>1, WrapInRange
<1>7. /\ r2 \in Laws!Decimals /\ r2.exp = f
      /\ Laws!At(r2, w) = 2 * Laws!Magnitude(left)
  <2> DEFINE a == 2 * Laws!Magnitude(r)
  <2>1. a \in Int /\ a * h = 2 * Laws!Magnitude(left)
    <3> HIDE DEF h
    <3>1. (r < 0 => r * h < 0) /\ (r >= 0 => r * h >= 0) /\ (-r) * h = -(r * h)
      BY <1>2
    <3> QED BY <1>2, <3>1 DEF Laws!Magnitude
  <2>2. r2 = Laws!New(a, f)
    OBVIOUS
  <2> HIDE DEF a, h, f, w, left, r2
  <2>3. Laws!New(a, f) \in Laws!Decimals /\ Laws!New(a, f).exp = f
    BY <1>2, <2>1, NewIs
  <2>4. Laws!At(Laws!New(a, f), w) = a * 10^(f - w)
    BY <1>2, <2>1, AtNew
  <2> QED BY <1>2, <2>1, <2>2, <2>3, <2>4 DEF h
<1>8. /\ size \in Laws!Decimals /\ size.exp = d2.exp
      /\ Laws!At(size, w) = Laws!Magnitude(divisor)
  <2>1. size \in Laws!Decimals /\ size.exp = d2.exp
    BY AbsIs
  <2>2. Laws!At(d2, w) = divisor
    BY <1>2 DEF Laws!At
  <2> HIDE DEF w, divisor, size
  <2>3. Laws!At(Laws!Abs(d2), w) = Laws!Magnitude(Laws!At(d2, w))
    BY <1>2, NegExact
  <2> QED BY <2>1, <2>2, <2>3 DEF size
<1>9. Laws!Cmp(r2, size) = Laws!SignOf(2 * Laws!Magnitude(left) - Laws!Magnitude(divisor))
  <2> HIDE DEF r2, size, w, left, divisor
  <2>1. w <= r2.exp /\ w <= size.exp
    BY <1>2, <1>7, <1>8
  <2>2. Laws!Cmp(r2, size) = Laws!SignOf(Laws!At(r2, w) - Laws!At(size, w))
    BY <1>2, <1>7, <1>8, <2>1, SumExact
  <2> QED BY <1>7, <1>8, <2>2
<1>10. Laws!DivRound(d, d2, places) = Laws!New(Nearer(divisor, q, left, opposed), s)
  <2> DEFINE first == Laws!New(q, s)  other == Laws!New(r, e)  one == Laws!New(1, s)
             qr == <<first, other>>
  <2>1. /\ first \in Laws!Decimals /\ other \in Laws!Decimals /\ qr # Panic
        /\ other.value = r /\ other.exp = e
    <3>1. first \in Laws!Decimals /\ other \in Laws!Decimals /\ other.value = r /\ other.exp = e
      <4> HIDE DEF s
      <4> QED BY <1>2, NewIs
    <3> HIDE DEF first, other
    <3> QED BY <3>1 DEF Laws!Parameters
  <2>2. Laws!Add(first, one) = Laws!New(q + 1, s) /\ Laws!Sub(first, one) = Laws!New(q - 1, s)
    <3> DEFINE i == 1  j == q
    <3>1. i \in Int /\ j \in Int /\ s \in Int
      OBVIOUS
    <3> HIDE DEF s, i, j
    <3>2. /\ Laws!Add(Laws!New(j, s), Laws!New(i, s)) = Laws!New(j + i, s)
          /\ Laws!Sub(Laws!New(j, s), Laws!New(i, s)) = Laws!New(j - i, s)
      BY <3>1, SameScale
    <3> QED BY <3>2 DEF i, j
  <2>3. Laws!DivRound(d, d2, places)
          = IF Laws!Cmp(r2, size) < 0 THEN first
            ELSE IF opposed THEN Laws!Sub(first, one) ELSE Laws!Add(first, one)
    <3>1. opposed <=> Laws!Sign(d) * Laws!Sign(d2) < 0
      <4> HIDE DEF n, divisor
      <4> QED BY <1>2, <1>4, <1>5 DEF Laws!SignOf
    <3>2. Laws!Cmp(r2, size) < 0 \/ Laws!Cmp(r2, size) >= 0
      <4> HIDE DEF r2, size, left, divisor
      <4> QED BY <1>2, <1>4, <1>9 DEF Laws!SignOf, Laws!Magnitude
    <3>3. Laws!QuoRem(d, d2, places) = qr /\ qr[1] = first /\ qr[2] = other
      BY <1>1
    <3> HIDE DEF first, other, one, qr, size, opposed, s, f
    <3>4. Laws!New(2 * Laws!Magnitude(qr[2].value), Laws!Wrap(qr[2].exp + places)) = r2
      BY <1>6, <2>1, <3>3 DEF f
    <3>5. Laws!New(1, Laws!Wrap(-places)) = one
      BY <1>6 DEF s, one
    <3> HIDE DEF r2
    <3>6. Laws!DivRound(d, d2, places)
            = CASE Laws!Cmp(r2, size) < 0 -> first
                [] Laws!Cmp(r2, size) >= 0 /\ Laws!Sign(d) * Laws!Sign(d2) < 0
                     -> Laws!Sub(first, one)
                [] OTHER -> Laws!Add(first, one)
      BY <2>1, <3>3, <3>4, <3>5, Zenon DEF Laws!DivRound, Laws!Then, size
    <3>7. CASE Laws!Cmp(r2, size) < 0
      <4>1. ~(Laws!Cmp(r2, size) >= 0)
        <5> HIDE DEF size
        <5> QED BY <1>2, <1>4, <1>9, <3>7 DEF Laws!SignOf, Laws!Magnitude
      <4> QED BY <3>6, <3>7, <4>1
    <3>8. CASE Laws!Cmp(r2, size) >= 0
      <4>1. ~(Laws!Cmp(r2, size) < 0)
        <5> HIDE DEF size
        <5> QED BY <1>2, <1>4, <1>9, <3>8 DEF Laws!SignOf, Laws!Magnitude
      <4> QED BY <3>1, <3>6, <3>8, <4>1
    <3> QED BY <3>2, <3>7, <3>8
  <2>4. Laws!Cmp(r2, size) < 0 <=> 2 * Laws!Magnitude(left) < Laws!Magnitude(divisor)
    <3> HIDE DEF r2, size, left, divisor
    <3> QED BY <1>2, <1>4, <1>9 DEF Laws!SignOf, Laws!Magnitude
  <2> HIDE DEF first, one, s, opposed, divisor, left, r2, size
  <2> QED BY <2>2, <2>3, <2>4 DEF Nearer, first
<1>11. /\ Nearer(divisor, q, left, opposed) \in Int
       /\ Divided(n, divisor, Nearer(divisor, q, left, opposed))
  <2>1. Leaves(n, divisor, q, left) /\ opposed \in BOOLEAN
    BY <1>1
  <2>2. opposed <=> (n > 0 /\ divisor < 0) \/ (n < 0 /\ divisor > 0)
    OBVIOUS
  <2> HIDE DEF n, divisor, left, opposed
  <2> QED BY <1>2, <1>4, <2>1, <2>2, NearerDivides
<1> HIDE DEF left, opposed
<1> QED BY <1>10, <1>11

\* What the quotient times the divisor is worth.
LEMMA BackIs ==
    ASSUME Laws!PowersOfTen(Nat), Laws!Parameters, NEW d2 \in Laws!Decimals, NEW places \in Int,
           d2.exp - places \in Laws!MinExp..Laws!MaxExp,
           NEW u \in Int, u <= d2.exp - places, NEW k \in Int
    PROVE  Laws!At(Laws!Mul(d2, Laws!New(k, -places)), u)
             = (Laws!Val(d2) * 10^(d2.exp - places - u)) * k
<1> DEFINE v == Laws!Val(d2)  s == -places  e == d2.exp - places  g == 10^(e - u)  m == v * k
<1>1. v \in Int /\ d2.exp \in Int /\ s \in Int /\ e \in Int /\ d2.exp + s = e
  BY ValIs
<1>2. Laws!Val(Laws!New(k, s)) = k /\ Laws!New(k, s).exp = s
  <2> HIDE DEF s
  <2> QED BY <1>1, NewIs
<1>3. Laws!Mul(d2, Laws!New(k, s)) = Laws!New(m, e)
  <2>1. d2.exp + s \in Laws!MinExp..Laws!MaxExp
    BY <1>1
  <2> HIDE DEF s, e
  <2> QED BY <1>1, <1>2, <2>1 DEF Laws!Mul
<1>4. g \in Nat \ {0}
  <2>1. e - u \in Nat
    BY <1>1
  <2> HIDE DEF e
  <2> QED BY <2>1 DEF Laws!PowersOfTen
<1> HIDE DEF v
<1>5. m \in Int
  BY <1>1
<1> HIDE DEF e, m
<1>6. Laws!At(Laws!New(m, e), u) = m * g
  BY <1>1, <1>5, AtNew
<1> HIDE DEF g
<1>7. (v * k) * g = (v * g) * k
  BY <1>1, <1>4
<1> QED BY <1>3, <1>6, <1>7 DEF m, g, v, e

\* QuoRem and DivRound: decimal.go:546, 590.
LEMMA QuotientsRight ==
    ASSUME Laws!PowersOfTen(Nat), Laws!Init
    PROVE  Laws!QuoRemLaw /\ Laws!DivNearest
<1> USE LawsAssumption, RoundingAssumption
<1> DEFINE u == 2 * Laws!Unit  v == Laws!Val(y)  g == 10^(y.exp - p - u)  divisor == v * g
           n == Laws!At(x, u)
<1>1. /\ x \in Laws!Decimals /\ y \in Laws!Decimals /\ p \in Int /\ u \in Int
      /\ u <= x.exp /\ u <= y.exp - p /\ y.exp - p \in Laws!MinExp..Laws!MaxExp
      /\ -p \in Laws!MinExp..Laws!MaxExp /\ Divides(x, y, p)
      /\ v \in Int /\ n \in Int /\ g \in Nat \ {0} /\ Laws!Sign(x) = Laws!SignOf(n)
      /\ Laws!Wrap(-p) = -p
  <2>1. /\ x \in Laws!Decimals /\ y \in Laws!Decimals /\ p \in Int /\ u \in Int
        /\ u <= x.exp /\ u <= y.exp - p /\ y.exp - p \in Int /\ v \in Int
    BY OperandsAre, ValIs
  <2>2. /\ y.exp - p \in Laws!MinExp..Laws!MaxExp
        /\ -p \in Laws!MinExp..Laws!MaxExp /\ Divides(x, y, p)
    BY OperandsAre DEF Laws!InRange, Divides
  <2> HIDE DEF u
  <2>3. g \in Nat \ {0}
    BY <2>1 DEF Laws!PowersOfTen
  <2>4. n \in Int /\ Laws!Sign(x) = Laws!SignOf(n) /\ Laws!Wrap(-p) = -p
    BY <2>1, <2>2, AtIs, WrapInRange
  <2> QED BY <2>1, <2>2, <2>3, <2>4
<1> HIDE DEF u
<1>2. Laws!IsZero(y) <=> v = 0
  BY <1>1 DEF Laws!IsZero, Laws!Sign, Laws!SignOf
<1>3. CASE v = 0
  <2>1. Laws!QuoRem(x, y, p) = Panic
    BY <1>3 DEF Laws!QuoRem
  <2> QED BY <1>2, <1>3, <2>1 DEF Laws!QuoRemLaw, Laws!DivNearest
<1>4. CASE v # 0
  <2>1. Laws!Magnitude(divisor) = Laws!Magnitude(v) * g /\ divisor \in Int
    <3> HIDE DEF v, g
    <3>1. (v < 0 => v * g < 0) /\ (v >= 0 => v * g >= 0) /\ (-v) * g = -(v * g)
      BY <1>1
    <3> QED BY <1>1, <3>1 DEF Laws!Magnitude
  <2>2. Laws!QuoRemLaw
    <3> DEFINE qr == Laws!QuoRem(x, y, p)  left == Laws!At(qr[2], u)
    <3>1. PICK q \in Int, r \in Int, e \in Int :
             /\ qr = <<Laws!New(q, -p), Laws!New(r, e)>>
             /\ 10^(e - u) \in Nat \ {0}
             /\ Leaves(n, divisor, q, r * 10^(e - u))
      BY <1>1, <1>4, QuoRemIs
    <3>2. left = r * 10^(e - u) /\ left \in Int
      <4>1. Laws!At(Laws!New(r, e), u) = r * 10^(e - u)
        BY <1>1, AtNew
      <4>2. qr[2] = Laws!New(r, e)
        BY <3>1
      <4> HIDE DEF qr
      <4>3. left = r * 10^(e - u)
        BY <4>1, <4>2
      <4> QED BY <3>1, <4>3
    <3>3. qr # Panic /\ qr[1] = Laws!New(q, -p) /\ qr[1].exp = -p
      <4> DEFINE s == -p  first == Laws!New(q, s)  other == Laws!New(r, e)
      <4>1. s \in Int
        BY <1>1
      <4> HIDE DEF s
      <4>2. first \in Laws!Decimals /\ other \in Laws!Decimals /\ first.exp = s
        BY <4>1, NewIs
      <4> HIDE DEF first, other
      <4>3. <<first, other>> # Panic
        BY <4>2 DEF Laws!Parameters
      <4>4. qr = <<first, other>>
        BY <3>1 DEF first, other, s
      <4> HIDE DEF qr
      <4> QED BY <4>2, <4>3, <4>4 DEF first, s
    <3>4. Laws!At(Laws!Mul(y, Laws!New(q, -p)), u) = divisor * q
      BY <1>1, BackIs
    <3> HIDE DEF qr, divisor, n, v, g
    <3>5. Leaves(n, divisor, q, left)
      BY <3>1, <3>2
    <3> HIDE DEF left
    <3>6. /\ n = divisor * q + left
          /\ Laws!Magnitude(left) < Laws!Magnitude(v) * g
          /\ left # 0 => Laws!SignOf(left) = Laws!Sign(x)
      <4>1. n = divisor * q + left /\ Laws!Magnitude(left) < Laws!Magnitude(divisor)
        BY <3>5 DEF Leaves
      <4>2. (n >= 0 => left >= 0) /\ (n <= 0 => left <= 0)
        BY <3>5 DEF Leaves
      <4>3. left # 0 => Laws!SignOf(left) = Laws!SignOf(n)
        BY <1>1, <3>2, <4>2 DEF Laws!SignOf
      <4> QED BY <1>1, <2>1, <4>1, <4>3
    <3>7. /\ n = Laws!At(Laws!Mul(y, qr[1]), u) + left /\ qr[1].exp = Laws!Wrap(-p)
      BY <1>1, <3>3, <3>4, <3>6
    <3> QED BY <1>2, <1>4, <3>3, <3>6, <3>7 DEF Laws!QuoRemLaw, qr, left, n, v, g, u
  <2>3. Laws!DivNearest
    <3> DEFINE q == Laws!DivRound(x, y, p)
    <3>1. PICK k \in Int : q = Laws!New(k, -p) /\ Divided(n, divisor, k)
      BY <1>1, <1>4, DivRoundIs
    <3>2. Laws!At(Laws!Mul(y, q), u) = divisor * k
      BY <1>1, <3>1, BackIs
    <3>3. q.exp = -p
      BY <3>1 DEF Laws!New
    <3> HIDE DEF q, divisor, n, v, g
    <3>4. /\ 2 * Laws!Magnitude(n - divisor * k) <= Laws!Magnitude(v) * g
          /\ 2 * Laws!Magnitude(n - divisor * k) = Laws!Magnitude(v) * g
               => Laws!Magnitude(divisor * k) > Laws!Magnitude(n)
      BY <2>1, <3>1 DEF Divided
    <3> QED BY <3>2, <3>3, <3>4 DEF Laws!DivNearest, Laws!Far, q, n, v, g, u
  <2> QED BY <2>2, <2>3
<1> QED BY <1>3, <1>4

-----------------------------------------------------------------------------
(* Cash. *)

\* The exponents 0, -1 and that of a quotient are in range.
LEMMA SmallExponents ==
    ASSUME Laws!RoundingParameters
    PROVE  /\ {0, -1, -DivisionPrecision, DivisionPrecision} \subseteq Laws!MinExp..Laws!MaxExp
           /\ DivisionPrecision \in Nat /\ DivisionPrecision >= 2
<1> DEFINE half == 2^(LawsBits - 1)
<1>1. Laws!MinExp = -half /\ Laws!MaxExp = half - 1 /\ half \in Int
  BY DEF Laws!MinExp, Laws!MaxExp, Laws!RoundingParameters
<1>2. /\ Laws!MinExp \in Int /\ Laws!MaxExp \in Int
      /\ DivisionPrecision \in 2..Laws!MaxExp
  BY DEF Laws!RoundingParameters
<1> HIDE DEF half
<1> QED BY <1>1, <1>2

\* What RoundCash works with: a coin is a hundredth of 100 \div interval.
LEMMA CoinIs ==
    ASSUME NEW interval \in Laws!CashIntervals
    PROVE  /\ interval \in Nat \ {0} /\ 100 \div interval \in Nat \ {0}
           /\ interval * (100 \div interval) = 100
  BY DEF Laws!CashIntervals

\* A number of coins is a quotient without a rest, and survives the truncation.
LEMMA CoinsDivide ==
    ASSUME Laws!PowersOfTen(Nat), Laws!Parameters, Laws!RoundingParameters,
           NEW d \in Laws!Decimals, d.exp = 0, NEW interval \in Laws!CashIntervals
    PROVE  LET quo == Laws!Div(d, Laws!NewFromInt(100 \div interval))
           IN  /\ quo # Panic
               /\ Laws!Truncate(quo, 2) = Laws!New(Laws!Val(d) * interval, -2)
<1> DEFINE c == 100 \div interval  unit == Laws!NewFromInt(c)  dp == DivisionPrecision
           u == -dp  m == Laws!Val(d)  t == 10^(dp - 2)
<1>1. /\ interval \in Nat \ {0} /\ c \in Nat \ {0} /\ interval * c = 100
      /\ dp \in Nat /\ dp >= 2 /\ m \in Int /\ u \in Int /\ Laws!Wrap(dp) = dp
  <2>1. interval \in Nat \ {0} /\ c \in Nat \ {0} /\ interval * c = 100
    BY CoinIs
  <2>2. dp \in Nat /\ dp >= 2 /\ dp \in Laws!MinExp..Laws!MaxExp
    BY SmallExponents
  <2>3. Laws!Wrap(dp) = dp
    BY <2>2, WrapInRange
  <2> HIDE DEF c
  <2> QED BY <2>1, <2>2, <2>3, ValIs
<1>2. unit \in Laws!Decimals /\ unit.exp = 0 /\ Laws!Val(unit) = c
  <2> DEFINE o == 0
  <2>1. unit = Laws!New(c, o) /\ o \in Int
    BY DEF Laws!NewFromInt
  <2> HIDE DEF c, o, unit
  <2>2. unit \in Laws!Decimals /\ unit.exp = o /\ Laws!Val(unit) = c
    BY <1>1, <2>1, NewIs
  <2> QED BY <2>2 DEF o
<1>3. t \in Nat \ {0} /\ 10^dp = 100 * t /\ 10^(0 - u) = 10^dp /\ 10^0 = 1
  <2> DEFINE j == dp - 2  i == 2
  <2>1. j \in Nat /\ i \in Nat /\ dp = i + j /\ 0 - u = dp
    BY <1>1
  <2> HIDE DEF j, i
  <2>2. 10^(i + j) = 10^i * 10^j /\ 10^j \in Nat \ {0}
    BY <2>1 DEF Laws!PowersOfTen
  <2>3. 10^i = 100
    <3>1. 10^2 = 100
      OBVIOUS
    <3> QED BY <3>1 DEF i
  <2>4. 10^0 = 1
    OBVIOUS
  <2> QED BY <2>1, <2>2, <2>3, <2>4 DEF j
<1>4. PICK k \in Int :
          /\ Laws!DivRound(d, unit, dp) = Laws!New(k, -dp)
          /\ Divided(Laws!At(d, u), Laws!Val(unit) * 10^(unit.exp - dp - u), k)
  <2>1. Divides(d, unit, dp)
    <3>1. /\ unit.exp - dp = -dp /\ d.exp + dp = dp
          /\ d.exp - unit.exp + dp = dp
      BY <1>1, <1>2
    <3> HIDE DEF unit, dp
    <3> QED BY <1>2, <3>1, SmallExponents DEF Divides, dp
  <2>2. u <= d.exp /\ u <= unit.exp - dp /\ Laws!Val(unit) # 0
    BY <1>1, <1>2
  <2> HIDE DEF unit, dp, u, c
  <2> QED BY <1>1, <1>2, <2>1, <2>2, DivRoundIs
<1>5. k = (m * interval) * t
  <2> DEFINE w == m * interval * t  n == Laws!At(d, u)
  <2>1. n = m * (100 * t)
    BY <1>3 DEF Laws!At
  <2>2. Divided(n, c, k)
    <3>1. unit.exp - dp - u = 0
      BY <1>1, <1>2
    <3>2. c * 10^0 = c
      <4> HIDE DEF c
      <4> QED BY <1>1, <1>3
    <3> QED BY <1>2, <1>4, <3>1, <3>2
  <2> HIDE DEF n, c, t, m
  <2>3. w \in Int /\ c * w = m * ((interval * c) * t) /\ n = c * w /\ n \in Int
    <3>1. w \in Int /\ c * w = m * ((interval * c) * t)
      BY <1>1, <1>3
    <3>2. m * (100 * t) \in Int
      BY <1>1, <1>3
    <3> QED BY <1>1, <2>1, <3>1, <3>2
  <2>4. n - c * k = c * (w - k)
    BY <1>1, <2>3
  <2>5. 2 * Laws!Magnitude(c * (w - k)) <= c
    BY <1>1, <2>2, <2>4 DEF Divided, Laws!Magnitude
  <2> DEFINE j == w - k
  <2>6. j \in Int
    BY <2>3
  <2> HIDE DEF w, j
  <2>7. (j > 0 => c * j >= c) /\ (j < 0 => c * j <= -c)
    BY <1>1, <2>6
  <2>8. 2 * Laws!Magnitude(c * j) <= c
    BY <2>5 DEF j
  <2>9. j = 0
    BY <1>1, <2>6, <2>7, <2>8 DEF Laws!Magnitude
  <2>10. k = w
    BY <2>3, <2>9 DEF j
  <2> QED BY <2>10 DEF w
<1> DEFINE quo == Laws!New(k, -dp)  coins == m * interval
<1>6. Laws!Div(d, unit) = quo
  BY <1>1, <1>4 DEF Laws!Div
<1>7. quo \in Laws!Decimals /\ quo.exp = -dp /\ Laws!Val(quo) = k /\ quo.value = k
  <2> DEFINE e == -dp
  <2>1. e \in Int
    BY <1>1
  <2> HIDE DEF e
  <2>2. /\ Laws!New(k, e) \in Laws!Decimals /\ Laws!New(k, e).exp = e
        /\ Laws!Val(Laws!New(k, e)) = k /\ Laws!New(k, e).value = k
    BY <2>1, NewIs
  <2> QED BY <2>2 DEF e
<1>8. coins \in Int
  BY <1>1
<1>9. Laws!Truncate(quo, 2) = Laws!New(coins, -2)
  <2>1. CASE dp = 2
    <3>1. t = 1 /\ k = coins
      <4>1. t = 1
        BY <1>3, <2>1
      <4> HIDE DEF t, coins
      <4>2. k = coins * t
        BY <1>5 DEF coins
      <4> QED BY <1>8, <4>1, <4>2
    <3>2. Laws!Truncate(quo, 2) = quo
      BY <1>7, <2>1 DEF Laws!Truncate
    <3> HIDE DEF coins
    <3> QED BY <2>1, <3>1, <3>2
  <2>2. CASE dp > 2
    <3>1. Laws!Truncate(quo, 2) = Laws!Rescale(quo, -2)
      <4>1. -2 > -dp
        BY <1>1, <2>2
      <4> HIDE DEF quo
      <4> QED BY <1>7, <4>1 DEF Laws!Truncate
    <3>2. Laws!Rescale(quo, -2) = Laws!New(Laws!Quo(k, t), -2)
      <4>1. Laws!Magnitude(-2 - quo.exp) = dp - 2 /\ -2 > quo.exp
        BY <1>1, <1>7, <2>2 DEF Laws!Magnitude
      <4> HIDE DEF quo, dp
      <4> QED BY <1>7, <4>1 DEF Laws!Rescale
    <3>3. Laws!Quo(k, t) = coins
      <4> HIDE DEF coins, t
      <4>1. k = coins * t
        BY <1>5 DEF coins
      <4>2. Cut(k, t, coins, 0)
        BY <1>3, <1>8, <4>1 DEF Cut, Laws!Magnitude
      <4>3. 0 \in Int
        OBVIOUS
      <4> QED BY <1>3, <1>8, <4>2, <4>3, QuoCuts
    <3> QED BY <3>1, <3>2, <3>3
  <2> QED BY <1>1, <2>1, <2>2
<1>10. quo # Panic
  BY <1>7 DEF Laws!Parameters
<1> QED BY <1>6, <1>9, <1>10

\* RoundCash: decimal.go:1062.
LEMMA CashRight ==
    ASSUME Laws!PowersOfTen(Nat), Laws!Init
    PROVE  Laws!CashNearest
<1> USE LawsAssumption, RoundingAssumption
<1> SUFFICES ASSUME NEW interval \in Laws!CashIntervals
             PROVE  LET n == 100 * Laws!At(x, Laws!Unit)
                        step == interval * 10^(-Laws!Unit)
                        r == 100 * Laws!At(Laws!RoundCash(x, interval), Laws!Unit)
                    IN  /\ r % step = 0
                        /\ 2 * Laws!Magnitude(r - n) <= step
                        /\ 2 * Laws!Magnitude(r - n) = step => Laws!Far(n, r)
  BY DEF Laws!CashNearest
<1> DEFINE u == Laws!Unit  c == 100 \div interval  unit == Laws!NewFromInt(c)
           product == Laws!Mul(x, unit)  round == Laws!Round(product, 0)
           m == Laws!Val(round)  one == 10^(-u)  a == Laws!At(x, u)
           cash == Laws!RoundCash(x, interval)
<1>1. /\ x \in Laws!Decimals /\ u \in Int /\ u <= x.exp /\ u <= -2 /\ x.exp \in Int
      /\ x.exp \in Laws!MinExp..Laws!MaxExp
  BY OperandsAre DEF Laws!InRange
<1> HIDE DEF u
<1>2. /\ interval \in Nat \ {0} /\ c \in Nat \ {0} /\ interval * c = 100
      /\ one \in Nat \ {0} /\ a \in Int
  <2>1. one \in Nat \ {0}
    <3>1. -u \in Nat
      BY <1>1
    <3> QED BY <3>1 DEF Laws!PowersOfTen
  <2> HIDE DEF c, one
  <2> QED BY <1>1, <2>1, CoinIs, AtIs DEF c
<1>3. unit \in Laws!Decimals /\ unit.exp = 0 /\ Laws!Val(unit) = c
  <2> DEFINE o == 0
  <2>1. unit = Laws!New(c, o) /\ o \in Int
    BY DEF Laws!NewFromInt
  <2> HIDE DEF c, o, unit
  <2>2. unit \in Laws!Decimals /\ unit.exp = o /\ Laws!Val(unit) = c
    BY <1>2, <2>1, NewIs
  <2> QED BY <2>2 DEF o
<1>4. /\ product \in Laws!Decimals /\ product.exp = x.exp
      /\ Laws!At(product, u) = a * c
  <2> DEFINE v == Laws!Val(x)  w == v * c  g == 10^(x.exp - u)  e == x.exp
  <2>1. v \in Int /\ g \in Nat \ {0} /\ a = v * g
    BY <1>1, ValIs, AtIs
  <2>2. product = Laws!New(w, e)
    <3>1. x.exp + unit.exp = x.exp
      BY <1>1, <1>3
    <3> HIDE DEF unit, c
    <3> QED BY <1>1, <1>3, <3>1 DEF Laws!Mul
  <2>3. w \in Int /\ e \in Int
    <3> HIDE DEF v, c
    <3> QED BY <1>1, <1>2, <2>1
  <2> HIDE DEF w, e, product
  <2>4. /\ Laws!New(w, e) \in Laws!Decimals /\ Laws!New(w, e).exp = e
        /\ Laws!At(Laws!New(w, e), u) = w * 10^(e - u)
    BY <1>1, <2>3, NewIs, AtNew
  <2> HIDE DEF v, g, c, a
  <2>5. (v * c) * g = (v * g) * c
    BY <1>2, <2>1
  <2> QED BY <2>1, <2>2, <2>4, <2>5 DEF w, e, g
<1>5. /\ round \in Laws!Decimals /\ round.exp = 0 /\ m \in Int
      /\ NearestAway(m * one, a * c, one)
  <2> DEFINE o == 0
  <2>1. /\ o \in Int /\ -o = 0 /\ -o - 1 = -1 /\ u <= -o - 1 /\ -o - u = -u
        /\ u <= product.exp
    <3>1. u <= product.exp
      <4> HIDE DEF product
      <4> QED BY <1>1, <1>4
    <3>2. o \in Int /\ o <= 0 /\ o >= 0
      OBVIOUS
    <3> HIDE DEF o
    <3>3. -o = 0 /\ -o - 1 = -1 /\ u <= -o - 1 /\ -o - u = -u
      BY <1>1, <3>2
    <3> QED BY <3>1, <3>2, <3>3
  <2>2. {-o, -o - 1} \subseteq Laws!MinExp..Laws!MaxExp
    BY SmallExponents, <2>1
  <2>3. round = Laws!Round(product, o)
    OBVIOUS
  <2> HIDE DEF o, product, round
  <2>4. /\ round \in Laws!Decimals /\ round.exp = -o
        /\ Laws!At(round, u) = Laws!Val(round) * 10^(-o - u)
        /\ NearestAway(Laws!At(round, u), Laws!At(product, u), 10^(-o - u))
    BY <1>1, <1>4, <2>1, <2>2, <2>3, RoundIs
  <2> QED BY <1>4, <2>1, <2>4, ValIs
<1>6. cash = Laws!New(m * interval, -2)
  <2>1. /\ Laws!Div(round, unit) # Panic
        /\ Laws!Truncate(Laws!Div(round, unit), 2) = Laws!New(m * interval, -2)
    <3> HIDE DEF round
    <3> QED BY <1>5, CoinsDivide
  <2>2. product # Panic
    BY <1>4 DEF Laws!Parameters
  <2> HIDE DEF product, unit, m
  <2> QED BY <2>1, <2>2, Zenon DEF Laws!RoundCash, Laws!Then, product, unit, c, round
<1> DEFINE coins == m * interval
<1>7. 100 * Laws!At(cash, u) = (m * one) * interval
  <2> DEFINE e == -2  g == 10^(e - u)
  <2>1. e \in Int /\ coins \in Int
    BY <1>2, <1>5
  <2>2. g \in Nat \ {0} /\ one = 100 * g
    <3> DEFINE i == 2  j == e - u
    <3>1. i \in Nat /\ j \in Nat /\ -u = i + j
      BY <1>1
    <3> HIDE DEF i, j
    <3>2. 10^(i + j) = 10^i * 10^j /\ 10^j \in Nat \ {0}
      BY <3>1 DEF Laws!PowersOfTen
    <3>3. 10^2 = 100
      OBVIOUS
    <3> QED BY <3>1, <3>2, <3>3 DEF i, j
  <2>3. cash = Laws!New(coins, e)
    BY <1>6
  <2> HIDE DEF e, coins, cash
  <2>4. Laws!At(Laws!New(coins, e), u) = coins * g
    BY <1>1, <2>1, AtNew
  <2> HIDE DEF g, one, m
  <2>5. 100 * ((m * interval) * g) = (m * (100 * g)) * interval
    BY <1>2, <1>5, <2>2
  <2> QED BY <2>2, <2>3, <2>4, <2>5 DEF coins
<1> DEFINE b == m * one  r == b * interval  n == 100 * a  step == interval * one
<1>8. r % step = 0 /\ 2 * Laws!Magnitude(r - n) <= step
      /\ (2 * Laws!Magnitude(r - n) = step => Laws!Magnitude(r) > Laws!Magnitude(n))
  <2> HIDE DEF c, one, a, m
  <2>1. step \in Nat \ {0} /\ r = m * step /\ b \in Int /\ a * c \in Int /\ n = (a * c) * interval
    BY <1>2, <1>5
  <2>2. r % step = 0
    <3> HIDE DEF r, step
    <3> QED BY <1>5, <2>1, DivMultiple
  <2> DEFINE k == a * c
  <2>3. NearestAway(b, k, one) /\ k \in Int /\ n = k * interval /\ step = one * interval
    BY <1>2, <1>5, <2>1
  <2>4. interval \in {5, 10, 25, 50, 100}
    BY DEF Laws!CashIntervals
  <2> HIDE DEF n, step, k, b
  <2>5. /\ 2 * Laws!Magnitude(b - k) <= one
        /\ 2 * Laws!Magnitude(b - k) = one => Laws!Magnitude(b) > Laws!Magnitude(k)
    BY <2>3 DEF NearestAway
  <2>6. CASE interval = 5
    BY <1>2, <2>1, <2>2, <2>3, <2>5, <2>6 DEF Laws!Magnitude
  <2>7. CASE interval = 10
    BY <1>2, <2>1, <2>2, <2>3, <2>5, <2>7 DEF Laws!Magnitude
  <2>8. CASE interval = 25
    BY <1>2, <2>1, <2>2, <2>3, <2>5, <2>8 DEF Laws!Magnitude
  <2>9. CASE interval = 50
    BY <1>2, <2>1, <2>2, <2>3, <2>5, <2>9 DEF Laws!Magnitude
  <2>10. CASE interval = 100
    BY <1>2, <2>1, <2>2, <2>3, <2>5, <2>10 DEF Laws!Magnitude
  <2> QED BY <2>4, <2>6, <2>7, <2>8, <2>9, <2>10
<1> HIDE DEF cash, a, one, b, m
<1> QED BY <1>7, <1>8 DEF Laws!Far, u, cash, a, one, b

-----------------------------------------------------------------------------
(* All of them. *)

\* For integers of any size, at every pair of scales and number of places whose
\* exponents fit: Round and RoundBank give the nearest number of those places,
\* the directed roundings the next one in their direction, Floor, Ceil, Truncate and
\* IsInteger agree with integer division, IntPart too where its int64 can hold the
\* integer and in the low bits where it cannot, RoundCash gives the nearest coin,
\* QuoRem obeys its documented law and DivRound is the quotient rounded:
\* decimal.go:546-653, 779, 895-1140.
THEOREM RoundingsRight ==
    ASSUME Laws!PowersOfTen(Nat) PROVE Laws!Spec => []RoundingRight
<1>1. Laws!Init => RoundingRight
  BY NearestRight, DirectedRoundingRight, IntegersRight, CashRight, QuotientsRight
     DEF RoundingRight, Laws!RoundingRight
<1>2. Laws!Init /\ [Laws!Next]_<<x, y, p>> => Laws!Init'
  BY DEF Laws!Init, Laws!Next
<1> QED BY <1>1, <1>2, PTL DEF Laws!Spec

-----------------------------------------------------------------------------
(* The zero value. *)

\* What is not a number of the library is not a result of its own.
LEMMA NumberIsNoPanic ==
    ASSUME Laws!Parameters, NEW d \in Laws!Decimals
    PROVE  d # Panic /\ (Laws!IsZero(d) <=> Laws!Val(d) = 0)
<1>1. d # Panic
  BY DEF Laws!Parameters
<1>2. Laws!Val(d) \in Int
  BY ValIs
<1> DEFINE v == Laws!Val(d)
<1>3. Laws!IsZero(d) <=> Laws!SignOf(v) = 0
  BY DEF Laws!IsZero, Laws!Sign
<1> HIDE DEF v
<1>4. v \in Int
  BY <1>2 DEF v
<1>5. Laws!SignOf(v) = 0 <=> v = 0
  BY <1>4 DEF Laws!SignOf
<1> QED BY <1>1, <1>3, <1>5 DEF v

\* A number of the library is a zero.
ZeroNumber(d) == d \in Laws!Decimals /\ Laws!Val(d) = 0

\* 0 with any exponent is one.
LEMMA NewZero ==
    ASSUME Laws!Parameters, NEW v \in Int, v = 0, NEW e \in Int
    PROVE  ZeroNumber(Laws!New(v, e))
  BY NewIs DEF ZeroNumber

\* Decimal{} and NewFromInt(0) are zeros of exponent 0.
LEMMA ZerosAre ==
    ASSUME Laws!Parameters
    PROVE  /\ ZeroNumber(Laws!ZeroValue) /\ Laws!ZeroValue.exp = 0
           /\ ZeroNumber(Laws!NewFromInt(0)) /\ Laws!NewFromInt(0).exp = 0
<1> DEFINE o == 0
<1>1. o \in Int /\ o = 0
  OBVIOUS
<1>2. Laws!ZeroValue = Laws!New(Nil, o) /\ Laws!NewFromInt(0) = Laws!New(o, o)
  BY DEF Laws!ZeroValue, Laws!NewFromInt
<1> HIDE DEF o
<1>3. Laws!New(Nil, o) \in Laws!Decimals /\ Laws!New(Nil, o).exp = o /\ Laws!Val(Laws!New(Nil, o)) = 0
  BY <1>1 DEF Laws!New, Laws!Decimals, Laws!Val
<1>4. ZeroNumber(Laws!New(o, o)) /\ Laws!New(o, o).exp = o
  BY <1>1, NewZero, NewIs
<1> QED BY <1>1, <1>2, <1>3, <1>4 DEF ZeroNumber

\* An exponent stays an integer whatever is done to it.
LEMMA WrapTyped ==
    ASSUME Laws!RoundingParameters, NEW n \in Int
    PROVE  Laws!Wrap(n) \in Int
<1> DEFINE low == Laws!MinExp  size == 2^LawsBits  m == n - low
<1>1. low \in Int /\ size \in Nat \ {0}
  <2>1. low \in Int /\ Laws!MaxExp \in Int /\ size = Laws!MaxExp - low + 1
    BY DEF Laws!RoundingParameters
  <2>2. 0 \in low..Laws!MaxExp
    BY SmallExponents
  <2> HIDE DEF low, size
  <2> QED BY <2>1, <2>2
<1>2. Laws!Wrap(n) = (m % size) + low
  BY DEF Laws!Wrap
<1> HIDE DEF low, size
<1>3. m \in Int
  BY <1>1
<1> HIDE DEF m
<1>4. m % size \in Int
  BY <1>1, <1>3, DivIs
<1> QED BY <1>1, <1>2, <1>4

\* A zero stays 0 at every scale.
LEMMA RescaleZero ==
    ASSUME Laws!PowersOfTen(Nat), Laws!Parameters, NEW d, ZeroNumber(d), NEW e \in Int
    PROVE  Laws!Rescale(d, e) = Laws!New(0, e)
<1> DEFINE j == Laws!Magnitude(e - d.exp)  scale == 10^j
<1>1. Laws!Val(d) = 0 /\ d.exp \in Int
  BY ValIs DEF ZeroNumber
<1>2. scale \in Nat \ {0}
  <2>1. j \in Nat
    BY <1>1 DEF Laws!Magnitude
  <2> HIDE DEF j
  <2> QED BY <2>1 DEF Laws!PowersOfTen
<1>3. Laws!Rescale(d, e) = Laws!New(IF e > d.exp THEN Laws!Quo(0, scale) ELSE 0 * scale, e)
  BY <1>1 DEF Laws!Rescale
<1> HIDE DEF scale
<1>4. 0 * scale = 0
  BY <1>2
<1>5. Laws!Quo(0, scale) = 0
  <2> DEFINE o == 0
  <2>1. o \in Int /\ o = 0 /\ scale \in Int \ {0} /\ scale > 0
    BY <1>2
  <2> HIDE DEF o
  <2>2. Laws!Quo(o, scale) \in Int /\ Laws!Quo(o, scale) >= 0 /\ Laws!Quo(o, scale) <= 0
    BY <2>1, QuoIs
  <2> QED BY <2>1, <2>2
<1> QED BY <1>3, <1>4, <1>5

\* Every number equals itself, and a zero every zero.
LEMMA EqualsItself ==
    ASSUME Laws!PowersOfTen(Nat), Laws!Parameters, NEW d \in Laws!Decimals
    PROVE  Laws!Equal(d, d)
<1> DEFINE u == d.exp  n == Laws!At(d, u)
<1>1. u \in Int /\ u <= d.exp
  BY ValIs
<1>2. n \in Int
  <2> HIDE DEF u
  <2> QED BY <1>1, AtIs
<1>3. Laws!Cmp(d, d) = Laws!SignOf(n - n)
  <2> HIDE DEF u
  <2> QED BY <1>1, SumExact
<1> HIDE DEF n
<1>4. n - n = 0
  BY <1>2
<1> QED BY <1>3, <1>4 DEF Laws!Equal, Laws!SignOf

\* Quotients are numbers, when they are anything.
LEMMA QuotientTyped ==
    ASSUME Laws!PowersOfTen(Nat), Laws!Parameters, Laws!RoundingParameters,
           NEW d \in Laws!Decimals, NEW d2 \in Laws!Decimals, Laws!Val(d2) # 0,
           NEW places \in Int
    PROVE  Laws!DivRound(d, d2, places) \in Laws!Decimals \cup {Panic}
<1> DEFINE scale == Laws!Wrap(-places)
           e == Laws!Wrap(d.exp - d2.exp - scale)
           aa == IF e < 0 THEN Laws!Val(d) ELSE Laws!Val(d) * 10^e
           bb == IF e < 0 THEN Laws!Val(d2) * 10^(-e) ELSE Laws!Val(d2)
           scalerest == IF e < 0 THEN d.exp ELSE Laws!Wrap(scale + d2.exp)
           quo == Laws!New(Laws!Quo(aa, bb), scale)
           left == Laws!New(Laws!Rem(aa, bb), scalerest)
           qr == Laws!QuoRem(d, d2, places)
<1>1. /\ Laws!Val(d) \in Int /\ Laws!Val(d2) \in Int \ {0}
      /\ d.exp \in Int /\ d2.exp \in Int
  BY ValIs
<1>2. scale \in Int /\ e \in Int /\ scalerest \in Int
  <2>1. scale \in Int
    <3>1. -places \in Int
      OBVIOUS
    <3> QED BY <3>1, WrapTyped
  <2> HIDE DEF scale
  <2>2. d.exp - d2.exp - scale \in Int /\ scale + d2.exp \in Int
    BY <1>1, <2>1
  <2>3. e \in Int /\ Laws!Wrap(scale + d2.exp) \in Int
    BY <2>2, WrapTyped
  <2> QED BY <1>1, <2>1, <2>3
<1>3. aa \in Int /\ bb \in Int \ {0}
  <2> HIDE DEF e
  <2>1. CASE e < 0
    <3> DEFINE j == -e  t == 10^j
    <3>1. j \in Nat
      BY <1>2, <2>1
    <3> HIDE DEF j
    <3>2. t \in Nat \ {0}
      BY <3>1 DEF Laws!PowersOfTen
    <3>3. bb = Laws!Val(d2) * t /\ aa = Laws!Val(d)
      BY <2>1 DEF j
    <3> HIDE DEF t, aa, bb
    <3> QED BY <1>1, <3>2, <3>3
  <2>2. CASE ~(e < 0)
    <3> DEFINE t == 10^e
    <3>1. e \in Nat
      BY <1>2, <2>2
    <3>2. t \in Nat \ {0}
      BY <3>1 DEF Laws!PowersOfTen
    <3>3. bb = Laws!Val(d2) /\ aa = Laws!Val(d) * t
      BY <2>2
    <3> HIDE DEF t, aa, bb
    <3> QED BY <1>1, <3>2, <3>3
  <2> QED BY <2>1, <2>2
<1>4. CASE qr = Panic
  BY <1>4 DEF Laws!DivRound, Laws!Then
<1>5. CASE qr # Panic
  <2>1. qr = <<quo, left>>
    BY <1>5 DEF Laws!QuoRem
  <2> HIDE DEF scale, e, aa, bb, scalerest
  <2>2. Laws!Quo(aa, bb) \in Int /\ Laws!Rem(aa, bb) \in Int
    BY <1>3, QuoIs
  <2>3. /\ quo \in Laws!Decimals /\ left \in Laws!Decimals
        /\ left.value \in Int /\ left.exp \in Int
    <3> DEFINE a == Laws!Quo(aa, bb)  b == Laws!Rem(aa, bb)
    <3>1. a \in Int /\ b \in Int
      BY <2>2
    <3> HIDE DEF a, b
    <3>2. /\ Laws!New(a, scale) \in Laws!Decimals /\ Laws!New(b, scalerest) \in Laws!Decimals
          /\ Laws!New(b, scalerest).value = b /\ Laws!New(b, scalerest).exp = scalerest
      BY <1>2, <3>1, NewIs
    <3> QED BY <1>2, <3>1, <3>2 DEF a, b
  <2> DEFINE r2 == Laws!New(2 * Laws!Magnitude(left.value), Laws!Wrap(left.exp + places))
             last == Laws!New(1, scale)
             decided == CASE Laws!Cmp(r2, Laws!Abs(d2)) < 0 -> quo
                          [] /\ Laws!Cmp(r2, Laws!Abs(d2)) >= 0
                             /\ Laws!Sign(d) * Laws!Sign(d2) < 0 -> Laws!Sub(quo, last)
                          [] OTHER -> Laws!Add(quo, last)
  <2> HIDE DEF quo, left
  <2>4. Laws!DivRound(d, d2, places) = decided
    <3>1. qr[1] = quo /\ qr[2] = left
      BY <2>1
    <3> HIDE DEF qr
    <3>2. qr = Laws!QuoRem(d, d2, places)
      BY DEF qr
    <3> QED BY <1>5, <3>1, <3>2, Zenon DEF Laws!DivRound, Laws!Then, scale
  <2>5. last \in Laws!Decimals
    <3>1. 1 \in Int
      OBVIOUS
    <3> QED BY <1>2, <3>1, NewIs
  <2>6. Laws!Sub(quo, last) \in Laws!Decimals /\ Laws!Add(quo, last) \in Laws!Decimals
    <3> HIDE DEF last
    <3>1. quo.exp \in Int /\ last.exp \in Int
      BY <2>3, <2>5, ValIs
    <3> DEFINE u == IF quo.exp <= last.exp THEN quo.exp ELSE last.exp
    <3>2. u \in Int /\ u <= quo.exp /\ u <= last.exp
      BY <3>1
    <3> HIDE DEF u
    <3> QED BY <2>3, <2>5, <3>2, SumExact
  <2>7. decided \in {quo, Laws!Sub(quo, last), Laws!Add(quo, last)}
    <3> HIDE DEF r2, last
    <3> QED OBVIOUS
  <2> QED BY <2>3, <2>4, <2>6, <2>7
<1> QED BY <1>4, <1>5

\* So are sums and products, and what truncation leaves.
LEMMA ResultsTyped ==
    ASSUME Laws!PowersOfTen(Nat), Laws!Parameters,
           NEW d \in Laws!Decimals, NEW d2 \in Laws!Decimals
    PROVE  /\ Laws!Add(d, d2) \in Laws!Decimals /\ Laws!Sub(d, d2) \in Laws!Decimals
           /\ Laws!Mul(d, d2) \in Laws!Decimals \cup {Panic}
           /\ Laws!Truncate(d, 0) \in Laws!Decimals
<1>1. /\ d.exp \in Int /\ d2.exp \in Int /\ Laws!Val(d) \in Int /\ Laws!Val(d2) \in Int
  BY ValIs
<1> DEFINE low == IF d.exp <= d2.exp THEN d.exp ELSE d2.exp
           u == IF low <= 0 THEN low ELSE 0
<1>2. u \in Int /\ u <= d.exp /\ u <= d2.exp /\ u <= 0
  BY <1>1
<1> HIDE DEF u
<1>3. Laws!Add(d, d2) \in Laws!Decimals /\ Laws!Sub(d, d2) \in Laws!Decimals
  BY <1>2, SumExact
<1>4. Laws!Mul(d, d2) \in Laws!Decimals \cup {Panic}
  <2> DEFINE n == Laws!Val(d) * Laws!Val(d2)  e == d.exp + d2.exp
  <2>1. n \in Int /\ e \in Int
    BY <1>1
  <2>2. Laws!Mul(d, d2) \in {Laws!New(n, e), Panic}
    BY DEF Laws!Mul
  <2> HIDE DEF n, e
  <2>3. Laws!New(n, e) \in Laws!Decimals
    BY <2>1, NewIs
  <2> QED BY <2>2, <2>3
<1>5. Laws!Truncate(d, 0) \in Laws!Decimals
  <2> DEFINE o == 0
  <2>1. o \in Int /\ o <= 0 /\ o >= 0
    OBVIOUS
  <2>2. Laws!Truncate(d, 0) = Laws!Truncate(d, o)
    OBVIOUS
  <2> HIDE DEF o
  <2>3. u <= -o
    BY <1>2, <2>1
  <2>4. Laws!Truncate(d, o) \in Laws!Decimals
    BY <1>2, <2>1, <2>3, TruncateCuts
  <2> QED BY <2>2, <2>4
<1> QED BY <1>3, <1>4, <1>5

\* No rounding makes a zero anything else.
LEMMA ZeroRounded ==
    ASSUME Laws!PowersOfTen(Nat), Laws!Parameters, Laws!RoundingParameters,
           NEW d, ZeroNumber(d), NEW places \in Int
    PROVE  /\ ZeroNumber(Laws!Round(d, places)) /\ ZeroNumber(Laws!RoundBank(d, places))
           /\ \A step \in Int : Laws!RoundDirected(d, places, step) = d
<1> DEFINE e == Laws!Wrap(-places)  below == Laws!Wrap(-places - 1)
<1>1. e \in Int /\ below \in Int /\ Laws!Wrap(below + 1) \in Int
  <2>1. -places \in Int /\ -places - 1 \in Int
    OBVIOUS
  <2>2. e \in Int /\ below \in Int
    BY <2>1, WrapTyped
  <2> HIDE DEF below
  <2>3. below + 1 \in Int
    BY <2>2
  <2> QED BY <2>2, <2>3, WrapTyped
<1>2. /\ Laws!Rescale(d, e) = Laws!New(0, e)
      /\ Laws!Rescale(d, below) = Laws!New(0, below)
  <2> HIDE DEF e, below
  <2> QED BY <1>1, RescaleZero
<1>3. Laws!Round(d, places) \in {d, Laws!New(0, Laws!Wrap(below + 1))}
  <2>1. Laws!New(0, below).value = 0 /\ Laws!New(0, below).exp = below
    BY DEF Laws!New
  <2>2. (0 + 5) \div 10 = 0
    OBVIOUS
  <2> HIDE DEF below
  <2>3. Laws!Rescale(d, Laws!Wrap(-places - 1)) = Laws!New(0, below)
    BY <1>2 DEF below
  <2> QED BY <2>1, <2>2, <2>3 DEF Laws!Round
<1>4. ZeroNumber(Laws!Round(d, places))
  <2> DEFINE o == 0  f == Laws!Wrap(below + 1)
  <2>1. o \in Int /\ o = 0 /\ f \in Int
    BY <1>1
  <2>2. Laws!Round(d, places) \in {d, Laws!New(o, f)}
    BY <1>3
  <2> HIDE DEF o, f
  <2>3. ZeroNumber(Laws!New(o, f))
    BY <2>1, NewZero
  <2> QED BY <2>2, <2>3
<1>5. Laws!RoundBank(d, places) = Laws!Round(d, places)
  <2> DEFINE round == Laws!Round(d, places)
  <2>1. Laws!Val(round) = 0 /\ ~(0 % 2 # 0)
    BY <1>4 DEF ZeroNumber
  <2> HIDE DEF round
  <2>2. round = Laws!Round(d, places)
    BY DEF round
  <2> QED BY <2>1, <2>2 DEF Laws!RoundBank
<1>6. ASSUME NEW step \in Int PROVE Laws!RoundDirected(d, places, step) = d
  <2> DEFINE rescaled == Laws!New(0, e)
  <2>1. Laws!Equal(d, rescaled)
    <3> DEFINE o == 0
    <3>1. o \in Int /\ o = 0
      OBVIOUS
    <3>2. rescaled = Laws!New(o, e)
      OBVIOUS
    <3> HIDE DEF o, e, rescaled
    <3>3. ZeroNumber(rescaled) /\ rescaled.exp \in Int
      BY <1>1, <3>1, <3>2, NewZero, NewIs
    <3>4. d \in Laws!Decimals /\ d.exp \in Int
      BY ValIs DEF ZeroNumber
    <3> DEFINE b == IF d.exp >= rescaled.exp THEN rescaled.exp ELSE d.exp
    <3>5. b \in Int
      BY <3>3, <3>4
    <3>6. Laws!RescalePair(d, rescaled) = <<Laws!Rescale(d, b), Laws!Rescale(rescaled, b)>>
      BY DEF Laws!RescalePair
    <3> HIDE DEF b
    <3>7. Laws!Rescale(d, b).value = 0 /\ Laws!Rescale(rescaled, b).value = 0
      <4>1. Laws!New(0, b).value = 0
        BY DEF Laws!New
      <4> QED BY <3>3, <3>5, <4>1, RescaleZero
    <3>8. Laws!Cmp(d, rescaled) = 0
      BY <3>6, <3>7 DEF Laws!Cmp, Laws!SignOf
    <3> QED BY <3>8 DEF Laws!Equal
  <2>2. Laws!Rescale(d, Laws!Wrap(-places)) = rescaled
    BY <1>2
  <2> HIDE DEF rescaled
  <2> QED BY <2>1, <2>2 DEF Laws!RoundDirected
<1> QED BY <1>4, <1>5, <1>6

\* DivRound looks at its dividend only through QuoRem and through its sign.
LEMMA DividendsAlike ==
    ASSUME NEW dividend, NEW other, NEW d, NEW precision,
           Laws!QuoRem(dividend, d, precision) = Laws!QuoRem(other, d, precision),
           Laws!Sign(dividend) = Laws!Sign(other)
    PROVE  Laws!DivRound(dividend, d, precision) = Laws!DivRound(other, d, precision)
<1> DEFINE Decide(qr, sign) ==
             LET r2 == Laws!New(2 * Laws!Magnitude(qr[2].value), Laws!Wrap(qr[2].exp + precision))
                 last == Laws!New(1, Laws!Wrap(-precision))
             IN  CASE Laws!Cmp(r2, Laws!Abs(d)) < 0 -> qr[1]
                   [] Laws!Cmp(r2, Laws!Abs(d)) >= 0 /\ sign * Laws!Sign(d) < 0 -> Laws!Sub(qr[1], last)
                   [] OTHER -> Laws!Add(qr[1], last)
           Decided(x1) == LET qr == Laws!QuoRem(x1, d, precision)
                          IN  IF qr = Panic THEN Panic ELSE Decide(qr, Laws!Sign(x1))
<1>1. Laws!DivRound(dividend, d, precision) = Decided(dividend)
  BY Zenon DEF Laws!DivRound, Laws!Then
<1>2. Laws!DivRound(other, d, precision) = Decided(other)
  BY Zenon DEF Laws!DivRound, Laws!Then
<1> HIDE DEF Decide
<1> QED BY <1>1, <1>2

\* Every operation gives for Decimal{} what it gives for NewFromInt(0).
LEMMA ZerosAlike ==
    ASSUME Laws!Parameters, NEW d
    PROVE  LET nil == Laws!ZeroValue
               zero == Laws!NewFromInt(0)
           IN  /\ Laws!Add(nil, d) = Laws!Add(zero, d) /\ Laws!Sub(d, nil) = Laws!Sub(d, zero)
               /\ Laws!Mul(nil, d) = Laws!Mul(zero, d)
               /\ Laws!Div(nil, d) = Laws!Div(zero, d)
               /\ Laws!Div(d, nil) = Panic /\ Laws!Div(d, zero) = Panic
               /\ Laws!Mod(nil, d) = Laws!Mod(zero, d)
               /\ Laws!Cmp(nil, d) = Laws!Cmp(zero, d) /\ Laws!Cmp(d, nil) = Laws!Cmp(d, zero)
<1> DEFINE nil == Laws!ZeroValue  zero == Laws!NewFromInt(0)
           places == Laws!Wrap(DivisionPrecision)
<1>1. Laws!Val(nil) = 0 /\ nil.exp = 0 /\ Laws!Val(zero) = 0 /\ zero.exp = 0
  BY ZerosAre DEF ZeroNumber
<1> HIDE DEF nil, zero
<1>2. ASSUME NEW e PROVE Laws!Rescale(nil, e) = Laws!Rescale(zero, e)
  BY <1>1 DEF Laws!Rescale
<1>3. /\ Laws!RescalePair(nil, d) = Laws!RescalePair(zero, d)
      /\ Laws!RescalePair(d, nil) = Laws!RescalePair(d, zero)
  BY <1>1, <1>2 DEF Laws!RescalePair
<1>4. /\ Laws!Add(nil, d) = Laws!Add(zero, d) /\ Laws!Sub(d, nil) = Laws!Sub(d, zero)
      /\ Laws!Sub(nil, d) = Laws!Sub(zero, d)
      /\ Laws!Cmp(nil, d) = Laws!Cmp(zero, d) /\ Laws!Cmp(d, nil) = Laws!Cmp(d, zero)
  BY <1>3 DEF Laws!Add, Laws!Sub, Laws!Cmp
<1>5. Laws!Mul(nil, d) = Laws!Mul(zero, d)
  BY <1>1 DEF Laws!Mul
<1>6. Laws!Div(nil, d) = Laws!Div(zero, d)
  <2>1. Laws!QuoRem(nil, d, places) = Laws!QuoRem(zero, d, places)
    BY <1>1 DEF Laws!QuoRem
  <2>2. Laws!Sign(nil) = Laws!Sign(zero)
    BY <1>1 DEF Laws!Sign
  <2>3. Laws!DivRound(nil, d, places) = Laws!DivRound(zero, d, places)
    BY <2>1, <2>2, DividendsAlike
  <2> QED BY <2>3 DEF Laws!Div
<1>7. Laws!Div(d, nil) = Panic /\ Laws!Div(d, zero) = Panic
  <2>1. Laws!QuoRem(d, nil, places) = Panic /\ Laws!QuoRem(d, zero, places) = Panic
    BY <1>1 DEF Laws!QuoRem
  <2>2. Laws!DivRound(d, nil, places) = Panic /\ Laws!DivRound(d, zero, places) = Panic
    BY <2>1, Zenon DEF Laws!DivRound, Laws!Then
  <2> QED BY <2>2 DEF Laws!Div
<1>8. Laws!Mod(nil, d) = Laws!Mod(zero, d)
  <2>1. ASSUME NEW product PROVE Laws!Sub(nil, product) = Laws!Sub(zero, product)
    <3>1. Laws!RescalePair(nil, product) = Laws!RescalePair(zero, product)
      BY <1>1, <1>2 DEF Laws!RescalePair
    <3> QED BY <3>1 DEF Laws!Sub
  <2> QED BY <1>6, <2>1, Zenon DEF Laws!Mod, Laws!Then
<1> QED BY <1>4, <1>5, <1>6, <1>7, <1>8 DEF nil, zero

\* Both give a number or panic.
LEMMA OfZeroTyped ==
    ASSUME Laws!PowersOfTen(Nat), Laws!Parameters, Laws!RoundingParameters,
           NEW d, ZeroNumber(d), NEW d2 \in Laws!Decimals
    PROVE  /\ Laws!Add(d, d2) \in Laws!Decimals /\ Laws!Sub(d2, d) \in Laws!Decimals
           /\ Laws!Mul(d, d2) \in Laws!Decimals \cup {Panic}
           /\ Laws!Val(d2) # 0 => /\ Laws!Div(d, d2) \in Laws!Decimals \cup {Panic}
                                  /\ Laws!Mod(d, d2) \in Laws!Decimals \cup {Panic}
<1>1. d \in Laws!Decimals
  BY DEF ZeroNumber
<1>2. /\ Laws!Add(d, d2) \in Laws!Decimals /\ Laws!Sub(d2, d) \in Laws!Decimals
      /\ Laws!Mul(d, d2) \in Laws!Decimals \cup {Panic}
  BY <1>1, ResultsTyped
<1>3. ASSUME Laws!Val(d2) # 0
      PROVE  /\ Laws!Div(d, d2) \in Laws!Decimals \cup {Panic}
             /\ Laws!Mod(d, d2) \in Laws!Decimals \cup {Panic}
  <2> DEFINE quo == Laws!Div(d, d2)  short == Laws!Truncate(quo, 0)
             product == Laws!Mul(d2, short)
  <2>1. quo \in Laws!Decimals \cup {Panic}
    <3> DEFINE dp == Laws!Wrap(DivisionPrecision)
    <3>1. DivisionPrecision \in Int
      BY SmallExponents
    <3>2. dp \in Int
      BY <3>1, WrapTyped
    <3> HIDE DEF dp
    <3>3. Laws!DivRound(d, d2, dp) \in Laws!Decimals \cup {Panic}
      BY <1>1, <1>3, <3>2, QuotientTyped
    <3> QED BY <3>3 DEF Laws!Div, dp
  <2>2. Laws!Mod(d, d2) = IF quo = Panic \/ product = Panic THEN Panic ELSE Laws!Sub(d, product)
    <3>1. CASE quo = Panic
      BY <3>1, Zenon DEF Laws!Mod, Laws!Then
    <3>2. CASE quo # Panic
      BY <3>2, Zenon DEF Laws!Mod, Laws!Then
    <3> QED BY <3>1, <3>2
  <2> HIDE DEF quo, short, product
  <2>3. CASE quo = Panic \/ product = Panic
    BY <2>1, <2>2, <2>3 DEF quo
  <2>4. CASE ~(quo = Panic \/ product = Panic)
    <3>1. quo \in Laws!Decimals
      BY <2>1, <2>4
    <3>2. short \in Laws!Decimals
      BY <3>1, ResultsTyped DEF short
    <3>3. product \in Laws!Decimals
      BY <2>4, <3>2, ResultsTyped DEF product
    <3>4. Laws!Sub(d, product) \in Laws!Decimals
      BY <1>1, <3>3, ResultsTyped
    <3> QED BY <2>1, <2>2, <2>4, <3>4 DEF quo
  <2> QED BY <2>3, <2>4
<1> QED BY <1>2, <1>3

\* And with itself alone it stays 0.
LEMMA OfZeroAlone ==
    ASSUME Laws!PowersOfTen(Nat), Laws!Parameters, Laws!RoundingParameters, NEW places \in Int
    PROVE  LET nil == Laws!ZeroValue
           IN  \A d \in {Laws!Neg(nil), Laws!Abs(nil), Laws!Shift(nil, places),
                         Laws!Round(nil, places), Laws!RoundBank(nil, places),
                         Laws!RoundUp(nil, places), Laws!RoundCeil(nil, places),
                         Laws!RoundFloor(nil, places), Laws!RoundDown(nil, places),
                         Laws!Truncate(nil, places), Laws!RoundCash(nil, 5),
                         Laws!Floor(nil), Laws!Ceil(nil)} : ZeroNumber(d)
<1> DEFINE nil == Laws!ZeroValue  o == 0
<1>1. o \in Int /\ o = 0 /\ o <= 0 /\ o >= 0
  OBVIOUS
<1>2. ZeroNumber(nil) /\ Laws!Val(nil) = o /\ nil.exp = o /\ nil \in Laws!Decimals
  BY ZerosAre DEF ZeroNumber
<1> HIDE DEF nil
<1>3. Laws!Sign(nil) = 0
  BY <1>2 DEF Laws!Sign, Laws!SignOf
<1>4. ZeroNumber(Laws!Neg(nil))
  <2> DEFINE v == Laws!Val(nil)  k == -v  e == nil.exp
  <2>1. Laws!Neg(nil) = Laws!New(k, e)
    BY DEF Laws!Neg
  <2>2. v \in Int /\ v <= 0 /\ v >= 0 /\ e \in Int
    BY <1>2
  <2> HIDE DEF v, e
  <2>3. k \in Int /\ k = 0
    BY <2>2
  <2> HIDE DEF k
  <2> QED BY <2>1, <2>2, <2>3, NewZero
<1>5. ZeroNumber(Laws!Abs(nil)) /\ ZeroNumber(Laws!Floor(nil)) /\ ZeroNumber(Laws!Ceil(nil))
  <2>1. Laws!Abs(nil) = nil
    BY <1>3 DEF Laws!Abs, Laws!IsNegative
  <2>2. Laws!Floor(nil) = nil /\ Laws!Ceil(nil) = nil
    BY <1>2 DEF Laws!Floor, Laws!Ceil
  <2> QED BY <1>2, <2>1, <2>2
<1>6. ZeroNumber(Laws!Shift(nil, places))
  <2> DEFINE v == Laws!Val(nil)  n == nil.exp + places  e == Laws!Wrap(n)
  <2>1. n \in Int /\ v \in Int /\ v = 0
    BY <1>2
  <2>2. Laws!Shift(nil, places) = Laws!New(v, e)
    BY DEF Laws!Shift
  <2> HIDE DEF n, v
  <2>3. e \in Int
    BY <2>1, WrapTyped
  <2> HIDE DEF e
  <2> QED BY <2>1, <2>2, <2>3, NewZero
<1>7. /\ ZeroNumber(Laws!Round(nil, places)) /\ ZeroNumber(Laws!RoundBank(nil, places))
      /\ ZeroNumber(Laws!RoundUp(nil, places)) /\ ZeroNumber(Laws!RoundCeil(nil, places))
      /\ ZeroNumber(Laws!RoundFloor(nil, places)) /\ ZeroNumber(Laws!RoundDown(nil, places))
  <2>1. /\ Laws!RoundUp(nil, places) = Laws!RoundDirected(nil, places, o)
        /\ Laws!RoundCeil(nil, places) = Laws!RoundDirected(nil, places, o)
        /\ Laws!RoundFloor(nil, places) = Laws!RoundDirected(nil, places, o)
        /\ Laws!RoundDown(nil, places) = Laws!RoundDirected(nil, places, o)
    BY <1>3 DEF Laws!RoundUp, Laws!RoundCeil, Laws!RoundFloor, Laws!RoundDown
  <2> HIDE DEF o
  <2> QED BY <1>1, <1>2, <2>1, ZeroRounded
<1>8. ZeroNumber(Laws!RoundCash(nil, 5))
  <2> DEFINE interval == 5  unit == Laws!NewFromInt(100 \div interval)
             product == Laws!Mul(nil, unit)  round == Laws!Round(product, 0)
             quo == Laws!Div(round, unit)
  <2>1. interval \in Laws!CashIntervals /\ interval \in Int /\ interval * 0 = 0
    BY DEF Laws!CashIntervals
  <2>2. product = Laws!New(o, o)
    <3>1. 100 \div interval = 20
      OBVIOUS
    <3>2. Laws!Val(unit) = 20 /\ unit.exp = 0
      <4> DEFINE c == 20
      <4>1. c \in Int /\ unit = Laws!New(c, o)
        BY <3>1 DEF Laws!NewFromInt
      <4> HIDE DEF o, unit, c
      <4>2. Laws!Val(unit) = c /\ unit.exp = o
        BY <1>1, <4>1, NewIs
      <4> QED BY <1>1, <4>2 DEF c
    <3>3. 0 \in Laws!MinExp..Laws!MaxExp
      BY SmallExponents
    <3> HIDE DEF unit
    <3>4. nil.exp + unit.exp = 0 /\ Laws!Val(nil) * Laws!Val(unit) = 0
      BY <1>2, <3>2
    <3> QED BY <3>3, <3>4 DEF Laws!Mul
  <2> HIDE DEF interval
  <2>3. ZeroNumber(product) /\ product.exp = o
    <3> HIDE DEF o, product
    <3> QED BY <1>1, <2>2, NewZero, NewIs
  <2>4. round = product
    <3>1. -o = o
      <4> HIDE DEF o
      <4>1. o \in Int /\ o <= 0 /\ 0 <= o
        BY <1>1
      <4> QED BY <4>1, SMTT(60)
    <3>2. Laws!Wrap(o) = o
      <4>1. o \in Laws!MinExp..Laws!MaxExp
        BY SmallExponents
      <4> HIDE DEF o
      <4> QED BY <4>1, WrapInRange
    <3>3. round = Laws!Round(product, o)
      OBVIOUS
    <3> HIDE DEF o, product, round
    <3> QED BY <2>3, <3>1, <3>2, <3>3 DEF Laws!Round
  <2>5. quo # Panic /\ Laws!Truncate(quo, 2) = Laws!New(Laws!Val(round) * interval, -2)
    <3>1. round \in Laws!Decimals /\ round.exp = 0
      BY <2>3, <2>4 DEF ZeroNumber
    <3> HIDE DEF round
    <3> QED BY <2>1, <3>1, CoinsDivide
  <2>6. product # Panic
    BY <2>3, NumberIsNoPanic DEF ZeroNumber
  <2>7. Laws!RoundCash(nil, interval) = Laws!Truncate(quo, 2)
    <3> HIDE DEF product, unit, quo, round
    <3> QED BY <2>1, <2>5, <2>6, Zenon DEF Laws!RoundCash, Laws!Then, product, unit, quo, round
  <2>8. Laws!RoundCash(nil, interval) = Laws!New(o, -2)
    <3>1. Laws!Val(round) * interval = o
      BY <2>1, <2>3, <2>4 DEF ZeroNumber
    <3> QED BY <2>5, <2>7, <3>1
  <2> DEFINE e == -2
  <2>9. e \in Int /\ Laws!RoundCash(nil, interval) = Laws!New(o, e)
    BY <2>8
  <2> HIDE DEF o, e
  <2>10. ZeroNumber(Laws!RoundCash(nil, interval))
    BY <1>1, <2>9, NewZero
  <2> QED BY <2>10 DEF interval
<1>9. ZeroNumber(Laws!Truncate(nil, places))
  <2>1. ~(places >= 0 /\ -places > nil.exp)
    BY <1>2
  <2>2. Laws!Truncate(nil, places) = nil
    BY <2>1 DEF Laws!Truncate
  <2> QED BY <1>2, <2>2
<1> QED BY <1>4, <1>5, <1>6, <1>7, <1>8, <1>9 DEF nil

\* Decimal{} and NewFromInt(0) give numbers that compare equal.
LEMMA ZeroOperandsRight ==
    ASSUME Laws!PowersOfTen(Nat), Laws!Init
    PROVE  Laws!ZeroValueIsZero
<1> USE LawsAssumption, RoundingAssumption
<1> DEFINE nil == Laws!ZeroValue  zero == Laws!NewFromInt(0)
           Same(d, d2) == IF Panic \in {d, d2} THEN d = d2 ELSE Laws!Equal(d, d2)
<1>1. x \in Laws!Decimals /\ p \in Int
  BY OperandsAre
<1>2. ZeroNumber(nil)
  BY ZerosAre
<1>3. /\ Laws!Add(nil, x) = Laws!Add(zero, x) /\ Laws!Sub(x, nil) = Laws!Sub(x, zero)
      /\ Laws!Mul(nil, x) = Laws!Mul(zero, x)
      /\ Laws!Div(nil, x) = Laws!Div(zero, x)
      /\ Laws!Div(x, nil) = Panic /\ Laws!Div(x, zero) = Panic
      /\ Laws!Mod(nil, x) = Laws!Mod(zero, x)
      /\ Laws!Cmp(nil, x) = Laws!Cmp(zero, x) /\ Laws!Cmp(x, nil) = Laws!Cmp(x, zero)
  BY ZerosAlike
<1>4. ASSUME NEW d \in Laws!Decimals \cup {Panic} PROVE Same(d, d)
  BY EqualsItself
<1>5. ~Laws!IsZero(x) => Laws!Val(x) # 0
  BY <1>1, NumberIsNoPanic
<1> HIDE DEF nil
<1>6. /\ Laws!Add(nil, x) \in Laws!Decimals /\ Laws!Sub(x, nil) \in Laws!Decimals
      /\ Laws!Mul(nil, x) \in Laws!Decimals \cup {Panic}
      /\ ~Laws!IsZero(x) => /\ Laws!Div(nil, x) \in Laws!Decimals \cup {Panic}
                            /\ Laws!Mod(nil, x) \in Laws!Decimals \cup {Panic}
  BY <1>1, <1>2, <1>5, OfZeroTyped
<1>7. /\ Same(Laws!Add(nil, x), Laws!Add(zero, x)) /\ Same(Laws!Sub(x, nil), Laws!Sub(x, zero))
      /\ Same(Laws!Mul(nil, x), Laws!Mul(zero, x)) /\ Same(Laws!Div(x, nil), Laws!Div(x, zero))
      /\ ~Laws!IsZero(x) => /\ Same(Laws!Div(nil, x), Laws!Div(zero, x))
                            /\ Same(Laws!Mod(nil, x), Laws!Mod(zero, x))
  <2> HIDE DEF zero, Same
  <2> QED BY <1>3, <1>4, <1>6
<1>8. \A d \in {Laws!Neg(nil), Laws!Abs(nil), Laws!Shift(nil, p), Laws!Round(nil, p),
                Laws!RoundBank(nil, p), Laws!RoundUp(nil, p), Laws!RoundCeil(nil, p),
                Laws!RoundFloor(nil, p), Laws!RoundDown(nil, p), Laws!Truncate(nil, p),
                Laws!RoundCash(nil, 5), Laws!Floor(nil), Laws!Ceil(nil)} : ZeroNumber(d)
  BY <1>1, OfZeroAlone DEF nil
<1>9. ASSUME NEW d, ZeroNumber(d) PROVE d # Panic /\ Laws!IsZero(d)
  BY <1>9, NumberIsNoPanic DEF ZeroNumber
<1>10. \A d \in {Laws!Neg(nil), Laws!Abs(nil), Laws!Shift(nil, p), Laws!Round(nil, p),
                 Laws!RoundBank(nil, p), Laws!RoundUp(nil, p), Laws!RoundCeil(nil, p),
                 Laws!RoundFloor(nil, p), Laws!RoundDown(nil, p), Laws!Truncate(nil, p),
                 Laws!RoundCash(nil, 5), Laws!Floor(nil), Laws!Ceil(nil)} : d # Panic /\ Laws!IsZero(d)
  BY <1>8, <1>9
<1> QED BY <1>3, <1>7, <1>10, Zenon DEF Laws!ZeroValueIsZero, nil, zero

\* A behaviour is about the arithmetic or about the integers behind it.
OneSuite ==
    /\ \/ suite = "laws" /\ Laws!Spec
       \/ suite = "heap" /\ Heap!Spec
    /\ [][UNCHANGED suite]_suite

\* Decimal{} is 0 in every operation, on either side and alone, and no method
\* writes through its nil pointer: ensureInitialized, decimal.go:1324, and its
\* callers.
THEOREM ZeroValueSound ==
    ASSUME Laws!PowersOfTen(Nat) PROVE OneSuite => []ZeroValueIsZero
<1> DEFINE Arithmetic == suite = "laws" /\ Laws!Init
           Storage == suite = "heap" /\ Heap!NilUnwritten
<1>1. Arithmetic => ZeroValueIsZero
  BY ZeroOperandsRight DEF ZeroValueIsZero
<1>2. Arithmetic /\ [Laws!Next]_<<x, y, p>> /\ [UNCHANGED suite]_suite => Arithmetic'
  BY DEF Laws!Init, Laws!Next
<1>3. Storage => ZeroValueIsZero
  BY DEF ZeroValueIsZero
<1>4. suite = "heap" /\ [UNCHANGED suite]_suite => (suite = "heap")'
  OBVIOUS
<1>5. suite = "laws" /\ Laws!Spec /\ [][UNCHANGED suite]_suite => []ZeroValueIsZero
  BY <1>1, <1>2, PTL DEF Laws!Spec
<1>6. suite = "heap" /\ Heap!Spec /\ [][UNCHANGED suite]_suite => []ZeroValueIsZero
  BY <1>3, <1>4, NilStays, PTL
<1> QED BY <1>5, <1>6 DEF OneSuite
==============================================================================
