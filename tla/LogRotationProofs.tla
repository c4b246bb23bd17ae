--------------------------- MODULE LogRotationProofs ---------------------------
(***************************************************************************)
(* No rotation destroys a line, every line is filed where it belongs and   *)
(* no day is rotated twice, for any settings and any length of run, in the *)
(* zones that are not east of UTC (NotEast; LogRotationEast.cfg shows what *)
(* happens east of it).                                                    *)
(*                                                                         *)
(* Everything rests on the boundary that a timer is set to (Boundary): a   *)
(* rotation at the boundary of one interval names its archive after that   *)
(* interval, and the next boundary lies far enough behind for the next     *)
(* name to be a new one. So an archive is never renamed over (NamesOlder), *)
(* restarts included, and what is renamed was written since the timer was  *)
(* set (LiveIsYoung).                                                      *)
(***************************************************************************)
EXTENDS LogRotation, TLAPS

\* The zones in which nextDayOfMilliDuration waits for the end of a local day.
NotEast == \A s \in Settings : s.policy = "day" => s.offset <= 0

\* What the wait for the end of a day is corrected by, and only that.
Correction == IF conf.policy = "day" THEN conf.offset ELSE 0

\* When a timer that is set at t fires.
Boundary(t) == t + Wait(t)

-------------------------------------------------------------------------------
(* Integer division. *)

LEMMA DivRange ==
  ASSUME NEW t \in Int, NEW d \in Nat, d > 0
  PROVE  /\ t \div d \in Int /\ t % d \in 0..(d - 1)
         /\ t = d * (t \div d) + (t % d)
  OBVIOUS

\* Products with a natural keep the order.
LEMMA ProductMonotone ==
  ASSUME NEW a \in Int, NEW b \in Int, NEW d \in Nat, a <= b
  PROVE  d * a <= d * b
<1>1. d * (b - a) >= 0  OBVIOUS
<1>2. d * (b - a) = d * b - d * a  OBVIOUS
<1>. QED  BY <1>1, <1>2

\* The quotient is the only one that leaves a remainder in range.
LEMMA DivUnique ==
  ASSUME NEW t \in Int, NEW d \in Nat, d > 0, NEW k \in Int, d * k <= t, t < d * k + d
  PROVE  t \div d = k
<1>. DEFINE q == t \div d
<1>1. q \in Int /\ d * q <= t /\ t < d * q + d  BY DivRange
<1>. HIDE DEF q
<1>2. CASE q < k
  <2>1. d * (q + 1) <= d * k  BY <1>1, <1>2, ProductMonotone
  <2>2. d * (q + 1) = d * q + d  BY <1>1
  <2>. QED  BY <1>1, <2>1, <2>2
<1>3. CASE k < q
  <2>1. d * (k + 1) <= d * q  BY <1>1, <1>3, ProductMonotone
  <2>2. d * (k + 1) = d * k + d  OBVIOUS
  <2>. QED  BY <1>1, <2>1, <2>2
<1>. QED  BY <1>1, <1>2, <1>3 DEF q

\* So does the quotient.
LEMMA DivMonotone ==
  ASSUME NEW a \in Int, NEW b \in Int, NEW d \in Nat, d > 0, a <= b
  PROVE  a \div d <= b \div d
<1>. DEFINE p == a \div d  q == b \div d
<1>1. /\ p \in Int /\ d * p <= a /\ a < d * p + d
      /\ q \in Int /\ d * q <= b /\ b < d * q + d
  BY DivRange
<1>. HIDE DEF p, q
<1>2. CASE q < p
  <2>1. d * (q + 1) <= d * p  BY <1>1, <1>2, ProductMonotone
  <2>2. d * (q + 1) = d * q + d  BY <1>1
  <2>. QED  BY <1>1, <2>1, <2>2
<1>. QED  BY <1>1, <1>2 DEF p, q

-------------------------------------------------------------------------------
(* The settings. *)

\* The hours of the zone that no wait is corrected by.
Zone == conf.offset - Correction

\* What the assumptions say of the settings in force.
LEMMA ConfFacts ==
  ASSUME NotEast, conf \in Settings
  PROVE  /\ Interval \in Nat /\ Interval > 0
         /\ Grace \in Nat /\ Late \in Nat /\ Late < Grace /\ Grace <= Interval
         /\ conf.offset \in Int
         /\ Correction \in Int /\ Correction <= 0 /\ -Interval < Correction
         /\ Zone \in Int /\ conf.offset = Zone + Correction
         /\ Zone % Interval = 0 \/ Zone % Interval >= Grace
<1>1. conf.policy \in {"day", "hour"} /\ conf.offset \in Int
  BY SettingsAssumption
<1>2. Interval \in Nat /\ Interval > 0 /\ Grace <= Interval
  BY <1>1, TicksAssumption, GraceAssumption DEF Interval
<1>3. CASE conf.policy = "day"
  <2>1. Correction = conf.offset  BY <1>3 DEF Correction
  <2>2. -Interval < conf.offset /\ conf.offset <= 0
    BY <1>3, ZonesAssumption DEF NotEast, Interval
  <2>3. Zone = 0  BY <1>1, <2>1 DEF Zone
  <2>4. 0 % Interval = 0  BY <1>2
  <2>. QED  BY <1>1, <1>2, <2>1, <2>2, <2>3, <2>4, BoundsAssumption
<1>4. CASE conf.policy = "hour"
  <2>1. Correction = 0  BY <1>4 DEF Correction
  <2>2. conf.offset % Interval = 0 \/ conf.offset % Interval >= Grace
    BY <1>4, ZonesAssumption DEF Interval
  <2>3. Zone = conf.offset  BY <1>1, <2>1 DEF Zone
  <2>. QED  BY <1>1, <1>2, <2>1, <2>2, <2>3, BoundsAssumption
<1>. QED  BY <1>1, <1>3, <1>4

\* The wait of either rotation, in one line.
LEMMA WaitIs == \A t : Wait(t) = Interval - (t % Interval) - Correction
  BY DEF Wait, Correction

\* The interval that an archive is named after.
LEMMA PastIs == \A t : Past(t) = (t - Grace + conf.offset) \div Interval
  BY DEF Past, IntervalOf

(***************************************************************************)
(* Start(k) is when interval k of UTC starts. It is linear in k, which is  *)
(* all that is used of the product.                                        *)
(***************************************************************************)
Start(k) == Interval * k

\* Consecutive intervals are one interval apart.
LEMMA StartLinear ==
  ASSUME NotEast, conf \in Settings, NEW j \in Int, NEW k \in Int
  PROVE  /\ Start(j) \in Int
         /\ Start(j + 1) = Start(j) + Interval
         /\ Start(j + k) = Start(j) + Start(k)
<1>1. Interval \in Int  BY ConfFacts
<1>2. ASSUME NEW d \in Int
      PROVE  d * j \in Int /\ d * (j + 1) = d * j + d /\ d * (j + k) = d * j + d * k
  OBVIOUS
<1>. QED  BY <1>1, <1>2 DEF Start

\* A moment is in the interval its quotient names,
LEMMA StartOf ==
  ASSUME NotEast, conf \in Settings, NEW t \in Int
  PROVE  /\ t \div Interval \in Int /\ t % Interval \in 0..(Interval - 1)
         /\ t = Start(t \div Interval) + (t % Interval)
<1>1. Interval \in Nat /\ Interval > 0  BY ConfFacts
<1>. QED  BY <1>1, DivRange DEF Start

\* and in no other.
LEMMA StartUnique ==
  ASSUME NotEast, conf \in Settings, NEW t \in Int, NEW k \in Int,
         Start(k) <= t, t < Start(k) + Interval
  PROVE  t \div Interval = k
<1>1. Interval \in Nat /\ Interval > 0  BY ConfFacts
<1>. QED  BY <1>1, DivUnique DEF Start

\* A later moment is in no earlier interval,
LEMMA IntervalsMonotone ==
  ASSUME NotEast, conf \in Settings, NEW s \in Int, NEW t \in Int, s <= t
  PROVE  s \div Interval <= t \div Interval
<1>1. Interval \in Nat /\ Interval > 0  BY ConfFacts
<1>. QED  BY <1>1, DivMonotone

\* and a later interval does not start earlier.
LEMMA StartMonotone ==
  ASSUME NotEast, conf \in Settings, NEW j \in Int, NEW k \in Int, j <= k
  PROVE  Start(j) <= Start(k)
<1>1. Interval \in Nat  BY ConfFacts
<1>. QED  BY <1>1, ProductMonotone DEF Start

-------------------------------------------------------------------------------
(* Boundaries, and the names of the archives that are made at them. *)

\* How far the interval that an archive is named after is ahead of the one that
\* the timer waited for the end of: by the hours of the zone, and for a zone that
\* is not whole hours away by one more.
Ahead == (Zone \div Interval) + (IF Zone % Interval = 0 THEN 0 ELSE 1)

\* A timer fires later than it is set, at the end of the interval of UTC, or when
\* the local clock ends that day.
LEMMA BoundaryIs ==
  ASSUME NotEast, conf \in Settings, NEW t \in Nat
  PROVE  /\ t \div Interval \in Int /\ Start(t \div Interval) <= t
         /\ Boundary(t) = Start(t \div Interval) + Interval - Correction
         /\ Boundary(t) \in Nat /\ Boundary(t) > t
<1>. DEFINE k == t \div Interval  r == t % Interval
<1>1. k \in Int /\ r \in 0..(Interval - 1) /\ t = Start(k) + r
  BY StartOf
<1>2. Start(k) \in Int  BY <1>1, StartLinear
<1>3. Boundary(t) = t + (Interval - r - Correction)
  BY WaitIs DEF Boundary
<1>4. Interval \in Nat /\ Correction \in Int /\ Correction <= 0
  BY ConfFacts
<1>. HIDE DEF k, r
<1>5. /\ Start(k) <= t /\ Boundary(t) = Start(k) + Interval - Correction
      /\ Boundary(t) > t /\ Boundary(t) \in Int
  BY <1>1, <1>2, <1>3, <1>4
<1>. QED  BY <1>1, <1>5 DEF k

\* A timer that is set later does not fire earlier.
LEMMA BoundaryMonotone ==
  ASSUME NotEast, conf \in Settings, NEW s \in Nat, NEW t \in Nat, s <= t
  PROVE  Boundary(s) <= Boundary(t)
<1>. DEFINE j == s \div Interval  k == t \div Interval
<1>1. /\ j \in Int /\ Boundary(s) = Start(j) + Interval - Correction
      /\ k \in Int /\ Boundary(t) = Start(k) + Interval - Correction
  BY BoundaryIs
<1>2. j <= k  BY IntervalsMonotone
<1>. HIDE DEF j, k
<1>3. Start(j) <= Start(k) /\ Start(j) \in Int /\ Start(k) \in Int
  BY <1>1, <1>2, StartMonotone, StartLinear
<1>4. Interval \in Nat /\ Correction \in Int  BY ConfFacts
<1>. QED  BY <1>1, <1>3, <1>4

\* A later rotation does not name an earlier interval.
LEMMA PastMonotone ==
  ASSUME NotEast, conf \in Settings, NEW s \in Int, NEW t \in Int, s <= t
  PROVE  Past(s) \in Int /\ Past(s) <= Past(t)
<1>. DEFINE a == s - Grace + conf.offset  b == t - Grace + conf.offset
<1>1. a \in Int /\ b \in Int /\ a <= b  BY ConfFacts
<1>2. Past(s) = a \div Interval /\ Past(t) = b \div Interval  BY PastIs
<1>. HIDE DEF a, b
<1>. QED  BY <1>1, <1>2, IntervalsMonotone, StartOf

\* A rotation that is not later than Late names its archive after the interval
\* that the timer waited for the end of.
LEMMA PastOfDue ==
  ASSUME NotEast, conf \in Settings, NEW t \in Nat, NEW y \in Int, 0 <= y, y <= Late
  PROVE  Ahead \in Int /\ Past(Boundary(t) + y) = (t \div Interval) + Ahead
<1>. DEFINE k == t \div Interval
            z == Zone \div Interval
            m == Zone % Interval
            a == IF m = 0 THEN 0 ELSE 1
            x == (Boundary(t) + y) - Grace + conf.offset
<1>1. k \in Int /\ Boundary(t) = Start(k) + Interval - Correction
  BY BoundaryIs
<1>2. z \in Int /\ m \in 0..(Interval - 1) /\ Zone = Start(z) + m
  BY ConfFacts, StartOf
<1>3. m = 0 \/ m >= Grace  BY ConfFacts
<1>4. /\ Interval \in Nat /\ Correction \in Int /\ conf.offset = Zone + Correction
      /\ Grace \in Nat /\ Late \in Nat /\ Late < Grace /\ Grace <= Interval /\ Zone \in Int
  BY ConfFacts
<1>5. Ahead = z + a  BY DEF Ahead
<1>6. Past(Boundary(t) + y) = x \div Interval  BY PastIs
<1>. HIDE DEF k, z, m
<1>7. /\ Start(k) \in Int /\ Start(z) \in Int /\ Start(k + z) \in Int
      /\ Start(k + z) = Start(k) + Start(z)
      /\ Start(k + z + 1) = Start(k) + Start(z) + Interval
  <2>1. k + z \in Int  BY <1>1, <1>2
  <2>2. Start(k + z + 1) = Start(k + z) + Interval  BY <2>1, StartLinear
  <2>. QED  BY <1>1, <1>2, <2>1, <2>2, StartLinear
<1>8. x = Start(k) + Start(z) + (Interval + m + y - Grace) /\ x \in Int
  BY <1>1, <1>2, <1>4, <1>7
<1>. HIDE DEF x
<1>9. CASE m = 0
  <2>1. Start(k + z) <= x /\ x < Start(k + z) + Interval
    BY <1>4, <1>7, <1>8, <1>9
  <2>2. k + z \in Int  BY <1>1, <1>2
  <2>3. x \div Interval = k + z  BY <1>8, <2>1, <2>2, StartUnique
  <2>. QED  BY <1>1, <1>2, <1>5, <1>6, <1>9, <2>3 DEF k
<1>10. CASE m # 0
  <2>1. Start(k + z + 1) <= x /\ x < Start(k + z + 1) + Interval
    BY <1>2, <1>3, <1>4, <1>7, <1>8, <1>10
  <2>2. k + z + 1 \in Int  BY <1>1, <1>2
  <2>3. x \div Interval = k + z + 1  BY <1>8, <2>1, <2>2, StartUnique
  <2>. QED  BY <1>1, <1>2, <1>5, <1>6, <1>10, <2>3 DEF k
<1>. QED  BY <1>9, <1>10

\* The boundary after a rotation gives the next archive a name that is later.
LEMMA NextNameIsLater ==
  ASSUME NotEast, conf \in Settings, NEW t \in Nat, NEW w \in Nat,
         Boundary(t) <= w, w <= Boundary(t) + Late
  PROVE  Past(w) < Past(Boundary(w))
<1>. DEFINE k == t \div Interval  j == w \div Interval  y == w - Boundary(t)
<1>1. k \in Int /\ Boundary(t) = Start(k) + Interval - Correction /\ Boundary(t) \in Nat
  BY BoundaryIs
<1>2. j \in Int /\ Boundary(w) \in Nat  BY BoundaryIs
<1>3. /\ Interval \in Nat /\ Correction \in Int /\ Correction <= 0 /\ Late \in Nat
  BY ConfFacts
<1>4. y \in Int /\ 0 <= y /\ y <= Late /\ w = Boundary(t) + y  BY <1>1, <1>3
<1>5. Ahead \in Int /\ Past(w) = k + Ahead
  <2>. HIDE DEF y
  <2>. QED  BY <1>4, PastOfDue
<1>6. Past(Boundary(w)) = j + Ahead
  <2>1. Past(Boundary(w) + 0) = j + Ahead  BY <1>3, PastOfDue
  <2>2. Boundary(w) + 0 = Boundary(w)  BY <1>2
  <2>. QED  BY <2>1, <2>2
<1>7. k + 1 <= j
  <2>. HIDE DEF k
  <2>1. k + 1 \in Int /\ Start(k) \in Int /\ Start(k + 1) = Start(k) + Interval
    BY <1>1, StartLinear
  <2>2. Start(k + 1) \in Int /\ Start(k + 1) <= w
    BY <1>1, <1>3, <2>1
  <2>3. Start(k + 1) < Start(k + 1) + Interval  BY <2>2, ConfFacts
  <2>4. Start(k + 1) \div Interval = k + 1  BY <2>1, <2>2, <2>3, StartUnique
  <2>5. Start(k + 1) \div Interval <= j  BY <2>2, IntervalsMonotone
  <2>. QED  BY <2>4, <2>5
<1>. HIDE DEF k, j
<1>. QED  BY <1>1, <1>2, <1>5, <1>6, <1>7

-------------------------------------------------------------------------------
(* Where the boundaries of the local clock are those of UTC. *)

LEMMA AlignedFacts ==
  ASSUME NotEast, conf \in Settings, Aligned
  PROVE  Correction = 0 /\ Ahead \in Int /\ conf.offset = Start(Ahead)
<1>1. /\ Interval \in Nat /\ Interval > 0 /\ Correction \in Int /\ conf.offset \in Int
      /\ Correction <= 0 /\ -Interval < Correction
  BY ConfFacts
<1>2. Correction = 0
  <2>1. CASE Correction = conf.offset
    <3>. DEFINE q == Correction \div Interval
    <3>1. q \in Int /\ Correction = Start(q)
      <4>1. q \in Int /\ Correction = Start(q) + (Correction % Interval)
        BY <1>1, StartOf
      <4>2. Correction % Interval = 0  BY <2>1 DEF Aligned
      <4>3. Start(q) \in Int  BY <4>1, StartLinear
      <4>. QED  BY <4>1, <4>2, <4>3
    <3>. HIDE DEF q
    <3>2. Start(0) = 0 /\ Start(-1) = -Interval
      <4>1. -1 \in Int /\ -1 + 1 = 0  OBVIOUS
      <4>2. Start(0) = 0  BY <1>1 DEF Start
      <4>3. Start(0) = Start(-1) + Interval /\ Start(-1) \in Int
        BY <4>1, StartLinear
      <4>. DEFINE p == Start(-1)
      <4>4. p \in Int /\ 0 = p + Interval  BY <4>2, <4>3
      <4>. HIDE DEF p
      <4>5. p = -Interval  BY <1>1, <4>4
      <4>. QED  BY <4>2, <4>5 DEF p
    <3>3. CASE q <= -1
      <4>1. Start(q) <= Start(-1)  BY <3>1, <3>3, StartMonotone
      <4>. QED  BY <1>1, <3>1, <3>2, <4>1
    <3>4. CASE q >= 0
      <4>1. Start(0) <= Start(q)  BY <3>1, <3>4, StartMonotone
      <4>. QED  BY <1>1, <3>1, <3>2, <4>1
    <3>. QED  BY <3>1, <3>3, <3>4
  <2>2. CASE Correction = 0  BY <2>2
  <2>. QED  BY <2>1, <2>2 DEF Correction
<1>3. Zone = conf.offset  BY <1>1, <1>2 DEF Zone
<1>4. Zone % Interval = 0  BY <1>3 DEF Aligned
<1>. DEFINE z == Zone \div Interval
<1>5. z \in Int /\ Zone = Start(z)
  <2>1. z \in Int /\ Zone = Start(z) + 0  BY <1>1, <1>3, <1>4, StartOf
  <2>2. Start(z) \in Int  BY <2>1, StartLinear
  <2>. QED  BY <2>1, <2>2
<1>6. Ahead = z
  <2>1. Ahead = z + 0  BY <1>4 DEF Ahead
  <2>. HIDE DEF z
  <2>. QED  BY <1>5, <2>1
<1>. QED  BY <1>2, <1>3, <1>5, <1>6

\* From when a timer is set until it fires, it is the same interval.
LEMMA SameInterval ==
  ASSUME NotEast, conf \in Settings, Aligned,
         NEW s \in Nat, NEW t \in Nat, s <= t, t < Boundary(s)
  PROVE  IntervalOf(t) = (s \div Interval) + Ahead
<1>. DEFINE k == s \div Interval  x == t + conf.offset
<1>1. k \in Int /\ Start(k) <= s /\ Boundary(s) = Start(k) + Interval - Correction
  BY BoundaryIs
<1>2. Correction = 0 /\ Ahead \in Int /\ conf.offset = Start(Ahead) /\ conf.offset \in Int
      /\ Interval \in Nat
  BY AlignedFacts, ConfFacts
<1>3. IntervalOf(t) = x \div Interval  BY DEF IntervalOf
<1>. HIDE DEF k
<1>4. k + Ahead \in Int /\ Start(k) \in Int /\ Start(k + Ahead) = Start(k) + Start(Ahead)
  BY <1>1, <1>2, StartLinear
<1>5. x \in Int /\ Start(k + Ahead) <= x /\ x < Start(k + Ahead) + Interval
  BY <1>1, <1>2, <1>4
<1>. HIDE DEF x
<1>6. x \div Interval = k + Ahead  BY <1>4, <1>5, StartUnique
<1>. QED  BY <1>3, <1>6 DEF k

\* What was written since the timer was set is archived under its interval, or,
\* written while the rotation was overdue, under the one before.
LEMMA FiledRight ==
  ASSUME NotEast, conf \in Settings, Aligned,
         NEW s \in Nat, NEW t \in Nat, NEW w \in Nat, s <= t, t <= w,
         Boundary(s) <= w, w <= Boundary(s) + Late
  PROVE  Past(w) \in {IntervalOf(t), IntervalOf(t - Grace)}
<1>. DEFINE k == s \div Interval
<1>1. Boundary(s) \in Nat /\ Late \in Nat  BY BoundaryIs, ConfFacts
<1>2. \A u \in Nat : Boundary(s) <= u /\ u <= Boundary(s) + Late => Past(u) = k + Ahead
  <2>. SUFFICES ASSUME NEW u \in Nat, Boundary(s) <= u, u <= Boundary(s) + Late
                PROVE  Past(u) = k + Ahead
    OBVIOUS
  <2>. DEFINE y == u - Boundary(s)
  <2>1. y \in Int /\ 0 <= y /\ y <= Late /\ u = Boundary(s) + y  BY <1>1
  <2>. HIDE DEF y
  <2>. QED  BY <2>1, PastOfDue
<1>3. CASE t < Boundary(s)
  BY <1>2, <1>3, SameInterval
<1>4. CASE Boundary(s) <= t
  <2>1. t <= Boundary(s) + Late  BY <1>1
  <2>2. Past(t) = k + Ahead  BY <1>2, <1>4, <2>1
  <2>. QED  BY <1>2, <2>2 DEF Past
<1>. QED  BY <1>1, <1>3, <1>4

\* A day later is another day.
LEMMA DayLater ==
  ASSUME NotEast, conf \in Settings, conf.policy = "day", NEW t \in Nat
  PROVE  IntervalOf(Boundary(t)) # IntervalOf(t)
<1>. DEFINE k == t \div Interval  x == Boundary(t) + conf.offset  y == t + conf.offset
<1>1. k \in Int /\ Boundary(t) = Start(k) + Interval - Correction /\ Boundary(t) \in Nat
  BY BoundaryIs
<1>2. Correction = conf.offset  BY DEF Correction
<1>3. conf.offset \in Int /\ conf.offset <= 0 /\ Interval \in Nat /\ Interval > 0
  BY <1>2, ConfFacts
<1>4. IntervalOf(Boundary(t)) = x \div Interval /\ IntervalOf(t) = y \div Interval
  BY DEF IntervalOf
<1>5. y \div Interval <= k  BY <1>3, IntervalsMonotone
<1>. HIDE DEF k
<1>6. k + 1 \in Int /\ Start(k) \in Int /\ Start(k + 1) = Start(k) + Interval
  BY <1>1, StartLinear
<1>7. x \in Int /\ Start(k + 1) <= x /\ x < Start(k + 1) + Interval
  BY <1>1, <1>2, <1>3, <1>6
<1>8. y \div Interval \in Int  BY <1>3, StartOf
<1>. HIDE DEF x, y
<1>9. x \div Interval = k + 1  BY <1>6, <1>7, StartUnique
<1>. QED  BY <1>1, <1>4, <1>5, <1>8, <1>9

-------------------------------------------------------------------------------
(* The inductive invariant. *)

\* The timer is set to a boundary, and is served soon after it.
Timed ==
  /\ due = Boundary(set)
  /\ loop = "running" => now <= due + Late

\* Whenever the timer fires, the archives that exist have earlier names.
NamesOlder == \A f \in Files : \A n \in DOMAIN archive[f] : n < Past(due)

\* Lines of this process in a live file were written since the timer was set,
\* except where a rotation failed.
LiveIsYoung == open => \A f \in Files : \A t \in live[f] : t >= began => t >= set

Shaped == TypeOK /\ live \in [Files -> SUBSET Nat] /\ written \in [Files -> SUBSET Nat]

IInv == Shaped /\ Timed /\ NamesOlder /\ LiveIsYoung /\ LinesKept /\ FiledWhereWritten

\* The lines of the archives of a file.
Archived(f) == UNION {archive[f][n] : n \in DOMAIN archive[f]}

\* A line is in the live file or in an archive: LinesKept, file by file.
LEMMA KeptIs == LinesKept <=> \A f \in Files : written[f] = live[f] \union Archived(f)
  BY DEF LinesKept, Archived

\* What the clock says when a rotation fires.
LEMMA FireFacts ==
  ASSUME NotEast, IInv, Fire
  PROVE  /\ UNCHANGED <<conf, now, began, loop>> /\ now \in Nat /\ set \in Nat /\ set <= now
         /\ set' = now /\ due' = Boundary(now) /\ due' \in Nat /\ due' > now
         /\ due = Boundary(set) /\ due <= now /\ now <= due + Late
         /\ Past(now) \in Int /\ Past(due) <= Past(now) /\ Past(now) < Past(due)'
<1>1. UNCHANGED <<conf, now, began, loop>> /\ set' = now /\ due' = Boundary(now)
  BY DEF Fire, Boundary
<1>2. /\ now \in Nat /\ set \in Nat /\ set <= now /\ conf \in Settings
      /\ due = Boundary(set) /\ due <= now /\ now <= due + Late /\ due \in Nat
  BY DEF IInv, Shaped, TypeOK, Timed, Fire
<1>3. due' \in Nat /\ due' > now  BY <1>1, <1>2, BoundaryIs
<1>4. Past(due) \in Int /\ Past(now) \in Int /\ Past(due) <= Past(now)
  BY <1>2, PastMonotone
<1>5. Past(now) < Past(Boundary(now))  BY <1>2, NextNameIsLater
<1>6. Past(due)' = Past(Boundary(now))
  BY <1>1 DEF Past, IntervalOf, Interval
<1>. QED  BY <1>1, <1>2, <1>3, <1>4, <1>5, <1>6

\* Renaming live files replaces no archive, and puts every line where it belongs.
LEMMA RenameFiles ==
  ASSUME NotEast, IInv, Fire, open, NEW R \in SUBSET Files, Rename(R), NEW f \in Files
  PROVE  /\ \A n \in DOMAIN archive'[f] :
              n \in Int /\ archive'[f][n] \subseteq 0..now /\ n < Past(due)'
         /\ Archived(f)' = Archived(f) \union (IF f \in R THEN live[f] ELSE {})
         /\ Aligned => \A n \in DOMAIN archive'[f] : \A t \in archive'[f][n] :
                         t >= began => n \in {IntervalOf(t), IntervalOf(t - Grace)}
<1>. DEFINE p == Past(now)
<1>1. /\ now \in Nat /\ set \in Nat /\ p \in Int /\ Past(due) <= p /\ p < Past(due)'
      /\ Past(due) \in Int /\ Past(due)' \in Int
  <2>1. conf' \in Settings /\ due' \in Int /\ due' <= due' /\ due \in Int /\ conf \in Settings
    BY FireFacts DEF IInv, Shaped, TypeOK
  <2>2. Past(due) \in Int  BY <2>1, PastMonotone
  <2>3. conf' = conf /\ Past(due') \in Int
    BY <2>1, FireFacts, PastMonotone
  <2>4. Past(due)' = Past(due')  BY <2>3 DEF Past, IntervalOf, Interval
  <2>. QED  BY <2>2, <2>3, <2>4, FireFacts
<1>2. /\ live[f] \subseteq 0..now
      /\ \A n \in DOMAIN archive[f] :
           n \in Int /\ archive[f][n] \subseteq 0..now /\ n < Past(due)
      /\ Aligned => \A n \in DOMAIN archive[f] : \A t \in archive[f][n] :
                      t >= began => n \in {IntervalOf(t), IntervalOf(t - Grace)}
  BY DEF IInv, Shaped, TypeOK, NamesOlder, FiledWhereWritten
<1>3. Aligned => \A t \in live[f] : t >= began => p \in {IntervalOf(t), IntervalOf(t - Grace)}
  <2>. SUFFICES ASSUME Aligned, NEW t \in live[f], t >= began
                PROVE  p \in {IntervalOf(t), IntervalOf(t - Grace)}
    OBVIOUS
  <2>1. t \in Nat /\ t <= now /\ set <= t
    BY <1>1, <1>2 DEF IInv, LiveIsYoung
  <2>2. Boundary(set) <= now /\ now <= Boundary(set) + Late /\ conf \in Settings
    BY FireFacts DEF IInv, Shaped, TypeOK
  <2>. QED  BY <1>1, <2>1, <2>2, FiledRight
<1>4. p \notin DOMAIN archive[f]  BY <1>1, <1>2
<1>5. CASE f \notin R
  <2>1. archive'[f] = archive[f]  BY <1>5 DEF Rename
  <2>. QED  BY <1>1, <1>2, <1>5, <2>1 DEF Archived
<1>6. CASE f \in R
  <2>1. /\ DOMAIN archive'[f] = DOMAIN archive[f] \union {p}
        /\ archive'[f][p] = live[f]
        /\ \A m \in DOMAIN archive[f] : archive'[f][m] = archive[f][m]
    <3>1. archive'[f] = [m \in DOMAIN archive[f] \union {p} |->
                            IF m = p THEN live[f] ELSE archive[f][m]]
      BY <1>6 DEF Rename, Renamed
    <3>. HIDE DEF p
    <3>. QED  BY <1>4, <3>1
  <2>. HIDE DEF p
  <2>2. \A n \in DOMAIN archive'[f] :
          n \in Int /\ archive'[f][n] \subseteq 0..now /\ n < Past(due)'
    BY <1>1, <1>2, <2>1
  <2>3. Archived(f)' = Archived(f) \union live[f]
    BY <2>1 DEF Archived
  <2>4. Aligned => \A n \in DOMAIN archive'[f] : \A t \in archive'[f][n] :
                     t >= began => n \in {IntervalOf(t), IntervalOf(t - Grace)}
    BY <1>2, <1>3, <2>1
  <2>. QED  BY <1>6, <2>2, <2>3, <2>4
<1>. QED  BY <1>5, <1>6

\* A new process over no files has lost nothing.
LEMMA InitIInv == NotEast /\ Init => IInv
<1>. SUFFICES ASSUME NotEast, Init PROVE IInv
  OBVIOUS
<1>1. /\ conf \in Settings /\ now \in Nat /\ began = now /\ set = now /\ due = Boundary(now)
      /\ loop = "running" /\ open = TRUE
      /\ live = [f \in Files |-> {}] /\ written = [f \in Files |-> {}]
      /\ \A f \in Files : DOMAIN archive[f] = {}
  BY ConfFacts DEF Init, Boundary
<1>2. due \in Nat /\ due > now  BY <1>1, BoundaryIs
<1>3. TypeOK  BY <1>1, <1>2 DEF TypeOK
<1>4. Shaped /\ LiveIsYoung  BY <1>1, <1>3 DEF Shaped, LiveIsYoung
<1>5. Timed  BY <1>1, <1>2, BoundsAssumption DEF Timed
<1>6. NamesOlder /\ FiledWhereWritten  BY <1>1 DEF NamesOlder, FiledWhereWritten
<1>7. LinesKept
  <2>1. \A f \in Files : Archived(f) = {}  BY <1>1 DEF Archived
  <2>. QED  BY <1>1, <2>1, KeptIs
<1>. QED  BY <1>3, <1>4, <1>5, <1>6, <1>7 DEF IInv

\* Rotate and RotateFails rename some of the files, empty those, and leave the
\* others; what the goroutine logs itself is in the new file.
LEMMA RotationKeeps ==
  ASSUME NotEast, IInv, open, Fire, NEW R \in SUBSET Files, Rename(R),
         NEW line \in [Files -> {{}, {now}}],
         live' = [f \in Files |-> IF f \in R THEN line[f] ELSE live[f]],
         written' = [f \in Files |-> IF f \in R THEN written[f] \union line[f] ELSE written[f]],
         open' => R = Files, open' \in BOOLEAN
  PROVE  IInv'
<1>1. Fire /\ Rename(R) /\ open  OBVIOUS
<1>2. /\ UNCHANGED <<conf, now, began, loop>> /\ now \in Nat /\ began \in Nat /\ began <= now
      /\ set' = now /\ due' = Boundary(now) /\ due' \in Nat /\ due' > now
      /\ conf \in Settings /\ loop \in {"running", "ended"}
  BY FireFacts DEF IInv, Shaped, TypeOK
<1>3. \A f \in Files :
        /\ \A n \in DOMAIN archive'[f] :
             n \in Int /\ archive'[f][n] \subseteq 0..now /\ n < Past(due)'
        /\ Archived(f)' = Archived(f) \union (IF f \in R THEN live[f] ELSE {})
        /\ Aligned => \A n \in DOMAIN archive'[f] : \A t \in archive'[f][n] :
                        t >= began => n \in {IntervalOf(t), IntervalOf(t - Grace)}
  BY <1>1, RenameFiles
<1>4. \A f \in Files : /\ line[f] \subseteq {now}
                       /\ live[f] \subseteq 0..now /\ written[f] \subseteq 0..now
  BY DEF IInv, Shaped, TypeOK
<1>5. \A f \in Files : live'[f] \subseteq 0..now /\ written'[f] \subseteq 0..now
  BY <1>2, <1>4
<1>6. TypeOK'  BY <1>2, <1>3, <1>5 DEF TypeOK
<1>7. Shaped'
  <2>1. live' \in [Files -> SUBSET Nat] /\ written' \in [Files -> SUBSET Nat]
    BY <1>2, <1>5
  <2>. QED  BY <1>6, <2>1 DEF Shaped
<1>8. Timed'
  <2>1. Boundary(now)' = Boundary(now)  BY <1>2 DEF Boundary, Wait, Interval
  <2>2. Boundary(set)' = Boundary(now)  BY <1>2, <2>1 DEF Boundary, Wait, Interval
  <2>. QED  BY <1>2, <2>2, BoundsAssumption DEF Timed
<1>9. NamesOlder'  BY <1>3 DEF NamesOlder
<1>10. LiveIsYoung'  BY <1>2, <1>4 DEF LiveIsYoung
<1>11. LinesKept'
  <2>1. \A f \in Files : written[f] = live[f] \union Archived(f)
    BY KeptIs DEF IInv
  <2>2. \A f \in Files : written'[f] = live'[f] \union Archived(f)'
    BY <1>3, <2>1
  <2>. QED  BY <2>2 DEF LinesKept, Archived
<1>12. FiledWhereWritten'
  BY <1>2, <1>3 DEF FiledWhereWritten, Aligned, IntervalOf, Interval
<1>. QED  BY <1>7, <1>8, <1>9, <1>10, <1>11, <1>12 DEF IInv

\* With the files closed a rotation only sets the timer.
LEMMA ClosedKeeps == NotEast /\ IInv /\ RotateClosed => IInv'
<1>. SUFFICES ASSUME NotEast, IInv, RotateClosed PROVE IInv'
  OBVIOUS
<1>1. Fire /\ UNCHANGED <<open, live, archive, written>> /\ ~open
  BY DEF RotateClosed
<1>2. /\ UNCHANGED <<conf, now, began, loop>> /\ now \in Nat
      /\ set' = now /\ due' = Boundary(now) /\ due' \in Nat /\ due' > now
      /\ due \in Nat /\ due <= now /\ conf \in Settings
  BY <1>1, FireFacts DEF IInv, Shaped, TypeOK
<1>3. Shaped'  BY <1>1, <1>2 DEF IInv, Shaped, TypeOK
<1>4. Timed'
  <2>1. Boundary(set)' = Boundary(now)  BY <1>2 DEF Boundary, Wait, Interval
  <2>. QED  BY <1>2, <2>1, BoundsAssumption DEF Timed
<1>5. NamesOlder'
  <2>1. Past(due) \in Int /\ Past(due) <= Past(due') /\ Past(due') \in Int
    BY <1>2, PastMonotone
  <2>2. Past(due)' = Past(due')  BY <1>2 DEF Past, IntervalOf, Interval
  <2>. QED  BY <1>1, <2>1, <2>2 DEF IInv, Shaped, TypeOK, NamesOlder
<1>6. LiveIsYoung'  BY <1>1 DEF LiveIsYoung
<1>7. LinesKept' /\ FiledWhereWritten'
  BY <1>1, <1>2 DEF IInv, LinesKept, FiledWhereWritten, Aligned, IntervalOf, Interval
<1>. QED  BY <1>3, <1>4, <1>5, <1>6, <1>7 DEF IInv

\* A new process sets its timer to a boundary that is not earlier, so that the
\* names of the archives it finds are older for it as well.
LEMMA RestartKeeps == NotEast /\ IInv /\ Restart => IInv'
<1>. SUFFICES ASSUME NotEast, IInv, Restart PROVE IInv'
  OBVIOUS
<1>1. /\ UNCHANGED <<conf, now, archive, written>> /\ began' = now /\ set' = now
      /\ due' = Boundary(now) /\ loop' = "running" /\ open' = TRUE
      /\ live' = [f \in Files |-> live[f]]
  BY DEF Restart, Boundary, ReopenedLive
<1>2. /\ conf \in Settings /\ now \in Nat /\ set \in Nat /\ set <= now /\ due = Boundary(set)
      /\ live \in [Files -> SUBSET Nat] /\ began \in Nat /\ began <= now /\ due \in Nat
  BY DEF IInv, Shaped, TypeOK, Timed
<1>3. live' = live  BY <1>1, <1>2
<1>4. due' \in Nat /\ due' > now /\ due <= due'
  BY <1>1, <1>2, BoundaryIs, BoundaryMonotone
<1>5. Shaped'  BY <1>1, <1>2, <1>3, <1>4 DEF IInv, Shaped, TypeOK
<1>6. Timed'
  <2>1. Boundary(set)' = Boundary(now)  BY <1>1 DEF Boundary, Wait, Interval
  <2>. QED  BY <1>1, <1>2, <1>4, <2>1, BoundsAssumption DEF Timed
<1>7. NamesOlder'
  <2>1. Past(due) \in Int /\ Past(due) <= Past(due') /\ Past(due') \in Int
    BY <1>2, <1>4, PastMonotone
  <2>2. Past(due)' = Past(due')  BY <1>1 DEF Past, IntervalOf, Interval
  <2>. QED  BY <1>1, <2>1, <2>2 DEF IInv, Shaped, TypeOK, NamesOlder
<1>8. LiveIsYoung'  BY <1>1 DEF LiveIsYoung
<1>9. LinesKept'  BY <1>1, <1>3 DEF IInv, LinesKept
<1>10. FiledWhereWritten'
  <2>. SUFFICES ASSUME Aligned, NEW f \in Files, NEW n \in DOMAIN archive[f],
                       NEW t \in archive[f][n], t >= now
                PROVE  n \in {IntervalOf(t), IntervalOf(t - Grace)}
    BY <1>1 DEF FiledWhereWritten, Aligned, IntervalOf, Interval
  <2>1. t \in Nat  BY <1>2 DEF IInv, Shaped, TypeOK
  <2>. QED  BY <1>2, <2>1 DEF IInv, FiledWhereWritten
<1>. QED  BY <1>5, <1>6, <1>7, <1>8, <1>9, <1>10 DEF IInv

\* Every rotation, failure, line and restart keeps the invariant.
LEMMA NextIInv == NotEast /\ IInv /\ [Next]_vars => IInv'
<1>. SUFFICES ASSUME NotEast, IInv, [Next]_vars PROVE IInv'
  OBVIOUS
<1>1. CASE UNCHANGED vars
  BY <1>1 DEF vars, IInv, Shaped, TypeOK, Timed, NamesOlder, LiveIsYoung, LinesKept,
              FiledWhereWritten, Boundary, Wait, Past, Aligned, IntervalOf, Interval
<1>2. CASE Tick
  <2>1. /\ UNCHANGED <<conf, began, set, due, loop, open, live, archive, written>>
        /\ now' = now + 1 /\ now \in Nat /\ due \in Nat
        /\ loop = "running" => now < due + Late
    BY <1>2 DEF Tick, IInv, Shaped, TypeOK
  <2>2. Shaped'  BY <2>1 DEF IInv, Shaped, TypeOK
  <2>3. Timed'
    BY <2>1, BoundsAssumption DEF IInv, Timed, Boundary, Wait, Interval
  <2>4. NamesOlder' /\ LiveIsYoung' /\ LinesKept' /\ FiledWhereWritten'
    BY <2>1 DEF IInv, NamesOlder, LiveIsYoung, LinesKept, FiledWhereWritten, Past, Aligned,
                IntervalOf, Interval
  <2>. QED  BY <2>2, <2>3, <2>4 DEF IInv
<1>3. CASE Rotate
  <2>1. PICK line \in {{}, {now}} :
          /\ live' = [standard |-> line, trace |-> {}]
          /\ written' = [written EXCEPT !["standard"] = @ \union line]
    BY <1>3 DEF Rotate
  <2>. DEFINE new == [f \in Files |-> IF f = "standard" THEN line ELSE {}]
  <2>2. new \in [Files -> {{}, {now}}]  OBVIOUS
  <2>3. live' = [f \in Files |-> IF f \in Files THEN new[f] ELSE live[f]]
    BY <2>1 DEF Files
  <2>4. written' = [f \in Files |-> IF f \in Files THEN written[f] \union new[f] ELSE written[f]]
    BY <2>1 DEF Files, IInv, Shaped
  <2>5. open /\ open' = open /\ Fire /\ Rename(Files) /\ open \in BOOLEAN
    BY <1>3 DEF Rotate, IInv, Shaped, TypeOK
  <2>. HIDE DEF new
  <2>. QED  BY <2>2, <2>3, <2>4, <2>5, RotationKeeps
<1>4. CASE RotateFails
  <2>1. PICK R \in {{}, {"standard"}, Files} :
          Rename(R) /\ live' = [f \in Files |-> IF f \in R THEN {} ELSE live[f]]
    BY <1>4 DEF RotateFails
  <2>. DEFINE new == [f \in Files |-> {}]
  <2>2. new \in [Files -> {{}, {now}}] /\ R \in SUBSET Files  BY DEF Files
  <2>3. live' = [f \in Files |-> IF f \in R THEN new[f] ELSE live[f]]
    BY <2>1
  <2>4. written' = [f \in Files |-> IF f \in R THEN written[f] \union new[f] ELSE written[f]]
    BY <1>4 DEF RotateFails, IInv, Shaped
  <2>5. open /\ open' = FALSE /\ Fire  BY <1>4 DEF RotateFails
  <2>. HIDE DEF new
  <2>. QED  BY <2>1, <2>2, <2>3, <2>4, <2>5, RotationKeeps
<1>5. CASE RotateClosed
  BY <1>5, ClosedKeeps
<1>6. CASE Shutdown
  <2>1. /\ UNCHANGED <<conf, now, began, set, due, live, archive, written>>
        /\ loop' = "ended" /\ open' = FALSE
    BY <1>6 DEF Shutdown
  <2>2. Shaped'  BY <2>1 DEF IInv, Shaped, TypeOK
  <2>3. Timed'  BY <2>1 DEF IInv, Timed, Boundary, Wait, Interval
  <2>4. NamesOlder' /\ LiveIsYoung' /\ LinesKept' /\ FiledWhereWritten'
    BY <2>1 DEF IInv, NamesOlder, LiveIsYoung, LinesKept, FiledWhereWritten, Past, Aligned,
                IntervalOf, Interval
  <2>. QED  BY <2>2, <2>3, <2>4 DEF IInv
<1>7. CASE Restart
  BY <1>7, RestartKeeps
<1>8. ASSUME NEW f \in Files, Log(f) PROVE IInv'
  <2>1. /\ UNCHANGED <<conf, now, began, set, due, loop, open, archive>> /\ now \in Nat
        /\ live' = [live EXCEPT ![f] = @ \union {now}]
        /\ written' = [written EXCEPT ![f] = @ \union {now}]
        /\ live \in [Files -> SUBSET Nat] /\ written \in [Files -> SUBSET Nat]
        /\ set \in Nat /\ set <= now
    BY <1>8 DEF Log, IInv, Shaped, TypeOK
  <2>2. Shaped'  BY <2>1 DEF IInv, Shaped, TypeOK
  <2>3. Timed' /\ NamesOlder' /\ FiledWhereWritten'
    BY <2>1 DEF IInv, Timed, NamesOlder, FiledWhereWritten, Boundary, Wait, Past, Aligned,
                IntervalOf, Interval
  <2>4. LiveIsYoung'  BY <2>1 DEF IInv, LiveIsYoung
  <2>5. LinesKept'
    <3>1. \A g \in Files : written[g] = live[g] \union Archived(g)
      BY KeptIs DEF IInv
    <3>2. \A g \in Files : Archived(g)' = Archived(g)  BY <2>1 DEF Archived
    <3>3. \A g \in Files : written'[g] = live'[g] \union Archived(g)'
      BY <2>1, <3>1, <3>2
    <3>. QED  BY <3>3 DEF LinesKept, Archived
  <2>. QED  BY <2>2, <2>3, <2>4, <2>5 DEF IInv
<1>. QED  BY <1>1, <1>2, <1>3, <1>4, <1>5, <1>6, <1>7, <1>8 DEF Next, End

\* No archive is named twice, and what is renamed was written since the timer was
\* set, for any settings and any length of run: logging.go:78-182.
THEOREM Invariance == ASSUME NotEast PROVE Spec => []IInv
  BY InitIInv, NextIInv, PTL DEF Spec

-------------------------------------------------------------------------------
(* What the invariant says of the log. *)

\* The state keeps its type; in particular the wait of nextDayOfMilliDuration and
\* nextHourOfMilliDuration, logging.go:173-182, is always positive.
THEOREM TypeCorrect == ASSUME NotEast PROVE Spec => []TypeOK
<1>1. IInv => TypeOK  BY DEF IInv, Shaped
<1>. QED  BY <1>1, Invariance, PTL

\* No line is destroyed by a rotation, by one that fails or after a restart:
\* os.Rename in rotateRename, logging.go:160-171, never replaces an archive.
THEOREM NoLineDestroyed == ASSUME NotEast PROVE Spec => []LinesKept
<1>1. IInv => LinesKept  BY DEF IInv
<1>. QED  BY <1>1, Invariance, PTL

\* Where the local clock keeps the boundaries of UTC every line is in the file of
\* the interval it was written in: logging.go:78-84 and 160-182.
THEOREM EveryLineFiled == ASSUME NotEast PROVE Spec => []LinesFiled
<1>1. NotEast /\ IInv => LinesFiled
  <2>. SUFFICES ASSUME NotEast, IInv PROVE LiveIsCurrent
    BY DEF IInv, LinesFiled
  <2>. SUFFICES ASSUME Aligned, open, now < due,
                       NEW f \in Files, NEW t \in live[f], t >= began
                PROVE  IntervalOf(t) = IntervalOf(now)
    BY DEF LiveIsCurrent
  <2>1. /\ conf \in Settings /\ now \in Nat /\ set \in Nat /\ set <= now /\ due = Boundary(set)
        /\ t \in Nat /\ t <= now /\ due \in Nat
    BY DEF IInv, Shaped, TypeOK, Timed
  <2>2. set <= t  BY DEF IInv, LiveIsYoung
  <2>3. t < due  BY <2>1
  <2>4. /\ IntervalOf(t) = (set \div Interval) + Ahead
        /\ IntervalOf(now) = (set \div Interval) + Ahead
    BY <2>1, <2>2, <2>3, SameInterval
  <2>. QED  BY <2>4
<1>. QED  BY <1>1, Invariance, PTL

\* A day is rotated once: the timer set at its end fires on a later local day.
THEOREM OnceADay == ASSUME NotEast PROVE Spec => []RotatedOncePerDay
<1>1. NotEast /\ IInv => RotatedOncePerDay
  BY DayLater DEF IInv, Shaped, TypeOK, Timed, RotatedOncePerDay
<1>. QED  BY <1>1, Invariance, PTL

===============================================================================
