----------------------- MODULE DecimalSequenceProofs -----------------------
(***************************************************************************)
(* What decimal.go computes over a sequence. Of numbers: Sum and Avg (one  *)
(* division of the whole sum, rounded once), Min and Max. Of characters:   *)
(* the texts of a number and what is read from a text. A fold is a         *)
(* recursion over the length, and UpTo is the induction it needs.          *)
(***************************************************************************)
EXTENDS Sequences, DecimalRoundingProofs

-----------------------------------------------------------------------------
(* Several numbers: folds over a sequence of any length. *)

\* Induction up to n, over the numbers in a set.
LEMMA UpTo ==
    ASSUME NEW n \in Nat, NEW G, 0 \in G,
           \A k \in 0..n : k \in G /\ k + 1 <= n => k + 1 \in G
    PROVE  0..n \subseteq G
<1> DEFINE left == {k \in 0..n : k \notin G}
<1> SUFFICES ASSUME left # {} PROVE FALSE
  OBVIOUS
<1>1. left \in SUBSET Nat
  OBVIOUS
<1>2. PICK k \in left : \A j \in left : k <= j
  <2> HIDE DEF left
  <2> QED BY <1>1, LeastNumber
<1>3. k \in 0..n /\ k \notin G
  BY <1>2
<1>4. k # 0
  BY <1>3
<1>5. k - 1 \in 0..n /\ k - 1 < k /\ (k - 1) + 1 = k /\ (k - 1) + 1 <= n
  BY <1>3, <1>4
<1>6. k - 1 \in G
  BY <1>2, <1>5
<1>7. (k - 1) + 1 \in G
  BY <1>5, <1>6
<1> QED BY <1>3, <1>5, <1>7

\* What Sum, Min and Max make of the result so far and the next argument.
Joined(by, so, item) ==
    CASE by = "sum" -> Laws!Add(so, item)
      [] by = "min" -> IF Laws!Cmp(item, so) < 0 THEN item ELSE so
      [] by = "max" -> IF Laws!Cmp(item, so) > 0 THEN item ELSE so
      [] by = "number" -> 10 * so + Text!ValueOf(item)
      [] by = "bare" -> IF item = "q" THEN so ELSE Append(so, item)
      [] by = "total" -> so + item

FoldOf(by, base, seq, S, iter) ==
    iter = [s \in SUBSET S |->
              IF s = {} THEN base
              ELSE Joined(by, iter[s \ {Laws!Max(s)}], seq[Laws!Max(s)])]

\* The greatest of some first numbers.
LEMMA GreatestIs ==
    ASSUME NEW n \in Nat, NEW s \in SUBSET (1..n), s # {}
    PROVE  /\ Laws!Max(s) \in s
           /\ s \ {Laws!Max(s)} \in SUBSET (1..n)
           /\ n \in s => Laws!Max(s) = n
           /\ \A k \in s : k <= Laws!Max(s)
<1>1. \E m \in s : \A k \in s : m >= k
  <2> DEFINE over == {n - k : k \in s}
  <2>1. over \in SUBSET Nat
    <3>1. \A k \in s : n - k \in Nat
      OBVIOUS
    <3> QED BY <3>1
  <2>2. over # {}
    <3>1. PICK k \in s : TRUE
      OBVIOUS
    <3>2. n - k \in over
      BY <3>1
    <3> QED BY <3>2
  <2>3. PICK i \in over : \A j \in over : i <= j
    <3> HIDE DEF over
    <3> QED BY <2>1, <2>2, LeastNumber
  <2>4. PICK m \in s : i = n - m
    BY <2>3
  <2>5. \A k \in s : n - m <= n - k
    BY <2>3, <2>4
  <2>6. \A k \in s : m >= k
    BY <2>5
  <2> QED BY <2>6
<1>2. Laws!Max(s) \in s /\ \A k \in s : Laws!Max(s) >= k
  BY <1>1 DEF Laws!Max
<1>3. n \in s => Laws!Max(s) = n
  <2> DEFINE m == Laws!Max(s)
  <2>1. m \in 1..n /\ (n \in s => m >= n)
    BY <1>2
  <2> HIDE DEF m
  <2>2. n \in s => m = n
    BY <2>1
  <2> QED BY <2>2 DEF m
<1> QED BY <1>2, <1>3

\* The recursion of a fold over a sequence has a solution.
LEMMA FoldExists ==
    ASSUME NEW by, NEW base, NEW seq, NEW n \in Nat
    PROVE  \E iter : FoldOf(by, base, seq, 1..n, iter)
<1> DEFINE G == {m \in 0..n : \E iter : FoldOf(by, base, seq, 1..m, iter)}
<1>1. 0 \in G
  <2>1. FoldOf(by, base, seq, 1..0, [s \in SUBSET (1..0) |-> base])
    BY DEF FoldOf
  <2> QED BY <2>1
<1>2. ASSUME NEW m \in 0..n, m \in G, m + 1 <= n PROVE m + 1 \in G
  <2>1. PICK iter : FoldOf(by, base, seq, 1..m, iter)
    BY <1>2
  <2> DEFINE longer == [s \in SUBSET (1..(m + 1)) |->
                          IF m + 1 \in s THEN Joined(by, iter[s \ {m + 1}], seq[m + 1]) ELSE iter[s]]
             Step(s, f) == IF s = {} THEN base
                            ELSE Joined(by, f[s \ {Laws!Max(s)}], seq[Laws!Max(s)])
  <2>2. iter = [s \in SUBSET (1..m) |-> Step(s, iter)]
    BY <2>1 DEF FoldOf
  <2>3. ASSUME NEW s \in SUBSET (1..(m + 1)) PROVE longer[s] = Step(s, longer)
    <3>1. CASE m + 1 \in s
      <4>1. Laws!Max(s) = m + 1
        BY <3>1, GreatestIs
      <4>2. s \ {m + 1} \in SUBSET (1..m) /\ s \ {m + 1} \in SUBSET (1..(m + 1)) /\ m + 1 \notin s \ {m + 1}
        OBVIOUS
      <4>3. longer[s \ {m + 1}] = iter[s \ {m + 1}]
        BY <4>2
      <4> QED BY <3>1, <4>1, <4>3
    <3>2. CASE m + 1 \notin s
      <4>1. s \in SUBSET (1..m)
        BY <3>2
      <4>2. s # {} => s \ {Laws!Max(s)} \in SUBSET (1..m)
        BY <4>1, GreatestIs
      <4>3. \A t \in SUBSET (1..m) : longer[t] = iter[t]
        OBVIOUS
      <4>4. iter[s] = Step(s, iter)
        BY <2>2, <4>1
      <4>5. Step(s, longer) = Step(s, iter)
        BY <4>2, <4>3
      <4> QED BY <4>1, <4>3, <4>4, <4>5
    <3> QED BY <3>1, <3>2
  <2>4. FoldOf(by, base, seq, 1..(m + 1), longer)
    <3>1. longer = [s \in SUBSET (1..(m + 1)) |-> longer[s]]
      OBVIOUS
    <3> HIDE DEF longer
    <3> QED BY <2>3, <3>1 DEF FoldOf
  <2> HIDE DEF longer
  <2> QED BY <1>2, <2>4
<1>3. n \in G
  <2> HIDE DEF G
  <2>1. 0..n \subseteq G
    BY <1>1, <1>2, UpTo
  <2> QED BY <2>1
<1> QED BY <1>3

\* What a fold over the first n elements gives.
Folded(by, base, seq, n) == (CHOOSE iter : FoldOf(by, base, seq, 1..n, iter))[1..n]

\* A fold takes the elements of a sequence one after the other.
Steps(so, by, base, seq, n) ==
    /\ so[0] = base
    /\ \A k \in 1..n : so[k] = Joined(by, so[k - 1], seq[k])
    /\ so[n] = Folded(by, base, seq, n)

\* The results of a fold, one after the other, exist for any length.
LEMMA FoldSteps ==
    ASSUME NEW by, NEW base, NEW seq, NEW n \in Nat
    PROVE  \E so : Steps(so, by, base, seq, n)
<1> DEFINE Fold == CHOOSE iter : FoldOf(by, base, seq, 1..n, iter)
           so == [k \in 0..n |-> Fold[1..k]]
<1>1. FoldOf(by, base, seq, 1..n, Fold)
  BY FoldExists
<1> HIDE DEF Fold
<1>2. ASSUME NEW k \in 1..n PROVE Fold[1..k] = Joined(by, Fold[1..(k - 1)], seq[k])
  <2>1. 1..k \in SUBSET (1..n) /\ 1..k # {} /\ 1..k \in SUBSET (1..k) /\ k \in Nat /\ k \in 1..k
    OBVIOUS
  <2>2. Laws!Max(1..k) = k
    BY <2>1, GreatestIs
  <2>3. (1..k) \ {k} = 1..(k - 1)
    BY <2>1
  <2>4. Fold[1..k] = Joined(by, Fold[(1..k) \ {Laws!Max(1..k)}], seq[Laws!Max(1..k)])
    BY <1>1, <2>1 DEF FoldOf
  <2> QED BY <2>2, <2>3, <2>4
<1>3. so[0] = base
  <2>1. {} \in SUBSET (1..n) /\ 1..0 = {} /\ 0 \in 0..n
    OBVIOUS
  <2>2. Fold[{}] = base
    BY <1>1, <2>1 DEF FoldOf
  <2> QED BY <2>1, <2>2
<1>4. \A k \in 1..n : so[k] = Joined(by, so[k - 1], seq[k])
  BY <1>2
<1>5. so[n] = Fold[1..n]
  OBVIOUS
<1> HIDE DEF so
<1>6. Steps(so, by, base, seq, n)
  BY <1>3, <1>4, <1>5 DEF Fold, Folded, Steps
<1> QED BY <1>6

\* Sum, Min and Max take their arguments one after the other.
LEMMA FoldsAre ==
    ASSUME NEW first, NEW S, NEW seq \in Seq(S),
           NEW by \in {"sum", "min", "max"}
    PROVE  /\ by = "sum" => Laws!Sum(first, seq) = Folded(by, first, seq, Len(seq))
           /\ by = "min" => Laws!MinOf(first, seq) = Folded(by, first, seq, Len(seq))
           /\ by = "max" => Laws!MaxOf(first, seq) = Folded(by, first, seq, Len(seq))
<1> DEFINE n == Len(seq)
           Fold == CHOOSE iter : FoldOf(by, first, seq, 1..n, iter)
<1>1. n \in Nat /\ DOMAIN seq = 1..n
  OBVIOUS
<1>2. by = "sum" => Laws!Sum(first, seq) = Fold[1..n]
  <2> SUFFICES ASSUME by = "sum" PROVE Laws!Sum(first, seq) = Fold[1..n]
    OBVIOUS
  <2> DEFINE P(iter) == iter = [s \in SUBSET (DOMAIN seq) |->
                IF s = {} THEN first
                ELSE Laws!Add(iter[s \ {Laws!Max(s)}], seq[Laws!Max(s)])]
  <2>1. Laws!Sum(first, seq) = (CHOOSE iter : P(iter))[DOMAIN seq]
    BY Zenon DEF Laws!Sum, Laws!FoldLeft, Laws!MapThenFoldSet
  <2>2. \A iter : P(iter) <=> FoldOf(by, first, seq, 1..n, iter)
    BY <1>1 DEF FoldOf, Joined
  <2>3. (CHOOSE iter : P(iter)) = Fold
    <3> HIDE DEF P
    <3> QED BY <2>2
  <2> QED BY <1>1, <2>1, <2>3
<1>3. by = "min" => Laws!MinOf(first, seq) = Fold[1..n]
  <2> SUFFICES ASSUME by = "min" PROVE Laws!MinOf(first, seq) = Fold[1..n]
    OBVIOUS
  <2> DEFINE Less(so1, item) == IF Laws!Cmp(item, so1) < 0 THEN item ELSE so1
             P(iter) == iter = [s \in SUBSET (DOMAIN seq) |->
                IF s = {} THEN first
                ELSE Less(iter[s \ {Laws!Max(s)}], seq[Laws!Max(s)])]
  <2>1. Laws!MinOf(first, seq) = (CHOOSE iter : P(iter))[DOMAIN seq]
    BY Zenon DEF Laws!MinOf, Laws!FoldLeft, Laws!MapThenFoldSet
  <2>2. \A iter : P(iter) <=> FoldOf(by, first, seq, 1..n, iter)
    BY <1>1 DEF FoldOf, Joined
  <2>3. (CHOOSE iter : P(iter)) = Fold
    <3> HIDE DEF P
    <3> QED BY <2>2
  <2> QED BY <1>1, <2>1, <2>3
<1>4. by = "max" => Laws!MaxOf(first, seq) = Fold[1..n]
  <2> SUFFICES ASSUME by = "max" PROVE Laws!MaxOf(first, seq) = Fold[1..n]
    OBVIOUS
  <2> DEFINE More(so1, item) == IF Laws!Cmp(item, so1) > 0 THEN item ELSE so1
             P(iter) == iter = [s \in SUBSET (DOMAIN seq) |->
                IF s = {} THEN first
                ELSE More(iter[s \ {Laws!Max(s)}], seq[Laws!Max(s)])]
  <2>1. Laws!MaxOf(first, seq) = (CHOOSE iter : P(iter))[DOMAIN seq]
    BY Zenon DEF Laws!MaxOf, Laws!FoldLeft, Laws!MapThenFoldSet
  <2>2. \A iter : P(iter) <=> FoldOf(by, first, seq, 1..n, iter)
    BY <1>1 DEF FoldOf, Joined
  <2>3. (CHOOSE iter : P(iter)) = Fold
    <3> HIDE DEF P
    <3> QED BY <2>2
  <2> QED BY <1>1, <2>1, <2>3
<1>5. Folded(by, first, seq, n) = Fold[1..n]
  BY DEF Folded
<1> HIDE DEF Fold
<1> QED BY <1>2, <1>3, <1>4, <1>5

\* Cmp orders numbers by what they are worth in any finer unit.
LEMMA CmpIs ==
    ASSUME Laws!PowersOfTen(Nat), Laws!Parameters, NEW d \in Laws!Decimals, NEW d2 \in Laws!Decimals,
           NEW u \in Int, u <= d.exp, u <= d2.exp
    PROVE  /\ Laws!At(d, u) \in Int /\ Laws!At(d2, u) \in Int
           /\ Laws!Cmp(d, d2) < 0 <=> Laws!At(d, u) < Laws!At(d2, u)
           /\ Laws!Cmp(d, d2) > 0 <=> Laws!At(d, u) > Laws!At(d2, u)
           /\ Laws!LessThanOrEqual(d, d2) <=> Laws!At(d, u) <= Laws!At(d2, u)
           /\ Laws!GreaterThanOrEqual(d, d2) <=> Laws!At(d, u) >= Laws!At(d2, u)
<1>1. Laws!At(d, u) \in Int /\ Laws!At(d2, u) \in Int
  BY AtIs
<1>2. Laws!Cmp(d, d2) = Laws!SignOf(Laws!At(d, u) - Laws!At(d2, u))
  BY SumExact
<1> QED BY <1>1, <1>2 DEF Laws!SignOf, Laws!LessThanOrEqual, Laws!GreaterThanOrEqual

\* Min and Max are among their arguments and bound them all, however many there are.
LEMMA ExtremesAre ==
    ASSUME Laws!PowersOfTen(Nat), Laws!Parameters, NEW first \in Laws!Decimals,
           NEW seq \in Seq(Laws!Decimals), NEW u \in Int, u <= first.exp,
           \A k \in 1..Len(seq) : u <= seq[k].exp
    PROVE  LET all == {first} \cup {seq[k] : k \in 1..Len(seq)}
           IN  /\ {Laws!MinOf(first, seq), Laws!MaxOf(first, seq)} \subseteq all
               /\ \A d \in all : /\ Laws!LessThanOrEqual(Laws!MinOf(first, seq), d)
                               /\ Laws!GreaterThanOrEqual(Laws!MaxOf(first, seq), d)
<1> DEFINE n == Len(seq)
           Upto(k) == {first} \cup {seq[j] : j \in 1..k}
           worth(d) == Laws!At(d, u)
           Best(by, b, d) == IF by = "min" THEN worth(b) <= worth(d) ELSE worth(b) >= worth(d)
<1>1. n \in Nat /\ \A k \in 1..n : seq[k] \in Laws!Decimals
  OBVIOUS
<1>2. ASSUME NEW d \in Upto(n) PROVE d \in Laws!Decimals /\ u <= d.exp /\ worth(d) \in Int
  <2>1. d \in Laws!Decimals /\ u <= d.exp
    BY <1>1
  <2> QED BY <2>1, AtIs
<1>3. ASSUME NEW by \in {"min", "max"}
      PROVE  \E b \in Upto(n) :
               /\ b = IF by = "min" THEN Laws!MinOf(first, seq) ELSE Laws!MaxOf(first, seq)
               /\ \A d \in Upto(n) : Best(by, b, d)
  <2>1. PICK so : Steps(so, by, first, seq, n)
    BY <1>1, FoldSteps
  <2>5. /\ so[0] = first
        /\ \A k \in 1..n : so[k] = Joined(by, so[k - 1], seq[k])
    BY <2>1 DEF Steps
  <2>6. so[n] = IF by = "min" THEN Laws!MinOf(first, seq) ELSE Laws!MaxOf(first, seq)
    <3>1. so[n] = Folded(by, first, seq, Len(seq))
      BY <2>1 DEF Steps
    <3> QED BY <3>1, FoldsAre
  <2> DEFINE G == {k \in 0..n : so[k] \in Upto(k) /\ \A d \in Upto(k) : Best(by, so[k], d)}
  <2> HIDE DEF n, worth
  <2>2. 0 \in G
    <3>1. Upto(0) = {first} /\ first \in Upto(n)
      OBVIOUS
    <3> QED BY <1>1, <1>2, <2>5, <3>1
  <2>3. ASSUME NEW k \in 0..n, k \in G, k + 1 <= n PROVE k + 1 \in G
    <3>1. k + 1 \in 1..n /\ (k + 1) - 1 = k /\ k + 1 \in 0..n
      BY <1>1, <2>3
    <3>2. Upto(k + 1) = Upto(k) \cup {seq[k + 1]} /\ Upto(k) \subseteq Upto(n) /\ seq[k + 1] \in Upto(n)
      BY <1>1, <3>1
    <3>3. so[k] \in Upto(k) /\ \A d \in Upto(k) : Best(by, so[k], d)
      BY <2>3
    <3> DEFINE item == seq[k + 1]
    <3> HIDE DEF Upto, item
    <3>4. /\ so[k] \in Laws!Decimals /\ u <= so[k].exp
          /\ item \in Laws!Decimals /\ u <= item.exp
          /\ worth(so[k]) \in Int /\ worth(item) \in Int
      BY <1>2, <3>2, <3>3 DEF item
    <3>5. /\ Laws!Cmp(item, so[k]) < 0 <=> worth(item) < worth(so[k])
          /\ Laws!Cmp(item, so[k]) > 0 <=> worth(item) > worth(so[k])
      BY <3>4, CmpIs DEF worth
    <3>6. so[k + 1] = Joined(by, so[k], item)
      BY <2>5, <3>1 DEF item
    <3>7. so[k + 1] \in {so[k], item} /\ Best(by, so[k + 1], so[k]) /\ Best(by, so[k + 1], item)
      BY <3>4, <3>5, <3>6 DEF Joined
    <3>8. ASSUME NEW d \in Upto(k) PROVE Best(by, so[k + 1], d)
      <4>1. worth(d) \in Int /\ worth(so[k + 1]) \in Int /\ Best(by, so[k], d)
        BY <1>2, <3>2, <3>3, <3>4, <3>7
      <4> QED BY <3>4, <3>7, <4>1
    <3>9. so[k + 1] \in Upto(k + 1) /\ \A d \in Upto(k + 1) : Best(by, so[k + 1], d)
      <4> HIDE DEF Best
      <4> QED BY <3>2, <3>3, <3>7, <3>8 DEF item
    <3> HIDE DEF Best
    <3> QED BY <3>1, <3>9
  <2>4. n \in G
    <3> HIDE DEF G
    <3>1. 0..n \subseteq G
      BY <1>1, <2>2, <2>3, UpTo
    <3> QED BY <1>1, <3>1
  <2> QED BY <2>4, <2>6
<1> DEFINE least == Laws!MinOf(first, seq)  most == Laws!MaxOf(first, seq)
<1>4. /\ least \in Upto(n) /\ \A d \in Upto(n) : worth(least) <= worth(d)
      /\ most \in Upto(n) /\ \A d \in Upto(n) : worth(most) >= worth(d)
  <2> HIDE DEF Upto, worth, n, least, most
  <2>1. least = Laws!MinOf(first, seq) /\ most = Laws!MaxOf(first, seq)
    BY DEF least, most
  <2> QED BY <1>3, <2>1
<1>5. ASSUME NEW d \in Upto(n)
      PROVE  Laws!LessThanOrEqual(least, d) /\ Laws!GreaterThanOrEqual(most, d)
  <2> HIDE DEF Upto, worth, n, least, most
  <2>1. /\ d \in Laws!Decimals /\ u <= d.exp
        /\ least \in Laws!Decimals /\ u <= least.exp
        /\ most \in Laws!Decimals /\ u <= most.exp
    BY <1>2, <1>4
  <2>2. /\ Laws!LessThanOrEqual(least, d) <=> worth(least) <= worth(d)
        /\ Laws!GreaterThanOrEqual(most, d) <=> worth(most) >= worth(d)
    BY <2>1, CmpIs DEF worth
  <2> QED BY <1>4, <2>2
<1> QED BY <1>4, <1>5

\* A sum has the finer of the exponents.
LEMMA SumForm ==
    ASSUME Laws!PowersOfTen(Nat), Laws!Parameters, NEW d \in Laws!Decimals, NEW d2 \in Laws!Decimals
    PROVE  \E k \in Int : Laws!Add(d, d2) = Laws!New(k, Finer(d, d2))
<1> DEFINE u == Finer(d, d2)
<1>1. u \in Int /\ u <= d.exp /\ u <= d2.exp
  BY ValIs DEF Finer
<1>2. PICK n, n2, b \in Int, q \in Nat \ {0} :
             /\ b = u /\ Laws!RescalePair(d, d2) = <<Laws!New(n, b), Laws!New(n2, b)>>
  <2> HIDE DEF u
  <2>1. \E n, n2, b \in Int, q \in Nat \ {0} :
           /\ u <= b /\ b = Finer(d, d2) /\ q = 10^(b - u)
           /\ Laws!RescalePair(d, d2) = <<Laws!New(n, b), Laws!New(n2, b)>>
           /\ Laws!At(d, u) = n * q /\ Laws!At(d2, u) = n2 * q
    BY <1>1, PairExact, Zenon
  <2> QED BY <2>1 DEF u
<1>3. Laws!Add(d, d2) = Laws!New(n + n2, u)
  <2> HIDE DEF u
  <2>1. Laws!New(n, b).value = n /\ Laws!New(n2, b).value = n2 /\ Laws!New(n, b).exp = b
    BY NewIs
  <2> QED BY <1>2, <2>1 DEF Laws!Add
<1> QED BY <1>3

\* Sum over two more numbers is two additions.
LEMMA SumOfThree ==
    ASSUME NEW first, NEW d, NEW d2
    PROVE  Laws!Sum(first, <<d, d2>>) = Laws!Add(Laws!Add(first, d), d2)
<1> DEFINE seq == <<d, d2>>
<1>1. seq \in Seq({d, d2}) /\ Len(seq) = 2 /\ seq[1] = d /\ seq[2] = d2
  OBVIOUS
<1>2. ASSUME NEW by \in {"sum", "min", "max"}, by = "sum"
      PROVE  Laws!Sum(first, seq) = Laws!Add(Laws!Add(first, d), d2)
  <2> HIDE DEF seq
  <2>1. PICK so : Steps(so, by, first, seq, 2)
    BY FoldSteps
  <2>2. Laws!Sum(first, seq) = Folded(by, first, seq, 2)
    <3> DEFINE S == {d, d2}
    <3>1. seq \in Seq(S) /\ Len(seq) = 2
      BY <1>1
    <3> HIDE DEF S
    <3> QED BY <1>2, <3>1, FoldsAre
  <2>3. so[0] = first /\ so[1] = Joined(by, so[0], d) /\ so[2] = Joined(by, so[1], d2)
    <3>1. \A k \in 1..2 : so[k] = Joined(by, so[k - 1], seq[k])
      BY <2>1 DEF Steps
    <3>2. 1 \in 1..2 /\ 2 \in 1..2 /\ 1 - 1 = 0 /\ 2 - 1 = 1
      OBVIOUS
    <3>3. so[0] = first
      BY <2>1 DEF Steps
    <3> QED BY <1>1, <3>1, <3>2, <3>3
  <2>4. so[1] = Laws!Add(so[0], d) /\ so[2] = Laws!Add(so[1], d2)
    BY <1>2, <2>3 DEF Joined
  <2>5. so[2] = Folded(by, first, seq, 2)
    BY <2>1 DEF Steps
  <2> QED BY <2>2, <2>3, <2>4, <2>5
<1> HIDE DEF seq
<1> QED BY <1>2 DEF seq

\* The order of the arguments does not matter to Sum, not even to its scale.
LEMMA SumsAlike ==
    ASSUME Laws!PowersOfTen(Nat), Laws!Parameters, NEW d \in Laws!Decimals, NEW d2 \in Laws!Decimals
    PROVE  Laws!Sum(d, <<d2, d2>>) = Laws!Sum(d2, <<d, d2>>)
<1> DEFINE u == Finer(d, d2)
           left == Laws!Add(Laws!Add(d, d2), d2)
           right == Laws!Add(Laws!Add(d2, d), d2)
<1>1. u \in Int /\ u <= d.exp /\ u <= d2.exp /\ (u = d.exp \/ u = d2.exp) /\ d.exp \in Int /\ d2.exp \in Int
      /\ Finer(d2, d) = u
  BY ValIs DEF Finer
<1> HIDE DEF u
<1>2. ASSUME NEW a \in Laws!Decimals, NEW b \in Laws!Decimals, {a, b} = {d, d2}
      PROVE  LET first == Laws!Add(a, b)
             IN  /\ first \in Laws!Decimals /\ first.exp = u
                 /\ Laws!At(first, u) = Laws!At(a, u) + Laws!At(b, u)
                 /\ \E k \in Int : Laws!Add(first, d2) = Laws!New(k, u)
                 /\ Laws!At(Laws!Add(first, d2), u) = Laws!At(a, u) + Laws!At(b, u) + Laws!At(d2, u)
  <2> DEFINE first == Laws!Add(a, b)
  <2>1. Finer(a, b) = u /\ u <= a.exp /\ u <= b.exp
    BY <1>1, <1>2 DEF u, Finer
  <2>2. /\ first \in Laws!Decimals
        /\ Laws!At(first, u) = Laws!At(a, u) + Laws!At(b, u)
    BY <1>1, <2>1, SumExact
  <2>3. PICK k \in Int : first = Laws!New(k, u)
    BY <2>1, SumForm
  <2> HIDE DEF first
  <2>4. first.exp = u
    BY <1>1, <2>3, NewIs
  <2>5. Finer(first, d2) = u
    BY <1>1, <2>4 DEF Finer
  <2>6. \E j \in Int : Laws!Add(first, d2) = Laws!New(j, u)
    BY <2>2, <2>5, SumForm
  <2>7. Laws!At(Laws!Add(first, d2), u) = Laws!At(first, u) + Laws!At(d2, u)
    BY <1>1, <2>2, <2>4, SumExact
  <2> QED BY <2>2, <2>4, <2>6, <2>7 DEF first
<1>3. PICK j \in Int : left = Laws!New(j, u)
  BY <1>2
<1>4. PICK k \in Int : right = Laws!New(k, u)
  BY <1>2
<1>5. Laws!At(left, u) = Laws!At(right, u)
  <2>1. Laws!At(d, u) \in Int /\ Laws!At(d2, u) \in Int
    BY <1>1, AtIs
  <2>2. /\ Laws!At(left, u) = Laws!At(d, u) + Laws!At(d2, u) + Laws!At(d2, u)
        /\ Laws!At(right, u) = Laws!At(d2, u) + Laws!At(d, u) + Laws!At(d2, u)
    BY <1>2
  <2> HIDE DEF left, right
  <2> QED BY <2>1, <2>2
<1>6. j = k
  <2> DEFINE q == 10^(u - u)
  <2>1. q \in Nat \ {0}
    BY <1>1 DEF Laws!PowersOfTen
  <2>2. Laws!At(Laws!New(j, u), u) = j * q /\ Laws!At(Laws!New(k, u), u) = k * q
    BY <1>1, AtNew
  <2>3. j * q = k * q
    <3> HIDE DEF q, left, right
    <3> QED BY <1>3, <1>4, <1>5, <2>2
  <2> HIDE DEF q
  <2> QED BY <2>1, <2>3
<1> QED BY <1>3, <1>4, <1>6, SumOfThree

\* Avg divides the whole sum, once.
LEMMA MeanIs ==
    ASSUME Laws!PowersOfTen(Nat), Laws!Parameters, Laws!RoundingParameters, Laws!SeriesParameters,
           Laws!Init
    PROVE  Laws!MeanRoundedOnce
<1> DEFINE places == DivisionPrecision
           u == Laws!Unit - places
           sum == Laws!Sum(x, <<y, y>>)
           total == Laws!At(Laws!Add(Laws!Add(x, y), y), u)
           three == Laws!NewFromInt(3)
           avg == Laws!Avg(x, <<y, y>>)
<1>1. /\ x \in Laws!Decimals /\ y \in Laws!Decimals /\ x.exp \in Int /\ y.exp \in Int
      /\ Laws!Unit \in Int /\ Laws!Unit <= x.exp /\ Laws!Unit <= y.exp /\ Laws!Unit <= -2
      /\ Laws!InRange(x, y, p)
      /\ {x.exp + places, y.exp + places} \subseteq Laws!MinExp..Laws!MaxExp
  BY OperandsAre DEF Laws!SeriesParameters, Laws!Init
<1>2. /\ places \in Nat /\ places >= 2
      /\ {0, -places, places} \subseteq Laws!MinExp..Laws!MaxExp
  BY SmallExponents
<1>3. u \in Int /\ u <= x.exp /\ u <= y.exp /\ u <= -places /\ u <= 0 - places
  BY <1>1, <1>2
<1> HIDE DEF u
<1>4. sum = Laws!Add(Laws!Add(x, y), y)
  BY SumOfThree
<1>5. sum \in Laws!Decimals /\ sum.exp \in {x.exp, y.exp} /\ Laws!At(sum, u) = total /\ u <= sum.exp
  <2>1. PICK j \in Int : Laws!Add(x, y) = Laws!New(j, Finer(x, y))
    BY <1>1, SumForm
  <2>2. Finer(x, y) \in {x.exp, y.exp} /\ Finer(x, y) \in Int
    BY <1>1 DEF Finer
  <2>3. Laws!Add(x, y) \in Laws!Decimals /\ Laws!Add(x, y).exp \in {x.exp, y.exp}
    BY <2>1, <2>2, NewIs
  <2>4. PICK k \in Int : Laws!Add(Laws!Add(x, y), y) = Laws!New(k, Finer(Laws!Add(x, y), y))
    BY <1>1, <2>3, SumForm
  <2>5. Finer(Laws!Add(x, y), y) \in {x.exp, y.exp}
    BY <2>3 DEF Finer
  <2>6. sum \in Laws!Decimals /\ sum.exp \in {x.exp, y.exp}
    BY <1>1, <1>4, <2>4, <2>5, NewIs
  <2> HIDE DEF sum
  <2> QED BY <1>3, <1>4, <2>6
<1>6. sum = Laws!Sum(y, <<x, y>>) /\ avg = Laws!Avg(y, <<x, y>>)
  <2>1. sum = Laws!Sum(y, <<x, y>>)
    BY <1>1, SumsAlike
  <2>2. Len(<<y, y>>) = 2 /\ Len(<<x, y>>) = 2
    OBVIOUS
  <2> QED BY <2>1, <2>2 DEF Laws!Avg
<1>7. avg = Laws!DivRound(sum, three, places)
  <2>1. Len(<<y, y>>) + 1 = 3
    OBVIOUS
  <2>2. Laws!Wrap(places) = places
    BY <1>2, WrapInRange
  <2> HIDE DEF sum
  <2> QED BY <2>1, <2>2 DEF Laws!Avg, Laws!Div, sum
<1>8. three \in Laws!Decimals /\ Laws!Val(three) = 3 /\ three.exp = 0
  BY NewIs DEF Laws!NewFromInt
<1>9. PICK k \in Int :
        /\ avg = Laws!New(k, -places)
        /\ Divided(Laws!At(sum, u), 3 * 10^(0 - places - u), k)
  <2>1. Divides(sum, three, places)
    <3>1. 0 - places = -places /\ sum.exp - 0 + places = sum.exp + places
      BY <1>1, <1>2, <1>5
    <3> HIDE DEF sum, three
    <3> QED BY <1>1, <1>2, <1>5, <1>8, <3>1 DEF Divides
  <2>2. u <= three.exp - places
    BY <1>3, <1>8
  <2>3. \E k \in Int :
             /\ Laws!DivRound(sum, three, places) = Laws!New(k, -places)
             /\ Divided(Laws!At(sum, u), Laws!Val(three) * 10^(three.exp - places - u), k)
    <3> HIDE DEF sum, three
    <3>1. Laws!Val(three) # 0 /\ places \in Int
      BY <1>2, <1>8
    <3> QED BY <1>3, <1>5, <1>8, <2>1, <2>2, <3>1, DivRoundIs
  <2> HIDE DEF sum, three, avg
  <2> QED BY <1>7, <1>8, <2>3
<1>10. 2 * Laws!Magnitude(3 * Laws!At(avg, u) - total) <= 3 * 10^(-places - u)
  <2> DEFINE q == 10^(-places - u)
  <2>1. 0 - places - u = -places - u /\ -places \in Int /\ -places - u \in Nat
    BY <1>2, <1>3
  <2>2. q \in Nat \ {0}
    BY <2>1 DEF Laws!PowersOfTen
  <2>3. Laws!At(avg, u) = k * q
    <3> DEFINE e == -places
    <3>1. avg = Laws!New(k, e) /\ e \in Int /\ u \in Int
      BY <1>3, <1>9, <2>1
    <3> HIDE DEF avg, e
    <3>2. Laws!At(avg, u) = k * 10^(e - u)
      BY <3>1, AtNew
    <3> QED BY <3>2 DEF e
  <2>4. total \in Int
    BY <1>3, <1>5, AtIs
  <2>5. Divided(total, 3 * q, k)
    BY <1>5, <1>9, <2>1
  <2> HIDE DEF q, total, avg
  <2>6. 2 * Laws!Magnitude(total - (3 * q) * k) <= Laws!Magnitude(3 * q)
    BY <2>5 DEF Divided
  <2>7. Laws!Magnitude(3 * q) = 3 * q
    BY <2>2 DEF Laws!Magnitude
  <2>8. (3 * q) * k = 3 * (k * q) /\ k * q \in Int
    BY <2>2
  <2> DEFINE a == k * q
  <2> HIDE DEF a
  <2>9. Laws!Magnitude(total - 3 * a) = Laws!Magnitude(3 * a - total)
    BY <2>4, <2>8 DEF Laws!Magnitude, a
  <2>10. 2 * Laws!Magnitude(3 * a - total) <= 3 * q
    BY <2>6, <2>7, <2>8, <2>9 DEF a
  <2> QED BY <2>3, <2>10 DEF a, q
<1>11. avg \in Laws!Decimals /\ avg.exp = -places
  <2>1. -places \in Int
    BY <1>2
  <2> QED BY <1>9, <2>1, NewIs
<1>12. Laws!Equal(sum, Laws!Sum(y, <<x, y>>)) /\ Laws!Equal(avg, Laws!Avg(y, <<x, y>>))
  <2> HIDE DEF sum, avg
  <2> QED BY <1>5, <1>6, <1>11, EqualsItself
<1> QED BY <1>5, <1>10, <1>11, <1>12 DEF Laws!MeanRoundedOnce, u

\* Min and Max are right for the operands.
LEMMA ExtremesRight ==
    ASSUME Laws!PowersOfTen(Nat), Laws!Parameters, Laws!Init
    PROVE  Laws!ExtremesOfAll
<1> DEFINE u == Laws!Unit
<1>1. /\ x \in Laws!Decimals /\ y \in Laws!Decimals
      /\ u \in Int /\ u <= x.exp /\ u <= y.exp
  BY OperandsAre
<1> HIDE DEF u
<1>2. /\ Laws!Neg(x) \in Laws!Decimals /\ u <= Laws!Neg(x).exp
      /\ Laws!Neg(y) \in Laws!Decimals /\ u <= Laws!Neg(y).exp
  BY <1>1, NegExact
<1> DEFINE Operand == {d \in Laws!Decimals : u <= d.exp}
<1>3. {x, y, Laws!Neg(x), Laws!Neg(y)} \subseteq Operand
  BY <1>1, <1>2
<1>4. ASSUME NEW seq \in {<<y>>, <<y, Laws!Neg(x)>>, <<Laws!Neg(y), y, x>>}
      PROVE  seq \in Seq(Operand)
  <2> DEFINE minusX == Laws!Neg(x)
             minusY == Laws!Neg(y)
  <2>1. x \in Operand /\ y \in Operand /\ minusX \in Operand /\ minusY \in Operand
    BY <1>3
  <2> HIDE DEF Operand, minusX, minusY
  <2>2. /\ <<y>> \in Seq(Operand) /\ <<y, minusX>> \in Seq(Operand)
        /\ <<minusY, y, x>> \in Seq(Operand)
    BY <2>1
  <2>3. seq \in {<<y>>, <<y, minusX>>, <<minusY, y, x>>}
    BY DEF minusX, minusY
  <2> QED BY <2>2, <2>3
<1>5. ASSUME NEW seq \in Seq(Operand)
      PROVE  LET all == Laws!ToSet(seq) \cup {x}
             IN  /\ {Laws!MinOf(x, seq), Laws!MaxOf(x, seq)} \subseteq all
                 /\ \A d \in all : /\ Laws!LessThanOrEqual(Laws!MinOf(x, seq), d)
                                 /\ Laws!GreaterThanOrEqual(Laws!MaxOf(x, seq), d)
  <2>1. seq \in Seq(Laws!Decimals) /\ \A k \in 1..Len(seq) : u <= seq[k].exp
    <3>1. \A k \in 1..Len(seq) : seq[k] \in Operand
      OBVIOUS
    <3> QED BY <3>1
  <2>2. Laws!ToSet(seq) \cup {x} = {x} \cup {seq[k] : k \in 1..Len(seq)}
    BY DEF Laws!ToSet
  <2> QED BY <1>1, <2>1, <2>2, ExtremesAre
<1> HIDE DEF Operand
<1> QED BY <1>4, <1>5 DEF Laws!ExtremesOfAll

\* A mean of several numbers is rounded once and does not depend on their order;
\* Min and Max are among their arguments and bound them: decimal.go.
THEOREM SeriesAreRight ==
    ASSUME Laws!PowersOfTen(Nat) PROVE Laws!Spec => []SeriesRight
<1> USE LawsAssumption, RoundingAssumption, SeriesAssumption
<1>1. Laws!Init => SeriesRight
  BY MeanIs, ExtremesRight DEF SeriesRight, Laws!SeriesRight
<1>2. Laws!Init /\ [Laws!Next]_<<x, y, p>> => Laws!Init'
  BY DEF Laws!Init, Laws!Next
<1> QED BY <1>1, <1>2, PTL DEF Laws!Spec

-----------------------------------------------------------------------------
(* Digits and what they are worth. *)

\* Two sequences after each other, and their parts again.
LEMMA Joins ==
    ASSUME NEW S, NEW s \in Seq(S), NEW t \in Seq(S)
    PROVE  /\ s \o t \in Seq(S) /\ Len(s \o t) = Len(s) + Len(t)
           /\ Len(s) \in Nat /\ Len(t) \in Nat
           /\ \A i \in 1..Len(s) : (s \o t)[i] = s[i]
           /\ \A i \in 1..Len(t) : (s \o t)[Len(s) + i] = t[i]
           /\ s \o << >> = s /\ << >> \o s = s
           /\ SubSeq(s \o t, 1, Len(s)) = s
           /\ SubSeq(s \o t, Len(s) + 1, Len(s) + Len(t)) = t
<1>1. s \o t \in Seq(S) /\ Len(s \o t) = Len(s) + Len(t) /\ Len(s) \in Nat /\ Len(t) \in Nat
  OBVIOUS
<1>2. \A i \in 1..Len(s) : (s \o t)[i] = s[i]
  OBVIOUS
<1>3. \A i \in 1..Len(t) : (s \o t)[Len(s) + i] = t[i]
  OBVIOUS
<1>4. s \o << >> = s /\ << >> \o s = s
  OBVIOUS
<1> DEFINE u == s \o t
<1> HIDE DEF u
<1>5. SubSeq(u, 1, Len(s)) = s
  <2>1. u \in Seq(S) /\ Len(u) = Len(s) + Len(t) /\ \A i \in 1..Len(s) : u[i] = s[i]
    BY <1>1, <1>2 DEF u
  <2> QED BY <1>1, <2>1
<1>6. SubSeq(u, Len(s) + 1, Len(s) + Len(t)) = t
  <2>1. u \in Seq(S) /\ Len(u) = Len(s) + Len(t) /\ \A i \in 1..Len(t) : u[Len(s) + i] = t[i]
    BY <1>1, <1>3 DEF u
  <2> QED BY <1>1, <2>1
<1> QED BY <1>1, <1>2, <1>3, <1>4, <1>5, <1>6 DEF u

\* Three sequences.
LEMMA JoinsAgain ==
    ASSUME NEW S, NEW s \in Seq(S), NEW t \in Seq(S), NEW r \in Seq(S)
    PROVE  (s \o t) \o r = s \o (t \o r)
  OBVIOUS

\* One more element.
LEMMA JoinsOne ==
    ASSUME NEW S, NEW s \in Seq(S), NEW t \in Seq(S), NEW c \in S
    PROVE  /\ s \o Append(t, c) = Append(s \o t, c)
           /\ Append(s, c) \in Seq(S) /\ Append(s, c) # << >>
           /\ <<c>> \in Seq(S) /\ Append(<< >>, c) = <<c>>
  OBVIOUS

\* A sequence cut in two.
LEMMA Cutting ==
    ASSUME NEW S, NEW s \in Seq(S), NEW i \in 0..Len(s)
    PROVE  /\ SubSeq(s, 1, i) \in Seq(S) /\ Len(SubSeq(s, 1, i)) = i
           /\ SubSeq(s, i + 1, Len(s)) \in Seq(S) /\ Len(SubSeq(s, i + 1, Len(s))) = Len(s) - i
           /\ s = SubSeq(s, 1, i) \o SubSeq(s, i + 1, Len(s))
           /\ \A j \in 1..i : SubSeq(s, 1, i)[j] = s[j]
           /\ \A j \in 1..(Len(s) - i) : SubSeq(s, i + 1, Len(s))[j] = s[i + j]
           /\ SubSeq(s, 1, 0) = << >> /\ SubSeq(s, 1, Len(s)) = s
           /\ i + 1 <= Len(s) => SubSeq(s, 1, i + 1) = Append(SubSeq(s, 1, i), s[i + 1])
<1>1. Len(s) \in Nat /\ i \in Nat /\ i <= Len(s)
  OBVIOUS
<1>2. SubSeq(s, 1, i) \in Seq(S) /\ Len(SubSeq(s, 1, i)) = i
  OBVIOUS
<1>3. SubSeq(s, i + 1, Len(s)) \in Seq(S) /\ Len(SubSeq(s, i + 1, Len(s))) = Len(s) - i
  OBVIOUS
<1>4. \A j \in 1..i : SubSeq(s, 1, i)[j] = s[j]
  OBVIOUS
<1>5. \A j \in 1..(Len(s) - i) : SubSeq(s, i + 1, Len(s))[j] = s[i + j]
  OBVIOUS
<1>6. s = SubSeq(s, 1, i) \o SubSeq(s, i + 1, Len(s))
  <2> DEFINE a == SubSeq(s, 1, i)  b == SubSeq(s, i + 1, Len(s))  u == a \o b
  <2>1. a \in Seq(S) /\ b \in Seq(S) /\ Len(a) = i /\ Len(b) = Len(s) - i
    BY <1>2, <1>3
  <2> HIDE DEF a, b
  <2>2. /\ u \in Seq(S) /\ Len(u) = Len(s)
        /\ \A j \in 1..i : u[j] = a[j]
        /\ \A j \in 1..(Len(s) - i) : u[i + j] = b[j]
    BY <1>1, <2>1, Joins
  <2> HIDE DEF u
  <2>3. ASSUME NEW j \in 1..Len(s) PROVE u[j] = s[j]
    <3>1. CASE j <= i
      <4>1. j \in 1..i
        BY <1>1, <3>1
      <4> QED BY <1>4, <2>2, <4>1 DEF a
    <3>2. CASE j > i
      <4>1. j - i \in 1..(Len(s) - i) /\ i + (j - i) = j
        BY <1>1, <3>2
      <4> QED BY <1>5, <2>2, <4>1 DEF b
    <3> QED BY <1>1, <3>1, <3>2
  <2>4. u = s
    BY <1>1, <2>2, <2>3
  <2> QED BY <2>4 DEF u, a, b
<1>7. SubSeq(s, 1, 0) = << >>
  OBVIOUS
<1>8. SubSeq(s, 1, Len(s)) = s
  OBVIOUS
<1>9. i + 1 <= Len(s) => SubSeq(s, 1, i + 1) = Append(SubSeq(s, 1, i), s[i + 1])
  OBVIOUS
<1> QED BY <1>2, <1>3, <1>4, <1>5, <1>6, <1>7, <1>8, <1>9

\* The digits and what they are worth; no other character of a number is one.
LEMMA DigitsAre ==
    /\ \A n \in 0..9 : Text!Digit[n + 1] \in Text!DigitSet /\ Text!ValueOf(Text!Digit[n + 1]) = n
    /\ \A c \in Text!DigitSet : Text!ValueOf(c) \in 0..9
    /\ "0" \in Text!DigitSet /\ Text!ValueOf("0") = 0
    /\ \A c \in {".", "-", "+", "E", "q", "null"} : c \notin Text!DigitSet
<1>1. \A i, j \in 1..10 : Text!Digit[i] = Text!Digit[j] => i = j
  BY DEF Text!Digit
<1>2. Text!DigitSet = {Text!Digit[i] : i \in 1..10}
  BY DEF Text!DigitSet, Text!ToSet, Text!Digit
<1>3. ASSUME NEW n \in 0..9
      PROVE  Text!Digit[n + 1] \in Text!DigitSet /\ Text!ValueOf(Text!Digit[n + 1]) = n
  <2>1. \A k \in 0..9 : Text!Digit[k + 1] = Text!Digit[n + 1] => k = n
    BY <1>1
  <2> QED BY <1>2, <2>1 DEF Text!ValueOf
<1>4. ASSUME NEW c \in Text!DigitSet PROVE \E n \in 0..9 : c = Text!Digit[n + 1]
  <2>1. PICK i \in 1..10 : c = Text!Digit[i]
    BY <1>2
  <2>2. i - 1 \in 0..9 /\ (i - 1) + 1 = i
    OBVIOUS
  <2> QED BY <2>1, <2>2
<1>5. Text!Digit[0 + 1] = "0"
  BY DEF Text!Digit
<1>6. \A c \in {".", "-", "+", "E", "q", "null"} : \A i \in 1..10 : c # Text!Digit[i]
  BY DEF Text!Digit
<1> QED BY <1>2, <1>3, <1>4, <1>5, <1>6

\* The number that a sequence of digits stands for.
Number(s) == Text!FoldLeft(LAMBDA acc, c : 10 * acc + Text!ValueOf(c), 0, s)


\* It takes its digits one after the other.
LEMMA NumberSteps ==
    ASSUME NEW S, NEW s \in Seq(S)
    PROVE  \E so : /\ so[0] = 0
                   /\ \A k \in 1..Len(s) : so[k] = 10 * so[k - 1] + Text!ValueOf(s[k])
                   /\ so[Len(s)] = Number(s)
<1> DEFINE n == Len(s)
           P(iter) == iter = [t \in SUBSET (DOMAIN s) |->
                IF t = {} THEN 0
                ELSE 10 * iter[t \ {Text!Max(t)}] + Text!ValueOf(s[Text!Max(t)])]
<1>1. n \in Nat /\ DOMAIN s = 1..n
  OBVIOUS
<1>2. Number(s) = (CHOOSE iter : P(iter))[DOMAIN s]
  BY Zenon DEF Number, Text!FoldLeft, Text!MapThenFoldSet
<1>3. \A iter : P(iter) <=> FoldOf("number", 0, s, 1..n, iter)
  <2>1. \A t : Text!Max(t) = Laws!Max(t)
    BY DEF Text!Max, Laws!Max
  <2> QED BY <1>1, <2>1 DEF FoldOf, Joined
<1>4. Number(s) = Folded("number", 0, s, n)
  <2>1. (CHOOSE iter : P(iter)) = CHOOSE iter : FoldOf("number", 0, s, 1..n, iter)
    <3> HIDE DEF P
    <3> QED BY <1>3
  <2> QED BY <1>1, <1>2, <2>1 DEF Folded
<1>5. PICK so : Steps(so, "number", 0, s, n)
  <2> HIDE DEF n
  <2> QED BY <1>1, FoldSteps
<1>7. /\ so[0] = 0
      /\ \A k \in 1..n : so[k] = Joined("number", so[k - 1], s[k])
      /\ so[n] = Folded("number", 0, s, n)
  BY <1>5 DEF Steps
<1>6. \A k \in 1..n : so[k] = 10 * so[k - 1] + Text!ValueOf(s[k])
  BY <1>7 DEF Joined
<1> QED BY <1>4, <1>7, <1>6

Numeric == Seq(Text!DigitSet)

\* No digits are 0, and one more digit is a unit more.
LEMMA NumberIs ==
    /\ Number(<< >>) = 0
    /\ \A s \in Numeric : Number(s) \in Nat
    /\ \A s \in Numeric, c \in Text!DigitSet :
          Number(Append(s, c)) = 10 * Number(s) + Text!ValueOf(c)
<1>1. Number(<< >>) = 0
  <2>1. << >> \in Seq({}) /\ Len(<< >>) = 0
    OBVIOUS
  <2> QED BY <2>1, NumberSteps
<1>2. ASSUME NEW s \in Numeric PROVE Number(s) \in Nat
  <2> DEFINE n == Len(s)
  <2>1. PICK so : /\ so[0] = 0
                  /\ \A k \in 1..n : so[k] = 10 * so[k - 1] + Text!ValueOf(s[k])
                  /\ so[n] = Number(s)
    BY NumberSteps DEF Numeric
  <2> DEFINE G == {k \in 0..n : so[k] \in Nat}
  <2>2. n \in Nat /\ \A k \in 1..n : s[k] \in Text!DigitSet
    BY DEF Numeric
  <2>3. 0 \in G
    BY <2>1, <2>2
  <2>4. ASSUME NEW k \in 0..n, k \in G, k + 1 <= n PROVE k + 1 \in G
    <3>1. k + 1 \in 1..n /\ (k + 1) - 1 = k /\ so[k] \in Nat
      BY <2>2, <2>4
    <3>2. Text!ValueOf(s[k + 1]) \in 0..9
      BY <2>2, <3>1, DigitsAre
    <3>3. so[k + 1] = 10 * so[k] + Text!ValueOf(s[k + 1])
      BY <2>1, <3>1
    <3>4. so[k + 1] \in Nat /\ k + 1 \in 0..n
      BY <2>2, <3>1, <3>2, <3>3
    <3> HIDE DEF n
    <3> QED BY <3>4
  <2>5. 0..n \subseteq G
    <3> HIDE DEF G
    <3> QED BY <2>2, <2>3, <2>4, UpTo
  <2> QED BY <2>1, <2>2, <2>5
<1>3. ASSUME NEW s \in Numeric, NEW c \in Text!DigitSet
      PROVE  Number(Append(s, c)) = 10 * Number(s) + Text!ValueOf(c)
  <2> DEFINE n == Len(s)
             t == Append(s, c)
  <2>1. PICK so : /\ so[0] = 0
                  /\ \A k \in 1..n : so[k] = 10 * so[k - 1] + Text!ValueOf(s[k])
                  /\ so[n] = Number(s)
    BY NumberSteps DEF Numeric
  <2>2. n \in Nat /\ t \in Numeric /\ Len(t) = n + 1 /\ t[n + 1] = c /\ \A k \in 1..n : t[k] = s[k]
    BY DEF Numeric
  <2> HIDE DEF t
  <2>3. PICK to : /\ to[0] = 0
                  /\ \A k \in 1..(n + 1) : to[k] = 10 * to[k - 1] + Text!ValueOf(t[k])
                  /\ to[n + 1] = Number(t)
    <3>1. t \in Seq(Text!DigitSet)
      BY <2>2 DEF Numeric
    <3> QED BY <2>2, <3>1, NumberSteps
  <2> DEFINE G == {k \in 0..n : to[k] = so[k]}
  <2>4. 0 \in G
    BY <2>1, <2>2, <2>3
  <2>5. ASSUME NEW k \in 0..n, k \in G, k + 1 <= n PROVE k + 1 \in G
    <3>1. k + 1 \in 1..n /\ k + 1 \in 1..(n + 1) /\ (k + 1) - 1 = k
      BY <2>2, <2>5
    <3> QED BY <2>1, <2>2, <2>3, <2>5, <3>1
  <2>6. 0..n \subseteq G
    <3> HIDE DEF G
    <3> QED BY <2>2, <2>4, <2>5, UpTo
  <2>7. to[n] = so[n] /\ n + 1 \in 1..(n + 1) /\ (n + 1) - 1 = n
    BY <2>2, <2>6
  <2>8. Number(t) = 10 * Number(s) + Text!ValueOf(c)
    BY <2>1, <2>2, <2>3, <2>7
  <2> QED BY <2>8 DEF t
<1> QED BY <1>1, <1>2, <1>3

\* A numeral is that of a tenth and one more digit.
Numbered(f, m) ==
    IF m < 10 THEN <<Text!Digit[m + 1]>>
    ELSE Append(f[m \div 10], Text!Digit[(m % 10) + 1])

\* A tenth is less, and there is one digit over.
LEMMA TenthIs ==
    ASSUME NEW m \in Nat
    PROVE  /\ m \div 10 \in Nat /\ m % 10 \in 0..9 /\ m = 10 * (m \div 10) + (m % 10)
           /\ m >= 10 => m \div 10 < m
  OBVIOUS

\* The recursion of Numeral has a solution.
LEMMA NumeralsExist == \E f : f = [m \in Nat |-> Numbered(f, m)]
<1> DEFINE Solves(g, n) == g = [m \in 0..n |-> Numbered(g, m)]
<1>1. ASSUME NEW n \in Nat PROVE \E g : Solves(g, n)
  <2> DEFINE G == {k \in 0..n : \E g : Solves(g, k)}
  <2>1. 0 \in G
    <3>1. Solves([m \in 0..0 |-> <<Text!Digit[m + 1]>>], 0)
      BY DEF Numbered
    <3> QED BY <3>1
  <2>2. ASSUME NEW k \in 0..n, k \in G, k + 1 <= n PROVE k + 1 \in G
    <3>1. PICK g : Solves(g, k)
      BY <2>2
    <3> DEFINE longer == [m \in 0..(k + 1) |-> IF m = k + 1 THEN Numbered(g, k + 1) ELSE g[m]]
    <3>2. ASSUME NEW m \in 0..(k + 1) PROVE longer[m] = Numbered(longer, m)
      <4>1. m >= 10 => m \div 10 \in 0..k /\ longer[m \div 10] = g[m \div 10]
        BY TenthIs
      <4>2. Numbered(longer, m) = Numbered(g, m)
        <5> HIDE DEF longer
        <5> QED BY <4>1 DEF Numbered
      <4>3. m # k + 1 => g[m] = Numbered(g, m)
        BY <3>1
      <4>4. longer[m] = IF m = k + 1 THEN Numbered(g, k + 1) ELSE g[m]
        OBVIOUS
      <4> QED BY <4>2, <4>3, <4>4
    <3>3. longer = [m \in 0..(k + 1) |-> longer[m]]
      OBVIOUS
    <3>4. Solves(longer, k + 1)
      <4> HIDE DEF longer
      <4> QED BY <3>2, <3>3
    <3>5. k + 1 \in 0..n
      BY <2>2
    <3> HIDE DEF longer, Solves
    <3> QED BY <3>4, <3>5
  <2>3. 0..n \subseteq G
    <3> HIDE DEF G
    <3> QED BY <2>1, <2>2, UpTo
  <2> QED BY <2>3
<1>2. ASSUME NEW i \in Nat, NEW j \in Nat, NEW g, NEW h, Solves(g, i), Solves(h, j),
             NEW m \in 0..i, m <= j
      PROVE  g[m] = h[m]
  <2> DEFINE G == {k \in Nat : k <= i /\ k <= j /\ g[k] # h[k]}
  <2> SUFFICES ASSUME G # {} PROVE FALSE
    <3>1. g[m] # h[m] => m \in G
      BY <1>2
    <3> QED BY <3>1
  <2>1. PICK k \in G : \A l \in G : k <= l
    <3>1. G \in SUBSET Nat
      OBVIOUS
    <3> HIDE DEF G
    <3> QED BY <3>1, LeastNumber
  <2>2. k \in 0..i /\ k \in 0..j /\ g[k] # h[k]
    BY <2>1
  <2>3. g[k] = Numbered(g, k) /\ h[k] = Numbered(h, k)
    BY <1>2, <2>2
  <2>4. k >= 10 => g[k \div 10] = h[k \div 10]
    <3> SUFFICES ASSUME k >= 10 PROVE g[k \div 10] = h[k \div 10]
      OBVIOUS
    <3>1. k \div 10 \in Nat /\ k \div 10 < k /\ k \div 10 <= i /\ k \div 10 <= j
      BY <2>2, TenthIs
    <3> QED BY <2>1, <3>1
  <2>5. Numbered(g, k) = Numbered(h, k)
    BY <2>2, <2>4 DEF Numbered
  <2> QED BY <2>2, <2>3, <2>5
<1> DEFINE Solution(n) == CHOOSE g : Solves(g, n)
           f == [m \in Nat |-> Solution(m)[m]]
<1>3. \A n \in Nat : Solves(Solution(n), n)
  BY <1>1
<1> HIDE DEF Solution
<1>4. ASSUME NEW m \in Nat PROVE f[m] = Numbered(f, m)
  <2>1. f[m] = Solution(m)[m] /\ Solution(m)[m] = Numbered(Solution(m), m)
    BY <1>3
  <2>2. m >= 10 => f[m \div 10] = Solution(m)[m \div 10]
    <3> SUFFICES ASSUME m >= 10 PROVE f[m \div 10] = Solution(m)[m \div 10]
      OBVIOUS
    <3>1. m \div 10 \in Nat /\ m \div 10 \in 0..(m \div 10) /\ m \div 10 <= m
      BY TenthIs
    <3>2. Solution(m \div 10)[m \div 10] = Solution(m)[m \div 10]
      <4> HIDE DEF Solves
      <4> QED BY <1>2, <1>3, <3>1
    <3> QED BY <3>1, <3>2
  <2> HIDE DEF f
  <2>3. Numbered(f, m) = Numbered(Solution(m), m)
    BY <2>2 DEF Numbered
  <2> QED BY <2>1, <2>3
<1>5. f = [m \in Nat |-> f[m]]
  OBVIOUS
<1> HIDE DEF f
<1>6. f = [m \in Nat |-> Numbered(f, m)]
  BY <1>4, <1>5
<1> QED BY <1>6

\* A numeral is read as its number.
LEMMA NumeralIs ==
    ASSUME NEW n \in Nat
    PROVE  /\ Text!Numeral(n) \in Numeric /\ Text!Numeral(n) # << >>
           /\ Number(Text!Numeral(n)) = n
<1> DEFINE P(f) == f = [m \in Nat |-> IF m < 10 THEN <<Text!Digit[m + 1]>>
                           ELSE Append(f[m \div 10], Text!Digit[(m % 10) + 1])]
           text == CHOOSE f : P(f)
<1>1. Text!Numeral(n) = text[n]
  BY DEF Text!Numeral
<1>2. P(text)
  <2>1. \E f : P(f)
    BY NumeralsExist DEF Numbered
  <2> HIDE DEF P
  <2> QED BY <2>1
<1> HIDE DEF text
<1>3. \A m \in Nat : text[m] = Numbered(text, m)
  BY <1>2 DEF Numbered
<1> DEFINE Read(m) == text[m] \in Numeric /\ text[m] # << >> /\ Number(text[m]) = m
           unread == {m \in Nat : ~Read(m)}
<1>4. unread = {}
  <2> SUFFICES ASSUME unread # {} PROVE FALSE
    OBVIOUS
  <2>1. PICK m \in unread : \A k \in unread : m <= k
    <3>1. unread \in SUBSET Nat
      OBVIOUS
    <3> HIDE DEF unread
    <3> QED BY <3>1, LeastNumber
  <2>2. m \in Nat /\ ~Read(m) /\ text[m] = Numbered(text, m)
    BY <1>3, <2>1
  <2>3. CASE m < 10
    <3> DEFINE c == Text!Digit[m + 1]
    <3>1. c \in Text!DigitSet /\ Text!ValueOf(c) = m
      <4>1. m \in 0..9
        BY <2>2, <2>3
      <4> HIDE DEF unread
      <4> QED BY <4>1, DigitsAre
    <3> HIDE DEF c
    <3>2. text[m] = <<c>> /\ <<c>> = Append(<< >>, c) /\ << >> \in Numeric /\ <<c>> \in Numeric
      BY <2>2, <2>3, <3>1 DEF Numbered, Numeric, c
    <3>3. Number(<<c>>) = 10 * Number(<< >>) + m /\ Number(<< >>) = 0
      BY <3>1, <3>2, NumberIs
    <3>4. Number(<<c>>) = m /\ <<c>> # << >>
      BY <2>2, <3>3
    <3> QED BY <2>2, <3>2, <3>4
  <2>4. CASE m >= 10
    <3> DEFINE c == Text!Digit[(m % 10) + 1]
               k == m \div 10
    <3>1. k \in Nat /\ k < m /\ m % 10 \in 0..9 /\ m = 10 * k + (m % 10)
      BY <2>2, <2>4, TenthIs
    <3>2. c \in Text!DigitSet /\ Text!ValueOf(c) = m % 10
      BY <3>1, DigitsAre
    <3>3. text[m] = Append(text[k], c)
      BY <2>2, <2>4 DEF Numbered
    <3> HIDE DEF c, k
    <3>4. Read(k)
      BY <2>1, <2>2, <3>1
    <3>5. Number(text[m]) = 10 * Number(text[k]) + (m % 10)
      BY <3>2, <3>3, <3>4, NumberIs
    <3>6. Append(text[k], c) \in Numeric /\ Append(text[k], c) # << >>
      BY <3>2, <3>4 DEF Numeric
    <3> QED BY <2>2, <3>1, <3>3, <3>4, <3>5, <3>6
  <2> QED BY <2>2, <2>3, <2>4
<1> QED BY <1>1, <1>4

\* Digits after digits, and the first ones of them.
LEMMA DigitsJoin ==
    ASSUME NEW s \in Numeric, NEW t \in Numeric
    PROVE  s \o t \in Numeric /\ Len(s \o t) = Len(s) + Len(t) /\ Len(s) \in Nat
           /\ s \o << >> = s /\ << >> \o s = s /\ << >> \in Numeric
           /\ \A c \in Text!DigitSet : s \o Append(t, c) = Append(s \o t, c) /\ Append(t, c) \in Numeric
  BY DEF Numeric

\* Its first digits, one after the other.
LEMMA FirstDigits ==
    ASSUME NEW s \in Numeric
    PROVE  /\ SubSeq(s, 1, 0) = << >> /\ SubSeq(s, 1, Len(s)) = s /\ Len(s) \in Nat
           /\ \A j \in 0..Len(s) : SubSeq(s, 1, j) \in Numeric
           /\ \A j \in 0..Len(s) : j + 1 <= Len(s) =>
                 s[j + 1] \in Text!DigitSet /\ SubSeq(s, 1, j + 1) = Append(SubSeq(s, 1, j), s[j + 1])
<1>1. \A j \in 0..Len(s) : SubSeq(s, 1, j) \in Numeric
  BY DEF Numeric
<1>2. \A j \in 0..Len(s) : j + 1 <= Len(s) => SubSeq(s, 1, j + 1) = Append(SubSeq(s, 1, j), s[j + 1])
  BY DEF Numeric
<1>3. \A j \in 0..Len(s) : j + 1 <= Len(s) => s[j + 1] \in Text!DigitSet
  BY DEF Numeric
<1>4. SubSeq(s, 1, 0) = << >> /\ SubSeq(s, 1, Len(s)) = s /\ Len(s) \in Nat
  BY DEF Numeric
<1> QED BY <1>1, <1>2, <1>3, <1>4

\* What digits after digits are worth.
LEMMA NumberJoins ==
    ASSUME Laws!PowersOfTen(Nat), NEW s \in Numeric, NEW t \in Numeric
    PROVE  /\ s \o t \in Numeric /\ Number(s) \in Nat /\ Number(t) \in Nat
           /\ Number(s \o t) = Number(s) * 10^Len(t) + Number(t)
<1> DEFINE n == Len(t)
           First(j) == SubSeq(t, 1, j)
           Joined1(j) == Number(s \o First(j)) = Number(s) * 10^j + Number(First(j))
           G == {j \in 0..n : Joined1(j)}
<1>1. /\ s \o t \in Numeric /\ Number(s) \in Nat /\ Number(t) \in Nat /\ n \in Nat
      /\ First(0) = << >> /\ First(n) = t /\ s \o << >> = s
  BY DigitsJoin, FirstDigits, NumberIs
<1>2. Joined1(0)
  <2>1. 10^0 = 1 /\ Number(<< >>) = 0
    BY NumberIs
  <2> DEFINE q == 10^0
  <2> HIDE DEF First, q
  <2>2. Number(s) = Number(s) * q + 0
    BY <1>1, <2>1 DEF q
  <2> QED BY <1>1, <2>1, <2>2 DEF q
<1>3. ASSUME NEW j \in 0..n, Joined1(j), j + 1 <= n PROVE Joined1(j + 1)
  <2> DEFINE c == t[j + 1]
             a == Number(s \o First(j))  b == Number(First(j))  v == Text!ValueOf(c)
             q == 10^j  q10 == 10^(j + 1)  m == Number(s)
  <2>1. First(j) \in Numeric /\ First(j + 1) = Append(First(j), c) /\ c \in Text!DigitSet
    BY <1>3, FirstDigits
  <2> HIDE DEF First, c
  <2>2. s \o First(j + 1) = Append(s \o First(j), c) /\ s \o First(j) \in Numeric
    <3>1. \A f \in Numeric : s \o f \in Numeric /\ \A k \in Text!DigitSet : s \o Append(f, k) = Append(s \o f, k)
      BY DigitsJoin
    <3> DEFINE f == First(j)
    <3>2. f \in Numeric /\ First(j + 1) = Append(f, c) /\ c \in Text!DigitSet
      BY <2>1
    <3> HIDE DEF f
    <3>3. s \o First(j + 1) = Append(s \o f, c) /\ s \o f \in Numeric
      BY <3>1, <3>2
    <3> QED BY <3>3 DEF f
  <2>3. a \in Nat /\ b \in Nat /\ v \in 0..9
    BY <2>1, <2>2, NumberIs, DigitsAre
  <2>4. Number(s \o First(j + 1)) = 10 * a + v /\ Number(First(j + 1)) = 10 * b + v
    BY <2>1, <2>2, NumberIs
  <2>5. q10 = q * 10 /\ q \in Nat
    <3>1. j \in Nat /\ 1 \in Nat /\ 10^1 = 10
      BY <1>1
    <3>2. \A k, l \in Nat : 10^k \in Nat \ {0} /\ 10^(k + l) = 10^k * 10^l
      BY DEF Laws!PowersOfTen
    <3>3. 10^(j + 1) = 10^j * 10^1 /\ 10^j \in Nat \ {0}
      BY <3>1, <3>2
    <3> QED BY <3>1, <3>3
  <2>6. a = m * q + b
    BY <1>3
  <2> HIDE DEF a, b, v, q, q10, m, n
  <2>7. m \in Nat
    BY <1>1 DEF m
  <2>8. 10 * a + v = m * q10 + (10 * b + v)
    <3>1. m * q10 = 10 * (m * q) /\ m * q \in Nat
      BY <2>5, <2>7
    <3> QED BY <2>3, <2>6, <3>1
  <2> QED BY <2>4, <2>8 DEF q10, m
<1>4. 0..n \subseteq G
  <2> HIDE DEF Joined1, n
  <2>1. 0 \in G /\ \A j \in 0..n : j \in G /\ j + 1 <= n => j + 1 \in G
    <3>1. \A j \in 0..n : j + 1 <= n => j + 1 \in 0..n
      BY <1>1
    <3> QED BY <1>1, <1>2, <1>3, <3>1
  <2> HIDE DEF G
  <2> QED BY <1>1, <2>1, UpTo
<1>5. Joined1(n)
  <2> HIDE DEF Joined1, n
  <2> QED BY <1>1, <1>4
<1> HIDE DEF n, First
<1> QED BY <1>1, <1>5 DEF n

\* Zeros are worth nothing.
LEMMA NoughtsAre ==
    ASSUME NEW k \in Nat
    PROVE  Text!Zeros(k) \in Numeric /\ Len(Text!Zeros(k)) = k /\ Number(Text!Zeros(k)) = 0
<1> DEFINE Z(j) == Text!Zeros(j)
           G == {j \in 0..k : Number(Z(j)) = 0}
<1>1. \A j \in Nat : Z(j) \in Numeric /\ Len(Z(j)) = j
  BY DigitsAre DEF Text!Zeros, Numeric
<1>2. \A j \in Nat : Z(j + 1) = Append(Z(j), "0")
  BY DEF Text!Zeros
<1>3. Z(0) = << >>
  BY DEF Text!Zeros
<1> HIDE DEF Z
<1>4. 0 \in G
  BY <1>3, NumberIs
<1>5. ASSUME NEW j \in 0..k, j \in G, j + 1 <= k PROVE j + 1 \in G
  <2>1. j \in Nat /\ Z(j) \in Numeric /\ Number(Z(j)) = 0 /\ j + 1 \in 0..k
    BY <1>1, <1>5
  <2>2. Number(Z(j + 1)) = 10 * 0 + 0
    BY <1>2, <2>1, NumberIs, DigitsAre
  <2> QED BY <2>1, <2>2
<1>6. 0..k \subseteq G
  <2> HIDE DEF G
  <2> QED BY <1>4, <1>5, UpTo
<1>7. Z(k) \in Numeric /\ Len(Z(k)) = k /\ Number(Z(k)) = 0
  <2>1. k \in G
    BY <1>6
  <2> QED BY <1>1, <2>1
<1> QED BY <1>7 DEF Z

\* A numeral of zeros only is worth nothing.
LEMMA OnlyZeros ==
    ASSUME NEW s \in Numeric, \A i \in 1..Len(s) : s[i] = "0"
    PROVE  s = Text!Zeros(Len(s)) /\ Number(s) = 0
<1>1. Len(s) \in Nat
  BY DEF Numeric
<1>2. s = Text!Zeros(Len(s))
  BY DEF Text!Zeros, Numeric
<1>3. Number(Text!Zeros(Len(s))) = 0
  BY <1>1, NoughtsAre, Zenon
<1> QED BY <1>2, <1>3, Zenon

\* ParseInt reads digits, with a sign or without.
LEMMA ParsedIs ==
    ASSUME NEW s \in Numeric, s # << >>
    PROVE  Text!ParseInt(s) = Number(s) /\ Text!ParseInt(<<"-">> \o s) = -Number(s)
<1>1. s \in Seq(Text!DigitSet) /\ Head(s) \in Text!DigitSet /\ Text!ToSet(s) \subseteq Text!DigitSet
  BY DEF Numeric, Text!ToSet
<1>2. Text!ParseInt(s) = Number(s)
  <2>1. Head(s) \notin {"-", "+"}
    BY <1>1, DigitsAre
  <2> QED BY <1>1, <2>1 DEF Text!ParseInt, Number
<1>3. Text!ParseInt(<<"-">> \o s) = -Number(s)
  <2> DEFINE t == <<"-">> \o s
  <2>1. t # << >> /\ Head(t) = "-" /\ Tail(t) = s
    BY <1>1
  <2> HIDE DEF t
  <2>2. Text!ParseInt(t) = -Number(s)
    BY <1>1, <2>1 DEF Text!ParseInt, Number
  <2> QED BY <2>2 DEF t
<1> QED BY <1>2, <1>3

\* Index finds the first such character.
LEMMA IndexIs ==
    ASSUME NEW S, NEW text \in Seq(S), NEW c
    PROVE  /\ c \in Text!ToSet(text) <=> \E i \in 1..Len(text) : text[i] = c
           /\ c \notin Text!ToSet(text) => Text!Index(text, c) = 0
           /\ c \in Text!ToSet(text) => /\ Text!Index(text, c) \in 1..Len(text)
                                        /\ text[Text!Index(text, c)] = c
           /\ \A j \in 1..Len(text) : text[j] = c => Text!Index(text, c) <= j
<1> DEFINE at == {i \in 1..Len(text) : text[i] = c}
<1>1. c \in Text!ToSet(text) <=> \E i \in 1..Len(text) : text[i] = c
  BY DEF Text!ToSet
<1>2. Text!SelectInSeq(text, LAMBDA e : e = c) = IF at # {} THEN Text!Min(at) ELSE 0
  BY Zenon DEF Text!SelectInSeq
<1>3. ASSUME at # {} PROVE Text!Min(at) \in at /\ \A j \in at : Text!Min(at) <= j
  <2>1. at \in SUBSET Nat
    OBVIOUS
  <2>2. \E i \in at : \A j \in at : i <= j
    <3> HIDE DEF at
    <3> QED BY <1>3, <2>1, LeastNumber
  <2> HIDE DEF at
  <2> QED BY <2>2 DEF Text!Min
<1>4. c \in Text!ToSet(text) => /\ at # {} /\ Text!Index(text, c) = Text!Min(at)
  BY <1>1, <1>2 DEF Text!Index
<1>5. c \notin Text!ToSet(text) => Text!Index(text, c) = 0
  BY DEF Text!Index
<1> QED BY <1>1, <1>3, <1>4, <1>5

\* Nothing before it is that character.
LEMMA IndexAt ==
    ASSUME NEW S, NEW text \in Seq(S), NEW c, NEW i \in 1..Len(text), text[i] = c,
           \A j \in 1..(i - 1) : text[j] # c
    PROVE  Text!Index(text, c) = i
<1>1. /\ Text!Index(text, c) \in 1..Len(text) /\ text[Text!Index(text, c)] = c
      /\ Text!Index(text, c) <= i
  BY IndexIs
<1> QED BY <1>1

\* What a text with this sign and these digits, some after the point, is.
WithSign(sign, n) == IF sign = << >> THEN n ELSE -n
Pointed(frac) == IF frac = << >> THEN << >> ELSE <<".">> \o frac

TextParameters ==
    /\ Refused \notin Int
    /\ Text!MinExp \in Int /\ Text!MaxExp \in Int /\ 0 \in Text!MinExp..Text!MaxExp

\* The characters of a number, and of a number before its point.
Chars == Text!DigitSet \cup {"-", "."}
Written == Seq(Chars)
Front == Seq(Text!DigitSet \cup {"-"})

Signs == {<< >>, <<"-">>}

\* What a number is written as: its parts.
LEMMA PartsAre ==
    ASSUME NEW sign \in Signs, NEW whole \in Numeric, NEW frac \in Numeric
    PROVE  /\ Len(frac) \in Nat /\ whole \o frac \in Numeric
           /\ whole # << >> => whole \o frac # << >>
           /\ sign \o whole \in Front /\ sign \o (whole \o frac) = (sign \o whole) \o frac
<1>1. Len(frac) \in Nat /\ whole \o frac \in Numeric /\ (whole # << >> => whole \o frac # << >>)
  BY DEF Numeric
<1>2. sign \in Front /\ whole \in Front /\ frac \in Front
  <2>1. << >> \in Front /\ <<"-">> \in Front
    BY DEF Front
  <2>2. whole \in Front /\ frac \in Front
    BY DEF Front, Numeric
  <2> QED BY <2>1, <2>2 DEF Signs
<1>3. sign \o whole \in Front
  BY <1>2, Joins DEF Front
<1>4. sign \o (whole \o frac) = (sign \o whole) \o frac
  <2> DEFINE D == Text!DigitSet \cup {"-"}
  <2>1. sign \in Seq(D) /\ whole \in Seq(D) /\ frac \in Seq(D)
    BY <1>2 DEF Front
  <2> HIDE DEF D
  <2> QED BY <2>1
<1> QED BY <1>1, <1>3, <1>4

\* One element before a sequence.
LEMMA OneBefore ==
    ASSUME NEW D, NEW c \in D, NEW s \in Seq(D)
    PROVE  /\ <<c>> \o s \in Seq(D) /\ Len(<<c>> \o s) = 1 + Len(s) /\ (<<c>> \o s)[1] = c
           /\ \A k \in 1..Len(s) : (<<c>> \o s)[1 + k] = s[k]
           /\ Head(<<c>> \o s) = c /\ Tail(<<c>> \o s) = s
<1>1. <<c>> \o s \in Seq(D) /\ Len(<<c>> \o s) = 1 + Len(s) /\ (<<c>> \o s)[1] = c
  OBVIOUS
<1>2. \A k \in 1..Len(s) : (<<c>> \o s)[1 + k] = s[k]
  OBVIOUS
<1>3. Head(<<c>> \o s) = c /\ Tail(<<c>> \o s) = s
  OBVIOUS
<1> QED BY <1>1, <1>2, <1>3

\* A point and what stands before and after it.
LEMMA AroundPoint ==
    ASSUME NEW front \in Front, NEW frac \in Numeric
    PROVE  LET text == front \o (<<".">> \o frac)
               i == Len(front) + 1
           IN  /\ text \in Written /\ Len(text) = i + Len(frac) /\ Len(front) \in Nat
               /\ i \in 1..Len(text) /\ text[i] = "."
               /\ \A j \in 1..(i - 1) : text[j] = front[j]
               /\ SubSeq(text, 1, i - 1) = front /\ SubSeq(text, i + 1, Len(text)) = frac
<1> DEFINE text == front \o (<<".">> \o frac)  i == Len(front) + 1  end == <<".">> \o frac
<1>1. front \in Written /\ frac \in Written /\ <<".">> \in Written /\ Len(front) \in Nat /\ Len(frac) \in Nat
  BY DEF Front, Numeric, Written, Chars
<1>2. end \in Written /\ Len(end) = 1 + Len(frac) /\ end[1] = "." /\ \A k \in 1..Len(frac) : end[1 + k] = frac[k]
  <2> DEFINE c == "."
  <2>1. c \in Chars /\ frac \in Seq(Chars)
    BY <1>1 DEF Chars, Written
  <2> HIDE DEF c
  <2>2. /\ <<c>> \o frac \in Seq(Chars) /\ Len(<<c>> \o frac) = 1 + Len(frac) /\ (<<c>> \o frac)[1] = c
        /\ \A k \in 1..Len(frac) : (<<c>> \o frac)[1 + k] = frac[k]
    BY <2>1, OneBefore
  <2> QED BY <2>2 DEF c, Written
<1> HIDE DEF end
<1>3. text = front \o end
  BY DEF end
<1> HIDE DEF text
<1>4. /\ text \in Written /\ Len(text) = Len(front) + Len(end)
      /\ (\A j \in 1..Len(front) : text[j] = front[j])
      /\ (\A j \in 1..Len(end) : text[Len(front) + j] = end[j])
      /\ SubSeq(text, 1, Len(front)) = front
  <2>1. front \in Seq(Chars) /\ end \in Seq(Chars)
    BY <1>1, <1>2 DEF Written
  <2> QED BY <1>3, <2>1, Joins DEF Written
<1>5. i - 1 = Len(front) /\ i \in Nat /\ i >= 1 /\ 1 \in 1..Len(end) /\ Len(text) = i + Len(frac) /\ i \in 1..Len(text)
  BY <1>1, <1>2, <1>4
<1>6. text[i] = "."
  BY <1>2, <1>4, <1>5
<1>7. SubSeq(text, i + 1, Len(text)) = frac
  <2>1. \A k \in 1..Len(frac) : text[i + k] = frac[k]
    <3> SUFFICES ASSUME NEW k \in 1..Len(frac) PROVE text[i + k] = frac[k]
      OBVIOUS
    <3>1. 1 + k \in 1..Len(end) /\ i + k = Len(front) + (1 + k)
      BY <1>1, <1>2
    <3> QED BY <1>2, <1>4, <3>1
  <2>2. text \in Seq(Chars) /\ frac \in Seq(Chars)
    BY <1>1, <1>4 DEF Written
  <2> DEFINE n == Len(frac)
  <2>3. Len(text) = i + n /\ i \in Nat /\ n \in Nat
    BY <1>1, <1>5
  <2> HIDE DEF i
  <2>4. SubSeq(text, i + 1, Len(text)) \in Seq(Chars) /\ Len(SubSeq(text, i + 1, Len(text))) = n
    BY <2>2, <2>3
  <2>5. \A k \in 1..n : SubSeq(text, i + 1, Len(text))[k] = text[i + k]
    BY <2>2, <2>3
  <2> QED BY <2>1, <2>2, <2>4, <2>5
<1> HIDE DEF i
<1>8. \A j \in 1..(i - 1) : text[j] = front[j]
  BY <1>4, <1>5
<1> QED BY <1>1, <1>4, <1>5, <1>6, <1>7, <1>8 DEF text, i

\* A text that ToText writes is read as the number its digits are.
LEMMA ReadBack ==
    ASSUME TextParameters, NEW sign \in Signs,
           NEW whole \in Numeric, whole # << >>, NEW frac \in Numeric,
           -Len(frac) \in Text!MinExp..Text!MaxExp
    PROVE  Text!NewFromString((sign \o whole) \o Pointed(frac))
              = Text!New(WithSign(sign, Number(whole \o frac)), -Len(frac))
<1> DEFINE front == sign \o whole
<1>1. /\ Len(frac) \in Nat /\ front \in Front
      /\ whole \o frac \in Numeric /\ whole \o frac # << >> /\ sign \o (whole \o frac) = front \o frac
  <2> HIDE DEF front
  <2>1. Len(frac) \in Nat /\ whole \o frac \in Numeric /\ (whole # << >> => whole \o frac # << >>)
    BY PartsAre
  <2>2. sign \o whole \in Front /\ sign \o (whole \o frac) = (sign \o whole) \o frac
    BY PartsAre
  <2> QED BY <2>1, <2>2 DEF front
<1> DEFINE text == front \o Pointed(frac)
           value == WithSign(sign, Number(whole \o frac))
           i == Len(front) + 1
<1>2. Text!ParseInt(front \o frac) = value
  <2>1. << >> \o (whole \o frac) = whole \o frac
    BY <1>1, DigitsJoin
  <2> QED BY <1>1, <2>1, ParsedIs DEF WithSign, Signs
<1>3. value \in Int
  BY <1>1, NumberIs DEF WithSign
<1>4. \A c \in Text!DigitSet \cup {"-"} : c \notin {".", "E"}
  BY DigitsAre
<1>5. "E" \notin Chars
  BY <1>4 DEF Chars
<1> HIDE DEF front
<1>6. frac = << >> => text = front
  <2> SUFFICES ASSUME frac = << >> PROVE text = front
    OBVIOUS
  <2> QED BY <1>1, Joins DEF Front, Pointed
<1>7. frac # << >> => text = front \o (<<".">> \o frac)
  BY DEF Pointed
<1>8. text \in Written
  <2>1. front \in Written
    BY <1>1 DEF Front, Written, Chars
  <2> HIDE DEF text
  <2> QED BY <1>1, <1>6, <1>7, <2>1, AroundPoint
<1> HIDE DEF text, value, i
<1>9. Text!Index(text, "E") = 0
  <2>1. text \in Seq(Chars) /\ \A k \in 1..Len(text) : text[k] # "E"
    BY <1>5, <1>8 DEF Written
  <2>2. "E" \notin Text!ToSet(text)
    BY <2>1, IndexIs
  <2> QED BY <2>1, <2>2, IndexIs
<1>10. Text!NewFromString(text) = Text!FromValue(text, Text!Index(text, "."), 0)
  BY <1>9 DEF Text!NewFromString
<1>11. Text!FromParts(value, -Len(frac)) = Text!New(value, -Len(frac))
  BY <1>1, <1>3 DEF Text!FromParts, TextParameters
<1>12. 0 # Refused /\ 0 \in Text!MinExp..Text!MaxExp
  BY DEF TextParameters
<1>13. front \in Seq(Text!DigitSet \cup {"-"}) /\ \A k \in 1..Len(front) : front[k] # "."
  BY <1>1, <1>4 DEF Front
<1>14. Text!NewFromString(text) = Text!FromParts(value, -Len(frac))
  <2>1. CASE frac = << >>
    <3>1. text = front /\ front \o frac = front /\ -Len(frac) = 0
      <4>1. Len(frac) = 0
        BY <2>1
      <4>2. -Len(frac) = 0
        <5> DEFINE n == Len(frac)
        <5>1. n \in Nat /\ n <= 0
          BY <4>1
        <5> HIDE DEF n
        <5>2. -n \in Int /\ -n <= 0 /\ 0 <= -n
          BY <5>1
        <5> DEFINE o == -n
        <5>3. o \in Int /\ o <= 0 /\ 0 <= o
          BY <5>2
        <5> HIDE DEF o
        <5>4. o = 0
          BY <5>3
        <5> QED BY <5>4 DEF o, n
      <4>3. front \o << >> = front
        BY <1>13, Joins, Zenon
      <4> QED BY <1>6, <2>1, <4>2, <4>3, Zenon
    <3>2. "." \notin Text!ToSet(front)
      BY <1>13, IndexIs
    <3>3. Text!Index(front, ".") = 0
      BY <1>13, <3>2, IndexIs
    <3>4. Text!FromValue(front, 0, 0) = Text!FromParts(value, 0)
      BY <1>2, <1>12, <3>1 DEF Text!FromValue
    <3> QED BY <1>10, <3>1, <3>3, <3>4
  <2>2. CASE frac # << >>
    <3>1. /\ Len(text) = i + Len(frac) /\ Len(front) \in Nat
          /\ i \in 1..Len(text) /\ text[i] = "."
          /\ \A j \in 1..(i - 1) : text[j] = front[j]
          /\ SubSeq(text, 1, i - 1) = front /\ SubSeq(text, i + 1, Len(text)) = frac
      <4> DEFINE t == front \o (<<".">> \o frac)
      <4>1. /\ Len(t) = (Len(front) + 1) + Len(frac) /\ Len(front) \in Nat
            /\ (Len(front) + 1) \in 1..Len(t) /\ t[Len(front) + 1] = "."
            /\ \A j \in 1..((Len(front) + 1) - 1) : t[j] = front[j]
            /\ SubSeq(t, 1, (Len(front) + 1) - 1) = front
            /\ SubSeq(t, (Len(front) + 1) + 1, Len(t)) = frac
        BY <1>1, AroundPoint, Zenon
      <4>2. text = t
        BY <1>7, <2>2, Zenon
      <4> QED BY <4>1, <4>2, Zenon DEF i
    <3>2. i - 1 = Len(front) /\ i # 0 /\ 0 - Len(frac) = -Len(frac)
      BY <1>1, <3>1 DEF i
    <3>3. \A j \in 1..(i - 1) : text[j] # "."
      BY <1>13, <3>1, <3>2
    <3>4. Text!Index(text, ".") = i
      <4>1. text \in Seq(Chars)
        BY <1>8 DEF Written
      <4> QED BY <3>1, <3>3, <4>1, IndexAt
    <3>5. "." \notin Text!ToSet(frac)
      <4>1. frac \in Seq(Text!DigitSet) /\ \A k \in 1..Len(frac) : frac[k] # "."
        BY <1>4 DEF Numeric
      <4> QED BY <4>1, IndexIs
    <3>6. Text!FromValue(text, i, 0) = Text!FromParts(value, -Len(frac))
      BY <1>2, <1>12, <3>1, <3>2, <3>5 DEF Text!FromValue
    <3> QED BY <1>10, <3>4, <3>6
  <2> QED BY <2>1, <2>2
<1> QED BY <1>11, <1>14 DEF text, value, front

-----------------------------------------------------------------------------
(* What the text methods share with arithmetic. *)

\* What texts and arithmetic share.
LEMMA SharedIs ==
    ASSUME NEW d, NEW d2, NEW n, NEW e
    PROVE  /\ Text!Val(d) = Laws!Val(d) /\ Text!New(n, e) = Laws!New(n, e)
           /\ Text!Magnitude(n) = Laws!Magnitude(n)
           /\ Text!Rescale(d, e) = Laws!Rescale(d, e)
           /\ Text!RescalePair(d, d2) = Laws!RescalePair(d, d2)
           /\ Text!Quo(n, e) = Laws!Quo(n, e)
           /\ Text!IsNegative(d) <=> Laws!IsNegative(d)
           /\ Text!Equal(d, d2) <=> Laws!Equal(d, d2)
<1>1. \A a : Text!Val(a) = Laws!Val(a)
  BY DEF Text!Val, Laws!Val
<1>2. \A a, b : Text!New(a, b) = Laws!New(a, b)
  BY DEF Text!New, Laws!New
<1>3. \A a : Text!Magnitude(a) = Laws!Magnitude(a)
  BY DEF Text!Magnitude, Laws!Magnitude
<1>4. \A a : Text!SignOf(a) = Laws!SignOf(a)
  BY DEF Text!SignOf, Laws!SignOf
<1>5. \A a, b : Text!Quo(a, b) = Laws!Quo(a, b)
  BY <1>3, <1>4 DEF Text!Quo, Laws!Quo
<1>6. \A a, b : Text!Rescale(a, b) = Laws!Rescale(a, b)
  BY <1>1, <1>2, <1>3, <1>5, Zenon DEF Text!Rescale, Laws!Rescale
<1>7. \A a, b : Text!RescalePair(a, b) = Laws!RescalePair(a, b)
  BY <1>6, Zenon DEF Text!RescalePair, Laws!RescalePair
<1>8. \A a, b : Text!Cmp(a, b) = Laws!Cmp(a, b)
  BY <1>4, <1>7, Zenon DEF Text!Cmp, Laws!Cmp
<1>9. Text!Equal(d, d2) <=> Laws!Equal(d, d2)
  BY <1>8 DEF Text!Equal, Laws!Equal
<1>10. Text!IsNegative(d) <=> Laws!IsNegative(d)
  BY <1>1, <1>4 DEF Text!IsNegative, Laws!IsNegative, Text!Sign, Laws!Sign
<1> QED BY <1>1, <1>2, <1>3, <1>5, <1>6, <1>7, <1>9, <1>10

\* A numeral with zeros before it, until there is a digit before the point.
Padded(str, e) == IF Len(str) > -e THEN str ELSE Text!Zeros(1 - e - Len(str)) \o str

\* It is worth the same.
LEMMA PaddedIs ==
    ASSUME Laws!PowersOfTen(Nat), NEW str \in Numeric, NEW e \in Int, e < 0
    PROVE  /\ Padded(str, e) \in Numeric /\ Number(Padded(str, e)) = Number(str)
           /\ Len(Padded(str, e)) \in Nat /\ Len(Padded(str, e)) + e > 0
<1>1. Len(str) \in Nat /\ Number(str) \in Nat
  BY NumberIs DEF Numeric
<1>2. CASE Len(str) > -e
  BY <1>1, <1>2 DEF Padded
<1>3. CASE ~(Len(str) > -e)
  <2> DEFINE k == 1 - e - Len(str)  z == Text!Zeros(k)
  <2>1. k \in Nat
    BY <1>1, <1>3
  <2> HIDE DEF k
  <2>2. z \in Numeric /\ Len(z) = k /\ Number(z) = 0
    BY <2>1, NoughtsAre
  <2> HIDE DEF z
  <2>3. z \o str \in Numeric /\ Len(z \o str) = Len(z) + Len(str)
    BY <2>2, DigitsJoin
  <2>4. Number(z \o str) = Number(z) * 10^Len(str) + Number(str)
    BY <2>2, NumberJoins
  <2>5. 10^Len(str) \in Nat
    BY <1>1 DEF Laws!PowersOfTen
  <2>6. Number(z \o str) = Number(str)
    <3> DEFINE q == 10^Len(str)
    <3> HIDE DEF q
    <3>1. q \in Nat /\ Number(z \o str) = 0 * q + Number(str)
      BY <2>2, <2>4, <2>5 DEF q
    <3> QED BY <1>1, <3>1
  <2>7. Padded(str, e) = z \o str
    BY <1>3 DEF Padded, z, k
  <2>8. Len(z \o str) = 1 - e
    BY <1>1, <2>1, <2>2, <2>3 DEF k
  <2> QED BY <2>3, <2>6, <2>7, <2>8
<1> QED BY <1>2, <1>3

\* Digits are those that are kept and zeros.
LEMMA TrimmedIs ==
    ASSUME NEW digits \in Numeric
    PROVE  \E j \in Nat : /\ Text!Trimmed(digits) \in Numeric
                          /\ digits = Text!Trimmed(digits) \o Text!Zeros(j)
<1> DEFINE n == Len(digits)
           kept == {i \in 1..n : digits[i] # "0"}
           Last1(m) == m \in kept \cup {0} /\ \A i \in kept : i <= m
           at == CHOOSE m \in 0..n : Last1(m)
<1>1. n \in Nat
  BY DEF Numeric
<1>2. \E m \in 0..n : Last1(m)
  <2>1. CASE kept = {}
    <3>1. Last1(0) /\ 0 \in 0..n
      BY <1>1, <2>1
    <3> QED BY <3>1
  <2>2. CASE kept # {}
    <3> DEFINE m == Laws!Max(kept)
    <3>1. kept \in SUBSET (1..n)
      OBVIOUS
    <3> HIDE DEF kept, n
    <3>2. m \in kept /\ \A i \in kept : i <= m
      BY <1>1, <2>2, <3>1, GreatestIs
    <3> HIDE DEF m
    <3>3. m \in 0..n
      BY <1>1, <3>1, <3>2
    <3> QED BY <3>2, <3>3
  <2> QED BY <2>1, <2>2
<1>3. at \in 0..n /\ Last1(at)
  <2> HIDE DEF Last1
  <2> QED BY <1>2
<1>4. Text!Trimmed(digits) = SubSeq(digits, 1, at)
  BY Zenon DEF Text!Trimmed
<1> DEFINE tail == SubSeq(digits, at + 1, n)
<1> HIDE DEF at
<1>5. \A i \in 1..n : i > at => digits[i] = "0"
  BY <1>1, <1>3
<1>6. /\ SubSeq(digits, 1, at) \in Numeric /\ tail \in Numeric /\ Len(tail) = n - at
      /\ digits = SubSeq(digits, 1, at) \o tail
      /\ \A j \in 1..(n - at) : tail[j] = digits[at + j]
  <2> HIDE DEF n
  <2>1. digits \in Seq(Text!DigitSet) /\ at \in 0..Len(digits)
    BY <1>3 DEF Numeric, n
  <2> QED BY <2>1, Cutting DEF Numeric, n
<1>7. tail = Text!Zeros(n - at) /\ n - at \in Nat
  <2>1. n - at \in Nat
    BY <1>1, <1>3
  <2>2. \A j \in 1..Len(tail) : tail[j] = "0"
    <3> SUFFICES ASSUME NEW j \in 1..(n - at) PROVE tail[j] = "0"
      BY <1>6
    <3>1. at + j \in 1..n /\ at + j > at
      BY <1>1, <1>3
    <3> HIDE DEF tail, n
    <3> QED BY <1>5, <1>6, <3>1
  <2> HIDE DEF tail, n
  <2> QED BY <1>6, <2>1, <2>2, OnlyZeros
<1> HIDE DEF tail, n
<1> QED BY <1>4, <1>6, <1>7

\* The sign of what is written, and the exponent it is written with in full.
SignText(d) == IF Laws!Val(d) < 0 THEN <<"-">> ELSE << >>
Full(d) == IF d.exp >= 0 THEN 0 ELSE d.exp

\* A text is these digits: j zeros are left out.
WrittenAs(text, d, whole, frac, j) ==
    /\ whole \in Numeric /\ whole # << >> /\ frac \in Numeric /\ j \in Nat
    /\ text = (SignText(d) \o whole) \o Pointed(frac)
    /\ Len(frac) + j = -Full(d)
    /\ Number(whole \o frac) * 10^j = Laws!Magnitude(Laws!Val(d)) * 10^(d.exp - Full(d))

\* The text of an integer is its sign and its numeral.
LEMMA IntegerWritten ==
    ASSUME Laws!PowersOfTen(Nat), Laws!Parameters, NEW d \in Laws!Decimals, d.exp >= 0, NEW trim
    PROVE  \E whole : WrittenAs(Text!ToText(d, trim), d, whole, << >>, 0)
<1> DEFINE v == Laws!Val(d)  e == d.exp  q == 10^e  n == v * q
           whole == Text!Numeral(Laws!Magnitude(n))
<1>1. v \in Int /\ e \in Nat /\ q \in Nat \ {0} /\ n \in Int
  <2>1. v \in Int /\ e \in Nat
    BY ValIs
  <2>2. q \in Nat \ {0}
    BY <2>1 DEF Laws!PowersOfTen
  <2> HIDE DEF v, q
  <2> QED BY <2>1, <2>2
<1>2. Laws!Rescale(d, 0).value = n
  <2>1. Laws!Magnitude(0 - e) = e
    BY <1>1 DEF Laws!Magnitude
  <2>2. ~(0 > e)
    BY <1>1
  <2>3. Laws!Rescale(d, 0) = Laws!New(n, 0)
    BY <2>1, <2>2, Zenon DEF Laws!Rescale
  <2> HIDE DEF n
  <2> QED BY <2>3 DEF Laws!New
<1>3. /\ Laws!Magnitude(n) \in Nat /\ Laws!Magnitude(n) = Laws!Magnitude(v) * q
      /\ n < 0 <=> v < 0
  <2> HIDE DEF v, q
  <2>1. v >= 0 => n >= 0
    BY <1>1
  <2>2. v < 0 => n < 0
    BY <1>1
  <2>3. -(v * q) = (-v) * q
    BY <1>1
  <2> QED BY <1>1, <2>1, <2>2, <2>3 DEF Laws!Magnitude
<1> HIDE DEF n, v, q
<1>4. whole \in Numeric /\ whole # << >> /\ Number(whole) = Laws!Magnitude(n)
  BY <1>3, NumeralIs
<1>5. Text!IntText(n) = SignText(d) \o whole
  <2>1. n < 0 => Text!IntText(n) = <<"-">> \o whole
    BY <1>1 DEF Text!IntText, Laws!Magnitude
  <2>2. ~(n < 0) => Text!IntText(n) = whole
    BY <1>1 DEF Text!IntText, Laws!Magnitude
  <2> HIDE DEF whole
  <2>3. << >> \o whole = whole
    BY <1>4, DigitsJoin
  <2> QED BY <1>3, <2>1, <2>2, <2>3 DEF SignText, v
<1>6. Text!ToText(d, trim) = SignText(d) \o whole
  <2>1. Text!ToText(d, trim) = Text!IntText(Text!Rescale(d, 0).value)
    BY Zenon DEF Text!ToText
  <2> QED BY <1>2, <1>5, <2>1, SharedIs
<1> HIDE DEF whole
<1>7. (SignText(d) \o whole) \o Pointed(<< >>) = SignText(d) \o whole /\ whole \o << >> = whole
      /\ << >> \in Numeric /\ Len(<< >>) = 0
  <2>1. SignText(d) \in Signs /\ << >> \in Numeric
    BY DEF SignText, Signs, Numeric
  <2>2. SignText(d) \o whole \in Front
    BY <1>4, <2>1, PartsAre
  <2> DEFINE s == SignText(d) \o whole
  <2> HIDE DEF s
  <2>3. s \o << >> = s
    <3>1. s \in Seq(Text!DigitSet \cup {"-"})
      BY <2>2 DEF s, Front
    <3> QED BY <3>1
  <2>4. whole \o << >> = whole
    BY <1>4, DigitsJoin
  <2> QED BY <2>1, <2>3, <2>4 DEF Pointed, s
<1>8. Full(d) = 0 /\ -Full(d) = 0 /\ d.exp - Full(d) = e
  <2>1. Full(d) = 0
    BY DEF Full
  <2> DEFINE o == Full(d)  o2 == -o
  <2>2. o \in Int /\ o <= 0 /\ 0 <= o
    BY <2>1
  <2> HIDE DEF o
  <2>3. o2 \in Int /\ o2 <= 0 /\ 0 <= o2
    BY <2>2
  <2>4. e - o = e
    BY <1>1, <2>2
  <2> HIDE DEF o2
  <2>5. o2 = 0
    BY <2>3
  <2> QED BY <2>1, <2>4, <2>5 DEF o, o2
<1>9. Number(whole) * 10^0 = Laws!Magnitude(v) * q
  <2>1. 10^0 = 1
    OBVIOUS
  <2> DEFINE a == Number(whole)
  <2>2. a \in Nat /\ a = Laws!Magnitude(v) * q
    BY <1>3, <1>4
  <2> HIDE DEF a
  <2>3. a * 1 = a
    BY <2>2
  <2> QED BY <2>1, <2>2, <2>3 DEF a
<1>10. WrittenAs(Text!ToText(d, trim), d, whole, << >>, 0)
  BY <1>4, <1>6, <1>7, <1>8, <1>9 DEF WrittenAs, v, q
<1> QED BY <1>10

-----------------------------------------------------------------------------
(* A number as text, and read again. *)

\* Three parts of a number.
LEMMA PartsJoin ==
    ASSUME NEW sign \in Signs, NEW whole \in Numeric, NEW frac \in Numeric
    PROVE  sign \o (whole \o Pointed(frac)) = (sign \o whole) \o Pointed(frac)
<1>1. sign \in Seq(Chars) /\ whole \in Seq(Chars) /\ frac \in Seq(Chars) /\ "." \in Chars
  <2>1. << >> \in Seq(Chars) /\ <<"-">> \in Seq(Chars) /\ "." \in Chars
    BY DEF Chars
  <2>2. whole \in Seq(Chars) /\ frac \in Seq(Chars)
    BY DEF Chars, Numeric
  <2> QED BY <2>1, <2>2 DEF Signs
<1>2. Pointed(frac) \in Seq(Chars)
  <2> DEFINE c == "."  C == Chars
  <2> HIDE DEF c, C
  <2>1. c \in C /\ frac \in Seq(C)
    BY <1>1 DEF c, C
  <2>2. <<c>> \o frac \in Seq(C) /\ << >> \in Seq(C)
    BY <2>1
  <2> QED BY <2>2 DEF Pointed, c, C
<1> DEFINE C == Chars  after == Pointed(frac)
<1> HIDE DEF C, after
<1>3. sign \in Seq(C) /\ whole \in Seq(C) /\ after \in Seq(C)
  BY <1>1, <1>2 DEF C, after
<1>4. (sign \o whole) \o after = sign \o (whole \o after)
  BY <1>3
<1> QED BY <1>4 DEF after

\* The text of a fraction is its sign and its numeral, cut at the point.
LEMMA FractionWritten ==
    ASSUME Laws!PowersOfTen(Nat), Laws!Parameters, NEW d \in Laws!Decimals, d.exp < 0,
           NEW trim \in BOOLEAN
    PROVE  \E whole, frac, j : /\ WrittenAs(Text!ToText(d, trim), d, whole, frac, j)
                               /\ ~trim => j = 0
<1> DEFINE v == Laws!Val(d)  m == Laws!Magnitude(v)  e == d.exp
           str == Text!Numeral(m)
           pad == Padded(str, e)
           point == Len(pad) + e
           digits == SubSeq(pad, point + 1, Len(pad))
           whole == SubSeq(pad, 1, point)
           frac == IF trim THEN Text!Trimmed(digits) ELSE digits
           number == whole \o Pointed(frac)
<1>1. v \in Int /\ e \in Int /\ m \in Nat
  BY ValIs DEF Laws!Magnitude
<1>2. Text!ToText(d, trim) = IF Text!IsNegative(d) THEN <<"-">> \o number ELSE number
  <2> DEFINE str2 == Text!Numeral(Text!Magnitude(Text!Val(d)))
             pad2 == Padded(str2, d.exp)
             digits2 == SubSeq(pad2, Len(pad2) + d.exp + 1, Len(pad2))
             number2 == SubSeq(pad2, 1, Len(pad2) + d.exp)
                        \o Pointed(IF trim THEN Text!Trimmed(digits2) ELSE digits2)
  <2>1. ~(d.exp >= 0)
    BY <1>1
  <2>2. Text!ToText(d, trim) = IF Text!IsNegative(d) THEN <<"-">> \o number2 ELSE number2
    BY <2>1, Zenon DEF Text!ToText, Padded, Pointed
  <2>3. str2 = str
    BY SharedIs
  <2> HIDE DEF str2, str
  <2>4. number2 = number
    BY <2>3, Zenon
  <2> QED BY <2>2, <2>4, Zenon
<1>3. Text!IsNegative(d) <=> v < 0
  <2>1. Text!IsNegative(d) <=> Laws!IsNegative(d)
    BY SharedIs
  <2> QED BY <1>1, <2>1 DEF Laws!IsNegative, Laws!Sign, Laws!SignOf
<1> HIDE DEF v
<1>4. str \in Numeric /\ Number(str) = m
  BY <1>1, NumeralIs
<1> HIDE DEF str
<1>5. pad \in Numeric /\ Number(pad) = m /\ Len(pad) \in Nat /\ point > 0
  BY <1>1, <1>4, PaddedIs
<1> HIDE DEF pad, m
<1>6. point \in 0..Len(pad) /\ Len(pad) - point = -e
  BY <1>1, <1>5
<1> HIDE DEF point
<1>7. /\ whole \in Numeric /\ Len(whole) = point /\ digits \in Numeric /\ Len(digits) = -e
      /\ pad = whole \o digits
  <2>1. pad \in Seq(Text!DigitSet)
    BY <1>5 DEF Numeric
  <2>3. point \in 0..Len(pad)
    BY <1>6
  <2>2. /\ whole \in Seq(Text!DigitSet) /\ Len(whole) = point
        /\ digits \in Seq(Text!DigitSet) /\ Len(digits) = Len(pad) - point
        /\ pad = whole \o digits
    <3> DEFINE D == Text!DigitSet
    <3> HIDE DEF D
    <3>1. pad \in Seq(D)
      BY <2>1 DEF D
    <3> QED BY <2>3, <3>1, Cutting DEF D
  <2> HIDE DEF whole, digits
  <2> QED BY <1>6, <2>2 DEF Numeric
<1> HIDE DEF whole, digits
<1>8. \E j \in Nat : frac \in Numeric /\ digits = frac \o Text!Zeros(j) /\ (~trim => j = 0)
  <2>1. CASE trim
    <3>1. PICK j \in Nat : /\ Text!Trimmed(digits) \in Numeric
                           /\ digits = Text!Trimmed(digits) \o Text!Zeros(j)
      BY <1>7, TrimmedIs
    <3> QED BY <2>1, <3>1
  <2>2. CASE ~trim
    <3>1. Text!Zeros(0) = << >>
      BY DEF Text!Zeros
    <3>2. digits \o << >> = digits
      BY <1>7, DigitsJoin
    <3> QED BY <1>7, <2>2, <3>1, <3>2
  <2> QED BY <2>1, <2>2
<1> HIDE DEF frac
<1>9. PICK j \in Nat : frac \in Numeric /\ digits = frac \o Text!Zeros(j) /\ (~trim => j = 0)
  BY <1>8
<1> DEFINE z == Text!Zeros(j)
<1>10. z \in Numeric /\ Len(z) = j /\ Number(z) = 0
  BY NoughtsAre
<1> HIDE DEF z
<1>11. /\ Len(frac) + j = -e /\ Len(frac) \in Nat
       /\ whole \o frac \in Numeric /\ (whole \o frac) \o z = pad
  <2>1. Len(frac \o z) = Len(frac) + Len(z) /\ Len(frac) \in Nat /\ whole \o frac \in Numeric
    BY <1>7, <1>9, <1>10, DigitsJoin
  <2>2. (whole \o frac) \o z = whole \o (frac \o z)
    <3> DEFINE D == Text!DigitSet
    <3> HIDE DEF D
    <3>1. whole \in Seq(D) /\ frac \in Seq(D) /\ z \in Seq(D)
      BY <1>7, <1>9, <1>10 DEF Numeric, D
    <3> QED BY <3>1
  <2>3. digits = frac \o z
    BY <1>9 DEF z
  <2> QED BY <1>7, <1>10, <2>1, <2>2, <2>3
<1> DEFINE w == Number(whole \o frac)  q == 10^j
<1>12. w \in Nat /\ q \in Nat \ {0} /\ m = w * q
  <2>1. Number((whole \o frac) \o z) = w * 10^Len(z) + Number(z) /\ w \in Nat
    BY <1>10, <1>11, NumberJoins, Zenon
  <2>2. q \in Nat \ {0}
    BY DEF Laws!PowersOfTen
  <2> HIDE DEF w, q
  <2>3. m = w * q + 0
    BY <1>5, <1>10, <1>11, <2>1 DEF q
  <2>4. w * q + 0 = w * q
    BY <2>1, <2>2
  <2> QED BY <2>1, <2>2, <2>3, <2>4
<1>13. Text!ToText(d, trim) = (SignText(d) \o whole) \o Pointed(frac)
  <2>1. SignText(d) \in Signs
    BY DEF SignText, Signs
  <2>2. SignText(d) \o number = (SignText(d) \o whole) \o Pointed(frac)
    BY <1>7, <1>9, <2>1, PartsJoin, Zenon
  <2>3. v < 0 => SignText(d) = <<"-">>
    BY DEF SignText, v
  <2>4. ~(v < 0) => SignText(d) = << >>
    BY DEF SignText, v
  <2>5. << >> \o number = number
    <3>1. number \in Seq(Chars)
      <4>1. whole \in Seq(Chars) /\ frac \in Seq(Chars) /\ "." \in Chars
        BY <1>7, <1>9 DEF Numeric, Chars
      <4> DEFINE c == "."  C == Chars
      <4> HIDE DEF c, C, number
      <4>2. c \in C /\ frac \in Seq(C) /\ whole \in Seq(C)
        BY <4>1 DEF c, C
      <4>3. <<c>> \o frac \in Seq(C) /\ << >> \in Seq(C)
        BY <4>2
      <4>4. Pointed(frac) \in Seq(C)
        BY <4>3 DEF Pointed, c
      <4>5. whole \o Pointed(frac) \in Seq(C)
        BY <4>2, <4>4
      <4> QED BY <4>5 DEF number, C
    <3> QED BY <3>1, Joins, Zenon
  <2> HIDE DEF number
  <2> QED BY <1>2, <1>3, <2>2, <2>3, <2>4, <2>5, Zenon
<1>14. whole # << >>
  BY <1>5, <1>6, <1>7 DEF point
<1>15. Full(d) = e /\ -Full(d) = -e
  BY <1>1 DEF Full
<1>16. w * q = Laws!Magnitude(Laws!Val(d)) * 10^(d.exp - Full(d))
  <2>1. d.exp - Full(d) = 0
    BY <1>1, <1>15
  <2>2. 10^0 = 1 /\ m * 1 = m
    BY <1>1
  <2> QED BY <1>12, <2>1, <2>2 DEF m, v
<1>17. WrittenAs(Text!ToText(d, trim), d, whole, frac, j)
  BY <1>7, <1>9, <1>11, <1>13, <1>14, <1>15, <1>16 DEF WrittenAs
<1> QED BY <1>9, <1>17

\* Numbers that are as many units are equal.
LEMMA EqualIs ==
    ASSUME Laws!PowersOfTen(Nat), Laws!Parameters, NEW d \in Laws!Decimals, NEW d2 \in Laws!Decimals,
           NEW u \in Int, u <= d.exp, u <= d2.exp, Laws!At(d, u) = Laws!At(d2, u)
    PROVE  Laws!Equal(d, d2)
<1>1. /\ Laws!At(d, u) \in Int
      /\ Laws!Cmp(d, d2) < 0 <=> Laws!At(d, u) < Laws!At(d2, u)
      /\ Laws!Cmp(d, d2) > 0 <=> Laws!At(d, u) > Laws!At(d2, u)
  BY CmpIs
<1>2. Laws!Cmp(d, d2) \in {-1, 0, 1}
  BY DEF Laws!Cmp, Laws!SignOf
<1> DEFINE c == Laws!Cmp(d, d2)
<1>3. ~(c < 0) /\ ~(c > 0)
  <2> DEFINE a == Laws!At(d, u)
  <2> HIDE DEF a, c
  <2>1. ~(a < a) /\ ~(a > a)
    BY <1>1 DEF a
  <2> QED BY <1>1, <2>1 DEF a, c
<1> HIDE DEF c
<1>4. c = 0
  BY <1>2, <1>3 DEF c
<1> QED BY <1>4 DEF Laws!Equal, c

\* A number of the text and SQL methods is one of the arithmetic, and no error.
LEMMA TextIs ==
    ASSUME Text!Parameters, NEW d \in Text!Decimals
    PROVE  /\ TextParameters /\ d # Refused /\ d \in Laws!Decimals
           /\ d.exp \in Text!MinExp..Text!MaxExp /\ d.exp \in Int
<1>1. /\ Refused \notin Int /\ Refused \notin [value : Int \cup {Nil}, exp : Int]
      /\ Text!MinExp \in Int /\ Text!MaxExp \in Int /\ -3..2 \subseteq Text!MinExp..Text!MaxExp
  BY DEF Text!Parameters
<1>2. 0 \in Text!MinExp..Text!MaxExp
  <2>1. 0 \in -3..2
    OBVIOUS
  <2> QED BY <1>1, <2>1
<1>3. d \in [value : Int \cup {Nil}, exp : Int] /\ d.exp \in Text!MinExp..Text!MaxExp
  <2> DEFINE lo == Text!MinExp  hi == Text!MaxExp
  <2> HIDE DEF lo, hi
  <2>1. d \in [value : Int \cup {Nil}, exp : lo..hi] /\ lo \in Int /\ hi \in Int
    BY <1>1 DEF Text!Decimals, lo, hi
  <2>2. d \in [value : Int \cup {Nil}, exp : Int] /\ d.exp \in lo..hi
    BY <2>1
  <2> QED BY <2>2 DEF lo, hi
<1> QED BY <1>1, <1>2, <1>3 DEF Laws!Decimals, TextParameters

\* A number in full: its exponent in range, no more digits than it has places.
Reading(text, d) ==
    /\ Text!NewFromString(text) \in Text!Decimals
    /\ Text!NewFromString(text).value \in Int
    /\ Laws!Equal(Text!NewFromString(text), d)

\* Whatever number is written, it is read back as the same.
LEMMA WrittenRead ==
    ASSUME Laws!PowersOfTen(Nat), Laws!Parameters, Text!Parameters, NEW d \in Text!Decimals,
           NEW text, NEW whole, NEW frac, NEW j, WrittenAs(text, d, whole, frac, j)
    PROVE  Reading(text, d) /\ (j = 0 => Text!NewFromString(text) = Laws!Rescale(d, Full(d)))
<1> DEFINE v == Laws!Val(d)  sign == SignText(d)  w == Number(whole \o frac)
           f == Full(d)  e == -Len(frac)  q == 10^j  q2 == 10^(d.exp - f)  r == Text!New(WithSign(sign, w), e)
<1>1. /\ d \in Laws!Decimals /\ d.exp \in Int /\ d.exp \in Text!MinExp..Text!MaxExp /\ TextParameters
      /\ v \in Int
  BY TextIs, ValIs
<1>2. /\ whole \in Numeric /\ whole # << >> /\ frac \in Numeric /\ j \in Nat
      /\ text = (sign \o whole) \o Pointed(frac)
      /\ Len(frac) + j = -f /\ w * q = Laws!Magnitude(v) * q2
  BY DEF WrittenAs
<1>3. /\ f \in Int /\ f <= 0 /\ f <= d.exp /\ f \in Text!MinExp..Text!MaxExp
  BY <1>1 DEF Full, TextParameters
<1>4. Len(frac) \in Nat /\ w \in Nat
  BY <1>2, PartsAre, NumberIs DEF Signs, Numeric
<1>5. q \in Nat \ {0} /\ q2 \in Nat \ {0}
  <2>1. d.exp - f \in Nat
    BY <1>1, <1>3
  <2> HIDE DEF f
  <2> QED BY <1>2, <2>1 DEF Laws!PowersOfTen
<1> HIDE DEF f
<1>6. e \in Int /\ e = f + j /\ e \in Text!MinExp..Text!MaxExp /\ f <= e
  <2>1. e \in Int /\ e = f + j /\ e <= 0 /\ f <= e
    BY <1>2, <1>3, <1>4
  <2> HIDE DEF e
  <2> QED BY <1>1, <1>3, <2>1 DEF TextParameters
<1>7. Text!NewFromString(text) = r
  <2>1. sign \in Signs
    BY DEF SignText, Signs
  <2> HIDE DEF sign
  <2> QED BY <1>1, <1>2, <1>6, <2>1, ReadBack
<1>8. WithSign(sign, w) \in Int /\ WithSign(sign, w) * q = v * q2
  <2>1. v < 0 => WithSign(sign, w) = -w /\ Laws!Magnitude(v) = -v
    BY DEF WithSign, SignText, v, Laws!Magnitude
  <2>2. ~(v < 0) => WithSign(sign, w) = w /\ Laws!Magnitude(v) = v
    BY DEF WithSign, SignText, v, Laws!Magnitude
  <2> HIDE DEF sign, w, v, q, q2
  <2>3. CASE v < 0
    <3>1. w * q = (-v) * q2
      BY <1>2, <2>1, <2>3
    <3>2. (-w) * q = -(w * q) /\ (-v) * q2 = -(v * q2) /\ w * q \in Int /\ v * q2 \in Int
      BY <1>1, <1>4, <1>5
    <3>3. (-w) * q = v * q2
      BY <3>1, <3>2
    <3> QED BY <1>4, <2>1, <2>3, <3>3
  <2>4. CASE ~(v < 0)
    BY <1>2, <1>4, <2>2, <2>4
  <2> QED BY <2>3, <2>4
<1> DEFINE s == WithSign(sign, w)
<1> HIDE DEF s, v, e, q, q2
<1>9. r = Laws!New(s, e)
  BY SharedIs DEF s, e
<1>10. /\ r \in Laws!Decimals /\ r.value = s /\ r.exp = e
       /\ Laws!At(r, f) = s * 10^(e - f) /\ Laws!At(d, f) = v * 10^(d.exp - f)
  <2>1. s \in Int
    BY <1>8 DEF s
  <2> HIDE DEF r
  <2> QED BY <1>3, <1>6, <1>9, <2>1, NewIs, AtNew DEF Laws!At, v
<1>11. e - f = j
  BY <1>2, <1>3, <1>6
<1>12. Laws!At(r, f) = Laws!At(d, f)
  BY <1>8, <1>10, <1>11 DEF q, q2, s
<1> HIDE DEF r
<1>13. Laws!Equal(r, d)
  BY <1>1, <1>3, <1>6, <1>10, <1>12, EqualIs
<1>14. r \in Text!Decimals /\ r.value \in Int
  <2>1. r = [value |-> s, exp |-> e] /\ s \in Int
    BY <1>8, <1>9 DEF Laws!New, s
  <2> QED BY <1>6, <2>1 DEF Text!Decimals
<1>15. ASSUME j = 0 PROVE r = Laws!Rescale(d, f)
  <2>1. e = f /\ q = 1
    BY <1>3, <1>6, <1>15 DEF q
  <2>2. s = v * q2
    <3>1. s * 1 = s /\ s * q = v * q2
      BY <1>8 DEF s
    <3> QED BY <2>1, <3>1
  <2>3. ~(f > d.exp) /\ Laws!Magnitude(f - d.exp) = d.exp - f
    BY <1>1, <1>3 DEF Laws!Magnitude
  <2>4. Laws!Rescale(d, f) = Laws!New(v * 10^Laws!Magnitude(f - d.exp), f)
    BY <2>3, Zenon DEF Laws!Rescale, v
  <2> QED BY <1>9, <2>1, <2>2, <2>3, <2>4 DEF q2
<1> QED BY <1>7, <1>13, <1>14, <1>15 DEF Reading, f

\* Its text, with or without the trailing zeros.
LEMMA TextRead ==
    ASSUME Laws!PowersOfTen(Nat), Laws!Parameters, Text!Parameters, NEW d \in Text!Decimals,
           NEW trim \in BOOLEAN
    PROVE  \E whole, frac, j : /\ WrittenAs(Text!ToText(d, trim), d, whole, frac, j)
                               /\ ~trim => j = 0
                               /\ d.exp >= 0 => frac = << >>
                               /\ Reading(Text!ToText(d, trim), d)
                               /\ ~trim => Text!NewFromString(Text!ToText(d, trim))
                                              = Laws!Rescale(d, Full(d))
<1>1. d \in Laws!Decimals /\ d.exp \in Int
  BY TextIs
<1>2. \E whole, frac, j : /\ WrittenAs(Text!ToText(d, trim), d, whole, frac, j)
                          /\ ~trim => j = 0
                          /\ d.exp >= 0 => frac = << >>
  <2>1. CASE d.exp >= 0
    BY <1>1, <2>1, IntegerWritten
  <2>2. CASE d.exp < 0
    BY <1>1, <2>2, FractionWritten
  <2> QED BY <1>1, <2>1, <2>2
<1>3. PICK whole, frac, j : /\ WrittenAs(Text!ToText(d, trim), d, whole, frac, j)
                            /\ ~trim => j = 0
                            /\ d.exp >= 0 => frac = << >>
  BY <1>2
<1>4. /\ Reading(Text!ToText(d, trim), d)
      /\ j = 0 => Text!NewFromString(Text!ToText(d, trim)) = Laws!Rescale(d, Full(d))
  BY <1>3, WrittenRead
<1> QED BY <1>3, <1>4

-----------------------------------------------------------------------------
(* JSON, and what comes back of every form. *)

\* A text without its quotes.
Bare(text) == Text!FoldLeft(LAMBDA kept, c : IF c \in {"q"} THEN kept ELSE Append(kept, c), << >>, text)

\* It keeps the other characters one after the other.
LEMMA BareSteps ==
    ASSUME NEW S, NEW s \in Seq(S)
    PROVE  \E so : /\ so[0] = << >>
                   /\ \A k \in 1..Len(s) :
                         so[k] = IF s[k] = "q" THEN so[k - 1] ELSE Append(so[k - 1], s[k])
                   /\ so[Len(s)] = Bare(s)
<1> DEFINE n == Len(s)
           P(iter) == iter = [t \in SUBSET (DOMAIN s) |->
                IF t = {} THEN << >>
                ELSE IF s[Text!Max(t)] \in {"q"} THEN iter[t \ {Text!Max(t)}]
                     ELSE Append(iter[t \ {Text!Max(t)}], s[Text!Max(t)])]
<1>1. n \in Nat /\ DOMAIN s = 1..n
  OBVIOUS
<1>2. Bare(s) = (CHOOSE iter : P(iter))[DOMAIN s]
  BY Zenon DEF Bare, Text!FoldLeft, Text!MapThenFoldSet
<1>3. \A iter : P(iter) <=> FoldOf("bare", << >>, s, 1..n, iter)
  <2>1. \A t : Text!Max(t) = Laws!Max(t)
    BY DEF Text!Max, Laws!Max
  <2> QED BY <1>1, <2>1 DEF FoldOf, Joined
<1>4. Bare(s) = Folded("bare", << >>, s, n)
  <2>1. (CHOOSE iter : P(iter)) = CHOOSE iter : FoldOf("bare", << >>, s, 1..n, iter)
    <3> HIDE DEF P
    <3> QED BY <1>3
  <2> QED BY <1>1, <1>2, <2>1 DEF Folded
<1>5. PICK so : Steps(so, "bare", << >>, s, n)
  <2> HIDE DEF n
  <2> QED BY <1>1, FoldSteps
<1>6. /\ so[0] = << >>
      /\ \A k \in 1..n : so[k] = Joined("bare", so[k - 1], s[k])
      /\ so[n] = Folded("bare", << >>, s, n)
  BY <1>5 DEF Steps
<1>7. \A k \in 1..n : so[k] = IF s[k] = "q" THEN so[k - 1] ELSE Append(so[k - 1], s[k])
  BY <1>6 DEF Joined
<1> QED BY <1>4, <1>6, <1>7

Quoted(s) == <<"q">> \o s \o <<"q">>

\* Quotes around a text.
LEMMA QuotedIs ==
    ASSUME NEW S, NEW s \in Seq(S), NEW c
    PROVE  LET t == <<c>> \o s \o <<c>>
           IN  /\ Len(t) = Len(s) + 2 /\ Len(s) \in Nat /\ t \in Seq(S \cup {c})
               /\ t[1] = c /\ t[Len(s) + 2] = c /\ \A k \in 1..Len(s) : t[1 + k] = s[k]
               /\ Head(t) = c /\ SubSeq(t, 2, Len(t) - 1) = s
<1> DEFINE C == S \cup {c}  a == <<c>> \o s  t == a \o <<c>>
<1>1. c \in C /\ s \in Seq(C) /\ <<c>> \in Seq(C)
  OBVIOUS
<1> HIDE DEF C
<1>2. /\ a \in Seq(C) /\ Len(a) = 1 + Len(s) /\ a[1] = c /\ Len(s) \in Nat
      /\ \A k \in 1..Len(s) : a[1 + k] = s[k]
  BY <1>1, OneBefore
<1> HIDE DEF a
<1>3. t \in Seq(C) /\ Len(t) = Len(a) + 1 /\ t[Len(a) + 1] = c /\ \A k \in 1..Len(a) : t[k] = a[k]
  BY <1>1, <1>2
<1> HIDE DEF t
<1>4. Len(t) = Len(s) + 2 /\ Len(a) + 1 = Len(s) + 2 /\ 1 \in 1..Len(a)
  BY <1>2, <1>3
<1>5. \A k \in 1..Len(s) : 1 + k \in 1..Len(a) /\ t[1 + k] = s[k]
  BY <1>2, <1>3
<1>6. t[1] = c /\ t[Len(s) + 2] = c
  BY <1>2, <1>3, <1>4
<1>7. Head(t) = c
  BY <1>2, <1>3, <1>4, <1>6
<1>8. SubSeq(t, 2, Len(t) - 1) = s
  <2> DEFINE n == Len(s)  u == SubSeq(t, 2, Len(t) - 1)
  <2>1. Len(t) - 1 = n + 1 /\ n \in Nat /\ Len(t) = n + 2
    BY <1>2, <1>4
  <2>2. u \in Seq(C) /\ Len(u) = n /\ \A k \in 1..n : u[k] = t[1 + k]
    <3> HIDE DEF n
    <3> QED BY <1>3, <2>1
  <2> HIDE DEF u
  <2>3. u \in Seq(C) /\ s \in Seq(C) /\ Len(u) = Len(s) /\ \A k \in 1..Len(s) : u[k] = s[k]
    BY <1>1, <1>5, <2>2
  <2>4. u = s
    BY <2>3
  <2> QED BY <2>4 DEF u
<1> QED BY <1>2, <1>3, <1>4, <1>5, <1>6, <1>7, <1>8 DEF t, a, C

\* A text without quotes stays itself, and loses those around it.
LEMMA BareIs ==
    ASSUME NEW S, "q" \notin S, NEW s \in Seq(S)
    PROVE  Bare(s) = s /\ Bare(Quoted(s)) = s
<1> DEFINE n == Len(s)  First(k) == SubSeq(s, 1, k)
<1>1. /\ n \in Nat /\ First(0) = << >> /\ First(n) = s /\ \A k \in 1..n : s[k] # "q"
      /\ \A k \in 0..n : k + 1 <= n => First(k + 1) = Append(First(k), s[k + 1])
  <2>1. n \in Nat /\ \A k \in 1..n : s[k] # "q"
    OBVIOUS
  <2>2. SubSeq(s, 1, 0) = << >> /\ SubSeq(s, 1, n) = s
    OBVIOUS
  <2>3. \A k \in 0..n : k + 1 <= n => First(k + 1) = Append(First(k), s[k + 1])
    BY Cutting
  <2> QED BY <2>1, <2>2, <2>3
<1> HIDE DEF First
<1>2. Bare(s) = s
  <2>1. PICK so : /\ so[0] = << >>
                  /\ \A k \in 1..n :
                        so[k] = IF s[k] = "q" THEN so[k - 1] ELSE Append(so[k - 1], s[k])
                  /\ so[n] = Bare(s)
    BY BareSteps
  <2> HIDE DEF n
  <2> DEFINE G == {k \in 0..n : so[k] = First(k)}
  <2>2. 0 \in G
    BY <1>1, <2>1
  <2>3. ASSUME NEW k \in 0..n, k \in G, k + 1 <= n PROVE k + 1 \in G
    <3>1. k + 1 \in 1..n /\ (k + 1) - 1 = k /\ k + 1 \in 0..n
      BY <1>1, <2>3
    <3>2. so[k + 1] = Append(so[k], s[k + 1])
      BY <1>1, <2>1, <3>1
    <3>3. so[k + 1] = First(k + 1)
      BY <1>1, <2>3, <3>2
    <3> QED BY <3>1, <3>3
  <2>4. 0..n \subseteq G
    <3> HIDE DEF G
    <3> QED BY <1>1, <2>2, <2>3, UpTo
  <2> QED BY <1>1, <2>1, <2>4
<1>3. Bare(Quoted(s)) = s
  <2> DEFINE t == Quoted(s)
  <2>1. /\ Len(t) = n + 2 /\ t \in Seq(S \cup {"q"}) /\ t[1] = "q" /\ t[n + 2] = "q"
        /\ \A k \in 1..n : t[1 + k] = s[k]
    BY QuotedIs DEF Quoted
  <2> HIDE DEF t
  <2>2. PICK so : /\ so[0] = << >>
                  /\ \A k \in 1..Len(t) :
                        so[k] = IF t[k] = "q" THEN so[k - 1] ELSE Append(so[k - 1], t[k])
                  /\ so[Len(t)] = Bare(t)
    BY <2>1, BareSteps
  <2> HIDE DEF n
  <2> DEFINE G == {k \in 0..n : so[1 + k] = First(k)}
  <2>3. 0 \in G
    <3>1. 1 \in 1..Len(t) /\ 1 - 1 = 0 /\ 1 + 0 = 1 /\ 0 \in 0..n
      BY <1>1, <2>1
    <3>2. so[1] = so[0]
      BY <2>1, <2>2, <3>1
    <3> QED BY <1>1, <2>2, <3>1, <3>2
  <2>4. ASSUME NEW k \in 0..n, k \in G, k + 1 <= n PROVE k + 1 \in G
    <3>1. /\ k + 1 \in 1..n /\ 1 + (k + 1) \in 1..Len(t) /\ (1 + (k + 1)) - 1 = 1 + k
          /\ k + 1 \in 0..n
      BY <1>1, <2>1, <2>4
    <3>2. t[1 + (k + 1)] = s[k + 1] /\ s[k + 1] # "q"
      BY <1>1, <2>1, <3>1
    <3>3. so[1 + (k + 1)] = Append(so[1 + k], s[k + 1])
      BY <2>2, <3>1, <3>2
    <3>4. so[1 + (k + 1)] = First(k + 1)
      BY <1>1, <2>4, <3>3
    <3> QED BY <3>1, <3>4
  <2>5. 0..n \subseteq G
    <3> HIDE DEF G
    <3> QED BY <1>1, <2>3, <2>4, UpTo
  <2>6. so[n + 2] = so[1 + n]
    <3>1. n + 2 \in 1..Len(t) /\ (n + 2) - 1 = 1 + n
      BY <1>1, <2>1
    <3> QED BY <2>1, <2>2, <3>1
  <2>7. so[1 + n] = s
    BY <1>1, <2>5
  <2> QED BY <2>1, <2>2, <2>6, <2>7 DEF t
<1> QED BY <1>2, <1>3

\* What String writes.
LEMMA StringIs ==
    ASSUME Laws!PowersOfTen(Nat), Laws!Parameters, Text!Parameters, NEW d \in Text!Decimals
    PROVE  /\ Text!String(d) \in Written /\ Text!String(d) # << >> /\ Text!String(d) # Nil
           /\ Text!String(d) # <<"null">> /\ Head(Text!String(d)) # "q"
           /\ Reading(Text!String(d), d)
<1> DEFINE s == Text!String(d)
<1>1. PICK whole, frac, j : WrittenAs(s, d, whole, frac, j)
  <2>1. TRUE \in BOOLEAN
    OBVIOUS
  <2> QED BY <2>1, TextRead DEF Text!String
<1>2. Reading(s, d)
  <2>1. TRUE \in BOOLEAN
    OBVIOUS
  <2> QED BY <2>1, TextRead DEF Text!String
<1> HIDE DEF s
<1> DEFINE front == SignText(d) \o whole  after == Pointed(frac)
<1>3. front \in Front /\ front # << >> /\ s = front \o after /\ frac \in Numeric
  <2>1. SignText(d) \in Signs /\ whole \in Numeric /\ whole # << >>
    BY <1>1 DEF WrittenAs, SignText, Signs
  <2>2. front \in Front
    BY <1>1, <2>1, PartsAre DEF WrittenAs
  <2>3. front # << >>
    <3> DEFINE D == Text!DigitSet \cup {"-"}  sign == SignText(d)
    <3>1. sign \in Seq(D) /\ whole \in Seq(D)
      <4>1. << >> \in Seq(D) /\ <<"-">> \in Seq(D) /\ whole \in Seq(D)
        BY <2>1 DEF Numeric
      <4> QED BY <2>1, <4>1 DEF Signs
    <3> HIDE DEF D, sign
    <3>2. Len(sign \o whole) = Len(sign) + Len(whole) /\ Len(sign) \in Nat /\ Len(whole) \in Nat
          /\ Len(whole) # 0 /\ Len(<< >>) = 0
      BY <2>1, <3>1
    <3> QED BY <3>2 DEF sign
  <2> QED BY <1>1, <2>2, <2>3 DEF WrittenAs
<1> HIDE DEF front
<1>4. s \in Seq(Chars) /\ s # << >>
  <2>1. front \in Seq(Chars) /\ frac \in Seq(Chars) /\ "." \in Chars
    BY <1>3 DEF Front, Numeric, Chars
  <2> DEFINE c == "."  C == Chars
  <2> HIDE DEF c, C
  <2>2. c \in C /\ frac \in Seq(C) /\ front \in Seq(C)
    BY <2>1 DEF c, C
  <2>3. <<c>> \o frac \in Seq(C) /\ << >> \in Seq(C)
    BY <2>2
  <2>4. after \in Seq(C)
    BY <2>3 DEF Pointed, c
  <2> HIDE DEF after
  <2>5. front \o after \in Seq(C) /\ front \o after # << >>
    BY <1>3, <2>2, <2>4
  <2> QED BY <1>3, <2>5 DEF C
<1>5. s # Nil
  BY <1>4 DEF Text!Parameters, Chars
<1>6. Head(s) \in Chars
  BY <1>4
<1>7. "q" \notin Chars /\ "null" \notin Chars
  BY DigitsAre DEF Chars
<1>8. Head(<<"null">>) = "null"
  OBVIOUS
<1> QED BY <1>2, <1>4, <1>5, <1>6, <1>7, <1>8 DEF s, Written

\* Two numbers of the text methods, one read from a text, are the same.
LEMMA ReadIs ==
    ASSUME Text!Parameters, NEW d \in Text!Decimals, NEW text, Reading(text, d)
    PROVE  /\ Text!SameNumber(Text!NewFromString(text), d)
           /\ Text!NewFromString(text) # Refused
           /\ Text!Assigned(text).d = Text!NewFromString(text)
<1>1. Text!NewFromString(text) \in Text!Decimals /\ Laws!Equal(Text!NewFromString(text), d)
  BY DEF Reading
<1>2. d # Refused /\ Text!NewFromString(text) # Refused
  BY <1>1, TextIs
<1>3. Text!Equal(Text!NewFromString(text), d)
  BY <1>1, SharedIs
<1> QED BY <1>2, <1>3 DEF Text!SameNumber, Text!Assigned, Text!Stored, Text!Result

\* A number at another scale, if there is such a scale.
LEMMA Rescaled ==
    ASSUME Laws!PowersOfTen(Nat), Laws!Parameters, Text!Parameters, NEW d \in Text!Decimals,
           NEW e \in Text!MinExp..Text!MaxExp
    PROVE  Text!Rescale(d, e) \in Text!Decimals /\ Laws!Rescale(d, e) \in Text!Decimals
<1>1. d \in Laws!Decimals /\ d.exp \in Int /\ TextParameters
  BY TextIs
<1>2. e \in Int
  BY <1>1 DEF TextParameters
<1>3. \E w \in Int : Laws!Rescale(d, e) = Laws!New(w, e)
  <2> DEFINE u == IF d.exp >= e THEN e ELSE d.exp
  <2>1. u \in Int /\ u <= e /\ u <= d.exp
    BY <1>1, <1>2
  <2> HIDE DEF u
  <2> QED BY <1>1, <1>2, <2>1, RescaleCuts
<1>4. Laws!Rescale(d, e) \in Text!Decimals
  BY <1>3 DEF Laws!New, Text!Decimals
<1> QED BY <1>4, SharedIs

\* JSON with quotes is the text and its quotes.
LEMMA Unquoted ==
    ASSUME NEW s \in Written, s # << >>, Head(s) # "q"
    PROVE  /\ Text!UnquoteIfQuoted(Quoted(s)) = s /\ Text!UnquoteIfQuoted(s) = s
           /\ Quoted(s) # <<"null">>
           /\ Text!NewFromFormattedString(s, {"q"}) = Text!NewFromString(s)
           /\ Text!NewFromFormattedString(Quoted(s), {"q"}) = Text!NewFromString(s)
<1> DEFINE t == Quoted(s)
<1>1. /\ Len(t) = Len(s) + 2 /\ Len(s) \in Nat /\ t \in Seq(Chars \cup {"q"})
      /\ t[Len(s) + 2] = "q" /\ Head(t) = "q" /\ SubSeq(t, 2, Len(t) - 1) = s
  BY QuotedIs DEF Written, Quoted
<1>2. Len(s) # 0
  BY DEF Written
<1>3. Bare(s) = s /\ Bare(Quoted(s)) = s
  <2>1. "q" \notin Chars
    BY DigitsAre DEF Chars
  <2> QED BY <2>1, BareIs DEF Written
<1>4. /\ Text!NewFromFormattedString(s, {"q"}) = Text!NewFromString(Bare(s))
      /\ Text!NewFromFormattedString(t, {"q"}) = Text!NewFromString(Bare(t))
  BY Zenon DEF Text!NewFromFormattedString, Bare
<1> HIDE DEF t
<1>5. Text!Last(t) = "q"
  BY <1>1 DEF Text!Last
<1>6. Text!UnquoteIfQuoted(t) = s
  <2>1. Len(t) > 2
    BY <1>1, <1>2
  <2> QED BY <1>1, <1>5, <2>1 DEF Text!UnquoteIfQuoted
<1>7. Text!UnquoteIfQuoted(s) = s
  BY DEF Text!UnquoteIfQuoted
<1>8. t # <<"null">>
  BY <1>1, <1>2
<1> QED BY <1>3, <1>4, <1>6, <1>7, <1>8 DEF t

\* A number as JSON.
LEMMA JSONIs ==
    ASSUME Laws!PowersOfTen(Nat), Laws!Parameters, Text!Parameters, NEW d \in Text!Decimals
    PROVE  /\ Text!MarshalJSON(d) # <<"null">>
           /\ Text!SameNumber(Text!NewFromFormattedString(Text!MarshalJSON(d), {"q"}), d)
           /\ \A old : Text!SameNumber(Text!UnmarshalJSON(old, Text!MarshalJSON(d)).d, d)
<1> DEFINE s == Text!String(d)
<1>1. s \in Written /\ s # << >> /\ s # <<"null">> /\ Head(s) # "q" /\ Reading(s, d)
  BY StringIs
<1>2. Text!MarshalJSON(d) \in {s, Quoted(s)}
  BY DEF Text!MarshalJSON, Quoted
<1> HIDE DEF s
<1>3. Text!SameNumber(Text!NewFromString(s), d) /\ Text!Assigned(s).d = Text!NewFromString(s)
  BY <1>1, ReadIs
<1>4. /\ Text!UnquoteIfQuoted(Quoted(s)) = s /\ Text!UnquoteIfQuoted(s) = s
      /\ Quoted(s) # <<"null">>
      /\ Text!NewFromFormattedString(s, {"q"}) = Text!NewFromString(s)
      /\ Text!NewFromFormattedString(Quoted(s), {"q"}) = Text!NewFromString(s)
  BY <1>1, Unquoted
<1>5. \A old : \A t \in {s, Quoted(s)} : Text!UnmarshalJSON(old, t).d = Text!NewFromString(s)
  <2>1. ASSUME NEW old, NEW t \in {s, Quoted(s)}
        PROVE  Text!UnmarshalJSON(old, t) = Text!Assigned(s)
    <3>1. t # <<"null">> /\ Text!UnquoteIfQuoted(t) = s
      BY <1>1, <1>4
    <3> QED BY <3>1 DEF Text!UnmarshalJSON
  <2> QED BY <1>3, <2>1
<1> QED BY <1>1, <1>2, <1>3, <1>4, <1>5

\* What the variables of the text methods hold.
TextInv ==
    /\ dec \in Text!Decimals
    /\ nul.dec \in Text!Decimals /\ nul.valid \in BOOLEAN

\* So every number is read back from each of its forms.
LEMMA TripsRight ==
    ASSUME Laws!PowersOfTen(Nat), Laws!Parameters, Text!Parameters, TextInv
    PROVE  Text!RoundTrips
<1>1. dec \in Text!Decimals /\ nul.dec \in Text!Decimals /\ nul.valid \in BOOLEAN
  BY DEF TextInv
<1>2. \A d \in Text!Decimals :
         /\ Text!String(d) # << >> /\ Text!String(d) # Nil /\ Reading(Text!String(d), d)
         /\ Text!SameNumber(Text!NewFromString(Text!String(d)), d)
         /\ Text!NewFromString(Text!String(d)) # Refused
         /\ Text!Assigned(Text!String(d)).d = Text!NewFromString(Text!String(d))
  BY StringIs, ReadIs
<1>3. Text!RequireFromString(Text!String(dec)) = Text!NewFromString(Text!String(dec))
  BY <1>1, <1>2 DEF Text!RequireFromString
<1>4. Text!SameNumber(Text!NewFromString(Text!StringScaled(dec, -1)), Text!Rescale(dec, -1))
  <2>1. -1 \in Text!MinExp..Text!MaxExp
    <3>1. -1 \in -3..2
      OBVIOUS
    <3> QED BY <3>1 DEF Text!Parameters
  <2>2. Text!Rescale(dec, -1) \in Text!Decimals
    BY <1>1, <2>1, Rescaled
  <2> QED BY <1>2, <2>2 DEF Text!StringScaled
<1>5. Text!NewFromString(Text!ToText(dec, FALSE)) \in {Text!Rescale(dec, dec.exp), Text!Rescale(dec, 0)}
  <2>1. Text!NewFromString(Text!ToText(dec, FALSE)) = Laws!Rescale(dec, Full(dec))
    <3>1. FALSE \in BOOLEAN
      OBVIOUS
    <3> QED BY <1>1, <3>1, TextRead
  <2>2. Text!Rescale(dec, Full(dec)) = Laws!Rescale(dec, Full(dec))
    BY SharedIs
  <2>3. Full(dec) \in {dec.exp, 0}
    BY DEF Full
  <2> QED BY <2>1, <2>2, <2>3
<1>6. /\ Text!SameNumber(Text!NewFromFormattedString(Text!MarshalJSON(dec), {"q"}), dec)
      /\ \A old : Text!SameNumber(Text!UnmarshalJSON(old, Text!MarshalJSON(dec)).d, dec)
  BY <1>1, JSONIs
<1>7. \A old : Text!SameNumber(Text!UnmarshalText(old, Text!MarshalText(dec)).d, dec)
  BY <1>1, <1>2 DEF Text!UnmarshalText, Text!MarshalText
<1>8. Text!UnmarshalBinary(Text!New(7, -1), Text!MarshalBinary(dec)) =
         IF dec.value = Nil THEN Text!Result(Text!New(7, -1), TRUE) ELSE Text!Result(dec, FALSE)
  <2> DEFINE data == Text!MarshalBinary(dec)
  <2>1. data.exp = dec.exp /\ data.gob = IF dec.value = Nil THEN << >> ELSE <<dec.value>>
    BY DEF Text!MarshalBinary
  <2>2. <<dec.value>> # << >> /\ <<dec.value>>[1] = dec.value
    OBVIOUS
  <2>3. Text!New(dec.value, dec.exp) = dec
    BY <1>1 DEF Text!New, Text!Decimals
  <2> HIDE DEF data
  <2>4. CASE dec.value = Nil
    <3>1. data.gob = << >>
      BY <2>1, <2>4
    <3>2. Text!UnmarshalBinary(Text!New(7, -1), data) = Text!Result(Text!New(7, -1), TRUE)
      BY <3>1, Zenon DEF Text!UnmarshalBinary
    <3> QED BY <2>4, <3>2 DEF data
  <2>5. CASE dec.value # Nil
    <3>1. data.gob # << >> /\ data.gob[1] = dec.value
      BY <2>1, <2>2, <2>5
    <3>2. Text!UnmarshalBinary(Text!New(7, -1), data)
             = Text!Result(Text!New(data.gob[1], data.exp), FALSE)
      BY <3>1, Zenon DEF Text!UnmarshalBinary
    <3>3. Text!New(data.gob[1], data.exp) = dec
      BY <2>1, <2>3, <3>1
    <3> QED BY <2>5, <3>2, <3>3 DEF data
  <2> QED BY <2>4, <2>5
<1>9. /\ (Text!NullMarshalJSON(nul) = <<"null">>) = ~nul.valid
      /\ (Text!NullMarshalText(nul) = << >>) = ~nul.valid
      /\ (Text!NullValue(nul) = Nil) = ~nul.valid
  <2>1. Text!MarshalJSON(nul.dec) # <<"null">>
    BY <1>1, JSONIs
  <2>2. Text!String(nul.dec) # << >> /\ Text!String(nul.dec) # Nil
    BY <1>1, <1>2
  <2> QED BY <1>1, <2>1, <2>2
          DEF Text!NullMarshalJSON, Text!NullMarshalText, Text!NullValue, Text!MarshalText
<1> QED BY <1>1, <1>2, <1>3, <1>4, <1>5, <1>6, <1>7, <1>8, <1>9 DEF Text!RoundTrips

-----------------------------------------------------------------------------
(* Texts with a fixed number of places. *)

\* The conversion to the exponent's type.
LEMMA WrappedIs ==
    ASSUME Text!Parameters, NEW n \in Int
    PROVE  /\ Text!Wrap(n) \in Text!MinExp..Text!MaxExp /\ Text!Wrap(n) \in Int
           /\ n \in Text!MinExp..Text!MaxExp => Text!Wrap(n) = n
<1> DEFINE low == Text!MinExp  high == Text!MaxExp  size == 2^TextBits  m == n - low
<1>1. low \in Int /\ high \in Int /\ size = high - low + 1 /\ size \in Nat \ {0}
  <2>1. low \in Int /\ high \in Int /\ size = high - low + 1 /\ -3..2 \subseteq low..high
    BY DEF Text!Parameters
  <2> HIDE DEF low, high, size
  <2>2. 0 \in -3..2
    OBVIOUS
  <2>3. 0 \in low..high
    BY <2>1, <2>2
  <2> QED BY <2>1, <2>3
<1>2. Text!Wrap(n) = (m % size) + low
  BY DEF Text!Wrap
<1> HIDE DEF low, high, size
<1>3. m \in Int
  BY <1>1
<1>4. m % size \in Int /\ 0 <= m % size /\ m % size < size
  <2> HIDE DEF m
  <2> QED BY <1>1, <1>3, DivIs
<1>5. ASSUME n \in low..high PROVE m % size = m
  <2>1. 0 * size <= m /\ m < 0 * size + size /\ m - 0 * size = m
    BY <1>1, <1>5
  <2>2. 0 \in Int
    OBVIOUS
  <2> HIDE DEF m
  <2>3. m % size = m - 0 * size
    BY <1>1, <1>3, <2>1, <2>2, DivUnique
  <2> QED BY <2>1, <2>3
<1>6. Text!Wrap(n) \in low..high /\ Text!Wrap(n) \in Int
  <2> DEFINE k == m % size
  <2> HIDE DEF k, m
  <2>1. k \in Int /\ 0 <= k /\ k < size /\ Text!Wrap(n) = k + low
    BY <1>2, <1>4 DEF k
  <2> QED BY <1>1, <2>1
<1>7. ASSUME n \in low..high PROVE Text!Wrap(n) = n
  <2>1. Text!Wrap(n) = m + low
    BY <1>2, <1>5, <1>7
  <2> QED BY <1>1, <2>1
<1> QED BY <1>6, <1>7 DEF low, high

\* The places that are shown, and their exponents.
LEMMA PlacesAre ==
    ASSUME Text!Parameters, NEW places \in -1..2
    PROVE  /\ -places \in Text!MinExp..Text!MaxExp /\ -places - 1 \in Text!MinExp..Text!MaxExp
           /\ Text!Wrap(-places) = -places /\ Text!Wrap(-places - 1) = -places - 1
           /\ places \in Int /\ -places \in Int /\ -places - 1 \in Int /\ (-places - 1) + 1 = -places
<1>1. places \in Int /\ -places \in -3..2 /\ -places - 1 \in -3..2 /\ -places \in Int
      /\ -places - 1 \in Int /\ (-places - 1) + 1 = -places
  OBVIOUS
<1> DEFINE e == -places  e2 == -places - 1
<1>2. e \in Text!MinExp..Text!MaxExp /\ e2 \in Text!MinExp..Text!MaxExp
  <2> HIDE DEF e, e2
  <2>1. e \in -3..2 /\ e2 \in -3..2
    BY <1>1 DEF e, e2
  <2> QED BY <2>1 DEF Text!Parameters
<1>3. Text!Wrap(e) = e /\ Text!Wrap(e2) = e2
  <2>1. e \in Int /\ e2 \in Int
    BY <1>1
  <2> HIDE DEF e, e2
  <2> QED BY <1>2, <2>1, WrappedIs
<1> QED BY <1>1, <1>2, <1>3

\* A rounded number has the places it was rounded to.
LEMMA RoundPlaces ==
    ASSUME Laws!PowersOfTen(Nat), Laws!Parameters, Text!Parameters, NEW d \in Text!Decimals,
           NEW places \in -1..2
    PROVE  \A r \in {Text!Round(d, places), Text!RoundBank(d, places)} :
              r \in Text!Decimals /\ r.exp = -places
<1> DEFINE e == -places  e2 == -places - 1
<1>1. /\ e \in Text!MinExp..Text!MaxExp /\ e2 \in Text!MinExp..Text!MaxExp
      /\ Text!Wrap(e) = e /\ Text!Wrap(e2) = e2 /\ e \in Int /\ e2 \in Int /\ e2 + 1 = e
  BY PlacesAre
<1>2. Text!Wrap(-places) = e /\ Text!Wrap(-places - 1) = e2
  BY <1>1
<1> HIDE DEF e, e2
<1> DEFINE ret == Text!Rescale(d, e2)
           half == ret.value + IF ret.value < 0 THEN -5 ELSE 5
           floor == half \div 10
           up == IF floor < 0 /\ half % 10 # 0 THEN 1 ELSE 0
           r == Text!Round(d, places)
<1>3. ret.value \in Int /\ ret.exp = e2
  <2>1. d \in Laws!Decimals /\ d.exp \in Int
    BY TextIs
  <2> DEFINE u == IF d.exp >= e2 THEN e2 ELSE d.exp
  <2>2. u \in Int /\ u <= e2 /\ u <= d.exp
    BY <1>1, <2>1
  <2> HIDE DEF u
  <2>3. \E w \in Int : Laws!Rescale(d, e2) = Laws!New(w, e2)
    BY <1>1, <2>1, <2>2, RescaleCuts
  <2>4. ret = Laws!Rescale(d, e2)
    BY SharedIs
  <2> QED BY <2>3, <2>4 DEF Laws!New
<1>4. r = IF d.exp = e THEN d ELSE Text!New(floor + up, Text!Wrap(ret.exp + 1))
  <2>1. ret = Text!Rescale(d, Text!Wrap(-places - 1))
    BY <1>2
  <2> HIDE DEF ret
  <2>2. r = IF d.exp = Text!Wrap(-places) THEN d ELSE Text!New(floor + up, Text!Wrap(ret.exp + 1))
    BY <2>1, Zenon DEF Text!Round
  <2> QED BY <1>2, <2>2
<1> HIDE DEF ret, r
<1>5. floor + up \in Int
  <2>1. half \in Int /\ 10 \in Nat \ {0}
    BY <1>3
  <2> HIDE DEF half
  <2>2. floor \in Int
    BY <2>1, DivIs
  <2> HIDE DEF floor
  <2> QED BY <2>2
<1> HIDE DEF floor, up
<1>6. r \in Text!Decimals /\ r.exp = e
  <2>1. Text!New(floor + up, e) \in Text!Decimals /\ Text!New(floor + up, e).exp = e
    BY <1>1, <1>5 DEF Text!New, Text!Decimals
  <2>2. Text!Wrap(ret.exp + 1) = e
    BY <1>1, <1>3
  <2> QED BY <1>4, <2>1, <2>2
<1> DEFINE r2 == Text!RoundBank(d, places)
           step == IF Text!Sign(r) < 0 THEN 1 ELSE -1
<1>7. \/ r2 = r
      \/ Text!Val(r) % 2 # 0 /\ r2 = Text!New(r.value + step, r.exp)
  BY Zenon DEF Text!RoundBank, r
<1>8. r2 \in Text!Decimals /\ r2.exp = e
  <2>1. CASE r2 = r
    BY <1>6, <2>1
  <2>2. CASE Text!Val(r) % 2 # 0 /\ r2 = Text!New(r.value + step, r.exp)
    <3>1. r.value # Nil
      <4> SUFFICES ASSUME r.value = Nil PROVE FALSE
        OBVIOUS
      <4>1. Text!Val(r) = 0
        BY DEF Text!Val
      <4>2. 0 % 2 = 0
        OBVIOUS
      <4> QED BY <2>2, <4>1, <4>2
    <3>2. r.value \in Int
      BY <1>6, <3>1 DEF Text!Decimals
    <3>3. r.value + step \in Int
      BY <3>2
    <3> HIDE DEF step, r2
    <3> QED BY <1>1, <1>6, <2>2, <3>3 DEF Text!New, Text!Decimals
  <2> QED BY <1>7, <2>1, <2>2
<1> QED BY <1>6, <1>8 DEF r, e

\* A text with all its places: the point, and a sign only before a number.
LEMMA FixedWritten ==
    ASSUME Laws!PowersOfTen(Nat), Laws!Parameters, Text!Parameters, NEW d \in Text!Decimals,
           NEW places \in -1..2, d.exp = -places
    PROVE  LET text == Text!ToText(d, FALSE)
           IN  /\ IF places > 0 THEN Text!Index(text, ".") = Len(text) - places
                  ELSE "." \notin Text!ToSet(text)
               /\ Head(text) = "-" => Text!ToSet(text) \cap (Text!DigitSet \ {"0"}) # {}
               /\ Reading(text, d)
<1> DEFINE text == Text!ToText(d, FALSE)
<1>1. PICK whole, frac : /\ WrittenAs(text, d, whole, frac, 0)
                         /\ d.exp >= 0 => frac = << >>
                         /\ Reading(text, d)
  <2>1. FALSE \in BOOLEAN
    OBVIOUS
  <2> QED BY <2>1, TextRead
<1> HIDE DEF text
<1> DEFINE front == SignText(d) \o whole  v == Laws!Val(d)  all == whole \o frac
<1>2. /\ whole \in Numeric /\ whole # << >> /\ frac \in Numeric /\ SignText(d) \in Signs
      /\ text = front \o Pointed(frac) /\ Len(frac) + 0 = -Full(d)
      /\ Number(all) * 10^0 = Laws!Magnitude(v) * 10^(d.exp - Full(d))
  BY <1>1 DEF WrittenAs, SignText, Signs
<1>3. front \in Front /\ all \in Numeric /\ Len(frac) \in Nat /\ Len(front) \in Nat
  <2>2. front \in Front /\ all \in Numeric /\ Len(frac) \in Nat
    BY <1>2, PartsAre
  <2> QED BY <2>2 DEF Front
<1>4. \A k \in 1..Len(front) : front[k] # "."
  BY <1>3, DigitsAre DEF Front
<1> HIDE DEF front, all, v
<1>5. places > 0 => Len(frac) = places
  <2> SUFFICES ASSUME places > 0 PROVE Len(frac) = places
    OBVIOUS
  <2>1. Full(d) = -places
    BY DEF Full
  <2> QED BY <1>2, <1>3, <2>1
<1>6. ~(places > 0) => frac = << >>
  BY <1>1
<1>7. /\ text \in Seq(Chars)
      /\ \A k \in 1..Len(front) : k \in 1..Len(text) /\ text[k] = front[k]
      /\ \A k \in 1..Len(frac) : \E i \in 1..Len(text) : text[i] = frac[k]
      /\ IF frac = << >> THEN text = front
         ELSE Len(text) = Len(front) + 1 + Len(frac) /\ text[Len(front) + 1] = "."
  <2>1. CASE frac = << >>
    <3>1. text = front
      BY <1>2, <1>3, <2>1, Joins DEF Front, Pointed
    <3>2. front \in Seq(Chars)
      BY <1>3 DEF Front, Chars
    <3>3. Len(frac) = 0
      BY <2>1
    <3> QED BY <1>3, <2>1, <3>1, <3>2, <3>3
  <2>2. CASE frac # << >>
    <3> DEFINE i == Len(front) + 1
    <3>1. /\ text \in Written /\ Len(text) = i + Len(frac)
          /\ i \in 1..Len(text) /\ text[i] = "."
          /\ \A j \in 1..(i - 1) : text[j] = front[j]
          /\ SubSeq(text, i + 1, Len(text)) = frac
      <4>1. text = front \o (<<".">> \o frac)
        BY <1>2, <2>2 DEF Pointed
      <4> HIDE DEF i
      <4> QED BY <1>2, <1>3, <4>1, AroundPoint DEF i
    <3>2. \A k \in 1..Len(front) : k \in 1..Len(text) /\ text[k] = front[k]
      BY <1>3, <3>1
    <3>3. \A k \in 1..Len(frac) : i + k \in 1..Len(text) /\ text[i + k] = frac[k]
      <4>1. text \in Seq(Chars) /\ i \in 0..Len(text) /\ Len(text) - i = Len(frac)
        BY <1>3, <3>1 DEF Written
      <4> HIDE DEF i
      <4> DEFINE C == Chars
      <4> HIDE DEF C
      <4>2. \A k \in 1..(Len(text) - i) : SubSeq(text, i + 1, Len(text))[k] = text[i + k]
        BY <4>1, Cutting DEF C
      <4> QED BY <1>3, <3>1, <4>1, <4>2
    <3> QED BY <1>3, <2>2, <3>1, <3>2, <3>3 DEF Written
  <2> QED BY <2>1, <2>2
<1>8. IF places > 0 THEN Text!Index(text, ".") = Len(text) - places ELSE "." \notin Text!ToSet(text)
  <2>1. CASE places > 0
    <3> DEFINE i == Len(front) + 1
    <3>1. frac # << >>
      BY <1>5, <2>1
    <3>2. /\ Len(text) = i + places /\ text[i] = "." /\ i \in 1..Len(text) /\ places \in Int
          /\ i - 1 = Len(front)
      BY <1>3, <1>5, <1>7, <2>1, <3>1
    <3>3. \A j \in 1..(i - 1) : text[j] # "."
      BY <1>4, <1>7, <3>2
    <3> HIDE DEF i
    <3>4. Text!Index(text, ".") = i
      BY <1>7, <3>2, <3>3, IndexAt
    <3> QED BY <2>1, <3>2, <3>4
  <2>2. CASE ~(places > 0)
    <3>1. text = front
      BY <1>6, <1>7, <2>2
    <3> QED BY <1>4, <1>7, <2>2, <3>1, IndexIs
  <2> QED BY <2>1, <2>2
<1>9. ASSUME Head(text) = "-" PROVE Text!ToSet(text) \cap (Text!DigitSet \ {"0"}) # {}
  <2>1. v < 0
    <3> SUFFICES ASSUME ~(v < 0) PROVE FALSE
      OBVIOUS
    <3>1. SignText(d) = << >>
      BY DEF SignText, v
    <3>2. front = whole
      BY <1>2, <3>1, DigitsJoin DEF front
    <3>3. whole[1] \in Text!DigitSet /\ 1 \in 1..Len(whole)
      BY <1>2 DEF Numeric
    <3>4. text[1] = whole[1] /\ 1 \in 1..Len(text)
      BY <1>7, <3>2, <3>3
    <3>5. Head(text) = text[1]
      BY <1>7, <3>4
    <3> QED BY <1>9, <3>3, <3>4, <3>5, DigitsAre
  <2>2. Number(all) # 0
    <3> DEFINE k == d.exp - Full(d)  q == 10^k  m == Laws!Magnitude(v)
    <3>1. v \in Int /\ d.exp \in Int
      BY TextIs, ValIs DEF v
    <3>2. k \in Nat
      BY <3>1 DEF Full
    <3>3. q \in Nat \ {0}
      <4> HIDE DEF k
      <4> QED BY <3>2 DEF Laws!PowersOfTen
    <3>4. m \in Nat \ {0}
      BY <2>1, <3>1 DEF Laws!Magnitude
    <3> HIDE DEF k, m
    <3>5. m * q # 0
      <4> HIDE DEF q
      <4> QED BY <3>3, <3>4
    <3>6. 10^0 = 1 /\ Number(all) \in Nat
      BY <1>3, NumberIs
    <3> DEFINE a == Number(all)
    <3>7. a * 10^0 = m * q
      BY <1>2 DEF k, m
    <3> HIDE DEF a, q
    <3>8. a \in Nat /\ a * 1 = m * q
      BY <3>6, <3>7 DEF a
    <3>9. a # 0
      <4> SUFFICES ASSUME a = 0 PROVE FALSE
        OBVIOUS
      <4>1. 0 * 1 = 0
        OBVIOUS
      <4> QED BY <3>5, <3>8, <4>1
    <3> QED BY <3>9 DEF a
  <2>3. PICK i \in 1..Len(all) : all[i] # "0"
    BY <1>3, <2>2, OnlyZeros
  <2>4. all[i] \in Text!DigitSet
    BY <1>3 DEF Numeric
  <2>5. \E l \in 1..Len(text) : text[l] = all[i]
    <3>1. /\ Len(all) = Len(whole) + Len(frac) /\ Len(whole) \in Nat
          /\ \A k \in 1..Len(whole) : all[k] = whole[k]
          /\ \A k \in 1..Len(frac) : all[Len(whole) + k] = frac[k]
      BY <1>2, Joins DEF Numeric, all
    <3>2. CASE i <= Len(whole)
      <4>1. i \in 1..Len(whole) /\ all[i] = whole[i]
        BY <3>1, <3>2
      <4>2. \E k \in 1..Len(front) : front[k] = whole[i]
        <5> DEFINE D == Text!DigitSet \cup {"-"}  sign == SignText(d)
        <5>1. sign \in Seq(D) /\ whole \in Seq(D)
          <6>1. << >> \in Seq(D) /\ <<"-">> \in Seq(D) /\ whole \in Seq(D)
            BY <1>2 DEF Numeric
          <6> QED BY <1>2, <6>1 DEF Signs
        <5> HIDE DEF D, sign
        <5>2. /\ Len(front) = Len(sign) + Len(whole) /\ Len(sign) \in Nat
              /\ \A k \in 1..Len(whole) : front[Len(sign) + k] = whole[k]
          BY <5>1, Joins DEF front, sign
        <5>3. Len(sign) + i \in 1..Len(front)
          BY <3>1, <4>1, <5>2
        <5> QED BY <4>1, <5>2, <5>3
      <4> QED BY <1>7, <4>1, <4>2
    <3>3. CASE i > Len(whole)
      <4>1. i - Len(whole) \in 1..Len(frac) /\ Len(whole) + (i - Len(whole)) = i
        BY <1>3, <3>1, <3>3
      <4> QED BY <1>7, <3>1, <4>1
    <3> QED BY <3>1, <3>2, <3>3
  <2>6. all[i] \in Text!ToSet(text)
    BY <1>7, <2>5, IndexIs
  <2> QED BY <2>3, <2>4, <2>6
<1> QED BY <1>1, <1>8, <1>9 DEF text

\* Sums and differences of numbers of one exponent have it too.
LEMMA SumsOfScale ==
    ASSUME Laws!PowersOfTen(Nat), Laws!Parameters, Text!Parameters,
           NEW a \in Int, NEW b \in Int, NEW e \in Text!MinExp..Text!MaxExp
    PROVE  /\ Text!Add(Text!New(a, e), Text!New(b, e)) \in Text!Decimals
           /\ Text!Sub(Text!New(a, e), Text!New(b, e)) \in Text!Decimals
<1> DEFINE d == Text!New(a, e)  d2 == Text!New(b, e)
<1>1. e \in Int
  BY DEF Text!Parameters
<1>2. d \in Laws!Decimals /\ d2 \in Laws!Decimals /\ d.exp = e /\ d2.exp = e
  BY <1>1, NewIs, SharedIs
<1> HIDE DEF d, d2
<1>3. PICK n, n2, b2 \in Int :
         b2 = Finer(d, d2) /\ Laws!RescalePair(d, d2) = <<Laws!New(n, b2), Laws!New(n2, b2)>>
  <2>1. e <= e
    BY <1>1
  <2> QED BY <1>1, <1>2, <2>1, PairExact
<1>4. b2 = e
  BY <1>2, <1>3 DEF Finer
<1>5. Text!RescalePair(d, d2) = <<Laws!New(n, e), Laws!New(n2, e)>>
  BY <1>3, <1>4, SharedIs
<1> DEFINE pair == Text!RescalePair(d, d2)
<1>6. pair[1].value = n /\ pair[2].value = n2 /\ pair[1].exp = e
  BY <1>5 DEF Laws!New
<1> HIDE DEF pair
<1>7. n + n2 \in Int /\ n - n2 \in Int
  OBVIOUS
<1>8. /\ Text!Add(d, d2) = Text!New(pair[1].value + pair[2].value, pair[1].exp)
      /\ Text!Sub(d, d2) = Text!New(pair[1].value - pair[2].value, pair[1].exp)
  BY Zenon DEF Text!Add, Text!Sub, pair
<1>9. \A k \in Int : Text!New(k, e) \in Text!Decimals
  BY DEF Text!New, Text!Decimals
<1> QED BY <1>6, <1>7, <1>8, <1>9 DEF d, d2

\* A quotient is a number, if the divisor is not 0.
LEMMA Quotients ==
    ASSUME Laws!PowersOfTen(Nat), Laws!Parameters, Text!Parameters,
           NEW d \in Text!Decimals, NEW d2 \in Text!Decimals, Text!Val(d2) # 0, NEW places \in Int
    PROVE  Text!DivRound(d, d2, places) \in Text!Decimals
<1> DEFINE scale == Text!Wrap(-places)
           e == Text!Wrap(d.exp - d2.exp - scale)
           aa == IF e < 0 THEN Text!Val(d) ELSE Text!Val(d) * 10^e
           bb == IF e < 0 THEN Text!Val(d2) * 10^(-e) ELSE Text!Val(d2)
           scalerest == IF e < 0 THEN d.exp ELSE Text!Wrap(scale + d2.exp)
           quo == Text!New(Text!Quo(aa, bb), scale)
           left == Text!New(Text!Rem(aa, bb), scalerest)
           qr == Text!QuoRem(d, d2, places)
<1>1. /\ Text!Val(d) \in Int /\ Text!Val(d2) \in Int \ {0}
      /\ d.exp \in Int /\ d2.exp \in Int
  BY TextIs, ValIs, SharedIs
<1>2. /\ scale \in Int /\ scale \in Text!MinExp..Text!MaxExp
      /\ e \in Int /\ e \in Text!MinExp..Text!MaxExp /\ scalerest \in Int
  <2>1. scale \in Int /\ scale \in Text!MinExp..Text!MaxExp
    <3>1. -places \in Int
      OBVIOUS
    <3> QED BY <3>1, WrappedIs
  <2> HIDE DEF scale
  <2>2. d.exp - d2.exp - scale \in Int /\ scale + d2.exp \in Int
    BY <1>1, <2>1
  <2>3. e \in Int /\ e \in Text!MinExp..Text!MaxExp /\ Text!Wrap(scale + d2.exp) \in Int
    BY <2>2, WrappedIs
  <2> QED BY <1>1, <2>1, <2>3
<1>3. aa \in Int /\ bb \in Int \ {0}
  <2> HIDE DEF e
  <2>1. CASE e < 0
    <3> DEFINE j == -e  t == 10^j
    <3>1. j \in Nat
      BY <1>2, <2>1
    <3> HIDE DEF j
    <3>2. t \in Nat \ {0}
      BY <3>1 DEF Laws!PowersOfTen
    <3>3. bb = Text!Val(d2) * t /\ aa = Text!Val(d)
      BY <2>1 DEF j
    <3> HIDE DEF t, aa, bb
    <3> QED BY <1>1, <3>2, <3>3
  <2>2. CASE ~(e < 0)
    <3> DEFINE t == 10^e
    <3>1. e \in Nat
      BY <1>2, <2>2
    <3>2. t \in Nat \ {0}
      BY <3>1 DEF Laws!PowersOfTen
    <3>3. bb = Text!Val(d2) /\ aa = Text!Val(d) * t
      BY <2>2
    <3> HIDE DEF t, aa, bb
    <3> QED BY <1>1, <3>2, <3>3
  <2> QED BY <2>1, <2>2
<1>4. qr = <<quo, left>>
  <2>1. ~(Text!Val(d2) = 0 \/ e \notin Text!MinExp..Text!MaxExp)
    BY <1>1, <1>2
  <2> QED BY <2>1, Zenon DEF Text!QuoRem
<1> HIDE DEF scale, e, aa, bb, scalerest
<1>5. Text!Quo(aa, bb) \in Int /\ Text!Rem(aa, bb) \in Int
  <2>1. Text!Quo(aa, bb) = Laws!Quo(aa, bb)
    BY SharedIs
  <2> DEFINE k == Laws!Quo(aa, bb)
  <2>2. k \in Int
    BY <1>3, QuoIs
  <2> HIDE DEF k
  <2>3. aa - bb * k \in Int
    BY <1>3, <2>2
  <2> QED BY <2>1, <2>2, <2>3 DEF Text!Rem, k
<1>6. qr # Panic
  <2>1. quo \in Laws!Decimals /\ left \in Laws!Decimals
    BY <1>2, <1>5 DEF Text!New, Laws!Decimals
  <2> HIDE DEF quo, left, qr
  <2>2. qr \in Laws!Decimals \X Laws!Decimals
    BY <1>4, <2>1
  <2> QED BY <2>2 DEF Laws!Parameters
<1> DEFINE r2 == Text!New(2 * Text!Magnitude(left.value), Text!Wrap(left.exp + places))
           last == Text!New(1, scale)
           decided == CASE Text!Cmp(r2, Text!Abs(d2)) < 0 -> quo
                        [] /\ Text!Cmp(r2, Text!Abs(d2)) >= 0
                           /\ Text!Sign(d) * Text!Sign(d2) < 0 -> Text!Sub(quo, last)
                        [] OTHER -> Text!Add(quo, last)
<1>7. /\ quo \in Text!Decimals
      /\ Text!Sub(quo, last) \in Text!Decimals /\ Text!Add(quo, last) \in Text!Decimals
  <2> DEFINE k == Text!Quo(aa, bb)
  <2>1. k \in Int
    BY <1>5
  <2> HIDE DEF k
  <2>2. /\ Text!Add(Text!New(k, scale), Text!New(1, scale)) \in Text!Decimals
        /\ Text!Sub(Text!New(k, scale), Text!New(1, scale)) \in Text!Decimals
    BY <1>2, <2>1, SumsOfScale
  <2>3. Text!New(k, scale) \in Text!Decimals
    BY <1>2, <2>1 DEF Text!New, Text!Decimals
  <2> QED BY <2>2, <2>3 DEF k
<1> HIDE DEF quo, left
<1>8. Text!DivRound(d, d2, places) = decided
  <2>1. qr[1] = quo /\ qr[2] = left
    BY <1>4
  <2> HIDE DEF qr
  <2>2. qr = Text!QuoRem(d, d2, places)
    BY DEF qr
  <2> QED BY <1>6, <2>1, <2>2, Zenon DEF Text!DivRound, Text!Then, scale
<1>9. decided \in {quo, Text!Sub(quo, last), Text!Add(quo, last)}
  <2> HIDE DEF r2, last
  <2> QED OBVIOUS
<1> QED BY <1>7, <1>8, <1>9

\* Nor is a number rounded to the cash in use anything but a number.
LEMMA CashIs ==
    ASSUME Laws!PowersOfTen(Nat), Laws!Parameters, Text!Parameters,
           NEW d \in Text!Decimals, NEW interval \in Text!CashIntervals
    PROVE  Text!RoundCash(d, interval) \in Text!Decimals
<1> DEFINE n == 100 \div interval
           unit == Text!NewFromInt(n)
           product == Text!Mul(d, unit)
           whole == Text!Round(product, 0)
           quo == Text!Div(whole, unit)
<1>1. n \in Int \ {0}
  BY DEF Text!CashIntervals
<1> HIDE DEF n
<1>2. /\ unit \in Text!Decimals /\ Text!Val(unit) = n /\ unit.exp = 0 /\ Text!Val(d) \in Int
      /\ d.exp \in Int /\ d.exp \in Text!MinExp..Text!MaxExp
  <2>1. TextParameters /\ d.exp \in Int /\ d.exp \in Text!MinExp..Text!MaxExp /\ d \in Laws!Decimals
    BY TextIs
  <2>2. unit = [value |-> n, exp |-> 0]
    BY DEF Text!NewFromInt, Text!New
  <2>3. n # Nil
    BY <1>1 DEF Laws!Parameters
  <2>4. Text!Val(d) \in Int
    BY <2>1, ValIs, SharedIs
  <2> QED BY <1>1, <2>1, <2>2, <2>3, <2>4 DEF TextParameters, Text!Decimals, Text!Val
<1> HIDE DEF unit
<1>3. product \in Text!Decimals
  <2>1. d.exp + unit.exp = d.exp
    BY <1>2
  <2>2. product = Text!New(Text!Val(d) * Text!Val(unit), d.exp)
    BY <1>2, <2>1 DEF Text!Mul
  <2>3. Text!Val(d) * Text!Val(unit) \in Int
    BY <1>1, <1>2
  <2> QED BY <1>2, <2>2, <2>3 DEF Text!New, Text!Decimals
<1> HIDE DEF product
<1>4. whole \in Text!Decimals
  <2>1. 0 \in -1..2
    OBVIOUS
  <2> QED BY <1>3, <2>1, RoundPlaces
<1> HIDE DEF whole
<1>5. quo \in Text!Decimals
  <2>1. Text!Wrap(DivisionPrecision) \in Int
    BY WrappedIs DEF Text!Parameters
  <2>2. Text!DivRound(whole, unit, Text!Wrap(DivisionPrecision)) \in Text!Decimals
    BY <1>1, <1>2, <1>4, <2>1, Quotients
  <2> QED BY <2>2 DEF Text!Div
<1> HIDE DEF quo
<1>6. Text!Truncate(quo, 2) \in Text!Decimals
  <2>1. -2 \in Text!MinExp..Text!MaxExp
    <3>1. -2 \in -3..2
      OBVIOUS
    <3> QED BY <3>1 DEF Text!Parameters
  <2>2. Text!Rescale(quo, -2) \in Text!Decimals
    BY <1>5, <2>1, Rescaled
  <2> QED BY <1>5, <2>2 DEF Text!Truncate
<1>7. \A t \in Text!Decimals : t # Panic
  <2>1. \A t \in Text!Decimals : t \in Laws!Decimals
    BY TextIs
  <2> QED BY <2>1 DEF Laws!Parameters
<1>8. Text!RoundCash(d, interval) = Text!Truncate(quo, 2)
  <2> DEFINE Rounded(prod) == Text!Div(Text!Round(prod, 0), unit)
             Shorter(quot) == Text!Truncate(quot, 2)
  <2>1. product # Panic /\ quo # Panic
    BY <1>3, <1>5, <1>7
  <2>2. Text!RoundCash(d, interval) = Text!Then(Text!Then(product, Rounded), Shorter)
    BY Zenon DEF Text!RoundCash, unit, n, product
  <2>3. Text!Then(product, Rounded) = quo
    BY <2>1, Zenon DEF Text!Then, quo, whole
  <2>4. Text!Then(quo, Shorter) = Text!Truncate(quo, 2)
    BY <2>1, Zenon DEF Text!Then
  <2> QED BY <2>2, <2>3, <2>4, Zenon
<1> QED BY <1>6, <1>8

\* So texts of fixed places are right.
LEMMA FixedRight ==
    ASSUME Laws!PowersOfTen(Nat), Laws!Parameters, Text!Parameters, TextInv
    PROVE  Text!FixedPlaces
<1>1. dec \in Text!Decimals
  BY DEF TextInv
<1>2. ASSUME NEW places \in -1..2,
             NEW text \in {Text!StringFixed(dec, places), Text!StringFixedBank(dec, places)}
      PROVE  /\ IF places > 0 THEN Text!Index(text, ".") = Len(text) - places
                ELSE "." \notin Text!ToSet(text)
             /\ Head(text) = "-" => Text!ToSet(text) \cap (Text!DigitSet \ {"0"}) # {}
             /\ text = Text!StringFixed(dec, places) =>
                   Text!SameNumber(Text!NewFromString(text), Text!Round(dec, places))
  <2>1. \A r \in {Text!Round(dec, places), Text!RoundBank(dec, places)} :
           /\ r \in Text!Decimals
           /\ IF places > 0 THEN Text!Index(Text!ToText(r, FALSE), ".") = Len(Text!ToText(r, FALSE)) - places
              ELSE "." \notin Text!ToSet(Text!ToText(r, FALSE))
           /\ Head(Text!ToText(r, FALSE)) = "-" =>
                 Text!ToSet(Text!ToText(r, FALSE)) \cap (Text!DigitSet \ {"0"}) # {}
           /\ Text!SameNumber(Text!NewFromString(Text!ToText(r, FALSE)), r)
    <3> SUFFICES ASSUME NEW r \in {Text!Round(dec, places), Text!RoundBank(dec, places)}
                 PROVE  /\ r \in Text!Decimals
                        /\ IF places > 0 THEN Text!Index(Text!ToText(r, FALSE), ".") = Len(Text!ToText(r, FALSE)) - places
                           ELSE "." \notin Text!ToSet(Text!ToText(r, FALSE))
                        /\ Head(Text!ToText(r, FALSE)) = "-" =>
                              Text!ToSet(Text!ToText(r, FALSE)) \cap (Text!DigitSet \ {"0"}) # {}
                        /\ Text!SameNumber(Text!NewFromString(Text!ToText(r, FALSE)), r)
      BY Zenon
    <3>1. r \in Text!Decimals /\ r.exp = -places
      BY <1>1, RoundPlaces
    <3> DEFINE t == Text!ToText(r, FALSE)
    <3>2. /\ IF places > 0 THEN Text!Index(t, ".") = Len(t) - places
             ELSE "." \notin Text!ToSet(t)
          /\ Head(t) = "-" => Text!ToSet(t) \cap (Text!DigitSet \ {"0"}) # {}
          /\ Reading(t, r)
      BY <3>1, FixedWritten
    <3> HIDE DEF t
    <3>3. Text!SameNumber(Text!NewFromString(t), r)
      BY <3>1, <3>2, ReadIs
    <3> QED BY <3>1, <3>2, <3>3 DEF t
  <2>2. text \in {Text!ToText(Text!Round(dec, places), FALSE), Text!ToText(Text!RoundBank(dec, places), FALSE)}
        /\ Text!StringFixed(dec, places) = Text!ToText(Text!Round(dec, places), FALSE)
    BY DEF Text!StringFixed, Text!StringFixedBank
  <2> QED BY <2>1, <2>2, Zenon
<1>3. ASSUME NEW interval \in Text!CashIntervals
      PROVE  Text!SameNumber(Text!NewFromString(Text!StringFixedCash(dec, interval)), Text!RoundCash(dec, interval))
  <2> DEFINE r == Text!RoundCash(dec, interval)
  <2>1. r \in Text!Decimals
    BY <1>1, CashIs
  <2> HIDE DEF r
  <2>2. Reading(Text!ToText(r, FALSE), r)
    <3>1. FALSE \in BOOLEAN
      OBVIOUS
    <3> QED BY <2>1, <3>1, TextRead
  <2> QED BY <2>1, <2>2, ReadIs DEF Text!StringFixedCash, r
<1> QED BY <1>2, <1>3, Zenon DEF Text!FixedPlaces

-----------------------------------------------------------------------------
(* What a text is taken apart into. *)

\* What follows a sign, if there is one.
SignChars == {"-", "+"}
Unsigned(s) == IF s # << >> /\ Head(s) \in SignChars THEN Tail(s) ELSE s

\* It is a sequence of the same characters, or of all but the first.
LEMMA UnsignedIs ==
    ASSUME NEW S, NEW s \in Seq(S)
    PROVE  /\ Unsigned(s) \in Seq(S) /\ Len(s) \in Nat /\ Len(Unsigned(s)) \in Nat
           /\ s # << >> <=> Len(s) > 0
           /\ s # << >> => Head(s) = s[1]
           /\ IF s # << >> /\ Head(s) \in SignChars
              THEN /\ Len(Unsigned(s)) = Len(s) - 1
                   /\ \A k \in 1..(Len(s) - 1) : Unsigned(s)[k] = s[k + 1]
              ELSE Unsigned(s) = s
<1>1. Len(s) \in Nat /\ (s # << >> <=> Len(s) > 0) /\ (s # << >> => Head(s) = s[1])
  OBVIOUS
<1>2. s # << >> => /\ Tail(s) \in Seq(S) /\ Len(Tail(s)) = Len(s) - 1
                   /\ \A k \in 1..(Len(s) - 1) : Tail(s)[k] = s[k + 1]
  OBVIOUS
<1>3. CASE s # << >> /\ Head(s) \in SignChars
  <2>1. Unsigned(s) = Tail(s)
    BY <1>3 DEF Unsigned
  <2> QED BY <1>1, <1>2, <1>3, <2>1
<1>4. CASE ~(s # << >> /\ Head(s) \in SignChars)
  <2>1. Unsigned(s) = s
    BY <1>4 DEF Unsigned
  <2> QED BY <1>1, <1>4, <2>1
<1> QED BY <1>3, <1>4

\* A sequence is numeric when its characters are digits.
LEMMA NumericIs ==
    ASSUME NEW S, NEW s \in Seq(S)
    PROVE  /\ s \in Numeric <=> \A k \in 1..Len(s) : s[k] \in Text!DigitSet
           /\ Text!ToSet(s) \subseteq Text!DigitSet <=> s \in Numeric
<1>1. s \in Numeric => \A k \in 1..Len(s) : s[k] \in Text!DigitSet
  BY DEF Numeric
<1>2. (\A k \in 1..Len(s) : s[k] \in Text!DigitSet) => s \in Numeric
  <2> DEFINE D == Text!DigitSet
  <2> HIDE DEF D
  <2>1. (\A k \in 1..Len(s) : s[k] \in D) => s \in Seq(D)
    OBVIOUS
  <2> QED BY <2>1 DEF Numeric, D
<1>3. Text!ToSet(s) \subseteq Text!DigitSet <=> \A k \in 1..Len(s) : s[k] \in Text!DigitSet
  BY DEF Text!ToSet
<1> QED BY <1>1, <1>2, <1>3

\* ParseInt reads an optional sign and digits, and refuses anything else.
LEMMA ParseIs ==
    ASSUME NEW S, NEW s \in Seq(S)
    PROVE  Text!ParseInt(s) = IF Unsigned(s) \in Numeric /\ Unsigned(s) # << >>
                              THEN IF s # << >> /\ Head(s) = "-" THEN -Number(Unsigned(s))
                                   ELSE Number(Unsigned(s))
                              ELSE Refused
<1> DEFINE u == Unsigned(s)  signed == s # << >> /\ Head(s) \in SignChars
<1>1. Text!ParseInt(s) = IF u = << >> \/ ~(Text!ToSet(u) \subseteq Text!DigitSet) THEN Refused
                         ELSE IF signed /\ Head(s) = "-" THEN -Number(u) ELSE Number(u)
  BY Zenon DEF Text!ParseInt, Unsigned, Number, SignChars
<1>2. Text!ToSet(u) \subseteq Text!DigitSet <=> u \in Numeric
  BY UnsignedIs, NumericIs
<1>3. "-" \in SignChars
  BY DEF SignChars
<1> HIDE DEF u
<1>4. signed /\ Head(s) = "-" <=> s # << >> /\ Head(s) = "-"
  BY <1>3
<1> HIDE DEF signed
<1> QED BY <1>1, <1>2, <1>4, Zenon DEF u

\* Where the point of a number is, and its sign: before it or right after a
\* leading one.
PointAt(m) == Text!Index(m, ".")
SignAt(m) ==
    IF m # << >> /\ Head(m) \in SignChars THEN 1
    ELSE IF Len(m) >= 2 /\ m[1] = "." /\ m[2] \in SignChars THEN 2 ELSE 0

Skip(k, i) == IF k # 0 /\ k <= i THEN 1 ELSE 0

\* The sign and what else is parsed of it.
Whole(m) == IF PointAt(m) = 0 THEN m ELSE SubSeq(m, 1, PointAt(m) - 1)
Fraction(m) == IF PointAt(m) = 0 THEN << >> ELSE SubSeq(m, PointAt(m) + 1, Len(m))
Parsed(m) == Whole(m) \o Fraction(m)

\* The point is the first one.
LEMMA PointIs ==
    ASSUME NEW S, NEW m \in Seq(S)
    PROVE  /\ PointAt(m) \in 0..Len(m) /\ Len(m) \in Nat
           /\ PointAt(m) # 0 => m[PointAt(m)] = "."
           /\ \A i \in 1..Len(m) : m[i] = "." => PointAt(m) # 0 /\ PointAt(m) <= i
<1>1. Len(m) \in Nat
  OBVIOUS
<1>2. CASE "." \in Text!ToSet(m)
  <2>1. PointAt(m) \in 1..Len(m) /\ m[PointAt(m)] = "." /\ \A i \in 1..Len(m) : m[i] = "." => PointAt(m) <= i
    BY <1>2, IndexIs DEF PointAt
  <2> QED BY <1>1, <2>1
<1>3. CASE "." \notin Text!ToSet(m)
  <2>1. PointAt(m) = 0 /\ \A i \in 1..Len(m) : m[i] # "."
    BY <1>3, IndexIs DEF PointAt
  <2> QED BY <1>1, <2>1
<1> QED BY <1>2, <1>3

\* What is parsed are the characters but the point.
LEMMA ParsedAre ==
    ASSUME NEW S, NEW m \in Seq(S)
    PROVE  /\ Parsed(m) \in Seq(S) /\ Len(Parsed(m)) = Len(m) - Skip(PointAt(m), Len(m))
           /\ \A i \in 1..Len(m) : i # PointAt(m) => /\ i - Skip(PointAt(m), i) \in 1..Len(Parsed(m))
                                                    /\ Parsed(m)[i - Skip(PointAt(m), i)] = m[i]
<1> DEFINE pt == PointAt(m)  n == Len(m)
<1>1. pt \in 0..n /\ n \in Nat
  BY PointIs
<1>2. CASE pt = 0
  <2>1. Parsed(m) = m
    BY <1>2, Joins DEF Parsed, Whole, Fraction
  <2>2. \A i \in 1..n : Skip(pt, i) = 0 /\ i - 0 = i
    BY <1>2 DEF Skip
  <2>3. Skip(pt, n) = 0 /\ n - 0 = n
    BY <1>1, <1>2 DEF Skip
  <2> HIDE DEF pt, n
  <2> QED BY <2>1, <2>2, <2>3 DEF pt, n
<1>3. CASE pt # 0
  <2> DEFINE a == SubSeq(m, 1, pt - 1)  b == SubSeq(m, pt + 1, n)
  <2>1. Parsed(m) = a \o b
    BY <1>3 DEF Parsed, Whole, Fraction
  <2>2. pt - 1 \in 0..n /\ pt \in 0..n
    BY <1>1, <1>3
  <2> HIDE DEF pt
  <2>3. a \in Seq(S) /\ Len(a) = pt - 1 /\ \A j \in 1..(pt - 1) : a[j] = m[j]
    BY <2>2, Cutting
  <2>4. b \in Seq(S) /\ Len(b) = n - pt /\ \A j \in 1..(n - pt) : b[j] = m[pt + j]
    BY <2>2, Cutting
  <2> HIDE DEF a, b
  <2>5. /\ a \o b \in Seq(S) /\ Len(a \o b) = Len(a) + Len(b)
        /\ \A j \in 1..Len(a) : (a \o b)[j] = a[j]
        /\ \A j \in 1..Len(b) : (a \o b)[Len(a) + j] = b[j]
    <3>1. a \in Seq(S) /\ b \in Seq(S)
      BY <2>3, <2>4
    <3>2. a \o b \in Seq(S) /\ Len(a \o b) = Len(a) + Len(b)
      BY <3>1
    <3>3. \A j \in 1..Len(a) : (a \o b)[j] = a[j]
      BY <3>1
    <3>4. \A j \in 1..Len(b) : (a \o b)[Len(a) + j] = b[j]
      BY <3>1
    <3> QED BY <3>2, <3>3, <3>4
  <2> DEFINE d == a \o b
  <2> HIDE DEF d, n
  <2>6. Skip(pt, n) = 1 /\ Len(d) = n - 1
    BY <1>1, <1>3, <2>3, <2>4, <2>5 DEF Skip, d
  <2>7. ASSUME NEW i \in 1..n, i # pt
        PROVE  i - Skip(pt, i) \in 1..Len(d) /\ d[i - Skip(pt, i)] = m[i]
    <3>1. CASE i < pt
      <4>1. Skip(pt, i) = 0 /\ i - 0 = i /\ i \in 1..(pt - 1) /\ i \in 1..Len(d)
        BY <1>1, <2>6, <3>1 DEF Skip
      <4> QED BY <2>3, <2>5, <4>1 DEF d
    <3>2. CASE i > pt
      <4>1. /\ Skip(pt, i) = 1 /\ i - pt \in 1..(n - pt) /\ i - 1 = (pt - 1) + (i - pt)
            /\ pt + (i - pt) = i /\ i - 1 \in 1..Len(d)
        BY <1>1, <1>3, <2>6, <3>2 DEF Skip
      <4>2. d[Len(a) + (i - pt)] = b[i - pt] /\ b[i - pt] = m[pt + (i - pt)]
        BY <2>4, <2>5, <4>1 DEF d
      <4>3. d[i - 1] = m[i]
        BY <2>3, <4>1, <4>2
      <4> QED BY <4>1, <4>3
    <3> QED BY <1>1, <2>7, <3>1, <3>2
  <2> QED BY <2>1, <2>5, <2>6, <2>7 DEF d, pt, n
<1> QED BY <1>2, <1>3

\* The sign is the first of the characters that are parsed.
LEMMA SignIs ==
    ASSUME NEW S, NEW m \in Seq(S)
    PROVE  /\ SignAt(m) \in 0..Len(m) /\ SignAt(m) \in {0, 1, 2}
           /\ SignAt(m) # 0 => /\ m[SignAt(m)] \in SignChars /\ SignAt(m) # PointAt(m)
                               /\ SignAt(m) - Skip(PointAt(m), SignAt(m)) = 1
           /\ SignAt(m) # 0 <=> Parsed(m) # << >> /\ Head(Parsed(m)) \in SignChars
           /\ SignAt(m) # 0 => Head(Parsed(m)) = m[SignAt(m)]
           /\ SignAt(m) = 2 <=> PointAt(m) = 1 /\ Len(m) >= 2 /\ m[2] \in SignChars
           /\ SignAt(m) = 1 <=> m # << >> /\ Head(m) \in SignChars
<1> DEFINE pt == PointAt(m)  n == Len(m)  sg == SignAt(m)  d == Parsed(m)
<1>1. /\ pt \in 0..n /\ n \in Nat
      /\ pt # 0 => m[pt] = "."
      /\ \A i \in 1..n : m[i] = "." => pt # 0 /\ pt <= i
  BY PointIs
<1>2. /\ d \in Seq(S) /\ Len(d) = n - Skip(pt, n)
      /\ \A i \in 1..n : i # pt => i - Skip(pt, i) \in 1..Len(d) /\ d[i - Skip(pt, i)] = m[i]
  BY ParsedAre
<1>3. /\ Len(d) \in Nat /\ (d # << >> <=> Len(d) > 0) /\ (d # << >> => Head(d) = d[1])
      /\ (m # << >> <=> n > 0) /\ (m # << >> => Head(m) = m[1])
  BY <1>2, UnsignedIs
<1>4. sg = IF n > 0 /\ m[1] \in SignChars THEN 1
           ELSE IF n >= 2 /\ m[1] = "." /\ m[2] \in SignChars THEN 2 ELSE 0
  BY <1>3 DEF SignAt
<1>5. "." \notin SignChars
  BY DEF SignChars
<1>6. pt = 1 <=> n >= 1 /\ m[1] = "."
  BY <1>1
<1> HIDE DEF pt, n, sg, d
<1>7. sg \in 0..n /\ sg \in {0, 1, 2} /\ (sg # 0 => m[sg] \in SignChars /\ sg # pt)
  BY <1>1, <1>4, <1>5, <1>6
<1>8. /\ sg = 2 <=> pt = 1 /\ n >= 2 /\ m[2] \in SignChars
      /\ sg = 1 <=> n > 0 /\ m[1] \in SignChars
  BY <1>1, <1>4, <1>5, <1>6
<1>9. sg # 0 => sg - Skip(pt, sg) = 1
  BY <1>1, <1>5, <1>6, <1>7, <1>8 DEF Skip
<1>10. sg # 0 => 1 \in 1..Len(d) /\ d[1] = m[sg]
  <2> SUFFICES ASSUME sg # 0 PROVE 1 \in 1..Len(d) /\ d[1] = m[sg]
    OBVIOUS
  <2>1. sg \in 1..n /\ sg # pt /\ sg - Skip(pt, sg) = 1
    BY <1>1, <1>7, <1>9
  <2> QED BY <1>2, <2>1
<1>11. ASSUME d # << >>, Head(d) \in SignChars PROVE sg # 0
  <2>1. Len(d) > 0 /\ d[1] \in SignChars
    BY <1>3, <1>11
  <2>2. CASE pt = 1
    <3>1. Skip(pt, n) = 1 /\ 2 \in 1..n /\ Skip(pt, 2) = 1 /\ 2 - 1 = 1
      BY <1>1, <1>2, <2>1, <2>2 DEF Skip
    <3>2. d[1] = m[2]
      BY <1>2, <2>2, <3>1
    <3> QED BY <1>8, <2>1, <2>2, <3>1, <3>2
  <2>3. CASE pt # 1
    <3>1. Skip(pt, n) \in {0, 1} /\ 1 \in 1..n /\ Skip(pt, 1) = 0 /\ 1 - 0 = 1
      BY <1>1, <1>2, <2>1, <2>3 DEF Skip
    <3>2. d[1] = m[1]
      BY <1>2, <2>3, <3>1
    <3> QED BY <1>1, <1>8, <2>1, <3>1, <3>2
  <2> QED BY <2>2, <2>3
<1>12. sg # 0 => d # << >> /\ Head(d) \in SignChars /\ Head(d) = m[sg]
  BY <1>3, <1>7, <1>10
<1> QED BY <1>3, <1>7, <1>8, <1>9, <1>11, <1>12 DEF pt, n, sg, d

\* How many of the first characters are digits, if those are all there are but
\* the sign and the point.
Digits(m, i) == i - Skip(SignAt(m), i) - Skip(PointAt(m), i)

\* The digits of a number, one for each character that is neither.
LEMMA DigitsOf ==
    ASSUME NEW S, NEW m \in Seq(S)
    PROVE  LET t == Unsigned(Parsed(m))
           IN  /\ t \in Seq(S) /\ Len(t) = Digits(m, Len(m)) /\ Len(t) \in Nat
               /\ \A i \in 1..Len(m) : i \notin {SignAt(m), PointAt(m)} =>
                     Digits(m, i) \in 1..Len(t) /\ t[Digits(m, i)] = m[i]
               /\ \A i \in 1..Len(m) : i # PointAt(m) =>
                     Digits(m, i) = Digits(m, i - 1) + (IF i = SignAt(m) THEN 0 ELSE 1)
               /\ PointAt(m) # 0 => Digits(m, PointAt(m)) = Digits(m, PointAt(m) - 1)
               /\ Digits(m, 0) = 0
<1> DEFINE pt == PointAt(m)  n == Len(m)  sg == SignAt(m)  d == Parsed(m)  t == Unsigned(d)
<1>1. pt \in 0..n /\ n \in Nat
  BY PointIs
<1>2. /\ d \in Seq(S) /\ Len(d) = n - Skip(pt, n)
      /\ \A i \in 1..n : i # pt => i - Skip(pt, i) \in 1..Len(d) /\ d[i - Skip(pt, i)] = m[i]
  BY ParsedAre
<1>3. /\ sg \in 0..n
      /\ sg # 0 => sg # pt /\ sg - Skip(pt, sg) = 1
      /\ sg # 0 <=> d # << >> /\ Head(d) \in SignChars
  BY SignIs
<1> HIDE DEF d
<1>4. /\ t \in Seq(S) /\ Len(t) \in Nat /\ Len(d) \in Nat
      /\ IF sg # 0 THEN /\ Len(t) = Len(d) - 1
                        /\ \A k \in 1..(Len(d) - 1) : t[k] = d[k + 1]
         ELSE t = d
  BY <1>2, <1>3, UnsignedIs
<1> HIDE DEF pt, n, sg, t
<1>5. \A i : Digits(m, i) = i - Skip(sg, i) - Skip(pt, i)
  BY DEF Digits, sg, pt
<1>6. Len(t) = Digits(m, n)
  <2>1. sg # 0 => Skip(sg, n) = 1
    BY <1>1, <1>3 DEF Skip
  <2>2. sg = 0 => Skip(sg, n) = 0
    BY DEF Skip
  <2>3. Skip(pt, n) \in {0, 1}
    BY DEF Skip
  <2> QED BY <1>1, <1>2, <1>4, <1>5, <2>1, <2>2, <2>3
<1>7. ASSUME NEW i \in 1..n, i # sg, i # pt
      PROVE  Digits(m, i) \in 1..Len(t) /\ t[Digits(m, i)] = m[i]
  <2> DEFINE j == i - Skip(pt, i)
  <2>1. j \in 1..Len(d) /\ d[j] = m[i]
    BY <1>2, <1>7
  <2>2. CASE sg = 0
    <3>1. Digits(m, i) = j
      BY <1>1, <1>5, <2>2 DEF Skip
    <3> QED BY <1>4, <2>1, <2>2, <3>1
  <2>3. CASE sg # 0
    <3>1. sg < i
      BY <1>1, <1>3, <1>7, <2>1, <2>3 DEF Skip
    <3>2. Digits(m, i) = j - 1 /\ j - 1 \in 1..Len(t)
      <4>1. Skip(sg, i) = 1 /\ Skip(pt, i) \in {0, 1} /\ Skip(pt, sg) \in {0, 1}
        BY <1>1, <1>3, <2>3, <3>1 DEF Skip
      <4>2. sg < i - Skip(pt, i) + Skip(pt, sg)
        BY <1>1, <1>3, <1>7, <2>3, <3>1 DEF Skip
      <4>3. Digits(m, i) = (i - 1) - Skip(pt, i)
        BY <1>5, <4>1
      <4> QED BY <1>1, <1>3, <1>4, <2>1, <2>3, <4>1, <4>2, <4>3
    <3> HIDE DEF j
    <3>3. j - 1 \in 1..(Len(d) - 1) /\ (j - 1) + 1 = j
      BY <1>4, <2>1, <2>3, <3>2
    <3> QED BY <1>4, <2>1, <2>3, <3>2, <3>3
  <2> QED BY <2>2, <2>3
<1>8. ASSUME NEW i \in 1..n, i # pt
      PROVE  Digits(m, i) = Digits(m, i - 1) + (IF i = sg THEN 0 ELSE 1)
  <2>1. Skip(pt, i) = Skip(pt, i - 1)
    BY <1>1, <1>8 DEF Skip
  <2>2. Skip(sg, i) = Skip(sg, i - 1) + IF i = sg THEN 1 ELSE 0
    BY <1>1, <1>3 DEF Skip
  <2>3. Skip(pt, i - 1) \in {0, 1} /\ Skip(sg, i - 1) \in {0, 1}
    BY DEF Skip
  <2> QED BY <1>1, <1>5, <2>1, <2>2, <2>3
<1>9. pt # 0 => Digits(m, pt) = Digits(m, pt - 1)
  <2> SUFFICES ASSUME pt # 0 PROVE Digits(m, pt) = Digits(m, pt - 1)
    OBVIOUS
  <2>1. Skip(pt, pt) = 1 /\ Skip(pt, pt - 1) = 0
    BY <1>1 DEF Skip
  <2>2. Skip(sg, pt) = Skip(sg, pt - 1) /\ Skip(sg, pt) \in {0, 1}
    BY <1>1, <1>3 DEF Skip
  <2> QED BY <1>1, <1>5, <2>1, <2>2
<1>10. Digits(m, 0) = 0
  BY <1>1, <1>3, <1>5 DEF Skip
<1> QED BY <1>4, <1>6, <1>7, <1>8, <1>9, <1>10 DEF pt, n, sg, t, d

\* What WellFormed takes apart: the same characters but the sign.
Body(m) == IF m # << >> /\ Head(m) = "." THEN <<".">> \o Unsigned(Tail(m)) ELSE Unsigned(m)

\* Its characters are those of the number but the sign, in their order.
LEMMA BodyOf ==
    ASSUME NEW S, NEW m \in Seq(S)
    PROVE  /\ Body(m) \in Seq(S \cup {"."}) /\ Len(Body(m)) = Len(m) - Skip(SignAt(m), Len(m))
           /\ \A i \in 1..Len(m) : i # SignAt(m) =>
                 /\ i - Skip(SignAt(m), i) \in 1..Len(Body(m))
                 /\ Body(m)[i - Skip(SignAt(m), i)] = m[i]
<1> DEFINE n == Len(m)  sg == SignAt(m)  C == S \cup {"."}
<1>1. /\ n \in Nat /\ (m # << >> <=> n > 0) /\ (m # << >> => Head(m) = m[1])
      /\ sg \in 0..n
      /\ sg = 2 <=> PointAt(m) = 1 /\ n >= 2 /\ m[2] \in SignChars
      /\ sg = 1 <=> m # << >> /\ Head(m) \in SignChars
      /\ sg \in {0, 1, 2}
  BY UnsignedIs, SignIs
<1>2. "." \notin SignChars
  BY DEF SignChars
<1>3. CASE m # << >> /\ Head(m) = "."
  <2> DEFINE r == Tail(m)  u == Unsigned(r)
  <2>1. r \in Seq(S) /\ Len(r) = n - 1 /\ \A k \in 1..(n - 1) : r[k] = m[k + 1]
    BY <1>3
  <2>2. PointAt(m) = 1
    BY <1>1, <1>3, PointIs
  <2> HIDE DEF r
  <2>3. /\ u \in Seq(S) /\ (r # << >> <=> Len(r) > 0) /\ (r # << >> => Head(r) = r[1])
        /\ IF r # << >> /\ Head(r) \in SignChars
           THEN Len(u) = Len(r) - 1 /\ \A k \in 1..(Len(r) - 1) : u[k] = r[k + 1]
           ELSE u = r
    BY <2>1, UnsignedIs
  <2> HIDE DEF u, n, sg
  <2>4. sg = IF r # << >> /\ Head(r) \in SignChars THEN 2 ELSE 0
    <3>1. r # << >> => r[1] = m[2] /\ n >= 2
      <4> SUFFICES ASSUME r # << >> PROVE r[1] = m[2] /\ n >= 2
        OBVIOUS
      <4>1. n - 1 > 0 /\ 1 \in 1..(n - 1) /\ 1 + 1 = 2
        BY <1>1, <2>1, <2>3
      <4>2. r[1] = m[1 + 1]
        BY <2>1, <4>1
      <4> QED BY <1>1, <4>1, <4>2
    <3>2. n >= 2 => r # << >>
      BY <1>1, <2>1, <2>3
    <3>3. sg # 1
      BY <1>1, <1>2, <1>3
    <3> QED BY <1>1, <2>2, <2>3, <3>1, <3>2, <3>3
  <2> DEFINE b == <<".">> \o u
  <2>5. b \in Seq(C) /\ Len(b) = 1 + Len(u) /\ b[1] = "." /\ \A k \in 1..Len(u) : b[1 + k] = u[k]
    <3> DEFINE c == "."
    <3>1. c \in C /\ u \in Seq(C)
      BY <2>3
    <3> HIDE DEF c, C
    <3>2. <<c>> \o u \in Seq(C) /\ Len(<<c>> \o u) = 1 + Len(u) /\ (<<c>> \o u)[1] = c
          /\ \A k \in 1..Len(u) : (<<c>> \o u)[1 + k] = u[k]
      BY <3>1, OneBefore
    <3> QED BY <3>2 DEF c
  <2> HIDE DEF b, C
  <2>6. Body(m) = b
    BY <1>3 DEF Body, b, u, r
  <2>7. Len(b) = n - Skip(sg, n)
    BY <1>1, <2>1, <2>3, <2>4, <2>5 DEF Skip
  <2>8. ASSUME NEW i \in 1..n, i # sg PROVE i - Skip(sg, i) \in 1..Len(b) /\ b[i - Skip(sg, i)] = m[i]
    <3>1. CASE i = 1
      <4>1. Skip(sg, i) = 0 /\ i - 0 = 1 /\ 1 \in 1..Len(b)
        BY <1>1, <2>3, <2>4, <2>7, <3>1 DEF Skip
      <4> QED BY <1>1, <1>3, <2>5, <3>1, <4>1
    <3>2. CASE i # 1 /\ sg = 0
      <4>1. u = r /\ i - 1 \in 1..Len(u) /\ Skip(sg, i) = 0 /\ i - 0 = 1 + (i - 1) /\ (i - 1) + 1 = i
            /\ i \in 1..Len(b)
        BY <1>1, <2>1, <2>3, <2>4, <2>5, <3>2 DEF Skip
      <4>2. b[1 + (i - 1)] = u[i - 1] /\ r[i - 1] = m[(i - 1) + 1]
        BY <2>1, <2>5, <4>1
      <4> QED BY <4>1, <4>2
    <3>3. CASE i # 1 /\ sg # 0
      <4>1. sg = 2 /\ r # << >> /\ Head(r) \in SignChars
        BY <2>4, <3>3
      <4>2. /\ i > 2 /\ Len(u) = n - 2 /\ i - 2 \in 1..Len(u) /\ Skip(sg, i) = 1 /\ i - 1 = 1 + (i - 2)
            /\ (i - 2) + 1 \in 1..(n - 1) /\ ((i - 2) + 1) + 1 = i /\ i - 1 \in 1..Len(b)
            /\ i - 2 \in 1..(Len(r) - 1)
        BY <1>1, <2>1, <2>3, <2>5, <2>8, <3>3, <4>1 DEF Skip
      <4>3. b[1 + (i - 2)] = u[i - 2] /\ u[i - 2] = r[(i - 2) + 1] /\ r[(i - 2) + 1] = m[((i - 2) + 1) + 1]
        BY <2>1, <2>3, <2>5, <4>1, <4>2
      <4> QED BY <4>2, <4>3
    <3> QED BY <3>1, <3>2, <3>3
  <2> QED BY <2>5, <2>6, <2>7, <2>8 DEF n, sg, C
<1>4. CASE ~(m # << >> /\ Head(m) = ".")
  <2> DEFINE u == Unsigned(m)
  <2>1. /\ u \in Seq(S)
        /\ IF m # << >> /\ Head(m) \in SignChars
           THEN Len(u) = n - 1 /\ \A k \in 1..(n - 1) : u[k] = m[k + 1]
           ELSE u = m
    BY UnsignedIs
  <2>2. Body(m) = u
    BY <1>4 DEF Body
  <2>3. sg # 2
    <3> SUFFICES ASSUME sg = 2 PROVE FALSE
      OBVIOUS
    <3>1. PointAt(m) = 1
      BY <1>1
    <3>2. m[1] = "." /\ n > 0
      BY <1>1, <3>1, PointIs
    <3> QED BY <1>1, <1>4, <3>2
  <2>4. u \in Seq(C)
    BY <2>1
  <2> HIDE DEF u, n, sg, C
  <2>5. CASE sg = 1
    <3>1. Len(u) = n - 1 /\ (\A k \in 1..(n - 1) : u[k] = m[k + 1]) /\ Skip(sg, n) = 1
      BY <1>1, <2>1, <2>5 DEF Skip
    <3>2. \A i \in 1..n : i # sg => Skip(sg, i) = 1 /\ i - 1 \in 1..(n - 1) /\ (i - 1) + 1 = i
      BY <1>1, <2>5 DEF Skip
    <3>3. \A i \in 1..n : i # sg => u[i - 1] = m[i]
      BY <3>1, <3>2
    <3> QED BY <2>2, <2>4, <3>1, <3>2, <3>3 DEF n, sg, C
  <2>6. CASE sg = 0
    <3>1. u = m /\ Skip(sg, n) = 0 /\ n - 0 = n /\ \A i \in 1..n : Skip(sg, i) = 0 /\ i - 0 = i
      BY <1>1, <2>1, <2>6 DEF Skip
    <3>2. Len(u) = n
      BY <3>1 DEF n
    <3>3. \A i \in 1..n : i - Skip(sg, i) = i /\ u[i] = m[i]
      BY <3>1
    <3> QED BY <2>2, <2>4, <3>1, <3>2, <3>3 DEF n, sg, C
  <2> QED BY <1>1, <2>3, <2>5, <2>6
<1> QED BY <1>3, <1>4

-----------------------------------------------------------------------------
(* What its digits are worth. *)

\* The sum of the shares.
Total(shares) == Text!FoldLeft(LAMBDA total, share : total + share, 0, shares)

\* It takes them one after the other.
LEMMA TotalSteps ==
    ASSUME NEW S, NEW s \in Seq(S)
    PROVE  \E so : /\ so[0] = 0
                   /\ \A k \in 1..Len(s) : so[k] = so[k - 1] + s[k]
                   /\ so[Len(s)] = Total(s)
<1> DEFINE n == Len(s)
           P(iter) == iter = [t \in SUBSET (DOMAIN s) |->
                IF t = {} THEN 0 ELSE iter[t \ {Text!Max(t)}] + s[Text!Max(t)]]
<1>1. n \in Nat /\ DOMAIN s = 1..n
  OBVIOUS
<1>2. Total(s) = (CHOOSE iter : P(iter))[DOMAIN s]
  BY Zenon DEF Total, Text!FoldLeft, Text!MapThenFoldSet
<1>3. \A iter : P(iter) <=> FoldOf("total", 0, s, 1..n, iter)
  <2>1. \A t : Text!Max(t) = Laws!Max(t)
    BY DEF Text!Max, Laws!Max
  <2> QED BY <1>1, <2>1 DEF FoldOf, Joined
<1>4. Total(s) = Folded("total", 0, s, n)
  <2>1. (CHOOSE iter : P(iter)) = CHOOSE iter : FoldOf("total", 0, s, 1..n, iter)
    <3> HIDE DEF P
    <3> QED BY <1>3
  <2> QED BY <1>1, <1>2, <2>1 DEF Folded
<1>5. PICK so : Steps(so, "total", 0, s, n)
  <2> HIDE DEF n
  <2> QED BY <1>1, FoldSteps
<1>6. /\ so[0] = 0
      /\ \A k \in 1..n : so[k] = Joined("total", so[k - 1], s[k])
      /\ so[n] = Folded("total", 0, s, n)
  BY <1>5 DEF Steps
<1>7. \A k \in 1..n : so[k] = so[k - 1] + s[k]
  BY <1>6 DEF Joined
<1> QED BY <1>4, <1>6, <1>7

\* The shares of digits by their places, and nothing for what is no digit.
Shared(shares, c, t, n) ==
    /\ n \in Nat /\ Len(shares) = n /\ t \in Numeric
    /\ c[0] = 0 /\ c[n] = Len(t)
    /\ \A i \in 1..n : \/ c[i] = c[i - 1] /\ shares[i] = 0
                       \/ /\ c[i] = c[i - 1] + 1 /\ c[i] \in 1..Len(t)
                          /\ shares[i] = Text!ValueOf(t[c[i]]) * 10^(Len(t) - c[i])

\* They add up to the number.
LEMMA Weighed ==
    ASSUME Laws!PowersOfTen(Nat), NEW S, NEW shares \in Seq(S), NEW c, NEW t, NEW n,
           Shared(shares, c, t, n)
    PROVE  Total(shares) = Number(t)
<1> DEFINE len == Len(t)  First(k) == SubSeq(t, 1, k)  q(k) == 10^k
<1>1. /\ n \in Nat /\ Len(shares) = n /\ t \in Numeric
      /\ c[0] = 0 /\ c[n] = len
      /\ \A i \in 1..n : \/ c[i] = c[i - 1] /\ shares[i] = 0
                         \/ /\ c[i] = c[i - 1] + 1 /\ c[i] \in 1..len
                            /\ shares[i] = Text!ValueOf(t[c[i]]) * q(len - c[i])
  BY DEF Shared
<1>2. PICK so : /\ so[0] = 0
                /\ \A k \in 1..n : so[k] = so[k - 1] + shares[k]
                /\ so[n] = Total(shares)
  BY <1>1, TotalSteps
<1>3. /\ len \in Nat /\ First(0) = << >> /\ First(len) = t
      /\ \A j \in 0..len : First(j) \in Numeric
      /\ \A j \in 0..len : j + 1 <= len =>
            t[j + 1] \in Text!DigitSet /\ First(j + 1) = Append(First(j), t[j + 1])
  BY <1>1, FirstDigits
<1>4. \A k \in Nat : q(k) \in Nat /\ q(k + 1) = 10 * q(k)
  <2>1. 1 \in Nat /\ 10^1 = 10
    OBVIOUS
  <2>2. \A k, l \in Nat : 10^k \in Nat \ {0} /\ 10^(k + l) = 10^k * 10^l
    BY DEF Laws!PowersOfTen
  <2>3. ASSUME NEW k \in Nat PROVE q(k) \in Nat /\ q(k + 1) = 10 * q(k)
    <3>1. q(k) \in Nat /\ q(k + 1) = q(k) * 10
      BY <2>1, <2>2
    <3> HIDE DEF q
    <3> QED BY <3>1
  <2> QED BY <2>3
<1>5. q(0) = 1
  OBVIOUS
<1> HIDE DEF q, First, len
<1> DEFINE Right(k) == c[k] \in 0..len /\ so[k] = Number(First(c[k])) * q(len - c[k])
           G == {k \in 0..n : Right(k)}
<1>6. Right(0)
  <2>1. Number(First(0)) = 0 /\ len - 0 = len /\ q(len) \in Nat
    BY <1>3, <1>4, NumberIs
  <2>2. 0 * q(len) = 0
    BY <2>1
  <2> QED BY <1>1, <1>2, <1>3, <2>1, <2>2
<1>7. ASSUME NEW k \in 0..n, Right(k), k + 1 <= n PROVE Right(k + 1)
  <2>1. k + 1 \in 1..n /\ (k + 1) - 1 = k
    BY <1>1, <1>7
  <2>2. so[k + 1] = so[k] + shares[k + 1]
    BY <1>2, <2>1
  <2> DEFINE j == c[k]
  <2>3. j \in 0..len /\ so[k] = Number(First(j)) * q(len - j)
    BY <1>7
  <2>4. \/ c[k + 1] = j /\ shares[k + 1] = 0
        \/ /\ c[k + 1] = j + 1 /\ j + 1 \in 1..len
           /\ shares[k + 1] = Text!ValueOf(t[j + 1]) * q(len - (j + 1))
    BY <1>1, <2>1
  <2> HIDE DEF j
  <2> DEFINE a == Number(First(j))
  <2>5. a \in Nat /\ len - j \in Nat /\ q(len - j) \in Nat
    <3>1. len - j \in Nat /\ First(j) \in Numeric
      BY <1>3, <2>3
    <3>2. a \in Nat
      BY <3>1, NumberIs
    <3> QED BY <1>4, <3>1, <3>2
  <2>6. CASE c[k + 1] = j /\ shares[k + 1] = 0
    <3> HIDE DEF a
    <3>1. so[k] \in Nat
      BY <2>3, <2>5 DEF a
    <3> QED BY <2>2, <2>3, <2>6, <3>1
  <2>7. CASE /\ c[k + 1] = j + 1 /\ j + 1 \in 1..len
             /\ shares[k + 1] = Text!ValueOf(t[j + 1]) * q(len - (j + 1))
    <3> DEFINE v == Text!ValueOf(t[j + 1])  r == len - (j + 1)
    <3>1. j + 1 <= len /\ r \in Nat /\ r + 1 = len - j /\ j + 1 \in 0..len
      BY <1>3, <2>3, <2>7
    <3>2. t[j + 1] \in Text!DigitSet /\ First(j + 1) = Append(First(j), t[j + 1]) /\ First(j) \in Numeric
      BY <1>3, <2>3, <3>1
    <3>3. Number(First(j + 1)) = 10 * a + v /\ v \in 0..9
      BY <3>2, NumberIs, DigitsAre
    <3> HIDE DEF v, r, a
    <3>4. q(len - j) = 10 * q(r) /\ q(r) \in Nat
      BY <1>4, <3>1
    <3> DEFINE w == q(r)
    <3>5. w \in Nat /\ so[k + 1] = a * (10 * w) + v * w
      BY <2>2, <2>3, <2>7, <3>4 DEF a, v, r
    <3> HIDE DEF w
    <3>6. a * (10 * w) + v * w = (10 * a + v) * w
      BY <2>5, <3>3, <3>5
    <3> QED BY <2>7, <3>1, <3>3, <3>5, <3>6 DEF w, r
  <2> QED BY <2>4, <2>6, <2>7
<1>8. 0..n \subseteq G
  <2> HIDE DEF Right
  <2>1. 0 \in G /\ \A k \in 0..n : k \in G /\ k + 1 <= n => k + 1 \in G
    <3>1. \A k \in 0..n : k + 1 <= n => k + 1 \in 0..n
      BY <1>1
    <3> QED BY <1>1, <1>6, <1>7, <3>1
  <2> HIDE DEF G
  <2> QED BY <1>1, <2>1, UpTo
<1>9. Right(n)
  <2> HIDE DEF Right
  <2> QED BY <1>1, <1>8
<1>10. so[n] = Number(t) * q(0)
  <2>1. len - len = 0
    BY <1>3
  <2> QED BY <1>1, <1>3, <1>9, <2>1
<1>11. Number(t) \in Nat
  BY <1>1, NumberIs
<1>12. Number(t) * 1 = Number(t)
  BY <1>11
<1> QED BY <1>2, <1>5, <1>10, <1>12

-----------------------------------------------------------------------------
(* Which texts are read. *)

\* Every digit is a character that is neither the sign nor the point.
LEMMA DigitFrom ==
    ASSUME NEW S, NEW m \in Seq(S), NEW j \in 1..Len(Unsigned(Parsed(m)))
    PROVE  \E i \in 1..Len(m) : i \notin {SignAt(m), PointAt(m)} /\ Digits(m, i) = j
<1> DEFINE pt == PointAt(m)  n == Len(m)  sg == SignAt(m)  len == Len(Unsigned(Parsed(m)))
<1>1. /\ pt \in 0..n /\ n \in Nat /\ sg \in 0..n
      /\ sg # 0 => sg # pt /\ sg - Skip(pt, sg) = 1
      /\ len = n - Skip(sg, n) - Skip(pt, n) /\ len \in Nat
      /\ \A i : Digits(m, i) = i - Skip(sg, i) - Skip(pt, i)
  BY PointIs, SignIs, DigitsOf DEF Digits
<1> HIDE DEF pt, n, sg, len
<1> DEFINE k == j + IF sg # 0 THEN 1 ELSE 0
           i == IF pt # 0 /\ k >= pt THEN k + 1 ELSE k
<1>2. j \in 1..len
  BY DEF len
<1>3. Skip(sg, n) = (IF sg # 0 THEN 1 ELSE 0) /\ Skip(pt, n) = (IF pt # 0 THEN 1 ELSE 0)
  BY <1>1 DEF Skip
<1>4. i \in 1..n /\ i # pt
  BY <1>1, <1>2, <1>3
<1>5. i # sg /\ Skip(sg, i) = IF sg # 0 THEN 1 ELSE 0
  BY <1>1, <1>2, <1>4 DEF Skip
<1>6. Skip(pt, i) = i - k
  BY <1>1, <1>2 DEF Skip
<1>7. i - Skip(sg, i) - Skip(pt, i) = j
  BY <1>1, <1>2, <1>4, <1>5, <1>6
<1>8. Digits(m, i) = j
  <2> HIDE DEF i
  <2> QED BY <1>1, <1>7
<1> HIDE DEF i
<1> QED BY <1>4, <1>5, <1>8 DEF n, sg, pt

\* A number: what the code takes, what WellFormed takes, and both in one.
Taken(m) ==
    /\ PointAt(m) # 0 => "." \notin Text!ToSet(Fraction(m))
    /\ Unsigned(Parsed(m)) \in Numeric /\ Unsigned(Parsed(m)) # << >>
Formed(m) ==
    /\ Text!ToSet(Body(m)) \subseteq Text!DigitSet \cup {"."}
    /\ Text!ToSet(Body(m)) \cap Text!DigitSet # {}
    /\ \A i, j \in 1..Len(Body(m)) : Body(m)[i] = "." /\ Body(m)[j] = "." => i = j
Clear(m) ==
    /\ \A i \in 1..Len(m) : i \notin {SignAt(m), PointAt(m)} => m[i] \in Text!DigitSet
    /\ \E i \in 1..Len(m) : i \notin {SignAt(m), PointAt(m)}

\* The code takes digits, a sign and a point.
LEMMA TakenIs ==
    ASSUME NEW S, NEW m \in Seq(S)
    PROVE  Taken(m) <=> Clear(m)
<1> DEFINE pt == PointAt(m)  n == Len(m)  sg == SignAt(m)  t == Unsigned(Parsed(m))
<1>1. /\ pt \in 0..n /\ n \in Nat /\ sg \in 0..n
      /\ sg # 0 => m[sg] \in SignChars
  BY PointIs, SignIs
<1>2. /\ t \in Seq(S) /\ Len(t) \in Nat /\ Len(t) = Digits(m, n)
      /\ \A i \in 1..n : i \notin {sg, pt} => Digits(m, i) \in 1..Len(t) /\ t[Digits(m, i)] = m[i]
      /\ \A j \in 1..Len(t) : \E i \in 1..n : i \notin {sg, pt} /\ Digits(m, i) = j
  BY DigitsOf, DigitFrom
<1>3. t \in Numeric <=> \A k \in 1..Len(t) : t[k] \in Text!DigitSet
  BY <1>2, NumericIs
<1>4. t # << >> <=> Len(t) > 0
  <2> HIDE DEF t
  <2> QED BY <1>2
<1> HIDE DEF pt, n, sg, t
<1>5. ASSUME Taken(m) PROVE Clear(m)
  <2>1. t \in Numeric /\ t # << >>
    BY <1>5 DEF Taken, t
  <2>2. \A i \in 1..n : i \notin {sg, pt} => m[i] \in Text!DigitSet
    BY <1>2, <1>3, <2>1
  <2>3. 1 \in 1..Len(t)
    BY <1>2, <1>4, <2>1
  <2>4. \E i \in 1..n : i \notin {sg, pt}
    BY <1>2, <2>3
  <2> QED BY <2>2, <2>4 DEF Clear, n, sg, pt
<1>6. ASSUME Clear(m) PROVE Taken(m)
  <2>1. /\ \A i \in 1..n : i \notin {sg, pt} => m[i] \in Text!DigitSet
        /\ \E i \in 1..n : i \notin {sg, pt}
    BY <1>6 DEF Clear, n, sg, pt
  <2>2. \A k \in 1..Len(t) : t[k] \in Text!DigitSet
    BY <1>2, <2>1
  <2>3. Len(t) > 0
    BY <1>2, <2>1
  <2>4. ASSUME pt # 0 PROVE "." \notin Text!ToSet(Fraction(m))
    <3> DEFINE f == SubSeq(m, pt + 1, n)
    <3>1. f \in Seq(S) /\ Len(f) = n - pt /\ \A k \in 1..(n - pt) : f[k] = m[pt + k]
      <4>1. pt \in 0..Len(m)
        BY <1>1 DEF n
      <4> QED BY <4>1, Cutting DEF n
    <3>2. Fraction(m) = f
      BY <2>4 DEF Fraction, pt, n
    <3> HIDE DEF f
    <3>3. ASSUME NEW k \in 1..Len(f) PROVE f[k] # "."
      <4>1. pt + k \in 1..n /\ pt + k # pt /\ k \in 1..(n - pt)
        BY <1>1, <2>4, <3>1
      <4>2. m[pt + k] # "."
        <5>1. CASE pt + k = sg
          <6>1. sg # 0
            BY <1>1, <4>1, <5>1
          <6> QED BY <1>1, <5>1, <6>1 DEF SignChars
        <5>2. CASE pt + k # sg
          BY <2>1, <4>1, <5>2, DigitsAre
        <5> QED BY <5>1, <5>2
      <4> QED BY <3>1, <4>1, <4>2
    <3> QED BY <3>1, <3>2, <3>3, IndexIs
  <2> QED BY <1>3, <1>4, <2>2, <2>3, <2>4 DEF Taken, t, pt
<1> QED BY <1>5, <1>6

\* So does WellFormed.
LEMMA FormedIs ==
    ASSUME NEW S, NEW m \in Seq(S)
    PROVE  Formed(m) <=> Clear(m)
<1> DEFINE pt == PointAt(m)  n == Len(m)  sg == SignAt(m)  body == Body(m)
           at(i) == i - Skip(sg, i)
<1>1. /\ pt \in 0..n /\ n \in Nat /\ sg \in 0..n
      /\ sg # 0 => m[sg] \in SignChars /\ sg # pt
      /\ pt # 0 => m[pt] = "."
      /\ \A i \in 1..n : m[i] = "." => pt # 0 /\ pt <= i
  BY PointIs, SignIs
<1>2. /\ body \in Seq(S \cup {"."}) /\ Len(body) = n - Skip(sg, n) /\ Len(body) \in Nat
      /\ \A i \in 1..n : i # sg => at(i) \in 1..Len(body) /\ body[at(i)] = m[i]
  <2>1. /\ body \in Seq(S \cup {"."}) /\ Len(body) = n - Skip(sg, n)
        /\ \A i \in 1..n : i # sg => at(i) \in 1..Len(body) /\ body[at(i)] = m[i]
    BY BodyOf
  <2> HIDE DEF body
  <2>2. Len(body) \in Nat
    BY <2>1
  <2> QED BY <2>1, <2>2
<1>3. /\ Text!ToSet(body) \subseteq Text!DigitSet \cup {"."}
            <=> \A j \in 1..Len(body) : body[j] \in Text!DigitSet \cup {"."}
      /\ Text!ToSet(body) \cap Text!DigitSet # {} <=> \E j \in 1..Len(body) : body[j] \in Text!DigitSet
  <2>1. Text!ToSet(body) = {body[j] : j \in 1..Len(body)}
    <3> HIDE DEF body
    <3>1. DOMAIN body = 1..Len(body)
      BY <1>2
    <3> QED BY <3>1 DEF Text!ToSet
  <2> HIDE DEF body
  <2> QED BY <2>1
<1>4. Formed(m) <=> /\ \A j \in 1..Len(body) : body[j] \in Text!DigitSet \cup {"."}
                    /\ \E j \in 1..Len(body) : body[j] \in Text!DigitSet
                    /\ \A j, j2 \in 1..Len(body) : body[j] = "." /\ body[j2] = "." => j = j2
  BY <1>3, Zenon DEF Formed
<1> HIDE DEF pt, n, sg, body
<1>5. \A j \in 1..Len(body) : \E i \in 1..n : i # sg /\ at(i) = j
  <2> SUFFICES ASSUME NEW j \in 1..Len(body) PROVE \E i \in 1..n : i # sg /\ at(i) = j
    OBVIOUS
  <2> DEFINE i == IF sg # 0 /\ j >= sg THEN j + 1 ELSE j
  <2>1. i \in 1..n /\ i # sg /\ at(i) = j
    BY <1>1, <1>2 DEF Skip
  <2> HIDE DEF i
  <2> QED BY <2>1
<1>6. \A i, i2 \in 1..n : i # sg /\ i2 # sg /\ at(i) = at(i2) => i = i2
  BY <1>1 DEF Skip
<1> HIDE DEF at
<1>7. "." \notin SignChars /\ "." \notin Text!DigitSet
  BY DigitsAre DEF SignChars
<1>8. ASSUME Formed(m) PROVE Clear(m)
  <2>1. ASSUME NEW i \in 1..n, i \notin {sg, pt} PROVE m[i] \in Text!DigitSet
    <3>1. at(i) \in 1..Len(body) /\ body[at(i)] = m[i]
      BY <1>2, <2>1
    <3>2. m[i] \in Text!DigitSet \cup {"."}
      BY <1>4, <1>8, <3>1
    <3>3. m[i] # "."
      <4> SUFFICES ASSUME m[i] = "." PROVE FALSE
        OBVIOUS
      <4>1. pt # 0 /\ pt \in 1..n /\ m[pt] = "." /\ pt # sg
        BY <1>1, <1>7
      <4>2. at(pt) \in 1..Len(body) /\ body[at(pt)] = "."
        BY <1>2, <4>1
      <4>3. at(pt) = at(i)
        BY <1>4, <1>8, <3>1, <4>2
      <4> QED BY <1>6, <2>1, <4>1, <4>3
    <3> QED BY <3>2, <3>3
  <2>2. \E i \in 1..n : i \notin {sg, pt}
    <3>1. PICK j \in 1..Len(body) : body[j] \in Text!DigitSet
      BY <1>4, <1>8
    <3>2. PICK i \in 1..n : i # sg /\ at(i) = j
      BY <1>5
    <3>3. m[i] \in Text!DigitSet
      BY <1>2, <3>1, <3>2
    <3>4. i # pt
      BY <1>1, <1>7, <3>3
    <3> QED BY <3>2, <3>4
  <2> QED BY <2>1, <2>2 DEF Clear, n, sg, pt
<1>9. ASSUME Clear(m) PROVE Formed(m)
  <2>1. /\ \A i \in 1..n : i \notin {sg, pt} => m[i] \in Text!DigitSet
        /\ \E i \in 1..n : i \notin {sg, pt}
    BY <1>9 DEF Clear, n, sg, pt
  <2>2. ASSUME NEW j \in 1..Len(body) PROVE body[j] \in Text!DigitSet \cup {"."}
    <3>1. PICK i \in 1..n : i # sg /\ at(i) = j
      BY <1>5
    <3>2. body[j] = m[i]
      BY <1>2, <3>1
    <3> QED BY <1>1, <2>1, <3>1, <3>2
  <2>3. \E j \in 1..Len(body) : body[j] \in Text!DigitSet
    BY <1>2, <2>1
  <2>4. ASSUME NEW j \in 1..Len(body), NEW j2 \in 1..Len(body), body[j] = ".", body[j2] = "."
        PROVE  j = j2
    <3>1. PICK i \in 1..n : i # sg /\ at(i) = j
      BY <1>5
    <3>2. PICK i2 \in 1..n : i2 # sg /\ at(i2) = j2
      BY <1>5
    <3>3. m[i] = "." /\ m[i2] = "."
      BY <1>2, <2>4, <3>1, <3>2
    <3>4. i = pt /\ i2 = pt
      BY <1>7, <2>1, <3>1, <3>2, <3>3
    <3> QED BY <3>1, <3>2, <3>4
  <2> QED BY <1>4, <2>2, <2>3, <2>4
<1> QED BY <1>8, <1>9

\* What a text is taken apart into: what stands before the exponent mark, and
\* the exponent.
Mantissa(text) ==
    IF Text!Index(text, "E") = 0 THEN text ELSE SubSeq(text, 1, Text!Index(text, "E") - 1)
AfterMark(text) == SubSeq(text, Text!Index(text, "E") + 1, Len(text))
Power(text) == IF Text!Index(text, "E") = 0 THEN 0 ELSE Text!ParseInt(AfterMark(text))

\* The places after the point, and whether both exponents are in range.
Places(m) == Len(Fraction(m))
InRange(text) ==
    {Power(text), Power(text) - Places(Mantissa(text))} \subseteq Text!MinExp..Text!MaxExp

\* They are sequences of the same characters; the exponent is one too,
\* if there is no error.
LEMMA ApartIs ==
    ASSUME NEW S, NEW text \in Seq(S)
    PROVE  /\ Mantissa(text) \in Seq(S) /\ AfterMark(text) \in Seq(S)
           /\ Text!Index(text, "E") \in 0..Len(text)
           /\ Power(text) \in Int \cup {Refused}
           /\ Text!Index(text, "E") = 0 => Power(text) = 0
           /\ Places(Mantissa(text)) \in Nat
           /\ Places(Mantissa(text)) = IF PointAt(Mantissa(text)) = 0 THEN 0
                                       ELSE Len(Mantissa(text)) - PointAt(Mantissa(text))
<1> DEFINE e == Text!Index(text, "E")  m == Mantissa(text)  a == AfterMark(text)
<1>1. Len(text) \in Nat
  OBVIOUS
<1>2. e \in 0..Len(text)
  <2>1. CASE "E" \in Text!ToSet(text)
    BY <1>1, <2>1, IndexIs
  <2>2. CASE "E" \notin Text!ToSet(text)
    BY <1>1, <2>2, IndexIs
  <2> QED BY <2>1, <2>2
<1> HIDE DEF e
<1>3. SubSeq(text, e + 1, Len(text)) \in Seq(S)
  BY <1>2, Cutting
<1>4. e # 0 => SubSeq(text, 1, e - 1) \in Seq(S)
  <2>1. e # 0 => e - 1 \in 0..Len(text)
    BY <1>1, <1>2
  <2> QED BY <2>1, Cutting
<1>5. m \in Seq(S) /\ a \in Seq(S)
  BY <1>3, <1>4 DEF m, a, e, Mantissa, AfterMark
<1> HIDE DEF m, a
<1>6. Text!ParseInt(a) \in Int \cup {Refused}
  <2>1. Unsigned(a) \in Numeric => Number(Unsigned(a)) \in Int /\ -Number(Unsigned(a)) \in Int
    BY NumberIs
  <2> QED BY <1>5, <2>1, ParseIs
<1>7. Power(text) = IF e = 0 THEN 0 ELSE Text!ParseInt(a)
  BY DEF Power, e, a
<1>8. PointAt(m) \in 0..Len(m) /\ Len(m) \in Nat
  BY <1>5, PointIs
<1>9. Len(Fraction(m)) = IF PointAt(m) = 0 THEN 0 ELSE Len(m) - PointAt(m)
  <2>1. CASE PointAt(m) = 0
    <3>1. Fraction(m) = << >>
      BY <2>1 DEF Fraction
    <3> QED BY <2>1, <3>1
  <2>2. CASE PointAt(m) # 0
    <3>1. Fraction(m) = SubSeq(m, PointAt(m) + 1, Len(m))
      BY <2>2 DEF Fraction
    <3>2. Len(SubSeq(m, PointAt(m) + 1, Len(m))) = Len(m) - PointAt(m)
      BY <1>5, <1>8, Cutting
    <3> QED BY <2>2, <3>1, <3>2
  <2> QED BY <2>1, <2>2
<1>10. Len(Fraction(m)) \in Nat
  BY <1>8, <1>9
<1>11. e = 0 => Power(text) = 0
  BY <1>7
<1>12. Power(text) \in Int \cup {Refused}
  BY <1>6, <1>7
<1> QED BY <1>2, <1>5, <1>9, <1>10, <1>11, <1>12 DEF m, a, e, Places

\* A text is read when it is a number and its exponents are in range.
LEMMA NewIsRead ==
    ASSUME Text!Parameters, NEW S, NEW text \in Seq(S)
    PROVE  LET m == Mantissa(text)
           IN  Text!NewFromString(text) =
                  IF Power(text) # Refused /\ InRange(text) /\ Taken(m)
                  THEN Text!New(Text!ParseInt(Parsed(m)), Power(text) - Places(m))
                  ELSE Refused
<1> DEFINE e == Text!Index(text, "E")  m == Mantissa(text)  power == Power(text)
           pt == PointAt(m)  f == Fraction(m)  n == Text!ParseInt(Parsed(m))
<1>1. /\ m \in Seq(S) /\ power \in Int \cup {Refused}
      /\ Len(f) \in Nat /\ Refused \notin Int
  BY ApartIs DEF Text!Parameters, Places
<1>2. Text!NewFromString(text) = Text!FromValue(m, pt, power)
  <2>1. CASE Text!Index(text, "E") = 0
    <3>1. Mantissa(text) = text /\ Power(text) = 0
      BY <2>1 DEF Mantissa, Power
    <3>2. Text!NewFromString(text) = Text!FromValue(text, Text!Index(text, "."), 0)
      BY <2>1, Zenon DEF Text!NewFromString
    <3> QED BY <3>1, <3>2 DEF PointAt
  <2>2. CASE Text!Index(text, "E") # 0
    <3>1. /\ Mantissa(text) = SubSeq(text, 1, Text!Index(text, "E") - 1)
          /\ Power(text) = Text!ParseInt(AfterMark(text))
      BY <2>2 DEF Mantissa, Power
    <3>2. Text!NewFromString(text) =
             Text!FromValue(SubSeq(text, 1, Text!Index(text, "E") - 1),
                            Text!Index(SubSeq(text, 1, Text!Index(text, "E") - 1), "."),
                            Text!ParseInt(SubSeq(text, Text!Index(text, "E") + 1, Len(text))))
      BY <2>2, Zenon DEF Text!NewFromString
    <3> QED BY <3>1, <3>2, Zenon DEF PointAt, AfterMark
  <2> QED BY <2>1, <2>2
<1>3. Parsed(m) \in Seq(S)
  BY <1>1, ParsedAre
<1> DEFINE d == Parsed(m)
<1>4. n = Refused <=> ~(Unsigned(d) \in Numeric /\ Unsigned(d) # << >>)
  <2>1. Unsigned(d) \in Numeric => Number(Unsigned(d)) \in Int /\ -Number(Unsigned(d)) \in Int
    BY NumberIs
  <2> HIDE DEF d
  <2>2. d \in Seq(S)
    BY <1>3 DEF d
  <2>3. n = Text!ParseInt(d)
    BY DEF d
  <2> HIDE DEF n
  <2> QED BY <1>1, <2>1, <2>2, <2>3, ParseIs
<1>5. Taken(m) <=> (pt # 0 => "." \notin Text!ToSet(f)) /\ n # Refused
  BY <1>4 DEF Taken
<1>6. InRange(text) <=> power \in Text!MinExp..Text!MaxExp /\ power - Len(f) \in Text!MinExp..Text!MaxExp
  BY DEF InRange, Places
<1>7. ASSUME pt = 0
      PROVE  Text!FromValue(m, pt, power) =
               IF power = Refused \/ power \notin Text!MinExp..Text!MaxExp THEN Refused
               ELSE Text!FromParts(n, power - Len(f))
  <2>1. f = << >> /\ d = m
    <3>1. Whole(m) = m /\ Fraction(m) = << >>
      BY <1>7 DEF Whole, Fraction
    <3>2. m \o << >> = m
      BY <1>1
    <3> QED BY <3>1, <3>2 DEF Parsed
  <2>2. Len(f) = 0
    BY <2>1
  <2>3. power # Refused => power - Len(f) = power
    BY <1>1, <2>2
  <2>4. n = Text!ParseInt(m)
    BY <2>1
  <2>5. Text!FromValue(m, pt, power) =
           IF power = Refused \/ power \notin Text!MinExp..Text!MaxExp THEN Refused
           ELSE Text!FromParts(Text!ParseInt(m), power)
    BY <1>7, Zenon DEF Text!FromValue
  <2> HIDE DEF n, f, m, pt, power
  <2> QED BY <2>3, <2>4, <2>5
<1>8. ASSUME pt # 0
      PROVE  Text!FromValue(m, pt, power) =
               IF power = Refused \/ power \notin Text!MinExp..Text!MaxExp THEN Refused
               ELSE IF "." \in Text!ToSet(f) THEN Refused
               ELSE Text!FromParts(n, power - Len(f))
  <2>1. f = SubSeq(m, pt + 1, Len(m)) /\ d = SubSeq(m, 1, pt - 1) \o f
    BY <1>8 DEF Whole, Fraction, Parsed
  <2>2. Text!FromValue(m, pt, power) =
           IF power = Refused \/ power \notin Text!MinExp..Text!MaxExp THEN Refused
           ELSE IF "." \in Text!ToSet(SubSeq(m, pt + 1, Len(m))) THEN Refused
           ELSE Text!FromParts(Text!ParseInt(SubSeq(m, 1, pt - 1) \o SubSeq(m, pt + 1, Len(m))),
                               power - Len(SubSeq(m, pt + 1, Len(m))))
    BY <1>8, Zenon DEF Text!FromValue
  <2>3. n = Text!ParseInt(SubSeq(m, 1, pt - 1) \o f)
    BY <2>1
  <2> HIDE DEF n, f, m, pt, power, d
  <2> QED BY <2>1, <2>2, <2>3
<1>9. ASSUME power # Refused
      PROVE  Text!FromParts(n, power - Len(f)) =
                IF n = Refused \/ power - Len(f) \notin Text!MinExp..Text!MaxExp THEN Refused
                ELSE Text!New(n, power - Len(f))
  <2>1. power - Len(f) # Refused
    <3> HIDE DEF power, f
    <3> QED BY <1>1, <1>9
  <2> HIDE DEF n, f, power
  <2> QED BY <2>1, Zenon DEF Text!FromParts
<1>10. Places(m) = Len(f)
  BY DEF Places
<1>11. Text!FromValue(m, pt, power) =
         IF power # Refused /\ InRange(text) /\ Taken(m) THEN Text!New(n, power - Len(f)) ELSE Refused
  <2> HIDE DEF n, f, m, pt, power, d
  <2> QED BY <1>5, <1>6, <1>7, <1>8, <1>9
<1> QED BY <1>2, <1>10, <1>11

\* A text that is well formed is one that is read, if its exponents are in
\* range.
LEMMA WellFormedIs ==
    ASSUME Text!Parameters, NEW S, NEW text \in Seq(S)
    PROVE  Text!WellFormed(text) <=> Taken(Mantissa(text)) /\ Power(text) # Refused
<1> DEFINE e == Text!Index(text, "E")  m == Mantissa(text)  a == AfterMark(text)
<1>1. /\ m \in Seq(S) /\ a \in Seq(S) /\ Refused \notin Int
      /\ e = 0 => Power(text) = 0
      /\ e # 0 => Power(text) = Text!ParseInt(a)
  BY ApartIs DEF Text!Parameters, Power
<1>2. Text!WellFormed(text) <=>
         /\ Formed(m)
         /\ e # 0 => Unsigned(a) # << >> /\ Text!ToSet(Unsigned(a)) \subseteq Text!DigitSet
  BY Zenon DEF Text!WellFormed, Formed, Body, Unsigned, SignChars, Mantissa, AfterMark
<1> HIDE DEF e, m, a
<1>3. Text!ParseInt(a) # Refused <=>
         Unsigned(a) # << >> /\ Text!ToSet(Unsigned(a)) \subseteq Text!DigitSet
  <2>1. Unsigned(a) \in Numeric => Number(Unsigned(a)) \in Int /\ -Number(Unsigned(a)) \in Int
    BY NumberIs
  <2>2. Unsigned(a) \in Seq(S)
    BY <1>1, UnsignedIs
  <2>3. Text!ToSet(Unsigned(a)) \subseteq Text!DigitSet <=> Unsigned(a) \in Numeric
    BY <2>2, NumericIs
  <2> QED BY <1>1, <2>1, <2>3, ParseIs
<1>4. Formed(m) <=> Taken(m)
  BY <1>1, TakenIs, FormedIs
<1>5. Power(text) # Refused <=> (e # 0 => Text!ParseInt(a) # Refused)
  BY <1>1
<1>6. Text!WellFormed(text) <=> Taken(m) /\ Power(text) # Refused
  BY <1>2, <1>3, <1>4, <1>5
<1> QED BY <1>6 DEF m

\* What the digits of a number are worth by their places, in units of its last
\* place.
Share(m) ==
    LET point == IF "." \in Text!ToSet(m) THEN Text!Index(m, ".") ELSE Len(m) + 1
        fraction == Len(m) - (IF point > Len(m) THEN Len(m) ELSE point)
        Place(i) == IF i < point THEN point - i - 1 ELSE point - i
    IN  [i \in 1..Len(m) |-> IF m[i] \in Text!DigitSet
                             THEN Text!ValueOf(m[i]) * 10^(Place(i) + fraction) ELSE 0]

\* The place of a digit counts those after it.
LEMMA PlaceIs ==
    ASSUME NEW S, NEW m \in Seq(S), NEW i \in 1..Len(m), i \notin {SignAt(m), PointAt(m)}
    PROVE  LET pt == PointAt(m)  n == Len(m)
               point == IF pt # 0 THEN pt ELSE n + 1
               fraction == n - (IF point > n THEN n ELSE point)
           IN  (IF i < point THEN point - i - 1 ELSE point - i) + fraction
                  = Digits(m, n) - Digits(m, i)
<1>1. PointAt(m) \in 0..Len(m) /\ Len(m) \in Nat /\ i \in 1..Len(m)
  BY PointIs
<1>2. /\ SignAt(m) \in 0..Len(m) /\ SignAt(m) \in {0, 1, 2}
      /\ SignAt(m) # 0 => SignAt(m) - Skip(PointAt(m), SignAt(m)) = 1
      /\ SignAt(m) # 0 => SignAt(m) # PointAt(m)
  BY SignIs
<1> DEFINE pt == PointAt(m)  n == Len(m)  sg == SignAt(m)
<1>3. Digits(m, n) = n - Skip(sg, n) - Skip(pt, n) /\ Digits(m, i) = i - Skip(sg, i) - Skip(pt, i)
  BY DEF Digits
<1>4. i # sg /\ i # pt
  OBVIOUS
<1> HIDE DEF pt, n, sg
<1>5. i > sg \/ sg = 0
  BY <1>1, <1>2, <1>4 DEF pt, n, sg, Skip
<1>6. Skip(sg, n) = Skip(sg, i)
  BY <1>1, <1>2, <1>5 DEF Skip, n, sg
<1>7. Skip(sg, i) \in {0, 1}
  BY DEF Skip
<1>8. /\ Skip(pt, n) = IF pt = 0 THEN 0 ELSE 1
      /\ Skip(pt, i) = IF pt = 0 \/ i < pt THEN 0 ELSE 1
  BY <1>1 DEF Skip, pt, n
<1>9. (IF i < (IF pt # 0 THEN pt ELSE n + 1) THEN (IF pt # 0 THEN pt ELSE n + 1) - i - 1
       ELSE (IF pt # 0 THEN pt ELSE n + 1) - i)
        + (n - (IF (IF pt # 0 THEN pt ELSE n + 1) > n THEN n ELSE (IF pt # 0 THEN pt ELSE n + 1)))
      = Digits(m, n) - Digits(m, i)
  <2>1. pt \in 0..n /\ n \in Nat /\ i \in 1..n
    BY <1>1 DEF pt, n
  <2>2. Digits(m, n) - Digits(m, i) = (n - Skip(pt, n)) - (i - Skip(pt, i))
    <3>1. Skip(pt, n) \in Int /\ Skip(pt, i) \in Int
      BY <1>8
    <3> QED BY <1>3, <1>6, <1>7, <2>1, <3>1
  <2> QED BY <1>4, <1>8, <2>1, <2>2
<1> QED BY <1>9 DEF pt, n

\* The shares of a number add up to it.
LEMMA WorthIs ==
    ASSUME Laws!PowersOfTen(Nat), NEW S, NEW m \in Seq(S), Taken(m)
    PROVE  Total(Share(m)) = Number(Unsigned(Parsed(m)))
<1> DEFINE pt == PointAt(m)  n == Len(m)  sg == SignAt(m)  t == Unsigned(Parsed(m))
           sh == Share(m)  c == [i \in 0..n |-> Digits(m, i)]
           point == IF pt # 0 THEN pt ELSE n + 1
           fraction == n - (IF point > n THEN n ELSE point)
           Place(i) == IF i < point THEN point - i - 1 ELSE point - i
<1>1. /\ pt \in 0..n /\ n \in Nat /\ sg \in 0..n
      /\ pt # 0 => m[pt] = "."
      /\ sg # 0 => m[sg] \in SignChars /\ sg # pt
  BY PointIs, SignIs
<1>2. /\ Len(t) = Digits(m, n) /\ Len(t) \in Nat
      /\ \A i \in 1..n : i \notin {sg, pt} => Digits(m, i) \in 1..Len(t) /\ t[Digits(m, i)] = m[i]
      /\ \A i \in 1..n : i # pt => Digits(m, i) = Digits(m, i - 1) + (IF i = sg THEN 0 ELSE 1)
      /\ pt # 0 => Digits(m, pt) = Digits(m, pt - 1)
      /\ Digits(m, 0) = 0
  BY DigitsOf
<1>3. t \in Numeric
  BY DEF Taken
<1>4. \A i \in 1..n : i \notin {sg, pt} => m[i] \in Text!DigitSet
  BY TakenIs DEF Clear
<1>5. pt = (IF "." \in Text!ToSet(m) THEN Text!Index(m, ".") ELSE 0) /\ ("." \in Text!ToSet(m) => pt # 0)
  BY IndexIs DEF PointAt
<1>6. /\ sh = [i \in 1..n |-> IF m[i] \in Text!DigitSet
                             THEN Text!ValueOf(m[i]) * 10^(Place(i) + fraction) ELSE 0]
  <2>1. point = IF "." \in Text!ToSet(m) THEN Text!Index(m, ".") ELSE Len(m) + 1
    BY <1>5
  <2> HIDE DEF point
  <2> QED BY <2>1 DEF Share
<1>7. \A i \in 1..n : i \notin {sg, pt} => Place(i) + fraction = Digits(m, n) - Digits(m, i)
  BY PlaceIs
<1> DEFINE P(i) == Place(i) + fraction
<1> HIDE DEF P
<1>8. \A i \in 1..n : sh[i] = IF m[i] \in Text!DigitSet THEN Text!ValueOf(m[i]) * 10^P(i) ELSE 0
  BY <1>6 DEF P
<1>9. \A i \in 1..n : i \notin {sg, pt} => P(i) = Len(t) - Digits(m, i)
  BY <1>2, <1>7 DEF P
<1>10. sh \in Seq({sh[i] : i \in 1..n}) /\ Len(sh) = n
  <2>1. DOMAIN sh = 1..n /\ sh = [i \in 1..n |-> sh[i]]
    BY <1>6
  <2> HIDE DEF sh
  <2> QED BY <1>1, <2>1
<1> HIDE DEF pt, n, sg, t, sh, point, fraction, Place
<1>11. c[0] = 0 /\ c[n] = Len(t) /\ \A i \in 1..n : c[i] = Digits(m, i) /\ c[i - 1] = Digits(m, i - 1)
  <2>1. \A i \in 0..n : c[i] = Digits(m, i)
    OBVIOUS
  <2>2. 0 \in 0..n /\ n \in 0..n /\ \A i \in 1..n : i \in 0..n /\ i - 1 \in 0..n
    BY <1>1
  <2> HIDE DEF c
  <2> QED BY <1>2, <2>1, <2>2
<1> HIDE DEF c
<1>12. ASSUME NEW i \in 1..n
       PROVE  \/ c[i] = c[i - 1] /\ sh[i] = 0
              \/ /\ c[i] = c[i - 1] + 1 /\ c[i] \in 1..Len(t)
                 /\ sh[i] = Text!ValueOf(t[c[i]]) * 10^(Len(t) - c[i])
  <2>1. CASE i \notin {sg, pt}
    <3>1. c[i] = c[i - 1] + 1 /\ c[i] \in 1..Len(t) /\ t[c[i]] = m[i]
      BY <1>2, <1>11, <2>1
    <3>2. P(i) = Len(t) - c[i]
      BY <1>9, <1>11, <2>1
    <3>3. sh[i] = Text!ValueOf(m[i]) * 10^P(i)
      BY <1>4, <1>8, <2>1
    <3> QED BY <3>1, <3>2, <3>3
  <2>2. CASE i = pt
    <3>1. pt # 0 /\ m[i] = "."
      BY <1>1, <2>2
    <3>2. m[i] \notin Text!DigitSet
      BY <3>1, DigitsAre
    <3>3. Digits(m, i) = Digits(m, i - 1)
      BY <1>2, <2>2, <3>1
    <3>4. c[i] = c[i - 1]
      BY <1>11, <3>3
    <3> QED BY <1>8, <3>2, <3>4
  <2>3. CASE i = sg /\ i # pt
    <3>1. m[i] \notin Text!DigitSet
      BY <1>1, <2>3, DigitsAre DEF SignChars
    <3>2. Digits(m, i) = Digits(m, i - 1) + 0
      BY <1>2, <2>3
    <3>3. Digits(m, i - 1) \in Int
      <4>1. Skip(SignAt(m), i - 1) \in {0, 1} /\ Skip(PointAt(m), i - 1) \in {0, 1}
        BY DEF Skip
      <4>2. i \in Int
        BY <1>1
      <4> QED BY <4>1, <4>2 DEF Digits
    <3>4. c[i] = c[i - 1]
      BY <1>11, <3>2, <3>3
    <3> QED BY <1>8, <3>1, <3>4
  <2> QED BY <2>1, <2>2, <2>3
<1>13. Shared(sh, c, t, n)
  BY <1>1, <1>3, <1>10, <1>11, <1>12, Zenon DEF Shared
<1>14. Total(sh) = Number(t)
  <2> DEFINE R == {sh[i] : i \in 1..n}
  <2>1. sh \in Seq(R)
    BY <1>10
  <2> HIDE DEF R
  <2> QED BY <1>13, <2>1, Weighed
<1> QED BY <1>14 DEF sh, t

-----------------------------------------------------------------------------
(* What is assigned from a text. *)

\* A number is negative if a minus sign is written before it.
LEMMA MinusIs ==
    ASSUME NEW S, NEW m \in Seq(S), Taken(m)
    PROVE  "-" \in Text!ToSet(m) <=> Parsed(m) # << >> /\ Head(Parsed(m)) = "-"
<1>1. /\ PointAt(m) # 0 => m[PointAt(m)] = "."
      /\ SignAt(m) \in 0..Len(m) /\ Len(m) \in Nat
      /\ SignAt(m) # 0 <=> Parsed(m) # << >> /\ Head(Parsed(m)) \in SignChars
      /\ SignAt(m) # 0 => Head(Parsed(m)) = m[SignAt(m)]
  BY PointIs, SignIs
<1>2. \A i \in 1..Len(m) : i \notin {SignAt(m), PointAt(m)} => m[i] \in Text!DigitSet
  BY TakenIs DEF Clear
<1>3. "-" \in Text!ToSet(m) <=> \E i \in 1..Len(m) : m[i] = "-"
  BY IndexIs
<1>4. ASSUME NEW i \in 1..Len(m), m[i] = "-" PROVE i = SignAt(m) /\ SignAt(m) # 0
  <2>1. m[i] \notin Text!DigitSet
    BY <1>4, DigitsAre
  <2>2. i # PointAt(m)
    <3> SUFFICES ASSUME i = PointAt(m) PROVE FALSE
      OBVIOUS
    <3>1. PointAt(m) # 0
      BY <1>1
    <3>2. m[i] = "."
      BY <1>1, <3>1
    <3> QED BY <1>4, <3>2
  <2>3. i = SignAt(m)
    BY <1>2, <2>1, <2>2
  <2> QED BY <1>1, <2>3
<1>5. ASSUME Parsed(m) # << >>, Head(Parsed(m)) = "-" PROVE \E i \in 1..Len(m) : m[i] = "-"
  <2>1. SignAt(m) # 0 /\ m[SignAt(m)] = "-"
    BY <1>1, <1>5 DEF SignChars
  <2>2. SignAt(m) \in 1..Len(m)
    BY <1>1, <2>1
  <2> QED BY <2>1, <2>2
<1>6. ASSUME NEW i \in 1..Len(m), m[i] = "-" PROVE Parsed(m) # << >> /\ Head(Parsed(m)) = "-"
  BY <1>1, <1>4, <1>6
<1> QED BY <1>3, <1>5, <1>6

\* What is assigned from a text is what its digits say, or a zero and an error.
LEMMA AssignedIs ==
    ASSUME Laws!PowersOfTen(Nat), Laws!Parameters, Text!Parameters, NEW S, NEW text \in Seq(S)
    PROVE  LET r == Text!Assigned(text)
               m == Mantissa(text)
           IN  /\ r.d \in Text!Decimals /\ r.failed \in BOOLEAN
               /\ r.failed <=> ~(Text!WellFormed(text) /\ InRange(text))
               /\ ~r.failed => /\ r.d.exp = Power(text) - Places(m)
                               /\ Text!Magnitude(Text!Val(r.d)) = Total(Share(m))
                               /\ Text!IsNegative(r.d) <=> "-" \in Text!ToSet(m) /\ Total(Share(m)) # 0
<1> DEFINE r == Text!Assigned(text)  m == Mantissa(text)  d == Parsed(m)  u == Unsigned(d)
           num == Text!NewFromString(text)  n == Text!ParseInt(d)  exp == Power(text) - Places(m)
           read == Power(text) # Refused /\ InRange(text) /\ Taken(m)
<1>1. m \in Seq(S) /\ Refused \notin Int /\ Nil \notin Int
  BY ApartIs DEF Text!Parameters, Laws!Parameters
<1>2. d \in Seq(S)
  BY <1>1, ParsedAre
<1>3. num = IF read THEN Text!New(n, exp) ELSE Refused
  BY NewIsRead
<1>4. read <=> Text!WellFormed(text) /\ InRange(text)
  BY WellFormedIs
<1>5. r = [d |-> IF num = Refused THEN Text!New(Nil, 0) ELSE num, failed |-> num = Refused]
  BY Zenon DEF Text!Assigned, Text!Stored, Text!Result, Text!Decimal0
<1>6. Text!New(Nil, 0) \in Text!Decimals
  <2>1. 0 \in Text!MinExp..Text!MaxExp
    <3>1. 0 \in -3..2
      OBVIOUS
    <3> QED BY <3>1 DEF Text!Parameters
  <2> QED BY <2>1 DEF Text!New, Text!Decimals
<1>7. ASSUME Taken(m)
      PROVE  /\ n = IF d # << >> /\ Head(d) = "-" THEN -Number(u) ELSE Number(u)
             /\ Number(u) \in Nat /\ n \in Int
  <2>1. u \in Numeric /\ u # << >>
    BY <1>7 DEF Taken
  <2>2. Number(u) \in Nat
    BY <2>1, NumberIs
  <2>3. n = IF d # << >> /\ Head(d) = "-" THEN -Number(u) ELSE Number(u)
    <3> HIDE DEF d
    <3> QED BY <1>2, <2>1, ParseIs DEF u
  <2>4. -Number(u) \in Int /\ Number(u) \in Int
    <3> HIDE DEF u
    <3> QED BY <2>2
  <2> QED BY <2>2, <2>3, <2>4
<1>8. ASSUME read PROVE exp \in Text!MinExp..Text!MaxExp
  BY <1>8 DEF InRange
<1>9. ASSUME read PROVE num \in Text!Decimals /\ num = Text!New(n, exp) /\ num # Refused
  <2>1. Text!New(n, exp) \in Text!Decimals
    <3> HIDE DEF n, exp
    <3> QED BY <1>7, <1>8, <1>9 DEF Text!New, Text!Decimals
  <2> QED BY <1>3, <1>9, <2>1, TextIs
<1>10. ASSUME read
       PROVE  /\ r.d.exp = exp
              /\ Text!Magnitude(Text!Val(r.d)) = Total(Share(m))
              /\ Text!IsNegative(r.d) <=> "-" \in Text!ToSet(m) /\ Total(Share(m)) # 0
  <2>1. r.d = Text!New(n, exp) /\ Taken(m)
    <3> HIDE DEF num, n, exp, r
    <3> QED BY <1>5, <1>9, <1>10
  <2>2. r.d.exp = exp /\ Text!Val(r.d) = n
    <3>1. n # Nil
      BY <1>1, <1>7, <2>1
    <3> HIDE DEF n, exp, r
    <3> QED BY <2>1, <3>1 DEF Text!New, Text!Val
  <2>3. Total(Share(m)) = Number(u)
    BY <1>1, <2>1, WorthIs
  <2>4. "-" \in Text!ToSet(m) <=> d # << >> /\ Head(d) = "-"
    BY <1>1, <2>1, MinusIs
  <2>5. /\ n = IF d # << >> /\ Head(d) = "-" THEN -Number(u) ELSE Number(u)
        /\ Number(u) \in Nat
    BY <1>7, <2>1
  <2> DEFINE w == Number(u)
  <2>6. Text!Magnitude(n) = w
    <3> HIDE DEF n, w, d
    <3> QED BY <2>5 DEF Text!Magnitude, w
  <2>7. Text!IsNegative(r.d) <=> n < 0
    <3>1. n \in Int
      BY <1>7, <2>1
    <3> HIDE DEF n, r
    <3> QED BY <2>2, <3>1 DEF Text!IsNegative, Text!Sign, Text!SignOf
  <2>8. n < 0 <=> (d # << >> /\ Head(d) = "-") /\ w # 0
    <3> HIDE DEF n, d, w
    <3> QED BY <2>5 DEF w
  <2> QED BY <2>2, <2>3, <2>4, <2>6, <2>7, <2>8
<1>11. r.failed <=> ~read
  <2> HIDE DEF num, read, r
  <2>1. r.failed = (num = Refused)
    BY <1>5
  <2>2. num = Refused <=> ~read
    BY <1>3, <1>9
  <2> QED BY <2>1, <2>2
<1>12. r.d \in Text!Decimals /\ r.failed \in BOOLEAN
  <2> HIDE DEF num, read
  <2> QED BY <1>3, <1>5, <1>6, <1>9
<1> HIDE DEF read, exp, r
<1> QED BY <1>4, <1>10, <1>11, <1>12 DEF r, exp

\* The inductive invariant of the text methods: besides what the variables hold,
\* what was assigned from a text is what the text says.
ReadInv ==
    input.by = "xml" => /\ input.is \in Seq(STRING)
                        /\ dec = Text!Assigned(input.is).d
                        /\ err.dec = Text!Assigned(input.is).failed

\* So every text is read as it is written.
LEMMA ReadsRight ==
    ASSUME Laws!PowersOfTen(Nat), Laws!Parameters, Text!Parameters, ReadInv
    PROVE  Text!ReadsAsWritten
<1> SUFFICES ASSUME input.by = "xml" PROVE Text!ReadsAsWritten
  BY Zenon DEF Text!ReadsAsWritten
<1> DEFINE text == input.is  m == Mantissa(text)  power == Power(text)
           point == IF "." \in Text!ToSet(m) THEN Text!Index(m, ".") ELSE Len(m) + 1
           fraction == Len(m) - (IF point > Len(m) THEN Len(m) ELSE point)
           worth == Total(Share(m))
<1>1. text \in Seq(STRING) /\ dec = Text!Assigned(text).d /\ err.dec = Text!Assigned(text).failed
  BY DEF ReadInv
<1>2. m \in Seq(STRING)
  BY <1>1, ApartIs
<1>3. fraction = Places(m)
  <2>1. Places(m) = IF PointAt(m) = 0 THEN 0 ELSE Len(m) - PointAt(m)
    BY <1>1, ApartIs
  <2>2. PointAt(m) \in 0..Len(m) /\ Len(m) \in Nat
    BY <1>2, PointIs
  <2>3. /\ PointAt(m) = Text!Index(m, ".")
        /\ "." \in Text!ToSet(m) <=> PointAt(m) # 0
    BY <1>2, IndexIs DEF PointAt
  <2>4. point = IF PointAt(m) # 0 THEN PointAt(m) ELSE Len(m) + 1
    BY <2>3
  <2> HIDE DEF point, m
  <2> QED BY <2>1, <2>2, <2>4
<1>4. Text!ReadsAsWritten <=>
        /\ err.dec = ~(Text!WellFormed(text)
                       /\ {power, power - fraction} \subseteq Text!MinExp..Text!MaxExp)
        /\ ~err.dec =>
              /\ dec.exp = power - fraction
              /\ Text!Magnitude(Text!Val(dec)) = worth
              /\ Text!IsNegative(dec) <=> "-" \in Text!ToSet(m) /\ worth # 0
  BY Zenon DEF Text!ReadsAsWritten, Mantissa, Power, AfterMark, Total, Share
<1>5. InRange(text) <=> {power, power - Places(m)} \subseteq Text!MinExp..Text!MaxExp
  BY DEF InRange
<1>6. LET r == Text!Assigned(text)
      IN  /\ r.d \in Text!Decimals /\ r.failed \in BOOLEAN
          /\ r.failed <=> ~(Text!WellFormed(text) /\ InRange(text))
          /\ ~r.failed => /\ r.d.exp = Power(text) - Places(m)
                          /\ Text!Magnitude(Text!Val(r.d)) = Total(Share(m))
                          /\ Text!IsNegative(r.d) <=> "-" \in Text!ToSet(m) /\ Total(Share(m)) # 0
  BY <1>1, AssignedIs
<1> HIDE DEF text, m, power, fraction, point
<1>7. err.dec = ~(Text!WellFormed(text) /\ InRange(text))
  BY <1>1, <1>6
<1>8. ~err.dec => /\ dec.exp = power - Places(m)
                  /\ Text!Magnitude(Text!Val(dec)) = worth
                  /\ Text!IsNegative(dec) <=> "-" \in Text!ToSet(m) /\ worth # 0
  BY <1>1, <1>6 DEF power
<1> HIDE DEF worth
<1> QED BY <1>3, <1>4, <1>5, <1>7, <1>8

-----------------------------------------------------------------------------
(* The decoders, and the theorem. *)

\* What is decoded into a number is a number.
LEMMA DecodedIs ==
    ASSUME Laws!PowersOfTen(Nat), Laws!Parameters, Text!Parameters, NEW old \in Text!Decimals
    PROVE  /\ \A text \in Texts : /\ text \in Seq(STRING)
                                  /\ Text!UnmarshalJSON(old, text).d \in Text!Decimals
                                  /\ Text!UnmarshalText(old, text) = Text!Assigned(text)
                                  /\ Text!Assigned(text).d \in Text!Decimals
                                  /\ Text!Assigned(text).failed \in BOOLEAN
           /\ \A column \in Text!Columns : /\ column.kind # "xml"
                                           /\ Text!Scan(old, column).d \in Text!Decimals
<1>1. Texts \subseteq Seq(STRING)
  BY DEF Text!Parameters
<1>2. \A text \in Seq(STRING) : /\ Text!Assigned(text).d \in Text!Decimals
                                /\ Text!Assigned(text).failed \in BOOLEAN
  BY AssignedIs
<1>3. \A text \in Seq(STRING) : Text!UnquoteIfQuoted(text) \in Seq(STRING)
  <2> SUFFICES ASSUME NEW text \in Seq(STRING) PROVE Text!UnquoteIfQuoted(text) \in Seq(STRING)
    OBVIOUS
  <2>1. Len(text) > 2 => SubSeq(text, 2, Len(text) - 1) \in Seq(STRING)
    OBVIOUS
  <2> QED BY <2>1 DEF Text!UnquoteIfQuoted
<1>4. \A n \in {-5, 0} : Text!New(n, 0) \in Text!Decimals
  <2>1. 0 \in Text!MinExp..Text!MaxExp
    <3>1. 0 \in -3..2
      OBVIOUS
    <3> QED BY <3>1 DEF Text!Parameters
  <2> QED BY <2>1 DEF Text!New, Text!Decimals
<1>5. \A d, failed : Text!Result(d, failed).d = d
  BY DEF Text!Result
<1>6. ASSUME NEW text \in Texts PROVE Text!UnmarshalJSON(old, text).d \in Text!Decimals
  BY <1>1, <1>2, <1>3, <1>5 DEF Text!UnmarshalJSON
<1>7. ASSUME NEW column \in Text!Columns
      PROVE  column.kind # "xml" /\ Text!Scan(old, column).d \in Text!Decimals
  <2>1. \/ column.kind = "text" /\ column.is \in Texts
        \/ column.kind = "number" /\ column.is \in {-5, 0}
        \/ column.kind \in {"null", "other"}
    BY DEF Text!Columns
  <2>2. CASE column.kind = "text" /\ column.is \in Texts
    <3>1. Text!Scan(old, column) = Text!Assigned(Text!UnquoteIfQuoted(column.is))
      BY <2>2 DEF Text!Scan
    <3> QED BY <1>1, <1>2, <1>3, <2>2, <3>1
  <2>3. CASE column.kind = "number" /\ column.is \in {-5, 0}
    <3>1. Text!Scan(old, column) = Text!Result(Text!New(column.is, 0), FALSE)
      BY <2>3 DEF Text!Scan
    <3> QED BY <1>4, <1>5, <2>3, <3>1
  <2>4. CASE column.kind \in {"null", "other"}
    <3>1. Text!Scan(old, column) = Text!Result(old, TRUE)
      BY <2>4 DEF Text!Scan
    <3> QED BY <1>5, <2>4, <3>1
  <2> QED BY <2>1, <2>2, <2>3, <2>4
<1>8. \A text \in Texts : Text!UnmarshalText(old, text) = Text!Assigned(text)
  BY DEF Text!UnmarshalText
<1> QED BY <1>1, <1>2, <1>6, <1>7, <1>8

\* Every decoder keeps the invariant.
LEMMA TextStep ==
    ASSUME Laws!PowersOfTen(Nat), Laws!Parameters, Text!Parameters, TextInv, ReadInv,
           [Text!Next]_(Text!vars)
    PROVE  TextInv' /\ ReadInv'
<1>1. dec \in Text!Decimals /\ nul.dec \in Text!Decimals /\ nul.valid \in BOOLEAN
  BY DEF TextInv
<1>2. TRUE \in BOOLEAN /\ FALSE \in BOOLEAN
  OBVIOUS
<1>3. \A d, valid : Text!Null(d, valid).dec = d /\ Text!Null(d, valid).valid = valid
  BY DEF Text!Null
<1>4. CASE Text!DecodeJSON
  <2>1. PICK text \in Texts :
          /\ dec' = Text!UnmarshalJSON(dec, text).d
          /\ nul' = IF text = <<"null">> THEN Text!Null(nul.dec, FALSE)
                    ELSE Text!Null(Text!UnmarshalJSON(nul.dec, text).d, TRUE)
          /\ input' = [by |-> "json", is |-> text]
    BY <1>4 DEF Text!DecodeJSON
  <2>2. dec' \in Text!Decimals /\ Text!UnmarshalJSON(nul.dec, text).d \in Text!Decimals
    BY <1>1, <2>1, DecodedIs
  <2>3. nul'.dec \in Text!Decimals /\ nul'.valid \in BOOLEAN
    BY <1>1, <1>2, <1>3, <2>1, <2>2
  <2>4. input'.by # "xml"
    BY <2>1
  <2> QED BY <2>2, <2>3, <2>4 DEF TextInv, ReadInv
<1>5. CASE Text!DecodeColumn
  <2>1. PICK column \in Text!Columns :
          /\ dec' = Text!Scan(dec, column).d
          /\ nul' = IF column.kind = "null" THEN Text!Null(nul.dec, FALSE)
                    ELSE Text!Null(Text!Scan(nul.dec, column).d, TRUE)
          /\ input' = [by |-> column.kind, is |-> column.is]
    BY <1>5 DEF Text!DecodeColumn
  <2>2. /\ dec' \in Text!Decimals /\ Text!Scan(nul.dec, column).d \in Text!Decimals
        /\ column.kind # "xml"
    BY <1>1, <2>1, DecodedIs
  <2>3. nul'.dec \in Text!Decimals /\ nul'.valid \in BOOLEAN
    BY <1>1, <1>2, <1>3, <2>1, <2>2
  <2>4. input'.by # "xml"
    BY <2>1, <2>2
  <2> QED BY <2>2, <2>3, <2>4 DEF TextInv, ReadInv
<1>6. CASE Text!DecodeText
  <2>1. PICK text \in Texts :
          /\ dec' = Text!UnmarshalText(dec, text).d
          /\ nul' = IF text = << >> THEN Text!Null(nul.dec, FALSE)
                    ELSE Text!Null(Text!UnmarshalText(dec, text).d, ~Text!UnmarshalText(dec, text).failed)
          /\ err' = [dec |-> Text!UnmarshalText(dec, text).failed,
                     nul |-> text # << >> /\ Text!UnmarshalText(dec, text).failed]
          /\ input' = [by |-> "xml", is |-> text]
    BY <1>6, Zenon DEF Text!DecodeText
  <2> DEFINE r == Text!Assigned(text)
  <2>2. /\ text \in Seq(STRING) /\ Text!UnmarshalText(dec, text) = r
        /\ r.d \in Text!Decimals /\ r.failed \in BOOLEAN
    BY <1>1, DecodedIs
  <2>3. dec' = r.d /\ err'.dec = r.failed /\ input'.is = text
    BY <2>1, <2>2
  <2>4. nul'.dec \in Text!Decimals /\ nul'.valid \in BOOLEAN
    <3>1. (~r.failed) \in BOOLEAN
      BY <2>2
    <3>2. nul' = IF text = << >> THEN Text!Null(nul.dec, FALSE) ELSE Text!Null(r.d, ~r.failed)
      BY <2>1, <2>2
    <3> HIDE DEF r
    <3>3. CASE text = << >>
      BY <1>1, <1>2, <1>3, <3>2, <3>3
    <3>4. CASE text # << >>
      <4> DEFINE b == ~r.failed
      <4>1. b \in BOOLEAN /\ nul' = Text!Null(r.d, b)
        BY <3>1, <3>2, <3>4
      <4> HIDE DEF b
      <4> QED BY <1>3, <2>2, <4>1
    <3> QED BY <3>3, <3>4
  <2>5. ReadInv'
    BY <2>2, <2>3 DEF ReadInv
  <2> QED BY <2>2, <2>3, <2>4, <2>5 DEF TextInv
<1>7. CASE UNCHANGED Text!vars
  BY <1>7 DEF Text!vars, TextInv, ReadInv
<1> QED BY <1>4, <1>5, <1>6, <1>7 DEF Text!Next

\* Whatever texts are read and written and whichever number a variable holds,
\* it is read back from everything it is written as, shown with the places that
\* were asked for, and what is read is what its digits say (TextFaithful).
THEOREM TextsFaithful ==
    ASSUME Laws!PowersOfTen(Nat)
    PROVE  Text!Spec => []TextFaithful
<1>1. Laws!Parameters /\ Text!Parameters
  BY LawsAssumption, TextAssumption
<1>2. Text!Init => TextInv /\ ReadInv
  <2> SUFFICES ASSUME Text!Init PROVE TextInv /\ ReadInv
    OBVIOUS
  <2>1. Text!Decimal0 \in Text!Decimals
    <3>1. 0 \in -3..2
      OBVIOUS
    <3>2. 0 \in Text!MinExp..Text!MaxExp
      BY <1>1, <3>1 DEF Text!Parameters
    <3> QED BY <3>2 DEF Text!Decimal0, Text!New, Text!Decimals
  <2>2. dec = Text!Decimal0 /\ nul.dec = Text!Decimal0 /\ nul.valid = FALSE /\ input.by = "none"
    BY DEF Text!Init, Text!Null
  <2> QED BY <2>1, <2>2 DEF TextInv, ReadInv
<1>3. TextInv /\ ReadInv /\ [Text!Next]_(Text!vars) => (TextInv /\ ReadInv)'
  BY <1>1, TextStep
<1>4. TextInv /\ ReadInv => TextFaithful
  <2>1. TextInv => Text!RoundTrips /\ Text!FixedPlaces
    BY <1>1, TripsRight, FixedRight
  <2>2. ReadInv => Text!ReadsAsWritten
    BY <1>1, ReadsRight
  <2> QED BY <2>1, <2>2 DEF TextFaithful, Text!TextFaithful
<1> QED BY <1>2, <1>3, <1>4, PTL DEF Text!Spec
=============================================================================
