---------------------------- MODULE DecimalProofs ----------------------------
(***************************************************************************)
(* Decimals are immutable for any number of variables and any numbers;     *)
(* arithmetic is exact for numbers of any size at any scales; a            *)
(* NullDecimal follows its input; and the octant reductions are right for  *)
(* every resolution and every angle whose octant is exact.                 *)
(*                                                                         *)
(* The provers know of 10^n that it is a number, and no more: what is used *)
(* of powers of ten is the hypothesis PowersOfTen.                         *)
(***************************************************************************)
EXTENDS DecimalParts, Functions, FiniteSetTheorems, TLAPS

-----------------------------------------------------------------------------
(* Who shares an integer with whom. *)

\* Every variable points to an integer, or to nil.
HeapInv ==
    /\ var \in [Var -> [ref : Heap!Ref, exp : Int]]
    /\ heap \in [Heap!Ref -> Int \cup {Nil}]
    /\ heap[0] = Nil

\* What a step must leave alone.
Untouched ==
    /\ \A v \in Var : var'[v] = var[v] => heap'[var[v].ref] = heap[var[v].ref]
    /\ heap'[Heap!ZeroRef] = heap[Heap!ZeroRef]

\* The references there are.
LEMMA RefIs ==
    ASSUME Heap!Parameters
    PROVE  /\ Cardinality(Var) \in Nat /\ IsFiniteSet(Var)
           /\ Heap!Ref = 0..(Cardinality(Var) + 2)
<1>1. IsFiniteSet(Var)
  BY DEF Heap!Parameters, Heap!IsFiniteSet, IsFiniteSet
<1>2. Heap!Cardinality(Var) = Cardinality(Var)
  BY DEF Heap!Cardinality, Cardinality
<1> QED BY <1>1, <1>2, FS_CardinalityType DEF Heap!Ref

\* There are two references more than variables and Zero, so one is free.
LEMMA FreshIs ==
    ASSUME Heap!Parameters, \A v \in Var : var[v].ref \in Heap!Ref
    PROVE  Heap!Fresh \in Heap!Ref \ {0, 1} /\ \A v \in Var : var[v].ref # Heap!Fresh
<1> DEFINE held == {r \in Heap!Ref : \E v \in Var : var[v].ref = r}
           f == [v \in Var |-> var[v].ref]
           n == Cardinality(Var)
<1>1. n \in Nat /\ IsFiniteSet(Var) /\ Heap!Ref = 0..(n + 2)
  BY RefIs
<1>2. IsFiniteSet(held) /\ Cardinality(held) <= n
  <2>1. f \in Surjection(Var, held)
    BY DEF Surjection
  <2> QED BY <1>1, <2>1, FS_Surjection
<1>3. ~ (2..(n + 2) \subseteq held)
  <2>1. Cardinality(2..(n + 2)) = n + 1
    <3> HIDE DEF n
    <3> QED BY <1>1, FS_Interval
  <2>2. Cardinality(held) \in Nat
    BY <1>2, FS_CardinalityType
  <2>3. 2..(n + 2) \in SUBSET held => Cardinality(2..(n + 2)) <= Cardinality(held)
    BY <1>2, FS_Subset
  <2> HIDE DEF n, held
  <2> QED BY <1>1, <1>2, <2>1, <2>2, <2>3
<1>4. \E r \in Heap!Ref \ {0, 1} : \A v \in Var : var[v].ref # r
  <2> HIDE DEF n
  <2>1. PICK r \in 2..(n + 2) : r \notin held
    BY <1>3
  <2> QED BY <1>1, <2>1
<1> HIDE DEF n
<1> QED BY <1>1, <1>4 DEF Heap!Fresh, Heap!ZeroRef

\* Rounding a number to the places it has leaves it as it is: it is no tie.
LEMMA BankOfOwnPlaces ==
    ASSUME Heap!Parameters, NEW d, Heap!Val(d) \in Int, NEW places \in Exps, d.exp = -places
    PROVE  Heap!RoundBank(d, places) = d
<1>1. places \in Int /\ Heap!Wrap(-places) = -places /\ Heap!Wrap(-places - 1) = -places - 1
  BY DEF Heap!Parameters
<1>2. Heap!Round(d, places) = d
  BY <1>1 DEF Heap!Round
<1>3. Heap!Sub(d, d) = Heap!New(0, -places)
  <2>1. Heap!RescalePair(d, d) = <<Heap!Rescale(d, -places), Heap!Rescale(d, -places)>>
    BY DEF Heap!RescalePair
  <2>2. Heap!Rescale(d, -places).value \in Int /\ Heap!Rescale(d, -places).exp = -places
    BY <1>1 DEF Heap!Rescale, Heap!Magnitude, Heap!New
  <2> QED BY <2>1, <2>2 DEF Heap!Sub
<1>4. Heap!Abs(Heap!New(0, -places)) = Heap!New(0, -places)
  BY DEF Heap!Abs, Heap!IsNegative, Heap!Sign, Heap!SignOf, Heap!Val, Heap!New
<1>5. ~ Heap!Equal(Heap!New(0, -places), Heap!New(5, -places - 1))
  <2>1. Heap!Val(Heap!New(0, -places)) = 0 /\ Heap!Val(Heap!New(5, -places - 1)) = 5
    BY DEF Heap!Val, Heap!New, Heap!Parameters
  <2>2. Heap!Rescale(Heap!New(0, -places), -places - 1).value = 0
    BY <1>1, <2>1 DEF Heap!Rescale, Heap!New, Heap!Magnitude
  <2>3. Heap!Rescale(Heap!New(5, -places - 1), -places - 1).value = 5
    <3>1. 10^Heap!Magnitude(-places - 1 - (-places - 1)) = 1
      BY <1>1 DEF Heap!Magnitude
    <3> QED BY <1>1, <2>1, <3>1 DEF Heap!Rescale, Heap!New
  <2>4. Heap!RescalePair(Heap!New(0, -places), Heap!New(5, -places - 1))
          = <<Heap!Rescale(Heap!New(0, -places), -places - 1),
              Heap!Rescale(Heap!New(5, -places - 1), -places - 1)>>
    BY <1>1 DEF Heap!RescalePair, Heap!New
  <2> QED BY <2>2, <2>3, <2>4 DEF Heap!Equal, Heap!Cmp, Heap!SignOf
<1> QED BY <1>1, <1>2, <1>3, <1>4, <1>5 DEF Heap!RoundBank

\* Every method copies a pointer or writes to an integer that nobody holds.
LEMMA StepIs ==
    ASSUME Heap!Parameters, HeapInv, Heap!Next
    PROVE  \E v, w \in Var : Heap!Alias(v, w) \/ \E d : Heap!Set(v, Heap!Fresh, d)
<1>1. PICK v \in Var, w \in Var :
          \/ Heap!Alias(v, w)
          \/ Heap!Negate(v, w) \/ Heap!Absolute(v, w) \/ Heap!Whole(v, w)
          \/ \E w2 \in Var : Heap!Exact(v, w, w2)
          \/ \E value \in Values, exp \in Exps : Heap!Decode(v, Heap!New(value, exp))
          \/ \E places \in Exps :
                \/ Heap!Truncated(v, w, places) \/ Heap!Rounded(v, w, places)
                \/ Heap!RoundedBank(v, w, places) \/ Heap!RoundedDirected(v, w, places)
  BY DEF Heap!Next
<1> DEFINE Harmless == Heap!Alias(v, w) \/ \E d : Heap!Set(v, Heap!Fresh, d)
<1>2. Heap!Negate(v, w) \/ Heap!Absolute(v, w) \/ Heap!Whole(v, w) => Harmless
  BY DEF Heap!Negate, Heap!Absolute, Heap!Whole
<1>3. ASSUME NEW w2 \in Var, Heap!Exact(v, w, w2) PROVE Harmless
  BY <1>3 DEF Heap!Exact
<1>4. ASSUME NEW d, Heap!Decode(v, d) PROVE Harmless
  BY <1>4 DEF Heap!Decode
<1>5. ASSUME NEW places \in Exps, Heap!Truncated(v, w, places) \/ Heap!Rounded(v, w, places)
      PROVE  Harmless
  BY <1>5 DEF Heap!Truncated, Heap!Rounded, Heap!RescaledRef
<1>6. ASSUME NEW places \in Exps, Heap!RoundedDirected(v, w, places) PROVE Harmless
  BY <1>6 DEF Heap!RoundedDirected, Heap!RescaledRef
<1>7. ASSUME NEW places \in Exps, Heap!RoundedBank(v, w, places) PROVE Harmless
  <2>1. CASE var[w].exp = -places
    <3>1. Heap!Val(Heap!Number(w)) \in Int /\ Heap!Number(w).exp = -places
      BY <2>1 DEF HeapInv, Heap!Number, Heap!New, Heap!Val
    <3>2. Heap!RoundBank(Heap!Number(w), places) = Heap!Number(w)
      BY <3>1, BankOfOwnPlaces
    <3> QED BY <1>7, <2>1, <3>2 DEF Heap!RoundedBank
  <2>2. CASE var[w].exp # -places
    BY <1>7, <2>2 DEF Heap!RoundedBank, Heap!RescaledRef
  <2> QED BY <2>1, <2>2
<1> HIDE DEF Harmless
<1>8. Harmless
  BY <1>1, <1>2, <1>3, <1>4, <1>5, <1>6, <1>7 DEF Harmless
<1> QED BY <1>8 DEF Harmless

\* Copying a pointer changes no number,
LEMMA AliasKept ==
    ASSUME Heap!Parameters, HeapInv, NEW v \in Var, NEW w \in Var, Heap!Alias(v, w)
    PROVE  HeapInv' /\ Untouched
<1>1. 0 \in Heap!Ref /\ 1 \in Heap!Ref
  BY RefIs
<1>2. /\ var' = [var EXCEPT ![v] = var[w]]
      /\ heap' = [r \in Heap!Ref |->
                    IF r = 0 \/ r = 1 \/ \E u \in Var : var'[u].ref = r THEN heap[r] ELSE 0]
  BY DEF Heap!Alias, Heap!Collected, Heap!ZeroRef
<1>3. var' \in [Var -> [ref : Heap!Ref, exp : Int]]
  BY <1>2 DEF HeapInv
<1>4. heap' \in [Heap!Ref -> Int \cup {Nil}] /\ heap'[0] = Nil /\ heap'[1] = heap[1]
  BY <1>1, <1>2 DEF HeapInv
<1>5. \A u \in Var : var'[u] = var[u] => heap'[var[u].ref] = heap[var[u].ref]
  BY <1>2 DEF HeapInv
<1> QED BY <1>3, <1>4, <1>5 DEF HeapInv, Untouched, Heap!ZeroRef

\* and neither does writing to a free integer.
LEMMA SetKept ==
    ASSUME Heap!Parameters, HeapInv, NEW v \in Var, NEW d, Heap!Set(v, Heap!Fresh, d)
    PROVE  HeapInv' /\ Untouched
<1> DEFINE free == Heap!Fresh
<1>1. /\ 0 \in Heap!Ref /\ 1 \in Heap!Ref
      /\ free \in Heap!Ref \ {0, 1} /\ \A u \in Var : var[u].ref # free
  BY RefIs, FreshIs DEF HeapInv
<1> HIDE DEF free
<1>2. d.value \in Int \cup {Nil} /\ d.exp \in Int
  <2>1. MaxValue \in Int /\ Exps \subseteq Int
    BY DEF Heap!Parameters
  <2>2. Heap!Val(d) \in -MaxValue..MaxValue /\ d.exp \in Exps
    BY DEF Heap!Set, Heap!InBounds
  <2>3. Heap!Val(d) \in Int
    <3> HIDE DEF Heap!Val
    <3> QED BY <2>1, <2>2
  <2> QED BY <2>1, <2>2, <2>3 DEF Heap!Val
<1>3. /\ var' = [var EXCEPT ![v] = [ref |-> free, exp |-> d.exp]]
      /\ heap' = [r \in Heap!Ref |->
                    IF r = 0 \/ r = 1 \/ \E u \in Var : var'[u].ref = r
                    THEN [heap EXCEPT ![free] = d.value][r] ELSE 0]
  BY DEF Heap!Set, Heap!Collected, Heap!ZeroRef, free
<1>4. var' \in [Var -> [ref : Heap!Ref, exp : Int]]
  BY <1>1, <1>2, <1>3 DEF HeapInv
<1>5. heap' \in [Heap!Ref -> Int \cup {Nil}] /\ heap'[0] = Nil /\ heap'[1] = heap[1]
  BY <1>1, <1>2, <1>3 DEF HeapInv
<1>6. \A u \in Var : var'[u] = var[u] => heap'[var[u].ref] = heap[var[u].ref]
  BY <1>1, <1>3 DEF HeapInv
<1> QED BY <1>4, <1>5, <1>6 DEF HeapInv, Untouched, Heap!ZeroRef

\* Every variable is a copy of Zero or Decimal{} at first.
LEMMA InitHeapInv == Heap!Parameters /\ Heap!Init => HeapInv
<1> SUFFICES ASSUME Heap!Parameters, Heap!Init PROVE HeapInv
  OBVIOUS
<1>1. 0 \in Heap!Ref /\ 1 \in Heap!Ref
  BY RefIs
<1> QED BY <1>1 DEF Heap!Init, HeapInv, Heap!ZeroRef

\* Whatever method is called.
LEMMA NextHeapInv ==
    Heap!Parameters /\ HeapInv /\ [Heap!Next]_(Heap!vars)
        => HeapInv' /\ [Untouched]_(Heap!vars)
<1> SUFFICES ASSUME Heap!Parameters, HeapInv, [Heap!Next]_(Heap!vars)
             PROVE  HeapInv' /\ [Untouched]_(Heap!vars)
  OBVIOUS
<1>1. CASE Heap!Next
  BY <1>1, StepIs, AliasKept, SetKept
<1>2. CASE UNCHANGED Heap!vars
  BY <1>2 DEF Heap!vars, HeapInv
<1> QED BY <1>1, <1>2

\* Assigning the result of any method to a variable changes no other variable,
\* nor Zero, although variables share integers and RoundBank writes in place:
\* decimal.go:67 and the methods DecimalHeap translates.
THEOREM Immutability == Heap!Spec => Immutable
<1>1. [Untouched]_(Heap!vars) => [Heap!Immutable!1]_(Heap!vars)
  BY DEF Untouched
<1>2. Heap!Parameters
  BY HeapAssumption
<1> QED BY <1>1, <1>2, InitHeapInv, NextHeapInv, PTL
        DEF Heap!Spec, Immutable, Heap!Immutable, Untouched

\* No method writes through the nil of a Decimal{}: ensureInitialized, decimal.go:1324.
THEOREM NilStays == Heap!Spec => []Heap!NilUnwritten
<1>1. HeapInv => Heap!NilUnwritten
  BY DEF HeapInv, Heap!NilUnwritten
<1>2. Heap!Parameters
  BY HeapAssumption
<1> QED BY <1>1, <1>2, InitHeapInv, NextHeapInv, PTL DEF Heap!Spec

\* At the code's width the assumption on the places leaves out one of them only,
\* the smallest int32, which is its own negation.
LEMMA PlacesOfInt32 ==
    ASSUME HeapBits = 32, Exps \subseteq (Heap!MinExp + 1)..Heap!MaxExp
    PROVE  \A places \in Exps :
             Heap!Wrap(-places) = -places /\ Heap!Wrap(-places - 1) = -places - 1
<1> DEFINE half == 2^31
<1>1. half \in Nat /\ half > 0 /\ 2^32 = 2 * half
  BY SMT
<1>2. Heap!MinExp = -half /\ Heap!MaxExp = half - 1
  <2>1. HeapBits - 1 = 31
    BY SMT
  <2>2. Heap!MinExp = -(2^(HeapBits - 1)) /\ Heap!MaxExp = 2^(HeapBits - 1) - 1
    BY DEF Heap!MinExp, Heap!MaxExp
  <2> QED BY <2>1, <2>2
<1> HIDE DEF half
<1>3. ASSUME NEW n \in -half..(half - 1) PROVE Heap!Wrap(n) = n
  <2>1. 0 <= n + half /\ n + half < 2 * half
    BY <1>1, SMT
  <2>2. (n + half) % (2 * half) = n + half
    BY <1>1, <2>1, SMT
  <2>3. Heap!Wrap(n) = ((n - (-half)) % (2 * half)) + (-half)
    BY <1>1, <1>2 DEF Heap!Wrap
  <2> QED BY <1>1, <2>2, <2>3, SMT
<1> QED BY <1>1, <1>2, <1>3, SMT

-----------------------------------------------------------------------------
(* Exact arithmetic. *)

\* A decimal has a value and an exponent.
LEMMA ValIs ==
    ASSUME Laws!Parameters, NEW d \in Laws!Decimals
    PROVE  Laws!Val(d) \in Int /\ d.exp \in Int
  BY DEF Laws!Decimals, Laws!Val

\* What is made of an integer and an exponent has them.
LEMMA NewIs ==
    ASSUME Laws!Parameters, NEW n \in Int, NEW e \in Int
    PROVE  /\ Laws!New(n, e) \in Laws!Decimals
           /\ Laws!Val(Laws!New(n, e)) = n /\ Laws!New(n, e).value = n /\ Laws!New(n, e).exp = e
  BY DEF Laws!Parameters, Laws!Decimals, Laws!Val, Laws!New

\* What it is worth in units of 10^u.
LEMMA AtNew ==
    ASSUME Laws!Parameters, NEW n \in Int, NEW e \in Int, NEW u \in Int
    PROVE  Laws!At(Laws!New(n, e), u) = n * 10^(e - u)
  BY NewIs DEF Laws!At

\* Rescaling to a finer exponent changes nothing.
LEMMA RescaleExact ==
    ASSUME Laws!PowersOfTen(Nat), Laws!Parameters, NEW d \in Laws!Decimals,
           NEW e \in Int, NEW u \in Int, u <= e, e <= d.exp
    PROVE  \E n \in Int : /\ Laws!Rescale(d, e) = Laws!New(n, e)
                          /\ Laws!At(d, u) = n * 10^(e - u)
                          /\ 10^(e - u) \in Nat \ {0}
<1> DEFINE v == Laws!Val(d)
           down == 10^(d.exp - e)
           scale == 10^(e - u)
<1>1. v \in Int /\ d.exp \in Int
  BY ValIs
<1>2. down \in Nat \ {0} /\ scale \in Nat \ {0} /\ 10^(d.exp - u) = down * scale
  <2>1. d.exp - e \in Nat /\ e - u \in Nat /\ (d.exp - e) + (e - u) = d.exp - u
    BY <1>1
  <2> QED BY <2>1 DEF Laws!PowersOfTen
<1>3. Laws!Rescale(d, e) = Laws!New(v * down, e)
  <2>1. Laws!Magnitude(e - d.exp) = d.exp - e
    BY <1>1 DEF Laws!Magnitude
  <2> QED BY <1>1, <2>1 DEF Laws!Rescale
<1>4. Laws!At(d, u) = v * (down * scale)
  BY <1>2 DEF Laws!At
<1> HIDE DEF v, down, scale
<1>5. v * (down * scale) = (v * down) * scale /\ v * down \in Int
  BY <1>1, <1>2
<1> QED BY <1>2, <1>3, <1>4, <1>5 DEF scale

\* The finer of two exponents.
Finer(d, d2) == IF d.exp >= d2.exp THEN d2.exp ELSE d.exp

\* A pair is brought to the finer of its exponents, and stays worth what it was.
LEMMA PairExact ==
    ASSUME Laws!PowersOfTen(Nat), Laws!Parameters,
           NEW d \in Laws!Decimals, NEW d2 \in Laws!Decimals,
           NEW u \in Int, u <= d.exp, u <= d2.exp
    PROVE  \E n, n2, b \in Int, q \in Nat \ {0} :
             /\ u <= b /\ b = Finer(d, d2) /\ q = 10^(b - u)
             /\ Laws!RescalePair(d, d2) = <<Laws!New(n, b), Laws!New(n2, b)>>
             /\ Laws!At(d, u) = n * q /\ Laws!At(d2, u) = n2 * q
<1> DEFINE b == Finer(d, d2)
<1>1. b \in Int /\ u <= b /\ b <= d.exp /\ b <= d2.exp
  BY ValIs DEF Finer
<1>2. Laws!RescalePair(d, d2) = <<Laws!Rescale(d, b), Laws!Rescale(d2, b)>>
  BY DEF Laws!RescalePair, Finer
<1> HIDE DEF b
<1>3. PICK n \in Int : /\ Laws!Rescale(d, b) = Laws!New(n, b) /\ Laws!At(d, u) = n * 10^(b - u)
                       /\ 10^(b - u) \in Nat \ {0}
  BY <1>1, RescaleExact
<1>4. PICK n2 \in Int : Laws!Rescale(d2, b) = Laws!New(n2, b) /\ Laws!At(d2, u) = n2 * 10^(b - u)
  BY <1>1, RescaleExact
<1> QED BY <1>1, <1>2, <1>3, <1>4 DEF b

\* A unit does not change a sign.
LEMMA SignScaled ==
    ASSUME NEW n \in Int, NEW q \in Nat \ {0}
    PROVE  Laws!SignOf(n * q) = Laws!SignOf(n)
<1>1. n > 0 => n * q > 0
  OBVIOUS
<1>2. n < 0 => n * q < 0
  OBVIOUS
<1>3. n = 0 => n * q = 0
  OBVIOUS
<1>4. n * q \in Int
  OBVIOUS
<1> QED BY <1>1, <1>2, <1>3, <1>4 DEF Laws!SignOf

\* Sums, differences and comparisons of numbers at any two scales.
LEMMA SumExact ==
    ASSUME Laws!PowersOfTen(Nat), Laws!Parameters,
           NEW d \in Laws!Decimals, NEW d2 \in Laws!Decimals,
           NEW u \in Int, u <= d.exp, u <= d2.exp
    PROVE  /\ Laws!Add(d, d2) \in Laws!Decimals /\ Laws!Sub(d, d2) \in Laws!Decimals
           /\ Laws!Add(d, d2).exp >= u /\ Laws!Sub(d, d2).exp >= u
           /\ Laws!At(Laws!Add(d, d2), u) = Laws!At(d, u) + Laws!At(d2, u)
           /\ Laws!At(Laws!Sub(d, d2), u) = Laws!At(d, u) - Laws!At(d2, u)
           /\ Laws!Cmp(d, d2) = Laws!SignOf(Laws!At(d, u) - Laws!At(d2, u))
<1>1. PICK n \in Int, n2 \in Int, b \in Int, q \in Nat \ {0} :
             /\ u <= b /\ q = 10^(b - u)
             /\ Laws!RescalePair(d, d2) = <<Laws!New(n, b), Laws!New(n2, b)>>
             /\ Laws!At(d, u) = n * q /\ Laws!At(d2, u) = n2 * q
  BY PairExact
<1>2. /\ Laws!Add(d, d2) = Laws!New(n + n2, b)
      /\ Laws!Sub(d, d2) = Laws!New(n - n2, b)
      /\ Laws!Cmp(d, d2) = Laws!SignOf(n - n2)
  BY <1>1, NewIs DEF Laws!Add, Laws!Sub, Laws!Cmp
<1>3. (n + n2) * q = n * q + n2 * q /\ (n - n2) * q = n * q - n2 * q
  OBVIOUS
<1>4. /\ Laws!At(Laws!New(n + n2, b), u) = (n + n2) * q
      /\ Laws!At(Laws!New(n - n2, b), u) = (n - n2) * q
  <2>1. n + n2 \in Int /\ n - n2 \in Int
    OBVIOUS
  <2> QED BY <1>1, <2>1, AtNew
<1>5. Laws!SignOf(n * q - n2 * q) = Laws!SignOf(n - n2)
  <2>1. Laws!SignOf((n - n2) * q) = Laws!SignOf(n - n2)
    <3>1. n - n2 \in Int
      OBVIOUS
    <3> QED BY <3>1, SignScaled
  <2> QED BY <1>3, <2>1
<1> QED BY <1>1, <1>2, <1>3, <1>4, <1>5, NewIs

\* The opposite and the absolute value keep their scale.
LEMMA NegExact ==
    ASSUME Laws!PowersOfTen(Nat), Laws!Parameters,
           NEW d \in Laws!Decimals, NEW u \in Int, u <= d.exp
    PROVE  /\ Laws!Neg(d) \in Laws!Decimals /\ Laws!Neg(d).exp = d.exp
           /\ Laws!At(d, u) \in Int
           /\ Laws!At(Laws!Neg(d), u) = -Laws!At(d, u)
           /\ Laws!At(Laws!Abs(d), u) = Laws!Magnitude(Laws!At(d, u))
<1> DEFINE v == Laws!Val(d)  q == 10^(d.exp - u)
<1>1. v \in Int /\ d.exp \in Int /\ q \in Nat \ {0} /\ Laws!At(d, u) = v * q
  <2>1. d.exp - u \in Nat /\ d.exp \in Int /\ v \in Int
    BY ValIs
  <2> QED BY <2>1 DEF Laws!PowersOfTen, Laws!At
<1>2. Laws!Neg(d) = Laws!New(-v, d.exp)
  BY DEF Laws!Neg
<1>3. Laws!At(Laws!New(-v, d.exp), u) = (-v) * q
  <2>1. -v \in Int
    BY <1>1
  <2> QED BY <1>1, <2>1, AtNew
<1>4. Laws!Abs(d) = IF v < 0 THEN Laws!New(-v, d.exp) ELSE d
  BY <1>1 DEF Laws!Abs, Laws!IsNegative, Laws!Sign, Laws!SignOf
<1> HIDE DEF v, q
<1>5. v * q \in Int /\ (-v) * q = -(v * q) /\ (v < 0 => v * q < 0) /\ (v >= 0 => v * q >= 0)
  BY <1>1
<1>6. Laws!At(Laws!Abs(d), u) = Laws!Magnitude(v * q)
  BY <1>1, <1>3, <1>4, <1>5 DEF Laws!Magnitude
<1>7. Laws!Neg(d) \in Laws!Decimals /\ Laws!Neg(d).exp = d.exp
  BY <1>1, <1>2, NewIs
<1> QED BY <1>1, <1>2, <1>3, <1>5, <1>6, <1>7

\* Products, and when there is none.
LEMMA ProductExact ==
    ASSUME Laws!PowersOfTen(Nat), Laws!Parameters,
           NEW d \in Laws!Decimals, NEW d2 \in Laws!Decimals,
           NEW u \in Int, u <= d.exp, u <= d2.exp
    PROVE  IF d.exp + d2.exp \in Laws!MinExp..Laws!MaxExp
           THEN /\ Laws!Mul(d, d2) # Panic
                /\ Laws!At(Laws!Mul(d, d2), 2 * u) = Laws!At(d, u) * Laws!At(d2, u)
           ELSE Laws!Mul(d, d2) = Panic
<1> DEFINE v == Laws!Val(d)  v2 == Laws!Val(d2)  e == d.exp  e2 == d2.exp
           q == 10^(e - u)  q2 == 10^(e2 - u)
<1>1. v \in Int /\ v2 \in Int /\ e \in Int /\ e2 \in Int
  BY ValIs
<1>2. q \in Nat \ {0} /\ q2 \in Nat \ {0} /\ 10^(e + e2 - 2 * u) = q * q2
  <2>1. e - u \in Nat /\ e2 - u \in Nat /\ e + e2 - 2 * u = (e - u) + (e2 - u)
    BY <1>1
  <2> QED BY <2>1 DEF Laws!PowersOfTen
<1>3. v * v2 \in Int /\ e + e2 \in Int /\ 2 * u \in Int
  BY <1>1
<1>4. Laws!New(v * v2, e + e2) # Panic
  <2>1. Laws!New(v * v2, e + e2) \in Laws!Decimals
    BY <1>3, NewIs
  <2> QED BY <2>1 DEF Laws!Parameters
<1>5. Laws!At(Laws!New(v * v2, e + e2), 2 * u) = (v * v2) * (q * q2)
  <2> DEFINE n == v * v2  k == e + e2  w == 2 * u
  <2> HIDE DEF v, v2, q, q2, e, e2
  <2>1. n \in Int /\ k \in Int /\ w \in Int /\ 10^(k - w) = q * q2
    <3>1. n \in Int /\ k \in Int /\ w \in Int
      BY <1>3
    <3>2. 10^(k - w) = q * q2
      BY <1>1, <1>2
    <3> QED BY <3>1, <3>2
  <2> HIDE DEF n, k, w
  <2>2. Laws!At(Laws!New(n, k), w) = n * (q * q2)
    BY <2>1, AtNew
  <2> QED BY <2>2 DEF n, k, w
<1>6. Laws!At(d, u) = v * q /\ Laws!At(d2, u) = v2 * q2
  BY DEF Laws!At
<1>7. Laws!Mul(d, d2) = IF e + e2 \in Laws!MinExp..Laws!MaxExp
                        THEN Laws!New(v * v2, e + e2) ELSE Panic
  BY DEF Laws!Mul
<1> HIDE DEF v, v2, q, q2
<1>8. (v * v2) * (q * q2) = (v * q) * (v2 * q2)
  BY <1>1, <1>2
<1> QED BY <1>4, <1>5, <1>6, <1>7, <1>8

\* The unit is as fine as both operands.
LEMMA UnitIs ==
    ASSUME x.exp \in Int, y.exp \in Int, p \in Int
    PROVE  Laws!Unit \in Int /\ Laws!Unit <= x.exp /\ Laws!Unit <= y.exp
<1> DEFINE S == {x.exp, y.exp, -p, -2}
<1>1. S \subseteq Int
  OBVIOUS
<1>2. \E m \in S : \A n \in S : m <= n
  OBVIOUS
<1>3. Laws!Unit \in S /\ \A n \in S : Laws!Unit <= n
  BY <1>2 DEF Laws!Unit, Laws!Min
<1> QED BY <1>1, <1>3

\* Add, Sub, Neg, Abs and Mul are exact for integers of any size at any pair of
\* scales, Mul panics exactly when the exponent of the product does not fit, and
\* the comparisons order by worth: decimal.go:431-519, 669-712, 1382-1395.
THEOREM ExactArithmetic ==
    ASSUME Laws!PowersOfTen(Nat) PROVE Laws!Init => ExactAtEveryScale
<1> SUFFICES ASSUME Laws!Init PROVE Laws!ExactAtEveryScale
  BY DEF ExactAtEveryScale
<1> USE LawsAssumption
<1> DEFINE u == Laws!Unit  zero == Laws!NewFromInt(0)
           sum == Laws!Add(x, y)  gap == Laws!At(x, u) - Laws!At(y, u)
<1>1. x \in Laws!Decimals /\ y \in Laws!Decimals /\ p \in Int
  BY DEF Laws!Init, Laws!Parameters
<1>2. u \in Int /\ u <= x.exp /\ u <= y.exp
  BY <1>1, ValIs, UnitIs
<1> HIDE DEF u
<1>3. /\ Laws!At(x, u) \in Int /\ Laws!At(y, u) \in Int
      /\ Laws!At(Laws!Abs(x), u) = Laws!Magnitude(Laws!At(x, u))
  BY <1>1, <1>2, NegExact
<1>4. /\ Laws!At(sum, u) = Laws!At(x, u) + Laws!At(y, u)
      /\ Laws!At(Laws!Sub(x, y), u) = Laws!At(x, u) - Laws!At(y, u)
      /\ Laws!Cmp(x, y) = Laws!SignOf(gap)
  BY <1>1, <1>2, SumExact
<1>5. Laws!Equal(Laws!Add(Laws!Sub(x, y), y), x)
  <2> DEFINE sub == Laws!Sub(x, y)
             back == Laws!Add(sub, y)
  <2>1. sub \in Laws!Decimals /\ sub.exp >= u /\ sub.exp \in Int /\ x.exp \in Int
    BY <1>1, <1>2, SumExact, ValIs
  <2>2. /\ back \in Laws!Decimals /\ back.exp >= u /\ back.exp \in Int
        /\ Laws!At(back, u) = Laws!At(sub, u) + Laws!At(y, u)
    BY <1>1, <1>2, <2>1, SumExact, ValIs
  <2>3. Laws!At(back, u) = Laws!At(x, u)
    BY <1>3, <1>4, <2>2
  <2> HIDE DEF sub, back
  <2>4. Laws!Cmp(back, x) = Laws!SignOf(Laws!At(back, u) - Laws!At(x, u))
    BY <1>1, <1>2, <2>2, SumExact
  <2>5. Laws!Cmp(back, x) = 0
    BY <1>3, <2>3, <2>4 DEF Laws!SignOf
  <2> QED BY <2>5 DEF Laws!Equal, back, sub
<1>6. Laws!Equal(Laws!Add(x, Laws!Neg(x)), zero)
  <2> DEFINE minus == Laws!Neg(x)
             none == Laws!Add(x, minus)
             w == IF x.exp <= 0 THEN x.exp ELSE 0
  <2>1. w \in Int /\ w <= x.exp /\ w <= 0 /\ x.exp \in Int
    BY <1>1, ValIs
  <2>2. zero \in Laws!Decimals /\ zero.exp = 0 /\ Laws!Val(zero) = 0
    BY NewIs DEF Laws!NewFromInt
  <2> HIDE DEF w, zero
  <2>3. /\ minus \in Laws!Decimals /\ minus.exp = x.exp /\ Laws!At(x, w) \in Int
        /\ Laws!At(minus, w) = -Laws!At(x, w)
    BY <1>1, <2>1, NegExact
  <2> HIDE DEF minus
  <2>4. /\ none \in Laws!Decimals /\ none.exp >= w /\ none.exp \in Int
        /\ Laws!At(none, w) = Laws!At(x, w) + Laws!At(minus, w)
    BY <1>1, <2>1, <2>3, SumExact, ValIs
  <2> HIDE DEF none
  <2>5. Laws!At(zero, w) = 0
    <3>1. 10^(0 - w) \in Nat
      BY <2>1 DEF Laws!PowersOfTen
    <3> QED BY <2>2, <3>1 DEF Laws!At
  <2>6. Laws!Cmp(none, zero) = Laws!SignOf(Laws!At(none, w) - Laws!At(zero, w))
    BY <2>1, <2>2, <2>4, SumExact
  <2>7. Laws!Cmp(none, zero) = 0
    BY <2>3, <2>4, <2>5, <2>6 DEF Laws!SignOf
  <2> QED BY <2>7 DEF Laws!Equal, none, minus
<1>7. Laws!ArithmeticExact
  <2>1. IF x.exp + y.exp \in Laws!MinExp..Laws!MaxExp
        THEN /\ Laws!Mul(x, y) # Panic
             /\ Laws!At(Laws!Mul(x, y), 2 * u) = Laws!At(x, u) * Laws!At(y, u)
        ELSE Laws!Mul(x, y) = Panic
    BY <1>1, <1>2, ProductExact
  <2> QED BY <1>3, <1>4, <1>5, <1>6, <2>1 DEF Laws!ArithmeticExact, u
<1>8. Laws!OrderByWorth
  <2>1. gap \in Int
    BY <1>3
  <2> HIDE DEF gap
  <2>2. /\ Laws!SignOf(gap) = 0 <=> gap = 0
        /\ Laws!SignOf(gap) = 1 <=> gap > 0
        /\ Laws!SignOf(gap) \in {0, 1} <=> gap >= 0
        /\ Laws!SignOf(gap) = -1 <=> gap < 0
        /\ Laws!SignOf(gap) \in {-1, 0} <=> gap <= 0
    BY <2>1 DEF Laws!SignOf
  <2> QED BY <1>4, <2>2 DEF Laws!OrderByWorth, Laws!Equal, Laws!GreaterThan,
          Laws!GreaterThanOrEqual, Laws!LessThan, Laws!LessThanOrEqual, gap, u
<1> QED BY <1>7, <1>8 DEF Laws!ExactAtEveryScale

-----------------------------------------------------------------------------
(* Nulls. *)

\* What is decoded from JSON does not depend on what was in the variable, null apart.
LEMMA DecodedAnew ==
    ASSUME NEW old, NEW old2, NEW text, text # <<"null">>
    PROVE  Text!UnmarshalJSON(old, text) = Text!UnmarshalJSON(old2, text)
  BY DEF Text!UnmarshalJSON

\* Nor does what is read from a column, unless it is NULL.
LEMMA ScannedAnew ==
    ASSUME NEW old, NEW old2, NEW column \in Text!Columns
    PROVE  /\ column.kind \in {"text", "number", "null", "other"}
           /\ column.kind = "other" => Text!Scan(old, column).failed
           /\ column.kind \in {"text", "number"} => Text!Scan(old, column) = Text!Scan(old2, column)
<1>1. column.kind \in {"text", "number", "null", "other"}
  BY DEF Text!Columns
<1>2. column.kind = "other" => Text!Scan(old, column).failed
  BY DEF Text!Scan, Text!Result
<1>3. column.kind \in {"text", "number"} => Text!Scan(old, column) = Text!Scan(old2, column)
  <2>1. CASE column.kind = "text"
    BY <2>1 DEF Text!Scan
  <2>2. CASE column.kind = "number"
    BY <2>2 DEF Text!Scan
  <2> QED BY <2>1, <2>2
<1> QED BY <1>1, <1>2, <1>3

\* A NullDecimal that is decoded again and again is valid exactly when its last
\* input was a number, and then holds that number: decimal.go:1432-1483.
THEOREM NullsTrack == Text!Spec => []NullTracksInput
<1>1. ASSUME Text!Init PROVE Text!NullTracksInput
  <2>1. nul.valid = FALSE /\ err.nul = FALSE /\ input.by = "none"
    BY <1>1 DEF Text!Init, Text!Null
  <2> QED BY <2>1 DEF Text!NullTracksInput
<1>2. ASSUME Text!DecodeJSON PROVE Text!NullTracksInput'
  <2>1. PICK text \in Texts :
          /\ dec' = Text!UnmarshalJSON(dec, text).d
          /\ nul' = IF text = <<"null">> THEN Text!Null(nul.dec, FALSE)
                    ELSE Text!Null(Text!UnmarshalJSON(nul.dec, text).d, TRUE)
          /\ input' = [by |-> "json", is |-> text]
    BY <1>2 DEF Text!DecodeJSON
  <2>2. text # <<"null">> => Text!UnmarshalJSON(nul.dec, text) = Text!UnmarshalJSON(dec, text)
    BY DecodedAnew
  <2> QED BY <2>1, <2>2 DEF Text!NullTracksInput, Text!Null
<1>3. ASSUME Text!DecodeColumn PROVE Text!NullTracksInput'
  <2>1. PICK column \in Text!Columns :
          /\ dec' = Text!Scan(dec, column).d
          /\ nul' = IF column.kind = "null" THEN Text!Null(nul.dec, FALSE)
                    ELSE Text!Null(Text!Scan(nul.dec, column).d, TRUE)
          /\ err' = [dec |-> Text!Scan(dec, column).failed,
                     nul |-> column.kind # "null" /\ Text!Scan(nul.dec, column).failed]
          /\ input' = [by |-> column.kind, is |-> column.is]
    BY <1>3 DEF Text!DecodeColumn
  <2>2. /\ column.kind \in {"text", "number", "null", "other"}
        /\ column.kind = "other" => Text!Scan(nul.dec, column).failed
        /\ column.kind \in {"text", "number"} =>
             Text!Scan(nul.dec, column) = Text!Scan(dec, column)
    BY ScannedAnew
  <2> QED BY <2>1, <2>2 DEF Text!NullTracksInput, Text!Null
<1>4. ASSUME Text!DecodeText PROVE Text!NullTracksInput'
  <2>1. PICK text \in Texts :
          /\ dec' = Text!UnmarshalText(dec, text).d
          /\ nul' = IF text = << >> THEN Text!Null(nul.dec, FALSE)
                    ELSE Text!Null(Text!UnmarshalText(dec, text).d,
                                   ~Text!UnmarshalText(dec, text).failed)
          /\ err' = [dec |-> Text!UnmarshalText(dec, text).failed,
                     nul |-> text # << >> /\ Text!UnmarshalText(dec, text).failed]
          /\ input' = [by |-> "xml", is |-> text]
    BY <1>4 DEF Text!DecodeText
  <2>2. Text!UnmarshalText(dec, text).failed \in BOOLEAN
    BY DEF Text!UnmarshalText, Text!Assigned, Text!Stored, Text!Result
  <2> QED BY <2>1, <2>2 DEF Text!NullTracksInput, Text!Null
<1>5. Text!NullTracksInput /\ UNCHANGED Text!vars => Text!NullTracksInput'
  BY DEF Text!NullTracksInput, Text!vars
<1>6. Text!NullTracksInput => NullTracksInput
  BY DEF NullTracksInput
<1> QED BY <1>1, <1>2, <1>3, <1>4, <1>5, <1>6, PTL DEF Text!Spec, Text!Next

-----------------------------------------------------------------------------
(* Angles. *)

TypeOK ==
    /\ neg \in BOOLEAN /\ octant \in Nat /\ rest \in (-Slack)..(PerOctant - 1 + Slack)
    /\ steep \in Slopes

\* The specification only chooses an argument.
LEMMA Typed == Spec => []TypeOK
<1>1. Init => TypeOK
  BY MaxOctantAssumption DEF Init, TypeOK
<1>2. TypeOK /\ [Next]_vars => TypeOK'
  BY DEF TypeOK, Next, vars
<1> QED
  BY <1>1, <1>2, PTL DEF Spec

\* An odd number and its successor.
LEMMA OriginIsEven ==
    ASSUME NEW j \in Nat
    PROVE  /\ ToOrigin(j) \in Nat
           /\ ToOrigin(j) % 2 = 0
           /\ ToOrigin(j) - j \in {0, 1}
BY SMT DEF ToOrigin

\* Once even, the octant within the turn is twice the quarter.
LEMMA OctantIsTwiceQuarter ==
    ASSUME NEW even \in Nat, even % 2 = 0
    PROVE  even % 8 = 2 * ((even \div 2) % 4)
BY SMT

\* The polynomials are used within pi/4 of zero, but for the errors of the constants.
LEMMA ReductionRight == TypeOK => ReducedToOctant
<1> SUFFICES ASSUME TypeOK PROVE ReducedToOctant
  OBVIOUS
<1> DEFINE even == ToOrigin(octant)  z == Reduced(octant, rest)
           lost == even * Drift  whole == even * PerOctant  part == octant * PerOctant
<1>1. /\ octant \in Nat /\ rest \in (-Slack)..(PerOctant - 1 + Slack)
      /\ PerOctant \in Nat \ {0} /\ Slack \in Nat /\ Drift \in Int
  BY PerOctantAssumption, SlackAssumption, DriftAssumption DEF TypeOK
<1>2. even \in Nat /\ even % 2 = 0 /\ even - octant \in {0, 1}
  BY <1>1, OriginIsEven
<1> HIDE DEF even
<1>3. whole \in Int /\ part \in Int /\ lost \in Int /\ rest \in Int
  BY <1>1, <1>2
<1>4. z = part + rest - whole + lost
  <2>1. z = octant * PerOctant + rest - even * (PerOctant - Drift)
    BY DEF Reduced, even
  <2>2. even * (PerOctant - Drift) = even * PerOctant - even * Drift
    BY <1>1, <1>2
  <2> HIDE DEF z
  <2> QED BY <1>3, <2>1, <2>2
<1>5. whole = part \/ whole = part + PerOctant
  <2>1. even = octant \/ even = octant + 1
    BY <1>1, <1>2
  <2> QED BY <1>1, <2>1
<1> HIDE DEF z, lost, whole, part
<1>6. z - lost \in -(PerOctant + Slack)..(PerOctant + Slack) /\ whole + z = part + rest + lost
  BY <1>1, <1>3, <1>4, <1>5
<1> QED BY <1>2, <1>6 DEF ReducedToOctant, z, lost, whole, part, even

\* Sin is the sine in every octant of every turn, on both sides of zero.
LEMMA SinRight == TypeOK => SinIsSine
<1> SUFFICES ASSUME TypeOK PROVE SinIsSine
  OBVIOUS
<1> DEFINE even == ToOrigin(octant)
<1>1. even \in Nat /\ even % 2 = 0
  BY OriginIsEven DEF TypeOK
<1>2. even % 8 = 2 * Quarter /\ Quarter \in 0..3
  BY <1>1, OctantIsTwiceQuarter, SMT DEF Quarter
<1>3. CASE IsZeroAngle
  <2>1. Quarter = 0
    BY <1>3, SMT DEF IsZeroAngle, Quarter, ToOrigin
  <2> QED
    BY <1>3, <2>1 DEF SinIsSine, Sin, Result
<1>4. CASE ~IsZeroAngle
  <2>1. (even % 8 > 3) <=> (Quarter >= 2)
    BY <1>2, SMT
  <2>2. (IF even % 8 > 3 THEN (even % 8) - 4 ELSE even % 8) \in {1, 2} <=> Quarter \notin {0, 2}
    BY <1>2, SMT
  <2>3. Sin = Result(Signed(neg # (even % 8 > 3)),
                     IF (IF even % 8 > 3 THEN (even % 8) - 4 ELSE even % 8) \in {1, 2}
                     THEN "cos" ELSE "sin", Reduced(octant, rest))
    BY <1>4, Zenon DEF Sin
  <2>4. Sin.sign = Signed(neg # (even % 8 > 3))
    BY <2>3, Zenon DEF Result
  <2>5. Sin.fn = IF Quarter \in {0, 2} THEN "sin" ELSE "cos"
    BY <2>2, <2>3, Zenon DEF Result
  <2>6. (neg # (even % 8 > 3)) = (neg # (Quarter >= 2))
    BY <2>1
  <2> QED
    BY <2>4, <2>5, <2>6, Zenon DEF SinIsSine
<1> QED
  BY <1>3, <1>4

\* Cos is the cosine in every octant of every turn.
LEMMA CosRight == TypeOK => CosIsCosine
<1> SUFFICES ASSUME TypeOK PROVE CosIsCosine
  OBVIOUS
<1> DEFINE even == ToOrigin(octant)
           k == IF even % 8 > 3 THEN (even % 8) - 4 ELSE even % 8
<1>1. even \in Nat /\ even % 2 = 0
  BY OriginIsEven DEF TypeOK
<1>2. even % 8 = 2 * Quarter /\ Quarter \in 0..3
  BY <1>1, OctantIsTwiceQuarter, SMT DEF Quarter
<1>3. k \in {1, 2} <=> Quarter \notin {0, 2}
  BY <1>2, SMT
<1>4. ((even % 8 > 3) # (k > 1)) <=> Quarter \in {1, 2}
  BY <1>2, SMT
<1>5. Cos = Result(Signed((even % 8 > 3) # (k > 1)),
                   IF k \in {1, 2} THEN "sin" ELSE "cos", Reduced(octant, rest))
  BY Zenon DEF Cos
<1>6. Cos.sign = Signed((even % 8 > 3) # (k > 1))
  BY <1>5, Zenon DEF Result
<1>7. Cos.fn = IF Quarter \in {0, 2} THEN "cos" ELSE "sin"
  BY <1>3, <1>5, Zenon DEF Result
<1>8. ((even % 8 > 3) # (k > 1)) = (Quarter \in {1, 2})
  BY <1>4
<1> QED
  BY <1>6, <1>7, <1>8, Zenon DEF CosIsCosine

\* Tan is the quotient of the two in every octant, and has a pole where the
\* cosine's argument is zero.
LEMMA TanRight == TypeOK => TanIsQuotient
<1> SUFFICES ASSUME TypeOK PROVE TanIsQuotient
  OBVIOUS
<1> DEFINE even == ToOrigin(octant)
           z == Reduced(octant, rest)
           inverted == (even \div 2) % 2 = 1
<1>1. even \in Nat /\ even % 2 = 0
  BY OriginIsEven DEF TypeOK
<1>2. Quarter \in 0..3 /\ (inverted <=> Quarter \in {1, 3})
  BY <1>1, SMT DEF Quarter
<1>3. SinIsSine /\ CosIsCosine
  BY SinRight, CosRight
<1>4. CASE IsZeroAngle
  <2>1. Quarter = 0 /\ z = 0
    BY <1>4, PerOctantAssumption, DriftAssumption, SMT DEF IsZeroAngle, Quarter, ToOrigin, Reduced
  <2>2. Tan = Result(1, "tan", 0) /\ Sin.fn = "sin"
    BY <1>3, <1>4, <2>1, Zenon DEF Tan, SinIsSine
  <2> QED
    BY <1>4, <2>1, <2>2 DEF TanIsQuotient, Result, Pole
<1>5. CASE ~IsZeroAngle
  <2>1. Tan = IF ~inverted THEN Result(Signed(neg), "tan", z)
              ELSE IF z = 0 THEN Pole ELSE Result(Signed(~neg), "1/tan", z)
    BY <1>5, Zenon DEF Tan
  <2>2. Sin.fn = IF inverted THEN "cos" ELSE "sin"
    BY <1>2, <1>3 DEF SinIsSine
  <2>3. Sin.sign = Signed(neg # (Quarter >= 2)) /\ Cos.sign = Signed(Quarter \in {1, 2})
    BY <1>3, <1>5, Zenon DEF SinIsSine, CosIsCosine
  <2>4. Sin.sign * Cos.sign = IF inverted THEN Signed(~neg) ELSE Signed(neg)
    <3>1. CASE Quarter \in {0, 1}
      <4>1. Sin.sign = Signed(neg) /\ Signed(neg) \in {-1, 1}
        BY <2>3, <3>1 DEF Signed, TypeOK
      <4>2. Cos.sign = IF inverted THEN -1 ELSE 1
        BY <1>2, <2>3, <3>1, SMT DEF Signed
      <4>3. Signed(~neg) = -Signed(neg)
        BY SMT DEF Signed
      <4> QED
        BY <4>1, <4>2, <4>3
    <3>2. CASE Quarter \in {2, 3}
      <4>1. Sin.sign = Signed(~neg) /\ Signed(~neg) \in {-1, 1}
        BY <2>3, <3>2 DEF Signed, TypeOK
      <4>2. Cos.sign = IF inverted THEN 1 ELSE -1
        BY <1>2, <2>3, <3>2, SMT DEF Signed
      <4>3. Signed(neg) = -Signed(~neg)
        BY SMT DEF Signed
      <4> QED
        BY <4>1, <4>2, <4>3
    <3> QED
      BY <1>2, <3>1, <3>2
  <2>5. CASE ~inverted
    BY <1>5, <2>1, <2>2, <2>4, <2>5 DEF TanIsQuotient, Result, Pole
  <2>6. CASE inverted /\ z = 0
    BY <1>2, <2>1, <2>6 DEF TanIsQuotient
  <2>7. CASE inverted /\ z # 0
    BY <1>5, <2>1, <2>2, <2>4, <2>7 DEF TanIsQuotient, Result, Pole
  <2> QED
    BY <2>5, <2>6, <2>7
<1> QED
  BY <1>4, <1>5

\* A positive slope is split so that its parts add up and xatan's argument is
\* small.
LEMMA SatanRight ==
    ASSUME NEW d \in Nat \ {0}
    PROVE  AddsUpTo(Satan(d), d) /\ Satan(d).sign = 1
<1>1. CASE d <= 66
  <2>1. Satan(d) = Part(1, 0, d, 100)
    BY <1>1, Zenon DEF Satan
  <2> QED
    BY <1>1, <2>1, SMT DEF Part, AddsUpTo
<1>2. CASE d > 241
  <2>1. ~(d <= 66)
    BY <1>2
  <2>2. Satan(d) = Part(1, 4, -100, d)
    BY <1>2, <2>1, Zenon DEF Satan
  <2> QED
    BY <1>2, <2>2, SMT DEF Part, AddsUpTo
<1>3. CASE d \in 67..241
  <2>1. ~(d <= 66) /\ ~(d > 241)
    BY <1>3
  <2>2. Satan(d) = Part(1, 2, d - 100, d + 100)
    BY <2>1, Zenon DEF Satan
  <2> QED
    BY <1>3, <2>2, SMT DEF Part, AddsUpTo
<1> QED
  BY <1>1, <1>2, <1>3

\* Only the sign of the split is turned for a negative slope.
LEMMA TurnedAddsUp ==
    ASSUME NEW d \in Nat \ {0}, NEW n, AddsUpTo(Satan(d), n)
    PROVE  /\ AddsUpTo([Satan(d) EXCEPT !.sign = -1], n)
           /\ [Satan(d) EXCEPT !.sign = -1].sign = -1
BY SMT DEF AddsUpTo, Satan, Part

\* Atan's parts add up to the angle of the slope, whatever the slope.
LEMMA AtanRight == TypeOK => AtanIsInverse
<1> SUFFICES ASSUME TypeOK PROVE AtanIsInverse
  OBVIOUS
<1>1. steep \in Int
  BY SlopesAssumption DEF TypeOK
<1>2. CASE steep = 0
  BY <1>2, SMT DEF AtanIsInverse, AddsUpTo, Atan, Part
<1>3. CASE steep > 0
  <2>1. Atan = Satan(steep) /\ steep \in Nat \ {0}
    BY <1>1, <1>3, SMT DEF Atan
  <2>2. steep * Atan.sign = steep
    BY <2>1, SatanRight, SMT
  <2> QED
    BY <2>1, <2>2, SatanRight, Zenon DEF AtanIsInverse
<1>4. CASE steep < 0
  <2>1. -steep \in Nat \ {0} /\ steep # 0 /\ ~(steep > 0)
    BY <1>1, <1>4
  <2>2. Atan = [Satan(-steep) EXCEPT !.sign = -1]
    BY <2>1, Zenon DEF Atan
  <2>3. AddsUpTo(Atan, -steep) /\ Atan.sign = -1
    BY <2>1, <2>2, SatanRight, TurnedAddsUp, Zenon
  <2>4. steep * Atan.sign = -steep
    BY <1>1, <2>3, SMT
  <2> QED
    BY <2>3, <2>4, Zenon DEF AtanIsInverse
<1> QED
  BY <1>1, <1>2, <1>3, <1>4

-----------------------------------------------------------------------------
\* For every resolution and slope, and every angle whose octant an int64 and a float64 hold
\* exactly: Sin, Cos, Tan and Atan bring the argument where the polynomials are good, and
\* turn what they give back rightly. Both are but for the errors Slack and Drift of the
\* code's constants; the polynomials are names.
THEOREM TrigonometryRight == Spec => []TrigRight
<1>1. TypeOK => TrigRight
  BY ReductionRight, SinRight, CosRight, TanRight, AtanRight DEF TrigRight
<1> QED
  BY <1>1, Typed, PTL
==============================================================================
