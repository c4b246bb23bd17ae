----------------------------- MODULE DecimalHeap -----------------------------
(***************************************************************************)
(* Who shares a big.Int with whom.  A Decimal is a pointer and an          *)
(* exponent; assignments and methods that have nothing to do (Abs of a     *)
(* positive number, Round to the places it has, ...) copy the pointer,     *)
(* while Round, RoundBank and the directed roundings write into the        *)
(* integer they have in hand.  The type's comment says "It is immutable."  *)
(*                                                                         *)
(* A step is one assignment v = method(w, ...) of a client with the        *)
(* variables Var, all of them copies of decimal.Zero or Decimal{} at first.*)
(***************************************************************************)
EXTENDS Decimal, FiniteSets

CONSTANTS Var, Values, Exps, MaxValue    \* MaxValue bounds sums and shifts

\* Finitely many variables, and places whose exponents do not wrap.
Parameters ==
    /\ IsFiniteSet(Var) /\ Nil \notin Int /\ MaxValue \in Nat /\ Exps \subseteq Int
    /\ \A p \in Exps : Wrap(-p) = -p /\ Wrap(-p - 1) = -p - 1

VARIABLES var,      \* var[v]: the pointer and the exponent
          heap      \* heap[r]: the integer at r; heap[0] stands for nil
vars == <<var, heap>>

ZeroRef == 1                              \* the integer of the package's Zero
Ref == 0..(Cardinality(Var) + 2)

Number(v) == New(heap[var[v].ref], var[v].exp)
Fresh == CHOOSE r \in Ref \ {0, ZeroRef} : \A v \in Var : var[v].ref # r

InBounds(d) == Val(d) \in -MaxValue..MaxValue /\ d.exp \in Exps

\* The integer a rescaling returns: always a copy, so that it may be written.
RescaledRefShared(w, exp) == IF var[w].exp = exp THEN var[w].ref ELSE Fresh
RescaledRef(w, exp) == Fresh

\* An integer nobody points to is as good as 0.
Collected(h, held) ==
    [r \in Ref |-> IF r = 0 \/ r = ZeroRef \/ \E v \in Var : held[v].ref = r THEN h[r] ELSE 0]

\* v is the number d, held at r.
Set(v, r, d) ==
    /\ InBounds(d)
    /\ var' = [var EXCEPT ![v] = [ref |-> r, exp |-> d.exp]]
    /\ heap' = Collected([heap EXCEPT ![r] = d.value], var')

\* v is another name of w's number: an assignment, or a method returning d.
Alias(v, w) ==
    /\ var' = [var EXCEPT ![v] = var[w]]
    /\ heap' = Collected(heap, var')

-----------------------------------------------------------------------------
\* UnmarshalBinary makes a new integer, whatever v pointed to before.
Decode(v, d) == Set(v, Fresh, d)

Exact(v, w, w2) == \E op \in {1, 2} :
    Set(v, Fresh, IF op = 1 THEN Add(Number(w), Number(w2)) ELSE Sub(Number(w), Number(w2)))

NegateInPlace(v, w) == Set(v, var[w].ref, Neg(Number(w)))

Negate(v, w) == Set(v, Fresh, Neg(Number(w)))

Absolute(v, w) ==
    IF IsNegative(Number(w)) THEN Set(v, Fresh, Abs(Number(w))) ELSE Alias(v, w)

Whole(v, w) == \E op \in {1, 2} :
    IF var[w].exp >= 0 THEN Alias(v, w)
    ELSE Set(v, Fresh, IF op = 1 THEN Floor(Number(w)) ELSE Ceil(Number(w)))

Truncated(v, w, p) ==
    IF p >= 0 /\ -p > var[w].exp
    THEN Set(v, RescaledRef(w, -p), Truncate(Number(w), p)) ELSE Alias(v, w)

Rounded(v, w, p) ==
    IF var[w].exp = -p THEN Alias(v, w)
    ELSE Set(v, RescaledRef(w, -p - 1), Round(Number(w), p))

\* RoundBank corrects the number Round returned, in place: when Round returned
\* its receiver, the correction would be the receiver's.
RoundedBank(v, w, p) ==
    LET d == RoundBank(Number(w), p)
        r == IF var[w].exp = -p THEN var[w].ref ELSE RescaledRef(w, -p - 1)
    IN  IF var[w].exp = -p /\ Val(d) = Val(Number(w)) THEN Alias(v, w) ELSE Set(v, r, d)

RoundedDirected(v, w, p) == \E step \in {-1, 0, 1} :
    LET d == RoundDirected(Number(w), p, step)
    IN  IF d = Number(w) THEN Alias(v, w)
        ELSE /\ step \in {0, Sign(Number(w))}
             /\ Set(v, RescaledRef(w, -p), d)

Init ==
    /\ var \in [Var -> {[ref |-> 0, exp |-> 0], [ref |-> ZeroRef, exp |-> 1]}]
    /\ heap = [r \in Ref |-> IF r = 0 THEN Nil ELSE 0]

Next ==
    \E v, w \in Var :
        \/ Alias(v, w)
        \/ Negate(v, w) \/ Absolute(v, w) \/ Whole(v, w)
        \/ \E w2 \in Var : Exact(v, w, w2)
        \/ \E value \in Values, exp \in Exps : Decode(v, New(value, exp))
        \/ \E p \in Exps :
              \/ Truncated(v, w, p) \/ Rounded(v, w, p)
              \/ RoundedBank(v, w, p) \/ RoundedDirected(v, w, p)

Spec == Init /\ [][Next]_vars

-----------------------------------------------------------------------------
(* "It is immutable" (decimal.go:67): no call changes the number of a        *)
(* variable it does not assign, however many names share the integer, nor    *)
(* the integer of the package's Zero.                                        *)
Immutable ==
    [][/\ \A v \in Var : var'[v] = var[v] => heap'[var[v].ref] = heap[var[v].ref]
       /\ heap'[ZeroRef] = heap[ZeroRef]]_vars

(* No method writes through the nil pointer of a Decimal{}.                  *)
NilUnwritten == heap[0] = Nil
=============================================================================
