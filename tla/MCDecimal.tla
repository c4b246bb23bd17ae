------------------------------ MODULE MCDecimal ------------------------------
(***************************************************************************)
(* The instance of the decimal package: its parts, with Pow and the floats *)
(* beside them, and the numbers, texts and formats they are checked on.    *)
(***************************************************************************)
EXTENDS DecimalParts, Sequences, SequencesExt

CONSTANTS PowBits, FloatBits, Formats, Exponents, MaxShift, Size

VARIABLES flt, bits

Pow == INSTANCE DecimalPow WITH ExpBits <- PowBits
Float == INSTANCE ShortestFloat WITH ExpBits <- FloatBits

\* What the proofs use of powers of ten, for the first few.
ASSUME PowersAssumption == Laws!PowersOfTen(0..4)

LawsIdle == x = Laws!ZeroValue /\ y = Laws!ZeroValue /\ p = 0
FloatIdle == flt = 0 /\ bits = 0
TrigIdle == neg = FALSE /\ octant = 0 /\ rest = 0 /\ steep = 0
HeapIdle == Heap!Init /\ \A v \in Var : var[v].ref = 0

TextVars == <<dec, nul, input, err>>
Idle == <<x, y, p, flt, bits, neg, octant, rest, steep>>

MCInit ==
    /\ Text!Init
    /\ \/ suite = "laws" /\ Laws!Init /\ FloatIdle /\ TrigIdle /\ HeapIdle
       \/ suite = "text" /\ LawsIdle /\ FloatIdle /\ TrigIdle /\ HeapIdle
       \/ suite = "float" /\ Float!Init /\ LawsIdle /\ TrigIdle /\ HeapIdle
       \/ suite = "trig" /\ Init /\ LawsIdle /\ FloatIdle /\ HeapIdle
       \/ suite = "heap" /\ Heap!Init /\ LawsIdle /\ FloatIdle /\ TrigIdle

TextStep == suite = "text" /\ Text!Next /\ UNCHANGED <<suite, var, heap, Idle>>
HeapStep == suite = "heap" /\ Heap!Next /\ UNCHANGED <<suite, TextVars, Idle>>
Checked  == suite \in {"laws", "float", "trig"} /\ UNCHANGED <<suite, TextVars, var, heap, Idle>>

MCNext == TextStep \/ HeapStep \/ Checked
MCSpec == MCInit /\ [][MCNext]_<<suite, TextVars, var, heap, Idle>>

-----------------------------------------------------------------------------
\* The properties of the parts that call themselves.
PowDoubles == suite = "laws" => Pow!PowDoubles

PowersAndFloats ==
    /\ suite = "laws" => Pow!PowOfInteger
    /\ suite = "float" => Float!FloatsFaithful

-----------------------------------------------------------------------------
New(value, exp) == [value |-> value, exp |-> exp]
Numbers(values, exps) == {New(v, e) : v \in values, e \in exps}

\* Every pair of a few numbers at every scale; every number of up to three
\* digits, and some of more, rounded to every place.
PairOperands == Numbers({-13, -10, -5, -1, 0, 1, 3, 8, 12}, -2..1) \cup {New(Nil, 0)}
RoundOperands == Numbers(-130..130, -3..1) \cup Numbers({-1454, 1455, 2500}, {-3})
MCCases == (PairOperands \X PairOperands \X (-1..2))
           \cup (RoundOperands \X {New(1, 0)} \X (-2..3))

PowCases == Numbers({4}, {0}) \X (Numbers(0..6, {0}) \cup Numbers({5, 15}, {-1})) \X {1}

\* Every text of up to three characters over an alphabet, some longer ones,
\* and the forms JSON adds.
Alphabet == {"0", "5", ".", "-", "E"}
Bare == SeqOf(Alphabet, 3)
Longer == {<<"-", "5", ".", "0", "5", "0">>, <<".", "5", ".", "5">>, <<".", "-", "5", "5">>,
           <<"-", ".", "-", "5">>, <<"+", "5">>, <<"5", "E", "-", "5">>,
           <<".", "5", "E", "+", "5">>, <<"0", ".", "0", "0", "5">>, 
           <<".", "5", "E", "-", "4">>, <<"5", ".", "E", "-", "4">>}
Quoted == {<<"q">> \o text \o <<"q">> : text \in SeqOf({"5", ".", "-"}, 2)}
FewTexts == {<<"5">>}
MCTexts == Bare \cup Longer \cup Quoted \cup {<<"null">>, <<"q", "5">>}

\* Formats of a few bits: fractions, the neighbourhood of one, and integers of
\* several digits.
Format(mantbits, expbits, bias) == [mantbits |-> mantbits, expbits |-> expbits, bias |-> bias]
MCFormats == {Format(3, 3, -3), Format(5, 3, -3), Format(2, 4, -1), Format(4, 4, 0)}
FewFormats == {Format(1, 2, 0)}
MCExponents == {-4, -2, -1, 0, 1, 3}

\* Slopes around satan's limits; numbers that are ties, and of both signs.
MCSlopes == {-300, -100, -1, 0, 1, 65, 66, 67, 80, 99, 100, 101, 200, 241, 242, 243, 9999}
MCValues == {-5, 5}
MCExps == -1..1
=============================================================================
