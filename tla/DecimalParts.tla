----------------------------- MODULE DecimalParts -----------------------------
(***************************************************************************)
(* The parts of the decimal package side by side. They share no state:     *)
(* suite says which of them a behaviour is about, and the variables of the *)
(* others are idle. Each part has exponents of a width of its own.         *)
(***************************************************************************)
EXTENDS DecimalTrig

CONSTANTS DivisionPrecision, Nil, Panic, Refused, MarshalJSONWithoutQuotes,
          LawsBits, TextBits, HeapBits, IntBits,
          Cases, Texts, Var, Values, Exps, MaxValue

VARIABLES suite, x, y, p, dec, nul, input, err, var, heap

Laws == INSTANCE DecimalLaws WITH ExpBits <- LawsBits
Text == INSTANCE DecimalText WITH ExpBits <- TextBits
Heap == INSTANCE DecimalHeap WITH ExpBits <- HeapBits

ASSUME LawsAssumption == Laws!Parameters
ASSUME RoundingAssumption == Laws!RoundingParameters
ASSUME SeriesAssumption == Laws!SeriesParameters
ASSUME HeapAssumption == Heap!Parameters
ASSUME TextAssumption == Text!Parameters

-----------------------------------------------------------------------------
\* The properties, where they are about something: see the modules.
ExactAtEveryScale == suite = "laws" => Laws!ExactAtEveryScale
RoundingRight     == suite = "laws" => Laws!RoundingRight
SeriesRight       == suite = "laws" => Laws!SeriesRight
TextFaithful      == suite = "text" => Text!TextFaithful
NullTracksInput   == suite = "text" => Text!NullTracksInput
Immutable         == Heap!Immutable

\* Decimal{} is 0 in every operation, and none writes through its nil.
ZeroValueIsZero ==
    /\ suite = "laws" => Laws!ZeroValueIsZero
    /\ suite = "heap" => Heap!NilUnwritten
=============================================================================
