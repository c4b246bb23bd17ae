CONSTANTS
  PerOctant = 3
  Slack = 1
  Drift = 1
  MantBits = 5
  MaxOctant = 19
  Slopes <- MCSlopes
  \* The narrower an exponent, the nearer its limits; the floats need more.
  LawsBits = 4
  PowBits = 4
  IntBits = 10
  TextBits = 3
  FloatBits = 5
  HeapBits = 5
  DivisionPrecision = 2
  Nil = Nil
  Panic = Panic
  Refused = Refused
  MarshalJSONWithoutQuotes = FALSE
  Cases <- MCCases
  Texts <- MCTexts
  Formats <- MCFormats
  Exponents <- MCExponents
  MaxShift = 5
  Size = 24
  Var = {a, b}
  Values <- MCValues
  Exps <- MCExps
  MaxValue = 8
SPECIFICATION MCSpec
INVARIANTS
  ExactAtEveryScale RoundingRight SeriesRight ZeroValueIsZero
  TextFaithful NullTracksInput PowersAndFloats TrigRight
PROPERTY Immutable
