----------------------------- MODULE DecimalText -----------------------------
(***************************************************************************)
(* Decimals as text, JSON, SQL values and bytes, and the variables they    *)
(* are decoded into: a Decimal and a NullDecimal that a client uses again  *)
(* and again.                                                              *)
(*                                                                         *)
(* A text is a sequence of characters; "q" is the double quote, "E" either *)
(* case of the exponent mark, and <<"null">> the literal null.             *)
(***************************************************************************)
EXTENDS Decimal, FiniteSets

CONSTANTS Texts,                    \* the inputs of the decoders
          Refused,                  \* an error instead of a number
          MarshalJSONWithoutQuotes  \* the package variable

VARIABLES dec,      \* a Decimal
          nul,      \* a NullDecimal
          input,    \* what the last call decoded, and how
          err       \* the errors it returned: [dec, nul]
vars == <<dec, nul, input, err>>

Digit == <<"0", "1", "2", "3", "4", "5", "6", "7", "8", "9">>
DigitSet == ToSet(Digit)
ValueOf(c) == CHOOSE n \in 0..9 : Digit[n + 1] = c
Zeros(n) == [i \in 1..n |-> "0"]

Numeral(n) ==
    LET text[m \in Nat] == IF m < 10 THEN <<Digit[m + 1]>>
                           ELSE Append(text[m \div 10], Digit[(m % 10) + 1])
    IN  text[n]

\* big.Int.String
IntText(n) == IF n < 0 THEN <<"-">> \o Numeral(-n) ELSE Numeral(n)

\* strconv.ParseInt and big.Int.SetString in base ten.
ParseInt(text) ==
    LET signed == text # <<>> /\ Head(text) \in {"-", "+"}
        digits == IF signed THEN Tail(text) ELSE text
        n == FoldLeft(LAMBDA acc, c : 10 * acc + ValueOf(c), 0, digits)
    IN  IF digits = <<>> \/ ~(ToSet(digits) \subseteq DigitSet) THEN Refused
        ELSE IF signed /\ Head(text) = "-" THEN -n ELSE n

-----------------------------------------------------------------------------
(* Reading *)

\* The first position of a character, or 0.
Index(text, c) == IF c \in ToSet(text) THEN SelectInSeq(text, LAMBDA e : e = c) ELSE 0

\* Of the parsed digits and the exponent.
FromPartsWrapped(n, exp) ==
    IF Refused \in {n, exp} THEN Refused ELSE New(n, Wrap(exp))

FromParts(n, exp) ==
    IF Refused \in {n, exp} \/ exp \notin MinExp..MaxExp THEN Refused ELSE New(n, exp)

\* value is what stands before the exponent mark; its point is at pIndex.
FromValue(value, pIndex, exp) ==
    LET fraction == SubSeq(value, pIndex + 1, Len(value))
    IN  IF exp = Refused \/ exp \notin MinExp..MaxExp THEN Refused
        ELSE IF pIndex = 0 THEN FromParts(ParseInt(value), exp)
        ELSE IF "." \in ToSet(fraction) THEN Refused
        ELSE FromParts(ParseInt(SubSeq(value, 1, pIndex - 1) \o fraction), exp - Len(fraction))

NewFromString(text) ==
    LET eIndex == Index(text, "E")
        value == SubSeq(text, 1, eIndex - 1)
    IN  IF eIndex = 0 THEN FromValue(text, Index(text, "."), 0)
        ELSE FromValue(value, Index(value, "."), ParseInt(SubSeq(text, eIndex + 1, Len(text))))

NewFromFormattedString(text, removed) ==
    NewFromString(FoldLeft(LAMBDA kept, c : IF c \in removed THEN kept ELSE Append(kept, c),
                           << >>, text))

RequireFromString(text) ==
    IF NewFromString(text) = Refused THEN Panic ELSE NewFromString(text)

-----------------------------------------------------------------------------
(* Writing *)

TrimmedBoth(digits) == SelectSeq(digits, LAMBDA c : c # "0")

Trimmed(digits) ==
    LET kept == {i \in 1..Len(digits) : digits[i] # "0"}
    IN  SubSeq(digits, 1, CHOOSE n \in 0..Len(digits) :
                             n \in kept \cup {0} /\ \A i \in kept : i <= n)

ToText(d, trimTrailingZeros) ==
    LET str == Numeral(Magnitude(Val(d)))
        padded == IF Len(str) > -d.exp THEN str ELSE Zeros(1 - d.exp - Len(str)) \o str
        point == Len(padded) + d.exp
        digits == SubSeq(padded, point + 1, Len(padded))
        fractionalPart == IF trimTrailingZeros THEN Trimmed(digits) ELSE digits
        number == SubSeq(padded, 1, point)
                  \o (IF fractionalPart = <<>> THEN <<>> ELSE <<".">> \o fractionalPart)
    IN  IF d.exp >= 0 THEN IntText(Rescale(d, 0).value)
        ELSE IF IsNegative(d) THEN <<"-">> \o number ELSE number

String(d) == ToText(d, TRUE)
StringScaled(d, exp) == String(Rescale(d, exp))
StringFixedTrimmed(d, places) == ToText(Round(d, places), TRUE)
StringFixed(d, places) == ToText(Round(d, places), FALSE)
StringFixedBank(d, places) == ToText(RoundBank(d, places), FALSE)
StringFixedCash(d, interval) == ToText(RoundCash(d, interval), FALSE)

MarshalText(d) == String(d)
MarshalJSON(d) ==
    IF MarshalJSONWithoutQuotes THEN String(d) ELSE <<"q">> \o String(d) \o <<"q">>

\* Four bytes of exponent, and big.Int's own encoding, which is empty for nil.
MarshalBinary(d) == [exp |-> d.exp, gob |-> IF d.value = Nil THEN <<>> ELSE <<d.value>>]

NullMarshalJSON(n) == IF n.valid THEN MarshalJSON(n.dec) ELSE <<"null">>
NullMarshalText(n) == IF n.valid THEN MarshalText(n.dec) ELSE <<>>
NullValue(n) == IF n.valid THEN String(n.dec) ELSE Nil

-----------------------------------------------------------------------------
(* Decoding into a variable: the number it holds afterwards, and the error. *)

Decimal0 == New(Nil, 0)

\* What a variable can hold.
Decimals == [value : Int \cup {Nil}, exp : MinExp..MaxExp]
Result(d, failed) == [d |-> d, failed |-> failed]

Stored(d) == Result(IF d = Refused THEN Decimal0 ELSE d, d = Refused)
Assigned(text) == Stored(NewFromString(text))

UnquoteIfQuoted(text) ==
    IF Len(text) > 2 /\ Head(text) = "q" /\ Last(text) = "q"
    THEN SubSeq(text, 2, Len(text) - 1) ELSE text

UnmarshalJSON(old, text) ==
    IF text = <<"null">> THEN Result(old, FALSE) ELSE Assigned(UnquoteIfQuoted(text))

UnmarshalText(old, text) == Assigned(text)

UnmarshalBinary(old, data) ==
    IF data.gob = <<>> THEN Result(old, TRUE) ELSE Result(New(data.gob[1], data.exp), FALSE)

\* A column is NULL, a number, text, or of a type that is none of these.
Scan(old, column) ==
    CASE column.kind = "number" -> Result(New(column.is, 0), FALSE)
      [] column.kind = "text" -> Assigned(UnquoteIfQuoted(column.is))
      [] column.kind \in {"null", "other"} -> Result(old, TRUE)

Null(d, valid) == [dec |-> d, valid |-> valid]

Columns == [kind : {"text"}, is : Texts] \cup [kind : {"number"}, is : {-5, 0}]
           \cup [kind : {"null", "other"}, is : {<<>>}]

\* Valid is set before the number is decoded, and stays set if that fails.
DecodeJSON == \E text \in Texts :
    LET r == UnmarshalJSON(dec, text)
        n == UnmarshalJSON(nul.dec, text)
    IN  /\ dec' = r.d
        /\ nul' = IF text = <<"null">> THEN Null(nul.dec, FALSE) ELSE Null(n.d, TRUE)
        /\ err' = [dec |-> r.failed, nul |-> text # <<"null">> /\ n.failed]
        /\ input' = [by |-> "json", is |-> text]

DecodeColumn == \E column \in Columns :
    LET r == Scan(dec, column)
        n == Scan(nul.dec, column)
        null == column.kind = "null"
    IN  /\ dec' = r.d
        /\ nul' = IF null THEN Null(nul.dec, FALSE) ELSE Null(n.d, TRUE)
        /\ err' = [dec |-> r.failed, nul |-> ~null /\ n.failed]
        /\ input' = [by |-> column.kind, is |-> column.is]

DecodeTextBlind == \E text \in Texts :
    LET r == UnmarshalText(dec, text)
    IN  /\ dec' = r.d
        /\ nul' = Null(r.d, TRUE)
        /\ err' = [dec |-> r.failed, nul |-> r.failed]
        /\ input' = [by |-> "xml", is |-> text]

\* UnmarshalText sets Valid only when the number has been decoded.
DecodeText == \E text \in Texts :
    LET r == UnmarshalText(dec, text)
    IN  /\ dec' = r.d
        /\ nul' = IF text = <<>> THEN Null(nul.dec, FALSE) ELSE Null(r.d, ~r.failed)
        /\ err' = [dec |-> r.failed, nul |-> text # <<>> /\ r.failed]
        /\ input' = [by |-> "xml", is |-> text]

\* Inputs are texts, an error is no number, no text is Nil; and an exponent has
\* room for the places that are checked.
Parameters ==
    /\ Texts \subseteq Seq(STRING)
    /\ Refused \notin Int /\ Refused \notin [value : Int \cup {Nil}, exp : Int]
    /\ Nil \notin Seq(DigitSet \cup {"-", "."})
    /\ DivisionPrecision \in Int
    /\ ExpBits \in Nat \ {0} /\ 2^ExpBits = MaxExp - MinExp + 1
    /\ MinExp \in Int /\ MaxExp \in Int /\ -3..2 \subseteq MinExp..MaxExp

Init ==
    /\ dec = Decimal0 /\ nul = Null(Decimal0, FALSE)
    /\ input = [by |-> "none", is |-> <<>>]
    /\ err = [dec |-> FALSE, nul |-> FALSE]

Next == DecodeJSON \/ DecodeColumn \/ DecodeText
Spec == Init /\ [][Next]_vars

-----------------------------------------------------------------------------
SameNumber(d, d2) == Refused \notin {d, d2} /\ Equal(d, d2)

(* Whatever number a variable holds, its text, JSON and XML are read back as *)
(* the same number, with and without the trailing zeros, and a NullDecimal   *)
(* comes back null exactly when it was.  Bytes are read back too, except     *)
(* those of a Decimal{}, which UnmarshalBinary refuses.                      *)
RoundTrips ==
    /\ SameNumber(NewFromString(String(dec)), dec)
    /\ RequireFromString(String(dec)) = NewFromString(String(dec))
    /\ SameNumber(NewFromFormattedString(MarshalJSON(dec), {"q"}), dec)
    /\ SameNumber(NewFromString(StringScaled(dec, -1)), Rescale(dec, -1))
    /\ NewFromString(ToText(dec, FALSE)) \in {Rescale(dec, dec.exp), Rescale(dec, 0)}
    /\ \A old \in {Decimal0, New(7, -1)} :
          /\ SameNumber(UnmarshalJSON(old, MarshalJSON(dec)).d, dec)
          /\ SameNumber(UnmarshalText(old, MarshalText(dec)).d, dec)
    /\ UnmarshalBinary(New(7, -1), MarshalBinary(dec)) =
          IF dec.value = Nil THEN Result(New(7, -1), TRUE) ELSE Result(dec, FALSE)
    /\ (NullMarshalJSON(nul) = <<"null">>) = ~nul.valid
    /\ (NullMarshalText(nul) = <<>>) = ~nul.valid
    /\ (NullValue(nul) = Nil) = ~nul.valid

(* StringFixed shows exactly the places it is asked for and reads back as    *)
(* the rounded number; no number is written with a sign and only zeros.      *)
FixedPlaces ==
    \A places \in -1..2 :
        \A text \in {StringFixed(dec, places), StringFixedBank(dec, places)} :
            /\ IF places > 0 THEN Index(text, ".") = Len(text) - places
               ELSE "." \notin ToSet(text)
            /\ Head(text) = "-" => ToSet(text) \cap (DigitSet \ {"0"}) # {}
            /\ text = StringFixed(dec, places) =>
                  SameNumber(NewFromString(text), Round(dec, places))
    /\ \A interval \in CashIntervals :
          SameNumber(NewFromString(StringFixedCash(dec, interval)), RoundCash(dec, interval))

(* A text is accepted exactly when it reads [sign] digits [. digits] [E      *)
(* [sign] digits] with a digit before the E, in range, and is worth what its *)
(* digits say by their places.  The code also takes a sign right after a     *)
(* leading point: ".-5" is -0.05.                                            *)
WellFormed(text) ==
    LET e == Index(text, "E")
        mantissa == IF e = 0 THEN text ELSE SubSeq(text, 1, e - 1)
        unsigned(s) == IF s # <<>> /\ Head(s) \in {"-", "+"} THEN Tail(s) ELSE s
        body == IF mantissa # <<>> /\ Head(mantissa) = "." THEN <<".">> \o unsigned(Tail(mantissa))
                ELSE unsigned(mantissa)
        power == unsigned(SubSeq(text, e + 1, Len(text)))
    IN  /\ ToSet(body) \subseteq DigitSet \cup {"."} /\ ToSet(body) \cap DigitSet # {}
        /\ \A i, j \in 1..Len(body) : body[i] = "." /\ body[j] = "." => i = j
        /\ e # 0 => power # <<>> /\ ToSet(power) \subseteq DigitSet

ReadsAsWritten ==
    input.by = "xml" =>
        LET text == input.is
            e == Index(text, "E")
            power == IF e = 0 THEN 0 ELSE ParseInt(SubSeq(text, e + 1, Len(text)))
            mantissa == IF e = 0 THEN text ELSE SubSeq(text, 1, e - 1)
            point == IF "." \in ToSet(mantissa) THEN Index(mantissa, ".") ELSE Len(mantissa) + 1
            Place(i) == IF i < point THEN point - i - 1 ELSE point - i
            fraction == Len(mantissa) - (IF point > Len(mantissa) THEN Len(mantissa) ELSE point)
            worth == FoldLeft(LAMBDA total, share : total + share, 0,
                         [i \in 1..Len(mantissa) |->
                             IF mantissa[i] \in DigitSet
                             THEN ValueOf(mantissa[i]) * 10^(Place(i) + fraction) ELSE 0])
            inRange == {power, power - fraction} \subseteq MinExp..MaxExp
        IN  /\ err.dec = ~(WellFormed(text) /\ inRange)
            /\ ~err.dec =>
                  /\ dec.exp = power - fraction
                  /\ Magnitude(Val(dec)) = worth
                  /\ IsNegative(dec) <=> "-" \in ToSet(mantissa) /\ worth # 0

(* After a call that returned no error, a NullDecimal is valid exactly when  *)
(* the input was not null, and then holds the number a Decimal decodes from  *)
(* it: a number left from an earlier call never shows.  After an error from  *)
(* UnmarshalText it is not valid.                                            *)
NullTracksInput ==
    LET null == \/ input.by \in {"none", "null"}
                \/ input.by = "json" /\ input.is = <<"null">>
                \/ input.by = "xml" /\ input.is = <<>>
    IN  /\ ~err.nul => /\ nul.valid = ~null
                       /\ nul.valid => nul.dec = dec
        /\ err.nul /\ input.by = "xml" => ~nul.valid

(* What is written is read as the number it was written from, to the places  *)
(* that were asked for, and nothing but a number is read.                    *)
TextFaithful == RoundTrips /\ FixedPlaces /\ ReadsAsWritten
=============================================================================
