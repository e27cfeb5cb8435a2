----------------------------- MODULE ValueSyntax -----------------------------
(***************************************************************************)
(* The text of a scalar Property (src/src/reader.cpp, from trim_xml_-        *)
(* whitespace to is_valid_scalar_or_complex_value; src/src/writer.cpp has     *)
(* the same functions again).  A text is a sequence of characters; the words  *)
(* true, false, nan, NaN, inf and Inf are one each, and so are the date, the   *)
(* time of day and the offset of a TimePoint.                                *)
(***************************************************************************)
EXTENDS Integers, Sequences, SequencesExt, FiniteSets, TLC

Blanks == {" ", "tab", "lf", "cr"}

Trim(text) ==
  LET marks == {k \in DOMAIN text : text[k] \notin Blanks}
  IN IF marks = {} THEN << >> ELSE SubSeq(text, Min(marks), Max(marks))

Decimals == <<"0", "1", "2", "3", "4", "5", "6", "7", "8", "9">>
Hexadecimals == Decimals \o <<"a", "b", "c", "d", "e", "f">>
Digit == [c \in Range(Hexadecimals) |->
            CHOOSE v \in 0 .. 15 : Hexadecimals[v + 1] = c]

AllDigits(text, base) ==
  \A k \in DOMAIN text : text[k] \in DOMAIN Digit /\ Digit[text[k]] < base

Bases == {2, 8, 16}
PrefixOf(base) == CASE base = 2 -> "b" [] base = 8 -> "o" [] base = 16 -> "x"

HasPrefix(text, base) ==
  Len(text) >= 2 /\ text[1] = "0" /\ text[2] = PrefixOf(base)

\* Decimal digits of a number.
Numeral(n) ==
  LET width == CHOOSE w \in 1 .. 10 : n < 10 ^ w /\ (w = 1 \/ n >= 10 ^ (w - 1))
  IN [k \in 1 .. width |-> Decimals[((n \div 10 ^ (width - k)) % 10) + 1]]

\* maximum_decimal_magnitude: the literals of its table for 8 and 16 bits.  Those
\* for 32, 64 and 128 bits are beyond TLC's integers and are not looked at.
MaximumMagnitude(width, signed, negative) ==
  Numeral(CASE ~signed -> IF width = 8 THEN 255 ELSE 65535
            [] signed /\ negative -> IF width = 8 THEN 128 ELSE 32768
            [] OTHER -> IF width = 8 THEN 127 ELSE 32767)

\* Mutant: the lengths are not compared first.
MagnitudeFitsMutant(digits, maximum) ==
  \/ digits = maximum
  \/ \E k \in 1 .. Len(maximum) : /\ k <= Len(digits) => Digit[digits[k]] < Digit[maximum[k]]
                                  /\ k <= Len(digits) + 1
                                  /\ \A j \in 1 .. k - 1 : digits[j] = maximum[j]

\* The comparison of the texts, once they are as long.
MagnitudeFits(digits, maximum) ==
  \/ Len(digits) < Len(maximum)
  \/ /\ Len(digits) = Len(maximum)
     /\ \/ digits = maximum
        \/ \E k \in DOMAIN digits : /\ Digit[digits[k]] < Digit[maximum[k]]
                                    /\ \A j \in 1 .. k - 1 : digits[j] = maximum[j]

\* prefixed_integer_fits: the digits that count have at most as many bits as the
\* type, in octal with the bits of the first one.
PrefixedFits(text, base, width) ==
  LET marks == {k \in DOMAIN text : text[k] # "0"}
      digits == SubSeq(text, Min(marks), Len(text))
      most == (width + 2) \div 3
  IN IF marks = {} THEN TRUE
     ELSE CASE base = 2 -> Len(digits) <= width
            [] base = 16 -> Len(digits) <= width \div 4
            [] base = 8 /\ Len(digits) = most ->
                 width % 3 = 0 \/ Digit[digits[1]] <= 2 ^ (width % 3) - 1
            [] OTHER -> Len(digits) < most

ValidInteger(untrimmed, signed, width) ==
  LET text == Trim(untrimmed)
      negative == text # << >> /\ text[1] = "-"
      digits == IF text # << >> /\ text[1] \in {"+", "-"} THEN Tail(text) ELSE text
  IN IF \E base \in Bases : HasPrefix(text, base)
     THEN \E base \in Bases :
            /\ HasPrefix(text, base)
            /\ Len(text) > 2 /\ AllDigits(SubSeq(text, 3, Len(text)), base)
            /\ PrefixedFits(SubSeq(text, 3, Len(text)), base, width)
     ELSE /\ negative => signed
          /\ digits # << >> /\ (Len(digits) > 1 => digits[1] # "0")
          /\ AllDigits(digits, 10)
          /\ MagnitudeFits(digits, MaximumMagnitude(width, signed, negative))

\* The place after the digits that start at `from`.
After(text, from) ==
  Min({k \in from .. Len(text) + 1 : k > Len(text) \/ text[k] \notin Range(Decimals)})

Floats == {<<"NaN">>, <<"+", "Inf">>, <<"-", "Inf">>, <<"nan">>, <<"-", "nan">>,
           <<"inf">>, <<"-", "inf">>}

At(text, k, chars) == k <= Len(text) /\ text[k] \in chars

ValidFloat(untrimmed) ==
  LET whole == Trim(untrimmed)
      text == IF At(whole, 1, {"+", "-"}) THEN Tail(whole) ELSE whole
      point == After(text, 1)
      fraction == IF At(text, point, {"."}) THEN After(text, point + 1) ELSE point
      start == IF At(text, fraction + 1, {"+", "-"}) THEN fraction + 2 ELSE fraction + 1
      exponent == IF At(text, fraction, {"e", "E"}) THEN After(text, start) ELSE fraction
  IN \/ whole \in Floats
     \/ /\ text # << >>
        /\ fraction # point => fraction > point + 1
        /\ point > 1 \/ fraction > point
        /\ exponent # fraction => exponent > start
        /\ exponent = Len(text) + 1

ValidComplex(untrimmed) ==
  LET text == Trim(untrimmed)
      commas == {k \in 2 .. Len(text) - 1 : text[k] = ","}
  IN /\ Len(text) >= 5 /\ text[1] = "(" /\ Last(text) = ")"
     /\ Cardinality(commas) = 1
     /\ \A k \in commas : /\ ValidFloat(SubSeq(text, 2, k - 1))
                          /\ ValidFloat(SubSeq(text, k + 1, Len(text) - 1))

LeapYear(year) == year % 4 = 0 /\ (year % 100 # 0 \/ year % 400 = 0)

MonthLengths == <<31, 28, 31, 30, 31, 30, 31, 31, 30, 31, 30, 31>>

\* Some texts of ten, eight and five characters with their digits, at the edges of
\* what is a date, a time or an offset and beyond.
Dates ==
  "2000-02-29" :> <<2000, 2, 29>> @@ "1900-02-29" :> <<1900, 2, 29>>
  @@ "2024-02-29" :> <<2024, 2, 29>> @@ "2023-02-29" :> <<2023, 2, 29>>
  @@ "2023-04-31" :> <<2023, 4, 31>> @@ "2023-12-31" :> <<2023, 12, 31>>
  @@ "2023-13-01" :> <<2023, 13, 1>> @@ "2023-00-01" :> <<2023, 0, 1>>
  @@ "2023-01-00" :> <<2023, 1, 0>>

Clocks ==
  "00:00:00" :> <<0, 0, 0>> @@ "23:59:60" :> <<23, 59, 60>> @@ "00:00:61" :> <<0, 0, 61>>
  @@ "00:60:00" :> <<0, 60, 0>> @@ "24:00:00" :> <<24, 0, 0>>

Offsets == "23:59" :> <<23, 59>> @@ "24:00" :> <<24, 0>> @@ "00:60" :> <<0, 60>>

\* The date and the time of is_canonical_utc_time and is_valid_time_point_value.
ValidMoment(date, clock) ==
  LET month == date[2]
      longest == IF month = 2 /\ LeapYear(date[1]) THEN 29 ELSE MonthLengths[month]
  IN /\ month \in DOMAIN MonthLengths /\ date[3] \in 1 .. longest
     /\ clock[1] <= 23 /\ clock[2] <= 59 /\ clock[3] <= 60

\* date "T" time [. digits] [Z | sign offset]
ValidTime(untrimmed) ==
  LET text == Trim(untrimmed)
      zone == IF At(text, 4, {"."}) THEN After(text, 5) ELSE 4
  IN /\ Len(text) >= 3 /\ text[2] \in {"T", "t"}
     /\ text[1] \in DOMAIN Dates /\ text[3] \in DOMAIN Clocks
     /\ ValidMoment(Dates[text[1]], Clocks[text[3]])
     /\ zone # 5
     /\ \/ zone = Len(text) + 1
        \/ At(text, zone, {"Z", "z"}) /\ zone = Len(text)
        \/ /\ At(text, zone, {"+", "-"}) /\ zone + 1 = Len(text)
           /\ Last(text) \in DOMAIN Offsets
           /\ Offsets[Last(text)][1] <= 23 /\ Offsets[Last(text)][2] <= 59

CanonicalTime(text) ==
  /\ Len(text) = 4 /\ text[2] = "T" /\ text[4] = "Z"
  /\ text[1] \in DOMAIN Dates /\ text[3] \in DOMAIN Clocks
  /\ ValidMoment(Dates[text[1]], Clocks[text[3]])

Width == [t \in {"Int8", "UInt8", "Int16", "UInt16"} |-> IF t \in {"Int8", "UInt8"} THEN 8 ELSE 16]
Signed == {"Int8", "Int16"}

\* Types of each of the five families; the aliases and the wider types differ in
\* nothing but the width.
ScalarTypes == {"Boolean", "Float32", "Complex32"} \cup DOMAIN Width

ValidScalar(type, text) ==
  CASE type = "Boolean" -> Trim(text) \in {<<"true">>, <<"false">>, <<"0">>, <<"1">>}
    [] type \in DOMAIN Width -> ValidInteger(text, type \in Signed, Width[type])
    [] type = "Float32" -> ValidFloat(text)
    [] type = "Complex32" -> ValidComplex(text)

-----------------------------------------------------------------------------
(* The numbers and moments that such a text stands for, from the grammar. *)

NumberOf(digits, base) == FoldLeft(LAMBDA n, c : base * n + Digit[c], 0, digits)

\* The text is one of these, with blanks around it.
Around(text, Literal(_)) ==
  \E i \in 1 .. Len(text) + 1 : \E j \in i - 1 .. Len(text) :
    /\ Literal(SubSeq(text, i, j))
    /\ \A k \in DOMAIN text : k < i \/ k > j => text[k] \in Blanks

IsNumeral(text) == text # << >> /\ AllDigits(text, 10)

IntegerLiteral(text, signed, width) ==
  \/ \E base \in Bases :
       LET digits == SubSeq(text, 3, Len(text))
       IN /\ HasPrefix(text, base) /\ digits # << >> /\ AllDigits(digits, base)
          /\ NumberOf(digits, base) < 2 ^ width
  \/ \E sign \in {<< >>, <<"+">>, <<"-">>} :
       LET digits == SubSeq(text, Len(sign) + 1, Len(text))
           n == NumberOf(digits, 10)
       IN /\ text = sign \o digits /\ IsNumeral(digits)
          /\ digits[1] = "0" => Len(digits) = 1
          /\ IF ~signed THEN sign # <<"-">> /\ n < 2 ^ width
             ELSE IF sign = <<"-">> THEN -n >= -(2 ^ (width - 1)) ELSE n < 2 ^ (width - 1)

\* [sign] digits [. digits] [e [sign] digits], with digits before or after the point.
FloatLiteral(text) ==
  \/ text \in Floats
  \/ \E sign, mark \in {<< >>, <<"+">>, <<"-">>}, point \in {<< >>, <<".">>},
        e \in {<< >>, <<"e">>, <<"E">>} :
       \E i \in 0 .. Len(text) : \E j \in i .. Len(text) :
         LET whole == SubSeq(text, Len(sign) + 1, i)
             fraction == SubSeq(text, i + Len(point) + 1, j)
             exponent == SubSeq(text, j + Len(e) + Len(mark) + 1, Len(text))
         IN /\ text = sign \o whole \o point \o fraction \o e \o mark \o exponent
            /\ AllDigits(whole, 10) /\ AllDigits(fraction, 10) /\ AllDigits(exponent, 10)
            /\ (point = << >>) <=> (fraction = << >>)
            /\ (e = << >>) <=> (exponent = << >>)
            /\ e = << >> => mark = << >>
            /\ whole \o fraction # << >>

ComplexLiteral(text) ==
  \E k \in DOMAIN text :
    /\ text[1] = "(" /\ text[k] = "," /\ Last(text) = ")"
    /\ Around(SubSeq(text, 2, k - 1), FloatLiteral)
    /\ Around(SubSeq(text, k + 1, Len(text) - 1), FloatLiteral)

\* The days of the Gregorian calendar: leap days before a year, and the months by
\* the rule of the knuckles.
LeapDays(year) == year \div 4 - year \div 100 + year \div 400
DaysIn(month, year) ==
  IF month = 2 THEN 28 + LeapDays(year) - LeapDays(year - 1)
  ELSE 30 + ((month + month \div 8) % 2)

DenotesMoment(text) ==
  \E date \in DOMAIN Dates, clock \in DOMAIN Clocks, t \in {"T", "t"} :
    \E i \in 3 .. Len(text) :
      LET fraction == SubSeq(text, 4, i)
          zone == SubSeq(text, i + 1, Len(text))
          day == Dates[date]
          time == Clocks[clock]
      IN /\ SubSeq(text, 1, 3) = <<date, t, clock>>
         /\ day[2] \in 1 .. 12 /\ day[3] \in 1 .. DaysIn(day[2], day[1])
         /\ time[1] \in 0 .. 23 /\ time[2] \in 0 .. 59 /\ time[3] \in 0 .. 60
         /\ fraction # << >> => fraction[1] = "." /\ IsNumeral(Tail(fraction))
         /\ \/ zone \in {<< >>, <<"Z">>, <<"z">>}
            \/ \E sign \in {"+", "-"}, o \in DOMAIN Offsets :
                 /\ zone = <<sign, o>>
                 /\ Offsets[o][1] \in 0 .. 23 /\ Offsets[o][2] \in 0 .. 59

Denotes(type, text) ==
  CASE type = "Boolean" -> Around(text, LAMBDA t : t \in {<<"true">>, <<"false">>, <<"0">>, <<"1">>})
    [] type \in DOMAIN Width ->
         Around(text, LAMBDA t : IntegerLiteral(t, type \in Signed, Width[type]))
    [] type = "Float32" -> Around(text, FloatLiteral)
    [] type = "Complex32" -> Around(text, ComplexLiteral)
    [] type = "TimePoint" -> Around(text, DenotesMoment)
=============================================================================
