----------------------------- MODULE Conversions -----------------------------
(* convert.go and convert_helpers.go: the Convert class, and the conversions   *)
(* and slices the other classes share.  A text is a sequence of character      *)
(* codes.  Floats are below a million, where FormatFloat writes an exponent.   *)
EXTENDS Values, SequencesExt

CONSTANTS
  ParseFloat(_),  \* strconv.ParseFloat: a text to Ok(float64) or Err
  Sprint(_),      \* fmt.Sprintf("%v") of an array, a tuple or a map
  Unfit           \* int(float64) of what no int holds: the least int on amd64

ASSUME UnfitAssumption == Unfit \in Int /\ Unfit = Wrap(Unfit)

IsSpace(c) == c \in {9, 10, 11, 12, 13, 32}
IsDigit(c) == c \in 48..57

(* strings.TrimSpace                                                           *)
Inside(s) == {k \in 1..Len(s) : ~IsSpace(s[k])}
Trim(s) ==
  IF Inside(s) = {} THEN <<>>
  ELSE SubSeq(s, CHOOSE k \in Inside(s) : \A j \in Inside(s) : k <= j,
                 CHOOSE k \in Inside(s) : \A j \in Inside(s) : k >= j)

(* strconv.Atoi: an optional sign, digits, and no more than an int holds.      *)
Unsigned(s) == IF s # <<>> /\ s[1] \in {43, 45} THEN Tail(s) ELSE s

Numeral(s) ==
  LET upTo[k \in 0..Len(s)] == IF k = 0 THEN 0 ELSE 10 * upTo[k - 1] + s[k] - 48
  IN upTo[Len(s)]

Signed(s) ==
  IF s # <<>> /\ s[1] = 45 THEN -Numeral(Unsigned(s)) ELSE Numeral(Unsigned(s))

HasNumeral(s) ==
  Unsigned(s) # <<>> /\ \A k \in 1..Len(Unsigned(s)) : IsDigit(Unsigned(s)[k])

(* A slip: what an int does not hold is no error.                              *)
AtoiUnranged(s) == IF HasNumeral(s) THEN Ok(Number(Signed(s))) ELSE Err

Atoi(s) ==
  IF HasNumeral(s) /\ Signed(s) = Wrap(Signed(s)) THEN Ok(Number(Signed(s))) ELSE Err

FloatToInt(n) == IF n = Wrap(n) THEN n ELSE Unfit

(* int(float64) drops the fraction; math.Round goes to the nearest whole       *)
(* number, and away from zero when two are.                                    *)
Truncated(q) == IF q < 0 THEN -((-q) \div Quarters) ELSE q \div Quarters

Rounded(q) ==
  IF q < 0 THEN -((2 * (-q) + Quarters) \div (2 * Quarters))
  ELSE (2 * q + Quarters) \div (2 * Quarters)

(* toInt: what a numeric argument is.                                          *)
ToInt(v) ==
  CASE Type(v) = "int" -> Ok(v)
    [] Type(v) = "bool" -> Ok(Number(BoolToInt(Contents(v))))
    [] Type(v) = "float64" -> Ok(Number(FloatToInt(Truncated(Contents(v)))))
    [] Type(v) = "string" -> Atoi(Trim(Contents(v)))
    [] OTHER -> Err

-----------------------------------------------------------------------------
(* pyStr: what an argument is as a text.                                       *)
Decimal[n \in Nat] ==
  IF n < 10 THEN <<48 + n>> ELSE Append(Decimal[n \div 10], 48 + (n % 10))

IntText(n) == IF n < 0 THEN <<45>> \o Decimal[-n] ELSE Decimal[n]

Fraction == << <<>>, <<46, 50, 53>>, <<46, 53>>, <<46, 55, 53>> >>

FloatText(q) ==
  LET size == IF q < 0 THEN -q ELSE q
  IN (IF q < 0 THEN <<45>> ELSE <<>>)
       \o Decimal[size \div Quarters] \o Fraction[(size % Quarters) + 1]

NoneText == <<78, 111, 110, 101>>
TrueText == <<84, 114, 117, 101>>
FalseText == <<70, 97, 108, 115, 101>>

PyStr(v) ==
  CASE Type(v) = "nil" -> NoneText
    [] Type(v) = "bool" -> IF Contents(v) THEN TrueText ELSE FalseText
    [] Type(v) = "string" -> Contents(v)
    [] Type(v) = "int" -> IntText(Contents(v))
    [] Type(v) = "float64" -> FloatText(Contents(v))
    [] OTHER -> Sprint(v)

-----------------------------------------------------------------------------
(* pySliceBound: an index from either end, clamped to 0..length.               *)
PySliceBound(idx, length) ==
  LET low == IF idx < 0 THEN (IF idx + length < 0 THEN 0 ELSE idx + length) ELSE idx
  IN IF low > length THEN length ELSE low

(* s[start:end], which is empty if start is not before end.                    *)
PySlice(s, start, end) ==
  SubSeq(s, PySliceBound(start, Len(s)) + 1, PySliceBound(end, Len(s)))

(* Python's s[start:end], stated without clamping: position p, from 0, is in   *)
(* it if it is not before start and before end, each counted from either end.  *)
InSlice(p, start, end, length) ==
  /\ (IF start < 0 THEN p - length ELSE p) >= start
  /\ (IF end < 0 THEN p - length ELSE p) < end

IsSlice(part, s, start, end) ==
  \E k \in 0..Len(s) :
    /\ k + Len(part) <= Len(s) /\ part = SubSeq(s, k + 1, k + Len(part))
    /\ \A p \in 0..Len(s) - 1 :
         InSlice(p, start, end, Len(s)) <=> p \in k..k + Len(part) - 1

-----------------------------------------------------------------------------
(* A slip: a float loses its fraction, as it does in toInt.                    *)
ConvertToIntTruncates(v) == IF Type(v) = "string" /\ ~ToInt(v).ok THEN Ok(Number(0)) ELSE ToInt(v)

(* Convert.toInt rounds, and a text that is no int is 0.                       *)
ConvertToInt(v) ==
  CASE Type(v) = "float64" -> Ok(Number(FloatToInt(Rounded(Contents(v)))))
    [] Type(v) = "string" /\ ~ToInt(v).ok -> Ok(Number(0))
    [] OTHER -> ToInt(v)

ConvertToNum(v) ==
  CASE Type(v) = "int" -> Ok(Float(Quarters * Contents(v)))
    [] Type(v) = "bool" -> Ok(Float(Quarters * BoolToInt(Contents(v))))
    [] Type(v) = "float64" -> Ok(v)
    [] Type(v) = "string" ->
         LET parsed == ParseFloat(Trim(Contents(v)))
         IN IF parsed.ok THEN parsed ELSE Ok(Float(0))
    [] OTHER -> Err

ConvertCall(method, args) ==
  CASE method = "toInt" /\ Len(args) = 1 -> ConvertToInt(args[1])
    [] method = "toNum" /\ Len(args) = 1 -> ConvertToNum(args[1])
    [] OTHER -> Err
=============================================================================
