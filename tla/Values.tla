------------------------------- MODULE Values -------------------------------
(* values.go: the values expressions compute with.  A value is a pair of its   *)
(* Go type and its contents: <<"int", 3>>, <<"string", <<97, 98>>> (character  *)
(* codes), <<"Array", elements>>, <<"Tuple", elements>>, <<"map", function>>.  *)
(* A float64 is a number of quarters: its rounding and NaN are left out.       *)
EXTENDS Integers, Sequences

CONSTANTS
  IntBits,     \* the width of Go's int
  Equal(_, _)  \* EqualOperands, which module Equality defines

(* The second conjunct follows from the first; the provers know no powers.     *)
ASSUME IntBitsAssumption == IntBits \in Nat \ {0} /\ 2 ^ IntBits > 0

TypeNames == {"nil", "bool", "int", "float64", "string", "Array", "Tuple", "map"}

Type(v) == v[1]
Contents(v) == v[2]

Null == <<"nil", FALSE>>
Bool(b) == <<"bool", b>>
Number(n) == <<"int", n>>
Quarters == 4
Float(quarters) == <<"float64", quarters>>
Text(s) == <<"string", s>>
Array(elems) == <<"Array", elems>>
Tuple(elems) == <<"Tuple", elems>>
Map(f) == <<"map", f>>

(* Go's (any, error): a value, or an error and no value.                       *)
Ok(v) == [ok |-> TRUE, val |-> v]
Err == [ok |-> FALSE, val |-> Null]

Wrap(n) == ((n + 2 ^ (IntBits - 1)) % (2 ^ IntBits)) - 2 ^ (IntBits - 1)

(* strings.Index: how many characters come before each t in s.                 *)
Occurrences(t, s) == {k \in 0..Len(s) - Len(t) : SubSeq(s, k + 1, k + Len(t)) = t}
Occurs(t, s) == Occurrences(t, s) # {}

(* strings.HasPrefix                                                           *)
HasPrefix(s, t) == Len(t) <= Len(s) /\ SubSeq(s, 1, Len(t)) = t

-----------------------------------------------------------------------------
Truthy(v) ==
  CASE Type(v) = "nil" -> FALSE
    [] Type(v) = "bool" -> Contents(v)
    [] Type(v) \in {"int", "float64"} -> Contents(v) # 0
    [] Type(v) \in {"string", "Array", "Tuple"} -> Len(Contents(v)) > 0
    [] Type(v) = "map" -> DOMAIN Contents(v) # {}

(* A slip: the right operand is taken as one element even when it is a tuple.  *)
MergeOperandsNests(a, b) ==
  IF Type(a) = "Tuple" THEN Tuple(Append(Contents(a), b)) ELSE Tuple(<<a, b>>)

(* The comma: tuples are joined, anything else is one more element.            *)
MergeOperands(a, b) ==
  CASE Type(a) = "Tuple" /\ Type(b) = "Tuple" -> Tuple(Contents(a) \o Contents(b))
    [] Type(a) = "Tuple" /\ Type(b) # "Tuple" -> Tuple(Contents(a) \o <<b>>)
    [] Type(a) # "Tuple" /\ Type(b) = "Tuple" -> Tuple(<<a>> \o Contents(b))
    [] OTHER -> Tuple(<<a, b>>)

SpreadArgs(v) == IF Type(v) = "Tuple" THEN Contents(v) ELSE <<v>>

-----------------------------------------------------------------------------
BoolToInt(b) == IF b THEN 1 ELSE 0

SameType(a, b) == Type(a) = Type(b)

Ordered(op, less, equal) ==
  CASE op = "GT" -> ~less /\ ~equal
    [] op = "GTE" -> ~less
    [] op = "LT" -> less
    [] op = "LTE" -> less \/ equal
    [] OTHER -> FALSE

(* Go orders strings by their first difference, and prefixes first.            *)
StringLess(s, t) ==
  \E k \in 1..Len(t) : /\ \A j \in 1..k - 1 : j <= Len(s) /\ s[j] = t[j]
                       /\ k <= Len(s) => s[k] < t[k]

CompareInts(op, a, b) == Ordered(op, a < b, a = b)

CompareStrings(op, s, t) == Ordered(op, StringLess(s, t), s = t)

(* Values of different types compare as false, values of a type without an     *)
(* order not at all.                                                           *)
CompareOperands(op, a, b) ==
  CASE ~SameType(a, b) -> Ok(Bool(FALSE))
    [] SameType(a, b) /\ Type(a) = "bool" ->
         Ok(Bool(CompareInts(op, BoolToInt(Contents(a)), BoolToInt(Contents(b)))))
    [] SameType(a, b) /\ Type(a) \in {"int", "float64"} ->
         Ok(Bool(CompareInts(op, Contents(a), Contents(b))))
    [] SameType(a, b) /\ Type(a) = "string" ->
         Ok(Bool(CompareStrings(op, Contents(a), Contents(b))))
    [] OTHER -> Err

(* A slip: integer addition stops at the largest and the least int.            *)
Clamp(n) ==
  CASE n >= 2 ^ (IntBits - 1) -> 2 ^ (IntBits - 1) - 1
    [] n < -(2 ^ (IntBits - 1)) -> -(2 ^ (IntBits - 1))
    [] OTHER -> n

AddOperandsSaturates(a, b) ==
  CASE SameType(a, b) /\ Type(a) = "string" -> Ok(Text(Contents(a) \o Contents(b)))
    [] SameType(a, b) /\ Type(a) = "int" -> Ok(Number(Clamp(Contents(a) + Contents(b))))
    [] SameType(a, b) /\ Type(a) = "float64" -> Ok(Float(Contents(a) + Contents(b)))
    [] OTHER -> Err

(* Integer addition wraps around.                                              *)
AddOperands(a, b) ==
  CASE SameType(a, b) /\ Type(a) = "string" -> Ok(Text(Contents(a) \o Contents(b)))
    [] SameType(a, b) /\ Type(a) = "int" -> Ok(Number(Wrap(Contents(a) + Contents(b))))
    [] SameType(a, b) /\ Type(a) = "float64" -> Ok(Float(Contents(a) + Contents(b)))
    [] OTHER -> Err
=============================================================================
