------------------------------ MODULE Equality ------------------------------
(* EqualOperands of values.go, which walks arrays and tuples recursively.      *)
EXTENDS Values

RECURSIVE EqualOperands(_, _)

(* A slip: booleans equal booleans only.                                       *)
EqualOperandsStrict(a, b) ==
  CASE Type(a) \in {"Array", "Tuple"} ->
         /\ Type(b) = Type(a)
         /\ Len(Contents(a)) = Len(Contents(b))
         /\ \A i \in 1..Len(Contents(a)) : EqualOperands(Contents(a)[i], Contents(b)[i])
    [] OTHER -> a = b

EqualOperands(a, b) ==
  CASE Type(a) = "nil" \/ Type(b) = "nil" -> Type(a) = Type(b)
    [] Type(a) = "bool" /\ Type(b) = "int" -> BoolToInt(Contents(a)) = Contents(b)
    [] Type(a) = "int" /\ Type(b) = "bool" -> Contents(a) = BoolToInt(Contents(b))
    [] Type(a) \in {"bool", "int", "float64", "string"} /\ Type(b) = Type(a) ->
         Contents(a) = Contents(b)
    [] Type(a) \in {"Array", "Tuple"} /\ Type(b) = Type(a) ->
         /\ Len(Contents(a)) = Len(Contents(b))
         /\ \A i \in 1..Len(Contents(a)) : EqualOperands(Contents(a)[i], Contents(b)[i])
    [] OTHER -> FALSE
=============================================================================
