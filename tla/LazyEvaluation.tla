--------------------------- MODULE LazyEvaluation ---------------------------
(* The evaluator compared with the lazy meaning of its tree.                   *)
EXTENDS Evaluator

CONSTANT Depth  \* how many levels of arrays and tuples TuplesFlat looks into

ASSUME DepthAssumption == Depth \in Nat

Lazy(tree, user) == INSTANCE LazyMeaning

Kid(i, k) == prog[i].kids[k]

Meaning(i) == Lazy(prog, ctx)!Meanings[i]

Done == status \in {"Error", "Returned", "Unexpected"}

(* Evaluating every operand, strictly or not, changes whether there is a value *)
(* but never which: it is the one short-circuit evaluation without strict mode *)
(* finds, with comma lists spread into one flat tuple.                         *)
ValueIsLazy == status = "Value" => Meaning(Root) = Ok(result)

(* "AND/OR/ternary never short-circuit": an error anywhere in the tree, in a   *)
(* branch not taken too, is the error of the whole; and nothing else is.       *)
NoErrorLost == Done => (status = "Error" <=> Lazy(prog, ctx)!Wrong # {})

(* The error reported is the one a reader meets first.                         *)
FirstErrorWins ==
  status = "Error" =>
    /\ fault.node \in Lazy(prog, ctx)!Wrong
    /\ \A i \in Lazy(prog, ctx)!Wrong : Lazy(prog, ctx)!GoesFirst(fault.node, i)

(* The parts of a value: itself, its elements and their elements.              *)
Items(v) == IF Type(v) \in {"Array", "Tuple"} THEN Range(Contents(v)) ELSE {}

PartsTo(v) ==
  LET down[d \in 0..Depth] ==
        IF d = 0 THEN {v} ELSE down[d - 1] \cup UNION {Items(part) : part \in down[d - 1]}
  IN down

Flat(v) ==
  \A part \in PartsTo(v)[Depth] :
    Type(part) = "Tuple" => \A elem \in Items(part) : Type(elem) # "Tuple"

(* No tuple is ever an element of another, so that a class call's arguments do *)
(* not depend on how commas were nested in ternaries.                          *)
TuplesFlat ==
  /\ \A d \in 1..Len(stack) : \A k \in 1..Len(stack[d].vals) : Flat(stack[d].vals[k])
  /\ Flat(result)

(* String writes 1 + (2 + 3) as 1 + 2 + 3, which reads as another tree: however *)
(* a sum is grouped its value is the same, because the sum of two ints wraps    *)
(* around (values.go:181) and is not cut off at the largest int.                *)
SumsRegroup ==
  LET right == Kid(Root, 2)
      a == Meaning(Kid(Root, 1)).val
      b == Meaning(Kid(right, 1)).val
      c == Meaning(Kid(right, 2)).val
  IN status = "Value" /\ prog[Root].kind = "Additive" /\ prog[right].kind = "Additive" =>
       AddOperands(AddOperands(a, b).val, c) = Ok(result)

(* "mirrors Python's == semantics for the value types this language produces"  *)
(* (values.go:84): every value equals itself.                                  *)
EqualToItself ==
  status = "Value" /\ prog[Root].kind = "Comparison" /\ prog[Root].op = "EQ" =>
    (Meaning(Kid(Root, 1)) = Meaning(Kid(Root, 2)) => Truthy(result))
=============================================================================
