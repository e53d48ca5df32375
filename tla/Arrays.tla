------------------------------- MODULE Arrays -------------------------------
(* arrays.go: the Arrays class.                                                *)
EXTENDS Conversions

Elements(v) == IF Type(v) = "nil" THEN <<>> ELSE Contents(v)

HasElement(elems, v) == \E k \in 1..Len(elems) : Equal(elems[k], v)

(* A slip: the loop ends at the first element that is left out.                *)
RemovedBreaks(elems, v) ==
  LET equal == {k \in 1..Len(elems) : Equal(elems[k], v)}
  IN IF equal = {} THEN elems
     ELSE SubSeq(elems, 1, (CHOOSE k \in equal : \A j \in equal : k <= j) - 1)

Removed(elems, v) ==
  LET kept[k \in 0..Len(elems)] ==
        IF k = 0 THEN <<>>
        ELSE IF Equal(elems[k], v) THEN kept[k - 1] ELSE Append(kept[k - 1], elems[k])
  IN kept[Len(elems)]

(* A slip: indices go round and round.                                         *)
AtWraps(elems, n) == IF elems = <<>> THEN Null ELSE elems[(n % Len(elems)) + 1]

(* A negative index counts from the end; one that is out of range finds nil.   *)
At(elems, n) ==
  LET idx == IF n < 0 THEN n + Len(elems) ELSE n
  IN IF idx \in 0..Len(elems) - 1 THEN elems[idx + 1] ELSE Null

Got(elems, index) == IF index.ok THEN Ok(At(elems, Contents(index.val))) ELSE Err

(* One level of arrays is spread.                                              *)
Flattened(args) ==
  FlattenSeq([k \in 1..Len(args) |->
    IF Type(args[k]) = "Array" THEN Contents(args[k]) ELSE <<args[k]>>])

Csv(elems) ==
  FlattenSeq([k \in 1..Len(elems) |->
    IF k = 1 THEN Contents(elems[k]) ELSE <<44>> \o Contents(elems[k])])

Arity == [contains |-> 2, add |-> 2, remove |-> 2, clear |-> 1, get |-> 2,
          size |-> 1, isEmpty |-> 1, toCsvString |-> 1]

TakesNil == {"size", "isEmpty"}

(* The argument checks every method but flatten starts with.                   *)
ArgsOk(method, args) ==
  /\ method \in DOMAIN Arity
  /\ Len(args) = Arity[method]
  /\ \/ method = "clear"
     \/ Type(args[1]) = "Array"
     \/ method \in TakesNil /\ Type(args[1]) = "nil"

ArraysCall(method, args) ==
  IF method = "flatten" THEN Ok(Array(Flattened(args)))
  ELSE IF ~ArgsOk(method, args) THEN Err
  ELSE LET elems == Elements(args[1])
       IN CASE method = "contains" -> Ok(Bool(HasElement(elems, args[2])))
            [] method = "add" -> Ok(Array(Append(elems, args[2])))
            [] method = "remove" -> Ok(Array(Removed(elems, args[2])))
            [] method = "clear" -> Ok(Array(<<>>))
            [] method = "get" -> Got(elems, ToInt(args[2]))
            [] method = "size" -> Ok(Number(Len(elems)))
            [] method = "isEmpty" -> Ok(Bool(elems = <<>>))
            [] method = "toCsvString" ->
                 IF \A k \in 1..Len(elems) : Type(elems[k]) = "string"
                   THEN Ok(Text(Csv(elems))) ELSE Err
=============================================================================
