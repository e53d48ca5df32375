----------------------------- MODULE LazyMeaning -----------------------------
(* What an expression means if AND, OR and ?: look at no more operands than    *)
(* they need and absent properties are nil: the reference the evaluator, which *)
(* evaluates everything and may be strict, is checked against.  There is no    *)
(* stack and no order of steps here, only a tree and the user it is read for.  *)
EXTENDS Operations

CONSTANTS tree, user, CallClass(_, _)

Nodes == 1..Len(tree)
Kid(i, k) == tree[i].kids[k]
Kids(i) == 1..Len(tree[i].kids)

(* The first k values, with the elements of tuples standing for the tuples.    *)
SpreadTo(vals) ==
  LET upTo[k \in 0..Len(vals)] ==
        IF k = 0 THEN <<>>
        ELSE IF k = 1 THEN SpreadArgs(vals[1]) ELSE upTo[k - 1] \o SpreadArgs(vals[k])
  IN upTo

Spread(vals) == SpreadTo(vals)[Len(vals)]

Attribute(v, name) ==
  IF Type(v) # "map" \/ name \notin DOMAIN Contents(v) THEN Null
  ELSE IF Type(Contents(v)[name]) # "string" THEN Contents(v)[name]
  ELSE Text(WithoutQuotes(Contents(Contents(v)[name])))

-----------------------------------------------------------------------------
(* In what follows m[k] is the meaning, Ok(value) or Err, of operand k.        *)

(* The value of path i after each of its hops; a call is a hop of its own.     *)
Walk(i, m) ==
  LET after[k \in 0..Len(tree[i].kids)] ==
        IF k = 0 THEN Ok(IF tree[i].op = "User" THEN user.profile ELSE Null)
        ELSE IF ~after[k - 1].ok THEN Err
        ELSE IF tree[Kid(i, k)].kind # "NameHop" THEN m[k]
        ELSE Ok(Attribute(after[k - 1].val, tree[Kid(i, k)].name))
  IN after

(* A chain stops at the first operand that decides it, or at the last.         *)
Chain(i, m) ==
  LET decides(k) == m[k].ok /\ Decided(tree[i].op, m[k].val)
      stop == CHOOSE k \in Kids(i) : /\ decides(k) \/ k = Len(tree[i].kids)
                                     /\ \A j \in 1..k - 1 : ~decides(j)
  IN IF \A k \in 1..stop : m[k].ok THEN m[stop] ELSE Err

(* A class answers with a value or with an error.                              *)
Answer(outcome) == IF outcome.ok THEN Ok(outcome.val) ELSE Err

(* What a node that needs all its operands makes of them.                      *)
Apply(i, vals) ==
  CASE tree[i].kind = "Literal" -> Ok(tree[i].val)
    [] tree[i].kind = "ArrayLit" -> Ok(Array(vals))
    [] tree[i].kind = "CommaList" ->
         Ok(IF vals = <<>> THEN Null
            ELSE IF Len(vals) = 1 THEN vals[1] ELSE Tuple(Spread(vals)))
    [] tree[i].kind = "Comparison" -> ApplyComparison(tree[i].op, vals[1], vals[2])
    [] tree[i].kind = "Additive" -> AddOperands(vals[1], vals[2])
    [] tree[i].kind = "Not" -> Ok(Bool(~Truthy(vals[1])))
    [] tree[i].kind = "MemberOfExpr" ->
         IF Unanswerable(tree[i].op, vals[1])
           THEN Err ELSE Ok(Bool(IsMember(user, tree[i].op, vals[1])))
    [] tree[i].kind = "ClassCall" ->
         IF tree[i].op \in user.classes THEN Answer(CallClass(tree[i], Spread(vals))) ELSE Err
    [] OTHER -> Err

Eager(i) == tree[i].kind \notin {"NameHop", "PathExpr", "Ternary", "Logical"}

AllOk(i, m) == \A k \in Kids(i) : m[k].ok

MeaningOf(i, m) ==
  CASE Eager(i) -> IF AllOk(i, m) THEN Apply(i, [k \in Kids(i) |-> m[k].val]) ELSE Err
    [] tree[i].kind = "NameHop" -> Err
    [] tree[i].kind = "PathExpr" -> Walk(i, m)[Len(tree[i].kids)]
    [] tree[i].kind = "Logical" -> IF tree[i].kids = <<>> THEN Err ELSE Chain(i, m)
    [] tree[i].kind = "Ternary" ->
         IF m[1].ok THEN m[IF Truthy(m[1].val) THEN 2 ELSE 3] ELSE Err

Meanings[i \in Nodes] == MeaningOf(i, [k \in Kids(i) |-> Meanings[Kid(i, k)]])

Operands(i) == [k \in Kids(i) |-> Meanings[Kid(i, k)]]

-----------------------------------------------------------------------------
(* The nodes node i finds wrong although their own operands are all right.     *)
UnknownClass(i) == tree[i].kind = "ClassCall" /\ tree[i].op \notin user.classes

Absent(i, k) ==
  LET was == Walk(i, Operands(i))[k - 1]
  IN /\ tree[Kid(i, k)].kind = "NameHop" /\ was.ok
     /\ Type(was.val) = "map" /\ ~Holds(was.val, tree[Kid(i, k)].name)

Faults(i) ==
  IF tree[i].kind = "PathExpr"
    THEN {Kid(i, k) : k \in {k \in Kids(i) : user.strict /\ Absent(i, k)}}
  ELSE IF UnknownClass(i) \/ (Eager(i) /\ AllOk(i, Operands(i)) /\ ~Meanings[i].ok)
    THEN {i} ELSE {}

(* A node and all nodes below it.                                              *)
Under[i \in Nodes] == {i} \cup UNION {Under[Kid(i, k)] : k \in Kids(i)}

Wrong == UNION {Faults(i) : i \in Under[Len(tree)]}

(* Whoever reads from left to right and does what is within before what it is  *)
(* within meets node i no later than j; but a class is looked up before its    *)
(* arguments are read.                                                         *)
GoesFirst(i, j) ==
  \/ i = j
  \/ i \in Under[j] /\ ~UnknownClass(j)
  \/ j \in Under[i] /\ UnknownClass(i)
  \/ \E a \in Under[Len(tree)] : \E k, l \in Kids(a) :
       k < l /\ i \in Under[Kid(a, k)] /\ j \in Under[Kid(a, l)]
=============================================================================
