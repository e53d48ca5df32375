----------------------------- MODULE MCEvaluator -----------------------------
(* Instances of Evaluator: the trees and contexts TLC evaluates, with the      *)
(* default classes, and the evaluator compared with the lazy meaning.          *)
EXTENDS LazyEvaluation, MCRegistry, Equality

CONSTANTS Leaves, Pads,  \* the expressions trees are made of; the second ones
          Shapes         \* the ways to make one of two others

(* Nested trees, and the arena of one: operands first, left to right.          *)
Tree(kind, op, name, val, kids) ==
  [kind |-> kind, op |-> op, name |-> name, val |-> val, kids |-> kids]

RECURSIVE Flatten(_, _)
Flatten(tree, arena) ==
  LET Place(built, kid) ==
        LET next == Flatten(kid, built.arena)
        IN [arena |-> next, roots |-> Append(built.roots, Len(next))]
      all == FoldLeft(Place, [arena |-> arena, roots |-> <<>>], tree.kids)
  IN Append(all.arena, [tree EXCEPT !.kids = all.roots])

Lit(v) == Tree("Literal", "", "", v, <<>>)
Hop(name) == Tree("NameHop", "", name, Null, <<>>)
Path(op, hops) == Tree("PathExpr", op, "", Null, hops)
MemberCall(kind, arg) == Tree("MemberOfExpr", kind, "", Null, <<arg>>)
Call(class, method, kids) == Tree("ClassCall", class, method, Null, kids)
Of(kind, op, kids) == Tree(kind, op, "", Null, kids)

MCCallClass(node, args) == CallOf(node.op, node.name, args)

(* A pattern that is plain text matches where it occurs first.                 *)
MCFirstMatch(pattern, name) ==
  LET at == {k \in 1..Len(name) + 1 - Len(pattern) :
               SubSeq(name, k, k + Len(pattern) - 1) = pattern}
  IN IF at = {} THEN 0 ELSE CHOOSE k \in at : \A j \in at : k <= j
MCBadPatterns == {<<40>>}

-----------------------------------------------------------------------------
(* Chains, negations and ternaries over conditions, values and errors.         *)
LogicLeaves == {
  Lit(Bool(TRUE)), Lit(Number(0)),
  Path("User", <<Hop("dept")>>), Path("User", <<Hop("boss"), Hop("dept")>>),
  MemberCall("MemberOf", Lit(Text(<<97>>))),
  Call("Custom", "f", <<Call("Arrays", "size", <<Lit(Number(1))>>)>>)}

LogicShapes == {"not", "and", "or", "and3", "or3", "then", "else", "empty"}

(* Values of every type, commas, arrays, calls, comparisons and group names,   *)
(* and what only a caller can build.                                           *)
Spread12 == Of("Ternary", "", <<Lit(Bool(TRUE)),
  Of("CommaList", "", <<Lit(Number(1)), Lit(Text(<<97>>))>>), Lit(Null)>>)

ValueLeaves == {
  Lit(Bool(TRUE)), Lit(Number(1)), Lit(Number(-1024)), Lit(Float(3)), Lit(Text(<<97>>)), Lit(Text(<<40>>)),
  Path("User", <<>>), Path("User", <<Hop("dept")>>), Path("Name", <<Hop("dept")>>),
  Of("ArrayLit", "", <<>>), Of("CommaList", "", <<>>), Of("Foreign", "", <<>>), Spread12}

ValuePads == {Lit(Number(1)), Spread12}

CallShapes == {"get", "contains", "flatten", "size", "add"}

MemberShapes == {"MemberOf", "MemberOfAny", "MemberOfName", "MemberOfGroupStartsWith",
                 "MemberOfGroupContains", "MemberOfGroupNameRegex", "MemberOfNobody"}

ValueShapes == {"list", "array", "plus", "EQ", "GTE", "hop"}
               \cup CallShapes \cup MemberShapes

(* The shapes of trees: each makes one tree of two others.                     *)
Build(shape, a, b) ==
  CASE shape = "not" -> Of("Not", "", <<a>>)
    [] shape = "and" -> Of("Logical", "And", <<a, b>>)
    [] shape = "or" -> Of("Logical", "Or", <<a, b>>)
    [] shape = "and3" -> Of("Logical", "And", <<b, a, Lit(Number(1))>>)
    [] shape = "or3" -> Of("Logical", "Or", <<b, a, Lit(Number(1))>>)
    [] shape = "then" -> Of("Ternary", "", <<a, b, Lit(Bool(FALSE))>>)
    [] shape = "else" -> Of("Ternary", "", <<Lit(Bool(FALSE)), a, b>>)
    [] shape = "list" -> Of("CommaList", "", <<a, b>>)
    [] shape = "array" -> Of("ArrayLit", "", <<a>>)
    [] shape = "plus" -> Of("Additive", "Plus", <<a, b>>)
    [] shape \in {"EQ", "GTE"} -> Of("Comparison", shape, <<a, b>>)
    [] shape = "hop" ->
         Path("User", <<Tree("MemberOfExpr", "MemberOf", "", Null, <<a>>), Hop("dept")>>)
    [] shape = "empty" -> Of("Logical", "Or", <<>>)
    [] shape \in CallShapes -> Call("Arrays", shape, <<a>>)
    [] shape \in MemberShapes -> MemberCall(shape, a)

Small == Leaves \cup {Build(shape, a, b) : shape \in Shapes, a \in Leaves, b \in Pads}

Arenas ==
  {Flatten(IF first THEN Build(shape, a, b) ELSE Build(shape, b, a), <<>>) :
     shape \in Shapes, a \in Small, b \in Leaves, first \in BOOLEAN}

(* TLC works Arenas out once; a definition named in a .cfg it would not.       *)
MCPrograms == Arenas

-----------------------------------------------------------------------------
Group(name) == Map([profile |-> Map([name |-> Text(name)])])

Staff == [profile |-> Map([dept |-> Text(<<97, 34>>), boss |-> Map([name |-> Text(<<98>>)])]),
          groupIDs |-> {<<97>>}, groupData |-> {Group(<<97, 98>>), Null},
          classes |-> {"Arrays"}, strict |-> FALSE]

Lenient == {Staff}
MCContexts == {Staff, [Staff EXCEPT !.strict = TRUE]}

AnyOnly == {"any"}
BoolOnly == {"bool"}
=============================================================================
