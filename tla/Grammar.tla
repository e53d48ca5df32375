------------------------------- MODULE Grammar -------------------------------
(* The expression grammar, stated declaratively: Trees(t, at)[<<nt, i, j>>] is *)
(* what nonterminal nt derives from the tokens t[i..j] of a stream t.  It is   *)
(* the reference the parser is checked against, one production per level of    *)
(* precedence; a second tree would be an ambiguity.  Parentheses leave no node,*)
(* as in the parser.  A node keeps at[i] of the token i it came from: its      *)
(* index, or something all tokens share when only shapes are compared.         *)
EXTENDS Syntax, Integers, Sequences

Tree(kind, op, at, kids) == [kind |-> kind, op |-> op, at |-> at, kids |-> kids]

OperandTrees(T) == {x \in T : x.kind \notin ConditionKinds}

(* A part of a stream is <<nt, i, j>>: nt read from t[i..j]; EOF, the last     *)
(* token, is in none.  List levels derive sequences of trees.                  *)
ListLevels == {"Items", "Ors", "Ands", "Hops"}
Levels == ListLevels \cup {"Branch", "Item", "Expr", "Or", "And", "Not", "Comparison",
                           "Additive", "Atom", "Hop"}
Parts(t) == Levels \X (1..Len(t)) \X (0..Len(t) - 1)

Member(nt) ==
  CASE nt = "Items" -> "Item" [] nt = "Ors" -> "And" [] nt = "Ands" -> "Not" [] nt = "Hops" -> "Hop"

Separator(nt) ==
  CASE nt = "Items" -> "Comma" [] nt = "Ors" -> "Or" [] nt = "Ands" -> "And" [] nt = "Hops" -> "Dot"

-----------------------------------------------------------------------------
(* The productions; D is the table of what is derived from less.               *)

Splits(t, i, j, seps) == {k \in i + 1..j - 1 : t[k] \in seps}

(* Members separated by commas, "OR", "AND" or points.                         *)
Lists(t, D, nt, i, j) ==
  {<<x>> : x \in D[<<Member(nt), i, j>>]} \cup
  UNION {UNION {{<<x>> \o l : l \in D[<<nt, k + 1, j>>]} : x \in D[<<Member(nt), i, k - 1>>]}
          : k \in Splits(t, i, j, {Separator(nt)})}

(* A chain of one operand is that operand; a longer one is a node.             *)
Chain(kind, op, at, l) == IF Len(l) = 1 THEN l[1] ELSE Tree(kind, op, at, l)
Chains(kind, op, at, lists) == {Chain(kind, op, at, l) : l \in lists}

(* A ternary's false branch takes every comma there is.                        *)
Ternaries(t, at, D, i, j) ==
  IF t[j + 1] = "Comma" THEN {} ELSE
  UNION {UNION {{Tree("Ternary", "Question", at[i], <<c, x, y>>) :
                   c \in D[<<"Or", i, q - 1>>], x \in D[<<"Branch", q + 1, s - 1>>],
                   y \in D[<<"Branch", s + 1, j>>]}
                 : s \in Splits(t, q, j, {"Colon"})}
          : q \in Splits(t, i, j, {"Question"})}

Negations(at, T) == {Tree("Not", "Not", at, <<x>>) : x \in T}

Infixes(t, at, D, kind, ops, left, right, i, j) ==
  UNION {{Tree(kind, t[k], at[k], <<x, y>>) :
            x \in OperandTrees(D[<<left, i, k - 1>>]), y \in OperandTrees(D[<<right, k + 1, j>>])}
          : k \in Splits(t, i, j, ops)}

(* A call's name is t[i], its arguments are between t[open] and t[j].          *)
Calls(t, at, D, kind, open, i, j) ==
  IF open < j /\ t[open] = "LParen" /\ t[j] = "RParen"
    THEN {Tree(kind, t[i], at[i], <<x>>) : x \in D[<<"Branch", open + 1, j - 1>>]}
    ELSE {}

Arrays(t, at, D, i, j) ==
  IF t[j] # "RBrace" THEN {} ELSE
  {Tree("ArrayLit", "LBrace", at[i], IF x.kind = "CommaList" THEN x.kids ELSE <<x>>)
     : x \in D[<<"Branch", i + 1, j - 1>>]}

Paths(t, at, D, i, j) ==
  IF i = j THEN {Tree("PathExpr", t[i], at[i], <<>>)}
  ELSE IF t[i + 1] # "Dot" THEN {}
  ELSE {Tree("PathExpr", t[i], at[i], l) : l \in D[<<"Hops", i + 2, j>>]}

Atoms(t, at, D, i, j) ==
  CASE t[i] \in LiteralTokens -> IF i = j THEN {Tree("Literal", t[i], at[i], <<>>)} ELSE {}
    [] t[i] = "LParen" -> IF t[j] = "RParen" THEN D[<<"Expr", i + 1, j - 1>>] ELSE {}
    [] t[i] = "LBrace" -> Arrays(t, at, D, i, j)
    [] t[i] \in MemberOfTokens -> Calls(t, at, D, "MemberOfExpr", i + 1, i, j)
    [] t[i] = "Class" ->
         IF j > i + 2 /\ t[i + 1] = "Dot" /\ t[i + 2] = "Name"
           THEN Calls(t, at, D, "ClassCall", i + 3, i, j) ELSE {}
    [] t[i] \in {"User", "Name"} -> Paths(t, at, D, i, j)
    [] OTHER -> {}

Hops(t, at, D, i, j) ==
  CASE t[i] = "Name" -> IF i = j THEN {Tree("NameHop", "Name", at[i], <<>>)} ELSE {}
    [] t[i] \in MemberOfTokens -> Calls(t, at, D, "MemberOfExpr", i + 1, i, j)
    [] OTHER -> {}

Derived(t, at, D, nt, i, j) ==
  IF i > j THEN {} ELSE
  CASE nt = "Expr" -> D[<<"Or", i, j>>] \cup Ternaries(t, at, D, i, j)
    [] nt = "Item" -> OperandTrees(D[<<"Expr", i, j>>])
    [] nt = "Branch" -> Chains("CommaList", "Comma", at[i], D[<<"Items", i, j>>])
    [] nt = "Or" -> Chains("Logical", "Or", at[i], D[<<"Ors", i, j>>])
    [] nt = "And" -> Chains("Logical", "And", at[i], D[<<"Ands", i, j>>])
    [] nt \in ListLevels -> Lists(t, D, nt, i, j)
    [] nt = "Not" ->
         IF t[i] = "Not" THEN Negations(at[i], D[<<"Not", i + 1, j>>])
                         ELSE D[<<"Comparison", i, j>>]
    [] nt = "Comparison" ->
         D[<<"Additive", i, j>>] \cup
         Infixes(t, at, D, "Comparison", ComparisonOps, "Additive", "Additive", i, j)
    [] nt = "Additive" ->
         D[<<"Atom", i, j>>] \cup Infixes(t, at, D, "Additive", {"Plus"}, "Additive", "Atom", i, j)
    [] nt = "Atom" -> Atoms(t, at, D, i, j)
    [] nt = "Hop" -> Hops(t, at, D, i, j)

Trees(t, at) ==
  LET D[p \in Parts(t)] == Derived(t, at, D, p[1], p[2], p[3]) IN D

-----------------------------------------------------------------------------
(* The trees of a whole stream, whose last token is EOF.                       *)
Derivations(t) == Trees(t, [i \in 1..Len(t) |-> i])[<<"Expr", 1, Len(t) - 1>>]

(* Their shapes: the trees without the positions of their tokens.              *)
Shapes(t) == Trees(t, [i \in 1..Len(t) |-> 0])[<<"Expr", 1, Len(t) - 1>>]
=============================================================================
