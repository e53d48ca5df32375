------------------------------- MODULE Printer -------------------------------
(* ast.go's String methods and print.go's Format, which turn a tree back into  *)
(* text.  A tree is an arena ns and the index i of its root, as in AstParser;  *)
(* its text is the sequence of its tokens.                                     *)
EXTENDS Syntax, Integers, Sequences, SequencesExt

(* Literal.String: FormatFloat writes a whole number as an integer.            *)
LiteralToken(op) == IF op = "FloatWhole" THEN "Int" ELSE op

Parens(text) == <<"LParen">> \o text \o <<"RParen">>

(* strings.Join                                                                *)
Join(texts, sep) ==
  FlattenSeq([k \in 1..Len(texts) |-> IF k = 1 THEN texts[k] ELSE <<sep>> \o texts[k]])

PathText(root, hops) ==
  <<root>> \o FlattenSeq([k \in 1..Len(hops) |-> <<"Dot">> \o hops[k]])

(* A call's only argument, or none.                                            *)
CallText(name, texts) == name \o Parens(FlattenSeq(texts))

InfixText(op, sides) == sides[1] \o <<op>> \o sides[2]

TernaryText(parts) ==
  parts[1] \o <<"Question">> \o parts[2] \o <<"Colon">> \o parts[3]

RECURSIVE String(_, _)

(* A slip: only nested chains are parenthesized.                               *)
MaybeParenChains(ns, i) ==
  IF ns[i].kind = "Logical" THEN Parens(String(ns, i)) ELSE String(ns, i)

MaybeParen(ns, i) ==
  IF ns[i].kind \in {"Logical", "Ternary"} THEN Parens(String(ns, i)) ELSE String(ns, i)

String(ns, i) ==
  LET node == ns[i]
      texts == [k \in 1..Len(node.kids) |-> String(ns, node.kids[k])]
  IN CASE node.kind = "Literal" -> <<LiteralToken(node.op)>>
       [] node.kind = "NameHop" -> <<"Name">>
       [] node.kind = "PathExpr" -> PathText(node.op, texts)
       [] node.kind = "MemberOfExpr" -> CallText(<<node.op>>, texts)
       [] node.kind = "ClassCall" -> CallText(<<"Class", "Dot", "Name">>, texts)
       [] node.kind = "ArrayLit" -> <<"LBrace">> \o Join(texts, "Comma") \o <<"RBrace">>
       [] node.kind = "CommaList" -> Join(texts, "Comma")
       [] node.kind = "Ternary" -> TernaryText(texts)
       [] node.kind \in {"Comparison", "Additive"} -> InfixText(node.op, texts)
       [] node.kind = "Logical" ->
            Join([k \in 1..Len(node.kids) |-> MaybeParen(ns, node.kids[k])], node.op)
       [] node.kind = "Not" -> <<"Not">> \o MaybeParen(ns, node.kids[1])

-----------------------------------------------------------------------------
(* unwrapCompound: the chain Format spreads over several lines, or 0, and what *)
(* stands in front of its parenthesis.                                         *)
ChainOf(ns, i) ==
  CASE ns[i].kind = "Logical" -> i
    [] ns[i].kind = "Not" /\ ns[ns[i].kids[1]].kind = "Logical" -> ns[i].kids[1]
    [] OTHER -> 0

OpenPrefix(ns, i) == IF ns[i].kind = "Not" THEN <<"Not">> ELSE <<>>

RECURSIVE WriteNode(_, _)

(* A slip: the parentheses are left to maybeParen, which is not asked.         *)
WriteNodeBare(ns, i) ==
  LET chain == ns[ChainOf(ns, i)]
      lines == [k \in 1..Len(chain.kids) |-> WriteNode(ns, chain.kids[k])]
  IN IF ChainOf(ns, i) = 0 THEN String(ns, i)
     ELSE OpenPrefix(ns, i) \o Join(lines, chain.op)

(* writeNode: one operand a line; what is not a chain is written by String.    *)
WriteNode(ns, i) ==
  LET chain == ns[ChainOf(ns, i)]
      lines == [k \in 1..Len(chain.kids) |-> WriteNode(ns, chain.kids[k])]
  IN IF ChainOf(ns, i) = 0 THEN String(ns, i)
     ELSE OpenPrefix(ns, i) \o Parens(Join(lines, chain.op))

Format(ns, i) == WriteNode(ns, i)
=============================================================================
