------------------------------ MODULE MCPrinter ------------------------------
(* The trees the parser builds, written by String and Format and read again.   *)
EXTENDS MCAstParser, Printer

PrintPieces == {
  <<"Int">>, <<"FloatWhole">>, <<"User", "Dot", "Name">>,
  <<"Int", "Question", "Int", "Colon", "Int">>, <<"Question", "Int", "Colon", "Int">>,
  <<"LParen">>, <<"RParen">>, <<"LBrace">>, <<"RBrace">>,
  <<"Comma", "Int">>, <<"EQ", "Int">>, <<"Plus">>, <<"Int", "And">>, <<"Or", "Int">>,
  <<"Not">>, <<"MemberOf">>}

PrintSeeds == LongSeeds \cup {
  \* 1 AND (true OR !(2 AND "x"))
  <<"Int", "And", "LParen", "Bool", "Or", "Not", "LParen", "Int", "And", "String",
    "RParen", "RParen">>}

-----------------------------------------------------------------------------
Reads(text) == Shapes(Eof(text))

Same == {Unfolded(nodes, Nothing)[ret]}

(* The nodes whose parentheses String does not restore, and whole floats.      *)
LooseChild(node, k) ==
  LET child == nodes[node.kids[k]].kind
  IN \/ child = "Ternary" /\ \/ node.kind \in {"Comparison", "Additive"}
                             \/ node.kind = "Ternary" /\ k = 1
                             \/ node.kind \in {"CommaList", "ArrayLit"} /\ k < Len(node.kids)
     \/ child = "Additive" /\ node.kind = "Additive" /\ k = 2

Loose(i) ==
  \/ nodes[i].op = "FloatWhole"
  \/ \E k \in 1..Len(nodes[i].kids) : LooseChild(nodes[i], k)

Tight == \A i \in 1..Len(nodes) : ~Loose(i)

(* Format writes the operands of a chain with String, which does not put a     *)
(* ternary in parentheses as maybeParen does.                                  *)
NoTernaryInChain ==
  \A i \in 1..Len(nodes) : nodes[i].kind = "Logical" =>
    \A k \in 1..Len(nodes[i].kids) : nodes[nodes[i].kids[k]].kind # "Ternary"

(* What String writes of a parsed tree reads as the same tree, whatever else   *)
(* it nests: parentheses are re-derived from precedence, and needed nowhere    *)
(* but around the children of Tight.                                           *)
StringFaithful == ctl = "Accepted" /\ Tight => Reads(String(nodes, ret)) = Same

(* So does what Format writes.                                                 *)
FormatFaithful ==
  ctl = "Accepted" /\ Tight /\ NoTernaryInChain => Reads(Format(nodes, ret)) = Same

(* "String returns expr's canonical, valid Okta Expression Language            *)
(* re-serialization" (ast.go:19).                                              *)
StringIsValid == ctl = "Accepted" => Reads(String(nodes, ret)) # {}
=============================================================================
