------------------------------- MODULE Syntax -------------------------------
(* The vocabulary the lexer, the parser and the evaluator share: the token     *)
(* types of lexer.go and the node kinds of ast.go.  A token's text is data the *)
(* parser only ever copies into a node, so a token is its type; where the text *)
(* decides what happens (strconv refusing a numeral, say) the type has a       *)
(* variant of its own.                                                         *)

MemberOfTokens == {"MemberOf", "MemberOfAny", "MemberOfName",
                   "MemberOfGroupStartsWith", "MemberOfGroupContains",
                   "MemberOfGroupNameRegex"}

ComparisonOps == {"NE", "GTE", "LTE", "GT", "LT", "EQ"}

(* "IntRange" and "FloatRange" are tokInt and tokFloat tokens whose numeral    *)
(* does not fit an int or a float64; "FloatWhole" is a tokFloat whose value is *)
(* a whole number, which Literal.String writes without a point.                *)
RefusedNumerals == {"IntRange", "FloatRange"}

LiteralTokens == {"Int", "Float", "FloatWhole", "String", "Bool", "Null"}

TokenTypes ==
  MemberOfTokens \cup ComparisonOps \cup RefusedNumerals \cup LiteralTokens \cup
  {"EOF", "Name", "Plus", "And", "Or", "Not", "Colon", "Question", "User",
   "Class", "LParen", "RParen", "Comma", "Dot", "LBrace", "RBrace"}

(* The nodes parse* methods return together with isCond = true: comparisons,   *)
(* AND/OR chains, negations and bare isMemberOf* calls.                        *)
ConditionKinds == {"Comparison", "Logical", "Not", "MemberOfExpr"}

OperandKinds == {"Literal", "PathExpr", "ClassCall", "ArrayLit", "CommaList",
                 "Ternary", "Additive"}

NodeKinds == ConditionKinds \cup OperandKinds \cup {"NameHop"}
=============================================================================
