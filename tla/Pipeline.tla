------------------------------ MODULE Pipeline ------------------------------
(* typed_parse.go's parseEval with what it calls: tokenize, astParser and      *)
(* eval, one after the other, from the characters of an expression to a value  *)
(* of the type asked for.  Each part takes its own steps; what it is handed is *)
(* what the part before it made.                                               *)
EXTENDS Conversions, Quoting

CONSTANTS
  Inputs, Keywords,                \* of Lexer
  Contexts, Accessors,             \* of Evaluator ...
  CallClass(_, _),
  BadPatterns, FirstMatch(_, _),
  Code(_)                          \* a character's code

(* What Lexer and Evaluator assume of these.                                   *)
ASSUME TextsAssumption ==
  /\ \A text \in Inputs : text \in Seq(STRING)
  /\ \A w \in DOMAIN Keywords :
       /\ w \in Seq(NameContinue) /\ w # <<>> /\ w[1] \in NameStart
       /\ Keywords[w] \in TokenTypes \ {"EOF", "Name"}

ASSUME UsersAssumption == \A user \in Contexts : Type(user.profile) = "map"

VARIABLES
  phase,                                            \* which part is running
  input, i, j, mode, lexemes,                       \* tokenize
  toks, pos, ctl, calls, ret, cond, nodes,          \* astParser
  prog, ctx, want, frames, status, result, fault    \* eval and require*

lexer == <<input, i, j, mode, lexemes>>
parser == <<toks, pos, ctl, calls, ret, cond, nodes>>
evaluator == <<prog, ctx, want, frames, status, result, fault>>
vars == <<phase, lexer, parser, evaluator>>

(* The streams and trees are those handed over, not sets given beforehand.     *)
L == INSTANCE Lexer WITH toks <- lexemes
P == INSTANCE AstParser WITH stack <- calls, Streams <- {}
E == INSTANCE Evaluator WITH stack <- frames, Programs <- {}

-----------------------------------------------------------------------------
(* What a token's text says: its characters, and their codes.                  *)
Lexeme(k) == SubSeq(input, lexemes[k].from, lexemes[k].to)

Codes(s) == [k \in 1..Len(s) |-> Code(s[k])]

(* parsePrimary: a numeral strconv refuses is a token of a type of its own, as *)
(* is one that stands for a whole float.                                       *)
FloatType(parsed) ==
  CASE ~parsed.ok -> "FloatRange"
    [] parsed.ok /\ Contents(parsed.val) % Quarters = 0 -> "FloatWhole"
    [] OTHER -> "Float"

TokenType(k) ==
  CASE lexemes[k].typ = "Int" -> IF Atoi(Codes(Lexeme(k))).ok THEN "Int" ELSE "IntRange"
    [] lexemes[k].typ = "Float" -> FloatType(ParseFloat(Codes(Lexeme(k))))
    [] OTHER -> lexemes[k].typ

(* Any of "true", "True" and "TRUE" is true.                                   *)
IsTrue(word) == word[1] \in {"t", "T"}

LiteralValue(type, k) ==
  CASE type = "Int" -> Atoi(Codes(Lexeme(k))).val
    [] type \in {"Float", "FloatWhole"} -> ParseFloat(Codes(Lexeme(k))).val
    [] type = "String" -> Text(Codes(Unquote(Lexeme(k))))
    [] type = "Bool" -> Bool(IsTrue(Lexeme(k)))
    [] type = "Null" -> Null

(* A node with the text of its tokens: the name of a hop, the class and the    *)
(* method of a call, the value of a literal.                                   *)
Named(node) ==
  [kind |-> node.kind,
   op |-> IF node.kind = "ClassCall" THEN Lexeme(node.at) ELSE node.op,
   name |-> CASE node.kind = "ClassCall" -> Lexeme(node.at + 2)
              [] node.kind = "NameHop" -> Lexeme(node.at)
              [] OTHER -> <<>>,
   val |-> IF node.kind = "Literal" THEN LiteralValue(node.op, node.at) ELSE Null,
   kids |-> node.kids]

(* The node parseToAST returned, last, and those built before it.              *)
Tree == [k \in 1..ret |-> Named(nodes[k])]

-----------------------------------------------------------------------------
Init ==
  /\ L!Init
  /\ phase = "tokenize"
  /\ toks = <<>> /\ pos = 1 /\ ctl = "Expr" /\ calls = <<>>
  /\ ret = 0 /\ cond = FALSE /\ nodes = <<>>
  /\ prog = <<>> /\ ctx \in Contexts /\ want \in Accessors
  /\ frames = <<>> /\ status = "Running" /\ result = Null /\ fault = E!NoFault

Tokenize ==
  /\ phase = "tokenize"
  /\ mode \notin {"done", "error"}
  /\ L!Next
  /\ UNCHANGED <<phase, parser, evaluator>>

(* c := &astParser{toks: toks}                                                 *)
StartParsing ==
  /\ phase = "tokenize" /\ mode = "done"
  /\ phase' = "parse"
  /\ toks' = [k \in 1..Len(lexemes) |-> TokenType(k)]
  /\ UNCHANGED <<lexer, pos, ctl, calls, ret, cond, nodes, evaluator>>

Parse ==
  /\ phase = "parse"
  /\ ctl \notin {"Accepted", "Failed"}
  /\ P!Next
  /\ UNCHANGED <<phase, lexer, evaluator>>

(* p.Eval(node)                                                                *)
StartEvaluating ==
  /\ phase = "parse" /\ ctl = "Accepted"
  /\ phase' = "evaluate"
  /\ prog' = Tree
  /\ frames' = <<E!Frame(ret)>>
  /\ UNCHANGED <<lexer, parser, ctx, want, status, result, fault>>

Evaluate ==
  /\ phase = "evaluate"
  /\ E!Next
  /\ UNCHANGED <<phase, lexer, parser>>

(* return nil, err: of tokenize or of parseToAST.                              *)
Refused ==
  \/ phase = "tokenize" /\ mode = "error"
  \/ phase = "parse" /\ ctl = "Failed"

Refuse == Refused /\ phase' = "refused" /\ UNCHANGED <<lexer, parser, evaluator>>

Next == Tokenize \/ StartParsing \/ Parse \/ StartEvaluating \/ Evaluate \/ Refuse

(* parseEval runs in its caller's goroutine until it returns.                  *)
Spec == Init /\ [][Next]_vars /\ WF_vars(Next)

-----------------------------------------------------------------------------
(* What tokenize hands over is what astParser takes for granted (its last token*)
(* is EOF and no other is), and what astParser hands over is what the eval     *)
(* methods take for granted (every node has the operands its method indexes).  *)
HandedOn ==
  /\ phase = "parse" => P!StreamFits(toks)
  /\ phase = "evaluate" => E!WellFormed(prog)

(* values[0] in evalLogical (asteval.go:354) is out of range only for a chain  *)
(* without operands: no text makes Parse and Eval panic.                       *)
TextsNeverPanic == status # "Panicked"

(* The text of the node an error is about.                                     *)
FaultToken == nodes[fault.node].at

(* "... at character %d" (asteval.go:84, :305, :333): through tokens, nodes and*)
(* frames the position an error gives is where the text has what it complains  *)
(* about, an absent property's name or the operator between the two operands.  *)
ErrorsPointAtTheirText ==
  /\ fault.why = "missing" =>
       /\ lexemes[FaultToken].typ = "Name"
       /\ Lexeme(FaultToken) = prog[fault.node].name
       /\ lexemes[FaultToken - 1].typ = "Dot"
  /\ fault.why \in {"add", "compare"} =>
       LET kids == prog[fault.node].kids
       IN /\ lexemes[FaultToken].typ = prog[fault.node].op
          /\ nodes[kids[1]].at < FaultToken /\ FaultToken < nodes[kids[2]].at

(* Every expression is answered or refused.                                    *)
Termination == <>(phase = "refused" \/ status \in {"Error", "Returned", "Unexpected"})
=============================================================================
