---------------------------- MODULE PipelineProofs ----------------------------
(* No text makes Parse and Eval panic, whatever its length: the invariants of  *)
(* the three parts, each proved in a module of its own, and what one part's    *)
(* invariant says of the moment it hands over to the next.  And an error of    *)
(* Eval points at the text it is about.                                        *)
EXTENDS Pipeline, SequenceLemmas

LP == INSTANCE LexerProofs WITH toks <- lexemes
PP == INSTANCE AstParserProofs WITH stack <- calls, Streams <- {}
EP == INSTANCE EvaluatorProofs WITH stack <- frames, Programs <- {}, Depth <- 0

(* The parts' steps are the same by either name.                               *)
LEMMA SameLexer == L!Next = LP!Next
BY Zenon DEF L!Next, LP!Next, L!SkipSpace, LP!SkipSpace, L!Punctuate, LP!Punctuate,
   L!LongOperator, LP!LongOperator, L!ShortOperator, LP!ShortOperator,
   L!BadCharacter, LP!BadCharacter, L!OpenString, LP!OpenString,
   L!StringCharacter, LP!StringCharacter, L!CloseString, LP!CloseString,
   L!UnterminatedString, LP!UnterminatedString, L!StartNumber, LP!StartNumber,
   L!Digit, LP!Digit, L!DecimalPoint, LP!DecimalPoint, L!EndInt, LP!EndInt,
   L!EndFloat, LP!EndFloat, L!StartName, LP!StartName, L!NameCharacter, LP!NameCharacter,
   L!EndName, LP!EndName, L!End, LP!End, L!Returned, LP!Returned,
   L!Scanning, LP!Scanning, L!AtDigit, LP!AtDigit, L!AtPoint, LP!AtPoint,
   L!InString, LP!InString, L!FollowedBy, LP!FollowedBy, L!WordType, LP!WordType,
   L!Emit, LP!Emit, L!Enter, LP!Enter, L!Move, LP!Move, L!Refuse, LP!Refuse,
   L!Token, LP!Token, L!n, LP!n, L!vars, LP!vars,
   L!Spaces, LP!Spaces, L!Digits, LP!Digits, L!Quotes, LP!Quotes, L!Backslash, LP!Backslash,
   L!NameStart, LP!NameStart, L!NameContinue, LP!NameContinue,
   L!Punctuation, LP!Punctuation, L!PunctuationType, LP!PunctuationType,
   L!Operators, LP!Operators, L!Second, LP!Second, L!LongType, LP!LongType,
   L!ShortOperators, LP!ShortOperators, L!ShortType, LP!ShortType

LEMMA SameParser == P!Next = PP!Next /\ P!vars = PP!vars
BY Zenon DEF P!Next, PP!Next, P!vars, PP!vars,
   P!Descend, PP!Descend, P!Negation, PP!Negation, P!Literal, PP!Literal,
   P!Parenthesis, PP!Parenthesis, P!OpenArray, PP!OpenArray,
   P!OpenClassCall, PP!OpenClassCall, P!OpenMemberOf, PP!OpenMemberOf,
   P!StartPath, PP!StartPath, P!StartsAtom, PP!StartsAtom, P!BadAtom, PP!BadAtom,
   P!NameHop, PP!NameHop, P!MemberOfHop, PP!MemberOfHop, P!EndPath, PP!EndPath,
   P!BadHop, PP!BadHop, P!HopDone, PP!HopDone, P!ExprDone, PP!ExprDone,
   P!TrueBranchDone, PP!TrueBranchDone, P!FalseBranchDone, PP!FalseBranchDone,
   P!BranchItemDone, PP!BranchItemDone, P!BranchDone, PP!BranchDone,
   P!ChainOperandDone, PP!ChainOperandDone, P!ChainDone, PP!ChainDone,
   P!NotDone, PP!NotDone, P!LeftDone, PP!LeftDone, P!RightDone, PP!RightDone,
   P!NoComparison, PP!NoComparison, P!NextTerm, PP!NextTerm, P!TermDone, PP!TermDone,
   P!NoTerm, PP!NoTerm, P!CloseParen, PP!CloseParen, P!CloseArray, PP!CloseArray,
   P!CloseCall, PP!CloseCall, P!CloseClassCall, PP!CloseClassCall,
   P!CloseMemberOf, PP!CloseMemberOf, P!Closer, PP!Closer,
   P!MissingCloser, PP!MissingCloser, P!NeedsOperand, PP!NeedsOperand,
   P!ConditionMisplaced, PP!ConditionMisplaced, P!Finish, PP!Finish, P!Done, PP!Done,
   P!Peek, PP!Peek, P!After, PP!After, P!Ahead, PP!Ahead, P!Top, PP!Top,
   P!Frame, PP!Frame, P!Push, PP!Push, P!Replace, PP!Replace, P!Pop, PP!Pop,
   P!Consume, PP!Consume, P!Start, PP!Start, P!Build, PP!Build, P!Pass, PP!Pass,
   P!Fail, PP!Fail, P!Awaiting, PP!Awaiting, P!Delegates, PP!Delegates, P!Callee, PP!Callee,
   P!MemberOfTokens, PP!MemberOfTokens, P!ComparisonOps, PP!ComparisonOps,
   P!LiteralTokens, PP!LiteralTokens, P!Front, PP!Front

LEMMA SameEvaluator == E!Next = EP!Next
BY Zenon DEF E!Next, EP!Next,
   E!EvalOperand, EP!EvalOperand, E!UnknownClass, EP!UnknownClass,
   E!Unsupported, EP!Unsupported, E!Literal, EP!Literal, E!NameHop,
   EP!NameHop, E!MissingProperty, EP!MissingProperty, E!PathExpr, EP!PathExpr,
   E!MemberOfExpr, EP!MemberOfExpr, E!ClassCall, EP!ClassCall, E!ArrayLit,
   EP!ArrayLit, E!CommaList, EP!CommaList, E!Ternary, EP!Ternary,
   E!Comparison, EP!Comparison, E!Additive, EP!Additive, E!Fold, EP!Fold,
   E!Logical, EP!Logical, E!EmptyChain, EP!EmptyChain, E!Not, EP!Not,
   E!Require, EP!Require, E!Top, EP!Top, E!Here, EP!Here, E!AtOperand,
   EP!AtOperand, E!Operand, EP!Operand, E!Ready, EP!Ready, E!Absorbed,
   EP!Absorbed, E!Absorb, EP!Absorb, E!Settled, EP!Settled, E!Return,
   EP!Return, E!Fail, EP!Fail, E!ReturnOrFail, EP!ReturnOrFail, E!HasClass,
   EP!HasClass, E!Frame, EP!Frame, E!PathValue, EP!PathValue, E!WithoutQuotes,
   EP!WithoutQuotes, E!Unquoted, EP!Unquoted, E!Holds, EP!Holds, E!Lookup,
   EP!Lookup, E!Refused, EP!Refused, E!Member, EP!Member, E!ProfileNames,
   EP!ProfileNames, E!NameMatches, EP!NameMatches, E!IsGroupId, EP!IsGroupId,
   E!IsMember, EP!IsMember, E!MemberOfKinds, EP!MemberOfKinds, E!Unanswerable,
   EP!Unanswerable, E!ApplyComparison, EP!ApplyComparison, E!Decided,
   EP!Decided, E!Type, EP!Type, E!Contents, EP!Contents, E!Null, EP!Null,
   E!Bool, EP!Bool, E!Text, EP!Text, E!Array, EP!Array, E!Tuple, EP!Tuple,
   E!Ok, EP!Ok, E!Err, EP!Err, E!Float, EP!Float, E!Number, EP!Number,
   E!Quarters, EP!Quarters, E!Wrap, EP!Wrap, E!Occurrences, EP!Occurrences,
   E!Occurs, EP!Occurs, E!Truthy, EP!Truthy, E!MergeOperands,
   EP!MergeOperands, E!SpreadArgs, EP!SpreadArgs, E!BoolToInt, EP!BoolToInt,
   E!AddOperands, EP!AddOperands, E!CompareOperands, EP!CompareOperands,
   E!Front, EP!Front, E!Last, EP!Last, E!HasPrefix, EP!HasPrefix,
   E!SameType, EP!SameType, E!CompareInts, EP!CompareInts, E!CompareStrings, EP!CompareStrings,
   E!Ordered, EP!Ordered, E!StringLess, EP!StringLess

-----------------------------------------------------------------------------
(* What each part's own proof says of its steps.                               *)
LEMMA LexerKeeps == LP!IInv /\ (L!Next \/ UNCHANGED lexer) => LP!IInv'
BY LP!NextInv, SameLexer, TextsAssumption
   DEF lexer, LP!vars, LP!NameContinue, LP!NameStart, LP!Digits, LP!TokenTypes, LP!MemberOfTokens,
       LP!ComparisonOps, LP!RefusedNumerals, LP!LiteralTokens,
       NameContinue, NameStart, Digits, TokenTypes, MemberOfTokens,
       ComparisonOps, RefusedNumerals, LiteralTokens

LEMMA LexerEntered == L!Init => LP!IInv
BY LP!InitInv, TextsAssumption
   DEF L!Init, LP!Init, LP!NameContinue, LP!NameStart, LP!Digits, LP!TokenTypes, LP!MemberOfTokens,
       LP!ComparisonOps, LP!RefusedNumerals, LP!LiteralTokens,
       NameContinue, NameStart, Digits, TokenTypes, MemberOfTokens,
       ComparisonOps, RefusedNumerals, LiteralTokens

(* What the parser's proofs say of its nodes.                                  *)
Parsing == PP!Inv /\ PP!KidsBefore /\ PP!Placed

LEMMA ParserKeeps == Parsing /\ (P!Next \/ UNCHANGED parser) => Parsing' /\ toks' = toks
BY PP!NextInv, PP!OrderKept, PP!NextPlaced, PP!StreamKept, SameParser DEF parser, PP!vars, Parsing

LEMMA ParserEntered == PP!Entered => PP!Inv
BY PP!EnteredInv

LEMMA EvaluatorKeeps ==
  EP!Fits /\ EP!FaultFits /\ (E!Next \/ UNCHANGED evaluator)
    => EP!Fits' /\ EP!FaultFits' /\ prog' = prog
BY EP!NextFits, EP!FaultKept, EP!TreeKept, SameEvaluator, IntBitsAssumption, UsersAssumption
   DEF EP!Type, Type, evaluator, EP!vars

LEMMA EvaluatorEntered == EP!Entered => EP!Fits
BY EP!EnteredFits, IntBitsAssumption, UsersAssumption DEF EP!Type, Type

-----------------------------------------------------------------------------
(* tokenize to astParser: what it returns is a stream of the parser's.         *)
LEMMA TokensFit ==
  ASSUME LP!IInv, mode = "done"
  PROVE  PP!StreamFits([k \in 1..Len(lexemes) |-> TokenType(k)])
<1> DEFINE s == [k \in 1..Len(lexemes) |-> TokenType(k)]
<1>1. /\ lexemes \in Seq(LP!TokenType) /\ lexemes # <<>> /\ Len(lexemes) \in Nat
      /\ \A k \in 1..Len(lexemes) : lexemes[k].typ = "EOF" <=> k = Len(lexemes)
  BY LenProperties DEF LP!IInv, LP!TypeOK, LP!EofLast
<1>2. ASSUME NEW k \in 1..Len(lexemes)
      PROVE  TokenType(k) \in TokenTypes /\ (TokenType(k) = "EOF" <=> lexemes[k].typ = "EOF")
  <2>1. lexemes[k] \in LP!TokenType
    BY <1>1, ElementOfSeq
  <2>2. lexemes[k].typ \in TokenTypes
    BY <2>1 DEF LP!TokenType, LP!TokenTypes, LP!MemberOfTokens, LP!ComparisonOps,
       LP!RefusedNumerals, LP!LiteralTokens, TokenTypes, MemberOfTokens, ComparisonOps,
       RefusedNumerals, LiteralTokens
  <2>3. \A p : FloatType(p) \in {"FloatRange", "FloatWhole", "Float"}
    BY DEF FloatType
  <2> QED
    BY <2>2, <2>3 DEF TokenType, TokenTypes, RefusedNumerals, LiteralTokens
<1>3. Len(s) = Len(lexemes) /\ \A k \in 1..Len(lexemes) : s[k] = TokenType(k)
  BY <1>1
<1>4. s \in Seq(TokenTypes) /\ s # <<>>
  <2>1. \A k \in 1..Len(lexemes) : TokenType(k) \in TokenTypes
    BY <1>2
  <2>2. Len(lexemes) # 0
    BY <1>1, EmptySeq
  <2>3. s \in [1..Len(lexemes) -> TokenTypes]
    BY <2>1
  <2>4. s \in Seq(TokenTypes)
    BY <1>1, <2>3
  <2> HIDE DEF s
  <2> QED BY <1>3, <2>2, <2>4, EmptySeq
<1>5. TokenTypes = PP!TokenTypes
  BY DEF TokenTypes, MemberOfTokens, ComparisonOps, RefusedNumerals, LiteralTokens,
     PP!TokenTypes, PP!MemberOfTokens, PP!ComparisonOps, PP!RefusedNumerals, PP!LiteralTokens
<1> HIDE DEF s
<1>6. PP!StreamFits(s)
  BY <1>1, <1>2, <1>3, <1>4, <1>5 DEF PP!StreamFits
<1> QED
  BY <1>6 DEF s

(* astParser to eval: the tree is one the eval methods can walk, and all its   *)
(* chains have operands.                                                       *)
LEMMA TreeFits ==
  ASSUME PP!Inv, PP!KidsBefore, ctl = "Accepted"
  PROVE  /\ E!WellFormed(Tree) /\ Len(Tree) = ret
         /\ \A k \in 1..Len(Tree) : Tree[k].kind = "Logical" => Tree[k].kids # <<>>
<1>1. /\ nodes \in Seq(PP!NodeType) /\ Len(nodes) \in Nat /\ ret \in 1..Len(nodes)
      /\ nodes[ret].kind \in PP!ConditionKinds \cup PP!OperandKinds
      /\ \A k \in 1..Len(nodes) : PP!Fits(nodes, nodes[k])
  BY LenProperties DEF PP!Inv, PP!ArenaOK, PP!ReturnOK, PP!KindsFor
<1>2. /\ Len(Tree) = ret /\ ret \in Nat \ {0}
      /\ \A k \in 1..ret : Tree[k] = Named(nodes[k])
      /\ Tree # <<>>
  BY <1>1, EmptySeq DEF Tree
<1>3. \A k \in 1..ret : Tree[k].kind = nodes[k].kind /\ Tree[k].kids = nodes[k].kids
  BY <1>2 DEF Named
<1>4. Tree \in Seq(E!Range(Tree))
  BY <1>1 DEF Tree, E!Range
<1>5. Tree[ret].kind # "NameHop"
  BY <1>1, <1>3 DEF PP!ConditionKinds, PP!OperandKinds
<1>6. ASSUME NEW k \in 1..ret
      PROVE  /\ Tree[k].kind \in E!NodeKinds /\ E!ArityOk(Tree[k])
             /\ Tree[k].kind = "Logical" => Tree[k].kids # <<>>
             /\ Tree[k].kids \in Seq(1..k - 1)
             /\ \A l \in 1..Len(Tree[k].kids) :
                  Tree[Tree[k].kids[l]].kind = "NameHop" => Tree[k].kind = "PathExpr"
  <2> DEFINE kind == nodes[k].kind
             kids == nodes[k].kids
  <2>1. /\ k \in 1..Len(nodes) /\ nodes[k] \in PP!NodeType /\ Len(kids) \in Nat
        /\ kids \in Seq(Nat) /\ kind \in PP!NodeKinds
    <3>1. k \in 1..Len(nodes)
      BY <1>1
    <3>2. nodes[k] \in PP!NodeType
      BY <1>1, <3>1, ElementOfSeq
    <3> QED BY <3>1, <3>2, LenProperties DEF PP!NodeType
  <2>2. /\ PP!ArityOK(kind, Len(kids))
        /\ \A l \in 1..Len(kids) : kids[l] \in 1..Len(nodes) /\ kids[l] < k
        /\ \A l \in 1..Len(kids) : nodes[kids[l]].kind \in PP!ChildKinds(kind, l)
    BY <1>1, <2>1 DEF PP!Fits, PP!KidsBefore
  <2>3. kind \in E!NodeKinds
    BY <2>1 DEF E!NodeKinds, PP!NodeKinds, PP!ConditionKinds, PP!OperandKinds
  <2>4. Tree[k].kind = kind /\ Tree[k].kids = kids
    BY <1>3
  <2>5. E!ArityOk(Tree[k])
    <3>1. \A node, n : node.kind \in PP!NodeKinds /\ Len(node.kids) = n /\ PP!ArityOK(node.kind, n)
            => E!ArityOk(node)
      BY DEF E!ArityOk, PP!ArityOK, PP!NodeKinds, PP!ConditionKinds, PP!OperandKinds
    <3> HIDE DEF kind, kids
    <3> QED BY <2>1, <2>2, <2>4, <3>1
  <2>6. kind = "Logical" => kids # <<>>
    BY <2>2, EmptySeq DEF PP!ArityOK
  <2>7. kids \in Seq(1..k - 1)
    <3>1. \A l \in 1..Len(kids) : kids[l] \in 1..k - 1
      BY <2>1, <2>2
    <3> QED BY <2>1, <3>1
  <2>8. ASSUME NEW l \in 1..Len(kids), nodes[kids[l]].kind = "NameHop"
        PROVE  kind = "PathExpr"
    BY <2>1, <2>2, <2>8 DEF PP!ChildKinds, PP!SimpleKinds, PP!AnyKinds, PP!HopKinds,
       PP!ConditionKinds, PP!OperandKinds, PP!NodeKinds
  <2>9. \A l \in 1..Len(kids) : Tree[kids[l]].kind = nodes[kids[l]].kind
    BY <1>1, <1>3, <2>1, <2>2
  <2> QED BY <2>3, <2>4, <2>5, <2>6, <2>7, <2>8, <2>9
<1> QED BY <1>2, <1>4, <1>5, <1>6 DEF E!WellFormed

-----------------------------------------------------------------------------
(* A part that has not started is as its caller left it.                       *)
ParserIdle ==
  pos = 1 /\ ctl = "Expr" /\ calls = <<>> /\ ret = 0 /\ cond = FALSE /\ nodes = <<>>

EvaluatorIdle ==
  ctx \in Contexts /\ want \in Accessors /\ status = "Running" /\ fault = E!NoFault

ChainsHaveOperands ==
  \A k \in 1..Len(prog) : prog[k].kind = "Logical" => prog[k].kids # <<>>

(* What a part that is done has handed on: the stream is the text's, the tree  *)
(* is the parser's.                                                            *)
StreamIsTexts == toks = [k \in 1..Len(lexemes) |-> TokenType(k)]
TreeIsParsers == prog = Tree /\ ctl = "Accepted"

(* The inductive invariant: that of the part which is running, and what its    *)
(* input has to do with the part before it.                                    *)
PInv ==
  /\ phase \in {"tokenize", "parse", "evaluate", "refused"}
  /\ phase = "tokenize" => LP!IInv /\ ParserIdle
  /\ phase \in {"parse", "evaluate"} => Parsing /\ StreamIsTexts
  /\ phase # "evaluate" => EvaluatorIdle
  /\ phase = "evaluate" => EP!Fits /\ EP!FaultFits /\ ChainsHaveOperands /\ TreeIsParsers

(* They stay true while what they are about stays.                             *)
LEMMA StreamStays == StreamIsTexts /\ UNCHANGED lexer /\ toks' = toks => StreamIsTexts'
<1>1. ASSUME UNCHANGED lexer PROVE \A k : TokenType(k)' = TokenType(k)
  BY <1>1 DEF lexer, TokenType, Lexeme
<1> QED BY <1>1 DEF lexer, StreamIsTexts

LEMMA TreeStays == UNCHANGED lexer /\ UNCHANGED parser => Tree' = Tree
<1> SUFFICES ASSUME UNCHANGED lexer, UNCHANGED parser PROVE Tree' = Tree
  OBVIOUS
<1>1. \A k : Lexeme(k)' = Lexeme(k)
  BY DEF lexer, Lexeme
<1>2. \A type, k : LiteralValue(type, k)' = LiteralValue(type, k)
  BY <1>1 DEF LiteralValue
<1>3. \A node : Named(node)' = Named(node)
  BY <1>1, <1>2 DEF Named
<1>4. nodes' = nodes /\ ret' = ret
  BY DEF parser
<1> QED BY <1>3, <1>4 DEF Tree

LEMMA InitPInv == Init => PInv
BY LexerEntered DEF Init, PInv, ParserIdle, EvaluatorIdle

LEMMA StartParsingKeeps == PInv /\ StartParsing => PInv'
<1> SUFFICES ASSUME PInv, StartParsing PROVE PInv'
  OBVIOUS
<1>1. phase' = "parse" /\ LP!IInv /\ mode = "done" /\ ParserIdle /\ EvaluatorIdle
  BY DEF PInv, StartParsing
<1>2. PP!StreamFits(toks')
  BY <1>1, TokensFit DEF StartParsing
<1>3. ParserIdle' /\ EvaluatorIdle'
  BY <1>1 DEF StartParsing, parser, evaluator, ParserIdle, EvaluatorIdle, E!NoFault
<1>4. PP!Entered'
  BY <1>2, <1>3 DEF PP!Entered, PP!StreamFits, ParserIdle
<1>5. PP!Inv'
  BY <1>4, ParserEntered, PTL
<1>6. PP!KidsBefore'
  BY <1>3, EmptySeq DEF PP!KidsBefore, ParserIdle
<1>7. PP!Placed'
  BY <1>3, EmptySeq
     DEF PP!Placed, PP!ArenaPlaced, PP!StackPlaced, PP!ReturnPlaced, ParserIdle
<1>8. StreamIsTexts'
  BY DEF StartParsing, lexer, StreamIsTexts, TokenType, Lexeme
<1> QED BY <1>1, <1>3, <1>5, <1>6, <1>7, <1>8 DEF PInv, Parsing

LEMMA StartEvaluatingKeeps == PInv /\ StartEvaluating => PInv'
<1> SUFFICES ASSUME PInv, StartEvaluating PROVE PInv'
  OBVIOUS
<1>1. phase' = "evaluate" /\ Parsing /\ StreamIsTexts /\ ctl = "Accepted" /\ EvaluatorIdle
  BY DEF PInv, StartEvaluating
<1>2. prog' = Tree /\ frames' = <<E!Frame(ret)>> /\ UNCHANGED <<ctx, want, status, fault>>
  BY DEF StartEvaluating
<1>3. /\ E!WellFormed(prog') /\ Len(prog') = ret
      /\ \A k \in 1..Len(prog') : prog'[k].kind = "Logical" => prog'[k].kids # <<>>
  BY <1>1, <1>2, TreeFits DEF Parsing
<1>4. EP!WellFormed(prog')
  BY <1>3 DEF E!WellFormed, EP!WellFormed, E!ArityOk, EP!ArityOk, E!NodeKinds, EP!NodeKinds,
     E!Range, EP!Range
<1>5. EP!Entered'
  BY <1>1, <1>2, <1>3, <1>4
     DEF EP!Entered, EvaluatorIdle, E!NoFault, EP!NoFault, E!Frame, EP!Frame, EP!WellFormed
<1>6. EP!Fits'
  BY <1>5, EvaluatorEntered, PTL
<1>7. EP!FaultFits'
  BY <1>1, <1>2 DEF EP!FaultFits, EP!FaultFor, EvaluatorIdle, E!NoFault
<1>8. UNCHANGED lexer /\ UNCHANGED parser
  BY DEF StartEvaluating
<1>9. Parsing' /\ toks' = toks
  BY <1>1, <1>8, ParserKeeps
<1>10. StreamIsTexts'
  BY <1>1, <1>8, <1>9, StreamStays
<1>11. TreeIsParsers'
  <2>1. Tree' = Tree /\ ctl' = ctl
    BY <1>8, TreeStays DEF parser
  <2> QED BY <1>1, <1>2, <2>1 DEF TreeIsParsers
<1> QED BY <1>1, <1>3, <1>6, <1>7, <1>9, <1>10, <1>11 DEF PInv, ChainsHaveOperands

LEMMA NextPInv == PInv /\ [Next]_vars => PInv'
<1> SUFFICES ASSUME PInv, [Next]_vars PROVE PInv'
  OBVIOUS
<1>1. CASE Tokenize
  BY <1>1, LexerKeeps DEF PInv, Tokenize, parser, evaluator, ParserIdle, EvaluatorIdle, E!NoFault
<1>2. CASE StartParsing
  BY <1>2, StartParsingKeeps
<1>3. CASE Parse
  <2>1. /\ phase' = "parse" /\ Parsing /\ StreamIsTexts /\ EvaluatorIdle /\ P!Next
        /\ UNCHANGED lexer /\ UNCHANGED evaluator
    BY <1>3 DEF PInv, Parse
  <2>2. Parsing' /\ StreamIsTexts'
    BY <2>1, ParserKeeps, StreamStays
  <2>3. EvaluatorIdle'
    BY <2>1 DEF evaluator, EvaluatorIdle, E!NoFault
  <2> QED BY <2>1, <2>2, <2>3 DEF PInv
<1>4. CASE StartEvaluating
  BY <1>4, StartEvaluatingKeeps
<1>5. ASSUME phase = "evaluate", phase' = phase, UNCHANGED lexer, UNCHANGED parser,
             E!Next \/ UNCHANGED evaluator
      PROVE  PInv'
  <2>1. /\ EP!Fits /\ EP!FaultFits /\ ChainsHaveOperands /\ TreeIsParsers
        /\ Parsing /\ StreamIsTexts
    BY <1>5 DEF PInv
  <2>2. EP!Fits' /\ EP!FaultFits' /\ prog' = prog
    BY <1>5, <2>1, EvaluatorKeeps
  <2>3. ChainsHaveOperands'
    BY <2>1, <2>2 DEF ChainsHaveOperands
  <2>4. Parsing' /\ StreamIsTexts'
    BY <1>5, <2>1, ParserKeeps, StreamStays
  <2>5. TreeIsParsers'
    <3>1. Tree' = Tree /\ ctl' = ctl
      BY <1>5, TreeStays DEF parser
    <3> QED BY <2>1, <2>2, <3>1 DEF TreeIsParsers
  <2> QED BY <1>5, <2>2, <2>3, <2>4, <2>5 DEF PInv
<1>6. CASE Evaluate
  BY <1>5, <1>6 DEF Evaluate
<1>7. CASE Refuse
  BY <1>7 DEF PInv, Refuse, Refused, lexer, parser, evaluator, EvaluatorIdle, E!NoFault
<1>8. CASE UNCHANGED vars
  <2>1. UNCHANGED phase /\ UNCHANGED lexer /\ UNCHANGED parser /\ UNCHANGED evaluator
    BY <1>8 DEF vars
  <2>2. CASE phase = "tokenize"
    BY <2>1, <2>2, LexerKeeps
       DEF PInv, parser, evaluator, ParserIdle, EvaluatorIdle, E!NoFault
  <2>3. CASE phase = "parse"
    <3>1. Parsing' /\ StreamIsTexts'
      BY <2>1, <2>3, ParserKeeps, StreamStays DEF PInv
    <3>2. EvaluatorIdle'
      BY <2>1, <2>3 DEF PInv, evaluator, EvaluatorIdle, E!NoFault
    <3> QED BY <2>1, <2>3, <3>1, <3>2 DEF PInv
  <2>4. CASE phase = "evaluate"
    BY <1>5, <2>1, <2>4
  <2>5. CASE phase = "refused"
    BY <2>1, <2>5 DEF PInv, evaluator, EvaluatorIdle, E!NoFault
  <2> QED BY <2>2, <2>3, <2>4, <2>5 DEF PInv
<1> QED BY <1>1, <1>2, <1>3, <1>4, <1>6, <1>7, <1>8 DEF Next

LEMMA Invariance == Spec => []PInv
BY InitPInv, NextPInv, PTL DEF Spec

-----------------------------------------------------------------------------
(* Whatever the expression: the stream astParser gets ends in its only EOF     *)
(* token, and the tree eval gets has every operand its methods index.          *)
THEOREM AlwaysHandedOn == Spec => []HandedOn
<1>1. PInv => HandedOn
  <2>1. phase = "parse" /\ PInv => P!StreamFits(toks)
    BY DEF PInv, Parsing, PP!Inv, PP!StreamFits, P!StreamFits, PP!TokenTypes, PP!MemberOfTokens,
       PP!ComparisonOps, PP!RefusedNumerals, PP!LiteralTokens, P!TokenTypes, P!MemberOfTokens,
       P!ComparisonOps, P!RefusedNumerals, P!LiteralTokens
  <2>2. phase = "evaluate" /\ PInv => E!WellFormed(prog)
    BY DEF PInv, EP!Fits, E!WellFormed, EP!WellFormed, E!ArityOk, EP!ArityOk,
       E!NodeKinds, EP!NodeKinds, E!Range, EP!Range
  <2> QED BY <2>1, <2>2 DEF HandedOn
<1> QED BY <1>1, Invariance, PTL

(* Whatever the expression, the user and the classes: evalLogical's values[0]  *)
(* is there whenever the chain came from a text (asteval.go:354).              *)
THEOREM NoTextPanics == Spec => []TextsNeverPanic
<1>1. PInv => TextsNeverPanic
  <2>1. phase # "evaluate" /\ PInv => TextsNeverPanic
    BY DEF PInv, EvaluatorIdle, TextsNeverPanic
  <2>2. phase = "evaluate" /\ PInv => TextsNeverPanic
    BY DEF PInv, EP!Fits, EP!PanicsNeedEmptyChain, EP!Root, ChainsHaveOperands, TextsNeverPanic
  <2> QED BY <2>1, <2>2
<1> QED BY <1>1, Invariance, PTL

-----------------------------------------------------------------------------
(* A token of one of these types has the type its text was read with.          *)
LEMMA TypeIsRead ==
  ASSUME StreamIsTexts, NEW k \in 1..Len(lexemes),
         toks[k] \in {"Name", "Dot", "Plus"} \cup ComparisonOps
  PROVE  lexemes[k].typ = toks[k]
<1>1. toks[k] = TokenType(k)
  BY DEF StreamIsTexts
<1>2. toks[k] \notin {"Int", "IntRange", "FloatRange", "FloatWhole", "Float"}
  BY DEF ComparisonOps
<1>3. \A parsed : FloatType(parsed) \in {"FloatRange", "FloatWhole", "Float"}
  BY DEF FloatType
<1>4. lexemes[k].typ # "Int"
  BY <1>1, <1>2 DEF TokenType
<1>5. lexemes[k].typ # "Float"
  BY <1>1, <1>2, <1>3 DEF TokenType
<1> QED BY <1>1, <1>4, <1>5 DEF TokenType

(* What is known of the node an error is about.                                *)
LEMMA FaultsNode ==
  ASSUME PInv, phase = "evaluate", NEW kind \in {"NameHop", "Additive", "Comparison"},
         fault.node \in 1..EP!Root, prog[fault.node].kind = kind
  PROVE  /\ nodes[fault.node].kind = kind /\ FaultToken \in 1..Len(lexemes)
         /\ prog[fault.node] = Named(nodes[fault.node])
         /\ PP!NodePlaced(nodes, nodes[fault.node], pos)
         /\ nodes[fault.node].at = FaultToken /\ FaultToken - 1 \in Nat
         /\ Len(lexemes) \in Nat /\ StreamIsTexts
<1>1. /\ Parsing /\ StreamIsTexts /\ TreeIsParsers
  BY DEF PInv
<1>2. ret \in 0..Len(nodes) /\ Len(nodes) \in Nat /\ nodes \in Seq(PP!NodeType)
  BY <1>1, LenProperties DEF Parsing, PP!Inv, PP!ArenaOK
<1>3. Len(prog) = ret /\ \A k \in 1..ret : prog[k] = Named(nodes[k])
  BY <1>1, <1>2 DEF TreeIsParsers, Tree
<1>4. fault.node \in 1..ret /\ fault.node \in 1..Len(nodes)
  BY <1>2, <1>3 DEF EP!Root
<1>5. PP!NodePlaced(nodes, nodes[fault.node], pos) /\ prog[fault.node] = Named(nodes[fault.node])
  BY <1>1, <1>3, <1>4 DEF Parsing, PP!Placed, PP!ArenaPlaced
<1>6. nodes[fault.node] \in PP!NodeType
  BY <1>2, <1>4, ElementOfSeq
<1>7. nodes[fault.node].kind = kind
  BY <1>5 DEF Named
<1>8. Len(toks) = Len(lexemes) /\ Len(lexemes) \in Nat /\ pos \in 1..Len(toks)
  <2>1. toks \in Seq(PP!TokenTypes) /\ pos \in 1..Len(toks)
    BY <1>1 DEF Parsing, PP!Inv, PP!StreamFits
  <2> QED BY <1>1, <2>1, LenProperties DEF StreamIsTexts
<1> DEFINE node == nodes[fault.node]
<1>9. /\ node.at \in Nat /\ node.at < pos
      /\ kind = "NameHop" => node.at - 1 \in Nat \ {0}
  BY <1>5, <1>6, <1>7 DEF PP!NodeType, PP!NodePlaced
<1>10. kind # "NameHop" => nodes[node.kids[1]].at < node.at /\ nodes[node.kids[1]].at \in Nat
  BY <1>1, <1>4, <1>5, <1>7, PP!OperandsThere DEF Parsing, PP!NodePlaced, PP!Binary
<1>11. node.at \in 1..Len(lexemes)
  <2> HIDE DEF node
  <2> QED BY <1>8, <1>9, <1>10
<1> QED BY <1>1, <1>5, <1>7, <1>8, <1>11 DEF FaultToken

(* Whatever the expression: the position an error about an absent property or  *)
(* about an operator's operands gives is where the text has that name, behind a*)
(* dot, or that operator, between the two operands (asteval.go:84, :305, :333).*)
THEOREM ErrorsAlwaysPoint == Spec => []ErrorsPointAtTheirText
<1>1. PInv => ErrorsPointAtTheirText
  <2> SUFFICES ASSUME PInv PROVE ErrorsPointAtTheirText
    OBVIOUS
  <2>1. CASE phase # "evaluate"
    BY <2>1 DEF PInv, EvaluatorIdle, E!NoFault, ErrorsPointAtTheirText
  <2> DEFINE node == nodes[fault.node]
             at == FaultToken
  <2>2. CASE phase = "evaluate"
    <3>1. ASSUME fault.why = "missing"
          PROVE  /\ lexemes[at].typ = "Name" /\ Lexeme(at) = prog[fault.node].name
                 /\ lexemes[at - 1].typ = "Dot"
      <4>1. fault.node \in 1..EP!Root /\ prog[fault.node].kind = "NameHop"
        BY <2>2, <3>1 DEF PInv, EP!FaultFits, EP!FaultFor
      <4>2. /\ node.kind = "NameHop" /\ at \in 1..Len(lexemes) /\ Len(lexemes) \in Nat
            /\ prog[fault.node] = Named(node) /\ PP!NodePlaced(nodes, node, pos)
            /\ node.at = at /\ StreamIsTexts
        BY <2>2, <4>1, FaultsNode
      <4>3. at - 1 \in 1..Len(lexemes) /\ toks[at] = "Name" /\ toks[at - 1] = "Dot"
        BY <4>2 DEF PP!NodePlaced
      <4>4. lexemes[at].typ = "Name" /\ lexemes[at - 1].typ = "Dot"
        BY <4>2, <4>3, TypeIsRead
      <4>5. Named(node).name = Lexeme(at)
        BY <4>2, Zenon DEF Named
      <4> QED BY <4>2, <4>4, <4>5
    <3>2. ASSUME NEW why \in {"add", "compare"}, fault.why = why
          PROVE  /\ lexemes[at].typ = prog[fault.node].op
                 /\ nodes[prog[fault.node].kids[1]].at < at
                 /\ at < nodes[prog[fault.node].kids[2]].at
      <4> DEFINE kind == IF why = "add" THEN "Additive" ELSE "Comparison"
      <4>1. fault.node \in 1..EP!Root /\ prog[fault.node].kind = kind
        BY <2>2, <3>2 DEF PInv, EP!FaultFits, EP!FaultFor
      <4>2. kind \in {"Additive", "Comparison"}
        OBVIOUS
      <4> HIDE DEF kind
      <4>3. /\ node.kind = kind /\ at \in 1..Len(lexemes)
            /\ prog[fault.node] = Named(node) /\ PP!NodePlaced(nodes, node, pos)
            /\ node.at = at /\ StreamIsTexts
        BY <2>2, <4>1, <4>2, FaultsNode
      <4>4. /\ toks[at] = node.op /\ node.op \in {"Plus"} \cup ComparisonOps
            /\ nodes[node.kids[1]].at < at /\ at < nodes[node.kids[2]].at
        BY <4>2, <4>3
           DEF PP!NodePlaced, PP!Binary, PP!Signs, PP!ComparisonOps, ComparisonOps
      <4>5. lexemes[at].typ = toks[at]
        BY <4>3, <4>4, TypeIsRead
      <4>6. Named(node).op = node.op /\ Named(node).kids = node.kids
        BY <4>2, <4>3 DEF Named
      <4> QED BY <4>3, <4>4, <4>5, <4>6
    <3> QED BY <3>1, <3>2 DEF ErrorsPointAtTheirText
  <2> QED BY <2>1, <2>2
<1> QED BY <1>1, Invariance, PTL
=============================================================================
