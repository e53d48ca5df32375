----------------------------- MODULE AstParser -----------------------------
(* astparse.go: the recursive-descent parser that turns one token stream into  *)
(* an AST.  The Go call stack is the variable stack: a frame is a parse*       *)
(* method that is waiting for a callee, with the nodes it has collected.  The  *)
(* AST is an arena: nodes[i] was the i-th node built and its children are      *)
(* smaller indices.  Tokens are their types; a node keeps the index of the     *)
(* token it came from instead of the token's text.                             *)
EXTENDS Syntax, Integers, Sequences, FiniteSets, SequencesExt

CONSTANT Streams   \* the token streams tokenize may hand to the parser

(* tokenize ends every stream with its only EOF token (lexer.go:234).          *)
StreamFits(s) ==
  /\ s \in Seq(TokenTypes)
  /\ s # <<>>
  /\ \A i \in 1..Len(s) : s[i] = "EOF" <=> i = Len(s)

ASSUME StreamsAssumption == \A s \in Streams : StreamFits(s)

VARIABLES
  toks,    \* astParser.toks
  pos,     \* astParser.pos, from 1
  ctl,     \* the method about to start, or "Return", "Accepted", "Failed"
  stack,   \* the methods waiting for a callee, innermost last
  ret,     \* the node the last method returned (0: none yet)
  cond,    \* the isCond it returned
  nodes    \* every node built so far

vars == <<toks, pos, ctl, stack, ret, cond, nodes>>

(* The methods that start by calling one other method, and that method.        *)
Delegates == {"Branch", "Expr", "Or", "And", "Comparison", "Additive"}

Callee(fn) ==
  CASE fn = "Branch" -> "Expr"
    [] fn = "Expr" -> "Or"
    [] fn = "Or" -> "And"
    [] fn = "And" -> "Not"
    [] fn = "Comparison" -> "Additive"
    [] fn = "Additive" -> "Atom"

Running == Delegates \cup {"Not", "Atom", "Path", "Return"}

FrameFns == Delegates \cup
  {"TrueBranch", "FalseBranch", "Not", "Paren", "Array", "ClassCall",
   "MemberOf", "Path"}

TypeOK ==
  /\ toks \in Streams
  /\ pos \in 1..Len(toks)
  /\ ctl \in Running \cup {"Accepted", "Failed"}
  /\ stack \in Seq([fn : FrameFns, kids : Seq(Nat), at : 1..Len(toks)])
  /\ ret \in 0..Len(nodes)
  /\ cond \in BOOLEAN
  /\ nodes \in Seq([kind : NodeKinds, op : TokenTypes, kids : Seq(Nat), at : Nat])

Init ==
  /\ toks \in Streams
  /\ pos = 1
  /\ ctl = "Expr"
  /\ stack = <<>>
  /\ ret = 0
  /\ cond = FALSE
  /\ nodes = <<>>

-----------------------------------------------------------------------------
(* peek, advance (which never leaves the EOF token) and the look-ahead of a    *)
(* run of expect calls.                                                        *)
Peek == toks[pos]
After(k) == IF pos + k <= Len(toks) THEN pos + k ELSE Len(toks)
Ahead(ts) == \A k \in 1..Len(ts) : toks[After(k - 1)] = ts[k]

Top == stack[Len(stack)]
Frame(fn, kids, at) == [fn |-> fn, kids |-> kids, at |-> at]
Push(fn, kids, at) == stack' = Append(stack, Frame(fn, kids, at))
Replace(fn, kids, at) == stack' = [stack EXCEPT ![Len(stack)] = Frame(fn, kids, at)]
Pop == stack' = Front(stack)

Consume(k) == pos' = After(k)
Start(fn) == ctl' = fn /\ UNCHANGED <<ret, cond, nodes>>

(* return node, isCond: a freshly built node.                                  *)
Build(kind, op, kids, at, isCond) ==
  /\ nodes' = Append(nodes, [kind |-> kind, op |-> op, kids |-> kids, at |-> at])
  /\ ret' = Len(nodes) + 1
  /\ cond' = isCond
  /\ ctl' = "Return"

(* return val, isCond of the callee, untouched.                                *)
Pass == ctl' = "Return" /\ UNCHANGED <<ret, cond, nodes>>

(* return nil, err: every caller returns it at once, so the stack unwinds.     *)
Fail == ctl' = "Failed" /\ stack' = <<>> /\ UNCHANGED <<toks, pos, ret, cond, nodes>>

Awaiting(fn) == ctl = "Return" /\ stack # <<>> /\ Top.fn = fn

-----------------------------------------------------------------------------
(* Slips in the actions below that the properties must notice: each operator   *)
(* is one action with one mistake in it.                                       *)

(* parseNot recurses into the next tighter method, as the other methods do.    *)
NegationNotRepeatable ==
  /\ ctl = "Not"
  /\ IF Peek = "Not" THEN Push("Not", <<>>, pos) /\ Start("Comparison") /\ Consume(1)
                     ELSE Start("Comparison") /\ UNCHANGED <<pos, stack>>
  /\ UNCHANGED toks

(* parseNot peeks at the "!" and forgets to advance over it.                   *)
NegationNotConsumed ==
  /\ ctl = "Not"
  /\ IF Peek = "Not" THEN Push("Not", <<>>, pos) /\ Start("Not")
                     ELSE Start("Comparison") /\ UNCHANGED stack
  /\ UNCHANGED <<toks, pos>>

(* parseExpr rewinds when there is no "?", as a backtracking parser would.     *)
ExprDoneRewinds ==
  /\ Awaiting("Expr")
  /\ IF Peek = "Question"
       THEN Replace("TrueBranch", <<ret>>, Top.at) /\ Start("Branch") /\ Consume(1)
       ELSE Pass /\ Pop /\ pos' = Top.at
  /\ UNCHANGED toks

(* The false branch is parsed by parseExpr, so it takes no comma list.         *)
TrueBranchDoneNoList ==
  /\ Awaiting("TrueBranch")
  /\ Peek = "Colon"
  /\ Replace("FalseBranch", Append(Top.kids, ret), Top.at)
  /\ Start("Expr")
  /\ Consume(1)
  /\ UNCHANGED toks

(* The comma list is made before its last item is appended.                    *)
BranchDoneDropsLast ==
  /\ Awaiting("Branch")
  /\ ~cond
  /\ Peek # "Comma"
  /\ IF Top.kids = <<>> THEN Pass
     ELSE Build("CommaList", "Comma", Top.kids, Top.at, FALSE)
  /\ Pop
  /\ UNCHANGED <<toks, pos>>

(* A chain returns the isCond of its last operand instead of true.             *)
ChainDoneKeepsCond(fn) ==
  /\ Awaiting(fn)
  /\ Peek # fn
  /\ IF Top.kids = <<>> THEN Pass
     ELSE Build("Logical", fn, Append(Top.kids, ret), Top.at, cond)
  /\ Pop
  /\ UNCHANGED <<toks, pos>>

(* The operands are appended to a copy of the slice the node is given.         *)
ChainDoneEmpty(fn) ==
  /\ Awaiting(fn)
  /\ Peek # fn
  /\ IF Top.kids = <<>> THEN Pass ELSE Build("Logical", fn, <<>>, Top.at, TRUE)
  /\ Pop
  /\ UNCHANGED <<toks, pos>>

(* Only the left side of a comparison is checked to be an operand.             *)
RightDoneUnchecked ==
  /\ Awaiting("Comparison")
  /\ Top.kids # <<>>
  /\ Build("Comparison", toks[Top.at], Append(Top.kids, ret), Top.at, TRUE)
  /\ Pop
  /\ UNCHANGED <<toks, pos>>

(* parseAdditive's loop goes round again when there is no "+".                 *)
NoTermLoops ==
  /\ Awaiting("Additive")
  /\ Top.kids = <<>>
  /\ Peek # "Plus"
  /\ Pass
  /\ UNCHANGED <<toks, pos, stack>>

(* The position kept for the sum is that of the token behind the "+".          *)
NextTermLate ==
  /\ Awaiting("Additive")
  /\ Top.kids = <<>>
  /\ Peek = "Plus"
  /\ ~cond
  /\ Replace("Additive", <<ret>>, After(1))
  /\ Start("Atom")
  /\ Consume(1)
  /\ UNCHANGED toks

(* A ternary is built without what was parsed last, its false branch.          *)
FalseBranchDoneForgets ==
  /\ Awaiting("FalseBranch")
  /\ Build("Ternary", "Question", Top.kids, Top.at, FALSE)
  /\ Pop
  /\ UNCHANGED <<toks, pos>>

(* The array wraps whatever it was given, comma lists included.                *)
CloseArrayNests ==
  /\ Awaiting("Array")
  /\ Peek = "RBrace"
  /\ Build("ArrayLit", "LBrace", <<ret>>, Top.at, FALSE)
  /\ Pop
  /\ Consume(1)
  /\ UNCHANGED toks

-----------------------------------------------------------------------------
(* Entering a method.                                                          *)

Descend ==
  /\ ctl \in Delegates
  /\ Push(ctl, <<>>, pos)
  /\ Start(Callee(ctl))
  /\ UNCHANGED <<toks, pos>>

(* parseNot before its recursive call, or before delegating.                   *)
Negation ==
  /\ ctl = "Not"
  /\ IF Peek = "Not" THEN Push("Not", <<>>, pos) /\ Start("Not") /\ Consume(1)
                     ELSE Start("Comparison") /\ UNCHANGED <<pos, stack>>
  /\ UNCHANGED toks

(* parsePrimary's literals: strconv may refuse a numeral after it is consumed. *)
Literal ==
  /\ ctl = "Atom"
  /\ Peek \in LiteralTokens
  /\ Build("Literal", Peek, <<>>, pos, FALSE)
  /\ Consume(1)
  /\ UNCHANGED <<toks, stack>>

Parenthesis ==
  /\ ctl = "Atom"
  /\ Peek = "LParen"
  /\ Push("Paren", <<>>, pos)
  /\ Start("Expr")
  /\ Consume(1)
  /\ UNCHANGED toks

OpenArray ==
  /\ ctl = "Atom"
  /\ Peek = "LBrace"
  /\ Push("Array", <<>>, pos)
  /\ Start("Branch")
  /\ Consume(1)
  /\ UNCHANGED toks

OpenClassCall ==
  /\ ctl = "Atom"
  /\ Ahead(<<"Class", "Dot", "Name", "LParen">>)
  /\ Push("ClassCall", <<>>, pos)
  /\ Start("Branch")
  /\ Consume(4)
  /\ UNCHANGED toks

OpenMemberOf ==
  /\ ctl = "Atom"
  /\ Peek \in MemberOfTokens
  /\ toks[After(1)] = "LParen"
  /\ Push("MemberOf", <<>>, pos)
  /\ Start("Branch")
  /\ Consume(2)
  /\ UNCHANGED toks

StartPath ==
  /\ ctl = "Atom"
  /\ Peek \in {"User", "Name"}
  /\ Push("Path", <<>>, pos)
  /\ Start("Path")
  /\ Consume(1)
  /\ UNCHANGED toks

(* Every token parseAtom and parsePrimary have no use for, refused numerals,   *)
(* and the failing expect calls of parseClassCall and parseMemberOf.           *)
StartsAtom ==
  \/ Peek \in LiteralTokens \cup {"LParen", "LBrace", "User", "Name"}
  \/ Ahead(<<"Class", "Dot", "Name", "LParen">>)
  \/ Peek \in MemberOfTokens /\ toks[After(1)] = "LParen"

BadAtom == ctl = "Atom" /\ ~StartsAtom /\ Fail

-----------------------------------------------------------------------------
(* parsePathChain's loop; its frame collects the hops.                         *)

NameHop ==
  /\ ctl = "Path"
  /\ Ahead(<<"Dot", "Name">>)
  /\ nodes' = Append(nodes, [kind |-> "NameHop", op |-> "Name", kids |-> <<>>,
                             at |-> pos + 1])
  /\ Replace("Path", Append(Top.kids, Len(nodes) + 1), Top.at)
  /\ Consume(2)
  /\ UNCHANGED <<toks, ctl, ret, cond>>

MemberOfHop ==
  /\ ctl = "Path"
  /\ Peek = "Dot"
  /\ toks[After(1)] \in MemberOfTokens
  /\ toks[After(2)] = "LParen"
  /\ Push("MemberOf", <<>>, pos + 1)
  /\ Start("Branch")
  /\ Consume(3)
  /\ UNCHANGED toks

EndPath ==
  /\ ctl = "Path"
  /\ Peek # "Dot"
  /\ Build("PathExpr", toks[Top.at], Top.kids, Top.at, FALSE)
  /\ Pop
  /\ UNCHANGED <<toks, pos>>

BadHop ==
  /\ ctl = "Path"
  /\ Peek = "Dot"
  /\ ~Ahead(<<"Dot", "Name">>)
  /\ ~(toks[After(1)] \in MemberOfTokens /\ toks[After(2)] = "LParen")
  /\ Fail

(* parseMemberOf returned to parsePathChain: the hop joins the chain.          *)
HopDone ==
  /\ Awaiting("Path")
  /\ Replace("Path", Append(Top.kids, ret), Top.at)
  /\ Start("Path")
  /\ UNCHANGED <<toks, pos>>

-----------------------------------------------------------------------------
(* A callee has returned ret and cond to the method on top of the stack.       *)

(* parseExpr: without a "?" what parseOr returned, else the two branches.      *)
ExprDone ==
  /\ Awaiting("Expr")
  /\ IF Peek = "Question"
       THEN Replace("TrueBranch", <<ret>>, Top.at) /\ Start("Branch") /\ Consume(1)
       ELSE Pass /\ Pop /\ UNCHANGED pos
  /\ UNCHANGED toks

TrueBranchDone ==
  /\ Awaiting("TrueBranch")
  /\ Peek = "Colon"
  /\ Replace("FalseBranch", Append(Top.kids, ret), Top.at)
  /\ Start("Branch")
  /\ Consume(1)
  /\ UNCHANGED toks

FalseBranchDone ==
  /\ Awaiting("FalseBranch")
  /\ Build("Ternary", "Question", Append(Top.kids, ret), Top.at, FALSE)
  /\ Pop
  /\ UNCHANGED <<toks, pos>>

(* parseOperandBranch: each item must be operand-typed; commas chain them.     *)
BranchItemDone ==
  /\ Awaiting("Branch")
  /\ ~cond
  /\ Peek = "Comma"
  /\ Replace("Branch", Append(Top.kids, ret), Top.at)
  /\ Start("Expr")
  /\ Consume(1)
  /\ UNCHANGED toks

BranchDone ==
  /\ Awaiting("Branch")
  /\ ~cond
  /\ Peek # "Comma"
  /\ IF Top.kids = <<>> THEN Pass
     ELSE Build("CommaList", "Comma", Append(Top.kids, ret), Top.at, FALSE)
  /\ Pop
  /\ UNCHANGED <<toks, pos>>

(* parseLogicalChain: parseOr chains tokOr over parseAnd, parseAnd tokAnd over *)
(* parseNot; each token bears the name of its method here.                     *)
ChainOperandDone(fn) ==
  /\ Awaiting(fn)
  /\ Peek = fn
  /\ Replace(fn, Append(Top.kids, ret), Top.at)
  /\ Start(Callee(fn))
  /\ Consume(1)
  /\ UNCHANGED toks

ChainDone(fn) ==
  /\ Awaiting(fn)
  /\ Peek # fn
  /\ IF Top.kids = <<>> THEN Pass
     ELSE Build("Logical", fn, Append(Top.kids, ret), Top.at, TRUE)
  /\ Pop
  /\ UNCHANGED <<toks, pos>>

NotDone ==
  /\ Awaiting("Not")
  /\ Build("Not", "Not", <<ret>>, Top.at, TRUE)
  /\ Pop
  /\ UNCHANGED <<toks, pos>>

(* parseComparison: at most one operator, both sides operand-typed.            *)
LeftDone ==
  /\ Awaiting("Comparison")
  /\ Top.kids = <<>>
  /\ Peek \in ComparisonOps
  /\ ~cond
  /\ Replace("Comparison", <<ret>>, pos)
  /\ Start("Additive")
  /\ Consume(1)
  /\ UNCHANGED toks

RightDone ==
  /\ Awaiting("Comparison")
  /\ Top.kids # <<>>
  /\ ~cond
  /\ Build("Comparison", toks[Top.at], Append(Top.kids, ret), Top.at, TRUE)
  /\ Pop
  /\ UNCHANGED <<toks, pos>>

NoComparison ==
  /\ Awaiting("Comparison")
  /\ Top.kids = <<>>
  /\ Peek \notin ComparisonOps
  /\ Pass
  /\ Pop
  /\ UNCHANGED <<toks, pos>>

(* parseAdditive: kids holds the sum so far while its next term is parsed.     *)
NextTerm ==
  /\ Awaiting("Additive")
  /\ Top.kids = <<>>
  /\ Peek = "Plus"
  /\ ~cond
  /\ Replace("Additive", <<ret>>, pos)
  /\ Start("Atom")
  /\ Consume(1)
  /\ UNCHANGED toks

(* The loop body's last line: val becomes the sum, and "+" is looked for again *)
(* (as a return to the same frame, now without a left-hand side).              *)
TermDone ==
  /\ Awaiting("Additive")
  /\ Top.kids # <<>>
  /\ ~cond
  /\ Build("Additive", "Plus", Append(Top.kids, ret), Top.at, FALSE)
  /\ Replace("Additive", <<>>, Top.at)
  /\ UNCHANGED <<toks, pos>>

NoTerm ==
  /\ Awaiting("Additive")
  /\ Top.kids = <<>>
  /\ Peek # "Plus"
  /\ Pass
  /\ Pop
  /\ UNCHANGED <<toks, pos>>

(* parseAtom's parentheses keep the type of what was inside.                   *)
CloseParen ==
  /\ Awaiting("Paren")
  /\ Peek = "RParen"
  /\ Pass
  /\ Pop
  /\ Consume(1)
  /\ UNCHANGED toks

(* parseArray: a comma list hands its elements over, anything else is wrapped. *)
CloseArray ==
  /\ Awaiting("Array")
  /\ Peek = "RBrace"
  /\ IF nodes[ret].kind = "CommaList"
       THEN /\ nodes' = [nodes EXCEPT ![ret] = [@ EXCEPT !.kind = "ArrayLit",
                                                 !.op = "LBrace", !.at = Top.at]]
            /\ UNCHANGED <<ctl, ret, cond>>
       ELSE Build("ArrayLit", "LBrace", <<ret>>, Top.at, FALSE)
  /\ Pop
  /\ Consume(1)
  /\ UNCHANGED toks

CloseCall(fn, kind, isCond) ==
  /\ Awaiting(fn)
  /\ Peek = "RParen"
  /\ Build(kind, toks[Top.at], <<ret>>, Top.at, isCond)
  /\ Pop
  /\ Consume(1)
  /\ UNCHANGED toks

CloseClassCall == CloseCall("ClassCall", "ClassCall", FALSE)
CloseMemberOf == CloseCall("MemberOf", "MemberOfExpr", TRUE)

(* A closing token is missing.                                                 *)
Closer(fn) ==
  CASE fn = "TrueBranch" -> "Colon"
    [] fn = "Array" -> "RBrace"
    [] fn \in {"Paren", "ClassCall", "MemberOf"} -> "RParen"

MissingCloser ==
  \E fn \in {"TrueBranch", "Array", "Paren", "ClassCall", "MemberOf"} :
    Awaiting(fn) /\ Peek # Closer(fn) /\ Fail

(* A condition where an operand is needed: a branch item, either side of a     *)
(* comparison or a term of a sum.                                              *)
NeedsOperand ==
  \/ Awaiting("Branch")
  \/ Awaiting("Comparison") /\ (Top.kids # <<>> \/ Peek \in ComparisonOps)
  \/ Awaiting("Additive") /\ (Top.kids # <<>> \/ Peek = "Plus")

ConditionMisplaced == NeedsOperand /\ cond /\ Fail

(* parseToAST: parseExpr has returned and only EOF may be left.                *)
Finish ==
  /\ ctl = "Return"
  /\ stack = <<>>
  /\ ctl' = IF Peek = "EOF" THEN "Accepted" ELSE "Failed"
  /\ UNCHANGED <<toks, pos, stack, ret, cond, nodes>>

Done == ctl \in {"Accepted", "Failed"} /\ UNCHANGED vars

Next ==
  \/ Descend \/ Negation
  \/ Literal \/ Parenthesis \/ OpenArray \/ OpenClassCall \/ OpenMemberOf
  \/ StartPath \/ BadAtom
  \/ NameHop \/ MemberOfHop \/ EndPath \/ BadHop \/ HopDone
  \/ ExprDone \/ TrueBranchDone \/ FalseBranchDone
  \/ BranchItemDone \/ BranchDone
  \/ \E fn \in {"Or", "And"} : ChainOperandDone(fn) \/ ChainDone(fn)
  \/ NotDone
  \/ LeftDone \/ RightDone \/ NoComparison
  \/ NextTerm \/ TermDone \/ NoTerm
  \/ CloseParen \/ CloseArray \/ CloseClassCall \/ CloseMemberOf
  \/ MissingCloser \/ ConditionMisplaced
  \/ Finish \/ Done

Spec == Init /\ [][Next]_vars /\ WF_vars(Next)

-----------------------------------------------------------------------------
(* Properties.                                                                 *)

(* A comma list stands only where a whole argument or ternary branch stands.   *)
SimpleKinds == OperandKinds \ {"CommaList"}
AnyKinds == ConditionKinds \cup SimpleKinds
HopKinds == {"NameHop", "MemberOfExpr"}

(* The kinds child j of a node may have.  asteval.go relies on them: Eval      *)
(* "never needs to know a Node's operand/condition-ness" (astparse.go:26).     *)
ChildKinds(kind, j) ==
  CASE kind \in {"Comparison", "Additive", "CommaList", "ArrayLit"} -> SimpleKinds
    [] kind \in {"ClassCall", "MemberOfExpr"} -> OperandKinds
    [] kind = "Ternary" -> IF j = 1 THEN AnyKinds ELSE OperandKinds
    [] kind \in {"Logical", "Not"} -> AnyKinds
    [] kind = "PathExpr" -> HopKinds
    [] OTHER -> {}

ArityOK(kind, k) ==
  /\ kind \in {"Literal", "NameHop"} => k = 0
  /\ kind \in {"ClassCall", "MemberOfExpr", "Not"} => k = 1
  /\ kind \in {"Comparison", "Additive"} => k = 2
  /\ kind = "Ternary" => k = 3
  /\ kind \in {"CommaList", "Logical"} => k >= 2
  /\ kind = "ArrayLit" => k >= 1

(* Node n is well formed over the arena ns.                                    *)
Fits(ns, n) ==
  /\ ArityOK(n.kind, Len(n.kids))
  /\ \A j \in 1..Len(n.kids) :
       n.kids[j] \in 1..Len(ns) /\ ns[n.kids[j]].kind \in ChildKinds(n.kind, j)

(* Every node ever built, kept or still waiting in a frame, has the operands   *)
(* its type promises: never a condition where an operand must stand, never a   *)
(* comma list inside an array, a sum, a comparison or another comma list.      *)
WellTyped == \A i \in 1..Len(nodes) : Fits(nodes, nodes[i])

KindsFor(isCond) == IF isCond THEN ConditionKinds ELSE OperandKinds

(* The isCond a method returns says what kind of node it returns, although     *)
(* most methods pass it on and several override it.                            *)
CondTracksNode ==
  ctl \in {"Return", "Accepted"} =>
    ret \in 1..Len(nodes) /\ nodes[ret].kind \in KindsFor(cond)

(* The method whose result a frame waits for, and the methods it is itself     *)
(* running: parseNot calls parseComparison in tail position, parsePrimary and  *)
(* parseAtom likewise share a frame.                                           *)
Waits(fn) ==
  CASE fn \in {"TrueBranch", "FalseBranch", "Array", "ClassCall", "MemberOf"} -> "Branch"
    [] fn = "Not" -> "Not"
    [] fn = "Paren" -> "Expr"
    [] fn = "Path" -> "MemberOf"
    [] OTHER -> Callee(fn)

Runs(fn) ==
  CASE fn \in {"Expr", "TrueBranch", "FalseBranch"} -> {"Expr"}
    [] fn = "Comparison" -> {"Not"}
    [] fn \in {"Paren", "Array", "ClassCall", "Path"} -> {"Atom"}
    [] fn = "MemberOf" -> {"Atom", "MemberOf"}
    [] OTHER -> {fn}

(* Adjacent frames are caller and callee, and ctl is what the top waits for.   *)
CallsOK ==
  /\ stack # <<>> => "Expr" \in Runs(stack[1].fn)
  /\ \A k \in 2..Len(stack) : Waits(stack[k - 1].fn) \in Runs(stack[k].fn)
  /\ ctl \in Running \ {"Return"} =>
       \/ stack = <<>> /\ ctl = "Expr"
       \/ stack # <<>> /\ \/ ctl = Waits(Top.fn)
                          \/ ctl = "Comparison" /\ Waits(Top.fn) = "Not"
                          \/ ctl = "Path" /\ Top.fn = "Path"

(* What a frame may have collected.                                            *)
CollectedKinds(fn, j) ==
  CASE fn \in {"Branch", "Comparison", "Additive"} -> SimpleKinds
    [] fn \in {"Or", "And", "TrueBranch"} -> AnyKinds
    [] fn = "FalseBranch" -> IF j = 1 THEN AnyKinds ELSE OperandKinds
    [] fn = "Path" -> HopKinds
    [] OTHER -> {}

CollectedOK(fn, k) ==
  /\ fn \in {"Expr", "Not", "Paren", "Array", "ClassCall", "MemberOf"} => k = 0
  /\ fn \in {"Comparison", "Additive"} => k <= 1
  /\ fn = "TrueBranch" => k = 1
  /\ fn = "FalseBranch" => k = 2

FrameFits(ns, f) ==
  /\ CollectedOK(f.fn, Len(f.kids))
  /\ \A j \in 1..Len(f.kids) :
       f.kids[j] \in 1..Len(ns) /\ ns[f.kids[j]].kind \in CollectedKinds(f.fn, j)

FramesFit == \A k \in 1..Len(stack) : FrameFits(nodes, stack[k])

(* What the method on top of the stack gets is what it waits for: an operand   *)
(* from parseOperandBranch, an isMemberOf node for a path, and a comma list    *)
(* only from parseOperandBranch.                                               *)
ReturnFits ==
  ctl = "Return" /\ stack # <<>> =>
    /\ Waits(Top.fn) = "Branch" => ~cond
    /\ nodes[ret].kind = "CommaList" => Waits(Top.fn) = "Branch"
    /\ Top.fn = "Path" => nodes[ret].kind = "MemberOfExpr"

(* The inductive invariant behind WellTyped.                                   *)
IInv == TypeOK /\ WellTyped /\ CondTracksNode /\ CallsOK /\ FramesFit /\ ReturnFits

(* The places that hold node i: among the children of a node, among what a     *)
(* waiting method has collected, or the method call that is returning it.      *)
Places(by, rs, i) ==
  UNION {{<<by, p, j>> : j \in {j \in 1..Len(rs[p].kids) : rs[p].kids[j] = i}} : p \in 1..Len(rs)}

Holders(i) ==
  Places("node", nodes, i) \cup Places("method", stack, i)
    \cup (IF ctl = "Return" /\ ret = i THEN {<<"return">>} ELSE {})

(* Until an error drops the work, no node is lost, shared or its own ancestor: *)
(* the arena is a forest, and on success one tree rooted at the returned node. *)
HeldOnce ==
  /\ ctl # "Failed" => \A i \in 1..Len(nodes) :
       IF ctl = "Accepted" /\ i = ret THEN Holders(i) = {}
                                      ELSE \E h \in Holders(i) : Holders(i) = {h}
  /\ ctl = "Accepted" => ret = Len(nodes)
  /\ \A i \in 1..Len(nodes) : \A j \in 1..Len(nodes[i].kids) :
       nodes[i].kids[j] < IF j = Len(nodes[i].kids) THEN i ELSE nodes[i].kids[j + 1]

(* The steps a method that is about to start may take before it has a token or *)
(* calls for one, and what a return still owes to the frame it returns to.     *)
Duty(c) ==
  CASE c = "Branch" -> 20 [] c = "Expr" -> 17 [] c = "Or" -> 14 [] c = "And" -> 11
    [] c = "Not" -> 8 [] c = "Comparison" -> 7 [] c = "Additive" -> 4
    [] c \in {"Atom", "Path", "Return"} -> 1 [] OTHER -> 0

Owed ==
  IF /\ ctl = "Return" /\ stack # <<>>
     /\ Top.fn = "Path" \/ (Top.fn = "Additive" /\ Top.kids # <<>>)
    THEN 1 ELSE 0

(* How many more steps the parse takes, at most.                               *)
Work == 22 * (Len(toks) - pos) + 2 * Len(stack) + Duty(ctl) + Owed

(* One pass: the parser never backs up in the tokens, and never touches a node *)
(* again once built, but for an array taking over the comma list just returned *)
(* to it.  No two steps do the same work again: at most 22 are paid for by     *)
(* each token, so the time a parse takes is linear in the length of the text.  *)
NoBacktracking ==
  [][ /\ pos' >= pos
      /\ Work' \in 0..Work - 1
      /\ Len(nodes') >= Len(nodes)
      /\ \A i \in 1..Len(nodes) :
           nodes'[i] = nodes[i] \/ (i = ret /\ Awaiting("Array")) ]_vars

(* The Go call stack grows only when tokens are consumed: every nested method  *)
(* lies behind a token of its own, and at most seven methods share one.        *)
StackBound == Len(stack) <= 7 * (pos - 1) + 5

(* Parse always comes back, with an AST or an error.                           *)
Termination == <>(ctl \in {"Accepted", "Failed"})
=============================================================================
