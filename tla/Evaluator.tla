------------------------------ MODULE Evaluator ------------------------------
(* asteval.go and typed_parse.go: the evaluation of one tree for one user.     *)
(* The tree is an arena, as AstParser leaves it: a node's operands come before *)
(* it and the root comes last.  The Go call stack is the variable stack: a     *)
(* frame is an eval* method, the operand it is at and the values it holds.     *)
EXTENDS Operations, SequencesExt

CONSTANTS
  Programs,          \* the trees: parsed, rewritten or built by hand
  Contexts,          \* evalContexts: profile, group ids and data, classes, strict
  Accessors,         \* "any" for Eval, or the type an EvalX or ParseX asks for
  CallClass(_, _)    \* Class.Call: a node and its arguments to (any, error)

NodeKinds == {"Literal", "PathExpr", "NameHop", "MemberOfExpr", "ClassCall", "ArrayLit",
              "CommaList", "Ternary", "Comparison", "Additive", "Logical", "Not",
              "Foreign"}   \* a Node of some other type, which a caller can define

(* How many operands a node has; a list built by hand may be empty.            *)
ArityOk(node) ==
  LET n == Len(node.kids)
  IN CASE node.kind \in {"Literal", "NameHop", "Foreign"} -> n = 0
       [] node.kind \in {"MemberOfExpr", "Not"} -> n = 1
       [] node.kind \in {"Comparison", "Additive"} -> n = 2
       [] node.kind = "Ternary" -> n = 3
       [] node.kind = "ClassCall" -> n <= 1
       [] OTHER -> TRUE

WellFormed(arena) ==
  /\ arena \in Seq(Range(arena)) /\ arena # <<>>
  /\ arena[Len(arena)].kind # "NameHop"
  /\ \A i \in 1..Len(arena) :
       /\ arena[i].kind \in NodeKinds /\ ArityOk(arena[i])
       /\ arena[i].kids \in Seq(1..i - 1)
       /\ \A k \in 1..Len(arena[i].kids) :
            arena[arena[i].kids[k]].kind = "NameHop" => arena[i].kind = "PathExpr"

ASSUME ProgramsAssumption == \A tree \in Programs : WellFormed(tree)

ASSUME ContextsAssumption == \A ctx \in Contexts : Type(ctx.profile) = "map"

VARIABLES
  prog,    \* the tree
  ctx,     \* evalContext
  want,    \* the accessor called
  stack,   \* the eval* calls in progress, innermost last
  status,  \* how far the evaluation is
  result,  \* its value
  fault    \* its error: the reason and the node it names

vars == <<prog, ctx, want, stack, status, result, fault>>

Statuses == {"Running", "Value", "Error", "Panicked", "Returned", "Unexpected"}
NoFault == [why |-> "none", node |-> 0]

FrameTyped(frame) ==
  /\ frame.node \in 1..Len(prog)
  /\ frame.next \in 1..Len(prog[frame.node].kids) + 1
  /\ frame.vals \in Seq(Range(frame.vals))

TypeOK ==
  /\ prog \in Programs /\ ctx \in Contexts /\ want \in Accessors
  /\ status \in Statuses
  /\ stack \in Seq(Range(stack))
  /\ \A d \in 1..Len(stack) : FrameTyped(stack[d])
  /\ fault.node \in 0..Len(prog)

Frame(i) == [node |-> i, next |-> 1, vals |-> <<>>]

Init ==
  /\ prog \in Programs
  /\ ctx \in Contexts
  /\ want \in Accessors
  /\ stack = <<Frame(Len(prog))>>
  /\ status = "Running"
  /\ result = Null
  /\ fault = NoFault

-----------------------------------------------------------------------------
Top == stack[Len(stack)]
Here == prog[Top.node]

AtOperand == status = "Running" /\ Top.next <= Len(Here.kids)
Operand == prog[Here.kids[Top.next]]

(* The method of a node of this kind, once its operands have values.           *)
Ready(kind) == status = "Running" /\ Here.kind = kind /\ Top.next > Len(Here.kids)

(* evalPath keeps the value of the hops so far, evalCommaList of the commas,   *)
(* the others one value per operand.                                           *)
Absorbed(frame, v) ==
  CASE prog[frame.node].kind = "PathExpr" -> <<v>>
    [] prog[frame.node].kind = "CommaList" /\ frame.vals # <<>> ->
         <<MergeOperands(frame.vals[1], v)>>
    [] OTHER -> Append(frame.vals, v)

(* A slip: a chain does not look at the operands after one that decides it.    *)
AbsorbShort(frame, v) ==
  LET node == prog[frame.node]
      decided == node.kind = "Logical" /\ (node.op = "Or") = Truthy(v)
  IN [node |-> frame.node, vals |-> Absorbed(frame, v),
      next |-> IF decided THEN Len(node.kids) + 1 ELSE frame.next + 1]

Absorb(frame, v) ==
  [node |-> frame.node, next |-> frame.next + 1, vals |-> Absorbed(frame, v)]

Settled == UNCHANGED <<prog, ctx, want>>

(* return v, nil: to the caller's frame, or to the accessor.                   *)
Return(v) ==
  /\ stack' = IF Len(stack) = 1 THEN <<>>
              ELSE Append(Front(Front(stack)), Absorb(Last(Front(stack)), v))
  /\ IF Len(stack) = 1 THEN status' = "Value" /\ result' = v
                       ELSE UNCHANGED <<status, result>>
  /\ UNCHANGED fault /\ Settled

(* return nil, err: no caller handles it.                                      *)
Fail(why, node) ==
  /\ stack' = <<>>
  /\ status' = "Error"
  /\ fault' = [why |-> why, node |-> node]
  /\ UNCHANGED result /\ Settled

ReturnOrFail(outcome, why) == IF outcome.ok THEN Return(outcome.val) ELSE Fail(why, Top.node)

-----------------------------------------------------------------------------
(* A slip: the class is looked up after the arguments are evaluated.           *)
HasClassLate == Here.kind = "ClassCall" /\ Top.next > Len(Here.kids) => Here.op \in ctx.classes

(* eval of the next operand; evalClassCall looks its class up before.          *)
HasClass == Here.kind = "ClassCall" => Here.op \in ctx.classes

EvalOperand ==
  /\ AtOperand
  /\ Operand.kind # "NameHop"
  /\ HasClass
  /\ stack' = Append(stack, Frame(Here.kids[Top.next]))
  /\ UNCHANGED <<status, result, fault>> /\ Settled

UnknownClass ==
  /\ status = "Running" /\ Top.next = 1
  /\ ~HasClass
  /\ Fail("class", Top.node)

Unsupported == Ready("Foreign") /\ Fail("node", Top.node)

Literal == Ready("Literal") /\ Return(Here.val)

-----------------------------------------------------------------------------
(* evalPath: only "user" stands for something; a bare name is nil.             *)
PathValue ==
  CASE Top.vals # <<>> -> Top.vals[1]
    [] Top.vals = <<>> /\ Here.op = "User" -> ctx.profile
    [] OTHER -> Null

Refused == ctx.strict /\ Type(PathValue) = "map" /\ ~Holds(PathValue, Operand.name)

(* A slip: the hop is looked up, and the path stays at it.                     *)
NameHopStays ==
  /\ AtOperand /\ Operand.kind = "NameHop"
  /\ ~Refused
  /\ stack' = Append(Front(stack), [Top EXCEPT !.vals = <<Lookup(PathValue, Operand.name)>>])
  /\ UNCHANGED <<status, result, fault>> /\ Settled

NameHop ==
  /\ AtOperand /\ Operand.kind = "NameHop"
  /\ ~Refused
  /\ stack' = Append(Front(stack), Absorb(Top, Lookup(PathValue, Operand.name)))
  /\ UNCHANGED <<status, result, fault>> /\ Settled

MissingProperty ==
  /\ AtOperand /\ Operand.kind = "NameHop"
  /\ Refused
  /\ Fail("missing", Here.kids[Top.next])

PathExpr == Ready("PathExpr") /\ Return(PathValue)

-----------------------------------------------------------------------------
MemberOfExpr ==
  /\ Ready("MemberOfExpr")
  /\ IF Unanswerable(Here.op, Top.vals[1])
       THEN Fail("member", Top.node)
       ELSE Return(Bool(IsMember(ctx, Here.op, Top.vals[1])))

ClassCall ==
  /\ Ready("ClassCall")
  /\ HasClass
  /\ LET args == IF Top.vals = <<>> THEN <<>> ELSE SpreadArgs(Top.vals[1])
     IN ReturnOrFail(CallClass(Here, args), "call")

ArrayLit == Ready("ArrayLit") /\ Return(Array(Top.vals))

CommaList == Ready("CommaList") /\ Return(IF Top.vals = <<>> THEN Null ELSE Top.vals[1])

-----------------------------------------------------------------------------
(* Two slips: whatever is not nil is true, and the condition is the value.     *)
TernaryNil ==
  /\ Ready("Ternary")
  /\ Return(IF Top.vals[1] # Null THEN Top.vals[2] ELSE Top.vals[3])

TernaryElvis ==
  /\ Ready("Ternary")
  /\ Return(IF Truthy(Top.vals[1]) THEN Top.vals[1] ELSE Top.vals[3])

Ternary ==
  /\ Ready("Ternary")
  /\ Return(IF Truthy(Top.vals[1]) THEN Top.vals[2] ELSE Top.vals[3])

Comparison ==
  /\ Ready("Comparison")
  /\ ReturnOrFail(ApplyComparison(Here.op, Top.vals[1], Top.vals[2]), "compare")

Additive ==
  /\ Ready("Additive")
  /\ ReturnOrFail(AddOperands(Top.vals[1], Top.vals[2]), "add")

(* One round of evalLogical's reduction: the values are folded from the left.  *)
Fold ==
  /\ Ready("Logical") /\ Len(Top.vals) > 1
  /\ LET first == IF Decided(Here.op, Top.vals[1]) THEN Top.vals[1] ELSE Top.vals[2]
         vals == <<first>> \o SubSeq(Top.vals, 3, Len(Top.vals))
     IN stack' = Append(Front(stack), [node |-> Top.node, next |-> Top.next, vals |-> vals])
  /\ UNCHANGED <<status, result, fault>> /\ Settled

Logical == Ready("Logical") /\ Len(Top.vals) = 1 /\ Return(Top.vals[1])

(* values[0] of a chain without operands, which only a caller can build.       *)
EmptyChain ==
  /\ Ready("Logical") /\ Top.vals = <<>>
  /\ stack' = <<>>
  /\ status' = "Panicked"
  /\ UNCHANGED <<result, fault>> /\ Settled

(* A slip: NOT of something false is the number 1.                             *)
NotUntyped == Ready("Not") /\ Return(IF Truthy(Top.vals[1]) THEN Bool(FALSE) ELSE Number(1))

Not == Ready("Not") /\ Return(Bool(~Truthy(Top.vals[1])))

-----------------------------------------------------------------------------
(* Eval returns the value, requireBool and the others look at its type.        *)
Require ==
  /\ status = "Value"
  /\ status' = IF want = "any" \/ Type(result) = want THEN "Returned" ELSE "Unexpected"
  /\ UNCHANGED <<stack, result, fault>> /\ Settled

Next ==
  \/ EvalOperand \/ UnknownClass \/ Unsupported \/ Literal
  \/ NameHop \/ MissingProperty \/ PathExpr
  \/ MemberOfExpr \/ ClassCall \/ ArrayLit \/ CommaList
  \/ Ternary \/ Comparison \/ Additive \/ Fold \/ Logical \/ EmptyChain \/ Not
  \/ Require

(* Eval runs in its caller's goroutine until it returns.                       *)
Spec == Init /\ [][Next]_vars /\ WF_vars(Next)

-----------------------------------------------------------------------------
Root == Len(prog)

(* A set of nodes that must be boolean: conditions other than chains, true and *)
(* false, and chains and ternaries of such nodes.                              *)
BoolKinds == {"Not", "Comparison", "MemberOfExpr"}

BoolNodes(S) ==
  \A i \in S :
    \/ prog[i].kind \in BoolKinds
    \/ prog[i].kind = "Literal" /\ Type(prog[i].val) = "bool"
    \/ prog[i].kind = "Logical" /\ \A k \in 1..Len(prog[i].kids) : prog[i].kids[k] \in S
    \/ prog[i].kind = "Ternary" /\ prog[i].kids[2] \in S /\ prog[i].kids[3] \in S

MayBeBool == {i \in 1..Root : prog[i].kind \in BoolKinds \cup {"Literal", "Logical", "Ternary"}}

Condition(i) == \E S \in SUBSET MayBeBool : BoolNodes(S) /\ i \in S

(* "an Okta group rule is always a boolean" (README.md:43): AND and OR return  *)
(* one of their operands, whatever its type, yet a rule put together from      *)
(* conditions never comes back from ParseBool as ErrUnexpectedType.            *)
RulesAreBool == want = "bool" /\ status = "Unexpected" => ~Condition(Root)

(* The frames are a path from the root down, each at the operand below it.     *)
StackLinked ==
  /\ status = "Running" <=> stack # <<>>
  /\ stack # <<>> => stack[1].node = Root
  /\ \A d \in 1..Len(stack) - 1 :
       /\ stack[d].next <= Len(prog[stack[d].node].kids)
       /\ stack[d + 1].node = prog[stack[d].node].kids[stack[d].next]
       /\ prog[stack[d + 1].node].kind # "NameHop"

(* A frame has one value per operand it has passed, until Fold drops some.     *)
FrameCounts(frame) ==
  /\ prog[frame.node].kind = "Logical" =>
       Len(frame.vals) <= frame.next - 1 /\ (frame.next > 1 => Len(frame.vals) > 0)
  /\ prog[frame.node].kind \notin {"PathExpr", "CommaList", "Logical"} =>
       Len(frame.vals) = frame.next - 1

(* What a chain or a ternary of boolean nodes can return is boolean already.   *)
FrameBool(frame) ==
  /\ prog[frame.node].kind = "Logical" =>
       \A k \in 1..Len(frame.vals) : Type(frame.vals[k]) = "bool"
  /\ prog[frame.node].kind = "Ternary" =>
       \A k \in 2..Len(frame.vals) : Type(frame.vals[k]) = "bool"

FramesFit ==
  \A d \in 1..Len(stack) :
    FrameCounts(stack[d]) /\ (Condition(stack[d].node) => FrameBool(stack[d]))

ResultBool ==
  status \in {"Value", "Returned", "Unexpected"} /\ Condition(Root) => Type(result) = "bool"

UnexpectedMeans == status = "Unexpected" => want # "any" /\ Type(result) # want

(* values[0] of evalLogical is safe (asteval.go:354): however often the values *)
(* of a chain are folded one is left, so evaluation panics only for a chain    *)
(* without operands, which the parser never builds.                            *)
PanicsNeedEmptyChain ==
  status = "Panicked" => \E i \in 1..Root : prog[i].kind = "Logical" /\ prog[i].kids = <<>>

IInv ==
  TypeOK /\ StackLinked /\ FramesFit /\ ResultBool /\ UnexpectedMeans /\ PanicsNeedEmptyChain

Termination == <>(status \in {"Error", "Panicked", "Returned", "Unexpected"})
=============================================================================
