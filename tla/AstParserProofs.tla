--------------------------- MODULE AstParserProofs ---------------------------
(* What astParser's state is in every reachable state, for every set of token  *)
(* streams.  First TypeOK, WellTyped and CondTracksNode: the argument is IInv, *)
(* split into what it says of the arena (ArenaOK), of the stack over that arena*)
(* (StackOK), of the control point (ControlOK) and of a returned value         *)
(* (ReturnOK).  Every action builds at most one node and pushes, replaces or   *)
(* pops one frame, so each part needs one lemma per kind of step.              *)
(* Then what the steps do to the arena, to pos and to the depth of the Go call *)
(* stack: children come before their parents, no node is touched again, no     *)
(* token is read again, and the depth is bounded by the tokens consumed.  Nodes*)
(* are where their tokens are: an operator stands between its operands.  No    *)
(* node is lost, and none has two parents.                                     *)
EXTENDS AstParser, SequenceLemmas

FrameType(n) == [fn : FrameFns, kids : Seq(Nat), at : 1..n]
NodeType == [kind : NodeKinds, op : TokenTypes, kids : Seq(Nat), at : Nat]

ArenaOK(ns) ==
  /\ ns \in Seq(NodeType)
  /\ \A i \in 1..Len(ns) : Fits(ns, ns[i])

Linked(s) ==
  /\ s # <<>> => "Expr" \in Runs(s[1].fn)
  /\ \A k \in 2..Len(s) : Waits(s[k - 1].fn) \in Runs(s[k].fn)

StackOK(n, ns, s) ==
  /\ s \in Seq(FrameType(n))
  /\ Linked(s)
  /\ \A k \in 1..Len(s) : FrameFits(ns, s[k])

ControlOK(c, s) ==
  c \in Running \ {"Return"} =>
    \/ s = <<>> /\ c = "Expr"
    \/ s # <<>> /\ \/ c = Waits(s[Len(s)].fn)
                   \/ c = "Comparison" /\ Waits(s[Len(s)].fn) = "Not"
                   \/ c = "Path" /\ s[Len(s)].fn = "Path"

(* A value of kind k with isCond d suits the frame on top of s.                *)
Suits(k, d, s) ==
  s # <<>> =>
    /\ Waits(s[Len(s)].fn) = "Branch" => ~d
    /\ k = "CommaList" => Waits(s[Len(s)].fn) = "Branch"
    /\ s[Len(s)].fn = "Path" => k = "MemberOfExpr"

ReturnOK(c, s, r, d, ns) ==
  /\ c \in {"Return", "Accepted"} => r \in 1..Len(ns) /\ ns[r].kind \in KindsFor(d)
  /\ c = "Return" => Suits(ns[r].kind, d, s)

Control == Running \cup {"Accepted", "Failed"}

(* IInv, regrouped; of the token stream, only that it fits.                    *)
Inv ==
  /\ StreamFits(toks)
  /\ pos \in 1..Len(toks)
  /\ ctl \in Control
  /\ ret \in 0..Len(nodes)
  /\ cond \in BOOLEAN
  /\ ArenaOK(nodes)
  /\ StackOK(Len(toks), nodes, stack)
  /\ ControlOK(ctl, stack)
  /\ ReturnOK(ctl, stack, ret, cond, nodes)

(* The named parts of Inv are those of IInv.                                   *)
LEMMA InvIsIInv == toks \in Streams => (Inv <=> IInv)
  <1>1. (stack \in Seq(FrameType(Len(toks)))) <=>
        (stack \in Seq([fn : FrameFns, kids : Seq(Nat), at : 1..Len(toks)]))
    BY DEF FrameType
  <1> QED
    BY <1>1, StreamsAssumption DEF Inv, IInv, TypeOK, WellTyped, CondTracksNode, CallsOK, FramesFit, ReturnFits,
       ArenaOK, StackOK, Linked, ControlOK, ReturnOK, Suits, NodeType, Control, Top

-----------------------------------------------------------------------------
(* A node added to the arena leaves every older node and frame well formed.    *)
LEMMA FitsGrows ==
  ASSUME NEW ns \in Seq(NodeType), NEW n \in NodeType, NEW x, Fits(ns, x)
  PROVE  Fits(Append(ns, n), x)
  BY PushProperties, LenProperties DEF Fits

(* A node appended to the arena leaves every node in it well formed.           *)
LEMMA AddNode ==
  ASSUME NEW ns, ArenaOK(ns), NEW n \in NodeType, Fits(ns, n)
  PROVE  /\ ArenaOK(Append(ns, n))
         /\ Append(ns, n)[Len(ns) + 1] = n
         /\ Len(Append(ns, n)) = Len(ns) + 1
  <1>1. ns \in Seq(NodeType)
    BY DEF ArenaOK
  <1>2. \A i \in 1..Len(ns) + 1 : Append(ns, n)[i] = IF i <= Len(ns) THEN ns[i] ELSE n
    BY <1>1, PushProperties, LenProperties
  <1>3. \A i \in 1..Len(ns) + 1 : Fits(Append(ns, n), Append(ns, n)[i])
    BY <1>1, <1>2, FitsGrows, LenProperties DEF ArenaOK
  <1> QED
    BY <1>1, <1>3, PushProperties DEF ArenaOK

(* ... and every waiting frame, whose nodes are still there.                   *)
LEMMA FramesSurviveNode ==
  ASSUME NEW ns, ArenaOK(ns), NEW n \in NodeType, NEW m, NEW s, StackOK(m, ns, s)
  PROVE  StackOK(m, Append(ns, n), s)
  <1>1. ns \in Seq(NodeType)
    BY DEF ArenaOK
  <1>2. ASSUME NEW f, FrameFits(ns, f) PROVE FrameFits(Append(ns, n), f)
    BY <1>1, <1>2, PushProperties, LenProperties DEF FrameFits
  <1> QED
    BY <1>2 DEF StackOK

(* An array taking over a comma list: every place that admits a comma list     *)
(* admits an array.                                                            *)
LEMMA TakeOverList ==
  ASSUME NEW ns, ArenaOK(ns), NEW r \in 1..Len(ns), ns[r].kind = "CommaList",
         NEW a \in Nat, NEW m, NEW s, StackOK(m, ns, s)
  PROVE  LET n == [ns[r] EXCEPT !.kind = "ArrayLit", !.op = "LBrace", !.at = a]
             t == [ns EXCEPT ![r] = n]
         IN /\ ArenaOK(t)
            /\ Len(t) = Len(ns)
            /\ t[r].kind = "ArrayLit"
            /\ StackOK(m, t, s)
  <1> DEFINE n == [ns[r] EXCEPT !.kind = "ArrayLit", !.op = "LBrace", !.at = a]
             t == [ns EXCEPT ![r] = n]
  <1>1. ns \in Seq(NodeType) /\ Len(ns) \in Nat /\ ns[r] \in NodeType
    BY ElementOfSeq, LenProperties DEF ArenaOK
  <1>2. n \in NodeType /\ n.kind = "ArrayLit" /\ n.kids = ns[r].kids
    BY <1>1 DEF NodeType, NodeKinds, OperandKinds, TokenTypes
  <1>3. t \in Seq(NodeType) /\ Len(t) = Len(ns) /\ \A i \in 1..Len(ns) : t[i] = IF i = r THEN n ELSE ns[i]
    <2> HIDE DEF n
    <2> QED
      BY <1>1, <1>2, ExceptSeq
  <1> HIDE DEF n, t
  <1>4. \A i \in 1..Len(ns) : t[i].kind = ns[i].kind \/ (ns[i].kind = "CommaList" /\ t[i].kind = "ArrayLit")
    BY <1>2, <1>3
  <1>5. ASSUME NEW x, Fits(ns, x) PROVE Fits(t, x)
    BY <1>3, <1>4, <1>5 DEF Fits, ChildKinds, AnyKinds, SimpleKinds, OperandKinds, ConditionKinds, HopKinds
  <1>6. Fits(ns, ns[r]) => Fits(ns, n)
    BY <1>2, <1>1 DEF Fits, ChildKinds, ArityOK, NodeType
  <1>7. \A i \in 1..Len(t) : Fits(t, t[i])
    BY <1>3, <1>5, <1>6 DEF ArenaOK
  <1>8. ASSUME NEW f, FrameFits(ns, f) PROVE FrameFits(t, f)
    BY SMTT(30), <1>3, <1>4, <1>8 DEF FrameFits, CollectedKinds, AnyKinds, SimpleKinds, OperandKinds, ConditionKinds, HopKinds
  <1>9. StackOK(m, t, s)
    BY <1>8 DEF StackOK
  <1> QED
    BY <1>2, <1>3, <1>7, <1>9 DEF ArenaOK, n, t

-----------------------------------------------------------------------------
(* The stack: push, replace, pop.                                              *)

(* A stack stays a chain of callers and callees when the callee is pushed,     *)
LEMMA PushFrame ==
  ASSUME NEW n, NEW ns, NEW s, StackOK(n, ns, s),
         NEW f \in FrameType(n), FrameFits(ns, f),
         IF s = <<>> THEN "Expr" \in Runs(f.fn) ELSE Waits(s[Len(s)].fn) \in Runs(f.fn)
  PROVE  LET t == Append(s, f)
         IN StackOK(n, ns, t) /\ t # <<>> /\ t[Len(t)] = f
  <1> DEFINE t == Append(s, f)
  <1>1. s \in Seq(FrameType(n)) /\ Len(s) \in Nat /\ (s = <<>> <=> Len(s) = 0)
    BY LenProperties, EmptySeq DEF StackOK
  <1>2. /\ t \in Seq(FrameType(n))
        /\ t # <<>>
        /\ Len(t) = Len(s) + 1
        /\ \A i \in 1..Len(s) : t[i] = s[i]
        /\ t[Len(s) + 1] = f
    BY <1>1, PushProperties
  <1> HIDE DEF t
  <1>3. Linked(t)
    BY <1>1, <1>2 DEF StackOK, Linked
  <1>4. \A k \in 1..Len(t) : FrameFits(ns, t[k])
    BY <1>1, <1>2 DEF StackOK
  <1> QED
    BY <1>2, <1>3, <1>4 DEF StackOK, t

(* when the top method moves on to its next callee,                            *)
LEMMA ReplaceFrame ==
  ASSUME NEW n, NEW ns, NEW s, StackOK(n, ns, s), s # <<>>,
         NEW f \in FrameType(n), FrameFits(ns, f), Runs(f.fn) = Runs(s[Len(s)].fn)
  PROVE  LET t == [s EXCEPT ![Len(s)] = f]
         IN StackOK(n, ns, t) /\ t # <<>> /\ t[Len(t)] = f
  <1> DEFINE t == [s EXCEPT ![Len(s)] = f]
  <1>1. s \in Seq(FrameType(n)) /\ Len(s) \in Nat \ {0}
    BY LenProperties, EmptySeq DEF StackOK
  <1>2. /\ t \in Seq(FrameType(n))
        /\ t # <<>>
        /\ Len(t) = Len(s)
        /\ \A i \in 1..Len(s) - 1 : t[i] = s[i]
        /\ t[Len(s)] = f
    BY <1>1, ReplaceProperties
  <1> HIDE DEF t
  <1>3. Linked(t)
    <2>1. Linked(s)
      BY DEF StackOK
    <2>2. "Expr" \in Runs(t[1].fn)
      <3>1. CASE Len(s) = 1
        BY <1>1, <1>2, <2>1, <3>1 DEF Linked
      <3>2. CASE Len(s) # 1
        BY <1>1, <1>2, <2>1, <3>2 DEF Linked
      <3> QED
        BY <3>1, <3>2
    <2>3. ASSUME NEW k \in 2..Len(t) PROVE Waits(t[k - 1].fn) \in Runs(t[k].fn)
      <3>1. t[k - 1] = s[k - 1] /\ Waits(s[k - 1].fn) \in Runs(s[k].fn)
        BY <1>1, <1>2, <2>1 DEF Linked
      <3>2. Runs(t[k].fn) = Runs(s[k].fn)
        BY <1>1, <1>2
      <3> QED
        BY <3>1, <3>2
    <2> QED
      BY <2>2, <2>3 DEF Linked
  <1>4. \A k \in 1..Len(t) : FrameFits(ns, t[k])
    BY <1>1, <1>2 DEF StackOK
  <1> QED
    BY <1>2, <1>3, <1>4 DEF StackOK, t

(* and when it returns.                                                        *)
LEMMA PopFrame ==
  ASSUME NEW n, NEW ns, NEW s, StackOK(n, ns, s), s # <<>>
  PROVE  LET t == Front(s)
         IN /\ StackOK(n, ns, t)
            /\ t # <<>> => Waits(t[Len(t)].fn) \in Runs(s[Len(s)].fn)
  <1> DEFINE t == Front(s)
  <1>1. s \in Seq(FrameType(n)) /\ Len(s) \in Nat \ {0}
    BY LenProperties, EmptySeq DEF StackOK
  <1>2. /\ t \in Seq(FrameType(n))
        /\ Len(t) = Len(s) - 1
        /\ \A i \in 1..Len(s) - 1 : t[i] = s[i]
        /\ t = <<>> <=> Len(s) = 1
    BY <1>1, PopProperties
  <1> HIDE DEF t
  <1>3. Linked(t)
    BY <1>1, <1>2 DEF StackOK, Linked
  <1>4. \A k \in 1..Len(t) : FrameFits(ns, t[k])
    BY <1>1, <1>2 DEF StackOK
  <1>5. t # <<>> => Waits(t[Len(t)].fn) \in Runs(s[Len(s)].fn)
    BY <1>1, <1>2 DEF StackOK, Linked
  <1> QED
    BY <1>2, <1>3, <1>4, <1>5 DEF StackOK, t

(* What a method may return to its caller.                                     *)
LEMMA ReturnSuits ==
  ASSUME NEW n, NEW ns, NEW s, StackOK(n, ns, s), s # <<>>,
         NEW k, NEW d \in BOOLEAN,
         s[Len(s)].fn = "Branch" => ~d,
         k = "CommaList" => s[Len(s)].fn = "Branch",
         s[Len(s)].fn = "MemberOf" => k = "MemberOfExpr"
  PROVE  StackOK(n, ns, Front(s)) /\ Suits(k, d, Front(s))
  BY PopFrame DEF Suits, Runs, Waits

-----------------------------------------------------------------------------
(* The five kinds of step.                                                     *)

(* Consuming tokens never leads past the EOF token.                            *)
LEMMA Tokens ==
  ASSUME Inv
  PROVE  /\ toks \in Seq(TokenTypes)
         /\ \A i \in 1..Len(toks) : toks[i] \in TokenTypes
         /\ \A k \in Nat : After(k) \in 1..Len(toks)
  <1>1. toks \in Seq(TokenTypes) /\ toks # <<>>
    BY DEF Inv, StreamFits
  <1>2. Len(toks) \in Nat \ {0} /\ \A i \in 1..Len(toks) : toks[i] \in TokenTypes
    BY <1>1, LenProperties, EmptySeq, ElementOfSeq
  <1> QED
    BY <1>1, <1>2 DEF Inv, After

(* What the invariant says of the waiting method.                              *)
LEMMA TopFrame ==
  ASSUME Inv, stack # <<>>
  PROVE  /\ Top \in FrameType(Len(toks))
         /\ Top.fn \in FrameFns /\ Top.kids \in Seq(Nat) /\ Top.at \in 1..Len(toks)
         /\ FrameFits(nodes, Top)
         /\ Top.at \in Nat /\ toks[Top.at] \in TokenTypes
         /\ Len(Top.kids) \in Nat
         /\ Top.kids = <<>> <=> Len(Top.kids) = 0
  <1>1. stack \in Seq(FrameType(Len(toks))) /\ Len(stack) \in Nat \ {0}
    BY LenProperties, EmptySeq DEF Inv, StackOK
  <1>2. Top \in FrameType(Len(toks)) /\ FrameFits(nodes, Top)
    BY <1>1, ElementOfSeq DEF Top, Inv, StackOK
  <1>3. Top.kids \in Seq(Nat) /\ Top.at \in 1..Len(toks)
    BY <1>2 DEF FrameType
  <1>4. \A i \in 1..Len(toks) : i \in Nat /\ toks[i] \in TokenTypes
    BY Tokens
  <1>5. Top.at \in Nat /\ toks[Top.at] \in TokenTypes
    BY <1>3, <1>4
  <1> QED
    BY <1>2, <1>3, <1>5, LenProperties, EmptySeq DEF FrameType

(* What a waiting method has collected, with the value it has just been given. *)
LEMMA Collect ==
  ASSUME Inv, stack # <<>>, ctl = "Return"
  PROVE  LET k == Append(Top.kids, ret)
         IN /\ ret \in 1..Len(nodes) /\ ret \in Nat
            /\ nodes[ret].kind \in KindsFor(cond)
            /\ k \in Seq(Nat)
            /\ Len(k) = Len(Top.kids) + 1
            /\ k # <<>>
            /\ k[Len(k)] = ret
            /\ \A j \in 1..Len(Top.kids) :
                 k[j] \in 1..Len(nodes) /\ nodes[k[j]].kind \in CollectedKinds(Top.fn, j)
  <1>1. ret \in 1..Len(nodes) /\ nodes[ret].kind \in KindsFor(cond) /\ Len(nodes) \in Nat
    BY LenProperties DEF Inv, ReturnOK, ArenaOK
  <1>2. ret \in Nat
    BY <1>1
  <1>3. Top.kids \in Seq(Nat) /\ Len(Top.kids) \in Nat /\ FrameFits(nodes, Top)
    BY TopFrame
  <1>4. /\ Append(Top.kids, ret) \in Seq(Nat)
        /\ Append(Top.kids, ret) # <<>>
        /\ Len(Append(Top.kids, ret)) = Len(Top.kids) + 1
        /\ \A i \in 1..Len(Top.kids) : Append(Top.kids, ret)[i] = Top.kids[i]
        /\ Append(Top.kids, ret)[Len(Top.kids) + 1] = ret
    BY <1>2, <1>3, PushProperties
  <1> QED
    BY <1>1, <1>2, <1>3, <1>4 DEF FrameFits

(* A method that calls another one preserves the invariant,                    *)
LEMMA PushStep ==
  ASSUME Inv, NEW fn \in FrameFns, NEW at \in 1..Len(toks), NEW c \in Running \ {"Return"},
         Push(fn, <<>>, at), ctl' = c, UNCHANGED <<toks, ret, cond, nodes>>,
         pos' \in 1..Len(toks),
         CollectedOK(fn, 0),
         IF stack = <<>> THEN "Expr" \in Runs(fn) ELSE Waits(Top.fn) \in Runs(fn),
         c = Waits(fn) \/ (c = "Path" /\ fn = "Path")
  PROVE  Inv'
  <1> DEFINE f == Frame(fn, <<>>, at)
  <1>1. f \in FrameType(Len(toks)) /\ f.fn = fn /\ f.kids = <<>>
    BY EmptySeq DEF FrameType, Frame
  <1>2. FrameFits(nodes, f)
    BY <1>1 DEF FrameFits
  <1> HIDE DEF f
  <1>3. stack' = Append(stack, f)
    BY DEF Push, f
  <1>4. StackOK(Len(toks), nodes, stack') /\ stack' # <<>> /\ stack'[Len(stack')] = f
    BY <1>1, <1>2, <1>3, PushFrame DEF Inv, Top
  <1>5. ControlOK(ctl', stack')
    BY <1>1, <1>4 DEF ControlOK
  <1>6. ReturnOK(ctl', stack', ret', cond', nodes')
    BY DEF ReturnOK, Running, Delegates
  <1> QED
    BY <1>4, <1>5, <1>6 DEF Inv, Control

(* so does one that calls again after a callee has returned,                   *)
LEMMA ReplaceStep ==
  ASSUME Inv, stack # <<>>, NEW fn \in FrameFns, NEW kids \in Seq(Nat),
         NEW at \in 1..Len(toks), NEW c \in Running \ {"Return"},
         Replace(fn, kids, at), ctl' = c, UNCHANGED <<toks, ret, cond, nodes>>,
         pos' \in 1..Len(toks),
         FrameFits(nodes, Frame(fn, kids, at)),
         Runs(fn) = Runs(Top.fn),
         c = Waits(fn) \/ (c = "Path" /\ fn = "Path")
  PROVE  Inv'
  <1> DEFINE f == Frame(fn, kids, at)
  <1>1. f \in FrameType(Len(toks)) /\ f.fn = fn
    BY DEF FrameType, Frame
  <1>2. FrameFits(nodes, f)
    OBVIOUS
  <1>3. stack' = [stack EXCEPT ![Len(stack)] = f]
    BY DEF Replace
  <1> HIDE DEF f
  <1>4. StackOK(Len(toks), nodes, stack') /\ stack' # <<>> /\ stack'[Len(stack')] = f
    <2>1. StackOK(Len(toks), nodes, stack)
      BY DEF Inv
    <2>2. Runs(f.fn) = Runs(stack[Len(stack)].fn)
      BY <1>1 DEF Top
    <2>3. LET u == [stack EXCEPT ![Len(stack)] = f]
          IN StackOK(Len(toks), nodes, u) /\ u # <<>> /\ u[Len(u)] = f
      BY <1>1, <1>2, <2>1, <2>2, ReplaceFrame
    <2> QED
      BY <1>3, <2>3
  <1>5. ControlOK(ctl', stack')
    BY <1>1, <1>4 DEF ControlOK
  <1>6. ReturnOK(ctl', stack', ret', cond', nodes')
    BY DEF ReturnOK, Running, Delegates
  <1> QED
    BY <1>4, <1>5, <1>6 DEF Inv, Control

(* one that returns its callee's result,                                       *)
LEMMA PassStep ==
  ASSUME Inv, stack # <<>>, ctl = "Return", Pass, Pop, toks' = toks, pos' \in 1..Len(toks),
         Top.fn = "Branch" => ~cond,
         Waits(Top.fn) = "Branch" => Top.fn = "Branch",
         Top.fn # "MemberOf"
  PROVE  Inv'
  <1>1. ReturnOK(ctl, stack, ret, cond, nodes) /\ cond \in BOOLEAN
    BY DEF Inv
  <1>2. nodes[ret].kind = "CommaList" => Top.fn = "Branch"
    BY <1>1 DEF ReturnOK, Suits, Top
  <1>3. StackOK(Len(toks), nodes, Front(stack)) /\ Suits(nodes[ret].kind, cond, Front(stack))
    BY <1>1, <1>2, ReturnSuits DEF Inv, Top
  <1>4. stack' = Front(stack) /\ ctl' = "Return" /\ UNCHANGED <<ret, cond, nodes>>
    BY DEF Pop, Pass
  <1>5. ReturnOK(ctl', stack', ret', cond', nodes')
    BY <1>1, <1>3, <1>4 DEF ReturnOK
  <1>6. ControlOK(ctl', stack')
    BY <1>4 DEF ControlOK
  <1> QED
    BY <1>3, <1>4, <1>5, <1>6 DEF Inv, Control, Running

(* and one that returns a node of its own,                                     *)
LEMMA BuildStep ==
  ASSUME Inv, NEW kind \in NodeKinds, NEW op \in TokenTypes, NEW kids \in Seq(Nat),
         NEW at \in Nat, NEW d \in BOOLEAN, Build(kind, op, kids, at, d),
         kind \in KindsFor(d), ArityOK(kind, Len(kids)),
         \A j \in 1..Len(kids) :
           kids[j] \in 1..Len(nodes) /\ nodes[kids[j]].kind \in ChildKinds(kind, j)
  PROVE  /\ ArenaOK(nodes')
         /\ StackOK(Len(toks), nodes', stack)
         /\ ret' \in 1..Len(nodes')
         /\ nodes'[ret'].kind = kind
         /\ cond' = d
         /\ ctl' = "Return"
  <1> DEFINE n == [kind |-> kind, op |-> op, kids |-> kids, at |-> at]
  <1>1. n \in NodeType /\ n.kind = kind /\ n.kids = kids
    BY DEF NodeType
  <1>2. Fits(nodes, n)
    BY <1>1 DEF Fits
  <1>3. nodes' = Append(nodes, n) /\ ret' = Len(nodes) + 1 /\ cond' = d /\ ctl' = "Return"
    BY DEF Build
  <1> HIDE DEF n
  <1>4. ArenaOK(nodes') /\ nodes'[Len(nodes) + 1] = n /\ Len(nodes') = Len(nodes) + 1
    BY <1>1, <1>2, <1>3, AddNode DEF Inv
  <1>5. Len(nodes) \in Nat
    BY LenProperties DEF Inv, ArenaOK
  <1>6. StackOK(Len(toks), nodes', stack)
    BY <1>1, <1>3, FramesSurviveNode DEF Inv
  <1> QED
    BY <1>1, <1>3, <1>4, <1>5, <1>6

(* also when it was waiting for a callee.                                      *)
LEMMA BuildPopStep ==
  ASSUME Inv, stack # <<>>, NEW kind \in NodeKinds, NEW op \in TokenTypes,
         NEW kids \in Seq(Nat), NEW at \in Nat, NEW d \in BOOLEAN,
         Build(kind, op, kids, at, d), Pop, toks' = toks, pos' \in 1..Len(toks),
         kind \in KindsFor(d), ArityOK(kind, Len(kids)),
         \A j \in 1..Len(kids) :
           kids[j] \in 1..Len(nodes) /\ nodes[kids[j]].kind \in ChildKinds(kind, j),
         Top.fn = "Branch" => ~d,
         kind = "CommaList" => Top.fn = "Branch",
         Top.fn = "MemberOf" => kind = "MemberOfExpr"
  PROVE  Inv'
  <1>1. /\ ArenaOK(nodes')
        /\ StackOK(Len(toks), nodes', stack)
        /\ ret' \in 1..Len(nodes')
        /\ nodes'[ret'].kind = kind
        /\ cond' = d
        /\ ctl' = "Return"
    BY BuildStep
  <1>2. stack' = Front(stack)
    BY DEF Pop
  <1>3. StackOK(Len(toks), nodes', stack') /\ Suits(kind, d, stack')
    BY <1>1, <1>2, ReturnSuits DEF Top
  <1>4. ReturnOK(ctl', stack', ret', cond', nodes') /\ ControlOK(ctl', stack')
    BY <1>1, <1>3 DEF ReturnOK, ControlOK
  <1>5. Len(nodes') \in Nat
    BY <1>1, LenProperties DEF ArenaOK
  <1> QED
    BY <1>1, <1>3, <1>4, <1>5 DEF Inv, Control, Running

-----------------------------------------------------------------------------
(* The actions, by kind.                                                       *)

(* Nothing but parsePathChain waits for parseMemberOf.                         *)
LEMMA WaitsRange ==
  ASSUME NEW fn \in FrameFns
  PROVE  /\ Waits(fn) \in {"Expr", "Or", "And", "Not", "Additive", "Atom", "Branch", "MemberOf"}
         /\ Waits(fn) = "MemberOf" <=> fn = "Path"
  BY DEF FrameFns, Delegates, Waits, Callee

(* A list of one node index.                                                   *)
LEMMA Singleton ==
  ASSUME NEW n \in Nat
  PROVE  <<n>> \in Seq(Nat) /\ Len(<<n>>) = 1 /\ <<n>>[1] = n
  OBVIOUS

(* A method starts with a frame waiting below it: which one, ControlOK knows.  *)
LEMMA Entering ==
  ASSUME Inv, Descend \/ Negation \/ Parenthesis \/ OpenArray \/ OpenClassCall
              \/ OpenMemberOf \/ StartPath \/ MemberOfHop
  PROVE  Inv'
  <1> USE Tokens
  <1>0. pos \in 1..Len(toks) /\ ControlOK(ctl, stack)
    BY DEF Inv
  <1>1. CASE Descend
    <2>1. ctl \in Delegates /\ Push(ctl, <<>>, pos) /\ ctl' = Callee(ctl)
          /\ UNCHANGED <<toks, pos, ret, cond, nodes>>
      BY <1>1 DEF Descend, Start
    <2>2. IF stack = <<>> THEN "Expr" \in Runs(ctl) ELSE Waits(Top.fn) \in Runs(ctl)
      <3>1. CASE stack = <<>>
        BY <1>0, <2>1, <3>1 DEF ControlOK, Delegates, Running, Runs
      <3>2. CASE stack # <<>>
        <4>1. Top.fn \in FrameFns
          BY <3>2, TopFrame
        <4>2. Waits(Top.fn) # "Comparison"
          BY <4>1, WaitsRange
        <4>3. ctl = Waits(Top.fn) \/ (ctl = "Comparison" /\ Waits(Top.fn) = "Not")
          BY <1>0, <2>1, <3>2 DEF ControlOK, Delegates, Running, Top
        <4> QED
          BY <2>1, <3>2, <4>2, <4>3 DEF Delegates, Runs
      <3> QED
        BY <3>1, <3>2
    <2>3. Callee(ctl) = Waits(ctl) /\ Callee(ctl) \in Running \ {"Return"} /\ CollectedOK(ctl, 0)
          /\ ctl \in FrameFns
      BY <2>1 DEF Delegates, Waits, Callee, Running, CollectedOK, FrameFns
    <2> QED
      BY <1>0, <2>1, <2>2, <2>3, PushStep
  <1>2. CASE Negation
    <2>1. ctl = "Not" /\ toks' = toks
      BY <1>2 DEF Negation
    <2>2. stack # <<>> /\ Waits(Top.fn) = "Not"
      BY <1>0, <2>1 DEF ControlOK, Running, Top
    <2>3. CASE Peek = "Not"
      <3>1. Push("Not", <<>>, pos) /\ ctl' = "Not" /\ UNCHANGED <<ret, cond, nodes>> /\ pos' = After(1)
        BY <1>2, <2>3 DEF Negation, Start, Consume
      <3>9. /\ "Not" \in FrameFns
            /\ "Not" \in Running \ {"Return"}
            /\ "Not" = Waits("Not")
            /\ CollectedOK("Not", 0)
            /\ "Not" \in Runs("Not")
        BY DEF FrameFns, Running, Delegates, Runs, Waits, Callee, CollectedOK
      <3> QED
        BY <1>0, <2>1, <2>2, <3>1, <3>9, PushStep
    <2>4. CASE Peek # "Not"
      <3>1. ctl' = "Comparison" /\ UNCHANGED <<pos, stack, ret, cond, nodes>>
        BY <1>2, <2>4 DEF Negation, Start
      <3>2. ControlOK(ctl', stack')
        BY <2>2, <3>1 DEF ControlOK, Top
      <3>3. ReturnOK(ctl', stack', ret', cond', nodes')
        BY <3>1 DEF ReturnOK
      <3> QED
        BY <2>1, <3>1, <3>2, <3>3 DEF Inv, Control, Running, Delegates
    <2> QED
      BY <2>3, <2>4
  <1>3. ctl = "Atom" => stack # <<>> /\ Waits(Top.fn) = "Atom"
    BY <1>0 DEF ControlOK, Running, Top
  <1>4. CASE Parenthesis
    <2>1. ctl = "Atom" /\ Push("Paren", <<>>, pos) /\ ctl' = "Expr" /\ pos' = After(1)
          /\ UNCHANGED <<toks, ret, cond, nodes>>
      BY <1>4 DEF Parenthesis, Start, Consume
    <2>9. /\ "Paren" \in FrameFns
          /\ "Expr" \in Running \ {"Return"}
          /\ "Expr" = Waits("Paren")
          /\ CollectedOK("Paren", 0)
          /\ "Atom" \in Runs("Paren")
      BY DEF FrameFns, Running, Delegates, Runs, Waits, Callee, CollectedOK
    <2> QED
      BY <1>0, <1>3, <2>1, <2>9, PushStep
  <1>5. CASE OpenArray
    <2>1. ctl = "Atom" /\ Push("Array", <<>>, pos) /\ ctl' = "Branch" /\ pos' = After(1)
          /\ UNCHANGED <<toks, ret, cond, nodes>>
      BY <1>5 DEF OpenArray, Start, Consume
    <2>9. /\ "Array" \in FrameFns
          /\ "Branch" \in Running \ {"Return"}
          /\ "Branch" = Waits("Array")
          /\ CollectedOK("Array", 0)
          /\ "Atom" \in Runs("Array")
      BY DEF FrameFns, Running, Delegates, Runs, Waits, Callee, CollectedOK
    <2> QED
      BY <1>0, <1>3, <2>1, <2>9, PushStep
  <1>6. CASE OpenClassCall
    <2>1. ctl = "Atom" /\ Push("ClassCall", <<>>, pos) /\ ctl' = "Branch" /\ pos' = After(4)
          /\ UNCHANGED <<toks, ret, cond, nodes>>
      BY <1>6 DEF OpenClassCall, Start, Consume
    <2>9. /\ "ClassCall" \in FrameFns
          /\ "Branch" \in Running \ {"Return"}
          /\ "Branch" = Waits("ClassCall")
          /\ CollectedOK("ClassCall", 0)
          /\ "Atom" \in Runs("ClassCall")
      BY DEF FrameFns, Running, Delegates, Runs, Waits, Callee, CollectedOK
    <2> QED
      BY <1>0, <1>3, <2>1, <2>9, PushStep
  <1>7. CASE OpenMemberOf
    <2>1. ctl = "Atom" /\ Push("MemberOf", <<>>, pos) /\ ctl' = "Branch" /\ pos' = After(2)
          /\ UNCHANGED <<toks, ret, cond, nodes>>
      BY <1>7 DEF OpenMemberOf, Start, Consume
    <2>9. /\ "MemberOf" \in FrameFns
          /\ "Branch" \in Running \ {"Return"}
          /\ "Branch" = Waits("MemberOf")
          /\ CollectedOK("MemberOf", 0)
          /\ "Atom" \in Runs("MemberOf")
      BY DEF FrameFns, Running, Delegates, Runs, Waits, Callee, CollectedOK
    <2> QED
      BY <1>0, <1>3, <2>1, <2>9, PushStep
  <1>8. CASE StartPath
    <2>1. ctl = "Atom" /\ Push("Path", <<>>, pos) /\ ctl' = "Path" /\ pos' = After(1)
          /\ UNCHANGED <<toks, ret, cond, nodes>>
      BY <1>8 DEF StartPath, Start, Consume
    <2>9. /\ "Path" \in FrameFns
          /\ "Path" \in Running \ {"Return"}
          /\ CollectedOK("Path", 0)
          /\ "Atom" \in Runs("Path")
      BY DEF FrameFns, Running, Delegates, Runs, CollectedOK
    <2> QED
      BY <1>0, <1>3, <2>1, <2>9, PushStep
  <1>9. CASE MemberOfHop
    <2>1. ctl = "Path" /\ Push("MemberOf", <<>>, pos + 1) /\ ctl' = "Branch" /\ pos' = After(3)
          /\ UNCHANGED <<toks, ret, cond, nodes>> /\ Peek = "Dot"
      BY <1>9 DEF MemberOfHop, Start, Consume
    <2>2. stack # <<>> /\ Top.fn = "Path"
      <3>1. stack # <<>> /\ (ctl = Waits(Top.fn) \/ Top.fn = "Path")
        BY <1>0, <2>1 DEF ControlOK, Running, Top
      <3> QED
        BY <2>1, <3>1, TopFrame, WaitsRange
    <2>3. pos + 1 \in 1..Len(toks)
      <3>1. StreamFits(toks) /\ Len(toks) \in Nat
        BY LenProperties DEF Inv, StreamFits
      <3>2. pos # Len(toks)
        BY <1>0, <2>1, <3>1 DEF Peek, StreamFits
      <3> QED
        BY <1>0, <3>1, <3>2
    <2>9. /\ "MemberOf" \in FrameFns
          /\ "Branch" \in Running \ {"Return"}
          /\ "Branch" = Waits("MemberOf")
          /\ CollectedOK("MemberOf", 0)
          /\ Waits("Path") \in Runs("MemberOf")
      BY DEF FrameFns, Running, Delegates, Runs, Waits, Callee, CollectedOK
    <2> QED
      BY <2>1, <2>2, <2>3, <2>9, PushStep
  <1> QED
    BY <1>1, <1>2, <1>4, <1>5, <1>6, <1>7, <1>8, <1>9

(* A method goes on in its own frame, with what it has been given added.       *)
LEMMA Continuing ==
  ASSUME Inv, ctl = "Return", stack # <<>>,
         \/ ExprDone /\ Peek = "Question"
         \/ TrueBranchDone \/ BranchItemDone \/ LeftDone \/ NextTerm \/ HopDone
         \/ \E fn \in {"Or", "And"} : ChainOperandDone(fn)
  PROVE  Inv'
  <1> USE Tokens
  <1> DEFINE k == Append(Top.kids, ret)
             one == <<ret>>
  <1>1. /\ ret \in 1..Len(nodes) /\ ret \in Nat
        /\ nodes[ret].kind \in KindsFor(cond)
        /\ k \in Seq(Nat)
        /\ Len(k) = Len(Top.kids) + 1
        /\ k # <<>>
        /\ k[Len(k)] = ret
        /\ \A j \in 1..Len(Top.kids) :
             k[j] \in 1..Len(nodes) /\ nodes[k[j]].kind \in CollectedKinds(Top.fn, j)
    BY Collect
  <1> HIDE DEF k
  <1>2. /\ Top.at \in 1..Len(toks) /\ Top.fn \in FrameFns /\ FrameFits(nodes, Top)
        /\ Len(Top.kids) \in Nat /\ (Top.kids = <<>> <=> Len(Top.kids) = 0)
    BY TopFrame
  <1>3. pos \in 1..Len(toks) /\ Suits(nodes[ret].kind, cond, stack) /\ cond \in BOOLEAN
    BY DEF Inv, ReturnOK
  <1>4. /\ Waits(Top.fn) = "Branch" => ~cond
        /\ nodes[ret].kind = "CommaList" => Waits(Top.fn) = "Branch"
        /\ Top.fn = "Path" => nodes[ret].kind = "MemberOfExpr"
    BY <1>3 DEF Suits, Top
  <1>5. /\ ~cond => nodes[ret].kind \in OperandKinds
        /\ Waits(Top.fn) # "Branch" => nodes[ret].kind \in AnyKinds
        /\ Waits(Top.fn) # "Branch" /\ ~cond => nodes[ret].kind \in SimpleKinds
    BY <1>1, <1>4 DEF KindsFor, AnyKinds, SimpleKinds
  <1>6. ASSUME NEW fn \in FrameFns, CollectedOK(fn, 1), nodes[ret].kind \in CollectedKinds(fn, 1),
               NEW at \in 1..Len(toks)
        PROVE  one \in Seq(Nat) /\ FrameFits(nodes, Frame(fn, one, at))
    <2>1. one \in Seq(Nat) /\ Len(one) = 1 /\ one[1] = ret
      <3>1. ret \in Nat
        BY <1>1
      <3> QED
        BY <3>1, Singleton DEF one
    <2> HIDE DEF one
    <2>2. Frame(fn, one, at).fn = fn /\ Frame(fn, one, at).kids = one
      BY DEF Frame
    <2>3. ASSUME NEW j \in 1..Len(one)
          PROVE  one[j] \in 1..Len(nodes) /\ nodes[one[j]].kind \in CollectedKinds(fn, j)
      <3>1. j = 1
        BY <2>1
      <3> QED
        BY <1>1, <1>6, <2>1, <3>1
    <2> QED
      BY <1>6, <2>1, <2>2, <2>3 DEF FrameFits
  <1>7. ASSUME NEW fn \in FrameFns, CollectedOK(fn, Len(k)),
               nodes[ret].kind \in CollectedKinds(fn, Len(k)),
               \A j \in 1..Len(Top.kids) : CollectedKinds(Top.fn, j) \subseteq CollectedKinds(fn, j)
        PROVE  FrameFits(nodes, Frame(fn, k, Top.at))
    <2>1. ASSUME NEW j \in 1..Len(k)
          PROVE  k[j] \in 1..Len(nodes) /\ nodes[k[j]].kind \in CollectedKinds(fn, j)
      <3>1. CASE j = Len(k)
        BY <1>1, <1>7, <3>1
      <3>2. CASE j # Len(k)
        <4>1. Len(k) = Len(Top.kids) + 1 /\ Len(Top.kids) \in Nat
          BY <1>1, <1>2
        <4>2. j \in 1..Len(Top.kids)
          BY <3>2, <4>1
        <4> QED
          BY <1>1, <1>7, <4>2
      <3> QED
        BY <3>1, <3>2
    <2> QED
      BY <1>7, <2>1 DEF FrameFits, Frame
  <1> HIDE DEF one
  <1>8. CASE ExprDone /\ Peek = "Question"
    <2>1. Top.fn = "Expr" /\ Replace("TrueBranch", one, Top.at) /\ ctl' = "Branch"
          /\ pos' = After(1) /\ UNCHANGED <<toks, ret, cond, nodes>>
      BY <1>8 DEF ExprDone, Awaiting, Start, Consume, one
    <2>2. nodes[ret].kind \in AnyKinds
      BY <1>5, <2>1 DEF Waits, Callee
    <2>3. /\ "TrueBranch" \in FrameFns /\ CollectedOK("TrueBranch", 1)
          /\ CollectedKinds("TrueBranch", 1) = AnyKinds
      BY DEF CollectedOK, CollectedKinds, FrameFns
    <2>4. FrameFits(nodes, Frame("TrueBranch", one, Top.at)) /\ one \in Seq(Nat)
      BY <1>2, <1>6, <2>2, <2>3
    <2>9. /\ "TrueBranch" \in FrameFns
          /\ "Branch" \in Running \ {"Return"}
          /\ "Branch" = Waits("TrueBranch")
          /\ Runs("TrueBranch") = Runs("Expr")
      BY DEF FrameFns, Running, Delegates, Runs, Waits, Callee
    <2> QED
      BY <1>2, <2>1, <2>4, <2>9, ReplaceStep
  <1>9. CASE TrueBranchDone
    <2>1. Top.fn = "TrueBranch" /\ Replace("FalseBranch", k, Top.at) /\ ctl' = "Branch"
          /\ pos' = After(1) /\ UNCHANGED <<toks, ret, cond, nodes>>
      BY <1>9 DEF TrueBranchDone, Awaiting, Start, Consume, k
    <2>2. Len(Top.kids) = 1 /\ Len(k) = 2 /\ nodes[ret].kind \in OperandKinds
      <3>1. CollectedOK("TrueBranch", Len(Top.kids))
        BY <1>2, <2>1 DEF FrameFits
      <3>2. Len(Top.kids) = 1
        BY <3>1 DEF CollectedOK
      <3>3. nodes[ret].kind \in OperandKinds
        BY <1>4, <1>5, <2>1 DEF Waits
      <3> QED
        BY <1>1, <3>2, <3>3
    <2>3. FrameFits(nodes, Frame("FalseBranch", k, Top.at))
      BY <1>7, <2>1, <2>2 DEF CollectedOK, CollectedKinds, FrameFns
    <2>9. /\ "FalseBranch" \in FrameFns
          /\ "Branch" \in Running \ {"Return"}
          /\ "Branch" = Waits("FalseBranch")
          /\ Runs("FalseBranch") = Runs("TrueBranch")
      BY DEF FrameFns, Running, Delegates, Runs, Waits, Callee
    <2> QED
      BY <1>1, <1>2, <2>1, <2>3, <2>9, ReplaceStep
  <1>10. CASE BranchItemDone
    <2>1. Top.fn = "Branch" /\ ~cond /\ Replace("Branch", k, Top.at) /\ ctl' = "Expr"
          /\ pos' = After(1) /\ UNCHANGED <<toks, ret, cond, nodes>>
      BY <1>10 DEF BranchItemDone, Awaiting, Start, Consume, k
    <2>2. nodes[ret].kind \in SimpleKinds
      BY <1>5, <2>1 DEF Waits, Callee
    <2>3. FrameFits(nodes, Frame("Branch", k, Top.at))
      BY <1>7, <2>1, <2>2 DEF CollectedOK, CollectedKinds, FrameFns, Delegates
    <2>9. /\ "Branch" \in FrameFns
          /\ "Expr" \in Running \ {"Return"}
          /\ "Expr" = Waits("Branch")
      BY DEF FrameFns, Running, Delegates, Runs, Waits, Callee
    <2> QED
      BY <1>1, <1>2, <2>1, <2>3, <2>9, ReplaceStep
  <1>11. ASSUME NEW fn \in {"Or", "And"}, ChainOperandDone(fn) PROVE Inv'
    <2>1. Top.fn = fn /\ Replace(fn, k, Top.at) /\ ctl' = Callee(fn)
          /\ pos' = After(1) /\ UNCHANGED <<toks, ret, cond, nodes>>
      BY <1>11 DEF ChainOperandDone, Awaiting, Start, Consume, k
    <2>2. nodes[ret].kind \in AnyKinds /\ fn \in FrameFns
      BY <1>5, <2>1 DEF Waits, Callee, FrameFns, Delegates
    <2>3. FrameFits(nodes, Frame(fn, k, Top.at))
      BY <1>7, <2>1, <2>2 DEF CollectedOK, CollectedKinds
    <2>4. Callee(fn) = Waits(fn) /\ Callee(fn) \in Running \ {"Return"}
      BY DEF Waits, Callee, Running, Delegates
    <2> QED
      BY <1>1, <1>2, <2>1, <2>2, <2>3, <2>4, ReplaceStep
  <1>12. CASE LeftDone
    <2>1. Top.fn = "Comparison" /\ ~cond /\ Replace("Comparison", one, pos) /\ ctl' = "Additive"
          /\ pos' = After(1) /\ UNCHANGED <<toks, ret, cond, nodes>>
      BY <1>12 DEF LeftDone, Awaiting, Start, Consume, one
    <2>2. nodes[ret].kind \in SimpleKinds
      BY <1>5, <2>1 DEF Waits, Callee
    <2>3. FrameFits(nodes, Frame("Comparison", one, pos)) /\ one \in Seq(Nat)
      BY <1>3, <1>6, <2>2 DEF CollectedOK, CollectedKinds, FrameFns, Delegates
    <2>9. /\ "Comparison" \in FrameFns
          /\ "Additive" \in Running \ {"Return"}
          /\ "Additive" = Waits("Comparison")
      BY DEF FrameFns, Running, Delegates, Runs, Waits, Callee
    <2> QED
      BY <1>3, <2>1, <2>3, <2>9, ReplaceStep
  <1>13. CASE NextTerm
    <2>1. Top.fn = "Additive" /\ ~cond /\ Replace("Additive", one, pos) /\ ctl' = "Atom"
          /\ pos' = After(1) /\ UNCHANGED <<toks, ret, cond, nodes>>
      BY <1>13 DEF NextTerm, Awaiting, Start, Consume, one
    <2>2. nodes[ret].kind \in SimpleKinds
      BY <1>5, <2>1 DEF Waits, Callee
    <2>3. FrameFits(nodes, Frame("Additive", one, pos)) /\ one \in Seq(Nat)
      BY <1>3, <1>6, <2>2 DEF CollectedOK, CollectedKinds, FrameFns, Delegates
    <2>9. /\ "Additive" \in FrameFns
          /\ "Atom" \in Running \ {"Return"}
          /\ "Atom" = Waits("Additive")
      BY DEF FrameFns, Running, Delegates, Runs, Waits, Callee
    <2> QED
      BY <1>3, <2>1, <2>3, <2>9, ReplaceStep
  <1>14. CASE HopDone
    <2>1. Top.fn = "Path" /\ Replace("Path", k, Top.at) /\ ctl' = "Path"
          /\ UNCHANGED <<toks, pos, ret, cond, nodes>>
      BY <1>14 DEF HopDone, Awaiting, Start, k
    <2>2. nodes[ret].kind \in HopKinds
      BY <1>4, <2>1 DEF HopKinds
    <2>3. FrameFits(nodes, Frame("Path", k, Top.at))
      BY <1>7, <2>1, <2>2 DEF CollectedOK, CollectedKinds, FrameFns
    <2>9. /\ "Path" \in FrameFns
          /\ "Path" \in Running \ {"Return"}
      BY DEF FrameFns, Running, Delegates, Runs
    <2> QED
      BY <1>1, <1>2, <1>3, <2>1, <2>3, <2>9, ReplaceStep
  <1> QED
    BY <1>8, <1>9, <1>10, <1>11, <1>12, <1>13, <1>14

(* A method returns its callee's result as it is.                              *)
LEMMA Passing ==
  ASSUME Inv, ctl = "Return", stack # <<>>,
         \/ ExprDone /\ Peek # "Question"
         \/ BranchDone /\ Top.kids = <<>>
         \/ \E fn \in {"Or", "And"} : ChainDone(fn) /\ Top.kids = <<>>
         \/ NoComparison \/ NoTerm \/ CloseParen
  PROVE  Inv'
  <1>1. /\ Pass /\ Pop /\ toks' = toks
        /\ pos' = pos \/ pos' = After(1)
        /\ Top.fn \in {"Expr", "Branch", "Or", "And", "Comparison", "Additive", "Paren"}
        /\ Top.fn = "Branch" => ~cond
    BY DEF ExprDone, BranchDone, ChainDone, NoComparison, NoTerm, CloseParen, Awaiting, Consume
  <1>2. pos' \in 1..Len(toks)
    BY <1>1, Tokens DEF Inv
  <1>3. Waits(Top.fn) = "Branch" => Top.fn = "Branch"
    BY <1>1 DEF Waits, Callee
  <1> QED
    BY <1>1, <1>2, <1>3, PassStep

(* A method turns what it has collected into a node and returns it.            *)
LEMMA Building ==
  ASSUME Inv, ctl = "Return", stack # <<>>,
         \/ FalseBranchDone
         \/ BranchDone /\ Top.kids # <<>>
         \/ \E fn \in {"Or", "And"} : ChainDone(fn) /\ Top.kids # <<>>
         \/ NotDone \/ RightDone \/ CloseClassCall \/ CloseMemberOf
  PROVE  Inv'
  <1> DEFINE k == Append(Top.kids, ret)
             one == <<ret>>
  <1>1. /\ ret \in 1..Len(nodes) /\ ret \in Nat
        /\ nodes[ret].kind \in KindsFor(cond)
        /\ k \in Seq(Nat)
        /\ Len(k) = Len(Top.kids) + 1
        /\ k # <<>>
        /\ k[Len(k)] = ret
        /\ \A j \in 1..Len(Top.kids) :
             k[j] \in 1..Len(nodes) /\ nodes[k[j]].kind \in CollectedKinds(Top.fn, j)
    BY Collect
  <1>2. one \in Seq(Nat) /\ Len(one) = 1 /\ one[1] = ret
    <2>1. ret \in Nat
      BY <1>1
    <2> QED
      BY <2>1, Singleton
  <1> HIDE DEF k, one
  <1>3. /\ Top.at \in 1..Len(toks) /\ Top.at \in Nat /\ toks[Top.at] \in TokenTypes
        /\ CollectedOK(Top.fn, Len(Top.kids))
        /\ Len(Top.kids) \in Nat /\ (Top.kids = <<>> <=> Len(Top.kids) = 0)
    BY TopFrame DEF FrameFits
  <1>4. pos \in 1..Len(toks) /\ Suits(nodes[ret].kind, cond, stack)
    BY DEF Inv, ReturnOK
  <1>5. /\ Waits(Top.fn) = "Branch" => ~cond
        /\ nodes[ret].kind = "CommaList" => Waits(Top.fn) = "Branch"
    BY <1>4 DEF Suits, Top
  <1>6. /\ ~cond => nodes[ret].kind \in OperandKinds
        /\ Waits(Top.fn) # "Branch" => nodes[ret].kind \in AnyKinds
        /\ Waits(Top.fn) # "Branch" /\ ~cond => nodes[ret].kind \in SimpleKinds
    BY <1>1, <1>5 DEF KindsFor, AnyKinds, SimpleKinds
  <1>7. ASSUME NEW kind, nodes[ret].kind \in ChildKinds(kind, Len(k)),
               \A j \in 1..Len(Top.kids) : CollectedKinds(Top.fn, j) \subseteq ChildKinds(kind, j)
        PROVE  \A j \in 1..Len(k) :
                 k[j] \in 1..Len(nodes) /\ nodes[k[j]].kind \in ChildKinds(kind, j)
    <2> SUFFICES ASSUME NEW j \in 1..Len(k)
                 PROVE  k[j] \in 1..Len(nodes) /\ nodes[k[j]].kind \in ChildKinds(kind, j)
      OBVIOUS
    <2>1. CASE j = Len(k)
      BY <1>1, <1>7, <2>1
    <2>2. CASE j # Len(k)
      <3>1. Len(k) = Len(Top.kids) + 1 /\ Len(Top.kids) \in Nat
        BY <1>1, <1>3
      <3>2. j \in 1..Len(Top.kids)
        BY <2>2, <3>1
      <3> QED
        BY <1>1, <1>7, <3>2
    <2> QED
      BY <2>1, <2>2
  <1>8. ASSUME NEW kind, nodes[ret].kind \in ChildKinds(kind, 1)
        PROVE  \A j \in 1..Len(one) :
                 one[j] \in 1..Len(nodes) /\ nodes[one[j]].kind \in ChildKinds(kind, j)
    <2> SUFFICES ASSUME NEW j \in 1..Len(one)
                 PROVE  one[j] \in 1..Len(nodes) /\ nodes[one[j]].kind \in ChildKinds(kind, j)
      OBVIOUS
    <2>1. j = 1
      BY <1>2
    <2> QED
      BY <1>1, <1>2, <1>8, <2>1
  <1>9. CASE FalseBranchDone
    <2>1. Top.fn = "FalseBranch" /\ Build("Ternary", "Question", k, Top.at, FALSE) /\ Pop
          /\ UNCHANGED <<toks, pos>>
      BY <1>9 DEF FalseBranchDone, Awaiting, k
    <2>2. Len(k) = 3 /\ Len(Top.kids) = 2
      <3>1. CollectedOK("FalseBranch", Len(Top.kids))
        BY <1>3, <2>1
      <3>2. Len(Top.kids) = 2
        BY <3>1 DEF CollectedOK
      <3> QED
        BY <1>1, <3>2
    <2>3. nodes[ret].kind \in ChildKinds("Ternary", 3)
      BY <1>5, <1>6, <2>1 DEF Waits, ChildKinds
    <2>4. \A j \in 1..2 : CollectedKinds("FalseBranch", j) \subseteq ChildKinds("Ternary", j)
      BY DEF CollectedKinds, ChildKinds
    <2>5. \A j \in 1..Len(k) : k[j] \in 1..Len(nodes) /\ nodes[k[j]].kind \in ChildKinds("Ternary", j)
      BY <1>7, <2>1, <2>2, <2>3, <2>4
    <2>6. /\ "Ternary" \in NodeKinds /\ "Question" \in TokenTypes /\ "Ternary" \in KindsFor(FALSE)
          /\ ArityOK("Ternary", 3)
      BY DEF NodeKinds, OperandKinds, TokenTypes, KindsFor, ArityOK
    <2> QED
      BY <1>1, <1>3, <1>4, <2>1, <2>2, <2>5, <2>6, BuildPopStep
  <1>10. CASE BranchDone /\ Top.kids # <<>>
    <2>1. Top.fn = "Branch" /\ ~cond /\ Build("CommaList", "Comma", k, Top.at, FALSE) /\ Pop
          /\ UNCHANGED <<toks, pos>>
      BY <1>10 DEF BranchDone, Awaiting, k
    <2>2. Len(k) >= 2 /\ Len(k) \in Nat
      BY <1>1, <1>3, <1>10
    <2>3. nodes[ret].kind \in ChildKinds("CommaList", Len(k))
      BY <1>6, <2>1 DEF Waits, Callee, ChildKinds
    <2>4. \A j \in Nat : CollectedKinds("Branch", j) \subseteq ChildKinds("CommaList", j)
      BY DEF CollectedKinds, ChildKinds
    <2>5. \A j \in 1..Len(k) : k[j] \in 1..Len(nodes) /\ nodes[k[j]].kind \in ChildKinds("CommaList", j)
      BY <1>7, <2>1, <2>3, <2>4
    <2>6. /\ "CommaList" \in NodeKinds /\ "Comma" \in TokenTypes /\ "CommaList" \in KindsFor(FALSE)
          /\ ArityOK("CommaList", Len(k))
      BY <2>2 DEF NodeKinds, OperandKinds, TokenTypes, KindsFor, ArityOK
    <2> QED
      BY <1>1, <1>3, <1>4, <2>1, <2>5, <2>6, BuildPopStep
  <1>11. ASSUME NEW fn \in {"Or", "And"}, ChainDone(fn), Top.kids # <<>> PROVE Inv'
    <2>1. Top.fn = fn /\ Build("Logical", fn, k, Top.at, TRUE) /\ Pop /\ UNCHANGED <<toks, pos>>
      BY <1>11 DEF ChainDone, Awaiting, k
    <2>2. Len(k) >= 2 /\ Len(k) \in Nat
      BY <1>1, <1>3, <1>11
    <2>3. nodes[ret].kind \in ChildKinds("Logical", Len(k))
      BY <1>6, <2>1 DEF Waits, Callee, ChildKinds
    <2>4. \A j \in Nat : CollectedKinds(fn, j) \subseteq ChildKinds("Logical", j)
      BY DEF CollectedKinds, ChildKinds
    <2>5. \A j \in 1..Len(k) : k[j] \in 1..Len(nodes) /\ nodes[k[j]].kind \in ChildKinds("Logical", j)
      BY <1>7, <2>1, <2>3, <2>4
    <2>6. /\ "Logical" \in NodeKinds /\ fn \in TokenTypes /\ "Logical" \in KindsFor(TRUE)
          /\ ArityOK("Logical", Len(k))
      BY <2>2 DEF NodeKinds, ConditionKinds, TokenTypes, KindsFor, ArityOK
    <2> QED
      BY <1>1, <1>3, <1>4, <2>1, <2>5, <2>6, BuildPopStep
  <1>12. CASE NotDone
    <2>1. Top.fn = "Not" /\ Build("Not", "Not", one, Top.at, TRUE) /\ Pop /\ UNCHANGED <<toks, pos>>
      BY <1>12 DEF NotDone, Awaiting, one
    <2>2. nodes[ret].kind \in ChildKinds("Not", 1)
      BY <1>6, <2>1 DEF Waits, ChildKinds
    <2>3. /\ "Not" \in NodeKinds /\ "Not" \in TokenTypes /\ "Not" \in KindsFor(TRUE) /\ ArityOK("Not", 1)
      BY DEF NodeKinds, ConditionKinds, TokenTypes, KindsFor, ArityOK
    <2> QED
      BY <1>2, <1>3, <1>4, <1>8, <2>1, <2>2, <2>3, BuildPopStep
  <1>13. CASE RightDone
    <2>1. Top.fn = "Comparison" /\ ~cond /\ Top.kids # <<>> /\ Pop /\ UNCHANGED <<toks, pos>>
          /\ Build("Comparison", toks[Top.at], k, Top.at, TRUE)
      BY <1>13 DEF RightDone, Awaiting, k
    <2>2. Len(k) = 2
      BY <1>1, <1>3, <2>1 DEF CollectedOK
    <2>3. nodes[ret].kind \in ChildKinds("Comparison", Len(k))
      BY <1>6, <2>1 DEF Waits, Callee, ChildKinds
    <2>4. \A j \in Nat : CollectedKinds("Comparison", j) \subseteq ChildKinds("Comparison", j)
      BY DEF CollectedKinds, ChildKinds
    <2>5. \A j \in 1..Len(k) : k[j] \in 1..Len(nodes) /\ nodes[k[j]].kind \in ChildKinds("Comparison", j)
      BY <1>7, <2>1, <2>3, <2>4
    <2>6. "Comparison" \in NodeKinds /\ "Comparison" \in KindsFor(TRUE) /\ ArityOK("Comparison", 2)
      BY DEF NodeKinds, ConditionKinds, KindsFor, ArityOK
    <2> QED
      BY <1>1, <1>3, <1>4, <2>1, <2>2, <2>5, <2>6, BuildPopStep
  <1>14. CASE CloseClassCall
    <2>1. Top.fn = "ClassCall" /\ Pop /\ toks' = toks /\ pos' = After(1)
          /\ Build("ClassCall", toks[Top.at], one, Top.at, FALSE)
      BY <1>14 DEF CloseClassCall, CloseCall, Awaiting, Consume, one
    <2>2. nodes[ret].kind \in ChildKinds("ClassCall", 1)
      BY <1>5, <1>6, <2>1 DEF Waits, ChildKinds
    <2>3. "ClassCall" \in NodeKinds /\ "ClassCall" \in KindsFor(FALSE) /\ ArityOK("ClassCall", 1)
      BY DEF NodeKinds, OperandKinds, KindsFor, ArityOK
    <2> QED
      BY <1>2, <1>3, <1>8, <2>1, <2>2, <2>3, Tokens, BuildPopStep
  <1>15. CASE CloseMemberOf
    <2>1. Top.fn = "MemberOf" /\ Pop /\ toks' = toks /\ pos' = After(1)
          /\ Build("MemberOfExpr", toks[Top.at], one, Top.at, TRUE)
      BY <1>15 DEF CloseMemberOf, CloseCall, Awaiting, Consume, one
    <2>2. nodes[ret].kind \in ChildKinds("MemberOfExpr", 1)
      BY <1>5, <1>6, <2>1 DEF Waits, ChildKinds
    <2>3. "MemberOfExpr" \in NodeKinds /\ "MemberOfExpr" \in KindsFor(TRUE) /\ ArityOK("MemberOfExpr", 1)
      BY DEF NodeKinds, ConditionKinds, KindsFor, ArityOK
    <2> QED
      BY <1>2, <1>3, <1>8, <2>1, <2>2, <2>3, Tokens, BuildPopStep
  <1> QED
    BY <1>9, <1>10, <1>11, <1>12, <1>13, <1>14, <1>15

(* The steps that fit none of these shapes.                                    *)

(* A literal is a node without children.                                       *)
LEMMA LiteralStep == ASSUME Inv, Literal PROVE Inv'
  <1>1. /\ ctl = "Atom" /\ Peek \in LiteralTokens /\ UNCHANGED <<toks, stack>> /\ pos' = After(1)
        /\ Build("Literal", Peek, <<>>, pos, FALSE)
    BY DEF Literal, Consume
  <1>2. pos \in 1..Len(toks) /\ pos \in Nat /\ pos' \in 1..Len(toks) /\ Peek \in TokenTypes
    BY <1>1, Tokens DEF Inv, Peek
  <1>3. /\ "Literal" \in NodeKinds /\ "Literal" \in KindsFor(FALSE)
        /\ <<>> \in Seq(Nat) /\ Len(<<>>) = 0 /\ ArityOK("Literal", 0)
    BY DEF NodeKinds, OperandKinds, KindsFor, ArityOK
  <1> DEFINE none == <<>>
  <1>4. \A j \in 1..Len(none) :
          none[j] \in 1..Len(nodes) /\ nodes[none[j]].kind \in ChildKinds("Literal", j)
    BY <1>3
  <1>5. none \in Seq(Nat) /\ ArityOK("Literal", Len(none)) /\ Build("Literal", Peek, none, pos, FALSE)
    BY <1>1, <1>3
  <1> HIDE DEF none
  <1>6. /\ ArenaOK(nodes')
        /\ StackOK(Len(toks), nodes', stack)
        /\ ret' \in 1..Len(nodes')
        /\ nodes'[ret'].kind = "Literal"
        /\ cond' = FALSE
        /\ ctl' = "Return"
    BY <1>2, <1>3, <1>4, <1>5, BuildStep
  <1>7. stack # <<>> /\ Waits(Top.fn) = "Atom"
    BY <1>1 DEF Inv, ControlOK, Running, Top
  <1>8. Suits("Literal", FALSE, stack)
    BY <1>7 DEF Suits, Top, Waits
  <1>9. ReturnOK(ctl', stack', ret', cond', nodes') /\ ControlOK(ctl', stack')
    BY <1>1, <1>3, <1>6, <1>8 DEF ReturnOK, ControlOK
  <1>10. Len(nodes') \in Nat /\ ret' \in 0..Len(nodes')
    BY <1>6, LenProperties DEF ArenaOK
  <1>11. StreamFits(toks') /\ pos' \in 1..Len(toks') /\ StackOK(Len(toks'), nodes', stack')
    BY <1>1, <1>2, <1>6 DEF Inv
  <1> QED
    BY <1>6, <1>9, <1>10, <1>11 DEF Inv, Control, Running

(* A path takes over the hops its frame has collected.                         *)
LEMMA EndPathStep == ASSUME Inv, EndPath PROVE Inv'
  <1>1. /\ ctl = "Path" /\ UNCHANGED <<toks, pos>> /\ Pop
        /\ Build("PathExpr", toks[Top.at], Top.kids, Top.at, FALSE)
    BY DEF EndPath
  <1>2. stack # <<>> /\ Top.fn = "Path"
    <2>1. stack # <<>> /\ (ctl = Waits(Top.fn) \/ Top.fn = "Path")
      BY <1>1 DEF Inv, ControlOK, Running, Top
    <2> QED
      BY <1>1, <2>1, TopFrame, WaitsRange
  <1>3. /\ Top.kids \in Seq(Nat) /\ Top.at \in 1..Len(toks)
        /\ FrameFits(nodes, Top)
    BY <1>2, TopFrame
  <1>4. Top.at \in Nat /\ toks[Top.at] \in TokenTypes /\ pos \in 1..Len(toks)
    BY <1>2, TopFrame DEF Inv
  <1>5. "PathExpr" \in NodeKinds /\ "PathExpr" \in KindsFor(FALSE) /\ ArityOK("PathExpr", Len(Top.kids))
    BY DEF NodeKinds, OperandKinds, KindsFor, ArityOK
  <1>6. \A j \in Nat : CollectedKinds("Path", j) = ChildKinds("PathExpr", j)
    BY DEF CollectedKinds, ChildKinds
  <1>7. \A j \in 1..Len(Top.kids) :
          Top.kids[j] \in 1..Len(nodes) /\ nodes[Top.kids[j]].kind \in ChildKinds("PathExpr", j)
    BY <1>2, <1>3, <1>6 DEF FrameFits
  <1> QED
    BY <1>1, <1>2, <1>3, <1>4, <1>5, <1>7, BuildPopStep

(* A name hop joins the hops in the frame.                                     *)
LEMMA NameHopStep == ASSUME Inv, NameHop PROVE Inv'
  <1> DEFINE n == [kind |-> "NameHop", op |-> "Name", kids |-> <<>>, at |-> pos + 1]
             i == Len(nodes) + 1
             k == Append(Top.kids, i)
             f == Frame("Path", k, Top.at)
  <1>1. /\ ctl = "Path" /\ nodes' = Append(nodes, n) /\ UNCHANGED <<toks, ctl, ret, cond>>
        /\ stack' = [stack EXCEPT ![Len(stack)] = f] /\ pos' = After(2)
    BY DEF NameHop, Replace, Consume
  <1>2. stack # <<>> /\ Top.fn = "Path"
    <2>1. stack # <<>> /\ (ctl = Waits(Top.fn) \/ Top.fn = "Path")
      BY <1>1 DEF Inv, ControlOK, Running, Top
    <2> QED
      BY <1>1, <2>1, TopFrame, WaitsRange
  <1>3. n \in NodeType /\ Fits(nodes, n) /\ n.kind = "NameHop"
    <2>1. pos + 1 \in Nat
      BY Tokens DEF Inv
    <2>2. n \in NodeType /\ Len(n.kids) = 0 /\ n.kind = "NameHop"
      BY <2>1 DEF NodeType, NodeKinds, TokenTypes
    <2>3. ArityOK("NameHop", 0)
      BY DEF ArityOK
    <2> HIDE DEF n
    <2> QED
      BY <2>2, <2>3 DEF Fits
  <1> HIDE DEF n
  <1>4. /\ ArenaOK(nodes') /\ nodes'[i] = n /\ Len(nodes') = i
        /\ StackOK(Len(toks), nodes', stack) /\ Len(nodes) \in Nat
    BY <1>1, <1>3, AddNode, FramesSurviveNode, LenProperties DEF Inv, ArenaOK
  <1>5. /\ Top.kids \in Seq(Nat) /\ Len(Top.kids) \in Nat
        /\ Top.at \in 1..Len(toks) /\ FrameFits(nodes', Top)
    <2>1. stack \in Seq(FrameType(Len(toks))) /\ Len(stack) \in 1..Len(stack)
      BY <1>2, LenProperties, EmptySeq DEF Inv, StackOK
    <2>2. FrameFits(nodes', Top)
      BY <1>4, <2>1 DEF StackOK, Top
    <2> QED
      BY <1>2, <2>2, TopFrame
  <1>6. /\ k \in Seq(Nat) /\ Len(k) = Len(Top.kids) + 1 /\ k[Len(Top.kids) + 1] = i
        /\ \A j \in 1..Len(Top.kids) : k[j] = Top.kids[j]
    BY <1>4, <1>5, PushProperties
  <1> HIDE DEF k, i
  <1>7. f.fn = "Path" /\ f.kids = k /\ f \in FrameType(Len(toks))
    BY <1>5, <1>6 DEF Frame, FrameType, FrameFns
  <1>8. FrameFits(nodes', f)
    <2>1. CollectedOK("Path", Len(k))
      BY DEF CollectedOK
    <2>2. ASSUME NEW j \in 1..Len(k)
          PROVE  k[j] \in 1..Len(nodes') /\ nodes'[k[j]].kind \in CollectedKinds("Path", j)
      <3>1. CASE j = Len(Top.kids) + 1
        <4>1. k[j] = i /\ i \in 1..Len(nodes')
          BY <1>4, <1>6, <3>1 DEF i
        <4> QED
          BY <1>3, <1>4, <4>1 DEF CollectedKinds, HopKinds
      <3>2. CASE j # Len(Top.kids) + 1
        <4>1. j \in 1..Len(Top.kids)
          BY SMTT(30), <1>5, <1>6, <3>2
        <4> QED
          BY <1>2, <1>5, <1>6, <4>1 DEF FrameFits
      <3> QED
        BY <3>1, <3>2
    <2> HIDE DEF f
    <2> QED
      BY <1>7, <2>1, <2>2 DEF FrameFits
  <1> HIDE DEF f
  <1>9. StackOK(Len(toks), nodes', stack') /\ stack' # <<>> /\ stack'[Len(stack')] = f
    <2>1. Runs(f.fn) = Runs(stack[Len(stack)].fn)
      BY <1>2, <1>7 DEF Top
    <2>2. LET u == [stack EXCEPT ![Len(stack)] = f]
          IN StackOK(Len(toks), nodes', u) /\ u # <<>> /\ u[Len(u)] = f
      BY <1>2, <1>4, <1>7, <1>8, <2>1, ReplaceFrame
    <2> QED
      BY <1>1, <2>2
  <1>10. ControlOK(ctl', stack')
    BY <1>1, <1>7, <1>9 DEF ControlOK
  <1>11. ReturnOK(ctl', stack', ret', cond', nodes')
    BY <1>1 DEF ReturnOK
  <1>12. ret' \in 0..Len(nodes')
    BY <1>1, <1>4 DEF Inv, i
  <1> QED
    BY <1>1, <1>4, <1>9, <1>10, <1>11, <1>12, Tokens DEF Inv

(* The sum so far is kept as the value to return while "+" is looked for.      *)
LEMMA TermDoneStep == ASSUME Inv, TermDone PROVE Inv'
  <1> DEFINE k == Append(Top.kids, ret)
             none == <<>>
             f == Frame("Additive", none, Top.at)
  <1>1. /\ ctl = "Return" /\ stack # <<>> /\ Top.fn = "Additive" /\ Top.kids # <<>> /\ ~cond
        /\ UNCHANGED <<toks, pos>> /\ Build("Additive", "Plus", k, Top.at, FALSE)
        /\ stack' = [stack EXCEPT ![Len(stack)] = f]
    BY DEF TermDone, Awaiting, Replace
  <1>2. /\ ret \in 1..Len(nodes)
        /\ nodes[ret].kind \in KindsFor(cond)
        /\ k \in Seq(Nat)
        /\ Len(k) = Len(Top.kids) + 1
        /\ k[Len(k)] = ret
        /\ \A j \in 1..Len(Top.kids) :
             k[j] \in 1..Len(nodes) /\ nodes[k[j]].kind \in CollectedKinds(Top.fn, j)
    BY <1>1, Collect
  <1> HIDE DEF k
  <1>3. /\ Top.at \in 1..Len(toks) /\ Top.at \in Nat /\ FrameFits(nodes, Top)
        /\ Len(Top.kids) \in Nat /\ (Top.kids = <<>> <=> Len(Top.kids) = 0)
    BY <1>1, TopFrame
  <1>4. Len(Top.kids) = 1 /\ Len(k) = 2
    <2> DEFINE len == Len(Top.kids)
    <2>1. CollectedOK("Additive", len)
      BY <1>1, <1>3 DEF FrameFits
    <2>2. len \in Nat /\ len # 0
      BY <1>1, <1>3
    <2>3. Len(k) = len + 1
      BY <1>2
    <2> HIDE DEF len
    <2>4. len = 1
      BY <2>1, <2>2 DEF CollectedOK
    <2>5. Len(k) = 2
      BY <2>3, <2>4
    <2> QED
      BY <2>4, <2>5 DEF len
  <1>5. nodes[ret].kind \in SimpleKinds
    BY <1>1, <1>2 DEF Inv, ReturnOK, Suits, Top, Waits, Callee, KindsFor, SimpleKinds
  <1>6. \A j \in 1..Len(k) : k[j] \in 1..Len(nodes) /\ nodes[k[j]].kind \in ChildKinds("Additive", j)
    <2>1. \A j \in Nat : CollectedKinds("Additive", j) = SimpleKinds /\ ChildKinds("Additive", j) = SimpleKinds
      BY DEF CollectedKinds, ChildKinds
    <2>2. \A j \in 1..Len(k) : j = 1 \/ j = 2
      BY <1>4
    <2>3. k[1] \in 1..Len(nodes) /\ nodes[k[1]].kind \in SimpleKinds
      BY <1>1, <1>2, <1>4, <2>1
    <2>4. k[2] \in 1..Len(nodes) /\ nodes[k[2]].kind \in SimpleKinds
      BY <1>2, <1>4, <1>5
    <2> SUFFICES ASSUME NEW j \in 1..Len(k)
                 PROVE  k[j] \in 1..Len(nodes) /\ nodes[k[j]].kind \in ChildKinds("Additive", j)
      OBVIOUS
    <2>5. ChildKinds("Additive", j) = SimpleKinds
      BY DEF ChildKinds
    <2> QED
      BY <2>2, <2>3, <2>4, <2>5
  <1>7. /\ "Additive" \in NodeKinds /\ "Plus" \in TokenTypes /\ "Additive" \in KindsFor(FALSE)
        /\ ArityOK("Additive", 2)
    BY DEF NodeKinds, OperandKinds, TokenTypes, KindsFor, ArityOK
  <1>8. /\ ArenaOK(nodes')
        /\ StackOK(Len(toks), nodes', stack)
        /\ ret' \in 1..Len(nodes')
        /\ nodes'[ret'].kind = "Additive"
        /\ cond' = FALSE
        /\ ctl' = "Return"
    BY <1>1, <1>2, <1>3, <1>4, <1>6, <1>7, BuildStep
  <1>9. f \in FrameType(Len(toks)) /\ f.fn = "Additive" /\ FrameFits(nodes', f)
    <2>1. none \in Seq(Nat) /\ Len(none) = 0
      OBVIOUS
    <2> HIDE DEF none
    <2>2. f \in FrameType(Len(toks)) /\ f.fn = "Additive" /\ f.kids = none
      BY <1>3, <2>1 DEF FrameType, Frame, FrameFns, Delegates
    <2>3. CollectedOK("Additive", 0)
      BY DEF CollectedOK
    <2> HIDE DEF f
    <2> QED
      BY <2>1, <2>2, <2>3 DEF FrameFits
  <1> HIDE DEF f
  <1>10. StackOK(Len(toks), nodes', stack') /\ stack' # <<>> /\ stack'[Len(stack')] = f
    <2>1. Runs(f.fn) = Runs(stack[Len(stack)].fn)
      BY <1>1, <1>9 DEF Top
    <2>2. StackOK(Len(toks), nodes', stack) /\ stack # <<>> /\ f \in FrameType(Len(toks))
          /\ FrameFits(nodes', f)
      BY <1>1, <1>8, <1>9
    <2>3. LET u == [stack EXCEPT ![Len(stack)] = f]
          IN StackOK(Len(toks), nodes', u) /\ u # <<>> /\ u[Len(u)] = f
      BY <2>1, <2>2, ReplaceFrame
    <2> QED
      BY <1>1, <2>3
  <1>11. Suits("Additive", FALSE, stack')
    BY <1>9, <1>10 DEF Suits
  <1>12. ReturnOK(ctl', stack', ret', cond', nodes') /\ ControlOK(ctl', stack')
    BY <1>7, <1>8, <1>11 DEF ReturnOK, ControlOK
  <1>13. ret' \in 0..Len(nodes')
    BY <1>8, LenProperties DEF ArenaOK
  <1>14. StreamFits(toks') /\ pos' \in 1..Len(toks') /\ StackOK(Len(toks'), nodes', stack')
    BY <1>1, <1>10 DEF Inv
  <1> QED
    BY <1>8, <1>12, <1>13, <1>14 DEF Inv, Control, Running

(* An array takes over the elements of the list just returned to it.           *)
LEMMA CloseArrayStep == ASSUME Inv, CloseArray PROVE Inv'
  <1>1. /\ ctl = "Return" /\ stack # <<>> /\ Top.fn = "Array" /\ Pop /\ pos' = After(1) /\ toks' = toks
    BY DEF CloseArray, Awaiting, Consume
  <1>2. ReturnOK(ctl, stack, ret, cond, nodes) /\ cond \in BOOLEAN /\ pos' \in 1..Len(toks)
    BY <1>1, Tokens DEF Inv
  <1>3. ret \in 1..Len(nodes) /\ nodes[ret].kind \in OperandKinds /\ cond = FALSE
    BY <1>1, <1>2 DEF ReturnOK, Suits, Top, Waits, KindsFor
  <1>4. CASE nodes[ret].kind = "CommaList"
    <2> DEFINE n == [nodes[ret] EXCEPT !.kind = "ArrayLit", !.op = "LBrace", !.at = Top.at]
               t == [nodes EXCEPT ![ret] = n]
    <2>1. nodes' = t /\ UNCHANGED <<ctl, ret, cond>>
      BY <1>4 DEF CloseArray
    <2>2. Top.at \in Nat
      BY <1>1, TopFrame
    <2>3. ArenaOK(t) /\ Len(t) = Len(nodes) /\ t[ret].kind = "ArrayLit" /\ StackOK(Len(toks), t, stack)
      BY <1>3, <1>4, <2>2, TakeOverList DEF Inv
    <2> HIDE DEF t
    <2>4. StackOK(Len(toks), t, Front(stack)) /\ Suits("ArrayLit", FALSE, Front(stack))
      BY <1>1, <2>3, ReturnSuits DEF Top
    <2>5. stack' = Front(stack)
      BY <1>1 DEF Pop
    <2>6. "ArrayLit" \in KindsFor(FALSE)
      BY DEF KindsFor, OperandKinds
    <2>7. ReturnOK(ctl', stack', ret', cond', nodes') /\ ControlOK(ctl', stack')
      BY <1>1, <1>3, <2>1, <2>3, <2>4, <2>5, <2>6 DEF ReturnOK, ControlOK
    <2> QED
      BY <1>1, <1>2, <2>1, <2>3, <2>4, <2>5, <2>7 DEF Inv
  <1>5. CASE nodes[ret].kind # "CommaList"
    <2> DEFINE one == <<ret>>
    <2>1. Build("ArrayLit", "LBrace", one, Top.at, FALSE)
      BY <1>5 DEF CloseArray
    <2>2. one \in Seq(Nat) /\ Len(one) = 1 /\ one[1] = ret
      <3>1. ret \in Nat
        BY <1>3, LenProperties DEF Inv, ArenaOK
      <3> QED
        BY <3>1, Singleton
    <2> HIDE DEF one
    <2>3. nodes[ret].kind \in ChildKinds("ArrayLit", 1)
      BY <1>3, <1>5 DEF ChildKinds, SimpleKinds
    <2>4. \A j \in 1..Len(one) : one[j] \in 1..Len(nodes) /\ nodes[one[j]].kind \in ChildKinds("ArrayLit", j)
      <3> SUFFICES ASSUME NEW j \in 1..Len(one)
                   PROVE  one[j] \in 1..Len(nodes) /\ nodes[one[j]].kind \in ChildKinds("ArrayLit", j)
        OBVIOUS
      <3>1. j = 1
        BY <2>2
      <3> QED
        BY <1>3, <2>2, <2>3, <3>1
    <2>5. /\ "ArrayLit" \in NodeKinds /\ "LBrace" \in TokenTypes /\ "ArrayLit" \in KindsFor(FALSE)
          /\ ArityOK("ArrayLit", 1)
      BY DEF NodeKinds, OperandKinds, TokenTypes, KindsFor, ArityOK
    <2>6. Top.at \in Nat
      BY <1>1, TopFrame
    <2> QED
      BY <1>1, <1>2, <2>1, <2>2, <2>4, <2>5, <2>6, BuildPopStep
  <1> QED
    BY <1>4, <1>5

(* Errors and the end of parseToAST leave the arena alone.                     *)
LEMMA Stopping ==
  ASSUME Inv, BadAtom \/ BadHop \/ MissingCloser \/ ConditionMisplaced \/ Finish \/ UNCHANGED vars
  PROVE  Inv'
  <1>1. CASE BadAtom \/ BadHop \/ MissingCloser \/ ConditionMisplaced
    <2>1. ctl' = "Failed" /\ stack' = <<>> /\ UNCHANGED <<toks, pos, ret, cond, nodes>>
      BY <1>1 DEF BadAtom, BadHop, MissingCloser, ConditionMisplaced, Fail
    <2>2. <<>> \in Seq(FrameType(Len(toks))) /\ Len(<<>>) = 0
      BY EmptySeq
    <2>3. StackOK(Len(toks), nodes, stack')
      BY <2>1, <2>2 DEF StackOK, Linked
    <2>4. ControlOK(ctl', stack') /\ ReturnOK(ctl', stack', ret', cond', nodes')
      BY <2>1 DEF ControlOK, ReturnOK, Running, Delegates
    <2> QED
      BY <2>1, <2>3, <2>4 DEF Inv, Control
  <1>2. CASE Finish
    <2>1. ctl = "Return" /\ ctl' \in {"Accepted", "Failed"} /\ UNCHANGED <<toks, pos, stack, ret, cond, nodes>>
      BY <1>2 DEF Finish
    <2> QED
      BY <2>1 DEF Inv, Control, ControlOK, ReturnOK, Running, Delegates
  <1>3. CASE UNCHANGED vars
    BY <1>3 DEF vars, Inv
  <1> QED
    BY <1>1, <1>2, <1>3

-----------------------------------------------------------------------------
(* The state in which parseToAST is entered.                                   *)
Entered ==
  /\ StreamFits(toks) /\ pos = 1 /\ ctl = "Expr" /\ stack = <<>>
  /\ ret = 0 /\ cond = FALSE /\ nodes = <<>>

(* The invariant holds there ...                                               *)
LEMMA EnteredInv == Entered => Inv
  <1> SUFFICES ASSUME Entered PROVE Inv
    OBVIOUS
  <1>1. StreamFits(toks) /\ pos = 1 /\ ctl = "Expr" /\ stack = <<>> /\ ret = 0 /\ cond = FALSE /\ nodes = <<>>
    BY DEF Entered
  <1>2. 1 \in 1..Len(toks)
    BY <1>1, LenProperties, EmptySeq DEF StreamFits
  <1>3. nodes \in Seq(NodeType) /\ Len(nodes) = 0 /\ stack \in Seq(FrameType(Len(toks))) /\ Len(stack) = 0
    BY <1>1, EmptySeq
  <1>4. ArenaOK(nodes)
    BY <1>3 DEF ArenaOK
  <1>5. StackOK(Len(toks), nodes, stack)
    BY <1>1, <1>3 DEF StackOK, Linked
  <1>6. ControlOK(ctl, stack) /\ ReturnOK(ctl, stack, ret, cond, nodes)
    BY <1>1 DEF ControlOK, ReturnOK
  <1>7. ctl \in Control /\ ret \in 0..Len(nodes) /\ cond \in BOOLEAN /\ pos \in 1..Len(toks)
    <2>1. ctl \in Control
      BY <1>1 DEF Control, Running, Delegates
    <2>2. ret = 0 /\ Len(nodes) = 0
      BY <1>1, <1>3
    <2>3. ret \in 0..Len(nodes)
      BY <2>2
    <2> QED
      BY <1>1, <1>2, <2>1, <2>3
  <1> QED
    BY <1>1, <1>4, <1>5, <1>6, <1>7 DEF Inv

(* ... and every step preserves it.                                            *)
LEMMA NextInv == Inv /\ [Next]_vars => Inv'
  <1> SUFFICES ASSUME Inv, [Next]_vars PROVE Inv'
    OBVIOUS
  <1>1. CASE Descend \/ Negation \/ Parenthesis \/ OpenArray \/ OpenClassCall \/ OpenMemberOf
             \/ StartPath \/ MemberOfHop
    BY <1>1, Entering
  <1>2. CASE Literal
    BY <1>2, LiteralStep
  <1>3. CASE NameHop
    BY <1>3, NameHopStep
  <1>4. CASE EndPath
    BY <1>4, EndPathStep
  <1>5. CASE TrueBranchDone \/ BranchItemDone \/ LeftDone \/ NextTerm \/ HopDone
    <2>1. ctl = "Return" /\ stack # <<>>
      BY <1>5 DEF TrueBranchDone, BranchItemDone, LeftDone, NextTerm, HopDone, Awaiting
    <2> QED
      BY <1>5, <2>1, Continuing
  <1>6. CASE ExprDone
    <2>1. ctl = "Return" /\ stack # <<>>
      BY <1>6 DEF ExprDone, Awaiting
    <2> QED
      BY <1>6, <2>1, Continuing, Passing
  <1>7. CASE NoComparison \/ NoTerm \/ CloseParen
    <2>1. ctl = "Return" /\ stack # <<>>
      BY <1>7 DEF NoComparison, NoTerm, CloseParen, Awaiting
    <2> QED
      BY <1>7, <2>1, Passing
  <1>8. CASE BranchDone
    <2>1. ctl = "Return" /\ stack # <<>>
      BY <1>8 DEF BranchDone, Awaiting
    <2> QED
      BY <1>8, <2>1, Passing, Building
  <1>9. ASSUME NEW fn \in {"Or", "And"}, ChainOperandDone(fn) \/ ChainDone(fn) PROVE Inv'
    <2>1. ctl = "Return" /\ stack # <<>>
      BY <1>9 DEF ChainOperandDone, ChainDone, Awaiting
    <2> QED
      BY <1>9, <2>1, Passing, Building, Continuing
  <1>10. CASE FalseBranchDone \/ NotDone \/ RightDone \/ CloseClassCall \/ CloseMemberOf
    <2>1. ctl = "Return" /\ stack # <<>>
      BY <1>10 DEF FalseBranchDone, NotDone, RightDone, CloseClassCall, CloseMemberOf, CloseCall, Awaiting
    <2>2. ASSUME FalseBranchDone PROVE Inv'
      BY <2>1, <2>2, Building
    <2>3. ASSUME NotDone \/ RightDone PROVE Inv'
      BY <2>1, <2>3, Building
    <2>4. ASSUME CloseClassCall \/ CloseMemberOf PROVE Inv'
      BY <2>1, <2>4, Building
    <2> QED
      BY <1>10, <2>2, <2>3, <2>4
  <1>11. CASE TermDone
    BY <1>11, TermDoneStep
  <1>12. CASE CloseArray
    BY <1>12, CloseArrayStep
  <1>13. CASE BadAtom \/ BadHop \/ MissingCloser \/ ConditionMisplaced \/ Finish \/ Done \/ UNCHANGED vars
    BY <1>13, Stopping DEF Done
  <1> QED
    BY <1>1, <1>2, <1>3, <1>4, <1>5, <1>6, <1>7, <1>8, <1>9, <1>10, <1>11, <1>12, <1>13 DEF Next

(* No method changes the tokens.                                               *)
LEMMA StreamKept == [Next]_vars => toks' = toks
  <1>1. ASSUME Descend \/ Negation \/ Literal \/ Parenthesis \/ OpenArray \/ OpenClassCall
               \/ OpenMemberOf \/ StartPath \/ NameHop \/ MemberOfHop \/ EndPath \/ HopDone
        PROVE  toks' = toks
    BY <1>1 DEF Descend, Negation, Literal, Parenthesis, OpenArray, OpenClassCall,
       OpenMemberOf, StartPath, NameHop, MemberOfHop, EndPath, HopDone
  <1>2. ASSUME BadAtom \/ BadHop \/ MissingCloser \/ ConditionMisplaced \/ Finish \/ Done
        PROVE  toks' = toks
    BY <1>2 DEF BadAtom, BadHop, MissingCloser, ConditionMisplaced, Finish, Done, Fail, vars
  <1>3. ASSUME ExprDone \/ TrueBranchDone \/ FalseBranchDone \/ BranchItemDone \/ BranchDone
               \/ NotDone \/ LeftDone \/ RightDone \/ NoComparison
        PROVE  toks' = toks
    BY <1>3 DEF ExprDone, TrueBranchDone, FalseBranchDone, BranchItemDone, BranchDone,
       NotDone, LeftDone, RightDone, NoComparison
  <1>4. ASSUME NextTerm \/ TermDone \/ NoTerm \/ CloseParen \/ CloseArray
               \/ CloseClassCall \/ CloseMemberOf
               \/ \E fn \in {"Or", "And"} : ChainOperandDone(fn) \/ ChainDone(fn)
        PROVE  toks' = toks
    BY <1>4 DEF NextTerm, TermDone, NoTerm, CloseParen, CloseArray, CloseClassCall,
       CloseMemberOf, CloseCall, ChainOperandDone, ChainDone
  <1> QED
    BY <1>1, <1>2, <1>3, <1>4 DEF Next, vars

(* The parser's state is of the declared types in every reachable state, and   *)
(* everything the inductive invariant says holds there.                        *)
THEOREM Invariance == Spec => []IInv
  <1>1. Init => Inv /\ toks \in Streams
    BY EnteredInv, StreamsAssumption DEF Init, Entered
  <1>2. toks \in Streams /\ [Next]_vars => (toks \in Streams)'
    BY StreamKept
  <1>3. Inv /\ toks \in Streams => IInv
    BY InvIsIInv
  <1> QED
    BY <1>1, <1>2, <1>3, NextInv, PTL DEF Spec

(* Parsed token streams of any length and content (parseToAST): the parser     *)
(* never holds a node whose operands break the promises of its type.           *)
THEOREM WellTypedAlways == Spec => []WellTyped
  <1>1. IInv => WellTyped
    BY DEF IInv
  <1> QED
    BY <1>1, Invariance, PTL

(* The isCond bool that travels with every returned node is right about it.    *)
THEOREM CondAlwaysTracksNode == Spec => []CondTracksNode
  <1>1. IInv => CondTracksNode
    BY DEF IInv
  <1> QED
    BY <1>1, Invariance, PTL

(* The parser's state keeps its types: pos stays on a token (peek never        *)
(* indexes past the slice) and every frame and node is of its kind.            *)
THEOREM TypeCorrect == Spec => []TypeOK
  <1>1. IInv => TypeOK
    BY DEF IInv
  <1> QED
    BY <1>1, Invariance, PTL

-----------------------------------------------------------------------------
(* Order: what a step does to the arena and to pos.                            *)

(* Every child was built before its parent.                                    *)
KidsBefore ==
  \A i \in 1..Len(nodes) : \A j \in 1..Len(nodes[i].kids) : nodes[i].kids[j] < i

Extended ==
  \E node \in NodeType :
    /\ nodes' = Append(nodes, node)
    /\ \A j \in 1..Len(node.kids) : node.kids[j] \in 1..Len(nodes)

TakenOver ==
  /\ Awaiting("Array") /\ ret \in 1..Len(nodes)
  /\ nodes' = [nodes EXCEPT ![ret] = [@ EXCEPT !.kind = "ArrayLit",
                                               !.op = "LBrace", !.at = Top.at]]

-----------------------------------------------------------------------------
(* A method that builds a node has its children in the arena already.          *)
LEMMA Built ==
  ASSUME Inv, NEW kind \in NodeKinds, NEW op \in TokenTypes, NEW kids \in Seq(Nat),
         NEW at \in Nat, NEW d, Build(kind, op, kids, at, d),
         \A j \in 1..Len(kids) : kids[j] \in 1..Len(nodes)
  PROVE  Extended
  <1> DEFINE node == [kind |-> kind, op |-> op, kids |-> kids, at |-> at]
  <1>1. node \in NodeType /\ node.kids = kids
    BY DEF NodeType
  <1>2. nodes' = Append(nodes, node)
    BY DEF Build
  <1> HIDE DEF node
  <1> QED
    BY <1>1, <1>2 DEF Extended

(* What a waiting method has collected is in the arena, and so is what it gets.*)
LEMMA Collected ==
  ASSUME Inv, stack # <<>>, ctl = "Return"
  PROVE  /\ Append(Top.kids, ret) \in Seq(Nat) /\ <<ret>> \in Seq(Nat)
         /\ \A j \in 1..Len(Append(Top.kids, ret)) : Append(Top.kids, ret)[j] \in 1..Len(nodes)
         /\ \A j \in 1..Len(<<ret>>) : <<ret>>[j] \in 1..Len(nodes)
         /\ Top.at \in Nat /\ toks[Top.at] \in TokenTypes
         /\ ret \in 1..Len(nodes)
  <1> DEFINE k == Append(Top.kids, ret)
  <1>1. /\ ret \in 1..Len(nodes) /\ ret \in Nat /\ k \in Seq(Nat)
        /\ Len(k) = Len(Top.kids) + 1 /\ k[Len(k)] = ret
        /\ \A j \in 1..Len(Top.kids) : k[j] \in 1..Len(nodes)
    BY Collect
  <1>2. Len(Top.kids) \in Nat /\ Top.at \in Nat /\ toks[Top.at] \in TokenTypes
    BY TopFrame
  <1>3. \A j \in 1..Len(k) : k[j] \in 1..Len(nodes)
    BY <1>1, <1>2
  <1>4. <<ret>> \in Seq(Nat) /\ Len(<<ret>>) = 1 /\ <<ret>>[1] = ret
    BY <1>1, Singleton
  <1> QED
    BY <1>1, <1>2, <1>3, <1>4

(* The kinds of nodes the methods build are kinds of nodes.                    *)
LEMMA BuiltKinds ==
  /\ {"Literal", "PathExpr", "NameHop", "Ternary", "CommaList", "Logical", "Not", "Comparison",
      "Additive", "ArrayLit", "ClassCall", "MemberOfExpr"} \subseteq NodeKinds
  /\ {"Question", "Comma", "Or", "And", "Not", "Plus", "LBrace", "Name"} \subseteq TokenTypes
  BY DEF NodeKinds, OperandKinds, ConditionKinds, TokenTypes

(* A step leaves the arena alone, adds a node to it, or lets an array take     *)
(* over the comma list just returned.                                          *)
LEMMA ArenaStep ==
  ASSUME Inv, [Next]_vars
  PROVE  nodes' = nodes \/ Extended \/ TakenOver
  <1> USE BuiltKinds
  <1>1. CASE Descend \/ Negation \/ Parenthesis \/ OpenArray \/ OpenClassCall \/ OpenMemberOf
             \/ StartPath \/ MemberOfHop \/ HopDone
    BY <1>1 DEF Descend, Negation, Parenthesis, OpenArray, OpenClassCall, OpenMemberOf,
       StartPath, MemberOfHop, HopDone, Start
  <1>2. CASE BadAtom \/ BadHop \/ MissingCloser \/ ConditionMisplaced \/ Finish \/ Done
             \/ UNCHANGED vars
    BY <1>2 DEF BadAtom, BadHop, MissingCloser, ConditionMisplaced, Finish, Done, Fail, vars
  <1>3. CASE ExprDone \/ TrueBranchDone \/ BranchItemDone \/ LeftDone \/ NoComparison
             \/ NextTerm \/ NoTerm \/ CloseParen
    BY <1>3 DEF ExprDone, TrueBranchDone, BranchItemDone, LeftDone, NoComparison, NextTerm,
       NoTerm, CloseParen, Start, Pass
  <1>4. CASE Literal
    <2> DEFINE none == <<>>
    <2>1. Build("Literal", Peek, none, pos, FALSE)
      BY <1>4 DEF Literal
    <2>2. pos \in 1..Len(toks) /\ pos \in Nat
      BY DEF Inv
    <2>3. Peek \in TokenTypes
      BY <2>2, Tokens DEF Peek
    <2>4. none \in Seq(Nat) /\ \A j \in 1..Len(none) : none[j] \in 1..Len(nodes)
      BY EmptySeq
    <2>5. "Literal" \in NodeKinds
      OBVIOUS
    <2> HIDE DEF none
    <2>6. Extended
      BY <2>1, <2>2, <2>3, <2>4, <2>5, Built
    <2> QED
      BY <2>6
  <1>5. CASE NameHop
    <2> DEFINE node == [kind |-> "NameHop", op |-> "Name", kids |-> <<>>, at |-> pos + 1]
    <2>1. nodes' = Append(nodes, node) /\ pos \in Nat
      BY <1>5 DEF NameHop, Inv
    <2>2. node \in NodeType /\ Len(node.kids) = 0
      BY <2>1, EmptySeq DEF NodeType
    <2> HIDE DEF node
    <2> QED
      BY <2>1, <2>2 DEF Extended
  <1>6. CASE EndPath
    <2>1. ctl = "Path" /\ Build("PathExpr", toks[Top.at], Top.kids, Top.at, FALSE)
      BY <1>6 DEF EndPath
    <2>2. stack # <<>>
      BY <2>1 DEF Inv, ControlOK, Running
    <2>3. /\ Top.kids \in Seq(Nat) /\ Top.at \in Nat /\ toks[Top.at] \in TokenTypes
          /\ \A j \in 1..Len(Top.kids) : Top.kids[j] \in 1..Len(nodes)
      BY <2>2, TopFrame DEF FrameFits
    <2> QED
      BY <2>1, <2>3, Built
  <1>7. ASSUME FalseBranchDone \/ BranchDone \/ RightDone \/ TermDone
               \/ \E fn \in {"Or", "And"} : ChainOperandDone(fn) \/ ChainDone(fn)
        PROVE  nodes' = nodes \/ Extended
    <2>1. stack # <<>> /\ ctl = "Return"
      BY <1>7 DEF FalseBranchDone, BranchDone, RightDone, TermDone, ChainOperandDone, ChainDone, Awaiting
    <2>2. \/ nodes' = nodes
          \/ \E kind \in NodeKinds, op \in TokenTypes, d \in BOOLEAN :
               Build(kind, op, Append(Top.kids, ret), Top.at, d)
      BY <1>7, <2>1, Collected
         DEF FalseBranchDone, BranchDone, RightDone, TermDone, ChainOperandDone, ChainDone, Start, Pass
    <2> QED
      BY <2>1, <2>2, Collected, Built
  <1>8. CASE NotDone \/ CloseClassCall \/ CloseMemberOf
    <2>1. stack # <<>> /\ ctl = "Return"
      BY <1>8 DEF NotDone, CloseClassCall, CloseMemberOf, CloseCall, Awaiting
    <2>2. \E kind \in NodeKinds, op \in TokenTypes, d \in BOOLEAN :
            Build(kind, op, <<ret>>, Top.at, d)
      BY <1>8, <2>1, Collected DEF NotDone, CloseClassCall, CloseMemberOf, CloseCall
    <2> QED
      BY <2>1, <2>2, Collected, Built
  <1>9. CASE CloseArray
    <2>1. stack # <<>> /\ ctl = "Return" /\ Awaiting("Array")
      BY <1>9 DEF CloseArray, Awaiting
    <2>2. CASE nodes[ret].kind = "CommaList"
      BY <1>9, <2>1, <2>2, Collected DEF CloseArray, TakenOver
    <2>3. CASE nodes[ret].kind # "CommaList"
      <3>1. Build("ArrayLit", "LBrace", <<ret>>, Top.at, FALSE)
        BY <1>9, <2>3 DEF CloseArray
      <3> QED
        BY <2>1, <3>1, Collected, Built
    <2> QED
      BY <2>2, <2>3
  <1> QED
    BY <1>1, <1>2, <1>3, <1>4, <1>5, <1>6, <1>7, <1>8, <1>9 DEF Next

(* What becomes of the nodes there are.                                        *)
LEMMA ArenaKept ==
  ASSUME Inv, nodes' = nodes \/ Extended \/ TakenOver
  PROVE  /\ Len(nodes) \in Nat /\ Len(nodes') \in Nat /\ Len(nodes') >= Len(nodes)
         /\ \A i \in 1..Len(nodes) :
              /\ nodes'[i] = nodes[i] \/ (i = ret /\ Awaiting("Array"))
              /\ nodes'[i].kids = nodes[i].kids
         /\ \A i \in 1..Len(nodes') : i \in 1..Len(nodes) \/
              \A j \in 1..Len(nodes'[i].kids) : nodes'[i].kids[j] < i
  <1>1. nodes \in Seq(NodeType) /\ Len(nodes) \in Nat
    BY LenProperties DEF Inv, ArenaOK
  <1>2. CASE nodes' = nodes
    BY <1>1, <1>2
  <1>3. CASE Extended
    <2>1. PICK node \in NodeType :
            /\ nodes' = Append(nodes, node)
            /\ \A j \in 1..Len(node.kids) : node.kids[j] \in 1..Len(nodes)
      BY <1>3 DEF Extended
    <2>2. /\ Len(nodes') = Len(nodes) + 1 /\ nodes'[Len(nodes) + 1] = node
          /\ \A i \in 1..Len(nodes) : nodes'[i] = nodes[i]
      BY <1>1, <2>1, PushProperties
    <2>3. \A i \in 1..Len(nodes') : i \in 1..Len(nodes) \/ i = Len(nodes) + 1
      BY <1>1, <2>2
    <2>4. \A j \in 1..Len(node.kids) : node.kids[j] < Len(nodes) + 1
      BY <1>1, <2>1
    <2> QED
      BY <1>1, <2>2, <2>3, <2>4
  <1>4. CASE TakenOver
    <2> DEFINE node == [nodes[ret] EXCEPT !.kind = "ArrayLit", !.op = "LBrace", !.at = Top.at]
    <2>1. Awaiting("Array") /\ ret \in 1..Len(nodes) /\ nodes' = [nodes EXCEPT ![ret] = node]
      BY <1>4 DEF TakenOver
    <2>2. nodes[ret] \in NodeType
      BY <1>1, <2>1, ElementOfSeq
    <2>3. node.kids = nodes[ret].kids
      BY <2>2 DEF NodeType
    <2> HIDE DEF node
    <2>4. Len(nodes') = Len(nodes) /\ \A i \in 1..Len(nodes) : nodes'[i] = IF i = ret THEN node ELSE nodes[i]
      BY <1>1, <2>1
    <2> QED
      BY <1>1, <2>1, <2>3, <2>4
  <1> QED
    BY <1>2, <1>3, <1>4

(* Children stay before their parents.                                         *)
LEMMA OrderKept == Inv /\ KidsBefore /\ [Next]_vars => KidsBefore'
  <1> SUFFICES ASSUME Inv, KidsBefore, [Next]_vars PROVE KidsBefore'
    OBVIOUS
  <1>1. /\ \A i \in 1..Len(nodes) : nodes'[i].kids = nodes[i].kids
        /\ \A i \in 1..Len(nodes') : i \in 1..Len(nodes) \/
             \A j \in 1..Len(nodes'[i].kids) : nodes'[i].kids[j] < i
    BY ArenaStep, ArenaKept
  <1> QED
    BY <1>1 DEF KidsBefore

-----------------------------------------------------------------------------
(* No method goes back in the tokens.                                          *)
LEMMA Forward ==
  ASSUME Inv, [Next]_vars
  PROVE  pos' >= pos
  <1>1. pos \in Nat /\ \A k \in Nat : After(k) >= pos
    BY Tokens DEF Inv, After
  <1>2. pos' \in {pos, After(1), After(2), After(3), After(4)}
    <2>1. CASE Descend \/ Negation \/ Literal \/ Parenthesis \/ OpenArray \/ OpenClassCall
               \/ OpenMemberOf \/ StartPath \/ NameHop \/ MemberOfHop \/ EndPath \/ HopDone
      BY <2>1 DEF Descend, Negation, Literal, Parenthesis, OpenArray, OpenClassCall,
         OpenMemberOf, StartPath, NameHop, MemberOfHop, EndPath, HopDone, Consume
    <2>2. CASE BadAtom \/ BadHop \/ MissingCloser \/ ConditionMisplaced \/ Finish \/ Done
               \/ UNCHANGED vars
      BY <2>2 DEF BadAtom, BadHop, MissingCloser, ConditionMisplaced, Finish, Done, Fail, vars
    <2>3. CASE ExprDone \/ TrueBranchDone \/ FalseBranchDone \/ BranchItemDone \/ BranchDone
               \/ NotDone \/ LeftDone \/ RightDone \/ NoComparison
      BY <2>3 DEF ExprDone, TrueBranchDone, FalseBranchDone, BranchItemDone, BranchDone,
         NotDone, LeftDone, RightDone, NoComparison, Consume
    <2>4. CASE NextTerm \/ TermDone \/ NoTerm \/ CloseParen \/ CloseArray
               \/ CloseClassCall \/ CloseMemberOf
               \/ \E fn \in {"Or", "And"} : ChainOperandDone(fn) \/ ChainDone(fn)
      BY <2>4 DEF NextTerm, TermDone, NoTerm, CloseParen, CloseArray, CloseClassCall,
         CloseMemberOf, CloseCall, ChainOperandDone, ChainDone, Consume
    <2> QED
      BY <2>1, <2>2, <2>3, <2>4 DEF Next
  <1> QED
    BY <1>1, <1>2

-----------------------------------------------------------------------------
(* How deep a method can stand among those that start at one token: from the   *)
(* list of branches down to the atom.                                          *)
Rank(fn) ==
  CASE fn = "Branch" -> 0
    [] fn \in {"Expr", "TrueBranch", "FalseBranch"} -> 1
    [] fn = "Or" -> 2
    [] fn = "And" -> 3
    [] fn \in {"Not", "Comparison"} -> 4
    [] fn = "Additive" -> 5
    [] OTHER -> 6

(* The methods that call another one only behind a token of their own.         *)
PastToken == {"TrueBranch", "FalseBranch", "Not", "Paren", "Array", "ClassCall", "MemberOf", "Path"}

Shallow(frame, depth, p) ==
  /\ depth <= 7 * (frame.at - 1) + Rank(frame.fn)
  /\ frame.at <= p
  /\ frame.fn \in PastToken => frame.at < p

(* What StackBound says of the whole stack, said of every frame.               *)
Depth == \A k \in 1..Len(stack) : Shallow(stack[k], k, pos)

LEMMA RankRange ==
  ASSUME NEW fn
  PROVE  Rank(fn) \in 0..6
  BY DEF Rank

LEMMA RankFacts ==
  /\ \A fn \in FrameFns : Rank(fn) = 6 => fn \in PastToken
  /\ \A fn \in Delegates : Rank(Callee(fn)) = Rank(fn) + 1
  /\ Rank("Comparison") = Rank("Not") /\ Rank("Path") = Rank("Atom") /\ Rank("Atom") = 6
  BY DEF Rank, FrameFns, Delegates, PastToken, Callee

LEMMA Widen ==
  ASSUME NEW a \in Int, NEW b \in Int, NEW d \in Int, NEW r \in Int,
         d <= 7 * (a - 1) + r, a <= b
  PROVE  d <= 7 * (b - 1) + r
  OBVIOUS

LEMMA NextToken ==
  ASSUME NEW a \in Int, NEW b \in Int, NEW d \in Int, NEW r \in 0..6, NEW q \in 0..6,
         d <= 7 * (a - 1) + r, a < b
  PROVE  d + 1 <= 7 * (b - 1) + q
  OBVIOUS

LEMMA NextMethod ==
  ASSUME NEW a \in Int, NEW b \in Int, NEW d \in Int, NEW r \in 0..6, NEW q \in 0..6,
         d <= 7 * (a - 1) + r, a <= b, q = r + 1
  PROVE  d + 1 <= 7 * (b - 1) + q
  OBVIOUS

(* Only the EOF token is not advanced over.                                    *)
LEMMA Advances ==
  ASSUME Inv
  PROVE  /\ pos \in Nat \ {0} /\ \A k \in Nat : After(k) >= pos /\ After(k) \in Nat
         /\ Peek # "EOF" => /\ After(1) = pos + 1
                            /\ \A k \in Nat \ {0} : After(k) > pos
         /\ toks[After(1)] # "EOF" => After(3) > pos + 1 /\ After(2) > pos + 1
  <1>1. /\ pos \in 1..Len(toks) /\ Len(toks) \in Nat
        /\ \A i \in 1..Len(toks) : toks[i] = "EOF" <=> i = Len(toks)
    BY LenProperties DEF Inv, StreamFits
  <1>2. Peek # "EOF" => pos < Len(toks)
    BY <1>1 DEF Peek
  <1>3. toks[After(1)] # "EOF" => pos + 1 < Len(toks)
    BY <1>1 DEF After
  <1> QED
    BY <1>1, <1>2, <1>3 DEF After

(* What is still to be done, in numbers.                                       *)
Measured ==
  /\ Len(stack) \in Nat /\ (stack = <<>> <=> Len(stack) = 0)
  /\ Len(toks) \in Nat /\ pos \in 1..Len(toks) /\ pos \in Nat
  /\ Duty(ctl) \in 0..20 /\ Owed \in 0..1
  /\ ctl \in Running => Duty(ctl) >= 1
  /\ ctl # "Return" => Owed = 0
  /\ Duty(ctl) + Owed <= 20

LEMMA WorkFacts == Inv => Measured
  <1> SUFFICES ASSUME Inv PROVE Measured
    OBVIOUS
  <1>1. /\ Len(stack) \in Nat /\ (stack = <<>> <=> Len(stack) = 0) /\ Len(toks) \in Nat
        /\ pos \in 1..Len(toks) /\ pos \in Nat
    BY LenProperties, EmptySeq DEF Inv, StackOK, StreamFits
  <1>2. Duty(ctl) \in 0..20 /\ (ctl \in Running => Duty(ctl) >= 1) /\ (ctl = "Return" => Duty(ctl) = 1)
    BY DEF Duty, Running, Delegates
  <1>3. Owed \in 0..1 /\ (ctl # "Return" => Owed = 0)
    BY DEF Owed
  <1> QED
    BY <1>1, <1>2, <1>3 DEF Measured

LEMMA MeasuredNext == Inv' => Measured'
  BY WorkFacts, PTL

LEMMA WorkRange ==
  ASSUME Measured
  PROVE  /\ Duty(ctl) \in Int /\ Owed \in Int /\ Len(stack) \in Int /\ Len(toks) \in Int /\ pos \in Int
         /\ Owed >= 0 /\ Len(stack) >= 0
  BY DEF Measured

LEMMA WorkNat ==
  ASSUME Measured
  PROVE  Work \in Nat
  <1>1. Len(toks) - pos \in Nat /\ Len(stack) \in Nat /\ Duty(ctl) \in Nat /\ Owed \in Nat
    <2>1. \A n \in Nat : \A m \in 1..n : n - m \in Nat
      OBVIOUS
    <2>2. (\A n \in 0..20 : n \in Nat) /\ (\A n \in 0..1 : n \in Nat)
      OBVIOUS
    <2>3. /\ Len(toks) \in Nat /\ pos \in 1..Len(toks) /\ Len(stack) \in Nat
          /\ Duty(ctl) \in 0..20 /\ Owed \in 0..1
      BY Zenon DEF Measured
    <2> QED BY <2>1, <2>2, <2>3, Zenon
  <1>2. \A x \in Nat : 22 * x \in Nat /\ 2 * x \in Nat
    OBVIOUS
  <1>3. 22 * (Len(toks) - pos) \in Nat /\ 2 * Len(stack) \in Nat
    BY <1>1, <1>2
  <1> QED
    BY <1>1, <1>3 DEF Work

LEMMA TokenPays ==
  ASSUME NEW n \in Int, NEW p \in Int, NEW q \in Int, NEW l \in Int, NEW m \in Int,
         NEW d \in Int, NEW e \in Int, NEW o \in Int, NEW u \in Int,
         q > p, m <= l + 1, d >= 1, o >= 0, e + u <= 20
  PROVE  22 * (n - q) + 2 * m + e + u < 22 * (n - p) + 2 * l + d + o
  OBVIOUS

LEMMA MethodPays ==
  ASSUME NEW n \in Int, NEW p \in Int, NEW l \in Int, NEW m \in Int,
         NEW d \in Int, NEW e \in Int, NEW o \in Int, NEW u \in Int,
         2 * m + e + u < 2 * l + d + o
  PROVE  22 * (n - p) + 2 * m + e + u < 22 * (n - p) + 2 * l + d + o
  OBVIOUS

(* A step that consumes a token is paid for by it;                             *)
LEMMA PaidByToken ==
  ASSUME Inv, Inv', toks' = toks, pos' > pos, ctl \in Running,
         Len(stack') <= Len(stack) + 1
  PROVE  Work' < Work
  <1>1. Measured /\ Measured'
    BY WorkFacts, MeasuredNext
  <1>2. Measured' => (/\ Duty(ctl) \in Int /\ Owed \in Int /\ Len(stack) \in Int /\ Len(toks) \in Int /\ pos \in Int)'
    BY WorkRange, PTL
  <1>3. /\ Duty(ctl) \in Int /\ Owed \in Int /\ Len(stack) \in Int /\ Len(toks) \in Int /\ pos \in Int
        /\ Owed >= 0 /\ Duty(ctl) >= 1
    BY <1>1, WorkRange DEF Measured
  <1>4. Duty(ctl)' + Owed' <= 20
    BY <1>1 DEF Measured
  <1>5. 22 * (Len(toks) - pos') + 2 * Len(stack') + Duty(ctl)' + Owed'
          < 22 * (Len(toks) - pos) + 2 * Len(stack) + Duty(ctl) + Owed
    BY <1>1, <1>2, <1>3, <1>4, TokenPays
  <1> QED
    BY <1>5, Zenon DEF Work

(* one that consumes none, by the method it ends or by what it owed.           *)
LEMMA PaidByMethod ==
  ASSUME Inv, Inv', toks' = toks, pos' = pos,
         2 * Len(stack') + Duty(ctl)' + Owed' < 2 * Len(stack) + Duty(ctl) + Owed
  PROVE  Work' < Work
  <1>1. Measured /\ Measured'
    BY WorkFacts, MeasuredNext
  <1>2. Measured' => (/\ Duty(ctl) \in Int /\ Owed \in Int /\ Len(stack) \in Int /\ Len(toks) \in Int /\ pos \in Int)'
    BY WorkRange, PTL
  <1>3. /\ Duty(ctl) \in Int /\ Owed \in Int /\ Len(stack) \in Int /\ Len(toks) \in Int /\ pos \in Int
    BY <1>1, WorkRange
  <1>4. 22 * (Len(toks) - pos) + 2 * Len(stack') + Duty(ctl)' + Owed'
          < 22 * (Len(toks) - pos) + 2 * Len(stack) + Duty(ctl) + Owed
    BY <1>1, <1>2, <1>3, MethodPays
  <1> QED
    BY <1>4, Zenon DEF Work

(* The depth of the stack after a call, a return, and neither.                 *)
LEMMA Depths ==
  ASSUME Inv, NEW fn, NEW kids, NEW at
  PROVE  /\ Push(fn, kids, at) => Len(stack') = Len(stack) + 1
         /\ stack # <<>> /\ Pop => Len(stack') = Len(stack) - 1
         /\ Replace(fn, kids, at) => Len(stack') = Len(stack)
  <1>1. stack \in Seq(FrameType(Len(toks))) /\ Len(stack) \in Nat
    BY LenProperties DEF Inv, StackOK
  <1>2. ASSUME Push(fn, kids, at) PROVE Len(stack') = Len(stack) + 1
    <2> DEFINE f == Frame(fn, kids, at)
    <2>1. stack' = Append(stack, f)
      BY <1>2 DEF Push
    <2> HIDE DEF f
    <2> QED
      BY <1>1, <2>1, OwnRange, SeqWiden
  <1>3. ASSUME stack # <<>>, Pop PROVE Len(stack') = Len(stack) - 1
    BY <1>1, <1>3, PopProperties DEF Pop
  <1>4. ASSUME Replace(fn, kids, at) PROVE Len(stack') = Len(stack)
    BY <1>1, <1>4 DEF Replace
  <1> QED
    BY <1>2, <1>3, <1>4

(* Every step is paid for in one of these ways, unless the parse has returned. *)
LEMMA WorkStep ==
  ASSUME Inv, Next, ~Done
  PROVE  Work' < Work
  <1>0. Inv' /\ toks' = toks
    BY NextInv, StreamKept
  <1>1. /\ Len(stack) \in Nat /\ (stack = <<>> <=> Len(stack) = 0) /\ Owed \in 0..1
        /\ ctl # "Return" => Owed = 0
        /\ Len(stack') \in Nat /\ Owed' \in 0..1 /\ (ctl' # "Return" => Owed' = 0)
    BY <1>0, WorkFacts, MeasuredNext DEF Measured
  <1>2. /\ pos \in Nat \ {0}
        /\ \A k \in Nat : After(k) >= pos /\ After(k) \in Nat
        /\ Peek # "EOF" => After(1) = pos + 1 /\ \A k \in Nat \ {0} : After(k) > pos
        /\ toks[After(1)] # "EOF" => After(3) > pos + 1 /\ After(2) > pos + 1
        /\ Peek = toks[After(0)]
    BY Advances DEF Inv, After, Peek
  <1>3. /\ ctl = "Return" => Duty(ctl) = 1
        /\ ctl' = "Return" => Duty(ctl)' = 1
        /\ ctl' \in {"Failed", "Accepted"} => Duty(ctl)' = 0
    BY DEF Duty
  <1>4. ASSUME ctl \in Running, pos' > pos,
               \/ stack' = stack \/ (stack # <<>> /\ Pop)
               \/ \E fn, kids, at : Push(fn, kids, at) \/ Replace(fn, kids, at)
        PROVE  Work' < Work
    <2>1. Len(stack') <= Len(stack) + 1
      <3>1. CASE stack' = stack \/ (stack # <<>> /\ Pop)
        BY <1>1, <3>1, Depths
      <3>2. ASSUME NEW fn, NEW kids, NEW at, Push(fn, kids, at) \/ Replace(fn, kids, at)
            PROVE  Len(stack') <= Len(stack) + 1
        BY <1>1, <3>2, Depths
      <3> QED
        BY <1>4, <3>1, <3>2
    <2> QED
      BY <1>0, <1>4, <2>1, PaidByToken
  <1>5. ASSUME ctl = "Return" \/ ctl = "Path", pos' = pos, ctl' = "Return", stack # <<>>, Pop
        PROVE  Work' < Work
    <2>1. Len(stack') = Len(stack) - 1
      BY <1>5, Depths
    <2>2. Duty(ctl) = 1 /\ Duty(ctl)' = 1
      BY <1>5 DEF Duty
    <2>3. 2 * Len(stack') + Duty(ctl)' + Owed' < 2 * Len(stack) + Duty(ctl) + Owed
      BY <1>1, <2>1, <2>2
    <2> QED
      BY <1>0, <1>5, <2>3, PaidByMethod
  <1>6. ASSUME ctl \in Running, Fail
        PROVE  Work' < Work
    <2>1. ctl' = "Failed" /\ pos' = pos /\ Len(stack') = 0 /\ Duty(ctl) \in Nat \ {0}
      BY <1>6, WorkFacts DEF Fail, Measured
    <2>2. 2 * Len(stack') + Duty(ctl)' + Owed' < 2 * Len(stack) + Duty(ctl) + Owed
      BY <1>1, <1>3, <2>1
    <2> QED
      BY <1>0, <2>1, <2>2, PaidByMethod
  <1>7. CASE Descend
    <2>1. ctl \in Delegates /\ Push(ctl, <<>>, pos) /\ pos' = pos /\ ctl' = Callee(ctl)
      BY <1>7 DEF Descend, Start
    <2>2. Len(stack') = Len(stack) + 1
      BY <2>1, Depths
    <2>3. Duty(ctl) \in Nat /\ Duty(ctl)' \in Nat /\ Duty(ctl)' + 3 <= Duty(ctl) /\ ctl # "Return" /\ ctl' # "Return"
      BY <2>1 DEF Duty, Delegates, Callee
    <2>4. 2 * Len(stack') + Duty(ctl)' + Owed' < 2 * Len(stack) + Duty(ctl) + Owed
      BY <1>1, <2>2, <2>3
    <2> QED
      BY <1>0, <2>1, <2>4, PaidByMethod
  <1>8. CASE Negation
    <2>1. CASE Peek = "Not"
      BY <1>2, <1>4, <1>8, <2>1 DEF Negation, Consume, Running
    <2>2. CASE Peek # "Not"
      <3>1. ctl = "Not" /\ ctl' = "Comparison" /\ pos' = pos /\ stack' = stack
        BY <1>8, <2>2 DEF Negation, Start
      <3>2. Duty(ctl) = 8 /\ Duty(ctl)' = 7
        BY <3>1 DEF Duty
      <3>3. 2 * Len(stack') + Duty(ctl)' + Owed' < 2 * Len(stack) + Duty(ctl) + Owed
        BY <1>1, <3>1, <3>2
      <3> QED
        BY <1>0, <3>1, <3>3, PaidByMethod
    <2> QED
      BY <2>1, <2>2
  <1>9. CASE Literal
    BY <1>2, <1>4, <1>9 DEF Literal, Consume, Running, LiteralTokens
  <1>10. CASE Parenthesis \/ OpenArray \/ OpenClassCall \/ OpenMemberOf \/ StartPath
    <2>0. OpenClassCall => toks[After(0)] = "Class"
      BY DEF OpenClassCall, Ahead
    <2>1. ctl \in Running /\ Peek # "EOF"
      BY <1>2, <1>10, <2>0 DEF Parenthesis, OpenArray, OpenClassCall, OpenMemberOf, StartPath, Running, MemberOfTokens
    <2>2. /\ \E fn, kids, at : Push(fn, kids, at)
          /\ pos' \in {After(1), After(2), After(4)}
      BY <1>10 DEF Parenthesis, OpenArray, OpenClassCall, OpenMemberOf, StartPath, Consume
    <2>3. pos' > pos
      BY <1>2, <2>1, <2>2
    <2> QED
      BY <1>4, <2>1, <2>2, <2>3
  <1>11. CASE NameHop \/ MemberOfHop
    <2>0. NameHop => toks[After(1)] = "Name"
      BY DEF NameHop, Ahead
    <2>1. ctl \in Running /\ toks[After(1)] # "EOF" /\ pos' \in {After(2), After(3)}
      BY <1>2, <1>11, <2>0 DEF NameHop, MemberOfHop, Running, MemberOfTokens, Consume
    <2>2. \E fn, kids, at : Push(fn, kids, at) \/ Replace(fn, kids, at)
      BY <1>11 DEF NameHop, MemberOfHop
    <2>3. pos' > pos
      BY <1>2, <2>1
    <2> QED
      BY <1>4, <2>1, <2>2, <2>3
  <1>12. CASE EndPath
    <2>1. stack # <<>>
      BY <1>12 DEF EndPath, Inv, ControlOK, Running
    <2> QED
      BY <1>5, <1>12, <2>1 DEF EndPath, Build
  <1>13. CASE HopDone
    <2>1. /\ ctl = "Return" /\ stack # <<>> /\ Top.fn = "Path" /\ ctl' = "Path" /\ pos' = pos
          /\ Replace("Path", Append(Top.kids, ret), Top.at)
      BY <1>13 DEF HopDone, Awaiting, Start
    <2>2. Owed = 1 /\ Owed' = 0 /\ Duty(ctl) = 1 /\ Duty(ctl)' = 1 /\ Len(stack') = Len(stack)
      BY <1>1, <2>1, Depths DEF Owed, Duty
    <2>3. 2 * Len(stack') + Duty(ctl)' + Owed' < 2 * Len(stack) + Duty(ctl) + Owed
      BY <1>1, <2>2
    <2> QED
      BY <1>0, <2>1, <2>3, PaidByMethod
  <1>14. CASE ExprDone
    <2>1. CASE Peek = "Question"
      BY <1>2, <1>4, <1>14, <2>1 DEF ExprDone, Awaiting, Consume, Running
    <2>2. CASE Peek # "Question"
      BY <1>5, <1>14, <2>2 DEF ExprDone, Awaiting, Pass
    <2> QED
      BY <2>1, <2>2
  <1>15. CASE TrueBranchDone \/ BranchItemDone \/ LeftDone \/ NextTerm
              \/ \E fn \in {"Or", "And"} : ChainOperandDone(fn)
    <2>1. /\ ctl \in Running /\ Peek # "EOF" /\ pos' = After(1)
          /\ \E fn, kids, at : Replace(fn, kids, at)
      BY <1>15 DEF TrueBranchDone, BranchItemDone, LeftDone, NextTerm, ChainOperandDone, Awaiting, Consume,
         Running, ComparisonOps
    <2> QED
      BY <1>2, <1>4, <2>1
  <1>16. CASE FalseBranchDone \/ BranchDone \/ NotDone \/ RightDone \/ NoComparison \/ NoTerm
              \/ \E fn \in {"Or", "And"} : ChainDone(fn)
    <2>1. ctl = "Return" /\ stack # <<>> /\ pos' = pos /\ Pop /\ ctl' = "Return"
      BY <1>16 DEF FalseBranchDone, BranchDone, NotDone, RightDone, NoComparison, NoTerm, ChainDone, Awaiting,
         Build, Pass
    <2> QED
      BY <1>5, <2>1
  <1>17. CASE TermDone
    <2>1. /\ ctl = "Return" /\ stack # <<>> /\ Top.fn = "Additive" /\ Top.kids # <<>> /\ ctl' = "Return" /\ pos' = pos
          /\ Replace("Additive", <<>>, Top.at)
      BY <1>17 DEF TermDone, Awaiting, Build
    <2>2. Len(stack') = Len(stack) /\ Len(stack) \in 1..Len(stack)
      BY <1>1, <2>1, Depths
    <2>3. Top'.fn = "Additive" /\ Top'.kids = <<>>
      BY <2>1, <2>2 DEF Replace, Frame, Top
    <2>4. Owed = 1 /\ Owed' = 0 /\ Duty(ctl) = 1 /\ Duty(ctl)' = 1
      BY <1>3, <2>1, <2>3 DEF Owed
    <2>5. 2 * Len(stack') + Duty(ctl)' + Owed' < 2 * Len(stack) + Duty(ctl) + Owed
      BY <1>1, <2>2, <2>4
    <2> QED
      BY <1>0, <2>1, <2>5, PaidByMethod
  <1>18. CASE CloseParen \/ CloseArray \/ CloseClassCall \/ CloseMemberOf
    <2>1. ctl \in Running /\ Peek # "EOF" /\ pos' = After(1) /\ stack # <<>> /\ Pop
      BY <1>18 DEF CloseParen, CloseArray, CloseClassCall, CloseMemberOf, CloseCall, Awaiting, Consume, Running
    <2> QED
      BY <1>2, <1>4, <2>1
  <1>19. CASE BadAtom \/ BadHop \/ MissingCloser \/ ConditionMisplaced
    <2>1. ctl \in Running /\ Fail
      BY <1>19 DEF BadAtom, BadHop, MissingCloser, ConditionMisplaced, NeedsOperand, Awaiting, Running
    <2> QED
      BY <1>6, <2>1
  <1>20. CASE Finish
    <2>1. ctl = "Return" /\ ctl' \in {"Accepted", "Failed"} /\ pos' = pos /\ stack' = stack /\ stack = <<>>
      BY <1>20 DEF Finish
    <2>2. 2 * Len(stack') + Duty(ctl)' + Owed' < 2 * Len(stack) + Duty(ctl) + Owed
      BY <1>1, <1>3, <2>1
    <2> QED
      BY <1>0, <2>1, <2>2, PaidByMethod
  <1> QED
    BY <1>7, <1>8, <1>9, <1>10, <1>11, <1>12, <1>13, <1>14, <1>15, <1>16, <1>17, <1>18, <1>19, <1>20 DEF Next

(* Whatever the tokens: the parser never backs up (it is one pass over them),  *)
(* takes 22 steps a token at most, and a node, once built, is never touched    *)
(* again but by the array it becomes.                                          *)
THEOREM NeverBacktracks == Spec => NoBacktracking
  <1> DEFINE A == /\ pos' >= pos
                  /\ Work' \in 0..Work - 1
                  /\ Len(nodes') >= Len(nodes)
                  /\ \A i \in 1..Len(nodes) : nodes'[i] = nodes[i] \/ (i = ret /\ Awaiting("Array"))
  <1>1. Inv /\ [Next]_vars => [A]_vars
    <2> SUFFICES ASSUME Inv, [Next]_vars, ~UNCHANGED vars PROVE A
      OBVIOUS
    <2>1. Next /\ ~Done
      BY DEF Done
    <2>2. Work \in Int /\ Work' \in Nat
      <3>1. Measured' => (Work \in Nat)'
        BY WorkNat, PTL
      <3> QED
        BY <3>1, WorkFacts, MeasuredNext, NextInv, WorkNat
    <2>3. Work' \in 0..Work - 1
      BY <2>1, <2>2, WorkStep
    <2> QED
      BY <2>3, Forward, ArenaStep, ArenaKept
  <1>2. Spec => []Inv
    <2>1. Init => Inv
      BY EnteredInv, StreamsAssumption DEF Init, Entered
    <2> QED
      BY <2>1, NextInv, PTL DEF Spec
  <1>3. [][A]_vars => NoBacktracking
    BY DEF NoBacktracking
  <1> HIDE DEF A
  <1> QED
    BY <1>1, <1>2, <1>3, PTL DEF Spec
-----------------------------------------------------------------------------
(* There is room for one more frame when a method starts.                      *)
LEMMA Room ==
  ASSUME Inv, Depth, ctl \in Running \ {"Return"}
  PROVE  Len(stack) + 1 <= 7 * (pos - 1) + Rank(ctl) /\ Len(stack) \in Nat
  <1>1. Len(stack) \in Nat /\ pos \in Nat \ {0} /\ Rank(ctl) \in 0..6
    BY LenProperties, Advances, RankRange DEF Inv, StackOK
  <1>2. CASE stack = <<>>
    <2>1. ctl = "Expr" /\ Len(stack) = 0
      BY <1>2, EmptySeq DEF Inv, ControlOK
    <2>2. Rank("Expr") = 1
      BY DEF Rank
    <2> QED
      BY <1>1, <2>1, <2>2
  <1>3. CASE stack # <<>>
    <2>1. Len(stack) \in 1..Len(stack) /\ Shallow(Top, Len(stack), pos) /\ Top.fn \in FrameFns
      BY <1>1, <1>3, TopFrame, EmptySeq DEF Depth, Top, Inv, StackOK
    <2>2. Top.at \in Nat /\ Rank(Top.fn) \in 0..6
      BY <1>3, TopFrame, RankRange
    <2>3. Top.at \in Int /\ pos \in Int /\ Len(stack) \in Int
      BY <1>1, <2>2
    <2>4. CASE Top.fn \in PastToken
      <3>1. Len(stack) <= 7 * (Top.at - 1) + Rank(Top.fn) /\ Top.at < pos
        BY <2>1, <2>4 DEF Shallow
      <3> QED
        BY <1>1, <2>2, <2>3, <3>1, NextToken, Zenon
    <2>5. CASE Top.fn \notin PastToken
      <3>1. Top.fn \in Delegates
        BY <2>1, <2>5 DEF FrameFns, PastToken
      <3>2. \/ ctl = Waits(Top.fn)
            \/ ctl = "Comparison" /\ Waits(Top.fn) = "Not"
        BY <1>3, <2>5 DEF Inv, ControlOK, Top, PastToken
      <3>3. Waits(Top.fn) = Callee(Top.fn)
        BY <3>1 DEF Waits, Delegates
      <3>4. Rank(ctl) = Rank(Top.fn) + 1
        BY <3>1, <3>2, <3>3, RankFacts
      <3>5. Len(stack) <= 7 * (Top.at - 1) + Rank(Top.fn) /\ Top.at <= pos
        BY <2>1 DEF Shallow
      <3> QED
        BY <1>1, <2>2, <2>3, <3>4, <3>5, NextMethod, Zenon
    <2> QED
      BY <2>4, <2>5
  <1> QED
    BY <1>2, <1>3

-----------------------------------------------------------------------------
(* The kinds of step a stack can take.                                         *)
Pushed ==
  \E fn \in FrameFns, at \in Nat :
    /\ Push(fn, <<>>, at)
    /\ Shallow(Frame(fn, <<>>, at), Len(stack) + 1, pos')

Replaced ==
  /\ stack # <<>>
  /\ \E kids : \E fn \in FrameFns, at \in Nat :
       /\ Replace(fn, kids, at)
       /\ Rank(fn) = Rank(Top.fn)
       /\ Top.at <= at /\ at <= pos'
       /\ fn \in PastToken => at < pos'

(* A step of any of these kinds keeps every frame shallow.                     *)
LEMMA StackKept ==
  ASSUME Inv, Depth, pos' >= pos, pos' \in Nat,
         \/ stack' = <<>> \/ stack' = stack
         \/ (stack # <<>> /\ Pop) \/ Pushed \/ Replaced
  PROVE  Depth'
  <1>1. stack \in Seq(FrameType(Len(toks))) /\ Len(stack) \in Nat
    BY LenProperties DEF Inv, StackOK
  <1>2. ASSUME NEW k \in 1..Len(stack)
        PROVE  stack[k].at \in Nat /\ Shallow(stack[k], k, pos) /\ pos \in Nat
    <2>1. stack[k] \in FrameType(Len(toks)) /\ pos \in Nat
      BY <1>1, ElementOfSeq, Advances
    <2>2. stack[k].at \in Nat
      BY <2>1 DEF FrameType
    <2> QED
      BY <2>1, <2>2 DEF Depth
  <1>3. \A k \in 1..Len(stack) : Shallow(stack[k], k, pos')
    BY <1>2 DEF Shallow
  <1>4. CASE stack' = <<>> \/ stack' = stack
    BY <1>3, <1>4, EmptySeq DEF Depth
  <1>5. CASE stack # <<>> /\ Pop
    <2>1. /\ Len(stack') = Len(stack) - 1
          /\ \A k \in 1..Len(stack) - 1 : stack'[k] = stack[k]
      BY <1>1, <1>5, PopProperties DEF Pop
    <2> QED
      BY <1>1, <1>3, <2>1 DEF Depth
  <1>6. CASE Pushed
    <2>1. PICK fn \in FrameFns, at \in Nat :
            /\ Push(fn, <<>>, at)
            /\ Shallow(Frame(fn, <<>>, at), Len(stack) + 1, pos')
      BY <1>6 DEF Pushed
    <2> DEFINE f == Frame(fn, <<>>, at)
    <2>2. stack' = Append(stack, f) /\ Shallow(f, Len(stack) + 1, pos')
      BY <2>1 DEF Push
    <2> HIDE DEF f
    <2>3. /\ Len(stack') = Len(stack) + 1 /\ stack'[Len(stack) + 1] = f
          /\ \A k \in 1..Len(stack) : stack'[k] = stack[k]
      BY <1>1, <2>2, OwnRange, SeqWiden
    <2> QED
      BY <1>1, <1>3, <2>2, <2>3 DEF Depth
  <1>7. CASE Replaced
    <2>1. PICK kids : \E fn \in FrameFns, at \in Nat :
            /\ Replace(fn, kids, at)
            /\ Rank(fn) = Rank(Top.fn)
            /\ Top.at <= at /\ at <= pos'
            /\ fn \in PastToken => at < pos'
      BY <1>7 DEF Replaced
    <2>0. PICK fn \in FrameFns, at \in Nat :
            /\ Replace(fn, kids, at)
            /\ Rank(fn) = Rank(Top.fn)
            /\ Top.at <= at /\ at <= pos'
            /\ fn \in PastToken => at < pos'
      BY <2>1
    <2> DEFINE f == Frame(fn, kids, at)
    <2>2. stack' = [stack EXCEPT ![Len(stack)] = f] /\ f.fn = fn /\ f.at = at
      BY <2>0 DEF Replace, Frame
    <2> HIDE DEF f
    <2>3. Len(stack) \in 1..Len(stack)
      BY <1>1, <1>7, EmptySeq DEF Replaced
    <2>4. Shallow(f, Len(stack), pos')
      <3>1. Len(stack) <= 7 * (Top.at - 1) + Rank(Top.fn) /\ Top.at \in Nat /\ Rank(fn) \in 0..6
        BY <1>2, <2>3, RankRange DEF Shallow, Top
      <3>2. Len(stack) <= 7 * (at - 1) + Rank(fn)
        <4>1. Len(stack) <= 7 * (Top.at - 1) + Rank(fn) /\ Top.at <= at
          BY <2>0, <3>1
        <4>2. Len(stack) \in Int /\ Top.at \in Int /\ at \in Int /\ Rank(fn) \in Int
          BY <1>1, <3>1
        <4> QED
          BY <4>1, <4>2, Widen
      <3> QED
        BY <2>0, <2>2, <3>2 DEF Shallow
    <2>5. /\ Len(stack') = Len(stack)
          /\ \A k \in 1..Len(stack) : stack'[k] = IF k = Len(stack) THEN f ELSE stack[k]
      BY <1>1, <2>2, <2>3
    <2> QED
      BY <1>1, <1>3, <2>4, <2>5 DEF Depth
  <1> QED
    BY <1>4, <1>5, <1>6, <1>7

-----------------------------------------------------------------------------
(* A method that starts another one at once, and an atom that has consumed a   *)
(* token, find room for a frame;                                               *)
LEMMA PushRoom ==
  ASSUME Inv, Depth, ctl \in Running \ {"Return"}, NEW fn \in FrameFns, Rank(fn) = Rank(ctl),
         NEW at \in {pos, pos + 1}, Push(fn, <<>>, at), pos' \in Nat,
         at <= pos', fn \in PastToken => at < pos'
  PROVE  Pushed
  <1> DEFINE f == Frame(fn, <<>>, at)
  <1>1. f.fn = fn /\ f.at = at
    BY DEF Frame
  <1>2. pos \in Nat /\ at \in Nat /\ pos <= at
    <2>1. pos \in Nat
      BY Advances
    <2> QED
      BY <2>1
  <1>3. Len(stack) \in Nat /\ Len(stack) + 1 <= 7 * (pos - 1) + Rank(fn)
    BY Room
  <1>4. Len(stack) + 1 <= 7 * (at - 1) + Rank(fn)
    <2>1. Len(stack) + 1 \in Int /\ pos \in Int /\ at \in Int /\ Rank(fn) \in Int
      BY <1>2, <1>3, RankRange
    <2> QED
      BY <1>2, <1>3, <2>1, Widen
  <1>5. Shallow(f, Len(stack) + 1, pos')
    BY <1>1, <1>4 DEF Shallow
  <1> QED
    BY <1>2, <1>5 DEF Pushed

(* one that goes on keeps its frame where it was.                              *)
LEMMA ReplaceRoom ==
  ASSUME Inv, Depth, stack # <<>>, NEW fn \in FrameFns, Rank(fn) = Rank(Top.fn),
         NEW kids, NEW at \in {Top.at, pos}, Replace(fn, kids, at), pos' \in Nat, pos' >= pos,
         fn \in PastToken => pos' > pos \/ (Top.fn \in PastToken /\ at = Top.at)
  PROVE  Replaced
  <1>1. Top.at \in Nat /\ pos \in Nat
    BY TopFrame, Advances
  <1>2. Len(stack) \in 1..Len(stack)
    BY LenProperties, EmptySeq DEF Inv, StackOK
  <1>3. Top.at <= pos /\ (Top.fn \in PastToken => Top.at < pos)
    BY <1>2 DEF Depth, Shallow, Top
  <1>4. at \in Nat /\ Top.at <= at /\ at <= pos' /\ (fn \in PastToken => at < pos')
    BY <1>1, <1>3
  <1> QED
    BY <1>4 DEF Replaced

LEMMA StackStep ==
  ASSUME Inv, Depth, [Next]_vars
  PROVE  \/ stack' = <<>> \/ stack' = stack
         \/ (stack # <<>> /\ Pop) \/ Pushed \/ Replaced
  <1>0. /\ pos \in Nat \ {0}
        /\ \A k \in Nat : After(k) >= pos /\ After(k) \in Nat
        /\ Peek # "EOF" => After(1) = pos + 1 /\ \A k \in Nat \ {0} : After(k) > pos
        /\ toks[After(1)] # "EOF" => After(3) > pos + 1 /\ After(2) > pos + 1
    BY Advances
  <1>1. CASE Descend
    <2>1. ctl \in Delegates /\ Push(ctl, <<>>, pos) /\ pos' = pos
      BY <1>1 DEF Descend
    <2>2. ctl \in Running \ {"Return"} /\ ctl \in FrameFns /\ ctl \notin PastToken
      BY <2>1 DEF Running, Delegates, FrameFns, PastToken
    <2> QED
      BY <1>0, <2>1, <2>2, PushRoom
  <1>2. CASE Negation
    <2>1. ctl = "Not" /\ ctl \in Running \ {"Return"} /\ "Not" \in FrameFns
      BY <1>2 DEF Negation, Running, FrameFns
    <2>2. CASE Peek = "Not"
      <3>1. Push("Not", <<>>, pos) /\ pos' = After(1)
        BY <1>2, <2>2 DEF Negation, Consume
      <3> QED
        BY <1>0, <2>1, <2>2, <3>1, PushRoom
    <2>3. CASE Peek # "Not"
      BY <1>2, <2>3 DEF Negation
    <2> QED
      BY <2>2, <2>3
  <1>3. CASE Parenthesis \/ OpenArray \/ OpenClassCall \/ OpenMemberOf \/ StartPath
    <2>1. ctl \in Running \ {"Return"} /\ ctl = "Atom"
      BY <1>3 DEF Parenthesis, OpenArray, OpenClassCall, OpenMemberOf, StartPath, Running
    <2>2. Peek # "EOF"
      <3>1. ASSUME OpenClassCall PROVE Peek = "Class"
        <4>1. toks[After(0)] = "Class"
          BY <3>1 DEF OpenClassCall, Ahead
        <4>2. After(0) = pos
          BY DEF Inv, After
        <4> QED
          BY <4>1, <4>2 DEF Peek
      <3> QED
        BY <1>3, <3>1 DEF Parenthesis, OpenArray, OpenMemberOf, StartPath, MemberOfTokens
    <2>3. \E fn \in {"Paren", "Array", "ClassCall", "MemberOf", "Path"} : Push(fn, <<>>, pos)
      BY <1>3 DEF Parenthesis, OpenArray, OpenClassCall, OpenMemberOf, StartPath
    <2>4. pos' \in {After(1), After(2), After(4)}
      BY <1>3 DEF Parenthesis, OpenArray, OpenClassCall, OpenMemberOf, StartPath, Consume
    <2>5. pos' > pos /\ pos' \in Nat
      BY <1>0, <2>2, <2>4
    <2>6. \A fn \in {"Paren", "Array", "ClassCall", "MemberOf", "Path"} :
            fn \in FrameFns /\ Rank(fn) = Rank("Atom")
      BY DEF FrameFns, Rank
    <2> QED
      BY <1>0, <2>1, <2>3, <2>5, <2>6, PushRoom
  <1>4. CASE MemberOfHop
    <2>1. /\ ctl = "Path" /\ ctl \in Running \ {"Return"} /\ pos' = After(3)
          /\ Push("MemberOf", <<>>, pos + 1) /\ toks[After(1)] \in MemberOfTokens
      BY <1>4 DEF MemberOfHop, Running, Consume
    <2>2. toks[After(1)] # "EOF"
      BY <2>1 DEF MemberOfTokens
    <2>3. "MemberOf" \in FrameFns /\ Rank("MemberOf") = Rank("Path")
      BY DEF FrameFns, Rank
    <2> QED
      BY <1>0, <2>1, <2>2, <2>3, PushRoom
  <1>5. CASE Literal \/ Finish \/ Done \/ UNCHANGED vars
    BY <1>5 DEF Literal, Finish, Done, vars
  <1>6. CASE BadAtom \/ BadHop \/ MissingCloser \/ ConditionMisplaced
    BY <1>6 DEF BadAtom, BadHop, MissingCloser, ConditionMisplaced, Fail
  <1>7. CASE NameHop \/ EndPath
    <2>1. stack # <<>> /\ Top.fn = "Path"
      <3>1. ctl = "Path"
        BY <1>7 DEF NameHop, EndPath
      <3>2. stack # <<>> /\ (ctl = Waits(Top.fn) \/ Top.fn = "Path")
        BY <3>1 DEF Inv, ControlOK, Running, Top
      <3> QED
        BY <3>1, <3>2, TopFrame, WaitsRange
    <2>2. CASE EndPath
      BY <2>1, <2>2 DEF EndPath
    <2>3. CASE NameHop
      <3>1. Replace("Path", Append(Top.kids, Len(nodes) + 1), Top.at) /\ pos' = After(2)
        BY <2>3 DEF NameHop, Consume
      <3>2. "Path" \in FrameFns /\ "Path" \in PastToken
        BY DEF FrameFns, PastToken
      <3> QED
        BY <1>0, <2>1, <3>1, <3>2, ReplaceRoom
    <2> QED
      BY <1>7, <2>2, <2>3
  <1>8. CASE HopDone
    <2>1. stack # <<>> /\ Top.fn = "Path" /\ pos' = pos /\ Replace("Path", Append(Top.kids, ret), Top.at)
      BY <1>8 DEF HopDone, Awaiting
    <2>2. "Path" \in FrameFns /\ "Path" \in PastToken
      BY DEF FrameFns, PastToken
    <2> QED
      BY <1>0, <2>1, <2>2, ReplaceRoom
  <1>9. CASE ExprDone
    <2>1. stack # <<>> /\ Top.fn = "Expr"
      BY <1>9 DEF ExprDone, Awaiting
    <2>2. CASE Peek = "Question"
      <3>1. Replace("TrueBranch", <<ret>>, Top.at) /\ pos' = After(1)
        BY <1>9, <2>2 DEF ExprDone, Consume
      <3>2. "TrueBranch" \in FrameFns /\ Rank("TrueBranch") = Rank("Expr")
        BY DEF FrameFns, Rank
      <3>3. pos' > pos /\ pos' \in Nat
        BY <1>0, <2>2, <3>1
      <3> QED
        BY <1>0, <2>1, <3>1, <3>2, <3>3, ReplaceRoom
    <2>3. CASE Peek # "Question"
      BY <1>9, <2>1, <2>3 DEF ExprDone
    <2> QED
      BY <2>2, <2>3
  <1>10. CASE TrueBranchDone
    <2>1. /\ stack # <<>> /\ Top.fn = "TrueBranch" /\ Peek = "Colon" /\ pos' = After(1)
          /\ Replace("FalseBranch", Append(Top.kids, ret), Top.at)
      BY <1>10 DEF TrueBranchDone, Awaiting, Consume
    <2>2. "FalseBranch" \in FrameFns /\ Rank("TrueBranch") = Rank("FalseBranch")
      BY DEF FrameFns, Rank
    <2>3. pos' > pos /\ pos' \in Nat
      BY <1>0, <2>1
    <2> QED
      BY <1>0, <2>1, <2>2, <2>3, ReplaceRoom
  <1>11. CASE BranchItemDone
    <2>1. /\ stack # <<>> /\ Top.fn = "Branch" /\ pos' = After(1)
          /\ Replace("Branch", Append(Top.kids, ret), Top.at)
      BY <1>11 DEF BranchItemDone, Awaiting, Consume
    <2>2. "Branch" \in FrameFns /\ "Branch" \notin PastToken
      BY DEF FrameFns, Delegates, PastToken
    <2> QED
      BY <1>0, <2>1, <2>2, ReplaceRoom
  <1>12. ASSUME NEW fn \in {"Or", "And"}, ChainOperandDone(fn) \/ ChainDone(fn)
         PROVE  stack' = stack \/ (stack # <<>> /\ Pop) \/ Replaced
    <2>1. stack # <<>> /\ Top.fn = fn
      BY <1>12 DEF ChainOperandDone, ChainDone, Awaiting
    <2>2. CASE ChainDone(fn)
      BY <2>1, <2>2 DEF ChainDone
    <2>3. CASE ChainOperandDone(fn)
      <3>1. Replace(fn, Append(Top.kids, ret), Top.at) /\ pos' = After(1)
        BY <2>3 DEF ChainOperandDone, Consume
      <3>2. fn \in FrameFns /\ fn \notin PastToken
        BY DEF FrameFns, Delegates, PastToken
      <3> QED
        BY <1>0, <2>1, <3>1, <3>2, ReplaceRoom
    <2> QED
      BY <1>12, <2>2, <2>3
  <1>13. CASE LeftDone \/ NextTerm \/ TermDone
    <2>1. /\ stack # <<>> /\ Top.fn \in {"Comparison", "Additive"} /\ pos' \in {pos, After(1)}
          /\ \E kids : \E at \in {Top.at, pos} : Replace(Top.fn, kids, at)
      BY <1>13 DEF LeftDone, NextTerm, TermDone, Awaiting, Consume
    <2>2. PICK kids : \E at \in {Top.at, pos} : Replace(Top.fn, kids, at)
      BY <2>1
    <2>3. PICK at \in {Top.at, pos} : Replace(Top.fn, kids, at)
      BY <2>2
    <2>4. Top.fn \in FrameFns /\ Top.fn \notin PastToken
      BY <2>1 DEF FrameFns, Delegates, PastToken
    <2>5. pos' \in Nat /\ pos' >= pos
      BY <1>0, <2>1
    <2> QED
      BY <2>1, <2>3, <2>4, <2>5, ReplaceRoom
  <1>14. CASE FalseBranchDone \/ BranchDone \/ NotDone \/ RightDone \/ NoComparison \/ NoTerm
             \/ CloseParen \/ CloseArray \/ CloseClassCall \/ CloseMemberOf
    BY <1>14 DEF FalseBranchDone, BranchDone, NotDone, RightDone, NoComparison, NoTerm,
       CloseParen, CloseArray, CloseClassCall, CloseMemberOf, CloseCall, Awaiting
  <1> QED
    BY <1>1, <1>2, <1>3, <1>4, <1>5, <1>6, <1>7, <1>8, <1>9, <1>10, <1>11, <1>12, <1>13, <1>14
       DEF Next

LEMMA DepthKept == Inv /\ Depth /\ [Next]_vars => Depth'
  <1> SUFFICES ASSUME Inv, Depth, [Next]_vars PROVE Depth'
    OBVIOUS
  <1>1. pos' >= pos /\ pos' \in Nat
    <2>1. Inv'
      BY NextInv
    <2> QED
      BY <2>1, Forward DEF Inv
  <1> QED
    BY <1>1, StackStep, StackKept

(* However deep the expression nests, the Go call stack holds at most seven    *)
(* parse methods for every token consumed.                                     *)
THEOREM StackAlwaysBounded == Spec => []StackBound
  <1>1. Init => Inv /\ Depth
    <2>1. Init => Inv
      BY EnteredInv, StreamsAssumption DEF Init, Entered
    <2>2. Init => Depth
      BY EmptySeq DEF Init, Depth
    <2> QED
      BY <2>1, <2>2
  <1>2. Inv /\ Depth => StackBound
    <2> SUFFICES ASSUME Inv, Depth PROVE Len(stack) <= 7 * (pos - 1) + 5
      BY DEF StackBound
    <2>1. pos \in Nat \ {0} /\ Len(stack) \in Nat
      BY Advances, LenProperties DEF Inv, StackOK
    <2>2. CASE stack = <<>>
      BY <2>1, <2>2, EmptySeq
    <2>3. CASE stack # <<>>
      <3>1. Len(stack) \in 1..Len(stack) /\ Top.fn \in FrameFns /\ Top.at \in Nat
        BY <2>1, <2>3, EmptySeq, TopFrame DEF Inv, StackOK
      <3>2. Shallow(Top, Len(stack), pos)
        BY <3>1 DEF Depth, Top
      <3>3. Rank(Top.fn) \in 0..6 /\ (Rank(Top.fn) = 6 => Top.fn \in PastToken)
        BY <3>1, RankRange, RankFacts
      <3> QED
        BY <2>1, <3>1, <3>2, <3>3 DEF Shallow
    <2> QED
      BY <2>2, <2>3
  <1> QED
    BY <1>1, <1>2, NextInv, DepthKept, PTL DEF Spec

-----------------------------------------------------------------------------
(* Where the tokens are that nodes and frames came from.                       *)
Binary == {"Comparison", "Additive"}
Signs(kind) == IF kind = "Additive" THEN {"Plus"} ELSE ComparisonOps

(* A node lies behind nothing yet to be read; a hop is a name behind a dot; an *)
(* operator stands between its operands.                                       *)
NodePlaced(ns, node, p) ==
  /\ node.at < p
  /\ node.kind = "NameHop" =>
       node.at - 1 \in Nat \ {0} /\ toks[node.at] = "Name" /\ toks[node.at - 1] = "Dot"
  /\ node.kind \in Binary =>
       /\ toks[node.at] = node.op /\ node.op \in Signs(node.kind)
       /\ ns[node.kids[1]].at < node.at /\ node.at < ns[node.kids[2]].at

(* A method waiting for the right operand of an operator.                      *)
HasLeft(frame) == frame.fn \in Binary /\ frame.kids # <<>>

LeftPlaced(ns, frame, p) ==
  HasLeft(frame) =>
    /\ frame.at < p /\ ns[frame.kids[1]].at < frame.at
    /\ toks[frame.at] \in Signs(frame.fn)

StackPlaced(ns, s, p) ==
  \A k \in 1..Len(s) :
    /\ s[k].at <= p /\ LeftPlaced(ns, s[k], p)
    /\ HasLeft(s[k]) => \A l \in k + 1..Len(s) : s[k].at < s[l].at

(* Whatever a method returns came from tokens behind the operator waiting.     *)
ReturnPlaced(ns, s, p, c, r) ==
  /\ c \in {"Return", "Path"} => \A k \in 1..Len(s) : s[k].at < p
  /\ c = "Return" => \A k \in 1..Len(s) : HasLeft(s[k]) => s[k].at < ns[r].at

ArenaPlaced == \A i \in 1..Len(nodes) : NodePlaced(nodes, nodes[i], pos)

Placed ==
  /\ ArenaPlaced
  /\ StackPlaced(nodes, stack, pos)
  /\ ReturnPlaced(nodes, stack, pos, ctl, ret)

(* What the invariant of the types says of operators and their operands.       *)
LEMMA OperandsThere ==
  ASSUME Inv
  PROVE  /\ nodes \in Seq(NodeType) /\ Len(nodes) \in Nat
         /\ \A i \in 1..Len(nodes) :
              /\ nodes[i] \in NodeType /\ nodes[i].at \in Nat
              /\ nodes[i].kind \in Binary => \A j \in {1, 2} :
                   /\ nodes[i].kids[j] \in 1..Len(nodes)
                   /\ nodes[nodes[i].kids[j]].kind \in SimpleKinds
<1>1. nodes \in Seq(NodeType) /\ Len(nodes) \in Nat
  BY LenProperties DEF Inv, ArenaOK
<1>2. ASSUME NEW i \in 1..Len(nodes)
      PROVE  /\ nodes[i] \in NodeType /\ nodes[i].at \in Nat
             /\ nodes[i].kind \in Binary => \A j \in {1, 2} :
                  /\ nodes[i].kids[j] \in 1..Len(nodes)
                  /\ nodes[nodes[i].kids[j]].kind \in SimpleKinds
  <2>1. nodes[i] \in NodeType /\ Fits(nodes, nodes[i])
    BY <1>1, ElementOfSeq DEF Inv, ArenaOK
  <2>2. nodes[i].at \in Nat
    BY <2>1 DEF NodeType
  <2>3. ASSUME nodes[i].kind \in Binary
        PROVE  /\ Len(nodes[i].kids) = 2
               /\ \A j : ChildKinds(nodes[i].kind, j) = SimpleKinds
    BY <2>1, <2>3 DEF Fits, ArityOK, Binary, ChildKinds
  <2>4. Len(nodes[i].kids) = 2 => 1 \in 1..Len(nodes[i].kids) /\ 2 \in 1..Len(nodes[i].kids)
    OBVIOUS
  <2> QED BY <2>1, <2>2, <2>3, <2>4 DEF Fits
<1> QED BY <1>1, <1>2

LEMMA LeftThere ==
  ASSUME Inv
  PROVE  /\ stack \in Seq(FrameType(Len(toks))) /\ Len(stack) \in Nat
         /\ \A k \in 1..Len(stack) :
              /\ stack[k].at \in Nat
              /\ HasLeft(stack[k]) =>
                   /\ stack[k].kids[1] \in 1..Len(nodes)
                   /\ nodes[stack[k].kids[1]].kind \in SimpleKinds
<1>1. stack \in Seq(FrameType(Len(toks))) /\ Len(stack) \in Nat
  BY LenProperties DEF Inv, StackOK
<1>2. ASSUME NEW k \in 1..Len(stack)
      PROVE  /\ stack[k].at \in Nat
             /\ HasLeft(stack[k]) =>
                  /\ stack[k].kids[1] \in 1..Len(nodes)
                  /\ nodes[stack[k].kids[1]].kind \in SimpleKinds
  <2>1. stack[k] \in FrameType(Len(toks)) /\ FrameFits(nodes, stack[k])
    BY <1>1, ElementOfSeq DEF Inv, StackOK
  <2>2. stack[k].at \in Nat /\ stack[k].kids \in Seq(Nat) /\ Len(stack[k].kids) \in Nat
    BY <2>1, LenProperties DEF FrameType
  <2>3. HasLeft(stack[k]) => 1 \in 1..Len(stack[k].kids) /\ stack[k].fn \in Binary
    BY <2>2, EmptySeq DEF HasLeft
  <2>4. \A fn \in Binary : CollectedKinds(fn, 1) = SimpleKinds
    BY DEF Binary, CollectedKinds
  <2> QED BY <2>1, <2>2, <2>3, <2>4 DEF FrameFits
<1> QED BY <1>1, <1>2

(* Reading on, and adding a node, leaves the nodes there are in their places,  *)
LEMMA ArenaStays ==
  ASSUME Inv, ArenaPlaced, toks' = toks, nodes' = nodes, pos' \in Nat, pos' >= pos
  PROVE  ArenaPlaced'
<1>1. pos \in Nat /\ \A i \in 1..Len(nodes) : nodes[i].at \in Nat
  BY OperandsThere DEF Inv
<1> QED BY <1>1 DEF ArenaPlaced, NodePlaced

LEMMA ArenaGrows ==
  ASSUME Inv, ArenaPlaced, toks' = toks, pos' \in Nat, pos' >= pos,
         NEW node \in NodeType, nodes' = Append(nodes, node),
         NodePlaced(nodes, node, pos'),
         node.kind \in Binary =>
           node.kids[1] \in 1..Len(nodes) /\ node.kids[2] \in 1..Len(nodes)
  PROVE  /\ ArenaPlaced'
         /\ Len(nodes) + 1 = Len(nodes') /\ nodes'[Len(nodes) + 1] = node
         /\ \A i \in 1..Len(nodes) : nodes'[i] = nodes[i]
<1>1. /\ Len(nodes') = Len(nodes) + 1 /\ nodes'[Len(nodes) + 1] = node
      /\ \A i \in 1..Len(nodes) : nodes'[i] = nodes[i]
  BY OperandsThere, PushProperties
<1>2. /\ pos \in Nat /\ Len(nodes) \in Nat
      /\ \A i \in 1..Len(nodes) :
           /\ nodes[i].at \in Nat
           /\ nodes[i].kind \in Binary => \A j \in {1, 2} : nodes[i].kids[j] \in 1..Len(nodes)
  BY OperandsThere DEF Inv
<1>3. ASSUME NEW i \in 1..Len(nodes) PROVE NodePlaced(nodes', nodes'[i], pos')
  <2>1. NodePlaced(nodes, nodes[i], pos) /\ nodes[i].at \in Nat /\ nodes'[i] = nodes[i]
    BY <1>1, <1>2 DEF ArenaPlaced
  <2>2. nodes[i].at < pos'
    BY <1>2, <2>1 DEF NodePlaced
  <2>3. nodes[i].kind \in Binary =>
          nodes'[nodes[i].kids[1]] = nodes[nodes[i].kids[1]] /\ nodes'[nodes[i].kids[2]] = nodes[nodes[i].kids[2]]
    BY <1>1, <1>2
  <2> QED BY <2>1, <2>2, <2>3 DEF NodePlaced
<1>4. NodePlaced(nodes', node, pos')
  <2>1. node.kind \in Binary =>
          nodes'[node.kids[1]] = nodes[node.kids[1]] /\ nodes'[node.kids[2]] = nodes[node.kids[2]]
    BY <1>1
  <2> QED BY <1>1, <2>1 DEF NodePlaced
<1>5. \A i \in 1..Len(nodes') : i \in 1..Len(nodes) \/ i = Len(nodes) + 1
  BY <1>1, <1>2
<1>6. ArenaPlaced'
  <2>1. ASSUME NEW i \in 1..Len(nodes') PROVE NodePlaced(nodes', nodes'[i], pos')
    BY <1>1, <1>3, <1>4, <1>5 DEF NodePlaced
  <2> QED BY <2>1 DEF ArenaPlaced, NodePlaced
<1> QED BY <1>1, <1>6

(* and so does an array that takes over a comma list: no operator has one.     *)
LEMMA ArenaTaken ==
  ASSUME Inv, ArenaPlaced, toks' = toks, pos' \in Nat, pos' >= pos, TakenOver,
         nodes[ret].kind = "CommaList", Top.at \in Nat, Top.at < pos'
  PROVE  /\ ArenaPlaced' /\ nodes'[ret].at = Top.at
         /\ \A i \in 1..Len(nodes) : nodes[i].kind \in SimpleKinds => nodes'[i] = nodes[i]
<1> DEFINE node == [nodes[ret] EXCEPT !.kind = "ArrayLit", !.op = "LBrace", !.at = Top.at]
<1>1. ret \in 1..Len(nodes) /\ nodes' = [nodes EXCEPT ![ret] = node]
  BY DEF TakenOver
<1>2. nodes[ret] \in NodeType /\ "CommaList" \notin SimpleKinds
  BY <1>1, OperandsThere DEF SimpleKinds
<1>3. node.at = Top.at /\ node.kind = "ArrayLit"
  BY <1>2 DEF NodeType
<1> HIDE DEF node
<1>4. /\ Len(nodes') = Len(nodes) /\ nodes'[ret] = node
      /\ \A i \in 1..Len(nodes) : i # ret => nodes'[i] = nodes[i]
  BY <1>1, OperandsThere
<1>5. \A i \in 1..Len(nodes) : nodes[i].kind \in SimpleKinds => nodes'[i] = nodes[i]
  BY <1>2, <1>4
<1>6. ASSUME NEW i \in 1..Len(nodes), i # ret PROVE NodePlaced(nodes', nodes'[i], pos')
  <2>1. /\ NodePlaced(nodes, nodes[i], pos) /\ nodes[i].at \in Nat /\ nodes'[i] = nodes[i]
        /\ pos \in Nat
    BY <1>4, <1>6, OperandsThere DEF ArenaPlaced, Inv
  <2>2. nodes[i].at < pos'
    BY <2>1 DEF NodePlaced
  <2>3. nodes[i].kind \in Binary =>
          nodes'[nodes[i].kids[1]] = nodes[nodes[i].kids[1]] /\ nodes'[nodes[i].kids[2]] = nodes[nodes[i].kids[2]]
    BY <1>5, OperandsThere
  <2> QED BY <2>1, <2>2, <2>3 DEF NodePlaced
<1>7. NodePlaced(nodes', node, pos')
  BY <1>3 DEF NodePlaced, Binary
<1>8. ArenaPlaced'
  <2>1. ASSUME NEW i \in 1..Len(nodes') PROVE NodePlaced(nodes', nodes'[i], pos')
    BY <1>4, <1>6, <1>7
  <2> QED BY <2>1 DEF ArenaPlaced, NodePlaced
<1> QED BY <1>3, <1>4, <1>5, <1>8

(* The frames stay in their places too,                                        *)
LEMMA FramesStay ==
  ASSUME Inv, StackPlaced(nodes, stack, pos), NEW p \in Nat, p >= pos,
         NEW ns, \A i \in 1..Len(nodes) : nodes[i].kind \in SimpleKinds => ns[i] = nodes[i]
  PROVE  StackPlaced(ns, stack, p)
<1>1. pos \in Nat /\ \A k \in 1..Len(stack) : stack[k].at \in Nat
  BY LeftThere DEF Inv
<1>2. \A k \in 1..Len(stack) : HasLeft(stack[k]) => ns[stack[k].kids[1]] = nodes[stack[k].kids[1]]
  BY LeftThere
<1> QED BY <1>1, <1>2 DEF StackPlaced, LeftPlaced

(* when one is added, replaced or taken off.                                   *)
LEMMA FramePushed ==
  ASSUME NEW S, NEW s \in Seq(S), NEW f, NEW ns, NEW p, StackPlaced(ns, s, p),
         f.kids = <<>>, f.at <= p, \A k \in 1..Len(s) : HasLeft(s[k]) => s[k].at < f.at
  PROVE  StackPlaced(ns, Append(s, f), p)
<1>1. Len(s) \in Nat /\ s \in Seq(S \cup {f}) /\ f \in S \cup {f}
  BY LenProperties, SeqWiden
<1> DEFINE t == Append(s, f)
<1>2. Len(t) = Len(s) + 1 /\ t[Len(s) + 1] = f /\ \A k \in 1..Len(s) : t[k] = s[k]
  BY <1>1, PushProperties
<1> HIDE DEF t
<1>3. ~HasLeft(f)
  BY DEF HasLeft
<1>4. \A k \in 1..Len(t) : k \in 1..Len(s) \/ k = Len(s) + 1
  BY <1>1, <1>2
<1>5. StackPlaced(ns, t, p)
  <2>1. ASSUME NEW k \in 1..Len(t), HasLeft(t[k]), NEW l \in k + 1..Len(t) PROVE t[k].at < t[l].at
    <3>1. k \in 1..Len(s)
      BY <1>2, <1>3, <1>4, <2>1
    <3>2. l \in k + 1..Len(s) \/ l = Len(s) + 1
      BY <1>1, <1>2, <3>1
    <3>3. l \in k + 1..Len(s) => l \in 1..Len(s)
      BY <1>1, <3>1
    <3> QED BY <1>2, <2>1, <3>1, <3>2, <3>3 DEF StackPlaced
  <2>2. \A k \in 1..Len(t) : t[k].at <= p /\ LeftPlaced(ns, t[k], p)
    BY <1>2, <1>3, <1>4 DEF StackPlaced, LeftPlaced
  <2> QED BY <2>1, <2>2 DEF StackPlaced
<1> QED BY <1>5 DEF t

LEMMA FrameReplaced ==
  ASSUME NEW S, NEW s \in Seq(S), s # <<>>, NEW f, NEW ns, NEW p, StackPlaced(ns, s, p),
         f.at \in Nat, \A k \in 1..Len(s) : s[k].at \in Nat,
         f.at <= p, LeftPlaced(ns, f, p), s[Len(s)].at <= f.at
  PROVE  StackPlaced(ns, [s EXCEPT ![Len(s)] = f], p)
<1>1. Len(s) \in Nat \ {0}
  BY LenProperties, EmptySeq
<1> DEFINE t == [s EXCEPT ![Len(s)] = f]
<1>2. Len(t) = Len(s) /\ \A k \in 1..Len(s) : t[k] = IF k = Len(s) THEN f ELSE s[k]
  BY <1>1
<1> HIDE DEF t
<1>3. StackPlaced(ns, t, p)
  <2>1. ASSUME NEW k \in 1..Len(t), HasLeft(t[k]), NEW l \in k + 1..Len(t) PROVE t[k].at < t[l].at
    <3>1. k \in 1..Len(s) /\ k # Len(s) /\ l \in k + 1..Len(s) /\ l \in 1..Len(s) /\ t[k] = s[k]
      BY <1>1, <1>2, <2>1
    <3>2. s[k].at < s[l].at
      BY <2>1, <3>1 DEF StackPlaced
    <3> QED BY <1>2, <3>1, <3>2
  <2>2. \A k \in 1..Len(t) : t[k].at <= p /\ LeftPlaced(ns, t[k], p)
    BY <1>2 DEF StackPlaced
  <2> QED BY <2>1, <2>2 DEF StackPlaced
<1> QED BY <1>3 DEF t

LEMMA FramePopped ==
  ASSUME NEW S, NEW s \in Seq(S), s # <<>>, NEW ns, NEW p, StackPlaced(ns, s, p)
  PROVE  /\ StackPlaced(ns, Front(s), p) /\ Len(Front(s)) = Len(s) - 1
         /\ \A k \in 1..Len(Front(s)) : k \in 1..Len(s) - 1 /\ Front(s)[k] = s[k]
<1>1. /\ Len(s) \in Nat \ {0} /\ Len(Front(s)) = Len(s) - 1
      /\ \A k \in 1..Len(s) - 1 : Front(s)[k] = s[k]
  BY LenProperties, EmptySeq, PopProperties
<1>2. \A k \in 1..Len(Front(s)) :
        k \in 1..Len(s) - 1 /\ k \in 1..Len(s) /\ \A l \in k + 1..Len(Front(s)) : l \in k + 1..Len(s) /\ l \in 1..Len(s) - 1
  BY <1>1
<1> QED BY <1>1, <1>2 DEF StackPlaced
-----------------------------------------------------------------------------
(* A method that calls another one leaves everything in its place,             *)
LEMMA PushPlaced ==
  ASSUME Inv, Placed, toks' = toks, nodes' = nodes, pos' \in Nat, pos' >= pos,
         ctl' # "Return", NEW fn, NEW at \in Nat, Push(fn, <<>>, at),
         pos <= at, at <= pos', ctl' = "Path" => at < pos'
  PROVE  Placed'
<1> DEFINE f == Frame(fn, <<>>, at)
<1>1. f.kids = <<>> /\ f.at = at /\ stack' = Append(stack, f)
  BY DEF Push, Frame
<1> HIDE DEF f
<1>2. /\ pos \in Nat /\ stack \in Seq(FrameType(Len(toks))) /\ Len(stack) \in Nat
      /\ \A k \in 1..Len(stack) : stack[k].at \in Nat
  BY LeftThere DEF Inv
<1>3. ArenaPlaced'
  BY ArenaStays DEF Placed
<1>4. StackPlaced(nodes, stack, pos')
  BY FramesStay DEF Placed
<1>5. \A k \in 1..Len(stack) : stack[k].at <= pos /\ (HasLeft(stack[k]) => stack[k].at < f.at)
  BY <1>1, <1>2 DEF Placed, StackPlaced, LeftPlaced
<1>6. StackPlaced(nodes, stack', pos')
  BY <1>1, <1>2, <1>4, <1>5, FramePushed
<1>7. /\ Len(stack') = Len(stack) + 1 /\ stack'[Len(stack) + 1] = f
      /\ \A k \in 1..Len(stack) : stack'[k] = stack[k]
  BY <1>1, <1>2, OwnRange, SeqWiden
<1>8. ctl' = "Path" => \A k \in 1..Len(stack') : stack'[k].at < pos'
  BY <1>1, <1>2, <1>5, <1>7
<1> QED
  BY <1>3, <1>6, <1>8 DEF Placed, StackPlaced, LeftPlaced, ReturnPlaced

(* also behind another call,                                                   *)
LEMMA GoOnPlaced ==
  ASSUME Inv, Placed, stack # <<>>, ctl = "Return", toks' = toks, nodes' = nodes,
         pos' \in Nat, pos' >= pos, ctl' # "Return",
         NEW fn, NEW kids, NEW at \in {Top.at, pos}, Replace(fn, kids, at),
         LeftPlaced(nodes, Frame(fn, kids, at), pos'), ctl' = "Path" => at = Top.at
  PROVE  Placed'
<1> DEFINE f == Frame(fn, kids, at)
<1>1. f.at = at /\ stack' = [stack EXCEPT ![Len(stack)] = f] /\ LeftPlaced(nodes, f, pos')
  BY DEF Replace, Frame
<1> HIDE DEF f
<1>2. /\ pos \in Nat /\ stack \in Seq(FrameType(Len(toks))) /\ Len(stack) \in Nat \ {0}
      /\ \A k \in 1..Len(stack) : stack[k].at \in Nat
  BY LeftThere, EmptySeq DEF Inv
<1>3. ArenaPlaced'
  BY ArenaStays DEF Placed
<1>4. StackPlaced(nodes, stack, pos')
  BY FramesStay DEF Placed
<1>5. \A k \in 1..Len(stack) : stack[k].at < pos
  BY DEF Placed, ReturnPlaced
<1>6. f.at \in Nat /\ f.at <= pos' /\ stack[Len(stack)].at <= f.at
  BY <1>1, <1>2, <1>5 DEF Top
<1>7. StackPlaced(nodes, stack', pos')
  BY <1>1, <1>2, <1>4, <1>6, FrameReplaced
<1>8. ctl' = "Path" => \A k \in 1..Len(stack') : stack'[k].at < pos'
  <2> SUFFICES ASSUME ctl' = "Path", NEW k \in 1..Len(stack') PROVE stack'[k].at < pos'
    OBVIOUS
  <2>1. k \in 1..Len(stack) /\ stack'[k].at = stack[k].at
    BY <1>1, <1>2 DEF Top
  <2> QED BY <1>2, <1>5, <2>1
<1> QED
  BY <1>3, <1>7, <1>8 DEF Placed, StackPlaced, LeftPlaced, ReturnPlaced

(* one that returns its callee's result,                                       *)
LEMMA PassPlaced ==
  ASSUME Inv, Placed, stack # <<>>, ctl = "Return", toks' = toks, Pass, Pop,
         pos' \in Nat, pos' >= pos
  PROVE  Placed'
<1>1. stack' = Front(stack) /\ ctl' = "Return" /\ ret' = ret /\ nodes' = nodes
  BY DEF Pass, Pop
<1>2. /\ pos \in Nat /\ stack \in Seq(FrameType(Len(toks))) /\ Len(stack) \in Nat
      /\ \A k \in 1..Len(stack) : stack[k].at \in Nat
  BY LeftThere DEF Inv
<1>3. ArenaPlaced'
  BY <1>1, ArenaStays DEF Placed
<1>4. StackPlaced(nodes, stack, pos')
  BY FramesStay DEF Placed
<1>5. /\ StackPlaced(nodes, stack', pos')
      /\ \A k \in 1..Len(stack') : k \in 1..Len(stack) /\ stack'[k] = stack[k]
  BY <1>1, <1>2, <1>4, FramePopped
<1>6. \A k \in 1..Len(stack') : /\ stack'[k].at < pos'
                                /\ HasLeft(stack'[k]) => stack'[k].at < nodes[ret].at
  BY <1>2, <1>5 DEF Placed, ReturnPlaced
<1> QED
  BY <1>1, <1>3, <1>5, <1>6 DEF Placed, StackPlaced, LeftPlaced, ReturnPlaced, HasLeft

(* or a node of its own,                                                       *)
LEMMA BuildPlaced ==
  ASSUME Inv, Placed, stack # <<>>, ctl \in {"Return", "Path"}, toks' = toks, Pop,
         pos' \in Nat, pos' >= pos,
         NEW kind \in NodeKinds, kind # "NameHop", NEW op \in TokenTypes, NEW kids \in Seq(Nat), NEW d,
         Build(kind, op, kids, Top.at, d),
         kind \in Binary =>
           /\ toks[Top.at] = op /\ op \in Signs(kind) /\ kids[1] \in 1..Len(nodes) /\ kids[2] \in 1..Len(nodes)
           /\ nodes[kids[1]].at < Top.at /\ Top.at < nodes[kids[2]].at
  PROVE  Placed'
<1> DEFINE node == [kind |-> kind, op |-> op, kids |-> kids, at |-> Top.at]
<1>0. /\ pos \in Nat /\ stack \in Seq(FrameType(Len(toks))) /\ Len(stack) \in Nat \ {0}
      /\ \A k \in 1..Len(stack) : stack[k].at \in Nat /\ stack[k].at < pos
      /\ Top.at \in Nat /\ Top.at < pos'
  <2>1. /\ pos \in Nat /\ stack \in Seq(FrameType(Len(toks))) /\ Len(stack) \in Nat \ {0}
        /\ \A k \in 1..Len(stack) : stack[k].at \in Nat
    BY LeftThere, EmptySeq DEF Inv
  <2>2. \A k \in 1..Len(stack) : stack[k].at < pos
    BY DEF Placed, ReturnPlaced
  <2>3. Top.at \in Nat /\ Top.at < pos
    BY <2>1, <2>2 DEF Top
  <2> QED BY <2>1, <2>2, <2>3
<1>1. /\ nodes' = Append(nodes, node) /\ node \in NodeType /\ node.at = Top.at
      /\ node.kind = kind /\ node.op = op /\ node.kids = kids
      /\ stack' = Front(stack) /\ ctl' = "Return" /\ ret' = Len(nodes) + 1
  BY <1>0 DEF Build, Pop, NodeType
<1> HIDE DEF node
<1>2. NodePlaced(nodes, node, pos')
  BY <1>0, <1>1 DEF NodePlaced
<1>3. /\ ArenaPlaced' /\ nodes'[ret'] = node
      /\ \A i \in 1..Len(nodes) : nodes'[i] = nodes[i]
  BY <1>1, <1>2, ArenaGrows DEF Placed
<1>4. StackPlaced(nodes', stack, pos')
  BY <1>3, FramesStay DEF Placed
<1>5. /\ StackPlaced(nodes', stack', pos')
      /\ \A k \in 1..Len(stack') : k \in 1..Len(stack) - 1 /\ stack'[k] = stack[k]
  BY <1>0, <1>1, <1>4, FramePopped
<1>6. \A k \in 1..Len(stack') : /\ stack'[k].at < pos'
                                /\ HasLeft(stack'[k]) => stack'[k].at < nodes'[ret'].at
  <2> SUFFICES ASSUME NEW k \in 1..Len(stack')
               PROVE  /\ stack'[k].at < pos'
                      /\ HasLeft(stack'[k]) => stack'[k].at < nodes'[ret'].at
    OBVIOUS
  <2>1. k \in 1..Len(stack) /\ Len(stack) \in k + 1..Len(stack) /\ stack'[k] = stack[k]
    BY <1>0, <1>5
  <2>2. HasLeft(stack[k]) => stack[k].at < Top.at
    BY <2>1 DEF Placed, StackPlaced, Top
  <2>3. nodes'[ret'].at = Top.at
    BY <1>1, <1>3
  <2>4. stack[k].at < pos'
    <3>1. stack[k].at \in Nat /\ stack[k].at < pos
      BY <1>0, <2>1
    <3> QED BY <1>0, <3>1
  <2> QED BY <2>1, <2>2, <2>3, <2>4
<1> QED
  BY <1>1, <1>3, <1>5, <1>6 DEF Placed, StackPlaced, LeftPlaced, ReturnPlaced, HasLeft

(* and one that gives up.                                                      *)
LEMMA FailPlaced ==
  ASSUME Inv, Placed, toks' = toks, nodes' = nodes, pos' = pos, ret' = ret,
         ctl' # "Return", ctl' # "Path", stack' = <<>>
  PROVE  Placed'
<1>1. ArenaPlaced'
  BY ArenaStays DEF Placed, Inv
<1> QED BY <1>1, EmptySeq DEF Placed, StackPlaced, ReturnPlaced
-----------------------------------------------------------------------------
(* What an operator joins.                                                     *)
LEMMA Joined ==
  ASSUME Inv, Placed, ctl = "Return", stack # <<>>, HasLeft(Top)
  PROVE  LET kids == Append(Top.kids, ret)
         IN /\ kids[1] \in 1..Len(nodes) /\ kids[2] \in 1..Len(nodes)
            /\ nodes[kids[1]].at < Top.at /\ Top.at < nodes[kids[2]].at
            /\ toks[Top.at] \in Signs(Top.fn)
<1> DEFINE kids == Append(Top.kids, ret)
<1>1. /\ Top.kids \in Seq(Nat) /\ Len(Top.kids) \in Nat /\ Top.fn \in Binary
      /\ CollectedOK(Top.fn, Len(Top.kids)) /\ (Top.kids = <<>> <=> Len(Top.kids) = 0)
      /\ ret \in 1..Len(nodes) /\ ret \in Nat
  BY TopFrame, Collect DEF FrameFits, HasLeft
<1>2. Len(Top.kids) = 1
  <2>1. Top.kids # <<>> /\ Top.fn \in {"Comparison", "Additive"}
    BY DEF HasLeft, Binary
  <2>2. Len(Top.kids) <= 1
    BY <1>1, <2>1 DEF CollectedOK
  <2>3. Len(Top.kids) # 0 /\ Len(Top.kids) \in Nat
    BY <1>1, <2>1, Zenon
  <2>4. \A n \in Nat : n # 0 /\ n <= 1 => n = 1
    OBVIOUS
  <2> QED BY <2>2, <2>3, <2>4, Zenon
<1>3. kids[1] = Top.kids[1] /\ kids[2] = ret
  BY <1>1, <1>2
<1>4. Len(stack) \in 1..Len(stack) /\ Top = stack[Len(stack)]
  BY LeftThere, EmptySeq DEF Top
<1>5. /\ Top.kids[1] \in 1..Len(nodes) /\ nodes[Top.kids[1]].at < Top.at
      /\ Top.at < nodes[ret].at /\ toks[Top.at] \in Signs(Top.fn)
  BY <1>4, LeftThere DEF Placed, StackPlaced, LeftPlaced, ReturnPlaced
<1> HIDE DEF kids
<1>6. /\ kids[1] \in 1..Len(nodes) /\ kids[2] \in 1..Len(nodes)
      /\ nodes[kids[1]].at < Top.at /\ Top.at < nodes[kids[2]].at
  BY <1>1, <1>3, <1>5
<1> QED BY <1>5, <1>6 DEF kids

LEMMA LiteralPlaced == ASSUME Inv, Placed, Literal PROVE Placed'
<1> DEFINE node == [kind |-> "Literal", op |-> Peek, kids |-> <<>>, at |-> pos]
<1>1. /\ pos' = pos + 1 /\ pos \in Nat /\ toks' = toks /\ stack' = stack
      /\ Peek \in TokenTypes
  <2>1. Peek # "EOF"
    BY DEF Literal, LiteralTokens
  <2>2. Peek \in TokenTypes
    BY DEF Literal, TokenTypes
  <2> QED BY <2>1, <2>2, Advances DEF Literal, Consume
<1>2. /\ nodes' = Append(nodes, node) /\ ret' = Len(nodes) + 1 /\ ctl' = "Return"
      /\ node \in NodeType /\ node.kind = "Literal" /\ node.at = pos
  BY <1>1, BuiltKinds, EmptySeq DEF Literal, Build, NodeType
<1> HIDE DEF node
<1>3. NodePlaced(nodes, node, pos')
  BY <1>1, <1>2 DEF NodePlaced, Binary
<1>4. pos' \in Nat /\ pos' >= pos /\ node.kind \notin Binary
  BY <1>1, <1>2 DEF Binary
<1>5. /\ ArenaPlaced' /\ nodes'[ret'] = node
      /\ \A i \in 1..Len(nodes) : nodes'[i] = nodes[i]
  BY <1>1, <1>2, <1>3, <1>4, ArenaGrows DEF Placed
<1>6. StackPlaced(nodes', stack, pos')
  BY <1>4, <1>5, FramesStay DEF Placed
<1>7. \A k \in 1..Len(stack) :
        stack[k].at \in Nat /\ stack[k].at <= pos /\ (HasLeft(stack[k]) => stack[k].at < pos)
  BY LeftThere DEF Placed, StackPlaced, LeftPlaced
<1>8. \A k \in 1..Len(stack) :
        stack[k].at < pos' /\ (HasLeft(stack[k]) => stack[k].at < nodes'[ret'].at)
  BY <1>1, <1>2, <1>5, <1>7
<1> QED
  BY <1>1, <1>2, <1>5, <1>6, <1>8 DEF Placed, StackPlaced, LeftPlaced, ReturnPlaced, HasLeft

LEMMA NameHopPlaced == ASSUME Inv, Placed, NameHop PROVE Placed'
<1> DEFINE node == [kind |-> "NameHop", op |-> "Name", kids |-> <<>>, at |-> pos + 1]
           f == Frame("Path", Append(Top.kids, Len(nodes) + 1), Top.at)
<1>1. /\ ctl = "Path" /\ ctl' = "Path" /\ toks' = toks /\ pos' = After(2) /\ ret' = ret
      /\ nodes' = Append(nodes, node) /\ stack' = [stack EXCEPT ![Len(stack)] = f]
      /\ toks[After(0)] = "Dot" /\ toks[After(1)] = "Name"
  BY DEF NameHop, Ahead, Replace, Consume
<1>2. /\ pos \in Nat \ {0} /\ pos + 1 < Len(toks) /\ Len(toks) \in Nat
      /\ toks[pos] = "Dot" /\ toks[pos + 1] = "Name"
  <2>1. /\ pos \in 1..Len(toks) /\ Len(toks) \in Nat
        /\ \A i \in 1..Len(toks) : toks[i] = "EOF" <=> i = Len(toks)
    BY LenProperties DEF Inv, StreamFits
  <2>2. toks[pos] = "Dot" /\ pos < Len(toks)
    BY <1>1, <2>1 DEF After
  <2>3. toks[pos + 1] = "Name" /\ pos + 1 < Len(toks)
    BY <1>1, <2>1, <2>2 DEF After
  <2> QED BY <2>1, <2>2, <2>3
<1>3. pos' = pos + 2
  BY <1>1, <1>2 DEF After
<1>4. /\ node \in NodeType /\ node.kind = "NameHop" /\ node.at = pos + 1
      /\ f.fn = "Path" /\ f.at = Top.at
  BY <1>2, BuiltKinds, EmptySeq DEF NodeType, Frame
<1> HIDE DEF node, f
<1>5. NodePlaced(nodes, node, pos') /\ node.kind \notin Binary
  BY <1>2, <1>3, <1>4 DEF NodePlaced, Binary
<1>6. pos' \in Nat /\ pos' >= pos
  BY <1>2, <1>3
<1>7. ArenaPlaced' /\ \A i \in 1..Len(nodes) : nodes'[i] = nodes[i]
  BY <1>1, <1>4, <1>5, <1>6, ArenaGrows DEF Placed
<1>8. StackPlaced(nodes', stack, pos')
  BY <1>6, <1>7, FramesStay DEF Placed
<1>9. /\ stack # <<>> /\ stack \in Seq(FrameType(Len(toks))) /\ Len(stack) \in Nat \ {0}
      /\ \A k \in 1..Len(stack) : stack[k].at \in Nat
  BY <1>1, LeftThere, EmptySeq DEF Inv, ControlOK, Running
<1>10. \A k \in 1..Len(stack) : stack[k].at < pos
  BY <1>1 DEF Placed, ReturnPlaced
<1>11. f.at \in Nat /\ f.at <= pos' /\ stack[Len(stack)].at <= f.at /\ LeftPlaced(nodes', f, pos')
  BY <1>2, <1>3, <1>4, <1>9, <1>10 DEF Top, LeftPlaced, HasLeft, Binary
<1>12. StackPlaced(nodes', stack', pos')
  BY <1>1, <1>8, <1>9, <1>11, FrameReplaced
<1>13. \A k \in 1..Len(stack') : stack'[k].at < pos'
  <2> SUFFICES ASSUME NEW k \in 1..Len(stack') PROVE stack'[k].at < pos'
    OBVIOUS
  <2>1. k \in 1..Len(stack) /\ stack'[k].at = stack[k].at
    BY <1>1, <1>4, <1>9 DEF Top
  <2> QED BY <1>2, <1>3, <1>9, <1>10, <2>1
<1> QED
  BY <1>1, <1>7, <1>12, <1>13 DEF Placed, StackPlaced, LeftPlaced, ReturnPlaced, HasLeft

(* The sum so far is returned to the same loop.                                *)
LEMMA TermDonePlaced == ASSUME Inv, Placed, TermDone PROVE Placed'
<1> DEFINE kids == Append(Top.kids, ret)
           node == [kind |-> "Additive", op |-> "Plus", kids |-> kids, at |-> Top.at]
           f == Frame("Additive", <<>>, Top.at)
<1>1. /\ ctl = "Return" /\ stack # <<>> /\ Top.fn = "Additive" /\ Top.kids # <<>>
      /\ nodes' = Append(nodes, node) /\ ret' = Len(nodes) + 1 /\ ctl' = "Return"
      /\ stack' = [stack EXCEPT ![Len(stack)] = f] /\ pos' = pos /\ toks' = toks
  BY DEF TermDone, Awaiting, Build, Replace
<1>2. HasLeft(Top)
  BY <1>1 DEF HasLeft, Binary
<1>3. /\ kids[1] \in 1..Len(nodes) /\ kids[2] \in 1..Len(nodes)
      /\ nodes[kids[1]].at < Top.at /\ Top.at < nodes[kids[2]].at
      /\ toks[Top.at] = "Plus"
  BY <1>1, <1>2, Joined DEF Signs
<1>4. kids \in Seq(Nat) /\ Top.at \in Nat
  BY <1>1, Collected
<1> HIDE DEF kids
<1>5. /\ node \in NodeType /\ node.kind = "Additive" /\ node.op = "Plus" /\ node.kids = kids
      /\ node.at = Top.at /\ f.at = Top.at /\ f.kids = <<>>
  BY <1>4, BuiltKinds DEF NodeType, Frame
<1> HIDE DEF node, f
<1>6. /\ pos \in Nat /\ stack \in Seq(FrameType(Len(toks))) /\ Len(stack) \in Nat \ {0}
      /\ \A k \in 1..Len(stack) : stack[k].at \in Nat
  BY <1>1, LeftThere, EmptySeq DEF Inv
<1>7. \A k \in 1..Len(stack) : stack[k].at < pos
  BY <1>1 DEF Placed, ReturnPlaced
<1>8. Top.at < pos
  BY <1>6, <1>7 DEF Top
<1>9. NodePlaced(nodes, node, pos')
  BY <1>1, <1>3, <1>5, <1>8 DEF NodePlaced, Signs
<1>10. /\ ArenaPlaced' /\ nodes'[ret'] = node
       /\ \A i \in 1..Len(nodes) : nodes'[i] = nodes[i]
  BY <1>1, <1>3, <1>5, <1>6, <1>9, ArenaGrows DEF Placed
<1>11. StackPlaced(nodes', stack, pos')
  <2>1. pos' \in Nat /\ pos' >= pos /\ StackPlaced(nodes, stack, pos)
    BY <1>1, <1>6 DEF Placed
  <2> QED BY <1>10, <2>1, FramesStay
<1>12. ~HasLeft(f) /\ LeftPlaced(nodes', f, pos')
  BY <1>5 DEF LeftPlaced, HasLeft
<1>13. f.at \in Nat /\ f.at <= pos' /\ stack[Len(stack)].at <= f.at
  BY <1>1, <1>4, <1>5, <1>6, <1>8 DEF Top
<1>14. StackPlaced(nodes', stack', pos')
  BY <1>1, <1>6, <1>11, <1>12, <1>13, FrameReplaced
<1>15. \A k \in 1..Len(stack') :
         stack'[k].at < pos' /\ (HasLeft(stack'[k]) => stack'[k].at < nodes'[ret'].at)
  <2> SUFFICES ASSUME NEW k \in 1..Len(stack')
               PROVE  stack'[k].at < pos' /\ (HasLeft(stack'[k]) => stack'[k].at < nodes'[ret'].at)
    OBVIOUS
  <2>1. k \in 1..Len(stack) /\ stack'[k] = IF k = Len(stack) THEN f ELSE stack[k]
    BY <1>1, <1>6
  <2>2. stack'[k].at < pos'
    BY <1>1, <1>5, <1>7, <1>8, <2>1
  <2>3. HasLeft(stack'[k]) => stack'[k] = stack[k] /\ Len(stack) \in k + 1..Len(stack)
    BY <1>6, <1>12, <2>1
  <2>4. HasLeft(stack'[k]) => stack'[k].at < Top.at
    BY <2>1, <2>3 DEF Placed, StackPlaced, Top
  <2>5. nodes'[ret'].at = Top.at
    BY <1>5, <1>10
  <2> QED BY <2>2, <2>4, <2>5
<1> QED
  BY <1>1, <1>10, <1>14, <1>15 DEF Placed, StackPlaced, LeftPlaced, ReturnPlaced, HasLeft

LEMMA CloseArrayPlaced == ASSUME Inv, Placed, CloseArray PROVE Placed'
<1>1. /\ ctl = "Return" /\ stack # <<>> /\ toks' = toks /\ Pop /\ pos' \in Nat /\ pos' >= pos
      /\ Awaiting("Array") /\ ret \in 1..Len(nodes)
  BY Advances, Collected DEF CloseArray, Awaiting, Consume
<1>2. CASE nodes[ret].kind # "CommaList"
  <2>1. Build("ArrayLit", "LBrace", <<ret>>, Top.at, FALSE)
    BY <1>2 DEF CloseArray
  <2>2. <<ret>> \in Seq(Nat) /\ "ArrayLit" \notin Binary
    BY <1>1, Collected DEF Binary
  <2> QED BY <1>1, <2>1, <2>2, BuildPlaced, BuiltKinds
<1>3. CASE nodes[ret].kind = "CommaList"
  <2>1. TakenOver /\ ctl' = "Return" /\ ret' = ret /\ stack' = Front(stack)
    BY <1>1, <1>3 DEF CloseArray, TakenOver, Pop
  <2>2. /\ pos \in Nat /\ stack \in Seq(FrameType(Len(toks))) /\ Len(stack) \in Nat \ {0}
        /\ \A k \in 1..Len(stack) : stack[k].at \in Nat
    BY <1>1, LeftThere, EmptySeq DEF Inv
  <2>3. \A k \in 1..Len(stack) : stack[k].at < pos
    BY <1>1 DEF Placed, ReturnPlaced
  <2>4. Top.at \in Nat /\ Top.at < pos /\ Top.at < pos'
    BY <1>1, <2>2, <2>3 DEF Top
  <2>5. /\ ArenaPlaced' /\ nodes'[ret].at = Top.at
        /\ \A i \in 1..Len(nodes) : nodes[i].kind \in SimpleKinds => nodes'[i] = nodes[i]
    BY <1>1, <1>3, <2>1, <2>4, ArenaTaken DEF Placed
  <2>6. StackPlaced(nodes', stack, pos')
    BY <1>1, <2>5, FramesStay DEF Placed
  <2>7. /\ StackPlaced(nodes', stack', pos')
        /\ \A k \in 1..Len(stack') : k \in 1..Len(stack) - 1 /\ stack'[k] = stack[k]
    BY <1>1, <2>1, <2>2, <2>6, FramePopped
  <2>8. \A k \in 1..Len(stack') : /\ stack'[k].at < pos'
                                  /\ HasLeft(stack'[k]) => stack'[k].at < nodes'[ret'].at
    <3> SUFFICES ASSUME NEW k \in 1..Len(stack')
                 PROVE  /\ stack'[k].at < pos'
                        /\ HasLeft(stack'[k]) => stack'[k].at < nodes'[ret'].at
      OBVIOUS
    <3>1. k \in 1..Len(stack) /\ Len(stack) \in k + 1..Len(stack) /\ stack'[k] = stack[k]
      BY <2>2, <2>7
    <3>2. HasLeft(stack[k]) => stack[k].at < Top.at
      BY <3>1 DEF Placed, StackPlaced, Top
    <3>3. stack[k].at < pos'
      BY <1>1, <2>2, <2>3, <3>1
    <3> QED BY <2>1, <2>5, <3>1, <3>2, <3>3
  <2> QED
    BY <1>1, <2>1, <2>5, <2>7, <2>8 DEF Placed, StackPlaced, LeftPlaced, ReturnPlaced, HasLeft
<1> QED BY <1>2, <1>3
-----------------------------------------------------------------------------
(* Every token and every node stays in its place.                              *)
LEMMA NextPlaced == Inv /\ Placed /\ [Next]_vars => Placed'
<1> SUFFICES ASSUME Inv, Placed, [Next]_vars PROVE Placed'
  OBVIOUS
<1>0. /\ pos \in Nat \ {0} /\ pos' \in Nat /\ pos' >= pos /\ toks' = toks
      /\ Peek # "EOF" => After(1) = pos + 1 /\ \A k \in Nat \ {0} : After(k) > pos
      /\ toks[After(1)] # "EOF" => After(3) > pos + 1 /\ After(2) > pos + 1
  <2>1. Inv'
    BY NextInv
  <2> QED BY <2>1, Advances, Forward, StreamKept DEF Inv
<1>1. CASE Descend
  <2>1. ctl \in Delegates /\ Push(ctl, <<>>, pos) /\ pos' = pos /\ nodes' = nodes /\ ctl' = Callee(ctl)
    BY <1>1 DEF Descend, Start
  <2>2. ctl' # "Return" /\ ctl' # "Path"
    BY <2>1 DEF Delegates, Callee
  <2> QED BY <1>0, <2>1, <2>2, PushPlaced
<1>2. CASE Negation
  <2>1. CASE Peek = "Not"
    <3>1. Push("Not", <<>>, pos) /\ ctl' = "Not" /\ nodes' = nodes
      BY <1>2, <2>1 DEF Negation, Start
    <3> QED BY <1>0, <3>1, PushPlaced
  <2>2. CASE Peek # "Not"
    <3>1. ctl = "Not" /\ ctl' = "Comparison" /\ UNCHANGED <<pos, stack, ret, nodes>>
      BY <1>2, <2>2 DEF Negation, Start
    <3>2. ArenaPlaced'
      BY <1>0, <3>1, ArenaStays DEF Placed
    <3> QED BY <1>0, <3>1, <3>2 DEF Placed, StackPlaced, LeftPlaced, ReturnPlaced
  <2> QED BY <2>1, <2>2
<1>3. CASE Literal
  BY <1>3, LiteralPlaced
<1>4. CASE Parenthesis \/ OpenArray \/ OpenClassCall \/ OpenMemberOf
  <2>1. /\ \E fn \in {"Paren", "Array", "ClassCall", "MemberOf"} : Push(fn, <<>>, pos)
        /\ ctl' \in {"Expr", "Branch"} /\ nodes' = nodes
    BY <1>4 DEF Parenthesis, OpenArray, OpenClassCall, OpenMemberOf, Start
  <2> QED BY <1>0, <2>1, PushPlaced
<1>5. CASE StartPath
  <2>1. Push("Path", <<>>, pos) /\ ctl' = "Path" /\ nodes' = nodes /\ pos' = After(1) /\ Peek # "EOF"
    BY <1>5 DEF StartPath, Start, Consume
  <2> QED BY <1>0, <2>1, PushPlaced
<1>6. CASE MemberOfHop
  <2>1. /\ Push("MemberOf", <<>>, pos + 1) /\ ctl' = "Branch" /\ nodes' = nodes /\ pos' = After(3)
        /\ toks[After(1)] # "EOF"
    BY <1>6 DEF MemberOfHop, Start, Consume, MemberOfTokens
  <2>2. pos + 1 \in Nat /\ pos <= pos + 1 /\ pos + 1 <= pos'
    BY <1>0, <2>1
  <2> QED BY <1>0, <2>1, <2>2, PushPlaced
<1>7. CASE NameHop
  BY <1>7, NameHopPlaced
<1>8. CASE EndPath
  <2>1. ctl = "Path" /\ Build("PathExpr", toks[Top.at], Top.kids, Top.at, FALSE) /\ Pop
    BY <1>8 DEF EndPath
  <2>2. stack # <<>>
    BY <2>1 DEF Inv, ControlOK, Running
  <2>3. Top.kids \in Seq(Nat) /\ toks[Top.at] \in TokenTypes /\ "PathExpr" \notin Binary
    BY <2>2, TopFrame DEF Binary
  <2> QED BY <1>0, <2>1, <2>2, <2>3, BuildPlaced, BuiltKinds
<1>9. CASE HopDone \/ TrueBranchDone \/ BranchItemDone
  <2>1. /\ ctl = "Return" /\ stack # <<>> /\ nodes' = nodes /\ ctl' \in {"Path", "Branch", "Expr"}
        /\ \E fn \in {"Path", "FalseBranch", "Branch"} : Replace(fn, Append(Top.kids, ret), Top.at)
    BY <1>9 DEF HopDone, TrueBranchDone, BranchItemDone, Awaiting, Start
  <2>2. PICK fn \in {"Path", "FalseBranch", "Branch"} : Replace(fn, Append(Top.kids, ret), Top.at)
    BY <2>1
  <2>3. LeftPlaced(nodes, Frame(fn, Append(Top.kids, ret), Top.at), pos')
    BY DEF LeftPlaced, HasLeft, Frame, Binary
  <2> QED BY <1>0, <2>1, <2>2, <2>3, GoOnPlaced
<1>10. CASE ExprDone
  <2>1. ctl = "Return" /\ stack # <<>>
    BY <1>10 DEF ExprDone, Awaiting
  <2>2. CASE Peek = "Question"
    <3>1. Replace("TrueBranch", <<ret>>, Top.at) /\ nodes' = nodes /\ ctl' = "Branch"
      BY <1>10, <2>2 DEF ExprDone, Start
    <3>2. LeftPlaced(nodes, Frame("TrueBranch", <<ret>>, Top.at), pos')
      BY DEF LeftPlaced, HasLeft, Frame, Binary
    <3> QED BY <1>0, <2>1, <3>1, <3>2, GoOnPlaced
  <2>3. CASE Peek # "Question"
    BY <1>0, <1>10, <2>1, <2>3, PassPlaced DEF ExprDone
  <2> QED BY <2>2, <2>3
<1>11. CASE NoComparison \/ NoTerm \/ CloseParen
  BY <1>0, <1>11, PassPlaced DEF NoComparison, NoTerm, CloseParen, Awaiting
<1>12. ASSUME \E fn \in {"Or", "And"} : ChainOperandDone(fn) PROVE Placed'
  <2>1. PICK fn \in {"Or", "And"} : ChainOperandDone(fn)
    BY <1>12
  <2>2. /\ ctl = "Return" /\ stack # <<>> /\ nodes' = nodes /\ ctl' = Callee(fn)
        /\ Replace(fn, Append(Top.kids, ret), Top.at)
    BY <2>1 DEF ChainOperandDone, Awaiting, Start
  <2>3. ctl' # "Return" /\ ctl' # "Path"
    BY <2>2 DEF Callee
  <2>4. LeftPlaced(nodes, Frame(fn, Append(Top.kids, ret), Top.at), pos')
    BY DEF LeftPlaced, HasLeft, Frame, Binary
  <2> QED BY <1>0, <2>2, <2>3, <2>4, GoOnPlaced
<1>13. ASSUME BranchDone \/ FalseBranchDone \/ NotDone \/ CloseClassCall \/ CloseMemberOf
              \/ \E fn \in {"Or", "And"} : ChainDone(fn)
       PROVE  Placed'
  <2>1. /\ ctl = "Return" /\ stack # <<>> /\ Pop
        /\ \/ Pass
           \/ \E kind \in NodeKinds \ (Binary \cup {"NameHop"}), op \in TokenTypes,
                 kids \in {Append(Top.kids, ret), <<ret>>}, d \in BOOLEAN :
                Build(kind, op, kids, Top.at, d)
    <3>1. ctl = "Return" /\ stack # <<>> /\ Pop
      BY <1>13 DEF BranchDone, FalseBranchDone, NotDone, CloseClassCall, CloseMemberOf, CloseCall,
         ChainDone, Awaiting
    <3>2. toks[Top.at] \in TokenTypes
      BY <3>1, Collected
    <3>3. {"CommaList", "Ternary", "Not", "ClassCall", "MemberOfExpr", "Logical"}
            \subseteq NodeKinds \ (Binary \cup {"NameHop"})
      BY BuiltKinds DEF Binary
    <3> QED
      BY <1>13, <3>1, <3>2, <3>3, BuiltKinds
         DEF BranchDone, FalseBranchDone, NotDone, CloseClassCall, CloseMemberOf, CloseCall, ChainDone
  <2>2. Append(Top.kids, ret) \in Seq(Nat) /\ <<ret>> \in Seq(Nat)
    BY <2>1, Collected
  <2>3. CASE Pass
    BY <1>0, <2>1, <2>3, PassPlaced
  <2>4. CASE \E kind \in NodeKinds \ (Binary \cup {"NameHop"}), op \in TokenTypes,
                kids \in {Append(Top.kids, ret), <<ret>>}, d \in BOOLEAN :
               Build(kind, op, kids, Top.at, d)
    <3>1. PICK kind \in NodeKinds \ (Binary \cup {"NameHop"}), op \in TokenTypes,
               kids \in {Append(Top.kids, ret), <<ret>>}, d \in BOOLEAN :
            Build(kind, op, kids, Top.at, d)
      BY <2>4
    <3>2. kids \in Seq(Nat)
      BY <2>2
    <3> QED BY <1>0, <2>1, <3>1, <3>2, BuildPlaced
  <2> QED BY <2>1, <2>3, <2>4
<1>14. CASE LeftDone \/ NextTerm
  <2>1. /\ ctl = "Return" /\ stack # <<>> /\ nodes' = nodes /\ ctl' \in {"Additive", "Atom"}
        /\ pos' = After(1) /\ Peek # "EOF"
        /\ \E fn \in Binary : Replace(fn, <<ret>>, pos) /\ Peek \in Signs(fn)
    <3>1. CASE LeftDone
      BY <3>1 DEF LeftDone, Awaiting, Start, Consume, ComparisonOps, Binary, Signs
    <3>2. CASE NextTerm
      BY <3>2 DEF NextTerm, Awaiting, Start, Consume, Binary, Signs
    <3> QED BY <1>14, <3>1, <3>2
  <2>2. pos < pos' /\ toks[pos] = Peek /\ ret \in 1..Len(nodes)
    BY <1>0, <2>1, Collected DEF Peek
  <2>3. nodes[ret].at < pos
    BY <2>2 DEF Placed, ArenaPlaced, NodePlaced
  <2>4. ASSUME NEW fn, Peek \in Signs(fn)
        PROVE  LeftPlaced(nodes, Frame(fn, <<ret>>, pos), pos')
    <3>1. <<ret>>[1] = ret
      OBVIOUS
    <3> QED BY <2>2, <2>3, <2>4, <3>1 DEF LeftPlaced, Frame
  <2> QED BY <1>0, <2>1, <2>4, GoOnPlaced
<1>15. CASE RightDone
  <2> DEFINE kids == Append(Top.kids, ret)
  <2>1. /\ ctl = "Return" /\ stack # <<>> /\ Pop /\ HasLeft(Top)
        /\ Build("Comparison", toks[Top.at], kids, Top.at, TRUE) /\ Top.fn = "Comparison"
    BY <1>15 DEF RightDone, Awaiting, HasLeft, Binary
  <2>2. /\ toks[Top.at] \in Signs("Comparison")
        /\ kids[1] \in 1..Len(nodes) /\ kids[2] \in 1..Len(nodes)
        /\ nodes[kids[1]].at < Top.at /\ Top.at < nodes[kids[2]].at
    BY <2>1, Joined
  <2>3. kids \in Seq(Nat) /\ toks[Top.at] \in TokenTypes
    BY <2>1, Collected
  <2> HIDE DEF kids
  <2> QED BY <1>0, <2>1, <2>2, <2>3, BuildPlaced, BuiltKinds
<1>16. CASE TermDone
  BY <1>16, TermDonePlaced
<1>17. CASE CloseArray
  BY <1>17, CloseArrayPlaced
<1>18. CASE BadAtom \/ BadHop \/ MissingCloser \/ ConditionMisplaced
  <2>1. Fail
    BY <1>18 DEF BadAtom, BadHop, MissingCloser, ConditionMisplaced
  <2> QED BY <2>1, FailPlaced DEF Fail
<1>19. CASE Finish
  BY <1>19, FailPlaced DEF Finish
<1>20. CASE UNCHANGED vars
  <2>1. ArenaPlaced'
    BY <1>0, <1>20, ArenaStays DEF Placed, vars
  <2> QED BY <1>20, <2>1 DEF vars, Placed, StackPlaced, LeftPlaced, ReturnPlaced
<1>21. CASE Done
  BY <1>20, <1>21 DEF Done
<1> QED
  BY <1>1, <1>2, <1>3, <1>4, <1>5, <1>6, <1>7, <1>8, <1>9, <1>10, <1>11, <1>12, <1>13, <1>14,
     <1>15, <1>16, <1>17, <1>18, <1>19, <1>20, <1>21 DEF Next

-----------------------------------------------------------------------------
(* Every node is held once.  Node i is held by one of rs, or by one below the  *)
(* last.                                                                       *)
In(kids, i) == \E j \in 1..Len(kids) : kids[j] = i
HeldBy(rs, i) == \E p \in 1..Len(rs) : In(rs[p].kids, i)
Below(s, i) == \E k \in 1..Len(s) - 1 : In(s[k].kids, i)

(* Children stand in the order they were built, and no two places hold one.    *)
RisingKids(kids) == \A j, l \in 1..Len(kids) : j < l => kids[j] < kids[l]

Forest(ns) ==
  /\ \A p \in 1..Len(ns) : RisingKids(ns[p].kids)
  /\ \A p, q \in 1..Len(ns) : p # q => \A i \in Nat : ~(In(ns[p].kids, i) /\ In(ns[q].kids, i))

(* What waiting methods have collected rises from the outermost inwards.       *)
RisingStack(s) ==
  /\ \A k \in 1..Len(s) : RisingKids(s[k].kids)
  /\ \A k, l \in 1..Len(s) : k < l =>
       \A i, h \in Nat : In(s[k].kids, i) /\ In(s[l].kids, h) => i < h

(* Node i awaits a parent (or is the tree, all done).                          *)
Given == ctl \in {"Return", "Accepted"}
Loose(i) == HeldBy(stack, i) \/ (Given /\ i = ret)

Held ==
  /\ Forest(nodes) /\ RisingStack(stack)
  /\ ctl = "Return" => \A i \in Nat : HeldBy(stack, i) => i < ret
  /\ ctl = "Accepted" => stack = <<>>
  /\ ctl # "Failed" => \A i \in 1..Len(nodes) : HeldBy(nodes, i) <=> ~Loose(i)

(* What Inv says of the numbers.                                               *)
LEMMA KidsThere ==
  ASSUME Inv
  PROVE  /\ nodes \in Seq(NodeType) /\ Len(nodes) \in Nat
         /\ stack \in Seq(FrameType(Len(toks))) /\ Len(stack) \in Nat
         /\ \A p \in 1..Len(nodes) : nodes[p].kids \in Seq(Nat) /\ Len(nodes[p].kids) \in Nat
         /\ \A k \in 1..Len(stack) : stack[k].kids \in Seq(Nat) /\ Len(stack[k].kids) \in Nat
         /\ \A i : HeldBy(nodes, i) \/ HeldBy(stack, i) => i \in 1..Len(nodes)
<1>1. /\ nodes \in Seq(NodeType) /\ Len(nodes) \in Nat
      /\ stack \in Seq(FrameType(Len(toks))) /\ Len(stack) \in Nat
  BY LenProperties DEF Inv, ArenaOK, StackOK
<1>2. ASSUME NEW p \in 1..Len(nodes)
      PROVE  nodes[p].kids \in Seq(Nat) /\ Len(nodes[p].kids) \in Nat
  <2>1. nodes[p] \in NodeType
    BY <1>1, ElementOfSeq
  <2> QED BY <2>1, LenProperties DEF NodeType
<1>3. ASSUME NEW k \in 1..Len(stack)
      PROVE  stack[k].kids \in Seq(Nat) /\ Len(stack[k].kids) \in Nat
  <2>1. stack[k] \in FrameType(Len(toks))
    BY <1>1, ElementOfSeq
  <2> QED BY <2>1, LenProperties DEF FrameType
<1>4. \A i : HeldBy(nodes, i) => i \in 1..Len(nodes)
  BY DEF HeldBy, In, Inv, ArenaOK, Fits
<1>5. \A i : HeldBy(stack, i) => i \in 1..Len(nodes)
  BY DEF HeldBy, In, Inv, StackOK, FrameFits
<1> QED BY <1>1, <1>2, <1>3, <1>4, <1>5

(* Appending to what was collected something built later.                      *)
LEMMA RisesOn ==
  ASSUME NEW kids \in Seq(Nat), RisingKids(kids), NEW r \in Nat, \A i \in Nat : In(kids, i) => i < r
  PROVE  /\ RisingKids(Append(kids, r))
         /\ \A i : In(Append(kids, r), i) <=> In(kids, i) \/ i = r
<1> DEFINE t == Append(kids, r)
<1>1. /\ Len(kids) \in Nat /\ Len(t) = Len(kids) + 1 /\ t[Len(kids) + 1] = r
      /\ \A j \in 1..Len(kids) : t[j] = kids[j] /\ kids[j] \in Nat
  BY LenProperties, PushProperties, ElementOfSeq
<1> HIDE DEF t
<1>2. \A j \in 1..Len(t) : j \in 1..Len(kids) \/ j = Len(kids) + 1
  BY <1>1
<1>3. \A i : In(t, i) <=> In(kids, i) \/ i = r
  BY <1>1, <1>2 DEF In
<1>4. \A j \in 1..Len(kids) : kids[j] < r
  BY <1>1 DEF In
<1>5. RisingKids(t)
  BY <1>1, <1>2, <1>4 DEF RisingKids
<1> QED BY <1>3, <1>5 DEF t

(* The stack with a new frame on top, another frame there, or none.            *)
LEMMA RisingPush ==
  ASSUME NEW S, NEW s \in Seq(S), RisingStack(s), NEW f, f.kids = <<>>
  PROVE  /\ RisingStack(Append(s, f))
         /\ \A i : HeldBy(Append(s, f), i) <=> HeldBy(s, i)
<1> DEFINE t == Append(s, f)
<1>1. Len(s) \in Nat /\ Len(t) = Len(s) + 1 /\ t[Len(s) + 1] = f /\ \A k \in 1..Len(s) : t[k] = s[k]
  BY LenProperties, OwnRange, SeqWiden
<1> HIDE DEF t
<1>2. \A k \in 1..Len(t) : k \in 1..Len(s) \/ k = Len(s) + 1
  BY <1>1
<1>3. (\A i : ~In(f.kids, i)) /\ RisingKids(f.kids)
  BY EmptySeq DEF In, RisingKids
<1>4. \A i : HeldBy(t, i) <=> HeldBy(s, i)
  BY <1>1, <1>2, <1>3 DEF HeldBy
<1>5. RisingStack(t)
  BY <1>1, <1>2, <1>3 DEF RisingStack
<1> QED BY <1>4, <1>5 DEF t

LEMMA RisingTop ==
  ASSUME NEW S, NEW s \in Seq(S), s # <<>>, RisingStack(s),
         \A k \in 1..Len(s) : s[k].kids \in Seq(Nat)
  PROVE  /\ \A i : HeldBy(s, i) <=> Below(s, i) \/ In(s[Len(s)].kids, i)
         /\ \A i, h : Below(s, i) /\ In(s[Len(s)].kids, h) => i < h /\ i \in Nat /\ h \in Nat
         /\ RisingKids(s[Len(s)].kids)
         /\ RisingStack(Front(s))
         /\ \A i : HeldBy(Front(s), i) <=> Below(s, i)
<1>1. /\ Len(s) \in Nat \ {0} /\ Len(Front(s)) = Len(s) - 1
      /\ \A k \in 1..Len(s) - 1 : Front(s)[k] = s[k]
  BY LenProperties, EmptySeq, PopProperties
<1>2. \A k \in 1..Len(s) : k \in 1..Len(s) - 1 \/ k = Len(s)
  BY <1>1
<1>3. \A k \in 1..Len(s) - 1 : k \in 1..Len(s) /\ k < Len(s)
  BY <1>1
<1>4. \A i : HeldBy(s, i) <=> Below(s, i) \/ In(s[Len(s)].kids, i)
  BY <1>1, <1>2, <1>3 DEF HeldBy, Below
<1>5. \A k \in 1..Len(s) : \A i : In(s[k].kids, i) => i \in Nat
  BY ElementOfSeq, LenProperties DEF In
<1>6. ASSUME NEW i, NEW h, Below(s, i), In(s[Len(s)].kids, h)
      PROVE  i < h /\ i \in Nat /\ h \in Nat
  <2>1. PICK k \in 1..Len(s) - 1 : In(s[k].kids, i)
    BY <1>6 DEF Below
  <2>2. k \in 1..Len(s) /\ Len(s) \in 1..Len(s) /\ k < Len(s)
    BY <1>1, <1>3
  <2>3. i \in Nat /\ h \in Nat
    BY <1>5, <1>6, <2>1, <2>2
  <2> QED BY <1>6, <2>1, <2>2, <2>3 DEF RisingStack
<1>7. RisingStack(Front(s))
  BY <1>1, <1>3 DEF RisingStack
<1>8. \A i : HeldBy(Front(s), i) <=> Below(s, i)
  BY <1>1 DEF HeldBy, Below
<1> QED BY <1>1, <1>4, <1>6, <1>7, <1>8 DEF RisingStack

LEMMA RisingReplace ==
  ASSUME NEW S, NEW s \in Seq(S), s # <<>>, RisingStack(s), NEW f, RisingKids(f.kids),
         \A k \in 1..Len(s) : s[k].kids \in Seq(Nat),
         \A i, h \in Nat : Below(s, i) /\ In(f.kids, h) => i < h
  PROVE  /\ RisingStack([s EXCEPT ![Len(s)] = f])
         /\ \A i : HeldBy([s EXCEPT ![Len(s)] = f], i) <=> Below(s, i) \/ In(f.kids, i)
<1>1. Len(s) \in Nat \ {0}
  BY LenProperties, EmptySeq
<1> DEFINE t == [s EXCEPT ![Len(s)] = f]
<1>2. Len(t) = Len(s) /\ \A k \in 1..Len(s) : t[k] = IF k = Len(s) THEN f ELSE s[k]
  BY <1>1
<1> HIDE DEF t
<1>3. /\ \A k \in 1..Len(s) : k \in 1..Len(s) - 1 \/ k = Len(s)
      /\ \A k \in 1..Len(s) - 1 : k \in 1..Len(s) /\ k # Len(s)
      /\ \A k, l \in 1..Len(s) : k < l => k \in 1..Len(s) - 1
  BY <1>1
<1>4. ASSUME NEW i PROVE HeldBy(t, i) <=> Below(s, i) \/ In(f.kids, i)
  <2>1. Below(s, i) => HeldBy(t, i)
    BY <1>2, <1>3 DEF HeldBy, Below
  <2>2. In(f.kids, i) => HeldBy(t, i)
    BY <1>1, <1>2 DEF HeldBy
  <2>3. HeldBy(t, i) => Below(s, i) \/ In(f.kids, i)
    BY <1>2, <1>3 DEF HeldBy, Below
  <2> QED BY <2>1, <2>2, <2>3
<1>5. ASSUME NEW k \in 1..Len(s), NEW l \in 1..Len(s), k < l, NEW i \in Nat, NEW h \in Nat,
             In(t[k].kids, i), In(t[l].kids, h)
      PROVE  i < h
  <2>1. In(s[k].kids, i) /\ Below(s, i)
    BY <1>2, <1>3, <1>5 DEF Below
  <2> QED BY <1>2, <1>5, <2>1 DEF RisingStack
<1>6. RisingStack(t)
  BY <1>2, <1>5 DEF RisingStack
<1> QED BY <1>4, <1>6 DEF t

-----------------------------------------------------------------------------
(* A step that builds nothing keeps every node held once if it only moves those*)
(* that are loose,                                                             *)
LEMMA HeldMoved ==
  ASSUME Inv, Held, ctl # "Failed",
         Len(nodes') = Len(nodes), \A p \in 1..Len(nodes) : nodes'[p].kids = nodes[p].kids,
         RisingStack(stack'), ctl' = "Return" => \A i \in Nat : HeldBy(stack', i) => i < ret',
         ctl' = "Accepted" => stack' = <<>>,
         \A i \in 1..Len(nodes) :
           HeldBy(stack', i) \/ (ctl' \in {"Return", "Accepted"} /\ i = ret') <=> Loose(i)
  PROVE  Held'
<1>1. \A i : HeldBy(nodes', i) <=> HeldBy(nodes, i)
  BY DEF HeldBy
<1>2. Forest(nodes')
  BY DEF Held, Forest
<1>3. \A i \in 1..Len(nodes') :
        HeldBy(nodes', i) <=> ~(HeldBy(stack', i) \/ (ctl' \in {"Return", "Accepted"} /\ i = ret'))
  BY <1>1 DEF Held
<1> QED BY <1>2, <1>3 DEF Held, Loose, Given

(* and one that builds a node does if its children were loose and it is now.   *)
LEMMA HeldBuilt ==
  ASSUME Inv, Held, ctl # "Failed",
         NEW node \in NodeType, nodes' = Append(nodes, node), RisingKids(node.kids),
         \A i : In(node.kids, i) => i \in 1..Len(nodes) /\ Loose(i),
         RisingStack(stack'), ctl' = "Return" => \A i \in Nat : HeldBy(stack', i) => i < ret',
         ctl' # "Accepted",
         \A i \in 1..Len(nodes) + 1 :
           HeldBy(stack', i) \/ (ctl' \in {"Return", "Accepted"} /\ i = ret')
             <=> i = Len(nodes) + 1 \/ (Loose(i) /\ ~In(node.kids, i))
  PROVE  Held'
<1> DEFINE N == Len(nodes)
<1>1. /\ N \in Nat /\ Len(nodes') = N + 1 /\ nodes'[N + 1] = node
      /\ \A p \in 1..N : nodes'[p] = nodes[p]
  BY KidsThere, PushProperties
<1>2. \A p \in 1..N + 1 : p \in 1..N \/ p = N + 1
  BY <1>1
<1>3. \A i : HeldBy(nodes', i) <=> HeldBy(nodes, i) \/ In(node.kids, i)
  BY <1>1, <1>2 DEF HeldBy
<1>4. \A i \in 1..N : HeldBy(nodes, i) <=> ~Loose(i)
  BY DEF Held
<1>5. Forest(nodes')
  <2>1. \A p \in 1..N + 1 : RisingKids(nodes'[p].kids)
    BY <1>1, <1>2 DEF Held, Forest
  <2>2. \A p \in 1..N : \A i \in Nat : ~(In(nodes[p].kids, i) /\ In(node.kids, i))
    BY <1>4 DEF HeldBy
  <2>3. ASSUME NEW p \in 1..N + 1, NEW q \in 1..N + 1, p # q, NEW i \in Nat
        PROVE  ~(In(nodes'[p].kids, i) /\ In(nodes'[q].kids, i))
    <3>1. CASE p \in 1..N /\ q \in 1..N
      BY <1>1, <2>3, <3>1 DEF Held, Forest
    <3>2. CASE p = N + 1 /\ q \in 1..N
      BY <1>1, <2>2, <3>2
    <3>3. CASE p \in 1..N /\ q = N + 1
      BY <1>1, <2>2, <3>3
    <3> QED BY <1>2, <2>3, <3>1, <3>2, <3>3
  <2> QED BY <1>1, <2>1, <2>3 DEF Forest
<1>6. ASSUME NEW i \in 1..N + 1
      PROVE  HeldBy(nodes', i)
               <=> ~(HeldBy(stack', i) \/ (ctl' \in {"Return", "Accepted"} /\ i = ret'))
  <2>1. CASE i \in 1..N
    BY <1>3, <1>4, <2>1
  <2>2. CASE i = N + 1
    <3>1. ~(i \in 1..N)
      BY <1>1, <2>2
    <3>2. ~HeldBy(nodes, i) /\ ~In(node.kids, i)
      BY <3>1, KidsThere
    <3> QED BY <1>3, <2>2, <3>2
  <2> QED BY <1>2, <2>1, <2>2
<1> QED BY <1>1, <1>5, <1>6 DEF Held, Loose, Given

-----------------------------------------------------------------------------
(* What a method that has been called back has in hand.                        *)
LEMMA InHand ==
  ASSUME Inv, Held, stack # <<>>
  PROVE  /\ \A i : HeldBy(stack, i) <=> Below(stack, i) \/ In(Top.kids, i)
         /\ \A i, h : Below(stack, i) /\ In(Top.kids, h) => i < h /\ i \in Nat /\ h \in Nat
         /\ RisingKids(Top.kids) /\ Top.kids \in Seq(Nat)
         /\ RisingStack(Front(stack))
         /\ \A i : HeldBy(Front(stack), i) <=> Below(stack, i)
         /\ ctl = "Return" =>
              /\ ret \in 1..Len(nodes)
              /\ \A i : HeldBy(stack, i) => i < ret /\ i \in 1..Len(nodes)
              /\ RisingKids(Append(Top.kids, ret))
              /\ \A i : In(Append(Top.kids, ret), i) <=> In(Top.kids, i) \/ i = ret
              /\ Top.kids = <<>> => Append(Top.kids, ret) = <<ret>>
<1>1. /\ stack \in Seq(FrameType(Len(toks))) /\ RisingStack(stack)
      /\ \A k \in 1..Len(stack) : stack[k].kids \in Seq(Nat)
      /\ \A i : HeldBy(stack, i) => i \in 1..Len(nodes)
      /\ Len(nodes) \in Nat
  BY KidsThere DEF Held
<1>2. /\ \A i : HeldBy(stack, i) <=> Below(stack, i) \/ In(Top.kids, i)
      /\ \A i, h : Below(stack, i) /\ In(Top.kids, h) => i < h /\ i \in Nat /\ h \in Nat
      /\ RisingKids(Top.kids)
      /\ RisingStack(Front(stack))
      /\ \A i : HeldBy(Front(stack), i) <=> Below(stack, i)
  BY <1>1, RisingTop DEF Top
<1>3. Top.kids \in Seq(Nat)
  BY TopFrame
<1>4. ASSUME ctl = "Return"
      PROVE  /\ ret \in 1..Len(nodes) /\ ret \in Nat
             /\ \A i : HeldBy(stack, i) => i < ret /\ i \in 1..Len(nodes)
  BY <1>1, <1>4 DEF Inv, ReturnOK, Held
<1>5. ASSUME ctl = "Return"
      PROVE  /\ RisingKids(Append(Top.kids, ret))
             /\ \A i : In(Append(Top.kids, ret), i) <=> In(Top.kids, i) \/ i = ret
  BY <1>2, <1>3, <1>4, <1>5, RisesOn
<1>6. Top.kids = <<>> => Append(Top.kids, ret) = <<ret>>
  OBVIOUS
<1> QED BY <1>2, <1>3, <1>4, <1>5, <1>6

(* A method starts another one,                                                *)
LEMMA PushHeld ==
  ASSUME Inv, Held, nodes' = nodes, ctl \notin {"Failed", "Return", "Accepted"},
         ctl' \notin {"Return", "Accepted"}, NEW fn, NEW at, Push(fn, <<>>, at)
  PROVE  Held'
<1> DEFINE f == Frame(fn, <<>>, at)
<1>1. f.kids = <<>> /\ stack' = Append(stack, f)
  BY DEF Push, Frame
<1> HIDE DEF f
<1>2. RisingStack(stack') /\ \A i : HeldBy(stack', i) <=> HeldBy(stack, i)
  BY <1>1, KidsThere, RisingPush DEF Held
<1> QED BY <1>2, HeldMoved DEF Loose, Given

(* takes what one returned and starts another one,                             *)
LEMMA GoOnHeld ==
  ASSUME Inv, Held, stack # <<>>, ctl = "Return", nodes' = nodes,
         ctl' \notin {"Return", "Accepted"}, NEW fn, NEW at,
         Replace(fn, Append(Top.kids, ret), at)
  PROVE  Held'
<1> DEFINE f == Frame(fn, Append(Top.kids, ret), at)
<1>1. f.kids = Append(Top.kids, ret) /\ stack' = [stack EXCEPT ![Len(stack)] = f]
  BY DEF Replace, Frame
<1> HIDE DEF f
<1>2. RisingKids(f.kids) /\ \A i : In(f.kids, i) <=> In(Top.kids, i) \/ i = ret
  BY <1>1, InHand
<1>3. \A i, h \in Nat : Below(stack, i) /\ In(f.kids, h) => i < h
  BY <1>2, InHand
<1>4. RisingStack(stack') /\ \A i : HeldBy(stack', i) <=> Below(stack, i) \/ In(f.kids, i)
  BY <1>1, <1>2, <1>3, KidsThere, RisingReplace DEF Held
<1>5. \A i : HeldBy(stack', i) <=> HeldBy(stack, i) \/ i = ret
  BY <1>2, <1>4, InHand
<1> QED BY <1>4, <1>5, HeldMoved DEF Loose, Given

(* returns what one returned,                                                  *)
LEMMA PassHeld ==
  ASSUME Inv, Held, stack # <<>>, ctl = "Return", ctl' = "Return", ret' = ret, Pop,
         Top.kids = <<>>,
         Len(nodes') = Len(nodes), \A p \in 1..Len(nodes) : nodes'[p].kids = nodes[p].kids
  PROVE  Held'
<1>1. \A i : ~In(Top.kids, i)
  BY EmptySeq DEF In
<1>2. RisingStack(stack') /\ \A i : HeldBy(stack', i) <=> HeldBy(stack, i)
  BY <1>1, InHand DEF Pop
<1>3. \A i \in Nat : HeldBy(stack', i) => i < ret'
  BY <1>2, InHand
<1> QED BY <1>2, <1>3, HeldMoved DEF Loose, Given

(* and builds a node of what it has.                                           *)
LEMMA BuildHeld ==
  ASSUME Inv, Held, stack # <<>>, ctl \in {"Return", "Path"}, Pop,
         NEW kind \in NodeKinds, NEW op \in TokenTypes, NEW kids, NEW d,
         Build(kind, op, kids, Top.at, d),
         kids = IF ctl = "Return" THEN Append(Top.kids, ret) ELSE Top.kids
  PROVE  Held'
<1> DEFINE node == [kind |-> kind, op |-> op, kids |-> kids, at |-> Top.at]
<1>1. kids \in Seq(Nat) /\ Top.at \in Nat
  BY Collected, TopFrame
<1>2. /\ nodes' = Append(nodes, node) /\ ret' = Len(nodes) + 1 /\ ctl' = "Return"
      /\ node \in NodeType /\ node.kids = kids
  BY <1>1 DEF Build, NodeType
<1> HIDE DEF node
<1>3. /\ RisingKids(kids)
      /\ \A i : In(kids, i) <=> In(Top.kids, i) \/ (ctl = "Return" /\ i = ret)
  BY InHand
<1>4. RisingStack(stack') /\ \A i : HeldBy(stack', i) <=> Below(stack, i)
  BY InHand DEF Pop
<1>5. /\ Len(nodes) \in Nat /\ \A i : HeldBy(stack, i) => i \in 1..Len(nodes)
      /\ \A i : Loose(i) <=> Below(stack, i) \/ In(kids, i)
  BY <1>3, InHand, KidsThere DEF Loose, Given
<1>6. \A i : In(kids, i) => i \in 1..Len(nodes) /\ Loose(i)
  BY <1>3, <1>5, InHand
<1>7. \A i : Below(stack, i) => i \in 1..Len(nodes) /\ ~In(kids, i)
  <2>1. \A i : Below(stack, i) => i \in 1..Len(nodes) /\ HeldBy(stack, i)
    BY <1>5, InHand
  <2>2. ASSUME NEW i, Below(stack, i), In(Top.kids, i) PROVE FALSE
    <3>1. i < i /\ i \in Nat
      BY <2>2, InHand
    <3> QED BY <3>1
  <2>3. ctl = "Return" => \A i : Below(stack, i) => i < ret /\ i # ret
    BY <2>1, InHand
  <2> QED BY <1>3, <2>1, <2>2, <2>3
<1>8. \A i : HeldBy(stack', i) => i < ret'
  BY <1>2, <1>4, <1>5, <1>7
<1>9. \A i \in 1..Len(nodes) + 1 :
        HeldBy(stack', i) \/ (ctl' \in {"Return", "Accepted"} /\ i = ret')
          <=> i = Len(nodes) + 1 \/ (Loose(i) /\ ~In(node.kids, i))
  BY <1>2, <1>4, <1>5, <1>7
<1> QED BY <1>2, <1>3, <1>4, <1>6, <1>8, <1>9, HeldBuilt

(* A failure drops everything.                                                 *)
LEMMA FailHeld ==
  ASSUME Held, nodes' = nodes, stack' = <<>>, ctl' = "Failed"
  PROVE  Held'
<1>1. Forest(nodes')
  <2>1. Forest(nodes)
    BY DEF Held
  <2> QED BY <2>1
<1>2. RisingStack(stack')
  <2>1. 1..Len(stack') = {}
    BY EmptySeq
  <2> QED BY <2>1 DEF RisingStack
<1> QED BY <1>1, <1>2 DEF Held

(* A literal, a hop of a path and the sum so far are built without returning   *)
(* to a caller; a comma list is taken over as it is.                           *)
LEMMA NoKids ==
  /\ \A i : ~In(<<>>, i)
  /\ RisingKids(<<>>)
  /\ Inv /\ stack # <<>> /\ Top.fn \in {"Expr", "Not", "Paren", "Array", "ClassCall", "MemberOf"}
       => Top.kids = <<>>
<1>1. (\A i : ~In(<<>>, i)) /\ RisingKids(<<>>)
  BY EmptySeq DEF In, RisingKids
<1>2. ASSUME Inv, stack # <<>>,
             Top.fn \in {"Expr", "Not", "Paren", "Array", "ClassCall", "MemberOf"}
      PROVE  Top.kids = <<>>
  <2>1. Top.kids \in Seq(Nat) /\ FrameFits(nodes, Top)
    BY <1>2, TopFrame
  <2>2. Len(Top.kids) = 0
    BY <1>2, <2>1 DEF FrameFits, CollectedOK
  <2> QED BY <2>1, <2>2, EmptySeq
<1> QED BY <1>1, <1>2

LEMMA LiteralHeld == ASSUME Inv, Held, Literal PROVE Held'
<1> DEFINE node == [kind |-> "Literal", op |-> Peek, kids |-> <<>>, at |-> pos]
<1>1. pos \in Nat /\ Peek \in TokenTypes /\ ctl = "Atom" /\ stack' = stack
  BY DEF Literal, TokenTypes, Inv
<1>2. /\ nodes' = Append(nodes, node) /\ ret' = Len(nodes) + 1 /\ ctl' = "Return"
      /\ node \in NodeType /\ node.kids = <<>>
  BY <1>1, BuiltKinds, EmptySeq DEF Literal, Build, NodeType
<1> HIDE DEF node
<1>3. Len(nodes) \in Nat /\ \A i : HeldBy(stack, i) => i \in 1..Len(nodes)
  BY KidsThere
<1>4. \A i : HeldBy(stack', i) => i < ret'
  BY <1>1, <1>2, <1>3
<1>5. \A i : Loose(i) <=> HeldBy(stack, i)
  BY <1>1 DEF Loose, Given
<1>6. RisingStack(stack')
  BY <1>1 DEF Held
<1> QED BY <1>1, <1>2, <1>3, <1>4, <1>5, <1>6, NoKids, HeldBuilt

LEMMA NameHopHeld == ASSUME Inv, Held, NameHop PROVE Held'
<1> DEFINE N == Len(nodes)
           node == [kind |-> "NameHop", op |-> "Name", kids |-> <<>>, at |-> pos + 1]
           f == Frame("Path", Append(Top.kids, N + 1), Top.at)
<1>1. /\ ctl = "Path" /\ ctl' = "Path" /\ ret' = ret /\ pos \in Nat
      /\ nodes' = Append(nodes, node) /\ stack' = [stack EXCEPT ![Len(stack)] = f]
      /\ f.kids = Append(Top.kids, N + 1)
  BY DEF NameHop, Replace, Frame, Inv
<1>2. node \in NodeType /\ node.kids = <<>>
  BY <1>1, BuiltKinds, EmptySeq DEF NodeType
<1> HIDE DEF node, f
<1>3. stack # <<>>
  BY <1>1 DEF Inv, ControlOK, Running
<1>4. N \in Nat /\ \A i : HeldBy(stack, i) => i \in 1..N
  BY KidsThere
<1>5. /\ RisingKids(Top.kids) /\ Top.kids \in Seq(Nat)
      /\ \A i : HeldBy(stack, i) <=> Below(stack, i) \/ In(Top.kids, i)
      /\ \A i, h : Below(stack, i) /\ In(Top.kids, h) => i < h /\ i \in Nat /\ h \in Nat
  BY <1>3, InHand
<1>6. \A i \in Nat : In(Top.kids, i) => i < N + 1
  BY <1>4, <1>5
<1>7. RisingKids(f.kids) /\ \A i : In(f.kids, i) <=> In(Top.kids, i) \/ i = N + 1
  BY <1>1, <1>4, <1>5, <1>6, RisesOn
<1>8. ASSUME NEW i \in Nat, NEW h \in Nat, Below(stack, i), In(f.kids, h) PROVE i < h
  <2>1. i < N + 1
    BY <1>4, <1>5, <1>8
  <2>2. In(Top.kids, h) => i < h
    BY <1>5, <1>8
  <2> QED BY <1>7, <1>8, <2>1, <2>2
<1>9. RisingStack(stack') /\ \A i : HeldBy(stack', i) <=> HeldBy(stack, i) \/ i = N + 1
  <2>1. RisingStack(stack') /\ \A i : HeldBy(stack', i) <=> Below(stack, i) \/ In(f.kids, i)
    BY <1>1, <1>3, <1>7, <1>8, KidsThere, RisingReplace DEF Held
  <2> QED BY <1>5, <1>7, <2>1
<1>10. \A i : Loose(i) <=> HeldBy(stack, i)
  BY <1>1 DEF Loose, Given
<1> QED BY <1>1, <1>2, <1>9, <1>10, NoKids, HeldBuilt

LEMMA TermDoneHeld == ASSUME Inv, Held, TermDone PROVE Held'
<1> DEFINE kids == Append(Top.kids, ret)
           node == [kind |-> "Additive", op |-> "Plus", kids |-> kids, at |-> Top.at]
           f == Frame("Additive", <<>>, Top.at)
<1>1. /\ ctl = "Return" /\ stack # <<>> /\ f.kids = <<>>
      /\ nodes' = Append(nodes, node) /\ ret' = Len(nodes) + 1 /\ ctl' = "Return"
      /\ stack' = [stack EXCEPT ![Len(stack)] = f]
  BY DEF TermDone, Awaiting, Build, Replace, Frame
<1>2. kids \in Seq(Nat) /\ Top.at \in Nat
  BY <1>1, Collected
<1>3. RisingKids(kids) /\ \A i : In(kids, i) <=> In(Top.kids, i) \/ i = ret
  BY <1>1, InHand
<1> HIDE DEF kids
<1>4. node \in NodeType /\ node.kids = kids
  BY <1>2, BuiltKinds DEF NodeType
<1> HIDE DEF node, f
<1>5. /\ Len(nodes) \in Nat /\ \A i : HeldBy(stack, i) => i \in 1..Len(nodes)
      /\ \A i : HeldBy(stack, i) <=> Below(stack, i) \/ In(Top.kids, i)
      /\ \A i : HeldBy(stack, i) => i < ret
      /\ ret \in 1..Len(nodes)
      /\ \A i, h : Below(stack, i) /\ In(Top.kids, h) => i < h /\ i \in Nat /\ h \in Nat
  BY <1>1, InHand, KidsThere
<1>6. RisingStack(stack') /\ \A i : HeldBy(stack', i) <=> Below(stack, i)
  <2>1. RisingKids(f.kids) /\ \A i : ~In(f.kids, i)
    BY <1>1, NoKids
  <2> QED BY <1>1, <2>1, KidsThere, RisingReplace DEF Held
<1>7. \A i : Loose(i) <=> Below(stack, i) \/ In(kids, i)
  BY <1>1, <1>3, <1>5 DEF Loose, Given
<1>8. \A i : In(kids, i) => i \in 1..Len(nodes) /\ Loose(i)
  BY <1>3, <1>5, <1>7
<1>9. ASSUME NEW i, Below(stack, i) PROVE i \in 1..Len(nodes) /\ ~In(kids, i)
  <2>1. i \in 1..Len(nodes) /\ i < ret
    BY <1>5, <1>9
  <2>2. In(Top.kids, i) => i < i /\ i \in Nat
    BY <1>5, <1>9
  <2>3. ~In(Top.kids, i) /\ i # ret
    BY <1>5, <2>1, <2>2
  <2> QED BY <1>3, <2>1, <2>3
<1>10. ASSUME NEW i \in Nat, HeldBy(stack', i) PROVE i < ret'
  <2>1. i \in 1..Len(nodes)
    BY <1>6, <1>9, <1>10
  <2> QED BY <1>1, <1>5, <2>1
<1>11. \A i \in 1..Len(nodes) + 1 :
         HeldBy(stack', i) \/ (ctl' \in {"Return", "Accepted"} /\ i = ret')
           <=> i = Len(nodes) + 1 \/ (Loose(i) /\ ~In(node.kids, i))
  BY <1>1, <1>4, <1>5, <1>6, <1>7, <1>9
<1> QED BY <1>1, <1>3, <1>4, <1>6, <1>8, <1>10, <1>11, HeldBuilt

LEMMA CloseArrayHeld == ASSUME Inv, Held, CloseArray PROVE Held'
<1>1. /\ ctl = "Return" /\ stack # <<>> /\ Pop /\ Top.fn = "Array" /\ Top.kids = <<>>
      /\ ret \in 1..Len(nodes)
  BY Collected, NoKids DEF CloseArray, Awaiting
<1>2. CASE nodes[ret].kind # "CommaList"
  <2>1. Build("ArrayLit", "LBrace", <<ret>>, Top.at, FALSE)
    BY <1>2 DEF CloseArray
  <2>2. <<ret>> = Append(Top.kids, ret)
    BY <1>1, InHand
  <2> QED BY <1>1, <2>1, <2>2, BuildHeld, BuiltKinds
<1>3. CASE nodes[ret].kind = "CommaList"
  <2> DEFINE node == [nodes[ret] EXCEPT !.kind = "ArrayLit", !.op = "LBrace", !.at = Top.at]
  <2>1. ctl' = "Return" /\ ret' = ret /\ nodes' = [nodes EXCEPT ![ret] = node]
    BY <1>1, <1>3 DEF CloseArray
  <2>2. nodes[ret] \in NodeType
    BY <1>1, KidsThere, ElementOfSeq
  <2>3. node.kids = nodes[ret].kids
    BY <2>2 DEF NodeType
  <2> HIDE DEF node
  <2>4. /\ Len(nodes') = Len(nodes)
        /\ \A p \in 1..Len(nodes) : nodes'[p] = IF p = ret THEN node ELSE nodes[p]
    BY <1>1, <2>1, KidsThere
  <2>5. \A p \in 1..Len(nodes) : nodes'[p].kids = nodes[p].kids
    BY <2>3, <2>4
  <2> QED BY <1>1, <2>1, <2>4, <2>5, PassHeld
<1> QED BY <1>2, <1>3

-----------------------------------------------------------------------------
(* Every step keeps every node held once.                                      *)
LEMMA NextHeld == Inv /\ Held /\ [Next]_vars => Held'
<1> SUFFICES ASSUME Inv, Held, [Next]_vars PROVE Held'
  OBVIOUS
<1>1. CASE Descend \/ Parenthesis \/ OpenArray \/ OpenClassCall \/ OpenMemberOf \/ StartPath
           \/ MemberOfHop
  <2>1. /\ \E fn, at : Push(fn, <<>>, at)
        /\ ctl \in Delegates \cup {"Atom", "Path"} /\ nodes' = nodes
        /\ ctl' \in {"Path", "Expr", "Branch"} \/ (ctl \in Delegates /\ ctl' = Callee(ctl))
    BY <1>1 DEF Descend, Parenthesis, OpenArray, OpenClassCall, OpenMemberOf, StartPath,
       MemberOfHop, Start
  <2>2. ctl \notin {"Failed", "Return", "Accepted"} /\ ctl' \notin {"Return", "Accepted"}
    BY <2>1 DEF Delegates, Callee
  <2> QED BY <2>1, <2>2, PushHeld
<1>2. CASE Negation
  <2>1. CASE Peek = "Not"
    <3>1. Push("Not", <<>>, pos) /\ ctl = "Not" /\ ctl' = "Not" /\ nodes' = nodes
      BY <1>2, <2>1 DEF Negation, Start
    <3> QED BY <3>1, PushHeld
  <2>2. CASE Peek # "Not"
    <3>1. ctl = "Not" /\ ctl' = "Comparison" /\ UNCHANGED <<stack, ret, nodes>>
      BY <1>2, <2>2 DEF Negation, Start
    <3> QED BY <3>1, HeldMoved DEF Loose, Given, Held
  <2> QED BY <2>1, <2>2
<1>3. CASE Literal
  BY <1>3, LiteralHeld
<1>4. CASE NameHop
  BY <1>4, NameHopHeld
<1>5. CASE EndPath
  <2>1. ctl = "Path" /\ Build("PathExpr", toks[Top.at], Top.kids, Top.at, FALSE) /\ Pop
    BY <1>5 DEF EndPath
  <2>2. stack # <<>>
    BY <2>1 DEF Inv, ControlOK, Running
  <2>3. toks[Top.at] \in TokenTypes
    BY <2>2, TopFrame
  <2> QED BY <2>1, <2>2, <2>3, BuildHeld, BuiltKinds
<1>6. CASE HopDone \/ TrueBranchDone \/ BranchItemDone
  <2>1. /\ ctl = "Return" /\ stack # <<>> /\ nodes' = nodes /\ ctl' \in {"Path", "Branch", "Expr"}
        /\ \E fn : Replace(fn, Append(Top.kids, ret), Top.at)
    BY <1>6 DEF HopDone, TrueBranchDone, BranchItemDone, Awaiting, Start
  <2> QED BY <2>1, GoOnHeld
<1>7. CASE ExprDone
  <2>1. ctl = "Return" /\ stack # <<>> /\ Top.kids = <<>>
    BY <1>7, NoKids DEF ExprDone, Awaiting
  <2>2. CASE Peek = "Question"
    <3>1. Replace("TrueBranch", <<ret>>, Top.at) /\ nodes' = nodes /\ ctl' = "Branch"
      BY <1>7, <2>2 DEF ExprDone, Start
    <3>2. <<ret>> = Append(Top.kids, ret)
      BY <2>1, InHand
    <3> QED BY <2>1, <3>1, <3>2, GoOnHeld
  <2>3. CASE Peek # "Question"
    BY <1>7, <2>1, <2>3, PassHeld DEF ExprDone, Pass
  <2> QED BY <2>2, <2>3
<1>8. CASE NoComparison \/ NoTerm \/ CloseParen
  <2>1. /\ ctl = "Return" /\ stack # <<>> /\ Pass /\ Pop
        /\ Top.kids = <<>> \/ Top.fn = "Paren"
    BY <1>8 DEF NoComparison, NoTerm, CloseParen, Awaiting
  <2> QED BY <2>1, NoKids, PassHeld DEF Pass
<1>9. ASSUME \E fn \in {"Or", "And"} : ChainOperandDone(fn) PROVE Held'
  <2>1. PICK fn \in {"Or", "And"} : ChainOperandDone(fn)
    BY <1>9
  <2>2. /\ ctl = "Return" /\ stack # <<>> /\ nodes' = nodes /\ ctl' = Callee(fn)
        /\ Replace(fn, Append(Top.kids, ret), Top.at)
    BY <2>1 DEF ChainOperandDone, Awaiting, Start
  <2>3. ctl' \notin {"Return", "Accepted"}
    BY <2>2 DEF Callee
  <2> QED BY <2>2, <2>3, GoOnHeld
<1>10. ASSUME BranchDone \/ FalseBranchDone \/ RightDone \/ \E fn \in {"Or", "And"} : ChainDone(fn)
       PROVE  Held'
  <2>1. ctl = "Return" /\ stack # <<>> /\ Pop
    BY <1>10 DEF BranchDone, FalseBranchDone, RightDone, ChainDone, Awaiting
  <2>2. toks[Top.at] \in TokenTypes
    BY <2>1, Collected
  <2>3. \/ Top.kids = <<>> /\ Pass
        \/ \E d : \E kind \in NodeKinds, op \in TokenTypes :
             Build(kind, op, Append(Top.kids, ret), Top.at, d)
    BY <1>10, <2>2, BuiltKinds DEF BranchDone, FalseBranchDone, RightDone, ChainDone
  <2>4. CASE Top.kids = <<>> /\ Pass
    BY <2>1, <2>4, PassHeld DEF Pass
  <2>5. CASE \E d : \E kind \in NodeKinds, op \in TokenTypes :
               Build(kind, op, Append(Top.kids, ret), Top.at, d)
    BY <2>1, <2>5, BuildHeld
  <2> QED BY <2>3, <2>4, <2>5
<1>11. CASE NotDone \/ CloseClassCall \/ CloseMemberOf
  <2>1. /\ ctl = "Return" /\ stack # <<>> /\ Pop /\ Top.fn \in {"Not", "ClassCall", "MemberOf"}
    BY <1>11 DEF NotDone, CloseClassCall, CloseMemberOf, CloseCall, Awaiting
  <2>2. toks[Top.at] \in TokenTypes
    BY <2>1, Collected
  <2>3. \E d : \E kind \in NodeKinds, op \in TokenTypes : Build(kind, op, <<ret>>, Top.at, d)
    BY <1>11, <2>2, BuiltKinds DEF NotDone, CloseClassCall, CloseMemberOf, CloseCall
  <2>4. <<ret>> = Append(Top.kids, ret)
    BY <2>1, NoKids, InHand
  <2> QED BY <2>1, <2>3, <2>4, BuildHeld
<1>12. CASE LeftDone \/ NextTerm
  <2>1. /\ ctl = "Return" /\ stack # <<>> /\ nodes' = nodes /\ ctl' \in {"Additive", "Atom"}
        /\ Top.kids = <<>> /\ \E fn : Replace(fn, <<ret>>, pos)
    BY <1>12 DEF LeftDone, NextTerm, Awaiting, Start
  <2>2. <<ret>> = Append(Top.kids, ret)
    BY <2>1, InHand
  <2> QED BY <2>1, <2>2, GoOnHeld
<1>13. CASE TermDone
  BY <1>13, TermDoneHeld
<1>14. CASE CloseArray
  BY <1>14, CloseArrayHeld
<1>15. CASE BadAtom \/ BadHop \/ MissingCloser \/ ConditionMisplaced
  <2>1. Fail
    BY <1>15 DEF BadAtom, BadHop, MissingCloser, ConditionMisplaced
  <2> QED BY <2>1, FailHeld DEF Fail
<1>16. CASE Finish
  <2>1. /\ ctl = "Return" /\ stack = <<>> /\ UNCHANGED <<stack, ret, nodes>>
        /\ ctl' \in {"Accepted", "Failed"}
    BY <1>16 DEF Finish
  <2>2. CASE ctl' = "Failed"
    BY <2>1, <2>2, FailHeld
  <2>3. CASE ctl' = "Accepted"
    BY <2>1, <2>3, HeldMoved DEF Loose, Given, Held
  <2> QED BY <2>1, <2>2, <2>3
<1>17. CASE UNCHANGED vars
  BY <1>17 DEF vars, Held, Loose, Given
<1>18. CASE Done
  BY <1>17, <1>18 DEF Done
<1> QED
  BY <1>1, <1>2, <1>3, <1>4, <1>5, <1>6, <1>7, <1>8, <1>9, <1>10, <1>11, <1>12, <1>13, <1>14,
     <1>15, <1>16, <1>17, <1>18 DEF Next

(* The places of node i among what rs hold.                                    *)
LEMMA PlacesMean ==
  ASSUME NEW by, NEW rs, NEW i
  PROVE  /\ \A h : h \in Places(by, rs, i) <=>
              \E p \in 1..Len(rs) : \E j \in 1..Len(rs[p].kids) :
                rs[p].kids[j] = i /\ h = <<by, p, j>>
         /\ HeldBy(rs, i) <=> Places(by, rs, i) # {}
<1>1. \A h : h \in Places(by, rs, i) <=>
        \E p \in 1..Len(rs) : \E j \in 1..Len(rs[p].kids) : rs[p].kids[j] = i /\ h = <<by, p, j>>
  BY DEF Places
<1>2. HeldBy(rs, i) => Places(by, rs, i) # {}
  <2>1. SUFFICES ASSUME HeldBy(rs, i) PROVE Places(by, rs, i) # {}
    OBVIOUS
  <2>2. PICK p \in 1..Len(rs) : \E j \in 1..Len(rs[p].kids) : rs[p].kids[j] = i
    BY <2>1 DEF HeldBy, In
  <2>3. PICK j \in 1..Len(rs[p].kids) : rs[p].kids[j] = i
    BY <2>2
  <2>4. <<by, p, j>> \in Places(by, rs, i)
    BY <1>1, <2>3
  <2> QED BY <2>4
<1>3. Places(by, rs, i) # {} => HeldBy(rs, i)
  BY <1>1 DEF HeldBy, In
<1> QED BY <1>1, <1>2, <1>3

LEMMA OnePlace ==
  ASSUME NEW by, NEW rs, NEW i \in Nat, HeldBy(rs, i),
         \A p \in 1..Len(rs) : Len(rs[p].kids) \in Nat /\ RisingKids(rs[p].kids),
         \A p, q \in 1..Len(rs) : p # q => ~(In(rs[p].kids, i) /\ In(rs[q].kids, i))
  PROVE  \E h : Places(by, rs, i) = {h}
<1>1. \A h : h \in Places(by, rs, i) <=>
        \E p \in 1..Len(rs) : \E j \in 1..Len(rs[p].kids) : rs[p].kids[j] = i /\ h = <<by, p, j>>
  BY PlacesMean
<1>2. PICK h : h \in Places(by, rs, i)
  BY PlacesMean
<1>3. PICK p \in 1..Len(rs) : \E j \in 1..Len(rs[p].kids) : rs[p].kids[j] = i /\ h = <<by, p, j>>
  BY <1>1, <1>2
<1>4. PICK j \in 1..Len(rs[p].kids) : rs[p].kids[j] = i /\ h = <<by, p, j>>
  BY <1>3
<1>5. ASSUME NEW g \in Places(by, rs, i) PROVE g = h
  <2>1. PICK q \in 1..Len(rs) : \E l \in 1..Len(rs[q].kids) : rs[q].kids[l] = i /\ g = <<by, q, l>>
    BY <1>1, <1>5
  <2>2. PICK l \in 1..Len(rs[q].kids) : rs[q].kids[l] = i /\ g = <<by, q, l>>
    BY <2>1
  <2>3. p = q
    BY <1>4, <2>2 DEF In
  <2>4. ~(j < l) /\ ~(l < j) /\ j \in Nat /\ l \in Nat
    BY <1>4, <2>2, <2>3 DEF RisingKids
  <2> QED BY <1>4, <2>2, <2>3, <2>4
<1> QED BY <1>2, <1>5

(* What Held says, put as HeldOnce.                                            *)
LEMMA HeldMeans == Inv /\ KidsBefore /\ Held => HeldOnce
<1> SUFFICES ASSUME Inv, KidsBefore, Held PROVE HeldOnce
  OBVIOUS
<1>1. /\ Len(nodes) \in Nat /\ ret \in 0..Len(nodes)
      /\ \A p \in 1..Len(nodes) : nodes[p].kids \in Seq(Nat) /\ Len(nodes[p].kids) \in Nat
      /\ \A k \in 1..Len(stack) : Len(stack[k].kids) \in Nat
  BY KidsThere DEF Inv
<1>2. ASSUME ctl = "Accepted" PROVE ret \in 1..Len(nodes) /\ \A i : ~HeldBy(stack, i)
  BY <1>2, EmptySeq DEF Inv, ReturnOK, Held, HeldBy
<1>3. ASSUME ctl # "Failed", NEW i \in 1..Len(nodes)
      PROVE  IF ctl = "Accepted" /\ i = ret THEN Holders(i) = {}
                                            ELSE \E h \in Holders(i) : Holders(i) = {h}
  <2>1. HeldBy(nodes, i) <=> ~Loose(i)
    BY <1>3 DEF Held
  <2> DEFINE returned == IF ctl = "Return" /\ ret = i THEN {<<"return">>} ELSE {}
  <2>2. Holders(i) = Places("node", nodes, i) \cup Places("method", stack, i) \cup returned
    BY DEF Holders
  <2>3. CASE HeldBy(nodes, i)
    <3>1. ~HeldBy(stack, i) /\ ~(Given /\ i = ret)
      BY <2>1, <2>3 DEF Loose
    <3>2. Places("method", stack, i) = {} /\ returned = {}
      BY <3>1, PlacesMean DEF Given
    <3>3. \E h : Places("node", nodes, i) = {h}
      <4>1. \A p, q \in 1..Len(nodes) : p # q => ~(In(nodes[p].kids, i) /\ In(nodes[q].kids, i))
        BY DEF Held, Forest
      <4>2. \A p \in 1..Len(nodes) : RisingKids(nodes[p].kids)
        BY DEF Held, Forest
      <4>3. i \in Nat
        BY <1>1
      <4>4. \A p \in 1..Len(nodes) : Len(nodes[p].kids) \in Nat /\ RisingKids(nodes[p].kids)
        BY <1>1, <4>2
      <4> QED BY <2>3, <4>1, <4>3, <4>4, OnePlace
    <3>4. ~(ctl = "Accepted" /\ i = ret)
      BY <3>1 DEF Given
    <3> QED BY <2>2, <3>2, <3>3, <3>4
  <2>4. CASE ~HeldBy(nodes, i) /\ HeldBy(stack, i)
    <3>1. ctl # "Accepted" /\ ~(ctl = "Return" /\ ret = i)
      <4>1. ctl = "Return" => i < ret
        BY <2>4 DEF Held
      <4> QED BY <1>1, <1>2, <2>4, <4>1
    <3>2. Places("node", nodes, i) = {} /\ returned = {}
      BY <2>4, <3>1, PlacesMean
    <3>3. \E h : Places("method", stack, i) = {h}
      <4>1. ASSUME NEW p \in 1..Len(stack), NEW q \in 1..Len(stack), p # q,
                   In(stack[p].kids, i), In(stack[q].kids, i)
            PROVE  FALSE
        <5>1. p < q \/ q < p
          BY <4>1, KidsThere
        <5>2. i < i
          BY <4>1, <5>1 DEF Held, RisingStack
        <5> QED BY <5>2
      <4>2. \A k \in 1..Len(stack) : RisingKids(stack[k].kids)
        BY DEF Held, RisingStack
      <4>3. i \in Nat
        BY <1>1
      <4>4. \A k \in 1..Len(stack) : Len(stack[k].kids) \in Nat /\ RisingKids(stack[k].kids)
        BY <1>1, <4>2
      <4> QED BY <2>4, <4>1, <4>3, <4>4, OnePlace
    <3> QED BY <2>2, <3>1, <3>2, <3>3
  <2>5. CASE ~HeldBy(nodes, i) /\ ~HeldBy(stack, i)
    <3>1. Given /\ i = ret
      BY <2>1, <2>5 DEF Loose
    <3>2. Places("node", nodes, i) = {} /\ Places("method", stack, i) = {}
      BY <2>5, PlacesMean
    <3>3. CASE ctl = "Return"
      <4>1. Holders(i) = {<<"return">>}
        BY <2>2, <3>1, <3>2, <3>3
      <4> QED BY <3>3, <4>1
    <3>4. CASE ctl = "Accepted"
      <4>1. Holders(i) = {}
        BY <2>2, <3>2, <3>4
      <4> QED BY <3>1, <3>4, <4>1
    <3> QED BY <3>1, <3>3, <3>4 DEF Given
  <2> QED BY <2>3, <2>4, <2>5
<1>4. ASSUME ctl = "Accepted" PROVE ret = Len(nodes)
  <2>1. Len(nodes) \in 1..Len(nodes)
    BY <1>1, <1>2, <1>4
  <2>2. ~HeldBy(nodes, Len(nodes))
    BY <1>1 DEF KidsBefore, HeldBy, In
  <2>3. Loose(Len(nodes))
    BY <1>4, <2>1, <2>2 DEF Held
  <2> QED BY <1>2, <1>4, <2>3 DEF Loose
<1>5. ASSUME NEW i \in 1..Len(nodes), NEW j \in 1..Len(nodes[i].kids)
      PROVE  nodes[i].kids[j] < IF j = Len(nodes[i].kids) THEN i ELSE nodes[i].kids[j + 1]
  <2>1. CASE j = Len(nodes[i].kids)
    BY <2>1 DEF KidsBefore
  <2>2. CASE j # Len(nodes[i].kids)
    <3>1. j + 1 \in 1..Len(nodes[i].kids) /\ j < j + 1
      BY <1>1, <2>2
    <3> QED BY <2>2, <3>1 DEF Held, Forest, RisingKids
  <2> QED BY <2>1, <2>2
<1> QED BY <1>3, <1>4, <1>5 DEF HeldOnce

(* For every token stream: no node is lost, shared or its own ancestor, and the*)
(* AST parseToAST returns is one tree of every node built (astparse.go).       *)
THEOREM AlwaysHeldOnce == Spec => []HeldOnce
<1>1. Init => Inv /\ KidsBefore /\ Held
  <2> SUFFICES ASSUME Init PROVE Inv /\ KidsBefore /\ Held
    OBVIOUS
  <2>1. nodes = <<>> /\ stack = <<>> /\ ctl = "Expr" /\ Len(nodes) = 0
    BY EmptySeq DEF Init
  <2>2. Entered
    BY StreamsAssumption DEF Init, Entered
  <2>3. Inv /\ KidsBefore
    BY <2>1, <2>2, EnteredInv DEF KidsBefore
  <2>4. Held
    BY <2>1, EmptySeq DEF Held, Forest, RisingStack
  <2> QED BY <2>3, <2>4
<1>2. Inv /\ KidsBefore /\ Held /\ [Next]_vars => (Inv /\ KidsBefore /\ Held)'
  BY NextInv, OrderKept, NextHeld
<1> QED
  BY <1>1, <1>2, HeldMeans, PTL DEF Spec
=============================================================================
