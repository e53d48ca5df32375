--------------------------- MODULE EvaluatorProofs ---------------------------
(* Proofs about Evaluator, for every tree, context and expression class: the   *)
(* frames are a path down the tree (Fits), what they hold is what the nodes    *)
(* mean to a lazy reader and the error reported is the first (Means), and the  *)
(* values they hold are flat and their sums associate (Held).                  *)
EXTENDS LazyEvaluation, SequenceLemmas

-----------------------------------------------------------------------------
(* What every tree evaluated looks like.                                       *)
LEMMA Tree ==
  ASSUME WellFormed(prog)
  PROVE  /\ Root \in Nat \ {0}
         /\ prog[Root].kind # "NameHop"
         /\ \A i \in 1..Root :
              /\ ArityOk(prog[i])
              /\ Len(prog[i].kids) \in Nat
              /\ \A k \in 1..Len(prog[i].kids) :
                   /\ prog[i].kids[k] \in 1..Root
                   /\ prog[prog[i].kids[k]].kind = "NameHop" => prog[i].kind = "PathExpr"
<1>1. /\ prog \in Seq(Range(prog)) /\ prog # <<>>
      /\ prog[Root].kind # "NameHop"
  BY DEF Root, WellFormed
<1>2. Root \in Nat \ {0}
  BY <1>1 DEF Root
<1>3. ASSUME NEW i \in 1..Root
      PROVE  /\ ArityOk(prog[i])
             /\ prog[i].kids \in Seq(1..i - 1)
             /\ \A k \in 1..Len(prog[i].kids) :
                  prog[prog[i].kids[k]].kind = "NameHop" => prog[i].kind = "PathExpr"
  BY DEF Root, WellFormed
<1>4. ASSUME NEW i \in 1..Root, NEW k \in 1..Len(prog[i].kids)
      PROVE  prog[i].kids[k] \in 1..Root
  <2>1. prog[i].kids[k] \in 1..i - 1
    BY <1>3, ElementOfSeq
  <2> QED BY <1>2, <2>1
<1>5. ASSUME NEW i \in 1..Root
      PROVE  Len(prog[i].kids) \in Nat
  BY <1>3
<1> QED BY <1>1, <1>2, <1>3, <1>4, <1>5

(* What is known of a frame, and of a stack.                                   *)
FrameFits(frame) ==
  /\ FrameTyped(frame)
  /\ FrameCounts(frame)
  /\ Condition(frame.node) => FrameBool(frame)

StackFits(frames) ==
  /\ frames \in Seq(Range(frames))
  /\ \A d \in 1..Len(frames) : FrameFits(frames[d])
  /\ frames # <<>> => frames[1].node = Root
  /\ \A d \in 1..Len(frames) - 1 :
       /\ frames[d].next <= Len(prog[frames[d].node].kids)
       /\ frames[d + 1].node = prog[frames[d].node].kids[frames[d].next]
       /\ prog[frames[d + 1].node].kind # "NameHop"

(* A frame about to evaluate its first operand fits.                           *)
LEMMA NewFrame ==
  ASSUME WellFormed(prog), NEW i \in 1..Root
  PROVE  FrameFits(Frame(i)) /\ Frame(i).node = i /\ Frame(i).next = 1
<1>1. Len(prog[i].kids) \in Nat
  BY Tree
<1>2. Len(<<>>) = 0 /\ <<>> \in Seq(Range(<<>>))
  BY DEF Range
<1>3. Frame(i).node = i /\ Frame(i).next = 1 /\ Frame(i).vals = <<>>
  BY DEF Frame
<1>4. FrameTyped(Frame(i))
  BY <1>1, <1>2, <1>3 DEF FrameTyped, Root
<1>5. FrameCounts(Frame(i)) /\ FrameBool(Frame(i))
  BY <1>2, <1>3 DEF FrameCounts, FrameBool
<1> QED BY <1>3, <1>4, <1>5 DEF FrameFits

(* A condition is boolean by its kind, or its operands are conditions.         *)
LEMMA ConditionKids ==
  ASSUME NEW i \in 1..Root, Condition(i)
  PROVE  \/ prog[i].kind \in BoolKinds
         \/ prog[i].kind = "Literal" /\ Type(prog[i].val) = "bool"
         \/ prog[i].kind = "Logical" /\ \A k \in 1..Len(prog[i].kids) : Condition(prog[i].kids[k])
         \/ prog[i].kind = "Ternary" /\ Condition(prog[i].kids[2]) /\ Condition(prog[i].kids[3])
<1>1. PICK S \in SUBSET MayBeBool : BoolNodes(S) /\ i \in S
  BY DEF Condition
<1>2. \A j \in S : Condition(j)
  BY <1>1 DEF Condition
<1> QED BY <1>1, <1>2 DEF BoolNodes

(* A frame takes the value of its next operand.                                *)
LEMMA AbsorbFits ==
  ASSUME WellFormed(prog),
         NEW frame, FrameFits(frame),
         frame.next <= Len(prog[frame.node].kids),
         NEW v,
         Condition(prog[frame.node].kids[frame.next]) => Type(v) = "bool"
  PROVE  /\ FrameFits(Absorb(frame, v))
         /\ Absorb(frame, v).node = frame.node
<1> DEFINE i == frame.node
           new == Absorb(frame, v)
<1>1. /\ i \in 1..Root /\ frame.next \in 1..Len(prog[i].kids)
      /\ Len(prog[i].kids) \in Nat
      /\ frame.vals \in Seq(Range(frame.vals))
      /\ ArityOk(prog[i])
  BY Tree DEF FrameFits, FrameTyped, Root
<1>2. new.node = i /\ new.next = frame.next + 1 /\ new.vals = Absorbed(frame, v)
  BY DEF Absorb
<1>3. Absorbed(frame, v) \in Seq(Range(Absorbed(frame, v)))
  BY <1>1, SeqOne, SeqWiden DEF Absorbed
<1>4. FrameTyped(new)
  BY <1>1, <1>2, <1>3 DEF FrameTyped, Root
<1>5. ASSUME prog[i].kind \notin {"PathExpr", "CommaList"}
      PROVE  /\ new.vals = Append(frame.vals, v)
             /\ Len(new.vals) = Len(frame.vals) + 1
             /\ new.vals[Len(frame.vals) + 1] = v
             /\ \A k \in 1..Len(frame.vals) : new.vals[k] = frame.vals[k]
             /\ Len(frame.vals) \in Nat
  <2>1. new.vals = Append(frame.vals, v)
    BY <1>2, <1>5 DEF Absorbed
  <2> QED BY <1>1, <2>1, SeqWiden, LenProperties
<1>6. FrameCounts(new)
  BY <1>1, <1>2, <1>5 DEF FrameFits, FrameCounts
<1>7. ASSUME Condition(i)
      PROVE  FrameBool(new)
  <2>1. FrameBool(frame)
    BY <1>7 DEF FrameFits
  <2>2. ASSUME prog[i].kind = "Logical", NEW k \in 1..Len(new.vals)
        PROVE  Type(new.vals[k]) = "bool"
    <3>1. Type(v) = "bool"
      BY <1>1, <1>7, <2>2, ConditionKids DEF BoolKinds
    <3>2. CASE k = Len(frame.vals) + 1
      BY <1>5, <2>2, <3>1, <3>2
    <3>3. CASE k # Len(frame.vals) + 1
      <4>1. k \in 1..Len(frame.vals)
        BY <1>5, <2>2, <3>3
      <4>2. Type(frame.vals[k]) = "bool"
        BY <2>1, <2>2, <4>1 DEF FrameBool
      <4> QED BY <1>5, <2>2, <4>1, <4>2
    <3> QED BY <3>2, <3>3
  <2>3. ASSUME prog[i].kind = "Ternary", NEW k \in 2..Len(new.vals)
        PROVE  Type(new.vals[k]) = "bool"
    <3>1. Len(frame.vals) = frame.next - 1
      BY <2>3 DEF FrameFits, FrameCounts
    <3>2. Len(prog[i].kids) = 3
      BY <1>1, <2>3 DEF ArityOk
    <3>3. CASE k = Len(frame.vals) + 1
      <4>1. frame.next \in {2, 3}
        BY <1>1, <1>5, <2>3, <3>1, <3>2, <3>3
      <4>2. Condition(prog[i].kids[frame.next])
        BY <1>1, <1>7, <2>3, <4>1, ConditionKids DEF BoolKinds
      <4> QED BY <1>5, <2>3, <3>3, <4>2
    <3>4. CASE k # Len(frame.vals) + 1
      BY <1>5, <2>1, <2>3, <3>4 DEF FrameBool
    <3> QED BY <3>3, <3>4
  <2> QED BY <1>2, <2>2, <2>3 DEF FrameBool
<1> QED BY <1>2, <1>4, <1>6, <1>7 DEF FrameFits

-----------------------------------------------------------------------------
(* The parts of the invariant that speak of one state.                         *)
Fits ==
  /\ WellFormed(prog) /\ ctx \in Contexts /\ want \in Accessors
  /\ status \in Statuses
  /\ fault.node \in 0..Root
  /\ StackFits(stack)
  /\ status = "Running" <=> stack # <<>>
  /\ ResultBool
  /\ UnexpectedMeans
  /\ PanicsNeedEmptyChain

(* Together with the stack they are the invariant.                             *)
LEMMA FitsMeans == prog \in Programs => (IInv <=> Fits)
BY ProgramsAssumption DEF IInv, Fits, TypeOK, StackLinked, FramesFit, StackFits, FrameFits, Root

(* A step that leaves the tree alone keeps the invariant if its stack fits.    *)
LEMMA StepFits ==
  ASSUME Fits, Settled,
         status' \in Statuses, fault'.node \in 0..Root,
         StackFits(stack'),
         status' = "Running" <=> stack' # <<>>,
         status' \in {"Value", "Returned", "Unexpected"} /\ Condition(Root) =>
           Type(result') = "bool",
         status' = "Unexpected" => want # "any" /\ Type(result') # want,
         status' = "Panicked" => \E i \in 1..Root : prog[i].kind = "Logical" /\ prog[i].kids = <<>>
  PROVE  Fits'
<1>1. prog' = prog /\ ctx' = ctx /\ want' = want
  BY DEF Settled
<1>2. MayBeBool' = MayBeBool /\ \A S : BoolNodes(S)' <=> BoolNodes(S)
  BY <1>1 DEF BoolNodes, MayBeBool, Root
<1>3. \A i : Condition(i)' <=> Condition(i)
  BY <1>1, <1>2 DEF Condition, Root
<1>4. Root' = Root
  BY <1>1 DEF Root
<1>5. StackFits(stack)'
  BY <1>1, <1>3, <1>4
     DEF StackFits, FrameFits, FrameTyped, FrameCounts, FrameBool
<1>6. ResultBool' /\ UnexpectedMeans' /\ PanicsNeedEmptyChain'
  BY <1>1, <1>3, <1>4 DEF ResultBool, UnexpectedMeans, PanicsNeedEmptyChain
<1> QED BY <1>1, <1>4, <1>5, <1>6 DEF Fits

(* No frames fit.                                                              *)
LEMMA EmptyFits == StackFits(<<>>)
<1>1. <<>> \in Seq(Range(<<>>)) /\ Len(<<>>) = 0
  BY DEF Range
<1> QED BY <1>1 DEF StackFits

(* The positions of a stack of n frames, and of one with another frame on it.  *)
LEMMA Positions ==
  ASSUME NEW n \in Nat \ {0}
  PROVE  /\ 1 \in 1..n /\ n \in 1..n /\ n + 1 # 0 /\ (n + 1) - 1 = n
         /\ \A d \in 1..n + 1 : d = n + 1 \/ d \in 1..n
         /\ \A d \in 1..n : d = n \/ d \in 1..n - 1
         /\ \A d \in 1..n - 1 : d \in 1..n /\ d + 1 \in 1..n
OBVIOUS

(* A call adds a frame ...                                                     *)
LEMMA PushFits ==
  ASSUME WellFormed(prog),
         NEW frames, StackFits(frames), frames # <<>>,
         NEW n, n = Len(frames),
         NEW top, top = frames[n], top.next <= Len(prog[top.node].kids),
         NEW i, i = prog[top.node].kids[top.next], prog[i].kind # "NameHop"
  PROVE  StackFits(Append(frames, Frame(i)))
<1> DEFINE new == Append(frames, Frame(i))
<1>1. frames \in Seq(Range(frames)) /\ n \in Nat \ {0}
  BY LenProperties, EmptySeq DEF StackFits
<1>2. FrameTyped(top)
  <2>1. n \in 1..Len(frames)
    BY <1>1, Positions, Zenon
  <2>2. FrameFits(frames[n])
    BY <2>1, Zenon DEF StackFits
  <2> QED BY <2>2, Zenon DEF FrameFits
<1>3. i \in 1..Root
  <2>1. top.node \in 1..Root /\ top.next \in 1..Len(prog[top.node].kids) + 1
    BY <1>2 DEF FrameTyped, Root
  <2>2. Len(prog[top.node].kids) \in Nat
    BY <2>1, Tree
  <2>3. top.next \in 1..Len(prog[top.node].kids)
    BY <2>1, <2>2
  <2> QED BY <2>1, <2>3, Tree
<1>4. FrameFits(Frame(i)) /\ Frame(i).node = i
  BY <1>3, NewFrame
<1>5. /\ new \in Seq(Range(new)) /\ Len(new) = n + 1
      /\ new[n + 1] = Frame(i) /\ \A k \in 1..n : new[k] = frames[k]
  <2>1. /\ new \in Seq(Range(new)) /\ Len(new) = Len(frames) + 1
        /\ new[Len(frames) + 1] = Frame(i)
        /\ \A k \in 1..Len(frames) : new[k] = frames[k]
    <3>1. ASSUME NEW x
          PROVE  /\ Append(frames, x) \in Seq(Range(Append(frames, x)))
                 /\ Len(Append(frames, x)) = Len(frames) + 1
                 /\ Append(frames, x)[Len(frames) + 1] = x
                 /\ \A k \in 1..Len(frames) : Append(frames, x)[k] = frames[k]
      BY SMTT(30), <1>1, SeqWiden
    <3> QED BY <3>1, Zenon
  <2> QED BY <2>1, Zenon
<1>6. new # <<>>
  <2>1. n + 1 # 0
    BY <1>1, Positions, Zenon
  <2> QED BY <1>5, <2>1, EmptySeq, Zenon
<1> HIDE DEF new
<1>7. ASSUME NEW d \in 1..Len(new)
      PROVE  FrameFits(new[d])
  <2>1. CASE d = n + 1
    BY <1>4, <1>5, <2>1
  <2>2. CASE d # n + 1
    <3>1. d \in 1..n
      BY <1>1, <1>5, <2>2, Positions, Zenon
    <3>2. FrameFits(frames[d])
      BY <3>1 DEF StackFits
    <3> QED BY <1>5, <3>1, <3>2
  <2> QED BY <2>1, <2>2
<1>8. ASSUME NEW d \in 1..Len(new) - 1
      PROVE  /\ new[d].next <= Len(prog[new[d].node].kids)
             /\ new[d + 1].node = prog[new[d].node].kids[new[d].next]
             /\ prog[new[d + 1].node].kind # "NameHop"
  <2>1. CASE d = n
    <3>1. new[d] = top /\ new[d + 1] = Frame(i)
      BY <1>1, <1>5, <2>1, Positions, Zenon
    <3> QED BY <1>4, <3>1
  <2>2. CASE d # n
    <3>1. d \in 1..n - 1 /\ d + 1 \in 1..n /\ d \in 1..n
      BY <1>1, <1>5, <2>2, Positions, Zenon
    <3>2. new[d] = frames[d] /\ new[d + 1] = frames[d + 1]
      BY <1>5, <3>1
    <3>3. /\ frames[d].next <= Len(prog[frames[d].node].kids)
          /\ frames[d + 1].node = prog[frames[d].node].kids[frames[d].next]
          /\ prog[frames[d + 1].node].kind # "NameHop"
      BY <3>1 DEF StackFits
    <3> QED BY <3>2, <3>3
  <2> QED BY <2>1, <2>2
<1>9. new[1].node = Root
  <2>1. frames[1].node = Root
    BY DEF StackFits
  <2> QED BY <1>1, <1>5, <2>1, Positions, Zenon
<1> QED BY <1>5, <1>6, <1>7, <1>8, <1>9 DEF StackFits, new

(* ... and the top frame may be replaced by one for the same node.             *)
LEMMA ReplaceFits ==
  ASSUME NEW frames, StackFits(frames), frames # <<>>,
         NEW frame, FrameFits(frame), frame.node = frames[Len(frames)].node
  PROVE  /\ StackFits(Append(Front(frames), frame))
         /\ Append(Front(frames), frame) # <<>>
<1> DEFINE front == Front(frames)
           new == Append(front, frame)
           n == Len(frames)
<1>1. /\ front \in Seq(Range(front)) /\ Len(front) = n - 1 /\ n \in Nat \ {0}
      /\ \A k \in 1..n - 1 : front[k] = frames[k]
  BY SeqFront DEF StackFits
<1> HIDE DEF front
<1>2. /\ new \in Seq(Range(new)) /\ Len(new) = n
      /\ new[n] = frame /\ \A k \in 1..n - 1 : new[k] = frames[k]
  <2>1. /\ new \in Seq(Range(new)) /\ Len(new) = Len(front) + 1
        /\ new[Len(front) + 1] = frame /\ \A k \in 1..Len(front) : new[k] = front[k]
    BY <1>1, SeqWiden
  <2> QED BY <1>1, <2>1
<1>3. new # <<>>
  BY <1>1, <1>2
<1> HIDE DEF new, n
<1>4. \A d \in 1..Len(new) : FrameFits(new[d])
  BY <1>1, <1>2 DEF StackFits, n
<1>5. ASSUME NEW d \in 1..Len(new) - 1
      PROVE  /\ new[d].next <= Len(prog[new[d].node].kids)
             /\ new[d + 1].node = prog[new[d].node].kids[new[d].next]
             /\ prog[new[d + 1].node].kind # "NameHop"
  <2>1. d \in 1..n - 1 /\ d + 1 \in 1..n /\ (d + 1 = n \/ d + 1 \in 1..n - 1)
    BY <1>1, <1>2
  <2>2. new[d] = frames[d] /\ new[d + 1].node = frames[d + 1].node
    BY <1>2, <2>1 DEF n
  <2> QED BY <2>1, <2>2 DEF StackFits, n
<1>6. new[1].node = Root
  BY <1>1, <1>2 DEF StackFits, n
<1> QED BY <1>2, <1>3, <1>4, <1>5, <1>6 DEF StackFits, new, front

(* The frames under the top one, which are at the operand the top one is.      *)
LEMMA PopFits ==
  ASSUME NEW frames, StackFits(frames), Len(frames) > 1
  PROVE  /\ StackFits(Front(frames)) /\ Front(frames) # <<>>
         /\ LET last == Front(frames)[Len(Front(frames))]
            IN /\ Last(Front(frames)) = last
               /\ FrameFits(last)
               /\ last.next <= Len(prog[last.node].kids)
               /\ frames[Len(frames)].node = prog[last.node].kids[last.next]
<1> DEFINE new == Front(frames)
           n == Len(frames)
<1>1. frames # <<>>
  BY EmptySeq
<1>2. /\ new \in Seq(Range(new)) /\ Len(new) = n - 1 /\ n \in Nat \ {0}
      /\ \A k \in 1..n - 1 : new[k] = frames[k]
  BY <1>1, SeqFront DEF StackFits
<1>3. new # <<>> /\ n > 1
  BY <1>2
<1> HIDE DEF new, n
<1>4. \A d \in 1..Len(new) : FrameFits(new[d])
  BY <1>2 DEF StackFits, n
<1>5. ASSUME NEW d \in 1..Len(new) - 1
      PROVE  /\ new[d].next <= Len(prog[new[d].node].kids)
             /\ new[d + 1].node = prog[new[d].node].kids[new[d].next]
             /\ prog[new[d + 1].node].kind # "NameHop"
  <2>1. d \in 1..n - 1 /\ d + 1 \in 1..n - 1
    BY <1>2
  <2> QED BY <1>2, <2>1 DEF StackFits, n
<1>6. new[1].node = Root
  BY <1>1, <1>2, <1>3 DEF StackFits, n
<1>7. StackFits(new)
  BY <1>2, <1>3, <1>4, <1>5, <1>6 DEF StackFits
<1>8. Last(new) = new[Len(new)]
  BY <1>2, <1>3, SeqFront
<1>9. Len(new) \in 1..n - 1 /\ Len(new) + 1 = n /\ new[Len(new)] = frames[Len(new)]
  BY <1>2, <1>3
<1>10. /\ new[Len(new)].next <= Len(prog[new[Len(new)].node].kids)
       /\ frames[n].node = prog[new[Len(new)].node].kids[new[Len(new)].next]
  BY <1>1, <1>9 DEF StackFits, n
<1>11. FrameFits(new[Len(new)])
  BY <1>2, <1>4, <1>9
<1> QED BY <1>3, <1>7, <1>8, <1>10, <1>11 DEF new, n

-----------------------------------------------------------------------------
(* While an evaluation runs there is a top frame, and it fits.                 *)
LEMMA RunningTop ==
  ASSUME Fits, status = "Running"
  PROVE  /\ stack # <<>> /\ Len(stack) \in Nat \ {0}
         /\ FrameFits(Top)
         /\ Top.node \in 1..Root
         /\ Top.next \in 1..Len(Here.kids) + 1
         /\ Len(Here.kids) \in Nat
         /\ ArityOk(Here)
<1>1. stack \in Seq(Range(stack)) /\ stack # <<>>
  BY DEF Fits, StackFits
<1>2. Len(stack) \in Nat \ {0}
  BY <1>1, LenProperties, EmptySeq
<1>3. FrameFits(Top)
  BY <1>2 DEF Fits, StackFits, Top
<1>4. Top.node \in 1..Root /\ Top.next \in 1..Len(Here.kids) + 1
  BY <1>3 DEF FrameFits, FrameTyped, Here, Root
<1> QED BY <1>1, <1>2, <1>3, <1>4, Tree DEF Fits, Here

(* Returning a value keeps the invariant, if a condition's value is boolean.   *)
LEMMA ReturnFits ==
  ASSUME Fits, status = "Running",
         NEW v, Condition(Top.node) => Type(v) = "bool",
         Return(v)
  PROVE  Fits'
<1>1. stack # <<>> /\ Len(stack) \in Nat \ {0} /\ StackFits(stack)
  BY RunningTop DEF Fits
<1>2. Settled /\ fault' = fault /\ fault.node \in 0..Root /\ status \in Statuses
  BY DEF Return, Fits
<1>3. CASE Len(stack) = 1
  <2>1. Top.node = Root
    BY <1>1, <1>3 DEF Top, StackFits
  <2>2. stack' = <<>> /\ status' = "Value" /\ result' = v
    BY <1>3 DEF Return
  <2> QED BY <1>2, <2>1, <2>2, EmptyFits, StepFits DEF Statuses
<1>4. CASE Len(stack) # 1
  <2> DEFINE under == Front(stack)
             last == Last(under)
             frame == Absorb(last, v)
  <2>1. Len(stack) > 1
    BY <1>1, <1>4
  <2>2. /\ StackFits(under) /\ under # <<>>
        /\ last = under[Len(under)] /\ FrameFits(last)
        /\ last.next <= Len(prog[last.node].kids)
        /\ Top.node = prog[last.node].kids[last.next]
    BY <1>1, <2>1, PopFits DEF Top
  <2>3. FrameFits(frame) /\ frame.node = last.node
    BY <2>2, AbsorbFits DEF Fits
  <2>4. stack' = Append(Front(under), frame) /\ status' = status /\ result' = result
    BY <1>4 DEF Return
  <2> HIDE DEF under, last, frame
  <2>5. StackFits(stack') /\ stack' # <<>>
    BY <2>2, <2>3, <2>4, ReplaceFits
  <2> QED BY <1>2, <2>4, <2>5, StepFits
<1> QED BY <1>3, <1>4

(* Returning an error does.                                                    *)
LEMMA FailFits ==
  ASSUME Fits, NEW why, NEW node \in 0..Root, Fail(why, node)
  PROVE  Fits'
<1>1. /\ Settled /\ stack' = <<>> /\ status' = "Error"
      /\ fault'.node = node
  BY DEF Fail
<1> QED BY <1>1, EmptyFits, StepFits DEF Statuses

(* So does one or the other.                                                   *)
LEMMA ReturnOrFailFits ==
  ASSUME Fits, status = "Running",
         NEW outcome, NEW why,
         outcome.ok /\ Condition(Top.node) => Type(outcome.val) = "bool",
         ReturnOrFail(outcome, why)
  PROVE  Fits'
<1>1. CASE outcome.ok
  BY <1>1, ReturnFits DEF ReturnOrFail
<1>2. CASE ~outcome.ok
  <2>1. Fail(why, Top.node) /\ Top.node \in 0..Root
    BY <1>2, RunningTop DEF ReturnOrFail
  <2> QED BY <2>1, FailFits
<1> QED BY <1>1, <1>2

(* The top frame moves on by itself.                                           *)
LEMMA AdvanceFits ==
  ASSUME Fits, status = "Running",
         NEW frame, FrameFits(frame), frame.node = Top.node,
         stack' = Append(Front(stack), frame),
         UNCHANGED <<status, result, fault>>, Settled
  PROVE  Fits'
<1>1. stack # <<>> /\ StackFits(stack)
  BY DEF Fits
<1>2. StackFits(stack') /\ stack' # <<>>
  BY <1>1, ReplaceFits DEF Top
<1> QED BY <1>2, StepFits DEF Fits

-----------------------------------------------------------------------------
(* What Bool makes is boolean.                                                 *)
LEMMA BoolType == \A b : Type(Bool(b)) = "bool"
BY DEF Type, Bool

(* Nodes of most kinds are not conditions.                                     *)
LEMMA NotCondition ==
  ASSUME Fits, status = "Running",
         Here.kind \notin BoolKinds \cup {"Literal", "Logical", "Ternary"}
  PROVE  ~Condition(Top.node)
BY RunningTop, ConditionKids DEF Here

(* A comparison that does not fail is boolean.                                 *)
LEMMA ComparisonBool ==
  ASSUME NEW op, NEW a, NEW b, ApplyComparison(op, a, b).ok
  PROVE  Type(ApplyComparison(op, a, b).val) = "bool"
BY DEF ApplyComparison, CompareOperands, CompareInts, CompareStrings, Ok, Err, Type, Bool

(* Folding the first two values of a chain keeps one of them.                  *)
LEMMA FoldFits ==
  ASSUME WellFormed(prog),
         NEW frame, FrameFits(frame), prog[frame.node].kind = "Logical",
         Len(frame.vals) > 1,
         NEW first, first = frame.vals[1] \/ first = frame.vals[2],
         NEW folded, folded = <<first>> \o SubSeq(frame.vals, 3, Len(frame.vals))
  PROVE  FrameFits([node |-> frame.node, next |-> frame.next, vals |-> folded])
<1> DEFINE vals == frame.vals
           n == Len(vals)
           new == [node |-> frame.node, next |-> frame.next, vals |-> folded]
<1>1. /\ vals \in Seq(Range(vals)) /\ n \in Nat /\ n >= 2
      /\ \A k \in 1..n : vals[k] \in Range(vals)
  BY LenProperties, ElementOfSeq DEF FrameFits, FrameTyped
<1>2. first \in Range(vals)
  BY <1>1
<1>3. /\ folded \in Seq(Range(vals)) /\ Len(folded) = n - 1
      /\ \A k \in 1..n - 1 : folded[k] = (IF k = 1 THEN first ELSE vals[k + 1])
  BY SMTT(30), <1>1, <1>2, FoldedSeq
<1>4. folded \in Seq(Range(folded))
  BY <1>3, OwnRange
<1>5. /\ frame.node \in 1..Len(prog) /\ frame.next \in 1..Len(prog[frame.node].kids) + 1
      /\ Len(prog[frame.node].kids) \in Nat
      /\ n <= frame.next - 1
  BY Tree DEF FrameFits, FrameTyped, FrameCounts, Root
<1>6. new.node = frame.node /\ new.next = frame.next /\ new.vals = folded
  OBVIOUS
<1>7. Condition(frame.node) => \A k \in 1..n : Type(vals[k]) = "bool"
  BY DEF FrameFits, FrameBool
<1>8. first = vals[1] \/ first = vals[2]
  OBVIOUS
<1> HIDE DEF vals, n, new
<1>9. Condition(frame.node) => \A k \in 1..n - 1 : Type(folded[k]) = "bool"
  <2>1. SUFFICES ASSUME Condition(frame.node), NEW k \in 1..n - 1
                 PROVE  Type(folded[k]) = "bool"
    OBVIOUS
  <2>2. 1 \in 1..n /\ 2 \in 1..n /\ k + 1 \in 1..n
    BY <1>1
  <2>3. Type(first) = "bool" /\ Type(vals[k + 1]) = "bool"
    BY <1>7, <1>8, <2>1, <2>2
  <2> QED BY <1>3, <2>3
<1>10. FrameTyped(new)
  BY <1>4, <1>5, <1>6 DEF FrameTyped
<1>11. FrameCounts(new)
  BY SMTT(30), <1>1, <1>3, <1>5, <1>6 DEF FrameCounts
<1>12. Condition(frame.node) => FrameBool(new)
  BY <1>3, <1>6, <1>9 DEF FrameBool
<1> QED
  BY <1>6, <1>10, <1>11, <1>12 DEF FrameFits, new

(* The state in which evaluating a tree begins.                                *)
Entered ==
  /\ WellFormed(prog) /\ ctx \in Contexts /\ want \in Accessors
  /\ stack = <<Frame(Len(prog))>> /\ status = "Running" /\ fault = NoFault

(* The invariant holds before the first step ...                               *)
LEMMA EnteredFits == Entered => Fits
<1> SUFFICES ASSUME Entered PROVE Fits
  OBVIOUS
<1>1. /\ WellFormed(prog) /\ ctx \in Contexts /\ want \in Accessors
      /\ stack = <<Frame(Root)>> /\ status = "Running" /\ fault.node = 0
  BY DEF Entered, NoFault, Root
<1>2. Root \in Nat \ {0} /\ prog[Root].kind # "NameHop"
  BY <1>1, Tree
<1>3. FrameFits(Frame(Root)) /\ Frame(Root).node = Root
  BY <1>1, <1>2, NewFrame
<1>4. /\ stack \in Seq(Range(stack)) /\ Len(stack) = 1 /\ stack[1] = Frame(Root)
      /\ stack # <<>>
  BY <1>1, SeqOne
<1>5. StackFits(stack)
  BY <1>3, <1>4 DEF StackFits
<1> QED BY <1>1, <1>2, <1>4, <1>5 DEF Fits, Statuses, ResultBool, UnexpectedMeans, PanicsNeedEmptyChain

(* ... and every step keeps it.                                                *)
LEMMA NextFits == Fits /\ [Next]_vars => Fits'
<1> SUFFICES ASSUME Fits, [Next]_vars PROVE Fits'
  OBVIOUS
<1>1. CASE EvalOperand
  <2> DEFINE i == Here.kids[Top.next]
  <2>1. /\ status = "Running" /\ Top.next <= Len(Here.kids) /\ prog[i].kind # "NameHop"
        /\ stack' = Append(stack, Frame(i))
        /\ UNCHANGED <<status, result, fault>> /\ Settled
    BY <1>1 DEF EvalOperand, AtOperand, Operand
  <2>2. StackFits(stack) /\ stack # <<>> /\ WellFormed(prog)
    BY <2>1 DEF Fits
  <2>3. StackFits(stack')
    BY <2>1, <2>2, PushFits DEF Here, Top
  <2>4. stack' # <<>>
    BY <2>1, <2>2, SeqWiden, EmptySeq, LenProperties DEF StackFits
  <2> QED BY <2>1, <2>3, <2>4, StepFits DEF Fits
<1>2. CASE UnknownClass
  <2>1. Fail("class", Top.node) /\ Top.node \in 0..Root
    BY <1>2, RunningTop DEF UnknownClass
  <2> QED BY <2>1, FailFits
<1>3. CASE Literal
  <2>1. status = "Running" /\ Here.kind = "Literal" /\ Return(Here.val)
    BY <1>3 DEF Literal, Ready
  <2>2. Condition(Top.node) => Type(Here.val) = "bool"
    BY <2>1, RunningTop, ConditionKids DEF Here, BoolKinds
  <2> QED BY <2>1, <2>2, ReturnFits
<1>4. CASE NameHop
  <2> DEFINE v == Lookup(PathValue, Operand.name)
  <2>1. /\ status = "Running" /\ Top.next <= Len(Here.kids)
        /\ prog[Here.kids[Top.next]].kind = "NameHop"
        /\ stack' = Append(Front(stack), Absorb(Top, v))
        /\ UNCHANGED <<status, result, fault>> /\ Settled
    BY <1>4 DEF NameHop, AtOperand, Operand
  <2>2. /\ FrameFits(Top) /\ Top.node \in 1..Root /\ WellFormed(prog)
        /\ Here.kids[Top.next] \in 1..Root
    BY <2>1, RunningTop, Tree DEF Fits, Here
  <2>3. ~Condition(Here.kids[Top.next])
    BY <2>1, <2>2, ConditionKids DEF BoolKinds
  <2>4. FrameFits(Absorb(Top, v)) /\ Absorb(Top, v).node = Top.node
    BY <2>1, <2>2, <2>3, AbsorbFits DEF Here
  <2> HIDE DEF v
  <2> QED BY <2>1, <2>4, AdvanceFits
<1>5. CASE MissingProperty
  <2>1. /\ status = "Running" /\ Top.next <= Len(Here.kids)
        /\ Fail("missing", Here.kids[Top.next])
    BY <1>5 DEF MissingProperty, AtOperand
  <2>2. Here.kids[Top.next] \in 0..Root
    BY <2>1, RunningTop, Tree DEF Fits, Here
  <2> QED BY <2>1, <2>2, FailFits
<1>6. CASE PathExpr
  <2>1. status = "Running" /\ Here.kind = "PathExpr" /\ Return(PathValue)
    BY <1>6 DEF PathExpr, Ready
  <2> QED BY <2>1, NotCondition, ReturnFits DEF BoolKinds
<1>7. CASE MemberOfExpr
  <2>1. status = "Running"
    BY <1>7 DEF MemberOfExpr, Ready
  <2>2. CASE Return(Bool(IsMember(ctx, Here.op, Top.vals[1])))
    BY <2>1, <2>2, BoolType, ReturnFits
  <2>3. CASE Fail("member", Top.node)
    <3>1. Top.node \in 0..Root
      BY <2>1, RunningTop
    <3> QED BY <2>3, <3>1, FailFits
  <2> QED BY <1>7, <2>2, <2>3 DEF MemberOfExpr
<1>8. CASE ClassCall
  <2>1. /\ status = "Running" /\ Here.kind = "ClassCall"
        /\ \E args : ReturnOrFail(CallClass(Here, args), "call")
    BY <1>8 DEF ClassCall, Ready
  <2>2. ~Condition(Top.node)
    BY <2>1, NotCondition DEF BoolKinds
  <2> QED BY <2>1, <2>2, ReturnOrFailFits
<1>9. CASE ArrayLit
  <2>1. status = "Running" /\ Here.kind = "ArrayLit" /\ Return(Array(Top.vals))
    BY <1>9 DEF ArrayLit, Ready
  <2> QED BY <2>1, NotCondition, ReturnFits DEF BoolKinds
<1>10. CASE CommaList
  <2>1. /\ status = "Running" /\ Here.kind = "CommaList"
        /\ \E v : Return(v)
    BY <1>10 DEF CommaList, Ready
  <2>2. ~Condition(Top.node)
    BY <2>1, NotCondition DEF BoolKinds
  <2> QED BY <2>1, <2>2, ReturnFits
<1>11. CASE Ternary
  <2> DEFINE v == IF Truthy(Top.vals[1]) THEN Top.vals[2] ELSE Top.vals[3]
  <2>1. /\ status = "Running" /\ Here.kind = "Ternary" /\ Top.next > Len(Here.kids)
        /\ Return(v)
    BY <1>11 DEF Ternary, Ready
  <2>2. Len(Here.kids) = 3
    BY <2>1, RunningTop DEF ArityOk
  <2>3. Top.next = 4
    BY <2>1, <2>2, RunningTop
  <2>4. Len(Top.vals) = 3
    BY <2>1, <2>3, RunningTop DEF FrameFits, FrameCounts, Here
  <2>5. Condition(Top.node) => Type(v) = "bool"
    BY <2>1, <2>4, RunningTop DEF FrameFits, FrameBool, Here
  <2> HIDE DEF v
  <2> QED BY <2>1, <2>5, ReturnFits
<1>12. CASE Comparison
  <2>1. /\ status = "Running"
        /\ ReturnOrFail(ApplyComparison(Here.op, Top.vals[1], Top.vals[2]), "compare")
    BY <1>12 DEF Comparison, Ready
  <2> QED BY <2>1, ComparisonBool, ReturnOrFailFits
<1>13. CASE Additive
  <2>1. /\ status = "Running" /\ Here.kind = "Additive"
        /\ ReturnOrFail(AddOperands(Top.vals[1], Top.vals[2]), "add")
    BY <1>13 DEF Additive, Ready
  <2>2. ~Condition(Top.node)
    BY <2>1, NotCondition DEF BoolKinds
  <2> QED BY <2>1, <2>2, ReturnOrFailFits
<1>14. CASE Fold
  <2> DEFINE first == IF Decided(Here.op, Top.vals[1]) THEN Top.vals[1] ELSE Top.vals[2]
             rest == SubSeq(Top.vals, 3, Len(Top.vals))
             vals == <<first>> \o rest
             frame == [node |-> Top.node, next |-> Top.next, vals |-> vals]
  <2>1. /\ status = "Running" /\ Here.kind = "Logical" /\ Len(Top.vals) > 1
        /\ stack' = Append(Front(stack), frame)
        /\ UNCHANGED <<status, result, fault>> /\ Settled
    BY <1>14 DEF Fold, Ready
  <2>2. FrameFits(Top)
    BY <2>1, RunningTop
  <2>3. FrameFits(frame) /\ frame.node = Top.node
    BY <2>1, <2>2, FoldFits DEF Fits, Here
  <2> HIDE DEF frame
  <2> QED BY <2>1, <2>3, AdvanceFits
<1>15. CASE Logical
  <2>1. /\ status = "Running" /\ Here.kind = "Logical" /\ Len(Top.vals) = 1
        /\ Return(Top.vals[1])
    BY <1>15 DEF Logical, Ready
  <2>2. Condition(Top.node) => Type(Top.vals[1]) = "bool"
    BY <2>1, RunningTop DEF FrameFits, FrameBool, Here
  <2> QED BY <2>1, <2>2, ReturnFits
<1>16. CASE EmptyChain
  <2>1. /\ stack' = <<>> /\ status' = "Panicked" /\ fault' = fault /\ Settled
        /\ status = "Running" /\ Here.kind = "Logical" /\ Top.next > Len(Here.kids)
        /\ Top.vals = <<>>
    BY <1>16 DEF EmptyChain, Ready
  <2>2. /\ Top.node \in 1..Root /\ Top.next \in 1..Len(Here.kids) + 1
        /\ Len(Here.kids) \in Nat /\ FrameCounts(Top)
    BY <2>1, RunningTop DEF FrameFits
  <2>3. Top.next = 1
    BY <2>1, <2>2, EmptySeq DEF FrameCounts, Here
  <2>4. Len(Here.kids) = 0
    BY <2>1, <2>2, <2>3
  <2>5. prog[Top.node].kids \in Seq(1..Top.node - 1)
    BY <2>2 DEF Fits, Root, WellFormed
  <2>6. prog[Top.node].kids = <<>>
    BY <2>4, <2>5, EmptySeq DEF Here
  <2> QED BY <2>1, <2>2, <2>6, EmptyFits, StepFits DEF Fits, Statuses, Here
<1>17. CASE Not
  <2>1. status = "Running" /\ Return(Bool(~Truthy(Top.vals[1])))
    BY <1>17 DEF Not, Ready
  <2> QED BY <2>1, BoolType, ReturnFits
<1>18. CASE Require
  <2>1. /\ status = "Value" /\ stack' = stack /\ result' = result /\ fault' = fault /\ Settled
        /\ status' \in {"Returned", "Unexpected"}
        /\ status' = "Unexpected" => want # "any" /\ Type(result) # want
    BY <1>18 DEF Require
  <2> QED BY <2>1, StepFits DEF Fits, Statuses, ResultBool
<1>19. CASE Unsupported
  <2>1. Fail("node", Top.node) /\ Top.node \in 0..Root
    BY <1>19, RunningTop DEF Unsupported, Ready
  <2> QED BY <2>1, FailFits
<1>20. CASE UNCHANGED vars
  BY <1>20, StepFits DEF vars, Fits, Settled, ResultBool, UnexpectedMeans, PanicsNeedEmptyChain
<1> QED
  BY <1>1, <1>2, <1>3, <1>4, <1>5, <1>6, <1>7, <1>8, <1>9, <1>10, <1>11, <1>12,
     <1>13, <1>14, <1>15, <1>16, <1>17, <1>18, <1>19, <1>20 DEF Next

(* No step changes the tree.                                                   *)
LEMMA TreeKept == [Next]_vars => prog' = prog
BY DEF Next, vars, Settled, Return, Fail, ReturnOrFail, EvalOperand, UnknownClass, Unsupported,
   Literal, NameHop, MissingProperty, PathExpr, MemberOfExpr, ClassCall, ArrayLit, CommaList,
   Ternary, Comparison, Additive, Fold, Logical, EmptyChain, Not, Require

(* What an error is about: the node it names is of the kind its reason is for. *)
FaultFor(why, kind) == fault.why = why => fault.node \in 1..Root /\ prog[fault.node].kind = kind

FaultFits ==
  FaultFor("missing", "NameHop") /\ FaultFor("add", "Additive") /\ FaultFor("compare", "Comparison")

LEMMA FaultKept == Fits /\ FaultFits /\ [Next]_vars => FaultFits'
<1> SUFFICES ASSUME Fits, FaultFits, [Next]_vars PROVE FaultFits'
  OBVIOUS
<1>1. ASSUME UNCHANGED fault, UNCHANGED prog PROVE FaultFits'
  BY <1>1 DEF FaultFits, FaultFor, Root
<1>2. ASSUME NEW why, NEW node, Fail(why, node),
             why = "missing" => node \in 1..Root /\ prog[node].kind = "NameHop",
             why = "add" => node \in 1..Root /\ prog[node].kind = "Additive",
             why = "compare" => node \in 1..Root /\ prog[node].kind = "Comparison"
      PROVE  FaultFits'
  <2>1. fault' = [why |-> why, node |-> node] /\ prog' = prog
    BY <1>2 DEF Fail, Settled
  <2>2. fault'.why = why /\ fault'.node = node
    BY <2>1
  <2> QED BY <1>2, <2>1, <2>2 DEF FaultFits, FaultFor, Root
<1>3. ASSUME NEW v, Return(v) PROVE FaultFits'
  BY <1>1, <1>3 DEF Return, Settled
<1>4. status = "Running" => Top.node \in 1..Root
  BY RunningTop
<1>5. CASE EvalOperand \/ NameHop \/ Fold \/ EmptyChain \/ Require
  BY <1>1, <1>5 DEF EvalOperand, NameHop, Fold, EmptyChain, Require, Settled
<1>6. CASE UnknownClass \/ Unsupported
  BY <1>2, <1>6 DEF UnknownClass, Unsupported
<1>7. CASE Literal \/ PathExpr \/ ArrayLit \/ CommaList \/ Ternary \/ Logical \/ Not
  <2>1. \E v : Return(v)
    BY <1>7 DEF Literal, PathExpr, ArrayLit, CommaList, Ternary, Logical, Not
  <2> QED BY <1>3, <2>1
<1>8. CASE MissingProperty
  <2>1. Fail("missing", Here.kids[Top.next]) /\ AtOperand /\ Operand.kind = "NameHop"
    BY <1>8 DEF MissingProperty
  <2>2. Top.node \in 1..Root /\ Top.next \in 1..Len(Here.kids)
    BY <2>1, RunningTop DEF AtOperand
  <2>3. Here.kids[Top.next] \in 1..Root
    BY <2>2, Tree DEF Fits, Here
  <2> QED BY <1>2, <2>1, <2>3 DEF Operand
<1>9. ASSUME NEW outcome, NEW why, ReturnOrFail(outcome, why), status = "Running",
             why = "add" => Here.kind = "Additive",
             why = "compare" => Here.kind = "Comparison", why # "missing"
      PROVE  FaultFits'
  <2>1. CASE outcome.ok
    BY <1>3, <1>9, <2>1 DEF ReturnOrFail
  <2>2. CASE ~outcome.ok
    <3>1. Fail(why, Top.node)
      BY <1>9, <2>2 DEF ReturnOrFail
    <3> QED BY <1>2, <1>4, <1>9, <3>1 DEF Here
  <2> QED BY <2>1, <2>2
<1>10. CASE ClassCall
  <2>1. status = "Running" /\ \E outcome : ReturnOrFail(outcome, "call")
    BY <1>10 DEF ClassCall, Ready
  <2> QED BY <1>9, <2>1
<1>11. CASE Comparison
  <2>1. /\ status = "Running" /\ Here.kind = "Comparison"
        /\ \E outcome : ReturnOrFail(outcome, "compare")
    BY <1>11 DEF Comparison, Ready
  <2> QED BY <1>9, <2>1
<1>12. CASE Additive
  <2>1. status = "Running" /\ Here.kind = "Additive" /\ \E outcome : ReturnOrFail(outcome, "add")
    BY <1>12 DEF Additive, Ready
  <2> QED BY <1>9, <2>1
<1>13. CASE MemberOfExpr
  <2>1. Fail("member", Top.node) \/ \E v : Return(v)
    BY <1>13 DEF MemberOfExpr
  <2> QED BY <1>2, <1>3, <2>1
<1>14. CASE UNCHANGED vars
  BY <1>1, <1>14 DEF vars
<1> QED
  BY <1>5, <1>6, <1>7, <1>8, <1>10, <1>11, <1>12, <1>13, <1>14 DEF Next

-----------------------------------------------------------------------------
(* The invariant holds of every tree, context and set of classes, which may    *)
(* return anything at all.                                                     *)
THEOREM Invariance == Spec => []IInv
<1>1. Init => Fits /\ prog \in Programs
  BY EnteredFits, ProgramsAssumption DEF Init, Entered
<1>2. Fits /\ [Next]_vars => Fits'
  BY NextFits
<1>3. prog \in Programs /\ [Next]_vars => (prog \in Programs)'
  BY TreeKept
<1>4. Fits /\ prog \in Programs => IInv
  BY FitsMeans
<1> QED BY <1>1, <1>2, <1>3, <1>4, PTL DEF Spec

(* A rule put together from conditions comes back from ParseBool as a boolean. *)
THEOREM RulesAlwaysBool == Spec => []RulesAreBool
<1>1. IInv => RulesAreBool
  BY DEF IInv, ResultBool, UnexpectedMeans, RulesAreBool
<1> QED BY <1>1, Invariance, PTL

-----------------------------------------------------------------------------
(* The lazy meaning computes with the same operators as the evaluator.         *)
LEMMA SameOperations ==
  ASSUME NEW T, NEW C
  PROVE  /\ \A v : /\ Lazy(T, C)!Ok(v) = Ok(v) /\ Lazy(T, C)!Type(v) = Type(v)
                   /\ Lazy(T, C)!Contents(v) = Contents(v)
                   /\ Lazy(T, C)!Bool(v) = Bool(v) /\ Lazy(T, C)!Array(v) = Array(v)
                   /\ Lazy(T, C)!Tuple(v) = Tuple(v) /\ Lazy(T, C)!Text(v) = Text(v)
         /\ Lazy(T, C)!Err = Err /\ Lazy(T, C)!Null = Null
BY DEF Lazy!Ok, Ok, Lazy!Err, Err, Lazy!Null, Null, Lazy!Type, Type, Lazy!Contents, Contents,
   Lazy!Bool, Bool, Lazy!Array, Array, Lazy!Tuple, Tuple, Lazy!Text, Text

LEMMA SameTests ==
  ASSUME NEW T, NEW C
  PROVE  /\ \A v : Lazy(T, C)!Truthy(v) = Truthy(v)
         /\ \A v : Lazy(T, C)!SpreadArgs(v) = SpreadArgs(v)
         /\ \A op, v : Lazy(T, C)!Decided(op, v) = Decided(op, v)
         /\ \A v, name : Lazy(T, C)!Holds(v, name) <=> Holds(v, name)
<1>1. ASSUME NEW v PROVE Lazy(T, C)!Truthy(v) = Truthy(v)
  BY DEF Lazy!Truthy, Truthy, Lazy!Type, Type, Lazy!Contents, Contents
<1>2. \A v : Lazy(T, C)!SpreadArgs(v) = SpreadArgs(v)
  BY SameOperations DEF Lazy!SpreadArgs, SpreadArgs
<1>3. ASSUME NEW op, NEW v PROVE Lazy(T, C)!Decided(op, v) = Decided(op, v)
  BY DEF Lazy!Decided, Decided, Lazy!Truthy, Truthy, Lazy!Type, Type, Lazy!Contents, Contents
<1>4. \A v, name : Lazy(T, C)!Holds(v, name) <=> Holds(v, name)
  BY SameOperations DEF Lazy!Holds, Holds
<1> QED BY <1>1, <1>2, <1>3, <1>4

LEMMA SameSums ==
  ASSUME NEW T, NEW C, NEW a, NEW b
  PROVE  Lazy(T, C)!AddOperands(a, b) = AddOperands(a, b)
BY DEF Lazy!AddOperands, AddOperands, Lazy!SameType, SameType, Lazy!Wrap, Wrap,
   Lazy!Number, Number, Lazy!Float, Float, Lazy!Ok, Ok, Lazy!Err, Err, Lazy!Null, Null,
   Lazy!Type, Type, Lazy!Contents, Contents, Lazy!Text, Text

LEMMA SameComparisons ==
  ASSUME NEW T, NEW C, NEW op, NEW a, NEW b
  PROVE  Lazy(T, C)!ApplyComparison(op, a, b) = ApplyComparison(op, a, b)
BY DEF Lazy!ApplyComparison, ApplyComparison, Lazy!CompareOperands, CompareOperands,
   Lazy!CompareInts, CompareInts, Lazy!CompareStrings, CompareStrings, Lazy!Ordered, Ordered,
   Lazy!StringLess, StringLess, Lazy!BoolToInt, BoolToInt, Lazy!SameType, SameType,
   Lazy!Ok, Ok, Lazy!Err, Err, Lazy!Null, Null, Lazy!Bool, Bool,
   Lazy!Type, Type, Lazy!Contents, Contents

LEMMA SameMembers ==
  ASSUME NEW T, NEW C, NEW kind, NEW v
  PROVE  /\ Lazy(T, C)!IsMember(C, kind, v) = IsMember(C, kind, v)
         /\ Lazy(T, C)!Unanswerable(kind, v) <=> Unanswerable(kind, v)
<1>1. Lazy(T, C)!Unanswerable(kind, v) <=> Unanswerable(kind, v)
  BY SameOperations DEF Lazy!Unanswerable, Unanswerable, Lazy!MemberOfKinds, MemberOfKinds
<1>2. Lazy(T, C)!IsMember(C, kind, v) = IsMember(C, kind, v)
  BY DEF Lazy!IsMember, IsMember, Lazy!IsGroupId, IsGroupId, Lazy!SpreadArgs, SpreadArgs,
     Lazy!ProfileNames, ProfileNames, Lazy!Member, Member, Lazy!Holds, Holds,
     Lazy!NameMatches, NameMatches, Lazy!HasPrefix, HasPrefix, Lazy!Occurs, Occurs,
     Lazy!Occurrences, Occurrences, Lazy!Type, Type, Lazy!Contents, Contents
<1> QED BY <1>1, <1>2

-----------------------------------------------------------------------------
(* The lazy meaning is well defined: a node's operands come before it, so the  *)
(* recursive functions of LazyMeaning are those their equations describe.      *)
LEMMA TreeShape ==
  ASSUME NEW T, WellFormed(T)
  PROVE  /\ Len(T) \in Nat \ {0}
         /\ \A i \in 1..Len(T) :
              /\ Len(T[i].kids) \in Nat
              /\ \A k \in 1..Len(T[i].kids) : T[i].kids[k] \in 1..i - 1
<1>1. T \in Seq(Range(T)) /\ T # <<>>
  BY DEF WellFormed
<1>2. Len(T) \in Nat \ {0}
  BY <1>1
<1>3. \A i \in 1..Len(T) : T[i].kids \in Seq(1..i - 1)
  BY DEF WellFormed
<1>4. ASSUME NEW i \in 1..Len(T)
      PROVE  Len(T[i].kids) \in Nat /\ \A k \in 1..Len(T[i].kids) : T[i].kids[k] \in 1..i - 1
  BY <1>3, ElementOfSeq, LenProperties
<1> QED BY <1>2, <1>4

LEMMA MeaningsAt ==
  ASSUME NEW T, NEW C, WellFormed(T), NEW i \in 1..Len(T)
  PROVE  Lazy(T, C)!Meanings[i] = Lazy(T, C)!MeaningOf(i, Lazy(T, C)!Operands(i))
<1> DEFINE n == Len(T)
           Kd(j, k) == T[j].kids[k]
           Ks(j) == 1..Len(T[j].kids)
           M(j, f) == Lazy(T, C)!MeaningOf(j, [k \in Ks(j) |-> f[Kd(j, k)]])
           Solvable(m) == \E f : \A j \in 1..m : f[j] = M(j, f)
           Solved == {m \in 0..n : Solvable(m)}
<1>1. n \in Nat /\ \A j \in 1..n : \A k \in Ks(j) : Kd(j, k) \in 1..j - 1
  BY TreeShape
<1> HIDE DEF n, Kd, Ks
<1>2. 0 \in Solved
  BY <1>1
<1>3. ASSUME NEW m \in 0..n - 1, m \in Solved
      PROVE  m + 1 \in Solved
  <2>1. PICK f : \A j \in 1..m : f[j] = M(j, f)
    BY <1>3
  <2> DEFINE g == [j \in 1..n |-> IF j = m + 1 THEN M(j, f) ELSE f[j]]
  <2>2. m + 1 \in 1..n /\ \A j \in 1..m : j \in 1..n /\ j # m + 1
    BY <1>1
  <2>3. g[m + 1] = M(m + 1, f) /\ \A j \in 1..m : g[j] = f[j]
    BY <2>2
  <2> HIDE DEF g
  <2>4. \A j \in 1..m + 1 : j \in 1..n /\ \A k \in Ks(j) : Kd(j, k) \in 1..m
    <3>1. \A j \in 1..m + 1 : j \in 1..n /\ \A p \in 1..j - 1 : p \in 1..m
      BY <1>1
    <3> QED BY <1>1, <3>1
  <2>5. \A j \in 1..m + 1 : [k \in Ks(j) |-> g[Kd(j, k)]] = [k \in Ks(j) |-> f[Kd(j, k)]]
    BY <2>3, <2>4
  <2>6. \A j \in 1..m + 1 : M(j, g) = M(j, f)
    BY <2>5
  <2>7. \A j \in 1..m + 1 : j = m + 1 \/ j \in 1..m
    OBVIOUS
  <2> HIDE DEF M
  <2>8. \A j \in 1..m + 1 : g[j] = M(j, g)
    BY <2>1, <2>3, <2>6, <2>7
  <2> QED BY <1>1, <2>2, <2>8
<1>4. n \in Solved
  <2> HIDE DEF Solved
  <2>1. n \in Nat /\ 0 \in Solved /\ \A m \in 0..n - 1 : m \in Solved => m + 1 \in Solved
    BY <1>1, <1>2, <1>3
  <2>2. \A m \in 0..n : m \in Solved
    BY <2>1, Induction, Zenon
  <2> QED BY <1>1, <2>2
<1>5. PICK f : \A j \in 1..n : f[j] = M(j, f)
  BY <1>4
<1> DEFINE h == [j \in 1..n |-> f[j]]
<1>6. \A j \in 1..n : \A k \in Ks(j) : Kd(j, k) \in 1..n
  <2>1. \A j \in 1..n : \A p \in 1..j - 1 : p \in 1..n
    BY <1>1
  <2> QED BY <1>1, <2>1
<1>7. \A j \in 1..n : h[j] = f[j]
  OBVIOUS
<1>8. \A j \in 1..n : [k \in Ks(j) |-> h[Kd(j, k)]] = [k \in Ks(j) |-> f[Kd(j, k)]]
  <2> HIDE DEF h
  <2> QED BY <1>6, <1>7
<1>9. h = [j \in 1..n |-> M(j, h)]
  <2>1. \A j \in 1..n : M(j, h) = M(j, f)
    BY <1>8
  <2> HIDE DEF M
  <2> QED BY <1>5, <2>1
<1> HIDE DEF h
<1>10. Lazy(T, C)!Meanings = CHOOSE r : r = [j \in 1..n |-> M(j, r)]
  BY DEF Lazy!Meanings, Lazy!Nodes, Lazy!Kids, Lazy!Kid, n, Ks, Kd
<1>11. Lazy(T, C)!Meanings = [j \in 1..n |-> M(j, Lazy(T, C)!Meanings)]
  <2> HIDE DEF M
  <2> QED BY <1>9, <1>10
<1>12. Lazy(T, C)!Operands(i) = [k \in Ks(i) |-> Lazy(T, C)!Meanings[Kd(i, k)]]
  BY DEF Lazy!Operands, Lazy!Kids, Lazy!Kid, Ks, Kd
<1>13. i \in 1..n
  BY DEF n
<1>14. Lazy(T, C)!Meanings[i] = M(i, Lazy(T, C)!Meanings)
  <2> HIDE DEF M
  <2> QED BY <1>11, <1>13
<1> QED BY <1>12, <1>14

LEMMA UnderAt ==
  ASSUME NEW T, NEW C, WellFormed(T), NEW i \in 1..Len(T)
  PROVE  Lazy(T, C)!Under[i] =
           {i} \cup UNION {Lazy(T, C)!Under[Lazy(T, C)!Kid(i, k)] : k \in Lazy(T, C)!Kids(i)}
<1> DEFINE n == Len(T)
           Kd(j, k) == T[j].kids[k]
           Ks(j) == 1..Len(T[j].kids)
           U(j, f) == {j} \cup UNION {f[Kd(j, k)] : k \in Ks(j)}
           Solvable(m) == \E f : \A j \in 1..m : f[j] = U(j, f)
           Solved == {m \in 0..n : Solvable(m)}
<1>1. n \in Nat /\ \A j \in 1..n : \A k \in Ks(j) : Kd(j, k) \in 1..j - 1
  BY TreeShape
<1> HIDE DEF n, Kd, Ks
<1>2. 0 \in Solved
  BY <1>1
<1>3. ASSUME NEW m \in 0..n - 1, m \in Solved
      PROVE  m + 1 \in Solved
  <2>1. PICK f : \A j \in 1..m : f[j] = U(j, f)
    BY <1>3
  <2> DEFINE g == [j \in 1..n |-> IF j = m + 1 THEN U(j, f) ELSE f[j]]
  <2>2. m + 1 \in 1..n /\ \A j \in 1..m : j \in 1..n /\ j # m + 1
    BY <1>1
  <2>3. g[m + 1] = U(m + 1, f) /\ \A j \in 1..m : g[j] = f[j]
    BY <2>2
  <2> HIDE DEF g
  <2>4. \A j \in 1..m + 1 : j \in 1..n /\ \A k \in Ks(j) : Kd(j, k) \in 1..m
    <3>1. \A j \in 1..m + 1 : j \in 1..n /\ \A p \in 1..j - 1 : p \in 1..m
      BY <1>1
    <3> QED BY <1>1, <3>1
  <2>5. \A j \in 1..m + 1 : \A k \in Ks(j) : g[Kd(j, k)] = f[Kd(j, k)]
    BY <2>3, <2>4
  <2>6. \A j \in 1..m + 1 : U(j, g) = U(j, f)
    BY <2>5
  <2>7. \A j \in 1..m + 1 : j = m + 1 \/ j \in 1..m
    OBVIOUS
  <2> HIDE DEF U
  <2>8. \A j \in 1..m + 1 : g[j] = U(j, g)
    BY <2>1, <2>3, <2>6, <2>7
  <2> QED BY <1>1, <2>2, <2>8
<1>4. n \in Solved
  <2> HIDE DEF Solved
  <2>1. n \in Nat /\ 0 \in Solved /\ \A m \in 0..n - 1 : m \in Solved => m + 1 \in Solved
    BY <1>1, <1>2, <1>3
  <2>2. \A m \in 0..n : m \in Solved
    BY <2>1, Induction, Zenon
  <2> QED BY <1>1, <2>2
<1>5. PICK f : \A j \in 1..n : f[j] = U(j, f)
  BY <1>4
<1> DEFINE h == [j \in 1..n |-> f[j]]
<1>6. \A j \in 1..n : \A k \in Ks(j) : Kd(j, k) \in 1..n
  <2>1. \A j \in 1..n : \A p \in 1..j - 1 : p \in 1..n
    BY <1>1
  <2> QED BY <1>1, <2>1
<1>7. \A j \in 1..n : h[j] = f[j]
  OBVIOUS
<1>9. h = [j \in 1..n |-> U(j, h)]
  <2>1. \A j \in 1..n : U(j, h) = U(j, f)
    <3> HIDE DEF h
    <3> QED BY <1>6, <1>7
  <2> HIDE DEF U
  <2> QED BY <1>5, <2>1
<1> HIDE DEF h
<1>10. Lazy(T, C)!Under = CHOOSE r : r = [j \in 1..n |-> U(j, r)]
  BY DEF Lazy!Under, Lazy!Nodes, Lazy!Kids, Lazy!Kid, n, Ks, Kd
<1>11. Lazy(T, C)!Under = [j \in 1..n |-> U(j, Lazy(T, C)!Under)]
  <2> HIDE DEF U
  <2> QED BY <1>9, <1>10
<1>13. i \in 1..n
  BY DEF n
<1>14. Lazy(T, C)!Under[i] = U(i, Lazy(T, C)!Under)
  <2> HIDE DEF U
  <2> QED BY <1>11, <1>13
<1> QED BY <1>14 DEF Lazy!Kids, Lazy!Kid, Ks, Kd

(* A function on 1..n is a sequence of that length.                            *)
LEMMA LengthOf ==
  ASSUME NEW n \in Nat, NEW f, DOMAIN f = 1..n, f = [k \in 1..n |-> f[k]]
  PROVE  Len(f) = n /\ f \in Seq(Range(f))
<1>1. f \in Seq(Range(f))
  BY DEF Range
<1>2. DOMAIN f = 1..Len(f) /\ Len(f) \in Nat
  BY <1>1, LenProperties
<1>3. Len(f) = n
  BY <1>2
<1> QED BY <1>1, <1>3

(* The recursive functions inside Spread and Walk.                             *)
Spreads(vals) == Lazy(prog, ctx)!SpreadTo(vals)

LEMMA SpreadsAt ==
  ASSUME NEW vals, Len(vals) \in Nat
  PROVE  /\ Spreads(vals)[0] = <<>>
         /\ Len(vals) >= 1 => Spreads(vals)[1] = SpreadArgs(vals[1])
         /\ \A k \in 2..Len(vals) : Spreads(vals)[k] = Spreads(vals)[k - 1] \o SpreadArgs(vals[k])
<1> DEFINE n == Len(vals)
           S(k, f) == IF k = 0 THEN <<>>
                      ELSE IF k = 1 THEN Lazy(prog, ctx)!SpreadArgs(vals[1])
                      ELSE f[k - 1] \o Lazy(prog, ctx)!SpreadArgs(vals[k])
           Solvable(m) == \E f : \A j \in 0..m : f[j] = S(j, f)
           Solved == {m \in 0..n : Solvable(m)}
<1>1. n \in Nat
  OBVIOUS
<1> HIDE DEF n
<1>0. ASSUME NEW k, NEW f, NEW g, k # 0 => f[k - 1] = g[k - 1]
      PROVE  S(k, f) = S(k, g)
  BY <1>0
<1>2. 0 \in Solved
  <2>1. PICK f : f = [k \in 0..0 |-> <<>>]
    OBVIOUS
  <2>2. \A j \in 0..0 : f[j] = S(j, f)
    BY <2>1
  <2>3. Solvable(0)
    BY <2>2
  <2> QED BY <1>1, <2>3
<1> HIDE DEF S
<1>3. ASSUME NEW m \in 0..n - 1, m \in Solved
      PROVE  m + 1 \in Solved
  <2>1. PICK f : \A j \in 0..m : f[j] = S(j, f)
    BY <1>3
  <2> DEFINE g == [j \in 0..n |-> IF j = m + 1 THEN S(j, f) ELSE f[j]]
  <2>2. m + 1 \in 0..n /\ \A j \in 0..m : j \in 0..n /\ j # m + 1 /\ (j # 0 => j - 1 \in 0..m)
    BY <1>1
  <2>3. g[m + 1] = S(m + 1, f) /\ \A j \in 0..m : g[j] = f[j]
    BY <2>2
  <2> HIDE DEF g
  <2>4. \A j \in 0..m + 1 : j # 0 => j - 1 \in 0..m
    OBVIOUS
  <2>5. \A j \in 0..m + 1 : S(j, g) = S(j, f)
    BY <1>0, <2>3, <2>4
  <2>6. \A j \in 0..m + 1 : j = m + 1 \/ j \in 0..m
    OBVIOUS
  <2>7. \A j \in 0..m + 1 : g[j] = S(j, g)
    BY <2>1, <2>3, <2>5, <2>6
  <2> QED BY <1>1, <2>2, <2>7
<1>4. n \in Solved
  <2> HIDE DEF Solved
  <2>1. n \in Nat /\ 0 \in Solved /\ \A m \in 0..n - 1 : m \in Solved => m + 1 \in Solved
    BY <1>1, <1>2, <1>3
  <2>2. \A m \in 0..n : m \in Solved
    BY <2>1, Induction, Zenon
  <2> QED BY <1>1, <2>2
<1>5. PICK f : \A j \in 0..n : f[j] = S(j, f)
  BY <1>4
<1> DEFINE h == [j \in 0..n |-> f[j]]
<1>6. \A j \in 0..n : h[j] = f[j]
  OBVIOUS
<1> HIDE DEF h
<1>7. \A j \in 0..n : S(j, h) = S(j, f)
  <2>1. \A j \in 0..n : j # 0 => j - 1 \in 0..n
    BY <1>1
  <2> QED BY <1>0, <1>6, <2>1
<1>8. h = [j \in 0..n |-> S(j, h)]
  BY <1>5, <1>7 DEF h
<1> DEFINE upTo == Spreads(vals)
<1>9. upTo = CHOOSE r : r = [j \in 0..n |-> S(j, r)]
  BY DEF Spreads, Lazy!SpreadTo, n, S
<1> HIDE DEF upTo
<1>10. upTo = [j \in 0..n |-> S(j, upTo)]
  BY <1>8, <1>9
<1>11. \A j \in 0..n : upTo[j] = S(j, upTo)
  BY <1>10
<1>12. /\ upTo[0] = <<>>
       /\ n >= 1 => upTo[1] = SpreadArgs(vals[1])
       /\ \A k \in 2..n : upTo[k] = upTo[k - 1] \o SpreadArgs(vals[k])
  <2>1. /\ 0 \in 0..n
        /\ n >= 1 => 1 \in 0..n
        /\ \A k \in 2..n : k \in 0..n /\ k # 0 /\ k # 1
    BY <1>1
  <2>2. upTo[0] = <<>>
    BY <1>11, <2>1, Zenon DEF S
  <2>3. n >= 1 => upTo[1] = SpreadArgs(vals[1])
    BY <1>11, <2>1, SameTests DEF S
  <2>4. ASSUME NEW k \in 2..n PROVE upTo[k] = upTo[k - 1] \o SpreadArgs(vals[k])
    <3>1. upTo[k] = S(k, upTo) /\ k # 0 /\ k # 1
      BY <1>11, <2>1
    <3>2. Lazy(prog, ctx)!SpreadArgs(vals[k]) = SpreadArgs(vals[k])
      BY SameTests, Zenon
    <3> QED BY <3>1, <3>2, Zenon DEF S
  <2> QED BY <2>2, <2>3, <2>4
<1> QED BY <1>12 DEF upTo, n

LEMMA WalkAt ==
  ASSUME NEW T, NEW C, NEW i, NEW m, Len(T[i].kids) \in Nat
  PROVE  /\ Lazy(T, C)!Walk(i, m)[0] = Ok(IF T[i].op = "User" THEN C.profile ELSE Null)
         /\ \A k \in 1..Len(T[i].kids) :
              Lazy(T, C)!Walk(i, m)[k] =
                IF ~Lazy(T, C)!Walk(i, m)[k - 1].ok THEN Err
                ELSE IF T[T[i].kids[k]].kind # "NameHop" THEN m[k]
                ELSE Ok(Lazy(T, C)!Attribute(Lazy(T, C)!Walk(i, m)[k - 1].val,
                                             T[T[i].kids[k]].name))
<1> DEFINE n == Len(T[i].kids)
           W(k, v) == IF ~v.ok THEN Err
                      ELSE IF T[T[i].kids[k]].kind # "NameHop" THEN m[k]
                      ELSE Ok(Lazy(T, C)!Attribute(v.val, T[T[i].kids[k]].name))
           S(k, f) == IF k = 0 THEN Ok(IF T[i].op = "User" THEN C.profile ELSE Null)
                      ELSE W(k, f[k - 1])
           Solvable(p) == \E f : \A j \in 0..p : f[j] = S(j, f)
           Solved == {p \in 0..n : Solvable(p)}
<1>1. n \in Nat
  OBVIOUS
<1> HIDE DEF n, W
<1>0. ASSUME NEW k, NEW f, NEW g, k # 0 => f[k - 1] = g[k - 1]
      PROVE  S(k, f) = S(k, g)
  BY <1>0
<1>2. 0 \in Solved
  <2>1. PICK f : f = [k \in 0..0 |-> Ok(IF T[i].op = "User" THEN C.profile ELSE Null)]
    OBVIOUS
  <2>2. \A j \in 0..0 : f[j] = S(j, f)
    BY <2>1
  <2>3. Solvable(0)
    BY <2>2
  <2> QED BY <1>1, <2>3
<1> HIDE DEF S
<1>3. ASSUME NEW p \in 0..n - 1, p \in Solved
      PROVE  p + 1 \in Solved
  <2>1. PICK f : \A j \in 0..p : f[j] = S(j, f)
    BY <1>3
  <2> DEFINE g == [j \in 0..n |-> IF j = p + 1 THEN S(j, f) ELSE f[j]]
  <2>2. p + 1 \in 0..n /\ \A j \in 0..p : j \in 0..n /\ j # p + 1 /\ (j # 0 => j - 1 \in 0..p)
    BY <1>1
  <2>3. g[p + 1] = S(p + 1, f) /\ \A j \in 0..p : g[j] = f[j]
    BY <2>2
  <2> HIDE DEF g
  <2>4. \A j \in 0..p + 1 : j # 0 => j - 1 \in 0..p
    OBVIOUS
  <2>5. \A j \in 0..p + 1 : S(j, g) = S(j, f)
    BY <1>0, <2>3, <2>4
  <2>6. \A j \in 0..p + 1 : j = p + 1 \/ j \in 0..p
    OBVIOUS
  <2>7. \A j \in 0..p + 1 : g[j] = S(j, g)
    BY <2>1, <2>3, <2>5, <2>6
  <2> QED BY <1>1, <2>2, <2>7
<1>4. n \in Solved
  <2> HIDE DEF Solved
  <2>1. n \in Nat /\ 0 \in Solved /\ \A p \in 0..n - 1 : p \in Solved => p + 1 \in Solved
    BY <1>1, <1>2, <1>3
  <2>2. \A p \in 0..n : p \in Solved
    BY <2>1, Induction, Zenon
  <2> QED BY <1>1, <2>2
<1>5. PICK f : \A j \in 0..n : f[j] = S(j, f)
  BY <1>4
<1> DEFINE h == [j \in 0..n |-> f[j]]
<1>6. \A j \in 0..n : h[j] = f[j]
  OBVIOUS
<1> HIDE DEF h
<1>7. \A j \in 0..n : S(j, h) = S(j, f)
  <2>1. \A j \in 0..n : j # 0 => j - 1 \in 0..n
    BY <1>1
  <2> QED BY <1>0, <1>6, <2>1
<1>8. h = [j \in 0..n |-> S(j, h)]
  BY <1>5, <1>7 DEF h
<1> DEFINE after == Lazy(T, C)!Walk(i, m)
<1>9. after = CHOOSE r : r = [j \in 0..n |-> S(j, r)]
  BY DEF Lazy!Walk, Lazy!Kid, n, S, W, Lazy!Ok, Ok, Lazy!Err, Err, Lazy!Null, Null
<1> HIDE DEF after
<1>10. after = [j \in 0..n |-> S(j, after)]
  BY <1>8, <1>9
<1>11. \A j \in 0..n : after[j] = S(j, after)
  BY <1>10
<1>12. /\ after[0] = Ok(IF T[i].op = "User" THEN C.profile ELSE Null)
       /\ \A k \in 1..n : after[k] = W(k, after[k - 1])
  BY <1>1, <1>11 DEF S
<1> QED BY <1>12 DEF after, n, W

LEMMA SameAttribute ==
  ASSUME NEW T, NEW C, NEW v, NEW name
  PROVE  Lazy(T, C)!Attribute(v, name) = Lookup(v, name)
<1>1. \A s : Lazy(T, C)!WithoutQuotes(s) = WithoutQuotes(s)
  BY DEF Lazy!WithoutQuotes, WithoutQuotes
<1> QED BY <1>1, SameOperations DEF Lazy!Attribute, Lookup, Holds, Unquoted

-----------------------------------------------------------------------------
(* The lazy meaning of the tree evaluated, in the evaluator's own words.       *)
Ops(i) == Lazy(prog, ctx)!Operands(i)
Walked(i) == Lazy(prog, ctx)!Walk(i, Ops(i))
Found(i) == Lazy(prog, ctx)!Faults(i)
Below(i) == Lazy(prog, ctx)!Under[i]

Arity(i) == Len(prog[i].kids)
OpVals(i) == [k \in 1..Arity(i) |-> Meaning(Kid(i, k)).val]
Unknown(i) == prog[i].kind = "ClassCall" /\ prog[i].op \notin ctx.classes
Missing(i, k) ==
  /\ prog[Kid(i, k)].kind = "NameHop" /\ Walked(i)[k - 1].ok
  /\ Type(Walked(i)[k - 1].val) = "map" /\ ~Holds(Walked(i)[k - 1].val, prog[Kid(i, k)].name)

Clean(i) == \A j \in Below(i) : Found(j) = {}

LEMMA OpsAt ==
  ASSUME NEW i, NEW k \in 1..Arity(i)
  PROVE  Ops(i)[k] = Meaning(Kid(i, k))
BY DEF Ops, Arity, Meaning, Kid, Lazy!Operands, Lazy!Kids, Lazy!Kid

LEMMA BelowAt ==
  ASSUME WellFormed(prog), NEW i \in 1..Root
  PROVE  Below(i) = {i} \cup UNION {Below(Kid(i, k)) : k \in 1..Arity(i)}
BY UnderAt DEF Below, Kid, Arity, Root, Lazy!Kid, Lazy!Kids

LEMMA EagerMeans ==
  ASSUME WellFormed(prog), NEW i \in 1..Root,
         prog[i].kind \notin {"NameHop", "PathExpr", "Ternary", "Logical"},
         \A k \in 1..Arity(i) : Meaning(Kid(i, k)).ok
  PROVE  /\ Meaning(i) = Lazy(prog, ctx)!Apply(i, OpVals(i))
         /\ Lazy(prog, ctx)!Eager(i) /\ Lazy(prog, ctx)!AllOk(i, Ops(i))
<1>1. Lazy(prog, ctx)!Eager(i)
  BY DEF Lazy!Eager
<1>2. Lazy(prog, ctx)!AllOk(i, Ops(i))
  BY OpsAt DEF Lazy!AllOk, Lazy!Kids, Arity
<1>3. [k \in Lazy(prog, ctx)!Kids(i) |-> Ops(i)[k].val] = OpVals(i)
  BY OpsAt DEF Lazy!Kids, Arity, OpVals
<1>4. Meaning(i) = Lazy(prog, ctx)!MeaningOf(i, Ops(i))
  BY MeaningsAt DEF Meaning, Ops, Root
<1>5. Lazy(prog, ctx)!MeaningOf(i, Ops(i)) = Lazy(prog, ctx)!Apply(i, OpVals(i))
  BY <1>1, <1>2, <1>3, Zenon DEF Lazy!MeaningOf
<1> QED BY <1>1, <1>2, <1>4, <1>5

LEMMA ReferenceMeans ==
  ASSUME WellFormed(prog), NEW i \in 1..Root
  PROVE  /\ prog[i].kind = "PathExpr" => Meaning(i) = Walked(i)[Arity(i)]
         /\ prog[i].kind = "Logical" =>
              Meaning(i) = IF prog[i].kids = <<>> THEN Err ELSE Lazy(prog, ctx)!Chain(i, Ops(i))
         /\ prog[i].kind = "Ternary" =>
              Meaning(i) = IF Ops(i)[1].ok THEN Ops(i)[IF Truthy(Ops(i)[1].val) THEN 2 ELSE 3]
                                           ELSE Err
<1>1. Meaning(i) = Lazy(prog, ctx)!MeaningOf(i, Ops(i))
  BY MeaningsAt DEF Meaning, Ops, Root
<1>2. prog[i].kind \in {"PathExpr", "Logical", "Ternary"} => ~Lazy(prog, ctx)!Eager(i)
  BY DEF Lazy!Eager
<1>3. ASSUME prog[i].kind = "PathExpr"
      PROVE  Lazy(prog, ctx)!MeaningOf(i, Ops(i)) = Walked(i)[Arity(i)]
  <2>1. ~Lazy(prog, ctx)!Eager(i) /\ prog[i].kind # "NameHop"
    BY <1>2, <1>3
  <2> QED BY <1>3, <2>1, Zenon DEF Lazy!MeaningOf, Walked, Arity
<1>4. ASSUME prog[i].kind = "Logical"
      PROVE  Lazy(prog, ctx)!MeaningOf(i, Ops(i)) =
               IF prog[i].kids = <<>> THEN Err ELSE Lazy(prog, ctx)!Chain(i, Ops(i))
  <2>1. ~Lazy(prog, ctx)!Eager(i) /\ prog[i].kind # "NameHop" /\ prog[i].kind # "PathExpr"
    BY <1>2, <1>4
  <2>2. Lazy(prog, ctx)!Err = Err
    BY SameOperations, Zenon
  <2> QED BY <1>4, <2>1, <2>2, Zenon DEF Lazy!MeaningOf
<1>5. ASSUME prog[i].kind = "Ternary"
      PROVE  Lazy(prog, ctx)!MeaningOf(i, Ops(i)) =
               IF Ops(i)[1].ok THEN Ops(i)[IF Truthy(Ops(i)[1].val) THEN 2 ELSE 3] ELSE Err
  <2>1. /\ ~Lazy(prog, ctx)!Eager(i)
        /\ prog[i].kind # "NameHop" /\ prog[i].kind # "PathExpr" /\ prog[i].kind # "Logical"
    BY <1>2, <1>5
  <2>2. Lazy(prog, ctx)!Err = Err
    BY SameOperations, Zenon
  <2>3. Lazy(prog, ctx)!Truthy(Ops(i)[1].val) = Truthy(Ops(i)[1].val)
    BY SameTests, Zenon
  <2> QED BY <1>5, <2>1, <2>2, <2>3, Zenon DEF Lazy!MeaningOf
<1> QED BY <1>1, <1>3, <1>4, <1>5

LEMMA FoundAt ==
  ASSUME WellFormed(prog), NEW i \in 1..Root
  PROVE  /\ prog[i].kind = "PathExpr" =>
              Found(i) = {Kid(i, k) : k \in {k \in 1..Arity(i) : ctx.strict /\ Missing(i, k)}}
         /\ prog[i].kind # "PathExpr" =>
              Found(i) = IF Unknown(i) \/ (Lazy(prog, ctx)!Eager(i) /\
                               Lazy(prog, ctx)!AllOk(i, Ops(i)) /\ ~Meaning(i).ok)
                         THEN {i} ELSE {}
<1>1. \A k : Lazy(prog, ctx)!Absent(i, k) <=> Missing(i, k)
  BY SameOperations, SameTests DEF Lazy!Absent, Missing, Walked, Ops, Kid, Lazy!Kid
<1>2. Lazy(prog, ctx)!UnknownClass(i) <=> Unknown(i)
  BY DEF Lazy!UnknownClass, Unknown
<1>3. ASSUME prog[i].kind = "PathExpr"
      PROVE  Found(i) = {Kid(i, k) : k \in {k \in 1..Arity(i) : ctx.strict /\ Missing(i, k)}}
  BY <1>1, <1>3 DEF Found, Lazy!Faults, Lazy!Kids, Lazy!Kid, Kid, Arity
<1>4. ASSUME prog[i].kind # "PathExpr"
      PROVE  Found(i) = IF Unknown(i) \/ (Lazy(prog, ctx)!Eager(i) /\
                               Lazy(prog, ctx)!AllOk(i, Ops(i)) /\ ~Meaning(i).ok)
                         THEN {i} ELSE {}
  BY <1>2, <1>4 DEF Found, Lazy!Faults, Ops, Meaning
<1> QED BY <1>3, <1>4

Answer(outcome) == IF outcome.ok THEN Ok(outcome.val) ELSE Err

LEMMA ApplyAt ==
  ASSUME NEW i, NEW vals
  PROVE  LET outcome == Lazy(prog, ctx)!Apply(i, vals)
             kind == prog[i].kind
         IN /\ kind = "Literal" => outcome = Ok(prog[i].val)
            /\ kind = "ArrayLit" => outcome = Ok(Array(vals))
            /\ kind = "CommaList" =>
                 outcome = Ok(IF vals = <<>> THEN Null
                              ELSE IF Len(vals) = 1 THEN vals[1]
                              ELSE Tuple(Spreads(vals)[Len(vals)]))
            /\ kind = "Comparison" => outcome = ApplyComparison(prog[i].op, vals[1], vals[2])
            /\ kind = "Additive" => outcome = AddOperands(vals[1], vals[2])
            /\ kind = "Not" => outcome = Ok(Bool(~Truthy(vals[1])))
            /\ kind = "MemberOfExpr" =>
                 outcome = IF Unanswerable(prog[i].op, vals[1]) THEN Err
                           ELSE Ok(Bool(IsMember(ctx, prog[i].op, vals[1])))
            /\ kind = "ClassCall" =>
                 outcome = IF prog[i].op \in ctx.classes
                             THEN Answer(CallClass(prog[i], Spreads(vals)[Len(vals)])) ELSE Err
            /\ kind = "Foreign" => outcome = Err
<1> DEFINE outcome == Lazy(prog, ctx)!Apply(i, vals)
           kind == prog[i].kind
<1>1. ASSUME kind = "Literal" PROVE outcome = Ok(prog[i].val)
  <2>1. Lazy(prog, ctx)!Ok(prog[i].val) = Ok(prog[i].val)
    BY SameOperations, Zenon
  <2> QED BY <1>1, <2>1, Zenon DEF Lazy!Apply
<1>2. ASSUME kind = "ArrayLit" PROVE outcome = Ok(Array(vals))
  <2>1. Lazy(prog, ctx)!Ok(Lazy(prog, ctx)!Array(vals)) = Ok(Array(vals))
    BY DEF Lazy!Ok, Ok, Lazy!Array, Array
  <2> QED BY <1>2, <2>1, Zenon DEF Lazy!Apply
<1>3. ASSUME kind = "CommaList"
      PROVE  outcome = Ok(IF vals = <<>> THEN Null ELSE IF Len(vals) = 1 THEN vals[1]
                          ELSE Tuple(Spreads(vals)[Len(vals)]))
  <2>1. \A v : Lazy(prog, ctx)!Ok(v) = Ok(v) /\ Lazy(prog, ctx)!Tuple(v) = Tuple(v)
    BY SameOperations, Zenon
  <2>2. Lazy(prog, ctx)!Null = Null
    BY SameOperations, Zenon
  <2>3. outcome = Lazy(prog, ctx)!Ok(
          IF vals = <<>> THEN Lazy(prog, ctx)!Null ELSE IF Len(vals) = 1 THEN vals[1]
          ELSE Lazy(prog, ctx)!Tuple(Lazy(prog, ctx)!Spread(vals)))
    BY <1>3, Zenon DEF Lazy!Apply
  <2>4. Lazy(prog, ctx)!Spread(vals) = Spreads(vals)[Len(vals)]
    BY DEF Lazy!Spread, Spreads
  <2> HIDE DEF outcome
  <2> QED BY <2>1, <2>2, <2>3, <2>4
<1>4. ASSUME kind = "Comparison"
      PROVE  outcome = ApplyComparison(prog[i].op, vals[1], vals[2])
  BY <1>4, SameComparisons, Zenon DEF Lazy!Apply
<1>5. ASSUME kind = "Additive"
      PROVE  outcome = AddOperands(vals[1], vals[2])
  BY <1>5, SameSums, Zenon DEF Lazy!Apply
<1>6. ASSUME kind = "Not" PROVE outcome = Ok(Bool(~Truthy(vals[1])))
  <2>1. outcome = Lazy(prog, ctx)!Ok(Lazy(prog, ctx)!Bool(~Lazy(prog, ctx)!Truthy(vals[1])))
    BY <1>6, Zenon DEF Lazy!Apply
  <2>2. Lazy(prog, ctx)!Truthy(vals[1]) = Truthy(vals[1])
    BY SameTests, Zenon
  <2> HIDE DEF outcome
  <2> QED BY <2>1, <2>2 DEF Lazy!Ok, Ok, Lazy!Bool, Bool
<1>7. ASSUME kind = "MemberOfExpr"
      PROVE  outcome = IF Unanswerable(prog[i].op, vals[1]) THEN Err
                       ELSE Ok(Bool(IsMember(ctx, prog[i].op, vals[1])))
  <2>1. outcome = IF Lazy(prog, ctx)!Unanswerable(prog[i].op, vals[1]) THEN Lazy(prog, ctx)!Err
                  ELSE Lazy(prog, ctx)!Ok(Lazy(prog, ctx)!Bool(
                         Lazy(prog, ctx)!IsMember(ctx, prog[i].op, vals[1])))
    BY <1>7, Zenon DEF Lazy!Apply
  <2>2. /\ Lazy(prog, ctx)!Unanswerable(prog[i].op, vals[1]) <=> Unanswerable(prog[i].op, vals[1])
        /\ Lazy(prog, ctx)!IsMember(ctx, prog[i].op, vals[1]) = IsMember(ctx, prog[i].op, vals[1])
        /\ Lazy(prog, ctx)!Err = Err
    BY SameMembers, SameOperations
  <2> HIDE DEF outcome
  <2> QED BY <2>1, <2>2 DEF Lazy!Ok, Ok, Lazy!Bool, Bool
<1>8. ASSUME kind = "ClassCall"
      PROVE  outcome = IF prog[i].op \in ctx.classes
                         THEN Answer(CallClass(prog[i], Spreads(vals)[Len(vals)])) ELSE Err
  <2>1. Lazy(prog, ctx)!Err = Err
    BY SameOperations, Zenon
  <2>2. outcome = IF prog[i].op \in ctx.classes
                    THEN Lazy(prog, ctx)!Answer(CallClass(prog[i], Lazy(prog, ctx)!Spread(vals)))
                    ELSE Err
    BY <1>8, <2>1, Zenon DEF Lazy!Apply
  <2>3. \A r : Lazy(prog, ctx)!Answer(r) = Answer(r)
    BY SameOperations DEF Lazy!Answer, Answer
  <2>4. Lazy(prog, ctx)!Spread(vals) = Spreads(vals)[Len(vals)]
    BY DEF Lazy!Spread, Spreads
  <2> HIDE DEF outcome
  <2> QED BY <2>2, <2>3, <2>4
<1>9. ASSUME kind = "Foreign" PROVE outcome = Err
  <2>1. Lazy(prog, ctx)!Err = Err
    BY SameOperations, Zenon
  <2> QED BY <1>9, <2>1, Zenon DEF Lazy!Apply
<1> QED BY <1>1, <1>2, <1>3, <1>4, <1>5, <1>6, <1>7, <1>8, <1>9

-----------------------------------------------------------------------------
(* How far a frame has come with the meaning of its node.                      *)

(* The operands it has passed have a value and nothing below them is wrong.    *)
Passed(frame) ==
  \A k \in 1..frame.next - 1 :
    /\ Clean(Kid(frame.node, k))
    /\ prog[Kid(frame.node, k)].kind # "NameHop" =>
         Meaning(Kid(frame.node, k)) = Ok(OpVals(frame.node)[k])

(* The nodes that keep the values of their operands as they are.               *)
PlainMeans(frame) ==
  prog[frame.node].kind \notin {"PathExpr", "CommaList", "Logical"} =>
    \A k \in 1..frame.next - 1 : frame.vals[k] = OpVals(frame.node)[k]

(* A path keeps the value of the hops so far.                                  *)
PathOf(frame) ==
  IF frame.vals # <<>> THEN frame.vals[1]
  ELSE IF prog[frame.node].op = "User" THEN ctx.profile ELSE Null

PathMeans(frame) ==
  prog[frame.node].kind = "PathExpr" =>
    /\ Walked(frame.node)[frame.next - 1] = Ok(PathOf(frame))
    /\ \A k \in 1..frame.next - 1 : ~(ctx.strict /\ Missing(frame.node, k))

(* A comma list keeps the tuple so far, but a single value as it is.           *)
Joined(i, n) == IF n = 1 THEN OpVals(i)[1] ELSE Tuple(Spreads(OpVals(i))[n])

ListMeans(frame) ==
  prog[frame.node].kind = "CommaList" =>
    frame.vals = IF frame.next = 1 THEN <<>> ELSE <<Joined(frame.node, frame.next - 1)>>

(* The value a chain comes to is the first that decides it, or else the last;  *)
(* folding its values does not change which that is.                           *)
Stops(op, vals, s) ==
  /\ \A j \in 1..s - 1 : ~Decided(op, vals[j])
  /\ s = Len(vals) \/ Decided(op, vals[s])

ChainMeans(frame) ==
  prog[frame.node].kind = "Logical" =>
    /\ frame.next <= Arity(frame.node) =>
         /\ Len(frame.vals) = frame.next - 1
         /\ \A k \in 1..frame.next - 1 : frame.vals[k] = OpVals(frame.node)[k]
    /\ frame.next > Arity(frame.node) /\ prog[frame.node].kids # <<>> =>
         \E s \in 1..Len(frame.vals) :
           /\ Stops(prog[frame.node].op, frame.vals, s)
           /\ Meaning(frame.node) = Ok(frame.vals[s])

FrameMeans(frame) ==
  /\ Passed(frame) /\ PlainMeans(frame) /\ PathMeans(frame)
  /\ ListMeans(frame) /\ ChainMeans(frame)

-----------------------------------------------------------------------------
(* The operands' values are a sequence.                                        *)
LEMMA OpValsSeq ==
  ASSUME WellFormed(prog), NEW i \in 1..Root
  PROVE  Arity(i) \in Nat /\ Len(OpVals(i)) = Arity(i) /\ OpVals(i) \in Seq(Range(OpVals(i)))
<1>1. Arity(i) \in Nat
  BY Tree DEF Arity
<1>2. DOMAIN OpVals(i) = 1..Arity(i) /\ OpVals(i) = [k \in 1..Arity(i) |-> OpVals(i)[k]]
  BY DEF OpVals
<1> QED BY <1>1, <1>2, LengthOf

(* Of a sequence that is not empty some value is the one it comes to.          *)
LEMMA SomeStop ==
  ASSUME NEW op, NEW vals, Len(vals) \in Nat \ {0}
  PROVE  \E s \in 1..Len(vals) : Stops(op, vals, s)
<1> DEFINE n == Len(vals)
           D == {k \in 1..n : Decided(op, vals[k])}
<1>1. n \in Nat \ {0}
  OBVIOUS
<1>2. CASE D = {}
  <2>1. n \in 1..n /\ \A j \in 1..n - 1 : j \in 1..n
    BY <1>1
  <2>2. Stops(op, vals, n)
    BY <1>2, <2>1 DEF Stops
  <2> QED BY <2>1, <2>2
<1>3. CASE D # {}
  <2>1. D \in SUBSET Nat
    OBVIOUS
  <2>2. PICK s \in D : \A k \in D : s <= k
    <3> HIDE DEF D
    <3> QED BY <1>3, <2>1, Least
  <2>3. s \in 1..n /\ Decided(op, vals[s])
    OBVIOUS
  <2>4. \A j \in 1..s - 1 : j \in 1..n /\ ~(s <= j)
    BY <1>1, <2>3
  <2>5. \A j \in 1..s - 1 : ~Decided(op, vals[j])
    BY <2>2, <2>4
  <2>6. Stops(op, vals, s)
    BY <2>3, <2>5 DEF Stops
  <2> QED BY <2>3, <2>6
<1> QED BY <1>2, <1>3

(* It is the value the lazy reading of a chain stops at.                       *)
LEMMA ChainAt ==
  ASSUME WellFormed(prog), NEW i \in 1..Root,
         \A k \in 1..Arity(i) : Meaning(Kid(i, k)) = Ok(OpVals(i)[k]),
         NEW s \in 1..Arity(i), Stops(prog[i].op, OpVals(i), s)
  PROVE  Lazy(prog, ctx)!Chain(i, Ops(i)) = Ok(OpVals(i)[s])
<1> DEFINE n == Arity(i)
           decides(k) == Ops(i)[k].ok /\ Decided(prog[i].op, Ops(i)[k].val)
           first(k) == (decides(k) \/ k = n) /\ \A j \in 1..k - 1 : ~decides(j)
           stop == CHOOSE k \in 1..n : first(k)
<1>1. n \in Nat /\ Len(OpVals(i)) = n
  BY OpValsSeq
<1>2. \A k \in 1..n : Ops(i)[k].ok /\ Ops(i)[k] = Ok(OpVals(i)[k]) /\ Ops(i)[k].val = OpVals(i)[k]
  <2>1. ASSUME NEW k \in 1..n
        PROVE  Ops(i)[k] = Meaning(Kid(i, k)) /\ Meaning(Kid(i, k)) = Ok(OpVals(i)[k])
    BY OpsAt
  <2>2. \A v : Ok(v).ok /\ Ok(v).val = v
    BY DEF Ok
  <2> QED BY <2>1, <2>2
<1>3. \A j \in 1..s - 1 : j \in 1..n
  BY <1>1
<1> HIDE DEF n
<1>4. s \in 1..n /\ first(s)
  BY <1>1, <1>2, <1>3 DEF Stops, n
<1>5. ASSUME NEW k \in 1..n, first(k) PROVE k = s
  <2>1. k < s => k \in 1..s - 1 /\ k # n
    BY <1>1, <1>4
  <2>2. s < k => s \in 1..k - 1 /\ s # n
    BY <1>1, <1>4
  <2>3. ~(k < s) /\ ~(s < k)
    BY <1>4, <1>5, <2>1, <2>2
  <2> QED BY <1>1, <1>4, <2>3
<1>6. stop = s
  <2> HIDE DEF first
  <2> QED BY <1>4, <1>5
<1>7. Lazy(prog, ctx)!Chain(i, Ops(i)) =
        IF \A k \in 1..stop : Ops(i)[k].ok THEN Ops(i)[stop] ELSE Err
  BY DEF Lazy!Chain, Lazy!Kids, Arity, n, Lazy!Decided, Decided, Lazy!Truthy, Truthy,
     Lazy!Type, Type, Lazy!Contents, Contents, Lazy!Err, Err, Lazy!Null, Null
<1>8. \A k \in 1..s : k \in 1..n
  BY <1>1, <1>4
<1> HIDE DEF stop
<1> QED BY <1>2, <1>4, <1>6, <1>7, <1>8

(* The values of a path and of a comma list, one operand after the other.      *)
LEMMA WalkedAt ==
  ASSUME WellFormed(prog), NEW i \in 1..Root
  PROVE  /\ Walked(i)[0] = Ok(IF prog[i].op = "User" THEN ctx.profile ELSE Null)
         /\ \A k \in 1..Arity(i) :
              Walked(i)[k] = IF ~Walked(i)[k - 1].ok THEN Err
                             ELSE IF prog[Kid(i, k)].kind # "NameHop" THEN Ops(i)[k]
                             ELSE Ok(Lookup(Walked(i)[k - 1].val, prog[Kid(i, k)].name))
<1>1. Len(prog[i].kids) \in Nat
  BY Tree
<1>2. /\ Walked(i)[0] = Ok(IF prog[i].op = "User" THEN ctx.profile ELSE Null)
      /\ \A k \in 1..Len(prog[i].kids) :
           Walked(i)[k] = IF ~Walked(i)[k - 1].ok THEN Err
                          ELSE IF prog[prog[i].kids[k]].kind # "NameHop" THEN Ops(i)[k]
                          ELSE Ok(Lazy(prog, ctx)!Attribute(Walked(i)[k - 1].val,
                                                            prog[prog[i].kids[k]].name))
  BY <1>1, WalkAt DEF Walked
<1>3. \A v, name : Lazy(prog, ctx)!Attribute(v, name) = Lookup(v, name)
  BY SameAttribute
<1> QED BY <1>2, <1>3 DEF Kid, Arity

-----------------------------------------------------------------------------
(* What Ok makes of a value gives the value back.                              *)
LEMMA OkValue == \A v, w : Ok(v).ok /\ Ok(v).val = v /\ (Ok(v) = Ok(w) => v = w) /\ ~Err.ok
BY DEF Ok, Err

(* Nothing is wrong below a node when nothing is below its operands and the    *)
(* node itself finds nothing wrong.                                            *)
LEMMA CleanNode ==
  ASSUME WellFormed(prog), NEW i \in 1..Root, Found(i) = {},
         \A k \in 1..Arity(i) : Clean(Kid(i, k))
  PROVE  Clean(i)
BY BelowAt DEF Clean

(* The hops of a path find nothing wrong themselves.                           *)
LEMMA HopClean ==
  ASSUME WellFormed(prog), NEW i \in 1..Root, prog[i].kind = "NameHop"
  PROVE  Clean(i)
<1>1. Arity(i) = 0
  BY Tree DEF Arity, ArityOk
<1>2. ~Lazy(prog, ctx)!Eager(i)
  BY DEF Lazy!Eager
<1>3. Found(i) = {}
  BY <1>2, FoundAt DEF Unknown
<1> QED BY <1>1, <1>3, CleanNode

(* A frame that is about to begin has come nowhere.                            *)
LEMMA NewFrameMeans ==
  ASSUME WellFormed(prog), NEW i \in 1..Root
  PROVE  FrameMeans(Frame(i))
<1> DEFINE frame == Frame(i)
<1>1. frame.node = i /\ frame.next = 1 /\ frame.vals = <<>> /\ Len(frame.vals) = 0
  BY DEF Frame
<1>2. Arity(i) \in Nat /\ prog[i].kids \in Seq(1..i - 1)
  BY OpValsSeq DEF WellFormed, Root
<1> HIDE DEF frame
<1>3. Passed(frame) /\ PlainMeans(frame) /\ ListMeans(frame)
  BY <1>1 DEF Passed, PlainMeans, ListMeans
<1>4. PathMeans(frame)
  <2>1. Walked(i)[0] = Ok(IF prog[i].op = "User" THEN ctx.profile ELSE Null)
    BY <1>2, WalkAt DEF Walked, Arity
  <2>2. PathOf(frame) = IF prog[i].op = "User" THEN ctx.profile ELSE Null
    BY <1>1 DEF PathOf
  <2> QED BY <1>1, <2>1, <2>2 DEF PathMeans
<1>5. ChainMeans(frame)
  <2>1. prog[i].kids # <<>> => 1 <= Arity(i)
    BY <1>2 DEF Arity
  <2> QED BY <1>1, <1>2, <2>1 DEF ChainMeans
<1> QED BY <1>3, <1>4, <1>5 DEF FrameMeans, frame

(* What a frame may take as the value of its next operand.                     *)
Takes(frame, v) ==
  LET kid == Kid(frame.node, frame.next)
  IN IF prog[kid].kind = "NameHop"
       THEN /\ v = Lookup(PathOf(frame), prog[kid].name)
            /\ ~(ctx.strict /\ Missing(frame.node, frame.next))
       ELSE Meaning(kid) = Ok(v) /\ Clean(kid)

(* A tuple joined with one more value is spread one value further.             *)
LEMMA MergeSpreads ==
  /\ \A a, b : MergeOperands(a, b) = Tuple(SpreadArgs(a) \o SpreadArgs(b))
  /\ \A s : SpreadArgs(Tuple(s)) = s
<1>1. ASSUME NEW a, NEW b PROVE MergeOperands(a, b) = Tuple(SpreadArgs(a) \o SpreadArgs(b))
  <2>1. CASE Type(a) = "Tuple" /\ Type(b) = "Tuple"
    BY <2>1 DEF MergeOperands, SpreadArgs
  <2>2. CASE Type(a) = "Tuple" /\ Type(b) # "Tuple"
    BY <2>2 DEF MergeOperands, SpreadArgs
  <2>3. CASE Type(a) # "Tuple" /\ Type(b) = "Tuple"
    BY <2>3 DEF MergeOperands, SpreadArgs
  <2>4. CASE Type(a) # "Tuple" /\ Type(b) # "Tuple"
    <3>1. MergeOperands(a, b) = Tuple(<<a, b>>) /\ SpreadArgs(a) = <<a>> /\ SpreadArgs(b) = <<b>>
      BY <2>4 DEF MergeOperands, SpreadArgs
    <3>2. <<a, b>> = <<a>> \o <<b>>
      BY PairConcat
    <3> QED BY <3>1, <3>2
  <2> QED BY <2>1, <2>2, <2>3, <2>4
<1>2. \A s : SpreadArgs(Tuple(s)) = s
  BY DEF SpreadArgs, Tuple, Type, Contents
<1> QED BY <1>1, <1>2

(* Taking the value of its next operand takes a frame one operand further.     *)
LEMMA AbsorbMeans ==
  ASSUME WellFormed(prog),
         NEW frame, FrameFits(frame), FrameMeans(frame),
         frame.next <= Len(prog[frame.node].kids),
         NEW v, Takes(frame, v)
  PROVE  FrameMeans(Absorb(frame, v))
<1> DEFINE i == frame.node
           n == frame.next
           kid == Kid(i, n)
           new == Absorb(frame, v)
           vals == frame.vals
<1>1. /\ i \in 1..Root /\ n \in 1..Arity(i) /\ Arity(i) \in Nat
      /\ vals \in Seq(Range(vals)) /\ Len(vals) \in Nat
      /\ kid \in 1..Root
      /\ prog[kid].kind = "NameHop" => prog[i].kind = "PathExpr"
  BY Tree, LenProperties DEF FrameFits, FrameTyped, Root, Arity, Kid
<1>2. new.node = i /\ new.next = n + 1 /\ new.vals = Absorbed(frame, v)
  BY DEF Absorb
<1>3. \A k \in 1..new.next - 1 : k = n \/ k \in 1..n - 1
  BY <1>1, <1>2
<1>4. /\ prog[kid].kind # "NameHop" => Meaning(kid) = Ok(v) /\ Clean(kid) /\ v = OpVals(i)[n]
      /\ Clean(kid)
  <2>1. ASSUME prog[kid].kind # "NameHop"
        PROVE  Meaning(kid) = Ok(v) /\ Clean(kid)
    BY <2>1 DEF Takes
  <2>2. OpVals(i)[n] = Meaning(kid).val
    BY <1>1 DEF OpVals
  <2>3. prog[kid].kind = "NameHop" => Clean(kid)
    BY <1>1, HopClean
  <2> QED BY <2>1, <2>2, <2>3, OkValue
<1>5. Passed(new)
  <2>1. \A k \in 1..n - 1 : Clean(Kid(i, k)) /\
          (prog[Kid(i, k)].kind # "NameHop" => Meaning(Kid(i, k)) = Ok(OpVals(i)[k]))
    BY DEF FrameMeans, Passed
  <2> QED BY <1>2, <1>3, <1>4, <2>1 DEF Passed
<1>6. ASSUME prog[i].kind \notin {"PathExpr", "CommaList"}
      PROVE  /\ new.vals = Append(vals, v) /\ Len(new.vals) = Len(vals) + 1
             /\ new.vals[Len(vals) + 1] = v /\ \A k \in 1..Len(vals) : new.vals[k] = vals[k]
             /\ v = OpVals(i)[n]
  <2>1. new.vals = Append(vals, v)
    BY <1>2, <1>6 DEF Absorbed
  <2>2. v = OpVals(i)[n]
    BY <1>1, <1>4, <1>6
  <2> QED BY <1>1, <2>1, <2>2, SeqWiden
<1>7. PlainMeans(new)
  <2>1. SUFFICES ASSUME prog[i].kind \notin {"PathExpr", "CommaList", "Logical"}
                 PROVE  \A k \in 1..new.next - 1 : new.vals[k] = OpVals(i)[k]
    BY <1>2 DEF PlainMeans
  <2>2. Len(vals) = n - 1 /\ \A k \in 1..n - 1 : vals[k] = OpVals(i)[k]
    BY <2>1 DEF FrameMeans, PlainMeans, FrameFits, FrameCounts
  <2>3. new.vals[n] = v /\ \A k \in 1..n - 1 : new.vals[k] = vals[k]
    BY <1>1, <1>6, <2>1, <2>2
  <2> QED BY <1>3, <1>6, <2>1, <2>2, <2>3
<1>8. PathMeans(new)
  <2>1. SUFFICES ASSUME prog[i].kind = "PathExpr"
                 PROVE  /\ Walked(i)[n] = Ok(PathOf(new))
                        /\ \A k \in 1..n : ~(ctx.strict /\ Missing(i, k))
    BY <1>1, <1>2 DEF PathMeans
  <2>2. /\ Walked(i)[n - 1] = Ok(PathOf(frame))
        /\ \A k \in 1..n - 1 : ~(ctx.strict /\ Missing(i, k))
    BY <2>1 DEF FrameMeans, PathMeans
  <2>3. PathOf(new) = v
    <3>1. new.vals = <<v>>
      BY <1>2, <2>1 DEF Absorbed
    <3> QED BY <3>1 DEF PathOf
  <2>4. Walked(i)[n] = IF ~Walked(i)[n - 1].ok THEN Err
                       ELSE IF prog[kid].kind # "NameHop" THEN Ops(i)[n]
                       ELSE Ok(Lookup(Walked(i)[n - 1].val, prog[kid].name))
    BY <1>1, WalkedAt
  <2>5. Walked(i)[n - 1].ok /\ Walked(i)[n - 1].val = PathOf(frame)
    BY <2>2, OkValue
  <2>6. CASE prog[kid].kind # "NameHop"
    <3>1. Walked(i)[n] = Meaning(kid)
      BY <1>1, <2>4, <2>5, <2>6, OpsAt
    <3>2. ~Missing(i, n)
      BY <2>6 DEF Missing
    <3> QED BY <1>1, <1>4, <2>2, <2>3, <2>6, <3>1, <3>2
  <2>7. CASE prog[kid].kind = "NameHop"
    <3>1. v = Lookup(PathOf(frame), prog[kid].name) /\ ~(ctx.strict /\ Missing(i, n))
      BY <2>7 DEF Takes
    <3>2. Walked(i)[n] = Ok(v)
      BY <2>4, <2>5, <2>7, <3>1
    <3> QED BY <1>1, <2>2, <2>3, <3>1, <3>2
  <2> QED BY <2>6, <2>7
<1>9. ListMeans(new)
  <2>1. SUFFICES ASSUME prog[i].kind = "CommaList"
                 PROVE  new.vals = <<Joined(i, n)>>
    BY <1>1, <1>2 DEF ListMeans
  <2>2. vals = IF n = 1 THEN <<>> ELSE <<Joined(i, n - 1)>>
    BY <2>1 DEF FrameMeans, ListMeans
  <2>3. v = OpVals(i)[n]
    BY <1>1, <1>4, <2>1
  <2>4. Len(OpVals(i)) = Arity(i)
    BY <1>1, OpValsSeq
  <2>5. CASE n = 1
    <3>1. vals = <<>>
      BY <2>2, <2>5
    <3>2. new.vals = <<v>>
      BY <1>2, <2>1, <3>1 DEF Absorbed
    <3> QED BY <2>3, <2>5, <3>2 DEF Joined
  <2>6. CASE n # 1
    <3>1. vals = <<Joined(i, n - 1)>> /\ n \in 2..Arity(i)
      BY <1>1, <2>2, <2>6
    <3>2. new.vals = <<MergeOperands(Joined(i, n - 1), v)>>
      BY <1>2, <2>1, <3>1 DEF Absorbed
    <3>3. Spreads(OpVals(i))[n] = Spreads(OpVals(i))[n - 1] \o SpreadArgs(v)
      BY <1>1, <2>3, <2>4, <3>1, SpreadsAt
    <3>4. Spreads(OpVals(i))[n - 1] = SpreadArgs(Joined(i, n - 1))
      <4>1. CASE n - 1 = 1
        <5>1. Len(OpVals(i)) >= 1 /\ Len(OpVals(i)) \in Nat
          BY <1>1, <2>4
        <5>2. Spreads(OpVals(i))[1] = SpreadArgs(OpVals(i)[1])
          BY <5>1, SpreadsAt
        <5> QED BY <4>1, <5>2 DEF Joined
      <4>2. CASE n - 1 # 1
        BY <4>2, MergeSpreads DEF Joined
      <4> QED BY <4>1, <4>2
    <3>5. new.vals = <<Tuple(Spreads(OpVals(i))[n])>>
      BY <3>2, <3>3, <3>4, MergeSpreads
    <3> QED BY <2>6, <3>5 DEF Joined
  <2> QED BY <2>5, <2>6
<1>10. ChainMeans(new)
  <2>1. SUFFICES ASSUME prog[i].kind = "Logical"
                 PROVE  /\ Len(new.vals) = n /\ \A k \in 1..n : new.vals[k] = OpVals(i)[k]
                        /\ n + 1 > Arity(i) =>
                             \E s \in 1..Len(new.vals) :
                               Stops(prog[i].op, new.vals, s) /\ Meaning(i) = Ok(new.vals[s])
    BY <1>1, <1>2 DEF ChainMeans
  <2>2. Len(vals) = n - 1 /\ \A k \in 1..n - 1 : vals[k] = OpVals(i)[k]
    BY <1>1, <2>1 DEF FrameMeans, ChainMeans
  <2>3. Len(new.vals) = n /\ new.vals[n] = v /\ \A k \in 1..n - 1 : new.vals[k] = vals[k]
    <3>1. Len(vals) + 1 = n /\ prog[i].kind \notin {"PathExpr", "CommaList"}
      BY <1>1, <2>1, <2>2
    <3>2. /\ Len(new.vals) = Len(vals) + 1 /\ new.vals[Len(vals) + 1] = v
          /\ \A k \in 1..Len(vals) : new.vals[k] = vals[k]
      BY <1>6, <3>1
    <3> QED BY <2>2, <3>1, <3>2
  <2>4. \A k \in 1..n : new.vals[k] = OpVals(i)[k]
    BY <1>2, <1>3, <1>6, <2>1, <2>2, <2>3
  <2>5. ASSUME n + 1 > Arity(i)
        PROVE  \E s \in 1..Len(new.vals) :
                 Stops(prog[i].op, new.vals, s) /\ Meaning(i) = Ok(new.vals[s])
    <3>1. n = Arity(i) /\ n \in Nat \ {0}
      BY <1>1, <2>5
    <3>2. PICK s \in 1..n : Stops(prog[i].op, new.vals, s)
      BY <2>3, <3>1, SomeStop
    <3>3. Stops(prog[i].op, OpVals(i), s)
      <4>1. Len(OpVals(i)) = n
        BY <1>1, <3>1, OpValsSeq
      <4>2. \A j \in 1..s - 1 : j \in 1..n
        BY <3>1
      <4> QED BY <2>3, <2>4, <3>2, <4>1, <4>2 DEF Stops
    <3>4. \A k \in 1..Arity(i) : Meaning(Kid(i, k)) = Ok(OpVals(i)[k])
      <4>1. \A k \in 1..Arity(i) : k \in 1..new.next - 1
        BY <1>1, <1>2, <3>1
      <4>2. \A k \in 1..Arity(i) : prog[Kid(i, k)].kind # "NameHop"
        BY <1>1, <2>1, Tree DEF Kid, Arity
      <4> QED BY <1>2, <1>5, <4>1, <4>2 DEF Passed
    <3>5. Meaning(i) = Lazy(prog, ctx)!Chain(i, Ops(i))
      <4>1. prog[i].kids # <<>>
        BY <3>1 DEF Arity
      <4> QED BY <1>1, <2>1, <4>1, ReferenceMeans
    <3>6. Meaning(i) = Ok(new.vals[s])
      BY <1>1, <2>4, <3>1, <3>2, <3>3, <3>4, <3>5, ChainAt
    <3> QED BY <2>3, <3>2, <3>6
  <2> QED BY <2>3, <2>4, <2>5
<1> QED BY <1>5, <1>7, <1>8, <1>9, <1>10 DEF FrameMeans

(* Folding the values of a chain does not change the one it comes to.          *)
Folded(op, vals) ==
  <<IF Decided(op, vals[1]) THEN vals[1] ELSE vals[2]>> \o SubSeq(vals, 3, Len(vals))

LEMMA FoldedAt ==
  ASSUME NEW op, NEW vals, vals \in Seq(Range(vals)), Len(vals) > 1
  PROVE  /\ Len(Folded(op, vals)) = Len(vals) - 1
         /\ \A k \in 1..Len(vals) - 1 :
              Folded(op, vals)[k] =
                IF k = 1 THEN IF Decided(op, vals[1]) THEN vals[1] ELSE vals[2] ELSE vals[k + 1]
<1> DEFINE S == Range(vals)
           n == Len(vals)
           first == IF Decided(op, vals[1]) THEN vals[1] ELSE vals[2]
           rest == SubSeq(vals, 3, n)
<1>1. n \in Nat /\ n > 1 /\ vals[1] \in S /\ vals[2] \in S
  BY LenProperties, ElementOfSeq
<1>2. first \in S /\ vals \in Seq(S) /\ n = Len(vals) /\ rest = SubSeq(vals, 3, n)
  BY <1>1
<1>3. Folded(op, vals) = <<first>> \o rest
  BY DEF Folded
<1> HIDE DEF S, n, first, rest
<1>4. /\ Len(<<first>> \o rest) = n - 1
      /\ \A k \in 1..n - 1 : (<<first>> \o rest)[k] = (IF k = 1 THEN first ELSE vals[k + 1])
  BY <1>1, <1>2, FoldedSeq
<1> QED BY <1>3, <1>4 DEF n, first

LEMMA FoldStops ==
  ASSUME NEW op, NEW vals, vals \in Seq(Range(vals)), Len(vals) > 1,
         NEW s \in 1..Len(vals), Stops(op, vals, s)
  PROVE  \E t \in 1..Len(Folded(op, vals)) :
           Stops(op, Folded(op, vals), t) /\ Folded(op, vals)[t] = vals[s]
<1> DEFINE n == Len(vals)
           folded == Folded(op, vals)
<1>1. n \in Nat /\ n >= 2
  BY LenProperties
<1>3. Len(folded) = n - 1
  BY FoldedAt
<1>7. \A k \in 1..n - 1 : folded[k] = IF k = 1 THEN IF Decided(op, vals[1]) THEN vals[1] ELSE vals[2]
                                       ELSE vals[k + 1]
  BY FoldedAt
<1>4. /\ \A j \in 1..s - 1 : ~Decided(op, vals[j])
      /\ s = n \/ Decided(op, vals[s])
  BY DEF Stops
<1> HIDE DEF folded
<1> HIDE DEF n
<1>5. CASE Decided(op, vals[1])
  <2>1. s = 1
    <3>1. s # 1 => 1 \in 1..s - 1
      BY <1>1 DEF n
    <3> QED BY <1>4, <1>5, <3>1
  <2>2. 1 \in 1..n - 1 /\ folded[1] = vals[1]
    BY <1>1, <1>5, <1>7
  <2>3. Stops(op, folded, 1)
    BY <1>5, <2>2 DEF Stops
  <2> QED BY <1>3, <2>1, <2>2, <2>3 DEF folded
<1>6. CASE ~Decided(op, vals[1])
  <2>1. s # 1
    BY <1>1, <1>4, <1>6
  <2>2. \A k \in 1..n - 1 : folded[k] = vals[k + 1]
    BY <1>1, <1>6, <1>7
  <2>3. s - 1 \in 1..n - 1 /\ (s - 1) + 1 = s /\ (s = n => s - 1 = n - 1)
    BY <1>1, <2>1 DEF n
  <2>4. folded[s - 1] = vals[s]
    BY <2>2, <2>3
  <2>5. \A j \in 1..(s - 1) - 1 : j \in 1..n - 1 /\ j + 1 \in 1..s - 1
    BY <1>1, <2>3
  <2>6. \A j \in 1..(s - 1) - 1 : ~Decided(op, folded[j])
    BY <1>4, <2>2, <2>5
  <2>7. Stops(op, folded, s - 1)
    BY <1>3, <1>4, <2>3, <2>4, <2>6 DEF Stops
  <2> QED BY <1>3, <2>3, <2>4, <2>7 DEF folded
<1> QED BY <1>5, <1>6

LEMMA FoldMeans ==
  ASSUME WellFormed(prog),
         NEW frame, FrameFits(frame), FrameMeans(frame),
         prog[frame.node].kind = "Logical", frame.next > Len(prog[frame.node].kids),
         Len(frame.vals) > 1,
         NEW folded, folded = Folded(prog[frame.node].op, frame.vals)
  PROVE  FrameMeans([node |-> frame.node, next |-> frame.next, vals |-> folded])
<1> DEFINE i == frame.node
           new == [node |-> i, next |-> frame.next, vals |-> folded]
<1>1. new.node = i /\ new.next = frame.next /\ new.vals = folded
  OBVIOUS
<1>2. frame.vals \in Seq(Range(frame.vals)) /\ Len(frame.vals) <= frame.next - 1
  BY DEF FrameFits, FrameTyped, FrameCounts
<1>3. /\ frame.next > Arity(i) /\ prog[i].kids # <<>>
      /\ ~(frame.next <= Arity(i))
  <2>1. frame.next \in Nat /\ Arity(i) \in Nat /\ i \in 1..Root
    BY Tree DEF FrameFits, FrameTyped, Arity, Root
  <2>2. frame.next \in 1..Arity(i) + 1 /\ Len(frame.vals) \in Nat
    BY <1>2, LenProperties DEF FrameFits, FrameTyped, Arity
  <2>3. Arity(i) # 0
    BY <1>2, <2>1, <2>2
  <2> QED BY <2>1, <2>3, EmptySeq DEF Arity
<1>4. PICK s \in 1..Len(frame.vals) :
        Stops(prog[i].op, frame.vals, s) /\ Meaning(i) = Ok(frame.vals[s])
  BY <1>3 DEF FrameMeans, ChainMeans
<1>5. \E t \in 1..Len(folded) : Stops(prog[i].op, folded, t) /\ folded[t] = frame.vals[s]
  BY <1>2, <1>4, FoldStops
<1>6. ChainMeans(new)
  BY <1>1, <1>3, <1>4, <1>5 DEF ChainMeans
<1>7. Passed(new) /\ PlainMeans(new) /\ PathMeans(new) /\ ListMeans(new)
  BY <1>1 DEF FrameMeans, Passed, PlainMeans, PathMeans, ListMeans
<1> QED BY <1>6, <1>7 DEF FrameMeans, new

-----------------------------------------------------------------------------
(* What the node of a frame that has passed all its operands means.            *)
LEMMA ReadyAt ==
  ASSUME WellFormed(prog),
         NEW frame, FrameFits(frame), frame.next > Len(prog[frame.node].kids)
  PROVE  /\ frame.node \in 1..Root /\ frame.next = Arity(frame.node) + 1
         /\ Arity(frame.node) \in Nat /\ frame.vals \in Seq(Range(frame.vals))
<1>1. frame.node \in 1..Root /\ frame.next \in 1..Arity(frame.node) + 1
  BY DEF FrameFits, FrameTyped, Arity, Root
<1>2. Arity(frame.node) \in Nat
  BY <1>1, Tree DEF Arity
<1>3. frame.next > Arity(frame.node) /\ frame.vals \in Seq(Range(frame.vals))
  BY DEF FrameFits, FrameTyped, Arity
<1> QED BY <1>1, <1>2, <1>3

LEMMA ReadyPlain ==
  ASSUME WellFormed(prog),
         NEW frame, FrameFits(frame), FrameMeans(frame),
         frame.next > Len(prog[frame.node].kids),
         prog[frame.node].kind \notin {"PathExpr", "Logical"}
  PROVE  /\ \A k \in 1..Arity(frame.node) :
              Meaning(Kid(frame.node, k)) = Ok(OpVals(frame.node)[k])
         /\ prog[frame.node].kind # "CommaList" => frame.vals = OpVals(frame.node)
<1> DEFINE i == frame.node
<1>1. /\ i \in 1..Root /\ frame.next = Arity(i) + 1 /\ Arity(i) \in Nat
      /\ frame.vals \in Seq(Range(frame.vals))
  BY ReadyAt
<1>2. \A k \in 1..Arity(i) : k \in 1..frame.next - 1
  BY <1>1
<1>3. \A k \in 1..Arity(i) : prog[Kid(i, k)].kind # "NameHop"
  BY <1>1, Tree DEF Kid, Arity
<1>4. \A k \in 1..Arity(i) : Meaning(Kid(i, k)) = Ok(OpVals(i)[k])
  BY <1>2, <1>3 DEF FrameMeans, Passed
<1>5. ASSUME prog[i].kind # "CommaList"
      PROVE  frame.vals = OpVals(i)
  <2>1. Len(frame.vals) = Arity(i) /\ \A k \in 1..Arity(i) : frame.vals[k] = OpVals(i)[k]
    BY <1>1, <1>2, <1>5 DEF FrameMeans, PlainMeans, FrameFits, FrameCounts
  <2>2. Len(OpVals(i)) = Arity(i) /\ OpVals(i) \in Seq(Range(OpVals(i)))
    BY <1>1, OpValsSeq
  <2> DEFINE S == Range(OpVals(i)) \cup Range(frame.vals)
  <2>3. Range(OpVals(i)) \subseteq S /\ Range(frame.vals) \subseteq S
    OBVIOUS
  <2>4. frame.vals \in Seq(S) /\ OpVals(i) \in Seq(S)
    <3> HIDE DEF S
    <3> QED BY <1>1, <2>2, <2>3
  <2> QED BY <2>1, <2>2, <2>4, SeqEqual
<1> QED BY <1>4, <1>5

LEMMA ReadyClean ==
  ASSUME WellFormed(prog),
         NEW frame, FrameFits(frame), FrameMeans(frame),
         frame.next > Len(prog[frame.node].kids), Found(frame.node) = {}
  PROVE  Clean(frame.node)
<1> DEFINE i == frame.node
<1>1. i \in 1..Root /\ frame.next = Arity(i) + 1 /\ Arity(i) \in Nat
  BY ReadyAt
<1>2. \A k \in 1..Arity(i) : k \in 1..frame.next - 1
  BY <1>1
<1>3. \A k \in 1..Arity(i) : Clean(Kid(i, k))
  BY <1>2 DEF FrameMeans, Passed
<1> QED BY <1>1, <1>3, CleanNode

(* A node that needs all its operands and has them: what it makes of them is   *)
(* its meaning, and the node is wrong if that is an error.                     *)
LEMMA ReadyEager ==
  ASSUME WellFormed(prog),
         NEW frame, FrameFits(frame), FrameMeans(frame),
         frame.next > Len(prog[frame.node].kids),
         prog[frame.node].kind \notin {"NameHop", "PathExpr", "Ternary", "Logical"},
         ~Unknown(frame.node)
  PROVE  LET outcome == Lazy(prog, ctx)!Apply(frame.node, OpVals(frame.node))
         IN /\ Meaning(frame.node) = outcome
            /\ outcome.ok => Clean(frame.node)
            /\ ~outcome.ok => Found(frame.node) = {frame.node}
<1> DEFINE i == frame.node
           outcome == Lazy(prog, ctx)!Apply(i, OpVals(i))
<1>1. i \in 1..Root
  BY DEF FrameFits, FrameTyped, Root
<1>2. \A k \in 1..Arity(i) : Meaning(Kid(i, k)).ok
  BY ReadyPlain, OkValue
<1>3. Meaning(i) = outcome /\ Lazy(prog, ctx)!Eager(i) /\ Lazy(prog, ctx)!AllOk(i, Ops(i))
  BY <1>1, <1>2, EagerMeans
<1>4. Found(i) = IF outcome.ok THEN {} ELSE {i}
  BY <1>1, <1>3, FoundAt
<1>5. outcome.ok => Clean(i)
  BY <1>4, ReadyClean
<1> QED BY <1>3, <1>4, <1>5

-----------------------------------------------------------------------------
(* What is known of a state: every frame has come as far with the meaning of   *)
(* its node as its values say, no frame with another on it lacks its class,    *)
(* and what evaluation ends with is what the tree means.                       *)
First(node) ==
  /\ node \in Lazy(prog, ctx)!Wrong
  /\ \A i \in Lazy(prog, ctx)!Wrong : Lazy(prog, ctx)!GoesFirst(node, i)

StackMeans(frames) ==
  /\ \A d \in 1..Len(frames) : FrameMeans(frames[d])
  /\ \A d \in 1..Len(frames) - 1 : ~Unknown(frames[d].node)

Means ==
  /\ StackMeans(stack)
  /\ status \in {"Value", "Returned", "Unexpected"} => Meaning(Root) = Ok(result) /\ Clean(Root)
  /\ status = "Error" => First(fault.node)

(* No step changes the tree or the user, so none changes what the tree means.  *)
LEMMA StepMeans ==
  ASSUME Settled,
         StackMeans(stack'),
         status' \in {"Value", "Returned", "Unexpected"} =>
           Meaning(Root) = Ok(result') /\ Clean(Root),
         status' = "Error" => First(fault'.node)
  PROVE  Means'
<1>1. prog' = prog /\ ctx' = ctx
  BY DEF Settled
<1>2. Root' = Root
  BY <1>1 DEF Root
<1>3. \A i : Meaning(i)' = Meaning(i)
  BY <1>1 DEF Meaning
<1>4. \A i : Ops(i)' = Ops(i) /\ Found(i)' = Found(i) /\ Below(i)' = Below(i)
  BY <1>1 DEF Ops, Found, Below
<1>5. \A i : Walked(i)' = Walked(i)
  BY <1>1, <1>4 DEF Walked
<1>6. \A v : Spreads(v)' = Spreads(v)
  BY <1>1 DEF Spreads
<1>7. \A n : First(n)' <=> First(n)
  BY <1>1 DEF First
<1>8. \A i, k : Kid(i, k)' = Kid(i, k)
  BY <1>1 DEF Kid
<1>9. \A i : (Clean(i)' <=> Clean(i)) /\ Arity(i)' = Arity(i) /\ (Unknown(i)' <=> Unknown(i))
  BY <1>1, <1>4 DEF Clean, Arity, Unknown
<1>10. \A i : OpVals(i)' = OpVals(i)
  BY <1>3, <1>8, <1>9 DEF OpVals
<1>11. \A i, k : Missing(i, k)' <=> Missing(i, k)
  BY <1>1, <1>5, <1>8 DEF Missing
<1>12. ASSUME NEW frame
       PROVE  FrameMeans(frame)' <=> FrameMeans(frame)
  <2>1. Passed(frame)' <=> Passed(frame)
    BY <1>1, <1>3, <1>8, <1>9, <1>10 DEF Passed
  <2>2. PlainMeans(frame)' <=> PlainMeans(frame)
    BY <1>1, <1>10 DEF PlainMeans
  <2>3. PathMeans(frame)' <=> PathMeans(frame)
    BY <1>1, <1>5, <1>11 DEF PathMeans, PathOf
  <2>4. ListMeans(frame)' <=> ListMeans(frame)
    BY <1>1, <1>6, <1>10 DEF ListMeans, Joined
  <2>5. ChainMeans(frame)' <=> ChainMeans(frame)
    BY <1>1, <1>3, <1>9, <1>10 DEF ChainMeans
  <2> QED BY <2>1, <2>2, <2>3, <2>4, <2>5 DEF FrameMeans
<1>13. StackMeans(stack)'
  BY <1>9, <1>12 DEF StackMeans
<1> QED BY <1>2, <1>3, <1>7, <1>9, <1>13 DEF Means

-----------------------------------------------------------------------------
(* The same for the stack a step leaves: another frame on it, ...              *)
LEMMA PushMeans ==
  ASSUME NEW frames, frames \in Seq(Range(frames)), frames # <<>>, StackMeans(frames),
         NEW frame, FrameMeans(frame), ~Unknown(frames[Len(frames)].node)
  PROVE  StackMeans(Append(frames, frame))
<1> DEFINE n == Len(frames)
           new == Append(frames, frame)
<1>1. n \in Nat \ {0}
  BY LenProperties, EmptySeq
<1>2. /\ Len(new) = n + 1 /\ new[n + 1] = frame
      /\ \A k \in 1..n : new[k] = frames[k]
  BY SeqWiden
<1>3. ~Unknown(frames[n].node)
  OBVIOUS
<1> HIDE DEF n, new
<1>4. \A d \in 1..n + 1 : d = n + 1 \/ d \in 1..n
  BY <1>1
<1>5. \A d \in 1..n : d = n \/ d \in 1..n - 1
  BY <1>1
<1>6. (n + 1) - 1 = n
  BY <1>1
<1>7. \A d \in 1..n : FrameMeans(frames[d])
  BY DEF StackMeans, n
<1>8. \A d \in 1..n - 1 : ~Unknown(frames[d].node)
  BY DEF StackMeans, n
<1>9. \A d \in 1..Len(new) : FrameMeans(new[d])
  BY <1>2, <1>4, <1>7
<1>10. \A d \in 1..Len(new) - 1 : ~Unknown(new[d].node)
  BY <1>2, <1>3, <1>5, <1>6, <1>8
<1> QED BY <1>9, <1>10 DEF StackMeans, new

(* ... another frame instead of its top one, ...                               *)
LEMMA ReplaceMeans ==
  ASSUME NEW frames, frames \in Seq(Range(frames)), frames # <<>>, StackMeans(frames),
         NEW frame, FrameMeans(frame)
  PROVE  StackMeans(Append(Front(frames), frame))
<1> DEFINE front == Front(frames)
           new == Append(front, frame)
           n == Len(frames)
<1>1. /\ front \in Seq(Range(front)) /\ Len(front) = n - 1 /\ n \in Nat \ {0}
      /\ \A k \in 1..n - 1 : front[k] = frames[k]
  BY SeqFront
<1> HIDE DEF front
<1>2. /\ Len(new) = n /\ new[n] = frame /\ \A k \in 1..n - 1 : new[k] = frames[k]
  <2>1. /\ Len(new) = Len(front) + 1
        /\ new[Len(front) + 1] = frame /\ \A k \in 1..Len(front) : new[k] = front[k]
    BY <1>1, SeqWiden
  <2> QED BY <1>1, <2>1
<1> HIDE DEF new, n
<1>3. \A d \in 1..n : d = n \/ d \in 1..n - 1
  BY <1>1
<1>4. \A d \in 1..n - 1 : d \in 1..n
  BY <1>1
<1>5. \A d \in 1..Len(new) : FrameMeans(new[d])
  BY <1>2, <1>3, <1>4 DEF StackMeans, n
<1>6. \A d \in 1..Len(new) - 1 : ~Unknown(new[d].node)
  BY <1>2 DEF StackMeans, n
<1> QED BY <1>5, <1>6 DEF StackMeans, new, front

(* ... or no top frame.                                                        *)
LEMMA PopMeans ==
  ASSUME NEW frames, frames \in Seq(Range(frames)), frames # <<>>, StackMeans(frames)
  PROVE  StackMeans(Front(frames))
<1> DEFINE front == Front(frames)
           n == Len(frames)
<1>1. /\ Len(front) = n - 1 /\ n \in Nat \ {0}
      /\ \A k \in 1..n - 1 : front[k] = frames[k]
  BY SeqFront
<1> HIDE DEF front, n
<1>2. \A d \in 1..n - 1 : d \in 1..n
  BY <1>1
<1>3. \A d \in 1..(n - 1) - 1 : d \in 1..n - 1
  BY <1>1
<1>4. \A d \in 1..Len(front) : FrameMeans(front[d])
  BY <1>1, <1>2 DEF StackMeans, n
<1>5. \A d \in 1..Len(front) - 1 : ~Unknown(front[d].node)
  BY <1>1, <1>3 DEF StackMeans, n
<1> QED BY <1>4, <1>5 DEF StackMeans, front

LEMMA NoFrameMeans == StackMeans(<<>>)
<1>1. Len(<<>>) = 0
  OBVIOUS
<1> QED BY <1>1 DEF StackMeans

-----------------------------------------------------------------------------
(* Returning the value a node means.                                           *)
LEMMA ReturnMeans ==
  ASSUME Fits, Means, status = "Running",
         NEW v, Meaning(Top.node) = Ok(v), Clean(Top.node), Return(v)
  PROVE  Means'
<1>1. stack # <<>> /\ Len(stack) \in Nat \ {0} /\ StackFits(stack) /\ WellFormed(prog)
  BY RunningTop DEF Fits
<1>2. Settled /\ fault' = fault /\ StackMeans(stack) /\ stack \in Seq(Range(stack))
  BY <1>1 DEF Return, Means, StackFits
<1>3. CASE Len(stack) = 1
  <2>1. Top.node = Root
    BY <1>1, <1>3 DEF Top, StackFits
  <2>2. stack' = <<>> /\ status' = "Value" /\ result' = v
    BY <1>3 DEF Return
  <2> QED BY <1>2, <2>1, <2>2, NoFrameMeans, StepMeans
<1>4. CASE Len(stack) # 1
  <2> DEFINE under == Front(stack)
             last == Last(under)
             frame == Absorb(last, v)
  <2>1. Len(stack) > 1
    <3>1. \A n \in Nat \ {0} : n # 1 => n > 1
      OBVIOUS
    <3> QED BY <1>1, <1>4, <3>1, Zenon
  <2>2. /\ StackFits(under) /\ under # <<>>
        /\ last = under[Len(under)] /\ FrameFits(last)
        /\ last.next <= Len(prog[last.node].kids)
        /\ Top.node = prog[last.node].kids[last.next]
    BY <1>1, <2>1, PopFits DEF Top
  <2>3. StackMeans(under) /\ under \in Seq(Range(under)) /\ Len(under) \in Nat \ {0}
    BY <1>1, <1>2, <2>2, PopMeans, LenProperties, EmptySeq DEF StackFits
  <2>4. FrameMeans(last)
    BY <2>2, <2>3 DEF StackMeans
  <2>5. Top.node = Kid(last.node, last.next) /\ prog[Top.node].kind # "NameHop"
    <3>1. /\ Len(stack) - 1 \in 1..Len(stack) - 1 /\ (Len(stack) - 1) + 1 = Len(stack)
          /\ Len(stack) - 1 + 1 = Len(stack)
      BY <1>1, <2>1
    <3>2. prog[stack[(Len(stack) - 1) + 1].node].kind # "NameHop"
      BY <1>1, <3>1 DEF StackFits
    <3> QED BY <2>2, <3>1, <3>2 DEF Kid, Top
  <2>6. Takes(last, v)
    BY <2>5 DEF Takes
  <2>7. FrameMeans(frame)
    BY <1>1, <2>2, <2>4, <2>6, AbsorbMeans
  <2>8. stack' = Append(Front(under), frame) /\ status' = status /\ result' = result
    BY <1>4 DEF Return
  <2> HIDE DEF under, last, frame
  <2>9. StackMeans(stack')
    BY <2>2, <2>3, <2>7, <2>8, ReplaceMeans
  <2> QED BY <1>2, <2>8, <2>9, StepMeans
<1> QED BY <1>3, <1>4

(* The top frame moving on by itself.                                          *)
LEMMA AdvanceMeans ==
  ASSUME Fits, Means, status = "Running",
         NEW frame, FrameMeans(frame),
         stack' = Append(Front(stack), frame),
         UNCHANGED <<status, result, fault>>, Settled
  PROVE  Means'
<1>1. stack # <<>> /\ stack \in Seq(Range(stack)) /\ StackMeans(stack)
  BY RunningTop DEF Fits, StackFits, Means
<1>2. StackMeans(stack')
  BY <1>1, ReplaceMeans
<1> QED BY <1>2, StepMeans

-----------------------------------------------------------------------------
(* The nodes below a node that is below another are below that one.            *)
LEMMA BelowNested ==
  ASSUME WellFormed(prog)
  PROVE  \A i \in 1..Root : \A j \in Below(i) : j \in 1..Root /\ Below(j) \subseteq Below(i)
<1> DEFINE Nested(i) == \A j \in Below(i) : j \in 1..Root /\ Below(j) \subseteq Below(i)
           S == {m \in 0..Root : \A i \in 1..m : Nested(i)}
<1>1. Root \in Nat /\ \A i \in 1..Root : \A k \in 1..Arity(i) : Kid(i, k) \in 1..i - 1
  BY TreeShape DEF Root, Arity, Kid
<1>2. 0 \in S
  BY <1>1
<1>3. ASSUME NEW m \in 0..Root - 1, m \in S
      PROVE  m + 1 \in S
  <2>1. m + 1 \in 1..Root /\ m + 1 \in 0..Root /\ \A i \in 1..m + 1 : i = m + 1 \/ i \in 1..m
    BY <1>1
  <2>2. Below(m + 1) = {m + 1} \cup UNION {Below(Kid(m + 1, k)) : k \in 1..Arity(m + 1)}
    BY <2>1, BelowAt
  <2>3. \A k \in 1..Arity(m + 1) : Kid(m + 1, k) \in 1..m
    <3>1. (m + 1) - 1 = m
      OBVIOUS
    <3> QED BY <1>1, <2>1, <3>1
  <2>4. \A i \in 1..m : Nested(i)
    BY <1>3
  <2>5. \A k \in 1..Arity(m + 1) : Nested(Kid(m + 1, k)) /\ Below(Kid(m + 1, k)) \subseteq Below(m + 1)
    BY <2>2, <2>3, <2>4
  <2>6. Nested(m + 1)
    BY <2>1, <2>2, <2>5
  <2> HIDE DEF Nested
  <2>7. \A i \in 1..m + 1 : Nested(i)
    BY <2>1, <2>4, <2>6
  <2> QED BY <2>1, <2>7
<1>4. Root \in S
  <2> HIDE DEF S
  <2>1. Root \in Nat /\ 0 \in S /\ \A m \in 0..Root - 1 : m \in S => m + 1 \in S
    BY <1>1, <1>2, <1>3
  <2>2. \A m \in 0..Root : m \in S
    BY <2>1, Induction, Zenon
  <2> QED BY <1>1, <2>2
<1> QED BY <1>4

LEMMA BelowKids ==
  ASSUME WellFormed(prog), NEW i \in 1..Root
  PROVE  /\ i \in Below(i)
         /\ \A k \in 1..Arity(i) : Kid(i, k) \in Below(i) /\ Below(Kid(i, k)) \subseteq Below(i)
<1>1. \A k \in 1..Arity(i) : Kid(i, k) \in 1..Root
  BY Tree DEF Kid, Arity
<1> QED BY <1>1, BelowAt

-----------------------------------------------------------------------------
(* The frames of a stack are a path down from the root: the top node is below  *)
(* the operand every other frame is at, and ...                                *)
LEMMA PathDown ==
  ASSUME WellFormed(prog), NEW frames, StackFits(frames), frames # <<>>,
         NEW n, n = Len(frames), NEW top, top = frames[n].node
  PROVE  /\ \A d \in 1..n : frames[d].node \in 1..Root /\ frames[d].node \in Below(Root)
         /\ \A d \in 1..n : top \in Below(frames[d].node)
         /\ \A d \in 1..n - 1 : /\ frames[d].next \in 1..Arity(frames[d].node)
                                /\ frames[d + 1].node = Kid(frames[d].node, frames[d].next)
                                /\ top \in Below(Kid(frames[d].node, frames[d].next))
<1>1. n \in Nat \ {0} /\ frames[1].node = Root
  BY LenProperties, EmptySeq DEF StackFits
<1>2. \A d \in 1..n : frames[d].node \in 1..Root
  BY DEF StackFits, FrameFits, FrameTyped, Root
<1>3. \A d \in 1..n - 1 : d \in 1..n /\ d + 1 \in 1..n
  BY <1>1
<1>4. \A d \in 1..n - 1 : /\ frames[d].next \in 1..Arity(frames[d].node)
                          /\ frames[d + 1].node = Kid(frames[d].node, frames[d].next)
  <2>1. SUFFICES ASSUME NEW d \in 1..n - 1
                 PROVE  /\ frames[d].next \in 1..Arity(frames[d].node)
                        /\ frames[d + 1].node = Kid(frames[d].node, frames[d].next)
    OBVIOUS
  <2>2. FrameTyped(frames[d])
    BY <1>3 DEF StackFits, FrameFits
  <2>3. /\ frames[d].next <= Arity(frames[d].node)
        /\ frames[d + 1].node = Kid(frames[d].node, frames[d].next)
    BY DEF StackFits, Arity, Kid
  <2>4. frames[d].next \in 1..Arity(frames[d].node) + 1 /\ Arity(frames[d].node) \in Nat
    BY <1>2, <1>3, <2>2, Tree DEF FrameTyped, Arity
  <2> QED BY <2>3, <2>4
<1>5. \A d \in 1..n - 1 : Below(frames[d + 1].node) \subseteq Below(frames[d].node)
  BY <1>2, <1>3, <1>4, BelowKids
<1>6. \A d \in 1..n : frames[d].node \in Below(frames[d].node)
  BY <1>2, BelowKids
<1>7. \A d \in 1..n : frames[d].node \in Below(Root)
  <2> DEFINE S == {m \in 0..n : m = 0 \/ Below(frames[m].node) \subseteq Below(Root)}
  <2>1. 0 \in S
    BY <1>1
  <2>2. ASSUME NEW m \in 0..n - 1, m \in S PROVE m + 1 \in S
    <3>1. CASE m = 0
      BY <1>1, <3>1
    <3>2. CASE m # 0
      <4>1. m \in 1..n - 1 /\ m + 1 \in 0..n
        BY <1>1, <3>2
      <4>2. Below(frames[m + 1].node) \subseteq Below(Root)
        BY <1>5, <2>2, <3>2, <4>1
      <4> QED BY <4>1, <4>2
    <3> QED BY <3>1, <3>2
  <2> HIDE DEF S
  <2>3. n \in Nat /\ 0 \in S /\ \A m \in 0..n - 1 : m \in S => m + 1 \in S
    BY <1>1, <2>1, <2>2
  <2>4. \A m \in 0..n : m \in S
    BY <2>3, Induction, Zenon
  <2>5. \A d \in 1..n : d \in 0..n /\ d # 0
    BY <1>1
  <2> QED BY <1>6, <2>4, <2>5 DEF S
<1>8. \A d \in 1..n : top \in Below(frames[d].node)
  <2> DEFINE S == {m \in 0..n - 1 : top \in Below(frames[n - m].node)}
  <2>0. n - 1 \in Nat /\ n - 0 = n /\ n \in 1..n
    BY <1>1
  <2>1. 0 \in S
    BY <1>6, <2>0
  <2>2. ASSUME NEW m \in 0..(n - 1) - 1, m \in S PROVE m + 1 \in S
    <3>1. /\ n - (m + 1) \in 1..n - 1 /\ (n - (m + 1)) + 1 = n - m
          /\ m + 1 \in 0..n - 1
      BY <1>1
    <3>2. Below(frames[n - m].node) \subseteq Below(frames[n - (m + 1)].node)
      BY <1>5, <3>1
    <3> QED BY <2>2, <3>1, <3>2
  <2> HIDE DEF S
  <2>3. \A m \in 0..n - 1 : m \in S
    BY <2>0, <2>1, <2>2, Induction, Zenon
  <2>5. \A d \in 1..n : n - d \in 0..n - 1 /\ n - (n - d) = d
    BY <1>1
  <2> QED BY <2>3, <2>5 DEF S
<1>9. \A d \in 1..n - 1 : top \in Below(Kid(frames[d].node, frames[d].next))
  BY <1>3, <1>4, <1>8
<1> QED BY <1>2, <1>4, <1>7, <1>8, <1>9

(* ... every node is on the path or beside it, below an operand of some frame  *)
(* the frame has passed or not yet come to, or below the top frame.            *)
Beside(frames, i) ==
  \E d \in 1..Len(frames) - 1 :
    \/ i = frames[d].node
    \/ \E k \in 1..Arity(frames[d].node) :
         k # frames[d].next /\ i \in Below(Kid(frames[d].node, k))

LEMMA AllAround ==
  ASSUME WellFormed(prog), NEW frames, StackFits(frames), frames # <<>>,
         NEW i \in Below(Root)
  PROVE  Beside(frames, i) \/ i \in Below(frames[Len(frames)].node)
<1> DEFINE n == Len(frames)
           On(d) == i \in Below(frames[d].node)
           S == {m \in 0..n - 1 : Beside(frames, i) \/ On(m + 1)}
<1>1. n \in Nat \ {0} /\ frames[1].node = Root
  BY LenProperties, EmptySeq DEF StackFits
<1>2. 0 \in S
  BY <1>1
<1>3. ASSUME NEW m \in 0..(n - 1) - 1, m \in S PROVE m + 1 \in S
  <2> DEFINE d == m + 1
             node == frames[d].node
  <2>1. d \in 1..n - 1 /\ d \in 1..n /\ d \in 0..n - 1
    BY <1>1
  <2>2. /\ node \in 1..Root /\ frames[d].next \in 1..Arity(node)
        /\ frames[d + 1].node = Kid(node, frames[d].next)
    BY <2>1, PathDown
  <2>3. Beside(frames, i) \/ i \in Below(node)
    BY <1>3
  <2>4. ASSUME i \in Below(node), ~Beside(frames, i)
        PROVE  i \in Below(frames[d + 1].node)
    <3>1. i # node /\ \A k \in 1..Arity(node) : k # frames[d].next => i \notin Below(Kid(node, k))
      BY <2>1, <2>4 DEF Beside
    <3>2. Below(node) = {node} \cup UNION {Below(Kid(node, k)) : k \in 1..Arity(node)}
      BY <2>2, BelowAt
    <3> QED BY <2>2, <2>4, <3>1, <3>2
  <2> QED BY <2>1, <2>3, <2>4
<1>4. n - 1 \in Nat /\ n - 1 \in 0..n - 1 /\ (n - 1) + 1 = n
  BY <1>1
<1> HIDE DEF S
<1>5. \A m \in 0..n - 1 : m \in S
  BY <1>2, <1>3, <1>4, Induction, Zenon
<1> HIDE DEF n
<1>6. Beside(frames, i) \/ On((n - 1) + 1)
  BY <1>4, <1>5 DEF S
<1>7. Beside(frames, i) \/ On(n)
  BY <1>4, <1>6
<1> QED BY <1>7 DEF n

-----------------------------------------------------------------------------
(* The nodes that are wrong and their order, in the evaluator's own words.     *)
Before(i, j) ==
  \/ i = j
  \/ i \in Below(j) /\ ~Unknown(j)
  \/ j \in Below(i) /\ Unknown(i)
  \/ \E a \in Below(Root) : \E k, l \in 1..Arity(a) :
       k < l /\ i \in Below(Kid(a, k)) /\ j \in Below(Kid(a, l))

LEMMA WrongAt == Lazy(prog, ctx)!Wrong = UNION {Found(i) : i \in Below(Root)}
BY DEF Lazy!Wrong, Found, Below, Root

LEMMA BeforeAt ==
  ASSUME NEW i, NEW j
  PROVE  Lazy(prog, ctx)!GoesFirst(i, j) <=> Before(i, j)
<1>1. \A a : Lazy(prog, ctx)!UnknownClass(a) <=> Unknown(a)
  BY DEF Lazy!UnknownClass, Unknown
<1> QED BY <1>1 DEF Lazy!GoesFirst, Before, Below, Root, Lazy!Kids, Lazy!Kid, Kid, Arity

(* What a node finds wrong is the node itself or one of its operands.          *)
LEMMA FoundBelow ==
  ASSUME WellFormed(prog), NEW i \in 1..Root
  PROVE  Found(i) \subseteq Below(i)
<1>1. CASE prog[i].kind = "PathExpr"
  BY <1>1, FoundAt, BelowKids
<1>2. CASE prog[i].kind # "PathExpr"
  BY <1>2, FoundAt, BelowKids
<1> QED BY <1>1, <1>2

(* Failing at something the top node finds wrong, when that comes before       *)
(* whatever else is wrong below the top node: it comes before everything that  *)
(* is wrong anywhere.                                                          *)
LEMMA FailMeans ==
  ASSUME Fits, Means, status = "Running",
         NEW why, NEW node, Fail(why, node),
         node \in Found(Top.node),
         \A i \in Below(Top.node) : \A w \in Found(i) : Before(node, w)
  PROVE  Means'
<1> DEFINE n == Len(stack)
           top == Top.node
<1>1. /\ WellFormed(prog) /\ StackFits(stack) /\ stack # <<>> /\ n \in Nat \ {0}
      /\ top \in 1..Root /\ StackMeans(stack)
  BY RunningTop DEF Fits, Means
<1>2. top = stack[n].node
  BY DEF Top
<1>3. /\ Settled /\ stack' = <<>> /\ status' = "Error" /\ fault'.node = node
  BY DEF Fail
<1> HIDE DEF top, n
<1>4. /\ \A d \in 1..n : /\ stack[d].node \in 1..Root /\ stack[d].node \in Below(Root)
                         /\ top \in Below(stack[d].node)
      /\ \A d \in 1..n - 1 : /\ stack[d].next \in 1..Arity(stack[d].node)
                             /\ stack[d + 1].node = Kid(stack[d].node, stack[d].next)
                             /\ top \in Below(Kid(stack[d].node, stack[d].next))
  BY <1>1, <1>2, PathDown DEF n
<1>5. /\ node \in Below(top) /\ top \in Below(Root)
      /\ \A i \in 1..Root : \A j \in Below(i) : j \in 1..Root /\ Below(j) \subseteq Below(i)
  <2>1. Found(top) \subseteq Below(top)
    BY <1>1, FoundBelow
  <2>2. n \in 1..n
    BY <1>1
  <2>3. \A i \in 1..Root : \A j \in Below(i) : j \in 1..Root /\ Below(j) \subseteq Below(i)
    BY <1>1, BelowNested
  <2> QED BY <1>2, <1>4, <2>1, <2>2, <2>3 DEF top
<1>6. Root \in 1..Root
  BY <1>1, Tree
<1>7. ASSUME NEW i \in Below(Root), NEW w \in Found(i)
      PROVE  Before(node, w)
  <2>1. i \in 1..Root /\ w \in Below(i)
    BY <1>1, <1>5, <1>6, FoundBelow
  <2>2. CASE i \in Below(top)
    BY <2>2 DEF top
  <2>3. ASSUME NEW d \in 1..n - 1, i = stack[d].node
        PROVE  Before(node, w)
    <3>1. d \in 1..n /\ ~Unknown(i) /\ FrameMeans(stack[d])
      <4>1. d \in 1..n
        BY <1>1
      <4> QED BY <1>1, <2>3, <4>1 DEF StackMeans, n
    <3>2. node \in Below(i)
      BY <1>4, <1>5, <2>1, <2>3, <3>1
    <3>3. CASE prog[i].kind # "PathExpr"
      <4>1. w = i
        BY <1>1, <2>1, <3>3, FoundAt
      <4> QED BY <3>1, <3>2, <4>1 DEF Before
    <3>4. CASE prog[i].kind = "PathExpr"
      <4> DEFINE at == stack[d].next
      <4>1. PICK k \in 1..Arity(i) : w = Kid(i, k) /\ ctx.strict /\ Missing(i, k)
        BY <1>1, <2>1, <3>4, FoundAt
      <4>2. /\ at \in 1..Arity(i) /\ node \in Below(Kid(i, at))
            /\ prog[Kid(i, at)].kind # "NameHop"
        <5>1. prog[stack[d + 1].node].kind # "NameHop"
          BY <1>1 DEF StackFits, n
        <5>2. top \in Below(Kid(i, at)) /\ Kid(i, at) \in 1..Root
          BY <1>1, <1>4, <2>1, <2>3, Tree DEF Kid, Arity
        <5> QED BY <1>4, <1>5, <2>3, <5>1, <5>2
      <4>3. \A l \in 1..at - 1 : ~(ctx.strict /\ Missing(i, l))
        BY <2>3, <3>1, <3>4 DEF FrameMeans, PathMeans
      <4>4. Arity(i) \in Nat
        BY <1>1, <2>1, OpValsSeq
      <4> HIDE DEF at
      <4>5. k # at
        BY <4>1, <4>2 DEF Missing
      <4>6. k \notin 1..at - 1
        BY <4>1, <4>3
      <4>7. at < k
        BY <4>2, <4>4, <4>5, <4>6
      <4>8. w \in Below(Kid(i, k))
        <5>1. Kid(i, k) \in 1..Root
          BY <1>1, <2>1, Tree DEF Kid, Arity
        <5> QED BY <1>1, <4>1, <5>1, BelowKids
      <4> QED BY <4>2, <4>7, <4>8 DEF Before
    <3> QED BY <3>3, <3>4
  <2>4. ASSUME NEW d \in 1..n - 1, NEW k \in 1..Arity(stack[d].node), k # stack[d].next,
               i \in Below(Kid(stack[d].node, k))
        PROVE  Before(node, w)
    <3> DEFINE a == stack[d].node
               at == stack[d].next
    <3>1. d \in 1..n
      BY <1>1
    <3>2. FrameMeans(stack[d]) /\ a \in 1..Root /\ a \in Below(Root)
      BY <1>1, <1>4, <3>1 DEF StackMeans, n
    <3>3. at \in 1..Arity(a) /\ Arity(a) \in Nat /\ Kid(a, k) \in 1..Root /\ Kid(a, at) \in 1..Root
      BY <1>1, <1>4, <3>2, Tree DEF Kid, Arity
    <3>4. k \notin 1..at - 1
      <4>1. SUFFICES ASSUME k \in 1..at - 1 PROVE FALSE
        OBVIOUS
      <4>2. Clean(Kid(a, k))
        BY <3>2, <4>1 DEF FrameMeans, Passed
      <4> QED BY <2>4, <4>2 DEF Clean
    <3>5. at < k
      BY <2>4, <3>3, <3>4
    <3>6. node \in Below(Kid(a, at)) /\ w \in Below(Kid(a, k))
      BY <1>4, <1>5, <2>1, <2>4, <3>3
    <3> HIDE DEF a, at
    <3> QED BY <2>4, <3>2, <3>3, <3>5, <3>6 DEF Before, a
  <2>5. Beside(stack, i) \/ i \in Below(top)
    BY <1>1, <1>2, AllAround DEF n
  <2> QED BY <2>2, <2>3, <2>4, <2>5 DEF Beside, n
<1>8. First(node)
  <2>1. node \in Lazy(prog, ctx)!Wrong
    BY <1>5, WrongAt DEF top
  <2>2. \A w \in Lazy(prog, ctx)!Wrong : Lazy(prog, ctx)!GoesFirst(node, w)
    BY <1>7, WrongAt, BeforeAt
  <2> QED BY <2>1, <2>2 DEF First
<1> QED BY <1>3, <1>8, NoFrameMeans, StepMeans

-----------------------------------------------------------------------------
(* What is known of the top frame while an evaluation runs.                    *)
LEMMA TopMeans ==
  ASSUME Fits, Means, status = "Running"
  PROVE  /\ WellFormed(prog) /\ FrameFits(Top) /\ FrameMeans(Top) /\ Top.node \in 1..Root
         /\ Top.next \in 1..Arity(Top.node) + 1 /\ Arity(Top.node) \in Nat
         /\ Here = prog[Top.node] /\ Arity(Top.node) = Len(Here.kids) /\ ArityOk(Here)
<1>1. Len(stack) \in 1..Len(stack)
  BY RunningTop
<1>2. FrameMeans(Top)
  BY <1>1 DEF Means, StackMeans, Top
<1> QED BY <1>2, RunningTop DEF Fits, Here, Arity

(* Failing at a node whose operands are all right.                             *)
LEMMA FailReady ==
  ASSUME Fits, Means, status = "Running", Top.next > Len(Here.kids),
         Found(Top.node) = {Top.node}, NEW why, Fail(why, Top.node)
  PROVE  Means'
<1> DEFINE top == Top.node
<1>1. /\ WellFormed(prog) /\ FrameMeans(Top) /\ top \in 1..Root
      /\ Top.next = Arity(top) + 1 /\ Arity(top) \in Nat
  BY TopMeans, ReadyAt DEF Here
<1>2. \A k \in 1..Arity(top) : Clean(Kid(top, k))
  <2>1. \A k \in 1..Arity(top) : k \in 1..Top.next - 1
    BY <1>1
  <2> QED BY <1>1, <2>1 DEF FrameMeans, Passed
<1>3. \A i \in Below(top) : \A w \in Found(i) : Before(top, w)
  <2>1. \A i \in Below(top) : i = top \/ Found(i) = {}
    BY <1>1, <1>2, BelowAt DEF Clean
  <2> QED BY <2>1 DEF Before
<1> QED BY <1>3, FailMeans

(* A node that needs all its operands returns what it makes of them, or fails. *)
LEMMA ReturnOrFailMeans ==
  ASSUME Fits, Means, status = "Running", Top.next > Len(Here.kids),
         Here.kind \notin {"NameHop", "PathExpr", "Ternary", "Logical"}, ~Unknown(Top.node),
         NEW outcome, NEW why, ReturnOrFail(outcome, why),
         Lazy(prog, ctx)!Apply(Top.node, OpVals(Top.node)) = Answer(outcome)
  PROVE  Means'
<1>1. /\ Meaning(Top.node) = Answer(outcome)
      /\ Answer(outcome).ok => Clean(Top.node)
      /\ ~Answer(outcome).ok => Found(Top.node) = {Top.node}
  BY TopMeans, ReadyEager DEF Here
<1>2. CASE outcome.ok
  <2>1. Answer(outcome) = Ok(outcome.val) /\ Answer(outcome).ok
    BY <1>2, OkValue DEF Answer
  <2>2. Return(outcome.val)
    BY <1>2 DEF ReturnOrFail
  <2> QED BY <1>1, <2>1, <2>2, ReturnMeans
<1>3. CASE ~outcome.ok
  <2>1. ~Answer(outcome).ok
    BY <1>3, OkValue DEF Answer
  <2>2. Fail(why, Top.node)
    BY <1>3 DEF ReturnOrFail
  <2> QED BY <1>1, <2>1, <2>2, FailReady
<1> QED BY <1>2, <1>3

LEMMA ReturnEager ==
  ASSUME Fits, Means, status = "Running", Top.next > Len(Here.kids),
         Here.kind \notin {"NameHop", "PathExpr", "Ternary", "Logical"}, ~Unknown(Top.node),
         NEW v, Return(v),
         Lazy(prog, ctx)!Apply(Top.node, OpVals(Top.node)) = Ok(v)
  PROVE  Means'
<1>1. Meaning(Top.node) = Ok(v) /\ Clean(Top.node)
  BY TopMeans, ReadyEager, OkValue DEF Here
<1> QED BY <1>1, ReturnMeans

(* A node that does not need all its operands finds nothing wrong itself.      *)
LEMMA FoundNothing ==
  ASSUME WellFormed(prog), NEW i \in 1..Root, prog[i].kind \in {"Ternary", "Logical"}
  PROVE  Found(i) = {}
<1>1. ~Lazy(prog, ctx)!Eager(i)
  BY DEF Lazy!Eager
<1> QED BY <1>1, FoundAt DEF Unknown

(* Sums and comparisons answer with a value or with the error.                 *)
LEMMA Answers ==
  ASSUME NEW op, NEW a, NEW b
  PROVE  /\ AddOperands(a, b) = Answer(AddOperands(a, b))
         /\ ApplyComparison(op, a, b) = Answer(ApplyComparison(op, a, b))
<1>1. \A v : Ok(v) = Answer(Ok(v)) /\ Err = Answer(Err)
  BY OkValue DEF Answer
<1>2. AddOperands(a, b) = Err \/ \E v : AddOperands(a, b) = Ok(v)
  BY DEF AddOperands
<1>3. CompareOperands(op, a, b) = Err \/ \E v : CompareOperands(op, a, b) = Ok(v)
  BY DEF CompareOperands
<1>4. ApplyComparison(op, a, b) = Err \/ \E v : ApplyComparison(op, a, b) = Ok(v)
  BY <1>3 DEF ApplyComparison
<1> QED BY <1>1, <1>2, <1>4

(* The value of a path so far, and a hop that strict mode refuses.             *)
LEMMA PathValueAt ==
  ASSUME Fits, Means, status = "Running", Here.kind = "PathExpr"
  PROVE  /\ PathValue = PathOf(Top)
         /\ Walked(Top.node)[Top.next - 1] = Ok(PathValue)
         /\ Top.next <= Len(Here.kids) /\ Operand.kind = "NameHop" =>
              (Refused <=> ctx.strict /\ Missing(Top.node, Top.next))
<1>1. PathValue = PathOf(Top)
  BY DEF PathValue, PathOf, Here
<1>2. Walked(Top.node)[Top.next - 1] = Ok(PathValue)
  BY <1>1, TopMeans DEF FrameMeans, PathMeans
<1>3. ASSUME Operand.kind = "NameHop"
      PROVE  Refused <=> ctx.strict /\ Missing(Top.node, Top.next)
  <2>1. Operand = prog[Kid(Top.node, Top.next)]
    BY DEF Operand, Kid, Here
  <2>2. Walked(Top.node)[Top.next - 1].ok /\ Walked(Top.node)[Top.next - 1].val = PathValue
    BY <1>2, OkValue
  <2> QED BY <1>3, <2>1, <2>2 DEF Refused, Missing
<1> QED BY <1>1, <1>2, <1>3

-----------------------------------------------------------------------------
(* Each method returns what its node means, or fails where that is wrong.      *)
LEMMA EvalOperandMeans == Fits /\ Means /\ EvalOperand => Means'
<1> SUFFICES ASSUME Fits, Means, EvalOperand PROVE Means'
  OBVIOUS
<1> DEFINE i == Here.kids[Top.next]
<1>1. /\ status = "Running" /\ Top.next <= Len(Here.kids) /\ HasClass
      /\ stack' = Append(stack, Frame(i))
      /\ UNCHANGED <<status, result, fault>> /\ Settled
  BY DEF EvalOperand, AtOperand
<1>2. /\ WellFormed(prog) /\ Top.node \in 1..Root /\ Top.next \in 1..Len(Here.kids)
      /\ StackMeans(stack) /\ stack \in Seq(Range(stack)) /\ stack # <<>>
  BY <1>1, TopMeans, RunningTop DEF Means, Fits, StackFits
<1>3. i \in 1..Root
  BY <1>2, Tree DEF Here
<1>4. FrameMeans(Frame(i)) /\ ~Unknown(stack[Len(stack)].node)
  BY <1>1, <1>2, <1>3, NewFrameMeans DEF Unknown, HasClass, Here, Top
<1>5. StackMeans(stack')
  BY <1>1, <1>2, <1>4, PushMeans
<1> QED BY <1>1, <1>5, StepMeans

LEMMA UnknownClassMeans == Fits /\ Means /\ UnknownClass => Means'
<1> SUFFICES ASSUME Fits, Means, UnknownClass PROVE Means'
  OBVIOUS
<1>1. status = "Running" /\ ~HasClass /\ Fail("class", Top.node)
  BY DEF UnknownClass
<1>2. WellFormed(prog) /\ Top.node \in 1..Root /\ Root \in 1..Root
  BY <1>1, TopMeans, Tree
<1>3. Unknown(Top.node) /\ prog[Top.node].kind # "PathExpr"
  BY <1>1 DEF HasClass, Unknown, Here
<1>4. Found(Top.node) = {Top.node}
  BY <1>2, <1>3, FoundAt
<1>5. \A i \in Below(Top.node) : \A w \in Found(i) : w \in Below(Top.node)
  BY <1>2, BelowNested, FoundBelow
<1>6. \A i \in Below(Top.node) : \A w \in Found(i) : Before(Top.node, w)
  BY <1>3, <1>5 DEF Before
<1> QED BY <1>1, <1>4, <1>6, FailMeans

LEMMA NameHopMeans == Fits /\ Means /\ NameHop => Means'
<1> SUFFICES ASSUME Fits, Means, NameHop PROVE Means'
  OBVIOUS
<1> DEFINE v == Lookup(PathValue, Operand.name)
<1>1. /\ status = "Running" /\ Top.next <= Len(Here.kids)
      /\ Operand.kind = "NameHop" /\ ~Refused
      /\ stack' = Append(Front(stack), Absorb(Top, v))
      /\ UNCHANGED <<status, result, fault>> /\ Settled
  BY DEF NameHop, AtOperand
<1>2. /\ WellFormed(prog) /\ FrameFits(Top) /\ FrameMeans(Top) /\ Top.node \in 1..Root
      /\ Top.next \in 1..Len(Here.kids)
  BY <1>1, TopMeans
<1>3. Operand = prog[Kid(Top.node, Top.next)]
  BY DEF Operand, Kid, Here
<1>4. Here.kind = "PathExpr"
  BY <1>1, <1>2, Tree DEF Operand, Here
<1>5. PathValue = PathOf(Top) /\ ~(ctx.strict /\ Missing(Top.node, Top.next))
  BY <1>1, <1>4, PathValueAt
<1>6. Takes(Top, v)
  BY <1>1, <1>3, <1>5 DEF Takes
<1> HIDE DEF v
<1>7. FrameMeans(Absorb(Top, v))
  BY <1>1, <1>2, <1>6, AbsorbMeans DEF Here
<1> QED BY <1>1, <1>7, AdvanceMeans

LEMMA MissingPropertyMeans == Fits /\ Means /\ MissingProperty => Means'
<1> SUFFICES ASSUME Fits, Means, MissingProperty PROVE Means'
  OBVIOUS
<1> DEFINE i == Top.node
           at == Top.next
           node == Kid(i, at)
<1>1. /\ status = "Running" /\ at <= Len(Here.kids)
      /\ Operand.kind = "NameHop" /\ Refused /\ Fail("missing", node)
  BY DEF MissingProperty, AtOperand, Kid, Here
<1>2. /\ WellFormed(prog) /\ FrameMeans(Top) /\ i \in 1..Root
      /\ at \in 1..Arity(i) /\ Arity(i) \in Nat /\ Here = prog[i]
  BY <1>1, TopMeans
<1>3. Operand = prog[node]
  BY DEF Operand, Kid, Here
<1>4. Here.kind = "PathExpr"
  <2>1. Top.next \in 1..Len(Here.kids)
    BY <1>2 DEF Arity
  <2> QED BY <1>1, <1>2, <2>1, Tree DEF Operand, Here
<1>5. ctx.strict /\ Missing(i, at)
  BY <1>1, <1>4, PathValueAt
<1>6. /\ prog[i].kind = "PathExpr"
      /\ Found(i) = {Kid(i, k) : k \in {k \in 1..Arity(i) : ctx.strict /\ Missing(i, k)}}
  BY <1>2, <1>4, FoundAt
<1>7. node \in Found(i)
  BY <1>2, <1>5, <1>6
<1>8. \A k \in 1..Arity(i) : Kid(i, k) \in 1..Root
  BY <1>2, Tree DEF Kid, Arity
<1>9. node \in Below(node) /\ \A k \in 1..Arity(i) : Kid(i, k) \in Below(Kid(i, k))
  BY <1>2, <1>8, BelowKids
<1>10. i \in Below(Root)
  <2>1. stack # <<>> /\ Len(stack) \in 1..Len(stack) /\ StackFits(stack)
    BY <1>1, RunningTop DEF Fits
  <2> QED BY <1>2, <2>1, PathDown DEF Top
<1>11. \A k \in 1..at - 1 : Clean(Kid(i, k)) /\ ~(ctx.strict /\ Missing(i, k))
  BY <1>2, <1>6 DEF FrameMeans, Passed, PathMeans
<1>12. Clean(node)
  BY <1>1, <1>2, <1>3, <1>8, HopClean
<1> HIDE DEF i, at, node
<1>13. ASSUME NEW k \in 1..Arity(i), NEW w \in Below(Kid(i, k)), at < k
       PROVE  Before(node, w)
  BY <1>2, <1>9, <1>10, <1>13 DEF Before, node
<1>14. \A k \in 1..Arity(i) : k = at \/ k \in 1..at - 1 \/ at < k
  BY <1>2
<1>15. ASSUME NEW w \in Found(i) PROVE Before(node, w)
  <2>1. PICK k \in 1..Arity(i) : w = Kid(i, k) /\ ctx.strict /\ Missing(i, k)
    BY <1>6
  <2>2. k = at \/ at < k
    BY <1>11, <1>14, <2>1
  <2>3. k = at => w = node
    BY <2>1 DEF node
  <2> QED BY <1>9, <1>13, <2>1, <2>2, <2>3 DEF Before
<1>16. ASSUME NEW k \in 1..Arity(i), NEW j \in Below(Kid(i, k)), NEW w \in Found(j)
       PROVE  Before(node, w)
  <2>1. ~Clean(Kid(i, k))
    BY <1>16 DEF Clean
  <2>2. at < k
    BY <1>11, <1>12, <1>14, <2>1 DEF node
  <2>3. w \in Below(Kid(i, k))
    <3>1. j \in 1..Root /\ Below(j) \subseteq Below(Kid(i, k))
      BY <1>2, <1>8, BelowNested
    <3> QED BY <1>2, <3>1, FoundBelow
  <2> QED BY <1>13, <2>2, <2>3
<1>17. \A j \in Below(i) : \A w \in Found(j) : Before(node, w)
  BY <1>2, <1>15, <1>16, BelowAt
<1> QED BY <1>1, <1>7, <1>17, FailMeans DEF i

LEMMA PathExprMeans == Fits /\ Means /\ PathExpr => Means'
<1> SUFFICES ASSUME Fits, Means, PathExpr PROVE Means'
  OBVIOUS
<1> DEFINE i == Top.node
<1>1. /\ status = "Running" /\ Here.kind = "PathExpr" /\ Top.next > Len(Here.kids)
      /\ Return(PathValue)
  BY DEF PathExpr, Ready
<1>2. /\ WellFormed(prog) /\ FrameFits(Top) /\ FrameMeans(Top) /\ i \in 1..Root
      /\ Top.next > Len(prog[i].kids) /\ Here = prog[i]
  BY <1>1, TopMeans
<1>3. Top.next = Arity(i) + 1 /\ Arity(i) \in Nat
  BY <1>2, ReadyAt
<1>4. Meaning(i) = Ok(PathValue)
  <2>1. Walked(i)[Arity(i)] = Ok(PathValue)
    BY <1>1, <1>3, PathValueAt
  <2> QED BY <1>1, <1>2, <2>1, ReferenceMeans
<1>5. Found(i) = {}
  <2>1. \A k \in 1..Arity(i) : ~(ctx.strict /\ Missing(i, k))
    BY <1>1, <1>2, <1>3 DEF FrameMeans, PathMeans
  <2> QED BY <1>1, <1>2, <2>1, FoundAt
<1>6. Clean(i)
  BY <1>2, <1>5, ReadyClean
<1> QED BY <1>1, <1>4, <1>6, ReturnMeans

LEMMA ClassCallMeans == Fits /\ Means /\ ClassCall => Means'
<1> SUFFICES ASSUME Fits, Means, ClassCall PROVE Means'
  OBVIOUS
<1> DEFINE i == Top.node
           args == IF Top.vals = <<>> THEN <<>> ELSE SpreadArgs(Top.vals[1])
<1>1. /\ status = "Running" /\ Here.kind = "ClassCall" /\ Top.next > Len(Here.kids)
      /\ HasClass /\ ReturnOrFail(CallClass(Here, args), "call")
  BY DEF ClassCall, Ready
<1>2. /\ WellFormed(prog) /\ FrameFits(Top) /\ FrameMeans(Top) /\ i \in 1..Root
      /\ Top.next > Len(prog[i].kids) /\ Here = prog[i]
      /\ Arity(i) \in Nat /\ Arity(i) <= 1
  BY <1>1, TopMeans DEF ArityOk
<1>3. Top.vals = OpVals(i) /\ Len(OpVals(i)) = Arity(i) /\ OpVals(i) \in Seq(Range(OpVals(i)))
  BY <1>1, <1>2, ReadyPlain, OpValsSeq
<1>4. args = Spreads(OpVals(i))[Len(OpVals(i))]
  <2>1. CASE Arity(i) = 0
    <3>1. OpVals(i) = <<>>
      BY <1>3, <2>1, EmptySeq
    <3>2. Spreads(OpVals(i))[0] = <<>>
      BY <1>2, <1>3, SpreadsAt
    <3> QED BY <1>3, <2>1, <3>1, <3>2
  <2>2. CASE Arity(i) = 1
    <3>0. Len(<<>>) = 0
      OBVIOUS
    <3>01. \A s : Len(s) = 1 => s # <<>>
      BY ONLY <3>0
    <3>02. Len(OpVals(i)) = 1
      BY <1>3, <2>2
    <3>1. OpVals(i) # <<>>
      BY ONLY <3>01, <3>02
    <3>2. Len(OpVals(i)) = 1 /\ Len(OpVals(i)) \in Nat /\ Len(OpVals(i)) >= 1
      BY <1>3, <2>2
    <3>3. Spreads(OpVals(i))[1] = SpreadArgs(OpVals(i)[1])
      BY <3>2, SpreadsAt
    <3> QED BY <1>3, <3>1, <3>2, <3>3
  <2> QED BY <1>2, <2>1, <2>2
<1>5. ~Unknown(i) /\ prog[i].op \in ctx.classes
  BY <1>1, <1>2 DEF Unknown, HasClass
<1> HIDE DEF args
<1>6. Lazy(prog, ctx)!Apply(i, OpVals(i)) = Answer(CallClass(Here, args))
  BY <1>1, <1>2, <1>4, <1>5, ApplyAt
<1> QED BY <1>1, <1>5, <1>6, ReturnOrFailMeans

LEMMA CommaListMeans == Fits /\ Means /\ CommaList => Means'
<1> SUFFICES ASSUME Fits, Means, CommaList PROVE Means'
  OBVIOUS
<1> DEFINE i == Top.node
           v == IF Top.vals = <<>> THEN Null ELSE Top.vals[1]
           vals == OpVals(i)
<1>1. /\ status = "Running" /\ Here.kind = "CommaList" /\ Top.next > Len(Here.kids)
      /\ Return(v)
  BY DEF CommaList, Ready
<1>2. /\ WellFormed(prog) /\ FrameFits(Top) /\ FrameMeans(Top) /\ i \in 1..Root
      /\ Top.next > Len(prog[i].kids) /\ Here = prog[i]
  BY <1>1, TopMeans
<1>3. Top.next = Arity(i) + 1 /\ Arity(i) \in Nat
  BY <1>2, ReadyAt
<1>4. Len(vals) = Arity(i) /\ vals \in Seq(Range(vals))
  BY <1>2, OpValsSeq
<1>5. Top.vals = IF Arity(i) = 0 THEN <<>> ELSE <<Joined(i, Arity(i))>>
  <2>1. Top.vals = IF Top.next = 1 THEN <<>> ELSE <<Joined(i, Top.next - 1)>>
    BY <1>1, <1>2 DEF FrameMeans, ListMeans
  <2> QED BY <1>3, <2>1
<1>6. v = IF Arity(i) = 0 THEN Null ELSE Joined(i, Arity(i))
  BY <1>5
<1>7. v = IF vals = <<>> THEN Null ELSE IF Len(vals) = 1 THEN vals[1] ELSE Tuple(Spreads(vals)[Len(vals)])
  <2>1. vals = <<>> <=> Arity(i) = 0
    BY <1>4, EmptySeq
  <2> QED BY <1>4, <1>6, <2>1 DEF Joined
<1> HIDE DEF v
<1>8. Lazy(prog, ctx)!Apply(i, OpVals(i)) = Ok(v)
  BY <1>1, <1>2, <1>7, ApplyAt
<1>9. ~Unknown(i)
  BY <1>1, <1>2 DEF Unknown
<1> QED BY <1>1, <1>8, <1>9, ReturnEager

LEMMA TernaryMeans == Fits /\ Means /\ Ternary => Means'
<1> SUFFICES ASSUME Fits, Means, Ternary PROVE Means'
  OBVIOUS
<1> DEFINE i == Top.node
           v == IF Truthy(Top.vals[1]) THEN Top.vals[2] ELSE Top.vals[3]
<1>1. /\ status = "Running" /\ Here.kind = "Ternary" /\ Top.next > Len(Here.kids)
      /\ Return(v)
  BY DEF Ternary, Ready
<1>2. /\ WellFormed(prog) /\ FrameFits(Top) /\ FrameMeans(Top) /\ i \in 1..Root
      /\ Top.next > Len(prog[i].kids) /\ Here = prog[i] /\ Arity(i) = 3
  BY <1>1, TopMeans DEF ArityOk
<1>3. Top.vals = OpVals(i) /\ \A k \in 1..3 : Meaning(Kid(i, k)) = Ok(OpVals(i)[k])
  BY <1>1, <1>2, ReadyPlain
<1>4. \A k \in 1..3 : Ops(i)[k] = Ok(OpVals(i)[k])
  BY <1>2, <1>3, OpsAt
<1>5. 1 \in 1..3 /\ 2 \in 1..3 /\ 3 \in 1..3
  OBVIOUS
<1>6. Ops(i)[1].ok /\ Ops(i)[1].val = Top.vals[1]
  BY <1>3, <1>4, <1>5, OkValue
<1>7. Meaning(i) = Ops(i)[IF Truthy(Top.vals[1]) THEN 2 ELSE 3]
  BY <1>1, <1>2, <1>6, ReferenceMeans
<1>8. Meaning(i) = Ok(v)
  BY <1>3, <1>4, <1>5, <1>7
<1>9. Clean(i)
  BY <1>1, <1>2, FoundNothing, ReadyClean
<1> HIDE DEF v
<1> QED BY <1>1, <1>8, <1>9, ReturnMeans

LEMMA FoldingMeans == Fits /\ Means /\ Fold => Means'
<1> SUFFICES ASSUME Fits, Means, Fold PROVE Means'
  OBVIOUS
<1> DEFINE folded == Folded(Here.op, Top.vals)
           frame == [node |-> Top.node, next |-> Top.next, vals |-> folded]
<1>1. /\ status = "Running" /\ Here.kind = "Logical" /\ Top.next > Len(Here.kids)
      /\ Len(Top.vals) > 1
      /\ stack' = Append(Front(stack), frame)
      /\ UNCHANGED <<status, result, fault>> /\ Settled
  BY DEF Fold, Ready, Folded
<1>2. WellFormed(prog) /\ FrameFits(Top) /\ FrameMeans(Top) /\ Here = prog[Top.node]
  BY <1>1, TopMeans
<1>3. FrameMeans(frame)
  BY <1>1, <1>2, FoldMeans
<1> HIDE DEF frame
<1> QED BY <1>1, <1>3, AdvanceMeans

LEMMA LogicalMeans == Fits /\ Means /\ Logical => Means'
<1> SUFFICES ASSUME Fits, Means, Logical PROVE Means'
  OBVIOUS
<1> DEFINE i == Top.node
<1>1. /\ status = "Running" /\ Here.kind = "Logical" /\ Top.next > Len(Here.kids)
      /\ Len(Top.vals) = 1 /\ Return(Top.vals[1])
  BY DEF Logical, Ready
<1>2. /\ WellFormed(prog) /\ FrameFits(Top) /\ FrameMeans(Top) /\ i \in 1..Root
      /\ Top.next > Len(prog[i].kids) /\ Here = prog[i]
  BY <1>1, TopMeans
<1>3. Top.next = Arity(i) + 1 /\ Arity(i) \in Nat
  BY <1>2, ReadyAt
<1>4. prog[i].kids # <<>>
  <2>1. Len(Top.vals) <= Top.next - 1
    BY <1>1, <1>2 DEF FrameFits, FrameCounts
  <2>2. Arity(i) # 0
    BY <1>1, <1>3, <2>1
  <2> QED BY <2>2, EmptySeq DEF Arity
<1>5. PICK s \in 1..Len(Top.vals) : Meaning(i) = Ok(Top.vals[s])
  BY <1>1, <1>2, <1>3, <1>4 DEF FrameMeans, ChainMeans
<1>6. s = 1
  BY <1>1, <1>5
<1>7. Clean(i)
  BY <1>1, <1>2, FoundNothing, ReadyClean
<1> QED BY <1>1, <1>5, <1>6, <1>7, ReturnMeans

(* Before the first step nothing is known to be missed ...                     *)
LEMMA EnteredMeans == Entered => Means
<1> SUFFICES ASSUME Entered PROVE Means
  OBVIOUS
<1>1. WellFormed(prog) /\ stack = <<Frame(Root)>> /\ status = "Running"
  BY DEF Entered, Root
<1>2. FrameMeans(Frame(Root))
  BY <1>1, Tree, NewFrameMeans
<1>3. Len(stack) = 1 /\ stack[1] = Frame(Root)
  BY <1>1
<1>4. StackMeans(stack)
  BY <1>2, <1>3 DEF StackMeans
<1> QED BY <1>1, <1>4 DEF Means

(* ... and no step misses anything.                                            *)
LEMMA NextMeans == Fits /\ Means /\ [Next]_vars => Means'
<1> SUFFICES ASSUME Fits, Means, [Next]_vars PROVE Means'
  OBVIOUS
<1> DEFINE i == Top.node
           eager == Lazy(prog, ctx)!Apply(i, OpVals(i))
<1>0. ASSUME status = "Running", Top.next > Len(Here.kids),
             Here.kind \notin {"PathExpr", "Logical", "CommaList"}
      PROVE  Here = prog[i] /\ i \in 1..Root /\ Top.vals = OpVals(i)
  BY <1>0, TopMeans, ReadyPlain
<1>1. CASE EvalOperand
  BY <1>1, EvalOperandMeans
<1>2. CASE UnknownClass
  BY <1>2, UnknownClassMeans
<1>3. CASE Literal
  <2>1. status = "Running" /\ Here.kind = "Literal" /\ Top.next > Len(Here.kids) /\ Return(Here.val)
    BY <1>3 DEF Literal, Ready
  <2>2. eager = Ok(Here.val) /\ ~Unknown(i)
    BY <1>0, <2>1, ApplyAt DEF Unknown
  <2> QED BY <2>1, <2>2, ReturnEager
<1>4. CASE NameHop
  BY <1>4, NameHopMeans
<1>5. CASE MissingProperty
  BY <1>5, MissingPropertyMeans
<1>6. CASE PathExpr
  BY <1>6, PathExprMeans
<1>7. CASE MemberOfExpr
  <2> DEFINE outcome == IF Unanswerable(Here.op, Top.vals[1]) THEN Err
                        ELSE Ok(Bool(IsMember(ctx, Here.op, Top.vals[1])))
  <2>1. /\ status = "Running" /\ Here.kind = "MemberOfExpr" /\ Top.next > Len(Here.kids)
        /\ ReturnOrFail(outcome, "member")
    BY <1>7, OkValue DEF MemberOfExpr, Ready, ReturnOrFail
  <2>2. eager = outcome /\ ~Unknown(i)
    BY <1>0, <2>1, ApplyAt DEF Unknown
  <2>3. outcome = Answer(outcome)
    BY OkValue DEF Answer
  <2> HIDE DEF outcome
  <2> QED BY <2>1, <2>2, <2>3, ReturnOrFailMeans
<1>8. CASE ClassCall
  BY <1>8, ClassCallMeans
<1>9. CASE ArrayLit
  <2>1. /\ status = "Running" /\ Here.kind = "ArrayLit" /\ Top.next > Len(Here.kids)
        /\ Return(Array(Top.vals))
    BY <1>9 DEF ArrayLit, Ready
  <2>2. eager = Ok(Array(Top.vals)) /\ ~Unknown(i)
    BY <1>0, <2>1, ApplyAt DEF Unknown
  <2> QED BY <2>1, <2>2, ReturnEager
<1>10. CASE CommaList
  BY <1>10, CommaListMeans
<1>11. CASE Ternary
  BY <1>11, TernaryMeans
<1>12. CASE Comparison
  <2> DEFINE outcome == ApplyComparison(Here.op, Top.vals[1], Top.vals[2])
  <2>1. /\ status = "Running" /\ Here.kind = "Comparison" /\ Top.next > Len(Here.kids)
        /\ ReturnOrFail(outcome, "compare")
    BY <1>12 DEF Comparison, Ready
  <2>2. eager = outcome /\ ~Unknown(i)
    BY <1>0, <2>1, ApplyAt DEF Unknown
  <2>3. outcome = Answer(outcome)
    BY Answers
  <2> HIDE DEF outcome
  <2> QED BY <2>1, <2>2, <2>3, ReturnOrFailMeans
<1>13. CASE Additive
  <2> DEFINE outcome == AddOperands(Top.vals[1], Top.vals[2])
  <2>1. /\ status = "Running" /\ Here.kind = "Additive" /\ Top.next > Len(Here.kids)
        /\ ReturnOrFail(outcome, "add")
    BY <1>13 DEF Additive, Ready
  <2>2. eager = outcome /\ ~Unknown(i)
    BY <1>0, <2>1, ApplyAt DEF Unknown
  <2>3. outcome = Answer(outcome)
    BY Answers
  <2> HIDE DEF outcome
  <2> QED BY <2>1, <2>2, <2>3, ReturnOrFailMeans
<1>14. CASE Fold
  BY <1>14, FoldingMeans
<1>15. CASE Logical
  BY <1>15, LogicalMeans
<1>16. CASE EmptyChain
  <2>1. stack' = <<>> /\ status' = "Panicked" /\ Settled
    BY <1>16 DEF EmptyChain
  <2> QED BY <2>1, NoFrameMeans, StepMeans
<1>17. CASE Not
  <2>1. /\ status = "Running" /\ Here.kind = "Not" /\ Top.next > Len(Here.kids)
        /\ Return(Bool(~Truthy(Top.vals[1])))
    BY <1>17 DEF Not, Ready
  <2>2. eager = Ok(Bool(~Truthy(Top.vals[1]))) /\ ~Unknown(i)
    BY <1>0, <2>1, ApplyAt DEF Unknown
  <2> QED BY <2>1, <2>2, ReturnEager
<1>18. CASE Require
  <2>1. /\ status = "Value" /\ stack' = stack /\ result' = result /\ Settled
        /\ status' \in {"Returned", "Unexpected"}
    BY <1>18 DEF Require
  <2> QED BY <2>1, StepMeans DEF Means
<1>19. CASE Unsupported
  <2>1. /\ status = "Running" /\ Here.kind = "Foreign" /\ Top.next > Len(Here.kids)
        /\ Fail("node", i)
    BY <1>19 DEF Unsupported, Ready
  <2>2. eager = Err /\ ~Unknown(i)
    BY <1>0, <2>1, ApplyAt DEF Unknown
  <2>3. Found(i) = {i}
    BY <2>1, <2>2, TopMeans, ReadyEager, OkValue
  <2> QED BY <2>1, <2>3, FailReady
<1>20. CASE UNCHANGED vars
  BY <1>20, StepMeans DEF vars, Means, Settled
<1> QED
  BY <1>1, <1>2, <1>3, <1>4, <1>5, <1>6, <1>7, <1>8, <1>9, <1>10, <1>11, <1>12,
     <1>13, <1>14, <1>15, <1>16, <1>17, <1>18, <1>19, <1>20 DEF Next

LEMMA MeansAlways == Spec => [](Fits /\ Means)
<1>1. Init => Fits /\ Means
  BY EnteredFits, EnteredMeans, ProgramsAssumption DEF Init, Entered
<1>2. Fits /\ Means /\ [Next]_vars => Fits' /\ Means'
  BY NextFits, NextMeans
<1> QED BY <1>1, <1>2, PTL DEF Spec

-----------------------------------------------------------------------------
(* Evaluating every operand, strictly or not, finds the value short-circuit    *)
(* evaluation without strict mode finds, whatever the tree, the user and the   *)
(* classes: AND, OR and ?: of asteval.go only change which errors there are.   *)
THEOREM ValuesAreLazy == Spec => []ValueIsLazy
<1>1. Means => ValueIsLazy
  BY DEF Means, ValueIsLazy
<1> QED BY <1>1, MeansAlways, PTL

(* An error anywhere in the tree is an error of the whole, and nothing else is.*)
THEOREM NoErrorsLost == Spec => []NoErrorLost
<1>1. ASSUME Fits, Means PROVE NoErrorLost
  <2>1. status = "Error" => Lazy(prog, ctx)!Wrong # {}
    BY <1>1 DEF Means, First
  <2>2. status \in {"Returned", "Unexpected"} => Lazy(prog, ctx)!Wrong = {}
    BY <1>1, WrongAt DEF Means, Clean
  <2> QED BY <2>1, <2>2 DEF NoErrorLost, Done
<1> QED BY <1>1, MeansAlways, PTL

(* The error reported is the first, from left to right and from the inside     *)
(* out, but for the classes, which are looked up before their arguments.       *)
THEOREM FirstErrorsWin == Spec => []FirstErrorWins
<1>1. Means => FirstErrorWins
  BY DEF Means, First, FirstErrorWins
<1> QED BY <1>1, MeansAlways, PTL

-----------------------------------------------------------------------------
(* The values there are.  A set of values is closed if it holds, with a value, *)
(* what it is made of, and if no tuple of it is an element of another.         *)
Closed(V) ==
  \A v \in V :
    /\ Type(v) \in {"int", "float64"} => Contents(v) \in Int
    /\ Type(v) = "string" => Contents(v) \in Seq(Nat)
    /\ Type(v) \in {"Array", "Tuple"} => Contents(v) \in Seq(V)
    /\ Type(v) = "Tuple" => \A k \in 1..Len(Contents(v)) : Type(Contents(v)[k]) # "Tuple"
    /\ Type(v) = "map" => \A name \in DOMAIN Contents(v) : Contents(v)[name] \in V

Proper(v) == \E V : Closed(V) /\ v \in V

AllProper(s) == s \in Seq(Range(s)) /\ \A k \in 1..Len(s) : Proper(s[k])

Untupled(s) == AllProper(s) /\ \A k \in 1..Len(s) : Type(s[k]) # "Tuple"

(* What expressions are given is proper: their literals, the profiles of their *)
(* users, and what classes return when they are given proper arguments.        *)
InputsProper ==
  /\ \A tree \in Programs : \A i \in 1..Len(tree) : Proper(tree[i].val)
  /\ \A user \in Contexts : Proper(user.profile)
  /\ \A node, args : Untupled(args) /\ CallClass(node, args).ok =>
                       Proper(CallClass(node, args).val)

LEMMA ProperParts ==
  ASSUME NEW v, Proper(v)
  PROVE  /\ Type(v) \in {"int", "float64"} => Contents(v) \in Int
         /\ Type(v) = "string" => Contents(v) \in Seq(Nat)
         /\ Type(v) \in {"Array", "Tuple"} => AllProper(Contents(v))
         /\ Type(v) = "Tuple" => Untupled(Contents(v))
         /\ Type(v) = "map" => \A name \in DOMAIN Contents(v) : Proper(Contents(v)[name])
<1>1. PICK V : Closed(V) /\ v \in V
  BY DEF Proper
<1>2. \A w \in V : Proper(w)
  BY <1>1 DEF Proper
<1>3. ASSUME Type(v) \in {"Array", "Tuple"} PROVE AllProper(Contents(v))
  <2>1. Contents(v) \in Seq(V)
    BY <1>1, <1>3 DEF Closed
  <2>2. Contents(v) \in Seq(Range(Contents(v)))
    BY <2>1, OwnRange
  <2>3. \A k \in 1..Len(Contents(v)) : Contents(v)[k] \in V
    BY <2>1, ElementOfSeq
  <2> QED BY <1>2, <2>2, <2>3 DEF AllProper
<1>4. ASSUME Type(v) = "Tuple" PROVE Untupled(Contents(v))
  BY <1>1, <1>3, <1>4 DEF Untupled, Closed
<1>5. ASSUME Type(v) = "map" PROVE \A name \in DOMAIN Contents(v) : Proper(Contents(v)[name])
  BY <1>1, <1>2, <1>5 DEF Closed
<1>6. /\ Type(v) \in {"int", "float64"} => Contents(v) \in Int
      /\ Type(v) = "string" => Contents(v) \in Seq(Nat)
  BY <1>1 DEF Closed
<1> QED BY <1>3, <1>4, <1>5, <1>6

(* Values that hold no values.                                                 *)
LEMMA ProperAtoms ==
  /\ Proper(Null)
  /\ \A b : Proper(Bool(b))
  /\ \A n \in Int : Proper(Number(n)) /\ Proper(Float(n))
  /\ \A s \in Seq(Nat) : Proper(Text(s))
<1>1. ASSUME NEW v, Type(v) \notin {"Array", "Tuple", "map"},
             Type(v) \in {"int", "float64"} => Contents(v) \in Int,
             Type(v) = "string" => Contents(v) \in Seq(Nat)
      PROVE  Proper(v)
  <2>1. Closed({v})
    BY <1>1 DEF Closed
  <2> QED BY <2>1 DEF Proper
<1>2. Proper(Null) /\ \A b : Proper(Bool(b))
  BY <1>1 DEF Null, Bool, Type, Contents
<1>3. \A n \in Int : Proper(Number(n)) /\ Proper(Float(n))
  BY <1>1 DEF Number, Float, Type, Contents
<1>4. \A s \in Seq(Nat) : Proper(Text(s))
  BY <1>1 DEF Text, Type, Contents
<1> QED BY <1>2, <1>3, <1>4

(* Proper values are in one closed set together.                               *)
LEMMA Together ==
  ASSUME NEW s, AllProper(s)
  PROVE  \E V : Closed(V) /\ s \in Seq(V)
<1> DEFINE W(k) == CHOOSE V : Closed(V) /\ s[k] \in V
           V == UNION {W(k) : k \in 1..Len(s)}
<1>1. s \in Seq(Range(s)) /\ Len(s) \in Nat
  BY LenProperties DEF AllProper
<1>2. \A k \in 1..Len(s) : Closed(W(k)) /\ s[k] \in W(k)
  BY DEF AllProper, Proper
<1> HIDE DEF W
<1>3. \A k \in 1..Len(s) : s[k] \in V
  BY <1>2
<1>4. s \in Seq(V)
  <2>1. s = [k \in 1..Len(s) |-> s[k]]
    BY <1>1, LenProperties
  <2> HIDE DEF V
  <2> QED BY <1>1, <1>3, <2>1, IsASeq
<1>5. ASSUME NEW v \in V
      PROVE  /\ Type(v) \in {"int", "float64"} => Contents(v) \in Int
             /\ Type(v) = "string" => Contents(v) \in Seq(Nat)
             /\ Type(v) \in {"Array", "Tuple"} => Contents(v) \in Seq(V)
             /\ Type(v) = "Tuple" => \A k \in 1..Len(Contents(v)) : Type(Contents(v)[k]) # "Tuple"
             /\ Type(v) = "map" => \A name \in DOMAIN Contents(v) : Contents(v)[name] \in V
  <2>1. PICK k \in 1..Len(s) : v \in W(k)
    BY <1>5
  <2>2. W(k) \subseteq V
    OBVIOUS
  <2> HIDE DEF V
  <2>3. \A t \in Seq(W(k)) : t \in Seq(V)
    BY <2>2, SeqMonotonic
  <2> QED BY <1>2, <2>1, <2>2, <2>3 DEF Closed
<1>6. Closed(V)
  <2> HIDE DEF V
  <2> QED BY <1>5 DEF Closed
<1> QED BY <1>4, <1>6

(* An array or a tuple of proper values is proper.                             *)
LEMMA ProperLists ==
  ASSUME NEW s, AllProper(s)
  PROVE  Proper(Array(s)) /\ (Untupled(s) => Proper(Tuple(s)))
<1>1. PICK V : Closed(V) /\ s \in Seq(V)
  BY Together
<1>2. ASSUME NEW v, Type(v) \in {"Array", "Tuple"}, Contents(v) = s,
             Type(v) = "Tuple" => Untupled(s)
      PROVE  Proper(v)
  <2> DEFINE W == V \cup {v}
  <2>1. V \subseteq W /\ v \in W /\ \A w \in W : w \in V \/ w = v
    OBVIOUS
  <2> HIDE DEF W
  <2>2. \A t \in Seq(V) : t \in Seq(W)
    BY <2>1, SeqMonotonic
  <2>3. ASSUME NEW w \in V
        PROVE  /\ Type(w) \in {"int", "float64"} => Contents(w) \in Int
               /\ Type(w) = "string" => Contents(w) \in Seq(Nat)
               /\ Type(w) \in {"Array", "Tuple"} => Contents(w) \in Seq(W)
               /\ Type(w) = "Tuple" =>
                    \A k \in 1..Len(Contents(w)) : Type(Contents(w)[k]) # "Tuple"
               /\ Type(w) = "map" => \A name \in DOMAIN Contents(w) : Contents(w)[name] \in W
    BY <1>1, <2>1, <2>2, <2>3 DEF Closed
  <2>4. /\ Type(v) \in {"Array", "Tuple"} => Contents(v) \in Seq(W)
        /\ Type(v) = "Tuple" => \A k \in 1..Len(Contents(v)) : Type(Contents(v)[k]) # "Tuple"
    BY <1>1, <1>2, <2>2 DEF Untupled
  <2>5. Closed(W)
    BY <1>2, <2>1, <2>3, <2>4 DEF Closed
  <2> QED BY <2>1, <2>5 DEF Proper
<1>3. Proper(Array(s))
  BY <1>2 DEF Array, Type, Contents
<1>4. Untupled(s) => Proper(Tuple(s))
  BY <1>2 DEF Tuple, Type, Contents
<1> QED BY <1>3, <1>4

LEMMA ProperOne ==
  ASSUME NEW v, Proper(v)
  PROVE  AllProper(<<v>>) /\ (Type(v) # "Tuple" => Untupled(<<v>>))
BY SeqOne DEF AllProper, Untupled

LEMMA ProperAppend ==
  ASSUME NEW s, AllProper(s), NEW v, Proper(v)
  PROVE  AllProper(Append(s, v))
<1>1. /\ Append(s, v) \in Seq(Range(Append(s, v))) /\ Len(Append(s, v)) = Len(s) + 1
      /\ Append(s, v)[Len(s) + 1] = v /\ \A k \in 1..Len(s) : Append(s, v)[k] = s[k]
  BY SeqWiden DEF AllProper
<1>2. Len(s) \in Nat
  BY LenProperties DEF AllProper
<1>3. \A k \in 1..Len(s) + 1 : k \in 1..Len(s) \/ k = Len(s) + 1
  BY <1>2
<1> QED BY <1>1, <1>3 DEF AllProper

(* One after the other, sequences of values are one.                           *)
LEMMA UntupledConcat ==
  ASSUME NEW s, Untupled(s), NEW t, Untupled(t)
  PROVE  Untupled(s \o t)
<1>1. s \in Seq(Range(s)) /\ t \in Seq(Range(t)) /\ Len(s) \in Nat /\ Len(t) \in Nat
  BY LenProperties DEF Untupled, AllProper
<1> DEFINE S == Range(s) \cup Range(t)
<1>2. s \in Seq(S) /\ t \in Seq(S)
  <2>1. Range(s) \subseteq S /\ Range(t) \subseteq S
    OBVIOUS
  <2> HIDE DEF S
  <2> QED BY <1>1, <2>1, SeqMonotonic
<1> HIDE DEF S
<1>3. /\ s \o t \in Seq(S) /\ Len(s \o t) = Len(s) + Len(t)
      /\ \A k \in 1..Len(s) + Len(t) :
           (s \o t)[k] = IF k <= Len(s) THEN s[k] ELSE t[k - Len(s)]
  BY <1>2, ConcatProperties
<1>4. s \o t \in Seq(Range(s \o t))
  BY <1>3, OwnRange
<1>5. ASSUME NEW k \in 1..Len(s) + Len(t)
      PROVE  Proper((s \o t)[k]) /\ Type((s \o t)[k]) # "Tuple"
  <2>1. CASE k <= Len(s)
    <3>1. k \in 1..Len(s) /\ (s \o t)[k] = s[k]
      BY <1>1, <1>3, <2>1
    <3> QED BY <3>1 DEF Untupled, AllProper
  <2>2. CASE ~(k <= Len(s))
    <3>1. k - Len(s) \in 1..Len(t) /\ (s \o t)[k] = t[k - Len(s)]
      BY <1>1, <1>3, <2>2
    <3> QED BY <3>1 DEF Untupled, AllProper
  <2> QED BY <2>1, <2>2
<1> QED BY <1>3, <1>4, <1>5 DEF Untupled, AllProper

LEMMA ProperSpread ==
  ASSUME NEW v, Proper(v)
  PROVE  Untupled(SpreadArgs(v))
BY ProperParts, ProperOne DEF SpreadArgs

LEMMA ProperMerge ==
  ASSUME NEW a, Proper(a), NEW b, Proper(b)
  PROVE  Proper(MergeOperands(a, b))
<1>1. Untupled(SpreadArgs(a) \o SpreadArgs(b))
  BY ProperSpread, UntupledConcat
<1>2. MergeOperands(a, b) = Tuple(SpreadArgs(a) \o SpreadArgs(b))
  BY PairConcat DEF MergeOperands, SpreadArgs
<1> QED BY <1>1, <1>2, ProperLists DEF Untupled

-----------------------------------------------------------------------------
(* What the operations make of proper values.                                  *)
LEMMA ProperWithoutQuotes ==
  ASSUME NEW s \in Seq(Nat)
  PROVE  WithoutQuotes(s) \in Seq(Nat)
<1> DEFINE n == Len(s)
           step(k, t) == IF s[k] = 34 THEN t ELSE Append(t, s[k])
           G == [k \in 1..n |-> [t \in Seq(Nat) |-> step(k, t)]]
           K(f) == [k \in 0..n |-> IF k = 0 THEN <<>>
                                   ELSE IF s[k] = 34 THEN f[k - 1] ELSE Append(f[k - 1], s[k])]
           kept == CHOOSE f : f = K(f)
<1>1. n \in Nat /\ \A k \in 1..n : s[k] \in Nat
  BY LenProperties, ElementOfSeq
<1>2. G \in [1..n -> [Seq(Nat) -> Seq(Nat)]] /\ <<>> \in Seq(Nat)
  <2>1. \A k \in 1..n, t \in Seq(Nat) : step(k, t) \in Seq(Nat)
    BY <1>1
  <2> HIDE DEF step
  <2> QED BY <2>1
<1>3. PICK g : Iterates(g, Seq(Nat), <<>>, n, G)
  <2> HIDE DEF G, n
  <2> QED BY <1>1, <1>2, Iteration
<1>4. g \in [0..n -> Seq(Nat)] /\ g[0] = <<>> /\ \A k \in 1..n : g[k] = G[k][g[k - 1]]
  BY <1>3 DEF Iterates
<1>5. \A k \in 1..n : g[k - 1] \in Seq(Nat) /\ g[k] = step(k, g[k - 1])
  <2>1. \A k \in 1..n : k - 1 \in 0..n
    BY <1>1
  <2>2. \A k \in 1..n : g[k - 1] \in Seq(Nat)
    BY <1>4, <2>1
  <2> HIDE DEF step
  <2> QED BY <1>4, <2>2
<1>6. g = K(g)
  <2>1. \A k \in 0..n : k = 0 \/ k \in 1..n
    BY <1>1
  <2> HIDE DEF G, n
  <2> QED BY <1>4, <1>5, <2>1
<1>7. kept = K(kept)
  <2> HIDE DEF K
  <2> QED BY <1>6
<1>8. kept[0] = <<>> /\ \A k \in 1..n : kept[k] = step(k, kept[k - 1])
  <2>1. 0 \in 0..n /\ \A k \in 1..n : k \in 0..n /\ k # 0
    BY <1>1
  <2> HIDE DEF kept, n
  <2> QED BY <1>7, <2>1
<1> HIDE DEF kept
<1> DEFINE S == {k \in 0..n : kept[k] = g[k]}
<1>9. \A k \in 0..n : k \in S
  <2>1. 0 \in S
    BY <1>1, <1>4, <1>8
  <2>2. ASSUME NEW m \in 0..n - 1, m \in S PROVE m + 1 \in S
    <3>1. m + 1 \in 1..n /\ (m + 1) - 1 = m
      BY <1>1
    <3>2. kept[m + 1] = step(m + 1, kept[m]) /\ g[m + 1] = step(m + 1, g[m])
      BY <1>5, <1>8, <3>1
    <3> QED BY <1>1, <2>2, <3>1, <3>2
  <2> HIDE DEF S, n
  <2> QED BY <1>1, <2>1, <2>2, Induction
<1>10. kept[n] \in Seq(Nat)
  BY <1>1, <1>4, <1>9
<1> QED BY <1>10 DEF WithoutQuotes, kept

LEMMA ProperLookup ==
  ASSUME NEW v, Proper(v), NEW name
  PROVE  Proper(Lookup(v, name))
<1>1. CASE ~Holds(v, name)
  BY <1>1, ProperAtoms DEF Lookup
<1>2. CASE Holds(v, name)
  <2>1. Proper(Contents(v)[name])
    BY <1>2, ProperParts DEF Holds
  <2>2. Proper(Unquoted(Contents(v)[name]))
    BY <2>1, ProperParts, ProperAtoms, ProperWithoutQuotes DEF Unquoted
  <2> QED BY <1>2, <2>2 DEF Lookup
<1> QED BY <1>1, <1>2

LEMMA WrapInt == \A n \in Int : Wrap(n) \in Int
<1>1. \A k \in Nat : 2 ^ k \in Int
  OBVIOUS
<1>2. 2 ^ (IntBits - 1) \in Int /\ 2 ^ IntBits \in Nat \ {0}
  BY <1>1, IntBitsAssumption
<1> QED BY <1>2 DEF Wrap

LEMMA ProperSum ==
  ASSUME NEW a, Proper(a), NEW b, Proper(b), AddOperands(a, b).ok
  PROVE  Proper(AddOperands(a, b).val)
<1>1. CASE SameType(a, b) /\ Type(a) = "string"
  <2>1. Contents(a) \o Contents(b) \in Seq(Nat)
    BY <1>1, ProperParts, ConcatProperties DEF SameType
  <2>2. AddOperands(a, b).val = Text(Contents(a) \o Contents(b))
    BY <1>1 DEF AddOperands, Ok
  <2> QED BY <2>1, <2>2, ProperAtoms
<1>2. CASE SameType(a, b) /\ Type(a) = "int"
  <2>1. Contents(a) \in Int /\ Contents(b) \in Int
    BY <1>2, ProperParts DEF SameType
  <2>2. Wrap(Contents(a) + Contents(b)) \in Int
    BY <2>1, WrapInt
  <2>3. AddOperands(a, b).val = Number(Wrap(Contents(a) + Contents(b)))
    BY <1>2 DEF AddOperands, Ok
  <2> QED BY <2>2, <2>3, ProperAtoms
<1>3. CASE SameType(a, b) /\ Type(a) = "float64"
  <2>1. Contents(a) \in Int /\ Contents(b) \in Int
    BY <1>3, ProperParts DEF SameType
  <2>2. AddOperands(a, b).val = Float(Contents(a) + Contents(b))
    BY <1>3 DEF AddOperands, Ok
  <2> QED BY <2>1, <2>2, ProperAtoms
<1>4. CASE ~(SameType(a, b) /\ Type(a) \in {"string", "int", "float64"})
  BY <1>4 DEF AddOperands, Err
<1> QED BY <1>1, <1>2, <1>3, <1>4

LEMMA ProperComparison ==
  ASSUME NEW op, NEW a, NEW b
  PROVE  Proper(ApplyComparison(op, a, b).val)
<1>1. Proper(Null) /\ \A c : Proper(Bool(c))
  BY ProperAtoms
<1>2. \E c : ApplyComparison(op, a, b) = Ok(Bool(c)) \/ ApplyComparison(op, a, b) = Err
  BY Zenon DEF ApplyComparison, CompareOperands
<1> QED BY <1>1, <1>2 DEF Ok, Err

-----------------------------------------------------------------------------
(* The values an evaluation holds are proper, and so is what it is given.      *)
FramesHeld(frames) == \A d \in 1..Len(frames) : AllProper(frames[d].vals)

GivenProper == Proper(ctx.profile) /\ \A i \in 1..Root : Proper(prog[i].val)

Held == FramesHeld(stack) /\ Proper(result) /\ GivenProper

(* A frame on top, one in place of the top one.                                *)
LEMMA FrameOnTop ==
  ASSUME NEW frames, frames \in Seq(Range(frames)), FramesHeld(frames),
         NEW frame, AllProper(frame.vals)
  PROVE  FramesHeld(Append(frames, frame))
<1> DEFINE n == Len(frames)
           new == Append(frames, frame)
<1>1. n \in Nat
  BY LenProperties
<1>2. Len(new) = n + 1 /\ new[n + 1] = frame /\ \A k \in 1..n : new[k] = frames[k]
  BY SeqWiden
<1>3. \A d \in 1..n : AllProper(frames[d].vals)
  BY DEF FramesHeld
<1> HIDE DEF n, new
<1>4. \A d \in 1..n + 1 : d = n + 1 \/ d \in 1..n
  BY <1>1
<1>5. \A d \in 1..Len(new) : AllProper(new[d].vals)
  BY <1>2, <1>3, <1>4
<1> QED BY <1>5 DEF FramesHeld, new

LEMMA FramesUnder ==
  ASSUME NEW frames, frames \in Seq(Range(frames)), frames # <<>>, FramesHeld(frames)
  PROVE  FramesHeld(Front(frames)) /\ Front(frames) \in Seq(Range(Front(frames)))
<1> DEFINE n == Len(frames)
           front == Front(frames)
<1>1. /\ front \in Seq(Range(front)) /\ Len(front) = n - 1 /\ n \in Nat \ {0}
      /\ \A k \in 1..n - 1 : front[k] = frames[k]
  BY SeqFront
<1>2. \A d \in 1..n : AllProper(frames[d].vals)
  BY DEF FramesHeld
<1> HIDE DEF n, front
<1>3. \A d \in 1..n - 1 : d \in 1..n
  BY <1>1
<1>4. \A d \in 1..Len(front) : AllProper(front[d].vals)
  BY <1>1, <1>2, <1>3
<1> QED BY <1>1, <1>4 DEF FramesHeld, front

LEMMA AbsorbHeld ==
  ASSUME NEW frame, AllProper(frame.vals), NEW v, Proper(v)
  PROVE  AllProper(Absorb(frame, v).vals)
<1>1. Absorb(frame, v).vals = Absorbed(frame, v)
  BY DEF Absorb
<1>2. AllProper(<<v>>) /\ AllProper(Append(frame.vals, v))
  BY ProperOne, ProperAppend
<1>3. ASSUME frame.vals # <<>> PROVE AllProper(<<MergeOperands(frame.vals[1], v)>>)
  <2>1. 1 \in 1..Len(frame.vals)
    BY <1>3, LenProperties, EmptySeq DEF AllProper
  <2>2. Proper(frame.vals[1])
    BY <2>1 DEF AllProper
  <2> QED BY <2>2, ProperMerge, ProperOne
<1> QED BY <1>1, <1>2, <1>3 DEF Absorbed

LEMMA ReturnHeld ==
  ASSUME Fits, Held, status = "Running", NEW v, Proper(v), Return(v)
  PROVE  Held'
<1>1. stack # <<>> /\ stack \in Seq(Range(stack)) /\ Len(stack) \in Nat \ {0}
  BY RunningTop DEF Fits, StackFits
<1>2. prog' = prog /\ ctx' = ctx
  BY DEF Return, Settled
<1>3. GivenProper'
  BY <1>2 DEF Held, GivenProper, Root
<1>4. CASE Len(stack) = 1
  <2>1. stack' = <<>> /\ result' = v
    BY <1>4 DEF Return
  <2>2. Len(<<>>) = 0
    OBVIOUS
  <2> QED BY <1>3, <2>1, <2>2 DEF Held, FramesHeld
<1>5. CASE Len(stack) # 1
  <2> DEFINE under == Front(stack)
             last == Last(under)
             frame == Absorb(last, v)
  <2>1. stack' = Append(Front(under), frame) /\ result' = result
    BY <1>5 DEF Return
  <2>2. FramesHeld(under) /\ under \in Seq(Range(under))
    BY <1>1, FramesUnder DEF Held
  <2>3. under # <<>> /\ Len(under) \in Nat \ {0}
    <3>1. Len(under) = Len(stack) - 1
      BY <1>1, SeqFront
    <3>2. Len(under) \in Nat \ {0}
      BY <1>1, <1>5, <3>1
    <3> QED BY <3>2, EmptySeq
  <2>4. last = under[Len(under)]
    BY <2>2, <2>3, SeqFront
  <2>5. AllProper(last.vals)
    BY <2>2, <2>3, <2>4 DEF FramesHeld
  <2>6. AllProper(frame.vals)
    BY <2>5, AbsorbHeld
  <2> HIDE DEF under, last, frame
  <2>7. FramesHeld(Front(under)) /\ Front(under) \in Seq(Range(Front(under)))
    BY <2>2, <2>3, FramesUnder
  <2>8. FramesHeld(stack')
    BY <2>1, <2>6, <2>7, FrameOnTop
  <2> QED BY <1>3, <2>1, <2>8 DEF Held
<1> QED BY <1>4, <1>5

LEMMA ReturnOrFailHeld ==
  ASSUME Fits, Held, status = "Running", NEW outcome, outcome.ok => Proper(outcome.val),
         NEW why, ReturnOrFail(outcome, why)
  PROVE  Held'
<1>1. CASE outcome.ok
  BY <1>1, ReturnHeld DEF ReturnOrFail
<1>2. CASE ~outcome.ok
  <2>1. Fail(why, Top.node)
    BY <1>2 DEF ReturnOrFail
  <2>2. Len(<<>>) = 0
    OBVIOUS
  <2> QED BY <2>1, <2>2 DEF Fail, Settled, Held, FramesHeld, GivenProper, Root
<1> QED BY <1>1, <1>2

(* The top frame with other values.                                            *)
LEMMA TopHeld ==
  ASSUME Fits, Held, status = "Running", Settled, result' = result,
         NEW frame, AllProper(frame.vals),
         stack' = Append(Front(stack), frame) \/ stack' = Append(stack, frame)
  PROVE  Held'
<1>1. stack # <<>> /\ stack \in Seq(Range(stack)) /\ FramesHeld(stack)
  BY RunningTop DEF Fits, StackFits, Held
<1>2. FramesHeld(Front(stack)) /\ Front(stack) \in Seq(Range(Front(stack)))
  BY <1>1, FramesUnder
<1>3. FramesHeld(stack')
  BY <1>1, <1>2, FrameOnTop
<1> QED BY <1>3 DEF Held, Settled, GivenProper, Root

(* How many values the top frame has, and that they are proper.                *)
LEMMA TopValues ==
  ASSUME Fits, Held, status = "Running"
  PROVE  /\ AllProper(Top.vals) /\ FrameFits(Top) /\ Top.node \in 1..Root /\ Here = prog[Top.node]
         /\ ArityOk(Here) /\ Top.vals \in Seq(Range(Top.vals)) /\ Len(Top.vals) \in Nat
         /\ Top.vals # <<>> => Proper(Top.vals[1])
         /\ Proper(Here.val) /\ GivenProper
<1>1. Len(stack) \in 1..Len(stack) /\ FrameFits(Top) /\ Top.node \in 1..Root /\ ArityOk(Here)
  BY RunningTop DEF Fits, Here
<1>2. AllProper(Top.vals)
  BY <1>1 DEF Held, FramesHeld, Top
<1>3. Top.vals \in Seq(Range(Top.vals)) /\ Len(Top.vals) \in Nat
  BY <1>2, LenProperties DEF AllProper
<1>4. Top.vals # <<>> => 1 \in 1..Len(Top.vals)
  BY <1>3, EmptySeq
<1>5. Proper(Here.val)
  BY <1>1 DEF Held, GivenProper, Here
<1> QED BY <1>1, <1>2, <1>3, <1>4, <1>5 DEF AllProper, Here, Held

LEMMA ReadyValues ==
  ASSUME Fits, Held, status = "Running", Top.next > Len(Here.kids),
         Here.kind \notin {"PathExpr", "CommaList", "Logical"}
  PROVE  Len(Top.vals) = Len(Here.kids) /\ \A k \in 1..Len(Here.kids) : Proper(Top.vals[k])
<1>1. Top.next \in 1..Len(Here.kids) + 1 /\ Len(Here.kids) \in Nat
  BY RunningTop
<1>2. Len(Top.vals) = Top.next - 1 /\ AllProper(Top.vals)
  BY TopValues DEF FrameFits, FrameCounts
<1>3. Len(Top.vals) = Len(Here.kids)
  BY <1>1, <1>2
<1> QED BY <1>2, <1>3 DEF AllProper

LEMMA PathValueProper ==
  ASSUME Fits, Held, status = "Running"
  PROVE  Proper(PathValue)
<1>1. Proper(Null) /\ Proper(ctx.profile) /\ (Top.vals # <<>> => Proper(Top.vals[1]))
  BY TopValues, ProperAtoms DEF GivenProper
<1> QED BY <1>1, Zenon DEF PathValue

LEMMA NameHopHeld == Fits /\ Held /\ NameHop => Held'
<1> SUFFICES ASSUME Fits, Held, NameHop PROVE Held'
  OBVIOUS
<1>1. /\ status = "Running" /\ Settled /\ result' = result
      /\ stack' = Append(Front(stack), Absorb(Top, Lookup(PathValue, Operand.name)))
  BY DEF NameHop, AtOperand
<1>2. Proper(Lookup(PathValue, Operand.name))
  BY <1>1, PathValueProper, ProperLookup
<1>3. AllProper(Absorb(Top, Lookup(PathValue, Operand.name)).vals)
  BY <1>1, <1>2, TopValues, AbsorbHeld
<1> QED BY <1>1, <1>3, TopHeld

LEMMA ClassCallHeld ==
  ASSUME InputsProper
  PROVE  Fits /\ Held /\ ClassCall => Held'
<1> SUFFICES ASSUME Fits, Held, ClassCall PROVE Held'
  OBVIOUS
<1> DEFINE args == IF Top.vals = <<>> THEN <<>> ELSE SpreadArgs(Top.vals[1])
<1>1. status = "Running" /\ ReturnOrFail(CallClass(Here, args), "call")
  BY DEF ClassCall, Ready
<1>2. Untupled(<<>>)
  BY EmptySeq, OwnRange DEF Untupled, AllProper
<1>3. Top.vals # <<>> => Untupled(SpreadArgs(Top.vals[1]))
  BY <1>1, TopValues, ProperSpread
<1>4. Untupled(args)
  BY <1>2, <1>3
<1> HIDE DEF args
<1>5. CallClass(Here, args).ok => Proper(CallClass(Here, args).val)
  BY <1>4 DEF InputsProper
<1> QED BY <1>1, <1>5, ReturnOrFailHeld

LEMMA FoldHeld == Fits /\ Held /\ Fold => Held'
<1> SUFFICES ASSUME Fits, Held, Fold PROVE Held'
  OBVIOUS
<1> DEFINE first == IF Decided(Here.op, Top.vals[1]) THEN Top.vals[1] ELSE Top.vals[2]
           rest == SubSeq(Top.vals, 3, Len(Top.vals))
           frame == [node |-> Top.node, next |-> Top.next, vals |-> <<first>> \o rest]
<1>1. /\ status = "Running" /\ Len(Top.vals) > 1 /\ Settled /\ result' = result
      /\ stack' = Append(Front(stack), frame)
  BY DEF Fold, Ready
<1>2. Top.vals \in Seq(Range(Top.vals)) /\ AllProper(Top.vals) /\ Len(Top.vals) \in Nat
  BY <1>1, TopValues
<1>3. 1 \in 1..Len(Top.vals) /\ 2 \in 1..Len(Top.vals)
  BY <1>1, <1>2
<1>4. PICK V : Closed(V) /\ Top.vals \in Seq(V)
  BY <1>2, Together
<1>5. first \in V
  BY <1>3, <1>4, ElementOfSeq
<1> HIDE DEF first, rest
<1>6. <<first>> \o rest \in Seq(V)
  BY <1>1, <1>4, <1>5, FoldedSeq DEF rest
<1>7. AllProper(frame.vals)
  <2> DEFINE new == <<first>> \o rest
  <2>1. new \in Seq(V) /\ new \in Seq(Range(new)) /\ \A k \in 1..Len(new) : new[k] \in V
    BY <1>6, OwnRange, ElementOfSeq
  <2> HIDE DEF new
  <2>2. AllProper(new)
    BY <1>4, <2>1 DEF AllProper, Proper
  <2> QED BY <2>2 DEF new
<1> HIDE DEF frame
<1> QED BY <1>1, <1>7, TopHeld

LEMMA HeldNext ==
  ASSUME InputsProper
  PROVE  Fits /\ Held /\ [Next]_vars => Held'
<1> SUFFICES ASSUME Fits, Held, [Next]_vars PROVE Held'
  OBVIOUS
<1>1. CASE EvalOperand
  <2>1. /\ status = "Running" /\ Settled /\ result' = result
        /\ stack' = Append(stack, Frame(Here.kids[Top.next]))
    BY <1>1 DEF EvalOperand, AtOperand
  <2>2. AllProper(Frame(Here.kids[Top.next]).vals)
    BY EmptySeq, OwnRange DEF AllProper, Frame
  <2> QED BY <2>1, <2>2, TopHeld
<1>2. CASE UnknownClass \/ Unsupported \/ MissingProperty \/ EmptyChain
  <2>1. stack' = <<>> /\ Settled /\ result' = result
    BY <1>2 DEF UnknownClass, Unsupported, MissingProperty, EmptyChain, Fail
  <2>2. Len(<<>>) = 0
    OBVIOUS
  <2> QED BY <2>1, <2>2 DEF Held, Settled, GivenProper, Root, FramesHeld
<1>3. CASE Literal
  BY <1>3, TopValues, ReturnHeld DEF Literal, Ready
<1>4. CASE NameHop
  BY <1>4, NameHopHeld
<1>5. CASE PathExpr
  BY <1>5, PathValueProper, ReturnHeld DEF PathExpr, Ready
<1>6. CASE MemberOfExpr
  <2>1. /\ status = "Running"
        /\ \/ Fail("member", Top.node)
           \/ Return(Bool(IsMember(ctx, Here.op, Top.vals[1])))
    BY <1>6 DEF MemberOfExpr, Ready
  <2>2. CASE Fail("member", Top.node)
    <3>1. ~Err.ok
      BY DEF Err
    <3>2. ReturnOrFail(Err, "member")
      BY <2>2, <3>1 DEF ReturnOrFail
    <3> QED BY <2>1, <3>1, <3>2, ReturnOrFailHeld
  <2>3. CASE Return(Bool(IsMember(ctx, Here.op, Top.vals[1])))
    BY <2>1, <2>3, ProperAtoms, ReturnHeld
  <2> QED BY <2>1, <2>2, <2>3
<1>7. CASE ClassCall
  BY <1>7, ClassCallHeld
<1>8. CASE ArrayLit
  <2>1. status = "Running" /\ Return(Array(Top.vals))
    BY <1>8 DEF ArrayLit, Ready
  <2>2. Proper(Array(Top.vals))
    BY <2>1, TopValues, ProperLists
  <2> QED BY <2>1, <2>2, ReturnHeld
<1>9. CASE CommaList
  <2>1. status = "Running" /\ Return(IF Top.vals = <<>> THEN Null ELSE Top.vals[1])
    BY <1>9 DEF CommaList, Ready
  <2>2. Proper(IF Top.vals = <<>> THEN Null ELSE Top.vals[1])
    BY <2>1, TopValues, ProperAtoms
  <2> QED BY <2>1, <2>2, ReturnHeld
<1>10. CASE Ternary
  <2>1. /\ status = "Running" /\ Here.kind = "Ternary" /\ Top.next > Len(Here.kids)
        /\ Return(IF Truthy(Top.vals[1]) THEN Top.vals[2] ELSE Top.vals[3])
    BY <1>10 DEF Ternary, Ready
  <2>2. Len(Here.kids) = 3
    BY <2>1, TopValues DEF ArityOk
  <2>3. Proper(Top.vals[2]) /\ Proper(Top.vals[3])
    BY <2>1, <2>2, ReadyValues
  <2> QED BY <2>1, <2>3, ReturnHeld
<1>11. CASE Comparison
  <2>1. /\ status = "Running"
        /\ ReturnOrFail(ApplyComparison(Here.op, Top.vals[1], Top.vals[2]), "compare")
    BY <1>11 DEF Comparison, Ready
  <2> QED BY <2>1, ProperComparison, ReturnOrFailHeld
<1>12. CASE Additive
  <2>1. /\ status = "Running" /\ Here.kind = "Additive" /\ Top.next > Len(Here.kids)
        /\ ReturnOrFail(AddOperands(Top.vals[1], Top.vals[2]), "add")
    BY <1>12 DEF Additive, Ready
  <2>2. Len(Here.kids) = 2
    BY <2>1, TopValues DEF ArityOk
  <2>3. Proper(Top.vals[1]) /\ Proper(Top.vals[2])
    BY <2>1, <2>2, ReadyValues
  <2>4. AddOperands(Top.vals[1], Top.vals[2]).ok => Proper(AddOperands(Top.vals[1], Top.vals[2]).val)
    BY <2>3, ProperSum
  <2> QED BY <2>1, <2>4, ReturnOrFailHeld
<1>13. CASE Fold
  BY <1>13, FoldHeld
<1>14. CASE Logical
  <2>1. status = "Running" /\ Len(Top.vals) = 1 /\ Return(Top.vals[1])
    BY <1>14 DEF Logical, Ready
  <2>2. 1 \in 1..Len(Top.vals)
    BY <2>1
  <2>3. Proper(Top.vals[1])
    BY <2>1, <2>2, TopValues DEF AllProper
  <2> QED BY <2>1, <2>3, ReturnHeld
<1>15. CASE Not
  BY <1>15, ProperAtoms, ReturnHeld DEF Not, Ready
<1>16. CASE Require
  BY <1>16 DEF Require, Settled, Held, GivenProper, Root
<1>17. CASE UNCHANGED vars
  BY <1>17 DEF vars, Held, GivenProper, Root
<1> QED
  BY <1>1, <1>2, <1>3, <1>4, <1>5, <1>6, <1>7, <1>8, <1>9, <1>10, <1>11, <1>12,
     <1>13, <1>14, <1>15, <1>16, <1>17 DEF Next

LEMMA HeldAtFirst ==
  ASSUME InputsProper
  PROVE  Init => Held
<1> SUFFICES ASSUME Init PROVE Held
  OBVIOUS
<1>1. stack = <<Frame(Len(prog))>> /\ result = Null /\ prog \in Programs /\ ctx \in Contexts
  BY DEF Init
<1>2. Len(stack) = 1 /\ stack[1].vals = <<>>
  BY <1>1 DEF Frame
<1>3. AllProper(<<>>)
  BY EmptySeq, OwnRange DEF AllProper
<1>4. GivenProper
  BY <1>1 DEF InputsProper, GivenProper, Root
<1> QED BY <1>1, <1>2, <1>3, <1>4, ProperAtoms DEF Held, FramesHeld

LEMMA HeldAlways ==
  ASSUME InputsProper
  PROVE  Spec => [](Fits /\ Held)
<1>1. Init => Fits /\ Held
  BY EnteredFits, HeldAtFirst, ProgramsAssumption DEF Init, Entered
<1>2. Fits /\ Held /\ [Next]_vars => Fits' /\ Held'
  BY NextFits, HeldNext
<1> QED BY <1>1, <1>2, PTL DEF Spec

-----------------------------------------------------------------------------
(* No part of a proper value is a tuple in a tuple, at any depth.              *)
LEMMA PartsAt ==
  ASSUME NEW v
  PROVE  /\ PartsTo(v)[0] = {v}
         /\ \A d \in 1..Depth :
              PartsTo(v)[d] = PartsTo(v)[d - 1] \cup UNION {Items(part) : part \in PartsTo(v)[d - 1]}
<1> DEFINE below(P) == P \cup UNION {Items(part) : part \in P}
           K(f) == [d \in 0..Depth |-> IF d = 0 THEN {v} ELSE below(f[d - 1])]
           Solved == {m \in 0..Depth : \E f : f[0] = {v} /\ \A d \in 1..m : f[d] = below(f[d - 1])}
<1>1. Depth \in Nat
  BY DepthAssumption
<1>2. 0 \in Solved
  <2> DEFINE f == [d \in {0} |-> {v}]
  <2>1. f[0] = {v} /\ 0 \in 0..Depth
    BY <1>1
  <2>2. \A d \in 1..0 : FALSE
    OBVIOUS
  <2> HIDE DEF f, below
  <2>3. f[0] = {v} /\ \A d \in 1..0 : f[d] = below(f[d - 1])
    BY <2>1, <2>2
  <2> QED BY <2>1, <2>3
<1>3. ASSUME NEW m \in 0..Depth - 1, m \in Solved PROVE m + 1 \in Solved
  <2>1. PICK f : f[0] = {v} /\ \A d \in 1..m : f[d] = below(f[d - 1])
    BY <1>3
  <2> DEFINE g == [d \in 0..m + 1 |-> IF d = m + 1 THEN below(f[m]) ELSE f[d]]
  <2>2. g[m + 1] = below(f[m]) /\ \A d \in 0..m : g[d] = f[d]
    BY <1>1
  <2> HIDE DEF g, below
  <2>3. g[0] = {v}
    BY <1>1, <2>1, <2>2
  <2>4. ASSUME NEW d \in 1..m + 1 PROVE g[d] = below(g[d - 1])
    <3>1. CASE d = m + 1
      <4>1. d - 1 = m /\ m \in 0..m
        BY <1>1, <3>1
      <4> QED BY <2>2, <3>1, <4>1
    <3>2. CASE d \in 1..m
      <4>1. d \in 0..m /\ d - 1 \in 0..m
        BY <1>1, <3>2
      <4> QED BY <2>1, <2>2, <3>2, <4>1
    <3> QED BY <1>1, <3>1, <3>2
  <2>5. m + 1 \in 0..Depth
    BY <1>1
  <2> QED BY <2>3, <2>4, <2>5
<1>4. Depth \in Solved
  <2> HIDE DEF Solved
  <2>1. \A m \in 0..Depth : m \in Solved
    BY <1>1, <1>2, <1>3, Induction
  <2> QED BY <1>1, <2>1
<1>5. PICK f : f[0] = {v} /\ \A d \in 1..Depth : f[d] = below(f[d - 1])
  BY <1>4
<1> HIDE DEF below
<1> DEFINE h == [d \in 0..Depth |-> f[d]]
<1>6. h = K(h)
  <2>1. \A d \in 0..Depth : d = 0 \/ (d \in 1..Depth /\ d # 0 /\ d - 1 \in 0..Depth)
    BY <1>1
  <2>2. \A d \in 0..Depth : h[d] = f[d]
    OBVIOUS
  <2>3. \A d \in 0..Depth : f[d] = IF d = 0 THEN {v} ELSE below(h[d - 1])
    BY <1>5, <2>1, <2>2
  <2> QED BY <2>3
<1> HIDE DEF h
<1>7. PartsTo(v) = CHOOSE r : r = K(r)
  BY DEF PartsTo, below
<1>8. PartsTo(v) = K(PartsTo(v))
  <2> HIDE DEF K
  <2> QED BY <1>6, <1>7
<1>9. 0 \in 0..Depth /\ \A d \in 1..Depth : d \in 0..Depth /\ d # 0
  BY <1>1
<1>10. PartsTo(v)[0] = {v} /\ \A d \in 1..Depth : PartsTo(v)[d] = below(PartsTo(v)[d - 1])
  <2>1. PartsTo(v)[0] = K(PartsTo(v))[0] /\ \A d \in 1..Depth : PartsTo(v)[d] = K(PartsTo(v))[d]
    BY <1>8
  <2> QED BY <1>9, <2>1
<1> QED BY <1>10 DEF below

LEMMA ProperFlat ==
  ASSUME NEW v, Proper(v)
  PROVE  Flat(v)
<1>1. PICK V : Closed(V) /\ v \in V
  BY DEF Proper
<1>2. ASSUME NEW w \in V PROVE Items(w) \subseteq V
  <2>1. CASE Type(w) \in {"Array", "Tuple"}
    <3>1. Contents(w) \in Seq(V)
      BY <1>1, <2>1 DEF Closed
    <3>2. Range(Contents(w)) \subseteq V
      BY <3>1 DEF Range
    <3> QED BY <2>1, <3>2 DEF Items
  <2>2. CASE Type(w) \notin {"Array", "Tuple"}
    BY <2>2 DEF Items
  <2> QED BY <2>1, <2>2
<1> DEFINE S == {d \in 0..Depth : PartsTo(v)[d] \subseteq V}
<1>3. Depth \in Nat
  BY DepthAssumption
<1>4. \A d \in 0..Depth : d \in S
  <2>1. 0 \in S
    BY <1>1, <1>3, PartsAt
  <2>2. ASSUME NEW m \in 0..Depth - 1, m \in S PROVE m + 1 \in S
    <3>1. m + 1 \in 1..Depth /\ (m + 1) - 1 = m /\ m + 1 \in 0..Depth
      BY <1>3
    <3>2. PartsTo(v)[m + 1] = PartsTo(v)[m] \cup UNION {Items(part) : part \in PartsTo(v)[m]}
      BY <3>1, PartsAt
    <3>3. PartsTo(v)[m] \subseteq V
      BY <2>2
    <3>4. PartsTo(v)[m + 1] \subseteq V
      BY <1>2, <3>2, <3>3
    <3> QED BY <3>1, <3>4
  <2> HIDE DEF S
  <2> QED BY <1>3, <2>1, <2>2, Induction
<1>5. PartsTo(v)[Depth] \subseteq V
  BY <1>3, <1>4
<1>6. ASSUME NEW part \in V, Type(part) = "Tuple", NEW elem \in Items(part)
      PROVE  Type(elem) # "Tuple"
  <2>1. Contents(part) \in Seq(V) /\ elem \in Range(Contents(part))
    BY <1>1, <1>6 DEF Closed, Items
  <2>2. PICK k \in 1..Len(Contents(part)) : elem = Contents(part)[k]
    BY <2>1 DEF Range
  <2> QED BY <1>1, <1>6, <2>2 DEF Closed
<1> QED BY <1>5, <1>6 DEF Flat

(* However ternaries, commas, arrays and calls are nested, no tuple is in      *)
(* another, at any depth: MergeOperands and SpreadArgs of values.go take tuples *)
(* apart wherever a value is put into one.                                     *)
THEOREM TuplesAlwaysFlat ==
  ASSUME InputsProper
  PROVE  Spec => []TuplesFlat
<1>1. Held => TuplesFlat
  BY ProperFlat DEF Held, FramesHeld, AllProper, TuplesFlat
<1> QED BY <1>1, HeldAlways, PTL

-----------------------------------------------------------------------------
(* What a node means, if it means a value, is proper too.                      *)
MeansProper(i) == Meaning(i).ok => Proper(Meaning(i).val)

LEMMA SpreadsUntupled ==
  ASSUME NEW vals, AllProper(vals), NEW n \in 0..Len(vals)
  PROVE  Untupled(Spreads(vals)[n])
<1> DEFINE N == Len(vals)
           S == {m \in 0..N : Untupled(Spreads(vals)[m])}
<1>1. N \in Nat /\ \A k \in 1..N : Untupled(SpreadArgs(vals[k]))
  BY LenProperties, ProperSpread DEF AllProper
<1>2. /\ Spreads(vals)[0] = <<>>
      /\ N >= 1 => Spreads(vals)[1] = SpreadArgs(vals[1])
      /\ \A k \in 2..N : Spreads(vals)[k] = Spreads(vals)[k - 1] \o SpreadArgs(vals[k])
  BY <1>1, SpreadsAt
<1> HIDE DEF N
<1>3. 0 \in S
  <2>1. Untupled(<<>>)
    BY EmptySeq, OwnRange DEF Untupled, AllProper
  <2> QED BY <1>1, <1>2, <2>1
<1>4. ASSUME NEW m \in 0..N - 1, m \in S PROVE m + 1 \in S
  <2>0. m + 1 \in 1..N /\ m + 1 \in 0..N /\ (m + 1) - 1 = m
    BY <1>1
  <2>1. CASE m = 0
    <3>1. N >= 1 /\ m + 1 = 1
      BY <1>1, <2>0, <2>1
    <3>2. Untupled(Spreads(vals)[1])
      BY <1>1, <1>2, <2>0, <3>1
    <3> QED BY <2>0, <3>1, <3>2
  <2>2. CASE m # 0
    <3>1. m + 1 \in 2..N
      BY <1>1, <2>0, <2>2
    <3>2. Spreads(vals)[m + 1] = Spreads(vals)[m] \o SpreadArgs(vals[m + 1])
      BY <1>2, <2>0, <3>1
    <3>3. Untupled(Spreads(vals)[m]) /\ Untupled(SpreadArgs(vals[m + 1]))
      BY <1>1, <1>4, <2>0
    <3> QED BY <2>0, <3>2, <3>3, UntupledConcat
  <2> QED BY <2>1, <2>2
<1>5. \A m \in 0..N : m \in S
  <2> HIDE DEF S
  <2> QED BY <1>1, <1>3, <1>4, Induction
<1> QED BY <1>5 DEF N

(* The operands' values are proper, if all are there.                          *)
LEMMA OpValsProper ==
  ASSUME WellFormed(prog), NEW i \in 1..Root,
         \A k \in 1..Arity(i) : Meaning(Kid(i, k)).ok /\ MeansProper(Kid(i, k))
  PROVE  AllProper(OpVals(i)) /\ Len(OpVals(i)) = Arity(i) /\ Arity(i) \in Nat
<1>1. Arity(i) \in Nat /\ Len(OpVals(i)) = Arity(i) /\ OpVals(i) \in Seq(Range(OpVals(i)))
  BY OpValsSeq
<1>2. \A k \in 1..Arity(i) : Proper(OpVals(i)[k])
  BY DEF OpVals, MeansProper
<1> QED BY <1>1, <1>2 DEF AllProper

LEMMA EagerProper ==
  ASSUME InputsProper, GivenProper, WellFormed(prog), NEW i \in 1..Root,
         prog[i].kind \notin {"NameHop", "PathExpr", "Ternary", "Logical"},
         \A k \in 1..Arity(i) : MeansProper(Kid(i, k))
  PROVE  MeansProper(i)
<1> SUFFICES ASSUME Meaning(i).ok PROVE Proper(Meaning(i).val)
  BY DEF MeansProper
<1>1. Lazy(prog, ctx)!Eager(i)
  BY DEF Lazy!Eager
<1>2. \A k \in 1..Arity(i) : Meaning(Kid(i, k)).ok
  <2>1. Meaning(i) = Lazy(prog, ctx)!MeaningOf(i, Ops(i))
    BY MeaningsAt DEF Meaning, Ops, Root
  <2>2. ~Lazy(prog, ctx)!Err.ok
    BY DEF Lazy!Err
  <2>3. ~Lazy(prog, ctx)!AllOk(i, Ops(i)) =>
          Lazy(prog, ctx)!MeaningOf(i, Ops(i)) = Lazy(prog, ctx)!Err
    BY <1>1, Zenon DEF Lazy!MeaningOf
  <2>4. Lazy(prog, ctx)!AllOk(i, Ops(i))
    BY <2>1, <2>2, <2>3
  <2> QED BY <2>4, OpsAt DEF Lazy!AllOk, Lazy!Kids, Arity
<1> DEFINE vals == OpVals(i)
           outcome == Lazy(prog, ctx)!Apply(i, vals)
<1>3. Meaning(i) = outcome
  BY <1>2, EagerMeans
<1>4. AllProper(vals) /\ Len(vals) = Arity(i) /\ Arity(i) \in Nat
  BY <1>2, OpValsProper
<1>5. \A k \in 1..Arity(i) : Proper(vals[k])
  BY <1>4 DEF AllProper
<1>6. ArityOk(prog[i]) /\ prog[i].kind \in NodeKinds
  BY DEF WellFormed, Root
<1>7. /\ prog[i].kind = "Literal" => outcome = Ok(prog[i].val)
      /\ prog[i].kind = "ArrayLit" => outcome = Ok(Array(vals))
      /\ prog[i].kind = "CommaList" =>
           outcome = Ok(IF vals = <<>> THEN Null
                        ELSE IF Len(vals) = 1 THEN vals[1]
                        ELSE Tuple(Spreads(vals)[Len(vals)]))
  BY ApplyAt, Zenon
<1>8. /\ prog[i].kind = "Comparison" => outcome = ApplyComparison(prog[i].op, vals[1], vals[2])
      /\ prog[i].kind = "Additive" => outcome = AddOperands(vals[1], vals[2])
      /\ prog[i].kind = "Not" => outcome = Ok(Bool(~Truthy(vals[1])))
  BY ApplyAt, Zenon
<1>9. /\ prog[i].kind = "MemberOfExpr" =>
           outcome = IF Unanswerable(prog[i].op, vals[1]) THEN Err
                     ELSE Ok(Bool(IsMember(ctx, prog[i].op, vals[1])))
      /\ prog[i].kind = "ClassCall" =>
           outcome = IF prog[i].op \in ctx.classes
                       THEN Answer(CallClass(prog[i], Spreads(vals)[Len(vals)])) ELSE Err
      /\ prog[i].kind = "Foreign" => outcome = Err
  BY ApplyAt, Zenon
<1> HIDE DEF vals
<1>10. CASE prog[i].kind = "Literal"
  BY <1>3, <1>7, <1>10, OkValue DEF GivenProper
<1>11. CASE prog[i].kind = "ArrayLit"
  BY <1>3, <1>4, <1>7, <1>11, OkValue, ProperLists
<1>12. CASE prog[i].kind = "CommaList"
  <2>1. Proper(Null)
    BY ProperAtoms
  <2>2. Len(vals) = 1 => Proper(vals[1])
    BY <1>4, <1>5
  <2>3. Proper(Tuple(Spreads(vals)[Len(vals)]))
    <3>1. Len(vals) \in 0..Len(vals)
      BY <1>4
    <3>2. Untupled(Spreads(vals)[Len(vals)])
      BY <1>4, <3>1, SpreadsUntupled
    <3> QED BY <3>2, ProperLists DEF Untupled
  <2> QED BY <1>3, <1>7, <1>12, <2>1, <2>2, <2>3, OkValue
<1>13. CASE prog[i].kind = "Comparison"
  BY <1>3, <1>8, <1>13, ProperComparison
<1>14. CASE prog[i].kind = "Additive"
  <2>0. Len(prog[i].kids) = 2
    BY <1>6, <1>14 DEF ArityOk
  <2>1. 1 \in 1..Arity(i) /\ 2 \in 1..Arity(i)
    BY <2>0 DEF Arity
  <2>2. Proper(vals[1]) /\ Proper(vals[2])
    BY <1>5, <2>1
  <2> QED BY <1>3, <1>8, <1>14, <2>2, ProperSum
<1>15. CASE prog[i].kind = "Not"
  BY <1>3, <1>8, <1>15, OkValue, ProperAtoms
<1>16. CASE prog[i].kind = "MemberOfExpr"
  BY <1>3, <1>9, <1>16, OkValue, ProperAtoms
<1>17. CASE prog[i].kind = "ClassCall"
  <2> DEFINE args == Spreads(vals)[Len(vals)]
             answer == CallClass(prog[i], args)
  <2>1. Untupled(args)
    <3>1. Len(vals) \in 0..Len(vals)
      BY <1>4
    <3> QED BY <1>4, <3>1, SpreadsUntupled
  <2> HIDE DEF args
  <2>2. answer.ok => Proper(answer.val)
    BY <2>1 DEF InputsProper
  <2>3. outcome = Answer(answer) \/ outcome = Err
    BY <1>9, <1>17 DEF args
  <2>4. answer.ok /\ outcome = Ok(answer.val)
    BY <1>3, <2>3, OkValue DEF Answer
  <2> QED BY <1>3, <2>2, <2>4, OkValue
<1>18. CASE prog[i].kind = "Foreign"
  BY <1>3, <1>9, <1>18, OkValue
<1> QED BY <1>6, <1>10, <1>11, <1>12, <1>13, <1>14, <1>15, <1>16, <1>17, <1>18 DEF NodeKinds

LEMMA PathProper ==
  ASSUME GivenProper, WellFormed(prog), NEW i \in 1..Root, prog[i].kind = "PathExpr",
         \A k \in 1..Arity(i) : MeansProper(Kid(i, k))
  PROVE  MeansProper(i)
<1> DEFINE n == Arity(i)
           S == {k \in 0..n : Walked(i)[k].ok => Proper(Walked(i)[k].val)}
<1>1. n \in Nat /\ Meaning(i) = Walked(i)[n]
  BY OpValsSeq, ReferenceMeans
<1>2. 0 \in S
  <2>1. Walked(i)[0] = Ok(IF prog[i].op = "User" THEN ctx.profile ELSE Null)
    BY WalkedAt
  <2>2. Proper(ctx.profile) /\ Proper(Null)
    BY ProperAtoms DEF GivenProper
  <2> QED BY <1>1, <2>1, <2>2, OkValue
<1>3. ASSUME NEW m \in 0..n - 1, m \in S PROVE m + 1 \in S
  <2> DEFINE k == m + 1
             was == Walked(i)[m]
  <2>1. k \in 1..n /\ k - 1 = m /\ k \in 0..n
    BY <1>1
  <2>2. Walked(i)[k] = IF ~Walked(i)[k - 1].ok THEN Err
                       ELSE IF prog[Kid(i, k)].kind # "NameHop" THEN Ops(i)[k]
                       ELSE Ok(Lookup(Walked(i)[k - 1].val, prog[Kid(i, k)].name))
    <3> HIDE DEF k
    <3> QED BY <2>1, WalkedAt
  <2>3. Ops(i)[k] = Meaning(Kid(i, k)) /\ MeansProper(Kid(i, k))
    <3> HIDE DEF k
    <3> QED BY <2>1, OpsAt
  <2>4. was.ok => Proper(was.val)
    BY <1>3
  <2> HIDE DEF k, was
  <2>5. Walked(i)[k - 1] = was
    BY <2>1 DEF was
  <2>6. was.ok => Proper(Lookup(was.val, prog[Kid(i, k)].name))
    BY <2>4, ProperLookup
  <2>7. Walked(i)[k].ok => Proper(Walked(i)[k].val)
    BY <2>2, <2>3, <2>5, <2>6, OkValue DEF MeansProper
  <2>8. k \in S
    BY <2>1, <2>7
  <2> QED BY <2>8 DEF k
<1>4. n \in S
  <2> HIDE DEF S, n
  <2>1. \A k \in 0..n : k \in S
    BY <1>1, <1>2, <1>3, Induction
  <2> QED BY <1>1, <2>1
<1> QED BY <1>1, <1>4 DEF MeansProper

(* A chain comes to one of its operands, or to an error.                       *)
LEMMA ChainProper ==
  ASSUME WellFormed(prog), NEW i \in 1..Root, prog[i].kind = "Logical",
         \A k \in 1..Arity(i) : MeansProper(Kid(i, k))
  PROVE  MeansProper(i)
<1> DEFINE n == Arity(i)
           decides(k) == Ops(i)[k].ok /\ Decided(prog[i].op, Ops(i)[k].val)
           first(k) == (decides(k) \/ k = n) /\ \A j \in 1..k - 1 : ~decides(j)
           stop == CHOOSE k \in 1..n : first(k)
           D == {k \in 1..n : decides(k) \/ k = n}
<1>1. n \in Nat /\ prog[i].kids \in Seq(1..i - 1)
  BY OpValsSeq DEF WellFormed, Root
<1>2. CASE prog[i].kids = <<>>
  BY <1>2, ReferenceMeans, OkValue DEF MeansProper
<1>3. CASE prog[i].kids # <<>>
  <2>1. n \in 1..n
    BY <1>1, <1>3, EmptySeq, LenProperties DEF Arity
  <2>2. \E k \in 1..n : first(k)
    <3> HIDE DEF decides
    <3>1. D # {} /\ D \in SUBSET Nat
      BY <2>1
    <3>2. PICK k \in D : \A j \in D : k <= j
      <4> HIDE DEF D
      <4> QED BY <3>1, Least
    <3>3. k \in 1..n /\ (decides(k) \/ k = n)
      OBVIOUS
    <3>4. \A j \in 1..k - 1 : j \in 1..n /\ ~(k <= j)
      BY <1>1, <3>3
    <3>5. \A j \in 1..k - 1 : ~decides(j)
      BY <3>2, <3>4
    <3> QED BY <3>3, <3>5
  <2>3. stop \in 1..n
    <3> HIDE DEF first
    <3> QED BY <2>2
  <2>4. Lazy(prog, ctx)!Chain(i, Ops(i))
          = IF \A k \in 1..stop : Ops(i)[k].ok THEN Ops(i)[stop] ELSE Lazy(prog, ctx)!Err
    BY DEF Lazy!Chain, Lazy!Kids, Arity, Lazy!Decided, Decided, Lazy!Truthy, Truthy,
       Lazy!Type, Type, Lazy!Contents, Contents, Lazy!Null, Null
  <2>5. Meaning(i) = Lazy(prog, ctx)!Chain(i, Ops(i)) /\ Lazy(prog, ctx)!Err = Err
    BY <1>3, ReferenceMeans, SameOperations
  <2> HIDE DEF stop
  <2>6. Ops(i)[stop] = Meaning(Kid(i, stop)) /\ MeansProper(Kid(i, stop))
    BY <2>3, OpsAt
  <2> QED BY <2>4, <2>5, <2>6, OkValue DEF MeansProper
<1> QED BY <1>2, <1>3

LEMMA TernaryProper ==
  ASSUME WellFormed(prog), NEW i \in 1..Root, prog[i].kind = "Ternary",
         \A k \in 1..Arity(i) : MeansProper(Kid(i, k))
  PROVE  MeansProper(i)
<1>1. ArityOk(prog[i])
  BY DEF WellFormed, Root
<1>2. Len(prog[i].kids) = 3
  BY <1>1 DEF ArityOk
<1>3. 2 \in 1..Arity(i) /\ 3 \in 1..Arity(i)
  BY <1>2 DEF Arity
<1>4. \A k \in {2, 3} : Ops(i)[k] = Meaning(Kid(i, k)) /\ MeansProper(Kid(i, k))
  BY <1>3, OpsAt
<1>5. Meaning(i) = Ops(i)[2] \/ Meaning(i) = Ops(i)[3] \/ Meaning(i) = Err
  BY ReferenceMeans
<1> QED BY <1>4, <1>5, OkValue DEF MeansProper

LEMMA HopProper ==
  ASSUME WellFormed(prog), NEW i \in 1..Root, prog[i].kind = "NameHop"
  PROVE  MeansProper(i)
<1>1. Meaning(i) = Lazy(prog, ctx)!MeaningOf(i, Ops(i))
  BY MeaningsAt DEF Meaning, Ops, Root
<1>2. ~Lazy(prog, ctx)!Eager(i)
  BY DEF Lazy!Eager
<1>3. Lazy(prog, ctx)!MeaningOf(i, Ops(i)) = Lazy(prog, ctx)!Err
  BY <1>2, Zenon DEF Lazy!MeaningOf
<1> QED BY <1>1, <1>3 DEF MeansProper, Lazy!Err

LEMMA MeaningsProper ==
  ASSUME InputsProper, GivenProper, WellFormed(prog), NEW i \in 1..Root
  PROVE  MeansProper(i)
<1> DEFINE S == {m \in 0..Root : \A k \in 1..m : MeansProper(k)}
<1>1. Root \in Nat \ {0} /\ \A j \in 1..Root : \A k \in 1..Arity(j) : Kid(j, k) \in 1..j - 1
  BY TreeShape DEF Root, Arity, Kid
<1>2. ASSUME NEW m \in 0..Root - 1, m \in S PROVE m + 1 \in S
  <2> DEFINE j == m + 1
  <2>1. j \in 1..Root /\ j - 1 = m /\ j \in 0..Root /\ \A k \in 1..j : k = j \/ k \in 1..m
    BY <1>1
  <2>2. \A k \in 1..m : MeansProper(k)
    BY <1>2
  <2> HIDE DEF j
  <2>3. \A k \in 1..Arity(j) : MeansProper(Kid(j, k))
    BY <1>1, <2>1, <2>2
  <2>4. MeansProper(j)
    BY <2>1, <2>3, EagerProper, PathProper, ChainProper, TernaryProper, HopProper, Zenon
  <2>5. j \in S
    BY <2>1, <2>2, <2>4
  <2> QED BY <2>5 DEF j
<1>3. 0 \in S
  BY <1>1
<1>4. \A m \in 0..Root : m \in S
  <2> HIDE DEF S
  <2> QED BY <1>1, <1>2, <1>3, Induction
<1> QED BY <1>1, <1>4

-----------------------------------------------------------------------------
(* Sums.  Two numbers as far apart as a multiple of the width, both between    *)
(* the least int and the largest, are the same number.                         *)
LEMMA SameInWindow ==
  ASSUME NEW M \in Nat \ {0}, NEW H \in Int, NEW u \in Int, NEW v \in Int, NEW d \in Int,
         u = v + M * d, -H <= u, u < M - H, -H <= v, v < M - H
  PROVE  u = v
<1>1. -M < M * d /\ M * d < M
  OBVIOUS
<1>2. ~(d >= 1)
  <2>1. d >= 1 => M * d >= M
    OBVIOUS
  <2> QED BY <1>1, <2>1
<1>3. ~(d <= -1)
  <2>1. d <= -1 => M * d <= -M
    OBVIOUS
  <2> QED BY <1>1, <2>1
<1>4. d = 0
  BY <1>2, <1>3
<1> QED BY <1>4

(* A number wraps around to the int that is a multiple of the width away.      *)
LEMMA WrapsBy ==
  ASSUME NEW n \in Int
  PROVE  LET M == 2 ^ IntBits
             H == 2 ^ (IntBits - 1)
         IN /\ M \in Nat \ {0} /\ H \in Int /\ Wrap(n) \in Int
            /\ -H <= Wrap(n) /\ Wrap(n) < M - H
            /\ \E q \in Int : n = Wrap(n) + M * q
<1> DEFINE M == 2 ^ IntBits
           H == 2 ^ (IntBits - 1)
<1>1. \A k \in Nat : 2 ^ k \in Int
  OBVIOUS
<1>2. H \in Int /\ M \in Nat \ {0}
  BY <1>1, IntBitsAssumption
<1>3. Wrap(n) = ((n + H) % M) - H
  BY DEF Wrap
<1> HIDE DEF M, H
<1> DEFINE a == n + H
<1>4. a \in Int
  BY <1>2
<1> HIDE DEF a
<1>5. a % M \in 0..M - 1 /\ a \div M \in Int /\ a = M * (a \div M) + (a % M)
  BY <1>2, <1>4
<1>6. Wrap(n) = (a % M) - H
  BY <1>3 DEF a
<1> DEFINE q == a \div M
           r == a % M
<1>7. q \in Int /\ r \in 0..M - 1 /\ a = M * q + r /\ Wrap(n) = r - H
  BY <1>5, <1>6
<1> HIDE DEF q, r
<1>8. M * q \in Int
  BY <1>2, <1>7
<1>9. n = Wrap(n) + M * q
  BY <1>2, <1>4, <1>7, <1>8 DEF a
<1>10. Wrap(n) \in Int /\ -H <= Wrap(n) /\ Wrap(n) < M - H
  BY <1>2, <1>7
<1> QED BY <1>2, <1>7, <1>9, <1>10 DEF M, H

(* Wrapping a part of a sum around first changes nothing.                      *)
LEMMA WrapOnce ==
  ASSUME NEW m \in Int, NEW n \in Int
  PROVE  Wrap(Wrap(m) + n) = Wrap(m + n)
<1> DEFINE M == 2 ^ IntBits
           H == 2 ^ (IntBits - 1)
           w == Wrap(m)
           u == Wrap(w + n)
           v == Wrap(m + n)
<1>1. M \in Nat \ {0} /\ H \in Int /\ w \in Int /\ \E q \in Int : m = w + M * q
  BY WrapsBy
<1>2. PICK p \in Int : m = w + M * p
  BY <1>1
<1>3. w + n \in Int /\ m + n \in Int
  BY <1>1
<1>4. /\ u \in Int /\ -H <= u /\ u < M - H
      /\ \E q \in Int : w + n = u + M * q
  BY <1>3, WrapsBy
<1>5. /\ v \in Int /\ -H <= v /\ v < M - H
      /\ \E q \in Int : m + n = v + M * q
  BY <1>3, WrapsBy
<1>6. PICK q1 \in Int : w + n = u + M * q1
  BY <1>4
<1>7. PICK q2 \in Int : m + n = v + M * q2
  BY <1>5
<1> HIDE DEF M, H, w, u, v
<1> DEFINE d == q2 - q1 - p
<1>8. d \in Int /\ M * d = M * q2 - M * q1 - M * p
  BY <1>1
<1>9. M * p \in Int /\ M * q1 \in Int /\ M * q2 \in Int
  BY <1>1
<1> HIDE DEF d
<1>10. u = v + M * d
  BY <1>1, <1>2, <1>4, <1>5, <1>6, <1>7, <1>8, <1>9
<1>11. u = v
  BY <1>1, <1>4, <1>5, <1>8, <1>10, SameInWindow
<1> QED BY <1>11 DEF u, v, w

(* Strings are put together, numbers added: the grouping does not matter.      *)
LEMMA SumIs ==
  ASSUME NEW a, NEW b
  PROVE  /\ AddOperands(a, b).ok =>
              Type(a) = Type(b) /\ Type(a) \in {"string", "int", "float64"}
         /\ Type(a) = Type(b) /\ Type(a) = "string" =>
              AddOperands(a, b) = Ok(Text(Contents(a) \o Contents(b)))
         /\ Type(a) = Type(b) /\ Type(a) = "int" =>
              AddOperands(a, b) = Ok(Number(Wrap(Contents(a) + Contents(b))))
         /\ Type(a) = Type(b) /\ Type(a) = "float64" =>
              AddOperands(a, b) = Ok(Float(Contents(a) + Contents(b)))
BY DEF AddOperands, SameType, Ok, Err

LEMMA Made ==
  \A x : /\ Type(Text(x)) = "string" /\ Contents(Text(x)) = x
         /\ Type(Number(x)) = "int" /\ Contents(Number(x)) = x
         /\ Type(Float(x)) = "float64" /\ Contents(Float(x)) = x
BY DEF Type, Contents, Text, Number, Float

LEMMA SumsAssociate ==
  ASSUME NEW a, Proper(a), NEW b, Proper(b), NEW c, Proper(c),
         AddOperands(b, c).ok, AddOperands(a, AddOperands(b, c).val).ok
  PROVE  AddOperands(AddOperands(a, b).val, c) = AddOperands(a, AddOperands(b, c).val)
<1> DEFINE x == Contents(a)
           y == Contents(b)
           z == Contents(c)
<1>1. Type(b) = Type(c) /\ Type(b) \in {"string", "int", "float64"}
  BY SumIs
<1>2. CASE Type(b) = "string"
  <2>1. AddOperands(b, c).val = Text(y \o z)
    BY <1>1, <1>2, SumIs, OkValue
  <2>2. Type(a) = "string"
    BY <2>1, SumIs, Made
  <2>3. x \in Seq(Nat) /\ y \in Seq(Nat) /\ z \in Seq(Nat)
    BY <1>1, <1>2, <2>2, ProperParts
  <2>4. AddOperands(a, b).val = Text(x \o y)
    BY <1>2, <2>2, SumIs, OkValue
  <2>5. AddOperands(a, AddOperands(b, c).val) = Ok(Text(x \o (y \o z)))
    BY <2>1, <2>2, SumIs, Made
  <2>6. AddOperands(AddOperands(a, b).val, c) = Ok(Text((x \o y) \o z))
    BY <1>1, <1>2, <2>4, SumIs, Made
  <2>7. (x \o y) \o z = x \o (y \o z)
    <3> HIDE DEF x, y, z
    <3> QED BY <2>3
  <2> QED BY <2>5, <2>6, <2>7
<1>3. CASE Type(b) = "int"
  <2>1. AddOperands(b, c).val = Number(Wrap(y + z))
    BY <1>1, <1>3, SumIs, OkValue
  <2>2. Type(a) = "int"
    BY <2>1, SumIs, Made
  <2>3. x \in Int /\ y \in Int /\ z \in Int
    BY <1>1, <1>3, <2>2, ProperParts
  <2>4. AddOperands(a, b).val = Number(Wrap(x + y))
    BY <1>3, <2>2, SumIs, OkValue
  <2>5. AddOperands(a, AddOperands(b, c).val) = Ok(Number(Wrap(x + Wrap(y + z))))
    BY <2>1, <2>2, SumIs, Made
  <2>6. AddOperands(AddOperands(a, b).val, c) = Ok(Number(Wrap(Wrap(x + y) + z)))
    BY <1>1, <1>3, <2>4, SumIs, Made
  <2>7. Wrap(Wrap(x + y) + z) = Wrap(x + Wrap(y + z))
    <3> HIDE DEF x, y, z
    <3>1. x + y \in Int /\ y + z \in Int /\ Wrap(y + z) \in Int
      BY <2>3, WrapInt
    <3>2. Wrap(Wrap(x + y) + z) = Wrap((x + y) + z) /\ Wrap(Wrap(y + z) + x) = Wrap((y + z) + x)
      BY <2>3, <3>1, WrapOnce
    <3>3. (x + y) + z = (y + z) + x /\ x + Wrap(y + z) = Wrap(y + z) + x
      BY <2>3, <3>1
    <3> QED BY <3>2, <3>3
  <2> QED BY <2>5, <2>6, <2>7
<1>4. CASE Type(b) = "float64"
  <2>1. AddOperands(b, c).val = Float(y + z)
    BY <1>1, <1>4, SumIs, OkValue
  <2>2. Type(a) = "float64"
    BY <2>1, SumIs, Made
  <2>3. x \in Int /\ y \in Int /\ z \in Int
    BY <1>1, <1>4, <2>2, ProperParts
  <2>4. AddOperands(a, b).val = Float(x + y)
    BY <1>4, <2>2, SumIs, OkValue
  <2>5. AddOperands(a, AddOperands(b, c).val) = Ok(Float(x + (y + z)))
    BY <2>1, <2>2, SumIs, Made
  <2>6. AddOperands(AddOperands(a, b).val, c) = Ok(Float((x + y) + z))
    BY <1>1, <1>4, <2>4, SumIs, Made
  <2>7. (x + y) + z = x + (y + z)
    BY <2>3
  <2> QED BY <2>5, <2>6, <2>7
<1> QED BY <1>1, <1>2, <1>3, <1>4

(* A sum means the sum of what its operands mean.                              *)
LEMMA SumMeans ==
  ASSUME InputsProper, GivenProper, WellFormed(prog), NEW i \in 1..Root,
         prog[i].kind = "Additive", Meaning(i).ok
  PROVE  /\ Kid(i, 1) \in 1..Root /\ Kid(i, 2) \in 1..Root
         /\ Meaning(Kid(i, 1)).ok /\ Meaning(Kid(i, 2)).ok
         /\ Proper(Meaning(Kid(i, 1)).val) /\ Proper(Meaning(Kid(i, 2)).val)
         /\ Meaning(i) = AddOperands(Meaning(Kid(i, 1)).val, Meaning(Kid(i, 2)).val)
<1>1. ArityOk(prog[i])
  BY DEF WellFormed, Root
<1>2. Len(prog[i].kids) = 2
  BY <1>1 DEF ArityOk
<1>3. Arity(i) = 2 /\ 1 \in 1..Arity(i) /\ 2 \in 1..Arity(i)
  BY <1>2 DEF Arity
<1>4. Root \in Nat /\ \A k \in 1..Arity(i) : Kid(i, k) \in 1..i - 1
  BY TreeShape DEF Root, Arity, Kid
<1>5. Kid(i, 1) \in 1..Root /\ Kid(i, 2) \in 1..Root
  BY <1>3, <1>4
<1>6. \A k \in 1..Arity(i) : Meaning(Kid(i, k)).ok
  <2>1. Meaning(i) = Lazy(prog, ctx)!MeaningOf(i, Ops(i))
    BY MeaningsAt DEF Meaning, Ops, Root
  <2>2. ~Lazy(prog, ctx)!Err.ok
    BY DEF Lazy!Err
  <2>3. Lazy(prog, ctx)!Eager(i)
    BY DEF Lazy!Eager
  <2>4. ~Lazy(prog, ctx)!AllOk(i, Ops(i)) =>
          Lazy(prog, ctx)!MeaningOf(i, Ops(i)) = Lazy(prog, ctx)!Err
    BY <2>3, Zenon DEF Lazy!MeaningOf
  <2>5. Lazy(prog, ctx)!AllOk(i, Ops(i))
    BY <2>1, <2>2, <2>4
  <2> QED BY <2>5, OpsAt DEF Lazy!AllOk, Lazy!Kids, Arity
<1>7. Meaning(i) = AddOperands(OpVals(i)[1], OpVals(i)[2])
  <2>1. Meaning(i) = Lazy(prog, ctx)!Apply(i, OpVals(i))
    BY <1>6, EagerMeans
  <2>2. Lazy(prog, ctx)!Apply(i, OpVals(i)) = AddOperands(OpVals(i)[1], OpVals(i)[2])
    BY ApplyAt, Zenon
  <2> QED BY <2>1, <2>2
<1>8. OpVals(i)[1] = Meaning(Kid(i, 1)).val /\ OpVals(i)[2] = Meaning(Kid(i, 2)).val
  BY <1>3 DEF OpVals
<1>9. Proper(Meaning(Kid(i, 1)).val) /\ Proper(Meaning(Kid(i, 2)).val)
  BY <1>3, <1>5, <1>6, MeaningsProper DEF MeansProper
<1> QED BY <1>3, <1>5, <1>6, <1>7, <1>8, <1>9

(* 1 + (2 + 3), which String writes 1 + 2 + 3, is worth what 1 + 2 + 3 is      *)
(* worth, for numbers of every width: values.go:181 wraps around.              *)
THEOREM SumsAlwaysRegroup ==
  ASSUME InputsProper
  PROVE  Spec => []SumsRegroup
<1>1. ASSUME Fits, Means, Held PROVE SumsRegroup
  <2> DEFINE right == Kid(Root, 2)
             a == Meaning(Kid(Root, 1)).val
             b == Meaning(Kid(right, 1)).val
             c == Meaning(Kid(right, 2)).val
  <2>1. SUFFICES ASSUME status = "Value", prog[Root].kind = "Additive",
                        prog[right].kind = "Additive"
                 PROVE  AddOperands(AddOperands(a, b).val, c) = Ok(result)
    BY DEF SumsRegroup
  <2>2. Meaning(Root) = Ok(result) /\ Meaning(Root).ok
    BY <1>1, <2>1, OkValue DEF Means
  <2>3. GivenProper /\ WellFormed(prog)
    BY <1>1 DEF Held, Fits
  <2>4. Root \in 1..Root
    BY <2>3, TreeShape DEF Root
  <2>5. /\ right \in 1..Root /\ Meaning(right).ok /\ Proper(a)
        /\ Meaning(Root) = AddOperands(a, Meaning(right).val)
    BY <2>1, <2>2, <2>3, <2>4, SumMeans
  <2>6. Proper(b) /\ Proper(c) /\ Meaning(right) = AddOperands(b, c)
    <3> HIDE DEF right
    <3> QED BY <2>1, <2>3, <2>5, SumMeans
  <2> HIDE DEF a, b, c, right
  <2> QED BY <2>2, <2>5, <2>6, SumsAssociate
<1> QED BY <1>1, MeansAlways, HeldAlways, PTL
=============================================================================
