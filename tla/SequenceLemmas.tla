--------------------------- MODULE SequenceLemmas ---------------------------
(* What push, replace and pop do to a stack of frames, and how to reason by    *)
(* induction.                                                                  *)
EXTENDS Integers, Sequences, SequencesExt, SequenceTheorems, WellFoundedInduction, TLAPS

(* Induction over the natural numbers, with sets for predicates: of the        *)
(* numbers at which something fails there is a least one.                      *)
LEMMA Least ==
  ASSUME NEW S \in SUBSET Nat, S # {}
  PROVE  \E k \in S : \A m \in S : k <= m
<1> DEFINE less == OpToRel(<, Nat)
<1>1. IsWellFoundedOn(less, Nat)
  BY NatLessThanWellFounded
<1>2. \A m, k \in Nat : m < k => <<m, k>> \in less
  BY DEF OpToRel
<1> HIDE DEF less
<1>3. PICK k \in S : \A m \in S : ~(<<m, k>> \in less)
  BY <1>1, WFMin
<1>4. ASSUME NEW m \in S PROVE k <= m
  <2>1. ~(m < k)
    BY <1>2, <1>3
  <2> QED BY <2>1
<1> QED BY <1>4

(* What holds of 0 and passes from each number up to N to the next holds of    *)
(* all of them: the numbers of which it holds are the set S.                   *)
LEMMA Induction ==
  ASSUME NEW N \in Nat, NEW S, 0 \in S, \A m \in 0..N - 1 : m \in S => m + 1 \in S
  PROVE  \A m \in 0..N : m \in S
<1> DEFINE fails == {m \in 0..N : m \notin S}
<1>1. SUFFICES ASSUME fails # {} PROVE FALSE
  OBVIOUS
<1>2. PICK k \in fails : \A m \in fails : k <= m
  <2>1. fails \in SUBSET Nat
    OBVIOUS
  <2> HIDE DEF fails
  <2> QED BY <1>1, <2>1, Least
<1>3. k \in 1..N /\ k - 1 \notin fails
  BY <1>2
<1> QED BY <1>2, <1>3

(* The stack after a Push: one frame more, the others as they were.            *)
LEMMA PushProperties ==
  ASSUME NEW S, NEW s \in Seq(S), NEW e \in S
  PROVE  /\ Append(s, e) \in Seq(S)
         /\ Append(s, e) # <<>>
         /\ Len(Append(s, e)) = Len(s) + 1
         /\ \A i \in 1..Len(s) : Append(s, e)[i] = s[i]
         /\ Append(s, e)[Len(s) + 1] = e
  BY AppendProperties

(* The stack after a Replace: only the top frame differs.                      *)
LEMMA ReplaceProperties ==
  ASSUME NEW S, NEW s \in Seq(S), s # <<>>, NEW e \in S
  PROVE  LET t == [s EXCEPT ![Len(s)] = e]
         IN /\ t \in Seq(S)
            /\ t # <<>>
            /\ Len(t) = Len(s)
            /\ \A i \in 1..Len(s) - 1 : t[i] = s[i]
            /\ t[Len(s)] = e
  BY ExceptSeq, LenProperties, EmptySeq

(* The stack after a Pop: the frames below the top.                            *)
LEMMA PopProperties ==
  ASSUME NEW S, NEW s \in Seq(S), s # <<>>
  PROVE  /\ Front(s) \in Seq(S)
         /\ Len(Front(s)) = Len(s) - 1
         /\ \A i \in 1..Len(s) - 1 : Front(s)[i] = s[i]
         /\ Front(s) = <<>> <=> Len(s) = 1
  <1>1. Len(s) \in Nat \ {0} /\ \A i \in 1..Len(s) : s[i] \in S
    BY LenProperties, EmptySeq, ElementOfSeq
  <1>2. \A i \in 1..Len(s) - 1 : s[i] \in S
    BY <1>1
  <1> DEFINE m == Len(s) - 1
             t == SubSeq(s, 1, m)
  <1>3. m \in Nat /\ m - 1 + 1 = m /\ (1 <= m \/ m = 0)
    BY SMTT(30), <1>1
  <1>4. /\ t \in Seq(S)
        /\ Len(t) = IF 1 <= m THEN m - 1 + 1 ELSE 0
        /\ \A i \in 1..m - 1 + 1 : t[i] = s[1 + i - 1]
    <2>1. 1 \in Int /\ m \in Int /\ \A i \in 1..m : s[i] \in S
      BY <1>2, <1>3
    <2> HIDE DEF m
    <2> QED
      BY <2>1, SubSeqProperties
  <1>5. Front(s) = t
    BY DEF Front
  <1>6. Len(t) = m /\ \A i \in 1..m : t[i] = s[i]
    <2> HIDE DEF t, m
    <2> QED
      BY <1>3, <1>4
  <1>7. t = <<>> <=> m = 0
    <2> HIDE DEF t, m
    <2> QED
      BY <1>4, <1>6, EmptySeq
  <1>8. m = 0 <=> Len(s) = 1
    BY <1>1
  <1> QED
    BY <1>4, <1>5, <1>6, <1>7, <1>8

-----------------------------------------------------------------------------
(* The same for sequences whose elements have no type of their own, and what   *)
(* happens when elements are put before or folded.                             *)

(* A sequence is one over its own elements.                                    *)
LEMMA SeqWiden ==
  ASSUME NEW s, s \in Seq(Range(s)), NEW x
  PROVE  /\ Append(s, x) \in Seq(Range(Append(s, x)))
         /\ Len(Append(s, x)) = Len(s) + 1
         /\ Append(s, x)[Len(s) + 1] = x
         /\ \A k \in 1..Len(s) : Append(s, x)[k] = s[k]
<1> DEFINE S == Range(s) \cup {x}
           t == Append(s, x)
<1>1. s \in Seq(S)
  <2>1. Range(s) \subseteq S
    OBVIOUS
  <2> QED BY <2>1
<1>2. t \in Seq(S) /\ Len(t) = Len(s) + 1 /\ t[Len(s) + 1] = x
  BY <1>1
<1>3. \A k \in 1..Len(s) : t[k] = s[k]
  BY <1>1
<1>4. t \in Seq(Range(t))
  BY <1>2 DEF Range
<1> QED BY <1>2, <1>3, <1>4

(* A sequence over any set is one over its own elements.                       *)
LEMMA OwnRange ==
  ASSUME NEW S, NEW s \in Seq(S)
  PROVE  s \in Seq(Range(s))
BY DEF Range

(* The front of a non-empty sequence.                                          *)
LEMMA SeqFront ==
  ASSUME NEW s, s \in Seq(Range(s)), s # <<>>
  PROVE  /\ Front(s) \in Seq(Range(Front(s)))
         /\ Len(Front(s)) = Len(s) - 1
         /\ \A k \in 1..Len(s) - 1 : Front(s)[k] = s[k]
         /\ Len(s) \in Nat \ {0}
         /\ Last(s) = s[Len(s)]
<1> DEFINE S == Range(s)
           t == Front(s)
<1>1. s \in Seq(S) /\ Len(s) \in Nat \ {0}
  BY LenProperties, EmptySeq
<1>2. t \in Seq(S) /\ Len(t) = Len(s) - 1
  BY <1>1, PopProperties
<1>3. \A k \in 1..Len(s) - 1 : t[k] = s[k]
  BY <1>1, PopProperties
<1>4. t \in Seq(Range(t))
  BY <1>2 DEF Range
<1> QED BY <1>1, <1>2, <1>3, <1>4 DEF Last

(* A one-element sequence.                                                     *)
LEMMA SeqOne ==
  ASSUME NEW x
  PROVE  <<x>> \in Seq(Range(<<x>>)) /\ Len(<<x>>) = 1 /\ <<x>>[1] = x
BY DEF Range

(* Two elements, one after the other.                                          *)
LEMMA PairConcat ==
  ASSUME NEW a, NEW b
  PROVE  <<a>> \o <<b>> = <<a, b>>
<1> DEFINE S == {a, b}
           s == <<a>>
           t == <<b>>
<1>1. s \in Seq(S) /\ t \in Seq(S) /\ <<a, b>> \in Seq(S)
  OBVIOUS
<1>2. Len(s) = 1 /\ s[1] = a /\ Len(t) = 1 /\ t[1] = b
  OBVIOUS
<1> HIDE DEF S, s, t
<1>3. /\ s \o t \in Seq(S) /\ Len(s \o t) = Len(s) + Len(t)
      /\ \A i \in 1..Len(s) + Len(t) :
           (s \o t)[i] = IF i <= Len(s) THEN s[i] ELSE t[i - Len(s)]
  BY <1>1, ConcatProperties
<1>4. Len(s \o t) = 2 /\ (s \o t)[1] = a /\ (s \o t)[2] = b
  BY <1>2, <1>3
<1>5. Len(<<a, b>>) = 2 /\ <<a, b>>[1] = a /\ <<a, b>>[2] = b
  OBVIOUS
<1>6. \A i \in 1..Len(s \o t) : (s \o t)[i] = <<a, b>>[i]
  BY <1>4, <1>5
<1>7. s \o t = <<a, b>>
  BY <1>1, <1>3, <1>4, <1>5, <1>6, SeqEqual
<1> QED BY <1>7 DEF s, t

(* A sequence with an element put before it.                                   *)
LEMMA Prepended ==
  ASSUME NEW S, NEW x \in S, NEW s \in Seq(S)
  PROVE  /\ <<x>> \o s \in Seq(S) /\ Len(<<x>> \o s) = Len(s) + 1
         /\ \A k \in 1..Len(s) + 1 : (<<x>> \o s)[k] = (IF k = 1 THEN x ELSE s[k - 1])
<1> DEFINE one == <<x>>
<1>1. one \in Seq(S) /\ Len(one) = 1 /\ one[1] = x
  OBVIOUS
<1>2. Len(s) \in Nat
  BY LenProperties
<1> HIDE DEF one
<1>3. /\ one \o s \in Seq(S) /\ Len(one \o s) = Len(one) + Len(s)
      /\ \A k \in 1..Len(one) + Len(s) :
           (one \o s)[k] = IF k <= Len(one) THEN one[k] ELSE s[k - Len(one)]
  BY <1>1, ConcatProperties, Zenon
<1> DEFINE t == one \o s
<1>4. /\ t \in Seq(S) /\ Len(t) = Len(one) + Len(s)
      /\ \A k \in 1..Len(one) + Len(s) :
           t[k] = IF k <= Len(one) THEN one[k] ELSE s[k - Len(one)]
  BY <1>3
<1> HIDE DEF t
<1>5. ASSUME NEW k \in 1..Len(s) + 1
      PROVE  t[k] = (IF k = 1 THEN one[1] ELSE s[k - 1])
  BY <1>1, <1>2, <1>4
<1>6. t \in Seq(S) /\ Len(t) = Len(s) + 1
  BY <1>1, <1>2, <1>4
<1> QED BY <1>1, <1>5, <1>6 DEF one, t

(* A sequence whose first two elements make way for one.                       *)
LEMMA FoldedSeq ==
  ASSUME NEW S, NEW s \in Seq(S), NEW n, n = Len(s), n > 1, NEW first \in S,
         NEW rest, rest = SubSeq(s, 3, n)
  PROVE  /\ <<first>> \o rest \in Seq(S)
         /\ Len(<<first>> \o rest) = n - 1
         /\ \A k \in 1..n - 1 :
              (<<first>> \o rest)[k] = (IF k = 1 THEN first ELSE s[k + 1])
<1>1. n \in Nat /\ n >= 2 /\ \A k \in 1..n : s[k] \in S
  BY LenProperties, ElementOfSeq
<1>2. 3 \in Int /\ n \in Int /\ \A k \in 3..n : s[k] \in S
  BY <1>1
<1> DEFINE sub == SubSeq(s, 3, n)
<1>3. /\ sub \in Seq(S)
      /\ Len(sub) = (IF 3 <= n THEN n - 3 + 1 ELSE 0)
      /\ \A k \in 1..n - 3 + 1 : sub[k] = s[3 + k - 1]
  BY <1>2, SubSeqProperties
<1>4. rest = sub
  OBVIOUS
<1> HIDE DEF sub
<1>5. /\ rest \in Seq(S) /\ Len(rest) = n - 2
      /\ \A k \in 1..n - 2 : rest[k] = s[k + 2]
  <2>1. Len(sub) = n - 2
    BY <1>1, <1>3
  <2>2. ASSUME NEW k \in 1..n - 2
        PROVE  sub[k] = s[k + 2]
    <3>1. k \in 1..n - 3 + 1 /\ 3 + k - 1 = k + 2
      BY <1>1
    <3> QED BY <1>3, <3>1
  <2> QED BY <1>3, <1>4, <2>1, <2>2
<1> DEFINE t == <<first>> \o rest
<1>6. /\ t \in Seq(S) /\ Len(t) = Len(rest) + 1
      /\ \A k \in 1..Len(rest) + 1 : t[k] = (IF k = 1 THEN first ELSE rest[k - 1])
  BY <1>5, Prepended
<1> HIDE DEF t
<1>7. Len(t) = n - 1
  BY <1>1, <1>5, <1>6
<1>8. ASSUME NEW k \in 1..n - 1
      PROVE  t[k] = (IF k = 1 THEN first ELSE s[k + 1])
  <2>1. t[k] = (IF k = 1 THEN first ELSE rest[k - 1])
    BY <1>1, <1>5, <1>6
  <2>2. CASE k # 1
    <3>1. k - 1 \in 1..n - 2 /\ (k - 1) + 2 = k + 1
      BY <1>1, <2>2
    <3> QED BY <1>5, <2>1, <2>2, <3>1
  <2> QED BY <2>1, <2>2
<1> QED BY <1>6, <1>7, <1>8 DEF t

-----------------------------------------------------------------------------
(* Functions defined recursively, as sequences are folded and flattened.       *)

(* A function may be defined by what it is at each number in terms of what it  *)
(* is at the smaller ones: G takes the values before n, in order, to that at n.*)
Solves(f, A, G) ==
  f \in [Nat -> A] /\ \A n \in Nat : f[n] = G[[i \in 1..n |-> f[i - 1]]]

LEMMA Recursion ==
  ASSUME NEW A, NEW G \in [Seq(A) -> A]
  PROVE  \E f : Solves(f, A, G)
<1> DEFINE Before(g, k) == [i \in 1..k |-> g[i - 1]]
           Part(n) == {g \in [0..n -> A] : \A k \in 0..n : g[k] = G[Before(g, k)]}
<1>1. ASSUME NEW m \in Nat, NEW n \in Nat, NEW g \in Part(m), NEW h \in Part(n)
      PROVE  \A k \in Nat : k <= m /\ k <= n => g[k] = h[k]
  <2> DEFINE differ == {k \in Nat : k <= m /\ k <= n /\ g[k] # h[k]}
  <2>1. SUFFICES ASSUME differ # {} PROVE FALSE
    OBVIOUS
  <2>2. PICK k \in differ : \A j \in differ : k <= j
    <3>1. differ \in SUBSET Nat
      OBVIOUS
    <3> HIDE DEF differ
    <3> QED BY <2>1, <3>1, Least
  <2>3. k \in Nat /\ k <= m /\ k <= n /\ g[k] # h[k]
    OBVIOUS
  <2>4. Before(g, k) = Before(h, k)
    <3>1. ASSUME NEW i \in 1..k PROVE g[i - 1] = h[i - 1]
      <4>1. i - 1 \in Nat /\ i - 1 <= m /\ i - 1 <= n /\ ~(k <= i - 1)
        BY <2>3
      <4>2. i - 1 \notin differ
        BY <2>2, <4>1
      <4> QED BY <4>1, <4>2
    <3> QED BY <3>1
  <2>5. g[k] = G[Before(g, k)] /\ h[k] = G[Before(h, k)]
    <3>1. k \in 0..m /\ k \in 0..n
      BY <2>3
    <3> HIDE DEF Before
    <3> QED BY <3>1
  <2> QED BY <2>3, <2>4, <2>5
<1>2. ASSUME NEW g, NEW k \in Nat, \A j \in 0..k - 1 : g[j] \in A
      PROVE  Before(g, k) \in Seq(A) /\ G[Before(g, k)] \in A
  <2>1. \A i \in 1..k : g[i - 1] \in A
    BY <1>2
  <2> QED BY <2>1
<1>3. ASSUME NEW N \in Nat PROVE Part(N) # {}
  <2> DEFINE S == {n \in Nat : Part(n) # {}}
  <2>1. 0 \in S
    <3> DEFINE g == [k \in 0..0 |-> G[Before(<<>>, 0)]]
    <3>1. G[Before(<<>>, 0)] \in A
      <4>1. 0 \in Nat /\ \A j \in 0..0 - 1 : <<>>[j] \in A
        OBVIOUS
      <4> HIDE DEF Before
      <4> QED BY <1>2, <4>1
    <3>2. Before(g, 0) = Before(<<>>, 0)
      OBVIOUS
    <3>3. g \in Part(0)
      BY <3>1, <3>2
    <3> QED BY <3>3
  <2>2. ASSUME NEW m \in 0..N - 1, m \in S PROVE m + 1 \in S
    <3>1. PICK g \in Part(m) : TRUE
      BY <2>2
    <3> DEFINE new == G[Before(g, m + 1)]
               h == [k \in 0..m + 1 |-> IF k <= m THEN g[k] ELSE new]
    <3>2. \A k \in 0..m : g[k] \in A /\ g[k] = G[Before(g, k)]
      BY <3>1
    <3>3. new \in A
      <4>1. m + 1 \in Nat /\ \A j \in 0..(m + 1) - 1 : g[j] \in A
        BY <3>2
      <4> QED BY <1>2, <4>1
    <3>4. ASSUME NEW k \in 0..m + 1 PROVE Before(h, k) = Before(g, k)
      <4>1. \A i \in 1..k : i - 1 \in 0..m + 1 /\ i - 1 <= m
        OBVIOUS
      <4>2. \A i \in 1..k : h[i - 1] = g[i - 1]
        BY <4>1
      <4> HIDE DEF h
      <4> QED BY <4>2
    <3>5. ASSUME NEW k \in 0..m + 1 PROVE h[k] = G[Before(h, k)]
      <4>1. CASE k <= m
        <5>1. h[k] = g[k] /\ k \in 0..m
          BY <4>1
        <5> HIDE DEF h
        <5> QED BY <3>2, <3>4, <5>1
      <4>2. CASE ~(k <= m)
        <5>1. k = m + 1 /\ h[k] = new
          BY <4>2
        <5>2. new = G[Before(g, m + 1)]
          OBVIOUS
        <5> HIDE DEF h, new
        <5> QED BY <3>4, <5>1, <5>2
      <4> QED BY <4>1, <4>2
    <3>6. h \in [0..m + 1 -> A]
      <4> HIDE DEF new
      <4> QED BY <3>2, <3>3
    <3> HIDE DEF h
    <3>7. h \in Part(m + 1) /\ m + 1 \in Nat
      <4>1. m + 1 \in Nat
        OBVIOUS
      <4> HIDE DEF Before
      <4> QED BY <3>5, <3>6, <4>1
    <3> QED BY <3>7
  <2> HIDE DEF S
  <2>3. \A m \in 0..N : m \in S
    BY <2>1, <2>2, Induction, Zenon
  <2>4. N \in 0..N
    OBVIOUS
  <2>5. N \in S
    BY <2>3, <2>4
  <2> QED BY <2>5 DEF S
<1> DEFINE f == [n \in Nat |-> (CHOOSE g \in Part(n) : TRUE)[n]]
<1>4. \A n \in Nat : (CHOOSE g \in Part(n) : TRUE) \in Part(n)
  BY <1>3
<1>5. ASSUME NEW n \in Nat, NEW k \in 0..n
      PROVE  f[k] = (CHOOSE g \in Part(n) : TRUE)[k] /\ f[k] \in A
  <2> DEFINE g == CHOOSE g \in Part(n) : TRUE
             h == CHOOSE h \in Part(k) : TRUE
  <2>1. k \in Nat /\ k <= n /\ k <= k
    OBVIOUS
  <2>2. g \in Part(n) /\ h \in Part(k) /\ f[k] = h[k]
    BY <1>4, <2>1
  <2> HIDE DEF g, h
  <2>3. h[k] = g[k]
    <3> HIDE DEF Part
    <3> QED BY <1>1, <2>1, <2>2
  <2>4. g[k] \in A
    BY <2>2
  <2> QED BY <2>2, <2>3, <2>4 DEF g
<1>6. ASSUME NEW n \in Nat PROVE f[n] = G[Before(f, n)]
  <2> DEFINE g == CHOOSE g \in Part(n) : TRUE
  <2>1. g \in Part(n) /\ \A k \in 0..n : f[k] = g[k]
    BY <1>4, <1>5
  <2> HIDE DEF g, f
  <2>2. g[n] = G[Before(g, n)] /\ f[n] = g[n]
    BY <2>1
  <2>3. Before(f, n) = Before(g, n)
    <3>1. \A i \in 1..n : i - 1 \in 0..n
      OBVIOUS
    <3>2. \A i \in 1..n : f[i - 1] = g[i - 1]
      BY <2>1, <3>1
    <3> QED BY <3>2
  <2> QED BY <2>2, <2>3
<1>7. f \in [Nat -> A]
  <2>1. ASSUME NEW n \in Nat PROVE f[n] \in A
    <3>1. n \in 0..n
      OBVIOUS
    <3> HIDE DEF f
    <3> QED BY <1>5, <3>1
  <2> DEFINE at(n) == (CHOOSE g \in Part(n) : TRUE)[n]
  <2>2. f = [n \in Nat |-> at(n)]
    OBVIOUS
  <2>3. \A n \in Nat : at(n) \in A
    BY <2>1
  <2> HIDE DEF f, at
  <2> QED BY <2>2, <2>3
<1> HIDE DEF f
<1>8. Solves(f, A, G)
  BY <1>6, <1>7 DEF Solves
<1> QED BY <1>8

(* The same when each value is made from the one before.                       *)
Iterates(f, A, a, N, G) ==
  f \in [0..N -> A] /\ f[0] = a /\ \A k \in 1..N : f[k] = G[k][f[k - 1]]

LEMMA Iteration ==
  ASSUME NEW A, NEW a \in A, NEW N \in Nat, NEW G \in [1..N -> [A -> A]]
  PROVE  \E f : Iterates(f, A, a, N, G)
<1> DEFINE H == [h \in Seq(A) |->
                   IF h = <<>> \/ Len(h) \notin 1..N THEN a ELSE G[Len(h)][h[Len(h)]]]
           Before(f, n) == [i \in 1..n |-> f[i - 1]]
<1>1. H \in [Seq(A) -> A]
  <2>1. ASSUME NEW h \in Seq(A), h # <<>>, Len(h) \in 1..N
        PROVE  G[Len(h)][h[Len(h)]] \in A
    <3>1. h[Len(h)] \in A
      BY <2>1, ElementOfSeq, LenProperties
    <3>2. G[Len(h)] \in [A -> A]
      BY <2>1
    <3> QED BY <3>1, <3>2
  <2> QED BY <2>1
<1>2. PICK f : f \in [Nat -> A] /\ \A n \in Nat : f[n] = H[Before(f, n)]
  <2> HIDE DEF H
  <2>1. PICK f : Solves(f, A, H)
    BY <1>1, Recursion
  <2> QED BY <2>1 DEF Solves
<1>3. ASSUME NEW n \in Nat
      PROVE  Before(f, n) \in Seq(A) /\ Len(Before(f, n)) = n
             /\ \A i \in 1..n : Before(f, n)[i] = f[i - 1]
  <2>1. \A i \in 1..n : f[i - 1] \in A
    BY <1>2
  <2> QED BY <2>1
<1>4. f[0] = a
  <2>1. Before(f, 0) = <<>> /\ Before(f, 0) \in Seq(A)
    BY <1>3, EmptySeq
  <2> HIDE DEF Before
  <2>2. H[Before(f, 0)] = a
    BY <2>1
  <2> QED BY <1>2, <2>2
<1>5. ASSUME NEW k \in 1..N PROVE f[k] = G[k][f[k - 1]]
  <2> DEFINE h == Before(f, k)
  <2>1. k \in Nat
    OBVIOUS
  <2>2. h \in Seq(A) /\ Len(h) = k /\ h[k] = f[k - 1]
    <3>1. k \in 1..k
      OBVIOUS
    <3> HIDE DEF Before
    <3> QED BY <1>3, <2>1, <3>1
  <2>3. f[k] = H[h]
    BY <1>2, <2>1
  <2> HIDE DEF h
  <2>4. h # <<>>
    BY <2>2, EmptySeq
  <2> QED BY <2>2, <2>3, <2>4
<1> DEFINE g == [k \in 0..N |-> f[k]]
<1>6. g \in [0..N -> A] /\ g[0] = a
  <2>1. 0 \in 0..N /\ \A k \in 0..N : k \in Nat
    OBVIOUS
  <2> QED BY <1>2, <1>4, <2>1
<1>7. ASSUME NEW k \in 1..N PROVE g[k] = G[k][g[k - 1]]
  <2>1. k \in 0..N /\ k - 1 \in 0..N
    OBVIOUS
  <2>2. g[k] = f[k] /\ g[k - 1] = f[k - 1]
    BY <2>1
  <2> HIDE DEF g
  <2> QED BY <1>5, <2>2
<1> HIDE DEF g
<1>8. Iterates(g, A, a, N, G)
  BY <1>6, <1>7 DEF Iterates
<1> QED BY <1>8

(* FlattenSeq puts sequences one after the other, from the first to the last.  *)
LEMMA Flattens ==
  ASSUME NEW A, NEW s \in Seq(Seq(A))
  PROVE  /\ FlattenSeq(s) \in Seq(A)
         /\ \E f \in [0..Len(s) -> Seq(A)] :
              /\ f[0] = <<>> /\ FlattenSeq(s) = f[Len(s)]
              /\ \A k \in 1..Len(s) : f[k] = f[k - 1] \o s[k]
<1> DEFINE N == Len(s)
           G == [k \in 1..N |-> [t \in Seq(A) |-> t \o s[k]]]
<1>1. N \in Nat /\ \A k \in 1..N : s[k] \in Seq(A)
  BY LenProperties, ElementOfSeq
<1>2. G \in [1..N -> [Seq(A) -> Seq(A)]]
  BY <1>1
<1>3. PICK f : f \in [0..N -> Seq(A)] /\ f[0] = <<>> /\ \A k \in 1..N : f[k] = G[k][f[k - 1]]
  <2>1. <<>> \in Seq(A)
    OBVIOUS
  <2> HIDE DEF G, N
  <2>2. PICK f : Iterates(f, Seq(A), <<>>, N, G)
    BY <1>1, <1>2, <2>1, Iteration
  <2> QED BY <2>2 DEF Iterates
<1>4. \A k \in 1..N : f[k] = f[k - 1] \o s[k]
  <2>1. ASSUME NEW k \in 1..N PROVE f[k] = f[k - 1] \o s[k]
    <3>1. k - 1 \in 0..N
      BY <1>1
    <3>2. f[k - 1] \in Seq(A)
      BY <1>3, <3>1
    <3> QED BY <1>3, <3>2
  <2> QED BY <2>1
<1>5. FlattenSeq(s) = f[N]
  <2>1. CASE N = 0
    <3>1. s = <<>>
      BY <2>1, EmptySeq
    <3> QED BY <1>3, <2>1, <3>1 DEF FlattenSeq
  <2>2. CASE N # 0
    <3> DEFINE P(g) == g = [i \in 1..N |-> IF i = 1 THEN s[i] ELSE g[i - 1] \o s[i]]
               r == [k \in 1..N |-> f[k]]
    <3>1. ASSUME NEW i \in 1..N
          PROVE  r[i] = IF i = 1 THEN s[i] ELSE r[i - 1] \o s[i]
      <4>1. CASE i = 1
        <5>1. f[1] = f[0] \o s[1] /\ s[1] \in Seq(A) /\ f[0] = <<>>
          <6>1. 1 \in 1..N /\ 1 - 1 = 0
            BY <1>1, <2>2
          <6> QED BY <1>1, <1>3, <1>4, <6>1
        <5>2. <<>> \o s[1] = s[1]
          BY <5>1, ConcatEmptySeq
        <5> QED BY <4>1, <5>1, <5>2
      <4>2. CASE i # 1
        <5>1. i - 1 \in 1..N
          BY <1>1, <4>2
        <5> QED BY <1>4, <4>2, <5>1
      <4> QED BY <4>1, <4>2
    <3>2. P(r)
      <4>1. r = [k \in 1..N |-> r[k]]
        OBVIOUS
      <4> HIDE DEF r, N
      <4> QED BY <3>1, <4>1
    <3> DEFINE g == CHOOSE g : P(g)
    <3>3. P(g)
      <4> HIDE DEF r, P
      <4> QED BY <3>2
    <3>4. \A i \in 1..N : g[i] = IF i = 1 THEN s[i] ELSE g[i - 1] \o s[i]
      <4> HIDE DEF g, N
      <4> QED BY <3>3
    <3>5. FlattenSeq(s) = g[N]
      BY <2>2 DEF FlattenSeq
    <3> HIDE DEF g, P
    <3> DEFINE same == {k \in 0..N : k = 0 \/ g[k] = r[k]}
    <3>6. \A k \in 0..N : k \in same
      <4>1. ASSUME NEW m \in 0..N - 1, m \in same PROVE m + 1 \in same
        <5>1. m + 1 \in 1..N /\ m + 1 \in 0..N /\ (m + 1) - 1 = m
          BY <1>1
        <5>2. CASE m = 0
          <6>1. m + 1 = 1
            BY <5>2
          <6> HIDE DEF r
          <6> QED BY <3>1, <3>4, <5>1, <6>1
        <5>3. CASE m # 0
          <6>1. m + 1 # 1 /\ g[m] = r[m]
            BY <4>1, <5>3
          <6> HIDE DEF r
          <6> QED BY <3>1, <3>4, <5>1, <6>1
        <5> QED BY <5>2, <5>3
      <4>2. 0 \in same
        BY <1>1
      <4> HIDE DEF same, N
      <4> QED BY <1>1, <4>1, <4>2, Induction, Zenon
    <3>7. N \in 0..N /\ N \in 1..N
      BY <1>1, <2>2
    <3>8. g[N] = r[N]
      <4>1. N \in same
        <5> HIDE DEF same
        <5> QED BY <3>6, <3>7
      <4> QED BY <2>2, <4>1
    <3> QED BY <3>5, <3>7, <3>8
  <2> QED BY <2>1, <2>2
<1>6. f[N] \in Seq(A)
  <2>1. N \in 0..N
    BY <1>1
  <2> QED BY <1>3, <2>1
<1> QED BY <1>3, <1>4, <1>5, <1>6

-----------------------------------------------------------------------------
(* Where the pieces of FlattenSeq(s) end.                                      *)
Cuts(e, s) ==
  /\ e \in [0..Len(s) -> Nat]
  /\ e[0] = 0 /\ e[Len(s)] = Len(FlattenSeq(s))
  /\ \A k \in 1..Len(s) :
       /\ e[k] = e[k - 1] + Len(s[k]) /\ e[k] <= Len(FlattenSeq(s))
       /\ \A l \in 1..Len(s[k]) : FlattenSeq(s)[e[k - 1] + l] = s[k][l]

LEMMA FlatPieces ==
  ASSUME NEW A, NEW s \in Seq(Seq(A))
  PROVE  FlattenSeq(s) \in Seq(A) /\ \E e : Cuts(e, s)
<1> DEFINE N == Len(s)
           F == FlattenSeq(s)
<1>1. N \in Nat /\ \A k \in 1..N : s[k] \in Seq(A) /\ Len(s[k]) \in Nat
  BY LenProperties, ElementOfSeq
<1>2. PICK f \in [0..N -> Seq(A)] :
        f[0] = <<>> /\ F = f[N] /\ \A k \in 1..N : f[k] = f[k - 1] \o s[k]
  BY Flattens
<1>3. F \in Seq(A)
  BY Flattens
<1> HIDE DEF N, F
<1> DEFINE Goes(a, m) == /\ Len(f[a]) <= Len(f[m])
                         /\ \A l \in 1..Len(f[a]) : f[m][l] = f[a][l]
           e == [a \in 0..N |-> Len(f[a])]
<1>4. \A k \in 0..N : f[k] \in Seq(A) /\ Len(f[k]) \in Nat
  BY <1>2, LenProperties
<1>5. ASSUME NEW k \in 1..N
      PROVE  /\ k - 1 \in 0..N /\ k \in 0..N
             /\ Len(f[k]) = Len(f[k - 1]) + Len(s[k])
             /\ \A l \in 1..Len(f[k - 1]) : f[k][l] = f[k - 1][l]
             /\ \A l \in 1..Len(s[k]) : f[k][Len(f[k - 1]) + l] = s[k][l]
  <2>1. k - 1 \in 0..N /\ k \in 0..N
    BY <1>1
  <2> DEFINE a == f[k - 1]
             b == s[k]
  <2>2. a \in Seq(A) /\ b \in Seq(A) /\ Len(a) \in Nat /\ Len(b) \in Nat /\ f[k] = a \o b
    BY <1>1, <1>2, <1>4, <2>1
  <2> HIDE DEF a, b
  <2>3. Len(a \o b) = Len(a) + Len(b) /\ \A l \in 1..Len(a) + Len(b) :
          (a \o b)[l] = IF l <= Len(a) THEN a[l] ELSE b[l - Len(a)]
    BY <2>2, ConcatProperties
  <2>4. \A l \in 1..Len(a) : (a \o b)[l] = a[l]
    BY <2>2, <2>3
  <2>5. ASSUME NEW l \in 1..Len(b) PROVE (a \o b)[Len(a) + l] = b[l]
    <3>1. Len(a) + l \in 1..Len(a) + Len(b) /\ ~(Len(a) + l <= Len(a)) /\ Len(a) + l - Len(a) = l
      BY <2>2
    <3> QED BY <2>3, <3>1
  <2> QED BY <2>1, <2>2, <2>3, <2>4, <2>5 DEF a, b
<1>6. ASSUME NEW k \in 0..N PROVE Goes(k, N)
  <2> DEFINE S == {m \in 0..N : k <= m => Goes(k, m)}
  <2>1. 0 \in S
    <3>1. k <= 0 => k = 0
      BY <1>1
    <3> QED BY <1>1, <1>4, <3>1
  <2>2. ASSUME NEW m \in 0..N - 1, m \in S PROVE m + 1 \in S
    <3> DEFINE j == m + 1
    <3>1. j \in 1..N /\ j \in 0..N /\ j - 1 = m /\ m \in 0..N /\ (k <= j => k = j \/ k <= m)
      BY <1>1
    <3> HIDE DEF j
    <3>2. CASE k = j
      BY <1>4, <3>1, <3>2
    <3>3. CASE k <= m
      <4>1. Goes(k, m)
        BY <2>2, <3>3
      <4>2. Len(f[j]) = Len(f[m]) + Len(s[j]) /\ \A l \in 1..Len(f[m]) : f[j][l] = f[m][l]
        BY <1>5, <3>1
      <4>3. Len(s[j]) \in Nat /\ Len(f[m]) \in Nat /\ Len(f[k]) \in Nat
        BY <1>1, <1>4, <3>1
      <4> DEFINE x == Len(f[k])
                 y == Len(f[m])
                 z == Len(f[j])
                 w == Len(s[j])
      <4>4. x <= z
        <5>1. x <= y
          BY <4>1
        <5>2. z = y + w
          BY <4>2
        <5>3. w \in Nat /\ y \in Nat /\ x \in Nat
          BY <4>3
        <5> HIDE DEF x, y, z, w
        <5> QED BY <5>1, <5>2, <5>3
      <4>5. \A l \in 1..Len(f[k]) : l \in 1..Len(f[m])
        BY <4>1, <4>3
      <4>6. \A l \in 1..Len(f[k]) : f[j][l] = f[k][l]
        BY <4>1, <4>2, <4>5
      <4>7. Goes(k, j)
        BY <4>4, <4>6
      <4> QED BY <3>1, <4>7
    <3>4. j \in S
      BY <3>1, <3>2, <3>3
    <3> QED BY <3>4 DEF j
  <2>3. \A m \in 0..N : m \in S
    <3> HIDE DEF S
    <3> QED BY <1>1, <2>1, <2>2, Induction
  <2> QED BY <1>1, <2>3
<1>7. e \in [0..N -> Nat] /\ e[0] = 0 /\ e[N] = Len(F) /\ \A k \in 0..N : e[k] = Len(f[k])
  BY <1>1, <1>2, <1>4
<1> HIDE DEF e
<1>8. ASSUME NEW k \in 1..N
      PROVE  /\ e[k] = e[k - 1] + Len(s[k]) /\ e[k] <= Len(F)
             /\ \A l \in 1..Len(s[k]) : F[e[k - 1] + l] = s[k][l]
  <2>1. k - 1 \in 0..N /\ k \in 0..N /\ e[k] = Len(f[k]) /\ e[k - 1] = Len(f[k - 1])
    BY <1>5, <1>7
  <2>2. Len(f[k]) = Len(f[k - 1]) + Len(s[k])
    BY <1>5
  <2>3. Goes(k, N)
    BY <1>6, <2>1
  <2>4. ASSUME NEW l \in 1..Len(s[k]) PROVE F[e[k - 1] + l] = s[k][l]
    <3>1. e[k - 1] + l \in 1..Len(f[k])
      BY <1>1, <1>4, <2>1, <2>2
    <3>2. f[k][Len(f[k - 1]) + l] = s[k][l]
      BY <1>5
    <3> QED BY <1>2, <2>1, <2>3, <3>1, <3>2
  <2> QED BY <1>2, <2>1, <2>2, <2>3, <2>4
<1>9. Cuts(e, s)
  BY <1>7, <1>8 DEF Cuts, N, F
<1> QED BY <1>3, <1>9 DEF F
=============================================================================
