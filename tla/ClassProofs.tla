----------------------------- MODULE ClassProofs -----------------------------
(* What the expression classes compute, for every text, every index, every     *)
(* float and every table of countries: first their shared helpers, then the    *)
(* methods by themselves, and last what holds however calls are nested, the    *)
(* invariants of Classes.                                                      *)
EXTENDS Classes, SequenceLemmas

(* pySliceBound: an index from either end lands in the text or at its end, and *)
LEMMA BoundRange ==
  ASSUME NEW idx \in Int, NEW n \in Nat
  PROVE  PySliceBound(idx, n) \in 0..n
BY DEF PySliceBound

(* the positions from there on are those that are not before the index.        *)
LEMMA BoundMeans ==
  ASSUME NEW idx \in Int, NEW n \in Nat, NEW p \in 0..n - 1
  PROVE  (IF idx < 0 THEN p - n ELSE p) >= idx <=> p >= PySliceBound(idx, n)
BY DEF PySliceBound

LEMMA Positions ==
  ASSUME NEW first \in Int, NEW last \in Int, NEW n \in Nat, NEW p \in 0..n - 1
  PROVE  InSlice(p, first, last, n) <=>
           p >= PySliceBound(first, n) /\ p < PySliceBound(last, n)
<1>1. (IF first < 0 THEN p - n ELSE p) >= first <=> p >= PySliceBound(first, n)
  BY BoundMeans
<1>2. (IF last < 0 THEN p - n ELSE p) >= last <=> p >= PySliceBound(last, n)
  BY BoundMeans
<1>3. PySliceBound(first, n) \in 0..n /\ PySliceBound(last, n) \in 0..n
  BY BoundRange
<1> QED BY <1>1, <1>2, <1>3 DEF InSlice

(* What s[a:b] of Go is.                                                       *)
LEMMA Cut ==
  ASSUME NEW S, NEW s \in Seq(S), NEW a \in 0..Len(s), NEW b \in 0..Len(s)
  PROVE  /\ Len(s) \in Nat
         /\ a <= b => Len(SubSeq(s, a + 1, b)) = b - a
         /\ a > b => SubSeq(s, a + 1, b) = <<>> /\ SubSeq(s, 1, 0) = <<>>
<1>1. Len(s) \in Nat
  BY LenProperties
<1>2. a <= b => Len(SubSeq(s, a + 1, b)) = b - a
  BY <1>1
<1>3. a > b => SubSeq(s, a + 1, b) = <<>>
  BY <1>1, SubSeqEmpty
<1>4. SubSeq(s, 1, 0) = <<>>
  BY SubSeqEmpty
<1> QED BY <1>1, <1>2, <1>3, <1>4

(* pySlice, whatever its bounds: positive or negative, in the text or far from *)
(* it, in order or not, the slice is Python's.                                 *)
THEOREM SlicesArePythons ==
  ASSUME NEW S, NEW s \in Seq(S), NEW start \in Int, NEW end \in Int
  PROVE  IsSlice(PySlice(s, start, end), s, start, end)
<1> DEFINE a == PySliceBound(start, Len(s))
           b == PySliceBound(end, Len(s))
           part == PySlice(s, start, end)
<1>1. Len(s) \in Nat
  BY LenProperties
<1>2. a \in 0..Len(s) /\ b \in 0..Len(s)
  BY <1>1, BoundRange
<1>3. \A p \in 0..Len(s) - 1 : InSlice(p, start, end, Len(s)) <=> p >= a /\ p < b
  BY <1>1, Positions
<1>4. part = SubSeq(s, a + 1, b)
  BY DEF PySlice
<1> HIDE DEF a, b, part
<1>5. \E k \in 0..Len(s) :
        /\ k + Len(part) <= Len(s) /\ part = SubSeq(s, k + 1, k + Len(part))
        /\ \A p \in 0..Len(s) - 1 :
             InSlice(p, start, end, Len(s)) <=> p \in k..k + Len(part) - 1
  <2>1. CASE a <= b
    <3>1. Len(part) = b - a
      BY <1>2, <1>4, <2>1, Cut
    <3>2. part = SubSeq(s, a + 1, a + Len(part)) /\ a + Len(part) <= Len(s)
      <4>1. a + Len(part) = b
        BY <1>1, <1>2, <3>1
      <4> QED BY <1>1, <1>2, <1>4, <4>1
    <3>3. \A p \in 0..Len(s) - 1 :
            InSlice(p, start, end, Len(s)) <=> p \in a..a + Len(part) - 1
      BY <1>1, <1>2, <1>3, <3>1
    <3> QED BY <1>2, <3>2, <3>3
  <2>2. CASE a > b
    <3>1. part = <<>> /\ SubSeq(s, 1, 0) = <<>> /\ Len(part) = 0
      BY <1>2, <1>4, <2>2, Cut, EmptySeq
    <3>2. PICK k \in 0..Len(s) : k = 0
      BY <1>1
    <3>3. k + Len(part) <= Len(s) /\ part = SubSeq(s, k + 1, k + Len(part))
      <4>1. k + Len(part) = 0 /\ k + 1 = 1
        BY <3>1, <3>2
      <4> QED BY <1>1, <3>1, <4>1
    <3>4. \A p \in 0..Len(s) - 1 :
            InSlice(p, start, end, Len(s)) <=> p \in k..k + Len(part) - 1
      BY <1>1, <1>2, <1>3, <2>2, <3>1, <3>2
    <3> WITNESS k \in 0..Len(s)
    <3> QED BY <3>3, <3>4
  <2>3. a <= b \/ a > b
    BY <1>1, <1>2
  <2> QED BY <2>1, <2>2, <2>3, Zenon
<1>6. IsSlice(part, s, start, end)
  BY <1>5 DEF IsSlice
<1> QED BY <1>6 DEF part

-----------------------------------------------------------------------------
(* What math.Round gives for a float that is not negative.                     *)
LEMMA RoundedUp ==
  ASSUME NEW q \in Nat
  PROVE  /\ (2 * q + Quarters) \div (2 * Quarters) \in Nat
         /\ Quarters * ((2 * q + Quarters) \div (2 * Quarters)) - q \in -1..2
BY DEF Quarters

(* Convert.toInt of every float: no whole number is nearer, halves go away     *)
(* from zero, and a float and its negation are rounded alike.                  *)
THEOREM RoundsToNearest ==
  ASSUME NEW q \in Int
  PROVE  /\ Rounded(q) \in Int /\ Rounded(-q) = -Rounded(q)
         /\ q >= 0 => Quarters * Rounded(q) - q \in -1..2
         /\ q <= 0 => q - Quarters * Rounded(q) \in -1..2
<1>1. CASE q > 0
  <2>1. -q < 0 /\ -(-q) = q /\ ~(q < 0) /\ q \in Nat
    BY <1>1
  <2>2. /\ Rounded(q) = (2 * q + Quarters) \div (2 * Quarters)
        /\ Rounded(-q) = -((2 * q + Quarters) \div (2 * Quarters))
    BY <2>1 DEF Rounded
  <2> QED BY <1>1, <2>1, <2>2, RoundedUp DEF Quarters
<1>2. CASE q < 0
  <2>1. ~(-q < 0) /\ -q \in Nat
    BY <1>2
  <2>2. /\ Rounded(q) = -((2 * (-q) + Quarters) \div (2 * Quarters))
        /\ Rounded(-q) = (2 * (-q) + Quarters) \div (2 * Quarters)
    BY <1>2, <2>1 DEF Rounded
  <2> DEFINE m == (2 * (-q) + Quarters) \div (2 * Quarters)
  <2>3. m \in Nat /\ Quarters * m - (-q) \in -1..2
    BY <2>1, RoundedUp
  <2> HIDE DEF m
  <2>4. Rounded(q) = -m /\ Rounded(-q) = m
    BY <2>2 DEF m
  <2> QED BY <1>2, <2>3, <2>4 DEF Quarters
<1>3. CASE q = 0
  <2>0. q >= 0 /\ q <= 0
    BY <1>3
  <2>1. q \in Nat /\ ~(q < 0) /\ -q = q
    BY <2>0
  <2>2. Rounded(q) = (2 * q + Quarters) \div (2 * Quarters)
    BY <2>1 DEF Rounded
  <2>3. Rounded(q) \in Nat /\ Quarters * Rounded(q) - q \in -1..2
    BY <2>1, <2>2, RoundedUp
  <2>4. Rounded(q) = 0
    BY <1>3, <2>3 DEF Quarters
  <2> QED BY <1>3, <2>1, <2>4 DEF Quarters
<1>4. q > 0 \/ q < 0 \/ q = 0
  OBVIOUS
<1> QED BY <1>1, <1>2, <1>3, <1>4, Zenon

-----------------------------------------------------------------------------
LEMMA Longer ==
  ASSUME NEW k \in Nat, k > 3
  PROVE  k # 0 /\ k # 1 /\ k # 2 /\ k # 3
OBVIOUS

(* Every column of every row of the table, in any case, finds its country: no  *)
(* name or code is taken for one of another column, or for another country's.  *)
THEOREM EveryCodeFindsItsCountry ==
  ASSUME NEW i \in Rows, NEW column \in Columns
  PROVE  FindCountry(Table[i][column]) = i
<1>1. /\ Len(Table[i].Name) > 3 /\ Len(Table[i].Alpha2) = 2
      /\ Len(Table[i].Alpha3) = 3 /\ ~Atoi(Table[i].Alpha3).ok
      /\ Len(Table[i].Numeric) = 3 /\ Atoi(Table[i].Numeric).ok
      /\ \A j \in Rows : Folded(i, column) = Folded(j, column) => i = j
  BY TableAssumption
<1>2. IdentifierType(Table[i][column]) = column
  <2> DEFINE s == Table[i][column]
  <2>1. \/ column = "Name" /\ Len(s) > 3
        \/ column = "Alpha2" /\ Len(s) = 2
        \/ column = "Alpha3" /\ Len(s) = 3 /\ ~Atoi(s).ok
        \/ column = "Numeric" /\ Len(s) = 3 /\ Atoi(s).ok
    BY <1>1 DEF Columns
  <2>2. Len(s) \in Nat
    <3>1. Table[i] \in [Columns -> Seq(Nat)]
      BY TableAssumption, ElementOfSeq DEF Rows
    <3> QED BY <3>1, LenProperties
  <2> HIDE DEF s
  <2>3. IdentifierType(s) = column
    <3>1. CASE column = "Name"
      <4>1. Len(s) > 3
        BY <2>1, <3>1
      <4>2. Len(s) # 0 /\ Len(s) # 1 /\ Len(s) # 2 /\ Len(s) # 3
        BY <2>2, <4>1, Longer
      <4>3. Len(s) \notin {0, 1, 3}
        BY <4>2, Zenon
      <4> QED BY <3>1, <4>1, <4>2, <4>3, Zenon DEF IdentifierType
    <3>2. CASE column = "Alpha2"
      <4>1. Len(s) = 2
        BY <2>1, <3>2
      <4> QED BY <3>2, <4>1 DEF IdentifierType
    <3>3. CASE column = "Alpha3"
      <4>1. Len(s) = 3 /\ ~Atoi(s).ok
        BY <2>1, <3>3
      <4> QED BY <3>3, <4>1 DEF IdentifierType
    <3>4. CASE column = "Numeric"
      <4>1. Len(s) = 3 /\ Atoi(s).ok
        BY <2>1, <3>4
      <4> QED BY <3>4, <4>1 DEF IdentifierType
    <3> QED BY <3>1, <3>2, <3>3, <3>4 DEF Columns
  <2> QED BY <2>3 DEF s
<1>3. {j \in Rows : Folded(j, column) = ToLower(Table[i][column])} = {i}
  BY <1>1 DEF Folded
<1> DEFINE rows == {j \in Rows : Folded(j, column) = ToLower(Table[i][column])}
<1>4. FindCountry(Table[i][column]) =
        IF rows = {} THEN 0 ELSE CHOOSE k \in rows : \A j \in rows : k <= j
  BY <1>2 DEF FindCountry
<1>5. i \in Int
  BY TableAssumption, LenProperties DEF Rows
<1>6. (CHOOSE k \in rows : \A j \in rows : k <= j) = i
  BY <1>3, <1>5
<1> QED BY <1>3, <1>4, <1>6

-----------------------------------------------------------------------------
LEMMA Tenth ==
  ASSUME NEW n \in Nat, n >= 10
  PROVE  /\ n \div 10 \in Nat /\ n \div 10 < n /\ n % 10 \in 0..9
         /\ n \div 10 + 1 \in 1..n /\ 48 + (n % 10) \in 48..57
         /\ n = 10 * (n \div 10) + (n % 10)
OBVIOUS

(* Decimal writes digits.                                                      *)
LEMMA Decimals ==
  /\ Decimal \in [Nat -> Seq(48..57)]
  /\ \A n \in Nat :
       Decimal[n] = IF n < 10 THEN <<48 + n>> ELSE Append(Decimal[n \div 10], 48 + (n % 10))
<1> DEFINE A == Seq(48..57)
           P(f) == f = [n \in Nat |-> IF n < 10 THEN <<48 + n>>
                                      ELSE Append(f[n \div 10], 48 + (n % 10))]
           G == [h \in Seq(A) |-> IF Len(h) < 10 THEN <<48 + Len(h)>>
                                  ELSE Append(h[Len(h) \div 10 + 1], 48 + (Len(h) % 10))]
           Upto(f, n) == [i \in 1..n |-> f[i - 1]]
<1>1. G \in [Seq(A) -> A]
  <2>1. ASSUME NEW h \in Seq(A), Len(h) < 10 PROVE <<48 + Len(h)>> \in A
    <3>1. 48 + Len(h) \in 48..57
      BY <2>1, LenProperties
    <3> QED BY <3>1
  <2>2. ASSUME NEW h \in Seq(A), ~(Len(h) < 10)
        PROVE  Append(h[Len(h) \div 10 + 1], 48 + (Len(h) % 10)) \in A
    <3>1. Len(h) \in Nat /\ Len(h) >= 10
      BY <2>2, LenProperties
    <3>2. Len(h) \div 10 + 1 \in 1..Len(h) /\ 48 + (Len(h) % 10) \in 48..57
      BY <3>1, Tenth, Zenon
    <3>3. h[Len(h) \div 10 + 1] \in A
      BY <3>2, ElementOfSeq
    <3> QED BY <3>2, <3>3, AppendProperties
  <2> HIDE DEF A
  <2> QED BY <2>1, <2>2
<1>2. PICK f : Solves(f, A, G)
  <2> HIDE DEF A, G
  <2> QED BY <1>1, Recursion
<1>3. f \in [Nat -> A] /\ \A n \in Nat : f[n] = G[Upto(f, n)]
  <2> HIDE DEF A, G
  <2> QED BY <1>2 DEF Solves
<1>4. ASSUME NEW n \in Nat
      PROVE  f[n] = IF n < 10 THEN <<48 + n>> ELSE Append(f[n \div 10], 48 + (n % 10))
  <2> DEFINE h == Upto(f, n)
  <2>1. h \in Seq(A) /\ Len(h) = n /\ \A i \in 1..n : h[i] = f[i - 1]
    <3>1. \A i \in 1..n : f[i - 1] \in A
      BY <1>3
    <3> HIDE DEF A, G
    <3> QED BY <3>1
  <2>2. f[n] = G[h]
    BY <1>3
  <2> HIDE DEF h
  <2>3. G[h] = IF n < 10 THEN <<48 + n>> ELSE Append(h[n \div 10 + 1], 48 + (n % 10))
    <3> HIDE DEF A
    <3> QED BY <2>1
  <2>4. n >= 10 => h[n \div 10 + 1] = f[n \div 10]
    <3>1. ASSUME n >= 10 PROVE n \div 10 + 1 \in 1..n /\ (n \div 10 + 1) - 1 = n \div 10
      BY <3>1, Tenth
    <3> QED BY <2>1, <3>1
  <2>5. n < 10 \/ n >= 10
    OBVIOUS
  <2> HIDE DEF G
  <2> QED BY <2>2, <2>3, <2>4, <2>5
<1>5. P(f)
  <2>1. f = [n \in Nat |-> f[n]]
    BY <1>3
  <2> QED BY <1>4, <2>1
<1>6. P(Decimal)
  <2>1. Decimal = CHOOSE d : P(d)
    BY DEF Decimal
  <2> HIDE DEF P
  <2> QED BY <1>5, <2>1
<1>7. \A n \in Nat :
        Decimal[n] = IF n < 10 THEN <<48 + n>> ELSE Append(Decimal[n \div 10], 48 + (n % 10))
  BY <1>6
<1>8. ASSUME NEW n \in Nat PROVE Decimal[n] \in A
  <2> DEFINE fails == {m \in Nat : Decimal[m] \notin A}
  <2>1. SUFFICES ASSUME fails # {} PROVE FALSE
    OBVIOUS
  <2>2. PICK k \in fails : \A m \in fails : k <= m
    <3>1. fails \in SUBSET Nat
      OBVIOUS
    <3> HIDE DEF fails
    <3> QED BY <2>1, <3>1, Least
  <2>3. CASE k < 10
    <3>1. Decimal[k] = <<48 + k>> /\ 48 + k \in 48..57
      <4>1. k \in Nat
        BY <2>2
      <4> HIDE DEF fails
      <4>2. Decimal[k] = <<48 + k>>
        BY <1>7, <2>3, <4>1, Zenon
      <4>3. 48 + k \in 48..57
        BY <2>3, <4>1
      <4> QED BY <4>2, <4>3
    <3>2. Decimal[k] \in A
      BY <3>1
    <3> QED BY <3>2
  <2>4. CASE ~(k < 10)
    <3>1. k \div 10 \in Nat /\ ~(k <= k \div 10) /\ k % 10 \in 0..9
      BY <2>4, Tenth
    <3>2. Decimal[k \div 10] \in A /\ 48 + (k % 10) \in 48..57
      BY <2>2, <3>1
    <3>3. Decimal[k] = Append(Decimal[k \div 10], 48 + (k % 10))
      BY <1>7, <2>4
    <3>4. Decimal[k] \in A
      BY <3>2, <3>3, AppendProperties
    <3> QED BY <3>4
  <2> QED BY <2>3, <2>4
<1>9. Decimal \in [Nat -> A]
  <2>1. Decimal = [n \in Nat |-> Decimal[n]]
    BY <1>6
  <2> HIDE DEF A
  <2> QED BY <1>8, <2>1
<1> QED BY <1>7, <1>9

LEMMA Greatest ==
  ASSUME NEW n \in Nat, NEW S \in SUBSET (0..n), S # {}
  PROVE  \E k \in S : \A m \in S : k >= m
<1> DEFINE T == {n - k : k \in S}
<1>1. T \in SUBSET Nat /\ T # {}
  <2>1. \A k \in S : n - k \in Nat
    OBVIOUS
  <2> QED BY <2>1
<1>2. PICK j \in T : \A m \in T : j <= m
  <2> HIDE DEF T
  <2> QED BY <1>1, Least
<1>3. PICK k \in S : j = n - k
  BY <1>2
<1>4. ASSUME NEW m \in S PROVE k >= m
  <2>1. n - m \in T
    OBVIOUS
  <2>2. j <= n - m
    <3> HIDE DEF T
    <3> QED BY <1>2, <2>1
  <2>3. k \in 0..n /\ m \in 0..n
    OBVIOUS
  <2> HIDE DEF T
  <2> QED BY <1>3, <2>2, <2>3
<1> QED BY <1>4

(* The value of a text's digits, from the left.                                *)
LEMMA Numerals ==
  ASSUME NEW s \in Seq(Nat)
  PROVE  \E f \in [0..Len(s) -> Int] :
           /\ f[0] = 0 /\ Numeral(s) = f[Len(s)]
           /\ \A k \in 1..Len(s) : f[k] = 10 * f[k - 1] + s[k] - 48
<1> DEFINE N == Len(s)
           P(f) == f = [k \in 0..N |-> IF k = 0 THEN 0 ELSE 10 * f[k - 1] + s[k] - 48]
           G == [k \in 1..N |-> [x \in Int |-> 10 * x + s[k] - 48]]
<1>1. N \in Nat /\ \A k \in 1..N : s[k] \in Nat
  BY LenProperties, ElementOfSeq
<1>2. G \in [1..N -> [Int -> Int]]
  <2> HIDE DEF N
  <2> QED BY <1>1
<1>3. PICK f : f \in [0..N -> Int] /\ f[0] = 0 /\ \A k \in 1..N : f[k] = G[k][f[k - 1]]
  <2> HIDE DEF G, N
  <2>1. 0 \in Int
    OBVIOUS
  <2>2. PICK f : Iterates(f, Int, 0, N, G)
    BY <1>1, <1>2, <2>1, Iteration
  <2> QED BY <2>2 DEF Iterates
<1>4. ASSUME NEW k \in 1..N PROVE f[k] = 10 * f[k - 1] + s[k] - 48
  <2>1. k - 1 \in 0..N
    BY <1>1
  <2>2. f[k - 1] \in Int
    BY <1>3, <2>1
  <2> QED BY <1>3, <2>2
<1>5. P(f)
  <2>1. f = [k \in 0..N |-> f[k]]
    BY <1>3
  <2>2. \A k \in 0..N : k = 0 \/ k \in 1..N
    BY <1>1
  <2> HIDE DEF N, G
  <2> QED BY <1>3, <1>4, <2>1, <2>2
<1> DEFINE g == CHOOSE g : P(g)
<1>6. P(g) /\ Numeral(s) = g[N]
  <2>1. Numeral(s) = g[N]
    BY DEF Numeral
  <2> HIDE DEF P
  <2> QED BY <1>5, <2>1
<1>7. \A k \in 0..N : g[k] = IF k = 0 THEN 0 ELSE 10 * g[k - 1] + s[k] - 48
  <2> HIDE DEF g
  <2> QED BY <1>6
<1> HIDE DEF g
<1> DEFINE same == {k \in 0..N : g[k] = f[k]}
<1>8. \A k \in 0..N : k \in same
  <2>1. 0 \in same
    BY <1>1, <1>3, <1>7
  <2>2. ASSUME NEW m \in 0..N - 1, m \in same PROVE m + 1 \in same
    <3>1. m + 1 \in 1..N /\ m + 1 \in 0..N /\ (m + 1) - 1 = m /\ m + 1 # 0 /\ g[m] = f[m]
      BY <1>1, <2>2
    <3>2. g[m + 1] = 10 * g[m] + s[m + 1] - 48
      BY <1>7, <3>1
    <3>3. f[m + 1] = 10 * f[m] + s[m + 1] - 48
      BY <1>4, <3>1
    <3> QED BY <3>1, <3>2, <3>3
  <2> HIDE DEF same, N
  <2> QED BY <1>1, <2>1, <2>2, Induction, Zenon
<1>9. g[N] = f[N]
  <2>1. N \in 0..N
    BY <1>1
  <2> HIDE DEF N
  <2> QED BY <1>8, <2>1
<1> QED BY <1>3, <1>4, <1>6, <1>9

LEMMA NumeralInt ==
  ASSUME NEW s \in Seq(Nat)
  PROVE  Numeral(s) \in Int
<1>1. PICK f \in [0..Len(s) -> Int] : Numeral(s) = f[Len(s)]
  BY Numerals
<1>2. Len(s) \in 0..Len(s)
  BY LenProperties
<1> QED BY <1>1, <1>2

(* The loop of strings.ReplaceAll: what becomes of the text from k on.         *)
Replaces(f, s, t, r) ==
  /\ f \in [0..Len(s) -> Seq(Nat)] /\ Replaced(s, t, r) = f[0]
  /\ \A k \in 0..Len(s) :
       f[k] = (IF k \in Occurrences(t, s) THEN r ELSE <<>>) \o
              (IF k \in Occurrences(t, s) /\ t # <<>> THEN f[k + Len(t)]
               ELSE IF k = Len(s) THEN <<>> ELSE <<s[k + 1]>> \o f[k + 1])

LEMMA Replacing ==
  ASSUME NEW s \in Seq(Nat), NEW t \in Seq(Nat), NEW r \in Seq(Nat)
  PROVE  \E f : Replaces(f, s, t, r)
<1> DEFINE A == Seq(Nat)
           N == Len(s)
           found == Occurrences(t, s)
           skips(k) == k \in found /\ t # <<>>
           put(k) == IF k \in found THEN r ELSE <<>>
           P(f) == f = [k \in 0..N |-> put(k) \o
                          (IF skips(k) THEN f[k + Len(t)]
                           ELSE IF k = N THEN <<>> ELSE <<s[k + 1]>> \o f[k + 1])]
           back(n) == N - n
           G == [h \in Seq(A) |->
                   IF Len(h) > N THEN <<>>
                   ELSE put(N - Len(h)) \o
                          (IF skips(N - Len(h)) THEN h[Len(h) - Len(t) + 1]
                           ELSE IF Len(h) = 0 THEN <<>>
                           ELSE <<s[N - Len(h) + 1]>> \o h[Len(h)])]
           Upto(f, n) == [i \in 1..n |-> f[i - 1]]
<1>1. N \in Nat /\ Len(t) \in Nat /\ (\A k \in 1..N : s[k] \in Nat) /\ (t # <<>> => Len(t) >= 1)
  BY LenProperties, ElementOfSeq, EmptySeq
<1>2. /\ \A k : put(k) \in A
      /\ \A k : skips(k) => k \in 0..N /\ k + Len(t) <= N /\ Len(t) >= 1
  <2>1. \A k \in found : k \in 0..N - Len(t)
    BY DEF Occurrences
  <2> HIDE DEF found, N
  <2> QED BY <1>1, <2>1
<1>3. ASSUME NEW h \in Seq(A) PROVE G[h] \in A
  <2>1. Len(h) \in Nat /\ \A i \in 1..Len(h) : h[i] \in A
    BY LenProperties, ElementOfSeq
  <2>2. CASE Len(h) > N
    BY <2>2
  <2>3. CASE ~(Len(h) > N) /\ skips(N - Len(h))
    <3>1. Len(h) - Len(t) + 1 \in 1..Len(h)
      <4> HIDE DEF N, skips
      <4> QED BY <1>1, <1>2, <2>1, <2>3
    <3>2. G[h] = put(N - Len(h)) \o h[Len(h) - Len(t) + 1]
      <4> HIDE DEF N, skips, put
      <4> QED BY <2>3
    <3> HIDE DEF N, put, G
    <3> QED BY <1>2, <2>1, <3>1, <3>2
  <2>4. CASE ~(Len(h) > N) /\ ~skips(N - Len(h)) /\ Len(h) = 0
    <3>1. G[h] = put(N - Len(h)) \o <<>>
      <4> HIDE DEF N, skips, put
      <4> QED BY <2>4
    <3> HIDE DEF N, put, G
    <3> QED BY <1>2, <3>1
  <2>5. CASE ~(Len(h) > N) /\ ~skips(N - Len(h)) /\ Len(h) # 0
    <3>1. G[h] = put(N - Len(h)) \o (<<s[N - Len(h) + 1]>> \o h[Len(h)])
      <4> HIDE DEF N, skips, put
      <4> QED BY <2>5
    <3>2. N - Len(h) + 1 \in 1..N /\ Len(h) \in 1..Len(h)
      <4> HIDE DEF N
      <4> QED BY <1>1, <2>1, <2>5
    <3>3. s[N - Len(h) + 1] \in Nat /\ h[Len(h)] \in A
      BY <1>1, <2>1, <3>2
    <3>4. <<s[N - Len(h) + 1]>> \o h[Len(h)] \in A
      BY <3>3
    <3>5. put(N - Len(h)) \in A
      BY <1>2
    <3> HIDE DEF N, put, G
    <3> QED BY <3>1, <3>4, <3>5
  <2> HIDE DEF G, A, skips, N
  <2> QED BY <2>2, <2>3, <2>4, <2>5
<1>4. PICK f : f \in [Nat -> A] /\ \A n \in Nat : f[n] = G[Upto(f, n)]
  <2>1. G \in [Seq(A) -> A]
    <3>1. G = [h \in Seq(A) |-> G[h]]
      OBVIOUS
    <3> HIDE DEF G, A
    <3> QED BY <1>3, <3>1
  <2> HIDE DEF A, G
  <2>2. PICK f : Solves(f, A, G)
    BY <2>1, Recursion
  <2> QED BY <2>2 DEF Solves
<1> DEFINE g == [k \in 0..N |-> f[N - k]]
<1>5. ASSUME NEW k \in 0..N
      PROVE  g[k] = put(k) \o (IF skips(k) THEN g[k + Len(t)]
                               ELSE IF k = N THEN <<>> ELSE <<s[k + 1]>> \o g[k + 1])
  <2> DEFINE n == N - k
             h == Upto(f, n)
  <2>1. n \in Nat /\ n <= N /\ N - n = k /\ (n = 0 <=> k = N)
    BY <1>1
  <2>2. h \in Seq(A) /\ Len(h) = n /\ \A i \in 1..n : h[i] = f[i - 1]
    <3>1. \A i \in 1..n : f[i - 1] \in A
      BY <1>4
    <3> HIDE DEF A, G, n
    <3> QED BY <2>1, <3>1
  <2>3. f[n] = G[h] /\ g[k] = f[n]
    BY <1>4, <2>1
  <2> HIDE DEF h, n
  <2>4. G[h] = put(k) \o (IF skips(k) THEN h[n - Len(t) + 1]
                          ELSE IF n = 0 THEN <<>> ELSE <<s[k + 1]>> \o h[n])
    <3>1. G[h] = IF Len(h) > N THEN <<>>
                 ELSE put(N - Len(h)) \o
                        (IF skips(N - Len(h)) THEN h[Len(h) - Len(t) + 1]
                         ELSE IF Len(h) = 0 THEN <<>>
                         ELSE <<s[N - Len(h) + 1]>> \o h[Len(h)])
      <4> HIDE DEF A, put, skips, N
      <4> QED BY <2>2
    <3>2. Len(h) = n /\ ~(n > N) /\ N - n = k
      <4> HIDE DEF N
      <4> QED BY <1>1, <2>1, <2>2
    <3> HIDE DEF A, put, skips, N, G
    <3> QED BY <3>1, <3>2
  <2>5. skips(k) => h[n - Len(t) + 1] = g[k + Len(t)]
    <3>1. ASSUME skips(k)
          PROVE  /\ n - Len(t) + 1 \in 1..n /\ (n - Len(t) + 1) - 1 = n - Len(t)
                 /\ k + Len(t) \in 0..N /\ N - (k + Len(t)) = n - Len(t)
      <4> HIDE DEF N, skips
      <4> QED BY <1>1, <1>2, <2>1, <3>1
    <3> HIDE DEF skips
    <3> QED BY <2>2, <3>1
  <2>6. n # 0 => h[n] = g[k + 1]
    <3>1. ASSUME n # 0
          PROVE  n \in 1..n /\ k + 1 \in 0..N /\ N - (k + 1) = n - 1
      <4> HIDE DEF N
      <4> QED BY <1>1, <2>1, <3>1
    <3> QED BY <2>2, <3>1
  <2> HIDE DEF G, g, put, skips, N
  <2> QED BY <2>1, <2>3, <2>4, <2>5, <2>6
<1>6. P(g)
  <2>1. g = [k \in 0..N |-> g[k]]
    OBVIOUS
  <2> HIDE DEF g, put, skips, N
  <2> QED BY <1>5, <2>1
<1>7. g \in [0..N -> A] /\ \A k \in 0..N : g[k] = put(k) \o
        (IF skips(k) THEN g[k + Len(t)] ELSE IF k = N THEN <<>> ELSE <<s[k + 1]>> \o g[k + 1])
  <2>1. \A k \in 0..N : N - k \in Nat
    BY <1>1
  <2> HIDE DEF N, A, put, skips, G
  <2> QED BY <1>4, <1>5, <2>1
<1> HIDE DEF g
<1> DEFINE from == CHOOSE from : P(from)
<1>8. P(from) /\ Replaced(s, t, r) = from[0]
  <2>1. Replaced(s, t, r) = from[0]
    BY DEF Replaced
  <2> HIDE DEF P
  <2> QED BY <1>6, <2>1
<1>9. \A k \in 0..N : from[k] = put(k) \o
        (IF skips(k) THEN from[k + Len(t)] ELSE IF k = N THEN <<>> ELSE <<s[k + 1]>> \o from[k + 1])
  <2> HIDE DEF from, put, skips, N
  <2> QED BY <1>8
<1> HIDE DEF from
<1>10. \A k \in 0..N : from[k] = g[k]
  <2> DEFINE differ == {n \in 0..N : from[N - n] # g[N - n]}
  <2>1. CASE differ # {}
    <3>1. PICK n \in differ : \A m \in differ : n <= m
      <4>1. differ \in SUBSET Nat
        BY <1>1
      <4> HIDE DEF differ
      <4> QED BY <2>1, <4>1, Least
    <3>2. n \in 0..N /\ from[N - n] # g[N - n] /\ N - n \in 0..N
      BY <1>1
    <3> DEFINE k == N - n
    <3>3. k \in 0..N /\ from[k] # g[k]
      BY <3>2
    <3>4. ASSUME NEW m \in 0..N, m > k PROVE from[m] = g[m]
      <4>1. N - m \in 0..N /\ N - (N - m) = m /\ ~(n <= N - m)
        <5> HIDE DEF N
        <5> QED BY <1>1, <3>2, <3>4
      <4>2. N - m \notin differ
        <5> HIDE DEF differ
        <5> QED BY <3>1, <4>1
      <4> QED BY <4>1, <4>2
    <3> HIDE DEF k
    <3>5. skips(k) => k + Len(t) \in 0..N /\ k + Len(t) > k
      <4> HIDE DEF skips, N
      <4> QED BY <1>1, <1>2, <3>3
    <3>6. k # N => k + 1 \in 0..N /\ k + 1 > k
      <4> HIDE DEF N
      <4> QED BY <1>1, <3>3
    <3>7. from[k] = g[k]
      <4>1. skips(k) => from[k + Len(t)] = g[k + Len(t)]
        <5> HIDE DEF skips
        <5> QED BY <3>4, <3>5
      <4>2. k # N => from[k + 1] = g[k + 1]
        BY <3>4, <3>6
      <4> HIDE DEF skips, put, N
      <4> QED BY <1>7, <1>9, <3>3, <4>1, <4>2
    <3> QED BY <3>3, <3>7
  <2>2. CASE differ = {}
    <3>1. ASSUME NEW k \in 0..N PROVE from[k] = g[k]
      <4>1. N - k \in 0..N /\ N - (N - k) = k
        BY <1>1
      <4>2. N - k \notin differ
        BY <2>2
      <4> QED BY <4>1, <4>2
    <3> QED BY <3>1
  <2> QED BY <2>1, <2>2
<1>11. Replaced(s, t, r) = g[0] /\ 0 \in 0..N
  <2>1. 0 \in 0..N
    BY <1>1
  <2> HIDE DEF P, N
  <2> QED BY <1>8, <1>10, <2>1
<1>12. Replaces(g, s, t, r)
  BY <1>7, <1>11 DEF Replaces
<1> QED BY <1>12

(* Arrays.remove keeps the other elements in order.                            *)
LEMMA Keeping ==
  ASSUME NEW S, NEW elems \in Seq(S), NEW v
  PROVE  \E f \in [0..Len(elems) -> Seq(S)] :
           /\ f[0] = <<>> /\ Removed(elems, v) = f[Len(elems)]
           /\ \A k \in 1..Len(elems) :
                f[k] = IF Equal(elems[k], v) THEN f[k - 1] ELSE Append(f[k - 1], elems[k])
<1> DEFINE N == Len(elems)
           A == Seq(S)
           P(f) == f = [k \in 0..N |->
                          IF k = 0 THEN <<>>
                          ELSE IF Equal(elems[k], v) THEN f[k - 1] ELSE Append(f[k - 1], elems[k])]
           G == [k \in 1..N |-> [x \in A |-> IF Equal(elems[k], v) THEN x ELSE Append(x, elems[k])]]
<1>1. N \in Nat /\ \A k \in 1..N : elems[k] \in S
  BY LenProperties, ElementOfSeq
<1>2. G \in [1..N -> [A -> A]]
  <2>1. \A k \in 1..N, x \in A : Append(x, elems[k]) \in A
    BY <1>1, AppendProperties
  <2> HIDE DEF N, A
  <2> QED BY <2>1
<1>3. PICK f : f \in [0..N -> A] /\ f[0] = <<>> /\ \A k \in 1..N : f[k] = G[k][f[k - 1]]
  <2>1. <<>> \in A
    OBVIOUS
  <2> HIDE DEF G, N, A
  <2>2. PICK f : Iterates(f, A, <<>>, N, G)
    BY <1>1, <1>2, <2>1, Iteration
  <2> QED BY <2>2 DEF Iterates
<1>4. ASSUME NEW k \in 1..N
      PROVE  f[k] = IF Equal(elems[k], v) THEN f[k - 1] ELSE Append(f[k - 1], elems[k])
  <2>1. k - 1 \in 0..N
    BY <1>1
  <2>2. f[k - 1] \in A
    BY <1>3, <2>1
  <2> HIDE DEF A
  <2> QED BY <1>3, <2>2
<1>5. P(f)
  <2>1. f = [k \in 0..N |-> f[k]]
    BY <1>3
  <2>2. \A k \in 0..N : k = 0 \/ (k # 0 /\ k \in 1..N)
    BY <1>1
  <2> HIDE DEF N, G, A
  <2> QED BY <1>3, <1>4, <2>1, <2>2
<1> DEFINE g == CHOOSE g : P(g)
<1>6. P(g) /\ Removed(elems, v) = g[N]
  <2>1. Removed(elems, v) = g[N]
    BY DEF Removed
  <2> HIDE DEF P
  <2> QED BY <1>5, <2>1
<1>7. \A k \in 0..N : g[k] = IF k = 0 THEN <<>> ELSE
        IF Equal(elems[k], v) THEN g[k - 1] ELSE Append(g[k - 1], elems[k])
  <2> HIDE DEF g
  <2> QED BY <1>6
<1> HIDE DEF g
<1> DEFINE same == {k \in 0..N : g[k] = f[k]}
<1>8. \A k \in 0..N : k \in same
  <2>1. 0 \in same
    BY <1>1, <1>3, <1>7
  <2>2. ASSUME NEW m \in 0..N - 1, m \in same PROVE m + 1 \in same
    <3>1. m + 1 \in 1..N /\ m + 1 \in 0..N /\ (m + 1) - 1 = m /\ m + 1 # 0 /\ g[m] = f[m]
      BY <1>1, <2>2
    <3>2. g[m + 1] = IF Equal(elems[m + 1], v) THEN g[m] ELSE Append(g[m], elems[m + 1])
      BY <1>7, <3>1
    <3>3. f[m + 1] = IF Equal(elems[m + 1], v) THEN f[m] ELSE Append(f[m], elems[m + 1])
      BY <1>4, <3>1
    <3> QED BY <3>1, <3>2, <3>3
  <2> HIDE DEF same, N
  <2> QED BY <1>1, <2>1, <2>2, Induction, Zenon
<1>9. g[N] = f[N]
  <2>1. N \in 0..N
    BY <1>1
  <2> HIDE DEF N
  <2> QED BY <1>8, <2>1
<1> QED BY <1>3, <1>4, <1>6, <1>9

-----------------------------------------------------------------------------
(* What the conversions give: texts are sequences of character codes, and ints *)
(* are those the machine has.                                                  *)
LEMMA Trimmed ==
  ASSUME NEW s \in Seq(Nat)
  PROVE  Trim(s) \in Seq(Nat)
<1> DEFINE a == CHOOSE k \in Inside(s) : \A j \in Inside(s) : k <= j
           b == CHOOSE k \in Inside(s) : \A j \in Inside(s) : k >= j
<1>1. CASE Inside(s) = {}
  BY <1>1 DEF Trim
<1>2. CASE Inside(s) # {}
  <2>1. Len(s) \in Nat /\ Inside(s) \in SUBSET Nat /\ Inside(s) \in SUBSET (0..Len(s))
        /\ Inside(s) \in SUBSET (1..Len(s))
    BY LenProperties DEF Inside
  <2>2. \E k \in Inside(s) : \A j \in Inside(s) : k <= j
    BY <1>2, <2>1, Least
  <2>3. \E k \in Inside(s) : \A j \in Inside(s) : k >= j
    BY <1>2, <2>1, Greatest
  <2>4. a \in Inside(s) /\ b \in Inside(s)
    BY <2>2, <2>3
  <2>5. a \in 1..Len(s) /\ b \in 1..Len(s)
    <3> HIDE DEF a, b
    <3> QED BY <2>1, <2>4
  <2>6. Trim(s) = SubSeq(s, a, b)
    BY <1>2 DEF Trim
  <2> HIDE DEF a, b
  <2>7. \A k \in a..b : s[k] \in Nat
    BY <2>1, <2>5, ElementOfSeq
  <2> QED BY <2>5, <2>6, <2>7, SubSeqProperties
<1> QED BY <1>1, <1>2

LEMMA Digits ==
  ASSUME NEW s \in Seq(Nat)
  PROVE  Unsigned(s) \in Seq(Nat) /\ Signed(s) \in Int
<1>1. Unsigned(s) \in Seq(Nat)
  BY HeadTailProperties DEF Unsigned
<1>2. Numeral(Unsigned(s)) \in Int
  BY <1>1, NumeralInt
<1> QED BY <1>1, <1>2 DEF Signed

LEMMA Numbers ==
  ASSUME NEW n
  PROVE  Type(Number(n)) = "int" /\ Contents(Number(n)) = n
BY DEF Type, Contents, Number

LEMMA Scalars ==
  ASSUME NEW v, Scalar(v)
  PROVE  /\ v = <<Type(v), Contents(v)>>
         /\ \/ Type(v) = "nil"
            \/ Type(v) = "bool" /\ Contents(v) \in BOOLEAN
            \/ Type(v) = "int" /\ Contents(v) \in Int /\ Contents(v) = Wrap(Contents(v))
            \/ Type(v) = "float64" /\ Contents(v) \in Int
            \/ Type(v) = "string" /\ Contents(v) \in Seq(Nat)
<1>1. CASE v = Null
  BY <1>1 DEF Type, Contents, Null
<1>2. CASE v \in {"bool"} \X BOOLEAN
  BY <1>2 DEF Type, Contents
<1>3. CASE v \in {"int"} \X Int /\ Contents(v) = Wrap(Contents(v))
  <2>1. v = <<Type(v), Contents(v)>> /\ Type(v) = "int" /\ Contents(v) \in Int
    BY <1>3 DEF Type, Contents
  <2> QED BY <1>3, <2>1
<1>4. CASE v \in {"float64"} \X Int
  BY <1>4 DEF Type, Contents
<1>5. CASE v \in {"string"} \X Seq(Nat)
  BY <1>5 DEF Type, Contents
<1> QED BY <1>1, <1>2, <1>3, <1>4, <1>5 DEF Scalar

LEMMA IntIsScalar ==
  ASSUME NEW n \in Int, n = Wrap(n)
  PROVE  Scalar(Number(n))
<1>1. Contents(Number(n)) = n /\ Number(n) \in {"int"} \X Int
  BY Numbers DEF Number
<1> QED BY <1>1 DEF Scalar

LEMMA AtoiInt ==
  ASSUME NEW s \in Seq(Nat), Atoi(s).ok
  PROVE  Scalar(Atoi(s).val) /\ Type(Atoi(s).val) = "int" /\ Contents(Atoi(s).val) = Signed(s)
<1>1. HasNumeral(s) /\ Signed(s) = Wrap(Signed(s)) /\ Atoi(s) = Ok(Number(Signed(s)))
  BY DEF Atoi, Err
<1>2. Atoi(s).val = Number(Signed(s))
  BY <1>1 DEF Ok
<1> QED BY <1>1, <1>2, Digits, IntIsScalar, Numbers

LEMMA FloatInt ==
  ASSUME NEW n \in Int
  PROVE  FloatToInt(n) \in Int /\ FloatToInt(n) = Wrap(FloatToInt(n))
BY UnfitAssumption DEF FloatToInt

LEMMA SmallInts ==
  /\ 0 = Wrap(0) /\ 1 = Wrap(1)
  /\ \A n \in Lengths : n = Wrap(n)
<1>1. 0 \in Lengths /\ 1 \in Lengths
  BY LengthAssumption DEF Lengths
<1> QED BY <1>1, LengthAssumption

LEMMA BoolInt ==
  ASSUME NEW b \in BOOLEAN
  PROVE  BoolToInt(b) \in Int /\ BoolToInt(b) = Wrap(BoolToInt(b))
<1>1. BoolToInt(b) \in {0, 1}
  BY DEF BoolToInt
<1> QED BY <1>1, SmallInts

(* toInt of a value that is no array.                                          *)
LEMMA ToIntInt ==
  ASSUME NEW v, Scalar(v), ToInt(v).ok
  PROVE  Scalar(ToInt(v).val) /\ Type(ToInt(v).val) = "int"
<1>1. CASE Type(v) = "int"
  <2>1. ToInt(v) = Ok(v)
    BY <1>1 DEF ToInt
  <2> QED BY <1>1, <2>1 DEF Ok
<1>2. CASE Type(v) = "bool"
  <2>1. ToInt(v) = Ok(Number(BoolToInt(Contents(v)))) /\ Contents(v) \in BOOLEAN
    BY <1>2, Scalars DEF ToInt
  <2>2. Scalar(Number(BoolToInt(Contents(v))))
    BY <2>1, BoolInt, IntIsScalar
  <2> QED BY <2>1, <2>2, Numbers DEF Ok
<1>3. CASE Type(v) = "float64"
  <2>1. ToInt(v) = Ok(Number(FloatToInt(Truncated(Contents(v))))) /\ Contents(v) \in Int
    BY <1>3, Scalars DEF ToInt
  <2>2. Truncated(Contents(v)) \in Int
    BY <2>1 DEF Truncated, Quarters
  <2>3. Scalar(Number(FloatToInt(Truncated(Contents(v)))))
    BY <2>2, FloatInt, IntIsScalar
  <2> QED BY <2>1, <2>3, Numbers DEF Ok
<1>4. CASE Type(v) = "string"
  <2>1. ToInt(v) = Atoi(Trim(Contents(v))) /\ Contents(v) \in Seq(Nat)
    BY <1>4, Scalars DEF ToInt
  <2>2. Trim(Contents(v)) \in Seq(Nat)
    BY <2>1, Trimmed
  <2> QED BY <2>1, <2>2, AtoiInt
<1>5. CASE Type(v) = "nil"
  <2>1. ToInt(v) = Err
    BY <1>5 DEF ToInt
  <2> QED BY <2>1 DEF Err
<1> QED BY <1>1, <1>2, <1>3, <1>4, <1>5, Scalars

-----------------------------------------------------------------------------
(* The values there are: a set is closed if it holds, with an array, the       *)
(* array's elements, and no tuple and no map but those that are given.         *)
Closed(V) ==
  \A v \in V : Scalar(v) \/ v \in {"Array"} \X Seq(V) \/ Compound(v)

Proper(v) == \E V : Closed(V) /\ v \in V

(* What a call makes of values of a set: one of them, a scalar, or an array    *)
(* of them.                                                                    *)
Made(r, V) == Scalar(r) \/ r \in V \/ r \in {"Array"} \X Seq(V)

(* strconv.ParseFloat returns a float or an error, fmt.Sprintf a text.         *)
LibrariesFit ==
  /\ \A s \in Seq(Nat) : ParseFloat(s) = Err \/ \E n \in Int : ParseFloat(s) = Ok(Float(n))
  /\ \A v : Proper(v) => Sprint(v) \in Seq(Nat)

LEMMA Compounds ==
  ASSUME NEW v, Compound(v)
  PROVE  /\ v = <<Type(v), Contents(v)>> /\ ~Scalar(v) /\ Type(v) \in {"Tuple", "map"}
         /\ Type(v) = "Tuple" => Contents(v) \in Seq(Given)
<1>1. v \in Given /\ Type(v) \in {"Tuple", "map"}
  BY DEF Compound
<1>2. ~Scalar(v)
  BY <1>1, Scalars
<1>3. CASE v \in {"Array", "Tuple"} \X Seq(Given)
  BY <1>1, <1>2, <1>3 DEF Type, Contents
<1>4. CASE v = Map(Contents(v))
  <2>1. v = <<"map", Contents(v)>> /\ Type(v) = "map"
    BY <1>4 DEF Map, Type
  <2> QED BY <1>2, <2>1
<1> QED BY <1>1, <1>2, <1>3, <1>4, GivenAssumption

LEMMA InClosed ==
  ASSUME NEW V, Closed(V), NEW v \in V
  PROVE  /\ v = <<Type(v), Contents(v)>>
         /\ \/ Scalar(v) /\ Type(v) \notin {"Array", "Tuple", "map"}
            \/ Type(v) = "Array" /\ Contents(v) \in Seq(V)
            \/ Compound(v) /\ Type(v) \in {"Tuple", "map"}
         /\ Type(v) = "bool" => Contents(v) \in BOOLEAN
         /\ Type(v) = "int" => Contents(v) \in Int
         /\ Type(v) = "float64" => Contents(v) \in Int
         /\ Type(v) = "string" => Contents(v) \in Seq(Nat)
         /\ Type(v) \in {"nil", "bool", "int", "float64", "string", "Array", "Tuple", "map"}
<1>1. CASE Scalar(v)
  BY <1>1, Scalars
<1>2. CASE v \in {"Array"} \X Seq(V)
  BY <1>2 DEF Type, Contents
<1>3. CASE Compound(v)
  BY <1>3, Compounds
<1> QED BY <1>1, <1>2, <1>3 DEF Closed

LEMMA Grown ==
  ASSUME NEW V, Closed(V), NEW r, Made(r, V)
  PROVE  Closed(V \cup {r}) /\ Proper(r)
<1> DEFINE W == V \cup {r}
<1>1. \A s \in Seq(V) : s \in Seq(W)
  <2>1. V \subseteq W
    OBVIOUS
  <2> QED BY <2>1, SeqMonotonic
<1>2. Closed(W)
  <2> HIDE DEF W
  <2>1. \A v \in W : v \in V \/ v = r
    BY DEF W
  <2> QED BY <1>1, <2>1 DEF Closed, Made
<1> QED BY <1>2 DEF Proper

LEMMA BothClosed ==
  ASSUME NEW V, Closed(V), NEW W, Closed(W)
  PROVE  Closed(V \cup W)
<1> DEFINE U == V \cup W
<1>1. (\A s \in Seq(V) : s \in Seq(U)) /\ (\A s \in Seq(W) : s \in Seq(U))
  <2>1. V \subseteq U /\ W \subseteq U
    OBVIOUS
  <2> QED BY <2>1, SeqMonotonic
<1>2. \A v \in U : v \in V \/ v \in W
  OBVIOUS
<1> HIDE DEF U
<1>3. Closed(U)
  BY <1>1, <1>2 DEF Closed
<1> QED BY <1>3 DEF U

LEMMA IntTexts ==
  ASSUME NEW n \in Int
  PROVE  IntText(n) \in Seq(Nat)
<1>1. \A k \in Nat : Decimal[k] \in Seq(Nat)
  <2>1. \A k \in Nat : Decimal[k] \in Seq(48..57)
    BY Decimals
  <2>2. \A s \in Seq(48..57) : s \in Seq(Nat)
    <3>1. 48..57 \subseteq Nat
      OBVIOUS
    <3> QED BY <3>1, SeqMonotonic
  <2> QED BY <2>1, <2>2
<1>2. CASE n < 0
  <2>1. -n \in Nat
    BY <1>2
  <2>2. <<45>> \in Seq(Nat) /\ Decimal[-n] \in Seq(Nat)
    BY <1>1, <2>1
  <2>3. IntText(n) = <<45>> \o Decimal[-n]
    BY <1>2 DEF IntText
  <2> QED BY <2>2, <2>3, ConcatProperties
<1>3. CASE ~(n < 0)
  <2>1. n \in Nat /\ IntText(n) = Decimal[n]
    BY <1>3 DEF IntText
  <2> QED BY <1>1, <2>1
<1> QED BY <1>2, <1>3

LEMMA FloatTexts ==
  ASSUME NEW q \in Int
  PROVE  FloatText(q) \in Seq(Nat)
<1> DEFINE size == IF q < 0 THEN -q ELSE q
           sign == IF q < 0 THEN <<45>> ELSE <<>>
<1>1. size \in Nat
  OBVIOUS
<1> HIDE DEF size
<1>2. size \div Quarters \in Nat /\ (size % Quarters) + 1 \in {1, 2, 3, 4}
  BY <1>1 DEF Quarters
<1>3. Decimal[size \div Quarters] \in Seq(Nat)
  <2>1. ~(size \div Quarters < 0)
    BY <1>2
  <2>2. IntText(size \div Quarters) = Decimal[size \div Quarters]
    BY <2>1 DEF IntText
  <2>3. size \div Quarters \in Int
    BY <1>2
  <2> QED BY <2>2, <2>3, IntTexts
<1>4. \A k \in {1, 2, 3, 4} : Fraction[k] \in Seq(Nat)
  <2>1. /\ Fraction[1] = <<>> /\ Fraction[2] = <<46, 50, 53>>
        /\ Fraction[3] = <<46, 53>> /\ Fraction[4] = <<46, 55, 53>>
    BY DEF Fraction
  <2>2. /\ <<>> \in Seq(Nat) /\ <<46, 50, 53>> \in Seq(Nat)
        /\ <<46, 53>> \in Seq(Nat) /\ <<46, 55, 53>> \in Seq(Nat)
    OBVIOUS
  <2> QED BY <2>1, <2>2, Zenon
<1>5. Fraction[(size % Quarters) + 1] \in Seq(Nat)
  BY <1>2, <1>4
<1>6. sign \in Seq(Nat)
  OBVIOUS
<1>7. FloatText(q) = sign \o Decimal[size \div Quarters] \o Fraction[(size % Quarters) + 1]
  BY DEF FloatText, size
<1> HIDE DEF sign
<1> QED BY <1>3, <1>5, <1>6, <1>7, ConcatProperties

(* pyStr of a value.                                                           *)
LEMMA PyTexts ==
  ASSUME LibrariesFit, NEW V, Closed(V), NEW v \in V
  PROVE  PyStr(v) \in Seq(Nat)
<1>1. CASE Type(v) = "nil"
  <2>1. NoneText \in Seq(Nat) /\ PyStr(v) = NoneText
    BY <1>1 DEF PyStr, NoneText
  <2> QED BY <2>1
<1>2. CASE Scalar(v) /\ Type(v) = "bool"
  <2>1. TrueText \in Seq(Nat) /\ FalseText \in Seq(Nat)
    BY DEF TrueText, FalseText
  <2>2. PyStr(v) = IF Contents(v) THEN TrueText ELSE FalseText
    BY <1>2 DEF PyStr
  <2> QED BY <2>1, <2>2
<1>3. CASE Scalar(v) /\ Type(v) = "string"
  BY <1>3, Scalars DEF PyStr
<1>4. CASE Scalar(v) /\ Type(v) = "int"
  <2>1. PyStr(v) = IntText(Contents(v)) /\ Contents(v) \in Int
    BY <1>4, Scalars DEF PyStr
  <2> QED BY <2>1, IntTexts
<1>5. CASE Scalar(v) /\ Type(v) = "float64"
  <2>1. PyStr(v) = FloatText(Contents(v)) /\ Contents(v) \in Int
    BY <1>5, Scalars DEF PyStr
  <2> QED BY <2>1, FloatTexts
<1>6. CASE Type(v) \in {"Array", "Tuple", "map"}
  <2>1. PyStr(v) = Sprint(v)
    BY <1>6 DEF PyStr
  <2> QED BY <2>1 DEF LibrariesFit, Proper
<1> QED BY <1>1, <1>2, <1>3, <1>4, <1>5, <1>6, InClosed

-----------------------------------------------------------------------------
(* What each method returns.                                                   *)
Sized(v) == Type(v) \in {"string", "Array"} => Len(Contents(v)) \in Lengths

LEMMA Made3 ==
  ASSUME NEW V, NEW r
  PROVE  /\ (\E n \in Int : n = Wrap(n) /\ r = Number(n)) => Made(r, V)
         /\ (\E b \in BOOLEAN : r = Bool(b)) => Made(r, V)
         /\ (\E n \in Int : r = Float(n)) => Made(r, V)
         /\ (\E s \in Seq(Nat) : r = Text(s)) => Made(r, V)
         /\ (\E s \in Seq(V) : r = Array(s)) => Made(r, V)
         /\ r = Null => Made(r, V)
         /\ r \in V => Made(r, V)
<1>1. ASSUME NEW n \in Int, n = Wrap(n), r = Number(n) PROVE Made(r, V)
  BY <1>1, IntIsScalar DEF Made
<1>2. ASSUME NEW b \in BOOLEAN, r = Bool(b) PROVE Made(r, V)
  BY <1>2 DEF Made, Scalar, Bool
<1>3. ASSUME NEW n \in Int, r = Float(n) PROVE Made(r, V)
  BY <1>3 DEF Made, Scalar, Float
<1>4. ASSUME NEW s \in Seq(Nat), r = Text(s) PROVE Made(r, V)
  BY <1>4 DEF Made, Scalar, Text
<1>5. ASSUME NEW s \in Seq(V), r = Array(s) PROVE Made(r, V)
  BY <1>5 DEF Made, Array, Type, Contents
<1>6. r = Null => Made(r, V)
  BY DEF Made, Scalar, Null
<1>7. r \in V => Made(r, V)
  BY DEF Made
<1> QED BY <1>1, <1>2, <1>3, <1>4, <1>5, <1>6, <1>7

LEMMA Oks ==
  ASSUME NEW v
  PROVE  Ok(v).val = v /\ Ok(v).ok = TRUE /\ Err.ok = FALSE
BY DEF Ok, Err

LEMMA Elems ==
  ASSUME NEW V, Closed(V), NEW v \in V, Type(v) \in {"nil", "Array"}
  PROVE  Elements(v) \in Seq(V)
<1>1. CASE Type(v) = "nil"
  <2>1. Elements(v) = <<>>
    BY <1>1 DEF Elements
  <2> QED BY <2>1
<1>2. CASE Type(v) = "Array"
  <2>1. Elements(v) = Contents(v)
    BY <1>2 DEF Elements
  <2> QED BY <1>2, <2>1, InClosed
<1> QED BY <1>1, <1>2

(* Arrays.flatten.                                                             *)
LEMMA FlattenMakes ==
  ASSUME NEW V, Closed(V), NEW args \in Seq(V)
  PROVE  Flattened(args) \in Seq(V)
<1> DEFINE part(k) == IF Type(args[k]) = "Array" THEN Contents(args[k]) ELSE <<args[k]>>
           s == [k \in 1..Len(args) |-> part(k)]
<1>1. Len(args) \in Nat /\ \A k \in 1..Len(args) : args[k] \in V
  BY LenProperties, ElementOfSeq
<1>2. ASSUME NEW k \in 1..Len(args) PROVE part(k) \in Seq(V)
  <2>1. args[k] \in V
    BY <1>1
  <2>2. Type(args[k]) = "Array" => Contents(args[k]) \in Seq(V)
    BY <2>1, InClosed
  <2>3. <<args[k]>> \in Seq(V)
    BY <2>1
  <2> QED BY <2>2, <2>3
<1>3. s \in Seq(Seq(V))
  <2> HIDE DEF part
  <2> QED BY <1>1, <1>2
<1>4. Flattened(args) = FlattenSeq(s)
  BY DEF Flattened
<1> HIDE DEF s
<1> QED BY <1>3, <1>4, Flattens

(* Arrays.toCsvString and String.join.                                         *)
LEMMA ListTexts ==
  ASSUME NEW V, Closed(V), NEW parts \in Seq(V), \A k \in 1..Len(parts) : Type(parts[k]) = "string"
  PROVE  Csv(parts) \in Seq(Nat) /\ \A sep \in Seq(Nat) : Joined(sep, parts) \in Seq(Nat)
<1>1. Len(parts) \in Nat /\ \A k \in 1..Len(parts) : Contents(parts[k]) \in Seq(Nat)
  <2>1. ASSUME NEW k \in 1..Len(parts) PROVE Contents(parts[k]) \in Seq(Nat)
    <3>1. parts[k] \in V
      BY ElementOfSeq
    <3> QED BY <3>1, InClosed
  <2> QED BY <2>1, LenProperties
<1>2. ASSUME NEW sep \in Seq(Nat)
      PROVE  FlattenSeq([k \in 1..Len(parts) |->
               IF k = 1 THEN Contents(parts[k]) ELSE sep \o Contents(parts[k])]) \in Seq(Nat)
  <2> DEFINE s == [k \in 1..Len(parts) |->
               IF k = 1 THEN Contents(parts[k]) ELSE sep \o Contents(parts[k])]
  <2>1. \A k \in 1..Len(parts) : sep \o Contents(parts[k]) \in Seq(Nat)
    BY <1>1, ConcatProperties
  <2>2. s \in Seq(Seq(Nat))
    BY <1>1, <2>1
  <2> HIDE DEF s
  <2>3. FlattenSeq(s) \in Seq(Nat)
    BY <2>2, Flattens
  <2> QED BY <2>3 DEF s
<1>3. Csv(parts) \in Seq(Nat)
  <2>1. <<44>> \in Seq(Nat)
    OBVIOUS
  <2> QED BY <1>2, <2>1 DEF Csv
<1> QED BY <1>2, <1>3 DEF Joined

LEMMA AtMakes ==
  ASSUME NEW V, NEW elems \in Seq(V), NEW n \in Int
  PROVE  At(elems, n) \in V \/ At(elems, n) = Null
<1> DEFINE idx == IF n < 0 THEN n + Len(elems) ELSE n
<1>1. Len(elems) \in Nat /\ \A k \in 1..Len(elems) : elems[k] \in V
  BY LenProperties, ElementOfSeq
<1>2. At(elems, n) = IF idx \in 0..Len(elems) - 1 THEN elems[idx + 1] ELSE Null
  BY DEF At
<1>3. idx \in 0..Len(elems) - 1 => idx + 1 \in 1..Len(elems)
  BY <1>1
<1> HIDE DEF idx
<1> QED BY <1>1, <1>2, <1>3

LEMMA ToIntMeans ==
  ASSUME NEW V, Closed(V), NEW v \in V, ToInt(v).ok
  PROVE  Contents(ToInt(v).val) \in Int /\ Contents(ToInt(v).val) = Wrap(Contents(ToInt(v).val))
<1>1. CASE Scalar(v)
  BY <1>1, ToIntInt, Scalars
<1>2. CASE Type(v) \in {"Array", "Tuple", "map"}
  <2>1. ToInt(v) = Err
    BY <1>2 DEF ToInt
  <2> QED BY <2>1, Oks
<1> QED BY <1>1, <1>2, InClosed

(* Every method of Arrays.                                                     *)
LEMMA ArraysMake ==
  ASSUME NEW V, Closed(V), NEW args \in Seq(V), args # <<>> => Sized(args[1]),
         NEW method, ArraysCall(method, args).ok
  PROVE  Made(ArraysCall(method, args).val, V)
<1> DEFINE elems == Elements(args[1])
<1>1. CASE method = "flatten"
  <2>1. ArraysCall(method, args) = Ok(Array(Flattened(args)))
    BY <1>1 DEF ArraysCall
  <2>2. Flattened(args) \in Seq(V)
    BY FlattenMakes
  <2> QED BY <2>1, <2>2, Made3, Oks
<1>2. CASE method # "flatten"
  <2>1. ArgsOk(method, args)
    BY <1>2, Oks DEF ArraysCall
  <2>2. /\ method \in {"contains", "add", "remove", "clear", "get", "size", "isEmpty", "toCsvString"}
        /\ Len(args) = Arity[method]
    BY <2>1 DEF ArgsOk, Arity
  <2>3. Len(args) \in {1, 2} /\ (method \in {"contains", "add", "remove", "get"} => Len(args) = 2)
    BY <2>2 DEF Arity
  <2>4. args[1] \in V /\ args # <<>> /\ (Len(args) = 2 => args[2] \in V)
    <3>1. \A n \in {1, 2} : 1 \in 1..n /\ (n = 2 => 2 \in 1..n) /\ n # 0
      OBVIOUS
    <3> QED BY <2>3, <3>1, ElementOfSeq, EmptySeq
  <2>5. method # "clear" => Type(args[1]) \in {"nil", "Array"}
    BY <2>1 DEF ArgsOk
  <2>6. method # "clear" => elems \in Seq(V)
    BY <2>4, <2>5, Elems
  <2>7. method # "clear" => Len(elems) \in Int /\ Len(elems) = Wrap(Len(elems))
    <3>1. CASE Type(args[1]) = "nil"
      <4>1. elems = <<>> /\ Len(<<>>) = 0
        BY <3>1 DEF Elements
      <4> QED BY <4>1, SmallInts
    <3>2. CASE Type(args[1]) = "Array" /\ method # "clear"
      <4>1. elems = Contents(args[1]) /\ Len(Contents(args[1])) \in Lengths
        BY <2>4, <3>2 DEF Elements, Sized
      <4>2. Len(elems) \in Nat
        BY <2>6, <3>2, LenProperties
      <4> QED BY <4>1, <4>2, SmallInts
    <3> QED BY <2>5, <3>1, <3>2
  <2>8. CASE method \in {"contains", "isEmpty"}
    <3>1. \/ ArraysCall(method, args) = Ok(Bool(HasElement(elems, args[2])))
          \/ ArraysCall(method, args) = Ok(Bool(elems = <<>>))
      BY <1>2, <2>1, <2>8 DEF ArraysCall
    <3>2. HasElement(elems, args[2]) \in BOOLEAN /\ (elems = <<>>) \in BOOLEAN
      BY DEF HasElement
    <3>3. \E b \in BOOLEAN : ArraysCall(method, args) = Ok(Bool(b))
      BY <3>1, <3>2, Zenon
    <3> QED BY <3>3, Made3, Oks
  <2>9. CASE method = "add"
    <3>1. ArraysCall(method, args) = Ok(Array(Append(elems, args[2])))
      BY <1>2, <2>1, <2>9 DEF ArraysCall
    <3>2. Append(elems, args[2]) \in Seq(V)
      BY <2>3, <2>4, <2>6, <2>9, AppendProperties
    <3> QED BY <3>1, <3>2, Made3, Oks
  <2>10. CASE method = "remove"
    <3>1. ArraysCall(method, args) = Ok(Array(Removed(elems, args[2])))
      BY <1>2, <2>1, <2>10 DEF ArraysCall
    <3>2. Removed(elems, args[2]) \in Seq(V)
      <4>1. elems \in Seq(V)
        BY <2>6, <2>10
      <4> HIDE DEF elems
      <4>2. PICK f \in [0..Len(elems) -> Seq(V)] : Removed(elems, args[2]) = f[Len(elems)]
        BY <4>1, Keeping
      <4>3. Len(elems) \in 0..Len(elems)
        BY <4>1, LenProperties
      <4> QED BY <4>2, <4>3
    <3> QED BY <3>1, <3>2, Made3, Oks
  <2>11. CASE method = "clear"
    <3>1. ArraysCall(method, args) = Ok(Array(<<>>))
      BY <1>2, <2>1, <2>11 DEF ArraysCall
    <3>2. <<>> \in Seq(V)
      OBVIOUS
    <3> QED BY <3>1, <3>2, Made3, Oks
  <2>12. CASE method = "get"
    <3>1. ArraysCall(method, args) = Got(elems, ToInt(args[2]))
      BY <1>2, <2>1, <2>12 DEF ArraysCall
    <3>2. ToInt(args[2]).ok /\ Got(elems, ToInt(args[2])) = Ok(At(elems, Contents(ToInt(args[2]).val)))
      BY <3>1, Oks DEF Got
    <3>3. Contents(ToInt(args[2]).val) \in Int
      BY <2>3, <2>4, <2>12, <3>2, ToIntMeans
    <3>4. At(elems, Contents(ToInt(args[2]).val)) \in V \/ At(elems, Contents(ToInt(args[2]).val)) = Null
      BY <2>6, <2>12, <3>3, AtMakes
    <3> QED BY <3>1, <3>2, <3>4, Made3, Oks
  <2>13. CASE method = "size"
    <3>1. ArraysCall(method, args) = Ok(Number(Len(elems)))
      BY <1>2, <2>1, <2>13 DEF ArraysCall
    <3> QED BY <2>7, <2>13, <3>1, Made3, Oks
  <2>14. CASE method = "toCsvString"
    <3>1. ArraysCall(method, args) = IF \A k \in 1..Len(elems) : Type(elems[k]) = "string"
                                       THEN Ok(Text(Csv(elems))) ELSE Err
      BY <1>2, <2>1, <2>14 DEF ArraysCall
    <3>2. (\A k \in 1..Len(elems) : Type(elems[k]) = "string")
          /\ ArraysCall(method, args) = Ok(Text(Csv(elems)))
      BY <3>1, Oks
    <3>3. Csv(elems) \in Seq(Nat)
      BY <2>6, <2>14, <3>2, ListTexts
    <3> QED BY <3>2, <3>3, Made3, Oks
  <2> QED BY <2>2, <2>8, <2>9, <2>10, <2>11, <2>12, <2>13, <2>14
<1> QED BY <1>1, <1>2

(* Every method of Convert and of Iso3166Convert.                              *)
LEMMA ConvertMakes ==
  ASSUME LibrariesFit, NEW V, Closed(V), NEW args \in Seq(V), NEW method, ConvertCall(method, args).ok
  PROVE  Made(ConvertCall(method, args).val, V)
<1> DEFINE v == args[1]
<1>1. Len(args) = 1 /\ \/ method = "toInt" /\ ConvertCall(method, args) = ConvertToInt(v)
                       \/ method = "toNum" /\ ConvertCall(method, args) = ConvertToNum(v)
  <2>1. CASE method = "toInt" /\ Len(args) = 1
    BY <2>1 DEF ConvertCall
  <2>2. CASE method = "toNum" /\ Len(args) = 1
    BY <2>2 DEF ConvertCall
  <2>3. CASE ~(method = "toInt" /\ Len(args) = 1) /\ ~(method = "toNum" /\ Len(args) = 1)
    <3>1. ConvertCall(method, args) = Err
      BY <2>3 DEF ConvertCall
    <3> QED BY <3>1, Oks
  <2> QED BY <2>1, <2>2, <2>3
<1>2. v \in V
  <2>1. 1 \in 1..Len(args)
    BY <1>1
  <2> QED BY <2>1, ElementOfSeq
<1> HIDE DEF v
<1>3. ASSUME ConvertToInt(v).ok PROVE Made(ConvertToInt(v).val, V)
  <2>1. CASE Type(v) = "float64"
    <3>1. ConvertToInt(v) = Ok(Number(FloatToInt(Rounded(Contents(v)))))
      BY <2>1 DEF ConvertToInt
    <3>2. Contents(v) \in Int
      BY <1>2, <2>1, InClosed
    <3>3. Rounded(Contents(v)) \in Int
      BY <3>2, RoundsToNearest
    <3> QED BY <3>1, <3>3, FloatInt, Made3, Oks
  <2>2. CASE Type(v) = "string" /\ ~ToInt(v).ok
    <3>1. ConvertToInt(v) = Ok(Number(0)) /\ 0 \in Int
      BY <2>2 DEF ConvertToInt
    <3> QED BY <3>1, SmallInts, Made3, Oks
  <2>3. CASE ~(Type(v) = "float64") /\ ~(Type(v) = "string" /\ ~ToInt(v).ok)
    <3>1. ConvertToInt(v) = ToInt(v)
      BY <2>3 DEF ConvertToInt
    <3>2. Scalar(v)
      <4>1. CASE Type(v) \in {"Array", "Tuple", "map"}
        <5>1. ToInt(v) = Err
          BY <4>1 DEF ToInt
        <5> QED BY <1>3, <3>1, <5>1, Oks
      <4> QED BY <1>2, <4>1, InClosed
    <3> QED BY <1>3, <3>1, <3>2, ToIntInt DEF Made
  <2> QED BY <2>1, <2>2, <2>3
<1>4. ASSUME ConvertToNum(v).ok PROVE Made(ConvertToNum(v).val, V)
  <2>1. CASE Type(v) = "int"
    <3>1. ConvertToNum(v) = Ok(Float(Quarters * Contents(v))) /\ Contents(v) \in Int
      BY <1>2, <2>1, InClosed DEF ConvertToNum
    <3>2. Quarters * Contents(v) \in Int
      BY <3>1 DEF Quarters
    <3> QED BY <3>1, <3>2, Made3, Oks
  <2>2. CASE Type(v) = "bool"
    <3>1. ConvertToNum(v) = Ok(Float(Quarters * BoolToInt(Contents(v)))) /\ Contents(v) \in BOOLEAN
      BY <1>2, <2>2, InClosed DEF ConvertToNum
    <3>2. Quarters * BoolToInt(Contents(v)) \in Int
      BY <3>1, BoolInt DEF Quarters
    <3> QED BY <3>1, <3>2, Made3, Oks
  <2>3. CASE Type(v) = "float64"
    <3>1. ConvertToNum(v) = Ok(v)
      BY <2>3 DEF ConvertToNum
    <3> QED BY <1>2, <3>1, Made3, Oks
  <2>4. CASE Type(v) = "string"
    <3> DEFINE parsed == ParseFloat(Trim(Contents(v)))
    <3>1. ConvertToNum(v) = IF parsed.ok THEN parsed ELSE Ok(Float(0))
      BY <2>4 DEF ConvertToNum
    <3>2. Contents(v) \in Seq(Nat)
      BY <1>2, <2>4, InClosed
    <3>3. Trim(Contents(v)) \in Seq(Nat)
      BY <3>2, Trimmed
    <3>4. parsed = Err \/ \E n \in Int : parsed = Ok(Float(n))
      BY <3>3 DEF LibrariesFit
    <3> HIDE DEF parsed
    <3>5. \E n \in Int : ConvertToNum(v) = Ok(Float(n))
      <4>1. 0 \in Int
        OBVIOUS
      <4> QED BY <3>1, <3>4, <4>1, Oks
    <3> QED BY <3>5, Made3, Oks
  <2>5. CASE Type(v) \notin {"int", "bool", "float64", "string"}
    <3>1. ConvertToNum(v) = Err
      BY <2>5 DEF ConvertToNum
    <3> QED BY <1>4, <3>1, Oks
  <2> QED BY <2>1, <2>2, <2>3, <2>4, <2>5
<1> QED BY <1>1, <1>3, <1>4

LEMMA CellTexts ==
  ASSUME NEW i \in Rows, NEW column \in Columns
  PROVE  Table[i][column] \in Seq(Nat) /\ Table[i][column] \in Cells
<1>1. Table[i] \in [Columns -> Seq(Nat)]
  BY TableAssumption, ElementOfSeq DEF Rows
<1> QED BY <1>1 DEF Cells

(* findCountry finds a row, the first that has the identifier, or none.        *)
LEMMA Found ==
  ASSUME NEW s
  PROVE  FindCountry(s) = 0 \/ FindCountry(s) \in Rows
<1> DEFINE rows == {i \in Rows : Folded(i, IdentifierType(s)) = ToLower(s)}
<1>1. FindCountry(s) = IF rows = {} THEN 0 ELSE CHOOSE k \in rows : \A j \in rows : k <= j
  BY DEF FindCountry
<1>2. rows \in SUBSET Nat /\ rows \in SUBSET Rows
  BY TableAssumption, LenProperties DEF Rows
<1> HIDE DEF rows
<1>3. rows # {} => \E k \in rows : \A j \in rows : k <= j
  BY <1>2, Least
<1> QED BY <1>1, <1>2, <1>3

LEMMA IsoMakes ==
  ASSUME NEW V, NEW args, NEW method, IsoCall(method, args).ok
  PROVE  Made(IsoCall(method, args).val, V)
<1> DEFINE v == args[1]
           column == ColumnOf(method)
           country == IF Type(v) = "string" THEN FindCountry(Contents(v)) ELSE 0
<1>1. method \in IsoMethods /\ IsoCall(method, args) = Ok(Converted(v, column))
  BY Oks DEF IsoCall
<1>2. column \in Columns
  BY <1>1 DEF IsoMethods, ColumnOf, Columns
<1>3. Converted(v, column) = IF country = 0 THEN Null ELSE Text(Table[country][column])
  BY DEF Converted
<1>4. country = 0 \/ country \in Rows
  BY Found
<1> HIDE DEF country, column, v
<1> QED BY <1>1, <1>2, <1>3, <1>4, CellTexts, Made3, Oks

-----------------------------------------------------------------------------
(* A text is what comes before the first match, the match, and what comes      *)
(* after it.                                                                   *)
LEMMA FirstMatch ==
  ASSUME NEW s \in Seq(Nat), NEW t \in Seq(Nat), Occurs(t, s)
  PROVE  /\ First(t, s) \in Occurrences(t, s)
         /\ \A k \in Occurrences(t, s) : First(t, s) <= k
         /\ Before(t, s) \in Seq(Nat) /\ After(t, s) \in Seq(Nat)
         /\ Len(Before(t, s)) = First(t, s)
         /\ Before(t, s) \o t \o After(t, s) = s
<1> DEFINE k == First(t, s)
           m == k + Len(t)
<1>1. Len(s) \in Nat /\ Len(t) \in Nat
  BY LenProperties
<1>2. Occurrences(t, s) \in SUBSET Nat /\ Occurrences(t, s) # {}
  <2>1. \A j \in 0..Len(s) - Len(t) : j \in Nat
    BY <1>1
  <2> QED BY <2>1 DEF Occurrences, Occurs
<1>3. \E j \in Occurrences(t, s) : \A i \in Occurrences(t, s) : j <= i
  BY <1>2, Least
<1>4. k \in Occurrences(t, s) /\ \A j \in Occurrences(t, s) : k <= j
  BY <1>3 DEF First
<1>5. k \in 0..Len(s) - Len(t) /\ SubSeq(s, k + 1, k + Len(t)) = t
  <2> HIDE DEF k
  <2> QED BY <1>4 DEF Occurrences
<1>6. Before(t, s) = SubSeq(s, 1, k) /\ After(t, s) = SubSeq(s, m + 1, Len(s))
  BY DEF Before, After
<1> HIDE DEF k
<1>7. k \in Nat /\ m \in Nat /\ k <= m /\ m <= Len(s) /\ SubSeq(s, k + 1, m) = t
  BY <1>1, <1>5
<1> HIDE DEF m
<1>8. SubSeq(s, 1, k) \in Seq(Nat) /\ Len(SubSeq(s, 1, k)) = k
  <2>1. k = 0 \/ (1 <= k /\ \A i \in 1..k : s[i] \in Nat)
    BY <1>1, <1>7, ElementOfSeq
  <2>2. CASE k = 0
    <3>1. SubSeq(s, 1, k) = <<>>
      BY <2>2, SubSeqEmpty
    <3> QED BY <2>2, <3>1
  <2>3. CASE 1 <= k /\ \A i \in 1..k : s[i] \in Nat
    BY <1>7, <2>3, SubSeqProperties
  <2> QED BY <2>1, <2>2, <2>3
<1>9. SubSeq(s, m + 1, Len(s)) \in Seq(Nat)
  <2>1. \A i \in m + 1..Len(s) : s[i] \in Nat
    BY <1>1, <1>7, ElementOfSeq
  <2> QED BY <1>1, <1>7, <2>1, SubSeqProperties
<1>10. SubSeq(s, 1, k) \o SubSeq(s, k + 1, m) = SubSeq(s, 1, m)
  <2>1. 1 \in 1..Len(s) + 1 /\ k \in 1 - 1..Len(s) /\ m \in k..Len(s)
    BY <1>1, <1>7
  <2> QED BY <2>1, ConcatAdjacentSubSeq
<1>11. SubSeq(s, 1, m) \o SubSeq(s, m + 1, Len(s)) = SubSeq(s, 1, Len(s))
  <2>1. 1 \in 1..Len(s) + 1 /\ m \in 1 - 1..Len(s) /\ Len(s) \in m..Len(s)
    BY <1>1, <1>7
  <2> QED BY <2>1, ConcatAdjacentSubSeq
<1>12. SubSeq(s, 1, Len(s)) = s
  BY SubSeqFull
<1> QED BY <1>4, <1>6, <1>7, <1>8, <1>9, <1>10, <1>11, <1>12 DEF k

LEMMA SliceTexts ==
  ASSUME NEW s \in Seq(Nat), NEW start \in Int, NEW end \in Int
  PROVE  PySlice(s, start, end) \in Seq(Nat) /\ Substring(s, start, end) \in Seq(Nat)
<1>1. ASSUME NEW i \in Int, NEW j \in Int PROVE PySlice(s, i, j) \in Seq(Nat)
  <2> DEFINE a == PySliceBound(i, Len(s))
             b == PySliceBound(j, Len(s))
  <2>1. Len(s) \in Nat
    BY LenProperties
  <2>2. a \in 0..Len(s) /\ b \in 0..Len(s)
    BY <2>1, BoundRange
  <2> HIDE DEF a, b
  <2>3. \A k \in a + 1..b : s[k] \in Nat
    BY <2>1, <2>2, ElementOfSeq
  <2>4. SubSeq(s, a + 1, b) \in Seq(Nat)
    BY <2>1, <2>2, <2>3, SubSeqProperties
  <2> QED BY <2>4 DEF PySlice, a, b
<1>2. -1 \in Int
  OBVIOUS
<1> QED BY <1>1, <1>2 DEF Substring

LEMMA CaseTexts ==
  ASSUME NEW s \in Seq(Nat)
  PROVE  /\ Lower(s) \in Seq(Nat) /\ Len(Lower(s)) = Len(s)
         /\ Upper(s) \in Seq(Nat) /\ Len(Upper(s)) = Len(s)
<1>1. Len(s) \in Nat /\ (\A k \in 1..Len(s) : s[k] \in Nat) /\ DOMAIN s = 1..Len(s)
  BY LenProperties, ElementOfSeq
<1>2. \A k \in 1..Len(s) : (IF s[k] \in 65..90 THEN s[k] + 32 ELSE s[k]) \in Nat
  BY <1>1
<1>3. \A k \in 1..Len(s) : (IF s[k] \in 97..122 THEN s[k] - 32 ELSE s[k]) \in Nat
  <2>1. \A c \in Nat : (IF c \in 97..122 THEN c - 32 ELSE c) \in Nat
    OBVIOUS
  <2> QED BY <1>1, <2>1
<1>4. Lower(s) \in [1..Len(s) -> Nat] /\ Upper(s) \in [1..Len(s) -> Nat]
  BY <1>1, <1>2, <1>3 DEF Lower, Upper
<1>5. \A f \in [1..Len(s) -> Nat] : f \in Seq(Nat) /\ Len(f) = Len(s)
  <2>1. \A n \in Nat : \A f \in [1..n -> Nat] : f \in Seq(Nat) /\ Len(f) = n
    OBVIOUS
  <2> QED BY <1>1, <2>1
<1> QED BY <1>4, <1>5

LEMMA ReplacedTexts ==
  ASSUME NEW s \in Seq(Nat), NEW t \in Seq(Nat), NEW r \in Seq(Nat)
  PROVE  Replaced(s, t, r) \in Seq(Nat) /\ ReplacedFirst(s, t, r) \in Seq(Nat)
<1>1. Replaced(s, t, r) \in Seq(Nat)
  <2>1. PICK f : Replaces(f, s, t, r)
    BY Replacing
  <2>2. 0 \in 0..Len(s)
    BY LenProperties
  <2>3. f \in [0..Len(s) -> Seq(Nat)] /\ Replaced(s, t, r) = f[0]
    BY <2>1 DEF Replaces
  <2> QED BY <2>2, <2>3
<1>2. ReplacedFirst(s, t, r) \in Seq(Nat)
  <2>1. CASE Occurs(t, s)
    <3>1. Before(t, s) \in Seq(Nat) /\ After(t, s) \in Seq(Nat)
      BY <2>1, FirstMatch
    <3>2. ReplacedFirst(s, t, r) = Before(t, s) \o r \o After(t, s)
      BY <2>1 DEF ReplacedFirst
    <3> QED BY <3>1, <3>2, ConcatProperties
  <2>2. CASE ~Occurs(t, s)
    BY <2>2 DEF ReplacedFirst
  <2> QED BY <2>1, <2>2
<1> QED BY <1>1, <1>2

(* String.stringSwitch gives one of the values it is given.                    *)
LEMMA SwitchMakes ==
  ASSUME NEW V, NEW pairs \in Seq(V), NEW default \in V, NEW v, Switched(v, default, pairs).ok
  PROVE  Made(Switched(v, default, pairs).val, V)
<1> DEFINE key(i) == pairs[2 * i - 1]
           ends == {i \in 1..Len(pairs) \div 2 :
                      ~IsText(key(i)) \/ Occurs(Contents(key(i)), Contents(v))}
           stop == CHOOSE i \in ends : \A j \in ends : i <= j
<1>1. Switched(v, default, pairs) =
        IF Len(pairs) % 2 # 0 THEN Ok(Bool(FALSE))
        ELSE IF ends = {} THEN Ok(default)
        ELSE IF IsText(key(stop)) THEN Ok(pairs[2 * stop]) ELSE Err
  BY DEF Switched
<1>2. Len(pairs) \in Nat /\ ends \in SUBSET Nat /\ ends \in SUBSET (1..Len(pairs) \div 2)
  BY LenProperties
<1>3. ends # {} => 2 * stop \in 1..Len(pairs)
  <2>1. ASSUME ends # {} PROVE stop \in ends
    <3>1. \E i \in ends : \A j \in ends : i <= j
      <4> HIDE DEF ends
      <4> QED BY <1>2, <2>1, Least
    <3> HIDE DEF ends
    <3> QED BY <3>1
  <2>2. ASSUME NEW n \in Nat, NEW i \in 1..n \div 2 PROVE 2 * i \in 1..n
    OBVIOUS
  <2> HIDE DEF ends, stop
  <2> QED BY <1>2, <2>1, <2>2
<1>4. FALSE \in BOOLEAN
  OBVIOUS
<1> HIDE DEF ends, stop
<1>5. ends # {} => pairs[2 * stop] \in V
  BY <1>3, ElementOfSeq
<1>6. \/ Switched(v, default, pairs).val = Bool(FALSE)
      \/ Switched(v, default, pairs).val \in V
  BY <1>1, <1>5, Oks
<1> QED BY <1>4, <1>6, Made3

(* Every method of String.                                                     *)
LEMMA StringMakes ==
  ASSUME LibrariesFit, NEW V, Closed(V), NEW args \in Seq(V), args # <<>> => Sized(args[1]),
         NEW method, StringCall(method, args).ok
  PROVE  Made(StringCall(method, args).val, V)
<1> DEFINE v == args[1]
           r == StringCall(method, args)
<1>1. StringArgsOk(method, args)
  BY Oks DEF StringCall
<1>2. CASE method = "join"
  <2>1. args # <<>> /\ \A k \in 1..Len(args) : IsText(args[k])
    BY <1>1, <1>2 DEF StringArgsOk
  <2>2. Tail(args) \in Seq(V) /\ Len(Tail(args)) = Len(args) - 1
        /\ \A k \in 1..Len(Tail(args)) : Tail(args)[k] = args[k + 1]
    BY <2>1, HeadTailProperties
  <2>3. Len(args) \in Nat \ {0} /\ 1 \in 1..Len(args)
    BY <2>1, LenProperties, EmptySeq
  <2>4. \A k \in 1..Len(Tail(args)) : Type(Tail(args)[k]) = "string"
    <3>1. ASSUME NEW k \in 1..Len(Tail(args)) PROVE Type(Tail(args)[k]) = "string"
      <4>1. k + 1 \in 1..Len(args)
        BY <2>2, <2>3
      <4> QED BY <2>1, <2>2, <4>1 DEF IsText
    <3> QED BY <3>1
  <2>5. v \in V /\ Type(v) = "string"
    BY <2>1, <2>3, ElementOfSeq DEF IsText
  <2>6. Contents(v) \in Seq(Nat)
    BY <2>5, InClosed
  <2>7. Joined(Contents(v), Tail(args)) \in Seq(Nat)
    BY <2>2, <2>4, <2>6, ListTexts
  <2>8. r = Ok(Text(Joined(Contents(v), Tail(args))))
    BY <1>1, <1>2 DEF StringCall
  <2> QED BY <2>7, <2>8, Made3, Oks
<1>3. CASE method = "stringSwitch"
  <2>1. Len(args) \in Nat /\ Len(args) >= 2
    BY <1>1, <1>3, LenProperties DEF StringArgsOk
  <2>2. args[2] \in V
    <3>1. 2 \in 1..Len(args)
      BY <2>1
    <3> QED BY <3>1, ElementOfSeq
  <2>3. SubSeq(args, 3, Len(args)) \in Seq(V)
    <3>1. \A k \in 3..Len(args) : args[k] \in V
      BY <2>1, ElementOfSeq
    <3> QED BY <2>1, <3>1, SubSeqProperties
  <2>4. r = Switched(v, args[2], SubSeq(args, 3, Len(args)))
    BY <1>1, <1>3 DEF StringCall
  <2> HIDE DEF v
  <2> QED BY <2>2, <2>3, <2>4, SwitchMakes
<1>4. CASE method \notin {"join", "stringSwitch"}
  <2>1. method \in DOMAIN StringArity /\ Len(args) = StringArity[method]
        /\ (method = "len" => IsText(args[1])) /\ (method = "startsWith" => IsText(args[2]))
    BY <1>1, <1>4 DEF StringArgsOk
  <2>2. method \in {"len", "stringContains", "startsWith", "toLowerCase", "toUpperCase",
                    "append", "removeSpaces", "replace", "replaceFirst", "contains",
                    "substring", "substringAfter", "substringBefore"}
    BY <2>1 DEF StringArity
  <2>3. /\ Len(args) \in {1, 2, 3}
        /\ method \in {"replace", "replaceFirst", "substring"} => Len(args) = 3
        /\ method \in {"stringContains", "startsWith", "append", "contains", "substringAfter",
                       "substringBefore"} => Len(args) = 2
    BY <2>1, <2>2 DEF StringArity
  <2>4. /\ v \in V /\ args # <<>>
        /\ Len(args) \in {2, 3} => args[2] \in V
        /\ Len(args) = 3 => args[3] \in V
    <3>1. \A n \in {1, 2, 3} : /\ 1 \in 1..n /\ n # 0
                               /\ (n \in {2, 3} => 2 \in 1..n) /\ (n = 3 => 3 \in 1..n)
      OBVIOUS
    <3> QED BY <2>3, <3>1, ElementOfSeq, EmptySeq
  <2>5. /\ PyStr(v) \in Seq(Nat)
        /\ Len(args) \in {2, 3} => PyStr(args[2]) \in Seq(Nat)
        /\ Len(args) = 3 => PyStr(args[3]) \in Seq(Nat)
    BY <2>4, PyTexts
  <2>6. IsText(v) => Contents(v) \in Seq(Nat)
    BY <2>4, InClosed DEF IsText
  <2> HIDE DEF v
  <2>7. CASE method = "len"
    <3>1. r = Ok(Number(Len(Contents(v))))
      BY <1>1, <2>7 DEF StringCall, v
    <3>2. Len(Contents(v)) \in Lengths /\ Len(Contents(v)) \in Nat
      <4>1. IsText(v) /\ Sized(v)
        BY <2>1, <2>4, <2>7 DEF v
      <4>2. Type(v) \in {"string", "Array"}
        BY <4>1 DEF IsText
      <4> QED BY <2>6, <4>1, <4>2, LenProperties DEF Sized
    <3> HIDE DEF r
    <3>3. \E n \in Int : n = Wrap(n) /\ r = Ok(Number(n))
      BY <3>1, <3>2, SmallInts
    <3>4. Made(r.val, V)
      BY <3>3, Made3, Oks
    <3> QED BY <3>4 DEF r
  <2>8. CASE method \in {"stringContains", "startsWith", "contains"}
    <3>1. \/ r = Ok(Bool(StringContains(v, args[2])))
          \/ r = Ok(Bool(HasPrefix(PyStr(v), Contents(args[2]))))
          \/ r = Ok(Bool(Occurs(PyStr(args[2]), PyStr(v))))
      BY <1>1, <2>8 DEF StringCall, v
    <3>2. StringContains(v, args[2]) \in BOOLEAN
      <4>1. CASE IsText(v)
        BY <4>1 DEF StringContains, Occurs
      <4>2. CASE Type(v) = "Array"
        <5>1. ~IsText(v)
          BY <4>2 DEF IsText
        <5>2. StringContains(v, args[2]) =
                (\E k \in 1..Len(Contents(v)) : Equal(Contents(v)[k], args[2]))
          BY <4>2, <5>1 DEF StringContains
        <5> QED BY <5>2
      <4>3. CASE ~IsText(v) /\ Type(v) # "Array"
        BY <4>3 DEF StringContains
      <4> QED BY <4>1, <4>2, <4>3
    <3>3. HasPrefix(PyStr(v), Contents(args[2])) \in BOOLEAN /\ Occurs(PyStr(args[2]), PyStr(v)) \in BOOLEAN
      BY DEF HasPrefix, Occurs
    <3> HIDE DEF r
    <3>4. \E b \in BOOLEAN : r = Ok(Bool(b))
      BY <3>1, <3>2, <3>3, Zenon
    <3>5. Made(r.val, V)
      BY <3>4, Made3, Oks
    <3> QED BY <3>5 DEF r
  <2>9. CASE method \in {"toLowerCase", "toUpperCase"}
    <3>1. r = Ok(ToLowerCase(v)) \/ r = Ok(ToUpperCase(v))
      BY <1>1, <2>9 DEF StringCall, v
    <3>2. IsText(v) => \E s \in Seq(Nat) : ToLowerCase(v) = Text(s)
      BY <2>6, CaseTexts DEF ToLowerCase
    <3>3. IsText(v) => \E s \in Seq(Nat) : ToUpperCase(v) = Text(s)
      BY <2>6, CaseTexts DEF ToUpperCase
    <3>4. ~IsText(v) => ToLowerCase(v) = v /\ ToUpperCase(v) = v
      BY DEF ToLowerCase, ToUpperCase
    <3> HIDE DEF r
    <3>5. Made(r.val, V)
      BY <2>4, <3>1, <3>2, <3>3, <3>4, Made3, Oks
    <3> QED BY <3>5 DEF r
  <2>10. CASE method \in {"append", "removeSpaces", "replace", "replaceFirst"}
    <3>1. \/ Len(args) = 2 /\ r = Ok(Text(Appended(v, args[2])))
          \/ r = Ok(Text(Replaced(PyStr(v), <<32>>, <<>>)))
          \/ Len(args) = 3 /\ r = Ok(Text(StringReplace(v, args[2], args[3])))
          \/ Len(args) = 3 /\ r = Ok(Text(ReplacedFirst(PyStr(v), PyStr(args[2]), PyStr(args[3]))))
      BY <1>1, <2>3, <2>10 DEF StringCall, v
    <3>2. Len(args) = 2 => Appended(v, args[2]) \in Seq(Nat)
      <4>1. <<Dollar>> \in Seq(Nat)
        BY DEF Dollar
      <4> QED BY <2>5, <4>1, ConcatProperties DEF Appended
    <3>3. Replaced(PyStr(v), <<32>>, <<>>) \in Seq(Nat)
      <4>1. <<32>> \in Seq(Nat) /\ <<>> \in Seq(Nat)
        OBVIOUS
      <4> QED BY <2>5, <4>1, ReplacedTexts
    <3>4. Len(args) = 3 => /\ StringReplace(v, args[2], args[3]) \in Seq(Nat)
                           /\ ReplacedFirst(PyStr(v), PyStr(args[2]), PyStr(args[3])) \in Seq(Nat)
      BY <2>5, ReplacedTexts DEF StringReplace
    <3> HIDE DEF r
    <3>5. \E s \in Seq(Nat) : r = Ok(Text(s))
      BY <3>1, <3>2, <3>3, <3>4
    <3>6. Made(r.val, V)
      BY <3>5, Made3, Oks
    <3> QED BY <3>6 DEF r
  <2>11. CASE method = "substring"
    <3>1. r = Subtext(v, ToInt(args[2]), ToInt(args[3]))
      BY <1>1, <2>11 DEF StringCall, v
    <3>2. r.ok
      OBVIOUS
    <3> HIDE DEF r
    <3>3. CASE ~IsText(v)
      <4>1. r = Ok(Text(<<>>)) /\ <<>> \in Seq(Nat)
        BY <3>1, <3>3 DEF Subtext
      <4>2. Made(r.val, V)
        BY <4>1, Made3, Oks
      <4> QED BY <4>2 DEF r
    <3>4. CASE IsText(v)
      <4>1. ToInt(args[2]).ok /\ ToInt(args[3]).ok
        BY <3>1, <3>2, <3>4, Oks DEF Subtext
      <4>2. r = Ok(Text(Substring(Contents(v), Contents(ToInt(args[2]).val), Contents(ToInt(args[3]).val))))
        BY <3>1, <3>4, <4>1 DEF Subtext
      <4>3. Contents(ToInt(args[2]).val) \in Int /\ Contents(ToInt(args[3]).val) \in Int
        BY <2>3, <2>4, <2>11, <4>1, ToIntMeans
      <4>4. Substring(Contents(v), Contents(ToInt(args[2]).val), Contents(ToInt(args[3]).val)) \in Seq(Nat)
        BY <2>6, <3>4, <4>3, SliceTexts
      <4>5. Made(r.val, V)
        BY <4>2, <4>4, Made3, Oks
      <4> QED BY <4>5 DEF r
    <3> QED BY <3>3, <3>4
  <2>12. CASE method \in {"substringAfter", "substringBefore"}
    <3>1. r = Ok(SubstringAfter(v, PyStr(args[2]))) \/ r = Ok(SubstringBefore(v, PyStr(args[2])))
      BY <1>1, <2>12 DEF StringCall, v
    <3>2. PyStr(args[2]) \in Seq(Nat)
      BY <2>3, <2>5, <2>12
    <3> HIDE DEF r
    <3>3. (\E s \in Seq(Nat) : r = Ok(Text(s))) \/ r = Ok(v)
      BY <2>5, <3>1, <3>2, FirstMatch DEF SubstringAfter, SubstringBefore
    <3>4. Made(r.val, V)
      BY <2>4, <3>3, Made3, Oks
    <3> QED BY <3>4 DEF r
  <2> QED BY <2>2, <2>7, <2>8, <2>9, <2>10, <2>11, <2>12
<1> QED BY <1>2, <1>3, <1>4

LEMMA CallMakes ==
  ASSUME LibrariesFit, NEW V, Closed(V), NEW args \in Seq(V), args # <<>> => Sized(args[1]),
         NEW m \in Methods, CallOf(m[1], m[2], args).ok
  PROVE  Made(CallOf(m[1], m[2], args).val, V)
<1>1. m[1] \in {"Arrays", "String", "Convert", "Iso3166Convert"}
  BY DEF Methods
<1>2. CASE m[1] = "Arrays"
  <2>1. CallOf(m[1], m[2], args) = ArraysCall(m[2], args)
    BY <1>2 DEF CallOf
  <2> QED BY <2>1, ArraysMake
<1>3. CASE m[1] = "String"
  <2>1. CallOf(m[1], m[2], args) = StringCall(m[2], args)
    BY <1>3 DEF CallOf
  <2> QED BY <2>1, StringMakes
<1>4. CASE m[1] = "Convert"
  <2>1. CallOf(m[1], m[2], args) = ConvertCall(m[2], args)
    BY <1>4 DEF CallOf
  <2> QED BY <2>1, ConvertMakes
<1>5. CASE m[1] = "Iso3166Convert"
  <2>1. CallOf(m[1], m[2], args) = IsoCall(m[2], args)
    BY <1>5 DEF CallOf
  <2> QED BY <2>1, IsoMakes
<1> QED BY <1>1, <1>2, <1>3, <1>4, <1>5

LEMMA GivenFits == Closed(Given) /\ \A v \in Given : Sized(v)
<1>1. ASSUME NEW v \in Given
      PROVE  Scalar(v) \/ v \in {"Array"} \X Seq(Given) \/ Compound(v)
  <2>1. CASE v \in {"Array", "Tuple"} \X Seq(Given)
    BY <2>1 DEF Compound, Type
  <2>2. CASE v = Map(Contents(v))
    <3>1. Type(v) = "map"
      BY <2>2 DEF Map, Type
    <3> QED BY <3>1 DEF Compound
  <2> QED BY <2>1, <2>2, GivenAssumption
<1>2. ASSUME NEW v \in Given PROVE Sized(v)
  BY DEF Sized, Lengths
<1> QED BY <1>1, <1>2 DEF Closed

(* Of every value that nested calls return, the inductive invariant says that  *)
(* it is a proper value, to the bottom of its arrays, and of a length that an  *)
(* int holds.                                                                  *)
CInv == Proper(value) /\ Sized(value) /\ failed \in BOOLEAN

LEMMA FirstCall ==
  ASSUME Init
  PROVE  CInv
<1>1. value \in Given /\ failed = FALSE
  BY DEF Init, Given
<1>2. Proper(value)
  BY <1>1, GivenFits DEF Proper
<1>3. Sized(value)
  BY <1>1, GivenFits
<1> QED BY <1>1, <1>2, <1>3 DEF CInv

LEMMA NextCall ==
  ASSUME LibrariesFit, CInv, [Next]_vars
  PROVE  CInv'
<1>1. CASE Nest
  <2>1. PICK m \in Methods, rest \in Arguments :
          /\ Outcome(m, rest).ok /\ Bounded(Outcome(m, rest).val)
          /\ value' = Outcome(m, rest).val
    BY <1>1 DEF Nest
  <2>2. PICK W : Closed(W) /\ value \in W
    BY DEF CInv, Proper
  <2> DEFINE V == W \cup Given
             args == SpreadArgs(value) \o rest
  <2>3. Closed(V)
    BY <2>2, BothClosed, GivenFits
  <2>4. args \in Seq(V) /\ (args # <<>> => Sized(args[1]))
    <3>1. rest \in Seq(Given)
      BY GivenAssumption
    <3>2. CASE Type(value) = "Tuple"
      <4>1. SpreadArgs(value) \in Seq(Given)
        <5>1. Compound(value)
          BY <2>2, <3>2, InClosed
        <5> QED BY <3>2, <5>1, Compounds DEF SpreadArgs
      <4>2. args \in Seq(Given)
        BY <3>1, <4>1, ConcatProperties
      <4> HIDE DEF args
      <4>3. args # <<>> => args[1] \in Given
        BY <4>2
      <4>4. args \in Seq(V)
        <5>1. Given \subseteq V
          OBVIOUS
        <5> HIDE DEF V
        <5> QED BY <4>2, <5>1, SeqMonotonic
      <4> QED BY <4>3, <4>4, GivenFits
    <3>3. CASE Type(value) # "Tuple"
      <4>1. SpreadArgs(value) = <<value>>
        BY <3>3 DEF SpreadArgs
      <4>2. rest \in Seq(V) /\ value \in V
        <5>1. Given \subseteq V /\ value \in V
          BY <2>2
        <5> HIDE DEF V
        <5> QED BY <3>1, <5>1, SeqMonotonic
      <4> HIDE DEF V
      <4>3. 1 \in 1..Len(rest) + 1
        BY <4>2, LenProperties
      <4>4. <<value>> \o rest \in Seq(V) /\ (<<value>> \o rest)[1] = value
        BY <4>2, <4>3, Prepended
      <4>5. args \in Seq(V) /\ args[1] = value
        BY <4>1, <4>4, Zenon
      <4> QED BY <4>5 DEF CInv
    <3> QED BY <3>2, <3>3
  <2> HIDE DEF V
  <2>5. Outcome(m, rest) = CallOf(m[1], m[2], args)
    BY DEF Outcome
  <2> HIDE DEF args
  <2>7. Made(value', V)
    BY <2>1, <2>3, <2>4, <2>5, CallMakes
  <2>8. Proper(value')
    BY <2>3, <2>7, Grown
  <2>9. Sized(value')
    <3>1. Type(value') = "string" \/ Type(value') = "Array" =>
            Len(Contents(value')) <= MaxLength \/ Contents(value') \in Cells
      <4>1. Bounded(value')
        BY <2>1
      <4>2. CASE IsText(value')
        BY <4>1, <4>2 DEF Bounded
      <4>3. CASE Type(value') = "Array"
        <5>1. ~IsText(value')
          BY <4>3 DEF IsText
        <5> QED BY <4>1, <4>3, <5>1 DEF Bounded
      <4> QED BY <4>2, <4>3 DEF IsText
    <3>2. Type(value') = "string" \/ Type(value') = "Array" => Len(Contents(value')) \in Nat
      <4>1. PICK U : Closed(U) /\ value' \in U
        BY <2>8 DEF Proper
      <4>2. Type(value') = "string" \/ Type(value') = "Array" =>
              Contents(value') \in Seq(Nat) \/ Contents(value') \in Seq(U)
        BY <4>1, InClosed
      <4> QED BY <4>2, LenProperties
    <3>3. \A n \in Nat : n <= MaxLength => n \in Lengths
      BY LengthAssumption DEF Lengths
    <3>4. \A s \in Cells : Len(s) \in Lengths
      BY DEF Lengths
    <3> QED BY <3>1, <3>2, <3>3, <3>4 DEF Sized
  <2> QED BY <1>1, <2>8, <2>9 DEF Nest, CInv
<1>2. CASE Fail
  BY <1>2 DEF Fail, CInv
<1>3. CASE UNCHANGED vars
  BY <1>3 DEF vars, CInv
<1> QED BY <1>1, <1>2, <1>3 DEF Next

LEMMA CallsAlways ==
  ASSUME LibrariesFit
  PROVE  Spec => []CInv
<1>1. Init => CInv
  BY FirstCall
<1>2. CInv /\ [Next]_vars => CInv'
  BY NextCall
<1> QED BY <1>1, <1>2, PTL DEF Spec

LEMMA ProperFits ==
  ASSUME NEW v, Proper(v)
  PROVE  \/ Scalar(v) /\ v = <<Type(v), Contents(v)>>
         \/ /\ v = <<Type(v), Contents(v)>>
            /\ Type(v) = "Array" /\ Contents(v) \in Seq(Range(Contents(v)))
            /\ \A k \in 1..Len(Contents(v)) : Proper(Contents(v)[k])
         \/ Compound(v) /\ Type(v) \in {"Tuple", "map"}
<1>1. PICK V : Closed(V) /\ v \in V
  BY DEF Proper
<1>2. /\ v = <<Type(v), Contents(v)>>
      /\ \/ Scalar(v)
         \/ Type(v) = "Array" /\ Contents(v) \in Seq(V)
         \/ Compound(v) /\ Type(v) \in {"Tuple", "map"}
  BY <1>1, InClosed
<1>3. ASSUME Contents(v) \in Seq(V)
      PROVE  /\ Contents(v) \in Seq(Range(Contents(v)))
             /\ \A k \in 1..Len(Contents(v)) : Contents(v)[k] \in V
  BY <1>3, OwnRange, ElementOfSeq
<1> QED BY <1>1, <1>2, <1>3 DEF Proper

(* However the calls of a rule are nested, and whatever they are given, tuples *)
(* and maps too: an int they return is one the machine has, and a tuple or a   *)
(* map they return, by itself or in an array, is one of those they were given. *)
THEOREM CallsReturnValues ==
  ASSUME LibrariesFit
  PROVE  Spec => []TypeOK
<1>1. ASSUME CInv PROVE TypeOK
  <2>1. \A v : Proper(v) => Scalar(v) \/ Compound(v) \/ Type(v) = "Array"
    BY ProperFits
  <2>2. Proper(value) /\ failed \in BOOLEAN
    BY <1>1 DEF CInv
  <2> QED BY <2>1, <2>2, ProperFits DEF TypeOK
<1>2. Spec => []CInv
  BY CallsAlways
<1>3. CInv => TypeOK
  BY <1>1
<1> QED BY <1>2, <1>3, PTL

-----------------------------------------------------------------------------
(* The arguments of a call that are written out.                               *)
LEMMA CallArgs ==
  ASSUME NEW v, NEW a, NEW b
  PROVE  <<v>> \o <<>> = <<v>> /\ <<v>> \o <<a>> = <<v, a>> /\ <<v>> \o <<a, b>> = <<v, a, b>>
<1> DEFINE S == {v, a, b}
           t == <<a, b>>
           w == <<v, a, b>>
<1>1. <<v>> \o <<>> = <<v>>
  <2>1. <<v>> \in Seq(S)
    OBVIOUS
  <2> QED BY <2>1, ConcatEmptySeq
<1>0. v \in S /\ t \in Seq(S)
  OBVIOUS
<1>2. Len(t) = 2 /\ t[1] = a /\ t[2] = b
  OBVIOUS
<1>3. w \in Seq(S) /\ Len(w) = 3 /\ w[1] = v /\ w[2] = a /\ w[3] = b
  OBVIOUS
<1> HIDE DEF S, t, w
<1>4. /\ <<v>> \o t \in Seq(S) /\ Len(<<v>> \o t) = 3
      /\ \A k \in 1..3 : (<<v>> \o t)[k] = (IF k = 1 THEN v ELSE t[k - 1])
  <2>1. /\ <<v>> \o t \in Seq(S) /\ Len(<<v>> \o t) = Len(t) + 1
        /\ \A k \in 1..Len(t) + 1 : (<<v>> \o t)[k] = (IF k = 1 THEN v ELSE t[k - 1])
    BY <1>0, Prepended
  <2>2. 2 + 1 = 3
    OBVIOUS
  <2> QED BY <1>2, <2>1, <2>2
<1> DEFINE u == <<v>> \o t
<1>5. u \in Seq(S) /\ Len(u) = 3 /\ \A k \in 1..3 : u[k] = (IF k = 1 THEN v ELSE t[k - 1])
  BY <1>4
<1> HIDE DEF u
<1>6. u[1] = v /\ u[2] = a /\ u[3] = b
  BY <1>2, <1>5
<1>7. \A k \in 1..3 : u[k] = w[k]
  <2>1. \A k \in 1..3 : k = 1 \/ k = 2 \/ k = 3
    OBVIOUS
  <2> QED BY <1>3, <1>6, <2>1
<1>8. u = w
  BY <1>3, <1>5, <1>7, SeqEqual
<1> QED BY <1>1, <1>8, PairConcat DEF u, t, w

LEMMA ThreeArgs ==
  ASSUME NEW v, NEW a, NEW b
  PROVE  /\ Len(<<v>>) = 1 /\ <<v>>[1] = v
         /\ Len(<<v, a>>) = 2 /\ <<v, a>>[1] = v /\ <<v, a>>[2] = a
         /\ Len(<<v, a, b>>) = 3 /\ <<v, a, b>>[1] = v /\ <<v, a, b>>[2] = a /\ <<v, a, b>>[3] = b
OBVIOUS

(* What the calls the properties are about return.                             *)
LEMMA ArraysCalls ==
  ASSUME NEW list, Type(list) = "Array", NEW v
  PROVE  /\ ArraysCall("contains", <<list, v>>) = Ok(Bool(HasElement(Contents(list), v)))
         /\ ArraysCall("remove", <<list, v>>) = Ok(Array(Removed(Contents(list), v)))
         /\ ArraysCall("get", <<list, v>>) = Got(Contents(list), ToInt(v))
<1>1. \A method \in {"contains", "remove", "get"} : ArgsOk(method, <<list, v>>)
  <2>1. /\ "contains" \in DOMAIN Arity /\ "remove" \in DOMAIN Arity /\ "get" \in DOMAIN Arity
        /\ Arity["contains"] = 2 /\ Arity["remove"] = 2 /\ Arity["get"] = 2
    BY DEF Arity
  <2>2. Len(<<list, v>>) = 2 /\ <<list, v>>[1] = list
    OBVIOUS
  <2> QED BY <2>1, <2>2 DEF ArgsOk
<1>2. Elements(list) = Contents(list) /\ <<list, v>>[1] = list /\ <<list, v>>[2] = v
  BY DEF Elements
<1>3. ArraysCall("contains", <<list, v>>) = Ok(Bool(HasElement(Contents(list), v)))
  BY <1>1, <1>2 DEF ArraysCall
<1>4. ArraysCall("remove", <<list, v>>) = Ok(Array(Removed(Contents(list), v)))
  BY <1>1, <1>2 DEF ArraysCall
<1>5. ArraysCall("get", <<list, v>>) = Got(Contents(list), ToInt(v))
  BY <1>1, <1>2 DEF ArraysCall
<1> QED BY <1>3, <1>4, <1>5

LEMMA StringCalls ==
  ASSUME NEW v, NEW w, NEW x
  PROVE  /\ StringCall("substring", <<v, w, x>>) = Subtext(v, ToInt(w), ToInt(x))
         /\ StringCall("replace", <<v, w, x>>) = Ok(Text(StringReplace(v, w, x)))
         /\ StringCall("replaceFirst", <<v, w, x>>) =
              Ok(Text(ReplacedFirst(PyStr(v), PyStr(w), PyStr(x))))
         /\ StringCall("stringContains", <<v, w>>) = Ok(Bool(StringContains(v, w)))
         /\ StringCall("contains", <<v, w>>) = Ok(Bool(Occurs(PyStr(w), PyStr(v))))
         /\ StringCall("substringBefore", <<v, w>>) = Ok(SubstringBefore(v, PyStr(w)))
         /\ StringCall("substringAfter", <<v, w>>) = Ok(SubstringAfter(v, PyStr(w)))
         /\ StringCall("removeSpaces", <<v>>) = Ok(Text(Replaced(PyStr(v), <<32>>, <<>>)))
<1>1. /\ StringArity["substring"] = 3 /\ StringArity["replace"] = 3
      /\ StringArity["replaceFirst"] = 3 /\ StringArity["stringContains"] = 2
      /\ StringArity["contains"] = 2 /\ StringArity["substringBefore"] = 2
      /\ StringArity["substringAfter"] = 2 /\ StringArity["removeSpaces"] = 1
  BY DEF StringArity
<1>2. \A method \in {"substring", "replace", "replaceFirst", "stringContains", "contains",
                     "substringBefore", "substringAfter", "removeSpaces"} :
        method \in DOMAIN StringArity
  BY DEF StringArity
<1>3. \A method \in {"substring", "replace", "replaceFirst"} : StringArgsOk(method, <<v, w, x>>)
  BY <1>1, <1>2, ThreeArgs DEF StringArgsOk
<1>4. \A method \in {"stringContains", "contains", "substringBefore", "substringAfter"} :
        StringArgsOk(method, <<v, w>>)
  BY <1>1, <1>2, ThreeArgs DEF StringArgsOk
<1>5. StringArgsOk("removeSpaces", <<v>>)
  BY <1>1, <1>2, ThreeArgs DEF StringArgsOk
<1>6. StringCall("substring", <<v, w, x>>) = Subtext(v, ToInt(w), ToInt(x))
  BY <1>3, ThreeArgs DEF StringCall
<1>7. StringCall("replace", <<v, w, x>>) = Ok(Text(StringReplace(v, w, x)))
  BY <1>3, ThreeArgs DEF StringCall
<1>8. StringCall("replaceFirst", <<v, w, x>>) =
        Ok(Text(ReplacedFirst(PyStr(v), PyStr(w), PyStr(x))))
  BY <1>3, ThreeArgs DEF StringCall
<1>9. StringCall("stringContains", <<v, w>>) = Ok(Bool(StringContains(v, w)))
  BY <1>4, ThreeArgs DEF StringCall
<1>10. StringCall("contains", <<v, w>>) = Ok(Bool(Occurs(PyStr(w), PyStr(v))))
  BY <1>4, ThreeArgs DEF StringCall
<1>11. StringCall("substringBefore", <<v, w>>) = Ok(SubstringBefore(v, PyStr(w)))
  BY <1>4, ThreeArgs DEF StringCall
<1>12. StringCall("substringAfter", <<v, w>>) = Ok(SubstringAfter(v, PyStr(w)))
  BY <1>4, ThreeArgs DEF StringCall
<1>13. StringCall("removeSpaces", <<v>>) = Ok(Text(Replaced(PyStr(v), <<32>>, <<>>)))
  BY <1>5, ThreeArgs DEF StringCall
<1> QED BY <1>6, <1>7, <1>8, <1>9, <1>10, <1>11, <1>12, <1>13

LEMMA Called ==
  ASSUME NEW method, NEW rest
  PROVE  /\ Call("Arrays", method, rest) = ArraysCall(method, <<value>> \o rest).val
         /\ Call("String", method, rest) = StringCall(method, <<value>> \o rest).val
         /\ Call("Iso3166Convert", method, rest) = IsoCall(method, <<value>> \o rest).val
<1>1. Call("Arrays", method, rest) = ArraysCall(method, <<value>> \o rest).val
  BY DEF Call, CallOf
<1>2. Call("String", method, rest) = StringCall(method, <<value>> \o rest).val
  BY DEF Call, CallOf
<1>3. Call("Iso3166Convert", method, rest) = IsoCall(method, <<value>> \o rest).val
  BY DEF Call, CallOf
<1> QED BY <1>1, <1>2, <1>3

(* substring of every text that calls return.                                  *)
THEOREM SubstringsArePythons ==
  ASSUME LibrariesFit
  PROVE  Spec => []SlicesLikePython
<1>1. ASSUME CInv PROVE SlicesLikePython
  <2> DEFINE s == Contents(value)
  <2>1. SUFFICES ASSUME IsText(value), NEW start \in -Len(s) - 2..Len(s) + 2,
                        NEW end \in -Len(s) - 2..Len(s) + 2
                 PROVE  IsSlice(Contents(Call("String", "substring", <<Number(start), Number(end)>>)),
                                s, start, IF end > Len(s) THEN -1 ELSE end)
    BY DEF SlicesLikePython
  <2>2. s \in Seq(Nat) /\ Len(s) \in Nat
    <3>1. s \in Seq(Nat)
      BY <1>1, <2>1, ProperFits, Scalars DEF CInv, IsText
    <3> QED BY <3>1, LenProperties
  <2> HIDE DEF s
  <2>3. start \in Int /\ end \in Int /\ -1 \in Int
    BY <2>2
  <2> DEFINE last == IF end > Len(s) THEN -1 ELSE end
  <2>4. last \in Int
    BY <2>3
  <2>5. \A n \in Int : ToInt(Number(n)) = Ok(Number(n)) /\ Contents(Number(n)) = n
    BY Numbers DEF ToInt
  <2>6. Call("String", "substring", <<Number(start), Number(end)>>)
          = Subtext(value, ToInt(Number(start)), ToInt(Number(end))).val
    <3> DEFINE w == Number(start)
               x == Number(end)
    <3> HIDE DEF w, x
    <3>1. Call("String", "substring", <<w, x>>) = StringCall("substring", <<value>> \o <<w, x>>).val
      BY Called, Zenon
    <3>2. <<value>> \o <<w, x>> = <<value, w, x>>
      BY CallArgs, Zenon
    <3>3. StringCall("substring", <<value, w, x>>) = Subtext(value, ToInt(w), ToInt(x))
      BY StringCalls, Zenon
    <3>4. Call("String", "substring", <<w, x>>) = Subtext(value, ToInt(w), ToInt(x)).val
      BY <3>1, <3>2, <3>3, Zenon
    <3> QED BY <3>4 DEF w, x
  <2>7. Subtext(value, ToInt(Number(start)), ToInt(Number(end))) = Ok(Text(Substring(s, start, end)))
    BY <2>1, <2>3, <2>5, Oks DEF Subtext, s
  <2>8. Substring(s, start, end) = PySlice(s, start, last)
    BY DEF Substring
  <2>9. Contents(Text(Substring(s, start, end))) = Substring(s, start, end)
    BY DEF Contents, Text
  <2> HIDE DEF last
  <2>10. IsSlice(PySlice(s, start, last), s, start, last)
    BY <2>2, <2>3, <2>4, SlicesArePythons
  <2>11. Contents(Call("String", "substring", <<Number(start), Number(end)>>)) = PySlice(s, start, last)
    BY <2>6, <2>7, <2>8, <2>9, Oks
  <2> QED BY <2>10, <2>11 DEF last
<1>2. Spec => []CInv
  BY CallsAlways
<1>3. CInv => SlicesLikePython
  BY <1>1
<1> QED BY <1>2, <1>3, PTL

(* Arrays.get of every array that calls return.                                *)
THEOREM ElementsHaveTwoIndices ==
  ASSUME LibrariesFit
  PROVE  Spec => []IndexedTwice
<1>1. ASSUME CInv PROVE IndexedTwice
  <2> DEFINE elems == Contents(value)
             n == Len(elems)
             finds(i, k) == i \in {k - 1, k - 1 - n}
  <2>1. SUFFICES ASSUME Type(value) = "Array", NEW i \in -n - 2..n + 2
                 PROVE  Call("Arrays", "get", <<Number(i)>>) =
                          IF \E k \in 1..n : finds(i, k)
                            THEN elems[CHOOSE k \in 1..n : finds(i, k)] ELSE Null
    BY DEF IndexedTwice
  <2>2. n \in Nat
    <3>1. elems \in Seq(Range(elems))
      BY <1>1, <2>1, ProperFits, Scalars DEF CInv
    <3> QED BY <3>1, LenProperties
  <2>3. i \in Int
    BY <2>2
  <2>4. Call("Arrays", "get", <<Number(i)>>) = At(elems, i)
    <3>1. Call("Arrays", "get", <<Number(i)>>) = Got(elems, ToInt(Number(i))).val
      <4> DEFINE w == Number(i)
      <4> HIDE DEF w
      <4>1. Call("Arrays", "get", <<w>>) = ArraysCall("get", <<value>> \o <<w>>).val
        BY Called, Zenon
      <4>2. <<value>> \o <<w>> = <<value, w>>
        BY CallArgs, Zenon
      <4>3. ArraysCall("get", <<value, w>>) = Got(elems, ToInt(w))
        BY <2>1, ArraysCalls, Zenon
      <4>4. Call("Arrays", "get", <<w>>) = Got(elems, ToInt(w)).val
        BY <4>1, <4>2, <4>3, Zenon
      <4> QED BY <4>4 DEF w
    <3>2. ToInt(Number(i)) = Ok(Number(i)) /\ Contents(Number(i)) = i
      BY Numbers DEF ToInt
    <3>3. Got(elems, ToInt(Number(i))) = Ok(At(elems, i))
      BY <3>2, Oks DEF Got
    <3> QED BY <3>1, <3>3, Oks
  <2> DEFINE idx == IF i < 0 THEN i + n ELSE i
  <2>5. At(elems, i) = IF idx \in 0..n - 1 THEN elems[idx + 1] ELSE Null
    BY DEF At
  <2> HIDE DEF n
  <2>6. ASSUME NEW k \in 1..n PROVE finds(i, k) <=> k = idx + 1
    BY <2>2, <2>3
  <2>7. idx \in 0..n - 1 <=> idx + 1 \in 1..n
    BY <2>2, <2>3
  <2> HIDE DEF idx, finds
  <2>8. CASE idx \in 0..n - 1
    <3>1. (CHOOSE k \in 1..n : finds(i, k)) = idx + 1
      BY <2>6, <2>7, <2>8
    <3> QED BY <2>4, <2>5, <2>6, <2>7, <2>8, <3>1
  <2>9. CASE ~(idx \in 0..n - 1)
    BY <2>4, <2>5, <2>6, <2>7, <2>9
  <2> QED BY <2>8, <2>9
<1>2. Spec => []CInv
  BY CallsAlways
<1>3. CInv => IndexedTwice
  BY <1>1
<1> QED BY <1>2, <1>3, PTL

(* What Arrays.remove leaves of a list: the elements that are not equal to the *)
(* value, in their order, and the list itself if there is none that is.        *)
LEMMA RemovedKeeps ==
  ASSUME NEW S, NEW elems \in Seq(S), NEW v
  PROVE  /\ Keeps(Removed(elems, v), elems, {k \in 1..Len(elems) : ~Equal(elems[k], v)})
         /\ ~HasElement(elems, v) => Removed(elems, v) = elems
<1> DEFINE N == Len(elems)
           others(n) == {k \in 1..n : ~Equal(elems[k], v)}
           Left(t, n) ==
             /\ \E at \in [1..Len(t) -> 1..n] :
                  /\ \A k \in 1..Len(t) : at[k] \in others(n) /\ t[k] = elems[at[k]]
                  /\ \A j \in others(n) : \E k \in 1..Len(t) : at[k] = j
                  /\ \A j, k \in 1..Len(t) : j < k => at[j] < at[k]
             /\ others(n) = 1..n => Len(t) = n /\ \A k \in 1..n : t[k] = elems[k]
<1>1. N \in Nat
  BY LenProperties
<1>2. PICK f \in [0..N -> Seq(S)] :
        /\ f[0] = <<>> /\ Removed(elems, v) = f[N]
        /\ \A k \in 1..N :
             f[k] = IF Equal(elems[k], v) THEN f[k - 1] ELSE Append(f[k - 1], elems[k])
  BY Keeping
<1> HIDE DEF N
<1> DEFINE good == {n \in 0..N : Left(f[n], n)}
<1>3. 0 \in good
  <2>1. f[0] = <<>> /\ Len(<<>>) = 0 /\ 0 \in 0..N /\ 1..0 = {}
    BY <1>1, <1>2
  <2>2. [k \in 1..0 |-> 0] \in [1..0 -> 1..0]
    BY <2>1
  <2>3. \A k \in 1..0 : FALSE
    BY <2>1
  <2>4. others(0) = {}
    BY <2>1
  <2>5. Left(f[0], 0)
    <3>1. Len(f[0]) = 0
      BY <2>1
    <3> HIDE DEF others
    <3> QED BY <2>2, <2>3, <2>4, <3>1
  <2> QED BY <2>1, <2>5
<1>4. ASSUME NEW m \in 0..N - 1, m \in good PROVE m + 1 \in good
  <2> DEFINE t == f[m]
             e == elems[m + 1]
             n == Len(t)
  <2>1. /\ m + 1 \in 1..N /\ m + 1 \in 0..N /\ (m + 1) - 1 = m /\ m \in 0..N /\ m \in Nat
        /\ \A j : j \in 1..m + 1 <=> j \in 1..m \/ j = m + 1
    BY <1>1
  <2>2. Left(t, m)
    BY <1>4
  <2>3. t \in Seq(S) /\ n \in Nat /\ e \in S
    <3>1. t \in Seq(S)
      BY <1>2, <2>1
    <3>2. e \in S
      BY <2>1, ElementOfSeq DEF N
    <3> QED BY <3>1, <3>2, LenProperties
  <2>4. f[m + 1] = IF Equal(e, v) THEN t ELSE Append(t, e)
    BY <1>2, <2>1
  <2> HIDE DEF t
  <2>5. PICK at \in [1..n -> 1..m] :
          /\ \A k \in 1..n : at[k] \in others(m) /\ t[k] = elems[at[k]]
          /\ \A j \in others(m) : \E k \in 1..n : at[k] = j
          /\ \A j, k \in 1..n : j < k => at[j] < at[k]
    BY <2>2
  <2>6. others(m) = 1..m => n = m /\ \A k \in 1..m : t[k] = elems[k]
    BY <2>2
  <2>7. CASE Equal(e, v)
    <3>1. f[m + 1] = t /\ others(m + 1) = others(m)
      BY <2>1, <2>4, <2>7
    <3>2. others(m + 1) # 1..m + 1
      BY <2>1, <2>7
    <3>3. at \in [1..n -> 1..m + 1]
      BY <2>1
    <3>4. Left(t, m + 1)
      <4> HIDE DEF others, n
      <4> QED BY <2>5, <3>1, <3>2, <3>3 DEF n
    <3> QED BY <2>1, <3>1, <3>4
  <2>8. CASE ~Equal(e, v)
    <3> DEFINE u == Append(t, e)
               to == [k \in 1..n + 1 |-> IF k = n + 1 THEN m + 1 ELSE at[k]]
    <3>1. /\ Len(u) = n + 1 /\ u[n + 1] = e
          /\ \A k \in 1..n : u[k] = t[k]
      BY <2>3, AppendProperties
    <3>2. f[m + 1] = u
      BY <2>4, <2>8, Zenon
    <3>3. /\ \A k : k \in 1..n + 1 <=> k \in 1..n \/ k = n + 1
          /\ \A k \in 1..n : k # n + 1 /\ k < n + 1 /\ ~(n + 1 < k)
          /\ ~(n + 1 < n + 1) /\ n + 1 \in 1..n + 1
      BY <2>3
    <3> HIDE DEF n, u
    <3>4. to[n + 1] = m + 1 /\ \A k \in 1..n : to[k] = at[k]
      BY <3>3
    <3>5. to \in [1..n + 1 -> 1..m + 1]
      BY <2>1, <3>3
    <3> HIDE DEF to
    <3>6. \A j : j \in others(m + 1) <=> j \in others(m) \/ j = m + 1
      BY <2>1, <2>8
    <3>7. others(m + 1) = 1..m + 1 => others(m) = 1..m
      <4>1. m + 1 \notin 1..m
        BY <2>1
      <4> QED BY <2>1, <3>6, <4>1
    <3> HIDE DEF others
    <3>8. \A k \in 1..n + 1 : to[k] \in others(m + 1) /\ u[k] = elems[to[k]]
      BY <2>5, <3>1, <3>3, <3>4, <3>6 DEF e
    <3>9. \A j \in others(m + 1) : \E k \in 1..n + 1 : to[k] = j
      BY <2>5, <3>3, <3>4, <3>6
    <3>10. \A j, k \in 1..n + 1 : j < k => to[j] < to[k]
      <4>1. \A k \in 1..n : at[k] < m + 1
        BY <2>1, <2>5
      <4> QED BY <2>5, <3>3, <3>4, <4>1
    <3>11. others(m + 1) = 1..m + 1 => n + 1 = m + 1 /\ \A k \in 1..m + 1 : u[k] = elems[k]
      BY <2>1, <2>6, <3>1, <3>7 DEF e
    <3> DEFINE places == [1..n + 1 -> 1..m + 1]
               fits(g) == /\ \A k \in 1..n + 1 : g[k] \in others(m + 1) /\ u[k] = elems[g[k]]
                          /\ \A j \in others(m + 1) : \E k \in 1..n + 1 : g[k] = j
                          /\ \A j, k \in 1..n + 1 : j < k => g[j] < g[k]
    <3>12. Left(u, m + 1)
      <4>1. to \in places /\ fits(to)
        BY <3>5, <3>8, <3>9, <3>10
      <4>2. \E g \in places : fits(g)
        <5> HIDE DEF places, fits
        <5> QED BY <4>1
      <4>3. Left(u, m + 1) <=>
              /\ \E g \in places : fits(g)
              /\ others(m + 1) = 1..m + 1 =>
                   n + 1 = m + 1 /\ \A k \in 1..m + 1 : u[k] = elems[k]
        BY <3>1
      <4> HIDE DEF places, fits
      <4> QED BY <3>11, <4>2, <4>3
    <3> QED BY <2>1, <3>2, <3>12
  <2> QED BY <2>7, <2>8
<1>5. Left(f[N], N)
  <2> HIDE DEF good
  <2>1. \A k \in 0..N : k \in good
    BY <1>1, <1>3, <1>4, Induction, Zenon
  <2>2. N \in 0..N
    BY <1>1
  <2> QED BY <2>1, <2>2 DEF good
<1> DEFINE rest == Removed(elems, v)
<1>6. Left(rest, N)
  <2> HIDE DEF Left
  <2> QED BY <1>2, <1>5
<1>7. rest \in Seq(S)
  <2>1. N \in 0..N
    BY <1>1
  <2> QED BY <1>2, <2>1
<1> HIDE DEF rest, good
<1>8. Keeps(rest, elems, others(N))
  <2>1. PICK at \in [1..Len(rest) -> 1..N] :
          /\ \A k \in 1..Len(rest) : at[k] \in others(N) /\ rest[k] = elems[at[k]]
          /\ \A j \in others(N) : \E k \in 1..Len(rest) : at[k] = j
          /\ \A j, k \in 1..Len(rest) : j < k => at[j] < at[k]
    BY <1>6
  <2> HIDE DEF others
  <2>2. Range(at) = others(N)
    BY <2>1 DEF Range
  <2> QED BY <2>1, <2>2 DEF Keeps, N
<1>9. ~HasElement(elems, v) => rest = elems
  <2>1. SUFFICES ASSUME ~HasElement(elems, v) PROVE rest = elems
    OBVIOUS
  <2>2. others(N) = 1..N
    BY <2>1 DEF HasElement, N
  <2>3. Len(rest) = N /\ \A k \in 1..N : rest[k] = elems[k]
    BY <1>6, <2>2
  <2> QED BY <1>7, <2>3, SeqEqual DEF N
<1> QED BY <1>8, <1>9 DEF rest, N

(* A list that has the value is not what is left: nothing left is equal to it. *)
LEMMA RemovedAll ==
  ASSUME NEW S, NEW elems \in Seq(S), NEW v
  PROVE  HasElement(elems, v) <=> Removed(elems, v) # elems
<1>1. ASSUME HasElement(elems, v), Removed(elems, v) = elems PROVE FALSE
  <2>1. PICK k \in 1..Len(elems) : Equal(elems[k], v)
    BY <1>1 DEF HasElement
  <2>2. PICK at \in [1..Len(elems) -> 1..Len(elems)] :
          /\ Range(at) = {j \in 1..Len(elems) : ~Equal(elems[j], v)}
          /\ \A j \in 1..Len(elems) : elems[j] = elems[at[j]]
    BY <1>1, RemovedKeeps DEF Keeps
  <2>3. at[k] \in Range(at)
    BY DEF Range
  <2> QED BY <2>1, <2>2, <2>3
<1> QED BY <1>1, RemovedKeeps

(* contains, stringContains and remove of every array that calls return, for   *)
(* every notion of equality of elements.                                       *)
THEOREM MembershipAgrees ==
  ASSUME LibrariesFit
  PROVE  Spec => []MembersAgree
<1>1. ASSUME CInv PROVE MembersAgree
  <2> DEFINE elems == Contents(value)
  <2>1. SUFFICES ASSUME Type(value) = "Array", NEW v \in Needles
                 PROVE  LET has == Call("Arrays", "contains", <<v>>)
                            without == Call("Arrays", "remove", <<v>>)
                        IN /\ Call("String", "stringContains", <<v>>) = has
                           /\ Contents(has) <=> without # value
                           /\ Keeps(Contents(without), Contents(value),
                                    {k \in 1..Len(Contents(value)) : ~Equal(Contents(value)[k], v)})
    BY DEF MembersAgree
  <2>0. <<value>> \o <<v>> = <<value, v>>
    BY CallArgs, Zenon
  <2>2. elems \in Seq(Range(elems)) /\ value = Array(elems)
    BY <1>1, <2>1, ProperFits, Scalars DEF CInv, Array
  <2> DEFINE rest == Removed(elems, v)
  <2> HIDE DEF elems
  <2>3. /\ HasElement(elems, v) <=> rest # elems
        /\ Keeps(rest, elems, {k \in 1..Len(elems) : ~Equal(elems[k], v)})
    BY <2>2, RemovedAll, RemovedKeeps
  <2>4. Call("Arrays", "contains", <<v>>) = Bool(HasElement(elems, v))
    <3>0. Call("Arrays", "contains", <<v>>) = ArraysCall("contains", <<value>> \o <<v>>).val
      BY Called, Zenon
    <3>1. Call("Arrays", "contains", <<v>>) = ArraysCall("contains", <<value, v>>).val
      BY <2>0, <3>0, Zenon
    <3>2. ArraysCall("contains", <<value, v>>) = Ok(Bool(HasElement(elems, v)))
      BY <2>1, ArraysCalls, Zenon DEF elems
    <3> QED BY <3>1, <3>2, Oks
  <2>5. Call("Arrays", "remove", <<v>>) = Array(rest)
    <3>0. Call("Arrays", "remove", <<v>>) = ArraysCall("remove", <<value>> \o <<v>>).val
      BY Called, Zenon
    <3>1. Call("Arrays", "remove", <<v>>) = ArraysCall("remove", <<value, v>>).val
      BY <2>0, <3>0, Zenon
    <3>2. ArraysCall("remove", <<value, v>>) = Ok(Array(rest))
      BY <2>1, ArraysCalls, Zenon DEF elems
    <3> QED BY <3>1, <3>2, Oks
  <2>6. Call("String", "stringContains", <<v>>) = Bool(HasElement(elems, v))
    <3>0. Call("String", "stringContains", <<v>>) = StringCall("stringContains", <<value>> \o <<v>>).val
      BY Called, Zenon
    <3>1. Call("String", "stringContains", <<v>>) = StringCall("stringContains", <<value, v>>).val
      BY <2>0, <3>0, Zenon
    <3>2. StringCall("stringContains", <<value, v>>) = Ok(Bool(StringContains(value, v)))
      BY StringCalls, Zenon
    <3>3. StringContains(value, v) = HasElement(elems, v)
      <4>1. ~IsText(value)
        BY <2>1 DEF IsText
      <4> QED BY <2>1, <4>1 DEF StringContains, HasElement, elems
    <3> QED BY <3>1, <3>2, <3>3, Oks
  <2> HIDE DEF rest
  <2>7. Type(Array(rest)) = "Array" /\ Contents(Array(rest)) = rest
    BY DEF Type, Contents, Array
  <2>8. HasElement(elems, v) <=> Array(rest) # value
    BY <2>2, <2>3 DEF Array
  <2>9. Contents(Bool(HasElement(elems, v))) = HasElement(elems, v)
    BY DEF Contents, Bool
  <2> QED BY <2>3, <2>4, <2>5, <2>6, <2>7, <2>8, <2>9 DEF elems
<1>2. Spec => []CInv
  BY CallsAlways
<1>3. CInv => MembersAgree
  BY <1>1
<1> QED BY <1>2, <1>3, PTL

-----------------------------------------------------------------------------
(* What is searched for, and in what, are texts.                               *)
LEMMA NeedlesGiven ==
  ASSUME NEW v \in Needles
  PROVE  v \in Given
<1>1. PICK rest \in Arguments : Len(rest) = 1 /\ v = rest[1]
  BY DEF Needles
<1>2. rest \in Seq(Given)
  BY GivenAssumption
<1>3. 1 \in 1..Len(rest)
  BY <1>1
<1> QED BY <1>1, <1>2, <1>3, ElementOfSeq

LEMMA NeedleTexts ==
  ASSUME LibrariesFit
  PROVE  (\A v \in Needles : PyStr(v) \in Seq(Nat)) /\ (Proper(value) => Subject \in Seq(Nat))
<1>1. ASSUME NEW v \in Needles PROVE PyStr(v) \in Seq(Nat)
  BY NeedlesGiven, GivenFits, PyTexts
<1>2. ASSUME Proper(value) PROVE Subject \in Seq(Nat)
  <2>1. PICK V : Closed(V) /\ value \in V
    BY <1>2 DEF Proper
  <2>2. PyStr(value) \in Seq(Nat)
    BY <2>1, PyTexts
  <2> QED BY <2>2 DEF Subject
<1> QED BY <1>1, <1>2

LEMMA Texts ==
  ASSUME NEW s
  PROVE  /\ Type(Text(s)) = "string" /\ Contents(Text(s)) = s
         /\ IsText(Text(s)) /\ PyStr(Text(s)) = s
<1>1. Type(Text(s)) = "string" /\ Contents(Text(s)) = s
  BY DEF Type, Contents, Text
<1>2. PyStr(Text(s)) = s
  BY <1>1 DEF PyStr
<1> QED BY <1>1, <1>2 DEF IsText

(* stringSwitch with one key: its value if the key occurs, else the default.   *)
LEMMA SwitchOne ==
  ASSUME NEW s, NEW t, NEW default, NEW then
  PROVE  Switched(Text(s), default, <<Text(t), then>>) =
           Ok(IF Occurs(t, s) THEN then ELSE default)
<1> DEFINE pairs == <<Text(t), then>>
           key(i) == pairs[2 * i - 1]
           ends == {i \in 1..Len(pairs) \div 2 :
                      ~IsText(key(i)) \/ Occurs(Contents(key(i)), Contents(Text(s)))}
           stop == CHOOSE i \in ends : \A j \in ends : i <= j
<1>1. Switched(Text(s), default, pairs) =
        IF Len(pairs) % 2 # 0 THEN Ok(Bool(FALSE))
        ELSE IF ends = {} THEN Ok(default)
        ELSE IF IsText(key(stop)) THEN Ok(pairs[2 * stop]) ELSE Err
  BY DEF Switched
<1>2. Len(pairs) = 2 /\ pairs[1] = Text(t) /\ pairs[2] = then
  OBVIOUS
<1>3. 2 % 2 = 0 /\ 2 \div 2 = 1 /\ 2 * 1 - 1 = 1 /\ 2 * 1 = 2 /\ \A i : i \in 1..1 <=> i = 1
  OBVIOUS
<1>4. key(1) = Text(t)
  BY <1>2, <1>3
<1> HIDE DEF pairs
<1>5. \A i : i \in ends <=> i = 1 /\ Occurs(t, s)
  <2>1. IsText(Text(t)) /\ Contents(Text(t)) = t /\ Contents(Text(s)) = s
    BY Texts
  <2>2. \A i : i \in ends <=> i = 1 /\ (~IsText(key(1)) \/ Occurs(Contents(key(1)), Contents(Text(s))))
    <3>1. \A i : i \in 1..Len(pairs) \div 2 <=> i = 1
      BY <1>2, <1>3
    <3> HIDE DEF key
    <3> QED BY <3>1
  <2> HIDE DEF ends
  <2> QED BY <1>4, <2>1, <2>2
<1>6. ASSUME Occurs(t, s) PROVE ends # {} /\ stop = 1
  <2>1. ends = {1}
    BY <1>5, <1>6
  <2>2. \A i \in {1} : i = 1
    OBVIOUS
  <2> HIDE DEF ends
  <2> QED BY <2>1, <2>2
<1>7. IsText(Text(t))
  BY Texts
<1>8. Switched(Text(s), default, pairs) =
        IF ends = {} THEN Ok(default)
        ELSE IF IsText(key(stop)) THEN Ok(pairs[2 * stop]) ELSE Err
  <2>1. ~(Len(pairs) % 2 # 0)
    BY <1>2, <1>3
  <2> HIDE DEF ends, stop, key
  <2> QED BY <1>1, <2>1, Zenon
<1>9. CASE Occurs(t, s)
  <2>1. ends # {} /\ IsText(key(stop)) /\ pairs[2 * stop] = then
    <3> HIDE DEF ends, stop
    <3>1. stop = 1
      BY <1>6, <1>9
    <3> QED BY <1>2, <1>3, <1>4, <1>6, <1>7, <1>9, <3>1
  <2> HIDE DEF ends, stop, key
  <2>2. Switched(Text(s), default, pairs) = Ok(then)
    BY <1>8, <2>1, Zenon
  <2> QED BY <1>9, <2>2 DEF pairs
<1>10. CASE ~Occurs(t, s)
  <2> HIDE DEF ends, stop, key
  <2>1. ends = {}
    BY <1>5, <1>10
  <2>2. Switched(Text(s), default, pairs) = Ok(default)
    BY <1>8, <2>1, Zenon
  <2> QED BY <1>10, <2>2 DEF pairs
<1> QED BY <1>9, <1>10 DEF pairs

LEMMA SwitchCalls ==
  ASSUME NEW s, NEW t, NEW default, NEW then
  PROVE  StringCall("stringSwitch", <<Text(s), default, Text(t), then>>) =
           Ok(IF Occurs(t, s) THEN then ELSE default)
<1> DEFINE a == Text(s)
           b == Text(t)
           args == <<a, default, b, then>>
<1>1. IsText(a)
  BY Texts
<1> HIDE DEF a, b
<1>2. Len(args) = 4 /\ args[1] = a /\ args[2] = default /\ args[3] = b /\ args[4] = then
  OBVIOUS
<1>3. SubSeq(args, 3, 4) = <<b, then>>
  <2> DEFINE S == {a, default, b, then}
  <2>1. \A k \in 3..4 : args[k] \in S
    <3>1. \A k \in 3..4 : k = 3 \/ k = 4
      OBVIOUS
    <3> HIDE DEF args
    <3> QED BY <1>2, <3>1
  <2>2. <<b, then>> \in Seq(S) /\ Len(<<b, then>>) = 2 /\ <<b, then>>[1] = b /\ <<b, then>>[2] = then
    OBVIOUS
  <2> HIDE DEF S, args
  <2> DEFINE sub == SubSeq(args, 3, 4)
  <2>3. /\ sub \in Seq(S) /\ Len(sub) = (IF 3 <= 4 THEN 4 - 3 + 1 ELSE 0)
        /\ \A k \in 1..4 - 3 + 1 : sub[k] = args[3 + k - 1]
    <3>1. 3 \in Int /\ 4 \in Int
      OBVIOUS
    <3> QED BY <2>1, <3>1, SubSeqProperties
  <2> HIDE DEF sub
  <2>4. sub \in Seq(S) /\ Len(sub) = 2 /\ sub[1] = args[3] /\ sub[2] = args[4]
    <3>1. 4 - 3 + 1 = 2 /\ 3 <= 4 /\ 3 + 1 - 1 = 3 /\ 3 + 2 - 1 = 4 /\ 1 \in 1..2 /\ 2 \in 1..2
      OBVIOUS
    <3> QED BY <2>3, <3>1
  <2>5. \A k \in 1..2 : sub[k] = <<b, then>>[k]
    <3>1. \A k \in 1..2 : k = 1 \/ k = 2
      OBVIOUS
    <3> QED BY <1>2, <2>2, <2>4, <3>1
  <2> QED BY <2>2, <2>4, <2>5, SeqEqual DEF sub
<1>4. StringArgsOk("stringSwitch", args)
  BY <1>1, <1>2 DEF StringArgsOk
<1> HIDE DEF args
<1>5. StringCall("stringSwitch", args) = Switched(a, default, <<b, then>>)
  BY <1>2, <1>3, <1>4 DEF StringCall
<1> QED BY <1>5, SwitchOne DEF args, a, b

(* The methods that search, for every value and every text searched for.       *)
THEOREM SearchesAgreeAlways ==
  ASSUME LibrariesFit
  PROVE  Spec => []SearchesAgree
<1>1. ASSUME CInv PROVE SearchesAgree
  <2>1. SUFFICES ASSUME NEW v \in Needles
        PROVE LET t == PyStr(v)
                  before == Call("String", "substringBefore", <<v>>)
                  after == Call("String", "substringAfter", <<v>>)
                  once == Call("String", "replaceFirst", <<v, Text(<<0>>)>>)
                  choice == StringCall("stringSwitch",
                              <<Text(Subject), Number(0), Text(t), Number(1)>>)
              IN /\ choice.val = Number(BoolToInt(Contents(Call("String", "contains", <<v>>))))
                 /\ IF Contents(Call("String", "contains", <<v>>))
                      THEN /\ Contents(before) \o t \o Contents(after) = Subject
                           /\ Contents(once) = Contents(before) \o <<0>> \o Contents(after)
                           /\ \A k \in Occurrences(t, Subject) : k >= Len(Contents(before))
                      ELSE before = value /\ after = value /\ Contents(once) = Subject
    BY DEF SearchesAgree
  <2> DEFINE s == Subject
             t == PyStr(v)
             z == Text(<<0>>)
             one == Number(1)
             none == Number(0)
             choice == StringCall("stringSwitch", <<Text(s), none, Text(t), one>>)
  <2>2. s \in Seq(Nat) /\ t \in Seq(Nat) /\ PyStr(value) = s /\ PyStr(v) = t
    <3>1. s \in Seq(Nat) /\ t \in Seq(Nat)
      BY <1>1, NeedleTexts DEF CInv
    <3> QED BY <3>1 DEF Subject
  <2>3. PyStr(z) = <<0>>
    BY Texts
  <2> HIDE DEF s, t, z, one, none
  <2>4. <<value>> \o <<v>> = <<value, v>> /\ <<value>> \o <<v, z>> = <<value, v, z>>
    BY CallArgs, Zenon
  <2>5. Contents(Call("String", "contains", <<v>>)) = Occurs(t, s)
    <3>1. Call("String", "contains", <<v>>) = StringCall("contains", <<value>> \o <<v>>).val
      BY Called, Zenon
    <3>2. StringCall("contains", <<value, v>>) = Ok(Bool(Occurs(PyStr(v), PyStr(value))))
      BY StringCalls, Zenon
    <3>3. Call("String", "contains", <<v>>) = Ok(Bool(Occurs(t, s))).val
      BY <2>2, <2>4, <3>1, <3>2, Zenon
    <3>4. Contents(Bool(Occurs(t, s))) = Occurs(t, s)
      BY DEF Contents, Bool
    <3>5. Call("String", "contains", <<v>>) = Bool(Occurs(t, s))
      BY <3>3, Oks, Zenon
    <3> QED BY <3>4, <3>5, Zenon
  <2>6. Call("String", "substringBefore", <<v>>) = SubstringBefore(value, t)
    <3>1. Call("String", "substringBefore", <<v>>)
            = StringCall("substringBefore", <<value>> \o <<v>>).val
      BY Called, Zenon
    <3>2. StringCall("substringBefore", <<value, v>>) = Ok(SubstringBefore(value, PyStr(v)))
      BY StringCalls, Zenon
    <3>3. Call("String", "substringBefore", <<v>>) = Ok(SubstringBefore(value, t)).val
      BY <2>2, <2>4, <3>1, <3>2, Zenon
    <3> QED BY <3>3, Oks, Zenon
  <2>7. Call("String", "substringAfter", <<v>>) = SubstringAfter(value, t)
    <3>1. Call("String", "substringAfter", <<v>>)
            = StringCall("substringAfter", <<value>> \o <<v>>).val
      BY Called, Zenon
    <3>2. StringCall("substringAfter", <<value, v>>) = Ok(SubstringAfter(value, PyStr(v)))
      BY StringCalls, Zenon
    <3>3. Call("String", "substringAfter", <<v>>) = Ok(SubstringAfter(value, t)).val
      BY <2>2, <2>4, <3>1, <3>2, Zenon
    <3> QED BY <3>3, Oks, Zenon
  <2>8. Contents(Call("String", "replaceFirst", <<v, z>>)) = ReplacedFirst(s, t, <<0>>)
    <3>1. Call("String", "replaceFirst", <<v, z>>)
            = StringCall("replaceFirst", <<value>> \o <<v, z>>).val
      BY Called, Zenon
    <3>2. StringCall("replaceFirst", <<value, v, z>>)
            = Ok(Text(ReplacedFirst(PyStr(value), PyStr(v), PyStr(z))))
      BY StringCalls, Zenon
    <3>3. Call("String", "replaceFirst", <<v, z>>) = Ok(Text(ReplacedFirst(s, t, <<0>>))).val
      BY <2>2, <2>3, <2>4, <3>1, <3>2, Zenon
    <3>4. Call("String", "replaceFirst", <<v, z>>) = Text(ReplacedFirst(s, t, <<0>>))
      BY <3>3, Oks, Zenon
    <3> QED BY <3>4, Texts, Zenon
  <2>9. choice.val = (IF Occurs(t, s) THEN one ELSE none)
    <3>1. choice = Ok(IF Occurs(t, s) THEN one ELSE none)
      BY SwitchCalls, Zenon
    <3> HIDE DEF choice
    <3> QED BY <3>1, Oks, Zenon
  <2>10. Number(BoolToInt(Occurs(t, s))) = (IF Occurs(t, s) THEN one ELSE none)
    BY DEF BoolToInt, one, none
  <2>11. choice.val = Number(BoolToInt(Contents(Call("String", "contains", <<v>>))))
    <3> HIDE DEF choice
    <3> QED BY <2>5, <2>9, <2>10, Zenon
  <2> DEFINE before == Call("String", "substringBefore", <<v>>)
             after == Call("String", "substringAfter", <<v>>)
             once == Call("String", "replaceFirst", <<v, z>>)
  <2>12. CASE Occurs(t, s)
    <3>1. before = Text(Before(t, s)) /\ after = Text(After(t, s))
      BY <2>2, <2>6, <2>7, <2>12 DEF SubstringBefore, SubstringAfter
    <3>2. Contents(once) = Before(t, s) \o <<0>> \o After(t, s)
      BY <2>8, <2>12 DEF ReplacedFirst
    <3>3. Before(t, s) \o t \o After(t, s) = s /\ Len(Before(t, s)) = First(t, s)
      BY <2>2, <2>12, FirstMatch
    <3>4. \A k \in Occurrences(t, s) : First(t, s) <= k
      BY <2>2, <2>12, FirstMatch
    <3>5. Contents(before) = Before(t, s) /\ Contents(after) = After(t, s)
      BY <3>1, Texts, Zenon
    <3>6. \A k \in Occurrences(t, s) : k >= First(t, s)
      <4>1. Occurrences(t, s) \subseteq Int /\ First(t, s) \in Int
        <5>1. Occurrences(t, s) \subseteq Int
          BY DEF Occurrences
        <5> QED BY <2>2, <2>12, <5>1, FirstMatch
      <4> QED BY <3>4, <4>1
    <3> HIDE DEF before, after, once, choice
    <3>7. \A k \in Occurrences(t, s) : k >= Len(Contents(before))
      BY <3>3, <3>5, <3>6
    <3>8. Contents(before) \o t \o Contents(after) = s
      BY <3>3, <3>5, Zenon
    <3>9. Contents(once) = Contents(before) \o <<0>> \o Contents(after)
      BY <3>2, <3>5, Zenon
    <3>10. Contents(Call("String", "contains", <<v>>))
      BY <2>5, <2>12, Zenon
    <3> QED BY <2>11, <3>7, <3>8, <3>9, <3>10, Zenon
          DEF before, after, once, choice, s, t, z, one, none
  <2>13. CASE ~Occurs(t, s)
    <3>1. before = value /\ after = value
      BY <2>2, <2>6, <2>7, <2>13 DEF SubstringBefore, SubstringAfter
    <3>2. Contents(once) = s
      BY <2>8, <2>13 DEF ReplacedFirst
    <3> HIDE DEF before, after, once, choice
    <3>3. ~Contents(Call("String", "contains", <<v>>))
      BY <2>5, <2>13, Zenon
    <3> QED BY <2>11, <3>1, <3>2, <3>3, Zenon
          DEF before, after, once, choice, s, t, z, one, none
  <2> QED BY <2>12, <2>13
<1>2. Spec => []CInv
  BY CallsAlways
<1>3. CInv => SearchesAgree
  BY <1>1
<1> QED BY <1>2, <1>3, PTL

-----------------------------------------------------------------------------
(* The rest of a text from a character on is that character and what follows.  *)
LEMMA Rests ==
  ASSUME NEW S, NEW s \in Seq(S)
  PROVE  /\ SubSeq(s, 1, Len(s)) = s /\ SubSeq(s, Len(s) + 1, Len(s)) = <<>>
         /\ \A k \in 0..Len(s) : SubSeq(s, k + 1, Len(s)) \in Seq(S)
         /\ \A k \in 0..Len(s) - 1 :
              <<s[k + 1]>> \o SubSeq(s, k + 1 + 1, Len(s)) = SubSeq(s, k + 1, Len(s))
<1> DEFINE N == Len(s)
           rest(k) == SubSeq(s, k + 1, N)
<1>1. N \in Nat /\ \A k \in 1..N : s[k] \in S
  BY LenProperties, ElementOfSeq
<1> HIDE DEF N
<1>2. ASSUME NEW k \in 0..N
      PROVE  /\ rest(k) \in Seq(S) /\ Len(rest(k)) = N - k
             /\ \A j \in 1..N - k : rest(k)[j] = s[k + j]
  <2>1. k + 1 \in Int /\ N \in Int /\ \A j \in k + 1..N : s[j] \in S
    BY <1>1
  <2> DEFINE sub == SubSeq(s, k + 1, N)
  <2>2. /\ sub \in Seq(S) /\ Len(sub) = (IF k + 1 <= N THEN N - (k + 1) + 1 ELSE 0)
        /\ \A j \in 1..N - (k + 1) + 1 : sub[j] = s[k + 1 + j - 1]
    BY <2>1, SubSeqProperties
  <2> HIDE DEF sub
  <2>3. Len(sub) = N - k
    BY <1>1, <2>2
  <2>4. ASSUME NEW j \in 1..N - k PROVE sub[j] = s[k + j]
    <3>1. j \in 1..N - (k + 1) + 1 /\ k + 1 + j - 1 = k + j
      BY <1>1
    <3> QED BY <2>2, <3>1
  <2> QED BY <2>2, <2>3, <2>4 DEF sub
<1>3. SubSeq(s, 1, N) = s
  <2>1. 0 \in 0..N /\ 0 + 1 = 1 /\ N - 0 = N /\ \A j \in 1..N : 0 + j = j
    BY <1>1
  <2>2. rest(0) \in Seq(S) /\ Len(rest(0)) = N /\ \A j \in 1..N : rest(0)[j] = s[j]
    <3> HIDE DEF rest
    <3> QED BY <1>2, <2>1
  <2>3. rest(0) = s
    <3> HIDE DEF rest
    <3> QED BY <2>2, SeqEqual DEF N
  <2> QED BY <2>1, <2>3
<1>4. SubSeq(s, N + 1, N) = <<>>
  <2>1. N \in 0..N /\ N - N = 0
    BY <1>1
  <2>2. rest(N) \in Seq(S) /\ Len(rest(N)) = 0
    <3> HIDE DEF rest
    <3> QED BY <1>2, <2>1
  <2>3. rest(N) = <<>>
    <3> HIDE DEF rest
    <3> QED BY <2>2, EmptySeq
  <2> QED BY <2>3
<1>5. ASSUME NEW k \in 0..N - 1
      PROVE  <<s[k + 1]>> \o rest(k + 1) = rest(k)
  <2>1. k \in 0..N /\ k + 1 \in 0..N /\ k + 1 \in 1..N /\ N - (k + 1) + 1 = N - k /\ N - (k + 1) \in Nat
        /\ N - k \in Nat
    BY <1>1
  <2>2. s[k + 1] \in S
    BY <1>1, <2>1
  <2> DEFINE a == rest(k)
             b == rest(k + 1)
             x == s[k + 1]
             t == <<x>> \o b
  <2>3. /\ a \in Seq(S) /\ Len(a) = N - k /\ b \in Seq(S) /\ Len(b) = N - (k + 1)
        /\ (\A j \in 1..N - k : a[j] = s[k + j]) /\ \A j \in 1..N - (k + 1) : b[j] = s[k + 1 + j]
    BY <1>2, <2>1
  <2> HIDE DEF a, b
  <2>4. /\ t \in Seq(S) /\ Len(t) = Len(b) + 1
        /\ \A j \in 1..Len(b) + 1 : t[j] = (IF j = 1 THEN x ELSE b[j - 1])
    <3>1. x \in S /\ b \in Seq(S)
      BY <2>2, <2>3
    <3> HIDE DEF x
    <3> QED BY <3>1, Prepended
  <2> HIDE DEF t
  <2>5. Len(t) = Len(a)
    BY <2>1, <2>3, <2>4
  <2>6. ASSUME NEW j \in 1..Len(t) PROVE t[j] = a[j]
    <3>1. j \in 1..N - k /\ t[j] = (IF j = 1 THEN x ELSE b[j - 1]) /\ a[j] = s[k + j]
      BY <2>1, <2>3, <2>4
    <3>2. CASE j = 1
      BY <3>1, <3>2
    <3>3. CASE j # 1
      <4>1. j - 1 \in 1..N - (k + 1) /\ k + 1 + (j - 1) = k + j
        BY <2>1, <3>1, <3>3
      <4>2. b[j - 1] = s[k + j]
        BY <2>3, <4>1
      <4> QED BY <3>1, <3>3, <4>2
    <3> QED BY <3>2, <3>3
  <2>7. t = a
    BY <2>3, <2>4, <2>5, <2>6, SeqEqual
  <2> QED BY <2>7 DEF t, a, b
<1> QED BY <1>2, <1>3, <1>4, <1>5 DEF N

(* Where nothing matches, nothing is replaced.                                 *)
LEMMA NothingReplaced ==
  ASSUME NEW s \in Seq(Nat), NEW t \in Seq(Nat), NEW r \in Seq(Nat), ~Occurs(t, s)
  PROVE  Replaced(s, t, r) = s
<1> DEFINE N == Len(s)
           rest(k) == SubSeq(s, k + 1, N)
<1>1. N \in Nat
  BY LenProperties
<1>2. PICK f : Replaces(f, s, t, r)
  BY Replacing
<1>3. \A k \in 0..N : k \notin Occurrences(t, s)
  BY DEF Occurs
<1>4. /\ f \in [0..N -> Seq(Nat)] /\ Replaced(s, t, r) = f[0]
      /\ \A k \in 0..N :
           f[k] = (IF k \in Occurrences(t, s) THEN r ELSE <<>>) \o
                  (IF k \in Occurrences(t, s) /\ t # <<>> THEN f[k + Len(t)]
                   ELSE IF k = N THEN <<>> ELSE <<s[k + 1]>> \o f[k + 1])
  BY <1>2 DEF Replaces
<1>5. /\ rest(N) = <<>> /\ \A k \in 0..N - 1 : <<s[k + 1]>> \o rest(k + 1) = rest(k)
      /\ \A k \in 0..N : rest(k) \in Seq(Nat)
  BY Rests
<1>6. rest(0) = s
  <2>1. SubSeq(s, 1, N) = s /\ 0 + 1 = 1
    BY Rests
  <2> QED BY <2>1
<1> HIDE DEF N, rest
<1> DEFINE S == {n \in 0..N : f[N - n] = rest(N - n)}
<1>7. 0 \in S
  <2>1. N \in 0..N /\ N - 0 = N /\ 0 \in 0..N
    BY <1>1
  <2>2. f[N] = <<>> \o <<>>
    BY <1>3, <1>4, <2>1, Zenon
  <2> QED BY <1>5, <2>1, <2>2
<1>8. ASSUME NEW m \in 0..N - 1, m \in S PROVE m + 1 \in S
  <2> DEFINE k == N - (m + 1)
  <2>1. k \in 0..N - 1 /\ k \in 0..N /\ k # N /\ k + 1 = N - m /\ k + 1 \in 0..N /\ m + 1 \in 0..N
    BY <1>1
  <2>2. f[k + 1] = rest(k + 1)
    BY <1>8, <2>1
  <2> HIDE DEF k
  <2>3. f[k] = <<>> \o (<<s[k + 1]>> \o f[k + 1])
    BY <1>3, <1>4, <2>1, Zenon
  <2>4. <<s[k + 1]>> \o f[k + 1] = rest(k) /\ rest(k) \in Seq(Nat)
    BY <1>5, <2>1, <2>2
  <2>5. <<>> \o rest(k) = rest(k)
    BY <2>4, ConcatEmptySeq
  <2>6. f[k] = rest(k)
    BY <2>3, <2>4, <2>5, Zenon
  <2> QED BY <2>1, <2>6 DEF k
<1>9. \A n \in 0..N : n \in S
  <2> HIDE DEF S
  <2> QED BY <1>1, <1>7, <1>8, Induction, Zenon
<1>10. f[0] = rest(0)
  <2>1. N \in 0..N /\ N - N = 0
    BY <1>1
  <2> QED BY <1>9, <2>1
<1> QED BY <1>4, <1>6, <1>10

(* Numeral reads the last digit last.                                          *)
LEMMA NumeralAppend ==
  ASSUME NEW s \in Seq(Nat), NEW c \in Nat
  PROVE  Numeral(Append(s, c)) = 10 * Numeral(s) + c - 48
<1> DEFINE t == Append(s, c)
           N == Len(s)
<1>1. /\ t \in Seq(Nat) /\ Len(t) = N + 1 /\ t[N + 1] = c /\ N \in Nat
      /\ \A k \in 1..N : t[k] = s[k]
  BY AppendProperties, LenProperties
<1> HIDE DEF t
<1>2. PICK f \in [0..N -> Int] :
        /\ f[0] = 0 /\ Numeral(s) = f[N] /\ \A k \in 1..N : f[k] = 10 * f[k - 1] + s[k] - 48
  BY Numerals
<1>3. PICK g \in [0..Len(t) -> Int] :
        /\ g[0] = 0 /\ Numeral(t) = g[Len(t)]
        /\ \A k \in 1..Len(t) : g[k] = 10 * g[k - 1] + t[k] - 48
  BY <1>1, Numerals
<1> DEFINE S == {k \in 0..N : f[k] = g[k]}
<1> HIDE DEF N
<1>4. 0 \in S
  BY <1>1, <1>2, <1>3
<1>5. ASSUME NEW m \in 0..N - 1, m \in S PROVE m + 1 \in S
  <2>1. m + 1 \in 1..N /\ m + 1 \in 1..Len(t) /\ (m + 1) - 1 = m /\ m + 1 \in 0..N
    BY <1>1
  <2>2. f[m + 1] = 10 * f[m] + s[m + 1] - 48
    BY <1>2, <2>1
  <2>3. g[m + 1] = 10 * g[m] + t[m + 1] - 48
    BY <1>3, <2>1
  <2>4. f[m] = g[m] /\ t[m + 1] = s[m + 1]
    BY <1>1, <1>5, <2>1
  <2>5. f[m + 1] = g[m + 1]
    BY <2>2, <2>3, <2>4
  <2> QED BY <2>1, <2>5
<1>6. N \in S
  <2>1. \A k \in 0..N : k \in S
    <3> HIDE DEF S
    <3> QED BY <1>1, <1>4, <1>5, Induction, Zenon
  <2>2. N \in 0..N
    BY <1>1
  <2> QED BY <2>1, <2>2
<1>7. f[N] = g[N]
  BY <1>6
<1>8. N + 1 \in 1..Len(t) /\ (N + 1) - 1 = N
  BY <1>1
<1>9. g[N + 1] = 10 * g[N] + t[N + 1] - 48
  BY <1>3, <1>8
<1>10. Numeral(t) = g[N + 1]
  BY <1>1, <1>3
<1> QED BY <1>1, <1>2, <1>7, <1>9, <1>10 DEF t

(* Decimal writes what Numeral reads.                                          *)
LEMMA RoundTrip ==
  ASSUME NEW n \in Nat
  PROVE  Numeral(Decimal[n]) = n /\ Decimal[n] \in Seq(48..57) /\ Decimal[n] # <<>>
<1>1. Decimal \in [Nat -> Seq(48..57)]
  BY Decimals
<1>2. \A k \in Nat : Decimal[k] = IF k < 10 THEN <<48 + k>>
                                  ELSE Append(Decimal[k \div 10], 48 + (k % 10))
  BY Decimals
<1>3. \A s \in Seq(48..57) : s \in Seq(Nat)
  <2>1. 48..57 \subseteq Nat
    OBVIOUS
  <2> QED BY <2>1, SeqMonotonic
<1>4. \A c \in Nat : Numeral(<<c>>) = c - 48
  <2> TAKE c \in Nat
  <2>1. <<>> \in Seq(Nat) /\ Append(<<>>, c) = <<c>>
    OBVIOUS
  <2>2. Numeral(<<>>) = 0
    <3>1. <<>> \in Seq(Nat) /\ Len(<<>>) = 0
      OBVIOUS
    <3>2. PICK f \in [0..Len(<<>>) -> Int] : f[0] = 0 /\ Numeral(<<>>) = f[Len(<<>>)]
      BY <3>1, Numerals
    <3> QED BY <3>1, <3>2
  <2>3. Numeral(Append(<<>>, c)) = 10 * Numeral(<<>>) + c - 48
    BY <2>1, NumeralAppend
  <2> QED BY <2>1, <2>2, <2>3
<1> DEFINE fails == {k \in Nat : Numeral(Decimal[k]) # k \/ Decimal[k] = <<>>}
<1>5. SUFFICES ASSUME fails # {} PROVE FALSE
  BY <1>1
<1>6. PICK k \in fails : \A j \in fails : k <= j
  <2>1. fails \in SUBSET Nat
    OBVIOUS
  <2> HIDE DEF fails
  <2> QED BY <1>5, <2>1, Least
<1>7. k \in Nat /\ (Numeral(Decimal[k]) # k \/ Decimal[k] = <<>>)
  BY <1>6
<1>8. CASE k < 10
  <2>1. Decimal[k] = <<48 + k>> /\ 48 + k \in Nat /\ <<48 + k>> # <<>>
    <3>1. Decimal[k] = <<48 + k>>
      BY <1>2, <1>7, <1>8, Zenon
    <3>2. 48 + k \in Nat
      BY <1>7
    <3>3. \A c : <<c>> # <<>>
      OBVIOUS
    <3> QED BY <3>1, <3>2, <3>3, Zenon
  <2>2. Numeral(<<48 + k>>) = (48 + k) - 48
    BY <1>4, <2>1
  <2>3. (48 + k) - 48 = k
    BY <1>7
  <2> QED BY <1>7, <2>1, <2>2, <2>3
<1>9. CASE ~(k < 10)
  <2> DEFINE m == k \div 10
             c == 48 + (k % 10)
             s == Decimal[m]
  <2>1. m \in Nat /\ m < k /\ c \in Nat /\ 10 * m + c - 48 = k
    <3>1. k >= 10
      BY <1>7, <1>9
    <3>2. m \in Nat /\ m < k /\ k % 10 \in 0..9 /\ k = 10 * m + (k % 10)
      BY <1>7, <3>1, Tenth
    <3> HIDE DEF m
    <3> QED BY <1>7, <3>2
  <2>2. Decimal[k] = Append(s, c)
    BY <1>2, <1>7, <1>9
  <2> HIDE DEF m, c
  <2>3. m \notin fails
    BY <1>6, <1>7, <2>1
  <2>4. Numeral(s) = m /\ s \in Seq(48..57)
    BY <1>1, <2>1, <2>3
  <2> HIDE DEF s
  <2>5. s \in Seq(Nat)
    BY <1>3, <2>4
  <2>6. Numeral(Append(s, c)) = 10 * m + c - 48
    BY <2>1, <2>4, <2>5, NumeralAppend
  <2>7. Append(s, c) # <<>>
    BY <2>1, <2>5, AppendProperties
  <2> QED BY <1>7, <2>1, <2>2, <2>6, <2>7
<1> QED BY <1>8, <1>9

(* An int as a text: a sign or none, and digits.                               *)
LEMMA IntTextsRead ==
  ASSUME NEW n \in Int
  PROVE  /\ IntText(n) \in Seq(45..57) /\ IntText(n) # <<>>
         /\ HasNumeral(IntText(n)) /\ Signed(IntText(n)) = n
<1> DEFINE size == IF n < 0 THEN -n ELSE n
           d == Decimal[size]
<1>1. size \in Nat
  OBVIOUS
<1>2. Numeral(d) = size /\ d \in Seq(48..57) /\ d # <<>>
  BY <1>1, RoundTrip
<1>3. IntText(n) = IF n < 0 THEN <<45>> \o d ELSE d
  BY DEF IntText
<1> HIDE DEF d
<1>4. Len(d) \in Nat /\ Len(d) >= 1 /\ (\A k \in 1..Len(d) : d[k] \in 48..57) /\ d \in Seq(45..57)
  <2>1. Len(d) \in Nat /\ Len(d) # 0
    BY <1>2, LenProperties, EmptySeq
  <2>2. 48..57 \subseteq 45..57
    OBVIOUS
  <2> QED BY <1>2, <2>1, <2>2, ElementOfSeq, SeqMonotonic
<1>5. d[1] \in 48..57
  BY <1>4
<1>6. CASE n < 0
  <2> DEFINE t == <<45>> \o d
  <2>1. /\ t \in Seq(45..57) /\ Len(t) = Len(d) + 1
        /\ \A k \in 1..Len(d) + 1 : t[k] = (IF k = 1 THEN 45 ELSE d[k - 1])
    <3>1. 45 \in 45..57
      OBVIOUS
    <3> QED BY <1>4, <3>1, Prepended
  <2> HIDE DEF t
  <2>2. t[1] = 45 /\ t # <<>>
    BY <1>4, <2>1
  <2>3. Tail(t) = d
    <3>1. Tail(t) \in Seq(45..57) /\ Len(Tail(t)) = Len(t) - 1
          /\ \A k \in 1..Len(Tail(t)) : Tail(t)[k] = t[k + 1]
      BY <2>1, <2>2, HeadTailProperties
    <3>2. Len(Tail(t)) = Len(d)
      BY <1>4, <2>1, <3>1
    <3>3. ASSUME NEW k \in 1..Len(d) PROVE Tail(t)[k] = d[k]
      <4>1. k + 1 \in 1..Len(d) + 1 /\ k + 1 # 1 /\ (k + 1) - 1 = k
        BY <1>4
      <4>2. Tail(t)[k] = t[k + 1]
        BY <3>1, <3>2
      <4> QED BY <2>1, <4>1, <4>2
    <3> DEFINE u == Tail(t)
    <3> HIDE DEF u
    <3>4. u = d
      BY <1>4, <3>1, <3>2, <3>3, SeqEqual DEF u
    <3> QED BY <3>4 DEF u
  <2>4. Unsigned(t) = d /\ IntText(n) = t
    BY <1>3, <1>6, <2>2, <2>3 DEF Unsigned, t
  <2>5. Signed(t) = -size
    BY <1>2, <2>2, <2>4 DEF Signed
  <2>6. -size = n
    BY <1>6
  <2>7. HasNumeral(t)
    BY <1>2, <1>4, <2>4 DEF HasNumeral, IsDigit
  <2> QED BY <2>1, <2>2, <2>4, <2>5, <2>6, <2>7
<1>7. CASE ~(n < 0)
  <2>1. IntText(n) = d /\ size = n
    BY <1>3, <1>7
  <2>2. d[1] # 43 /\ d[1] # 45
    BY <1>5
  <2>3. Unsigned(d) = d
    BY <2>2 DEF Unsigned
  <2>4. Signed(d) = n
    BY <1>2, <2>1, <2>2, <2>3 DEF Signed
  <2>5. HasNumeral(d)
    BY <1>2, <1>4, <2>3 DEF HasNumeral, IsDigit
  <2> QED BY <1>2, <1>4, <2>1, <2>4, <2>5
<1> QED BY <1>6, <1>7

(* Nothing is cut off a text without spaces.                                   *)
LEMMA NothingTrimmed ==
  ASSUME NEW s \in Seq(45..57), s # <<>>
  PROVE  Trim(s) = s
<1>1. Len(s) \in Nat /\ Len(s) >= 1 /\ \A k \in 1..Len(s) : s[k] \in 45..57
  BY LenProperties, EmptySeq, ElementOfSeq
<1>2. Inside(s) = 1..Len(s)
  BY <1>1 DEF Inside, IsSpace
<1> DEFINE a == CHOOSE k \in Inside(s) : \A j \in Inside(s) : k <= j
           b == CHOOSE k \in Inside(s) : \A j \in Inside(s) : k >= j
<1>3. a = 1
  <2>1. 1 \in Inside(s) /\ \A j \in Inside(s) : 1 <= j
    BY <1>1, <1>2
  <2>2. ASSUME NEW k \in Inside(s), \A j \in Inside(s) : k <= j PROVE k = 1
    <3>1. k <= 1 /\ 1 <= k /\ k \in Int
      BY <1>1, <1>2, <2>1, <2>2
    <3> QED BY <3>1
  <2> QED BY <2>1, <2>2
<1>4. b = Len(s)
  <2>1. Len(s) \in Inside(s) /\ \A j \in Inside(s) : Len(s) >= j
    BY <1>1, <1>2
  <2>2. ASSUME NEW k \in Inside(s), \A j \in Inside(s) : k >= j PROVE k = Len(s)
    <3>1. k >= Len(s) /\ Len(s) >= k /\ k \in Int
      BY <1>1, <1>2, <2>1, <2>2
    <3> QED BY <1>1, <3>1
  <2> QED BY <2>1, <2>2
<1>5. Inside(s) # {}
  BY <1>1, <1>2
<1>6. Trim(s) = SubSeq(s, a, b)
  BY <1>5 DEF Trim
<1> HIDE DEF a, b
<1> QED BY <1>3, <1>4, <1>6, Rests

(* No space is removed from an int, and Atoi reads it as what it was.          *)
LEMMA IntsKept ==
  ASSUME NEW n \in Int, n = Wrap(n)
  PROVE  /\ Replaced(IntText(n), <<32>>, <<>>) = IntText(n)
         /\ ConvertToInt(Text(IntText(n))) = Ok(Number(n))
<1> DEFINE s == IntText(n)
           sp == <<32>>
<1>1. s \in Seq(45..57) /\ s # <<>> /\ HasNumeral(s) /\ Signed(s) = n
  BY IntTextsRead
<1>2. s \in Seq(Nat) /\ sp \in Seq(Nat) /\ <<>> \in Seq(Nat) /\ Len(sp) = 1 /\ sp[1] = 32
  BY IntTexts
<1> HIDE DEF s, sp
<1>3. ~Occurs(sp, s)
  <2>1. SUFFICES ASSUME NEW k \in 0..Len(s) - Len(sp), SubSeq(s, k + 1, k + Len(sp)) = sp
                 PROVE  FALSE
    BY DEF Occurs, Occurrences
  <2>2. k + 1 \in 1..Len(s) /\ k \in Nat /\ k + Len(sp) = k + 1
    BY <1>2, LenProperties
  <2>3. s[k + 1] \in 45..57
    BY <1>1, <2>2, ElementOfSeq
  <2>4. SubSeq(s, k + 1, k + 1)[1] = s[k + 1]
    <3> DEFINE m == k + 1
    <3>1. m \in Int /\ (\A j \in m..m : s[j] \in 45..57) /\ 1 \in 1..m - m + 1 /\ m + 1 - 1 = m
      BY <2>2, <2>3
    <3> HIDE DEF m
    <3>2. \A j \in 1..m - m + 1 : SubSeq(s, m, m)[j] = s[m + j - 1]
      BY <3>1, SubSeqProperties
    <3>3. SubSeq(s, m, m)[1] = s[m]
      BY <3>1, <3>2
    <3> QED BY <3>3 DEF m
  <2> QED BY <1>2, <2>1, <2>2, <2>3, <2>4
<1>4. Replaced(s, sp, <<>>) = s
  BY <1>2, <1>3, NothingReplaced
<1>5. Atoi(Trim(s)) = Ok(Number(n))
  <2>1. Trim(s) = s
    BY <1>1, NothingTrimmed
  <2> QED BY <1>1, <2>1 DEF Atoi
<1>6. ToInt(Text(s)) = Ok(Number(n))
  BY <1>5, Texts DEF ToInt
<1>7. ConvertToInt(Text(s)) = Ok(Number(n))
  <2>1. ToInt(Text(s)).ok = TRUE /\ Type(Text(s)) = "string"
    BY <1>6, Oks, Texts
  <2> QED BY <1>6, <2>1 DEF ConvertToInt
<1> QED BY <1>4, <1>7 DEF s, sp

(* Ints are kept and floats are rounded, in every call.                        *)
THEOREM NumbersAlwaysKept ==
  ASSUME LibrariesFit
  PROVE  Spec => []NumbersKept
<1>1. ASSUME CInv PROVE NumbersKept
  <2>1. ASSUME Type(value) = "int"
        PROVE  ConvertToInt(Text(Contents(Call("String", "removeSpaces", <<>>)))).val = value
    <3> DEFINE n == Contents(value)
    <3>1. value = Number(n) /\ n \in Int /\ n = Wrap(n)
      <4>1. value = <<Type(value), Contents(value)>> /\ Scalar(value)
        BY <1>1, <2>1, ProperFits DEF CInv
      <4>2. n \in Int /\ n = Wrap(n)
        BY <2>1, <4>1, Scalars
      <4> QED BY <2>1, <4>1, <4>2 DEF Number
    <3>2. PyStr(value) = IntText(n)
      BY <2>1 DEF PyStr
    <3> HIDE DEF n
    <3>3. Call("String", "removeSpaces", <<>>) = StringCall("removeSpaces", <<value>> \o <<>>).val
      BY Called, Zenon
    <3>4. <<value>> \o <<>> = <<value>>
      BY CallArgs, Zenon
    <3>5. StringCall("removeSpaces", <<value>>) = Ok(Text(Replaced(PyStr(value), <<32>>, <<>>)))
      BY StringCalls, Zenon
    <3>6. Replaced(IntText(n), <<32>>, <<>>) = IntText(n)
          /\ ConvertToInt(Text(IntText(n))) = Ok(Number(n))
      BY <3>1, IntsKept
    <3>7. Call("String", "removeSpaces", <<>>) = Ok(Text(IntText(n))).val
      BY <3>2, <3>3, <3>4, <3>5, <3>6, Zenon
    <3>8. Contents(Call("String", "removeSpaces", <<>>)) = IntText(n)
      <4>1. Call("String", "removeSpaces", <<>>) = Text(IntText(n))
        BY <3>7, Oks, Zenon
      <4> QED BY <4>1, Texts, Zenon
    <3>9. ConvertToInt(Text(IntText(n))).val = Number(n)
      BY <3>6, Oks
    <3> QED BY <3>1, <3>8, <3>9, Zenon
  <2> DEFINE fits(p) == Rounded(p) = Wrap(Rounded(p))
             whole(p) == Contents(ConvertToInt(Float(p)).val)
  <2>2. ASSUME NEW p, fits(p) PROVE whole(p) = Rounded(p)
    <3>1. Type(Float(p)) = "float64" /\ Contents(Float(p)) = p
      BY DEF Type, Contents, Float
    <3>2. ConvertToInt(Float(p)) = Ok(Number(FloatToInt(Rounded(p))))
      BY <3>1 DEF ConvertToInt
    <3>3. FloatToInt(Rounded(p)) = Rounded(p)
      BY <2>2 DEF FloatToInt
    <3>4. ConvertToInt(Float(p)).val = Number(Rounded(p))
      BY <3>2, <3>3, Oks
    <3> QED BY <3>4, Numbers
  <2>3. ASSUME Type(value) = "float64", NEW q, q = Contents(value)
        PROVE  /\ fits(q) => \A n \in whole(q) - 1..whole(q) + 1 :
                    Distance(q, Quarters * n) >= Distance(q, Quarters * whole(q))
               /\ fits(q) /\ fits(-q) => whole(-q) = -whole(q)
    <3>1. q \in Int
      <4>1. Scalar(value)
        BY <1>1, <2>3, ProperFits DEF CInv
      <4> QED BY <2>3, <4>1, Scalars
    <3>2. /\ Rounded(q) \in Int /\ Rounded(-q) = -Rounded(q)
          /\ q >= 0 => Quarters * Rounded(q) - q \in -1..2
          /\ q <= 0 => q - Quarters * Rounded(q) \in -1..2
      BY <3>1, RoundsToNearest
    <3>3. ASSUME NEW r \in Int, r = Rounded(q), NEW n \in r - 1..r + 1
          PROVE  Distance(q, Quarters * n) >= Distance(q, Quarters * r)
      <4>1. n = r - 1 \/ n = r \/ n = r + 1
        BY <3>3
      <4> QED BY <3>1, <3>2, <3>3, <4>1 DEF Distance, Quarters
    <3>4. fits(q) => whole(q) = Rounded(q)
      BY <2>2
    <3>5. fits(-q) => whole(-q) = Rounded(-q)
      BY <2>2
    <3> HIDE DEF fits, whole
    <3> QED BY <3>2, <3>3, <3>4, <3>5
  <2>4. ASSUME Type(value) = "float64"
        PROVE  LET q == Contents(value)
               IN /\ fits(q) => \A n \in whole(q) - 1..whole(q) + 1 :
                       Distance(q, Quarters * n) >= Distance(q, Quarters * whole(q))
                  /\ fits(q) /\ fits(-q) => whole(-q) = -whole(q)
    <3> HIDE DEF fits, whole
    <3> QED BY <2>3, <2>4
  <2> QED BY <2>1, <2>4 DEF NumbersKept
<1>2. Spec => []CInv
  BY CallsAlways
<1>3. CInv => NumbersKept
  BY <1>1
<1> QED BY <1>2, <1>3, PTL

-----------------------------------------------------------------------------
(* strings.ToLower does to the letters of ASCII what Lower does, and takes an  *)
(* upper-case one and a lower-case one for the same.                           *)
CaseFolds ==
  \A s \in Seq(Nat) : ToLower(Lower(s)) = ToLower(s) /\ ToLower(Upper(s)) = ToLower(s)

(* A number has no letters.                                                    *)
LEMMA NumeralChars ==
  ASSUME NEW s \in Seq(Nat), HasNumeral(s)
  PROVE  \A k \in 1..Len(s) : s[k] \in {43, 45} \cup 48..57
<1>1. Len(s) \in Nat
  BY LenProperties
<1>2. CASE s # <<>> /\ s[1] \in {43, 45}
  <2>1. /\ Len(Tail(s)) = Len(s) - 1
        /\ \A k \in 1..Len(Tail(s)) : Tail(s)[k] = s[k + 1]
    BY <1>2, HeadTailProperties
  <2>2. \A k \in 1..Len(Tail(s)) : Tail(s)[k] \in 48..57
    BY <1>2 DEF HasNumeral, Unsigned, IsDigit
  <2>3. ASSUME NEW k \in 1..Len(s), k # 1 PROVE s[k] \in 48..57
    <3>1. k - 1 \in 1..Len(Tail(s)) /\ (k - 1) + 1 = k
      BY <1>1, <2>1, <2>3
    <3>2. Tail(s)[k - 1] = s[k]
      BY <2>1, <3>1
    <3> QED BY <2>2, <3>1, <3>2
  <2> QED BY <1>2, <2>3
<1>3. CASE ~(s # <<>> /\ s[1] \in {43, 45})
  BY <1>3 DEF HasNumeral, Unsigned, IsDigit
<1> QED BY <1>2, <1>3

(* Nor is a text taken for a number, or a number for none, in another case.    *)
LEMMA CasesOfNumerals ==
  ASSUME NEW s \in Seq(Nat)
  PROVE  Atoi(Lower(s)).ok = Atoi(s).ok /\ Atoi(Upper(s)).ok = Atoi(s).ok
<1> DEFINE plain == {43, 45} \cup 48..57
<1>1. Len(s) \in Nat /\ (\A k \in 1..Len(s) : s[k] \in Nat) /\ DOMAIN s = 1..Len(s)
  BY LenProperties, ElementOfSeq
<1>2. /\ Lower(s) \in Seq(Nat) /\ Len(Lower(s)) = Len(s)
      /\ Upper(s) \in Seq(Nat) /\ Len(Upper(s)) = Len(s)
  BY CaseTexts
<1>3. \A k \in 1..Len(s) :
        /\ Lower(s)[k] = (IF s[k] \in 65..90 THEN s[k] + 32 ELSE s[k])
        /\ Upper(s)[k] = (IF s[k] \in 97..122 THEN s[k] - 32 ELSE s[k])
  BY <1>1 DEF Lower, Upper
<1>4. ASSUME NEW t \in {Lower(s), Upper(s)}, HasNumeral(s) \/ HasNumeral(t)
      PROVE  t = s
  <2>0. t \in Seq(Nat) /\ Len(t) = Len(s)
    BY <1>2
  <2>1. \/ \A k \in 1..Len(s) : s[k] \in plain
        \/ \A k \in 1..Len(s) : t[k] \in plain
    BY <1>4, <2>0, NumeralChars
  <2>2. \A c \in Nat : c \in plain \/ (IF c \in 65..90 THEN c + 32 ELSE c) \in plain
                       => (IF c \in 65..90 THEN c + 32 ELSE c) = c
    OBVIOUS
  <2>3. \A c \in Nat : c \in plain \/ (IF c \in 97..122 THEN c - 32 ELSE c) \in plain
                       => (IF c \in 97..122 THEN c - 32 ELSE c) = c
    OBVIOUS
  <2>4. ASSUME NEW k \in 1..Len(s) PROVE t[k] = s[k]
    <3> HIDE DEF plain
    <3>1. s[k] \in plain \/ t[k] \in plain
      BY <2>1
    <3>2. s[k] \in Nat
      BY <1>1
    <3>3. CASE t = Lower(s)
      <4>1. t[k] = (IF s[k] \in 65..90 THEN s[k] + 32 ELSE s[k])
        BY <1>3, <3>3
      <4> QED BY <2>2, <3>1, <3>2, <4>1
    <3>4. CASE t = Upper(s)
      <4>1. t[k] = (IF s[k] \in 97..122 THEN s[k] - 32 ELSE s[k])
        BY <1>3, <3>4
      <4> QED BY <2>3, <3>1, <3>2, <4>1
    <3> QED BY <3>3, <3>4
  <2> QED BY <2>0, <2>4, SeqEqual
<1>5. \A t : ~HasNumeral(t) => Atoi(t) = Err
  BY DEF Atoi
<1>6. ASSUME NEW t \in {Lower(s), Upper(s)} PROVE Atoi(t).ok = Atoi(s).ok
  <2>1. CASE HasNumeral(s) \/ HasNumeral(t)
    BY <1>4, <2>1
  <2>2. CASE ~(HasNumeral(s) \/ HasNumeral(t))
    <3>1. Atoi(t) = Err /\ Atoi(s) = Err
      BY <1>5, <2>2
    <3> QED BY <3>1
  <2> QED BY <2>1, <2>2
<1> QED BY <1>6

(* So the column in which an identifier is looked up is that of it in any case.*)
LEMMA CasesFindTheSame ==
  ASSUME CaseFolds, NEW s \in Seq(Nat)
  PROVE  FindCountry(Lower(s)) = FindCountry(s) /\ FindCountry(Upper(s)) = FindCountry(s)
<1>1. ASSUME NEW t, Len(t) = Len(s), Atoi(t).ok = Atoi(s).ok, ToLower(t) = ToLower(s)
      PROVE  FindCountry(t) = FindCountry(s)
  <2>1. IdentifierType(t) = IdentifierType(s)
    BY <1>1 DEF IdentifierType
  <2> QED BY <1>1, <2>1 DEF FindCountry
<1>2. Len(Lower(s)) = Len(s) /\ Len(Upper(s)) = Len(s)
  BY CaseTexts
<1>3. Atoi(Lower(s)).ok = Atoi(s).ok /\ Atoi(Upper(s)).ok = Atoi(s).ok
  BY CasesOfNumerals
<1>4. ToLower(Lower(s)) = ToLower(s) /\ ToLower(Upper(s)) = ToLower(s)
  BY DEF CaseFolds
<1> QED BY <1>1, <1>2, <1>3, <1>4

(* Conversions of countries, by way of any column and in any case.             *)
THEOREM CountriesKeepIdentity ==
  ASSUME LibrariesFit, CaseFolds
  PROVE  Spec => []SameCountry
<1>1. ASSUME NEW v, NEW method \in IsoMethods
      PROVE  IsoCall(method, <<v>>).val = Converted(v, ColumnOf(method))
  <2>1. Len(<<v>>) = 1 /\ <<v>>[1] = v
    OBVIOUS
  <2>2. IsoCall(method, <<v>>) = Ok(Converted(v, ColumnOf(method)))
    BY <2>1 DEF IsoCall
  <2> QED BY <2>2, Oks
<1>2. ASSUME NEW s, FindCountry(s) # 0, NEW column
      PROVE  Converted(Text(s), column) = Text(Table[FindCountry(s)][column])
  BY <1>2, Texts DEF Converted
<1>3. ASSUME CInv PROVE SameCountry
  <2>1. SUFFICES ASSUME NEW method \in IsoMethods, NEW via \in IsoMethods,
                        Call("Iso3166Convert", via, <<>>) # Null
        PROVE  LET there == Call("Iso3166Convert", via, <<>>)
                   back == Call("Iso3166Convert", method, <<>>)
               IN /\ IsoCall(method, <<there>>).val = back
                  /\ IsoCall(method, <<ToLowerCase(there)>>).val = back
                  /\ IsoCall(method, <<ToUpperCase(value)>>).val = back
    BY DEF SameCountry
  <2> DEFINE there == Call("Iso3166Convert", via, <<>>)
             back == Call("Iso3166Convert", method, <<>>)
             s == Contents(value)
             i == FindCountry(s)
             here == Table[i][ColumnOf(via)]
  <2>2. ASSUME NEW m \in IsoMethods
        PROVE  Call("Iso3166Convert", m, <<>>) = Converted(value, ColumnOf(m))
    <3>1. Call("Iso3166Convert", m, <<>>) = IsoCall(m, <<value>> \o <<>>).val
      BY Called, Zenon
    <3>2. <<value>> \o <<>> = <<value>>
      BY CallArgs, Zenon
    <3> QED BY <1>1, <3>1, <3>2, Zenon
  <2>3. there = Converted(value, ColumnOf(via)) /\ back = Converted(value, ColumnOf(method))
    BY <2>2, Zenon
  <2>4. Type(value) = "string" /\ i # 0
    BY <2>1, <2>3 DEF Converted
  <2>5. value = Text(s) /\ s \in Seq(Nat)
    <3>1. value = <<Type(value), Contents(value)>> /\ Scalar(value)
      BY <1>3, <2>4, ProperFits DEF CInv
    <3>2. s \in Seq(Nat)
      BY <2>4, <3>1, Scalars
    <3> QED BY <2>4, <3>1, <3>2 DEF Text
  <2>6. i \in Rows /\ ColumnOf(via) \in Columns
    <3>1. i \in Rows
      BY <2>4, Found
    <3> QED BY <3>1 DEF IsoMethods, ColumnOf, Columns
  <2> HIDE DEF there, back, s
  <2>7. there = Text(here) /\ back = Text(Table[i][ColumnOf(method)])
    BY <1>2, <2>3, <2>4, <2>5
  <2>8. here \in Seq(Nat) /\ FindCountry(here) = i
    BY <2>6, CellTexts, EveryCodeFindsItsCountry
  <2> HIDE DEF here
  <2>9. FindCountry(Lower(here)) = i
    BY <2>8, CasesFindTheSame
  <2>10. FindCountry(Upper(s)) = i
    BY <2>5, CasesFindTheSame
  <2> HIDE DEF i
  <2>11. \A t : FindCountry(t) = i => IsoCall(method, <<Text(t)>>).val = back
    <3> TAKE t
    <3>1. IsoCall(method, <<Text(t)>>).val = Converted(Text(t), ColumnOf(method))
      BY <1>1
    <3>2. FindCountry(t) = i => Converted(Text(t), ColumnOf(method)) = Text(Table[i][ColumnOf(method)])
      BY <1>2, <2>4
    <3> QED BY <2>7, <3>1, <3>2
  <2>12. ToLowerCase(there) = Text(Lower(here)) /\ ToUpperCase(value) = Text(Upper(s))
    <3>1. \A t : ToLowerCase(Text(t)) = Text(Lower(t)) /\ ToUpperCase(Text(t)) = Text(Upper(t))
      BY Texts DEF ToLowerCase, ToUpperCase
    <3> QED BY <2>5, <2>7, <3>1
  <2>13. /\ IsoCall(method, <<there>>).val = back
         /\ IsoCall(method, <<ToLowerCase(there)>>).val = back
         /\ IsoCall(method, <<ToUpperCase(value)>>).val = back
    BY <2>7, <2>8, <2>9, <2>10, <2>11, <2>12, Zenon
  <2> QED BY <2>13 DEF there, back
<1>4. Spec => []CInv
  BY CallsAlways
<1>5. CInv => SameCountry
  BY <1>3
<1> QED BY <1>4, <1>5, PTL

-----------------------------------------------------------------------------
(* Where a text occurs in another, character by character.                     *)
LEMMA OccursAt ==
  ASSUME NEW s \in Seq(Nat), NEW t \in Seq(Nat), NEW k
  PROVE  k \in Occurrences(t, s) <=>
           /\ k \in 0..Len(s) - Len(t)
           /\ \A j \in 1..Len(t) : s[k + j] = t[j]
<1>1. Len(s) \in Nat /\ Len(t) \in Nat /\ \A j \in 1..Len(s) : s[j] \in Nat
  BY LenProperties, ElementOfSeq
<1>2. ASSUME k \in 0..Len(s) - Len(t)
      PROVE  SubSeq(s, k + 1, k + Len(t)) = t <=> \A j \in 1..Len(t) : s[k + j] = t[j]
  <2> DEFINE sub == SubSeq(s, k + 1, k + Len(t))
             a == k + 1
             b == k + Len(t)
  <2>1. a \in Int /\ b \in Int /\ (\A j \in a..b : s[j] \in Nat)
        /\ (IF a <= b THEN b - a + 1 ELSE 0) = Len(t) /\ b - a + 1 = Len(t)
    BY <1>1, <1>2
  <2>2. \A j \in 1..Len(t) : a + j - 1 = k + j
    BY <1>1, <1>2
  <2>3. sub = SubSeq(s, a, b)
    OBVIOUS
  <2> HIDE DEF a, b, sub
  <2>4. sub \in Seq(Nat) /\ Len(sub) = Len(t) /\ \A j \in 1..Len(t) : sub[j] = s[a + j - 1]
    BY <2>1, <2>3, SubSeqProperties
  <2>5. sub \in Seq(Nat) /\ Len(sub) = Len(t) /\ \A j \in 1..Len(t) : sub[j] = s[k + j]
    BY <2>2, <2>4
  <2>6. sub = t <=> \A j \in 1..Len(t) : sub[j] = t[j]
    BY <2>5, SeqEqual
  <2>7. sub = t <=> \A j \in 1..Len(t) : s[k + j] = t[j]
    BY <2>5, <2>6
  <2> QED BY <2>7 DEF sub
<1>3. k \in Occurrences(t, s) <=> k \in 0..Len(s) - Len(t) /\ SubSeq(s, k + 1, k + Len(t)) = t
  BY DEF Occurrences
<1> QED BY <1>2, <1>3

(* One character occurs where it is.                                           *)
LEMMA OneOccursAt ==
  ASSUME NEW s \in Seq(Nat), NEW z \in Nat, NEW k
  PROVE  k \in Occurrences(<<z>>, s) <=> k \in 0..Len(s) - 1 /\ s[k + 1] = z
<1> DEFINE t == <<z>>
<1>1. t \in Seq(Nat) /\ Len(t) = 1 /\ t[1] = z
  OBVIOUS
<1> HIDE DEF t
<1>2. k \in Occurrences(t, s) <=> k \in 0..Len(s) - 1 /\ \A j \in 1..1 : s[k + j] = t[j]
  <2>1. k \in Occurrences(t, s) <=> k \in 0..Len(s) - Len(t) /\ \A j \in 1..Len(t) : s[k + j] = t[j]
    <3>1. t \in Seq(Nat)
      BY <1>1
    <3> QED BY <3>1, OccursAt, Zenon
  <2>2. Len(t) = 1
    BY <1>1
  <2> QED BY <2>1, <2>2, Zenon
<1>3. \A j : j \in 1..1 <=> j = 1
  OBVIOUS
<1> QED BY <1>1, <1>2, <1>3 DEF t

(* Replacing one character goes character by character.                        *)
LEMMA OneReplaced ==
  ASSUME NEW w \in Seq(Nat), NEW z \in Nat, NEW r \in Seq(Nat), NEW c \in Nat
  PROVE  /\ Replaced(<<>>, <<z>>, r) = <<>>
         /\ c = z => Replaced(<<c>> \o w, <<z>>, r) = r \o Replaced(w, <<z>>, r)
         /\ c # z => Replaced(<<c>> \o w, <<z>>, r) = <<c>> \o Replaced(w, <<z>>, r)
<1> DEFINE t == <<z>>
           u == <<c>> \o w
<1>1. /\ u \in Seq(Nat) /\ Len(u) = Len(w) + 1
      /\ \A k \in 1..Len(w) + 1 : u[k] = (IF k = 1 THEN c ELSE w[k - 1])
  BY Prepended
<1>2. t \in Seq(Nat) /\ Len(t) = 1 /\ t # <<>> /\ Len(w) \in Nat /\ <<>> \in Seq(Nat) /\ Len(<<>>) = 0
  BY LenProperties
<1>3. \A k : k \notin Occurrences(t, <<>>)
  <2>1. \A k : ~(k \in 0..Len(<<>>) - 1)
    OBVIOUS
  <2> QED BY <1>2, <2>1, OneOccursAt
<1>4. \A k : k \in Occurrences(t, w) <=> k \in 0..Len(w) - 1 /\ w[k + 1] = z
  BY OneOccursAt
<1>5. \A k : k \in Occurrences(t, u) <=> k \in 0..Len(w) /\ u[k + 1] = z
  <2> HIDE DEF u
  <2>1. \A k : k \in Occurrences(t, u) <=> k \in 0..Len(u) - 1 /\ u[k + 1] = z
    BY <1>1, OneOccursAt
  <2>2. Len(u) - 1 = Len(w)
    BY <1>1, <1>2
  <2> QED BY <2>1, <2>2
<1> HIDE DEF u, t
<1>6. Replaced(<<>>, t, r) = <<>>
  <2>1. ~Occurs(t, <<>>)
    BY <1>3 DEF Occurs
  <2> QED BY <1>2, <2>1, NothingReplaced
<1>7. PICK f : Replaces(f, w, t, r)
  BY <1>2, Replacing
<1>8. PICK g : Replaces(g, u, t, r)
  BY <1>1, <1>2, Replacing
<1> DEFINE N == Len(w)
<1>9. /\ f \in [0..N -> Seq(Nat)] /\ Replaced(w, t, r) = f[0]
      /\ \A k \in 0..N :
           f[k] = (IF k \in Occurrences(t, w) THEN r ELSE <<>>) \o
                  (IF k \in Occurrences(t, w) THEN f[k + 1]
                   ELSE IF k = N THEN <<>> ELSE <<w[k + 1]>> \o f[k + 1])
  BY <1>2, <1>7 DEF Replaces
<1>10. /\ g \in [0..N + 1 -> Seq(Nat)] /\ Replaced(u, t, r) = g[0]
       /\ \A k \in 0..N + 1 :
            g[k] = (IF k \in Occurrences(t, u) THEN r ELSE <<>>) \o
                   (IF k \in Occurrences(t, u) THEN g[k + 1]
                    ELSE IF k = N + 1 THEN <<>> ELSE <<u[k + 1]>> \o g[k + 1])
  BY <1>1, <1>2, <1>8 DEF Replaces
<1> HIDE DEF N
<1> DEFINE S == {n \in 0..N : f[N - n] = g[(N - n) + 1]}
<1>11. N \in Nat
  BY <1>2 DEF N
<1>12. 0 \in S
  <2>1. N - 0 = N /\ 0 \in 0..N /\ N \in 0..N /\ N + 1 \in 0..N + 1
    BY <1>11
  <2>2. N \notin Occurrences(t, w) /\ N + 1 \notin Occurrences(t, u)
    <3>1. ~(N \in 0..N - 1) /\ ~(N + 1 \in 0..N)
      BY <1>11
    <3> QED BY <1>4, <1>5, <3>1 DEF N
  <2>3. f[N] = <<>> \o <<>>
    BY <1>9, <2>1, <2>2, Zenon
  <2>4. g[N + 1] = <<>> \o <<>>
    BY <1>10, <2>1, <2>2, Zenon
  <2> QED BY <2>1, <2>3, <2>4
<1>13. ASSUME NEW m \in 0..N - 1, m \in S PROVE m + 1 \in S
  <2> DEFINE k == N - (m + 1)
  <2>1. /\ k \in 0..N - 1 /\ k \in 0..N /\ k # N /\ k + 1 = N - m /\ k + 1 \in 0..N + 1
        /\ k + 1 # N + 1 /\ k + 1 \in 0..N /\ m + 1 \in 0..N /\ (k + 1) + 1 \in 1..N + 1
        /\ (k + 1) + 1 # 1 /\ ((k + 1) + 1) - 1 = k + 1
    BY <1>11
  <2>2. f[k + 1] = g[(k + 1) + 1]
    BY <1>13, <2>1
  <2> HIDE DEF k
  <2>3. u[(k + 1) + 1] = w[k + 1]
    BY <1>1, <2>1 DEF N
  <2>4. k + 1 \in Occurrences(t, u) <=> k \in Occurrences(t, w)
    BY <1>4, <1>5, <2>1, <2>3 DEF N
  <2>5. f[k] = (IF k \in Occurrences(t, w) THEN r ELSE <<>>) \o
               (IF k \in Occurrences(t, w) THEN f[k + 1] ELSE <<w[k + 1]>> \o f[k + 1])
    BY <1>9, <2>1, Zenon
  <2>6. g[k + 1] = (IF k + 1 \in Occurrences(t, u) THEN r ELSE <<>>) \o
                   (IF k + 1 \in Occurrences(t, u) THEN g[(k + 1) + 1]
                    ELSE <<u[(k + 1) + 1]>> \o g[(k + 1) + 1])
    BY <1>10, <2>1, Zenon
  <2>7. f[k] = g[k + 1]
    BY <2>2, <2>3, <2>4, <2>5, <2>6, Zenon
  <2> QED BY <2>1, <2>7 DEF k
<1>14. f[0] = g[1]
  <2>1. \A n \in 0..N : n \in S
    <3> HIDE DEF S
    <3> QED BY <1>11, <1>12, <1>13, Induction, Zenon
  <2>2. N \in 0..N /\ N - N = 0 /\ 0 + 1 = 1
    BY <1>11
  <2> QED BY <2>1, <2>2
<1>15. 0 \in Occurrences(t, u) <=> c = z
  <2>1. 0 + 1 = 1 /\ 0 \in 0..N /\ 1 \in 1..N + 1
    BY <1>11
  <2>2. u[1] = c
    BY <1>1, <2>1 DEF N
  <2> QED BY <1>5, <2>1, <2>2 DEF N
<1>16. g[0] = (IF c = z THEN r ELSE <<c>>) \o f[0]
  <2>1. 0 \in 0..N + 1 /\ 0 # N + 1 /\ 0 + 1 = 1 /\ 0 \in 0..N /\ 1 \in 1..N + 1
    BY <1>11
  <2>2. u[1] = c
    BY <1>1, <2>1 DEF N
  <2>3. g[0] = (IF 0 \in Occurrences(t, u) THEN r ELSE <<>>) \o
               (IF 0 \in Occurrences(t, u) THEN g[0 + 1] ELSE <<u[0 + 1]>> \o g[0 + 1])
    BY <1>10, <2>1, Zenon
  <2>4. g[0] = (IF c = z THEN r ELSE <<>>) \o (IF c = z THEN f[0] ELSE <<c>> \o f[0])
    BY <1>14, <1>15, <2>1, <2>2, <2>3, Zenon
  <2>5. CASE c = z
    BY <2>4, <2>5
  <2>6. CASE c # z
    <3>1. f[0] \in Seq(Nat)
      <4>1. 0 \in 0..N
        BY <1>11
      <4> QED BY <1>9, <4>1
    <3>2. <<c>> \o f[0] \in Seq(Nat)
      BY <3>1, Prepended
    <3>3. <<>> \o (<<c>> \o f[0]) = <<c>> \o f[0]
      BY <3>2, ConcatEmptySeq
    <3>4. g[0] = <<>> \o (<<c>> \o f[0])
      BY <2>4, <2>6, Zenon
    <3> QED BY <2>6, <3>3, <3>4, Zenon
  <2> QED BY <2>5, <2>6
<1>17. Replaced(u, t, r) = (IF c = z THEN r ELSE <<c>>) \o Replaced(w, t, r)
  BY <1>9, <1>10, <1>16, Zenon
<1> QED BY <1>6, <1>17 DEF u, t

(* Undoing a replacement: what has been put in is found again, and only that.  *)
LEMMA ReplacedBack ==
  ASSUME NEW s \in Seq(Nat), NEW t \in Seq(Nat),
         NEW z \in Nat, z \notin Range(s), z \notin Range(t)
  PROVE  Replaced(Replaced(s, t, <<z>>), <<z>>, t) = s
<1> DEFINE N == Len(s)
           mark == <<z>>
           rest(k) == SubSeq(s, k + 1, N)
           found == Occurrences(t, s)
<1>1. N \in Nat /\ Len(t) \in Nat /\ (t # <<>> => Len(t) >= 1) /\ mark \in Seq(Nat)
      /\ \A k \in 1..N : s[k] \in Nat /\ s[k] # z
  <2>1. \A k \in 1..N : s[k] # z
    BY DEF Range
  <2> QED BY <2>1, LenProperties, ElementOfSeq, EmptySeq
<1>2. PICK f : Replaces(f, s, t, mark)
  BY <1>1, Replacing
<1>3. /\ f \in [0..N -> Seq(Nat)] /\ Replaced(s, t, mark) = f[0]
      /\ \A k \in 0..N :
           f[k] = (IF k \in found THEN mark ELSE <<>>) \o
                  (IF k \in found /\ t # <<>> THEN f[k + Len(t)]
                   ELSE IF k = N THEN <<>> ELSE <<s[k + 1]>> \o f[k + 1])
  BY <1>2 DEF Replaces
<1>4. /\ rest(N) = <<>> /\ \A k \in 0..N - 1 : <<s[k + 1]>> \o rest(k + 1) = rest(k)
      /\ \A k \in 0..N : rest(k) \in Seq(Nat)
  BY Rests
<1>5. rest(0) = s
  <2>1. SubSeq(s, 1, N) = s /\ 0 + 1 = 1
    BY Rests
  <2> QED BY <2>1
<1>6. ASSUME NEW k \in found
      PROVE  k \in 0..N /\ k + Len(t) \in 0..N /\ t \o rest(k + Len(t)) = rest(k)
  <2>1. k \in 0..N - Len(t) /\ SubSeq(s, k + 1, k + Len(t)) = t
    BY DEF Occurrences
  <2> DEFINE m == k + Len(t)
  <2>2. /\ k + 1 \in 1..N + 1 /\ m \in (k + 1) - 1..N /\ N \in m..N
        /\ m \in 0..N /\ k \in 0..N
    BY <1>1, <2>1
  <2> HIDE DEF m, N
  <2>3. SubSeq(s, k + 1, m) \o SubSeq(s, m + 1, N) = SubSeq(s, k + 1, N)
    BY <2>2, ConcatAdjacentSubSeq DEF N
  <2>4. SubSeq(s, k + 1, m) = t
    BY <2>1 DEF m
  <2> QED BY <2>2, <2>3, <2>4 DEF m
<1> DEFINE undone(w) == Replaced(w, mark, t)
<1>7. /\ undone(<<>>) = <<>>
      /\ \A w \in Seq(Nat), c \in Nat :
           /\ c = z => undone(<<c>> \o w) = t \o undone(w)
           /\ c # z => undone(<<c>> \o w) = <<c>> \o undone(w)
  <2>1. ASSUME NEW w \in Seq(Nat), NEW c \in Nat
        PROVE  /\ undone(<<>>) = <<>>
               /\ c = z => undone(<<c>> \o w) = t \o undone(w)
               /\ c # z => undone(<<c>> \o w) = <<c>> \o undone(w)
    <3>1. Replaced(<<>>, <<z>>, t) = <<>>
      BY OneReplaced, ZenonT(30)
    <3>2. c = z => Replaced(<<c>> \o w, <<z>>, t) = t \o Replaced(w, <<z>>, t)
      BY OneReplaced, ZenonT(30)
    <3>3. c # z => Replaced(<<c>> \o w, <<z>>, t) = <<c>> \o Replaced(w, <<z>>, t)
      BY OneReplaced, ZenonT(30)
    <3> QED BY <3>1, <3>2, <3>3, Zenon
  <2>2. <<>> \in Seq(Nat)
    OBVIOUS
  <2> HIDE DEF undone
  <2> QED BY <1>1, <2>1, <2>2
<1> HIDE DEF rest, found, undone, N
<1> DEFINE S == {n \in 0..N : \A k \in 0..N : k >= N - n => undone(f[k]) = rest(k)}
<1>8. ASSUME NEW k \in 0..N, \A j \in 0..N : j > k => undone(f[j]) = rest(j)
      PROVE  undone(f[k]) = rest(k)
  <2> DEFINE later == IF k = N THEN <<>> ELSE <<s[k + 1]>> \o f[k + 1]
  <2>1. later \in Seq(Nat) /\ undone(later) = rest(k)
    <3>1. CASE k = N
      <4>1. later = <<>>
        BY <3>1
      <4> QED BY <1>4, <1>7, <3>1, <4>1
    <3>2. CASE k # N
      <4>1. k \in 0..N - 1 /\ k + 1 \in 1..N /\ k + 1 \in 0..N /\ k + 1 > k
        BY <1>1, <3>2
      <4>2. s[k + 1] \in Nat /\ s[k + 1] # z /\ f[k + 1] \in Seq(Nat)
        BY <1>1, <1>3, <4>1
      <4>3. undone(f[k + 1]) = rest(k + 1)
        BY <1>8, <4>1
      <4>4. later = <<s[k + 1]>> \o f[k + 1]
        BY <3>2
      <4>5. undone(<<s[k + 1]>> \o f[k + 1]) = <<s[k + 1]>> \o undone(f[k + 1])
        BY <1>7, <4>2, Zenon
      <4>6. undone(later) = rest(k)
        BY <1>4, <4>1, <4>3, <4>4, <4>5, Zenon
      <4>7. <<s[k + 1]>> \o f[k + 1] \in Seq(Nat)
        BY <4>2, Prepended
      <4> QED BY <4>4, <4>6, <4>7, Zenon
    <3> QED BY <3>1, <3>2
  <2>2. f[k] = (IF k \in found THEN mark ELSE <<>>) \o
               (IF k \in found /\ t # <<>> THEN f[k + Len(t)] ELSE later)
    BY <1>3, Zenon
  <2> HIDE DEF later
  <2>3. CASE k \notin found
    <3>1. f[k] = <<>> \o later
      BY <2>2, <2>3, Zenon
    <3>2. <<>> \o later = later
      BY <2>1, ConcatEmptySeq
    <3> QED BY <2>1, <3>1, <3>2, Zenon
  <2>4. CASE k \in found /\ t # <<>>
    <3>1. f[k] = mark \o f[k + Len(t)]
      BY <2>2, <2>4, Zenon
    <3>2. k + Len(t) \in 0..N /\ t \o rest(k + Len(t)) = rest(k)
      BY <1>6, <2>4
    <3>3. k + Len(t) > k
      BY <1>1, <2>4
    <3>4. undone(f[k + Len(t)]) = rest(k + Len(t)) /\ f[k + Len(t)] \in Seq(Nat)
      BY <1>3, <1>8, <3>2, <3>3
    <3>5. undone(mark \o f[k + Len(t)]) = t \o undone(f[k + Len(t)])
      BY <1>1, <1>7, <3>4, Zenon
    <3> QED BY <3>1, <3>2, <3>4, <3>5, Zenon
  <2>5. CASE k \in found /\ t = <<>>
    <3>1. f[k] = mark \o later
      BY <2>2, <2>5, Zenon
    <3>2. undone(mark \o later) = t \o undone(later)
      BY <1>1, <1>7, <2>1, Zenon
    <3>3. rest(k) \in Seq(Nat)
      BY <1>4
    <3>4. <<>> \o rest(k) = rest(k)
      BY <3>3, ConcatEmptySeq
    <3> QED BY <2>1, <2>5, <3>1, <3>2, <3>4, Zenon
  <2> QED BY <2>3, <2>4, <2>5, Zenon
<1>9. 0 \in S
  <2>1. ASSUME NEW k \in 0..N, k >= N - 0 PROVE undone(f[k]) = rest(k)
    <3>1. \A j \in 0..N : ~(j > k)
      BY <1>1, <2>1
    <3> QED BY <1>8, <3>1
  <2>2. 0 \in 0..N
    BY <1>1
  <2> QED BY <2>1, <2>2
<1>10. ASSUME NEW m \in 0..N - 1, m \in S PROVE m + 1 \in S
  <2>1. ASSUME NEW k \in 0..N, k >= N - (m + 1) PROVE undone(f[k]) = rest(k)
    <3>1. \A j \in 0..N : j > k => j >= N - m
      BY <1>1, <2>1
    <3>2. \A j \in 0..N : j > k => undone(f[j]) = rest(j)
      BY <1>10, <3>1
    <3> QED BY <1>8, <3>2
  <2>2. m + 1 \in 0..N
    BY <1>1
  <2> QED BY <2>1, <2>2
<1>11. undone(f[0]) = rest(0)
  <2>1. \A n \in 0..N : n \in S
    <3> HIDE DEF S
    <3> QED BY <1>1, <1>9, <1>10, Induction, Zenon
  <2>2. N \in 0..N /\ 0 \in 0..N /\ 0 >= N - N
    BY <1>1
  <2> QED BY <2>1, <2>2
<1> QED BY <1>3, <1>5, <1>11 DEF undone

(* And after a replacement nothing is left to be replaced.                     *)
LEMMA NoneLeft ==
  ASSUME NEW s \in Seq(Nat), NEW t \in Seq(Nat), 0 \notin Range(t), t # <<>>
  PROVE  ~Occurs(t, Replaced(s, t, <<0>>))
<1> DEFINE N == Len(s)
           M == Len(t)
           z == <<0>>
           found == Occurrences(t, s)
<1>1. N \in Nat /\ M \in Nat /\ M >= 1 /\ z \in Seq(Nat) /\ 0 \in Nat
      /\ (\A k \in 1..N : s[k] \in Nat) /\ \A k \in 1..M : t[k] \in Nat /\ t[k] # 0
  <2>1. \A k \in 1..M : t[k] # 0
    BY DEF Range
  <2> QED BY <2>1, LenProperties, ElementOfSeq, EmptySeq
<1>2. PICK f : Replaces(f, s, t, z)
  BY <1>1, Replacing
<1>3. /\ f \in [0..N -> Seq(Nat)] /\ Replaced(s, t, z) = f[0]
      /\ \A k \in 0..N :
           f[k] = (IF k \in found THEN z ELSE <<>>) \o
                  (IF k \in found /\ t # <<>> THEN f[k + M]
                   ELSE IF k = N THEN <<>> ELSE <<s[k + 1]>> \o f[k + 1])
  BY <1>2 DEF Replaces
<1>4. \A k : k \in found <=> k \in 0..N - M /\ \A j \in 1..M : s[k + j] = t[j]
  BY OccursAt
<1> HIDE DEF N, M, found
(* What has been made of the text from k on: the characters before the first   *)
(* mark are those of the text, and what is searched for does not occur.        *)
<1> DEFINE starts(k) == \A n \in 0..Len(f[k]) :
                          (\A j \in 1..n : f[k][j] # 0)
                            => k + n <= N /\ \A j \in 1..n : f[k][j] = s[k + j]
           clear(k) == ~Occurs(t, f[k])
           good(k) == starts(k) /\ clear(k)
           S == {n \in 0..N : \A k \in 0..N : k >= N - n => good(k)}
<1>5. ASSUME NEW k, f[k] \in Seq(Nat), NEW i
      PROVE  i \in Occurrences(t, f[k]) <=>
               i \in 0..Len(f[k]) - M /\ \A j \in 1..M : f[k][i + j] = t[j]
  BY <1>5, OccursAt DEF M
(* A character, or a mark, is put before what follows.                         *)
<1>6. ASSUME NEW k \in 0..N, NEW m \in 0..N, m > k, good(m), NEW c \in Nat, f[k] = <<c>> \o f[m],
             c = 0 \/ (m = k + 1 /\ k \notin found /\ c = s[k + 1])
      PROVE  good(k)
  <2> DEFINE w == f[m]
             u == f[k]
  <2>1. w \in Seq(Nat) /\ u \in Seq(Nat) /\ Len(w) \in Nat /\ Len(u) = Len(w) + 1
        /\ \A j \in 1..Len(w) + 1 : u[j] = (IF j = 1 THEN c ELSE w[j - 1])
    <3>1. w \in Seq(Nat)
      BY <1>3
    <3> HIDE DEF w
    <3>2. Len(w) \in Nat
      BY <3>1, LenProperties
    <3>3. /\ <<c>> \o w \in Seq(Nat) /\ Len(<<c>> \o w) = Len(w) + 1
          /\ \A j \in 1..Len(w) + 1 : (<<c>> \o w)[j] = (IF j = 1 THEN c ELSE w[j - 1])
      BY <3>1, Prepended
    <3>4. u = <<c>> \o w
      BY <1>6 DEF w
    <3> HIDE DEF u
    <3> QED BY <3>1, <3>2, <3>3, <3>4
  <2>2. /\ \A n \in 0..Len(w) :
            (\A j \in 1..n : w[j] # 0) => m + n <= N /\ \A j \in 1..n : w[j] = s[m + j]
        /\ \A i : ~(i \in 0..Len(w) - M /\ \A j \in 1..M : w[i + j] = t[j])
    <3>1. starts(m) /\ clear(m)
      BY <1>6
    <3>2. \A i : i \notin Occurrences(t, w)
      BY <3>1 DEF Occurs
    <3> HIDE DEF clear
    <3> QED BY <1>5, <2>1, <3>1, <3>2
  <2> HIDE DEF w, u
  <2>3. ASSUME NEW n \in 0..Len(u), \A j \in 1..n : u[j] # 0
        PROVE  k + n <= N /\ \A j \in 1..n : u[j] = s[k + j]
    <3>1. CASE n = 0
      <4>1. \A j : ~(j \in 1..n)
        BY <3>1
      <4>2. k + n <= N
        BY <1>1, <3>1
      <4> QED BY <4>1, <4>2
    <3>2. CASE n # 0
      <4>1. 1 \in 1..n /\ n - 1 \in 0..Len(w) /\ 1 \in 1..Len(w) + 1
        BY <2>1, <3>2
      <4>2. c # 0 /\ u[1] = c
        BY <2>1, <2>3, <4>1
      <4>3. m = k + 1 /\ c = s[k + 1]
        BY <1>6, <4>2
      <4>4. ASSUME NEW j \in 1..n - 1 PROVE w[j] # 0 /\ u[j + 1] = w[j]
        <5>1. j + 1 \in 1..n /\ j + 1 \in 1..Len(w) + 1 /\ j + 1 # 1 /\ (j + 1) - 1 = j
          BY <2>1
        <5> QED BY <2>1, <2>3, <5>1
      <4>5. m + (n - 1) <= N /\ \A j \in 1..n - 1 : w[j] = s[m + j]
        BY <2>2, <4>1, <4>4
      <4>6. k + n <= N
        BY <1>1, <4>3, <4>5
      <4>7. ASSUME NEW j \in 1..n PROVE u[j] = s[k + j]
        <5>1. CASE j = 1
          BY <4>2, <4>3, <5>1
        <5>2. CASE j # 1
          <6>1. j - 1 \in 1..n - 1 /\ (j - 1) + 1 = j /\ m + (j - 1) = k + j
            BY <4>3, <5>2
          <6>2. u[j] = w[j - 1] /\ w[j - 1] = s[k + j]
            BY <4>4, <4>5, <6>1
          <6> QED BY <6>2
        <5> QED BY <5>1, <5>2
      <4> QED BY <4>6, <4>7
    <3> QED BY <3>1, <3>2
  <2>4. ASSUME NEW i \in 0..Len(u) - M, \A j \in 1..M : u[i + j] = t[j]
        PROVE  FALSE
    <3>1. CASE i = 0
      <4>1. M \in 0..Len(u) /\ (\A j \in 1..M : i + j = j) /\ 1 \in 1..M /\ 1 \in 1..Len(w) + 1
        BY <1>1, <2>1, <3>1
      <4>2. \A j \in 1..M : u[j] = t[j]
        BY <2>4, <4>1
      <4>3. \A j \in 1..M : u[j] # 0
        BY <1>1, <4>2
      <4>4. k + M <= N /\ \A j \in 1..M : u[j] = s[k + j]
        BY <2>3, <4>1, <4>3
      <4>5. k \in 0..N - M
        BY <1>1, <4>4
      <4>6. k \in found
        BY <1>4, <4>2, <4>4, <4>5
      <4>7. u[1] = c /\ u[1] # 0
        BY <2>1, <4>1, <4>3
      <4> QED BY <1>6, <4>6, <4>7
    <3>2. CASE i # 0
      <4>1. i - 1 \in 0..Len(w) - M
        BY <1>1, <2>1, <3>2
      <4>2. ASSUME NEW j \in 1..M PROVE w[(i - 1) + j] = t[j]
        <5>1. i + j \in 1..Len(w) + 1 /\ i + j # 1 /\ (i + j) - 1 = (i - 1) + j
          BY <1>1, <2>1, <3>2
        <5>2. u[i + j] = w[(i - 1) + j]
          BY <2>1, <5>1
        <5> QED BY <2>4, <5>2
      <4> QED BY <2>2, <4>1, <4>2
    <3> QED BY <3>1, <3>2
  <2>5. clear(k)
    <3>1. \A i : i \notin Occurrences(t, f[k])
      <4> HIDE DEF clear
      <4>1. f[k] \in Seq(Nat)
        BY <1>3
      <4>2. \A i : i \in Occurrences(t, f[k]) =>
                     i \in 0..Len(f[k]) - M /\ \A j \in 1..M : f[k][i + j] = t[j]
        BY <1>5, <4>1
      <4> QED BY <2>4, <4>2 DEF u
    <3> QED BY <3>1 DEF Occurs
  <2>6. starts(k)
    BY <2>3 DEF u
  <2> HIDE DEF starts, clear
  <2> QED BY <2>5, <2>6
<1>7. ASSUME NEW k \in 0..N, \A j \in 0..N : j > k => good(j)
      PROVE  good(k)
  <2> HIDE DEF good
  <2>1. f[k] = (IF k \in found THEN z ELSE <<>>) \o
               (IF k \in found /\ t # <<>> THEN f[k + M]
                ELSE IF k = N THEN <<>> ELSE <<s[k + 1]>> \o f[k + 1])
    BY <1>3
  <2>2. CASE k \in found
    <3>1. f[k] = <<0>> \o f[k + M]
      BY <2>1, <2>2, Zenon
    <3>2. k + M \in 0..N /\ k + M > k
      <4>1. k \in 0..N - M
        BY <1>4, <2>2
      <4> QED BY <1>1, <4>1
    <3> QED BY <1>1, <1>6, <1>7, <3>1, <3>2
  <2>3. CASE k \notin found /\ k # N
    <3>1. f[k] = <<>> \o (<<s[k + 1]>> \o f[k + 1])
      BY <2>1, <2>3, Zenon
    <3>2. k + 1 \in 1..N /\ k + 1 \in 0..N /\ k + 1 > k
      BY <1>1, <2>3
    <3>3. s[k + 1] \in Nat /\ f[k + 1] \in Seq(Nat)
      BY <1>1, <1>3, <3>2
    <3>4. <<s[k + 1]>> \o f[k + 1] \in Seq(Nat)
      BY <3>3, Prepended
    <3>5. <<>> \o (<<s[k + 1]>> \o f[k + 1]) = <<s[k + 1]>> \o f[k + 1]
      BY <3>4, ConcatEmptySeq
    <3>6. f[k] = <<s[k + 1]>> \o f[k + 1]
      BY <3>1, <3>5, Zenon
    <3>7. good(k + 1)
      BY <1>7, <3>2
    <3> QED BY <1>6, <2>3, <3>2, <3>3, <3>6, <3>7
  <2>4. CASE k \notin found /\ k = N
    <3>1. f[k] = <<>> \o <<>>
      BY <2>1, <2>4, Zenon
    <3>2. f[k] = <<>> /\ Len(<<>>) = 0 /\ <<>> \in Seq(Nat)
      BY <3>1
    <3>3. starts(k)
      <4>1. ASSUME NEW n \in 0..Len(f[k]) PROVE k + n <= N /\ \A j \in 1..n : f[k][j] = s[k + j]
        <5>1. n = 0
          BY <3>2
        <5>2. \A j : ~(j \in 1..n)
          BY <5>1
        <5>3. k + n <= N
          BY <1>1, <2>4, <5>1
        <5> QED BY <5>2, <5>3
      <4> QED BY <4>1
    <3>4. clear(k)
      <4>1. \A i : ~(i \in 0..Len(f[k]) - M)
        BY <1>1, <3>2
      <4>2. \A i : i \notin Occurrences(t, f[k])
        <5>1. f[k] \in Seq(Nat)
          BY <3>2
        <5> HIDE DEF clear
        <5> QED BY <1>5, <4>1, <5>1
      <4> QED BY <4>2 DEF Occurs
    <3> HIDE DEF starts, clear
    <3> QED BY <3>3, <3>4 DEF good
  <2> QED BY <2>2, <2>3, <2>4
<1> HIDE DEF good
<1>8. 0 \in S
  <2>1. ASSUME NEW k \in 0..N, k >= N - 0 PROVE good(k)
    <3>1. \A j \in 0..N : ~(j > k)
      BY <1>1, <2>1
    <3> QED BY <1>7, <3>1
  <2>2. 0 \in 0..N
    BY <1>1
  <2> QED BY <2>1, <2>2
<1>9. ASSUME NEW m \in 0..N - 1, m \in S PROVE m + 1 \in S
  <2>1. ASSUME NEW k \in 0..N, k >= N - (m + 1) PROVE good(k)
    <3>1. \A j \in 0..N : j > k => j >= N - m
      BY <1>1, <2>1
    <3>2. \A j \in 0..N : j > k => good(j)
      BY <1>9, <3>1
    <3> QED BY <1>7, <3>2
  <2>2. m + 1 \in 0..N
    BY <1>1
  <2> QED BY <2>1, <2>2
<1>10. good(0)
  <2>1. \A n \in 0..N : n \in S
    <3> HIDE DEF S
    <3> QED BY <1>1, <1>8, <1>9, Induction, Zenon
  <2>2. N \in 0..N /\ 0 \in 0..N /\ 0 >= N - N
    BY <1>1
  <2> QED BY <2>1, <2>2
<1>11. clear(0)
  <2> HIDE DEF starts, clear
  <2> QED BY <1>10 DEF good
<1> QED BY <1>3, <1>11

(* replace and back, in every call.                                            *)
THEOREM ReplaceAlwaysUndone ==
  ASSUME LibrariesFit
  PROVE  Spec => []ReplaceUndone
<1>1. ASSUME CInv PROVE ReplaceUndone
  <2>1. SUFFICES ASSUME NEW v \in Needles, 0 \notin Range(Subject) \cup Range(PyStr(v))
        PROVE LET there == Call("String", "replace", <<v, Text(<<0>>)>>)
                  back == StringCall("replace", <<there, Text(<<0>>), v>>)
              IN /\ Contents(back.val) = Subject
                 /\ PyStr(v) # <<>> => ~Occurs(PyStr(v), Contents(there))
    BY DEF ReplaceUndone
  <2> DEFINE s == Subject
             t == PyStr(v)
             z == Text(<<0>>)
             u == Replaced(s, t, <<0>>)
             there == Call("String", "replace", <<v, z>>)
  <2>2. s \in Seq(Nat) /\ t \in Seq(Nat) /\ PyStr(value) = s /\ PyStr(v) = t
    <3>1. s \in Seq(Nat) /\ t \in Seq(Nat)
      BY <1>1, NeedleTexts DEF CInv
    <3> QED BY <3>1 DEF Subject
  <2>3. PyStr(z) = <<0>>
    BY Texts
  <2>4. 0 \notin Range(s) /\ 0 \notin Range(t)
    BY <2>1
  <2> HIDE DEF s, t, z
  <2>5. there = Text(u)
    <3>1. there = StringCall("replace", <<value>> \o <<v, z>>).val
      BY Called, Zenon
    <3>2. <<value>> \o <<v, z>> = <<value, v, z>>
      BY CallArgs, Zenon
    <3>3. StringCall("replace", <<value, v, z>>) = Ok(Text(StringReplace(value, v, z)))
      BY StringCalls, Zenon
    <3>4. StringReplace(value, v, z) = u
      BY <2>2, <2>3 DEF StringReplace
    <3> HIDE DEF there, u
    <3>5. there = Ok(Text(u)).val
      BY <3>1, <3>2, <3>3, <3>4, Zenon
    <3> QED BY <3>5, Oks, Zenon
  <2>6. StringCall("replace", <<there, z, v>>).val = Text(Replaced(u, <<0>>, t))
    <3> HIDE DEF u, there
    <3>1. StringCall("replace", <<there, z, v>>) = Ok(Text(StringReplace(there, z, v)))
      BY StringCalls, Zenon
    <3>2. PyStr(there) = u
      BY <2>5, Texts, Zenon
    <3>3. StringReplace(there, z, v) = Replaced(u, <<0>>, t)
      BY <2>2, <2>3, <3>2 DEF StringReplace
    <3>4. StringCall("replace", <<there, z, v>>) = Ok(Text(Replaced(u, <<0>>, t)))
      BY <3>1, <3>3, Zenon
    <3> QED BY <3>4, Oks, Zenon
  <2>7. Replaced(u, <<0>>, t) = s
    <3>1. ASSUME NEW c \in Nat, c \notin Range(s), c \notin Range(t)
          PROVE  Replaced(Replaced(s, t, <<c>>), <<c>>, t) = s
      BY <2>2, <3>1, ReplacedBack
    <3>2. 0 \in Nat
      OBVIOUS
    <3> QED BY <2>4, <3>1, <3>2, Zenon
  <2>8. t # <<>> => ~Occurs(t, u)
    BY <2>2, <2>4, NoneLeft
  <2> HIDE DEF u, there
  <2>9. Contents(there) = u /\ Contents(StringCall("replace", <<there, z, v>>).val) = s
    BY <2>5, <2>6, <2>7, Texts, Zenon
  <2> QED BY <2>8, <2>9, Zenon DEF there, s, t, z
<1>2. Spec => []CInv
  BY CallsAlways
<1>3. CInv => ReplaceUndone
  BY <1>1
<1> QED BY <1>2, <1>3, PTL
=============================================================================
