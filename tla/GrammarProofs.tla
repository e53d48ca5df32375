---------------------------- MODULE GrammarProofs ----------------------------
(* The hand-written parser is its reference grammar, for every set of token    *)
(* streams.  In each state Ends(T) says which trees T the parse may still end  *)
(* with: what the method about to start derives, or what was just returned,    *)
(* handed down the waiting methods one by one (Via) until the outermost has T  *)
(* and every token is used; no method may leave a token it could have used     *)
(* itself (GoesOn).  When parseToAST is entered these are the trees the grammar*)
(* derives, no step changes them, and in the end they are the one tree built,  *)
(* or none.  First the table of the grammar, which satisfies its productions;  *)
(* then each production as a step from one token to the next; then the stack   *)
(* of waiting methods; then the arena read as trees; then the actions.         *)
EXTENDS ParsedTrees, AstParserProofs

(* How far above the tokens of its part a level is.                            *)
Height(nt) ==
  CASE nt = "Branch" -> 11 [] nt = "Items" -> 10 [] nt = "Item" -> 9 [] nt = "Expr" -> 8
    [] nt = "Or" -> 7 [] nt = "Ors" -> 6 [] nt = "And" -> 5 [] nt = "Ands" -> 4
    [] nt = "Not" -> 3 [] nt = "Comparison" -> 2 [] nt = "Additive" -> 1 [] nt = "Hops" -> 1
    [] OTHER -> 0

Weight(nt, i, j) == 12 * (j - i + 1) + Height(nt)

(* Tables that agree on the parts lighter than w.                              *)
Agree(t, D, E, w) ==
  \A nt \in Levels : \A i \in 1..Len(t) : \A j \in 0..Len(t) - 1 :
    Weight(nt, i, j) < w => D[<<nt, i, j>>] = E[<<nt, i, j>>]

LEMMA Heights ==
  /\ \A nt \in Levels : Height(nt) \in 0..11
  /\ Height("Items") > Height("Item") /\ Height("Ors") > Height("And")
  /\ Height("Ands") > Height("Not") /\ Height("Hops") > Height("Hop")
  /\ Height("Branch") > Height("Items") /\ Height("Item") > Height("Expr")
  /\ Height("Expr") > Height("Or") /\ Height("Or") > Height("Ors")
  /\ Height("And") > Height("Ands") /\ Height("Not") > Height("Comparison")
  /\ Height("Comparison") > Height("Additive") /\ Height("Additive") > Height("Atom")
BY DEF Height, Levels, ListLevels

(* A part weighs less than another of more tokens, or of as many at a higher   *)
(* level.                                                                      *)
LEMMA Lighter ==
  ASSUME NEW a \in Levels, NEW b \in Levels, NEW i \in Int, NEW j \in Int, NEW k \in Int, NEW l \in Int,
         j - i > l - k \/ (j - i >= l - k /\ Height(a) > Height(b))
  PROVE  Weight(b, k, l) < Weight(a, i, j)
<1>1. Height(a) \in 0..11 /\ Height(b) \in 0..11
  BY Heights
<1> QED BY <1>1 DEF Weight

LEMMA ListsAgree ==
  ASSUME NEW t, Len(t) \in Nat, NEW D, NEW E, NEW nt \in ListLevels,
         NEW i \in 1..Len(t), NEW j \in 0..Len(t) - 1, i <= j, Agree(t, D, E, Weight(nt, i, j))
  PROVE  Lists(t, D, nt, i, j) = Lists(t, E, nt, i, j)
<1>1. /\ nt \in Levels /\ Member(nt) \in Levels /\ Height(nt) > Height(Member(nt))
      /\ i \in Int /\ j \in Int
  BY Heights DEF Member, ListLevels, Levels
<1>2. D[<<Member(nt), i, j>>] = E[<<Member(nt), i, j>>]
  BY <1>1, Lighter DEF Agree
<1>3. ASSUME NEW k \in i + 1..j - 1
      PROVE  /\ D[<<Member(nt), i, k - 1>>] = E[<<Member(nt), i, k - 1>>]
             /\ D[<<nt, k + 1, j>>] = E[<<nt, k + 1, j>>]
  <2>1. k \in Int /\ k - 1 \in 0..Len(t) - 1 /\ k + 1 \in 1..Len(t)
    BY <1>1
  <2>2. Weight(Member(nt), i, k - 1) < Weight(nt, i, j) /\ Weight(nt, k + 1, j) < Weight(nt, i, j)
    BY <1>1, <2>1, Lighter
  <2> QED BY <1>1, <2>1, <2>2 DEF Agree
<1> DEFINE Cut(X, k) == UNION {{<<x>> \o l : l \in X[<<nt, k + 1, j>>]}
                               : x \in X[<<Member(nt), i, k - 1>>]}
           cuts == Splits(t, i, j, {Separator(nt)})
<1>4. \A k \in cuts : Cut(D, k) = Cut(E, k)
  BY <1>3 DEF Splits
<1>5. /\ Lists(t, D, nt, i, j) = {<<x>> : x \in D[<<Member(nt), i, j>>]} \cup UNION {Cut(D, k) : k \in cuts}
      /\ Lists(t, E, nt, i, j) = {<<x>> : x \in E[<<Member(nt), i, j>>]} \cup UNION {Cut(E, k) : k \in cuts}
  BY DEF Lists
<1> HIDE DEF Cut, cuts
<1>6. {Cut(D, k) : k \in cuts} = {Cut(E, k) : k \in cuts}
  BY <1>4
<1> QED BY <1>2, <1>5, <1>6

LEMMA TernariesAgree ==
  ASSUME NEW t, Len(t) \in Nat, NEW at, NEW D, NEW E,
         NEW i \in 1..Len(t), NEW j \in 0..Len(t) - 1, i <= j, Agree(t, D, E, Weight("Expr", i, j))
  PROVE  Ternaries(t, at, D, i, j) = Ternaries(t, at, E, i, j)
<1>1. {"Expr", "Or", "Branch"} \subseteq Levels /\ i \in Int /\ j \in Int
  BY DEF Levels
<1> DEFINE Cut(X, q, s) == {Tree("Ternary", "Question", at[i], <<c, x, y>>) :
                              c \in X[<<"Or", i, q - 1>>], x \in X[<<"Branch", q + 1, s - 1>>],
                              y \in X[<<"Branch", s + 1, j>>]}
           marks == Splits(t, i, j, {"Question"})
           colons(q) == Splits(t, q, j, {"Colon"})
<1>2. ASSUME NEW q \in marks, NEW s \in colons(q) PROVE Cut(D, q, s) = Cut(E, q, s)
  <2>1. /\ q \in i + 1..j - 1 /\ s \in q + 1..j - 1 /\ q \in Int /\ s \in Int
        /\ q - 1 \in 0..Len(t) - 1 /\ s - 1 \in 0..Len(t) - 1
        /\ q + 1 \in 1..Len(t) /\ s + 1 \in 1..Len(t)
    BY <1>1 DEF Splits
  <2>2. /\ Weight("Or", i, q - 1) < Weight("Expr", i, j)
        /\ Weight("Branch", q + 1, s - 1) < Weight("Expr", i, j)
        /\ Weight("Branch", s + 1, j) < Weight("Expr", i, j)
    BY <1>1, <2>1, Lighter
  <2>3. /\ D[<<"Or", i, q - 1>>] = E[<<"Or", i, q - 1>>]
        /\ D[<<"Branch", q + 1, s - 1>>] = E[<<"Branch", q + 1, s - 1>>]
        /\ D[<<"Branch", s + 1, j>>] = E[<<"Branch", s + 1, j>>]
    BY <1>1, <2>1, <2>2 DEF Agree
  <2> QED BY <2>3
<1>3. \A X : Ternaries(t, at, X, i, j) =
              IF t[j + 1] = "Comma" THEN {}
              ELSE UNION {UNION {Cut(X, q, s) : s \in colons(q)} : q \in marks}
  BY DEF Ternaries
<1> HIDE DEF Cut, marks, colons
<1>4. \A q \in marks : {Cut(D, q, s) : s \in colons(q)} = {Cut(E, q, s) : s \in colons(q)}
  BY <1>2
<1> DEFINE Of(X, q) == UNION {Cut(X, q, s) : s \in colons(q)}
<1>5. \A q \in marks : Of(D, q) = Of(E, q)
  BY <1>4
<1>6. \A X : Ternaries(t, at, X, i, j) =
              IF t[j + 1] = "Comma" THEN {} ELSE UNION {Of(X, q) : q \in marks}
  BY <1>3
<1> HIDE DEF Of
<1>7. {Of(D, q) : q \in marks} = {Of(E, q) : q \in marks}
  BY <1>5
<1> QED BY <1>6, <1>7

LEMMA InfixesAgree ==
  ASSUME NEW t, Len(t) \in Nat, NEW at, NEW D, NEW E, NEW kind, NEW ops,
         NEW left \in Levels, NEW right \in Levels, NEW nt \in Levels,
         NEW i \in 1..Len(t), NEW j \in 0..Len(t) - 1, i <= j, Agree(t, D, E, Weight(nt, i, j))
  PROVE  Infixes(t, at, D, kind, ops, left, right, i, j) = Infixes(t, at, E, kind, ops, left, right, i, j)
<1> DEFINE Cut(X, k) == {Tree(kind, t[k], at[k], <<x, y>>) :
                           x \in OperandTrees(X[<<left, i, k - 1>>]),
                           y \in OperandTrees(X[<<right, k + 1, j>>])}
           cuts == Splits(t, i, j, ops)
<1>1. ASSUME NEW k \in cuts PROVE Cut(D, k) = Cut(E, k)
  <2>1. k \in i + 1..j - 1 /\ k \in Int /\ k - 1 \in 0..Len(t) - 1 /\ k + 1 \in 1..Len(t)
        /\ i \in Int /\ j \in Int
    BY DEF Splits
  <2>2. Weight(left, i, k - 1) < Weight(nt, i, j) /\ Weight(right, k + 1, j) < Weight(nt, i, j)
    BY <2>1, Lighter
  <2>3. D[<<left, i, k - 1>>] = E[<<left, i, k - 1>>] /\ D[<<right, k + 1, j>>] = E[<<right, k + 1, j>>]
    BY <2>1, <2>2 DEF Agree
  <2> QED BY <2>3
<1>2. \A X : Infixes(t, at, X, kind, ops, left, right, i, j) = UNION {Cut(X, k) : k \in cuts}
  BY DEF Infixes
<1> HIDE DEF Cut, cuts
<1>3. {Cut(D, k) : k \in cuts} = {Cut(E, k) : k \in cuts}
  BY <1>1
<1> QED BY <1>2, <1>3

LEMMA ShortAgree ==
  ASSUME NEW t, Len(t) \in Nat, NEW D, NEW E, NEW nt \in Levels, NEW other \in Levels,
         NEW i \in 1..Len(t), NEW j \in 0..Len(t) - 1, i <= j, Agree(t, D, E, Weight(nt, i, j)),
         NEW k \in Int, NEW l \in Int, k > i, l <= j, k <= j + 1, l >= i - 1
  PROVE  D[<<other, k, l>>] = E[<<other, k, l>>]
<1>1. k \in 1..Len(t) /\ l \in 0..Len(t) - 1 /\ i \in Int /\ j \in Int
  OBVIOUS
<1>2. Weight(other, k, l) < Weight(nt, i, j)
  BY <1>1, Lighter
<1> QED BY <1>1, <1>2 DEF Agree

LEMMA CallsAgree ==
  ASSUME NEW t, Len(t) \in Nat, NEW at, NEW D, NEW E, NEW kind, NEW nt \in Levels,
         NEW i \in 1..Len(t), NEW j \in 0..Len(t) - 1, i <= j, Agree(t, D, E, Weight(nt, i, j)),
         NEW open \in Int, open > i
  PROVE  Calls(t, at, D, kind, open, i, j) = Calls(t, at, E, kind, open, i, j)
<1>1. "Branch" \in Levels
  BY DEF Levels
<1>2. open < j => D[<<"Branch", open + 1, j - 1>>] = E[<<"Branch", open + 1, j - 1>>]
  BY <1>1, ShortAgree
<1> QED BY <1>2 DEF Calls

LEMMA AtomsAgree ==
  ASSUME NEW t, Len(t) \in Nat, NEW at, NEW D, NEW E, NEW nt \in Levels,
         NEW i \in 1..Len(t), NEW j \in 0..Len(t) - 1, i <= j, Agree(t, D, E, Weight(nt, i, j))
  PROVE  /\ Atoms(t, at, D, i, j) = Atoms(t, at, E, i, j)
         /\ Hops(t, at, D, i, j) = Hops(t, at, E, i, j)
<1>1. {"Branch", "Expr", "Hops"} \subseteq Levels
  BY DEF Levels, ListLevels
<1>2. \A kind : /\ Calls(t, at, D, kind, i + 1, i, j) = Calls(t, at, E, kind, i + 1, i, j)
                /\ Calls(t, at, D, kind, i + 3, i, j) = Calls(t, at, E, kind, i + 3, i, j)
  BY CallsAgree
<1>3. /\ D[<<"Expr", i + 1, j - 1>>] = E[<<"Expr", i + 1, j - 1>>]
      /\ D[<<"Branch", i + 1, j - 1>>] = E[<<"Branch", i + 1, j - 1>>]
  <2>1. i + 1 \in Int /\ j - 1 \in Int /\ i + 1 > i /\ j - 1 <= j /\ i + 1 <= j + 1 /\ j - 1 >= i - 1
    OBVIOUS
  <2> QED BY <1>1, <2>1, ShortAgree
<1>4. i # j => D[<<"Hops", i + 2, j>>] = E[<<"Hops", i + 2, j>>]
  BY <1>1, ShortAgree
<1>5. Arrays(t, at, D, i, j) = Arrays(t, at, E, i, j)
  BY <1>3 DEF Arrays
<1>6. Paths(t, at, D, i, j) = Paths(t, at, E, i, j)
  BY <1>4 DEF Paths
<1>7. Hops(t, at, D, i, j) = Hops(t, at, E, i, j)
  BY <1>2, Zenon DEF Hops
<1> QED BY <1>2, <1>3, <1>5, <1>6, <1>7, Zenon DEF Atoms

(* A part without tokens derives nothing.                                      *)
LEMMA NoTokens ==
  ASSUME NEW t, NEW at, NEW D, NEW nt, NEW i, NEW j, i > j
  PROVE  Derived(t, at, D, nt, i, j) = {}
BY Zenon DEF Derived

(* The production of each level.                                               *)
LEMMA ExprIs ==
  ASSUME NEW t, NEW at, NEW D, NEW i, NEW j, ~(i > j)
  PROVE  Derived(t, at, D, "Expr", i, j) =
           D[<<"Or", i, j>>] \cup Ternaries(t, at, D, i, j)
BY SMT DEF Derived, ListLevels

LEMMA ItemIs ==
  ASSUME NEW t, NEW at, NEW D, NEW i, NEW j, ~(i > j)
  PROVE  Derived(t, at, D, "Item", i, j) =
           OperandTrees(D[<<"Expr", i, j>>])
BY SMT DEF Derived, ListLevels

LEMMA BranchIs ==
  ASSUME NEW t, NEW at, NEW D, NEW i, NEW j, ~(i > j)
  PROVE  Derived(t, at, D, "Branch", i, j) =
           Chains("CommaList", "Comma", at[i], D[<<"Items", i, j>>])
BY SMT DEF Derived, ListLevels

LEMMA OrIs ==
  ASSUME NEW t, NEW at, NEW D, NEW i, NEW j, ~(i > j)
  PROVE  Derived(t, at, D, "Or", i, j) =
           Chains("Logical", "Or", at[i], D[<<"Ors", i, j>>])
BY SMT DEF Derived, ListLevels

LEMMA AndIs ==
  ASSUME NEW t, NEW at, NEW D, NEW i, NEW j, ~(i > j)
  PROVE  Derived(t, at, D, "And", i, j) =
           Chains("Logical", "And", at[i], D[<<"Ands", i, j>>])
BY SMT DEF Derived, ListLevels

LEMMA NotIs ==
  ASSUME NEW t, NEW at, NEW D, NEW i, NEW j, ~(i > j), t[i] = "Not"
  PROVE  Derived(t, at, D, "Not", i, j) = Negations(at[i], D[<<"Not", i + 1, j>>])
BY SMT DEF Derived, ListLevels

LEMMA NoNotIs ==
  ASSUME NEW t, NEW at, NEW D, NEW i, NEW j, ~(i > j), t[i] # "Not"
  PROVE  Derived(t, at, D, "Not", i, j) = D[<<"Comparison", i, j>>]
BY SMT DEF Derived, ListLevels

LEMMA ComparisonIs ==
  ASSUME NEW t, NEW at, NEW D, NEW i, NEW j, ~(i > j)
  PROVE  Derived(t, at, D, "Comparison", i, j) =
           D[<<"Additive", i, j>>] \cup
             Infixes(t, at, D, "Comparison", ComparisonOps, "Additive", "Additive", i, j)
BY SMT DEF Derived, ListLevels

LEMMA AdditiveIs ==
  ASSUME NEW t, NEW at, NEW D, NEW i, NEW j, ~(i > j)
  PROVE  Derived(t, at, D, "Additive", i, j) =
           D[<<"Atom", i, j>>] \cup
             Infixes(t, at, D, "Additive", {"Plus"}, "Additive", "Atom", i, j)
BY SMT DEF Derived, ListLevels

LEMMA AtomIs ==
  ASSUME NEW t, NEW at, NEW D, NEW i, NEW j, ~(i > j)
  PROVE  Derived(t, at, D, "Atom", i, j) =
           Atoms(t, at, D, i, j)
BY SMT DEF Derived, ListLevels

LEMMA HopIs ==
  ASSUME NEW t, NEW at, NEW D, NEW i, NEW j, ~(i > j)
  PROVE  Derived(t, at, D, "Hop", i, j) =
           Hops(t, at, D, i, j)
BY SMT DEF Derived, ListLevels

LEMMA ListIs ==
  ASSUME NEW t, NEW at, NEW D, NEW nt \in ListLevels, NEW i, NEW j, ~(i > j)
  PROVE  Derived(t, at, D, nt, i, j) = Lists(t, D, nt, i, j)
BY SMT DEF Derived, ListLevels

LEMMA DerivedAgrees ==
  ASSUME NEW t, Len(t) \in Nat, NEW at, NEW D, NEW E, NEW nt \in Levels,
         NEW i \in 1..Len(t), NEW j \in 0..Len(t) - 1, Agree(t, D, E, Weight(nt, i, j))
  PROVE  Derived(t, at, D, nt, i, j) = Derived(t, at, E, nt, i, j)
<1>1. SUFFICES ASSUME i <= j PROVE Derived(t, at, D, nt, i, j) = Derived(t, at, E, nt, i, j)
  <2>1. (i <= j \/ i > j) /\ i \in Int /\ j \in Int
    OBVIOUS
  <2> QED BY <2>1, NoTokens
<1>0. ~(i > j) /\ i \in Int /\ j \in Int /\ i + 1 \in Int /\ j \in Int /\ i + 1 > i /\ j <= j /\ i + 1 <= j + 1 /\ j >= i - 1
  BY <1>1
<1>2. ASSUME NEW other \in Levels, Height(nt) > Height(other)
      PROVE  D[<<other, i, j>>] = E[<<other, i, j>>]
  <2>1. Weight(other, i, j) < Weight(nt, i, j)
    BY <1>2, Lighter
  <2> QED BY <2>1 DEF Agree
<1>3. nt \in ListLevels => Lists(t, D, nt, i, j) = Lists(t, E, nt, i, j)
  BY <1>1, ListsAgree
<1>4. nt = "Expr" => Ternaries(t, at, D, i, j) = Ternaries(t, at, E, i, j)
  BY <1>1, TernariesAgree
<1>5. \A kind, ops : \A left, right \in Levels :
        Infixes(t, at, D, kind, ops, left, right, i, j) = Infixes(t, at, E, kind, ops, left, right, i, j)
  BY <1>1, InfixesAgree
<1>6. /\ Atoms(t, at, D, i, j) = Atoms(t, at, E, i, j)
      /\ Hops(t, at, D, i, j) = Hops(t, at, E, i, j)
  BY <1>1, AtomsAgree
<1>8. {"Expr", "Or", "Items", "Ors", "Ands", "Not", "Comparison", "Additive", "Atom"} \subseteq Levels
  BY DEF Levels, ListLevels
<1>7. D[<<"Not", i + 1, j>>] = E[<<"Not", i + 1, j>>]
  BY <1>0, <1>1, <1>8, ShortAgree
<1>9. CASE nt = "Expr"
  BY <1>0, <1>2, <1>4, <1>8, <1>9, Heights, ExprIs
<1>10. CASE nt = "Item"
  <2>1. D[<<"Expr", i, j>>] = E[<<"Expr", i, j>>]
    BY <1>2, <1>8, <1>10, Heights
  <2> QED BY <1>0, <1>10, <2>1, ItemIs
<1>11. CASE nt = "Branch"
  <2>1. D[<<"Items", i, j>>] = E[<<"Items", i, j>>]
    BY <1>2, <1>8, <1>11, Heights
  <2> QED BY <1>0, <1>11, <2>1, BranchIs
<1>12. CASE nt = "Or"
  <2>1. D[<<"Ors", i, j>>] = E[<<"Ors", i, j>>]
    BY <1>2, <1>8, <1>12, Heights
  <2> QED BY <1>0, <1>12, <2>1, OrIs
<1>13. CASE nt = "And"
  <2>1. D[<<"Ands", i, j>>] = E[<<"Ands", i, j>>]
    BY <1>2, <1>8, <1>13, Heights
  <2> QED BY <1>0, <1>13, <2>1, AndIs
<1>14. CASE nt \in ListLevels
  BY <1>0, <1>3, <1>14, ListIs
<1>15. CASE nt = "Not"
  <2>1. D[<<"Comparison", i, j>>] = E[<<"Comparison", i, j>>]
    BY <1>2, <1>8, <1>15, Heights
  <2>2. CASE t[i] = "Not"
    BY <1>0, <1>7, <1>15, <2>2, NotIs
  <2>3. CASE t[i] # "Not"
    BY <1>0, <1>15, <2>1, <2>3, NoNotIs
  <2> QED BY <2>2, <2>3
<1>16. CASE nt = "Comparison"
  <2>1. D[<<"Additive", i, j>>] = E[<<"Additive", i, j>>]
    BY <1>2, <1>8, <1>16, Heights
  <2>2. Infixes(t, at, D, "Comparison", ComparisonOps, "Additive", "Additive", i, j)
          = Infixes(t, at, E, "Comparison", ComparisonOps, "Additive", "Additive", i, j)
    BY <1>5, <1>8
  <2> QED BY <1>0, <1>16, <2>1, <2>2, ComparisonIs
<1>17. CASE nt = "Additive"
  <2>1. D[<<"Atom", i, j>>] = E[<<"Atom", i, j>>]
    BY <1>2, <1>8, <1>17, Heights
  <2>2. Infixes(t, at, D, "Additive", {"Plus"}, "Additive", "Atom", i, j)
          = Infixes(t, at, E, "Additive", {"Plus"}, "Additive", "Atom", i, j)
    BY <1>5, <1>8
  <2> QED BY <1>0, <1>17, <2>1, <2>2, AdditiveIs
<1>18. CASE nt = "Atom"
  BY <1>0, <1>6, <1>18, AtomIs
<1>19. CASE nt = "Hop"
  BY <1>0, <1>6, <1>19, HopIs
<1> QED BY <1>9, <1>10, <1>11, <1>12, <1>13, <1>14, <1>15, <1>16, <1>17, <1>18, <1>19 DEF Levels

(* What each part derives, then, is what its production says.                  *)
IsTable(t, at, D) ==
  \A nt \in Levels : \A i \in 1..Len(t) : \A j \in 0..Len(t) - 1 :
    D[<<nt, i, j>>] = Derived(t, at, D, nt, i, j)

(* The table of the grammar exists, and at every part of every stream it is    *)
(* what its productions derive from less: the recursion of Trees is sound, so  *)
(* what the parser is compared with is what Grammar states.                    *)
THEOREM TreesAt ==
  ASSUME NEW t, Len(t) \in Nat, NEW at
  PROVE  IsTable(t, at, Trees(t, at))
<1> DEFINE n == Len(t)
           top == 12 * n + 24
           New(f) == [p \in Parts(t) |-> Derived(t, at, f, p[1], p[2], p[3])]
           Solves1(f, m) == \A nt \in Levels : \A i \in 1..n : \A j \in 0..n - 1 :
                              Weight(nt, i, j) < m => f[<<nt, i, j>>] = Derived(t, at, f, nt, i, j)
           Solved == {m \in 0..top : \E f : Solves1(f, m)}
<1>1. \A f : \A nt \in Levels : \A i \in 1..n : \A j \in 0..n - 1 :
        New(f)[<<nt, i, j>>] = Derived(t, at, f, nt, i, j)
  BY DEF Parts
<1>2. \A nt \in Levels : \A i \in 1..n : \A j \in 0..n - 1 :
        /\ Weight(nt, i, j) \in Int /\ Weight(nt, i, j) < top
        /\ Weight(nt, i, j) < 0 => i > j
  BY Heights DEF Weight
<1> HIDE DEF New
<1>3. 0 \in Solved
  <2>1. Solves1([p \in Parts(t) |-> {}], 0)
    <3>1. ASSUME NEW nt \in Levels, NEW i \in 1..n, NEW j \in 0..n - 1, Weight(nt, i, j) < 0
          PROVE  [p \in Parts(t) |-> {}][<<nt, i, j>>] = {}
      BY DEF Parts
    <3> QED BY <1>2, <3>1, NoTokens
  <2>2. 0 \in 0..top
    OBVIOUS
  <2> QED BY <2>1, <2>2
<1>4. ASSUME NEW f, NEW m \in Int, Solves1(f, m)
      PROVE  Solves1(New(f), m + 1)
  <2> SUFFICES ASSUME NEW nt \in Levels, NEW i \in 1..n, NEW j \in 0..n - 1,
                      Weight(nt, i, j) < m + 1
               PROVE  New(f)[<<nt, i, j>>] = Derived(t, at, New(f), nt, i, j)
    OBVIOUS
  <2>1. ASSUME NEW a \in Levels, NEW k \in 1..n, NEW l \in 0..n - 1,
               Weight(a, k, l) < Weight(nt, i, j)
        PROVE  f[<<a, k, l>>] = New(f)[<<a, k, l>>]
    <3>1. Weight(a, k, l) < m
      <4>1. Weight(a, k, l) \in Int /\ Weight(nt, i, j) \in Int
        BY <1>2
      <4> QED BY <2>1, <4>1
    <3> QED BY <1>1, <1>4, <3>1
  <2>2. Agree(t, f, New(f), Weight(nt, i, j))
    BY <2>1 DEF Agree
  <2> QED BY <1>1, <2>2, DerivedAgrees
<1>5. top \in Solved
  <2>1. ASSUME NEW m \in 0..top - 1, m \in Solved PROVE m + 1 \in Solved
    <3>1. PICK f : Solves1(f, m)
      BY <2>1
    <3>2. Solves1(New(f), m + 1)
      BY <1>4, <3>1
    <3>3. m + 1 \in 0..top
      OBVIOUS
    <3> HIDE DEF Solves1
    <3> QED BY <3>2, <3>3
  <2>2. top \in Nat
    OBVIOUS
  <2> HIDE DEF Solved, top
  <2>3. \A m \in 0..top : m \in Solved
    BY <1>3, <2>1, <2>2, Induction, Zenon
  <2> QED BY <2>2, <2>3
<1>6. PICK f : Solves1(f, top)
  BY <1>5
<1>7. Solves1(New(f), top)
  <2>1. Solves1(New(f), top + 1)
    BY <1>4, <1>6
  <2>2. \A nt \in Levels : \A i \in 1..n : \A j \in 0..n - 1 : Weight(nt, i, j) < top + 1
    BY <1>2
  <2> QED BY <2>1, <2>2
<1>8. \A nt \in Levels : \A i \in 1..n : \A j \in 0..n - 1 :
         New(f)[<<nt, i, j>>] = Derived(t, at, New(f), nt, i, j)
  BY <1>2, <1>7
<1>9. New(f) = [p \in Parts(t) |-> Derived(t, at, New(f), p[1], p[2], p[3])]
  <2>1. \A p \in Parts(t) : Derived(t, at, f, p[1], p[2], p[3]) = Derived(t, at, New(f), p[1], p[2], p[3])
    <3>1. ASSUME NEW p \in Parts(t) PROVE p[1] \in Levels /\ p[2] \in 1..n /\ p[3] \in 0..n - 1
      BY DEF Parts
    <3> HIDE DEF Solves1
    <3>3. ASSUME NEW p \in Parts(t)
          PROVE  Derived(t, at, f, p[1], p[2], p[3]) = Derived(t, at, New(f), p[1], p[2], p[3])
      <4>1. New(f)[<<p[1], p[2], p[3]>>] = Derived(t, at, f, p[1], p[2], p[3])
        BY <1>1, <3>1
      <4>2. New(f)[<<p[1], p[2], p[3]>>] = Derived(t, at, New(f), p[1], p[2], p[3])
        BY <1>8, <3>1
      <4> QED BY <4>1, <4>2
    <3> QED BY <3>3
  <2> QED BY <2>1 DEF New
<1>10. Trees(t, at) = CHOOSE D : D = [p \in Parts(t) |-> Derived(t, at, D, p[1], p[2], p[3])]
  BY DEF Trees
<1>11. Trees(t, at) = [p \in Parts(t) |-> Derived(t, at, Trees(t, at), p[1], p[2], p[3])]
  BY <1>9, <1>10
<1>12. ASSUME NEW nt \in Levels, NEW i \in 1..n, NEW j \in 0..n - 1
       PROVE  Trees(t, at)[<<nt, i, j>>] = Derived(t, at, Trees(t, at), nt, i, j)
  <2>1. <<nt, i, j>> \in Parts(t)
    BY DEF Parts
  <2> QED BY <1>11, <2>1
<1> QED BY <1>12 DEF IsTable

-----------------------------------------------------------------------------
(* A stream and the table of what its parts derive, tokens in their places.    *)
Numbers(t) == [i \in 1..Len(t) |-> i]
Reading(t, D) == StreamFits(t) /\ IsTable(t, Numbers(t), D)

LEMMA StreamShape ==
  ASSUME NEW t, NEW D, Reading(t, D)
  PROVE  /\ Len(t) \in Nat \ {0}
         /\ \A i \in 1..Len(t) : t[i] = "EOF" <=> i = Len(t)
         /\ \A i \in 1..Len(t) : Numbers(t)[i] = i
         /\ \A j \in 0..Len(t) - 1 : j + 1 \in 1..Len(t) /\ (t[j + 1] # "EOF" => j + 2 \in 1..Len(t))
<1>1. Len(t) \in Nat \ {0} /\ \A i \in 1..Len(t) : t[i] = "EOF" <=> i = Len(t)
  BY LenProperties, EmptySeq DEF Reading, StreamFits
<1>2. \A j \in 0..Len(t) - 1 : j + 1 \in 1..Len(t) /\ (t[j + 1] # "EOF" => j + 2 \in 1..Len(t))
  <2>1. ASSUME NEW j \in 0..Len(t) - 1
        PROVE  j + 1 \in 1..Len(t) /\ (t[j + 1] # "EOF" => j + 2 \in 1..Len(t))
    <3>1. j + 1 \in 1..Len(t) /\ (j + 1 # Len(t) => j + 2 \in 1..Len(t))
      BY <1>1
    <3> QED BY <1>1, <3>1
  <2> QED BY <2>1
<1> QED BY <1>1, <1>2 DEF Numbers

(* What a part derives has a token at least.                                   *)
LEMMA Inside ==
  ASSUME NEW t, NEW D, Reading(t, D), NEW nt \in Levels, NEW i \in 1..Len(t), NEW j \in 0..Len(t) - 1,
         NEW x \in D[<<nt, i, j>>]
  PROVE  i <= j /\ i \in Int /\ j \in Int
<1>1. D[<<nt, i, j>>] = Derived(t, Numbers(t), D, nt, i, j)
  BY DEF Reading, IsTable
<1>2. i > j => D[<<nt, i, j>>] = {}
  BY <1>1, NoTokens
<1>3. ~(i > j)
  BY <1>2
<1> QED BY <1>3

(* What the productions' sets of sets hold.                                    *)
IsList(t, D, L, i, m, l) ==
  \/ \E x \in D[<<Member(L), i, m>>] : l = <<x>>
  \/ \E k \in Splits(t, i, m, {Separator(L)}) : \E x \in D[<<Member(L), i, k - 1>>] :
       \E r \in D[<<L, k + 1, m>>] : l = <<x>> \o r

IsTernary(t, here, D, i, m, y) ==
  /\ t[m + 1] # "Comma"
  /\ \E q \in Splits(t, i, m, {"Question"}) : \E s \in Splits(t, q, m, {"Colon"}) :
       \E c \in D[<<"Or", i, q - 1>>] : \E a \in D[<<"Branch", q + 1, s - 1>>] :
       \E b \in D[<<"Branch", s + 1, m>>] : y = Tree("Ternary", "Question", here, <<c, a, b>>)

IsInfix(t, at, D, kind, ops, left, right, i, m, y) ==
  \E k \in Splits(t, i, m, ops) :
  \E a \in OperandTrees(D[<<left, i, k - 1>>]) : \E b \in OperandTrees(D[<<right, k + 1, m>>]) :
    y = Tree(kind, t[k], at[k], <<a, b>>)

LEMMA ListMember ==
  ASSUME NEW t, NEW D, NEW L, NEW i, NEW m, NEW l
  PROVE  l \in Lists(t, D, L, i, m) <=> IsList(t, D, L, i, m, l)
<1> DEFINE cuts == Splits(t, i, m, {Separator(L)})
           Firsts(k) == D[<<Member(L), i, k - 1>>]
           Rests(k) == D[<<L, k + 1, m>>]
           With(x, k) == {<<x>> \o r : r \in Rests(k)}
           Cut(k) == UNION {With(x, k) : x \in Firsts(k)}
<1>1. Lists(t, D, L, i, m) = {<<x>> : x \in D[<<Member(L), i, m>>]} \cup UNION {Cut(k) : k \in cuts}
  BY DEF Lists
<1> HIDE DEF cuts
<1>2. \A k : l \in Cut(k) <=> \E x \in Firsts(k) : \E r \in Rests(k) : l = <<x>> \o r
  <2> HIDE DEF Firsts, Rests
  <2>1. \A x, k : l \in With(x, k) <=> \E r \in Rests(k) : l = <<x>> \o r
    OBVIOUS
  <2> HIDE DEF With
  <2>2. \A k : l \in Cut(k) <=> \E x \in Firsts(k) : l \in With(x, k)
    OBVIOUS
  <2> QED BY <2>1, <2>2
<1> HIDE DEF Cut
<1>3. l \in UNION {Cut(k) : k \in cuts} <=> \E k \in cuts : l \in Cut(k)
  OBVIOUS
<1>4. l \in {<<x>> : x \in D[<<Member(L), i, m>>]} <=> \E x \in D[<<Member(L), i, m>>] : l = <<x>>
  OBVIOUS
<1> QED BY <1>1, <1>2, <1>3, <1>4 DEF cuts, IsList

LEMMA TernaryMember ==
  ASSUME NEW t, NEW at, NEW D, NEW i, NEW m, NEW y
  PROVE  y \in Ternaries(t, at, D, i, m) <=> IsTernary(t, at[i], D, i, m, y)
<1> DEFINE marks == Splits(t, i, m, {"Question"})
           colons(q) == Splits(t, q, m, {"Colon"})
           Cs(q) == D[<<"Or", i, q - 1>>]
           As(q, s) == D[<<"Branch", q + 1, s - 1>>]
           Bs(s) == D[<<"Branch", s + 1, m>>]
           Cut(q, s) == {Tree("Ternary", "Question", at[i], <<c, a, b>>) : c \in Cs(q), a \in As(q, s), b \in Bs(s)}
           Of(q) == UNION {Cut(q, s) : s \in colons(q)}
<1>1. Ternaries(t, at, D, i, m) =
        IF t[m + 1] = "Comma" THEN {} ELSE UNION {Of(q) : q \in marks}
  BY DEF Ternaries
<1> HIDE DEF marks, colons, Cs, As, Bs
<1>2. \A q, s : y \in Cut(q, s) <=>
         \E c \in Cs(q) : \E a \in As(q, s) : \E b \in Bs(s) : y = Tree("Ternary", "Question", at[i], <<c, a, b>>)
  OBVIOUS
<1> HIDE DEF Cut
<1>3. \A q : y \in Of(q) <=> \E s \in colons(q) : y \in Cut(q, s)
  OBVIOUS
<1> HIDE DEF Of
<1>4. y \in UNION {Of(q) : q \in marks} <=> \E q \in marks : y \in Of(q)
  OBVIOUS
<1>5. y \in Ternaries(t, at, D, i, m) <=>
        t[m + 1] # "Comma" /\ \E q \in marks : \E s \in colons(q) : y \in Cut(q, s)
  BY <1>1, <1>3, <1>4
<1>6. (\E q \in marks : \E s \in colons(q) : y \in Cut(q, s)) <=>
      (\E q \in marks : \E s \in colons(q) :
         \E c \in Cs(q) : \E a \in As(q, s) : \E b \in Bs(s) : y = Tree("Ternary", "Question", at[i], <<c, a, b>>))
  BY <1>2
<1> QED BY <1>5, <1>6 DEF marks, colons, Cs, As, Bs, IsTernary

LEMMA InfixMember ==
  ASSUME NEW t, NEW at, NEW D, NEW kind, NEW ops, NEW left, NEW right, NEW i, NEW m, NEW y
  PROVE  y \in Infixes(t, at, D, kind, ops, left, right, i, m)
         <=> IsInfix(t, at, D, kind, ops, left, right, i, m, y)
<1> DEFINE cuts == Splits(t, i, m, ops)
           As(k) == OperandTrees(D[<<left, i, k - 1>>])
           Bs(k) == OperandTrees(D[<<right, k + 1, m>>])
           Cut(k) == {Tree(kind, t[k], at[k], <<a, b>>) : a \in As(k), b \in Bs(k)}
<1>1. Infixes(t, at, D, kind, ops, left, right, i, m) = UNION {Cut(k) : k \in cuts}
  BY DEF Infixes
<1> HIDE DEF cuts, As, Bs
<1>2. \A k : y \in Cut(k) <=> \E a \in As(k) : \E b \in Bs(k) : y = Tree(kind, t[k], at[k], <<a, b>>)
  OBVIOUS
<1> HIDE DEF Cut
<1>3. y \in UNION {Cut(k) : k \in cuts} <=> \E k \in cuts : y \in Cut(k)
  OBVIOUS
<1> QED BY <1>1, <1>2, <1>3 DEF cuts, As, Bs, IsInfix

(* A list is its first member and, behind a separator, the rest.               *)
Begun(t, D, L, i, m, l) ==
  \E j \in 0..Len(t) - 1 : \E x \in D[<<Member(L), i, j>>] :
    \/ m = j /\ l = <<x>>
    \/ t[j + 1] = Separator(L) /\ \E r \in D[<<L, j + 2, m>>] : l = <<x>> \o r

LEMMA ListFrom ==
  ASSUME NEW t, NEW D, Reading(t, D), NEW L \in ListLevels, NEW i \in 1..Len(t), NEW m \in 0..Len(t) - 1, NEW l
  PROVE  l \in D[<<L, i, m>>] <=> Begun(t, D, L, i, m, l)
<1> DEFINE n == Len(t)
<1>0. /\ n \in Nat \ {0} /\ L \in Levels /\ Member(L) \in Levels /\ Separator(L) # "EOF"
      /\ i \in Int /\ m \in Int
  BY StreamShape DEF Levels, ListLevels, Member, Separator
<1>1. D[<<L, i, m>>] = Derived(t, Numbers(t), D, L, i, m)
  BY <1>0 DEF Reading, IsTable
<1>2. CASE i > m
  <2>1. D[<<L, i, m>>] = {}
    BY <1>1, <1>2, NoTokens
  <2>2. ASSUME NEW j \in 0..n - 1, NEW x \in D[<<Member(L), i, j>>],
               t[j + 1] = Separator(L), NEW r \in D[<<L, j + 2, m>>]
        PROVE  FALSE
    <3>1. j + 2 \in 1..n /\ j \in Int
      BY <1>0, <2>2, StreamShape
    <3>2. i <= j /\ j + 2 <= m
      BY <1>0, <2>2, <3>1, Inside
    <3> QED BY <1>0, <1>2, <3>1, <3>2
  <2>3. ASSUME NEW x \in D[<<Member(L), i, m>>] PROVE FALSE
    BY <1>0, <1>2, Inside
  <2> QED BY <2>1, <2>2, <2>3 DEF Begun
<1>3. CASE ~(i > m)
  <2>1. D[<<L, i, m>>] = Lists(t, D, L, i, m)
    BY <1>1, <1>3, ListIs
  <2>2. l \in D[<<L, i, m>>] <=>
          \/ \E x \in D[<<Member(L), i, m>>] : l = <<x>>
          \/ \E k \in Splits(t, i, m, {Separator(L)}) : \E x \in D[<<Member(L), i, k - 1>>] :
               \E r \in D[<<L, k + 1, m>>] : l = <<x>> \o r
    <3>1. l \in D[<<L, i, m>>] <=> IsList(t, D, L, i, m, l)
      BY <2>1, ListMember
    <3> QED BY <3>1 DEF IsList
  <2>3. ASSUME NEW k \in Splits(t, i, m, {Separator(L)})
        PROVE  k - 1 \in 0..n - 1 /\ k \in Int /\ (k - 1) + 1 = k /\ (k - 1) + 2 = k + 1 /\ t[k] = Separator(L)
    BY <1>0 DEF Splits
  <2>4. ASSUME NEW k \in Splits(t, i, m, {Separator(L)}), NEW x \in D[<<Member(L), i, k - 1>>],
               NEW r \in D[<<L, k + 1, m>>], l = <<x>> \o r
        PROVE  \E j \in 0..n - 1 : \E z \in D[<<Member(L), i, j>>] :
                 t[j + 1] = Separator(L) /\ \E s \in D[<<L, j + 2, m>>] : l = <<z>> \o s
    <3>1. k - 1 \in 0..n - 1 /\ t[(k - 1) + 1] = Separator(L) /\ r \in D[<<L, (k - 1) + 2, m>>]
      BY <2>3
    <3> QED BY <2>4, <3>1
  <2>5. ASSUME NEW j \in 0..n - 1, NEW x \in D[<<Member(L), i, j>>], t[j + 1] = Separator(L),
               NEW r \in D[<<L, j + 2, m>>], l = <<x>> \o r
        PROVE  l \in D[<<L, i, m>>]
    <3>1. j + 2 \in 1..n /\ j \in Int
      BY <1>0, <2>5, StreamShape
    <3>2. i <= j /\ j + 2 <= m
      BY <1>0, <2>5, <3>1, Inside
    <3>3. j + 1 \in Splits(t, i, m, {Separator(L)})
      BY <1>0, <2>5, <3>1, <3>2 DEF Splits
    <3>4. (j + 1) - 1 = j /\ (j + 1) + 1 = j + 2
      BY <3>1
    <3>5. x \in D[<<Member(L), i, (j + 1) - 1>>] /\ r \in D[<<L, (j + 1) + 1, m>>]
      BY <2>5, <3>4
    <3> QED BY <2>2, <2>5, <3>3, <3>5
  <2> QED BY <2>2, <2>4, <2>5 DEF Begun
<1> QED BY <1>2, <1>3, <1>0

-----------------------------------------------------------------------------
(* How a call may go on.  A callee has found tree x in the tokens up to j; the *)
(* method that waits for it in frame f, whose kids are trees, may then find y  *)
(* in the tokens up to m.                                                      *)
IsOperand(x) == x.kind \notin ConditionKinds

ListOf(fn) == CASE fn = "Branch" -> "Items" [] fn = "Or" -> "Ors" [] fn = "And" -> "Ands"
Made(fn, at, l) == Chain(IF fn = "Branch" THEN "CommaList" ELSE "Logical", Separator(ListOf(fn)), at, l)
Fine(fn, x) == fn = "Branch" => IsOperand(x)

(* A chain that goes on at token i.                                            *)
Grown(t, D, fn, at, kids, i, y, m) == \E r \in D[<<ListOf(fn), i, m>>] : y = Made(fn, at, kids \o r)

ChainVia(t, D, fn, kids, at, x, j, y, m) ==
  /\ Fine(fn, x)
  /\ \/ m = j /\ y = Made(fn, at, Append(kids, x))
     \/ t[j + 1] = Separator(ListOf(fn)) /\ Grown(t, D, fn, at, Append(kids, x), j + 2, y, m)

IsChoice(t, D, at, x, j, y, m) ==
  /\ t[j + 1] = "Question" /\ t[m + 1] # "Comma"
  /\ \E s \in Splits(t, j + 1, m, {"Colon"}) : \E a \in D[<<"Branch", j + 2, s - 1>>] :
       \E b \in D[<<"Branch", s + 1, m>>] : y = Tree("Ternary", "Question", at, <<x, a, b>>)

ExprVia(t, D, f, x, j, y, m) == (m = j /\ y = x) \/ IsChoice(t, D, f.at, x, j, y, m)

TrueVia(t, D, f, x, j, y, m) ==
  /\ t[j + 1] = "Colon" /\ t[m + 1] # "Comma"
  /\ \E b \in D[<<"Branch", j + 2, m>>] :
       y = Tree("Ternary", "Question", f.at, Append(Append(f.kids, x), b))

FalseVia(t, f, x, j, y, m) ==
  m = j /\ t[j + 1] # "Comma" /\ y = Tree("Ternary", "Question", f.at, Append(f.kids, x))

NotVia(f, x, j, y, m) == m = j /\ y = Tree("Not", "Not", f.at, <<x>>)

IsRight(t, D, kind, op, nt, x, j, y, m) ==
  /\ t[j + 1] = op /\ IsOperand(x)
  /\ \E b \in D[<<nt, j + 2, m>>] : IsOperand(b) /\ y = Tree(kind, op, j + 1, <<x, b>>)

IsCompared(t, D, x, j, y, m) ==
  \E op \in ComparisonOps : IsRight(t, D, "Comparison", op, "Additive", x, j, y, m)

ComparisonVia(t, D, f, x, j, y, m) ==
  IF f.kids = <<>>
    THEN (m = j /\ y = x) \/ IsCompared(t, D, x, j, y, m)
    ELSE m = j /\ IsOperand(x) /\ y = Tree("Comparison", t[f.at], f.at, Append(f.kids, x))

(* A sum grows from the left, term by term.                                    *)
IsTerm(t, D, x, j, y, m) == IsRight(t, D, "Additive", "Plus", "Atom", x, j, y, m)

SumSteps(t, D, N, X, J) ==
  \A k \in 0..N - 1 :
    J[k] \in 0..Len(t) - 1 /\ J[k + 1] \in 0..Len(t) - 1 /\ IsTerm(t, D, X[k], J[k], X[k + 1], J[k + 1])

SumTail(t, D, x, j, y, m) ==
  \E N \in Nat : \E X, J :
    X[0] = x /\ J[0] = j /\ X[N] = y /\ J[N] = m /\ SumSteps(t, D, N, X, J)

AdditiveVia(t, D, f, x, j, y, m) ==
  IF f.kids = <<>> THEN SumTail(t, D, x, j, y, m)
  ELSE IsOperand(x) /\ SumTail(t, D, Tree("Additive", "Plus", f.at, Append(f.kids, x)), j, y, m)

Closes(t, c, j, m) == t[j + 1] = c /\ m = j + 1

ArrayOf(at, x) ==
  Tree("ArrayLit", "LBrace", at, IF x.kind = "CommaList" THEN x.kids ELSE <<x>>)

PathTail(t, D, kids, at, e, y, m) ==
  \/ m = e /\ y = Tree("PathExpr", t[at], at, kids)
  \/ t[e + 1] = "Dot" /\ \E r \in D[<<"Hops", e + 2, m>>] : y = Tree("PathExpr", t[at], at, kids \o r)

Via(t, D, f, x, j, y, m) ==
  CASE f.fn = "Expr" -> ExprVia(t, D, f, x, j, y, m)
    [] f.fn = "TrueBranch" -> TrueVia(t, D, f, x, j, y, m)
    [] f.fn = "FalseBranch" -> FalseVia(t, f, x, j, y, m)
    [] f.fn \in {"Branch", "Or", "And"} -> ChainVia(t, D, f.fn, f.kids, f.at, x, j, y, m)
    [] f.fn = "Not" -> NotVia(f, x, j, y, m)
    [] f.fn = "Comparison" -> ComparisonVia(t, D, f, x, j, y, m)
    [] f.fn = "Additive" -> AdditiveVia(t, D, f, x, j, y, m)
    [] f.fn = "Paren" -> Closes(t, "RParen", j, m) /\ y = x
    [] f.fn = "Array" -> Closes(t, "RBrace", j, m) /\ y = ArrayOf(f.at, x)
    [] f.fn = "ClassCall" -> Closes(t, "RParen", j, m) /\ y = Tree("ClassCall", t[f.at], f.at, <<x>>)
    [] f.fn = "MemberOf" -> Closes(t, "RParen", j, m) /\ y = Tree("MemberOfExpr", t[f.at], f.at, <<x>>)
    [] f.fn = "Path" -> PathTail(t, D, Append(f.kids, x), f.at, j, y, m)

LEMMA ViaIs ==
  ASSUME NEW t, NEW D, NEW f, NEW x, NEW j, NEW y, NEW m
  PROVE  /\ f.fn = "Expr" => (Via(t, D, f, x, j, y, m) <=> ExprVia(t, D, f, x, j, y, m))
         /\ f.fn = "TrueBranch" => (Via(t, D, f, x, j, y, m) <=> TrueVia(t, D, f, x, j, y, m))
         /\ f.fn = "FalseBranch" => (Via(t, D, f, x, j, y, m) <=> FalseVia(t, f, x, j, y, m))
         /\ f.fn \in {"Branch", "Or", "And"} =>
              (Via(t, D, f, x, j, y, m) <=> ChainVia(t, D, f.fn, f.kids, f.at, x, j, y, m))
         /\ f.fn = "Not" => (Via(t, D, f, x, j, y, m) <=> NotVia(f, x, j, y, m))
         /\ f.fn = "Comparison" => (Via(t, D, f, x, j, y, m) <=> ComparisonVia(t, D, f, x, j, y, m))
         /\ f.fn = "Additive" => (Via(t, D, f, x, j, y, m) <=> AdditiveVia(t, D, f, x, j, y, m))
         /\ f.fn = "Paren" => (Via(t, D, f, x, j, y, m) <=> Closes(t, "RParen", j, m) /\ y = x)
         /\ f.fn = "Array" =>
              (Via(t, D, f, x, j, y, m) <=> Closes(t, "RBrace", j, m) /\ y = ArrayOf(f.at, x))
         /\ f.fn = "ClassCall" =>
              (Via(t, D, f, x, j, y, m) <=>
                 Closes(t, "RParen", j, m) /\ y = Tree("ClassCall", t[f.at], f.at, <<x>>))
         /\ f.fn = "MemberOf" =>
              (Via(t, D, f, x, j, y, m) <=>
                 Closes(t, "RParen", j, m) /\ y = Tree("MemberOfExpr", t[f.at], f.at, <<x>>))
         /\ f.fn = "Path" => (Via(t, D, f, x, j, y, m) <=> PathTail(t, D, Append(f.kids, x), f.at, j, y, m))
BY DEF Via

(* What a frame gets by having nt read from token i on.                        *)
Found(t, D, nt, i, f, y, m) ==
  \E j \in 0..Len(t) - 1 : \E x \in D[<<nt, i, j>>] : Via(t, D, f, x, j, y, m)

LEMMA Production ==
  ASSUME NEW t, NEW D, Reading(t, D), NEW nt \in Levels, NEW i \in 1..Len(t), NEW j \in 0..Len(t) - 1
  PROVE  /\ D[<<nt, i, j>>] = Derived(t, Numbers(t), D, nt, i, j)
         /\ i \in Int /\ j \in Int
         /\ i > j => D[<<nt, i, j>>] = {}
<1>1. D[<<nt, i, j>>] = Derived(t, Numbers(t), D, nt, i, j)
  BY DEF Reading, IsTable
<1>2. i > j => D[<<nt, i, j>>] = {}
  BY <1>1, NoTokens
<1> QED BY <1>1, <1>2

LEMMA LevelNames ==
  /\ {"Items", "Ors", "Ands", "Hops", "Branch", "Item", "Expr", "Or", "And", "Not", "Comparison",
      "Additive", "Atom", "Hop"} \subseteq Levels
  /\ {"Items", "Ors", "Ands", "Hops"} \subseteq ListLevels
BY DEF Levels, ListLevels

(* parseExpr: a ternary, or just its condition.                                *)
LEMMA ExprDescends ==
  ASSUME NEW t, NEW D, Reading(t, D), NEW i \in 1..Len(t), NEW m \in 0..Len(t) - 1, NEW y
  PROVE  y \in D[<<"Expr", i, m>>] <=> Found(t, D, "Or", i, Frame("Expr", <<>>, i), y, m)
<1> DEFINE n == Len(t)
           f == Frame("Expr", <<>>, i)
<1>1. /\ n \in Nat \ {0} /\ i \in Int /\ m \in Int /\ "Or" \in Levels /\ "Expr" \in Levels
      /\ f.fn = "Expr" /\ f.at = i /\ Numbers(t)[i] = i
  BY StreamShape, LevelNames DEF Frame
<1> HIDE DEF f
<1>2. Found(t, D, "Or", i, f, y, m) <=>
        \/ y \in D[<<"Or", i, m>>]
        \/ \E j \in 0..n - 1 : \E x \in D[<<"Or", i, j>>] : IsChoice(t, D, i, x, j, y, m)
  <2>1. \A x, j : Via(t, D, f, x, j, y, m) <=> (m = j /\ y = x) \/ IsChoice(t, D, i, x, j, y, m)
    BY <1>1, ViaIs DEF ExprVia
  <2> QED BY <2>1 DEF Found
<1>3. CASE i > m
  <2>1. D[<<"Expr", i, m>>] = {} /\ D[<<"Or", i, m>>] = {}
    BY <1>1, <1>3, Production
  <2>2. ASSUME NEW j \in 0..n - 1, NEW x \in D[<<"Or", i, j>>], IsChoice(t, D, i, x, j, y, m)
        PROVE  FALSE
    <3>1. i <= j /\ j \in Int
      BY <1>1, <2>2, Inside
    <3>2. \E s \in Splits(t, j + 1, m, {"Colon"}) : TRUE
      BY <2>2 DEF IsChoice
    <3> QED BY <1>1, <1>3, <3>1, <3>2 DEF Splits
  <2> QED BY <1>2, <2>1, <2>2 DEF f
<1>4. CASE ~(i > m)
  <2>1. y \in D[<<"Expr", i, m>>] <=> y \in D[<<"Or", i, m>>] \/ IsTernary(t, i, D, i, m, y)
    <3>1. D[<<"Expr", i, m>>] = D[<<"Or", i, m>>] \cup Ternaries(t, Numbers(t), D, i, m)
      BY <1>1, <1>4, Production, ExprIs
    <3>2. y \in Ternaries(t, Numbers(t), D, i, m) <=> IsTernary(t, i, D, i, m, y)
      BY <1>1, TernaryMember
    <3> QED BY <3>1, <3>2
  <2>2. ASSUME IsTernary(t, i, D, i, m, y)
        PROVE  \E j \in 0..n - 1 : \E x \in D[<<"Or", i, j>>] : IsChoice(t, D, i, x, j, y, m)
    <3>0. PICK q \in Splits(t, i, m, {"Question"}) :
            \E s \in Splits(t, q, m, {"Colon"}) :
            \E c \in D[<<"Or", i, q - 1>>] : \E a \in D[<<"Branch", q + 1, s - 1>>] :
            \E b \in D[<<"Branch", s + 1, m>>] : y = Tree("Ternary", "Question", i, <<c, a, b>>)
      BY <2>2 DEF IsTernary
    <3>1. PICK s \in Splits(t, q, m, {"Colon"}) :
            \E c \in D[<<"Or", i, q - 1>>] : \E a \in D[<<"Branch", q + 1, s - 1>>] :
            \E b \in D[<<"Branch", s + 1, m>>] : y = Tree("Ternary", "Question", i, <<c, a, b>>)
      BY <3>0
    <3>2. PICK c \in D[<<"Or", i, q - 1>>] : \E a \in D[<<"Branch", q + 1, s - 1>>] :
            \E b \in D[<<"Branch", s + 1, m>>] : y = Tree("Ternary", "Question", i, <<c, a, b>>)
      BY <3>1
    <3>3. q - 1 \in 0..n - 1 /\ (q - 1) + 1 = q /\ (q - 1) + 2 = q + 1 /\ t[q] = "Question"
      BY <1>1 DEF Splits
    <3>4. IsChoice(t, D, i, c, q - 1, y, m)
      <4>1. /\ s \in Splits(t, (q - 1) + 1, m, {"Colon"}) /\ t[(q - 1) + 1] = "Question"
            /\ D[<<"Branch", (q - 1) + 2, s - 1>>] = D[<<"Branch", q + 1, s - 1>>]
        BY <3>3
      <4>2. t[m + 1] # "Comma"
        BY <2>2 DEF IsTernary
      <4> QED BY <3>2, <4>1, <4>2 DEF IsChoice
    <3> QED BY <3>3, <3>4
  <2>3. ASSUME NEW j \in 0..n - 1, NEW x \in D[<<"Or", i, j>>], IsChoice(t, D, i, x, j, y, m)
        PROVE  IsTernary(t, i, D, i, m, y)
    <3>1. PICK s \in Splits(t, j + 1, m, {"Colon"}) : \E a \in D[<<"Branch", j + 2, s - 1>>] :
            \E b \in D[<<"Branch", s + 1, m>>] : y = Tree("Ternary", "Question", i, <<x, a, b>>)
      BY <2>3 DEF IsChoice
    <3>2. i <= j /\ j \in Int /\ (j + 1) - 1 = j /\ (j + 1) + 1 = j + 2
      BY <1>1, Inside
    <3>3. j + 1 \in Splits(t, i, m, {"Question"})
      BY <1>1, <2>3, <3>1, <3>2 DEF Splits, IsChoice
    <3>4. x \in D[<<"Or", i, (j + 1) - 1>>] /\ D[<<"Branch", (j + 1) + 1, s - 1>>] = D[<<"Branch", j + 2, s - 1>>]
      BY <3>2
    <3>5. t[m + 1] # "Comma"
      BY <2>3 DEF IsChoice
    <3> QED BY <1>1, <3>1, <3>3, <3>4, <3>5 DEF IsTernary
  <2> QED BY <1>2, <2>1, <2>2, <2>3 DEF f
<1> QED BY <1>1, <1>3, <1>4

(* A member of a list is what the callee finds, if it is fine.                 *)
LEMMA MemberFrom ==
  ASSUME NEW t, NEW D, Reading(t, D), NEW fn \in {"Branch", "Or", "And"},
         NEW i \in 1..Len(t), NEW j \in 0..Len(t) - 1, NEW x
  PROVE  x \in D[<<Member(ListOf(fn)), i, j>>] <=> x \in D[<<Callee(fn), i, j>>] /\ Fine(fn, x)
<1>1. /\ fn = "Branch" => Member(ListOf(fn)) = "Item" /\ Callee(fn) = "Expr"
      /\ fn = "Or" => Member(ListOf(fn)) = "And" /\ Callee(fn) = "And"
      /\ fn = "And" => Member(ListOf(fn)) = "Not" /\ Callee(fn) = "Not"
  BY DEF Member, ListOf, Callee
<1>2. CASE fn = "Branch"
  <2>1. x \in D[<<"Item", i, j>>] <=> x \in D[<<"Expr", i, j>>] /\ IsOperand(x)
    <3>1. CASE i > j
      BY <3>1, Production, LevelNames
    <3>2. CASE ~(i > j)
      <4>1. D[<<"Item", i, j>>] = OperandTrees(D[<<"Expr", i, j>>])
        BY <3>2, Production, LevelNames, ItemIs
      <4> QED BY <4>1 DEF OperandTrees, IsOperand
    <3> QED BY <3>1, <3>2
  <2> QED BY <1>1, <1>2, <2>1 DEF Fine
<1>3. CASE fn # "Branch"
  BY <1>1, <1>3 DEF Fine
<1> QED BY <1>2, <1>3

LEMMA MadeFrom ==
  ASSUME NEW t, NEW D, Reading(t, D), NEW fn \in {"Branch", "Or", "And"},
         NEW i \in 1..Len(t), NEW m \in 0..Len(t) - 1, NEW y
  PROVE  y \in D[<<fn, i, m>>] <=> \E l \in D[<<ListOf(fn), i, m>>] : y = Made(fn, i, l)
<1>0. i \in Int /\ m \in Int /\ fn \in Levels /\ ListOf(fn) \in Levels /\ Numbers(t)[i] = i
  BY LevelNames, StreamShape DEF ListOf
<1>1. CASE i > m
  BY <1>0, <1>1, Production
<1>2. CASE ~(i > m)
  <2>1. \A T, kind, op : y \in Chains(kind, op, i, T) <=> \E l \in T : y = Chain(kind, op, i, l)
    BY DEF Chains
  <2>2. D[<<fn, i, m>>] = Derived(t, Numbers(t), D, fn, i, m)
    BY <1>0, Production
  <2>3. CASE fn = "Branch"
    <3>1. D[<<fn, i, m>>] = Chains("CommaList", "Comma", i, D[<<"Items", i, m>>])
      BY <1>0, <1>2, <2>2, <2>3, BranchIs
    <3>2. \A l : Made(fn, i, l) = Chain("CommaList", "Comma", i, l)
      BY <2>3 DEF Made, ListOf, Separator
    <3>3. ListOf(fn) = "Items"
      BY <2>3 DEF ListOf
    <3> QED BY <2>1, <3>1, <3>2, <3>3
  <2>4. CASE fn = "Or"
    <3>1. D[<<fn, i, m>>] = Chains("Logical", "Or", i, D[<<"Ors", i, m>>])
      BY <1>0, <1>2, <2>2, <2>4, OrIs
    <3>2. \A l : Made(fn, i, l) = Chain("Logical", "Or", i, l)
      BY <2>4 DEF Made, ListOf, Separator
    <3>3. ListOf(fn) = "Ors"
      BY <2>4 DEF ListOf
    <3> QED BY <2>1, <3>1, <3>2, <3>3
  <2>5. CASE fn = "And"
    <3>1. D[<<fn, i, m>>] = Chains("Logical", "And", i, D[<<"Ands", i, m>>])
      BY <1>0, <1>2, <2>2, <2>5, AndIs
    <3>2. \A l : Made(fn, i, l) = Chain("Logical", "And", i, l)
      BY <2>5 DEF Made, ListOf, Separator
    <3>3. ListOf(fn) = "Ands"
      BY <2>5 DEF ListOf
    <3> QED BY <2>1, <3>1, <3>2, <3>3
  <2> QED BY <2>3, <2>4, <2>5
<1> QED BY <1>0, <1>1, <1>2

-----------------------------------------------------------------------------
(* Lists of trees, put together.                                               *)
IsSeq(s) == s \in Seq(Range(s))

LEMMA OverOneSet ==
  ASSUME NEW K, NEW r, NEW x, IsSeq(K), IsSeq(r)
  PROVE  \E S : K \in Seq(S) /\ r \in Seq(S) /\ <<x>> \in Seq(S) /\ x \in S
<1> DEFINE S == Range(K) \cup Range(r) \cup {x}
<1>1. Range(K) \subseteq S /\ Range(r) \subseteq S
  OBVIOUS
<1>2. K \in Seq(Range(K)) /\ r \in Seq(Range(r))
  BY DEF IsSeq
<1>3. K \in Seq(S) /\ r \in Seq(S) /\ <<x>> \in Seq(S) /\ x \in S
  BY <1>1, <1>2, SeqMonotonic
<1> HIDE DEF S
<1> QED BY <1>3

LEMMA Regrouped ==
  ASSUME NEW K, NEW r, NEW x, IsSeq(K), IsSeq(r)
  PROVE  K \o (<<x>> \o r) = Append(K, x) \o r
<1>1. PICK S : K \in Seq(S) /\ r \in Seq(S) /\ <<x>> \in Seq(S) /\ x \in S
  BY OverOneSet
<1>2. Append(K, x) = K \o <<x>>
  BY <1>1, AppendIsConcat
<1>3. K \o (<<x>> \o r) = (K \o <<x>>) \o r
  BY <1>1, ConcatAssociative
<1> QED BY <1>2, <1>3

LEMMA Joins ==
  ASSUME NEW K, NEW r, NEW x, IsSeq(K), IsSeq(r)
  PROVE  /\ K \o <<x>> = Append(K, x)
         /\ IsSeq(Append(K, x)) /\ IsSeq(<<x>> \o r) /\ IsSeq(<<x>>)
<1>1. PICK S : K \in Seq(S) /\ r \in Seq(S) /\ <<x>> \in Seq(S) /\ x \in S
  BY OverOneSet
<1>2. Append(K, x) = K \o <<x>>
  BY <1>1, AppendIsConcat
<1>3. Append(K, x) \in Seq(S) /\ <<x>> \o r \in Seq(S)
  BY <1>1, AppendProperties, ConcatProperties
<1> QED BY <1>1, <1>2, <1>3, OwnRange DEF IsSeq

LEMMA AreLists ==
  ASSUME NEW t, NEW D, Reading(t, D), NEW L \in ListLevels, NEW i \in 1..Len(t), NEW m \in 0..Len(t) - 1
  PROVE  \A l \in D[<<L, i, m>>] : IsSeq(l)
<1> DEFINE n == Len(t)
           Good(k) == \A h \in 1..n : n - h < k => \A e \in 0..n - 1 : \A l \in D[<<L, h, e>>] : IsSeq(l)
           Fit == {k \in 0..n : Good(k)}
<1>1. n \in Nat \ {0} /\ L \in Levels /\ Member(L) \in Levels
  BY StreamShape, LevelNames DEF ListLevels, Member, Levels
<1>2. 0 \in Fit
  BY <1>1
<1>3. ASSUME NEW k \in 0..n - 1, Good(k) PROVE Good(k + 1)
  <2> SUFFICES ASSUME NEW h \in 1..n, n - h < k + 1, NEW e \in 0..n - 1, NEW l \in D[<<L, h, e>>]
               PROVE  IsSeq(l)
    OBVIOUS
  <2>1a. PICK j \in 0..n - 1 : \E x : x \in D[<<Member(L), h, j>>] /\
          \/ e = j /\ l = <<x>>
          \/ t[j + 1] = Separator(L) /\ \E r \in D[<<L, j + 2, e>>] : l = <<x>> \o r
    <3>1. Begun(t, D, L, h, e, l)
      BY ListFrom
    <3> QED BY <3>1 DEF Begun
  <2>1. PICK x : x \in D[<<Member(L), h, j>>] /\
          \/ e = j /\ l = <<x>>
          \/ t[j + 1] = Separator(L) /\ \E r \in D[<<L, j + 2, e>>] : l = <<x>> \o r
    BY <2>1a
  <2>2. CASE l = <<x>>
    BY <2>2, SeqOne DEF IsSeq
  <2>3. CASE t[j + 1] = Separator(L) /\ \E r \in D[<<L, j + 2, e>>] : l = <<x>> \o r
    <3>1. PICK r \in D[<<L, j + 2, e>>] : l = <<x>> \o r
      BY <2>3
    <3>2. j + 2 \in 1..n
      <4>1. Separator(L) # "EOF"
        BY DEF Separator, ListLevels
      <4> QED BY <2>3, <4>1, StreamShape
    <3>3. h <= j
      BY <1>1, <2>1, Inside
    <3>4. n - (j + 2) < k
      BY <1>1, <3>3
    <3>5. IsSeq(r)
      BY <1>3, <3>2, <3>4
    <3> QED BY <3>1, <3>5, Joins, SeqOne DEF IsSeq
  <2> QED BY <2>1, <2>2, <2>3
<1>4. n \in Fit
  <2>1. \A k \in 0..n - 1 : k \in Fit => k + 1 \in Fit
    <3> SUFFICES ASSUME NEW k \in 0..n - 1, k \in Fit PROVE k + 1 \in Fit
      OBVIOUS
    <3>1. Good(k)
      OBVIOUS
    <3>2. k + 1 \in 0..n
      BY <1>1
    <3>3. Good(k + 1)
      BY <1>3, <3>1
    <3> HIDE DEF Good
    <3> QED BY <3>2, <3>3
  <2>2. n \in Nat
    BY <1>1
  <2> HIDE DEF Fit, n
  <2>3. \A k \in 0..n : k \in Fit
    BY <1>2, <2>1, <2>2, Induction, Zenon
  <2> QED BY <2>2, <2>3
<1> QED BY <1>1, <1>4

(* What is added to a list: a member and, behind a separator, the rest.        *)
Added(t, D, L, i, K, l, m) ==
  \E j \in 0..Len(t) - 1 : \E x \in D[<<Member(L), i, j>>] :
    \/ m = j /\ l = Append(K, x)
    \/ t[j + 1] = Separator(L) /\ \E r \in D[<<L, j + 2, m>>] : l = Append(K, x) \o r

LEMMA ListOn ==
  ASSUME NEW t, NEW D, Reading(t, D), NEW L \in ListLevels, NEW i \in 1..Len(t), NEW m \in 0..Len(t) - 1,
         NEW K, IsSeq(K), NEW l
  PROVE  (\E r \in D[<<L, i, m>>] : l = K \o r) <=> Added(t, D, L, i, K, l, m)
<1> DEFINE n == Len(t)
           From(r) == Begun(t, D, L, i, m, r)
<1>1. \A r : r \in D[<<L, i, m>>] <=> From(r)
  BY ListFrom
<1> HIDE DEF From
<1>2. Separator(L) # "EOF" /\ \A x : K \o <<x>> = Append(K, x)
  <2>1. ASSUME NEW x PROVE K \o <<x>> = Append(K, x)
    BY Joins
  <2> QED BY <2>1 DEF Separator, ListLevels
<1>3. ASSUME NEW j \in 0..n - 1, t[j + 1] = Separator(L), NEW s \in D[<<L, j + 2, m>>], NEW x
      PROVE  K \o (<<x>> \o s) = Append(K, x) \o s
  <2>1. j + 2 \in 1..n
    BY <1>2, <1>3, StreamShape
  <2>2. IsSeq(s)
    BY <2>1, AreLists
  <2>3. IsSeq(K)
    OBVIOUS
  <2> QED BY <2>2, <2>3, Regrouped
<1>4. ASSUME NEW r, From(r), l = K \o r PROVE Added(t, D, L, i, K, l, m)
  <2>1a. PICK j \in 0..n - 1 : \E x : x \in D[<<Member(L), i, j>>] /\
          \/ m = j /\ r = <<x>>
          \/ t[j + 1] = Separator(L) /\ \E s \in D[<<L, j + 2, m>>] : r = <<x>> \o s
    BY <1>4 DEF From, Begun
  <2>1. PICK x : x \in D[<<Member(L), i, j>>] /\
          \/ m = j /\ r = <<x>>
          \/ t[j + 1] = Separator(L) /\ \E s \in D[<<L, j + 2, m>>] : r = <<x>> \o s
    BY <2>1a
  <2>2. CASE m = j /\ r = <<x>>
    <3>1. l = Append(K, x)
      BY <1>2, <1>4, <2>2
    <3> QED BY <2>1, <2>2, <3>1 DEF Added
  <2>3. CASE t[j + 1] = Separator(L) /\ \E s \in D[<<L, j + 2, m>>] : r = <<x>> \o s
    <3>1. PICK s \in D[<<L, j + 2, m>>] : r = <<x>> \o s
      BY <2>3
    <3>2. l = Append(K, x) \o s
      BY <1>3, <1>4, <2>3, <3>1
    <3> QED BY <2>1, <2>3, <3>2 DEF Added
  <2> QED BY <2>1, <2>2, <2>3
<1>5. ASSUME NEW j \in 0..n - 1, NEW x \in D[<<Member(L), i, j>>], m = j, l = Append(K, x)
      PROVE  \E r : From(r) /\ l = K \o r
  <2>1. From(<<x>>)
    BY <1>5 DEF From, Begun
  <2> QED BY <1>2, <1>5, <2>1
<1>6. ASSUME NEW j \in 0..n - 1, NEW x \in D[<<Member(L), i, j>>], t[j + 1] = Separator(L),
             NEW s \in D[<<L, j + 2, m>>], l = Append(K, x) \o s
      PROVE  \E r : From(r) /\ l = K \o r
  <2>1. From(<<x>> \o s)
    BY <1>6 DEF From, Begun
  <2>2. l = K \o (<<x>> \o s)
    BY <1>3, <1>6
  <2> QED BY <2>1, <2>2
<1>7. Added(t, D, L, i, K, l, m) => \E r : From(r) /\ l = K \o r
  BY <1>5, <1>6 DEF Added
<1> QED BY <1>1, <1>4, <1>7

-----------------------------------------------------------------------------
(* What a frame may be given, operation by operation.                          *)
LEMMA FrameIs ==
  ASSUME NEW fn, NEW K, NEW at
  PROVE  Frame(fn, K, at).fn = fn /\ Frame(fn, K, at).kids = K /\ Frame(fn, K, at).at = at
BY DEF Frame

(* A chain goes on with one more operand.                                      *)
LEMMA ChainOn ==
  ASSUME NEW t, NEW D, Reading(t, D), NEW fn \in {"Branch", "Or", "And"}, NEW K, IsSeq(K), NEW at,
         NEW i \in 1..Len(t), NEW m \in 0..Len(t) - 1, NEW y
  PROVE  Grown(t, D, fn, at, K, i, y, m) <=>
           Found(t, D, Callee(fn), i, Frame(fn, K, at), y, m)
<1> DEFINE n == Len(t)
           L == ListOf(fn)
           f == Frame(fn, K, at)
<1>1. L \in ListLevels /\ f.fn = fn /\ f.kids = K /\ f.at = at
  BY FrameIs DEF ListOf, ListLevels
<1>2. \A j \in 0..n - 1 : \A x : x \in D[<<Member(L), i, j>>] <=> x \in D[<<Callee(fn), i, j>>] /\ Fine(fn, x)
  BY MemberFrom
<1>3. \A l : (\E r \in D[<<L, i, m>>] : l = K \o r) <=> Added(t, D, L, i, K, l, m)
  BY <1>1, ListOn
<1> HIDE DEF L, f
<1>4. \A x, j : Via(t, D, f, x, j, y, m) <=> ChainVia(t, D, fn, K, at, x, j, y, m)
  BY <1>1, ViaIs
<1>5. ASSUME NEW r \in D[<<L, i, m>>], y = Made(fn, at, K \o r) PROVE Found(t, D, Callee(fn), i, f, y, m)
  <2> DEFINE l == K \o r
  <2>1. Added(t, D, L, i, K, l, m) /\ y = Made(fn, at, l)
    BY <1>3, <1>5
  <2> HIDE DEF l
  <2>2a. PICK j \in 0..n - 1 : \E x : x \in D[<<Member(L), i, j>>] /\
          \/ m = j /\ l = Append(K, x)
          \/ t[j + 1] = Separator(L) /\ \E s \in D[<<L, j + 2, m>>] : l = Append(K, x) \o s
    BY <2>1 DEF Added
  <2>2. PICK x : x \in D[<<Member(L), i, j>>] /\
          \/ m = j /\ l = Append(K, x)
          \/ t[j + 1] = Separator(L) /\ \E s \in D[<<L, j + 2, m>>] : l = Append(K, x) \o s
    BY <2>2a
  <2>3. x \in D[<<Callee(fn), i, j>>] /\ Fine(fn, x)
    BY <1>2, <2>2
  <2>4. ChainVia(t, D, fn, K, at, x, j, y, m)
    BY <2>1, <2>2, <2>3 DEF ChainVia, Grown, L
  <2> QED BY <1>4, <2>3, <2>4 DEF Found
<1>6. ASSUME NEW j \in 0..n - 1, NEW x \in D[<<Callee(fn), i, j>>], Via(t, D, f, x, j, y, m)
      PROVE  \E r \in D[<<L, i, m>>] : y = Made(fn, at, K \o r)
  <2>0. ChainVia(t, D, fn, K, at, x, j, y, m)
    BY <1>4, <1>6
  <2>1. Fine(fn, x) /\ x \in D[<<Member(L), i, j>>]
    BY <1>2, <1>6, <2>0 DEF ChainVia
  <2>2. \E l : Added(t, D, L, i, K, l, m) /\ y = Made(fn, at, l)
    <3>1. CASE m = j /\ y = Made(fn, at, Append(K, x))
      <4>1. Added(t, D, L, i, K, Append(K, x), m)
        BY <2>1, <3>1 DEF Added
      <4> QED BY <3>1, <4>1
    <3>2. CASE t[j + 1] = Separator(L) /\ \E r \in D[<<L, j + 2, m>>] : y = Made(fn, at, Append(K, x) \o r)
      <4>1. PICK r \in D[<<L, j + 2, m>>] : y = Made(fn, at, Append(K, x) \o r)
        BY <3>2
      <4>2. Added(t, D, L, i, K, Append(K, x) \o r, m)
        BY <2>1, <3>2, <4>1 DEF Added
      <4> QED BY <4>1, <4>2
    <3> QED BY <2>0, <3>1, <3>2 DEF ChainVia, Grown, L
  <2> QED BY <1>3, <2>2
<1> QED BY <1>5, <1>6 DEF Found, Grown, L, f

LEMMA NoKidsYet == IsSeq(<<>>) /\ \A x : Append(<<>>, x) = <<x>>
BY EmptySeq DEF IsSeq, Range

LEMMA ChainDescends ==
  ASSUME NEW t, NEW D, Reading(t, D), NEW fn \in {"Branch", "Or", "And"},
         NEW i \in 1..Len(t), NEW m \in 0..Len(t) - 1, NEW y
  PROVE  y \in D[<<fn, i, m>>] <=> Found(t, D, Callee(fn), i, Frame(fn, <<>>, i), y, m)
<1>1. ASSUME NEW r \in D[<<ListOf(fn), i, m>>] PROVE <<>> \o r = r
  <2>1. IsSeq(r)
    BY AreLists DEF ListOf, ListLevels
  <2> QED BY <2>1, ConcatEmptySeq DEF IsSeq
<1>2. y \in D[<<fn, i, m>>] <=> Grown(t, D, fn, i, <<>>, i, y, m)
  BY <1>1, MadeFrom DEF Grown
<1> QED BY <1>2, ChainOn, NoKidsYet

(* An operator's right-hand side.                                              *)
HasRight(t, D, kind, ops, left, right, i, m, y) ==
  \E j \in 0..Len(t) - 1 : \E x \in D[<<left, i, j>>] : \E op \in ops :
    IsRight(t, D, kind, op, right, x, j, y, m)

LEMMA InfixFrom ==
  ASSUME NEW t, NEW D, Reading(t, D), NEW left \in Levels, NEW right \in Levels, NEW kind, NEW ops,
         "EOF" \notin ops, NEW i \in 1..Len(t), NEW m \in 0..Len(t) - 1, NEW y
  PROVE  IsInfix(t, Numbers(t), D, kind, ops, left, right, i, m, y)
         <=> HasRight(t, D, kind, ops, left, right, i, m, y)
<1> DEFINE n == Len(t)
<1>1. /\ n \in Nat \ {0} /\ i \in Int /\ m \in Int
      /\ \A k \in 1..n : Numbers(t)[k] = k
  BY StreamShape
<1>2. ASSUME IsInfix(t, Numbers(t), D, kind, ops, left, right, i, m, y)
      PROVE  \E j \in 0..n - 1 : \E x \in D[<<left, i, j>>] : \E op \in ops :
               IsRight(t, D, kind, op, right, x, j, y, m)
  <2>1. PICK k \in Splits(t, i, m, ops) :
          \E a \in OperandTrees(D[<<left, i, k - 1>>]) : \E b \in OperandTrees(D[<<right, k + 1, m>>]) :
            y = Tree(kind, t[k], Numbers(t)[k], <<a, b>>)
    BY <1>2 DEF IsInfix
  <2>2. /\ k \in 1..n /\ k - 1 \in 0..n - 1 /\ (k - 1) + 1 = k /\ (k - 1) + 2 = k + 1
        /\ t[k] \in ops /\ Numbers(t)[k] = k
    BY <1>1 DEF Splits
  <2>3. PICK a \in D[<<left, i, k - 1>>], b \in D[<<right, k + 1, m>>] :
          IsOperand(a) /\ IsOperand(b) /\ y = Tree(kind, t[k], k, <<a, b>>)
    BY <2>1, <2>2 DEF OperandTrees, IsOperand
  <2>4. t[(k - 1) + 1] = t[k] /\ b \in D[<<right, (k - 1) + 2, m>>] /\ y = Tree(kind, t[k], (k - 1) + 1, <<a, b>>)
    BY <2>2, <2>3
  <2>5. IsRight(t, D, kind, t[k], right, a, k - 1, y, m)
    BY <2>3, <2>4 DEF IsRight
  <2> QED BY <2>2, <2>3, <2>5
<1>3. ASSUME NEW j \in 0..n - 1, NEW x \in D[<<left, i, j>>], NEW op \in ops,
             IsRight(t, D, kind, op, right, x, j, y, m)
      PROVE  IsInfix(t, Numbers(t), D, kind, ops, left, right, i, m, y)
  <2>1. PICK b \in D[<<right, j + 2, m>>] : IsOperand(b) /\ y = Tree(kind, op, j + 1, <<x, b>>)
    BY <1>3 DEF IsRight
  <2>2. t[j + 1] = op /\ IsOperand(x)
    BY <1>3 DEF IsRight
  <2>3. j + 2 \in 1..n /\ j + 1 \in 1..n /\ j \in Int
    BY <1>1, <1>3, <2>2, StreamShape
  <2>4. i <= j /\ j + 2 <= m
    BY <1>3, <2>1, <2>3, Inside
  <2>5. j + 1 \in Splits(t, i, m, ops)
    BY <1>1, <1>3, <2>2, <2>3, <2>4 DEF Splits
  <2>6. (j + 1) - 1 = j /\ (j + 1) + 1 = j + 2 /\ Numbers(t)[j + 1] = j + 1
    BY <1>1, <2>3
  <2>7. x \in OperandTrees(D[<<left, i, (j + 1) - 1>>]) /\ b \in OperandTrees(D[<<right, (j + 1) + 1, m>>])
    BY <2>1, <2>2, <2>6 DEF OperandTrees, IsOperand
  <2>8. y = Tree(kind, t[j + 1], Numbers(t)[j + 1], <<x, b>>)
    BY <2>1, <2>2, <2>6
  <2> QED BY <2>5, <2>7, <2>8 DEF IsInfix
<1> QED BY <1>2, <1>3 DEF HasRight

(* parseNot: each "!" is a frame of its own.                                   *)
LEMMA NotDescends ==
  ASSUME NEW t, NEW D, Reading(t, D), NEW i \in 1..Len(t), t[i] = "Not", NEW m \in 0..Len(t) - 1, NEW y
  PROVE  y \in D[<<"Not", i, m>>] <=> Found(t, D, "Not", i + 1, Frame("Not", <<>>, i), y, m)
<1> DEFINE n == Len(t)
           f == Frame("Not", <<>>, i)
<1>1. /\ n \in Nat \ {0} /\ i \in Int /\ m \in Int /\ "Not" \in Levels
      /\ f.fn = "Not" /\ f.at = i /\ Numbers(t)[i] = i /\ i + 1 \in 1..n
  <2>1. i # n
    BY StreamShape
  <2> QED BY <2>1, StreamShape, LevelNames, FrameIs
<1> HIDE DEF f
<1>2. Found(t, D, "Not", i + 1, f, y, m) <=>
        \E x \in D[<<"Not", i + 1, m>>] : y = Tree("Not", "Not", i, <<x>>)
  <2>1. \A x, j : Via(t, D, f, x, j, y, m) <=> m = j /\ y = Tree("Not", "Not", i, <<x>>)
    BY <1>1, ViaIs DEF NotVia
  <2>2. ASSUME NEW x \in D[<<"Not", i + 1, m>>], y = Tree("Not", "Not", i, <<x>>)
        PROVE  \E j \in 0..n - 1 : \E z \in D[<<"Not", i + 1, j>>] : Via(t, D, f, z, j, y, m)
    BY <2>1, <2>2
  <2>3. ASSUME NEW j \in 0..n - 1, NEW x \in D[<<"Not", i + 1, j>>], Via(t, D, f, x, j, y, m)
        PROVE  \E z \in D[<<"Not", i + 1, m>>] : y = Tree("Not", "Not", i, <<z>>)
    <3>1. m = j /\ y = Tree("Not", "Not", i, <<x>>)
      BY <2>1, <2>3
    <3> QED BY <3>1
  <2> QED BY <2>2, <2>3 DEF Found
<1>3. CASE i > m
  <2>1. D[<<"Not", i, m>>] = {} /\ D[<<"Not", i + 1, m>>] = {}
    BY <1>1, <1>3, Production
  <2> QED BY <1>2, <2>1 DEF f
<1>4. CASE ~(i > m)
  <2>1. D[<<"Not", i, m>>] = Negations(i, D[<<"Not", i + 1, m>>])
    BY <1>1, <1>4, Production, NotIs
  <2> QED BY <1>2, <2>1 DEF f, Negations
<1> QED BY <1>3, <1>4

LEMMA NoNotDescends ==
  ASSUME NEW t, NEW D, Reading(t, D), NEW i \in 1..Len(t), t[i] # "Not", NEW m \in 0..Len(t) - 1
  PROVE  D[<<"Not", i, m>>] = D[<<"Comparison", i, m>>]
<1>1. CASE i > m
  BY <1>1, Production, LevelNames
<1>2. CASE ~(i > m)
  BY <1>2, Production, LevelNames, NoNotIs
<1> QED BY <1>1, <1>2

(* parseComparison: one operator at most.                                      *)
LEMMA ComparisonDescends ==
  ASSUME NEW t, NEW D, Reading(t, D), NEW i \in 1..Len(t), NEW m \in 0..Len(t) - 1, NEW y
  PROVE  y \in D[<<"Comparison", i, m>>] <=>
           Found(t, D, "Additive", i, Frame("Comparison", <<>>, i), y, m)
<1> DEFINE n == Len(t)
           f == Frame("Comparison", <<>>, i)
           More == \E j \in 0..n - 1 : \E x \in D[<<"Additive", i, j>>] :
                     IsCompared(t, D, x, j, y, m)
           Ops == ComparisonOps
           Infix == IsInfix(t, Numbers(t), D, "Comparison", Ops, "Additive", "Additive", i, m, y)
<1>1. /\ "EOF" \notin ComparisonOps /\ "Additive" \in Levels /\ "Comparison" \in Levels
      /\ f.fn = "Comparison" /\ f.kids = <<>>
  BY LevelNames, FrameIs DEF ComparisonOps
<1>2. Found(t, D, "Additive", i, f, y, m) <=> y \in D[<<"Additive", i, m>>] \/ More
  <2> HIDE DEF f
  <2>1. \A x, j : Via(t, D, f, x, j, y, m) <=>
          (m = j /\ y = x) \/ IsCompared(t, D, x, j, y, m)
    <3> SUFFICES ASSUME NEW x, NEW j
                 PROVE  Via(t, D, f, x, j, y, m) <=> (m = j /\ y = x) \/ IsCompared(t, D, x, j, y, m)
      OBVIOUS
    <3>1. Via(t, D, f, x, j, y, m) <=> ComparisonVia(t, D, f, x, j, y, m)
      BY <1>1, ViaIs
    <3> QED BY <1>1, <3>1 DEF ComparisonVia
  <2> QED BY <2>1 DEF Found
<1>3. Infix <=> More
  <2>1. Infix <=> HasRight(t, D, "Comparison", Ops, "Additive", "Additive", i, m, y)
    BY <1>1, InfixFrom
  <2> QED BY <2>1 DEF HasRight, IsCompared
<1>4. CASE i > m
  <2>1. D[<<"Comparison", i, m>>] = {} /\ D[<<"Additive", i, m>>] = {}
    BY <1>1, <1>4, Production
  <2>2. ~Infix
    <3>1. Splits(t, i, m, Ops) = {}
      BY <1>4, Production, LevelNames DEF Splits
    <3> QED BY <3>1 DEF IsInfix
  <2> QED BY <1>2, <1>3, <2>1, <2>2
<1>5. CASE ~(i > m)
  <2>1. D[<<"Comparison", i, m>>] = D[<<"Additive", i, m>>] \cup
          Infixes(t, Numbers(t), D, "Comparison", Ops, "Additive", "Additive", i, m)
    BY <1>1, <1>5, Production, ComparisonIs
  <2>2. y \in Infixes(t, Numbers(t), D, "Comparison", Ops, "Additive", "Additive", i, m) <=> Infix
    BY InfixMember
  <2> HIDE DEF More, Infix, f
  <2>3. y \in D[<<"Comparison", i, m>>] <=> y \in D[<<"Additive", i, m>>] \/ More
    BY <1>3, <2>1, <2>2
  <2> QED BY <1>2, <2>3 DEF f
<1> QED BY <1>4, <1>5

(* Sums, from the left: the first term, and then the rest.                     *)
LEMMA SumLeft ==
  ASSUME NEW t, NEW D, Len(t) \in Nat, NEW x, NEW j \in 0..Len(t) - 1, NEW y, NEW m \in 0..Len(t) - 1
  PROVE  SumTail(t, D, x, j, y, m) <=>
           \/ x = y /\ j = m
           \/ \E e \in 0..Len(t) - 1 : \E z : IsTerm(t, D, x, j, z, e) /\ SumTail(t, D, z, e, y, m)
<1> DEFINE n == Len(t)
<1>1. ASSUME SumTail(t, D, x, j, y, m), ~(x = y /\ j = m)
      PROVE  \E e \in 0..n - 1 : \E z : IsTerm(t, D, x, j, z, e) /\ SumTail(t, D, z, e, y, m)
  <2>1a. PICK N \in Nat : \E X, J :
          X[0] = x /\ J[0] = j /\ X[N] = y /\ J[N] = m /\ SumSteps(t, D, N, X, J)
    BY <1>1 DEF SumTail
  <2>1. PICK X, J :
          X[0] = x /\ J[0] = j /\ X[N] = y /\ J[N] = m /\ SumSteps(t, D, N, X, J)
    BY <2>1a
  <2>2. N # 0
    BY <1>1, <2>1
  <2>3. 0 \in 0..N - 1 /\ 0 + 1 = 1
    BY <2>2
  <2>4. J[1] \in 0..n - 1 /\ IsTerm(t, D, x, j, X[1], J[1])
    BY <2>1, <2>3 DEF SumSteps
  <2> DEFINE Xs == [k \in 0..N - 1 |-> X[k + 1]]
             Js == [k \in 0..N - 1 |-> J[k + 1]]
  <2>5. /\ N - 1 \in Nat /\ Xs[0] = X[1] /\ Js[0] = J[1] /\ Xs[N - 1] = y /\ Js[N - 1] = m
        /\ \A k \in 0..(N - 1) - 1 : /\ k + 1 \in 0..N - 1 /\ Xs[k] = X[k + 1] /\ Xs[k + 1] = X[(k + 1) + 1]
                                     /\ Js[k] = J[k + 1] /\ Js[k + 1] = J[(k + 1) + 1]
    BY <2>1, <2>2
  <2> HIDE DEF Xs, Js
  <2>6. SumSteps(t, D, N - 1, Xs, Js)
    BY <2>1, <2>5 DEF SumSteps
  <2>7. SumTail(t, D, X[1], J[1], y, m)
    BY <2>5, <2>6 DEF SumTail
  <2> QED BY <2>4, <2>7
<1>2. ASSUME x = y, j = m PROVE SumTail(t, D, x, j, y, m)
  <2> DEFINE X == [k \in {0} |-> x]
             J == [k \in {0} |-> j]
  <2>1. X[0] = x /\ J[0] = j /\ SumSteps(t, D, 0, X, J)
    BY DEF SumSteps
  <2> HIDE DEF X, J
  <2> QED BY <1>2, <2>1 DEF SumTail
<1>3. ASSUME NEW e \in 0..n - 1, NEW z, IsTerm(t, D, x, j, z, e), SumTail(t, D, z, e, y, m)
      PROVE  SumTail(t, D, x, j, y, m)
  <2>1a. PICK N \in Nat : \E X, J :
          X[0] = z /\ J[0] = e /\ X[N] = y /\ J[N] = m /\ SumSteps(t, D, N, X, J)
    BY <1>3 DEF SumTail
  <2>1. PICK X, J :
          X[0] = z /\ J[0] = e /\ X[N] = y /\ J[N] = m /\ SumSteps(t, D, N, X, J)
    BY <2>1a
  <2> DEFINE Xs == [k \in 0..N + 1 |-> IF k = 0 THEN x ELSE X[k - 1]]
             Js == [k \in 0..N + 1 |-> IF k = 0 THEN j ELSE J[k - 1]]
  <2>2. /\ N + 1 \in Nat /\ Xs[0] = x /\ Js[0] = j /\ Xs[1] = z /\ Js[1] = e
        /\ Xs[N + 1] = y /\ Js[N + 1] = m
    BY <2>1
  <2>3. ASSUME NEW k \in 0..(N + 1) - 1, k # 0
        PROVE  /\ k - 1 \in 0..N - 1 /\ Xs[k] = X[k - 1] /\ Js[k] = J[k - 1]
               /\ Xs[k + 1] = X[(k - 1) + 1] /\ Js[k + 1] = J[(k - 1) + 1]
    <3>1. k \in 0..N + 1 /\ k + 1 \in 0..N + 1 /\ k + 1 # 0 /\ (k + 1) - 1 = (k - 1) + 1 /\ k - 1 \in 0..N - 1
      BY <2>3
    <3>2. Xs[k] = X[k - 1] /\ Js[k] = J[k - 1]
      BY <2>3, <3>1
    <3>3. Xs[k + 1] = X[(k + 1) - 1] /\ Js[k + 1] = J[(k + 1) - 1]
      BY <3>1
    <3> QED BY <3>1, <3>2, <3>3
  <2> HIDE DEF Xs, Js
  <2>4. SumSteps(t, D, N + 1, Xs, Js)
    <3>1. ASSUME NEW k \in 0..(N + 1) - 1
          PROVE  Js[k] \in 0..n - 1 /\ Js[k + 1] \in 0..n - 1 /\ IsTerm(t, D, Xs[k], Js[k], Xs[k + 1], Js[k + 1])
      <4>1. CASE k = 0
        BY <1>3, <2>2, <4>1
      <4>2. CASE k # 0
        BY <2>1, <2>3, <4>2 DEF SumSteps
      <4> QED BY <4>1, <4>2
    <3> QED BY <3>1 DEF SumSteps
  <2> QED BY <2>2, <2>4 DEF SumTail
<1> QED BY <1>1, <1>2, <1>3

(* and from the right: what comes before the last term, and that term.         *)
LEMMA SumRight ==
  ASSUME NEW t, NEW D, Len(t) \in Nat, NEW x, NEW j \in 0..Len(t) - 1, NEW y, NEW m \in 0..Len(t) - 1
  PROVE  SumTail(t, D, x, j, y, m) <=>
           \/ x = y /\ j = m
           \/ \E e \in 0..Len(t) - 1 : \E z : SumTail(t, D, x, j, z, e) /\ IsTerm(t, D, z, e, y, m)
<1> DEFINE n == Len(t)
<1>1. ASSUME SumTail(t, D, x, j, y, m), ~(x = y /\ j = m)
      PROVE  \E e \in 0..n - 1 : \E z : SumTail(t, D, x, j, z, e) /\ IsTerm(t, D, z, e, y, m)
  <2>1a. PICK N \in Nat : \E X, J :
          X[0] = x /\ J[0] = j /\ X[N] = y /\ J[N] = m /\ SumSteps(t, D, N, X, J)
    BY <1>1 DEF SumTail
  <2>1. PICK X, J :
          X[0] = x /\ J[0] = j /\ X[N] = y /\ J[N] = m /\ SumSteps(t, D, N, X, J)
    BY <2>1a
  <2>2. N # 0
    BY <1>1, <2>1
  <2>3. N - 1 \in 0..N - 1 /\ N - 1 \in Nat /\ (N - 1) + 1 = N
    BY <2>2
  <2>4. J[N - 1] \in 0..n - 1 /\ IsTerm(t, D, X[N - 1], J[N - 1], y, m)
    BY <2>1, <2>3 DEF SumSteps
  <2>5. \A k \in 0..(N - 1) - 1 : k \in 0..N - 1
    BY <2>3
  <2>6. SumSteps(t, D, N - 1, X, J)
    BY <2>1, <2>5 DEF SumSteps
  <2>7. SumTail(t, D, x, j, X[N - 1], J[N - 1])
    BY <2>1, <2>3, <2>6 DEF SumTail
  <2> QED BY <2>4, <2>7
<1>2. ASSUME x = y, j = m PROVE SumTail(t, D, x, j, y, m)
  BY <1>2, SumLeft
<1>3. ASSUME NEW e \in 0..n - 1, NEW z, SumTail(t, D, x, j, z, e), IsTerm(t, D, z, e, y, m)
      PROVE  SumTail(t, D, x, j, y, m)
  <2>1a. PICK N \in Nat : \E X, J :
          X[0] = x /\ J[0] = j /\ X[N] = z /\ J[N] = e /\ SumSteps(t, D, N, X, J)
    BY <1>3 DEF SumTail
  <2>1. PICK X, J :
          X[0] = x /\ J[0] = j /\ X[N] = z /\ J[N] = e /\ SumSteps(t, D, N, X, J)
    BY <2>1a
  <2> DEFINE Xs == [k \in 0..N + 1 |-> IF k = N + 1 THEN y ELSE X[k]]
             Js == [k \in 0..N + 1 |-> IF k = N + 1 THEN m ELSE J[k]]
  <2>2. /\ N + 1 \in Nat /\ Xs[0] = x /\ Js[0] = j /\ Xs[N] = z /\ Js[N] = e
        /\ Xs[N + 1] = y /\ Js[N + 1] = m
    BY <2>1
  <2>3. \A k \in 0..N : Xs[k] = X[k] /\ Js[k] = J[k]
    OBVIOUS
  <2> HIDE DEF Xs, Js
  <2>4. SumSteps(t, D, N + 1, Xs, Js)
    <3>1. ASSUME NEW k \in 0..(N + 1) - 1
          PROVE  Js[k] \in 0..n - 1 /\ Js[k + 1] \in 0..n - 1 /\ IsTerm(t, D, Xs[k], Js[k], Xs[k + 1], Js[k + 1])
      <4>1. CASE k = N
        BY <1>3, <2>2, <4>1
      <4>2. CASE k # N
        <5>1. k \in 0..N - 1 /\ k \in 0..N /\ k + 1 \in 0..N
          BY <4>2
        <5> QED BY <2>1, <2>3, <5>1 DEF SumSteps
      <4> QED BY <4>1, <4>2
    <3> QED BY <3>1 DEF SumSteps
  <2> QED BY <2>2, <2>4 DEF SumTail
<1> QED BY <1>1, <1>2, <1>3

(* parseAdditive: a first term, and then the rest of the sum.                  *)
SumFrom(t, D, i, y, m) ==
  \E j \in 0..Len(t) - 1 : \E x \in D[<<"Atom", i, j>>] : SumTail(t, D, x, j, y, m)

LEMMA SumGrows ==
  ASSUME NEW t, NEW D, Reading(t, D), NEW i \in 1..Len(t), NEW m \in 0..Len(t) - 1, NEW y
  PROVE  SumFrom(t, D, i, y, m) <=>
           \/ y \in D[<<"Atom", i, m>>]
           \/ \E e \in 0..Len(t) - 1 : \E z : SumFrom(t, D, i, z, e) /\ IsTerm(t, D, z, e, y, m)
<1> DEFINE n == Len(t)
<1>1. n \in Nat
  BY StreamShape
<1>2. ASSUME SumFrom(t, D, i, y, m)
      PROVE  \/ y \in D[<<"Atom", i, m>>]
             \/ \E e \in 0..n - 1 : \E z : SumFrom(t, D, i, z, e) /\ IsTerm(t, D, z, e, y, m)
  <2>1a. PICK j \in 0..n - 1 : \E x : x \in D[<<"Atom", i, j>>] /\ SumTail(t, D, x, j, y, m)
    BY <1>2 DEF SumFrom
  <2>1. PICK x : x \in D[<<"Atom", i, j>>] /\ SumTail(t, D, x, j, y, m)
    BY <2>1a
  <2>2. \/ x = y /\ j = m
        \/ \E e \in 0..n - 1 : \E z : SumTail(t, D, x, j, z, e) /\ IsTerm(t, D, z, e, y, m)
    BY <1>1, <2>1, SumRight
  <2> QED BY <2>1, <2>2 DEF SumFrom
<1>3. ASSUME y \in D[<<"Atom", i, m>>] PROVE SumFrom(t, D, i, y, m)
  <2>1. SumTail(t, D, y, m, y, m)
    BY <1>1, SumLeft
  <2> QED BY <1>3, <2>1 DEF SumFrom
<1>4. ASSUME NEW e \in 0..n - 1, NEW z, SumFrom(t, D, i, z, e), IsTerm(t, D, z, e, y, m)
      PROVE  SumFrom(t, D, i, y, m)
  <2>1a. PICK j \in 0..n - 1 : \E x : x \in D[<<"Atom", i, j>>] /\ SumTail(t, D, x, j, z, e)
    BY <1>4 DEF SumFrom
  <2>1. PICK x : x \in D[<<"Atom", i, j>>] /\ SumTail(t, D, x, j, z, e)
    BY <2>1a
  <2>2. SumTail(t, D, x, j, y, m)
    BY <1>1, <1>4, <2>1, SumRight
  <2> QED BY <2>1, <2>2 DEF SumFrom
<1> QED BY <1>2, <1>3, <1>4

LEMMA AdditiveGrows ==
  ASSUME NEW t, NEW D, Reading(t, D), NEW i \in 1..Len(t), NEW m \in 0..Len(t) - 1, NEW y
  PROVE  y \in D[<<"Additive", i, m>>] <=>
           \/ y \in D[<<"Atom", i, m>>]
           \/ \E e \in 0..Len(t) - 1 : \E z \in D[<<"Additive", i, e>>] : IsTerm(t, D, z, e, y, m)
<1> DEFINE n == Len(t)
           ops == {"Plus"}
           Infix == IsInfix(t, Numbers(t), D, "Additive", ops, "Additive", "Atom", i, m, y)
           More == \E e \in 0..n - 1 : \E z \in D[<<"Additive", i, e>>] : IsTerm(t, D, z, e, y, m)
<1>1. {"Additive", "Atom"} \subseteq Levels /\ "EOF" \notin ops
  BY LevelNames
<1>2. Infix <=> More
  <2>1. Infix <=> HasRight(t, D, "Additive", ops, "Additive", "Atom", i, m, y)
    BY <1>1, InfixFrom
  <2> QED BY <2>1 DEF HasRight, IsTerm
<1>3. CASE i > m
  <2>1. D[<<"Additive", i, m>>] = {} /\ D[<<"Atom", i, m>>] = {}
    BY <1>1, <1>3, Production
  <2>2. Splits(t, i, m, ops) = {}
    BY <1>1, <1>3, Production DEF Splits
  <2>3. ~Infix
    BY <2>2 DEF IsInfix
  <2> QED BY <1>2, <2>1, <2>3
<1>4. CASE ~(i > m)
  <2>1. D[<<"Additive", i, m>>] = D[<<"Atom", i, m>>] \cup
          Infixes(t, Numbers(t), D, "Additive", ops, "Additive", "Atom", i, m)
    BY <1>1, <1>4, Production, AdditiveIs
  <2>2. y \in Infixes(t, Numbers(t), D, "Additive", ops, "Additive", "Atom", i, m) <=> Infix
    BY InfixMember
  <2> HIDE DEF Infix
  <2> QED BY <1>2, <2>1, <2>2
<1> QED BY <1>3, <1>4

LEMMA SumIsAdditive ==
  ASSUME NEW t, NEW D, Reading(t, D), NEW i \in 1..Len(t)
  PROVE  \A m \in 0..Len(t) - 1 : \A y : y \in D[<<"Additive", i, m>>] <=> SumFrom(t, D, i, y, m)
<1> DEFINE n == Len(t)
           Same(m) == \A y : y \in D[<<"Additive", i, m>>] <=> SumFrom(t, D, i, y, m)
           Good(k) == \A m \in 0..n - 1 : m < k => Same(m)
           Fit == {k \in 0..n : Good(k)}
<1>1. n \in Nat /\ "Atom" \in Levels
  BY StreamShape, LevelNames
<1>2. \A m \in 0..n - 1 : \A y : \A e \in 0..n - 1 : \A z : IsTerm(t, D, z, e, y, m) => e < m
  <2> SUFFICES ASSUME NEW m \in 0..n - 1, NEW y, NEW e \in 0..n - 1, NEW z, IsTerm(t, D, z, e, y, m)
               PROVE  e < m
    OBVIOUS
  <2>1. t[e + 1] = "Plus" /\ \E b : b \in D[<<"Atom", e + 2, m>>]
    BY DEF IsTerm, IsRight
  <2>2. e + 2 \in 1..n
    BY <2>1, StreamShape
  <2>3. e + 2 <= m
    BY <1>1, <2>1, <2>2, Inside
  <2> QED BY <2>3
<1>3. ASSUME NEW k \in 0..n - 1, Good(k) PROVE Good(k + 1)
  <2> SUFFICES ASSUME NEW m \in 0..n - 1, m < k + 1, NEW y
               PROVE  y \in D[<<"Additive", i, m>>] <=> SumFrom(t, D, i, y, m)
    OBVIOUS
  <2>1. ASSUME NEW e \in 0..n - 1, NEW z, IsTerm(t, D, z, e, y, m)
        PROVE  z \in D[<<"Additive", i, e>>] <=> SumFrom(t, D, i, z, e)
    <3>1. e < m
      BY <1>2, <2>1
    <3>2. e < k
      BY <3>1
    <3> QED BY <1>3, <3>2
  <2>2. (\E e \in 0..n - 1 : \E z \in D[<<"Additive", i, e>>] : IsTerm(t, D, z, e, y, m)) <=>
        (\E e \in 0..n - 1 : \E z : SumFrom(t, D, i, z, e) /\ IsTerm(t, D, z, e, y, m))
    BY <2>1
  <2>3. y \in D[<<"Additive", i, m>>] <=>
           \/ y \in D[<<"Atom", i, m>>]
           \/ \E e \in 0..n - 1 : \E z \in D[<<"Additive", i, e>>] : IsTerm(t, D, z, e, y, m)
    BY AdditiveGrows
  <2>4. SumFrom(t, D, i, y, m) <=>
           \/ y \in D[<<"Atom", i, m>>]
           \/ \E e \in 0..n - 1 : \E z : SumFrom(t, D, i, z, e) /\ IsTerm(t, D, z, e, y, m)
    BY SumGrows
  <2> QED BY <2>2, <2>3, <2>4
<1>4. n \in Fit
  <2>1. 0 \in Fit
    BY <1>1
  <2>2. \A k \in 0..n - 1 : k \in Fit => k + 1 \in Fit
    <3> SUFFICES ASSUME NEW k \in 0..n - 1, k \in Fit PROVE k + 1 \in Fit
      OBVIOUS
    <3>1. Good(k)
      OBVIOUS
    <3>2. k + 1 \in 0..n
      BY <1>1
    <3>3. Good(k + 1)
      BY <1>3, <3>1
    <3> HIDE DEF Good
    <3> QED BY <3>2, <3>3
  <2>3. n \in Nat
    BY <1>1
  <2> HIDE DEF Fit, n
  <2>4. \A k \in 0..n : k \in Fit
    BY <2>1, <2>2, <2>3, Induction, Zenon
  <2> QED BY <2>3, <2>4
<1>5. Good(n)
  BY <1>4
<1>6. \A m \in 0..n - 1 : m < n
  BY <1>1
<1> QED BY <1>5, <1>6

LEMMA AdditiveDescends ==
  ASSUME NEW t, NEW D, Reading(t, D), NEW i \in 1..Len(t), NEW m \in 0..Len(t) - 1, NEW y
  PROVE  y \in D[<<"Additive", i, m>>] <=> Found(t, D, "Atom", i, Frame("Additive", <<>>, i), y, m)
<1> DEFINE f == Frame("Additive", <<>>, i)
<1>1. f.fn = "Additive" /\ f.kids = <<>>
  BY FrameIs
<1> HIDE DEF f
<1>2. \A x, j : Via(t, D, f, x, j, y, m) <=> SumTail(t, D, x, j, y, m)
  <2> SUFFICES ASSUME NEW x, NEW j PROVE Via(t, D, f, x, j, y, m) <=> SumTail(t, D, x, j, y, m)
    OBVIOUS
  <2>1. Via(t, D, f, x, j, y, m) <=> AdditiveVia(t, D, f, x, j, y, m)
    BY <1>1, ViaIs
  <2> QED BY <1>1, <2>1 DEF AdditiveVia
<1>3. y \in D[<<"Additive", i, m>>] <=> SumFrom(t, D, i, y, m)
  BY SumIsAdditive
<1>4. Found(t, D, "Atom", i, f, y, m) <=> SumFrom(t, D, i, y, m)
  BY <1>2 DEF Found, SumFrom
<1> QED BY <1>3, <1>4 DEF f

-----------------------------------------------------------------------------
(* Atoms.  What a closing token ends.                                          *)
LEMMA Enclosed ==
  ASSUME NEW t, NEW D, Reading(t, D), NEW nt \in Levels, NEW p \in 1..Len(t), NEW m \in 0..Len(t) - 1,
         NEW c, NEW j \in 0..Len(t) - 1, NEW x
  PROVE  x \in D[<<nt, p, j>>] /\ Closes(t, c, j, m) <=>
           m > p /\ t[m] = c /\ j = m - 1 /\ x \in D[<<nt, p, m - 1>>]
<1>1. Len(t) \in Nat \ {0} /\ p \in Int /\ m \in Int /\ j \in Int
  BY StreamShape
<1>2. ASSUME x \in D[<<nt, p, j>>], Closes(t, c, j, m)
      PROVE  m > p /\ t[m] = c /\ j = m - 1 /\ x \in D[<<nt, p, m - 1>>]
  <2>1. t[j + 1] = c /\ m = j + 1
    BY <1>2 DEF Closes
  <2>2. p <= j
    BY <1>2, Inside
  <2>3. j = m - 1 /\ m > p
    BY <1>1, <2>1, <2>2
  <2> QED BY <1>2, <2>1, <2>3
<1>3. ASSUME m > p, t[m] = c, j = m - 1, x \in D[<<nt, p, m - 1>>]
      PROVE  x \in D[<<nt, p, j>>] /\ Closes(t, c, j, m)
  <2>1. j + 1 = m
    BY <1>1, <1>3
  <2> QED BY <1>3, <2>1 DEF Closes
<1> QED BY <1>2, <1>3

LEMMA AtomFrom ==
  ASSUME NEW t, NEW D, Reading(t, D), NEW i \in 1..Len(t), NEW m \in 0..Len(t) - 1, ~(i > m)
  PROVE  /\ D[<<"Atom", i, m>>] = Atoms(t, Numbers(t), D, i, m)
         /\ D[<<"Hop", i, m>>] = Hops(t, Numbers(t), D, i, m)
<1>1. D[<<"Atom", i, m>>] = Atoms(t, Numbers(t), D, i, m)
  BY Production, LevelNames, AtomIs
<1>2. D[<<"Hop", i, m>>] = Hops(t, Numbers(t), D, i, m)
  BY Production, LevelNames, HopIs
<1> QED BY <1>1, <1>2

LEMMA NoAtom ==
  ASSUME NEW t, NEW D, Reading(t, D), NEW i \in 1..Len(t), NEW m \in 0..Len(t) - 1, i > m
  PROVE  D[<<"Atom", i, m>>] = {} /\ D[<<"Hop", i, m>>] = {}
BY Production, LevelNames

LEMMA PlaceFits ==
  ASSUME NEW t, NEW D, Reading(t, D), NEW i \in 1..Len(t)
  PROVE  /\ i \in Int /\ Len(t) \in Nat \ {0} /\ Numbers(t)[i] = i
         /\ t[i] # "EOF" => i + 1 \in 1..Len(t)
BY StreamShape

(* What an encloser makes of what it encloses.                                 *)
Enclosers == {"Paren", "Array", "ClassCall", "MemberOf"}

Wrapped(t, f, x) ==
  CASE f.fn = "Paren" -> x
    [] f.fn = "Array" -> ArrayOf(f.at, x)
    [] f.fn = "ClassCall" -> Tree("ClassCall", t[f.at], f.at, <<x>>)
    [] f.fn = "MemberOf" -> Tree("MemberOfExpr", t[f.at], f.at, <<x>>)

LEMMA WrapVia ==
  ASSUME NEW t, NEW D, NEW f, f.fn \in Enclosers, NEW x, NEW j, NEW y, NEW m
  PROVE  Via(t, D, f, x, j, y, m) <=> Closes(t, Closer(f.fn), j, m) /\ y = Wrapped(t, f, x)
<1>1. CASE f.fn = "Paren"
  BY <1>1 DEF Via, Wrapped, Closer
<1>2. CASE f.fn = "Array"
  BY <1>2 DEF Via, Wrapped, Closer
<1>3. CASE f.fn = "ClassCall"
  BY <1>3 DEF Via, Wrapped, Closer
<1>4. CASE f.fn = "MemberOf"
  BY <1>4 DEF Via, Wrapped, Closer
<1> QED BY <1>1, <1>2, <1>3, <1>4 DEF Enclosers

Wrapping(t, D, nt, p, f, y, m) ==
  m > p /\ t[m] = Closer(f.fn) /\ \E x \in D[<<nt, p, m - 1>>] : y = Wrapped(t, f, x)

LEMMA WrapFound ==
  ASSUME NEW t, NEW D, Reading(t, D), NEW nt \in Levels, NEW p \in 1..Len(t), NEW m \in 0..Len(t) - 1,
         NEW f, f.fn \in Enclosers, NEW y
  PROVE  Found(t, D, nt, p, f, y, m) <=> Wrapping(t, D, nt, p, f, y, m)
<1> DEFINE n == Len(t)
           c == Closer(f.fn)
           W(x) == Wrapped(t, f, x)
<1>1. \A j \in 0..n - 1 : \A x : x \in D[<<nt, p, j>>] /\ Closes(t, c, j, m) <=>
           m > p /\ t[m] = c /\ j = m - 1 /\ x \in D[<<nt, p, m - 1>>]
  BY Enclosed
<1>2. \A j, x : Via(t, D, f, x, j, y, m) <=> Closes(t, c, j, m) /\ y = W(x)
  BY WrapVia
<1>3. m > p => m - 1 \in 0..n - 1
  BY StreamShape
<1> HIDE DEF c, W, n
<1>4. ASSUME NEW j \in 0..n - 1, NEW x \in D[<<nt, p, j>>], Via(t, D, f, x, j, y, m)
      PROVE  m > p /\ t[m] = c /\ x \in D[<<nt, p, m - 1>>] /\ y = W(x)
  BY <1>1, <1>2, <1>4
<1>5. ASSUME m > p, t[m] = c, NEW x \in D[<<nt, p, m - 1>>], y = W(x)
      PROVE  \E j \in 0..n - 1 : \E z \in D[<<nt, p, j>>] : Via(t, D, f, z, j, y, m)
  <2>1. m - 1 \in 0..n - 1
    BY <1>3, <1>5
  <2>2. Via(t, D, f, x, m - 1, y, m)
    BY <1>1, <1>2, <1>5, <2>1
  <2> QED BY <1>5, <2>1, <2>2
<1> QED BY <1>4, <1>5 DEF Found, Wrapping, c, W, n

(* Which tokens are which.                                                     *)
LEMMA TokenKinds ==
  /\ LiteralTokens \cap (MemberOfTokens \cup {"LParen", "LBrace", "Class", "User", "Name", "EOF"}) = {}
  /\ MemberOfTokens \cap {"LParen", "LBrace", "Class", "User", "Name", "EOF"} = {}
BY DEF LiteralTokens, MemberOfTokens

LEMMA AtomsAre ==
  ASSUME NEW t, NEW at, NEW D, NEW i, NEW m
  PROVE  /\ t[i] \in LiteralTokens =>
              Atoms(t, at, D, i, m) = IF i = m THEN {Tree("Literal", t[i], at[i], <<>>)} ELSE {}
         /\ t[i] = "LParen" =>
              Atoms(t, at, D, i, m) = IF t[m] = "RParen" THEN D[<<"Expr", i + 1, m - 1>>] ELSE {}
         /\ t[i] = "LBrace" => Atoms(t, at, D, i, m) = Arrays(t, at, D, i, m)
         /\ t[i] \in MemberOfTokens =>
              /\ Atoms(t, at, D, i, m) = Calls(t, at, D, "MemberOfExpr", i + 1, i, m)
              /\ Hops(t, at, D, i, m) = Calls(t, at, D, "MemberOfExpr", i + 1, i, m)
         /\ t[i] = "Class" =>
              Atoms(t, at, D, i, m) =
                IF m > i + 2 /\ t[i + 1] = "Dot" /\ t[i + 2] = "Name"
                  THEN Calls(t, at, D, "ClassCall", i + 3, i, m) ELSE {}
         /\ t[i] \in {"User", "Name"} => Atoms(t, at, D, i, m) = Paths(t, at, D, i, m)
         /\ t[i] \notin LiteralTokens \cup MemberOfTokens \cup {"LParen", "LBrace", "Class", "User", "Name"} =>
              Atoms(t, at, D, i, m) = {}
         /\ t[i] = "Name" => Hops(t, at, D, i, m) = IF i = m THEN {Tree("NameHop", "Name", at[i], <<>>)} ELSE {}
         /\ t[i] \notin MemberOfTokens \cup {"Name"} => Hops(t, at, D, i, m) = {}
<1>1. /\ t[i] \in LiteralTokens =>
           Atoms(t, at, D, i, m) = IF i = m THEN {Tree("Literal", t[i], at[i], <<>>)} ELSE {}
      /\ t[i] = "LParen" =>
           Atoms(t, at, D, i, m) = IF t[m] = "RParen" THEN D[<<"Expr", i + 1, m - 1>>] ELSE {}
  BY TokenKinds DEF Atoms
<1>2. t[i] = "LBrace" => Atoms(t, at, D, i, m) = Arrays(t, at, D, i, m)
  BY TokenKinds DEF Atoms
<1>3. t[i] \in MemberOfTokens =>
              /\ Atoms(t, at, D, i, m) = Calls(t, at, D, "MemberOfExpr", i + 1, i, m)
              /\ Hops(t, at, D, i, m) = Calls(t, at, D, "MemberOfExpr", i + 1, i, m)
  BY TokenKinds DEF Atoms, Hops
<1>4. t[i] = "Class" =>
              Atoms(t, at, D, i, m) =
                IF m > i + 2 /\ t[i + 1] = "Dot" /\ t[i + 2] = "Name"
                  THEN Calls(t, at, D, "ClassCall", i + 3, i, m) ELSE {}
  BY TokenKinds DEF Atoms
<1>5. t[i] \in {"User", "Name"} => Atoms(t, at, D, i, m) = Paths(t, at, D, i, m)
  BY TokenKinds DEF Atoms
<1>6. t[i] \notin LiteralTokens \cup MemberOfTokens \cup {"LParen", "LBrace", "Class", "User", "Name"} =>
              Atoms(t, at, D, i, m) = {}
  BY TokenKinds DEF Atoms
<1>7. /\ t[i] = "Name" => Hops(t, at, D, i, m) = IF i = m THEN {Tree("NameHop", "Name", at[i], <<>>)} ELSE {}
      /\ t[i] \notin MemberOfTokens \cup {"Name"} => Hops(t, at, D, i, m) = {}
  BY TokenKinds DEF Hops
<1> QED BY <1>1, <1>2, <1>3, <1>4, <1>5, <1>6, <1>7


(* What an atom or a hop holds, by its first token.                            *)
LEMMA LiteralAtom ==
  ASSUME NEW t, NEW at, NEW D, NEW i, NEW m, NEW y, t[i] \in LiteralTokens
  PROVE  y \in Atoms(t, at, D, i, m) <=> m = i /\ y = Tree("Literal", t[i], at[i], <<>>)
<1>1. Atoms(t, at, D, i, m) = IF i = m THEN {Tree("Literal", t[i], at[i], <<>>)} ELSE {}
  BY AtomsAre
<1>2. CASE i = m
  BY <1>1, <1>2
<1>3. CASE i # m
  BY <1>1, <1>3
<1> QED BY <1>2, <1>3

LEMMA NameAtom ==
  ASSUME NEW t, NEW at, NEW D, NEW i, NEW m, NEW y, t[i] = "Name"
  PROVE  y \in Hops(t, at, D, i, m) <=> m = i /\ y = Tree("NameHop", "Name", at[i], <<>>)
<1>1. Hops(t, at, D, i, m) = IF i = m THEN {Tree("NameHop", "Name", at[i], <<>>)} ELSE {}
  BY AtomsAre
<1>2. CASE i = m
  BY <1>1, <1>2
<1>3. CASE i # m
  BY <1>1, <1>3
<1> QED BY <1>2, <1>3

IsCall(t, here, D, kind, open, i, m, y) ==
  /\ open < m /\ t[open] = "LParen" /\ t[m] = "RParen"
  /\ \E x \in D[<<"Branch", open + 1, m - 1>>] : y = Tree(kind, t[i], here, <<x>>)

LEMMA CallMember ==
  ASSUME NEW t, NEW at, NEW D, NEW kind, NEW open, NEW i, NEW m, NEW y
  PROVE  y \in Calls(t, at, D, kind, open, i, m) <=> IsCall(t, at[i], D, kind, open, i, m, y)
<1> DEFINE As == D[<<"Branch", open + 1, m - 1>>]
           S == {Tree(kind, t[i], at[i], <<x>>) : x \in As}
<1>1. y \in S <=> \E x \in As : y = Tree(kind, t[i], at[i], <<x>>)
  OBVIOUS
<1>2. Calls(t, at, D, kind, open, i, m) = IF open < m /\ t[open] = "LParen" /\ t[m] = "RParen" THEN S ELSE {}
  BY DEF Calls
<1> HIDE DEF S, As
<1>3. CASE open < m /\ t[open] = "LParen" /\ t[m] = "RParen"
  BY <1>1, <1>2, <1>3 DEF IsCall, As
<1>4. CASE ~(open < m /\ t[open] = "LParen" /\ t[m] = "RParen")
  BY <1>2, <1>4 DEF IsCall
<1> QED BY <1>3, <1>4

IsArray(t, here, D, i, m, y) ==
  t[m] = "RBrace" /\ \E x \in D[<<"Branch", i + 1, m - 1>>] : y = ArrayOf(here, x)

LEMMA ArrayMember ==
  ASSUME NEW t, NEW at, NEW D, NEW i, NEW m, NEW y
  PROVE  y \in Arrays(t, at, D, i, m) <=> IsArray(t, at[i], D, i, m, y)
<1> DEFINE As == D[<<"Branch", i + 1, m - 1>>]
           S == {Tree("ArrayLit", "LBrace", at[i], IF x.kind = "CommaList" THEN x.kids ELSE <<x>>) : x \in As}
<1>1. y \in S <=> \E x \in As : y = ArrayOf(at[i], x)
  <2> HIDE DEF As
  <2> QED BY DEF ArrayOf
<1>2. Arrays(t, at, D, i, m) = IF t[m] # "RBrace" THEN {} ELSE S
  BY DEF Arrays
<1> HIDE DEF S
<1>3. CASE t[m] = "RBrace"
  BY <1>1, <1>2, <1>3 DEF IsArray
<1>4. CASE t[m] # "RBrace"
  BY <1>2, <1>4 DEF IsArray
<1> QED BY <1>3, <1>4

IsPath(t, here, D, i, m, y) ==
  \/ m = i /\ y = Tree("PathExpr", t[i], here, <<>>)
  \/ m # i /\ t[i + 1] = "Dot" /\ \E l \in D[<<"Hops", i + 2, m>>] : y = Tree("PathExpr", t[i], here, l)

LEMMA PathMember ==
  ASSUME NEW t, NEW at, NEW D, NEW i, NEW m, NEW y
  PROVE  y \in Paths(t, at, D, i, m) <=> IsPath(t, at[i], D, i, m, y)
<1> DEFINE As == D[<<"Hops", i + 2, m>>]
           S == {Tree("PathExpr", t[i], at[i], l) : l \in As}
<1>1. y \in S <=> \E l \in As : y = Tree("PathExpr", t[i], at[i], l)
  OBVIOUS
<1>2. Paths(t, at, D, i, m) = IF i = m THEN {Tree("PathExpr", t[i], at[i], <<>>)}
                              ELSE IF t[i + 1] # "Dot" THEN {} ELSE S
  BY DEF Paths
<1> HIDE DEF S, As
<1>3. CASE i = m
  BY <1>2, <1>3 DEF IsPath
<1>4. CASE i # m /\ t[i + 1] = "Dot"
  BY <1>1, <1>2, <1>4 DEF IsPath, As
<1>5. CASE i # m /\ t[i + 1] # "Dot"
  BY <1>2, <1>5 DEF IsPath
<1> QED BY <1>3, <1>4, <1>5

LEMMA ArrayAtom ==
  ASSUME NEW t, NEW at, NEW D, NEW i, NEW m, NEW y, t[i] = "LBrace"
  PROVE  y \in Atoms(t, at, D, i, m) <=> IsArray(t, at[i], D, i, m, y)
<1>1. Atoms(t, at, D, i, m) = Arrays(t, at, D, i, m)
  BY TokenKinds DEF Atoms, Hops
<1> QED BY <1>1, ArrayMember

LEMMA PathAtom ==
  ASSUME NEW t, NEW at, NEW D, NEW i, NEW m, NEW y, t[i] \in {"User", "Name"}
  PROVE  y \in Atoms(t, at, D, i, m) <=> IsPath(t, at[i], D, i, m, y)
<1>1. Atoms(t, at, D, i, m) = Paths(t, at, D, i, m)
  BY TokenKinds DEF Atoms, Hops
<1> QED BY <1>1, PathMember

LEMMA MemberOfAtom ==
  ASSUME NEW t, NEW at, NEW D, NEW i, NEW m, NEW y, t[i] \in MemberOfTokens
  PROVE  /\ y \in Atoms(t, at, D, i, m) <=> IsCall(t, at[i], D, "MemberOfExpr", i + 1, i, m, y)
         /\ y \in Hops(t, at, D, i, m) <=> IsCall(t, at[i], D, "MemberOfExpr", i + 1, i, m, y)
<1>1. /\ Atoms(t, at, D, i, m) = Calls(t, at, D, "MemberOfExpr", i + 1, i, m)
      /\ Hops(t, at, D, i, m) = Calls(t, at, D, "MemberOfExpr", i + 1, i, m)
  BY TokenKinds DEF Atoms, Hops
<1> QED BY <1>1, CallMember

LEMMA ClassAtom ==
  ASSUME NEW t, NEW at, NEW D, NEW i, NEW m, NEW y, t[i] = "Class"
  PROVE  y \in Atoms(t, at, D, i, m) <=>
           /\ m > i + 2 /\ t[i + 1] = "Dot" /\ t[i + 2] = "Name"
           /\ IsCall(t, at[i], D, "ClassCall", i + 3, i, m, y)
<1>1. Atoms(t, at, D, i, m) =
        IF m > i + 2 /\ t[i + 1] = "Dot" /\ t[i + 2] = "Name"
          THEN Calls(t, at, D, "ClassCall", i + 3, i, m) ELSE {}
  BY AtomsAre
<1>2. y \in Calls(t, at, D, "ClassCall", i + 3, i, m) <=> IsCall(t, at[i], D, "ClassCall", i + 3, i, m, y)
  BY CallMember
<1>3. CASE m > i + 2 /\ t[i + 1] = "Dot" /\ t[i + 2] = "Name"
  BY <1>1, <1>2, <1>3
<1>4. CASE ~(m > i + 2 /\ t[i + 1] = "Dot" /\ t[i + 2] = "Name")
  BY <1>1, <1>4
<1> QED BY <1>3, <1>4

-----------------------------------------------------------------------------
(* parsePrimary and parseAtom, by the first token.                             *)
LEMMA LiteralFound ==
  ASSUME NEW t, NEW D, Reading(t, D), NEW i \in 1..Len(t), t[i] \in LiteralTokens,
         NEW m \in 0..Len(t) - 1, NEW y
  PROVE  y \in D[<<"Atom", i, m>>] <=> m = i /\ y = Tree("Literal", t[i], i, <<>>)
<1>1. y \in Atoms(t, Numbers(t), D, i, m) <=> m = i /\ y = Tree("Literal", t[i], Numbers(t)[i], <<>>)
  BY LiteralAtom
<1>2. Numbers(t)[i] = i /\ i \in Int /\ m \in Int
  BY PlaceFits
<1>3. CASE i > m
  <2>1. D[<<"Atom", i, m>>] = {}
    BY <1>3, NoAtom
  <2>2. m # i
    BY <1>2, <1>3
  <2> QED BY <2>1, <2>2
<1>4. CASE ~(i > m)
  <2>1. D[<<"Atom", i, m>>] = Atoms(t, Numbers(t), D, i, m)
    BY <1>4, AtomFrom
  <2> QED BY <1>1, <1>2, <2>1
<1> QED BY <1>3, <1>4

LEMMA NameHopFound ==
  ASSUME NEW t, NEW D, Reading(t, D), NEW i \in 1..Len(t), t[i] = "Name",
         NEW m \in 0..Len(t) - 1, NEW y
  PROVE  y \in D[<<"Hop", i, m>>] <=> m = i /\ y = Tree("NameHop", "Name", i, <<>>)
<1>1. y \in Hops(t, Numbers(t), D, i, m) <=> m = i /\ y = Tree("NameHop", "Name", Numbers(t)[i], <<>>)
  BY NameAtom
<1>2. Numbers(t)[i] = i /\ i \in Int /\ m \in Int
  BY PlaceFits
<1>3. CASE i > m
  <2>1. D[<<"Hop", i, m>>] = {}
    BY <1>3, NoAtom
  <2>2. m # i
    BY <1>2, <1>3
  <2> QED BY <2>1, <2>2
<1>4. CASE ~(i > m)
  <2>1. D[<<"Hop", i, m>>] = Hops(t, Numbers(t), D, i, m)
    BY <1>4, AtomFrom
  <2> QED BY <1>1, <1>2, <2>1
<1> QED BY <1>3, <1>4

LEMMA ParenDescends ==
  ASSUME NEW t, NEW D, Reading(t, D), NEW i \in 1..Len(t), t[i] = "LParen", NEW m \in 0..Len(t) - 1, NEW y
  PROVE  y \in D[<<"Atom", i, m>>] <=> Found(t, D, "Expr", i + 1, Frame("Paren", <<>>, i), y, m)
<1> DEFINE f == Frame("Paren", <<>>, i)
<1>1. i \in Int /\ m \in Int /\ i + 1 \in 1..Len(t) /\ f.fn = "Paren" /\ f.fn \in Enclosers /\ Closer(f.fn) = "RParen"
  <2>1. i \in Int /\ m \in Int /\ i + 1 \in 1..Len(t)
    BY PlaceFits
  <2> QED BY <2>1 DEF Frame, Enclosers, Closer
<1>2. \A x : Wrapped(t, f, x) = x
  BY DEF Wrapped, Frame
<1> HIDE DEF f
<1>3. Found(t, D, "Expr", i + 1, f, y, m) <=>
        m > i + 1 /\ t[m] = "RParen" /\ y \in D[<<"Expr", i + 1, m - 1>>]
  <2>1. Found(t, D, "Expr", i + 1, f, y, m) <=> Wrapping(t, D, "Expr", i + 1, f, y, m)
    BY <1>1, WrapFound, LevelNames
  <2> QED BY <1>1, <1>2, <2>1 DEF Wrapping
<1>4. CASE i > m
  <2>1. D[<<"Atom", i, m>>] = {}
    BY <1>4, NoAtom
  <2>2. ~(m > i + 1)
    BY <1>1, <1>4
  <2> QED BY <1>3, <2>1, <2>2 DEF f
<1>5. CASE ~(i > m)
  <2>1. Atoms(t, Numbers(t), D, i, m) = IF t[m] = "RParen" THEN D[<<"Expr", i + 1, m - 1>>] ELSE {}
    BY AtomsAre
  <2>2. D[<<"Atom", i, m>>] = Atoms(t, Numbers(t), D, i, m)
    BY <1>5, AtomFrom
  <2>3. CASE m > i + 1
    BY <1>3, <2>1, <2>2, <2>3 DEF f
  <2>4. CASE ~(m > i + 1)
    <3>1. m - 1 \in 0..Len(t) - 1 /\ i + 1 > m - 1
      BY <1>1, <1>5, <2>4
    <3>2. D[<<"Expr", i + 1, m - 1>>] = {}
      BY <1>1, <3>1, Production, LevelNames
    <3> QED BY <1>3, <2>1, <2>2, <2>4, <3>2 DEF f
  <2> QED BY <2>3, <2>4
<1> QED BY <1>4, <1>5

LEMMA ArrayDescends ==
  ASSUME NEW t, NEW D, Reading(t, D), NEW i \in 1..Len(t), t[i] = "LBrace", NEW m \in 0..Len(t) - 1, NEW y
  PROVE  y \in D[<<"Atom", i, m>>] <=> Found(t, D, "Branch", i + 1, Frame("Array", <<>>, i), y, m)
<1> DEFINE f == Frame("Array", <<>>, i)
<1>1. /\ i \in Int /\ m \in Int /\ i + 1 \in 1..Len(t) /\ f.fn = "Array" /\ f.fn \in Enclosers
      /\ Closer(f.fn) = "RBrace" /\ Numbers(t)[i] = i
  <2>1. i \in Int /\ m \in Int /\ i + 1 \in 1..Len(t) /\ Numbers(t)[i] = i
    BY PlaceFits
  <2> QED BY <2>1 DEF Frame, Enclosers, Closer
<1>2. \A x : Wrapped(t, f, x) = ArrayOf(i, x)
  BY DEF Wrapped, Frame
<1> HIDE DEF f
<1>3. Found(t, D, "Branch", i + 1, f, y, m) <=>
        m > i + 1 /\ t[m] = "RBrace" /\ \E x \in D[<<"Branch", i + 1, m - 1>>] : y = ArrayOf(i, x)
  <2>1. Found(t, D, "Branch", i + 1, f, y, m) <=> Wrapping(t, D, "Branch", i + 1, f, y, m)
    BY <1>1, WrapFound, LevelNames
  <2> QED BY <1>1, <1>2, <2>1 DEF Wrapping
<1>4. CASE i > m
  <2>1. D[<<"Atom", i, m>>] = {}
    BY <1>4, NoAtom
  <2>2. ~(m > i + 1)
    BY <1>1, <1>4
  <2> QED BY <1>3, <2>1, <2>2 DEF f
<1>5. CASE ~(i > m)
  <2>1. y \in Atoms(t, Numbers(t), D, i, m) <=>
          t[m] = "RBrace" /\ \E x \in D[<<"Branch", i + 1, m - 1>>] : y = ArrayOf(i, x)
    <3>1. y \in Atoms(t, Numbers(t), D, i, m) <=> IsArray(t, Numbers(t)[i], D, i, m, y)
      BY ArrayAtom
    <3> QED BY <1>1, <3>1 DEF IsArray
  <2>2. D[<<"Atom", i, m>>] = Atoms(t, Numbers(t), D, i, m)
    BY <1>5, AtomFrom
  <2>3. CASE m > i + 1
    BY <1>3, <2>1, <2>2, <2>3 DEF f
  <2>4. CASE ~(m > i + 1)
    <3>1. m - 1 \in 0..Len(t) - 1 /\ i + 1 > m - 1
      BY <1>1, <1>5, <2>4
    <3>2. D[<<"Branch", i + 1, m - 1>>] = {}
      BY <1>1, <3>1, Production, LevelNames
    <3> QED BY <1>3, <2>1, <2>2, <2>4, <3>2 DEF f
  <2> QED BY <2>3, <2>4
<1> QED BY <1>4, <1>5

LEMMA CallFound ==
  ASSUME NEW t, NEW D, Reading(t, D), NEW open \in 1..Len(t), t[open] = "LParen", NEW m \in 0..Len(t) - 1,
         NEW i, NEW y, NEW fn \in {"ClassCall", "MemberOf"}, NEW kind,
         kind = IF fn = "ClassCall" THEN "ClassCall" ELSE "MemberOfExpr"
  PROVE  Found(t, D, "Branch", open + 1, Frame(fn, <<>>, i), y, m) <=> IsCall(t, i, D, kind, open, i, m, y)
<1> DEFINE f == Frame(fn, <<>>, i)
<1>1. /\ open \in Int /\ m \in Int /\ open + 1 \in 1..Len(t) /\ f.fn = fn /\ f.fn \in Enclosers
      /\ Closer(f.fn) = "RParen"
  <2>1. open \in Int /\ m \in Int /\ open + 1 \in 1..Len(t)
    BY PlaceFits
  <2> QED BY <2>1 DEF Frame, Enclosers, Closer
<1>2. \A x : Wrapped(t, f, x) = Tree(kind, t[i], i, <<x>>)
  <2>1. CASE fn = "ClassCall"
    BY <2>1 DEF Wrapped, Frame
  <2>2. CASE fn = "MemberOf"
    BY <2>2 DEF Wrapped, Frame
  <2> QED BY <2>1, <2>2
<1> HIDE DEF f
<1>3. Found(t, D, "Branch", open + 1, f, y, m) <=>
        m > open + 1 /\ t[m] = "RParen" /\ \E x \in D[<<"Branch", open + 1, m - 1>>] : y = Tree(kind, t[i], i, <<x>>)
  <2>1. Found(t, D, "Branch", open + 1, f, y, m) <=> Wrapping(t, D, "Branch", open + 1, f, y, m)
    BY <1>1, WrapFound, LevelNames
  <2> QED BY <1>1, <1>2, <2>1 DEF Wrapping
<1>4. CASE m > open + 1
  BY <1>1, <1>3, <1>4 DEF f, IsCall
<1>5. CASE ~(m > open + 1)
  <2>1. CASE open < m
    <3>1. m - 1 \in 0..Len(t) - 1 /\ open + 1 > m - 1
      BY <1>1, <1>5, <2>1
    <3>2. D[<<"Branch", open + 1, m - 1>>] = {}
      BY <1>1, <3>1, Production, LevelNames
    <3> QED BY <1>3, <1>5, <3>2 DEF f, IsCall
  <2> QED BY <1>3, <1>5, <2>1 DEF f, IsCall
<1> QED BY <1>4, <1>5

LEMMA MemberOfDescends ==
  ASSUME NEW t, NEW D, Reading(t, D), NEW i \in 1..Len(t), t[i] \in MemberOfTokens, t[i + 1] = "LParen",
         NEW m \in 0..Len(t) - 1, NEW y, NEW nt \in {"Atom", "Hop"}
  PROVE  y \in D[<<nt, i, m>>] <=> Found(t, D, "Branch", i + 2, Frame("MemberOf", <<>>, i), y, m)
<1>1. /\ i \in Int /\ m \in Int /\ i + 1 \in 1..Len(t) /\ Numbers(t)[i] = i /\ (i + 1) + 1 = i + 2
  BY PlaceFits, TokenKinds
<1>2. Found(t, D, "Branch", i + 2, Frame("MemberOf", <<>>, i), y, m) <=>
        IsCall(t, i, D, "MemberOfExpr", i + 1, i, m, y)
  <2>1. Found(t, D, "Branch", (i + 1) + 1, Frame("MemberOf", <<>>, i), y, m) <=>
          IsCall(t, i, D, "MemberOfExpr", i + 1, i, m, y)
    BY <1>1, CallFound
  <2> QED BY <1>1, <2>1
<1>3. CASE i > m
  <2>1. D[<<nt, i, m>>] = {}
    BY <1>3, NoAtom
  <2>2. ~(i + 1 < m)
    BY <1>1, <1>3
  <2> QED BY <1>2, <2>1, <2>2 DEF IsCall
<1>4. CASE ~(i > m)
  <2>1. D[<<"Atom", i, m>>] = Atoms(t, Numbers(t), D, i, m) /\ D[<<"Hop", i, m>>] = Hops(t, Numbers(t), D, i, m)
    BY <1>4, AtomFrom
  <2>2. /\ y \in Atoms(t, Numbers(t), D, i, m) <=> IsCall(t, Numbers(t)[i], D, "MemberOfExpr", i + 1, i, m, y)
        /\ y \in Hops(t, Numbers(t), D, i, m) <=> IsCall(t, Numbers(t)[i], D, "MemberOfExpr", i + 1, i, m, y)
    BY MemberOfAtom
  <2> QED BY <1>1, <1>2, <2>1, <2>2
<1> QED BY <1>3, <1>4

LEMMA ClassCallDescends ==
  ASSUME NEW t, NEW D, Reading(t, D), NEW i \in 1..Len(t), t[i] = "Class", t[i + 1] = "Dot", t[i + 2] = "Name",
         t[i + 3] = "LParen", i + 3 \in 1..Len(t), NEW m \in 0..Len(t) - 1, NEW y
  PROVE  y \in D[<<"Atom", i, m>>] <=> Found(t, D, "Branch", i + 4, Frame("ClassCall", <<>>, i), y, m)
<1>1. /\ i \in Int /\ m \in Int /\ Numbers(t)[i] = i /\ (i + 3) + 1 = i + 4
  BY PlaceFits
<1>2. Found(t, D, "Branch", i + 4, Frame("ClassCall", <<>>, i), y, m) <=>
        IsCall(t, i, D, "ClassCall", i + 3, i, m, y)
  <2>1. Found(t, D, "Branch", (i + 3) + 1, Frame("ClassCall", <<>>, i), y, m) <=>
          IsCall(t, i, D, "ClassCall", i + 3, i, m, y)
    BY <1>1, CallFound
  <2> QED BY <1>1, <2>1
<1>3. CASE i > m
  <2>1. D[<<"Atom", i, m>>] = {}
    BY <1>3, NoAtom
  <2>2. ~(i + 3 < m)
    BY <1>1, <1>3
  <2> QED BY <1>2, <2>1, <2>2 DEF IsCall
<1>4. CASE ~(i > m)
  <2>1. D[<<"Atom", i, m>>] = Atoms(t, Numbers(t), D, i, m)
    BY <1>4, AtomFrom
  <2>2. y \in Atoms(t, Numbers(t), D, i, m) <=>
           /\ m > i + 2 /\ t[i + 1] = "Dot" /\ t[i + 2] = "Name"
           /\ IsCall(t, Numbers(t)[i], D, "ClassCall", i + 3, i, m, y)
    BY ClassAtom
  <2>3. i + 3 < m => m > i + 2
    BY <1>1
  <2>4. IsCall(t, i, D, "ClassCall", i + 3, i, m, y) => i + 3 < m
    BY DEF IsCall
  <2> QED BY <1>1, <1>2, <2>1, <2>2, <2>3, <2>4
<1> QED BY <1>3, <1>4

LEMMA PathDescends ==
  ASSUME NEW t, NEW D, Reading(t, D), NEW i \in 1..Len(t), t[i] \in {"User", "Name"},
         NEW m \in 0..Len(t) - 1, NEW y
  PROVE  y \in D[<<"Atom", i, m>>] <=> PathTail(t, D, <<>>, i, i, y, m)
<1>1. /\ i \in Int /\ m \in Int /\ i + 1 \in 1..Len(t) /\ Numbers(t)[i] = i
      /\ t[i + 1] = "Dot" => i + 2 \in 1..Len(t)
  <2>1. i + 1 \in 1..Len(t) /\ i \in Int /\ m \in Int /\ Numbers(t)[i] = i
    BY PlaceFits
  <2>2. t[i + 1] # "EOF" => (i + 1) + 1 \in 1..Len(t)
    BY <2>1, PlaceFits
  <2> QED BY <2>1, <2>2
<1>2. t[i + 1] = "Dot" => \A r \in D[<<"Hops", i + 2, m>>] : <<>> \o r = r /\ i + 2 <= m
  <2> SUFFICES ASSUME t[i + 1] = "Dot", NEW r \in D[<<"Hops", i + 2, m>>] PROVE <<>> \o r = r /\ i + 2 <= m
    OBVIOUS
  <2>1. IsSeq(r)
    BY <1>1, AreLists DEF ListLevels
  <2>2. i + 2 <= m
    BY <1>1, Inside, LevelNames
  <2> QED BY <2>1, <2>2, ConcatEmptySeq DEF IsSeq
<1>3. PathTail(t, D, <<>>, i, i, y, m) <=> IsPath(t, i, D, i, m, y)
  <2>1. ASSUME t[i + 1] = "Dot", NEW r \in D[<<"Hops", i + 2, m>>] PROVE m # i /\ <<>> \o r = r
    <3>1. i + 2 <= m /\ <<>> \o r = r
      BY <1>2, <2>1
    <3> QED BY <1>1, <3>1
  <2> QED BY <2>1 DEF PathTail, IsPath
<1>4. CASE i > m
  <2>1. D[<<"Atom", i, m>>] = {}
    BY <1>4, NoAtom
  <2>2. ASSUME t[i + 1] = "Dot", NEW r \in D[<<"Hops", i + 2, m>>] PROVE FALSE
    <3>1. i + 2 <= m
      BY <1>2, <2>2
    <3> QED BY <1>1, <1>4, <3>1
  <2>3. m # i
    BY <1>1, <1>4
  <2> QED BY <1>3, <2>1, <2>2, <2>3 DEF IsPath
<1>5. CASE ~(i > m)
  <2>1. D[<<"Atom", i, m>>] = Atoms(t, Numbers(t), D, i, m)
    BY <1>5, AtomFrom
  <2>2. y \in Atoms(t, Numbers(t), D, i, m) <=> IsPath(t, Numbers(t)[i], D, i, m, y)
    BY PathAtom
  <2> QED BY <1>1, <1>3, <2>1, <2>2
<1> QED BY <1>4, <1>5

-----------------------------------------------------------------------------
(* The tokens a method would itself have gone on with: it never leaves one.    *)
GoesOn(nt) ==
  CASE nt = "MemberOf" -> {}
    [] nt = "Atom" -> {"Dot"}
    [] nt = "Additive" -> {"Dot", "Plus"}
    [] nt = "Not" -> {"Dot", "Plus"} \cup ComparisonOps
    [] nt = "And" -> {"Dot", "Plus", "And"} \cup ComparisonOps
    [] nt = "Or" -> {"Dot", "Plus", "And", "Or"} \cup ComparisonOps
    [] nt = "Expr" -> {"Dot", "Plus", "And", "Or", "Question"} \cup ComparisonOps
    [] nt = "Branch" -> {"Dot", "Plus", "And", "Or", "Question", "Comma"} \cup ComparisonOps

LEMMA Greed ==
  /\ {"EOF", "Colon", "RParen", "RBrace"} \cap GoesOn("Branch") = {}
  /\ {"EOF", "Colon", "RParen", "RBrace"} \cap GoesOn("Expr") = {}
  /\ GoesOn("Branch") = GoesOn("Expr") \cup {"Comma"}
  /\ GoesOn("Expr") = GoesOn("Or") \cup {"Question"}
  /\ GoesOn("Or") = GoesOn("And") \cup {"Or"}
  /\ GoesOn("And") = GoesOn("Not") \cup {"And"}
  /\ GoesOn("Not") = GoesOn("Additive") \cup ComparisonOps
  /\ GoesOn("Additive") = GoesOn("Atom") \cup {"Plus"}
  /\ GoesOn("Atom") = GoesOn("MemberOf") \cup {"Dot"}
  /\ "Comma" \notin GoesOn("Expr") /\ "Question" \notin GoesOn("Or") /\ "Or" \notin GoesOn("And")
  /\ "And" \notin GoesOn("Not") /\ ComparisonOps \cap GoesOn("Additive") = {}
  /\ "Plus" \notin GoesOn("Atom") /\ "Dot" \notin GoesOn("MemberOf")
BY DEF GoesOn, ComparisonOps

(* A method that leaves no token it could use had none left by its callee.     *)
LEMMA GreedVia ==
  ASSUME NEW t, NEW D, Len(t) \in Nat, NEW f, f.fn \in FrameFns, NEW x, NEW j \in 0..Len(t) - 1,
         NEW y, NEW m \in 0..Len(t) - 1, Via(t, D, f, x, j, y, m),
         NEW r \in Runs(f.fn), t[m + 1] \notin GoesOn(r)
  PROVE  t[j + 1] \notin GoesOn(Waits(f.fn))
<1>1. CASE f.fn = "Expr"
  <2>1. r = "Expr" /\ Waits(f.fn) = "Or"
    BY <1>1 DEF Runs, Waits, Callee
  <2>2. ExprVia(t, D, f, x, j, y, m)
    BY <1>1, ViaIs
  <2> QED BY <2>1, <2>2, Greed DEF ExprVia, IsChoice
<1>2. CASE f.fn = "TrueBranch"
  <2>1. Waits(f.fn) = "Branch"
    BY <1>2 DEF Waits
  <2>2. TrueVia(t, D, f, x, j, y, m)
    BY <1>2, ViaIs
  <2> QED BY <2>1, <2>2, Greed DEF TrueVia
<1>3. CASE f.fn = "FalseBranch"
  <2>1. r = "Expr" /\ Waits(f.fn) = "Branch"
    BY <1>3 DEF Runs, Waits
  <2>2. FalseVia(t, f, x, j, y, m)
    BY <1>3, ViaIs
  <2> QED BY <2>1, <2>2, Greed DEF FalseVia
<1>4. CASE f.fn \in {"Branch", "Or", "And"}
  <2>1. /\ r = f.fn /\ Waits(f.fn) = Callee(f.fn)
    BY <1>4 DEF Runs, Waits
  <2>2. /\ f.fn = "Branch" => Callee(f.fn) = "Expr" /\ Separator(ListOf(f.fn)) = "Comma"
        /\ f.fn = "Or" => Callee(f.fn) = "And" /\ Separator(ListOf(f.fn)) = "Or"
        /\ f.fn = "And" => Callee(f.fn) = "Not" /\ Separator(ListOf(f.fn)) = "And"
    BY DEF Callee, Separator, ListOf
  <2>3. ChainVia(t, D, f.fn, f.kids, f.at, x, j, y, m)
    BY <1>4, ViaIs
  <2>4. m = j \/ t[j + 1] = Separator(ListOf(f.fn))
    BY <2>3 DEF ChainVia
  <2> QED BY <1>4, <2>1, <2>2, <2>4, Greed
<1>5. CASE f.fn = "Not"
  <2>1. r = "Not" /\ Waits(f.fn) = "Not"
    BY <1>5 DEF Runs, Waits
  <2>2. NotVia(f, x, j, y, m)
    BY <1>5, ViaIs
  <2> QED BY <2>1, <2>2 DEF NotVia
<1>6. CASE f.fn = "Comparison"
  <2>1. r = "Not" /\ Waits(f.fn) = "Additive"
    BY <1>6 DEF Runs, Waits, Callee
  <2>2. ComparisonVia(t, D, f, x, j, y, m)
    BY <1>6, ViaIs
  <2>3. m = j \/ t[j + 1] \in ComparisonOps
    BY <2>2 DEF ComparisonVia, IsCompared, IsRight
  <2> QED BY <2>1, <2>3, Greed
<1>7. CASE f.fn = "Additive"
  <2>1. r = "Additive" /\ Waits(f.fn) = "Atom"
    BY <1>7 DEF Runs, Waits, Callee
  <2>2. AdditiveVia(t, D, f, x, j, y, m)
    BY <1>7, ViaIs
  <2>3. \E z : SumTail(t, D, z, j, y, m)
    BY <2>2 DEF AdditiveVia
  <2>4. PICK z : SumTail(t, D, z, j, y, m)
    BY <2>3
  <2>5. m = j \/ \E e \in 0..Len(t) - 1 : \E w : IsTerm(t, D, z, j, w, e)
    BY <2>4, SumLeft
  <2>6. m = j \/ t[j + 1] = "Plus"
    BY <2>5 DEF IsTerm, IsRight
  <2> QED BY <2>1, <2>6, Greed
<1>8. CASE f.fn \in Enclosers
  <2>1. Closes(t, Closer(f.fn), j, m)
    BY <1>8, WrapVia
  <2>2. Closer(f.fn) \in {"RParen", "RBrace"} /\ Waits(f.fn) \in {"Expr", "Branch"}
    BY <1>8 DEF Closer, Waits, Enclosers
  <2> QED BY <2>1, <2>2, Greed DEF Closes
<1>9. CASE f.fn = "Path"
  <2>1. r = "Atom" /\ Waits(f.fn) = "MemberOf"
    BY <1>9 DEF Runs, Waits
  <2>2. PathTail(t, D, Append(f.kids, x), f.at, j, y, m)
    BY <1>9, ViaIs
  <2> QED BY <2>1, <2>2, Greed DEF PathTail
<1> QED BY <1>1, <1>2, <1>3, <1>4, <1>5, <1>6, <1>7, <1>8, <1>9 DEF FrameFns, Delegates, Enclosers

-----------------------------------------------------------------------------
(* How a whole parse may go on.  fs is a stack of frames whose kids are trees, *)
(* and the first k of them wait; a method has found x in the tokens up to j.   *)
(* Then frame k may be given x, the frame below it what frame k makes of it,   *)
(* and so on until the lowest returns T at the end of the stream.              *)
Nested(fs, k) ==
  /\ k >= 1 => "Expr" \in Runs(fs[1].fn)
  /\ \A l \in 2..k : Waits(fs[l - 1].fn) \in Runs(fs[l].fn)
  /\ \A l \in 1..k : fs[l].fn \in FrameFns

Left(fs, l) == IF l = 0 THEN GoesOn("Expr") ELSE GoesOn(Waits(fs[l].fn))

Climbs(t, D, fs, k, X, J) ==
  /\ \A l \in 0..k : J[l] \in 0..Len(t) - 1 /\ t[J[l] + 1] \notin Left(fs, l)
  /\ \A l \in 1..k : Via(t, D, fs[l], X[l], J[l], X[l - 1], J[l - 1])

Outer(t, D, fs, k, x, j, T) ==
  \E X, J : /\ X[k] = x /\ J[k] = j /\ X[0] = T /\ J[0] = Len(t) - 1
            /\ Climbs(t, D, fs, k, X, J)

Rest(t, D, fs, k, x, j, T) ==
  \E y : \E m \in 0..Len(t) - 1 : Via(t, D, fs[k], x, j, y, m) /\ Outer(t, D, fs, k - 1, y, m, T)

LEMMA OuterEnd ==
  ASSUME NEW t, NEW D, Reading(t, D), NEW fs, NEW x, NEW j, NEW T
  PROVE  Outer(t, D, fs, 0, x, j, T) <=> x = T /\ j = Len(t) - 1
<1>1. Len(t) \in Nat \ {0} /\ t[Len(t)] = "EOF"
  <2>1. Len(t) \in Nat \ {0} /\ \A i \in 1..Len(t) : t[i] = "EOF" <=> i = Len(t)
    BY StreamShape
  <2> QED BY <2>1
<1>2. ASSUME x = T, j = Len(t) - 1 PROVE Outer(t, D, fs, 0, x, j, T)
  <2> DEFINE X == [l \in {0} |-> x]
             J == [l \in {0} |-> j]
  <2>1. X[0] = x /\ J[0] = j
    OBVIOUS
  <2> HIDE DEF X, J
  <2>2. t[J[0] + 1] = "EOF" /\ J[0] \in 0..Len(t) - 1
    <3>1. J[0] + 1 = Len(t) /\ J[0] \in 0..Len(t) - 1
      BY <1>1, <1>2, <2>1
    <3> QED BY <1>1, <3>1
  <2>3. "EOF" \notin Left(fs, 0)
    BY Greed DEF Left
  <2>4. Climbs(t, D, fs, 0, X, J)
    BY <2>2, <2>3 DEF Climbs
  <2> QED BY <1>2, <2>1, <2>4 DEF Outer
<1> QED BY <1>2 DEF Outer

LEMMA LeftIs ==
  ASSUME NEW fs, NEW k \in Nat \ {0}, Nested(fs, k)
  PROVE  /\ \E r \in Runs(fs[k].fn) : Left(fs, k - 1) = GoesOn(r)
         /\ fs[k].fn \in FrameFns /\ Left(fs, k) = GoesOn(Waits(fs[k].fn))
<1>1. CASE k = 1
  BY <1>1 DEF Nested, Left
<1>2. CASE k # 1
  <2>1. k \in 2..k /\ k \in 1..k /\ k - 1 # 0 /\ k # 0
    BY <1>2
  <2> QED BY <2>1 DEF Nested, Left
<1> QED BY <1>1, <1>2

LEMMA OuterIs ==
  ASSUME NEW t, NEW D, Reading(t, D), NEW fs, NEW k \in Nat \ {0}, Nested(fs, k),
         NEW x, NEW j \in 0..Len(t) - 1, NEW T
  PROVE  Outer(t, D, fs, k, x, j, T) <=> Rest(t, D, fs, k, x, j, T)
<1> DEFINE n == Len(t)
<1>0. n \in Nat \ {0} /\ k - 1 \in Nat
  BY StreamShape
<1>1. ASSUME Outer(t, D, fs, k, x, j, T) PROVE Rest(t, D, fs, k, x, j, T)
  <2>1. PICK X, J : /\ X[k] = x /\ J[k] = j /\ X[0] = T /\ J[0] = n - 1
                    /\ Climbs(t, D, fs, k, X, J)
    BY <1>1 DEF Outer
  <2>2. k \in 1..k /\ k - 1 \in 0..k
    OBVIOUS
  <2>3. Via(t, D, fs[k], x, j, X[k - 1], J[k - 1]) /\ J[k - 1] \in 0..n - 1
    BY <2>1, <2>2 DEF Climbs
  <2>4. 0..k - 1 \subseteq 0..k /\ 1..k - 1 \subseteq 1..k
    OBVIOUS
  <2>5. Climbs(t, D, fs, k - 1, X, J)
    BY <2>1, <2>4 DEF Climbs
  <2>6. Outer(t, D, fs, k - 1, X[k - 1], J[k - 1], T)
    BY <2>1, <2>5 DEF Outer
  <2> QED BY <2>3, <2>6 DEF Rest
<1>2. ASSUME Rest(t, D, fs, k, x, j, T) PROVE Outer(t, D, fs, k, x, j, T)
  <2>0. PICK y : \E m \in 0..n - 1 : Via(t, D, fs[k], x, j, y, m) /\ Outer(t, D, fs, k - 1, y, m, T)
    BY <1>2 DEF Rest
  <2>1. PICK m \in 0..n - 1 : Via(t, D, fs[k], x, j, y, m) /\ Outer(t, D, fs, k - 1, y, m, T)
    BY <2>0
  <2>2. PICK Y, M : /\ Y[k - 1] = y /\ M[k - 1] = m /\ Y[0] = T /\ M[0] = n - 1
                    /\ Climbs(t, D, fs, k - 1, Y, M)
    BY <2>1 DEF Outer
  <2> DEFINE X == [l \in 0..k |-> IF l = k THEN x ELSE Y[l]]
             J == [l \in 0..k |-> IF l = k THEN j ELSE M[l]]
  <2>3. /\ X[k] = x /\ J[k] = j
        /\ \A l \in 0..k - 1 : X[l] = Y[l] /\ J[l] = M[l]
    OBVIOUS
  <2> HIDE DEF X, J
  <2>4. 0 \in 0..k - 1 /\ k - 1 \in 0..k - 1
    BY <1>0
  <2>5. t[j + 1] \notin Left(fs, k)
    <3>1. t[m + 1] \notin Left(fs, k - 1)
      BY <2>2, <2>4 DEF Climbs
    <3>2. PICK r \in Runs(fs[k].fn) : Left(fs, k - 1) = GoesOn(r)
      BY LeftIs
    <3>3. fs[k].fn \in FrameFns /\ Left(fs, k) = GoesOn(Waits(fs[k].fn))
      BY LeftIs
    <3>4. t[j + 1] \notin GoesOn(Waits(fs[k].fn))
      BY <1>0, <2>1, <3>1, <3>2, <3>3, GreedVia
    <3> QED BY <3>3, <3>4
  <2>6. \A l \in 0..k : J[l] \in 0..n - 1 /\ t[J[l] + 1] \notin Left(fs, l)
    <3>1. \A l \in 0..k : l = k \/ l \in 0..k - 1
      OBVIOUS
    <3> QED BY <2>2, <2>3, <2>5, <3>1 DEF Climbs
  <2>7. \A l \in 1..k : Via(t, D, fs[l], X[l], J[l], X[l - 1], J[l - 1])
    <3> SUFFICES ASSUME NEW l \in 1..k PROVE Via(t, D, fs[l], X[l], J[l], X[l - 1], J[l - 1])
      OBVIOUS
    <3>1. CASE l = k
      BY <2>1, <2>2, <2>3, <2>4, <3>1
    <3>2. CASE l # k
      <4>1. l \in 1..k - 1 /\ l \in 0..k - 1 /\ l - 1 \in 0..k - 1
        BY <3>2
      <4>2. Via(t, D, fs[l], Y[l], M[l], Y[l - 1], M[l - 1])
        BY <2>2, <4>1 DEF Climbs
      <4> QED BY <2>3, <4>1, <4>2
    <3> QED BY <3>1, <3>2
  <2>8. Climbs(t, D, fs, k, X, J)
    BY <2>6, <2>7 DEF Climbs
  <2>9. X[0] = T /\ J[0] = n - 1
    BY <2>2, <2>3, <2>4
  <2> QED BY <2>3, <2>8, <2>9 DEF Outer
<1> QED BY <1>1, <1>2

(* The frames above do not matter.                                             *)
LEMMA OuterSame ==
  ASSUME NEW t, NEW D, NEW fs, NEW gs, NEW k \in Nat, \A l \in 1..k : fs[l] = gs[l],
         NEW x, NEW j, NEW T
  PROVE  Outer(t, D, fs, k, x, j, T) <=> Outer(t, D, gs, k, x, j, T)
<1>1. \A l \in 0..k : Left(fs, l) = Left(gs, l)
  BY DEF Left
<1>2. \A X, J : Climbs(t, D, fs, k, X, J) <=> Climbs(t, D, gs, k, X, J)
  BY <1>1 DEF Climbs
<1> QED BY <1>2 DEF Outer

LEMMA OuterLeft ==
  ASSUME NEW t, NEW D, NEW fs, NEW k \in Nat, NEW x, NEW j, NEW T, Outer(t, D, fs, k, x, j, T)
  PROVE  j \in 0..Len(t) - 1 /\ t[j + 1] \notin Left(fs, k)
<1>1. k \in 0..k
  OBVIOUS
<1> QED BY <1>1 DEF Outer, Climbs

-----------------------------------------------------------------------------
(* A method that starts at token i, and a path whose last token is e.          *)
Started(t, D, fs, k, nt, i, T) ==
  \E j \in 0..Len(t) - 1 : \E x \in D[<<nt, i, j>>] : Outer(t, D, fs, k, x, j, T)

Going(t, D, fs, k, e, T) ==
  \E y : \E m \in 0..Len(t) - 1 :
    PathTail(t, D, fs[k].kids, fs[k].at, e, y, m) /\ Outer(t, D, fs, k - 1, y, m, T)

(* What the steps of the stack ask of one frame: what the method about to      *)
(* start derives is what frame f finds behind its callee; frame f, given x, is *)
(* what frame g finds behind its callee, wherever its own caller lets it end;  *)
(* frame f, given x, can only return z; and frame f, given x, returns nothing. *)
Alike(fs, gs, k) == \A l \in 1..k : fs[l] = gs[l]

BeginsWith(t, D, nt, i, to, p, f) ==
  \A m \in 0..Len(t) - 1 : \A y : y \in D[<<nt, i, m>>] <=> Found(t, D, to, p, f, y, m)

ContinuesWith(t, D, f, x, j, left, nt, i, g) ==
  \A m \in 0..Len(t) - 1 : t[m + 1] \notin left =>
    \A y : Via(t, D, f, x, j, y, m) <=> Found(t, D, nt, i, g, y, m)

ReturnsOnly(t, D, f, x, j, z, e) ==
  \A m \in 0..Len(t) - 1 : \A y : Via(t, D, f, x, j, y, m) <=> m = e /\ y = z

RewritesTo(t, D, f, x, j, g, z) ==
  \A m \in 0..Len(t) - 1 : \A y : Via(t, D, f, x, j, y, m) <=> Via(t, D, g, z, j, y, m)

IsOnly(t, D, nt, i, z, e) ==
  \A m \in 0..Len(t) - 1 : \A y : y \in D[<<nt, i, m>>] <=> m = e /\ y = z

ReturnsNone(t, D, f, x, j, left) ==
  \A m \in 0..Len(t) - 1 : t[m + 1] \notin left => \A y : ~Via(t, D, f, x, j, y, m)

BeginsPath(t, D, nt, i, f, e) ==
  \A m \in 0..Len(t) - 1 : \A y :
    y \in D[<<nt, i, m>>] <=> PathTail(t, D, f.kids, f.at, e, y, m)

(* Steps of the stack.                                                         *)
LEMMA Enters ==
  ASSUME NEW t, NEW D, Reading(t, D), NEW fs, NEW gs, NEW k \in Nat,
         Alike(fs, gs, k), Nested(gs, k + 1), NEW nt, NEW i, NEW to, NEW p, NEW T,
         BeginsWith(t, D, nt, i, to, p, gs[k + 1])
  PROVE  Started(t, D, fs, k, nt, i, T) <=> Started(t, D, gs, k + 1, to, p, T)
<1> USE DEF Alike, BeginsWith
<1> DEFINE n == Len(t)
<1>1. k + 1 \in Nat \ {0} /\ (k + 1) - 1 = k
  OBVIOUS
<1>2. \A y, m : Outer(t, D, fs, k, y, m, T) <=> Outer(t, D, gs, k, y, m, T)
  BY OuterSame
<1>3. ASSUME NEW x, NEW j \in 0..n - 1
      PROVE  Outer(t, D, gs, k + 1, x, j, T) <=>
               \E y : \E m \in 0..n - 1 : Via(t, D, gs[k + 1], x, j, y, m) /\ Outer(t, D, gs, k, y, m, T)
  <2>1. Outer(t, D, gs, k + 1, x, j, T) <=> Rest(t, D, gs, k + 1, x, j, T)
    BY <1>1, OuterIs
  <2> QED BY <1>1, <2>1 DEF Rest
<1>4. Started(t, D, fs, k, nt, i, T) <=>
        \E m \in 0..n - 1 : \E y : Found(t, D, to, p, gs[k + 1], y, m) /\ Outer(t, D, gs, k, y, m, T)
  BY <1>2 DEF Started
<1>5. Started(t, D, gs, k + 1, to, p, T) <=>
        \E j \in 0..n - 1 : \E x \in D[<<to, p, j>>] :
        \E y : \E m \in 0..n - 1 : Via(t, D, gs[k + 1], x, j, y, m) /\ Outer(t, D, gs, k, y, m, T)
  BY <1>3 DEF Started
<1> QED BY <1>4, <1>5 DEF Found

LEMMA Resumes ==
  ASSUME NEW t, NEW D, Reading(t, D), NEW fs, NEW gs, NEW k \in Nat \ {0},
         Alike(fs, gs, k - 1), Nested(fs, k), Nested(gs, k),
         NEW x, NEW j \in 0..Len(t) - 1, NEW nt, NEW i, NEW T,
         ContinuesWith(t, D, fs[k], x, j, Left(fs, k - 1), nt, i, gs[k])
  PROVE  Outer(t, D, fs, k, x, j, T) <=> Started(t, D, gs, k, nt, i, T)
<1> USE DEF Alike, ContinuesWith
<1> DEFINE n == Len(t)
<1>1. k - 1 \in Nat
  OBVIOUS
<1>2. \A y, m : Outer(t, D, fs, k - 1, y, m, T) <=> Outer(t, D, gs, k - 1, y, m, T)
  BY <1>1, OuterSame
<1>3. \A y : \A m \in 0..n - 1 :
        Outer(t, D, fs, k - 1, y, m, T) =>
          (Via(t, D, fs[k], x, j, y, m) <=> Found(t, D, nt, i, gs[k], y, m))
  BY <1>1, OuterLeft
<1>4. Outer(t, D, fs, k, x, j, T) <=>
        \E y : \E m \in 0..n - 1 : Found(t, D, nt, i, gs[k], y, m) /\ Outer(t, D, gs, k - 1, y, m, T)
  <2>1. Outer(t, D, fs, k, x, j, T) <=> Rest(t, D, fs, k, x, j, T)
    BY OuterIs
  <2> QED BY <1>2, <1>3, <2>1 DEF Rest
<1>5. ASSUME NEW z, NEW e \in 0..n - 1
      PROVE  Outer(t, D, gs, k, z, e, T) <=>
               \E y : \E m \in 0..n - 1 : Via(t, D, gs[k], z, e, y, m) /\ Outer(t, D, gs, k - 1, y, m, T)
  <2>1. Outer(t, D, gs, k, z, e, T) <=> Rest(t, D, gs, k, z, e, T)
    BY OuterIs
  <2> QED BY <2>1 DEF Rest
<1>6. Started(t, D, gs, k, nt, i, T) <=>
        \E e \in 0..n - 1 : \E z \in D[<<nt, i, e>>] :
        \E y : \E m \in 0..n - 1 : Via(t, D, gs[k], z, e, y, m) /\ Outer(t, D, gs, k - 1, y, m, T)
  BY <1>5 DEF Started
<1> QED BY <1>4, <1>6 DEF Found

LEMMA Returns ==
  ASSUME NEW t, NEW D, Reading(t, D), NEW fs, NEW gs, NEW k \in Nat \ {0},
         Alike(fs, gs, k - 1), Nested(fs, k),
         NEW x, NEW j \in 0..Len(t) - 1, NEW z, NEW e \in 0..Len(t) - 1, NEW T,
         ReturnsOnly(t, D, fs[k], x, j, z, e)
  PROVE  Outer(t, D, fs, k, x, j, T) <=> Outer(t, D, gs, k - 1, z, e, T)
<1> USE DEF Alike, ReturnsOnly
<1>1. k - 1 \in Nat
  OBVIOUS
<1>2. Outer(t, D, fs, k, x, j, T) <=> Rest(t, D, fs, k, x, j, T)
  BY OuterIs
<1>3. Rest(t, D, fs, k, x, j, T) <=> Outer(t, D, fs, k - 1, z, e, T)
  BY DEF Rest
<1>4. Outer(t, D, fs, k - 1, z, e, T) <=> Outer(t, D, gs, k - 1, z, e, T)
  BY <1>1, OuterSame
<1> QED BY <1>2, <1>3, <1>4

LEMMA Rewrites ==
  ASSUME NEW t, NEW D, Reading(t, D), NEW fs, NEW gs, NEW k \in Nat \ {0},
         Alike(fs, gs, k - 1), Nested(fs, k), Nested(gs, k),
         NEW x, NEW j \in 0..Len(t) - 1, NEW z, NEW T,
         RewritesTo(t, D, fs[k], x, j, gs[k], z)
  PROVE  Outer(t, D, fs, k, x, j, T) <=> Outer(t, D, gs, k, z, j, T)
<1> USE DEF Alike, RewritesTo
<1>1. k - 1 \in Nat
  OBVIOUS
<1>2. Outer(t, D, fs, k, x, j, T) <=> Rest(t, D, fs, k, x, j, T)
  BY OuterIs
<1>3. Outer(t, D, gs, k, z, j, T) <=> Rest(t, D, gs, k, z, j, T)
  BY OuterIs
<1>4. \A y, m : Outer(t, D, fs, k - 1, y, m, T) <=> Outer(t, D, gs, k - 1, y, m, T)
  BY <1>1, OuterSame
<1>5. Rest(t, D, fs, k, x, j, T) <=> Rest(t, D, gs, k, z, j, T)
  BY <1>4 DEF Rest
<1> QED BY <1>2, <1>3, <1>5

LEMMA Answers ==
  ASSUME NEW t, NEW D, Reading(t, D), NEW fs, NEW gs, NEW k \in Nat,
         Alike(fs, gs, k), NEW nt, NEW i, NEW z, NEW e \in 0..Len(t) - 1, NEW T,
         IsOnly(t, D, nt, i, z, e)
  PROVE  Started(t, D, fs, k, nt, i, T) <=> Outer(t, D, gs, k, z, e, T)
<1> USE DEF Alike, IsOnly
<1>1. Started(t, D, fs, k, nt, i, T) <=> Outer(t, D, fs, k, z, e, T)
  BY DEF Started
<1>2. Outer(t, D, fs, k, z, e, T) <=> Outer(t, D, gs, k, z, e, T)
  BY OuterSame
<1> QED BY <1>1, <1>2

LEMMA Refuses ==
  ASSUME NEW t, NEW D, Reading(t, D), NEW fs, NEW k \in Nat \ {0}, Nested(fs, k),
         NEW x, NEW j \in 0..Len(t) - 1, NEW T,
         ReturnsNone(t, D, fs[k], x, j, Left(fs, k - 1))
  PROVE  ~Outer(t, D, fs, k, x, j, T)
<1> USE DEF ReturnsNone
<1>1. k - 1 \in Nat
  OBVIOUS
<1>2. Outer(t, D, fs, k, x, j, T) <=> Rest(t, D, fs, k, x, j, T)
  BY OuterIs
<1>3. \A y : \A m \in 0..Len(t) - 1 :
        Outer(t, D, fs, k - 1, y, m, T) => ~Via(t, D, fs[k], x, j, y, m)
  BY <1>1, OuterLeft
<1> QED BY <1>2, <1>3 DEF Rest

-----------------------------------------------------------------------------
(* Paths.                                                                      *)
LEMMA PathStarts ==
  ASSUME NEW t, NEW D, Reading(t, D), NEW fs, NEW gs, NEW k \in Nat,
         Alike(fs, gs, k), NEW nt, NEW i, NEW e, NEW T,
         BeginsPath(t, D, nt, i, gs[k + 1], e)
  PROVE  Started(t, D, fs, k, nt, i, T) <=> Going(t, D, gs, k + 1, e, T)
<1> USE DEF Alike, BeginsPath
<1>1. (k + 1) - 1 = k
  OBVIOUS
<1>2. \A y, m : Outer(t, D, fs, k, y, m, T) <=> Outer(t, D, gs, k, y, m, T)
  BY OuterSame
<1>3. Going(t, D, gs, k + 1, e, T) <=>
        \E y : \E m \in 0..Len(t) - 1 :
          PathTail(t, D, gs[k + 1].kids, gs[k + 1].at, e, y, m) /\ Outer(t, D, gs, k, y, m, T)
  BY <1>1 DEF Going
<1>4. Started(t, D, fs, k, nt, i, T) <=>
        \E m \in 0..Len(t) - 1 : \E y :
          PathTail(t, D, gs[k + 1].kids, gs[k + 1].at, e, y, m) /\ Outer(t, D, gs, k, y, m, T)
  BY <1>2 DEF Started
<1> QED BY <1>3, <1>4

LEMMA PathGoesOn ==
  ASSUME NEW t, NEW D, Reading(t, D), NEW e \in 0..Len(t) - 1, t[e + 1] = "Dot", NEW K, IsSeq(K), NEW at,
         NEW y, NEW m \in 0..Len(t) - 1, m # e
  PROVE  PathTail(t, D, K, at, e, y, m) <=> Found(t, D, "Hop", e + 2, Frame("Path", K, at), y, m)
<1> DEFINE n == Len(t)
           f == Frame("Path", K, at)
<1>1. e + 2 \in 1..n
  BY StreamShape
<1>2. f.fn = "Path" /\ f.kids = K /\ f.at = at
  BY FrameIs
<1> HIDE DEF f
<1>3. Member("Hops") = "Hop" /\ Separator("Hops") = "Dot" /\ "Hops" \in ListLevels
  BY DEF Member, Separator, ListLevels
<1>4. \A x, j : Via(t, D, f, x, j, y, m) <=> PathTail(t, D, Append(K, x), at, j, y, m)
  BY <1>2, ViaIs
<1>5. \A l : (\E r \in D[<<"Hops", e + 2, m>>] : l = K \o r) <=> Added(t, D, "Hops", e + 2, K, l, m)
  BY <1>1, <1>3, ListOn
<1>6. ASSUME NEW r \in D[<<"Hops", e + 2, m>>], y = Tree("PathExpr", t[at], at, K \o r)
      PROVE  Found(t, D, "Hop", e + 2, f, y, m)
  <2>1. Added(t, D, "Hops", e + 2, K, K \o r, m)
    BY <1>5
  <2>2. PICK j \in 0..n - 1 : \E x \in D[<<"Hop", e + 2, j>>] :
          \/ m = j /\ K \o r = Append(K, x)
          \/ t[j + 1] = "Dot" /\ \E s \in D[<<"Hops", j + 2, m>>] : K \o r = Append(K, x) \o s
    BY <1>3, <2>1 DEF Added
  <2>3. PICK x \in D[<<"Hop", e + 2, j>>] :
          \/ m = j /\ K \o r = Append(K, x)
          \/ t[j + 1] = "Dot" /\ \E s \in D[<<"Hops", j + 2, m>>] : K \o r = Append(K, x) \o s
    BY <2>2
  <2>4. PathTail(t, D, Append(K, x), at, j, y, m)
    BY <1>6, <2>3 DEF PathTail
  <2> QED BY <1>4, <2>4 DEF Found
<1>7. ASSUME NEW j \in 0..n - 1, NEW x \in D[<<"Hop", e + 2, j>>], Via(t, D, f, x, j, y, m)
      PROVE  \E r \in D[<<"Hops", e + 2, m>>] : y = Tree("PathExpr", t[at], at, K \o r)
  <2>1. PathTail(t, D, Append(K, x), at, j, y, m)
    BY <1>4, <1>7
  <2>2. \E l : Added(t, D, "Hops", e + 2, K, l, m) /\ y = Tree("PathExpr", t[at], at, l)
    <3>1. CASE m = j /\ y = Tree("PathExpr", t[at], at, Append(K, x))
      <4>1. Added(t, D, "Hops", e + 2, K, Append(K, x), m)
        BY <1>3, <3>1 DEF Added
      <4> QED BY <3>1, <4>1
    <3>2. CASE t[j + 1] = "Dot" /\ \E r \in D[<<"Hops", j + 2, m>>] : y = Tree("PathExpr", t[at], at, Append(K, x) \o r)
      <4>1. PICK r \in D[<<"Hops", j + 2, m>>] : y = Tree("PathExpr", t[at], at, Append(K, x) \o r)
        BY <3>2
      <4>2. Added(t, D, "Hops", e + 2, K, Append(K, x) \o r, m)
        BY <1>3, <3>2 DEF Added
      <4> QED BY <4>1, <4>2
    <3> QED BY <2>1, <3>1, <3>2 DEF PathTail
  <2> QED BY <1>5, <2>2
<1>8. (\E r \in D[<<"Hops", e + 2, m>>] : y = Tree("PathExpr", t[at], at, K \o r)) <=> Found(t, D, "Hop", e + 2, f, y, m)
  BY <1>6, <1>7 DEF Found
<1> QED BY <1>8 DEF PathTail, f

LEMMA PathOn ==
  ASSUME NEW t, NEW D, Reading(t, D), NEW fs, NEW k \in Nat \ {0}, Nested(fs, k),
         NEW e \in 0..Len(t) - 1, t[e + 1] = "Dot", NEW K, IsSeq(K), NEW at, fs[k] = Frame("Path", K, at), NEW T
  PROVE  Going(t, D, fs, k, e, T) <=> Started(t, D, fs, k, "Hop", e + 2, T)
<1> DEFINE n == Len(t)
<1>1. fs[k].fn = "Path" /\ fs[k].kids = K /\ fs[k].at = at /\ k - 1 \in Nat
  BY FrameIs
<1>2. "Dot" \in Left(fs, k - 1)
  <2>1. PICK r \in Runs("Path") : Left(fs, k - 1) = GoesOn(r)
    BY <1>1, LeftIs
  <2> QED BY <2>1 DEF Runs, GoesOn
<1>3. \A y : \A m \in 0..n - 1 : Outer(t, D, fs, k - 1, y, m, T) =>
        (PathTail(t, D, K, at, e, y, m) <=> Found(t, D, "Hop", e + 2, fs[k], y, m))
  <2> SUFFICES ASSUME NEW y, NEW m \in 0..n - 1, Outer(t, D, fs, k - 1, y, m, T)
               PROVE  PathTail(t, D, K, at, e, y, m) <=> Found(t, D, "Hop", e + 2, fs[k], y, m)
    OBVIOUS
  <2>1. t[m + 1] \notin Left(fs, k - 1)
    BY <1>1, OuterLeft
  <2>2. m # e
    BY <1>2, <2>1
  <2> QED BY <2>2, PathGoesOn
<1>4. Going(t, D, fs, k, e, T) <=>
        \E y : \E m \in 0..n - 1 : Found(t, D, "Hop", e + 2, fs[k], y, m) /\ Outer(t, D, fs, k - 1, y, m, T)
  BY <1>1, <1>3 DEF Going
<1>5. ASSUME NEW z, NEW j \in 0..n - 1
      PROVE  Outer(t, D, fs, k, z, j, T) <=>
               \E y : \E m \in 0..n - 1 : Via(t, D, fs[k], z, j, y, m) /\ Outer(t, D, fs, k - 1, y, m, T)
  <2>1. Outer(t, D, fs, k, z, j, T) <=> Rest(t, D, fs, k, z, j, T)
    BY OuterIs
  <2> QED BY <2>1 DEF Rest
<1>6. Started(t, D, fs, k, "Hop", e + 2, T) <=>
        \E j \in 0..n - 1 : \E z \in D[<<"Hop", e + 2, j>>] :
        \E y : \E m \in 0..n - 1 : Via(t, D, fs[k], z, j, y, m) /\ Outer(t, D, fs, k - 1, y, m, T)
  BY <1>5 DEF Started
<1> QED BY <1>4, <1>6 DEF Found

LEMMA HopJoins ==
  ASSUME NEW t, NEW D, Reading(t, D), NEW fs, NEW gs, NEW k \in Nat \ {0},
         Alike(fs, gs, k - 1), Nested(fs, k), fs[k].fn = "Path", NEW x, NEW j \in 0..Len(t) - 1, NEW T,
         gs[k].kids = Append(fs[k].kids, x), gs[k].at = fs[k].at
  PROVE  Outer(t, D, fs, k, x, j, T) <=> Going(t, D, gs, k, j, T)
<1> USE DEF Alike
<1>1. k - 1 \in Nat
  OBVIOUS
<1>2. \A y, m : Outer(t, D, fs, k - 1, y, m, T) <=> Outer(t, D, gs, k - 1, y, m, T)
  BY <1>1, OuterSame
<1>3. \A y, m : Via(t, D, fs[k], x, j, y, m) <=> PathTail(t, D, gs[k].kids, gs[k].at, j, y, m)
  BY DEF Via
<1>4. Outer(t, D, fs, k, x, j, T) <=> Rest(t, D, fs, k, x, j, T)
  BY OuterIs
<1> QED BY <1>2, <1>3, <1>4 DEF Rest, Going

LEMMA PathEnds ==
  ASSUME NEW t, NEW D, Reading(t, D), NEW fs, NEW gs, NEW k \in Nat \ {0},
         Alike(fs, gs, k - 1), NEW e \in 0..Len(t) - 1, t[e + 1] # "Dot", NEW T
  PROVE  Going(t, D, fs, k, e, T) <=>
           Outer(t, D, gs, k - 1, Tree("PathExpr", t[fs[k].at], fs[k].at, fs[k].kids), e, T)
<1> USE DEF Alike
<1> DEFINE z == Tree("PathExpr", t[fs[k].at], fs[k].at, fs[k].kids)
<1>1. k - 1 \in Nat
  OBVIOUS
<1>2. \A y, m : PathTail(t, D, fs[k].kids, fs[k].at, e, y, m) <=> m = e /\ y = z
  BY DEF PathTail
<1> HIDE DEF z
<1>3. Going(t, D, fs, k, e, T) <=> Outer(t, D, fs, k - 1, z, e, T)
  BY <1>2 DEF Going
<1>4. Outer(t, D, fs, k - 1, z, e, T) <=> Outer(t, D, gs, k - 1, z, e, T)
  BY <1>1, OuterSame
<1> QED BY <1>3, <1>4 DEF z

-----------------------------------------------------------------------------
(* What each method does with what its callee returned.                        *)
LEMMA Pair ==
  ASSUME NEW x, NEW a
  PROVE  <<x>> # <<>> /\ Append(<<x>>, a) = <<x, a>>
<1>1. <<x>> \in Seq({x, a}) /\ <<x, a>> \in Seq({x, a}) /\ Len(<<x>>) = 1 /\ Len(<<x, a>>) = 2
  OBVIOUS
<1>2. Append(<<x>>, a) \in Seq({x, a}) /\ Len(Append(<<x>>, a)) = 2 /\ Append(<<x>>, a)[1] = x /\ Append(<<x>>, a)[2] = a
  BY <1>1, AppendProperties
<1>3. \A i \in 1..2 : Append(<<x>>, a)[i] = <<x, a>>[i]
  BY <1>2
<1> QED BY <1>1, <1>2, <1>3, SeqEqual

LEMMA Triple ==
  ASSUME NEW x, NEW a, NEW b
  PROVE  Append(Append(<<x>>, a), b) = <<x, a, b>>
<1>1. <<x, a>> \in Seq({x, a, b}) /\ <<x, a, b>> \in Seq({x, a, b}) /\ Len(<<x, a>>) = 2 /\ Len(<<x, a, b>>) = 3
  OBVIOUS
<1>2. /\ Append(<<x, a>>, b) \in Seq({x, a, b}) /\ Len(Append(<<x, a>>, b)) = 3 
      /\ Append(<<x, a>>, b)[1] = x /\ Append(<<x, a>>, b)[2] = a /\ Append(<<x, a>>, b)[3] = b
  BY <1>1, AppendProperties
<1>3. \A i \in 1..3 : Append(<<x, a>>, b)[i] = <<x, a, b>>[i]
  BY <1>2
<1>4. Append(<<x, a>>, b) = <<x, a, b>>
  BY <1>1, <1>2, <1>3, SeqEqual
<1> QED BY <1>4, Pair

LEMMA ExprChoosesBy ==
  ASSUME NEW t, NEW D, Reading(t, D), NEW f, f.fn = "Expr", NEW x, NEW j \in 0..Len(t) - 1,
         t[j + 1] = "Question", NEW m \in 0..Len(t) - 1, m # j, NEW y
  PROVE  Via(t, D, f, x, j, y, m) <=>
           Found(t, D, "Branch", j + 2, Frame("TrueBranch", <<x>>, f.at), y, m)
<1> DEFINE n == Len(t)
           g == Frame("TrueBranch", <<x>>, f.at)
<1>1. Via(t, D, f, x, j, y, m) <=> IsChoice(t, D, f.at, x, j, y, m)
  <2>1. Via(t, D, f, x, j, y, m) <=> ExprVia(t, D, f, x, j, y, m)
    BY ViaIs
  <2> QED BY <2>1 DEF ExprVia
<1>2. g.fn = "TrueBranch" /\ g.kids = <<x>> /\ g.at = f.at
  BY FrameIs
<1> HIDE DEF g
<1>3. ASSUME NEW a, NEW e
      PROVE  Via(t, D, g, a, e, y, m) <=>
               /\ t[e + 1] = "Colon" /\ t[m + 1] # "Comma"
               /\ \E b \in D[<<"Branch", e + 2, m>>] : y = Tree("Ternary", "Question", f.at, <<x, a, b>>)
  <2>1. Via(t, D, g, a, e, y, m) <=> TrueVia(t, D, g, a, e, y, m)
    BY <1>2, ViaIs
  <2>2. \A b : Append(Append(<<x>>, a), b) = <<x, a, b>>
    BY Triple
  <2> QED BY <1>2, <2>1, <2>2 DEF TrueVia
<1>4. n \in Nat /\ j \in Int /\ m \in Int /\ j + 2 \in 1..n
  BY StreamShape
<1>5. ASSUME IsChoice(t, D, f.at, x, j, y, m) PROVE Found(t, D, "Branch", j + 2, g, y, m)
  <2>1. PICK s \in Splits(t, j + 1, m, {"Colon"}) : \E a \in D[<<"Branch", j + 2, s - 1>>] :
          \E b \in D[<<"Branch", s + 1, m>>] : y = Tree("Ternary", "Question", f.at, <<x, a, b>>)
    BY <1>5 DEF IsChoice
  <2>2. PICK a \in D[<<"Branch", j + 2, s - 1>>] :
          \E b \in D[<<"Branch", s + 1, m>>] : y = Tree("Ternary", "Question", f.at, <<x, a, b>>)
    BY <2>1
  <2>3. s - 1 \in 0..n - 1 /\ (s - 1) + 1 = s /\ (s - 1) + 2 = s + 1 /\ t[s] = "Colon"
    BY <1>4 DEF Splits
  <2>4. t[m + 1] # "Comma"
    BY <1>5 DEF IsChoice
  <2>5. D[<<"Branch", (s - 1) + 2, m>>] = D[<<"Branch", s + 1, m>>] /\ t[(s - 1) + 1] = "Colon"
    BY <2>3
  <2>6. Via(t, D, g, a, s - 1, y, m)
    BY <1>3, <2>2, <2>4, <2>5
  <2> QED BY <2>2, <2>3, <2>6 DEF Found
<1>6. ASSUME Found(t, D, "Branch", j + 2, g, y, m) PROVE IsChoice(t, D, f.at, x, j, y, m)
  <2>0. PICK e \in 0..n - 1 : \E a \in D[<<"Branch", j + 2, e>>] : Via(t, D, g, a, e, y, m)
    BY <1>6 DEF Found
  <2>1. PICK a \in D[<<"Branch", j + 2, e>>] : Via(t, D, g, a, e, y, m)
    BY <2>0
  <2>2. /\ t[e + 1] = "Colon" /\ t[m + 1] # "Comma"
        /\ \E b \in D[<<"Branch", e + 2, m>>] : y = Tree("Ternary", "Question", f.at, <<x, a, b>>)
    BY <1>3, <2>1
  <2>3. e + 2 \in 1..n /\ e \in Int
    BY <2>2, StreamShape
  <2>4. j + 2 <= e
    BY <1>4, <2>1, Inside, LevelNames
  <2>5. e + 2 <= m
    BY <2>2, <2>3, Inside, LevelNames
  <2>6. e + 1 \in Splits(t, j + 1, m, {"Colon"}) /\ (e + 1) - 1 = e /\ (e + 1) + 1 = e + 2
    BY <1>4, <2>2, <2>3, <2>4, <2>5 DEF Splits
  <2>7. /\ a \in D[<<"Branch", j + 2, (e + 1) - 1>>]
        /\ \E b \in D[<<"Branch", (e + 1) + 1, m>>] : y = Tree("Ternary", "Question", f.at, <<x, a, b>>)
    BY <2>1, <2>2, <2>6
  <2> QED BY <2>2, <2>6, <2>7 DEF IsChoice
<1> QED BY <1>1, <1>5, <1>6 DEF g

LEMMA ExprKeeps ==
  ASSUME NEW t, NEW D, NEW f, f.fn = "Expr", NEW x, NEW j, t[j + 1] # "Question", NEW y, NEW m
  PROVE  Via(t, D, f, x, j, y, m) <=> m = j /\ y = x
<1>1. Via(t, D, f, x, j, y, m) <=> ExprVia(t, D, f, x, j, y, m)
  BY ViaIs
<1> QED BY <1>1 DEF ExprVia, IsChoice

LEMMA TrueBranchGoesOn ==
  ASSUME NEW t, NEW D, NEW f, f.fn = "TrueBranch", NEW x, NEW j,
         t[j + 1] = "Colon", NEW m \in 0..Len(t) - 1, NEW y
  PROVE  Via(t, D, f, x, j, y, m) <=>
           Found(t, D, "Branch", j + 2, Frame("FalseBranch", Append(f.kids, x), f.at), y, m)
<1> DEFINE g == Frame("FalseBranch", Append(f.kids, x), f.at)
<1>1. g.fn = "FalseBranch" /\ g.kids = Append(f.kids, x) /\ g.at = f.at
  BY DEF Frame
<1> HIDE DEF g
<1>2. ASSUME NEW b, NEW e
      PROVE  Via(t, D, g, b, e, y, m) <=>
               m = e /\ t[e + 1] # "Comma" /\ y = Tree("Ternary", "Question", f.at, Append(Append(f.kids, x), b))
  <2>1. Via(t, D, g, b, e, y, m) <=> FalseVia(t, g, b, e, y, m)
    BY <1>1, ViaIs
  <2> QED BY <1>1, <2>1 DEF FalseVia
<1>3. Via(t, D, f, x, j, y, m) <=> TrueVia(t, D, f, x, j, y, m)
  BY ViaIs
<1>4. Found(t, D, "Branch", j + 2, g, y, m) <=>
        /\ t[m + 1] # "Comma"
        /\ \E b \in D[<<"Branch", j + 2, m>>] : y = Tree("Ternary", "Question", f.at, Append(Append(f.kids, x), b))
  BY <1>2 DEF Found
<1> QED BY <1>3, <1>4 DEF TrueVia, g

LEMMA TrueBranchNeedsColon ==
  ASSUME NEW t, NEW D, NEW f, f.fn = "TrueBranch", NEW x, NEW j, t[j + 1] # "Colon", NEW y, NEW m
  PROVE  ~Via(t, D, f, x, j, y, m)
<1>1. Via(t, D, f, x, j, y, m) <=> TrueVia(t, D, f, x, j, y, m)
  BY ViaIs
<1> QED BY <1>1 DEF TrueVia

LEMMA FalseBranchReturns ==
  ASSUME NEW t, NEW D, NEW f, f.fn = "FalseBranch", NEW x, NEW j, t[j + 1] # "Comma", NEW y, NEW m
  PROVE  Via(t, D, f, x, j, y, m) <=> m = j /\ y = Tree("Ternary", "Question", f.at, Append(f.kids, x))
<1>1. Via(t, D, f, x, j, y, m) <=> FalseVia(t, f, x, j, y, m)
  BY ViaIs
<1> QED BY <1>1 DEF FalseVia

LEMMA ChainGoesOn ==
  ASSUME NEW t, NEW D, Reading(t, D), NEW f, f.fn \in {"Branch", "Or", "And"}, IsSeq(f.kids), NEW x,
         NEW j \in 0..Len(t) - 1, t[j + 1] = Separator(ListOf(f.fn)), Fine(f.fn, x),
         NEW m \in 0..Len(t) - 1, m # j, NEW y
  PROVE  Via(t, D, f, x, j, y, m) <=>
           Found(t, D, Callee(f.fn), j + 2, Frame(f.fn, Append(f.kids, x), f.at), y, m)
<1>1. Via(t, D, f, x, j, y, m) <=> ChainVia(t, D, f.fn, f.kids, f.at, x, j, y, m)
  BY ViaIs
<1>2. Via(t, D, f, x, j, y, m) <=> Grown(t, D, f.fn, f.at, Append(f.kids, x), j + 2, y, m)
  BY <1>1 DEF ChainVia
<1>3. IsSeq(Append(f.kids, x))
  <2>1. IsSeq(<<>>)
    BY NoKidsYet
  <2> QED BY <2>1, Joins
<1>4. j + 2 \in 1..Len(t)
  <2>1. Separator(ListOf(f.fn)) # "EOF"
    BY DEF Separator, ListOf
  <2> QED BY <2>1, StreamShape
<1>5. Grown(t, D, f.fn, f.at, Append(f.kids, x), j + 2, y, m) <=>
           Found(t, D, Callee(f.fn), j + 2, Frame(f.fn, Append(f.kids, x), f.at), y, m)
  BY <1>3, <1>4, ChainOn
<1> QED BY <1>2, <1>5

LEMMA ChainReturns ==
  ASSUME NEW t, NEW D, NEW f, f.fn \in {"Branch", "Or", "And"}, NEW x,
         NEW j, t[j + 1] # Separator(ListOf(f.fn)), Fine(f.fn, x), NEW m, NEW y
  PROVE  Via(t, D, f, x, j, y, m) <=> m = j /\ y = Made(f.fn, f.at, Append(f.kids, x))
<1>1. Via(t, D, f, x, j, y, m) <=> ChainVia(t, D, f.fn, f.kids, f.at, x, j, y, m)
  BY ViaIs
<1> QED BY <1>1 DEF ChainVia

LEMMA ItemIsOperand ==
  ASSUME NEW t, NEW D, NEW f, f.fn = "Branch", NEW x, ~IsOperand(x), NEW j, NEW m, NEW y
  PROVE  ~Via(t, D, f, x, j, y, m)
<1>1. Via(t, D, f, x, j, y, m) <=> ChainVia(t, D, f.fn, f.kids, f.at, x, j, y, m)
  BY ViaIs
<1> QED BY <1>1 DEF ChainVia, Fine

LEMMA NotReturns ==
  ASSUME NEW t, NEW D, NEW f, f.fn = "Not", NEW x, NEW j, NEW m, NEW y
  PROVE  Via(t, D, f, x, j, y, m) <=> m = j /\ y = Tree("Not", "Not", f.at, <<x>>)
<1>1. Via(t, D, f, x, j, y, m) <=> NotVia(f, x, j, y, m)
  BY ViaIs
<1> QED BY <1>1 DEF NotVia

LEMMA ComparisonGoesOn ==
  ASSUME NEW t, NEW D, NEW f, f.fn = "Comparison", f.kids = <<>>, NEW x, NEW j,
         t[j + 1] \in ComparisonOps, IsOperand(x), NEW m \in 0..Len(t) - 1, m # j, NEW y
  PROVE  Via(t, D, f, x, j, y, m) <=>
           Found(t, D, "Additive", j + 2, Frame("Comparison", <<x>>, j + 1), y, m)
<1> DEFINE g == Frame("Comparison", <<x>>, j + 1)
<1>1. g.fn = "Comparison" /\ g.kids # <<>> /\ g.at = j + 1 /\ \A b : Append(g.kids, b) = <<x, b>>
  <2>1. g.fn = "Comparison" /\ g.kids = <<x>> /\ g.at = j + 1
    BY DEF Frame
  <2> QED BY <2>1, Pair
<1> HIDE DEF g
<1>2. ASSUME NEW b, NEW e
      PROVE  Via(t, D, g, b, e, y, m) <=>
               m = e /\ IsOperand(b) /\ y = Tree("Comparison", t[j + 1], j + 1, <<x, b>>)
  <2>1. Via(t, D, g, b, e, y, m) <=> ComparisonVia(t, D, g, b, e, y, m)
    BY <1>1, ViaIs
  <2> QED BY <1>1, <2>1 DEF ComparisonVia
<1>3. Via(t, D, f, x, j, y, m) <=> ComparisonVia(t, D, f, x, j, y, m)
  BY ViaIs
<1>4. Via(t, D, f, x, j, y, m) <=> IsCompared(t, D, x, j, y, m)
  BY <1>3 DEF ComparisonVia
<1>5. IsCompared(t, D, x, j, y, m) <=>
        \E b \in D[<<"Additive", j + 2, m>>] : IsOperand(b) /\ y = Tree("Comparison", t[j + 1], j + 1, <<x, b>>)
  BY DEF IsCompared, IsRight
<1>6. Found(t, D, "Additive", j + 2, g, y, m) <=>
        \E b \in D[<<"Additive", j + 2, m>>] : IsOperand(b) /\ y = Tree("Comparison", t[j + 1], j + 1, <<x, b>>)
  <2> DEFINE S(b) == Tree("Comparison", t[j + 1], j + 1, <<x, b>>)
  <2>1. \A b, e : Via(t, D, g, b, e, y, m) <=> m = e /\ IsOperand(b) /\ y = S(b)
    BY <1>2
  <2> HIDE DEF S
  <2>2. Found(t, D, "Additive", j + 2, g, y, m) <=>
          \E b \in D[<<"Additive", j + 2, m>>] : IsOperand(b) /\ y = S(b)
    <3>1. ASSUME NEW e \in 0..Len(t) - 1, NEW b \in D[<<"Additive", j + 2, e>>], Via(t, D, g, b, e, y, m)
          PROVE  \E c \in D[<<"Additive", j + 2, m>>] : IsOperand(c) /\ y = S(c)
      <4>1. m = e /\ IsOperand(b) /\ y = S(b)
        BY <2>1, <3>1
      <4> QED BY <4>1
    <3>2. ASSUME NEW b \in D[<<"Additive", j + 2, m>>], IsOperand(b), y = S(b)
          PROVE  Via(t, D, g, b, m, y, m)
      BY <2>1, <3>2
    <3> QED BY <3>1, <3>2 DEF Found
  <2> QED BY <2>2 DEF S
<1> QED BY <1>4, <1>5, <1>6 DEF g

LEMMA ComparisonReturns ==
  ASSUME NEW t, NEW D, NEW f, f.fn = "Comparison", f.kids # <<>>, NEW x, IsOperand(x), NEW j, NEW m, NEW y
  PROVE  Via(t, D, f, x, j, y, m) <=> m = j /\ y = Tree("Comparison", t[f.at], f.at, Append(f.kids, x))
<1>1. Via(t, D, f, x, j, y, m) <=> ComparisonVia(t, D, f, x, j, y, m)
  BY ViaIs
<1> QED BY <1>1 DEF ComparisonVia

LEMMA ComparisonKeeps ==
  ASSUME NEW t, NEW D, NEW f, f.fn = "Comparison", f.kids = <<>>, NEW x, NEW j,
         t[j + 1] \notin ComparisonOps, NEW m, NEW y
  PROVE  Via(t, D, f, x, j, y, m) <=> m = j /\ y = x
<1>1. Via(t, D, f, x, j, y, m) <=> ComparisonVia(t, D, f, x, j, y, m)
  BY ViaIs
<1> QED BY <1>1 DEF ComparisonVia, IsCompared, IsRight

LEMMA SideIsOperand ==
  ASSUME NEW t, NEW D, NEW f, f.fn = "Comparison", NEW x, ~IsOperand(x), NEW j, NEW m, m # j, NEW y
  PROVE  ~Via(t, D, f, x, j, y, m)
<1>1. Via(t, D, f, x, j, y, m) <=> ComparisonVia(t, D, f, x, j, y, m)
  BY ViaIs
<1> QED BY <1>1 DEF ComparisonVia, IsCompared, IsRight

LEMMA RightIsOperand ==
  ASSUME NEW t, NEW D, NEW f, f.fn = "Comparison", f.kids # <<>>, NEW x, ~IsOperand(x), NEW j, NEW m, NEW y
  PROVE  ~Via(t, D, f, x, j, y, m)
<1>1. Via(t, D, f, x, j, y, m) <=> ComparisonVia(t, D, f, x, j, y, m)
  BY ViaIs
<1> QED BY <1>1 DEF ComparisonVia

LEMMA SumVia ==
  ASSUME NEW t, NEW D, NEW f, f.fn = "Additive", NEW x, NEW j, NEW m, NEW y
  PROVE  /\ f.kids = <<>> => (Via(t, D, f, x, j, y, m) <=> SumTail(t, D, x, j, y, m))
         /\ f.kids # <<>> =>
              (Via(t, D, f, x, j, y, m) <=>
                IsOperand(x) /\ SumTail(t, D, Tree("Additive", "Plus", f.at, Append(f.kids, x)), j, y, m))
<1>1. Via(t, D, f, x, j, y, m) <=> AdditiveVia(t, D, f, x, j, y, m)
  BY ViaIs
<1> QED BY <1>1 DEF AdditiveVia

LEMMA SumGoesOn ==
  ASSUME NEW t, NEW D, Reading(t, D), NEW f, f.fn = "Additive", f.kids = <<>>, NEW x, NEW j \in 0..Len(t) - 1,
         t[j + 1] = "Plus", IsOperand(x), NEW m \in 0..Len(t) - 1, m # j, NEW y
  PROVE  Via(t, D, f, x, j, y, m) <=>
           Found(t, D, "Atom", j + 2, Frame("Additive", <<x>>, j + 1), y, m)
<1> DEFINE n == Len(t)
           g == Frame("Additive", <<x>>, j + 1)
           S(b) == Tree("Additive", "Plus", j + 1, <<x, b>>)
<1>0. n \in Nat
  BY StreamShape
<1>1. g.fn = "Additive" /\ g.kids # <<>> /\ g.at = j + 1 /\ \A b : Append(g.kids, b) = <<x, b>>
  <2>1. g.fn = "Additive" /\ g.kids = <<x>> /\ g.at = j + 1
    BY DEF Frame
  <2> QED BY <2>1, Pair
<1> HIDE DEF g
<1>2. ASSUME NEW b, NEW e
      PROVE  Via(t, D, g, b, e, y, m) <=> IsOperand(b) /\ SumTail(t, D, S(b), e, y, m)
  BY <1>1, SumVia
<1>3. Via(t, D, f, x, j, y, m) <=> \E e \in 0..n - 1 : \E z : IsTerm(t, D, x, j, z, e) /\ SumTail(t, D, z, e, y, m)
  <2>1. Via(t, D, f, x, j, y, m) <=> SumTail(t, D, x, j, y, m)
    BY SumVia
  <2>2. SumTail(t, D, x, j, y, m) <=>
           \/ x = y /\ j = m
           \/ \E e \in 0..n - 1 : \E z : IsTerm(t, D, x, j, z, e) /\ SumTail(t, D, z, e, y, m)
    BY <1>0, SumLeft
  <2> QED BY <2>1, <2>2
<1>4. \A z, e : IsTerm(t, D, x, j, z, e) <=> \E b \in D[<<"Atom", j + 2, e>>] : IsOperand(b) /\ z = S(b)
  BY DEF IsTerm, IsRight
<1> HIDE DEF S
<1>5. Found(t, D, "Atom", j + 2, g, y, m) <=>
        \E e \in 0..n - 1 : \E b \in D[<<"Atom", j + 2, e>>] : IsOperand(b) /\ SumTail(t, D, S(b), e, y, m)
  BY <1>2 DEF Found
<1>6. Via(t, D, f, x, j, y, m) <=>
        \E e \in 0..n - 1 : \E b \in D[<<"Atom", j + 2, e>>] : IsOperand(b) /\ SumTail(t, D, S(b), e, y, m)
  BY <1>3, <1>4
<1> QED BY <1>5, <1>6 DEF g

LEMMA SumTermJoins ==
  ASSUME NEW t, NEW D, NEW f, f.fn = "Additive", f.kids # <<>>, NEW x, IsOperand(x), NEW j, NEW m, NEW y
  PROVE  Via(t, D, f, x, j, y, m) <=>
           Via(t, D, Frame("Additive", <<>>, f.at), Tree("Additive", "Plus", f.at, Append(f.kids, x)), j, y, m)
<1> DEFINE g == Frame("Additive", <<>>, f.at)
           z == Tree("Additive", "Plus", f.at, Append(f.kids, x))
<1>1. g.fn = "Additive" /\ g.kids = <<>>
  BY FrameIs
<1>2. Via(t, D, f, x, j, y, m) <=> SumTail(t, D, z, j, y, m)
  BY SumVia
<1> HIDE DEF g, z
<1>3. Via(t, D, g, z, j, y, m) <=> SumTail(t, D, z, j, y, m)
  BY <1>1, SumVia
<1> QED BY <1>2, <1>3 DEF g, z

NoTermBehind(t, x, j) == t[j + 1] # "Plus" \/ ~IsOperand(x)

LEMMA SumEnds ==
  ASSUME NEW t, NEW D, Reading(t, D), NEW f, f.fn = "Additive", f.kids = <<>>, NEW x, NEW j \in 0..Len(t) - 1,
         NoTermBehind(t, x, j), NEW m \in 0..Len(t) - 1, NEW y
  PROVE  Via(t, D, f, x, j, y, m) <=> m = j /\ y = x
<1>1. Via(t, D, f, x, j, y, m) <=> SumTail(t, D, x, j, y, m)
  BY SumVia
<1>2. SumTail(t, D, x, j, y, m) <=>
         \/ x = y /\ j = m
         \/ \E e \in 0..Len(t) - 1 : \E z : IsTerm(t, D, x, j, z, e) /\ SumTail(t, D, z, e, y, m)
  <2>1. Len(t) \in Nat
    BY StreamShape
  <2> QED BY <2>1, SumLeft
<1>3. \A z, e : ~IsTerm(t, D, x, j, z, e)
  BY DEF NoTermBehind, IsTerm, IsRight
<1> QED BY <1>1, <1>2, <1>3

LEMMA TermIsOperand ==
  ASSUME NEW t, NEW D, NEW f, f.fn = "Additive", f.kids # <<>>, NEW x, ~IsOperand(x), NEW j, NEW m, NEW y
  PROVE  ~Via(t, D, f, x, j, y, m)
BY SumVia

LEMMA CloserReturns ==
  ASSUME NEW t, NEW D, NEW f, f.fn \in Enclosers, NEW x, NEW j, t[j + 1] = Closer(f.fn), NEW m, NEW y
  PROVE  Via(t, D, f, x, j, y, m) <=> m = j + 1 /\ y = Wrapped(t, f, x)
<1>1. Via(t, D, f, x, j, y, m) <=> Closes(t, Closer(f.fn), j, m) /\ y = Wrapped(t, f, x)
  BY WrapVia
<1> QED BY <1>1 DEF Closes

LEMMA NeedsCloser ==
  ASSUME NEW t, NEW D, NEW f, f.fn \in Enclosers, NEW x, NEW j, t[j + 1] # Closer(f.fn), NEW m, NEW y
  PROVE  ~Via(t, D, f, x, j, y, m)
<1>1. Via(t, D, f, x, j, y, m) <=> Closes(t, Closer(f.fn), j, m) /\ y = Wrapped(t, f, x)
  BY WrapVia
<1> QED BY <1>1 DEF Closes

-----------------------------------------------------------------------------
(* Where nothing can be read.                                                  *)
LEMMA NothingStarts ==
  ASSUME NEW t, NEW D, Reading(t, D), NEW i \in 1..Len(t), NEW m \in 0..Len(t) - 1,
         t[i] \notin LiteralTokens \cup {"LParen", "LBrace", "User", "Name"},
         t[i] \in MemberOfTokens => t[i + 1] # "LParen",
         t[i] = "Class" /\ i + 3 \in 1..Len(t) => ~(t[i + 1] = "Dot" /\ t[i + 2] = "Name" /\ t[i + 3] = "LParen")
  PROVE  D[<<"Atom", i, m>>] = {}
<1>0. i \in Int /\ m \in Int /\ Len(t) \in Nat
  BY PlaceFits
<1>1. CASE i > m
  BY <1>1, NoAtom
<1>2. CASE ~(i > m)
  <2>1. D[<<"Atom", i, m>>] = Atoms(t, Numbers(t), D, i, m)
    BY <1>2, AtomFrom
  <2>2. CASE t[i] \in MemberOfTokens
    <3>1. ASSUME NEW y \in Atoms(t, Numbers(t), D, i, m) PROVE FALSE
      <4>1. IsCall(t, Numbers(t)[i], D, "MemberOfExpr", i + 1, i, m, y)
        BY <2>2, <3>1, MemberOfAtom
      <4> QED BY <2>2, <4>1 DEF IsCall
    <3> QED BY <2>1, <3>1
  <2>3. CASE t[i] = "Class"
    <3>1. ASSUME NEW y \in Atoms(t, Numbers(t), D, i, m) PROVE FALSE
      <4>1. /\ m > i + 2 /\ t[i + 1] = "Dot" /\ t[i + 2] = "Name"
            /\ IsCall(t, Numbers(t)[i], D, "ClassCall", i + 3, i, m, y)
        BY <2>3, <3>1, ClassAtom
      <4>2. i + 3 < m /\ t[i + 3] = "LParen"
        BY <4>1 DEF IsCall
      <4>3. i + 3 \in 1..Len(t)
        BY <1>0, <4>2
      <4> QED BY <2>3, <4>1, <4>2, <4>3
    <3> QED BY <2>1, <3>1
  <2>4. CASE t[i] \notin MemberOfTokens /\ t[i] # "Class"
    BY <2>1, <2>4, AtomsAre
  <2> QED BY <2>2, <2>3, <2>4
<1> QED BY <1>1, <1>2

LEMMA NoHopStarts ==
  ASSUME NEW t, NEW D, Reading(t, D), NEW i \in 1..Len(t), NEW m \in 0..Len(t) - 1,
         t[i] # "Name", t[i] \in MemberOfTokens => t[i + 1] # "LParen"
  PROVE  D[<<"Hop", i, m>>] = {}
<1>1. CASE i > m
  BY <1>1, NoAtom
<1>2. CASE ~(i > m)
  <2>1. D[<<"Hop", i, m>>] = Hops(t, Numbers(t), D, i, m)
    BY <1>2, AtomFrom
  <2>2. CASE t[i] \in MemberOfTokens
    <3>1. ASSUME NEW y \in Hops(t, Numbers(t), D, i, m) PROVE FALSE
      <4>1. IsCall(t, Numbers(t)[i], D, "MemberOfExpr", i + 1, i, m, y)
        BY <2>2, <3>1, MemberOfAtom
      <4> QED BY <2>2, <4>1 DEF IsCall
    <3> QED BY <2>1, <3>1
  <2>3. CASE t[i] \notin MemberOfTokens
    BY <2>1, <2>3, AtomsAre
  <2> QED BY <2>2, <2>3
<1> QED BY <1>1, <1>2

-----------------------------------------------------------------------------
(* Trees of an arena: its children come first, so the recursion of Unfolded is *)
(* the one its equation describes.                                             *)
Arena(ns) ==
  /\ Len(ns) \in Nat
  /\ \A i \in 1..Len(ns) :
       /\ ns[i].at \in Nat /\ ns[i].kids \in Seq(Nat) /\ Len(ns[i].kids) \in Nat
       /\ \A j \in 1..Len(ns[i].kids) : ns[i].kids[j] \in 1..i - 1

Kids(U, ks) == [j \in 1..Len(ks) |-> U[ks[j]]]
Of(U, n) == Tree(n.kind, n.op, n.at, Kids(U, n.kids))
Roots(ns) == Unfolded(ns, Itself)

LEMMA RootAt ==
  ASSUME NEW ns, Arena(ns), NEW i \in 1..Len(ns)
  PROVE  Roots(ns)[i] = Of(Roots(ns), ns[i])
<1> DEFINE n == Len(ns)
           Kd(j, k) == ns[j].kids[k]
           Ks(j) == 1..Len(ns[j].kids)
           M(j, f) == Tree(ns[j].kind, ns[j].op, Itself[ns[j].at], [k \in Ks(j) |-> f[Kd(j, k)]])
           Solvable(m) == \E f : \A j \in 1..m : f[j] = M(j, f)
           Solved == {m \in 0..n : Solvable(m)}
<1>1. n \in Nat /\ \A j \in 1..n : ns[j].at \in Nat /\ \A k \in Ks(j) : Kd(j, k) \in 1..j - 1
  BY DEF Arena
<1>0. \A j \in 1..n : Itself[ns[j].at] = ns[j].at
  BY <1>1 DEF Itself
<1> HIDE DEF n, Kd, Ks
<1>2. 0 \in Solved
  BY <1>1
<1>3. ASSUME NEW m \in 0..n - 1, m \in Solved
      PROVE  m + 1 \in Solved
  <2>1. PICK f : \A j \in 1..m : f[j] = M(j, f)
    BY <1>3
  <2> DEFINE g == [j \in 1..n |-> IF j = m + 1 THEN M(j, f) ELSE f[j]]
  <2>2. m + 1 \in 1..n /\ \A j \in 1..m : j \in 1..n /\ j # m + 1
    BY <1>1
  <2>3. g[m + 1] = M(m + 1, f) /\ \A j \in 1..m : g[j] = f[j]
    BY <2>2
  <2> HIDE DEF g
  <2>4. \A j \in 1..m + 1 : j \in 1..n /\ \A k \in Ks(j) : Kd(j, k) \in 1..m
    <3>1. \A j \in 1..m + 1 : j \in 1..n /\ \A p \in 1..j - 1 : p \in 1..m
      BY <1>1
    <3> QED BY <1>1, <3>1
  <2>5. \A j \in 1..m + 1 : [k \in Ks(j) |-> g[Kd(j, k)]] = [k \in Ks(j) |-> f[Kd(j, k)]]
    BY <2>3, <2>4
  <2>6. \A j \in 1..m + 1 : M(j, g) = M(j, f)
    BY <2>5
  <2>7. \A j \in 1..m + 1 : j = m + 1 \/ j \in 1..m
    OBVIOUS
  <2> HIDE DEF M
  <2>8. \A j \in 1..m + 1 : g[j] = M(j, g)
    BY <2>1, <2>3, <2>6, <2>7
  <2> QED BY <1>1, <2>2, <2>8
<1>4. n \in Solved
  <2> HIDE DEF Solved
  <2>1. n \in Nat /\ 0 \in Solved /\ \A m \in 0..n - 1 : m \in Solved => m + 1 \in Solved
    BY <1>1, <1>2, <1>3
  <2>2. \A m \in 0..n : m \in Solved
    BY <2>1, Induction, Zenon
  <2> QED BY <1>1, <2>2
<1>5. PICK f : \A j \in 1..n : f[j] = M(j, f)
  BY <1>4
<1> DEFINE h == [j \in 1..n |-> f[j]]
<1>6. \A j \in 1..n : \A k \in Ks(j) : Kd(j, k) \in 1..n
  <2>1. \A j \in 1..n : \A p \in 1..j - 1 : p \in 1..n
    BY <1>1
  <2> QED BY <1>1, <2>1
<1>7. \A j \in 1..n : h[j] = f[j]
  OBVIOUS
<1>8. \A j \in 1..n : [k \in Ks(j) |-> h[Kd(j, k)]] = [k \in Ks(j) |-> f[Kd(j, k)]]
  <2> HIDE DEF h
  <2> QED BY <1>6, <1>7
<1>9. h = [j \in 1..n |-> M(j, h)]
  <2>1. \A j \in 1..n : M(j, h) = M(j, f)
    BY <1>8
  <2> HIDE DEF M
  <2> QED BY <1>5, <2>1
<1> HIDE DEF h
<1>10. Roots(ns) = CHOOSE r : r = [j \in 1..n |-> M(j, r)]
  BY DEF Roots, Unfolded, n, Ks, Kd
<1>11. Roots(ns) = [j \in 1..n |-> M(j, Roots(ns))]
  <2> HIDE DEF M
  <2> QED BY <1>9, <1>10
<1>12. Kids(Roots(ns), ns[i].kids) = [k \in Ks(i) |-> Roots(ns)[Kd(i, k)]]
  BY DEF Kids, Ks, Kd
<1>13. i \in 1..n
  BY DEF n
<1>14. Roots(ns)[i] = M(i, Roots(ns))
  <2> HIDE DEF M
  <2> QED BY <1>11, <1>13
<1> QED BY <1>0, <1>12, <1>13, <1>14 DEF Of

(* Nodes that are the same in two arenas, children included, are the roots of  *)
(* the same trees: all of them but r.                                          *)
SameNodes(ns, ms, n, r) ==
  \A i \in 1..n : i # r => ms[i] = ns[i] /\ \A j \in 1..Len(ns[i].kids) : ns[i].kids[j] # r

SameRoots(ns, ms, n, r) == \A i \in 1..n : i # r => Roots(ms)[i] = Roots(ns)[i]

LEMMA RootsSame ==
  ASSUME NEW ns, NEW ms, Arena(ns), Arena(ms), NEW n \in Nat, n <= Len(ns), n <= Len(ms), NEW r,
         SameNodes(ns, ms, n, r)
  PROVE  SameRoots(ns, ms, n, r)
<1> USE DEF SameNodes, SameRoots
<1> DEFINE Same(m) == \A i \in 1..m : i # r => Roots(ms)[i] = Roots(ns)[i]
           Sames == {m \in 0..n : Same(m)}
<1>1. 0 \in Sames
  OBVIOUS
<1>2. ASSUME NEW m \in 0..n - 1, m \in Sames PROVE m + 1 \in Sames
  <2>1. Same(m) /\ m + 1 \in 1..n /\ m + 1 \in 0..n
    BY <1>2
  <2>2. m + 1 \in 1..Len(ns) /\ m + 1 \in 1..Len(ms) /\ (m + 1) - 1 = m
    BY <2>1 DEF Arena
  <2>3. ASSUME m + 1 # r PROVE Roots(ms)[m + 1] = Roots(ns)[m + 1]
    <3>1. ms[m + 1] = ns[m + 1] /\ \A j \in 1..Len(ns[m + 1].kids) : ns[m + 1].kids[j] # r
      BY <2>1, <2>3
    <3>2. \A j \in 1..Len(ns[m + 1].kids) : ns[m + 1].kids[j] \in 1..m
      BY <2>2 DEF Arena
    <3>3. \A j \in 1..Len(ns[m + 1].kids) : Roots(ms)[ns[m + 1].kids[j]] = Roots(ns)[ns[m + 1].kids[j]]
      BY <2>1, <3>1, <3>2
    <3>4. Kids(Roots(ms), ns[m + 1].kids) = Kids(Roots(ns), ns[m + 1].kids)
      BY <3>3 DEF Kids
    <3>5. Roots(ms)[m + 1] = Of(Roots(ms), ms[m + 1]) /\ Roots(ns)[m + 1] = Of(Roots(ns), ns[m + 1])
      BY <2>2, RootAt
    <3> QED BY <3>1, <3>4, <3>5 DEF Of
  <2>4. \A i \in 1..m + 1 : i \in 1..m \/ i = m + 1
    OBVIOUS
  <2>5. Same(m + 1)
    BY <2>1, <2>3, <2>4
  <2> QED BY <2>1, <2>5
<1>3. n \in Sames
  <2> HIDE DEF Sames
  <2>1. \A m \in 0..n : m \in Sames
    BY <1>1, <1>2, Induction, Zenon
  <2> QED BY <2>1
<1> QED BY <1>3

-----------------------------------------------------------------------------
(* The trees of what a method has collected.                                   *)
LEMMA KidsAre ==
  ASSUME NEW U, NEW ks \in Seq(Nat)
  PROVE  /\ IsSeq(Kids(U, ks)) /\ Len(Kids(U, ks)) = Len(ks)
         /\ Kids(U, ks) = <<>> <=> ks = <<>>
         /\ \A r \in Nat : Kids(U, Append(ks, r)) = Append(Kids(U, ks), U[r])
         /\ Kids(U, <<>>) = <<>>
<1>1. Len(ks) \in Nat /\ (ks = <<>> <=> Len(ks) = 0)
  BY LenProperties, EmptySeq
<1> DEFINE K == Kids(U, ks)
           S == {U[ks[j]] : j \in 1..Len(ks)}
<1>2. K \in Seq(S) /\ Len(K) = Len(ks) /\ \A j \in 1..Len(ks) : K[j] = U[ks[j]]
  BY <1>1 DEF Kids
<1> HIDE DEF K, S
<1>3. IsSeq(K)
  BY <1>2, OwnRange DEF IsSeq
<1>4. K = <<>> <=> ks = <<>>
  BY <1>1, <1>2, EmptySeq
<1>5. ASSUME NEW r \in Nat PROVE Kids(U, Append(ks, r)) = Append(K, U[r])
  <2> DEFINE k == Append(ks, r)
             A == Append(K, U[r])
  <2>1. Len(k) = Len(ks) + 1 /\ k[Len(ks) + 1] = r /\ \A j \in 1..Len(ks) : k[j] = ks[j]
    OBVIOUS
  <2>2. Len(A) = Len(K) + 1 /\ A[Len(K) + 1] = U[r] /\ (\A j \in 1..Len(K) : A[j] = K[j]) /\ A \in Seq(Range(A))
    BY <1>3, SeqWiden DEF IsSeq
  <2> HIDE DEF k, A
  <2>3. A = [j \in 1..Len(A) |-> A[j]]
    BY <2>2
  <2>4. \A j \in 1..Len(ks) + 1 : A[j] = U[k[j]]
    <3>1. \A j \in 1..Len(ks) + 1 : j \in 1..Len(ks) \/ j = Len(ks) + 1
      BY <1>1
    <3> QED BY <1>2, <2>1, <2>2, <3>1
  <2>5. A = [j \in 1..Len(k) |-> U[k[j]]]
    BY <1>2, <2>1, <2>2, <2>3, <2>4
  <2> QED BY <2>5 DEF Kids, k, A
<1>6. Kids(U, <<>>) = <<>>
  BY DEF Kids
<1> QED BY <1>2, <1>3, <1>4, <1>5, <1>6 DEF K

-----------------------------------------------------------------------------
(* The waiting methods, with the trees of what they have collected, and the    *)
(* trees a parse in the current state may still end with.                      *)
TableOf(t) == Trees(t, Numbers(t))
Resolved(U, f) == Frame(f.fn, Kids(U, f.kids), f.at)
Methods(U, s) == [k \in 1..Len(s) |-> Resolved(U, s[k])]

Starters == Delegates \cup {"Not", "Atom"}

EndsFor(t, fs, k, c, p, x, T) ==
  CASE c \in Starters -> Started(t, TableOf(t), fs, k, c, p, T)
    [] c = "Path" -> Going(t, TableOf(t), fs, k, p - 1, T)
    [] c = "Return" -> Outer(t, TableOf(t), fs, k, x, p - 1, T)
    [] c = "Accepted" -> T = x
    [] OTHER -> FALSE

LEMMA EndsForIs ==
  ASSUME NEW t, NEW fs, NEW k, NEW c, NEW p, NEW x, NEW T
  PROVE  /\ c \in Starters =>
              (EndsFor(t, fs, k, c, p, x, T) <=> Started(t, TableOf(t), fs, k, c, p, T))
         /\ c = "Path" => (EndsFor(t, fs, k, c, p, x, T) <=> Going(t, TableOf(t), fs, k, p - 1, T))
         /\ c = "Return" => (EndsFor(t, fs, k, c, p, x, T) <=> Outer(t, TableOf(t), fs, k, x, p - 1, T))
         /\ c = "Accepted" => (EndsFor(t, fs, k, c, p, x, T) <=> T = x)
         /\ c = "Failed" => ~EndsFor(t, fs, k, c, p, x, T)
<1>1. Starters \cap {"Path", "Return", "Accepted", "Failed"} = {}
  BY DEF Starters, Delegates
<1> QED BY <1>1 DEF EndsFor

LEMMA TableReads ==
  ASSUME NEW t, StreamFits(t)
  PROVE  Reading(t, TableOf(t)) /\ Len(t) \in Nat \ {0}
<1>1. Len(t) \in Nat \ {0}
  BY LenProperties, EmptySeq DEF StreamFits
<1>2. IsTable(t, Numbers(t), TableOf(t))
  BY <1>1, TreesAt DEF TableOf
<1> QED BY <1>1, <1>2 DEF Reading

LEMMA MethodsAre ==
  ASSUME NEW U, NEW n, NEW ns, NEW s, StackOK(n, ns, s)
  PROVE  /\ Len(s) \in Nat /\ Nested(Methods(U, s), Len(s))
         /\ \A k \in 1..Len(s) :
              /\ Methods(U, s)[k] = Resolved(U, s[k])
              /\ Methods(U, s)[k].fn = s[k].fn /\ Methods(U, s)[k].at = s[k].at
              /\ Methods(U, s)[k].kids = Kids(U, s[k].kids)
<1>1. s \in Seq(FrameType(n)) /\ Len(s) \in Nat /\ Linked(s)
  BY LenProperties DEF StackOK
<1>2. \A k \in 1..Len(s) : s[k] \in FrameType(n)
  BY <1>1, ElementOfSeq
<1>3. \A k \in 1..Len(s) : s[k].fn \in FrameFns
  BY <1>2 DEF FrameType
<1>4. \A k \in 1..Len(s) : Methods(U, s)[k] = Resolved(U, s[k])
  BY DEF Methods
<1>5. \A k \in 1..Len(s) :
        /\ Methods(U, s)[k].fn = s[k].fn /\ Methods(U, s)[k].at = s[k].at
        /\ Methods(U, s)[k].kids = Kids(U, s[k].kids)
  BY <1>4, FrameIs DEF Resolved
<1>6. Nested(Methods(U, s), Len(s))
  <2>1. Len(s) >= 1 => s # <<>> /\ 1 \in 1..Len(s)
    BY <1>1, EmptySeq
  <2>2. \A l \in 2..Len(s) : l \in 1..Len(s) /\ l - 1 \in 1..Len(s)
    BY <1>1
  <2>3. Len(s) >= 1 => "Expr" \in Runs(Methods(U, s)[1].fn)
    BY <1>1, <1>5, <2>1 DEF Linked
  <2>4. \A l \in 2..Len(s) : Waits(Methods(U, s)[l - 1].fn) \in Runs(Methods(U, s)[l].fn)
    BY <1>1, <1>5, <2>2 DEF Linked
  <2> QED BY <1>3, <1>5, <2>3, <2>4 DEF Nested
<1> QED BY <1>1, <1>4, <1>5, <1>6

(* Nothing a waiting method holds loses its tree.                              *)
Kept(U, V, s) ==
  \A k \in 1..Len(s) : \A j \in 1..Len(s[k].kids) : V[s[k].kids[j]] = U[s[k].kids[j]]

LEMMA MethodsKept ==
  ASSUME NEW U, NEW V, NEW s, Kept(U, V, s), NEW k \in 1..Len(s)
  PROVE  Resolved(V, s[k]) = Resolved(U, s[k])
<1>1. Kids(V, s[k].kids) = Kids(U, s[k].kids)
  BY DEF Kept, Kids
<1> QED BY <1>1 DEF Resolved

LEMMA MethodPushed ==
  ASSUME NEW U, NEW V, NEW S, NEW s \in Seq(S), Kept(U, V, s), NEW fn, NEW at
  PROVE  /\ Len(Append(s, Frame(fn, <<>>, at))) = Len(s) + 1 /\ Len(s) \in Nat
         /\ Alike(Methods(U, s), Methods(V, Append(s, Frame(fn, <<>>, at))), Len(s))
         /\ Methods(V, Append(s, Frame(fn, <<>>, at)))[Len(s) + 1] = Frame(fn, <<>>, at)
<1> DEFINE f == Frame(fn, <<>>, at)
           s2 == Append(s, f)
<1>1. s \in Seq(S \cup {f}) /\ f \in S \cup {f} /\ Len(s) \in Nat
  BY LenProperties
<1>2. Len(s2) = Len(s) + 1 /\ s2[Len(s) + 1] = f /\ \A l \in 1..Len(s) : s2[l] = s[l]
  BY <1>1, PushProperties
<1> HIDE DEF f, s2
<1>3. \A l \in 1..Len(s) + 1 : Methods(V, s2)[l] = Resolved(V, s2[l])
  BY <1>2 DEF Methods
<1>4. \A l \in 1..Len(s) : l \in 1..Len(s) + 1 /\ Methods(U, s)[l] = Resolved(U, s[l])
  BY <1>1 DEF Methods
<1>5. \A l \in 1..Len(s) : Resolved(V, s[l]) = Resolved(U, s[l])
  BY MethodsKept
<1>6. Resolved(V, f) = f
  <2>1. <<>> \in Seq(Nat) /\ f.fn = fn /\ f.at = at /\ f.kids = <<>>
    BY FrameIs DEF f
  <2>2. Kids(V, <<>>) = <<>>
    BY <2>1, KidsAre
  <2> QED BY <2>1, <2>2 DEF Resolved, f
<1>7. Len(s) + 1 \in 1..Len(s) + 1
  BY <1>1
<1> QED BY <1>1, <1>2, <1>3, <1>4, <1>5, <1>6, <1>7 DEF f, s2, Alike

Retopped(s, f) == [s EXCEPT ![Len(s)] = f]

LEMMA MethodReplaced ==
  ASSUME NEW U, NEW V, NEW S, NEW s \in Seq(S), s # <<>>, Kept(U, V, s), NEW f
  PROVE  /\ Len(Retopped(s, f)) = Len(s) /\ Len(s) \in Nat \ {0}
         /\ Alike(Methods(U, s), Methods(V, Retopped(s, f)), Len(s) - 1)
         /\ Methods(V, Retopped(s, f))[Len(s)] = Resolved(V, f)
<1> DEFINE s2 == Retopped(s, f)
<1>1. s \in Seq(S \cup {f}) /\ f \in S \cup {f} /\ Len(s) \in Nat \ {0}
  BY LenProperties, EmptySeq
<1>2. Len(s2) = Len(s) /\ s2[Len(s)] = f /\ \A l \in 1..Len(s) - 1 : s2[l] = s[l]
  BY <1>1, ReplaceProperties DEF Retopped
<1> HIDE DEF s2
<1>3. \A l \in 1..Len(s) : Methods(V, s2)[l] = Resolved(V, s2[l])
  BY <1>2 DEF Methods
<1>4. \A l \in 1..Len(s) - 1 : l \in 1..Len(s) /\ Methods(U, s)[l] = Resolved(U, s[l])
  BY <1>1 DEF Methods
<1>5. \A l \in 1..Len(s) : Resolved(V, s[l]) = Resolved(U, s[l])
  BY MethodsKept
<1>6. Len(s) \in 1..Len(s)
  BY <1>1
<1> QED BY <1>1, <1>2, <1>3, <1>4, <1>5, <1>6 DEF Alike, s2

LEMMA MethodPopped ==
  ASSUME NEW U, NEW V, NEW S, NEW s \in Seq(S), s # <<>>, Kept(U, V, s)
  PROVE  /\ Len(Front(s)) = Len(s) - 1 /\ Len(s) \in Nat \ {0}
         /\ Alike(Methods(U, s), Methods(V, Front(s)), Len(s) - 1)
<1>1. Len(s) \in Nat \ {0}
  BY LenProperties, EmptySeq
<1>2. Len(Front(s)) = Len(s) - 1 /\ \A l \in 1..Len(s) - 1 : Front(s)[l] = s[l]
  BY PopProperties
<1>3. \A l \in 1..Len(s) - 1 : Methods(V, Front(s))[l] = Resolved(V, Front(s)[l])
  BY <1>2 DEF Methods
<1>4. \A l \in 1..Len(s) - 1 : l \in 1..Len(s) /\ Methods(U, s)[l] = Resolved(U, s[l])
  BY <1>1 DEF Methods
<1>5. \A l \in 1..Len(s) : Resolved(V, s[l]) = Resolved(U, s[l])
  BY MethodsKept
<1> QED BY <1>1, <1>2, <1>3, <1>4, <1>5 DEF Alike

-----------------------------------------------------------------------------
(* The state, read that way.                                                   *)
Now == Methods(Roots(nodes), stack)
Ends(T) == EndsFor(toks, Now, Len(stack), ctl, pos, Roots(nodes)[ret], T)

Steady == Inv /\ KidsBefore

LEMMA ArenaIs ==
  ASSUME NEW ns, ArenaOK(ns), \A i \in 1..Len(ns) : \A j \in 1..Len(ns[i].kids) : ns[i].kids[j] < i
  PROVE  Arena(ns)
<1>1. ns \in Seq(NodeType) /\ Len(ns) \in Nat
  BY LenProperties DEF ArenaOK
<1>2. ASSUME NEW i \in 1..Len(ns)
      PROVE  /\ ns[i].at \in Nat /\ ns[i].kids \in Seq(Nat) /\ Len(ns[i].kids) \in Nat
             /\ \A j \in 1..Len(ns[i].kids) : ns[i].kids[j] \in 1..i - 1
  <2>1. ns[i] \in NodeType
    BY <1>1, ElementOfSeq
  <2>2. ns[i].at \in Nat /\ ns[i].kids \in Seq(Nat)
    BY <2>1 DEF NodeType
  <2>3. \A j \in 1..Len(ns[i].kids) : ns[i].kids[j] \in 1..Len(ns)
    BY DEF ArenaOK, Fits
  <2> QED BY <1>1, <2>2, <2>3, LenProperties
<1> QED BY <1>1, <1>2 DEF Arena

LEMMA SteadyArena ==
  /\ Steady => Arena(nodes)
  /\ Steady' => Arena(nodes')
BY ArenaIs DEF Steady, Inv, KidsBefore

LEMMA TreesExtended ==
  ASSUME Steady, Steady', NEW node \in NodeType, nodes' = Append(nodes, node)
  PROVE  /\ \A i \in 1..Len(nodes) : Roots(nodes')[i] = Roots(nodes)[i]
         /\ Roots(nodes')[Len(nodes) + 1] =
              Tree(node.kind, node.op, node.at, Kids(Roots(nodes), node.kids))
         /\ Kept(Roots(nodes), Roots(nodes'), stack)
<1>1. Arena(nodes) /\ Arena(nodes') /\ nodes \in Seq(NodeType)
  BY SteadyArena DEF Steady, Inv, ArenaOK
<1> DEFINE n == Len(nodes)
<1>2. n \in Nat /\ Len(nodes') = n + 1 /\ nodes'[n + 1] = node /\ \A i \in 1..n : nodes'[i] = nodes[i]
  BY <1>1, PushProperties, LenProperties
<1>3. \A i \in 1..n : \A j \in 1..Len(nodes[i].kids) : nodes[i].kids[j] # 0
  BY <1>1 DEF Arena
<1>4. SameRoots(nodes, nodes', n, 0)
  <2>1. n <= Len(nodes) /\ n <= Len(nodes')
    BY <1>2
  <2>2. SameNodes(nodes, nodes', n, 0)
    BY <1>2, <1>3 DEF SameNodes
  <2> HIDE DEF n
  <2> QED BY <1>1, <1>2, <2>1, <2>2, RootsSame
<1>5. \A i \in 1..n : Roots(nodes')[i] = Roots(nodes)[i]
  BY <1>2, <1>4 DEF SameRoots
<1>6. Roots(nodes')[n + 1] = Of(Roots(nodes'), node)
  <2>1. n + 1 \in 1..Len(nodes')
    BY <1>2
  <2> QED BY <1>1, <1>2, <2>1, RootAt
<1>7. \A j \in 1..Len(node.kids) : node.kids[j] \in 1..n
  <2>1. n + 1 \in 1..Len(nodes') /\ (n + 1) - 1 = n
    BY <1>2
  <2> QED BY <1>1, <1>2, <2>1 DEF Arena
<1>8. Kids(Roots(nodes'), node.kids) = Kids(Roots(nodes), node.kids)
  BY <1>5, <1>7 DEF Kids
<1>9. Kept(Roots(nodes), Roots(nodes'), stack)
  <2>1. \A k \in 1..Len(stack) : \A j \in 1..Len(stack[k].kids) : stack[k].kids[j] \in 1..n
    BY DEF Steady, Inv, StackOK, FrameFits
  <2> QED BY <1>5, <2>1 DEF Kept
<1> QED BY <1>5, <1>6, <1>8, <1>9 DEF Of

(* The array that takes over the list just returned takes it from nobody.      *)
LEMMA TreesTaken ==
  ASSUME Steady, Steady', Held, TakenOver, nodes[ret].kind = "CommaList"
  PROVE  /\ Roots(nodes')[ret] = ArrayOf(Top.at, Roots(nodes)[ret])
         /\ Kept(Roots(nodes), Roots(nodes'), stack)
<1>1. Arena(nodes) /\ Arena(nodes') /\ nodes \in Seq(NodeType)
  BY SteadyArena DEF Steady, Inv, ArenaOK
<1> DEFINE n == Len(nodes)
           node == [nodes[ret] EXCEPT !.kind = "ArrayLit", !.op = "LBrace", !.at = Top.at]
<1>2. ret \in 1..n /\ nodes' = [nodes EXCEPT ![ret] = node] /\ ctl = "Return" /\ n \in Nat
  BY <1>1, LenProperties DEF TakenOver, Awaiting
<1>3. nodes[ret] \in NodeType
  BY <1>1, <1>2, ElementOfSeq
<1>4. node.kind = "ArrayLit" /\ node.op = "LBrace" /\ node.at = Top.at /\ node.kids = nodes[ret].kids
  BY <1>3 DEF NodeType
<1> HIDE DEF node
<1>5. Len(nodes') = n /\ nodes'[ret] = node /\ \A i \in 1..n : i # ret => nodes'[i] = nodes[i]
  BY <1>1, <1>2
<1>6. Loose(ret) /\ ~HeldBy(stack, ret)
  BY <1>2 DEF Loose, Given, Held
<1>7. ~HeldBy(nodes, ret)
  BY <1>2, <1>6 DEF Held
<1>8. \A i \in 1..n : \A j \in 1..Len(nodes[i].kids) : nodes[i].kids[j] # ret /\ nodes[i].kids[j] \in 1..n
  <2>1. \A i \in 1..n : \A j \in 1..Len(nodes[i].kids) : nodes[i].kids[j] # ret
    BY <1>7 DEF HeldBy, In
  <2>2. \A i \in 1..n : \A j \in 1..Len(nodes[i].kids) : nodes[i].kids[j] \in 1..n
    BY DEF Steady, Inv, ArenaOK, Fits
  <2> QED BY <2>1, <2>2
<1>9. \A i \in 1..n : i # ret => Roots(nodes')[i] = Roots(nodes)[i]
  <2>1. n <= Len(nodes) /\ n <= Len(nodes')
    BY <1>2, <1>5
  <2>2. SameNodes(nodes, nodes', n, ret)
    BY <1>5, <1>8 DEF SameNodes
  <2>3. SameRoots(nodes, nodes', n, ret)
    <3> HIDE DEF n
    <3> QED BY <1>1, <1>2, <2>1, <2>2, RootsSame
  <2> QED BY <2>3 DEF SameRoots
<1>10. Roots(nodes')[ret] = Of(Roots(nodes'), node) /\ Roots(nodes)[ret] = Of(Roots(nodes), nodes[ret])
  <2>1. ret \in 1..Len(nodes) /\ ret \in 1..Len(nodes')
    BY <1>2, <1>5
  <2> QED BY <1>1, <1>5, <2>1, RootAt
<1>11. Kids(Roots(nodes'), node.kids) = Kids(Roots(nodes), nodes[ret].kids)
  BY <1>2, <1>4, <1>8, <1>9 DEF Kids
<1>12. Roots(nodes)[ret].kind = "CommaList" /\ Roots(nodes)[ret].kids = Kids(Roots(nodes), nodes[ret].kids)
  BY <1>10 DEF Of, Tree
<1>13. Roots(nodes')[ret] = ArrayOf(Top.at, Roots(nodes)[ret])
  BY <1>4, <1>10, <1>11, <1>12 DEF Of, ArrayOf
<1>14. Kept(Roots(nodes), Roots(nodes'), stack)
  <2>1. \A k \in 1..Len(stack) : \A j \in 1..Len(stack[k].kids) : stack[k].kids[j] \in 1..n
    BY DEF Steady, Inv, StackOK, FrameFits
  <2>2. \A k \in 1..Len(stack) : \A j \in 1..Len(stack[k].kids) : stack[k].kids[j] # ret
    BY <1>6 DEF HeldBy, In
  <2> QED BY <1>9, <2>1, <2>2 DEF Kept
<1> QED BY <1>13, <1>14

LEMMA NothingMoved ==
  ASSUME nodes' = nodes
  PROVE  Kept(Roots(nodes), Roots(nodes'), stack) /\ Roots(nodes') = Roots(nodes)
BY DEF Kept

-----------------------------------------------------------------------------
(* The kinds of step, and what each must show to leave the ends as they were.  *)
LEMMA StateFacts ==
  ASSUME Steady
  PROVE  /\ Reading(toks, TableOf(toks)) /\ Len(toks) \in Nat \ {0}
         /\ pos - 1 \in 0..Len(toks) - 1 /\ pos \in 1..Len(toks) /\ (pos - 1) + 1 = pos /\ (pos - 1) + 2 = pos + 1
         /\ Len(stack) \in Nat /\ Nested(Now, Len(stack)) /\ stack \in Seq(FrameType(Len(toks)))
         /\ stack # <<>> => /\ Len(stack) \in Nat \ {0} /\ Now[Len(stack)] = Resolved(Roots(nodes), Top)
                            /\ Now[Len(stack)].fn = Top.fn /\ Now[Len(stack)].at = Top.at
                            /\ Now[Len(stack)].kids = Kids(Roots(nodes), Top.kids)
<1>1. StreamFits(toks) /\ pos \in 1..Len(toks) /\ StackOK(Len(toks), nodes, stack)
  BY DEF Steady, Inv
<1>2. Reading(toks, TableOf(toks)) /\ Len(toks) \in Nat \ {0}
  BY <1>1, TableReads
<1>3. pos - 1 \in 0..Len(toks) - 1 /\ (pos - 1) + 1 = pos /\ (pos - 1) + 2 = pos + 1
  BY <1>1, <1>2
<1>4. /\ Len(stack) \in Nat /\ Nested(Now, Len(stack))
      /\ \A k \in 1..Len(stack) :
              /\ Now[k] = Resolved(Roots(nodes), stack[k])
              /\ Now[k].fn = stack[k].fn /\ Now[k].at = stack[k].at
              /\ Now[k].kids = Kids(Roots(nodes), stack[k].kids)
  BY <1>1, MethodsAre DEF Now
<1>5. stack \in Seq(FrameType(Len(toks)))
  BY <1>1 DEF StackOK
<1>6. stack # <<>> => Len(stack) \in Nat \ {0} /\ Len(stack) \in 1..Len(stack)
  BY <1>4, <1>5, EmptySeq
<1> QED BY <1>1, <1>2, <1>3, <1>4, <1>5, <1>6 DEF Top

LEMMA Before ==
  ASSUME NEW L \in Nat, NEW p \in 1..L
  PROVE  p - 1 \in 0..L - 1
OBVIOUS

(* Nested' too, wherever the next state is steady.                             *)
LEMMA NextFacts ==
  ASSUME Steady', toks' = toks
  PROVE  /\ Nested(Now', Len(stack')) /\ pos' \in 1..Len(toks) /\ pos' - 1 \in 0..Len(toks) - 1
<1>1. StreamFits(toks') /\ pos' \in 1..Len(toks') /\ StackOK(Len(toks'), nodes', stack')
  BY DEF Steady, Inv
<1>2. Nested(Methods(Roots(nodes'), stack'), Len(stack'))
  BY <1>1, MethodsAre
<1>3. Len(toks) \in Nat \ {0}
  BY <1>1, TableReads
<1>4. Now' = Methods(Roots(nodes'), stack')
  BY DEF Now
<1>5. pos' \in 1..Len(toks)
  BY <1>1
<1>6. pos' - 1 \in 0..Len(toks) - 1
  BY <1>3, <1>5, Before
<1> QED BY <1>2, <1>4, <1>5, <1>6

LEMMA Pushing ==
  ASSUME Steady, Steady', toks' = toks, nodes' = nodes, NEW fn, NEW at, Push(fn, <<>>, at),
         NEW nt, NEW i, NEW T,
         ctl' \in Starters,
         BeginsWith(toks, TableOf(toks), nt, i, ctl', pos', Frame(fn, <<>>, at))
  PROVE  Started(toks, TableOf(toks), Now, Len(stack), nt, i, T) <=> Ends(T)'
<1> DEFINE D == TableOf(toks)
           k == Len(stack)
           gs == Now'
<1>1. Reading(toks, D) /\ k \in Nat /\ stack \in Seq(FrameType(Len(toks)))
  BY StateFacts
<1>2. Kept(Roots(nodes), Roots(nodes'), stack)
  BY NothingMoved
<1>3. stack' = Append(stack, Frame(fn, <<>>, at))
  BY DEF Push
<1>4. /\ Len(stack') = k + 1
      /\ Alike(Now, gs, k)
      /\ gs[k + 1] = Frame(fn, <<>>, at)
  <2>1. gs = Methods(Roots(nodes'), stack') /\ Now = Methods(Roots(nodes), stack)
    BY DEF Now
  <2>2. /\ Len(stack') = Len(stack) + 1
        /\ Alike(Methods(Roots(nodes), stack), Methods(Roots(nodes'), stack'), Len(stack))
        /\ Methods(Roots(nodes'), stack')[Len(stack) + 1] = Frame(fn, <<>>, at)
    BY <1>1, <1>2, <1>3, MethodPushed
  <2> QED BY <2>1, <2>2
<1>5. Nested(gs, k + 1)
  BY <1>4, NextFacts
<1>6. Ends(T)' <=> Started(toks, D, gs, k + 1, ctl', pos', T)
  <2>1. Ends(T)' <=> EndsFor(toks', gs, Len(stack'), ctl', pos', Roots(nodes')[ret'], T)
    BY DEF Ends
  <2> QED BY <1>4, <2>1, EndsForIs
<1> HIDE DEF D, gs
<1>7. BeginsWith(toks, D, nt, i, ctl', pos', gs[k + 1])
  BY <1>4 DEF D
<1>8. Started(toks, D, Now, k, nt, i, T) <=> Started(toks, D, gs, k + 1, ctl', pos', T)
  BY <1>1, <1>4, <1>5, <1>7, Enters
<1> QED BY <1>6, <1>8 DEF D

LEMMA Resuming ==
  ASSUME Steady, Steady', toks' = toks, nodes' = nodes, NEW f, stack # <<>>, ctl = "Return",
         stack' = Retopped(stack, f), ctl' \in Starters, NEW T,
         ContinuesWith(toks, TableOf(toks), Now[Len(stack)], Roots(nodes)[ret], pos - 1,
                       Left(Now, Len(stack) - 1), ctl', pos', Resolved(Roots(nodes), f))
  PROVE  Ends(T) <=> Ends(T)'
<1> DEFINE D == TableOf(toks)
           k == Len(stack)
           gs == Now'
           x == Roots(nodes)[ret]
<1>1. /\ Reading(toks, D) /\ k \in Nat \ {0} /\ stack \in Seq(FrameType(Len(toks)))
      /\ Nested(Now, k) /\ pos - 1 \in 0..Len(toks) - 1
  BY StateFacts
<1>2. Kept(Roots(nodes), Roots(nodes'), stack) /\ Roots(nodes') = Roots(nodes)
  BY NothingMoved
<1>3. /\ Len(stack') = k
      /\ Alike(Now, gs, k - 1)
      /\ gs[k] = Resolved(Roots(nodes), f)
  <2>1. gs = Methods(Roots(nodes'), stack') /\ Now = Methods(Roots(nodes), stack)
    BY DEF Now
  <2>2. stack # <<>> /\ stack' = Retopped(stack, f)
    OBVIOUS
  <2>3. /\ Len(stack') = Len(stack)
        /\ Alike(Methods(Roots(nodes), stack), Methods(Roots(nodes'), stack'), Len(stack) - 1)
        /\ Methods(Roots(nodes'), stack')[Len(stack)] = Resolved(Roots(nodes'), f)
    BY <1>1, <1>2, <2>2, MethodReplaced
  <2> QED BY <1>2, <2>1, <2>3
<1>4. Nested(gs, k)
  BY <1>3, NextFacts
<1>5. Ends(T)' <=> Started(toks, D, gs, k, ctl', pos', T)
  <2>1. Ends(T)' <=> EndsFor(toks', gs, Len(stack'), ctl', pos', Roots(nodes')[ret'], T)
    BY DEF Ends
  <2> QED BY <1>3, <2>1, EndsForIs
<1>6. Ends(T) <=> Outer(toks, D, Now, k, x, pos - 1, T)
  <2>1. Ends(T) <=> EndsFor(toks, Now, k, ctl, pos, x, T)
    BY DEF Ends
  <2> QED BY <2>1, EndsForIs
<1> HIDE DEF D, gs, x
<1>7. ContinuesWith(toks, D, Now[k], x, pos - 1, Left(Now, k - 1), ctl', pos', gs[k])
  BY <1>3 DEF D, x
<1>8. Outer(toks, D, Now, k, x, pos - 1, T) <=> Started(toks, D, gs, k, ctl', pos', T)
  BY <1>1, <1>3, <1>4, <1>7, Resumes
<1> QED BY <1>5, <1>6, <1>8

LEMMA Returning ==
  ASSUME Steady, Steady', toks' = toks, Kept(Roots(nodes), Roots(nodes'), stack), stack # <<>>,
         ctl = "Return", Pop, ctl' = "Return", NEW T,
         ReturnsOnly(toks, TableOf(toks), Now[Len(stack)], Roots(nodes)[ret], pos - 1,
                     Roots(nodes')[ret'], pos' - 1)
  PROVE  Ends(T) <=> Ends(T)'
<1> DEFINE D == TableOf(toks)
           k == Len(stack)
           gs == Now'
           x == Roots(nodes)[ret]
           z == Roots(nodes')[ret']
<1>1. /\ Reading(toks, D) /\ k \in Nat \ {0} /\ stack \in Seq(FrameType(Len(toks)))
      /\ Nested(Now, k) /\ pos - 1 \in 0..Len(toks) - 1
  BY StateFacts
<1>2. pos' - 1 \in 0..Len(toks) - 1
  BY NextFacts
<1>3. /\ Len(stack') = k - 1
      /\ Alike(Now, gs, k - 1)
  BY <1>1, MethodPopped DEF Now, Pop
<1>5. Ends(T)' <=> Outer(toks, D, gs, k - 1, z, pos' - 1, T)
  <2>1. Ends(T)' <=> EndsFor(toks', gs, Len(stack'), ctl', pos', z, T)
    BY DEF Ends
  <2> QED BY <1>3, <2>1, EndsForIs
<1>6. Ends(T) <=> Outer(toks, D, Now, k, x, pos - 1, T)
  <2>1. Ends(T) <=> EndsFor(toks, Now, k, ctl, pos, x, T)
    BY DEF Ends
  <2> QED BY <2>1, EndsForIs
<1> HIDE DEF D, gs, x, z
<1>7. ReturnsOnly(toks, D, Now[k], x, pos - 1, z, pos' - 1)
  BY DEF D, x, z
<1>8. Outer(toks, D, Now, k, x, pos - 1, T) <=> Outer(toks, D, gs, k - 1, z, pos' - 1, T)
  BY <1>1, <1>2, <1>3, <1>7, Returns
<1> QED BY <1>5, <1>6, <1>8

(* An error is returned where nothing can be derived.                          *)
LEMMA Refusing ==
  ASSUME Steady, stack # <<>>, ctl = "Return", ctl' = "Failed", NEW T,
         ReturnsNone(toks, TableOf(toks), Now[Len(stack)], Roots(nodes)[ret], pos - 1,
                     Left(Now, Len(stack) - 1))
  PROVE  Ends(T) <=> Ends(T)'
<1> DEFINE D == TableOf(toks)
           k == Len(stack)
           x == Roots(nodes)[ret]
<1>1. /\ Reading(toks, D) /\ k \in Nat \ {0}
      /\ Nested(Now, k) /\ pos - 1 \in 0..Len(toks) - 1
  BY StateFacts
<1>5. ~Ends(T)'
  <2>1. Ends(T)' <=> EndsFor(toks', Now', Len(stack'), ctl', pos', Roots(nodes')[ret'], T)
    BY DEF Ends
  <2> QED BY <2>1, EndsForIs
<1>6. Ends(T) <=> Outer(toks, D, Now, k, x, pos - 1, T)
  <2>1. Ends(T) <=> EndsFor(toks, Now, k, ctl, pos, x, T)
    BY DEF Ends
  <2> QED BY <2>1, EndsForIs
<1> HIDE DEF D, x
<1>7. ReturnsNone(toks, D, Now[k], x, pos - 1, Left(Now, k - 1))
  BY DEF D, x
<1>8. ~Outer(toks, D, Now, k, x, pos - 1, T)
  BY <1>1, <1>7, Refuses
<1> QED BY <1>5, <1>6, <1>8

-----------------------------------------------------------------------------
(* What the ends are, before a step and after it.                              *)
LEMMA EndsAre ==
  ASSUME NEW T
  PROVE  /\ ctl \in Starters =>
              (Ends(T) <=> Started(toks, TableOf(toks), Now, Len(stack), ctl, pos, T))
         /\ ctl = "Path" => (Ends(T) <=> Going(toks, TableOf(toks), Now, Len(stack), pos - 1, T))
         /\ ctl = "Return" =>
              (Ends(T) <=> Outer(toks, TableOf(toks), Now, Len(stack), Roots(nodes)[ret], pos - 1, T))
         /\ ctl = "Accepted" => (Ends(T) <=> T = Roots(nodes)[ret])
         /\ ctl = "Failed" => ~Ends(T)
<1>1. Ends(T) <=> EndsFor(toks, Now, Len(stack), ctl, pos, Roots(nodes)[ret], T)
  BY DEF Ends
<1> QED BY <1>1, EndsForIs

LEMMA EndsWill ==
  ASSUME toks' = toks, NEW T
  PROVE  /\ ctl' \in Starters =>
              (Ends(T)' <=> Started(toks, TableOf(toks), Now', Len(stack'), ctl', pos', T))
         /\ ctl' = "Path" => (Ends(T)' <=> Going(toks, TableOf(toks), Now', Len(stack'), pos' - 1, T))
         /\ ctl' = "Return" =>
              (Ends(T)' <=> Outer(toks, TableOf(toks), Now', Len(stack'), Roots(nodes')[ret'], pos' - 1, T))
         /\ ctl' = "Accepted" => (Ends(T)' <=> T = Roots(nodes')[ret'])
         /\ ctl' = "Failed" => ~Ends(T)'
<1>1. Ends(T)' <=> EndsFor(toks', Now', Len(stack'), ctl', pos', Roots(nodes')[ret'], T)
  BY DEF Ends
<1> QED BY <1>1, EndsForIs

(* Look-ahead that finds anything but EOF has not come to the end.             *)
LEMMA Reaches ==
  ASSUME Inv, NEW k \in Nat, toks[After(k)] # "EOF"
  PROVE  After(k) = pos + k /\ pos + k \in 1..Len(toks) /\ pos + k + 1 \in 1..Len(toks)
         /\ After(k + 1) = pos + k + 1
<1>1. pos \in 1..Len(toks) /\ Len(toks) \in Nat /\ \A i \in 1..Len(toks) : toks[i] = "EOF" <=> i = Len(toks)
  BY LenProperties DEF Inv, StreamFits
<1>2. After(k) # Len(toks)
  BY <1>1
<1>3. After(k) = pos + k /\ pos + k < Len(toks)
  BY <1>1, <1>2 DEF After
<1> QED BY <1>1, <1>3 DEF After

LEMMA AtPeek == Inv => After(0) = pos /\ Peek = toks[pos] /\ Peek = toks[After(0)]
BY DEF Inv, After, Peek

LEMMA PeekPast ==
  ASSUME Inv, Peek # "EOF"
  PROVE  After(1) = pos + 1 /\ pos + 1 \in 1..Len(toks)
<1>1. toks[After(0)] # "EOF" /\ pos \in Nat /\ pos + 0 + 1 = pos + 1 /\ 0 + 1 = 1 /\ 0 \in Nat
  BY AtPeek DEF Inv
<1> QED BY <1>1, Reaches

LEMMA PeekTwo ==
  ASSUME Inv, Peek # "EOF", toks[After(1)] # "EOF"
  PROVE  /\ After(1) = pos + 1 /\ After(2) = pos + 2 /\ pos + 1 \in 1..Len(toks) /\ pos + 2 \in 1..Len(toks)
<1>1. 1 \in Nat /\ 1 + 1 = 2 /\ pos \in Nat /\ pos + 1 + 1 = pos + 2
  BY DEF Inv
<1>2. After(1 + 1) = pos + 1 + 1 /\ pos + 1 + 1 \in 1..Len(toks)
  BY <1>1, Reaches
<1> QED BY <1>1, <1>2, PeekPast

LEMMA AheadIs ==
  /\ \A a, b : Ahead(<<a, b>>) <=> toks[After(0)] = a /\ toks[After(1)] = b
  /\ \A a, b, c, d : Ahead(<<a, b, c, d>>) <=>
       toks[After(0)] = a /\ toks[After(1)] = b /\ toks[After(2)] = c /\ toks[After(3)] = d
<1>1. ASSUME NEW a, NEW b PROVE Ahead(<<a, b>>) <=> toks[After(0)] = a /\ toks[After(1)] = b
  <2> DEFINE s == <<a, b>>
  <2>1. Len(s) = 2 /\ s[1] = a /\ s[2] = b
    OBVIOUS
  <2> HIDE DEF s
  <2>2. 1..2 = {1, 2} /\ 1 - 1 = 0 /\ 2 - 1 = 1
    OBVIOUS
  <2>3. Ahead(s) <=> \A k \in {1, 2} : toks[After(k - 1)] = s[k]
    BY <2>1, <2>2 DEF Ahead
  <2>4. Ahead(s) <=> toks[After(1 - 1)] = s[1] /\ toks[After(2 - 1)] = s[2]
    BY <2>3
  <2> QED BY <2>1, <2>2, <2>4 DEF s
<1>2. ASSUME NEW a, NEW b, NEW c, NEW d
      PROVE  Ahead(<<a, b, c, d>>) <=>
       toks[After(0)] = a /\ toks[After(1)] = b /\ toks[After(2)] = c /\ toks[After(3)] = d
  <2> DEFINE s == <<a, b, c, d>>
  <2>1. Len(s) = 4 /\ s[1] = a /\ s[2] = b /\ s[3] = c /\ s[4] = d
    OBVIOUS
  <2> HIDE DEF s
  <2>2. 1..4 = {1, 2, 3, 4} /\ 1 - 1 = 0 /\ 2 - 1 = 1 /\ 3 - 1 = 2 /\ 4 - 1 = 3
    OBVIOUS
  <2>3. Ahead(s) <=> \A k \in {1, 2, 3, 4} : toks[After(k - 1)] = s[k]
    BY <2>1, <2>2 DEF Ahead
  <2>4. Ahead(s) <=> /\ toks[After(1 - 1)] = s[1] /\ toks[After(2 - 1)] = s[2]
                     /\ toks[After(3 - 1)] = s[3] /\ toks[After(4 - 1)] = s[4]
    BY <2>3
  <2> QED BY <2>1, <2>2, <2>4 DEF s
<1> QED BY <1>1, <1>2

-----------------------------------------------------------------------------
(* Methods that start another one.                                             *)
LEMMA DelegateBegins ==
  ASSUME NEW t, NEW D, Reading(t, D), NEW nt \in Delegates, NEW i \in 1..Len(t)
  PROVE  BeginsWith(t, D, nt, i, Callee(nt), i, Frame(nt, <<>>, i)) /\ Callee(nt) \in Starters
<1>1. CASE nt = "Expr"
  <2>1. Callee(nt) = "Or"
    BY <1>1 DEF Callee
  <2> QED BY <1>1, <2>1, ExprDescends DEF BeginsWith, Starters, Delegates
<1>2. CASE nt \in {"Branch", "Or", "And"}
  <2>1. Callee(nt) \in {"Expr", "And", "Not"}
    BY <1>2 DEF Callee
  <2> QED BY <1>2, <2>1, ChainDescends DEF BeginsWith, Starters, Delegates
<1>3. CASE nt = "Comparison"
  <2>1. Callee(nt) = "Additive"
    BY <1>3 DEF Callee
  <2> QED BY <1>3, <2>1, ComparisonDescends DEF BeginsWith, Starters, Delegates
<1>4. CASE nt = "Additive"
  <2>1. Callee(nt) = "Atom"
    BY <1>4 DEF Callee
  <2> QED BY <1>4, <2>1, AdditiveDescends DEF BeginsWith, Starters, Delegates
<1> QED BY <1>1, <1>2, <1>3, <1>4 DEF Delegates

LEMMA DescendEnds ==
  ASSUME Steady, Steady', toks' = toks, Descend, NEW T
  PROVE  Ends(T) <=> Ends(T)'
<1>1. /\ ctl \in Delegates /\ Push(ctl, <<>>, pos) /\ ctl' = Callee(ctl) /\ pos' = pos /\ nodes' = nodes
      /\ ctl \in Starters
  BY DEF Descend, Start, Starters
<1>2. Reading(toks, TableOf(toks)) /\ pos \in 1..Len(toks)
  BY StateFacts
<1>3. BeginsWith(toks, TableOf(toks), ctl, pos, ctl', pos', Frame(ctl, <<>>, pos)) /\ ctl' \in Starters
  BY <1>1, <1>2, DelegateBegins
<1> QED BY <1>1, <1>3, EndsAre, Pushing

LEMMA NegationEnds ==
  ASSUME Steady, Steady', toks' = toks, Negation, NEW T
  PROVE  Ends(T) <=> Ends(T)'
<1>0. Reading(toks, TableOf(toks)) /\ pos \in 1..Len(toks) /\ Inv /\ Peek = toks[pos]
  BY StateFacts DEF Steady, Peek
<1>1. CASE Peek = "Not"
  <2>1. /\ ctl = "Not" /\ Push("Not", <<>>, pos) /\ ctl' = "Not" /\ pos' = After(1) /\ nodes' = nodes
        /\ ctl \in Starters
    BY <1>1 DEF Negation, Start, Consume, Starters
  <2>2. pos' = pos + 1
    BY <1>0, <1>1, <2>1, PeekPast
  <2>3. BeginsWith(toks, TableOf(toks), ctl, pos, ctl', pos', Frame("Not", <<>>, pos))
    BY <1>0, <1>1, <2>1, <2>2, NotDescends DEF BeginsWith
  <2> QED BY <2>1, <2>3, EndsAre, Pushing
<1>2. CASE Peek # "Not"
  <2>1. ctl = "Not" /\ ctl' = "Comparison" /\ UNCHANGED <<pos, stack, nodes>> /\ {ctl, ctl'} \subseteq Starters
    BY <1>2 DEF Negation, Start, Starters, Delegates
  <2>2. Now' = Now
    BY <2>1 DEF Now
  <2>3. \A m \in 0..Len(toks) - 1 : TableOf(toks)[<<"Not", pos, m>>] = TableOf(toks)[<<"Comparison", pos, m>>]
    BY <1>0, <1>2, NoNotDescends
  <2>4. Started(toks, TableOf(toks), Now, Len(stack), "Not", pos, T) <=>
        Started(toks, TableOf(toks), Now, Len(stack), "Comparison", pos, T)
    BY <2>3 DEF Started
  <2> QED BY <2>1, <2>2, <2>4, EndsAre, EndsWill
<1> QED BY <1>1, <1>2

LEMMA OpeningEnds ==
  ASSUME Steady, Steady', toks' = toks, Parenthesis \/ OpenArray \/ OpenClassCall \/ OpenMemberOf, NEW T
  PROVE  Ends(T) <=> Ends(T)'
<1> DEFINE D == TableOf(toks)
<1>0. Reading(toks, D) /\ pos \in 1..Len(toks) /\ Inv /\ Peek = toks[pos] /\ Peek = toks[After(0)]
  BY StateFacts, AtPeek DEF Steady
<1>1. ctl = "Atom" /\ nodes' = nodes /\ {"Atom", "Expr", "Branch"} \subseteq Starters
  BY DEF Parenthesis, OpenArray, OpenClassCall, OpenMemberOf, Start, Starters, Delegates
<1> HIDE DEF D
<1>2. CASE Parenthesis
  <2>1. Push("Paren", <<>>, pos) /\ ctl' = "Expr" /\ pos' = After(1) /\ Peek = "LParen"
    BY <1>2 DEF Parenthesis, Start, Consume
  <2>2. pos' = pos + 1
    BY <1>0, <2>1, PeekPast
  <2>3. BeginsWith(toks, D, "Atom", pos, ctl', pos', Frame("Paren", <<>>, pos))
    BY <1>0, <2>1, <2>2, ParenDescends DEF BeginsWith
  <2> QED BY <1>1, <2>1, <2>3, EndsAre, Pushing DEF D
<1>3. CASE OpenArray
  <2>1. Push("Array", <<>>, pos) /\ ctl' = "Branch" /\ pos' = After(1) /\ Peek = "LBrace"
    BY <1>3 DEF OpenArray, Start, Consume
  <2>2. pos' = pos + 1
    BY <1>0, <2>1, PeekPast
  <2>3. BeginsWith(toks, D, "Atom", pos, ctl', pos', Frame("Array", <<>>, pos))
    BY <1>0, <2>1, <2>2, ArrayDescends DEF BeginsWith
  <2> QED BY <1>1, <2>1, <2>3, EndsAre, Pushing DEF D
<1>4. CASE OpenMemberOf
  <2>1. /\ Push("MemberOf", <<>>, pos) /\ ctl' = "Branch" /\ pos' = After(2)
        /\ Peek \in MemberOfTokens /\ toks[After(1)] = "LParen"
    BY <1>4 DEF OpenMemberOf, Start, Consume
  <2>2. Peek # "EOF"
    BY <2>1, TokenKinds
  <2>3. pos' = pos + 2 /\ toks[pos + 1] = "LParen"
    BY <1>0, <2>1, <2>2, PeekTwo
  <2>4. BeginsWith(toks, D, "Atom", pos, ctl', pos', Frame("MemberOf", <<>>, pos))
    BY <1>0, <2>1, <2>3, MemberOfDescends DEF BeginsWith
  <2> QED BY <1>1, <2>1, <2>4, EndsAre, Pushing DEF D
<1>5. CASE OpenClassCall
  <2>1. /\ Push("ClassCall", <<>>, pos) /\ ctl' = "Branch" /\ pos' = After(4)
        /\ Ahead(<<"Class", "Dot", "Name", "LParen">>)
    BY <1>5 DEF OpenClassCall, Start, Consume
  <2>2. toks[After(0)] = "Class" /\ toks[After(1)] = "Dot" /\ toks[After(2)] = "Name" /\ toks[After(3)] = "LParen"
    BY <2>1, AheadIs
  <2>3. After(1) = pos + 1
    BY <1>0, <2>2, PeekPast
  <2>4. After(2) = pos + 2
    BY <1>0, <2>2, PeekTwo
  <2>5. After(3) = pos + 3 /\ pos + 3 \in 1..Len(toks) /\ After(3 + 1) = pos + 3 + 1
    BY <1>0, <2>2, Reaches
  <2>6. pos' = pos + 4
    BY <1>0, <2>1, <2>5
  <2>7. BeginsWith(toks, D, "Atom", pos, ctl', pos', Frame("ClassCall", <<>>, pos))
    BY <1>0, <2>1, <2>2, <2>3, <2>4, <2>5, <2>6, ClassCallDescends DEF BeginsWith
  <2> QED BY <1>1, <2>1, <2>7, EndsAre, Pushing DEF D
<1> QED BY <1>2, <1>3, <1>4, <1>5

-----------------------------------------------------------------------------
(* Literals and paths.  A step that leaves the waiting methods alone, pushes   *)
(* one, replaces the last or pops it shows them unchanged but for that.        *)
LEMMA NowAfter ==
  ASSUME Steady, Kept(Roots(nodes), Roots(nodes'), stack)
  PROVE  /\ stack' = stack => Alike(Now, Now', Len(stack))
         /\ \A fn, at : Push(fn, <<>>, at) =>
              /\ Alike(Now, Now', Len(stack)) /\ Len(stack') = Len(stack) + 1
              /\ Now'[Len(stack) + 1] = Frame(fn, <<>>, at)
         /\ \A f : stack # <<>> /\ stack' = Retopped(stack, f) =>
              /\ Alike(Now, Now', Len(stack) - 1) /\ Len(stack') = Len(stack)
              /\ Now'[Len(stack)] = Resolved(Roots(nodes'), f)
         /\ stack # <<>> /\ Pop => Alike(Now, Now', Len(stack) - 1) /\ Len(stack') = Len(stack) - 1
<1>1. /\ Now = Methods(Roots(nodes), stack) /\ Now' = Methods(Roots(nodes'), stack')
      /\ stack \in Seq(FrameType(Len(toks)))
  BY StateFacts DEF Now
<1>2. ASSUME stack' = stack PROVE Alike(Now, Now', Len(stack))
  <2>1. ASSUME NEW k \in 1..Len(stack) PROVE Now[k] = Now'[k]
    <3>1. Resolved(Roots(nodes'), stack[k]) = Resolved(Roots(nodes), stack[k])
      BY MethodsKept
    <3>2. Now[k] = Resolved(Roots(nodes), stack[k]) /\ Now'[k] = Resolved(Roots(nodes'), stack[k])
      BY <1>1, <1>2 DEF Methods
    <3> QED BY <3>1, <3>2
  <2> QED BY <2>1 DEF Alike
<1>3. ASSUME NEW fn, NEW at, Push(fn, <<>>, at)
      PROVE  /\ Alike(Now, Now', Len(stack)) /\ Len(stack') = Len(stack) + 1
             /\ Now'[Len(stack) + 1] = Frame(fn, <<>>, at)
  <2>1. stack' = Append(stack, Frame(fn, <<>>, at))
    BY <1>3 DEF Push
  <2>2. /\ Len(Append(stack, Frame(fn, <<>>, at))) = Len(stack) + 1
        /\ Alike(Methods(Roots(nodes), stack),
                 Methods(Roots(nodes'), Append(stack, Frame(fn, <<>>, at))), Len(stack))
        /\ Methods(Roots(nodes'), Append(stack, Frame(fn, <<>>, at)))[Len(stack) + 1] = Frame(fn, <<>>, at)
    BY <1>1, MethodPushed
  <2> QED BY <1>1, <2>1, <2>2
<1>4. ASSUME NEW f, stack # <<>>, stack' = Retopped(stack, f)
      PROVE  /\ Alike(Now, Now', Len(stack) - 1) /\ Len(stack') = Len(stack)
             /\ Now'[Len(stack)] = Resolved(Roots(nodes'), f)
  <2>1. /\ Len(Retopped(stack, f)) = Len(stack)
        /\ Alike(Methods(Roots(nodes), stack), Methods(Roots(nodes'), Retopped(stack, f)), Len(stack) - 1)
        /\ Methods(Roots(nodes'), Retopped(stack, f))[Len(stack)] = Resolved(Roots(nodes'), f)
    BY <1>1, <1>4, MethodReplaced
  <2> QED BY <1>1, <1>4, <2>1
<1>5. ASSUME stack # <<>>, Pop PROVE Alike(Now, Now', Len(stack) - 1) /\ Len(stack') = Len(stack) - 1
  <2>1. /\ Len(Front(stack)) = Len(stack) - 1
        /\ Alike(Methods(Roots(nodes), stack), Methods(Roots(nodes'), Front(stack)), Len(stack) - 1)
    BY <1>1, <1>5, MethodPopped
  <2> QED BY <1>1, <1>5, <2>1 DEF Pop
<1> QED BY <1>2, <1>3, <1>4, <1>5

LEMMA KidsKept ==
  ASSUME Steady, stack # <<>>, Kept(Roots(nodes), Roots(nodes'), stack)
  PROVE  Kids(Roots(nodes'), Top.kids) = Kids(Roots(nodes), Top.kids)
<1>1. Len(stack) \in 1..Len(stack)
  BY StateFacts
<1>2. Resolved(Roots(nodes'), Top) = Resolved(Roots(nodes), Top)
  BY <1>1, MethodsKept DEF Top
<1> QED BY <1>2, FrameIs DEF Resolved

LEMMA LiteralEnds ==
  ASSUME Steady, Steady', toks' = toks, Literal, NEW T
  PROVE  Ends(T) <=> Ends(T)'
<1> DEFINE D == TableOf(toks)
           node == [kind |-> "Literal", op |-> Peek, kids |-> <<>>, at |-> pos]
<1>0. /\ Reading(toks, D) /\ pos \in 1..Len(toks) /\ Inv /\ Peek = toks[pos] /\ Len(stack) \in Nat
      /\ pos - 1 \in 0..Len(toks) - 1 /\ Len(toks) \in Nat
  BY StateFacts DEF Steady, Peek
<1>1. /\ ctl = "Atom" /\ ctl' = "Return" /\ stack' = stack /\ Peek \in LiteralTokens /\ pos' = After(1)
      /\ nodes' = Append(nodes, node) /\ ret' = Len(nodes) + 1 /\ ctl \in Starters
  BY DEF Literal, Build, Consume, Starters
<1>2. node \in NodeType /\ node.kids = <<>> /\ node.op = Peek /\ node.at = pos /\ node.kind = "Literal"
  <2>1. Peek \in TokenTypes /\ pos \in Nat /\ <<>> \in Seq(Nat) /\ "Literal" \in NodeKinds
    BY <1>0, BuiltKinds, Tokens
  <2> QED BY <2>1 DEF NodeType
<1> HIDE DEF node, D
<1>3. /\ Roots(nodes')[Len(nodes) + 1] = Tree("Literal", Peek, pos, Kids(Roots(nodes), <<>>))
      /\ Kept(Roots(nodes), Roots(nodes'), stack)
  BY <1>1, <1>2, TreesExtended
<1>4. <<>> \in Seq(Nat)
  OBVIOUS
<1>5. Kids(Roots(nodes), <<>>) = <<>>
  BY <1>4, KidsAre
<1>6. Peek # "EOF"
  BY <1>1, TokenKinds
<1>7. pos' = pos + 1 /\ pos + 1 \in 1..Len(toks)
  BY <1>0, <1>1, <1>6, PeekPast
<1>8. pos' - 1 = pos /\ pos \in 0..Len(toks) - 1
  BY <1>0, <1>7
<1>9. IsOnly(toks, D, "Atom", pos, Roots(nodes')[ret'], pos)
  <2>1. Roots(nodes')[ret'] = Tree("Literal", toks[pos], pos, <<>>)
    BY <1>0, <1>1, <1>3, <1>5
  <2>2. IsOnly(toks, D, "Atom", pos, Tree("Literal", toks[pos], pos, <<>>), pos)
    BY <1>0, <1>1, LiteralFound DEF IsOnly
  <2> QED BY <2>1, <2>2
<1>10. Started(toks, D, Now, Len(stack), "Atom", pos, T) <=>
       Outer(toks, D, Now', Len(stack), Roots(nodes')[ret'], pos, T)
  BY <1>0, <1>1, <1>3, <1>8, <1>9, NowAfter, Answers
<1> QED BY <1>1, <1>8, <1>10, EndsAre, EndsWill DEF D

LEMMA StartPathEnds ==
  ASSUME Steady, Steady', toks' = toks, StartPath, NEW T
  PROVE  Ends(T) <=> Ends(T)'
<1> DEFINE D == TableOf(toks)
<1>0. /\ Reading(toks, D) /\ pos \in 1..Len(toks) /\ Inv /\ Peek = toks[pos] /\ Len(stack) \in Nat
      /\ Len(toks) \in Nat
  BY StateFacts DEF Steady, Peek
<1>1. /\ ctl = "Atom" /\ ctl' = "Path" /\ Push("Path", <<>>, pos) /\ Peek \in {"User", "Name"} /\ pos' = After(1)
      /\ nodes' = nodes /\ ctl \in Starters
  BY DEF StartPath, Start, Consume, Starters
<1> HIDE DEF D
<1>2. pos' = pos + 1
  BY <1>0, <1>1, PeekPast
<1>3. pos' - 1 = pos
  BY <1>0, <1>2
<1>4. /\ Alike(Now, Now', Len(stack)) /\ Len(stack') = Len(stack) + 1
      /\ Now'[Len(stack) + 1] = Frame("Path", <<>>, pos)
  BY <1>1, NothingMoved, NowAfter
<1>5. BeginsPath(toks, D, "Atom", pos, Frame("Path", <<>>, pos), pos)
  BY <1>0, <1>1, PathDescends, FrameIs DEF BeginsPath
<1>6. Started(toks, D, Now, Len(stack), "Atom", pos, T) <=> Going(toks, D, Now', Len(stack) + 1, pos, T)
  BY <1>0, <1>4, <1>5, PathStarts
<1> QED BY <1>1, <1>3, <1>4, <1>6, EndsAre, EndsWill DEF D

(* The path the loop is at.                                                    *)
LEMMA PathNow ==
  ASSUME Steady, ctl = "Path"
  PROVE  /\ stack # <<>> /\ Top.fn = "Path" /\ Top.kids \in Seq(Nat) /\ Top.at \in 1..Len(toks)
         /\ Now[Len(stack)] = Frame("Path", Kids(Roots(nodes), Top.kids), Top.at)
         /\ IsSeq(Kids(Roots(nodes), Top.kids))
<1>1. stack # <<>> /\ Top.fn = "Path"
  BY WaitsRange, StateFacts, TopFrame DEF Steady, Inv, ControlOK, Running, Delegates, Top
<1>2. Top.kids \in Seq(Nat) /\ Top.at \in 1..Len(toks)
  BY <1>1, TopFrame DEF Steady
<1>3. Now[Len(stack)] = Frame("Path", Kids(Roots(nodes), Top.kids), Top.at)
  BY <1>1, StateFacts DEF Resolved
<1> QED BY <1>1, <1>2, <1>3, KidsAre

LEMMA NameHopEnds ==
  ASSUME Steady, Steady', toks' = toks, NameHop, NEW T
  PROVE  Ends(T) <=> Ends(T)'
<1> DEFINE D == TableOf(toks)
           node == [kind |-> "NameHop", op |-> "Name", kids |-> <<>>, at |-> pos + 1]
           f == Frame("Path", Append(Top.kids, Len(nodes) + 1), Top.at)
           U == Roots(nodes)
           V == Roots(nodes')
<1>0. /\ Reading(toks, D) /\ pos \in 1..Len(toks) /\ Inv /\ Peek = toks[pos] /\ Len(stack) \in Nat
      /\ pos - 1 \in 0..Len(toks) - 1 /\ Len(toks) \in Nat /\ (pos - 1) + 1 = pos /\ (pos - 1) + 2 = pos + 1
      /\ Nested(Now, Len(stack)) /\ Peek = toks[After(0)] /\ Len(nodes) \in Nat
  BY StateFacts, AtPeek DEF Steady, Inv, ArenaOK, Peek
<1>1. /\ ctl = "Path" /\ ctl' = "Path" /\ stack' = Retopped(stack, f) /\ pos' = After(2)
      /\ nodes' = Append(nodes, node) /\ Ahead(<<"Dot", "Name">>)
  BY DEF NameHop, Replace, Consume, Retopped
<1>2. /\ stack # <<>> /\ Top.fn = "Path" /\ Top.kids \in Seq(Nat) /\ Top.at \in 1..Len(toks)
      /\ Now[Len(stack)] = Frame("Path", Kids(U, Top.kids), Top.at) /\ IsSeq(Kids(U, Top.kids))
      /\ Len(stack) \in Nat \ {0}
  BY <1>1, PathNow, StateFacts
<1>3. node \in NodeType /\ node.kids = <<>> /\ node.op = "Name" /\ node.at = pos + 1 /\ node.kind = "NameHop"
  <2>1. pos + 1 \in Nat /\ <<>> \in Seq(Nat)
    BY <1>0
  <2> QED BY <2>1, BuiltKinds DEF NodeType
<1> HIDE DEF node, D
<1>4. /\ V[Len(nodes) + 1] = Tree("NameHop", "Name", pos + 1, Kids(U, <<>>))
      /\ Kept(U, V, stack)
  BY <1>1, <1>3, TreesExtended
<1>5. V[Len(nodes) + 1] = Tree("NameHop", "Name", pos + 1, <<>>)
  <2>1. <<>> \in Seq(Nat)
    OBVIOUS
  <2> QED BY <1>4, <2>1, KidsAre
<1>6. toks[pos] = "Dot" /\ toks[pos + 1] = "Name" /\ pos' = pos + 2 /\ pos + 1 \in 1..Len(toks) /\ pos + 2 \in 1..Len(toks)
  <2>1. toks[After(0)] = "Dot" /\ toks[After(1)] = "Name"
    BY <1>1, AheadIs
  <2> QED BY <1>0, <1>1, <2>1, PeekTwo
<1>7. pos' - 1 = pos + 1 /\ pos + 1 \in 0..Len(toks) - 1
  BY <1>0, <1>6
<1>8. IsOnly(toks, D, "Hop", pos + 1, V[Len(nodes) + 1], pos + 1)
  <2>1. IsOnly(toks, D, "Hop", pos + 1, Tree("NameHop", "Name", pos + 1, <<>>), pos + 1)
    <3>1. pos + 1 \in 1..Len(toks) /\ toks[pos + 1] = "Name"
      BY <1>6
    <3>2. \A m \in 0..Len(toks) - 1 : \A y :
            y \in D[<<"Hop", pos + 1, m>>] <=> m = pos + 1 /\ y = Tree("NameHop", "Name", pos + 1, <<>>)
      BY <1>0, <3>1, NameHopFound
    <3> QED BY <3>2 DEF IsOnly
  <2> QED BY <1>5, <2>1
<1> HIDE DEF U, V, f
<1>9. Going(toks, D, Now, Len(stack), pos - 1, T) <=> Started(toks, D, Now, Len(stack), "Hop", pos + 1, T)
  BY <1>0, <1>2, <1>6, PathOn
<1>10. Started(toks, D, Now, Len(stack), "Hop", pos + 1, T) <=>
       Outer(toks, D, Now, Len(stack), V[Len(nodes) + 1], pos + 1, T)
  <2>1. Alike(Now, Now, Len(stack))
    BY DEF Alike
  <2> QED BY <1>0, <1>7, <1>8, <2>1, Answers
<1>11. /\ Alike(Now, Now', Len(stack) - 1) /\ Len(stack') = Len(stack)
       /\ Now'[Len(stack)] = Resolved(V, f)
  BY <1>1, <1>2, <1>4, NowAfter DEF U, V
<1>12. /\ Now'[Len(stack)].kids = Append(Now[Len(stack)].kids, V[Len(nodes) + 1])
       /\ Now'[Len(stack)].at = Now[Len(stack)].at
  <2>1. Len(nodes) + 1 \in Nat
    BY <1>0
  <2>2. Kids(V, Append(Top.kids, Len(nodes) + 1)) = Append(Kids(V, Top.kids), V[Len(nodes) + 1])
    BY <1>2, <2>1, KidsAre
  <2>3. Kids(V, Top.kids) = Kids(U, Top.kids)
    BY <1>2, <1>4, KidsKept DEF U, V
  <2>4. f.kids = Append(Top.kids, Len(nodes) + 1) /\ f.at = Top.at
    BY DEF f, Frame
  <2>5. /\ Now'[Len(stack)].kids = Kids(V, Append(Top.kids, Len(nodes) + 1)) /\ Now'[Len(stack)].at = Top.at
    BY <1>11, <2>4, FrameIs DEF Resolved
  <2>6. Now[Len(stack)].kids = Kids(U, Top.kids) /\ Now[Len(stack)].at = Top.at
    BY <1>2, FrameIs
  <2> QED BY <2>2, <2>3, <2>5, <2>6
<1>13. Outer(toks, D, Now, Len(stack), V[Len(nodes) + 1], pos + 1, T) <=>
       Going(toks, D, Now', Len(stack), pos + 1, T)
  <2>1. Now[Len(stack)].fn = "Path"
    BY <1>2, FrameIs
  <2> QED BY <1>0, <1>2, <1>7, <1>11, <1>12, <2>1, HopJoins
<1>14. Ends(T) <=> Going(toks, D, Now, Len(stack), pos - 1, T)
  BY <1>1, EndsAre DEF D
<1>15. Ends(T)' <=> Going(toks, D, Now', Len(stack), pos + 1, T)
  BY <1>1, <1>7, <1>11, EndsWill DEF D
<1> QED BY <1>9, <1>10, <1>13, <1>14, <1>15

LEMMA MemberOfHopEnds ==
  ASSUME Steady, Steady', toks' = toks, MemberOfHop, NEW T
  PROVE  Ends(T) <=> Ends(T)'
<1> DEFINE D == TableOf(toks)
<1>0. /\ Reading(toks, D) /\ pos \in 1..Len(toks) /\ Inv /\ Peek = toks[pos] /\ Len(stack) \in Nat
      /\ pos - 1 \in 0..Len(toks) - 1 /\ Len(toks) \in Nat /\ (pos - 1) + 1 = pos /\ (pos - 1) + 2 = pos + 1
      /\ Nested(Now, Len(stack))
  BY StateFacts DEF Steady, Peek
<1>1. /\ ctl = "Path" /\ ctl' = "Branch" /\ Push("MemberOf", <<>>, pos + 1) /\ pos' = After(3)
      /\ nodes' = nodes /\ Peek = "Dot" /\ toks[After(1)] \in MemberOfTokens /\ toks[After(2)] = "LParen"
      /\ ctl' \in Starters
  BY DEF MemberOfHop, Start, Consume, Starters, Delegates
<1>2. /\ stack # <<>> /\ Len(stack) \in Nat \ {0}
      /\ Now[Len(stack)] = Frame("Path", Kids(Roots(nodes), Top.kids), Top.at)
      /\ IsSeq(Kids(Roots(nodes), Top.kids))
  BY <1>1, PathNow, StateFacts
<1> HIDE DEF D
<1>3. /\ toks[pos] = "Dot" /\ toks[pos + 1] \in MemberOfTokens /\ pos + 1 \in 1..Len(toks)
      /\ toks[pos + 1 + 1] = "LParen" /\ pos' = pos + 1 + 2
  <2>1. toks[After(1)] # "EOF" /\ toks[After(2)] # "EOF" /\ Peek # "EOF"
    BY <1>1, TokenKinds
  <2>2. /\ After(1) = pos + 1 /\ After(2) = pos + 2 /\ pos + 1 \in 1..Len(toks) /\ pos + 2 \in 1..Len(toks)
    BY <1>0, <2>1, PeekTwo
  <2>3. After(2 + 1) = pos + 2 + 1
    BY <1>0, <2>1, Reaches
  <2>4. 2 + 1 = 3 /\ pos + 2 = pos + 1 + 1 /\ pos + 2 + 1 = pos + 1 + 2
    BY <1>0
  <2> QED BY <1>0, <1>1, <2>2, <2>3, <2>4
<1>4. Going(toks, D, Now, Len(stack), pos - 1, T) <=> Started(toks, D, Now, Len(stack), "Hop", pos + 1, T)
  BY <1>0, <1>2, <1>3, PathOn
<1>5. BeginsWith(toks, D, "Hop", pos + 1, ctl', pos', Frame("MemberOf", <<>>, pos + 1))
  BY <1>0, <1>1, <1>3, MemberOfDescends DEF BeginsWith
<1>6. Started(toks, D, Now, Len(stack), "Hop", pos + 1, T) <=> Ends(T)'
  BY <1>1, <1>5, Pushing DEF D
<1> QED BY <1>1, <1>4, <1>6, EndsAre DEF D

LEMMA EndPathEnds ==
  ASSUME Steady, Steady', toks' = toks, EndPath, NEW T
  PROVE  Ends(T) <=> Ends(T)'
<1> DEFINE D == TableOf(toks)
           node == [kind |-> "PathExpr", op |-> toks[Top.at], kids |-> Top.kids, at |-> Top.at]
           U == Roots(nodes)
           V == Roots(nodes')
<1>0. /\ Reading(toks, D) /\ pos \in 1..Len(toks) /\ Inv /\ Peek = toks[pos] /\ Len(stack) \in Nat
      /\ pos - 1 \in 0..Len(toks) - 1 /\ Len(toks) \in Nat /\ (pos - 1) + 1 = pos
  BY StateFacts DEF Steady, Inv, ArenaOK, Peek
<1>1. /\ ctl = "Path" /\ ctl' = "Return" /\ Pop /\ pos' = pos /\ ret' = Len(nodes) + 1
      /\ nodes' = Append(nodes, node) /\ Peek # "Dot"
  BY DEF EndPath, Build
<1>2. /\ stack # <<>> /\ Top.fn = "Path" /\ Top.kids \in Seq(Nat) /\ Top.at \in Nat /\ toks[Top.at] \in TokenTypes
      /\ Now[Len(stack)] = Frame("Path", Kids(U, Top.kids), Top.at)
      /\ Len(stack) \in Nat \ {0}
  BY <1>0, <1>1, PathNow, StateFacts, TopFrame
<1>3. node \in NodeType /\ node.kids = Top.kids /\ node.op = toks[Top.at] /\ node.at = Top.at /\ node.kind = "PathExpr"
  BY <1>2, BuiltKinds DEF NodeType
<1> HIDE DEF node, D
<1>4. V[ret'] = Tree("PathExpr", toks[Top.at], Top.at, Kids(U, Top.kids)) /\ Kept(U, V, stack)
  BY <1>1, <1>3, TreesExtended
<1>5. Alike(Now, Now', Len(stack) - 1) /\ Len(stack') = Len(stack) - 1
  BY <1>1, <1>2, <1>4, NowAfter DEF U, V
<1>6. /\ Now[Len(stack)].kids = Kids(U, Top.kids) /\ Now[Len(stack)].at = Top.at
  BY <1>2, FrameIs
<1> HIDE DEF U, V
<1>7. Going(toks, D, Now, Len(stack), pos - 1, T) <=>
        Outer(toks, D, Now', Len(stack) - 1, V[ret'], pos - 1, T)
  <2>1. toks[(pos - 1) + 1] # "Dot"
    BY <1>0, <1>1
  <2>2. Going(toks, D, Now, Len(stack), pos - 1, T) <=>
          Outer(toks, D, Now', Len(stack) - 1,
                Tree("PathExpr", toks[Now[Len(stack)].at], Now[Len(stack)].at, Now[Len(stack)].kids), pos - 1, T)
    BY <1>0, <1>2, <1>5, <2>1, PathEnds
  <2> QED BY <1>4, <1>6, <2>2
<1> QED BY <1>1, <1>5, <1>7, EndsAre, EndsWill DEF D, V

LEMMA HopDoneEnds ==
  ASSUME Steady, Steady', toks' = toks, HopDone, NEW T
  PROVE  Ends(T) <=> Ends(T)'
<1> DEFINE D == TableOf(toks)
           U == Roots(nodes)
           f == Frame("Path", Append(Top.kids, ret), Top.at)
<1>0. /\ Reading(toks, D) /\ Inv /\ pos - 1 \in 0..Len(toks) - 1 /\ Nested(Now, Len(stack))
  BY StateFacts DEF Steady
<1>1. /\ ctl = "Return" /\ ctl' = "Path" /\ stack' = Retopped(stack, f) /\ pos' = pos
      /\ nodes' = nodes /\ stack # <<>> /\ Top.fn = "Path"
  BY DEF HopDone, Start, Awaiting, Replace, Retopped
<1>2. /\ Len(stack) \in Nat \ {0} /\ Top.kids \in Seq(Nat) /\ ret \in Nat
      /\ Now[Len(stack)].fn = "Path" /\ Now[Len(stack)].at = Top.at /\ Now[Len(stack)].kids = Kids(U, Top.kids)
  BY <1>0, <1>1, StateFacts, TopFrame, Collect
<1> HIDE DEF D
<1>3. /\ Alike(Now, Now', Len(stack) - 1) /\ Len(stack') = Len(stack)
      /\ Now'[Len(stack)] = Resolved(U, f)
  <2>1. Kept(Roots(nodes), Roots(nodes'), stack) /\ Roots(nodes') = Roots(nodes)
    BY <1>1, NothingMoved
  <2> HIDE DEF f
  <2> QED BY <1>1, <2>1, NowAfter
<1> HIDE DEF U
<1>4. /\ Now'[Len(stack)].kids = Append(Now[Len(stack)].kids, U[ret])
      /\ Now'[Len(stack)].at = Now[Len(stack)].at
  <2>1. f.kids = Append(Top.kids, ret) /\ f.at = Top.at
    BY DEF Frame
  <2> HIDE DEF f
  <2>2. Now'[Len(stack)].kids = Kids(U, Append(Top.kids, ret)) /\ Now'[Len(stack)].at = Top.at
    BY <1>3, <2>1, FrameIs DEF Resolved
  <2>3. Kids(U, Append(Top.kids, ret)) = Append(Kids(U, Top.kids), U[ret])
    BY <1>2, KidsAre
  <2> QED BY <1>2, <2>2, <2>3
<1>5. Outer(toks, D, Now, Len(stack), U[ret], pos - 1, T) <=> Going(toks, D, Now', Len(stack), pos - 1, T)
  BY <1>0, <1>2, <1>3, <1>4, HopJoins
<1> QED BY <1>1, <1>3, <1>5, EndsAre, EndsWill DEF D, U

(* Where no atom and no hop starts.                                            *)
LEMMA BadAtomEnds ==
  ASSUME Steady, Steady', toks' = toks, BadAtom, NEW T
  PROVE  Ends(T) <=> Ends(T)'
<1> DEFINE D == TableOf(toks)
<1>0. /\ Reading(toks, D) /\ pos \in 1..Len(toks) /\ Inv /\ Peek = toks[pos] /\ Peek = toks[After(0)]
      /\ Len(toks) \in Nat
  BY StateFacts, AtPeek DEF Steady
<1>1. ctl = "Atom" /\ ctl' = "Failed" /\ ~StartsAtom /\ ctl \in Starters
  BY DEF BadAtom, Fail, Starters
<1>2. toks[pos] \notin LiteralTokens \cup {"LParen", "LBrace", "User", "Name"}
  BY <1>0, <1>1 DEF StartsAtom
<1>3. toks[pos] \in MemberOfTokens => toks[pos + 1] # "LParen"
  <2>1. ASSUME toks[pos] \in MemberOfTokens, toks[pos + 1] = "LParen" PROVE FALSE
    <3>1. Peek # "EOF"
      BY <1>0, <2>1, TokenKinds
    <3>2. After(1) = pos + 1
      BY <1>0, <3>1, PeekPast
    <3> QED BY <1>0, <1>1, <2>1, <3>2 DEF StartsAtom
  <2> QED BY <2>1
<1>4. toks[pos] = "Class" /\ pos + 3 \in 1..Len(toks) =>
        ~(toks[pos + 1] = "Dot" /\ toks[pos + 2] = "Name" /\ toks[pos + 3] = "LParen")
  <2>1. ASSUME pos + 3 \in 1..Len(toks)
        PROVE  After(0) = pos /\ After(1) = pos + 1 /\ After(2) = pos + 2 /\ After(3) = pos + 3
    BY <1>0, <2>1 DEF After
  <2> QED BY <1>1, <2>1, AheadIs DEF StartsAtom
<1> HIDE DEF D
<1>5. \A m \in 0..Len(toks) - 1 : D[<<"Atom", pos, m>>] = {}
  BY <1>0, <1>2, <1>3, <1>4, NothingStarts
<1>6. ~Started(toks, D, Now, Len(stack), "Atom", pos, T)
  BY <1>5 DEF Started
<1> QED BY <1>1, <1>6, EndsAre, EndsWill DEF D

LEMMA BadHopEnds ==
  ASSUME Steady, Steady', toks' = toks, BadHop, NEW T
  PROVE  Ends(T) <=> Ends(T)'
<1> DEFINE D == TableOf(toks)
<1>0. /\ Reading(toks, D) /\ pos \in 1..Len(toks) /\ Inv /\ Peek = toks[pos] /\ Peek = toks[After(0)]
      /\ pos - 1 \in 0..Len(toks) - 1 /\ (pos - 1) + 1 = pos /\ (pos - 1) + 2 = pos + 1
      /\ Nested(Now, Len(stack))
  BY StateFacts, AtPeek DEF Steady
<1>1. /\ ctl = "Path" /\ ctl' = "Failed" /\ Peek = "Dot" /\ ~Ahead(<<"Dot", "Name">>)
      /\ ~(toks[After(1)] \in MemberOfTokens /\ toks[After(2)] = "LParen")
  BY DEF BadHop, Fail
<1>2. /\ stack # <<>> /\ Len(stack) \in Nat \ {0}
      /\ Now[Len(stack)] = Frame("Path", Kids(Roots(nodes), Top.kids), Top.at)
      /\ IsSeq(Kids(Roots(nodes), Top.kids))
  BY <1>1, PathNow, StateFacts
<1>3. After(1) = pos + 1 /\ pos + 1 \in 1..Len(toks)
  BY <1>0, <1>1, PeekPast
<1>4. toks[pos + 1] # "Name"
  BY <1>0, <1>1, <1>3, AheadIs
<1>5. toks[pos + 1] \in MemberOfTokens => toks[pos + 1 + 1] # "LParen"
  <2>1. ASSUME toks[pos + 1] \in MemberOfTokens PROVE After(2) = pos + 1 + 1
    <3>1. toks[After(1)] # "EOF" /\ Peek # "EOF"
      BY <1>1, <1>3, <2>1, TokenKinds
    <3>2. After(2) = pos + 2 /\ pos + 2 = pos + 1 + 1
      BY <1>0, <3>1, PeekTwo
    <3> QED BY <3>2
  <2> QED BY <1>1, <1>3, <2>1
<1> HIDE DEF D
<1>6. \A m \in 0..Len(toks) - 1 : D[<<"Hop", pos + 1, m>>] = {}
  BY <1>0, <1>3, <1>4, <1>5, NoHopStarts
<1>7. ~Started(toks, D, Now, Len(stack), "Hop", pos + 1, T)
  BY <1>6 DEF Started
<1>8. Going(toks, D, Now, Len(stack), pos - 1, T) <=> Started(toks, D, Now, Len(stack), "Hop", pos + 1, T)
  BY <1>0, <1>1, <1>2, PathOn
<1> QED BY <1>1, <1>7, <1>8, EndsAre, EndsWill DEF D

-----------------------------------------------------------------------------
(* A method that has been called back: what it has collected, what it is given *)
(* and the tokens its caller must not be left with.                            *)
LEMMA Handed ==
  ASSUME Steady, ctl = "Return", stack # <<>>
  PROVE  /\ IsSeq(Now[Len(stack)].kids) /\ (Now[Len(stack)].kids = <<>> <=> Top.kids = <<>>)
         /\ Kids(Roots(nodes), Append(Top.kids, ret)) = Append(Now[Len(stack)].kids, Roots(nodes)[ret])
         /\ Kids(Roots(nodes), <<ret>>) = <<Roots(nodes)[ret]>>
         /\ Append(Top.kids, ret) \in Seq(Nat) /\ <<ret>> \in Seq(Nat)
         /\ ret \in 1..Len(nodes) /\ Roots(nodes)[ret].kind = nodes[ret].kind
         /\ cond <=> ~IsOperand(Roots(nodes)[ret])
<1> DEFINE U == Roots(nodes)
<1>0. Inv /\ Arena(nodes)
  BY SteadyArena DEF Steady
<1>1. Now[Len(stack)].kids = Kids(U, Top.kids)
  BY StateFacts
<1>2. Top.kids \in Seq(Nat)
  BY <1>0, TopFrame
<1>3. /\ ret \in 1..Len(nodes) /\ ret \in Nat /\ nodes[ret].kind \in KindsFor(cond)
      /\ Append(Top.kids, ret) \in Seq(Nat) /\ <<ret>> \in Seq(Nat) /\ cond \in BOOLEAN
  BY <1>0, Collect, Collected DEF Inv
<1> HIDE DEF U
<1>4. IsSeq(Kids(U, Top.kids)) /\ (Kids(U, Top.kids) = <<>> <=> Top.kids = <<>>)
  BY <1>2, KidsAre
<1>5. Kids(U, Append(Top.kids, ret)) = Append(Kids(U, Top.kids), U[ret])
  BY <1>2, <1>3, KidsAre
<1>6. Kids(U, <<ret>>) = <<U[ret]>>
  BY <1>3 DEF Kids
<1>7. U[ret].kind = nodes[ret].kind
  <2>1. U[ret] = Of(U, nodes[ret])
    BY <1>0, <1>3, RootAt DEF U
  <2> QED BY <2>1 DEF Of, Tree
<1>8. cond <=> ~IsOperand(U[ret])
  BY <1>3, <1>7 DEF IsOperand, KindsFor, ConditionKinds, OperandKinds
<1> QED BY <1>1, <1>3, <1>4, <1>5, <1>6, <1>7, <1>8 DEF U

LEMMA NewTop ==
  ASSUME Steady, ctl = "Return", stack # <<>>, NEW fn, NEW at
  PROVE  /\ Resolved(Roots(nodes), Frame(fn, Append(Top.kids, ret), at)) =
              Frame(fn, Append(Now[Len(stack)].kids, Roots(nodes)[ret]), at)
         /\ Resolved(Roots(nodes), Frame(fn, <<ret>>, at)) = Frame(fn, <<Roots(nodes)[ret]>>, at)
<1>1. /\ Kids(Roots(nodes), Append(Top.kids, ret)) = Append(Now[Len(stack)].kids, Roots(nodes)[ret])
      /\ Kids(Roots(nodes), <<ret>>) = <<Roots(nodes)[ret]>>
  BY Handed
<1>2. \A kids : Resolved(Roots(nodes), Frame(fn, kids, at)) = Frame(fn, Kids(Roots(nodes), kids), at)
  <2> TAKE kids
  <2>1. /\ Frame(fn, kids, at).fn = fn /\ Frame(fn, kids, at).kids = kids /\ Frame(fn, kids, at).at = at
    BY FrameIs
  <2> QED BY <2>1 DEF Resolved
<1> QED BY <1>1, <1>2

LEMMA Onward ==
  ASSUME Steady, stack # <<>>
  PROVE  /\ Top.fn = "Expr" => "Question" \in Left(Now, Len(stack) - 1)
         /\ Top.fn \in {"Branch", "Or", "And"} => Separator(ListOf(Top.fn)) \in Left(Now, Len(stack) - 1)
         /\ Top.fn = "Comparison" => ComparisonOps \subseteq Left(Now, Len(stack) - 1)
         /\ Top.fn = "Additive" => "Plus" \in Left(Now, Len(stack) - 1)
<1>1. Len(stack) \in Nat \ {0} /\ Nested(Now, Len(stack)) /\ Now[Len(stack)].fn = Top.fn
  BY StateFacts
<1>2. PICK r \in Runs(Top.fn) : Left(Now, Len(stack) - 1) = GoesOn(r)
  BY <1>1, LeftIs
<1>3. ASSUME Top.fn = "Expr" PROVE "Question" \in GoesOn(r)
  BY <1>2, <1>3 DEF Runs, GoesOn
<1>4. ASSUME Top.fn \in {"Branch", "Or", "And"} PROVE Separator(ListOf(Top.fn)) \in GoesOn(r)
  <2>1. CASE Top.fn = "Branch"
    BY <1>2, <2>1 DEF Runs, GoesOn, Separator, ListOf
  <2>2. CASE Top.fn = "Or"
    BY <1>2, <2>2 DEF Runs, GoesOn, Separator, ListOf
  <2>3. CASE Top.fn = "And"
    BY <1>2, <2>3 DEF Runs, GoesOn, Separator, ListOf
  <2> QED BY <1>4, <2>1, <2>2, <2>3
<1>5. ASSUME Top.fn = "Comparison" PROVE ComparisonOps \subseteq GoesOn(r)
  <2>1. r = "Not"
    BY <1>2, <1>5 DEF Runs
  <2> QED BY <2>1 DEF GoesOn
<1>6. ASSUME Top.fn = "Additive" PROVE "Plus" \in GoesOn(r)
  BY <1>2, <1>6 DEF Runs, GoesOn
<1> QED BY <1>2, <1>3, <1>4, <1>5, <1>6

(* A method that goes on is not at its end, for its caller could not be.       *)
GoesOnWith(nt, g) ==
  \A m \in 0..Len(toks) - 1 : toks[m + 1] \notin Left(Now, Len(stack) - 1) =>
    \A y : Via(toks, TableOf(toks), Now[Len(stack)], Roots(nodes)[ret], pos - 1, y, m)
           <=> Found(toks, TableOf(toks), nt, pos + 1, g, y, m)

LEMMA NotYet ==
  ASSUME Steady, Peek \in Left(Now, Len(stack) - 1), NEW m \in 0..Len(toks) - 1,
         toks[m + 1] \notin Left(Now, Len(stack) - 1)
  PROVE  m # pos - 1
BY StateFacts DEF Peek

LEMMA GoingOn ==
  ASSUME Steady, Steady', toks' = toks, nodes' = nodes, NEW fn, NEW kids, NEW at, NEW g, stack # <<>>,
         ctl = "Return", Replace(fn, kids, at), Resolved(Roots(nodes), Frame(fn, kids, at)) = g,
         ctl' \in Starters, pos' = After(1), Peek # "EOF", NEW T,
         GoesOnWith(ctl', g)
  PROVE  Ends(T) <=> Ends(T)'
<1>1. pos' = pos + 1
  BY PeekPast DEF Steady
<1>2. stack' = Retopped(stack, Frame(fn, kids, at))
  BY DEF Replace, Retopped
<1>3. ContinuesWith(toks, TableOf(toks), Now[Len(stack)], Roots(nodes)[ret], pos - 1,
                    Left(Now, Len(stack) - 1), ctl', pos', Resolved(Roots(nodes), Frame(fn, kids, at)))
  BY <1>1 DEF ContinuesWith, GoesOnWith
<1> QED BY <1>2, <1>3, Resuming

(* A waiting method and its callee's result, as the lemmas on methods put them.*)
LEMMA Waiting ==
  ASSUME Steady, ctl = "Return", stack # <<>>
  PROVE  /\ Reading(toks, TableOf(toks)) /\ pos - 1 \in 0..Len(toks) - 1
         /\ toks[(pos - 1) + 1] = Peek /\ (pos - 1) + 2 = pos + 1 /\ (pos - 1) + 1 = pos
         /\ Now[Len(stack)].fn = Top.fn /\ Now[Len(stack)].at = Top.at /\ Top.fn \in FrameFns
         /\ IsSeq(Now[Len(stack)].kids) /\ (Now[Len(stack)].kids = <<>> <=> Top.kids = <<>>)
         /\ cond <=> ~IsOperand(Roots(nodes)[ret])
<1>1. Inv
  BY DEF Steady
<1> QED BY <1>1, StateFacts, Handed, TopFrame DEF Peek

LEMMA ExprGoesOn ==
  ASSUME Steady, Steady', toks' = toks, ExprDone, Peek = "Question", NEW T
  PROVE  Ends(T) <=> Ends(T)'
<1> DEFINE D == TableOf(toks)
           f == Now[Len(stack)]
           x == Roots(nodes)[ret]
           j == pos - 1
<1>1. /\ ctl = "Return" /\ stack # <<>> /\ Top.fn = "Expr" /\ Replace("TrueBranch", <<ret>>, Top.at)
      /\ ctl' = "Branch" /\ pos' = After(1) /\ nodes' = nodes /\ ctl' \in Starters
  BY DEF ExprDone, Awaiting, Start, Consume, Starters, Delegates
<1>2. /\ Reading(toks, D) /\ j \in 0..Len(toks) - 1 /\ toks[j + 1] = Peek /\ j + 2 = pos + 1
      /\ f.fn = Top.fn /\ f.at = Top.at
  BY <1>1, Waiting
<1>3. \A m \in 0..Len(toks) - 1 : toks[m + 1] \notin Left(Now, Len(stack) - 1) => m # j
  BY <1>1, Onward, NotYet
<1> HIDE DEF D, f, x, j
<1>4. \A m \in 0..Len(toks) - 1 : toks[m + 1] \notin Left(Now, Len(stack) - 1) =>
        \A y : Via(toks, D, f, x, j, y, m) <=> Found(toks, D, "Branch", pos + 1, Frame("TrueBranch", <<x>>, Top.at), y, m)
  BY <1>1, <1>2, <1>3, ExprChoosesBy
<1>5. GoesOnWith(ctl', Frame("TrueBranch", <<x>>, Top.at))
  BY <1>1, <1>4 DEF GoesOnWith, D, f, x, j
<1>6. Resolved(Roots(nodes), Frame("TrueBranch", <<ret>>, Top.at)) = Frame("TrueBranch", <<x>>, Top.at)
  BY <1>1, NewTop DEF x
<1> QED BY <1>1, <1>5, <1>6, GoingOn

LEMMA TrueBranchDoneEnds ==
  ASSUME Steady, Steady', toks' = toks, TrueBranchDone, NEW T
  PROVE  Ends(T) <=> Ends(T)'
<1> DEFINE D == TableOf(toks)
           f == Now[Len(stack)]
           x == Roots(nodes)[ret]
           j == pos - 1
<1>1. /\ ctl = "Return" /\ stack # <<>> /\ Top.fn = "TrueBranch" /\ Replace("FalseBranch", Append(Top.kids, ret), Top.at)
      /\ ctl' = "Branch" /\ pos' = After(1) /\ nodes' = nodes /\ ctl' \in Starters /\ Peek = "Colon"
  BY DEF TrueBranchDone, Awaiting, Start, Consume, Starters, Delegates
<1>2. /\ Reading(toks, D) /\ j \in 0..Len(toks) - 1 /\ toks[j + 1] = Peek /\ j + 2 = pos + 1
      /\ f.fn = Top.fn /\ f.at = Top.at
  BY <1>1, Waiting
<1> HIDE DEF D, f, x, j
<1>4. \A m \in 0..Len(toks) - 1 : \A y : Via(toks, D, f, x, j, y, m) <=>
        Found(toks, D, "Branch", pos + 1, Frame("FalseBranch", Append(f.kids, x), Top.at), y, m)
  BY <1>1, <1>2, TrueBranchGoesOn
<1>5. GoesOnWith(ctl', Frame("FalseBranch", Append(f.kids, x), Top.at))
  BY <1>1, <1>4 DEF GoesOnWith, D, f, x, j
<1>6. Resolved(Roots(nodes), Frame("FalseBranch", Append(Top.kids, ret), Top.at)) =
        Frame("FalseBranch", Append(f.kids, x), Top.at)
  BY <1>1, NewTop DEF x, f
<1> QED BY <1>1, <1>5, <1>6, GoingOn

(* The chains: comma lists, OR and AND.                                        *)
LEMMA ChainNames ==
  ASSUME NEW fn \in {"Branch", "Or", "And"}
  PROVE  /\ Separator(ListOf(fn)) = IF fn = "Branch" THEN "Comma" ELSE fn
         /\ Separator(ListOf(fn)) # "EOF" /\ Callee(fn) \in Starters
<1>1. CASE fn = "Branch"
  BY <1>1 DEF Separator, ListOf, Callee, Starters, Delegates
<1>2. CASE fn = "Or"
  BY <1>2 DEF Separator, ListOf, Callee, Starters, Delegates
<1>3. CASE fn = "And"
  BY <1>3 DEF Separator, ListOf, Callee, Starters, Delegates
<1> QED BY <1>1, <1>2, <1>3

LEMMA ChainOnEnds ==
  ASSUME Steady, Steady', toks' = toks, NEW fn \in {"Branch", "Or", "And"},
         (fn = "Branch" /\ BranchItemDone) \/ (fn # "Branch" /\ ChainOperandDone(fn)), NEW T
  PROVE  Ends(T) <=> Ends(T)'
<1> DEFINE D == TableOf(toks)
           f == Now[Len(stack)]
           x == Roots(nodes)[ret]
           j == pos - 1
<1>0. Separator(ListOf(fn)) = (IF fn = "Branch" THEN "Comma" ELSE fn) /\ Separator(ListOf(fn)) # "EOF" /\ Callee(fn) \in Starters
  BY ChainNames
<1>1. /\ ctl = "Return" /\ stack # <<>> /\ Top.fn = fn /\ Replace(fn, Append(Top.kids, ret), Top.at)
      /\ ctl' = Callee(fn) /\ pos' = After(1) /\ nodes' = nodes /\ Peek = Separator(ListOf(fn))
      /\ fn = "Branch" => ~cond
  BY <1>0 DEF BranchItemDone, ChainOperandDone, Awaiting, Start, Consume, Callee
<1>2. /\ Reading(toks, D) /\ j \in 0..Len(toks) - 1 /\ toks[j + 1] = Peek /\ j + 2 = pos + 1
      /\ f.fn = fn /\ f.at = Top.at /\ IsSeq(f.kids) /\ (cond <=> ~IsOperand(x))
  BY <1>1, Waiting
<1>3. \A m \in 0..Len(toks) - 1 : toks[m + 1] \notin Left(Now, Len(stack) - 1) => m # j
  BY <1>1, Onward, NotYet
<1> HIDE DEF D, f, x, j
<1>4. Fine(f.fn, x)
  BY <1>1, <1>2 DEF Fine
<1>5. \A m \in 0..Len(toks) - 1 : toks[m + 1] \notin Left(Now, Len(stack) - 1) =>
        \A y : Via(toks, D, f, x, j, y, m) <=>
          Found(toks, D, Callee(fn), pos + 1, Frame(fn, Append(f.kids, x), Top.at), y, m)
  <2>1. /\ f.fn \in {"Branch", "Or", "And"} /\ IsSeq(f.kids) /\ toks[j + 1] = Separator(ListOf(f.fn))
        /\ Reading(toks, D) /\ j \in 0..Len(toks) - 1
    BY <1>1, <1>2
  <2>2. \A m \in 0..Len(toks) - 1 : m # j =>
          \A y : Via(toks, D, f, x, j, y, m) <=>
            Found(toks, D, Callee(f.fn), j + 2, Frame(f.fn, Append(f.kids, x), f.at), y, m)
    BY <1>4, <2>1, ChainGoesOn
  <2> QED BY <1>2, <1>3, <2>2
<1>6. GoesOnWith(ctl', Frame(fn, Append(f.kids, x), Top.at))
  BY <1>1, <1>5 DEF GoesOnWith, D, f, x, j
<1>7. Resolved(Roots(nodes), Frame(fn, Append(Top.kids, ret), Top.at)) = Frame(fn, Append(f.kids, x), Top.at)
  BY <1>1, NewTop DEF x, f
<1> QED BY <1>0, <1>1, <1>6, <1>7, GoingOn

LEMMA LeftDoneEnds ==
  ASSUME Steady, Steady', toks' = toks, LeftDone, NEW T
  PROVE  Ends(T) <=> Ends(T)'
<1> DEFINE D == TableOf(toks)
           f == Now[Len(stack)]
           x == Roots(nodes)[ret]
           j == pos - 1
<1>1. /\ ctl = "Return" /\ stack # <<>> /\ Top.fn = "Comparison" /\ Replace("Comparison", <<ret>>, pos)
      /\ Top.kids = <<>> /\ ~cond
      /\ ctl' = "Additive" /\ pos' = After(1) /\ nodes' = nodes /\ ctl' \in Starters /\ Peek \in ComparisonOps
  BY DEF LeftDone, Awaiting, Start, Consume, Starters, Delegates
<1>2. /\ Reading(toks, D) /\ j \in 0..Len(toks) - 1 /\ toks[j + 1] = Peek /\ j + 2 = pos + 1 /\ j + 1 = pos
      /\ f.fn = Top.fn /\ f.kids = <<>> /\ IsOperand(x)
  BY <1>1, Waiting
<1>3. \A m \in 0..Len(toks) - 1 : toks[m + 1] \notin Left(Now, Len(stack) - 1) => m # j
  BY <1>1, Onward, NotYet
<1> HIDE DEF D, f, x, j
<1>4. \A m \in 0..Len(toks) - 1 : toks[m + 1] \notin Left(Now, Len(stack) - 1) =>
        \A y : Via(toks, D, f, x, j, y, m) <=> Found(toks, D, "Additive", pos + 1, Frame("Comparison", <<x>>, pos), y, m)
  BY <1>1, <1>2, <1>3, ComparisonGoesOn
<1>5. GoesOnWith(ctl', Frame("Comparison", <<x>>, pos))
  BY <1>1, <1>4 DEF GoesOnWith, D, f, x, j
<1>6. Resolved(Roots(nodes), Frame("Comparison", <<ret>>, pos)) = Frame("Comparison", <<x>>, pos)
  BY <1>1, NewTop DEF x
<1>7. Peek # "EOF"
  BY <1>1 DEF ComparisonOps
<1> QED BY <1>1, <1>5, <1>6, <1>7, GoingOn

LEMMA NextTermEnds ==
  ASSUME Steady, Steady', toks' = toks, NextTerm, NEW T
  PROVE  Ends(T) <=> Ends(T)'
<1> DEFINE D == TableOf(toks)
           f == Now[Len(stack)]
           x == Roots(nodes)[ret]
           j == pos - 1
<1>1. /\ ctl = "Return" /\ stack # <<>> /\ Top.fn = "Additive" /\ Replace("Additive", <<ret>>, pos)
      /\ Top.kids = <<>> /\ ~cond
      /\ ctl' = "Atom" /\ pos' = After(1) /\ nodes' = nodes /\ ctl' \in Starters /\ Peek = "Plus"
  BY DEF NextTerm, Awaiting, Start, Consume, Starters, Delegates
<1>2. /\ Reading(toks, D) /\ j \in 0..Len(toks) - 1 /\ toks[j + 1] = Peek /\ j + 2 = pos + 1 /\ j + 1 = pos
      /\ f.fn = Top.fn /\ f.kids = <<>> /\ IsOperand(x)
  BY <1>1, Waiting
<1>3. \A m \in 0..Len(toks) - 1 : toks[m + 1] \notin Left(Now, Len(stack) - 1) => m # j
  BY <1>1, Onward, NotYet
<1> HIDE DEF D, f, x, j
<1>4. \A m \in 0..Len(toks) - 1 : toks[m + 1] \notin Left(Now, Len(stack) - 1) =>
        \A y : Via(toks, D, f, x, j, y, m) <=> Found(toks, D, "Atom", pos + 1, Frame("Additive", <<x>>, pos), y, m)
  BY <1>1, <1>2, <1>3, SumGoesOn
<1>5. GoesOnWith(ctl', Frame("Additive", <<x>>, pos))
  BY <1>1, <1>4 DEF GoesOnWith, D, f, x, j
<1>6. Resolved(Roots(nodes), Frame("Additive", <<ret>>, pos)) = Frame("Additive", <<x>>, pos)
  BY <1>1, NewTop DEF x
<1> QED BY <1>1, <1>5, <1>6, GoingOn

-----------------------------------------------------------------------------
(* A method that returns what it was given, or one tree made of it, and what   *)
(* it leaves to its caller.                                                    *)
LEMMA GivingBack ==
  ASSUME Steady, Steady', toks' = toks, stack # <<>>, ctl = "Return", Pop, ctl' = "Return", NEW T,
         Kept(Roots(nodes), Roots(nodes'), stack), pos' = pos,
         \A m : \A y : Via(toks, TableOf(toks), Now[Len(stack)], Roots(nodes)[ret], pos - 1, y, m)
                       <=> m = pos - 1 /\ y = Roots(nodes')[ret']
  PROVE  Ends(T) <=> Ends(T)'
<1>1. ReturnsOnly(toks, TableOf(toks), Now[Len(stack)], Roots(nodes)[ret], pos - 1, Roots(nodes')[ret'], pos' - 1)
  BY DEF ReturnsOnly
<1> QED BY <1>1, Returning

LEMMA PassingOn ==
  ASSUME Steady, Steady', toks' = toks, stack # <<>>, ctl = "Return", Pop, Pass, NEW T, pos' = pos,
         \A m \in 0..Len(toks) - 1 : \A y :
           Via(toks, TableOf(toks), Now[Len(stack)], Roots(nodes)[ret], pos - 1, y, m)
             <=> m = pos - 1 /\ y = Roots(nodes)[ret]
  PROVE  Ends(T) <=> Ends(T)'
<1>1. ctl' = "Return" /\ nodes' = nodes /\ ret' = ret
  BY DEF Pass
<1>2. Kept(Roots(nodes), Roots(nodes'), stack) /\ Roots(nodes') = Roots(nodes)
  BY <1>1, NothingMoved
<1>3. ReturnsOnly(toks, TableOf(toks), Now[Len(stack)], Roots(nodes)[ret], pos - 1, Roots(nodes')[ret'], pos' - 1)
  BY <1>1, <1>2 DEF ReturnsOnly
<1> QED BY <1>1, <1>2, <1>3, Returning

LEMMA ExprReturns ==
  ASSUME Steady, Steady', toks' = toks, ExprDone, Peek # "Question", NEW T
  PROVE  Ends(T) <=> Ends(T)'
<1> DEFINE D == TableOf(toks)
           f == Now[Len(stack)]
           x == Roots(nodes)[ret]
           j == pos - 1
<1>1. ctl = "Return" /\ stack # <<>> /\ Top.fn = "Expr" /\ Pass /\ Pop /\ pos' = pos
  BY DEF ExprDone, Awaiting
<1>2. Reading(toks, D) /\ toks[j + 1] = Peek /\ f.fn = Top.fn
  BY <1>1, Waiting
<1> HIDE DEF D, f, x, j
<1>3. \A m, y : Via(toks, D, f, x, j, y, m) <=> m = j /\ y = x
  BY <1>1, <1>2, ExprKeeps
<1> QED BY <1>1, <1>3, PassingOn DEF D, f, x, j

LEMMA NoComparisonEnds ==
  ASSUME Steady, Steady', toks' = toks, NoComparison, NEW T
  PROVE  Ends(T) <=> Ends(T)'
<1> DEFINE D == TableOf(toks)
           f == Now[Len(stack)]
           x == Roots(nodes)[ret]
           j == pos - 1
<1>1. /\ ctl = "Return" /\ stack # <<>> /\ Top.fn = "Comparison" /\ Pass /\ Pop /\ pos' = pos
      /\ Top.kids = <<>> /\ Peek \notin ComparisonOps
  BY DEF NoComparison, Awaiting
<1>2. Reading(toks, D) /\ toks[j + 1] = Peek /\ f.fn = Top.fn /\ f.kids = <<>>
  BY <1>1, Waiting
<1> HIDE DEF D, f, x, j
<1>3. \A m, y : Via(toks, D, f, x, j, y, m) <=> m = j /\ y = x
  BY <1>1, <1>2, ComparisonKeeps
<1> QED BY <1>1, <1>3, PassingOn DEF D, f, x, j

LEMMA NoTermEnds ==
  ASSUME Steady, Steady', toks' = toks, NoTerm, NEW T
  PROVE  Ends(T) <=> Ends(T)'
<1> DEFINE D == TableOf(toks)
           f == Now[Len(stack)]
           x == Roots(nodes)[ret]
           j == pos - 1
<1>1. /\ ctl = "Return" /\ stack # <<>> /\ Top.fn = "Additive" /\ Pass /\ Pop /\ pos' = pos
      /\ Top.kids = <<>> /\ Peek # "Plus"
  BY DEF NoTerm, Awaiting
<1>2. Reading(toks, D) /\ toks[j + 1] = Peek /\ f.fn = Top.fn /\ f.kids = <<>> /\ j \in 0..Len(toks) - 1
  BY <1>1, Waiting
<1> HIDE DEF D, f, x, j
<1>3. \A m \in 0..Len(toks) - 1 : \A y : Via(toks, D, f, x, j, y, m) <=> m = j /\ y = x
  <2>1. NoTermBehind(toks, x, j) /\ f.fn = "Additive"
    BY <1>1, <1>2 DEF NoTermBehind
  <2> QED BY <1>2, <2>1, SumEnds
<1> QED BY <1>1, <1>3, PassingOn DEF D, f, x, j

(* A method that returns a node built of all it was given.                     *)
LEMMA NewNode ==
  ASSUME Steady, Steady', ctl = "Return", stack # <<>>,
         NEW kind \in NodeKinds, NEW op \in TokenTypes, NEW kids \in Seq(Nat), NEW d,
         Build(kind, op, kids, Top.at, d)
  PROVE  /\ Roots(nodes')[ret'] = Tree(kind, op, Top.at, Kids(Roots(nodes), kids))
         /\ Kept(Roots(nodes), Roots(nodes'), stack) /\ ctl' = "Return"
<1> DEFINE node == [kind |-> kind, op |-> op, kids |-> kids, at |-> Top.at]
<1>1. nodes' = Append(nodes, node) /\ ret' = Len(nodes) + 1 /\ ctl' = "Return"
  BY DEF Build
<1>2. Top.at \in Nat
  BY TopFrame DEF Steady
<1>3. node \in NodeType /\ node.kids = kids /\ node.op = op /\ node.at = Top.at /\ node.kind = kind
  BY <1>2 DEF NodeType
<1> HIDE DEF node
<1>4. /\ Roots(nodes')[Len(nodes) + 1] = Tree(kind, op, Top.at, Kids(Roots(nodes), kids))
      /\ Kept(Roots(nodes), Roots(nodes'), stack)
  BY <1>1, <1>3, TreesExtended
<1> QED BY <1>1, <1>4

LEMMA NotDoneEnds ==
  ASSUME Steady, Steady', toks' = toks, NotDone, NEW T
  PROVE  Ends(T) <=> Ends(T)'
<1> DEFINE D == TableOf(toks)
           f == Now[Len(stack)]
           x == Roots(nodes)[ret]
           j == pos - 1
<1>1. /\ ctl = "Return" /\ stack # <<>> /\ Top.fn = "Not" /\ Pop /\ pos' = pos
      /\ Build("Not", "Not", <<ret>>, Top.at, TRUE)
  BY DEF NotDone, Awaiting
<1>2. /\ Kids(Roots(nodes), <<ret>>) = <<x>> /\ <<ret>> \in Seq(Nat) /\ f.fn = Top.fn /\ f.at = Top.at
  BY <1>1, Waiting, Handed
<1>3. /\ Roots(nodes')[ret'] = Tree("Not", "Not", Top.at, <<x>>)
      /\ Kept(Roots(nodes), Roots(nodes'), stack) /\ ctl' = "Return"
  <2> HIDE DEF x
  <2> QED BY <1>1, <1>2, BuiltKinds, NewNode
<1> HIDE DEF D, f, x, j
<1>4. \A m, y : Via(toks, D, f, x, j, y, m) <=> m = j /\ y = Tree("Not", "Not", Top.at, <<x>>)
  BY <1>1, <1>2, NotReturns
<1> QED BY <1>1, <1>3, <1>4, GivingBack DEF D, f, x, j

LEMMA RightDoneEnds ==
  ASSUME Steady, Steady', toks' = toks, RightDone, NEW T
  PROVE  Ends(T) <=> Ends(T)'
<1> DEFINE D == TableOf(toks)
           f == Now[Len(stack)]
           x == Roots(nodes)[ret]
           j == pos - 1
           y0 == Tree("Comparison", toks[Top.at], Top.at, Append(f.kids, x))
<1>1. /\ ctl = "Return" /\ stack # <<>> /\ Top.fn = "Comparison" /\ Pop /\ pos' = pos /\ ~cond /\ Top.kids # <<>>
      /\ Build("Comparison", toks[Top.at], Append(Top.kids, ret), Top.at, TRUE)
  BY DEF RightDone, Awaiting
<1>2. /\ Kids(Roots(nodes), Append(Top.kids, ret)) = Append(f.kids, x) /\ Append(Top.kids, ret) \in Seq(Nat)
      /\ f.fn = Top.fn /\ f.at = Top.at /\ f.kids # <<>> /\ IsOperand(x) /\ toks[Top.at] \in TokenTypes
  BY <1>1, Waiting, Handed, TopFrame DEF Steady
<1> HIDE DEF D, f, x, j
<1>3. Roots(nodes')[ret'] = y0 /\ Kept(Roots(nodes), Roots(nodes'), stack) /\ ctl' = "Return"
  BY <1>1, <1>2, BuiltKinds, NewNode
<1>4. \A m, y : Via(toks, D, f, x, j, y, m) <=> m = j /\ y = y0
  BY <1>1, <1>2, ComparisonReturns
<1> HIDE DEF y0
<1> QED BY <1>1, <1>3, <1>4, GivingBack DEF D, f, x, j

(* A chain of one operand is that operand, a longer one a node.                *)
LEMMA MadeIs ==
  ASSUME NEW fn \in {"Branch", "Or", "And"}, NEW at, NEW K, IsSeq(K), NEW x
  PROVE  /\ K = <<>> => Made(fn, at, Append(K, x)) = x
         /\ K # <<>> => Made(fn, at, Append(K, x)) =
              Tree(IF fn = "Branch" THEN "CommaList" ELSE "Logical",
                   IF fn = "Branch" THEN "Comma" ELSE fn, at, Append(K, x))
<1>1. Separator(ListOf(fn)) = IF fn = "Branch" THEN "Comma" ELSE fn
  BY ChainNames
<1>2. ASSUME K = <<>> PROVE Made(fn, at, Append(K, x)) = x
  <2>1. Append(K, x) = <<x>> /\ Len(<<x>>) = 1 /\ <<x>>[1] = x
    BY <1>2, NoKidsYet
  <2> QED BY <2>1 DEF Made, Chain
<1>3. ASSUME K # <<>> PROVE Len(Append(K, x)) # 1
  <2>1. PICK S : K \in Seq(S) /\ x \in S
    BY OverOneSet
  <2>2. Len(K) \in Nat /\ Len(K) # 0 /\ Len(Append(K, x)) = Len(K) + 1
    BY <1>3, <2>1
  <2> QED BY <2>2
<1> QED BY <1>1, <1>2, <1>3 DEF Made, Chain

LEMMA ChainDoneEnds ==
  ASSUME Steady, Steady', toks' = toks, NEW fn \in {"Branch", "Or", "And"},
         (fn = "Branch" /\ BranchDone) \/ (fn # "Branch" /\ ChainDone(fn)), NEW T
  PROVE  Ends(T) <=> Ends(T)'
<1> DEFINE D == TableOf(toks)
           f == Now[Len(stack)]
           x == Roots(nodes)[ret]
           j == pos - 1
           kind == IF fn = "Branch" THEN "CommaList" ELSE "Logical"
           op == IF fn = "Branch" THEN "Comma" ELSE fn
<1>0. Separator(ListOf(fn)) = op
  BY ChainNames
<1>1. /\ ctl = "Return" /\ stack # <<>> /\ Top.fn = fn /\ Pop /\ pos' = pos
      /\ Peek # op /\ (fn = "Branch" => ~cond)
  BY DEF BranchDone, ChainDone, Awaiting
<1>2. /\ Reading(toks, D) /\ j \in 0..Len(toks) - 1 /\ toks[j + 1] = Peek
      /\ f.fn = fn /\ f.at = Top.at /\ IsSeq(f.kids) /\ (cond <=> ~IsOperand(x)) /\ (f.kids = <<>> <=> Top.kids = <<>>)
  BY <1>1, Waiting
<1> HIDE DEF D, f, x, j
<1>3. Fine(f.fn, x)
  BY <1>1, <1>2 DEF Fine
<1>4. \A m, y : Via(toks, D, f, x, j, y, m) <=> m = j /\ y = Made(fn, Top.at, Append(f.kids, x))
  <2>1. f.fn \in {"Branch", "Or", "And"} /\ toks[j + 1] # Separator(ListOf(f.fn))
    BY <1>0, <1>1, <1>2
  <2>2. \A m, y : Via(toks, D, f, x, j, y, m) <=> m = j /\ y = Made(f.fn, f.at, Append(f.kids, x))
    BY <1>3, <2>1, ChainReturns
  <2> QED BY <1>2, <2>2
<1>5. CASE Top.kids = <<>>
  <2>1. Pass
    BY <1>5 DEF BranchDone, ChainDone
  <2>2. Made(fn, Top.at, Append(f.kids, x)) = x
    BY <1>2, <1>5, MadeIs
  <2>3. \A m, y : Via(toks, D, f, x, j, y, m) <=> m = j /\ y = x
    BY <1>4, <2>2
  <2> QED BY <1>1, <2>1, <2>3, PassingOn DEF D, f, x, j
<1>6. CASE Top.kids # <<>>
  <2>1. \E d : Build(kind, op, Append(Top.kids, ret), Top.at, d)
    BY <1>6 DEF BranchDone, ChainDone
  <2>2. kind \in NodeKinds /\ op \in TokenTypes
    BY BuiltKinds
  <2>3. /\ Kids(Roots(nodes), Append(Top.kids, ret)) = Append(f.kids, x) /\ Append(Top.kids, ret) \in Seq(Nat)
    BY <1>1, Handed DEF f, x
  <2>4. Made(fn, Top.at, Append(f.kids, x)) = Tree(kind, op, Top.at, Append(f.kids, x))
    BY <1>2, <1>6, MadeIs
  <2> HIDE DEF kind, op
  <2>5. Roots(nodes')[ret'] = Tree(kind, op, Top.at, Append(f.kids, x)) /\ Kept(Roots(nodes), Roots(nodes'), stack) /\ ctl' = "Return"
    BY <1>1, <2>1, <2>2, <2>3, NewNode
  <2>6. \A m, y : Via(toks, D, f, x, j, y, m) <=> m = j /\ y = Roots(nodes')[ret']
    BY <1>4, <2>4, <2>5
  <2> QED BY <1>1, <2>5, <2>6, GivingBack DEF D, f, x, j
<1> QED BY <1>5, <1>6

(* No list of branches is left with a comma behind it.                         *)
CommasTaken ==
  ctl = "Return" /\ stack # <<>> /\ Waits(Top.fn) = "Branch" => Peek # "Comma"

LEMMA FalseBranchDoneEnds ==
  ASSUME Steady, Steady', toks' = toks, CommasTaken, FalseBranchDone, NEW T
  PROVE  Ends(T) <=> Ends(T)'
<1> DEFINE D == TableOf(toks)
           f == Now[Len(stack)]
           x == Roots(nodes)[ret]
           j == pos - 1
           z == Tree("Ternary", "Question", Top.at, Append(f.kids, x))
<1>1. /\ ctl = "Return" /\ stack # <<>> /\ Top.fn = "FalseBranch" /\ Pop /\ pos' = pos
      /\ Build("Ternary", "Question", Append(Top.kids, ret), Top.at, FALSE)
  BY DEF FalseBranchDone, Awaiting
<1>2. /\ Kids(Roots(nodes), Append(Top.kids, ret)) = Append(f.kids, x) /\ Append(Top.kids, ret) \in Seq(Nat)
      /\ f.fn = Top.fn /\ f.at = Top.at /\ toks[j + 1] = Peek
  BY <1>1, Waiting, Handed
<1>3. toks[j + 1] # "Comma"
  BY <1>1, <1>2 DEF CommasTaken, Waits
<1> HIDE DEF D, f, x, j
<1>4. Roots(nodes')[ret'] = z /\ Kept(Roots(nodes), Roots(nodes'), stack) /\ ctl' = "Return"
  BY <1>1, <1>2, BuiltKinds, NewNode
<1>5. \A m, y : Via(toks, D, f, x, j, y, m) <=> m = j /\ y = z
  BY <1>1, <1>2, <1>3, FalseBranchReturns
<1> HIDE DEF z
<1> QED BY <1>1, <1>4, <1>5, GivingBack DEF D, f, x, j

LEMMA TermDoneEnds ==
  ASSUME Steady, Steady', toks' = toks, TermDone, NEW T
  PROVE  Ends(T) <=> Ends(T)'
<1> DEFINE D == TableOf(toks)
           f == Now[Len(stack)]
           x == Roots(nodes)[ret]
           j == pos - 1
           z == Tree("Additive", "Plus", Top.at, Append(f.kids, x))
           g == Frame("Additive", <<>>, Top.at)
<1>1. /\ ctl = "Return" /\ stack # <<>> /\ Top.fn = "Additive" /\ pos' = pos /\ ~cond /\ Top.kids # <<>>
      /\ Build("Additive", "Plus", Append(Top.kids, ret), Top.at, FALSE) /\ stack' = Retopped(stack, g)
  BY DEF TermDone, Awaiting, Replace, Retopped
<1>2. /\ Kids(Roots(nodes), Append(Top.kids, ret)) = Append(f.kids, x) /\ Append(Top.kids, ret) \in Seq(Nat)
      /\ f.fn = Top.fn /\ f.at = Top.at /\ f.kids # <<>> /\ IsOperand(x)
      /\ Reading(toks, D) /\ j \in 0..Len(toks) - 1
  BY <1>1, Waiting, Handed
<1>3. Len(stack) \in Nat \ {0} /\ Nested(Now, Len(stack)) /\ Nested(Now', Len(stack'))
  BY <1>1, StateFacts, NextFacts
<1> HIDE DEF D, f, x, j
<1>4. Roots(nodes')[ret'] = z /\ Kept(Roots(nodes), Roots(nodes'), stack) /\ ctl' = "Return"
  BY <1>1, <1>2, BuiltKinds, NewNode
<1> HIDE DEF z
<1>5. Resolved(Roots(nodes'), g) = g
  <2>1. g.fn = "Additive" /\ g.kids = <<>> /\ g.at = Top.at
    BY DEF Frame
  <2>2. <<>> \in Seq(Nat)
    OBVIOUS
  <2>3. Kids(Roots(nodes'), <<>>) = <<>>
    BY <2>2, KidsAre
  <2> QED BY <2>1, <2>3 DEF Resolved
<1> HIDE DEF g
<1>6. Alike(Now, Now', Len(stack) - 1) /\ Len(stack') = Len(stack) /\ Now'[Len(stack)] = g
  BY <1>1, <1>4, <1>5, NowAfter
<1>7. RewritesTo(toks, D, f, x, j, g, z)
  <2>1. \A m, y : Via(toks, D, f, x, j, y, m) <=> Via(toks, D, g, z, j, y, m)
    BY <1>1, <1>2, SumTermJoins DEF g, z
  <2> QED BY <2>1 DEF RewritesTo
<1>8. Outer(toks, D, Now, Len(stack), x, j, T) <=> Outer(toks, D, Now', Len(stack), z, j, T)
  BY <1>2, <1>3, <1>6, <1>7, Rewrites DEF f
<1> QED BY <1>1, <1>4, <1>6, <1>8, EndsAre, EndsWill DEF D, x, j

(* A closing token.                                                            *)
LEMMA Closing ==
  ASSUME Steady, Steady', toks' = toks, stack # <<>>, ctl = "Return", Pop, ctl' = "Return",
         Top.fn \in Enclosers, Peek = Closer(Top.fn), pos' = After(1), NEW T,
         Kept(Roots(nodes), Roots(nodes'), stack),
         Roots(nodes')[ret'] = Wrapped(toks, Now[Len(stack)], Roots(nodes)[ret])
  PROVE  Ends(T) <=> Ends(T)'
<1> DEFINE D == TableOf(toks)
           f == Now[Len(stack)]
           x == Roots(nodes)[ret]
           j == pos - 1
<1>1. Peek # "EOF"
  BY DEF Enclosers, Closer
<1>2. pos' = pos + 1 /\ pos \in Nat
  BY <1>1, PeekPast DEF Steady, Inv
<1>3. toks[j + 1] = Peek /\ f.fn = Top.fn /\ pos' - 1 = j + 1
  BY <1>2, Waiting
<1> HIDE DEF D, f, x, j
<1>4. \A m, y : Via(toks, D, f, x, j, y, m) <=> m = j + 1 /\ y = Wrapped(toks, f, x)
  BY <1>3, CloserReturns
<1>5. ReturnsOnly(toks, D, f, x, j, Roots(nodes')[ret'], pos' - 1)
  BY <1>3, <1>4 DEF ReturnsOnly, f, x
<1> QED BY <1>5, Returning DEF D, f, x, j

LEMMA CloseParenEnds ==
  ASSUME Steady, Steady', toks' = toks, CloseParen, NEW T
  PROVE  Ends(T) <=> Ends(T)'
<1>1. /\ ctl = "Return" /\ stack # <<>> /\ Top.fn = "Paren" /\ Pop /\ Peek = "RParen" /\ pos' = After(1)
      /\ ctl' = "Return" /\ nodes' = nodes /\ ret' = ret
  BY DEF CloseParen, Awaiting, Pass, Consume
<1>2. Kept(Roots(nodes), Roots(nodes'), stack) /\ Roots(nodes') = Roots(nodes)
  BY <1>1, NothingMoved
<1>3. Top.fn \in Enclosers /\ Peek = Closer(Top.fn) /\ Now[Len(stack)].fn = "Paren"
  BY <1>1, Waiting DEF Enclosers, Closer
<1>4. Wrapped(toks, Now[Len(stack)], Roots(nodes)[ret]) = Roots(nodes)[ret]
  BY <1>3 DEF Wrapped
<1> QED BY <1>1, <1>2, <1>3, <1>4, Closing

LEMMA CloseCallEnds ==
  ASSUME Steady, Steady', toks' = toks, CloseClassCall \/ CloseMemberOf, NEW T
  PROVE  Ends(T) <=> Ends(T)'
<1> DEFINE x == Roots(nodes)[ret]
           f == Now[Len(stack)]
<1>1. PICK fn \in {"ClassCall", "MemberOf"}, kind \in {"ClassCall", "MemberOfExpr"}, d \in BOOLEAN :
        /\ CloseCall(fn, kind, d)
        /\ kind = IF fn = "ClassCall" THEN "ClassCall" ELSE "MemberOfExpr"
  BY DEF CloseClassCall, CloseMemberOf
<1>2. /\ ctl = "Return" /\ stack # <<>> /\ Top.fn = fn /\ Pop /\ Peek = "RParen" /\ pos' = After(1)
      /\ Build(kind, toks[Top.at], <<ret>>, Top.at, d)
  BY <1>1 DEF CloseCall, Awaiting, Consume
<1>3. Top.fn \in Enclosers /\ Peek = Closer(Top.fn) /\ f.fn = fn /\ f.at = Top.at
  BY <1>2, Waiting DEF Enclosers, Closer
<1>4. /\ Kids(Roots(nodes), <<ret>>) = <<x>> /\ <<ret>> \in Seq(Nat) /\ toks[Top.at] \in TokenTypes
      /\ kind \in NodeKinds
  BY <1>2, Handed, TopFrame, BuiltKinds DEF Steady
<1> HIDE DEF x, f
<1>5. Roots(nodes')[ret'] = Tree(kind, toks[Top.at], Top.at, <<x>>) /\ Kept(Roots(nodes), Roots(nodes'), stack) /\ ctl' = "Return"
  BY <1>2, <1>4, NewNode
<1>6. Wrapped(toks, f, x) = Tree(kind, toks[Top.at], Top.at, <<x>>)
  BY <1>1, <1>3 DEF Wrapped
<1> QED BY <1>2, <1>3, <1>5, <1>6, Closing DEF x, f

LEMMA CloseArrayEnds ==
  ASSUME Steady, Steady', Held, toks' = toks, CloseArray, NEW T
  PROVE  Ends(T) <=> Ends(T)'
<1> DEFINE x == Roots(nodes)[ret]
           f == Now[Len(stack)]
<1>1. /\ ctl = "Return" /\ stack # <<>> /\ Top.fn = "Array" /\ Pop /\ Peek = "RBrace" /\ pos' = After(1)
      /\ Awaiting("Array")
  BY DEF CloseArray, Awaiting, Consume
<1>2. Top.fn \in Enclosers /\ Peek = Closer(Top.fn) /\ f.fn = "Array" /\ f.at = Top.at
  BY <1>1, Waiting DEF Enclosers, Closer
<1>3. Kids(Roots(nodes), <<ret>>) = <<x>> /\ <<ret>> \in Seq(Nat) /\ x.kind = nodes[ret].kind /\ ret \in 1..Len(nodes)
  BY <1>1, Handed
<1>4. Wrapped(toks, f, x) = ArrayOf(Top.at, x)
  BY <1>2 DEF Wrapped
<1>5. CASE nodes[ret].kind = "CommaList"
  <2>1. TakenOver /\ ctl' = "Return" /\ ret' = ret
    BY <1>1, <1>3, <1>5 DEF CloseArray, TakenOver
  <2>2. Roots(nodes')[ret] = ArrayOf(Top.at, x) /\ Kept(Roots(nodes), Roots(nodes'), stack)
    BY <1>5, <2>1, TreesTaken
  <2> HIDE DEF x, f
  <2> QED BY <1>1, <1>2, <1>4, <2>1, <2>2, Closing DEF x, f
<1>6. CASE nodes[ret].kind # "CommaList"
  <2>1. Build("ArrayLit", "LBrace", <<ret>>, Top.at, FALSE)
    BY <1>6 DEF CloseArray
  <2> HIDE DEF x, f
  <2>2. Roots(nodes')[ret'] = Tree("ArrayLit", "LBrace", Top.at, <<x>>) /\ Kept(Roots(nodes), Roots(nodes'), stack) /\ ctl' = "Return"
    BY <1>1, <1>3, <2>1, BuiltKinds, NewNode
  <2>3. ArrayOf(Top.at, x) = Tree("ArrayLit", "LBrace", Top.at, <<x>>)
    BY <1>3, <1>6 DEF ArrayOf
  <2> QED BY <1>1, <1>2, <1>4, <2>2, <2>3, Closing DEF x, f
<1> QED BY <1>5, <1>6

(* Errors: no closing token, or a condition where an operand must stand.       *)
LEMMA GivingUp ==
  ASSUME Steady, stack # <<>>, ctl = "Return", ctl' = "Failed", NEW T,
         \A m \in 0..Len(toks) - 1 : toks[m + 1] \notin Left(Now, Len(stack) - 1) =>
           \A y : ~Via(toks, TableOf(toks), Now[Len(stack)], Roots(nodes)[ret], pos - 1, y, m)
  PROVE  Ends(T) <=> Ends(T)'
<1>1. ReturnsNone(toks, TableOf(toks), Now[Len(stack)], Roots(nodes)[ret], pos - 1, Left(Now, Len(stack) - 1))
  BY DEF ReturnsNone
<1> QED BY <1>1, Refusing

LEMMA MissingCloserEnds ==
  ASSUME Steady, MissingCloser, NEW T
  PROVE  Ends(T) <=> Ends(T)'
<1> DEFINE D == TableOf(toks)
           f == Now[Len(stack)]
           x == Roots(nodes)[ret]
           j == pos - 1
<1>1. PICK fn \in {"TrueBranch", "Array", "Paren", "ClassCall", "MemberOf"} :
        Awaiting(fn) /\ Peek # Closer(fn) /\ Fail
  BY DEF MissingCloser
<1>2. ctl = "Return" /\ stack # <<>> /\ Top.fn = fn /\ ctl' = "Failed"
  BY <1>1 DEF Awaiting, Fail
<1>3. toks[j + 1] = Peek /\ f.fn = fn
  BY <1>2, Waiting
<1> HIDE DEF D, f, x, j
<1>4. \A m, y : ~Via(toks, D, f, x, j, y, m)
  <2>1. CASE fn = "TrueBranch"
    <3>1. toks[j + 1] # "Colon"
      BY <1>1, <1>3, <2>1 DEF Closer
    <3> QED BY <1>3, <2>1, <3>1, TrueBranchNeedsColon
  <2>2. CASE fn \in Enclosers
    BY <1>1, <1>3, <2>2, NeedsCloser
  <2> QED BY <2>1, <2>2 DEF Enclosers
<1> QED BY <1>2, <1>4, GivingUp DEF D, f, x, j

LEMMA ConditionMisplacedEnds ==
  ASSUME Steady, ConditionMisplaced, NEW T
  PROVE  Ends(T) <=> Ends(T)'
<1> DEFINE D == TableOf(toks)
           f == Now[Len(stack)]
           x == Roots(nodes)[ret]
           j == pos - 1
<1>1. /\ ctl = "Return" /\ stack # <<>> /\ ctl' = "Failed" /\ cond
      /\ \/ Top.fn = "Branch"
         \/ Top.fn = "Comparison" /\ (Top.kids # <<>> \/ Peek \in ComparisonOps)
         \/ Top.fn = "Additive" /\ (Top.kids # <<>> \/ Peek = "Plus")
  BY DEF ConditionMisplaced, NeedsOperand, Awaiting, Fail
<1>2. /\ Reading(toks, D) /\ j \in 0..Len(toks) - 1 /\ toks[j + 1] = Peek /\ f.fn = Top.fn
      /\ (f.kids = <<>> <=> Top.kids = <<>>) /\ ~IsOperand(x)
  BY <1>1, Waiting
<1>3. ASSUME Peek \in Left(Now, Len(stack) - 1), NEW m \in 0..Len(toks) - 1, toks[m + 1] \notin Left(Now, Len(stack) - 1)
      PROVE  m # j
  BY <1>3, NotYet
<1> HIDE DEF D, f, x, j
<1>4. \A m \in 0..Len(toks) - 1 : toks[m + 1] \notin Left(Now, Len(stack) - 1) => \A y : ~Via(toks, D, f, x, j, y, m)
  <2>1. CASE Top.fn = "Branch"
    BY <1>2, <2>1, ItemIsOperand
  <2>2. CASE Top.fn = "Comparison" /\ Top.kids # <<>>
    BY <1>2, <2>2, RightIsOperand
  <2>3. CASE Top.fn = "Comparison" /\ Peek \in ComparisonOps
    <3>1. Peek \in Left(Now, Len(stack) - 1)
      BY <1>1, <2>3, Onward
    <3>2. \A m : m # j => \A y : ~Via(toks, D, f, x, j, y, m)
      BY <1>2, <2>3, SideIsOperand
    <3> QED BY <1>3, <3>1, <3>2
  <2>4. CASE Top.fn = "Additive" /\ Top.kids # <<>>
    BY <1>2, <2>4, TermIsOperand
  <2>5. CASE Top.fn = "Additive" /\ Top.kids = <<>> /\ Peek = "Plus"
    <3>1. Peek \in Left(Now, Len(stack) - 1)
      BY <1>1, <2>5, Onward
    <3>2. NoTermBehind(toks, x, j) /\ f.fn = "Additive" /\ f.kids = <<>>
      BY <1>2, <2>5 DEF NoTermBehind
    <3>3. \A m \in 0..Len(toks) - 1 : \A y : Via(toks, D, f, x, j, y, m) <=> m = j /\ y = x
      BY <1>2, <3>2, SumEnds
    <3> QED BY <1>3, <3>1, <3>3
  <2> QED BY <1>1, <2>1, <2>2, <2>3, <2>4, <2>5
<1> QED BY <1>1, <1>4, GivingUp DEF D, f, x, j

(* parseToAST's last look.                                                     *)
LEMMA FinishEnds ==
  ASSUME Steady, Finish, NEW T
  PROVE  Ends(T) <=> Ends(T)'
<1> DEFINE D == TableOf(toks)
           x == Roots(nodes)[ret]
           j == pos - 1
<1>1. /\ ctl = "Return" /\ stack = <<>> /\ UNCHANGED <<toks, pos, stack, ret, cond, nodes>>
      /\ ctl' = IF Peek = "EOF" THEN "Accepted" ELSE "Failed"
  BY DEF Finish
<1>2. /\ Reading(toks, D) /\ j \in 0..Len(toks) - 1 /\ toks[j + 1] = Peek /\ pos \in 1..Len(toks) /\ StreamFits(toks)
      /\ Len(toks) \in Nat
  BY StateFacts DEF Peek, Steady, Inv
<1>3. Peek = "EOF" <=> j = Len(toks) - 1
  BY <1>2 DEF StreamFits, Peek
<1>4. Ends(T) <=> Outer(toks, D, Now, 0, x, j, T)
  <2>1. Len(stack) = 0
    BY <1>1
  <2> QED BY <1>1, <2>1, EndsAre
<1> HIDE DEF D, x, j
<1>5. Outer(toks, D, Now, 0, x, j, T) <=> x = T /\ j = Len(toks) - 1
  BY <1>2, OuterEnd
<1>6. Roots(nodes')[ret'] = x
  BY <1>1 DEF x
<1> QED BY <1>1, <1>3, <1>4, <1>5, <1>6, EndsWill

-----------------------------------------------------------------------------
(* The list of branches takes every comma, so whoever waited for it finds none.*)
LEMMA OnlyBranches ==
  ASSUME NEW fn \in FrameFns, "Branch" \in Runs(fn)
  PROVE  fn = "Branch"
BY DEF FrameFns, Delegates, Runs

LEMMA CommasTakenPop ==
  ASSUME Steady, stack # <<>>, Pop, toks' = toks,
         Top.fn # "Branch" \/ (pos' = pos /\ Peek # "Comma")
  PROVE  CommasTaken'
<1>1. stack' = Front(stack) /\ StackOK(Len(toks), nodes, stack) /\ Top.fn \in FrameFns
  BY TopFrame DEF Steady, Inv, Pop
<1>2. stack' # <<>> => Waits(stack'[Len(stack')].fn) \in Runs(Top.fn)
  BY <1>1, PopFrame DEF Top
<1>3. CASE Top.fn # "Branch"
  <2>1. "Branch" \notin Runs(Top.fn)
    BY <1>1, <1>3, OnlyBranches
  <2> QED BY <1>2, <2>1 DEF CommasTaken, Top
<1>4. CASE pos' = pos /\ Peek # "Comma"
  BY <1>4 DEF CommasTaken, Peek
<1> QED BY <1>3, <1>4

LEMMA CommasTakenKept ==
  ASSUME Steady, Steady', toks' = toks, CommasTaken, [Next]_vars
  PROVE  CommasTaken'
<1>1. CASE ctl' # "Return"
  BY <1>1 DEF CommasTaken
<1>2. CASE UNCHANGED vars
  BY <1>2 DEF CommasTaken, Peek, Top, vars
<1>3. CASE Literal
  <2>1. stack' = stack /\ ctl = "Atom"
    BY <1>3 DEF Literal
  <2>2. stack # <<>> /\ Waits(Top.fn) # "Branch"
    BY <2>1 DEF Steady, Inv, ControlOK, Running, Delegates, Top
  <2> QED BY <2>1, <2>2 DEF CommasTaken, Top
<1>4. CASE TermDone
  <2>1. stack' = Retopped(stack, Frame("Additive", <<>>, Top.at)) /\ stack # <<>>
    BY <1>4 DEF TermDone, Replace, Retopped, Awaiting
  <2>2. Len(stack) \in Nat \ {0} /\ stack \in Seq(FrameType(Len(toks)))
    BY <2>1, StateFacts
  <2>3. Len(stack') = Len(stack) /\ stack'[Len(stack)] = Frame("Additive", <<>>, Top.at)
    BY <2>1, <2>2 DEF Retopped
  <2>4. Waits(stack'[Len(stack')].fn) = "Atom"
    BY <2>3, FrameIs DEF Waits, Callee
  <2> QED BY <2>4 DEF CommasTaken, Top
<1>5. CASE EndPath
  <2>1. Pop /\ stack # <<>> /\ Top.fn = "Path"
    BY <1>5, PathNow DEF EndPath
  <2> QED BY <2>1, CommasTakenPop
<1>6. CASE BranchDone
  <2>1. Pop /\ stack # <<>> /\ pos' = pos /\ Peek # "Comma"
    BY <1>6 DEF BranchDone, Awaiting
  <2> QED BY <2>1, CommasTakenPop
<1>7. CASE \/ ExprDone /\ Peek # "Question"
           \/ \E fn \in {"Or", "And"} : ChainDone(fn)
           \/ FalseBranchDone \/ NotDone \/ RightDone \/ NoComparison \/ NoTerm
           \/ CloseParen \/ CloseArray \/ CloseClassCall \/ CloseMemberOf
  <2>1. stack # <<>> /\ Pop /\ Top.fn # "Branch"
    BY <1>7 DEF ExprDone, ChainDone, FalseBranchDone, NotDone, RightDone, NoComparison, NoTerm,
             CloseParen, CloseArray, CloseClassCall, CloseMemberOf, CloseCall, Awaiting
  <2> QED BY <2>1, CommasTakenPop
<1>8. CASE Next /\ ~(\/ Literal \/ TermDone \/ EndPath \/ BranchDone
                     \/ ExprDone /\ Peek # "Question"
                     \/ \E fn \in {"Or", "And"} : ChainDone(fn)
                     \/ FalseBranchDone \/ NotDone \/ RightDone \/ NoComparison \/ NoTerm
                     \/ CloseParen \/ CloseArray \/ CloseClassCall \/ CloseMemberOf \/ Done)
  <2>1. CASE Descend
    BY <2>1, <1>1 DEF Descend, Start, Callee, Delegates
  <2>2. CASE Negation
    BY <2>2, <1>1 DEF Negation, Start
  <2>3. CASE Parenthesis \/ OpenArray \/ OpenClassCall \/ OpenMemberOf \/ StartPath \/ MemberOfHop \/ HopDone
    BY <2>3, <1>1 DEF Parenthesis, OpenArray, OpenClassCall, OpenMemberOf, StartPath, MemberOfHop, HopDone, Start
  <2>4. CASE BadAtom \/ BadHop \/ MissingCloser \/ ConditionMisplaced \/ Finish
    BY <2>4, <1>1 DEF BadAtom, BadHop, MissingCloser, ConditionMisplaced, Finish, Fail
  <2>5. CASE NameHop
    BY <2>5, <1>1 DEF NameHop
  <2>6. CASE \/ ExprDone /\ Peek = "Question"
             \/ TrueBranchDone \/ BranchItemDone \/ LeftDone \/ NextTerm
             \/ \E fn \in {"Or", "And"} : ChainOperandDone(fn)
    BY <2>6, <1>1 DEF ExprDone, TrueBranchDone, BranchItemDone, LeftDone, NextTerm, ChainOperandDone, Start, Callee
  <2> QED BY <1>8, <2>1, <2>2, <2>3, <2>4, <2>5, <2>6 DEF Next
<1> QED BY <1>2, <1>3, <1>4, <1>5, <1>6, <1>7, <1>8 DEF Done

-----------------------------------------------------------------------------
(* Every step leaves the trees a parse may still end with as they were.        *)
Strong == Steady /\ Held /\ CommasTaken

LEMMA StrongKept == Strong /\ [Next]_vars => Strong'
<1> SUFFICES ASSUME Strong, [Next]_vars PROVE Strong'
  OBVIOUS
<1>1. Steady' /\ Held' /\ toks' = toks
  BY NextInv, OrderKept, NextHeld, StreamKept DEF Strong, Steady
<1> QED BY <1>1, CommasTakenKept DEF Strong

LEMMA EndsKept ==
  ASSUME Strong, [Next]_vars, NEW T
  PROVE  Ends(T) <=> Ends(T)'
<1>1. Steady /\ Steady' /\ Held /\ CommasTaken /\ toks' = toks
  BY StrongKept, StreamKept DEF Strong
<1>2. CASE UNCHANGED vars
  BY <1>2 DEF Ends, Now, vars
<1>3. CASE Descend \/ Negation \/ Literal \/ Parenthesis \/ OpenArray \/ OpenClassCall \/ OpenMemberOf
           \/ StartPath \/ BadAtom \/ NameHop \/ MemberOfHop \/ EndPath \/ BadHop \/ HopDone
  BY <1>1, <1>3, DescendEnds, NegationEnds, LiteralEnds, OpeningEnds, StartPathEnds, BadAtomEnds,
     NameHopEnds, MemberOfHopEnds, EndPathEnds, BadHopEnds, HopDoneEnds
<1>4. CASE ExprDone
  BY <1>1, <1>4, ExprGoesOn, ExprReturns
<1>5. CASE TrueBranchDone \/ FalseBranchDone \/ NotDone \/ LeftDone \/ RightDone \/ NoComparison
           \/ NextTerm \/ TermDone \/ NoTerm
  BY <1>1, <1>5, TrueBranchDoneEnds, FalseBranchDoneEnds, NotDoneEnds, LeftDoneEnds, RightDoneEnds,
     NoComparisonEnds, NextTermEnds, TermDoneEnds, NoTermEnds
<1>6. CASE BranchItemDone \/ \E fn \in {"Or", "And"} : ChainOperandDone(fn)
  <2>1. PICK fn \in {"Branch", "Or", "And"} :
          (fn = "Branch" /\ BranchItemDone) \/ (fn # "Branch" /\ ChainOperandDone(fn))
    BY <1>6
  <2> QED BY <1>1, <2>1, ChainOnEnds
<1>7. CASE BranchDone \/ \E fn \in {"Or", "And"} : ChainDone(fn)
  <2>1. PICK fn \in {"Branch", "Or", "And"} :
          (fn = "Branch" /\ BranchDone) \/ (fn # "Branch" /\ ChainDone(fn))
    BY <1>7
  <2> QED BY <1>1, <2>1, ChainDoneEnds
<1>8. CASE CloseParen \/ CloseArray \/ CloseClassCall \/ CloseMemberOf
  BY <1>1, <1>8, CloseParenEnds, CloseArrayEnds, CloseCallEnds
<1>9. CASE MissingCloser \/ ConditionMisplaced \/ Finish
  BY <1>1, <1>9, MissingCloserEnds, ConditionMisplacedEnds, FinishEnds
<1> QED BY <1>2, <1>3, <1>4, <1>5, <1>6, <1>7, <1>8, <1>9 DEF Next, Done

(* They are the grammar's: all the grammar derives when the parser starts, and *)
(* the one tree it has built, or none, when it stops.                          *)
Complete == \A T : T \in Derivations(toks) <=> Ends(T)

LEMMA EntersComplete == Entered => Strong /\ Complete
<1> SUFFICES ASSUME Entered PROVE Strong /\ Complete
  OBVIOUS
<1>1. nodes = <<>> /\ stack = <<>> /\ ctl = "Expr" /\ pos = 1 /\ Len(nodes) = 0 /\ Len(stack) = 0
  BY EmptySeq DEF Entered
<1>2. Strong
  BY <1>1, EnteredInv, EmptySeq DEF Strong, Steady, KidsBefore, Held, Forest, RisingStack, CommasTaken
<1> DEFINE D == TableOf(toks)
<1>3. Reading(toks, D) /\ Len(toks) \in Nat \ {0}
  BY <1>2, StateFacts DEF Strong
<1>4. Derivations(toks) = D[<<"Expr", 1, Len(toks) - 1>>]
  BY DEF Derivations, TableOf, Numbers
<1>5. \A T : Ends(T) <=> Started(toks, D, Now, 0, "Expr", 1, T)
  BY <1>1, EndsAre DEF Starters, Delegates
<1> HIDE DEF D
<1>6. \A x, j, T : Outer(toks, D, Now, 0, x, j, T) <=> x = T /\ j = Len(toks) - 1
  BY <1>3, OuterEnd
<1>7. Len(toks) - 1 \in 0..Len(toks) - 1
  BY <1>3
<1>8. \A T : Started(toks, D, Now, 0, "Expr", 1, T) <=> T \in D[<<"Expr", 1, Len(toks) - 1>>]
  <2> TAKE T
  <2>1. ASSUME Started(toks, D, Now, 0, "Expr", 1, T) PROVE T \in D[<<"Expr", 1, Len(toks) - 1>>]
    <3>1. PICK j \in 0..Len(toks) - 1 : \E x \in D[<<"Expr", 1, j>>] : Outer(toks, D, Now, 0, x, j, T)
      BY <2>1 DEF Started
    <3> QED BY <1>6, <3>1
  <2>2. ASSUME T \in D[<<"Expr", 1, Len(toks) - 1>>] PROVE Started(toks, D, Now, 0, "Expr", 1, T)
    <3>1. Outer(toks, D, Now, 0, T, Len(toks) - 1, T)
      BY <1>6
    <3> QED BY <1>7, <2>2, <3>1 DEF Started
  <2> QED BY <2>1, <2>2
<1> QED BY <1>2, <1>4, <1>5, <1>8 DEF Complete

LEMMA CompleteKept == Strong /\ Complete /\ [Next]_vars => Complete'
<1> SUFFICES ASSUME Strong, Complete, [Next]_vars PROVE Complete'
  OBVIOUS
<1>1. toks' = toks
  BY StreamKept
<1>2. \A T : Ends(T) <=> Ends(T)'
  BY EndsKept
<1> QED BY <1>1, <1>2 DEF Complete

LEMMA CompleteMeans == Complete => MatchesGrammar
<1> SUFFICES ASSUME Complete PROVE MatchesGrammar
  OBVIOUS
<1>1. ASSUME ctl = "Accepted" PROVE Derivations(toks) = {Unfolded(nodes, Itself)[ret]}
  <2>1. \A T : T \in Derivations(toks) <=> T = Roots(nodes)[ret]
    BY <1>1, EndsAre DEF Complete
  <2> QED BY <2>1 DEF Roots
<1>2. ASSUME ctl = "Failed" PROVE Derivations(toks) = {}
  BY <1>2, EndsAre DEF Complete
<1> QED BY <1>1, <1>2 DEF MatchesGrammar

(* parseToAST is the reference grammar, for every set of token streams: it     *)
(* accepts a stream only with the one tree the grammar derives from it, and    *)
(* returns an error only where the grammar derives nothing.  So what the       *)
(* parser's look-ahead, its greed and its late operand checks decide is what   *)
(* the grammar says, and on every accepted stream the grammar is unambiguous.  *)
THEOREM AlwaysMatchesGrammar == Spec => []MatchesGrammar
<1>1. Init => Strong /\ Complete
  BY EntersComplete, StreamsAssumption DEF Init, Entered
<1> QED
  BY <1>1, StrongKept, CompleteKept, CompleteMeans, PTL DEF Spec
=============================================================================
