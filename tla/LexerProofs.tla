----------------------------- MODULE LexerProofs -----------------------------
(* Tiling and EofLast for every input and every keyword table.  The tokens     *)
(* only change when one is emitted at i, so one lemma about Emit carries the   *)
(* argument; the loops contribute that the emitted text is not empty.  Then    *)
(* that tokenize scans by longest match: each step is one of LongestMatch or   *)
(* none.  Last, that the text of a literal is written as a literal again.      *)
EXTENDS Lexer, SequenceLemmas

(* Lengths and lookups.                                                        *)
LEMMA Facts ==
  ASSUME IInv
  PROVE  /\ n \in Nat /\ i \in Nat /\ j \in Nat
         /\ toks \in Seq(TokenType) /\ Len(toks) \in Nat
         /\ \A k \in 1..Len(toks) : toks[k] \in TokenType /\ toks[k].from \in Nat /\ toks[k].to \in Nat
  <1>1. input \in Seq(STRING)
    BY InputsAssumption DEF IInv, TypeOK
  <1>2. n \in Nat
    BY <1>1, LenProperties DEF n
  <1>3. toks \in Seq(TokenType) /\ Len(toks) \in Nat
    BY LenProperties DEF IInv, TypeOK
  <1>4. \A k \in 1..Len(toks) : toks[k] \in TokenType
    BY <1>3, ElementOfSeq
  <1> QED
    BY <1>2, <1>3, <1>4 DEF IInv, TypeOK, TokenType

(* Appending a token that starts at i and ends before the new i keeps the      *)
(* tokens ordered and typed.                                                   *)
LEMMA AppendToken ==
  ASSUME IInv, NEW t \in TokenType, t.from = i, t.to < i', toks' = Append(toks, t),
         t.typ # "EOF" => t.from <= t.to, i' \in Nat, i <= i'
  PROVE  /\ toks' \in Seq(TokenType)
         /\ Len(toks') = Len(toks) + 1
         /\ toks'[Len(toks) + 1] = t
         /\ \A k \in 1..Len(toks) : toks'[k] = toks[k]
         /\ Ordered'
  <1>1. /\ toks' \in Seq(TokenType)
        /\ Len(toks') = Len(toks) + 1
        /\ toks'[Len(toks) + 1] = t
        /\ \A k \in 1..Len(toks) : toks'[k] = toks[k]
    BY Facts, AppendProperties
  <1>2. i \in Nat /\ i >= 1 /\ Len(toks) \in Nat /\ Ordered
    BY Facts DEF IInv, Tiling, TypeOK
  <1>3. SUFFICES ASSUME NEW k \in 1..Len(toks')
                 PROVE  /\ toks'[k].typ # "EOF" => toks'[k].from <= toks'[k].to
                        /\ \A l \in 1..k - 1 : toks'[l].to < toks'[k].from
                        /\ toks'[k].from >= 1 /\ toks'[k].to < i'
    BY <1>1 DEF Ordered
  <1>4. CASE k = Len(toks) + 1
    BY <1>1, <1>2, <1>4 DEF Ordered
  <1>5. CASE k # Len(toks) + 1
    <2>1. k \in 1..Len(toks)
      BY <1>1, <1>2, <1>5
    <2>2. toks'[k] = toks[k] /\ \A l \in 1..k - 1 : toks'[l] = toks[l]
      BY <1>1, <1>2, <2>1
    <2>3. toks[k].to \in Nat /\ toks[k].to < i
      BY <1>2, <2>1, Facts DEF Ordered
    <2> QED
      BY <1>2, <2>1, <2>2, <2>3 DEF Ordered
  <1> QED
    BY <1>4, <1>5

(* A token for the text from i up to to: all of it is accounted for.           *)
LEMMA EmitKeeps ==
  ASSUME IInv, NEW typ \in TokenTypes \ {"EOF"}, NEW to \in i..n, Emit(typ, to),
         mode \notin {"done", "error"}
  PROVE  IInv'
  <1> DEFINE t == Token(typ, i, to)
  <1>1. toks' = Append(toks, t) /\ i' = to + 1 /\ mode' = "scan" /\ UNCHANGED <<input, j>>
    BY DEF Emit
  <1>2. /\ n \in Nat /\ i \in Nat /\ i >= 1 /\ to \in Nat /\ i <= to /\ to <= n
        /\ Len(toks) \in Nat
    BY Facts DEF IInv, TypeOK
  <1>3. t \in TokenType /\ t.from = i /\ t.to = to /\ t.typ = typ
    BY <1>2 DEF Token, TokenType
  <1> HIDE DEF t
  <1>4. i' \in Nat /\ i <= i' /\ t.to < i' /\ t.from <= t.to
    BY <1>1, <1>2, <1>3
  <1>5. /\ toks' \in Seq(TokenType)
        /\ Len(toks') = Len(toks) + 1
        /\ toks'[Len(toks) + 1] = t
        /\ \A k \in 1..Len(toks) : toks'[k] = toks[k]
        /\ Ordered'
    BY <1>1, <1>3, <1>4, AppendToken
  <1>6. NothingSkipped'
    <2> SUFFICES ASSUME NEW p \in 1..i' - 1
                 PROVE  input[p] \in Spaces \/ \E k \in 1..Len(toks') : p \in toks'[k].from..toks'[k].to
      BY <1>1 DEF NothingSkipped
    <2>1. CASE p < i
      <3>1. p \in 1..i - 1
        BY <1>2, <1>4, <2>1
      <3>2. input[p] \in Spaces \/ \E k \in 1..Len(toks) : p \in toks[k].from..toks[k].to
        BY <3>1 DEF IInv, Tiling, NothingSkipped
      <3> QED
        BY <1>2, <1>5, <3>2
    <2>2. CASE p >= i
      <3>1. p \in t.from..t.to
        BY <1>1, <1>2, <1>3, <2>2
      <3>2. Len(toks) + 1 \in 1..Len(toks')
        BY <1>2, <1>5
      <3> QED
        BY <1>5, <3>1, <3>2
    <2> QED
      BY <1>2, <1>4, <2>1, <2>2
  <1>7. EofLast'
    <2> SUFFICES ASSUME NEW k \in 1..Len(toks') PROVE toks'[k].typ # "EOF"
      BY <1>1 DEF EofLast
    <2>1. \A l \in 1..Len(toks) : toks[l].typ # "EOF"
      BY DEF IInv, EofLast
    <2> QED
      BY <1>2, <1>3, <1>5, <2>1
  <1>8. TypeOK'
    BY <1>1, <1>2, <1>5 DEF IInv, TypeOK, n
  <1>9. InLoop'
    BY <1>1 DEF InLoop
  <1> QED
    BY <1>5, <1>6, <1>7, <1>8, <1>9 DEF IInv, Tiling

(* Steps that leave the tokens alone and keep what lies before i accounted for.*)
LEMMA QuietKeeps ==
  ASSUME IInv, UNCHANGED <<input, i, toks>>, mode' # "done", mode # "done", TypeOK', InLoop'
  PROVE  IInv'
  BY DEF IInv, Tiling, Ordered, NothingSkipped, EofLast

(* White space is what NothingSkipped allows to pass over.                     *)
LEMMA SkipKeeps == ASSUME IInv, SkipSpace PROVE IInv'
  <1>1. /\ mode = "scan" /\ i <= n /\ input[i] \in Spaces /\ i' = i + 1
        /\ UNCHANGED <<input, j, mode, toks>>
    BY DEF SkipSpace, Scanning
  <1>2. n \in Nat /\ i \in Nat /\ i >= 1
    BY Facts DEF IInv, TypeOK
  <1>3. TypeOK' /\ InLoop'
    BY <1>1, <1>2 DEF IInv, TypeOK, InLoop, n
  <1>4. Ordered'
    <2> SUFFICES ASSUME NEW k \in 1..Len(toks)
                 PROVE  /\ toks[k].typ # "EOF" => toks[k].from <= toks[k].to
                        /\ \A l \in 1..k - 1 : toks[l].to < toks[k].from
                        /\ toks[k].from >= 1 /\ toks[k].to < i'
      BY <1>1 DEF Ordered
    <2>1. toks[k].to \in Nat /\ toks[k].to < i
      BY Facts DEF IInv, Tiling, Ordered
    <2> QED
      BY <1>1, <1>2, <2>1 DEF IInv, Tiling, Ordered
  <1>5. NothingSkipped'
    <2> SUFFICES ASSUME NEW p \in 1..i' - 1
                 PROVE  input[p] \in Spaces \/ \E k \in 1..Len(toks) : p \in toks[k].from..toks[k].to
      BY <1>1 DEF NothingSkipped
    <2>1. p = i \/ p \in 1..i - 1
      BY <1>1, <1>2
    <2> QED
      BY <1>1, <2>1 DEF IInv, Tiling, NothingSkipped
  <1>6. EofLast'
    BY <1>1 DEF IInv, EofLast
  <1> QED
    BY <1>3, <1>4, <1>5, <1>6 DEF IInv, Tiling

(* The EOF token is empty and behind everything else.                          *)
LEMMA EndKeeps == ASSUME IInv, End PROVE IInv'
  <1> DEFINE t == Token("EOF", n + 1, n)
  <1>1. /\ mode = "scan" /\ i = n + 1 /\ toks' = Append(toks, t) /\ mode' = "done"
        /\ UNCHANGED <<input, i, j>>
    BY DEF End
  <1>2. n \in Nat /\ i \in Nat /\ i >= 1 /\ Len(toks) \in Nat
    BY Facts DEF IInv, TypeOK
  <1>3. t \in TokenType /\ t.from = i /\ t.to = n /\ t.typ = "EOF"
    BY <1>1, <1>2 DEF Token, TokenType, TokenTypes
  <1> HIDE DEF t
  <1>4. i' \in Nat /\ i <= i' /\ t.to < i'
    BY <1>1, <1>2, <1>3
  <1>5. /\ toks' \in Seq(TokenType)
        /\ Len(toks') = Len(toks) + 1
        /\ toks'[Len(toks) + 1] = t
        /\ \A k \in 1..Len(toks) : toks'[k] = toks[k]
        /\ Ordered'
    BY <1>1, <1>3, <1>4, AppendToken
  <1>6. NothingSkipped'
    <2> SUFFICES ASSUME NEW p \in 1..i - 1
                 PROVE  input[p] \in Spaces \/ \E k \in 1..Len(toks') : p \in toks'[k].from..toks'[k].to
      BY <1>1 DEF NothingSkipped
    <2>1. input[p] \in Spaces \/ \E k \in 1..Len(toks) : p \in toks[k].from..toks[k].to
      BY DEF IInv, Tiling, NothingSkipped
    <2> QED
      BY <1>2, <1>5, <2>1
  <1>7. EofLast'
    <2>0. toks' # <<>>
      BY <1>2, <1>5, EmptySeq
    <2> SUFFICES ASSUME NEW k \in 1..Len(toks') PROVE toks'[k].typ = "EOF" <=> k = Len(toks')
      BY <1>1, <2>0 DEF EofLast
    <2>1. \A l \in 1..Len(toks) : toks[l].typ # "EOF"
      BY <1>1 DEF IInv, EofLast
    <2> QED
      BY <1>2, <1>3, <1>5, <2>1
  <1>8. TypeOK' /\ InLoop'
    BY <1>1, <1>2, <1>5 DEF IInv, TypeOK, InLoop, n
  <1> QED
    BY <1>5, <1>6, <1>7, <1>8 DEF IInv, Tiling

-----------------------------------------------------------------------------
(* The invariant holds when tokenize is entered.                               *)
LEMMA InitInv == Init => IInv
  <1> SUFFICES ASSUME Init PROVE IInv
    OBVIOUS
  <1>1. input \in Inputs /\ i = 1 /\ j = 1 /\ mode = "scan" /\ toks = <<>>
    BY DEF Init
  <1>2. n \in Nat
    BY <1>1, InputsAssumption, LenProperties DEF n
  <1>3. toks \in Seq(TokenType) /\ Len(toks) = 0
    BY <1>1, EmptySeq
  <1>4. TypeOK /\ InLoop
    BY <1>1, <1>2, <1>3 DEF TypeOK, InLoop
  <1>5. Tiling /\ EofLast
    BY <1>1, <1>3 DEF Tiling, Ordered, NothingSkipped, EofLast
  <1> QED
    BY <1>4, <1>5 DEF IInv

(* ... and every step preserves it.                                            *)
LEMMA NextInv == IInv /\ [Next]_vars => IInv'
  <1> SUFFICES ASSUME IInv, [Next]_vars PROVE IInv'
    OBVIOUS
  <1>0. n \in Nat /\ i \in Nat /\ j \in Nat /\ i >= 1 /\ i <= n + 1 /\ j <= n + 1 /\ j >= 1 /\ TypeOK /\ InLoop
    BY Facts DEF IInv, TypeOK
  <1>1. CASE SkipSpace
    BY <1>1, SkipKeeps
  <1>2. CASE Punctuate
    <2>1. PunctuationType(input[i]) \in TokenTypes \ {"EOF"}
      <3>1. ASSUME NEW c \in Punctuation PROVE PunctuationType(c) \in TokenTypes \ {"EOF"}
        BY DEF Punctuation, PunctuationType, TokenTypes
      <3> QED
        BY <1>2, <3>1 DEF Punctuate
    <2>2. i \in i..n
      BY <1>0, <1>2 DEF Punctuate, Scanning
    <2> QED
      BY <1>2, <2>1, <2>2, EmitKeeps DEF Punctuate, Scanning
  <1>3. CASE LongOperator
    <2>1. LongType(input[i]) \in TokenTypes \ {"EOF"} /\ i + 1 \in i..n
      BY <1>0, <1>3 DEF LongOperator, FollowedBy, Operators, LongType, TokenTypes, ComparisonOps
    <2> QED
      BY <1>3, <2>1, EmitKeeps DEF LongOperator, Scanning
  <1>4. CASE ShortOperator
    <2>1. ShortType(input[i]) \in TokenTypes \ {"EOF"} /\ i \in i..n
      BY <1>0, <1>4 DEF ShortOperator, Scanning, ShortOperators, ShortType, TokenTypes, ComparisonOps
    <2> QED
      BY <1>4, <2>1, EmitKeeps DEF ShortOperator, Scanning
  <1>5. CASE CloseString
    <2>1. "String" \in TokenTypes \ {"EOF"} /\ j \in i..n
      BY <1>0, <1>5 DEF CloseString, InLoop, TokenTypes, LiteralTokens
    <2> QED
      BY <1>5, <2>1, EmitKeeps DEF CloseString
  <1>6. CASE EndInt
    <2>1. j # i
      BY <1>0, <1>6 DEF EndInt, AtDigit, InLoop
    <2>2. "Int" \in TokenTypes \ {"EOF"} /\ j - 1 \in i..n
      BY <1>0, <1>6, <2>1 DEF EndInt, InLoop, TokenTypes, LiteralTokens
    <2> QED
      BY <1>6, <2>2, EmitKeeps DEF EndInt
  <1>7. CASE EndFloat
    <2>1. "Float" \in TokenTypes \ {"EOF"} /\ j - 1 \in i..n
      BY <1>0, <1>7 DEF EndFloat, InLoop, TokenTypes, LiteralTokens
    <2> QED
      BY <1>7, <2>1, EmitKeeps DEF EndFloat
  <1>8. CASE EndName
    <2>1. j # i
      BY <1>0, <1>8 DEF EndName, InLoop, NameContinue
    <2>2. j - 1 \in i..n
      BY <1>0, <1>8, <2>1 DEF EndName, InLoop
    <2>3. WordType(SubSeq(input, i, j - 1)) \in TokenTypes \ {"EOF"}
      BY KeywordsAssumption DEF WordType, TokenTypes
    <2> QED
      BY <1>8, <2>2, <2>3, EmitKeeps DEF EndName
  <1>9. CASE End
    BY <1>9, EndKeeps
  <1>10. CASE BadCharacter \/ UnterminatedString
    <2>1. UNCHANGED <<input, i, j, toks>> /\ mode' = "error" /\ mode # "done"
      BY <1>10 DEF BadCharacter, UnterminatedString, Refuse, Scanning
    <2>2. TypeOK' /\ InLoop'
      BY <1>0, <2>1 DEF TypeOK, InLoop, n
    <2> QED
      BY <2>1, <2>2, QuietKeeps
  <1>11. CASE OpenString \/ StartNumber \/ StartName
    <2>1. /\ UNCHANGED <<input, i, toks>> /\ mode = "scan" /\ i <= n
          /\ \/ mode' = "string" /\ j' = i + 1
             \/ mode' = "int" /\ j' = i /\ input[i] \in Digits
             \/ mode' = "name" /\ j' = i /\ input[i] \in NameStart
      BY <1>11 DEF OpenString, StartNumber, StartName, Enter, Scanning
    <2>2. TypeOK' /\ InLoop'
      BY <1>0, <2>1 DEF TypeOK, InLoop, n
    <2> QED
      BY <2>1, <2>2, QuietKeeps
  <1>12. CASE StringCharacter \/ Digit \/ DecimalPoint \/ NameCharacter
    <2>1. /\ UNCHANGED <<input, i, toks>> /\ mode \in {"string", "int", "fraction", "name"}
          /\ j' \in {j + 1, j + 2} /\ j' <= n + 1
          /\ mode' = mode \/ (mode = "int" /\ mode' = "fraction")
      BY <1>0, <1>12
         DEF StringCharacter, InString, Digit, DecimalPoint, AtPoint, AtDigit, NameCharacter, Enter, Move
    <2>2. TypeOK' /\ InLoop'
      BY <1>0, <2>1 DEF TypeOK, InLoop, n
    <2> QED
      BY <2>1, <2>2, QuietKeeps
  <1>13. CASE Returned \/ UNCHANGED vars
    BY <1>13 DEF Returned, vars, IInv, TypeOK, n, Tiling, Ordered, NothingSkipped, EofLast, InLoop
  <1> QED
    BY <1>1, <1>2, <1>3, <1>4, <1>5, <1>6, <1>7, <1>8, <1>9, <1>10, <1>11, <1>12, <1>13 DEF Next

(* Whatever the expression and the keyword table, the inductive invariant of   *)
(* tokenize holds in every reachable state.                                    *)
THEOREM Invariance == Spec => []IInv
  BY InitInv, NextInv, PTL DEF Spec

LEMMA SameInput == [Next]_vars => input' = input
  BY DEF Next, vars, SkipSpace, Punctuate, LongOperator, ShortOperator, BadCharacter, OpenString,
     StringCharacter, CloseString, UnterminatedString, StartNumber, Digit, DecimalPoint, EndInt, EndFloat,
     StartName, NameCharacter, EndName, End, Returned, Emit, Refuse, Enter, Move

LEMMA ScanPays ==
  ASSUME NEW m \in Int, NEW a \in Int, NEW b \in Int, a < b, b <= m + 1
  PROVE  3 * (m + 1 - b) + 1 \in 0..(3 * (m + 1 - a) + 1) - 1
  OBVIOUS

LEMMA EnterPays ==
  ASSUME NEW m \in Int, NEW a \in Int, NEW b \in Int, a <= b, b <= m + 1
  PROVE  2 * (m + 1 - a) + (m + 1 - b) \in 0..(3 * (m + 1 - a) + 1) - 1
  OBVIOUS

LEMMA LoopPays ==
  ASSUME NEW m \in Int, NEW a \in Int, NEW b \in Int, NEW c \in Int, a <= m, b < c, c <= m + 1
  PROVE  2 * (m + 1 - a) + (m + 1 - c) \in 0..(2 * (m + 1 - a) + (m + 1 - b)) - 1
  OBVIOUS

LEMMA LeavePays ==
  ASSUME NEW m \in Int, NEW a \in Int, NEW b \in Int, NEW c \in Int, a < c, b <= c, c <= m + 1
  PROVE  3 * (m + 1 - c) + 1 \in 0..(2 * (m + 1 - a) + (m + 1 - b)) - 1
  OBVIOUS

(* What is still to be scanned shrinks with every step but the last: a loop is *)
(* entered at i, and by its end has taken a character.                         *)
LEMMA WorkFalls ==
  ASSUME IInv, Next, ~Returned
  PROVE  Work' \in 0..Work - 1
  <1>0. /\ n \in Nat /\ i \in Nat /\ j \in Nat /\ i >= 1 /\ i <= n + 1 /\ j <= n + 1 /\ j >= 1
        /\ TypeOK /\ InLoop /\ InLoop' /\ i' \in Nat /\ j' \in Nat /\ i' <= n + 1 /\ j' <= n + 1
        /\ n' = n /\ n \in Int /\ i \in Int /\ j \in Int /\ i' \in Int /\ j' \in Int
    <2>1. IInv' /\ input' = input
      BY NextInv, SameInput
    <2> QED
      BY <2>1, Facts DEF IInv, TypeOK, n
  <1>1. ASSUME mode = "scan", i <= n, i' > i, mode' = "scan"
        PROVE  Work' \in 0..Work - 1
    <2>1. Work = 3 * (n + 1 - i) + 1 /\ Work' = 3 * (n + 1 - i') + 1
      BY <1>0, <1>1 DEF Work
    <2> QED
      BY <1>0, <1>1, <2>1, ScanPays
  <1>2. ASSUME mode \in {"string", "int", "fraction", "name"}, i' > i, i' >= j, mode' = "scan"
        PROVE  Work' \in 0..Work - 1
    <2>1. Work = 2 * (n + 1 - i) + (n + 1 - j) /\ Work' = 3 * (n + 1 - i') + 1
      BY <1>0, <1>2 DEF Work
    <2> QED
      BY <1>0, <1>2, <2>1, LeavePays
  <1>3. CASE SkipSpace \/ Punctuate \/ LongOperator \/ ShortOperator
    <2>1. mode = "scan" /\ i <= n /\ i' > i /\ mode' = "scan"
      BY <1>0, <1>3 DEF SkipSpace, Punctuate, LongOperator, ShortOperator, Scanning, Emit
    <2> QED
      BY <1>1, <2>1
  <1>4. CASE CloseString \/ EndInt \/ EndFloat \/ EndName
    <2>1. /\ mode \in {"string", "int", "fraction", "name"} /\ mode' = "scan"
          /\ i' \in {j, j + 1} /\ j >= i
      BY <1>0, <1>4 DEF CloseString, EndInt, EndFloat, EndName, Emit, InLoop
    <2>2. i' > i
      BY <1>0, <1>4, <2>1 DEF CloseString, EndInt, EndFloat, EndName, Emit, InLoop, AtDigit, NameContinue
    <2> QED
      BY <1>0, <1>2, <2>1, <2>2
  <1>5. CASE BadCharacter \/ UnterminatedString \/ End
    <2>1. Work' = 0
      BY <1>5 DEF BadCharacter, UnterminatedString, End, Refuse, Work
    <2>2. mode \in {"scan", "string"} /\ (mode = "string" => i <= n)
      BY <1>0, <1>5 DEF BadCharacter, UnterminatedString, End, Scanning, InLoop
    <2>3. \/ Work = 3 * (n + 1 - i) + 1
          \/ i <= n /\ Work = 2 * (n + 1 - i) + (n + 1 - j)
      BY <2>2 DEF Work
    <2> QED
      BY <1>0, <2>1, <2>3
  <1>6. CASE OpenString \/ StartNumber \/ StartName
    <2>1. /\ i' = i /\ mode = "scan" /\ i <= n /\ j' >= i
          /\ mode' \in {"string", "int", "name"}
      BY <1>0, <1>6 DEF OpenString, StartNumber, StartName, Enter, Scanning
    <2>2. Work = 3 * (n + 1 - i) + 1 /\ Work' = 2 * (n + 1 - i) + (n + 1 - j')
      BY <1>0, <2>1 DEF Work
    <2> QED
      BY <1>0, <2>1, <2>2, EnterPays
  <1>7. CASE StringCharacter \/ Digit \/ DecimalPoint \/ NameCharacter
    <2>1. /\ i' = i /\ mode \in {"string", "int", "fraction", "name"} /\ j' > j
          /\ mode' \in {"string", "int", "fraction", "name"} /\ i <= n
      BY <1>0, <1>7 DEF StringCharacter, InString, Digit, DecimalPoint, AtPoint, AtDigit, NameCharacter, Enter, Move, InLoop
    <2>2. Work = 2 * (n + 1 - i) + (n + 1 - j) /\ Work' = 2 * (n + 1 - i) + (n + 1 - j')
      BY <1>0, <2>1 DEF Work
    <2> QED
      BY <1>0, <2>1, <2>2, LoopPays
  <1> QED
    BY <1>3, <1>4, <1>5, <1>6, <1>7 DEF Next

(* However long the expression, tokenize takes at most three steps for each of *)
(* its characters and one more: no loop stands still or reads a lexeme twice.  *)
THEOREM ScansInLinearTime == Spec => LinearTime
  <1> DEFINE A == Work' \in 0..Work - 1
  <1>1. IInv /\ [Next]_vars => [A]_vars
    BY WorkFalls DEF Returned
  <1>2. [][A]_vars => LinearTime
    BY DEF LinearTime
  <1> HIDE DEF A
  <1> QED
    BY <1>1, <1>2, Invariance, PTL DEF Spec

(* tokenize accounts for every character of every expression, once.            *)
THEOREM AlwaysTiles == Spec => []Tiling
  <1>1. IInv => Tiling
    BY DEF IInv
  <1> QED
    BY <1>1, Invariance, PTL

(* A finished token stream ends in its only EOF token, which is what           *)
(* AstParser's StreamsAssumption asks of the streams it is given.              *)
THEOREM StreamsEndInEof == Spec => []EofLast
  <1>1. IInv => EofLast
    BY DEF IInv
  <1> QED
    BY <1>1, Invariance, PTL

-----------------------------------------------------------------------------
(* tokenize implements LongestMatch.  Its inner loops are invisible to the     *)
(* abstract lexer: ReadSoFar says what they have read, and the lemmas ...Takes *)
(* and ...Rejects that the lexeme a loop ends at is the longest one there is.  *)

(* The classes of characters are disjoint, but for ".".                        *)
LEMMA Classes ==
  /\ \A c \in Punctuation : c \notin Operators \cup Quotes \cup Digits \cup NameStart \cup Spaces
  /\ \A c \in Operators : c \notin Punctuation \cup Quotes \cup Digits \cup NameStart \cup Spaces
  /\ \A c \in Quotes : c \notin Punctuation \cup Operators \cup Digits \cup NameStart \cup Spaces
  /\ \A c \in Digits : c \notin Punctuation \cup Operators \cup Quotes \cup NameStart \cup Spaces
  /\ \A c \in NameStart : c \notin Punctuation \cup Operators \cup Quotes \cup Digits \cup Spaces
  /\ \A c \in Spaces : c \notin Punctuation \cup Operators \cup Quotes \cup Digits \cup NameStart
  /\ "." \notin Digits /\ ShortOperators \subseteq Operators
BY DEF Punctuation, Operators, Quotes, Digits, NameStart, Spaces, ShortOperators

(* Both specifications speak of the same characters.                           *)
LEMMA SameSyntax ==
  /\ Match!Spaces = Spaces /\ Match!Punctuation = Punctuation
  /\ Match!Operators = Operators /\ Match!ShortOperators = ShortOperators
  /\ Match!Quotes = Quotes /\ Match!Digits = Digits /\ Match!Backslash = Backslash
  /\ Match!NameStart = NameStart /\ Match!NameContinue = NameContinue
  /\ \A c : /\ Match!PunctuationType(c) = PunctuationType(c)
            /\ Match!LongType(c) = LongType(c) /\ Match!ShortType(c) = ShortType(c)
            /\ Match!Second(c) = Second(c)
<1>1. /\ Match!Spaces = Spaces /\ Match!Punctuation = Punctuation
      /\ Match!Operators = Operators /\ Match!ShortOperators = ShortOperators
      /\ Match!Quotes = Quotes /\ Match!Digits = Digits /\ Match!Backslash = Backslash
  BY Zenon DEF Match!Spaces, Spaces, Match!Punctuation, Punctuation, Match!Operators, Operators,
     Match!ShortOperators, ShortOperators, Match!Quotes, Quotes, Match!Digits, Digits,
     Match!Backslash, Backslash
<1>2. Match!NameStart = NameStart
  BY Zenon DEF Match!NameStart, NameStart
<1>3. Match!NameContinue = NameContinue
  BY <1>1, <1>2, Zenon DEF Match!NameContinue, NameContinue
<1>4. ASSUME NEW c
      PROVE  /\ Match!PunctuationType(c) = PunctuationType(c)
             /\ Match!LongType(c) = LongType(c) /\ Match!ShortType(c) = ShortType(c)
             /\ Match!Second(c) = Second(c)
  BY Zenon DEF Match!PunctuationType, PunctuationType, Match!LongType, LongType,
     Match!ShortType, ShortType, Match!Second, Second
<1> QED BY <1>1, <1>2, <1>3, <1>4

(* How a lexeme of each shape begins.                                          *)
LEMMA FirstCharacters ==
  ASSUME NEW s \in Seq(STRING)
  PROVE  /\ Match!IsString(s) => s[1] \in Quotes /\ Len(s) >= 2
         /\ Match!IsInt(s) => s[1] \in Digits
         /\ Match!IsFloat(s) => s[1] \in Digits
         /\ Match!IsWord(s) => s[1] \in NameStart
<1>1. Len(s) \in Nat /\ (s # <<>> => Len(s) >= 1)
  BY LenProperties, EmptySeq
<1>2. Match!IsInt(s) => s[1] \in Digits
  BY <1>1, SameSyntax DEF Match!IsInt, Match!All
<1>3. ASSUME NEW p \in 2..Len(s) - 1, Match!IsInt(SubSeq(s, 1, p - 1))
      PROVE  s[1] \in Digits
  <2>1. \A k \in 1..p - 1 : s[k] \in STRING
    BY <1>1, ElementOfSeq
  <2> DEFINE t == SubSeq(s, 1, p - 1)
  <2>2. t \in Seq(STRING) /\ Len(t) = p - 1 /\ t[1] = s[1]
    BY <1>1, <2>1
  <2>3. t[1] \in Digits
    BY <1>1, <1>3, <2>2, SameSyntax DEF Match!IsInt, Match!All
  <2> QED BY <2>2, <2>3
<1> QED BY <1>1, <1>2, <1>3, SameSyntax DEF Match!IsString, Match!IsFloat, Match!IsWord

(* ... and so which shapes are left for a text, by its first character.        *)
LEMMA LexemeTypes ==
  ASSUME NEW s \in Seq(STRING), s # <<>>
  PROVE  /\ s[1] \in Punctuation =>
              Match!LexemeType(s) = IF Len(s) = 1 THEN PunctuationType(s[1]) ELSE "none"
         /\ s[1] \in Operators =>
              Match!LexemeType(s) =
                IF Len(s) = 1 /\ s[1] \in ShortOperators THEN ShortType(s[1])
                ELSE IF Len(s) = 2 /\ s[2] = Second(s[1]) THEN LongType(s[1]) ELSE "none"
         /\ s[1] \in Quotes =>
              Match!LexemeType(s) = IF Match!IsString(s) THEN "String" ELSE "none"
         /\ s[1] \in Digits =>
              Match!LexemeType(s) = IF Match!IsInt(s) THEN "Int"
                                    ELSE IF Match!IsFloat(s) THEN "Float" ELSE "none"
         /\ s[1] \in NameStart =>
              Match!LexemeType(s) = IF Match!IsWord(s) THEN WordType(s) ELSE "none"
         /\ s[1] \notin Punctuation \cup Operators \cup Quotes \cup Digits \cup NameStart =>
              Match!LexemeType(s) = "none"
<1> DEFINE c == s[1]
           length == Len(s)
           punct == length = 1 /\ c \in Punctuation
           short == length = 1 /\ c \in ShortOperators
           long == length = 2 /\ c \in Operators /\ s[2] = Second(c)
           str == Match!IsString(s)
           int == Match!IsInt(s)
           float == Match!IsFloat(s)
           word == Match!IsWord(s)
           typ == Match!LexemeType(s)
<1>1. /\ str => c \in Quotes
      /\ int => c \in Digits
      /\ float => c \in Digits
      /\ word => c \in NameStart
  BY FirstCharacters
<1>2. typ = CASE punct -> PunctuationType(c)
              [] short -> ShortType(c)
              [] long -> LongType(c)
              [] str -> "String"
              [] int -> "Int"
              [] float -> "Float"
              [] word -> WordType(s)
              [] OTHER -> "none"
  BY SameSyntax, Zenon DEF Match!LexemeType, WordType
<1>3. ~(int /\ float)
  <2>1. SUFFICES ASSUME int, NEW p \in 2..Len(s) - 1, s[p] = "." PROVE FALSE
    BY DEF Match!IsFloat
  <2>2. s[p] \in Digits
    BY <2>1, SameSyntax, LenProperties DEF Match!IsInt, Match!All
  <2> QED BY <2>1, <2>2, Classes
<1>4. ~(length = 1 /\ length = 2)
  BY LenProperties
<1> HIDE DEF c, str, int, float, word, typ, length
<1>5. ASSUME c \in Punctuation
      PROVE  typ = IF length = 1 THEN PunctuationType(c) ELSE "none"
  <2>1. ~short /\ ~long /\ ~str /\ ~int /\ ~float /\ ~word
    BY <1>1, <1>5, Classes
  <2> QED BY <1>2, <1>5, <2>1, Zenon
<1>6. ASSUME c \in Operators
      PROVE  typ = IF length = 1 /\ c \in ShortOperators THEN ShortType(c)
                   ELSE IF length = 2 /\ s[2] = Second(c) THEN LongType(c) ELSE "none"
  <2>1. ~punct /\ ~str /\ ~int /\ ~float /\ ~word
    BY <1>1, <1>6, Classes
  <2>2. ~(short /\ long)
    BY <1>4
  <2> QED BY <1>2, <1>6, <2>1, <2>2, Zenon
<1>7. ASSUME c \in Quotes PROVE typ = IF str THEN "String" ELSE "none"
  <2>1. ~punct /\ ~short /\ ~long /\ ~int /\ ~float /\ ~word
    BY <1>1, <1>7, Classes
  <2> QED BY <1>2, <2>1, Zenon
<1>8. ASSUME c \in Digits PROVE typ = IF int THEN "Int" ELSE IF float THEN "Float" ELSE "none"
  <2>1. ~punct /\ ~short /\ ~long /\ ~str /\ ~word
    BY <1>1, <1>8, Classes
  <2> QED BY <1>2, <1>3, <2>1, Zenon
<1>9. ASSUME c \in NameStart PROVE typ = IF word THEN WordType(s) ELSE "none"
  <2>1. ~punct /\ ~short /\ ~long /\ ~str /\ ~int /\ ~float
    BY <1>1, <1>9, Classes
  <2> QED BY <1>2, <2>1, Zenon
<1>10. ASSUME c \notin Punctuation \cup Operators \cup Quotes \cup Digits \cup NameStart
       PROVE  typ = "none"
  <2>1. ~punct /\ ~short /\ ~long /\ ~str /\ ~int /\ ~float /\ ~word
    BY <1>1, <1>10, Classes
  <2> QED BY <1>2, <2>1, Zenon
<1> QED BY <1>5, <1>6, <1>7, <1>8, <1>9, <1>10 DEF c, str, int, float, word, typ, length

(* The equation that defines Protected has a solution.                         *)
LEMMA ProtectedIs ==
  ASSUME NEW A, NEW s \in Seq(A)
  PROVE  \A k \in 1..Len(s) :
           Match!Protected(s)[k] <=>
             k > 2 /\ s[k - 1] = Backslash /\ ~Match!Protected(s)[k - 1]
<1> DEFINE N == Len(s)
           Step(f, k) == k > 2 /\ s[k - 1] = Backslash /\ ~f[k - 1]
           Solved == {m \in 0..N : \E f \in [1..N -> BOOLEAN] : \A k \in 1..m : f[k] = Step(f, k)}
<1>1. N \in Nat
  BY LenProperties
<1>2. 0 \in Solved
  <2> DEFINE f == [k \in 1..N |-> FALSE]
  <2>1. f \in [1..N -> BOOLEAN] /\ \A k \in 1..0 : f[k] = Step(f, k)
    OBVIOUS
  <2> HIDE DEF f
  <2>2. \E h \in [1..N -> BOOLEAN] : \A k \in 1..0 : h[k] = Step(h, k)
    BY <2>1
  <2> QED BY <1>1, <2>2
<1>3. ASSUME NEW m \in 0..N - 1, m \in Solved
      PROVE  m + 1 \in Solved
  <2>1. PICK f \in [1..N -> BOOLEAN] : \A k \in 1..m : f[k] = Step(f, k)
    BY <1>3
  <2> DEFINE g == [f EXCEPT ![m + 1] = Step(f, m + 1)]
  <2>2. m + 1 \in 1..N /\ \A k \in 1..m + 1 : k = m + 1 \/ k \in 1..m
    BY <1>1
  <2>3. g \in [1..N -> BOOLEAN] /\ g[m + 1] = Step(f, m + 1) /\ \A k \in 1..m : g[k] = f[k]
    BY <1>1, <2>2
  <2> HIDE DEF g
  <2>4. ASSUME NEW k \in 1..m + 1
        PROVE  g[k] = Step(g, k)
    <3>1. k > 2 => k - 1 \in 1..m
      BY <1>1
    <3>2. Step(f, k) = Step(g, k)
      BY <2>3, <3>1
    <3> QED BY <2>1, <2>2, <2>3, <3>2
  <2> QED BY <1>1, <2>2, <2>3, <2>4
<1>4. N \in Solved
  <2> HIDE DEF N, Solved
  <2>1. \A m \in 0..N : m \in Solved
    BY <1>1, <1>2, <1>3, Induction
  <2> QED BY <1>1, <2>1
<1>5. PICK f \in [1..N -> BOOLEAN] : \A k \in 1..N : f[k] = Step(f, k)
  BY <1>4
<1>6. f = [k \in 1..N |-> Step(f, k)]
  BY <1>5
<1>7. Match!Protected(s) = [k \in 1..N |-> Step(Match!Protected(s), k)]
  <2>1. Match!Protected(s) = CHOOSE p : p = [k \in 1..N |-> Step(p, k)]
    BY SameSyntax DEF Match!Protected
  <2> QED BY <1>6, <2>1
<1> QED BY <1>7

(* The text from i on, as far as to.                                           *)
LEMMA PrefixText ==
  ASSUME IInv, i <= n, NEW to \in i..n
  PROVE  LET s == SubSeq(input, i, to)
         IN /\ s \in Seq(STRING) /\ s # <<>> /\ Len(s) = to - i + 1
            /\ s[1] = input[i]
            /\ \A k \in 1..to - i + 1 : s[k] = input[i + k - 1]
<1> DEFINE s == SubSeq(input, i, to)
<1>1. n \in Nat /\ i \in 1..n /\ to \in Nat /\ i <= to /\ to <= n
  BY Facts DEF IInv, TypeOK
<1>2. input \in Seq(STRING) /\ Len(input) = n
  BY InputsAssumption DEF IInv, TypeOK, n
<1>3. \A k \in i..to : input[k] \in STRING
  BY <1>1, <1>2, ElementOfSeq
<1>4. /\ s \in Seq(STRING)
      /\ Len(s) = (IF i <= to THEN to - i + 1 ELSE 0)
      /\ \A k \in 1..to - i + 1 : s[k] = input[i + k - 1]
  BY <1>1, <1>3, SubSeqProperties
<1> HIDE DEF s
<1>5. Len(s) = to - i + 1 /\ Len(s) # 0
  BY <1>1, <1>4
<1>6. s # <<>>
  BY <1>5, EmptySeq
<1>7. s[1] = input[i]
  BY <1>1, <1>4
<1> QED BY <1>4, <1>5, <1>6, <1>7 DEF s

(* Whether a character is protected does not depend on what follows it.        *)
LEMMA ProtectedPrefix ==
  ASSUME IInv, i <= n, NEW to \in i..n, NEW k \in 1..to - i + 1
  PROVE  Match!Closes(SubSeq(input, i, to), k) <=> Match!Closes(SubSeq(input, i, n), k)
<1> DEFINE s == SubSeq(input, i, to)
           rest == SubSeq(input, i, n)
           N == to - i + 1
           Same == {m \in 0..N : \A l \in 1..m : Match!Protected(s)[l] <=> Match!Protected(rest)[l]}
<1>1. n \in Nat /\ i \in 1..n /\ to \in i..n /\ n \in i..n /\ N \in Nat /\ N <= n - i + 1
  BY Facts DEF IInv, TypeOK
<1>2. /\ s \in Seq(STRING) /\ Len(s) = N /\ s[1] = input[i]
      /\ \A l \in 1..N : s[l] = input[i + l - 1]
  BY PrefixText
<1>3. /\ rest \in Seq(STRING) /\ Len(rest) = n - i + 1 /\ rest[1] = input[i]
      /\ \A l \in 1..n - i + 1 : rest[l] = input[i + l - 1]
  BY <1>1, PrefixText
<1>4. \A l \in 1..N : /\ l \in 1..Len(s) /\ l \in 1..Len(rest) /\ s[l] = rest[l]
                      /\ l > 2 => l - 1 \in 1..N /\ s[l - 1] = rest[l - 1]
  BY <1>1, <1>2, <1>3
<1> HIDE DEF s, rest, N
<1>5. /\ \A l \in 1..Len(s) : Match!Protected(s)[l] <=>
           l > 2 /\ s[l - 1] = Backslash /\ ~Match!Protected(s)[l - 1]
      /\ \A l \in 1..Len(rest) : Match!Protected(rest)[l] <=>
           l > 2 /\ rest[l - 1] = Backslash /\ ~Match!Protected(rest)[l - 1]
  BY <1>2, <1>3, ProtectedIs
<1>6. 0 \in Same
  BY <1>1
<1>7. ASSUME NEW m \in 0..N - 1, m \in Same
      PROVE  m + 1 \in Same
  <2>1. m + 1 \in 1..N /\ m + 1 \in 0..N /\ \A l \in 1..m + 1 : l = m + 1 \/ l \in 1..m
    BY <1>1
  <2>2. m + 1 > 2 => m \in 1..m /\ (m + 1) - 1 = m
    BY <1>1
  <2>3. Match!Protected(s)[m + 1] <=> Match!Protected(rest)[m + 1]
    BY <1>4, <1>5, <1>7, <2>1, <2>2
  <2> QED BY <1>7, <2>1, <2>3
<1>8. N \in Same
  <2> HIDE DEF Same
  <2>1. \A m \in 0..N : m \in Same
    BY <1>1, <1>6, <1>7, Induction
  <2> QED BY <1>1, <2>1
<1>9. Match!Protected(s)[k] <=> Match!Protected(rest)[k]
  BY <1>8 DEF N
<1>10. s[k] = rest[k] /\ s[1] = rest[1]
  BY <1>2, <1>3, <1>4 DEF N
<1>11. Match!Closes(s, k) <=> Match!Closes(rest, k)
  BY <1>9, <1>10 DEF Match!Closes
<1> QED BY <1>11 DEF s, rest

-----------------------------------------------------------------------------
Busy == mode \notin {"done", "error"}

(* Emitting the longest lexeme is a step of the abstract lexer, ...            *)
LEMMA TakeStep ==
  ASSUME IInv, Busy, NEW typ, typ # "none", NEW to \in i..n, Emit(typ, to),
         Match!TypeAt(to) = typ, \A t \in to + 1..n : Match!TypeAt(t) = "none"
  PROVE  Match!Take
<1>1. n \in Nat /\ i \in Nat /\ to \in i..n /\ to \in Nat /\ n = Len(input)
  BY Facts DEF n
<1>2. to \in Match!Ends
  BY <1>1 DEF Match!Ends
<1>3. \A t \in Match!Ends : t <= to
  <2>1. \A t \in i..n : t <= to \/ t \in to + 1..n
    BY <1>1
  <2> QED BY <1>1, <2>1 DEF Match!Ends
<1>4. /\ mode' = "scan" /\ i' = to + 1 /\ input' = input
      /\ toks' = Append(toks, [typ |-> Match!TypeAt(to), from |-> i, to |-> to])
  BY DEF Emit, Token
<1>5. i <= Len(input)
  BY <1>1
<1> QED BY <1>2, <1>3, <1>4, <1>5 DEF Match!Take, Match!Scanning, Busy

(* ... and so is refusing a text no prefix of which is a lexeme.               *)
LEMMA RejectStep ==
  ASSUME IInv, Busy, i <= n, input[i] \notin Spaces, Refuse,
         \A t \in i..n : Match!TypeAt(t) = "none"
  PROVE  Match!Reject
<1>1. Match!Ends = {}
  BY DEF Match!Ends, n
<1>2. i <= Len(input)
  BY DEF n
<1> QED BY <1>1, <1>2, SameSyntax DEF Match!Reject, Match!Scanning, Refuse, Busy

(* What the type of a prefix is, by its first character.                       *)
LEMMA TypesAt ==
  ASSUME IInv, i <= n, NEW to \in i..n
  PROVE  LET s == SubSeq(input, i, to)
             typ == Match!TypeAt(to)
             c == input[i]
         IN /\ c \in Punctuation => typ = IF to = i THEN PunctuationType(c) ELSE "none"
            /\ c \in Operators =>
                 typ = IF to = i /\ c \in ShortOperators THEN ShortType(c)
                       ELSE IF to = i + 1 /\ input[i + 1] = Second(c) THEN LongType(c)
                       ELSE "none"
            /\ c \in Quotes => typ = IF Match!IsString(s) THEN "String" ELSE "none"
            /\ c \in Digits => typ = IF Match!IsInt(s) THEN "Int"
                                     ELSE IF Match!IsFloat(s) THEN "Float" ELSE "none"
            /\ c \in NameStart => typ = IF Match!IsWord(s) THEN WordType(s) ELSE "none"
            /\ c \notin Punctuation \cup Operators \cup Quotes \cup Digits \cup NameStart =>
                 typ = "none"
<1> DEFINE s == SubSeq(input, i, to)
<1>1. n \in Nat /\ i \in 1..n /\ to \in Nat /\ i <= to /\ to <= n
  BY Facts DEF IInv, TypeOK
<1>2. /\ s \in Seq(STRING) /\ s # <<>> /\ Len(s) = to - i + 1
      /\ s[1] = input[i]
      /\ \A k \in 1..to - i + 1 : s[k] = input[i + k - 1]
  BY PrefixText
<1>3. Match!TypeAt(to) = Match!LexemeType(s)
  BY DEF Match!TypeAt
<1>4. (Len(s) = 1 <=> to = i) /\ (Len(s) = 2 <=> to = i + 1) /\ (to = i + 1 => s[2] = input[i + 1])
  <2> HIDE DEF s
  <2>1. Len(s) = 1 <=> to = i
    BY <1>1, <1>2
  <2>2. Len(s) = 2 <=> to = i + 1
    BY <1>1, <1>2
  <2>3. to = i + 1 => 2 \in 1..to - i + 1 /\ i + 2 - 1 = i + 1
    BY <1>1
  <2> QED BY <1>2, <2>1, <2>2, <2>3
<1> HIDE DEF s
<1>5. /\ s[1] \in Punctuation =>
           Match!LexemeType(s) = IF Len(s) = 1 THEN PunctuationType(s[1]) ELSE "none"
      /\ s[1] \in Operators =>
           Match!LexemeType(s) =
             IF Len(s) = 1 /\ s[1] \in ShortOperators THEN ShortType(s[1])
             ELSE IF Len(s) = 2 /\ s[2] = Second(s[1]) THEN LongType(s[1]) ELSE "none"
      /\ s[1] \in Quotes =>
           Match!LexemeType(s) = IF Match!IsString(s) THEN "String" ELSE "none"
      /\ s[1] \in Digits =>
           Match!LexemeType(s) = IF Match!IsInt(s) THEN "Int"
                                 ELSE IF Match!IsFloat(s) THEN "Float" ELSE "none"
      /\ s[1] \in NameStart =>
           Match!LexemeType(s) = IF Match!IsWord(s) THEN WordType(s) ELSE "none"
      /\ s[1] \notin Punctuation \cup Operators \cup Quotes \cup Digits \cup NameStart =>
           Match!LexemeType(s) = "none"
  BY <1>2, LexemeTypes, Zenon
<1>6. /\ input[i] \in Punctuation =>
           Match!TypeAt(to) = IF to = i THEN PunctuationType(input[i]) ELSE "none"
      /\ input[i] \in Operators =>
           Match!TypeAt(to) =
             IF to = i /\ input[i] \in ShortOperators THEN ShortType(input[i])
             ELSE IF to = i + 1 /\ input[i + 1] = Second(input[i]) THEN LongType(input[i])
             ELSE "none"
  BY <1>2, <1>3, <1>4, <1>5, Zenon
<1> QED BY <1>2, <1>3, <1>5, <1>6, Zenon DEF s

-----------------------------------------------------------------------------
(* The strengthened invariant: what the inner loops have read.                 *)
RInv == IInv /\ ReadSoFar

(* Numbers, in simple terms.                                                   *)
LEMMA Bounds ==
  ASSUME IInv
  PROVE  n \in Nat /\ i \in Nat /\ j \in Nat /\ i >= 1 /\ j >= 1 /\ i <= n + 1 /\ j <= n + 1
BY Facts DEF IInv, TypeOK

(* Tokens of one or two characters.                                            *)
LEMMA PunctuateTakes == ASSUME IInv, Punctuate PROVE Match!Take
<1>1. n \in Nat /\ i \in Nat /\ i \in i..n /\ i <= n
  BY Bounds DEF Punctuate, Scanning
<1>2. input[i] \in Punctuation /\ Emit(PunctuationType(input[i]), i) /\ Busy
  BY DEF Punctuate, Scanning, Busy
<1>3. PunctuationType(input[i]) # "none"
  <2>1. ASSUME NEW c \in Punctuation PROVE PunctuationType(c) # "none"
    BY DEF Punctuation, PunctuationType
  <2> QED BY <1>2, <2>1
<1>4. \A t \in i..n : Match!TypeAt(t) = IF t = i THEN PunctuationType(input[i]) ELSE "none"
  BY <1>1, <1>2, TypesAt
<1>5. \A t \in i + 1..n : t \in i..n /\ t # i
  BY <1>1
<1> QED BY <1>1, <1>2, <1>3, <1>4, <1>5, TakeStep

LEMMA OperatorTypes ==
  /\ \A c \in Operators : LongType(c) # "none"
  /\ \A c \in ShortOperators : ShortType(c) # "none" /\ c \in Operators
BY DEF Operators, LongType, ShortOperators, ShortType

(* The types of the prefixes of what begins with an operator.                  *)
LEMMA OperatorAt ==
  ASSUME IInv, i <= n, input[i] \in Operators, NEW to \in i..n
  PROVE  Match!TypeAt(to) = IF to = i /\ input[i] \in ShortOperators THEN ShortType(input[i])
                            ELSE IF to = i + 1 /\ FollowedBy(Second(input[i]))
                                   THEN LongType(input[i]) ELSE "none"
<1>1. to = i + 1 => i + 1 <= n
  BY Bounds
<1> QED BY <1>1, TypesAt DEF FollowedBy

LEMMA LongTakes == ASSUME IInv, LongOperator PROVE Match!Take
<1>1. /\ n \in Nat /\ i \in Nat /\ i <= n /\ i + 1 \in i..n /\ i + 1 # i
      /\ input[i] \in Operators /\ FollowedBy(Second(input[i]))
      /\ Emit(LongType(input[i]), i + 1) /\ Busy
  BY Bounds DEF LongOperator, Scanning, FollowedBy, Busy
<1>2. Match!TypeAt(i + 1) = LongType(input[i])
  BY <1>1, OperatorAt
<1>3. \A t \in (i + 1) + 1..n : t \in i..n /\ t # i /\ t # i + 1
  BY <1>1
<1>4. \A t \in (i + 1) + 1..n : Match!TypeAt(t) = "none"
  BY <1>1, <1>3, OperatorAt
<1> QED BY <1>1, <1>2, <1>4, OperatorTypes, TakeStep

LEMMA ShortTakes == ASSUME IInv, ShortOperator PROVE Match!Take
<1>1. /\ n \in Nat /\ i \in Nat /\ i <= n /\ i \in i..n
      /\ input[i] \in ShortOperators /\ ~FollowedBy(Second(input[i]))
      /\ Emit(ShortType(input[i]), i) /\ Busy
  BY Bounds DEF ShortOperator, Scanning, Busy
<1>2. Match!TypeAt(i) = ShortType(input[i])
  BY <1>1, OperatorAt, OperatorTypes
<1>3. \A t \in i + 1..n : t \in i..n /\ t # i
  BY <1>1
<1>4. \A t \in i + 1..n : Match!TypeAt(t) = "none"
  BY <1>1, <1>3, OperatorAt, OperatorTypes
<1> QED BY <1>1, <1>2, <1>4, OperatorTypes, TakeStep

LEMMA BadRejects == ASSUME IInv, BadCharacter PROVE Match!Reject
<1>1. n \in Nat /\ i \in Nat /\ i <= n /\ Busy /\ Refuse
  BY Bounds DEF BadCharacter, Scanning, Busy
<1>2. CASE input[i] \in Operators \ ShortOperators /\ ~FollowedBy(Second(input[i]))
  <2>1. \A t \in i..n : Match!TypeAt(t) = "none"
    BY <1>1, <1>2, OperatorAt
  <2> QED BY <1>1, <1>2, <2>1, Classes, RejectStep
<1>3. CASE input[i] \notin Spaces \cup Punctuation \cup Operators \cup Quotes
                             \cup Digits \cup NameStart
  <2>1. \A t \in i..n : Match!TypeAt(t) = "none"
    BY <1>1, <1>3, TypesAt
  <2> QED BY <1>1, <1>3, <2>1, RejectStep
<1> QED BY <1>2, <1>3 DEF BadCharacter

-----------------------------------------------------------------------------
(* A string literal ends at the first quote that is not protected.             *)
LEMMA StringAt ==
  ASSUME IInv, i <= n, input[i] \in Quotes, NEW to \in i..n
  PROVE  Match!TypeAt(to) =
           IF to > i /\ \A k \in 2..to - i + 1 :
                          Match!Closes(SubSeq(input, i, n), k) <=> k = to - i + 1
             THEN "String" ELSE "none"
<1> DEFINE s == SubSeq(input, i, to)
           rest == SubSeq(input, i, n)
<1>1. n \in Nat /\ i \in Nat /\ to \in Nat /\ i <= to
  BY Bounds
<1>2. Len(s) = to - i + 1 /\ s[1] = input[i]
  BY PrefixText
<1>3. \A k \in 2..to - i + 1 : Match!Closes(s, k) <=> Match!Closes(rest, k)
  <2>1. \A k \in 2..to - i + 1 : k \in 1..to - i + 1
    BY <1>1
  <2> QED BY <2>1, ProtectedPrefix
<1>4. Match!TypeAt(to) = IF Match!IsString(s) THEN "String" ELSE "none"
  BY TypesAt
<1> HIDE DEF s, rest
<1>5. Len(s) >= 2 <=> to > i
  BY <1>1, <1>2
<1>6. Match!IsString(s) <=>
        to > i /\ \A k \in 2..to - i + 1 : Match!Closes(rest, k) <=> k = to - i + 1
  BY <1>2, <1>3, <1>5, SameSyntax DEF Match!IsString
<1> QED BY <1>4, <1>6 DEF rest

LEMMA CloseTakes == ASSUME RInv, CloseString PROVE Match!Take
<1> DEFINE rest == SubSeq(input, i, n)
           Ends(k) == Match!Closes(rest, k)
<1>1. /\ n \in Nat /\ i \in Nat /\ j \in Nat /\ i <= n /\ j > i /\ j <= n /\ j \in i..n
      /\ IInv /\ Emit("String", j) /\ input[j] = input[i] /\ Busy
  BY Bounds DEF CloseString, RInv, IInv, InLoop, Busy
<1>2. /\ input[i] \in Quotes
      /\ \A k \in 2..j - i : ~Ends(k)
      /\ ~Match!Protected(rest)[j - i + 1]
  BY <1>1 DEF CloseString, RInv, ReadSoFar
<1>3. rest[j - i + 1] = input[j] /\ rest[1] = input[i]
  <2>1. /\ rest[1] = input[i]
        /\ \A k \in 1..n - i + 1 : rest[k] = input[i + k - 1]
    <3>1. n \in i..n
      BY <1>1
    <3> QED BY <1>1, <3>1, PrefixText
  <2>2. j - i + 1 \in 1..n - i + 1 /\ i + (j - i + 1) - 1 = j
    BY <1>1
  <2> QED BY <2>1, <2>2
<1>4. Ends(j - i + 1)
  BY <1>1, <1>2, <1>3 DEF Match!Closes
<1>5. \A t \in i..n : Match!TypeAt(t) =
        IF t > i /\ \A k \in 2..t - i + 1 : Ends(k) <=> k = t - i + 1 THEN "String" ELSE "none"
  BY <1>1, <1>2, StringAt
<1> HIDE DEF Ends
<1>6. Match!TypeAt(j) = "String"
  <2>1. \A k \in 2..j - i + 1 : k = j - i + 1 \/ (k \in 2..j - i /\ k # j - i + 1)
    BY <1>1
  <2>2. \A k \in 2..j - i + 1 : Ends(k) <=> k = j - i + 1
    BY <1>2, <1>4, <2>1
  <2> QED BY <1>1, <1>5, <2>2
<1>7. \A t \in j + 1..n : Match!TypeAt(t) = "none"
  <2>1. \A t \in j + 1..n : t \in i..n /\ j - i + 1 \in 2..t - i + 1 /\ j - i + 1 # t - i + 1
    BY <1>1
  <2> QED BY <1>4, <1>5, <2>1
<1> QED BY <1>1, <1>6, <1>7, TakeStep

LEMMA UnterminatedRejects == ASSUME RInv, UnterminatedString PROVE Match!Reject
<1> DEFINE rest == SubSeq(input, i, n)
           Ends(k) == Match!Closes(rest, k)
<1>1. /\ n \in Nat /\ i \in Nat /\ i <= n /\ j = n + 1
      /\ IInv /\ Refuse /\ Busy
  BY Bounds DEF UnterminatedString, RInv, IInv, InLoop, Busy
<1>2. input[i] \in Quotes /\ \A k \in 2..j - i : ~Ends(k)
  BY <1>1 DEF UnterminatedString, RInv, ReadSoFar
<1>3. \A t \in i..n : Match!TypeAt(t) =
        IF t > i /\ \A k \in 2..t - i + 1 : Ends(k) <=> k = t - i + 1 THEN "String" ELSE "none"
  BY <1>1, <1>2, StringAt
<1> HIDE DEF Ends
<1>4. \A t \in i..n : t > i => t - i + 1 \in 2..t - i + 1 /\ t - i + 1 \in 2..j - i
  BY <1>1
<1>5. \A t \in i..n : Match!TypeAt(t) = "none"
  BY <1>2, <1>3, <1>4
<1> QED BY <1>1, <1>2, <1>5, Classes, RejectStep

-----------------------------------------------------------------------------
(* Integers and floats, by positions: a float is digits, one point, digits.    *)
FloatTo(to) ==
  \E p \in i + 1..to - 1 : input[p] = "." /\ Digital(i, p - 1) /\ Digital(p + 1, to)

LEMMA DigitalText ==
  ASSUME IInv, NEW from \in 1..n, NEW to \in from..n
  PROVE  Match!IsInt(SubSeq(input, from, to)) <=> Digital(from, to)
<1> DEFINE s == SubSeq(input, from, to)
<1>1. input \in Seq(STRING) /\ Len(input) = n /\ n \in Nat /\ from \in Nat /\ to \in Nat
  BY InputsAssumption, Facts DEF IInv, TypeOK, n
<1>2. \A k \in from..to : input[k] \in STRING
  BY <1>1, ElementOfSeq
<1>3. /\ s \in Seq(STRING)
      /\ Len(s) = (IF from <= to THEN to - from + 1 ELSE 0)
      /\ \A k \in 1..to - from + 1 : s[k] = input[from + k - 1]
  BY <1>1, <1>2, SubSeqProperties
<1> HIDE DEF s
<1>4. Len(s) = to - from + 1 /\ Len(s) # 0
  BY <1>1, <1>3
<1>5. s # <<>>
  BY <1>4, EmptySeq
<1>6. (\A k \in 1..Len(s) : s[k] \in Digits) <=> \A k \in from..to : input[k] \in Digits
  <2>1. \A k \in from..to : k - from + 1 \in 1..to - from + 1 /\ from + (k - from + 1) - 1 = k
    BY <1>1
  <2>2. \A k \in 1..to - from + 1 : from + k - 1 \in from..to
    BY <1>1
  <2> QED BY <1>3, <1>4, <2>1, <2>2
<1> QED BY <1>5, <1>6, SameSyntax DEF s, Match!IsInt, Match!All, Digital

LEMMA FloatText ==
  ASSUME IInv, i <= n, NEW to \in i..n
  PROVE  Match!IsFloat(SubSeq(input, i, to)) <=> FloatTo(to)
<1> DEFINE s == SubSeq(input, i, to)
<1>1. n \in Nat /\ i \in 1..n /\ to \in Nat /\ i <= to /\ to <= n
  BY Bounds
<1>2. /\ s \in Seq(STRING) /\ Len(s) = to - i + 1
      /\ \A k \in 1..to - i + 1 : s[k] = input[i + k - 1]
  BY PrefixText
<1>3. input \in Seq(STRING) /\ Len(input) = n
  BY InputsAssumption DEF IInv, TypeOK, n
<1>4. ASSUME NEW q \in 2..to - i
      PROVE  /\ s[q] = input[i + q - 1]
             /\ Match!IsInt(SubSeq(s, 1, q - 1)) <=> Digital(i, i + q - 2)
             /\ Match!IsInt(SubSeq(s, q + 1, Len(s))) <=> Digital(i + q, to)
  <2>1. /\ i \in 1..Len(input) /\ to \in 1..Len(input)
        /\ 1 \in 1..to - i + 1 /\ q - 1 \in 1..to - i + 1 /\ q + 1 \in 1..to - i + 1
        /\ Len(s) \in 1..to - i + 1 /\ q \in 1..to - i + 1
        /\ i + 1 - 1 = i /\ i + (q - 1) - 1 = i + q - 2 /\ i + (q + 1) - 1 = i + q
        /\ i + Len(s) - 1 = to
        /\ i + q - 2 \in i..n /\ i + q \in 1..n /\ to \in i + q..n
    BY <1>1, <1>2, <1>3
  <2>2. SubSeq(s, 1, q - 1) = SubSeq(input, i + 1 - 1, i + (q - 1) - 1)
    BY <1>3, <2>1, SubSeqOfSubSeq
  <2>3. SubSeq(s, q + 1, Len(s)) = SubSeq(input, i + (q + 1) - 1, i + Len(s) - 1)
    BY <1>3, <2>1, SubSeqOfSubSeq
  <2> HIDE DEF s
  <2>4. SubSeq(s, 1, q - 1) = SubSeq(input, i, i + q - 2)
    BY <2>1, <2>2
  <2>5. SubSeq(s, q + 1, Len(s)) = SubSeq(input, i + q, to)
    BY <2>1, <2>3
  <2>6. Match!IsInt(SubSeq(input, i, i + q - 2)) <=> Digital(i, i + q - 2)
    BY <1>1, <2>1, DigitalText
  <2>7. Match!IsInt(SubSeq(input, i + q, to)) <=> Digital(i + q, to)
    BY <1>1, <2>1, DigitalText
  <2> QED BY <1>2, <2>1, <2>4, <2>5, <2>6, <2>7
<1> HIDE DEF s
<1>5. Match!IsFloat(s) <=> \E q \in 2..to - i :
                             s[q] = "." /\ Match!IsInt(SubSeq(s, 1, q - 1))
                             /\ Match!IsInt(SubSeq(s, q + 1, Len(s)))
  <2>1. Len(s) - 1 = to - i
    BY <1>1, <1>2
  <2> QED BY <2>1 DEF Match!IsFloat
<1>6. ASSUME NEW q \in 2..to - i, input[i + q - 1] = ".", Digital(i, i + q - 2), Digital(i + q, to)
      PROVE  FloatTo(to)
  <2> DEFINE p == i + q - 1
  <2>1. p \in i + 1..to - 1 /\ p - 1 = i + q - 2 /\ p + 1 = i + q
    BY <1>1
  <2>2. input[p] = "." /\ Digital(i, p - 1) /\ Digital(p + 1, to)
    BY <1>6, <2>1
  <2> HIDE DEF p
  <2> QED BY <2>1, <2>2 DEF FloatTo
<1>7. ASSUME NEW p \in i + 1..to - 1, input[p] = ".", Digital(i, p - 1), Digital(p + 1, to)
      PROVE  \E q \in 2..to - i : input[i + q - 1] = "." /\ Digital(i, i + q - 2) /\ Digital(i + q, to)
  <2> DEFINE q == p - i + 1
  <2>1. q \in 2..to - i /\ i + q - 1 = p /\ i + q - 2 = p - 1 /\ i + q = p + 1
    BY <1>1
  <2> HIDE DEF q
  <2>2. input[i + q - 1] = "." /\ Digital(i, i + q - 2) /\ Digital(i + q, to)
    BY <1>7, <2>1
  <2> QED BY <2>1, <2>2
<1>8. Match!IsFloat(s) <=>
        \E q \in 2..to - i : input[i + q - 1] = "." /\ Digital(i, i + q - 2) /\ Digital(i + q, to)
  BY <1>4, <1>5
<1>9. FloatTo(to) <=>
        \E p \in i + 1..to - 1 : input[p] = "." /\ Digital(i, p - 1) /\ Digital(p + 1, to)
  BY DEF FloatTo
<1>10. Match!IsFloat(s) <=> FloatTo(to)
  BY <1>6, <1>7, <1>8, <1>9
<1> QED BY <1>10 DEF s

LEMMA NumberAt ==
  ASSUME IInv, i <= n, input[i] \in Digits, NEW to \in i..n
  PROVE  Match!TypeAt(to) = IF Digital(i, to) THEN "Int"
                            ELSE IF FloatTo(to) THEN "Float" ELSE "none"
<1>1. i \in 1..n
  BY Bounds
<1>2. Match!IsInt(SubSeq(input, i, to)) <=> Digital(i, to)
  BY <1>1, DigitalText
<1> QED BY <1>2, FloatText, TypesAt

LEMMA IntTakes == ASSUME RInv, EndInt PROVE Match!Take
<1>1. /\ n \in Nat /\ i \in Nat /\ j \in Nat /\ i <= n /\ j >= i /\ j <= n + 1
      /\ IInv /\ Emit("Int", j - 1) /\ Busy /\ input[i] \in Digits
      /\ ~AtDigit(j) /\ ~AtPoint
  BY Bounds DEF EndInt, RInv, IInv, InLoop, Busy
<1>2. Digital(i, j - 1)
  BY DEF EndInt, RInv, ReadSoFar
<1>3. j > i /\ j - 1 \in i..n
  BY <1>1 DEF AtDigit
<1>4. Match!TypeAt(j - 1) = "Int"
  BY <1>1, <1>2, <1>3, NumberAt
<1>5. ASSUME NEW t \in (j - 1) + 1..n
      PROVE  Match!TypeAt(t) = "none"
  <2>1. t \in i..n /\ j \in i..t /\ j <= n
    BY <1>1
  <2>2. ~Digital(i, t)
    BY <1>1, <2>1 DEF Digital, AtDigit
  <2>3. ASSUME NEW p \in i + 1..t - 1, input[p] = ".", Digital(i, p - 1), Digital(p + 1, t)
        PROVE  FALSE
    <3>1. CASE p < j
      BY <1>1, <1>2, <2>3, <3>1, Classes DEF Digital
    <3>2. CASE p = j
      <4>1. j + 1 \in j + 1..t /\ j + 1 <= n
        BY <1>1, <2>1, <3>2
      <4> QED BY <1>1, <2>3, <3>2, <4>1 DEF Digital, AtDigit, AtPoint
    <3>3. CASE p > j
      <4>1. j \in i..p - 1
        BY <1>1, <3>3
      <4> QED BY <1>1, <2>1, <2>3, <4>1 DEF Digital, AtDigit
    <3> QED BY <1>1, <3>1, <3>2, <3>3
  <2> QED BY <1>1, <2>1, <2>2, <2>3, NumberAt DEF FloatTo
<1> QED BY <1>1, <1>3, <1>4, <1>5, TakeStep

LEMMA FloatTakes == ASSUME RInv, EndFloat PROVE Match!Take
<1>1. /\ n \in Nat /\ i \in Nat /\ j \in Nat /\ i <= n /\ j > i /\ j <= n + 1
      /\ IInv /\ Emit("Float", j - 1) /\ Busy
      /\ ~AtDigit(j)
  BY Bounds DEF EndFloat, RInv, IInv, InLoop, Busy
<1>2. PICK p \in i + 1..j - 1 : /\ input[p] = "." /\ AtDigit(p + 1)
                                /\ Digital(i, p - 1) /\ Digital(p + 1, j - 1)
  BY DEF EndFloat, RInv, ReadSoFar
<1>3. p + 1 # j /\ p <= j - 2 /\ j - 1 \in i..n /\ i \in i..p - 1
  BY <1>1, <1>2
<1> input[i] \in Digits
  BY <1>2, <1>3 DEF Digital
<1>4. Match!TypeAt(j - 1) = "Float"
  <2>1. p \in i + 1..(j - 1) - 1 /\ p \in i..j - 1
    BY <1>1, <1>3
  <2>2. FloatTo(j - 1)
    BY <1>2, <2>1 DEF FloatTo
  <2>3. ~Digital(i, j - 1)
    BY <1>2, <2>1, Classes DEF Digital
  <2> QED BY <1>1, <1>3, <2>2, <2>3, NumberAt
<1>5. ASSUME NEW t \in (j - 1) + 1..n
      PROVE  Match!TypeAt(t) = "none"
  <2>1. t \in i..n /\ j \in i..t /\ j <= n /\ p \in i..t
    BY <1>1, <1>3
  <2>2. ~Digital(i, t)
    BY <1>1, <2>1 DEF Digital, AtDigit
  <2>3. ASSUME NEW q \in i + 1..t - 1, input[q] = ".", Digital(i, q - 1), Digital(q + 1, t)
        PROVE  FALSE
    <3>1. CASE q < p
      <4>1. q \in i..p - 1
        BY <1>1, <3>1
      <4> QED BY <1>2, <2>3, <4>1, Classes DEF Digital
    <3>2. CASE q = p
      <4>1. j \in q + 1..t
        BY <1>1, <1>3, <2>1, <3>2
      <4> QED BY <1>1, <2>1, <2>3, <4>1 DEF Digital, AtDigit
    <3>3. CASE q > p
      <4>1. p \in i..q - 1
        BY <1>1, <3>3
      <4> QED BY <1>2, <2>3, <4>1, Classes DEF Digital
    <3> QED BY <1>1, <3>1, <3>2, <3>3
  <2> QED BY <1>1, <2>1, <2>2, <2>3, NumberAt DEF FloatTo
<1> QED BY <1>1, <1>3, <1>4, <1>5, TakeStep

-----------------------------------------------------------------------------
LEMMA NameAt ==
  ASSUME IInv, i <= n, input[i] \in NameStart, NEW to \in i..n
  PROVE  Match!TypeAt(to) = IF \A k \in i..to : input[k] \in NameContinue
                              THEN WordType(SubSeq(input, i, to)) ELSE "none"
<1> DEFINE s == SubSeq(input, i, to)
<1>1. n \in Nat /\ i \in 1..n /\ to \in Nat /\ i <= to
  BY Bounds
<1>2. /\ s # <<>> /\ Len(s) = to - i + 1 /\ s[1] = input[i]
      /\ \A k \in 1..to - i + 1 : s[k] = input[i + k - 1]
  BY PrefixText
<1>3. Match!TypeAt(to) = IF Match!IsWord(s) THEN WordType(s) ELSE "none"
  BY TypesAt
<1> HIDE DEF s
<1>4. (\A k \in 1..Len(s) : s[k] \in NameContinue) <=> \A k \in i..to : input[k] \in NameContinue
  <2>1. \A k \in i..to : k - i + 1 \in 1..to - i + 1 /\ i + (k - i + 1) - 1 = k
    BY <1>1
  <2>2. \A k \in 1..to - i + 1 : i + k - 1 \in i..to
    BY <1>1
  <2> QED BY <1>2, <2>1, <2>2
<1>5. Match!IsWord(s) <=> \A k \in i..to : input[k] \in NameContinue
  BY <1>2, <1>4, SameSyntax DEF Match!IsWord, Match!All
<1> QED BY <1>3, <1>5 DEF s

LEMMA NameTakes == ASSUME RInv, EndName PROVE Match!Take
<1> DEFINE typ == WordType(SubSeq(input, i, j - 1))
<1>1. /\ n \in Nat /\ i \in Nat /\ j \in Nat /\ i <= n /\ j >= i /\ j <= n + 1
      /\ IInv /\ Emit(typ, j - 1) /\ Busy /\ input[i] \in NameStart
      /\ ~(j <= n /\ input[j] \in NameContinue)
  BY Bounds DEF EndName, RInv, IInv, InLoop, Busy
<1>2. \A k \in i..j - 1 : input[k] \in NameContinue
  BY DEF EndName, RInv, ReadSoFar
<1>3. typ # "none"
  <2>1. WordType(SubSeq(input, i, j - 1)) \in TokenTypes
    BY KeywordsAssumption DEF WordType, TokenTypes
  <2>2. "none" \notin TokenTypes
    BY DEF TokenTypes, LiteralTokens, MemberOfTokens, ComparisonOps, RefusedNumerals
  <2> QED BY <2>1, <2>2
<1>4. j > i /\ j - 1 \in i..n
  BY <1>1 DEF NameContinue
<1>5. Match!TypeAt(j - 1) = typ
  BY <1>1, <1>2, <1>4, NameAt
<1>6. ASSUME NEW t \in (j - 1) + 1..n
      PROVE  Match!TypeAt(t) = "none"
  <2>1. t \in i..n /\ j \in i..t /\ j <= n
    BY <1>1
  <2> QED BY <1>1, <2>1, NameAt
<1> HIDE DEF typ
<1> QED BY <1>1, <1>3, <1>4, <1>5, <1>6, TakeStep

-----------------------------------------------------------------------------
(* Every step of tokenize is one of the abstract lexer, or none: the inner     *)
(* loops do not show.                                                          *)
LEMMA StepMatches == RInv /\ [Next]_vars => [Match!Next]_(Match!vars)
<1> SUFFICES ASSUME RInv, [Next]_vars PROVE [Match!Next]_(Match!vars)
  OBVIOUS
<1>0. IInv /\ n \in Nat /\ i \in Nat
  BY Bounds DEF RInv
<1>1. CASE SkipSpace
  <2>1. mode = "scan" /\ i <= Len(input) /\ input[i] \in Match!Spaces /\ i' = i + 1
        /\ UNCHANGED <<input, mode, toks>>
    BY <1>1, SameSyntax DEF SkipSpace, Scanning, n
  <2>2. Match!Skip
    BY <2>1 DEF Match!Skip, Match!Scanning
  <2> QED BY <2>2 DEF Match!Next
<1>2. CASE Punctuate \/ LongOperator \/ ShortOperator \/ CloseString \/ EndInt \/ EndFloat \/ EndName
  <2>1. Match!Take
    BY <1>0, <1>2, PunctuateTakes, LongTakes, ShortTakes, CloseTakes, IntTakes, FloatTakes, NameTakes
  <2> QED BY <2>1 DEF Match!Next
<1>3. CASE BadCharacter \/ UnterminatedString
  <2>1. Match!Reject
    BY <1>0, <1>3, BadRejects, UnterminatedRejects
  <2> QED BY <2>1 DEF Match!Next
<1>4. CASE End
  <2>1. /\ mode = "scan" /\ i = Len(input) + 1 /\ mode' = "done" /\ UNCHANGED <<input, i>>
        /\ toks' = Append(toks, Token("EOF", n + 1, n))
    BY <1>4 DEF End, n
  <2>2. Token("EOF", n + 1, n) = [typ |-> "EOF", from |-> i, to |-> i - 1]
    <3>1. i = n + 1 /\ i - 1 = n
      BY <1>0, <2>1 DEF n
    <3> QED BY <3>1 DEF Token
  <2>3. Match!Finish
    BY <2>1, <2>2 DEF Match!Finish
  <2> QED BY <2>3 DEF Match!Next
<1>5. CASE \/ OpenString \/ StringCharacter \/ StartNumber \/ Digit \/ DecimalPoint
           \/ StartName \/ NameCharacter
  <2>1. UNCHANGED <<input, i, toks>> /\ mode \notin {"done", "error"} /\ mode' \notin {"done", "error"}
    BY <1>5 DEF OpenString, StringCharacter, InString, StartNumber, Digit, DecimalPoint, StartName,
       NameCharacter, Enter, Move, Scanning
  <2>2. UNCHANGED Match!vars
    BY <2>1 DEF Match!vars
  <2> QED BY <2>2
<1>6. CASE Returned \/ UNCHANGED vars
  <2>1. UNCHANGED Match!vars
    BY <1>6 DEF Returned, vars, Match!vars
  <2> QED BY <2>1
<1> QED BY <1>1, <1>2, <1>3, <1>4, <1>5, <1>6 DEF Next

(* What the inner loops add to what has been read.                             *)
LEMMA ReadMore == RInv /\ [Next]_vars => ReadSoFar'
<1> SUFFICES ASSUME RInv, [Next]_vars PROVE ReadSoFar'
  OBVIOUS
<1>0. /\ IInv /\ n \in Nat /\ i \in Nat /\ j \in Nat /\ i >= 1 /\ j >= 1
      /\ i <= n + 1 /\ j <= n + 1 /\ InLoop /\ ReadSoFar
  BY Bounds DEF RInv, IInv
<1>1. CASE mode' \notin {"string", "int", "fraction", "name"}
  BY <1>1 DEF ReadSoFar
<1>2. CASE OpenString
  <2>1. mode' = "string" /\ j' = i + 1 /\ UNCHANGED <<input, i>> /\ input[i] \in Quotes /\ i <= n
    BY <1>2 DEF OpenString, Enter, Scanning
  <2> DEFINE rest == SubSeq(input, i, n)
  <2>2. j' <= n => ~Match!Protected(rest)[2]
    <3>1. ASSUME j' <= n PROVE ~Match!Protected(rest)[2]
      <4>1. rest \in Seq(STRING) /\ 2 \in 1..Len(rest)
        <5>1. n \in i..n
          BY <1>0, <2>1
        <5>2. rest \in Seq(STRING) /\ Len(rest) = n - i + 1
          BY <1>0, <2>1, <5>1, PrefixText
        <5> HIDE DEF rest
        <5> QED BY <1>0, <2>1, <3>1, <5>2
      <4> HIDE DEF rest
      <4> QED BY <4>1, ProtectedIs
    <3> QED BY <3>1
  <2>3. j' - i = 1 /\ j' - i + 1 = 2 /\ n' = n
    BY <1>0, <2>1 DEF n
  <2>4. \A k \in 2..1 : ~Match!Closes(rest, k)
    OBVIOUS
  <2> QED BY <2>1, <2>2, <2>3, <2>4 DEF ReadSoFar
<1>3. CASE StringCharacter
  <2> DEFINE rest == SubSeq(input, i, n)
             at == j - i + 1
  <2>1. /\ mode = "string" /\ mode' = "string" /\ UNCHANGED <<input, i>> /\ n' = n
        /\ i <= n /\ j > i /\ j <= n /\ input[j] # input[i]
        /\ IF input[j] = Backslash /\ j + 1 <= n THEN j' = j + 2 ELSE j' = j + 1
    BY <1>0, <1>3 DEF StringCharacter, InString, Move, InLoop, n
  <2>2. /\ input[i] \in Quotes
        /\ \A k \in 2..j - i : ~Match!Closes(rest, k)
        /\ ~Match!Protected(rest)[at]
    BY <1>0, <2>1 DEF ReadSoFar
  <2>3. /\ rest \in Seq(STRING) /\ Len(rest) = n - i + 1 /\ rest[1] = input[i]
        /\ \A k \in 1..n - i + 1 : rest[k] = input[i + k - 1]
    <3>1. n \in i..n
      BY <1>0, <2>1
    <3> QED BY <1>0, <2>1, <3>1, PrefixText
  <2>4. /\ at \in Nat /\ at >= 2 /\ at \in 1..n - i + 1 /\ i + at - 1 = j
        /\ (at + 1) - 1 = at /\ (at + 2) - 1 = at + 1
    BY <1>0, <2>1
  <2> HIDE DEF rest
  <2>5. \A k \in 1..n - i + 1 : Match!Protected(rest)[k] <=>
          k > 2 /\ rest[k - 1] = Backslash /\ ~Match!Protected(rest)[k - 1]
    BY <2>3, ProtectedIs
  <2>6. ~Match!Closes(rest, at)
    BY <2>1, <2>3, <2>4 DEF Match!Closes
  <2>7. CASE input[j] = Backslash /\ j + 1 <= n
    <3>1. at + 1 \in 1..n - i + 1 /\ at + 1 > 2 /\ j' - i = at + 1 /\ j' - i + 1 = at + 2
          /\ (j' <= n => at + 2 \in 1..n - i + 1)
      BY <1>0, <2>1, <2>4, <2>7
    <3>2. Match!Protected(rest)[at + 1]
      BY <2>2, <2>3, <2>4, <2>5, <2>7, <3>1
    <3>3. ~Match!Closes(rest, at + 1)
      BY <3>2 DEF Match!Closes
    <3>4. j' <= n => ~Match!Protected(rest)[at + 2]
      BY <2>4, <2>5, <3>1, <3>2
    <3>5. \A k \in 2..j' - i : k \in 2..j - i \/ k = at \/ k = at + 1
      BY <1>0, <2>4, <3>1
    <3>6. \A k \in 2..j' - i : ~Match!Closes(rest, k)
      BY <2>2, <2>6, <3>3, <3>5
    <3> QED BY <2>1, <2>2, <3>1, <3>4, <3>6 DEF ReadSoFar, rest
  <2>8. CASE ~(input[j] = Backslash /\ j + 1 <= n)
    <3>1. j' - i = at /\ j' - i + 1 = at + 1 /\ j' = j + 1
          /\ (j' <= n => at + 1 \in 1..n - i + 1)
      BY <1>0, <2>1, <2>4, <2>8
    <3>2. j' <= n => ~Match!Protected(rest)[at + 1]
      BY <2>3, <2>4, <2>5, <2>8, <3>1
    <3>3. \A k \in 2..j' - i : k \in 2..j - i \/ k = at
      BY <1>0, <2>4, <3>1
    <3>4. \A k \in 2..j' - i : ~Match!Closes(rest, k)
      BY <2>2, <2>6, <3>3
    <3> QED BY <2>1, <2>2, <3>1, <3>2, <3>4 DEF ReadSoFar, rest
  <2> QED BY <2>7, <2>8
<1>4. CASE StartNumber \/ StartName
  <2>1. mode' \in {"int", "name"} /\ j' = i /\ UNCHANGED <<input, i>>
    BY <1>4 DEF StartNumber, StartName, Enter
  <2>2. i..j' - 1 = {}
    BY <1>0, <2>1
  <2> QED BY <2>1, <2>2 DEF ReadSoFar, Digital
<1>5. CASE Digit
  <2>1. /\ mode \in {"int", "fraction"} /\ mode' = mode /\ j' = j + 1 /\ UNCHANGED <<input, i>>
        /\ n' = n /\ input[j] \in Digits /\ j' - 1 = j
    BY <1>0, <1>5 DEF Digit, AtDigit, Move, n
  <2>2. CASE mode = "int"
    <3>1. \A k \in i..j - 1 : input[k] \in Digits
      BY <1>0, <2>2 DEF ReadSoFar, Digital
    <3>2. \A k \in i..j : k = j \/ k \in i..j - 1
      BY <1>0
    <3>3. \A k \in i'..j' - 1 : input'[k] \in Digits
      BY <2>1, <3>1, <3>2
    <3> QED BY <2>1, <2>2, <3>3 DEF ReadSoFar, Digital
  <2>3. CASE mode = "fraction"
    <3>1. PICK p \in i + 1..j - 1 :
             /\ input[p] = "." /\ p + 1 <= n /\ input[p + 1] \in Digits
             /\ \A k \in i..p - 1 : input[k] \in Digits
             /\ \A k \in p + 1..j - 1 : input[k] \in Digits
      BY <1>0, <2>3 DEF ReadSoFar, Digital, AtDigit
    <3>2. p \in i + 1..j /\ \A k \in p + 1..j : k = j \/ k \in p + 1..j - 1
      BY <1>0
    <3>3. /\ p \in i' + 1..j' - 1 /\ input'[p] = "." /\ p + 1 <= n' /\ input'[p + 1] \in Digits
          /\ \A k \in i'..p - 1 : input'[k] \in Digits
          /\ \A k \in p + 1..j' - 1 : input'[k] \in Digits
      BY <2>1, <3>1, <3>2
    <3> QED BY <2>1, <2>3, <3>3 DEF ReadSoFar, Digital, AtDigit
  <2> QED BY <2>1, <2>2, <2>3
<1>6. CASE DecimalPoint
  <2>1. /\ mode = "int" /\ mode' = "fraction" /\ j' = j + 1 /\ UNCHANGED <<input, i>> /\ n' = n
        /\ input[j] = "." /\ j + 1 <= n /\ input[j + 1] \in Digits /\ input[i] \in Digits /\ j >= i
    BY <1>0, <1>6 DEF DecimalPoint, AtPoint, AtDigit, Enter, InLoop, n
  <2>2. (\A k \in i..j - 1 : input[k] \in Digits) /\ j # i
    BY <1>0, <2>1, Classes DEF ReadSoFar, Digital
  <2>3. j \in i' + 1..j' - 1 /\ j + 1..j' - 1 = {}
    BY <1>0, <2>1, <2>2
  <2>4. /\ input'[j] = "." /\ j + 1 <= n' /\ input'[j + 1] \in Digits
        /\ \A k \in i'..j - 1 : input'[k] \in Digits
        /\ \A k \in j + 1..j' - 1 : input'[k] \in Digits
    BY <2>1, <2>2, <2>3
  <2> QED BY <2>1, <2>3, <2>4 DEF ReadSoFar, Digital, AtDigit
<1>7. CASE NameCharacter
  <2>1. /\ mode = "name" /\ mode' = "name" /\ j' = j + 1 /\ UNCHANGED <<input, i>>
        /\ input[j] \in NameContinue /\ j' - 1 = j
    BY <1>0, <1>7 DEF NameCharacter, Move
  <2>2. \A k \in i..j : k = j \/ k \in i..j - 1
    BY <1>0
  <2> QED BY <1>0, <2>1, <2>2 DEF ReadSoFar
<1>8. CASE UNCHANGED vars
  <2>1. UNCHANGED <<input, i, j, mode>> /\ n' = n
    BY <1>8 DEF vars, n
  <2>2. /\ (mode = "int" => \A k \in i..j - 1 : input[k] \in Digits)
        /\ (mode = "fraction" =>
              \E p \in i + 1..j - 1 :
                /\ input[p] = "." /\ p + 1 <= n /\ input[p + 1] \in Digits
                /\ \A k \in i..p - 1 : input[k] \in Digits
                /\ \A k \in p + 1..j - 1 : input[k] \in Digits)
    BY <1>0 DEF ReadSoFar, Digital, AtDigit
  <2>3. /\ mode = "string" =>
           LET rest == SubSeq(input, i, n)
           IN /\ input[i] \in Quotes
              /\ \A k \in 2..j - i : ~Match!Closes(rest, k)
              /\ j <= n => ~Match!Protected(rest)[j - i + 1]
        /\ mode = "name" => \A k \in i..j - 1 : input[k] \in NameContinue
    BY <1>0 DEF ReadSoFar
  <2>4. /\ (mode' = "int" => Digital(i, j - 1)')
        /\ (mode' = "fraction" =>
             (\E p \in i + 1..j - 1 : /\ input[p] = "." /\ AtDigit(p + 1)
                              /\ Digital(i, p - 1) /\ Digital(p + 1, j - 1))')
    BY <2>1, <2>2 DEF Digital, AtDigit
  <2> QED BY <2>1, <2>3, <2>4 DEF ReadSoFar
<1>9. CASE \/ SkipSpace \/ Punctuate \/ LongOperator \/ ShortOperator \/ BadCharacter
           \/ CloseString \/ UnterminatedString \/ EndInt \/ EndFloat \/ EndName \/ End
           \/ Returned
  <2>1. mode' \notin {"string", "int", "fraction", "name"}
    BY <1>9 DEF SkipSpace, Punctuate, LongOperator, ShortOperator, BadCharacter, CloseString,
       UnterminatedString, EndInt, EndFloat, EndName, End, Returned, Emit, Refuse, Scanning, vars
  <2> QED BY <1>1, <2>1
<1> QED BY <1>2, <1>3, <1>4, <1>5, <1>6, <1>7, <1>8, <1>9 DEF Next

(* The strengthened invariant in every reachable state, ...                    *)
THEOREM ReadAlways == Spec => []RInv
<1>1. Init => ReadSoFar
  BY DEF Init, ReadSoFar
<1>2. Init => RInv
  BY <1>1, InitInv DEF RInv
<1>3. RInv /\ [Next]_vars => RInv'
  BY NextInv, ReadMore DEF RInv
<1> QED BY <1>2, <1>3, PTL DEF Spec

(* ... and with it: tokenize scans by longest match, whatever the input and    *)
(* the keywords.                                                               *)
THEOREM ImplementsLongestMatch == Spec => Match!Init /\ [][Match!Next]_(Match!vars)
<1>1. Init => Match!Init
  BY DEF Init, Match!Init
<1> QED BY <1>1, ReadAlways, StepMatches, PTL DEF Spec

-----------------------------------------------------------------------------
(* The text of a literal, written and read again: the characters there are,    *)
(* and what is written for each one, a special one with a backslash first.     *)
Chars == STRING \cup {Quote, Backslash}

Pieces(t) == [k \in 1..Len(t) |-> Written(t[k], Special)]

LEMMA WrittenAs ==
  ASSUME NEW c \in Chars
  PROVE  /\ Written(c, Special) \in Seq(Chars)
         /\ c \in Special => /\ Len(Written(c, Special)) = 2
                             /\ Written(c, Special)[1] = Backslash /\ Written(c, Special)[2] = c
         /\ c \notin Special => Len(Written(c, Special)) = 1 /\ Written(c, Special)[1] = c
<1>1. Backslash \in Chars
  BY DEF Chars
<1>2. <<Backslash, c>> \in Seq(Chars) /\ <<c>> \in Seq(Chars)
  BY <1>1
<1> QED BY <1>2 DEF Written

LEMMA PiecesSeq ==
  ASSUME NEW t \in Seq(Chars)
  PROVE  Pieces(t) \in Seq(Seq(Chars)) /\ Len(Pieces(t)) = Len(t) /\ Len(t) \in Nat
<1>1. Len(t) \in Nat /\ \A k \in 1..Len(t) : t[k] \in Chars
  BY LenProperties, ElementOfSeq
<1>2. \A k \in 1..Len(t) : Written(t[k], Special) \in Seq(Chars)
  BY <1>1, WrittenAs
<1>3. Pieces(t) \in [1..Len(t) -> Seq(Chars)]
  BY <1>2 DEF Pieces
<1> QED BY <1>1, <1>3

(* Character by character, in quotes: where what is written for t[k] starts,   *)
(* and what it is.                                                             *)
WrittenAt(t, F, e) ==
  /\ F \in Seq(Chars) /\ e \in [0..Len(t) -> Nat] /\ e[0] = 0 /\ e[Len(t)] = Len(F)
  /\ \A k \in 1..Len(t) :
       /\ e[k] <= Len(F)
       /\ t[k] \in Special => /\ e[k] = e[k - 1] + 2
                              /\ F[e[k - 1] + 1] = Backslash /\ F[e[k - 1] + 2] = t[k]
       /\ t[k] \notin Special => e[k] = e[k - 1] + 1 /\ F[e[k - 1] + 1] = t[k]

LEMMA WrittenText ==
  ASSUME NEW t \in Seq(Chars)
  PROVE  LET F == FlattenSeq(Pieces(t))
         IN QuoteLiteral(t) = <<Quote>> \o F \o <<Quote>> /\ \E e : WrittenAt(t, F, e)
<1> DEFINE F == FlattenSeq(Pieces(t))
<1>1. QuoteLiteral(t) = <<Quote>> \o F \o <<Quote>>
  BY DEF QuoteLiteral, Quoted, Pieces
<1>2. Pieces(t) \in Seq(Seq(Chars)) /\ Len(Pieces(t)) = Len(t) /\ Len(t) \in Nat
  BY PiecesSeq
<1>3. F \in Seq(Chars) /\ \E e : Cuts(e, Pieces(t))
  BY <1>2, FlatPieces
<1>4. PICK e : Cuts(e, Pieces(t))
  BY <1>3
<1>5. e \in [0..Len(t) -> Nat] /\ e[0] = 0 /\ e[Len(t)] = Len(F)
  BY <1>2, <1>4 DEF Cuts
<1>6. ASSUME NEW k \in 1..Len(t)
      PROVE  /\ e[k] <= Len(F)
             /\ t[k] \in Special => /\ e[k] = e[k - 1] + 2
                                    /\ F[e[k - 1] + 1] = Backslash /\ F[e[k - 1] + 2] = t[k]
             /\ t[k] \notin Special => e[k] = e[k - 1] + 1 /\ F[e[k - 1] + 1] = t[k]
  <2>1. Pieces(t)[k] = Written(t[k], Special) /\ t[k] \in Chars
    BY ElementOfSeq DEF Pieces
  <2> DEFINE w == Written(t[k], Special)
  <2>2. /\ e[k] = e[k - 1] + Len(w) /\ e[k] <= Len(F)
        /\ \A l \in 1..Len(w) : F[e[k - 1] + l] = w[l]
    <3>1. k \in 1..Len(Pieces(t))
      BY <1>2
    <3> QED BY <1>4, <2>1, <3>1 DEF Cuts
  <2>3. /\ t[k] \in Special => Len(w) = 2 /\ w[1] = Backslash /\ w[2] = t[k]
        /\ t[k] \notin Special => Len(w) = 1 /\ w[1] = t[k]
    BY <2>1, WrittenAs
  <2> HIDE DEF w, F
  <2>4. CASE t[k] \in Special
    <3>1. 1 \in 1..Len(w) /\ 2 \in 1..Len(w)
      BY <2>3, <2>4
    <3> QED BY <2>2, <2>3, <2>4, <3>1
  <2>5. CASE t[k] \notin Special
    <3>1. 1 \in 1..Len(w)
      BY <2>3, <2>5
    <3> QED BY <2>2, <2>3, <2>5, <3>1
  <2> QED BY <2>4, <2>5
<1>7. WrittenAt(t, F, e)
  BY <1>3, <1>5, <1>6 DEF WrittenAt
<1> QED BY <1>1, <1>7

(* A text in quotes.                                                           *)
LEMMA InQuotes ==
  ASSUME NEW F \in Seq(Chars), NEW q, q = <<Quote>> \o F \o <<Quote>>
  PROVE  /\ q \in Seq(Chars) /\ Len(F) \in Nat /\ Len(q) = Len(F) + 2
         /\ q[1] = Quote /\ q[Len(F) + 2] = Quote /\ \A k \in 1..Len(F) : q[k + 1] = F[k]
         /\ Unquote(q) = F
<1> DEFINE one == <<Quote>>
           p == one \o F
           N == Len(F)
<1>1. one \in Seq(Chars) /\ Len(one) = 1 /\ one[1] = Quote /\ N \in Nat /\ Quote \in Chars
  BY LenProperties DEF Chars
<1>2. p \in Seq(Chars) /\ Len(p) = N + 1
      /\ \A k \in 1..N + 1 : p[k] = (IF k = 1 THEN Quote ELSE F[k - 1])
  BY <1>1, Prepended
<1>3. q = p \o one
  OBVIOUS
<1> HIDE DEF one, p, N
<1>4. q \in Seq(Chars) /\ Len(q) = N + 2
      /\ \A k \in 1..N + 2 : q[k] = IF k <= N + 1 THEN p[k] ELSE one[k - (N + 1)]
  <2>1. /\ q \in Seq(Chars) /\ Len(q) = Len(p) + Len(one)
        /\ \A k \in 1..Len(p) + Len(one) : q[k] = IF k <= Len(p) THEN p[k] ELSE one[k - Len(p)]
    <3>1. p \in Seq(Chars) /\ one \in Seq(Chars)
      BY <1>1, <1>2
    <3>2. p \o one \in Seq(Chars) /\ Len(p \o one) = Len(p) + Len(one)
      BY <3>1, ConcatProperties
    <3>3. \A k \in 1..Len(p) + Len(one) : (p \o one)[k] = IF k <= Len(p) THEN p[k] ELSE one[k - Len(p)]
      BY <3>1, ConcatProperties
    <3> QED BY <1>3, <3>2, <3>3
  <2>2. Len(p) = N + 1 /\ Len(p) + Len(one) = N + 2
    BY <1>1, <1>2
  <2> QED BY <2>1, <2>2
<1>5. q[1] = Quote
  BY <1>1, <1>2, <1>4
<1>6. q[N + 2] = Quote
  <2>1. N + 2 \in 1..N + 2 /\ ~(N + 2 <= N + 1) /\ (N + 2) - (N + 1) = 1
    BY <1>1
  <2> QED BY <1>1, <1>4, <2>1
<1>7. ASSUME NEW k \in 1..N PROVE q[k + 1] = F[k]
  <2>1. k + 1 \in 1..N + 2 /\ k + 1 <= N + 1 /\ k + 1 \in 1..N + 1 /\ k + 1 # 1 /\ (k + 1) - 1 = k
    BY <1>1
  <2>2. q[k + 1] = p[k + 1]
    BY <1>4, <2>1
  <2>3. p[k + 1] = F[(k + 1) - 1]
    <3> DEFINE at == k + 1
    <3> HIDE DEF at
    <3>1. at \in 1..N + 1 /\ at # 1 => p[at] = F[at - 1]
      BY <1>2
    <3> QED BY <2>1, <3>1 DEF at
  <2> QED BY <2>1, <2>2, <2>3
<1>8. Unquote(q) = F
  <2> DEFINE r == SubSeq(q, 2, Len(q) - 1)
  <2>1. Unquote(q) = r
    <3>1. Quote \in Quotes
      BY Zenon DEF Quotes, Quote
    <3>2. Len(q) >= 2
      BY <1>1, <1>4
    <3> QED BY <1>5, <3>1, <3>2 DEF Unquote
  <2>2. Len(q) - 1 = N + 1
    BY <1>1, <1>4
  <2>3. r = [k \in 1..N |-> q[k + 1]]
    <3>1. r = [k \in 1..(1 + (Len(q) - 1) - 2) |-> q[k + 2 - 1]]
      BY <1>4 DEF SubSeq
    <3>2. 1 + (Len(q) - 1) - 2 = N
      BY <1>1, <2>2
    <3>3. \A k \in 1..N : k + 2 - 1 = k + 1
      BY <1>1
    <3> HIDE DEF r
    <3> QED BY <3>1, <3>2, <3>3
  <2>4. F = [k \in 1..N |-> F[k]]
    BY DEF N
  <2> HIDE DEF r
  <2>5. r = F
    BY <1>7, <2>3, <2>4
  <2> QED BY <2>1, <2>5
<1> QED BY <1>1, <1>4, <1>5, <1>6, <1>7, <1>8 DEF N

(* Behind what is written for a character nothing is protected, and nothing of *)
(* it ends the literal.                                                        *)
LEMMA QuotedIsString ==
  ASSUME NEW t \in Seq(Chars), NEW F, NEW e, WrittenAt(t, F, e),
         NEW q, q = <<Quote>> \o F \o <<Quote>>
  PROVE  Match!IsString(q)
<1> DEFINE N == Len(t)
           L == Len(F)
           Safe(m) == /\ ~Match!Protected(q)[e[m] + 2]
                      /\ \A k \in 2..e[m] + 1 : ~Match!Closes(q, k)
           S == {m \in 0..N : Safe(m)}
<1>1. /\ q \in Seq(Chars) /\ L \in Nat /\ Len(q) = L + 2
      /\ q[1] = Quote /\ q[L + 2] = Quote /\ \A k \in 1..L : q[k + 1] = F[k]
  BY InQuotes DEF WrittenAt
<1>2. N \in Nat /\ \A m \in 0..N : e[m] \in Nat
  BY LenProperties DEF WrittenAt
<1>3. \A m \in 0..N : e[m] <= L
  <2>1. \A m \in 0..N : m = 0 \/ m \in 1..N
    BY <1>2
  <2> QED BY <1>1, <2>1 DEF WrittenAt
<1>4. \A k \in 1..L + 2 : Match!Protected(q)[k] <=>
        k > 2 /\ q[k - 1] = Backslash /\ ~Match!Protected(q)[k - 1]
  <2>1. \A k \in 1..Len(q) : Match!Protected(q)[k] <=>
          k > 2 /\ q[k - 1] = Backslash /\ ~Match!Protected(q)[k - 1]
    <3>1. q \in Seq(Chars)
      BY <1>1
    <3> QED BY <3>1, ProtectedIs, Zenon
  <2> QED BY <1>1, <2>1
<1>5. \A k : Match!Closes(q, k) <=> q[k] = Quote /\ ~Match!Protected(q)[k]
  BY <1>1 DEF Match!Closes
<1>6. Quote # Backslash /\ Quote \in Special /\ Backslash \in Special /\ Quote \in Quotes
  BY Zenon DEF Quote, Backslash, Special, Quotes
<1> HIDE DEF N, L
<1>7. 0 \in S
  <2>1. e[0] = 0 /\ \A k \in 2..0 + 1 : FALSE
    BY DEF WrittenAt
  <2>2. ~Match!Protected(q)[2]
    <3>1. 2 \in 1..L + 2
      BY <1>1
    <3> QED BY <1>4, <3>1
  <2> QED BY <1>2, <2>1, <2>2
<1>8. ASSUME NEW m \in 0..N - 1, m \in S PROVE m + 1 \in S
  <2> DEFINE k == m + 1
             at == e[m]
             c == t[k]
  <2>1. k \in 1..N /\ k - 1 = m /\ k \in 0..N /\ m \in 0..N
    BY <1>2
  <2> HIDE DEF k
  <2>2. /\ e[k] <= L /\ at \in Nat /\ e[k] \in Nat
        /\ c \in Special => /\ e[k] = at + 2
                            /\ F[at + 1] = Backslash /\ F[at + 2] = c
        /\ c \notin Special => e[k] = at + 1 /\ F[at + 1] = c
    <3>1. /\ e[k] <= L
          /\ t[k] \in Special => /\ e[k] = e[k - 1] + 2
                                 /\ F[e[k - 1] + 1] = Backslash /\ F[e[k - 1] + 2] = t[k]
          /\ t[k] \notin Special => e[k] = e[k - 1] + 1 /\ F[e[k - 1] + 1] = t[k]
      BY <2>1 DEF WrittenAt, N, L
    <3>2. e[k - 1] = at
      BY <2>1
    <3> QED BY <1>2, <2>1, <3>1, <3>2
  <2>3. ~Match!Protected(q)[at + 2] /\ \A l \in 2..at + 1 : ~Match!Closes(q, l)
    BY <1>8
  <2> HIDE DEF at, c
  <2>4. CASE c \in Special
    <3>1. /\ at + 1 \in 1..L /\ at + 2 \in 1..L /\ at + 2 \in 1..L + 2
          /\ at + 3 \in 1..L + 2 /\ at + 4 \in 1..L + 2
          /\ (at + 1) + 1 = at + 2 /\ (at + 2) + 1 = at + 3
          /\ (at + 3) - 1 = at + 2 /\ (at + 4) - 1 = at + 3 /\ at + 3 > 2 /\ at + 4 > 2
      BY <1>1, <2>2, <2>4
    <3>2. q[at + 2] = Backslash
      <4>1. q[(at + 1) + 1] = F[at + 1]
        BY <1>1, <3>1
      <4> QED BY <2>2, <2>4, <3>1, <4>1
    <3>3. Match!Protected(q)[at + 3]
      <4>1. Match!Protected(q)[at + 3] <=>
              at + 3 > 2 /\ q[(at + 3) - 1] = Backslash /\ ~Match!Protected(q)[(at + 3) - 1]
        BY <1>4, <3>1
      <4> QED BY <2>3, <3>1, <3>2, <4>1
    <3>4. ~Match!Protected(q)[at + 4]
      <4>1. Match!Protected(q)[at + 4] <=>
              at + 4 > 2 /\ q[(at + 4) - 1] = Backslash /\ ~Match!Protected(q)[(at + 4) - 1]
        BY <1>4, <3>1
      <4> QED BY <3>1, <3>3, <4>1
    <3>5. ~Match!Closes(q, at + 2) /\ ~Match!Closes(q, at + 3)
      BY <1>5, <1>6, <3>2, <3>3
    <3>6. \A l \in 2..e[k] + 1 : l \in 2..at + 1 \/ l = at + 2 \/ l = at + 3
      BY <2>2, <2>4
    <3>7. \A l \in 2..e[k] + 1 : ~Match!Closes(q, l)
      BY <2>3, <3>5, <3>6
    <3>8. e[k] + 2 = at + 4
      BY <2>2, <2>4
    <3>9. Safe(k)
      BY <3>4, <3>7, <3>8
    <3> QED BY <2>1, <3>9 DEF k
  <2>5. CASE c \notin Special
    <3>1. /\ at + 1 \in 1..L /\ at + 2 \in 1..L + 2 /\ at + 3 \in 1..L + 2
          /\ (at + 1) + 1 = at + 2 /\ (at + 3) - 1 = at + 2
      BY <1>1, <2>2, <2>5
    <3>2. q[at + 2] = c
      <4>1. q[(at + 1) + 1] = F[at + 1]
        BY <1>1, <3>1
      <4> QED BY <2>2, <2>5, <3>1, <4>1
    <3>3. c # Quote /\ c # Backslash
      BY <1>6, <2>5
    <3>4. ~Match!Protected(q)[at + 3]
      <4>1. Match!Protected(q)[at + 3] <=>
              at + 3 > 2 /\ q[(at + 3) - 1] = Backslash /\ ~Match!Protected(q)[(at + 3) - 1]
        BY <1>4, <3>1
      <4> QED BY <3>1, <3>2, <3>3, <4>1
    <3>5. ~Match!Closes(q, at + 2)
      BY <1>5, <3>2, <3>3
    <3>6. \A l \in 2..e[k] + 1 : l \in 2..at + 1 \/ l = at + 2
      BY <2>2, <2>5
    <3>7. \A l \in 2..e[k] + 1 : ~Match!Closes(q, l)
      BY <2>3, <3>5, <3>6
    <3>8. e[k] + 2 = at + 3
      BY <2>2, <2>5
    <3>9. Safe(k)
      BY <3>4, <3>7, <3>8
    <3> QED BY <2>1, <3>9 DEF k
  <2> QED BY <2>4, <2>5
<1>9. Safe(N)
  <2> HIDE DEF Safe
  <2>1. \A m \in 0..N : m \in S
    <3> HIDE DEF S
    <3> QED BY <1>2, <1>7, <1>8, Induction
  <2> QED BY <1>2, <2>1
<1>10. e[N] = L
  BY DEF WrittenAt, N, L
<1>11. Match!Closes(q, L + 2) /\ \A k \in 2..L + 1 : ~Match!Closes(q, k)
  BY <1>1, <1>5, <1>9, <1>10
<1>12. \A k \in 2..Len(q) : Match!Closes(q, k) <=> k = Len(q)
  <2>1. \A k \in 2..Len(q) : k = L + 2 \/ (k \in 2..L + 1 /\ k # Len(q))
    BY <1>1
  <2> QED BY <1>1, <1>11, <2>1
<1>13. Len(q) >= 2 /\ q[1] \in Match!Quotes
  BY <1>1, <1>6, SameSyntax
<1> QED BY <1>12, <1>13 DEF Match!IsString

(* Only a special character makes what is written longer.                      *)
LEMMA PlainTextKept ==
  ASSUME NEW t \in Seq(Chars), NEW F, NEW e, WrittenAt(t, F, e)
  PROVE  F = t <=> \A k \in 1..Len(t) : t[k] \notin Special
<1> DEFINE N == Len(t)
<1>1. N \in Nat /\ F \in Seq(Chars) /\ e[0] = 0 /\ e[N] = Len(F) /\ \A k \in 0..N : e[k] \in Nat
  BY LenProperties DEF WrittenAt
<1>2. \A k \in 1..N :
        /\ t[k] \in Special => e[k] = e[k - 1] + 2
        /\ t[k] \notin Special => e[k] = e[k - 1] + 1 /\ F[e[k - 1] + 1] = t[k]
  BY DEF WrittenAt
<1> HIDE DEF N
<1>3. ASSUME \A k \in 1..N : t[k] \notin Special
      PROVE  F = t
  <2> DEFINE S == {m \in 0..N : e[m] = m}
  <2>1. 0 \in S
    BY <1>1
  <2>2. ASSUME NEW m \in 0..N - 1, m \in S PROVE m + 1 \in S
    <3> DEFINE k == m + 1
    <3>1. k \in 1..N /\ k - 1 = m /\ k \in 0..N /\ e[m] = m
      BY <1>1, <2>2
    <3> HIDE DEF k
    <3>2. e[k] = e[k - 1] + 1
      BY <1>2, <1>3, <3>1
    <3>3. k \in S
      BY <3>1, <3>2 DEF k
    <3> QED BY <3>3 DEF k
  <2>3. \A m \in 0..N : m \in S
    <3> HIDE DEF S
    <3> QED BY <1>1, <2>1, <2>2, Induction
  <2>4. Len(F) = N
    BY <1>1, <2>3
  <2>5. ASSUME NEW k \in 1..N PROVE F[k] = t[k]
    <3>1. k - 1 \in 0..N /\ (k - 1) + 1 = k
      BY <1>1
    <3>2. e[k - 1] = k - 1
      BY <2>3, <3>1
    <3>3. F[e[k - 1] + 1] = t[k]
      BY <1>2, <1>3
    <3> QED BY <3>1, <3>2, <3>3
  <2> QED BY <1>1, <2>4, <2>5, SeqEqual DEF N
<1>4. ASSUME NEW p \in 1..N, t[p] \in Special
      PROVE  F # t
  <2> DEFINE S == {m \in 0..N : m <= e[m] /\ (p <= m => m < e[m])}
  <2>1. 0 \in S
    BY <1>1
  <2>2. ASSUME NEW m \in 0..N - 1, m \in S PROVE m + 1 \in S
    <3> DEFINE k == m + 1
    <3>1. k \in 1..N /\ k - 1 = m /\ k \in 0..N /\ m \in 0..N
      BY <1>1
    <3>2. m <= e[m] /\ (p <= m => m < e[m])
      BY <2>2
    <3> HIDE DEF k
    <3>3. e[k] = e[k - 1] + 2 \/ (t[k] \notin Special /\ e[k] = e[k - 1] + 1)
      BY <1>2, <3>1
    <3>4. e[m] \in Nat /\ e[k] \in Nat /\ e[k - 1] = e[m]
      BY <1>1, <3>1
    <3>5. p <= k => p <= m \/ p = k
      BY <1>1, <3>1
    <3>6. p = k => e[k] = e[m] + 2
      BY <1>4, <3>3, <3>4
    <3>7. k <= e[k] /\ (p <= k => k < e[k])
      <4> DEFINE x == e[k]
                 y == e[m]
      <4>1. /\ x \in Nat /\ y \in Nat /\ (x = y + 2 \/ x = y + 1) /\ m <= y /\ (p <= m => m < y)
            /\ (p = k => x = y + 2) /\ k = m + 1
        BY <3>2, <3>3, <3>4, <3>6 DEF k
      <4> HIDE DEF x, y
      <4>2. k <= x
        BY <4>1
      <4>3. p <= k => k < x
        BY <3>5, <4>1
      <4> QED BY <4>2, <4>3 DEF x
    <3>8. k \in S
      BY <3>1, <3>7
    <3> QED BY <3>8 DEF k
  <2>3. \A m \in 0..N : m \in S
    <3> HIDE DEF S
    <3> QED BY <1>1, <2>1, <2>2, Induction
  <2>4. N < e[N]
    <3>1. N \in S /\ p <= N
      BY <1>1, <2>3
    <3> QED BY <3>1
  <2> QED BY <1>1, <2>4 DEF N
<1> QED BY <1>3, <1>4 DEF N

(* quoteLiteral of any text is one lexeme, and reads as the text unless there  *)
(* is something to protect.                                                    *)
LEMMA Reread ==
  ASSUME NEW t \in Seq(STRING)
  PROVE  /\ Match!IsString(QuoteLiteral(t))
         /\ Unquote(QuoteLiteral(t)) = t <=> \A p \in 1..Len(t) : t[p] \notin Special
<1> DEFINE F == FlattenSeq(Pieces(t))
<1>1. t \in Seq(Chars)
  <2>1. STRING \subseteq Chars
    BY DEF Chars
  <2>2. Len(t) \in Nat /\ t \in [1..Len(t) -> STRING]
    BY LenProperties
  <2>3. t \in [1..Len(t) -> Chars]
    BY <2>1, <2>2
  <2> QED BY <2>2, <2>3
<1>2. QuoteLiteral(t) = <<Quote>> \o F \o <<Quote>>
  BY <1>1, WrittenText
<1>3. \E e : WrittenAt(t, F, e)
  BY <1>1, WrittenText
<1>4. PICK e : WrittenAt(t, F, e)
  BY <1>3
<1>5. F \in Seq(Chars)
  BY <1>4 DEF WrittenAt
<1> HIDE DEF F
<1>6. Match!IsString(QuoteLiteral(t))
  BY <1>1, <1>2, <1>4, QuotedIsString
<1>7. Unquote(QuoteLiteral(t)) = F
  BY <1>2, <1>5, InQuotes
<1>8. F = t <=> \A p \in 1..Len(t) : t[p] \notin Special
  BY <1>1, <1>4, PlainTextKept
<1> QED BY <1>6, <1>7, <1>8

(* A token's text, with its quotes and without.                                *)
LEMMA TokenText ==
  ASSUME IInv, NEW k \in 1..Len(toks), toks[k].typ = "String"
  PROVE  Unquote(SubSeq(input, toks[k].from, toks[k].to)) \in Seq(STRING)
<1> DEFINE from == toks[k].from
           to == toks[k].to
           raw == SubSeq(input, from, to)
<1>1. /\ from \in Nat /\ to \in Nat /\ from >= 1 /\ to <= n /\ n \in Nat
  BY Facts, Bounds DEF IInv, Tiling, Ordered
<1>2. input \in Seq(STRING) /\ Len(input) = n
  BY InputsAssumption DEF IInv, TypeOK, n
<1>3. \A p \in from..to : input[p] \in STRING
  BY <1>1, <1>2, ElementOfSeq
<1> HIDE DEF from, to
<1>4. raw \in Seq(STRING)
  BY <1>1, <1>3, SubSeqProperties
<1> HIDE DEF raw
<1>5. SubSeq(raw, 2, Len(raw) - 1) \in Seq(STRING)
  <2>1. Len(raw) \in Nat /\ \A p \in 2..Len(raw) - 1 : raw[p] \in STRING
    BY <1>4, LenProperties, ElementOfSeq
  <2>2. 2 \in Int /\ Len(raw) - 1 \in Int
    BY <2>1
  <2> QED BY <2>1, <2>2, SubSeqProperties
<1>6. Unquote(raw) \in Seq(STRING)
  BY <1>4, <1>5 DEF Unquote
<1> QED BY <1>6 DEF raw, from, to

(* "so the result is always a valid string literal" (ast.go:54), for every     *)
(* literal of every expression.                                                *)
THEOREM LiteralsAlwaysReread == Spec => []LiteralsReread
<1>1. ASSUME IInv PROVE LiteralsReread
  <2> SUFFICES ASSUME NEW k \in 1..Len(toks), toks[k].typ = "String"
               PROVE  LET text == Unquote(SubSeq(input, toks[k].from, toks[k].to))
                      IN /\ Match!IsString(QuoteLiteral(text))
                         /\ Unquote(QuoteLiteral(text)) = text <=>
                              \A p \in 1..Len(text) : text[p] \notin Special
    BY DEF LiteralsReread
  <2> QED BY <1>1, TokenText, Reread
<1> QED BY <1>1, Invariance, PTL
=============================================================================
