-------------------------------- MODULE Lexer --------------------------------
(* lexer.go: tokenize, one character at a time.  The outer loop is mode        *)
(* "scan"; the inner loops over j are modes of their own.  Positions count     *)
(* from 1.  A token is its type and the positions of its first and last        *)
(* character, which are what its value and pos fields hold.                    *)
EXTENDS Quoting

CONSTANTS Inputs,    \* the expressions to scan
          Keywords   \* keywords: the identifiers that are not names, with types

ASSUME InputsAssumption == \A s \in Inputs : s \in Seq(STRING)

(* Every keyword of the table has the shape of an identifier.                  *)
ASSUME KeywordsAssumption ==
  \A w \in DOMAIN Keywords :
    /\ w \in Seq(NameContinue) /\ w # <<>> /\ w[1] \in NameStart
    /\ Keywords[w] \in TokenTypes \ {"EOF", "Name"}

VARIABLES
  input,   \* the expression
  i,       \* the next character of the outer loop
  j,       \* the next character of an inner loop
  mode,    \* "scan", the inner loop running, or how tokenize returned
  toks     \* the tokens so far

vars == <<input, i, j, mode, toks>>

n == Len(input)

Token(typ, from, to) == [typ |-> typ, from |-> from, to |-> to]

TokenType == [typ : TokenTypes, from : Nat, to : Nat]

TypeOK ==
  /\ input \in Inputs
  /\ i \in 1..n + 1
  /\ j \in 1..n + 1
  /\ mode \in {"scan", "string", "int", "fraction", "name", "done", "error"}
  /\ toks \in Seq(TokenType)

Init ==
  /\ input \in Inputs
  /\ i = 1
  /\ j = 1
  /\ mode = "scan"
  /\ toks = <<>>

-----------------------------------------------------------------------------
Scanning == mode = "scan" /\ i <= n
AtDigit(k) == k <= n /\ input[k] \in Digits

(* Append a token that ends at position to and go on behind it.                *)
Emit(typ, to) ==
  /\ toks' = Append(toks, Token(typ, i, to))
  /\ i' = to + 1
  /\ mode' = "scan"
  /\ UNCHANGED <<input, j>>

Refuse == mode' = "error" /\ UNCHANGED <<input, i, j, toks>>

Enter(loop, k) == mode' = loop /\ j' = k /\ UNCHANGED <<input, i, toks>>
Move(k) == j' = k /\ UNCHANGED <<input, i, mode, toks>>

SkipSpace ==
  /\ Scanning
  /\ input[i] \in Spaces
  /\ i' = i + 1
  /\ UNCHANGED <<input, j, mode, toks>>

Punctuate ==
  /\ Scanning
  /\ input[i] \in Punctuation
  /\ Emit(PunctuationType(input[i]), i)

FollowedBy(c) == i + 1 <= n /\ input[i + 1] = c

LongOperator ==
  /\ Scanning
  /\ input[i] \in Operators
  /\ FollowedBy(Second(input[i]))
  /\ Emit(LongType(input[i]), i + 1)

ShortOperator ==
  /\ Scanning
  /\ input[i] \in ShortOperators
  /\ ~FollowedBy(Second(input[i]))
  /\ Emit(ShortType(input[i]), i)

(* A lone "=", "&" or "|", or a character no case of the switch takes.         *)
BadCharacter ==
  /\ Scanning
  /\ \/ input[i] \in Operators \ ShortOperators /\ ~FollowedBy(Second(input[i]))
     \/ input[i] \notin Spaces \cup Punctuation \cup Operators \cup Quotes
                          \cup Digits \cup NameStart
  /\ Refuse

(* String literals: a backslash protects the character behind it, if any.      *)
OpenString == Scanning /\ input[i] \in Quotes /\ Enter("string", i + 1)

InString == mode = "string" /\ j <= n /\ input[j] # input[i]

(* A slip the properties must notice: no character is protected.               *)
StringCharacterNoEscape == InString /\ Move(j + 1)

StringCharacter ==
  /\ InString
  /\ IF input[j] = Backslash /\ j + 1 <= n THEN Move(j + 2) ELSE Move(j + 1)

CloseString == mode = "string" /\ j <= n /\ input[j] = input[i] /\ Emit("String", j)

UnterminatedString == mode = "string" /\ j > n /\ Refuse

(* Numbers: a "." is taken only when a digit follows it.                       *)
StartNumber == Scanning /\ input[i] \in Digits /\ Enter("int", i)

Digit == mode \in {"int", "fraction"} /\ AtDigit(j) /\ Move(j + 1)

AtPoint == j <= n /\ input[j] = "." /\ AtDigit(j + 1)

DecimalPoint ==
  /\ mode = "int"
  /\ AtPoint
  /\ Enter("fraction", j + 1)

(* A slip: a number ends one character early.                                  *)
EndIntOneShort == mode = "int" /\ ~AtDigit(j) /\ ~AtPoint /\ Emit("Int", j - 2)

EndInt == mode = "int" /\ ~AtDigit(j) /\ ~AtPoint /\ Emit("Int", j - 1)

EndFloat == mode = "fraction" /\ ~AtDigit(j) /\ Emit("Float", j - 1)

(* Identifiers: scanned whole, then looked up.                                 *)
StartName == Scanning /\ input[i] \in NameStart /\ Enter("name", i)

NameCharacter == mode = "name" /\ j <= n /\ input[j] \in NameContinue /\ Move(j + 1)

WordType(w) == IF w \in DOMAIN Keywords THEN Keywords[w] ELSE "Name"

EndName ==
  /\ mode = "name"
  /\ ~(j <= n /\ input[j] \in NameContinue)
  /\ Emit(WordType(SubSeq(input, i, j - 1)), j - 1)

(* The end of the input: the EOF token sits behind it and is empty.            *)
(* A slip: the EOF token is appended inside the loop.                          *)
EndTwice ==
  /\ mode = "scan"
  /\ i = n + 1
  /\ toks' = Append(toks, Token("EOF", n + 1, n))
  /\ UNCHANGED <<input, i, j, mode>>

End ==
  /\ mode = "scan"
  /\ i = n + 1
  /\ toks' = Append(toks, Token("EOF", n + 1, n))
  /\ mode' = "done"
  /\ UNCHANGED <<input, i, j>>

Returned == mode \in {"done", "error"} /\ UNCHANGED vars

Next ==
  \/ SkipSpace \/ Punctuate \/ LongOperator \/ ShortOperator \/ BadCharacter
  \/ OpenString \/ StringCharacter \/ CloseString \/ UnterminatedString
  \/ StartNumber \/ Digit \/ DecimalPoint \/ EndInt \/ EndFloat
  \/ StartName \/ NameCharacter \/ EndName
  \/ End \/ Returned

Spec == Init /\ [][Next]_vars /\ WF_vars(Next)

-----------------------------------------------------------------------------
(* Properties.                                                                 *)

(* The tokens lie in the order of the input without overlapping, each but the  *)
(* EOF token holds a character at least, and all of them lie before i ...      *)
Ordered ==
  \A k \in 1..Len(toks) :
    /\ toks[k].typ # "EOF" => toks[k].from <= toks[k].to
    /\ \A l \in 1..k - 1 : toks[l].to < toks[k].from
    /\ toks[k].from >= 1 /\ toks[k].to < i

(* ... and nothing but white space is passed over.                             *)
NothingSkipped ==
  \A p \in 1..i - 1 :
    \/ input[p] \in Spaces
    \/ \E k \in 1..Len(toks) : p \in toks[k].from..toks[k].to

(* tokenize neither loses nor reads twice a character of the expression, so a  *)
(* token's value and pos fields always name its own text.                      *)
Tiling == Ordered /\ NothingSkipped

(* astParser.peek relies on it: the EOF token comes with the end of tokenize,  *)
(* and it is the last and only one.                                            *)
EofLast ==
  /\ mode = "done" => toks # <<>>
  /\ \A k \in 1..Len(toks) : toks[k].typ = "EOF" <=> (mode = "done" /\ k = Len(toks))

(* What holds inside the inner loops: they are ahead of i, so the lexeme they  *)
(* end has a character.                                                        *)
InLoop ==
  mode \in {"string", "int", "fraction", "name"} =>
    /\ i <= n /\ j >= i
    /\ mode = "int" => input[i] \in Digits
    /\ mode = "name" => input[i] \in NameStart
    /\ mode \in {"string", "fraction"} => j > i

(* The inductive invariant behind Tiling and EofLast.                          *)
IInv == TypeOK /\ Tiling /\ EofLast /\ InLoop

(* tokenize scans by longest match: an inner loop is part of the step that     *)
(* takes the lexeme it ends, or of the one that finds there is none.           *)
Match == INSTANCE LongestMatch
           WITH status <- IF mode \in {"done", "error"} THEN mode ELSE "scan"

ScansLongestMatch == Match!Spec

(* How many more steps the scan takes, at most: an inner loop goes over the    *)
(* characters from i again, one by one, and the outer one goes on behind them. *)
Work ==
  CASE mode = "scan" -> 3 * (n + 1 - i) + 1
    [] mode \in {"string", "int", "fraction", "name"} -> 2 * (n + 1 - i) + (n + 1 - j)
    [] OTHER -> 0

(* tokenize takes time linear in the length of the expression: three steps for *)
(* a character at most, and one for the EOF token.  No loop stands still, and  *)
(* none gives characters back.                                                 *)
LinearTime == [][Work' \in 0..Work - 1]_vars

(* What an inner loop has read is the beginning of a lexeme of its kind, with  *)
(* no end of it yet.                                                           *)
Digital(from, to) == \A k \in from..to : input[k] \in Digits

ReadSoFar ==
  /\ mode = "string" =>
       LET rest == SubSeq(input, i, n)
       IN /\ input[i] \in Quotes
          /\ \A k \in 2..j - i : ~Match!Closes(rest, k)
          /\ j <= n => ~Match!Protected(rest)[j - i + 1]
  /\ mode = "int" => Digital(i, j - 1)
  /\ mode = "fraction" =>
       \E p \in i + 1..j - 1 : /\ input[p] = "." /\ AtDigit(p + 1)
                              /\ Digital(i, p - 1) /\ Digital(p + 1, j - 1)
  /\ mode = "name" => \A k \in i..j - 1 : input[k] \in NameContinue

(* "so the result is always a valid string literal regardless of what s        *)
(* contains" (ast.go:54): the text of every literal scanned is written as one  *)
(* lexeme again, and reads as itself unless it holds a quote or a backslash,   *)
(* which quoteLiteral protects and unquoteString leaves protected.             *)
LiteralsReread ==
  mode = "done" =>
    \A k \in 1..Len(toks) : toks[k].typ = "String" =>
      LET text == Unquote(SubSeq(input, toks[k].from, toks[k].to))
      IN /\ Match!IsString(QuoteLiteral(text))
         /\ Unquote(QuoteLiteral(text)) = text <=> \A p \in 1..Len(text) : text[p] \notin Special
=============================================================================
