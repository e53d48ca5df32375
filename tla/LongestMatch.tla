---------------------------- MODULE LongestMatch ----------------------------
(* What a lexer of this language promises: from left to right, skip white      *)
(* space, else take the longest prefix of the rest that is a lexeme; stop with *)
(* an error where no prefix is one.  A lexeme is described by its shape alone, *)
(* with no look-ahead and no loop.                                             *)
EXTENDS LexSyntax

CONSTANTS Inputs, Keywords
VARIABLES input, i, status, toks

vars == <<input, i, status, toks>>

All(s, S) == \A k \in 1..Len(s) : s[k] \in S

IsInt(s) == s # <<>> /\ All(s, Digits)

IsFloat(s) ==
  \E p \in 2..Len(s) - 1 :
    s[p] = "." /\ IsInt(SubSeq(s, 1, p - 1)) /\ IsInt(SubSeq(s, p + 1, Len(s)))

IsWord(s) == s # <<>> /\ s[1] \in NameStart /\ All(s, NameContinue)

(* A character is protected when an unprotected backslash precedes it.         *)
Protected(s) ==
  LET protected[k \in 1..Len(s)] ==
        k > 2 /\ s[k - 1] = Backslash /\ ~protected[k - 1]
  IN protected

(* A quote that is not protected ends a literal.                               *)
Closes(s, k) == s[k] = s[1] /\ ~Protected(s)[k]

IsString(s) ==
  /\ Len(s) >= 2
  /\ s[1] \in Quotes
  /\ \A k \in 2..Len(s) : Closes(s, k) <=> k = Len(s)

(* The type of lexeme s, or "none".                                            *)
LexemeType(s) ==
  CASE Len(s) = 1 /\ s[1] \in Punctuation -> PunctuationType(s[1])
    [] Len(s) = 1 /\ s[1] \in ShortOperators -> ShortType(s[1])
    [] Len(s) = 2 /\ s[1] \in Operators /\ s[2] = Second(s[1]) -> LongType(s[1])
    [] IsString(s) -> "String"
    [] IsInt(s) -> "Int"
    [] IsFloat(s) -> "Float"
    [] IsWord(s) -> IF s \in DOMAIN Keywords THEN Keywords[s] ELSE "Name"
    [] OTHER -> "none"

TypeAt(to) == LexemeType(SubSeq(input, i, to))

Ends == {to \in i..Len(input) : TypeAt(to) # "none"}

Init == input \in Inputs /\ i = 1 /\ status = "scan" /\ toks = <<>>

Scanning == status = "scan" /\ i <= Len(input)

Skip ==
  /\ Scanning
  /\ input[i] \in Spaces
  /\ i' = i + 1
  /\ UNCHANGED <<input, status, toks>>

Take ==
  /\ Scanning
  /\ \E to \in Ends :
       /\ \A t \in Ends : t <= to
       /\ toks' = Append(toks, [typ |-> TypeAt(to), from |-> i, to |-> to])
       /\ i' = to + 1
  /\ UNCHANGED <<input, status>>

Reject ==
  /\ Scanning
  /\ input[i] \notin Spaces
  /\ Ends = {}
  /\ status' = "error"
  /\ UNCHANGED <<input, i, toks>>

Finish ==
  /\ status = "scan"
  /\ i = Len(input) + 1
  /\ toks' = Append(toks, [typ |-> "EOF", from |-> i, to |-> i - 1])
  /\ status' = "done"
  /\ UNCHANGED <<input, i>>

Next == Skip \/ Take \/ Reject \/ Finish

Spec == Init /\ [][Next]_vars /\ WF_vars(Next)
=============================================================================
