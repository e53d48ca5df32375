------------------------------ MODULE LexSyntax ------------------------------
(* Characters and fixed lexemes of lexer.go.  A character is a string of       *)
(* length one and a text a sequence of characters.                             *)
EXTENDS Syntax, Integers, Sequences

Spaces == {" ", "\t", "\n", "\r"}
Digits == {"0", "1", "2", "3", "4", "5", "6", "7", "8", "9"}
Quotes == {"\"", "'"}
Backslash == "\\"

NameStart == {"_",
  "a", "b", "c", "d", "e", "f", "g", "h", "i", "j", "k", "l", "m",
  "n", "o", "p", "q", "r", "s", "t", "u", "v", "w", "x", "y", "z",
  "A", "B", "C", "D", "E", "F", "G", "H", "I", "J", "K", "L", "M",
  "N", "O", "P", "Q", "R", "S", "T", "U", "V", "W", "X", "Y", "Z"}

NameContinue == NameStart \cup Digits \cup {"-"}

(* Characters that are a token by themselves, whatever follows.                *)
Punctuation == {"(", ")", ",", ".", "{", "}", ":", "?", "+"}

PunctuationType(c) ==
  CASE c = "(" -> "LParen" [] c = ")" -> "RParen" [] c = "," -> "Comma"
    [] c = "." -> "Dot"    [] c = "{" -> "LBrace" [] c = "}" -> "RBrace"
    [] c = ":" -> "Colon"  [] c = "?" -> "Question" [] c = "+" -> "Plus"

(* The first characters of the operators, the character that makes each one    *)
(* two characters long, and the types with and without it; "=", "&" and "|"    *)
(* mean nothing alone.                                                         *)
Operators == {"!", ">", "<", "=", "&", "|"}
Second(c) == IF c \in {"&", "|"} THEN c ELSE "="

LongType(c) ==
  CASE c = "!" -> "NE" [] c = ">" -> "GTE" [] c = "<" -> "LTE"
    [] c = "=" -> "EQ" [] c = "&" -> "And" [] c = "|" -> "Or"

ShortOperators == {"!", ">", "<"}
ShortType(c) == CASE c = "!" -> "Not" [] c = ">" -> "GT" [] c = "<" -> "LT"
=============================================================================
