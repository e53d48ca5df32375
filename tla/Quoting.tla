------------------------------- MODULE Quoting -------------------------------
(* How the text of a string literal is written (ast.go) and read (astparse.go),*)
(* character by character.                                                     *)
EXTENDS LexSyntax, SequencesExt

Quote == "\""

Special == {Quote, Backslash}

Written(c, escaped) == IF c \in escaped THEN <<Backslash, c>> ELSE <<c>>

Quoted(s, escaped) ==
  <<Quote>> \o FlattenSeq([k \in 1..Len(s) |-> Written(s[k], escaped)]) \o <<Quote>>

(* A slip: a backslash is written as it is.                                    *)
QuoteLiteralRaw(s) == Quoted(s, {Quote})

(* quoteLiteral                                                                *)
QuoteLiteral(s) == Quoted(s, Special)

(* unquoteString: the quotes go, whatever protects a character stays.          *)
Unquote(raw) ==
  IF Len(raw) >= 2 /\ raw[1] \in Quotes THEN SubSeq(raw, 2, Len(raw) - 1) ELSE raw
=============================================================================
