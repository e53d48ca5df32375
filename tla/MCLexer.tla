------------------------------- MODULE MCLexer -------------------------------
(* Instances of Lexer: texts over small alphabets, one for each inner loop of  *)
(* the scanner and one for the operators.                                      *)
EXTENDS Lexer

StringAlphabet == {"\"", "'", "\\", "a", " "}
WordAlphabet == {"n", "e", "-", "1", ".", "\t"}
OperatorAlphabet == {"!", "=", "<", ">", "&", "|", "(", "@", " "}

Texts == BoundedSeq(StringAlphabet, 5) \cup BoundedSeq(WordAlphabet, 5)
         \cup BoundedSeq(OperatorAlphabet, 4)

(* TLC works Texts out once; a definition named in a .cfg it would not.        *)
MCInputs == Texts

(* Two keywords, one the beginning of the other and both of many names.        *)
MCKeywords == [w \in {<<"n", "e">>, <<"n", "e", "n">>} |->
                 IF w = <<"n", "e">> THEN "NE" ELSE "Null"]
=============================================================================
