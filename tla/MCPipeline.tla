----------------------------- MODULE MCPipeline -----------------------------
(* Instances of Pipeline: expressions put together from pieces of text, read,  *)
(* parsed and evaluated for one user.                                          *)
EXTENDS Pipeline, Equality, MCRegistry

CONSTANTS Pieces,     \* texts expressions are put together from
          MaxPieces,  \* how many of them at most
          Whole       \* longer expressions, taken as they are

(* TLA+ has no operator for a character of a string, but for strings of one.   *)
Chars(word) == [k \in 1..Len(word) |-> SubSeq(word, k, k)]

Texts == {FlattenSeq([k \in 1..Len(p) |-> Chars(p[k])]) : p \in BoundedSeq(Pieces, MaxPieces)}
         \cup {Chars(s) : s \in Whole}

MCInputs == Texts

Keyword(s) ==
  CASE s \in {"and", "AND"} -> "And"
    [] s \in {"or", "OR"} -> "Or"
    [] s = "not" -> "Not"
    [] s = "ne" -> "NE"
    [] s = "eq" -> "EQ"
    [] s \in {"true", "False"} -> "Bool"
    [] s = "null" -> "Null"
    [] s = "user" -> "User"
    [] s = "isMemberOfGroup" -> "MemberOf"
    [] s = "isMemberOfGroupNameRegex" -> "MemberOfGroupNameRegex"
    [] s = "Arrays" -> "Class"

KeywordTexts == {"and", "AND", "or", "OR", "not", "ne", "eq", "true", "False", "null", "user",
                 "isMemberOfGroup", "isMemberOfGroupNameRegex", "Arrays"}

Spelled == [w \in {Chars(s) : s \in KeywordTexts} |->
              Keyword(CHOOSE s \in KeywordTexts : Chars(s) = w)]
MCKeywords == Spelled

(* The codes of the characters the instance's literals are made of.            *)
Ascii == << "(", ")", "*", "+", ",", "-", ".", "/",
            "0", "1", "2", "3", "4", "5", "6", "7", "8", "9">>
Lowercase == << "a", "b", "c", "d", "e", "f", "g" >>

MCCode(c) ==
  CASE c \in Range(Ascii) -> 39 + CHOOSE k \in DOMAIN Ascii : Ascii[k] = c
    [] c \in Range(Lowercase) -> 96 + CHOOSE k \in DOMAIN Lowercase : Lowercase[k] = c
    [] c = " " -> 32
    [] c = Backslash -> 92
    [] c = Quote -> 34
    [] OTHER -> 63

MethodNames == {"size", "contains", "get"}

MCCallClass(node, args) ==
  LET names == {s \in MethodNames : Chars(s) = node.name}
  IN CallOf("Arrays", IF names = {} THEN "none" ELSE CHOOSE s \in names : TRUE, args)

(* A pattern is plain text here, and "(" is refused.                           *)
MCFirstMatch(pattern, name) ==
  LET at == Occurrences(pattern, name)
  IN IF at = {} THEN 0 ELSE 1 + CHOOSE k \in at : \A m \in at : k <= m
MCBadPatterns == {<<40>>}

Staff == [profile |-> Map([name \in {<<"a">>} |-> Text(<<97>>)]),
          groupIDs |-> {<<97>>}, groupData |-> {Map([profile |-> Map([name |-> Text(<<97>>)])])},
          classes |-> {Chars("Arrays")}, strict |-> TRUE]

MCContexts == {Staff}
MCAccessors == {"bool"}

MCPieces == {"user.a", " user.b", "1", "2.0", "'a'", " and ", " OR ", "not ", "==", "+", ">",
             "(", ")", "?", ":", ",", "isMemberOfGroup(", "Arrays.size(", "{", "}", "&", "b"}

MCWhole == {
  "user.a == 'a' and !isMemberOfGroup('b') or 1 + 1 >= 2",
  "isMemberOfGroup(user.a) ? 'a' : (user.b ? 1, 2 : 3)",
  "Arrays.size({1 + 2 + 3, {4}, (5)}) > 2 + '1'",
  "Arrays.get({true, null}, user.a == 'a' ? 0 : 1) != False",
  "1 + 1 + 'a' + user.b",
  "isMemberOfGroupNameRegex('(') or user.c",
  "99999 + 1", "1.5 + 0.5 == 2.0", "Arrays.none(1)", "\"a\\\"b\" + 'c'", "{1} < {2}"}
=============================================================================
