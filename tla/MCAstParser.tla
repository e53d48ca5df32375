----------------------------- MODULE MCAstParser -----------------------------
(* Instances of AstParser: which token streams TLC feeds it, and the parser    *)
(* compared with the reference grammar.                                        *)
EXTENDS ParsedTrees

CONSTANTS Pieces,     \* token groups streams are put together from
          MaxPieces,  \* how many of them at most
          MaxLogic,   \* how many of the pieces of chains and comparisons
          Seeds       \* longer streams, taken as they are and with one edit

Eof(s) == Append(s, "EOF")

Without(s, i) == SubSeq(s, 1, i - 1) \o SubSeq(s, i + 1, Len(s))

Edited(s) ==
  {s} \cup {Without(s, i) : i \in 1..Len(s)} \cup
  {[s EXCEPT ![i] = x] : i \in 1..Len(s), x \in TokenTypes \ {"EOF"}}

FromSeeds == {Eof(s) : s \in UNION {Edited(s) : s \in Seeds}}

LogicPieces == {<<"Bool">>, <<"MemberOf", "LParen", "String", "RParen">>,
                <<"And">>, <<"Or">>, <<"Not">>, <<"EQ">>, <<"Plus">>,
                <<"LParen">>, <<"RParen">>}

Assembled ==
  {Eof(FlattenSeq(p)) : p \in BoundedSeq(Pieces, MaxPieces) \cup BoundedSeq(LogicPieces, MaxLogic)}

MCStreams == Assembled \cup FromSeeds

ListPieces == {<<"Int">>, <<"Comma", "Int">>, <<"Int", "Question">>, <<"Colon", "Int">>,
               <<"LBrace">>, <<"RBrace">>, <<"Class", "Dot", "Name", "LParen">>,
               <<"RParen">>, <<"User", "Dot", "Name">>, <<"Comma">>}

(* One seed per shape of expression the README and the tests use.              *)
LongSeeds == {
  \* user.a == "x" AND !isMemberOfGroup("g") OR b + 1 >= 2.5
  <<"User", "Dot", "Name", "EQ", "String", "And", "Not", "MemberOf", "LParen", "String",
    "RParen", "Or", "Name", "Plus", "Int", "GTE", "Float">>,
  \* f(a ? 1 : (b ? 2, 3 : 4), 5)
  <<"Class", "Dot", "Name", "LParen", "Name", "Question", "Int", "Colon", "LParen", "Name",
    "Question", "Int", "Comma", "Int", "Colon", "Int", "RParen", "Comma", "Int", "RParen">>,
  \* {1 + 2 + 3, {4}, (5)}  and  user.isMemberOfAnyGroup({1}, 2).a
  <<"LBrace", "Int", "Plus", "Int", "Plus", "Int", "Comma", "LBrace", "Int", "RBrace",
    "Comma", "LParen", "Int", "RParen", "RBrace">>,
  <<"User", "Dot", "MemberOfAny", "LParen", "LBrace", "Int", "RBrace", "Comma", "Int",
    "RParen", "Dot", "Name">>}
=============================================================================
