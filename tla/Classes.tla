------------------------------- MODULE Classes -------------------------------
(* Calls of the default classes nested in one another: the value of one is the *)
(* first argument of the next, as in                                           *)
(* String.substring(String.replace(user.name, " ", ""), 0, 3).                 *)
EXTENDS Registry

CONSTANTS
  Sources,    \* the values the innermost call may be given
  Arguments,  \* the other arguments of a call
  MaxLength   \* how long a text or an array may get, except a country's

(* What a value is that holds no others.                                       *)
Scalar(v) ==
  \/ v = Null
  \/ v \in {"bool"} \X BOOLEAN
  \/ v \in {"int"} \X Int /\ Contents(v) = Wrap(Contents(v))
  \/ v \in {"float64"} \X Int
  \/ v \in {"string"} \X Seq(Nat)

Given == Sources \cup UNION {Range(rest) : rest \in Arguments}

(* With an array, a tuple or a map, what is in it is among what is given: a    *)
(* profile holds maps, and {true ? 1,2 : 3} is an array that holds a tuple.    *)
ASSUME GivenAssumption ==
  /\ \A rest \in Arguments : rest \in Seq(Given)
  /\ \A v \in Given :
       \/ Scalar(v)
       \/ v \in {"Array", "Tuple"} \X Seq(Given)
       \/ v = Map(Contents(v)) /\ Range(Contents(v)) \subseteq Given

(* A tuple or a map that a rule or a profile brings along.                     *)
Compound(v) == v \in Given /\ Type(v) \in {"Tuple", "map"}

Cells == {Table[i][column] : i \in Rows, column \in Columns}

(* Texts and arrays are no longer than an int can say.                         *)
Lengths ==
  0..MaxLength \cup {Len(s) : s \in Cells}
  \cup {Len(Contents(v)) : v \in {v \in Given : Type(v) \in {"string", "Array"}}}

ASSUME LengthAssumption ==
  MaxLength \in Nat \ {0} /\ \A n \in Lengths : n = Wrap(n)

VARIABLES
  value,   \* what the calls so far have returned
  failed   \* whether one of them returned an error

vars == <<value, failed>>

Bounded(v) ==
  CASE IsText(v) -> Len(Contents(v)) <= MaxLength \/ Contents(v) \in Cells
    [] Type(v) = "Array" -> Len(Contents(v)) <= MaxLength
    [] OTHER -> TRUE

(* The comma joins what the call before returned with the other arguments: a   *)
(* tuple becomes several of them.                                              *)
Outcome(m, rest) == CallOf(m[1], m[2], SpreadArgs(value) \o rest)

Init == value \in Sources /\ failed = FALSE

Nest ==
  /\ ~failed
  /\ \E m \in Methods, rest \in Arguments :
       LET outcome == Outcome(m, rest)
       IN outcome.ok /\ Bounded(outcome.val) /\ value' = outcome.val
  /\ UNCHANGED failed

Fail ==
  /\ ~failed
  /\ \E m \in Methods, rest \in Arguments : ~Outcome(m, rest).ok
  /\ failed' = TRUE
  /\ UNCHANGED value

Next == Nest \/ Fail

Spec == Init /\ [][Next]_vars

-----------------------------------------------------------------------------
(* Properties: what a rule that nests calls relies on, for every value other   *)
(* calls can return.                                                           *)

(* Whatever is converted into whatever else, an int stays one the machine has, *)
(* and a tuple, which the next call would spread into arguments, or a map only *)
(* comes out of a call (of get, flatten, stringSwitch, toLowerCase ...) whole, *)
(* as it was given: no call makes one or changes one.                          *)
TypeOK ==
  /\ failed \in BOOLEAN
  /\ \/ Scalar(value) \/ Compound(value)
     \/ /\ Type(value) = "Array"
        /\ \A k \in 1..Len(Contents(value)) :
             LET v == Contents(value)[k]
             IN Scalar(v) \/ Compound(v) \/ Type(v) = "Array"

Subject == PyStr(value)

(* A method's answer when the value is its first argument.                     *)
Call(class, method, rest) == CallOf(class, method, <<value>> \o rest).val

(* substring cuts what Python's slice does, with an end behind the text        *)
(* standing for its last character ("the source library's quirky end=-1        *)
(* fallback", string.go:229).                                                  *)
SlicesLikePython ==
  IsText(value) =>
    \A start, end \in -Len(Contents(value)) - 2..Len(Contents(value)) + 2 :
      IsSlice(Contents(Call("String", "substring", <<Number(start), Number(end)>>)),
              Contents(value), start, IF end > Len(Contents(value)) THEN -1 ELSE end)

Needles == {rest[1] : rest \in {rest \in Arguments : Len(rest) = 1}}

(* The methods that search agree on what is found and where: what comes before *)
(* and after the first match, put around it, is the text again; nothing before *)
(* matches; contains, replaceFirst and stringSwitch find the same; and what is *)
(* not found leaves the value as it is.                                        *)
SearchesAgree ==
  \A v \in Needles :
    LET t == PyStr(v)
        before == Call("String", "substringBefore", <<v>>)
        after == Call("String", "substringAfter", <<v>>)
        once == Call("String", "replaceFirst", <<v, Text(<<0>>)>>)
        choice == StringCall("stringSwitch", <<Text(Subject), Number(0), Text(t), Number(1)>>)
    IN /\ choice.val = Number(BoolToInt(Contents(Call("String", "contains", <<v>>))))
       /\ IF Contents(Call("String", "contains", <<v>>))
            THEN /\ Contents(before) \o t \o Contents(after) = Subject
                 /\ Contents(once) = Contents(before) \o <<0>> \o Contents(after)
                 /\ \A k \in Occurrences(t, Subject) : k >= Len(Contents(before))
            ELSE before = value /\ after = value /\ Contents(once) = Subject

(* Replacing a text by a character that occurs in neither, and that character  *)
(* by the text, is as if nothing had been done: every match is replaced, none  *)
(* twice, and nothing else.                                                    *)
ReplaceUndone ==
  \A v \in Needles :
    LET there == Call("String", "replace", <<v, Text(<<0>>)>>)
        back == StringCall("replace", <<there, Text(<<0>>), v>>)
    IN 0 \notin Range(Subject) \cup Range(PyStr(v)) =>
         /\ Contents(back.val) = Subject
         /\ PyStr(v) # <<>> => ~Occurs(PyStr(v), Contents(there))

(* What is left of a list without some elements: the others, in their order.   *)
Keeps(rest, elems, kept) ==
  \E at \in [1..Len(rest) -> 1..Len(elems)] :
    /\ Range(at) = kept
    /\ \A k \in 1..Len(rest) : rest[k] = elems[at[k]]
    /\ \A j, k \in 1..Len(rest) : j < k => at[j] < at[k]

(* A list's elements are found by membership under both its names ("does a     *)
(* membership check", README.md:244); taking a value out takes out every       *)
(* element that is equal to it, and leaves all others as they were, in order.  *)
MembersAgree ==
  Type(value) = "Array" =>
    \A v \in Needles :
      LET has == Call("Arrays", "contains", <<v>>)
          without == Call("Arrays", "remove", <<v>>)
      IN /\ Call("String", "stringContains", <<v>>) = has
         /\ Contents(has) <=> without # value
         /\ Keeps(Contents(without), Contents(value),
                  {k \in 1..Len(Contents(value)) : ~Equal(Contents(value)[k], v)})

(* Arrays.get counts from the end once: of the indices from far below to far   *)
(* above, an element has two, and all others find nil.                         *)
IndexedTwice ==
  Type(value) = "Array" =>
    LET elems == Contents(value)
        got(i) == Call("Arrays", "get", <<Number(i)>>)
    IN \A i \in -Len(elems) - 2..Len(elems) + 2 :
         got(i) = IF \E k \in 1..Len(elems) : i \in {k - 1, k - 1 - Len(elems)}
                    THEN elems[CHOOSE k \in 1..Len(elems) : i \in {k - 1, k - 1 - Len(elems)}]
                    ELSE Null

Distance(a, b) == IF a < b THEN b - a ELSE a - b

(* A number survives being written as a text and read again, and a float       *)
(* becomes an int next to which no other is nearer, a float and its negation   *)
(* alike ("123.4 -> 123, 123.6 -> 124", convert.go:34).                        *)
NumbersKept ==
  /\ Type(value) = "int" =>
       ConvertToInt(Text(Contents(Call("String", "removeSpaces", <<>>)))).val = value
  /\ Type(value) = "float64" =>
       LET q == Contents(value)
           fits(p) == Rounded(p) = Wrap(Rounded(p))
           whole(p) == Contents(ConvertToInt(Float(p)).val)
       IN /\ fits(q) => \A n \in whole(q) - 1..whole(q) + 1 :
               Distance(q, Quarters * n) >= Distance(q, Quarters * whole(q))
          /\ fits(q) /\ fits(-q) => whole(-q) = -whole(q)

(* A country keeps its identity: converted to a name or a code and from there  *)
(* to another, in any case, it is what a direct conversion gives.              *)
SameCountry ==
  \A method, via \in IsoMethods :
    LET there == Call("Iso3166Convert", via, <<>>)
        back == Call("Iso3166Convert", method, <<>>)
    IN there # Null =>
         /\ IsoCall(method, <<there>>).val = back
         /\ IsoCall(method, <<ToLowerCase(there)>>).val = back
         /\ IsoCall(method, <<ToUpperCase(value)>>).val = back
=============================================================================
