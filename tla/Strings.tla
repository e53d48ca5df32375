------------------------------- MODULE Strings -------------------------------
(* string.go: the String class.  Case is that of the letters of ASCII.         *)
EXTENDS Conversions

IsText(v) == Type(v) = "string"

First(t, s) == CHOOSE k \in Occurrences(t, s) : \A j \in Occurrences(t, s) : k <= j

Before(t, s) == SubSeq(s, 1, First(t, s))
After(t, s) == SubSeq(s, First(t, s) + Len(t) + 1, Len(s))

Lower(s) == [k \in DOMAIN s |-> IF s[k] \in 65..90 THEN s[k] + 32 ELSE s[k]]
Upper(s) == [k \in DOMAIN s |-> IF s[k] \in 97..122 THEN s[k] - 32 ELSE s[k]]

(* strings.ReplaceAll: from the left, without overlaps; an empty text occurs   *)
(* before every character and at the end.                                      *)
Replaced(s, t, r) ==
  LET found == Occurrences(t, s)
      skips(k) == k \in found /\ t # <<>>
      from[k \in 0..Len(s)] ==
        (IF k \in found THEN r ELSE <<>>) \o
        (IF skips(k) THEN from[k + Len(t)]
         ELSE IF k = Len(s) THEN <<>> ELSE <<s[k + 1]>> \o from[k + 1])
  IN from[0]

ReplacedFirst(s, t, r) == IF Occurs(t, s) THEN Before(t, s) \o r \o After(t, s) ELSE s

-----------------------------------------------------------------------------
(* stringContains: Python's "v in container".                                  *)
StringContains(container, v) ==
  CASE IsText(container) -> IsText(v) /\ Occurs(Contents(v), Contents(container))
    [] Type(container) = "Array" ->
         \E k \in 1..Len(Contents(container)) : Equal(Contents(container)[k], v)
    [] OTHER -> FALSE

ToLowerCase(v) == IF IsText(v) THEN Text(Lower(Contents(v))) ELSE v
ToUpperCase(v) == IF IsText(v) THEN Text(Upper(Contents(v))) ELSE v

Dollar == 36
Appended(v, w) == PyStr(v) \o <<Dollar>> \o PyStr(w)

Joined(separator, parts) ==
  FlattenSeq([k \in 1..Len(parts) |->
    IF k = 1 THEN Contents(parts[k]) ELSE separator \o Contents(parts[k])])

(* A slip: replace stops after the first match.                                *)
StringReplaceOnce(v, match, replacement) ==
  ReplacedFirst(PyStr(v), PyStr(match), PyStr(replacement))

StringReplace(v, match, replacement) ==
  Replaced(PyStr(v), PyStr(match), PyStr(replacement))

(* The loop of stringSwitch ends at the first key that v contains, or that is  *)
(* no string.                                                                  *)
Switched(v, default, pairs) ==
  LET key(i) == pairs[2 * i - 1]
      ends == {i \in 1..Len(pairs) \div 2 :
                 ~IsText(key(i)) \/ Occurs(Contents(key(i)), Contents(v))}
      stop == CHOOSE i \in ends : \A j \in ends : i <= j
  IN IF Len(pairs) % 2 # 0 THEN Ok(Bool(FALSE))
     ELSE IF ends = {} THEN Ok(default)
     ELSE IF IsText(key(stop)) THEN Ok(pairs[2 * stop]) ELSE Err

(* A slip: the end of the text counts as behind it.                            *)
SubstringShort(s, start, end) == PySlice(s, start, IF end >= Len(s) THEN -1 ELSE end)

(* An end behind the text is -1, so the last character is lost.                *)
Substring(s, start, end) == PySlice(s, start, IF end > Len(s) THEN -1 ELSE end)

Subtext(v, start, end) ==
  IF ~IsText(v) THEN Ok(Text(<<>>))
  ELSE IF ~start.ok \/ ~end.ok THEN Err
  ELSE Ok(Text(Substring(Contents(v), Contents(start.val), Contents(end.val))))

(* A slip: what is searched for is part of what comes after it.                *)
SubstringAfterInclusive(v, t) ==
  IF Occurs(t, PyStr(v)) THEN Text(t \o After(t, PyStr(v))) ELSE v

SubstringAfter(v, t) == IF Occurs(t, PyStr(v)) THEN Text(After(t, PyStr(v))) ELSE v
SubstringBefore(v, t) == IF Occurs(t, PyStr(v)) THEN Text(Before(t, PyStr(v))) ELSE v

-----------------------------------------------------------------------------
StringArity ==
  [len |-> 1, stringContains |-> 2, startsWith |-> 2, toLowerCase |-> 1, toUpperCase |-> 1,
   append |-> 2, removeSpaces |-> 1, replace |-> 3, replaceFirst |-> 3, contains |-> 2,
   substring |-> 3, substringAfter |-> 2, substringBefore |-> 2]

(* The argument checks: how many, and what must be a string.                   *)
StringArgsOk(method, args) ==
  CASE method = "join" -> args # <<>> /\ \A k \in 1..Len(args) : IsText(args[k])
    [] method = "stringSwitch" -> Len(args) >= 2 /\ IsText(args[1])
    [] OTHER -> /\ method \in DOMAIN StringArity
                /\ Len(args) = StringArity[method]
                /\ method = "len" => IsText(args[1])
                /\ method = "startsWith" => IsText(args[2])

StringCall(method, args) ==
  IF ~StringArgsOk(method, args) THEN Err
  ELSE LET v == args[1]
       IN CASE method = "len" -> Ok(Number(Len(Contents(v))))
            [] method = "stringContains" -> Ok(Bool(StringContains(v, args[2])))
            [] method = "startsWith" -> Ok(Bool(HasPrefix(PyStr(v), Contents(args[2]))))
            [] method = "toLowerCase" -> Ok(ToLowerCase(v))
            [] method = "toUpperCase" -> Ok(ToUpperCase(v))
            [] method = "append" -> Ok(Text(Appended(v, args[2])))
            [] method = "join" -> Ok(Text(Joined(Contents(v), Tail(args))))
            [] method = "removeSpaces" -> Ok(Text(Replaced(PyStr(v), <<32>>, <<>>)))
            [] method = "replace" -> Ok(Text(StringReplace(v, args[2], args[3])))
            [] method = "replaceFirst" ->
                 Ok(Text(ReplacedFirst(PyStr(v), PyStr(args[2]), PyStr(args[3]))))
            [] method = "contains" -> Ok(Bool(Occurs(PyStr(args[2]), PyStr(v))))
            [] method = "stringSwitch" -> Switched(v, args[2], SubSeq(args, 3, Len(args)))
            [] method = "substring" -> Subtext(v, ToInt(args[2]), ToInt(args[3]))
            [] method = "substringAfter" -> Ok(SubstringAfter(v, PyStr(args[2])))
            [] method = "substringBefore" -> Ok(SubstringBefore(v, PyStr(args[2])))
=============================================================================
