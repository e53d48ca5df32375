----------------------------- MODULE Operations -----------------------------
(* asteval.go: what the eval* methods make of the values of a node's operands, *)
(* for the user an expression is evaluated for.                                *)
EXTENDS Values

CONSTANTS
  BadPatterns,       \* what regexp.Compile refuses
  FirstMatch(_, _)   \* where a pattern first matches a name, 0 if nowhere

-----------------------------------------------------------------------------
(* A property of a value; strings lose their quotes.                           *)
WithoutQuotes(s) ==
  LET kept[k \in 0..Len(s)] ==
        IF k = 0 THEN <<>> ELSE IF s[k] = 34 THEN kept[k - 1] ELSE Append(kept[k - 1], s[k])
  IN kept[Len(s)]

Unquoted(v) == IF Type(v) = "string" THEN Text(WithoutQuotes(Contents(v))) ELSE v

Holds(v, name) == Type(v) = "map" /\ name \in DOMAIN Contents(v)

(* A slip: a property keeps the quotes it was stored with.                     *)
LookupRaw(v, name) == IF Holds(v, name) THEN Contents(v)[name] ELSE Null

Lookup(v, name) == IF Holds(v, name) THEN Unquoted(Contents(v)[name]) ELSE Null

-----------------------------------------------------------------------------
(* groupProfileName: group["profile"]["name"], if that is a string.            *)
Member(v, key) == IF Holds(v, key) THEN {Contents(v)[key]} ELSE {}

ProfileNames(user) ==
  {Contents(name) : name \in {n \in UNION {Member(profile, "name") :
     profile \in UNION {Member(group, "profile") : group \in user.groupData}} : Type(n) = "string"}}

NameMatches(kind, name, target) ==
  CASE kind = "MemberOfName" -> name = target
    [] kind = "MemberOfGroupStartsWith" -> HasPrefix(name, target)
    [] kind = "MemberOfGroupContains" -> Occurs(target, name)
    [] kind = "MemberOfGroupNameRegex" -> FirstMatch(target, name) = 1

IsGroupId(user, v) == Type(v) = "string" /\ Contents(v) \in user.groupIDs

IsMember(user, kind, arg) ==
  CASE kind = "MemberOf" -> IsGroupId(user, arg)
    [] kind = "MemberOfAny" -> \E k \in DOMAIN SpreadArgs(arg) : IsGroupId(user, SpreadArgs(arg)[k])
    [] OTHER -> /\ Type(arg) = "string"
                /\ \E name \in ProfileNames(user) : NameMatches(kind, name, Contents(arg))

(* A kind that is none of the six, or what regexp.Compile refuses.             *)
MemberOfKinds == {"MemberOf", "MemberOfAny", "MemberOfName", "MemberOfGroupStartsWith",
                  "MemberOfGroupContains", "MemberOfGroupNameRegex"}

Unanswerable(kind, arg) ==
  \/ kind \notin MemberOfKinds
  \/ /\ kind = "MemberOfGroupNameRegex"
     /\ Type(arg) = "string" /\ Contents(arg) \in BadPatterns

-----------------------------------------------------------------------------
ApplyComparison(op, a, b) ==
  CASE op = "EQ" -> Ok(Bool(Equal(a, b)))
    [] op = "NE" -> Ok(Bool(~Equal(a, b)))
    [] OTHER -> CompareOperands(op, a, b)

(* Whether a value decides a chain.                                            *)
Decided(op, v) == CASE op = "And" -> ~Truthy(v) [] op = "Or" -> Truthy(v) [] OTHER -> TRUE
=============================================================================
