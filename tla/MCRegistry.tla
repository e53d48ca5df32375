----------------------------- MODULE MCRegistry -----------------------------
(* Instances of what the classes take from Go's libraries, and a part of the   *)
(* table of countries.                                                         *)
EXTENDS Registry

Belgium == [Name |-> <<66, 101, 108, 103, 105, 117, 109>>, Alpha2 |-> <<66, 69>>,
            Alpha3 |-> <<66, 69, 76>>, Numeric |-> <<48, 53, 54>>]
Cuba == [Name |-> <<67, 117, 98, 97>>, Alpha2 |-> <<67, 85>>,
         Alpha3 |-> <<67, 85, 66>>, Numeric |-> <<49, 57, 50>>]
MCUnfit == -1024

MCTable == <<Belgium, Cuba>>

(* Numerals, with the fractions floats of quarters have.                       *)
Fractions == << <<48>>, <<50, 53>>, <<53>>, <<55, 53>> >>

MCParseFloat(s) ==
  LET points == {k \in 1..Len(s) : s[k] = 46 /\ HasNumeral(SubSeq(s, 1, k - 1))}
      after(k) == {f \in DOMAIN Fractions : Fractions[f] = SubSeq(s, k + 1, Len(s))}
      at == {<<k, f>> \in points \X DOMAIN Fractions : f \in after(k)}
      size(k, f) == Quarters * Numeral(Unsigned(SubSeq(s, 1, k - 1))) + f - 1
  IN CASE HasNumeral(s) -> Ok(Float(Quarters * Signed(s)))
       [] ~HasNumeral(s) /\ at # {} ->
            LET p == CHOOSE p \in at : TRUE
            IN Ok(Float(IF s[1] = 45 THEN -size(p[1], p[2]) ELSE size(p[1], p[2])))
       [] OTHER -> Err

(* The elements of the instance's lists, in brackets; a map is "map[]".        *)
MCSprint(v) ==
  IF Type(v) = "map" THEN <<109, 97, 112, 91, 93>>
  ELSE <<91>> \o Joined(<<32>>, [k \in DOMAIN Contents(v) |->
                IF IsText(Contents(v)[k]) THEN Contents(v)[k] ELSE Text(<<63>>)]) \o <<93>>
=============================================================================
