------------------------------ MODULE Countries ------------------------------
(* iso3166convert.go: the Iso3166Convert class.  The table is a parameter.     *)
EXTENDS Conversions

CONSTANTS
  Table,      \* countryCodes: a sequence of records of texts
  ToLower(_)  \* strings.ToLower

Columns == {"Name", "Alpha2", "Alpha3", "Numeric"}

Rows == 1..Len(Table)

Folded(i, column) == ToLower(Table[i][column])

(* What iso3166convert.go:78-336 have in common: a column has the shape by     *)
(* which identifierType knows it, and names a country only once, in any case.  *)
ASSUME TableAssumption ==
  /\ Table \in Seq([Columns -> Seq(Nat)])
  /\ \A i \in Rows :
       /\ Len(Table[i].Name) > 3 /\ Len(Table[i].Alpha2) = 2
       /\ Len(Table[i].Alpha3) = 3 /\ ~Atoi(Table[i].Alpha3).ok
       /\ Len(Table[i].Numeric) = 3 /\ Atoi(Table[i].Numeric).ok
       /\ \A j \in Rows, column \in Columns : Folded(i, column) = Folded(j, column) => i = j

(* A slip: a name may be as short as three characters.                         *)
IdentifierTypeLong(identifier) ==
  CASE Len(identifier) >= 3 -> "Name"
    [] Len(identifier) = 2 -> "Alpha2"
    [] Len(identifier) < 2 -> "Numeric"

(* identifierType: the column in which to look.                                *)
IdentifierType(identifier) ==
  CASE Len(identifier) > 3 -> "Name"
    [] Len(identifier) = 2 -> "Alpha2"
    [] Len(identifier) \in {0, 1, 3} -> IF Atoi(identifier).ok THEN "Numeric" ELSE "Alpha3"

(* findCountry: the first row that has it, in any case; 0 if there is none.    *)
FindCountry(identifier) ==
  LET column == IdentifierType(identifier)
      rows == {i \in Rows : Folded(i, column) = ToLower(identifier)}
  IN IF rows = {} THEN 0 ELSE CHOOSE i \in rows : \A j \in rows : i <= j

ColumnOf(method) ==
  CASE method = "toAlpha2" -> "Alpha2"
    [] method = "toAlpha3" -> "Alpha3"
    [] method = "toNumeric" -> "Numeric"
    [] method = "toName" -> "Name"

(* iso3166Lookup                                                               *)
Converted(v, column) ==
  LET country == IF Type(v) = "string" THEN FindCountry(Contents(v)) ELSE 0
  IN IF country = 0 THEN Null ELSE Text(Table[country][column])

IsoMethods == {"toAlpha2", "toAlpha3", "toNumeric", "toName"}

IsoCall(method, args) ==
  IF method \in IsoMethods /\ Len(args) = 1
    THEN Ok(Converted(args[1], ColumnOf(method))) ELSE Err
=============================================================================
