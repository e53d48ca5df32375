------------------------------ MODULE MCClasses ------------------------------
(* Instances of Classes: texts of letters, digits, a space and a sign, numbers *)
(* of every type, and lists, one of which holds a tuple and a map.             *)
EXTENDS Classes, MCRegistry, Equality

MCUser == Map([dept |-> Text(<<97>>)])
MCPair == Tuple(<<Number(1), Number(-2)>>)

MCSources == {
  Null, Bool(TRUE), Number(12), Number(-7), Float(6), Float(-5), Float(7),
  Text(<<97, 97, 97, 32, 97>>), Text(<<32, 45, 55>>), Text(<<49, 57, 57, 57>>),
  Text(<<67, 117, 98, 97>>), Text(<<98, 101>>),
  Array(<<Text(<<97>>), Number(1), Bool(TRUE)>>), Array(<<MCPair, MCUser>>),
  MCPair, MCUser}

MCNeedles == {Text(<<>>), Text(<<97>>), Text(<<97, 97>>), Text(<<49>>), Number(1), Bool(TRUE), MCUser}
MCSeconds == {Text(<<97>>), Number(1), Number(-2)}

MCArguments ==
  {<<>>} \cup {<<v>> : v \in MCNeedles} \cup (MCSeconds \X MCSeconds)
  \cup {<<Null, Text(<<98>>), Number(2)>>}
=============================================================================
