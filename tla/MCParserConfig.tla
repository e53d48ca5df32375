--------------------------- MODULE MCParserConfig ---------------------------
(* Instances of ParserConfig: two parsers built and used by two goroutines.    *)
EXTENDS ParserConfig

CONSTANTS p1, p2, c1, c2, g1, g2, eng, ops

MCParsers == {p1, p2}
MCCallers == {c1, c2}
MCGroupIds == {g1, g2}
MCAttributes == {eng, ops}

(* Both groups named alike in one map; one of them without a name in the other *)
MCGroupMaps == {[g \in MCGroupIds |-> eng],
                [g \in MCGroupIds |-> IF g = g1 THEN ops ELSE Nil]}

(* The callers' registries: one with data of its own, one still empty.         *)
MCCallerData == <<[g \in MCGroupIds |-> IF g = g1 THEN ops ELSE Nil], Nil>>

OwnRegistries == [p \in MCParsers |-> IF p = p1 THEN {NoGroups, 1} ELSE {2}]
OneRegistry == [p \in MCParsers |-> {2}]

MCAllowLists == {<<>>, <<g1>>, <<g2, g1>>}
MCLimits == {-1, 0, 1, 5}
=============================================================================
