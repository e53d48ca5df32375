----------------------------- MODULE ParsedTrees -----------------------------
(* The parser's arena read as trees, and compared with the reference grammar.  *)
EXTENDS AstParser, Grammar

(* The tree under each node of the arena ns; at[i] is kept of token i.         *)
Unfolded(ns, at) ==
  LET U[i \in 1..Len(ns)] ==
        Tree(ns[i].kind, ns[i].op, at[ns[i].at],
             [j \in 1..Len(ns[i].kids) |-> U[ns[i].kids[j]]])
  IN U

Itself == [i \in Nat |-> i]
Nothing == [i \in Nat |-> 0]

(* The hand-written parser accepts exactly the streams of the reference        *)
(* grammar, and the tree it builds is the only one the grammar derives: its    *)
(* look-ahead decisions and the operand checks made after the fact neither     *)
(* lose nor invent an expression, nor change how tight an operator binds.      *)
MatchesGrammar ==
  /\ ctl = "Accepted" => Derivations(toks) = {Unfolded(nodes, Itself)[ret]}
  /\ ctl = "Failed" => Derivations(toks) = {}
=============================================================================
