------------------------- MODULE MCExpressionParser -------------------------
(***************************************************************************)
(* Expressions for TLC: trees in which every production is an operand of   *)
(* every production at every place, with an operator of each level twice   *)
(* where it has two; and every sequence of a few tokens.                   *)
(***************************************************************************)
EXTENDS Expressions

Ops == {"*", "/", "+", "-", "<", ">=", "==", "!=", "&&", "||", ","}

Leaves == {[kind |-> "VAR", name |-> "a"], [kind |-> "NUM", val |-> "1"]}

One(l) ==
  [kind : {"PLUS", "NEG", "DEREF", "ADDR", "NOT", "SIZEOF"}, lhs : l]
    \cup [kind : {"PREFIX", "POSTFIX"}, lhs : l, val : {1, -1}]
    \cup [kind : {"DOT", "ARROW"}, lhs : l, ident : {"a"}]
    \cup [kind : {"CALL"}, ident : {"f"}, args : {<<e>> : e \in l}]

Two(l, r) ==
  [kind : {"BINARY"}, op : Ops, lhs : l, rhs : r]
    \cup [kind : {"ASSIGN"}, op : {"=", "+="}, lhs : l, rhs : r]
    \cup [kind : {"INDEX"}, lhs : l, rhs : r]
    \cup [kind : {"CALL"}, ident : {"f"}, args : l \X r]

Three(c, l, r) == [kind : {"COND"}, lhs : c, rhs : l, node3 : r]

(* The productions over the trees, one of them at a time being new.        *)
Grown(new, old) ==
  One(new) \cup Two(new, old) \cup Two(old, new)
    \cup Three(new, old, old) \cup Three(old, new, old) \cup Three(old, old, new)

Shallow ==
  Grown(Leaves, Leaves)
    \cup [kind : {"SIZEOFTYPE"}, type : {<<"int">>, <<"int", "*">>}]
    \cup [kind : {"STRING"}, val : {"s"}]
    \cup [kind : {"CALL"}, ident : {"f", "va_start"}, args : {<<>>}]

Atom == {[kind |-> "VAR", name |-> "a"]}

MCTrees == Leaves \cup Shallow \cup Grown(Shallow, Atom)
             \cup Grown(Grown(Grown(Atom, Atom), Atom), Atom)

Tokens == {"a", "f", "1", "(", ")", "[", "]", ".", "++", "-", "*", "&&", "?", ":",
           "=", ",", "sizeof", "int", "va_start"}

MCInputs ==
  UNION {{Append(ts, ";") : ts \in [1 .. n -> Tokens]} : n \in 1 .. 3}
    \cup {Append(ts, ";") :
             ts \in [1 .. 4 -> {"a", "f", "(", ")", "[", "]", ".", "sizeof", "int", "*"}]}
    \cup {Append(ts, ";") :
             ts \in [1 .. 5 -> {"a", "-", "*", "?", ":", "=", ",", "++"}]}
=============================================================================
