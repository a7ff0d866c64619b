------------------------------- MODULE Syntax -------------------------------
(***************************************************************************)
(* The nodes parse.c builds for a program: the tree a production returns   *)
(* for the trees of its parts.  A program is given as a tree of its        *)
(* source's productions; node(env, path, e) is the Node of the expression  *)
(* e, statement(env, path, ...) that of a statement.                       *)
(*                                                                         *)
(* The label of a node is its position in the program (path), a sequence   *)
(* of numbers: Parser shows that parse.c gives different nodes different   *)
(* labels and that a break or continue has the label of the innermost      *)
(* statement it can leave.  env has the variables that are in scope, the   *)
(* enumerators, and the functions that are not just declared.  The tree    *)
(* of a string has its index among the strings of the program: the    *)
(* one it has in the list parse_primary appends it to.                     *)
(***************************************************************************)
EXTENDS Types

new_node(kind, lhs, rhs) == [kind |-> kind, lhs |-> lhs, rhs |-> rhs]
new_node_1(kind, lhs)    == [kind |-> kind, lhs |-> lhs]
new_node_num(n)          == [kind |-> "NUM", val |-> n]

(* An identifier is a local variable, else a global one, else the value of *)
(* an enumerator.                                                          *)
Variable(env, name) ==
  LET in(vars) == \E i \in 1 .. Len(vars) : vars[i].name = name
  IN  CASE in(env.locals) -> [kind |-> "LVAR", var |-> find_var(env.locals, name)]
        [] ~ in(env.locals) /\ in(env.globals) ->
             [kind |-> "GVAR", var |-> find_var(env.globals, name)]
        [] OTHER -> new_node_num(find_var(env.constants, name).val)

(* A string is named by its index in the list it was appended to.          *)
StringLiteral(n) == [kind |-> "STRING", val |-> n]

(* a[i] is *(a + i), p->m is ( *p).m, -e is 0 - e.                         *)
Index(l, r)     == new_node_1("DEREF", new_node("ADD", l, r))
Dot(l, ident)   == [kind |-> "MEMBER", lhs |-> l, ident |-> ident]
Arrow(l, ident) == Dot(new_node_1("DEREF", l), ident)
Negated(l)      == new_node("SUB", new_node_num(0), l)
PostIncrement(l, val) == [kind |-> "POSTINC", lhs |-> l, val |-> val]

(* The size is known to the parser.                                        *)
SizeOfNode(type) == new_node_num(sizeof_type(type))

(* ++e is e = e + 1, and l += r is l = l + r: the operand's node occurs    *)
(* twice.                                                                  *)
Increment(l, val) ==
  new_node("ASSIGN", l, new_node("ADD", l, new_node_num(val)))

Assignment(op, l, r) ==
  CASE op = "="  -> new_node("ASSIGN", l, r)
    [] op = "+=" -> new_node("ASSIGN", l, new_node("ADD", l, r))
    [] op = "-=" -> new_node("ASSIGN", l, new_node("SUB", l, r))
    [] op = "*=" -> new_node("ASSIGN", l, new_node("MUL", l, r))

(* Fault: the operands of > are not exchanged.                             *)
Operator_same_order(op, l, r) ==
  CASE op = "+"  -> new_node("ADD", l, r)
    [] op = "-"  -> new_node("SUB", l, r)
    [] op = "*"  -> new_node("MUL", l, r)
    [] op = "/"  -> new_node("DIV", l, r)
    [] op \in {"<", ">"}   -> new_node("LT", l, r)
    [] op \in {">=", "<="} -> new_node("GE", l, r)
    [] op = "==" -> new_node("EQ", l, r)
    [] op = "!=" -> new_node("NE", l, r)
    [] op = "&&" -> new_node("LOGAND", l, r)
    [] op = "||" -> new_node("LOGOR", l, r)
    [] op = ","  -> new_node("COMMA", l, r)

(* The binary operators; > and <= are < and >= with the operands exchanged.*)
Operator(op, l, r) ==
  CASE op = "+"  -> new_node("ADD", l, r)
    [] op = "-"  -> new_node("SUB", l, r)
    [] op = "*"  -> new_node("MUL", l, r)
    [] op = "/"  -> new_node("DIV", l, r)
    [] op = "<"  -> new_node("LT", l, r)
    [] op = ">"  -> new_node("LT", r, l)
    [] op = "<=" -> new_node("GE", r, l)
    [] op = ">=" -> new_node("GE", l, r)
    [] op = "==" -> new_node("EQ", l, r)
    [] op = "!=" -> new_node("NE", l, r)
    [] op = "&&" -> new_node("LOGAND", l, r)
    [] op = "||" -> new_node("LOGOR", l, r)
    [] op = ","  -> new_node("COMMA", l, r)

(* The type of a call is the function's; those of other files are declared *)
(* to return an int.                                                       *)
CallType(env, ident) ==
  LET k == SelectInSeq(env.functions, LAMBDA f : f.ident = ident)
  IN  CASE k # 0 -> env.functions[k].type
        [] k = 0 /\ ident = "va_start" -> void_type
        [] OTHER -> int_type

RECURSIVE node(_, _, _)
node(env, path, e) ==
  LET part(k, sub) == node(env, Append(path, k), sub)
  IN  CASE e.kind = "NUM"     -> new_node_num(e.val)
        [] e.kind = "VAR"     -> Variable(env, e.name)
        [] e.kind = "STRING"  -> StringLiteral(e.val)
        [] e.kind = "CALL"    ->
             [kind  |-> "CALL",
              ident |-> e.ident,
              type  |-> CallType(env, e.ident),
              nodes |-> [i \in 1 .. Len(e.args) |-> part(i, e.args[i])]]
        [] e.kind = "INDEX"   -> Index(part(1, e.lhs), part(2, e.rhs))
        [] e.kind = "PLUS"    -> part(1, e.lhs)
        [] e.kind = "SIZEOF"  -> SizeOfNode(typeof_node(part(1, e.lhs)))
        [] e.kind = "SIZEOFTYPE" -> SizeOfNode(e.type)
        [] e.kind = "DOT"     -> Dot(part(1, e.lhs), e.ident)
        [] e.kind = "ARROW"   -> Arrow(part(1, e.lhs), e.ident)
        [] e.kind = "POSTFIX" -> PostIncrement(part(1, e.lhs), e.val)
        [] e.kind = "NEG"     -> Negated(part(1, e.lhs))
        [] e.kind \in {"DEREF", "ADDR", "NOT"} ->
             new_node_1(e.kind, part(1, e.lhs))
        [] e.kind = "PREFIX"  -> Increment(part(1, e.lhs), e.val)
        [] e.kind = "BINARY"  ->
             Operator(e.op, part(1, e.lhs), part(2, e.rhs))
        [] e.kind = "ASSIGN"  ->
             Assignment(e.op, part(1, e.lhs), part(2, e.rhs))
        [] e.kind = "COND"    ->
             [kind |-> "COND", lhs |-> part(1, e.lhs), rhs |-> part(2, e.rhs),
              node3 |-> part(3, e.node3), label_index |-> path]

(* The value of a constant expression; any other node is refused.          *)
RECURSIVE compute_const_expr(_)
compute_const_expr(n) ==
  IF n.kind = "NUM" THEN n.val ELSE
  LET l == compute_const_expr(n.lhs)
      r == compute_const_expr(n.rhs)
  IN  CASE n.kind = "ADD" -> l + r
        [] n.kind = "SUB" -> l - r
        [] n.kind = "MUL" -> l * r
        [] n.kind = "DIV" -> Quotient(l, r)
        [] n.kind = "LT"  -> IF l < r THEN 1 ELSE 0
        [] n.kind = "GE"  -> IF l >= r THEN 1 ELSE 0
        [] n.kind = "EQ"  -> IF l = r THEN 1 ELSE 0
        [] n.kind = "NE"  -> IF l # r THEN 1 ELSE 0

Constant(env, e) == compute_const_expr(node(env, <<>>, e))

(* The ND_GVARDECL of a global variable.                                   *)
global(env, g) ==
  [kind  |-> "GVARDECL", name |-> g.name, type |-> g.type,
   is_extern |-> g.is_extern,
   rhs   |-> [i \in 1 .. Len(g.rhs) |-> Constant(env, g.rhs[i])],
   nodes |-> [i \in 1 .. Len(g.nodes) |->
                [k \in 1 .. Len(g.nodes[i]) |-> Constant(env, g.nodes[i][k])]]]

-----------------------------------------------------------------------------
(* brk and cont are the labels of the innermost statements that a break    *)
(* and a continue leave.  Optional parts are sequences.                    *)
RECURSIVE statement(_, _, _, _, _)
statement(env, path, brk, cont, s) ==
  LET expr(k, e)    == node(env, Append(path, k), e)
      exprs(k, es)  == [i \in 1 .. Len(es) |-> expr(k + i, es[i])]
      stmt(k, sub)  == statement(env, Append(path, k), brk, cont, sub)
      stmts(k, ss)  == [i \in 1 .. Len(ss) |-> stmt(k + i, ss[i])]
      body(k, sub)  == statement(env, Append(path, k), path, path, sub)
  IN  CASE s.kind = "EXPR"   -> expr(1, s.lhs)
        [] s.kind = "RETURN" -> [kind |-> "RETURN", lhs |-> exprs(0, s.lhs)]
        [] s.kind = "IF" ->
             [kind |-> "IF", lhs |-> expr(1, s.lhs), rhs |-> stmt(2, s.rhs),
              node3 |-> stmts(2, s.node3), label_index |-> path]
        [] s.kind = "SWITCH" ->
             [kind |-> "SWITCH", lhs |-> expr(1, s.lhs), label_index |-> path,
              rhs |-> statement(env, Append(path, 2), path, cont, s.rhs)]
        [] s.kind = "WHILE" ->
             [kind |-> "WHILE", lhs |-> expr(1, s.lhs), rhs |-> body(2, s.rhs),
              label_index |-> path]
        [] s.kind = "FOR" ->
             [kind |-> "FOR", label_index |-> path,
              lhs   |-> stmts(0, s.lhs),
              rhs   |-> exprs(1, s.rhs),
              node3 |-> exprs(2, s.node3),
              node4 |-> [i \in 1 .. Len(s.node4) |-> body(4, s.node4[i])]]
        [] s.kind = "BLOCK" -> [kind |-> "BLOCK", nodes |-> stmts(0, s.nodes)]
        [] s.kind = "VARDECL" ->
             [kind |-> "VARDECL", var |-> find_var(env.locals, s.name),
              rhs |-> exprs(0, s.rhs),
              nodes |-> [i \in 1 .. Len(s.nodes) |-> exprs(0, s.nodes[i])]]
        [] s.kind = "BREAK"    -> [kind |-> "BREAK", label_index |-> brk]
        [] s.kind = "CONTINUE" -> [kind |-> "CONTINUE", label_index |-> cont]
        [] s.kind = "CASE"     ->
             [kind |-> "CASE", val |-> Constant(env, s.val), label_index |-> path]
        [] s.kind = "DEFAULT"  -> [kind |-> "DEFAULT", label_index |-> path]
=============================================================================
