----------------------------- MODULE MCCompiler -----------------------------
(***************************************************************************)
(* The vocabulary in which the MC modules write programs for Compiler: the *)
(* constructors of source trees and ways to combine sequences of them.     *)
(***************************************************************************)
EXTENDS Compiler

(* The executables that Hart runs.                                         *)
MCExecutables == LET all == Compiled IN all

Num(n)           == [kind |-> "NUM", val |-> n]
Str(i)           == [kind |-> "STRING", val |-> i]
Name(x)          == [kind |-> "VAR", name |-> x]
Calling(f, args) == [kind |-> "CALL", ident |-> f, args |-> args]
At(l, r)         == [kind |-> "INDEX", lhs |-> l, rhs |-> r]
Field(l, x)      == [kind |-> "DOT", lhs |-> l, ident |-> x]
To(l, x)         == [kind |-> "ARROW", lhs |-> l, ident |-> x]
Unary(op, l)     == [kind |-> op, lhs |-> l]
Post(l, n)       == [kind |-> "POSTFIX", lhs |-> l, val |-> n]
Pre(l, n)        == [kind |-> "PREFIX", lhs |-> l, val |-> n]
Bin(op, l, r)    == [kind |-> "BINARY", op |-> op, lhs |-> l, rhs |-> r]
Set(op, l, r)    == [kind |-> "ASSIGN", op |-> op, lhs |-> l, rhs |-> r]
If3(c, l, r)     == [kind |-> "COND", lhs |-> c, rhs |-> l, node3 |-> r]

(* An external call that can be told from the others by its argument.      *)
Ext(n) == Calling("ext", <<Num(n)>>)

Do(e)             == [kind |-> "EXPR", lhs |-> e]
Return(e)         == [kind |-> "RETURN", lhs |-> <<e>>]
ReturnNone        == [kind |-> "RETURN", lhs |-> <<>>]
Break             == [kind |-> "BREAK"]
Continue          == [kind |-> "CONTINUE"]
Case(n)           == [kind |-> "CASE", val |-> n]
Default           == [kind |-> "DEFAULT"]
Block(ss)         == [kind |-> "BLOCK", nodes |-> ss]
If(c, s, others)  ==
  [kind |-> "IF", lhs |-> c, rhs |-> s, node3 |-> others]
WhileDo(c, s)     == [kind |-> "WHILE", lhs |-> c, rhs |-> s]
Switch_(c, ss)    == [kind |-> "SWITCH", lhs |-> c, rhs |-> Block(ss)]
ForDo(i, c, n, s) ==
  [kind |-> "FOR", lhs |-> i, rhs |-> c, node3 |-> n, node4 |-> s]
Declare(x, init)  ==
  [kind |-> "VARDECL", name |-> x, rhs |-> init, nodes |-> <<>>]
DeclareList(x, inits) ==
  [kind |-> "VARDECL", name |-> x, rhs |-> <<>>, nodes |-> <<inits>>]

Var_(x, type) == [name |-> x, type |-> type]

Global(x, type, rhs, nodes) ==
  [name |-> x, type |-> type, is_extern |-> FALSE, rhs |-> rhs, nodes |-> nodes]

Extern(x)     ==
  [Global(x, int_type, <<>>, <<>>) EXCEPT !.is_extern = TRUE]

Func(ident, params, decls, body) ==
  [ident |-> ident, type |-> int_type, params |-> params, varargs |-> FALSE,
   decls |-> decls, body |-> body]

Returning(type, f) == [f EXCEPT !.type = type]

Prog(globals, functions) ==
  [strings |-> <<>>, constants |-> <<>>, globals |-> globals,
   functions |-> functions]

Main(body) == Prog(<<>>, <<Func("main", <<>>, <<>>, body)>>)

(* The sequence of F(x) for x in xs, and of F(x, y) for all pairs.         *)
Each(F(_), xs) == [i \in 1 .. Len(xs) |-> F(xs[i])]

EachPair(F(_, _), xs, ys) ==
  [i \in 1 .. Len(xs) * Len(ys) |->
     F(xs[((i - 1) \div Len(ys)) + 1], ys[((i - 1) % Len(ys)) + 1])]
=============================================================================
