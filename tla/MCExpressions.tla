---------------------------- MODULE MCExpressions ----------------------------
(***************************************************************************)
(* Programs whose main evaluates one expression and then shows every       *)
(* variable to the outside.  The variables cover each size and place the   *)
(* code generator tells apart: int, char, pointer, array, struct and       *)
(* pointer to struct, local, global, element and member.                   *)
(*                                                                         *)
(* Where mocc departs from C on purpose or by omission the programs keep   *)
(* out: side effects under && and ||, in both operands of a comparison or  *)
(* twice in one operand; int + pointer, ++ and -- after a pointer; the     *)
(* value of an assignment that a char truncates; a global char.            *)
(***************************************************************************)
EXTENDS MCCompiler

Pair == StructOf(<<Var_("x", int_type), Var_("y", char_type),
                   Var_("r", new_type_ptr_to(int_type))>>)

Decls ==
  <<Var_("n", int_type), Var_("c", char_type),
    Var_("a", new_type_array_of(int_type, 3)),
    Var_("b", new_type_array_of(char_type, 2)),
    Var_("p", new_type_ptr_to(int_type)),
    Var_("s", Pair), Var_("q", new_type_ptr_to(Pair))>>

(* Struct1 of test.c, whose members need no padding.                       *)
Struct1 == StructOf(<<Var_("x", int_type), Var_("y", int_type),
                      Var_("z", new_type_ptr_to(char_type))>>)

Globals ==
  <<Global("g", int_type, <<Bin("-", Num(5), Bin("*", Num(4), Num(2)))>>, <<>>),
    Global("h", new_type_array_of(int_type, 4), <<>>, <<<<Name("m"), Bin("+", Name("l"), Num(1))>>>>),
    Global("t", Struct1, <<>>, <<<<Num(6), Unary("NEG", Num(1))>>>>),
    Global("u", int_type, <<>>, <<>>),
    Extern("e"), Extern("d"), Global("d", int_type, <<Num(4)>>, <<>>)>>

n == Name("n")    c == Name("c")    p == Name("p")
s == Name("s")    q == Name("q")    g == Name("g")
a_(i) == At(Name("a"), i)
b_(i) == At(Name("b"), i)
h_(i) == At(Name("h"), i)

Let(l, r) == Do(Set("=", l, r))

(* n is 0 or 1: what the first external call returns.                      *)
Setup ==
  <<Declare("n", <<Ext(1)>>), Let(c, Num(5)),
    Let(a_(Num(0)), Num(3)), Let(a_(Num(1)), Num(4)), Let(a_(Num(2)), Num(9)),
    Let(b_(Num(0)), Num(6)), Let(b_(Num(1)), Num(7)),
    Declare("p", <<Name("a")>>), DeclareList("s", <<n, Num(8)>>),
    Declare("q", <<Unary("ADDR", s)>>), Let(To(q, "r"), Unary("ADDR", a_(n)))>>

Show ==
  <<Do(Calling("ext", <<n, c, a_(Num(0)), a_(Num(1)), a_(Num(2)),
                        b_(Num(0)), b_(Num(1)), g>>)),
    Do(Calling("ext", <<Field(s, "x"), Field(s, "y"),
                        Unary("DEREF", Field(s, "r")), Unary("DEREF", p),
                        h_(Num(0)), h_(Num(1)),
                        Bin("-", p, Name("a")), Bin("==", q, Unary("ADDR", s))>>)),
    Do(Calling("ext", <<h_(Num(2)), h_(Num(3)), Field(Name("t"), "x"),
                        Field(Name("t"), "y"), Field(Name("t"), "z"),
                        Name("u"), Name("e"), Name("d")>>))>>

(* enum { m = 0, l = 1 }, and an enumerator that a local variable hides.   *)
Enumerators ==
  <<[name |-> "m", val |-> 0], [name |-> "l", val |-> 1], [name |-> "c", val |-> 2]>>

Evaluate(e) ==
  [Prog(Globals,
        <<Func("main", <<>>, Decls,
               Setup \o <<Do(Calling("ext", <<e>>))>> \o Show)>>)
     EXCEPT !.constants = Enumerators]

(* Enumerators as case labels.                                             *)
Cases ==
  [Main(<<Switch_(Ext(1), <<Case(Name("l")), Do(Ext(2)), Break, Case(Name("m")), Do(Ext(3)),
                            Default, Do(Ext(4))>>),
          Return(Name("c"))>>)
     EXCEPT !.constants = Enumerators]

Size(e) == Unary("SIZEOF", e)

Sizes ==
  <<Size(n), Size(c), Size(Name("a")), Size(p), Size(s), Size(q), Size(a_(Num(1))),
    Size(b_(n)), Size(Field(s, "y")), Size(To(q, "r")), Size(Unary("DEREF", q)),
    Size(At(Name("a"), Ext(2))), [kind |-> "SIZEOFTYPE", type |-> Pair],
    Bin("/", Size(Name("a")), Size(a_(Num(0)))), a_(Name("l")),
    Bin("+", Name("m"), Unary("PLUS", Name("l")))>>

-----------------------------------------------------------------------------
Pure  == <<n, a_(n), To(q, "x"), Unary("NEG", Num(2)),
           Bin("*", g, Unary("DEREF", Bin("+", p, Num(1))))>>
Chars == <<c, b_(n), Field(s, "y")>>

Arithmetic == <<"+", "-", "*">>
Compare    == <<"<", ">", "<=", ">=", "==", "!=">>
Logical    == <<"&&", "||">>

Binary_(ops, ls, rs) ==
  FlattenSeq(Each(LAMBDA op : EachPair(LAMBDA l, r : Bin(op, l, r), ls, rs), ops))

Pointers ==
  <<Bin("-", Unary("ADDR", a_(Num(2))), p),
    Bin("-", Bin("+", p, Num(2)), Unary("ADDR", a_(n))),
    Unary("DEREF", Bin("-", Bin("+", p, Num(2)), n)),
    Bin("==", p, Name("a")), Bin("!=", Unary("ADDR", a_(n)), p),
    Bin("<", p, Unary("ADDR", a_(n))),
    Bin("-", Bin("+", q, Num(1)), q),
    Unary("DEREF", Unary("ADDR", n)), Unary("DEREF", To(q, "r")),
    At(To(q, "r"), n),
    Bin(",", Set("=", p, Bin("+", p, n)), Unary("DEREF", p)),
    Bin(",", Set("+=", p, Num(2)), Unary("DEREF", p)),
    Bin(",", Pre(p, 1), Unary("DEREF", p)),
    Bin(",", Set("=", Field(s, "r"), Unary("ADDR", g)), g)>>

IntPlaces  == <<n, Name("e"), Name("d"), a_(n), Unary("DEREF", Bin("+", p, Num(1))), Field(s, "x"),
                To(q, "x"), g, h_(n), Unary("DEREF", To(q, "r"))>>
CharPlaces == <<c, b_(n), Field(s, "y"), To(q, "y")>>

Sequenced ==
  <<Ext(2), Bin(",", Ext(2), Ext(3)), If3(Ext(2), Ext(3), Ext(4)),
    If3(n, If3(Ext(2), Ext(3), Ext(4)), Bin("+", n, Ext(5))),
    Bin("*", If3(n, Ext(2), Num(3)), If3(n, Num(4), Ext(5))),
    Unary("NOT", n), Unary("NOT", Ext(2)), Unary("NEG", n),
    Calling("ext", <<Ext(2), Ext(3), n>>),
    Set("=", n, Set("=", a_(Num(0)), Ext(2))),
    Set("=", a_(Ext(2)), Ext(3))>>

(* A pointer runs over one of two strings, an argument is a string that    *)
(* another function indexes, and the characters go outside.                *)
w == Name("w")

CharPtr(x) == Var_(x, new_type_ptr_to(char_type))

StringPrograms ==
  Each(LAMBDA body :
         [Prog(<<>>,
               <<Func("f", <<CharPtr("x"), Var_("y", int_type)>>, <<>>,
                      <<Return(At(Name("x"), Name("y")))>>),
                 Func("main", <<>>, <<CharPtr("w"), Var_("n", int_type)>>, body)>>)
            EXCEPT !.strings = <<<<97, 98>>, <<>>, <<99>>>>],
       <<<<Let(w, If3(Ext(1), Str(0), If3(Ext(2), Str(1), Str(2)))),
           WhileDo(Unary("DEREF", w),
                   Do(Calling("ext", <<Unary("DEREF", Post(w, 1))>>)))>>,
         <<Declare("w", <<Str(2)>>), Declare("n", <<Ext(1)>>),
           Return(Bin("-", Calling("f", <<Str(0), n>>), At(w, n)))>>,
         <<Let(w, Str(0)), Let(n, Bin("==", w, Str(1))),
           Let(w, Bin("+", w, Num(1))), Return(Bin("-", Unary("DEREF", w), n))>>>>)

ExpressionPrograms ==
  Each(Evaluate,
       Binary_(Arithmetic \o Compare \o Logical, Pure, Tail(Pure))
         \o Binary_(Arithmetic \o Compare \o Logical, Chars, <<n>> \o Tail(Chars))
         \o Binary_(<<"/">>, Pure \o Chars, <<a_(n), Unary("NEG", Num(2)), c>>)
         \o Binary_(<<"+", "-", "*", "==", ",">>, <<Ext(2)>>, Pure)
         \o Binary_(<<"+", "-", "*", "<", ">">>, Pure, <<Ext(2)>>)
         \o Pointers \o Sequenced \o Sizes
         \o Each(LAMBDA l : Set("=", l, Ext(2)), IntPlaces \o CharPlaces)
         \o FlattenSeq(Each(LAMBDA op : Each(LAMBDA l : Set(op, l, Num(3)),
                                             IntPlaces),
                            <<"+=", "-=", "*=">>))
         \o Each(LAMBDA l : Post(l, 1), IntPlaces \o CharPlaces)
         \o Each(LAMBDA l : Post(l, -1), IntPlaces \o CharPlaces)
         \o Each(LAMBDA l : Pre(l, 1), IntPlaces)
         \o Each(LAMBDA l : Pre(l, -1), IntPlaces))
    \o StringPrograms \o <<Cases>>

(* A compound assignment whose operand has an effect.                      *)
CompoundEffects == <<Evaluate(Set("+=", a_(Post(n, 1)), Num(2)))>>

(* The compiler accepts all of them.                                       *)
ASSUME AllAccepted ==
  \A k \in 1 .. Len(Executables) : Executables[k].accepted
=============================================================================
