------------------------------- MODULE MCCalls -------------------------------
(***************************************************************************)
(* Programs with several functions: every body below called from every     *)
(* context below.  The bodies return from different depths, recur, have    *)
(* frames of different sizes, take pointers and "..." arguments; the       *)
(* contexts have temporaries on the stack, or arguments already computed,  *)
(* when the call is made.  vext(k, ap) is an external function that reads  *)
(* k arguments through a va_list.                                          *)
(***************************************************************************)
EXTENDS MCCompiler

x == Name("x")    y == Name("y")    v == Name("v")

IntVar(z) == Var_(z, int_type)
PtrVar(z) == Var_(z, new_type_ptr_to(int_type))
Ap     == Var_("ap", new_type_ptr_to(char_type))

Let(l, r)   == Do(Set("=", l, r))
F(args)     == Calling("f", args)
VaStart(z)  == Do(Calling("va_start", <<Name("ap"), z>>))
Vext(k)     == Calling("vext", <<Num(k), Name("ap")>>)

Function_(decls, body) == Func("f", <<IntVar("x"), IntVar("y")>>, decls, body)

Variadic(params, decls, body) ==
  [ident |-> "f", type |-> int_type, params |-> params, varargs |-> TRUE,
   decls |-> <<Ap>> \o decls, body |-> body]

(* Functions f of two numbers.                                             *)
Plain ==
  <<Function_(<<>>, <<Return(Bin("-", x, y))>>),
    Function_(<<IntVar("z"), Var_("b", new_type_array_of(char_type, 3))>>,
              <<Let(At(Name("b"), Num(2)), Num(4)), Let(Name("z"), Ext(2)),
                Return(Bin("+", Bin("*", x, At(Name("b"), Num(2))),
                           Name("z")))>>),
    Function_(<<>>, <<WhileDo(Ext(2),
                              Block(<<Switch_(x, <<Case(Num(0)), Return(Ext(3)), Default,
                                                   Return(y)>>)>>))>>),
    Function_(<<>>, <<If(Bin("<", x, Num(1)), Return(y), <<>>),
                      Return(Bin("+", x, F(<<Bin("-", x, Num(1)),
                                             Bin("*", y, Num(2))>>)))>>),
    Function_(<<IntVar("z")>>,
              <<Let(Name("z"), x),
                If(Bin("<", Num(0), x),
                   Do(F(<<Bin("-", x, Num(1)), Name("z")>>)), <<>>),
                Return(Bin("-", Name("z"), y))>>),
    Func("f", <<Var_("x", char_type), IntVar("y")>>, <<>>, <<Return(Bin("*", x, y))>>)>>

(* Functions that return nothing.                                          *)
Void ==
  Each(LAMBDA f : Returning(void_type, f),
    <<Function_(<<>>, <<Do(Calling("ext", <<x, y>>))>>),
      Function_(<<IntVar("z")>>,
                <<Let(Name("z"), y),
                  WhileDo(x, If(Ext(2), ReturnNone, <<Let(x, Bin("-", x, Num(1)))>>)),
                  Do(Calling("ext", <<Name("z")>>))>>)>>)

(* With "..." after one and after two parameters.                          *)
WithVarargs ==
  <<Variadic(<<IntVar("x")>>, <<>>, <<VaStart(x), Return(Vext(1))>>),
    Variadic(<<IntVar("x")>>, <<IntVar("z")>>,
             <<Declare("z", <<Bin("*", x, Bin("+", x, Ext(2)))>>), VaStart(x),
               If(Bin("<", x, Num(1)), Return(Bin("+", Name("z"), Vext(1))),
                  <<Return(F(<<Bin("-", x, Num(1)), Num(6), Name("z")>>))>>)>>),
    Variadic(<<IntVar("x"), IntVar("y")>>, <<>>,
             <<VaStart(y), If(x, Return(y), <<>>), Return(Bin("-", x, y))>>)>>

(* Contexts: the body of main around a call of f.                          *)
Contexts ==
  <<<<Return(F(<<Num(2), Num(5)>>))>>,
    <<Return(Bin("-", F(<<Num(1), Num(3)>>), F(<<Num(0), Ext(1)>>)))>>,
    <<Return(Bin("*", Num(7), F(<<F(<<Num(1), Num(2)>>), Num(3)>>)))>>,
    <<Do(Calling("ext", <<Num(1), F(<<Ext(1), Num(4)>>), Num(2)>>)), Return(Num(3))>>,
    <<WhileDo(Ext(1), If(F(<<Num(1), Num(0)>>), Break, <<Do(Ext(4))>>)),
      Return(Ext(5))>>,
    <<Let(At(Name("w"), Num(1)), F(<<Num(2), Num(2)>>)),
      Return(At(Name("w"), Num(1)))>>>>

VoidContexts ==
  <<<<Do(F(<<Num(0), Num(4)>>)), Do(F(<<Num(1), Ext(1)>>)), Return(Num(3))>>,
    <<WhileDo(Ext(1), Do(F(<<Num(2), Num(6)>>))), Return(Num(4))>>>>

Caller(body) == Func("main", <<>>, <<Var_("w", new_type_array_of(int_type, 2))>>, body)

Swap ==
  Prog(<<>>,
       <<Func("f", <<PtrVar("x"), PtrVar("y")>>, <<IntVar("z")>>,
              <<Let(Name("z"), Unary("DEREF", x)),
                Let(Unary("DEREF", x), Unary("DEREF", y)),
                Let(Unary("DEREF", y), Name("z"))>>),
         Func("main", <<>>, <<IntVar("v"), Var_("w", new_type_array_of(int_type, 2))>>,
              <<Let(v, Ext(1)), Let(At(Name("w"), Num(1)), Num(5)),
                Do(F(<<Unary("ADDR", v), Unary("ADDR", At(Name("w"), Num(1)))>>)),
                Return(Bin("-", v, At(Name("w"), Num(1))))>>)>>)

(* The pointer a function returns is followed to a member, p+n to the next *)
(* struct: both need the type of the call.                                 *)
Cell_ == StructOf(<<IntVar("k"), Var_("l", char_type), IntVar("m")>>)

PointerResult ==
  Prog(<<>>,
       <<Returning(new_type_ptr_to(Cell_),
           Func("f", <<Var_("x", new_type_ptr_to(Cell_)), IntVar("y")>>, <<>>,
                <<Let(To(x, "m"), Bin("+", To(x, "m"), y)), Return(x)>>)),
         Func("main", <<>>, <<Var_("v", new_type_array_of(Cell_, 2))>>,
              <<Let(Field(At(v, Num(0)), "m"), Num(3)),
                Let(Field(At(v, Num(1)), "m"), Ext(1)),
                Let(Field(At(v, Num(1)), "k"), Num(6)),
                Return(Bin("*", To(F(<<Bin("+", v, Num(1)), Num(4)>>), "m"),
                           Bin("-", To(F(<<v, Num(2)>>), "m"),
                               To(Bin("+", F(<<v, Ext(5)>>), Num(1)), "k"))))>>)>>)

(* All eight argument registers, named and unnamed.                        *)
Letters == <<"x1", "x2", "x3", "x4", "x5", "x6", "x7", "x8">>

Eight == <<Num(1), Num(2), Num(3), Num(4), Num(5), Num(6), Num(7), Ext(8)>>

Full ==
  <<Prog(<<>>,
         <<Func("f", Each(IntVar, Letters), <<>>,
                <<Return(Calling("ext", Each(Name, Letters)))>>),
           Caller(<<Return(F(Eight))>>)>>),
    Prog(<<>>,
         <<Variadic(<<IntVar("x")>>, <<IntVar("z")>>,
                    <<Let(Name("z"), Ext(2)), VaStart(x), Do(Vext(7)),
                      Return(Bin("+", Name("z"), Bin("*", x, Vext(7))))>>),
           Caller(<<Return(F(Eight))>>)>>),
    Prog(<<>>,
         <<Variadic(<<IntVar("x"), IntVar("y")>>, <<>>,
                    <<VaStart(y), Return(Bin("+", Vext(6), Bin("-", x, y)))>>),
           Caller(<<Return(F(Eight))>>)>>)>>

CallPrograms ==
  EachPair(LAMBDA f, body : Prog(<<>>, <<f, Caller(body)>>), Plain, Contexts)
    \o EachPair(LAMBDA f, body : Prog(<<>>, <<Caller(body), f>>),
                WithVarargs, Contexts)
    \o EachPair(LAMBDA f, body : Prog(<<>>, <<f, Caller(body)>>),
                Void, VoidContexts)
    \o <<Swap, PointerResult>> \o Full

(* The compiler accepts all of them.                                       *)
ASSUME AllAccepted ==
  \A k \in 1 .. Len(Executables) : Executables[k].accepted
=============================================================================
