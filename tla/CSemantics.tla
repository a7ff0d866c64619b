----------------------------- MODULE CSemantics -----------------------------
(***************************************************************************)
(* What a C program means, independently of how mocc translates it: an     *)
(* evaluator of the source trees of Syntax.  Objects are variables, their  *)
(* elements and members; nothing has an address, a size or an offset.      *)
(*                                                                         *)
(* A program is [strings, constants, globals, functions].  A call of a     *)
(* function it does not define is an effect the outside sees; what it      *)
(* returns is the next number of the tape, and a program that finds the    *)
(* tape exhausted stops there ("cut").  The meaning of a program for a     *)
(* tape is the sequence of these calls with their arguments and what main  *)
(* returns.                                                                *)
(***************************************************************************)
EXTENDS Types, TLC

IntVal(n)   == [kind |-> "int", n |-> n]
PtrVal(loc) == [kind |-> "ptr", loc |-> loc]
VaVal(args) == [kind |-> "va", args |-> args]

(* An object: element idx of what the path leads to, whose type is whole.  *)
Location(obj, path, whole, idx) ==
  [obj |-> obj, path |-> path, whole |-> whole, idx |-> idx]

ElementType(loc) ==
  IF loc.whole.ty = "ARRAY" THEN loc.whole.base ELSE loc.whole

Member(loc, ident) ==
  Location(loc.obj, loc.path \o <<loc.idx, ident>>,
           find_var(ElementType(loc).members, ident).type, 0)

Moved(loc, n) == [loc EXCEPT !.idx = @ + n]

(* A char holds a byte.                                                    *)
Converted(type, v) ==
  IF type.ty = "CHAR" THEN IntVal(((v.n + 128) % 256) - 128) ELSE v

Bool(b)   == IntVal(IF b THEN 1 ELSE 0)
IsTrue(v) == v.kind = "ptr" \/ v.n # 0

(* Pointers are compared and subtracted within one array.                  *)
Apply(op, x, y) ==
  LET m == IF x.kind = "ptr" THEN x.loc.idx ELSE x.n
      n == IF y.kind = "ptr" THEN y.loc.idx ELSE y.n
  IN  CASE op = "+" /\ x.kind = "ptr" -> PtrVal(Moved(x.loc, n))
        [] op = "-" /\ x.kind = "ptr" /\ y.kind = "int" ->
             PtrVal(Moved(x.loc, -n))
        [] op = "+" /\ x.kind = "int" -> IntVal(m + n)
        [] op = "-" /\ x.kind = y.kind -> IntVal(m - n)
        [] op = "*"  -> IntVal(m * n)
        [] op = "/"  -> IntVal(Quotient(m, n))
        [] op = "<"  -> Bool(m < n)
        [] op = ">"  -> Bool(m > n)
        [] op = "<=" -> Bool(m <= n)
        [] op = ">=" -> Bool(m >= n)
        [] op = "==" -> Bool(x = y)
        [] op = "!=" -> Bool(x # y)

-----------------------------------------------------------------------------
(* A state of the evaluation: the values of the objects, the next free     *)
(* frame, the calls so far, the tape left, and how the last statement      *)
(* ended.  A frame is [id, function, extra]: extra are the arguments that  *)
(* the "..." takes.                                                        *)

Key(loc) == <<loc.obj, loc.path, loc.idx>>

Stored(st, loc, v) ==
  [st EXCEPT !.store = (Key(loc) :> Converted(ElementType(loc), v)) @@ @]

Ended(st, how) == [st EXCEPT !.sig = how]

Going(st) == st.sig = "next"

Result(v, st) == [v |-> v, st |-> st]

Declared(vars, name) == \E i \in 1 .. Len(vars) : vars[i].name = name

(* Character i of a string, which is an array of char with a NUL.          *)
StringLoc(chars, n, i) ==
  Location(<<0, ".LC" \o ToString(n)>>, <<>>,
           new_type_array_of(char_type, Len(chars) + 1), i)

LocalVars(frame) == frame.function.params \o frame.function.decls

(* An enumerator that no variable hides.                                   *)
IsConstant(prog, frame, e) ==
  /\ e.kind = "VAR" /\ Declared(prog.constants, e.name)
  /\ ~ Declared(LocalVars(frame), e.name)

(* The type of the object an lvalue denotes.                               *)
PlaceType(e, loc) ==
  IF e.kind \in {"VAR", "DOT", "ARROW"} THEN loc.whole ELSE ElementType(loc)

VariableLoc(prog, frame, name) ==
  LET locals == LocalVars(frame)
  IN  IF Declared(locals, name)
      THEN Location(<<frame.id, name>>, <<>>, find_var(locals, name).type, 0)
      ELSE Location(<<0, name>>, <<>>, find_var(prog.globals, name).type, 0)

(* What the outside sees of an argument list.  vext(n, ap) reads n         *)
(* arguments from ap.                                                      *)
Seen(ident, args) ==
  IF ident = "vext" THEN <<ident, SubSeq(args[2].args, 1, args[1].n)>>
  ELSE <<ident, [i \in 1 .. Len(args) |-> args[i].n]>>

(* What follows an evaluation: an expression (Then) or a statement (After).*)
Then(r, F(_, _))  == IF Going(r.st) THEN F(r.v, r.st) ELSE r
After(r, F(_, _)) == IF Going(r.st) THEN F(r.v, r.st) ELSE r.st

(* A statement that takes care of a break, continue or return in it.       *)
Left(st, how) == IF st.sig = how THEN Ended(st, "next") ELSE st

(* The value of an object, or a pointer to the first element of an array.  *)
Fetched(e, loc, st) ==
  IF e.kind \in {"VAR", "DOT", "ARROW"} /\ loc.whole.ty = "ARRAY"
  THEN Result(PtrVal(loc), st)
  ELSE Result(st.store[Key(loc)], st)

(* The object gets v; the expression is the value it has then.             *)
Updated(loc, v, st) ==
  Result(Converted(ElementType(loc), v), Stored(st, loc, v))

(* The object is changed by n; the expression is its value before.         *)
PostUpdated(loc, n, st) ==
  Result(st.store[Key(loc)],
         Stored(st, loc, Apply("+", st.store[Key(loc)], IntVal(n))))

(* The operator of a compound assignment.                                  *)
OpOf(assign) ==
  CASE assign = "+=" -> "+" [] assign = "-=" -> "-" [] assign = "*=" -> "*"

RECURSIVE Eval(_, _, _, _), EvalAll(_, _, _, _), Place(_, _, _, _),
          Invoke(_, _, _, _), Exec(_, _, _, _), ExecAll(_, _, _, _),
          Loop(_, _, _, _, _, _), Again(_, _, _, _, _, _)

(* The object an lvalue denotes: Result(loc, st).                          *)
Place(prog, frame, e, st) ==
  CASE e.kind = "VAR" -> Result(VariableLoc(prog, frame, e.name), st)
    [] e.kind = "DEREF" ->
         Then(Eval(prog, frame, e.lhs, st), LAMBDA p, t : Result(p.loc, t))
    [] e.kind = "INDEX" ->
         Then(EvalAll(prog, frame, <<e.lhs, e.rhs>>, st),
              LAMBDA v, t : Result(Moved(v[1].loc, v[2].n), t))
    [] e.kind = "DOT" ->
         Then(Place(prog, frame, e.lhs, st),
              LAMBDA loc, t : Result(Member(loc, e.ident), t))
    [] e.kind = "ARROW" ->
         Then(Eval(prog, frame, e.lhs, st),
              LAMBDA p, t : Result(Member(p.loc, e.ident), t))

Eval(prog, frame, e, st) ==
  CASE e.kind = "NUM" -> Result(IntVal(e.val), st)
    [] e.kind = "STRING" ->
         Result(PtrVal(StringLoc(prog.strings[e.val + 1], e.val, 0)), st)
    [] IsConstant(prog, frame, e) ->
         Result(IntVal(find_var(prog.constants, e.name).val), st)
    [] e.kind = "SIZEOF" ->
         Result(IntVal(sizeof_type(
                  PlaceType(e.lhs, Place(prog, frame, e.lhs, st).v))), st)
    [] e.kind = "SIZEOFTYPE" -> Result(IntVal(sizeof_type(e.type)), st)
    [] e.kind = "PLUS" -> Eval(prog, frame, e.lhs, st)
    [] /\ e.kind \in {"VAR", "DEREF", "INDEX", "DOT", "ARROW"}
       /\ ~ IsConstant(prog, frame, e) ->
         Then(Place(prog, frame, e, st), LAMBDA loc, t : Fetched(e, loc, t))
    [] e.kind = "ADDR" ->
         Then(Place(prog, frame, e.lhs, st),
              LAMBDA loc, t : Result(PtrVal(loc), t))
    [] e.kind = "CALL" /\ e.ident # "va_start" ->
         Then(EvalAll(prog, frame, e.args, st),
              LAMBDA args, t : Invoke(prog, e.ident, args, t))
    [] e.kind = "CALL" /\ e.ident = "va_start" ->
         Then(Place(prog, frame, e.args[1], st),
              LAMBDA loc, t : Updated(loc, VaVal(frame.extra), t))
    [] e.kind = "POSTFIX" ->
         Then(Place(prog, frame, e.lhs, st),
              LAMBDA loc, t : PostUpdated(loc, e.val, t))
    [] e.kind = "PREFIX" ->
         Then(Place(prog, frame, e.lhs, st),
              LAMBDA loc, t :
                Updated(loc, Apply("+", t.store[Key(loc)], IntVal(e.val)), t))
    [] e.kind = "NEG" ->
         Then(Eval(prog, frame, e.lhs, st),
              LAMBDA v, t : Result(IntVal(- v.n), t))
    [] e.kind = "NOT" ->
         Then(Eval(prog, frame, e.lhs, st),
              LAMBDA v, t : Result(Bool(~ IsTrue(v)), t))
    [] e.kind = "ASSIGN" ->
         Then(Place(prog, frame, e.lhs, st),
              LAMBDA loc, t :
                Then(Eval(prog, frame, e.rhs, t),
                     LAMBDA v, u :
                       Updated(loc,
                               IF e.op = "=" THEN v
                               ELSE Apply(OpOf(e.op), t.store[Key(loc)], v),
                               u)))
    [] e.kind = "BINARY" /\ e.op \in {"&&", "||"} ->
         Then(Eval(prog, frame, e.lhs, st),
              LAMBDA v, t :
                IF IsTrue(v) = (e.op = "||") THEN Result(Bool(IsTrue(v)), t)
                ELSE Then(Eval(prog, frame, e.rhs, t),
                          LAMBDA w, u : Result(Bool(IsTrue(w)), u)))
    [] e.kind = "BINARY" /\ e.op \notin {"&&", "||"} ->
         Then(EvalAll(prog, frame, <<e.lhs, e.rhs>>, st),
              LAMBDA v, t : Result(IF e.op = "," THEN v[2]
                                   ELSE Apply(e.op, v[1], v[2]), t))
    [] e.kind = "COND" ->
         Then(Eval(prog, frame, e.lhs, st),
              LAMBDA v, t :
                Eval(prog, frame, IF IsTrue(v) THEN e.rhs ELSE e.node3, t))

(* The values of a list, from left to right.                               *)
EvalAll(prog, frame, es, st) ==
  IF es = <<>> THEN Result(<<>>, st)
  ELSE Then(EvalAll(prog, frame, Front(es), st),
            LAMBDA vs, t : Then(Eval(prog, frame, Last(es), t),
                                LAMBDA v, u : Result(Append(vs, v), u)))

(* A call: an external function, or one of the program in a new frame.     *)
External(ident, args, st) ==
  IF st.tape = <<>> THEN Result(IntVal(0), Ended(st, "cut"))
  ELSE Result(IntVal(st.tape[1]),
              [st EXCEPT !.tape = Tail(@), !.trace = Append(@, Seen(ident, args))])

Entered(prog, frame, args, st) ==
  FoldLeft(LAMBDA t, i :
             Stored(t, VariableLoc(prog, frame, frame.function.params[i].name),
                    args[i]),
           [st EXCEPT !.next = @ + 1],
           [i \in 1 .. Len(frame.function.params) |-> i])

Returned(st) ==
  Result(IF st.sig = "return" THEN st.ret ELSE IntVal(0), Left(st, "return"))

NewFrame(f, args, id) ==
  [id |-> id, function |-> f,
   extra |-> [i \in 1 .. Len(args) - Len(f.params) |->
                args[Len(f.params) + i].n]]

(* In a frame: bind the parameters, execute the body.                      *)
Invoke(prog, ident, args, st) ==
  LET k     == SelectInSeq(prog.functions, LAMBDA f : f.ident = ident)
      frame == NewFrame(prog.functions[k], args, st.next)
  IN  IF k = 0 THEN External(ident, args, st)
      ELSE Returned(ExecAll(prog, frame, prog.functions[k].body,
                            Entered(prog, frame, args, st)))

-----------------------------------------------------------------------------
(* Statements                                                              *)

(* The statements of a switch from the one that is chosen on.              *)
Chosen(nodes, IsHere(_)) ==
  LET here  == SelectInSeq(nodes, IsHere)
      other == SelectInSeq(nodes, LAMBDA n : n.kind = "DEFAULT")
  IN  CASE here # 0 -> SubSeq(nodes, here, Len(nodes))
        [] here = 0 /\ other # 0 -> SubSeq(nodes, other, Len(nodes))
        [] OTHER -> <<>>

(* A struct's members get the values given, then zeros.                    *)
Filled(loc, values, st) ==
  FoldLeft(LAMBDA t, i :
             Stored(t, Member(loc, loc.whole.members[i].name),
                    IF i <= Len(values) THEN values[i] ELSE IntVal(0)),
           st, [i \in 1 .. Len(loc.whole.members) |-> i])

Exec(prog, frame, s, st) ==
  CASE s.kind = "EXPR" -> Eval(prog, frame, s.lhs, st).st
    [] s.kind = "RETURN" ->
         After(EvalAll(prog, frame, s.lhs, st),
               LAMBDA v, t :
                 Ended([t EXCEPT !.ret = IF v = <<>> THEN IntVal(0) ELSE v[1]],
                       "return"))
    [] s.kind = "IF" ->
         After(Eval(prog, frame, s.lhs, st),
               LAMBDA v, t :
                 ExecAll(prog, frame, IF IsTrue(v) THEN <<s.rhs>> ELSE s.node3, t))
    [] s.kind = "SWITCH" ->
         After(Eval(prog, frame, s.lhs, st),
               LAMBDA v, t :
                 Left(ExecAll(prog, frame,
                              Chosen(s.rhs.nodes,
                                     LAMBDA n :
                                       /\ n.kind = "CASE"
                                       /\ Eval(prog, frame, n.val, t).v = v),
                              t),
                      "break"))
    [] s.kind = "WHILE" -> Loop(prog, frame, <<s.lhs>>, <<s.rhs>>, <<>>, st)
    [] s.kind = "FOR" ->
         Loop(prog, frame, s.rhs, s.node4, s.node3,
              ExecAll(prog, frame, s.lhs, st))
    [] s.kind = "BLOCK" -> ExecAll(prog, frame, s.nodes, st)
    [] s.kind = "VARDECL" /\ s.nodes = <<>> ->
         After(EvalAll(prog, frame, s.rhs, st),
               LAMBDA v, t :
                 IF v = <<>> THEN t
                 ELSE Stored(t, VariableLoc(prog, frame, s.name), v[1]))
    [] s.kind = "VARDECL" /\ s.nodes # <<>> ->
         After(EvalAll(prog, frame, s.nodes[1], st),
               LAMBDA v, t : Filled(VariableLoc(prog, frame, s.name), v, t))
    [] s.kind = "BREAK"    -> Ended(st, "break")
    [] s.kind = "CONTINUE" -> Ended(st, "continue")
    [] s.kind \in {"CASE", "DEFAULT"} -> st

ExecAll(prog, frame, ss, st) ==
  IF ss = <<>> \/ ~ Going(st) THEN st
  ELSE ExecAll(prog, frame, Tail(ss), Exec(prog, frame, ss[1], st))

(* A loop with an optional condition and an optional step.                 *)
Loop(prog, frame, cond, body, step, st) ==
  IF ~ Going(st) THEN st
  ELSE After(EvalAll(prog, frame, cond, st),
             LAMBDA c, t :
               IF c # <<>> /\ ~ IsTrue(c[1]) THEN t
               ELSE Again(prog, frame, cond, body, step,
                          Left(ExecAll(prog, frame, body, t), "continue")))

Again(prog, frame, cond, body, step, done) ==
  IF ~ Going(done) THEN Left(done, "break")
  ELSE Loop(prog, frame, cond, body, step,
            EvalAll(prog, frame, step, done).st)

-----------------------------------------------------------------------------
(* What another file gives the int variables that are only extern here.    *)
Elsewhere == 7

(* What a global variable holds at the start: its initializers, constant   *)
(* expressions, then zeros.                                                *)
Initially(prog, g) ==
  LET loc      == Location(<<0, g.name>>, <<>>, g.type, 0)
      outside  == [function |-> [params |-> <<>>, decls |-> <<>>]]
      value(e) == Eval([prog EXCEPT !.globals = <<>>], outside, e, [sig |-> "next"]).v
      inits    == IF g.nodes = <<>> THEN g.rhs ELSE g.nodes[1]
      given(i) == IF g.is_extern THEN IntVal(Elsewhere)
                  ELSE IF i <= Len(inits) THEN value(inits[i]) ELSE IntVal(0)
      parts    ==
        CASE g.type.ty = "ARRAY" ->
               [i \in 1 .. g.type.array_size |-> Moved(loc, i - 1)]
          [] g.type.ty = "STRUCT" ->
               [i \in 1 .. Len(g.type.members) |->
                  Member(loc, g.type.members[i].name)]
          [] OTHER -> <<loc>>
  IN  FoldLeft(LAMBDA store, i : (Key(parts[i]) :> given(i)) @@ store,
               <<>>, [i \in 1 .. Len(parts) |-> i])

StringStore(prog) ==
  LET char(n, i) == IF i < Len(prog.strings[n]) THEN prog.strings[n][i + 1] ELSE 0
      chars(n)   == {Key(StringLoc(prog.strings[n], n - 1, i)) :
                       i \in 0 .. Len(prog.strings[n])}
      keys       == UNION {chars(n) : n \in 1 .. Len(prog.strings)}
  IN  [key \in keys |->
         IntVal(char(CHOOSE n \in 1 .. Len(prog.strings) : key \in chars(n), key[3]))]

(* The definition of a variable comes after its extern declarations.       *)
GlobalStore(prog) ==
  FoldLeft(LAMBDA store, g : Initially(prog, g) @@ store, StringStore(prog), prog.globals)

Outcome(trace, ended, value) ==
  [trace |-> trace, ended |-> ended, value |-> value]

Started(prog, tape) ==
  [store |-> GlobalStore(prog), next |-> 1, trace |-> <<>>, tape |-> tape,
   sig |-> "next", ret |-> IntVal(0)]

Observed(r) ==
  IF r.st.sig = "cut" THEN Outcome(r.st.trace, "cut", 0)
  ELSE Outcome(r.st.trace, "exit", r.v.n)

Meaning(prog, tape) ==
  Observed(Invoke(prog, "main", <<>>, Started(prog, tape)))
=============================================================================
