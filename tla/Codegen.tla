------------------------------- MODULE Codegen -------------------------------
(***************************************************************************)
(* The code generator of codegen.c: what codegen_expr and codegen_node     *)
(* print for a node, as a sequence of instructions.  A node is a record    *)
(* with the fields of struct Node that its kind uses.  f is curr_func, the *)
(* ND_FUNCDECL whose body is generated.                                    *)
(*                                                                         *)
(* Where the code calls error() the result contains the instruction        *)
(* `error`: the compiler exits and its output is no assembly.  Where it    *)
(* reads behind the elements of a list, the result contains `unknown`.     *)
(***************************************************************************)
EXTENDS Types, Instructions, TLC

codegen_pop(reg)    == <<load(8, reg, 0, "sp"), addi("sp", "sp", 8)>>
codegen_pop_t0      == codegen_pop("t0")
codegen_pop_t1      == codegen_pop("t1")
codegen_pop_discard == <<addi("sp", "sp", 8)>>
codegen_push(reg)   == <<store(8, reg, -8, "sp"), addi("sp", "sp", -8)>>
codegen_push_t0     == codegen_push("t0")

(* A load or store of a value of the type, by its size.                    *)
LoadOf(type, rd, off, rs) ==
  IF sizeof_type(type) \in {1, 4, 8}
  THEN <<load(sizeof_type(type), rd, off, rs)>> ELSE <<error>>

StoreOf(type, rd, off, rs) ==
  IF sizeof_type(type) \in {1, 4, 8}
  THEN <<store(sizeof_type(type), rd, off, rs)>> ELSE <<error>>

-----------------------------------------------------------------------------
(* Frames                                                                  *)

func_locals_offset(f) == IF f.locals = <<>> THEN 0 ELSE Last(f.locals).offset

(* The position of the "..." among the parameters, counted from 0, or -1.  *)
curr_varargs_index(f) ==
  SelectInSeq(f.args, LAMBDA arg : arg.kind = "VARARGS") - 1

IsVarargs(f) == curr_varargs_index(f) # -1

(* Fault: the frame has no room for the saved registers.                   *)
codegen_prologue_small(f) ==
  <<store(8, "ra", -8, "sp"), store(8, "fp", -16, "sp"),
    addi("fp", "sp", -16),
    addi("sp", "sp", - func_locals_offset(f))>>
  \o IF IsVarargs(f)
     THEN <<addi("fp", "fp", -64)>>
            \o [i \in 1 .. 7 |-> store(8, a(i), i * 8, "fp")]
            \o <<addi("sp", "sp", -64)>>
     ELSE <<>>

codegen_prologue(f) ==
  <<store(8, "ra", -8, "sp"), store(8, "fp", -16, "sp"),
    addi("fp", "sp", -16),
    addi("sp", "sp", - (func_locals_offset(f) + 16))>>
  \o IF IsVarargs(f)
     THEN <<addi("fp", "fp", -64)>>
            \o [i \in 1 .. 7 |-> store(8, a(i), i * 8, "fp")]
            \o <<addi("sp", "sp", -64)>>
     ELSE <<>>

(* Fault: the area of the variable arguments is not given back.            *)
codegen_epilogue_keeps_area(f) ==
  <<addi("sp", "sp", func_locals_offset(f) + 16),
    load(8, "fp", -16, "sp"), load(8, "ra", -8, "sp"), ret>>

(* Fault: the saved fp is read at the place of the saved ra.               *)
codegen_epilogue_swapped(f) ==
  (IF IsVarargs(f) THEN <<addi("sp", "sp", 64)>> ELSE <<>>)
  \o <<addi("sp", "sp", func_locals_offset(f) + 16),
       load(8, "fp", -8, "sp"), load(8, "ra", -16, "sp"), ret>>

codegen_epilogue(f) ==
  (IF IsVarargs(f) THEN <<addi("sp", "sp", 64)>> ELSE <<>>)
  \o <<addi("sp", "sp", func_locals_offset(f) + 16),
       load(8, "fp", -16, "sp"), load(8, "ra", -8, "sp"), ret>>

-----------------------------------------------------------------------------
(* The pieces of codegen_expr: l and r are the code of the operands        *)

(* Both operands on the stack, the code between, the result pushed.        *)
Binary(l, r, body) ==
  l \o r \o codegen_pop_t1 \o codegen_pop_t0 \o body \o codegen_push_t0

Operation(kind) ==
  CASE kind = "LT"     -> <<alu("slt", "t0", "t0", "t1")>>
    [] kind = "GE"     -> <<alu("slt", "t0", "t0", "t1"), seqz("t0", "t0")>>
    [] kind = "MUL"    -> <<alu("mul", "t0", "t0", "t1")>>
    [] kind = "DIV"    -> <<alu("div", "t0", "t0", "t1")>>
    [] kind = "EQ"     -> <<alu("seq", "t0", "t0", "t1")>>
    [] kind = "NE"     -> <<alu("sne", "t0", "t0", "t1")>>
    [] kind = "LOGOR"  -> <<alu("or", "t0", "t0", "t1"), snez("t0", "t0")>>
    [] kind = "LOGAND" -> <<snez("t0", "t0"), snez("t1", "t1"),
                            alu("and", "t0", "t0", "t1")>>
    [] kind = "ADD"    -> <<alu("add", "t0", "t0", "t1")>>
    [] kind = "SUB"    -> <<alu("sub", "t0", "t0", "t1")>>

ElementSize(type) == IF Pointed(type) THEN sizeof_type(type.base) ELSE 0

(* ND_ADD and ND_SUB, with the arithmetic of pointers.                     *)
Sum(kind, ltype, rtype, l, r) ==
  LET lsize == ElementSize(ltype)
      rsize == ElementSize(rtype)
  IN  CASE lsize > 1 /\ rsize > 1 /\ (kind # "SUB" \/ lsize # rsize) ->
             <<error>>
        [] lsize > 1 /\ rsize > 1 /\ kind = "SUB" /\ lsize = rsize ->
             Binary(l, r, <<alu("sub", "t0", "t0", "t1"), li("t3", lsize),
                            alu("div", "t0", "t0", "t3")>>)
        [] lsize > 1 /\ rsize <= 1 ->
             l \o r \o codegen_pop_t1
               \o <<li("t3", lsize), alu("mul", "t1", "t1", "t3")>>
               \o codegen_pop_t0 \o Operation(kind) \o codegen_push_t0
        [] OTHER -> Binary(l, r, Operation(kind))

Assign(type, l, r) ==
  Binary(l, r, StoreOf(type, "t1", 0, "t0") \o <<mv("t0", "t1")>>)

(* Fault: only the path of a true condition takes it from the stack.       *)
Cond_pops_once(index, c, l, r) ==
  c \o <<load(8, "t0", 0, "sp"), beqz("t0", <<"else", index>>),
         addi("sp", "sp", 8)>>
    \o l \o <<j(<<"end", index>>), label(<<"else", index>>)>>
    \o r \o <<label(<<"end", index>>)>>

(* ND_COND, and ND_IF: only one of the parts is executed.                  *)
Cond(index, c, l, r) ==
  c \o codegen_pop_t0 \o <<beqz("t0", <<"else", index>>)>>
    \o l \o <<j(<<"end", index>>), label(<<"else", index>>)>>
    \o r \o <<label(<<"end", index>>)>>

(* The arguments are computed in order and popped in reverse.              *)
Call(ident, args) ==
  FlattenSeq(args)
    \o FlattenSeq([i \in 1 .. Len(args) |->
                     codegen_pop_t0 \o <<mv(a(Len(args) - i), "t0")>>])
    \o <<addi("sp", "sp", -8), call(ident, Len(args)), addi("sp", "sp", 8)>>
    \o codegen_push("a0")

(* lp leaves the address of ap on the stack.                               *)
codegen_builtin_va_start(f, lp) ==
  IF IsVarargs(f)
  THEN <<addi("t0", "fp", curr_varargs_index(f) * 8)>> \o codegen_push_t0
         \o lp \o codegen_pop_t0 \o codegen_pop_t1 \o <<store(8, "t1", 0, "t0")>>
  ELSE <<error>>

PostInc(type, l, val) ==
  l \o codegen_pop_t1 \o LoadOf(type, "t0", 0, "t1")
    \o <<addi("t2", "t0", val)>> \o StoreOf(type, "t2", 0, "t1")
    \o codegen_push_t0

(* The value of the variable or member at off(rs), the address of an array.*)
ValueAt(type, off, rs) ==
  (IF type.ty = "ARRAY" THEN <<addi("t0", rs, off)>>
   ELSE LoadOf(type, "t0", off, rs)) \o codegen_push_t0

GlobalValue(var) ==
  <<la("t0", var.name)>>
    \o (IF var.type.ty = "ARRAY" THEN <<>> ELSE <<load(4, "t0", 0, "t0")>>)
    \o codegen_push_t0

-----------------------------------------------------------------------------
(* Expressions.  The code of every expression leaves one value, a double   *)
(* word, on the stack.                                                     *)

(* The label of the string with the index n in `strings`.                  *)
LC(n) == ".LC" \o ToString(n)

StringValue(n) == <<la("t0", LC(n))>> \o codegen_push_t0

BinaryKinds == {"LT", "GE", "MUL", "DIV", "EQ", "NE", "LOGOR", "LOGAND"}

(* The variable of a member access; find_var of an absent member is an     *)
(* error.                                                                  *)
MemberOf(node) == find_var(typeof_node(node.lhs).members, node.ident)

HasMember(node) ==
  /\ typeof_node(node.lhs).ty = "STRUCT"
  /\ \E i \in 1 .. Len(typeof_node(node.lhs).members) :
       typeof_node(node.lhs).members[i].name = node.ident

RECURSIVE codegen_push_lvalue(_, _), codegen_expr(_, _)

(* The address of a variable or member, the pointer that is dereferenced.  *)
codegen_push_lvalue(f, node) ==
  CASE node.kind = "LVAR" ->
         <<addi("t0", "fp", - node.var.offset)>> \o codegen_push_t0
    [] node.kind = "GVAR" -> <<la("t0", node.var.name)>> \o codegen_push_t0
    [] node.kind = "DEREF" -> codegen_expr(f, node.lhs)
    [] node.kind = "MEMBER" /\ HasMember(node) ->
         codegen_push_lvalue(f, node.lhs) \o codegen_pop_t0
           \o <<addi("t0", "t0", MemberOf(node).offset)>> \o codegen_push_t0
    [] OTHER -> <<error>>

codegen_expr(f, node) ==
  CASE node.kind \in {"NUM"} -> <<li("t0", node.val)>> \o codegen_push_t0
    [] node.kind \in BinaryKinds ->
         Binary(codegen_expr(f, node.lhs), codegen_expr(f, node.rhs),
                Operation(node.kind))
    [] node.kind \in {"ADD", "SUB"} ->
         IF no_type \in {typeof_node(node.lhs), typeof_node(node.rhs)}
         THEN <<error>>
         ELSE Sum(node.kind, typeof_node(node.lhs), typeof_node(node.rhs),
                  codegen_expr(f, node.lhs), codegen_expr(f, node.rhs))
    [] node.kind = "LVAR" -> ValueAt(node.var.type, - node.var.offset, "fp")
    [] node.kind = "GVAR" -> GlobalValue(node.var)
    [] node.kind = "STRING" -> StringValue(node.val)
    [] node.kind = "ASSIGN" ->
         Assign(typeof_node(node.lhs), codegen_push_lvalue(f, node.lhs),
                codegen_expr(f, node.rhs))
    [] node.kind = "COND" ->
         Cond(node.label_index, codegen_expr(f, node.lhs),
              codegen_expr(f, node.rhs), codegen_expr(f, node.node3))
    [] node.kind = "CALL" /\ node.ident = "va_start" ->
         codegen_builtin_va_start(f, codegen_push_lvalue(f, node.nodes[1]))
           \o codegen_push_t0
    [] node.kind = "CALL" /\ node.ident # "va_start" ->
         Call(node.ident, [i \in 1 .. Len(node.nodes) |->
                             codegen_expr(f, node.nodes[i])])
    [] node.kind = "DEREF" ->
         codegen_expr(f, node.lhs)
           \o (IF typeof_node(node).ty = "ARRAY" THEN <<>>
               ELSE codegen_pop_t0 \o LoadOf(typeof_node(node), "t0", 0, "t0")
                      \o codegen_push_t0)
    [] node.kind = "ADDR" -> codegen_push_lvalue(f, node.lhs)
    [] node.kind = "MEMBER" /\ HasMember(node) ->
         codegen_push_lvalue(f, node.lhs) \o codegen_pop_t0
           \o ValueAt(MemberOf(node).type, MemberOf(node).offset, "t0")
    [] node.kind = "NOT" ->
         codegen_expr(f, node.lhs) \o codegen_pop_t0
           \o <<seqz("t0", "t0")>> \o codegen_push_t0
    [] node.kind = "POSTINC" ->
         PostInc(typeof_node(node.lhs), codegen_push_lvalue(f, node.lhs),
                 node.val)
    [] node.kind = "COMMA" ->
         codegen_expr(f, node.lhs) \o codegen_pop_discard
           \o codegen_expr(f, node.rhs)
    [] OTHER -> <<error>>

-----------------------------------------------------------------------------
(* The pieces of codegen_node: c is the code of a condition with its value *)
(* popped into t0, the other arguments leave the stack as it was           *)

(* Fault: there is a label for continue only where there is a step.        *)
For_label_with_step(index, init, c, step, body) ==
  init \o <<label(<<"begin", index>>)>>
    \o (IF c = <<>> THEN <<>> ELSE c \o <<beqz("t0", <<"end", index>>)>>)
    \o body
    \o (IF step = <<>> THEN <<>> ELSE <<label(<<"continue", index>>)>> \o step)
    \o <<j(<<"begin", index>>), label(<<"break", index>>),
         label(<<"end", index>>)>>

(* Fault: continue goes to the condition and skips the step.               *)
For_continue_skips(index, init, c, step, body) ==
  init \o <<label(<<"begin", index>>), label(<<"continue", index>>)>>
    \o (IF c = <<>> THEN <<>> ELSE c \o <<beqz("t0", <<"end", index>>)>>)
    \o body \o step
    \o <<j(<<"begin", index>>), label(<<"break", index>>),
         label(<<"end", index>>)>>

For(index, init, c, step, body) ==
  init \o <<label(<<"begin", index>>)>>
    \o (IF c = <<>> THEN <<>> ELSE c \o <<beqz("t0", <<"end", index>>)>>)
    \o body \o <<label(<<"continue", index>>)>> \o step
    \o <<j(<<"begin", index>>), label(<<"break", index>>),
         label(<<"end", index>>)>>

(* Fault: continue goes to the body and skips the condition.               *)
While_continue_skips(index, c, body) ==
  <<label(<<"begin", index>>)>> \o c
    \o <<beqz("t0", <<"end", index>>), label(<<"continue", index>>)>> \o body
    \o <<j(<<"begin", index>>), label(<<"break", index>>),
         label(<<"end", index>>)>>

While(index, c, body) ==
  <<label(<<"begin", index>>), label(<<"continue", index>>)>> \o c
    \o <<beqz("t0", <<"end", index>>)>> \o body
    \o <<j(<<"begin", index>>), label(<<"break", index>>),
         label(<<"end", index>>)>>

(* The tests of the cases that are directly in the block, then the jump to *)
(* its last default, then the block.                                       *)
Switch(index, c, nodes, body) ==
  LET cases    == SelectSeq(nodes, LAMBDA n : n.kind = "CASE")
      defaults == SelectSeq(nodes, LAMBDA n : n.kind = "DEFAULT")
  IN  c \o FlattenSeq([i \in 1 .. Len(cases) |->
                         <<li("t1", cases[i].val),
                           beq("t0", "t1", <<"case", cases[i].label_index>>)>>])
        \o (IF defaults = <<>> THEN <<>>
            ELSE <<j(<<"default", Last(defaults).label_index>>)>>)
        \o <<j(<<"break", index>>)>> \o body \o <<label(<<"break", index>>)>>

-----------------------------------------------------------------------------
(* Statements                                                              *)

(* The kinds codegen_node hands to codegen_expr, which leave a value.      *)
IsExpr(node) ==
  node.kind \in BinaryKinds
    \cup {"NUM", "ADD", "SUB", "LVAR", "GVAR", "ASSIGN", "COND", "CALL", "DEREF",
          "ADDR", "MEMBER", "NOT", "POSTINC", "COMMA", "STRING"}

AssignNode(lhs, rhs) == [kind |-> "ASSIGN", lhs |-> lhs, rhs |-> rhs]

(* The first loop runs over the initializers: where they outnumber the     *)
(* members, it goes on to read behind the list of these.                   *)
PastMembers(members, inits) ==
  IF Len(inits) > Len(members) THEN <<unknown>> ELSE <<>>

(* The initializers in order, then zeros for the members left.             *)
codegen_init_struct_var(f, var, inits) ==
  LET lvar    == [kind |-> "LVAR", var |-> var]
      members == var.type.members
  IN  FlattenSeq(
        [i \in 1 .. Len(members) |->
           codegen_expr(f, AssignNode(
             [kind |-> "MEMBER", lhs |-> lvar, ident |-> members[i].name],
             IF i <= Len(inits) THEN inits[i] ELSE [kind |-> "NUM", val |-> 0]))
             \o codegen_pop_discard])
    \o PastMembers(members, inits)

(* Fault: the value of an assignment or a call stays on the stack.         *)
Discarded_partly(node) ==
  IF IsExpr(node) /\ node.kind \notin {"ASSIGN", "CALL"}
  THEN codegen_pop_discard ELSE <<>>

(* What follows a statement: a value it has left is discarded.             *)
Discarded(node) == IF IsExpr(node) THEN codegen_pop_discard ELSE <<>>

RECURSIVE codegen_node(_, _)

(* A statement for its effect.                                             *)
Effect(f, node) == codegen_node(f, node) \o Discarded(node)

Effects(f, nodes) == FlattenSeq([i \in 1 .. Len(nodes) |-> Effect(f, nodes[i])])

(* The parts of a for and the else of an if are sequences of at most one   *)
(* node; an absent one is a null pointer in the code.                      *)
Value(f, nodes) ==
  IF nodes = <<>> THEN <<>> ELSE codegen_expr(f, nodes[1]) \o codegen_pop_t0

codegen_node(f, node) ==
  CASE IsExpr(node) -> codegen_expr(f, node)
    [] node.kind = "RETURN" ->
         (IF node.lhs = <<>> THEN <<>>
          ELSE Value(f, node.lhs) \o <<mv("a0", "t0")>>) \o codegen_epilogue(f)
    [] node.kind = "IF" ->
         Cond(node.label_index, codegen_expr(f, node.lhs),
              Effect(f, node.rhs), Effects(f, node.node3))
    [] node.kind = "SWITCH" ->
         Switch(node.label_index, Value(f, <<node.lhs>>), node.rhs.nodes,
                codegen_node(f, node.rhs))
    [] node.kind = "WHILE" ->
         While(node.label_index, Value(f, <<node.lhs>>), Effect(f, node.rhs))
    [] node.kind = "FOR" ->
         For(node.label_index, Effects(f, node.lhs), Value(f, node.rhs),
             Effects(f, node.node3), Effects(f, node.node4))
    [] node.kind = "BLOCK" -> Effects(f, node.nodes)
    [] node.kind = "VARDECL" ->
         CASE node.rhs # <<>> ->
                Effect(f, AssignNode([kind |-> "LVAR", var |-> node.var],
                                     node.rhs[1]))
           [] node.rhs = <<>> /\ node.nodes = <<>> -> <<>>
           [] OTHER ->
                IF node.var.type.ty = "STRUCT"
                THEN codegen_init_struct_var(f, node.var, node.nodes[1])
                ELSE <<error>>
    [] node.kind = "BREAK"    -> <<j(<<"break", node.label_index>>)>>
    [] node.kind = "CONTINUE" -> <<j(<<"continue", node.label_index>>)>>
    [] node.kind = "CASE"     -> <<label(<<"case", node.label_index>>)>>
    [] node.kind = "DEFAULT"  -> <<label(<<"default", node.label_index>>)>>
    [] node.kind = "NOP"      -> <<>>

(* The parameters up to the "..." go from the argument registers to their  *)
(* slots.                                                                  *)
StoreParams(f) ==
  LET params == SelectSeq(f.args, LAMBDA arg : arg.kind # "VARARGS")
  IN  [i \in 1 .. Len(params) |-> store(8, a(i - 1), - params[i].var.offset, "fp")]

(* ND_FUNCDECL.                                                            *)
codegen_function(f) ==
  <<label(<<"fn", f.ident>>)>> \o codegen_prologue(f) \o StoreParams(f)
    \o FlattenSeq([i \in 1 .. Len(f.nodes) |->
                     codegen_node(f, f.nodes[i])
                       \o IF IsExpr(f.nodes[i]) THEN codegen_pop_t0 ELSE <<>>])
    \o <<mv("a0", "zero")>> \o codegen_epilogue(f)

-----------------------------------------------------------------------------
(* The data section: a directive gives the size and the value of a cell    *)

data(size, val) == [op |-> "data", size |-> size, val |-> val]
zero(size)      == [i \in 1 .. size |-> data(1, 0)]

(* The initializers in order, then zeros.  An element is a word whatever   *)
(* its type is; members follow each other without padding.                 *)
Initialized(type, inits) ==
  CASE type.ty = "ARRAY" ->
         IF Len(inits) > type.array_size THEN <<error>>
         ELSE [i \in 1 .. Len(inits) |-> data(4, inits[i])]
                \o zero((type.array_size - Len(inits)) * sizeof_type(type.base))
    [] type.ty = "STRUCT" ->
         [i \in 1 .. Len(type.members) |->
            LET size == sizeof_type(type.members[i].type)
            IN  IF size \notin {1, 4, 8} THEN error
                ELSE data(size, IF i <= Len(inits) THEN inits[i] ELSE 0)]
           \o PastMembers(type.members, inits)
    [] OTHER -> <<error>>

(* A string: its characters and a NUL, under the label LC of its index.    *)
codegen_string(chars) ==
  [i \in 1 .. Len(chars) + 1 |-> data(1, IF i <= Len(chars) THEN chars[i] ELSE 0)]

(* ND_GVARDECL; nothing is placed for a variable of another file.          *)
codegen_gvar(gvar) ==
  CASE gvar.is_extern -> <<>>
    [] ~ gvar.is_extern /\ gvar.rhs # <<>> -> <<data(4, gvar.rhs[1])>>
    [] ~ gvar.is_extern /\ gvar.rhs = <<>> /\ gvar.nodes # <<>> ->
         Initialized(gvar.type, gvar.nodes[1])
    [] OTHER -> zero(sizeof_type(gvar.type))

codegen(functions) ==
  FlattenSeq([i \in 1 .. Len(functions) |-> codegen_function(functions[i])])
=============================================================================
