------------------------------- MODULE Parser -------------------------------
(***************************************************************************)
(* The statement and declaration parser of parse.c: parse_program,         *)
(* parse_decl, _parse_decl_func, parse_block, parse_stmt and               *)
(* parse_vardecl, with the scope chain and the labels they hand out.       *)
(*                                                                         *)
(* A step consumes the tokens of one production.  The input is whatever    *)
(* the steps choose to read, so the runs cover every program within the    *)
(* bounds.  `mode` is the place in the parser, `cont` the parse_stmt and   *)
(* parse_block calls that have not returned yet.  An expression is reduced *)
(* to what it does to this state: the variable or function it looks up,    *)
(* the label a ?: takes.  error() ends the program.                        *)
(***************************************************************************)
EXTENDS Vars

CONSTANTS
  FuncNames,       \* identifiers of functions
  Expressions,     \* the expressions the input contains
  NoVar,           \* the null Var pointer
  NoDecl,          \* no declaration is being parsed
  MaxScopeId,      \* bound on scope_id
  MaxLabels,       \* bound on label_index
  MaxDepth,        \* bound on the nesting of statements
  MaxGlobals,      \* bound on the length of globals
  MaxFuncs         \* bound on the length of funcs

Expr == [kind : {"NUM", "COND"}]
          \cup [kind : {"IDENT"}, name : Names]
          \cup [kind : {"CALL"}, name : FuncNames]

ASSUME ParserAssumption ==
  /\ Expressions \subseteq Expr
  /\ {MaxScopeId, MaxLabels, MaxDepth, MaxGlobals,
      MaxFuncs} \subseteq Nat
  /\ NoVar \notin [name : Names, type : Types, offset : Nat, scope_id : Nat]
  /\ NoVar \notin Types
  /\ NoDecl \notin [name : FuncNames, type : Types, args : Seq(Names),
                    varargs : BOOLEAN]

VARIABLES
  mode,            \* which production is being read
  cont,            \* the statements that enclose it, outermost first
  scopes,          \* the chain from curr_scope to its root, outermost first
  scope_id,
  label_index,
  decl,            \* the ND_FUNCDECL of the function being read
  nodes,           \* its nodes that own a label, in the order they take it
  jumps,           \* its ND_BREAK and ND_CONTINUE nodes
  uses,            \* the variables its expressions refer to
  globals,
  funcs,
  code             \* the ND_FUNCDECL nodes of the finished functions

vars == <<mode, cont, scopes, scope_id, label_index, decl, nodes, jumps, uses,
          globals, funcs, code>>

Labelled  == {"IF", "SWITCH", "WHILE", "FOR", "CASE", "DEFAULT", "COND"}
Breakable == {"WHILE", "FOR", "SWITCH"}
Loops     == {"WHILE", "FOR"}
Enclosing == {"FUNCTION", "BLOCK", "IF", "ELSE"} \cup Breakable

(* The statements a break or a continue can leave.                         *)
Targets(kind) == IF kind = "BREAK" THEN Breakable ELSE Loops

Scope == [kind   : {"FUNCDECL", "BLOCK"} \cup Breakable,
          label  : Nat,
          id     : Nat,
          locals : Seq(Var)]
Node  == [kind : Labelled, label : Nat]
Jump  == [kind : {"BREAK", "CONTINUE"}, label : Nat]
Use   == [name : Names, scope_id : Nat]
Decl  == [name : FuncNames, type : Types, args : Seq(Names),
          varargs : BOOLEAN]
Func  == [decl : Decl, locals : Seq(Var), nodes : Seq(Node),
          jumps : SUBSET Jump, uses : SUBSET Use]
Modes == {"top", "params", "sig", "stmt", "forinit", "forrest", "done",
          "noelse", "eof", "error"}

TypeOK ==
  /\ mode \in Modes
  /\ cont \in Seq(Enclosing)
  /\ scopes \in Seq(Scope)
  /\ scope_id \in Nat
  /\ label_index \in Nat
  /\ decl \in Decl \cup {NoDecl}
  /\ nodes \in Seq(Node)
  /\ jumps \subseteq Jump
  /\ uses \subseteq Use
  /\ globals \in Seq([name : Names, is_extern : BOOLEAN])
  /\ funcs \in Seq([name : FuncNames, type : Types])
  /\ code \in Seq(Func)

-----------------------------------------------------------------------------
(* The scope chain                                                         *)

IsDeclaredAs(var, id, name) == var.scope_id = id /\ var.name = name

(* Fault: the search starts at the outermost scope.                        *)
find_var_outermost(chain, name) ==
  LET Declares(s) ==
        \E i \in 1 .. Len(s.locals) : IsDeclaredAs(s.locals[i], s.id, name)
      k == SelectInSeq(chain, Declares)
      Wanted(var) == IsDeclaredAs(var, chain[k].id, name)
  IN  IF k = 0 THEN NoVar
      ELSE chain[k].locals[SelectInSeq(chain[k].locals, Wanted)]

(* The first of the scopes, from the innermost outwards, that has defined  *)
(* the name itself; a scope's list also holds what inner scopes left in    *)
(* it, which is what the test of scope_id is for.                          *)
find_var_in_curr_scope(chain, name) ==
  LET Declares(s) ==
        \E i \in 1 .. Len(s.locals) : IsDeclaredAs(s.locals[i], s.id, name)
      k == SelectLastInSeq(chain, Declares)
      Wanted(var) == IsDeclaredAs(var, chain[k].id, name)
  IN  IF k = 0 THEN NoVar
      ELSE chain[k].locals[SelectInSeq(chain[k].locals, Wanted)]

NewScope(kind, label, id) ==
  [kind |-> kind, label |-> label, id |-> id, locals |-> <<>>]

(* scope_create makes the scope of a function, whose parent is NULL        *)
(* whatever curr_scope was.                                                *)
scope_create ==
  /\ scope_id < MaxScopeId
  /\ scope_id' = scope_id + 1
  /\ scopes' = <<NewScope("FUNCDECL", 0, scope_id')>>

(* Fault: the scope shares the scope_id of the one around it.              *)
scope_push_same_id(kind, label) ==
  /\ scope_id < MaxScopeId
  /\ scope_id' = scope_id + 1
  /\ scopes' = Append(scopes, NewScope(kind, label, scopes[1].id))

scope_push(kind, label) ==
  /\ scope_id < MaxScopeId
  /\ scope_id' = scope_id + 1
  /\ scopes' = Append(scopes, NewScope(kind, label, scope_id'))

(* Fault: the variables keep the offsets they had.                         *)
MergeInto_unshifted(parent, child) ==
  [parent EXCEPT !.locals = @ \o child.locals]

(* The parent's list takes over the variables of the scope that ends,      *)
(* below its own.                                                          *)
MergeInto(parent, child) ==
  [parent EXCEPT !.locals =
     @ \o Shift(child.locals, LastOffset(@))]

scope_pop(chain) ==
  LET n == Len(chain)
  IN  Append(SubSeq(chain, 1, n - 2), MergeInto(chain[n - 1], chain[n]))

(* What add_var does to the innermost scope.                               *)
AddLocal(chain, name, type) ==
  LET n == Len(chain)
  IN  [chain EXCEPT ![n].locals = add_var(@, name, type, chain[n].id)]

AddRefuses(chain, name, type) ==
  \/ BadType(type)
  \/ Redefines(chain[Len(chain)].locals, name, chain[Len(chain)].id)

(* Fault: the search starts at the outermost scope.                        *)
InnermostLabel_outermost(kinds) ==
  LET k == SelectInSeq(scopes, LAMBDA s : s.kind \in kinds)
  IN  IF k = 0 THEN 0 ELSE scopes[k].label

(* The label of the innermost scope of one of the kinds, 0 if none.        *)
InnermostLabel(kinds) ==
  LET k == SelectLastInSeq(scopes, LAMBDA s : s.kind \in kinds)
  IN  IF k = 0 THEN 0 ELSE scopes[k].label

-----------------------------------------------------------------------------
(* Expressions                                                             *)

ConstExpr == [kind : {"NUM"}] \cup [kind : {"SIZEOF"}, name : Names]

IsGlobal(name) == \E i \in 1 .. Len(globals) : globals[i].name = name
IsFunc(name)   == \E i \in 1 .. Len(funcs) : funcs[i].name = name

(* parse_primary finds what the expression names: a local of the chain or  *)
(* a global, a function declared so far.                                   *)
Resolves(chain, e) ==
  /\ e.kind \in {"IDENT", "SIZEOF"} =>
       find_var_in_curr_scope(chain, e.name) # NoVar \/ IsGlobal(e.name)
  /\ e.kind = "CALL" => IsFunc(e.name)

(* The local variables the parsed expression points to.                    *)
LocalsOf(chain, e) ==
  IF e.kind = "IDENT" /\ find_var_in_curr_scope(chain, e.name) # NoVar
  THEN {[name     |-> e.name,
         scope_id |-> find_var_in_curr_scope(chain, e.name).scope_id]}
  ELSE {}

Conds(e) == IF e.kind = "COND" THEN <<"COND">> ELSE <<>>

(* The nodes of the kinds, each with a label of its own.                   *)
NewNodes(kinds) ==
  /\ label_index + Len(kinds) <= MaxLabels
  /\ label_index' = label_index + Len(kinds)
  /\ nodes' = nodes \o [i \in 1 .. Len(kinds) |->
                          [kind |-> kinds[i], label |-> label_index + i]]

(* parse_expr reads e where the chain is in force, after the statement has *)
(* taken labels for nodes of the kinds.                                    *)
parse_expr(chain, kinds, e) ==
  /\ Resolves(chain, e)
  /\ uses' = uses \cup LocalsOf(chain, e)
  /\ NewNodes(kinds \o Conds(e))

-----------------------------------------------------------------------------
(* parse_decl: global declarations and functions                           *)

Init ==
  /\ mode = "top"
  /\ cont = <<>> /\ scopes = <<>>
  /\ scope_id = 0 /\ label_index = 0
  /\ decl = NoDecl
  /\ nodes = <<>> /\ jumps = {} /\ uses = {}
  /\ globals = <<>> /\ funcs = <<>> /\ code = <<>>

(* A global variable, whose initializer is a constant expression read      *)
(* before the variable is added.  Only an extern may be declared again.    *)
DeclGlobal ==
  /\ mode = "top"
  /\ Len(globals) < MaxGlobals
  /\ \E name \in Names, is_extern \in BOOLEAN, init \in ConstExpr :
       /\ Resolves(scopes, init)
       /\ \A i \in 1 .. Len(globals) :
            globals[i].name = name => globals[i].is_extern
       /\ globals' = Append(globals, [name |-> name, is_extern |-> is_extern])
  /\ UNCHANGED <<mode, cont, scopes, scope_id, label_index, decl, nodes,
                 jumps, uses, funcs, code>>

FuncBegin ==
  /\ mode = "top"
  /\ Len(funcs) < MaxFuncs
  /\ mode' = "params"
  /\ scope_create
  /\ \E name \in FuncNames, type \in Types :
       decl' = [name |-> name, type |-> type, args |-> <<>>,
                varargs |-> FALSE]
  /\ UNCHANGED <<cont, label_index, nodes, jumps, uses, globals, funcs, code>>

Param ==
  /\ mode = "params"
  /\ \E name \in Names, type \in Types :
       /\ ~ AddRefuses(scopes, name, type)
       /\ scopes' = AddLocal(scopes, name, type)
       /\ decl' = [decl EXCEPT !.args = Append(@, name)]
  /\ UNCHANGED <<mode, cont, scope_id, label_index, nodes, jumps, uses,
                 globals, funcs, code>>

(* The ")" of the parameters, after "..." or not.  From here on the        *)
(* function can be called, its own body included.                          *)
ParamsEnd ==
  /\ mode = "params"
  /\ mode' = "sig"
  /\ \E varargs \in BOOLEAN : decl' = [decl EXCEPT !.varargs = varargs]
  /\ funcs' = Append(funcs, [name |-> decl.name, type |-> decl.type])
  /\ UNCHANGED <<cont, scopes, scope_id, label_index, nodes, jumps, uses,
                 globals, code>>

(* A ";" instead of the body.  The node becomes an ND_NOP; curr_scope      *)
(* stays.                                                                  *)
Prototype ==
  /\ mode = "sig"
  /\ mode' = "top"
  /\ decl' = NoDecl
  /\ UNCHANGED <<cont, scopes, scope_id, label_index, nodes, jumps, uses,
                 globals, funcs, code>>

BodyOpen ==
  /\ mode = "sig"
  /\ mode' = "stmt"
  /\ cont' = <<"FUNCTION">>
  /\ scope_push("BLOCK", 0)
  /\ UNCHANGED <<label_index, decl, nodes, jumps, uses, globals, funcs, code>>

(* The "}" of the body: its scope is merged into the function's, the       *)
(* function is complete and curr_scope is reset.                           *)
BodyClose ==
  /\ mode = "stmt"
  /\ Last(cont) = "FUNCTION"
  /\ mode' = "top"
  /\ cont' = <<>>
  /\ code' = Append(code, [decl   |-> decl,
                           locals |-> scope_pop(scopes)[1].locals,
                           nodes  |-> nodes,
                           jumps  |-> jumps,
                           uses   |-> uses])
  /\ scopes' = <<>>
  /\ decl' = NoDecl
  /\ nodes' = <<>> /\ jumps' = {} /\ uses' = {}
  /\ UNCHANGED <<scope_id, label_index, globals, funcs>>

Eof ==
  /\ mode = "top"
  /\ mode' = "eof"
  /\ UNCHANGED <<cont, scopes, scope_id, label_index, decl, nodes, jumps,
                 uses, globals, funcs, code>>

-----------------------------------------------------------------------------
(* parse_stmt                                                              *)

(* A parse_stmt call returns to the statements in c.  A block goes on with *)
(* its next statement; `noelse` says that the next token is known not to   *)
(* be an else.                                                             *)
StmtReturns(c, next) ==
  /\ cont' = c
  /\ mode' = IF Last(c) \in {"FUNCTION", "BLOCK"} THEN "stmt" ELSE next

StmtBegins(kind) ==
  /\ Len(cont) < MaxDepth
  /\ cont' = Append(cont, kind)
  /\ mode' = "stmt"

(* An expression statement, or the return of a value.                      *)
ExprStmt ==
  /\ mode = "stmt"
  /\ \E e \in Expressions : parse_expr(scopes, <<>>, e)
  /\ StmtReturns(cont, "done")
  /\ UNCHANGED <<scopes, scope_id, decl, jumps, globals, funcs, code>>

(* `return ;`.  scope_find(ND_FUNCDECL) gives the root of the chain, whose *)
(* node is the function being read.                                        *)
ReturnVoid ==
  /\ mode = "stmt"
  /\ decl.type = Void
  /\ StmtReturns(cont, "done")
  /\ UNCHANGED <<scopes, scope_id, label_index, decl, nodes, jumps, uses,
                 globals, funcs, code>>

(* parse_vardecl: the variable is in scope in its own initializer.         *)
parse_vardecl(name, type, e) ==
  /\ ~ AddRefuses(scopes, name, type)
  /\ scopes' = AddLocal(scopes, name, type)
  /\ parse_expr(scopes', <<>>, e)

VarDecl ==
  /\ mode = "stmt"
  /\ \E name \in Names, type \in Types, e \in Expressions :
       parse_vardecl(name, type, e)
  /\ StmtReturns(cont, "done")
  /\ UNCHANGED <<scope_id, decl, jumps, globals, funcs, code>>

(* The node of a jump to the innermost target, none where there is none.   *)
JumpOf(kind, targets) ==
  LET label == InnermostLabel(targets)
  IN  IF label = 0 THEN {} ELSE {[kind |-> kind, label |-> label]}

(* Fault: a switch counts as a loop.                                       *)
ContinueHere_in_switch == JumpOf("CONTINUE", Breakable)

(* What a break, and a continue, read here becomes.                        *)
BreakHere    == JumpOf("BREAK", Breakable)
ContinueHere == JumpOf("CONTINUE", Loops)

MakeJump(made) ==
  /\ mode = "stmt"
  /\ \E j \in made : jumps' = jumps \cup {j}
  /\ StmtReturns(cont, "done")
  /\ UNCHANGED <<scopes, scope_id, label_index, decl, nodes, uses, globals,
                 funcs, code>>

Break    == MakeJump(BreakHere)
Continue == MakeJump(ContinueHere)

(* Case and default labels are statements of their own.                    *)
Case ==
  /\ mode = "stmt"
  /\ \E e \in ConstExpr : Resolves(scopes, e)
  /\ NewNodes(<<"CASE">>)
  /\ StmtReturns(cont, "done")
  /\ UNCHANGED <<scopes, scope_id, decl, jumps, uses, globals, funcs, code>>

Default ==
  /\ mode = "stmt"
  /\ NewNodes(<<"DEFAULT">>)
  /\ StmtReturns(cont, "done")
  /\ UNCHANGED <<scopes, scope_id, decl, jumps, uses, globals, funcs, code>>

BlockOpen ==
  /\ mode = "stmt"
  /\ scope_push("BLOCK", 0)
  /\ StmtBegins("BLOCK")
  /\ UNCHANGED <<label_index, decl, nodes, jumps, uses, globals, funcs, code>>

BlockClose ==
  /\ mode = "stmt"
  /\ Last(cont) = "BLOCK"
  /\ scopes' = scope_pop(scopes)
  /\ StmtReturns(Front(cont), "done")
  /\ UNCHANGED <<scope_id, label_index, decl, nodes, jumps, uses, globals,
                 funcs, code>>

(* `while (e)` and `switch (e)`: a label, a scope, then the expression.    *)
HeadOpen(kind) ==
  /\ mode = "stmt"
  /\ scope_push(kind, label_index + 1)
  /\ \E e \in Expressions : parse_expr(scopes', <<kind>>, e)
  /\ StmtBegins(kind)
  /\ UNCHANGED <<decl, jumps, globals, funcs, code>>

WhileOpen  == HeadOpen("WHILE")
SwitchOpen == HeadOpen("SWITCH")

ForOpen ==
  /\ mode = "stmt"
  /\ mode' = "forinit"
  /\ Len(cont) < MaxDepth
  /\ cont' = Append(cont, "FOR")
  /\ scope_push("FOR", label_index + 1)
  /\ NewNodes(<<"FOR">>)
  /\ UNCHANGED <<decl, jumps, uses, globals, funcs, code>>

(* The part before the first ";": a declaration, an expression or nothing. *)
ForInit ==
  /\ mode = "forinit"
  /\ mode' = "forrest"
  /\ \/ \E name \in Names, type \in Types, e \in Expressions :
          parse_vardecl(name, type, e)
     \/ /\ \E e \in Expressions : parse_expr(scopes, <<>>, e)
        /\ UNCHANGED scopes
     \/ UNCHANGED <<scopes, label_index, nodes, uses>>
  /\ UNCHANGED <<cont, scope_id, decl, jumps, globals, funcs, code>>

(* The condition and the step, then a body or a ";" that ends the loop.    *)
ForRest ==
  /\ mode = "forrest"
  /\ \E cond, step \in Expressions :
       /\ Resolves(scopes, cond) /\ Resolves(scopes, step)
       /\ uses' = uses \cup LocalsOf(scopes, cond) \cup LocalsOf(scopes, step)
       /\ NewNodes(Conds(cond) \o Conds(step))
  /\ \/ /\ mode' = "stmt"
        /\ UNCHANGED <<cont, scopes>>
     \/ /\ scopes' = scope_pop(scopes)
        /\ StmtReturns(Front(cont), "done")
  /\ UNCHANGED <<scope_id, decl, jumps, globals, funcs, code>>

(* Fault: no scope_pop.                                                    *)
BodyReturns_unpopped ==
  /\ mode \in {"done", "noelse"}
  /\ Last(cont) \in Breakable
  /\ StmtReturns(Front(cont), mode)
  /\ UNCHANGED <<scopes, scope_id, label_index, decl, nodes, jumps, uses,
                 globals, funcs, code>>

(* The body of a while, for or switch has been read.                       *)
BodyReturns ==
  /\ mode \in {"done", "noelse"}
  /\ Last(cont) \in Breakable
  /\ scopes' = scope_pop(scopes)
  /\ StmtReturns(Front(cont), mode)
  /\ UNCHANGED <<scope_id, label_index, decl, nodes, jumps, uses, globals,
                 funcs, code>>

IfOpen ==
  /\ mode = "stmt"
  /\ \E e \in Expressions : parse_expr(scopes, <<>>, e)
  /\ StmtBegins("IF")
  /\ UNCHANGED <<scopes, scope_id, decl, jumps, globals, funcs, code>>

Else ==
  /\ mode = "done"
  /\ Last(cont) = "IF"
  /\ mode' = "stmt"
  /\ cont' = Append(Front(cont), "ELSE")
  /\ UNCHANGED <<scopes, scope_id, label_index, decl, nodes, jumps, uses,
                 globals, funcs, code>>

(* Fault: the label is not incremented.                                    *)
IfReturns_same_label ==
  /\ mode \in {"done", "noelse"}
  /\ Last(cont) \in {"IF", "ELSE"}
  /\ nodes' = Append(nodes, [kind |-> "IF", label |-> label_index])
  /\ StmtReturns(Front(cont), IF Last(cont) = "IF" THEN "noelse" ELSE mode)
  /\ UNCHANGED <<scopes, scope_id, label_index, decl, jumps, uses, globals,
                 funcs, code>>

(* An if takes its label when the whole statement has been read.           *)
IfReturns ==
  /\ mode \in {"done", "noelse"}
  /\ Last(cont) \in {"IF", "ELSE"}
  /\ NewNodes(<<"IF">>)
  /\ StmtReturns(Front(cont), IF Last(cont) = "IF" THEN "noelse" ELSE mode)
  /\ UNCHANGED <<scopes, scope_id, decl, jumps, uses, globals, funcs, code>>

(* error: in every production the next token may be one that it refuses,   *)
(* or name something the guards of its step reject.  The process exits and *)
(* nothing of what it had read remains.                                    *)
Error ==
  /\ mode \notin {"eof", "error"}
  /\ mode' = "error"
  /\ cont' = <<>> /\ scopes' = <<>>
  /\ scope_id' = 0 /\ label_index' = 0
  /\ decl' = NoDecl
  /\ nodes' = <<>> /\ jumps' = {} /\ uses' = {}
  /\ globals' = <<>> /\ funcs' = <<>> /\ code' = <<>>

Declaration ==
  DeclGlobal \/ FuncBegin \/ Param \/ ParamsEnd \/ Prototype \/ BodyOpen
    \/ BodyClose \/ Eof

Statement ==
  ExprStmt \/ ReturnVoid \/ VarDecl \/ Break \/ Continue \/ Case \/ Default
    \/ BlockOpen \/ BlockClose \/ WhileOpen \/ SwitchOpen \/ ForOpen
    \/ ForInit \/ ForRest \/ BodyReturns \/ IfOpen \/ Else \/ IfReturns

Next == Declaration \/ Statement \/ Error

Spec == Init /\ [][Next]_vars

-----------------------------------------------------------------------------
(* Properties                                                              *)

InFunction == decl # NoDecl

(* What codegen relies on when it turns an offset into fp - offset: in a   *)
(* finished function no two variables, of whatever scopes, share a byte,   *)
(* all lie within the frame codegen_prologue reserves, and every one can   *)
(* be stored to as a double word.  add_var and the merges of scope_pop     *)
(* have to agree for that.                                                 *)
FramesDisjoint ==
  \A f \in 1 .. Len(code) :
    LET locals == code[f].locals
    IN  \A j, k \in 1 .. Len(locals) :
          /\ Slot(locals[k]) \subseteq 1 .. LastOffset(locals)
          /\ locals[k].offset % 8 = 0
          /\ j # k => Slot(locals[j]) \cap Slot(locals[k]) = {}

(* (name, scope_id) identifies a variable (mocc.h): whatever an expression *)
(* of a function resolved to is, once every scope has been merged, exactly *)
(* one variable of the function's frame.                                   *)
UsesResolve ==
  \A f \in 1 .. Len(code) : \A use \in code[f].uses :
    LET named == {i \in 1 .. Len(code[f].locals) :
                    IsDeclaredAs(code[f].locals[i], use.scope_id, use.name)}
    IN  \E i \in named : named = {i}

(* The nodes of the finished functions, and after the last those of the    *)
(* one being read.                                                         *)
NodesOf(f) == IF f <= Len(code) THEN code[f].nodes ELSE nodes

(* The labels of the assembly are named by a node's label_index alone and  *)
(* are local to the file: no two nodes of the whole program share one.     *)
LabelsUnique ==
  \A f, g \in 1 .. Len(code) + 1 :
    \A i \in 1 .. Len(NodesOf(f)), j \in 1 .. Len(NodesOf(g)) :
      <<f, i>> # <<g, j>> => NodesOf(f)[i].label # NodesOf(g)[j].label

(* codegen emits .Lbreak for a while, a for and a switch, .Lcontinue for   *)
(* the loops only: every jump of a finished function lands in the          *)
(* function, at a node that has the label.                                 *)
JumpsLand ==
  \A f \in 1 .. Len(code) : \A j \in code[f].jumps :
    \E i \in 1 .. Len(code[f].nodes) :
      /\ code[f].nodes[i].label = j.label
      /\ code[f].nodes[i].kind \in Targets(j.kind)

(* The scopes inside the function's own belong to the open statements that *)
(* are not ifs: `at` takes each to its statement, in order.                *)
MirroredBy(at, chain, stmts) ==
  /\ \A i, j \in 2 .. Len(chain) : i < j => at[i] < at[j]
  /\ \A k \in 1 .. Len(stmts) :
       stmts[k] \notin {"IF", "ELSE"} => \E i \in 2 .. Len(chain) : at[i] = k
  /\ \A i \in 2 .. Len(chain) :
       chain[i].kind = IF stmts[at[i]] = "FUNCTION" THEN "BLOCK"
                       ELSE stmts[at[i]]

Mirrors(chain, stmts) ==
  \E at \in [2 .. Len(chain) -> 1 .. Len(stmts)] :
    MirroredBy(at, chain, stmts)

(* The scope chain mirrors the statements that are open, which is what the *)
(* asserts of scope_push and scope_pop and the use of curr_scope without a *)
(* test rest on.                                                           *)
ScopesMirrorNesting ==
  InFunction =>
    /\ Len(scopes) >= 1
    /\ scopes[1].kind = "FUNCDECL"
    /\ Mirrors(scopes, cont)

(* The jumps of the kind lead to the innermost open statement that fits,   *)
(* under the label its scope holds and its own node has; there is none     *)
(* when no open statement fits.                                            *)
IsInnermost(at, kind, made) ==
  LET open == {k \in 1 .. Len(cont) : cont[k] \in Targets(kind)}
  IN  IF open = {} THEN made = {}
      ELSE \E s \in 2 .. Len(scopes) :
             /\ at[s] \in open /\ \A k \in open : k <= at[s]
             /\ made = {[kind |-> kind, label |-> scopes[s].label]}
             /\ \E i \in 1 .. Len(nodes) :
                  nodes[i] = [kind |-> cont[at[s]], label |-> scopes[s].label]

(* Wherever a statement may begin, a break or continue would be accepted   *)
(* just when an open statement can be left that way, and would take the    *)
(* label of the innermost of these.                                        *)
JumpsInnermost ==
  mode = "stmt" =>
    \E at \in [2 .. Len(scopes) -> 1 .. Len(cont)] :
      /\ MirroredBy(at, scopes, cont)
      /\ \A kind \in {"BREAK", "CONTINUE"} :
           IsInnermost(at, kind,
                       {j \in BreakHere \cup ContinueHere : j.kind = kind})

(* The blocks open in the function, as block-structured scoping sees them: *)
(* the names each scope has declared itself.                               *)
Own(s, name) ==
  {i \in 1 .. Len(s.locals) : IsDeclaredAs(s.locals[i], s.id, name)}

DeclaredIn(s) ==
  [n \in Names |->
     IF Own(s, n) = {} THEN NoVar
     ELSE s.locals[CHOOSE i \in Own(s, n) : TRUE].type]

env ==
  IF InFunction THEN [i \in 1 .. Len(scopes) |-> DeclaredIn(scopes[i])]
  ELSE <<>>

Scoping == INSTANCE BlockScoping WITH Undeclared <- NoVar

(* Reading a function body opens, fills and closes blocks as               *)
(* block-structured scoping prescribes: closing one, which appends its     *)
(* variables to its parent's list, changes nothing of what the parent      *)
(* declares.                                                               *)
ImplementsScoping == Scoping!Spec

(* find_var_in_curr_scope finds the declaration that is in sight, and none *)
(* when none is.                                                           *)
LookupFindsVisible ==
  InFunction =>
    \A n \in Names :
      LET var == find_var_in_curr_scope(scopes, n)
      IN  Scoping!Visible(n) = IF var = NoVar THEN NoVar ELSE var.type

(* A parameter cannot be declared again in the body's own block (the test  *)
(* of test.sh line 120, disabled with a FIXME).                            *)
ParametersNotRedeclared ==
  InFunction /\ Len(scopes) >= 2 =>
    \A n \in Names : Own(scopes[1], n) = {} \/ Own(scopes[2], n) = {}
=============================================================================
