------------------------------ MODULE Compiler ------------------------------
(***************************************************************************)
(* The compiler against the language: the code Codegen prints for the      *)
(* nodes Syntax builds is executed by Hart, and what it does is compared   *)
(* with what CSemantics says the program means.  Executables is to be      *)
(* Compiled.                                                               *)
(***************************************************************************)
EXTENDS Hart, Codegen, Syntax, CSemantics

CONSTANT
  Programs      \* a sequence of programs

-----------------------------------------------------------------------------
(* The assembly of a program                                               *)

V(prog) == INSTANCE Vars
             WITH Names  <- {},
                  Types  <- {prog.decls[i].type : i \in 1 .. Len(prog.decls)},
                  Void   <- void_type,
                  SizeOf <- [t \in {prog.decls[i].type :
                                      i \in 1 .. Len(prog.decls)}
                                     \cup {void_type} |-> sizeof_type(t)]

(* The list of local variables parse.c leaves for a function.              *)
Locals(vars_) ==
  FoldLeft(LAMBDA list, d :
             V([decls |-> vars_])!add_var(list, d.name, d.type, 0),
           <<>>, vars_)

FuncDecl(prog, k) ==
  LET f      == prog.functions[k]
      locals == Locals(f.params \o f.decls)
      env    == [locals |-> locals, globals |-> prog.globals,
                 constants |-> prog.constants, functions |-> prog.functions]
  IN  [kind   |-> "FUNCDECL",
       ident  |-> f.ident,
       locals |-> locals,
       args   |-> [i \in 1 .. Len(f.params) |->
                     [kind |-> "LVAR", var |-> locals[i]]]
                    \o (IF f.varargs THEN <<[kind |-> "VARARGS"]>> ELSE <<>>),
       nodes  |-> [i \in 1 .. Len(f.body) |->
                     statement(env, <<k, i>>, <<>>, <<>>, f.body[i])]]

Functions(prog) ==
  [k \in 1 .. Len(prog.functions) |-> FuncDecl(prog, k)]

LabelsOf(text) == {i \in 1 .. Len(text) : text[i].op = "label"}

(* The positions of the labels, resolved by the assembler.                 *)
Positions(text) ==
  [name \in {text[i].name : i \in LabelsOf(text)} |->
     CHOOSE i \in LabelsOf(text) : text[i].name = name]

FrameSize(f) == func_locals_offset(f) + 16 + IF IsVarargs(f) THEN 64 ELSE 0

(* The linker places the globals one after the other.                      *)
GlobalAddress(prog, name) ==
  8192 + 64 * SelectInSeq(prog.globals, LAMBDA g : g.name = name)

StringAddress(i) == 12288 + 64 * i

(* The cells of the data from an address on.                               *)
Cells(start, directives) ==
  FoldLeft(LAMBDA placed, d :
             [next  |-> placed.next + d.size,
              cells |-> (placed.next :> [size |-> d.size, val |-> d.val])
                          @@ placed.cells],
           [next |-> start, cells |-> <<>>], directives).cells

(* An initializer is read when the globals before its own are known.       *)
Data(prog) ==
  LET env(i) == [locals |-> <<>>, globals |-> SubSeq(prog.globals, 1, i - 1),
                 constants |-> prog.constants, functions |-> prog.functions]
  IN  [i \in 1 .. Len(prog.globals) |->
         codegen_gvar(global(env(i), prog.globals[i]))]

Strings(prog) ==
  FoldLeft(LAMBDA image, i :
             Cells(StringAddress(i - 1), codegen_string(prog.strings[i])) @@ image,
           <<>>, [i \in 1 .. Len(prog.strings) |-> i])

(* A variable no global of the program defines comes from another file.    *)
Defined(prog, data_, name) ==
  \E i \in 1 .. Len(data_) : prog.globals[i].name = name /\ data_[i] # <<>>

Image(prog, data_) ==
  FoldLeft(LAMBDA image, i :
             LET name == prog.globals[i].name
             IN  Cells(GlobalAddress(prog, name),
                       IF Defined(prog, data_, name) THEN data_[i]
                       ELSE <<data(4, Elsewhere)>>) @@ image,
           Strings(prog), [i \in 1 .. Len(data_) |-> i])

(* No label is defined twice, and every branch and jump has its label.     *)
Links(text) ==
  LET labels == LabelsOf(text)
  IN  /\ \A i, k \in labels : text[i] = text[k] => i = k
      /\ \A i \in 1 .. Len(text) :
           text[i].op \in {"beq", "j"} =>
             label(text[i].target) \in {text[k] : k \in labels}

(* The views of the positions, found from the first to the last: a label   *)
(* that was jumped to has the view of the jump, and what follows a return  *)
(* is a statement again, with the view of a complete frame.  It ends where *)
(* the discipline is broken.                                               *)
Viewed(found, at, frames) ==
  LET v == CASE at.op = "label" /\ at.name[1] = "fn" -> EntryView(at.name[2])
             [] at.op = "label" /\ at.name \in DOMAIN found.targets ->
                  found.targets[at.name]
             [] OTHER -> found.next
      body == IF v.sp = frames[v.fn] THEN v ELSE found.body
  IN  [views   |-> Append(found.views, v),
       next    |-> IF at.op = "ret" THEN body ELSE ViewAfter(v, at),
       body    |-> body,
       targets |-> IF at.op \in {"j", "beq"} THEN (at.target :> v) @@ found.targets
                   ELSE found.targets,
       broken  |-> ~ Keeps(v, at)]

RECURSIVE ViewedAll(_, _, _)
ViewedAll(found, text, frames) ==
  LET half == Len(text) \div 2
  IN  CASE found.broken              -> found
        [] ~ found.broken /\ half = 0 -> Viewed(found, text[1], frames)
        [] OTHER ->
             ViewedAll(ViewedAll(found, SubSeq(text, 1, half), frames),
                       SubSeq(text, half + 1, Len(text)), frames)

Views(text, frames) ==
  ViewedAll([views |-> <<>>, next |-> <<>>, body |-> <<>>, targets |-> <<>>,
             broken |-> FALSE], text, frames).views

(* What the assembler and the linker make of the compiler's output.        *)
Linked(prog, functions, text, data_) ==
  LET frames == [name \in {f.ident : f \in ToSet(functions)} |->
                   FrameSize(functions[SelectInSeq(functions,
                                         LAMBDA f : f.ident = name)])]
  IN
  [source   |-> prog,
   text     |-> text,
   at       |-> Positions(text),
   frames   |-> frames,
   view     |-> Views(text, frames),
   address  |-> [name \in {g.name : g \in ToSet(prog.globals)} |->
                   GlobalAddress(prog, name)]
                  @@ [name \in {LC(i - 1) : i \in 1 .. Len(prog.strings)} |->
                        StringAddress((CHOOSE i \in 1 .. Len(prog.strings) :
                                         LC(i - 1) = name) - 1)],
   image    |-> Image(prog, data_),
   links    |-> Links(text),
   accepted |-> \A part \in {text} \cup ToSet(data_) :
                 {error, unknown} \cap ToSet(part) = {}]

Executable(prog, functions) ==
  Linked(prog, functions, codegen(functions), Data(prog))

Compiled ==
  LET programs == Programs
  IN  [n \in 1 .. Len(programs) |-> Executable(programs[n], Functions(programs[n]))]

-----------------------------------------------------------------------------
(* Correctness                                                             *)

(* The code does what the program means: for whatever the external         *)
(* functions return, they are called in the same order with the same       *)
(* arguments, and main returns the same value (codegen_expr and            *)
(* codegen_node, on the nodes parse_expr and parse_stmt build).            *)
MeaningPreserved ==
  ~ Running =>
    Outcome(trace, IF pc = Cut THEN "cut" ELSE "exit",
            IF pc = Cut THEN 0 ELSE regs["a0"])
      = Meaning(Exe.source, tape)

(* The output assembles: no label is defined twice, and every branch and   *)
(* jump has its label (label_index of the nodes, which codegen_node prints *)
(* in up to six labels).                                                   *)
AssemblyLinks == Exe.links
=============================================================================
