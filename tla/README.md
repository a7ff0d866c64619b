# mocc in TLA+

mocc is a C compiler of about 3,200 lines that reads one C file and prints RISC-V
(RV64) assembly. It is sequential: what is hard in it is not interleaving but long
sequences of legal input, state that is shared between passes (scope chain,
variable lists, label numbers, stack offsets), and the agreement of two programs
that are never in one place: the parser that lays out the frame and the code that
runs in it, the prologue printed once and the epilogues printed at every return.
This project models each pass in turn, from the bytes that are read to the
instructions that run: the reader and the tokenizer, the expression parser, the
statement parser with its scopes, the table of types, and the generated code on a
model of the machine. It proves, for programs and texts of any size, what holds of
the reader and the scans of the tokenizer, of scopes, frames, labels and jumps, of
the table of types, of the lists, and of the stack of the generated code while it
runs.

## The system

| part | state it keeps | operations | who uses it |
|---|---|---|---|
| scope chain (`parse.c:92-151`, `type.c:48-100`) | `curr_scope`, `scope_id`, each scope's list of variables with offsets | `scope_create`, `scope_push`, `scope_pop` (merges a block's variables into its parent's), `find_var_in_curr_scope`, `add_var` | every production with a scope |
| parser of statements and declarations (`parse.c:661-1303`) | `curr_scope`, `label_index`, `globals`, `funcs`, `code` | `parse_program`, `parse_decl`, `_parse_decl_func`, `parse_block`, `parse_stmt`, `parse_vardecl` | `main` |
| parser of expressions (`parse.c:164-657`) | the same, plus tokens | one function per precedence level, each returning a node | statements |
| types (`type.c`, `parse.c:279-419, 686-812`) | `defined_types`, the enumerators, `globals` | `parse_type`, `parse_decl`, `add_or_find_defined_type`, `find_defined_type`, `add_var` for members and globals, `sizeof_type`, `typeof_node` | parser and code generator |
| code generator (`codegen.c`) | `curr_func`, the output, and at run time `sp`, `fp`, `ra`, the stack | `codegen_prologue`, `codegen_epilogue`, `codegen_push_lvalue`, `codegen_expr`, `codegen_node`, `codegen_preamble` | `main`, over the nodes the parser left |
| tokenizer (`tokenize.c`) | `curr_token`, the token list | `tokenize`, `token_consume*`, `token_expect*` | parser |
| input and command line (`mocc.c`) | the buffer `user_input`, the stream's error flag | `main`, `read_stdin`, `read_file` | tokenizer |
| lists (`util.c:60-92`) | growing arrays | `list_new`, `list_append`, `list_concat` | all |
| errors (`util.c:1-58`) | none | `error`, `verror_at` | all |

`main` calls `tokenize`, `parse_program`, `codegen` once, in that order. The
parser hands the code generator trees that point into shared lists (`Var`
objects whose offset the parser changes after the nodes that use them exist, and
nodes that occur twice in a tree); the code generator hands the assembler labels
and offsets. The compiler is one thread and keeps nothing on disk, so there are no
crashes, messages or timeouts to model. What the outside can do happens while the
input is read: reads come in pieces, fail in the middle, or find a file that
somebody has rewritten since its size was asked.

What is hard, and what makes each part correct:

* **scope chain**: offsets are computed from the list at hand and moved when a
  block is merged. Correct means disjoint, aligned slots inside the frame
  (`FramesDisjoint`), exactly one variable in the frame for the name and
  `scope_id` of each use (`UsesResolve`; that its node then sees the offset the
  merges gave it is the shared `Var` object, in the model), and C's block
  scoping in spite of the merging (`ImplementsScoping`, `LookupFindsVisible`).
* **statement parser**: labels from one counter, `break` and `continue` resolved
  by walking the chain while statements are still open. Correct means unique
  labels (`LabelsUnique`), jumps that are accepted just where an open statement can
  be left and lead to the innermost of these (`JumpsInnermost`), which are still
  there when the function is finished (`JumpsLand`), and a chain that always mirrors
  the open statements (`ScopesMirrorNesting`).
* **code generator**: an expression leaves one temporary on the machine stack
  that the caller has to pop, on every path. Correct means the code does what C
  says (`MeaningPreserved`), the stack is balanced where statements are jumped to
  and at returns (`StatementsBalanced`, `ReturnsBalanced`), saved registers
  survive (`SavedRegistersIntact`), which can be read off the code
  (`CodeVerified`) as long as pointers stay where they belong
  (`StoresSpareFrames`), the labels link (`AssemblyLinks`), and no jump loops for
  ever (`Terminates`).
* **types**: sizes and offsets agree between the two passes, checked through
  `MeaningPreserved` on objects of each size, local ones and uninitialized global
  ones (the data of an initialized global struct has no padding, see below). A tag names one object, mentioned
  before or after it is completed (`OneObjectPerTag`), and is completed once
  (`ImplementsTagSpace`); no struct holds itself (`NoSelfContainment`), members do
  not overlap (`MembersDisjoint`), and a global is defined once whatever `extern`
  declarations stand around it (`OneDefinition`).
* **expression parser**: every expression is read as the tree C's precedence and
  associativity give it (`ReadsAsWritten`), and nothing else is accepted
  (`AcceptsOnlyC`).
* **tokenizer**: the tokens are those of C (`TokensAsCInPlainStrings`), a scan does
  not leave the text (`OnlyStringsOverrun`), an error shows the line it is in
  (`ErrorsNameTheLine`).
* **input**: nothing is written outside the buffer unless one of two calls fails
  that `read_file` does not check (`StaysInBuffer`), the text ends
  with a newline and a NUL (`TextTerminated`), all of the file is delivered or the
  compiler stops (`DeliversFile`), and it always ends (`AlwaysEnds`).
* **lists**: an element stays where it was put through every growth of the array
  (`ArraysHoldElements`, `ImplementsCollections`).

`PROJECT.json` lists the hazards with their lines and the properties that cover
them.

## Modules

| module | what it models |
|---|---|
| `Input` | `main`'s choice of the reader, `read_stdin` and `read_file` |
| `Tokenizer` | `tokenize`, and the line an error is shown with |
| `Lexemes` | what the tokens of a text are by the rules of C, independent of `Tokenizer` |
| `FrontEnd` | composes `Input` and `Tokenizer`; `Source` declares the text they share |
| `Lists` | the growing array of `util.c` |
| `Collections` | abstract specification of lists, which `Lists` implements |
| `Expressions` | which production each token selects, and C's grammar to compare with |
| `TypeTable` | `parse_type` and `parse_decl` with the tables of types and globals |
| `TagSpace` | abstract specification of tags and typedefs, which `TypeTable` implements |
| `Vars` | `add_var` for local variables, slots and the shift of `scope_pop`, as operators on lists |
| `Parser` | the parser as a state machine: one step consumes the tokens of one production |
| `BlockScoping` | abstract specification of block-structured scoping, which `Parser` implements |
| `ParserProofs` | lemmas about `Vars` and the theorems about the chain of scopes, the frames, the labels and the jumps of `Parser` |
| `ParserScopingProofs` | the theorems about names in `Parser`, its refinement of `BlockScoping` among them |
| `TypeTableProofs` | the theorems about `TypeTable`, its refinement of `TagSpace` among them |
| `FrontEndProofs` | the theorems about `Input`, and about where `Tokenizer` stays |
| `TokensProofs` | the theorem that the tokens of `Tokenizer` are those of `Lexemes` |
| `SequencePositions` | lemmas about sequences by their positions, which the proofs share |
| `ListsProofs` | the theorems about `Lists`, its refinement of `Collections` among them |
| `Quotients` | division as C and the hart do it |
| `Types` | types, sizes, struct layout, `typeof_node` |
| `Syntax` | the node each production builds for the nodes of its parts |
| `Instructions` | the instructions `codegen.c` prints, as records |
| `Codegen` | the instructions printed for each node, the frame of a function, the data of a global |
| `CSemantics` | what a source tree means, by C's rules, independent of `Codegen` |
| `StackDiscipline` | what the code of `codegen.c` may do with `sp`, `fp` and `ra`: a rule for each instruction |
| `Hart` | a RISC-V hart that executes instructions step by step, and the properties of its stack |
| `HartProofs` | the theorems about the stack: code that keeps the discipline is safe in every run |
| `Compiler` | composes them: the assembly of `Codegen` is linked, runs on `Hart`, and is compared with `CSemantics` |
| `MCFrontEnd`, `MCLists`, `MCExpressionParser`, `MCTypeTable`, `MCParser` | instances for TLC |
| `MCCompiler`, `MCControl`, `MCCalls`, `MCPrograms`, `MCExpressions` | the programs that are compiled, by what they exercise |

### FrontEnd

`Input` has the state of the two readers: the buffer `buf`, its size `cap`, the
stream's error flag. `ReadMore` is one round of `read_stdin`'s loop, the doubling
of the buffer included; what `fread` returns is any number of bytes up to what was
asked for and is left, with the end of the file or an error. `OpenFile` asks for
the size of a file, `FileChanges` is somebody else writing it before `FreadFile`
reads that many bytes; `read_file` does not look at how many it got, and the rest
of its buffer is NULs. `BadArgnum`, `ReallocFails` and `OpenFails` end the
compiler. `FtellFails` and `CallocFails` do not: `read_file` goes on with a buffer
of one byte, or none, and `FreadOverruns` leaves it (`pc` is `"overrun"`, from where
anything could follow).

`Tokenizer` walks `p` over the buffer: one action per `if` of the loop in
`tokenize`, guarded by the failure of those before it, and `StringStep` for one
round of the scan for the end of a string. A scan that reads past the NUL goes to
`overrun`, from where anything could follow. Characters are members of an
alphabet with their codes; keywords are a constant, since all of them go through
one table. `Lexemes` says what the tokens are: at each place the longest lexeme,
as a definition over all prefixes, with C's rule that a preprocessing number takes
the letters after it. The comparison is about the texts whose lexemes mocc means to
take (`IsSupported`): words, strings, decimal numbers, characters with the escapes
of its table, the punctuators of its grammar, and gaps, unless a block comment has a
NUL in it, where `strstr` ends. A decimal number is supported if it is an `int`:
`strtol` gives a `long`, the greatest for a number beyond it, which `AsInt` cuts to
the `int` of the token. A string hides an escape (`HidesEscape`) if the scan, whose
blind spots are the first character and the one behind an escape it has seen, can
overlook a backslash and so take the character it escapes for a quote or for the
start of an escape. A few of these strings come out right by luck; no other text is
excluded.

### Lists

One action per call, and one per round of `list_concat`, which reads the other
list's length every time: `CallAppend`, `CallConcat`, `ConcatStep`,
`ConcatReturns`. A list is its length, its capacity and its array; `realloc` gives
cells that hold `Junk`. Nobody in the code keeps `data` over an append, so arrays
have no identity. `Collections` does not know arrays: the mapping takes the first
`len` cells, without those the concatenation under way has added.

### Expressions

One operator per function from `parse_expr` to `parse_primary`, which takes the
tokens from `curr_token` on and returns the tree and the tokens that are left, or
`Failed`. The binary levels, six functions of the same loop, are one operator
`parse_level` with a table of the tokens of each. `Written` is C's grammar read in
the other direction: the tokens of a tree, with parentheses only where a level
demands them. The parser is compared with it both ways, on trees (each must come
back as written) and on arbitrary tokens (what is accepted must be what its tree
is written as). `Written` has a table of precedences of its own, from C's grammar.
Where mocc reads less than C, `Written` does not write it: the
operand of unary `-` is a primary, nothing follows a postfix `++`, and the operand
of `sizeof` does not begin with a parenthesis it does not end with.

### TypeTable

One action per production of `parse_type` and `parse_decl`. `stack` holds the calls
that are open (a declaration, a typedef, the body of a struct or of an enum) and
`ret` the type the innermost `parse_type` has returned. `structs` are the objects:
a type names a struct by its index, so that a mention (`StructMentioned`) and the
completion in place (`StructClose`) act on what pointers, members and globals
already refer to. Objects the code throws away because the tag was known are not
kept. `defined_types` is searched in order, as the code does. `TagSpace` only has
what a tag or an alias means; the mapping looks the name up.

Left out: declarations inside functions (they use the same global table, so a
declaration there is one here), array types, pointers to types that are neither
void nor structs, a `typedef` that is not the first word of its declaration.

### Parser

Every global of `parse.c` that a production changes is a variable: `scopes` is the
chain from the root to `curr_scope`, `scope_id` and `label_index` are the
counters, `decl` the function being read, `globals`, `funcs`, `code` the lists.
`mode` and `cont` stand for the call stack of the recursive-descent parser: `mode`
is the place in a production, `cont` the `parse_stmt` and `parse_block` calls that
have not returned. `nodes`, `jumps` and `uses` record what the function's tree
contains that matters: nodes that own a label, jumps, and the variables referred
to. The input is not a string: a step chooses the production it reads, which makes
the instances cover every program within the bounds. An expression is reduced to
what it does to this state: it looks up a variable or a function, or takes the
label of a `?:`. `error()` ends the program. `Error` is enabled in every production:
the next token may be one it refuses, and the model does not have the text to tell;
the guards of the other actions say what is not accepted.

| action | code |
|---|---|
| `DeclGlobal`, `FuncBegin`, `Param`, `ParamsEnd`, `Prototype`, `BodyOpen`, `BodyClose`, `Eof` | `parse_program`, `parse_decl`, `_parse_decl_func` |
| `ExprStmt`, `ReturnVoid`, `VarDecl`, `Break`, `Continue`, `Case`, `Default` | the statements without parts |
| `BlockOpen`, `BlockClose` | `parse_block` |
| `WhileOpen`, `SwitchOpen`, `ForOpen`, `ForInit`, `ForRest`, `BodyReturns`, `IfOpen`, `Else`, `IfReturns` | the statements with parts, split where a sub-statement is read |

### Compiler

A program is a source tree (what a production reads, not its text). `Syntax` turns
it into the nodes of `parse.c`, including the rewriting of `[]`, `->`, unary `-`,
`++x`, `>`, `<=` and the compound assignments, and the folding of constant
expressions; the type of a call is that of the function. `Codegen` turns nodes into instructions, one operator per `case` of
`codegen_expr` and `codegen_node`; an instruction is a record, a label a name made
of its kind and the node's path. (Parser shows label numbers are unique and that
jumps have the label of the innermost statement; `Syntax` therefore uses the path
of a node as its number. `AssemblyLinks` then says that each label is printed once
and where it is needed; that two nodes could have one number is the question of
`LabelsUnique`.) Where the code reads behind the members of a struct, for more
initializers than it has, the result is the instruction `unknown`, and a program
that has one is not executed. Frame offsets are those `Vars!add_var` computes.

`Compiler` links the instructions to an executable (`Linked`) and `Hart` executes
it: `pc`, `regs`, `mem` and one action per class of
instruction: `Compute`, `Store`, `Branch`, `CallInternal`, `CallExternal`,
`TapeEnds`, `Ret`. `mem` has a cell, with its size, for each address stored to.
Loading more bytes than were stored, reading below what exists, or reading a
caller-saved register after an external call gives `Junk`, a value that spreads
through computations and equals nothing. So a wrong width, a clobbered temporary or an uninitialized slot shows. A
function that the program does not define is external: it returns any of `Values`
(`tape` remembers them), and leaves junk in the caller-saved registers and below
`sp`. `trace` records its calls with their arguments. The initial memory is the
data section, `Image`, with the strings of `codegen_preamble` behind their labels;
a variable of another file (`extern`) has a cell that no `ND_GVARDECL` made.

`CSemantics` evaluates the same source tree with an environment of typed objects:
no addresses, no stack, no labels. `Meaning(program, tape)` is the calls a C
program makes and what it returns, given what the external functions return.
Only the value of `sizeof` is the code's own: the evaluator takes it from
`sizeof_type`, so a wrong size shows only where objects overlap or are addressed.
`MeaningPreserved` compares the two when the machine stops. It is a forward
simulation checked at the observable end: since the external calls are numbered
and their arguments chosen distinct, an order or a path that differs shows in the
trace.

### StackDiscipline

The code generator keeps nothing about the stack while it prints: that every
`codegen_push` meets one pop on each path, and that an epilogue printed anywhere
finds `sp` where the prologue left it, is an agreement between some sixty places of
`codegen.c`. `StackDiscipline` states the agreement so that it can be checked on the
printed code, without running it. `view` gives, for each position of the code, what
is known of the frame there: how far `sp` and `fp` are below the `sp` at the
entry of the function, which of `ra` and `fp` still hold what they held then, and
which of them are saved. `Keeps` says what an instruction may do under a view,
`ViewAfter` what is known behind it, and `Follows` that the views of neighbours
and of jumps and their targets agree:

* `sp` and `fp` only change by a constant, `ra` and `fp` only come back from where
  they were saved;
* a store based on `sp` or `fp` saves a register or is below the saved ones;
* a call is made by a function that has saved both, a return is reached with `sp`
  at the entry's and both registers restored;
* the labels of statements have a complete frame and nothing else on the stack.

`CodeVerified` says this of a program when it starts. The views are found by
`Views` of `Compiler`, in one pass over the code; that they are what the discipline asks
for does not rest on how they were found. The code cannot show where pointers lead:
`StoresSpareFrames` says that a store through another register than `sp` and `fp`
stays away from the saved registers of every active function.

## Runs

| run | module | question | size |
|---|---|---|---|
| `front_end` | MCFrontEnd | whole or no text; access outside it only by the scan of a string and after a failing `ftell` or `calloc`; tokens as C's, errors at their line, always an end | 0.26 M states |
| `front_end_escapes` | MCFrontEnd | violation: see below | the same |
| `lists` | MCLists | refinement of `Collections` over two doublings | 9,793 states |
| `expression_parser` | MCExpressionParser | every production as operand of every other is read as C reads it; nothing else is accepted | 0.23 M expressions and token sequences |
| `type_table` | MCTypeTable | tags, typedefs and globals in any order and nesting | 0.8 M states |
| `parser_frames` | MCParser | slots and uses for any declarations and blocks | 2 names, 2 types (void, a struct of 12 bytes), 4 scopes, depth 2; 0.6 M states |
| `parser_scoping` | MCParser | refinement of `BlockScoping`; lookups | 1 name of 2 types and void, 4 scopes, depth 3, a label; 0.4 M states |
| `parser_control` | MCParser | labels and jumps over two functions | depth 3, 3 labels, 5 scopes; 1.8 M states |
| `parser_redeclare` | MCParser | violation: see below | 3 scopes |
| `compiler_programs` | MCPrograms | all statement forms in one another, two levels, any conditions; frames, arguments, recursion, `...`; the discipline of the stack, and that pointers keep to it | 0.7 M states |
| `compiler_expr` | MCExpressions | every operator on every kind of operand, strings, `sizeof`, enumerators, extern globals | 2.6 M states |
| `compiler_compound_effects` | MCExpressions | violation: see below | one program |

### Bounds and why they suffice

* `FirstCap` is 3 in `front_end` where the code has 1024: the buffer doubles to 6
  and 12, and the texts have every length from 0 to 11, so that each size is
  filled, filled but for one byte, and exceeded by one. The texts are all those up
  to three to five characters over eight alphabets, one for each part of the
  language in which characters can be confused: quotes and escapes, comments,
  words and numbers, punctuators (two alphabets), character constants, NULs.
  `IntMax` is 127 and `LongMax` 1023, so that numbers of three digits pass the first
  and numbers of four the second.
* `FirstCap` is 2 in `lists` where the code has 16, with lists of up to 5 elements:
  two doublings, and a concatenation that meets one in its middle.
* `expression_parser` has trees of two levels with every production, of three with
  one leaf, and all sequences of up to three tokens out of 18, four out of 10, five
  out of 8. The levels are mutually recursive only through parentheses, so an
  operand of an operand has every interface.
* `type_table` has two tags, an enum, an alias and two names, `MaxEntries` = 4
  entries in all tables together, members included, `MaxMembers` = 2, `MaxDepth` = 3: a struct that is
  completed inside the body of another that mentions it, or inside its own. A member
  behind a struct held by value would be a fifth entry: that its place is right is
  `LayoutIsStable` alone.
* `MaxScopeId`, `MaxLabels`, `MaxDepth`, `MaxGlobals`, `MaxFuncs` bound the parser.
  Merging needs a block with a variable in a block with a variable, twice, for
  shifts to add up: depth 2 with 4 scopes has it. Hiding needs a name with two
  types, which `parser_scoping` has, at up to four levels; two names, for a lookup
  that takes the wrong one, are in `parser_frames`.
  A jump that skips a statement needs three levels (a switch in a loop in a loop).
  For `Parser` and `TypeTable` the theorems remove the bounds: each property of
  theirs is proved for any value of them.
  `struct` with 12 bytes is there because its slot is rounded up. `void` is there
  because `add_var` refuses it.
* `Values = {0, 1}` decides every condition both ways; `MaxTape` bounds the number
  of external calls, so a loop runs zero, one, and several times. `MaxTape` is 6
  and 8: a nested loop of `MCControl` needs four calls to iterate inner and
  outer loop, `MCExpressions` makes up to seven in a program.
  When the tape is used up the run is cut (`TapeEnds`), and what was done until
  then is still compared with the meaning.
* The programs: `MCControl` puts every statement form around every statement form
  with every leaf (`break`, `continue`, `return`, call) in it. Code for a node is
  generated independently of what its children are except for the value they
  leave, so two levels cover the interfaces; one more adds only repetitions.
  `MCExpressions` crosses the operators with operands that differ in width and
  place. `MCCalls` crosses functions with the contexts they are called in.
* A number is a mathematical integer except where a store of a byte cuts it. No
  program of the runs leaves the range of an int.

### Fairness

`Spec` of Hart has `WF_vars(Next)`: the hart goes on executing. Every action
is one instruction and exactly one is enabled (`Goto` and the return address are
functions of the state; only what an external call returns is chosen), so this is
no assumption about a choice the program could make. Every loop of `MCControl`
makes an external call in each iteration, and there are at most `MaxTape`, so a
run that does not stop goes round a jump that is not in the source: `Terminates`.
`Spec` of FrontEnd has `WF_vars(Progress)`: the compiler goes on reading and
tokenizing. The failure of a call and the rewriting of the file are not in
`Progress`; `AlwaysEnds` holds because a round of `read_stdin` gets bytes, meets
the end or gives up, and every step of `tokenize` moves `p`.

`Parser` and `TypeTable` have no fairness and no liveness property: the parser may be given an input that
ends anywhere, and each step consumes a token.

## Proofs

The theorems hold for all values of the constants (any names, types, sizes, texts
and bounds) that satisfy the assumptions named in the modules, which TLC evaluates
in the runs:

| assumption | says | why the code justifies it |
|---|---|---|
| `VarsAssumption` | `void` is a type, every type has a size | `sizeof_type` returns an int for each |
| `ParserAssumption` | bounds are numbers, `NoVar` is no variable | `NoVar` is the NULL of a failed lookup |
| `TypeTableAssumption`, `NoneAssumption` | the scalar types are among those of the code, bounds are numbers, `None` and `Incomplete` are no names or lists | they are NULL, and "not known yet" |
| `InputAssumption`, `FrontEndAssumption` | a file is a sequence of characters of the alphabet; the first buffer has at least 3 bytes | it has 1024 |
| `TokenizerAssumption` | letters, digits, blanks, quotes, punctuation, backslash and NUL are different characters with numbers, which are ints; keywords are made of letters; an `int` is not wider than a `long` | ASCII; the widths of the machine mocc runs on |
| `ListsAssumption` | the first capacity is positive, the sentinels are no lists | it is 16 |
| `HartAssumption` | external functions return numbers, `Junk` is none | it stands for a value nobody may rely on |

A safety property is seldom inductive; below, what had to be added to it, and why.

### Parser: chain of scopes and frames (`ParserProofs`)

* `TypeCorrect`: `Spec => []TypeOK`.
* `NestingCorrect`: `Spec => []ScopesMirrorNesting`: the asserts of `scope_push`
  and `scope_pop` cannot fail.
* `FramesAreDisjoint`: `Spec => []FramesDisjoint`: no two locals of a function
  share a byte, every slot is aligned and within the frame of the prologue.

The inductive invariant for the first two is `IInv == TypeOK /\ Shape /\
ScopesMirrorNesting`. `ScopesMirrorNesting` alone is not inductive: a step that
closes a statement must know that the scope it pops is the one the statement
pushed, which depends on where in the production the parser is; `Shape` says what
each `mode` implies for `scopes` and `cont`. `Mirrors` has an existential function
from scopes to statements; `MirrorsPush`, `MirrorsPop`, `MirrorsIf` and
`MirrorsPopIf` give the witness for the four ways the two stacks change, and there
is a lemma per group of actions.

For frames, the invariant `FramesLaidOut` says that *every* list, of an open scope
as well as of a finished function, is laid out: each variable's slot begins after
its predecessor's offset. `FramesDisjoint` speaks of finished functions only and
the merge of `scope_pop` would lose it. The algebra comes first:
`AddVarLaidOut` (appending keeps it), `MergeLaidOut` (appending a shifted list
keeps it) and `LaidOutDisjoint` (it implies disjointness and that all slots lie
below the last offset).

### Parser: labels and jumps (`ParserProofs`)

* `LabelsAreUnique`: `Spec => []LabelsUnique`, over all functions of the program.
* `JumpsAllLand`: `Spec => []JumpsLand`: the statement a `break` or `continue`
  names is in the same function, and a loop if it is a `continue`.
* `JumpsAreInnermost`: `Spec => []JumpsInnermost`: wherever a statement may begin,
  a jump is accepted just when some open statement can be left by it, and it takes
  the label which the scope and the node of the innermost such statement have.

Unique labels need that the labels taken are below `label_index` (`LabelsTaken`),
since a new node is compared with those of all earlier functions. Jumps need the
chain: each open `while`, `for` or `switch` has a node with the label of its scope
(`ScopesLabelled`). The walk from `curr_scope` to the root stops at the last scope of
a fitting kind (`InnermostLabelIs`); by `ScopesMirrorNesting` scopes and the
statements that have one are in the same order, so it is the scope of the innermost
statement (`JumpInnermost`). That a walk which finds a scope finds a label, and not
the 0 that stands for none, is `LabelsTaken` again.

### Parser: names (`ParserScopingProofs`)

* `UsesAreResolved`: `Spec => []UsesResolve`: in the finished frame, into which
  all scopes were merged and in which a name may occur many times, the pair
  (name, `scope_id`) that a node refers to picks out exactly one variable.
* `LookupIsLexical`: `Spec => []LookupFindsVisible`.
* `ParserImplementsScoping`: `Spec => ImplementsScoping`: the refinement of
  `BlockScoping`.

The invariant `Scoped` has: open scopes have ids of their own (`IdsDistinct`); a
variable whose scope is still open is in the list of that scope (`VarsPlaced`), so
that a merged variable can hide nothing; no two variables of the whole chain have
the same name and id (`KeysDistinct`), which is what the merge must not break;
and every variable used so far is somewhere in the chain (`UsesFound`). A merge
moves a variable to another list and offset: `MovedFrom` maps the places of the
chain after it to those before. In the refinement a pop must leave the blocks
further out as they were, which is `VarsPlaced` again: what arrives in the parent
has an id that is not the parent's.

### TypeTable (`TypeTableProofs`)

* `TablesTypeCorrect`, `TagsHaveOneObject`, `GlobalsAreDefinedOnce`: `Spec =>
  []TypeOK`, `[]OneObjectPerTag`, `[]OneDefinition`.
* `StructsAreFinite`: `Spec => []NoSelfContainment`, through any number of
  structs: `sizeof_type` ends.
* `LayoutIsStable`: `Spec => []MembersDisjoint`: members placed with the sizes
  their types had then do not overlap with the sizes the types have now.
* `DeclarationsKeepMeanings`: `Spec => ImplementsTagSpace`.

The invariant is `TablesInv`. `Registered` (a struct with a name is found under
it) is what makes a second object impossible. For containment, `Ranked`: there is
a numbering of the structs, one to one, in which each ranks above all it holds by
value. A body that closes may complete a struct that others, made in between,
already point to but cannot hold, since a type must be complete to be a member
(`HoldsComplete`); so the ranks of the complete ones can be kept and the new one
put on top. `NoSelfContainment` follows, a cycle having no smallest rank, and so
does that the recursive definition of sizes defines them: by the least rank at
which it would not (`SizesExist`), and likewise that the sizes of complete structs
stay when one more is completed (`SizesStay`), from which `LayoutIsStable`.

### Reader and tokenizer (`FrontEndProofs`)

* `FrontEndTypeCorrect`: `Spec => []TypeOK`.
* `ReaderStaysInBuffer`, `TextIsTerminated`, `FileIsDelivered`: `Spec =>
  []StaysInBuffer`, `[]TextTerminated`, `[]DeliversFile`: for any file, any
  pieces `fread` delivers it in, any capacity to begin with, and any rewriting of
  the file while it is read. `StaysInBuffer` names the exceptions, a failing `ftell`
  and a failing `calloc`: the theorem says there is no third.
* `OnlyStringsLeaveBuffer`: `Spec => []OnlyStringsOverrun`: the other scans end
  at the NUL at the latest, whatever the text.
* `ErrorsAreLocated`: `Spec => []ErrorsNameTheLine`.

`ReaderInv` adds what holds before the reader returns: the buffer is a prefix of
the file and its capacity is at least 3, without which the doubling would not
make room. `LexerInv` adds that `p`, `end` and `where` are in the buffer, and that
the scan of a string has passed the quote it began at. `ErrorsAreLocated` shows of
the two scans of `verror_at`, backwards and forwards to a newline, that the line
they delimit has the number that was counted.

### Tokens (`TokensProofs`)

* `TokensAreAsC`: `Spec => []TokensAsCInPlainStrings`: for every text whose lexemes
  mocc means to take, its numbers within an `int`, with no escape where the scan of a string is blind,
  `tokenize` makes the tokens of C's longest lexemes, reports no error, does not
  leave the buffer, and stops at the NUL.

The invariant `Lexed` is about what is still to come: the tokens made so far,
followed by those that `Lexemes` makes of the text from `p` on, are the tokens of
the whole text (`OnCourse`). It is kept if every step ends where the longest lexeme
at `p` ends and makes its token, and there is one lemma for each step that says so
(`SpaceTakes`, `NumberTakes`, ..., `PunctTakes`); the first character tells which
kind of lexeme it is (`KindByFirst`), so that what the step looked for is what is
there. Two of them are more than a scan for an end:

* `PunctTakes`: that trying the punctuators of two characters, then `...`, then those
  of one, finds the longest.
* `StringGoesOn`: the loop looks for a backslash only behind the character it is at,
  and then skips two. `Seen` is what it must know of that character to be right:
  it is no escaped quote or backslash, and a backslash only at the start or
  right behind an escape. That is kept except at a hidden escape.

`LexemesFrom` and `TokensFrom` are recursive functions from places to suffixes; that
they are defined at each place, and only once, is proved for any such recursion
(`SuffixRecursion`, `SuffixUnique`) by the last place at which it would not be.

### Lists

`ListsProofs` proves, from `ListsAssumption` (the first capacity is positive, the
sentinels are no lists), for any number of lists, any elements, capacity and bound:

* `TypeCorrect` and `ElementsAreHeld`: `Spec => []TypeOK`, `Spec =>
  []ArraysHoldElements`.
* `ListsImplementCollections`: `Spec => ImplementsCollections`.

The invariant adds `Copied`: the concatenation under way is about two lists, and the
last `i` elements of the first are the first `i` of the second. Without it nothing
is known of the cell a round reads, and the last step, which is the abstract
`Concat`, could not show that all of the other list has arrived. `GrownHasRoom` and
`AppendIsGood` say what `list_append` keeps; there is a lemma per action that maps
it to an abstract step (`NewSimulates`, `AppendSimulates`,
`ConcatReturnsSimulates`) or a stutter (`CallConcatStutters`,
`ConcatStepStutters`).

### The stack of the generated code (`HartProofs`)

For any executable, any length of code, any depth of calls, any number of external
calls and whatever they return:

* `RunReturnsBalanced`, `RunStatementsBalanced`, `RunSavedRegistersIntact`,
  `RunTyped`: `Spec /\ []CodeVerified /\ []StoresSpareFrames => []ReturnsBalanced`,
  `[]StatementsBalanced`, `[]SavedRegistersIntact`, `[]TypeOK`.

The two premises are properties that `compiler_programs` checks of the code mocc prints.
`CodeVerified` is about the text of a program only, one instruction and its
neighbours at a time; it does not mention registers, memory or calls. The theorems
say that this is enough: what a run can do, recursion and external functions
included, follows from rules that each look at one instruction.
`StoresSpareFrames` cannot be read off the code, and C makes it the programmer's
duty: a store outside of any object has no meaning.

The invariant is `IInv == Typed /\ Verified(Exe) /\ Stacked /\ Current`.
`Current` says that the registers are what the view at `pc` says of them, relative to
the entry of the active function (`Matches`), and that the registers the view calls
saved are in memory (`Intact`). That is not inductive at a return, which jumps to an
address out of a register: `Stacked` says of each function that has made a call
that the view at its return address is a complete frame, that the entry of the
function it called has its `sp` and `fp` (`Suspended`), and that its save area is
above everything the inner functions own. It is what makes a store of the
innermost function, or the junk an external function leaves below `sp`, harmless to
all the others. There is a lemma for each action (`ComputeKeeps`, `StoreKeeps`,
`BranchKeeps`, `CallInternalKeeps`, `CallExternalKeeps`, `TapeEndsKeeps`,
`RetKeeps`); only that of the store uses `StoresSpareFrames`.

### Model-checked only

* `ReadsAsWritten` and `AcceptsOnlyC` of `Expressions`, and `MeaningPreserved`,
  `AssemblyLinks` and `CodeVerified` of the code: the definitions are
  RECURSIVE operators over trees, and what they say of every tree takes an
  induction over data; both are out of the prover's reach.
* `StoresSpareFrames`: it depends on the values a program computes.
* `AlwaysEnds` and `Terminates`: liveness under fairness.

## Where the code disagrees with its tests and comments

* `parser_redeclare`: the body of a function gets a scope of its own, so it may
  declare a parameter again; `test.sh:120` has the test, disabled with a FIXME.
* `compiler_compound_effects`: `a[n++] += 2` increments `n` twice. The comment at
  `parse.c:638` says `node += expr` may be read as `node = node + expr`; the node
  is shared and generated twice. (For the same reason an operand that contains
  `?:` prints its `.Lelse` and `.Lend` twice; that output does not assemble.)
* `front_end_escapes`: the scan of a string sees a backslash only behind the
  character it stands on, so an escape that begins a string, or follows another
  escape, is not seen: `"\\"` does not end, `"\""` ends at its second quote. The
  comment at `tokenize.c:124` says escapes are taken as they are.

The passing runs keep out what mocc leaves out of C: effects on the right of `&&`
and `||` (no short circuit, `codegen.c:303-328`), `int + pointer`
(`codegen.c:247-250`), `p++` (`codegen.c:561-600`), the value of an assignment that
narrows (`codegen.c:388`), globals of other types than int, array and struct
(`codegen.c:490-499`), initialized global structs whose members need padding
(`codegen.c:938-972`), more initializers than members, the order in which `>` and `<=` evaluate operands that both
have effects (unspecified in C).

Seen while modelling, without a line of the repository that says otherwise:

* `read_file` does not look at what `ftell`, `calloc` and `fread` returned
  (`mocc.c:15-22`). A file that cannot be read is compiled as a text of NULs, that is
  as an empty one, if its size is known; if `ftell` fails, or gives a size for which
  `calloc` has no room (a directory can have one), the compiler writes outside its
  buffer.
* A number beyond an `int` is cut to one without a message: 4294967297 is 1
  (`tokenize.c:296`).
* The data of an initialized global struct has no padding, although `add_var` gives
  its members aligned offsets (`codegen.c:938-972`): behind a `char`, an `int` is
  read where it was not written.
* A NUL in a block comment ends it for `strstr`, and mocc reports an unterminated
  comment; in a string or a line comment it is a character like others.
* Number tokens have no place, so an error at one shows no line. `12ab`, octal and
  hexadecimal numbers and a backslash at the end of a line are not C's.
* After `int f(int x);` the scope of the parameters stays current
  (`parse.c:1268-1275`) for the initializers up to the next function; they are
  refused either way, with another message.
* A second `extern` of a name may have another type (`type.c:67`, a TODO there), and
  a `typedef` of a known name is dropped without a message.
* A member is aligned by its size: one of exactly 8 bytes to 8, every other to 4,
  a struct of 16 bytes with a pointer in it too (`type.c:89`, a TODO there).
* `-a[1]` and `p++->x` are not accepted. The left side of an assignment may be any
  conditional expression for the parser; the code generator refuses it.

## Not modelled

Not modelled: the wording of messages, `type_to_string` and the
debug output (`__debug_self`, comments in the assembly), which read state and
change none; the build and test scripts, which are read as the specification of
the compiler. The places at which `error` is called are modelled, each in the
module of its caller.

Of the properties of code, none speaks of programs beyond the limits of its output
format (offsets of 12 bits, eight arguments), which the assembler refuses.
