----------------------------- MODULE TypeTable ------------------------------
(***************************************************************************)
(* The declarations of types and globals: parse_type with its calls inside *)
(* itself, parse_decl around it, and the tables they fill through add_var  *)
(* and add_or_find_defined_type.  A step is a production; `stack` holds    *)
(* the calls that are open and `ret` the type the last parse_type returned *)
(* to the innermost of them.                                               *)
(*                                                                         *)
(* A struct is an object that others point to: type values name it by its  *)
(* index in `structs`.  Objects that are thrown away because the tag was   *)
(* known are not kept.  error() ends the compilation.                      *)
(***************************************************************************)
EXTENDS Integers, SequencesExt

CONSTANTS
  Tags, EnumTags,        \* the names of structs and of enums
  Aliases, Names,        \* the names of typedefs and of variables
  None,                  \* NULL
  Incomplete,            \* what a tag means that was mentioned only
  Scalars,               \* the base types of the instance
  MaxEntries,            \* bound on structs, typedefs, enums and variables
  MaxMembers, MaxDepth   \* bounds on one struct and on the open calls

ASSUME TypeTableAssumption ==
  /\ Scalars \subseteq {[ty |-> "CHAR"], [ty |-> "INT"], [ty |-> "VOID"]}
  /\ {MaxEntries, MaxMembers, MaxDepth} \subseteq Nat

VARIABLES
  structs,        \* the struct objects: their name and list of members
  defined_types,
  constants,
  globals,
  stack,          \* the open calls, the outermost first
  ret,            \* the type returned to the last of them, or None
  failed          \* error() was called

vars == <<structs, defined_types, constants, globals, stack, ret, failed>>

new_type_ptr_to(base) == [ty |-> "PTR", base |-> base]
struct(id) == [ty |-> "STRUCT", id |-> id]
enum(name) == [ty |-> "ENUM", name |-> name]

Init ==
  /\ structs = <<>>
  /\ defined_types = <<>> /\ constants = <<>> /\ globals = <<>>
  /\ stack = <<>>
  /\ ret = None
  /\ failed = FALSE

-----------------------------------------------------------------------------
(* Fault: a struct without members has the size 0.                         *)
EmptyStruct_sized(type) == FALSE

(* sizeof_type stops the compiler: "empty struct".                         *)
EmptyStruct(type) == type.ty = "STRUCT" /\ structs[type.id].members = None

(* sizeof_type of the structs, of those that are complete.                 *)
StructSize[id \in DOMAIN structs] ==
  LET members == structs[id].members
      last    == Last(members)
  IN  IF members \in {None, <<>>} THEN 0
      ELSE last.offset
             + IF last.type.ty = "STRUCT" THEN StructSize[last.type.id]
               ELSE CASE last.type.ty = "CHAR" -> 1
                      [] last.type.ty = "PTR"  -> 8
                      [] OTHER                 -> 4

sizeof_type(type) ==
  CASE type.ty \in {"CHAR", "VOID"} -> 1
    [] type.ty \in {"INT", "ENUM"}  -> 4
    [] type.ty = "PTR"              -> 8
    [] type.ty = "STRUCT"           -> StructSize[type.id]

roundup(size, unit) == ((size + unit - 1) \div unit) * unit

(* Fault: the last member's size is left out.                              *)
MemberOffset_overlapping(members, type) ==
  IF members = <<>> THEN 0
  ELSE roundup(Last(members).offset + 1, IF sizeof_type(type) = 8 THEN 8 ELSE 4)

MemberOffset(members, type) ==
  LET end == IF members = <<>> THEN 0
             ELSE Last(members).offset + sizeof_type(Last(members).type)
  IN  roundup(end, IF sizeof_type(type) = 8 THEN 8 ELSE 4)

(* Fault: the first variable of the name decides.                          *)
Redefines_first(list, name) ==
  LET i == SelectInSeq(list, LAMBDA v : v.name = name)
  IN  i # 0 /\ ~ list[i].is_extern

(* add_var refuses: there is one of the name that is not extern.           *)
Redefines(list, name) ==
  \E v \in Range(list) : v.name = name /\ ~ v.is_extern

add_var_refuses(list, name, type) ==
  type.ty = "VOID" \/ Redefines(list, name) \/ EmptyStruct(type)

(* Fault: a struct that is still empty is not found.                       *)
Found_complete(ty, name) ==
  {t \in Range(defined_types) :
     t.ty = ty /\ t.name = name /\ (ty = "STRUCT" => structs[t.id].members # None)}

(* The types add_or_find_defined_type finds.                               *)
Found(ty, name) ==
  {t \in Range(defined_types) : t.ty = ty /\ t.name = name}

-----------------------------------------------------------------------------
(* There is room for another entry of the tables: bound on the structs,    *)
(* their members, the typedefs, enums, enumerators and globals together.   *)
Room ==
  LET length(list)   == IF list = None THEN 0 ELSE Len(list)
      open           == SelectSeq(stack, LAMBDA call : call.at = "struct")
      count(objects) == FoldSeq(LAMBDA s, n : n + 1 + length(s.members), 0, objects)
  IN  count(structs) + count(open) + Len(globals) + Len(constants)
        + Len(SelectSeq(defined_types, LAMBDA t : t.ty # "STRUCT")) < MaxEntries

Parsing(production) ==
  ~ failed /\ stack # <<>> /\ Last(stack).at = production

Push(call) == stack' = Append(stack, call)

Return(type) == ret' = type

Leave == stack' = Front(stack)

Tables == <<structs, defined_types, constants, globals>>

(* error(): the compiler exits, nothing is returned to any call.           *)
Error ==
  /\ failed' = TRUE
  /\ stack' = <<>> /\ ret' = None
  /\ UNCHANGED Tables

(* parse_type is called next: by parse_decl, for a member, by itself after *)
(* "typedef".                                                              *)
AtType ==
  ~ failed /\ stack # <<>> /\ ret = None /\ Last(stack).at # "enum"

Scalar ==
  /\ AtType
  /\ \E type \in Scalars : Return(type)
  /\ UNCHANGED <<Tables, stack, failed>>

(* "*" after a type; bounded to pointers to void and to structs.           *)
Pointer ==
  /\ ~ failed /\ ret # None /\ ret.ty \in {"VOID", "STRUCT"}
  /\ Return(new_type_ptr_to(ret))
  /\ UNCHANGED <<Tables, stack, failed>>

(* A name that find_defined_type knows: its base.                          *)
AliasUsed ==
  /\ AtType
  /\ \E t \in Range(defined_types) : t.ty = "TYPEDEF" /\ Return(t.base)
  /\ UNCHANGED <<Tables, stack, failed>>

(* Fault: the object does not get its name.                                *)
NewStruct_unnamed(name, members) ==
  /\ structs' = Append(structs, [name |-> None, members |-> members])
  /\ Return(struct(Len(structs) + 1))

(* A new object with these members, under a name or without one.           *)
NewStruct(name, members) ==
  /\ structs' = Append(structs, [name |-> name, members |-> members])
  /\ Return(struct(Len(structs) + 1))

(* Fault: what was found is completed again.                               *)
AlreadyDefined_never(t) == FALSE

AlreadyDefined(t) == structs[t.id].members # None

(* "struct" name without a body.                                           *)
StructMentioned ==
  /\ AtType
  /\ \E name \in Tags :
       \/ \E t \in Found("STRUCT", name) :
            Return(struct(t.id)) /\ UNCHANGED <<structs, defined_types>>
       \/ /\ Found("STRUCT", name) = {} /\ Room
          /\ NewStruct(name, None)
          /\ defined_types' = Append(defined_types,
               [ty |-> "STRUCT", name |-> name, id |-> Len(structs) + 1])
  /\ UNCHANGED <<constants, globals, stack, failed>>

StructOpen ==
  /\ AtType /\ Room /\ Len(stack) < MaxDepth
  /\ \E name \in Tags \cup {None} :
       Push([at |-> "struct", name |-> name, members |-> <<>>])
  /\ UNCHANGED <<Tables, ret, failed>>

(* The name of a member, after its type.                                   *)
Member ==
  /\ Parsing("struct") /\ ret # None /\ Room
  /\ LET members == Last(stack).members
     IN  /\ Len(members) < MaxMembers
         /\ \E name \in Names :
              IF add_var_refuses(members, name, ret) THEN Error
              ELSE /\ stack' = [stack EXCEPT ![Len(stack)].members =
                        Append(@, [name |-> name, type |-> ret, is_extern |-> FALSE,
                                   offset |-> MemberOffset(members, ret)])]
                   /\ ret' = None
                   /\ UNCHANGED <<Tables, failed>>

(* "}": a tag that was mentioned before is filled in place.                *)
StructClose ==
  /\ Parsing("struct") /\ ret = None /\ Last(stack).members # <<>>
  /\ LET name    == Last(stack).name
         members == Last(stack).members
     IN  \/ /\ name = None
            /\ NewStruct(None, members) /\ Leave
            /\ UNCHANGED <<defined_types, constants, globals, failed>>
         \/ /\ name # None /\ Found("STRUCT", name) = {}
            /\ NewStruct(name, members) /\ Leave
            /\ defined_types' = Append(defined_types,
                 [ty |-> "STRUCT", name |-> name, id |-> Len(structs) + 1])
            /\ UNCHANGED <<constants, globals, failed>>
         \/ \E t \in Found("STRUCT", name) :
              IF AlreadyDefined(t) THEN Error
              ELSE /\ structs' = [structs EXCEPT ![t.id].members = members]
                   /\ Return(struct(t.id)) /\ Leave
                   /\ UNCHANGED <<defined_types, constants, globals, failed>>

-----------------------------------------------------------------------------
(* "enum" name, with or without a body.                                    *)
Enum ==
  /\ AtType
  /\ \E name \in EnumTags \cup {None}, body \in BOOLEAN :
       /\ defined_types' =
            IF name = None \/ Found("ENUM", name) # {} THEN defined_types
            ELSE Append(defined_types, [ty |-> "ENUM", name |-> name])
       /\ Room
       /\ IF body
          THEN /\ Len(stack) < MaxDepth
               /\ Push([at |-> "enum", name |-> name, i |-> 0])
               /\ UNCHANGED ret
          ELSE Return(enum(name)) /\ UNCHANGED stack
  /\ UNCHANGED <<structs, constants, globals, failed>>

Enumerator ==
  /\ Parsing("enum") /\ Room
  /\ \E name \in Names :
       IF Redefines(constants, name) THEN Error
       ELSE /\ constants' = Append(constants,
                 [name |-> name, val |-> Last(stack).i, is_extern |-> FALSE])
            /\ stack' = [stack EXCEPT ![Len(stack)].i = @ + 1]
            /\ UNCHANGED <<structs, defined_types, globals, ret, failed>>

EnumClose ==
  /\ Parsing("enum")
  /\ IF Last(stack).i = 0 THEN Error
     ELSE /\ Return(enum(Last(stack).name)) /\ Leave
          /\ UNCHANGED <<Tables, failed>>

-----------------------------------------------------------------------------
(* parse_decl, up to the call of parse_type.                               *)
DeclBegin ==
  /\ ~ failed /\ stack = <<>>
  /\ \E is_extern \in BOOLEAN : Push([at |-> "decl", is_extern |-> is_extern])
  /\ UNCHANGED <<Tables, ret, failed>>

(* "typedef" begins a declaration, and its base is read.                   *)
TypedefBegin ==
  /\ AtType /\ Len(stack) = 1
  /\ Push([at |-> "typedef"])
  /\ UNCHANGED <<Tables, ret, failed>>

TypedefBase ==
  /\ Parsing("typedef") /\ ret # None
  /\ Return([ty |-> "TYPEDEF", base |-> ret]) /\ Leave
  /\ UNCHANGED <<Tables, failed>>

(* No name: the declaration was about the type.                            *)
DeclOfType ==
  /\ Parsing("decl") /\ ret # None
  /\ IF ret.ty \in {"STRUCT", "ENUM"}
     THEN Leave /\ ret' = None /\ UNCHANGED <<Tables, failed>>
     ELSE Error

(* A typedef of a name that is known changes nothing.                      *)
DeclOfAlias ==
  /\ Parsing("decl") /\ ret # None /\ ret.ty = "TYPEDEF" /\ Room
  /\ \E name \in Aliases :
       defined_types' =
         IF Found("TYPEDEF", name) # {} THEN defined_types
         ELSE Append(defined_types,
                     [ty |-> "TYPEDEF", name |-> name, base |-> ret.base])
  /\ Leave /\ ret' = None
  /\ UNCHANGED <<structs, constants, globals, failed>>

DeclOfGlobal ==
  /\ Parsing("decl") /\ ret # None /\ ret.ty # "TYPEDEF"
  /\ Room
  /\ \E name \in Names :
       IF add_var_refuses(globals, name, ret) THEN Error
       ELSE /\ globals' = Append(globals, [name |-> name, type |-> ret,
                                           is_extern |-> Last(stack).is_extern])
            /\ Leave /\ ret' = None
            /\ UNCHANGED <<structs, defined_types, constants, failed>>

Next ==
  \/ DeclBegin \/ DeclOfType \/ DeclOfAlias \/ DeclOfGlobal
  \/ Scalar \/ Pointer \/ AliasUsed
  \/ StructMentioned \/ StructOpen \/ Member \/ StructClose
  \/ Enum \/ Enumerator \/ EnumClose
  \/ TypedefBegin \/ TypedefBase

Spec == Init /\ [][Next]_vars

-----------------------------------------------------------------------------
(* The types there can be when the structs are those of ids, and what is   *)
(* made of them.                                                           *)
Types(ids) ==
  LET named == Scalars \cup [ty : {"STRUCT"}, id : ids]
                 \cup [ty : {"ENUM"}, name : EnumTags \cup {None}]
  IN  named \cup [ty : {"PTR"}, base : named]

Members(ids) ==
  [name : Names, type : Types(ids), is_extern : {FALSE}, offset : Int]

Entries(ids) ==
  [ty : {"STRUCT"}, name : Tags, id : ids] \cup [ty : {"ENUM"}, name : EnumTags]
    \cup [ty : {"TYPEDEF"}, name : Aliases, base : Types(ids)]

Calls(ids) ==
  [at : {"decl"}, is_extern : BOOLEAN] \cup [at : {"typedef"}]
    \cup [at : {"struct"}, name : Tags \cup {None}, members : Seq(Members(ids))]
    \cup [at : {"enum"}, name : EnumTags \cup {None}, i : Nat]

(* NULL is not a name, and no list of members is it or "incomplete".       *)
ASSUME NoneAssumption ==
  None \notin Tags /\ None \notin Seq(Members(Nat)) /\ Incomplete \notin Seq(Members(Nat))

(* Type invariant: every struct a type names exists, every entry of the    *)
(* table that is a struct is the object of that name, and a declaration is *)
(* the outermost of the open calls.                                        *)
TypeOK ==
  LET ids == DOMAIN structs
  IN  /\ structs \in Seq([name    : Tags \cup {None},
                          members : {None} \cup Seq(Members(ids))])
      /\ defined_types \in Seq(Entries(ids))
      /\ constants \in Seq([name : Names, val : Nat, is_extern : {FALSE}])
      /\ globals \in Seq([name : Names, type : Types(ids), is_extern : BOOLEAN])
      /\ stack \in Seq(Calls(ids))
      /\ ret \in {None} \cup Types(ids) \cup [ty : {"TYPEDEF"}, base : Types(ids)]
      /\ failed \in BOOLEAN
      /\ \A t \in Range(defined_types) :
           t.ty = "STRUCT" => structs[t.id].name = t.name
      /\ \A i \in DOMAIN stack : stack[i].at = "decl" <=> i = 1

(* The lists of members there are: of the structs, and of those being read.*)
MemberLists ==
  {structs[id].members : id \in DOMAIN structs}
    \cup {stack[i].members : i \in {j \in DOMAIN stack : stack[j].at = "struct"}}

(* All that is said of a tag is said of one object: whatever was declared  *)
(* through the tag before it was completed sees the completion             *)
(* (add_or_find_defined_type fills the object it finds).                   *)
OneObjectPerTag ==
  \A i, j \in DOMAIN structs :
    structs[i].name = structs[j].name /\ structs[i].name # None => i = j

(* What a struct holds by value is complete, so that its size is known;    *)
(* and no struct holds itself, however the completions are nested.         *)
HoldsComplete ==
  \A ms \in MemberLists \ {None} : \A m \in Range(ms) : ~ (m.type.ty = "STRUCT"
                                     /\ structs[m.type.id].members = None)

Holds(i, j) ==
  /\ structs[i].members # None
  /\ \E m \in Range(structs[i].members) : m.type = struct(j)

NoSelfContainment ==
  /\ HoldsComplete
  /\ \E rank \in [DOMAIN structs -> DOMAIN structs] :
       \A i, j \in DOMAIN structs : Holds(i, j) => rank[j] < rank[i]

(* A member ends where the next begins or before, with the sizes the types *)
(* have now: the completion of a tag moves nothing that was laid out.      *)
MembersDisjoint ==
  \A ms \in MemberLists \ {None} :
    \A k \in 1 .. Len(ms) - 1 :
      ms[k].offset + sizeof_type(ms[k].type) <= ms[k + 1].offset

(* However often a global is declared extern, it is defined once: the      *)
(* assembler sees its label once.                                          *)
OneDefinition ==
  \A i, j \in DOMAIN globals :
    /\ globals[i].name = globals[j].name
    /\ ~ globals[i].is_extern /\ ~ globals[j].is_extern
    => i = j

TagMeaning(tag) ==
  LET found == Found("STRUCT", tag)
  IN  IF found = {} THEN None
      ELSE LET members == structs[(CHOOSE t \in found : TRUE).id].members
           IN  IF members = None THEN Incomplete ELSE members

AliasMeaning(name) ==
  LET found == Found("TYPEDEF", name)
  IN  IF found = {} THEN None ELSE (CHOOSE t \in found : TRUE).base

Space == INSTANCE TagSpace WITH
  tags       <- [tag \in Tags |-> TagMeaning(tag)],
  aliases    <- [name \in Aliases |-> AliasMeaning(name)],
  Unknown    <- None

(* Declarations mention, complete and alias names as C has it: once a tag  *)
(* is complete or a typedef made, nothing that follows changes it.         *)
ImplementsTagSpace == Space!Spec
=============================================================================
