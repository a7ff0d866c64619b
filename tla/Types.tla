-------------------------------- MODULE Types --------------------------------
(***************************************************************************)
(* Types: their sizes (sizeof_type), the layout of struct members (add_var *)
(* with is_struct_member) and the type of a node (typeof_node).  A type is *)
(* a record whose ty is the TypeKind; a typedef has been replaced by its   *)
(* base.  Used by the modules that TLC checks; no theorem is about it.     *)
(***************************************************************************)
EXTENDS Integers, SequencesExt, Quotients

char_type == [ty |-> "CHAR"]
int_type  == [ty |-> "INT"]
void_type == [ty |-> "VOID"]

new_type_ptr_to(base)         == [ty |-> "PTR", base |-> base]
new_type_array_of(base, size) ==
  [ty |-> "ARRAY", base |-> base, array_size |-> size]

struct_type(members) == [ty |-> "STRUCT", members |-> members]

(* typeof_node stops the compiler.                                         *)
no_type == [ty |-> "error"]

RECURSIVE sizeof_type(_)
sizeof_type(type) ==
  CASE type.ty \in {"CHAR", "VOID"} -> 1
    [] type.ty \in {"INT", "ENUM"}   -> 4
    [] type.ty = "PTR"              -> 8
    [] type.ty = "ARRAY"            -> type.array_size * sizeof_type(type.base)
    [] type.ty = "STRUCT"           ->
         IF type.members = <<>> THEN 0
         ELSE Last(type.members).offset + sizeof_type(Last(type.members).type)
    [] OTHER                        -> 0

roundup(size, unit) == ((size + unit - 1) \div unit) * unit

(* Where a member goes: after the last one, aligned by its size.           *)
MemberOffset(members, type) ==
  LET end == IF members = <<>> THEN 0
             ELSE Last(members).offset + sizeof_type(Last(members).type)
  IN  roundup(end, IF sizeof_type(type) = 8 THEN 8 ELSE 4)

add_member(members, field) ==
  Append(members, [name   |-> field.name,
                   type   |-> field.type,
                   offset |-> MemberOffset(members, field.type)])

(* The type of `struct { fields }`.                                        *)
StructOf(fields) == struct_type(FoldLeft(add_member, <<>>, fields))

(* The first variable of the list with the name.                           *)
find_var(vars, name) ==
  vars[SelectInSeq(vars, LAMBDA v : v.name = name)]

-----------------------------------------------------------------------------
Pointed(type) == type.ty \in {"PTR", "ARRAY"}

Decayed(type) == IF type.ty = "ARRAY" THEN new_type_ptr_to(type.base) ELSE type

(* ND_ADD and ND_SUB.                                                      *)
TypeOfSum(kind, l, r) ==
  LET ltype == Decayed(l)
      rtype == Decayed(r)
  IN  CASE ltype.ty = "INT" /\ rtype.ty = "INT" -> int_type
        [] ltype.ty = "PTR" /\ rtype.ty = "INT" -> ltype
        [] ltype.ty = "INT" /\ rtype.ty = "PTR" -> rtype
        [] /\ ltype.ty = "PTR" /\ rtype.ty = "PTR"
           /\ ltype.base.ty = rtype.base.ty
           /\ kind = "SUB"                      -> int_type
        [] OTHER                                -> no_type

RECURSIVE typeof_node(_)
typeof_node(node) ==
  CASE node.kind \in {"NUM", "MUL", "DIV"} -> int_type
    [] node.kind \in {"ADD", "SUB"} ->
         TypeOfSum(node.kind, typeof_node(node.lhs), typeof_node(node.rhs))
    [] node.kind = "CALL" -> node.type
    [] node.kind \in {"LVAR", "GVAR"} -> node.var.type
    [] node.kind = "DEREF" ->
         LET type == typeof_node(node.lhs)
         IN  IF Pointed(type) THEN type.base ELSE no_type
    [] node.kind = "ADDR" -> new_type_ptr_to(typeof_node(node.lhs))
    [] node.kind = "MEMBER" ->
         LET type == typeof_node(node.lhs)
         IN  IF type.ty = "STRUCT" THEN find_var(type.members, node.ident).type
             ELSE no_type
    [] node.kind = "POSTINC" -> typeof_node(node.lhs)
    [] OTHER -> no_type
=============================================================================
