-------------------------------- MODULE Vars --------------------------------
(***************************************************************************)
(* The variable lists of type.c: add_var for local variables, and the two  *)
(* functions that read where a list ends.  A list is a sequence of Var     *)
(* records in the order of their definition.  An offset counts down from   *)
(* fp: the variable occupies the SizeOf[type] bytes that start at          *)
(* fp - offset.                                                            *)
(*                                                                         *)
(* Identifiers and types are opaque: what add_var needs of a type is its   *)
(* sizeof_type and whether it is void.  A name that compares equal         *)
(* (length and strncmp) is the same element of Names.                      *)
(***************************************************************************)
EXTENDS Integers, SequencesExt

CONSTANTS
  Names,    \* identifiers
  Types,    \* types a declaration can give
  Void,     \* the type void
  SizeOf    \* sizeof_type, in bytes

ASSUME VarsAssumption ==
  /\ Void \in Types
  /\ SizeOf \in [Types -> Nat]

Var == [name : Names, type : Types, offset : Nat, scope_id : Nat]

roundup_to_dword(size) == ((size + 7) \div 8) * 8

(* The offset of the last variable of a list, 0 for an empty one: what     *)
(* add_var continues from, what scope_pop adds to the variables it moves   *)
(* and what codegen takes for the size of the frame.                       *)
LastOffset(vars) == IF vars = <<>> THEN 0 ELSE vars[Len(vars)].offset

(* The two ways add_var refuses a variable, in the order it tests them.    *)
BadType(type) == type = Void

Redefines(vars, name, scope_id) ==
  \E i \in 1 .. Len(vars) :
    /\ vars[i].scope_id = scope_id
    /\ vars[i].name = name

(* Fault: the size is not rounded up.                                      *)
add_var_unrounded(vars, name, type, scope_id) ==
  Append(vars, [name     |-> name,
                type     |-> type,
                offset   |-> LastOffset(vars) + SizeOf[type],
                scope_id |-> scope_id])

(* Fault: offsets grow the wrong way.                                      *)
add_var_upwards(vars, name, type, scope_id) ==
  Append(vars, [name     |-> name,
                type     |-> type,
                offset   |-> LastOffset(vars) - roundup_to_dword(SizeOf[type]),
                scope_id |-> scope_id])

(* add_var of a local variable it does not refuse.                         *)
add_var(vars, name, type, scope_id) ==
  Append(vars, [name     |-> name,
                type     |-> type,
                offset   |-> LastOffset(vars) + roundup_to_dword(SizeOf[type]),
                scope_id |-> scope_id])

(* The loop of scope_pop: a list moved down by the given distance.         *)
Shift(vars, distance) ==
  [i \in 1 .. Len(vars) |-> [vars[i] EXCEPT !.offset = @ + distance]]

-----------------------------------------------------------------------------
(* The bytes below fp a variable occupies, as their distances from fp.     *)
Slot(var) == (var.offset - SizeOf[var.type] + 1) .. var.offset

(* A list is laid out when its variables are double-word aligned and every *)
(* one starts below the end of all those before it.                        *)
LaidOut(vars) ==
  \A k \in 1 .. Len(vars) :
    /\ vars[k].offset % 8 = 0
    /\ roundup_to_dword(SizeOf[vars[k].type]) <= vars[k].offset
    /\ \A j \in 1 .. (k - 1) :
         vars[j].offset + roundup_to_dword(SizeOf[vars[k].type])
           <= vars[k].offset
=============================================================================
