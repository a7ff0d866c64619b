------------------------------ MODULE MCParser ------------------------------
(***************************************************************************)
(* Values of the constants of Parser for TLC: a type of each size class    *)
(* add_var and codegen tell apart (a byte, a word, a struct of 12 bytes    *)
(* whose slot is rounded up) and void.                                     *)
(***************************************************************************)
EXTENDS Parser

MCSizeOf == [t \in {"void", "char", "int", "struct"} |->
               CASE t = "void"   -> 1
                 [] t = "char"   -> 1
                 [] t = "int"    -> 4
                 [] t = "struct" -> 12]

MCNumbers     == [kind : {"NUM"}]
MCIdentifiers == [kind : {"IDENT"}, name : Names]
MCConds       == [kind : {"NUM", "COND"}]
MCAllExpr     == Expr

MCNameSymmetry == Permutations(Names)

MCSmallTypes == {"void", "struct"}
MCVoidSizeOf  == [t \in {"void"} |-> MCSizeOf[t]]
MCSmallSizeOf == [t \in MCSmallTypes |-> MCSizeOf[t]]

(* Two types of variables, for what a lookup tells apart.                  *)
MCScopeTypes  == {"void", "int", "struct"}
MCScopeSizeOf == [t \in MCScopeTypes |-> MCSizeOf[t]]
=============================================================================
