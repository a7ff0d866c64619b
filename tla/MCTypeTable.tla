---------------------------- MODULE MCTypeTable -----------------------------
(***************************************************************************)
(* TypeTable for TLC: two tags, a typedef, two names for variables, and    *)
(* types of one and of eight bytes besides the structs; void is refused    *)
(* everywhere but behind a pointer.                                        *)
(***************************************************************************)
EXTENDS TypeTable, TLC

MCScalars  == {[ty |-> "CHAR"], [ty |-> "VOID"]}
MCSymmetry == Permutations(Tags) \cup Permutations(Names)
=============================================================================
