------------------------------- MODULE MCLists -------------------------------
(***************************************************************************)
(* Lists for TLC: two lists, two elements, and arrays that grow from 2 to  *)
(* 4 and 8 cells.                                                          *)
(***************************************************************************)
EXTENDS Lists

MCFirstCap == 2
MCMaxLen == 5
=============================================================================
