------------------------------ MODULE FrontEnd ------------------------------
(***************************************************************************)
(* The first half of main: the reader fills the buffer, then tokenize      *)
(* walks over whatever it has delivered, whole, shortened or with NULs in  *)
(* it.                                                                     *)
(***************************************************************************)
EXTENDS Input, Tokenizer

(* Every byte is a character.                                              *)
ASSUME FrontEndAssumption ==
  \A f \in Files \cup Rewrites : f \in Seq(DOMAIN Code)

vars == <<readerVars, lexerVars>>

Init == ReaderInit /\ LexerInit

Read == ReaderNext /\ UNCHANGED lexerVars

Tokenize == pc = "returned" /\ LexerNext /\ UNCHANGED readerVars

Next == Read \/ Tokenize

Progress == (ReaderProgress /\ UNCHANGED lexerVars) \/ Tokenize

(* The compiler runs until it stops; nothing else is fair.                 *)
Spec == Init /\ [][Next]_vars /\ WF_vars(Progress)

-----------------------------------------------------------------------------
(* Type invariant of both: the count read_stdin passes to fread is not     *)
(* negative, p and end are inside the buffer.                              *)
TypeOK ==
  /\ ReaderTypeOK
  /\ LexerTypeOK
  /\ pc = "returned" => p \in 1 .. Len(buf) /\ end \in 0 .. Len(buf)

(* The compiler stops: every round of read_stdin gets something, meets the *)
(* end or gives up, every step of tokenize moves p or end, or stops.       *)
AlwaysEnds ==
  <>(pc \in {"failed", "overrun"} \/ lexer \in {"done", "error", "overrun"})
=============================================================================
