------------------------------ MODULE Quotients ------------------------------
(***************************************************************************)
(* The integer division of C and of RISC-V.                                *)
(***************************************************************************)
EXTENDS Integers

(* The quotient truncated towards zero, for the / of C and for div.        *)
Quotient(m, n) ==
  IF (m >= 0) = (n > 0)
  THEN (IF m >= 0 THEN m ELSE -m) \div (IF n > 0 THEN n ELSE -n)
  ELSE - ((IF m >= 0 THEN m ELSE -m) \div (IF n > 0 THEN n ELSE -n))
=============================================================================
