----------------------------- MODULE MCPrograms -----------------------------
(***************************************************************************)
(* The programs about statements and those about functions in one run: all *)
(* that is said of code holds of both.                                     *)
(***************************************************************************)
EXTENDS MCControl, MCCalls

AllPrograms == ControlPrograms \o CallPrograms
=============================================================================
