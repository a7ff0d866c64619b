---------------------------- MODULE BlockScoping ----------------------------
(***************************************************************************)
(* What name lookup in a block-structured language promises.  env is the   *)
(* stack of open blocks of the function being read, outermost first; each  *)
(* block maps the names declared in it so far to their types.  Entering a  *)
(* block declares nothing, a name is declared once per block and only in   *)
(* the innermost one, and leaving a block forgets what it declared and     *)
(* nothing else.                                                           *)
(***************************************************************************)
EXTENDS Integers, SequencesExt

CONSTANTS Names, Types, Undeclared

VARIABLE env

Block == [Names -> Types \cup {Undeclared}]

EmptyBlock == [n \in Names |-> Undeclared]

(* The type of the innermost declaration of a name that is in sight.       *)
Visible(name) ==
  LET i == SelectLastInSeq(env, LAMBDA b : b[name] # Undeclared)
  IN  IF i = 0 THEN Undeclared ELSE env[i][name]

Init == env = <<>>

BeginFunction ==
  /\ env = <<>>
  /\ env' = <<EmptyBlock>>

EndFunction ==
  /\ env # <<>>
  /\ env' = <<>>

Enter ==
  /\ env # <<>>
  /\ env' = Append(env, EmptyBlock)

Declare(name, type) ==
  /\ env # <<>>
  /\ env[Len(env)][name] = Undeclared
  /\ env' = [env EXCEPT ![Len(env)][name] = type]

Leave ==
  /\ Len(env) > 1
  /\ env' = Front(env)

Next ==
  \/ BeginFunction
  \/ EndFunction
  \/ Enter
  \/ \E name \in Names, type \in Types : Declare(name, type)
  \/ Leave

Spec == Init /\ [][Next]_env
=============================================================================
