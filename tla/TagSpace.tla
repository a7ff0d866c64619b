------------------------------ MODULE TagSpace ------------------------------
(***************************************************************************)
(* What the declarations of a file promise about the names of types: a tag *)
(* may be mentioned before it is completed, it is completed once, and then *)
(* it means the same for the rest of the file; so does a typedef's name.   *)
(***************************************************************************)
CONSTANTS
  Tags, Aliases,    \* the names of structs and of typedefs
  Unknown, Incomplete

VARIABLES tags, aliases

Init ==
  /\ tags = [t \in Tags |-> Unknown]
  /\ aliases = [n \in Aliases |-> Unknown]

Mention(t) ==
  /\ tags[t] = Unknown
  /\ tags' = [tags EXCEPT ![t] = Incomplete]
  /\ UNCHANGED aliases

Complete(t) ==
  /\ tags[t] \in {Unknown, Incomplete}
  /\ \A u \in Tags \ {t} : tags'[u] = tags[u]
  /\ tags'[t] \notin {Unknown, Incomplete}
  /\ UNCHANGED aliases

Alias(n) ==
  /\ aliases[n] = Unknown
  /\ \A m \in Aliases \ {n} : aliases'[m] = aliases[m]
  /\ UNCHANGED tags

Next ==
  \/ \E t \in Tags : Mention(t) \/ Complete(t)
  \/ \E n \in Aliases : Alias(n)

Spec == Init /\ [][Next]_<<tags, aliases>>
=============================================================================
