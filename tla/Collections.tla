----------------------------- MODULE Collections -----------------------------
(***************************************************************************)
(* What the lists of util.c promise: a list is a sequence that only grows  *)
(* at its end, an append tells the index its element has from then on, and *)
(* a concatenation adds all of the other list at once.                     *)
(***************************************************************************)
EXTENDS Integers, Sequences

CONSTANTS ListIds, Elems, NULL

VARIABLES
  contents,     \* the elements of each list, NULL before it is made
  returned      \* the index the last operation returned

Init ==
  /\ contents = [l \in ListIds |-> NULL]
  /\ returned = 0

New(l) ==
  /\ contents[l] = NULL
  /\ contents' = [contents EXCEPT ![l] = <<>>]
  /\ UNCHANGED returned

Push(l, x) ==
  /\ contents[l] # NULL
  /\ contents' = [contents EXCEPT ![l] = Append(@, x)]
  /\ returned' = Len(contents[l])

Concat(l, other) ==
  /\ contents[l] # NULL /\ contents[other] # NULL
  /\ contents' = [contents EXCEPT ![l] = @ \o contents[other]]
  /\ returned' = Len(contents[l]) + Len(contents[other]) - 1

Next ==
  \E l \in ListIds :
    \/ New(l)
    \/ \E x \in Elems : Push(l, x)
    \/ \E other \in ListIds : Concat(l, other)

Spec == Init /\ [][Next]_<<contents, returned>>
=============================================================================
