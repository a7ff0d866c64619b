-------------------------------- MODULE Lists --------------------------------
(***************************************************************************)
(* The lists of util.c: an array that list_append doubles when it is full. *)
(* A list owns its array; nobody keeps `data` over an append, so the array *)
(* is part of the list, and a realloc gives it new cells, which hold Junk  *)
(* until they are written.  list_concat is a loop of appends that reads    *)
(* the other list's length each time round.                                *)
(***************************************************************************)
EXTENDS Integers, Sequences

CONSTANTS
  ListIds,      \* the List objects
  Elems,        \* what they hold
  Junk,         \* the value of a cell nobody has written
  NULL,         \* the list is not made yet
  Idle,         \* no list_concat is under way
  FirstCap,     \* the size of the first array, 16 in the code
  MaxLen        \* bound on the length of a list

ASSUME ListsAssumption ==
  /\ FirstCap \in Nat \ {0}
  /\ MaxLen \in Nat
  /\ NULL \notin [len : Nat, cap : Nat, data : Seq(Elems \cup {Junk})]
  /\ NULL \notin Seq(Elems \cup {Junk})
  /\ Idle \notin [list : ListIds, other : ListIds, i : Nat]

VARIABLES
  lists,
  copying,      \* the arguments and the i of the list_concat under way
  returned      \* the index the last call returned to its caller

vars == <<lists, copying, returned>>

List == [len : Nat, cap : Nat, data : Seq(Elems \cup {Junk})]
Copy == [list : ListIds, other : ListIds, i : Nat]

(* Type invariant: the array has as many cells as cap says.                *)
TypeOK ==
  /\ lists \in [ListIds -> List \cup {NULL}]
  /\ \A l \in ListIds : lists[l] # NULL => Len(lists[l].data) = lists[l].cap
  /\ copying \in Copy \cup {Idle}
  /\ returned \in Int

-----------------------------------------------------------------------------
Realloc(data, cap) ==
  [i \in 1 .. cap |-> IF i <= Len(data) THEN data[i] ELSE Junk]

(* Fault: the result of realloc is dropped.                                *)
Grown_unassigned(list) ==
  IF list.len = list.cap
  THEN [list EXCEPT !.cap = IF @ # 0 THEN @ * 2 ELSE FirstCap]
  ELSE list

(* Fault: the array grows when it has overflowed.                          *)
Grown_late(list) ==
  LET cap == IF list.cap # 0 THEN list.cap * 2 ELSE FirstCap
  IN  IF list.len > list.cap \/ list.cap = 0
      THEN [list EXCEPT !.cap = cap, !.data = Realloc(@, cap)]
      ELSE list

Grown(list) ==
  LET cap == IF list.cap # 0 THEN list.cap * 2 ELSE FirstCap
  IN  IF list.len = list.cap
      THEN [list EXCEPT !.cap = cap, !.data = Realloc(@, cap)]
      ELSE list

list_append(list, x) ==
  [Grown(list) EXCEPT !.data = [@ EXCEPT ![list.len + 1] = x],
                      !.len  = @ + 1]

Init ==
  /\ lists = [l \in ListIds |-> NULL]
  /\ copying = Idle
  /\ returned = 0

list_new(l) ==
  /\ copying = Idle /\ lists[l] = NULL
  /\ lists' = [lists EXCEPT ![l] = [len |-> 0, cap |-> 0, data |-> <<>>]]
  /\ UNCHANGED <<copying, returned>>

CallAppend(l, x) ==
  /\ copying = Idle /\ lists[l] # NULL /\ lists[l].len < MaxLen
  /\ lists' = [lists EXCEPT ![l] = list_append(@, x)]
  /\ returned' = lists[l].len
  /\ UNCHANGED copying

(* scope_pop, the only caller, appends a scope's list to its parent's.     *)
CallConcat(l, other) ==
  /\ copying = Idle /\ l # other
  /\ lists[l] # NULL /\ lists[other] # NULL
  /\ lists[l].len + lists[other].len <= MaxLen
  /\ copying' = [list |-> l, other |-> other, i |-> 0]
  /\ UNCHANGED <<lists, returned>>

(* Fault: the loop stops before the last element.                          *)
InLoop_short(copy) == copy.i + 1 < lists[copy.other].len

InLoop(copy) == copy.i < lists[copy.other].len

ConcatStep ==
  /\ copying # Idle
  /\ InLoop(copying)
  /\ lists' = [lists EXCEPT ![copying.list] =
                 list_append(@, lists[copying.other].data[copying.i + 1])]
  /\ copying' = [copying EXCEPT !.i = @ + 1]
  /\ UNCHANGED returned

ConcatReturns ==
  /\ copying # Idle
  /\ ~ InLoop(copying)
  /\ returned' = lists[copying.list].len - 1
  /\ copying' = Idle
  /\ UNCHANGED lists

Next ==
  \/ \E l \in ListIds : list_new(l)
  \/ \E l \in ListIds, x \in Elems : CallAppend(l, x)
  \/ \E l, other \in ListIds : CallConcat(l, other)
  \/ ConcatStep
  \/ ConcatReturns

Spec == Init /\ [][Next]_vars

-----------------------------------------------------------------------------
(* The elements fit into the array: the write of list_append at index len  *)
(* is inside it, and what a loop up to len reads has been written.         *)
ArraysHoldElements ==
  \A l \in ListIds :
    lists[l] # NULL =>
      /\ lists[l].len <= lists[l].cap
      /\ \A i \in 1 .. lists[l].len : lists[l].data[i] \in Elems

(* The elements a list had before the list_concat under way began.         *)
Contents(l) ==
  IF lists[l] = NULL THEN NULL
  ELSE SubSeq(lists[l].data, 1,
              lists[l].len
                - IF copying # Idle /\ copying.list = l THEN copying.i ELSE 0)

C == INSTANCE Collections WITH contents <- [l \in ListIds |-> Contents(l)]

(* The growing arrays are the sequences their users take them for: no      *)
(* element is lost, moved or overwritten when the array is doubled, and an *)
(* index that list_append returned (the number of a string in the          *)
(* assembly, parse.c:261) keeps naming its element.                        *)
ImplementsCollections == C!Spec
=============================================================================
