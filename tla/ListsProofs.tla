----------------------------- MODULE ListsProofs -----------------------------
(***************************************************************************)
(* Lists keeps its elements inside its arrays and implements Collections,  *)
(* for any number of lists and elements, every size of the first array and *)
(* every bound on lengths.                                                 *)
(***************************************************************************)
EXTENDS Lists, TLAPS, SequenceTheorems

Cells == Elems \cup {Junk}

(* A list as every call leaves it.                                         *)
Good(list) ==
  /\ list \in List
  /\ Len(list.data) = list.cap
  /\ list.len <= list.cap
  /\ \A i \in 1 .. list.len : list.data[i] \in Elems

(* The concatenation under way is about two different lists, of which the  *)
(* first has got i elements of the second.                                 *)
Copied ==
  copying # Idle =>
    LET list  == lists[copying.list]
        other == lists[copying.other]
    IN  /\ copying.list # copying.other
        /\ list # NULL /\ other # NULL
        /\ copying.i <= list.len /\ copying.i <= other.len
        /\ \A k \in 1 .. copying.i :
             list.data[list.len - copying.i + k] = other.data[k]

IInv == TypeOK /\ ArraysHoldElements /\ Copied

-----------------------------------------------------------------------------
LEMMA ListIsNotNull ==
  ASSUME NEW list \in List PROVE list # NULL
BY ListsAssumption, SMT DEF List

LEMMA GoodLists ==
  ASSUME TypeOK, ArraysHoldElements, NEW l \in ListIds, lists[l] # NULL
  PROVE  Good(lists[l])
BY DEF TypeOK, ArraysHoldElements, Good

(* Growing leaves the elements where they are and makes room for one more. *)
LEMMA GrownHasRoom ==
  ASSUME NEW list, Good(list)
  PROVE  /\ Good(Grown(list))
         /\ Grown(list).len = list.len
         /\ Grown(list).len < Grown(list).cap
         /\ \A i \in 1 .. list.len : Grown(list).data[i] = list.data[i]
<1> DEFINE cap  == IF list.cap # 0 THEN list.cap * 2 ELSE FirstCap
           data == Realloc(list.data, cap)
<1>1. /\ list.len \in Nat /\ list.cap \in Nat
      /\ list.data \in Seq(Cells) /\ Len(list.data) = list.cap
      /\ list.len <= list.cap
  BY DEF Good, List, Cells
<1>2. CASE list.len # list.cap
  BY <1>1, <1>2 DEF Grown, Good
<1>3. CASE list.len = list.cap
  <2>1. cap \in Nat /\ list.len < cap
    BY <1>1, <1>3, ListsAssumption
  <2>2. \A i \in 1 .. cap : i <= Len(list.data) => i \in 1 .. Len(list.data)
    BY <1>1, <2>1
  <2>3. \A i \in 1 .. cap :
          (IF i <= Len(list.data) THEN list.data[i] ELSE Junk) \in Cells
    BY <1>1, <2>2, ElementOfSeq DEF Cells
  <2>4. data \in Seq(Cells)
    BY <2>1, <2>3, IsASeq DEF Realloc
  <2>5. Len(data) = cap
    BY <2>1 DEF Realloc
  <2>6. \A i \in 1 .. list.len : data[i] = list.data[i]
    BY <1>1, <2>1 DEF Realloc
  <2> HIDE DEF cap, data
  <2>7. Grown(list) = [list EXCEPT !.cap = cap, !.data = data]
    BY <1>3 DEF Grown, cap, data
  <2>8. /\ Grown(list) \in List
        /\ Grown(list).len = list.len /\ Grown(list).cap = cap
        /\ Grown(list).data = data
    BY <2>1, <2>4, <2>7 DEF Good, List, Cells
  <2> QED
    BY <1>1, <2>1, <2>5, <2>6, <2>8 DEF Good
<1> QED
  BY <1>2, <1>3

(* list_append adds the element at the end and disturbs nothing before it. *)
LEMMA AppendIsGood ==
  ASSUME NEW list, Good(list), NEW x \in Elems
  PROVE  /\ Good(list_append(list, x))
         /\ list_append(list, x).len = list.len + 1
         /\ \A i \in 1 .. list.len : list_append(list, x).data[i] = list.data[i]
         /\ list_append(list, x).data[list.len + 1] = x
<1> DEFINE grown == Grown(list)
           n     == list.len + 1
           data  == [grown.data EXCEPT ![n] = x]
<1>1. /\ Good(grown) /\ grown.len = list.len /\ grown.len < grown.cap
      /\ \A i \in 1 .. list.len : grown.data[i] = list.data[i]
  BY GrownHasRoom
<1>2. /\ list.len \in Nat /\ grown \in List /\ grown.cap \in Nat
      /\ grown.data \in Seq(Cells) /\ Len(grown.data) = grown.cap
  BY <1>1 DEF Good, List, Cells
<1> HIDE DEF grown
<1>3. n \in 1 .. Len(grown.data) /\ x \in Cells
  BY <1>1, <1>2 DEF Cells
<1>4. /\ data \in Seq(Cells) /\ Len(data) = grown.cap
      /\ \A j \in 1 .. grown.cap : data[j] = IF j = n THEN x ELSE grown.data[j]
  BY <1>2, <1>3, ExceptSeq
<1>5. list_append(list, x) = [grown EXCEPT !.data = data, !.len = n]
  BY <1>1 DEF list_append, grown
<1> HIDE DEF data
<1>6. /\ list_append(list, x) \in List
      /\ list_append(list, x).len = n /\ list_append(list, x).cap = grown.cap
      /\ list_append(list, x).data = data
  <2>1. n \in Nat /\ data \in Seq(Elems \cup {Junk})
    BY <1>2, <1>4 DEF Cells
  <2> HIDE DEF n
  <2>2. grown \in [len : Nat, cap : Nat, data : Seq(Elems \cup {Junk})]
    BY <1>2 DEF List
  <2> QED
    BY <1>5, <2>1, <2>2 DEF List
<1>7. /\ \A i \in 1 .. list.len : data[i] = list.data[i]
      /\ data[n] = x
  BY <1>1, <1>2, <1>4
<1>8. \A i \in 1 .. n : data[i] \in Elems
  <2>1. \A i \in 1 .. n : i = n \/ i \in 1 .. list.len
    BY <1>2
  <2> QED
    BY <1>7, <2>1 DEF Good
<1>9. n <= grown.cap
  BY <1>1, <1>2
<1> QED
  BY <1>4, <1>6, <1>7, <1>8, <1>9 DEF Good

(* Replacing one list by a good one keeps what TypeOK and                  *)
(* ArraysHoldElements say of lists.                                        *)
LEMMA ReplaceKeepsGood ==
  ASSUME TypeOK, ArraysHoldElements,
         NEW l \in ListIds, NEW list, Good(list),
         lists' = [lists EXCEPT ![l] = list]
  PROVE  /\ lists' \in [ListIds -> List \cup {NULL}]
         /\ \A m \in ListIds : lists'[m] # NULL => Len(lists'[m].data) = lists'[m].cap
         /\ ArraysHoldElements'
         /\ lists'[l] = list
         /\ \A m \in ListIds \ {l} : lists'[m] = lists[m]
<1>1. list \in List
  BY DEF Good
<1>2. /\ lists' \in [ListIds -> List \cup {NULL}]
      /\ lists'[l] = list
      /\ \A m \in ListIds \ {l} : lists'[m] = lists[m]
  BY <1>1 DEF TypeOK
<1>3. \A m \in ListIds :
        lists'[m] # NULL =>
          /\ Len(lists'[m].data) = lists'[m].cap
          /\ lists'[m].len <= lists'[m].cap
          /\ \A i \in 1 .. lists'[m].len : lists'[m].data[i] \in Elems
  <2> TAKE m \in ListIds
  <2>1. CASE m = l
    BY <1>2, <2>1 DEF Good
  <2>2. CASE m # l
    BY <1>2, <2>2 DEF TypeOK, ArraysHoldElements
  <2> QED
    BY <2>1, <2>2
<1> QED
  BY <1>2, <1>3 DEF ArraysHoldElements

(* The element a round of list_concat appends is one.                      *)
LEMMA CopiedElement ==
  ASSUME IInv, copying # Idle, InLoop(copying)
  PROVE  /\ copying.list \in ListIds /\ copying.other \in ListIds
         /\ copying.i \in Nat
         /\ Good(lists[copying.list]) /\ Good(lists[copying.other])
         /\ copying.i + 1 \in 1 .. lists[copying.other].len
         /\ lists[copying.other].data[copying.i + 1] \in Elems
<1>1. copying \in Copy
  BY DEF IInv, TypeOK
<1>2. copying.list \in ListIds /\ copying.other \in ListIds /\ copying.i \in Nat
  BY <1>1 DEF Copy
<1>3. Good(lists[copying.list]) /\ Good(lists[copying.other])
  BY <1>2, GoodLists DEF IInv, Copied
<1>4. lists[copying.other].len \in Nat
  BY <1>3 DEF Good, List
<1> QED
  BY <1>2, <1>3, <1>4 DEF InLoop, Good

LEMMA StepKeepsIInv ==
  ASSUME IInv, [Next]_vars
  PROVE  IInv'
<1>1. TypeOK /\ ArraysHoldElements /\ Copied
  BY DEF IInv
<1>2. CASE UNCHANGED vars
  BY <1>1, <1>2 DEF vars, IInv, TypeOK, ArraysHoldElements, Copied
<1>3. ASSUME NEW l \in ListIds, list_new(l)
      PROVE  IInv'
  <2> DEFINE empty == [len |-> 0, cap |-> 0, data |-> <<>>]
  <2>1. empty \in List /\ Len(empty.data) = 0
    BY EmptySeq DEF List
  <2>2. Good(empty)
    BY <2>1 DEF Good
  <2>3. lists' = [lists EXCEPT ![l] = empty]
    BY <1>3 DEF list_new
  <2> HIDE DEF empty
  <2> QED
    BY <1>1, <1>3, <2>2, <2>3, ReplaceKeepsGood DEF list_new, IInv, TypeOK, Copied
<1>4. ASSUME NEW l \in ListIds, NEW x \in Elems, CallAppend(l, x)
      PROVE  IInv'
  <2>1. Good(lists[l])
    BY <1>1, <1>4, GoodLists DEF CallAppend
  <2>2. Good(list_append(lists[l], x))
    BY <2>1, AppendIsGood
  <2>3. lists' = [lists EXCEPT ![l] = list_append(lists[l], x)]
    BY <1>4 DEF CallAppend
  <2>4. returned' \in Int
    BY <1>4, <2>1 DEF CallAppend, Good, List
  <2>5. copying' = Idle
    BY <1>4 DEF CallAppend
  <2> QED
    BY <1>1, <2>2, <2>3, <2>4, <2>5, ReplaceKeepsGood DEF IInv, TypeOK, Copied
<1>5. ASSUME NEW l \in ListIds, NEW other \in ListIds, CallConcat(l, other)
      PROVE  IInv'
  <2>1. /\ copying' \in Copy /\ copying'.i = 0
        /\ copying'.list = l /\ copying'.other = other
    BY <1>5 DEF CallConcat, Copy
  <2>2. Good(lists[l]) /\ Good(lists[other])
    BY <1>1, <1>5, GoodLists DEF CallConcat
  <2>3. lists[l].len \in Nat /\ lists[other].len \in Nat
    BY <2>2 DEF Good, List
  <2>4. Copied'
    BY <1>5, <2>1, <2>3 DEF CallConcat, Copied
  <2>5. TypeOK' /\ ArraysHoldElements'
    BY <1>1, <1>5, <2>1 DEF CallConcat, TypeOK, ArraysHoldElements
  <2> QED
    BY <2>4, <2>5 DEF IInv
<1>6. CASE ConcatStep
  <2> DEFINE l     == copying.list
             o     == copying.other
             i     == copying.i
             x     == lists[o].data[i + 1]
             grown == list_append(lists[l], x)
  <2>1. /\ l \in ListIds /\ o \in ListIds /\ i \in Nat /\ x \in Elems
        /\ Good(lists[l]) /\ Good(lists[o])
        /\ i + 1 \in 1 .. lists[o].len
    BY <1>6, CopiedElement DEF ConcatStep
  <2>2. copying \in Copy /\ copying # Idle
    BY <1>1, <1>6 DEF ConcatStep, TypeOK
  <2>3. /\ l # o /\ i <= lists[l].len
        /\ \A k \in 1 .. i : lists[l].data[lists[l].len - i + k] = lists[o].data[k]
    BY <1>1, <2>2 DEF Copied
  <2>4. /\ lists' = [lists EXCEPT ![l] = grown]
        /\ copying' = [copying EXCEPT !.i = i + 1]
        /\ returned' = returned
    BY <1>6 DEF ConcatStep
  <2>5. /\ copying' \in Copy
        /\ copying'.list = l /\ copying'.other = o /\ copying'.i = i + 1
    BY <2>1, <2>2, <2>4 DEF Copy
  <2> HIDE DEF l, o, i, x
  <2>6. /\ Good(grown) /\ grown.len = lists[l].len + 1
        /\ \A k \in 1 .. lists[l].len : grown.data[k] = lists[l].data[k]
        /\ grown.data[lists[l].len + 1] = x
    BY <2>1, AppendIsGood
  <2> HIDE DEF grown
  <2>7. TypeOK' /\ ArraysHoldElements'
    BY <1>1, <2>1, <2>4, <2>5, <2>6, ReplaceKeepsGood DEF TypeOK
  <2>8. lists'[l] = grown /\ lists'[o] = lists[o]
    BY <1>1, <2>1, <2>3, <2>4, <2>6, ReplaceKeepsGood
  <2>9. lists[l].len \in Nat /\ lists[o].len \in Nat
    BY <2>1 DEF Good, List
  <2>10. \A k \in 1 .. i + 1 :
           grown.data[lists[l].len + 1 - (i + 1) + k] = lists[o].data[k]
    <3> TAKE k \in 1 .. i + 1
    <3>1. CASE k = i + 1
      BY <2>1, <2>6, <2>9, <3>1 DEF x
    <3>2. CASE k # i + 1
      <4>1. k \in 1 .. i
        BY <2>1, <3>2
      <4>2. /\ lists[l].len + 1 - (i + 1) + k = lists[l].len - i + k
            /\ lists[l].len - i + k \in 1 .. lists[l].len
        BY <2>1, <2>3, <2>9, <4>1
      <4> QED
        BY <2>3, <2>6, <4>1, <4>2
    <3> QED
      BY <3>1, <3>2
  <2>11. grown # NULL /\ lists[o] # NULL
    BY <2>1, <2>6, ListIsNotNull DEF Good
  <2>12. i + 1 <= grown.len /\ i + 1 <= lists[o].len
    BY <2>1, <2>3, <2>6, <2>9
  <2>13. /\ lists'[copying'.list] = grown /\ lists'[copying'.other] = lists[o]
         /\ grown.len = lists[l].len + 1
    BY <2>5, <2>6, <2>8
  <2>14. Copied'
    <3> SUFFICES ASSUME copying' # Idle
                 PROVE  \A k \in 1 .. i + 1 :
                          grown.data[grown.len - (i + 1) + k] = lists[o].data[k]
      BY <2>3, <2>5, <2>11, <2>12, <2>13 DEF Copied
    <3> TAKE k \in 1 .. i + 1
    <3>1. grown.len - (i + 1) + k = lists[l].len + 1 - (i + 1) + k
      BY <2>1, <2>9, <2>13
    <3> QED
      BY <2>10, <3>1, Zenon
  <2> QED
    BY <2>7, <2>14 DEF IInv
<1>7. CASE ConcatReturns
  <2>1. copying \in Copy /\ copying.list \in ListIds
    BY <1>1, <1>7 DEF ConcatReturns, TypeOK, Copy
  <2>2. lists[copying.list] # NULL
    BY <1>1, <1>7 DEF ConcatReturns, Copied
  <2>3. lists[copying.list].len \in Nat
    BY <1>1, <2>1, <2>2, GoodLists DEF Good, List
  <2>4. returned' \in Int
    BY <1>7, <2>3 DEF ConcatReturns
  <2> QED
    BY <1>1, <1>7, <2>4 DEF ConcatReturns, IInv, TypeOK, ArraysHoldElements, Copied
<1> QED
  BY <1>2, <1>3, <1>4, <1>5, <1>6, <1>7 DEF Next

LEMMA InitHasIInv == Init => IInv
BY SMT DEF Init, IInv, TypeOK, ArraysHoldElements, Copied

LEMMA InvariantHolds == Spec => []IInv
<1>1. IInv /\ [Next]_vars => IInv'
  BY StepKeepsIInv
<1> QED
  BY InitHasIInv, <1>1, PTL DEF Spec

(* Type correctness of the lists and of the concatenation under way        *)
(* (list_new, list_append, list_concat).                                   *)
THEOREM TypeCorrect == Spec => []TypeOK
<1>1. IInv => TypeOK
  BY DEF IInv
<1> QED
  BY InvariantHolds, <1>1, PTL

(* Whatever is appended and concatenated, no list has more elements than   *)
(* its array has cells, and all of them have been written: list_append     *)
(* grows the array in time.                                                *)
THEOREM ElementsAreHeld == Spec => []ArraysHoldElements
<1>1. IInv => ArraysHoldElements
  BY DEF IInv
<1> QED
  BY InvariantHolds, <1>1, PTL

-----------------------------------------------------------------------------
(* The first n elements of a list.                                         *)
LEMMA PrefixOfList ==
  ASSUME NEW list, Good(list), NEW n \in 0 .. list.len
  PROVE  /\ SubSeq(list.data, 1, n) \in Seq(Cells)
         /\ Len(SubSeq(list.data, 1, n)) = n
         /\ \A k \in 1 .. n : SubSeq(list.data, 1, n)[k] = list.data[k]
<1>1. /\ list.len \in Nat /\ list.cap \in Nat
      /\ list.data \in Seq(Cells) /\ Len(list.data) = list.cap
      /\ list.len <= list.cap
  BY DEF Good, List, Cells
<1>2. n \in Nat /\ n <= Len(list.data) /\ \A k \in 1 .. n : k \in 1 .. Len(list.data)
  BY <1>1
<1>3. \A k \in 1 .. n : list.data[k] \in Cells
  BY <1>1, <1>2, ElementOfSeq
<1> QED
  BY <1>1, <1>2, <1>3, SubSeqProperties

(* Lists that agree on their first n elements have the same prefix.        *)
LEMMA SamePrefix ==
  ASSUME NEW list, Good(list), NEW other, Good(other),
         NEW n \in Nat, n <= list.len, n <= other.len,
         \A k \in 1 .. n : list.data[k] = other.data[k]
  PROVE  SubSeq(list.data, 1, n) = SubSeq(other.data, 1, n)
<1>1. n \in 0 .. list.len /\ n \in 0 .. other.len
  BY DEF Good, List
<1> QED
  BY <1>1, PrefixOfList, SeqEqual

LEMMA AppendedContents ==
  ASSUME NEW list, Good(list), NEW x \in Elems
  PROVE  SubSeq(list_append(list, x).data, 1, list.len + 1)
           = Append(SubSeq(list.data, 1, list.len), x)
<1> DEFINE longer == list_append(list, x)
           old    == SubSeq(list.data, 1, list.len)
           new    == SubSeq(longer.data, 1, list.len + 1)
<1>1. list.len \in Nat /\ x \in Cells
  BY DEF Good, List, Cells
<1>2. /\ Good(longer) /\ longer.len = list.len + 1
      /\ \A k \in 1 .. list.len : longer.data[k] = list.data[k]
      /\ longer.data[list.len + 1] = x
  BY AppendIsGood
<1> HIDE DEF longer
<1>3. /\ old \in Seq(Cells) /\ Len(old) = list.len
      /\ \A k \in 1 .. list.len : old[k] = list.data[k]
  BY <1>1, PrefixOfList
<1>4. /\ new \in Seq(Cells) /\ Len(new) = list.len + 1
      /\ \A k \in 1 .. list.len + 1 : new[k] = longer.data[k]
  BY <1>1, <1>2, PrefixOfList
<1> HIDE DEF old, new
<1>5. /\ Append(old, x) \in Seq(Cells) /\ Len(Append(old, x)) = list.len + 1
      /\ \A k \in 1 .. list.len : Append(old, x)[k] = old[k]
      /\ Append(old, x)[list.len + 1] = x
  BY <1>1, <1>3, AppendProperties
<1>6. \A k \in 1 .. list.len + 1 : k \in 1 .. list.len \/ k = list.len + 1
  BY <1>1
<1>7. \A k \in 1 .. list.len + 1 : new[k] = Append(old, x)[k]
  BY <1>2, <1>3, <1>4, <1>5, <1>6
<1>8. new = Append(old, x)
  BY <1>4, <1>5, <1>7, SeqEqual
<1> QED
  BY <1>8 DEF old, new, longer

(* A list that ends with all the elements of another is what it was before *)
(* with the other behind it.                                               *)
LEMMA ConcatenatedContents ==
  ASSUME NEW list, Good(list), NEW other, Good(other),
         other.len <= list.len,
         \A k \in 1 .. other.len :
           list.data[list.len - other.len + k] = other.data[k]
  PROVE  SubSeq(list.data, 1, list.len)
           = SubSeq(list.data, 1, list.len - other.len)
               \o SubSeq(other.data, 1, other.len)
<1> DEFINE n     == list.len - other.len
           whole == SubSeq(list.data, 1, list.len)
           front == SubSeq(list.data, 1, n)
           back  == SubSeq(other.data, 1, other.len)
<1>1. /\ list.len \in Nat /\ other.len \in Nat /\ n \in Nat
      /\ list.len = n + other.len /\ n <= list.len
  BY DEF Good, List
<1> HIDE DEF n
<1>2. /\ whole \in Seq(Cells) /\ Len(whole) = list.len
      /\ \A k \in 1 .. list.len : whole[k] = list.data[k]
  BY <1>1, PrefixOfList
<1>3. /\ front \in Seq(Cells) /\ Len(front) = n
      /\ \A k \in 1 .. n : front[k] = list.data[k]
  BY <1>1, PrefixOfList
<1>4. /\ back \in Seq(Cells) /\ Len(back) = other.len
      /\ \A k \in 1 .. other.len : back[k] = other.data[k]
  BY <1>1, PrefixOfList
<1> HIDE DEF whole, front, back
<1>5. /\ front \o back \in Seq(Cells) /\ Len(front \o back) = list.len
      /\ \A k \in 1 .. list.len :
           (front \o back)[k] = IF k <= n THEN front[k] ELSE back[k - n]
  <2>1. /\ front \o back \in Seq(Cells)
        /\ Len(front \o back) = Len(front) + Len(back)
        /\ \A k \in 1 .. Len(front) + Len(back) :
             (front \o back)[k] =
               IF k <= Len(front) THEN front[k] ELSE back[k - Len(front)]
    BY <1>3, <1>4, ConcatProperties
  <2>2. Len(front) + Len(back) = list.len
    BY <1>1, <1>3, <1>4
  <2> QED
    BY <1>3, <2>1, <2>2, Zenon
<1>6. \A k \in 1 .. list.len : whole[k] = (front \o back)[k]
  <2> TAKE k \in 1 .. list.len
  <2>1. CASE k <= n
    <3>1. k \in 1 .. n
      BY <1>1, <2>1
    <3> QED
      BY <1>2, <1>3, <1>5, <2>1, <3>1
  <2>2. CASE ~ k <= n
    <3>1. k - n \in 1 .. other.len /\ k = n + (k - n)
      BY <1>1, <2>2
    <3>2. list.data[n + (k - n)] = other.data[k - n]
      BY <3>1 DEF n
    <3> QED
      BY <1>2, <1>4, <1>5, <2>2, <3>1, <3>2
  <2> QED
    BY <2>1, <2>2
<1>7. whole = front \o back
  BY <1>2, <1>5, <1>6, SeqEqual
<1> QED
  BY <1>7 DEF whole, front, back, n

-----------------------------------------------------------------------------
(* The state of Collections that a state of Lists maps to.                 *)
contents == [l \in ListIds |-> Contents(l)]

(* A list no concatenation has under way is all of its elements.           *)
LEMMA ContentsAtRest ==
  ASSUME NEW l \in ListIds, lists[l] # NULL,
         copying = Idle \/ copying.list # l
  PROVE  Contents(l) = SubSeq(lists[l].data, 1, lists[l].len - 0)
BY Zenon DEF Contents

LEMMA ContentsNotNull ==
  ASSUME IInv, NEW l \in ListIds
  PROVE  Contents(l) = NULL <=> lists[l] = NULL
<1>1. CASE lists[l] = NULL
  BY <1>1 DEF Contents
<1>2. CASE lists[l] # NULL
  <2> DEFINE i == IF copying # Idle /\ copying.list = l THEN copying.i ELSE 0
             n == lists[l].len - i
  <2>1. Good(lists[l])
    BY <1>2, GoodLists DEF IInv
  <2>2. lists[l].len \in Nat
    BY <2>1 DEF Good, List
  <2>3. i \in Nat /\ i <= lists[l].len
    BY <2>2 DEF IInv, TypeOK, Copied, Copy
  <2>4. n \in 0 .. lists[l].len
    BY <2>2, <2>3
  <2>5. Contents(l) = SubSeq(lists[l].data, 1, n)
    BY <1>2, Zenon DEF Contents
  <2> HIDE DEF n
  <2>6. Contents(l) \in Seq(Elems \cup {Junk})
    BY <2>1, <2>4, <2>5, PrefixOfList DEF Cells
  <2> QED
    BY <1>2, <2>6, ListsAssumption
<1> QED
  BY <1>1, <1>2

LEMMA InitSimulates == Init => contents = [l \in ListIds |-> NULL] /\ returned = 0
BY DEF Init, contents, Contents

(* list_new is New.                                                        *)
LEMMA NewSimulates ==
  ASSUME IInv, NEW l \in ListIds, list_new(l)
  PROVE  C!New(l)
<1> DEFINE empty == [len |-> 0, cap |-> 0, data |-> <<>>]
<1>1. /\ copying = Idle /\ copying' = Idle /\ lists[l] = NULL
      /\ lists' = [lists EXCEPT ![l] = empty]
      /\ lists \in [ListIds -> List \cup {NULL}]
      /\ returned' = returned
  BY DEF list_new, IInv, TypeOK
<1>2. \A m \in ListIds \ {l} : Contents(m)' = Contents(m)
  BY <1>1 DEF Contents
<1>3. lists'[l] = empty
  BY <1>1
<1>4. empty \in List
  BY EmptySeq DEF List
<1>5. empty # NULL
  BY <1>4, ListIsNotNull
<1>6. Contents(l)' = SubSeq(<<>>, 1, 0)
  BY <1>1, <1>3, <1>5 DEF Contents
<1>7. Contents(l)' = <<>>
  BY <1>6, SubSeqEmpty
<1>8. Contents(l) = NULL
  BY <1>1 DEF Contents
<1>9. contents' = [contents EXCEPT ![l] = <<>>]
  BY <1>2, <1>7 DEF contents
<1> QED
  BY <1>1, <1>8, <1>9 DEF C!New, contents

(* list_append is Push.                                                    *)
LEMMA AppendSimulates ==
  ASSUME IInv, NEW l \in ListIds, NEW x \in Elems, CallAppend(l, x)
  PROVE  C!Push(l, x)
<1> DEFINE longer == list_append(lists[l], x)
<1>1. /\ copying = Idle /\ copying' = Idle /\ lists[l] # NULL
      /\ lists' = [lists EXCEPT ![l] = longer]
      /\ lists \in [ListIds -> List \cup {NULL}]
      /\ returned' = lists[l].len
  BY DEF CallAppend, IInv, TypeOK
<1>2. Good(lists[l]) /\ lists[l].len \in Nat
  BY <1>1, GoodLists DEF IInv, Good, List
<1>3. Good(longer) /\ longer.len = lists[l].len + 1
  BY <1>2, AppendIsGood
<1>4. SubSeq(longer.data, 1, lists[l].len + 1)
        = Append(SubSeq(lists[l].data, 1, lists[l].len), x)
  BY <1>2, AppendedContents
<1>5. longer # NULL
  BY <1>3, ListIsNotNull DEF Good
<1> HIDE DEF longer
<1>6. lists'[l] = longer /\ \A m \in ListIds \ {l} : lists'[m] = lists[m]
  BY <1>1
<1>7. \A m \in ListIds \ {l} : Contents(m)' = Contents(m)
  BY <1>1, <1>6 DEF Contents
<1>8. Contents(l) = SubSeq(lists[l].data, 1, lists[l].len)
  BY <1>1, <1>2 DEF Contents
<1>9. Contents(l)' = SubSeq(longer.data, 1, lists[l].len + 1)
  BY <1>1, <1>2, <1>3, <1>5, <1>6 DEF Contents
<1>10. contents' = [contents EXCEPT ![l] = Append(@, x)]
  BY <1>4, <1>7, <1>8, <1>9 DEF contents
<1>11. Len(Contents(l)) = lists[l].len
  BY <1>2, <1>8, PrefixOfList
<1>12. Contents(l) # NULL
  BY <1>1, ContentsNotNull
<1> QED
  BY <1>1, <1>10, <1>11, <1>12 DEF C!Push, contents

(* The call of list_concat changes no contents yet.                        *)
LEMMA CallConcatStutters ==
  ASSUME IInv, NEW l \in ListIds, NEW other \in ListIds, CallConcat(l, other)
  PROVE  contents' = contents /\ returned' = returned
<1>1. /\ copying = Idle /\ copying'.i = 0
      /\ lists' = lists /\ returned' = returned
  BY DEF CallConcat
<1>2. \A m \in ListIds : Contents(m)' = Contents(m)
  BY <1>1 DEF Contents
<1> QED
  BY <1>1, <1>2 DEF contents

(* Nor does a round of its loop: what it adds is not counted yet.          *)
LEMMA ConcatStepStutters ==
  ASSUME IInv, ConcatStep
  PROVE  contents' = contents /\ returned' = returned
<1> SUFFICES ASSUME NEW l, NEW o, NEW i,
                    l = copying.list, o = copying.other, i = copying.i
             PROVE  contents' = contents /\ returned' = returned
  OBVIOUS
<1> DEFINE x      == lists[o].data[i + 1]
           longer == list_append(lists[l], x)
<1>1. /\ l \in ListIds /\ o \in ListIds /\ i \in Nat /\ x \in Elems
      /\ Good(lists[l])
  BY CopiedElement DEF ConcatStep
<1>2. /\ copying \in Copy /\ copying # Idle /\ i <= lists[l].len
      /\ lists[l] # NULL
  BY DEF ConcatStep, IInv, TypeOK, Copied
<1>3. /\ lists' = [lists EXCEPT ![l] = longer]
      /\ lists \in [ListIds -> List \cup {NULL}]
      /\ copying' = [copying EXCEPT !.i = i + 1]
      /\ returned' = returned
  BY DEF ConcatStep, IInv, TypeOK
<1>4. copying' \in Copy /\ copying'.list = l /\ copying'.i = i + 1
  BY <1>1, <1>2, <1>3 DEF Copy
<1>5. copying' # Idle
  BY <1>4, ListsAssumption DEF Copy
<1> HIDE DEF x
<1>6. /\ Good(longer) /\ longer.len = lists[l].len + 1
      /\ \A k \in 1 .. lists[l].len : longer.data[k] = lists[l].data[k]
  BY <1>1, AppendIsGood
<1>7. longer # NULL /\ lists[l].len \in Nat /\ longer.len \in Nat
  BY <1>1, <1>6, ListIsNotNull DEF Good, List
<1> HIDE DEF longer
<1>8. lists'[l] = longer /\ \A m \in ListIds \ {l} : lists'[m] = lists[m]
  BY <1>1, <1>3
<1> DEFINE n == lists[l].len - i
<1>9. n \in Nat /\ n <= lists[l].len /\ n <= longer.len /\ longer.len - (i + 1) = n
  BY <1>1, <1>2, <1>6, <1>7
<1>10. Contents(l) = SubSeq(lists[l].data, 1, n)
  BY <1>2 DEF Contents
<1> HIDE DEF n
<1>11. Contents(l)' = SubSeq(longer.data, 1, n)
  <2>1. Contents(l)' = SubSeq(longer.data, 1, longer.len - (i + 1))
    BY <1>4, <1>5, <1>7, <1>8 DEF Contents
  <2> QED
    BY <1>9, <2>1
<1>12. \A k \in 1 .. n : longer.data[k] = lists[l].data[k]
  BY <1>6, <1>7, <1>9
<1>13. Contents(l)' = Contents(l)
  BY <1>1, <1>6, <1>9, <1>10, <1>11, <1>12, SamePrefix
<1>14. \A m \in ListIds \ {l} : Contents(m)' = Contents(m)
  BY <1>2, <1>4, <1>5, <1>8 DEF Contents
<1>15. \A m \in ListIds : Contents(m)' = Contents(m)
  BY <1>13, <1>14
<1> QED
  BY <1>3, <1>15 DEF contents

(* The return of list_concat is Concat: all of the other list is there.    *)
LEMMA ConcatReturnsSimulates ==
  ASSUME IInv, ConcatReturns
  PROVE  \E l, other \in ListIds : C!Concat(l, other)
<1> SUFFICES ASSUME NEW l, NEW o, NEW i,
                    l = copying.list, o = copying.other, i = copying.i
             PROVE  \E m, other \in ListIds : C!Concat(m, other)
  OBVIOUS
<1>1. copying \in Copy /\ copying # Idle /\ copying' = Idle
  BY DEF ConcatReturns, IInv, TypeOK
<1>2. /\ l \in ListIds /\ o \in ListIds /\ i \in Nat /\ l # o
      /\ lists[l] # NULL /\ lists[o] # NULL
      /\ i <= lists[l].len /\ i <= lists[o].len
      /\ \A k \in 1 .. i : lists[l].data[lists[l].len - i + k] = lists[o].data[k]
  BY <1>1 DEF IInv, Copied, Copy
<1>3. Good(lists[l]) /\ Good(lists[o])
  BY <1>2, GoodLists DEF IInv
<1>4. lists[l].len \in Nat /\ lists[o].len \in Nat
  BY <1>3 DEF Good, List
<1>5. i = lists[o].len
  BY <1>2, <1>4 DEF ConcatReturns, InLoop
<1>6. lists' = lists /\ returned' = lists[l].len - 1
  BY DEF ConcatReturns
<1>7. /\ Contents(l) = SubSeq(lists[l].data, 1, lists[l].len - i)
      /\ Contents(o) = SubSeq(lists[o].data, 1, lists[o].len)
  <2>1. Contents(l) = SubSeq(lists[l].data, 1, lists[l].len - i)
    BY <1>1, <1>2, Zenon DEF Contents
  <2>2. Contents(o) = SubSeq(lists[o].data, 1, lists[o].len - 0)
    BY <1>1, <1>2, Zenon DEF Contents
  <2>3. lists[o].len - 0 = lists[o].len
    BY <1>4
  <2> QED
    BY <2>1, <2>2, <2>3, Zenon
<1>8. Contents(l)' = SubSeq(lists[l].data, 1, lists[l].len)
  <2>1. Contents(l)' = SubSeq(lists[l].data, 1, lists[l].len - 0)
    BY <1>1, <1>2, <1>6, Zenon DEF Contents
  <2>2. lists[l].len - 0 = lists[l].len
    BY <1>4
  <2> QED
    BY <2>1, <2>2, Zenon
<1>9. Contents(l)' = Contents(l) \o Contents(o)
  <2>1. /\ lists[o].len <= lists[l].len
        /\ \A k \in 1 .. lists[o].len :
             lists[l].data[lists[l].len - lists[o].len + k] = lists[o].data[k]
    BY <1>2, <1>5
  <2>2. SubSeq(lists[l].data, 1, lists[l].len)
          = SubSeq(lists[l].data, 1, lists[l].len - lists[o].len)
              \o SubSeq(lists[o].data, 1, lists[o].len)
    BY <1>3, <2>1, ConcatenatedContents
  <2> QED
    BY <1>5, <1>7, <1>8, <2>2, Zenon
<1>10. \A m \in ListIds \ {l} : Contents(m)' = Contents(m)
  BY <1>1, <1>6 DEF Contents
<1>11. contents' = [contents EXCEPT ![l] = @ \o contents[o]]
  BY <1>2, <1>9, <1>10 DEF contents
<1>12. /\ Len(Contents(l)) = lists[l].len - i
       /\ Len(Contents(o)) = lists[o].len
  <2>1. lists[l].len - i \in 0 .. lists[l].len /\ lists[o].len \in 0 .. lists[o].len
    BY <1>2, <1>4
  <2> QED
    BY <1>3, <1>7, <2>1, PrefixOfList
<1>13. returned' = Len(Contents(l)) + Len(Contents(o)) - 1
  BY <1>2, <1>4, <1>5, <1>6, <1>12
<1>14. Contents(l) # NULL /\ Contents(o) # NULL
  BY <1>2, ContentsNotNull
<1>15. C!Concat(l, o)
  BY <1>2, <1>11, <1>13, <1>14 DEF C!Concat, contents
<1> QED
  BY <1>2, <1>15

(* Every step of Lists is a step of Collections or leaves its state alone. *)
LEMMA StepSimulates ==
  ASSUME IInv, [Next]_vars
  PROVE  C!Next \/ (contents' = contents /\ returned' = returned)
<1>1. CASE UNCHANGED vars
  <2>1. \A m \in ListIds : Contents(m)' = Contents(m)
    BY <1>1 DEF vars, Contents
  <2> QED
    BY <1>1, <2>1 DEF vars, contents
<1>2. ASSUME NEW l \in ListIds, list_new(l)
      PROVE  C!Next
  BY <1>2, NewSimulates DEF C!Next
<1>3. ASSUME NEW l \in ListIds, NEW x \in Elems, CallAppend(l, x)
      PROVE  C!Next
  BY <1>3, AppendSimulates DEF C!Next
<1>4. CASE \E l, other \in ListIds : CallConcat(l, other)
  BY <1>4, CallConcatStutters
<1>5. CASE ConcatStep
  BY <1>5, ConcatStepStutters
<1>6. CASE ConcatReturns
  BY <1>6, ConcatReturnsSimulates DEF C!Next
<1> QED
  BY <1>1, <1>2, <1>3, <1>4, <1>5, <1>6 DEF Next

(* The growing arrays of util.c are sequences: a list_append, and a whole  *)
(* list_concat round by round, do to the elements what the sequence        *)
(* operations do, and an index that was returned keeps naming its element. *)
THEOREM ListsImplementCollections == Spec => ImplementsCollections
<1>1. Init => C!Init
  BY InitSimulates DEF C!Init, contents
<1>2. IInv /\ [Next]_vars => [C!Next]_<<contents, returned>>
  BY StepSimulates
<1>3. IInv /\ [Next]_vars
        => [C!Next]_<<[l \in ListIds |-> Contents(l)], returned>>
  BY <1>2 DEF contents
<1> QED
  BY <1>1, <1>3, InvariantHolds, PTL DEF Spec, ImplementsCollections, C!Spec
=============================================================================
