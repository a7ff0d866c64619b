---------------------------- MODULE ParserProofs ----------------------------
(***************************************************************************)
(* Theorems about Parser, for every program: no bound of the model is used *)
(* beyond being a natural number.                                          *)
(***************************************************************************)
EXTENDS Parser, SequencePositions

-----------------------------------------------------------------------------
(* Lists of variables: what add_var and the merge of scope_pop preserve,   *)
(* and what a laid-out list means for the bytes of a frame.                *)

(* The slot of a size holds it and is a whole number of double words.      *)
LEMMA RoundupProperties ==
  ASSUME NEW size \in Nat
  PROVE  /\ roundup_to_dword(size) \in Nat
         /\ roundup_to_dword(size) % 8 = 0
         /\ size <= roundup_to_dword(size)
BY DEF roundup_to_dword

LEMMA SizeType ==
  ASSUME NEW type \in Types
  PROVE  /\ SizeOf[type] \in Nat
         /\ roundup_to_dword(SizeOf[type]) \in Nat
         /\ roundup_to_dword(SizeOf[type]) % 8 = 0
         /\ SizeOf[type] <= roundup_to_dword(SizeOf[type])
BY VarsAssumption, RoundupProperties

LEMMA LastOffsetType ==
  ASSUME NEW list \in Seq(Var)
  PROVE  LastOffset(list) \in Nat
<1>1. CASE list = <<>>
  BY <1>1 DEF LastOffset
<1>2. CASE list # <<>>
  <2>1. Len(list) \in 1 .. Len(list)
    BY <1>2, EmptySeq, LenProperties
  <2>2. list[Len(list)] \in Var
    BY <2>1, ElementOfSeq
  <2> QED
    BY <1>2, <2>2 DEF LastOffset, Var
<1> QED
  BY <1>1, <1>2

LEMMA AddVarType ==
  ASSUME NEW list \in Seq(Var), NEW name \in Names, NEW type \in Types,
         NEW id \in Nat
  PROVE  add_var(list, name, type, id) \in Seq(Var)
<1>1. LastOffset(list) + roundup_to_dword(SizeOf[type]) \in Nat
  BY LastOffsetType, SizeType
<1> QED
  BY <1>1, AppendProperties DEF add_var, Var

LEMMA ShiftType ==
  ASSUME NEW list \in Seq(Var), NEW distance \in Nat
  PROVE  /\ Shift(list, distance) \in Seq(Var)
         /\ Len(Shift(list, distance)) = Len(list)
         /\ \A i \in 1 .. Len(list) :
              Shift(list, distance)[i] =
                [list[i] EXCEPT !.offset = list[i].offset + distance]
<1>1. Len(list) \in Nat
  BY LenProperties
<1>2. ASSUME NEW i \in 1 .. Len(list)
      PROVE  [list[i] EXCEPT !.offset = list[i].offset + distance] \in Var
  <2>1. list[i] \in Var
    BY ElementOfSeq
  <2>2. list[i].offset + distance \in Nat
    BY <2>1 DEF Var
  <2> QED
    BY <2>1, <2>2, Zenon DEF Var
<1> QED
  BY <1>1, <1>2, IsASeq DEF Shift

-----------------------------------------------------------------------------
(* The last variable of a laid-out list lies deepest.                      *)
LEMMA LastIsDeepest ==
  ASSUME NEW list \in Seq(Var), LaidOut(list), NEW i \in 1 .. Len(list)
  PROVE  list[i].offset <= LastOffset(list)
<1> DEFINE n == Len(list)
<1>1. n \in Nat /\ n \in 1 .. n /\ list # <<>>
  BY LenProperties, EmptySeq
<1>2. list[i] \in Var /\ list[n] \in Var
  BY <1>1, ElementOfSeq
<1>3. LastOffset(list) = list[n].offset
  BY <1>1 DEF LastOffset
<1>4. list[n].type \in Types /\ list[i].offset \in Nat /\ list[n].offset \in Nat
  BY <1>2 DEF Var
<1>5. CASE i = n
  BY <1>3, <1>4, <1>5
<1>6. CASE i # n
  <2>1. i \in 1 .. (n - 1)
    BY <1>1, <1>6
  <2>2. list[i].offset + roundup_to_dword(SizeOf[list[n].type])
          <= list[n].offset
    BY <1>1, <2>1 DEF LaidOut
  <2> DEFINE round == roundup_to_dword(SizeOf[list[n].type])
  <2>3. round \in Nat
    BY <1>4, SizeType
  <2>4. list[i].offset + round <= list[n].offset
    BY <2>2
  <2> HIDE DEF n, round
  <2> QED
    BY <1>3, <1>4, <2>3, <2>4
<1> QED
  BY <1>5, <1>6

(* add_var puts the new variable below all the others.                     *)
LEMMA AddVarLaidOut ==
  ASSUME NEW list \in Seq(Var), LaidOut(list),
         NEW name \in Names, NEW type \in Types, NEW id \in Nat
  PROVE  LaidOut(add_var(list, name, type, id))
<1> DEFINE new  == add_var(list, name, type, id)
           n    == Len(list)
           size == roundup_to_dword(SizeOf[type])
<1>1. n \in Nat /\ size \in Nat /\ size % 8 = 0 /\ LastOffset(list) \in Nat
  BY LenProperties, SizeType, LastOffsetType
<1>2. /\ Len(new) = n + 1
      /\ \A i \in 1 .. n : new[i] = list[i]
      /\ new[n + 1].offset = LastOffset(list) + size
      /\ new[n + 1].type = type
  BY AppendProperties DEF add_var
<1>3. LastOffset(list) % 8 = 0
  <2>1. CASE n = 0
    BY <2>1, EmptySeq DEF LastOffset
  <2>2. CASE n # 0
    BY <1>1, <2>2, EmptySeq DEF LastOffset, LaidOut
  <2> QED
    BY <2>1, <2>2
<1>4. \A j \in 1 .. n : list[j].offset \in Nat /\ list[j].offset <= LastOffset(list)
  <2> TAKE j \in 1 .. n
  <2>1. list[j] \in Var
    BY ElementOfSeq
  <2> QED
    BY <2>1, LastIsDeepest DEF Var
<1>5. ASSUME NEW k \in 1 .. (n + 1)
      PROVE  /\ new[k].offset % 8 = 0
             /\ roundup_to_dword(SizeOf[new[k].type]) <= new[k].offset
             /\ \A j \in 1 .. (k - 1) :
                  new[j].offset + roundup_to_dword(SizeOf[new[k].type])
                    <= new[k].offset
  <2>1. CASE k \in 1 .. n
    <3>1. \A j \in 1 .. (k - 1) : new[j] = list[j]
      BY <1>1, <1>2, <2>1
    <3> QED
      BY <1>2, <2>1, <3>1 DEF LaidOut
  <2>2. CASE k = n + 1
    <3>1. \A j \in 1 .. (k - 1) : j \in 1 .. n
      BY <1>1, <2>2
    <3> HIDE DEF new, n, size
    <3>2. (LastOffset(list) + size) % 8 = 0
      BY <1>1, <1>3
    <3>3. roundup_to_dword(SizeOf[new[k].type]) = size
      BY <1>2, <2>2 DEF size
    <3>4. new[k].offset = LastOffset(list) + size
      BY <1>2, <2>2
    <3>5. ASSUME NEW j \in 1 .. (k - 1)
          PROVE  new[j].offset + size <= new[k].offset
      <4>1. j \in 1 .. n /\ new[j] = list[j]
        BY <1>2, <3>1
      <4>2. list[j].offset \in Nat /\ list[j].offset <= LastOffset(list)
        BY <1>4, <4>1
      <4>3. list[j].offset + size <= LastOffset(list) + size
        BY <1>1, <4>2
      <4> QED
        BY <3>4, <4>1, <4>3
    <3> QED
      BY <1>1, <3>2, <3>3, <3>4, <3>5
  <2> QED
    BY <1>1, <2>1, <2>2
<1> QED
  BY <1>2, <1>5 DEF LaidOut

(* scope_pop: the variables of a scope, moved below those of its parent,   *)
(* continue the parent's layout.                                           *)
LEMMA MergeLaidOut ==
  ASSUME NEW outer \in Seq(Var), LaidOut(outer),
         NEW inner \in Seq(Var), LaidOut(inner)
  PROVE  /\ outer \o Shift(inner, LastOffset(outer)) \in Seq(Var)
         /\ LaidOut(outer \o Shift(inner, LastOffset(outer)))
<1> DEFINE depth == LastOffset(outer)
           low   == Shift(inner, depth)
           all   == outer \o low
           n     == Len(outer)
           m     == Len(inner)
<1>1. n \in Nat /\ m \in Nat /\ depth \in Nat
  BY LenProperties, LastOffsetType
<1>2. /\ low \in Seq(Var) /\ Len(low) = m
      /\ \A i \in 1 .. m :
           low[i] = [inner[i] EXCEPT !.offset = inner[i].offset + depth]
  BY <1>1, ShiftType
<1>3. /\ all \in Seq(Var) /\ Len(all) = n + m
      /\ \A i \in 1 .. n : all[i] = outer[i]
      /\ \A i \in 1 .. m : all[n + i] = low[i]
  <2>1. /\ all \in Seq(Var) /\ Len(all) = n + m
        /\ \A i \in 1 .. Len(all) :
             all[i] = IF i <= n THEN outer[i] ELSE low[i - n]
    BY <1>2, ConcatProperties
  <2> HIDE DEF all, low, depth, n, m
  <2>2. ASSUME NEW i \in 1 .. n
        PROVE  all[i] = outer[i]
    BY <1>1, <2>1
  <2>3. ASSUME NEW i \in 1 .. m
        PROVE  all[n + i] = low[i]
    <3>1. n + i \in 1 .. Len(all) /\ ~ (n + i <= n) /\ (n + i) - n = i
      BY <1>1, <2>1
    <3> QED
      BY <2>1, <3>1
  <2> QED
    BY <2>1, <2>2, <2>3
<1>4. \A i \in 1 .. m : /\ inner[i].offset \in Nat
                        /\ inner[i].type \in Types
                        /\ all[n + i].offset = inner[i].offset + depth
                        /\ all[n + i].type = inner[i].type
  <2> TAKE i \in 1 .. m
  <2>1. inner[i] \in Var
    BY ElementOfSeq
  <2>2. all[n + i] = [inner[i] EXCEPT !.offset = inner[i].offset + depth]
    BY <1>2, <1>3
  <2> QED
    BY <2>1, <2>2 DEF Var
<1>5. \A i \in 1 .. n : outer[i].offset \in Nat /\ outer[i].offset <= depth
  <2> TAKE i \in 1 .. n
  <2>1. outer[i] \in Var
    BY ElementOfSeq
  <2> QED
    BY <2>1, LastIsDeepest DEF Var
<1>6. depth % 8 = 0
  <2>1. CASE n = 0
    BY <2>1, EmptySeq DEF LastOffset
  <2>2. CASE n # 0
    BY <1>1, <2>2, EmptySeq DEF LastOffset, LaidOut
  <2> QED
    BY <2>1, <2>2
<1> HIDE DEF depth, low, all, n, m
<1>7. ASSUME NEW k \in 1 .. (n + m)
      PROVE  /\ all[k].offset % 8 = 0
             /\ roundup_to_dword(SizeOf[all[k].type]) <= all[k].offset
             /\ \A j \in 1 .. (k - 1) :
                  all[j].offset + roundup_to_dword(SizeOf[all[k].type])
                    <= all[k].offset
  <2>1. CASE k \in 1 .. n
    <3>1. \A j \in 1 .. (k - 1) : j \in 1 .. n /\ all[j] = outer[j]
      <4> TAKE j \in 1 .. (k - 1)
      <4>1. j \in 1 .. n
        BY <1>1, <2>1
      <4> QED
        BY <1>3, <4>1
    <3> QED
      BY <1>3, <2>1, <3>1 DEF LaidOut, n
  <2>2. CASE k \notin 1 .. n
    <3> DEFINE i    == k - n
               size == roundup_to_dword(SizeOf[inner[i].type])
    <3>1. i \in 1 .. m /\ k = n + i
      BY <1>1, <2>2
    <3>2. /\ inner[i].offset \in Nat /\ inner[i].type \in Types
          /\ all[k].offset = inner[i].offset + depth
          /\ all[k].type = inner[i].type
      BY <1>4, <3>1
    <3>3. size \in Nat
      BY <3>2, SizeType
    <3>4. /\ inner[i].offset % 8 = 0
          /\ size <= inner[i].offset
          /\ \A j \in 1 .. (i - 1) :
               inner[j].offset + size <= inner[i].offset
      BY <3>1 DEF LaidOut, m
    <3> HIDE DEF i, size
    <3> DEFINE off == inner[i].offset
    <3>8. off \in Nat /\ depth \in Nat
          /\ off % 8 = 0 /\ depth % 8 = 0 /\ size <= off
      BY <1>1, <1>6, <3>2, <3>4
    <3>9. all[k].offset = off + depth
      BY <3>2
    <3> HIDE DEF off
    <3>10. (off + depth) % 8 = 0 /\ size <= off + depth
      BY <3>3, <3>8
    <3>5. all[k].offset % 8 = 0
      BY <3>9, <3>10
    <3>6. size <= all[k].offset
      BY <3>9, <3>10
    <3>7. ASSUME NEW j \in 1 .. (k - 1)
          PROVE  all[j].offset + size <= all[k].offset
      <4>1. CASE j \in 1 .. n
        <5>1. all[j].offset \in Nat /\ all[j].offset <= depth
          BY <1>3, <1>5, <4>1
        <5> DEFINE above == all[j].offset
        <5>2. above \in Nat /\ above <= depth
          BY <5>1
        <5> HIDE DEF above
        <5>3. above + size <= off + depth
          BY <3>3, <3>8, <5>2
        <5> QED
          BY <3>9, <5>3 DEF above
      <4>2. CASE j \notin 1 .. n
        <5>1. (j - n) \in 1 .. m /\ (j - n) \in 1 .. (i - 1) /\ j = n + (j - n)
          BY <1>1, <3>1, <4>2
        <5>2. /\ inner[j - n].offset \in Nat
              /\ all[j].offset = inner[j - n].offset + depth
          BY <1>4, <5>1
        <5>3. inner[j - n].offset + size <= inner[i].offset
          BY <3>4, <5>1
        <5> DEFINE above == inner[j - n].offset
        <5>4. above \in Nat /\ above + size <= off /\ all[j].offset = above + depth
          BY <5>2, <5>3 DEF off
        <5> HIDE DEF above
        <5>5. above + depth + size <= off + depth
          BY <3>3, <3>8, <5>4
        <5> QED
          BY <3>9, <5>4, <5>5
      <4> QED
        BY <4>1, <4>2
    <3> QED
      BY <3>2, <3>5, <3>6, <3>7 DEF size
  <2> QED
    BY <2>1, <2>2
<1> QED
  BY <1>3, <1>7 DEF LaidOut, all, low, depth

(* In a laid-out list no two variables share a byte, and all lie within    *)
(* the bytes its last offset reserves.                                     *)
LEMMA LaidOutDisjoint ==
  ASSUME NEW list \in Seq(Var), LaidOut(list),
         NEW j \in 1 .. Len(list), NEW k \in 1 .. Len(list)
  PROVE  /\ Slot(list[k]) \subseteq 1 .. LastOffset(list)
         /\ j # k => Slot(list[j]) \cap Slot(list[k]) = {}
<1>1. Len(list) \in Nat /\ LastOffset(list) \in Nat
  BY LenProperties, LastOffsetType
<1>2. ASSUME NEW i \in 1 .. Len(list)
      PROVE  /\ list[i].offset \in Nat
             /\ list[i].offset <= LastOffset(list)
             /\ SizeOf[list[i].type] \in Nat
             /\ roundup_to_dword(SizeOf[list[i].type]) \in Nat
             /\ SizeOf[list[i].type] <= roundup_to_dword(SizeOf[list[i].type])
             /\ roundup_to_dword(SizeOf[list[i].type]) <= list[i].offset
  <2>1. list[i] \in Var
    BY ElementOfSeq
  <2>2. list[i].offset \in Nat /\ list[i].type \in Types
    BY <2>1 DEF Var
  <2> QED
    BY <2>2, SizeType, LastIsDeepest DEF LaidOut
<1>3. ASSUME NEW a \in 1 .. Len(list), NEW b \in 1 .. Len(list), a < b
      PROVE  Slot(list[a]) \cap Slot(list[b]) = {}
  <2>1. list[a].offset + roundup_to_dword(SizeOf[list[b].type])
          <= list[b].offset
    <3>1. a \in 1 .. (b - 1)
      BY <1>1, <1>3
    <3> QED
      BY <3>1 DEF LaidOut
  <2> DEFINE round == roundup_to_dword(SizeOf[list[b].type])
  <2>2. /\ list[a].offset \in Nat /\ list[b].offset \in Nat
        /\ SizeOf[list[b].type] \in Nat /\ round \in Nat
        /\ SizeOf[list[b].type] <= round
        /\ list[a].offset + round <= list[b].offset
    BY <1>2, <2>1
  <2> HIDE DEF round
  <2>3. list[a].offset < list[b].offset - SizeOf[list[b].type] + 1
    BY <2>2
  <2> QED
    BY <1>2, <2>3 DEF Slot
<1>4. Slot(list[k]) \subseteq 1 .. LastOffset(list)
  BY <1>1, <1>2 DEF Slot
<1>5. ASSUME j # k
      PROVE  Slot(list[j]) \cap Slot(list[k]) = {}
  <2>1. CASE j < k
    BY <1>3, <2>1
  <2>2. CASE k < j
    BY <1>3, <2>2
  <2> QED
    BY <1>1, <1>5, <2>1, <2>2
<1> QED
  BY <1>4, <1>5

-----------------------------------------------------------------------------
(* Looking a name up                                                       *)

(* The scope has declared the name itself.                                 *)
DeclaresName(scope, name) ==
  \E j \in 1 .. Len(scope.locals) :
    IsDeclaredAs(scope.locals[j], scope.id, name)

LEMMA FindVarIs ==
  ASSUME NEW chain \in Seq(Scope), NEW name
  PROVE  \/ /\ find_var_in_curr_scope(chain, name) = NoVar
            /\ \A i \in 1 .. Len(chain) : ~ DeclaresName(chain[i], name)
         \/ \E k \in 1 .. Len(chain) :
              /\ DeclaresName(chain[k], name)
              /\ \A i \in 1 .. Len(chain) :
                   DeclaresName(chain[i], name) => i <= k
              /\ \E j \in 1 .. Len(chain[k].locals) :
                   /\ find_var_in_curr_scope(chain, name) = chain[k].locals[j]
                   /\ IsDeclaredAs(chain[k].locals[j], chain[k].id, name)
<1> DEFINE I == {i \in 1 .. Len(chain) :
                   \E j \in 1 .. Len(chain[i].locals) :
                     IsDeclaredAs(chain[i].locals[j], chain[i].id, name)}
           k == Max(I)
           J == {j \in 1 .. Len(chain[k].locals) :
                   IsDeclaredAs(chain[k].locals[j], chain[k].id, name)}
<1>1. CASE I = {}
  <2>1. find_var_in_curr_scope(chain, name) = NoVar
    BY <1>1 DEF find_var_in_curr_scope, SelectLastInSeq
  <2>2. \A i \in 1 .. Len(chain) : ~ DeclaresName(chain[i], name)
    BY <1>1, Zenon DEF DeclaresName
  <2> QED
    BY <2>1, <2>2, Zenon
<1>2. CASE I # {}
  <2>1. Len(chain) \in Nat /\ k \in I /\ \A i \in I : i <= k
    <3>1. Len(chain) \in Nat /\ I \in SUBSET (1 .. Len(chain))
      BY LenProperties
    <3> HIDE DEF I
    <3> QED
      BY <1>2, <3>1, MaxOfInterval
  <2>2. chain[k] \in Scope
    BY <2>1, ElementOfSeq
  <2>3. chain[k].locals \in Seq(Var) /\ Len(chain[k].locals) \in Nat
    BY <2>2, LenProperties DEF Scope
  <2>4. J # {}
    BY <2>1
  <2>5. Min(J) \in J
    <3>1. J \in SUBSET Nat
      BY <2>3
    <3> HIDE DEF J
    <3> QED
      BY <2>4, <3>1, MinOfInterval
  <2>6. find_var_in_curr_scope(chain, name) = chain[k].locals[Min(J)]
    <3>1. k # 0
      BY <2>1
    <3> QED
      BY <1>2, <2>4, <3>1, Zenon
         DEF find_var_in_curr_scope, SelectLastInSeq, SelectInSeq
  <2>7. /\ k \in 1 .. Len(chain) /\ DeclaresName(chain[k], name)
        /\ \A i \in 1 .. Len(chain) : DeclaresName(chain[i], name) => i <= k
    BY <2>1 DEF DeclaresName
  <2> QED
    BY <2>5, <2>6, <2>7, Zenon
<1> HIDE DEF I
<1> QED
  BY <1>1, <1>2, Zenon

LEMMA FindVarType ==
  ASSUME NEW chain \in Seq(Scope), NEW name
  PROVE  find_var_in_curr_scope(chain, name) \in Var \cup {NoVar}
<1> DEFINE var == find_var_in_curr_scope(chain, name)
<1>1. ASSUME NEW k \in 1 .. Len(chain), NEW j \in 1 .. Len(chain[k].locals),
             var = chain[k].locals[j]
      PROVE  var \in Var
  <2>1. chain[k] \in Scope
    BY ElementOfSeq
  <2>2. chain[k].locals \in Seq(Var)
    BY <2>1 DEF Scope
  <2> QED
    BY <1>1, <2>2, ElementOfSeq
<1> HIDE DEF var
<1>2. \/ var = NoVar
      \/ \E k \in 1 .. Len(chain) :
           \E j \in 1 .. Len(chain[k].locals) : var = chain[k].locals[j]
  BY FindVarIs DEF var
<1> QED
  BY <1>1, <1>2 DEF var

-----------------------------------------------------------------------------
(* Expressions                                                             *)

LEMMA LocalsOfType ==
  ASSUME NEW chain \in Seq(Scope), NEW e \in Expressions
  PROVE  LocalsOf(chain, e) \subseteq Use
<1> DEFINE var == find_var_in_curr_scope(chain, e.name)
<1>1. CASE e.kind = "IDENT" /\ var # NoVar
  <2>1. e \in [kind : {"IDENT"}, name : Names]
    BY <1>1, ParserAssumption DEF Expr
  <2>2. e.name \in Names
    BY <2>1
  <2>3. var \in Var
    BY <1>1, <2>2, FindVarType
  <2>4. var.scope_id \in Nat
    BY <2>3 DEF Var
  <2> QED
    BY <1>1, <2>2, <2>4 DEF LocalsOf, Use
<1>2. CASE ~ (e.kind = "IDENT" /\ var # NoVar)
  BY <1>2 DEF LocalsOf
<1> QED
  BY <1>1, <1>2

LEMMA CondsType ==
  ASSUME NEW e
  PROVE  Conds(e) \in Seq(Labelled)
BY DEF Conds, Labelled

LEMMA NewNodesType ==
  ASSUME label_index \in Nat, nodes \in Seq(Node),
         NEW kinds \in Seq(Labelled), NewNodes(kinds)
  PROVE  label_index' \in Nat /\ nodes' \in Seq(Node)
<1> DEFINE new == [i \in 1 .. Len(kinds) |->
                     [kind |-> kinds[i], label |-> label_index + i]]
<1>1. Len(kinds) \in Nat
  BY LenProperties
<1>2. \A i \in 1 .. Len(kinds) :
        [kind |-> kinds[i], label |-> label_index + i] \in Node
  <2> TAKE i \in 1 .. Len(kinds)
  <2>1. kinds[i] \in Labelled /\ label_index + i \in Nat
    BY ElementOfSeq, <1>1
  <2> QED
    BY <2>1 DEF Node
<1>3. new \in Seq(Node)
  BY <1>1, <1>2, IsASeq
<1>4. nodes' = nodes \o new
  BY DEF NewNodes
<1> HIDE DEF new
<1>5. nodes' \in Seq(Node)
  BY <1>3, <1>4, ConcatProperties
<1>6. label_index' \in Nat
  BY <1>1 DEF NewNodes
<1> QED
  BY <1>5, <1>6

LEMMA ExprType ==
  ASSUME label_index \in Nat, nodes \in Seq(Node), uses \subseteq Use,
         NEW chain \in Seq(Scope), NEW kinds \in Seq(Labelled),
         NEW e \in Expressions, parse_expr(chain, kinds, e)
  PROVE  label_index' \in Nat /\ nodes' \in Seq(Node) /\ uses' \subseteq Use
<1>1. kinds \o Conds(e) \in Seq(Labelled)
  BY CondsType, ConcatProperties
<1>2. label_index' \in Nat /\ nodes' \in Seq(Node)
  BY <1>1, NewNodesType DEF parse_expr
<1>3. uses' \subseteq Use
  BY LocalsOfType DEF parse_expr
<1> QED
  BY <1>2, <1>3

-----------------------------------------------------------------------------
(* The scope chain                                                         *)

AllLaidOut(chain) == \A i \in 1 .. Len(chain) : LaidOut(chain[i].locals)

(* What a declaration does to the chain: only the innermost list grows.    *)
LEMMA AddLocalIs ==
  ASSUME NEW chain \in Seq(Scope), Len(chain) >= 1,
         NEW name \in Names, NEW type \in Types
  PROVE  LET n   == Len(chain)
             res == AddLocal(chain, name, type)
         IN  /\ res \in Seq(Scope)
             /\ Len(res) = n
             /\ \A i \in 1 .. n - 1 : res[i] = chain[i]
             /\ res[n] = [chain[n] EXCEPT
                            !.locals = add_var(chain[n].locals, name, type,
                                               chain[n].id)]
<1> DEFINE n   == Len(chain)
           new == [chain[n] EXCEPT
                     !.locals = add_var(chain[n].locals, name, type,
                                        chain[n].id)]
           res == AddLocal(chain, name, type)
<1>1. n \in Nat /\ n \in 1 .. n
  BY LenProperties
<1>2. chain[n] \in Scope
  BY <1>1, ElementOfSeq
<1>3. chain[n].locals \in Seq(Var) /\ chain[n].id \in Nat
  BY <1>2 DEF Scope
<1>4. add_var(chain[n].locals, name, type, chain[n].id) \in Seq(Var)
  BY <1>3, AddVarType
<1>5. new \in Scope
  BY <1>2, <1>4, Zenon DEF Scope
<1>6. res = [chain EXCEPT ![n] = new]
  BY DEF AddLocal
<1> HIDE DEF new
<1>7. /\ res \in Seq(Scope) /\ Len(res) = n
      /\ \A i \in 1 .. n : res[i] = IF i = n THEN new ELSE chain[i]
  BY <1>1, <1>5, <1>6, ExceptSeq
<1>8. res[n] = new /\ \A i \in 1 .. n - 1 : res[i] = chain[i]
  BY <1>1, <1>7
<1> QED
  BY <1>7, <1>8 DEF new

LEMMA AddLocalProperties ==
  ASSUME NEW chain \in Seq(Scope), Len(chain) >= 1,
         NEW name \in Names, NEW type \in Types
  PROVE  /\ AddLocal(chain, name, type) \in Seq(Scope)
         /\ Len(AddLocal(chain, name, type)) = Len(chain)
         /\ \A i \in 1 .. Len(chain) :
              AddLocal(chain, name, type)[i].kind = chain[i].kind
         /\ AllLaidOut(chain) => AllLaidOut(AddLocal(chain, name, type))
<1> DEFINE n   == Len(chain)
           new == [chain[n] EXCEPT
                     !.locals = add_var(chain[n].locals, name, type,
                                        chain[n].id)]
           res == AddLocal(chain, name, type)
<1>1. n \in Nat /\ n \in 1 .. n
  BY LenProperties
<1>2. chain[n] \in Scope
  BY <1>1, ElementOfSeq
<1>3. chain[n].locals \in Seq(Var) /\ chain[n].id \in Nat
  BY <1>2 DEF Scope
<1>4. new.kind = chain[n].kind
      /\ new.locals = add_var(chain[n].locals, name, type, chain[n].id)
  BY <1>2, Zenon DEF Scope
<1>5. /\ res \in Seq(Scope) /\ Len(res) = n
      /\ \A i \in 1 .. n - 1 : res[i] = chain[i]
      /\ res[n] = new
  BY AddLocalIs
<1> HIDE DEF new, res
<1>6. ASSUME AllLaidOut(chain)
      PROVE  AllLaidOut(res)
  <2>1. LaidOut(chain[n].locals)
    BY <1>1, <1>6 DEF AllLaidOut
  <2>2. LaidOut(new.locals)
    BY <1>3, <1>4, <2>1, AddVarLaidOut
  <2> QED
    BY <1>1, <1>5, <1>6, <2>2 DEF AllLaidOut
<1> QED
  BY <1>1, <1>4, <1>5, <1>6 DEF res

LEMMA PushProperties ==
  ASSUME NEW chain \in Seq(Scope), NEW kind \in {"BLOCK"} \cup Breakable,
         NEW label \in Nat, NEW id \in Nat,
         NEW res, res = Append(chain, NewScope(kind, label, id))
  PROVE  /\ res \in Seq(Scope)
         /\ Len(res) = Len(chain) + 1
         /\ \A i \in 1 .. Len(chain) : res[i] = chain[i]
         /\ res[Len(chain) + 1].kind = kind
         /\ AllLaidOut(chain) => AllLaidOut(res)
<1> DEFINE n == Len(chain)
           s == NewScope(kind, label, id)
<1>1. s \in Scope /\ s.kind = kind /\ LaidOut(s.locals)
  BY EmptySeq DEF NewScope, Scope, LaidOut
<1>2. n \in Nat
  BY LenProperties
<1> HIDE DEF s
<1>3. /\ res \in Seq(Scope) /\ Len(res) = n + 1
      /\ \A i \in 1 .. n : res[i] = chain[i]
      /\ res[n + 1] = s
  BY <1>1, AppendProperties DEF s
<1>4. AllLaidOut(chain) => AllLaidOut(res)
  BY <1>1, <1>2, <1>3 DEF AllLaidOut
<1> QED
  BY <1>1, <1>3, <1>4

(* What the end of a scope does to the chain: its list moves to its parent.*)
LEMMA PopIs ==
  ASSUME NEW chain \in Seq(Scope), Len(chain) >= 2
  PROVE  LET n   == Len(chain)
             res == scope_pop(chain)
         IN  /\ res \in Seq(Scope)
             /\ Len(res) = n - 1
             /\ \A i \in 1 .. n - 2 : res[i] = chain[i]
             /\ res[n - 1] = MergeInto(chain[n - 1], chain[n])
<1> DEFINE n      == Len(chain)
           parent == chain[n - 1]
           child  == chain[n]
           front  == SubSeq(chain, 1, n - 2)
           merged == MergeInto(parent, child)
           res    == scope_pop(chain)
<1>1. n \in Nat /\ n - 1 \in 1 .. n /\ n \in 1 .. n /\ n - 2 \in Nat
  BY LenProperties
<1>2. parent \in Scope /\ child \in Scope
  BY <1>1, ElementOfSeq
<1>3. parent.locals \in Seq(Var) /\ child.locals \in Seq(Var)
  BY <1>2 DEF Scope
<1>4. parent.locals \o Shift(child.locals, LastOffset(parent.locals))
        \in Seq(Var)
  BY <1>3, LastOffsetType, ShiftType, ConcatProperties
<1>5. merged \in Scope /\ merged.kind = parent.kind
  BY <1>2, <1>4, Zenon DEF MergeInto, Scope
<1>6. /\ front \in Seq(Scope) /\ Len(front) = n - 2
      /\ \A i \in 1 .. n - 2 : front[i] = chain[i]
  <2>1. ASSUME NEW i \in 1 .. n - 2
        PROVE  chain[i] \in Scope
    BY <1>1, ElementOfSeq
  <2>2. /\ front \in Seq(Scope)
        /\ Len(front) = IF 1 <= n - 2 THEN (n - 2) - 1 + 1 ELSE 0
        /\ \A i \in 1 .. (n - 2) - 1 + 1 : front[i] = chain[1 + i - 1]
    BY <1>1, <2>1, SubSeqProperties
  <2> HIDE DEF front
  <2> HIDE DEF n
  <2>3. (n - 2) - 1 + 1 = n - 2 /\ \A i \in 1 .. n - 2 : 1 + i - 1 = i
    BY <1>1
  <2>4. Len(front) = n - 2
    BY <1>1, <2>2, <2>3
  <2>5. \A i \in 1 .. n - 2 : front[i] = chain[i]
    BY <2>2, <2>3
  <2> QED
    BY <2>2, <2>4, <2>5
<1>7. res = Append(front, merged)
  BY DEF scope_pop
<1> HIDE DEF front, merged, res
<1>8. /\ res \in Seq(Scope) /\ Len(res) = n - 1
      /\ \A i \in 1 .. n - 2 : res[i] = chain[i]
      /\ res[n - 1] = merged
  <2>1. /\ res \in Seq(Scope) /\ Len(res) = (n - 2) + 1
        /\ \A i \in 1 .. n - 2 : res[i] = front[i]
        /\ res[(n - 2) + 1] = merged
    BY <1>5, <1>6, <1>7, AppendProperties
  <2> QED
    BY <1>1, <1>6, <2>1
<1> QED
  BY <1>8 DEF res, merged

LEMMA PopProperties ==
  ASSUME NEW chain \in Seq(Scope), Len(chain) >= 2
  PROVE  /\ scope_pop(chain) \in Seq(Scope)
         /\ Len(scope_pop(chain)) = Len(chain) - 1
         /\ \A i \in 1 .. Len(chain) - 1 :
              scope_pop(chain)[i].kind = chain[i].kind
         /\ AllLaidOut(chain) => AllLaidOut(scope_pop(chain))
<1> DEFINE n      == Len(chain)
           parent == chain[n - 1]
           child  == chain[n]
           merged == MergeInto(parent, child)
           res    == scope_pop(chain)
<1>1. n \in Nat /\ n - 1 \in 1 .. n /\ n \in 1 .. n /\ n - 2 \in Nat
  BY LenProperties
<1>2. parent \in Scope /\ child \in Scope
  BY <1>1, ElementOfSeq
<1>3. parent.locals \in Seq(Var) /\ child.locals \in Seq(Var)
  BY <1>2 DEF Scope
<1>4. /\ merged.kind = parent.kind
      /\ merged.locals
           = parent.locals \o Shift(child.locals, LastOffset(parent.locals))
  BY <1>2, Zenon DEF MergeInto, Scope
<1>5. /\ res \in Seq(Scope) /\ Len(res) = n - 1
      /\ \A i \in 1 .. n - 2 : res[i] = chain[i]
      /\ res[n - 1] = merged
  BY PopIs
<1> HIDE DEF merged, res
<1>6. ASSUME AllLaidOut(chain)
      PROVE  AllLaidOut(res)
  <2>1. LaidOut(parent.locals) /\ LaidOut(child.locals)
    BY <1>1, <1>6 DEF AllLaidOut
  <2>2. LaidOut(merged.locals)
    BY <1>3, <1>4, <2>1, MergeLaidOut
  <2>3. \A i \in 1 .. n - 2 : LaidOut(chain[i].locals)
    BY <1>1, <1>6 DEF AllLaidOut
  <2> QED
    BY <1>1, <1>5, <2>2, <2>3 DEF AllLaidOut
<1> QED
  BY <1>1, <1>4, <1>5, <1>6 DEF res

-----------------------------------------------------------------------------
(* Scopes and open statements                                              *)

LEMMA MirrorsSame ==
  ASSUME NEW chain, NEW new, NEW stmts, Mirrors(chain, stmts),
         Len(new) = Len(chain),
         \A i \in 2 .. Len(chain) : new[i].kind = chain[i].kind
  PROVE  Mirrors(new, stmts)
BY DEF Mirrors, MirroredBy

(* A statement and its scope are opened together.                          *)
LEMMA MirrorsPush ==
  ASSUME NEW chain \in Seq(Scope), NEW new \in Seq(Scope),
         NEW stmts \in Seq(Enclosing), Mirrors(chain, stmts),
         Len(chain) >= 1, Len(new) = Len(chain) + 1,
         \A i \in 1 .. Len(chain) : new[i] = chain[i],
         NEW stmt \in Enclosing,
         new[Len(chain) + 1].kind = IF stmt = "FUNCTION" THEN "BLOCK" ELSE stmt
  PROVE  Mirrors(new, Append(stmts, stmt))
<1> DEFINE n == Len(chain)
           m == Len(stmts)
           c == Append(stmts, stmt)
<1>1. n \in Nat /\ m \in Nat
  BY LenProperties
<1>2. /\ Len(c) = m + 1 /\ c[m + 1] = stmt
      /\ \A k \in 1 .. m : c[k] = stmts[k]
  BY AppendProperties
<1>3. PICK at \in [2 .. n -> 1 .. m] :
        /\ \A i, j \in 2 .. n : i < j => at[i] < at[j]
        /\ \A k \in 1 .. m :
             stmts[k] \notin {"IF", "ELSE"} => \E i \in 2 .. n : at[i] = k
        /\ \A i \in 2 .. n :
             chain[i].kind = IF stmts[at[i]] = "FUNCTION" THEN "BLOCK"
                             ELSE stmts[at[i]]
  BY DEF Mirrors, MirroredBy
<1> DEFINE ext == [i \in 2 .. n + 1 |-> IF i = n + 1 THEN m + 1 ELSE at[i]]
<1> HIDE DEF n, m, c
<1>4. ext \in [2 .. n + 1 -> 1 .. m + 1]
  BY <1>1
<1>5. ASSUME NEW i \in 2 .. n + 1, NEW j \in 2 .. n + 1, i < j
      PROVE  ext[i] < ext[j]
  <2>1. i \in 2 .. n /\ ext[i] = at[i] /\ at[i] \in 1 .. m
    BY <1>1, <1>5
  <2>2. CASE j = n + 1
    BY <1>1, <2>1, <2>2
  <2>3. CASE j # n + 1
    <3>1. j \in 2 .. n /\ ext[j] = at[j]
      BY <1>1, <2>3
    <3> QED
      BY <1>3, <1>5, <2>1, <3>1
  <2> QED
    BY <2>2, <2>3
<1>6. ASSUME NEW k \in 1 .. m + 1, c[k] \notin {"IF", "ELSE"}
      PROVE  \E i \in 2 .. n + 1 : ext[i] = k
  <2>1. CASE k = m + 1
    <3>1. n + 1 \in 2 .. n + 1
      BY <1>1 DEF n
    <3> QED
      BY <2>1, <3>1
  <2>2. CASE k # m + 1
    <3>1. k \in 1 .. m /\ stmts[k] \notin {"IF", "ELSE"}
      BY <1>1, <1>2, <1>6, <2>2
    <3>2. PICK i \in 2 .. n : at[i] = k
      BY <1>3, <3>1
    <3>3. i \in 2 .. n + 1 /\ ext[i] = at[i]
      BY <1>1
    <3> QED
      BY <3>2, <3>3
  <2> QED
    BY <2>1, <2>2
<1>7. ASSUME NEW i \in 2 .. n + 1
      PROVE  new[i].kind = IF c[ext[i]] = "FUNCTION" THEN "BLOCK" ELSE c[ext[i]]
  <2>1. CASE i = n + 1
    BY <1>2, <2>1 DEF n
  <2>2. CASE i # n + 1
    <3>1. i \in 2 .. n /\ i \in 1 .. n /\ ext[i] = at[i] /\ at[i] \in 1 .. m
      BY <1>1, <2>2
    <3>2. new[i] = chain[i] /\ c[ext[i]] = stmts[at[i]]
      BY <1>2, <3>1 DEF n
    <3> QED
      BY <1>3, <3>1, <3>2
  <2> QED
    BY <2>1, <2>2
<1>8. Len(new) = n + 1 /\ Len(c) = m + 1
  BY <1>2 DEF n
<1> HIDE DEF ext
<1>9. ext \in [2 .. Len(new) -> 1 .. Len(c)]
  BY <1>4, <1>8
<1>10. \A i, j \in 2 .. Len(new) : i < j => ext[i] < ext[j]
  BY <1>5, <1>8
<1>11. \A k \in 1 .. Len(c) :
         c[k] \notin {"IF", "ELSE"} => \E i \in 2 .. Len(new) : ext[i] = k
  BY <1>6, <1>8
<1>12. \A i \in 2 .. Len(new) :
         new[i].kind = IF c[ext[i]] = "FUNCTION" THEN "BLOCK" ELSE c[ext[i]]
  BY <1>7, <1>8
<1>13. Mirrors(new, c)
  BY <1>9, <1>10, <1>11, <1>12 DEF Mirrors, MirroredBy
<1> QED
  BY <1>13 DEF c

(* An if has no scope: it comes and goes without a change of the chain.    *)
LEMMA MirrorsIf ==
  ASSUME NEW chain, NEW stmts \in Seq(Enclosing), Mirrors(chain, stmts),
         NEW stmt \in {"IF", "ELSE"}
  PROVE  Mirrors(chain, Append(stmts, stmt))
<1> DEFINE m == Len(stmts)
           c == Append(stmts, stmt)
<1>1. m \in Nat
  BY LenProperties
<1>2. /\ Len(c) = m + 1 /\ c[m + 1] = stmt
      /\ \A k \in 1 .. m : c[k] = stmts[k]
  BY AppendProperties
<1>3. PICK at \in [2 .. Len(chain) -> 1 .. m] :
        /\ \A i, j \in 2 .. Len(chain) : i < j => at[i] < at[j]
        /\ \A k \in 1 .. m :
             stmts[k] \notin {"IF", "ELSE"} =>
               \E i \in 2 .. Len(chain) : at[i] = k
        /\ \A i \in 2 .. Len(chain) :
             chain[i].kind = IF stmts[at[i]] = "FUNCTION" THEN "BLOCK"
                             ELSE stmts[at[i]]
  BY DEF Mirrors, MirroredBy
<1> HIDE DEF m, c
<1>4. at \in [2 .. Len(chain) -> 1 .. Len(c)]
  BY <1>1, <1>2
<1>5. ASSUME NEW k \in 1 .. Len(c), c[k] \notin {"IF", "ELSE"}
      PROVE  \E i \in 2 .. Len(chain) : at[i] = k
  <2>1. k # m + 1 /\ k \in 1 .. m
    BY <1>1, <1>2, <1>5
  <2> QED
    BY <1>2, <1>3, <1>5, <2>1
<1>6. ASSUME NEW i \in 2 .. Len(chain)
      PROVE  chain[i].kind = IF c[at[i]] = "FUNCTION" THEN "BLOCK" ELSE c[at[i]]
  <2>1. at[i] \in 1 .. m /\ c[at[i]] = stmts[at[i]]
    BY <1>2, <1>3
  <2> QED
    BY <1>3, <2>1
<1>7. \A i, j \in 2 .. Len(chain) : i < j => at[i] < at[j]
  BY <1>3
<1>8. Mirrors(chain, c)
  BY <1>4, <1>5, <1>6, <1>7 DEF Mirrors, MirroredBy
<1> QED
  BY <1>8 DEF c

LEMMA MirrorsPopIf ==
  ASSUME NEW chain \in Seq(Scope), NEW stmts \in Seq(Enclosing),
         Mirrors(chain, stmts), Len(stmts) >= 1,
         Last(stmts) \in {"IF", "ELSE"}
  PROVE  Mirrors(chain, Front(stmts))
<1> DEFINE m == Len(stmts)
           c == Front(stmts)
<1>1. m \in Nat /\ Len(chain) \in Nat /\ m >= 1
  BY LenProperties
<1>2. Len(c) = m - 1 /\ \A k \in 1 .. m - 1 : c[k] = stmts[k]
  BY FrontProperties
<1>3. PICK at \in [2 .. Len(chain) -> 1 .. m] :
        /\ \A i, j \in 2 .. Len(chain) : i < j => at[i] < at[j]
        /\ \A k \in 1 .. m :
             stmts[k] \notin {"IF", "ELSE"} =>
               \E i \in 2 .. Len(chain) : at[i] = k
        /\ \A i \in 2 .. Len(chain) :
             chain[i].kind = IF stmts[at[i]] = "FUNCTION" THEN "BLOCK"
                             ELSE stmts[at[i]]
  BY DEF Mirrors, MirroredBy
<1>4. stmts[m] \in {"IF", "ELSE"}
  BY DEF Last
<1> HIDE DEF m, c
<1>5. ASSUME NEW i \in 2 .. Len(chain)
      PROVE  at[i] \in 1 .. m - 1 /\ c[at[i]] = stmts[at[i]]
  <2>1. i \in 1 .. Len(chain)
    BY <1>1
  <2>2. chain[i] \in Scope
    BY <2>1, ElementOfSeq
  <2>3. chain[i].kind \notin {"IF", "ELSE"}
    BY <2>2 DEF Scope, Breakable
  <2>4. at[i] # m
    BY <1>3, <1>4, <2>3
  <2>5. at[i] \in 1 .. m
    BY <1>3
  <2> QED
    BY <1>1, <1>2, <2>4, <2>5
<1>6. at \in [2 .. Len(chain) -> 1 .. Len(c)]
  BY <1>2, <1>5, <1>3
<1>7. \A k \in 1 .. Len(c) :
        c[k] \notin {"IF", "ELSE"} => \E i \in 2 .. Len(chain) : at[i] = k
  BY <1>1, <1>2, <1>3
<1>8. \A i \in 2 .. Len(chain) :
        chain[i].kind = IF c[at[i]] = "FUNCTION" THEN "BLOCK" ELSE c[at[i]]
  BY <1>3, <1>5
<1>9. \A i, j \in 2 .. Len(chain) : i < j => at[i] < at[j]
  BY <1>3
<1>10. Mirrors(chain, c)
  BY <1>6, <1>7, <1>8, <1>9 DEF Mirrors, MirroredBy
<1> QED
  BY <1>10 DEF c

(* A statement and its scope, both innermost, are closed together.         *)
LEMMA MirrorsPop ==
  ASSUME NEW chain \in Seq(Scope), NEW stmts \in Seq(Enclosing),
         Mirrors(chain, stmts), Len(chain) >= 2, Len(stmts) >= 1,
         Last(stmts) \notin {"IF", "ELSE"},
         NEW new, Len(new) = Len(chain) - 1,
         \A i \in 1 .. Len(chain) - 1 : new[i].kind = chain[i].kind
  PROVE  Mirrors(new, Front(stmts))
<1> DEFINE n == Len(chain)
           m == Len(stmts)
           c == Front(stmts)
<1>1. m \in Nat /\ n \in Nat /\ m >= 1 /\ n >= 2 /\ Len(new) = n - 1
  BY LenProperties
<1>2. Len(c) = m - 1 /\ \A k \in 1 .. m - 1 : c[k] = stmts[k]
  BY FrontProperties
<1>3. PICK at \in [2 .. n -> 1 .. m] :
        /\ \A i, j \in 2 .. n : i < j => at[i] < at[j]
        /\ \A k \in 1 .. m :
             stmts[k] \notin {"IF", "ELSE"} => \E i \in 2 .. n : at[i] = k
        /\ \A i \in 2 .. n :
             chain[i].kind = IF stmts[at[i]] = "FUNCTION" THEN "BLOCK"
                             ELSE stmts[at[i]]
  BY DEF Mirrors, MirroredBy
<1>4. stmts[m] \notin {"IF", "ELSE"}
  BY DEF Last
<1>5. \A i \in 2 .. n - 1 : new[i].kind = chain[i].kind
  BY <1>1
<1> DEFINE low == [i \in 2 .. n - 1 |-> at[i]]
<1> HIDE DEF n, m, c
<1>6. at[n] = m
  <2>1. PICK i \in 2 .. n : at[i] = m
    BY <1>1, <1>3, <1>4
  <2>2. CASE i = n
    BY <2>1, <2>2
  <2>3. CASE i # n
    <3>1. i < n /\ n \in 2 .. n
      BY <1>1, <2>3
    <3>2. at[i] < at[n] /\ at[n] \in 1 .. m
      BY <1>3, <3>1
    <3> QED
      BY <1>1, <2>1, <3>2
  <2> QED
    BY <2>2, <2>3
<1>7. ASSUME NEW i \in 2 .. n - 1
      PROVE  /\ i \in 2 .. n /\ low[i] = at[i]
             /\ at[i] \in 1 .. m - 1 /\ c[at[i]] = stmts[at[i]]
  <2>1. i \in 2 .. n /\ n \in 2 .. n /\ i < n
    BY <1>1
  <2>2. at[i] < at[n] /\ at[i] \in 1 .. m
    BY <1>3, <2>1
  <2>3. at[i] \in 1 .. m - 1
    BY <1>1, <1>6, <2>2
  <2> QED
    BY <1>2, <2>1, <2>3
<1>8. low \in [2 .. Len(new) -> 1 .. Len(c)]
  BY <1>1, <1>2, <1>7
<1>9. ASSUME NEW k \in 1 .. Len(c), c[k] \notin {"IF", "ELSE"}
      PROVE  \E i \in 2 .. Len(new) : low[i] = k
  <2>1. k \in 1 .. m /\ k # m /\ stmts[k] \notin {"IF", "ELSE"}
    BY <1>1, <1>2, <1>9
  <2>2. PICK i \in 2 .. n : at[i] = k
    BY <1>3, <2>1
  <2>3. i \in 2 .. n - 1
    BY <1>1, <1>6, <2>1, <2>2
  <2> QED
    BY <1>1, <1>7, <2>2, <2>3
<1>10. ASSUME NEW i \in 2 .. Len(new)
       PROVE  new[i].kind = IF c[low[i]] = "FUNCTION" THEN "BLOCK"
                            ELSE c[low[i]]
  <2>1. i \in 2 .. n - 1
    BY <1>1
  <2> QED
    BY <1>3, <1>5, <1>7, <2>1
<1>11. \A i, j \in 2 .. Len(new) : i < j => low[i] < low[j]
  BY <1>1, <1>3, <1>7
<1> HIDE DEF low
<1>12. Mirrors(new, c)
  BY <1>8, <1>9, <1>10, <1>11 DEF Mirrors, MirroredBy
<1> QED
  BY <1>12 DEF c

-----------------------------------------------------------------------------
(* The inductive invariant                                                 *)

(* The parse_stmt calls that have not returned are those of one function   *)
(* body.                                                                   *)
InBody(stmts) ==
  /\ stmts \in Seq(Enclosing)
  /\ Len(stmts) >= 1
  /\ stmts[1] = "FUNCTION"
  /\ \A k \in 2 .. Len(stmts) : stmts[k] # "FUNCTION"

StmtModes == {"stmt", "forinit", "forrest", "done", "noelse"}

Shape ==
  /\ InFunction <=> mode \notin {"top", "eof", "error"}
  /\ mode \in {"top", "params", "sig"} => cont = <<>>
  /\ mode \in StmtModes => InBody(cont)
  /\ mode \in {"forinit", "forrest"} => Last(cont) = "FOR"

IInv == TypeOK /\ Shape /\ ScopesMirrorNesting

LEMMA InBodyOpen ==
  ASSUME NEW stmts, InBody(stmts), NEW stmt \in Enclosing \ {"FUNCTION"}
  PROVE  /\ InBody(Append(stmts, stmt))
         /\ Last(Append(stmts, stmt)) = stmt
<1>1. stmts \in Seq(Enclosing) /\ Len(stmts) \in Nat
  BY LenProperties DEF InBody
<1>2. /\ Append(stmts, stmt) \in Seq(Enclosing)
      /\ Len(Append(stmts, stmt)) = Len(stmts) + 1
      /\ \A i \in 1 .. Len(stmts) : Append(stmts, stmt)[i] = stmts[i]
      /\ Append(stmts, stmt)[Len(stmts) + 1] = stmt
  BY <1>1, AppendProperties
<1> QED
  BY <1>1, <1>2 DEF InBody, Last

LEMMA InBodyClose ==
  ASSUME NEW stmts, InBody(stmts), Last(stmts) # "FUNCTION"
  PROVE  /\ InBody(Front(stmts))
         /\ Last(Front(stmts)) \in Enclosing
<1>1. stmts \in Seq(Enclosing) /\ Len(stmts) \in Nat /\ Len(stmts) >= 1
  BY LenProperties DEF InBody
<1>2. Len(stmts) >= 2
  BY <1>1 DEF InBody, Last
<1>3. /\ Front(stmts) \in Seq(Enclosing)
      /\ Len(Front(stmts)) = Len(stmts) - 1
      /\ \A i \in 1 .. Len(stmts) - 1 : Front(stmts)[i] = stmts[i]
  BY <1>1, FrontProperties
<1>4. InBody(Front(stmts))
  BY <1>1, <1>2, <1>3 DEF InBody
<1>5. Len(Front(stmts)) \in 1 .. Len(Front(stmts))
  BY <1>1, <1>2, <1>3
<1>6. Last(Front(stmts)) \in Enclosing
  BY <1>3, <1>5, ElementOfSeq DEF Last
<1> QED
  BY <1>4, <1>6

(* Inside a body there are at least the function's scope and the body's.   *)
LEMMA BodyHasScopes ==
  ASSUME IInv, mode \in StmtModes
  PROVE  /\ scopes \in Seq(Scope) /\ Len(scopes) \in Nat /\ Len(scopes) >= 2
         /\ Mirrors(scopes, cont) /\ scopes[1].kind = "FUNCDECL"
         /\ InBody(cont) /\ InFunction /\ Last(cont) \in Enclosing
<1>1. InFunction /\ InBody(cont)
  BY DEF IInv, Shape, StmtModes
<1>2. /\ scopes \in Seq(Scope) /\ Len(scopes) \in Nat
      /\ Mirrors(scopes, cont) /\ scopes[1].kind = "FUNCDECL"
  BY <1>1, LenProperties DEF IInv, TypeOK, ScopesMirrorNesting
<1>3. 1 \in 1 .. Len(cont) /\ cont[1] \notin {"IF", "ELSE"}
  BY <1>1, LenProperties DEF InBody
<1>4. Len(scopes) >= 2
  <2>1. \E i \in 2 .. Len(scopes) : TRUE
    BY <1>2, <1>3 DEF Mirrors, MirroredBy
  <2> QED
    BY <1>2, <2>1
<1>5. Last(cont) \in Enclosing
  <2>1. Len(cont) \in 1 .. Len(cont)
    BY <1>3, LenProperties, <1>1 DEF InBody
  <2> QED
    BY <1>1, <2>1, ElementOfSeq DEF InBody, Last
<1> QED
  BY <1>1, <1>2, <1>4, <1>5

(* What a step inside a body has to establish.                             *)
LEMMA BodyStep ==
  ASSUME IInv, mode \in StmtModes, decl' = decl,
         mode' \in {"stmt", "done", "noelse"}
           \/ (mode' \in {"forinit", "forrest"} /\ Last(cont') = "FOR"),
         InBody(cont'),
         scopes' \in Seq(Scope), Len(scopes') >= 1,
         scopes'[1].kind = "FUNCDECL", Mirrors(scopes', cont'),
         scope_id' \in Nat, label_index' \in Nat, nodes' \in Seq(Node),
         jumps' \subseteq Jump, uses' \subseteq Use,
         globals' = globals, funcs' = funcs, code' = code
  PROVE  IInv'
<1>1. TypeOK'
  BY DEF IInv, TypeOK, InBody, Modes
<1>2. InFunction'
  BY BodyHasScopes DEF InFunction
<1>3. Shape'
  BY <1>2 DEF Shape
<1>4. ScopesMirrorNesting'
  BY DEF ScopesMirrorNesting
<1> QED
  BY <1>1, <1>3, <1>4 DEF IInv

LEMMA StmtReturnsShape ==
  ASSUME NEW stmts, InBody(stmts), NEW next \in {"done", "noelse"},
         StmtReturns(stmts, next)
  PROVE  cont' = stmts /\ mode' \in {"stmt", "done", "noelse"}
BY DEF StmtReturns

LEMMA StmtBeginsShape ==
  ASSUME InBody(cont), NEW stmt \in Enclosing \ {"FUNCTION"}, StmtBegins(stmt)
  PROVE  /\ cont' = Append(cont, stmt) /\ InBody(cont') /\ mode' = "stmt"
BY InBodyOpen DEF StmtBegins

(* Opening a scope together with its statement.                            *)
LEMMA PushStep ==
  ASSUME IInv, mode \in StmtModes,
         NEW kind \in {"BLOCK"} \cup Breakable, NEW label \in Nat,
         scope_push(kind, label), cont' = Append(cont, kind)
  PROVE  /\ scopes' \in Seq(Scope) /\ Len(scopes') >= 1
         /\ scopes'[1].kind = "FUNCDECL" /\ Mirrors(scopes', cont')
         /\ scope_id' \in Nat
<1>1. /\ scopes \in Seq(Scope) /\ Len(scopes) \in Nat /\ Len(scopes) >= 2
      /\ Mirrors(scopes, cont) /\ scopes[1].kind = "FUNCDECL"
      /\ cont \in Seq(Enclosing)
  BY BodyHasScopes DEF InBody
<1>2. scope_id' \in Nat /\ scopes' = Append(scopes, NewScope(kind, label, scope_id'))
  BY DEF scope_push, IInv, TypeOK
<1>3. /\ scopes' \in Seq(Scope)
      /\ Len(scopes') = Len(scopes) + 1
      /\ \A i \in 1 .. Len(scopes) : scopes'[i] = scopes[i]
      /\ scopes'[Len(scopes) + 1].kind = kind
  BY <1>1, <1>2, PushProperties
<1>4. kind \in Enclosing /\ kind # "FUNCTION"
  BY DEF Enclosing, Breakable
<1>5. Mirrors(scopes', Append(cont, kind))
  BY <1>1, <1>3, <1>4, MirrorsPush
<1> QED
  BY <1>1, <1>2, <1>3, <1>5

(* Closing the innermost statement and its scope.                          *)
LEMMA PopStep ==
  ASSUME IInv, mode \in StmtModes,
         Last(cont) \in {"BLOCK"} \cup Breakable,
         scopes' = scope_pop(scopes), cont' = Front(cont)
  PROVE  /\ scopes' \in Seq(Scope) /\ Len(scopes') >= 1
         /\ scopes'[1].kind = "FUNCDECL" /\ Mirrors(scopes', cont')
<1>1. /\ scopes \in Seq(Scope) /\ Len(scopes) \in Nat /\ Len(scopes) >= 2
      /\ Mirrors(scopes, cont) /\ scopes[1].kind = "FUNCDECL"
      /\ cont \in Seq(Enclosing) /\ Len(cont) >= 1
  BY BodyHasScopes DEF InBody
<1>2. /\ scopes' \in Seq(Scope)
      /\ Len(scopes') = Len(scopes) - 1
      /\ \A i \in 1 .. Len(scopes) - 1 : scopes'[i].kind = scopes[i].kind
  BY <1>1, PopProperties
<1>3. Last(cont) \notin {"IF", "ELSE"}
  BY DEF Breakable
<1>4. Mirrors(scopes', Front(cont))
  BY <1>1, <1>2, <1>3, MirrorsPop
<1> QED
  BY <1>1, <1>2, <1>4

(* Declaring a variable in the innermost scope.                            *)
LEMMA DeclareStep ==
  ASSUME IInv, InFunction, NEW name \in Names, NEW type \in Types,
         scopes' = AddLocal(scopes, name, type)
  PROVE  /\ scopes' \in Seq(Scope) /\ Len(scopes') >= 1
         /\ scopes'[1].kind = "FUNCDECL" /\ Mirrors(scopes', cont)
<1>1. /\ scopes \in Seq(Scope) /\ Len(scopes) \in Nat /\ Len(scopes) >= 1
      /\ Mirrors(scopes, cont) /\ scopes[1].kind = "FUNCDECL"
  BY LenProperties DEF IInv, TypeOK, ScopesMirrorNesting
<1>2. /\ scopes' \in Seq(Scope)
      /\ Len(scopes') = Len(scopes)
      /\ \A i \in 1 .. Len(scopes) : scopes'[i].kind = scopes[i].kind
  BY <1>1, AddLocalProperties
<1>3. Mirrors(scopes', cont)
  BY <1>1, <1>2, MirrorsSame
<1> QED
  BY <1>1, <1>2, <1>3

LEMMA LabelType ==
  ASSUME scopes \in Seq(Scope), NEW kinds
  PROVE  InnermostLabel(kinds) \in Nat
<1> DEFINE I == {i \in 1 .. Len(scopes) : scopes[i].kind \in kinds}
           k == SelectLastInSeq(scopes, LAMBDA s : s.kind \in kinds)
<1>1. k = IF I # {} THEN Max(I) ELSE 0
  BY DEF SelectLastInSeq
<1>2. Len(scopes) \in Nat /\ I \in SUBSET (1 .. Len(scopes))
  BY LenProperties
<1>3. CASE I = {}
  BY <1>1, <1>3 DEF InnermostLabel
<1>4. CASE I # {}
  <2>1. k \in I
    BY <1>1, <1>2, <1>4, MaxOfInterval
  <2>2. scopes[k] \in Scope /\ k # 0
    BY <1>2, <2>1, ElementOfSeq
  <2>3. scopes[k].label \in Nat
    BY <2>2 DEF Scope
  <2> QED
    BY <2>2, <2>3 DEF InnermostLabel
<1> QED
  BY <1>3, <1>4

-----------------------------------------------------------------------------
(* Every step preserves the invariant                                      *)

LEMMA InitIInv ==
  ASSUME Init
  PROVE  IInv
<1>1. <<>> \in Seq(Enclosing) /\ <<>> \in Seq(Scope) /\ <<>> \in Seq(Node)
      /\ <<>> \in Seq([name : Names, is_extern : BOOLEAN])
      /\ <<>> \in Seq([name : FuncNames, type : Types])
      /\ <<>> \in Seq(Func)
  BY EmptySeq
<1>2. TypeOK
  BY <1>1 DEF Init, TypeOK, Modes
<1>3. ~ InFunction
  BY DEF Init, InFunction
<1> QED
  BY <1>2, <1>3 DEF Init, IInv, Shape, ScopesMirrorNesting, StmtModes

(* A statement without parts returns to the statements around it.          *)
LEMMA SimpleStep ==
  ASSUME IInv, mode = "stmt", StmtReturns(cont, "done"),
         scopes' \in Seq(Scope), Len(scopes') >= 1,
         scopes'[1].kind = "FUNCDECL", Mirrors(scopes', cont),
         label_index' \in Nat, nodes' \in Seq(Node),
         jumps' \subseteq Jump, uses' \subseteq Use,
         UNCHANGED <<scope_id, decl, globals, funcs, code>>
  PROVE  IInv'
<1>1. mode \in StmtModes /\ InBody(cont) /\ scope_id' \in Nat
  BY BodyHasScopes DEF StmtModes, IInv, TypeOK
<1>2. cont' = cont /\ mode' \in {"stmt", "done", "noelse"}
  BY <1>1, StmtReturnsShape
<1> QED
  BY <1>1, <1>2, BodyStep

(* What holds in every production of a body.                               *)
LEMMA BodyFacts ==
  ASSUME IInv, mode \in StmtModes
  PROVE  /\ scopes \in Seq(Scope) /\ Len(scopes) >= 1
         /\ scopes[1].kind = "FUNCDECL" /\ Mirrors(scopes, cont)
         /\ InBody(cont) /\ InFunction
         /\ scope_id \in Nat /\ label_index \in Nat
         /\ nodes \in Seq(Node) /\ jumps \subseteq Jump /\ uses \subseteq Use
         /\ <<>> \in Seq(Labelled)
<1>1. /\ scope_id \in Nat /\ label_index \in Nat
      /\ nodes \in Seq(Node) /\ jumps \subseteq Jump /\ uses \subseteq Use
  BY DEF IInv, TypeOK
<1> QED
  BY <1>1, BodyHasScopes, EmptySeq

LEMMA VarDeclType ==
  ASSUME IInv, mode \in StmtModes,
         NEW name \in Names, NEW type \in Types, NEW e \in Expressions,
         parse_vardecl(name, type, e)
  PROVE  /\ scopes' \in Seq(Scope) /\ Len(scopes') >= 1
         /\ scopes'[1].kind = "FUNCDECL" /\ Mirrors(scopes', cont)
         /\ label_index' \in Nat /\ nodes' \in Seq(Node) /\ uses' \subseteq Use
<1>1. /\ InFunction /\ label_index \in Nat /\ nodes \in Seq(Node)
      /\ uses \subseteq Use /\ <<>> \in Seq(Labelled)
  BY BodyFacts
<1>2. /\ scopes' = AddLocal(scopes, name, type)
      /\ parse_expr(scopes', <<>>, e)
  BY DEF parse_vardecl
<1>3. /\ scopes' \in Seq(Scope) /\ Len(scopes') >= 1
      /\ scopes'[1].kind = "FUNCDECL" /\ Mirrors(scopes', cont)
  BY <1>1, <1>2, DeclareStep
<1>4. label_index' \in Nat /\ nodes' \in Seq(Node) /\ uses' \subseteq Use
  BY <1>1, <1>2, <1>3, ExprType
<1> QED
  BY <1>3, <1>4

LEMMA SimpleStatementStep ==
  ASSUME IInv,
         ExprStmt \/ ReturnVoid \/ VarDecl \/ Break \/ Continue \/ Case
           \/ Default
  PROVE  IInv'
<1>1. mode = "stmt" /\ mode \in StmtModes
  BY DEF ExprStmt, ReturnVoid, VarDecl, Break, Continue, MakeJump, Case,
         Default, StmtModes
<1>2. /\ scopes \in Seq(Scope) /\ Len(scopes) >= 1
      /\ scopes[1].kind = "FUNCDECL" /\ Mirrors(scopes, cont)
      /\ label_index \in Nat /\ nodes \in Seq(Node)
      /\ jumps \subseteq Jump /\ uses \subseteq Use
      /\ <<>> \in Seq(Labelled)
  BY <1>1, BodyFacts
<1>3. CASE ExprStmt
  <2>1. PICK e \in Expressions : parse_expr(scopes, <<>>, e)
    BY <1>3 DEF ExprStmt
  <2>2. label_index' \in Nat /\ nodes' \in Seq(Node) /\ uses' \subseteq Use
    BY <1>2, <2>1, ExprType
  <2> QED
    BY <1>1, <1>2, <1>3, <2>2, SimpleStep DEF ExprStmt
<1>4. CASE ReturnVoid
  BY <1>1, <1>2, <1>4, SimpleStep DEF ReturnVoid
<1>5. CASE VarDecl
  <2>1. PICK name \in Names, type \in Types, e \in Expressions :
          parse_vardecl(name, type, e)
    BY <1>5 DEF VarDecl
  <2>2. /\ scopes' \in Seq(Scope) /\ Len(scopes') >= 1
        /\ scopes'[1].kind = "FUNCDECL" /\ Mirrors(scopes', cont)
        /\ label_index' \in Nat /\ nodes' \in Seq(Node) /\ uses' \subseteq Use
    BY <1>1, <2>1, VarDeclType
  <2> QED
    BY <1>1, <1>2, <1>5, <2>2, SimpleStep DEF VarDecl
<1>6. ASSUME NEW kind \in {"BREAK", "CONTINUE"}, NEW targets,
             MakeJump(JumpOf(kind, targets))
      PROVE  IInv'
  <2>1. InnermostLabel(targets) \in Nat
    BY <1>2, LabelType
  <2>2. JumpOf(kind, targets) \subseteq Jump
    BY <2>1 DEF JumpOf, Jump
  <2>3. jumps' \subseteq Jump
    BY <1>2, <1>6, <2>2 DEF MakeJump
  <2> QED
    BY <1>1, <1>2, <1>6, <2>3, SimpleStep DEF MakeJump
<1>7. CASE Break
  BY <1>6, <1>7 DEF Break, BreakHere
<1>8. CASE Continue
  BY <1>6, <1>8 DEF Continue, ContinueHere
<1>9. ASSUME NEW kind \in {"CASE", "DEFAULT"}, NewNodes(<<kind>>)
      PROVE  label_index' \in Nat /\ nodes' \in Seq(Node)
  <2>1. <<kind>> \in Seq(Labelled)
    BY DEF Labelled
  <2> QED
    BY <1>2, <1>9, <2>1, NewNodesType
<1>10. CASE Case
  BY <1>1, <1>2, <1>9, <1>10, SimpleStep DEF Case
<1>11. CASE Default
  BY <1>1, <1>2, <1>9, <1>11, SimpleStep DEF Default
<1> QED
  BY <1>3, <1>4, <1>5, <1>7, <1>8, <1>10, <1>11

(* The statements that open a scope.                                       *)
LEMMA OpenStep ==
  ASSUME IInv, BlockOpen \/ WhileOpen \/ SwitchOpen \/ ForOpen
  PROVE  IInv'
<1>1. mode = "stmt" /\ mode \in StmtModes
  BY DEF BlockOpen, WhileOpen, SwitchOpen, HeadOpen, ForOpen, StmtModes
<1>2. /\ InBody(cont) /\ label_index \in Nat /\ label_index + 1 \in Nat
      /\ nodes \in Seq(Node) /\ jumps \subseteq Jump /\ uses \subseteq Use
  BY <1>1, BodyFacts
<1>3. CASE BlockOpen
  <2>1. "BLOCK" \in Enclosing \ {"FUNCTION"}
    BY DEF Enclosing
  <2>2. cont' = Append(cont, "BLOCK") /\ InBody(cont') /\ mode' = "stmt"
    BY <1>2, <1>3, <2>1, StmtBeginsShape DEF BlockOpen
  <2>3. /\ scopes' \in Seq(Scope) /\ Len(scopes') >= 1
        /\ scopes'[1].kind = "FUNCDECL" /\ Mirrors(scopes', cont')
        /\ scope_id' \in Nat
    BY <1>1, <1>3, <2>2, PushStep DEF BlockOpen
  <2> QED
    BY <1>1, <1>2, <1>3, <2>2, <2>3, BodyStep DEF BlockOpen
<1>4. ASSUME NEW kind \in {"WHILE", "SWITCH"}, HeadOpen(kind)
      PROVE  IInv'
  <2>1. /\ kind \in Enclosing \ {"FUNCTION"} /\ kind \in Breakable
        /\ <<kind>> \in Seq(Labelled)
    BY DEF Enclosing, Breakable, Labelled
  <2>2. cont' = Append(cont, kind) /\ InBody(cont') /\ mode' = "stmt"
    BY <1>2, <1>4, <2>1, StmtBeginsShape DEF HeadOpen
  <2>3. /\ scopes' \in Seq(Scope) /\ Len(scopes') >= 1
        /\ scopes'[1].kind = "FUNCDECL" /\ Mirrors(scopes', cont')
        /\ scope_id' \in Nat
    BY <1>1, <1>2, <1>4, <2>1, <2>2, PushStep DEF HeadOpen
  <2>4. PICK e \in Expressions : parse_expr(scopes', <<kind>>, e)
    BY <1>4 DEF HeadOpen
  <2>5. label_index' \in Nat /\ nodes' \in Seq(Node) /\ uses' \subseteq Use
    BY <1>2, <2>1, <2>3, <2>4, ExprType
  <2> QED
    BY <1>1, <1>2, <1>4, <2>2, <2>3, <2>5, BodyStep DEF HeadOpen
<1>5. CASE WhileOpen
  BY <1>4, <1>5 DEF WhileOpen
<1>6. CASE SwitchOpen
  BY <1>4, <1>6 DEF SwitchOpen
<1>7. CASE ForOpen
  <2>1. /\ "FOR" \in Enclosing \ {"FUNCTION"} /\ "FOR" \in Breakable
        /\ <<"FOR">> \in Seq(Labelled)
    BY DEF Enclosing, Breakable, Labelled
  <2>2. cont' = Append(cont, "FOR") /\ mode' = "forinit"
    BY <1>7 DEF ForOpen
  <2>3. InBody(cont') /\ Last(cont') = "FOR"
    BY <1>2, <2>1, <2>2, InBodyOpen
  <2>4. /\ scopes' \in Seq(Scope) /\ Len(scopes') >= 1
        /\ scopes'[1].kind = "FUNCDECL" /\ Mirrors(scopes', cont')
        /\ scope_id' \in Nat
    BY <1>1, <1>2, <1>7, <2>1, <2>2, PushStep DEF ForOpen
  <2>5. label_index' \in Nat /\ nodes' \in Seq(Node)
    BY <1>2, <1>7, <2>1, NewNodesType DEF ForOpen
  <2> QED
    BY <1>1, <1>2, <1>7, <2>2, <2>3, <2>4, <2>5, BodyStep DEF ForOpen
<1> QED
  BY <1>3, <1>5, <1>6, <1>7

(* The statements that close one.                                          *)
LEMMA CloseStep ==
  ASSUME IInv, mode \in StmtModes,
         Last(cont) \in {"BLOCK"} \cup Breakable,
         scopes' = scope_pop(scopes),
         NEW next \in {"done", "noelse"}, StmtReturns(Front(cont), next),
         label_index' \in Nat, nodes' \in Seq(Node), uses' \subseteq Use,
         UNCHANGED <<scope_id, decl, jumps, globals, funcs, code>>
  PROVE  IInv'
<1>1. /\ InBody(cont) /\ scope_id' \in Nat /\ jumps' \subseteq Jump
  BY BodyFacts
<1>2. InBody(Front(cont))
  BY <1>1, InBodyClose DEF Breakable
<1>3. cont' = Front(cont) /\ mode' \in {"stmt", "done", "noelse"}
  BY <1>2, StmtReturnsShape
<1>4. /\ scopes' \in Seq(Scope) /\ Len(scopes') >= 1
      /\ scopes'[1].kind = "FUNCDECL" /\ Mirrors(scopes', cont')
  BY <1>3, PopStep
<1> QED
  BY <1>1, <1>2, <1>3, <1>4, BodyStep

LEMMA BlockCloseStep ==
  ASSUME IInv, BlockClose \/ BodyReturns
  PROVE  IInv'
<1>1. mode \in StmtModes /\ Last(cont) \in {"BLOCK"} \cup Breakable
  BY DEF BlockClose, BodyReturns, StmtModes
<1>2. /\ label_index \in Nat /\ nodes \in Seq(Node) /\ uses \subseteq Use
  BY <1>1, BodyFacts
<1>3. CASE BlockClose
  BY <1>1, <1>2, <1>3, CloseStep DEF BlockClose
<1>4. CASE BodyReturns
  BY <1>1, <1>2, <1>4, CloseStep DEF BodyReturns
<1> QED
  BY <1>3, <1>4

LEMMA ForStep ==
  ASSUME IInv, ForInit \/ ForRest
  PROVE  IInv'
<1>1. /\ mode \in {"forinit", "forrest"} /\ mode \in StmtModes
      /\ Last(cont) = "FOR"
  BY DEF ForInit, ForRest, StmtModes, IInv, Shape
<1>2. /\ scopes \in Seq(Scope) /\ Len(scopes) >= 1
      /\ scopes[1].kind = "FUNCDECL" /\ Mirrors(scopes, cont)
      /\ InBody(cont) /\ scope_id \in Nat /\ label_index \in Nat
      /\ nodes \in Seq(Node) /\ jumps \subseteq Jump /\ uses \subseteq Use
      /\ <<>> \in Seq(Labelled)
  BY <1>1, BodyFacts
<1>3. CASE ForInit
  <2>1. /\ mode' = "forrest"
        /\ UNCHANGED <<cont, scope_id, decl, jumps, globals, funcs, code>>
    BY <1>3 DEF ForInit
  <2>2. /\ scopes' \in Seq(Scope) /\ Len(scopes') >= 1
        /\ scopes'[1].kind = "FUNCDECL" /\ Mirrors(scopes', cont)
        /\ label_index' \in Nat /\ nodes' \in Seq(Node) /\ uses' \subseteq Use
    <3>1. CASE \E name \in Names, type \in Types, e \in Expressions :
                 parse_vardecl(name, type, e)
      BY <1>1, <3>1, VarDeclType
    <3>2. CASE (\E e \in Expressions : parse_expr(scopes, <<>>, e))
                 /\ UNCHANGED scopes
      BY <1>2, <3>2, ExprType
    <3>3. CASE UNCHANGED <<scopes, label_index, nodes, uses>>
      BY <1>2, <3>3
    <3> QED
      BY <1>3, <3>1, <3>2, <3>3 DEF ForInit
  <2> QED
    BY <1>1, <1>2, <2>1, <2>2, BodyStep
<1>4. CASE ForRest
  <2>1. PICK cond \in Expressions, step \in Expressions :
          /\ uses' = uses \cup LocalsOf(scopes, cond)
                       \cup LocalsOf(scopes, step)
          /\ NewNodes(Conds(cond) \o Conds(step))
    BY <1>4 DEF ForRest
  <2>2. uses' \subseteq Use
    BY <1>2, <2>1, LocalsOfType
  <2>3. Conds(cond) \o Conds(step) \in Seq(Labelled)
    BY CondsType, ConcatProperties
  <2>4. label_index' \in Nat /\ nodes' \in Seq(Node)
    BY <1>2, <2>1, <2>3, NewNodesType
  <2>5. UNCHANGED <<scope_id, decl, jumps, globals, funcs, code>>
    BY <1>4 DEF ForRest
  <2>6. CASE mode' = "stmt" /\ UNCHANGED <<cont, scopes>>
    BY <1>1, <1>2, <2>2, <2>4, <2>5, <2>6, BodyStep
  <2>7. CASE scopes' = scope_pop(scopes) /\ StmtReturns(Front(cont), "done")
    BY <1>1, <2>2, <2>4, <2>5, <2>7, CloseStep DEF Breakable
  <2> QED
    BY <1>4, <2>6, <2>7 DEF ForRest
<1> QED
  BY <1>3, <1>4

LEMMA IfStep ==
  ASSUME IInv, IfOpen \/ Else \/ IfReturns
  PROVE  IInv'
<1>1. mode \in StmtModes
  BY DEF IfOpen, Else, IfReturns, StmtModes
<1>2. /\ scopes \in Seq(Scope) /\ Len(scopes) >= 1
      /\ scopes[1].kind = "FUNCDECL" /\ Mirrors(scopes, cont)
      /\ InBody(cont) /\ scope_id \in Nat /\ label_index \in Nat
      /\ nodes \in Seq(Node) /\ jumps \subseteq Jump /\ uses \subseteq Use
      /\ <<>> \in Seq(Labelled)
  BY <1>1, BodyFacts
<1>3. cont \in Seq(Enclosing) /\ Len(cont) >= 1
  BY <1>2 DEF InBody
<1>4. ASSUME NEW stmt \in {"IF", "ELSE"}
      PROVE  stmt \in Enclosing \ {"FUNCTION"}
  BY DEF Enclosing
<1>5. ASSUME Last(cont) \in {"IF", "ELSE"}
      PROVE  /\ InBody(Front(cont)) /\ Front(cont) \in Seq(Enclosing)
             /\ Mirrors(scopes, Front(cont))
  <2>1. InBody(Front(cont))
    BY <1>2, <1>5, InBodyClose
  <2>2. Mirrors(scopes, Front(cont))
    BY <1>2, <1>3, <1>5, MirrorsPopIf
  <2> QED
    BY <2>1, <2>2 DEF InBody
<1>6. CASE IfOpen
  <2>1. PICK e \in Expressions : parse_expr(scopes, <<>>, e)
    BY <1>6 DEF IfOpen
  <2>2. label_index' \in Nat /\ nodes' \in Seq(Node) /\ uses' \subseteq Use
    BY <1>2, <2>1, ExprType
  <2>3. cont' = Append(cont, "IF") /\ InBody(cont') /\ mode' = "stmt"
    BY <1>2, <1>4, <1>6, StmtBeginsShape DEF IfOpen
  <2>4. Mirrors(scopes, cont')
    BY <1>2, <1>3, <2>3, MirrorsIf
  <2> QED
    BY <1>1, <1>2, <1>6, <2>2, <2>3, <2>4, BodyStep DEF IfOpen
<1>7. CASE Else
  <2>1. Last(cont) \in {"IF", "ELSE"} /\ cont' = Append(Front(cont), "ELSE")
        /\ mode' = "stmt"
    BY <1>7 DEF Else
  <2>2. InBody(cont')
    BY <1>4, <1>5, <2>1, InBodyOpen
  <2>3. Mirrors(scopes, cont')
    BY <1>5, <2>1, MirrorsIf
  <2> QED
    BY <1>1, <1>2, <1>7, <2>1, <2>2, <2>3, BodyStep DEF Else
<1>8. CASE IfReturns
  <2>1. /\ Last(cont) \in {"IF", "ELSE"}
        /\ \E next \in {"done", "noelse"} : StmtReturns(Front(cont), next)
    BY <1>8 DEF IfReturns
  <2>2. cont' = Front(cont) /\ mode' \in {"stmt", "done", "noelse"}
    BY <1>5, <2>1, StmtReturnsShape
  <2>3. <<"IF">> \in Seq(Labelled)
    BY DEF Labelled
  <2>4. label_index' \in Nat /\ nodes' \in Seq(Node)
    BY <1>2, <1>8, <2>3, NewNodesType DEF IfReturns
  <2> QED
    BY <1>1, <1>2, <1>5, <1>8, <2>1, <2>2, <2>4, BodyStep DEF IfReturns
<1> QED
  BY <1>6, <1>7, <1>8

LEMMA StatementStep ==
  ASSUME IInv, Statement
  PROVE  IInv'
BY SimpleStatementStep, OpenStep, BlockCloseStep, ForStep, IfStep DEF Statement

(* The scope of a function, while no statement of it is open.              *)
LEMMA MirrorsNone ==
  ASSUME NEW chain, Len(chain) = 1
  PROVE  Mirrors(chain, <<>>)
<1> DEFINE at == [i \in 2 .. Len(chain) |-> 1]
<1>1. 2 .. Len(chain) = {} /\ 1 .. Len(<<>>) = {}
  BY EmptySeq
<1>2. at \in [2 .. Len(chain) -> 1 .. Len(<<>>)]
  BY <1>1
<1> QED
  BY <1>1, <1>2 DEF Mirrors, MirroredBy

LEMMA FuncBeginStep ==
  ASSUME IInv, FuncBegin
  PROVE  IInv'
<1> DEFINE s == NewScope("FUNCDECL", 0, scope_id')
<1>1. /\ scope_id' \in Nat /\ scopes' = <<s>> /\ cont' = <<>>
      /\ mode' = "params"
  BY DEF FuncBegin, scope_create, IInv, TypeOK, Shape
<1>2. s \in Scope /\ s.kind = "FUNCDECL"
  BY <1>1, EmptySeq DEF NewScope, Scope
<1>3. scopes' \in Seq(Scope) /\ Len(scopes') = 1 /\ scopes'[1].kind = "FUNCDECL"
  BY <1>1, <1>2
<1>4. decl' \in Decl
  <2>1. PICK name \in FuncNames, type \in Types :
          decl' = [name |-> name, type |-> type, args |-> <<>>,
                   varargs |-> FALSE]
    BY DEF FuncBegin
  <2> QED
    BY <2>1, EmptySeq DEF Decl
<1>5. TypeOK'
  BY <1>1, <1>3, <1>4 DEF FuncBegin, IInv, TypeOK, Modes
<1>6. InFunction'
  BY <1>4, ParserAssumption DEF InFunction, Decl
<1>7. Shape'
  BY <1>1, <1>6 DEF Shape, StmtModes
<1>8. ScopesMirrorNesting'
  BY <1>1, <1>3, MirrorsNone DEF ScopesMirrorNesting
<1> QED
  BY <1>5, <1>7, <1>8 DEF IInv

LEMMA ParamStep ==
  ASSUME IInv, Param
  PROVE  IInv'
<1>1. InFunction /\ mode = "params" /\ cont = <<>> /\ decl \in Decl
  BY DEF Param, IInv, TypeOK, Shape, InFunction
<1>2. PICK name \in Names, type \in Types :
        /\ scopes' = AddLocal(scopes, name, type)
        /\ decl' = [decl EXCEPT !.args = Append(@, name)]
  BY DEF Param
<1>3. /\ scopes' \in Seq(Scope) /\ Len(scopes') >= 1
      /\ scopes'[1].kind = "FUNCDECL" /\ Mirrors(scopes', cont)
  BY <1>1, <1>2, DeclareStep
<1>4. decl' \in Decl
  <2>1. Append(decl.args, name) \in Seq(Names)
    BY <1>1, AppendProperties DEF Decl
  <2> QED
    BY <1>1, <1>2, <2>1, Zenon DEF Decl
<1>5. TypeOK'
  BY <1>3, <1>4 DEF Param, IInv, TypeOK
<1>6. InFunction'
  BY <1>4, ParserAssumption DEF InFunction, Decl
<1>7. Shape'
  BY <1>1, <1>6 DEF Param, Shape, StmtModes
<1>8. ScopesMirrorNesting'
  BY <1>3 DEF Param, ScopesMirrorNesting
<1> QED
  BY <1>5, <1>7, <1>8 DEF IInv

LEMMA ParamsEndStep ==
  ASSUME IInv, ParamsEnd
  PROVE  IInv'
<1>1. InFunction /\ mode = "params" /\ cont = <<>> /\ decl \in Decl
  BY DEF ParamsEnd, IInv, TypeOK, Shape, InFunction
<1>2. decl' \in Decl
  BY <1>1, Zenon DEF ParamsEnd, Decl
<1>3. funcs' \in Seq([name : FuncNames, type : Types])
  <2>1. [name |-> decl.name, type |-> decl.type]
          \in [name : FuncNames, type : Types]
    BY <1>1 DEF Decl
  <2>2. /\ funcs' = Append(funcs, [name |-> decl.name, type |-> decl.type])
        /\ funcs \in Seq([name : FuncNames, type : Types])
    BY DEF ParamsEnd, IInv, TypeOK
  <2> QED
    BY <2>1, <2>2, AppendProperties
<1>4. TypeOK'
  BY <1>2, <1>3 DEF ParamsEnd, IInv, TypeOK, Modes
<1>5. InFunction'
  BY <1>2, ParserAssumption DEF InFunction, Decl
<1>6. Shape'
  BY <1>1, <1>5 DEF ParamsEnd, Shape, StmtModes
<1>7. ScopesMirrorNesting'
  BY <1>1 DEF ParamsEnd, IInv, ScopesMirrorNesting
<1> QED
  BY <1>4, <1>6, <1>7 DEF IInv

LEMMA BodyOpenStep ==
  ASSUME IInv, BodyOpen
  PROVE  IInv'
<1>1. /\ InFunction /\ cont = <<>> /\ scopes \in Seq(Scope)
      /\ Len(scopes) >= 1 /\ scopes[1].kind = "FUNCDECL"
      /\ Mirrors(scopes, <<>>)
  BY DEF BodyOpen, IInv, TypeOK, Shape, InFunction, ScopesMirrorNesting
<1>2. cont' = Append(<<>>, "FUNCTION") /\ mode' = "stmt"
  BY DEF BodyOpen
<1>3. InBody(cont')
  BY <1>2 DEF InBody, Enclosing
<1>4. /\ scope_id' \in Nat
      /\ scopes' = Append(scopes, NewScope("BLOCK", 0, scope_id'))
  BY DEF BodyOpen, scope_push, IInv, TypeOK
<1>5. /\ scopes' \in Seq(Scope)
      /\ Len(scopes') = Len(scopes) + 1
      /\ \A i \in 1 .. Len(scopes) : scopes'[i] = scopes[i]
      /\ scopes'[Len(scopes) + 1].kind = "BLOCK"
  BY <1>1, <1>4, PushProperties
<1>6. Len(scopes') >= 1 /\ scopes'[1].kind = "FUNCDECL"
  BY <1>1, <1>5, LenProperties
<1>7. Mirrors(scopes', Append(<<>>, "FUNCTION"))
  BY <1>1, <1>5, EmptySeq, MirrorsPush DEF Enclosing
<1>8. TypeOK'
  BY <1>2, <1>3, <1>4, <1>5 DEF BodyOpen, IInv, TypeOK, Modes, InBody
<1>9. Shape'
  BY <1>1, <1>2, <1>3 DEF BodyOpen, Shape, InFunction
<1>10. ScopesMirrorNesting'
  BY <1>2, <1>6, <1>7 DEF ScopesMirrorNesting
<1> QED
  BY <1>8, <1>9, <1>10 DEF IInv

LEMMA BodyCloseStep ==
  ASSUME IInv, BodyClose
  PROVE  IInv'
<1>1. /\ scopes \in Seq(Scope) /\ Len(scopes) \in Nat /\ Len(scopes) >= 2
      /\ InFunction
  BY BodyHasScopes DEF BodyClose, StmtModes
<1>2. scope_pop(scopes)[1] \in Scope
  <2>1. /\ scope_pop(scopes) \in Seq(Scope)
        /\ 1 \in 1 .. Len(scope_pop(scopes))
    BY <1>1, PopProperties
  <2> QED
    BY <2>1, ElementOfSeq
<1>3. code' \in Seq(Func)
  <2> DEFINE new == [decl   |-> decl,
                     locals |-> scope_pop(scopes)[1].locals,
                     nodes  |-> nodes,
                     jumps  |-> jumps,
                     uses   |-> uses]
  <2>1. scope_pop(scopes)[1].locals \in Seq(Var)
    BY <1>2 DEF Scope
  <2>2. decl \in Decl /\ nodes \in Seq(Node) /\ jumps \subseteq Jump
        /\ uses \subseteq Use /\ code \in Seq(Func)
    BY <1>1 DEF IInv, TypeOK, InFunction
  <2>3. new \in Func
    BY <2>1, <2>2 DEF Func
  <2>4. code' = Append(code, new)
    BY DEF BodyClose
  <2> QED
    BY <2>2, <2>3, <2>4, AppendProperties
<1>4. TypeOK'
  BY <1>3, EmptySeq DEF BodyClose, IInv, TypeOK, Modes
<1>5. ~ InFunction'
  BY DEF BodyClose, InFunction
<1>6. Shape' /\ ScopesMirrorNesting'
  BY <1>5 DEF BodyClose, Shape, ScopesMirrorNesting, StmtModes
<1> QED
  BY <1>4, <1>6 DEF IInv

(* The steps outside functions, and the ones that leave one.               *)
LEMMA TopStep ==
  ASSUME IInv, DeclGlobal \/ Prototype \/ Eof
  PROVE  IInv'
<1>1. CASE DeclGlobal
  <2>1. PICK name \in Names, is_extern \in BOOLEAN :
          globals' = Append(globals, [name |-> name, is_extern |-> is_extern])
    BY <1>1 DEF DeclGlobal
  <2>2. globals' \in Seq([name : Names, is_extern : BOOLEAN])
    BY <2>1, AppendProperties DEF IInv, TypeOK
  <2> QED
    BY <1>1, <2>2 DEF DeclGlobal, IInv, TypeOK, Shape, InFunction,
                      ScopesMirrorNesting
<1>2. CASE Prototype
  <2>1. TypeOK'
    BY <1>2 DEF Prototype, IInv, TypeOK, Modes
  <2>2. ~ InFunction' /\ cont' = <<>> /\ mode' = "top"
    BY <1>2 DEF Prototype, IInv, Shape, InFunction
  <2> QED
    BY <2>1, <2>2 DEF IInv, Shape, ScopesMirrorNesting, StmtModes
<1>3. CASE Eof
  <2>1. TypeOK'
    BY <1>3 DEF Eof, IInv, TypeOK, Modes
  <2>2. ~ InFunction' /\ mode' = "eof"
    BY <1>3 DEF Eof, IInv, Shape, InFunction
  <2> QED
    BY <2>1, <2>2 DEF IInv, Shape, ScopesMirrorNesting, StmtModes
<1> QED
  BY <1>1, <1>2, <1>3

LEMMA ErrorStep ==
  ASSUME IInv, Error
  PROVE  IInv'
<1>1. TypeOK'
  BY EmptySeq DEF Error, TypeOK, Modes
<1>2. ~ InFunction'
  BY DEF Error, InFunction
<1> QED
  BY <1>1, <1>2 DEF Error, IInv, Shape, ScopesMirrorNesting, StmtModes

LEMMA NextIInv ==
  ASSUME IInv, [Next]_vars
  PROVE  IInv'
<1>1. CASE Declaration
  BY <1>1, TopStep, FuncBeginStep, ParamStep, ParamsEndStep, BodyOpenStep,
     BodyCloseStep DEF Declaration
<1>2. CASE Statement
  BY <1>2, StatementStep
<1>3. CASE Error
  BY <1>3, ErrorStep
<1>4. CASE UNCHANGED vars
  <2>1. /\ mode' = mode /\ cont' = cont /\ scopes' = scopes
        /\ scope_id' = scope_id /\ label_index' = label_index
        /\ decl' = decl /\ nodes' = nodes /\ jumps' = jumps
        /\ uses' = uses /\ globals' = globals /\ funcs' = funcs
        /\ code' = code
    BY <1>4 DEF vars
  <2>2. TypeOK'
    BY <2>1 DEF IInv, TypeOK
  <2>3. Shape'
    BY <2>1 DEF IInv, Shape, InFunction
  <2>4. ScopesMirrorNesting'
    BY <2>1 DEF IInv, ScopesMirrorNesting, InFunction
  <2> QED
    BY <2>2, <2>3, <2>4 DEF IInv
<1> QED
  BY <1>1, <1>2, <1>3, <1>4 DEF Next

LEMMA IInvHolds ==
  Spec => []IInv
<1>1. Init => IInv
  BY InitIInv
<1>2. IInv /\ [Next]_vars => IInv'
  BY NextIInv
<1> QED
  BY <1>1, <1>2, PTL DEF Spec

(* The parser's state is well typed whatever it reads (TypeOK).            *)
THEOREM TypeCorrect ==
  Spec => []TypeOK
<1>1. IInv => TypeOK
  BY DEF IInv
<1> QED
  BY <1>1, IInvHolds, PTL

(* scope_push and scope_pop stay balanced with the statements parse_stmt   *)
(* and parse_block have open: whatever is read, the chain from curr_scope  *)
(* is the function's own scope and one for each of them, in order.         *)
THEOREM NestingCorrect ==
  Spec => []ScopesMirrorNesting
<1>1. IInv => ScopesMirrorNesting
  BY DEF IInv
<1> QED
  BY <1>1, IInvHolds, PTL

-----------------------------------------------------------------------------
(* What a step does to the scope chain                                     *)

(* A label is taken for the scope of a while, for or switch in the step    *)
(* that opens it.                                                          *)
OpensBreakable ==
  \E kind \in Breakable, kinds \in Seq(Labelled) :
    /\ scope_push(kind, label_index + 1)
    /\ NewNodes(<<kind>> \o kinds)

Declares ==
  /\ InFunction
  /\ UNCHANGED scope_id
  /\ \E name \in Names, type \in Types :
       /\ ~ AddRefuses(scopes, name, type)
       /\ scopes' = AddLocal(scopes, name, type)

Pops ==
  /\ mode \in StmtModes
  /\ UNCHANGED scope_id
  /\ scopes' = scope_pop(scopes)

LEMMA StatementChain ==
  ASSUME IInv, Statement
  PROVE  \/ UNCHANGED <<scopes, scope_id>>
         \/ Declares
         \/ scope_push("BLOCK", 0)
         \/ OpensBreakable
         \/ Pops
<1>1. CASE VarDecl \/ ForInit
  <2>1. InFunction
    BY <1>1 DEF VarDecl, ForInit, IInv, Shape
  <2>2. /\ scope_id' = scope_id
        /\ \/ scopes' = scopes
           \/ \E name \in Names, type \in Types, e \in Expressions :
                parse_vardecl(name, type, e)
    BY <1>1 DEF VarDecl, ForInit
  <2> QED
    BY <2>1, <2>2 DEF Declares, parse_vardecl
<1>2. CASE BlockOpen
  BY <1>2 DEF BlockOpen
<1>3. CASE WhileOpen \/ SwitchOpen
  <2>1. PICK kind \in {"WHILE", "SWITCH"} : HeadOpen(kind)
    BY <1>3 DEF WhileOpen, SwitchOpen
  <2>2. PICK e \in Expressions : NewNodes(<<kind>> \o Conds(e))
    BY <2>1 DEF HeadOpen, parse_expr
  <2>3. Conds(e) \in Seq(Labelled)
    BY CondsType
  <2>4. kind \in Breakable /\ scope_push(kind, label_index + 1)
    BY <2>1 DEF HeadOpen, Breakable
  <2> QED
    BY <2>2, <2>3, <2>4 DEF OpensBreakable
<1>4. CASE ForOpen
  <2>1. <<"FOR">> \o <<>> = <<"FOR">> /\ <<>> \in Seq(Labelled)
    <3>1. <<"FOR">> \in Seq(Labelled)
      BY DEF Labelled
    <3> QED
      BY <3>1, ConcatEmptySeq, EmptySeq
  <2>2. NewNodes(<<"FOR">> \o <<>>)
    BY <1>4, <2>1 DEF ForOpen
  <2>3. "FOR" \in Breakable /\ scope_push("FOR", label_index + 1)
    BY <1>4 DEF ForOpen, Breakable
  <2> QED
    BY <2>1, <2>2, <2>3, Zenon DEF OpensBreakable
<1>5. CASE BlockClose \/ ForRest \/ BodyReturns
  BY <1>5 DEF BlockClose, ForRest, BodyReturns, StmtModes, Pops
<1>6. CASE ExprStmt \/ ReturnVoid \/ Break \/ Continue \/ Case \/ Default
             \/ IfOpen \/ Else \/ IfReturns
  BY <1>6, Zenon DEF ExprStmt, ReturnVoid, Break, Continue, MakeJump, Case,
                     Default, IfOpen, Else, IfReturns, parse_expr, NewNodes
<1> QED
  BY <1>1, <1>2, <1>3, <1>4, <1>5, <1>6 DEF Statement

LEMMA ChainStep ==
  ASSUME IInv, [Next]_vars
  PROVE  \/ UNCHANGED <<scopes, scope_id>>
         \/ scopes' = <<>>
         \/ FuncBegin
         \/ Declares
         \/ InFunction /\ scope_push("BLOCK", 0)
         \/ InFunction /\ OpensBreakable
         \/ Pops
<1>1. CASE Param
  BY <1>1 DEF Param, Declares, IInv, Shape
<1>2. CASE BodyOpen
  BY <1>2 DEF BodyOpen, IInv, Shape
<1>3. CASE DeclGlobal \/ ParamsEnd \/ Prototype \/ BodyClose \/ Eof
  BY <1>3 DEF DeclGlobal, ParamsEnd, Prototype, BodyClose, Eof
<1>4. CASE Declaration
  BY <1>1, <1>2, <1>3, <1>4 DEF Declaration
<1>5. CASE Statement
  <2>1. mode \in StmtModes
    BY <1>5 DEF Statement, ExprStmt, ReturnVoid, VarDecl, Break, Continue,
                MakeJump, Case, Default, BlockOpen, BlockClose, WhileOpen,
                SwitchOpen, HeadOpen, ForOpen, ForInit, ForRest, BodyReturns,
                IfOpen, Else, IfReturns, StmtModes
  <2>2. InFunction
    BY <2>1 DEF IInv, Shape, StmtModes
  <2> QED
    BY <1>5, <2>2, StatementChain
<1>6. CASE Error
  BY <1>6 DEF Error
<1>7. CASE UNCHANGED vars
  BY <1>7 DEF vars
<1> QED
  BY <1>4, <1>5, <1>6, <1>7 DEF Next

LEMMA PushIs ==
  ASSUME IInv, NEW kind, NEW label, scope_push(kind, label)
  PROVE  /\ Len(scopes') = Len(scopes) + 1
         /\ \A i \in 1 .. Len(scopes) : scopes'[i] = scopes[i]
         /\ scopes'[Len(scopes) + 1] = NewScope(kind, label, scope_id')
<1>1. scopes \in Seq(Scope) /\ scopes' = Append(scopes, NewScope(kind, label, scope_id'))
  BY DEF IInv, TypeOK, scope_push
<1>2. ASSUME NEW id
      PROVE  LET res == Append(scopes, NewScope(kind, label, id))
             IN  /\ Len(res) = Len(scopes) + 1
                 /\ \A i \in 1 .. Len(scopes) : res[i] = scopes[i]
                 /\ res[Len(scopes) + 1] = NewScope(kind, label, id)
  BY <1>1, AppendIs
<1>3. LET res == Append(scopes, NewScope(kind, label, scope_id'))
      IN  /\ Len(res) = Len(scopes) + 1
          /\ \A i \in 1 .. Len(scopes) : res[i] = scopes[i]
          /\ res[Len(scopes) + 1] = NewScope(kind, label, scope_id')
  BY <1>2
<1> QED
  BY <1>1, <1>3, Zenon

-----------------------------------------------------------------------------
(* Frames                                                                  *)

(* The lists of all scopes of the chain, and of all finished functions,    *)
(* are laid out: the invariant behind FramesDisjoint.                      *)
FramesLaidOut ==
  /\ AllLaidOut(scopes)
  /\ \A f \in 1 .. Len(code) : LaidOut(code[f].locals)

LEMMA DeclareLaidOut ==
  ASSUME IInv, InFunction, AllLaidOut(scopes),
         NEW name \in Names, NEW type \in Types,
         scopes' = AddLocal(scopes, name, type)
  PROVE  AllLaidOut(scopes')
<1>1. scopes \in Seq(Scope) /\ Len(scopes) >= 1
  BY DEF IInv, TypeOK, ScopesMirrorNesting
<1> QED
  BY <1>1, AddLocalProperties

LEMMA PushLaidOut ==
  ASSUME IInv, AllLaidOut(scopes), NEW kind \in {"BLOCK"} \cup Breakable,
         NEW label \in Nat, scope_push(kind, label)
  PROVE  AllLaidOut(scopes')
<1>1. /\ scopes \in Seq(Scope) /\ scope_id' \in Nat
      /\ scopes' = Append(scopes, NewScope(kind, label, scope_id'))
  BY DEF scope_push, IInv, TypeOK
<1> DEFINE n == Len(scopes)
<1>2. /\ n \in Nat /\ Len(scopes') = n + 1
      /\ \A i \in 1 .. n : scopes'[i] = scopes[i]
      /\ scopes'[n + 1] = NewScope(kind, label, scope_id')
  BY <1>1, LenProperties, AppendIs
<1>3. LaidOut(scopes'[n + 1].locals)
  <2>1. scopes'[n + 1].locals = <<>>
    BY <1>2 DEF NewScope
  <2> QED
    BY <2>1, EmptySeq DEF LaidOut
<1>4. \A i \in 1 .. n : LaidOut(scopes'[i].locals)
  BY <1>2 DEF AllLaidOut
<1> HIDE DEF n
<1>5. \A i \in 1 .. Len(scopes') : i \in 1 .. n \/ i = n + 1
  BY <1>2
<1> QED
  BY <1>3, <1>4, <1>5, Zenon DEF AllLaidOut

LEMMA PopLaidOut ==
  ASSUME IInv, mode \in StmtModes, AllLaidOut(scopes)
  PROVE  AllLaidOut(scope_pop(scopes))
<1>1. scopes \in Seq(Scope) /\ Len(scopes) >= 2
  BY BodyHasScopes
<1> QED
  BY <1>1, PopProperties

LEMMA EmptyLaidOut ==
  AllLaidOut(<<>>)
BY EmptySeq DEF AllLaidOut

LEMMA FunctionLaidOut ==
  ASSUME NEW id
  PROVE  AllLaidOut(<<NewScope("FUNCDECL", 0, id)>>)
<1>1. LaidOut(<<>>)
  BY EmptySeq DEF LaidOut
<1>2. NewScope("FUNCDECL", 0, id).locals = <<>>
  BY DEF NewScope
<1> QED
  BY <1>1, <1>2 DEF AllLaidOut

LEMMA ScopesStayLaidOut ==
  ASSUME IInv, AllLaidOut(scopes), [Next]_vars
  PROVE  AllLaidOut(scopes')
<1>1. label_index + 1 \in Nat
  BY DEF IInv, TypeOK
<1>2. CASE UNCHANGED <<scopes, scope_id>>
  BY <1>2
<1>3. CASE scopes' = <<>>
  BY <1>3, EmptyLaidOut
<1>4. CASE FuncBegin
  BY <1>4, FunctionLaidOut DEF FuncBegin, scope_create
<1>5. CASE Declares
  BY <1>5, DeclareLaidOut DEF Declares
<1>6. CASE scope_push("BLOCK", 0)
  BY <1>6, PushLaidOut
<1>7. CASE OpensBreakable
  BY <1>1, <1>7, PushLaidOut DEF OpensBreakable
<1>8. CASE Pops
  BY <1>8, PopLaidOut DEF Pops
<1> QED
  BY <1>2, <1>3, <1>4, <1>5, <1>6, <1>7, <1>8, ChainStep

(* Only BodyClose finishes a function.                                     *)
LEMMA CodeStaysLaidOut ==
  ASSUME IInv, FramesLaidOut, [Next]_vars
  PROVE  \A f \in 1 .. Len(code') : LaidOut(code'[f].locals)
<1>1. CASE code' = code
  BY <1>1 DEF FramesLaidOut
<1>2. CASE code' = <<>>
  BY <1>2, EmptySeq
<1>3. CASE BodyClose
  <2> DEFINE new == [decl   |-> decl,
                     locals |-> scope_pop(scopes)[1].locals,
                     nodes  |-> nodes,
                     jumps  |-> jumps,
                     uses   |-> uses]
  <2>1. /\ scopes \in Seq(Scope) /\ Len(scopes) \in Nat /\ Len(scopes) >= 2
        /\ mode \in StmtModes /\ code \in Seq(Func)
    BY <1>3, BodyHasScopes DEF BodyClose, StmtModes, IInv, TypeOK
  <2>2. 1 \in 1 .. Len(scope_pop(scopes))
    BY <2>1, PopProperties
  <2>3. LaidOut(new.locals)
    BY <2>1, <2>2, PopLaidOut DEF FramesLaidOut, AllLaidOut
  <2>4. code' = Append(code, new)
    BY <1>3 DEF BodyClose
  <2> HIDE DEF new
  <2>5. /\ Len(code') = Len(code) + 1 /\ code'[Len(code) + 1] = new
        /\ \A f \in 1 .. Len(code) : code'[f] = code[f]
    BY <2>1, <2>4, AppendIs
  <2> QED
    BY <2>1, <2>3, <2>5, LenProperties DEF FramesLaidOut
<1>4. CASE Declaration
  BY <1>1, <1>3, <1>4
     DEF Declaration, DeclGlobal, FuncBegin, Param, ParamsEnd, Prototype,
         BodyOpen, Eof
<1>5. CASE Statement
  BY <1>1, <1>5
     DEF Statement, ExprStmt, ReturnVoid, VarDecl, Break, Continue, MakeJump,
         Case, Default, BlockOpen, BlockClose, WhileOpen, SwitchOpen,
         HeadOpen, ForOpen, ForInit, ForRest, BodyReturns, IfOpen, Else,
         IfReturns
<1>6. CASE Error
  BY <1>2, <1>6 DEF Error
<1>7. CASE UNCHANGED vars
  BY <1>1, <1>7 DEF vars
<1> QED
  BY <1>4, <1>5, <1>6, <1>7 DEF Next

LEMMA FramesLaidOutHolds ==
  Spec => []FramesLaidOut
<1>1. Init => FramesLaidOut
  BY EmptyLaidOut, EmptySeq DEF Init, FramesLaidOut
<1>2. IInv /\ FramesLaidOut /\ [Next]_vars => FramesLaidOut'
  BY ScopesStayLaidOut, CodeStaysLaidOut DEF FramesLaidOut
<1> QED
  BY <1>1, <1>2, IInvHolds, PTL DEF Spec

(* In every finished function, however many scopes were merged into it,    *)
(* the variables occupy disjoint, aligned slots within the frame.          *)
THEOREM FramesAreDisjoint ==
  Spec => []FramesDisjoint
<1>1. IInv /\ FramesLaidOut => FramesDisjoint
  <2> SUFFICES ASSUME IInv, FramesLaidOut,
                      NEW f \in 1 .. Len(code),
                      NEW j \in 1 .. Len(code[f].locals),
                      NEW k \in 1 .. Len(code[f].locals)
               PROVE  /\ Slot(code[f].locals[k])
                           \subseteq 1 .. LastOffset(code[f].locals)
                      /\ code[f].locals[k].offset % 8 = 0
                      /\ j # k => Slot(code[f].locals[j])
                                    \cap Slot(code[f].locals[k]) = {}
    BY DEF FramesDisjoint
  <2>1. code[f].locals \in Seq(Var)
    <3>1. code[f] \in Func
      BY ElementOfSeq DEF IInv, TypeOK
    <3> QED
      BY <3>1 DEF Func
  <2>2. LaidOut(code[f].locals)
    BY DEF FramesLaidOut
  <2>3. code[f].locals[k].offset % 8 = 0
    BY <2>2 DEF LaidOut
  <2> QED
    BY <2>1, <2>2, <2>3, LaidOutDisjoint
<1> QED
  BY <1>1, IInvHolds, FramesLaidOutHolds, PTL

-----------------------------------------------------------------------------
(* Labels: no two statements of a program share one, and every break and   *)
(* continue leads to the statement it is written in.                       *)

(* What a step does to the nodes                                           *)

(* NewNodes adds its nodes after those there are, numbered on from         *)
(* label_index.                                                            *)
LEMMA NewNodesIs ==
  ASSUME label_index \in Nat, nodes \in Seq(Node),
         NEW kinds \in Seq(Labelled), NewNodes(kinds)
  PROVE  LET n == Len(nodes)
             k == Len(kinds)
         IN  /\ n \in Nat /\ k \in Nat
             /\ Len(nodes') = n + k
             /\ label_index' = label_index + k
             /\ \A i \in 1 .. n : nodes'[i] = nodes[i]
             /\ \A i \in 1 .. k :
                  nodes'[n + i] = [kind |-> kinds[i], label |-> label_index + i]
<1> DEFINE n   == Len(nodes)
           k   == Len(kinds)
           new == [i \in 1 .. k |->
                     [kind |-> kinds[i], label |-> label_index + i]]
<1>1. n \in Nat /\ k \in Nat
  BY LenProperties
<1>2. \A i \in 1 .. k :
        [kind |-> kinds[i], label |-> label_index + i] \in Node
  <2> TAKE i \in 1 .. k
  <2>1. kinds[i] \in Labelled /\ label_index + i \in Nat
    BY ElementOfSeq, <1>1
  <2> QED
    BY <2>1 DEF Node
<1>3. new \in Seq(Node) /\ Len(new) = k
  BY <1>1, <1>2, IsASeq
<1>4. nodes' = nodes \o new /\ label_index' = label_index + k
  BY DEF NewNodes
<1>5. \A i \in 1 .. k :
        new[i] = [kind |-> kinds[i], label |-> label_index + i]
  OBVIOUS
<1> HIDE DEF new
<1>6. /\ Len(nodes') = n + k
      /\ \A i \in 1 .. n : nodes'[i] = nodes[i]
      /\ \A i \in 1 .. k : nodes'[n + i] = new[i]
  <2>1. Len(nodes \o new) = Len(nodes) + Len(new)
    BY <1>3, ConcatIs
  <2>2. \A i \in 1 .. Len(nodes) : (nodes \o new)[i] = nodes[i]
    BY <1>3, ConcatIs
  <2>3. \A j \in 1 .. Len(new) : (nodes \o new)[Len(nodes) + j] = new[j]
    BY <1>3, ConcatIs
  <2> QED
    BY <1>3, <1>4, <2>1, <2>2, <2>3, Zenon
<1> HIDE DEF n, k
<1>7. \A i \in 1 .. k :
        nodes'[n + i] = [kind |-> kinds[i], label |-> label_index + i]
  BY <1>5, <1>6
<1> QED
  BY <1>1, <1>4, <1>6, <1>7 DEF n, k

(* A step leaves nodes and labels alone, takes labels for new nodes,       *)
(* finishes the function or fails.                                         *)
LEMMA NodesStep ==
  ASSUME IInv, [Next]_vars
  PROVE  \/ UNCHANGED <<nodes, label_index, code>>
         \/ UNCHANGED code /\ \E kinds \in Seq(Labelled) : NewNodes(kinds)
         \/ BodyClose
         \/ Error
<1> DEFINE Takes == \E kinds \in Seq(Labelled) : NewNodes(kinds)
<1>1. ASSUME NEW kinds \in Seq(Labelled), NEW chain, NEW e,
             parse_expr(chain, kinds, e)
      PROVE  Takes
  <2>1. kinds \o Conds(e) \in Seq(Labelled)
    BY CondsType, ConcatProperties
  <2> QED
    BY <1>1, <2>1 DEF parse_expr
<1>2. /\ <<>> \in Seq(Labelled)
      /\ \A kind \in Labelled : <<kind>> \in Seq(Labelled)
  BY EmptySeq
<1>3. {"IF", "SWITCH", "WHILE", "FOR", "CASE", "DEFAULT"} \subseteq Labelled
  BY DEF Labelled
<1> HIDE DEF Takes
<1>4. CASE ExprStmt \/ VarDecl \/ IfOpen
  <2>1. \E chain, e : parse_expr(chain, <<>>, e)
    BY <1>4 DEF ExprStmt, VarDecl, IfOpen, parse_vardecl
  <2>2. code' = code
    BY <1>4 DEF ExprStmt, VarDecl, IfOpen
  <2> QED
    BY <1>1, <1>2, <2>1, <2>2 DEF Takes
<1>5. CASE WhileOpen \/ SwitchOpen
  <2>1. PICK kind \in {"WHILE", "SWITCH"} : HeadOpen(kind)
    BY <1>5 DEF WhileOpen, SwitchOpen
  <2>2. code' = code /\ \E chain, e : parse_expr(chain, <<kind>>, e)
    BY <2>1 DEF HeadOpen
  <2>3. <<kind>> \in Seq(Labelled)
    BY <1>2, <1>3
  <2> QED
    BY <1>1, <2>2, <2>3 DEF Takes
<1>6. CASE ForOpen \/ Case \/ Default \/ IfReturns
  <2>1. PICK kind \in {"FOR", "CASE", "DEFAULT", "IF"} :
          code' = code /\ NewNodes(<<kind>>)
    BY <1>6 DEF ForOpen, Case, Default, IfReturns
  <2>2. <<kind>> \in Seq(Labelled)
    BY <1>2, <1>3
  <2> QED
    BY <2>1, <2>2
<1>7. CASE ForInit
  <2>1. \/ \E chain, e : parse_expr(chain, <<>>, e)
        \/ UNCHANGED <<label_index, nodes>>
    BY <1>7 DEF ForInit, parse_vardecl
  <2>2. code' = code
    BY <1>7 DEF ForInit
  <2> QED
    BY <1>1, <1>2, <2>1, <2>2 DEF Takes
<1>8. CASE ForRest
  <2>1. code' = code /\ \E cond, step : NewNodes(Conds(cond) \o Conds(step))
    BY <1>8 DEF ForRest
  <2>2. \A cond, step : Conds(cond) \o Conds(step) \in Seq(Labelled)
    BY CondsType, ConcatProperties
  <2> QED
    BY <2>1, <2>2
<1>9. CASE ReturnVoid \/ Break \/ Continue \/ BlockOpen \/ BlockClose
             \/ BodyReturns \/ Else
  BY <1>9 DEF ReturnVoid, Break, Continue, MakeJump, BlockOpen, BlockClose,
              BodyReturns, Else
<1>10. CASE Statement
  BY <1>4, <1>5, <1>6, <1>7, <1>8, <1>9, <1>10 DEF Statement, Takes
<1>11. CASE Declaration
  BY <1>11 DEF Declaration, DeclGlobal, FuncBegin, Param, ParamsEnd,
               Prototype, BodyOpen, Eof
<1>12. CASE UNCHANGED vars
  BY <1>12 DEF vars
<1> QED
  BY <1>10, <1>11, <1>12 DEF Next

(* Inside a function, nodes only ever grow.                                *)
LEMMA NodesGrow ==
  ASSUME IInv, [Next]_vars, ~ BodyClose, ~ Error
  PROVE  /\ nodes' \in Seq(Node) /\ Len(nodes) <= Len(nodes')
         /\ \A i \in 1 .. Len(nodes) : nodes'[i] = nodes[i]
<1>1. label_index \in Nat /\ nodes \in Seq(Node) /\ Len(nodes) \in Nat
  BY LenProperties DEF IInv, TypeOK
<1>2. nodes' \in Seq(Node)
  BY NextIInv DEF IInv, TypeOK
<1>3. CASE UNCHANGED <<nodes, label_index, code>>
  BY <1>1, <1>3
<1>4. ASSUME NEW kinds \in Seq(Labelled), NewNodes(kinds)
      PROVE  /\ Len(nodes) <= Len(nodes')
             /\ \A i \in 1 .. Len(nodes) : nodes'[i] = nodes[i]
  BY <1>1, <1>4, NewNodesIs
<1> QED
  BY <1>2, <1>3, <1>4, NodesStep

-----------------------------------------------------------------------------
(* Labels are unique                                                       *)

(* The labels taken so far are among 1 .. label_index, and no two nodes    *)
(* have the same.                                                          *)
LabelsTaken ==
  /\ \A f \in 1 .. Len(code) + 1 : \A i \in 1 .. Len(NodesOf(f)) :
       NodesOf(f)[i].label \in 1 .. label_index
  /\ LabelsUnique

LEMMA LabelsNew ==
  ASSUME IInv, LabelsTaken, code' = code,
         NEW kinds \in Seq(Labelled), NewNodes(kinds)
  PROVE  LabelsTaken'
<1> DEFINE n == Len(nodes)
           c == Len(code)
<1>1. /\ label_index \in Nat /\ nodes \in Seq(Node) /\ code \in Seq(Func)
      /\ c \in Nat
  BY LenProperties DEF IInv, TypeOK
<1>2. /\ n \in Nat /\ Len(kinds) \in Nat
      /\ Len(nodes') = n + Len(kinds)
      /\ label_index' = label_index + Len(kinds)
      /\ \A i \in 1 .. n : nodes'[i] = nodes[i]
      /\ \A i \in 1 .. Len(kinds) :
           nodes'[n + i] = [kind |-> kinds[i], label |-> label_index + i]
  BY <1>1, NewNodesIs
<1>3. ASSUME NEW f \in 1 .. c + 1, f # c + 1
      PROVE  NodesOf(f)' = NodesOf(f)
  BY <1>1, <1>3 DEF NodesOf
<1>4. NodesOf(c + 1) = nodes /\ NodesOf(c + 1)' = nodes'
  BY <1>1 DEF NodesOf
(* A node was there before, with the same label, or has a label higher     *)
(* than all of those.                                                      *)
<1> DEFINE Old(f, i) == /\ i \in 1 .. Len(NodesOf(f))
                        /\ NodesOf(f)'[i] = NodesOf(f)[i]
           New(f, i) == /\ f = c + 1
                        /\ \E k \in 1 .. Len(kinds) :
                             /\ i = n + k
                             /\ NodesOf(f)'[i].label = label_index + k
<1>5. ASSUME NEW f \in 1 .. c + 1, NEW i \in 1 .. Len(NodesOf(f)')
      PROVE  Old(f, i) \/ New(f, i)
  <2>1. CASE f # c + 1
    BY <1>3, <2>1
  <2>2. CASE f = c + 1 /\ i <= n
    BY <1>2, <1>4, <2>2
  <2>3. CASE f = c + 1 /\ ~ (i <= n)
    <3>1. PICK k \in 1 .. Len(kinds) : i = n + k
      <4>1. i - n \in 1 .. Len(kinds) /\ i = n + (i - n)
        BY <1>2, <1>4, <2>3
      <4> QED
        BY <4>1
    <3>2. nodes'[n + k].label = label_index + k
      <4>1. nodes'[n + k] = [kind |-> kinds[k], label |-> label_index + k]
        BY <1>2, Zenon
      <4> QED
        BY <4>1
    <3> QED
      BY <1>4, <2>3, <3>1, <3>2
  <2> QED
    BY <2>1, <2>2, <2>3
<1>6. ASSUME NEW f \in 1 .. c + 1, NEW i, Old(f, i)
      PROVE  NodesOf(f)'[i].label \in 1 .. label_index
  BY <1>6 DEF LabelsTaken
<1>7. ASSUME NEW f \in 1 .. c + 1, NEW i, New(f, i)
       PROVE  NodesOf(f)'[i].label \notin 1 .. label_index
  <2>1. PICK k \in 1 .. Len(kinds) : NodesOf(f)'[i].label = label_index + k
    BY <1>7
  <2>2. label_index + k \notin 1 .. label_index
    BY <1>1
  <2> QED
    BY <2>1, <2>2
<1> HIDE DEF n, c
<1>8. ASSUME NEW f \in 1 .. c + 1, NEW i \in 1 .. Len(NodesOf(f)')
      PROVE  NodesOf(f)'[i].label \in 1 .. label_index'
  <2>1. CASE Old(f, i)
    <3>1. NodesOf(f)'[i].label \in 1 .. label_index
      BY <1>6, <2>1
    <3>2. 1 .. label_index \subseteq 1 .. label_index'
      BY <1>1, <1>2
    <3> QED
      BY <3>1, <3>2, Zenon
  <2>2. CASE New(f, i)
    <3>1. PICK k \in 1 .. Len(kinds) :
            NodesOf(f)'[i].label = label_index + k
      BY <2>2
    <3> QED
      BY <1>1, <1>2, <3>1
  <2> QED
    BY <1>5, <2>1, <2>2
<1>9. ASSUME NEW f \in 1 .. c + 1, NEW g \in 1 .. c + 1,
             NEW i \in 1 .. Len(NodesOf(f)'), NEW j \in 1 .. Len(NodesOf(g)'),
             <<f, i>> # <<g, j>>
      PROVE  NodesOf(f)'[i].label # NodesOf(g)'[j].label
  <2>1. CASE Old(f, i) /\ Old(g, j)
    <3>1. /\ f \in 1 .. Len(code) + 1 /\ g \in 1 .. Len(code) + 1
          /\ i \in 1 .. Len(NodesOf(f)) /\ j \in 1 .. Len(NodesOf(g))
      BY <2>1 DEF c
    <3>2. NodesOf(f)[i].label # NodesOf(g)[j].label
      BY <1>9, <3>1, Zenon DEF LabelsTaken, LabelsUnique
    <3> QED
      BY <2>1, <3>2, Zenon
  <2>2. CASE Old(f, i) /\ New(g, j)
    <3>1. NodesOf(f)'[i].label \in 1 .. label_index
      BY <1>6, <2>2
    <3>2. NodesOf(g)'[j].label \notin 1 .. label_index
      BY <1>7, <2>2
    <3> QED
      BY <3>1, <3>2, Zenon
  <2>3. CASE New(f, i) /\ Old(g, j)
    <3>1. NodesOf(f)'[i].label \notin 1 .. label_index
      BY <1>7, <2>3
    <3>2. NodesOf(g)'[j].label \in 1 .. label_index
      BY <1>6, <2>3
    <3> QED
      BY <3>1, <3>2, Zenon
  <2>4. CASE New(f, i) /\ New(g, j)
    <3>1. f = g /\ i # j
      BY <1>9, <2>4
    <3>2. PICK k \in 1 .. Len(kinds) :
            i = n + k /\ NodesOf(f)'[i].label = label_index + k
      BY <2>4
    <3>3. PICK l \in 1 .. Len(kinds) :
            j = n + l /\ NodesOf(g)'[j].label = label_index + l
      BY <2>4
    <3>4. label_index + k # label_index + l
      BY <1>1, <1>2, <3>1, <3>2, <3>3
    <3> QED
      BY <3>2, <3>3, <3>4, Zenon
  <2> QED
    BY <1>5, <2>1, <2>2, <2>3, <2>4
<1>10. Len(code') = c
  BY DEF c
<1> QED
  BY <1>8, <1>9, <1>10 DEF LabelsTaken, LabelsUnique

(* The nodes of the finished function are counted as those of code.        *)
LEMMA LabelsClose ==
  ASSUME IInv, LabelsTaken, BodyClose
  PROVE  LabelsTaken'
<1> DEFINE c   == Len(code)
           new == [decl   |-> decl,
                   locals |-> scope_pop(scopes)[1].locals,
                   nodes  |-> nodes,
                   jumps  |-> jumps,
                   uses   |-> uses]
<1>1. code \in Seq(Func) /\ c \in Nat
  BY LenProperties DEF IInv, TypeOK
<1>2. code' = Append(code, new) /\ nodes' = <<>> /\ label_index' = label_index
  BY DEF BodyClose
<1>3. new.nodes = nodes
  OBVIOUS
<1> HIDE DEF new
<1>4. /\ Len(code') = c + 1 /\ code'[c + 1] = new
      /\ \A f \in 1 .. c : code'[f] = code[f]
  BY <1>1, <1>2, AppendIs
<1>5. ASSUME NEW f \in 1 .. c + 1
      PROVE  NodesOf(f)' = NodesOf(f)
  BY <1>1, <1>3, <1>4 DEF NodesOf
<1>6. ASSUME NEW f \in 1 .. Len(code') + 1, NEW i \in 1 .. Len(NodesOf(f)')
      PROVE  f \in 1 .. c + 1 /\ NodesOf(f)' = NodesOf(f)
  <2>1. f # c + 2
    <3>1. CASE f = c + 2
      <4>1. NodesOf(f)' = <<>>
        BY <1>1, <1>2, <1>4, <3>1 DEF NodesOf
      <4>2. Len(<<>>) = 0
        BY EmptySeq
      <4> QED
        BY <1>6, <4>1, <4>2
    <3> QED
      BY <3>1
  <2>2. f \in 1 .. c + 1
    BY <1>1, <1>4, <2>1
  <2> QED
    BY <1>5, <2>2
<1>7. ASSUME NEW f \in 1 .. Len(code') + 1, NEW i \in 1 .. Len(NodesOf(f)')
      PROVE  /\ f \in 1 .. Len(code) + 1 /\ i \in 1 .. Len(NodesOf(f))
             /\ NodesOf(f)'[i].label = NodesOf(f)[i].label
  <2>1. f \in 1 .. c + 1 /\ NodesOf(f)' = NodesOf(f)
    BY <1>6, <1>7
  <2> QED
    BY <1>7, <2>1, Zenon DEF c
<1>8. ASSUME NEW f \in 1 .. Len(code') + 1, NEW i \in 1 .. Len(NodesOf(f)')
      PROVE  NodesOf(f)'[i].label \in 1 .. label_index'
  <2>1. NodesOf(f)[i].label \in 1 .. label_index
    BY <1>7, <1>8, Zenon DEF LabelsTaken
  <2>2. NodesOf(f)'[i].label = NodesOf(f)[i].label
    BY <1>7, <1>8, Zenon
  <2> QED
    BY <1>2, <2>1, <2>2, Zenon
<1>9. ASSUME NEW f \in 1 .. Len(code') + 1, NEW g \in 1 .. Len(code') + 1,
             NEW i \in 1 .. Len(NodesOf(f)'), NEW j \in 1 .. Len(NodesOf(g)'),
             <<f, i>> # <<g, j>>
      PROVE  NodesOf(f)'[i].label # NodesOf(g)'[j].label
  <2>1. /\ f \in 1 .. Len(code) + 1 /\ i \in 1 .. Len(NodesOf(f))
        /\ NodesOf(f)'[i].label = NodesOf(f)[i].label
    BY <1>7, <1>9, Zenon
  <2>2. /\ g \in 1 .. Len(code) + 1 /\ j \in 1 .. Len(NodesOf(g))
        /\ NodesOf(g)'[j].label = NodesOf(g)[j].label
    BY <1>7, <1>9, Zenon
  <2>3. NodesOf(f)[i].label # NodesOf(g)[j].label
    BY <1>9, <2>1, <2>2, Zenon DEF LabelsTaken, LabelsUnique
  <2> QED
    BY <2>1, <2>2, <2>3, Zenon
<1> QED
  BY <1>8, <1>9, Zenon DEF LabelsTaken, LabelsUnique

LEMMA LabelsStep ==
  ASSUME IInv, LabelsTaken, [Next]_vars
  PROVE  LabelsTaken'
<1>1. CASE UNCHANGED <<nodes, label_index, code>>
  <2>1. \A f : NodesOf(f)' = NodesOf(f)
    BY <1>1 DEF NodesOf
  <2> QED
    BY <1>1, <2>1 DEF LabelsTaken, LabelsUnique
<1>2. CASE UNCHANGED code /\ \E kinds \in Seq(Labelled) : NewNodes(kinds)
  BY <1>2, LabelsNew
<1>3. CASE BodyClose
  BY <1>3, LabelsClose
<1>4. CASE Error
  <2>1. code' = <<>> /\ nodes' = <<>> /\ label_index' = 0
    BY <1>4 DEF Error
  <2> QED
    BY <2>1 DEF LabelsTaken, LabelsUnique, NodesOf
<1> QED
  BY <1>1, <1>2, <1>3, <1>4, NodesStep

LEMMA LabelsTakenHolds ==
  Spec => []LabelsTaken
<1>1. Init => LabelsTaken
  BY DEF Init, LabelsTaken, LabelsUnique, NodesOf
<1>2. IInv /\ LabelsTaken /\ [Next]_vars => LabelsTaken'
  BY LabelsStep
<1> QED
  BY <1>1, <1>2, IInvHolds, PTL DEF Spec

(* No two nodes of a program, of the same function or of different ones,   *)
(* have the same label_index: the names codegen derives from it never      *)
(* clash (LabelsUnique).                                                   *)
THEOREM LabelsAreUnique ==
  Spec => []LabelsUnique
<1>1. LabelsTaken => LabelsUnique
  BY DEF LabelsTaken
<1> QED
  BY <1>1, LabelsTakenHolds, PTL

-----------------------------------------------------------------------------
(* Jumps                                                                   *)

IsBreakable(s) == s.kind \in Breakable

Lands(j, ns) ==
  \E i \in 1 .. Len(ns) :
    /\ ns[i].label = j.label
    /\ ns[i].kind \in Targets(j.kind)

(* The scope of an open while, for or switch has the label of its node.    *)
ScopesLabelled ==
  \A s \in 1 .. Len(scopes) :
    IsBreakable(scopes[s]) =>
      \E i \in 1 .. Len(nodes) :
        nodes[i] = [kind |-> scopes[s].kind, label |-> scopes[s].label]

JumpsAnchored ==
  /\ ScopesLabelled
  /\ \A j \in jumps : Lands(j, nodes)
  /\ JumpsLand

(* Two chains whose scopes, as far as the shorter one goes, are the same   *)
(* but for their variables.                                                *)
SameHeads(new, old) ==
  /\ Len(new) <= Len(old)
  /\ \A i \in 1 .. Len(new) :
       new[i].kind = old[i].kind /\ new[i].label = old[i].label

LEMMA AddLocalHeads ==
  ASSUME NEW chain \in Seq(Scope), Len(chain) >= 1,
         NEW name \in Names, NEW type \in Types
  PROVE  SameHeads(AddLocal(chain, name, type), chain)
<1> DEFINE n   == Len(chain)
           res == AddLocal(chain, name, type)
<1>1. n \in Nat /\ n \in 1 .. n /\ chain[n] \in Scope
  BY LenProperties, ElementOfSeq
<1>2. /\ Len(res) = n
      /\ \A i \in 1 .. n - 1 : res[i] = chain[i]
      /\ res[n] = [chain[n] EXCEPT
                     !.locals = add_var(chain[n].locals, name, type,
                                        chain[n].id)]
  BY AddLocalIs
<1> HIDE DEF res
<1>3. res[n].kind = chain[n].kind /\ res[n].label = chain[n].label
  BY <1>1, <1>2, Zenon DEF Scope
<1>4. ASSUME NEW i \in 1 .. Len(res)
      PROVE  res[i].kind = chain[i].kind /\ res[i].label = chain[i].label
  <2>1. i = n \/ i \in 1 .. n - 1
    BY <1>1, <1>2
  <2> QED
    BY <1>2, <1>3, <2>1, Zenon
<1>5. Len(res) <= n
  BY <1>1, <1>2
<1> QED
  BY <1>4, <1>5 DEF SameHeads, res

LEMMA PopHeads ==
  ASSUME NEW chain \in Seq(Scope), Len(chain) >= 2
  PROVE  SameHeads(scope_pop(chain), chain)
<1> DEFINE n   == Len(chain)
           res == scope_pop(chain)
<1>1. n \in Nat /\ n - 1 \in 1 .. n /\ chain[n - 1] \in Scope
  BY LenProperties, ElementOfSeq
<1>2. /\ Len(res) = n - 1
      /\ \A i \in 1 .. n - 2 : res[i] = chain[i]
      /\ res[n - 1] = MergeInto(chain[n - 1], chain[n])
  BY PopIs
<1> HIDE DEF res
<1>3. /\ res[n - 1].kind = chain[n - 1].kind
      /\ res[n - 1].label = chain[n - 1].label
  BY <1>1, <1>2, Zenon DEF Scope, MergeInto
<1> QED
  BY <1>1, <1>2, <1>3 DEF SameHeads, res

(* The scopes of a step: either all were there before, or one is new and   *)
(* innermost; that one is a block's, or has the label taken in the step.   *)
LEMMA HeadsStep ==
  ASSUME IInv, [Next]_vars
  PROVE  \/ SameHeads(scopes', scopes)
         \/ FuncBegin
         \/ scope_push("BLOCK", 0)
         \/ OpensBreakable
<1>1. scopes \in Seq(Scope) /\ Len(scopes) \in Nat
  BY LenProperties DEF IInv, TypeOK
<1>2. CASE UNCHANGED <<scopes, scope_id>>
  BY <1>1, <1>2 DEF SameHeads
<1>3. CASE scopes' = <<>>
  BY <1>1, <1>3, EmptySeq DEF SameHeads
<1>4. CASE Declares
  <2>1. Len(scopes) >= 1
    BY <1>4 DEF Declares, IInv, ScopesMirrorNesting
  <2> QED
    BY <1>1, <1>4, <2>1, AddLocalHeads DEF Declares
<1>5. CASE Pops
  <2>1. Len(scopes) >= 2
    BY <1>5, BodyHasScopes DEF Pops
  <2> QED
    BY <1>1, <1>5, <2>1, PopHeads DEF Pops
<1> QED
  BY <1>2, <1>3, <1>4, <1>5, ChainStep

LEMMA OpensBreakableIs ==
  ASSUME IInv, OpensBreakable
  PROVE  \E kind \in Breakable :
           /\ Len(scopes') = Len(scopes) + 1
           /\ \A i \in 1 .. Len(scopes) : scopes'[i] = scopes[i]
           /\ scopes'[Len(scopes) + 1].kind = kind
           /\ scopes'[Len(scopes) + 1].label = label_index + 1
           /\ Len(nodes) + 1 \in 1 .. Len(nodes')
           /\ nodes'[Len(nodes) + 1]
                = [kind |-> kind, label |-> label_index + 1]
<1>1. PICK kind \in Breakable, kinds \in Seq(Labelled) :
        scope_push(kind, label_index + 1) /\ NewNodes(<<kind>> \o kinds)
  BY DEF OpensBreakable
<1>2. label_index \in Nat /\ nodes \in Seq(Node)
  BY DEF IInv, TypeOK
<1>3. <<kind>> \in Seq(Labelled) /\ Len(<<kind>>) = 1 /\ <<kind>>[1] = kind
  BY DEF Breakable, Labelled
<1> DEFINE all == <<kind>> \o kinds
<1>4. all \in Seq(Labelled) /\ Len(all) >= 1 /\ all[1] = kind
      /\ Len(all) \in Nat
  <2>1. Len(kinds) \in Nat
    BY LenProperties
  <2> QED
    BY <1>3, <2>1, ConcatProperties
<1> HIDE DEF all
<1>5. /\ Len(nodes) \in Nat /\ Len(nodes') = Len(nodes) + Len(all)
      /\ \A i \in 1 .. Len(all) :
           nodes'[Len(nodes) + i] = [kind |-> all[i], label |-> label_index + i]
  BY <1>1, <1>2, <1>4, NewNodesIs DEF all
<1>6. nodes'[Len(nodes) + 1] = [kind |-> kind, label |-> label_index + 1]
  BY <1>4, <1>5
<1>7. Len(nodes) + 1 \in 1 .. Len(nodes')
  BY <1>4, <1>5
<1>8. /\ Len(scopes') = Len(scopes) + 1
      /\ \A i \in 1 .. Len(scopes) : scopes'[i] = scopes[i]
      /\ scopes'[Len(scopes) + 1] = NewScope(kind, label_index + 1, scope_id')
  BY <1>1, PushIs
<1>9. /\ scopes'[Len(scopes) + 1].kind = kind
      /\ scopes'[Len(scopes) + 1].label = label_index + 1
  BY <1>8 DEF NewScope
<1> QED
  BY <1>6, <1>7, <1>8, <1>9

-----------------------------------------------------------------------------
(* Every step keeps the jumps anchored                                     *)

LEMMA ScopesLabelledStep ==
  ASSUME IInv, [Next]_vars, ScopesLabelled
  PROVE  ScopesLabelled'
<1>1. /\ Len(scopes) \in Nat /\ Len(scopes') \in Nat /\ Len(nodes) \in Nat
      /\ Len(nodes') \in Nat
  BY NextIInv, LenProperties DEF IInv, TypeOK
<1>2. CASE scopes' = <<>>
  BY <1>2, EmptySeq DEF ScopesLabelled
<1>3. CASE FuncBegin
  BY <1>3 DEF FuncBegin, scope_create, NewScope, ScopesLabelled, IsBreakable,
              Breakable
<1>4. ASSUME ~ BodyClose, ~ Error, NEW s \in 1 .. Len(scopes),
             IsBreakable(scopes[s])
      PROVE  \E i \in 1 .. Len(nodes') :
               nodes'[i] = [kind  |-> scopes[s].kind,
                            label |-> scopes[s].label]
  <2>1. PICK i \in 1 .. Len(nodes) :
          nodes[i] = [kind |-> scopes[s].kind, label |-> scopes[s].label]
    BY <1>4 DEF ScopesLabelled
  <2>2. i \in 1 .. Len(nodes') /\ nodes'[i] = nodes[i]
    BY <1>1, <1>4, NodesGrow
  <2> QED
    BY <2>1, <2>2
<1>5. CASE ~ BodyClose /\ ~ Error /\ SameHeads(scopes', scopes)
  <2> SUFFICES ASSUME NEW s \in 1 .. Len(scopes'), IsBreakable(scopes'[s])
               PROVE  \E i \in 1 .. Len(nodes') :
                        nodes'[i] = [kind  |-> scopes'[s].kind,
                                     label |-> scopes'[s].label]
    BY DEF ScopesLabelled, IsBreakable
  <2>1. /\ s \in 1 .. Len(scopes) /\ scopes'[s].kind = scopes[s].kind
        /\ scopes'[s].label = scopes[s].label
    BY <1>1, <1>5 DEF SameHeads
  <2> QED
    BY <1>4, <1>5, <2>1 DEF IsBreakable
<1>6. CASE /\ ~ BodyClose /\ ~ Error
           /\ Len(scopes') = Len(scopes) + 1
           /\ \A i \in 1 .. Len(scopes) : scopes'[i] = scopes[i]
           /\ LET new == scopes'[Len(scopes) + 1]
              IN  \/ new.kind = "BLOCK"
                 \/ \E i \in 1 .. Len(nodes') :
                      nodes'[i] = [kind |-> new.kind, label |-> new.label]
  <2> SUFFICES ASSUME NEW s \in 1 .. Len(scopes'), IsBreakable(scopes'[s])
               PROVE  \E i \in 1 .. Len(nodes') :
                        nodes'[i] = [kind  |-> scopes'[s].kind,
                                     label |-> scopes'[s].label]
    BY DEF ScopesLabelled, IsBreakable
  <2>1. CASE s = Len(scopes) + 1
    BY <1>6, <2>1 DEF IsBreakable, Breakable
  <2>2. CASE s # Len(scopes) + 1
    <3>1. s \in 1 .. Len(scopes) /\ scopes'[s] = scopes[s]
      BY <1>1, <1>6, <2>2
    <3> QED
      BY <1>4, <1>6, <3>1
  <2> QED
    BY <2>1, <2>2
<1>7. CASE BodyClose \/ Error
  BY <1>2, <1>7 DEF BodyClose, Error
<1>8. CASE ~ BodyClose /\ ~ Error /\ scope_push("BLOCK", 0)
  <2>1. /\ Len(scopes') = Len(scopes) + 1
        /\ \A i \in 1 .. Len(scopes) : scopes'[i] = scopes[i]
        /\ scopes'[Len(scopes) + 1] = NewScope("BLOCK", 0, scope_id')
    BY <1>8, PushIs
  <2>2. scopes'[Len(scopes) + 1].kind = "BLOCK"
    BY <2>1 DEF NewScope
  <2> QED
    BY <1>6, <1>8, <2>1, <2>2
<1>9. CASE ~ BodyClose /\ ~ Error /\ OpensBreakable
  BY <1>6, <1>9, OpensBreakableIs
<1> QED
  BY <1>3, <1>5, <1>7, <1>8, <1>9, HeadsStep

(* A search for a scope whose kind no scope has comes to nothing, and the  *)
(* label found where there is one is that of a scope.                      *)
LEMMA InnermostLabelIsNot ==
  ASSUME scopes \in Seq(Scope), NEW kinds,
         \A s \in 1 .. Len(scopes) :
           scopes[s].kind \in kinds => scopes[s].label # 0
  PROVE  (\E s \in 1 .. Len(scopes) : scopes[s].kind \in kinds)
           => InnermostLabel(kinds) # 0
<1> DEFINE I == {i \in 1 .. Len(scopes) : scopes[i].kind \in kinds}
           k == SelectLastInSeq(scopes, LAMBDA s : s.kind \in kinds)
<1>1. k = IF I # {} THEN Max(I) ELSE 0
  BY DEF SelectLastInSeq
<1>2. Len(scopes) \in Nat /\ I \in SUBSET (1 .. Len(scopes))
  BY LenProperties
<1>3. InnermostLabel(kinds) = IF k = 0 THEN 0 ELSE scopes[k].label
  BY DEF InnermostLabel
<1> HIDE DEF k
<1>4. ASSUME I # {}
      PROVE  InnermostLabel(kinds) # 0
  <2>1. k \in I
    BY <1>1, <1>2, <1>4, MaxOfInterval
  <2> QED
    BY <1>2, <1>3, <2>1
<1> QED
  BY <1>4

(* The label of the scope of an open while, for or switch is a node's.     *)
LEMMA LabelsPositive ==
  ASSUME IInv, LabelsTaken, ScopesLabelled, NEW s \in 1 .. Len(scopes),
         scopes[s].kind \in Breakable
  PROVE  scopes[s].label # 0
<1>1. PICK i \in 1 .. Len(nodes) :
        nodes[i] = [kind |-> scopes[s].kind, label |-> scopes[s].label]
  BY DEF ScopesLabelled, IsBreakable
<1>2. Len(code) \in Nat /\ label_index \in Nat
  BY LenProperties DEF IInv, TypeOK
<1>3. NodesOf(Len(code) + 1) = nodes
  BY <1>2 DEF NodesOf
<1>4. Len(code) + 1 \in 1 .. Len(code) + 1
  BY <1>2
<1>5. nodes[i].label \in 1 .. label_index
  BY <1>3, <1>4 DEF LabelsTaken
<1> QED
  BY <1>1, <1>2, <1>5

(* The scope whose label a jump takes is the innermost of its kinds.       *)
LEMMA InnermostLabelIs ==
  ASSUME scopes \in Seq(Scope), NEW kinds, InnermostLabel(kinds) # 0
  PROVE  \E k \in 1 .. Len(scopes) :
           /\ scopes[k].kind \in kinds
           /\ scopes[k].label = InnermostLabel(kinds)
           /\ \A s \in 1 .. Len(scopes) : scopes[s].kind \in kinds => s <= k
<1> DEFINE I == {i \in 1 .. Len(scopes) : scopes[i].kind \in kinds}
           k == SelectLastInSeq(scopes, LAMBDA s : s.kind \in kinds)
<1>1. k = IF I # {} THEN Max(I) ELSE 0
  BY DEF SelectLastInSeq
<1>2. Len(scopes) \in Nat /\ I \in SUBSET (1 .. Len(scopes))
  BY LenProperties
<1>3. k # 0 /\ scopes[k].label = InnermostLabel(kinds)
  BY DEF InnermostLabel
<1>4. I # {} /\ k = Max(I)
  BY <1>1, <1>3
<1> HIDE DEF k
<1>5. k \in I /\ \A i \in I : i <= k
  BY <1>2, <1>4, MaxOfInterval
<1> QED
  BY <1>3, <1>5

LEMMA LandsGrow ==
  ASSUME IInv, [Next]_vars, ~ BodyClose, ~ Error, NEW j, Lands(j, nodes)
  PROVE  Lands(j, nodes')
<1>1. /\ Len(nodes) \in Nat /\ Len(nodes') \in Nat
      /\ Len(nodes) <= Len(nodes')
      /\ \A i \in 1 .. Len(nodes) : nodes'[i] = nodes[i]
  BY NodesGrow, LenProperties DEF IInv, TypeOK
<1>2. PICK i \in 1 .. Len(nodes) :
        /\ nodes[i].label = j.label
        /\ nodes[i].kind \in Targets(j.kind)
  BY DEF Lands
<1>3. i \in 1 .. Len(nodes') /\ nodes'[i] = nodes[i]
  BY <1>1
<1> QED
  BY <1>2, <1>3 DEF Lands

(* A jump leads to the node of the scope whose label it takes.             *)
LEMMA JumpLands ==
  ASSUME IInv, ScopesLabelled, NEW kind \in {"BREAK", "CONTINUE"},
         MakeJump(JumpOf(kind, Targets(kind)))
  PROVE  \A j \in jumps' \ jumps : j.kind = kind /\ Lands(j, nodes)
<1> DEFINE T == Targets(kind)
           new == [kind |-> kind, label |-> InnermostLabel(T)]
<1>1. jumps' = jumps \cup {new} /\ InnermostLabel(T) # 0
  BY DEF MakeJump, JumpOf
<1>2. scopes \in Seq(Scope)
  BY DEF IInv, TypeOK
<1>3. T \subseteq Breakable
  BY DEF Targets, Breakable, Loops
<1> HIDE DEF T
<1>4. PICK k \in 1 .. Len(scopes) :
        scopes[k].kind \in T /\ scopes[k].label = InnermostLabel(T)
  BY <1>1, <1>2, InnermostLabelIs
<1>5. PICK i \in 1 .. Len(nodes) :
        nodes[i] = [kind |-> scopes[k].kind, label |-> scopes[k].label]
  BY <1>3, <1>4 DEF ScopesLabelled, IsBreakable
<1>6. nodes[i].label = new.label /\ nodes[i].kind \in T
  BY <1>4, <1>5
<1>7. new.kind = kind
  OBVIOUS
<1>8. Lands(new, nodes)
  BY <1>6, <1>7 DEF Lands, T
<1> HIDE DEF new
<1> QED
  BY <1>1, <1>7, <1>8

LEMMA JumpsStep ==
  ASSUME [Next]_vars
  PROVE  \/ jumps' \subseteq jumps
         \/ \E kind \in {"BREAK", "CONTINUE"} :
              MakeJump(JumpOf(kind, Targets(kind)))
<1>1. CASE Break \/ Continue
  BY <1>1 DEF Break, Continue, BreakHere, ContinueHere, Targets
<1>2. CASE Declaration
  BY <1>2 DEF Declaration, DeclGlobal, FuncBegin, Param, ParamsEnd, Prototype,
              BodyOpen, BodyClose, Eof
<1>3. CASE Statement
  BY <1>1, <1>3
     DEF Statement, ExprStmt, ReturnVoid, VarDecl, Case, Default, BlockOpen,
         BlockClose, WhileOpen, SwitchOpen, HeadOpen, ForOpen, ForInit,
         ForRest, BodyReturns, IfOpen, Else, IfReturns
<1>4. CASE Error
  BY <1>4 DEF Error
<1>5. CASE UNCHANGED vars
  BY <1>5 DEF vars
<1> QED
  BY <1>2, <1>3, <1>4, <1>5 DEF Next

LEMMA JumpsAnchoredStep ==
  ASSUME IInv, LabelsTaken, JumpsAnchored, [Next]_vars
  PROVE  JumpsAnchored'
<1>1. ScopesLabelled'
  BY ScopesLabelledStep DEF JumpsAnchored
<1>2. \A j \in jumps' : Lands(j, nodes')
  <2>1. CASE BodyClose \/ Error
    BY <2>1 DEF BodyClose, Error
  <2>2. CASE ~ BodyClose /\ ~ Error
    <3>1. \A j \in jumps' : Lands(j, nodes)
      BY JumpsStep, JumpLands DEF JumpsAnchored
    <3> QED
      BY <2>2, <3>1, LandsGrow
  <2> QED
    BY <2>1, <2>2
<1>3. JumpsLand'
  <2>1. CASE BodyClose
    <3> DEFINE new == [decl   |-> decl,
                       locals |-> scope_pop(scopes)[1].locals,
                       nodes  |-> nodes,
                       jumps  |-> jumps,
                       uses   |-> uses]
    <3>1. code' = Append(code, new) /\ code \in Seq(Func)
      BY <2>1 DEF BodyClose, IInv, TypeOK
    <3>2. new.nodes = nodes /\ new.jumps = jumps
      OBVIOUS
    <3> HIDE DEF new
    <3>3. /\ Len(code') = Len(code) + 1 /\ code'[Len(code) + 1] = new
          /\ \A f \in 1 .. Len(code) : code'[f] = code[f]
          /\ Len(code) \in Nat
      BY <3>1, AppendIs, LenProperties
    <3>4. ASSUME NEW f \in 1 .. Len(code'), NEW j \in code'[f].jumps
          PROVE  Lands(j, code'[f].nodes)
      <4>1. CASE f = Len(code) + 1
        BY <3>2, <3>3, <4>1 DEF JumpsAnchored
      <4>2. CASE f # Len(code) + 1
        <5>1. f \in 1 .. Len(code) /\ code'[f] = code[f]
          BY <3>3, <4>2
        <5> QED
          BY <5>1 DEF JumpsAnchored, JumpsLand, Lands
      <4> QED
        BY <4>1, <4>2
    <3> QED
      BY <3>4 DEF JumpsLand, Lands
  <2>2. CASE Error
    BY <2>2, EmptySeq DEF Error, JumpsLand
  <2>3. CASE code' = code
    BY <2>3 DEF JumpsAnchored, JumpsLand
  <2> QED
    BY <2>1, <2>2, <2>3, NodesStep
<1> QED
  BY <1>1, <1>2, <1>3 DEF JumpsAnchored

LEMMA JumpsAnchoredHolds ==
  Spec => []JumpsAnchored
<1>1. Init => JumpsAnchored
  BY EmptySeq DEF Init, JumpsAnchored, ScopesLabelled, JumpsLand
<1>2. IInv /\ LabelsTaken /\ JumpsAnchored /\ [Next]_vars => JumpsAnchored'
  BY JumpsAnchoredStep
<1> QED
  BY <1>1, <1>2, IInvHolds, LabelsTakenHolds, PTL DEF Spec

(* Every break and continue of a finished function has the label of a      *)
(* while, for or switch of that function, a continue that of a loop: the   *)
(* branch codegen emits for it has its target (JumpsLand).                 *)
THEOREM JumpsAllLand ==
  Spec => []JumpsLand
<1>1. JumpsAnchored => JumpsLand
  BY DEF JumpsAnchored
<1> QED
  BY <1>1, JumpsAnchoredHolds, PTL

(* Each kind of jump is made by its own production.                        *)
LEMMA JumpsOfKind ==
  ASSUME NEW kind \in {"BREAK", "CONTINUE"}
  PROVE  {j \in BreakHere \cup ContinueHere : j.kind = kind}
           = JumpOf(kind, Targets(kind))
<1>1. BreakHere = JumpOf("BREAK", Breakable)
  BY DEF BreakHere
<1>2. ContinueHere = JumpOf("CONTINUE", Loops)
  BY DEF ContinueHere
<1>3. ASSUME NEW k, NEW targets, NEW j \in JumpOf(k, targets)
      PROVE  j.kind = k
  BY <1>3 DEF JumpOf
<1>4. CASE kind = "BREAK"
  <2>1. Targets(kind) = Breakable /\ kind # "CONTINUE"
    BY <1>4 DEF Targets
  <2> QED
    BY <1>1, <1>2, <1>3, <1>4, <2>1
<1>5. CASE kind = "CONTINUE"
  <2>1. Targets(kind) = Loops /\ kind # "BREAK"
    BY <1>5 DEF Targets
  <2> QED
    BY <1>1, <1>2, <1>3, <1>5, <2>1
<1> QED
  BY <1>4, <1>5

(* The scope and the statement a jump leaves: both are the innermost that  *)
(* fit, and they belong together.                                          *)
LEMMA JumpInnermost ==
  ASSUME IInv, LabelsTaken, ScopesLabelled, mode = "stmt",
         NEW at \in [2 .. Len(scopes) -> 1 .. Len(cont)],
         MirroredBy(at, scopes, cont),
         NEW kind \in {"BREAK", "CONTINUE"}
  PROVE  IsInnermost(at, kind, JumpOf(kind, Targets(kind)))
<1> DEFINE T == Targets(kind)
           n == Len(scopes)
           m == Len(cont)
           open == {k \in 1 .. m : cont[k] \in T}
           made == JumpOf(kind, T)
<1>1. /\ scopes \in Seq(Scope) /\ n \in Nat /\ n >= 2
      /\ scopes[1].kind = "FUNCDECL" /\ m \in Nat
  BY BodyHasScopes, LenProperties DEF StmtModes, IInv, TypeOK
<1>2. /\ T \subseteq Breakable
      /\ \A kd \in T : kd \notin {"FUNCTION", "BLOCK", "IF", "ELSE", "FUNCDECL"}
  BY DEF Targets, Breakable, Loops
<1>3. /\ \A i, j \in 2 .. n : i < j => at[i] < at[j]
      /\ \A k \in 1 .. m :
           cont[k] \notin {"IF", "ELSE"} => \E i \in 2 .. n : at[i] = k
      /\ \A i \in 2 .. n :
           scopes[i].kind = IF cont[at[i]] = "FUNCTION" THEN "BLOCK"
                            ELSE cont[at[i]]
      /\ \A i \in 2 .. n : at[i] \in 1 .. m
  BY DEF MirroredBy
<1> HIDE DEF T
(* A statement that fits and the scope of one that fits.                   *)
<1>4. ASSUME NEW i \in 2 .. n
      PROVE  scopes[i].kind \in T <=> at[i] \in open
  <2>1. at[i] \in 1 .. m
    BY <1>3
  <2>2. CASE cont[at[i]] = "FUNCTION"
    BY <1>2, <1>3, <2>1, <2>2
  <2>3. CASE cont[at[i]] # "FUNCTION"
    BY <1>3, <2>1, <2>3
  <2> QED
    BY <2>2, <2>3
<1>5. \A k \in open : \E i \in 2 .. n : at[i] = k
  BY <1>2, <1>3
<1>6. \A i \in 1 .. n : scopes[i].kind \in T => i \in 2 .. n
  BY <1>1, <1>2
<1> HIDE DEF open
<1>7. CASE open = {}
  <2>1. \A i \in 1 .. n : scopes[i].kind \notin T
    BY <1>4, <1>6, <1>7
  <2>2. InnermostLabel(T) = 0
    BY <1>1, <2>1, InnermostLabelIs
  <2>3. made = {}
    BY <2>2 DEF JumpOf
  <2> HIDE DEF made
  <2> QED
    BY <1>7, <2>3 DEF IsInnermost, open, made, T
<1>8. CASE open # {}
  <2>1. PICK i \in 2 .. n : at[i] \in open
    BY <1>5, <1>8
  <2>2. i \in 1 .. n /\ scopes[i].kind \in T
    BY <1>1, <1>4, <2>1
  <2>3. \A s \in 1 .. n : scopes[s].kind \in T => scopes[s].label # 0
    BY <1>2, LabelsPositive
  <2>4. InnermostLabel(T) # 0
    BY <1>1, <2>2, <2>3, InnermostLabelIsNot
  <2>5. PICK s \in 1 .. n :
          /\ scopes[s].kind \in T
          /\ scopes[s].label = InnermostLabel(T)
          /\ \A t \in 1 .. n : scopes[t].kind \in T => t <= s
    BY <1>1, <2>4, InnermostLabelIs
  <2>6. s \in 2 .. n /\ at[s] \in open
    BY <1>4, <1>6, <2>5
  <2>7. ASSUME NEW k \in open
        PROVE  k <= at[s]
    <3>1. PICK t \in 2 .. n : at[t] = k
      BY <1>5
    <3>2. t <= s
      BY <1>1, <1>4, <2>5, <3>1
    <3>3. at[t] \in Nat /\ at[s] \in Nat
      BY <1>1, <1>3, <2>6
    <3>4. t = s \/ t < s
      BY <1>1, <3>2
    <3> QED
      BY <1>3, <2>6, <3>1, <3>3, <3>4
  <2>8. made = {[kind |-> kind, label |-> scopes[s].label]}
    BY <2>4, <2>5 DEF JumpOf
  <2>9. scopes[s].kind = cont[at[s]]
    BY <1>2, <1>3, <2>5, <2>6
  <2>10. \E j \in 1 .. Len(nodes) :
           nodes[j] = [kind |-> cont[at[s]], label |-> scopes[s].label]
    BY <1>2, <2>5, <2>9 DEF ScopesLabelled, IsBreakable
  <2> HIDE DEF made
  <2>11. IsInnermost(at, kind, made)
    BY <1>8, <2>6, <2>7, <2>8, <2>10 DEF IsInnermost, open, T
  <2> QED
    BY <2>11 DEF made, T
<1> QED
  BY <1>7, <1>8

(* Wherever a statement may begin, a break or continue is accepted just    *)
(* when an open statement can be left that way, and takes the label of the *)
(* node of the innermost of them, for every nesting (JumpsInnermost).      *)
THEOREM JumpsAreInnermost ==
  Spec => []JumpsInnermost
<1>1. ASSUME IInv, LabelsTaken, JumpsAnchored, mode = "stmt"
      PROVE  JumpsInnermost
  <2>1. Mirrors(scopes, cont)
    BY <1>1, BodyHasScopes DEF StmtModes
  <2>2. PICK at \in [2 .. Len(scopes) -> 1 .. Len(cont)] :
          MirroredBy(at, scopes, cont)
    BY <2>1 DEF Mirrors
  <2>3. ScopesLabelled
    BY <1>1 DEF JumpsAnchored
  <2>4. ASSUME NEW kind \in {"BREAK", "CONTINUE"}
        PROVE  IsInnermost(at, kind,
                 {j \in BreakHere \cup ContinueHere : j.kind = kind})
    <3>1. IsInnermost(at, kind, JumpOf(kind, Targets(kind)))
      BY <1>1, <2>2, <2>3, JumpInnermost
    <3> QED
      BY <3>1, JumpsOfKind
  <2> QED
    BY <2>2, <2>4 DEF JumpsInnermost
<1>2. IInv /\ LabelsTaken /\ JumpsAnchored => JumpsInnermost
  BY <1>1 DEF JumpsInnermost
<1> QED
  BY <1>2, IInvHolds, LabelsTakenHolds, JumpsAnchoredHolds, PTL

=============================================================================
