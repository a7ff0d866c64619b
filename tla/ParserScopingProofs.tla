-------------------------- MODULE ParserScopingProofs -------------------------
(***************************************************************************)
(* Theorems about names in Parser: what an expression refers to is one     *)
(* variable of the finished frame, a lookup finds the declaration that is  *)
(* in sight, and reading a body opens, fills and closes blocks as          *)
(* BlockScoping says.                                                      *)
(***************************************************************************)
EXTENDS ParserProofs

-----------------------------------------------------------------------------
(* The inductive invariant                                                 *)

(* The variables of a chain, by scope and position in its list.            *)
Places(chain) ==
  UNION {{s} \X (1 .. Len(chain[s].locals)) : s \in 1 .. Len(chain)}

VarAt(chain, p) == chain[p[1]].locals[p[2]]

SameKey(v, w) == v.name = w.name /\ v.scope_id = w.scope_id

(* The open scopes have ids of their own.                                  *)
IdsDistinct ==
  /\ \A s \in 1 .. Len(scopes) : scopes[s].id <= scope_id
  /\ \A s, t \in 1 .. Len(scopes) : s # t => scopes[s].id # scopes[t].id

(* A variable whose scope is still open is in the list of that scope.      *)
VarsPlaced ==
  \A p \in Places(scopes) :
    /\ VarAt(scopes, p).scope_id <= scope_id
    /\ \A t \in 1 .. Len(scopes) :
         VarAt(scopes, p).scope_id = scopes[t].id => p[1] = t

(* No two variables of the chain have the same name and scope_id.          *)
KeysDistinct(chain) ==
  \A p, q \in Places(chain) :
    SameKey(VarAt(chain, p), VarAt(chain, q)) => p = q

(* What an expression refers to is a variable of the chain, though not     *)
(* always of the scope it was declared in.                                 *)
Found(use, chain) ==
  \E p \in Places(chain) :
    IsDeclaredAs(VarAt(chain, p), use.scope_id, use.name)

UsesFound ==
  /\ mode \notin StmtModes => uses = {}
  /\ \A use \in uses : Found(use, scopes)

Scoped ==
  /\ IdsDistinct
  /\ VarsPlaced
  /\ KeysDistinct(scopes)
  /\ UsesFound
  /\ UsesResolve

-----------------------------------------------------------------------------
(* The variables of a chain after a declaration, a push and a pop          *)

LEMMA PlaceParts ==
  ASSUME NEW chain, NEW p \in Places(chain)
  PROVE  /\ p[1] \in 1 .. Len(chain) /\ p[2] \in 1 .. Len(chain[p[1]].locals)
         /\ p = <<p[1], p[2]>>
<1>1. PICK s \in 1 .. Len(chain) : p \in {s} \X (1 .. Len(chain[s].locals))
  BY DEF Places
<1>2. p[1] = s /\ p[2] \in 1 .. Len(chain[s].locals) /\ p = <<p[1], p[2]>>
  BY <1>1
<1> QED
  BY <1>2

LEMMA PlaceIntro ==
  ASSUME NEW chain, NEW s \in 1 .. Len(chain),
         NEW i \in 1 .. Len(chain[s].locals)
  PROVE  /\ <<s, i>> \in Places(chain)
         /\ VarAt(chain, <<s, i>>) = chain[s].locals[i]
<1>1. <<s, i>> \in {s} \X (1 .. Len(chain[s].locals))
  OBVIOUS
<1> QED
  BY <1>1 DEF Places, VarAt

LEMMA VarAtType ==
  ASSUME NEW chain \in Seq(Scope), NEW p \in Places(chain)
  PROVE  VarAt(chain, p) \in Var
<1>1. p[1] \in 1 .. Len(chain) /\ p[2] \in 1 .. Len(chain[p[1]].locals)
  BY PlaceParts
<1>2. chain[p[1]] \in Scope
  BY <1>1, ElementOfSeq
<1>3. chain[p[1]].locals \in Seq(Var)
  BY <1>2 DEF Scope
<1> QED
  BY <1>1, <1>3, ElementOfSeq DEF VarAt

LEMMA DeclarePlaces ==
  ASSUME NEW chain \in Seq(Scope), Len(chain) >= 1,
         NEW name \in Names, NEW type \in Types
  PROVE  LET n    == Len(chain)
             res  == AddLocal(chain, name, type)
             last == <<n, Len(chain[n].locals) + 1>>
         IN  /\ Len(res) = n
             /\ \A s \in 1 .. n : res[s].id = chain[s].id
             /\ \A p \in Places(chain) :
                  p \in Places(res) /\ VarAt(res, p) = VarAt(chain, p)
             /\ \A p \in Places(res) : p \in Places(chain) \/ p = last
             /\ last \in Places(res) \ Places(chain)
             /\ VarAt(res, last).name = name
             /\ VarAt(res, last).type = type
             /\ VarAt(res, last).scope_id = chain[n].id
<1> DEFINE n    == Len(chain)
           res  == AddLocal(chain, name, type)
           m    == Len(chain[n].locals)
           last == <<n, m + 1>>
           new  == [name     |-> name,
                    type     |-> type,
                    offset   |-> LastOffset(chain[n].locals)
                                   + roundup_to_dword(SizeOf[type]),
                    scope_id |-> chain[n].id]
<1>1. n \in Nat /\ n \in 1 .. n /\ chain[n] \in Scope
  BY LenProperties, ElementOfSeq
<1>2. chain[n].locals \in Seq(Var) /\ m \in Nat
  <2>1. chain[n].locals \in Seq(Var)
    BY <1>1 DEF Scope
  <2> QED
    BY <2>1, LenProperties
<1>3. /\ Len(res) = n
      /\ \A i \in 1 .. n - 1 : res[i] = chain[i]
      /\ res[n] = [chain[n] EXCEPT
                     !.locals = add_var(chain[n].locals, name, type,
                                        chain[n].id)]
  BY AddLocalIs
<1> HIDE DEF res
<1>4. /\ res[n].id = chain[n].id
      /\ res[n].locals = Append(chain[n].locals, new)
  BY <1>1, <1>3, Zenon DEF Scope, add_var
<1>5. new.name = name /\ new.type = type /\ new.scope_id = chain[n].id
  OBVIOUS
<1> HIDE DEF new
<1>6. /\ Len(res[n].locals) = m + 1
      /\ res[n].locals[m + 1] = new
      /\ \A i \in 1 .. m : res[n].locals[i] = chain[n].locals[i]
  BY <1>2, <1>4, AppendIs
<1> HIDE DEF n, m
<1>7. ASSUME NEW s \in 1 .. n, s # n
      PROVE  res[s] = chain[s]
  <2>1. s \in 1 .. n - 1
    BY <1>1, <1>7
  <2> QED
    BY <1>3, <2>1
<1>8. \A s \in 1 .. n : res[s].id = chain[s].id
  BY <1>4, <1>7
<1>9. ASSUME NEW p \in Places(chain)
      PROVE  p \in Places(res) /\ VarAt(res, p) = VarAt(chain, p)
  <2>1. /\ p[1] \in 1 .. n /\ p[2] \in 1 .. Len(chain[p[1]].locals)
        /\ p = <<p[1], p[2]>>
    BY PlaceParts DEF n
  <2>2. p[2] \in 1 .. Len(res[p[1]].locals)
        /\ res[p[1]].locals[p[2]] = chain[p[1]].locals[p[2]]
    <3>1. CASE p[1] = n
      BY <1>2, <1>6, <2>1, <3>1 DEF m
    <3>2. CASE p[1] # n
      BY <1>7, <2>1, <3>2
    <3> QED
      BY <3>1, <3>2
  <2>3. p[1] \in 1 .. Len(res)
    BY <1>3, <2>1
  <2>4. <<p[1], p[2]>> \in Places(res)
    BY <2>2, <2>3, PlaceIntro
  <2> QED
    BY <2>1, <2>2, <2>4 DEF VarAt
<1>10. ASSUME NEW p \in Places(res)
       PROVE  p \in Places(chain) \/ p = last
  <2>1. /\ p[1] \in 1 .. n /\ p[2] \in 1 .. Len(res[p[1]].locals)
        /\ p = <<p[1], p[2]>>
    BY <1>3, PlaceParts
  <2>2. CASE p[2] \in 1 .. Len(chain[p[1]].locals)
    <3>1. <<p[1], p[2]>> \in Places(chain)
      BY <2>1, <2>2, PlaceIntro DEF n
    <3> QED
      BY <2>1, <3>1
  <2>3. CASE p[2] \notin 1 .. Len(chain[p[1]].locals)
    <3>1. p[1] = n
      BY <1>7, <2>1, <2>3
    <3>2. p[2] = m + 1
      <4>1. p[2] \in 1 .. m + 1
        BY <1>6, <2>1, <3>1, Zenon
      <4>2. p[2] \notin 1 .. m
        BY <2>3, <3>1, Zenon DEF m
      <4> QED
        BY <1>2, <4>1, <4>2
    <3> QED
      BY <2>1, <3>1, <3>2
  <2> QED
    BY <2>2, <2>3
<1>11. last \in Places(res) /\ VarAt(res, last) = new
  <2>1. n \in 1 .. Len(res) /\ m + 1 \in 1 .. Len(res[n].locals)
    BY <1>1, <1>2, <1>3, <1>6
  <2> QED
    BY <1>6, <2>1, PlaceIntro
<1>12. last \notin Places(chain)
  <2>1. ASSUME last \in Places(chain)
        PROVE  FALSE
    <3>1. last[2] \in 1 .. Len(chain[last[1]].locals)
      BY <2>1, PlaceParts
    <3>2. last[1] = n /\ last[2] = m + 1
      OBVIOUS
    <3>3. m + 1 \in 1 .. m
      BY <3>1, <3>2 DEF m
    <3> QED
      BY <1>2, <3>3
  <2> QED
    BY <2>1
<1> HIDE DEF last
<1>13. /\ Len(res) = n
       /\ \A p \in Places(chain) :
            p \in Places(res) /\ VarAt(res, p) = VarAt(chain, p)
       /\ \A p \in Places(res) : p \in Places(chain) \/ p = last
       /\ last \in Places(res) \ Places(chain)
       /\ VarAt(res, last).name = name /\ VarAt(res, last).type = type
       /\ VarAt(res, last).scope_id = chain[n].id
  BY <1>3, <1>5, <1>9, <1>10, <1>11, <1>12
<1> QED
  BY <1>8, <1>13, Zenon DEF n, m, last, res

LEMMA PushPlaces ==
  ASSUME NEW chain \in Seq(Scope), NEW res, Len(res) = Len(chain) + 1,
         \A i \in 1 .. Len(chain) : res[i] = chain[i],
         res[Len(chain) + 1].locals = <<>>
  PROVE  /\ Places(res) = Places(chain)
         /\ \A p \in Places(chain) : VarAt(res, p) = VarAt(chain, p)
<1> DEFINE n == Len(chain)
<1>1. n \in Nat
  BY LenProperties
<1>2. ASSUME NEW p \in Places(chain)
      PROVE  p \in Places(res) /\ VarAt(res, p) = VarAt(chain, p)
  <2>1. /\ p[1] \in 1 .. n /\ p[2] \in 1 .. Len(chain[p[1]].locals)
        /\ p = <<p[1], p[2]>>
    BY PlaceParts
  <2>2. res[p[1]] = chain[p[1]]
    BY <2>1
  <2>3. p[1] \in 1 .. Len(res) /\ p[2] \in 1 .. Len(res[p[1]].locals)
    BY <1>1, <2>1, <2>2
  <2>4. <<p[1], p[2]>> \in Places(res)
    BY <2>3, PlaceIntro
  <2> QED
    BY <2>1, <2>2, <2>4 DEF VarAt
<1>3. ASSUME NEW p \in Places(res)
      PROVE  p \in Places(chain)
  <2>1. /\ p[1] \in 1 .. n + 1 /\ p[2] \in 1 .. Len(res[p[1]].locals)
        /\ p = <<p[1], p[2]>>
    BY PlaceParts
  <2>2. CASE p[1] = n + 1
    <3>1. Len(res[p[1]].locals) = 0
      BY <2>2, EmptySeq
    <3> QED
      BY <2>1, <3>1
  <2>3. CASE p[1] # n + 1
    <3>1. p[1] \in 1 .. n
      BY <1>1, <2>1, <2>3
    <3>2. p[2] \in 1 .. Len(chain[p[1]].locals)
      BY <2>1, <3>1
    <3>3. <<p[1], p[2]>> \in Places(chain)
      BY <3>1, <3>2, PlaceIntro
    <3> QED
      BY <2>1, <3>3
  <2> QED
    BY <2>2, <2>3
<1> QED
  BY <1>2, <1>3

(* The merged list: the parent's variables as they were, then the child's, *)
(* moved but with the names, types and scope_ids they had.                 *)
LEMMA MergeVars ==
  ASSUME NEW parent \in Scope, NEW child \in Scope
  PROVE  LET m == Len(parent.locals)
             l == MergeInto(parent, child).locals
         IN  /\ MergeInto(parent, child).id = parent.id
             /\ m \in Nat /\ Len(child.locals) \in Nat
             /\ Len(l) = m + Len(child.locals)
             /\ \A i \in 1 .. m : l[i] = parent.locals[i]
             /\ \A j \in 1 .. Len(child.locals) :
                  /\ SameKey(l[m + j], child.locals[j])
                  /\ l[m + j].type = child.locals[j].type
<1> DEFINE p   == parent.locals
           c   == child.locals
           m   == Len(p)
           k   == Len(c)
           low == Shift(c, LastOffset(p))
           l   == MergeInto(parent, child).locals
<1>1. p \in Seq(Var) /\ c \in Seq(Var)
  BY DEF Scope
<1>2. m \in Nat /\ k \in Nat
  BY <1>1, LenProperties
<1>3. /\ MergeInto(parent, child).id = parent.id
      /\ l = p \o low
  BY Zenon DEF MergeInto, Scope
<1>4. /\ low \in Seq(Var) /\ Len(low) = k
      /\ \A i \in 1 .. k :
           low[i] = [c[i] EXCEPT !.offset = c[i].offset + LastOffset(p)]
  BY <1>1, LastOffsetType, ShiftType
<1>5. ASSUME NEW j \in 1 .. k
      PROVE  SameKey(low[j], c[j]) /\ low[j].type = c[j].type
  <2>1. c[j] \in Var
    BY <1>1, ElementOfSeq
  <2> QED
    BY <1>4, <2>1, Zenon DEF Var, SameKey
<1> HIDE DEF low, l
<1>6. /\ Len(l) = m + k
      /\ \A i \in 1 .. m : l[i] = p[i]
      /\ \A j \in 1 .. k : l[m + j] = low[j]
  <2>1. low \in Seq(Var) /\ Len(low) = k
    BY <1>4
  <2>2. Len(p \o low) = Len(p) + Len(low)
    BY <1>1, <2>1, ConcatIs
  <2>3. \A i \in 1 .. Len(p) : (p \o low)[i] = p[i]
    BY <1>1, <2>1, ConcatIs
  <2>4. \A j \in 1 .. Len(low) : (p \o low)[Len(p) + j] = low[j]
    BY <1>1, <2>1, ConcatIs
  <2> QED
    BY <1>3, <2>1, <2>2, <2>3, <2>4, Zenon
<1> HIDE DEF p, c, m, k
<1>7. \A j \in 1 .. k :
        SameKey(l[m + j], c[j]) /\ l[m + j].type = c[j].type
  BY <1>5, <1>6, Zenon
<1> QED
  BY <1>2, <1>3, <1>6, <1>7, Zenon DEF p, c, m, k, l

(* Where a variable of the chain with the innermost scope closed comes     *)
(* from, and where one of the chain before it goes.                        *)
LEMMA PopPlaces ==
  ASSUME NEW chain \in Seq(Scope), Len(chain) >= 2
  PROVE  LET n   == Len(chain)
             res == scope_pop(chain)
             m   == Len(chain[n - 1].locals)
         IN  /\ Len(res) = n - 1
             /\ \A s \in 1 .. n - 1 : res[s].id = chain[s].id
             /\ \A p \in Places(res) :
                  \/ p \in Places(chain) /\ VarAt(res, p) = VarAt(chain, p)
                  \/ /\ p[1] = n - 1
                     /\ \E j \in 1 .. Len(chain[n].locals) :
                          /\ p = <<n - 1, m + j>>
                          /\ SameKey(VarAt(res, p), VarAt(chain, <<n, j>>))
             /\ \A q \in Places(chain) :
                  \E p \in Places(res) : SameKey(VarAt(res, p), VarAt(chain, q))
<1> DEFINE n   == Len(chain)
           res == scope_pop(chain)
           P   == chain[n - 1].locals
           C   == chain[n].locals
           m   == Len(P)
           k   == Len(C)
           L   == res[n - 1].locals
<1>1. /\ n \in Nat /\ n >= 2 /\ n - 1 \in 1 .. n /\ n \in 1 .. n
      /\ n - 2 \in Nat
  BY LenProperties
<1>2. chain[n - 1] \in Scope /\ chain[n] \in Scope
  BY <1>1, ElementOfSeq
<1>3. /\ Len(res) = n - 1
      /\ \A i \in 1 .. n - 2 : res[i] = chain[i]
      /\ res[n - 1] = MergeInto(chain[n - 1], chain[n])
  BY PopIs
<1> HIDE DEF res
<1>4. /\ res[n - 1].id = chain[n - 1].id
      /\ m \in Nat /\ k \in Nat
      /\ Len(L) = m + k
      /\ \A i \in 1 .. m : L[i] = P[i]
      /\ \A j \in 1 .. k : SameKey(L[m + j], C[j])
  <2> DEFINE M == MergeInto(chain[n - 1], chain[n])
  <2>1. /\ M.id = chain[n - 1].id
        /\ m \in Nat /\ k \in Nat
        /\ Len(M.locals) = m + k
        /\ \A i \in 1 .. m : M.locals[i] = P[i]
        /\ \A j \in 1 .. k : SameKey(M.locals[m + j], C[j])
    BY <1>2, MergeVars
  <2> QED
    BY <1>3, <2>1, Zenon
<1>5. m \in Nat /\ k \in Nat /\ Len(L) = m + k
  BY <1>4
<1> HIDE DEF m, k
<1>6. ASSUME NEW s \in 1 .. n - 1, s # n - 1
      PROVE  s \in 1 .. n - 2 /\ res[s] = chain[s]
  <2>1. s \in 1 .. n - 2
    BY <1>1, <1>6
  <2> QED
    BY <1>3, <2>1
<1>7. \A s \in 1 .. n - 1 : res[s].id = chain[s].id
  BY <1>4, <1>6
<1>8. ASSUME NEW p \in Places(res)
      PROVE  \/ p \in Places(chain) /\ VarAt(res, p) = VarAt(chain, p)
             \/ /\ p[1] = n - 1
                /\ \E j \in 1 .. k :
                     /\ p = <<n - 1, m + j>>
                     /\ SameKey(VarAt(res, p), VarAt(chain, <<n, j>>))
  <2>1. /\ p[1] \in 1 .. n - 1 /\ p[2] \in 1 .. Len(res[p[1]].locals)
        /\ p = <<p[1], p[2]>>
    BY <1>3, PlaceParts
  <2>2. p[1] \in 1 .. Len(chain)
    BY <1>1, <2>1
  <2>3. CASE p[1] # n - 1
    <3>1. res[p[1]] = chain[p[1]]
      BY <1>6, <2>1, <2>3
    <3>2. <<p[1], p[2]>> \in Places(chain)
      BY <2>1, <2>2, <3>1, PlaceIntro
    <3> QED
      BY <2>1, <3>1, <3>2 DEF VarAt
  <2>4. CASE p[1] = n - 1 /\ p[2] \in 1 .. m
    <3>1. <<p[1], p[2]>> \in Places(chain)
      BY <2>2, <2>4, PlaceIntro DEF m
    <3>2. VarAt(res, p) = VarAt(chain, p)
      BY <1>4, <2>4 DEF VarAt
    <3> QED
      BY <2>1, <3>1, <3>2
  <2>5. CASE p[1] = n - 1 /\ p[2] \notin 1 .. m
    <3>1. PICK j \in 1 .. k : p[2] = m + j
      <4>1. p[2] \in 1 .. m + k
        BY <1>5, <2>1, <2>5
      <4>2. p[2] - m \in 1 .. k /\ p[2] = m + (p[2] - m)
        BY <1>5, <2>5, <4>1
      <4> QED
        BY <4>2
    <3>2. SameKey(L[m + j], C[j])
      BY <1>4
    <3>3. VarAt(res, p) = L[m + j] /\ VarAt(chain, <<n, j>>) = C[j]
      BY <2>5, <3>1 DEF VarAt
    <3> QED
      BY <2>1, <2>5, <3>1, <3>2, <3>3, Zenon
  <2> QED
    BY <2>3, <2>4, <2>5
<1>9. ASSUME NEW q \in Places(chain)
      PROVE  \E p \in Places(res) : SameKey(VarAt(res, p), VarAt(chain, q))
  <2>1. /\ q[1] \in 1 .. n /\ q[2] \in 1 .. Len(chain[q[1]].locals)
        /\ q = <<q[1], q[2]>>
    BY PlaceParts
  <2>2. n - 1 \in 1 .. Len(res)
    BY <1>1, <1>3
  <2>3. CASE q[1] = n
    <3>1. q[2] \in 1 .. k
      BY <2>1, <2>3 DEF k
    <3>2. m + q[2] \in 1 .. Len(L)
      BY <1>5, <3>1
    <3>3. /\ <<n - 1, m + q[2]>> \in Places(res)
          /\ VarAt(res, <<n - 1, m + q[2]>>) = L[m + q[2]]
      BY <2>2, <3>2, PlaceIntro
    <3>4. SameKey(L[m + q[2]], C[q[2]]) /\ VarAt(chain, q) = C[q[2]]
      BY <1>4, <2>3, <3>1 DEF VarAt
    <3> QED
      BY <3>3, <3>4, Zenon
  <2>4. CASE q[1] = n - 1
    <3>1. q[2] \in 1 .. m
      BY <2>1, <2>4 DEF m
    <3>2. q[2] \in 1 .. Len(L)
      BY <1>5, <3>1
    <3>3. /\ <<n - 1, q[2]>> \in Places(res)
          /\ VarAt(res, <<n - 1, q[2]>>) = L[q[2]]
      BY <2>2, <3>2, PlaceIntro
    <3>4. L[q[2]] = VarAt(chain, q)
      BY <1>4, <2>4, <3>1 DEF VarAt
    <3> QED
      BY <3>3, <3>4, Zenon DEF SameKey
  <2>5. CASE q[1] # n /\ q[1] # n - 1
    <3>1. q[1] \in 1 .. n - 1
      BY <1>1, <2>1, <2>5
    <3>2. res[q[1]] = chain[q[1]]
      BY <1>6, <2>5, <3>1
    <3>3. /\ <<q[1], q[2]>> \in Places(res)
          /\ VarAt(res, <<q[1], q[2]>>) = res[q[1]].locals[q[2]]
      BY <1>3, <2>1, <3>1, <3>2, PlaceIntro
    <3> QED
      BY <3>2, <3>3, Zenon DEF SameKey, VarAt
  <2> QED
    BY <2>3, <2>4, <2>5
<1>10. Len(res) = n - 1
  BY <1>3
<1> HIDE DEF n
<1> QED
  BY <1>7, <1>8, <1>9, <1>10, Zenon DEF n, m, k, res, P, C

-----------------------------------------------------------------------------
(* Every way to change the chain keeps its variables told apart, and none  *)
(* but the end of the function loses one                                   *)

ChainScoped == IdsDistinct /\ VarsPlaced /\ KeysDistinct(scopes)

LEMMA DeclareScoped ==
  ASSUME IInv, ChainScoped, Declares
  PROVE  ChainScoped' /\ \A use : Found(use, scopes) => Found(use, scopes')
<1>1. PICK name \in Names, type \in Types :
        /\ ~ AddRefuses(scopes, name, type)
        /\ scopes' = AddLocal(scopes, name, type)
  BY DEF Declares
<1> DEFINE n    == Len(scopes)
           last == <<n, Len(scopes[n].locals) + 1>>
<1>2. /\ scopes \in Seq(Scope) /\ n \in Nat /\ n >= 1 /\ n \in 1 .. n
      /\ scope_id' = scope_id
  BY LenProperties DEF Declares, IInv, TypeOK, ScopesMirrorNesting
<1>3. /\ Len(scopes') = n
      /\ \A s \in 1 .. n : scopes'[s].id = scopes[s].id
      /\ \A p \in Places(scopes) :
           p \in Places(scopes') /\ VarAt(scopes', p) = VarAt(scopes, p)
      /\ \A p \in Places(scopes') : p \in Places(scopes) \/ p = last
      /\ VarAt(scopes', last).name = name
      /\ VarAt(scopes', last).scope_id = scopes[n].id
  BY <1>1, <1>2, DeclarePlaces
(* No variable of the chain has the name and the scope_id of the new one.  *)
<1>4. ASSUME NEW p \in Places(scopes)
      PROVE  ~ SameKey(VarAt(scopes, p), VarAt(scopes', last))
  <2> SUFFICES ASSUME VarAt(scopes, p).name = name,
                      VarAt(scopes, p).scope_id = scopes[n].id
               PROVE  FALSE
    BY <1>3 DEF SameKey
  <2>1. p[1] = n
    BY <1>2 DEF ChainScoped, VarsPlaced
  <2>2. p[2] \in 1 .. Len(scopes[n].locals)
    BY <2>1, PlaceParts
  <2>3. Redefines(scopes[n].locals, name, scopes[n].id)
    BY <2>1, <2>2 DEF Redefines, VarAt
  <2> QED
    BY <1>1, <2>3 DEF AddRefuses
<1>5. last[1] = n
  OBVIOUS
<1> HIDE DEF n, last
<1>6. IdsDistinct'
  BY <1>2, <1>3 DEF ChainScoped, IdsDistinct, n
<1>7. VarsPlaced'
  <2> SUFFICES ASSUME NEW p \in Places(scopes')
               PROVE  /\ VarAt(scopes', p).scope_id <= scope_id
                      /\ \A t \in 1 .. n :
                           VarAt(scopes', p).scope_id = scopes[t].id => p[1] = t
    BY <1>2, <1>3 DEF VarsPlaced
  <2>1. CASE p \in Places(scopes)
    BY <1>3, <2>1 DEF ChainScoped, VarsPlaced, n
  <2>2. CASE p = last
    BY <1>2, <1>3, <1>5, <2>2 DEF ChainScoped, IdsDistinct, n
  <2> QED
    BY <1>3, <2>1, <2>2
<1>8. KeysDistinct(scopes')
  <2> SUFFICES ASSUME NEW p \in Places(scopes'), NEW q \in Places(scopes'),
                      SameKey(VarAt(scopes', p), VarAt(scopes', q))
               PROVE  p = q
    BY DEF KeysDistinct
  <2>1. CASE p \in Places(scopes) /\ q \in Places(scopes)
    BY <1>3, <2>1 DEF ChainScoped, KeysDistinct
  <2>2. CASE p \in Places(scopes) /\ q = last
    BY <1>3, <1>4, <2>2
  <2>3. CASE p = last /\ q \in Places(scopes)
    BY <1>3, <1>4, <2>3 DEF SameKey
  <2> QED
    BY <1>3, <2>1, <2>2, <2>3
<1>9. ASSUME NEW use, Found(use, scopes)
      PROVE  Found(use, scopes')
  BY <1>3, <1>9 DEF Found
<1> QED
  BY <1>6, <1>7, <1>8, <1>9 DEF ChainScoped

LEMMA PushScoped ==
  ASSUME IInv, ChainScoped, NEW kind, NEW label, scope_push(kind, label)
  PROVE  ChainScoped' /\ \A use : Found(use, scopes) => Found(use, scopes')
<1> DEFINE n == Len(scopes)
<1>1. /\ scopes \in Seq(Scope) /\ n \in Nat /\ scope_id \in Nat
      /\ scope_id' = scope_id + 1
  BY LenProperties DEF IInv, TypeOK, scope_push
<1>2. /\ Len(scopes') = n + 1
      /\ \A s \in 1 .. n : scopes'[s] = scopes[s]
      /\ scopes'[n + 1] = NewScope(kind, label, scope_id')
  BY PushIs
<1>3. scopes'[n + 1].locals = <<>> /\ scopes'[n + 1].id = scope_id + 1
  BY <1>1, <1>2 DEF NewScope
<1>4. /\ Places(scopes') = Places(scopes)
      /\ \A p \in Places(scopes) : VarAt(scopes', p) = VarAt(scopes, p)
  BY <1>1, <1>2, <1>3, PushPlaces
<1>5. \A s \in 1 .. n : scopes[s].id \in Nat
  <2>1. \A s \in 1 .. n : scopes[s] \in Scope
    BY <1>1, ElementOfSeq
  <2> QED
    BY <2>1 DEF Scope
<1>6. \A p \in Places(scopes) : VarAt(scopes, p).scope_id \in Nat
  <2>1. \A p \in Places(scopes) : VarAt(scopes, p) \in Var
    BY <1>1, VarAtType
  <2> QED
    BY <2>1 DEF Var
<1> HIDE DEF n
<1>7. ASSUME NEW s \in 1 .. n + 1, s # n + 1
      PROVE  s \in 1 .. n /\ scopes'[s].id = scopes[s].id
  <2>1. s \in 1 .. n
    BY <1>1, <1>7
  <2> QED
    BY <1>2, <2>1
<1>8. \A s \in 1 .. n : scopes[s].id < scope_id + 1
  BY <1>1, <1>5 DEF ChainScoped, IdsDistinct, n
<1>9. IdsDistinct'
  <2>1. ASSUME NEW s \in 1 .. n + 1
        PROVE  scopes'[s].id <= scope_id'
    BY <1>1, <1>3, <1>5, <1>7, <1>8
  <2>2. ASSUME NEW s \in 1 .. n + 1, NEW t \in 1 .. n + 1, s # t
        PROVE  scopes'[s].id # scopes'[t].id
    <3>1. CASE s = n + 1
      BY <1>1, <1>3, <1>5, <1>7, <1>8, <2>2, <3>1
    <3>2. CASE t = n + 1
      BY <1>1, <1>3, <1>5, <1>7, <1>8, <2>2, <3>2
    <3>3. CASE s # n + 1 /\ t # n + 1
      BY <1>7, <2>2, <3>3 DEF ChainScoped, IdsDistinct, n
    <3> QED
      BY <3>1, <3>2, <3>3
  <2> QED
    BY <1>2, <2>1, <2>2 DEF IdsDistinct
<1>10. VarsPlaced'
  <2> SUFFICES ASSUME NEW p \in Places(scopes)
               PROVE  /\ VarAt(scopes, p).scope_id <= scope_id + 1
                      /\ \A t \in 1 .. n + 1 :
                           VarAt(scopes, p).scope_id = scopes'[t].id => p[1] = t
    BY <1>1, <1>2, <1>4 DEF VarsPlaced
  <2>1. VarAt(scopes, p).scope_id \in Nat /\ VarAt(scopes, p).scope_id <= scope_id
    BY <1>6 DEF ChainScoped, VarsPlaced
  <2>2. ASSUME NEW t \in 1 .. n + 1, VarAt(scopes, p).scope_id = scopes'[t].id
        PROVE  p[1] = t
    <3>1. t # n + 1
      BY <1>1, <1>3, <2>1, <2>2
    <3> QED
      BY <1>7, <2>2, <3>1 DEF ChainScoped, VarsPlaced, n
  <2> QED
    BY <1>1, <2>1, <2>2
<1>11. KeysDistinct(scopes')
  BY <1>4 DEF ChainScoped, KeysDistinct
<1>12. ASSUME NEW use, Found(use, scopes)
       PROVE  Found(use, scopes')
  BY <1>4, <1>12 DEF Found
<1> QED
  BY <1>9, <1>10, <1>11, <1>12 DEF ChainScoped

(* Which variable of a chain becomes the one at p when the innermost scope *)
(* is closed.                                                              *)
MovedFrom(chain, p, q) ==
  LET n == Len(chain)
  IN  /\ q \in Places(chain)
      /\ SameKey(VarAt(scope_pop(chain), p), VarAt(chain, q))
      /\ \/ q = p /\ p[1] # n
         \/ /\ p[1] = n - 1
            /\ \E j \in 1 .. Len(chain[n].locals) :
                 /\ p = <<n - 1, Len(chain[n - 1].locals) + j>>
                 /\ q = <<n, j>>

LEMMA PopMoves ==
  ASSUME NEW chain \in Seq(Scope), Len(chain) >= 2
  PROVE  /\ \A p \in Places(scope_pop(chain)) : \E q : MovedFrom(chain, p, q)
         /\ \A p, q, r : MovedFrom(chain, p, r) /\ MovedFrom(chain, q, r)
                          => p = q
<1> DEFINE n   == Len(chain)
           res == scope_pop(chain)
           m   == Len(chain[n - 1].locals)
           k   == Len(chain[n].locals)
<1>1. n \in Nat /\ n >= 2
  BY LenProperties
<1>2. m \in Nat
  <2>1. n - 1 \in 1 .. n
    BY <1>1
  <2>2. chain[n - 1] \in Scope
    BY <1>1, <2>1, ElementOfSeq
  <2>3. chain[n - 1].locals \in Seq(Var)
    BY <2>2 DEF Scope
  <2> QED
    BY <2>3, LenProperties
<1>3. /\ Len(res) = n - 1
      /\ \A p \in Places(res) :
           \/ p \in Places(chain) /\ VarAt(res, p) = VarAt(chain, p)
           \/ /\ p[1] = n - 1
              /\ \E j \in 1 .. k :
                   /\ p = <<n - 1, m + j>>
                   /\ SameKey(VarAt(res, p), VarAt(chain, <<n, j>>))
  BY <1>1, PopPlaces
<1>4. ASSUME NEW p \in Places(res)
      PROVE  \E q : MovedFrom(chain, p, q)
  <2>1. p[1] \in 1 .. n - 1
    BY <1>3, PlaceParts
  <2>2. CASE p \in Places(chain) /\ VarAt(res, p) = VarAt(chain, p)
    <3>1. MovedFrom(chain, p, p)
      BY <1>1, <2>1, <2>2 DEF SameKey, MovedFrom
    <3> QED
      BY <3>1
  <2>3. CASE /\ p[1] = n - 1
             /\ \E j \in 1 .. k :
                  /\ p = <<n - 1, m + j>>
                  /\ SameKey(VarAt(res, p), VarAt(chain, <<n, j>>))
    <3>1. PICK j \in 1 .. k :
            /\ p = <<n - 1, m + j>>
            /\ SameKey(VarAt(res, p), VarAt(chain, <<n, j>>))
      BY <2>3
    <3>2. n \in 1 .. Len(chain)
      BY <1>1
    <3>3. <<n, j>> \in Places(chain)
      BY <3>2, PlaceIntro
    <3>4. MovedFrom(chain, p, <<n, j>>)
      BY <2>3, <3>1, <3>3 DEF MovedFrom
    <3> QED
      BY <3>4
  <2> QED
    BY <1>3, <2>2, <2>3
<1>5. ASSUME NEW p, NEW q, NEW r,
             MovedFrom(chain, p, r), MovedFrom(chain, q, r)
      PROVE  p = q
  <2>1. CASE r[1] = n
    <3>1. PICK i \in 1 .. k : p = <<n - 1, m + i>> /\ r = <<n, i>>
      BY <1>5, <2>1 DEF MovedFrom
    <3>2. PICK j \in 1 .. k : q = <<n - 1, m + j>> /\ r = <<n, j>>
      BY <1>5, <2>1 DEF MovedFrom
    <3>3. i = j
      BY <3>1, <3>2
    <3> QED
      BY <3>1, <3>2, <3>3
  <2>2. CASE r[1] # n
    <3>1. \A j : r # <<n, j>>
      BY <2>2
    <3> QED
      BY <1>5, <3>1 DEF MovedFrom
  <2> QED
    BY <2>1, <2>2
<1> QED
  BY <1>4, <1>5

LEMMA PopKeys ==
  ASSUME NEW chain \in Seq(Scope), Len(chain) >= 2, KeysDistinct(chain)
  PROVE  /\ KeysDistinct(scope_pop(chain))
         /\ \A use : Found(use, chain) => Found(use, scope_pop(chain))
<1> DEFINE res == scope_pop(chain)
<1>1. ASSUME NEW p \in Places(res), NEW q \in Places(res),
             SameKey(VarAt(res, p), VarAt(res, q))
      PROVE  p = q
  <2>1. PICK r : MovedFrom(chain, p, r)
    BY PopMoves
  <2>2. PICK s : MovedFrom(chain, q, s)
    BY PopMoves
  <2>3. r = s
    <3>1. SameKey(VarAt(chain, r), VarAt(chain, s))
      BY <1>1, <2>1, <2>2 DEF SameKey, MovedFrom
    <3> QED
      BY <2>1, <2>2, <3>1 DEF MovedFrom, KeysDistinct
  <2> QED
    BY <2>1, <2>2, <2>3, PopMoves
<1>2. ASSUME NEW use, Found(use, chain)
      PROVE  Found(use, res)
  <2>1. PICK q \in Places(chain) :
          IsDeclaredAs(VarAt(chain, q), use.scope_id, use.name)
    BY <1>2 DEF Found
  <2>2. PICK p \in Places(res) : SameKey(VarAt(res, p), VarAt(chain, q))
    BY PopPlaces
  <2> QED
    BY <2>1, <2>2 DEF Found, IsDeclaredAs, SameKey
<1> QED
  BY <1>1, <1>2 DEF KeysDistinct

LEMMA PopScoped ==
  ASSUME IInv, ChainScoped, Pops
  PROVE  ChainScoped' /\ \A use : Found(use, scopes) => Found(use, scopes')
<1> DEFINE n == Len(scopes)
<1>1. /\ scopes \in Seq(Scope) /\ n \in Nat /\ n >= 2
      /\ scopes' = scope_pop(scopes) /\ scope_id' = scope_id
  BY BodyHasScopes DEF Pops
<1>2. /\ Len(scopes') = n - 1
      /\ \A s \in 1 .. n - 1 : scopes'[s].id = scopes[s].id
  BY <1>1, PopPlaces
<1>3. IdsDistinct'
  BY <1>1, <1>2 DEF ChainScoped, IdsDistinct
<1>4. VarsPlaced'
  <2> SUFFICES ASSUME NEW p \in Places(scopes')
               PROVE  /\ VarAt(scopes', p).scope_id <= scope_id
                      /\ \A t \in 1 .. n - 1 :
                           VarAt(scopes', p).scope_id = scopes[t].id => p[1] = t
    BY <1>1, <1>2 DEF VarsPlaced
  <2>1. PICK q : MovedFrom(scopes, p, q)
    BY <1>1, PopMoves
  <2>2. /\ q \in Places(scopes)
        /\ VarAt(scopes', p).scope_id = VarAt(scopes, q).scope_id
        /\ q[1] # n => q = p
    <3>1. q = p \/ q[1] = n
      BY <2>1 DEF MovedFrom
    <3> QED
      BY <1>1, <2>1, <3>1 DEF SameKey, MovedFrom
  <2>3. VarAt(scopes', p).scope_id <= scope_id
    BY <2>2 DEF ChainScoped, VarsPlaced
  <2>4. ASSUME NEW t \in 1 .. n - 1, VarAt(scopes', p).scope_id = scopes[t].id
        PROVE  p[1] = t
    <3>1. t \in 1 .. n /\ t # n
      BY <1>1
    <3>2. q[1] = t
      BY <2>2, <2>4, <3>1 DEF ChainScoped, VarsPlaced
    <3> QED
      BY <2>2, <3>1, <3>2
  <2> QED
    BY <2>3, <2>4
<1>5. /\ KeysDistinct(scopes')
      /\ \A use : Found(use, scopes) => Found(use, scopes')
  BY <1>1, PopKeys DEF ChainScoped
<1> QED
  BY <1>3, <1>4, <1>5 DEF ChainScoped

LEMMA NoPlaces ==
  ASSUME NEW chain, \A s \in 1 .. Len(chain) : chain[s].locals = <<>>
  PROVE  Places(chain) = {}
<1>1. ASSUME NEW p \in Places(chain)
      PROVE  FALSE
  <2>1. p[1] \in 1 .. Len(chain) /\ p[2] \in 1 .. Len(chain[p[1]].locals)
    BY PlaceParts
  <2>2. Len(chain[p[1]].locals) = 0
    BY <2>1, EmptySeq
  <2> QED
    BY <2>1, <2>2
<1> QED
  BY <1>1

LEMMA EmptyScoped ==
  ASSUME scopes = <<>>
  PROVE  ChainScoped
<1>1. Len(scopes) = 0
  BY EmptySeq
<1>2. Places(scopes) = {}
  BY <1>1, NoPlaces
<1> QED
  BY <1>1, <1>2 DEF ChainScoped, IdsDistinct, VarsPlaced, KeysDistinct

LEMMA ChainScopedStep ==
  ASSUME IInv, ChainScoped, [Next]_vars
  PROVE  ChainScoped'
<1>1. CASE UNCHANGED <<scopes, scope_id>>
  BY <1>1 DEF ChainScoped, IdsDistinct, VarsPlaced
<1>2. CASE scopes' = <<>>
  <2>1. Len(scopes') = 0
    BY <1>2, EmptySeq
  <2>2. Places(scopes') = {}
    BY <2>1, NoPlaces
  <2> QED
    BY <2>1, <2>2 DEF ChainScoped, IdsDistinct, VarsPlaced, KeysDistinct
<1>3. CASE FuncBegin
  <2> DEFINE s == NewScope("FUNCDECL", 0, scope_id + 1)
  <2>1. scopes' = <<s>> /\ scope_id' = scope_id + 1 /\ scope_id \in Nat
    BY <1>3 DEF FuncBegin, scope_create, IInv, TypeOK
  <2>2. s.id = scope_id + 1 /\ s.locals = <<>>
    BY DEF NewScope
  <2> HIDE DEF s
  <2>3. Len(scopes') = 1 /\ scopes'[1] = s
    BY <2>1
  <2>4. Places(scopes') = {}
    <3>1. \A t \in 1 .. Len(scopes') : scopes'[t].locals = <<>>
      BY <2>2, <2>3
    <3> QED
      BY <3>1, NoPlaces
  <2>5. IdsDistinct'
    BY <2>1, <2>2, <2>3 DEF IdsDistinct
  <2> QED
    BY <2>4, <2>5 DEF ChainScoped, VarsPlaced, KeysDistinct
<1>4. CASE Declares
  BY <1>4, DeclareScoped
<1>5. CASE InFunction /\ scope_push("BLOCK", 0)
  BY <1>5, PushScoped
<1>6. CASE InFunction /\ OpensBreakable
  <2>1. PICK kind \in Breakable : scope_push(kind, label_index + 1)
    BY <1>6 DEF OpensBreakable
  <2> QED
    BY <2>1, PushScoped
<1>7. CASE Pops
  BY <1>7, PopScoped
<1> QED
  BY <1>1, <1>2, <1>3, <1>4, <1>5, <1>6, <1>7, ChainStep

-----------------------------------------------------------------------------
(* What expressions refer to                                               *)

(* Whatever an expression refers to is a variable of the chain it is read  *)
(* under.                                                                  *)
LEMMA LocalsAreFound ==
  ASSUME NEW chain \in Seq(Scope), NEW e, NEW use \in LocalsOf(chain, e)
  PROVE  Found(use, chain)
<1> DEFINE var == find_var_in_curr_scope(chain, e.name)
<1>1. /\ var # NoVar
      /\ use = [name |-> e.name, scope_id |-> var.scope_id]
  BY DEF LocalsOf
<1>2. PICK k \in 1 .. Len(chain) :
        \E j \in 1 .. Len(chain[k].locals) :
          /\ var = chain[k].locals[j]
          /\ IsDeclaredAs(chain[k].locals[j], chain[k].id, e.name)
  BY <1>1, FindVarIs
<1>3. PICK j \in 1 .. Len(chain[k].locals) :
        /\ var = chain[k].locals[j]
        /\ IsDeclaredAs(chain[k].locals[j], chain[k].id, e.name)
  BY <1>2
<1>4. <<k, j>> \in Places(chain) /\ VarAt(chain, <<k, j>>) = var
  BY <1>3, PlaceIntro
<1>5. use.name = e.name /\ use.scope_id = var.scope_id
  BY <1>1
<1>6. IsDeclaredAs(var, use.scope_id, use.name)
  BY <1>3, <1>5 DEF IsDeclaredAs
<1> QED
  BY <1>4, <1>6 DEF Found

LEMMA NewUses ==
  ASSUME IInv, UsesFound, [Next]_vars
  PROVE  /\ mode' \notin StmtModes => uses' = {}
         /\ \A use \in uses' :
              use \in uses \/ Found(use, scopes) \/ Found(use, scopes')
<1>1. scopes \in Seq(Scope) /\ scopes' \in Seq(Scope)
  <2>1. IInv'
    BY NextIInv
  <2> QED
    BY <2>1 DEF IInv, TypeOK
<1>2. CASE Declaration
  BY <1>2 DEF Declaration, DeclGlobal, FuncBegin, Param, ParamsEnd, Prototype,
              BodyOpen, BodyClose, Eof, UsesFound, StmtModes
<1>3. CASE Error
  BY <1>3 DEF Error
<1>4. CASE UNCHANGED vars
  BY <1>4 DEF vars, UsesFound
<1>5. ASSUME Statement
      PROVE  mode' \in StmtModes
  BY <1>5, Zenon
     DEF Statement, ExprStmt, ReturnVoid, VarDecl, Break, Continue, MakeJump,
         Case, Default, BlockOpen, BlockClose, WhileOpen, SwitchOpen,
         HeadOpen, ForOpen, ForInit, ForRest, BodyReturns, IfOpen, Else,
         IfReturns, StmtReturns, StmtBegins, StmtModes
<1>6. CASE ReturnVoid \/ Break \/ Continue \/ Case \/ Default \/ BlockOpen
             \/ BlockClose \/ ForOpen \/ BodyReturns \/ Else \/ IfReturns
  <2>1. uses' = uses
    BY <1>6 DEF ReturnVoid, Break, Continue, MakeJump, Case, Default, BlockOpen,
                BlockClose, ForOpen, BodyReturns, Else, IfReturns
  <2> QED
    BY <1>5, <1>6, <2>1 DEF Statement
<1>7. ASSUME NEW chain \in {scopes, scopes'}, NEW kinds, NEW e,
             parse_expr(chain, kinds, e)
      PROVE  \A use \in uses' :
               use \in uses \/ Found(use, scopes) \/ Found(use, scopes')
  <2>1. \A use \in LocalsOf(chain, e) : Found(use, chain)
    BY <1>1, LocalsAreFound
  <2> QED
    BY <1>7, <2>1 DEF parse_expr
<1>8. CASE ExprStmt \/ VarDecl \/ WhileOpen \/ SwitchOpen \/ ForInit \/ IfOpen
  <2>1. \/ uses' = uses
        \/ \E e, kinds :
             parse_expr(scopes, kinds, e) \/ parse_expr(scopes', kinds, e)
    <3>1. CASE ExprStmt \/ IfOpen
      BY <3>1, Zenon DEF ExprStmt, IfOpen
    <3>2. CASE VarDecl
      BY <3>2, Zenon DEF VarDecl, parse_vardecl
    <3>3. CASE WhileOpen \/ SwitchOpen
      BY <3>3, Zenon DEF WhileOpen, SwitchOpen, HeadOpen
    <3>4. CASE ForInit
      BY <3>4, Zenon DEF ForInit, parse_vardecl
    <3> QED
      BY <1>8, <3>1, <3>2, <3>3, <3>4
  <2> QED
    BY <1>5, <1>7, <1>8, <2>1 DEF Statement
<1>9. CASE ForRest
  <2>1. PICK cond, step :
          uses' = uses \cup LocalsOf(scopes, cond) \cup LocalsOf(scopes, step)
    BY <1>9 DEF ForRest
  <2>2. \A use \in LocalsOf(scopes, cond) \cup LocalsOf(scopes, step) :
          Found(use, scopes)
    BY <1>1, LocalsAreFound
  <2> QED
    BY <1>5, <1>9, <2>1, <2>2 DEF Statement
<1> QED
  BY <1>2, <1>3, <1>4, <1>6, <1>8, <1>9 DEF Next, Statement

LEMMA UsesFoundStep ==
  ASSUME IInv, ChainScoped, UsesFound, [Next]_vars
  PROVE  UsesFound'
<1>1. mode' \notin StmtModes => uses' = {}
  BY NewUses
<1>2. CASE uses' = {}
  BY <1>2 DEF UsesFound
<1>3. CASE uses' # {}
  <2>1. Len(scopes') >= 1
    BY <1>1, <1>3, NextIInv DEF IInv, Shape, StmtModes, ScopesMirrorNesting
  <2>2. scopes' # <<>>
    BY <2>1, EmptySeq
  <2>3. CASE FuncBegin
    <3>1. mode \notin StmtModes /\ uses' = uses
      BY <2>3 DEF FuncBegin, StmtModes
    <3> QED
      BY <1>3, <3>1 DEF UsesFound
  <2>4. CASE ~ FuncBegin
    <3>1. \A use : Found(use, scopes) => Found(use, scopes')
      <4>1. CASE UNCHANGED <<scopes, scope_id>>
        BY <4>1
      <4>2. CASE Declares
        BY <4>2, DeclareScoped
      <4>3. CASE scope_push("BLOCK", 0)
        BY <4>3, PushScoped
      <4>4. CASE OpensBreakable
        <5>1. PICK kind \in Breakable : scope_push(kind, label_index + 1)
          BY <4>4 DEF OpensBreakable
        <5> QED
          BY <5>1, PushScoped
      <4>5. CASE Pops
        BY <4>5, PopScoped
      <4> QED
        BY <2>2, <2>4, <4>1, <4>2, <4>3, <4>4, <4>5, ChainStep
    <3>2. \A use \in uses' : Found(use, scopes')
      BY <3>1, NewUses DEF UsesFound
    <3> QED
      BY <1>1, <3>2 DEF UsesFound
  <2> QED
    BY <2>3, <2>4
<1> QED
  BY <1>2, <1>3

(* At the end of a body the chain is the function's scope and the body's.  *)
LEMMA BodyIsLast ==
  ASSUME IInv, BodyClose
  PROVE  Len(scopes) = 2
<1>1. /\ Len(scopes) \in Nat /\ Len(scopes) >= 2
      /\ Mirrors(scopes, cont) /\ InBody(cont) /\ Last(cont) = "FUNCTION"
  BY BodyHasScopes DEF BodyClose, StmtModes
<1>2. Len(cont) = 1
  <2>1. Len(cont) \in Nat /\ Len(cont) >= 1 /\ cont[Len(cont)] = "FUNCTION"
    BY <1>1, LenProperties DEF InBody, Last
  <2>2. ~ (Len(cont) \in 2 .. Len(cont))
    BY <1>1, <2>1 DEF InBody
  <2> QED
    BY <2>1, <2>2
<1>3. PICK at \in [2 .. Len(scopes) -> 1 .. Len(cont)] :
        \A i, j \in 2 .. Len(scopes) : i < j => at[i] < at[j]
  BY <1>1 DEF Mirrors, MirroredBy
<1>4. ASSUME Len(scopes) # 2
      PROVE  FALSE
  <2>1. 2 \in 2 .. Len(scopes) /\ 3 \in 2 .. Len(scopes)
    BY <1>1, <1>4
  <2>2. at[2] \in 1 .. 1 /\ at[3] \in 1 .. 1 /\ at[2] < at[3]
    BY <1>2, <1>3, <2>1
  <2> QED
    BY <2>2
<1> QED
  BY <1>4

LEMMA BodyResolves ==
  ASSUME IInv, ChainScoped, UsesFound, BodyClose, NEW use \in uses
  PROVE  LET locals == scope_pop(scopes)[1].locals
         IN  \E i \in 1 .. Len(locals) :
               {j \in 1 .. Len(locals) :
                  IsDeclaredAs(locals[j], use.scope_id, use.name)} = {i}
<1> DEFINE res    == scope_pop(scopes)
           locals == res[1].locals
<1>1. /\ scopes \in Seq(Scope) /\ Len(scopes) = 2 /\ Len(scopes) >= 2
  <2>1. Len(scopes) = 2
    BY BodyIsLast
  <2> QED
    BY <2>1 DEF IInv, TypeOK
<1>2. KeysDistinct(res) /\ Found(use, res) /\ Len(res) = 1
  <2>1. KeysDistinct(res) /\ Found(use, res)
    BY <1>1, PopKeys DEF ChainScoped, UsesFound
  <2>2. Len(res) = Len(scopes) - 1
    BY <1>1, PopPlaces
  <2> QED
    BY <1>1, <2>1, <2>2
<1>3. PICK p \in Places(res) :
        IsDeclaredAs(VarAt(res, p), use.scope_id, use.name)
  BY <1>2 DEF Found
<1>4. p[1] = 1 /\ p[2] \in 1 .. Len(locals) /\ p = <<1, p[2]>>
  <2>1. p[1] \in 1 .. 1 /\ p[2] \in 1 .. Len(res[p[1]].locals)
        /\ p = <<p[1], p[2]>>
    BY <1>2, PlaceParts
  <2>2. p[1] = 1
    BY <2>1
  <2> QED
    BY <2>1, <2>2
<1> HIDE DEF res
<1>5. ASSUME NEW j \in 1 .. Len(locals)
      PROVE  IsDeclaredAs(locals[j], use.scope_id, use.name) <=> j = p[2]
  <2>1. 1 \in 1 .. Len(res)
    BY <1>2
  <2>2. <<1, j>> \in Places(res) /\ VarAt(res, <<1, j>>) = locals[j]
    BY <2>1, PlaceIntro
  <2>3. ASSUME IsDeclaredAs(locals[j], use.scope_id, use.name)
        PROVE  j = p[2]
    <3>1. SameKey(VarAt(res, <<1, j>>), VarAt(res, p))
      BY <1>3, <2>2, <2>3 DEF IsDeclaredAs, SameKey
    <3>2. <<1, j>> = p
      BY <1>2, <2>2, <3>1 DEF KeysDistinct
    <3>3. <<1, j>>[2] = j
      OBVIOUS
    <3> QED
      BY <3>2, <3>3
  <2>4. VarAt(res, p) = locals[p[2]]
    BY <1>4 DEF VarAt
  <2> QED
    BY <1>3, <2>3, <2>4
<1> HIDE DEF locals
<1>6. {j \in 1 .. Len(locals) :
         IsDeclaredAs(locals[j], use.scope_id, use.name)} = {p[2]}
  BY <1>4, <1>5
<1> QED
  BY <1>4, <1>6 DEF locals, res

LEMMA UsesResolveStep ==
  ASSUME IInv, ChainScoped, UsesFound, UsesResolve, [Next]_vars
  PROVE  UsesResolve'
<1>1. CASE code' = code
  BY <1>1 DEF UsesResolve
<1>2. CASE code' = <<>>
  BY <1>2, EmptySeq DEF UsesResolve
<1>3. CASE BodyClose
  <2> DEFINE new == [decl   |-> decl,
                     locals |-> scope_pop(scopes)[1].locals,
                     nodes  |-> nodes,
                     jumps  |-> jumps,
                     uses   |-> uses]
             Resolved(f) ==
               \A use \in f.uses :
                 \E i \in 1 .. Len(f.locals) :
                   {j \in 1 .. Len(f.locals) :
                      IsDeclaredAs(f.locals[j], use.scope_id, use.name)} = {i}
  <2>1. Resolved(new)
    BY <1>3, BodyResolves
  <2>2. code' = Append(code, new) /\ code \in Seq(Func)
    BY <1>3 DEF BodyClose, IInv, TypeOK
  <2>3. \A f \in 1 .. Len(code) : Resolved(code[f])
    BY DEF UsesResolve
  <2> HIDE DEF new
  <2>4. /\ Len(code') = Len(code) + 1 /\ code'[Len(code) + 1] = new
        /\ \A f \in 1 .. Len(code) : code'[f] = code[f]
    BY <2>2, AppendIs
  <2>5. \A f \in 1 .. Len(code') : Resolved(code'[f])
    <3> HIDE DEF Resolved
    <3> QED
      BY <2>1, <2>2, <2>3, <2>4, LenProperties
  <2> QED
    BY <2>5 DEF UsesResolve
<1>4. CASE Declaration
  BY <1>1, <1>3, <1>4
     DEF Declaration, DeclGlobal, FuncBegin, Param, ParamsEnd, Prototype,
         BodyOpen, Eof
<1>5. CASE Statement
  BY <1>1, <1>5
     DEF Statement, ExprStmt, ReturnVoid, VarDecl, Break, Continue, MakeJump,
         Case, Default, BlockOpen, BlockClose, WhileOpen, SwitchOpen,
         HeadOpen, ForOpen, ForInit, ForRest, BodyReturns, IfOpen, Else,
         IfReturns
<1>6. CASE Error
  BY <1>2, <1>6 DEF Error
<1>7. CASE UNCHANGED vars
  BY <1>1, <1>7 DEF vars
<1> QED
  BY <1>4, <1>5, <1>6, <1>7 DEF Next

LEMMA ScopedHolds ==
  Spec => []Scoped
<1>1. ASSUME Init
      PROVE  Scoped
  <2>1. ChainScoped
    BY <1>1, EmptyScoped DEF Init
  <2>2. UsesFound /\ UsesResolve
    BY <1>1, EmptySeq DEF Init, UsesFound, UsesResolve
  <2> QED
    BY <2>1, <2>2 DEF Scoped, ChainScoped
<1>2. IInv /\ Scoped /\ [Next]_vars => Scoped'
  BY ChainScopedStep, UsesFoundStep, UsesResolveStep DEF Scoped, ChainScoped
<1> QED
  BY <1>1, <1>2, IInvHolds, PTL DEF Spec

(* Once the scopes of a function have been merged, (name, scope_id) picks  *)
(* out one variable of its frame for every use of a local variable.        *)
THEOREM UsesAreResolved ==
  Spec => []UsesResolve
<1>1. Scoped => UsesResolve
  BY DEF Scoped
<1> QED
  BY <1>1, ScopedHolds, PTL

-----------------------------------------------------------------------------
(* The blocks the scopes stand for                                         *)

(* The blocks of a chain, as env shows them while a function is read.      *)
BlocksOf(chain) == [i \in 1 .. Len(chain) |-> DeclaredIn(chain[i])]

LEMMA DeclaredInIs ==
  ASSUME NEW s \in Scope, NEW name \in Names
  PROVE  \/ ~ DeclaresName(s, name) /\ DeclaredIn(s)[name] = NoVar
         \/ /\ DeclaresName(s, name)
            /\ DeclaredIn(s)[name] # NoVar
            /\ DeclaredIn(s)[name] \in Types
            /\ \E i \in Own(s, name) : DeclaredIn(s)[name] = s.locals[i].type
<1>1. DeclaredIn(s)[name] = IF Own(s, name) = {} THEN NoVar
                            ELSE s.locals[CHOOSE i \in Own(s, name) : TRUE].type
  BY DEF DeclaredIn
<1>2. DeclaresName(s, name) <=> Own(s, name) # {}
  BY DEF DeclaresName, Own
<1>3. ASSUME NEW i \in Own(s, name)
      PROVE  s.locals[i].type \in Types /\ s.locals[i].type # NoVar
  <2>1. s.locals \in Seq(Var) /\ i \in 1 .. Len(s.locals)
    BY DEF Scope, Own
  <2>2. s.locals[i] \in Var
    BY <2>1, ElementOfSeq
  <2> QED
    BY <2>2, ParserAssumption DEF Var
<1>4. CASE Own(s, name) # {}
  <2>1. (CHOOSE i \in Own(s, name) : TRUE) \in Own(s, name)
    BY <1>4
  <2> QED
    BY <1>1, <1>2, <1>3, <1>4, <2>1
<1> QED
  BY <1>1, <1>2, <1>4

LEMMA DeclaredInSame ==
  ASSUME NEW s, NEW t, NEW name \in Names, Own(s, name) = Own(t, name),
         \A i \in Own(s, name) : s.locals[i] = t.locals[i]
  PROVE  DeclaredIn(s)[name] = DeclaredIn(t)[name]
<1> DEFINE O == Own(s, name)
           c == CHOOSE i \in O : TRUE
<1>1. /\ DeclaredIn(s)[name] = IF O = {} THEN NoVar ELSE s.locals[c].type
      /\ DeclaredIn(t)[name] = IF O = {} THEN NoVar ELSE t.locals[c].type
  <2>1. ASSUME NEW r, Own(r, name) = O
        PROVE  DeclaredIn(r)[name] = IF O = {} THEN NoVar ELSE r.locals[c].type
    <3>1. DeclaredIn(r)[name]
            = IF Own(r, name) = {} THEN NoVar
              ELSE r.locals[CHOOSE i \in Own(r, name) : TRUE].type
      BY DEF DeclaredIn
    <3>2. DeclaredIn(r)[name]
            = IF O = {} THEN NoVar ELSE r.locals[CHOOSE i \in O : TRUE].type
      BY <2>1, <3>1
    <3> QED
      BY <3>2
  <2> QED
    BY <2>1
<1>2. O # {} => c \in O
  BY Zenon
<1> QED
  BY <1>1, <1>2

LEMMA BlockType ==
  ASSUME NEW s \in Scope
  PROVE  DeclaredIn(s) \in Scoping!Block
<1>1. \A name \in Names : DeclaredIn(s)[name] \in Types \cup {NoVar}
  BY DeclaredInIs
<1>2. DeclaredIn(s) = [name \in Names |-> DeclaredIn(s)[name]]
  BY DEF DeclaredIn
<1> QED
  BY <1>1, <1>2 DEF Scoping!Block

LEMMA BlocksAre ==
  ASSUME NEW chain \in Seq(Scope)
  PROVE  /\ BlocksOf(chain) \in Seq(Scoping!Block)
         /\ Len(BlocksOf(chain)) = Len(chain)
         /\ \A i \in 1 .. Len(chain) : BlocksOf(chain)[i] = DeclaredIn(chain[i])
<1>1. Len(chain) \in Nat
  BY LenProperties
<1>2. \A i \in 1 .. Len(chain) : DeclaredIn(chain[i]) \in Scoping!Block
  BY ElementOfSeq, BlockType
<1>3. BlocksOf(chain) \in Seq(Scoping!Block)
  BY <1>1, <1>2, IsASeq DEF BlocksOf
<1>4. Len(BlocksOf(chain)) = Len(chain)
  BY <1>1 DEF BlocksOf
<1> QED
  BY <1>3, <1>4 DEF BlocksOf

(* A scope that has just been opened declares nothing.                     *)
LEMMA NewScopeBlock ==
  ASSUME NEW kind, NEW label, NEW id
  PROVE  DeclaredIn(NewScope(kind, label, id)) = Scoping!EmptyBlock
<1> DEFINE s == NewScope(kind, label, id)
<1>1. Len(s.locals) = 0
  BY EmptySeq DEF NewScope
<1> HIDE DEF s
<1>2. \A name : Own(s, name) = {}
  BY <1>1 DEF Own
<1> QED
  BY <1>2 DEF DeclaredIn, Scoping!EmptyBlock, s

-----------------------------------------------------------------------------
(* What a lookup finds                                                     *)

(* Within a chain no scope declares a name twice.                          *)
LEMMA OwnIsOne ==
  ASSUME NEW chain, KeysDistinct(chain), NEW k \in 1 .. Len(chain), NEW name,
         NEW i \in Own(chain[k], name), NEW j \in Own(chain[k], name)
  PROVE  i = j
<1>1. /\ i \in 1 .. Len(chain[k].locals)
      /\ IsDeclaredAs(chain[k].locals[i], chain[k].id, name)
  BY DEF Own
<1>2. /\ j \in 1 .. Len(chain[k].locals)
      /\ IsDeclaredAs(chain[k].locals[j], chain[k].id, name)
  BY DEF Own
<1>3. /\ <<k, i>> \in Places(chain) /\ <<k, j>> \in Places(chain)
      /\ VarAt(chain, <<k, i>>) = chain[k].locals[i]
      /\ VarAt(chain, <<k, j>>) = chain[k].locals[j]
  BY <1>1, <1>2, PlaceIntro
<1>4. SameKey(VarAt(chain, <<k, i>>), VarAt(chain, <<k, j>>))
  BY <1>1, <1>2, <1>3 DEF SameKey, IsDeclaredAs
<1>5. <<k, i>> = <<k, j>>
  BY <1>3, <1>4 DEF KeysDistinct
<1> QED
  BY <1>5

LEMMA LookupIsVisible ==
  ASSUME IInv, KeysDistinct(scopes), InFunction, NEW name \in Names
  PROVE  LET var == find_var_in_curr_scope(scopes, name)
         IN  Scoping!Visible(name) = IF var = NoVar THEN NoVar ELSE var.type
<1> DEFINE var == find_var_in_curr_scope(scopes, name)
           n   == Len(scopes)
           I   == {i \in 1 .. Len(env) : env[i][name] # NoVar}
<1>1. scopes \in Seq(Scope) /\ n \in Nat
  BY LenProperties DEF IInv, TypeOK
<1>2. \A i \in 1 .. n : scopes[i] \in Scope
  BY <1>1, ElementOfSeq
<1>3. /\ Len(env) = n
      /\ \A i \in 1 .. n : env[i] = DeclaredIn(scopes[i])
  <2>1. env = BlocksOf(scopes)
    BY DEF env, BlocksOf
  <2> QED
    BY <1>1, <2>1, BlocksAre
<1>4. I = {i \in 1 .. n : DeclaresName(scopes[i], name)}
  BY <1>2, <1>3, DeclaredInIs
<1>5. Scoping!Visible(name) = IF I # {} THEN IF Max(I) = 0 THEN NoVar
                                             ELSE env[Max(I)][name]
                              ELSE NoVar
  BY DEF Scoping!Visible, Scoping!SelectLastInSeq, Scoping!Max, Max
<1> HIDE DEF I
<1>6. CASE I = {}
  <2>1. var = NoVar
    BY <1>1, <1>4, <1>6, FindVarIs
  <2> QED
    BY <1>5, <1>6, <2>1
<1>7. CASE I # {}
  <2>1. Max(I) \in I /\ \A i \in I : i <= Max(I)
    <3>1. I \in SUBSET (1 .. n)
      BY <1>4
    <3> QED
      BY <1>1, <1>7, <3>1, MaxOfInterval
  <2>2. PICK k \in 1 .. n :
          /\ DeclaresName(scopes[k], name)
          /\ \A i \in 1 .. n : DeclaresName(scopes[i], name) => i <= k
          /\ \E j \in 1 .. Len(scopes[k].locals) :
               /\ var = scopes[k].locals[j]
               /\ IsDeclaredAs(scopes[k].locals[j], scopes[k].id, name)
    BY <1>1, <1>4, <1>7, FindVarIs
  <2>3. Max(I) = k
    <3>1. k \in I /\ Max(I) \in 1 .. n /\ DeclaresName(scopes[Max(I)], name)
      BY <1>4, <2>1, <2>2
    <3>2. k <= Max(I) /\ Max(I) <= k
      BY <2>1, <2>2, <3>1
    <3> QED
      BY <3>1, <3>2
  <2>4. PICK j \in 1 .. Len(scopes[k].locals) :
          /\ var = scopes[k].locals[j]
          /\ IsDeclaredAs(scopes[k].locals[j], scopes[k].id, name)
    BY <2>2
  <2>5. PICK i \in Own(scopes[k], name) :
          DeclaredIn(scopes[k])[name] = scopes[k].locals[i].type
    BY <1>2, <2>2, DeclaredInIs
  <2>6. j \in Own(scopes[k], name)
    BY <2>4 DEF Own
  <2>7. i = j
    BY <2>6, OwnIsOne
  <2>8. var # NoVar
    <3>1. scopes[k].locals \in Seq(Var)
      BY <1>2 DEF Scope
    <3>2. var \in Var
      BY <2>4, <3>1, ElementOfSeq
    <3> QED
      BY <3>2, ParserAssumption DEF Var
  <2>9. Scoping!Visible(name) = env[k][name]
    BY <1>5, <1>7, <2>2, <2>3
  <2> QED
    BY <1>3, <2>4, <2>5, <2>7, <2>8, <2>9
<1> QED
  BY <1>6, <1>7

(* A lookup finds the declaration block-structured scoping has in sight,   *)
(* and none when it has none (LookupFindsVisible).                         *)
THEOREM LookupIsLexical ==
  Spec => []LookupFindsVisible
<1>1. IInv /\ Scoped => LookupFindsVisible
  <2> SUFFICES ASSUME IInv, Scoped, InFunction, NEW name \in Names
               PROVE  LET var == find_var_in_curr_scope(scopes, name)
                      IN  Scoping!Visible(name)
                            = IF var = NoVar THEN NoVar ELSE var.type
    BY DEF LookupFindsVisible
  <2>1. KeysDistinct(scopes)
    BY DEF Scoped
  <2> QED
    BY <2>1, LookupIsVisible
<1> QED
  BY <1>1, IInvHolds, ScopedHolds, PTL

-----------------------------------------------------------------------------
(* Every step of Parser is a step of BlockScoping or leaves env alone      *)

LEMMA EnvIs ==
  ASSUME IInv, InFunction
  PROVE  /\ env = BlocksOf(scopes) /\ env \in Seq(Scoping!Block)
         /\ scopes \in Seq(Scope)
         /\ Len(scopes) \in Nat /\ Len(scopes) >= 1 /\ Len(env) = Len(scopes)
         /\ \A i \in 1 .. Len(scopes) : env[i] = DeclaredIn(scopes[i])
         /\ env # <<>>
<1>1. /\ scopes \in Seq(Scope) /\ Len(scopes) \in Nat /\ Len(scopes) >= 1
  BY LenProperties DEF IInv, TypeOK, ScopesMirrorNesting
<1>2. env = BlocksOf(scopes)
  BY DEF env, BlocksOf
<1>3. /\ env \in Seq(Scoping!Block) /\ Len(env) = Len(scopes)
      /\ \A i \in 1 .. Len(scopes) : env[i] = DeclaredIn(scopes[i])
  BY <1>1, <1>2, BlocksAre
<1>4. env # <<>>
  BY <1>1, <1>3, EmptySeq
<1> QED
  BY <1>1, <1>2, <1>3, <1>4

(* A declaration gives the innermost block, and no other, a name.          *)
LEMMA DeclareBlocks ==
  ASSUME NEW chain \in Seq(Scope), Len(chain) >= 1,
         NEW name \in Names, NEW type \in Types,
         ~ AddRefuses(chain, name, type)
  PROVE  LET n   == Len(chain)
             res == AddLocal(chain, name, type)
         IN  /\ \A i \in 1 .. n - 1 : DeclaredIn(res[i]) = DeclaredIn(chain[i])
             /\ DeclaredIn(chain[n])[name] = NoVar
             /\ DeclaredIn(res[n])
                  = [DeclaredIn(chain[n]) EXCEPT ![name] = type]
<1> DEFINE n   == Len(chain)
           res == AddLocal(chain, name, type)
           s   == chain[n]
           r   == res[n]
           m   == Len(s.locals)
           new == [name     |-> name,
                   type     |-> type,
                   offset   |-> LastOffset(s.locals)
                                  + roundup_to_dword(SizeOf[type]),
                   scope_id |-> s.id]
<1>1. n \in Nat /\ n \in 1 .. n /\ s \in Scope
  BY LenProperties, ElementOfSeq
<1>2. s.locals \in Seq(Var) /\ m \in Nat
  <2>1. s.locals \in Seq(Var)
    BY <1>1 DEF Scope
  <2> QED
    BY <2>1, LenProperties
<1>3. /\ res \in Seq(Scope) /\ Len(res) = n
      /\ \A i \in 1 .. n - 1 : res[i] = chain[i]
      /\ r = [s EXCEPT !.locals = add_var(s.locals, name, type, s.id)]
  BY AddLocalIs
<1> HIDE DEF res
<1>4. r.id = s.id /\ r.locals = Append(s.locals, new)
  BY <1>1, <1>3, Zenon DEF Scope, add_var
<1>5. new.name = name /\ new.type = type /\ new.scope_id = s.id
  OBVIOUS
<1> HIDE DEF new
<1>6. /\ Len(r.locals) = m + 1
      /\ r.locals[m + 1] = new
      /\ \A i \in 1 .. m : r.locals[i] = s.locals[i]
  BY <1>2, <1>4, AppendIs
<1>7. Own(s, name) = {}
  BY DEF AddRefuses, Redefines, Own, IsDeclaredAs
<1>8. r \in Scope
  BY <1>1, <1>3, ElementOfSeq
<1> HIDE DEF r, s
<1>9. DeclaredIn(s)[name] = NoVar
  BY <1>7 DEF DeclaredIn
<1>10. DeclaredIn(r)[name] = type
  <2>1. Own(r, name) = {m + 1}
    <3>1. ASSUME NEW i \in 1 .. m
          PROVE  ~ IsDeclaredAs(r.locals[i], r.id, name)
      BY <1>4, <1>6, <1>7 DEF Own, m
    <3>2. IsDeclaredAs(r.locals[m + 1], r.id, name)
      BY <1>4, <1>5, <1>6 DEF IsDeclaredAs
    <3>3. 1 .. Len(r.locals) = (1 .. m) \cup {m + 1}
      BY <1>2, <1>6
    <3> HIDE DEF m
    <3> QED
      BY <3>1, <3>2, <3>3 DEF Own
  <2>2. DeclaredIn(r)[name] = r.locals[CHOOSE i \in Own(r, name) : TRUE].type
    BY <2>1 DEF DeclaredIn
  <2>3. (CHOOSE i \in Own(r, name) : TRUE) = m + 1
    BY <2>1
  <2> QED
    BY <1>5, <1>6, <2>2, <2>3
<1>11. ASSUME NEW other \in Names, other # name
       PROVE  DeclaredIn(r)[other] = DeclaredIn(s)[other]
  <2>1. ~ IsDeclaredAs(r.locals[m + 1], r.id, other)
    BY <1>5, <1>6, <1>11 DEF IsDeclaredAs
  <2>2. 1 .. Len(r.locals) = (1 .. m) \cup {m + 1}
    BY <1>2, <1>6
  <2>3. \A i \in 1 .. m : r.locals[i] = s.locals[i] /\ r.id = s.id
    BY <1>4, <1>6
  <2>4. Own(r, other) = Own(s, other)
    BY <2>1, <2>2, <2>3 DEF Own
  <2>5. \A i \in Own(s, other) : s.locals[i] = r.locals[i]
    BY <2>3 DEF Own
  <2> QED
    BY <2>4, <2>5, DeclaredInSame
<1>12. DeclaredIn(r) = [DeclaredIn(s) EXCEPT ![name] = type]
  <2>1. /\ DeclaredIn(r) = [x \in Names |-> DeclaredIn(r)[x]]
        /\ DeclaredIn(s) = [x \in Names |-> DeclaredIn(s)[x]]
    BY DEF DeclaredIn
  <2> QED
    BY <1>10, <1>11, <2>1
<1> QED
  BY <1>3, <1>9, <1>12 DEF r, s, res

LEMMA DeclareSimulates ==
  ASSUME IInv, InFunction, InFunction', IInv', Declares
  PROVE  \E name \in Names, type \in Types : Scoping!Declare(name, type)
<1>1. PICK name \in Names, type \in Types :
        /\ ~ AddRefuses(scopes, name, type)
        /\ scopes' = AddLocal(scopes, name, type)
  BY DEF Declares
<1> DEFINE n  == Len(scopes)
           ex == [env EXCEPT ![n] = [env[n] EXCEPT ![name] = type]]
<1>2. /\ env \in Seq(Scoping!Block) /\ scopes \in Seq(Scope)
      /\ n \in Nat /\ n >= 1 /\ n \in 1 .. n /\ Len(env) = n
      /\ \A i \in 1 .. n : env[i] = DeclaredIn(scopes[i])
      /\ env # <<>>
  BY EnvIs
<1>3. scopes' \in Seq(Scope) /\ Len(scopes') = n
  BY <1>1, <1>2, AddLocalIs
<1>4. /\ env' \in Seq(Scoping!Block) /\ Len(env') = n
      /\ \A i \in 1 .. n : env'[i] = DeclaredIn(scopes'[i])
  <2>1. env' = BlocksOf(scopes')
    BY DEF env, BlocksOf
  <2> QED
    BY <1>3, <2>1, BlocksAre
<1>5. /\ \A i \in 1 .. n - 1 : DeclaredIn(scopes'[i]) = DeclaredIn(scopes[i])
      /\ DeclaredIn(scopes[n])[name] = NoVar
      /\ DeclaredIn(scopes'[n]) = [DeclaredIn(scopes[n]) EXCEPT ![name] = type]
  BY <1>1, <1>2, DeclareBlocks
<1>6. [env[n] EXCEPT ![name] = type] \in Scoping!Block
  <2>1. env[n] \in Scoping!Block
    BY <1>2, ElementOfSeq
  <2> QED
    BY <2>1 DEF Scoping!Block
<1>7. /\ ex \in Seq(Scoping!Block) /\ Len(ex) = n
      /\ \A i \in 1 .. n :
           ex[i] = IF i = n THEN [env[n] EXCEPT ![name] = type] ELSE env[i]
  BY <1>2, <1>6, ExceptSeq
<1>8. \A i \in 1 .. n : env'[i] = ex[i]
  <2> TAKE i \in 1 .. n
  <2>1. CASE i = n
    BY <1>2, <1>4, <1>5, <1>7, <2>1
  <2>2. CASE i # n
    <3>1. i \in 1 .. n - 1
      BY <1>2, <2>2
    <3> QED
      BY <1>2, <1>4, <1>5, <1>7, <2>2, <3>1
  <2> QED
    BY <2>1, <2>2
<1>9. env' = ex
  <2> HIDE DEF ex
  <2> QED
    BY <1>4, <1>7, <1>8, SeqEqual
<1>10. env[Len(env)][name] = NoVar
  BY <1>2, <1>5
<1>11. Scoping!Declare(name, type)
  BY <1>2, <1>9, <1>10 DEF Scoping!Declare
<1> QED
  BY <1>11

LEMMA EnterSimulates ==
  ASSUME IInv, InFunction, InFunction', IInv',
         NEW kind, NEW label, scope_push(kind, label)
  PROVE  Scoping!Enter
<1> DEFINE n  == Len(scopes)
           ap == Append(env, Scoping!EmptyBlock)
<1>1. /\ env \in Seq(Scoping!Block) /\ n \in Nat /\ Len(env) = n
      /\ \A i \in 1 .. n : env[i] = DeclaredIn(scopes[i])
      /\ env # <<>>
  BY EnvIs
<1>2. /\ Len(scopes') = n + 1
      /\ \A i \in 1 .. n : scopes'[i] = scopes[i]
      /\ scopes'[n + 1] = NewScope(kind, label, scope_id')
  BY PushIs
<1>3. /\ env' \in Seq(Scoping!Block) /\ Len(env') = n + 1
      /\ \A i \in 1 .. n + 1 : env'[i] = DeclaredIn(scopes'[i])
  <2>1. env' = BlocksOf(scopes') /\ scopes' \in Seq(Scope)
    BY DEF env, BlocksOf, IInv, TypeOK
  <2> QED
    BY <1>2, <2>1, BlocksAre
<1>4. DeclaredIn(scopes'[n + 1]) = Scoping!EmptyBlock
  <2>1. \A id : DeclaredIn(NewScope(kind, label, id)) = Scoping!EmptyBlock
    BY NewScopeBlock
  <2> QED
    BY <1>2, <2>1
<1>5. /\ Scoping!EmptyBlock \in Scoping!Block
  BY DEF Scoping!EmptyBlock, Scoping!Block
<1>6. /\ ap \in Seq(Scoping!Block) /\ Len(ap) = n + 1
      /\ \A i \in 1 .. n : ap[i] = env[i]
      /\ ap[n + 1] = Scoping!EmptyBlock
  BY <1>1, <1>5, AppendProperties
<1> HIDE DEF n, ap
<1>7. \A i \in 1 .. n + 1 : env'[i] = ap[i]
  <2> TAKE i \in 1 .. n + 1
  <2>1. CASE i = n + 1
    BY <1>3, <1>4, <1>6, <2>1
  <2>2. CASE i # n + 1
    <3>1. i \in 1 .. n
      BY <1>1, <2>2
    <3> QED
      BY <1>1, <1>2, <1>3, <1>6, <3>1
  <2> QED
    BY <2>1, <2>2
<1>8. env' = ap
  BY <1>3, <1>6, <1>7, SeqEqual
<1> QED
  BY <1>1, <1>8 DEF Scoping!Enter, ap

(* Closing a block adds variables to its parent's list and nothing to what *)
(* the parent declares: their scope_ids are not the parent's.              *)
LEMMA PopBlocks ==
  ASSUME IInv, ChainScoped, Len(scopes) >= 2
  PROVE  \A i \in 1 .. Len(scopes) - 1 :
           DeclaredIn(scope_pop(scopes)[i]) = DeclaredIn(scopes[i])
<1> DEFINE n   == Len(scopes)
           res == scope_pop(scopes)
           p   == scopes[n - 1]
           c   == scopes[n]
           r   == MergeInto(p, c)
           m   == Len(p.locals)
           k   == Len(c.locals)
<1>1. /\ scopes \in Seq(Scope) /\ n \in Nat /\ n >= 2
      /\ n - 1 \in 1 .. n /\ n \in 1 .. n
  BY LenProperties DEF IInv, TypeOK
<1>2. p \in Scope /\ c \in Scope
  BY <1>1, ElementOfSeq
<1>3. \A i \in 1 .. n - 2 : res[i] = scopes[i]
  BY <1>1, PopIs
<1>4. res[n - 1] = r
  BY <1>1, PopIs
<1>5. /\ r.id = p.id
      /\ m \in Nat /\ k \in Nat
      /\ Len(r.locals) = m + k
      /\ \A i \in 1 .. m : r.locals[i] = p.locals[i]
      /\ \A j \in 1 .. k : SameKey(r.locals[m + j], c.locals[j])
  BY <1>2, MergeVars
<1>6. ASSUME NEW j \in 1 .. k
      PROVE  c.locals[j].scope_id # p.id
  <2>1. <<n, j>> \in Places(scopes) /\ VarAt(scopes, <<n, j>>) = c.locals[j]
    BY <1>1, PlaceIntro
  <2>2. <<n, j>>[1] = n
    OBVIOUS
  <2>3. c.locals[j].scope_id = scopes[n - 1].id => n = n - 1
    BY <1>1, <2>1, <2>2 DEF ChainScoped, VarsPlaced
  <2>4. n # n - 1
    BY <1>1
  <2> QED
    BY <2>3, <2>4
<1> HIDE DEF r, p, c, res, m, k
<1>7. ASSUME NEW name \in Names
      PROVE  DeclaredIn(r)[name] = DeclaredIn(p)[name]
  <2>1. ASSUME NEW i \in 1 .. m + k, i \notin 1 .. m
        PROVE  ~ IsDeclaredAs(r.locals[i], r.id, name)
    <3>1. PICK j \in 1 .. k : i = m + j
      <4>1. m \in Nat /\ k \in Nat
        BY <1>5
      <4>2. i - m \in 1 .. k /\ i = m + (i - m)
        BY <2>1, <4>1
      <4> QED
        BY <4>2
    <3>2. SameKey(r.locals[i], c.locals[j]) /\ c.locals[j].scope_id # p.id
      BY <1>5, <1>6, <3>1
    <3> QED
      BY <1>5, <3>2 DEF SameKey, IsDeclaredAs
  <2>2. 1 .. m \subseteq 1 .. m + k
    <3>1. m \in Nat /\ k \in Nat
      BY <1>5
    <3> QED
      BY <3>1
  <2>3. \A i \in 1 .. m : r.locals[i] = p.locals[i] /\ r.id = p.id
    BY <1>5
  <2>4. Own(r, name) = Own(p, name)
    BY <1>5, <2>1, <2>2, <2>3 DEF Own, m
  <2>5. \A i \in Own(p, name) : r.locals[i] = p.locals[i]
    BY <2>3 DEF Own, m
  <2> QED
    BY <2>4, <2>5, DeclaredInSame
<1>8. DeclaredIn(r) = DeclaredIn(p)
  <2>1. /\ DeclaredIn(r) = [x \in Names |-> DeclaredIn(r)[x]]
        /\ DeclaredIn(p) = [x \in Names |-> DeclaredIn(p)[x]]
    BY DEF DeclaredIn
  <2> QED
    BY <1>7, <2>1
<1>9. ASSUME NEW i \in 1 .. n - 1
      PROVE  DeclaredIn(res[i]) = DeclaredIn(scopes[i])
  <2>1. CASE i = n - 1
    BY <1>4, <1>8, <2>1 DEF p
  <2>2. CASE i # n - 1
    <3>1. i \in 1 .. n - 2
      BY <1>1, <2>2
    <3> QED
      BY <1>3, <3>1
  <2> QED
    BY <2>1, <2>2
<1> QED
  BY <1>9 DEF res

LEMMA LeaveSimulates ==
  ASSUME IInv, ChainScoped, InFunction, InFunction', IInv', Pops
  PROVE  Scoping!Leave
<1> DEFINE n == Len(scopes)
<1>1. /\ env \in Seq(Scoping!Block) /\ Len(env) = n
      /\ \A i \in 1 .. n : env[i] = DeclaredIn(scopes[i])
  BY EnvIs
<1>2. /\ n \in Nat /\ n >= 2 /\ scopes \in Seq(Scope)
      /\ scopes' = scope_pop(scopes)
  BY BodyHasScopes DEF Pops
<1>3. scopes' \in Seq(Scope) /\ Len(scopes') = n - 1
  BY <1>2, PopIs
<1>4. /\ env' \in Seq(Scoping!Block) /\ Len(env') = n - 1
      /\ \A i \in 1 .. n - 1 : env'[i] = DeclaredIn(scopes'[i])
  <2>1. env' = BlocksOf(scopes')
    BY DEF env, BlocksOf
  <2> QED
    BY <1>3, <2>1, BlocksAre
<1>5. /\ Front(env) \in Seq(Scoping!Block) /\ Len(Front(env)) = n - 1
      /\ \A i \in 1 .. n - 1 : Front(env)[i] = env[i]
  BY <1>1, <1>2, FrontProperties
<1>6. \A i \in 1 .. n - 1 : env'[i] = Front(env)[i]
  <2> TAKE i \in 1 .. n - 1
  <2>1. DeclaredIn(scopes'[i]) = DeclaredIn(scopes[i])
    BY <1>2, PopBlocks
  <2>2. i \in 1 .. n
    BY <1>2
  <2> QED
    BY <1>1, <1>4, <1>5, <2>1, <2>2
<1>7. env' = Front(env)
  BY <1>4, <1>5, <1>6, SeqEqual
<1> QED
  BY <1>1, <1>2, <1>7 DEF Scoping!Leave, Scoping!Front, Front

LEMMA BeginSimulates ==
  ASSUME ~ InFunction, InFunction', FuncBegin
  PROVE  Scoping!BeginFunction
<1> DEFINE s == NewScope("FUNCDECL", 0, scope_id')
<1>1. scopes' = <<s>>
  BY DEF FuncBegin, scope_create
<1>2. DeclaredIn(s) = Scoping!EmptyBlock
  <2>1. \A id : DeclaredIn(NewScope("FUNCDECL", 0, id)) = Scoping!EmptyBlock
    BY NewScopeBlock
  <2> QED
    BY <2>1
<1> HIDE DEF s
<1>3. env' = BlocksOf(scopes')
  BY DEF env, BlocksOf
<1>4. BlocksOf(<<s>>) = <<Scoping!EmptyBlock>>
  BY <1>2 DEF BlocksOf
<1>5. env = <<>>
  BY DEF env
<1> QED
  BY <1>1, <1>3, <1>4, <1>5 DEF Scoping!BeginFunction

LEMMA OnlyFuncBeginBegins ==
  ASSUME IInv, [Next]_vars, ~ InFunction, InFunction'
  PROVE  FuncBegin
<1>1. mode \in {"top", "eof", "error"}
  BY DEF IInv, Shape
<1>2. ~ Statement
  BY <1>1 DEF Statement, ExprStmt, ReturnVoid, VarDecl, Break, Continue,
              MakeJump, Case, Default, BlockOpen, BlockClose, WhileOpen,
              SwitchOpen, HeadOpen, ForOpen, ForInit, ForRest, BodyReturns,
              IfOpen, Else, IfReturns
<1>3. Declaration => FuncBegin
  BY <1>1 DEF Declaration, DeclGlobal, Param, ParamsEnd, Prototype, BodyOpen,
              BodyClose, Eof, InFunction
<1> QED
  BY <1>2, <1>3 DEF Next, Error, vars, InFunction

LEMMA ScopingStep ==
  ASSUME IInv, IInv', ChainScoped, [Next]_vars
  PROVE  [Scoping!Next]_env
<1>1. CASE ~ InFunction'
  <2>1. env' = <<>>
    BY <1>1 DEF env
  <2>2. CASE InFunction
    <3>1. env # <<>>
      BY <2>2, EnvIs
    <3> QED
      BY <2>1, <3>1 DEF Scoping!Next, Scoping!EndFunction
  <2>3. CASE ~ InFunction
    BY <2>1, <2>3 DEF env
  <2> QED
    BY <2>2, <2>3
<1>2. CASE InFunction' /\ ~ InFunction
  BY <1>2, OnlyFuncBeginBegins, BeginSimulates DEF Scoping!Next
<1>3. CASE InFunction' /\ InFunction
  <2>1. CASE UNCHANGED <<scopes, scope_id>>
    BY <1>3, <2>1 DEF env
  <2>2. scopes' # <<>>
    <3>1. Len(scopes') >= 1
      BY <1>3 DEF IInv, ScopesMirrorNesting
    <3> QED
      BY <3>1, EmptySeq
  <2>3. ~ FuncBegin
    BY <1>3 DEF FuncBegin, IInv, Shape
  <2>4. CASE Declares
    BY <1>3, <2>4, DeclareSimulates DEF Scoping!Next
  <2>5. CASE scope_push("BLOCK", 0)
    BY <1>3, <2>5, EnterSimulates DEF Scoping!Next
  <2>6. CASE OpensBreakable
    BY <1>3, <2>6, EnterSimulates DEF Scoping!Next, OpensBreakable
  <2>7. CASE Pops
    BY <1>3, <2>7, LeaveSimulates DEF Scoping!Next
  <2> QED
    BY <2>1, <2>2, <2>3, <2>4, <2>5, <2>6, <2>7, ChainStep
<1> QED
  BY <1>1, <1>2, <1>3

(* Parser implements BlockScoping: for every program, the chain of scopes  *)
(* read through scope_id opens, fills and closes blocks as block-structured*)
(* scoping prescribes, though scope_pop leaves a block's variables in its  *)
(* parent's list.                                                          *)
THEOREM ParserImplementsScoping ==
  Spec => ImplementsScoping
<1>1. Init => Scoping!Init
  BY DEF Init, env, InFunction, Scoping!Init
<1>2. IInv /\ IInv' /\ Scoped /\ [Next]_vars => [Scoping!Next]_env
  BY ScopingStep DEF Scoped, ChainScoped
<1> QED
  BY <1>1, <1>2, IInvHolds, ScopedHolds, PTL
     DEF Spec, ImplementsScoping, Scoping!Spec

=============================================================================
