--------------------------- MODULE TypeTableProofs --------------------------
(***************************************************************************)
(* Theorems about the tables of types and globals, for every set of names, *)
(* every number of entries and every nesting of declarations.              *)
(***************************************************************************)
EXTENDS TypeTable, SequencePositions

-----------------------------------------------------------------------------
(* The sets of TypeOK                                                      *)

NamedTypes(ids) ==
  Scalars \cup [ty : {"STRUCT"}, id : ids]
    \cup [ty : {"ENUM"}, name : EnumTags \cup {None}]

StructObjects(ids) ==
  [name : Tags \cup {None}, members : {None} \cup Seq(Members(ids))]

Enumerators == [name : Names, val : Nat, is_extern : {FALSE}]

Globals(ids) == [name : Names, type : Types(ids), is_extern : BOOLEAN]

AliasTypes(ids) == [ty : {"TYPEDEF"}, base : Types(ids)]

Returned(ids) == {None} \cup Types(ids) \cup AliasTypes(ids)

LEMMA TypesAre ==
  ASSUME NEW ids
  PROVE  Types(ids) = NamedTypes(ids) \cup [ty : {"PTR"}, base : NamedTypes(ids)]
BY DEF Types, NamedTypes

(* More structs, more types.                                               *)
LEMMA TypesGrow ==
  ASSUME NEW ids, NEW more, ids \subseteq more
  PROVE  /\ Types(ids) \subseteq Types(more)
         /\ Members(ids) \subseteq Members(more)
         /\ Seq(Members(ids)) \subseteq Seq(Members(more))
         /\ StructObjects(ids) \subseteq StructObjects(more)
         /\ Seq(StructObjects(ids)) \subseteq Seq(StructObjects(more))
         /\ Seq(Entries(ids)) \subseteq Seq(Entries(more))
         /\ Seq(Globals(ids)) \subseteq Seq(Globals(more))
         /\ Seq(Calls(ids)) \subseteq Seq(Calls(more))
         /\ Returned(ids) \subseteq Returned(more)
<1>1. NamedTypes(ids) \subseteq NamedTypes(more)
  BY DEF NamedTypes
<1>2. Types(ids) \subseteq Types(more)
  <2>1. [ty : {"PTR"}, base : NamedTypes(ids)] \subseteq [ty : {"PTR"}, base : NamedTypes(more)]
    BY <1>1
  <2> QED
    BY <1>1, <2>1, TypesAre, Zenon
<1>3. Members(ids) \subseteq Members(more)
  BY <1>2 DEF Members
<1>4. Seq(Members(ids)) \subseteq Seq(Members(more))
  BY <1>3, SeqMonotonic
<1>5. StructObjects(ids) \subseteq StructObjects(more)
  BY <1>4 DEF StructObjects
<1>6. Entries(ids) \subseteq Entries(more)
  <2>1. [ty : {"STRUCT"}, name : Tags, id : ids] \subseteq [ty : {"STRUCT"}, name : Tags, id : more]
    OBVIOUS
  <2>2. [ty : {"TYPEDEF"}, name : Aliases, base : Types(ids)]
          \subseteq [ty : {"TYPEDEF"}, name : Aliases, base : Types(more)]
    BY <1>2
  <2> QED
    BY <2>1, <2>2, Zenon DEF Entries
<1>7. Globals(ids) \subseteq Globals(more)
  BY <1>2 DEF Globals
<1>8. Calls(ids) \subseteq Calls(more)
  <2>1. [at : {"struct"}, name : Tags \cup {None}, members : Seq(Members(ids))]
          \subseteq [at : {"struct"}, name : Tags \cup {None}, members : Seq(Members(more))]
    BY <1>4
  <2> QED
    BY <2>1, Zenon DEF Calls
<1>9. Returned(ids) \subseteq Returned(more)
  <2>1. AliasTypes(ids) \subseteq AliasTypes(more)
    BY <1>2 DEF AliasTypes
  <2> QED
    BY <1>2, <2>1, Zenon DEF Returned
<1> QED
  BY <1>2, <1>3, <1>4, <1>5, <1>6, <1>7, <1>8, <1>9, SeqMonotonic

(* What the kind of an element says about it.                              *)
LEMMA TypeIs ==
  ASSUME NEW ids, NEW type \in Returned(ids), type # None
  PROVE  /\ type.ty # "TYPEDEF" => type \in Types(ids)
         /\ type.ty = "TYPEDEF" => type.base \in Types(ids)
         /\ type.ty \in {"VOID", "STRUCT"} => type \in NamedTypes(ids)
<1>1. CASE type \in AliasTypes(ids)
  BY <1>1 DEF AliasTypes
<1>2. CASE type \in [ty : {"PTR"}, base : NamedTypes(ids)]
  <2>1. type.ty = "PTR"
    BY <1>2
  <2>2. type \in Types(ids)
    BY <1>2, TypesAre, Zenon
  <2> QED
    BY <2>1, <2>2
<1>3. CASE type \in NamedTypes(ids)
  <2>1. type.ty # "TYPEDEF"
    BY <1>3, TypeTableAssumption DEF NamedTypes
  <2>2. type \in Types(ids)
    BY <1>3, TypesAre, Zenon
  <2> QED
    BY <1>3, <2>1, <2>2
<1>4. type \in Types(ids) \/ type \in AliasTypes(ids)
  BY DEF Returned
<1> QED
  BY <1>1, <1>2, <1>3, <1>4, TypesAre, Zenon

LEMMA StructTypeIs ==
  ASSUME NEW ids, NEW type \in Types(ids), type.ty = "STRUCT"
  PROVE  type.id \in ids /\ type = struct(type.id)
<1>1. CASE type \in [ty : {"STRUCT"}, id : ids]
  BY <1>1 DEF struct
<1>2. CASE type \notin [ty : {"STRUCT"}, id : ids]
  <2>1. type \in Scalars \cup [ty : {"ENUM"}, name : EnumTags \cup {None}]
               \cup [ty : {"PTR"}, base : NamedTypes(ids)]
    BY <1>2, TypesAre, Zenon DEF NamedTypes
  <2>2. type.ty # "STRUCT"
    BY <2>1, TypeTableAssumption
  <2> QED
    BY <2>2
<1> QED
  BY <1>1, <1>2

LEMMA EntryIs ==
  ASSUME NEW ids, NEW t \in Entries(ids)
  PROVE  /\ t.ty = "STRUCT" => t \in [ty : {"STRUCT"}, name : Tags, id : ids]
         /\ t.ty = "TYPEDEF" => t \in [ty : {"TYPEDEF"}, name : Aliases, base : Types(ids)]
BY DEF Entries

LEMMA CallIs ==
  ASSUME NEW ids, NEW call \in Calls(ids)
  PROVE  /\ call.at = "struct" =>
              call \in [at : {"struct"}, name : Tags \cup {None}, members : Seq(Members(ids))]
         /\ call.at = "enum" =>
              call \in [at : {"enum"}, name : EnumTags \cup {None}, i : Nat]
         /\ call.at = "decl" => call \in [at : {"decl"}, is_extern : BOOLEAN]
BY DEF Calls

-----------------------------------------------------------------------------
(* The open calls                                                          *)

(* A declaration is the outermost call, "typedef" is read in it.           *)
Placed(s) ==
  /\ \A i \in DOMAIN s : s[i].at = "decl" <=> i = 1
  /\ \A i \in DOMAIN s : s[i].at = "typedef" => i = 2

LEMMA PushPlaced ==
  ASSUME NEW C, NEW s \in Seq(C), NEW call \in C, Placed(s),
         call.at = "decl" <=> s = <<>>,
         call.at = "typedef" => Len(s) = 1
  PROVE  Append(s, call) \in Seq(C) /\ Placed(Append(s, call))
<1> DEFINE n == Len(s)
           t == Append(s, call)
<1>1. n \in Nat /\ (s = <<>> <=> n = 0)
  BY LenProperties, EmptySeq
<1>2. t \in Seq(C) /\ DOMAIN t = 1 .. Len(t)
  BY AppendProperties
<1>3. /\ Len(t) = n + 1 /\ t[n + 1] = call
      /\ \A i \in 1 .. n : t[i] = s[i]
  BY AppendIs
<1>4. DOMAIN s = 1 .. n
  OBVIOUS
<1> HIDE DEF n, t
<1>5. ASSUME NEW i \in 1 .. n + 1
      PROVE  (t[i].at = "decl" <=> i = 1) /\ (t[i].at = "typedef" => i = 2)
  <2>1. CASE i \in 1 .. n
    BY <1>3, <1>4, <2>1 DEF Placed
  <2>2. CASE i = n + 1
    <3>1. i = 1 <=> s = <<>>
      <4>1. i = 1 <=> n = 0
        BY <1>1, <2>2
      <4> QED
        BY <1>1, <4>1
    <3>2. call.at = "typedef" => i = 2
      <4>1. call.at = "typedef" => n = 1
        BY Zenon DEF n
      <4> QED
        BY <2>2, <4>1
    <3> QED
      BY <1>3, <2>2, <3>1, <3>2
  <2> QED
    BY <1>1, <2>1, <2>2
<1> QED
  BY <1>2, <1>3, <1>5 DEF Placed, t

LEMMA LeavePlaced ==
  ASSUME NEW C, NEW s \in Seq(C), s # <<>>, Placed(s)
  PROVE  /\ Front(s) \in Seq(C) /\ Placed(Front(s)) /\ Len(Front(s)) = Len(s) - 1
         /\ \A i \in DOMAIN Front(s) : i \in DOMAIN s /\ Front(s)[i] = s[i]
<1> DEFINE n == Len(s)
           t == Front(s)
<1>1. n \in Nat /\ n >= 1 /\ DOMAIN s = 1 .. n
  BY LenProperties, EmptySeq
<1>2. /\ t \in Seq(C) /\ Len(t) = n - 1
      /\ \A i \in 1 .. n - 1 : t[i] = s[i]
  <2>1. Len(s) >= 1
    BY <1>1
  <2> QED
    BY <2>1, FrontProperties, Zenon
<1>3. DOMAIN t = 1 .. n - 1
  BY <1>2
<1> HIDE DEF n, t
<1>4. \A i \in DOMAIN t : i \in DOMAIN s /\ t[i] = s[i]
  BY <1>1, <1>2, <1>3
<1>5. Placed(t)
  BY <1>4 DEF Placed
<1> QED
  BY <1>2, <1>4, <1>5 DEF n, t

LEMMA ReplacePlaced ==
  ASSUME NEW C, NEW s \in Seq(C), s # <<>>, Placed(s), NEW call \in C,
         call.at = s[Len(s)].at
  PROVE  /\ [s EXCEPT ![Len(s)] = call] \in Seq(C)
         /\ Placed([s EXCEPT ![Len(s)] = call])
         /\ Len([s EXCEPT ![Len(s)] = call]) = Len(s)
<1> DEFINE n == Len(s)
           t == [s EXCEPT ![n] = call]
<1>1. n \in Nat /\ n \in 1 .. n /\ DOMAIN s = 1 .. n
  BY LenProperties, EmptySeq
<1>2. t \in Seq(C) /\ Len(t) = n
  BY <1>1, ExceptSeq
<1>3. DOMAIN t = DOMAIN s /\ \A i \in DOMAIN s : t[i] = IF i = n THEN call ELSE s[i]
  BY <1>1
<1> HIDE DEF n, t
<1> QED
  BY <1>2, <1>3 DEF Placed, n, t

-----------------------------------------------------------------------------
(* Type correctness                                                        *)

(* A type that is an alias being made is returned to its declaration only. *)
TypedInv ==
  /\ TypeOK
  /\ Placed(stack)
  /\ ret \in {None} \cup Types(DOMAIN structs) \/ Len(stack) = 1

NamesRight(entries, objects) ==
  \A k \in DOMAIN entries :
    entries[k].ty = "STRUCT" => objects[entries[k].id].name = entries[k].name

LEMMA TypedFacts ==
  ASSUME TypedInv
  PROVE  LET ids == DOMAIN structs
         IN  /\ structs \in Seq(StructObjects(ids))
             /\ ids = 1 .. Len(structs) /\ Len(structs) \in Nat
             /\ defined_types \in Seq(Entries(ids))
             /\ NamesRight(defined_types, structs)
             /\ constants \in Seq(Enumerators)
             /\ globals \in Seq(Globals(ids))
             /\ stack \in Seq(Calls(ids)) /\ Placed(stack)
             /\ ret \in Returned(ids)
             /\ ret \in {None} \cup Types(ids) \/ Len(stack) = 1
             /\ failed \in BOOLEAN
<1>1. structs \in Seq(StructObjects(DOMAIN structs))
  BY DEF TypedInv, TypeOK, StructObjects
<1>2. DOMAIN structs = 1 .. Len(structs) /\ Len(structs) \in Nat
  BY <1>1, LenProperties
<1>3. NamesRight(defined_types, structs)
  BY DEF TypedInv, TypeOK, NamesRight, Range
<1>4. /\ constants \in Seq(Enumerators) /\ globals \in Seq(Globals(DOMAIN structs))
      /\ ret \in Returned(DOMAIN structs)
  BY Zenon DEF TypedInv, TypeOK, Enumerators, Globals, Returned, AliasTypes
<1> QED
  BY <1>1, <1>2, <1>3, <1>4 DEF TypedInv, TypeOK

LEMMA TypedStep ==
  ASSUME structs' \in Seq(StructObjects(DOMAIN structs')),
         defined_types' \in Seq(Entries(DOMAIN structs')),
         NamesRight(defined_types', structs'),
         constants' \in Seq(Enumerators),
         globals' \in Seq(Globals(DOMAIN structs')),
         stack' \in Seq(Calls(DOMAIN structs')), Placed(stack'),
         ret' \in Returned(DOMAIN structs'),
         ret' \in {None} \cup Types(DOMAIN structs') \/ Len(stack') = 1,
         failed' \in BOOLEAN
  PROVE  TypedInv'
<1>1. \A t \in Range(defined_types') :
        t.ty = "STRUCT" => structs'[t.id].name = t.name
  BY Zenon DEF NamesRight, Range
<1>2. \A i \in DOMAIN stack' : stack'[i].at = "decl" <=> i = 1
  BY DEF Placed
<1>3. TypeOK'
  BY <1>1, <1>2, Zenon
     DEF TypeOK, StructObjects, Enumerators, Globals, Returned, AliasTypes
<1> QED
  BY <1>3, Zenon DEF TypedInv, Placed

(* The steps that only return a type.                                      *)
LEMMA ReturnTyped ==
  ASSUME TypedInv, UNCHANGED <<Tables, stack, failed>>,
         ret' \in Types(DOMAIN structs)
  PROVE  TypedInv'
<1>1. /\ structs' = structs /\ defined_types' = defined_types
      /\ constants' = constants /\ globals' = globals /\ stack' = stack
      /\ failed' = failed
  BY DEF Tables
<1>2. ret' \in Returned(DOMAIN structs)
  BY DEF Returned
<1> QED
  BY <1>1, <1>2, TypedFacts, TypedStep

LEMMA ScalarTyped ==
  ASSUME TypedInv, Scalar
  PROVE  TypedInv'
<1>1. ret' \in Scalars
  BY DEF Scalar, Return
<1>2. ret' \in Types(DOMAIN structs)
  BY <1>1, TypesAre, Zenon DEF NamedTypes
<1> QED
  BY <1>2, ReturnTyped DEF Scalar

LEMMA PointerTyped ==
  ASSUME TypedInv, Pointer
  PROVE  TypedInv'
<1>1. ret \in NamedTypes(DOMAIN structs)
  BY TypedFacts, TypeIs DEF Pointer
<1>2. ret' = [ty |-> "PTR", base |-> ret]
  BY DEF Pointer, Return, new_type_ptr_to
<1>3. ret' \in [ty : {"PTR"}, base : NamedTypes(DOMAIN structs)]
  BY <1>1, <1>2
<1>4. ret' \in Types(DOMAIN structs)
  BY <1>3, TypesAre, Zenon
<1> QED
  BY <1>4, ReturnTyped DEF Pointer

(* The entries of the table, by the type that is asked for.                *)
LEMMA FoundIs ==
  ASSUME TypedInv, NEW name, NEW t \in Found("STRUCT", name)
  PROVE  t \in [ty : {"STRUCT"}, name : Tags, id : DOMAIN structs] /\ t.name = name
<1>1. PICK k \in DOMAIN defined_types : t = defined_types[k]
  BY DEF Found, Range
<1>2. t \in Entries(DOMAIN structs)
  <2>1. defined_types \in Seq(Entries(DOMAIN structs))
    BY TypedFacts
  <2> QED
    BY <1>1, <2>1, ElementOfSeq
<1> QED
  BY <1>2, EntryIs DEF Found

LEMMA AliasUsedTyped ==
  ASSUME TypedInv, AliasUsed
  PROVE  TypedInv'
<1>1. PICK t \in Range(defined_types) : t.ty = "TYPEDEF" /\ ret' = t.base
  BY DEF AliasUsed, Return
<1>2. PICK k \in DOMAIN defined_types : t = defined_types[k]
  BY DEF Range
<1>3. t \in Entries(DOMAIN structs)
  <2>1. defined_types \in Seq(Entries(DOMAIN structs))
    BY TypedFacts
  <2> QED
    BY <1>2, <2>1, ElementOfSeq
<1>4. t \in [ty : {"TYPEDEF"}, name : Aliases, base : Types(DOMAIN structs)]
  BY <1>1, <1>3, EntryIs
<1>5. ret' \in Types(DOMAIN structs)
  BY <1>1, <1>4
<1> QED
  BY <1>5, ReturnTyped DEF AliasUsed

LEMMA ErrorTyped ==
  ASSUME TypedInv, Error
  PROVE  TypedInv'
<1>1. /\ structs' = structs /\ defined_types' = defined_types
      /\ constants' = constants /\ globals' = globals /\ stack' = <<>>
      /\ failed' = TRUE /\ ret' = None
  BY DEF Error, Tables
<1>2. <<>> \in Seq(Calls(DOMAIN structs)) /\ DOMAIN <<>> = {}
  BY EmptySeq
<1>3. Placed(<<>>)
  BY <1>2 DEF Placed
<1>4. ret' \in Returned(DOMAIN structs)
  BY <1>1 DEF Returned
<1> QED
  BY <1>1, <1>2, <1>3, <1>4, TypedFacts, TypedStep

(* A call is opened before a type is read.                                 *)
LEMMA PushTyped ==
  ASSUME TypedInv, UNCHANGED <<structs, constants, globals, failed>>,
         defined_types' \in Seq(Entries(DOMAIN structs)),
         NamesRight(defined_types', structs),
         NEW call \in Calls(DOMAIN structs), Push(call),
         ret' \in {None} \cup Types(DOMAIN structs),
         call.at = "decl" <=> stack = <<>>,
         call.at = "typedef" => Len(stack) = 1
  PROVE  TypedInv'
<1>1. stack' \in Seq(Calls(DOMAIN structs)) /\ Placed(stack')
  BY TypedFacts, PushPlaced DEF Push
<1>2. ret' \in Returned(DOMAIN structs)
  BY DEF Returned
<1> QED
  BY <1>1, <1>2, TypedFacts, TypedStep

(* A call is left with the type it returns.                                *)
LEMMA LeaveTyped ==
  ASSUME TypedInv, UNCHANGED <<structs, constants, failed>>,
         defined_types' \in Seq(Entries(DOMAIN structs)),
         NamesRight(defined_types', structs),
         globals' \in Seq(Globals(DOMAIN structs)),
         Leave, stack # <<>>,
         ret' \in Returned(DOMAIN structs),
         ret' \in {None} \cup Types(DOMAIN structs) \/ Len(stack) = 2
  PROVE  TypedInv'
<1>1. /\ stack' \in Seq(Calls(DOMAIN structs)) /\ Placed(stack')
      /\ Len(stack') = Len(stack) - 1
  BY TypedFacts, LeavePlaced DEF Leave
<1>2. ret' \in {None} \cup Types(DOMAIN structs) \/ Len(stack') = 1
  BY <1>1
<1> QED
  BY <1>1, <1>2, TypedFacts, TypedStep

-----------------------------------------------------------------------------
(* The struct objects                                                      *)

(* Another object, and one filled in place.                                *)
LEMMA ObjectAppended ==
  ASSUME TypedInv, NEW name \in Tags \cup {None},
         NEW members \in {None} \cup Seq(Members(DOMAIN structs)),
         structs' = Append(structs, [name |-> name, members |-> members])
  PROVE  /\ DOMAIN structs' = 1 .. Len(structs) + 1
         /\ DOMAIN structs \subseteq DOMAIN structs'
         /\ Len(structs) + 1 \notin DOMAIN structs
         /\ structs' \in Seq(StructObjects(DOMAIN structs'))
         /\ structs'[Len(structs) + 1] = [name |-> name, members |-> members]
         /\ \A id \in DOMAIN structs : structs'[id] = structs[id]
<1> DEFINE ids    == DOMAIN structs
           n      == Len(structs)
           object == [name |-> name, members |-> members]
<1>1. structs \in Seq(StructObjects(ids)) /\ ids = 1 .. n /\ n \in Nat
  BY TypedFacts
<1>2. object \in StructObjects(ids)
  BY DEF StructObjects
<1>3. structs' \in Seq(StructObjects(ids)) /\ DOMAIN structs' = 1 .. Len(structs')
  BY <1>1, <1>2, AppendProperties
<1>4. /\ Len(structs') = n + 1 /\ structs'[n + 1] = object
      /\ \A i \in 1 .. n : structs'[i] = structs[i]
  BY <1>1, AppendIs
<1>5. DOMAIN structs' = 1 .. n + 1 /\ ids \subseteq DOMAIN structs' /\ n + 1 \notin ids
  <2> HIDE DEF n, ids
  <2> QED
    BY <1>1, <1>3, <1>4
<1>6. structs' \in Seq(StructObjects(DOMAIN structs'))
  <2>1. ids \subseteq DOMAIN structs'
    BY <1>5
  <2>2. Seq(StructObjects(ids)) \subseteq Seq(StructObjects(DOMAIN structs'))
    BY <2>1, TypesGrow, Zenon
  <2> QED
    BY <1>3, <2>2
<1> QED
  BY <1>1, <1>4, <1>5, <1>6

LEMMA ObjectFilled ==
  ASSUME TypedInv, NEW id \in DOMAIN structs,
         NEW members \in Seq(Members(DOMAIN structs)),
         structs' = [structs EXCEPT ![id].members = members]
  PROVE  /\ DOMAIN structs' = DOMAIN structs
         /\ structs' \in Seq(StructObjects(DOMAIN structs'))
         /\ structs'[id].members = members /\ structs'[id].name = structs[id].name
         /\ \A i \in DOMAIN structs \ {id} : structs'[i] = structs[i]
<1> DEFINE ids    == DOMAIN structs
           n      == Len(structs)
           object == [structs[id] EXCEPT !.members = members]
<1>1. structs \in Seq(StructObjects(ids)) /\ ids = 1 .. n /\ n \in Nat
  BY TypedFacts
<1>2. structs[id] \in StructObjects(ids)
  BY <1>1, ElementOfSeq
<1>3. object \in StructObjects(ids) /\ object.members = members
      /\ object.name = structs[id].name
  BY <1>2 DEF StructObjects
<1>4. structs' = [structs EXCEPT ![id] = object]
  OBVIOUS
<1> HIDE DEF object
<1>5. structs' \in Seq(StructObjects(ids))
  BY <1>1, <1>3, <1>4, ExceptSeq
<1>6. DOMAIN structs' = ids /\ structs'[id] = object
      /\ \A i \in ids \ {id} : structs'[i] = structs[i]
  BY <1>4
<1> QED
  BY <1>3, <1>5, <1>6

(* The table after the object of a tag was entered.                        *)
LEMMA EntryAppended ==
  ASSUME TypedInv, NEW name \in Tags,
         NEW members \in {None} \cup Seq(Members(DOMAIN structs)),
         structs' = Append(structs, [name |-> name, members |-> members]),
         defined_types' = Append(defined_types,
                                 [ty |-> "STRUCT", name |-> name, id |-> Len(structs) + 1])
  PROVE  /\ defined_types' \in Seq(Entries(DOMAIN structs'))
         /\ NamesRight(defined_types', structs')
<1> DEFINE ids   == DOMAIN structs
           more  == DOMAIN structs'
           new   == Len(structs) + 1
           n     == Len(defined_types)
           entry == [ty |-> "STRUCT", name |-> name, id |-> new]
<1>1. /\ structs' \in Seq(StructObjects(more)) /\ new \in more /\ ids \subseteq more
      /\ structs'[new] = [name |-> name, members |-> members]
      /\ \A id \in ids : structs'[id] = structs[id]
  <2>1. Len(structs) \in Nat
    BY TypedFacts
  <2>2. DOMAIN structs' = 1 .. Len(structs) + 1
    BY ObjectAppended
  <2>3. new \in more
    BY <2>1, <2>2
  <2> QED
    BY <2>3, ObjectAppended, Zenon
<1>2. defined_types \in Seq(Entries(ids)) /\ defined_types \in Seq(Entries(more))
  BY <1>1, TypedFacts, TypesGrow
<1> HIDE DEF new, more
<1>3. entry \in Entries(more)
  <2>1. entry \in [ty : {"STRUCT"}, name : Tags, id : more]
    BY <1>1
  <2> QED
    BY <2>1, Zenon DEF Entries
<1>4. /\ Len(defined_types') = n + 1 /\ defined_types'[n + 1] = entry
      /\ \A i \in 1 .. n : defined_types'[i] = defined_types[i]
  BY <1>2, AppendIs DEF new
<1>5. defined_types' \in Seq(Entries(more))
  BY <1>2, <1>3, AppendProperties DEF new
<1>6. DOMAIN defined_types' = 1 .. n + 1 /\ DOMAIN defined_types = 1 .. n /\ n \in Nat
  BY <1>2, <1>4, <1>5, LenProperties
<1>7. ASSUME NEW k \in 1 .. n + 1, defined_types'[k].ty = "STRUCT"
      PROVE  structs'[defined_types'[k].id].name = defined_types'[k].name
  <2>1. CASE k \in 1 .. n
    <3>1. defined_types[k] \in Entries(ids)
      BY <1>2, <2>1, ElementOfSeq
    <3>2. defined_types'[k] = defined_types[k] /\ defined_types[k].ty = "STRUCT"
      BY <1>4, <1>7, <2>1
    <3>3. defined_types[k].id \in ids
      <4>1. defined_types[k] \in [ty : {"STRUCT"}, name : Tags, id : ids]
        BY <3>1, <3>2, EntryIs
      <4> QED
        BY <4>1
    <3>4. structs[defined_types[k].id].name = defined_types[k].name
      BY <1>6, <2>1, <3>2, TypedFacts DEF NamesRight
    <3> QED
      BY <1>1, <3>2, <3>3, <3>4, Zenon
  <2>2. CASE k = n + 1
    <3>1. defined_types'[k] = entry
      BY <1>4, <2>2
    <3>2. entry.id = new /\ entry.name = name
      OBVIOUS
    <3>3. structs'[new] = [name |-> name, members |-> members]
      BY <1>1
    <3>5. [name |-> name, members |-> members].name = name
      OBVIOUS
    <3>4. structs'[new].name = name
      BY <3>3, <3>5, Zenon
    <3> QED
      BY <3>1, <3>2, <3>4, Zenon
  <2>3. k \in 1 .. n \/ k = n + 1
    <3> HIDE DEF n
    <3> QED
      BY <1>6
  <2> QED
    BY <2>1, <2>2, <2>3
<1> QED
  BY <1>5, <1>6, <1>7, Zenon DEF NamesRight, more

(* The table stays right when an object is added or filled.                *)
LEMMA NamesStayRight ==
  ASSUME TypedInv,
         \A id \in DOMAIN structs : structs'[id].name = structs[id].name
  PROVE  NamesRight(defined_types, structs')
<1>1. defined_types \in Seq(Entries(DOMAIN structs)) /\ NamesRight(defined_types, structs)
  BY TypedFacts
<1>2. ASSUME NEW k \in DOMAIN defined_types, defined_types[k].ty = "STRUCT"
      PROVE  structs'[defined_types[k].id].name = defined_types[k].name
  <2>1. defined_types[k] \in Entries(DOMAIN structs)
    BY <1>1, ElementOfSeq
  <2>2. defined_types[k] \in [ty : {"STRUCT"}, name : Tags, id : DOMAIN structs]
    BY <1>2, <2>1, EntryIs
  <2>3. defined_types[k].id \in DOMAIN structs
    BY <2>2
  <2> QED
    BY <1>1, <1>2, <2>3 DEF NamesRight
<1> QED
  BY <1>2 DEF NamesRight

(* The rest, when there is a new object.                                   *)
LEMMA NewObjectTyped ==
  ASSUME TypedInv, NEW name \in Tags \cup {None},
         NEW members \in {None} \cup Seq(Members(DOMAIN structs)),
         NewStruct(name, members),
         defined_types' \in Seq(Entries(DOMAIN structs')),
         NamesRight(defined_types', structs'),
         stack' \in Seq(Calls(DOMAIN structs)), Placed(stack'),
         UNCHANGED <<constants, globals, failed>>
  PROVE  TypedInv'
<1>1. /\ structs' = Append(structs, [name |-> name, members |-> members])
      /\ ret' = struct(Len(structs) + 1)
  BY DEF NewStruct, Return
<1>2. /\ structs' \in Seq(StructObjects(DOMAIN structs'))
      /\ DOMAIN structs' = 1 .. Len(structs) + 1
      /\ DOMAIN structs \subseteq DOMAIN structs'
  BY <1>1, ObjectAppended
<1>3. Len(structs) + 1 \in DOMAIN structs'
  BY <1>2, TypedFacts
<1>4. ret' \in Types(DOMAIN structs')
  <2>1. ret' \in [ty : {"STRUCT"}, id : DOMAIN structs']
    BY <1>1, <1>3 DEF struct
  <2> QED
    BY <2>1, TypesAre, Zenon DEF NamedTypes
<1>5. ret' \in Returned(DOMAIN structs')
  BY <1>4 DEF Returned
<1>6. stack' \in Seq(Calls(DOMAIN structs')) /\ globals' \in Seq(Globals(DOMAIN structs'))
  <2>1. globals \in Seq(Globals(DOMAIN structs))
    BY TypedFacts
  <2>2. globals' = globals
    OBVIOUS
  <2> QED
    BY <1>2, <2>1, <2>2, TypesGrow
<1>7. constants' \in Seq(Enumerators) /\ failed' \in BOOLEAN
  BY TypedFacts
<1> QED
  BY <1>2, <1>4, <1>5, <1>6, <1>7, TypedStep

LEMMA StructMentionedTyped ==
  ASSUME TypedInv, StructMentioned
  PROVE  TypedInv'
<1>1. UNCHANGED <<constants, globals, stack, failed>>
  BY DEF StructMentioned
<1>2. PICK name \in Tags :
        \/ \E t \in Found("STRUCT", name) :
             Return(struct(t.id)) /\ UNCHANGED <<structs, defined_types>>
        \/ /\ Found("STRUCT", name) = {} /\ Room
           /\ NewStruct(name, None)
           /\ defined_types' = Append(defined_types,
                [ty |-> "STRUCT", name |-> name, id |-> Len(structs) + 1])
  BY DEF StructMentioned
<1>3. CASE \E t \in Found("STRUCT", name) :
             Return(struct(t.id)) /\ UNCHANGED <<structs, defined_types>>
  <2>1. PICK t \in Found("STRUCT", name) :
          Return(struct(t.id)) /\ UNCHANGED <<structs, defined_types>>
    BY <1>3
  <2>2. t \in [ty : {"STRUCT"}, name : Tags, id : DOMAIN structs]
    BY FoundIs
  <2>3. t.id \in DOMAIN structs
    BY <2>2
  <2>4. struct(t.id) \in [ty : {"STRUCT"}, id : DOMAIN structs]
    BY <2>3 DEF struct
  <2>5. ret' \in Types(DOMAIN structs)
    BY <2>1, <2>4, TypesAre, Zenon DEF NamedTypes, Return
  <2> QED
    BY <1>1, <2>1, <2>5, ReturnTyped DEF Tables
<1>4. CASE /\ NewStruct(name, None)
           /\ defined_types' = Append(defined_types,
                [ty |-> "STRUCT", name |-> name, id |-> Len(structs) + 1])
  <2>1. structs' = Append(structs, [name |-> name, members |-> None])
    BY <1>4 DEF NewStruct
  <2>2. /\ defined_types' \in Seq(Entries(DOMAIN structs'))
        /\ NamesRight(defined_types', structs')
    BY <1>4, <2>1, EntryAppended
  <2>3. stack' \in Seq(Calls(DOMAIN structs)) /\ Placed(stack')
    BY <1>1, TypedFacts
  <2> QED
    BY <1>1, <1>4, <2>2, <2>3, NewObjectTyped
<1> QED
  BY <1>2, <1>3, <1>4

LEMMA StructOpenTyped ==
  ASSUME TypedInv, StructOpen
  PROVE  TypedInv'
<1>1. PICK name \in Tags \cup {None} :
        Push([at |-> "struct", name |-> name, members |-> <<>>])
  BY DEF StructOpen
<1> DEFINE call == [at |-> "struct", name |-> name, members |-> <<>>]
<1>2. call \in Calls(DOMAIN structs)
  <2>1. <<>> \in Seq(Members(DOMAIN structs))
    BY EmptySeq
  <2>2. call \in [at : {"struct"}, name : Tags \cup {None}, members : Seq(Members(DOMAIN structs))]
    BY <2>1
  <2> QED
    BY <2>2, Zenon DEF Calls
<1>3. call.at = "struct"
  OBVIOUS
<1>4. stack # <<>> /\ ret' = None
  BY DEF StructOpen, AtType
<1>5. /\ structs' = structs /\ defined_types' = defined_types
      /\ constants' = constants /\ globals' = globals /\ failed' = failed
  BY DEF StructOpen, Tables
<1> HIDE DEF call
<1> QED
  BY <1>1, <1>2, <1>3, <1>4, <1>5, TypedFacts, PushTyped DEF call

(* The innermost call when it is the body of a struct.                     *)
LEMMA ReadingStruct ==
  ASSUME TypedInv, Parsing("struct")
  PROVE  /\ stack # <<>> /\ Len(stack) \in DOMAIN stack /\ Last(stack) = stack[Len(stack)]
         /\ Last(stack) \in [at : {"struct"}, name : Tags \cup {None},
                             members : Seq(Members(DOMAIN structs))]
         /\ Len(stack) # 1
<1>1. stack # <<>> /\ Last(stack).at = "struct" /\ Last(stack) = stack[Len(stack)]
  BY DEF Parsing, Last
<1>2. stack \in Seq(Calls(DOMAIN structs)) /\ Placed(stack)
  BY TypedFacts
<1>3. Len(stack) \in DOMAIN stack
  BY <1>1, <1>2, LenProperties, EmptySeq
<1>4. Last(stack) \in Calls(DOMAIN structs)
  BY <1>1, <1>2, <1>3, ElementOfSeq
<1>5. Last(stack) \in [at : {"struct"}, name : Tags \cup {None},
                       members : Seq(Members(DOMAIN structs))]
  BY <1>1, <1>4, CallIs
<1>6. Len(stack) # 1
  BY <1>1, <1>2, <1>3 DEF Placed
<1> QED
  BY <1>1, <1>3, <1>5, <1>6

-----------------------------------------------------------------------------
(* Sizes                                                                   *)

(* sizeof_type of the last member, with f for the structs; of a struct; of *)
(* all the structs of a list of objects.                                   *)
LastSize(f, type) ==
  IF type.ty = "STRUCT" THEN f[type.id]
  ELSE CASE type.ty = "CHAR" -> 1
         [] type.ty = "PTR"  -> 8
         [] OTHER            -> 4

SizeBy(f, members) ==
  IF members \in {None, <<>>} THEN 0
  ELSE Last(members).offset + LastSize(f, Last(members).type)

Sized(objects, f) == [id \in DOMAIN objects |-> SizeBy(f, objects[id].members)]

SizesOf(objects) == CHOOSE f : f = Sized(objects, f)

LEMMA StructSizeIs ==
  StructSize = SizesOf(structs)
BY DEF StructSize, SizesOf, Sized, SizeBy, LastSize

(* A struct holds another by value.                                        *)
HoldsIn(objects, i, j) ==
  /\ objects[i].members # None
  /\ \E m \in Range(objects[i].members) : m.type = struct(j)

(* A struct ranks above all it holds, no two have the same rank.           *)
RankedBy(objects, rank) ==
  /\ rank \in [DOMAIN objects -> DOMAIN objects]
  /\ \A i, j \in DOMAIN objects : rank[i] = rank[j] => i = j
  /\ \A i, j \in DOMAIN objects : HoldsIn(objects, i, j) => rank[j] < rank[i]

TypedObjects(objects) ==
  objects \in Seq(StructObjects(DOMAIN objects))

LEMMA TypedObjectsAre ==
  ASSUME NEW objects, TypedObjects(objects)
  PROVE  /\ DOMAIN objects = 1 .. Len(objects) /\ Len(objects) \in Nat
         /\ DOMAIN objects \subseteq Nat
         /\ \A id \in DOMAIN objects :
              objects[id].members \in {None} \cup Seq(Members(DOMAIN objects))
<1>1. DOMAIN objects = 1 .. Len(objects) /\ Len(objects) \in Nat
  BY LenProperties DEF TypedObjects
<1>2. ASSUME NEW id \in DOMAIN objects
      PROVE  objects[id].members \in {None} \cup Seq(Members(DOMAIN objects))
  <2>1. objects[id] \in StructObjects(DOMAIN objects)
    BY <1>1, ElementOfSeq DEF TypedObjects
  <2> QED
    BY <2>1 DEF StructObjects
<1>3. DOMAIN objects \subseteq Nat
  <2>1. \A i \in 1 .. Len(objects) : i \in Nat
    BY <1>1
  <2> QED
    BY <1>1, <2>1, Zenon
<1> QED
  BY <1>1, <1>2, <1>3, Zenon

(* The size of a struct depends on the structs it holds.                   *)
LEMMA SizeIsLocal ==
  ASSUME NEW objects, TypedObjects(objects), NEW id \in DOMAIN objects,
         NEW f, NEW g,
         \A j \in DOMAIN objects : HoldsIn(objects, id, j) => f[j] = g[j] /\ f[j] \in Int
  PROVE  /\ SizeBy(f, objects[id].members) = SizeBy(g, objects[id].members)
         /\ SizeBy(f, objects[id].members) \in Int
<1> DEFINE ids     == DOMAIN objects
           members == objects[id].members
           last    == Last(members)
<1>1. members \in {None} \cup Seq(Members(ids))
  BY TypedObjectsAre
<1>2. CASE members \in {None, <<>>}
  BY <1>2 DEF SizeBy
<1>3. CASE members \notin {None, <<>>}
  <2>1. members \in Seq(Members(ids)) /\ members # <<>> /\ members # None
    BY <1>1, <1>3
  <2>2. Len(members) \in 1 .. Len(members) /\ DOMAIN members = 1 .. Len(members)
    BY <2>1, LenProperties, EmptySeq
  <2>3. last \in Members(ids) /\ last \in Range(members)
    BY <2>1, <2>2, ElementOfSeq DEF Last, Range
  <2> HIDE DEF last
  <2>4. last.offset \in Int /\ last.type \in Types(ids)
    BY <2>3 DEF Members
  <2>5. LastSize(f, last.type) = LastSize(g, last.type) /\ LastSize(f, last.type) \in Int
    <3>1. CASE last.type.ty = "STRUCT"
      <4>1. last.type.id \in ids /\ last.type = struct(last.type.id)
        BY <2>4, <3>1, StructTypeIs
      <4>2. HoldsIn(objects, id, last.type.id)
        BY <2>1, <2>3, <4>1, Zenon DEF HoldsIn
      <4>3. f[last.type.id] = g[last.type.id] /\ f[last.type.id] \in Int
        BY <4>1, <4>2
      <4> QED
        BY <3>1, <4>3 DEF LastSize
    <3>2. CASE last.type.ty # "STRUCT"
      BY <3>2 DEF LastSize
    <3> QED
      BY <3>1, <3>2
  <2>6. /\ SizeBy(f, members) = last.offset + LastSize(f, last.type)
        /\ SizeBy(g, members) = last.offset + LastSize(g, last.type)
    BY <1>3 DEF SizeBy, last
  <2> HIDE DEF members
  <2>7. SizeBy(f, members) = SizeBy(g, members) /\ SizeBy(f, members) \in Int
    BY <2>4, <2>5, <2>6
  <2> QED
    BY <2>7 DEF members
<1> QED
  BY <1>2, <1>3

(* If no struct holds itself, all have a size: one rank after the other.   *)
LEMMA SizesExist ==
  ASSUME NEW objects, TypedObjects(objects), NEW rank, RankedBy(objects, rank)
  PROVE  /\ SizesOf(objects) \in [DOMAIN objects -> Int]
         /\ SizesOf(objects) = Sized(objects, SizesOf(objects))
<1> DEFINE ids == DOMAIN objects
           n   == Len(objects)
           Upto(r) == {f \in [ids -> Int] :
                         \A id \in ids : rank[id] <= r =>
                           f[id] = SizeBy(f, objects[id].members)}
           Missing == {r \in 0 .. n : Upto(r) = {}}
<1>1. ids = 1 .. n /\ n \in Nat
  BY TypedObjectsAre
<1>2. /\ \A id \in ids : rank[id] \in 1 .. n
      /\ \A i, j \in ids : HoldsIn(objects, i, j) => rank[j] < rank[i]
  BY <1>1 DEF RankedBy
<1> HIDE DEF n
<1>3. Missing = {}
  <2> SUFFICES ASSUME Missing # {}
               PROVE  FALSE
    OBVIOUS
  <2> DEFINE r == Min(Missing)
  <2>1. Missing \in SUBSET Nat
    BY <1>1
  <2>2. r \in Missing /\ \A k \in Missing : r <= k
    <3> HIDE DEF Missing
    <3> QED
      BY <2>1, MinOfInterval
  <2>3. r \in 0 .. n /\ Upto(r) = {}
    BY <2>2
  <2> HIDE DEF r
  <2>4. r # 0
    <3>1. [id \in ids |-> 0] \in Upto(0)
      <4>1. \A id \in ids : ~ (rank[id] <= 0)
        BY <1>1, <1>2
      <4> QED
        BY <4>1
    <3> QED
      BY <2>3, <3>1
  <2>5. r - 1 \in 0 .. n /\ ~ (r <= r - 1) /\ r \in 1 .. n
    BY <1>1, <2>3, <2>4
  <2>6. Upto(r - 1) # {}
    BY <2>2, <2>5
  <2>7. PICK f \in Upto(r - 1) : TRUE
    BY <2>6
  <2> DEFINE h == [id \in ids |-> IF rank[id] = r THEN SizeBy(f, objects[id].members)
                                  ELSE f[id]]
  <2>8. ASSUME NEW id \in ids, rank[id] <= r
        PROVE  /\ SizeBy(f, objects[id].members) = SizeBy(h, objects[id].members)
               /\ SizeBy(f, objects[id].members) \in Int
    <3>1. ASSUME NEW j \in ids, HoldsIn(objects, id, j)
          PROVE  f[j] = h[j] /\ f[j] \in Int
      <4>1. rank[j] < rank[id] /\ rank[id] \in 1 .. n /\ rank[j] \in 1 .. n
        BY <1>2, <3>1
      <4>2. rank[j] # r
        BY <1>1, <2>5, <2>8, <4>1
      <4> QED
        BY <2>7, <4>2
    <3> HIDE DEF h
    <3> QED
      BY <3>1, SizeIsLocal
  <2>9. h \in [ids -> Int]
    <3>1. ASSUME NEW id \in ids
          PROVE  (IF rank[id] = r THEN SizeBy(f, objects[id].members) ELSE f[id]) \in Int
      <4>1. CASE rank[id] = r
        <5>1. rank[id] <= r
          BY <2>5, <4>1
        <5> QED
          BY <2>8, <4>1, <5>1, Zenon
      <4>2. CASE rank[id] # r
        BY <2>7, <4>2
      <4> QED
        BY <4>1, <4>2
    <3> QED
      BY <3>1
  <2>10. ASSUME NEW id \in ids, rank[id] <= r
         PROVE  h[id] = SizeBy(h, objects[id].members)
    <3>1. CASE rank[id] = r
      <4>1. h[id] = SizeBy(f, objects[id].members)
        BY <3>1
      <4> HIDE DEF h
      <4> QED
        BY <2>8, <2>10, <4>1, Zenon
    <3>2. CASE rank[id] # r
      <4>1. rank[id] <= r - 1
        BY <1>2, <2>5, <2>10, <3>2
      <4>2. h[id] = f[id]
        BY <3>2
      <4>3. f[id] = SizeBy(f, objects[id].members)
        BY <2>7, <4>1
      <4> HIDE DEF h
      <4> QED
        BY <2>8, <2>10, <4>2, <4>3, Zenon
    <3> QED
      BY <3>1, <3>2
  <2> HIDE DEF h
  <2>11. h \in Upto(r)
    BY <2>9, <2>10
  <2> QED
    BY <2>3, <2>11
<1>4. PICK f \in Upto(n) : TRUE
  <2> HIDE DEF Upto
  <2>1. n \in 0 .. n
    BY <1>1
  <2>2. Upto(n) # {}
    BY <1>3, <2>1
  <2> QED
    BY <2>2
<1>5. f = Sized(objects, f)
  <2>1. ASSUME NEW id \in ids
        PROVE  f[id] = SizeBy(f, objects[id].members)
    <3>1. rank[id] <= n
      BY <1>1, <1>2
    <3> QED
      BY <1>4, <3>1
  <2>2. f = [id \in ids |-> f[id]]
    BY <1>4
  <2> QED
    BY <2>1, <2>2, Zenon DEF Sized
<1> DEFINE size == SizesOf(objects)
<1>6. size = Sized(objects, size)
  BY <1>5, Zenon DEF SizesOf
<1> HIDE DEF size
<1>7. \A id \in ids : size[id] = SizeBy(size, objects[id].members)
  BY <1>6, Zenon DEF Sized
<1>8. \A id \in ids : size[id] \in Int
  <2> DEFINE Wrong == {r \in 0 .. n : \E id \in ids : rank[id] = r /\ size[id] \notin Int}
             r     == Min(Wrong)
  <2> SUFFICES ASSUME NEW bad \in ids, size[bad] \notin Int
               PROVE  FALSE
    OBVIOUS
  <2>1. Wrong \in SUBSET Nat /\ Wrong # {}
    <3>1. rank[bad] \in 0 .. n
      BY <1>1, <1>2
    <3> QED
      BY <3>1, <1>1
  <2>2. r \in Wrong /\ \A k \in Wrong : r <= k
    <3> HIDE DEF Wrong
    <3> QED
      BY <2>1, MinOfInterval
  <2>3. PICK id \in ids : rank[id] = r /\ size[id] \notin Int
    BY <2>2
  <2>4. ASSUME NEW j \in ids, HoldsIn(objects, id, j)
        PROVE  size[j] = size[j] /\ size[j] \in Int
    <3>1. rank[j] < rank[id] /\ rank[id] \in 1 .. n /\ rank[j] \in 1 .. n
      BY <1>2, <2>4
    <3>2. rank[j] \in 0 .. n /\ ~ (r <= rank[j])
      <4> HIDE DEF r
      <4> QED
        BY <1>1, <2>3, <3>1
    <3> HIDE DEF r
    <3>3. rank[j] \notin Wrong
      BY <2>2, <3>2
    <3> QED
      BY <3>2, <3>3
  <2>5. SizeBy(size, objects[id].members) \in Int
    BY <2>4, SizeIsLocal
  <2> QED
    BY <1>7, <2>3, <2>5
<1>9. size = [id \in ids |-> size[id]]
  BY <1>6, Zenon DEF Sized
<1>10. size \in [ids -> Int]
  BY <1>8, <1>9
<1> QED
  BY <1>6, <1>10, Zenon DEF size

(* What was complete keeps its size when other structs are.                *)
LEMMA SizesStay ==
  ASSUME NEW old, TypedObjects(old), NEW rank, RankedBy(old, rank),
         NEW new, TypedObjects(new), NEW newRank, RankedBy(new, newRank),
         DOMAIN old \subseteq DOMAIN new,
         \A id \in DOMAIN old : old[id].members # None => new[id] = old[id],
         \A i, j \in DOMAIN old : HoldsIn(old, i, j) => old[j].members # None,
         NEW id \in DOMAIN old, old[id].members # None
  PROVE  SizesOf(new)[id] = SizesOf(old)[id]
<1> DEFINE ids == DOMAIN old
           n   == Len(old)
           f   == SizesOf(old)
           g   == SizesOf(new)
           Complete == {i \in ids : old[i].members # None}
           Wrong    == {r \in 0 .. n : \E i \in Complete : rank[i] = r /\ g[i] # f[i]}
           r        == Min(Wrong)
<1>1. ids = 1 .. n /\ n \in Nat
  BY TypedObjectsAre
<1>2. /\ \A i \in ids : rank[i] \in 1 .. n
      /\ \A i, j \in ids : HoldsIn(old, i, j) => rank[j] < rank[i]
  BY <1>1 DEF RankedBy
<1>3. f \in [ids -> Int] /\ f = Sized(old, f) /\ g = Sized(new, g)
  BY SizesExist
<1> HIDE DEF f, g, n
<1>4. \A i \in ids : f[i] = SizeBy(f, old[i].members)
  BY <1>3, Zenon DEF Sized
<1>5. \A i \in Complete : g[i] = SizeBy(g, old[i].members)
  <2> TAKE i \in Complete
  <2>1. i \in DOMAIN new /\ new[i] = old[i]
    OBVIOUS
  <2>2. g[i] = SizeBy(g, new[i].members)
    BY <1>3, <2>1, Zenon DEF Sized
  <2> QED
    BY <2>1, <2>2
<1> SUFFICES ASSUME g[id] # f[id]
             PROVE  FALSE
  BY DEF f, g
<1>6. Wrong \in SUBSET Nat /\ Wrong # {}
  <2>1. rank[id] \in 0 .. n
    BY <1>1, <1>2
  <2> QED
    BY <2>1, <1>1
<1>7. r \in Wrong /\ \A k \in Wrong : r <= k
  <2> HIDE DEF Wrong
  <2> QED
    BY <1>6, MinOfInterval
<1>8. PICK i \in Complete : rank[i] = r /\ g[i] # f[i]
  BY <1>7
<1>9. ASSUME NEW j \in ids, HoldsIn(old, i, j)
      PROVE  f[j] = g[j] /\ f[j] \in Int
  <2>1. rank[j] < rank[i] /\ rank[i] \in 1 .. n /\ rank[j] \in 1 .. n
    BY <1>2, <1>9
  <2>2. rank[j] \in 0 .. n /\ ~ (r <= rank[j])
    <3> HIDE DEF r
    <3> QED
      BY <1>1, <1>8, <2>1
  <2> HIDE DEF r
  <2>3. rank[j] \notin Wrong
    BY <1>7, <2>2
  <2>4. j \in Complete
    BY <1>9
  <2>5. f[j] = g[j]
    BY <2>2, <2>3, <2>4
  <2> QED
    BY <1>3, <2>5
<1>10. SizeBy(f, old[i].members) = SizeBy(g, old[i].members)
  BY <1>9, SizeIsLocal
<1> QED
  BY <1>4, <1>5, <1>8, <1>10

-----------------------------------------------------------------------------
(* A member that is read                                                   *)

NewMember(members, name, type) ==
  [name |-> name, type |-> type, is_extern |-> FALSE,
   offset |-> MemberOffset(members, type)]

Ranked == \E rank : RankedBy(structs, rank)

LEMMA ObjectsTyped ==
  TypedInv => TypedObjects(structs)
BY TypedFacts DEF TypedObjects

LEMMA SizeofIs ==
  ASSUME TypedInv, Ranked, NEW type \in Types(DOMAIN structs)
  PROVE  sizeof_type(type) \in Int
<1>1. PICK rank : RankedBy(structs, rank)
  BY DEF Ranked
<1>2. StructSize \in [DOMAIN structs -> Int]
  BY <1>1, ObjectsTyped, SizesExist, StructSizeIs
<1>3. CASE type.ty = "STRUCT"
  <2>1. type.id \in DOMAIN structs
    BY <1>3, StructTypeIs
  <2>2. StructSize[type.id] \in Int
    BY <1>2, <2>1
  <2> QED
    BY <1>3, <2>2 DEF sizeof_type
<1>4. CASE type.ty # "STRUCT"
  <2>1. type.ty \in {"CHAR", "VOID", "INT", "ENUM", "PTR"}
    <3>1. CASE type \in [ty : {"PTR"}, base : NamedTypes(DOMAIN structs)]
      BY <3>1
    <3>2. CASE type \in NamedTypes(DOMAIN structs)
      BY <1>4, <3>2, TypeTableAssumption DEF NamedTypes
    <3> QED
      BY <3>1, <3>2, TypesAre, Zenon
  <2> QED
    BY <2>1 DEF sizeof_type
<1> QED
  BY <1>3, <1>4

(* A member goes behind the end of the last one.                           *)
LEMMA MemberOffsetIs ==
  ASSUME TypedInv, Ranked, NEW members \in Seq(Members(DOMAIN structs)),
         NEW type
  PROVE  /\ MemberOffset(members, type) \in Int
         /\ members # <<>> =>
              Last(members).offset + sizeof_type(Last(members).type)
                <= MemberOffset(members, type)
<1> DEFINE end  == IF members = <<>> THEN 0
                   ELSE Last(members).offset + sizeof_type(Last(members).type)
           unit == IF sizeof_type(type) = 8 THEN 8 ELSE 4
<1>1. end \in Int
  <2>1. CASE members # <<>>
    <3>1. Len(members) \in 1 .. Len(members)
      BY <2>1, LenProperties, EmptySeq
    <3>2. Last(members) \in Members(DOMAIN structs)
      BY <3>1, ElementOfSeq DEF Last
    <3>3. Last(members).offset \in Int /\ Last(members).type \in Types(DOMAIN structs)
      BY <3>2 DEF Members
    <3>4. sizeof_type(Last(members).type) \in Int
      BY <3>3, SizeofIs
    <3> QED
      BY <2>1, <3>3, <3>4
  <2>2. CASE members = <<>>
    BY <2>2
  <2> QED
    BY <2>1, <2>2
<1>2. MemberOffset(members, type) = ((end + unit - 1) \div unit) * unit
  BY DEF MemberOffset, roundup
<1>3. unit \in {4, 8}
  OBVIOUS
<1> HIDE DEF end, unit
<1>4. ((end + unit - 1) \div unit) * unit \in Int /\ end <= ((end + unit - 1) \div unit) * unit
  <2>1. CASE unit = 4
    BY <1>1, <2>1
  <2>2. CASE unit = 8
    BY <1>1, <2>2
  <2> QED
    BY <1>3, <2>1, <2>2
<1>5. MemberOffset(members, type) \in Int /\ end <= MemberOffset(members, type)
  BY <1>2, <1>4, Zenon
<1> QED
  BY <1>5 DEF end

LEMMA MemberIs ==
  ASSUME TypedInv, Member, ~ Error
  PROVE  \E name \in Names :
           LET members == Last(stack).members
               call    == [Last(stack) EXCEPT !.members =
                             Append(members, NewMember(members, name, ret))]
           IN  /\ ret \in Types(DOMAIN structs)
               /\ ~ add_var_refuses(members, name, ret)
               /\ stack' = [stack EXCEPT ![Len(stack)] = call]
               /\ ret' = None /\ UNCHANGED <<Tables, failed>>
<1> DEFINE members == Last(stack).members
<1>1. PICK name \in Names :
        /\ ~ add_var_refuses(members, name, ret)
        /\ stack' = [stack EXCEPT ![Len(stack)].members =
              Append(@, [name |-> name, type |-> ret, is_extern |-> FALSE,
                         offset |-> MemberOffset(members, ret)])]
        /\ ret' = None
        /\ UNCHANGED <<Tables, failed>>
  BY DEF Member
<1>2. Len(stack) # 1 /\ Last(stack) = stack[Len(stack)]
  BY ReadingStruct DEF Member
<1>3. ret \in Types(DOMAIN structs)
  BY <1>2, TypedFacts DEF Member
<1>4. stack' = [stack EXCEPT ![Len(stack)] =
                  [Last(stack) EXCEPT !.members =
                     Append(members, NewMember(members, name, ret))]]
  BY <1>1, <1>2 DEF NewMember
<1> QED
  BY <1>1, <1>3, <1>4

LEMMA MemberTyped ==
  ASSUME TypedInv, Ranked, Member
  PROVE  TypedInv'
<1>1. CASE Error
  BY <1>1, ErrorTyped
<1>2. CASE ~ Error
  <2> DEFINE members == Last(stack).members
  <2>1. PICK name \in Names :
          LET call == [Last(stack) EXCEPT !.members =
                         Append(members, NewMember(members, name, ret))]
          IN  /\ ret \in Types(DOMAIN structs)
              /\ stack' = [stack EXCEPT ![Len(stack)] = call]
              /\ ret' = None /\ UNCHANGED <<Tables, failed>>
    BY <1>2, MemberIs
  <2> DEFINE new  == NewMember(members, name, ret)
             call == [Last(stack) EXCEPT !.members = Append(members, new)]
  <2>2. /\ stack # <<>> /\ Last(stack) = stack[Len(stack)]
        /\ Last(stack) \in [at : {"struct"}, name : Tags \cup {None},
                            members : Seq(Members(DOMAIN structs))]
    BY ReadingStruct DEF Member
  <2>3. members \in Seq(Members(DOMAIN structs))
    BY <2>2
  <2>4. new \in Members(DOMAIN structs)
    <3>1. MemberOffset(members, ret) \in Int
      BY <2>3, MemberOffsetIs
    <3> QED
      BY <2>1, <3>1 DEF NewMember, Members
  <2> HIDE DEF new
  <2>5. Append(members, new) \in Seq(Members(DOMAIN structs))
    BY <2>3, <2>4, AppendProperties
  <2>6. call \in [at : {"struct"}, name : Tags \cup {None},
                  members : Seq(Members(DOMAIN structs))]
    BY <2>2, <2>5
  <2>7. call \in Calls(DOMAIN structs)
    BY <2>6, Zenon DEF Calls
  <2>8. call.at = stack[Len(stack)].at
    BY <2>2, <2>6
  <2> HIDE DEF call
  <2>9. stack' = [stack EXCEPT ![Len(stack)] = call]
    BY <2>1 DEF call, new
  <2>10. stack \in Seq(Calls(DOMAIN structs)) /\ Placed(stack)
    BY TypedFacts
  <2>11. stack' \in Seq(Calls(DOMAIN structs)) /\ Placed(stack')
    BY <2>2, <2>7, <2>8, <2>9, <2>10, ReplacePlaced
  <2>12. /\ structs' = structs /\ defined_types' = defined_types
         /\ constants' = constants /\ globals' = globals
         /\ failed' = failed /\ ret' = None
    BY <2>1 DEF Tables
  <2>13. ret' \in Returned(DOMAIN structs)
    BY <2>12 DEF Returned
  <2> QED
    BY <2>11, <2>12, <2>13, TypedFacts, TypedStep
<1> QED
  BY <1>1, <1>2

LEMMA StructCloseTyped ==
  ASSUME TypedInv, StructClose
  PROVE  TypedInv'
<1> DEFINE name    == Last(stack).name
           members == Last(stack).members
<1>1. /\ stack # <<>> /\ Len(stack) # 1
      /\ Last(stack) \in [at : {"struct"}, name : Tags \cup {None},
                          members : Seq(Members(DOMAIN structs))]
  BY ReadingStruct DEF StructClose
<1>2. name \in Tags \cup {None} /\ members \in Seq(Members(DOMAIN structs))
  BY <1>1
<1>3. Leave => stack' \in Seq(Calls(DOMAIN structs)) /\ Placed(stack')
  BY <1>1, TypedFacts, LeavePlaced DEF Leave
<1>4. CASE /\ name = None /\ NewStruct(None, members) /\ Leave
           /\ UNCHANGED <<defined_types, constants, globals, failed>>
  <2>1. structs' = Append(structs, [name |-> None, members |-> members])
    BY <1>4 DEF NewStruct
  <2> HIDE DEF name, members
  <2>2. /\ \A id \in DOMAIN structs : structs'[id] = structs[id]
        /\ DOMAIN structs \subseteq DOMAIN structs'
    BY <1>2, <2>1, ObjectAppended
  <2>3. NamesRight(defined_types, structs')
    BY <2>2, NamesStayRight
  <2>4. defined_types \in Seq(Entries(DOMAIN structs'))
    BY <2>2, TypedFacts, TypesGrow
  <2> QED
    BY <1>2, <1>3, <1>4, <2>3, <2>4, NewObjectTyped
<1>5. CASE /\ name # None /\ NewStruct(name, members) /\ Leave
           /\ defined_types' = Append(defined_types,
                [ty |-> "STRUCT", name |-> name, id |-> Len(structs) + 1])
           /\ UNCHANGED <<constants, globals, failed>>
  <2>1. structs' = Append(structs, [name |-> name, members |-> members])
    BY <1>5 DEF NewStruct
  <2> HIDE DEF name, members
  <2>2. name \in Tags
    BY <1>2, <1>5
  <2>3. /\ defined_types' \in Seq(Entries(DOMAIN structs'))
        /\ NamesRight(defined_types', structs')
    BY <1>2, <1>5, <2>1, <2>2, EntryAppended
  <2> QED
    BY <1>2, <1>3, <1>5, <2>3, NewObjectTyped
<1>6. CASE \E t \in Found("STRUCT", name) :
             /\ structs' = [structs EXCEPT ![t.id].members = members]
             /\ Return(struct(t.id)) /\ Leave
             /\ UNCHANGED <<defined_types, constants, globals, failed>>
  <2>1. PICK t \in Found("STRUCT", name) :
          /\ structs' = [structs EXCEPT ![t.id].members = members]
          /\ Return(struct(t.id)) /\ Leave
          /\ UNCHANGED <<defined_types, constants, globals, failed>>
    BY <1>6
  <2> HIDE DEF name, members
  <2>2. t \in [ty : {"STRUCT"}, name : Tags, id : DOMAIN structs]
    BY FoundIs
  <2>3. t.id \in DOMAIN structs
    BY <2>2
  <2>4. /\ DOMAIN structs' = DOMAIN structs
        /\ structs' \in Seq(StructObjects(DOMAIN structs'))
        /\ structs'[t.id].name = structs[t.id].name
        /\ \A i \in DOMAIN structs \ {t.id} : structs'[i] = structs[i]
    BY <1>2, <2>1, <2>3, ObjectFilled
  <2>5. NamesRight(defined_types, structs')
    <3>1. \A id \in DOMAIN structs : structs'[id].name = structs[id].name
      BY <2>4
    <3> QED
      BY <3>1, NamesStayRight
  <2>6. ret' \in Types(DOMAIN structs)
    <3>1. struct(t.id) \in [ty : {"STRUCT"}, id : DOMAIN structs]
      BY <2>3 DEF struct
    <3> QED
      BY <2>1, <3>1, TypesAre, Zenon DEF NamedTypes, Return
  <2>7. ret' \in Returned(DOMAIN structs)
    BY <2>6 DEF Returned
  <2>8. /\ defined_types' = defined_types /\ constants' = constants
        /\ globals' = globals /\ failed' = failed
    BY <2>1
  <2>9. stack' \in Seq(Calls(DOMAIN structs)) /\ Placed(stack')
    BY <1>3, <2>1
  <2> QED
    BY <2>4, <2>5, <2>6, <2>7, <2>8, <2>9, TypedFacts, TypedStep
<1>7. CASE Error
  BY <1>7, ErrorTyped
<1> QED
  BY <1>4, <1>5, <1>6, <1>7 DEF StructClose

-----------------------------------------------------------------------------
(* Enums, typedefs and the declarations around them                        *)

(* The table after an entry that is not a struct.                          *)
LEMMA OtherEntryAppended ==
  ASSUME TypedInv, NEW entry \in Entries(DOMAIN structs), entry.ty # "STRUCT"
  PROVE  /\ Append(defined_types, entry) \in Seq(Entries(DOMAIN structs))
         /\ NamesRight(Append(defined_types, entry), structs)
<1> DEFINE n    == Len(defined_types)
           list == Append(defined_types, entry)
<1>1. defined_types \in Seq(Entries(DOMAIN structs)) /\ NamesRight(defined_types, structs)
  BY TypedFacts
<1>2. list \in Seq(Entries(DOMAIN structs))
  BY <1>1, AppendProperties
<1>3. /\ Len(list) = n + 1 /\ list[n + 1] = entry
      /\ \A i \in 1 .. n : list[i] = defined_types[i]
  BY <1>1, AppendIs
<1>4. DOMAIN list = 1 .. n + 1 /\ DOMAIN defined_types = 1 .. n /\ n \in Nat
  BY <1>1, <1>2, <1>3, LenProperties
<1> HIDE DEF n, list
<1>5. \A i \in DOMAIN list : i \in 1 .. n \/ i = n + 1
  BY <1>4
<1> QED
  BY <1>1, <1>2, <1>3, <1>4, <1>5 DEF NamesRight, list

(* The innermost call when it is the body of an enum.                      *)
LEMMA ReadingEnum ==
  ASSUME TypedInv, Parsing("enum")
  PROVE  /\ stack # <<>> /\ Last(stack) = stack[Len(stack)]
         /\ Last(stack) \in [at : {"enum"}, name : EnumTags \cup {None}, i : Nat]
         /\ ret \in {None} \cup Types(DOMAIN structs)
<1>1. stack # <<>> /\ Last(stack).at = "enum" /\ Last(stack) = stack[Len(stack)]
  BY DEF Parsing, Last
<1>2. stack \in Seq(Calls(DOMAIN structs)) /\ Placed(stack)
  BY TypedFacts
<1>3. Len(stack) \in DOMAIN stack
  BY <1>1, <1>2, LenProperties, EmptySeq
<1>4. Last(stack) \in Calls(DOMAIN structs)
  BY <1>1, <1>2, <1>3, ElementOfSeq
<1>5. Last(stack) \in [at : {"enum"}, name : EnumTags \cup {None}, i : Nat]
  BY <1>1, <1>4, CallIs
<1>6. Len(stack) # 1
  BY <1>1, <1>2, <1>3 DEF Placed
<1> QED
  BY <1>1, <1>5, <1>6, TypedFacts

LEMMA EnumTypeIs ==
  ASSUME NEW name \in EnumTags \cup {None}
  PROVE  enum(name) \in Types(DOMAIN structs)
<1>1. enum(name) \in [ty : {"ENUM"}, name : EnumTags \cup {None}]
  BY DEF enum
<1> QED
  BY <1>1, TypesAre, Zenon DEF NamedTypes

LEMMA EnumTyped ==
  ASSUME TypedInv, Enum
  PROVE  TypedInv'
<1>1. PICK name \in EnumTags \cup {None}, body \in BOOLEAN :
        /\ defined_types' =
             IF name = None \/ Found("ENUM", name) # {} THEN defined_types
             ELSE Append(defined_types, [ty |-> "ENUM", name |-> name])
        /\ IF body
           THEN /\ Push([at |-> "enum", name |-> name, i |-> 0])
                /\ UNCHANGED ret
           ELSE Return(enum(name)) /\ UNCHANGED stack
  BY DEF Enum
<1>2. UNCHANGED <<structs, constants, globals, failed>> /\ ret = None /\ stack # <<>>
  BY DEF Enum, AtType
<1>3. defined_types' \in Seq(Entries(DOMAIN structs)) /\ NamesRight(defined_types', structs)
  <2>1. CASE name = None \/ Found("ENUM", name) # {}
    BY <1>1, <2>1, TypedFacts
  <2>2. CASE name # None /\ Found("ENUM", name) = {}
    <3> DEFINE entry == [ty |-> "ENUM", name |-> name]
    <3>1. entry \in [ty : {"ENUM"}, name : EnumTags]
      BY <2>2
    <3>2. entry \in Entries(DOMAIN structs) /\ entry.ty # "STRUCT"
      BY <3>1, Zenon DEF Entries
    <3>3. defined_types' = Append(defined_types, entry)
      BY <1>1, <2>2
    <3> HIDE DEF entry
    <3> QED
      BY <3>2, <3>3, OtherEntryAppended
  <2> QED
    BY <2>1, <2>2
<1>4. CASE Push([at |-> "enum", name |-> name, i |-> 0]) /\ UNCHANGED ret
  <2> DEFINE call == [at |-> "enum", name |-> name, i |-> 0]
  <2>1. call \in [at : {"enum"}, name : EnumTags \cup {None}, i : Nat]
    OBVIOUS
  <2>2. call \in Calls(DOMAIN structs)
    BY <2>1, Zenon DEF Calls
  <2>3. call.at = "enum"
    OBVIOUS
  <2> HIDE DEF call
  <2> QED
    BY <1>2, <1>3, <1>4, <2>2, <2>3, PushTyped DEF call
<1>5. CASE Return(enum(name)) /\ UNCHANGED stack
  <2>1. ret' \in Types(DOMAIN structs)
    BY <1>5, EnumTypeIs DEF Return
  <2>2. ret' \in Returned(DOMAIN structs)
    BY <2>1 DEF Returned
  <2> QED
    BY <1>2, <1>3, <1>5, <2>1, <2>2, TypedFacts, TypedStep
<1> QED
  BY <1>1, <1>4, <1>5

LEMMA EnumeratorTyped ==
  ASSUME TypedInv, Enumerator
  PROVE  TypedInv'
<1> DEFINE last == Last(stack)
           call == [last EXCEPT !.i = @ + 1]
<1>1. /\ stack # <<>> /\ last = stack[Len(stack)]
      /\ last \in [at : {"enum"}, name : EnumTags \cup {None}, i : Nat]
      /\ ret \in {None} \cup Types(DOMAIN structs)
  BY ReadingEnum DEF Enumerator
<1>2. PICK name \in Names :
        \/ Error
        \/ /\ constants' = Append(constants,
                [name |-> name, val |-> last.i, is_extern |-> FALSE])
           /\ stack' = [stack EXCEPT ![Len(stack)].i = @ + 1]
           /\ UNCHANGED <<structs, defined_types, globals, ret, failed>>
  BY DEF Enumerator
<1>3. CASE Error
  BY <1>3, ErrorTyped
<1>4. CASE /\ constants' = Append(constants,
                [name |-> name, val |-> last.i, is_extern |-> FALSE])
           /\ stack' = [stack EXCEPT ![Len(stack)].i = @ + 1]
           /\ UNCHANGED <<structs, defined_types, globals, ret, failed>>
  <2> DEFINE constant == [name |-> name, val |-> last.i, is_extern |-> FALSE]
  <2>1. constant \in Enumerators
    BY <1>1 DEF Enumerators
  <2>2. constants' \in Seq(Enumerators)
    <3> HIDE DEF constant
    <3> QED
      BY <1>4, <2>1, TypedFacts, AppendProperties DEF constant
  <2>3. stack' = [stack EXCEPT ![Len(stack)] = call]
    BY <1>1, <1>4
  <2>4. call \in [at : {"enum"}, name : EnumTags \cup {None}, i : Nat] /\ call.at = last.at
    <3> HIDE DEF last
    <3> QED
      BY <1>1
  <2>5. call \in Calls(DOMAIN structs)
    BY <2>4, Zenon DEF Calls
  <2> HIDE DEF call
  <2>6. stack' \in Seq(Calls(DOMAIN structs)) /\ Placed(stack')
    BY <1>1, <2>3, <2>4, <2>5, TypedFacts, ReplacePlaced
  <2> QED
    BY <1>1, <1>4, <2>2, <2>6, TypedFacts, TypedStep
<1> QED
  BY <1>2, <1>3, <1>4

LEMMA EnumCloseTyped ==
  ASSUME TypedInv, EnumClose
  PROVE  TypedInv'
<1>1. CASE Error
  BY <1>1, ErrorTyped
<1>2. CASE Return(enum(Last(stack).name)) /\ Leave /\ UNCHANGED <<Tables, failed>>
  <2>1. stack # <<>> /\ Last(stack).name \in EnumTags \cup {None}
    BY ReadingEnum DEF EnumClose
  <2>2. ret' \in Types(DOMAIN structs)
    BY <1>2, <2>1, EnumTypeIs DEF Return
  <2>3. ret' \in Returned(DOMAIN structs)
    BY <2>2 DEF Returned
  <2> QED
    BY <1>2, <2>1, <2>2, <2>3, TypedFacts, LeaveTyped DEF Tables
<1> QED
  BY <1>1, <1>2 DEF EnumClose

LEMMA DeclBeginTyped ==
  ASSUME TypedInv, DeclBegin
  PROVE  TypedInv'
<1>1. PICK is_extern \in BOOLEAN : Push([at |-> "decl", is_extern |-> is_extern])
  BY DEF DeclBegin
<1> DEFINE call == [at |-> "decl", is_extern |-> is_extern]
<1>2. call \in [at : {"decl"}, is_extern : BOOLEAN] /\ call.at = "decl"
  OBVIOUS
<1>3. call \in Calls(DOMAIN structs)
  BY <1>2, Zenon DEF Calls
<1>4. stack = <<>> /\ Len(stack) # 1
  <2>1. stack = <<>>
    BY DEF DeclBegin
  <2>2. Len(<<>>) = 0
    BY EmptySeq
  <2> QED
    BY <2>1, <2>2
<1> HIDE DEF call
<1> QED
  BY <1>1, <1>2, <1>3, <1>4, TypedFacts, PushTyped DEF call, DeclBegin, Tables

LEMMA TypedefBeginTyped ==
  ASSUME TypedInv, TypedefBegin
  PROVE  TypedInv'
<1> DEFINE call == [at |-> "typedef"]
<1>1. call \in [at : {"typedef"}] /\ call.at = "typedef"
  OBVIOUS
<1>2. call \in Calls(DOMAIN structs)
  BY <1>1, Zenon DEF Calls
<1>3. Push(call) /\ ret' = None /\ stack # <<>> /\ Len(stack) = 1
  BY DEF TypedefBegin, AtType
<1> HIDE DEF call
<1> QED
  BY <1>1, <1>2, <1>3, TypedFacts, PushTyped DEF TypedefBegin, Tables

LEMMA TypedefBaseTyped ==
  ASSUME TypedInv, TypedefBase
  PROVE  TypedInv'
<1>1. stack # <<>> /\ Last(stack).at = "typedef" /\ Last(stack) = stack[Len(stack)]
  BY DEF TypedefBase, Parsing, Last
<1>2. stack \in Seq(Calls(DOMAIN structs)) /\ Placed(stack)
  BY TypedFacts
<1>3. Len(stack) \in DOMAIN stack
  BY <1>1, <1>2, LenProperties, EmptySeq
<1>4. Len(stack) = 2
  BY <1>1, <1>2, <1>3 DEF Placed
<1>5. ret \in Types(DOMAIN structs)
  BY <1>4, TypedFacts DEF TypedefBase
<1>6. ret' \in AliasTypes(DOMAIN structs)
  BY <1>5 DEF TypedefBase, Return, AliasTypes
<1>7. ret' \in Returned(DOMAIN structs)
  BY <1>6 DEF Returned
<1> QED
  BY <1>1, <1>4, <1>7, TypedFacts, LeaveTyped DEF TypedefBase, Tables

LEMMA DeclOfTypeTyped ==
  ASSUME TypedInv, DeclOfType
  PROVE  TypedInv'
<1>1. CASE Error
  BY <1>1, ErrorTyped
<1>2. CASE Leave /\ ret' = None /\ UNCHANGED <<Tables, failed>>
  <2>1. ret' \in Returned(DOMAIN structs)
    BY <1>2 DEF Returned
  <2>2. stack # <<>>
    BY DEF DeclOfType, Parsing
  <2> QED
    BY <1>2, <2>1, <2>2, TypedFacts, LeaveTyped DEF Tables
<1> QED
  BY <1>1, <1>2 DEF DeclOfType

LEMMA DeclOfAliasTyped ==
  ASSUME TypedInv, DeclOfAlias
  PROVE  TypedInv'
<1>1. PICK name \in Aliases :
        defined_types' =
          IF Found("TYPEDEF", name) # {} THEN defined_types
          ELSE Append(defined_types, [ty |-> "TYPEDEF", name |-> name, base |-> ret.base])
  BY DEF DeclOfAlias
<1>2. ret.base \in Types(DOMAIN structs)
  BY TypedFacts, TypeIs DEF DeclOfAlias
<1>3. defined_types' \in Seq(Entries(DOMAIN structs)) /\ NamesRight(defined_types', structs)
  <2>1. CASE Found("TYPEDEF", name) # {}
    BY <1>1, <2>1, TypedFacts
  <2>2. CASE Found("TYPEDEF", name) = {}
    <3> DEFINE entry == [ty |-> "TYPEDEF", name |-> name, base |-> ret.base]
    <3>1. entry \in [ty : {"TYPEDEF"}, name : Aliases, base : Types(DOMAIN structs)]
      BY <1>2
    <3>2. entry \in Entries(DOMAIN structs) /\ entry.ty # "STRUCT"
      BY <3>1, Zenon DEF Entries
    <3>3. defined_types' = Append(defined_types, entry)
      BY <1>1, <2>2
    <3> HIDE DEF entry
    <3> QED
      BY <3>2, <3>3, OtherEntryAppended
  <2> QED
    BY <2>1, <2>2
<1>4. Leave /\ ret' = None /\ stack # <<>> /\ UNCHANGED <<structs, constants, globals, failed>>
  BY DEF DeclOfAlias, Parsing
<1>5. ret' \in Returned(DOMAIN structs)
  BY <1>4 DEF Returned
<1> QED
  BY <1>3, <1>4, <1>5, TypedFacts, LeaveTyped

LEMMA DeclOfGlobalTyped ==
  ASSUME TypedInv, DeclOfGlobal
  PROVE  TypedInv'
<1>1. PICK name \in Names :
        \/ Error
        \/ /\ globals' = Append(globals, [name |-> name, type |-> ret,
                                          is_extern |-> Last(stack).is_extern])
           /\ Leave /\ ret' = None
           /\ UNCHANGED <<structs, defined_types, constants, failed>>
  BY DEF DeclOfGlobal
<1>2. CASE Error
  BY <1>2, ErrorTyped
<1>3. CASE /\ globals' = Append(globals, [name |-> name, type |-> ret,
                                          is_extern |-> Last(stack).is_extern])
           /\ Leave /\ ret' = None
           /\ UNCHANGED <<structs, defined_types, constants, failed>>
  <2> DEFINE global == [name |-> name, type |-> ret, is_extern |-> Last(stack).is_extern]
  <2>1. ret \in Types(DOMAIN structs)
    BY TypedFacts, TypeIs DEF DeclOfGlobal
  <2>2. stack # <<>> /\ Last(stack).at = "decl" /\ Last(stack) = stack[Len(stack)]
    BY DEF DeclOfGlobal, Parsing, Last
  <2>3. stack \in Seq(Calls(DOMAIN structs))
    BY TypedFacts
  <2>4. Last(stack) \in Calls(DOMAIN structs)
    <3>1. Len(stack) \in 1 .. Len(stack)
      BY <2>2, <2>3, LenProperties, EmptySeq
    <3> QED
      BY <2>2, <2>3, <3>1, ElementOfSeq
  <2>5. Last(stack).is_extern \in BOOLEAN
    <3>1. Last(stack) \in [at : {"decl"}, is_extern : BOOLEAN]
      BY <2>2, <2>4, CallIs
    <3> QED
      BY <3>1
  <2>6. global \in Globals(DOMAIN structs)
    BY <2>1, <2>5 DEF Globals
  <2>7. globals' \in Seq(Globals(DOMAIN structs))
    <3>1. globals' = Append(globals, global)
      BY <1>3
    <3> HIDE DEF global
    <3> QED
      BY <2>6, <3>1, TypedFacts, AppendProperties
  <2>8. ret' \in Returned(DOMAIN structs)
    BY <1>3 DEF Returned
  <2> QED
    BY <1>3, <2>2, <2>7, <2>8, TypedFacts, LeaveTyped
<1> QED
  BY <1>1, <1>2, <1>3

LEMMA TypedInit ==
  Init => TypedInv
<1> SUFFICES ASSUME Init
             PROVE  TypedInv
  OBVIOUS
<1>1. \A S : <<>> \in Seq(S)
  BY EmptySeq
<1>2. DOMAIN <<>> = {} /\ Range(<<>>) = {}
  BY EmptySeq DEF Range
<1> QED
  BY <1>1, <1>2, Zenon DEF Init, TypedInv, TypeOK, Placed

LEMMA TypedNext ==
  ASSUME TypedInv, Ranked, [Next]_vars
  PROVE  TypedInv'
<1>1. CASE UNCHANGED vars
  <2>1. /\ structs' = structs /\ defined_types' = defined_types
        /\ constants' = constants /\ globals' = globals /\ stack' = stack
        /\ ret' = ret /\ failed' = failed
    BY <1>1 DEF vars
  <2> QED
    BY <2>1, TypedFacts, TypedStep
<1> QED
  BY <1>1, DeclBeginTyped, DeclOfTypeTyped, DeclOfAliasTyped, DeclOfGlobalTyped,
     ScalarTyped, PointerTyped, AliasUsedTyped, StructMentionedTyped, StructOpenTyped,
     MemberTyped, StructCloseTyped, EnumTyped, EnumeratorTyped, EnumCloseTyped,
     TypedefBeginTyped, TypedefBaseTyped DEF Next

-----------------------------------------------------------------------------
(* What a step does to the tables                                          *)

OpenLists == {stack[i].members : i \in {j \in DOMAIN stack : stack[j].at = "struct"}}

(* There is a new object, with or without an entry.                        *)
Created(name, members) ==
  /\ structs' = Append(structs, [name |-> name, members |-> members])
  /\ IF name = None THEN defined_types' = defined_types
     ELSE /\ Found("STRUCT", name) = {}
          /\ defined_types' = Append(defined_types,
               [ty |-> "STRUCT", name |-> name, id |-> Len(structs) + 1])

(* The object of an entry is completed.                                    *)
Filled(t, members) ==
  /\ t \in Found("STRUCT", t.name) /\ structs[t.id].members = None
  /\ structs' = [structs EXCEPT ![t.id].members = members]
  /\ defined_types' = defined_types

(* There is an entry of an enum or of a typedef that was not known.        *)
Entered(entry) ==
  /\ entry.ty # "STRUCT"
  /\ entry.ty = "TYPEDEF" => Found("TYPEDEF", entry.name) = {}
  /\ structs' = structs
  /\ defined_types' = Append(defined_types, entry)

TablesKept == structs' = structs /\ defined_types' = defined_types

LEMMA LastIsOpen ==
  ASSUME TypedInv, Parsing("struct")
  PROVE  Last(stack).members \in OpenLists
<1>1. /\ Len(stack) \in DOMAIN stack /\ Last(stack) = stack[Len(stack)]
      /\ Last(stack) \in [at : {"struct"}, name : Tags \cup {None},
                          members : Seq(Members(DOMAIN structs))]
  BY ReadingStruct
<1>2. Last(stack).at = "struct"
  BY <1>1
<1> QED
  BY <1>1, <1>2, Zenon DEF OpenLists

LEMMA OpenListsAre ==
  ASSUME TypedInv, NEW ms \in OpenLists
  PROVE  ms \in Seq(Members(DOMAIN structs)) /\ ms # None
<1>1. PICK i \in DOMAIN stack : stack[i].at = "struct" /\ ms = stack[i].members
  BY DEF OpenLists
<1>2. stack[i] \in Calls(DOMAIN structs)
  BY <1>1, TypedFacts, ElementOfSeq
<1>3. stack[i] \in [at : {"struct"}, name : Tags \cup {None},
                    members : Seq(Members(DOMAIN structs))]
  BY <1>1, <1>2, CallIs
<1>4. ms \in Seq(Members(DOMAIN structs))
  BY <1>1, <1>3
<1>5. ms \in Seq(Members(Nat))
  <2>1. DOMAIN structs \subseteq Nat
    BY ObjectsTyped, TypedObjectsAre
  <2> QED
    BY <1>4, <2>1, TypesGrow
<1> QED
  BY <1>4, <1>5, NoneAssumption

LEMMA TablesStep ==
  ASSUME TypedInv, [Next]_vars
  PROVE  \/ TablesKept
         \/ \E entry \in Entries(DOMAIN structs) : Entered(entry)
         \/ \E name \in Tags \cup {None}, members \in {None} \cup OpenLists :
              Created(name, members)
         \/ \E t \in Range(defined_types), members \in OpenLists : Filled(t, members)
<1>1. CASE \/ Error \/ DeclBegin \/ DeclOfType \/ DeclOfGlobal \/ Scalar \/ Pointer
           \/ AliasUsed \/ StructOpen \/ Member \/ Enumerator \/ EnumClose
           \/ TypedefBegin \/ TypedefBase \/ UNCHANGED vars
  BY <1>1 DEF TablesKept, Tables, Error, DeclBegin, DeclOfType, DeclOfGlobal, Scalar,
     Pointer, AliasUsed, StructOpen, Member, Enumerator, EnumClose, TypedefBegin,
     TypedefBase, vars
<1>2. CASE DeclOfAlias
  <2>1. PICK name \in Aliases :
          defined_types' =
            IF Found("TYPEDEF", name) # {} THEN defined_types
            ELSE Append(defined_types, [ty |-> "TYPEDEF", name |-> name, base |-> ret.base])
    BY <1>2 DEF DeclOfAlias
  <2>2. structs' = structs
    BY <1>2 DEF DeclOfAlias
  <2> DEFINE entry == [ty |-> "TYPEDEF", name |-> name, base |-> ret.base]
  <2>3. CASE Found("TYPEDEF", name) # {}
    BY <2>1, <2>2, <2>3 DEF TablesKept
  <2>4. CASE Found("TYPEDEF", name) = {}
    <3>1. ret.base \in Types(DOMAIN structs)
      BY <1>2, TypedFacts, TypeIs DEF DeclOfAlias
    <3>2. entry \in [ty : {"TYPEDEF"}, name : Aliases, base : Types(DOMAIN structs)]
      BY <3>1
    <3>3. entry \in Entries(DOMAIN structs)
      BY <3>2, Zenon DEF Entries
    <3>4. entry.ty = "TYPEDEF" /\ entry.name = name
      OBVIOUS
    <3>5. defined_types' = Append(defined_types, entry)
      BY <2>1, <2>4
    <3> HIDE DEF entry
    <3>6. Entered(entry)
      BY <2>2, <2>4, <3>4, <3>5 DEF Entered
    <3> QED
      BY <3>3, <3>6
  <2> QED
    BY <2>3, <2>4
<1>3. CASE Enum
  <2>1. PICK name \in EnumTags \cup {None} :
          defined_types' =
            IF name = None \/ Found("ENUM", name) # {} THEN defined_types
            ELSE Append(defined_types, [ty |-> "ENUM", name |-> name])
    BY <1>3 DEF Enum
  <2>2. structs' = structs
    BY <1>3 DEF Enum
  <2> DEFINE entry == [ty |-> "ENUM", name |-> name]
  <2>3. CASE name = None \/ Found("ENUM", name) # {}
    BY <2>1, <2>2, <2>3 DEF TablesKept
  <2>4. CASE name # None /\ Found("ENUM", name) = {}
    <3>1. entry \in [ty : {"ENUM"}, name : EnumTags]
      BY <2>4
    <3>2. entry \in Entries(DOMAIN structs)
      BY <3>1, Zenon DEF Entries
    <3>3. entry.ty = "ENUM"
      OBVIOUS
    <3>4. defined_types' = Append(defined_types, entry)
      BY <2>1, <2>4
    <3> HIDE DEF entry
    <3>5. Entered(entry)
      BY <2>2, <3>3, <3>4 DEF Entered
    <3> QED
      BY <3>2, <3>5
  <2> QED
    BY <2>3, <2>4
<1>4. CASE StructMentioned
  <2>1. PICK name \in Tags :
          \/ UNCHANGED <<structs, defined_types>>
          \/ /\ Found("STRUCT", name) = {} /\ NewStruct(name, None)
             /\ defined_types' = Append(defined_types,
                  [ty |-> "STRUCT", name |-> name, id |-> Len(structs) + 1])
    BY <1>4 DEF StructMentioned
  <2>2. CASE UNCHANGED <<structs, defined_types>>
    BY <2>2 DEF TablesKept
  <2>3. CASE /\ Found("STRUCT", name) = {} /\ NewStruct(name, None)
             /\ defined_types' = Append(defined_types,
                  [ty |-> "STRUCT", name |-> name, id |-> Len(structs) + 1])
    <3>1. name # None
      BY NoneAssumption
    <3>2. Created(name, None)
      BY <2>3, <3>1 DEF Created, NewStruct
    <3> QED
      BY <3>2
  <2> QED
    BY <2>1, <2>2, <2>3
<1>5. CASE StructClose
  <2> DEFINE name    == Last(stack).name
             members == Last(stack).members
  <2>1. members \in OpenLists /\ name \in Tags \cup {None}
    BY <1>5, LastIsOpen, ReadingStruct DEF StructClose
  <2>2. CASE name = None /\ NewStruct(None, members) /\ UNCHANGED defined_types
    <3>1. Created(None, members)
      BY <2>2 DEF Created, NewStruct
    <3> QED
      BY <2>1, <3>1
  <2>3. CASE /\ name # None /\ Found("STRUCT", name) = {} /\ NewStruct(name, members)
             /\ defined_types' = Append(defined_types,
                  [ty |-> "STRUCT", name |-> name, id |-> Len(structs) + 1])
    <3>1. Created(name, members)
      BY <2>3 DEF Created, NewStruct
    <3> HIDE DEF name, members
    <3> QED
      BY <2>1, <3>1
  <2>4. CASE \E t \in Found("STRUCT", name) :
               /\ ~ AlreadyDefined(t)
               /\ structs' = [structs EXCEPT ![t.id].members = members]
               /\ UNCHANGED defined_types
    <3>1. PICK t \in Found("STRUCT", name) :
               /\ ~ AlreadyDefined(t)
               /\ structs' = [structs EXCEPT ![t.id].members = members]
               /\ UNCHANGED defined_types
      BY <2>4
    <3>2. t.name = name /\ t \in Range(defined_types)
      BY DEF Found
    <3>3. Filled(t, members)
      BY <3>1, <3>2 DEF Filled, AlreadyDefined
    <3> HIDE DEF members
    <3> QED
      BY <2>1, <3>2, <3>3
  <2>5. CASE Error
    BY <1>1, <2>5
  <2> QED
    BY <1>5, <2>2, <2>3, <2>4, <2>5 DEF StructClose
<1> QED
  BY <1>1, <1>2, <1>3, <1>4, <1>5 DEF Next

LEMMA RangeOfAppend ==
  ASSUME NEW S, NEW s \in Seq(S), NEW e
  PROVE  Range(Append(s, e)) = Range(s) \cup {e}
<1> DEFINE n == Len(s)
           t == Append(s, e)
<1>1. n \in Nat /\ DOMAIN s = 1 .. n
  BY LenProperties
<1>2. /\ Len(t) = n + 1 /\ t[n + 1] = e
      /\ \A i \in 1 .. n : t[i] = s[i]
  BY AppendIs
<1>3. DOMAIN t = 1 .. n + 1
  <2>1. s \in Seq(S \cup {e}) /\ e \in S \cup {e}
    <3>1. S \subseteq S \cup {e}
      OBVIOUS
    <3> QED
      BY <3>1, SeqMonotonic
  <2>2. t \in Seq(S \cup {e})
    BY <2>1, AppendProperties
  <2> QED
    BY <1>2, <2>2, LenProperties
<1> HIDE DEF n, t
<1>4. 1 .. n + 1 = (1 .. n) \cup {n + 1}
  BY <1>1
<1> QED
  BY <1>1, <1>2, <1>3, <1>4 DEF Range, t

(* What is found of a name and kind once there is another entry.           *)
LEMMA FoundAfter ==
  ASSUME TypedInv, NEW entry, defined_types' = Append(defined_types, entry),
         NEW ty, NEW name
  PROVE  Found(ty, name)' = Found(ty, name)
                              \cup {t \in {entry} : t.ty = ty /\ t.name = name}
<1>1. Range(defined_types') = Range(defined_types) \cup {entry}
  <2>1. defined_types \in Seq(Entries(DOMAIN structs))
    BY TypedFacts
  <2> QED
    BY <2>1, RangeOfAppend
<1> QED
  BY <1>1 DEF Found

LEMMA CreatedIs ==
  ASSUME TypedInv, NEW name \in Tags \cup {None}, NEW members \in {None} \cup OpenLists,
         Created(name, members)
  PROVE  /\ DOMAIN structs' = 1 .. Len(structs) + 1
         /\ DOMAIN structs = 1 .. Len(structs) /\ Len(structs) \in Nat
         /\ TypedObjects(structs')
         /\ structs'[Len(structs) + 1].name = name
         /\ structs'[Len(structs) + 1].members = members
         /\ \A id \in DOMAIN structs : structs'[id] = structs[id]
<1>1. members \in {None} \cup Seq(Members(DOMAIN structs))
  BY OpenListsAre
<1>2. structs' = Append(structs, [name |-> name, members |-> members])
  BY DEF Created
<1>3. /\ DOMAIN structs' = 1 .. Len(structs) + 1
      /\ structs' \in Seq(StructObjects(DOMAIN structs'))
      /\ structs'[Len(structs) + 1] = [name |-> name, members |-> members]
      /\ \A id \in DOMAIN structs : structs'[id] = structs[id]
  BY <1>1, <1>2, ObjectAppended
<1>4. /\ [name |-> name, members |-> members].name = name
      /\ [name |-> name, members |-> members].members = members
  OBVIOUS
<1> QED
  BY <1>3, <1>4, TypedFacts, Zenon DEF TypedObjects

LEMMA FilledIs ==
  ASSUME TypedInv, NEW t, NEW members \in OpenLists, Filled(t, members)
  PROVE  /\ t.id \in DOMAIN structs /\ structs[t.id].members = None
         /\ t.name \in Tags /\ structs[t.id].name = t.name
         /\ DOMAIN structs' = DOMAIN structs
         /\ TypedObjects(structs')
         /\ structs'[t.id].name = structs[t.id].name
         /\ structs'[t.id].members = members
         /\ \A id \in DOMAIN structs \ {t.id} : structs'[id] = structs[id]
<1>1. /\ t \in Found("STRUCT", t.name) /\ structs[t.id].members = None
      /\ structs' = [structs EXCEPT ![t.id].members = members]
  BY DEF Filled
<1>2. t \in [ty : {"STRUCT"}, name : Tags, id : DOMAIN structs]
  BY <1>1, FoundIs
<1>3. t.id \in DOMAIN structs /\ t.name \in Tags /\ t.ty = "STRUCT"
  BY <1>2
<1>4. members \in Seq(Members(DOMAIN structs))
  BY OpenListsAre
<1>5. structs[t.id].name = t.name
  BY <1>1, <1>3 DEF TypedInv, TypeOK, Found
<1> QED
  BY <1>1, <1>3, <1>4, <1>5, ObjectFilled DEF TypedObjects

(* Objects stay, the complete ones as they are.                            *)
LEMMA ObjectsStay ==
  ASSUME TypedInv, [Next]_vars
  PROVE  /\ TypedObjects(structs')
         /\ DOMAIN structs \subseteq DOMAIN structs'
         /\ \A id \in DOMAIN structs :
              /\ structs'[id].name = structs[id].name
              /\ structs[id].members # None => structs'[id] = structs[id]
<1>1. CASE structs' = structs
  BY <1>1, ObjectsTyped
<1>2. CASE \E name \in Tags \cup {None}, members \in {None} \cup OpenLists :
             Created(name, members)
  <2>1. PICK name \in Tags \cup {None}, members \in {None} \cup OpenLists :
          Created(name, members)
    BY <1>2
  <2>2. /\ DOMAIN structs' = 1 .. Len(structs) + 1
        /\ DOMAIN structs = 1 .. Len(structs) /\ Len(structs) \in Nat
        /\ TypedObjects(structs')
        /\ \A id \in DOMAIN structs : structs'[id] = structs[id]
    BY <2>1, CreatedIs
  <2>3. DOMAIN structs \subseteq DOMAIN structs'
    BY <2>2
  <2> QED
    BY <2>2, <2>3
<1>3. CASE \E t \in Range(defined_types), members \in OpenLists : Filled(t, members)
  <2>1. PICK t \in Range(defined_types), members \in OpenLists : Filled(t, members)
    BY <1>3
  <2> QED
    BY <2>1, FilledIs
<1> QED
  BY <1>1, <1>2, <1>3, TablesStep DEF TablesKept, Entered

-----------------------------------------------------------------------------
(* One object per tag                                                      *)

(* A struct that has a name is found under it.                             *)
Registered ==
  \A id \in DOMAIN structs : structs[id].name # None =>
    \E t \in Found("STRUCT", structs[id].name) : t.id = id

LEMMA TagsKept ==
  ASSUME TypedInv, OneObjectPerTag, Registered, [Next]_vars
  PROVE  OneObjectPerTag' /\ Registered'
<1>1. CASE TablesKept
  BY <1>1 DEF TablesKept, OneObjectPerTag, Registered, Found
<1>2. CASE \E entry \in Entries(DOMAIN structs) : Entered(entry)
  <2>1. PICK entry \in Entries(DOMAIN structs) : Entered(entry)
    BY <1>2
  <2>2. structs' = structs /\ \A name : Found("STRUCT", name) \subseteq Found("STRUCT", name)'
    BY <2>1, FoundAfter DEF Entered
  <2> QED
    BY <2>2 DEF OneObjectPerTag, Registered
<1>3. CASE \E name \in Tags \cup {None}, members \in {None} \cup OpenLists :
             Created(name, members)
  <2>1. PICK name \in Tags \cup {None}, members \in {None} \cup OpenLists :
          Created(name, members)
    BY <1>3
  <2> DEFINE n     == Len(structs)
             entry == [ty |-> "STRUCT", name |-> name, id |-> n + 1]
  <2>2. /\ DOMAIN structs' = 1 .. n + 1 /\ DOMAIN structs = 1 .. n /\ n \in Nat
        /\ structs'[n + 1].name = name
        /\ \A id \in DOMAIN structs : structs'[id] = structs[id]
    BY <2>1, CreatedIs
  <2>3. \A id \in DOMAIN structs' : id \in DOMAIN structs \/ id = n + 1
    <3> HIDE DEF n
    <3> QED
      BY <2>2
  <2>4. CASE name = None
    <3>1. \A tag : Found("STRUCT", tag)' = Found("STRUCT", tag)
      BY <2>1, <2>4 DEF Created, Found
    <3> HIDE DEF n
    <3>2. Registered'
      BY <2>2, <2>3, <2>4, <3>1 DEF Registered
    <3>3. OneObjectPerTag'
      BY <2>2, <2>3, <2>4 DEF OneObjectPerTag
    <3> QED
      BY <3>2, <3>3
  <2>5. CASE name # None
    <3>1. Found("STRUCT", name) = {} /\ defined_types' = Append(defined_types, entry)
      BY <2>1, <2>5 DEF Created
    <3>2. entry.ty = "STRUCT" /\ entry.name = name /\ entry.id = n + 1
      OBVIOUS
    <3> HIDE DEF n, entry
    <3>3. \A tag : Found("STRUCT", tag) \subseteq Found("STRUCT", tag)'
      BY <3>1, FoundAfter
    <3>4. entry \in Found("STRUCT", name)'
      BY <3>1, <3>2, FoundAfter
    <3>5. Registered'
      BY <2>2, <2>3, <3>2, <3>3, <3>4 DEF Registered
    <3>6. \A id \in DOMAIN structs : structs[id].name # name
      BY <2>5, <3>1 DEF Registered
    <3>7. OneObjectPerTag'
      BY <2>2, <2>3, <3>6 DEF OneObjectPerTag
    <3> QED
      BY <3>5, <3>7
  <2> QED
    BY <2>4, <2>5
<1>4. CASE \E t \in Range(defined_types), members \in OpenLists : Filled(t, members)
  <2>1. PICK t \in Range(defined_types), members \in OpenLists : Filled(t, members)
    BY <1>4
  <2>2. DOMAIN structs' = DOMAIN structs
        /\ \A id \in DOMAIN structs : structs'[id].name = structs[id].name
    BY <2>1, FilledIs
  <2>3. \A tag : Found("STRUCT", tag)' = Found("STRUCT", tag)
    BY <2>1 DEF Filled, Found
  <2> QED
    BY <2>2, <2>3 DEF OneObjectPerTag, Registered
<1> QED
  BY <1>1, <1>2, <1>3, <1>4, TablesStep

-----------------------------------------------------------------------------
(* One definition of a global                                              *)

LEMMA GlobalsStep ==
  ASSUME [Next]_vars
  PROVE  \/ globals' = globals
         \/ \E global : /\ ~ Redefines(globals, global.name)
                        /\ globals' = Append(globals, global)
<1>1. CASE DeclOfGlobal
  <2>1. CASE Error
    BY <2>1 DEF Error, Tables
  <2>2. CASE \E name \in Names :
               /\ ~ add_var_refuses(globals, name, ret)
               /\ globals' = Append(globals, [name |-> name, type |-> ret,
                                              is_extern |-> Last(stack).is_extern])
    <3>1. PICK name \in Names :
               /\ ~ add_var_refuses(globals, name, ret)
               /\ globals' = Append(globals, [name |-> name, type |-> ret,
                                              is_extern |-> Last(stack).is_extern])
      BY <2>2
    <3> DEFINE global == [name |-> name, type |-> ret, is_extern |-> Last(stack).is_extern]
    <3>2. global.name = name /\ globals' = Append(globals, global)
      BY <3>1
    <3>3. ~ Redefines(globals, name)
      BY <3>1 DEF add_var_refuses
    <3> HIDE DEF global
    <3> QED
      BY <3>2, <3>3
  <2> QED
    BY <1>1, <2>1, <2>2 DEF DeclOfGlobal
<1>2. CASE ~ DeclOfGlobal
  BY <1>2 DEF Next, vars, Tables, Error, DeclBegin, DeclOfType, DeclOfAlias, Scalar,
     Pointer, AliasUsed, StructMentioned, StructOpen, Member, StructClose, Enum,
     Enumerator, EnumClose, TypedefBegin, TypedefBase
<1> QED
  BY <1>1, <1>2

LEMMA DefinitionsKept ==
  ASSUME TypedInv, OneDefinition, [Next]_vars
  PROVE  OneDefinition'
<1>1. CASE globals' = globals
  BY <1>1 DEF OneDefinition
<1>2. CASE \E global : /\ ~ Redefines(globals, global.name)
                       /\ globals' = Append(globals, global)
  <2>1. PICK global : /\ ~ Redefines(globals, global.name)
                      /\ globals' = Append(globals, global)
    BY <1>2
  <2> DEFINE n == Len(globals)
  <2>2. globals \in Seq(Globals(DOMAIN structs))
    BY TypedFacts
  <2>3. /\ Len(globals') = n + 1 /\ globals'[n + 1] = global
        /\ \A i \in 1 .. n : globals'[i] = globals[i]
    BY <2>1, <2>2, AppendIs
  <2>4. n \in Nat /\ DOMAIN globals = 1 .. n
    BY <2>2, LenProperties
  <2>5. \A i \in DOMAIN globals : globals[i].name = global.name => globals[i].is_extern
    BY <2>1 DEF Redefines, Range
  <2>6. DOMAIN globals' = 1 .. n + 1
    <3>1. globals \in Seq(Globals(DOMAIN structs) \cup {global})
      <4>1. Globals(DOMAIN structs) \subseteq Globals(DOMAIN structs) \cup {global}
        OBVIOUS
      <4> QED
        BY <2>2, <4>1, SeqMonotonic
    <3>2. globals' \in Seq(Globals(DOMAIN structs) \cup {global})
      BY <2>1, <3>1, AppendProperties
    <3> QED
      BY <2>3, <3>2, LenProperties
  <2> HIDE DEF n
  <2>7. \A i \in DOMAIN globals' : i \in DOMAIN globals \/ i = n + 1
    BY <2>4, <2>6
  <2>8. \A i \in DOMAIN globals : globals'[i] = globals[i] /\ i # n + 1
    BY <2>3, <2>4
  <2>9. ASSUME NEW i \in DOMAIN globals', NEW j \in DOMAIN globals',
               globals'[i].name = globals'[j].name,
               ~ globals'[i].is_extern, ~ globals'[j].is_extern
        PROVE  i = j
    <3>1. CASE i \in DOMAIN globals /\ j \in DOMAIN globals
      BY <2>8, <2>9, <3>1, Zenon DEF OneDefinition
    <3>2. CASE i \in DOMAIN globals /\ j = n + 1
      BY <2>3, <2>5, <2>8, <2>9, <3>2, Zenon
    <3>3. CASE i = n + 1 /\ j \in DOMAIN globals
      BY <2>3, <2>5, <2>8, <2>9, <3>3, Zenon
    <3> QED
      BY <2>7, <3>1, <3>2, <3>3
  <2> QED
    BY <2>9, Zenon DEF OneDefinition
<1> QED
  BY <1>1, <1>2, GlobalsStep

-----------------------------------------------------------------------------
(* The lists of members                                                    *)

(* A list that is read with one more member, which add_var took.           *)
Extended(list) ==
  \E old \in OpenLists, name \in Names, type \in Types(DOMAIN structs) :
    ~ add_var_refuses(old, name, type) /\ list = Append(old, NewMember(old, name, type))

LEMMA PushLists ==
  ASSUME TypedInv, NEW call, Push(call), call.at = "struct" => call.members = <<>>
  PROVE  OpenLists' \subseteq OpenLists \cup {<<>>}
<1> DEFINE n == Len(stack)
<1>1. stack \in Seq(Calls(DOMAIN structs))
  BY TypedFacts
<1>2. /\ Len(stack') = n + 1 /\ stack'[n + 1] = call
      /\ \A i \in 1 .. n : stack'[i] = stack[i]
  BY <1>1, AppendIs DEF Push
<1>3. DOMAIN stack' = 1 .. n + 1 /\ n \in Nat /\ DOMAIN stack = 1 .. n
  <2>1. stack \in Seq(Calls(DOMAIN structs) \cup {call})
    <3>1. Calls(DOMAIN structs) \subseteq Calls(DOMAIN structs) \cup {call}
      OBVIOUS
    <3> QED
      BY <1>1, <3>1, SeqMonotonic
  <2>2. stack' \in Seq(Calls(DOMAIN structs) \cup {call})
    BY <2>1, AppendProperties DEF Push
  <2> QED
    BY <1>1, <1>2, <2>2, LenProperties
<1> HIDE DEF n
<1>4. \A i \in DOMAIN stack' : (i \in DOMAIN stack /\ stack'[i] = stack[i]) \/ stack'[i] = call
  BY <1>2, <1>3
<1> QED
  BY <1>4 DEF OpenLists

LEMMA LeaveLists ==
  ASSUME TypedInv, Leave, stack # <<>>
  PROVE  OpenLists' \subseteq OpenLists
<1>1. stack \in Seq(Calls(DOMAIN structs)) /\ Placed(stack)
  BY TypedFacts
<1>2. \A i \in DOMAIN stack' : i \in DOMAIN stack /\ stack'[i] = stack[i]
  BY <1>1, LeavePlaced DEF Leave
<1> QED
  BY <1>2 DEF OpenLists

LEMMA ReplaceLists ==
  ASSUME TypedInv, NEW call, stack' = [stack EXCEPT ![Len(stack)] = call]
  PROVE  OpenLists' \subseteq OpenLists
           \cup (IF call.at = "struct" THEN {call.members} ELSE {})
<1>1. DOMAIN stack' = DOMAIN stack
      /\ \A i \in DOMAIN stack : stack'[i] = stack[i] \/ stack'[i] = call
  BY TypedFacts
<1> QED
  BY <1>1 DEF OpenLists

LEMMA OpenListsStep ==
  ASSUME TypedInv, [Next]_vars
  PROVE  \/ OpenLists' \subseteq OpenLists \cup {<<>>}
         \/ /\ structs' = structs
            /\ \E new : Extended(new) /\ OpenLists' \subseteq OpenLists \cup {new}
<1>1. CASE stack' = stack
  BY <1>1 DEF OpenLists
<1>2. CASE Error
  <2>1. stack' = <<>> /\ DOMAIN <<>> = {}
    BY <1>2, EmptySeq DEF Error
  <2> QED
    BY <2>1 DEF OpenLists
<1>3. CASE StructOpen
  <2>1. PICK name : Push([at |-> "struct", name |-> name, members |-> <<>>])
    BY <1>3 DEF StructOpen
  <2> QED
    BY <2>1, PushLists
<1>4. CASE Enum
  <2>1. PICK name : Push([at |-> "enum", name |-> name, i |-> 0]) \/ stack' = stack
    BY <1>4 DEF Enum
  <2>2. CASE Push([at |-> "enum", name |-> name, i |-> 0])
    BY <2>2, PushLists
  <2> QED
    BY <1>1, <2>1, <2>2
<1>5. CASE DeclBegin
  <2>1. PICK is_extern : Push([at |-> "decl", is_extern |-> is_extern])
    BY <1>5 DEF DeclBegin
  <2> QED
    BY <2>1, PushLists
<1>6. CASE TypedefBegin
  <2>1. Push([at |-> "typedef"])
    BY <1>6 DEF TypedefBegin
  <2> QED
    BY <2>1, PushLists
<1>7. CASE Leave /\ stack # <<>>
  BY <1>7, LeaveLists
<1>8. CASE Enumerator /\ ~ Error
  <2> DEFINE call == [Last(stack) EXCEPT !.i = @ + 1]
  <2>1. /\ stack # <<>> /\ Last(stack) = stack[Len(stack)]
        /\ Last(stack) \in [at : {"enum"}, name : EnumTags \cup {None}, i : Nat]
    BY <1>8, ReadingEnum DEF Enumerator
  <2>2. stack' = [stack EXCEPT ![Len(stack)].i = @ + 1]
    BY <1>8 DEF Enumerator
  <2>3. stack' = [stack EXCEPT ![Len(stack)] = call]
    BY <2>1, <2>2
  <2>4. call.at = "enum"
    BY <2>1
  <2> HIDE DEF call
  <2> QED
    BY <2>3, <2>4, ReplaceLists
<1>9. CASE Member /\ ~ Error
  <2> DEFINE members == Last(stack).members
  <2>1. PICK name \in Names :
          LET call == [Last(stack) EXCEPT !.members =
                         Append(members, NewMember(members, name, ret))]
          IN  /\ ret \in Types(DOMAIN structs)
              /\ ~ add_var_refuses(members, name, ret)
              /\ stack' = [stack EXCEPT ![Len(stack)] = call]
              /\ UNCHANGED Tables
    BY <1>9, MemberIs
  <2> DEFINE new  == Append(members, NewMember(members, name, ret))
             call == [Last(stack) EXCEPT !.members = new]
  <2>2. members \in OpenLists
    BY <1>9, LastIsOpen DEF Member
  <2>3. Last(stack) \in [at : {"struct"}, name : Tags \cup {None},
                         members : Seq(Members(DOMAIN structs))]
    BY <1>9, ReadingStruct DEF Member
  <2>4. call.members = new
    <3> HIDE DEF new
    <3> QED
      BY <2>3
  <2>5. Extended(new)
    <3> HIDE DEF members
    <3> QED
      BY <2>1, <2>2 DEF Extended
  <2>6. structs' = structs /\ stack' = [stack EXCEPT ![Len(stack)] = call]
    BY <2>1 DEF Tables
  <2> HIDE DEF call, new
  <2>7. OpenLists' \subseteq OpenLists \cup {new}
    BY <2>4, <2>6, ReplaceLists
  <2> QED
    BY <2>5, <2>6, <2>7
<1>10. CASE \/ Scalar \/ Pointer \/ AliasUsed \/ StructMentioned \/ UNCHANGED vars
  <2>1. stack' = stack
    BY <1>10 DEF Scalar, Pointer, AliasUsed, StructMentioned, vars
  <2> QED
    BY <1>1, <2>1
<1>11. CASE \/ DeclOfType \/ DeclOfAlias \/ DeclOfGlobal \/ StructClose \/ EnumClose
            \/ TypedefBase
  <2>1. stack # <<>>
    BY <1>11 DEF DeclOfType, DeclOfAlias, DeclOfGlobal, StructClose, EnumClose, TypedefBase,
       Parsing
  <2>2. Leave \/ Error
    BY <1>11 DEF DeclOfType, DeclOfAlias, DeclOfGlobal, StructClose, EnumClose, TypedefBase
  <2> QED
    BY <1>2, <1>7, <2>1, <2>2
<1> QED
  BY <1>2, <1>3, <1>4, <1>5, <1>6, <1>8, <1>9, <1>10, <1>11 DEF Next

LEMMA MemberListsAre ==
  MemberLists = {structs[id].members : id \in DOMAIN structs} \cup OpenLists
BY DEF MemberLists, OpenLists

LEMMA MemberListsTyped ==
  ASSUME TypedInv, NEW ms \in MemberLists \ {None}
  PROVE  ms \in Seq(Members(DOMAIN structs))
<1>1. CASE ms \in OpenLists
  BY <1>1, OpenListsAre
<1>2. CASE \E id \in DOMAIN structs : ms = structs[id].members
  BY <1>2, ObjectsTyped, TypedObjectsAre
<1> QED
  BY <1>1, <1>2, MemberListsAre

LEMMA MemberListsStep ==
  ASSUME TypedInv, [Next]_vars
  PROVE  \/ MemberLists' \subseteq MemberLists \cup {None, <<>>}
         \/ /\ structs' = structs
            /\ \E new : Extended(new) /\ MemberLists' \subseteq MemberLists \cup {new}
<1> DEFINE Stored == {structs[id].members : id \in DOMAIN structs}
<1>1. MemberLists = Stored \cup OpenLists /\ MemberLists' = Stored' \cup OpenLists'
  BY DEF MemberLists, OpenLists
<1>2. Stored' \subseteq Stored \cup OpenLists \cup {None}
  <2>1. CASE structs' = structs
    BY <2>1
  <2>2. CASE \E name \in Tags \cup {None}, members \in {None} \cup OpenLists :
               Created(name, members)
    <3>1. PICK name \in Tags \cup {None}, members \in {None} \cup OpenLists :
            Created(name, members)
      BY <2>2
    <3>2. /\ DOMAIN structs' = 1 .. Len(structs) + 1
          /\ DOMAIN structs = 1 .. Len(structs) /\ Len(structs) \in Nat
          /\ structs'[Len(structs) + 1].members = members
          /\ \A id \in DOMAIN structs : structs'[id] = structs[id]
      BY <3>1, CreatedIs
    <3>3. \A id \in DOMAIN structs' : id \in DOMAIN structs \/ id = Len(structs) + 1
      BY <3>2
    <3> QED
      BY <3>2, <3>3
  <2>3. CASE \E t \in Range(defined_types), members \in OpenLists : Filled(t, members)
    <3>1. PICK t \in Range(defined_types), members \in OpenLists : Filled(t, members)
      BY <2>3
    <3>2. /\ DOMAIN structs' = DOMAIN structs
          /\ structs'[t.id].members = members
          /\ \A id \in DOMAIN structs \ {t.id} : structs'[id] = structs[id]
      BY <3>1, FilledIs
    <3> QED
      BY <3>2
  <2> QED
    BY <2>1, <2>2, <2>3, TablesStep DEF TablesKept, Entered
<1>3. CASE OpenLists' \subseteq OpenLists \cup {<<>>}
  BY <1>1, <1>2, <1>3
<1>4. CASE /\ structs' = structs
           /\ \E new : Extended(new) /\ OpenLists' \subseteq OpenLists \cup {new}
  <2>1. Stored' = Stored
    BY <1>4
  <2> HIDE DEF Stored
  <2> QED
    BY <1>1, <1>4, <2>1
<1> QED
  BY <1>3, <1>4, OpenListsStep

(* The members of a list that was extended.                                *)
LEMMA ExtendedIs ==
  ASSUME TypedInv, NEW new, Extended(new)
  PROVE  \E old \in MemberLists \ {None}, name \in Names, type \in Types(DOMAIN structs) :
           /\ old \in Seq(Members(DOMAIN structs))
           /\ ~ EmptyStruct(type)
           /\ Len(new) = Len(old) + 1 /\ DOMAIN new = 1 .. Len(old) + 1
           /\ new[Len(old) + 1] = NewMember(old, name, type)
           /\ \A k \in 1 .. Len(old) : new[k] = old[k]
<1>1. PICK old \in OpenLists, name \in Names, type \in Types(DOMAIN structs) :
        ~ add_var_refuses(old, name, type) /\ new = Append(old, NewMember(old, name, type))
  BY DEF Extended
<1>2. old \in Seq(Members(DOMAIN structs)) /\ old \in MemberLists \ {None}
  BY OpenListsAre, MemberListsAre
<1>3. ~ EmptyStruct(type)
  BY <1>1 DEF add_var_refuses
<1> DEFINE member == NewMember(old, name, type)
<1> HIDE DEF member
<1>4. /\ Len(new) = Len(old) + 1 /\ new[Len(old) + 1] = member
      /\ \A k \in 1 .. Len(old) : new[k] = old[k]
  BY <1>1, <1>2, AppendIs DEF member
<1>5. DOMAIN new = 1 .. Len(old) + 1
  <2>1. old \in Seq(Members(DOMAIN structs) \cup {member})
    <3>1. Members(DOMAIN structs) \subseteq Members(DOMAIN structs) \cup {member}
      OBVIOUS
    <3> QED
      BY <1>2, <3>1, SeqMonotonic
  <2>2. new \in Seq(Members(DOMAIN structs) \cup {member})
    BY <1>1, <2>1, AppendProperties DEF member
  <2> QED
    BY <1>4, <2>2, LenProperties
<1> QED
  BY <1>2, <1>3, <1>4, <1>5 DEF member

-----------------------------------------------------------------------------
(* What a struct holds is complete, and is not itself                      *)

LEMMA HeldIs ==
  ASSUME NEW ids, NEW ms \in Seq(Members(ids)), NEW k \in DOMAIN ms
  PROVE  /\ ms[k] \in Range(ms) /\ ms[k].offset \in Int
         /\ ms[k].type \in Types(ids)
         /\ ms[k].type.ty = "STRUCT" =>
              ms[k].type.id \in ids /\ ms[k].type = struct(ms[k].type.id)
<1>1. ms[k] \in Members(ids) /\ ms[k] \in Range(ms)
  BY ElementOfSeq DEF Range
<1>2. ms[k].type \in Types(ids) /\ ms[k].offset \in Int
  BY <1>1 DEF Members
<1> QED
  BY <1>1, <1>2, StructTypeIs

LEMMA HoldsCompleteKept ==
  ASSUME TypedInv, HoldsComplete, [Next]_vars
  PROVE  HoldsComplete'
<1>1. \A id \in DOMAIN structs : structs[id].members # None => structs'[id].members # None
  BY ObjectsStay
<1>2. ASSUME NEW ms \in MemberLists \ {None}, NEW k \in DOMAIN ms,
             ms[k].type.ty = "STRUCT"
      PROVE  structs'[ms[k].type.id].members # None
  <2>1. ms[k].type.id \in DOMAIN structs /\ ms[k] \in Range(ms)
    BY <1>2, MemberListsTyped, HeldIs
  <2>2. structs[ms[k].type.id].members # None
    BY <1>2, <2>1 DEF HoldsComplete
  <2> QED
    BY <1>1, <2>1, <2>2
<1>3. ASSUME NEW new, Extended(new), structs' = structs, NEW k \in DOMAIN new,
             new[k].type.ty = "STRUCT"
      PROVE  structs'[new[k].type.id].members # None
  <2>1. PICK old \in MemberLists \ {None}, name \in Names, type \in Types(DOMAIN structs) :
           /\ old \in Seq(Members(DOMAIN structs))
           /\ ~ EmptyStruct(type)
           /\ DOMAIN new = 1 .. Len(old) + 1
           /\ new[Len(old) + 1] = NewMember(old, name, type)
           /\ \A i \in 1 .. Len(old) : new[i] = old[i]
    BY <1>3, ExtendedIs
  <2>2. DOMAIN old = 1 .. Len(old) /\ Len(old) \in Nat
    BY <2>1, LenProperties
  <2>3. CASE k \in DOMAIN old
    BY <1>2, <1>3, <2>1, <2>2, <2>3
  <2>4. CASE k = Len(old) + 1
    <3>1. NewMember(old, name, type).type = type
      BY DEF NewMember
    <3>2. new[k].type = type
      BY <2>1, <2>4, <3>1
    <3> QED
      BY <1>3, <2>1, <3>2 DEF EmptyStruct
  <2> QED
    BY <2>1, <2>2, <2>3, <2>4
<1>4. ASSUME NEW ms \in MemberLists' \ {None}, NEW k \in DOMAIN ms,
             ms[k].type.ty = "STRUCT"
      PROVE  structs'[ms[k].type.id].members # None
  <2>1. CASE ms \in MemberLists
    BY <1>2, <1>4, <2>1
  <2>2. CASE ms = <<>>
    BY <1>4, <2>2, EmptySeq
  <2>3. CASE Extended(ms) /\ structs' = structs
    BY <1>3, <1>4, <2>3
  <2> QED
    BY <1>4, <2>1, <2>2, <2>3, MemberListsStep
<1> QED
  BY <1>4 DEF HoldsComplete, Range

(* A new object ranks above all others, and so does one that is completed: *)
(* no struct holds it yet.                                                 *)
LEMMA RankedKept ==
  ASSUME TypedInv, HoldsComplete, Ranked, [Next]_vars
  PROVE  Ranked'
<1> DEFINE n == Len(structs)
<1>1. DOMAIN structs = 1 .. n /\ n \in Nat
  BY TypedFacts
<1>2. PICK rank : RankedBy(structs, rank)
  BY DEF Ranked
<1>3. /\ rank \in [1 .. n -> 1 .. n]
      /\ \A i, j \in 1 .. n : rank[i] = rank[j] => i = j
      /\ \A i, j \in 1 .. n : HoldsIn(structs, i, j) => rank[j] < rank[i]
  BY <1>1, <1>2 DEF RankedBy
<1>4. ASSUME NEW ms \in MemberLists \ {None}, NEW m \in Range(ms), NEW j, m.type = struct(j)
      PROVE  j \in 1 .. n /\ structs[j].members # None
  <2>1. PICK k \in DOMAIN ms : m = ms[k]
    BY DEF Range
  <2>2. m.type.ty = "STRUCT" /\ m.type.id = j
    BY <1>4 DEF struct
  <2>3. j \in DOMAIN structs
    BY <2>1, <2>2, MemberListsTyped, HeldIs
  <2> QED
    BY <1>1, <2>2, <2>3 DEF HoldsComplete
<1>5. \A id \in DOMAIN structs : structs[id].members \in MemberLists
  BY MemberListsAre
<1>6. ASSUME NEW i \in 1 .. n, NEW j, HoldsIn(structs, i, j)
      PROVE  j \in 1 .. n /\ structs[j].members # None
  <2>1. PICK m \in Range(structs[i].members) : m.type = struct(j)
    BY <1>6 DEF HoldsIn
  <2>2. structs[i].members \in MemberLists \ {None}
    BY <1>1, <1>5, <1>6 DEF HoldsIn
  <2> QED
    BY <1>4, <2>1, <2>2
<1> HIDE DEF n
<1>7. CASE structs' = structs
  BY <1>2, <1>7 DEF Ranked
<1>8. CASE \E name \in Tags \cup {None}, members \in {None} \cup OpenLists :
             Created(name, members)
  <2>1. PICK name \in Tags \cup {None}, members \in {None} \cup OpenLists :
          Created(name, members)
    BY <1>8
  <2>2. /\ DOMAIN structs' = 1 .. n + 1
        /\ structs'[n + 1].members = members
        /\ \A id \in 1 .. n : structs'[id] = structs[id]
    BY <1>1, <2>1, CreatedIs DEF n
  <2> DEFINE new == [i \in 1 .. n + 1 |-> IF i = n + 1 THEN n + 1 ELSE rank[i]]
  <2>3. ASSUME NEW i \in 1 .. n + 1, NEW j \in 1 .. n + 1, HoldsIn(structs', i, j)
        PROVE  j \in 1 .. n /\ (i \in 1 .. n => HoldsIn(structs, i, j))
    <3>1. CASE i = n + 1
      <4>1. members # None /\ \E m \in Range(members) : m.type = struct(j)
        BY <2>2, <2>3, <3>1 DEF HoldsIn
      <4>2. members \in MemberLists \ {None}
        BY <4>1, MemberListsAre
      <4>3. j \in 1 .. n
        BY <1>4, <4>1, <4>2
      <4> QED
        BY <1>1, <3>1, <4>3
    <3>2. CASE i \in 1 .. n
      <4>1. HoldsIn(structs, i, j)
        BY <2>2, <2>3, <3>2 DEF HoldsIn
      <4> QED
        BY <1>6, <3>2, <4>1
    <3> QED
      BY <1>1, <3>1, <3>2
  <2>4. new \in [1 .. n + 1 -> 1 .. n + 1]
    BY <1>1, <1>3
  <2>5. ASSUME NEW i \in 1 .. n + 1, NEW j \in 1 .. n + 1, new[i] = new[j]
        PROVE  i = j
    <3>1. \A k \in 1 .. n + 1 : new[k] = IF k = n + 1 THEN n + 1 ELSE rank[k]
      OBVIOUS
    <3>2. \A k \in 1 .. n : rank[k] # n + 1
      <4>1. \A k \in 1 .. n : rank[k] \in 1 .. n
        BY <1>3
      <4> QED
        BY <1>1, <4>1
    <3>3. \A k \in 1 .. n + 1 : k # n + 1 => k \in 1 .. n
      BY <1>1
    <3> HIDE DEF new
    <3>4. CASE i = n + 1
      BY <2>5, <3>1, <3>2, <3>3, <3>4
    <3>5. CASE i # n + 1
      <4>1. j # n + 1 /\ i \in 1 .. n /\ j \in 1 .. n
        BY <2>5, <3>1, <3>2, <3>3, <3>5
      <4> QED
        BY <1>3, <2>5, <3>1, <3>5, <4>1
    <3> QED
      BY <3>4, <3>5
  <2>6. ASSUME NEW i \in 1 .. n + 1, NEW j \in 1 .. n + 1, HoldsIn(structs', i, j)
        PROVE  new[j] < new[i]
    <3>1. j \in 1 .. n /\ (i \in 1 .. n => HoldsIn(structs, i, j))
      BY <2>3, <2>6
    <3>2. CASE i = n + 1
      BY <1>1, <1>3, <3>1, <3>2
    <3>3. CASE i \in 1 .. n
      <4>1. rank[j] < rank[i]
        BY <1>3, <3>1, <3>3
      <4> QED
        BY <1>1, <3>1, <3>3, <4>1
    <3> QED
      BY <1>1, <3>2, <3>3
  <2> HIDE DEF new
  <2>7. RankedBy(structs', new)
    BY <2>2, <2>4, <2>5, <2>6 DEF RankedBy
  <2> QED
    BY <2>7 DEF Ranked
<1>9. CASE \E t \in Range(defined_types), members \in OpenLists : Filled(t, members)
  <2>1. PICK t \in Range(defined_types), members \in OpenLists : Filled(t, members)
    BY <1>9
  <2> DEFINE id == t.id
  <2>2. /\ id \in 1 .. n /\ structs[id].members = None
        /\ DOMAIN structs' = 1 .. n
        /\ structs'[id].members = members
        /\ \A i \in (1 .. n) \ {id} : structs'[i] = structs[i]
    BY <1>1, <2>1, FilledIs
  <2> HIDE DEF id
  <2> DEFINE new == [i \in 1 .. n |-> IF i = id THEN n
                                      ELSE IF rank[i] > rank[id] THEN rank[i] - 1 ELSE rank[i]]
  <2>3. ASSUME NEW i \in 1 .. n, NEW j \in 1 .. n, HoldsIn(structs', i, j)
        PROVE  j # id /\ (i # id => rank[j] < rank[i])
    <3>1. CASE i = id
      <4>1. members # None /\ \E m \in Range(members) : m.type = struct(j)
        BY <2>2, <2>3, <3>1 DEF HoldsIn
      <4>2. members \in MemberLists \ {None}
        BY <4>1, MemberListsAre
      <4>3. structs[j].members # None
        BY <1>4, <4>1, <4>2
      <4> QED
        BY <2>2, <3>1, <4>3
    <3>2. CASE i # id
      <4>1. HoldsIn(structs, i, j)
        BY <2>2, <2>3, <3>2 DEF HoldsIn
      <4>2. structs[j].members # None
        BY <1>6, <4>1
      <4> QED
        BY <1>3, <2>2, <4>1, <4>2
    <3> QED
      BY <3>1, <3>2
  <2>4. \A i \in 1 .. n : rank[i] \in 1 .. n /\ (i # id => rank[i] # rank[id])
    BY <1>3, <2>2
  <2>5. \A i \in 1 .. n : new[i] = IF i = id THEN n
                                   ELSE IF rank[i] > rank[id] THEN rank[i] - 1 ELSE rank[i]
    OBVIOUS
  <2>6. \A i \in (1 .. n) \ {id} : new[i] \in 1 .. n - 1
    BY <1>1, <2>2, <2>4, <2>5
  <2>7. new \in [1 .. n -> 1 .. n]
    <3>1. \A i \in 1 .. n : new[i] \in 1 .. n
      BY <1>1, <2>2, <2>5, <2>6
    <3> QED
      BY <3>1
  <2> HIDE DEF new
  <2>8. ASSUME NEW i \in 1 .. n, NEW j \in 1 .. n, new[i] = new[j]
        PROVE  i = j
    <3>1. CASE i = id \/ j = id
      BY <1>1, <2>2, <2>5, <2>6, <2>8, <3>1
    <3>2. CASE i # id /\ j # id
      <4>1. rank[i] = rank[j]
        BY <1>1, <2>2, <2>4, <2>5, <2>8, <3>2
      <4> QED
        BY <1>3, <4>1
    <3> QED
      BY <3>1, <3>2
  <2>9. ASSUME NEW i \in 1 .. n, NEW j \in 1 .. n, HoldsIn(structs', i, j)
        PROVE  new[j] < new[i]
    <3>1. j # id /\ (i # id => rank[j] < rank[i])
      BY <2>3, <2>9
    <3>2. CASE i = id
      BY <1>1, <2>5, <2>6, <3>1, <3>2
    <3>3. CASE i # id
      BY <1>1, <2>2, <2>4, <2>5, <3>1, <3>3
    <3> QED
      BY <3>2, <3>3
  <2>10. RankedBy(structs', new)
    BY <2>2, <2>7, <2>8, <2>9 DEF RankedBy
  <2> QED
    BY <2>10 DEF Ranked
<1> QED
  BY <1>7, <1>8, <1>9, TablesStep DEF TablesKept, Entered

-----------------------------------------------------------------------------
(* The layout of a struct                                                  *)

(* sizeof_type when the structs are these.                                 *)
SizeIn(objects, type) ==
  CASE type.ty \in {"CHAR", "VOID"} -> 1
    [] type.ty \in {"INT", "ENUM"}  -> 4
    [] type.ty = "PTR"              -> 8
    [] type.ty = "STRUCT"           -> SizesOf(objects)[type.id]

(* A step leaves the sizes of all that is held as they were.               *)
LEMMA HeldSizesStay ==
  ASSUME TypedInv, HoldsComplete, Ranked, [Next]_vars,
         NEW ms \in MemberLists \ {None}, NEW k \in DOMAIN ms
  PROVE  sizeof_type(ms[k].type)' = sizeof_type(ms[k].type)
<1>1. \A type : /\ sizeof_type(type) = SizeIn(structs, type)
                /\ sizeof_type(type)' = SizeIn(structs', type)
  <2>1. StructSize = SizesOf(structs)
    BY StructSizeIs
  <2>2. StructSize' = SizesOf(structs')
    BY DEF StructSize, SizesOf, Sized, SizeBy, LastSize
  <2> QED
    BY <2>1, <2>2 DEF sizeof_type, SizeIn
<1> DEFINE type == ms[k].type
<1>2. CASE type.ty # "STRUCT"
  <2>1. SizeIn(structs, type) = SizeIn(structs', type)
    <3> HIDE DEF type
    <3> QED
      BY <1>2 DEF SizeIn
  <2> QED
    BY <1>1, <2>1
<1>3. CASE type.ty = "STRUCT"
  <2> DEFINE id == type.id
  <2>1. id \in DOMAIN structs /\ structs[id].members # None
    <3>1. id \in DOMAIN structs /\ ms[k] \in Range(ms)
      BY <1>3, MemberListsTyped, HeldIs
    <3> QED
      BY <1>3, <3>1 DEF HoldsComplete
  <2>2. PICK rank : RankedBy(structs, rank)
    BY DEF Ranked
  <2>3. PICK newRank : RankedBy(structs', newRank)
    BY RankedKept DEF Ranked
  <2>4. /\ TypedObjects(structs) /\ TypedObjects(structs')
        /\ DOMAIN structs \subseteq DOMAIN structs'
        /\ \A i \in DOMAIN structs : structs[i].members # None => structs'[i] = structs[i]
    BY ObjectsTyped, ObjectsStay
  <2>5. \A i, j \in DOMAIN structs : HoldsIn(structs, i, j) => structs[j].members # None
    <3> SUFFICES ASSUME NEW i \in DOMAIN structs, NEW j \in DOMAIN structs,
                        HoldsIn(structs, i, j)
                 PROVE  structs[j].members # None
      OBVIOUS
    <3>1. PICK m \in Range(structs[i].members) : m.type = struct(j)
      BY DEF HoldsIn
    <3>2. structs[i].members \in MemberLists \ {None}
      BY MemberListsAre DEF HoldsIn
    <3>3. m.type.ty = "STRUCT" /\ m.type.id = j
      BY <3>1 DEF struct
    <3> QED
      BY <3>1, <3>2, <3>3 DEF HoldsComplete
  <2> HIDE DEF id
  <2>6. SizesOf(structs')[id] = SizesOf(structs)[id]
    BY <2>1, <2>2, <2>3, <2>4, <2>5, SizesStay
  <2>7. SizeIn(structs, type) = SizesOf(structs)[id] /\ SizeIn(structs', type) = SizesOf(structs')[id]
    <3> HIDE DEF type
    <3> QED
      BY <1>3 DEF SizeIn, id
  <2> QED
    BY <1>1, <2>6, <2>7
<1> QED
  BY <1>2, <1>3

LEMMA MembersDisjointKept ==
  ASSUME TypedInv, HoldsComplete, Ranked, MembersDisjoint, [Next]_vars
  PROVE  MembersDisjoint'
<1>1. ASSUME NEW ms \in MemberLists \ {None}, NEW k \in 1 .. Len(ms) - 1
      PROVE  /\ ms[k].offset + sizeof_type(ms[k].type) <= ms[k + 1].offset
             /\ ms[k].offset + sizeof_type(ms[k].type)' <= ms[k + 1].offset
  <2>1. ms \in Seq(Members(DOMAIN structs))
    BY MemberListsTyped
  <2>2. k \in DOMAIN ms
    <3>1. DOMAIN ms = 1 .. Len(ms) /\ Len(ms) \in Nat
      BY <2>1, LenProperties
    <3> QED
      BY <3>1
  <2>3. sizeof_type(ms[k].type)' = sizeof_type(ms[k].type)
    BY <2>2, HeldSizesStay
  <2> QED
    BY <2>3 DEF MembersDisjoint
<1>2. ASSUME NEW new, Extended(new), structs' = structs, NEW k \in 1 .. Len(new) - 1
      PROVE  new[k].offset + sizeof_type(new[k].type)' <= new[k + 1].offset
  <2>1. PICK old \in MemberLists \ {None}, name \in Names, type \in Types(DOMAIN structs) :
           /\ old \in Seq(Members(DOMAIN structs))
           /\ Len(new) = Len(old) + 1
           /\ new[Len(old) + 1] = NewMember(old, name, type)
           /\ \A i \in 1 .. Len(old) : new[i] = old[i]
    BY <1>2, ExtendedIs
  <2> DEFINE n == Len(old)
  <2>2. n \in Nat /\ DOMAIN old = 1 .. n
    BY <2>1, LenProperties
  <2>3. k \in 1 .. n /\ n \in 1 .. n
    BY <1>2, <2>1, <2>2
  <2>4. CASE k # n
    <3>1. k \in 1 .. n - 1 /\ k + 1 \in 1 .. n
      <4> HIDE DEF n
      <4> QED
        BY <2>2, <2>3, <2>4
    <3>2. new[k] = old[k] /\ new[k + 1] = old[k + 1]
      BY <2>1, <2>3, <3>1, Zenon
    <3>3. old[k].offset + sizeof_type(old[k].type)' <= old[k + 1].offset
      BY <1>1, <3>1
    <3> QED
      BY <3>2, <3>3, Zenon
  <2>5. CASE k = n
    <3>1. old # <<>> /\ Last(old) = old[n]
      BY <2>2, <2>3, EmptySeq DEF Last
    <3>2. old[n].offset + sizeof_type(old[n].type) <= MemberOffset(old, type)
      BY <2>1, <3>1, MemberOffsetIs
    <3>3. new[k] = old[n] /\ new[k + 1] = NewMember(old, name, type)
      BY <2>1, <2>3, <2>5
    <3>4. NewMember(old, name, type).offset = MemberOffset(old, type)
      BY DEF NewMember
    <3>5. sizeof_type(old[n].type)' = sizeof_type(old[n].type)
      BY <2>1, <2>2, <2>3, HeldSizesStay
    <3> QED
      BY <3>2, <3>3, <3>4, <3>5, Zenon
  <2> QED
    BY <2>4, <2>5
<1>3. ASSUME NEW ms \in MemberLists' \ {None}, NEW k \in 1 .. Len(ms) - 1
      PROVE  ms[k].offset + sizeof_type(ms[k].type)' <= ms[k + 1].offset
  <2>1. CASE ms \in MemberLists
    BY <1>1, <1>3, <2>1
  <2>2. CASE ms = <<>>
    <3>1. Len(<<>>) = 0
      BY EmptySeq
    <3>2. k \in 1 .. 0 - 1
      BY <1>3, <2>2, <3>1
    <3> QED
      BY <3>2
  <2>3. CASE Extended(ms) /\ structs' = structs
    BY <1>2, <1>3, <2>3
  <2> QED
    BY <1>3, <2>1, <2>2, <2>3, MemberListsStep
<1> QED
  BY <1>3 DEF MembersDisjoint

-----------------------------------------------------------------------------
(* The theorems                                                            *)

TablesInv ==
  /\ TypedInv
  /\ OneObjectPerTag /\ Registered
  /\ OneDefinition
  /\ HoldsComplete /\ Ranked
  /\ MembersDisjoint

LEMMA TablesInvHolds ==
  Spec => []TablesInv
<1>1. Init => TablesInv
  <2> SUFFICES ASSUME Init
               PROVE  TablesInv
    OBVIOUS
  <2>1. structs = <<>> /\ globals = <<>> /\ stack = <<>> /\ DOMAIN <<>> = {}
    BY EmptySeq DEF Init
  <2>2. MemberLists = {}
    BY <2>1 DEF MemberLists
  <2>3. RankedBy(structs, structs)
    BY <2>1 DEF RankedBy
  <2>4. Ranked
    BY <2>3 DEF Ranked
  <2>5. HoldsComplete /\ MembersDisjoint
    BY <2>2 DEF HoldsComplete, MembersDisjoint
  <2>6. OneObjectPerTag /\ Registered /\ OneDefinition
    BY <2>1 DEF OneObjectPerTag, Registered, OneDefinition
  <2> QED
    BY <2>4, <2>5, <2>6, TypedInit DEF TablesInv
<1>2. TablesInv /\ [Next]_vars => TablesInv'
  <2> SUFFICES ASSUME TablesInv, [Next]_vars
               PROVE  TablesInv'
    OBVIOUS
  <2>1. /\ TypedInv /\ OneObjectPerTag /\ Registered /\ OneDefinition
        /\ HoldsComplete /\ Ranked /\ MembersDisjoint
    BY DEF TablesInv
  <2>2. TypedInv'
    BY <2>1, TypedNext
  <2>3. OneObjectPerTag' /\ Registered'
    BY <2>1, TagsKept
  <2>4. OneDefinition'
    BY <2>1, DefinitionsKept
  <2>5. HoldsComplete'
    BY <2>1, HoldsCompleteKept
  <2>6. Ranked'
    BY <2>1, RankedKept
  <2>7. MembersDisjoint'
    BY <2>1, MembersDisjointKept
  <2> QED
    BY <2>2, <2>3, <2>4, <2>5, <2>6, <2>7 DEF TablesInv
<1> QED
  BY <1>1, <1>2, PTL DEF Spec

(* The tables are well formed: a type names a struct there is, an entry    *)
(* the object of its name.                                                 *)
THEOREM TablesTypeCorrect == Spec => []TypeOK
<1>1. TablesInv => TypeOK
  BY DEF TablesInv, TypedInv
<1> QED
  BY <1>1, TablesInvHolds, PTL

(* However mentions and bodies of a tag are nested and ordered,            *)
(* add_or_find_defined_type makes one object for it.                       *)
THEOREM TagsHaveOneObject == Spec => []OneObjectPerTag
<1>1. TablesInv => OneObjectPerTag
  BY DEF TablesInv
<1> QED
  BY <1>1, TablesInvHolds, PTL

(* add_var accepts a global that is not extern once, after any number of   *)
(* extern declarations of it.                                              *)
THEOREM GlobalsAreDefinedOnce == Spec => []OneDefinition
<1>1. TablesInv => OneDefinition
  BY DEF TablesInv
<1> QED
  BY <1>1, TablesInvHolds, PTL

(* No struct contains itself through any number of structs, which the      *)
(* refusal of empty structs and of second bodies secures: sizeof_type      *)
(* ends.                                                                   *)
THEOREM StructsAreFinite == Spec => []NoSelfContainment
<1>1. TablesInv => NoSelfContainment
  <2> SUFFICES ASSUME TablesInv
               PROVE  NoSelfContainment
    OBVIOUS
  <2>1. PICK rank : RankedBy(structs, rank)
    BY DEF TablesInv, Ranked
  <2>2. \A i, j : Holds(i, j) <=> HoldsIn(structs, i, j)
    BY DEF Holds, HoldsIn
  <2>3. /\ rank \in [DOMAIN structs -> DOMAIN structs]
        /\ \A i, j \in DOMAIN structs : Holds(i, j) => rank[j] < rank[i]
    BY <2>1, <2>2, Zenon DEF RankedBy
  <2> QED
    BY <2>3, Zenon DEF NoSelfContainment, TablesInv
<1> QED
  BY <1>1, TablesInvHolds, PTL

(* Members do not overlap, with the sizes of their types at any later      *)
(* time.                                                                   *)
THEOREM LayoutIsStable == Spec => []MembersDisjoint
<1>1. TablesInv => MembersDisjoint
  BY DEF TablesInv
<1> QED
  BY <1>1, TablesInvHolds, PTL

-----------------------------------------------------------------------------
(* The refinement of TagSpace                                              *)

MeaningOf(found, objects) ==
  IF found = {} THEN None
  ELSE LET members == objects[(CHOOSE t \in found : TRUE).id].members
       IN  IF members = None THEN Incomplete ELSE members

AliasOf(found) ==
  IF found = {} THEN None ELSE (CHOOSE t \in found : TRUE).base

(* What a complete or mentioned tag means when its entries agree.          *)
LEMMA MeaningIs ==
  ASSUME NEW found, NEW objects, NEW t \in found, \A u \in found : u.id = t.id
  PROVE  MeaningOf(found, objects) =
           IF objects[t.id].members = None THEN Incomplete ELSE objects[t.id].members
<1>1. (CHOOSE u \in found : TRUE) \in found
  OBVIOUS
<1>2. found # {} /\ (CHOOSE u \in found : TRUE).id = t.id
  BY <1>1
<1> QED
  BY <1>2, Zenon DEF MeaningOf

LEMMA EntriesAgree ==
  ASSUME TablesInv, NEW name, NEW t \in Found("STRUCT", name)
  PROVE  /\ t.id \in DOMAIN structs /\ name \in Tags /\ structs[t.id].name = name
         /\ \A u \in Found("STRUCT", name) : u.id = t.id
<1>1. TypedInv /\ OneObjectPerTag
  BY DEF TablesInv
<1>2. ASSUME NEW u \in Found("STRUCT", name)
      PROVE  u.id \in DOMAIN structs /\ name \in Tags /\ structs[u.id].name = name
  <2>1. u \in [ty : {"STRUCT"}, name : Tags, id : DOMAIN structs] /\ u.name = name
    BY <1>1, FoundIs
  <2>2. u \in Range(defined_types) /\ u.ty = "STRUCT"
    BY DEF Found
  <2>3. structs[u.id].name = u.name
    BY <1>1, <2>2 DEF TypedInv, TypeOK
  <2> QED
    BY <2>1, <2>3
<1>3. name # None
  BY <1>2, NoneAssumption
<1> QED
  BY <1>1, <1>2, <1>3 DEF OneObjectPerTag

LEMMA ListsAreMeanings ==
  ASSUME TypedInv, NEW ms \in OpenLists
  PROVE  ms # None /\ ms # Incomplete
<1>1. ms \in Seq(Members(DOMAIN structs))
  BY OpenListsAre
<1>2. DOMAIN structs \subseteq Nat
  BY ObjectsTyped, TypedObjectsAre
<1>3. ms \in Seq(Members(Nat))
  BY <1>1, <1>2, TypesGrow
<1> QED
  BY <1>3, NoneAssumption

LEMMA StepSimulates ==
  ASSUME TablesInv, [Next]_vars
  PROVE  [Space!Next]_<<[tag \in Tags |-> TagMeaning(tag)],
                        [name \in Aliases |-> AliasMeaning(name)]>>
<1> DEFINE tags    == [tag \in Tags |-> TagMeaning(tag)]
           aliases == [name \in Aliases |-> AliasMeaning(name)]
           structsOf(tag) == Found("STRUCT", tag)
           aliasesOf(name) == Found("TYPEDEF", name)
<1>1. /\ \A tag : TagMeaning(tag) = MeaningOf(structsOf(tag), structs)
      /\ \A tag : TagMeaning(tag)' = MeaningOf(structsOf(tag)', structs')
  BY DEF TagMeaning, MeaningOf
<1>2. /\ \A name : AliasMeaning(name) = AliasOf(aliasesOf(name))
      /\ \A name : AliasMeaning(name)' = AliasOf(aliasesOf(name)')
  BY DEF AliasMeaning, AliasOf
<1>3. TypedInv
  BY DEF TablesInv
<1>4. /\ \A tag \in Tags : tags[tag] = MeaningOf(structsOf(tag), structs)
      /\ \A tag \in Tags : tags'[tag] = MeaningOf(structsOf(tag)', structs')
  BY <1>1
<1>5. /\ \A name \in Aliases : aliases[name] = AliasOf(aliasesOf(name))
      /\ \A name \in Aliases : aliases'[name] = AliasOf(aliasesOf(name)')
  BY <1>2
<1>6. ASSUME \A tag \in Tags : tags'[tag] = tags[tag]
      PROVE  UNCHANGED tags
  BY <1>6
<1>7. ASSUME \A name \in Aliases : aliases'[name] = aliases[name]
      PROVE  UNCHANGED aliases
  BY <1>7
<1>8. ASSUME NEW tag \in Tags, UNCHANGED aliases,
             \A other \in Tags \ {tag} : tags'[other] = tags[other],
             \/ tags[tag] = None /\ tags'[tag] = Incomplete
             \/ tags[tag] \in {None, Incomplete} /\ tags'[tag] \notin {None, Incomplete}
      PROVE  Space!Next
  <2>1. CASE tags[tag] = None /\ tags'[tag] = Incomplete
    <3>1. tags' = [tags EXCEPT ![tag] = Incomplete]
      BY <1>8, <2>1
    <3>2. Space!Mention(tag)
      BY <1>8, <2>1, <3>1 DEF Space!Mention
    <3> QED
      BY <3>2 DEF Space!Next
  <2>2. CASE tags[tag] \in {None, Incomplete} /\ tags'[tag] \notin {None, Incomplete}
    <3>1. Space!Complete(tag)
      BY <1>8, <2>2 DEF Space!Complete
    <3> QED
      BY <3>1 DEF Space!Next
  <2> QED
    BY <1>8, <2>1, <2>2
<1>9. ASSUME NEW name \in Aliases, aliases[name] = None, UNCHANGED tags,
             \A other \in Aliases \ {name} : aliases'[other] = aliases[other]
      PROVE  Space!Next
  <2>1. Space!Alias(name)
    BY <1>9 DEF Space!Alias
  <2> QED
    BY <2>1 DEF Space!Next
<1> HIDE DEF tags, aliases
<1>10. CASE TablesKept
  <2>1. \A tag \in Tags : tags'[tag] = tags[tag]
    BY <1>4, <1>10 DEF TablesKept, Found
  <2>2. \A name \in Aliases : aliases'[name] = aliases[name]
    BY <1>5, <1>10 DEF TablesKept, Found
  <2> QED
    BY <1>6, <1>7, <2>1, <2>2 DEF tags, aliases
<1>11. CASE \E entry \in Entries(DOMAIN structs) : Entered(entry)
  <2>1. PICK entry \in Entries(DOMAIN structs) : Entered(entry)
    BY <1>11
  <2>2. \A ty, name : Found(ty, name)' = Found(ty, name)
                                           \cup {t \in {entry} : t.ty = ty /\ t.name = name}
    BY <1>3, <2>1, FoundAfter DEF Entered
  <2>3. \A tag \in Tags : tags'[tag] = tags[tag]
    <3>1. structs' = structs /\ \A tag : structsOf(tag)' = structsOf(tag)
      BY <2>1, <2>2 DEF Entered
    <3> HIDE DEF structsOf
    <3> QED
      BY <1>4, <3>1
  <2>4. CASE entry.ty = "TYPEDEF"
    <3>1. entry.name \in Aliases
      <4>1. entry \in [ty : {"TYPEDEF"}, name : Aliases, base : Types(DOMAIN structs)]
        BY <2>4, EntryIs
      <4> QED
        BY <4>1
    <3>2. aliases[entry.name] = None
      <4>1. aliasesOf(entry.name) = {}
        BY <2>1, <2>4 DEF Entered
      <4> QED
        BY <1>5, <3>1, <4>1 DEF AliasOf
    <3>3. \A other \in Aliases \ {entry.name} : aliases'[other] = aliases[other]
      <4>1. \A other \in Aliases \ {entry.name} : aliasesOf(other)' = aliasesOf(other)
        BY <2>2
      <4> HIDE DEF aliasesOf
      <4> QED
        BY <1>5, <4>1
    <3> QED
      BY <1>6, <1>9, <2>3, <3>1, <3>2, <3>3
  <2>5. CASE entry.ty # "TYPEDEF"
    <3>1. \A name : aliasesOf(name)' = aliasesOf(name)
      BY <2>2, <2>5
    <3>2. \A name \in Aliases : aliases'[name] = aliases[name]
      <4> HIDE DEF aliasesOf
      <4> QED
        BY <1>5, <3>1
    <3> QED
      BY <1>6, <1>7, <2>3, <3>2 DEF tags, aliases
  <2> QED
    BY <2>4, <2>5
<1>12. CASE \E name \in Tags \cup {None}, members \in {None} \cup OpenLists :
              Created(name, members)
  <2>1. PICK name \in Tags \cup {None}, members \in {None} \cup OpenLists :
          Created(name, members)
    BY <1>12
  <2> DEFINE n     == Len(structs)
             entry == [ty |-> "STRUCT", name |-> name, id |-> n + 1]
  <2>2. /\ structs'[n + 1].members = members
        /\ \A id \in DOMAIN structs : structs'[id] = structs[id]
    BY <1>3, <2>1, CreatedIs
  <2>3. ASSUME NEW tag \in Tags, structsOf(tag)' = structsOf(tag)
        PROVE  tags'[tag] = tags[tag]
    <3>1. CASE structsOf(tag) = {}
      <4> HIDE DEF structsOf
      <4> QED
        BY <1>4, <2>3, <3>1 DEF MeaningOf
    <3>2. CASE structsOf(tag) # {}
      <4>1. PICK t \in structsOf(tag) : TRUE
        BY <3>2
      <4>2. t.id \in DOMAIN structs /\ \A u \in structsOf(tag) : u.id = t.id
        BY <4>1, EntriesAgree
      <4>3. structs'[t.id] = structs[t.id]
        BY <2>2, <4>2
      <4> HIDE DEF structsOf
      <4>4. MeaningOf(structsOf(tag), structs') = MeaningOf(structsOf(tag), structs)
        BY <4>1, <4>2, <4>3, MeaningIs
      <4> QED
        BY <1>4, <2>3, <4>4
    <3> QED
      BY <3>1, <3>2
  <2>4. CASE name = None
    <3>1. defined_types' = defined_types
      BY <2>1, <2>4 DEF Created
    <3>2. \A tag : structsOf(tag)' = structsOf(tag) /\ aliasesOf(tag)' = aliasesOf(tag)
      BY <3>1 DEF Found
    <3>3. \A other \in Aliases : aliases'[other] = aliases[other]
      BY <1>5, <3>2
    <3> QED
      BY <1>6, <1>7, <2>3, <3>2, <3>3 DEF tags, aliases
  <2>5. CASE name # None
    <3>1. Found("STRUCT", name) = {} /\ defined_types' = Append(defined_types, entry)
      BY <2>1, <2>5 DEF Created
    <3>2. entry.ty = "STRUCT" /\ entry.name = name /\ entry.id = n + 1
      OBVIOUS
    <3> HIDE DEF n, entry
    <3>3. \A ty, other : Found(ty, other)' = Found(ty, other)
                                               \cup {t \in {entry} : t.ty = ty /\ t.name = other}
      BY <1>3, <3>1, FoundAfter
    <3>4. /\ \A other : aliasesOf(other)' = aliasesOf(other)
          /\ \A other \in Tags \ {name} : structsOf(other)' = structsOf(other)
          /\ structsOf(name)' = {entry} /\ structsOf(name) = {}
      BY <3>1, <3>2, <3>3
    <3> HIDE DEF structsOf, aliasesOf
    <3>5. \A other \in Aliases : aliases'[other] = aliases[other]
      BY <1>5, <3>4
    <3>6. \A other \in Tags \ {name} : tags'[other] = tags[other]
      BY <2>3, <3>4
    <3>7. name \in Tags
      BY <2>1, <2>5
    <3>8. tags[name] = None
      BY <1>4, <3>4, <3>7 DEF MeaningOf
    <3>9. MeaningOf({entry}, structs') =
            IF structs'[entry.id].members = None THEN Incomplete ELSE structs'[entry.id].members
      BY MeaningIs
    <3>10. tags'[name] = IF members = None THEN Incomplete ELSE members
      BY <1>4, <2>2, <3>2, <3>4, <3>7, <3>9
    <3>11. members = None \/ members \notin {None, Incomplete}
      BY <1>3, ListsAreMeanings
    <3> QED
      BY <1>7, <1>8, <3>5, <3>6, <3>7, <3>8, <3>10, <3>11
  <2> QED
    BY <2>4, <2>5
<1>13. CASE \E t \in Range(defined_types), members \in OpenLists : Filled(t, members)
  <2>1. PICK t \in Range(defined_types), members \in OpenLists : Filled(t, members)
    BY <1>13
  <2>2. /\ structs[t.id].members = None /\ t.name \in Tags /\ structs[t.id].name = t.name
        /\ structs'[t.id].members = members
        /\ \A id \in DOMAIN structs \ {t.id} : structs'[id] = structs[id]
    BY <1>3, <2>1, FilledIs
  <2>3. \A other : structsOf(other)' = structsOf(other) /\ aliasesOf(other)' = aliasesOf(other)
    BY <2>1 DEF Filled, Found
  <2>4. \A other \in Aliases : aliases'[other] = aliases[other]
    <3> HIDE DEF aliasesOf
    <3> QED
      BY <1>5, <2>3
  <2>5. /\ t \in structsOf(t.name)
        /\ \A u \in structsOf(t.name) : u.id = t.id
    BY <2>1, EntriesAgree DEF Filled
  <2>6. ASSUME NEW other \in Tags \ {t.name}
        PROVE  tags'[other] = tags[other]
    <3>1. CASE structsOf(other) = {}
      <4> HIDE DEF structsOf
      <4> QED
        BY <1>4, <2>3, <3>1 DEF MeaningOf
    <3>2. CASE structsOf(other) # {}
      <4>1. PICK v \in structsOf(other) : TRUE
        BY <3>2
      <4>2. /\ v.id \in DOMAIN structs /\ structs[v.id].name = other
            /\ \A u \in structsOf(other) : u.id = v.id
        BY <4>1, EntriesAgree
      <4>3. structs'[v.id] = structs[v.id]
        BY <2>2, <4>2
      <4> HIDE DEF structsOf
      <4>4. MeaningOf(structsOf(other), structs') = MeaningOf(structsOf(other), structs)
        BY <4>1, <4>2, <4>3, MeaningIs
      <4> QED
        BY <1>4, <2>3, <4>4
    <3> QED
      BY <3>1, <3>2
  <2> HIDE DEF structsOf
  <2>7. tags[t.name] = Incomplete
    BY <1>4, <2>2, <2>5, MeaningIs
  <2>8. members # None /\ members # Incomplete
    BY <1>3, ListsAreMeanings
  <2>9. tags'[t.name] = members
    BY <1>4, <2>2, <2>3, <2>5, <2>8, MeaningIs
  <2> QED
    BY <1>7, <1>8, <2>2, <2>4, <2>6, <2>7, <2>8, <2>9
<1> QED
  BY <1>3, <1>10, <1>11, <1>12, <1>13, TablesStep

LEMMA InitSimulates ==
  Init => Space!Init
<1> SUFFICES ASSUME Init
             PROVE  Space!Init
  OBVIOUS
<1>1. defined_types = <<>> /\ Range(<<>>) = {}
  BY EmptySeq DEF Init, Range
<1>2. \A ty, name : Found(ty, name) = {}
  BY <1>1 DEF Found
<1>3. \A name : TagMeaning(name) = None /\ AliasMeaning(name) = None
  BY <1>2 DEF TagMeaning, AliasMeaning
<1> QED
  BY <1>3 DEF Space!Init

(* Declarations mention, complete and alias names as TagSpace says, and    *)
(* what a complete tag or an alias means never changes.                    *)
THEOREM DeclarationsKeepMeanings == Spec => ImplementsTagSpace
<1>1. TablesInv /\ [Next]_vars
        => [Space!Next]_<<[tag \in Tags |-> TagMeaning(tag)],
                          [name \in Aliases |-> AliasMeaning(name)]>>
  BY StepSimulates
<1> QED
  BY <1>1, InitSimulates, TablesInvHolds, PTL DEF Spec, ImplementsTagSpace, Space!Spec
=============================================================================
