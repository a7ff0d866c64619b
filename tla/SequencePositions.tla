-------------------------- MODULE SequencePositions -------------------------
(***************************************************************************)
(* Positions in sequences, for the proofs of the other modules: the least  *)
(* and the greatest of a set of positions, which is what SelectInSeq and   *)
(* SelectLastInSeq return, and where the elements of appended, joined and  *)
(* shortened sequences are.                                                *)
(***************************************************************************)
EXTENDS Integers, SequencesExt, SequenceTheorems, WellFoundedInduction, TLAPS

-----------------------------------------------------------------------------
(* The least and the greatest position                                     *)

Below == {pair \in Nat \X Nat : pair[1] < pair[2]}

LEMMA BelowWellFounded ==
  IsWellFoundedOn(Below, Nat)
BY NatLessThanWellFounded DEF OpToRel, Below

LEMMA MinOfInterval ==
  ASSUME NEW I \in SUBSET Nat, I # {}
  PROVE  Min(I) \in I /\ \A i \in I : Min(I) <= i
<1>1. PICK x \in I : \A y \in I : ~ (<<y, x>> \in Below)
  <2>1. I \subseteq Nat
    OBVIOUS
  <2> QED
    BY <2>1, BelowWellFounded, WFMin, Zenon
<1>2. ASSUME NEW y \in I
      PROVE  x <= y
  <2>1. <<y, x>> \in Nat \X Nat /\ <<y, x>>[1] = y /\ <<y, x>>[2] = x
    OBVIOUS
  <2>2. ~ (y < x)
    BY <1>1, <2>1 DEF Below
  <2> QED
    BY <2>2
<1> QED
  BY <1>2 DEF Min

LEMMA MaxOfInterval ==
  ASSUME NEW n \in Nat, NEW I \in SUBSET (1 .. n), I # {}
  PROVE  Max(I) \in I /\ \A i \in I : i <= Max(I)
<1> DEFINE J == {n - i : i \in I}
<1>1. J \in SUBSET Nat /\ J # {}
  <2>1. J \in SUBSET Nat
    OBVIOUS
  <2>2. J # {}
    OBVIOUS
  <2> QED
    BY <2>1, <2>2
<1>2. Min(J) \in J /\ \A j \in J : Min(J) <= j
  BY <1>1, MinOfInterval
<1>3. PICK m \in I : Min(J) = n - m
  BY <1>2
<1>4. ASSUME NEW i \in I
      PROVE  m >= i
  <2>1. n - i \in J /\ Min(J) <= n - i
    BY <1>2
  <2>2. n - m <= n - i
    BY <1>3, <2>1, Zenon
  <2>3. m \in Nat /\ i \in Nat
    OBVIOUS
  <2> HIDE DEF J
  <2> QED
    BY <2>2, <2>3
<1> QED
  BY <1>4 DEF Max

-----------------------------------------------------------------------------
(* Joined and shortened sequences                                          *)

LEMMA ConcatIs ==
  ASSUME NEW S, NEW s \in Seq(S), NEW t \in Seq(S)
  PROVE  /\ Len(s) \in Nat /\ Len(t) \in Nat
         /\ Len(s \o t) = Len(s) + Len(t)
         /\ \A i \in 1 .. Len(s) : (s \o t)[i] = s[i]
         /\ \A j \in 1 .. Len(t) : (s \o t)[Len(s) + j] = t[j]
<1> DEFINE n == Len(s)
           k == Len(t)
           l == s \o t
<1>1. n \in Nat /\ k \in Nat
  BY LenProperties
<1>2. /\ Len(l) = n + k
      /\ \A i \in 1 .. n + k : l[i] = IF i <= n THEN s[i] ELSE t[i - n]
  BY ConcatProperties
<1> HIDE DEF n, k, l
<1>3. \A i \in 1 .. n : l[i] = s[i]
  BY <1>1, <1>2
<1>4. ASSUME NEW j \in 1 .. k
      PROVE  l[n + j] = t[j]
  <2>1. n + j \in 1 .. n + k /\ ~ (n + j <= n) /\ (n + j) - n = j
    BY <1>1
  <2> QED
    BY <1>2, <2>1
<1> QED
  BY <1>1, <1>2, <1>3, <1>4 DEF n, k, l

LEMMA AppendIs ==
  ASSUME NEW S, NEW s \in Seq(S), NEW e
  PROVE  /\ Len(Append(s, e)) = Len(s) + 1
         /\ Append(s, e)[Len(s) + 1] = e
         /\ \A i \in 1 .. Len(s) : Append(s, e)[i] = s[i]
<1>1. s \in Seq(S \cup {e}) /\ e \in S \cup {e}
  <2>1. S \subseteq S \cup {e}
    OBVIOUS
  <2> QED
    BY <2>1, SeqMonotonic
<1> QED
  BY <1>1, AppendProperties

LEMMA FrontProperties ==
  ASSUME NEW S, NEW s \in Seq(S), Len(s) >= 1
  PROVE  /\ Front(s) \in Seq(S)
         /\ Len(Front(s)) = Len(s) - 1
         /\ \A i \in 1 .. Len(s) - 1 : Front(s)[i] = s[i]
<1> DEFINE n == Len(s) - 1
           f == SubSeq(s, 1, n)
<1>1. n \in Nat /\ Len(s) \in Nat
  BY LenProperties
<1>2. \A i \in 1 .. n : s[i] \in S
  BY <1>1, ElementOfSeq
<1>3. /\ f \in Seq(S)
      /\ Len(f) = IF 1 <= n THEN n - 1 + 1 ELSE 0
      /\ \A i \in 1 .. n - 1 + 1 : f[i] = s[1 + i - 1]
  BY <1>1, <1>2, SubSeqProperties
<1>4. f = Front(s)
  BY DEF Front
<1> HIDE DEF f, n
<1>5. n - 1 + 1 = n /\ \A i \in 1 .. n : 1 + i - 1 = i
  BY <1>1
<1>6. Len(f) = n /\ \A i \in 1 .. n : f[i] = s[i]
  BY <1>1, <1>3, <1>5
<1> QED
  BY <1>3, <1>4, <1>6 DEF n

=============================================================================
