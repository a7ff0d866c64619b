----------------------------- MODULE TokensProofs -----------------------------
(***************************************************************************)
(* The tokens tokenize makes are those of C, for every text of the         *)
(* language it supports: the proof of TokensAsCInPlainStrings.  At each    *)
(* place the step tokenize takes ends where the longest lexeme ends.       *)
(***************************************************************************)
EXTENDS FrontEndProofs

-----------------------------------------------------------------------------
(* The kinds of lexemes, by the characters at their places in the text     *)

LEMMA PieceIs ==
  ASSUME NEW t \in Seq(Byte), NEW i \in 1 .. Len(t), NEW j \in i .. Len(t)
  PROVE  LET s == SubSeq(t, i, j)
         IN  /\ i \in Nat /\ j \in Nat /\ Len(t) \in Nat
             /\ s \in Seq(Byte) /\ Len(s) = j - i + 1
             /\ \A k \in 1 .. j - i + 1 : s[k] = t[i + k - 1]
             /\ \A k \in i .. j : k - i + 1 \in 1 .. j - i + 1 /\ s[k - i + 1] = t[k]
<1> DEFINE s == SubSeq(t, i, j)
<1>1. Len(t) \in Nat /\ i \in Nat /\ j \in Nat /\ i >= 1
  BY LenProperties
<1>2. \A k \in i .. j : t[k] \in Byte
  <2> TAKE k \in i .. j
  <2>1. k \in 1 .. Len(t)
    BY <1>1
  <2> QED
    BY <2>1, ElementOfSeq
<1>3. /\ s \in Seq(Byte) /\ Len(s) = IF i <= j THEN j - i + 1 ELSE 0
      /\ \A k \in 1 .. j - i + 1 : s[k] = t[i + k - 1]
  BY <1>1, <1>2, SubSeqProperties
<1> HIDE DEF s
<1>4. Len(s) = j - i + 1
  BY <1>1, <1>3
<1>5. ASSUME NEW k \in i .. j
      PROVE  k - i + 1 \in 1 .. j - i + 1 /\ s[k - i + 1] = t[k]
  <2>1. k - i + 1 \in 1 .. j - i + 1 /\ i + (k - i + 1) - 1 = k
    BY <1>1
  <2>2. s[k - i + 1] = t[i + (k - i + 1) - 1]
    BY <1>3, <2>1
  <2> QED
    BY <2>1, <2>2
<1> QED
  BY <1>1, <1>3, <1>4, <1>5 DEF s

(* All characters of a piece are in a set if those at its places are.      *)
LEMMA RangeOfPiece ==
  ASSUME NEW t \in Seq(Byte), NEW i \in 1 .. Len(t), NEW j \in i .. Len(t)
  PROVE  /\ \A k \in i .. j : t[k] \in Range(SubSeq(t, i, j))
         /\ \A c \in Range(SubSeq(t, i, j)) : \E k \in i .. j : c = t[k]
<1> DEFINE s == SubSeq(t, i, j)
<1>1. /\ i \in Nat /\ j \in Nat
      /\ s \in Seq(Byte) /\ Len(s) = j - i + 1
      /\ \A k \in 1 .. j - i + 1 : s[k] = t[i + k - 1]
      /\ \A k \in i .. j : k - i + 1 \in 1 .. j - i + 1 /\ s[k - i + 1] = t[k]
  BY PieceIs
<1> HIDE DEF s
<1>2. DOMAIN s = 1 .. j - i + 1
  BY <1>1
<1>3. \A k \in i .. j : t[k] \in Range(s)
  BY <1>1, <1>2 DEF Range
<1>4. ASSUME NEW c \in Range(s)
      PROVE  \E k \in i .. j : c = t[k]
  <2>1. PICK m \in 1 .. j - i + 1 : c = s[m]
    BY <1>2 DEF Range
  <2>2. i + m - 1 \in i .. j /\ c = t[i + m - 1]
    BY <1>1, <2>1
  <2> QED
    BY <2>2
<1> QED
  BY <1>3, <1>4 DEF s

(* Its first, second and last characters.                                  *)
LEMMA EndsOfPiece ==
  ASSUME NEW t \in Seq(Byte), NEW i \in 1 .. Len(t), NEW j \in i .. Len(t)
  PROVE  LET s == SubSeq(t, i, j)
         IN  /\ s[1] = t[i] /\ s[Len(s)] = t[j]
             /\ i < j => s[2] = t[i + 1] /\ s[Len(s) - 1] = t[j - 1]
<1> DEFINE s == SubSeq(t, i, j)
<1>1. /\ i \in Nat /\ j \in Nat /\ i <= j /\ Len(s) = j - i + 1
      /\ \A k \in 1 .. j - i + 1 : s[k] = t[i + k - 1]
  BY PieceIs
<1> HIDE DEF s
<1> DEFINE n == j - i + 1
<1>2. /\ n \in Nat /\ 1 \in 1 .. n /\ n \in 1 .. n /\ i + 1 - 1 = i /\ i + n - 1 = j
      /\ i < j => /\ 2 \in 1 .. n /\ n - 1 \in 1 .. n
                 /\ i + 2 - 1 = i + 1 /\ i + (n - 1) - 1 = j - 1
  BY <1>1
<1>3. s[1] = t[i + 1 - 1] /\ s[n] = t[i + n - 1]
  BY <1>1, <1>2
<1>4. i < j => s[2] = t[i + 2 - 1] /\ s[n - 1] = t[i + (n - 1) - 1]
  <2> HIDE DEF n
  <2> QED
    BY <1>1, <1>2 DEF n
<1>5. Len(s) = n
  BY <1>1
<1> HIDE DEF n
<1> QED
  BY <1>2, <1>3, <1>4, <1>5 DEF s

LEMMA WordAt ==
  ASSUME NEW t \in Seq(Byte), NEW i \in 1 .. Len(t), NEW j \in i .. Len(t)
  PROVE  IsWord(SubSeq(t, i, j)) <=>
           t[i] \in Letters /\ \A k \in i .. j : t[k] \in WordChars
<1> DEFINE s == SubSeq(t, i, j)
<1>1. s[1] = t[i]
  BY EndsOfPiece
<1>2. Range(s) \subseteq WordChars <=> \A k \in i .. j : t[k] \in WordChars
  <2>1. /\ \A k \in i .. j : t[k] \in Range(s)
        /\ \A c \in Range(s) : \E k \in i .. j : c = t[k]
    BY RangeOfPiece
  <2> HIDE DEF s
  <2> QED
    BY <2>1
<1> HIDE DEF s
<1>3. IsWord(s) <=> t[i] \in Letters /\ \A k \in i .. j : t[k] \in WordChars
  BY <1>1, <1>2, Zenon DEF IsWord
<1> QED
  BY <1>3, Zenon DEF s

LEMMA NumberAt ==
  ASSUME NEW t \in Seq(Byte), NEW i \in 1 .. Len(t), NEW j \in i .. Len(t)
  PROVE  IsNumber(SubSeq(t, i, j)) <=>
           /\ t[i] \in Digits \/ (t[i] = "." /\ i < j /\ t[i + 1] \in Digits)
           /\ \A k \in i .. j : t[k] \in WordChars \cup {"."}
<1> DEFINE s == SubSeq(t, i, j)
<1>1. s[1] = t[i] /\ (i < j => s[2] = t[i + 1])
  BY EndsOfPiece
<1>2. Len(s) >= 2 <=> i < j
  <2>1. i \in Nat /\ j \in Nat /\ Len(s) = j - i + 1
    BY PieceIs
  <2> HIDE DEF s
  <2> QED
    BY <2>1
<1>3. Range(s) \subseteq WordChars \cup {"."} <=>
        \A k \in i .. j : t[k] \in WordChars \cup {"."}
  <2>1. /\ \A k \in i .. j : t[k] \in Range(s)
        /\ \A c \in Range(s) : \E k \in i .. j : c = t[k]
    BY RangeOfPiece
  <2> HIDE DEF s
  <2> QED
    BY <2>1
<1> HIDE DEF s
<1>4. /\ s[1] \in Digits <=> t[i] \in Digits
      /\ s[1] = "." /\ Len(s) >= 2 /\ s[2] \in Digits <=>
           t[i] = "." /\ i < j /\ t[i + 1] \in Digits
  BY <1>1, <1>2
<1>5. IsNumber(s) <=>
           /\ t[i] \in Digits \/ (t[i] = "." /\ i < j /\ t[i + 1] \in Digits)
           /\ \A k \in i .. j : t[k] \in WordChars \cup {"."}
  BY <1>3, <1>4, Zenon DEF IsNumber
<1> QED
  BY <1>5, Zenon DEF s

LEMMA BlankAt ==
  ASSUME NEW t \in Seq(Byte), NEW i \in 1 .. Len(t), NEW j \in i .. Len(t)
  PROVE  LET s == SubSeq(t, i, j)
         IN  Len(s) = 1 /\ s[1] \in Blanks <=> i = j /\ t[i] \in Blanks
<1>1. i \in Nat /\ j \in Nat /\ i <= j /\ Len(SubSeq(t, i, j)) = j - i + 1
  BY PieceIs
<1>2. Len(SubSeq(t, i, j)) = 1 <=> i = j
  BY <1>1
<1> QED
  BY <1>2, EndsOfPiece, Zenon

LEMMA LineCommentAt ==
  ASSUME NEW t \in Seq(Byte), NEW i \in 1 .. Len(t), NEW j \in i .. Len(t)
  PROVE  IsLineComment(SubSeq(t, i, j)) <=>
           /\ i < j /\ t[i] = "/" /\ t[i + 1] = "/"
           /\ \A k \in i .. j : t[k] # NL
<1>1. i \in Nat /\ j \in Nat /\ i <= j /\ Len(SubSeq(t, i, j)) = j - i + 1
  BY PieceIs
<1>2. Len(SubSeq(t, i, j)) >= 2 <=> i < j
  BY <1>1
<1>3. NL \notin Range(SubSeq(t, i, j)) <=> \A k \in i .. j : t[k] # NL
  BY RangeOfPiece
<1> QED
  BY <1>2, <1>3, EndsOfPiece, Zenon DEF IsLineComment

(* A comment ends at the first of the places where it could.               *)
LEMMA BlockCommentAt ==
  ASSUME NEW t \in Seq(Byte), NEW i \in 1 .. Len(t), NEW j \in i .. Len(t)
  PROVE  IsBlockComment(SubSeq(t, i, j)) <=>
           /\ i + 3 <= j /\ t[i] = "/" /\ t[i + 1] = "*"
           /\ t[j - 1] = "*" /\ t[j] = "/"
           /\ \A k \in i + 2 .. j - 2 : ~ (t[k] = "*" /\ t[k + 1] = "/")
<1> DEFINE s == SubSeq(t, i, j)
           n == j - i + 1
           Closes(k) == s[k] = "*" /\ s[k + 1] = "/"
<1>1. /\ i \in Nat /\ j \in Nat /\ i <= j /\ Len(s) = n
      /\ \A k \in 1 .. n : s[k] = t[i + k - 1]
  BY PieceIs
<1>2. /\ s[1] = t[i]
      /\ i < j => s[2] = t[i + 1]
  BY EndsOfPiece
<1> HIDE DEF s
<1>3. n \in Nat /\ (n >= 4 <=> i + 3 <= j) /\ (n >= 4 => i < j)
  BY <1>1
<1>4. \A k \in 3 .. n - 1 : Closes(k) <=> t[i + k - 1] = "*" /\ t[i + k] = "/"
  <2> TAKE k \in 3 .. n - 1
  <2>1. k \in 1 .. n /\ k + 1 \in 1 .. n /\ i + (k + 1) - 1 = i + k
    BY <1>3
  <2>2. s[k] = t[i + k - 1] /\ s[k + 1] = t[i + (k + 1) - 1]
    BY <1>1, <2>1
  <2> QED
    BY <2>1, <2>2
<1>5. ASSUME n >= 4
      PROVE  {k \in 3 .. n - 1 : Closes(k)} = {n - 1} <=>
               /\ t[j - 1] = "*" /\ t[j] = "/"
               /\ \A k \in i + 2 .. j - 2 : ~ (t[k] = "*" /\ t[k + 1] = "/")
  <2> DEFINE A(k) == t[k] = "*" /\ t[k + 1] = "/"
  <2>1. \A k \in 3 .. n - 1 : Closes(k) <=> A(i + k - 1)
    <3> TAKE k \in 3 .. n - 1
    <3>1. i + k - 1 + 1 = i + k
      BY <1>1
    <3> QED
      BY <1>4, <3>1
  <2>2. A(j - 1) <=> t[j - 1] = "*" /\ t[j] = "/"
    <3>1. j - 1 + 1 = j
      BY <1>1
    <3> QED
      BY <3>1
  <2>3. n - 1 \in 3 .. n - 1 /\ i + (n - 1) - 1 = j - 1
    BY <1>1, <1>3, <1>5
  <2> HIDE DEF A, Closes
  <2>4. {k \in 3 .. n - 1 : Closes(k)} = {n - 1} <=>
          Closes(n - 1) /\ \A k \in 3 .. n - 2 : ~ Closes(k)
    <3> HIDE DEF n
    <3>1. \A k \in 3 .. n - 1 : k = n - 1 \/ k \in 3 .. n - 2
      BY <1>3
    <3>2. \A k \in 3 .. n - 2 : k \in 3 .. n - 1 /\ k # n - 1
      BY <1>3
    <3>3. n - 1 \in 3 .. n - 1
      BY <1>3, <1>5
    <3>4. ASSUME Closes(n - 1), \A k \in 3 .. n - 2 : ~ Closes(k)
          PROVE  {k \in 3 .. n - 1 : Closes(k)} = {n - 1}
      BY <3>1, <3>3, <3>4
    <3>5. ASSUME {k \in 3 .. n - 1 : Closes(k)} = {n - 1}
          PROVE  Closes(n - 1) /\ \A k \in 3 .. n - 2 : ~ Closes(k)
      BY <3>2, <3>5
    <3> QED
      BY <3>4, <3>5
  <2>5. Closes(n - 1) <=> A(j - 1)
    BY <2>1, <2>3
  <2>6. (\A k \in 3 .. n - 2 : ~ Closes(k)) <=> (\A k \in i + 2 .. j - 2 : ~ A(k))
    <3>1. ASSUME \A k \in 3 .. n - 2 : ~ Closes(k), NEW k \in i + 2 .. j - 2
          PROVE  ~ A(k)
      <4>1. k - i + 1 \in 3 .. n - 2 /\ k - i + 1 \in 3 .. n - 1
            /\ i + (k - i + 1) - 1 = k
        BY <1>1
      <4> HIDE DEF n
      <4>2. ~ Closes(k - i + 1)
        BY <3>1, <4>1
      <4> QED
        BY <2>1, <4>1, <4>2
    <3>2. ASSUME \A k \in i + 2 .. j - 2 : ~ A(k), NEW k \in 3 .. n - 2
          PROVE  ~ Closes(k)
      <4>1. i + k - 1 \in i + 2 .. j - 2 /\ k \in 3 .. n - 1
        BY <1>1
      <4> HIDE DEF n
      <4> QED
        BY <2>1, <3>2, <4>1
    <3> QED
      BY <3>1, <3>2
  <2> QED
    BY <2>2, <2>4, <2>5, <2>6 DEF A
<1>6. IsBlockComment(s) <=>
        /\ n >= 4 /\ s[1] = "/" /\ s[2] = "*"
        /\ {k \in 3 .. n - 1 : Closes(k)} = {n - 1}
  <2> HIDE DEF n
  <2> QED
    BY <1>1 DEF IsBlockComment
<1> HIDE DEF n, Closes
<1>7. CASE n >= 4
  BY <1>2, <1>3, <1>5, <1>6, <1>7 DEF s
<1>8. CASE ~ (n >= 4)
  BY <1>3, <1>6, <1>8 DEF s
<1> QED
  BY <1>7, <1>8

-----------------------------------------------------------------------------
(* The lexemes and the tokens of a text                                    *)

(* What is said of a place by what is said of a later one is said of all,  *)
(* and in one way.                                                         *)
Onward(n, Stop, next) ==
  \A i \in 1 .. n + 1 : i \notin Stop => next[i] \in i + 1 .. n + 1

FromLater(n, Stop, here, next, f) ==
  f = [i \in 1 .. n + 1 |-> IF i \in Stop THEN here[i] ELSE here[i] \o f[next[i]]]

LEMMA SuffixRecursion ==
  ASSUME NEW n \in Nat, NEW S, NEW Stop,
         NEW here \in [1 .. n + 1 -> Seq(S)], NEW next, Onward(n, Stop, next)
  PROVE  \E f \in [1 .. n + 1 -> Seq(S)] : FromLater(n, Stop, here, next, f)
<1> DEFINE Body(f, i) == IF i \in Stop THEN here[i] ELSE here[i] \o f[next[i]]
           Funs       == [1 .. n + 1 -> Seq(S)]
           Right(k)   == {f \in Funs : \A i \in 1 .. n + 1 : i > n + 1 - k => f[i] = Body(f, i)}
           Missing    == {k \in 0 .. n + 1 : Right(k) = {}}
<1> USE DEF Onward
<1>1. Missing = {}
  <2> SUFFICES ASSUME Missing # {}
               PROVE  FALSE
    OBVIOUS
  <2> DEFINE m == Min(Missing)
  <2>1. m \in Missing /\ \A k \in Missing : m <= k
    <3>1. Missing \in SUBSET Nat
      OBVIOUS
    <3> HIDE DEF Missing
    <3> QED
      BY <3>1, MinOfInterval
  <2>2. m \in 0 .. n + 1 /\ Right(m) = {}
    BY <2>1
  <2> HIDE DEF m
  <2>3. m # 0
    <3> DEFINE g == [i \in 1 .. n + 1 |-> <<>>]
    <3>1. g \in Funs
      BY EmptySeq
    <3> HIDE DEF Body
    <3>2. \A i \in 1 .. n + 1 : ~ (i > n + 1 - 0)
      OBVIOUS
    <3> HIDE DEF g, Funs
    <3>3. g \in Right(0)
      BY <3>1, <3>2
    <3> QED
      BY <2>2, <3>3
  <2>4. m - 1 \in 0 .. n + 1 /\ ~ (m <= m - 1)
    BY <2>2, <2>3
  <2>5. Right(m - 1) # {}
    <3> HIDE DEF Right
    <3> QED
      BY <2>1, <2>4
  <2>6. PICK g \in Right(m - 1) : TRUE
    BY <2>5
  <2> DEFINE q == n + 2 - m
             b == Body(g, q)
             h == [i \in 1 .. n + 1 |-> IF i = q THEN b ELSE g[i]]
  <2>7. q \in 1 .. n + 1
    BY <2>2, <2>3
  <2>8. g \in Funs /\ \A i \in 1 .. n + 1 : i > n + 1 - (m - 1) => g[i] = Body(g, i)
    BY <2>6
  <2> HIDE DEF q
  <2>9. b \in Seq(S)
    <3>1. CASE q \in Stop
      BY <2>7, <3>1
    <3>2. CASE q \notin Stop
      <4>1. next[q] \in q + 1 .. n + 1
        BY <2>7, <3>2
      <4>2. next[q] \in 1 .. n + 1
        BY <2>7, <4>1
      <4>3. here[q] \in Seq(S) /\ g[next[q]] \in Seq(S)
        BY <2>7, <2>8, <4>2
      <4>4. here[q] \o g[next[q]] \in Seq(S)
        BY <4>3, ConcatProperties
      <4> QED
        BY <3>2, <4>4
    <3> QED
      BY <3>1, <3>2
  <2> HIDE DEF b
  <2>10. h \in Funs
    BY <2>8, <2>9
  <2>11. ASSUME NEW i \in 1 .. n + 1, i >= q
         PROVE  Body(h, i) = Body(g, i)
    <3>1. CASE i \in Stop
      BY <3>1
    <3>2. CASE i \notin Stop
      <4>1. next[i] \in i + 1 .. n + 1
        BY <3>2
      <4>2. next[i] \in 1 .. n + 1 /\ next[i] # q
        BY <2>7, <2>11, <4>1
      <4>3. h[next[i]] = g[next[i]]
        BY <4>2
      <4> HIDE DEF h
      <4> QED
        BY <3>2, <4>3, Zenon
    <3> QED
      BY <3>1, <3>2
  <2>12. ASSUME NEW i \in 1 .. n + 1, i > n + 1 - m
         PROVE  h[i] = Body(h, i)
    <3>1. i >= q /\ (i # q => i > n + 1 - (m - 1))
      BY <2>2, <2>12 DEF q
    <3>2. h[i] = IF i = q THEN b ELSE g[i]
      OBVIOUS
    <3> HIDE DEF h, Body
    <3>3. h[i] = Body(g, i)
      BY <2>8, <3>1, <3>2 DEF b
    <3> QED
      BY <2>11, <3>1, <3>3
  <2> HIDE DEF h, Body, Funs
  <2>13. h \in Right(m)
    BY <2>10, <2>12
  <2> QED
    BY <2>2, <2>13
<1>2. Right(n + 1) # {}
  <2>1. n + 1 \in 0 .. n + 1
    OBVIOUS
  <2> HIDE DEF Right
  <2> QED
    BY <1>1, <2>1
<1>3. PICK f \in Right(n + 1) : TRUE
  BY <1>2
<1>4. \A i \in 1 .. n + 1 : i > n + 1 - (n + 1)
  OBVIOUS
<1> HIDE DEF Body
<1>5. f \in Funs /\ \A i \in 1 .. n + 1 : f[i] = Body(f, i)
  BY <1>3, <1>4
<1>6. f = [i \in 1 .. n + 1 |-> Body(f, i)]
  BY <1>5
<1> QED
  BY <1>5, <1>6, Zenon DEF Body, FromLater

LEMMA SuffixUnique ==
  ASSUME NEW n \in Nat, NEW Stop, NEW here, NEW next, Onward(n, Stop, next),
         NEW f, FromLater(n, Stop, here, next, f),
         NEW g, FromLater(n, Stop, here, next, g)
  PROVE  f = g
<1> DEFINE Apart(k) == f[n + 1 - k] # g[n + 1 - k]
           Differ == {k \in 0 .. n : Apart(k)}
           m      == Min(Differ)
           q      == n + 1 - m
<1>1. /\ \A i \in 1 .. n + 1 : f[i] = IF i \in Stop THEN here[i] ELSE here[i] \o f[next[i]]
      /\ \A i \in 1 .. n + 1 : g[i] = IF i \in Stop THEN here[i] ELSE here[i] \o g[next[i]]
  BY Zenon DEF FromLater
<1>2. Differ = {}
  <2> SUFFICES ASSUME Differ # {}
               PROVE  FALSE
    OBVIOUS
  <2>1. m \in Differ /\ \A k \in Differ : m <= k
    <3> HIDE DEF Apart
    <3>1. Differ \in SUBSET Nat
      OBVIOUS
    <3> HIDE DEF Differ
    <3> QED
      BY <3>1, MinOfInterval
  <2>2. m \in 0 .. n /\ f[q] # g[q]
    BY <2>1
  <2> HIDE DEF m
  <2>3. q \in 1 .. n + 1
    BY <2>2
  <2>4. q \notin Stop
    BY <1>1, <2>2, <2>3, Zenon
  <2>5. next[q] \in q + 1 .. n + 1
    BY <2>3, <2>4, Zenon DEF Onward
  <2>6. f[next[q]] # g[next[q]]
    BY <1>1, <2>2, <2>3, <2>4, Zenon
  <2> DEFINE k == n + 1 - next[q]
  <2>7. k \in 0 .. n /\ n + 1 - k = next[q] /\ ~ (m <= k)
    BY <2>2, <2>5
  <2> HIDE DEF k
  <2>8. k \in Differ
    BY <2>6, <2>7
  <2> QED
    BY <2>1, <2>7, <2>8
<1>3. \A i \in 1 .. n + 1 : f[i] = g[i]
  <2> TAKE i \in 1 .. n + 1
  <2>1. n + 1 - i \in 0 .. n /\ n + 1 - (n + 1 - i) = i
    OBVIOUS
  <2> QED
    BY <1>2, <2>1
<1>4. f = [i \in 1 .. n + 1 |-> f[i]] /\ g = [i \in 1 .. n + 1 |-> g[i]]
  BY Zenon DEF FromLater
<1> QED
  BY <1>3, <1>4, Zenon

(* A piece of the text that could be the lexeme at its place.              *)
Fits(t, i, j) ==
  /\ IsLexeme(SubSeq(t, i, j))
  /\ OpensComment(t, i) => IsBlockComment(SubSeq(t, i, j))

LEMMA LexemeEndIs ==
  ASSUME NEW t \in Seq(Byte), NEW i \in 1 .. Len(t)
  PROVE  /\ LexemeEnd(t, i) = 0 \/ LexemeEnd(t, i) \in i .. Len(t)
         /\ LexemeEnd(t, i) # 0 => Fits(t, i, LexemeEnd(t, i))
         /\ \A j \in i .. Len(t) : Fits(t, i, j) => j <= LexemeEnd(t, i)
<1> DEFINE n == Len(t)
           L == {j \in i .. n : Fits(t, i, j)}
           Z == {0} \cup L
           e == Max(Z)
<1>1. e = LexemeEnd(t, i)
  BY DEF LexemeEnd, Fits
<1>2. n \in Nat /\ i \in 1 .. n
  BY LenProperties
<1>3. L \in SUBSET (1 .. n)
  BY <1>2
<1>4. \E x \in Z : \A y \in Z : x >= y
  <2>1. CASE L = {}
    <3> HIDE DEF L
    <3> QED
      BY <2>1
  <2>2. CASE L # {}
    <3> HIDE DEF L
    <3>1. Max(L) \in L /\ \A y \in L : y <= Max(L)
      BY <1>2, <1>3, <2>2, MaxOfInterval
    <3>2. Max(L) \in 1 .. n
      BY <1>3, <3>1
    <3> DEFINE x == Max(L)
    <3> HIDE DEF x
    <3>3. x \in Z /\ \A y \in Z : x >= y
      BY <1>3, <3>1, <3>2 DEF x
    <3> QED
      BY <3>3, Zenon
  <2> QED
    BY <2>1, <2>2
<1>5. e \in Z /\ \A y \in Z : e >= y
  <2> HIDE DEF Z
  <2> QED
    BY <1>4 DEF Max
<1> HIDE DEF e
<1>6. e = 0 \/ e \in L
  BY <1>5
<1>7. e # 0 => e \in i .. n /\ Fits(t, i, e)
  BY <1>6
<1>8. \A j \in i .. n : Fits(t, i, j) => j <= e
  <2> TAKE j \in i .. n
  <2> SUFFICES ASSUME Fits(t, i, j)
               PROVE  j <= e
    OBVIOUS
  <2>1. e >= j /\ e \in Nat
    BY <1>2, <1>5
  <2> QED
    BY <2>1
<1> QED
  BY <1>1, <1>7, <1>8

LEMMA LexemesFromIs ==
  ASSUME NEW t \in Seq(Byte)
  PROVE  /\ LexemesFrom(t) \in [1 .. Len(t) + 1 -> Seq(Seq(Byte))]
         /\ \A i \in 1 .. Len(t) + 1 :
              LexemesFrom(t)[i] =
                IF i > Len(t) THEN <<>>
                ELSE IF LexemeEnd(t, i) = 0 THEN << <<>> >>
                ELSE <<SubSeq(t, i, LexemeEnd(t, i))>>
                       \o LexemesFrom(t)[LexemeEnd(t, i) + 1]
<1> DEFINE n       == Len(t)
           e(i)    == LexemeEnd(t, i)
           Stop    == {i \in 1 .. n + 1 : i > n \/ e(i) = 0}
           here    == [i \in 1 .. n + 1 |->
                         IF i > n THEN <<>> ELSE IF e(i) = 0 THEN << <<>> >>
                         ELSE <<SubSeq(t, i, e(i))>>]
           next    == [i \in 1 .. n + 1 |-> e(i) + 1]
           Def(f)  == [i \in 1 .. n + 1 |->
                         IF i > n THEN <<>>
                         ELSE IF e(i) = 0 THEN << <<>> >>
                              ELSE <<SubSeq(t, i, e(i))>> \o f[e(i) + 1]]
           value   == CHOOSE f : f = Def(f)
<1>1. n \in Nat
  BY LenProperties
<1>2. ASSUME NEW i \in 1 .. n + 1, i \notin Stop
      PROVE  i \in 1 .. n /\ e(i) \in i .. n
  <2>1. i \in 1 .. n /\ e(i) # 0
    BY <1>1, <1>2
  <2> QED
    BY <2>1, LexemeEndIs
<1> HIDE DEF e
<1>3. Onward(n, Stop, next)
  <2>1. ASSUME NEW i \in 1 .. n + 1, i \notin Stop
        PROVE  next[i] \in i + 1 .. n + 1
    <3>1. i \in 1 .. n /\ e(i) \in i .. n
      BY <1>2, <2>1
    <3> HIDE DEF n
    <3> QED
      BY <1>1, <3>1
  <2> QED
    BY <2>1, Zenon DEF Onward
<1>4. here \in [1 .. n + 1 -> Seq(Seq(Byte))]
  <2>1. <<>> \in Seq(Byte) /\ <<>> \in Seq(Seq(Byte)) /\ << <<>> >> \in Seq(Seq(Byte))
    BY EmptySeq
  <2>2. ASSUME NEW i \in 1 .. n + 1, i <= n, e(i) # 0
        PROVE  <<SubSeq(t, i, e(i))>> \in Seq(Seq(Byte))
    <3>1. i \in 1 .. n /\ e(i) \in i .. n
      <4>1. i \notin Stop
        BY <1>1, <2>2
      <4> QED
        BY <1>2, <4>1
    <3>2. SubSeq(t, i, e(i)) \in Seq(Byte)
      BY <3>1, PieceIs
    <3> QED
      BY <3>2
  <2>3. ASSUME NEW i \in 1 .. n + 1
        PROVE  here[i] \in Seq(Seq(Byte))
    <3>1. CASE i > n \/ e(i) = 0
      <4> HIDE DEF n
      <4> QED
        BY <2>1, <3>1
    <3>2. CASE ~ (i > n \/ e(i) = 0)
      <4>1. i <= n
        BY <1>1, <3>2
      <4>2. here[i] = <<SubSeq(t, i, e(i))>>
        BY <3>2, Zenon
      <4> QED
        BY <2>2, <3>2, <4>1, <4>2
    <3> QED
      BY <3>1, <3>2
  <2> HIDE DEF n
  <2> QED
    BY <2>3
<1>5. PICK g \in [1 .. n + 1 -> Seq(Seq(Byte))] : FromLater(n, Stop, here, next, g)
  <2> HIDE DEF here, next, Stop, n, value
  <2> QED
    BY <1>1, <1>3, <1>4, SuffixRecursion
<1>6. g = Def(g)
  <2> USE DEF FromLater
  <2>1. ASSUME NEW i \in 1 .. n + 1
        PROVE  g[i] = Def(g)[i]
    <3>1. CASE i > n
      BY <1>5, <3>1, Zenon
    <3>2. CASE ~ (i > n) /\ e(i) = 0
      BY <1>5, <3>2, Zenon
    <3>3. CASE ~ (i > n) /\ e(i) # 0
      BY <1>5, <3>3, Zenon
    <3> QED
      BY <3>1, <3>2, <3>3
  <2> QED
    BY <1>5, <2>1, Zenon
<1>7. value = Def(value)
  BY <1>6, Zenon
<1>8. value = LexemesFrom(t)
  BY DEF LexemesFrom, e
<1> HIDE DEF value
<1>9. FromLater(n, Stop, here, next, value)
  <2> DEFINE B(f, i) == IF i \in Stop THEN here[i] ELSE here[i] \o f[next[i]]
  <2>1. ASSUME NEW i \in 1 .. n + 1
        PROVE  Def(value)[i] = B(value, i)
    <3>1. CASE i > n
      BY <3>1, Zenon
    <3>2. CASE ~ (i > n) /\ e(i) = 0
      BY <3>2, Zenon
    <3>3. CASE ~ (i > n) /\ e(i) # 0
      BY <3>3, Zenon
    <3> QED
      BY <3>1, <3>2, <3>3
  <2> QED
    BY <1>7, <2>1, Zenon DEF FromLater
<1>10. value = g
  <2> HIDE DEF here, next, Stop, n
  <2> QED
    BY <1>1, <1>3, <1>5, <1>9, SuffixUnique, Zenon
<1>11. value \in [1 .. n + 1 -> Seq(Seq(Byte))]
  BY <1>10
<1>12. \A i \in 1 .. n + 1 :
         value[i] = IF i > n THEN <<>>
                    ELSE IF e(i) = 0 THEN << <<>> >>
                    ELSE <<SubSeq(t, i, e(i))>> \o value[e(i) + 1]
  BY <1>7, Zenon
<1> QED
  BY <1>8, <1>11, <1>12 DEF e

(* What a lexeme gives, and the set of what lexemes could give.            *)
Made(s) == IF IsGap(s) THEN <<>> ELSE <<TokenOf(s)>>

EndToken == Token("TK_EOF", <<>>, 0)

CTokens == {EndToken} \cup {TokenOf(s) : s \in Seq(Byte)}

LEMMA TokensFromIs ==
  ASSUME NEW t \in Seq(Byte)
  PROVE  /\ TokensFrom(t) \in [1 .. Len(t) + 1 -> Seq(CTokens)]
         /\ \A i \in 1 .. Len(t) + 1 :
              TokensFrom(t)[i] =
                IF i > Len(t) THEN <<EndToken>>
                ELSE IF LexemeEnd(t, i) = 0 THEN <<>>
                ELSE Made(SubSeq(t, i, LexemeEnd(t, i)))
                       \o TokensFrom(t)[LexemeEnd(t, i) + 1]
<1> DEFINE n       == Len(t)
           S       == CTokens
           e(i)    == LexemeEnd(t, i)
           Stop    == {i \in 1 .. n + 1 : i > n \/ e(i) = 0}
           here    == [i \in 1 .. n + 1 |->
                         IF i > n THEN <<EndToken>> ELSE IF e(i) = 0 THEN <<>>
                         ELSE Made(SubSeq(t, i, e(i)))]
           next    == [i \in 1 .. n + 1 |-> e(i) + 1]
           Def(f)  == [i \in 1 .. n + 1 |->
                         IF i > n THEN <<EndToken>>
                         ELSE IF e(i) = 0 THEN <<>>
                              ELSE Made(SubSeq(t, i, e(i))) \o f[e(i) + 1]]
           value   == CHOOSE f : f = Def(f)
<1>1. n \in Nat
  BY LenProperties
<1>2. ASSUME NEW i \in 1 .. n + 1, i \notin Stop
      PROVE  i \in 1 .. n /\ e(i) \in i .. n
  <2>1. i \in 1 .. n /\ e(i) # 0
    BY <1>1, <1>2
  <2> QED
    BY <2>1, LexemeEndIs
<1> HIDE DEF e
<1>3. Onward(n, Stop, next)
  <2>1. ASSUME NEW i \in 1 .. n + 1, i \notin Stop
        PROVE  next[i] \in i + 1 .. n + 1
    <3>1. i \in 1 .. n /\ e(i) \in i .. n
      BY <1>2, <2>1
    <3> HIDE DEF n
    <3> QED
      BY <1>1, <3>1
  <2> QED
    BY <2>1, Zenon DEF Onward
<1>4. here \in [1 .. n + 1 -> Seq(S)]
  <2>1. <<>> \in Seq(S) /\ <<EndToken>> \in Seq(S)
    <3>1. EndToken \in S
      BY Zenon DEF CTokens
    <3> HIDE DEF S
    <3> QED
      BY <3>1, EmptySeq
  <2>2. ASSUME NEW i \in 1 .. n + 1, i <= n, e(i) # 0
        PROVE  Made(SubSeq(t, i, e(i))) \in Seq(S)
    <3>1. i \in 1 .. n /\ e(i) \in i .. n
      <4>1. i \notin Stop
        BY <1>1, <2>2
      <4> QED
        BY <1>2, <4>1
    <3>2. TokenOf(SubSeq(t, i, e(i))) \in S
      <4>1. SubSeq(t, i, e(i)) \in Seq(Byte)
        BY <3>1, PieceIs
      <4> QED
        BY <4>1, Zenon DEF CTokens
    <3> DEFINE tok == TokenOf(SubSeq(t, i, e(i)))
    <3> HIDE DEF S
    <3>3. <<tok>> \in Seq(S)
      <4> HIDE DEF tok
      <4> QED
        BY <3>2 DEF tok
    <3> QED
      BY <2>1, <3>3, Zenon DEF Made
  <2>3. ASSUME NEW i \in 1 .. n + 1
        PROVE  here[i] \in Seq(S)
    <3> HIDE DEF S
    <3>1. CASE i > n \/ e(i) = 0
      <4> HIDE DEF n
      <4> QED
        BY <2>1, <3>1
    <3>2. CASE ~ (i > n \/ e(i) = 0)
      <4>1. i <= n
        BY <1>1, <3>2
      <4>2. here[i] = Made(SubSeq(t, i, e(i)))
        BY <3>2, Zenon
      <4> QED
        BY <2>2, <3>2, <4>1, <4>2
    <3> QED
      BY <3>1, <3>2, Zenon
  <2> HIDE DEF n, S
  <2> QED
    BY <2>3
<1>5. PICK g \in [1 .. n + 1 -> Seq(S)] : FromLater(n, Stop, here, next, g)
  <2> HIDE DEF here, next, Stop, n, value, S
  <2> QED
    BY <1>1, <1>3, <1>4, SuffixRecursion
<1>6. g = Def(g)
  <2> USE DEF FromLater
  <2>1. ASSUME NEW i \in 1 .. n + 1
        PROVE  g[i] = Def(g)[i]
    <3>1. CASE i > n
      BY <1>5, <3>1, Zenon
    <3>2. CASE ~ (i > n) /\ e(i) = 0
      BY <1>5, <3>2, Zenon
    <3>3. CASE ~ (i > n) /\ e(i) # 0
      BY <1>5, <3>3, Zenon
    <3> QED
      BY <3>1, <3>2, <3>3
  <2> QED
    BY <1>5, <2>1, Zenon
<1>7. value = Def(value)
  BY <1>6, Zenon
<1>8. value = TokensFrom(t)
  BY DEF TokensFrom, e, EndToken, Made
<1> HIDE DEF value
<1>9. FromLater(n, Stop, here, next, value)
  <2> DEFINE B(f, i) == IF i \in Stop THEN here[i] ELSE here[i] \o f[next[i]]
  <2>1. ASSUME NEW i \in 1 .. n + 1
        PROVE  Def(value)[i] = B(value, i)
    <3>1. CASE i > n
      BY <3>1, Zenon
    <3>2. CASE ~ (i > n) /\ e(i) = 0
      BY <3>2, Zenon
    <3>3. CASE ~ (i > n) /\ e(i) # 0
      BY <3>3, Zenon
    <3> QED
      BY <3>1, <3>2, <3>3
  <2> QED
    BY <1>7, <2>1, Zenon DEF FromLater
<1>10. value = g
  <2> HIDE DEF here, next, Stop, n
  <2> QED
    BY <1>1, <1>3, <1>5, <1>9, SuffixUnique, Zenon
<1>11. value \in [1 .. n + 1 -> Seq(S)]
  BY <1>10
<1>12. \A i \in 1 .. n + 1 :
         value[i] = IF i > n THEN <<EndToken>>
                    ELSE IF e(i) = 0 THEN <<>>
                    ELSE Made(SubSeq(t, i, e(i))) \o value[e(i) + 1]
  BY <1>7, Zenon
<1> QED
  BY <1>8, <1>11, <1>12, Zenon DEF e

LEMMA RangeOfLonger ==
  ASSUME NEW S, NEW x \in S, NEW l \in Seq(S)
  PROVE  x \in Range(<<x>> \o l) /\ Range(l) \subseteq Range(<<x>> \o l)
<1> DEFINE s == <<x>>
<1>1. s \in Seq(S) /\ 1 \in DOMAIN s /\ s[1] = x
  OBVIOUS
<1>2. x \in Range(s)
  BY <1>1, Zenon DEF Range
<1> HIDE DEF s
<1>3. Range(s \o l) = Range(s) \cup Range(l)
  BY <1>1, RangeConcatenation
<1>4. x \in Range(s \o l) /\ Range(l) \subseteq Range(s \o l)
  BY <1>2, <1>3
<1> QED
  BY <1>4 DEF s

(* The first of the lexemes of a text in the supported language.           *)
LEMMA FirstLexeme ==
  ASSUME NEW t \in Seq(Byte), NEW i \in 1 .. Len(t),
         \A s \in Range(LexemesFrom(t)[i]) : s # <<>> /\ IsSupported(s)
  PROVE  LET e == LexemeEnd(t, i)
             s == SubSeq(t, i, e)
         IN  /\ e \in i .. Len(t) /\ e + 1 \in 1 .. Len(t) + 1
             /\ IsSupported(s) /\ s \in Range(LexemesFrom(t)[i])
             /\ TokensFrom(t)[i] = Made(s) \o TokensFrom(t)[e + 1]
             /\ Range(LexemesFrom(t)[e + 1]) \subseteq Range(LexemesFrom(t)[i])
<1> DEFINE n == Len(t)
           e == LexemeEnd(t, i)
           s == SubSeq(t, i, e)
           l == LexemesFrom(t)
<1>1. n \in Nat /\ i \in 1 .. n + 1 /\ ~ (i > n)
  BY LenProperties
<1>2. l[i] = IF e = 0 THEN << <<>> >> ELSE <<s>> \o l[e + 1]
  BY <1>1, LexemesFromIs, Zenon
<1>3. e # 0
  <2> SUFFICES ASSUME e = 0
               PROVE  FALSE
    OBVIOUS
  <2>1. l[i] = << <<>> >>
    BY <1>2, Zenon
  <2>2. <<>> \in Range(l[i])
    <3> HIDE DEF l
    <3> DEFINE q == << <<>> >>
    <3>1. 1 \in DOMAIN q /\ q[1] = <<>>
      OBVIOUS
    <3> QED
      BY <2>1, <3>1, Zenon DEF Range
  <2> QED
    BY <2>2, Zenon
<1>4. e \in i .. n
  BY <1>3, LexemeEndIs
<1>5. e + 1 \in 1 .. n + 1
  <2> HIDE DEF e, n
  <2> QED
    BY <1>1, <1>4
<1>6. s \in Seq(Byte) /\ l[e + 1] \in Seq(Seq(Byte))
  <2>1. s \in Seq(Byte)
    BY <1>4, PieceIs
  <2>2. l[e + 1] \in Seq(Seq(Byte))
    <3> HIDE DEF e, n, l
    <3>1. l \in [1 .. n + 1 -> Seq(Seq(Byte))]
      BY LexemesFromIs DEF l, n
    <3> QED
      BY <1>5, <3>1
  <2> QED
    BY <2>1, <2>2
<1>7. l[i] = <<s>> \o l[e + 1]
  BY <1>2, <1>3, Zenon
<1>8. s \in Range(l[i]) /\ Range(l[e + 1]) \subseteq Range(l[i])
  <2> HIDE DEF s, l, e
  <2> QED
    BY <1>6, <1>7, RangeOfLonger
<1>9. TokensFrom(t)[i] = Made(s) \o TokensFrom(t)[e + 1]
  BY <1>1, <1>3, TokensFromIs, Zenon
<1> QED
  BY <1>4, <1>5, <1>8, <1>9, Zenon

-----------------------------------------------------------------------------
(* What the first character of a lexeme tells                              *)

LEMMA CharsApart ==
  /\ Letters \subseteq WordChars /\ Digits \subseteq WordChars
  /\ Letters \cap Digits = {}
  /\ WordChars \cap Blanks = {} /\ WordChars \cap PunctChars = {}
  /\ NUL \notin WordChars /\ QUOTE \notin WordChars
  /\ "'" \notin WordChars /\ "\\" \notin WordChars
  /\ Blanks \cap PunctChars = {}
  /\ "'" \notin Blanks \cup PunctChars /\ NUL \notin Blanks \cup PunctChars
  /\ QUOTE \notin Blanks /\ QUOTE \notin PunctChars
  /\ QUOTE # NUL /\ QUOTE # "'" /\ QUOTE # "\\" /\ "'" # NUL
<1>1. /\ Letters \cap Digits = {}
      /\ WordChars \cap (Blanks \cup PunctChars \cup {NUL, QUOTE, "'", "\\"}) = {}
  BY TokenizerAssumption
<1>2. /\ Letters \subseteq WordChars /\ Digits \subseteq WordChars
      /\ WordChars \cap Blanks = {} /\ WordChars \cap PunctChars = {}
      /\ NUL \notin WordChars /\ QUOTE \notin WordChars
      /\ "'" \notin WordChars /\ "\\" \notin WordChars
  BY <1>1, Zenon DEF WordChars
<1>3. /\ Blanks \cap PunctChars = {}
      /\ "'" \notin Blanks \cup PunctChars /\ NUL \notin Blanks \cup PunctChars
      /\ "'" # NUL
  BY DEF Blanks, PunctChars, NUL, NL, VT
<1>4. QUOTE \notin Blanks
  BY Zenon DEF QUOTE, Blanks, NL, VT
<1>5. QUOTE \notin PunctChars
  BY Zenon DEF QUOTE, PunctChars
<1>6. QUOTE # NUL /\ QUOTE # "'" /\ QUOTE # "\\"
  BY Zenon DEF QUOTE, NUL
<1> QED
  BY <1>1, <1>2, <1>3, <1>4, <1>5, <1>6, Zenon

LEMMA KnownIs ==
  ASSUME NEW s \in KnownPunctuators
  PROVE  \/ \E c \in OneCharPuncts : s = <<c>>
         \/ s \in TwoCharPuncts
         \/ s = <<".", ".", ".">>
BY Zenon DEF KnownPunctuators, Punctuators, OneCharPuncts, TwoCharPuncts

LEMMA TwoCharsAre ==
  ASSUME NEW s \in TwoCharPuncts
  PROVE  /\ Len(s) = 2
         /\ s[1] \in {"<", ">", "=", "!", "|", "&", "-", "+", "*"}
         /\ s[2] \in {"=", "|", "&", ">", "+", "-"}
<1>1. s[1] \in {"<", ">", "=", "!", "|", "&", "-", "+", "*"}
  BY DEF TwoCharPuncts
<1>2. s[2] \in {"=", "|", "&", ">", "+", "-"}
  BY DEF TwoCharPuncts
<1>3. Len(s) = 2
  BY DEF TwoCharPuncts
<1> QED
  BY <1>1, <1>2, <1>3, Zenon

LEMMA PunctuatorStarts ==
  ASSUME NEW s \in KnownPunctuators
  PROVE  s[1] \in PunctChars
<1>1. CASE \E c \in OneCharPuncts : s = <<c>>
  <2>1. PICK c \in OneCharPuncts : s = <<c>>
    BY <1>1
  <2>2. s[1] = c
    BY <2>1
  <2>3. c \in PunctChars
    BY DEF OneCharPuncts, PunctChars
  <2> QED
    BY <2>2, <2>3
<1>2. CASE s \in TwoCharPuncts
  <2>1. s[1] \in {"<", ">", "=", "!", "|", "&", "-", "+", "*"}
    BY <1>2, TwoCharsAre
  <2> QED
    BY <2>1 DEF PunctChars
<1>3. CASE s = <<".", ".", ".">>
  BY <1>3 DEF PunctChars
<1> QED
  BY <1>1, <1>2, <1>3, KnownIs

(* A gap, a word, a string, a character, a number and a punctuator differ  *)
(* in their first character, except that comments start like a slash.      *)
LEMMA KindByFirst ==
  ASSUME NEW s \in Seq(Byte), Len(s) >= 1, IsSupported(s)
  PROVE  /\ s[1] \in Blanks => Len(s) = 1 /\ IsGap(s)
         /\ s[1] \in Letters => IsWord(s)
         /\ s[1] \in Digits => IsNumber(s) /\ IsDecimal(s)
         /\ s[1] = "'" => IsChar(s) /\ IsKnownChar(s)
         /\ s[1] = QUOTE => IsString(s)
         /\ s[1] = "/" => \/ IsLineComment(s)
                          \/ IsBlockComment(s) /\ NUL \notin Range(s)
                          \/ s \in KnownPunctuators
         /\ s[1] \in PunctChars /\ s[1] # "/" => s \in KnownPunctuators
         /\ s[1] \in Blanks \cup WordChars \cup PunctChars \cup {"'", QUOTE}
<1>1. "/" \in PunctChars
  BY DEF PunctChars
<1>2. \/ IsWord(s) /\ s[1] \in Letters
      \/ IsString(s) /\ s[1] = QUOTE
      \/ IsGap(s) /\ Len(s) = 1 /\ s[1] \in Blanks
      \/ IsGap(s) /\ IsLineComment(s) /\ s[1] = "/"
      \/ IsGap(s) /\ IsBlockComment(s) /\ s[1] = "/" /\ NUL \notin Range(s)
      \/ IsNumber(s) /\ IsDecimal(s) /\ s[1] \in Digits
      \/ IsChar(s) /\ IsKnownChar(s) /\ s[1] = "'"
      \/ s \in KnownPunctuators /\ s[1] \in PunctChars
  <2>1. IsWord(s) => s[1] \in Letters
    BY Zenon DEF IsWord
  <2>2. IsString(s) => s[1] = QUOTE
    BY Zenon DEF IsString, Quoted
  <2>3. IsChar(s) => s[1] = "'"
    BY Zenon DEF IsChar, Quoted
  <2>4. IsNumber(s) /\ IsDecimal(s) => s[1] \in Digits
    <3> SUFFICES ASSUME IsNumber(s), IsDecimal(s), s[1] \notin Digits
                 PROVE  FALSE
      BY Zenon
    <3>1. s[1] = "." /\ Len(s) >= 2 /\ Range(s) \subseteq Digits
      BY Zenon DEF IsNumber, IsDecimal
    <3>2. s[1] \in Range(s)
      <4>1. 1 \in DOMAIN s
        BY LenProperties
      <4> QED
        BY <4>1, Zenon DEF Range
    <3> QED
      BY <3>1, <3>2
  <2>5. IsLineComment(s) => s[1] = "/"
    BY Zenon DEF IsLineComment
  <2>6. IsBlockComment(s) => s[1] = "/"
    BY Zenon DEF IsBlockComment
  <2>7. s \in KnownPunctuators => s[1] \in PunctChars
    BY PunctuatorStarts
  <2> QED
    BY <2>1, <2>2, <2>3, <2>4, <2>5, <2>6, <2>7, Zenon DEF IsSupported, IsGap
<1>3. s[1] \in Letters \cup Digits => s[1] \in WordChars
  BY CharsApart
<1> DEFINE c == s[1]
<1>4. /\ c \in Blanks => c \notin Letters /\ c \notin Digits /\ c \notin PunctChars
                         /\ c # "'" /\ c # QUOTE /\ c # "/"
      /\ c \in Letters => c \notin Digits /\ c \notin PunctChars
                         /\ c # "'" /\ c # QUOTE /\ c # "/"
      /\ c \in Digits => c \notin PunctChars /\ c # "'" /\ c # QUOTE /\ c # "/"
  <2> HIDE DEF c
  <2> QED
    BY <1>1, CharsApart
<1>5. /\ s[1] \in Blanks => Len(s) = 1 /\ IsGap(s)
      /\ s[1] \in Letters => IsWord(s)
      /\ s[1] \in Digits => IsNumber(s) /\ IsDecimal(s)
  BY <1>2, <1>4, Zenon
<1>6. /\ s[1] = "'" => IsChar(s) /\ IsKnownChar(s)
      /\ s[1] = QUOTE => IsString(s)
  BY <1>1, <1>2, <1>3, CharsApart, Zenon
<1>7. /\ s[1] = "/" => \/ IsLineComment(s)
                       \/ IsBlockComment(s) /\ NUL \notin Range(s)
                       \/ s \in KnownPunctuators
      /\ s[1] \in PunctChars /\ s[1] # "/" => s \in KnownPunctuators
  BY <1>1, <1>2, <1>3, CharsApart, Zenon
<1>8. s[1] \in Blanks \cup WordChars \cup PunctChars \cup {"'", QUOTE}
  BY <1>1, <1>2, <1>3, CharsApart, Zenon
<1> QED
  BY <1>5, <1>6, <1>7, <1>8, Zenon

(* The token of a lexeme, by its kind.                                     *)
LEMMA GapsMakeNothing ==
  ASSUME NEW s, IsGap(s)
  PROVE  Made(s) = <<>>
BY Zenon DEF Made

LEMMA NoGap ==
  ASSUME NEW s, s[1] \notin Blanks, s[1] # "/"
  PROVE  ~ IsGap(s)
BY Zenon DEF IsGap, IsLineComment, IsBlockComment

LEMMA WordsMake ==
  ASSUME NEW s, IsWord(s)
  PROVE  /\ s \in DOMAIN KeywordKind => Made(s) = <<Token(KeywordKind[s], s, 0)>>
         /\ s \notin DOMAIN KeywordKind => Made(s) = <<Token("TK_IDENT", s, 0)>>
<1>1. s[1] \in Letters
  BY Zenon DEF IsWord
<1>2. s[1] \notin Blanks /\ s[1] \notin PunctChars /\ s[1] # QUOTE /\ s[1] # "'"
  BY <1>1, CharsApart
<1>3. s[1] \notin Digits /\ s[1] # "/" /\ s[1] # "."
  BY <1>1, <1>2, CharsApart DEF PunctChars
<1>4. ~ IsGap(s)
  BY <1>2, <1>3, NoGap
<1>5. ~ IsString(s) /\ ~ IsNumber(s) /\ ~ IsChar(s)
  BY <1>2, <1>3, Zenon DEF IsString, IsChar, IsNumber, Quoted
<1>6. s \in DOMAIN KeywordKind => TokenOf(s) = Token(KeywordKind[s], s, 0)
  BY <1>5 DEF TokenOf
<1>7. s \notin DOMAIN KeywordKind => TokenOf(s) = Token("TK_IDENT", s, 0)
  BY <1>5 DEF TokenOf
<1> QED
  BY <1>4, <1>6, <1>7, Zenon DEF Made

LEMMA StringsMake ==
  ASSUME NEW s, IsString(s)
  PROVE  Made(s) = <<Token("TK_STRING", SubSeq(s, 2, Len(s) - 1), 0)>>
<1>1. s[1] = QUOTE
  BY Zenon DEF IsString, Quoted
<1>2. s[1] \notin Blanks /\ s[1] \notin PunctChars /\ s[1] \notin WordChars /\ s[1] # "'"
  BY <1>1, CharsApart, Zenon
<1>3. /\ s[1] \notin Letters /\ s[1] \notin Digits /\ s[1] # "/" /\ s[1] # "."
  BY <1>2, CharsApart DEF PunctChars
<1>4. ~ IsGap(s)
  BY <1>2, <1>3, NoGap
<1>5. ~ IsWord(s) /\ ~ IsNumber(s) /\ ~ IsChar(s)
  BY <1>2, <1>3, Zenon DEF IsWord, IsChar, IsNumber, Quoted
<1>6. TokenOf(s) = Token("TK_STRING", SubSeq(s, 2, Len(s) - 1), 0)
  BY <1>5 DEF TokenOf
<1> QED
  BY <1>4, <1>6, Zenon DEF Made

LEMMA NumbersMake ==
  ASSUME NEW s, IsNumber(s), s[1] \in Digits
  PROVE  Made(s) = <<Token("TK_NUM", <<>>, DecimalValue(s))>>
<1>1. s[1] \notin Blanks /\ s[1] \notin PunctChars /\ s[1] # QUOTE /\ s[1] # "'"
  BY CharsApart
<1>2. s[1] \notin Letters /\ s[1] # "/"
  BY <1>1, CharsApart DEF PunctChars
<1>3. ~ IsGap(s)
  BY <1>1, <1>2, NoGap
<1>4. ~ IsWord(s) /\ ~ IsString(s) /\ ~ IsChar(s)
  BY <1>1, <1>2, Zenon DEF IsWord, IsString, IsChar, Quoted
<1>5. TokenOf(s) = Token("TK_NUM", <<>>, DecimalValue(s))
  BY <1>4 DEF TokenOf
<1> QED
  BY <1>3, <1>5, Zenon DEF Made

LEMMA CharsMake ==
  ASSUME NEW s, IsChar(s)
  PROVE  Made(s) = <<Token("TK_NUM", <<>>,
                           IF Len(s) = 3 THEN Code[s[2]] ELSE Escapes[s[3]])>>
<1>1. s[1] = "'"
  BY Zenon DEF IsChar, Quoted
<1>2. s[1] \notin Blanks /\ s[1] \notin PunctChars /\ s[1] \notin WordChars /\ s[1] # QUOTE
  BY <1>1, CharsApart, Zenon
<1>3. s[1] \notin Letters /\ s[1] \notin Digits /\ s[1] # "/" /\ s[1] # "."
  BY <1>2, CharsApart DEF PunctChars
<1>4. ~ IsGap(s)
  BY <1>2, <1>3, NoGap
<1>5. ~ IsWord(s) /\ ~ IsString(s) /\ ~ IsNumber(s)
  BY <1>2, <1>3, Zenon DEF IsWord, IsString, IsNumber, Quoted
<1>6. TokenOf(s) =
        Token("TK_NUM", <<>>, IF Len(s) = 3 THEN Code[s[2]] ELSE Escapes[s[3]])
  <2> DEFINE v == IF Len(s) = 3 THEN Code[s[2]] ELSE Escapes[s[3]]
  <2> QED
    BY <1>5, Zenon DEF TokenOf
<1> QED
  BY <1>4, <1>6, Zenon DEF Made

LEMMA PunctuatorsMake ==
  ASSUME NEW s \in KnownPunctuators
  PROVE  Made(s) = <<Token("TK_PUNCT", s, 0)>>
<1>1. s[1] \in PunctChars
  BY PunctuatorStarts
<1>2. s[1] \notin Blanks /\ s[1] \notin WordChars /\ s[1] # QUOTE /\ s[1] # "'"
  BY <1>1, CharsApart
<1>3. s[1] \notin Letters /\ s[1] \notin Digits
  BY <1>2, CharsApart
<1>4. ~ IsWord(s) /\ ~ IsString(s) /\ ~ IsChar(s)
  BY <1>2, <1>3, Zenon DEF IsWord, IsString, IsChar, Quoted
<1>5. ~ IsNumber(s)
  <2> SUFFICES ASSUME s[1] = ".", Len(s) >= 2, s[2] \in Digits
               PROVE  FALSE
    BY <1>3, Zenon DEF IsNumber
  <2>1. CASE \E c \in OneCharPuncts : s = <<c>>
    <3>1. Len(s) = 1
      BY <2>1
    <3> QED
      BY <3>1
  <2>2. CASE s \in TwoCharPuncts
    <3>1. s[1] \in {"<", ">", "=", "!", "|", "&", "-", "+", "*"}
      BY <2>2, TwoCharsAre
    <3> QED
      BY <3>1
  <2>3. CASE s = <<".", ".", ".">>
    <3>1. s[2] = "." /\ "." \in PunctChars
      BY <2>3 DEF PunctChars
    <3> QED
      BY <3>1, CharsApart
  <2> QED
    BY <2>1, <2>2, <2>3, KnownIs
<1>6. ~ IsGap(s)
  <2>1. CASE s[1] # "/"
    BY <1>2, <2>1, NoGap
  <2>2. CASE s[1] = "/"
    <3>1. Len(s) = 1
      <4>1. CASE \E c \in OneCharPuncts : s = <<c>>
        BY <4>1
      <4>2. CASE s \in TwoCharPuncts
        <5>1. s[1] \in {"<", ">", "=", "!", "|", "&", "-", "+", "*"}
          BY <4>2, TwoCharsAre
        <5> QED
          BY <2>2, <5>1
      <4>3. CASE s = <<".", ".", ".">>
        BY <2>2, <4>3
      <4> QED
        BY <4>1, <4>2, <4>3, KnownIs
    <3> QED
      BY <1>2, <3>1 DEF IsGap, IsLineComment, IsBlockComment
  <2> QED
    BY <2>1, <2>2
<1>7. TokenOf(s) = Token("TK_PUNCT", s, 0)
  BY <1>4, <1>5 DEF TokenOf
<1> QED
  BY <1>6, <1>7, Zenon DEF Made

-----------------------------------------------------------------------------
(* The place of the scan in the text                                       *)

LEMMA TextIs ==
  ASSUME ReaderInv, LexerInv, pc = "returned"
  PROVE  /\ text \in Seq(Byte) /\ Len(text) \in Nat /\ Len(buf) = Len(text) + 1
         /\ buf \in Seq(Byte) /\ p \in 1 .. Len(text) + 1
         /\ \A k \in 1 .. Len(text) : text[k] = buf[k]
         /\ buf[Len(text) + 1] = NUL
         /\ Len(text) >= 1 => buf[Len(text)] = NL
         /\ buf[p] # NUL => p \in 1 .. Len(text)
<1> DEFINE n == Len(buf) - 1
<1>1. buf \in Seq(Byte) /\ n \in Nat /\ p \in 1 .. n + 1 /\ buf[n + 1] = NUL /\ Len(buf) = n + 1
  <2>1. /\ buf \in Seq(Byte) /\ Len(buf) \in Nat
        /\ p \in 1 .. Len(buf) /\ buf[Len(buf)] = NUL
    BY LexerStarts
  <2>2. n \in Nat /\ n + 1 = Len(buf)
    BY <2>1
  <2> QED
    BY <2>1, <2>2, Zenon
<1>2. n >= 1 => buf[n] = NL
  <2>1. TextTerminated
    BY DEF ReaderInv
  <2>2. CASE buf = <<NUL>>
    <3>1. Len(buf) = 1
      BY <2>2
    <3> QED
      BY <3>1
  <2> QED
    BY <2>1, <2>2 DEF TextTerminated
<1>3. \A k \in 1 .. n : buf[k] \in Byte
  <2> HIDE DEF n
  <2> TAKE k \in 1 .. n
  <2>1. k \in 1 .. Len(buf)
    BY <1>1
  <2> QED
    BY <1>1, <2>1, ElementOfSeq
<1>4. /\ text \in Seq(Byte)
      /\ Len(text) = IF 1 <= n THEN n - 1 + 1 ELSE 0
      /\ \A k \in 1 .. n - 1 + 1 : text[k] = buf[1 + k - 1]
  <2>1. text = SubSeq(buf, 1, n)
    BY DEF text
  <2> HIDE DEF n
  <2> QED
    BY <1>1, <1>3, <2>1, SubSeqProperties
<1> HIDE DEF n
<1>5. n - 1 + 1 = n /\ \A k \in 1 .. n : 1 + k - 1 = k
  BY <1>1
<1>6. Len(text) = n /\ \A k \in 1 .. n : text[k] = buf[k]
  BY <1>1, <1>4, <1>5
<1>7. buf[p] # NUL => p \in 1 .. n
  <2> SUFFICES ASSUME buf[p] # NUL
               PROVE  p \in 1 .. n
    OBVIOUS
  <2>1. p # n + 1
    BY <1>1
  <2> QED
    BY <1>1, <2>1
<1> QED
  BY <1>1, <1>2, <1>4, <1>6, <1>7, Zenon

(* What has been made and what the rest of the text gives are the tokens   *)
(* of the text.                                                            *)
OnCourse ==
  /\ tokens \o TokensFrom(text)[p] = TokensOf(text)
  /\ Range(LexemesFrom(text)[p]) \subseteq Range(LexemesOf(text))

(* The lexeme the scan stands at.                                          *)
HereEnd == LexemeEnd(text, p)
Here    == SubSeq(text, p, HereEnd)

LEMMA HereIs ==
  ASSUME ReaderInv, LexerInv, pc = "returned", IsSupportedText(text), OnCourse,
         buf[p] # NUL
  PROVE  /\ p \in 1 .. Len(text) /\ HereEnd \in p .. Len(text)
         /\ p \in Nat /\ HereEnd \in Nat /\ Len(text) \in Nat
         /\ HereEnd + 1 \in 1 .. Len(text) + 1
         /\ Here \in Seq(Byte) /\ Len(Here) = HereEnd - p + 1 /\ Len(Here) >= 1
         /\ \A k \in 1 .. Len(Here) : p + k - 1 \in 1 .. Len(text) /\ Here[k] = buf[p + k - 1]
         /\ Here[1] = buf[p]
         /\ IsSupported(Here) /\ Here \in Range(LexemesOf(text))
         /\ TokensFrom(text)[p] = Made(Here) \o TokensFrom(text)[HereEnd + 1]
         /\ Range(LexemesFrom(text)[HereEnd + 1]) \subseteq Range(LexemesOf(text))
<1> DEFINE n == Len(text)
           e == HereEnd
           s == Here
<1>1. /\ text \in Seq(Byte) /\ n \in Nat /\ p \in 1 .. n
      /\ \A k \in 1 .. n : text[k] = buf[k]
  BY TextIs
<1>2. \A x \in Range(LexemesFrom(text)[p]) : x # <<>> /\ IsSupported(x)
  BY Zenon DEF OnCourse, IsSupportedText
<1>3. /\ e \in p .. n /\ e + 1 \in 1 .. n + 1
      /\ IsSupported(s) /\ s \in Range(LexemesFrom(text)[p])
      /\ TokensFrom(text)[p] = Made(s) \o TokensFrom(text)[e + 1]
      /\ Range(LexemesFrom(text)[e + 1]) \subseteq Range(LexemesFrom(text)[p])
  BY <1>1, <1>2, FirstLexeme, Zenon DEF HereEnd, Here
<1>4. /\ s \in Range(LexemesOf(text))
      /\ Range(LexemesFrom(text)[e + 1]) \subseteq Range(LexemesOf(text))
  BY <1>3, Zenon DEF OnCourse
<1>5. /\ s \in Seq(Byte) /\ Len(s) = e - p + 1
      /\ \A k \in 1 .. e - p + 1 : s[k] = text[p + k - 1]
  BY <1>1, <1>3, PieceIs, Zenon DEF Here
<1> HIDE DEF n, e, s
<1>6. Len(s) >= 1 /\ 1 \in 1 .. e - p + 1 /\ p + 1 - 1 = p
  BY <1>1, <1>3, <1>5
<1>7. \A k \in 1 .. Len(s) : p + k - 1 \in 1 .. n /\ s[k] = buf[p + k - 1]
  <2> TAKE k \in 1 .. Len(s)
  <2>1. p + k - 1 \in 1 .. n /\ k \in 1 .. e - p + 1
    BY <1>1, <1>3, <1>5
  <2> QED
    BY <1>1, <1>5, <2>1
<1>8. s[1] = buf[p]
  BY <1>5, <1>6, <1>7
<1>9. p \in Nat /\ e \in Nat
  BY <1>1, <1>3
<1> QED
  BY <1>1, <1>3, <1>4, <1>5, <1>6, <1>7, <1>8, <1>9, Zenon DEF n, e, s

LEMMA JoinedTwice ==
  ASSUME NEW S, NEW T, NEW a \in Seq(S), NEW b \in Seq(T), NEW c \in Seq(T)
  PROVE  (a \o b) \o c = a \o (b \o c)
<1> DEFINE U == S \cup T
<1>1. S \subseteq U /\ T \subseteq U
  OBVIOUS
<1> HIDE DEF U
<1>2. a \in Seq(U) /\ b \in Seq(U) /\ c \in Seq(U)
  BY <1>1, SeqMonotonic
<1> QED
  BY <1>2, ConcatAssociative

(* A step that makes of the lexeme here what is to be made of it stays on  *)
(* course.                                                                 *)
LEMMA StepsOn ==
  ASSUME ReaderInv, LexerInv, pc = "returned", UNCHANGED readerVars,
         IsSupportedText(text), OnCourse, buf[p] # NUL,
         p' = HereEnd + 1, tokens' = tokens \o Made(Here)
  PROVE  OnCourse'
<1> DEFINE f == TokensFrom(text)
           q == HereEnd + 1
           m == Made(Here)
<1>1. text' = text
  BY DEF text, readerVars
<1>2. /\ q \in 1 .. Len(text) + 1 /\ f[p] = m \o f[q]
      /\ Range(LexemesFrom(text)[q]) \subseteq Range(LexemesOf(text))
      /\ Here \in Seq(Byte)
  BY HereIs
<1>3. f[q] \in Seq(CTokens)
  <2>1. text \in Seq(Byte)
    BY TextIs
  <2>2. f \in [1 .. Len(text) + 1 -> Seq(CTokens)]
    BY <2>1, TokensFromIs
  <2> HIDE DEF f, q
  <2> QED
    BY <1>2, <2>2
<1>4. m \in Seq(CTokens)
  <2> DEFINE k == TokenOf(Here)
  <2>1. k \in CTokens
    BY <1>2, Zenon DEF CTokens
  <2>2. <<>> \in Seq(CTokens) /\ <<k>> \in Seq(CTokens)
    <3> HIDE DEF k
    <3> QED
      BY <2>1, EmptySeq
  <2> QED
    BY <2>2, Zenon DEF Made
<1>5. tokens \in Seq(TokenSet)
  BY LexerStarts
<1>6. (tokens \o m) \o f[q] = tokens \o (m \o f[q])
  <2> HIDE DEF f, q, m
  <2>1. \A a \in Seq(TokenSet), b \in Seq(CTokens), c \in Seq(CTokens) :
          (a \o b) \o c = a \o (b \o c)
    BY JoinedTwice
  <2> QED
    BY <1>3, <1>4, <1>5, <2>1, Zenon
<1>7. tokens' \o f[p'] = TokensOf(text)
  BY <1>2, <1>6, Zenon DEF OnCourse
<1> QED
  BY <1>1, <1>2, <1>7, Zenon DEF OnCourse

-----------------------------------------------------------------------------
(* Escapes                                                                 *)

LEMMA MaxFromZero ==
  ASSUME NEW n \in Nat, NEW I \in SUBSET (0 .. n), NEW m \in I, \A i \in I : i <= m
  PROVE  Max(I) = m
<1>1. \A i \in I : m >= i
  OBVIOUS
<1>2. Max(I) \in I /\ \A i \in I : Max(I) >= i
  BY <1>1, Zenon DEF Max
<1>3. Max(I) \in 0 .. n /\ m \in 0 .. n /\ Max(I) >= m /\ m >= Max(I)
  BY <1>1, <1>2
<1> DEFINE x == Max(I)
<1> HIDE DEF x
<1> QED
  BY <1>3 DEF x

(* The lengths of the runs of backslashes in front of a place.             *)
Runs(s, i) == {k \in 0 .. i - 1 : \A j \in i - k .. i - 1 : s[j] = "\\"}

LEMMA RunsEnd ==
  ASSUME NEW s, NEW i \in Nat \ {0}
  PROVE  \E m \in Runs(s, i) : \A k \in Runs(s, i) : k <= m
<1> DEFINE R == Runs(s, i)
           J == {i - k : k \in R}
<1>1. 0 \in R
  BY DEF Runs
<1>2. R \in SUBSET (0 .. i - 1)
  BY DEF Runs
<1> HIDE DEF R
<1>3. J \in SUBSET Nat /\ J # {}
  BY <1>1, <1>2
<1>4. Min(J) \in J /\ \A j \in J : Min(J) <= j
  <2> HIDE DEF J
  <2> QED
    BY <1>3, MinOfInterval
<1>5. PICK m \in R : Min(J) = i - m
  BY <1>4
<1>6. ASSUME NEW k \in R
      PROVE  k <= m
  <2>1. i - m <= i - k
    BY <1>4, <1>5
  <2>2. k \in Nat /\ m \in Nat
    BY <1>2
  <2> QED
    BY <2>1, <2>2
<1> QED
  BY <1>6 DEF R

LEMMA EscapedIs ==
  ASSUME NEW s, NEW i \in Nat \ {0}, NEW m \in Runs(s, i),
         \A k \in Runs(s, i) : k <= m
  PROVE  IsEscaped(s, i) <=> m % 2 = 1
<1>1. Runs(s, i) \in SUBSET (0 .. i - 1) /\ i - 1 \in Nat
  BY DEF Runs
<1>2. Max(Runs(s, i)) = m
  BY <1>1, MaxFromZero
<1>3. IsEscaped(s, i) <=> Max(Runs(s, i)) % 2 = 1
  BY Zenon DEF IsEscaped, Runs
<1> QED
  BY <1>2, <1>3, Zenon

(* Behind any other character nothing is escaped, behind a backslash it is *)
(* unless the backslash is.                                                *)
LEMMA EscapedByBackslash ==
  ASSUME NEW s, NEW i \in Nat, i >= 2
  PROVE  /\ s[i - 1] # "\\" => ~ IsEscaped(s, i)
         /\ s[i - 1] = "\\" => (IsEscaped(s, i) <=> ~ IsEscaped(s, i - 1))
<1>1. i \in Nat \ {0} /\ i - 1 \in Nat \ {0}
  OBVIOUS
<1>2. ASSUME s[i - 1] # "\\"
      PROVE  ~ IsEscaped(s, i)
  <2>1. 0 \in Runs(s, i)
    BY DEF Runs
  <2>2. ASSUME NEW k \in Runs(s, i)
        PROVE  k <= 0
    <3>1. k \in 0 .. i - 1 /\ \A j \in i - k .. i - 1 : s[j] = "\\"
      BY DEF Runs
    <3>2. CASE k > 0
      <4>1. i - 1 \in i - k .. i - 1
        BY <3>1, <3>2
      <4> QED
        BY <1>2, <3>1, <4>1
    <3> QED
      BY <3>1, <3>2
  <2>3. IsEscaped(s, i) <=> 0 % 2 = 1
    BY <1>1, <2>1, <2>2, EscapedIs
  <2> QED
    BY <2>3
<1>3. ASSUME s[i - 1] = "\\"
      PROVE  IsEscaped(s, i) <=> ~ IsEscaped(s, i - 1)
  <2>1. PICK m \in Runs(s, i - 1) : \A k \in Runs(s, i - 1) : k <= m
    BY <1>1, RunsEnd
  <2>2. m \in 0 .. i - 2 /\ \A j \in i - 1 - m .. i - 2 : s[j] = "\\"
    <3>1. m \in 0 .. i - 1 - 1 /\ \A j \in i - 1 - m .. i - 1 - 1 : s[j] = "\\"
      BY Zenon DEF Runs
    <3>2. i - 1 - 1 = i - 2
      OBVIOUS
    <3> QED
      BY <3>1, <3>2
  <2>3. m + 1 \in Runs(s, i)
    <3>1. ASSUME NEW j \in i - (m + 1) .. i - 1
          PROVE  s[j] = "\\"
      <4>1. j = i - 1 \/ j \in i - 1 - m .. i - 2
        BY <2>2
      <4> QED
        BY <1>3, <2>2, <4>1
    <3>2. m + 1 \in 0 .. i - 1
      BY <2>2
    <3> QED
      BY <3>1, <3>2 DEF Runs
  <2>4. ASSUME NEW k \in Runs(s, i)
        PROVE  k <= m + 1
    <3>1. k \in 0 .. i - 1 /\ \A j \in i - k .. i - 1 : s[j] = "\\"
      BY DEF Runs
    <3>2. CASE k = 0
      BY <2>2, <3>2
    <3>3. CASE k # 0
      <4>1. /\ k - 1 \in 0 .. (i - 1) - 1
            /\ (i - 1) - (k - 1) = i - k
            /\ \A j \in i - k .. (i - 1) - 1 : j \in i - k .. i - 1
        BY <3>1, <3>3
      <4>2. \A j \in (i - 1) - (k - 1) .. (i - 1) - 1 : s[j] = "\\"
        BY <3>1, <4>1
      <4>3. k - 1 \in Runs(s, i - 1)
        BY <4>1, <4>2, Zenon DEF Runs
      <4>4. k - 1 <= m
        BY <2>1, <4>3
      <4> QED
        BY <2>2, <3>1, <4>4
    <3> QED
      BY <3>2, <3>3
  <2>5. IsEscaped(s, i) <=> (m + 1) % 2 = 1
    BY <1>1, <2>3, <2>4, EscapedIs
  <2>6. IsEscaped(s, i - 1) <=> m % 2 = 1
    BY <1>1, <2>1, EscapedIs
  <2>7. (m + 1) % 2 = 1 <=> ~ (m % 2 = 1)
    BY <2>2
  <2> QED
    BY <2>5, <2>6, <2>7, Zenon
<1> QED
  BY <1>2, <1>3, Zenon

-----------------------------------------------------------------------------
(* The scan for the end of a string                                        *)

(* The escapes the loop in tokenize does not see do no harm.               *)
Harmless(s, missed) ==
  /\ AreOverlooked(s, missed)
  /\ \A i \in missed : s[i + 1] \notin {QUOTE, "\\"}

(* What the loop may take for granted of the place it looks at, and of the *)
(* one before: an escape that begins there is one it does not see.         *)
SeenBut(s, missed, i) ==
  /\ i \in 2 .. Len(s)
  /\ IsEscaped(s, i) => s[i] # QUOTE /\ s[i] # "\\"
  /\ s[i] = "\\" => i \in missed
  /\ i - 1 \in EscapesIn(s) => i - 1 \in missed

Seen(s, i) ==
  \E missed \in SUBSET EscapesIn(s) : Harmless(s, missed) /\ SeenBut(s, missed, i)

LEMMA EscapeIs ==
  ASSUME NEW s, NEW i
  PROVE  i \in EscapesIn(s) <=> i \in 2 .. Len(s) - 1 /\ s[i] = "\\" /\ ~ IsEscaped(s, i)
BY DEF EscapesIn

LEMMA OverlookedIs ==
  ASSUME NEW s, NEW missed, AreOverlooked(s, missed), NEW i
  PROVE  i \in missed <=>
           i \in EscapesIn(s) /\ (i = 2 \/ i - 2 \in EscapesIn(s) \ missed)
<1> DEFINE All == {k \in EscapesIn(s) : k = 2 \/ k - 2 \in EscapesIn(s) \ missed}
<1>1. missed = All
  BY Zenon DEF AreOverlooked
<1>2. i \in All <=> i \in EscapesIn(s) /\ (i = 2 \/ i - 2 \in EscapesIn(s) \ missed)
  BY Zenon
<1> HIDE DEF All
<1> QED
  BY <1>1, <1>2, Zenon

LEMMA StringIs ==
  ASSUME NEW s, IsString(s)
  PROVE  /\ Len(s) >= 2 /\ s[1] = QUOTE /\ s[Len(s)] = QUOTE
         /\ \A i \in 2 .. Len(s) : s[i] = QUOTE => (i = Len(s) <=> ~ IsEscaped(s, i))
<1>1. Len(s) >= 2 /\ s[1] = QUOTE /\ s[Len(s)] = QUOTE
  BY Zenon DEF IsString, Quoted
<1>2. ASSUME NEW i \in 2 .. Len(s), s[i] = QUOTE
      PROVE  i = Len(s) <=> ~ IsEscaped(s, i)
  <2>1. (i = Len(s)) # IsEscaped(s, i)
    BY <1>2, Zenon DEF IsString, Quoted
  <2>2. IsEscaped(s, i) \in BOOLEAN
    BY Zenon DEF IsEscaped
  <2> QED
    BY <2>1, <2>2, Zenon
<1> QED
  BY <1>1, <1>2, Zenon

LEMMA ScanStarts ==
  ASSUME NEW s \in Seq(Byte), IsString(s), ~ HidesEscape(s)
  PROVE  Seen(s, 2)
<1>1. Len(s) \in Nat /\ Len(s) >= 2 /\ s[1] = QUOTE
  BY LenProperties, StringIs
<1>2. ~ IsEscaped(s, 2)
  <2>1. 2 - 1 = 1 /\ 2 \in Nat /\ 2 >= 2
    OBVIOUS
  <2>2. s[2 - 1] # "\\"
    BY <1>1, <2>1, CharsApart
  <2> QED
    BY <2>1, <2>2, EscapedByBackslash
<1>3. 2 \in 2 .. Len(s) /\ 2 - 1 \notin EscapesIn(s)
  BY <1>1 DEF EscapesIn
<1>4. PICK missed \in SUBSET EscapesIn(s) : Harmless(s, missed)
  BY Zenon DEF HidesEscape, Harmless
<1>5. s[2] = "\\" => 2 \in missed
  <2> SUFFICES ASSUME s[2] = "\\"
               PROVE  2 \in missed
    OBVIOUS
  <2>1. s[Len(s)] = QUOTE
    BY StringIs
  <2>2. 2 # Len(s)
    <3>1. QUOTE # "\\"
      BY CharsApart
    <3> QED
      BY <2>1, <3>1, Zenon
  <2>3. 2 \in 2 .. Len(s) - 1
    <3> DEFINE n == Len(s)
    <3>1. n \in Nat /\ n >= 2 /\ 2 # n
      BY <1>1, <2>2, Zenon
    <3> HIDE DEF n
    <3>2. 2 \in 2 .. n - 1
      BY <3>1
    <3> QED
      BY <3>2 DEF n
  <2>4. 2 \in EscapesIn(s)
    BY <1>2, <2>3, EscapeIs
  <2>5. AreOverlooked(s, missed)
    BY <1>4, Zenon DEF Harmless
  <2> QED
    BY <2>4, <2>5, OverlookedIs
<1> QED
  BY <1>2, <1>3, <1>4, <1>5, Zenon DEF Seen, SeenBut

LEMMA ScanEnds ==
  ASSUME NEW s \in Seq(Byte), IsString(s), NEW i, Seen(s, i), s[i] = QUOTE
  PROVE  i = Len(s)
BY StringIs, Zenon DEF Seen, SeenBut

LEMMA ScanGoesOn ==
  ASSUME NEW s \in Seq(Byte), IsString(s),
         NEW i, Seen(s, i), s[i] # QUOTE
  PROVE  /\ i + 1 \in 2 .. Len(s)
         /\ s[i + 1] = "\\" => Seen(s, i + 3)
         /\ s[i + 1] # "\\" => Seen(s, i + 1)
<1> DEFINE n == Len(s)
<1>1. /\ n \in Nat /\ n >= 2 /\ s[n] = QUOTE
      /\ \A k \in 2 .. n : s[k] = QUOTE => (k = n <=> ~ IsEscaped(s, k))
  BY LenProperties, StringIs
<1>0. PICK missed \in SUBSET EscapesIn(s) :
        Harmless(s, missed) /\ SeenBut(s, missed, i)
  BY Zenon DEF Seen
<1>2. /\ i \in 2 .. n
      /\ IsEscaped(s, i) => s[i] # QUOTE /\ s[i] # "\\"
      /\ s[i] = "\\" => i \in missed
      /\ i - 1 \in EscapesIn(s) => i - 1 \in missed
  BY <1>0, Zenon DEF SeenBut
<1> HIDE DEF n
<1>3. i \in Nat /\ i >= 2 /\ i + 1 \in 2 .. n /\ i + 1 >= 2 /\ i + 1 - 1 = i
  <2>1. i # n
    BY <1>1
  <2> QED
    BY <1>1, <1>2, <2>1
<1>4. /\ s[i] # "\\" => ~ IsEscaped(s, i + 1)
      /\ s[i] = "\\" => (IsEscaped(s, i + 1) <=> ~ IsEscaped(s, i))
  <2> DEFINE k == i + 1
  <2>1. k \in Nat /\ k >= 2 /\ k - 1 = i
    BY <1>3
  <2> HIDE DEF k
  <2>2. /\ s[k - 1] # "\\" => ~ IsEscaped(s, k)
        /\ s[k - 1] = "\\" => (IsEscaped(s, k) <=> ~ IsEscaped(s, k - 1))
    BY <2>1, EscapedByBackslash, Zenon
  <2> QED
    BY <2>1, <2>2, Zenon DEF k
<1>5. s[i] = "\\" => s[i + 1] # QUOTE /\ s[i + 1] # "\\"
  BY <1>0, <1>2, Zenon DEF Harmless
<1>6. ASSUME s[i + 1] = "\\"
      PROVE  Seen(s, i + 3)
  <2>1. i + 1 # n
    BY <1>1, <1>6, CharsApart
  <2>2. s[i] # "\\"
    BY <1>5, <1>6, <2>1
  <2>3. ~ IsEscaped(s, i + 1)
    BY <1>4, <2>2
  <2> DEFINE k == i + 2
             l == i + 3
  <2>4. /\ k \in Nat /\ k >= 2 /\ k - 1 = i + 1 /\ k \in 2 .. n
        /\ l \in Nat /\ l >= 2 /\ l - 1 = k /\ l - 2 = i + 1
    BY <1>1, <1>3, <2>1
  <2> HIDE DEF k, l
  <2>5. IsEscaped(s, k)
    <3>1. s[k - 1] = "\\" => (IsEscaped(s, k) <=> ~ IsEscaped(s, k - 1))
      BY <2>4, EscapedByBackslash, Zenon
    <3> QED
      BY <1>6, <2>3, <2>4, <3>1, Zenon
  <2>6. k # n
    BY <1>1, <2>4, <2>5, Zenon
  <2>7. l \in 2 .. n
    BY <1>1, <2>4, <2>6
  <2>8. ~ IsEscaped(s, l)
    <3>1. /\ s[l - 1] # "\\" => ~ IsEscaped(s, l)
          /\ s[l - 1] = "\\" => (IsEscaped(s, l) <=> ~ IsEscaped(s, l - 1))
      BY <2>4, EscapedByBackslash, Zenon
    <3> QED
      BY <2>4, <2>5, <3>1, Zenon
  <2>10. s[l] = "\\" => l \in missed
    <3> SUFFICES ASSUME s[l] = "\\"
                 PROVE  l \in missed
      OBVIOUS
    <3>1. l # n
      BY <1>1, CharsApart
    <3>2. l \in 2 .. n - 1 /\ i + 1 \in 2 .. n - 1
      BY <1>1, <1>3, <2>1, <2>7, <3>1
    <3>3. l \in EscapesIn(s) /\ i + 1 \in EscapesIn(s)
      BY <1>6, <2>3, <2>8, <3>2, EscapeIs DEF n
    <3>6. AreOverlooked(s, missed)
      BY <1>0, Zenon DEF Harmless
    <3>4. i + 1 \notin missed
      <4>1. i + 1 # 2 /\ (i + 1) - 2 = i - 1
        BY <1>3
      <4>2. i - 1 \notin EscapesIn(s) \ missed
        BY <1>2, Zenon
      <4>3. ~ (i + 1 = 2 \/ (i + 1) - 2 \in EscapesIn(s) \ missed)
        BY <4>1, <4>2, Zenon
      <4> QED
        BY <3>6, <4>3, OverlookedIs, Zenon
    <3>5. l - 2 \in EscapesIn(s) \ missed
      BY <2>4, <3>3, <3>4, Zenon
    <3> QED
      BY <3>3, <3>5, <3>6, OverlookedIs, Zenon
  <2>11. l - 1 \notin EscapesIn(s)
    BY <2>4, <2>5, Zenon DEF EscapesIn
  <2>12. SeenBut(s, missed, l)
    BY <2>7, <2>8, <2>10, <2>11, Zenon DEF SeenBut, n
  <2>9. Seen(s, l)
    BY <1>0, <2>12, Zenon DEF Seen
  <2> QED
    BY <2>9 DEF l
<1>7. ASSUME s[i + 1] # "\\"
      PROVE  Seen(s, i + 1)
  <2>1. s[i + 1] = QUOTE => ~ IsEscaped(s, i + 1)
    <3> SUFFICES ASSUME s[i + 1] = QUOTE, IsEscaped(s, i + 1)
                 PROVE  FALSE
      BY Zenon
    <3>1. s[i] = "\\"
      BY <1>4, Zenon
    <3> QED
      BY <1>5, <3>1, Zenon
  <2>2. (i + 1) - 1 \in EscapesIn(s) => (i + 1) - 1 \in missed
    <3>1. (i + 1) - 1 = i
      BY <1>3
    <3>2. i \in EscapesIn(s) => i \in missed
      BY <1>2, EscapeIs
    <3> QED
      BY <3>1, <3>2, Zenon
  <2>3. SeenBut(s, missed, i + 1)
    BY <1>3, <1>7, <2>1, <2>2, Zenon DEF SeenBut, n
  <2> QED
    BY <1>0, <2>3, Zenon DEF Seen
<1> QED
  BY <1>3, <1>6, <1>7, Zenon DEF n

-----------------------------------------------------------------------------
(* What each step makes of the lexeme it stands at                         *)

Ready ==
  /\ ReaderInv /\ LexerInv /\ pc = "returned"
  /\ IsSupportedText(text) /\ ~ HasHiddenEscape /\ OnCourse

LEMMA NothingMade ==
  ASSUME Ready, IsGap(Here), tokens' = tokens
  PROVE  tokens' = tokens \o Made(Here)
<1>1. Made(Here) = <<>>
  BY GapsMakeNothing
<1>2. tokens \in Seq(TokenSet)
  BY LexerStarts DEF Ready
<1>3. tokens \o <<>> = tokens
  BY <1>2, ConcatEmptySeq
<1> QED
  BY <1>1, <1>3, Zenon

LEMMA OneMade ==
  ASSUME Ready, NEW kind, NEW spelling, NEW val,
         Made(Here) = <<Token(kind, spelling, val)>>, new_token(kind, spelling, val)
  PROVE  tokens' = tokens \o Made(Here)
<1> DEFINE tok == Token(kind, spelling, val)
           S   == TokenSet \cup {tok}
<1>1. tokens' = Append(tokens, tok)
  BY Zenon DEF new_token
<1>2. tokens \in Seq(TokenSet)
  BY LexerStarts DEF Ready
<1>3. TokenSet \subseteq S /\ tok \in S
  BY Zenon
<1> HIDE DEF S, tok
<1>4. tokens \in Seq(S)
  BY <1>2, <1>3, SeqMonotonic
<1>5. Append(tokens, tok) = tokens \o <<tok>>
  BY <1>3, <1>4, AppendIsConcat
<1> QED
  BY <1>1, <1>5, Zenon DEF tok

(* The buffer and the text have the same pieces.                           *)
LEMMA SamePiece ==
  ASSUME ReaderInv, LexerInv, pc = "returned",
         NEW i \in 1 .. Len(text), NEW j \in i .. Len(text)
  PROVE  SubSeq(buf, i, j) = SubSeq(text, i, j)
<1> DEFINE n == Len(text)
           u == SubSeq(buf, i, j)
           v == SubSeq(text, i, j)
<1>1. /\ text \in Seq(Byte) /\ n \in Nat /\ buf \in Seq(Byte) /\ Len(buf) = n + 1
      /\ \A k \in 1 .. n : text[k] = buf[k]
  BY TextIs
<1>2. i \in 1 .. Len(buf) /\ j \in i .. Len(buf)
  <2> HIDE DEF n
  <2>1. i \in 1 .. n /\ j \in i .. n
    BY DEF n
  <2> QED
    BY <1>1, <2>1
<1>3. u \in Seq(Byte) /\ Len(u) = j - i + 1 /\ \A k \in 1 .. j - i + 1 : u[k] = buf[i + k - 1]
  BY <1>1, <1>2, PieceIs, Zenon
<1>4. v \in Seq(Byte) /\ Len(v) = j - i + 1 /\ \A k \in 1 .. j - i + 1 : v[k] = text[i + k - 1]
  BY <1>1, PieceIs, Zenon
<1>5. i \in 1 .. n /\ j \in i .. n
  OBVIOUS
<1> HIDE DEF n, u, v
<1>6. \A k \in 1 .. Len(u) : u[k] = v[k]
  <2> TAKE k \in 1 .. Len(u)
  <2>1. k \in 1 .. j - i + 1 /\ i + k - 1 \in 1 .. n
    BY <1>1, <1>3, <1>5
  <2> QED
    BY <1>1, <1>3, <1>4, <2>1
<1>7. u = v
  BY <1>3, <1>4, <1>6, SeqEqual
<1> QED
  BY <1>7 DEF u, v

LEMMA StartsWithPiece ==
  ASSUME ReaderInv, LexerInv, pc = "returned",
         NEW s, Len(s) \in Nat \ {0}, s[Len(s)] # NUL, buf[p] # NUL
  PROVE  StartsWith(s) <=>
           p + (Len(s) - 1) <= Len(text) /\ SubSeq(text, p, p + (Len(s) - 1)) = s
<1> DEFINE n == Len(text)
           k == p + (Len(s) - 1)
           M == {p + Len(s) - 1, Len(buf)}
<1>1. /\ text \in Seq(Byte) /\ n \in Nat /\ buf \in Seq(Byte) /\ Len(buf) = n + 1
      /\ p \in 1 .. n /\ buf[n + 1] = NUL
  BY TextIs
<1>2. k \in Nat /\ k >= p /\ p + Len(s) - 1 = k
  BY <1>1
<1> HIDE DEF n, k
<1>3. ASSUME k <= n
      PROVE  SubSeq(buf, p, Min(M)) = SubSeq(text, p, k)
  <2>1. M \in SUBSET Nat /\ M # {} /\ M = {k, n + 1}
    BY <1>1, <1>2
  <2>2. Min(M) \in M /\ \A x \in M : Min(M) <= x
    <3> HIDE DEF M
    <3> QED
      BY <2>1, MinOfInterval
  <2>3. Min(M) = k
    <3> DEFINE m == Min(M)
    <3> HIDE DEF m, M
    <3>1. m \in {k, n + 1} /\ m <= k
      BY <2>1, <2>2 DEF m
    <3>2. m = k
      BY <1>1, <1>2, <1>3, <3>1
    <3> QED
      BY <3>2 DEF m
  <2>4. k \in p .. Len(text) /\ p \in 1 .. Len(text)
    BY <1>1, <1>2, <1>3 DEF n
  <2>5. SubSeq(buf, p, k) = SubSeq(text, p, k)
    BY <2>4, SamePiece
  <2> QED
    BY <2>3, <2>5
<1>4. ASSUME StartsWith(s)
      PROVE  k <= n
  <2>1. p \in 1 .. Len(buf)
    BY <1>1
  <2>2. k \in 1 .. Len(buf) /\ buf[k] = s[Len(s)]
    BY <1>1, <1>4, <2>1, StartsWithIs DEF k
  <2>3. k # n + 1
    BY <1>1, <2>2
  <2> QED
    BY <1>1, <2>2, <2>3
<1>5. StartsWith(s) <=> SubSeq(buf, p, Min(M)) = s
  BY Zenon DEF StartsWith
<1> QED
  BY <1>3, <1>4, <1>5, Zenon DEF n, k

LEMMA SpaceTakes ==
  ASSUME Ready, Space
  PROVE  p' = HereEnd + 1 /\ tokens' = tokens \o Made(Here)
<1>1. buf[p] # NUL /\ buf[p] \in Blanks /\ p' = p + 1 /\ tokens' = tokens
  BY Zenon DEF Space, Scanning, isspace, AfterSpace
<1>2. /\ p \in Nat /\ HereEnd \in Nat
      /\ Here \in Seq(Byte) /\ Len(Here) = HereEnd - p + 1 /\ Len(Here) >= 1
      /\ Here[1] = buf[p] /\ IsSupported(Here)
  BY <1>1, HereIs, Zenon DEF Ready
<1>3. Len(Here) = 1 /\ IsGap(Here)
  BY <1>1, <1>2, KindByFirst
<1>4. tokens' = tokens \o Made(Here)
  BY <1>1, <1>3, NothingMade
<1>5. HereEnd = p
  <2> DEFINE e == HereEnd
  <2>1. p \in Nat /\ e \in Nat /\ 1 = e - p + 1
    BY <1>2, <1>3, Zenon
  <2> HIDE DEF e
  <2>2. e = p
    BY <2>1
  <2> QED
    BY <2>2 DEF e
<1> QED
  BY <1>1, <1>4, <1>5, Zenon

(* The longest lexeme is as long as any piece that could be one.           *)
LEMMA Longest ==
  ASSUME Ready, buf[p] # NUL, NEW j \in p .. Len(text), Fits(text, p, j)
  PROVE  j <= HereEnd
<1>1. text \in Seq(Byte) /\ p \in 1 .. Len(text)
  BY TextIs DEF Ready
<1> QED
  BY <1>1, LexemeEndIs DEF HereEnd

LEMMA HereFits ==
  ASSUME Ready, buf[p] # NUL
  PROVE  Fits(text, p, HereEnd)
<1>1. text \in Seq(Byte) /\ p \in 1 .. Len(text)
  BY TextIs DEF Ready
<1>2. HereEnd \in p .. Len(text) /\ p \in Nat /\ HereEnd \in Nat
  BY HereIs, Zenon DEF Ready
<1>3. HereEnd # 0
  BY <1>1, <1>2
<1> QED
  BY <1>1, <1>3, LexemeEndIs DEF HereEnd

(* A run that is a lexeme and the lexeme here, whose characters are of the *)
(* run's, are the same.                                                    *)
LEMMA RunIsHere ==
  ASSUME Ready, buf[p] # NUL, NEW chars, NUL \notin chars,
         buf[p] \in chars,
         \A k \in p .. HereEnd : buf[k] \in chars,
         \A j \in p .. Len(text) :
           (\A k \in p .. j : buf[k] \in chars) => Fits(text, p, j)
  PROVE  RunOf(chars) = Here /\ p + Len(RunOf(chars)) = HereEnd + 1
<1> DEFINE n == Len(text)
           e == HereEnd
           I == {i \in p .. n + 1 : buf[i] \notin chars}
           m == Min(I)
<1>1. /\ p \in 1 .. n /\ e \in p .. n /\ p \in Nat /\ e \in Nat /\ n \in Nat
      /\ Here \in Seq(Byte) /\ Len(Here) = e - p + 1
  BY HereIs, Zenon DEF Ready
<1>2. /\ Len(buf) = n + 1 /\ buf[n + 1] = NUL /\ text \in Seq(Byte)
      /\ \A k \in 1 .. n : text[k] = buf[k]
  BY TextIs DEF Ready
<1> HIDE DEF n, e
<1>3. I \in SUBSET Nat /\ n + 1 \in I
  <2>1. n + 1 \in I
    BY <1>1, <1>2
  <2>2. I \in SUBSET Nat
    BY <1>1
  <2> QED
    BY <2>1, <2>2
<1>4. m \in I /\ \A i \in I : m <= i
  <2> HIDE DEF I
  <2> QED
    BY <1>3, MinOfInterval
<1>5. m \in p .. n + 1 /\ m # p /\ buf[m] \notin chars
  BY <1>4
<1>6. e < m
  <2>1. m \notin p .. e
    BY <1>5 DEF e
  <2> HIDE DEF m
  <2> QED
    BY <1>1, <1>5, <2>1
<1>7. \A k \in p .. m - 1 : buf[k] \in chars
  <2> TAKE k \in p .. m - 1
  <2>1. k \in p .. n + 1 /\ ~ (m <= k)
    <3> HIDE DEF m
    <3> QED
      BY <1>1, <1>5
  <2> HIDE DEF m
  <2> QED
    BY <1>4, <2>1
<1> HIDE DEF I, m
<1>8. m - 1 \in p .. n
  BY <1>1, <1>5
<1>9. m - 1 <= e
  <2>1. Fits(text, p, m - 1)
    BY <1>7, <1>8 DEF n
  <2>2. m - 1 \in p .. Len(text)
    BY <1>8 DEF n
  <2> QED
    BY <2>1, <2>2, Longest DEF e
<1>10. m - 1 = e
  BY <1>1, <1>5, <1>6, <1>9
<1>11. RunOf(chars) = SubSeq(buf, p, m - 1)
  BY <1>2, Zenon DEF RunOf, m, I
<1>12. SubSeq(buf, p, e) = SubSeq(text, p, e)
  <2>1. p \in 1 .. Len(text) /\ e \in p .. Len(text)
    BY <1>1 DEF n
  <2> QED
    BY <2>1, SamePiece DEF Ready
<1>13. RunOf(chars) = Here
  BY <1>10, <1>11, <1>12 DEF Here, e
<1> QED
  BY <1>1, <1>13 DEF e

LEMMA BytesOfHere ==
  ASSUME Ready, buf[p] # NUL
  PROVE  \A k \in p .. HereEnd :
           /\ k \in 1 .. Len(text) /\ text[k] = buf[k]
           /\ k - p + 1 \in 1 .. Len(Here) /\ Here[k - p + 1] = buf[k]
<1> DEFINE n == Len(text)
           e == HereEnd
           l == Len(Here)
<1>1. /\ p \in 1 .. n /\ e \in p .. n /\ p \in Nat /\ e \in Nat /\ n \in Nat
      /\ l = e - p + 1
      /\ \A k \in 1 .. l : p + k - 1 \in 1 .. n /\ Here[k] = buf[p + k - 1]
  BY HereIs, Zenon DEF Ready
<1>2. \A k \in 1 .. n : text[k] = buf[k]
  BY TextIs DEF Ready
<1> HIDE DEF n, e, l
<1>3. ASSUME NEW k \in p .. e
      PROVE  /\ k \in 1 .. n /\ text[k] = buf[k]
             /\ k - p + 1 \in 1 .. l /\ Here[k - p + 1] = buf[k]
  <2>1. k \in 1 .. n /\ k - p + 1 \in 1 .. l /\ p + (k - p + 1) - 1 = k
    BY <1>1
  <2> QED
    BY <1>1, <1>2, <2>1
<1> QED
  BY <1>3, Zenon DEF n, e, l

(* Where the text agrees with the buffer, so do the pieces of the text.    *)
LEMMA FitsByBytes ==
  ASSUME Ready, buf[p] # NUL, NEW j \in p .. Len(text)
  PROVE  /\ text \in Seq(Byte) /\ p \in 1 .. Len(text)
         /\ \A k \in p .. j : text[k] = buf[k]
         /\ text[p] = buf[p]
<1> DEFINE n == Len(text)
<1>1. /\ text \in Seq(Byte) /\ p \in 1 .. n /\ n \in Nat
      /\ \A k \in 1 .. n : text[k] = buf[k]
  BY TextIs DEF Ready
<1>2. j \in p .. n
  OBVIOUS
<1> HIDE DEF n
<1>3. \A k \in p .. j : k \in 1 .. n
  BY <1>1, <1>2
<1>4. p \in p .. j
  BY <1>1, <1>2
<1> QED
  BY <1>1, <1>3, <1>4 DEF n

LEMMA NotOpening ==
  ASSUME NEW t, NEW i, t[i] # "/"
  PROVE  ~ OpensComment(t, i)
BY Zenon DEF OpensComment

LEMMA NumberTakes ==
  ASSUME Ready, Number
  PROVE  p' = HereEnd + 1 /\ tokens' = tokens \o Made(Here)
<1>1. /\ buf[p] # NUL /\ buf[p] \in Digits
      /\ new_token("TK_NUM", <<>>, AsInt(strtol(RunOf(Digits))))
      /\ p' = p + Len(RunOf(Digits))
  BY Zenon DEF Number, Scanning
<1>2. /\ Here \in Seq(Byte) /\ Len(Here) >= 1
      /\ Here[1] = buf[p] /\ IsSupported(Here)
  BY <1>1, HereIs, Zenon DEF Ready
<1>3. IsNumber(Here) /\ IsDecimal(Here)
  BY <1>1, <1>2, KindByFirst
<1>4. \A k \in p .. HereEnd : buf[k] \in Digits
  <2> TAKE k \in p .. HereEnd
  <2>1. k - p + 1 \in 1 .. Len(Here) /\ Here[k - p + 1] = buf[k]
    BY <1>1, BytesOfHere, Zenon
  <2>2. DOMAIN Here = 1 .. Len(Here) /\ Range(Here) \subseteq Digits
    BY <1>2, <1>3, LenProperties, Zenon DEF IsDecimal
  <2>3. Here[k - p + 1] \in Range(Here)
    BY <2>1, <2>2, Zenon DEF Range
  <2> QED
    BY <2>1, <2>2, <2>3, Zenon
<1>5. ASSUME NEW j \in p .. Len(text), \A k \in p .. j : buf[k] \in Digits
      PROVE  Fits(text, p, j)
  <2>1. /\ text \in Seq(Byte) /\ p \in 1 .. Len(text)
        /\ \A k \in p .. j : text[k] = buf[k]
        /\ text[p] = buf[p]
    BY <1>1, FitsByBytes
  <2>2. \A k \in p .. j : text[k] \in WordChars \cup {"."}
    BY <1>5, <2>1, CharsApart
  <2>3. IsNumber(SubSeq(text, p, j))
    BY <1>1, <2>1, <2>2, NumberAt
  <2>4. text[p] # "/"
    BY <1>1, <2>1, CharsApart DEF PunctChars
  <2> QED
    BY <2>3, <2>4, NotOpening, Zenon DEF Fits, IsLexeme
<1>6. RunOf(Digits) = Here /\ p + Len(RunOf(Digits)) = HereEnd + 1
  <2>1. NUL \notin Digits
    BY CharsApart
  <2> QED
    BY <1>1, <1>4, <1>5, <2>1, RunIsHere
<1>7. Made(Here) = <<Token("TK_NUM", <<>>, AsInt(strtol(Here)))>>
  <2>1. DecimalValue(Here) \in 0 .. IntMax
    BY <1>3, Zenon DEF IsDecimal
  <2>2. strtol(Here) = DecimalValue(Here)
    BY <2>1, WidthsAre DEF strtol
  <2>3. AsInt(strtol(Here)) = DecimalValue(Here)
    BY <2>1, <2>2, AsIntIs
  <2> QED
    BY <1>1, <1>2, <1>3, <2>3, NumbersMake
<1>8. tokens' = tokens \o Made(Here)
  BY <1>1, <1>6, <1>7, OneMade, Zenon
<1> QED
  BY <1>1, <1>6, <1>8, Zenon

(* A piece of the text and the lexeme here are the same where both are     *)
(* words that end where the characters of a word do.                       *)
LEMMA WordRun ==
  ASSUME Ready, buf[p] \in Letters
  PROVE  /\ IsWord(Here) /\ buf[p] # NUL
         /\ \A k \in p .. HereEnd : buf[k] \in WordChars
         /\ \A j \in p .. Len(text) :
              (\A k \in p .. j : buf[k] \in WordChars) => Fits(text, p, j)
<1>1. buf[p] # NUL /\ buf[p] \in WordChars
  BY CharsApart
<1>2. /\ Here \in Seq(Byte) /\ Len(Here) >= 1
      /\ Here[1] = buf[p] /\ IsSupported(Here)
  BY <1>1, HereIs, Zenon DEF Ready
<1>3. IsWord(Here)
  BY <1>2, KindByFirst
<1>4. \A k \in p .. HereEnd : buf[k] \in WordChars
  <2> TAKE k \in p .. HereEnd
  <2>1. k - p + 1 \in 1 .. Len(Here) /\ Here[k - p + 1] = buf[k]
    BY <1>1, BytesOfHere, Zenon
  <2>2. DOMAIN Here = 1 .. Len(Here) /\ Range(Here) \subseteq WordChars
    BY <1>2, <1>3, LenProperties, Zenon DEF IsWord
  <2>3. Here[k - p + 1] \in Range(Here)
    BY <2>1, <2>2, Zenon DEF Range
  <2> QED
    BY <2>1, <2>2, <2>3, Zenon
<1>5. ASSUME NEW j \in p .. Len(text), \A k \in p .. j : buf[k] \in WordChars
      PROVE  Fits(text, p, j)
  <2>1. /\ text \in Seq(Byte) /\ p \in 1 .. Len(text)
        /\ \A k \in p .. j : text[k] = buf[k]
        /\ text[p] = buf[p]
    BY <1>1, FitsByBytes
  <2>2. \A k \in p .. j : text[k] \in WordChars
    BY <1>5, <2>1
  <2>3. IsWord(SubSeq(text, p, j))
    BY <1>1, <2>1, <2>2, WordAt
  <2>4. text[p] # "/"
    BY <1>1, <2>1, CharsApart DEF PunctChars
  <2> QED
    BY <2>3, <2>4, NotOpening, Zenon DEF Fits, IsLexeme
<1> QED
  BY <1>1, <1>3, <1>4, <1>5, Zenon

LEMMA KeywordIsHere ==
  ASSUME Ready, buf[p] # NUL, NEW s \in KeywordsHere
  PROVE  s = Here /\ p + Len(s) = HereEnd + 1 /\ buf[p] \in Letters
<1> DEFINE l == Len(s)
           j == p + (l - 1)
           n == Len(text)
           e == HereEnd
<1>1. s \in DOMAIN KeywordKind /\ StartsWith(s) /\ buf[p + l] \notin WordChars
  BY Zenon DEF KeywordsHere, isident
<1>2. s \in Seq(Letters) /\ l \in Nat \ {0}
  <2>1. s \in Seq(Letters) /\ s # <<>>
    BY <1>1, TokenizerAssumption
  <2> QED
    BY <2>1, EmptySeq
<1>3. /\ p \in 1 .. n /\ e \in p .. n /\ p \in Nat /\ e \in Nat /\ n \in Nat
      /\ text \in Seq(Byte) /\ \A k \in 1 .. n : text[k] = buf[k]
  BY HereIs, TextIs, Zenon DEF Ready
<1>4. \A k \in 1 .. l : s[k] \in Letters
  BY <1>2, ElementOfSeq
<1>5. j <= n /\ SubSeq(text, p, j) = s
  <2>1. s[l] # NUL
    <3>1. l \in 1 .. l
      BY <1>2
    <3>2. s[l] \in Letters
      BY <1>4, <3>1, Zenon
    <3> QED
      BY <3>2, CharsApart
  <2> QED
    BY <1>1, <1>2, <2>1, StartsWithPiece, Zenon DEF Ready
<1> HIDE DEF l, n, e
<1>6. /\ j \in p .. n /\ j \in Nat /\ j + 1 = p + l /\ j - p + 1 = l
      /\ 1 \in 1 .. l /\ p + 1 - 1 = p
  BY <1>2, <1>3, <1>5
<1> HIDE DEF j
<1>7. \A k \in 1 .. l : s[k] = text[p + k - 1]
  BY <1>3, <1>5, <1>6, PieceIs, Zenon DEF n
<1>8. \A k \in p .. j : buf[k] \in Letters
  <2> TAKE k \in p .. j
  <2>1. k - p + 1 \in 1 .. l /\ p + (k - p + 1) - 1 = k /\ k \in 1 .. n
    BY <1>3, <1>6
  <2>2. s[k - p + 1] \in Letters
    BY <1>4, <2>1, Zenon
  <2>3. s[k - p + 1] = text[p + (k - p + 1) - 1]
    BY <1>7, <2>1, Zenon
  <2> QED
    BY <1>3, <2>1, <2>2, <2>3, Zenon
<1>9. buf[p] \in Letters
  <2>1. p \in p .. j
    BY <1>3, <1>6
  <2> QED
    BY <1>8, <2>1, Zenon
<1>10. \A k \in p .. e : buf[k] \in WordChars
  BY <1>9, WordRun, Zenon DEF e
<1>11. Fits(text, p, j)
  <2>1. \A k \in p .. j : buf[k] \in WordChars
    BY <1>8, CharsApart
  <2> QED
    BY <1>6, <1>9, <2>1, WordRun, Zenon DEF n
<1>12. j <= e
  BY <1>6, <1>11, Longest, Zenon DEF n, e
<1>13. ~ (j < e)
  <2> SUFFICES ASSUME j < e
               PROVE  FALSE
    OBVIOUS
  <2>1. j + 1 \in p .. e
    BY <1>3, <1>6
  <2> QED
    BY <1>1, <1>6, <1>10, <2>1, Zenon
<1>14. j = e
  BY <1>3, <1>6, <1>12, <1>13
<1>15. s = Here
  BY <1>5, <1>14, Zenon DEF Here, e
<1>16. p + l = e + 1
  BY <1>6, <1>14
<1> QED
  BY <1>9, <1>15, <1>16, Zenon DEF l, e

LEMMA KeywordTakes ==
  ASSUME Ready, Keyword
  PROVE  p' = HereEnd + 1 /\ tokens' = tokens \o Made(Here)
<1>1. buf[p] # NUL
  BY Zenon DEF Keyword, Scanning
<1>2. PICK s \in KeywordsHere :
        new_token(KeywordKind[s], s, 0) /\ p' = p + Len(s)
  BY Zenon DEF Keyword
<1>3. s = Here /\ p + Len(s) = HereEnd + 1 /\ buf[p] \in Letters
  BY <1>1, KeywordIsHere
<1>4. s \in DOMAIN KeywordKind
  BY Zenon DEF KeywordsHere
<1>5. IsWord(Here)
  BY <1>3, WordRun
<1>6. Made(Here) = <<Token(KeywordKind[Here], Here, 0)>>
  BY <1>3, <1>4, <1>5, WordsMake, Zenon
<1>7. tokens' = tokens \o Made(Here)
  BY <1>2, <1>3, <1>6, OneMade, Zenon
<1> QED
  BY <1>2, <1>3, <1>7, Zenon

LEMMA IdentTakes ==
  ASSUME Ready, Ident
  PROVE  p' = HereEnd + 1 /\ tokens' = tokens \o Made(Here)
<1>1. /\ buf[p] \in Letters /\ KeywordsHere = {}
      /\ new_token("TK_IDENT", RunOf(WordChars), 0)
      /\ p' = p + Len(RunOf(WordChars))
  BY Zenon DEF Ident
<1>2. /\ IsWord(Here) /\ buf[p] # NUL
      /\ \A k \in p .. HereEnd : buf[k] \in WordChars
      /\ \A j \in p .. Len(text) :
           (\A k \in p .. j : buf[k] \in WordChars) => Fits(text, p, j)
  BY <1>1, WordRun
<1>3. RunOf(WordChars) = Here /\ p + Len(RunOf(WordChars)) = HereEnd + 1
  <2>1. NUL \notin WordChars /\ buf[p] \in WordChars
    BY <1>1, CharsApart
  <2> QED
    BY <1>2, <2>1, RunIsHere
<1>4. Here \notin DOMAIN KeywordKind
  <2> SUFFICES ASSUME Here \in DOMAIN KeywordKind
               PROVE  FALSE
    OBVIOUS
  <2> DEFINE n == Len(text)
             e == HereEnd
             l == Len(Here)
  <2>1. /\ p \in 1 .. n /\ e \in p .. n /\ p \in Nat /\ e \in Nat /\ n \in Nat
        /\ l = e - p + 1 /\ buf[n + 1] = NUL
    BY <1>2, HereIs, TextIs, Zenon DEF Ready
  <2>2. \A k \in p .. e : k - p + 1 \in 1 .. l /\ Here[k - p + 1] = buf[k]
    BY <1>2, BytesOfHere, Zenon
  <2> HIDE DEF n, e, l
  <2>3. /\ l \in Nat \ {0} /\ e \in p .. e /\ e - p + 1 = l /\ p + (l - 1) = e
        /\ p + l = e + 1 /\ e <= n
    BY <2>1
  <2>4. Here[l] = buf[e]
    BY <2>2, <2>3, Zenon
  <2>5. Here[l] # NUL
    <3>1. buf[e] \in WordChars
      BY <1>2, <2>3, Zenon DEF e
    <3> QED
      BY <2>4, <3>1, CharsApart
  <2>6. StartsWith(Here)
    <3>1. SubSeq(text, p, p + (l - 1)) = Here
      BY <2>3, Zenon DEF Here, e
    <3>2. p + (l - 1) <= n
      BY <2>3, Zenon
    <3> QED
      BY <1>2, <2>3, <2>5, <3>1, <3>2, StartsWithPiece, Zenon DEF Ready, l, n
  <2>7. buf[e + 1] \notin WordChars
    <3>1. CASE e = n
      BY <2>1, <3>1, CharsApart
    <3>2. CASE e # n
      <4> SUFFICES ASSUME buf[e + 1] \in WordChars
                   PROVE  FALSE
        OBVIOUS
      <4>1. e + 1 \in p .. n /\ ~ (e + 1 <= e) /\ \A k \in p .. e + 1 : k \in p .. e \/ k = e + 1
        BY <2>1, <3>2
      <4>2. \A k \in p .. e + 1 : buf[k] \in WordChars
        BY <1>2, <4>1, Zenon DEF e
      <4>3. Fits(text, p, e + 1)
        BY <1>2, <4>1, <4>2, Zenon DEF n
      <4>4. e + 1 <= e
        BY <1>2, <4>1, <4>3, Longest, Zenon DEF n, e
      <4> QED
        BY <4>1, <4>4, Zenon
    <3> QED
      BY <3>1, <3>2
  <2>8. Here \in KeywordsHere
    BY <2>3, <2>6, <2>7, Zenon DEF KeywordsHere, isident, l
  <2> QED
    BY <1>1, <2>8, Zenon
<1>5. Made(Here) = <<Token("TK_IDENT", Here, 0)>>
  BY <1>2, <1>4, WordsMake
<1>6. tokens' = tokens \o Made(Here)
  BY <1>1, <1>3, <1>5, OneMade, Zenon
<1> QED
  BY <1>1, <1>3, <1>6, Zenon

LEMMA SlashAlone ==
  ASSUME NEW s \in KnownPunctuators, s[1] = "/"
  PROVE  Len(s) = 1
<1>1. CASE \E c \in OneCharPuncts : s = <<c>>
  BY <1>1
<1>2. CASE s \in TwoCharPuncts
  <2>1. s[1] \in {"<", ">", "=", "!", "|", "&", "-", "+", "*"}
    BY <1>2, TwoCharsAre
  <2> QED
    BY <2>1
<1>3. CASE s = <<".", ".", ".">>
  BY <1>3
<1> QED
  BY <1>1, <1>2, <1>3, KnownIs

LEMMA PairIs ==
  ASSUME NEW S, NEW u \in Seq(S), Len(u) = 2
  PROVE  u = <<u[1], u[2]>>
<1> DEFINE a == u[1]
           b == u[2]
           v == <<a, b>>
<1>1. a \in S /\ b \in S
  <2>1. 1 \in 1 .. Len(u) /\ 2 \in 1 .. Len(u)
    OBVIOUS
  <2> QED
    BY <2>1, ElementOfSeq
<1> HIDE DEF a, b
<1>2. v \in Seq(S) /\ Len(v) = 2 /\ v[1] = a /\ v[2] = b
  BY <1>1
<1> HIDE DEF v
<1>3. \A k \in 1 .. Len(u) : u[k] = v[k]
  <2> TAKE k \in 1 .. Len(u)
  <2>1. k = 1 \/ k = 2
    OBVIOUS
  <2> QED
    BY <1>2, <2>1 DEF a, b
<1>4. u = v
  BY <1>2, <1>3, SeqEqual
<1> QED
  BY <1>4 DEF v, a, b

LEMMA StartsWithTwo ==
  ASSUME Ready, buf[p] # NUL, NEW c, NEW d, d # NUL
  PROVE  /\ StartsWith(<<c, d>>) <=>
              p + 1 <= Len(text) /\ buf[p] = c /\ buf[p + 1] = d
         /\ StartsWith(<<c, d>>) => SubSeq(text, p, p + 1) = <<c, d>>
<1> DEFINE s == <<c, d>>
           n == Len(text)
           u == SubSeq(text, p, p + 1)
<1>1. Len(s) = 2 /\ s[1] = c /\ s[2] = d
  OBVIOUS
<1>2. /\ p \in 1 .. n /\ p \in Nat /\ n \in Nat /\ text \in Seq(Byte)
      /\ \A k \in 1 .. n : text[k] = buf[k]
  BY HereIs, TextIs, Zenon DEF Ready
<1>3. StartsWith(s) <=> p + 1 <= n /\ u = s
  <2> HIDE DEF s
  <2>1. Len(s) \in Nat \ {0} /\ s[Len(s)] # NUL /\ Len(s) - 1 = 1
    BY <1>1
  <2>2. StartsWith(s) <=>
          p + (Len(s) - 1) <= Len(text) /\ SubSeq(text, p, p + (Len(s) - 1)) = s
    BY <2>1, StartsWithPiece DEF Ready
  <2> QED
    BY <2>1, <2>2, Zenon
<1>4. ASSUME p + 1 <= n
      PROVE  u = s <=> buf[p] = c /\ buf[p + 1] = d
  <2>1. p + 1 \in p .. n /\ p + 1 \in 1 .. n /\ p < p + 1 /\ p + 1 - p + 1 = 2
    <3> HIDE DEF n
    <3> QED
      BY <1>2, <1>4
  <2>2. u \in Seq(Byte) /\ Len(u) = p + 1 - p + 1
    <3> DEFINE j == p + 1
    <3>1. p \in 1 .. Len(text) /\ j \in p .. Len(text)
      BY <1>2, <2>1, Zenon
    <3> HIDE DEF j
    <3>2. SubSeq(text, p, j) \in Seq(Byte) /\ Len(SubSeq(text, p, j)) = j - p + 1
      BY <1>2, <3>1, PieceIs
    <3> QED
      BY <3>2 DEF j
  <2>3. u[1] = text[p] /\ u[2] = text[p + 1]
    BY <1>2, <2>1, EndsOfPiece, Zenon
  <2>4. u[1] = buf[p] /\ u[2] = buf[p + 1] /\ Len(u) = 2
    BY <1>2, <2>1, <2>2, <2>3, Zenon
  <2> HIDE DEF u
  <2>5. ASSUME u = s
        PROVE  buf[p] = c /\ buf[p + 1] = d
    BY <1>1, <2>4, <2>5, Zenon
  <2>6. ASSUME buf[p] = c, buf[p + 1] = d
        PROVE  u = s
    <3>1. u = <<u[1], u[2]>>
      BY <2>2, <2>4, PairIs
    <3> QED
      BY <2>4, <2>6, <3>1, Zenon
  <2> QED
    BY <2>5, <2>6
<1> QED
  BY <1>3, <1>4, Zenon

LEMMA LineCommentTakes ==
  ASSUME Ready, LineComment
  PROVE  /\ p' = HereEnd + 1 /\ tokens' = tokens \o Made(Here)
         /\ lexer' = lexer
<1> DEFINE n == Len(text)
           e == HereEnd
           ends == {i \in p + 2 .. n + 1 : buf[i] = NL}
           m == Min(ends)
<1>1. buf[p] # NUL /\ StartsWith(<<"/", "/">>) /\ tokens' = tokens
  BY Zenon DEF LineComment, Scanning
<1>2. p + 1 <= n /\ buf[p] = "/" /\ buf[p + 1] = "/"
  <2>1. "/" # NUL
    BY DEF NUL
  <2> QED
    BY <1>1, <2>1, StartsWithTwo
<1>3. /\ p \in 1 .. n /\ e \in p .. n /\ p \in Nat /\ e \in Nat /\ n \in Nat
      /\ Here \in Seq(Byte) /\ Len(Here) = e - p + 1 /\ Len(Here) >= 1
      /\ Here[1] = buf[p] /\ IsSupported(Here)
      /\ \A k \in 1 .. Len(Here) : Here[k] = buf[p + k - 1]
  BY <1>1, HereIs, Zenon DEF Ready
<1>4. /\ text \in Seq(Byte) /\ Len(buf) = n + 1 /\ (n >= 1 => buf[n] = NL)
      /\ \A k \in 1 .. n : text[k] = buf[k]
  BY TextIs, Zenon DEF Ready
<1> HIDE DEF n, e
<1>5. ~ OpensComment(text, p)
  <2>1. text[p + 1] = "/"
    <3>1. p + 1 \in 1 .. n
      BY <1>2, <1>3
    <3> QED
      BY <1>2, <1>4, <3>1
  <2> QED
    BY <2>1 DEF OpensComment
<1>6. ASSUME NEW j \in p + 1 .. n, \A k \in p .. j : buf[k] # NL
      PROVE  Fits(text, p, j) /\ j <= e
  <2>1. j \in p .. n /\ p < j /\ p + 1 \in 1 .. n /\ \A k \in p .. j : k \in 1 .. n
    BY <1>3
  <2>2. IsLineComment(SubSeq(text, p, j))
    <3>1. text[p] = "/" /\ text[p + 1] = "/" /\ \A k \in p .. j : text[k] # NL
      BY <1>2, <1>3, <1>4, <1>6, <2>1, Zenon
    <3> QED
      BY <1>3, <1>4, <2>1, <3>1, LineCommentAt, Zenon DEF n
  <2>3. Fits(text, p, j)
    BY <1>5, <2>2, Zenon DEF Fits, IsLexeme, IsGap
  <2> QED
    BY <1>1, <2>1, <2>3, Longest, Zenon DEF n, e
<1>7. e >= p + 1
  <2>1. p + 1 \in p + 1 .. n /\ \A k \in p .. p + 1 : k = p \/ k = p + 1
    BY <1>2, <1>3
  <2>2. buf[p] # NL /\ buf[p + 1] # NL
    BY <1>2 DEF NL
  <2>3. p + 1 <= e
    BY <1>6, <2>1, <2>2, Zenon
  <2> QED
    BY <1>3, <2>3
<1>8. IsLineComment(Here)
  <2>1. 2 \in 1 .. Len(Here) /\ p + 2 - 1 = p + 1 /\ Len(Here) # 1
    BY <1>3, <1>7
  <2>2. Here[1] = "/" /\ Here[2] = "/"
    BY <1>2, <1>3, <2>1, Zenon
  <2>3. ~ IsBlockComment(Here)
    <3>1. Here[2] # "*"
      BY <2>2
    <3> QED
      BY <3>1, Zenon DEF IsBlockComment
  <2> QED
    BY <1>3, <2>1, <2>2, <2>3, KindByFirst, SlashAlone
<1>9. \A k \in p .. e : buf[k] # NL
  <2>1. NL \notin Range(Here)
    BY <1>8, Zenon DEF IsLineComment
  <2> TAKE k \in p .. e
  <2>2. k - p + 1 \in 1 .. Len(Here) /\ p + (k - p + 1) - 1 = k
    BY <1>3
  <2>3. Here[k - p + 1] = buf[k]
    BY <1>3, <2>2, Zenon
  <2>4. Here[k - p + 1] \in Range(Here)
    <3>1. DOMAIN Here = 1 .. Len(Here)
      BY <1>3, LenProperties
    <3> QED
      BY <2>2, <3>1, Zenon DEF Range
  <2> QED
    BY <2>1, <2>3, <2>4, Zenon
<1>10. ends \in SUBSET Nat /\ n \in ends
  <2>1. ends \in SUBSET Nat
    BY <1>3
  <2>2. buf[n] = NL
    BY <1>3, <1>4
  <2>3. n # p + 1
    BY <1>2, <2>2 DEF NL
  <2>4. n \in p + 2 .. n + 1
    BY <1>2, <1>3, <2>3
  <2> QED
    BY <2>1, <2>2, <2>4
<1>11. m \in ends /\ \A i \in ends : m <= i
  <2> HIDE DEF ends
  <2> QED
    BY <1>10, MinOfInterval
<1>12. p' = m /\ lexer' = lexer
  BY <1>4, <1>10, Zenon DEF LineComment
<1>13. m \in p + 2 .. n /\ buf[m] = NL
  <2>1. m \in p + 2 .. n + 1 /\ m <= n /\ buf[m] = NL
    BY <1>10, <1>11
  <2> HIDE DEF m
  <2> QED
    BY <1>3, <2>1
<1>14. \A k \in p .. m - 1 : buf[k] # NL
  <2> TAKE k \in p .. m - 1
  <2>1. CASE k < p + 2
    <3>1. k = p \/ k = p + 1
      BY <1>3, <2>1
    <3> QED
      BY <1>2, <3>1 DEF NL
  <2>2. CASE ~ (k < p + 2)
    <3>1. k \in p + 2 .. n + 1 /\ ~ (m <= k)
      <4> HIDE DEF m
      <4> QED
        BY <1>3, <1>13, <2>2
    <3> QED
      BY <1>11, <3>1
  <2> QED
    BY <2>1, <2>2
<1> HIDE DEF m, ends
<1>15. m - 1 <= e
  <2>1. m - 1 \in p + 1 .. n
    BY <1>3, <1>13
  <2> QED
    BY <1>6, <1>14, <2>1, Zenon
<1>16. e < m
  <2>1. m \notin p .. e
    BY <1>9, <1>13, Zenon
  <2> QED
    BY <1>3, <1>13, <2>1
<1>17. p' = e + 1
  BY <1>3, <1>12, <1>13, <1>15, <1>16
<1>18. tokens' = tokens \o Made(Here)
  BY <1>1, <1>8, NothingMade, Zenon DEF IsGap
<1> QED
  BY <1>12, <1>17, <1>18, Zenon DEF e

LEMMA BlockCommentTakes ==
  ASSUME Ready, BlockComment
  PROVE  /\ p' = HereEnd + 1 /\ tokens' = tokens \o Made(Here)
         /\ lexer' = lexer
<1> DEFINE n == Len(text)
           e == HereEnd
           Closes(i) == buf[i] = "*" /\ buf[i + 1] = "/"
           ends == {i \in p + 2 .. n : Closes(i) /\ \A j \in p + 2 .. i : buf[j] # NUL}
           m == Min(ends)
<1>1. buf[p] # NUL /\ StartsWith(<<"/", "*">>)
  BY Zenon DEF BlockComment, Scanning
<1>2. p + 1 <= n /\ buf[p] = "/" /\ buf[p + 1] = "*"
  <2>1. "*" # NUL
    BY DEF NUL
  <2> QED
    BY <1>1, <2>1, StartsWithTwo
<1>3. /\ p \in 1 .. n /\ e \in p .. n /\ p \in Nat /\ e \in Nat /\ n \in Nat
      /\ Here \in Seq(Byte) /\ Len(Here) = e - p + 1 /\ Len(Here) >= 1
      /\ Here[1] = buf[p] /\ IsSupported(Here)
      /\ \A k \in 1 .. Len(Here) : Here[k] = buf[p + k - 1]
  BY <1>1, HereIs, Zenon DEF Ready
<1>4. /\ text \in Seq(Byte) /\ Len(buf) = n + 1
      /\ \A k \in 1 .. n : text[k] = buf[k]
  BY TextIs, Zenon DEF Ready
<1> HIDE DEF n, e
<1>5. p + 1 \in 1 .. n /\ p < n
  BY <1>2, <1>3
<1>6. OpensComment(text, p)
  BY <1>2, <1>3, <1>4, <1>5, Zenon DEF OpensComment, n
<1>7. IsBlockComment(Here)
  BY <1>1, <1>6, HereFits, Zenon DEF Fits, Here
<1>8. /\ p + 3 <= e /\ buf[e - 1] = "*" /\ buf[e] = "/"
      /\ \A k \in p + 2 .. e - 2 : ~ Closes(k)
  <2>1. /\ p + 3 <= e /\ text[e - 1] = "*" /\ text[e] = "/"
        /\ \A k \in p + 2 .. e - 2 : ~ (text[k] = "*" /\ text[k + 1] = "/")
    <3>1. /\ p \in 1 .. Len(text) /\ e \in p .. Len(text)
          /\ IsBlockComment(SubSeq(text, p, e))
      BY <1>3, <1>7, Zenon DEF Here, n, e
    <3>2. text \in Seq(Byte)
      BY <1>4
    <3> QED
      BY <3>1, <3>2, BlockCommentAt
  <2>2. /\ e - 1 \in 1 .. n /\ e \in 1 .. n
        /\ \A k \in p + 2 .. e - 2 : k \in 1 .. n /\ k + 1 \in 1 .. n
    BY <1>3, <2>1
  <2> QED
    BY <1>4, <2>1, <2>2, Zenon
<1>9. NUL \notin Range(Here)
  <2>1. 2 \in 1 .. Len(Here) /\ p + 2 - 1 = p + 1 /\ Len(Here) # 1
    BY <1>3, <1>8
  <2>2. Here[1] = "/" /\ Here[2] = "*"
    BY <1>2, <1>3, <2>1, Zenon
  <2>3. ~ IsLineComment(Here)
    <3>1. Here[2] # "/"
      BY <2>2
    <3> QED
      BY <3>1, Zenon DEF IsLineComment
  <2> QED
    BY <1>3, <2>1, <2>2, <2>3, KindByFirst, SlashAlone
<1>10. \A k \in p .. e : buf[k] # NUL
  <2> TAKE k \in p .. e
  <2>1. k - p + 1 \in 1 .. Len(Here) /\ p + (k - p + 1) - 1 = k
    BY <1>3
  <2>2. Here[k - p + 1] = buf[k]
    BY <1>3, <2>1, Zenon
  <2>3. Here[k - p + 1] \in Range(Here)
    <3>1. DOMAIN Here = 1 .. Len(Here)
      BY <1>3, LenProperties
    <3> QED
      BY <2>1, <3>1, Zenon DEF Range
  <2> QED
    BY <1>9, <2>2, <2>3, Zenon
<1>11. e - 1 \in ends
  <2>1. e - 1 \in p + 2 .. n /\ e - 1 + 1 = e /\ \A j \in p + 2 .. e - 1 : j \in p .. e
    BY <1>3, <1>8
  <2>2. Closes(e - 1)
    BY <1>8, <2>1, Zenon
  <2> HIDE DEF Closes
  <2>3. \A j \in p + 2 .. e - 1 : buf[j] # NUL
    BY <1>10, <2>1, Zenon
  <2> QED
    BY <2>1, <2>2, <2>3
<1>12. ends \in SUBSET Nat
  <2> HIDE DEF Closes
  <2> QED
    BY <1>3
<1>13. m \in ends /\ \A i \in ends : m <= i
  <2> HIDE DEF ends
  <2> QED
    BY <1>11, <1>12, MinOfInterval
<1>14. m \in p + 2 .. n /\ Closes(m) /\ m <= e - 1
  <2> HIDE DEF Closes
  <2> QED
    BY <1>11, <1>13
<1> HIDE DEF m, Closes
<1>15. m = e - 1
  <2>1. m \notin p + 2 .. e - 2
    BY <1>8, <1>14, Zenon
  <2> QED
    BY <1>3, <1>8, <1>14, <2>1
<1>16. ends = {i \in p + 2 .. Len(buf) - 1 :
                 /\ buf[i] = "*" /\ buf[i + 1] = "/"
                 /\ \A j \in p + 2 .. i : buf[j] # NUL}
  <2>1. Len(buf) - 1 = n
    BY <1>3, <1>4
  <2> QED
    BY <2>1, Zenon DEF Closes
<1>17. p' = m + 2 /\ tokens' = tokens /\ lexer' = lexer
  <2>1. ends # {}
    BY <1>11, Zenon
  <2> HIDE DEF ends
  <2> QED
    BY <1>16, <2>1 DEF BlockComment, m
<1>18. p' = e + 1
  BY <1>3, <1>8, <1>15, <1>17
<1>19. tokens' = tokens \o Made(Here)
  BY <1>7, <1>17, NothingMade, Zenon DEF IsGap
<1> QED
  BY <1>17, <1>18, <1>19, Zenon DEF e

LEMMA CharTakes ==
  ASSUME Ready, CharLiteral
  PROVE  /\ p' = HereEnd + 1 /\ tokens' = tokens \o Made(Here)
         /\ lexer' = lexer
<1> DEFINE e == HereEnd
           s == Here
           l == Len(Here)
<1>1. buf[p] = "'" /\ buf[p] # NUL
  BY CharsApart, Zenon DEF CharLiteral
<1>2. /\ e \in Nat /\ p \in Nat
      /\ s \in Seq(Byte) /\ l = e - p + 1 /\ l >= 1 /\ s[1] = buf[p] /\ IsSupported(s)
      /\ \A k \in 1 .. l : s[k] = buf[p + k - 1]
  BY <1>1, HereIs, Zenon DEF Ready
<1>3. IsChar(s) /\ IsKnownChar(s)
  BY <1>1, <1>2, KindByFirst
<1>4. Made(s) = <<Token("TK_NUM", <<>>, IF l = 3 THEN Code[s[2]] ELSE Escapes[s[3]])>>
  BY <1>3, CharsMake
<1>5. /\ s[l] = "'"
      /\ \A i \in 2 .. l : s[i] = "'" => (i = l) # IsEscaped(s, i)
  BY <1>3, Zenon DEF IsChar, Quoted
<1> HIDE DEF e, s, l
<1>6. CASE l = 3 /\ s[2] # "\\"
  <2>1. /\ 2 \in 1 .. l /\ 3 \in 1 .. l /\ p + 2 - 1 = p + 1 /\ p + 3 - 1 = p + 1 + 1
        /\ p + 1 + 2 = e + 1 /\ 2 \in 2 .. l /\ 2 # l
    BY <1>2, <1>6
  <2>2. buf[p + 1] = s[2] /\ buf[p + 1 + 1] = "'"
    <3>1. s[3] = "'"
      BY <1>5, <1>6, Zenon
    <3> QED
      BY <1>2, <2>1, <3>1, Zenon
  <2>3. s[2] # "'"
    <3>1. s[2 - 1] # "\\" /\ 2 \in Nat /\ 2 >= 2
      <4>1. 2 - 1 = 1
        OBVIOUS
      <4>2. "'" # "\\"
        OBVIOUS
      <4> QED
        BY <1>1, <1>2, <4>1, <4>2
    <3>2. ~ IsEscaped(s, 2)
      BY <3>1, EscapedByBackslash
    <3>3. IsEscaped(s, 2) \in BOOLEAN
      BY Zenon DEF IsEscaped
    <3>4. s[2] = "'" => (2 = l) # IsEscaped(s, 2)
      BY <1>5, <2>1, Zenon
    <3> QED
      BY <2>1, <3>2, <3>3, <3>4, Zenon
  <2>4. /\ new_token("TK_NUM", <<>>, Code[s[2]])
        /\ p' = p + 1 + 2 /\ lexer' = lexer
    <3>1. ~ (buf[p + 1] = "\\")
      BY <1>6, <2>2, Zenon
    <3>2. buf[p + 1] # "'"
      BY <2>2, <2>3, Zenon
    <3>3. buf[p + 1 + 1] = "'"
      BY <2>2
    <3> QED
      BY <2>2, <3>1, <3>2, <3>3 DEF CharLiteral
  <2>5. tokens' = tokens \o Made(s)
    <3>1. Made(s) = <<Token("TK_NUM", <<>>, Code[s[2]])>>
      BY <1>4, <1>6, Zenon
    <3> QED
      BY <2>4, <3>1, OneMade, Zenon DEF s
  <2> QED
    BY <2>1, <2>4, <2>5, Zenon DEF e, s
<1>7. CASE l = 4 /\ s[2] = "\\" /\ s[3] \in DOMAIN Escapes
  <2>1. /\ 2 \in 1 .. l /\ 3 \in 1 .. l /\ 4 \in 1 .. l
        /\ p + 2 - 1 = p + 1 /\ p + 3 - 1 = p + 2 /\ p + 4 - 1 = p + 2 + 1
        /\ p + 2 + 2 = e + 1 /\ l # 3
    BY <1>2, <1>7
  <2>2. buf[p + 1] = "\\" /\ buf[p + 2] = s[3] /\ buf[p + 2 + 1] = "'"
    <3>1. s[4] = "'"
      BY <1>5, <1>7, Zenon
    <3> QED
      BY <1>2, <1>7, <2>1, <3>1, Zenon
  <2>3. /\ new_token("TK_NUM", <<>>, Escapes[s[3]])
        /\ p' = p + 2 + 2 /\ lexer' = lexer
    BY <1>7, <2>2 DEF CharLiteral
  <2>4. tokens' = tokens \o Made(s)
    <3>1. Made(s) = <<Token("TK_NUM", <<>>, Escapes[s[3]])>>
      BY <1>4, <2>1, Zenon
    <3> QED
      BY <2>3, <3>1, OneMade, Zenon DEF s
  <2> QED
    BY <2>1, <2>3, <2>4, Zenon DEF e, s
<1>8. \/ l = 3 /\ s[2] # "\\"
      \/ l = 4 /\ s[2] = "\\" /\ s[3] \in DOMAIN Escapes
  BY <1>3, Zenon DEF IsKnownChar, l, s
<1> QED
  BY <1>6, <1>7, <1>8, Zenon

-----------------------------------------------------------------------------
(* Strings: the scan for the end sees every quote and backslash it needs   *)

(* The scan of a string: the lexeme is a string, and the loop stands at a  *)
(* place of it where it may trust what it sees.                            *)
StringOpen == IsString(Here) /\ Seen(Here, end - p + 1)

LEMMA HereStays ==
  ASSUME UNCHANGED readerVars, p' = p
  PROVE  Here' = Here /\ HereEnd' = HereEnd /\ text' = text
<1>1. buf' = buf
  BY DEF readerVars
<1>2. text' = text
  BY <1>1, Zenon DEF text
<1>3. HereEnd' = HereEnd
  BY <1>2, Zenon DEF HereEnd
<1> QED
  BY <1>2, <1>3, Zenon DEF Here

LEMMA StringOpens ==
  ASSUME Ready, UNCHANGED readerVars, String
  PROVE  /\ p' = p /\ tokens' = tokens /\ lexer' = "string"
         /\ StringOpen'
<1>1. /\ buf[p] = QUOTE /\ buf[p] # NUL
      /\ p' = p /\ end' = p + 1 /\ tokens' = tokens /\ lexer' = "string"
  BY QuoteIs, Zenon DEF String
<1>2. /\ p \in Nat /\ Here \in Seq(Byte) /\ Len(Here) >= 1 /\ Here[1] = buf[p]
      /\ IsSupported(Here)
  BY <1>1, HereIs, Zenon DEF Ready
<1>3. IsString(Here)
  BY <1>1, <1>2, KindByFirst
<1>4. Seen(Here, 2)
  <2>1. Here # <<>>
    BY <1>2
  <2>2. Here \in Range(LexemesOf(text))
    BY <1>1, HereIs, Zenon DEF Ready
  <2>3. ~ HidesEscape(Here)
    BY <1>3, <2>1, <2>2, Zenon DEF Ready, HasHiddenEscape
  <2> QED
    BY <1>2, <1>3, <2>3, ScanStarts
<1>5. end' - p' + 1 = 2
  BY <1>1, <1>2
<1>6. Here' = Here
  BY <1>1, HereStays
<1> QED
  BY <1>1, <1>3, <1>4, <1>5, <1>6, Zenon DEF StringOpen

LEMMA OpenIs ==
  ASSUME Ready, lexer = "string", StringOpen
  PROVE  LET i == end - p + 1
         IN  /\ p \in Nat /\ end \in Nat /\ HereEnd \in Nat /\ i \in 2 .. Len(Here)
             /\ Len(Here) = HereEnd - p + 1 /\ HereEnd + 1 <= Len(buf)
             /\ end + 1 <= Len(buf)
             /\ p \in 1 .. Len(text) /\ HereEnd \in p .. Len(text)
             /\ Here \in Seq(Byte) /\ Here[i] = buf[end]
             /\ \A k \in 1 .. Len(Here) : Here[k] = buf[p + k - 1]
             /\ Here \in Range(LexemesOf(text))
             /\ buf[p] # NUL
<1>1. buf[p] # NUL /\ end \in Nat
  BY QuoteIs DEF Ready, LexerInv, LexerTypeOK
<1>2. /\ p \in Nat /\ HereEnd \in Nat /\ Len(Here) = HereEnd - p + 1
      /\ p \in 1 .. Len(text) /\ HereEnd \in p .. Len(text)
      /\ Here \in Seq(Byte)
      /\ \A k \in 1 .. Len(Here) : Here[k] = buf[p + k - 1]
      /\ Here \in Range(LexemesOf(text))
  BY <1>1, HereIs, Zenon DEF Ready
<1>3. Len(buf) = Len(text) + 1 /\ Len(text) \in Nat
  BY TextIs, Zenon DEF Ready
<1>4. end - p + 1 \in 2 .. Len(Here)
  BY DEF StringOpen, Seen, SeenBut
<1>5. HereEnd + 1 <= Len(buf) /\ end + 1 <= Len(buf)
      /\ end - p + 1 \in 1 .. Len(Here) /\ p + (end - p + 1) - 1 = end
  BY <1>1, <1>2, <1>3, <1>4
<1>6. Here[end - p + 1] = buf[end]
  BY <1>2, <1>5, Zenon
<1> QED
  BY <1>1, <1>2, <1>4, <1>5, <1>6, Zenon

(* Without a hidden escape the loop finds the end before the buffer's.     *)
LEMMA StringGoesOn ==
  ASSUME Ready, UNCHANGED readerVars, StringStep, StringOpen
  PROVE  /\ p' = p /\ tokens' = tokens /\ lexer' = "string"
         /\ StringOpen'
<1> DEFINE i == end - p + 1
           s == Here
           l == Len(Here)
<1>1. lexer = "string" /\ buf[end] # QUOTE /\ p' = p /\ tokens' = tokens
  BY DEF StringStep
<1>2. /\ p \in Nat /\ end \in Nat /\ HereEnd \in Nat /\ i \in 2 .. l
      /\ l = HereEnd - p + 1 /\ HereEnd + 1 <= Len(buf) /\ end + 1 <= Len(buf)
      /\ s \in Seq(Byte) /\ s[i] = buf[end]
      /\ \A k \in 1 .. l : s[k] = buf[p + k - 1]
      /\ s \in Range(LexemesOf(text))
  BY <1>1, OpenIs, Zenon
<1>3. IsString(s) /\ Seen(s, i)
  BY Zenon DEF StringOpen
<1>5. s[i] # QUOTE
  BY <1>1, <1>2, Zenon
<1> HIDE DEF i, s
<1>6. /\ i + 1 \in 2 .. l
      /\ s[i + 1] = "\\" => Seen(s, i + 3)
      /\ s[i + 1] # "\\" => Seen(s, i + 1)
  BY <1>2, <1>3, <1>5, ScanGoesOn, Zenon DEF s
<1>7. s[i + 1] = buf[end + 1]
  <2>1. i + 1 \in 1 .. l /\ p + (i + 1) - 1 = end + 1
    BY <1>2, <1>6 DEF i
  <2>2. s[i + 1] = buf[p + (i + 1) - 1]
    BY <1>2, <2>1
  <2> QED
    BY <2>1, <2>2
<1>8. HereEnd + 1 <= Len(buf) /\ Len(buf) \in Nat
  <2>1. Len(buf) = Len(text) + 1 /\ Len(text) \in Nat
    BY TextIs, Zenon DEF Ready
  <2> QED
    BY <1>2, <2>1
<1>9. Seen(s, NextEnd - p + 1) /\ NextEnd \in Nat
  <2>1. CASE buf[end + 1] = "\\"
    <3>1. NextEnd = end + 3
      BY <1>2, <2>1, Zenon DEF NextEnd
    <3>2. (end + 3) - p + 1 = i + 3 /\ end + 3 \in Nat
      BY <1>2 DEF i
    <3>3. NextEnd - p + 1 = i + 3
      BY <3>1, <3>2, Zenon
    <3>4. Seen(s, i + 3)
      BY <1>6, <1>7, <2>1
    <3> QED
      BY <3>1, <3>2, <3>3, <3>4
  <2>2. CASE buf[end + 1] # "\\"
    <3>1. NextEnd = end + 1
      BY <2>2, Zenon DEF NextEnd
    <3>2. (end + 1) - p + 1 = i + 1 /\ end + 1 \in Nat
      BY <1>2 DEF i
    <3>3. NextEnd - p + 1 = i + 1
      BY <3>1, <3>2, Zenon
    <3>4. Seen(s, i + 1)
      BY <1>6, <1>7, <2>2
    <3> QED
      BY <3>1, <3>2, <3>3, <3>4
  <2> QED
    BY <2>1, <2>2, Zenon
<1>10. NextEnd <= Len(buf)
  <2>1. NextEnd - p + 1 \in 2 .. l
    BY <1>9, Zenon DEF Seen, SeenBut, s
  <2> HIDE DEF l
  <2> QED
    BY <1>2, <1>8, <1>9, <2>1
<1>11. end' = NextEnd /\ lexer' = lexer
  BY <1>10, Zenon DEF StringStep
<1>12. Here' = s
  BY <1>1, HereStays, Zenon DEF s
<1>13. end' - p' + 1 = NextEnd - p + 1
  BY <1>1, <1>11
<1> QED
  BY <1>1, <1>3, <1>9, <1>11, <1>12, <1>13, Zenon DEF StringOpen

(* What stands between the quotes.                                         *)
LEMMA InsideOfHere ==
  ASSUME ReaderInv, LexerInv, pc = "returned",
         NEW a \in 1 .. Len(text), NEW e \in a .. Len(text)
  PROVE  SubSeq(buf, a + 1, e - 1) = SubSeq(SubSeq(text, a, e), 2, e - a)
<1> DEFINE n == Len(text)
           s == SubSeq(text, a, e)
           u == SubSeq(buf, a + 1, e - 1)
           v == SubSeq(s, 2, e - a)
<1>1. /\ text \in Seq(Byte) /\ n \in Nat
      /\ \A k \in 1 .. n : text[k] = buf[k]
  BY TextIs
<1>2. /\ a \in Nat /\ e \in Nat /\ s \in Seq(Byte) /\ Len(s) = e - a + 1
      /\ \A k \in 1 .. e - a + 1 : s[k] = text[a + k - 1]
  BY <1>1, PieceIs, Zenon
<1>3. a \in 1 .. n /\ e \in a .. n
  OBVIOUS
<1> HIDE DEF n, s
<1>4. \A k \in 1 .. n : buf[k] \in Byte
  BY <1>1, ElementOfSeq DEF n
<1>5. /\ u \in Seq(Byte)
      /\ Len(u) = IF a + 1 <= e - 1 THEN (e - 1) - (a + 1) + 1 ELSE 0
      /\ \A k \in 1 .. (e - 1) - (a + 1) + 1 : u[k] = buf[(a + 1) + k - 1]
  <2>1. a + 1 \in Int /\ e - 1 \in Int /\ \A k \in a + 1 .. e - 1 : k \in 1 .. n
    BY <1>1, <1>2, <1>3
  <2>2. \A k \in a + 1 .. e - 1 : buf[k] \in Byte
    BY <1>4, <2>1, Zenon
  <2> QED
    BY <2>1, <2>2, SubSeqProperties
<1>6. /\ v \in Seq(Byte)
      /\ Len(v) = IF 2 <= e - a THEN (e - a) - 2 + 1 ELSE 0
      /\ \A k \in 1 .. (e - a) - 2 + 1 : v[k] = s[2 + k - 1]
  <2>1. e - a \in Int /\ \A k \in 2 .. e - a : k \in 1 .. Len(s)
    BY <1>2, <1>3
  <2>2. \A k \in 2 .. e - a : s[k] \in Byte
    BY <1>2, <2>1, ElementOfSeq
  <2> QED
    BY <2>1, <2>2, SubSeqProperties
<1> HIDE DEF u, v
<1>7. Len(u) = Len(v) /\ \A k \in 1 .. Len(u) : k \in 1 .. e - a - 1 /\ k \in Nat
  BY <1>2, <1>3, <1>5, <1>6
<1>8. \A k \in 1 .. Len(u) : u[k] = v[k]
  <2> TAKE k \in 1 .. Len(u)
  <2>1. /\ k \in 1 .. (e - 1) - (a + 1) + 1 /\ k \in 1 .. (e - a) - 2 + 1
        /\ (a + 1) + k - 1 = a + k /\ 2 + k - 1 = k + 1
        /\ k + 1 \in 1 .. e - a + 1 /\ a + (k + 1) - 1 = a + k /\ a + k \in 1 .. n
    BY <1>1, <1>2, <1>3, <1>7
  <2>2. u[k] = buf[a + k]
    BY <1>5, <2>1, Zenon
  <2>3. v[k] = s[k + 1] /\ s[k + 1] = text[a + k]
    BY <1>2, <1>6, <2>1, Zenon
  <2> QED
    BY <1>1, <2>1, <2>2, <2>3, Zenon
<1>9. u = v
  BY <1>5, <1>6, <1>7, <1>8, SeqEqual
<1> QED
  BY <1>9 DEF u, v, s

LEMMA StringTakes ==
  ASSUME Ready, StringEnds, StringOpen
  PROVE  /\ p' = HereEnd + 1 /\ tokens' = tokens \o Made(Here)
         /\ lexer' = "scan"
<1> DEFINE i == end - p + 1
           e == HereEnd
           l == Len(Here)
<1>1. /\ lexer = "string" /\ buf[end] = QUOTE
      /\ new_token("TK_STRING", SubSeq(buf, p + 1, end - 1), 0)
      /\ p' = end + 1 /\ lexer' = "scan"
  BY DEF StringEnds
<1>2. /\ p \in Nat /\ end \in Nat /\ e \in Nat /\ i \in 2 .. l
      /\ l = e - p + 1 /\ Here \in Seq(Byte) /\ Here[i] = buf[end]
      /\ p \in 1 .. Len(text) /\ e \in p .. Len(text)
  BY <1>1, OpenIs, Zenon
<1>3. IsString(Here) /\ Seen(Here, i)
  BY Zenon DEF StringOpen
<1>4. i = l
  BY <1>1, <1>2, <1>3, ScanEnds, Zenon
<1> HIDE DEF l, e
<1>5. end = e /\ l - 1 = e - p
  BY <1>2, <1>4
<1>6. SubSeq(buf, p + 1, end - 1) = SubSeq(Here, 2, l - 1)
  <2>1. SubSeq(buf, p + 1, e - 1) = SubSeq(SubSeq(text, p, e), 2, e - p)
    BY <1>2, InsideOfHere DEF Ready
  <2> QED
    BY <1>5, <2>1, Zenon DEF Here, e
<1>7. Made(Here) = <<Token("TK_STRING", SubSeq(buf, p + 1, end - 1), 0)>>
  BY <1>3, <1>6, StringsMake, Zenon DEF l
<1>8. tokens' = tokens \o Made(Here)
  BY <1>1, <1>7, OneMade
<1> QED
  BY <1>1, <1>5, <1>8, Zenon DEF e

-----------------------------------------------------------------------------
(* Punctuators: the order of the tests makes the match the longest         *)

LEMMA PunctsAreKnown ==
  ASSUME NEW s,
         \/ \E c \in OneCharPuncts : s = <<c>>
         \/ s \in TwoCharPuncts
         \/ s = <<".", ".", ".">>
  PROVE  s \in KnownPunctuators
<1>1. CASE \E c \in OneCharPuncts : s = <<c>>
  <2>1. PICK c \in OneCharPuncts : s = <<c>>
    BY <1>1
  <2>2. s \in Punctuators
    BY <2>1, Zenon DEF OneCharPuncts, Punctuators
  <2>3. Len(s) = 1 /\ s[1] = c
    BY <2>1
  <2>4. c # "~" /\ c # "%" /\ c # "^" /\ c # "|" /\ c # "#"
    BY DEF OneCharPuncts
  <2>5. /\ s # <<"~">> /\ s # <<"%">> /\ s # <<"^">> /\ s # <<"|">> /\ s # <<"#">>
    BY <2>1, <2>4
  <2>6. \A a, b : s # <<a, b>>
    BY <2>1
  <2>7. \A a, b, d : s # <<a, b, d>>
    BY <2>1
  <2> QED
    BY <2>2, <2>5, <2>6, <2>7, Zenon DEF KnownPunctuators
<1>2. CASE s \in TwoCharPuncts
  <2>1. s \in Punctuators
    BY <1>2, Zenon DEF TwoCharPuncts, Punctuators
  <2>2. Len(s) = 2
    BY <1>2, TwoCharsAre
  <2>3. s \notin {<<"~">>, <<"%">>, <<"^">>, <<"|">>, <<"#">>,
                  <<"<", "<", "=">>, <<">", ">", "=">>}
    BY <2>2
  <2>4. s \notin {<<"<", "<">>, <<">", ">">>, <<"/", "=">>, <<"%", "=">>, <<"&", "=">>,
                  <<"^", "=">>, <<"|", "=">>, <<"#", "#">>}
    BY <1>2 DEF TwoCharPuncts
  <2> QED
    BY <2>1, <2>3, <2>4, Zenon DEF KnownPunctuators
<1>3. CASE s = <<".", ".", ".">>
  <2>1. s \in Punctuators
    BY <1>3, Zenon DEF Punctuators
  <2>2. s \notin {<<"~">>, <<"%">>, <<"^">>, <<"|">>, <<"<", "<">>, <<">", ">">>,
     <<"/", "=">>, <<"%", "=">>, <<"<", "<", "=">>, <<">", ">", "=">>,
     <<"&", "=">>, <<"^", "=">>, <<"|", "=">>, <<"#">>, <<"#", "#">>}
    BY <1>3
  <2> QED
    BY <2>1, <2>2, Zenon DEF KnownPunctuators
<1> QED
  BY <1>1, <1>2, <1>3

LEMMA PunctuatorEnds ==
  ASSUME NEW s \in KnownPunctuators
  PROVE  Len(s) \in 1 .. 3 /\ s[Len(s)] # NUL
<1>1. CASE \E c \in OneCharPuncts : s = <<c>>
  <2>1. PICK c \in OneCharPuncts : s = <<c>>
    BY <1>1
  <2>2. Len(s) = 1 /\ s[1] = c
    BY <2>1
  <2>3. c # NUL
    BY DEF OneCharPuncts, NUL
  <2> QED
    BY <2>2, <2>3
<1>2. CASE s \in TwoCharPuncts
  <2>1. Len(s) = 2 /\ s[2] \in {"=", "|", "&", ">", "+", "-"}
    BY <1>2, TwoCharsAre
  <2> QED
    BY <2>1 DEF NUL
<1>3. CASE s = <<".", ".", ".">>
  BY <1>3 DEF NUL
<1> QED
  BY <1>1, <1>2, <1>3, KnownIs

LEMMA PunctsHereAre ==
  ASSUME NEW s \in PunctsHere
  PROVE  /\ StartsWith(s) /\ s \in KnownPunctuators
         /\ \A t \in TwoCharPuncts : StartsWith(t) => Len(s) = 2
         /\ StartsWith(<<".", ".", ".">>) =>
              Len(s) = 3 \/ \E t \in TwoCharPuncts : StartsWith(t)
<1> DEFINE dots  == <<".", ".", ".">>
           two   == {t \in TwoCharPuncts : StartsWith(t)}
           three == {t \in {dots} : StartsWith(t)}
           one   == {t \in {<<c>> : c \in OneCharPuncts} : StartsWith(t)}
<1>1. PunctsHere = IF two # {} THEN two ELSE IF three # {} THEN three ELSE one
  BY Zenon DEF PunctsHere
<1>2. CASE two # {}
  <2>1. s \in TwoCharPuncts /\ StartsWith(s)
    BY <1>1, <1>2, Zenon
  <2>2. \E t \in TwoCharPuncts : StartsWith(t)
    BY <1>2, Zenon
  <2> QED
    BY <2>1, <2>2, TwoCharsAre, PunctsAreKnown, Zenon
<1>3. CASE two = {} /\ three # {}
  <2>1. s = dots /\ StartsWith(s)
    BY <1>1, <1>3, Zenon
  <2>2. \A t \in TwoCharPuncts : ~ StartsWith(t)
    BY <1>3, Zenon
  <2>3. Len(s) = 3
    BY <2>1
  <2> QED
    BY <2>1, <2>2, <2>3, PunctsAreKnown, Zenon
<1>4. CASE two = {} /\ three = {}
  <2>1. s \in one
    BY <1>1, <1>4, Zenon
  <2>2. StartsWith(s) /\ \E c \in OneCharPuncts : s = <<c>>
    BY <2>1, Zenon
  <2>3. \A t \in TwoCharPuncts : ~ StartsWith(t)
    BY <1>4, Zenon
  <2>4. ~ StartsWith(dots)
    BY <1>4, Zenon
  <2> QED
    BY <2>2, <2>3, <2>4, PunctsAreKnown, Zenon
<1> QED
  BY <1>2, <1>3, <1>4, Zenon

(* A known punctuator that is the lexeme starts here, and none that starts *)
(* here is longer.                                                         *)
LEMMA PunctIsHere ==
  ASSUME Ready, buf[p] # NUL, Here \in KnownPunctuators
  PROVE  StartsWith(Here)
<1> DEFINE l == Len(Here)
<1>1. l \in Nat \ {0} /\ Here[l] # NUL
  BY PunctuatorEnds
<1>2. /\ p \in Nat /\ HereEnd \in Nat /\ l = HereEnd - p + 1
      /\ HereEnd \in p .. Len(text)
  BY HereIs, Zenon DEF Ready
<1>3. p + (l - 1) = HereEnd
  BY <1>1, <1>2
<1>4. p + (l - 1) <= Len(text)
  BY <1>2, <1>3
<1>5. SubSeq(text, p, p + (l - 1)) = Here
  BY <1>3, Zenon DEF Here
<1> QED
  BY <1>1, <1>4, <1>5, StartsWithPiece, Zenon DEF Ready

LEMMA NoLongerPunct ==
  ASSUME Ready, buf[p] # NUL, ~ StartsWith(<<"/", "*">>),
         NEW s \in KnownPunctuators, StartsWith(s)
  PROVE  /\ s[1] = buf[p] /\ Len(s) <= Len(Here)
         /\ Len(s) = Len(Here) => s = Here
<1> DEFINE l == Len(s)
           j == p + (l - 1)
           n == Len(text)
<1>1. l \in Nat \ {0} /\ s[l] # NUL
  BY PunctuatorEnds
<1>2. j <= n /\ SubSeq(text, p, j) = s
  BY <1>1, StartsWithPiece, Zenon DEF Ready
<1>3. /\ p \in 1 .. n /\ p \in Nat /\ n \in Nat /\ text \in Seq(Byte)
      /\ HereEnd \in Nat /\ Len(Here) = HereEnd - p + 1
      /\ \A k \in 1 .. n : text[k] = buf[k]
  BY HereIs, TextIs, Zenon DEF Ready
<1> HIDE DEF n, l
<1>4. j \in p .. n /\ j \in Nat
  BY <1>1, <1>2, <1>3
<1>5. s[1] = buf[p]
  <2>1. s[1] = text[p]
    BY <1>2, <1>3, <1>4, EndsOfPiece, Zenon DEF n
  <2> QED
    BY <1>3, <2>1, Zenon
<1>6. ~ OpensComment(text, p)
  <2> SUFFICES ASSUME p < n, text[p] = "/", text[p + 1] = "*"
               PROVE  FALSE
    BY Zenon DEF OpensComment, n
  <2>1. p + 1 <= n /\ p + 1 \in 1 .. n
    BY <1>3
  <2>2. buf[p] = "/" /\ buf[p + 1] = "*" /\ "*" # NUL
    BY <1>3, <2>1 DEF NUL
  <2> QED
    BY <2>1, <2>2, StartsWithTwo DEF n
<1>7. Fits(text, p, j)
  <2>1. s \in Punctuators
    BY Zenon DEF KnownPunctuators
  <2> QED
    BY <1>2, <1>6, <2>1, Zenon DEF Fits, IsLexeme
<1>8. j <= HereEnd
  BY <1>4, <1>7, Longest, Zenon DEF n
<1>9. l <= Len(Here)
  BY <1>1, <1>3, <1>8
<1>10. ASSUME l = Len(Here)
       PROVE  s = Here
  <2>1. j = HereEnd
    BY <1>1, <1>3, <1>10
  <2> QED
    BY <1>2, <2>1, Zenon DEF Here
<1> QED
  BY <1>5, <1>9, <1>10 DEF l

(* What starts with a slash and is neither comment is a punctuator.        *)
LEMMA PunctuatorHere ==
  ASSUME Ready, buf[p] \in PunctChars,
         ~ StartsWith(<<"/", "/">>), ~ StartsWith(<<"/", "*">>)
  PROVE  Here \in KnownPunctuators
<1>1. buf[p] # NUL
  BY CharsApart
<1>2. /\ p \in Nat /\ HereEnd \in Nat /\ Here \in Seq(Byte)
      /\ Len(Here) = HereEnd - p + 1 /\ HereEnd <= Len(text) /\ Len(text) \in Nat
      /\ Len(Here) >= 1 /\ Here[1] = buf[p] /\ IsSupported(Here)
      /\ \A k \in 1 .. Len(Here) : Here[k] = buf[p + k - 1]
  <2>1. /\ p \in 1 .. Len(text) /\ p \in Nat /\ HereEnd \in Nat /\ Here \in Seq(Byte)
        /\ Len(Here) = HereEnd - p + 1 /\ HereEnd \in p .. Len(text) /\ Len(text) \in Nat
        /\ Len(Here) >= 1 /\ Here[1] = buf[p] /\ IsSupported(Here)
        /\ \A k \in 1 .. Len(Here) : Here[k] = buf[p + k - 1]
    BY <1>1, HereIs, Zenon DEF Ready
  <2>2. HereEnd <= Len(text)
    BY <2>1
  <2> QED
    BY <2>1, <2>2, Zenon
<1>3. ASSUME Len(Here) >= 2, Here[1] = "/", Here[2] = "/" \/ Here[2] = "*"
      PROVE  FALSE
  <2>1. 2 \in 1 .. Len(Here) /\ p + 2 - 1 = p + 1 /\ p + 1 <= Len(text)
    BY <1>2, <1>3
  <2>2. buf[p + 1] = Here[2]
    BY <1>2, <2>1, Zenon
  <2>3. buf[p] = "/" /\ "/" # NUL /\ "*" # NUL
    BY <1>2, <1>3 DEF NUL
  <2> QED
    BY <1>1, <1>3, <2>1, <2>2, <2>3, StartsWithTwo, Zenon
<1>4. ~ IsLineComment(Here)
  BY <1>3, Zenon DEF IsLineComment
<1>5. ~ IsBlockComment(Here)
  <2> SUFFICES ASSUME IsBlockComment(Here)
               PROVE  FALSE
    OBVIOUS
  <2>1. Len(Here) >= 4 /\ Here[1] = "/" /\ Here[2] = "*"
    BY Zenon DEF IsBlockComment
  <2>2. Len(Here) >= 2
    BY <1>2, <2>1
  <2> QED
    BY <1>3, <2>1, <2>2, Zenon
<1> QED
  BY <1>2, <1>4, <1>5, KindByFirst

LEMMA PunctTakes ==
  ASSUME Ready, Punct
  PROVE  /\ p' = HereEnd + 1 /\ tokens' = tokens \o Made(Here)
         /\ lexer' = lexer
<1> DEFINE l == Len(Here)
<1>1. PICK s \in PunctsHere : new_token("TK_PUNCT", s, 0) /\ p' = p + Len(s)
  BY DEF Punct
<1>2. /\ buf[p] # NUL /\ ~ StartsWith(<<"/", "/">>) /\ ~ StartsWith(<<"/", "*">>)
      /\ lexer' = lexer
  BY Zenon DEF Punct, Scanning
<1>3. StartsWith(s) /\ s \in KnownPunctuators
  BY PunctsHereAre
<1>4. /\ s[1] = buf[p] /\ Len(s) <= l /\ (Len(s) = l => s = Here)
  BY <1>2, <1>3, NoLongerPunct, Zenon
<1>5. Here \in KnownPunctuators
  <2>1. buf[p] \in PunctChars
    BY <1>3, <1>4, PunctuatorStarts
  <2> QED
    BY <1>2, <2>1, PunctuatorHere, Zenon
<1>6. StartsWith(Here)
  BY <1>2, <1>5, PunctIsHere, Zenon
<1>7. Len(s) \in 1 .. 3 /\ l \in 1 .. 3
  BY <1>3, <1>5, PunctuatorEnds
<1>8. Len(s) = l
  <2>1. CASE \E c \in OneCharPuncts : Here = <<c>>
    <3>1. l = 1
      BY <2>1
    <3> HIDE DEF l
    <3> QED
      BY <1>4, <1>7, <3>1
  <2>2. CASE Here \in TwoCharPuncts
    <3>1. l = 2
      BY <2>2, TwoCharsAre
    <3>2. Len(s) = 2
      BY <1>6, <2>2, PunctsHereAre, Zenon
    <3> QED
      BY <3>1, <3>2
  <2>3. CASE Here = <<".", ".", ".">>
    <3>1. l = 3 /\ Here[1] = "."
      BY <2>3
    <3>2. buf[p] = "."
      BY <1>2, <3>1, HereIs, Zenon DEF Ready
    <3>3. ASSUME NEW t \in TwoCharPuncts, StartsWith(t)
          PROVE  FALSE
      <4>1. t \in KnownPunctuators
        BY PunctsAreKnown
      <4>2. t[1] = buf[p]
        BY <1>2, <3>3, <4>1, NoLongerPunct, Zenon
      <4>3. t[1] \in {"<", ">", "=", "!", "|", "&", "-", "+", "*"}
        BY TwoCharsAre
      <4> QED
        BY <3>2, <4>2, <4>3
    <3>4. StartsWith(<<".", ".", ".">>)
      BY <1>6, <2>3, Zenon
    <3>5. Len(s) = 3
      BY <3>3, <3>4, PunctsHereAre, Zenon
    <3> QED
      BY <3>1, <3>5
  <2> QED
    BY <1>5, <2>1, <2>2, <2>3, KnownIs
<1>9. s = Here
  BY <1>4, <1>8, Zenon
<1>10. Made(Here) = <<Token("TK_PUNCT", s, 0)>>
  BY <1>5, <1>9, PunctuatorsMake, Zenon
<1>11. tokens' = tokens \o Made(Here)
  BY <1>1, <1>10, OneMade
<1>12. p' = HereEnd + 1
  <2>1. p \in Nat /\ HereEnd \in Nat /\ l = HereEnd - p + 1
    BY <1>2, HereIs, Zenon DEF Ready
  <2> HIDE DEF l
  <2> QED
    BY <1>1, <1>8, <2>1
<1> QED
  BY <1>2, <1>11, <1>12, Zenon

-----------------------------------------------------------------------------
(* A text of supported lexemes is read to its end, and only there          *)

LEMMA NeverStuck ==
  ASSUME Ready, CannotTokenize
  PROVE  FALSE
<1>1. /\ buf[p] # NUL
      /\ buf[p] \notin WordChars \cup Blanks \cup OneCharPuncts \cup {"'", QUOTE}
      /\ ~ \E s \in TwoCharPuncts : StartsWith(s)
  BY Zenon DEF CannotTokenize, Scanning
<1>2. /\ Here \in Seq(Byte) /\ Len(Here) >= 1 /\ Here[1] = buf[p] /\ IsSupported(Here)
  BY <1>1, HereIs, Zenon DEF Ready
<1>3. buf[p] \in PunctChars /\ buf[p] # "/"
  <2>1. buf[p] \in Blanks \cup WordChars \cup PunctChars \cup {"'", QUOTE}
    BY <1>2, KindByFirst
  <2>2. "/" \in OneCharPuncts
    BY DEF OneCharPuncts
  <2> QED
    BY <1>1, <2>1, <2>2, Zenon
<1>4. Here \in KnownPunctuators
  BY <1>2, <1>3, KindByFirst
<1>5. StartsWith(Here)
  BY <1>1, <1>4, PunctIsHere, Zenon
<1>6. \A c \in OneCharPuncts : Here # <<c>>
  <2> SUFFICES ASSUME NEW c \in OneCharPuncts, Here = <<c>>
               PROVE  FALSE
    OBVIOUS
  <2>1. Here[1] = c
    OBVIOUS
  <2> QED
    BY <1>1, <1>2, <2>1, Zenon
<1>7. Here # <<".", ".", ".">>
  <2> SUFFICES ASSUME Here = <<".", ".", ".">>
               PROVE  FALSE
    OBVIOUS
  <2>1. Here[1] = "." /\ "." \in OneCharPuncts
    BY DEF OneCharPuncts
  <2> QED
    BY <1>1, <1>2, <2>1, Zenon
<1> QED
  BY <1>1, <1>4, <1>5, <1>6, <1>7, KnownIs, Zenon

LEMMA EofTakes ==
  ASSUME Ready, Eof
  PROVE  tokens' = TokensOf(text) /\ lexer' = "done"
<1> DEFINE n == Len(text)
<1>1. /\ buf[p] = NUL /\ new_token("TK_EOF", <<>>, 0) /\ lexer' = "done"
  BY DEF Eof
<1>2. /\ text \in Seq(Byte) /\ n \in Nat /\ p \in 1 .. n + 1
      /\ \A k \in 1 .. n : text[k] = buf[k]
  BY TextIs, Zenon DEF Ready
<1> HIDE DEF n
<1>3. p \notin 1 .. n
  <2> SUFFICES ASSUME p \in 1 .. n
               PROVE  FALSE
    OBVIOUS
  <2> DEFINE e == LexemeEnd(text, p)
             s == SubSeq(text, p, e)
  <2>1. \A x \in Range(LexemesFrom(text)[p]) : x # <<>> /\ IsSupported(x)
    BY Zenon DEF Ready, OnCourse, IsSupportedText
  <2>2. e \in p .. n /\ IsSupported(s)
    BY <1>2, <2>1, FirstLexeme, Zenon DEF n
  <2>3. s \in Seq(Byte) /\ Len(s) = e - p + 1 /\ p \in Nat /\ e \in Nat
    BY <1>2, <2>2, PieceIs, Zenon DEF n
  <2>4. s[1] = NUL
    <3>1. s[1] = text[p]
      BY <1>2, <2>2, EndsOfPiece, Zenon DEF n
    <3> QED
      BY <1>1, <1>2, <3>1, Zenon
  <2> HIDE DEF e, s
  <2>5. Len(s) >= 1
    BY <1>2, <2>2, <2>3
  <2>6. s[1] \in Blanks \cup WordChars \cup PunctChars \cup {"'", QUOTE}
    BY <2>2, <2>3, <2>5, KindByFirst
  <2> QED
    BY <2>4, <2>6, CharsApart
<1>4. p = n + 1
  BY <1>2, <1>3
<1>5. TokensFrom(text)[p] = <<EndToken>>
  <2>1. p > Len(text) /\ p \in 1 .. Len(text) + 1
    BY <1>2, <1>4 DEF n
  <2> QED
    BY <1>2, <2>1, TokensFromIs, Zenon
<1>6. tokens \o <<EndToken>> = TokensOf(text)
  BY <1>5, Zenon DEF Ready, OnCourse
<1>7. tokens' = tokens \o <<EndToken>>
  <2> DEFINE S == TokenSet \cup {EndToken}
  <2>1. tokens' = Append(tokens, EndToken)
    BY <1>1, Zenon DEF new_token, EndToken
  <2>2. tokens \in Seq(TokenSet)
    BY LexerStarts DEF Ready
  <2>3. TokenSet \subseteq S /\ EndToken \in S
    BY Zenon
  <2> HIDE DEF S
  <2>4. tokens \in Seq(S)
    BY <2>2, <2>3, SeqMonotonic
  <2> HIDE DEF EndToken
  <2> QED
    BY <2>1, <2>3, <2>4, AppendIsConcat
<1> QED
  BY <1>1, <1>6, <1>7, Zenon

(* What is left of the text makes what is left of the tokens, in a string  *)
(* the scan has not missed its end, and it ends with all of them.          *)
Lexed ==
  /\ pc # "returned" => tokens = <<>>
  /\ pc = "returned" /\ IsSupportedText(text) /\ ~ HasHiddenEscape =>
       /\ lexer \in {"scan", "string"} => OnCourse
       /\ lexer = "string" => StringOpen
       /\ lexer \notin {"scan", "string"} => lexer = "done" /\ tokens = TokensOf(text)

(* Every step that takes a lexeme leaves the scan on its course.           *)
LEMMA TakesLexed ==
  ASSUME Ready, UNCHANGED readerVars, buf[p] # NUL, lexer' = "scan",
         p' = HereEnd + 1, tokens' = tokens \o Made(Here)
  PROVE  Lexed'
<1>1. OnCourse'
  BY StepsOn DEF Ready
<1>2. pc' = "returned"
  BY DEF Ready, readerVars
<1> QED
  BY <1>1, <1>2, Zenon DEF Lexed

LEMMA ScanLexed ==
  ASSUME Ready, UNCHANGED readerVars, Scanning, LexerNext
  PROVE  Lexed'
<1>1. buf[p] # NUL /\ lexer = "scan" /\ pc' = "returned"
  BY DEF Scanning, Ready, readerVars
<1>2. CASE Space
  <2>1. lexer' = "scan"
    BY <1>1, <1>2 DEF Space
  <2> QED
    BY <1>1, <1>2, <2>1, SpaceTakes, TakesLexed
<1>3. CASE CharLiteral
  BY <1>1, <1>3, CharTakes, TakesLexed
<1>4. CASE String
  <2>1. tokens' = tokens /\ lexer' = "string" /\ StringOpen' /\ p' = p
    BY <1>4, StringOpens
  <2>2. OnCourse' <=> OnCourse
    <3>1. text' = text
      BY <2>1, HereStays
    <3> QED
      BY <2>1, <3>1, Zenon DEF OnCourse
  <2>3. OnCourse'
    BY <2>2 DEF Ready
  <2> QED
    BY <1>1, <2>1, <2>3, Zenon DEF Lexed
<1>5. CASE LineComment
  BY <1>1, <1>5, LineCommentTakes, TakesLexed
<1>6. CASE BlockComment
  BY <1>1, <1>6, BlockCommentTakes, TakesLexed
<1>7. CASE Punct
  BY <1>1, <1>7, PunctTakes, TakesLexed
<1>8. CASE Keyword
  <2>1. lexer' = "scan"
    BY <1>1, <1>8 DEF Keyword
  <2> QED
    BY <1>1, <1>8, <2>1, KeywordTakes, TakesLexed
<1>9. CASE Ident
  <2>1. lexer' = "scan"
    BY <1>1, <1>9 DEF Ident
  <2> QED
    BY <1>1, <1>9, <2>1, IdentTakes, TakesLexed
<1>10. CASE Number
  <2>1. lexer' = "scan"
    BY <1>1, <1>10 DEF Number
  <2> QED
    BY <1>1, <1>10, <2>1, NumberTakes, TakesLexed
<1>11. ~ CannotTokenize
  BY NeverStuck
<1>12. ~ StringStep /\ ~ StringEnds /\ ~ Eof
  BY <1>1 DEF StringStep, StringEnds, Eof
<1> QED
  BY <1>2, <1>3, <1>4, <1>5, <1>6, <1>7, <1>8, <1>9, <1>10, <1>11, <1>12 DEF LexerNext

LEMMA TokenizeLexed ==
  ASSUME ReaderInv, LexerInv, Lexed, Tokenize
  PROVE  Lexed'
<1>1. pc = "returned" /\ LexerNext /\ UNCHANGED readerVars
  BY DEF Tokenize
<1>2. pc' = "returned" /\ buf' = buf
  BY <1>1 DEF readerVars
<1>3. text' = text
  BY <1>2, Zenon DEF text
<1>4. HasHiddenEscape' <=> HasHiddenEscape
  BY <1>3, Zenon DEF HasHiddenEscape
<1>5. CASE ~ IsSupportedText(text) \/ HasHiddenEscape
  BY <1>2, <1>3, <1>4, <1>5, Zenon DEF Lexed
<1>6. CASE IsSupportedText(text) /\ ~ HasHiddenEscape
  <2>1. lexer \in {"scan", "string"}
    BY <1>1 DEF LexerNext, Scanning, Space, CharLiteral, String, StringStep, StringEnds,
         LineComment, BlockComment, Punct, Keyword, Ident, Number, CannotTokenize, Eof
  <2>2. Ready /\ (lexer = "string" => StringOpen)
    BY <1>1, <1>6, <2>1, Zenon DEF Lexed, Ready
  <2>3. CASE StringStep
    <3>1. lexer = "string"
      BY <2>3 DEF StringStep
    <3>2. p' = p /\ tokens' = tokens /\ lexer' = "string" /\ StringOpen'
      BY <1>1, <2>2, <2>3, <3>1, StringGoesOn
    <3>3. OnCourse' <=> OnCourse
      BY <1>3, <3>2, Zenon DEF OnCourse
    <3>4. OnCourse'
      BY <2>2, <3>3 DEF Ready
    <3> QED
      BY <1>2, <3>2, <3>4, Zenon DEF Lexed
  <2>4. CASE StringEnds
    <3>1. lexer = "string"
      BY <2>4 DEF StringEnds
    <3>2. p' = HereEnd + 1 /\ tokens' = tokens \o Made(Here) /\ lexer' = "scan"
      BY <2>2, <2>4, <3>1, StringTakes
    <3>3. buf[p] # NUL
      BY <2>2, <3>1, OpenIs
    <3> QED
      BY <1>1, <2>2, <3>2, <3>3, TakesLexed
  <2>5. CASE Eof
    <3>1. tokens' = TokensOf(text) /\ lexer' = "done"
      BY <2>2, <2>5, EofTakes
    <3>2. tokens' = TokensOf(text)' /\ lexer' \notin {"scan", "string"}
      BY <1>3, <3>1
    <3> QED
      BY <1>2, <3>1, <3>2, Zenon DEF Lexed
  <2>6. CASE Scanning
    BY <1>1, <2>2, <2>6, ScanLexed
  <2> QED
    BY <1>1, <2>3, <2>4, <2>5, <2>6 DEF LexerNext, Space, CharLiteral, String,
       LineComment, BlockComment, Punct, Keyword, Ident, Number, CannotTokenize
<1> QED
  BY <1>5, <1>6

LEMMA ReadLexed ==
  ASSUME ReaderInv, LexerInv, Lexed, Read
  PROVE  Lexed'
<1>1. pc # "returned"
  BY DEF Read, ReaderNext, ReaderStep, BadArgnum, CallReadStdin, ReallocFails,
         ReadMore, OpenFails, OpenFile, FtellFails, CallocFails, Zeroed,
         FreadFile, FreadOverruns, FileChanges
<1>2. p' = 1 /\ lexer' = "scan" /\ tokens' = <<>>
  BY <1>1, Zenon DEF Read, LexerInv, Lexed, lexerVars
<1>3. ReaderInv' /\ LexerInv'
  BY ReaderNextInv, ReadInv DEF Read
<1>4. pc' = "returned" => OnCourse'
  <2> SUFFICES ASSUME pc' = "returned"
               PROVE  OnCourse'
    OBVIOUS
  <2>1. text' \in Seq(Byte) /\ Len(text') \in Nat
    <3>1. buf' \in Seq(Byte) /\ Len(buf') \in Nat
      BY <1>3, LenProperties DEF ReaderInv
    <3>2. \A k \in 1 .. Len(buf') - 1 : buf'[k] \in Byte
      <4>1. \A k \in 1 .. Len(buf') - 1 : k \in 1 .. Len(buf')
        BY <3>1
      <4> QED
        BY <3>1, <4>1, ElementOfSeq
    <3>3. text' \in Seq(Byte)
      BY <3>1, <3>2, SubSeqProperties DEF text
    <3> QED
      BY <3>3, LenProperties
  <2>2. TokensFrom(text')[1] \in Seq(CTokens)
    <3>1. 1 \in 1 .. Len(text') + 1
      BY <2>1
    <3> QED
      BY <2>1, <3>1, TokensFromIs
  <2>3. tokens' \o TokensFrom(text')[1] = TokensFrom(text')[1]
    BY <1>2, <2>2, ConcatEmptySeq
  <2> QED
    BY <1>2, <2>3, Zenon DEF OnCourse, TokensOf, LexemesOf
<1> QED
  BY <1>2, <1>4, Zenon DEF Lexed

LEMMA LexedHolds ==
  Spec => []Lexed
<1>1. Init => Lexed
  BY DEF Init, ReaderInit, LexerInit, Lexed
<1>2. ReaderInv /\ LexerInv /\ Lexed /\ [Next]_vars => Lexed'
  <2> SUFFICES ASSUME ReaderInv, LexerInv, Lexed, [Next]_vars
               PROVE  Lexed'
    OBVIOUS
  <2>1. CASE UNCHANGED vars
    <3>1. /\ pc' = pc /\ tokens' = tokens /\ lexer' = lexer /\ p' = p /\ end' = end
          /\ UNCHANGED readerVars /\ buf' = buf
      BY <2>1 DEF vars, readerVars, lexerVars
    <3>2. text' = text /\ Here' = Here
      BY <3>1, HereStays
    <3>3. HasHiddenEscape' <=> HasHiddenEscape
      BY <3>2, Zenon DEF HasHiddenEscape
    <3>4. (OnCourse' <=> OnCourse) /\ (StringOpen' <=> StringOpen)
      BY <3>1, <3>2, Zenon DEF OnCourse, StringOpen
    <3> QED
      BY <3>1, <3>2, <3>3, <3>4, Zenon DEF Lexed
  <2> QED
    BY <2>1, ReadLexed, TokenizeLexed DEF Next
<1> QED
  BY <1>1, <1>2, LexerInvHolds, PTL DEF Spec

(* Of every text whose lexemes mocc supports, with no escape where the     *)
(* scan for the end of a string is blind, tokenize makes the tokens of C   *)
(* and stops at the NUL; it reports no error and does not overrun.         *)
THEOREM TokensAreAsC ==
  Spec => []TokensAsCInPlainStrings
<1>1. LexerInv /\ Lexed => TokensAsCInPlainStrings
  <2> SUFFICES ASSUME LexerInv, Lexed, lexer \in {"done", "error", "overrun"},
                      IsSupportedText(text), ~ HasHiddenEscape
               PROVE  lexer = "done" /\ tokens = TokensOf(text)
    BY Zenon DEF TokensAsCInPlainStrings, TokensAsC
  <2>1. lexer \notin {"scan", "string"}
    OBVIOUS
  <2>2. pc = "returned"
    BY <2>1 DEF LexerInv
  <2> QED
    BY <2>1, <2>2, Zenon DEF Lexed
<1> QED
  BY <1>1, LexedHolds, LexerInvHolds, PTL
=============================================================================
