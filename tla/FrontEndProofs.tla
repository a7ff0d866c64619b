---------------------------- MODULE FrontEndProofs ----------------------------
(***************************************************************************)
(* Theorems about the first half of main, for every input, every size of   *)
(* the first buffer and whatever happens to the file meanwhile: what the   *)
(* reader delivers, where tokenize can look, and what an error shows.      *)
(***************************************************************************)
EXTENDS FrontEnd, SequencePositions

Byte == DOMAIN Code

-----------------------------------------------------------------------------
(* The text and what fread gives of it                                     *)

LEMMA TerminatedIs ==
  ASSUME NEW s \in Seq(Byte)
  PROVE  LET t == Terminated(s)
         IN  /\ t \in Seq(Byte)
             /\ Len(s) + 1 <= Len(t) /\ Len(t) <= Len(s) + 2
             /\ Len(t) >= 2 /\ t[Len(t) - 1] = NL /\ t[Len(t)] = NUL
<1> DEFINE t == Terminated(s)
           n == Len(s)
<1>1. NL \in Byte /\ NUL \in Byte /\ n \in Nat
  BY TokenizerAssumption, LenProperties DEF Byte
<1>2. CASE s # <<>> /\ s[n] = NL
  <2>1. t = Append(s, NUL)
    BY <1>2 DEF Terminated
  <2>2. t \in Seq(Byte) /\ Len(t) = n + 1 /\ t[n + 1] = NUL
        /\ \A i \in 1 .. n : t[i] = s[i]
    BY <1>1, <2>1, AppendProperties
  <2>3. n >= 1
    BY <1>1, <1>2, EmptySeq
  <2> HIDE DEF t, n
  <2>4. Len(t) - 1 = n /\ n \in 1 .. n
    BY <1>1, <2>2, <2>3
  <2>5. t[Len(t) - 1] = NL
    BY <1>2, <2>2, <2>4
  <2> QED
    BY <1>1, <2>2, <2>3, <2>5 DEF n, t
<1>3. CASE ~ (s # <<>> /\ s[n] = NL)
  <2> DEFINE e == <<NL, NUL>>
  <2>1. t = s \o e
    BY <1>3 DEF Terminated
  <2>2. e \in Seq(Byte) /\ Len(e) = 2 /\ e[1] = NL /\ e[2] = NUL
    BY <1>1
  <2> HIDE DEF e
  <2>3. t \in Seq(Byte) /\ Len(t) = n + 2
    <3>1. s \o e \in Seq(Byte)
      BY <2>2, ConcatProperties
    <3>2. Len(s \o e) = Len(s) + Len(e)
      BY <2>2, ConcatIs
    <3> QED
      BY <2>1, <2>2, <3>1, <3>2, Zenon
  <2>6. \A j \in 1 .. 2 : t[n + j] = e[j]
    <3> HIDE DEF t, n
    <3>1. \A j \in 1 .. Len(e) : (s \o e)[Len(s) + j] = e[j]
      <4>1. \A i \in 1 .. Len(s) + Len(e) :
                 (s \o e)[i] = IF i <= Len(s) THEN s[i] ELSE e[i - Len(s)]
        <5>1. s \in Seq(Byte) /\ e \in Seq(Byte)
          BY <2>2
        <5> QED
          BY <5>1, ConcatProperties, Zenon
      <4> DEFINE k == Len(s)
                 u == s \o e
      <4>2. k \in Nat /\ Len(e) = 2
        BY <1>1, <2>2 DEF n
      <4> HIDE DEF k, u
      <4> SUFFICES ASSUME NEW j \in 1 .. 2
                   PROVE  u[k + j] = e[j]
        BY <4>2 DEF k, u
      <4>3. k + j \in 1 .. k + 2 /\ ~ (k + j <= k) /\ (k + j) - k = j
        BY <4>2
      <4> QED
        BY <4>1, <4>2, <4>3 DEF k, u
    <3> QED
      BY <2>1, <2>2, <3>1, Zenon DEF n, t
  <2> HIDE DEF t, n
  <2>4. /\ 1 \in 1 .. 2 /\ 2 \in 1 .. 2
        /\ Len(t) - 1 = n + 1 /\ Len(t) = n + 2
    BY <1>1, <2>3
  <2>5. t[Len(t) - 1] = NL /\ t[Len(t)] = NUL
    BY <2>2, <2>4, <2>6
  <2> QED
    BY <1>1, <2>3, <2>5 DEF n, t
<1> QED
  BY <1>2, <1>3

LEMMA FreadIs ==
  ASSUME NEW rest \in Nat, NEW request \in Nat, NEW got \in Freads(rest, request)
  PROVE  /\ got.n \in 0 .. rest /\ got.n <= request
         /\ got.err \in BOOLEAN /\ got.eof \in BOOLEAN
         /\ got.eof => got.n = rest /\ got.n < request
         /\ ~ got.err => got.n = (IF rest < request THEN rest ELSE request)
         /\ ~ got.eof /\ ~ got.err => got.n = request
<1>1. CASE \E n \in {IF rest < request THEN rest ELSE request} :
             got = [n |-> n, eof |-> n < request, err |-> FALSE]
  <2> DEFINE n == IF rest < request THEN rest ELSE request
  <2>1. got = [n |-> n, eof |-> n < request, err |-> FALSE]
    BY <1>1
  <2> DEFINE atEnd == n < request
  <2>2. n \in 0 .. rest /\ n <= request /\ atEnd \in BOOLEAN
        /\ (atEnd => n = rest)
    OBVIOUS
  <2>3. got.n = n /\ got.eof = atEnd /\ got.err = FALSE
    <3> HIDE DEF n, atEnd
    <3> QED
      BY <2>1, Zenon DEF atEnd
  <2> QED
    BY <2>2, <2>3
<1>2. CASE \E n \in {k \in 0 .. rest : k < request} :
             got = [n |-> n, eof |-> FALSE, err |-> TRUE]
  BY <1>2
<1> QED
  BY <1>1, <1>2 DEF Freads

-----------------------------------------------------------------------------
(* The reader                                                              *)

ReaderInv ==
  /\ ReaderTypeOK
  /\ file \in Seq(Byte) /\ buf \in Seq(Byte)
  /\ pc = "start" => buf = <<>> /\ ~ ferror
  /\ pc = "read_stdin" =>
       dash /\ cap >= 3 /\ Len(buf) <= Len(file) /\ buf = SubSeq(file, 1, Len(buf))
  /\ pc = "read_file" => ~ dash
  /\ StaysInBuffer /\ TextTerminated /\ DeliversFile

LEMMA ReaderInitInv ==
  ReaderInit => ReaderInv
<1> SUFFICES ASSUME ReaderInit
             PROVE  ReaderInv
  OBVIOUS
<1>1. file \in Seq(Byte)
  BY FrontEndAssumption DEF ReaderInit, Byte
<1>2. ReaderTypeOK
  BY EmptySeq DEF ReaderInit, ReaderTypeOK
<1> QED
  BY <1>1, <1>2, EmptySeq
     DEF ReaderInit, ReaderInv, StaysInBuffer, TextTerminated, DeliversFile

(* A failure only stops the reader.                                        *)
LEMMA FailInv ==
  ASSUME ReaderInv, Fail
  PROVE  ReaderInv'
BY DEF Fail, ReaderInv, ReaderTypeOK, Request, StaysInBuffer, TextTerminated,
       DeliversFile

LEMMA CallReadStdinInv ==
  ASSUME ReaderInv, CallReadStdin
  PROVE  ReaderInv'
<1>1. buf = <<>> /\ Len(buf) = 0 /\ FirstCap \in Nat /\ FirstCap >= 3
  BY EmptySeq, InputAssumption DEF CallReadStdin, ReaderInv
<1>2. Len(file) \in Nat
  BY LenProperties DEF ReaderInv
<1>3. SubSeq(file, 1, 0) = <<>>
  BY SubSeqEmpty
<1>4. ReaderTypeOK'
  BY <1>1 DEF CallReadStdin, ReaderInv, ReaderTypeOK, Request
<1> QED
  BY <1>1, <1>2, <1>3, <1>4
     DEF CallReadStdin, ReaderInv, StaysInBuffer, TextTerminated, DeliversFile

LEMMA ReadMoreInv ==
  ASSUME ReaderInv, ReadMore
  PROVE  ReaderInv'
<1> DEFINE n == Len(buf)
           m == Len(file)
<1>1. /\ pc = "read_stdin" /\ dash /\ n \in Nat /\ m \in Nat /\ n <= m
      /\ cap \in Nat /\ cap >= 3 /\ n + 3 <= cap /\ Request = cap - n - 2
      /\ file \in Seq(Byte) /\ buf \in Seq(Byte) /\ ferror \in BOOLEAN
      /\ file \in Files \cup Rewrites
  BY LenProperties DEF ReadMore, ReaderInv, ReaderTypeOK, Request
<1>2. PICK got \in Freads(m - n, Request), before \in {NL, NUL} :
        LET bytes == SubSeq(file, 1, n + got.n)
        IN  /\ ferror' = (ferror \/ got.err)
            /\ IF GivesUp(got)
               THEN pc' = "failed" /\ UNCHANGED <<buf, cap>>
               ELSE IF AtEnd(got)
               THEN pc' = "returned" /\ buf' = Closed(bytes, before)
                      /\ UNCHANGED cap
               ELSE pc' = pc /\ buf' = bytes /\ cap' = NextCap
  BY DEF ReadMore
<1>3. UNCHANGED <<argc, dash, file>>
  BY DEF ReadMore
<1> DEFINE k     == got.n
           bytes == SubSeq(file, 1, n + k)
<1>4. /\ k \in 0 .. m - n /\ k <= Request
      /\ got.err \in BOOLEAN /\ got.eof \in BOOLEAN
      /\ got.eof => k = m - n /\ k < Request
  <2>1. m - n \in Nat /\ Request \in Nat
    BY <1>1
  <2> QED
    BY <2>1, FreadIs
<1>5. bytes \in Seq(Byte) /\ Len(bytes) = n + k
  <2>1. n + k \in Nat /\ n + k <= m
    BY <1>1, <1>4
  <2>2. \A i \in 1 .. n + k : file[i] \in Byte
    BY <1>1, <2>1, ElementOfSeq
  <2>3. /\ bytes \in Seq(Byte)
        /\ Len(bytes) = IF 1 <= n + k THEN (n + k) - 1 + 1 ELSE 0
    BY <2>1, <2>2, SubSeqProperties
  <2> HIDE DEF n, k, bytes
  <2> QED
    BY <2>1, <2>3
<1>6. /\ argc' \in 1 .. 3 /\ dash' \in BOOLEAN /\ file' \in Files \cup Rewrites
      /\ file' \in Seq(Byte) /\ ferror' \in BOOLEAN
  BY <1>1, <1>2, <1>3, <1>4 DEF ReaderInv, ReaderTypeOK
<1>7. Seq(Byte) \subseteq Seq(STRING)
  BY SeqMonotonic, TokenizerAssumption DEF Byte
<1>8. CASE GivesUp(got)
  <2>1. pc' = "failed" /\ buf' = buf /\ cap' = cap
    BY <1>2, <1>8
  <2> QED
    BY <1>1, <1>6, <1>7, <2>1
       DEF ReaderInv, ReaderTypeOK, StaysInBuffer, TextTerminated, DeliversFile
<1>9. CASE ~ GivesUp(got) /\ got.eof
  <2>1. pc' = "returned" /\ buf' = Closed(bytes, before) /\ cap' = cap
    BY <1>2, <1>9 DEF AtEnd
  <2>2. n + k = m /\ n + k + 3 <= cap
    <3>1. k = m - n /\ k < cap - n - 2
      BY <1>1, <1>4, <1>9
    <3> HIDE DEF k, n, m
    <3> QED
      BY <1>1, <3>1
  <2>3. bytes = file
    BY <1>1, <2>2, SubSeqFull, Zenon
  <2>4. CASE bytes = <<>> /\ before = NL
    <3>1. buf' = <<NUL>> /\ file' = <<>>
      BY <1>3, <2>1, <2>3, <2>4 DEF Closed
    <3>2. NUL \in Byte
      BY TokenizerAssumption DEF Byte
    <3>3. buf' \in Seq(Byte) /\ Len(buf') = 1
      BY <3>1, <3>2
    <3>4. buf' \in Seq(STRING)
      BY <1>7, <3>3
    <3>5. ReaderTypeOK'
      BY <1>1, <1>6, <2>1, <3>4 DEF ReaderTypeOK
    <3>6. StaysInBuffer' /\ TextTerminated'
      <4>1. Len(buf') <= cap'
        <5>1. cap >= 3 /\ cap \in Nat
          BY <1>1
        <5>2. cap' = cap
          BY <2>1
        <5>3. Len(buf') = 1
          BY <3>3
        <5> QED
          BY <5>1, <5>2, <5>3
      <4>2. dash' /\ pc' # "read_stdin"
        <5>1. dash' = dash
          BY <1>3
        <5>2. dash
          BY <1>1
        <5>3. pc' # "read_stdin"
          BY <2>1
        <5> QED
          BY <5>1, <5>2, <5>3, Zenon
      <4>3. StaysInBuffer'
        BY <2>1, <4>1, <4>2 DEF StaysInBuffer
      <4>4. TextTerminated'
        BY <3>1, <4>2, Zenon DEF TextTerminated
      <4> QED
        BY <4>3, <4>4
    <3>7. DeliversFile'
      BY <3>1 DEF DeliversFile
    <3> QED
      BY <1>6, <2>1, <3>3, <3>5, <3>6, <3>7 DEF ReaderInv
  <2>5. CASE ~ (bytes = <<>> /\ before = NL)
    <3>1. buf' = Terminated(bytes)
      BY <2>1, <2>5 DEF Closed
    <3>2. /\ buf' \in Seq(Byte) /\ Len(buf') <= Len(bytes) + 2
          /\ Len(buf') >= 2 /\ buf'[Len(buf') - 1] = NL /\ buf'[Len(buf')] = NUL
      BY <1>5, <3>1, TerminatedIs
    <3>3. Len(buf') <= cap'
      <4> DEFINE used == n + k
                 size == Len(buf')
      <4>1. size \in Nat /\ size <= used + 2
        BY <1>5, <3>2, LenProperties
      <4>2. used + 3 <= cap' /\ cap' \in Nat
        BY <1>1, <2>1, <2>2
      <4>3. used \in Nat
        BY <1>1, <1>4
      <4> HIDE DEF used, size
      <4>4. size <= cap'
        BY <4>1, <4>2, <4>3
      <4> QED
        BY <4>4 DEF size
    <3>4. DeliversFile'
      BY <1>3, <2>3, <3>1 DEF DeliversFile
    <3>5. ReaderTypeOK'
      BY <1>1, <1>6, <1>7, <2>1, <3>2 DEF ReaderTypeOK
    <3> QED
      BY <1>6, <2>1, <3>2, <3>3, <3>4, <3>5
         DEF ReaderInv, StaysInBuffer, TextTerminated
  <2> QED
    BY <2>4, <2>5
<1>10. CASE ~ GivesUp(got) /\ ~ got.eof
  <2>1. pc' = "read_stdin" /\ buf' = bytes /\ cap' = cap * 2
    BY <1>1, <1>2, <1>10 DEF AtEnd, NextCap
  <2>2. /\ Len(buf') = n + k /\ n + k <= m
        /\ cap' \in Nat /\ cap' >= 3 /\ cap' - (n + k) - 2 \in Nat \ {0}
        /\ n + k + 2 <= cap'
    <3>1. Len(buf') = n + k /\ k \in 0 .. m - n /\ k <= cap - n - 2
      BY <1>1, <1>4, <1>5, <2>1
    <3> HIDE DEF k, n, m
    <3> QED
      BY <1>1, <2>1, <3>1
  <2>3. buf' = SubSeq(file', 1, Len(buf')) /\ Len(buf') <= Len(file')
    BY <1>3, <2>1, <2>2
  <2>4. Request' \in Nat \ {0}
    BY <2>2 DEF Request
  <2> HIDE DEF n, k, bytes, m
  <2> QED
    BY <1>1, <1>3, <1>5, <1>6, <1>7, <2>1, <2>2, <2>3, <2>4
       DEF ReaderInv, ReaderTypeOK, StaysInBuffer, TextTerminated, DeliversFile
<1> QED
  BY <1>4, <1>8, <1>9, <1>10

LEMMA ZeroedInv ==
  ASSUME ReaderInv, NEW bytes \in Nat, Zeroed(bytes)
  PROVE  ReaderInv'
<1>1. file \in Seq(Byte) /\ NUL \in Byte
  BY TokenizerAssumption DEF ReaderInv, Byte
<1>2. buf' \in Seq(Byte)
  <2>1. [i \in 1 .. bytes |-> NUL] \in Seq(Byte)
    BY <1>1, IsASeq
  <2> QED
    BY <2>1 DEF Zeroed
<1>3. buf' \in Seq(STRING)
  BY <1>2, SeqMonotonic, TokenizerAssumption DEF Byte
<1> QED
  BY <1>1, <1>2, <1>3
     DEF Zeroed, ReaderInv, ReaderTypeOK, StaysInBuffer, TextTerminated,
         DeliversFile

(* A buffer of the size of the file and two bytes, of one byte, or none.   *)
LEMMA OpenFileInv ==
  ASSUME ReaderInv, OpenFile \/ FtellFails \/ CallocFails
  PROVE  ReaderInv'
<1>1. Len(file) \in Nat
  BY LenProperties DEF ReaderInv
<1>2. Len(file) + 2 \in Nat /\ 1 \in Nat /\ 0 \in Nat
  BY <1>1
<1> QED
  BY <1>2, ZeroedInv, Zenon DEF OpenFile, FtellFails, CallocFails

LEMMA FreadOverrunsInv ==
  ASSUME ReaderInv, FreadOverruns
  PROVE  ReaderInv'
<1>1. ~ dash /\ cap \in {0, 1}
  BY DEF FreadOverruns, ReaderInv, ReaderTypeOK
<1> QED
  BY <1>1 DEF FreadOverruns, ReaderInv, ReaderTypeOK, StaysInBuffer,
     FailedUnchecked, TextTerminated, DeliversFile

LEMMA FileChangesInv ==
  ASSUME ReaderInv, FileChanges
  PROVE  ReaderInv'
<1>1. file' \in Rewrites /\ file' \in Seq(Byte)
  BY FrontEndAssumption DEF FileChanges, Byte
<1> QED
  BY <1>1
     DEF FileChanges, ReaderInv, ReaderTypeOK, StaysInBuffer, TextTerminated,
         DeliversFile

LEMMA FreadFileInv ==
  ASSUME ReaderInv, FreadFile
  PROVE  ReaderInv'
<1> DEFINE m == Len(file)
           c == cap - 2
<1>1. /\ pc = "read_file" /\ ~ dash /\ m \in Nat /\ cap \in Nat /\ c \in Nat
      /\ file \in Seq(Byte)
  BY LenProperties DEF FreadFile, ReaderInv, ReaderTypeOK
<1>2. PICK got \in Freads(m, c) :
        buf' = Terminated(Filled(got.n)) /\ ferror' = got.err
  BY DEF FreadFile
<1>3. /\ got.n \in 0 .. m /\ got.err \in BOOLEAN
      /\ ~ got.err => got.n = (IF m < c THEN m ELSE c)
  BY <1>1, FreadIs
<1> DEFINE filled == Filled(got.n)
<1>4. filled \in Seq(Byte) /\ Len(filled) = c
  <2>1. NUL \in Byte
    BY TokenizerAssumption DEF Byte
  <2>2. \A i \in 1 .. c : (IF i <= got.n THEN file[i] ELSE NUL) \in Byte
    <3> TAKE i \in 1 .. c
    <3>1. CASE i <= got.n
      <4>1. i \in 1 .. m
        BY <1>1, <1>3, <3>1
      <4> QED
        BY <1>1, <3>1, <4>1, ElementOfSeq
    <3>2. CASE ~ (i <= got.n)
      BY <2>1, <3>2
    <3> QED
      BY <3>1, <3>2
  <2>3. [i \in 1 .. c |-> IF i <= got.n THEN file[i] ELSE NUL] \in Seq(Byte)
    BY <1>1, <2>2, IsASeq
  <2> QED
    BY <1>1, <2>3 DEF Filled
<1>5. /\ buf' \in Seq(Byte) /\ Len(buf') <= c + 2
      /\ Len(buf') >= 2 /\ buf'[Len(buf') - 1] = NL /\ buf'[Len(buf')] = NUL
  <2> HIDE DEF filled
  <2> QED
    BY <1>2, <1>4, TerminatedIs DEF filled
<1>6. UNCHANGED <<argc, dash, file, cap>> /\ pc' = "returned"
  BY DEF FreadFile
<1>7. DeliversFile'
  <2> SUFFICES ASSUME m + 2 = cap, ~ got.err
               PROVE  buf' = Terminated(file)
    BY <1>1, <1>2, <1>6 DEF DeliversFile
  <2>1. got.n = m /\ c = m
    BY <1>1, <1>3
  <2>2. filled = file
    <3>1. \A i \in 1 .. m : filled[i] = file[i]
      BY <1>1, <2>1 DEF Filled
    <3> HIDE DEF filled
    <3> QED
      BY <1>1, <1>4, <2>1, <3>1, SeqEqual
  <2> QED
    BY <1>2, <2>2
<1>8. Len(buf') <= cap'
  <2>1. Len(buf') \in Nat
    BY <1>5, LenProperties
  <2> QED
    BY <1>1, <1>5, <1>6, <2>1
<1>9. buf' \in Seq(STRING)
  BY <1>5, SeqMonotonic, TokenizerAssumption DEF Byte
<1>10. /\ argc' \in 1 .. 3 /\ dash' \in BOOLEAN /\ file' \in Files \cup Rewrites
       /\ file' \in Seq(Byte) /\ ferror' \in BOOLEAN /\ cap' \in Nat
  BY <1>1, <1>2, <1>3, <1>6 DEF ReaderInv, ReaderTypeOK
<1> QED
  BY <1>5, <1>6, <1>7, <1>8, <1>9, <1>10
     DEF ReaderInv, ReaderTypeOK, StaysInBuffer, TextTerminated

LEMMA ReaderNextInv ==
  ASSUME ReaderInv, ReaderNext
  PROVE  ReaderInv'
<1>1. CASE BadArgnum \/ ReallocFails \/ OpenFails
  BY <1>1, FailInv DEF BadArgnum, ReallocFails, OpenFails
<1> QED
  BY <1>1, CallReadStdinInv, ReadMoreInv, OpenFileInv, FreadFileInv,
     FreadOverrunsInv, FileChangesInv DEF ReaderNext, ReaderStep

LEMMA ReaderInvHolds ==
  Spec => []ReaderInv
<1>1. Init => ReaderInv
  BY ReaderInitInv DEF Init
<1>2. ReaderInv /\ [Next]_vars => ReaderInv'
  <2>1. CASE UNCHANGED readerVars
    BY <2>1 DEF readerVars, ReaderInv, ReaderTypeOK, Request, StaysInBuffer,
                FailedUnchecked, TextTerminated, DeliversFile
  <2>2. CASE ReaderNext
    BY <2>2, ReaderNextInv
  <2> QED
    BY <2>1, <2>2 DEF Next, Read, Tokenize, vars, readerVars
<1> QED
  BY <1>1, <1>2, PTL DEF Spec

(* Whatever is stored fits into the buffer, at every fill level and        *)
(* whatever happens to the file (the doubling of read_stdin, the size + 2  *)
(* of read_file), unless read_file went on after a failing ftell or calloc.*)
THEOREM ReaderStaysInBuffer ==
  Spec => []StaysInBuffer
<1>1. ReaderInv => StaysInBuffer
  BY DEF ReaderInv
<1> QED
  BY <1>1, ReaderInvHolds, PTL

(* The text ends in a newline and a NUL, or is the NUL of an empty stdin.  *)
THEOREM TextIsTerminated ==
  Spec => []TextTerminated
<1>1. ReaderInv => TextTerminated
  BY DEF ReaderInv
<1> QED
  BY <1>1, ReaderInvHolds, PTL

(* What is delivered is the whole stream, and the whole file if it kept its*)
(* size and could be read.                                                 *)
THEOREM FileIsDelivered ==
  Spec => []DeliversFile
<1>1. ReaderInv => DeliversFile
  BY DEF ReaderInv
<1> QED
  BY <1>1, ReaderInvHolds, PTL

-----------------------------------------------------------------------------
(* What the tokenizer looks at                                             *)

(* What is not the NUL has a newline or more behind it, what is neither    *)
(* the NUL nor a newline has both.                                         *)
LEMMA MoreFollows ==
  ASSUME ReaderInv, pc = "returned", NEW i \in 1 .. Len(buf), buf[i] # NUL
  PROVE  /\ Len(buf) \in Nat /\ i <= Len(buf) - 1
         /\ buf[i] # NL => i <= Len(buf) - 2
<1> DEFINE n == Len(buf)
<1>1. n \in Nat /\ TextTerminated
  BY LenProperties DEF ReaderInv
<1>2. CASE buf = <<NUL>>
  <2>1. n = 1 /\ buf[1] = NUL
    BY <1>2
  <2>2. i = 1
    BY <2>1
  <2> QED
    BY <2>1, <2>2
<1>3. CASE n >= 2 /\ buf[n - 1] = NL /\ buf[n] = NUL
  <2> HIDE DEF n
  <2>1. i # n /\ (buf[i] # NL => i # n - 1) /\ i \in 1 .. n
    BY <1>3 DEF n
  <2>2. i <= n - 1 /\ (buf[i] # NL => i <= n - 2)
    BY <1>1, <2>1
  <2> QED
    BY <1>1, <2>2 DEF n
<1> QED
  BY <1>1, <1>2, <1>3 DEF TextTerminated

(* Behind what starts with s there is its last character.                  *)
LEMMA StartsWithIs ==
  ASSUME buf \in Seq(Byte), p \in 1 .. Len(buf),
         NEW s, Len(s) \in Nat \ {0}, StartsWith(s)
  PROVE  /\ s \in Seq(Byte)
         /\ p + (Len(s) - 1) \in 1 .. Len(buf)
         /\ buf[p + (Len(s) - 1)] = s[Len(s)]
<1> DEFINE n == Len(buf)
           k == Len(s)
           M == {p + k - 1, n}
           m == Min(M)
           t == SubSeq(buf, p, m)
<1>1. n \in Nat /\ k \in Nat /\ k >= 1 /\ p \in 1 .. n
  BY LenProperties
<1>2. t = s
  BY DEF StartsWith
<1>3. m \in M /\ m <= p + k - 1 /\ m <= n /\ m \in Nat
  <2>1. M \in SUBSET Nat /\ M # {}
    <3> HIDE DEF n, k
    <3> QED
      BY <1>1
  <2> HIDE DEF M
  <2>2. m \in M /\ \A i \in M : m <= i
    BY <2>1, MinOfInterval
  <2> QED
    BY <2>1, <2>2 DEF M
<1>4. \A i \in p .. m : buf[i] \in Byte
  <2> TAKE i \in p .. m
  <2>1. i \in 1 .. n
    <3> HIDE DEF n, m
    <3> QED
      BY <1>1, <1>3
  <2> QED
    BY <2>1, ElementOfSeq
<1>5. /\ t \in Seq(Byte)
      /\ Len(t) = IF p <= m THEN m - p + 1 ELSE 0
      /\ \A i \in 1 .. m - p + 1 : t[i] = buf[p + i - 1]
  <2>1. p \in Nat /\ m \in Nat
    BY <1>1, <1>3
  <2> HIDE DEF m
  <2> QED
    BY <1>4, <2>1, SubSeqProperties
<1>6. k = IF p <= m THEN m - p + 1 ELSE 0
  BY <1>2, <1>5
<1> HIDE DEF n, k, m, M
<1>7. /\ m = p + (k - 1) /\ k \in 1 .. m - p + 1 /\ p + k - 1 = p + (k - 1)
      /\ m \in 1 .. n
  BY <1>1, <1>3, <1>6
<1>8. t[k] = buf[p + k - 1]
  BY <1>5, <1>7
<1> QED
  BY <1>1, <1>2, <1>5, <1>7, <1>8 DEF n, k

(* A run is in the buffer, not empty, and of the characters asked for.     *)
LEMMA RunOfIs ==
  ASSUME buf \in Seq(Byte), p \in 1 .. Len(buf),
         NEW chars, buf[p] \in chars, buf[Len(buf)] \notin chars
  PROVE  /\ RunOf(chars) \in Seq(Byte)
         /\ Len(RunOf(chars)) \in Nat
         /\ p + Len(RunOf(chars)) \in p + 1 .. Len(buf)
<1> DEFINE n == Len(buf)
           I == {i \in p .. n : buf[i] \notin chars}
           m == Min(I)
           t == SubSeq(buf, p, m - 1)
<1>1. n \in Nat /\ p \in 1 .. n
  BY LenProperties
<1>2. I \in SUBSET Nat /\ n \in I
  <2>1. n \in I
    BY <1>1
  <2>2. I \in SUBSET Nat
    BY <1>1
  <2> QED
    BY <2>1, <2>2
<1>3. m \in I
  <2> HIDE DEF I
  <2> QED
    BY <1>2, MinOfInterval
<1>4. m \in p + 1 .. n
  <2>1. m \in p .. n /\ m # p
    BY <1>3
  <2> HIDE DEF m, n
  <2> QED
    BY <1>1, <2>1
<1>5. \A i \in p .. m - 1 : buf[i] \in Byte
  <2> TAKE i \in p .. m - 1
  <2>1. i \in 1 .. n
    <3> HIDE DEF n, m
    <3> QED
      BY <1>1, <1>4
  <2> QED
    BY <2>1, ElementOfSeq
<1>6. t \in Seq(Byte) /\ Len(t) = IF p <= m - 1 THEN (m - 1) - p + 1 ELSE 0
  <2>1. p \in Nat /\ m - 1 \in Nat
    <3> HIDE DEF n, m
    <3> QED
      BY <1>1, <1>4
  <2> HIDE DEF m
  <2> QED
    BY <1>5, <2>1, SubSeqProperties
<1>7. t = RunOf(chars)
  BY DEF RunOf
<1> HIDE DEF t, m, n, I
<1>8. Len(t) \in Nat /\ p + Len(t) \in p + 1 .. n
  BY <1>1, <1>4, <1>6
<1> QED
  BY <1>6, <1>7, <1>8 DEF n

LEMMA WidthsAre ==
  IntMax \in Nat /\ LongMax \in Nat /\ IntMax <= LongMax
BY Zenon, TokenizerAssumption

LEMMA CodesAre ==
  ASSUME NEW c \in Byte
  PROVE  Code[c] \in 0 .. IntMax /\ Code[c] \in Nat
<1>1. Code[c] \in 0 .. IntMax
  BY Zenon, TokenizerAssumption DEF Byte
<1> QED
  BY <1>1, WidthsAre

(* The digits give a number.                                               *)
LEMMA DecimalValueIs ==
  ASSUME NEW s \in Seq(Byte)
  PROVE  DecimalValue(s) \in Int
<1> DEFINE n == Len(s)
           D(k) == Code[s[k]] - Code["0"]
           Values(k) == {g \in [0 .. k -> Int] :
                           g[0] = 0 /\ \A i \in 1 .. k : g[i] = 10 * g[i - 1] + D(i)}
           Missing == {k \in 0 .. n : Values(k) = {}}
<1>1. n \in Nat
  BY LenProperties
<1>2. \A k \in 1 .. n : D(k) \in Int
  <2> TAKE k \in 1 .. n
  <2>1. s[k] \in Byte /\ "0" \in Byte
    BY ElementOfSeq, TokenizerAssumption DEF Byte
  <2>2. Code[s[k]] \in Nat /\ Code["0"] \in Nat
    BY <2>1, CodesAre
  <2> QED
    BY <2>2
<1> HIDE DEF n, D
<1>3. Missing = {}
  <2> SUFFICES ASSUME Missing # {}
               PROVE  FALSE
    OBVIOUS
  <2> DEFINE m == Min(Missing)
  <2>1. Missing \in SUBSET Nat
    BY <1>1
  <2>2. m \in Missing /\ \A k \in Missing : m <= k
    <3> HIDE DEF Missing
    <3> QED
      BY <2>1, MinOfInterval
  <2>3. m \in 0 .. n /\ Values(m) = {}
    BY <2>2
  <2> HIDE DEF m
  <2>4. m # 0
    <3>1. [i \in 0 .. 0 |-> 0] \in Values(0)
      OBVIOUS
    <3> QED
      BY <2>3, <3>1
  <2>5. m - 1 \in 0 .. n /\ ~ (m <= m - 1) /\ m \in 1 .. n
    BY <1>1, <2>3, <2>4
  <2>6. Values(m - 1) # {}
    BY <2>2, <2>5
  <2>7. PICK g \in Values(m - 1) : TRUE
    BY <2>6
  <2> DEFINE h == [i \in 0 .. m |-> IF i = m THEN 10 * g[m - 1] + D(m) ELSE g[i]]
  <2>8. g[m - 1] \in Int /\ D(m) \in Int
    BY <1>2, <2>5, <2>7
  <2>9. h \in [0 .. m -> Int]
    BY <2>5, <2>7, <2>8
  <2>10. h[0] = 0
    BY <2>4, <2>5, <2>7
  <2>11. ASSUME NEW i \in 1 .. m
         PROVE  h[i] = 10 * h[i - 1] + D(i)
    BY <2>5, <2>7
  <2> QED
    BY <2>3, <2>9, <2>10, <2>11
<1>4. PICK g \in Values(n) : TRUE
  <2> HIDE DEF Values
  <2>1. n \in 0 .. n
    BY <1>1
  <2>2. Values(n) # {}
    BY <1>3, <2>1
  <2> QED
    BY <2>2
<1> DEFINE Def(f) ==
             [k \in 0 .. Len(s) |->
                IF k = 0 THEN 0 ELSE 10 * f[k - 1] + Code[s[k]] - Code["0"]]
           value == CHOOSE f : f = Def(f)
<1>5. DecimalValue(s) = value[Len(s)]
  BY DEF DecimalValue
<1>6. g = Def(g)
  <2>1. ASSUME NEW k \in 0 .. n
        PROVE  g[k] = IF k = 0 THEN 0 ELSE 10 * g[k - 1] + Code[s[k]] - Code["0"]
    <3>1. CASE k = 0
      BY <1>4, <3>1
    <3>2. CASE k # 0
      <4>1. k \in 1 .. n /\ k - 1 \in 0 .. n
        BY <1>1, <3>2
      <4>2. g[k] = 10 * g[k - 1] + (Code[s[k]] - Code["0"])
        BY <1>4, <4>1 DEF D
      <4>3. s[k] \in Byte /\ "0" \in Byte
        BY <4>1, ElementOfSeq, TokenizerAssumption DEF Byte, n
      <4>4. Code[s[k]] \in Nat /\ Code["0"] \in Nat
        BY <4>3, CodesAre
      <4>5. g[k - 1] \in Int
        BY <1>4, <4>1
      <4> QED
        BY <3>2, <4>2, <4>4, <4>5
    <3> QED
      BY <3>1, <3>2
  <2>2. g = [k \in 0 .. n |-> g[k]]
    BY <1>4
  <2> QED
    BY <2>1, <2>2, Zenon DEF n
<1>7. value = Def(value)
  BY <1>6, Zenon
<1> HIDE DEF value
<1>8. \A k \in 0 .. n : value[k] \in Int
  <2> DEFINE Wrong == {k \in 0 .. n : value[k] \notin Int}
             m == Min(Wrong)
  <2> SUFFICES ASSUME Wrong # {}
               PROVE  FALSE
    OBVIOUS
  <2>1. Wrong \in SUBSET Nat
    BY <1>1
  <2>2. m \in Wrong /\ \A k \in Wrong : m <= k
    <3> HIDE DEF Wrong
    <3> QED
      BY <2>1, MinOfInterval
  <2>3. m \in 0 .. n /\ value[m] \notin Int
    BY <2>2
  <2> HIDE DEF m
  <2>4. value[m] = IF m = 0 THEN 0 ELSE 10 * value[m - 1] + Code[s[m]] - Code["0"]
    BY <1>7, <2>3, Zenon DEF n
  <2>5. m # 0
    BY <2>3, <2>4
  <2>6. m - 1 \in 0 .. n /\ ~ (m <= m - 1) /\ m \in 1 .. n
    BY <1>1, <2>3, <2>5
  <2>7. value[m - 1] \in Int
    BY <2>2, <2>6
  <2>8. s[m] \in Byte /\ "0" \in Byte
    BY <2>6, ElementOfSeq, TokenizerAssumption DEF Byte, n
  <2>9. Code[s[m]] \in Nat /\ Code["0"] \in Nat
    BY <2>8, CodesAre
  <2> DEFINE d    == Code[s[m]]
             zero == Code["0"]
             v    == value[m - 1]
  <2>10. value[m] = 10 * v + d - zero
    BY <2>4, <2>5, Zenon
  <2>11. d \in Nat /\ zero \in Nat /\ v \in Int
    BY <2>7, <2>9, Zenon
  <2> HIDE DEF d, zero, v
  <2>12. 10 * v + d - zero \in Int
    BY <2>11
  <2> QED
    BY <2>3, <2>10, <2>12, Zenon
<1> QED
  BY <1>1, <1>5, <1>8 DEF n

(* The ints: what there is of them, and that storing one changes nothing.  *)
LEMMA IntsAre ==
  0 .. IntMax \subseteq IntValues /\ 0 \in IntValues
BY WidthsAre DEF IntValues

LEMMA AsIntIs ==
  ASSUME NEW value \in Int
  PROVE  /\ AsInt(value) \in IntValues
         /\ value \in 0 .. IntMax => AsInt(value) = value
<1> DEFINE M == 2 * (IntMax + 1)
           m == value % M
<1>1. IntMax \in Nat /\ M \in Nat /\ M > 0
  BY WidthsAre
<1>2. AsInt(value) = IF m <= IntMax THEN m ELSE m - M
  BY DEF AsInt
<1>3. M = IntMax + IntMax + 2
  BY <1>1
<1> HIDE DEF M
<1>4. m \in 0 .. M - 1
  BY <1>1
<1>5. value \in 0 .. M - 1 => m = value
  BY <1>1
<1> HIDE DEF m
<1> QED
  BY <1>1, <1>2, <1>3, <1>4, <1>5 DEF IntValues

-----------------------------------------------------------------------------
(* The tokenizer                                                           *)

TokenSet == [kind : TokenKinds, spelling : Seq(Byte), val : IntValues]

LexerInv ==
  /\ LexerTypeOK
  /\ pc # "returned" => p = 1 /\ end = 0 /\ where = 0 /\ lexer = "scan"
  /\ pc = "returned" =>
       p \in 1 .. Len(buf) /\ end \in 0 .. Len(buf) /\ where \in 0 .. Len(buf)
  /\ lexer \in {"string", "overrun"} => buf[p] = QUOTE
  /\ lexer = "string" => end \in p + 1 .. Len(buf)

LEMMA EndsAreBytes ==
  NUL \in Byte /\ NL \in Byte
BY TokenizerAssumption DEF Byte

LEMMA QuoteIs ==
  QUOTE # NUL /\ QUOTE # NL
BY Zenon DEF QUOTE, NUL, NL

(* What the steps of the tokenizer have in common.                         *)
LEMMA LexerStep ==
  ASSUME ReaderInv, LexerInv, pc = "returned", UNCHANGED readerVars,
         p' \in 1 .. Len(buf), end' \in 0 .. Len(buf), where' \in 0 .. Len(buf),
         lexer' \in {"scan", "string", "done", "error", "overrun"},
         tokens' \in Seq(TokenSet),
         lexer' \in {"string", "overrun"} => buf[p'] = QUOTE,
         lexer' = "string" => end' \in p' + 1 .. Len(buf)
  PROVE  LexerInv'
<1>1. pc' = pc /\ buf' = buf /\ Len(buf) \in Nat
  BY LenProperties DEF readerVars, ReaderInv
<1>2. p' \in Nat /\ end' \in Nat /\ where' \in Nat
  BY <1>1
<1>3. LexerTypeOK'
  BY <1>2 DEF LexerTypeOK, TokenSet, Byte
<1> QED
  BY <1>1, <1>3 DEF LexerInv

(* What they start from.                                                   *)
LEMMA LexerStarts ==
  ASSUME ReaderInv, LexerInv, pc = "returned"
  PROVE  /\ buf \in Seq(Byte) /\ Len(buf) \in Nat
         /\ p \in 1 .. Len(buf) /\ end \in 0 .. Len(buf) /\ where \in 0 .. Len(buf)
         /\ lexer \in {"scan", "string", "done", "error", "overrun"}
         /\ tokens \in Seq(TokenSet)
         /\ buf[Len(buf)] = NUL
<1>1. buf \in Seq(Byte) /\ Len(buf) \in Nat
  BY LenProperties DEF ReaderInv
<1>2. buf[Len(buf)] = NUL
  <2>1. TextTerminated
    BY DEF ReaderInv
  <2>2. CASE buf = <<NUL>>
    <3>1. Len(buf) = 1 /\ buf[1] = NUL
      BY <2>2
    <3> QED
      BY <3>1
  <2> QED
    BY <2>1, <2>2 DEF TextTerminated
<1> QED
  BY <1>1, <1>2 DEF LexerInv, LexerTypeOK, TokenSet, Byte

LEMMA NewTokenIs ==
  ASSUME tokens \in Seq(TokenSet),
         NEW kind \in TokenKinds, NEW spelling \in Seq(Byte), NEW val \in IntValues,
         new_token(kind, spelling, val)
  PROVE  tokens' \in Seq(TokenSet)
<1>1. Token(kind, spelling, val) \in TokenSet
  BY DEF Token, TokenSet
<1> QED
  BY <1>1, AppendProperties DEF new_token

(* A scan that stands on a character has one more to look at.              *)
LEMMA ScanningOn ==
  ASSUME ReaderInv, LexerInv, pc = "returned", Scanning
  PROVE  /\ lexer = "scan" /\ p + 1 \in 1 .. Len(buf)
         /\ buf[p] # NL => p + 2 \in 1 .. Len(buf)
<1>1. p \in 1 .. Len(buf) /\ buf[p] # NUL /\ lexer = "scan"
  BY LexerStarts DEF Scanning
<1>2. /\ Len(buf) \in Nat /\ p <= Len(buf) - 1
      /\ buf[p] # NL => p <= Len(buf) - 2
  BY <1>1, MoreFollows
<1> QED
  BY <1>1, <1>2

LEMMA ErrorInv ==
  ASSUME ReaderInv, LexerInv, pc = "returned", UNCHANGED readerVars,
         NEW loc \in 0 .. Len(buf), error_at(loc)
  PROVE  LexerInv'
BY LexerStarts, LexerStep DEF error_at

LEMMA SpaceInv ==
  ASSUME ReaderInv, LexerInv, pc = "returned", UNCHANGED readerVars, Space
  PROVE  LexerInv'
<1>1. p + 1 \in 1 .. Len(buf) /\ lexer = "scan"
  BY ScanningOn DEF Space
<1>2. p' = p + 1 /\ end' = end /\ tokens' = tokens /\ lexer' = "scan" /\ where' = where
  BY <1>1 DEF Space, AfterSpace
<1> QED
  BY <1>1, <1>2, LexerStarts, LexerStep

LEMMA CharLiteralInv ==
  ASSUME ReaderInv, LexerInv, pc = "returned", UNCHANGED readerVars, CharLiteral
  PROVE  LexerInv'
<1> DEFINE escaped == buf[p + 1] = "\\"
           c    == IF escaped THEN buf[p + 2] ELSE buf[p + 1]
           last == IF escaped THEN p + 2 ELSE p + 1
<1>1. /\ p + 1 \in 1 .. Len(buf) /\ lexer = "scan" /\ p + 2 \in 1 .. Len(buf)
      /\ p \in 1 .. Len(buf) /\ Len(buf) \in Nat
  BY ScanningOn, LexerStarts DEF CharLiteral, NL
<1>2. last \in 1 .. Len(buf) /\ last + 1 \in 1 .. Len(buf)
  <2>1. CASE escaped
    <3>1. buf[p + 1] # NUL /\ buf[p + 1] # NL
      BY <2>1 DEF NL, NUL
    <3>2. p + 1 <= Len(buf) - 2
      BY <1>1, <3>1, MoreFollows
    <3> QED
      BY <1>1, <2>1, <3>2
  <2>2. CASE ~ escaped
    BY <1>1, <2>2
  <2> QED
    BY <2>1, <2>2
<1>3. c \in Byte
  BY <1>1, LexerStarts, ElementOfSeq
<1>4. CASE error_at(last) \/ error_at(0) \/ error_at(last + 1)
  <2>1. 0 \in 0 .. Len(buf) /\ last \in 0 .. Len(buf) /\ last + 1 \in 0 .. Len(buf)
    BY <1>1, <1>2
  <2> HIDE DEF last
  <2> QED
    BY <1>4, <2>1, ErrorInv
<1>5. CASE /\ ~ (escaped /\ c \notin DOMAIN Escapes)
           /\ buf[last + 1] = "'"
           /\ new_token("TK_NUM", <<>>, IF escaped THEN Escapes[c] ELSE Code[c])
           /\ p' = last + 2
           /\ UNCHANGED <<end, lexer, where>>
  <2>1. Code[c] \in 0 .. IntMax
    BY <1>3, TokenizerAssumption DEF Byte
  <2>2. ASSUME c \in DOMAIN Escapes
        PROVE  Escapes[c] \in 0 .. IntMax
    <3>1. NL \in Byte /\ NUL \in Byte
      BY EndsAreBytes
    <3>2. Code[NL] \in 0 .. IntMax /\ Code[NUL] \in 0 .. IntMax
      BY <3>1, TokenizerAssumption DEF Byte
    <3> HIDE DEF c
    <3> QED
      BY <2>1, <2>2, <3>2 DEF Escapes
  <2>3. (IF escaped THEN Escapes[c] ELSE Code[c]) \in IntValues
    <3>1. (IF escaped THEN Escapes[c] ELSE Code[c]) \in 0 .. IntMax
      BY <1>5, <2>1, <2>2
    <3> QED
      BY <3>1, IntsAre
  <2>4. tokens' \in Seq(TokenSet)
    <3> DEFINE v == IF escaped THEN Escapes[c] ELSE Code[c]
    <3>1. v \in IntValues /\ new_token("TK_NUM", <<>>, v)
      BY <1>5, <2>3
    <3>2. tokens \in Seq(TokenSet) /\ <<>> \in Seq(Byte)
      BY LexerStarts, EmptySeq, Zenon
    <3>3. "TK_NUM" \in TokenKinds
      BY DEF TokenKinds
    <3> HIDE DEF v
    <3> QED
      BY <3>1, <3>2, <3>3, NewTokenIs
  <2>5. last + 2 \in 1 .. Len(buf)
    <3>1. buf[last + 1] # NUL /\ buf[last + 1] # NL
      BY <1>5 DEF NL, NUL
    <3>2. last + 1 <= Len(buf) - 1
      <4> HIDE DEF last
      <4> QED
        BY <1>2, <3>1, MoreFollows
    <3> HIDE DEF last
    <3> QED
      BY <1>1, <1>2, <3>2
  <2> HIDE DEF last
  <2> QED
    BY <1>1, <1>5, <2>4, <2>5, LexerStarts, LexerStep
<1> QED
  BY <1>4, <1>5 DEF CharLiteral

LEMMA StringInv ==
  ASSUME ReaderInv, LexerInv, pc = "returned", UNCHANGED readerVars, String
  PROVE  LexerInv'
<1>1. p + 1 \in 1 .. Len(buf) /\ buf[p] = QUOTE
  BY ScanningOn DEF String
<1>2. /\ p' = p /\ end' = p + 1 /\ tokens' = tokens /\ lexer' = "string"
      /\ where' = where
  BY DEF String
<1>3. p + 1 \in 0 .. Len(buf) /\ p + 1 \in p + 1 .. Len(buf)
  <2>1. p \in 1 .. Len(buf) /\ Len(buf) \in Nat
    BY LexerStarts
  <2> QED
    BY <1>1, <2>1
<1> QED
  BY <1>1, <1>2, <1>3, LexerStarts, LexerStep

LEMMA StringStepInv ==
  ASSUME ReaderInv, LexerInv, pc = "returned", UNCHANGED readerVars, StringStep
  PROVE  LexerInv'
<1>1. /\ buf[p] = QUOTE /\ end \in p + 1 .. Len(buf)
      /\ p' = p /\ tokens' = tokens /\ where' = where
  BY DEF StringStep, LexerInv
<1>2. CASE NextEnd <= Len(buf) /\ end' = NextEnd /\ lexer' = lexer
  <2>1. NextEnd \in p + 1 .. Len(buf) /\ NextEnd \in 0 .. Len(buf)
    <3>1. p \in 1 .. Len(buf) /\ Len(buf) \in Nat
      BY LexerStarts
    <3>2. NextEnd \in {end + 1, end + 3}
      BY DEF NextEnd
    <3> HIDE DEF NextEnd
    <3> QED
      BY <1>1, <1>2, <3>1, <3>2
  <2>2. lexer' = "string"
    BY <1>2 DEF StringStep
  <2> HIDE DEF NextEnd
  <2> QED
    BY <1>1, <1>2, <2>1, <2>2, LexerStarts, LexerStep
<1>3. CASE lexer' = "overrun" /\ end' = end
  BY <1>1, <1>3, LexerStarts, LexerStep
<1> QED
  BY <1>2, <1>3 DEF StringStep

LEMMA StringEndsInv ==
  ASSUME ReaderInv, LexerInv, pc = "returned", UNCHANGED readerVars, StringEnds
  PROVE  LexerInv'
<1>1. /\ buf[end] = QUOTE /\ end \in p + 1 .. Len(buf)
      /\ p' = end + 1 /\ end' = end /\ lexer' = "scan" /\ where' = where
  BY DEF StringEnds, LexerInv
<1>2. p \in 1 .. Len(buf) /\ Len(buf) \in Nat /\ buf \in Seq(Byte)
  BY LexerStarts
<1>3. end \in 1 .. Len(buf)
  <2>1. p \in Nat /\ p >= 1 /\ end \in p + 1 .. Len(buf)
    BY <1>1, <1>2
  <2> QED
    BY <1>2, <2>1
<1>4. end + 1 \in 1 .. Len(buf)
  <2>1. buf[end] # NUL
    BY <1>1, QuoteIs
  <2>2. end <= Len(buf) - 1
    BY <1>3, <2>1, MoreFollows
  <2> QED
    BY <1>2, <1>3, <2>2
<1>5. SubSeq(buf, p + 1, end - 1) \in Seq(Byte)
  <2>1. p + 1 \in Nat /\ end - 1 \in Nat
    BY <1>2, <1>3
  <2>2. \A i \in p + 1 .. end - 1 : buf[i] \in Byte
    <3> TAKE i \in p + 1 .. end - 1
    <3>1. i \in 1 .. Len(buf)
      BY <1>2, <1>3
    <3> QED
      BY <1>2, <3>1, ElementOfSeq
  <2> QED
    BY <2>1, <2>2, SubSeqProperties
<1>6. tokens' \in Seq(TokenSet)
  <2>1. new_token("TK_STRING", SubSeq(buf, p + 1, end - 1), 0)
    BY DEF StringEnds
  <2>2. tokens \in Seq(TokenSet)
    BY LexerStarts
  <2>3. 0 \in IntValues /\ "TK_STRING" \in TokenKinds
    BY IntsAre DEF TokenKinds
  <2> QED
    BY <1>5, <2>1, <2>2, <2>3, NewTokenIs
<1> QED
  BY <1>1, <1>4, <1>6, LexerStarts, LexerStep

(* Behind what is here and does not end in NUL the scan may go on.         *)
LEMMA LexemeHere ==
  ASSUME ReaderInv, LexerInv, pc = "returned",
         NEW s, Len(s) \in Nat \ {0}, s[Len(s)] # NUL, StartsWith(s)
  PROVE  s \in Seq(Byte) /\ p + Len(s) \in 1 .. Len(buf)
<1> DEFINE k == Len(s)
           n == Len(buf)
<1>1. buf \in Seq(Byte) /\ n \in Nat /\ p \in 1 .. n
  BY LexerStarts
<1>2. s \in Seq(Byte) /\ p + (k - 1) \in 1 .. n /\ buf[p + (k - 1)] = s[k]
  BY <1>1, StartsWithIs
<1>3. p + (k - 1) <= n - 1
  BY <1>2, MoreFollows
<1>4. k \in Nat
  OBVIOUS
<1> HIDE DEF k, n
<1>5. p + k \in 1 .. n
  BY <1>1, <1>2, <1>3, <1>4
<1> QED
  BY <1>2, <1>5 DEF k, n

LEMMA LineCommentInv ==
  ASSUME ReaderInv, LexerInv, pc = "returned", UNCHANGED readerVars, LineComment
  PROVE  LexerInv'
<1> DEFINE n    == Len(buf)
           ends == {i \in p + 2 .. n : buf[i] = NL}
           open == <<"/", "/">>
<1>1. Len(open) = 2 /\ open[2] = "/" /\ StartsWith(open)
  BY DEF LineComment
<1>2. buf \in Seq(Byte) /\ n \in Nat /\ p \in 1 .. n /\ lexer = "scan"
  BY LexerStarts DEF LineComment, Scanning
<1>3. p + 1 \in 1 .. n /\ buf[p + 1] = "/"
  <2> HIDE DEF open
  <2>1. Len(open) \in Nat \ {0}
    BY <1>1
  <2>2. p + (Len(open) - 1) \in 1 .. n /\ buf[p + (Len(open) - 1)] = open[Len(open)]
    BY <1>1, <1>2, <2>1, StartsWithIs
  <2>3. p + (Len(open) - 1) = p + 1
    BY <1>1, <1>2
  <2> QED
    BY <1>1, <2>2, <2>3
<1>4. p + 1 <= n - 2
  <2>1. buf[p + 1] # NUL /\ buf[p + 1] # NL
    BY <1>3 DEF NUL, NL
  <2> QED
    BY <1>3, <2>1, MoreFollows
<1>5. n - 1 \in ends
  <2>1. TextTerminated
    BY DEF ReaderInv
  <2>2. buf # <<NUL>>
    <3>1. CASE buf = <<NUL>>
      <4>1. n = 1
        BY <3>1
      <4> HIDE DEF n
      <4> QED
        BY <1>2, <1>4, <4>1
    <3> QED
      BY <3>1
  <2>3. buf[n - 1] = NL
    BY <2>1, <2>2 DEF TextTerminated
  <2> HIDE DEF n
  <2>4. n - 1 \in p + 2 .. n
    BY <1>2, <1>4
  <2> QED
    BY <2>3, <2>4
<1>6. Min(ends) \in ends
  <2>1. ends \in SUBSET Nat
    BY <1>2
  <2> HIDE DEF ends
  <2> QED
    BY <1>5, <2>1, MinOfInterval
<1>7. p' = Min(ends) /\ lexer' = lexer
  BY <1>5 DEF LineComment
<1>8. p' \in 1 .. n
  <2>1. p' \in p + 2 .. n
    BY <1>6, <1>7
  <2> HIDE DEF n, ends
  <2> QED
    BY <1>2, <2>1
<1>9. end' = end /\ tokens' = tokens /\ where' = where
  BY DEF LineComment
<1> HIDE DEF ends
<1> QED
  BY <1>2, <1>7, <1>8, <1>9, LexerStarts, LexerStep

LEMMA BlockCommentInv ==
  ASSUME ReaderInv, LexerInv, pc = "returned", UNCHANGED readerVars, BlockComment
  PROVE  LexerInv'
<1> DEFINE n    == Len(buf)
           ends == {i \in p + 2 .. n - 1 :
                      /\ buf[i] = "*" /\ buf[i + 1] = "/"
                      /\ \A j \in p + 2 .. i : buf[j] # NUL}
           m    == Min(ends)
<1>1. n \in Nat /\ p \in 1 .. n /\ lexer = "scan"
  BY LexerStarts DEF BlockComment, Scanning
<1>2. CASE ends = {}
  <2>1. error_at(0)
    BY <1>2 DEF BlockComment
  <2>2. 0 \in 0 .. n
    BY <1>1
  <2> QED
    BY <2>1, <2>2, ErrorInv
<1>3. CASE ends # {}
  <2>1. /\ p' = m + 2 /\ end' = end /\ tokens' = tokens /\ lexer' = lexer
        /\ where' = where
    BY <1>3 DEF BlockComment
  <2>2. m \in ends
    <3>1. ends \in SUBSET Nat
      BY <1>1
    <3> HIDE DEF ends
    <3> QED
      BY <1>3, <3>1, MinOfInterval
  <2>3. m \in p + 2 .. n - 1 /\ buf[m + 1] = "/"
    BY <2>2
  <2> HIDE DEF m, ends
  <2>4. m + 1 \in 1 .. n
    <3> HIDE DEF n
    <3> QED
      BY <1>1, <2>3
  <2>5. m + 1 <= n - 1
    <3>1. buf[m + 1] # NUL
      BY <2>3 DEF NUL
    <3> QED
      BY <2>4, <3>1, MoreFollows
  <2>6. p' \in 1 .. n
    <3> HIDE DEF n
    <3> QED
      BY <1>1, <2>1, <2>3, <2>5
  <2> QED
    BY <1>1, <2>1, <2>6, LexerStarts, LexerStep
<1> QED
  BY <1>2, <1>3

(* The steps that make a token of what is here.                            *)
LEMMA LexemeTaken ==
  ASSUME ReaderInv, LexerInv, pc = "returned", UNCHANGED readerVars, Scanning,
         NEW kind \in TokenKinds, NEW s \in Seq(Byte), NEW val \in IntValues,
         new_token(kind, s, val),
         p' \in 1 .. Len(buf), UNCHANGED <<end, lexer, where>>
  PROVE  LexerInv'
<1>1. tokens' \in Seq(TokenSet)
  BY LexerStarts, NewTokenIs
<1>2. lexer' = "scan" /\ end' = end /\ where' = where
  BY DEF Scanning
<1> QED
  BY <1>1, <1>2, LexerStarts, LexerStep

LEMMA PunctInv ==
  ASSUME ReaderInv, LexerInv, pc = "returned", UNCHANGED readerVars, Punct
  PROVE  LexerInv'
<1>1. PICK s \in PunctsHere : new_token("TK_PUNCT", s, 0) /\ p' = p + Len(s)
  BY DEF Punct
<1>2. Len(s) \in Nat \ {0} /\ s[Len(s)] # NUL /\ StartsWith(s)
  <2>1. CASE s \in TwoCharPuncts /\ StartsWith(s)
    <3>1. Len(s) = 2 /\ s[2] # NUL
      BY <2>1 DEF TwoCharPuncts, NUL
    <3> QED
      BY <2>1, <3>1
  <2>2. CASE s = <<".", ".", ".">> /\ StartsWith(s)
    <3>1. Len(s) = 3 /\ s[3] = "."
      BY <2>2
    <3>2. "." # NUL
      BY DEF NUL
    <3> QED
      BY <2>2, <3>1, <3>2
  <2>3. CASE \E c \in OneCharPuncts : s = <<c>> /\ StartsWith(s)
    <3>1. PICK c \in OneCharPuncts : s = <<c>> /\ StartsWith(s)
      BY <2>3
    <3>2. Len(s) = 1 /\ s[1] = c
      BY <3>1
    <3>3. c # NUL
      BY DEF OneCharPuncts, NUL
    <3> QED
      BY <3>1, <3>2, <3>3
  <2> QED
    BY <2>1, <2>2, <2>3 DEF PunctsHere
<1>3. s \in Seq(Byte) /\ p + Len(s) \in 1 .. Len(buf)
  BY <1>2, LexemeHere
<1>4. Scanning /\ UNCHANGED <<end, lexer, where>>
  BY DEF Punct
<1>5. "TK_PUNCT" \in TokenKinds /\ 0 \in IntValues
  BY IntsAre DEF TokenKinds
<1> QED
  BY <1>1, <1>3, <1>4, <1>5, LexemeTaken

LEMMA KeywordInv ==
  ASSUME ReaderInv, LexerInv, pc = "returned", UNCHANGED readerVars, Keyword
  PROVE  LexerInv'
<1>1. PICK s \in KeywordsHere :
        new_token(KeywordKind[s], s, 0) /\ p' = p + Len(s)
  BY DEF Keyword
<1>2. s \in DOMAIN KeywordKind /\ StartsWith(s)
  BY DEF KeywordsHere
<1>3. s \in Seq(Letters) /\ s # <<>>
  BY <1>2, TokenizerAssumption
<1>4. Len(s) \in Nat \ {0}
  BY <1>3, LenProperties, EmptySeq
<1>5. s[Len(s)] # NUL
  <2>1. Len(s) \in 1 .. Len(s)
    BY <1>4
  <2>2. s[Len(s)] \in Letters
    BY <1>3, <2>1, ElementOfSeq
  <2> QED
    BY <2>2, TokenizerAssumption DEF WordChars
<1>6. s \in Seq(Byte) /\ p + Len(s) \in 1 .. Len(buf)
  BY <1>2, <1>4, <1>5, LexemeHere
<1>7. Scanning /\ UNCHANGED <<end, lexer, where>>
  BY DEF Keyword
<1>8. KeywordKind[s] \in TokenKinds /\ 0 \in IntValues
  BY IntsAre, <1>2 DEF TokenKinds
<1> QED
  BY <1>1, <1>6, <1>7, <1>8, LexemeTaken

LEMMA IdentInv ==
  ASSUME ReaderInv, LexerInv, pc = "returned", UNCHANGED readerVars, Ident
  PROVE  LexerInv'
<1> DEFINE s == RunOf(WordChars)
<1>1. /\ Scanning /\ new_token("TK_IDENT", s, 0) /\ p' = p + Len(s)
      /\ UNCHANGED <<end, lexer, where>> /\ buf[p] \in WordChars
  BY DEF Ident, WordChars
<1>2. /\ buf \in Seq(Byte) /\ p \in 1 .. Len(buf) /\ Len(buf) \in Nat
      /\ buf[Len(buf)] \notin WordChars
  BY LexerStarts, TokenizerAssumption
<1>3. s \in Seq(Byte) /\ p + Len(s) \in p + 1 .. Len(buf)
  BY <1>1, <1>2, RunOfIs
<1> HIDE DEF s
<1>4. p' \in 1 .. Len(buf)
  BY <1>1, <1>2, <1>3
<1>5. "TK_IDENT" \in TokenKinds /\ 0 \in IntValues
  BY IntsAre DEF TokenKinds
<1> QED
  BY <1>1, <1>3, <1>4, <1>5, LexemeTaken

LEMMA NumberInv ==
  ASSUME ReaderInv, LexerInv, pc = "returned", UNCHANGED readerVars, Number
  PROVE  LexerInv'
<1> DEFINE s == RunOf(Digits)
<1>1. /\ Scanning /\ new_token("TK_NUM", <<>>, AsInt(strtol(s))) /\ p' = p + Len(s)
      /\ UNCHANGED <<end, lexer, where>> /\ buf[p] \in Digits
  BY DEF Number
<1>2. /\ buf \in Seq(Byte) /\ p \in 1 .. Len(buf) /\ Len(buf) \in Nat
      /\ buf[Len(buf)] \notin Digits
  BY LexerStarts, TokenizerAssumption DEF WordChars
<1>3. s \in Seq(Byte) /\ p + Len(s) \in p + 1 .. Len(buf)
  BY <1>1, <1>2, RunOfIs
<1> HIDE DEF s
<1>4. p' \in 1 .. Len(buf)
  BY <1>1, <1>2, <1>3
<1>5. "TK_NUM" \in TokenKinds
  BY DEF TokenKinds
<1>6. AsInt(strtol(s)) \in IntValues /\ <<>> \in Seq(Byte)
  <2>1. strtol(s) \in Int
    BY <1>3, DecimalValueIs, WidthsAre DEF strtol
  <2> QED
    BY <2>1, AsIntIs, EmptySeq
<1> QED
  BY <1>1, <1>4, <1>5, <1>6, LexemeTaken

LEMMA CannotTokenizeInv ==
  ASSUME ReaderInv, LexerInv, pc = "returned", UNCHANGED readerVars, CannotTokenize
  PROVE  LexerInv'
<1>1. error_at(p) /\ p \in 0 .. Len(buf)
  BY LexerStarts DEF CannotTokenize
<1> QED
  BY <1>1, ErrorInv

LEMMA EofInv ==
  ASSUME ReaderInv, LexerInv, pc = "returned", UNCHANGED readerVars, Eof
  PROVE  LexerInv'
<1>1. /\ new_token("TK_EOF", <<>>, 0) /\ lexer' = "done"
      /\ p' = p /\ end' = end /\ where' = where
  BY DEF Eof
<1>2. "TK_EOF" \in TokenKinds /\ 0 \in IntValues
  BY IntsAre DEF TokenKinds
<1>3. <<>> \in Seq(Byte) /\ tokens \in Seq(TokenSet)
  BY LexerStarts, EmptySeq
<1>4. tokens' \in Seq(TokenSet)
  BY <1>1, <1>2, <1>3, NewTokenIs
<1> QED
  BY <1>1, <1>4, LexerStarts, LexerStep

(* The tokenizer starts on a text that has its NUL.                        *)
LEMMA ReadInv ==
  ASSUME ReaderInv, LexerInv, Read
  PROVE  LexerInv'
<1>1. pc # "returned"
  BY DEF Read, ReaderNext, ReaderStep, BadArgnum, CallReadStdin, ReallocFails,
         ReadMore, OpenFails, OpenFile, FtellFails, CallocFails, Zeroed,
         FreadFile, FreadOverruns, FileChanges
<1>2. /\ p' = 1 /\ end' = 0 /\ where' = 0 /\ lexer' = "scan"
      /\ LexerTypeOK'
  BY <1>1 DEF Read, LexerInv, LexerTypeOK, lexerVars
<1>3. ReaderInv'
  BY ReaderNextInv DEF Read
<1>4. pc' = "returned" => Len(buf') \in Nat /\ Len(buf') >= 1
  <2> SUFFICES ASSUME pc' = "returned"
               PROVE  Len(buf') \in Nat /\ Len(buf') >= 1
    OBVIOUS
  <2>1. TextTerminated' /\ Len(buf') \in Nat
    BY <1>3, LenProperties DEF ReaderInv
  <2>2. CASE buf' = <<NUL>>
    <3>1. Len(buf') = 1
      BY <2>2
    <3> QED
      BY <3>1
  <2>3. CASE Len(buf') >= 2
    BY <2>1, <2>3
  <2> QED
    BY <2>1, <2>2, <2>3 DEF TextTerminated
<1>5. pc' = "returned" =>
        p' \in 1 .. Len(buf') /\ end' \in 0 .. Len(buf') /\ where' \in 0 .. Len(buf')
  BY <1>2, <1>4
<1> QED
  BY <1>2, <1>5 DEF LexerInv

LEMMA LexerNextInv ==
  ASSUME ReaderInv, LexerInv, Tokenize
  PROVE  LexerInv'
<1>1. pc = "returned" /\ LexerNext /\ UNCHANGED readerVars
  BY DEF Tokenize
<1> QED
  BY <1>1, SpaceInv, CharLiteralInv, StringInv, StringStepInv, StringEndsInv,
     LineCommentInv, BlockCommentInv, PunctInv, KeywordInv, IdentInv, NumberInv,
     CannotTokenizeInv, EofInv DEF LexerNext

LEMMA LexerInvHolds ==
  Spec => [](ReaderInv /\ LexerInv)
<1>1. Init => LexerInv
  <2> SUFFICES ASSUME Init
               PROVE  LexerInv
    OBVIOUS
  <2>1. pc = "start" /\ p = 1 /\ end = 0 /\ tokens = <<>> /\ lexer = "scan" /\ where = 0
    BY DEF Init, ReaderInit, LexerInit
  <2>2. LexerTypeOK
    BY <2>1, EmptySeq DEF LexerTypeOK
  <2> QED
    BY <2>1, <2>2 DEF LexerInv
<1>2. ReaderInv /\ LexerInv /\ [Next]_vars => LexerInv'
  <2> SUFFICES ASSUME ReaderInv, LexerInv, [Next]_vars
               PROVE  LexerInv'
    OBVIOUS
  <2>1. CASE UNCHANGED vars
    BY <2>1 DEF vars, readerVars, lexerVars, LexerInv, LexerTypeOK
  <2> QED
    BY <2>1, ReadInv, LexerNextInv DEF Next
<1> QED
  BY <1>1, <1>2, ReaderInvHolds, PTL DEF Spec

(* Whatever the text is, only the scan of a string can leave the buffer.   *)
THEOREM OnlyStringsLeaveBuffer ==
  Spec => []OnlyStringsOverrun
<1>1. LexerInv => OnlyStringsOverrun
  BY DEF LexerInv, OnlyStringsOverrun
<1> QED
  BY <1>1, LexerInvHolds, PTL

(* The count read_stdin passes to fread is positive, p and end stay in the *)
(* buffer, and what has been made so far is a list of tokens.              *)
THEOREM FrontEndTypeCorrect ==
  Spec => []TypeOK
<1>1. ReaderInv /\ LexerInv => TypeOK
  BY DEF ReaderInv, LexerInv, TypeOK
<1> QED
  BY <1>1, LexerInvHolds, PTL

-----------------------------------------------------------------------------
(* The line an error shows                                                 *)

(* An error inside the text: the line starts after a newline or at the     *)
(* first character, ends before one, and has none in it.                   *)
LEMMA LineOf ==
  ASSUME buf \in Seq(Byte), NEW loc \in 1 .. Len(buf), NEW q \in loc .. Len(buf),
         buf[q] = NL
  PROVE  /\ LineStart(loc) \in 1 .. loc
         /\ LineEnd(loc) \in loc .. Len(buf)
         /\ buf[LineEnd(loc)] = NL
         /\ \A i \in LineStart(loc) .. LineEnd(loc) - 1 :
              i \in 1 .. Len(buf) /\ buf[i] # NL
<1> DEFINE n      == Len(buf)
           Starts == {1} \cup {i \in 2 .. loc : buf[i - 1] = NL}
           Ends   == {i \in loc .. n : buf[i] = NL}
           a      == LineStart(loc)
           b      == LineEnd(loc)
<1>1. n \in Nat /\ loc \in 1 .. n /\ q \in loc .. n
  BY LenProperties
<1>2. a \in Starts /\ \A i \in Starts : i <= a
  <2>1. Starts \in SUBSET (1 .. loc) /\ Starts # {} /\ loc \in Nat
    BY <1>1
  <2> HIDE DEF Starts
  <2>2. Max(Starts) \in Starts /\ \A i \in Starts : i <= Max(Starts)
    BY <2>1, MaxOfInterval
  <2> QED
    BY <2>2 DEF LineStart, Starts
<1>3. b \in Ends /\ \A i \in Ends : b <= i
  <2>1. Ends \in SUBSET Nat /\ Ends # {}
    BY <1>1
  <2> HIDE DEF Ends
  <2>2. Min(Ends) \in Ends /\ \A i \in Ends : Min(Ends) <= i
    BY <2>1, MinOfInterval
  <2> QED
    BY <2>2 DEF LineEnd, Ends
<1> HIDE DEF a, b, n
<1>4. a \in 1 .. loc /\ b \in loc .. n /\ buf[b] = NL
  BY <1>1, <1>2, <1>3
<1>5. ASSUME NEW i \in a .. b - 1
      PROVE  i \in 1 .. n /\ buf[i] # NL
  <2>1. i \in 1 .. n /\ i \in Nat
    BY <1>1, <1>4
  <2>2. CASE i >= loc
    <3>1. ~ (b <= i) /\ i \in loc .. n
      BY <1>1, <1>4, <2>1, <2>2
    <3>2. i \notin Ends
      BY <1>3, <3>1, Zenon
    <3> QED
      BY <2>1, <3>1, <3>2
  <2>3. CASE i < loc
    <3>1. ~ (i + 1 <= a) /\ i + 1 \in 2 .. loc /\ (i + 1) - 1 = i
      BY <1>1, <1>4, <2>1, <2>3
    <3>2. i + 1 \notin Starts
      BY <1>2, <3>1, Zenon
    <3> QED
      BY <2>1, <3>1, <3>2
  <2> QED
    BY <1>1, <2>1, <2>2, <2>3
<1> QED
  BY <1>4, <1>5 DEF a, b, n

(* What an error at a character of the text prints is the line the         *)
(* character is in, by its number, with the ^ under it.                    *)
THEOREM ErrorsAreLocated ==
  Spec => []ErrorsNameTheLine
<1>1. ReaderInv /\ LexerInv => ErrorsNameTheLine
  <2> DEFINE r == Report(where)
             a == LineStart(where)
             b == LineEnd(where)
             n == Len(buf)
  <2> SUFFICES ASSUME ReaderInv, LexerInv,
                      lexer = "error", where # 0, buf[where] # NUL
               PROVE  /\ NL \notin Range(r.line)
                      /\ r.num = 1 + Cardinality({i \in 1 .. where - 1 : buf[i] = NL})
                      /\ r.pos <= Len(r.line)
                      /\ buf[where] # NL => r.line[r.pos + 1] = buf[where]
    BY Zenon DEF ErrorsNameTheLine
  <2>1. pc = "returned"
    BY DEF LexerInv
  <2>2. buf \in Seq(Byte) /\ n \in Nat /\ where \in 1 .. n
    BY <2>1, LexerStarts
  <2>3. PICK q \in where .. n : buf[q] = NL
    <3>1. where <= n - 1
      BY <2>1, <2>2, MoreFollows
    <3>2. TextTerminated
      BY DEF ReaderInv
    <3>3. buf # <<NUL>>
      <4>1. CASE buf = <<NUL>>
        <5>1. n = 1
          BY <4>1
        <5> HIDE DEF n
        <5> QED
          BY <2>2, <3>1, <5>1
      <4> QED
        BY <4>1
    <3>4. buf[n - 1] = NL
      BY <2>1, <3>2, <3>3 DEF TextTerminated
    <3>5. n - 1 \in where .. n
      <4> HIDE DEF n
      <4> QED
        BY <2>2, <3>1
    <3> QED
      BY <3>4, <3>5
  <2>4. /\ a \in 1 .. where /\ b \in where .. n
        /\ buf[b] = NL
        /\ \A i \in a .. b - 1 : i \in 1 .. n /\ buf[i] # NL
    BY <2>2, <2>3, LineOf
  <2> DEFINE line == SubSeq(buf, a, b - 1)
  <2>5. /\ r.num = LineNum(where) /\ r.line = line /\ r.pos = where - a
    BY DEF Report
  <2> HIDE DEF r, a, b
  <2>6. /\ line \in Seq(Byte) /\ Len(line) = b - a
        /\ \A i \in 1 .. b - a : line[i] = buf[a + i - 1]
    <3>1. a \in Nat /\ b - 1 \in Nat
      <4> HIDE DEF n
      <4> QED
        BY <2>2, <2>4
    <3>2. \A i \in a .. b - 1 : buf[i] \in Byte
      BY <2>2, <2>4, ElementOfSeq
    <3>3. /\ line \in Seq(Byte)
          /\ Len(line) = IF a <= b - 1 THEN (b - 1) - a + 1 ELSE 0
          /\ \A i \in 1 .. (b - 1) - a + 1 : line[i] = buf[a + i - 1]
      BY <3>1, <3>2, SubSeqProperties
    <3>4. (b - 1) - a + 1 = b - a /\ (~ (a <= b - 1) => b - a = 0)
      <4> HIDE DEF n
      <4> QED
        BY <2>2, <2>4, <3>1
    <3> HIDE DEF line
    <3> QED
      BY <3>3, <3>4
  <2> HIDE DEF line, n
  <2>7. NL \notin Range(line)
    <3> SUFFICES ASSUME NEW i \in 1 .. Len(line)
                 PROVE  line[i] # NL
      <4>1. DOMAIN line = 1 .. Len(line)
        BY <2>6
      <4> QED
        BY <4>1, Zenon DEF Range
    <3>1. i \in 1 .. b - a /\ a + i - 1 \in a .. b - 1
      BY <2>2, <2>4, <2>6
    <3> QED
      BY <2>4, <2>6, <3>1
  <2>8. r.num = 1 + Cardinality({i \in 1 .. where - 1 : buf[i] = NL})
    <3>1. {i \in 1 .. a - 1 : buf[i] = NL} = {i \in 1 .. where - 1 : buf[i] = NL}
      <4>1. ASSUME NEW i \in 1 .. a - 1
            PROVE  i \in 1 .. where - 1
        BY <2>2, <2>4
      <4>2. ASSUME NEW i \in 1 .. where - 1, buf[i] = NL
            PROVE  i \in 1 .. a - 1
        <5>1. i \notin a .. b - 1
          BY <2>4, <4>2
        <5> QED
          BY <2>2, <2>4, <5>1
      <4> QED
        BY <4>1, <4>2
    <3> QED
      BY <2>5, <3>1 DEF LineNum, a
  <2>9. r.pos <= Len(r.line)
    BY <2>2, <2>4, <2>5, <2>6
  <2>10. ASSUME buf[where] # NL
         PROVE  r.line[r.pos + 1] = buf[where]
    <3>1. b # where
      BY <2>4, <2>10
    <3>2. /\ where - a + 1 \in 1 .. b - a
          /\ a + (where - a + 1) - 1 = where
      BY <2>2, <2>4, <3>1
    <3> QED
      BY <2>5, <2>6, <3>2
  <2> QED
    BY <2>5, <2>7, <2>8, <2>9, <2>10
<1> QED
  BY <1>1, LexerInvHolds, PTL

=============================================================================
