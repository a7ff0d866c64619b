------------------------------- MODULE Input --------------------------------
(***************************************************************************)
(* The reader of mocc.c: main chooses between read_stdin, which doubles    *)
(* its buffer until the stream ends, and read_file, which asks for the     *)
(* size first.  The file may change while it is read, a read may fail, and *)
(* what fread and realloc return is taken from their descriptions.         *)
(***************************************************************************)
EXTENDS Source, FiniteSets

CONSTANTS
  Files,        \* what the input may contain, sequences of bytes
  Rewrites,     \* what somebody else may write into the file meanwhile
  FirstCap      \* the size of read_stdin's first buffer, 1024 in the code

ASSUME InputAssumption ==
  /\ \A f \in Files \cup Rewrites : f \in Seq(STRING)
  /\ FirstCap \in Nat /\ FirstCap >= 3

VARIABLES
  argc, dash,   \* the number of arguments; does argv[1] begin with a dash
  pc,           \* "start", "read_stdin", "read_file", "returned", "failed",
                \* "overrun" after a write outside the buffer
  cap,          \* the size of the buffer
  ferror        \* the error flag of the stream

readerVars == <<argc, dash, file, pc, buf, cap, ferror>>

ReaderInit ==
  /\ argc \in 1 .. 3 /\ dash \in BOOLEAN
  /\ file \in Files
  /\ pc = "start"
  /\ buf = <<>> /\ cap = 0
  /\ ferror = FALSE

-----------------------------------------------------------------------------
Fail == pc' = "failed" /\ UNCHANGED <<argc, dash, file, buf, cap, ferror>>

BadArgnum == pc = "start" /\ argc # 2 /\ Fail

(* What one fread of up to request bytes may do when rest bytes are left:  *)
(* it returns fewer only at the end, which it reports, or after an error.  *)
Freads(rest, request) ==
  {[n |-> n, eof |-> n < request, err |-> FALSE] :
     n \in {IF rest < request THEN rest ELSE request}}
    \cup
  {[n |-> n, eof |-> FALSE, err |-> TRUE] :
     n \in {k \in 0 .. rest : k < request}}

CallReadStdin ==
  /\ pc = "start" /\ argc = 2 /\ dash
  /\ pc' = "read_stdin"
  /\ cap' = FirstCap
  /\ UNCHANGED <<argc, dash, file, buf, ferror>>

ReallocFails == pc = "read_stdin" /\ Fail

(* Fault: the two bytes for the newline and the NUL are not kept free.     *)
Request_all == cap - Len(buf)

Request == cap - Len(buf) - 2

(* Fault: any short count is taken for the end.                            *)
AtEnd_short(got) == got.n < Request

AtEnd(got) == got.eof

GivesUp(got) == got.n = 0 /\ (ferror \/ got.err)

(* Fault: the buffer keeps its size.                                       *)
NextCap_same == cap

NextCap == cap * 2

(* The byte before the end, looked for before the first byte when nothing  *)
(* was read: then before says what is found there.                         *)
Closed(bytes, before) ==
  IF bytes = <<>> /\ before = NL THEN <<NUL>> ELSE Terminated(bytes)

(* Once round the loop of read_stdin.                                      *)
ReadMore ==
  /\ pc = "read_stdin"
  /\ \E got \in Freads(Len(file) - Len(buf), Request), before \in {NL, NUL} :
       LET bytes == SubSeq(file, 1, Len(buf) + got.n)
       IN  /\ ferror' = (ferror \/ got.err)
           /\ IF GivesUp(got)
              THEN pc' = "failed" /\ UNCHANGED <<buf, cap>>
              ELSE IF AtEnd(got)
              THEN pc' = "returned" /\ buf' = Closed(bytes, before)
                     /\ UNCHANGED cap
              ELSE pc' = pc /\ buf' = bytes /\ cap' = NextCap
  /\ UNCHANGED <<argc, dash, file>>

-----------------------------------------------------------------------------
(* fopen or an fseek fails.                                                *)
OpenFails == pc = "start" /\ argc = 2 /\ ~ dash /\ Fail

(* read_file goes on with a buffer of so many zeros.                       *)
Zeroed(bytes) ==
  /\ pc = "start" /\ argc = 2 /\ ~ dash
  /\ pc' = "read_file"
  /\ cap' = bytes
  /\ buf' = [i \in 1 .. bytes |-> NUL]
  /\ UNCHANGED <<argc, dash, file, ferror>>

(* The size is known and a buffer of two bytes more is zeroed.             *)
OpenFile == Zeroed(Len(file) + 2)

(* ftell fails: size is (size_t)-1, two more than that is 1.               *)
FtellFails == Zeroed(1)

(* calloc fails: there is no buffer at all.                                *)
CallocFails == Zeroed(0)

(* Somebody else rewrites the file between the ftell and the fread.        *)
FileChanges ==
  /\ pc = "read_file"
  /\ file' \in Rewrites
  /\ UNCHANGED <<argc, dash, pc, buf, cap, ferror>>

Filled(n) == [i \in 1 .. cap - 2 |-> IF i <= n THEN file[i] ELSE NUL]

(* The fread, whose result nobody looks at.                                *)
FreadFile ==
  /\ pc = "read_file" /\ cap >= 2
  /\ \E got \in Freads(Len(file), cap - 2) :
       /\ buf' = Terminated(Filled(got.n))
       /\ ferror' = got.err
  /\ pc' = "returned"
  /\ UNCHANGED <<argc, dash, file, cap>>

(* The same after a failing ftell or calloc: what fread reads, at the      *)
(* latest the newline and the NUL, lands outside the buffer, and anything  *)
(* could follow.                                                           *)
FreadOverruns ==
  /\ pc = "read_file" /\ cap < 2
  /\ pc' = "overrun"
  /\ UNCHANGED <<argc, dash, file, buf, cap, ferror>>

-----------------------------------------------------------------------------
ReaderStep ==
  \/ BadArgnum
  \/ CallReadStdin \/ ReallocFails \/ ReadMore
  \/ OpenFails \/ OpenFile \/ FtellFails \/ CallocFails
  \/ FreadFile \/ FreadOverruns

ReaderNext == ReaderStep \/ FileChanges

(* The process's own progress: failing calls and the rewriting of the file *)
(* may happen or not.                                                      *)
ReaderProgress ==
  BadArgnum \/ CallReadStdin \/ ReadMore \/ OpenFile \/ FreadFile \/ FreadOverruns

-----------------------------------------------------------------------------
(* Type invariant: the count read_stdin passes to fread, a size_t, is not  *)
(* negative and not zero.                                                  *)
ReaderTypeOK ==
  /\ argc \in 1 .. 3 /\ dash \in BOOLEAN
  /\ file \in Files \cup Rewrites
  /\ pc \in {"start", "read_stdin", "read_file", "returned", "failed",
            "overrun"}
  /\ buf \in Seq(STRING)
  /\ cap \in Nat
  /\ ferror \in BOOLEAN
  /\ pc = "read_stdin" => Request \in Nat \ {0}

(* ftell has failed, and the buffer has one byte, or calloc, and it has    *)
(* none: read_file checks neither.                                         *)
FailedUnchecked == ~ dash /\ cap \in {0, 1}

(* What is stored, the newline and the NUL included, fits into the buffer  *)
(* at every fill level and whatever happens to the file (the cap - len - 2 *)
(* of read_stdin, the size + 2 of read_file); only a failing ftell or      *)
(* calloc, which read_file does not look at, makes it write outside.       *)
StaysInBuffer ==
  /\ pc = "read_stdin" => Len(buf) + 2 <= cap
  /\ pc = "returned" => Len(buf) <= cap
  /\ pc = "overrun" => FailedUnchecked

(* The text ends in a newline and a NUL, even when the file shrank or a    *)
(* read failed; only an empty stdin may give a NUL alone.  The scans for a *)
(* newline in tokenize and verror_at rely on it.                           *)
TextTerminated ==
  pc = "returned" =>
    \/ dash /\ file = <<>> /\ buf = <<NUL>>
    \/ Len(buf) >= 2 /\ buf[Len(buf) - 1] = NL /\ buf[Len(buf)] = NUL

(* A stream is delivered whole or not at all, also when its reads fail in  *)
(* between; so is a file, if its size did not change and it was readable   *)
(* (read_file does not look at the result of fread).                       *)
DeliversFile ==
  pc = "returned" /\ (dash \/ (Len(file) + 2 = cap /\ ~ ferror)) =>
    buf = Terminated(file) \/ (file = <<>> /\ buf = <<NUL>>)
=============================================================================
