------------------------------- MODULE Source -------------------------------
(***************************************************************************)
(* The text a compilation starts from, which the reader of mocc.c hands to *)
(* the tokenizer: characters are one-character strings.                    *)
(***************************************************************************)
EXTENDS Integers, Sequences

VARIABLES
  file,         \* the contents of the file or of the stream
  buf           \* the bytes stored in the buffer; at the end user_input

NL    == "\n"
NUL   == "NUL"
QUOTE == "\""

(* Fault: nothing is added at the end of the last line.                    *)
Terminated_bare(text) == Append(text, NUL)

(* The bytes with a newline at the end, unless there is one, and a NUL.    *)
Terminated(text) ==
  IF text # <<>> /\ text[Len(text)] = NL
  THEN Append(text, NUL)
  ELSE text \o <<NL, NUL>>
=============================================================================
