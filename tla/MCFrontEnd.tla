----------------------------- MODULE MCFrontEnd -----------------------------
(***************************************************************************)
(* FrontEnd for TLC: all texts up to a length over a few alphabets, one    *)
(* for each part of the language in which characters can be confused, and  *)
(* lengths that fill the reader's buffer of 3, 6, 12 bytes, leave one byte *)
(* free or need one more at every doubling.                                *)
(***************************************************************************)
EXTENDS FrontEnd

MCFirstCap == 3

(* An int of eight bits, a long of eleven.                                 *)
MCIntMax  == 127
MCLongMax == 1023

MCLetters == {"i", "f", "n", "_"}
MCDigits  == {"0", "1"}

MCCode ==
  "i" :> 105 @@ "f" :> 102 @@ "n" :> 110 @@ "_" :> 95 @@ "0" :> 48 @@ "1" :> 49
    @@ "\\" :> 92 @@ "'" :> 39 @@ "\"" :> 34 @@ NL :> 10 @@ NUL :> 0 @@ " " :> 32
    @@ "/" :> 47 @@ "*" :> 42 @@ "=" :> 61 @@ "-" :> 45 @@ ">" :> 62
    @@ "<" :> 60 @@ "+" :> 43 @@ "." :> 46 @@ "!" :> 33 @@ "&" :> 38 @@ "|" :> 124
    @@ "\t" :> 9 @@ VT :> 11 @@ "\f" :> 12 @@ "\r" :> 13

MCKeywordKind == <<"i", "f">> :> "TK_IF"

StringTexts   == BoundedSeq({"\"", "\\", "n"}, 5)
CommentTexts  == BoundedSeq({"/", "*", NL, "\""}, 5) \cup BoundedSeq({"/", "*", NUL}, 5)
WordTexts     == BoundedSeq({"i", "f", "1", "_", " "}, 4)
PunctTexts    == BoundedSeq({"-", ">", "=", "<", "+", "."}, 3)
OperatorTexts == BoundedSeq({"!", "&", "|", "1", "*"}, 3)
CharTexts     == BoundedSeq({"'", "\\", "0", NL}, 4)
LongTexts     == {Append([i \in 1 .. n |-> "n"], c) : n \in 5 .. 10, c \in {"n", NL}}
BlankTexts    == BoundedSeq({"\t", VT, "\f", "\r", "n"}, 2)
NulTexts      == BoundedSeq({"n", NUL, NL}, 3)

MCFiles == StringTexts \cup CommentTexts \cup WordTexts \cup PunctTexts
             \cup OperatorTexts \cup CharTexts \cup LongTexts \cup BlankTexts \cup NulTexts

MCRewrites == {<<>>, <<"/", "/", "n">>, <<"\"", "n", "\"", NL>>}
=============================================================================
