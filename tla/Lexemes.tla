------------------------------- MODULE Lexemes ------------------------------
(***************************************************************************)
(* What the tokens of a text are by the rules of C (C11 6.4): from each    *)
(* place on, the longest lexeme there is.  Written without looking at how  *)
(* tokenize finds them.                                                    *)
(***************************************************************************)
EXTENDS Source, FiniteSetsExt, SequencesExt

CONSTANTS
  Letters, Digits,  \* characters of identifiers; Letters contains "_"
  Code,             \* the number of each character
  KeywordKind,      \* the keywords, as sequences of characters, to their kind
  IntMax            \* the greatest int, 2^31 - 1

WordChars  == Letters \cup Digits
VT         == "VT"   \* the vertical tab
Blanks     == {" ", "\t", NL, VT, "\f", "\r"}
PunctChars == {"[", "]", "(", ")", "{", "}", ".", "-", ">", "+", "&", "*", "~", "!",
               "/", "%", "<", "=", "^", "|", "?", ":", ";", ",", "#"}

IsWord(s) == s[1] \in Letters /\ Range(s) \subseteq WordChars

(* 6.4.8: a preprocessing number takes everything a word could have.       *)
IsNumber(s) ==
  /\ s[1] \in Digits \/ (s[1] = "." /\ Len(s) >= 2 /\ s[2] \in Digits)
  /\ Range(s) \subseteq WordChars \cup {"."}

Punctuators ==
  {<<"[">>, <<"]">>, <<"(">>, <<")">>, <<"{">>, <<"}">>, <<".">>,
   <<"-", ">">>, <<"+", "+">>, <<"-", "-">>, <<"&">>, <<"*">>, <<"+">>,
   <<"-">>, <<"~">>, <<"!">>, <<"/">>, <<"%">>, <<"<", "<">>, <<">", ">">>,
   <<"<">>, <<">">>, <<"<", "=">>, <<">", "=">>, <<"=", "=">>, <<"!", "=">>,
   <<"^">>, <<"|">>, <<"&", "&">>, <<"|", "|">>, <<"?">>, <<":">>, <<";">>,
   <<".", ".", ".">>, <<"=">>, <<"*", "=">>, <<"/", "=">>, <<"%", "=">>,
   <<"+", "=">>, <<"-", "=">>, <<"<", "<", "=">>, <<">", ">", "=">>,
   <<"&", "=">>, <<"^", "=">>, <<"|", "=">>, <<",">>, <<"#">>, <<"#", "#">>}

(* A character is escaped by an odd number of backslashes in front of it.  *)
IsEscaped(s, i) ==
  LET run == {k \in 0 .. i - 1 : \A j \in i - k .. i - 1 : s[j] = "\\"}
  IN  Max(run) % 2 = 1

Quoted(s, quote) ==
  /\ Len(s) >= 2 /\ s[1] = quote /\ s[Len(s)] = quote
  /\ \A i \in 2 .. Len(s) : s[i] = quote => (i = Len(s)) # IsEscaped(s, i)
  /\ NL \notin Range(s)

IsString(s) == Quoted(s, QUOTE)
IsChar(s)   == Quoted(s, "'") /\ Len(s) >= 3

IsLineComment(s) ==
  /\ Len(s) >= 2 /\ s[1] = "/" /\ s[2] = "/"
  /\ NL \notin Range(s)

IsBlockComment(s) ==
  /\ Len(s) >= 4 /\ s[1] = "/" /\ s[2] = "*"
  /\ {i \in 3 .. Len(s) - 1 : s[i] = "*" /\ s[i + 1] = "/"} = {Len(s) - 1}

IsGap(s) == (Len(s) = 1 /\ s[1] \in Blanks) \/ IsLineComment(s) \/ IsBlockComment(s)

IsLexeme(s) ==
  IsWord(s) \/ IsNumber(s) \/ IsString(s) \/ IsChar(s) \/ IsGap(s)
    \/ s \in Punctuators

-----------------------------------------------------------------------------
(* Which of them mocc takes: comments without a NUL, where strstr stops,   *)
(* decimal numbers that are ints, characters with the escapes it knows,    *)
(* and the punctuators its grammar has.                                    *)
Escapes ==
  [c \in {"\\", "'", "n", "0"} |->
     CASE c = "n" -> Code[NL] [] c = "0" -> Code[NUL] [] OTHER -> Code[c]]

IsKnownChar(s) ==
  \/ Len(s) = 3 /\ s[2] # "\\"
  \/ Len(s) = 4 /\ s[2] = "\\" /\ s[3] \in DOMAIN Escapes

KnownPunctuators ==
  Punctuators \ {<<"~">>, <<"%">>, <<"^">>, <<"|">>, <<"<", "<">>, <<">", ">">>,
     <<"/", "=">>, <<"%", "=">>, <<"<", "<", "=">>, <<">", ">", "=">>,
     <<"&", "=">>, <<"^", "=">>, <<"|", "=">>, <<"#">>, <<"#", "#">>}

DecimalValue(s) ==
  LET value[k \in 0 .. Len(s)] ==
        IF k = 0 THEN 0 ELSE 10 * value[k - 1] + Code[s[k]] - Code["0"]
  IN  value[Len(s)]

(* Greater ones are of type long in C (C11 6.4.4.1).                       *)
IsDecimal(s) ==
  /\ Range(s) \subseteq Digits /\ (Len(s) = 1 \/ s[1] # "0")
  /\ DecimalValue(s) \in 0 .. IntMax

IsSupported(s) ==
  \/ IsWord(s) \/ IsString(s)
  \/ IsGap(s) /\ (IsBlockComment(s) => NUL \notin Range(s))
  \/ IsNumber(s) /\ IsDecimal(s)
  \/ IsChar(s) /\ IsKnownChar(s)
  \/ s \in KnownPunctuators

(* What a token is to the parser: its kind, its spelling or its value.     *)
Token(kind, spelling, val) == [kind |-> kind, spelling |-> spelling, val |-> val]

TokenOf(s) ==
  CASE IsWord(s) /\ s \in DOMAIN KeywordKind -> Token(KeywordKind[s], s, 0)
    [] IsWord(s) /\ s \notin DOMAIN KeywordKind -> Token("TK_IDENT", s, 0)
    [] IsString(s) -> Token("TK_STRING", SubSeq(s, 2, Len(s) - 1), 0)
    [] IsNumber(s) -> Token("TK_NUM", <<>>, DecimalValue(s))
    [] IsChar(s) -> Token("TK_NUM", <<>>, IF Len(s) = 3 THEN Code[s[2]] ELSE Escapes[s[3]])
    [] OTHER -> Token("TK_PUNCT", s, 0)

(* Where the longest lexeme from i on ends, 0 if there is none; what opens *)
(* a comment is nothing else.                                              *)
OpensComment(text, i) ==
  i < Len(text) /\ text[i] = "/" /\ text[i + 1] = "*"

LexemeEnd(text, i) ==
  Max({0} \cup {j \in i .. Len(text) :
                  LET s == SubSeq(text, i, j)
                  IN  IsLexeme(s) /\ (OpensComment(text, i) => IsBlockComment(s))})

(* The lexemes of a text, in order; <<>> ends them where there is none.    *)
LexemesFrom(text) ==
  LET from[i \in 1 .. Len(text) + 1] ==
        IF i > Len(text) THEN <<>>
        ELSE LET j == LexemeEnd(text, i)
             IN  IF j = 0 THEN << <<>> >> ELSE <<SubSeq(text, i, j)>> \o from[j + 1]
  IN  from

LexemesOf(text) == LexemesFrom(text)[1]

IsSupportedText(text) ==
  \A s \in Range(LexemesOf(text)) : s # <<>> /\ IsSupported(s)

(* The tokens from a place on: one for each lexeme that is no gap, and one *)
(* for the end.                                                            *)
TokensFrom(text) ==
  LET from[i \in 1 .. Len(text) + 1] ==
        IF i > Len(text) THEN <<Token("TK_EOF", <<>>, 0)>>
        ELSE LET j == LexemeEnd(text, i)
                 s == SubSeq(text, i, j)
             IN  IF j = 0 THEN <<>>
                 ELSE (IF IsGap(s) THEN <<>> ELSE <<TokenOf(s)>>) \o from[j + 1]
  IN  from

TokensOf(text) == TokensFrom(text)[1]
=============================================================================
