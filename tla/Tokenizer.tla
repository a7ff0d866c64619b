----------------------------- MODULE Tokenizer ------------------------------
(***************************************************************************)
(* tokenize (tokenize.c) on the text in the buffer: p walks over the       *)
(* buffer, each step makes one token or skips one gap, and the scan for    *)
(* the end of a string goes character by character.  A scan that leaves    *)
(* the buffer goes to "overrun", where anything could follow.  An error is *)
(* where verror_at (util.c) reports it.                                    *)
(***************************************************************************)
EXTENDS Lexemes

CONSTANT LongMax    \* the greatest long, 2^63 - 1

ASSUME TokenizerAssumption ==
  /\ Letters \cap Digits = {} /\ "_" \in Letters
  /\ IntMax \in Nat /\ LongMax \in Nat /\ IntMax <= LongMax
  /\ Code \in [DOMAIN Code -> 0 .. IntMax] /\ DOMAIN Code \subseteq STRING
  /\ WordChars \cup {"\\", "'", NL, NUL, "0"} \subseteq DOMAIN Code
  /\ WordChars \cap (Blanks \cup PunctChars \cup {NUL, QUOTE, "'", "\\"}) = {}
  /\ \A s \in DOMAIN KeywordKind : s \in Seq(Letters) /\ s # <<>>

VARIABLES
  p,            \* the index of the character looked at
  end,          \* the end of the string being scanned
  tokens,       \* the list of tokens from head.next on
  lexer,        \* "scan", "string", "done", "error", "overrun"
  where         \* the loc an error is reported at, 0 for none

lexerVars == <<p, end, tokens, lexer, where>>

LexerInit ==
  /\ p = 1 /\ end = 0
  /\ tokens = <<>>
  /\ lexer = "scan"
  /\ where = 0

-----------------------------------------------------------------------------
(* strncmp(p, s, strlen(s)) == 0.                                          *)
StartsWith(s) == SubSeq(buf, p, Min({p + Len(s) - 1, Len(buf)})) = s

isident(c) == c \in WordChars

isspace(c) == c \in Blanks

new_token(kind, spelling, val) ==
  tokens' = Append(tokens, Token(kind, spelling, val))

Scanning == lexer = "scan" /\ buf[p] # NUL

error_at(loc) ==
  /\ lexer' = "error" /\ where' = loc
  /\ UNCHANGED <<p, end, tokens>>

(* Fault: a p++ too many.                                                  *)
AfterSpace_two == p + 2

AfterSpace == p + 1

Space ==
  /\ Scanning /\ isspace(buf[p])
  /\ p' = AfterSpace
  /\ UNCHANGED <<end, tokens, lexer, where>>

(* The character after the opening quote, with its length in the text.     *)
CharLiteral ==
  /\ Scanning /\ buf[p] = "'"
  /\ LET escaped == buf[p + 1] = "\\"
         c    == IF escaped THEN buf[p + 2] ELSE buf[p + 1]
         last == IF escaped THEN p + 2 ELSE p + 1
     IN  CASE escaped /\ c \notin DOMAIN Escapes -> error_at(last)
           [] ~ escaped /\ c = "'" -> error_at(0)
           [] OTHER ->
                IF buf[last + 1] # "'" THEN error_at(last + 1)
                ELSE /\ new_token("TK_NUM", <<>>, IF escaped THEN Escapes[c] ELSE Code[c])
                     /\ p' = last + 2
                     /\ UNCHANGED <<end, lexer, where>>

String ==
  /\ Scanning /\ buf[p] = QUOTE
  /\ lexer' = "string" /\ end' = p + 1
  /\ UNCHANGED <<p, tokens, where>>

(* Where the loop looks next: after an escape, if one starts at end + 1.   *)
NextEnd ==
  IF end + 1 <= Len(buf) /\ buf[end + 1] = "\\" THEN end + 3 ELSE end + 1

StringStep ==
  /\ lexer = "string"
  /\ buf[end] # QUOTE
  /\ IF NextEnd <= Len(buf)
     THEN end' = NextEnd /\ UNCHANGED lexer
     ELSE lexer' = "overrun" /\ UNCHANGED end
  /\ UNCHANGED <<p, tokens, where>>

StringEnds ==
  /\ lexer = "string"
  /\ buf[end] = QUOTE
  /\ new_token("TK_STRING", SubSeq(buf, p + 1, end - 1), 0)
  /\ p' = end + 1
  /\ lexer' = "scan"
  /\ UNCHANGED <<end, where>>

LineComment ==
  /\ Scanning /\ StartsWith(<<"/", "/">>)
  /\ LET ends == {i \in p + 2 .. Len(buf) : buf[i] = NL}
     IN  IF ends # {} THEN p' = Min(ends) /\ UNCHANGED lexer
         ELSE lexer' = "overrun" /\ UNCHANGED p
  /\ UNCHANGED <<end, tokens, where>>

(* strstr stops at the NUL.                                                *)
BlockComment ==
  /\ Scanning /\ StartsWith(<<"/", "*">>)
  /\ LET ends == {i \in p + 2 .. Len(buf) - 1 :
                    /\ buf[i] = "*" /\ buf[i + 1] = "/"
                    /\ \A j \in p + 2 .. i : buf[j] # NUL}
     IN  IF ends = {} THEN error_at(0)
         ELSE p' = Min(ends) + 2 /\ UNCHANGED <<end, tokens, lexer, where>>

TwoCharPuncts ==
  {<<"<", "=">>, <<">", "=">>, <<"=", "=">>, <<"!", "=">>, <<"|", "|">>,
   <<"&", "&">>, <<"-", ">">>, <<"+", "+">>, <<"-", "-">>, <<"+", "=">>,
   <<"-", "=">>, <<"*", "=">>}

OneCharPuncts ==
  {"+", "-", "*", "/", "(", ")", "<", ">", "=", ";", "{", "}", ",", "&", "[",
   "]", ".", "!", "?", ":"}

(* Fault: the punctuators of one character come first.                     *)
PunctsHere_shortest ==
  {s \in {<<c>> : c \in OneCharPuncts} : StartsWith(s)}

(* The first in the order of the code.                                     *)
PunctsHere ==
  LET two   == {s \in TwoCharPuncts : StartsWith(s)}
      three == {s \in {<<".", ".", ".">>} : StartsWith(s)}
  IN  IF two # {} THEN two ELSE IF three # {} THEN three
      ELSE {s \in {<<c>> : c \in OneCharPuncts} : StartsWith(s)}

Punct ==
  /\ Scanning /\ ~ StartsWith(<<"/", "/">>) /\ ~ StartsWith(<<"/", "*">>)
  /\ \E s \in PunctsHere :
       /\ new_token("TK_PUNCT", s, 0)
       /\ p' = p + Len(s)
  /\ UNCHANGED <<end, lexer, where>>

KeywordsHere ==
  {s \in DOMAIN KeywordKind : StartsWith(s) /\ ~ isident(buf[p + Len(s)])}

Keyword ==
  /\ Scanning
  /\ \E s \in KeywordsHere :
       /\ new_token(KeywordKind[s], s, 0)
       /\ p' = p + Len(s)
  /\ UNCHANGED <<end, lexer, where>>

(* The run of characters from p on that are in a set.                      *)
RunOf(chars) ==
  SubSeq(buf, p, Min({i \in p .. Len(buf) : buf[i] \notin chars}) - 1)

Ident ==
  /\ Scanning /\ buf[p] \in Letters /\ KeywordsHere = {}
  /\ new_token("TK_IDENT", RunOf(WordChars), 0)
  /\ p' = p + Len(RunOf(WordChars))
  /\ UNCHANGED <<end, lexer, where>>

(* strtol in base 10 gives a long, the greatest one when the number is     *)
(* greater.                                                                *)
strtol(s) == IF DecimalValue(s) <= LongMax THEN DecimalValue(s) ELSE LongMax

(* A long stored in an int keeps its low bits.                             *)
AsInt(value) ==
  LET m == value % (2 * (IntMax + 1))
  IN  IF m <= IntMax THEN m ELSE m - 2 * (IntMax + 1)

Number ==
  /\ Scanning /\ buf[p] \in Digits
  /\ new_token("TK_NUM", <<>>, AsInt(strtol(RunOf(Digits))))
  /\ p' = p + Len(RunOf(Digits))
  /\ UNCHANGED <<end, lexer, where>>

CannotTokenize ==
  /\ Scanning
  /\ buf[p] \notin WordChars \cup Blanks \cup OneCharPuncts \cup {"'", QUOTE}
  /\ ~ \E s \in TwoCharPuncts : StartsWith(s)
  /\ error_at(p)

Eof ==
  /\ lexer = "scan" /\ buf[p] = NUL
  /\ new_token("TK_EOF", <<>>, 0)
  /\ lexer' = "done"
  /\ UNCHANGED <<p, end, where>>

LexerNext ==
  \/ Space \/ CharLiteral \/ String \/ StringStep \/ StringEnds
  \/ LineComment \/ BlockComment \/ Punct \/ Keyword \/ Ident \/ Number
  \/ CannotTokenize \/ Eof

-----------------------------------------------------------------------------
(* verror_at: the line of loc and its number.                              *)
LineStart(loc) ==
  Max({1} \cup {i \in 2 .. loc : buf[i - 1] = NL})

LineEnd(loc) == Min({i \in loc .. Len(buf) : buf[i] = NL})

(* Fault: the newline that ends the line is counted.                       *)
LineNum_next(loc) == 1 + Cardinality({i \in 1 .. LineEnd(loc) : buf[i] = NL})

LineNum(loc) == 1 + Cardinality({i \in 1 .. LineStart(loc) - 1 : buf[i] = NL})

(* What is printed: the line's number, the line, and where in it the ^ is. *)
Report(loc) ==
  [num  |-> LineNum(loc),
   line |-> SubSeq(buf, LineStart(loc), LineEnd(loc) - 1),
   pos  |-> loc - LineStart(loc)]

-----------------------------------------------------------------------------
TokenKinds ==
  {"TK_NUM", "TK_STRING", "TK_PUNCT", "TK_IDENT", "TK_EOF"}
    \cup {KeywordKind[s] : s \in DOMAIN KeywordKind}

IntValues == (- IntMax) - 1 .. IntMax

(* Type invariant: the value of every token is an int.                     *)
LexerTypeOK ==
  /\ p \in Nat /\ end \in Nat /\ where \in Nat
  /\ lexer \in {"scan", "string", "done", "error", "overrun"}
  /\ tokens \in Seq([kind : TokenKinds, spelling : Seq(DOMAIN Code), val : IntValues])

(* The text of the buffer without its NUL.                                 *)
text == SubSeq(buf, 1, Len(buf) - 1)

(* The scans for the end of a comment, a word or a number stay in the      *)
(* buffer whatever the text is: only a string can take p past the NUL.     *)
OnlyStringsOverrun == lexer = "overrun" => buf[p] = QUOTE

(* The tokens of a text in the supported language are those of C.          *)
TokensAsC ==
  lexer \in {"done", "error", "overrun"} /\ IsSupportedText(text) =>
    lexer = "done" /\ tokens = TokensOf(text)

(* Where the escapes of a string begin.                                    *)
EscapesIn(s) == {i \in 2 .. Len(s) - 1 : s[i] = "\\" /\ ~ IsEscaped(s, i)}

(* Those the loop in tokenize does not see: it looks one character ahead,  *)
(* so the one right behind the opening quote, and the one right behind an  *)
(* escape it has seen.                                                     *)
AreOverlooked(s, missed) ==
  missed = {i \in EscapesIn(s) : i = 2 \/ i - 2 \in EscapesIn(s) \ missed}

(* One of them matters: the quote or the backslash it escapes is taken for *)
(* the end or for an escape.                                               *)
HidesEscape(s) ==
  \A missed \in SUBSET EscapesIn(s) :
    AreOverlooked(s, missed) => \E i \in missed : s[i + 1] \in {QUOTE, "\\"}

HasHiddenEscape ==
  \E s \in Range(LexemesOf(text)) : s # <<>> /\ IsString(s) /\ HidesEscape(s)

(* Where no string has such an escape, the tokens of a text in the         *)
(* supported language are those of C: longest match of punctuators, words  *)
(* against keywords, quotes in comments and comments in strings.           *)
TokensAsCInPlainStrings == TokensAsC \/ HasHiddenEscape

(* An error's message shows the line the offending character is in, by its *)
(* number in the file and with the ^ under the character; at the very end  *)
(* of the text there is no line to show.                                   *)
ErrorsNameTheLine ==
  lexer = "error" /\ where # 0 /\ buf[where] # NUL =>
    LET r == Report(where)
    IN  /\ NL \notin Range(r.line)
        /\ r.num = 1 + Cardinality({i \in 1 .. where - 1 : buf[i] = NL})
        /\ r.pos <= Len(r.line)
        /\ buf[where] # NL => r.line[r.pos + 1] = buf[where]
=============================================================================
