----------------------------- MODULE Expressions -----------------------------
(***************************************************************************)
(* The expression parser of parse.c: which production each token selects,  *)
(* one operator for each function.  A token is its text; an operator takes *)
(* the tokens from curr_token on and returns the tree with the tokens that *)
(* are left, or Failed where the code calls error().                       *)
(*                                                                         *)
(* The tree is that of the productions, the one Syntax takes: node(...)    *)
(* there is the Node that new_node builds at the same place.  Written is   *)
(* C's grammar, read in the other direction.                               *)
(***************************************************************************)
EXTENDS Integers, SequencesExt

CONSTANTS
  Variables, Functions,   \* the declared names
  Numbers, Strings,       \* tokens
  TypeNames,              \* tokens that start a type
  Inputs, Trees,          \* what is parsed: tokens, and trees written down
  None                    \* no tree, no result yet

VARIABLES
  source,                 \* the tree that was written down, or None
  input,
  result                  \* what parse_expr made of it

vars == <<source, input, result>>

Parsed(e, ts) == [ok |-> TRUE, e |-> e, rest |-> ts]
Failed        == [ok |-> FALSE, rest |-> <<>>]

-----------------------------------------------------------------------------
(* token_consume_punct, and what follows a parse that did not fail.        *)
Next_(ts, t) == ts # <<>> /\ ts[1] = t
IsOne(ts, kind) == ts # <<>> /\ ts[1] \in kind

Then(r, F(_, _)) == IF r.ok THEN F(r.e, r.rest) ELSE Failed

(* token_expect_punct.                                                     *)
Expecting(t, e, ts) == IF Next_(ts, t) THEN Parsed(e, Tail(ts)) ELSE Failed

RECURSIVE parse_expr(_), parse_assign(_), parse_cond(_), parse_level(_, _),
          Chain(_, _, _), parse_unary(_), Postfixes(_, _), parse_primary(_),
          Arguments(_, _, _)

(* The arguments of a call up to its ")".                                  *)
Arguments(f, args, ts) ==
  Then(parse_assign(ts),
       LAMBDA e, rest :
         CASE Next_(rest, ")") ->
                Parsed([kind |-> "CALL", ident |-> f, args |-> Append(args, e)],
                       Tail(rest))
           [] Next_(rest, ",") -> Arguments(f, Append(args, e), Tail(rest))
           [] OTHER -> Failed)

(* What may be called: a declared function, or va_start without one.       *)
Callable == Functions \cup {"va_start"}

Call(f, ts) ==
  CASE f \notin Callable -> Failed
    [] f \in Callable /\ Next_(ts, ")") ->
         Parsed([kind |-> "CALL", ident |-> f, args |-> <<>>], Tail(ts))
    [] OTHER -> Arguments(f, <<>>, ts)

parse_primary(ts) ==
  CASE Next_(ts, "(") ->
         Then(parse_expr(Tail(ts)), LAMBDA e, rest : Expecting(")", e, rest))
    [] IsOne(ts, Callable \cup Variables) /\ Next_(Tail(ts), "(") ->
         Call(ts[1], SubSeq(ts, 3, Len(ts)))
    [] IsOne(ts, Variables) /\ ~ Next_(Tail(ts), "(") ->
         Parsed([kind |-> "VAR", name |-> ts[1]], Tail(ts))
    [] IsOne(ts, Numbers \cup Strings) ->
         Parsed([kind |-> IF ts[1] \in Numbers THEN "NUM" ELSE "STRING",
                 val  |-> ts[1]], Tail(ts))
    [] OTHER -> Failed

(* The tail of parse_postfix; after ++ and -- it returns.                  *)
Postfixes(l, ts) ==
  CASE Next_(ts, "[") ->
         Then(parse_expr(Tail(ts)),
              LAMBDA e, rest :
                Then(Expecting("]", [kind |-> "INDEX", lhs |-> l, rhs |-> e], rest),
                     Postfixes))
    [] IsOne(ts, {".", "->"}) ->
         IF IsOne(Tail(ts), Variables \cup Functions)
         THEN Postfixes([kind  |-> IF ts[1] = "." THEN "DOT" ELSE "ARROW",
                         lhs   |-> l, ident |-> ts[2]], SubSeq(ts, 3, Len(ts)))
         ELSE Failed
    [] IsOne(ts, {"++", "--"}) ->
         Parsed([kind |-> "POSTFIX", lhs |-> l,
                 val  |-> IF ts[1] = "++" THEN 1 ELSE -1], Tail(ts))
    [] OTHER -> Parsed(l, ts)

parse_postfix(ts) == Then(parse_primary(ts), Postfixes)

(* A type: its name and the stars after it.                                *)
TypeLength(ts) ==
  LET end == SelectInSeq(Tail(ts), LAMBDA t : t # "*")
  IN  IF end = 0 THEN Len(ts) ELSE end

parse_sizeof(ts) ==
  LET of(e, rest) == Parsed([kind |-> "SIZEOF", lhs |-> e], rest)
  IN  CASE ~ Next_(ts, "(") -> Then(parse_unary(ts), of)
        [] Next_(ts, "(") /\ ~ IsOne(Tail(ts), TypeNames) ->
             Then(Then(parse_unary(Tail(ts)),
                       LAMBDA e, rest : Expecting(")", e, rest)), of)
        [] OTHER ->
             LET n == TypeLength(Tail(ts))
             IN  Expecting(")", [kind |-> "SIZEOFTYPE", type |-> SubSeq(ts, 2, n + 1)],
                           SubSeq(ts, n + 2, Len(ts)))

Prefixed == [t \in {"*", "&", "!"} |->
               CASE t = "*" -> "DEREF" [] t = "&" -> "ADDR" [] t = "!" -> "NOT"]

parse_unary(ts) ==
  CASE Next_(ts, "+") ->
         Then(parse_postfix(Tail(ts)),
              LAMBDA e, rest : Parsed([kind |-> "PLUS", lhs |-> e], rest))
    [] Next_(ts, "-") ->
         Then(parse_primary(Tail(ts)),
              LAMBDA e, rest : Parsed([kind |-> "NEG", lhs |-> e], rest))
    [] IsOne(ts, DOMAIN Prefixed) ->
         Then(parse_unary(Tail(ts)),
              LAMBDA e, rest : Parsed([kind |-> Prefixed[ts[1]], lhs |-> e], rest))
    [] IsOne(ts, {"++", "--"}) ->
         Then(parse_unary(Tail(ts)),
              LAMBDA e, rest :
                Parsed([kind |-> "PREFIX", lhs |-> e,
                        val  |-> IF ts[1] = "++" THEN 1 ELSE -1], rest))
    [] Next_(ts, "sizeof") -> parse_sizeof(Tail(ts))
    [] OTHER -> parse_postfix(ts)

(* Fault: parse_or and parse_and are exchanged.                            *)
Levels_exchanged == <<{"*", "/"}, {"+", "-"}, {"<", ">", "<=", ">="}, {"==", "!="},
                      {"||"}, {"&&"}>>

(* The binary operators, from those that bind most: parse_mul, parse_add,  *)
(* parse_relational, parse_equality, parse_and and parse_or.               *)
Levels == <<{"*", "/"}, {"+", "-"}, {"<", ">", "<=", ">="}, {"==", "!="},
            {"&&"}, {"||"}>>

Binary(op, l, r) == [kind |-> "BINARY", op |-> op, lhs |-> l, rhs |-> r]

(* The loop of a level: l is what it has so far.                           *)
Chain(k, l, ts) ==
  IF IsOne(ts, Levels[k])
  THEN Then(parse_level(k - 1, Tail(ts)),
            LAMBDA r, rest : Chain(k, Binary(ts[1], l, r), rest))
  ELSE Parsed(l, ts)

parse_level(k, ts) ==
  IF k = 0 THEN parse_unary(ts)
  ELSE Then(parse_level(k - 1, ts), LAMBDA l, rest : Chain(k, l, rest))

parse_or(ts) == parse_level(Len(Levels), ts)

(* Fault: what follows ":" is an expression.                               *)
parse_cond_greedy(ts) ==
  Then(parse_or(ts),
       LAMBDA c, rest :
         IF ~ Next_(rest, "?") THEN Parsed(c, rest)
         ELSE Then(Then(parse_expr(Tail(rest)),
                        LAMBDA l, more : Expecting(":", l, more)),
                   LAMBDA l, more :
                     Then(parse_expr(more),
                          LAMBDA r, end :
                            Parsed([kind |-> "COND", lhs |-> c, rhs |-> l,
                                    node3 |-> r], end))))

parse_cond(ts) ==
  Then(parse_or(ts),
       LAMBDA c, rest :
         IF ~ Next_(rest, "?") THEN Parsed(c, rest)
         ELSE Then(Then(parse_expr(Tail(rest)),
                        LAMBDA l, more : Expecting(":", l, more)),
                   LAMBDA l, more :
                     Then(parse_cond(more),
                          LAMBDA r, end :
                            Parsed([kind |-> "COND", lhs |-> c, rhs |-> l,
                                    node3 |-> r], end))))

(* The left side of an assignment may be any conditional expression here.  *)
parse_assign(ts) ==
  Then(parse_cond(ts),
       LAMBDA l, rest :
         IF ~ IsOne(rest, {"=", "+=", "-=", "*="}) THEN Parsed(l, rest)
         ELSE Then(parse_assign(Tail(rest)),
                   LAMBDA r, end :
                     Parsed([kind |-> "ASSIGN", op |-> rest[1], lhs |-> l, rhs |-> r],
                            end)))

parse_expr(ts) ==
  Then(parse_assign(ts),
       LAMBDA l, rest :
         IF ~ Next_(rest, ",") THEN Parsed(l, rest)
         ELSE Then(parse_expr(Tail(rest)),
                   LAMBDA r, end : Parsed(Binary(",", l, r), end)))

-----------------------------------------------------------------------------
(* C's grammar, as the way to write a tree down: the level of the          *)
(* production it is, and the least level each operand must have to stand   *)
(* without parentheses.  The levels are those of C11 6.5, and nothing of   *)
(* the parser's tables is used.  Three things the parser does not know are *)
(* not written: an operand of "-" that is no primary, a postfix operator   *)
(* after ++ or --, and an operand of sizeof that begins with a parenthesis *)
(* it does not end with.  The comma is grouped to the right, which means   *)
(* the same.                                                               *)
Comma       == 0
Assigning   == 1
Conditional == 2
Unary       == 9
Incremented == 10
Postfixed   == 11
Primary     == 12

(* From 6.5.17, the comma, back to 6.5.5, the multiplicative operators.    *)
OpLevel(op) ==
  CASE op = ","                     -> Comma
    [] op = "||"                    -> 3
    [] op = "&&"                    -> 4
    [] op \in {"==", "!="}          -> 5
    [] op \in {"<", ">", "<=", ">="} -> 6
    [] op \in {"+", "-"}            -> 7
    [] op \in {"*", "/"}            -> 8

Level(e) ==
  CASE e.kind \in {"VAR", "NUM", "STRING", "CALL"} -> Primary
    [] e.kind \in {"INDEX", "DOT", "ARROW"}        -> Postfixed
    [] e.kind = "POSTFIX" -> Incremented
    [] e.kind \in {"PLUS", "NEG", "DEREF", "ADDR", "NOT", "PREFIX", "SIZEOF",
                   "SIZEOFTYPE"} -> Unary
    [] e.kind = "COND"    -> Conditional
    [] e.kind = "ASSIGN"  -> Assigning
    [] e.kind = "BINARY"  -> OpLevel(e.op)

Sign(kind, val) ==
  CASE kind = "PLUS" -> "+" [] kind = "NEG" -> "-" [] kind = "DEREF" -> "*"
    [] kind = "ADDR" -> "&" [] kind = "NOT" -> "!"
    [] kind \in {"PREFIX", "POSTFIX"} -> IF val = 1 THEN "++" ELSE "--"

Enclosed(ts) == <<"(">> \o ts \o <<")">>

RECURSIVE Written(_)
Written(e) ==
  LET at(level, sub) ==
        IF Level(sub) >= level THEN Written(sub) ELSE Enclosed(Written(sub))
  IN  CASE e.kind = "VAR" -> <<e.name>>
        [] e.kind \in {"NUM", "STRING"} -> <<e.val>>
        [] e.kind = "CALL" ->
             <<e.ident, "(">>
               \o FlattenSeq([i \in DOMAIN e.args |->
                                (IF i = 1 THEN <<>> ELSE <<",">>)
                                  \o at(Assigning, e.args[i])])
               \o <<")">>
        [] e.kind = "INDEX" ->
             at(Postfixed, e.lhs) \o <<"[">> \o Written(e.rhs) \o <<"]">>
        [] e.kind \in {"DOT", "ARROW"} ->
             at(Postfixed, e.lhs)
               \o <<IF e.kind = "DOT" THEN "." ELSE "->", e.ident>>
        [] e.kind = "POSTFIX" -> at(Postfixed, e.lhs) \o <<Sign(e.kind, e.val)>>
        [] e.kind = "PLUS"    -> <<"+">> \o at(Incremented, e.lhs)
        [] e.kind = "NEG"     -> <<"-">> \o at(Primary, e.lhs)
        [] e.kind = "PREFIX"  -> <<Sign(e.kind, e.val)>> \o at(Unary, e.lhs)
        [] e.kind \in {"DEREF", "ADDR", "NOT"} ->
             <<Sign(e.kind, 0)>> \o at(Unary, e.lhs)
        [] e.kind = "SIZEOF" ->
             LET operand == at(Unary, e.lhs)
             IN  <<"sizeof">>
                   \o IF operand[1] = "(" THEN Enclosed(operand) ELSE operand
        [] e.kind = "SIZEOFTYPE" -> <<"sizeof">> \o Enclosed(e.type)
        [] e.kind = "COND" ->
             at(Conditional + 1, e.lhs) \o <<"?">> \o Written(e.rhs) \o <<":">>
               \o at(Conditional, e.node3)
        [] e.kind = "ASSIGN" ->
             at(Unary, e.lhs) \o <<e.op>> \o at(Assigning, e.rhs)
        [] e.kind = "BINARY" /\ e.op # "," ->
             at(OpLevel(e.op), e.lhs) \o <<e.op>> \o at(OpLevel(e.op) + 1, e.rhs)
        [] e.kind = "BINARY" /\ e.op = "," ->
             at(Assigning, e.lhs) \o <<",">> \o at(Comma, e.rhs)

-----------------------------------------------------------------------------
Init ==
  /\ \/ source = None /\ input \in Inputs
     \/ source \in Trees /\ input = Append(Written(source), ";")
  /\ result = None

(* An expression statement: the expression and its ";".                    *)
Parse ==
  /\ result = None
  /\ result' = Then(parse_expr(input), LAMBDA e, rest : Expecting(";", e, rest))
  /\ UNCHANGED <<source, input>>

Next == Parse

Spec == Init /\ [][Next]_vars

-----------------------------------------------------------------------------
(* Every expression of the language is accepted, and is read as the tree   *)
(* C's precedence and associativity give it: parentheses stand only where  *)
(* they must (the calls of the functions from parse_expr to parse_primary  *)
(* and the loops in them).                                                 *)
ReadsAsWritten ==
  result # None /\ source # None => result.ok /\ result.e = source

RECURSIVE Subtrees(_)
Subtrees(e) ==
  {e} \cup UNION {Subtrees(e[part]) : part \in DOMAIN e \cap {"lhs", "rhs", "node3"}}
      \cup IF e.kind = "CALL" THEN UNION {Subtrees(arg) : arg \in ToSet(e.args)}
           ELSE {}

(* An assignment to what is no unary expression is no C; parse_assign      *)
(* leaves it to codegen_push_lvalue to refuse it.                          *)
Assignable(e) ==
  \A sub \in Subtrees(e) : sub.kind = "ASSIGN" => Level(sub.lhs) >= Unary

WithoutParentheses(ts) == SelectSeq(ts, LAMBDA t : t \notin {"(", ")"})

(* Whatever tokens come, no other expression is accepted: the tree has all *)
(* the tokens in their order, and without parentheses among them it is the *)
(* tree C gives them.                                                      *)
AcceptsOnlyC ==
  result # None /\ result.ok /\ Assignable(result.e) =>
    LET given   == SubSeq(input, 1, Len(input) - 1 - Len(result.rest))
        written == Written(result.e)
    IN  /\ WithoutParentheses(written) = WithoutParentheses(given)
        /\ WithoutParentheses(given) = given => written = given
=============================================================================
