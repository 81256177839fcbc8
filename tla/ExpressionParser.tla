-------------------------- MODULE ExpressionParser --------------------------
(***************************************************************************)
(* The script compiler's expressions (ExpressionParser in                  *)
(* nvse/nvse/ScriptUtils.cpp): the text of a command's arguments becomes   *)
(* code in postfix order, by precedence and with a stack of operators; and *)
(* ExpressionEvaluator::Evaluate, which runs the code of one argument.     *)
(*                                                                         *)
(* A text is a sequence of tokens: an operand x, some operators, brackets. *)
(* "-?" is a minus whose operands are of types it cannot take; of all other*)
(* types it is only kept whether there is an operand or an empty bracket.  *)
(* An operand's value is its position; that of an operator, the tuple of   *)
(* its symbol and its operands' values.                                    *)
(***************************************************************************)
EXTENDS Integers, SequencesExt, FiniteSetsExt

CONSTANTS NumParams,   \* parameters of the command, the first one required
          MaxLen,      \* bound: tokens of a text
          MaxWrong     \* bound: tokens of a text in which any may follow any

VARIABLE text

NUL == "NUL"           \* the end of the text, and what a read bracket becomes

Op(symbol, precedence, numOperands) ==
    [symbol |-> symbol, precedence |-> precedence, numOperands |-> numOperands]

s_operators ==
    {Op(":=", 2, 2), Op("-", 19, 2), Op("-?", 19, 2), Op("^", 23, 2), Op("-", 25, 1),
     Op("!", 27, 1), Op("(", 80, 0), Op(")", 80, 0), Op("[", 90, 2), Op("]", 90, 0)}

Tokens == {"x"} \cup {op.symbol : op \in s_operators}

IsUnary(op) == op.numOperands = 1
IsBinary(op) == op.numOperands = 2
IsOpenBracket(op) == op.symbol \in {"(", "["}
IsClosingBracket(op) == op.symbol \in {")", "]"}
GetMatchedBracket(op) == IF op.symbol = "(" THEN ")" ELSE "]"
IsRightAssociative(op) == op.symbol = ":=" \/ IsUnary(op)

\* Mutant: an operator never precedes one of its own precedence.
PrecedesIfHigher(top, op) == op.precedence < top.precedence

Precedes(top, op) ==
    IF IsRightAssociative(top) THEN op.precedence < top.precedence
                               ELSE op.precedence <= top.precedence

\* ParseOperator: what is at the token is decided by what is expected there.
Operators(symbol, bExpectBinaryOperator) ==
    {op \in s_operators :
        /\ op.symbol = symbol
        /\ IF bExpectBinaryOperator THEN IsBinary(op) \/ IsClosingBracket(op)
                                    ELSE IsUnary(op) \/ IsOpenBracket(op)}
-----------------------------------------------------------------------------
(* A parser: the text and the place in it, the code so far, the stacks of  *)
(* the subexpression it is at, whether the last token was an operand, the  *)
(* type of the result, and two histories: whether an error was shown, and  *)
(* whether some bracket holds nothing, or something that was not read.     *)

Parser(txt) ==
    [text |-> txt, offset |-> 1, code |-> <<>>, ops |-> <<>>, operands |-> <<>>,
     lastWasOperand |-> FALSE, type |-> "empty", shown |-> FALSE, unread |-> FALSE]

Peek(p) == IF p.offset \in DOMAIN p.text THEN p.text[p.offset] ELSE NUL
Fails(p) == [p EXCEPT !.type = "invalid", !.shown = TRUE]

PopOperator(p) ==
    LET op == Last(p.ops)
        n == op.numOperands
        popped == [p EXCEPT !.ops = Front(@)]
        taken == IF n <= Len(p.operands)
                 THEN SubSeq(p.operands, Len(p.operands) - n + 1, Len(p.operands)) ELSE <<>>
        left == SubSeq(p.operands, 1, Len(p.operands) - n)
    IN CASE taken = <<>> -> Fails(popped)
         [] taken # <<>> /\ (op.symbol = "-?" \/ "empty" \in ToSet(taken))
               -> Fails([popped EXCEPT !.operands = left])
         [] OTHER
               -> [popped EXCEPT !.operands = Append(left, "operand"), !.type = "operand",
                                 !.code = Append(@, [symbol |-> op.symbol, n |-> n, at |-> 0])]

\* Whether it could is not asked: an error that PopOperator shows does not end the
\* expression, which goes on with the operands that are left.
RECURSIVE PopPreceding(_, _)
PopPreceding(p, op) ==
    IF p.ops # <<>> /\ Precedes(Last(p.ops), op)
    THEN PopPreceding([PopOperator(p) EXCEPT !.type = p.type], op) ELSE p

RECURSIVE PopRest(_)
PopRest(p) ==
    IF p.ops = <<>> \/ p.type = "invalid" THEN p ELSE PopRest(PopOperator(p))

Result(p) ==
    IF p.type = "invalid" \/ p.operands = <<>> THEN p
    ELSE IF Len(p.operands) > 1 THEN Fails(p)
    ELSE [p EXCEPT !.type = Head(p.operands)]

Ends(p) == Result(PopRest([p EXCEPT !.type = "empty"]))

Opened(p, op, i) ==                   \* MatchOpenBracket's openBracCount at i
    LET inside == p.offset .. i
    IN 1 + Quantify(inside, LAMBDA j : p.text[j] = op.symbol)
         - Quantify(inside, LAMBDA j : p.text[j] = GetMatchedBracket(op))

\* Mutant: the first closing bracket ends it.
MatchFirstBracket(p, op) ==
    LET ends == {i \in p.offset .. Len(p.text) : p.text[i] = GetMatchedBracket(op)}
    IN IF ends = {} THEN 0 ELSE Min(ends)

MatchOpenBracket(p, op) ==
    LET ends == {i \in p.offset .. Len(p.text) :
                   /\ Opened(p, op, i) = 0
                   /\ \A j \in p.offset .. i : p.text[j] # NUL}
    IN IF ends = {} THEN 0 ELSE Min(ends)

Pushes(p, op) == [PopPreceding(p, op) EXCEPT !.ops = Append(@, op)]
Takes(p, type) == [p EXCEPT !.operands = Append(@, type), !.lastWasOperand = TRUE]

RECURSIVE ParseSubExpression(_, _), Parse(_, _)

\* The subexpression, inner, is read up to its first expression; what follows in
\* the bracket that p is in is skipped.
Closed(p, inner, close) ==
    LET after == [inner EXCEPT !.offset = close + 1, !.ops = p.ops, !.operands = p.operands,
                               !.unread = @ \/ inner.type = "empty" \/ inner.offset # close]
    IN IF inner.type = "invalid" THEN Fails(after) ELSE Takes(after, inner.type)

InBracket(p, close) ==
    IF close = 0 THEN Fails(p)
    ELSE Closed(p, ParseSubExpression([p EXCEPT !.text[close] = NUL], close - p.offset), close)

Bracket(p, op) ==
    InBracket(IF op.numOperands = 0 THEN p ELSE Pushes(p, op), MatchOpenBracket(p, op))

\* The loop of ParseSubExpression: an operator, an operand, or the end; brackets and
\* operands that cannot be read end it with an error.
Continue(p, exprEnd) == IF p.type = "invalid" THEN p ELSE Parse(p, exprEnd)

TakeOperator(p, op) ==
    IF IsOpenBracket(op) THEN Bracket(p, op)
    ELSE IF IsClosingBracket(op) THEN Fails(p)
    ELSE [Pushes(p, op) EXCEPT !.lastWasOperand = FALSE]

TakeOperand(p, at) ==
    Takes([p EXCEPT !.code = Append(@, [symbol |-> "x", n |-> 0, at |-> at])], "operand")

Parse(p, exprEnd) ==
    LET found == Operators(Peek(p), p.lastWasOperand)
        next == [p EXCEPT !.offset = @ + 1]
        isOperand == ~p.lastWasOperand /\ Operators(Peek(p), TRUE) = {}
    IN IF p.offset >= exprEnd \/ Peek(p) = NUL \/ (found = {} /\ ~isOperand) THEN Ends(p)
       ELSE Continue(IF found # {} THEN TakeOperator(next, CHOOSE op \in found : TRUE)
                                   ELSE TakeOperand(next, p.offset), exprEnd)

ParseSubExpression(p, exprLen) ==
    Parse([p EXCEPT !.ops = <<>>, !.operands = <<>>, !.lastWasOperand = FALSE,
                    !.type = "empty"], p.offset + exprLen)

\* ParseArgs, on a line of its own: the code of each argument.
RECURSIVE ParseArgs(_, _)

Line(p, args) == [accepted |-> p.type # "invalid" /\ args # <<>>,
                  shown |-> p.shown \/ args = <<>>, unread |-> p.unread, args |-> args]

AddArg(p, args) ==
    CASE p.type = "operand"                               -> ParseArgs(p, Append(args, p.code))
      [] p.type = "empty" /\ p.offset <= Len(p.text)      -> Line(Fails(p), args)
      [] p.type = "invalid" \/ (p.type = "empty" /\ p.offset > Len(p.text)) -> Line(p, args)

ParseArgs(p, args) ==
    IF p.offset > Len(p.text) THEN Line(p, args)
    ELSE IF Len(args) = NumParams THEN Line(Fails(p), args)
    ELSE AddArg(ParseSubExpression([p EXCEPT !.code = <<>>], Len(p.text) + 1 - p.offset), args)

Compiled == ParseArgs(Parser(text), <<>>)
-----------------------------------------------------------------------------
\* A token of Evaluate's loop; it never runs out of operands (see below).
Run(stack, token) ==
    CASE token.n = 0 -> Append(stack, <<token.at>>)
      [] token.n = 1 -> Append(Front(stack), <<token.symbol, Last(stack)>>)
      [] token.n = 2 -> Append(Front(Front(stack)),
                               <<token.symbol, Last(Front(stack)), Last(stack)>>)

Evaluate(code) == FoldLeft(Run, <<>>, code)
-----------------------------------------------------------------------------
(* The texts a script may hold.                                            *)

Starts == {"x", "-", "!", "("}
Follows(token) ==
    IF token \in {"x", ")", "]"} THEN {":=", "-", "-?", "^", "[", ")", "]"} ELSE Starts

Open(txt) == Len(SelectSeq(txt, LAMBDA t : t \in {"(", "["}))
                 - Len(SelectSeq(txt, LAMBDA t : t \in {")", "]"}))

\* Bound: of the long texts, those that may still become an expression.
Promising(txt) ==
    /\ \A i \in 2 .. Len(txt) : txt[i] \in Follows(txt[i - 1])
    /\ txt[1] \in Starts
    /\ Open(txt) \in 0 .. MaxLen - Len(txt)

Type(token) ==
    /\ Len(text) < MaxLen
    /\ text' = Append(text, token)
    /\ Len(text') > MaxWrong => Promising(text')

Init == text = <<>>
Next == \E token \in Tokens : Type(token)
Spec == Init /\ [][Next]_text
-----------------------------------------------------------------------------
(* What a text means, by the grammar of the operators' precedences: the    *)
(* values of the tokens lo .. hi as an operand of an operator that allows  *)
(* operators of the given precedence in it, or higher ones.                *)

RECURSIVE Readings(_, _, _)
Readings(lo, hi, level) ==
    LET ops(i, n) == {op \in s_operators : op.symbol = text[i] /\ op.numOperands = n
                                             /\ op.symbol # "-?" /\ op.precedence >= level}
        grouped == IF text[lo] = "(" /\ text[hi] = ")" THEN Readings(lo + 1, hi - 1, 0) ELSE {}
        prefixed == UNION {{<<op.symbol, v>> : v \in Readings(lo + 1, hi, op.precedence)} :
                              op \in ops(lo, 1)}
        indexed(i) == IF text[hi] # "]" THEN {}
                      ELSE {<<"[", a, k>> : a \in Readings(lo, i - 1, 90),
                                            k \in Readings(i + 1, hi - 1, 0)}
        joined(i, op) ==
            {<<op.symbol, l, r>> :
                l \in Readings(lo, i - 1, op.precedence + IF IsRightAssociative(op) THEN 1 ELSE 0),
                r \in Readings(i + 1, hi, op.precedence + IF IsRightAssociative(op) THEN 0 ELSE 1)}
        binary(i) == UNION {IF op.symbol = "[" THEN indexed(i) ELSE joined(i, op) :
                               op \in ops(i, 2)}
    IN IF lo > hi THEN {}
       ELSE (IF lo = hi /\ text[lo] = "x" THEN {<<lo>>} ELSE {})
              \cup grouped \cup prefixed \cup UNION {binary(i) : i \in lo + 1 .. hi - 1}

\* The arguments that are read from the token lo on: the fewest there can be.
RECURSIVE Lists(_, _)
Lists(lo, n) ==
    IF lo > Len(text) THEN {<<>>}
    ELSE IF n = 0 THEN {}
    ELSE UNION {{<<v>> \o rest : v \in Readings(lo, hi, 0), rest \in Lists(hi + 1, n - 1)} :
                   hi \in lo .. Len(text)}

Meaning ==
    LET lists == Lists(1, NumParams)
        least == {l \in lists : \A other \in lists : Len(l) <= Len(other)}
    IN least \ {<<>>}

\* The operator ! is popped before a unary operator of a lower precedence gets
\* its operand, and takes the operand before it: x ^ !-x is read as (!x) ^ (-x).
NotBeforeMinus == \E i \in 2 .. Len(text) : text[i - 1] = "!" /\ text[i] = "-"

NoErrors(line) == line.accepted /\ ~line.shown /\ ~line.unread

Means(line, meaning) ==
    {[i \in DOMAIN line.args |-> Evaluate(line.args[i])]} =
        {[i \in DOMAIN list |-> <<list[i]>>] : list \in meaning}

ReadsAs(line, meaning) == NoErrors(line) /\ ~NotBeforeMinus => Means(line, meaning)

\* What is compiled without an error, all of it read, is a list of expressions
\* by the grammar, has one meaning, and evaluates to it: the two stacks, of the
\* compiler and of the evaluator, keep operators and operands together through
\* brackets, unary operators and both associativities.
CompiledAsWritten == ReadsAs(Compiled, Meaning)

\* Whatever is a list of expressions by the grammar is compiled, without an error.
ExpressionsCompile == Meaning # {} => NoErrors(Compiled)
=============================================================================
