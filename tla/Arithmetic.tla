------------------------------ MODULE Arithmetic ------------------------------
(***************************************************************************)
(* Arithmetic expansion (yash-arith): the precedence-climbing parser that  *)
(* turns the tokens of an expression into a flat postfix array, and the    *)
(* evaluator that runs on slices of that array.  A slice is found from the *)
(* lengths the parser noted, variables are read as late as possible, and   *)
(* every operation on integers is checked for overflow.                    *)
(*                                                                         *)
(* The tokenizer is not modelled: an expression is a sequence of tokens,   *)
(* operators by their spelling.  Source locations are left out.            *)
(***************************************************************************)
EXTENDS Integers, Sequences, FiniteSets, SequencesExt, Bitwise

CONSTANTS Bits   \* the width of an integer (64 in the code)

ASSUME BitsAssumption == Bits \in Nat /\ Bits >= 2

MinInt == -(2^(Bits - 1))
MaxInt == 2^(Bits - 1) - 1
InRange(n) == MinInt <= n /\ n <= MaxInt

(***************************************************************************)
(* Tokens and operators (token.rs, ast.rs).                                *)
(***************************************************************************)
Num(n) == [kind |-> "num", val |-> n]
Var(x) == [kind |-> "var", name |-> x]
Op(o) == [kind |-> "op", op |-> o]
EndOfInput == [kind |-> "end"]

PrefixOperator == {"++", "--", "+", "-", "!", "~"}
PostfixOperator == {"++", "--"}
AssignOperator == {"=", "|=", "^=", "&=", "<<=", ">>=", "+=", "-=", "*=", "/=", "%="}

\* The left-associative binary operators, from the loosest.
LeftOperators == << {"||"}, {"&&"}, {"|"}, {"^"}, {"&"}, {"==", "!="}, {"<", "<=", ">", ">="},
                    {"<<", ">>"}, {"+", "-"}, {"*", "/", "%"} >>
LeftOperator == UNION Range(LeftOperators)
BinaryOperator == AssignOperator \cup LeftOperator

Precedence(o) ==
    CASE o \in {")", ":"} -> 0
      [] o \in AssignOperator -> 1
      [] o = "?" -> 2
      [] o \in LeftOperator -> 2 + CHOOSE i \in DOMAIN LeftOperators : o \in LeftOperators[i]
      [] OTHER -> 13

\* The operator that a binary assignment applies before it assigns.
Plain(o) == CASE o = "|=" -> "|" [] o = "^=" -> "^" [] o = "&=" -> "&" [] o = "<<=" -> "<<"
              [] o = ">>=" -> ">>" [] o = "+=" -> "+" [] o = "-=" -> "-" [] o = "*=" -> "*"
              [] o = "/=" -> "/" [] o = "%=" -> "%" [] OTHER -> o

(***************************************************************************)
(* The parser.  Its state is the position of the next token and the array  *)
(* so far; once an error is set nothing else is consumed.                  *)
(***************************************************************************)
Parser(at, out) == [at |-> at, out |-> out, error |-> "none"]
Fails(p, cause) == [p EXCEPT !.error = cause]
Peek(in, p) == IF p.at <= Len(in) THEN in[p.at] ELSE EndOfInput
Peeks(in, p, ops) == Peek(in, p).kind = "op" /\ Peek(in, p).op \in ops
Skip(p) == [p EXCEPT !.at = @ + 1]
Push(p, ast) == [p EXCEPT !.out = Append(@, ast)]

RECURSIVE ParsePostfix(_, _)
ParsePostfix(in, p) ==
    IF Peeks(in, p, PostfixOperator)
    THEN ParsePostfix(in, Push(Skip(p), [ast |-> "postfix", op |-> Peek(in, p).op]))
    ELSE p

ParseCloseParen(in, p) ==
    CASE Peeks(in, p, {")"}) -> Skip(p)
      [] Peeks(in, p, {":"}) -> Fails(p, "ColonWithoutQuestion")
      [] OTHER -> Fails(p, "UnclosedParenthesis")

RECURSIVE ParseLeaf(_, _), ParseTree(_, _, _), ParseOperators(_, _, _)

ParseLeaf(in, p) ==
    LET t == Peek(in, p)
    IN  CASE t.kind \in {"num", "var"} -> ParsePostfix(in, Push(Skip(p), [ast |-> "term", term |-> t]))
          [] t = Op("(") ->
               LET inner == ParseTree(in, Skip(p), 1)
                   closed == IF inner.error = "none" THEN ParseCloseParen(in, inner) ELSE inner
               IN  IF closed.error = "none" THEN ParsePostfix(in, closed) ELSE closed
          [] t.kind = "op" /\ t.op \in PrefixOperator ->
               LET operand == ParseLeaf(in, Skip(p))
               IN  IF operand.error = "none"
                   THEN Push(operand, [ast |-> "prefix", op |-> t.op]) ELSE operand
          [] t.kind = "end" -> Fails(p, "IncompleteExpression")
          [] OTHER -> Fails(p, "InvalidOperator")

ParseConditional(in, p) ==
    LET then == ParseTree(in, Skip(p), 1)
        else == ParseTree(in, Skip(then), Precedence("?"))
    IN  CASE then.error # "none" -> then
          [] ~ Peeks(in, then, {":"}) -> Fails(then, "QuestionWithoutColon")
          [] else.error # "none" -> else
          [] OTHER -> Push(else, [ast |-> "cond", then |-> Len(then.out) - Len(p.out),
                                  else |-> Len(else.out) - Len(then.out)])

\* A wrong version: the right operand of every operator may hold operators as loose.
RightPrecedence(o) == Precedence(o)

RhsPrecedence(o) == IF o \in AssignOperator THEN Precedence(o) ELSE Precedence(o) + 1

ParseBinary(in, p) ==
    LET o == Peek(in, p).op
        rhs == ParseTree(in, Skip(p), RhsPrecedence(o))
    IN  CASE o \notin BinaryOperator -> Fails(p, "InvalidOperator")
          [] rhs.error # "none" -> rhs
          [] OTHER -> Push(rhs, [ast |-> "binary", op |-> o, rhs |-> Len(rhs.out) - Len(p.out)])

\* The loop of parse_tree, once per operator that binds tightly enough.
ParseOperators(in, p, min) ==
    IF p.error # "none" \/ Peek(in, p).kind # "op" THEN p
    ELSE IF Precedence(Peek(in, p).op) < min THEN p
    ELSE IF Peek(in, p).op = "?" THEN ParseOperators(in, ParseConditional(in, p), min)
    ELSE ParseOperators(in, ParseBinary(in, p), min)

ParseTree(in, p, min) == ParseOperators(in, ParseLeaf(in, p), min)

ParseEnd(in, p) ==
    CASE p.error # "none" \/ Peek(in, p).kind = "end" -> p
      [] Peeks(in, p, {":"}) -> Fails(p, "ColonWithoutQuestion")
      [] OTHER -> Fails(p, "MissingOperator")
Parse(in) == ParseEnd(in, ParseTree(in, Parser(1, << >>), 1))

(***************************************************************************)
(* Checked integer operations (binary_result and apply_prefix).  An        *)
(* outcome is a value or the cause of an error.                            *)
(***************************************************************************)
Ok(n) == [ok |-> TRUE, val |-> n]
Err(cause) == [ok |-> FALSE, cause |-> cause]
Checked(n) == IF InRange(n) THEN Ok(n) ELSE Err("Overflow")
Bool(b) == Ok(IF b THEN 1 ELSE 0)

\* The two's complement pattern of an integer, and the integer of a pattern.
Pattern(n) == n % 2^Bits
Signed(u) == IF u > MaxInt THEN u - 2^Bits ELSE u

\* Division rounds towards zero, and the remainder has the sign of the dividend.
Quotient(a, b) == LET q == (IF a < 0 THEN -a ELSE a) \div (IF b < 0 THEN -b ELSE b)
                  IN  IF (a < 0) = (b < 0) THEN q ELSE -q

\* A wrong version: the result of the shift is not shifted back for comparison.
ShiftedPositive(a, b) ==
    LET wrapped == Signed(Pattern(a * 2^b))
    IN  IF b < Bits /\ wrapped >= 0 THEN Ok(wrapped) ELSE Err("Overflow")

\* checked_shl drops the bits that leave the word; the filter finds that out.
ShiftedLeft(a, b) ==
    LET wrapped == Signed(Pattern(a * 2^b))
    IN  IF b < Bits /\ wrapped >= 0 /\ wrapped \div 2^b = a THEN Ok(wrapped) ELSE Err("Overflow")

ShiftedRight(a, b) == IF b < Bits THEN Ok(a \div 2^b) ELSE Err("Overflow")

BinaryResult(a, b, o) ==
    CASE o = "||" -> Bool(a # 0 \/ b # 0)
      [] o = "&&" -> Bool(a # 0 /\ b # 0)
      [] o = "|"  -> Ok(Signed(Pattern(a) | Pattern(b)))
      [] o = "^"  -> Ok(Signed(Pattern(a) ^^ Pattern(b)))
      [] o = "&"  -> Ok(Signed(Pattern(a) & Pattern(b)))
      [] o = "==" -> Bool(a = b)
      [] o = "!=" -> Bool(a # b)
      [] o = "<"  -> Bool(a < b)
      [] o = ">"  -> Bool(a > b)
      [] o = "<=" -> Bool(a <= b)
      [] o = ">=" -> Bool(a >= b)
      [] o = "<<" -> IF a < 0 THEN Err("LeftShiftingNegative")
                     ELSE IF b < 0 THEN Err("ReverseShifting") ELSE ShiftedLeft(a, b)
      [] o = ">>" -> IF b < 0 THEN Err("ReverseShifting") ELSE ShiftedRight(a, b)
      [] o = "+"  -> Checked(a + b)
      [] o = "-"  -> Checked(a - b)
      [] o = "*"  -> Checked(a * b)
      [] o = "/"  -> IF b = 0 THEN Err("DivisionByZero") ELSE Checked(Quotient(a, b))
      [] o = "%"  -> IF b = 0 THEN Err("DivisionByZero")
                     ELSE IF InRange(Quotient(a, b)) THEN Ok(a - b * Quotient(a, b)) ELSE Err("Overflow")
      [] OTHER -> Ok(b)

(***************************************************************************)
(* The evaluator.  An environment holds the text of each variable, as the  *)
(* outcome of parsing it: an integer, "InvalidVariableValue", or "Unset".  *)
(* The result of an evaluation is a term, which may be a variable not yet  *)
(* read, with the environment the assignments left behind.                 *)
(***************************************************************************)
ExpandVariable(x, env) ==
    CASE env.vars[x] = Err("Unset") /\ env.nounset -> Err("GetVariableError")
      [] env.vars[x] = Err("Unset") -> Ok(0)
      [] OTHER -> env.vars[x]

IntoValue(term, env) == IF term.kind = "num" THEN Ok(term.val) ELSE ExpandVariable(term.name, env)

Returns(term, env) == [ok |-> TRUE, term |-> term, env |-> env]
Raises(cause, env) == [ok |-> FALSE, cause |-> cause, env |-> env]
Yields(r, env) == IF r.ok THEN Returns(Num(r.val), env) ELSE Raises(r.cause, env)

\* Assigns the outcome r to x, and yields the outcome shown.
Assign(x, r, shown, env) ==
    CASE ~ r.ok -> Raises(r.cause, env)
      [] x \in env.readonly -> Raises("AssignVariableError", env)
      [] OTHER -> Yields(shown, [env EXCEPT !.vars[x] = r])

\* Applies F to the integer of an outcome.
OnValue(r, F(_)) == IF r.ok THEN F(r.val) ELSE r

Stepped(o, r) == OnValue(r, LAMBDA n : Checked(IF o = "++" THEN n + 1 ELSE n - 1))

ApplyPrefix(term, o, env) ==
    LET v == IntoValue(term, env)
    IN  CASE o \in {"++", "--"} ->
               IF term.kind = "var" THEN Assign(term.name, Stepped(o, v), Stepped(o, v), env)
               ELSE Raises("AssignmentToValue", env)
          [] o = "+" -> Yields(v, env)
          [] o = "-" -> Yields(OnValue(v, LAMBDA n : Checked(-n)), env)
          [] o = "!" -> Yields(OnValue(v, LAMBDA n : Bool(n = 0)), env)
          [] o = "~" -> Yields(OnValue(v, LAMBDA n : Ok(-n - 1)), env)

ApplyPostfix(term, o, env) ==
    IF term.kind = "var"
    THEN Assign(term.name, Stepped(o, IntoValue(term, env)), IntoValue(term, env), env)
    ELSE Raises("AssignmentToValue", env)

\* The left operand is read first, the right one only when that succeeded.
Operate(a, b, o) == OnValue(a, LAMBDA m : OnValue(b, LAMBDA n : BinaryResult(m, n, o)))

ApplyBinary(lhs, rhs, o, env) ==
    LET b == IntoValue(rhs, env)
    IN  CASE o \notin AssignOperator -> Yields(Operate(IntoValue(lhs, env), b, o), env)
          [] lhs.kind # "var" -> Raises("AssignmentToValue", env)
          [] o = "=" -> Assign(lhs.name, b, b, env)
          [] OTHER -> LET r == Operate(IntoValue(lhs, env), b, Plain(o))
                      IN  Assign(lhs.name, r, r, env)

RECURSIVE Eval(_, _)

\* Evaluates and reads at once: into_value(eval(...)).
ReadAtOnce(r) == IF r.ok THEN Yields(IntoValue(r.term, r.env), r.env) ELSE r
EvalValue(ast, env) == ReadAtOnce(Eval(ast, env))

\* && and ||: the right operand is evaluated only when the left one does not decide.
EvalLogical(lhs, rhs, o, env) ==
    LET a == EvalValue(lhs, env)
        b == EvalValue(rhs, a.env)
    IN  CASE ~ a.ok -> a
          [] (a.term.val # 0) = (o = "||") -> Yields(Bool(o = "||"), a.env)
          [] ~ b.ok -> b
          [] OTHER -> Yields(BinaryResult(a.term.val, b.term.val, o), b.env)

EvalBinary(lhs, rhs, o, env) ==
    LET a == Eval(lhs, env)
        b == Eval(rhs, a.env)
    IN  CASE ~ a.ok -> a
          [] ~ b.ok -> b
          [] OTHER -> ApplyBinary(a.term, b.term, o, b.env)

EvalConditional(cond, then, else, env) ==
    LET c == EvalValue(cond, env)
    IN  CASE ~ c.ok -> c
          [] c.term.val # 0 -> Eval(then, c.env)
          [] OTHER -> Eval(else, c.env)

Eval(ast, env) ==
    LET root == Last(ast)
        children == Front(ast)
        n == Len(children)
        operand == Eval(children, env)
        Slice(from, to) == SubSeq(children, from + 1, to)
    IN  CASE root.ast = "term" -> Returns(root.term, env)
          [] root.ast = "prefix" ->
               IF operand.ok THEN ApplyPrefix(operand.term, root.op, operand.env) ELSE operand
          [] root.ast = "postfix" ->
               IF operand.ok THEN ApplyPostfix(operand.term, root.op, operand.env) ELSE operand
          [] root.ast = "binary" ->
               LET lhs == Slice(0, n - root.rhs)
                   rhs == Slice(n - root.rhs, n)
               IN  IF root.op \in {"||", "&&"} THEN EvalLogical(lhs, rhs, root.op, env)
                   ELSE EvalBinary(lhs, rhs, root.op, env)
          [] root.ast = "cond" ->
               EvalConditional(Slice(0, n - root.else - root.then),
                               Slice(n - root.else - root.then, n - root.else),
                               Slice(n - root.else, n), env)

(***************************************************************************)
(* Reference definitions.  The grammar, stratified by precedence as in C:  *)
(* the set of trees of a sequence of tokens at a level.                    *)
(***************************************************************************)
Leaf(t) == [node |-> "term", term |-> t]
Node(n, o, kids) == [node |-> n, op |-> o, kids |-> kids]

\* The levels of left-associative operators, from the loosest: those of C, to which
\* POSIX refers, and those the manual lists (docs/src/arithmetic.md).
CLevels == << {"||"}, {"&&"}, {"|"}, {"^"}, {"&"}, {"==", "!="}, {"<", "<=", ">", ">="},
              {"<<", ">>"}, {"+", "-"}, {"*", "/", "%"} >>
ManualLevels == [CLevels EXCEPT ![3] = {"^"}, ![4] = {"|"}]

RECURSIVE TreesBy(_, _, _)
TreesBy(levels, s, level) ==
    LET Before(i) == SubSeq(s, 1, i - 1)
        After(i) == SubSeq(s, i + 1, Len(s))
        At(ops) == {i \in DOMAIN s : s[i].kind = "op" /\ s[i].op \in ops}
        Joined(i, left, right) == {Node("binary", s[i].op, <<a, b>>) :
                                     a \in TreesBy(levels, Before(i), left), b \in TreesBy(levels, After(i), right)}
    IN  CASE s = << >> -> {}
          [] level = 1 -> UNION {Joined(i, 2, 1) : i \in At(AssignOperator)} \cup TreesBy(levels, s, 2)
          [] level = 2 -> UNION {{Node("cond", "?", <<c, t, e>>) : c \in TreesBy(levels, Before(i), 3),
                                    t \in TreesBy(levels, SubSeq(s, i + 1, j - 1), 1), e \in TreesBy(levels, After(j), 2)} :
                                 <<i, j>> \in {p \in At({"?"}) \X At({":"}) : p[1] < p[2]}}
                          \cup TreesBy(levels, s, 3)
          [] level \in 3 .. 12 ->
               UNION {Joined(i, level, level + 1) : i \in At(levels[level - 2])}
               \cup TreesBy(levels, s, level + 1)
          [] level = 13 -> (IF 1 \in At(PrefixOperator)
                            THEN {Node("prefix", s[1].op, <<a>>) : a \in TreesBy(levels, After(1), 13)} ELSE {})
                           \cup TreesBy(levels, s, 14)
          [] level = 14 ->
               (IF Len(s) = 1 /\ s[1].kind # "op" THEN {Leaf(s[1])} ELSE {})
               \cup (IF s[1] = Op("(") /\ Last(s) = Op(")") THEN TreesBy(levels, SubSeq(s, 2, Len(s) - 1), 1) ELSE {})
               \cup (IF Len(s) \in At(PostfixOperator)
                     THEN {Node("postfix", Last(s).op, <<a>>) : a \in TreesBy(levels, Front(s), 14)} ELSE {})

\* The trees of an expression with the levels of C.
Trees(s, level) == TreesBy(CLevels, s, level)

\* The tree that a flat postfix array stands for.
RECURSIVE TreeOf(_)
TreeOf(ast) ==
    LET root == Last(ast)
        n == Len(ast) - 1
        Kid(from, to) == TreeOf(SubSeq(ast, from + 1, to))
    IN  CASE root.ast = "term" -> Leaf(root.term)
          [] root.ast = "binary" -> Node("binary", root.op, <<Kid(0, n - root.rhs), Kid(n - root.rhs, n)>>)
          [] root.ast = "cond" ->
               Node("cond", "?", <<Kid(0, n - root.else - root.then),
                                   Kid(n - root.else - root.then, n - root.else), Kid(n - root.else, n)>>)
          [] OTHER -> Node(root.ast, root.op, <<Kid(0, n)>>)

(***************************************************************************)
(* The meaning of a tree: operands are reduced to integers from left to    *)
(* right, and results are exact or an error.                               *)
(***************************************************************************)
Exact(a, b, o) ==
    CASE o = "<<" -> IF a < 0 \/ b \notin 0 .. Bits - 1 THEN Err("shift") ELSE Checked(a * 2^b)
      [] OTHER -> BinaryResult(a, b, o)

\* The variable a tree designates, after the conditions on the way to it.
RECURSIVE Means(_, _), Designates(_, _)
Designates(t, env) ==
    CASE t.node = "term" -> Returns(t.term, env)
      [] t.node = "cond" -> LET c == Means(t.kids[1], env)
                            IN  IF c.ok THEN Designates(t.kids[IF c.term.val # 0 THEN 2 ELSE 3], c.env) ELSE c
      [] OTHER -> Means(t, env)

Means(t, env) ==
    LET a == Means(t.kids[1], env)
        b == Means(t.kids[2], a.env)
        target == Designates(t.kids[1], env)
        value == Means(t.kids[2], target.env)
        Step(post) == LET old == ExpandVariable(target.term.name, target.env)
                          new == OnValue(old, LAMBDA n : Checked(IF t.op = "++" THEN n + 1 ELSE n - 1))
                      IN  Assign(target.term.name, new, IF post THEN old ELSE new, target.env)
        Update == LET new == Operate(ExpandVariable(target.term.name, value.env), Ok(value.term.val), Plain(t.op))
                  IN  Assign(target.term.name, new, new, value.env)
    IN  CASE t.node = "term" -> Yields(IntoValue(t.term, env), env)
          [] t.node = "cond" ->
               IF a.ok THEN Means(t.kids[IF a.term.val # 0 THEN 2 ELSE 3], a.env) ELSE a
          [] t.node = "postfix" \/ (t.node = "prefix" /\ t.op \in {"++", "--"}) ->
               CASE ~ target.ok -> target
                 [] target.term.kind # "var" -> Raises("AssignmentToValue", target.env)
                 [] OTHER -> Step(t.node = "postfix")
          [] t.node = "prefix" -> IF a.ok THEN ApplyPrefix(a.term, t.op, a.env) ELSE a
          [] t.op \in AssignOperator ->
               CASE ~ target.ok -> target
                 [] ~ value.ok -> value
                 [] target.term.kind # "var" -> Raises("AssignmentToValue", value.env)
                 [] t.op = "=" -> Assign(target.term.name, Ok(value.term.val), Ok(value.term.val), value.env)
                 [] OTHER -> Update
          [] t.op \in {"||", "&&"} ->
               CASE ~ a.ok -> a
                 [] (a.term.val # 0) = (t.op = "||") -> Yields(Bool(t.op = "||"), a.env)
                 [] OTHER -> IF b.ok THEN Yields(Bool(b.term.val # 0), b.env) ELSE b
          [] OTHER -> CASE ~ a.ok -> a
                        [] ~ b.ok -> b
                        [] OTHER -> Yields(Exact(a.term.val, b.term.val, t.op), b.env)

\* The variables a tree may read or assign, and those it may assign.
RECURSIVE Mentions(_), Assigns(_), Sequenced(_)
Mentions(t) == IF t.node = "term" THEN (IF t.term.kind = "var" THEN {t.term.name} ELSE {})
               ELSE UNION {Mentions(t.kids[i]) : i \in DOMAIN t.kids}
Assigns(t) ==
    IF t.node = "term" THEN {}
    ELSE (IF t.op \in PostfixOperator \cup AssignOperator THEN Mentions(t.kids[1]) ELSE {})
         \cup UNION {Assigns(t.kids[i]) : i \in DOMAIN t.kids}

\* No operand assigns a variable that an unsequenced operand mentions: what C leaves defined.
Sequenced(t) ==
    t.node = "term" \/
    /\ \A i \in DOMAIN t.kids : Sequenced(t.kids[i])
    /\ t.node = "binary" /\ t.op \notin {"||", "&&"} =>
         /\ Assigns(t.kids[2]) \cap Mentions(t.kids[1]) = {}
         /\ t.op \notin AssignOperator => Assigns(t.kids[1]) \cap Mentions(t.kids[2]) = {}
         /\ t.op \in AssignOperator => Assigns(t.kids[1]) = {}

===============================================================================
