------------------------------- MODULE Grammar --------------------------------
(***************************************************************************)
(* The parser of commands (yash-syntax, parser), with alias substitution   *)
(* and here-documents, and the display of commands (impl_display.rs).      *)
(*                                                                         *)
(* The text is a sequence of tokens; what a word is made of is left out.   *)
(* A parser takes the state of the input and returns a result: a failure,  *)
(* a tree, no tree, or the demand to start again after an alias has been   *)
(* substituted.                                                            *)
(***************************************************************************)
EXTENDS Integers, Sequences, FiniteSets, FiniteSetsExt, SequencesExt

CONSTANTS PlainWords,     \* ordinary words
          AssignWords    \* words of the form name=value; "a=" has an empty value

Keywords == {"!", "case", "do", "done", "elif", "else", "esac", "fi", "for", "if",
             "function", "in", "then", "until", "while", "[[", "{", "}"}
RedirOps == {">", "<<"}
Continuations == {";;", ";&"}
EOF == "EOF"
IsToken(id) == id \in PlainWords \cup AssignWords \cup Keywords
IsClauseDelimiter(id) ==
    id \in {"do", "done", "elif", "else", "esac", "fi", "then", "}", ")", EOF} \cup Continuations

\* from: the aliases a token comes from; after: it follows an alias that ends with
\* a blank; tight: no blank before it.
Token(id) == [id |-> id, from |-> {}, after |-> FALSE, tight |-> FALSE]
Tokens(ids) == [k \in DOMAIN ids |-> Token(ids[k])]
Start(tokens, aliases) == [in |-> tokens, unread |-> << >>, taken |-> << >>, aliases |-> aliases]

(***************************************************************************)
(* Results and tokens (core.rs).                                           *)
(***************************************************************************)
Result(kind, tree, s) == [kind |-> kind, tree |-> tree, s |-> s]
Parsed(tree, s) == Result("tree", tree, s)
Nothing(s) == Result("none", <<"none">>, s)
Again(s) == Result("again", <<"none">>, s)
Fail(s) == Result("fail", <<"none">>, s)
Then(r, F(_)) == IF r.kind \in {"tree", "none"} THEN F(r) ELSE r

IfAgain(r, F(_)) == IF r.kind = "again" THEN F(r) ELSE r

PeekToken(s) == IF s.in = << >> THEN EOF ELSE s.in[1].id
TakeTokenRaw(s) == IF s.in = << >> THEN s
                   ELSE [s EXCEPT !.in = Tail(@), !.taken = Append(@, s.in[1])]

CanSubstitute(s, isCommandName) ==
    /\ s.in # << >>
    /\ LET t == s.in[1]
       IN  /\ t.id \in DOMAIN s.aliases /\ t.id \notin t.from
           /\ isCommandName \/ s.aliases[t.id].global \/ t.after
SubstituteAlias(s) ==
    LET t == s.in[1]
        alias == s.aliases[t.id]
        new == [k \in DOMAIN alias.tokens |->
                   [Token(alias.tokens[k]) EXCEPT !.from = t.from \cup {t.id}, !.after = k = 1 /\ t.after]]
        after == alias.blank \/ (new = << >> /\ t.after)
        rest == IF after /\ Len(s.in) > 1 THEN [Tail(s.in) EXCEPT ![1].after = TRUE] ELSE Tail(s.in)
    IN  [s EXCEPT !.in = new \o rest]

\* The state before the next token that no alias replaces any more.
RECURSIVE Settle(_, _)
Settle(s, keywords) ==
    IF PeekToken(s) \notin keywords /\ CanSubstitute(s, FALSE) THEN Settle(SubstituteAlias(s), keywords) ELSE s
Took(settled) == Parsed(<<"token", PeekToken(settled)>>, TakeTokenRaw(settled))
TakeTokenAuto(s, keywords) == Took(Settle(s, keywords))

\* The next token, which must be a word.
Word(s, keywords) == Then(TakeTokenAuto(s, keywords),
                          LAMBDA r : IF IsToken(r.tree[2]) THEN r ELSE Fail(Settle(s, keywords)))

\* The places after the lines up to the one that consists of the delimiter, if they
\* begin at i.
HereDocEnds(s, delimiter, i) ==
    LET IsEnd(k) == /\ s.in[k].id = delimiter /\ s.in[k + 1].id = "nl"
                    /\ k > i => s.in[k - 1].id = "nl"
    IN  {k + 2 : k \in {j \in i .. Len(s.in) - 1 : IsEnd(j)}}

AfterHereDocs(s, i) ==
    IF i = 0 THEN Fail([s EXCEPT !.in = << >>]) ELSE Nothing([s EXCEPT !.in = SubSeq(@, i, Len(@)), !.unread = << >>])

\* A wrong version: the last here-document is read first.
HereDocContentsLast(s) ==
    LET step(i, d) == IF i = 0 \/ HereDocEnds(s, d, i) = {} THEN 0 ELSE Min(HereDocEnds(s, d, i))
    IN  AfterHereDocs(s, FoldLeft(step, 1, Reverse(s.unread)))

HereDocContents(s) ==
    LET step(i, d) == IF i = 0 \/ HereDocEnds(s, d, i) = {} THEN 0 ELSE Min(HereDocEnds(s, d, i))
    IN  AfterHereDocs(s, FoldLeft(step, 1, s.unread))

NewlineAndHereDocContents(s) ==
    IF PeekToken(s) # "nl" THEN Nothing(s)
    ELSE Then(HereDocContents(TakeTokenRaw(s)), LAMBDA r : Parsed(<<"newline">>, r.s))
RECURSIVE Newlines(_)
Newlines(s) == Then(NewlineAndHereDocContents(s), LAMBDA r : IF r.kind = "tree" THEN Newlines(r.s) ELSE r)

(***************************************************************************)
(* Simple commands and redirections (redir.rs, simple_command.rs).         *)
(***************************************************************************)
\* The redirection with the operand that was taken, which must be a word; the parser
\* fails at "at".
WithOperand(op, operand) ==
    LET id == operand.tree[2]
    IN  Parsed(<<op, id>>, IF op = "<<" THEN [operand.s EXCEPT !.unread = Append(@, id)] ELSE operand.s)
Operand(op, operand, at) == IF IsToken(operand.tree[2]) THEN WithOperand(op, operand) ELSE Fail(at)

\* A wrong version: the operand is examined before aliases are substituted.
RedirectionEarly(s) ==
    IF PeekToken(s) \notin RedirOps THEN Nothing(s)
    ELSE IF ~ IsToken(PeekToken(TakeTokenRaw(s))) THEN Fail(TakeTokenRaw(s))
    ELSE WithOperand(PeekToken(s), TakeTokenAuto(TakeTokenRaw(s), {}))

Redirection(s) ==
    IF PeekToken(s) \notin RedirOps THEN Nothing(s)
    ELSE Operand(PeekToken(s), TakeTokenAuto(TakeTokenRaw(s), {}), Settle(TakeTokenRaw(s), {}))
RECURSIVE Redirections(_, _)
Redirections(s, sofar) ==
    Then(Redirection(s),
         LAMBDA r : IF r.kind = "none" THEN Parsed(sofar, s) ELSE Redirections(r.s, Append(sofar, r.tree)))

RECURSIVE ArrayValues(_, _)
ArrayValues(s, values) ==
    Then(TakeTokenAuto(s, {}),
         LAMBDA next : LET id == next.tree[2]
                       IN  CASE id = "nl" -> ArrayValues(next.s, values)
                             [] id = ")" -> Parsed(values, next.s)
                             [] IsToken(id) -> ArrayValues(next.s, Append(values, id))
                             [] OTHER -> Fail(Settle(s, {})))

EmptyBuilder == [assigns |-> << >>, words |-> << >>, redirs |-> << >>]
Simple(b) == <<"simple", b.assigns, b.words, b.redirs>>

RECURSIVE SimpleCommand(_, _)
\* What follows if it is not a redirection: id is the next token, next what is after it.
SimpleItem(s, id, next, b) ==
    LET array == b.words = << >> /\ id = "a=" /\ PeekToken(next) = "(" /\ next.in[1].tight
    IN  CASE ~ IsToken(id) \/ (id \in Keywords /\ b = EmptyBuilder) ->
               IF b = EmptyBuilder THEN Nothing(s) ELSE Parsed(Simple(b), s)
          [] CanSubstitute(s, b.words = << >>) ->
               IF b = EmptyBuilder THEN Again(SubstituteAlias(s)) ELSE SimpleCommand(SubstituteAlias(s), b)
          [] array -> Then(ArrayValues(TakeTokenRaw(next), << >>),
                           LAMBDA r : SimpleCommand(r.s, [b EXCEPT !.assigns = Append(@, <<"array", id, r.tree>>)]))
          [] id \in AssignWords /\ b.words = << >> ->
               SimpleCommand(next, [b EXCEPT !.assigns = Append(@, <<"scalar", id>>)])
          [] OTHER -> SimpleCommand(next, [b EXCEPT !.words = Append(@, id)])
SimpleCommand(s, b) ==
    Then(Redirection(s),
         LAMBDA r : IF r.kind = "tree" THEN SimpleCommand(r.s, [b EXCEPT !.redirs = Append(@, r.tree)])
                    ELSE SimpleItem(s, PeekToken(s), TakeTokenRaw(s), b))

(***************************************************************************)
(* Lists, pipelines and compound commands.                                 *)
(***************************************************************************)
RECURSIVE MaybeCompoundList(_, _)

\* Takes the token if it is the one that must come.
Expect(id, s, tree) == IF PeekToken(s) = id THEN Parsed(tree, TakeTokenRaw(s)) ELSE Fail(s)

\* A list that must not be empty.
FullList(s) == Then(MaybeCompoundList(s, << >>), LAMBDA r : IF r.tree = << >> THEN Fail(r.s) ELSE r)

\* open list close (grouping.rs, and do_clause of compound_command.rs)
Bracketed(s, kind, close) ==
    Then(FullList(TakeTokenRaw(s)), LAMBDA r : Expect(close, r.s, <<kind, r.tree>>))
Grouping(s) == Bracketed(s, "group", "}")
Subshell(s) == Bracketed(s, "subshell", ")")
DoClause(s) == IF PeekToken(s) = "do" THEN Bracketed(s, "do", "done") ELSE Nothing(s)

Loop(s, kind) ==
    Then(FullList(TakeTokenRaw(s)),
         LAMBDA c : Then(DoClause(c.s),
                         LAMBDA d : IF d.kind = "none" THEN Fail(d.s) ELSE Parsed(<<kind, c.tree, d.tree[2]>>, d.s)))

\* What follows "if" and "elif": a condition, "then" and a body.
ThenClause(s) ==
    Then(FullList(TakeTokenRaw(s)),
         LAMBDA c : Then(Expect("then", c.s, <<"none">>),
                         LAMBDA t : Then(FullList(t.s), LAMBDA b : Parsed(<<c.tree, b.tree>>, b.s))))
RECURSIVE Elifs(_, _)
Elifs(s, sofar) ==
    IF PeekToken(s) # "elif" THEN Parsed(sofar, s)
    ELSE Then(ThenClause(s), LAMBDA r : Elifs(r.s, Append(sofar, r.tree)))
IfCommand(s) ==
    LET ElseClause(r) == IF PeekToken(r.s) = "else" THEN FullList(TakeTokenRaw(r.s)) ELSE Parsed(<< >>, r.s)
    IN  Then(ThenClause(s),
             LAMBDA i : Then(Elifs(i.s, << >>),
                             LAMBDA e : Then(ElseClause(e),
                                             LAMBDA r : Expect("fi", r.s, <<"if", i.tree, e.tree, r.tree>>))))

RECURSIVE ForIn(_, _, _)
ForIn(s, name, firstLine) ==
    LET id == PeekToken(s)
    IN  CASE id = ";" /\ firstLine -> Nothing(TakeTokenRaw(s))
          [] id = "do" -> Nothing(s)
          [] id = "nl" -> Then(NewlineAndHereDocContents(s), LAMBDA r : ForIn(r.s, name, FALSE))
          [] id = "in" -> Parsed(<<"in">>, TakeTokenRaw(s))
          [] OTHER -> IF CanSubstitute(s, FALSE) THEN ForIn(SubstituteAlias(s), name, firstLine) ELSE Fail(s)
RECURSIVE ForValues(_, _)
ForValues(s, values) ==
    Then(TakeTokenAuto(s, {}),
         LAMBDA next : LET id == next.tree[2]
                       IN  CASE IsToken(id) -> ForValues(next.s, Append(values, id))
                             [] id \in {";", "nl", EOF} -> Parsed(<<"values", values>>, next.s)
                             [] OTHER -> Fail(Settle(s, {})))
RECURSIVE ForBody(_)
ForBody(s) ==
    Then(Newlines(s),
         LAMBDA n : Then(DoClause(n.s),
                         LAMBDA d : CASE d.kind # "none" -> d
                                      [] CanSubstitute(d.s, FALSE) -> ForBody(SubstituteAlias(d.s))
                                      [] OTHER -> Fail(d.s)))
ForLoop(s) ==
    Then(Word(TakeTokenRaw(s), {}),
         LAMBDA name : Then(ForIn(name.s, name.tree[2], TRUE),
                            LAMBDA i : Then(IF i.kind = "none" THEN i ELSE ForValues(i.s, << >>),
                                            LAMBDA v : Then(ForBody(v.s),
                                                            LAMBDA d : Parsed(<<"for", name.tree[2], v.tree, d.tree[2]>>, d.s)))))

RECURSIVE Patterns(_, _)
Patterns(s, sofar) ==
    Then(TakeTokenAuto(s, {}),
         LAMBDA separator :
            CASE separator.tree[2] = ")" -> Parsed(sofar, separator.s)
              [] separator.tree[2] = "|" ->
                   Then(Word(separator.s, {}), LAMBDA p : Patterns(p.s, Append(sofar, p.tree[2])))
              [] OTHER -> Fail(Settle(s, {})))
CaseItem(s) ==
    LET Continue(p, b) == LET id == PeekToken(b.s)
                          IN  IF id \in Continuations THEN Parsed(<<p.tree, b.tree, id, TRUE>>, TakeTokenRaw(b.s))
                              ELSE Parsed(<<p.tree, b.tree, ";;", FALSE>>, b.s)
        first == CASE PeekToken(s) = "(" -> Word(TakeTokenRaw(s), {"esac"})
                   [] IsToken(PeekToken(s)) -> Took(s)
                   [] OTHER -> Fail(s)
    IN  Then(first, LAMBDA f : Then(Patterns(f.s, <<f.tree[2]>>),
                                    LAMBDA p : Then(MaybeCompoundList(p.s, << >>), LAMBDA b : Continue(p, b))))
RECURSIVE CaseItems(_, _)
CaseItems(s, sofar) ==
    Then(Newlines(s),
         LAMBDA n : CASE PeekToken(n.s) = "esac" -> Parsed(sofar, n.s)
                      [] CanSubstitute(n.s, FALSE) -> CaseItems(SubstituteAlias(n.s), sofar)
                      [] OTHER -> Then(CaseItem(n.s),
                                       LAMBDA r : LET items == Append(sofar, SubSeq(r.tree, 1, 3))
                                                  IN  IF r.tree[4] THEN CaseItems(r.s, items) ELSE Parsed(items, r.s)))
RECURSIVE CaseIn(_)
CaseIn(s) ==
    Then(Newlines(s),
         LAMBDA n : Then(TakeTokenAuto(n.s, {"in"}),
                         LAMBDA next : CASE next.tree[2] = "in" -> next
                                         [] next.tree[2] = "nl" -> CaseIn(next.s)
                                         [] OTHER -> Fail(Settle(n.s, {"in"}))))
CaseCommand(s) ==
    Then(Word(TakeTokenRaw(s), {}),
         LAMBDA subject : Then(CaseIn(subject.s),
                               LAMBDA i : Then(CaseItems(i.s, << >>),
                                               LAMBDA r : Expect("esac", r.s, <<"case", subject.tree[2], r.tree>>))))

CompoundCommand(s) ==
    LET id == PeekToken(s)
    IN  CASE id = "{" -> Grouping(s)
          [] id = "(" -> Subshell(s)
          [] id = "for" -> ForLoop(s)
          [] id \in {"while", "until"} -> Loop(s, id)
          [] id = "if" -> IfCommand(s)
          [] id = "case" -> CaseCommand(s)
          [] OTHER -> Nothing(s)
FullCompoundCommand(s) ==
    Then(CompoundCommand(s),
         LAMBDA c : IF c.kind = "none" THEN c
                    ELSE Then(Redirections(c.s, << >>), LAMBDA r : Parsed(<<"compound", c.tree, r.tree>>, r.s)))

RECURSIVE FunctionBody(_, _)
FunctionOf(c, name) ==
    CASE c.kind = "tree" -> Parsed(<<"function", name, c.tree>>, c.s)
      [] c.kind = "none" -> IF CanSubstitute(c.s, FALSE) THEN FunctionBody(SubstituteAlias(c.s), name) ELSE Fail(c.s)
      [] OTHER -> c
FunctionBody(s, name) ==
    LET n == Newlines(s) IN IF n.kind = "fail" THEN n ELSE FunctionOf(FullCompoundCommand(n.s), name)
ShortFunctionDefinition(c, s) ==
    LET close == TakeTokenAuto(TakeTokenRaw(s), {})
    IN  CASE c[2] # << >> \/ c[4] # << >> \/ Len(c[3]) # 1 \/ PeekToken(s) # "(" -> Parsed(c, s)
          [] close.tree[2] = ")" -> FunctionBody(close.s, c[3][1])
          [] OTHER -> Fail(Settle(TakeTokenRaw(s), {}))
\* r: the simple command at s, if there is one.
CommandOrElse(r, s) ==
    CASE r.kind = "tree" -> ShortFunctionDefinition(r.tree, r.s)
      [] r.kind = "none" -> IF PeekToken(s) \in {"function", "[["} THEN Fail(s) ELSE FullCompoundCommand(s)
      [] OTHER -> r
Command(s) == CommandOrElse(SimpleCommand(s, EmptyBuilder), s)

\* Until it is not the demand to start again; newlines may be skipped on the way.
RECURSIVE CommandAgain(_, _)
CommandAgain(s, newlines) ==
    LET n == IF newlines THEN Newlines(s) ELSE Nothing(s)
    IN  IF n.kind = "fail" THEN n ELSE IfAgain(Command(n.s), LAMBDA r : CommandAgain(r.s, newlines))
Required(r) == Then(r, LAMBDA c : IF c.kind = "none" THEN Fail(c.s) ELSE c)

RECURSIVE PipeRest(_, _, _)
PipeRest(s, negation, commands) ==
    IF PeekToken(s) # "|" THEN Parsed(<<negation, commands>>, s)
    ELSE Then(Required(CommandAgain(TakeTokenRaw(s), TRUE)),
              LAMBDA r : PipeRest(r.s, negation, Append(commands, r.tree)))
\* r: the command at the beginning, if there is one.
PipelineFrom(r) ==
    LET negated == r.kind = "none" /\ PeekToken(r.s) = "!"
    IN  IF r.kind # "tree" /\ ~ negated THEN r
        ELSE Then(IF negated THEN Required(CommandAgain(TakeTokenRaw(r.s), FALSE)) ELSE r,
                  LAMBDA c : PipeRest(c.s, negated, <<c.tree>>))
Pipeline(s) == PipelineFrom(Command(s))

RECURSIVE PipelineAgain(_)
PipelineAgain(s) == IfAgain(Pipeline(s), LAMBDA r : PipelineAgain(r.s))
RECURSIVE AndOrRest(_, _, _)
AndOrRest(s, first, rest) ==
    LET op == PeekToken(s)
        n == Newlines(TakeTokenRaw(s))
    IN  CASE op \notin {"&&", "||"} -> Parsed(<<first, rest>>, s)
          [] op \in {"&&", "||"} /\ n.kind = "fail" -> n
          [] OTHER -> Then(Required(PipelineAgain(n.s)),
                           LAMBDA p : AndOrRest(p.s, first, Append(rest, <<op, p.tree>>)))
AndOrFrom(p) == IF p.kind = "tree" THEN AndOrRest(p.s, p.tree, << >>) ELSE p
AndOrList(s) == AndOrFrom(Pipeline(s))

\* list, started again by every caller until no alias is substituted at its beginning
RECURSIVE List(_, _)
ListItem(r, op, items) ==
    LET now == Append(items, <<r.tree, op = "&">>)
    IN  CASE r.kind = "fail" -> r
          [] r.kind = "again" -> List(r.s, items)
          [] r.kind = "none" -> Parsed(items, r.s)
          [] op \in {";", "&"} -> List(TakeTokenRaw(r.s), now)
          [] OTHER -> Parsed(now, r.s)
List(s, items) == LET Item(r) == ListItem(r, PeekToken(r.s), items) IN Item(AndOrList(s))

MaybeCompoundList(s, items) ==
    Then(List(s, items),
         LAMBDA l : Then(NewlineAndHereDocContents(l.s),
                         LAMBDA n : CASE n.kind # "none" -> MaybeCompoundList(n.s, l.tree)
                                      [] IsClauseDelimiter(PeekToken(n.s)) -> Parsed(l.tree, n.s)
                                      [] OTHER -> Fail(n.s)))

\* command_line, again and again as the read-eval loop calls it
RECURSIVE Program(_, _)
Program(s, items) ==
    Then(List(s, items),
         LAMBDA l : Then(NewlineAndHereDocContents(l.s),
                         LAMBDA n : CASE n.kind = "none" /\ PeekToken(n.s) # EOF -> Fail(n.s)
                                      [] n.s.unread # << >> -> Fail(n.s)
                                      [] n.kind = "none" -> Parsed(l.tree, n.s)
                                      [] OTHER -> Program(n.s, l.tree)))
Parse(tokens, aliases) == Program(Start(tokens, aliases), << >>)

(***************************************************************************)
(* The display of a tree as tokens (impl_display.rs).  All: the last item  *)
(* of a list is terminated too.                                            *)
(***************************************************************************)
Join(seqs, separator) ==
    IF seqs = << >> THEN << >>
    ELSE FoldLeft(LAMBDA a, b : a \o separator \o b, Head(seqs), Tail(seqs))
Plain(ids) == Tokens(ids)

ShowAssign(a) == IF a[1] = "scalar" THEN Plain(<<a[2]>>)
                 ELSE Plain(<<a[2]>>) \o <<[Token("(") EXCEPT !.tight = TRUE]>> \o Plain(Append(a[3], ")"))
ShowAssigns(assigns) == FlattenSeq([k \in DOMAIN assigns |-> ShowAssign(assigns[k])])
ShowRedirs(redirs) == Plain(FlattenSeq(redirs))

\* A wrong version: the words always come before the redirections.
ShowWordsFirst(c) == ShowAssigns(c[2]) \o Plain(c[3]) \o ShowRedirs(c[4])

ShowSimple(c) ==
    IF c[2] = << >> /\ c[3] # << >> /\ c[3][1] \in Keywords THEN ShowRedirs(c[4]) \o Plain(c[3])
    ELSE ShowAssigns(c[2]) \o Plain(c[3]) \o ShowRedirs(c[4])

RECURSIVE ShowList(_, _)
ShowCaseItem(i) ==
    Plain(<<"(">>) \o Plain(Join([k \in DOMAIN i[1] |-> <<i[1][k]>>], <<"|">>)) \o Plain(<<")">>)
        \o ShowList(i[2], FALSE) \o Plain(<<i[3]>>)
ShowCompound(c) ==
    LET Body(list) == Plain(<<"do">>) \o ShowList(list, TRUE) \o Plain(<<"done">>)
        Clause(w, e) == Plain(<<w>>) \o ShowList(e[1], TRUE) \o Plain(<<"then">>) \o ShowList(e[2], TRUE)
        values == IF Len(c) < 3 \/ c[1] # "for" \/ c[3][1] # "values" THEN << >>
                  ELSE Plain(<<"in">> \o c[3][2] \o <<";">>)
    IN  CASE c[1] = "group" -> Plain(<<"{">>) \o ShowList(c[2], TRUE) \o Plain(<<"}">>)
          [] c[1] = "subshell" -> Plain(<<"(">>) \o ShowList(c[2], FALSE) \o Plain(<<")">>)
          [] c[1] = "for" -> Plain(<<"for", c[2]>>) \o values \o Body(c[4])
          [] c[1] \in {"while", "until"} -> Plain(<<c[1]>>) \o ShowList(c[2], TRUE) \o Body(c[3])
          [] c[1] = "if" -> Clause("if", c[2]) \o FlattenSeq([k \in DOMAIN c[3] |-> Clause("elif", c[3][k])])
                               \o (IF c[4] = << >> THEN << >> ELSE Plain(<<"else">>) \o ShowList(c[4], TRUE))
                               \o Plain(<<"fi">>)
          [] OTHER -> Plain(<<"case", c[2], "in">>) \o FlattenSeq([k \in DOMAIN c[3] |-> ShowCaseItem(c[3][k])]) \o Plain(<<"esac">>)
ShowFull(c) == ShowCompound(c[2]) \o ShowRedirs(c[3])
ShowCommand(c) ==
    LET function == c[1] = "function"
    IN  IF c[1] = "simple" THEN ShowSimple(c)
        ELSE (IF function THEN Plain(<<c[2], "(", ")">>) ELSE << >>) \o ShowFull(IF function THEN c[3] ELSE c)
ShowPipeline(p) ==
    (IF p[1] THEN Plain(<<"!">>) ELSE << >>) \o Join([k \in DOMAIN p[2] |-> ShowCommand(p[2][k])], Plain(<<"|">>))
ShowAndOr(first, rest) ==
    LET all == <<<<"first", first>>>> \o rest
    IN  FlattenSeq([k \in DOMAIN all |-> (IF k = 1 THEN << >> ELSE Plain(<<all[k][1]>>)) \o ShowPipeline(all[k][2])])
ShowItem(i, all) ==
    ShowAndOr(i[1][1], i[1][2])
        \o (IF i[2] THEN Plain(<<"&">>) ELSE IF all THEN Plain(<<";">>) ELSE << >>)
ShowList(list, all) == FlattenSeq([k \in DOMAIN list |-> ShowItem(list[k], all \/ k < Len(list))])

(***************************************************************************)
(* The reference: the grammar of the language, as the trees that a span of *)
(* the text w from i to before j can have.  The bodies of here-documents   *)
(* have been cut out.                                                      *)
(***************************************************************************)
At(w, i) == IF i <= Len(w) THEN w[i] ELSE EOF
AllNl(w, i, j) == \A k \in i .. j - 1 : w[k] = "nl"

\* The text without the bodies: they follow the next newline operator, in order.
RECURSIVE CutDocs(_, _, _)
CutDocs(w, out, pending) ==
    LET Ends(d) == {k \in 2 .. Len(w) - 1 : w[k] = d /\ w[k + 1] = "nl" /\ w[k - 1] = "nl"}
        now == IF Len(out) >= 1 /\ Last(out) = "<<" THEN Append(pending, w[1]) ELSE pending
    IN  CASE w = << >> -> IF pending = << >> THEN out ELSE Append(out, "EOF")
          [] w[1] = "nl" /\ pending # << >> ->
               IF Ends(pending[1]) = {} THEN Append(out, "EOF")
               ELSE CutDocs(<<"nl">> \o SubSeq(w, Min(Ends(pending[1])) + 2, Len(w)), out, Tail(pending))
          [] OTHER -> CutDocs(Tail(w), Append(out, w[1]), now)

RedirsOf(w, i, j) ==
    IF (j - i) % 2 = 0 /\ \A k \in i .. j - 1 : IF (k - i) % 2 = 0 THEN w[k] \in RedirOps ELSE IsToken(w[k])
    THEN {[n \in 1 .. (j - i) \div 2 |-> <<w[i + 2 * n - 2], w[i + 2 * n - 1]>>]} ELSE {}

\* A simple command is as long as it can be, and its first word is not reserved.
SimpleOf(w, i, j) ==
    LET ops == {k \in i .. j - 1 : w[k] \in RedirOps}
        others == {k \in i .. j - 1 : k \notin ops /\ k - 1 \notin ops}
        words == {k \in others : \E h \in others : h <= k /\ w[h] \notin AssignWords}
        Pick(set) == [n \in 1 .. Cardinality(set) |-> w[CHOOSE k \in set : Cardinality({h \in set : h < k}) = n - 1]]
        assigns == Pick(others \ words)
        redirs == Pick({k \in i .. j - 1 : k - 1 \in ops})
    IN  IF /\ i < j /\ w[i] \notin Keywords /\ ~ IsToken(At(w, j)) /\ At(w, j) \notin RedirOps
           /\ \A k \in i .. j - 1 : IsToken(w[k]) \/ (k \in ops /\ k < j - 1 /\ IsToken(w[k + 1]))
        THEN {<<"simple", [n \in DOMAIN assigns |-> <<"scalar", assigns[n]>>], Pick(words),
                [n \in DOMAIN redirs |-> <<Pick(ops)[n], redirs[n]>>]>>}
        ELSE {}

RECURSIVE CompoundListOf(_, _, _)
FullOf(w, i, j) == CompoundListOf(w, i, j) \ {<< >>}
DoOf(w, i, j) == IF i < j /\ w[i] = "do" /\ w[j - 1] = "done" THEN FullOf(w, i + 1, j - 1) ELSE {}
ThenOf(w, i, j) == UNION {{<<c, b>> : c \in FullOf(w, i + 1, k), b \in FullOf(w, k + 1, j)} :
                             k \in {h \in i + 1 .. j - 1 : w[h] = "then"}}
RECURSIVE ElsesOf(_, _, _)
ElsesOf(w, i, j) ==
    CASE i = j -> {<<<< >>, << >>>>}
      [] i < j /\ w[i] = "else" -> {<<<< >>, b>> : b \in FullOf(w, i + 1, j)}
      [] i < j /\ w[i] = "elif" ->
           UNION {{<<<<c>> \o e[1], e[2]>> : c \in ThenOf(w, i, k), e \in ElsesOf(w, k, j)} : k \in i + 1 .. j}
      [] OTHER -> {}
ForOf(w, i, j) ==
    LET Head1(k) == \* what may stand between the name and "do" at k
            LET ins == {h \in i + 2 .. k - 1 : w[h] = "in" /\ AllNl(w, i + 2, h)}
                Ending(h) == {n \in h + 1 .. k - 1 : /\ w[n] \in {";", "nl"} /\ AllNl(w, n + 1, k)
                                                    /\ \A m \in h + 1 .. n - 1 : IsToken(w[m])}
            IN  {<<"values", SubSeq(w, h + 1, n - 1)>> : <<h, n>> \in {p \in ins \X (i .. k) : p[2] \in Ending(p[1])}}
                \cup (IF AllNl(w, i + 2, k) \/ (At(w, i + 2) = ";" /\ i + 2 < k /\ AllNl(w, i + 3, k))
                      THEN {<<"none">>} ELSE {})
    IN  IF j - i < 4 \/ ~ IsToken(w[i + 1]) THEN {}
        ELSE UNION {{<<"for", w[i + 1], v, b>> : v \in Head1(k), b \in DoOf(w, k, j)} : k \in i + 2 .. j - 1}
RECURSIVE ItemsOf(_, _, _)
ItemsOf(w, i, j) ==
    LET open == IF At(w, i) = "(" THEN i + 1 ELSE i
        Fits(k) == \* the patterns are before the parenthesis at k
            /\ (k - open) % 2 = 1 /\ w[k] = ")" /\ (open = i => w[i] # "esac")
            /\ \A h \in open .. k - 1 : IF (h - open) % 2 = 0 THEN IsToken(w[h]) ELSE w[h] = "|"
        Pats(k) == [n \in 1 .. (k - open + 1) \div 2 |-> w[open + 2 * n - 2]]
    IN  CASE AllNl(w, i, j) -> {<< >>}
          [] w[i] = "nl" -> ItemsOf(w, i + 1, j)
          [] OTHER ->
               UNION {  {<<<<Pats(k), b, ";;">>>> : b \in CompoundListOf(w, k + 1, j)}
                        \cup UNION {{<<<<Pats(k), b, w[n]>>>> \o r : b \in CompoundListOf(w, k + 1, n), r \in ItemsOf(w, n + 1, j)} :
                                       n \in {h \in k + 1 .. j - 1 : w[h] \in Continuations}}
                      : k \in {h \in i .. j - 1 : h > open /\ Fits(h)}}
CompoundOf(w, i, j) ==
    CASE j - i < 3 -> {}
      [] w[i] = "{" /\ w[j - 1] = "}" -> {<<"group", l>> : l \in FullOf(w, i + 1, j - 1)}
      [] w[i] = "(" /\ w[j - 1] = ")" -> {<<"subshell", l>> : l \in FullOf(w, i + 1, j - 1)}
      [] w[i] \in {"while", "until"} ->
           UNION {{<<w[i], c, b>> : c \in FullOf(w, i + 1, k), b \in DoOf(w, k, j)} : k \in i + 1 .. j - 1}
      [] w[i] = "if" /\ w[j - 1] = "fi" ->
           UNION {{<<"if", c, e[1], e[2]>> : c \in ThenOf(w, i, k), e \in ElsesOf(w, k, j - 1)} : k \in i + 1 .. j - 1}
      [] w[i] = "for" -> ForOf(w, i, j)
      [] w[i] = "case" /\ w[j - 1] = "esac" /\ IsToken(w[i + 1]) ->
           UNION {{<<"case", w[i + 1], t>> : t \in ItemsOf(w, k + 1, j - 1)} :
                     k \in {h \in i + 2 .. j - 2 : w[h] = "in" /\ AllNl(w, i + 2, h)}}
      [] OTHER -> {}
FullCompoundOf(w, i, j) ==
    IF At(w, j) \in RedirOps THEN {}
    ELSE UNION {{<<"compound", c, r>> : c \in CompoundOf(w, i, k), r \in RedirsOf(w, k, j)} : k \in i .. j}
CommandOf(w, i, j) ==
    SimpleOf(w, i, j) \cup FullCompoundOf(w, i, j)
        \cup IF j - i < 4 \/ ~ IsToken(w[i]) \/ w[i] \in Keywords \cup AssignWords \/ w[i + 1] # "(" \/ w[i + 2] # ")" THEN {}
             ELSE UNION {{<<"function", w[i], c>> : c \in FullCompoundOf(w, k, j)} :
                            k \in {h \in i + 3 .. j - 1 : AllNl(w, i + 3, h)}}
RECURSIVE PipeOf(_, _, _)
PipeOf(w, i, j) ==
    {<<c>> : c \in CommandOf(w, i, j)}
        \cup UNION {{Append(p, c) : p \in PipeOf(w, i, m[1]), c \in CommandOf(w, m[2], j)} :
                      m \in {n \in (i .. j) \X (i .. j) : n[1] < n[2] /\ w[n[1]] = "|" /\ AllNl(w, n[1] + 1, n[2])}}
PipelineOf(w, i, j) ==
    {<<FALSE, p>> : p \in PipeOf(w, i, j)}
        \cup IF i < j /\ w[i] = "!" THEN {<<TRUE, p>> : p \in PipeOf(w, i + 1, j)} ELSE {}
RECURSIVE AndOrOf(_, _, _)
AndOrOf(w, i, j) ==
    {<<p, << >>>> : p \in PipelineOf(w, i, j)}
        \cup UNION {{<<a[1], Append(a[2], <<w[m[1]], p>>)>> : a \in AndOrOf(w, i, m[1]), p \in PipelineOf(w, m[2], j)} :
                      m \in {n \in (i .. j) \X (i .. j) : n[1] < n[2] /\ w[n[1]] \in {"&&", "||"} /\ AllNl(w, n[1] + 1, n[2])}}
RECURSIVE ListOf(_, _, _)
ListOf(w, i, j) ==
    IF i = j THEN {<< >>}
    ELSE {<<<<a, FALSE>>>> : a \in AndOrOf(w, i, j)}
             \cup UNION {{<<<<a, w[k] = "&">>>> \o r : a \in AndOrOf(w, i, k), r \in ListOf(w, k + 1, j)} :
                           k \in {h \in i .. j - 1 : w[h] \in {";", "&"}}}
CompoundListOf(w, i, j) ==
    IF j < i THEN {}
    ELSE ListOf(w, i, j) \cup UNION {{l \o r : l \in ListOf(w, i, k), r \in CompoundListOf(w, k + 1, j)} :
                                      k \in {h \in i .. j - 1 : w[h] = "nl"}}

\* The trees of a text.
TreesOf(ids) == LET w == CutDocs(ids, << >>, << >>) IN CompoundListOf(w, 1, Len(w) + 1)
===============================================================================
