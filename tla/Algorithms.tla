------------------------------ MODULE Algorithms ------------------------------
(***************************************************************************)
(* The algorithms of the shell that are checked against a reference over   *)
(* bounded inputs: arithmetic expressions, field splitting, patterns, and  *)
(* commands, words, strings and command names; and two built-ins that rely *)
(* on variables the user can change.  A behaviour belongs to one of them: an expression *)
(* or another input grows by one element at a time; getopts is called      *)
(* while its arguments and OPTIND change, cd while PWD and the directories *)
(* do.                                                                     *)
(***************************************************************************)
EXTENDS Arithmetic, Fields, Getopts, CommandSearch

CONSTANTS Alphabets,   \* sets of tokens to make expressions of, each with a bound on their length
          VarTexts,    \* the initial texts of variables
          IfsValues,   \* the values of IFS
          Characters,  \* the characters of texts
          MaxText,     \* bound: characters of a text
          MaxReadVars, \* bound: variables of the read built-in
          ArgLists,    \* the arguments getopts begins with
          PatternSets, \* sets of pieces to make patterns of, with a first piece and a bound
          PatternTexts,\* the values that patterns trim
          Rank, Classes, Tree,  \* see Patterns
          CommandSets, \* sets of tokens to make commands of, with a beginning and a bound
          PlainWords, AssignWords,   \* the words of commands
          WordSets,    \* sets of units to make words of, with a beginning and a bound
          WordEnvs,    \* the environments in which words are expanded
          StringSets,  \* sets of characters to make strings of, each with a bound on their length
          AliasSets,   \* the aliases in force while commands are parsed
          StartTree, Home, CdPaths, EnvPwds, Operands, NewPwds, NewNames, MaxEvents, MaxPath   \* see WorkingDirectory

VARIABLES dirs, cwd, pwd, oldpwd, cdpath, fixed, events, honest, back   \* see WorkingDirectory

Pat == INSTANCE Patterns
Gram == INSTANCE Grammar
Phr == INSTANCE Phrases
Lex == INSTANCE WordLexer
Wd == INSTANCE WorkingDirectory

cdVars == <<dirs, cwd, pwd, oldpwd, cdpath, fixed, events, honest, back>>
builtinVars == <<getoptsVars, cdVars>>
vars == <<probe, builtinVars>>

NoArgs == GetoptsInit(<< >>)
NoCd == /\ dirs = StartTree /\ cwd = Wd!Root /\ pwd = Wd!EmptyPath /\ oldpwd = Wd!EmptyPath /\ cdpath = << >>
        /\ fixed = {} /\ events = 0 /\ honest = FALSE /\ back = Wd!Nowhere

NoAliases == [x \in {} |-> x]
NoTree == <<"none">>
NoCommandYet(q) ==
    [of |-> "command", pieces |-> q, stage |-> "none", input |-> q.begin, meant |-> NoTree,
     kind |-> "none", tree |-> NoTree, ended |-> FALSE, taken |-> << >>]

Init ==
    \/ NoArgs /\ NoCd /\ \E a \in Alphabets : probe = [of |-> "expression", alphabet |-> a, input |-> << >>]
    \/ NoArgs /\ NoCd /\ \E i \in IfsValues : probe = [of |-> "text", ifs |-> i, input |-> << >>]
    \/ NoArgs /\ NoCd /\ \E q \in PatternSets : probe = [of |-> q.for, pieces |-> q, size |-> 0, input |-> q.begin]
    \/ NoArgs /\ NoCd /\ \E q \in CommandSets : probe = NoCommandYet(q)
    \/ NoArgs /\ NoCd /\ \E q \in WordSets : probe = [of |-> "word", pieces |-> q, size |-> 0, input |-> q.begin]
    \/ NoArgs /\ NoCd /\ \E q \in StringSets : probe = [of |-> "string", pieces |-> q, input |-> << >>]
    \/ NoArgs /\ NoCd /\ NameInit
    \/ NoCd /\ \E w \in ArgLists : GetoptsInit(w) /\ probe = [of |-> "getopts"]
    \/ NoArgs /\ EnvPwds # {} /\ Wd!CdInit /\ probe = [of |-> "cd"]

\* An expression grows as long as the parser reads to its end.
GrowExpression ==
    /\ probe.of = "expression" /\ Len(probe.input) < probe.alphabet.max
    /\ Parse(probe.input).at > Len(probe.input)
    /\ \E t \in probe.alphabet.tokens : probe' = [probe EXCEPT !.input = Append(@, t)]
    /\ UNCHANGED builtinVars

GrowText ==
    /\ probe.of = "text" /\ Len(probe.input) < MaxText
    /\ \E c \in Characters : probe' = [probe EXCEPT !.input = Append(@, c)]
    /\ UNCHANGED builtinVars

GrowPattern ==
    /\ probe.of \in {"trim", "glob", "word"} /\ probe.size < probe.pieces.max
    /\ \E c \in probe.pieces.set : probe' = [probe EXCEPT !.input = @ \o c, !.size = @ + 1]
    /\ UNCHANGED builtinVars

\* What the parser is given: a command that was typed, which grows as long as the
\* parser fails, if at all, at its end; the same where aliases are in force; the
\* display of its tree; and the text that the aliases made of it.  The tree that
\* must result is known in the last two cases.
Reading(stage, input, tokens, aliases, meant) ==
    [stage |-> stage, input |-> input, tokens |-> tokens, aliases |-> aliases, meant |-> meant]
NextReadings(c) ==
    LET Typed(input) == Reading("typed", input, Gram!Tokens(input), NoAliases, NoTree)
        Aliased(aliases) == Reading("aliased", c.input, Gram!Tokens(c.input), aliases, NoTree)
        plain == c.kind = "tree" /\ "<<" \notin ToSet(c.taken)
    IN  CASE c.stage = "none" -> {Typed(c.input)}
          [] c.stage = "typed" ->
               {Aliased(a) : a \in IF Len(c.input) < c.pieces.max THEN AliasSets ELSE {}}
                 \cup {Typed(Append(c.input, t)) : t \in IF c.ended /\ Len(c.input) < c.pieces.max THEN c.pieces.set ELSE {}}
                 \cup IF plain THEN {Reading("printed", c.input, Gram!ShowList(c.tree, FALSE), NoAliases, c.tree)} ELSE {}
          [] c.stage = "aliased" ->
               IF plain THEN {Reading("substituted", c.input, Gram!Tokens(c.taken), NoAliases, c.tree)} ELSE {}
          [] OTHER -> {}

\* The parser's result, with the tokens it has taken.
WithResult(r, next) ==
    [of |-> "command", pieces |-> probe.pieces, stage |-> next.stage, input |-> next.input, meant |-> next.meant,
     kind |-> r.kind, tree |-> r.tree, ended |-> r.s.in = << >>,
     taken |-> [k \in DOMAIN r.s.taken |-> r.s.taken[k].id]]
ReadCommand ==
    /\ probe.of = "command"
    /\ \E next \in NextReadings(probe) : probe' = WithResult(Gram!Parse(next.tokens, next.aliases), next)
    /\ UNCHANGED builtinVars

GrowString ==
    /\ probe.of = "string" /\ Len(probe.input) < probe.pieces.max
    /\ \E c \in probe.pieces.set : probe' = [probe EXCEPT !.input = Append(@, c)]
    /\ UNCHANGED builtinVars

GrowPath == NameNext /\ UNCHANGED builtinVars

Use ==
    /\ probe.of = "getopts"
    /\ \/ \E o \in {"DirectArgs", "PositionalParams"} : Refuse(o) \/ Call(o)
       \/ \E w \in ArgLists : SetWords(w)
       \/ \E v \in {First, <<1, 2>>, <<2, 1>>, Junk} : SetOptind(v)
       \/ MakeReadonly
    /\ UNCHANGED <<probe, cdVars>>

ChangeDirectory == probe.of = "cd" /\ Wd!CdNext /\ UNCHANGED <<probe, getoptsVars>>

Next == GrowExpression \/ GrowText \/ GrowPattern \/ ReadCommand \/ GrowString \/ GrowPath \/ Use \/ ChangeDirectory

Spec == Init /\ [][Next]_vars

-------------------------------------------------------------------------------
\* The environments in which expressions are evaluated.
Environments ==
    {[vars |-> [x \in {"x", "y"} |-> IF x = "x" THEN t ELSE Ok(1)], readonly |-> r, nounset |-> n] :
       t \in VarTexts, r \in {{}, {"y"}}, n \in BOOLEAN}

TypeOK ==
    /\ probe.of \in {"expression", "text", "trim", "glob", "command", "word", "string", "name", "getopts", "cd"}
    /\ words \in Seq(Word) /\ began \in Seq(Word)
    /\ optind \in Nat \X Nat
    /\ readonly \in BOOLEAN /\ endAt \in Nat \X Nat
    /\ changes \in 0 .. MaxChanges
    /\ cwd \in DOMAIN dirs /\ events \in 0 .. MaxEvents /\ honest \in BOOLEAN

\* The precedence-climbing parser accepts the expressions of C's grammar and no
\* other, and the lengths it notes in the flat array cut it into the one tree the
\* grammar gives (ast.rs: parse_tree, parse_leaf, parse_binary_rhs).  The manual lists
\* `|` as tighter than `^`, which neither C nor the code has: PrecedenceDocumented.
ParsesRight ==
    LET TreesOf(p) == IF p.error = "none" THEN {TreeOf(p.out)} ELSE {}
    IN  probe.of = "expression" => TreesOf(Parse(probe.input)) = Trees(probe.input, 1)

\* "10. Binary: | - bitwise or  11. Binary: ^ - bitwise xor", in a list of operators "in
\* order of precedence" (docs/src/arithmetic.md:119): the tree of an expression is one
\* of the manual's grammar.  The code gives `^` the precedence 6 and `|` 5 (ast.rs: precedence).
PrecedenceDocumented ==
    LET p == Parse(probe.input)
    IN  probe.of = "expression" /\ p.error = "none" => TreeOf(p.out) \in TreesBy(ManualLevels, probe.input, 1)

\* Where C leaves the order of operands open no result depends on it: the flat
\* evaluator, which reads variables late and computes in a word of limited width,
\* gives the exact result and the assignments of a strict evaluation from left to
\* right, and fails when that fails (eval.rs: eval, apply_binary, binary_result).
EvaluatesRight ==
    LET Same(flat, meant) == \/ ~ flat.ok /\ ~ meant.ok
                             \/ flat.ok /\ meant.ok /\ flat.term = meant.term /\ flat.env = meant.env
        Evaluates(out, tree) == Sequenced(tree) => \A env \in Environments : Same(EvalValue(out, env), Means(tree, env))
        Right(p) == p.error = "none" => Evaluates(p.out, TreeOf(p.out))
    IN  probe.of = "expression" => Right(Parse(probe.input))

\* The splitting automaton finds exactly the fields that terminators delimit, for
\* every IFS and every mix of quoted and unquoted characters (ranges.rs: next).
SplitsRight ==
    probe.of = "text" => Split(probe.input, probe.ifs) = ReferenceSplit(probe.input, probe.ifs)

\* read loses no field: its leading variables hold the leading fields, and the
\* text of its last variable splits into the fields that are left (read/assigning.rs).
RestResplits ==
    probe.of = "text" =>
        \A n \in 1 .. MaxReadVars :
            LET values == ReadAssign(probe.input, probe.ifs, n)
                fields == Split(probe.input, probe.ifs)
            IN  /\ \A k \in 1 .. n - 1 : values[k] = IF k <= Len(fields) THEN fields[k] ELSE << >>
                /\ Split(values[n], probe.ifs) =
                     IF n = Len(fields) /\ fields[n] = << >> THEN << >>
                     ELSE SubSeq(fields, n, Len(fields))

\* What a text is split into, and what read makes of the fields.
FieldsRight == SplitsRight /\ RestResplits

\* The trim modifiers remove the shortest or the longest prefix or suffix that the
\* pattern stands for, although the regular expression it becomes is searched for a
\* leftmost match only; an invalid pattern removes nothing (yash-fnmatch; param/trim.rs).
TrimsRight ==
    probe.of = "trim" =>
        \A value \in PatternTexts, side \in {"Prefix", "Suffix"}, length \in {"Shortest", "Longest"} :
            Pat!Trim(probe.input, side, length, value) = Pat!ReferenceTrim(probe.input, side, length, value)

\* What is found are the paths, in order, or the text if there is none.
InOrder(found, paths, text) ==
    IF paths = {} THEN found = <<text>>
    ELSE /\ ToSet(found) = paths /\ Len(found) = Cardinality(paths)
         /\ \A k \in 2 .. Len(found) : Pat!Precedes(found[k - 1], found[k])

\* Pathname expansion finds every pathname that exists and whose names fit the
\* pattern's components one by one, once and in order, and keeps the pattern's own
\* text when there is none (expansion/glob.rs: glob, search_dir).
GlobsRight ==
    probe.of = "glob" => InOrder(Pat!Glob(probe.input), Pat!ReferenceGlob(probe.input), Pat!Values(probe.input))

\* What a pattern stands for in a value that is trimmed, and among pathnames.
PatternsRight == TrimsRight /\ GlobsRight

SameOutcome(r, meant) ==
    /\ (r.error = "none") = meant.ok /\ r.vars = meant.vars
    /\ meant.ok => r.fields = meant.fields

\* A word gives the fields that its flat reading has, where every element of an array
\* ends a field, "$*" is one, quotes keep what is empty, and later units see what
\* earlier ones assigned; and the one text that joins them where a word may not be
\* split (expansion.rs: expand_word, expand_word_multiple; initial; phrase.rs: append).
ExpandsRight ==
    probe.of = "word" =>
        \A env \in WordEnvs :
            /\ SameOutcome(Phr!ExpandWord(probe.input, env), Phr!ReferenceWord(probe.input, env))
            /\ SameOutcome(Phr!ExpandWordMultiple(probe.input, env), Phr!ReferenceWordMultiple(probe.input, env))

\* The parser accepts the commands of the language's grammar and no other, and gives
\* them the one tree they have; here-documents are cut out where the next newline
\* operator is (yash-syntax/parser: command_line, here_doc_contents), but for those
\* pending at the newline that ends the words of a for loop.
CommandsRight ==
    probe.of = "command" /\ probe.stage = "typed" =>
        Gram!TreesOf(probe.input) = IF probe.kind = "tree" THEN {probe.tree} ELSE {}

\* "After the next newline operator, the shell reads lines until it finds a line
\* containing only the delimiter" (docs, here_documents.md:7): so a command with
\* here-documents that is accepted is one whose contents stand after the next newline.
\* The code does not read them at the newline after the words of a for loop
\* (for_loop.rs: for_loop_values takes it by take_token_auto).
HereDocAfterNewline ==
    probe.of = "command" /\ probe.stage = "typed" /\ probe.kind = "tree" /\ "<<" \in ToSet(probe.input) =>
        probe.tree \in Gram!TreesOf(probe.input)

\* A command that is printed, as typeset prints functions, can be read again and is
\* the same command (impl_display.rs).  Here-documents are printed without contents.
DisplayReparses ==
    probe.of = "command" /\ probe.stage = "printed" => probe.kind = "tree" /\ probe.tree = probe.meant

\* Aliases substitute text and nothing else: whatever was decided before an alias was
\* found, the command is the one that its substituted text gives without aliases
\* (parser/core.rs: substitute_alias; Rec::AliasSubstituted in its callers).
AliasesAreText ==
    probe.of = "command" /\ probe.stage = "substituted" => probe.kind = "tree" /\ probe.tree = probe.meant

\* A string that the shell prints quoted, as set, alias, trap and typeset do, is read
\* back as one word, with the string's characters, none of which then means anything
\* but itself (yash-quote: quote; parser/lex/word.rs, text.rs, tilde.rs).
QuoteReads ==
    probe.of = "string" =>
        LET OneWord(text, word) == /\ word.ok /\ word.next = Len(text) + 1 /\ word.units # << >>
                                   /\ Lex!Unquote(word.units) = probe.input
                                   /\ ~ Lex!Active(word.units)
        IN  OneWord(Lex!Quote(probe.input), Lex!WordToken(Lex!Quote(probe.input)))

\* What the shell prints, commands or quoted strings, it reads back as what it was.
PrintedReadsBack == DisplayReparses /\ QuoteReads

\* However cd is used, with symbolic links, CDPATH, -L and -P, and whatever happens to
\* directories in between, PWD names the working directory until the user or another
\* process makes it name something else, and OLDPWD names the one before (cd.rs: main,
\* canonicalize.rs, shorten.rs, assign.rs).
PwdNamesCwd ==
    probe.of = "cd" =>
        /\ honest => pwd.abs /\ Wd!Names(dirs, pwd, cwd)
        /\ back # Wd!Nowhere => Wd!Resolve(dirs, oldpwd, cwd) = back

\* What cd -L does not guarantee: that it arrives where the new PWD says.  A path below
\* PWD is shortened to a relative one even if PWD is not the working directory any more.
CdArrives ==
    [][(pwd' # pwd /\ pwd'.abs /\ events' = events) => Wd!Names(dirs, pwd', cwd')]_vars

\* Options that can be parsed at all mean the same when every option and every
\* argument is given as a word of its own (common/syntax.rs: parse_arguments).
OptionsCanonical ==
    LET p == ParseArguments(words)
        again == ParseArguments(Spelled(p))
    IN  p.error = "none" => again = p

\* Whatever the user does to the arguments and to OPTIND between calls, the options
\* that a getopts loop delivers are those that the one-pass parser of built-ins finds
\* in the arguments the loop began with, in order; a loop that ended without an error
\* has delivered all, and OPTIND is the index of the first operand (getopts.rs: main).
\* Only long options, which getopts does not know, are left out.
GetoptsAgrees ==
    LET p == ParseArguments(began)
        bad == {k \in DOMAIN given : given[k].error # "none"}
        good == IF bad = {} THEN given ELSE SubSeq(given, 1, (CHOOSE k \in bad : \A j \in bad : k <= j) - 1)
        got == [k \in DOMAIN good |-> [spec |-> SpecOf(good[k].short), arg |-> good[k].arg]]
    IN  (\A k \in DOMAIN began : ~ IsLongWord(began[k])) =>
            /\ IsPrefix(got, p.opts)
            /\ bad # {} => got = p.opts /\ p.error # "none"
            /\ endAt # Junk /\ bad = {} =>
                  /\ got = p.opts /\ p.error = "none"
                  /\ p.rest = SubSeq(began, endAt[1], Len(began))

===============================================================================
