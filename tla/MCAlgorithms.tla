----------------------------- MODULE MCAlgorithms -----------------------------
EXTENDS Algorithms

\* Terms has no parameters: constants that were built with the instances in Algorithms
\* would depend on themselves.
T == INSTANCE Terms

MCOps(s) == {Op(o) : o \in s}

\* Each alphabet mixes terms with operators whose interplay matters; the fewer
\* tokens it has, the longer the expressions.
MCAlphabet(terms, ops, n) == [tokens |-> terms \cup MCOps(ops), max |-> n]
MCAlphabets ==
    { MCAlphabet({Num(1), Var("x")}, {"=", "?", ":"}, 8),
      MCAlphabet({Var("x")}, {"(", ")", "-", "++", "+", "*"}, 6),
      MCAlphabet({Num(1), Var("x"), Var("y")}, {"=", "?", ":", "(", ")", "++", "-"}, 5),
      MCAlphabet({Num(2), Var("x")}, {"+", "*", "<<", "||", "&&", "+=", "--"}, 5),
      MCAlphabet({Num(3), Var("x")}, {"|", "^", "&", "==", "<", "!", "~"}, 5),
      MCAlphabet({Num(1), Var("x")}, {"/", "%", ">>", "-", "!=", "/=", "="}, 5) }
MCBitwiseAlphabet == {MCAlphabet({Num(1), Var("x")}, {"|", "^"}, 5)}

MCVarTexts == {Ok(0), Ok(5), Ok(-8), Err("Unset"), Err("InvalidVariableValue")}

MCChar(v, s) == [value |-> v, soft |-> s]
MCCharacters == {MCChar("x", TRUE), MCChar(" ", TRUE), MCChar(":", TRUE), MCChar(":", FALSE)}
MCIfsValues == {<<" ", ":">>, <<":">>, <<" ">>, << >>}

MCPieces(s) == {<<T!Ch(c)>> : c \in s}
MCPattern(for, begin, set, n) == [for |-> for, begin |-> begin, set |-> set, max |-> n]
MCOpen == <<T!Ch("[")>>
MCInner(mark, value) == <<T!Ch("["), T!Ch(mark)>> \o [i \in DOMAIN value |-> T!Ch(value[i])] \o <<T!Ch(mark), T!Ch("]")>>
MCSymbols == MCPieces({"a", "-", "]"}) \cup
             {MCInner(".", <<"b">>), MCInner("=", << >>), MCInner(":", <<"d">>), <<T!Quoted("]")>>}
MCPatternSets ==
    { MCPattern("trim", << >>, MCPieces({"*", "?", "a", "b"}), 4),
      MCPattern("trim", MCOpen, MCPieces({"a", "b", "-", "]"}), 4),
      MCPattern("trim", MCOpen, MCPieces({"!", "^", "]", "[", "a", "*"}), 4),
      MCPattern("trim", MCOpen, MCSymbols, 3),
      MCPattern("trim", MCOpen \o <<T!Ch("a")>>, MCSymbols, 3),
      MCPattern("glob", << >>, MCPieces({"*", "?", "a", "/", "["}) \cup {<<T!Ch("."), T!Ch("b")>>}, 4),
      MCPattern("glob", MCOpen, MCPieces({"a", "]", "/", "*", "-"}) \cup
                {MCInner(".", <<"a", "b">>), <<T!Quoted("*")>>}, 4) }
MCPatternTexts == UNION {[1 .. n -> {"a", "b", "-"}] : n \in 0 .. 1} \cup {<<"a", "-">>, <<"b", "a">>} \cup [1 .. 3 -> {"a", "b"}] \cup {<<"a", "[", "]">>, <<"b", "]">>}
MCRank == [c \in {"*", "-", ".", "/", "[", "]", "a", "b"} |->
             CASE c = "*" -> 42 [] c = "-" -> 45 [] c = "." -> 46 [] c = "/" -> 47
               [] c = "[" -> 91 [] c = "]" -> 93 [] c = "a" -> 97 [] OTHER -> 98]
MCClasses == <<"d">> :> {"b"}
MCTree == << >> :> {<<"a">>, <<"a", "b">>, <<".", "b">>, <<"*">>, <<"b">>}
          @@ <<<<"a">>>> :> {<<"a">>, <<".", "b">>}
          @@ <<<<".", "b">>>> :> {<<"b">>}

MCCommand(begin, set, n) == [begin |-> begin, set |-> set, max |-> n]
MCCommandSets ==
    { MCCommand(<< >>, {"a", "b", ";", "&", "nl", "&&", "|", "!"}, 4),
      MCCommand(<< >>, {"a", "a=1", "b", ">", "in"}, 5),
      MCCommand(<< >>, {"a", "if", ">", "(", ")", "{", "}", ";"}, 5),
      MCCommand(<<"a", "(">>, {"a", "(", ")", "{", "}", ";", "nl"}, 7),
      MCCommand(<<"for">>, {"a", "in", ";", "nl", "do", "done"}, 7),
      MCCommand(<<"case", "a">>, {"in", "a", "(", ")", "|", ";;", "nl", "esac"}, 7),
      MCCommand(<<"if", "a", ";">>, {"then", "else", "elif", "a", ";", "fi"}, 9),
      MCCommand(<<"while", "a">>, {"until", ";", "a", "do", "done"}, 8),
      MCCommand(<<"a", "<<", "a">>, {"a", "b", "<<", "nl"}, 10) }
MCHereDocFor == {MCCommand(<<"a", "<<", "a", ";", "for", "a", "in">>, {"a", "nl", ";", "do", "done"}, 16)}
MCAlias(tokens, blank, global) == [tokens |-> tokens, blank |-> blank, global |-> global]
MCAliasSets ==
    { [x \in {"a", "b"} |-> IF x = "a" THEN MCAlias(<<"b", ";">>, FALSE, FALSE) ELSE MCAlias(<<"a", "if">>, TRUE, FALSE)],
      [x \in {"a", "b"} |-> IF x = "a" THEN MCAlias(<< >>, TRUE, FALSE) ELSE MCAlias(<<"|", "a">>, FALSE, TRUE)],
      [x \in {"a", "b", "in"} |-> IF x = "a" THEN MCAlias(<<"nl">>, FALSE, TRUE) ELSE IF x = "b" THEN MCAlias(<<"{", "b">>, FALSE, FALSE)
                                ELSE MCAlias(<<"do">>, FALSE, TRUE)] }

\* Words: units as they stand alone and within double quotes, then each kind of modifier.
MCWord(begin, set, n) == [begin |-> begin, set |-> {<<u>> : u \in set}, max |-> n]
MCParams(ps) == {T!Param(p) : p \in ps}
MCQuotes(texts) == {T!DoubleQuote(t) : t \in texts}
MCSwitches(ws) ==
    {T!Switch(p, action, colon, w) :
       p \in {"x", "@", "*", "1"}, action \in {"Alter", "Default", "Assign", "Error"}, colon \in BOOLEAN, w \in ws}
MCWordSets ==
    { MCWord(<< >>, MCParams({"@", "*", "x"}) \cup {T!SingleQuote(<< >>), T!Lit("a")}
                    \cup MCQuotes({<<u>> : u \in MCParams({"@", "*", "x"})}
                                   \cup {<<T!Lit("a"), T!Param("@")>>, <<T!Param("@"), T!Param("@")>>}), 3),
      MCWord(<< >>, MCSwitches({<< >>, <<T!Lit(" "), T!Param("@")>>,
                                <<T!DoubleQuote(<<T!Param("@")>>), T!Param("*")>>, <<T!Lit(":"), T!SingleQuote(<<" ">>)>>}), 1),
      MCWord(<< >>, MCQuotes({<<u>> : u \in MCSwitches({<< >>, <<T!DoubleQuote(<<T!Lit(" ")>>), T!Param("*")>>, <<T!Param("@")>>})}), 1),
      MCWord(<<T!Tilde(TRUE), T!Lit("/")>>, MCParams({"#", "!", "2"}) \cup MCQuotes({<<T!TrimOf("x", "Suffix", "Longest", <<T!Lit("*"), T!Param("1")>>)>>})
                    \cup {T!Backslashed(" "), T!Length("@"), T!Length("x")}
                    \cup {T!TrimOf(p, side, "Shortest", w) : p \in {"x", "*", "2"}, side \in {"Prefix", "Suffix"},
                             w \in {<<T!Lit("*")>>, <<T!Param("1")>>, <<T!Switch("x", "Assign", TRUE, <<T!Lit("a")>>), T!SingleQuote(<<" ">>)>>}}, 2),
      MCWord(<< >>, {T!Param("x"), T!Tilde(FALSE), T!Switch("IFS", "Assign", TRUE, <<T!Lit("a")>>), T!DoubleQuote(<<T!Param("*")>>),
                     T!Switch("x", "Assign", TRUE, <<T!Param("*")>>), T!DoubleQuote(<<T!Switch("x", "Assign", TRUE, <<T!Param("@")>>)>>)}, 3) }

MCEnv(params, x, ifs, strict) ==
    [vars |-> [v \in {"x", "IFS", "HOME"} |-> IF v = "x" THEN x ELSE IF v = "IFS" THEN ifs ELSE IF strict THEN T!Scalar(<<"/">>) ELSE T!Unset],
     params |-> params, lastAsync |-> IF strict THEN 5 ELSE 0, nounset |-> strict, readonly |-> IF strict THEN {"x"} ELSE {}, split |-> TRUE]
MCWordEnvs ==
    {MCEnv(params, x, ifs, FALSE) :
        params \in {<< >>, << << >> >>, <<<<"a", " ">>, << >>, <<":">>>>},
        x \in {T!Unset, T!Scalar(<< >>), T!Scalar(<<" ", "b", ":", "a">>), T!Array(<<<<"a">>, <<" ", "b">>>>)},
        ifs \in {T!Unset, T!Scalar(<< >>), T!Scalar(<<":", " ">>)}}
    \cup {MCEnv(params, x, T!Scalar(<<" ">>), TRUE) : params \in {<< >>, <<<<"b">>>>}, x \in {T!Unset, T!Scalar(<<"b", "a">>)}}

MCStringSets ==
    { [set |-> {"a", "sq", "dq", "bs", "$", "bq", " ", "nl", "~", ":", "=", "{", "}", "[", "]", "#", "*", ";"}, max |-> 3],
      [set |-> {"a", "sq", "dq", "bs", "$", "nl"}, max |-> 5],
      [set |-> {"a", "sq", "~", ":", "{", "}"}, max |-> 5] }

MCAbs(s) == T!Path(TRUE, s)
MCRel(s) == T!Path(FALSE, s)
MCStartTree == "root" :> ("a" :> T!Dir("d") @@ "l" :> T!Link(MCAbs(<<"a", "b">>)))
               @@ "d" :> ("b" :> T!Dir("e")) @@ "e" :> ("u" :> T!Link(MCRel(<<"..">>)))
MCHome == MCAbs(<<"a">>)
MCCdPaths == {<<MCAbs(<<"a">>), T!EmptyPath, MCRel(<<"l">>)>>, <<T!EmptyPath, MCAbs(<<"a">>)>>}
MCEnvPwds == {MCAbs(<<"l">>), MCAbs(<<"a", ".">>)}
MCOperands == "1" :> MCAbs(<<"l">>) @@ "2" :> MCRel(<<"b">>) @@ "3" :> MCRel(<<"..">>) @@ "4" :> MCRel(<<"u", "..", "b">>)
MCNewPwds == {T!EmptyPath, MCAbs(<<"a">>)}

\* Command names: in the shell's directory /y there may be a file and, below it, another
\* in a directory whose name begins with a hyphen.
MCName == MCRel(<<"n">>)
MCCommandNames == {MCName, MCAbs(<<"x", "n">>), MCRel(<<".", "n">>), MCRel(<<"-d", "n">>)}
MCFiles ==
    {x @@ y @@ d : x \in {<< >>, MCAbs(<<"x", "n">>) :> "plain", MCAbs(<<"x", "n">>) :> "binary"},
                   y \in {<< >>, MCAbs(<<"y", "n">>) :> "script"}, d \in {<< >>, MCAbs(<<"y", "-d", "n">>) :> "script"}}
MCLocated(dir, path) ==
    MCAbs(SelectSeq(IF path.abs THEN path.comps ELSE dir.comps \o path.comps, LAMBDA c : c # "."))
MCShellStates ==
    {[kind |-> k, function |-> f, posix |-> p, words |-> w, files |-> s, cwd |-> MCAbs(<<"y">>), pwd |-> d,
      path |-> << >>, stdpath |-> <<MCRel(<<"-d">>), MCAbs(<<"x">>)>>] :
        k \in {"None", "Special", "Mandatory", "Elective", "Extension", "Substitutive"}, f \in BOOLEAN, p \in BOOLEAN,
        w \in {{}, {"Alias", "Keyword"}}, s \in MCFiles, d \in {T!EmptyPath, MCAbs(<<"y">>)}}
MCPathSets == {[set |-> {MCAbs(<<"x">>), T!EmptyPath, MCRel(<<"-d">>)}, max |-> 2]}

MCSpecs == << [short |-> "a", long |-> <<"a", "b">>, argument |-> FALSE],
              [short |-> "b", long |-> <<"a">>, argument |-> TRUE] >>
MCWords == UNION {[1 .. n -> Letters] : n \in 1 .. MaxWord}
MCArgWords(n) == {w \in MCWords : Len(w) <= n /\ (w[1] = "-" \/ w = <<"a">>)}
MCArgLists == {<< >>} \cup {<<w>> : w \in MCArgWords(3)} \cup (MCArgWords(3) \X MCArgWords(2))
===============================================================================
