------------------------------- MODULE Phrases --------------------------------
(***************************************************************************)
(* Word expansion (yash-semantics, expansion): word units expand to a      *)
(* phrase, an array of fields of attributed characters, which is joined to *)
(* one field or split into many.                                           *)
(*                                                                         *)
(* A unit is a record with the field "unit".  Command substitution and     *)
(* arithmetic expansion are left out here, and pathname expansion is in    *)
(* Patterns.  A parameter is named by its symbol; a value is unset, a      *)
(* scalar or an array of strings.                                          *)
(***************************************************************************)
EXTENDS Terms, Fields, TLC

CONSTANTS Rank, Classes, Tree   \* see Patterns

Pat == INSTANCE Patterns

(***************************************************************************)
(* Attributed characters and phrases (phrase.rs).                          *)
(***************************************************************************)
Attr(c, origin, quoted, quoting) == [value |-> c, origin |-> origin, quoted |-> quoted, quoting |-> quoting]
Quote(c) == Attr(c, "Literal", FALSE, TRUE)
ToField(s) == [k \in DOMAIN s |-> Attr(s[k], "SoftExpansion", FALSE, FALSE)]

ZeroFields == << >>
OneEmptyField == << << >> >>

\* append: the last field of one phrase and the first field of the other are joined.
AppendPhrase(left, right) ==
    CASE right = ZeroFields -> left
      [] left = ZeroFields -> right
      [] OTHER -> Front(left) \o <<Last(left) \o Head(right)>> \o Tail(right)

FirstOf(s) == IF s = << >> THEN << >> ELSE <<s[1]>>

\* ifs_join: the fields with the first character of IFS between them.
IfsSeparator(env) ==
    LET v == env.vars["IFS"]
        first == CASE v.kind = "unset" -> <<" ">>
                   [] v.kind = "scalar" -> v.value
                   [] v.kind = "array" -> IF v.values = << >> THEN << >> ELSE v.values[1]
    IN  ToField(FirstOf(first))

IfsJoin(phrase, env) ==
    IF phrase = ZeroFields THEN << >>
    ELSE FoldLeft(LAMBDA acc, field : acc \o IfsSeparator(env) \o field, Head(phrase), Tail(phrase))

\* skip_quotes and strip.
RemoveQuotes(field) ==
    LET kept == SelectSeq(field, LAMBDA c : ~ c.quoting)
    IN  [k \in DOMAIN kept |-> kept[k].value]

(***************************************************************************)
(* Parameters (param/resolve.rs, param.rs).                                *)
(***************************************************************************)
Digits(n) == <<ToString(n)>>   \* for numbers of one digit

Resolve(env, p) ==
    CASE p \in {"@", "*"} -> Array(env.params)
      [] p = "#" -> Scalar(Digits(Len(env.params)))
      [] p = "!" -> IF env.lastAsync = 0 THEN Unset ELSE Scalar(Digits(env.lastAsync))
      [] p \in {"1", "2"} ->
           LET k == IF p = "1" THEN 1 ELSE 2
           IN  IF k <= Len(env.params) THEN Scalar(env.params[k]) ELSE Unset
      [] OTHER -> env.vars[p]

IsVariable(p) == p \notin {"@", "*", "#", "!", "1", "2"}

IntoPhrase(v) ==
    CASE v.kind = "unset" -> OneEmptyField
      [] v.kind = "scalar" -> <<ToField(v.value)>>
      [] v.kind = "array" -> [k \in DOMAIN v.values |-> ToField(v.values[k])]

\* The strings of a value that is set, and the value with other strings.
Strings(v) == IF v.kind = "array" THEN v.values ELSE <<v.value>>
WithStrings(v, strings) == IF v.kind = "array" THEN Array(strings) ELSE Scalar(strings[1])

ToLength(v) ==
    IF v.kind = "unset" THEN Scalar(Digits(0))
    ELSE WithStrings(v, [k \in DOMAIN Strings(v) |-> Digits(Len(Strings(v)[k]))])

(***************************************************************************)
(* The switch modifier (param/switch.rs).                                  *)
(***************************************************************************)
Vacancy(v) ==
    CASE v.kind = "unset" -> "Unset"
      [] v.kind = "scalar" /\ v.value = << >> -> "EmptyScalar"
      [] v.kind = "array" /\ v.values = << >> -> "ValuelessArray"
      [] v.kind = "array" /\ Len(v.values) = 1 /\ v.values[1] = << >> -> "EmptyValueArray"
      [] OTHER -> "None"

Vacant(colon, v) == Vacancy(v) = "Unset" \/ (colon /\ Vacancy(v) # "None")

Attribute(phrase) ==
    [f \in DOMAIN phrase |-> [k \in DOMAIN phrase[f] |->
        [phrase[f][k] EXCEPT !.origin = IF @ = "Literal" THEN "SoftExpansion" ELSE @]]]

Done(phrase, env) == [error |-> "none", phrase |-> phrase, env |-> env]
Fails(error, env) == [error |-> error, phrase |-> ZeroFields, env |-> env]

\* assign, of which the word has been expanded to r.
Assign(p, r) ==
    LET value == RemoveQuotes(IfsJoin(Attribute(r.phrase), r.env))
    IN  CASE r.error # "none" -> r
          [] r.error = "none" /\ p \in r.env.readonly -> Fails("AssignReadOnly", r.env)
          [] OTHER -> Done(<<ToField(value)>>, [r.env EXCEPT !.vars[p] = Scalar(value)])

(***************************************************************************)
(* The trim modifier (param/trim.rs, attr_fnmatch.rs).                     *)
(***************************************************************************)
Escapes(c) == c.value = "bs" /\ ~ c.quoting /\ ~ c.quoted

ApplyEscapes(field) ==
    FoldLeft(LAMBDA f, j : IF Escapes(f[j - 1])
                           THEN [f EXCEPT ![j - 1].quoting = TRUE, ![j].quoted = TRUE] ELSE f,
             field, [k \in 1 .. Len(field) - 1 |-> k + 1])

ToPatternChars(field) ==
    LET kept == SelectSeq(field, LAMBDA c : ~ c.quoting)
    IN  [k \in DOMAIN kept |-> IF kept[k].quoted THEN Pat!Quoted(kept[k].value) ELSE Pat!Ch(kept[k].value)]

TrimStrings(u, v, pattern) ==
    WithStrings(v, [k \in DOMAIN Strings(v) |-> Pat!Trim(pattern, u.side, u.length, Strings(v)[k])])
ApplyTrim(u, v, r) == TrimStrings(u, v, ToPatternChars(ApplyEscapes(IfsJoin(r.phrase, r.env))))

(***************************************************************************)
(* The expansion of units (initial/slice.rs, text.rs, word.rs, tilde.rs).  *)
(***************************************************************************)
RECURSIVE ExpandUnits(_, _), ExpandFrom(_, _)

\* The end of a parameter expansion: $* is one field unless it will be split.
Finish(p, v, env) ==
    LET phrase == IntoPhrase(v)
    IN  Done(IF p = "*" /\ ~ env.split THEN <<IfsJoin(phrase, env)>> ELSE phrase, env)

ExpandSwitch(u, v, env) ==
    LET vacant == Vacant(u.colon, v)
        r == ExpandUnits(u.word, env)
        wordInstead == IF u.action = "Alter" THEN ~ vacant ELSE vacant
    IN  CASE ~ wordInstead -> Finish(u.param, v, env)
          [] wordInstead /\ u.action = "Error" ->
               IF r.error # "none" THEN r ELSE Fails("VacantExpansion", r.env)
          [] wordInstead /\ u.action = "Assign" ->
               IF IsVariable(u.param) THEN Assign(u.param, r) ELSE Fails("NonassignableParameter", env)
          [] OTHER -> [r EXCEPT !.phrase = Attribute(@)]

ExpandParam(u, env) ==
    LET v == Resolve(env, u.param)
        trims == u.modifier = "Trim" /\ v # Unset
        pattern == ExpandUnits(u.word, env)
        value == CASE u.modifier = "Length" -> ToLength(v) [] trims -> ApplyTrim(u, v, pattern) [] OTHER -> v
    IN  CASE u.modifier = "Switch" -> ExpandSwitch(u, v, env)
          [] u.modifier # "Switch" /\ v = Unset /\ env.nounset -> Fails("UnsetParameter", env)
          [] trims /\ pattern.error # "none" -> pattern
          [] OTHER -> Finish(u.param, value, IF trims THEN pattern.env ELSE env)

\* The home directory.  An empty result is a dummy quote, which field splitting keeps.
ExpandTilde(slash, env) ==
    LET home == env.vars["HOME"]
        full == IF home.kind = "scalar" THEN home.value ELSE <<"~">>
        path == IF slash /\ full # << >> /\ Last(full) = "/" THEN Front(full) ELSE full
    IN  IF path = << >> THEN <<Attr("dq", "HardExpansion", FALSE, TRUE)>>
        ELSE [k \in DOMAIN path |-> Attr(path[k], "HardExpansion", FALSE, FALSE)]

QuoteField(field) ==
    <<Quote("dq")>> \o [k \in DOMAIN field |-> [field[k] EXCEPT !.quoted = TRUE]] \o <<Quote("dq")>>

\* A wrong version: what follows the quotes is still taken not to be split.
ExpandDoubleQuoteLasting(text, env) ==
    LET r == ExpandUnits(text, [env EXCEPT !.split = FALSE])
    IN  [r EXCEPT !.phrase = [f \in DOMAIN @ |-> QuoteField(@[f])]]

ExpandDoubleQuote(text, env) ==
    LET r == ExpandUnits(text, [env EXCEPT !.split = FALSE])
    IN  [r EXCEPT !.phrase = [f \in DOMAIN @ |-> QuoteField(@[f])], !.env.split = env.split]

ExpandUnit(u, env) ==
    CASE u.unit = "Literal" -> Done(<<<<Attr(u.c, "Literal", FALSE, FALSE)>>>>, env)
      [] u.unit = "Backslashed" -> Done(<<<<Quote("bs"), Attr(u.c, "Literal", TRUE, FALSE)>>>>, env)
      [] u.unit = "SingleQuote" ->
           Done(<<<<Quote("sq")>> \o [k \in DOMAIN u.s |-> Attr(u.s[k], "Literal", TRUE, FALSE)] \o <<Quote("sq")>>>>, env)
      [] u.unit = "DoubleQuote" -> ExpandDoubleQuote(u.text, env)
      [] u.unit = "Tilde" -> Done(<<ExpandTilde(u.slash, env)>>, env)
      [] u.unit = "Param" -> ExpandParam(u, env)

ExpandFrom(r, units) ==
    IF units = << >> \/ r.error # "none" THEN r
    ELSE ExpandFrom([ExpandUnit(Head(units), r.env) EXCEPT !.phrase = AppendPhrase(r.phrase, @)], Tail(units))

ExpandUnits(units, env) == ExpandFrom(Done(IF units = << >> THEN OneEmptyField ELSE ZeroFields, env), units)

(***************************************************************************)
(* Words to one field and to many (expansion.rs), without pathname         *)
(* expansion.                                                              *)
(***************************************************************************)
DefaultIfs == <<" ">>   \* with the other blanks, which the characters here do not include

Ifs(env) == IF env.vars["IFS"].kind = "scalar" THEN env.vars["IFS"].value ELSE DefaultIfs

SplitField(field, ifs) ==
    LET Soft(c) == c.origin = "SoftExpansion" /\ ~ c.quoted /\ ~ c.quoting
        text == [k \in DOMAIN field |-> [value |-> field[k].value, soft |-> Soft(field[k]), quoting |-> field[k].quoting]]
        pieces == Split(text, ifs)
    IN  [k \in DOMAIN pieces |-> RemoveQuotes(pieces[k])]

ExpandWord(units, env) ==
    LET Joined(r) == [error |-> r.error, vars |-> r.env.vars, fields |-> <<RemoveQuotes(IfsJoin(r.phrase, r.env))>>]
    IN  Joined(ExpandUnits(units, [env EXCEPT !.split = TRUE]))

ExpandWordMultiple(units, env) ==
    LET Cut(r) == [error |-> r.error, vars |-> r.env.vars,
                   fields |-> FlattenSeq([f \in DOMAIN r.phrase |-> SplitField(r.phrase[f], Ifs(r.env))])]
    IN  Cut(ExpandUnits(units, [env EXCEPT !.split = TRUE]))

(***************************************************************************)
(* Reference: a word is one flat text, in which a break is where a field   *)
(* ends and the next begins, and a null is what quotes leave.  A word of   *)
(* nothing but parameters that are arrays of no elements is no text at     *)
(* all.  A character is plain when it may be taken for a separator.        *)
(***************************************************************************)
Break == [mark |-> "break", value |-> "none", plain |-> FALSE]
Null == [mark |-> "null", value |-> "none", plain |-> FALSE]
Mark(c, plain) == [mark |-> "char", value |-> c, plain |-> plain]
Marks(s, plain) == [k \in DOMAIN s |-> Mark(s[k], plain)]

FlatText(items, env) == [ok |-> TRUE, text |-> TRUE, items |-> items, env |-> env]
NoText(env) == [ok |-> TRUE, text |-> FALSE, items |-> << >>, env |-> env]
Failed(env) == [ok |-> FALSE, text |-> FALSE, items |-> << >>, env |-> env]

Elements(v) == CASE v.kind = "unset" -> << << >> >> [] v.kind = "scalar" -> <<v.value>> [] OTHER -> v.values

\* Strings with something between them.
Between(strings, what) ==
    IF strings = << >> THEN << >> ELSE FoldLeft(LAMBDA acc, s : acc \o what \o s, Head(strings), Tail(strings))

\* The first character of IFS, which joins, and a space if there is no IFS.
Joint(env) == IF env.vars["IFS"].kind = "unset" THEN <<" ">> ELSE FirstOf(env.vars["IFS"].value)

OneText(items, env) ==
    SelectSeq(FlattenSeq([k \in DOMAIN items |-> IF items[k] = Break THEN Marks(Joint(env), TRUE) ELSE <<items[k]>>]),
              LAMBDA i : i # Null)
Plainly(items) == [k \in DOMAIN items |-> items[k].value]

RECURSIVE Meaning(_, _, _, _), MeaningFrom(_, _, _, _)

\* The value v of a parameter, within double quotes or not.
Value(p, v, env, quoted) ==
    LET strings == [k \in DOMAIN Elements(v) |-> Marks(Elements(v)[k], ~ quoted)]
        joined == p = "*" /\ quoted
    IN  IF ~ joined /\ strings = << >> THEN NoText(env)
        ELSE FlatText(Between(strings, IF joined THEN Marks(Joint(env), FALSE) ELSE <<Break>>), env)

\* A value that is not set, or of which nothing would be seen.
Missing(v, colon) == v.kind = "unset" \/ (colon /\ Between(Elements(v), <<" ">>) = << >>)

ParamMeaning(u, env, quoted) ==
    LET v == Resolve(env, u.param)
        word == Meaning(u.word, env, quoted /\ u.modifier # "Trim", TRUE)   \* quotes do not reach a pattern
        given == Plainly(OneText(word.items, word.env))
        pattern == LET one == OneText(word.items, word.env)
                   IN  [k \in DOMAIN one |-> IF one[k].plain THEN Pat!Ch(one[k].value) ELSE Pat!Quoted(one[k].value)]
        sizes == [k \in DOMAIN Elements(v) |-> Digits(Len(Elements(v)[k]))]
        trimmed == [k \in DOMAIN Elements(v) |-> Pat!ReferenceTrim(pattern, u.side, u.length, Elements(v)[k])]
        missing == Missing(v, u.colon)
        value == CASE u.modifier = "Length" -> Array(sizes) [] u.modifier = "Trim" /\ v # Unset -> Array(trimmed) [] OTHER -> v
    IN  CASE u.modifier = "Switch" /\ u.action \in {"Alter", "Default"} /\ missing # (u.action = "Alter") -> word
          [] u.modifier = "Switch" /\ u.action = "Error" /\ missing -> Failed(word.env)
          [] u.modifier = "Switch" /\ u.action = "Assign" /\ missing ->
               IF ~ IsVariable(u.param) THEN Failed(env)
               ELSE IF ~ word.ok \/ u.param \in env.readonly THEN Failed(word.env)
               ELSE FlatText(Marks(given, ~ quoted), [word.env EXCEPT !.vars[u.param] = Scalar(given)])
          [] u.modifier # "Switch" /\ v = Unset /\ env.nounset -> Failed(env)
          [] u.modifier = "Trim" /\ v # Unset /\ ~ word.ok -> Failed(word.env)
          [] OTHER -> Value(u.param, value, IF u.modifier = "Trim" /\ v # Unset THEN word.env ELSE env, quoted)

\* Quotes leave a null in each of the fields they contain.
Nulls(items) == <<Null>> \o FlattenSeq([k \in DOMAIN items |-> IF items[k] = Break THEN <<Break, Null>> ELSE <<items[k]>>])

UnitMeaning(u, env, quoted, switched) ==
    CASE u.unit = "Literal" -> FlatText(<<Mark(u.c, switched /\ ~ quoted)>>, env)
      [] u.unit = "Backslashed" -> FlatText(<<Mark(u.c, FALSE)>>, env)
      [] u.unit = "SingleQuote" -> FlatText(<<Null>> \o Marks(u.s, FALSE), env)
      [] u.unit = "DoubleQuote" ->
           LET inner == Meaning(u.text, env, TRUE, switched)
           IN  IF inner.text THEN [inner EXCEPT !.items = Nulls(@)] ELSE inner
      [] u.unit = "Tilde" ->
           LET path == IF env.vars["HOME"] = Unset THEN <<"~">> ELSE env.vars["HOME"].value
               cut == IF u.slash /\ path # << >> /\ path[Len(path)] = "/" THEN SubSeq(path, 1, Len(path) - 1) ELSE path
           IN  FlatText(<<Null>> \o Marks(cut, FALSE), env)
      [] u.unit = "Param" -> ParamMeaning(u, env, quoted)

MeaningFrom(r, units, quoted, switched) ==
    LET After(next) == [next EXCEPT !.text = @ \/ r.text, !.items = IF next.ok THEN r.items \o @ ELSE @]
    IN  IF units = << >> \/ ~ r.ok THEN r
        ELSE MeaningFrom(After(UnitMeaning(Head(units), r.env, quoted, switched)), Tail(units), quoted, switched)
Meaning(units, env, quoted, switched) ==
    MeaningFrom(IF units = << >> THEN FlatText(<< >>, env) ELSE NoText(env), units, quoted, switched)

\* The fields of a flat text: between the breaks, and split by IFS.
ReferenceFields(m) ==
    LET pieces == FoldLeft(LAMBDA ps, i : IF i = Break THEN Append(ps, << >>) ELSE [ps EXCEPT ![Len(ps)] = Append(@, i)],
                           << << >> >>, m.items)
        Soft(items) == [k \in DOMAIN items |-> [value |-> items[k].value, soft |-> items[k].plain, mark |-> items[k].mark]]
        Cut(piece) == LET fields == ReferenceSplit(Soft(piece), Ifs(m.env))
                      IN  [f \in DOMAIN fields |-> Plainly(SelectSeq(fields[f], LAMBDA c : c.mark = "char"))]
    IN  IF ~ m.text THEN << >> ELSE FlattenSeq([k \in DOMAIN pieces |-> Cut(pieces[k])])

ReferenceWord(units, env) ==
    LET One(m) == [ok |-> m.ok, fields |-> <<Plainly(OneText(m.items, m.env))>>, vars |-> m.env.vars]
    IN  One(Meaning(units, env, FALSE, FALSE))

ReferenceWordMultiple(units, env) ==
    LET Many(m) == [ok |-> m.ok, fields |-> ReferenceFields(m), vars |-> m.env.vars]
    IN  Many(Meaning(units, env, FALSE, FALSE))

===============================================================================
