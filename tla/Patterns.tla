------------------------------- MODULE Patterns -------------------------------
(***************************************************************************)
(* Pattern matching (yash-fnmatch), the trim modifiers of parameter        *)
(* expansion and pathname expansion (yash-semantics, expansion).           *)
(*                                                                         *)
(* A character is a string of length one; a pattern character also says    *)
(* whether it is quoted.  A pattern is compiled to a regular expression,   *)
(* which is a sequence of nodes here; the regular expression engine is     *)
(* external and finds the leftmost match that backtracking reaches first.  *)
(***************************************************************************)
EXTENDS Terms, Integers, Sequences, FiniteSets, FiniteSetsExt, SequencesExt

CONSTANTS Rank,      \* the code points of characters, a function
          Classes,   \* the characters of each character class, a function
          Tree       \* the names in each directory, a function of pathnames

Is(p, i, c) == i <= Len(p) /\ p[i] = Ch(c)
Values(p) == [i \in DOMAIN p |-> p[i].c]

(***************************************************************************)
(* The parser of patterns (ast/parse.rs).                                  *)
(***************************************************************************)
Char(c) == [kind |-> "char", value |-> <<c>>]
Single(a) == [kind |-> "atom", atom |-> a]
RangeItem(a, b) == [kind |-> "range", from |-> a, to |-> b]
Nothing == [found |-> FALSE]
Found(what, next) == [found |-> TRUE, what |-> what, next |-> next]

\* [.x.], [=x=] and [:x:], of which the bracket before i has been read.
ParseInner(p, i) ==
    LET mark == IF i <= Len(p) THEN p[i].c ELSE "none"
        ends == {k \in i + 1 .. Len(p) - 1 : Is(p, k, mark) /\ Is(p, k + 1, "]")}
    IN  IF mark \notin {".", "=", ":"} \/ ~ Is(p, i, mark) \/ ends = {} THEN Nothing
        ELSE Found([kind |-> IF mark = ":" THEN "class" ELSE "symbol",
                    value |-> Values(SubSeq(p, i + 1, Min(ends) - 1))],
                   Min(ends) + 2)

\* The last three items become a range if they look like one.
MakeRange(items) ==
    LET n == Len(items)
        joins == /\ n >= 3 /\ items[n].kind = "atom"
                 /\ items[n - 1] = Single(Char("-")) /\ items[n - 2].kind = "atom"
    IN  IF joins THEN Append(SubSeq(items, 1, n - 3), RangeItem(items[n - 2].atom, items[n].atom))
        ELSE items

RECURSIVE ParseBracket(_, _, _, _)
ParseBracket(p, i, complement, items) ==
    LET inner == ParseInner(p, i + 1)
        With(atom) == MakeRange(Append(items, Single(atom)))
    IN  CASE i > Len(p) -> Nothing
          [] Is(p, i, "]") /\ items # << >> ->
               Found([kind |-> "bracket", complement |-> complement, items |-> items], i + 1)
          [] (Is(p, i, "!") \/ Is(p, i, "^")) /\ ~ complement /\ items = << >> ->
               ParseBracket(p, i + 1, TRUE, items)
          [] Is(p, i, "[") /\ inner.found -> ParseBracket(p, inner.next, complement, With(inner.what))
          [] OTHER -> ParseBracket(p, i + 1, complement, With(Char(p[i].c)))

RECURSIVE ParseAtoms(_, _)
ParseAtoms(p, i) ==
    LET bracket == ParseBracket(p, i + 1, FALSE, << >>)
        Then(atom, next) == <<atom>> \o ParseAtoms(p, next)
    IN  CASE i > Len(p) -> << >>
          [] Is(p, i, "?") -> Then([kind |-> "any"], i + 1)
          [] Is(p, i, "*") -> Then([kind |-> "star"], i + 1)
          [] Is(p, i, "[") /\ bracket.found -> Then(bracket.what, bracket.next)
          [] OTHER -> Then(Char(p[i].c), i + 1)

(***************************************************************************)
(* Conversion to a regular expression (ast/regex.rs).  A class is written  *)
(* as marks: characters, escaped where necessary, hyphens of ranges, and   *)
(* the collating symbols, which nobody escapes.                            *)
(***************************************************************************)
Multiple(item) == item.kind = "atom" /\ item.atom.kind = "symbol" /\ Len(item.atom.value) > 1

Mark(kind, what) == [mark |-> kind, what |-> what]
Hyphen == Mark("hyphen", "-")
AtomMarks(a) ==
    CASE a.kind = "char" -> <<Mark("char", a.value[1])>>
      [] a.kind = "class" -> <<Mark("class", a.value)>>
      [] OTHER -> [k \in DOMAIN a.value |-> IF a.value[k] = "-" THEN Hyphen ELSE Mark("char", a.value[k])]
ItemMarks(item) ==
    IF item.kind = "atom" THEN AtomMarks(item.atom)
    ELSE <<Mark("char", item.from.value[1]), Hyphen, Mark("char", item.to.value[1])>>

\* EmptyCollatingSymbol, UndefinedCharClass and CharClassInRange.
BadAtom(a) == \/ a.kind = "symbol" /\ a.value = << >>
              \/ a.kind = "class" /\ a.value \notin DOMAIN Classes
BadItem(item) ==
    IF item.kind = "atom" THEN BadAtom(item.atom)
    ELSE \E a \in {item.from, item.to} : a.kind = "class" \/ BadAtom(a)

\* How the engine reads a class: a hyphen between two characters is a range.
IsRangeAt(m, k) ==
    k + 2 <= Len(m) /\ m[k].mark = "char" /\ m[k + 1] = Hyphen /\ m[k + 2].mark = "char"
RECURSIVE ClassOf(_, _)
ClassOf(m, k) ==
    CASE k > Len(m) -> [ok |-> TRUE, set |-> {}]
      [] IsRangeAt(m, k) ->
           LET rest == ClassOf(m, k + 3)
           IN  [ok |-> rest.ok /\ Rank[m[k].what] <= Rank[m[k + 2].what],
                set |-> rest.set \cup {c \in DOMAIN Rank : Rank[c] \in Rank[m[k].what] .. Rank[m[k + 2].what]}]
      [] OTHER ->
           LET rest == ClassOf(m, k + 1)
           IN  [rest EXCEPT !.set = @ \cup IF m[k].mark = "class" THEN Classes[m[k].what] ELSE {m[k].what}]

\* A node of the regular expression: its alternatives, the first preferred; the
\* strings of one alternative have the same length.
SetNode(set) == [star |-> FALSE, alternatives |-> <<{<<c>> : c \in set}>>]
ItemStrings(item) ==
    IF Multiple(item) THEN {item.atom.value} ELSE {<<c>> : c \in ClassOf(ItemMarks(item), 1).set}
BracketNode(b) ==
    LET marks(items) == FlattenSeq([k \in DOMAIN items |-> ItemMarks(items[k])])
        single == SelectSeq(b.items, LAMBDA item : ~ Multiple(item))
        set == ClassOf(marks(single), 1).set
    IN  CASE b.complement -> SetNode(DOMAIN Rank \ set)
          [] single = b.items -> SetNode(set)
          [] OTHER -> [star |-> FALSE, alternatives |-> [k \in DOMAIN b.items |-> ItemStrings(b.items[k])]]
BracketFails(b) ==
    LET single == SelectSeq(b.items, LAMBDA item : ~ Multiple(item))
        joint == single = b.items \/ b.complement
        parts == IF joint THEN {FlattenSeq([k \in DOMAIN single |-> ItemMarks(single[k])])}
                 ELSE {ItemMarks(single[k]) : k \in DOMAIN single}
    IN  \/ \E k \in DOMAIN b.items : BadItem(b.items[k])
        \/ \E m \in parts : ~ ClassOf(m, 1).ok
        \/ b.complement /\ single = << >>

Node(atom) ==
    CASE atom.kind = "char" -> [star |-> FALSE, alternatives |-> <<{atom.value}>>]
      [] atom.kind = "any" -> SetNode(DOMAIN Rank)
      [] atom.kind = "star" -> [star |-> TRUE, alternatives |-> << >>]
      [] OTHER -> BracketNode(atom)

(***************************************************************************)
(* A compiled pattern (lib.rs).  A pattern without special characters is   *)
(* compared as a string.                                                   *)
(***************************************************************************)
Compiled(atoms, begin, end, shortest, period) ==
    [ok |-> \A k \in DOMAIN atoms : atoms[k].kind = "bracket" => ~ BracketFails(atoms[k]),
     literal |-> \A k \in DOMAIN atoms : atoms[k].kind = "char",
     text |-> FlattenSeq([k \in DOMAIN atoms |-> IF atoms[k].kind = "char" THEN atoms[k].value ELSE << >>]),
     atoms |-> atoms,
     dot |-> atoms # << >> /\ atoms[1] = Char("."),
     begin |-> begin, end |-> end, shortest |-> shortest, period |-> period]
Compile(p, begin, end, shortest, period) == Compiled(ParseAtoms(p, 1), begin, end, shortest, period)

\* The ends of the matches of the nodes from k on at i, in the order of backtracking.
RECURSIVE Ends(_, _, _, _)
EndsBehind(node, pat, text, k, i) ==
    LET Fitting(strings) == {s \in strings : IsPrefix(s, SubSeq(text, i, Len(text)))}
        count == Len(text) + 1 - i
        lengths == IF node.star THEN [n \in 1 .. count + 1 |-> {IF pat.shortest THEN n - 1 ELSE count + 1 - n}]
                   ELSE [n \in DOMAIN node.alternatives |-> {Len(s) : s \in Fitting(node.alternatives[n])}]
    IN  FlattenSeq([n \in DOMAIN lengths |->
                       IF lengths[n] = {} THEN << >> ELSE Ends(pat, text, k + 1, i + Min(lengths[n]))])
Ends(pat, text, k, i) ==
    CASE k <= Len(pat.atoms) -> EndsBehind(Node(pat.atoms[k]), pat, text, k, i)
      [] k > Len(pat.atoms) -> IF pat.end /\ i # Len(text) + 1 THEN << >> ELSE <<i>>

\* Positions are those of the first character and past the last; 0 is no match.
NoMatch == <<0, 0>>
Leftmost(pat, text, starts) ==
    IF starts = {} THEN NoMatch ELSE <<Min(starts), Head(Ends(pat, text, 1, Min(starts)))>>
RegexFindAt(pat, text, at) ==
    Leftmost(pat, text, {s \in at .. Len(text) + 1 : (pat.begin => s = 1) /\ Ends(pat, text, 1, s) # << >>})

LiteralPlaces(pat, text) ==
    {s \in 1 .. Len(text) + 1 :
        /\ pat.begin => s = 1
        /\ pat.end => s + Len(pat.text) = Len(text) + 1
        /\ s + Len(pat.text) <= Len(text) + 1
        /\ SubSeq(text, s, s + Len(pat.text) - 1) = pat.text}
LiteralAt(pat, places, s) == IF places = {} THEN NoMatch ELSE <<s, s + Len(pat.text)>>

FirstIndex(pat, text) ==
    IF pat.period /\ ~ pat.dot /\ text # << >> /\ text[1] = "." THEN 2 ELSE 1
PatFind(pat, text) ==
    IF pat.literal
    THEN LET places == LiteralPlaces(pat, text)
         IN  LiteralAt(pat, places, IF places = {} THEN 0 ELSE Min(places))
    ELSE RegexFindAt(pat, text, FirstIndex(pat, text))

\* A wrong version: the search goes on behind the match and not behind its start.
RFindBehind(pat, text, range) ==
    LET LaterOf(next) == IF next = NoMatch \/ next = range THEN range ELSE next
    IN  LaterOf(IF range[2] > Len(text) THEN NoMatch ELSE RegexFindAt(pat, text, range[2]))

RECURSIVE RFindFrom(_, _, _)
RFindFrom(pat, text, range) ==
    LET LastOf(next) == IF next = NoMatch THEN range ELSE RFindFrom(pat, text, next)
    IN  LastOf(IF range[1] > Len(text) THEN NoMatch ELSE RegexFindAt(pat, text, range[1] + 1))
PatRFind(pat, text) ==
    IF pat.literal
    THEN LET places == LiteralPlaces(pat, text)
         IN  LiteralAt(pat, places, IF places = {} THEN 0 ELSE Max(places))
    ELSE LET LastOf(range) == IF range = NoMatch THEN range ELSE RFindFrom(pat, text, range)
         IN  LastOf(PatFind(pat, text))

IsMatch(pat, text) == PatFind(pat, text) # NoMatch

\* ${x#p}, ${x##p}, ${x%p} and ${x%%p} (param/trim.rs).
Without(value, range) ==
    IF range = NoMatch THEN value ELSE SubSeq(value, 1, range[1] - 1) \o SubSeq(value, range[2], Len(value))
TrimValue(pat, value) ==
    IF ~ pat.ok THEN value
    ELSE Without(value, IF pat.end /\ pat.shortest THEN PatRFind(pat, value) ELSE PatFind(pat, value))
Trim(p, side, length, value) ==
    TrimValue(Compile(p, side = "Prefix", side = "Suffix", length = "Shortest", FALSE), value)

(***************************************************************************)
(* Pathname expansion (expansion/glob.rs).  Tree gives the names in each   *)
(* directory but "." and "..", which a scan skips; a directory is the      *)
(* sequence of the names that lead to it from the working directory.       *)
(***************************************************************************)
Slash == "/"
\* The place of the first slash, or the one behind the last character.
SlashIn(p) == Min({i \in DOMAIN p : p[i].c = Slash} \cup {Len(p) + 1})
RECURSIVE Components(_)
Components(p) ==
    <<SubSeq(p, 1, SlashIn(p) - 1)>>
        \o IF SlashIn(p) > Len(p) THEN << >> ELSE Components(SubSeq(p, SlashIn(p) + 1, Len(p)))

\* What fstatat and opendir make of a pathname: empty names go, and a final
\* slash asks for a directory.
Named(parts) == SelectSeq([k \in DOMAIN parts |-> Values(parts[k])], LAMBDA n : n # << >>)
Names(path) == Named(Components([i \in DOMAIN path |-> Ch(path[i])]))
IsDirectory(path) == path = << >> \/ Names(path) \in DOMAIN Tree
Exists(path) ==
    LET names == Names(path)
    IN  /\ path # << >>
        /\ \/ IsDirectory(path)
           \/ Last(path) # Slash /\ Front(names) \in DOMAIN Tree /\ Last(names) \in Tree[Front(names)]

\* A wrong version: a name that was found needs no directory behind it.
SearchDirOnly(prefix, suffix) ==
    LET rest == Values(SubSeq(suffix, SlashIn(suffix), Len(suffix)))
        Search(pat) == IF ~ pat.ok \/ pat.literal THEN IF Exists(Values(suffix)) THEN {Values(suffix)} ELSE {}
                       ELSE {n \o rest : n \in {m \in Tree[<< >>] : IsMatch(pat, m)}}
    IN  Search(Compile(SubSeq(suffix, 1, SlashIn(suffix) - 1), TRUE, TRUE, FALSE, TRUE))

RECURSIVE SearchDir(_, _)
SearchDir(prefix, suffix) ==
    LET slash == SlashIn(suffix)
        this == SubSeq(suffix, 1, slash - 1)
        Push(name, known) ==
            IF slash <= Len(suffix) THEN SearchDir(prefix \o name \o <<Slash>>, SubSeq(suffix, slash + 1, Len(suffix)))
            ELSE IF known \/ Exists(prefix \o name) THEN {prefix \o name} ELSE {}
        Search(pat) ==
            CASE ~ pat.ok \/ pat.literal -> Push(Values(this), FALSE)
              [] pat.ok /\ ~ pat.literal /\ IsDirectory(prefix) ->
                   UNION {Push(n, TRUE) : n \in {m \in Tree[Names(prefix)] : IsMatch(pat, m)}}
              [] OTHER -> {}
    IN  Search(Compile(this, TRUE, TRUE, FALSE, TRUE))

Precedes(s, t) == \/ IsStrictPrefix(s, t)
                  \/ \E k \in 1 .. Min({Len(s), Len(t)}) :
                        SubSeq(s, 1, k - 1) = SubSeq(t, 1, k - 1) /\ Rank[s[k]] < Rank[t[k]]
SortPaths(paths) ==
    [k \in 1 .. Cardinality(paths) |->
        CHOOSE s \in paths : Cardinality({t \in paths : Precedes(t, s)}) = k - 1]
Glob(p) == LET Sorted(results) == IF results = {} THEN <<Values(p)>> ELSE SortPaths(results)
           IN  Sorted(SearchDir(<< >>, p))

(***************************************************************************)
(* The reference: what a pattern means, read from left to right.           *)
(***************************************************************************)
Element(p, i) ==
    LET inner == ParseInner(p, i + 1)
    IN  IF Is(p, i, "[") /\ inner.found THEN inner
        ELSE Found([kind |-> IF Is(p, i, "-") THEN "hyphen" ELSE "char", value |-> <<p[i].c>>], i + 1)

\* The elements between the brackets, up to the first that closes the expression.
RECURSIVE Elements(_, _, _)
Elements(p, i, sofar) ==
    IF i > Len(p) THEN Nothing
    ELSE IF Is(p, i, "]") /\ sofar # << >> THEN Found(sofar, i + 1)
    ELSE Elements(p, Element(p, i).next, Append(sofar, Element(p, i).what))

Between(a, b) == {<<c>> : c \in {d \in DOMAIN Rank : Rank[a] <= Rank[d] /\ Rank[d] <= Rank[b]}}
RECURSIVE Meaning(_)
Meaning(es) ==
    CASE es = << >> -> {}
      [] Len(es) >= 3 /\ es[2].kind = "hyphen" ->
           Between(es[1].value[1], es[3].value[1]) \cup Meaning(SubSeq(es, 4, Len(es)))
      [] OTHER -> (IF es[1].kind = "class" THEN {<<c>> : c \in Classes[es[1].value]} ELSE {es[1].value})
                      \cup Meaning(Tail(es))
RECURSIVE Invalid(_)
Invalid(es) ==
    CASE es = << >> -> FALSE
      [] Len(es) >= 3 /\ es[2].kind = "hyphen" ->
           \/ \E k \in {1, 3} : es[k].kind = "class" \/ es[k].value = << >>
           \/ Rank[es[1].value[1]] > Rank[es[3].value[1]]
           \/ Invalid(SubSeq(es, 4, Len(es)))
      [] OTHER -> \/ es[1].value = << >>
                  \/ es[1].kind = "class" /\ es[1].value \notin DOMAIN Classes
                  \/ Invalid(Tail(es))

\* The whole text s is what the pattern p from i on stands for.
RECURSIVE Stands(_, _, _)
Stands(p, i, s) ==
    LET negated == Is(p, i + 1, "!") \/ Is(p, i + 1, "^")
        es == Elements(p, IF negated THEN i + 2 ELSE i + 1, << >>)
        one == {<<c>> : c \in DOMAIN Rank}
        strings == IF negated THEN one \ Meaning(es.what) ELSE Meaning(es.what)
    IN  CASE i > Len(p) -> s = << >>
          [] Is(p, i, "?") -> s # << >> /\ Stands(p, i + 1, Tail(s))
          [] Is(p, i, "*") -> \E n \in 0 .. Len(s) : Stands(p, i + 1, SubSeq(s, n + 1, Len(s)))
          [] Is(p, i, "[") /\ es.found ->
               \E t \in strings : IsPrefix(t, s) /\ Stands(p, es.next, SubSeq(s, Len(t) + 1, Len(s)))
          [] OTHER -> s # << >> /\ s[1] = p[i].c /\ Stands(p, i + 1, Tail(s))

\* Some bracket expression of the pattern has no meaning.
RECURSIVE Broken(_, _)
Broken(p, i) ==
    LET negated == Is(p, i + 1, "!") \/ Is(p, i + 1, "^")
        es == Elements(p, IF negated THEN i + 2 ELSE i + 1, << >>)
    IN  CASE i > Len(p) -> FALSE
          [] Is(p, i, "[") /\ es.found -> Invalid(es.what) \/ Broken(p, es.next)
          [] OTHER -> Broken(p, i + 1)

\* The smallest or largest prefix or suffix the pattern stands for goes.
ReferenceTrim(p, side, length, value) ==
    LET n == Len(value)
        fits == {k \in 0 .. n : Stands(p, 1, IF side = "Prefix" THEN SubSeq(value, 1, k)
                                             ELSE SubSeq(value, n - k + 1, n))}
        k == IF length = "Shortest" THEN Min(fits) ELSE Max(fits)
    IN  CASE Broken(p, 1) \/ fits = {} -> value
          [] side = "Prefix" -> SubSeq(value, k + 1, n)
          [] OTHER -> SubSeq(value, 1, n - k)

\* A name fits a component of a pathname pattern; a leading period must be given.
ComponentFits(p, name) ==
    IF Broken(p, 1) THEN name = Values(p)
    ELSE Stands(p, 1, name) /\ (name # << >> /\ name[1] = "." => p[1].c = ".")
PathsFitting(parts) ==
    LET Fitting(k) == {n \in UNION {Tree[d] : d \in DOMAIN Tree} \cup {Values(parts[k])} : ComponentFits(parts[k], n)}
        Join(names) == FoldLeft(LAMBDA path, n : path \o <<Slash>> \o n, Head(names), Tail(names))
        choices == {c \in [DOMAIN parts -> UNION {Fitting(k) : k \in DOMAIN parts}] :
                       \A k \in DOMAIN parts : c[k] \in Fitting(k)}
    IN  {path \in {Join(c) : c \in choices} : Exists(path)}
ReferenceGlob(p) == PathsFitting(Components(p))
===============================================================================
