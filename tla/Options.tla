-------------------------------- MODULE Options --------------------------------
(***************************************************************************)
(* Parsing of the options of built-ins (yash-builtin, common/syntax.rs).   *)
(* A word is the sequence of its characters.  Specs is the list of options *)
(* a built-in declares, each with its letter, its long name (<< >> when it *)
(* has none) and whether it takes an argument.                             *)
(***************************************************************************)
EXTENDS Integers, Sequences, FiniteSets, SequencesExt

CONSTANTS Specs, LongOptions   \* LongOptions: the mode that accepts long options

Hyphen == "-"
Separator == <<Hyphen, Hyphen>>

IsShortWord(w) == Len(w) >= 2 /\ w[1] = Hyphen /\ w[2] # Hyphen
IsLongWord(w) == Len(w) > 2 /\ SubSeq(w, 1, 2) = Separator

\* The spec of a letter: the first one, or 0.
SpecOf(c) == LET found == {i \in DOMAIN Specs : Specs[i].short = c}
             IN  IF found = {} THEN 0 ELSE CHOOSE i \in found : \A j \in found : i <= j

(***************************************************************************)
(* The state of the parse: the words left, the options so far, an error.   *)
(***************************************************************************)
Parsing(rest, opts, error) == [rest |-> rest, opts |-> opts, error |-> error]
Occurs(p, spec, arg) == [p EXCEPT !.opts = Append(@, [spec |-> spec, arg |-> arg])]
NoArgument == [given |-> FALSE]
Argument(w) == [given |-> TRUE, word |-> w]

RECURSIVE ParseShort(_, _)

\* The letters left of a word of short options, taken off the words already.
ParseShort(w, p) ==
    LET i == SpecOf(Head(w))
    IN  CASE w = << >> -> p
          [] i = 0 -> Parsing(p.rest, p.opts, "UnknownShortOption")
          [] ~ Specs[i].argument -> ParseShort(Tail(w), Occurs(p, i, NoArgument))
          [] Len(w) > 1 -> Occurs(p, i, Argument(Tail(w)))
          [] p.rest = << >> -> Parsing(p.rest, p.opts, "MissingOptionArgument")
          [] OTHER -> Occurs(Parsing(Tail(p.rest), p.opts, "none"), i, Argument(Head(p.rest)))

\* long_match: an exact match, or else the only option the name begins.
LongMatches(name) ==
    LET partial == {i \in DOMAIN Specs : Specs[i].long # << >> /\ IsPrefix(name, Specs[i].long)}
        exact == {i \in partial : Specs[i].long = name}
    IN  IF exact # {} THEN {CHOOSE i \in exact : \A j \in exact : i <= j} ELSE partial

ParseLong(w, p) ==
    LET equals == {k \in DOMAIN w : w[k] = "="}
        equal == IF equals = {} THEN 0 ELSE CHOOSE k \in equals : \A j \in equals : k <= j
        matches == LongMatches(SubSeq(w, 3, IF equal = 0 THEN Len(w) ELSE equal - 1))
        i == CHOOSE i \in matches : TRUE
        Fail(error) == Parsing(p.rest, p.opts, error)
    IN  CASE matches = {} -> Fail("UnknownLongOption")
          [] Cardinality(matches) > 1 -> Fail("AmbiguousLongOption")
          [] ~ LongOptions -> Fail("UnsupportedLongOption")
          [] ~ Specs[i].argument /\ equal = 0 -> Occurs(p, i, NoArgument)
          [] ~ Specs[i].argument -> Fail("UnexpectedOptionArgument")
          [] equal # 0 -> Occurs(p, i, Argument(SubSeq(w, equal + 1, Len(w))))
          [] p.rest = << >> -> Fail("MissingOptionArgument")
          [] OTHER -> Occurs(Parsing(Tail(p.rest), p.opts, "none"), i, Argument(Head(p.rest)))

RECURSIVE ParseWords(_)
ParseWords(p) ==
    LET w == Head(p.rest)
        after == Parsing(Tail(p.rest), p.opts, "none")
    IN  CASE p.error # "none" \/ p.rest = << >> -> p
          [] IsShortWord(w) -> ParseWords(ParseShort(Tail(w), after))
          [] IsLongWord(w) -> ParseWords(ParseLong(w, after))
          [] w = Separator -> after
          [] OTHER -> p

\* The options and, as "rest", the operands.
ParseArguments(words) == ParseWords(Parsing(words, << >>, "none"))

(***************************************************************************)
(* The words that spell a result in the plainest way: a word per option, a *)
(* word per argument, and a separator before the operands.                 *)
(***************************************************************************)
SpelledOption(o) == << <<Hyphen, Specs[o.spec].short>> >>
                    \o IF o.arg.given THEN <<o.arg.word>> ELSE << >>
Spelled(p) == FoldLeft(LAMBDA words, o : words \o SpelledOption(o), << >>, p.opts)
              \o <<Separator>> \o p.rest

===============================================================================
