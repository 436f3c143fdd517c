-------------------------------- MODULE Getopts --------------------------------
(***************************************************************************)
(* The getopts built-in (yash-builtin, getopts.rs and getopts/).  It parses*)
(* one option per call; between calls its position lives in the variable   *)
(* OPTIND, as text the user can change, and a copy of the position and of  *)
(* the arguments lives in the environment, to notice such a change.        *)
(*                                                                         *)
(* OPTIND is a pair of indices: <<n, 1>> stands for the text "n" and       *)
(* <<n, m>> for "n:m".  Junk stands for any text the built-in never        *)
(* writes, unset included.                                                 *)
(***************************************************************************)
EXTENDS Options

CONSTANTS Letters,     \* the characters of the words
          MaxWord,     \* bound: characters of an argument
          MaxChanges   \* bound: changes of the arguments or of OPTIND by the user

VARIABLES words,     \* the arguments to parse (the positional parameters)
          optind,    \* $OPTIND
          readonly,  \* whether a variable that getopts assigns is read-only
          saved,     \* GetoptsState in env.any, or NoState
          given,     \* the options that calls reported since the last call with OPTIND = 1
          began,     \* the arguments of that call
          endAt,     \* where a call since then first found no more options, or Junk
          changes    \* how often the user changed the arguments or OPTIND

getoptsVars == <<words, optind, readonly, saved, given, began, endAt, changes>>

First == <<1, 1>>
Junk == <<0, 0>>
NoState == [args |-> << >>, origin |-> "none", optind |-> Junk]
Word == SeqOf(Letters, MaxWord)

(***************************************************************************)
(* model::next: the option at a position.  "option" is << >> when there is *)
(* none, or a sequence of one occurrence.                                  *)
(***************************************************************************)
Judge(c) == IF SpecOf(c) = 0 THEN "Unknown"
            ELSE IF Specs[SpecOf(c)].argument THEN "TakesArgument" ELSE "NoArgument"

NonOption(n) == [option |-> << >>, at |-> <<n, 1>>]
Occurrence(c, arg, error) == <<[short |-> c, arg |-> arg, error |-> error]>>

Advanced(n, m, incr) == <<n + incr, IF incr = 0 THEN m + 1 ELSE 1>>

NextOption(args, n, m) ==
    LET w == args[n]
        c == w[m + 1]
        left == SubSeq(w, m + 2, Len(w))
        incr == IF left = << >> THEN 1 ELSE 0
        Found(arg, error, i) == [option |-> Occurrence(c, arg, error), at |-> Advanced(n, m, i)]
    IN  CASE n > Len(args) -> NonOption(n)
          [] w = << >> \/ Head(w) # Hyphen -> NonOption(n)
          [] w = Separator -> NonOption(n + 1)
          [] Len(w) < m + 1 -> NonOption(n)
          [] Judge(c) = "Unknown" -> Found(NoArgument, "UnknownOption", incr)
          [] Judge(c) = "NoArgument" -> Found(NoArgument, "none", incr)
          [] left # << >> -> Found(Argument(left), "none", 1)
          [] n < Len(args) -> Found(Argument(args[n + 1]), "none", 2)
          [] OTHER -> Found(NoArgument, "MissingArgument", 1)

IndexesFrom(s) == IF s = Junk THEN First ELSE s

(***************************************************************************)
(* main: the call is refused unless OPTIND says to start over or both the  *)
(* arguments and OPTIND are what the last call left.                       *)
(***************************************************************************)
\* A wrong version: the arguments are not compared.
AcceptedAny(origin) ==
    \/ optind = First
    \/ saved # NoState /\ saved.origin = origin /\ saved.optind = optind

Accepted(origin) ==
    \/ optind = First
    \/ saved # NoState /\ saved.origin = origin /\ saved.args = words /\ saved.optind = optind

Refuse(origin) ==
    /\ ~ Accepted(origin)
    /\ UNCHANGED getoptsVars

\* The assignments of report: the option variable, OPTARG, OPTIND, in this
\* order; the first that fails ends the call with OPTIND as it was.
Call(origin) ==
    LET state == IF optind = First THEN [args |-> words, origin |-> origin, optind |-> optind] ELSE saved
        r == NextOption(words, IndexesFrom(optind)[1], IndexesFrom(optind)[2])
        fresh == optind = First
        stop == IF fresh THEN Junk ELSE endAt
    IN  /\ Accepted(origin)
        /\ began' = IF fresh THEN words ELSE began
        /\ IF readonly
           THEN /\ saved' = state
                /\ given' = IF fresh THEN << >> ELSE given
                /\ endAt' = stop
                /\ UNCHANGED optind
           ELSE /\ saved' = [state EXCEPT !.optind = r.at]
                /\ optind' = r.at
                /\ given' = CASE fresh -> r.option
                              [] stop # Junk -> given
                              [] OTHER -> given \o r.option
                /\ endAt' = IF stop = Junk /\ r.option = << >> THEN r.at ELSE stop
        /\ UNCHANGED <<words, readonly, changes>>

(***************************************************************************)
(* What the user may do between calls.                                     *)
(***************************************************************************)
\* set, shift: other positional parameters.
SetWords(w) == /\ changes < MaxChanges
               /\ words' = w
               /\ changes' = changes + 1
               /\ UNCHANGED <<optind, readonly, saved, given, began, endAt>>

\* OPTIND=..., unset OPTIND.
SetOptind(v) == /\ changes < MaxChanges
                /\ optind' = v
                /\ changes' = changes + 1
                /\ UNCHANGED <<words, readonly, saved, given, began, endAt>>

\* typeset -r: from now on no call can deliver an option.
MakeReadonly == /\ ~ readonly
                /\ changes < MaxChanges
                /\ readonly' = TRUE
                /\ changes' = changes + 1
                /\ UNCHANGED <<words, optind, saved, given, began, endAt>>

GetoptsInit(args) ==
    /\ words = args
    /\ optind = First
    /\ readonly = FALSE
    /\ saved = NoState
    /\ given = << >>
    /\ began = args
    /\ endAt = Junk
    /\ changes = 0

===============================================================================
