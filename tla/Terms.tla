--------------------------------- MODULE Terms ---------------------------------
(***************************************************************************)
(* The terms that Patterns, Phrases and WorkingDirectory work on: pattern  *)
(* characters (yash-fnmatch), values of variables (yash-env), units of     *)
(* words (yash-syntax), paths and directory entries.  There are no         *)
(* parameters, so that the sets of inputs in MC modules can be built here. *)
(***************************************************************************)

Ch(c) == [c |-> c, lit |-> FALSE]
Quoted(c) == [c |-> c, lit |-> TRUE]

Unset == [kind |-> "unset"]
Scalar(v) == [kind |-> "scalar", value |-> v]
Array(vs) == [kind |-> "array", values |-> vs]

Lit(c) == [unit |-> "Literal", c |-> c]
Backslashed(c) == [unit |-> "Backslashed", c |-> c]
SingleQuote(s) == [unit |-> "SingleQuote", s |-> s]
DoubleQuote(text) == [unit |-> "DoubleQuote", text |-> text]
Tilde(slash) == [unit |-> "Tilde", slash |-> slash]
Param(p) == [unit |-> "Param", param |-> p, modifier |-> "None"]
Length(p) == [unit |-> "Param", param |-> p, modifier |-> "Length"]
Switch(p, action, colon, word) ==
    [unit |-> "Param", param |-> p, modifier |-> "Switch", action |-> action, colon |-> colon, word |-> word]
TrimOf(p, side, length, word) ==
    [unit |-> "Param", param |-> p, modifier |-> "Trim", side |-> side, length |-> length, word |-> word]

Path(abs, comps) == [abs |-> abs, comps |-> comps]
EmptyPath == Path(FALSE, << >>)
Dir(d) == [kind |-> "dir", dir |-> d]
Link(path) == [kind |-> "link", path |-> path]
===============================================================================
