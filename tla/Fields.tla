-------------------------------- MODULE Fields --------------------------------
(***************************************************************************)
(* Field splitting (yash-env, semantics/expansion/split) and the way the   *)
(* read built-in shares the fields of a line out among its variables.      *)
(*                                                                         *)
(* A character keeps its attributes as one flag: soft when it comes from   *)
(* an unquoted expansion and is no quotation mark, so that it may separate *)
(* fields.  A range is a pair of the first index and the index past the    *)
(* last, counted from one.                                                 *)
(***************************************************************************)
EXTENDS Integers, Sequences, FiniteSets, SequencesExt

CONSTANTS White   \* the characters that are white space

(***************************************************************************)
(* Classes of characters (ifs.rs).                                         *)
(***************************************************************************)
Class(c, ifs) ==
    CASE ~ c.soft \/ c.value \notin Range(ifs) -> "NonIfs"
      [] c.value \in White -> "IfsWhitespace"
      [] OTHER -> "IfsNonWhitespace"

(***************************************************************************)
(* The iterator over the ranges of a field (ranges.rs): one step for each  *)
(* character, and one for the end of the input until it answers None.      *)
(***************************************************************************)
ClassAt(text, ifs, i) == IF i <= Len(text) THEN Class(text[i], ifs) ELSE "None"

\* A wrong version: white space before a separator hides the separator's turn.
RangeStepLoose(text, ifs, acc, i) ==
    LET class == ClassAt(text, ifs, i)
        To(state, start) == [acc EXCEPT !.state = state, !.start = start]
        Emit(state, start) == [To(state, i) EXCEPT !.ranges = Append(@, <<start, i>>)]
    IN  CASE acc.state = "end" -> acc
          [] acc.state = "Midfield" /\ class \in {"IfsNonWhitespace", "None"} ->
               Emit("AfterIfsNonWhitespace", acc.start)
          [] acc.state = "Midfield" /\ class = "IfsWhitespace" ->
               Emit("AfterIfsNonWhitespace", acc.start)
          [] acc.state = "Midfield" -> acc
          [] class = "IfsNonWhitespace" /\ acc.state = "AfterIfsWhitespace" ->
               To("AfterIfsNonWhitespace", i)
          [] class = "IfsNonWhitespace" -> Emit(acc.state, i)
          [] class = "NonIfs" -> To("Midfield", i)
          [] class = "IfsWhitespace" -> acc
          [] class = "None" -> To("end", i)

RangeStep(text, ifs, acc, i) ==
    LET class == ClassAt(text, ifs, i)
        To(state, start) == [acc EXCEPT !.state = state, !.start = start]
        Emit(state, start) == [To(state, i) EXCEPT !.ranges = Append(@, <<start, i>>)]
    IN  CASE acc.state = "end" -> acc
          [] acc.state = "Midfield" /\ class \in {"IfsNonWhitespace", "None"} ->
               Emit("AfterIfsNonWhitespace", acc.start)
          [] acc.state = "Midfield" /\ class = "IfsWhitespace" ->
               Emit("AfterIfsWhitespace", acc.start)
          [] acc.state = "Midfield" -> acc
          [] class = "IfsNonWhitespace" /\ acc.state = "AfterIfsWhitespace" ->
               To("AfterIfsNonWhitespace", i)
          [] class = "IfsNonWhitespace" -> Emit(acc.state, i)
          [] class = "NonIfs" -> To("Midfield", i)
          [] class = "IfsWhitespace" -> acc
          [] class = "None" -> To("end", i)

Ranges(text, ifs) ==
    FoldLeft(LAMBDA acc, i : RangeStep(text, ifs, acc, i),
             [state |-> "AfterIfsNonWhitespace", start |-> 1, ranges |-> << >>],
             [i \in 1 .. Len(text) + 2 |-> i]).ranges

Slice(text, r) == SubSeq(text, r[1], r[2] - 1)

\* split_into: the fields of one field.
Split(text, ifs) == [k \in DOMAIN Ranges(text, ifs) |-> Slice(text, Ranges(text, ifs)[k])]

(***************************************************************************)
(* The values that read gives to n variables (read/assigning.rs).          *)
(***************************************************************************)
\* A wrong version: the last variable takes one field only.
LastOne(text, ifs, ranges, n) == IF n > Len(ranges) THEN << >> ELSE Slice(text, ranges[n])

\* The last variable takes everything from its field to the last character
\* that is not IFS white space, unless its field is the last one.
LastValue(text, ifs, ranges, n) ==
    CASE n > Len(ranges) -> << >>
      [] n = Len(ranges) -> Slice(text, ranges[n])
      [] OTHER -> LET kept == {i \in DOMAIN text : Class(text[i], ifs) # "IfsWhitespace"}
                      end == CHOOSE i \in kept : \A j \in kept : j <= i
                  IN  SubSeq(text, ranges[n][1], end)

ReadAssign(text, ifs, n) ==
    LET ranges == Ranges(text, ifs)
    IN  [k \in 1 .. n |-> IF k = n THEN LastValue(text, ifs, ranges, n)
                          ELSE IF k <= Len(ranges) THEN Slice(text, ranges[k]) ELSE << >>]

(***************************************************************************)
(* Reference: what terminates a field.  Every IFS character that is not    *)
(* white space does; so does the white space between two characters that   *)
(* are not in IFS, and the end when the last field is not yet terminated.  *)
(***************************************************************************)
Terminators(text, ifs) ==
    LET C(i) == Class(text[i], ifs)
        n == Len(text)
        \* The first index from i on that is not IFS white space.
        Past(i) == CHOOSE j \in i .. n + 1 :
                     /\ j > n \/ C(j) # "IfsWhitespace"
                     /\ \A k \in i .. j - 1 : C(k) = "IfsWhitespace"
        Inside(i) == C(i) = "IfsWhitespace" /\ i > 1 /\ C(i - 1) = "NonIfs"
                     /\ Past(i) <= n /\ C(Past(i)) = "NonIfs"
        Open(i) == C(i) = "NonIfs" /\ Past(i + 1) > n
    IN  {i \in 1 .. n : C(i) = "IfsNonWhitespace" \/ Inside(i)}
        \cup (IF \E i \in 1 .. n : Open(i) THEN {n + 1} ELSE {})

ReferenceSplit(text, ifs) ==
    LET terminators == Terminators(text, ifs)
        ends == SelectSeq([i \in 1 .. Len(text) + 1 |-> i], LAMBDA i : i \in terminators)
        From(k) == IF k = 1 THEN 1 ELSE ends[k - 1] + 1
    IN  [k \in DOMAIN ends |->
           SelectSeq(SubSeq(text, From(k), ends[k] - 1), LAMBDA c : Class(c, ifs) = "NonIfs")]

===============================================================================
