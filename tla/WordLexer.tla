------------------------------ MODULE WordLexer -------------------------------
(***************************************************************************)
(* The lexer of words (yash-syntax, parser/lex) and the quoting of strings *)
(* that the shell prints to be read again (yash-quote).                    *)
(*                                                                         *)
(* A text is a sequence of characters; "nl", "sq", "dq", "bq" and "bs" are *)
(* the newline, the quotes and the backslash.  What ${ and $( introduce is *)
(* left out: the unit ends behind them.                                    *)
(***************************************************************************)
EXTENDS Integers, Sequences, FiniteSets, FiniteSetsExt, SequencesExt

Blanks == {" "}
OperatorChars == {"nl", ";", "&", "|", "(", ")", "<", ">"}
NameChars == {"a", "b"}
SpecialParams == {"@", "*", "#", "?", "-", "$", "!", "0"}

Unit(kind, value, next) == [kind |-> kind, value |-> value, next |-> next]
NoUnit(i) == Unit("none", << >>, i)
Unclosed(t) == Unit("unclosed", << >>, Len(t) + 1)

\* The position of the next character, behind line continuations.
RECURSIVE Peek(_, _)
Peek(t, i) == IF i < Len(t) /\ t[i] = "bs" /\ t[i + 1] = "nl" THEN Peek(t, i + 2) ELSE i
CharAt(t, i) == IF i <= Len(t) THEN t[i] ELSE "EOF"

\* Any unit that begins with a dollar, from behind it.
DollarUnit(t, i) ==
    LET c == CharAt(t, Peek(t, i))
        RECURSIVE NameEnd(_)
        NameEnd(k) == IF CharAt(t, Peek(t, k)) \in NameChars THEN NameEnd(Peek(t, k) + 1) ELSE k
    IN  CASE c \in SpecialParams \cup {"{", "("} -> Unit("expansion", << >>, Peek(t, i) + 1)
          [] c \in NameChars -> Unit("expansion", << >>, NameEnd(i))
          [] OTHER -> NoUnit(i)

RECURSIVE BackquoteEnd(_, _, _)
BackquoteEnd(t, i, escapable) ==
    LET k == Peek(t, i)
    IN  CASE k > Len(t) -> 0
          [] t[k] = "bq" -> k + 1
          [] t[k] = "bs" /\ CharAt(t, Peek(t, k + 1)) \in escapable -> BackquoteEnd(t, Peek(t, k + 1) + 1, escapable)
          [] OTHER -> BackquoteEnd(t, k + 1, escapable)

\* text_unit: the characters in delimiters end the text, those in escapable can be
\* escaped; the character behind a backslash is taken as it is.
TextUnitAt(t, k, delimiters, escapable) ==
    LET c == CharAt(t, k)
        dollar == DollarUnit(t, k + 1)
        back == BackquoteEnd(t, k + 1, {"$", "bq", "bs"})
    IN  CASE c = "bs" -> IF CharAt(t, k + 1) # "EOF" /\ ("any" \in escapable \/ t[k + 1] \in escapable)
                         THEN Unit("backslashed", <<t[k + 1]>>, k + 2) ELSE Unit("literal", <<"bs">>, k + 1)
          [] c = "$" /\ dollar.kind # "none" -> dollar
          [] c = "bq" -> IF back = 0 THEN Unclosed(t) ELSE Unit("expansion", << >>, back)
          [] c # "EOF" /\ c \notin delimiters -> Unit("literal", <<c>>, k + 1)
          [] OTHER -> NoUnit(k)
TextUnit(t, i, delimiters, escapable) == TextUnitAt(t, Peek(t, i), delimiters, escapable)

SingleQuote(t, i) ==
    LET ends == {k \in i .. Len(t) : t[k] = "sq"}
    IN  IF ends = {} THEN Unclosed(t) ELSE Unit("single", SubSeq(t, i, Min(ends) - 1), Min(ends) + 1)

RECURSIVE DoubleQuote(_, _, _)
DoubleQuote(t, i, units) ==
    LET After(u) == CASE u.kind = "unclosed" -> u
                      [] u.kind # "none" -> DoubleQuote(t, u.next, Append(units, u))
                      [] CharAt(t, u.next) = "dq" -> Unit("double", units, u.next + 1)
                      [] OTHER -> Unclosed(t)
    IN  After(TextUnit(t, i, {"dq"}, {"$", "bq", "dq", "bs"}))

TokenDelimiters == Blanks \cup OperatorChars
WordUnit(t, i) ==
    LET k == Peek(t, i)
        Unquoted(u) == IF u.kind = "literal" /\ u.value = <<"$">> /\ CharAt(t, Peek(t, u.next)) = "sq"
                       THEN Unit("expansion", << >>, u.next + 1) ELSE u
    IN  CASE CharAt(t, k) = "sq" -> SingleQuote(t, k + 1)
          [] CharAt(t, k) = "dq" -> DoubleQuote(t, k + 1, << >>)
          [] OTHER -> Unquoted(TextUnit(t, i, TokenDelimiters, {"any"}))
RECURSIVE Word(_, _, _)
Word(t, i, units) ==
    LET After(u) == IF u.kind \in {"unclosed", "none"} THEN [ok |-> u.kind = "none", units |-> units, next |-> u.next]
                    ELSE Word(t, u.next, Append(units, u))
    IN  After(WordUnit(t, i))

\* skip_blanks_and_comment and token; the operators are left to Grammar.
RECURSIVE SkipBlanks(_, _)
SkipBlanks(t, i) == IF CharAt(t, Peek(t, i)) \in Blanks THEN SkipBlanks(t, Peek(t, i) + 1) ELSE Peek(t, i)
WordToken(t) ==
    LET i == SkipBlanks(t, 1)
        newlines == {k \in i .. Len(t) : t[k] = "nl"}
        begin == IF CharAt(t, i) # "#" THEN i ELSE IF newlines = {} THEN Len(t) + 1 ELSE Min(newlines)
    IN  Word(t, begin, << >>)

\* The places where a tilde expansion begins: at the front, and behind colons and
\* the equals sign of an assignment (tilde.rs).
IsLiteral(units, k, c) == units[k].kind = "literal" /\ units[k].value = <<c>>
TildeAt(units, k) ==
    /\ IsLiteral(units, k, "~")
    /\ k = 1 \/ IsLiteral(units, k - 1, ":") \/ IsLiteral(units, k - 1, "=")
    /\ \A j \in k + 1 .. Len(units) :
          units[j].kind # "literal" => \E h \in k + 1 .. j : IsLiteral(units, h, "/") \/ IsLiteral(units, h, ":")

\* What is left of a word without expansions after quote removal.
UnitValue(u) == IF u.kind = "double" THEN FlattenSeq([k \in DOMAIN u.value |-> u.value[k].value]) ELSE u.value
Unquote(units) == FlattenSeq([k \in DOMAIN units |-> UnitValue(units[k])])

(***************************************************************************)
(* yash-quote.                                                             *)
(***************************************************************************)
CharNeedsQuoting(c) ==
    c \in OperatorChars \cup Blanks \cup {"$", "bq", "bs", "dq", "sq", "=", "*", "?"}
Precedes(s, c, d) == \E i, j \in DOMAIN s : i < j /\ s[i] = c /\ s[j] = d /\ \A h \in 1 .. i - 1 : s[h] # c

\* A wrong version: a tilde matters at the beginning only.
FrontNeedsQuoting(s) ==
    \/ s = << >> \/ s[1] \in {"#", "~"}
    \/ \E k \in DOMAIN s : CharNeedsQuoting(s[k])
    \/ Precedes(s, "{", "}") \/ Precedes(s, "[", "]")

StrNeedsQuoting(s) ==
    \/ s = << >> \/ s[1] \in {"#", "~"}
    \/ \E k \in DOMAIN s : CharNeedsQuoting(s[k])
    \/ \E k \in 2 .. Len(s) : s[k - 1] = ":" /\ s[k] = "~"
    \/ Precedes(s, "{", "}") \/ Precedes(s, "[", "]")

Quote(s) ==
    IF ~ StrNeedsQuoting(s) THEN s
    ELSE IF "sq" \notin ToSet(s) THEN <<"sq">> \o s \o <<"sq">>
    ELSE <<"dq">> \o FlattenSeq([k \in DOMAIN s |-> IF s[k] \in {"dq", "bq", "$", "bs"} THEN <<"bs", s[k]>> ELSE <<s[k]>>])
             \o <<"dq">>

\* The units whose characters mean more than themselves to the shell.
Active(units) ==
    \/ \E k \in DOMAIN units : \/ units[k].kind = "expansion"
                               \/ units[k].kind = "double" /\ \E h \in DOMAIN units[k].value : units[k].value[h].kind = "expansion"
                               \/ units[k].kind = "literal" /\ units[k].value[1] \in {"*", "?", "="}
                               \/ TildeAt(units, k)
    \/ \E i, j \in DOMAIN units : i < j /\ \E p \in {<<"[", "]">>, <<"{", "}">>} : IsLiteral(units, i, p[1]) /\ IsLiteral(units, j, p[2])
===============================================================================
