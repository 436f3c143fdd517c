------------------------------- MODULE Scopes -------------------------------
(***************************************************************************)
(* What the variable set of the shell promises: a stack of scopes, each    *)
(* with variables of its own.  The variable a name refers to is the one in *)
(* the topmost scope that has it.  Temporary scopes hold the assignments   *)
(* of a command; a variable that is assigned for good leaves them.  A      *)
(* read-only variable keeps its value for as long as its scope lives.      *)
(*                                                                         *)
(* Module Variables, which keeps one stack per name instead, as the code   *)
(* does, implements this specification.                                    *)
(***************************************************************************)
EXTENDS Integers, Sequences

CONSTANTS
    Names,          \* names of variables
    Variable,       \* variables: records with a value and a ro field at least
    Default,        \* a variable that has just been created
    Params          \* lists of positional parameters

VARIABLE scopes     \* the scopes, the base scope first

Temporary(i) == scopes[i].kind = "Volatile"
Has(n) == {i \in 1..Len(scopes) : n \in DOMAIN scopes[i].vars}
Highest(S) == CHOOSE i \in S : \A j \in S : j <= i
Visible(n) == IF Has(n) = {} THEN Default ELSE scopes[Highest(Has(n))].vars[n]
Regulars == {i \in 1..Len(scopes) : ~Temporary(i)}

With(f, n, v) == [m \in DOMAIN f \cup {n} |-> IF m = n THEN v ELSE f[m]]
Without(f, n) == [m \in DOMAIN f \ {n} |-> f[m]]

\* v may take the place of w.
Respects(v, w) == w.ro => v.ro /\ v.value = w.value

\* Variable n is set to v in scope t, and leaves the scopes above t.
SetIn(n, t, v) ==
    /\ \A i \in Has(n) : i >= t => Respects(v, scopes[i].vars[n])
    /\ scopes' = [i \in 1..Len(scopes) |->
                     [scopes[i] EXCEPT !.vars = CASE i = t -> With(@, n, v)
                                                  [] i > t -> Without(@, n)
                                                  [] OTHER -> @]]

Init == scopes = <<[kind |-> "Regular", vars |-> <<>>, params |-> <<>>]>>

\* An assignment for good: to the scope the variable is in, or the base.
SetGlobal(n, v) ==
    LET there == Has(n) \cap Regulars
    IN  SetIn(n, IF there = {} THEN 1 ELSE Highest(there), v)

\* An assignment in the current function.
SetLocal(n, v) == SetIn(n, Highest(Regulars), v)

\* A temporary assignment.
SetTemporary(n, v) ==
    /\ Temporary(Len(scopes))
    /\ Respects(v, Visible(n))
    /\ scopes' = [scopes EXCEPT ![Len(scopes)].vars = With(scopes[Len(scopes)].vars, n, v)]

\* The variable is removed from all scopes.
Remove(n) ==
    /\ \A i \in Has(n) : ~scopes[i].vars[n].ro
    /\ scopes' = [i \in 1..Len(scopes) |-> [scopes[i] EXCEPT !.vars = Without(@, n)]]

SetParams(p) == scopes' = [scopes EXCEPT ![Highest(Regulars)].params = p]

Push(kind, p) == scopes' = Append(scopes, [kind |-> kind, vars |-> <<>>, params |-> p])

Pop ==
    /\ Len(scopes) > 1
    /\ scopes' = SubSeq(scopes, 1, Len(scopes) - 1)

Next ==
    \/ \E n \in Names, v \in Variable : SetGlobal(n, v) \/ SetLocal(n, v) \/ SetTemporary(n, v)
    \/ \E n \in Names : Remove(n)
    \/ \E p \in Params : SetParams(p) \/ Push("Regular", p)
    \/ Push("Volatile", <<>>)
    \/ Pop

Spec == Init /\ [][Next]_scopes
=============================================================================
