--------------------------- MODULE Interruptible ----------------------------
(***************************************************************************)
(* A built-in run by an interactive shell whose SIGINT has no trap         *)
(* (execute_builtin in yash-semantics/src/command/simple_command). The     *)
(* future of the built-in and one that waits for SIGINT are polled in turn *)
(* by futures_util's select, which polls the left one first and drops the  *)
(* other as soon as one is ready. Concurrent.tla models how a SignalList   *)
(* is filled; here it is followed to the TrapSet.                          *)
(*                                                                         *)
(* Every signal but SIGINT has a trap command. Each signal is sent at most *)
(* once, so that it is to be handled at most once.                         *)
(*                                                                         *)
(* The names that every module has (Init, Next, Spec...) have a B here,    *)
(* for built-in: ExecutorProofs extends this module and Executor.          *)
(***************************************************************************)
EXTENDS Naturals

CONSTANTS
    Signal, SIGINT,
    MayNest      \* whether the built-in may execute commands or wait for
                \* signals itself, as `command` does with handles_signals_internally
                \* unset

ASSUME InterruptibleAssumption == SIGINT \in Signal /\ MayNest \in BOOLEAN

VARIABLES
    turn,       \* who runs next: "shell" between two commands, or during one
                \* "builtin", "sigint" (the two futures), "select"
    mine,       \* the SignalList of the future that waits for SIGINT
    inner,      \* the SignalList of a wait inside the built-in
    caught,     \* the vector `caught`
    pending,    \* signals whose TrapState is pending
    arrived,    \* signals blocked and pending in the kernel
    sent,       \* history: signals sent so far
    handled,    \* history: how often a signal was acted on, cut off at 2
    nested      \* history: a built-in has waited for signals itself

bvars == <<turn, mine, inner, caught, pending, arrived, sent, handled, nested>>

List(st, signals) == [st |-> st, signals |-> signals]
NoList == List("none", {})
OpenList == List("open", {})
Lists == {NoList, OpenList} \cup [st : {"filled"}, signals : SUBSET Signal]

BInit ==
    /\ turn = "shell"
    /\ mine = NoList /\ inner = NoList
    /\ caught = {} /\ pending = {} /\ arrived = {} /\ sent = {}
    /\ handled = [s \in Signal |-> 0]
    /\ nested = FALSE

Acted(S) == [s \in Signal |-> IF s \in S /\ handled[s] < 2 THEN handled[s] + 1 ELSE handled[s]]

Arrive(s) ==
    /\ s \notin sent
    /\ sent' = sent \cup {s}
    /\ arrived' = arrived \cup {s}
    /\ UNCHANGED <<turn, mine, inner, caught, pending, handled, nested>>

(* The shell calls the built-in.                                           *)
Call ==
    /\ turn = "shell"
    /\ turn' = "builtin"
    /\ UNCHANGED <<mine, inner, caught, pending, arrived, sent, handled, nested>>

\* A wrong version: the signals seen on the way are not passed on.
ReturnForgetful ==
    /\ mine' = NoList /\ inner' = NoList
    /\ caught' = {}
    /\ pending' = pending
    /\ turn' = "shell"

(* Whatever the futures held is gone; `caught` is passed to catch_signal.  *)
Return ==
    /\ mine' = NoList /\ inner' = NoList
    /\ caught' = {}
    /\ pending' = pending \cup (caught \ {SIGINT})
    /\ turn' = "shell"

(* The built-in is polled: it completes, or it awaits something.           *)
BuiltinReady ==
    /\ turn = "builtin" /\ inner = NoList
    /\ Return
    /\ UNCHANGED <<arrived, sent, handled, nested>>

BuiltinPends ==
    /\ turn = "builtin" /\ inner.st # "filled"
    /\ turn' = "sigint"
    /\ UNCHANGED <<mine, inner, caught, pending, arrived, sent, handled, nested>>

(* Inside the built-in: Env::wait_for_signals begins, shares the list that *)
(* is there already, and ends.                                             *)
InnerWait ==
    /\ MayNest /\ turn = "builtin" /\ inner = NoList
    /\ inner' = OpenList /\ nested' = TRUE
    /\ UNCHANGED <<turn, mine, caught, pending, arrived, sent, handled>>

InnerCatch ==
    /\ turn = "builtin" /\ inner.st = "filled"
    /\ pending' = pending \cup (inner.signals \ {SIGINT})
    /\ inner' = NoList
    /\ UNCHANGED <<turn, mine, caught, arrived, sent, handled, nested>>

(* Inside the built-in or between commands: trap actions run.              *)
RunTraps ==
    /\ turn = "shell" \/ (MayNest /\ turn = "builtin" /\ inner = NoList)
    /\ pending # {}
    /\ handled' = Acted(pending)
    /\ pending' = {}
    /\ UNCHANGED <<turn, mine, inner, caught, arrived, sent, nested>>

(* poll_signals between commands; SIGINT interrupts.                       *)
PollSignals ==
    /\ turn = "shell" /\ arrived # {}
    /\ pending' = pending \cup (arrived \ {SIGINT})
    /\ handled' = Acted(arrived \cap {SIGINT})
    /\ arrived' = {}
    /\ UNCHANGED <<turn, mine, inner, caught, sent, nested>>

(* The future that waits for SIGINT is polled: nothing new, or other       *)
(* signals, after which it waits again, or SIGINT, which ends the built-in. *)
SigintPends ==
    /\ turn = "sigint" /\ mine.st # "filled"
    /\ mine' = OpenList
    /\ turn' = "select"
    /\ UNCHANGED <<inner, caught, pending, arrived, sent, handled, nested>>

SigintAgain ==
    /\ turn = "sigint" /\ mine.st = "filled" /\ SIGINT \notin mine.signals
    /\ caught' = caught \cup mine.signals
    /\ mine' = OpenList
    /\ turn' = "select"
    /\ UNCHANGED <<inner, pending, arrived, sent, handled, nested>>

Interrupt ==
    /\ turn = "sigint" /\ mine.st = "filled" /\ SIGINT \in mine.signals
    /\ pending' = pending \cup ((caught \cup mine.signals) \ {SIGINT})
    /\ handled' = Acted({SIGINT})
    /\ mine' = NoList /\ inner' = NoList /\ caught' = {} /\ turn' = "shell"
    /\ UNCHANGED <<arrived, sent, nested>>

(* Concurrent::select returns, with or without signals; both futures are   *)
(* polled again.                                                           *)
SelectReturns ==
    /\ turn = "select"
    /\ turn' = "builtin"
    /\ \/ UNCHANGED <<mine, inner, arrived>>
       \/ /\ arrived # {}
          /\ mine' = List("filled", arrived)
          /\ inner' = IF inner = OpenList THEN List("filled", arrived) ELSE inner
          /\ arrived' = {}
    /\ UNCHANGED <<caught, pending, sent, handled, nested>>

BNext ==
    \/ Call \/ BuiltinReady \/ BuiltinPends \/ InnerWait \/ InnerCatch
    \/ RunTraps \/ PollSignals \/ SigintPends \/ SigintAgain \/ Interrupt
    \/ SelectReturns
    \/ \E s \in Signal : Arrive(s)

BSpec == BInit /\ [][BNext]_bvars

-----------------------------------------------------------------------------
BTypeOK ==
    /\ turn \in {"shell", "builtin", "sigint", "select"}
    /\ mine \in Lists /\ inner \in Lists
    /\ {caught, pending, arrived, sent} \subseteq SUBSET Signal
    /\ handled \in [Signal -> 0..2] /\ nested \in BOOLEAN

\* Where a signal may be between the kernel and its handling.
Held == arrived \cup mine.signals \cup inner.signals \cup caught \cup pending

(* The comment in execute_builtin: the signals received while the built-in *)
(* runs are passed to catch_signal, or they "would be lost and never       *)
(* handled".                                                               *)
NothingLost == \A s \in sent : handled[s] > 0 \/ s \in Held

(* handles_signals_internally exists "to prevent double-processing": a     *)
(* signal sent once is acted on once.                                      *)
HandledOnce == \A s \in Signal : handled[s] <= 1

(* As long as no built-in that should have set handles_signals_internally  *)
(* has waited for signals, that holds.                                     *)
OnceUnlessNested == nested \/ HandledOnce

\* A signal is in one place only on its way, and not yet handled.
OnePlace ==
    \A s \in Signal :
        /\ s \in pending => s \notin caught \cup mine.signals \cup arrived
        /\ s \in caught => s \notin mine.signals \cup arrived
        /\ s \in mine.signals => s \notin arrived
        /\ s \in Held => handled[s] = 0
        /\ s \in Held \/ handled[s] > 0 => s \in sent

\* Which lists there are at each point of the select.
ListsInTurn ==
    /\ turn = "shell" => mine = NoList /\ inner = NoList /\ caught = {}
    /\ turn = "select" => mine = OpenList
    /\ turn \in {"sigint", "select"} => inner.st # "filled"
    /\ inner.signals \subseteq mine.signals
    /\ SIGINT \notin caught

(* The inductive invariant behind these properties.                        *)
BIInv ==
    /\ BTypeOK
    /\ ListsInTurn
    /\ ~nested => OnePlace /\ HandledOnce /\ inner = NoList

(* The signals are "received while waiting, not just SIGINT": the only     *)
(* signal that vanishes unhandled is one in the list select has just       *)
(* filled, when the built-in completes before sigint_fut reads the list.   *)
LossWindow ==
    [][\A s \in Held :
          \/ s \in Held' \/ handled'[s] > 0
          \/ turn = "builtin" /\ s \in mine.signals]_bvars

=============================================================================
