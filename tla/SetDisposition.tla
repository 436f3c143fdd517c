--------------------------- MODULE SetDisposition ----------------------------
(***************************************************************************)
(* The windows in TrapSet!Install: Concurrent::set_disposition changes the *)
(* mask, the disposition and the mask for select of a signal one after the *)
(* other, GrandState's methods call it up to twice, and Config::start      *)
(* blocks SIGINT and SIGQUIT around the fork. A step here is one system    *)
(* call, for one signal of a given kind, and signals arrive in between.    *)
(***************************************************************************)
EXTENDS Naturals, Sequences

CONSTANT None

VARIABLES
    kind,           \* what the signal is to the shell; it does not change
    interactive,
    child,          \* this process is a subshell
    entry,          \* action, origin and internal disposition, or None
    todo,           \* the system calls yet to do in the current operation
    before,         \* history: the disposition when it began; None in a new child
    disp, blocked,  \* the signal's disposition, and whether it is in the mask
    select_mask,    \* the signal is kept "out" by it or let "in", or None
    pending,        \* the signal is pending in the kernel
    saved,          \* the mask to be restored after the fork
    alive,          \* no default action has been taken
    stray           \* history: a handler has run outside select

process == <<disp, blocked, select_mask, pending, alive, stray>>
operation == <<entry, before>>
vars == <<kind, interactive, child, process, operation, todo, saved>>

Disposition == {"Default", "Ignore", "Catch"}
(* SIGINT, SIGQUIT, one that stops the shell, SIGCHLD, any other.          *)
Kind == {"interrupt", "quit", "stopper", "child", "other"}

(* The operators of TrapSet on the states of one condition.                *)
Rank(d) == CASE d = "Default" -> 0 [] d = "Ignore" -> 1 [] d = "Catch" -> 2
DispositionOf(action) == IF action = "Command" THEN "Catch" ELSE action
Greater(d, e) == IF Rank(d) > Rank(e) THEN d ELSE e
Effective(e) == Greater(e.internal, DispositionOf(e.action))
Entry(action, inherited, internal) ==
    [action |-> action, inherited |-> inherited, internal |-> internal]

(* What the shell is about to make of the signal.                          *)
Target == IF entry = None THEN disp ELSE Effective(entry)

\* A wrong version: the signal is blocked after it is caught.
CallsLate(d) == IF d = "Catch" THEN <<d, "block">> ELSE <<d, "unblock">>

(* Concurrent::set_disposition as a sequence of system calls.              *)
Calls(d) == IF d = "Catch" THEN <<"block", d>> ELSE <<d, "unblock">>

CallsIfChanged(e) == IF Effective(e) = Effective(entry) THEN <<>> ELSE Calls(Effective(e))

-----------------------------------------------------------------------------
Init ==
    /\ kind \in Kind /\ interactive \in BOOLEAN
    /\ child = FALSE
    /\ entry = None
    /\ todo = <<>>
    /\ disp \in {"Default", "Ignore"} /\ before = disp
    /\ blocked = FALSE /\ saved = FALSE
    /\ select_mask = None
    /\ pending = FALSE
    /\ alive = TRUE
    /\ stray = FALSE

Idle == alive /\ todo = <<>>

\* The entry is written after the calls, but nothing looks at it before.
Begin(calls, e) ==
    /\ Idle
    /\ todo' = calls
    /\ entry' = e
    /\ before' = disp
    /\ UNCHANGED <<kind, interactive, child, process, saved>>

(* GrandState::set_action finds out whether a signal without an entry was  *)
(* ignored by ignoring it.                                                 *)
Learn == Calls("Ignore")

SetAction(action) ==
    LET d == DispositionOf(action)
        e == Entry(action, FALSE, IF entry = None THEN "Default" ELSE entry.internal)
    IN IF entry = None
       THEN \/ interactive /\ Begin(Calls(d), e)
            \/ /\ ~interactive /\ disp = "Ignore"
               /\ Begin(Learn, Entry("Ignore", TRUE, "Default"))
            \/ /\ ~interactive /\ disp # "Ignore"
               /\ Begin(IF d = "Ignore" THEN Learn ELSE Learn \o Calls(d), e)
       ELSE /\ interactive \/ ~(entry.action = "Ignore" /\ entry.inherited)
            /\ Begin(CallsIfChanged(e), e)

(* GrandState::set_internal_disposition. The shell needs SIGCHLD to wait,  *)
(* and an interactive one defends itself against the others.               *)
Wanted == IF kind \in {"interrupt", "child"} THEN "Catch" ELSE "Ignore"

SetInternal(d) ==
    /\ d \in {"Default", Wanted} /\ (d = Wanted => interactive \/ kind = "child")
    /\ IF entry = None
       THEN d # "Default" /\ Begin(Calls(d), Entry(disp, TRUE, d))
       ELSE LET e == [entry EXCEPT !.internal = d] IN Begin(CallsIfChanged(e), e)

\* A wrong version: the child blocks nothing before it ignores the signal.
StartSubshellOpen(ignore) ==
    /\ ignore => kind \in {"interrupt", "quit"}
    /\ Begin(IF ignore THEN <<"fork held">> ELSE <<"fork">>, entry)

(* Config::start up to the fork. The signal is blocked if the child is to  *)
(* ignore it.                                                              *)
StartSubshell(ignore) ==
    /\ ignore => kind \in {"interrupt", "quit"}
    /\ Begin(IF ignore THEN <<"hold", "fork held">> ELSE <<"fork">>, entry)

-----------------------------------------------------------------------------
(* A signal that is not blocked acts at once.                              *)
Act ==
    /\ alive' = (alive /\ disp # "Default")
    /\ stray' = (stray \/ disp = "Catch")

Arrive ==
    /\ alive
    /\ IF blocked THEN pending' = TRUE /\ UNCHANGED <<alive, stray>>
       ELSE Act /\ UNCHANGED pending
    /\ UNCHANGED <<kind, interactive, child, disp, blocked, select_mask, operation, todo, saved>>

Unblocked ==
    /\ blocked' = FALSE
    /\ pending' = FALSE
    /\ IF pending THEN Act ELSE UNCHANGED <<alive, stray>>

Call(name) ==
    /\ alive /\ todo # <<>> /\ Head(todo) = name
    /\ todo' = Tail(todo)
    /\ UNCHANGED <<kind, interactive, child, operation>>

(* update_sigmask_and_select_mask: after either call select lets it in.    *)
Block ==
    /\ Call("block")
    /\ blocked' = TRUE
    /\ select_mask' = "in"
    /\ UNCHANGED <<disp, pending, alive, stray, saved>>

Unblock ==
    /\ Call("unblock")
    /\ Unblocked
    /\ select_mask' = "in"
    /\ UNCHANGED <<disp, saved>>

(* sigaction discards a pending signal that is to be ignored.              *)
Sigaction(d) ==
    /\ Call(d)
    /\ disp' = d
    /\ pending' = (pending /\ d # "Ignore")
    /\ UNCHANGED <<blocked, select_mask, alive, stray, saved>>

(* block_sigint_sigquit, which leaves the mask for select alone.           *)
Hold ==
    /\ Call("hold")
    /\ saved' = blocked
    /\ blocked' = TRUE
    /\ UNCHANGED <<disp, select_mask, pending, alive, stray>>

(* TrapSet::enter_subshell. A child that is not job-controlled ignores the *)
(* signals that would stop it, as the shell did.                           *)
Entered(ignore, keep) ==
    LET ignored == ignore \/ (keep /\ kind = "stopper" /\ entry.internal # "Default")
        command == entry.action = "Command"
    IN Entry(IF ignored THEN "Ignore" ELSE IF command THEN "Default" ELSE entry.action,
             ~command /\ entry.inherited,
             IF kind = "child" THEN entry.internal ELSE "Default")

\* A wrong version: the parent does not restore its mask after the fork.
AfterForkHeld(held) == <<>>

AfterFork(held) == IF held THEN <<"restore">> ELSE <<>>

(* The parent goes on.                                                     *)
ForkInParent(held) ==
    /\ todo' = AfterFork(held)
    /\ UNCHANGED <<child, entry, before, pending, saved>>

(* Or the model goes into the child, in which nothing is pending.          *)
ForkInChild(held, keep) ==
    /\ child' = TRUE
    /\ pending' = FALSE
    /\ saved' = FALSE
    /\ before' = None
    /\ IF entry # None
       THEN /\ entry' = Entered(held, keep)
            /\ todo' = CallsIfChanged(entry')
       ELSE IF held
       THEN entry' = Entry("Ignore", disp = "Ignore", "Default") /\ todo' = Calls("Ignore")
       ELSE todo' = <<>> /\ UNCHANGED entry

(* The signal is held, if it is, for children without job control only.    *)
Fork(held) ==
    /\ alive /\ todo = <<IF held THEN "fork held" ELSE "fork">>
    /\ \/ ForkInParent(held)
       \/ \E keep \in BOOLEAN : (held => keep) /\ ForkInChild(held, keep)
    /\ UNCHANGED <<kind, interactive, disp, blocked, select_mask, alive, stray>>

(* restore_sigmask.                                                        *)
Restore ==
    /\ Call("restore")
    /\ IF saved THEN UNCHANGED <<blocked, pending, alive, stray>> ELSE Unblocked
    /\ saved' = FALSE
    /\ UNCHANGED <<disp, select_mask>>

(* The first call for some other signal makes select_mask the mask there   *)
(* is at the time. No call for this signal is under way.                   *)
OtherSignal ==
    /\ alive
    /\ IF todo = <<>> THEN TRUE ELSE todo[1] \in {"block", "Default", "Ignore"}
    /\ select_mask = None
    /\ select_mask' = IF blocked THEN "out" ELSE "in"
    /\ UNCHANGED <<kind, interactive, child, disp, blocked, pending, alive, stray,
                   operation, todo, saved>>

(* select lets the signal in and its handler run.                          *)
Select ==
    /\ Idle /\ pending /\ disp = "Catch" /\ select_mask = "in"
    /\ pending' = FALSE
    /\ UNCHANGED <<kind, interactive, child, disp, blocked, select_mask, alive, stray,
                   operation, todo, saved>>

Next ==
    \/ \E a \in {"Default", "Ignore", "Command"} : SetAction(a)
    \/ \E d \in Disposition : SetInternal(d) \/ Sigaction(d)
    \/ \E b \in BOOLEAN : StartSubshell(b) \/ Fork(b)
    \/ Hold \/ Block \/ Unblock \/ Restore
    \/ Arrive \/ OtherSignal \/ Select

Spec == Init /\ [][Next]_vars
-----------------------------------------------------------------------------
TypeOK ==
    /\ kind \in Kind /\ disp \in Disposition /\ before \in Disposition \cup {None}
    /\ {interactive, child, blocked, pending, saved, alive, stray} \subseteq BOOLEAN
    /\ entry \in [action : {"Default", "Ignore", "Command"}, inherited : BOOLEAN,
                  internal : Disposition] \cup {None}
    /\ todo \in Seq({"hold", "fork", "fork held", "restore", "block", "unblock"}
                    \cup Disposition)
    /\ select_mask \in {"in", "out", None}

(* A handler never runs outside select, at no point of any sequence of     *)
(* calls; and between operations a signal that is caught is blocked and    *)
(* select lets it in, so that none is kept out for ever.                   *)
HandlerInSelect ==
    /\ ~stray
    /\ (Idle /\ disp = "Catch") => blocked /\ select_mask = "in"

(* A signal kills or stops the process only if its default action was in   *)
(* force before the current operation or is to be after it: no disposition *)
(* passed through on the way is the default, and the child of an           *)
(* asynchronous command is not killed before it ignores SIGINT.            *)
Mortal == Target = "Default" \/ (todo # <<>> /\ before = "Default")
DiesJustly == [][alive /\ ~alive' => Mortal]_vars

(* Between operations the kernel agrees with the entry, and no signal with *)
(* the default action stays blocked: what blocks signals around a fork or  *)
(* a change is always undone.                                              *)
Settled ==
    Idle => /\ disp = Target
            /\ blocked /\ disp # "Catch" => child /\ disp = "Ignore"

=============================================================================
