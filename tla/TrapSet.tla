------------------------------ MODULE TrapSet -------------------------------
(***************************************************************************)
(* Traps: the TrapSet (yash-env/src/trap.rs and trap/state.rs), the signal *)
(* dispositions and masks it installs through Concurrent::set_disposition, *)
(* the signals that arrive meanwhile, and the running of trap actions      *)
(* (yash-semantics/src/trap). The module follows one process; when a       *)
(* subshell is started it follows the child.                               *)
(*                                                                         *)
(* SIGKILL and SIGSTOP, for which set_action returns at once, are left     *)
(* out, and so are errors of sigaction, which for the other signals are    *)
(* impossible. A signal that is neither blocked nor ignored kills or stops *)
(* the process, which ends the behaviour.                                  *)
(***************************************************************************)
EXTENDS Naturals, Sequences

CONSTANTS
    Signal,             \* the signal numbers that may be trapped or arrive
    SIGCHLD, SIGINT, SIGQUIT, SIGTERM,
    Stoppers,           \* SIGTSTP, SIGTTIN, SIGTTOU
    StartDispositions,  \* the dispositions signals may have at the start
    StartMask,          \* the signals blocked when the shell was started
    MaxArrivals,        \* bound on the signals that arrive
    MaxFrames,          \* bound on the nesting of trap actions
    Exit, None

ASSUME TrapSetAssumption ==
    /\ Signal \subseteq Nat /\ StartMask \subseteq Signal
    /\ StartDispositions \subseteq {"Default", "Ignore", "Catch"}
    /\ MaxArrivals \in Nat /\ MaxFrames \in Nat
    /\ Exit \notin Nat
    /\ SIGCHLD \notin Stoppers \cup {SIGINT, SIGQUIT, SIGTERM}
    /\ Stoppers \cap {SIGINT, SIGQUIT, SIGTERM} = {}

VARIABLES
    traps,          \* TrapSet::traps; None where the BTreeMap has no entry
    disp,           \* the disposition of each signal in the kernel
    mask,           \* the process's signal mask
    select_mask,    \* Concurrent's mask during select, or None
    arrived,        \* blocked signals pending in the kernel
    frames,         \* the Frame::Trap frames since the last Frame::Subshell
    draining,       \* in the loop of run_traps_for_caught_signals
    phase,          \* "start", "main", "done"
    subshell, interactive, monitor,
    startup,        \* history: the dispositions the shell was started with
    execed,         \* history: an exec has failed in this shell
    owed,           \* history: signals whose trap command is yet to run
    budget          \* how many more signals may arrive

kernel == <<disp, mask, select_mask, arrived>>
mode == <<phase, subshell, interactive, monitor, startup, execed>>
vars == <<traps, kernel, frames, draining, mode, owed, budget>>

Cond == Signal \cup {Exit}
Terminators == {SIGINT, SIGTERM, SIGQUIT}
Disposition == {"Default", "Ignore", "Catch"}
Action == {"Default", "Ignore", "Command"}
Origin == {"Inherited", "Subshell", "User"}
TrapState == [action : Action, origin : Origin, pending : BOOLEAN]
GrandState ==
    [action : Action, origin : Origin, pending : BOOLEAN,
     parent : TrapState \cup {None}, internal : Disposition]

\* None is neither a state nor a mask.
ASSUME NoneAssumption ==
    \A x \in GrandState \cup TrapState \cup SUBSET Signal : x # None

Grand(action, origin, pending, parent, internal) ==
    [action |-> action, origin |-> origin, pending |-> pending,
     parent |-> parent, internal |-> internal]

Rank(d) == CASE d = "Default" -> 0 [] d = "Ignore" -> 1 [] d = "Catch" -> 2

DispositionOf(action) == IF action = "Command" THEN "Catch" ELSE action

\* The maximum of the internal disposition and the one the action asks for.
Effective(g) ==
    LET d == DispositionOf(g.action)
    IN IF Rank(g.internal) > Rank(d) THEN g.internal ELSE d

\* TrapState::from_initial_disposition, with the given internal disposition.
FromInitial(d, internal) ==
    Grand(IF d = "Ignore" THEN "Ignore" ELSE "Default", "Inherited", FALSE, None, internal)

ClearParent(g) ==
    IF g = None THEN g ELSE Grand(g.action, g.origin, g.pending, None, g.internal)

-----------------------------------------------------------------------------
(* The entries become T. set_disposition is called for a signal whose      *)
(* effective disposition changes and for each signal in `fresh`, whose     *)
(* entry was vacant. It blocks a signal to be caught and unblocks any      *)
(* other; it also takes the signal out of the mask for select, which       *)
(* starts as the mask of the first call. Ignoring a pending signal         *)
(* discards it. The signals in `waiting` are pending beforehand. The calls  *)
(* are one step here; SetDisposition has the signals that arrive between.  *)
Install(T, fresh, blocked, waiting) ==
    LET calls == fresh \cup
            {s \in Signal : /\ traps[s] # None
                            /\ Effective(T[s]) # Effective(traps[s])}
    IN /\ disp' = [s \in Signal |-> IF s \in calls THEN Effective(T[s]) ELSE disp[s]]
       /\ mask' = (blocked \ calls) \cup {s \in calls : Effective(T[s]) = "Catch"}
       /\ select_mask' = IF calls = {} THEN select_mask
                         ELSE (IF select_mask = None THEN blocked ELSE select_mask) \ calls
       /\ arrived' = {s \in waiting : s \in calls => Effective(T[s]) = "Catch"}
       /\ traps' = T

InTrap == \E k \in DOMAIN frames : frames[k] \in Signal

\* The shell executes commands: it is not between two trap actions.
Executing == phase = "main" /\ (~draining \/ InTrap)

(* TrapSet::set_internal_disposition for a set of signals. A vacant entry  *)
(* stays vacant if the disposition is the default.                         *)
Internal(f) ==
    LET fresh == {s \in DOMAIN f \cap Signal : traps[s] = None /\ f[s] # "Default"}
        T == [c \in Cond |->
                IF c \in fresh THEN FromInitial(disp[c], f[c])
                ELSE IF c \in DOMAIN f /\ traps[c] # None
                THEN Grand(traps[c].action, traps[c].origin, traps[c].pending,
                           traps[c].parent, f[c])
                ELSE traps[c]]
    IN Install(T, fresh, mask, arrived)

StoppersTo(d) == [s \in Stoppers |-> d]

-----------------------------------------------------------------------------
(* A process is started with signals ignored or at the default; the Rust   *)
(* runtime has caught some before main (SIGSEGV, SIGBUS), without blocking *)
(* them.                                                                   *)
Init ==
    /\ traps = [c \in Cond |-> None]
    /\ disp \in [Signal -> StartDispositions]
    /\ startup = disp
    /\ mask = StartMask
    /\ select_mask = None
    /\ arrived = {}
    /\ frames = <<>>
    /\ draining = FALSE
    /\ phase = "start"
    /\ subshell = FALSE
    /\ interactive \in BOOLEAN
    /\ monitor \in BOOLEAN
    /\ execed = FALSE
    /\ owed = {}
    /\ budget = MaxArrivals

(* configure_environment in yash-cli.                                      *)
Startup ==
    /\ phase = "start"
    /\ phase' = "main"
    /\ IF interactive
       THEN Internal([s \in Terminators \cup (IF monitor THEN Stoppers ELSE {}) |->
                        IF s = SIGINT THEN "Catch" ELSE "Ignore"])
       ELSE UNCHANGED <<traps, kernel>>
    /\ UNCHANGED <<frames, draining, subshell, interactive, monitor, startup, execed, owed, budget>>

(* The set built-in turns job control on or off.                           *)
SetMonitor(m) ==
    /\ Executing
    /\ monitor' = m
    /\ Internal(StoppersTo(IF interactive /\ m THEN "Ignore" ELSE "Default"))
    /\ UNCHANGED <<frames, draining, phase, subshell, interactive, startup, execed, owed, budget>>

(* Env::wait_for_subshell and the wait built-in.                           *)
EnableSigchld ==
    /\ Executing
    /\ Internal([s \in {SIGCHLD} |-> "Catch"])
    /\ UNCHANGED <<frames, draining, mode, owed, budget>>

(* replace_current_process whose execve fails. Only an interactive shell   *)
(* goes on.                                                                *)
ExecFails ==
    /\ Executing /\ interactive /\ ~subshell
    /\ Internal([s \in Terminators \cup Stoppers \cup {SIGCHLD} |-> "Default"])
    /\ execed' = TRUE
    /\ UNCHANGED <<frames, draining, phase, subshell, interactive, monitor, startup,
                   owed, budget>>

(* TrapSet::peek_state: `trap -p`.                                         *)
PeekState(c) ==
    /\ Executing
    /\ traps[c] = None
    /\ traps' = [traps EXCEPT ![c] =
                    FromInitial(IF c = Exit THEN "Default" ELSE disp[c], "Default")]
    /\ UNCHANGED <<kernel, frames, draining, mode, owed, budget>>

(* TrapSet::set_action by the trap built-in. Parent states go even if the  *)
(* call is refused. A vacant entry learns the disposition the shell was    *)
(* started with on the way.                                                *)
Refused(c) ==
    /\ ~interactive
    /\ IF traps[c] = None THEN c # Exit /\ disp[c] = "Ignore"
       ELSE traps[c].action = "Ignore" /\ traps[c].origin = "Inherited"

SetAction(c, action) ==
    /\ Executing
    /\ LET g == ClearParent(traps[c])
           new == IF Refused(c)
                  THEN IF g = None THEN FromInitial("Ignore", "Default") ELSE g
                  ELSE Grand(action, "User", FALSE, None,
                             IF g = None THEN "Default" ELSE g.internal)
           T == [d \in Cond |-> IF d = c THEN new ELSE ClearParent(traps[d])]
       IN Install(T, {s \in Signal : s = c /\ g = None}, mask, arrived)
    /\ owed' = IF Refused(c) THEN owed ELSE owed \ {c}
    /\ UNCHANGED <<frames, draining, mode, budget>>

-----------------------------------------------------------------------------
(* TrapSet::enter_subshell: the option for a condition, and the entry      *)
(* after GrandState::enter_subshell.                                       *)
EnterOption(c, ignore, keep) ==
    IF c = SIGCHLD THEN "KeepInternal"
    ELSE IF \/ ignore /\ c \in {SIGINT, SIGQUIT}
            \/ keep /\ c \in Stoppers /\ traps[c].internal # "Default"
    THEN "Ignore"
    ELSE "ClearInternal"

Entered(g, option) ==
    LET command == g.action = "Command"
        reset == IF command THEN "Default" ELSE g.action
    IN Grand(IF option = "Ignore" THEN "Ignore" ELSE reset,
             IF command THEN "Subshell" ELSE g.origin,
             ~command /\ g.pending,
             IF command THEN [action |-> g.action, origin |-> g.origin,
                              pending |-> g.pending]
                        ELSE None,
             IF option = "KeepInternal" THEN g.internal ELSE "Default")

(* Config::start, in the child. SIGINT and SIGQUIT are blocked around the  *)
(* fork if the child is to ignore them; no signal is pending in the child. *)
(* `job_control` says that the Config asks for job control, `ignores` is   *)
(* its ignores_sigint_sigquit, which only execute_async asks for, with     *)
(* background job control.                                                 *)
StartSubshell(job_control, ignores) ==
    /\ Executing /\ (ignores => job_control)
    /\ LET controlled == job_control /\ monitor /\ ~subshell
           ignore == ignores /\ ~controlled
           fresh == {s \in Signal \cap {SIGINT, SIGQUIT} : ignore /\ traps[s] = None}
           T == [c \in Cond |->
                   IF c \in fresh
                   THEN Grand("Ignore",
                              IF disp[c] = "Ignore" THEN "Inherited" ELSE "Subshell",
                              FALSE, None, "Default")
                   ELSE IF traps[c] = None THEN None
                   ELSE Entered(traps[c], EnterOption(c, ignore, ~controlled))]
       IN /\ Install(T, fresh, mask \cup IF ignore THEN Signal \cap {SIGINT, SIGQUIT} ELSE {},
                     {})
          /\ subshell' = TRUE
    /\ frames' = <<>>
    /\ draining' = FALSE
    /\ owed' = {}
    /\ UNCHANGED <<phase, interactive, monitor, startup, execed, budget>>

-----------------------------------------------------------------------------
(* A signal arrives while it is blocked.                                   *)
Arrive(s) ==
    /\ phase = "main" /\ budget > 0
    /\ s \in mask
    /\ arrived' = arrived \cup {s}
    /\ owed' = IF traps[s] # None /\ traps[s].action = "Command" THEN owed \cup {s} ELSE owed
    /\ budget' = budget - 1
    /\ UNCHANGED <<traps, disp, mask, select_mask, frames, draining, mode>>

(* What select lets in: Concurrent hands it to the environment, which      *)
(* passes each signal to TrapSet::catch_signal.                            *)
Deliverable ==
    IF select_mask = None THEN {}
    ELSE {s \in arrived : s \notin select_mask /\ disp[s] = "Catch"}

\* A wrong version: catch_signal does not mark the signal as pending.
CaughtDropped(c, signals) == traps[c]

Caught(c, signals) ==
    IF c \in signals /\ traps[c] # None
    THEN Grand(traps[c].action, traps[c].origin, TRUE, traps[c].parent, traps[c].internal)
    ELSE traps[c]

CatchSignals ==
    /\ traps' = [c \in Cond |-> Caught(c, Deliverable)]
    /\ arrived' = arrived \ Deliverable
    /\ UNCHANGED <<disp, mask, select_mask>>

(* Env::wait_for_signals: a built-in waits.                                *)
WaitForSignals ==
    /\ Executing
    /\ Deliverable # {}
    /\ CatchSignals
    /\ UNCHANGED <<frames, draining, mode, owed, budget>>

(* run_traps_for_caught_signals up to its loop. A SIGINT that has no trap  *)
(* interrupts the current command instead, and so does being in a trap.    *)
Interrupted ==
    SIGINT \in Deliverable /\ (traps[SIGINT] = None \/ traps[SIGINT].action = "Default")

RunTraps ==
    /\ Executing
    /\ CatchSignals
    /\ draining' = (draining \/ (~Interrupted /\ ~InTrap))
    /\ UNCHANGED <<frames, mode, owed, budget>>

Pending == {s \in Signal : traps[s] # None /\ traps[s].pending}

\* A wrong version: the signal stays pending when its trap is run.
UncaughtLater(c) == traps

Uncaught(c) ==
    LET g == traps[c]
    IN [traps EXCEPT ![c] = Grand(g.action, g.origin, FALSE, g.parent, g.internal)]

(* TrapSet::take_caught_signal, in the order of the BTreeMap, and the trap *)
(* action it calls for; or handle_if_caught for one signal.                *)
Take(s) ==
    /\ traps' = Uncaught(s)
    /\ owed' = owed \ {s}
    /\ frames' = IF traps[s].action = "Command" THEN Append(frames, s) ELSE frames
    /\ UNCHANGED <<kernel, mode, budget>>

TakeCaughtSignal(s) ==
    /\ draining /\ ~InTrap
    /\ s \in Pending /\ \A t \in Pending : s <= t
    /\ Take(s)
    /\ UNCHANGED draining

NoMoreCaught ==
    /\ draining /\ ~InTrap /\ Pending = {}
    /\ draining' = FALSE
    /\ UNCHANGED <<traps, kernel, frames, mode, owed, budget>>

(* run_trap_if_caught, which the wait built-in uses even in a trap.        *)
RunTrapIfCaught(s) ==
    /\ Executing /\ Len(frames) < MaxFrames
    /\ s \in Pending
    /\ Take(s)
    /\ UNCHANGED draining

(* run_exit_trap at the end of the shell.                                  *)
RunExitTrap ==
    /\ phase = "main" /\ ~draining /\ frames = <<>>
    /\ IF traps[Exit] # None /\ traps[Exit].action = "Command"
       THEN frames' = <<Exit>> /\ UNCHANGED phase
       ELSE phase' = "done" /\ UNCHANGED frames
    /\ UNCHANGED <<traps, kernel, draining, subshell, interactive, monitor, startup, execed,
                   owed, budget>>

(* run_trap returns: the frame is popped. A divert leaves the loop; the    *)
(* shell exits after the EXIT trap.                                        *)
EndTrap(divert) ==
    /\ frames # <<>> /\ Executing
    /\ frames' = SubSeq(frames, 1, Len(frames) - 1)
    /\ draining' = (draining /\ ~(divert /\ ~InTrap'))
    /\ phase' = IF frames[Len(frames)] = Exit THEN "done" ELSE phase
    /\ UNCHANGED <<traps, kernel, subshell, interactive, monitor, startup, execed, owed, budget>>

Next ==
    \/ Startup \/ EnableSigchld \/ ExecFails
    \/ \E b \in BOOLEAN : SetMonitor(b) \/ EndTrap(b)
    \/ \E c \in Cond : PeekState(c) \/ \E a \in Action : SetAction(c, a)
    \/ \E j, i \in BOOLEAN : StartSubshell(j, i)
    \/ \E s \in Signal : Arrive(s) \/ TakeCaughtSignal(s) \/ RunTrapIfCaught(s)
    \/ WaitForSignals \/ RunTraps \/ NoMoreCaught \/ RunExitTrap

Spec == Init /\ [][Next]_vars

(* The shell calls run_traps_for_caught_signals after every command, its   *)
(* loop runs to the end and trap actions finish. Nothing else is certain   *)
(* to happen.                                                              *)
Fairness ==
    /\ WF_vars(RunTraps)
    /\ WF_vars(NoMoreCaught \/ \E s \in Signal : TakeCaughtSignal(s))
    /\ WF_vars(\E b \in BOOLEAN : EndTrap(b))

FairSpec == Spec /\ Fairness

-----------------------------------------------------------------------------
TypeOK ==
    /\ traps \in [Cond -> GrandState \cup {None}]
    /\ disp \in [Signal -> Disposition] /\ startup \in [Signal -> Disposition]
    /\ mask \subseteq Signal /\ arrived \subseteq Signal /\ owed \subseteq Signal
    /\ select_mask \in (SUBSET Signal) \cup {None}
    /\ frames \in Seq(Cond)
    /\ phase \in {"start", "main", "done"}
    /\ {draining, subshell, interactive, monitor, execed} \subseteq BOOLEAN
    /\ budget \in 0..MaxArrivals

(* The kernel agrees with the TrapSet: a signal with an entry is caught if *)
(* the user's action or the shell itself needs it, otherwise ignored if    *)
(* one of them asks for that, otherwise left at the default, or with the   *)
(* handler of the Rust runtime. A signal without one is as at startup.     *)
InSync ==
    \A s \in Signal :
        LET wanted == {DispositionOf(traps[s].action), traps[s].internal}
        IN IF traps[s] = None THEN disp[s] = startup[s]
           ELSE /\ "Catch" \in wanted => disp[s] = "Catch"
                /\ "Catch" \notin wanted /\ "Ignore" \in wanted => disp[s] = "Ignore"
                /\ wanted = {"Default"} =>
                      disp[s] = "Default" \/ (disp[s] = startup[s] /\ disp[s] = "Catch")

CatchWanted(s) ==
    traps[s] # None /\ (traps[s].action = "Command" \/ traps[s].internal = "Catch")

(* A signal the shell catches is blocked, so that its handler runs only in *)
(* select, and select does let it in: no signal is lost to a race, and     *)
(* none is kept out for ever.                                              *)
CaughtInSelect ==
    \A s \in Signal : CatchWanted(s) =>
        s \in mask /\ select_mask # None /\ s \notin select_mask

(* A non-interactive shell never changes the action for a signal that was  *)
(* ignored when it was started, whatever traps are set, printed, or reset  *)
(* by subshells on the way.                                                *)
StartupIgnoreSticks ==
    \A s \in Signal :
        (~interactive /\ startup[s] = "Ignore") =>
            (traps[s] = None \/ traps[s].action = "Ignore")

(* Such a signal is known to be inherited as soon as it has an entry.      *)
IgnoreIsInherited ==
    \A s \in Signal :
        (~interactive /\ startup[s] = "Ignore" /\ traps[s] # None) =>
            traps[s].origin = "Inherited"

(* The panics "user-defined trap must have origin" of run_trap_if_caught,  *)
(* run_traps_for_caught_signals and run_exit_trap are out of reach.        *)
CommandHasOrigin ==
    \A c \in Cond :
        traps[c] # None /\ traps[c].action = "Command" => traps[c].origin = "User"

(* `trap` prints the parent shell's traps only while the subshell has none *)
(* of its own: as long as a parent state is remembered no command is set.  *)
ParentsOnlyUntouched ==
    (\E c \in Cond : traps[c] # None /\ traps[c].parent # None) =>
        \A c \in Cond : traps[c] # None => traps[c].action # "Command"

(* A signal that arrives when a trap command is set for it stays visible,  *)
(* in the kernel or in the TrapSet, until the command runs or the user     *)
(* replaces it.                                                            *)
NoLostTrap ==
    \A s \in owed :
        /\ traps[s] # None /\ traps[s].action = "Command"
        /\ s \in arrived \/ traps[s].pending

(* An interactive shell does not die of SIGINT, SIGTERM or SIGQUIT, nor    *)
(* does it stop while it controls jobs.                                    *)
AutoIgnored ==
    (phase = "main" /\ interactive /\ ~subshell) =>
        \A s \in Signal \cap (Terminators \cup (IF monitor THEN Stoppers ELSE {})) :
            disp[s] # "Default"

(* That much holds as long as no exec has failed.                          *)
IgnoredUntilExec == execed \/ AutoIgnored

(* The trap command runs, if the shell does not exit first.                *)
OwedIsRun == \A s \in Signal : s \in owed ~> (s \notin owed \/ phase = "done")

(* The comment on BlockSignals::block_sigint_sigquit (subshell.rs) has its *)
(* mask restored, or the dispositions of SIGINT and SIGQUIT set again. The *)
(* child of an asynchronous command, which does the latter, must not keep  *)
(* them blocked: what is blocked is to be caught in select or was blocked  *)
(* when the shell was started.                                             *)
MaskIsOurs == \A s \in mask : disp[s] = "Catch" \/ s \in StartMask

(* Origin::Inherited says that the action comes from the process that      *)
(* executed the shell.                                                     *)
InheritedIsInherited ==
    \A s \in Signal :
        traps[s] # None /\ traps[s].origin = "Inherited" /\ traps[s].action = "Ignore" =>
            startup[s] = "Ignore"

(* The inductive invariant behind the safety properties.                   *)
IInv ==
    /\ TypeOK /\ InSync /\ CaughtInSelect /\ StartupIgnoreSticks /\ IgnoreIsInherited
    /\ CommandHasOrigin /\ ParentsOnlyUntouched /\ NoLostTrap

=============================================================================
