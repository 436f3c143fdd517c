------------------------------ MODULE MCTrapSet ------------------------------
(* The trap set, and the system calls it makes for one signal: a behaviour *)
(* of one is looked at while the other one is in an initial state.         *)
EXTENDS TrapSet

VARIABLES kind, of_interactive, child, entry, todo, before, of_disp, blocked,
          of_select_mask, pending, saved, alive, stray

calls == <<kind, of_interactive, child, entry, todo, before, of_disp, blocked,
           of_select_mask, pending, saved, alive, stray>>

One == INSTANCE SetDisposition
           WITH interactive <- of_interactive, disp <- of_disp,
                select_mask <- of_select_mask

\* The signals are numbered as on Linux: 2 is SIGINT, 3 SIGQUIT, 15 SIGTERM, 17
\* SIGCHLD and 20 SIGTSTP. SIGTSTP may be ignored at the start of a shell that is
\* not interactive, on which alone that has a lasting effect.
TrapsRest == Init /\ interactive /\ monitor /\ \A s \in Signal : disp[s] = "Default"
CallsRest == One!Init /\ kind = "other" /\ of_interactive /\ of_disp = "Default"

MCInit ==
    \/ /\ CallsRest /\ Init
       /\ \A s \in Signal : disp[s] = "Ignore" => s = 20 /\ ~interactive
    \/ TrapsRest /\ One!Init

MCNext ==
    \/ CallsRest /\ Next /\ UNCHANGED calls
    \/ TrapsRest /\ One!Next /\ UNCHANGED vars

MCSpec == MCInit /\ [][MCNext]_<<vars, calls>> /\ Fairness

\* The properties of SetDisposition, about the calls that set_disposition and
\* Config::start make.
HandlerInSelect == One!HandlerInSelect
Settled == One!Settled
DiesJustly == One!DiesJustly

=============================================================================
