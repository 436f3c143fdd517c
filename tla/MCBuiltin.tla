----------------------------- MODULE MCBuiltin ------------------------------
(* The three small components that a built-in runs in: the executor that   *)
(* polls its future, the select that waits for SIGINT next to it, and the  *)
(* variables, of which some are assigned for as long as it runs. They have *)
(* no state in common; a behaviour of one of them is looked at while the   *)
(* others are in their initial states.                                     *)
EXTENDS Executor, Interruptible, Variables

CONSTANTS t1, t2, t3

\* Task t1 has a receiver, which either of the others may await. 2 is SIGINT;
\* 10 and 12 stand for signals with a trap command.
MCParamLists == {<<>>, <<"p">>}

MCInit == Init /\ BInit /\ VInit

MCNext ==
    \/ BInit /\ VInit /\ Next /\ UNCHANGED <<bvars, vvars>>
    \/ Init /\ VInit /\ BNext /\ UNCHANGED <<vars, vvars>>
    \/ Init /\ BInit /\ VNext /\ UNCHANGED <<vars, bvars>>

MCSpec == MCInit /\ [][MCNext]_<<vars, bvars, vvars>> /\ Fairness
=============================================================================
