----------------------------- MODULE Scheduler ------------------------------
(***************************************************************************)
(* What the executor promises its tasks, without a queue: a set of woken   *)
(* tasks, of which one at a time is polled, and no woken task waits        *)
(* forever. Executor.tla is shown to implement this module.                *)
(***************************************************************************)
CONSTANTS Task, Null

VARIABLES
    open,   \* the executor exists
    ready,  \* the tasks that have been woken and not yet polled
    cur     \* the task being polled, or Null

vars == <<open, ready, cur>>

Init == open = TRUE /\ ready = {} /\ cur = Null

(* A task is spawned or woken, possibly by the task being polled.          *)
MakeReady(t) ==
    /\ open
    /\ ready' = ready \cup {t}
    /\ UNCHANGED <<open, cur>>

(* A woken task is polled; a task that is already complete needs no poll.  *)
Pick(t) ==
    /\ open /\ cur = Null
    /\ t \in ready
    /\ ready' = ready \ {t}
    /\ cur' \in {t, Null}
    /\ UNCHANGED open

(* The poll ends; its result may wake one task.                            *)
Finish ==
    /\ cur # Null
    /\ cur' = Null
    /\ \/ UNCHANGED ready
       \/ open /\ \E t \in Task : ready' = ready \cup {t}
    /\ UNCHANGED open

Close ==
    /\ open /\ cur = Null
    /\ open' = FALSE
    /\ ready' = {}
    /\ UNCHANGED cur

Next == Finish \/ Close \/ \E t \in Task : MakeReady(t) \/ Pick(t)

Spec == Init /\ [][Next]_vars

(* No starvation: a task that is again and again ready while nothing is    *)
(* being polled is polled.                                                 *)
FairSpec ==
    Spec /\ WF_vars(Finish) /\ \A t \in Task : SF_vars(Pick(t))

=============================================================================
