------------------------------ MODULE Executor ------------------------------
(***************************************************************************)
(* The single-threaded task executor of the yash-executor crate: the wake  *)
(* queue, the polling of tasks and the one-shot relay that forwards the    *)
(* result of a spawned task to its receiver.                               *)
(*                                                                         *)
(* A poll of a future is not one step: while the future runs, client code  *)
(* may wake other tasks, spawn tasks, poll receivers and clone wakers.     *)
(* `running` names the task being polled; nothing else is polled meanwhile *)
(* (the future is mutably borrowed), so only that client code interleaves. *)
(* The futures themselves are external: they may do anything the API lets  *)
(* them do, in any order.                                                  *)
(***************************************************************************)
EXTENDS Naturals, Sequences, FiniteSets

CONSTANTS
    Task,       \* identities of the tasks that may ever be spawned
    Forwarded,  \* the tasks spawned by `spawn`, which returns a Receiver;
                \* the others are spawned by `spawn_pinned`
    Null        \* no task

ASSUME ExecutorAssumption ==
    /\ Forwarded \subseteq Task
    /\ Null \notin Task

VARIABLES
    alive,      \* the Rc<RefCell<ExecutorState>> still has a strong reference
    queue,      \* ExecutorState::wake_queue
    future,     \* Task::future: "unborn" before the spawn, then "some", "none"
    running,    \* the task whose future is being polled, or Null
    relay,      \* Relay shared by the Sender inside task r and Receiver r
    wakers,     \* tasks of which some client (a reactor) holds a Waker
    awaits,     \* history: the receivers whose last poll was made by task t,
                \* in t's latest poll, and returned Pending
    reported    \* how often `step` has returned Some(true) for a task, cut
                \* off at 2

vars == <<alive, queue, future, running, relay, wakers, awaits, reported>>

Futures == {"unborn", "some", "none"}

\* The enum Relay; "Dropped" is a relay whose Receiver has been dropped (the
\* Sender's Weak cannot be upgraded) or that was never created.
Relays == [st : {"Pending", "Computed", "Done", "Dropped"}, waker : {Null}]
            \cup [st : {"Polled"}, waker : Task]

Relay(s) == [st |-> s, waker |-> Null]

Polled(t) == [st |-> "Polled", waker |-> t]

\* The tasks in a queue, and that it holds none of them twice.
Elems(q) == {q[i] : i \in DOMAIN q}
Distinct(q) == \A i, j \in DOMAIN q : q[i] = q[j] => i = j

Queued == Elems(queue)

TypeOK ==
    /\ alive \in BOOLEAN
    /\ queue \in Seq(Task)
    /\ future \in [Task -> Futures]
    /\ running \in Task \cup {Null}
    /\ relay \in [Task -> Relays]
    /\ wakers \in SUBSET Task
    /\ awaits \in [Task -> SUBSET Task]
    /\ reported \in [Task -> 0..2]

Init ==
    /\ alive = TRUE
    /\ queue = <<>>
    /\ future = [t \in Task |-> "unborn"]
    /\ running = Null
    /\ relay = [t \in Task |-> Relay("Dropped")]
    /\ wakers = {}
    /\ awaits = [t \in Task |-> {}]
    /\ reported = [t \in Task |-> 0]

-----------------------------------------------------------------------------
\* A wrong version: a woken task is put before all others.
WokenFront(q, t) == IF alive /\ t \notin Elems(q) THEN <<t>> \o q ELSE q

(* Task::wake: the queue after task t is woken. A task already in the      *)
(* queue is not enqueued again, and nothing happens without an executor.   *)
Woken(q, t) ==
    IF alive /\ t \notin Elems(q) THEN Append(q, t) ELSE q

(* ExecutorState::enqueue and enqueue_forwarding, reached from the         *)
(* executor or from a Spawner. A Spawner of a dropped executor returns the *)
(* future in a SpawnError and changes nothing.                             *)
Spawn(t) ==
    /\ alive
    /\ future[t] = "unborn"
    /\ future' = [future EXCEPT ![t] = "some"]
    /\ queue' = Append(queue, t)
    /\ relay' = [relay EXCEPT ![t] =
                    IF t \in Forwarded THEN Relay("Pending") ELSE @]
    /\ UNCHANGED <<alive, running, wakers, awaits, reported>>

AtMost2(n) == IF n < 2 THEN n ELSE 2

(* Executor::step: remove the head of the queue and poll it. Task::poll of *)
(* a completed task returns true without running anything.                 *)
StepStale ==
    /\ alive /\ running = Null /\ queue # <<>>
    /\ future[Head(queue)] = "none"
    /\ queue' = Tail(queue)
    /\ reported' = [reported EXCEPT ![Head(queue)] = AtMost2(@ + 1)]
    /\ UNCHANGED <<alive, future, running, relay, wakers, awaits>>

\* A wrong version: the polled task stays in the queue.
StepPollKeeps ==
    /\ alive /\ running = Null /\ queue # <<>>
    /\ future[Head(queue)] = "some"
    /\ queue' = queue
    /\ running' = Head(queue)
    /\ awaits' = [awaits EXCEPT ![Head(queue)] = {}]
    /\ UNCHANGED <<alive, future, relay, wakers, reported>>

StepPoll ==
    /\ alive /\ running = Null /\ queue # <<>>
    /\ future[Head(queue)] = "some"
    /\ queue' = Tail(queue)
    /\ running' = Head(queue)
    /\ awaits' = [awaits EXCEPT ![Head(queue)] = {}]
    /\ UNCHANGED <<alive, future, relay, wakers, reported>>

Step == StepStale \/ StepPoll

(* The poll returns Pending: the task stays alive only through its wakers. *)
Pend ==
    /\ running # Null
    /\ running' = Null
    /\ UNCHANGED <<alive, queue, future, relay, wakers, awaits, reported>>

(* Sender::send by task t: what it leaves in the relay and in the queue.   *)
SentRelay(t) == IF relay[t].st = "Dropped" THEN relay[t] ELSE Relay("Computed")

\* A wrong version: the task that waits for the value is not woken.
SentQueueUnwoken(t) == queue

SentQueue(t) ==
    IF relay[t].st = "Polled" THEN Woken(queue, relay[t].waker) ELSE queue

(* The poll returns Ready: the wrapper made by enqueue_forwarding has sent *)
(* the value, and Task::poll sets the future to None.                      *)
Complete ==
    /\ running # Null
    /\ relay' = [relay EXCEPT ![running] = SentRelay(running)]
    /\ queue' = SentQueue(running)
    /\ future' = [future EXCEPT ![running] = "none"]
    /\ reported' = [reported EXCEPT ![running] = AtMost2(@ + 1)]
    /\ running' = Null
    /\ UNCHANGED <<alive, wakers, awaits>>

(* Receiver::poll of receiver r by the running task. Polling a receiver    *)
(* that has delivered its value panics; its contract forbids it.           *)
ReceiverPoll(r) ==
    /\ running # Null
    /\ \/ /\ relay[r].st \in {"Pending", "Polled"}
          /\ relay' = [relay EXCEPT ![r] = Polled(running)]
          /\ awaits' = [t \in Task |-> IF t = running THEN awaits[t] \cup {r}
                                                      ELSE awaits[t] \ {r}]
       \/ /\ relay[r].st = "Computed"
          /\ relay' = [relay EXCEPT ![r] = Relay("Done")]
          /\ awaits' = [t \in Task |-> awaits[t] \ {r}]
    /\ UNCHANGED <<alive, queue, future, running, wakers, reported>>

(* Receiver::try_receive that finds a value; its errors change nothing.    *)
TryReceive(r) ==
    /\ relay[r].st = "Computed"
    /\ relay' = [relay EXCEPT ![r] = Relay("Done")]
    /\ awaits' = [t \in Task |-> awaits[t] \ {r}]
    /\ UNCHANGED <<alive, queue, future, running, wakers, reported>>

(* The Receiver is dropped, and with it the relay and the waker in it.     *)
DropReceiver(r) ==
    /\ relay[r].st # "Dropped"
    /\ relay' = [relay EXCEPT ![r] = Relay("Dropped")]
    /\ awaits' = [t \in Task |-> awaits[t] \ {r}]
    /\ UNCHANGED <<alive, queue, future, running, wakers, reported>>

(* The running future clones its waker and leaves it with a reactor.       *)
CloneWaker ==
    /\ running # Null
    /\ wakers' = wakers \cup {running}
    /\ UNCHANGED <<alive, queue, future, running, relay, awaits, reported>>

(* Waker::wake_by_ref by the running future on itself.                     *)
WakeSelf ==
    /\ running # Null
    /\ queue' = Woken(queue, running)
    /\ UNCHANGED <<alive, future, running, relay, wakers, awaits, reported>>

(* Waker::wake, which consumes the waker: by the running future or, between *)
(* two polls, by the reactor.                                              *)
Wake(t) ==
    /\ t \in wakers
    /\ wakers' = wakers \ {t}
    /\ queue' = Woken(queue, t)
    /\ UNCHANGED <<alive, future, running, relay, awaits, reported>>

DropWaker(t) ==
    /\ t \in wakers
    /\ wakers' = wakers \ {t}
    /\ UNCHANGED <<alive, queue, future, running, relay, awaits, reported>>

(* The last Executor is dropped: the queue and the tasks in it go.         *)
DropExecutor ==
    /\ alive /\ running = Null
    /\ alive' = FALSE
    /\ queue' = <<>>
    /\ UNCHANGED <<future, running, relay, wakers, awaits, reported>>

Next ==
    \/ StepStale \/ StepPoll \/ Pend \/ Complete \/ CloneWaker \/ WakeSelf
    \/ DropExecutor
    \/ \E t \in Task :
          \/ Spawn(t) \/ ReceiverPoll(t) \/ TryReceive(t) \/ DropReceiver(t)
          \/ Wake(t) \/ DropWaker(t)

(* run_until_stalled keeps calling step while the queue is not empty, and  *)
(* a poll always returns: a future that never returned from poll would     *)
(* hang the whole shell. Nothing obliges clients to spawn, wake or drop.   *)
Fairness == WF_vars(Step) /\ WF_vars(Pend \/ Complete)

Spec == Init /\ [][Next]_vars

FairSpec == Spec /\ Fairness

-----------------------------------------------------------------------------
(* Task::wake enqueues a task at most once, however often and from however *)
(* many wakers it is woken before the executor gets to it.                 *)
NoDuplicateWake == Distinct(queue)

(* No wake-up is lost between Receiver::poll and Sender::send: a task that *)
(* awaits receiver r either has its own waker in the relay or, once the    *)
(* value is there, is in the wake queue.                                   *)
NoLostWakeup ==
    \A t, r \in Task :
        (alive /\ r \in awaits[t] /\ future[t] = "some")
            => \/ relay[r] = Polled(t)
               \/ relay[r].st = "Computed" /\ t \in Queued

(* The unreachable!() in Sender::send: while the task that owns the sender *)
(* can still run, its relay holds no value and has delivered none.         *)
SendsOnce ==
    \A t \in Task : future[t] # "none" => relay[t].st \notin {"Computed", "Done"}

(* What the invariants above rest on. Nothing refers to a task before it   *)
(* is spawned, a task being polled has a future and an executor, and a     *)
(* dropped executor has no queue.                                          *)
UnbornUnknown ==
    \A t \in Task : future[t] = "unborn" =>
        /\ t \notin Queued /\ t \notin wakers /\ running # t
        /\ relay[t].st = "Dropped" /\ awaits[t] = {}
        /\ \A r \in Task : relay[r].waker # t

RunningIsLive == running # Null => alive /\ future[running] = "some"

DeadIsEmpty == ~alive => queue = <<>>

IInv ==
    /\ TypeOK /\ NoDuplicateWake /\ NoLostWakeup /\ SendsOnce
    /\ UnbornUnknown /\ RunningIsLive /\ DeadIsEmpty

(* run_until_stalled returns the number of completed tasks: a task is      *)
(* reported complete by `step` at most once.                               *)
ReportedOnce == \A t \in Task : reported[t] <= 1

(* A completed task stays completed and a delivered value is gone: no step *)
(* gives a task its future back or fills a relay a second time.            *)
NoResurrection ==
    [][\A t \in Task :
          /\ future[t] = "none" => future'[t] = "none"
          /\ relay[t].st \in {"Done", "Dropped"} /\ future[t] # "unborn"
                => relay'[t].st \in {"Done", "Dropped"}]_vars

(* The queue is fair: a task that has been woken is polled (or was already *)
(* complete) unless the executor is dropped, whatever the others do.       *)
WokenIsPolled ==
    \A t \in Task :
        t \in Queued ~> (running = t \/ future[t] = "none" \/ ~alive)

(* A task that awaits a result is polled again after the result is sent.   *)
ResultWakesReceiver ==
    \A t, r \in Task :
        (r \in awaits[t] /\ relay[r].st = "Computed" /\ future[t] = "some")
            ~> (running = t \/ relay[r].st # "Computed" \/ ~alive)

-----------------------------------------------------------------------------
Sched == INSTANCE Scheduler
            WITH open <- alive, ready <- Queued, cur <- running

(* The FIFO queue implements the abstract scheduler, its freedom from      *)
(* starvation included.                                                    *)
ImplementsScheduler == Sched!FairSpec

=============================================================================
