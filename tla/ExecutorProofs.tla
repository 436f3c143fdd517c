--------------------------- MODULE ExecutorProofs ---------------------------
(***************************************************************************)
(* Proofs about Executor.tla for any set of tasks: the wake queue never    *)
(* holds a task twice, no wake-up between Receiver::poll and Sender::send  *)
(* is lost, a sender never meets a filled relay, and the queue implements  *)
(* the steps of the abstract scheduler. Then about Interruptible.tla,      *)
(* where two futures are polled by select, and about CommandSearch.tla: a  *)
(* command name has one meaning for everything that looks it up.           *)
(***************************************************************************)
EXTENDS Executor, Interruptible, CommandSearch, SequenceTheorems, WellFoundedInduction, TLAPS

-----------------------------------------------------------------------------
(* Waking at the back of the queue: Append adds one element and keeps the  *)
(* queue free of duplicates when the element is new.                       *)
LEMMA AppendElems ==
    ASSUME NEW q \in Seq(Task), NEW t \in Task
    PROVE  /\ Append(q, t) \in Seq(Task)
           /\ Elems(Append(q, t)) = Elems(q) \cup {t}
           /\ Distinct(q) /\ t \notin Elems(q) => Distinct(Append(q, t))
<1> DEFINE a == Append(q, t)
<1>1. /\ a \in Seq(Task)
      /\ DOMAIN q = 1..Len(q)
      /\ DOMAIN a = 1..(Len(q) + 1)
      /\ Len(q) \in Nat
      /\ \A i \in 1..Len(q) : a[i] = q[i]
      /\ a[Len(q) + 1] = t
  OBVIOUS
<1>2. Elems(a) = Elems(q) \cup {t}
  <2>1. ASSUME NEW x \in Elems(a) PROVE x \in Elems(q) \cup {t}
    BY <1>1, <2>1 DEF Elems
  <2>2. ASSUME NEW x \in Elems(q) \cup {t} PROVE x \in Elems(a)
    BY <1>1, <2>2 DEF Elems
  <2> QED BY <2>1, <2>2
<1>3. Distinct(q) /\ t \notin Elems(q) => Distinct(a)
  BY <1>1 DEF Elems, Distinct
<1> QED BY <1>1, <1>2, <1>3

(* Popping the front of the queue, as Executor::step does.                 *)
LEMMA TailElems ==
    ASSUME NEW q \in Seq(Task), q # <<>>
    PROVE  /\ Head(q) \in Task
           /\ Tail(q) \in Seq(Task)
           /\ Elems(q) = Elems(Tail(q)) \cup {Head(q)}
           /\ Distinct(q) => /\ Distinct(Tail(q))
                             /\ Elems(Tail(q)) = Elems(q) \ {Head(q)}
<1> DEFINE b == Tail(q)
<1>1. /\ b \in Seq(Task)
      /\ Head(q) \in Task
      /\ Head(q) = q[1]
      /\ Len(q) \in Nat /\ Len(q) > 0
      /\ DOMAIN q = 1..Len(q)
      /\ DOMAIN b = 1..(Len(q) - 1)
      /\ \A i \in 1..(Len(q) - 1) : b[i] = q[i + 1]
  OBVIOUS
<1>2. Elems(q) = Elems(b) \cup {Head(q)}
  <2>1. ASSUME NEW x \in Elems(q) PROVE x \in Elems(b) \cup {Head(q)}
    <3>1. PICK i \in 1..Len(q) : x = q[i] BY <1>1, <2>1 DEF Elems
    <3>2. CASE i = 1 BY <3>1, <3>2, <1>1
    <3>3. CASE i # 1
      <4>1. i - 1 \in 1..(Len(q) - 1) /\ b[i - 1] = q[i] BY <3>1, <3>3, <1>1
      <4> QED BY <4>1, <3>1, <1>1 DEF Elems
    <3> QED BY <3>2, <3>3
  <2>2. ASSUME NEW x \in Elems(b) \cup {Head(q)} PROVE x \in Elems(q)
    <3>1. CASE x = Head(q) BY <3>1, <1>1 DEF Elems
    <3>2. CASE x \in Elems(b)
      <4>1. PICK i \in 1..(Len(q) - 1) : x = b[i] BY <1>1, <3>2 DEF Elems
      <4>2. i + 1 \in 1..Len(q) /\ x = q[i + 1] BY <4>1, <1>1
      <4> QED BY <4>2, <1>1 DEF Elems
    <3> QED BY <2>2, <3>1, <3>2
  <2> QED BY <2>1, <2>2
<1>3. ASSUME Distinct(q) PROVE Distinct(b) /\ Head(q) \notin Elems(b)
  <2>1. Distinct(b)
    <3> SUFFICES ASSUME NEW i \in DOMAIN b, NEW j \in DOMAIN b, b[i] = b[j]
                 PROVE  i = j
      BY DEF Distinct
    <3>1. i \in 1..(Len(q) - 1) /\ j \in 1..(Len(q) - 1) BY <1>1
    <3>2. q[i + 1] = q[j + 1] BY <3>1, <1>1
    <3>3. i + 1 \in DOMAIN q /\ j + 1 \in DOMAIN q BY <3>1, <1>1
    <3>4. i + 1 = j + 1 BY <3>2, <3>3, <1>3 DEF Distinct
    <3> QED BY <3>4, <3>1
  <2>2. Head(q) \notin Elems(b)
    <3> SUFFICES ASSUME NEW i \in DOMAIN b, b[i] = Head(q) PROVE FALSE
      BY DEF Elems
    <3>1. i \in 1..(Len(q) - 1) BY <1>1
    <3>2. q[i + 1] = q[1] /\ i + 1 \in DOMAIN q /\ 1 \in DOMAIN q
      BY <3>1, <1>1
    <3>3. i + 1 = 1 BY <3>2, <1>3 DEF Distinct
    <3> QED BY <3>3, <3>1
  <2> QED BY <2>1, <2>2
<1> QED BY <1>1, <1>2, <1>3

(* Task::wake keeps the queue free of duplicates and only adds its task.   *)
LEMMA WokenElems ==
    ASSUME NEW q \in Seq(Task), NEW t \in Task, Distinct(q)
    PROVE  /\ Woken(q, t) \in Seq(Task)
           /\ Distinct(Woken(q, t))
           /\ Elems(Woken(q, t)) = Elems(q) \cup (IF alive THEN {t} ELSE {})
BY AppendElems DEF Woken

-----------------------------------------------------------------------------
(* The inductive step: IInv is kept by every action, one step for each.    *)
LEMMA Inductive == IInv /\ [Next]_vars => IInv'
<1> SUFFICES ASSUME IInv, [Next]_vars PROVE IInv'
  OBVIOUS
<1> USE ExecutorAssumption
<1>q. /\ queue \in Seq(Task) /\ Distinct(queue)
  BY DEF IInv, TypeOK, NoDuplicateWake
<1>1. CASE StepStale
  <2>1. /\ queue' \in Seq(Task) /\ Distinct(queue') /\ Head(queue) \in Task
        /\ Elems(queue') = Elems(queue) \ {Head(queue)}
    BY <1>1, <1>q, TailElems DEF StepStale
  <2>2. TypeOK' BY <1>1, <2>1 DEF StepStale, IInv, TypeOK, AtMost2
  <2>3. NoLostWakeup'
    BY <1>1, <2>1 DEF StepStale, IInv, NoLostWakeup, Queued
  <2>4. SendsOnce' /\ UnbornUnknown' /\ RunningIsLive' /\ DeadIsEmpty'
    BY <1>1, <2>1 DEF StepStale, IInv, SendsOnce, UnbornUnknown, RunningIsLive,
                      DeadIsEmpty, Queued
  <2> QED BY <2>1, <2>2, <2>3, <2>4 DEF IInv, NoDuplicateWake
<1>2. CASE StepPoll
  <2>1. /\ queue' \in Seq(Task) /\ Distinct(queue') /\ Head(queue) \in Task
        /\ Elems(queue') = Elems(queue) \ {Head(queue)}
    BY <1>2, <1>q, TailElems DEF StepPoll
  <2>2. TypeOK' BY <1>2, <2>1 DEF StepPoll, IInv, TypeOK
  <2>3. NoLostWakeup'
    BY <1>2, <2>1 DEF StepPoll, IInv, NoLostWakeup, Queued, TypeOK
  <2>4. SendsOnce' /\ UnbornUnknown' /\ RunningIsLive' /\ DeadIsEmpty'
    BY <1>2, <2>1 DEF StepPoll, IInv, SendsOnce, UnbornUnknown, RunningIsLive,
                      DeadIsEmpty, Queued
  <2> QED BY <2>1, <2>2, <2>3, <2>4 DEF IInv, NoDuplicateWake
<1>3. CASE Pend
  BY <1>3 DEF Pend, IInv, TypeOK, NoDuplicateWake, NoLostWakeup, SendsOnce,
              UnbornUnknown, RunningIsLive, DeadIsEmpty, Queued
<1>4. CASE Complete
  <2> DEFINE w == relay[running].waker
  <2>1. running \in Task /\ alive /\ future[running] = "some"
    BY <1>4 DEF Complete, IInv, TypeOK, RunningIsLive
  <2>2. /\ relay[running].st = "Polled" => w \in Task
        /\ relay[running].st \in {"Pending", "Polled", "Dropped"}
    BY <2>1 DEF IInv, TypeOK, Relays, SendsOnce
  <2>3. /\ queue' \in Seq(Task) /\ Distinct(queue')
        /\ Elems(queue') = Elems(queue) \cup
                (IF relay[running].st = "Polled" THEN {w} ELSE {})
    BY <1>4, <1>q, <2>1, <2>2, WokenElems DEF Complete, SentQueue
  <2>4. TypeOK'
    BY <1>4, <2>1, <2>3 DEF Complete, IInv, TypeOK, SentRelay, Relay, Relays,
                            Futures, AtMost2
  <2>5. NoLostWakeup'
    BY <1>4, <2>1, <2>2, <2>3
    DEF Complete, IInv, TypeOK, NoLostWakeup, Queued, SentRelay, Relay, Polled,
        Futures
  <2>6. SendsOnce'
    BY <1>4, <2>1, <2>2 DEF Complete, IInv, TypeOK, SendsOnce, SentRelay, Relay
  <2>7. UnbornUnknown'
    BY <1>4, <2>1, <2>2, <2>3
    DEF Complete, IInv, TypeOK, UnbornUnknown, SentRelay, Relay, Queued
  <2>8. RunningIsLive' /\ DeadIsEmpty'
    BY <1>4, <2>1 DEF Complete, IInv, RunningIsLive, DeadIsEmpty
  <2> QED BY <2>3, <2>4, <2>5, <2>6, <2>7, <2>8 DEF IInv, NoDuplicateWake
<1>5. CASE CloneWaker
  BY <1>5 DEF CloneWaker, IInv, TypeOK, NoDuplicateWake, NoLostWakeup, SendsOnce,
              UnbornUnknown, RunningIsLive, DeadIsEmpty, Queued
<1>6. CASE WakeSelf
  <2>1. running \in Task /\ alive /\ future[running] = "some"
    BY <1>6 DEF WakeSelf, IInv, TypeOK, RunningIsLive
  <2>2. /\ queue' \in Seq(Task) /\ Distinct(queue')
        /\ Elems(queue') = Elems(queue) \cup {running}
    BY <1>6, <1>q, <2>1, WokenElems DEF WakeSelf
  <2> QED
    BY <1>6, <2>1, <2>2
    DEF WakeSelf, IInv, TypeOK, NoDuplicateWake, NoLostWakeup, SendsOnce,
        UnbornUnknown, RunningIsLive, DeadIsEmpty, Queued
<1>7. CASE DropExecutor
  <2>1. queue' \in Seq(Task) /\ Distinct(queue') /\ Elems(queue') = {}
    BY <1>7 DEF DropExecutor, Distinct, Elems
  <2> QED
    BY <1>7, <2>1
    DEF DropExecutor, IInv, TypeOK, NoDuplicateWake, NoLostWakeup, SendsOnce,
        UnbornUnknown, RunningIsLive, DeadIsEmpty, Queued
<1>8. ASSUME NEW t \in Task, Spawn(t) PROVE IInv'
  <2>1. t \notin Elems(queue)
    BY <1>8 DEF Spawn, IInv, UnbornUnknown, Queued
  <2>2. /\ queue' \in Seq(Task) /\ Distinct(queue')
        /\ Elems(queue') = Elems(queue) \cup {t}
    BY <1>8, <1>q, <2>1, AppendElems DEF Spawn
  <2>3. TypeOK'
    BY <1>8, <2>2 DEF Spawn, IInv, TypeOK, Relay, Relays, Futures
  <2>4. NoLostWakeup'
    <3> SUFFICES ASSUME NEW x \in Task, NEW r \in Task, alive',
                        r \in awaits'[x], future'[x] = "some"
                 PROVE  \/ relay'[r] = Polled(x)
                        \/ relay'[r].st = "Computed" /\ x \in Queued'
      BY DEF NoLostWakeup, Polled
    <3>1. x # t /\ future[x] = "some" /\ r \in awaits[x] /\ alive
      BY <1>8 DEF Spawn, IInv, TypeOK, UnbornUnknown
    <3>2. \/ relay[r] = Polled(x)
          \/ relay[r].st = "Computed" /\ x \in Queued
      BY <3>1 DEF IInv, NoLostWakeup
    <3>3. r # t BY <1>8, <3>2 DEF Spawn, IInv, UnbornUnknown, Polled
    <3>4. relay'[r] = relay[r] BY <1>8, <3>3 DEF Spawn, IInv, TypeOK
    <3> QED BY <3>2, <3>4, <2>2 DEF Queued
  <2>5. SendsOnce' /\ UnbornUnknown' /\ RunningIsLive' /\ DeadIsEmpty'
    BY <1>8, <2>2 DEF Spawn, IInv, TypeOK, SendsOnce, UnbornUnknown, Relay,
                      RunningIsLive, DeadIsEmpty, Queued
  <2> QED BY <2>2, <2>3, <2>4, <2>5 DEF IInv, NoDuplicateWake
<1>9. ASSUME NEW r \in Task, ReceiverPoll(r) PROVE IInv'
  <2>1. running \in Task /\ alive /\ future[running] = "some"
    BY <1>9 DEF ReceiverPoll, IInv, TypeOK, RunningIsLive
  <2>2. TypeOK'
    BY <1>9, <2>1 DEF ReceiverPoll, IInv, TypeOK, Relay, Relays, Polled
  <2>3. NoLostWakeup'
    BY <1>9, <2>1 DEF ReceiverPoll, IInv, TypeOK, NoLostWakeup, Relay, Polled,
                      Queued
  <2>4. SendsOnce' /\ UnbornUnknown' /\ RunningIsLive' /\ DeadIsEmpty'
    BY <1>9, <2>1 DEF ReceiverPoll, IInv, TypeOK, SendsOnce, UnbornUnknown, Relay,
                      Polled, RunningIsLive, DeadIsEmpty, Queued
  <2> QED
    BY <1>9, <1>q, <2>2, <2>3, <2>4 DEF ReceiverPoll, IInv, NoDuplicateWake
<1>10. ASSUME NEW r \in Task, TryReceive(r) \/ DropReceiver(r) PROVE IInv'
  <2>1. TypeOK'
    BY <1>10 DEF TryReceive, DropReceiver, IInv, TypeOK, Relay, Relays
  <2>2. NoLostWakeup'
    <3> SUFFICES ASSUME NEW x \in Task, NEW y \in Task, alive',
                        y \in awaits'[x], future'[x] = "some"
                 PROVE  \/ relay'[y] = Polled(x)
                        \/ relay'[y].st = "Computed" /\ x \in Queued'
      BY DEF NoLostWakeup, Polled
    <3>a. /\ awaits' = [t \in Task |-> awaits[t] \ {r}]
          /\ UNCHANGED <<alive, future>>
      BY <1>10 DEF TryReceive, DropReceiver
    <3>1. y # r /\ y \in awaits[x] /\ alive /\ future[x] = "some"
      BY <3>a
    <3>2. \/ relay[y] = Polled(x)
          \/ relay[y].st = "Computed" /\ x \in Queued
      BY <3>1 DEF IInv, NoLostWakeup
    <3>3. relay'[y] = relay[y] /\ Queued' = Queued
      BY <1>10, <3>1 DEF TryReceive, DropReceiver, IInv, TypeOK, Queued
    <3> QED BY <3>2, <3>3
  <2>3. SendsOnce' /\ UnbornUnknown' /\ RunningIsLive' /\ DeadIsEmpty'
    BY <1>10 DEF TryReceive, DropReceiver, IInv, TypeOK, SendsOnce, UnbornUnknown,
                 Relay, RunningIsLive, DeadIsEmpty, Queued
  <2> QED
    BY <1>10, <1>q, <2>1, <2>2, <2>3
    DEF TryReceive, DropReceiver, IInv, NoDuplicateWake
<1>11. ASSUME NEW t \in Task, Wake(t) PROVE IInv'
  <2>1. /\ queue' \in Seq(Task) /\ Distinct(queue')
        /\ Elems(queue') = Elems(queue) \cup (IF alive THEN {t} ELSE {})
        /\ ~alive => queue' = queue
    BY <1>11, <1>q, WokenElems DEF Wake, Woken
  <2>2. TypeOK' BY <1>11, <2>1 DEF Wake, IInv, TypeOK
  <2>3. NoLostWakeup' BY <1>11, <2>1 DEF Wake, IInv, NoLostWakeup, Queued
  <2>4. SendsOnce' /\ UnbornUnknown' /\ RunningIsLive' /\ DeadIsEmpty'
    BY <1>11, <2>1 DEF Wake, IInv, SendsOnce, UnbornUnknown, RunningIsLive,
                       DeadIsEmpty, Queued
  <2> QED BY <2>1, <2>2, <2>3, <2>4 DEF IInv, NoDuplicateWake
<1>12. ASSUME NEW t \in Task, DropWaker(t) PROVE IInv'
  BY <1>12 DEF DropWaker, IInv, TypeOK, NoDuplicateWake, NoLostWakeup, SendsOnce,
               UnbornUnknown, RunningIsLive, DeadIsEmpty, Queued
<1>13. CASE UNCHANGED vars
  BY <1>13 DEF vars, IInv, TypeOK, NoDuplicateWake, NoLostWakeup, SendsOnce,
               UnbornUnknown, RunningIsLive, DeadIsEmpty, Queued
<1> QED
  BY <1>1, <1>2, <1>3, <1>4, <1>5, <1>6, <1>7, <1>8, <1>9, <1>10, <1>11, <1>12,
     <1>13 DEF Next

(* The initial state, with no task yet, satisfies the inductive invariant. *)
LEMMA Initially == Init => IInv
<1> SUFFICES ASSUME Init PROVE IInv OBVIOUS
<1>1. queue \in Seq(Task) /\ Elems(queue) = {} /\ Distinct(queue)
  BY DEF Init, Elems, Distinct
<1>2. TypeOK
  BY <1>1, ExecutorAssumption DEF Init, TypeOK, Relay, Relays, Futures
<1> QED
  BY <1>1, <1>2, ExecutorAssumption
  DEF Init, IInv, NoDuplicateWake, NoLostWakeup, SendsOnce, UnbornUnknown,
      RunningIsLive, DeadIsEmpty, Queued, Relay

(* The inductive invariant holds in every state of the executor, for any   *)
(* number of tasks.                                                        *)
THEOREM Invariance == Spec => []IInv
BY Initially, Inductive, PTL DEF Spec

(* Task::wake never enqueues a task that Executor::step has yet to poll.   *)
THEOREM NeverQueuedTwice == Spec => []NoDuplicateWake
<1>1. IInv => NoDuplicateWake BY DEF IInv
<1> QED BY <1>1, Invariance, PTL

(* The handshake of Receiver::poll and Sender::send loses no wake-up.      *)
THEOREM WakeupNotLost == Spec => []NoLostWakeup
<1>1. IInv => NoLostWakeup BY DEF IInv
<1> QED BY <1>1, Invariance, PTL

(* The unreachable!() arm of Sender::send is unreachable.                  *)
THEOREM SenderSendsOnce == Spec => []SendsOnce
<1>1. IInv => SendsOnce BY DEF IInv
<1> QED BY <1>1, Invariance, PTL

-----------------------------------------------------------------------------
(* Waking task t is a MakeReady step of the scheduler, or no step at all   *)
(* when the executor is gone.                                              *)
LEMMA WakeRefines ==
    ASSUME IInv, NEW t \in Task, queue' = Woken(queue, t),
           UNCHANGED <<alive, running>>
    PROVE  Sched!MakeReady(t) \/ UNCHANGED Sched!vars
<1>1. Elems(queue') = Elems(queue) \cup (IF alive THEN {t} ELSE {})
  BY WokenElems DEF IInv, TypeOK, NoDuplicateWake
<1> QED BY <1>1 DEF Sched!MakeReady, Sched!vars, Queued

(* Every step of the executor is a step of the scheduler or a stutter: the *)
(* FIFO queue is one way to choose among the tasks that are ready.         *)
LEMMA StepRefines == IInv /\ [Next]_vars => [Sched!Next]_(Sched!vars)
<1> SUFFICES ASSUME IInv, [Next]_vars PROVE [Sched!Next]_(Sched!vars)
  OBVIOUS
<1> USE ExecutorAssumption
<1>q. queue \in Seq(Task) /\ Distinct(queue)
  BY DEF IInv, TypeOK, NoDuplicateWake
<1>1. CASE StepStale \/ StepPoll
  <2>1. /\ Head(queue) \in Task
        /\ Elems(queue') = Elems(queue) \ {Head(queue)}
        /\ Elems(queue) = Elems(queue') \cup {Head(queue)}
    BY <1>1, <1>q, TailElems DEF StepStale, StepPoll
  <2>2. Sched!Pick(Head(queue))
    BY <1>1, <2>1 DEF StepStale, StepPoll, Sched!Pick, Queued
  <2> QED BY <2>1, <2>2 DEF Sched!Next
<1>2. CASE Pend
  <2>1. Sched!Finish BY <1>2 DEF Pend, Sched!Finish, Queued
  <2> QED BY <2>1 DEF Sched!Next
<1>3. CASE Complete
  <2>1. running \in Task /\ alive
    BY <1>3 DEF Complete, IInv, TypeOK, RunningIsLive
  <2>2. relay[running].st = "Polled" => relay[running].waker \in Task
    BY <2>1 DEF IInv, TypeOK, Relays
  <2>3. \/ Elems(queue') = Elems(queue)
        \/ \E t \in Task : Elems(queue') = Elems(queue) \cup {t}
    BY <1>3, <1>q, <2>1, <2>2, WokenElems DEF Complete, SentQueue
  <2>4. Sched!Finish BY <1>3, <2>1, <2>3 DEF Complete, Sched!Finish, Queued
  <2> QED BY <2>4 DEF Sched!Next
<1>4. CASE WakeSelf
  <2>1. running \in Task /\ queue' = Woken(queue, running)
        /\ UNCHANGED <<alive, running>>
    BY <1>4 DEF WakeSelf, IInv, TypeOK
  <2> QED BY <2>1, WakeRefines DEF Sched!Next
<1>5. CASE DropExecutor
  <2>1. Elems(queue') = {} BY <1>5 DEF DropExecutor, Elems
  <2>2. Sched!Close BY <1>5, <2>1 DEF DropExecutor, Sched!Close, Queued
  <2> QED BY <2>2 DEF Sched!Next
<1>6. ASSUME NEW t \in Task, Spawn(t) PROVE [Sched!Next]_(Sched!vars)
  <2>1. Elems(queue') = Elems(queue) \cup {t}
    BY <1>6, <1>q, AppendElems DEF Spawn
  <2>2. Sched!MakeReady(t) BY <1>6, <2>1 DEF Spawn, Sched!MakeReady, Queued
  <2> QED BY <2>2 DEF Sched!Next
<1>7. ASSUME NEW t \in Task, Wake(t) PROVE [Sched!Next]_(Sched!vars)
  <2>1. queue' = Woken(queue, t) /\ UNCHANGED <<alive, running>>
    BY <1>7 DEF Wake
  <2> QED BY <2>1, WakeRefines DEF Sched!Next
<1>8. ASSUME UNCHANGED <<alive, queue, running>>
      PROVE  [Sched!Next]_(Sched!vars)
  BY <1>8 DEF Sched!vars, Queued
<1>9. CASE CloneWaker BY <1>8, <1>9 DEF CloneWaker
<1>10. ASSUME NEW t \in Task,
              ReceiverPoll(t) \/ TryReceive(t) \/ DropReceiver(t) \/ DropWaker(t)
       PROVE  [Sched!Next]_(Sched!vars)
  BY <1>8, <1>10 DEF ReceiverPoll, TryReceive, DropReceiver, DropWaker
<1>11. CASE UNCHANGED vars BY <1>8, <1>11 DEF vars
<1> QED
  BY <1>1, <1>2, <1>3, <1>4, <1>5, <1>6, <1>7, <1>9, <1>10, <1>11 DEF Next

(* Executor::step and Task::wake implement the abstract scheduler (its     *)
(* safety part; freedom from starvation is checked by TLC).                *)
THEOREM SchedulerRefinement == Spec => Sched!Spec
<1>1. Init => Sched!Init BY DEF Init, Sched!Init, Queued, Elems
<1> QED BY <1>1, Invariance, StepRefines, PTL DEF Spec, Sched!Spec

(* A completed task never gets its future back, and a relay whose value    *)
(* was received, or whose receiver is gone, is never filled again.         *)
THEOREM NothingResurrected == Spec => NoResurrection
<1> DEFINE Kept(t) ==
        /\ future[t] = "none" => future'[t] = "none"
        /\ relay[t].st \in {"Done", "Dropped"} /\ future[t] # "unborn"
              => relay'[t].st \in {"Done", "Dropped"}
<1>1. ASSUME IInv, [Next]_vars, NEW t \in Task PROVE Kept(t)
  <2> USE ExecutorAssumption
  <2>0. TypeOK /\ RunningIsLive /\ SendsOnce BY <1>1 DEF IInv
  <2>1. CASE Complete
    <3>1. running \in Task /\ future[running] = "some"
      BY <2>0, <2>1 DEF Complete, TypeOK, RunningIsLive
    <3> QED BY <2>0, <2>1, <3>1 DEF Complete, TypeOK, SentRelay, Relay, SendsOnce
  <2>2. ASSUME NEW u \in Task, Spawn(u) PROVE Kept(t)
    BY <2>0, <2>2 DEF Spawn, TypeOK, Relay
  <2>3. ASSUME NEW r \in Task,
               ReceiverPoll(r) \/ TryReceive(r) \/ DropReceiver(r) PROVE Kept(t)
    <3>1. future' = future
      BY <2>3 DEF ReceiverPoll, TryReceive, DropReceiver
    <3>2. \/ t # r /\ relay'[t] = relay[t]
          \/ t = r /\ relay[t].st \in {"Pending", "Polled"}
          \/ t = r /\ relay'[t] \in {Relay("Done"), Relay("Dropped")}
      BY <2>0, <2>3 DEF ReceiverPoll, TryReceive, DropReceiver, TypeOK
    <3> QED BY <3>1, <3>2 DEF Relay
  <2>4. CASE UNCHANGED <<future, relay>> BY <2>4
  <2>5. ASSUME NEW u \in Task, Wake(u) \/ DropWaker(u) PROVE Kept(t)
    BY <2>4, <2>5 DEF Wake, DropWaker
  <2>6. CASE \/ StepStale \/ StepPoll \/ Pend \/ CloneWaker \/ WakeSelf
             \/ DropExecutor \/ UNCHANGED vars
    BY <2>4, <2>6
    DEF StepStale, StepPoll, Pend, CloneWaker, WakeSelf, DropExecutor, vars
  <2> QED BY <1>1, <2>1, <2>2, <2>3, <2>5, <2>6 DEF Next
<1>2. IInv /\ [Next]_vars => [\A t \in Task : Kept(t)]_vars
  BY <1>1
<1> QED BY <1>2, Invariance, PTL DEF Spec, NoResurrection
-----------------------------------------------------------------------------
(* Interruptible: the futures that select polls in turn for a built-in,    *)
(* for any set of signals with SIGINT in it.                               *)

(* A list that is not filled, fresh or absent, holds no signals.           *)
LEMMA ListFields ==
    ASSUME NEW L \in Lists
    PROVE  /\ L.signals \in SUBSET Signal
           /\ L.st # "filled" => L.signals = {}
           /\ L.st # "filled" => L \in {NoList, OpenList}
BY DEF Lists, List, NoList, OpenList

(* The absent and the fresh SignalList.                                    *)
LEMMA FixedLists ==
    /\ NoList \in Lists /\ NoList.signals = {} /\ NoList.st = "none"
    /\ OpenList \in Lists /\ OpenList.signals = {} /\ OpenList.st = "open"
BY DEF Lists, List, NoList, OpenList

(* The SignalList as select_impl leaves it.                                *)
LEMMA FilledList ==
    ASSUME NEW S \in SUBSET Signal
    PROVE  /\ List("filled", S) \in Lists
           /\ List("filled", S).signals = S
           /\ List("filled", S).st = "filled"
BY DEF Lists, List

(* What handling a set of signals does to the counts.                      *)
LEMMA ActedCounts ==
    ASSUME BTypeOK, NEW S \in SUBSET Signal
    PROVE  /\ Acted(S) \in [Signal -> 0..2]
           /\ \A s \in S : Acted(S)[s] > 0
           /\ \A s \in S : handled[s] = 0 => Acted(S)[s] = 1
           /\ \A s \in Signal \ S : Acted(S)[s] = handled[s]
<1>1. handled \in [Signal -> 0..2]
  BY DEF BTypeOK
<1>2. \A s \in Signal : handled[s] \in 0..2
  BY <1>1
<1>3. Acted(S) = [s \in Signal |-> IF s \in S /\ handled[s] < 2 THEN handled[s] + 1 ELSE handled[s]]
  BY DEF Acted
<1>4. ASSUME NEW s \in Signal
      PROVE  /\ Acted(S)[s] \in 0..2
             /\ s \in S => Acted(S)[s] > 0 /\ (handled[s] = 0 => Acted(S)[s] = 1)
             /\ s \notin S => Acted(S)[s] = handled[s]
  <2>1. Acted(S)[s] = IF s \in S /\ handled[s] < 2 THEN handled[s] + 1 ELSE handled[s]
    BY <1>3
  <2> QED
    BY <1>2, <2>1
<1>5. Acted(S) \in [Signal -> 0..2]
  <2>1. \A s \in Signal : Acted(S)[s] \in 0..2
    BY <1>4
  <2> QED
    BY <1>3, <2>1
<1> QED
  BY <1>4, <1>5

(* The invariant holds when the shell starts.                              *)
THEOREM BInitially == BInit => BIInv
<1> SUFFICES ASSUME BInit PROVE BIInv
  OBVIOUS
<1>0. /\ turn = "shell" /\ nested = FALSE
      /\ mine = NoList /\ inner = NoList
      /\ caught = {} /\ pending = {} /\ arrived = {} /\ sent = {}
      /\ handled = [s \in Signal |-> 0]
  BY DEF BInit
<1>1. /\ handled \in [Signal -> 0..2]
      /\ \A s \in Signal : handled[s] <= 1 /\ ~(handled[s] > 0)
  BY <1>0
<1>2. BTypeOK
  BY <1>0, <1>1, FixedLists DEF BTypeOK
<1>3. ListsInTurn
  BY <1>0, FixedLists DEF ListsInTurn
<1>4. Held = {}
  BY <1>0, FixedLists DEF Held
<1>5. OnePlace
  BY <1>0, <1>1, <1>4, FixedLists DEF OnePlace
<1>6. HandledOnce
  BY <1>1 DEF HandledOnce
<1> QED
  BY <1>0, <1>2, <1>3, <1>5, <1>6 DEF BIInv

(* BIInv is preserved by every step.                                        *)
THEOREM BInductive == BIInv /\ [BNext]_bvars => BIInv'
<1> SUFFICES ASSUME BIInv, [BNext]_bvars PROVE BIInv'
  OBVIOUS
<1>t. BTypeOK
  BY DEF BIInv
<1>l. /\ mine.signals \in SUBSET Signal /\ inner.signals \in SUBSET Signal
      /\ mine.st # "filled" => mine.signals = {}
      /\ inner.st # "filled" => inner.signals = {}
  BY <1>t, ListFields DEF BTypeOK
<1> USE InterruptibleAssumption, FixedLists DEF BIInv, BTypeOK, ListsInTurn
<1>1. CASE Call
  BY <1>1, <1>l DEF Call, OnePlace, HandledOnce, Held
<1>2. CASE BuiltinReady
  BY <1>2, <1>l DEF BuiltinReady, Return, OnePlace, HandledOnce, Held
<1>3. CASE BuiltinPends
  BY <1>3, <1>l DEF BuiltinPends, OnePlace, HandledOnce, Held
<1>4. CASE InnerWait
  BY <1>4, <1>l DEF InnerWait
<1>5. CASE InnerCatch
  BY <1>5, <1>l DEF InnerCatch
<1>6. CASE RunTraps
  <2>1. /\ handled' \in [Signal -> 0..2]
        /\ \A s \in pending : handled[s] = 0 => handled'[s] = 1
        /\ \A s \in Signal \ pending : handled'[s] = handled[s]
        /\ \A s \in pending : handled'[s] > 0
    BY <1>6, <1>t, ActedCounts DEF RunTraps
  <2>2. BTypeOK' /\ ListsInTurn'
    BY <1>6, <2>1 DEF RunTraps
  <2>3. ASSUME ~nested PROVE OnePlace' /\ HandledOnce' /\ inner' = NoList
    BY <1>6, <1>l, <2>1, <2>3 DEF RunTraps, OnePlace, HandledOnce, Held
  <2> QED
    BY <1>6, <2>2, <2>3 DEF RunTraps
<1>7. CASE PollSignals
  <2> DEFINE S == arrived \cap {SIGINT}
  <2>1. /\ handled' \in [Signal -> 0..2]
        /\ \A s \in S : handled[s] = 0 => handled'[s] = 1
        /\ \A s \in Signal \ S : handled'[s] = handled[s]
        /\ \A s \in S : handled'[s] > 0
    <3>1. S \in SUBSET Signal
      OBVIOUS
    <3>2. handled' = Acted(S)
      BY <1>7 DEF PollSignals
    <3> HIDE DEF S
    <3> QED
      BY <3>1, <3>2, <1>t, ActedCounts
  <2>2. BTypeOK' /\ ListsInTurn'
    BY <1>7, <2>1 DEF PollSignals
  <2>3. ASSUME ~nested PROVE OnePlace' /\ HandledOnce' /\ inner' = NoList
    <3>1. /\ mine.signals = {} /\ inner.signals = {} /\ caught = {}
          /\ pending' = pending \cup (arrived \ {SIGINT}) /\ arrived' = {}
          /\ UNCHANGED <<turn, mine, inner, caught, sent, nested>>
      BY <1>7, <1>l DEF PollSignals
    <3>2. Held' = pending' /\ Held = pending \cup arrived
      BY <3>1 DEF Held
    <3>3. \A s \in Held' : s \notin S
      BY <2>3, <3>1, <3>2 DEF OnePlace
    <3>4. OnePlace'
      BY <2>1, <2>3, <3>1, <3>2, <3>3 DEF OnePlace
    <3>5. HandledOnce'
      BY <2>1, <2>3, <3>2 DEF OnePlace, HandledOnce
    <3> QED
      BY <2>3, <3>1, <3>4, <3>5
  <2> QED
    BY <1>7, <2>2, <2>3 DEF PollSignals
<1>8. CASE SigintPends
  BY <1>8, <1>l DEF SigintPends, OnePlace, HandledOnce, Held
<1>9. CASE SigintAgain
  BY <1>9, <1>l DEF SigintAgain, OnePlace, HandledOnce, Held
<1>10. CASE Interrupt
  <2>1. /\ handled' \in [Signal -> 0..2]
        /\ handled[SIGINT] = 0 => handled'[SIGINT] = 1
        /\ \A s \in Signal \ {SIGINT} : handled'[s] = handled[s]
        /\ handled'[SIGINT] > 0
    BY <1>10, <1>t, ActedCounts DEF Interrupt
  <2>2. BTypeOK' /\ ListsInTurn'
    BY <1>10, <1>l, <2>1 DEF Interrupt
  <2>3. ASSUME ~nested PROVE OnePlace' /\ HandledOnce' /\ inner' = NoList
    <3>1. /\ SIGINT \in mine.signals /\ inner.signals = {}
          /\ pending' = pending \cup ((caught \cup mine.signals) \ {SIGINT})
          /\ mine' = NoList /\ inner' = NoList /\ caught' = {}
          /\ UNCHANGED <<arrived, sent, nested>>
      BY <1>10, <1>l DEF Interrupt
    <3>2. Held' = arrived \cup pending' /\ Held = arrived \cup mine.signals \cup caught \cup pending
      BY <3>1 DEF Held
    <3>3. SIGINT \notin Held' /\ Held' \subseteq Held /\ SIGINT \in Held
      BY <2>3, <3>1, <3>2 DEF OnePlace
    <3>4. OnePlace'
      BY <2>1, <2>3, <3>1, <3>2, <3>3 DEF OnePlace
    <3>5. HandledOnce'
      BY <2>1, <2>3, <3>3 DEF OnePlace, HandledOnce
    <3> QED
      BY <3>1, <3>4, <3>5
  <2> QED
    BY <1>10, <2>2, <2>3 DEF Interrupt
<1>11. CASE SelectReturns
  <2>1. CASE UNCHANGED <<mine, inner, arrived>>
    BY <1>11, <1>l, <2>1 DEF SelectReturns, OnePlace, HandledOnce, Held
  <2>2. CASE ~UNCHANGED <<mine, inner, arrived>>
    <3>1. /\ mine' = List("filled", arrived)
          /\ inner' = IF inner = OpenList THEN List("filled", arrived) ELSE inner
          /\ arrived' = {}
          /\ turn = "select" /\ turn' = "builtin"
          /\ UNCHANGED <<caught, pending, sent, handled, nested>>
      BY <1>11, <2>2 DEF SelectReturns
    <3>2. mine' \in Lists /\ mine'.signals = arrived
      BY <3>1, FilledList
    <3>3. inner' \in Lists /\ inner'.signals \subseteq mine'.signals
      <4>1. CASE inner = OpenList
        BY <3>1, <3>2, <4>1
      <4>2. CASE inner # OpenList
        BY <1>l, <3>1, <3>2, <4>2
      <4> QED
        BY <4>1, <4>2
    <3>4. BTypeOK' /\ ListsInTurn'
      BY <3>1, <3>2, <3>3
    <3>5. ASSUME ~nested PROVE OnePlace' /\ HandledOnce' /\ inner' = NoList
      <4>1. inner = NoList /\ inner' = NoList
        BY <3>1, <3>5
      <4> QED
        BY <1>l, <3>1, <3>2, <3>5, <4>1 DEF OnePlace, HandledOnce, Held
    <3> QED
      BY <3>1, <3>4, <3>5
  <2> QED
    BY <2>1, <2>2
<1>12. ASSUME NEW s \in Signal, Arrive(s) PROVE BIInv'
  BY <1>12, <1>l DEF Arrive, OnePlace, HandledOnce, Held
<1>13. CASE UNCHANGED bvars
  BY <1>13, <1>l DEF bvars, OnePlace, HandledOnce, Held
<1> QED
  BY <1>1, <1>2, <1>3, <1>4, <1>5, <1>6, <1>7, <1>8, <1>9, <1>10, <1>11, <1>12, <1>13
     DEF BNext

(* The inductive invariant holds in every state.                           *)
THEOREM BInvariance == BSpec => []BIInv
BY BInitially, BInductive, PTL DEF BSpec

(* "To prevent double-processing": as long as no built-in waits for        *)
(* signals behind the back of execute_builtin, none is handled twice.      *)
THEOREM NotHandledTwice == BSpec => []OnceUnlessNested
<1>1. BIInv => OnceUnlessNested
  BY DEF BIInv, OnceUnlessNested
<1> QED
  BY <1>1, BInvariance, PTL

(* A signal vanishes unhandled in one way only: the built-in completes     *)
(* when select has filled the list and sigint_fut has not yet read it.     *)
THEOREM OnlyLossWindow == BSpec => LossWindow
<1> DEFINE Passes ==
      \A s \in Held :
          \/ s \in Held' \/ handled'[s] > 0
          \/ turn = "builtin" /\ s \in mine.signals
<1>1. ASSUME BIInv, [BNext]_bvars PROVE [Passes]_bvars
  <2> SUFFICES ASSUME BNext, NEW s \in Held
               PROVE  \/ s \in Held' \/ handled'[s] > 0
                      \/ turn = "builtin" /\ s \in mine.signals
    BY <1>1
  <2>t. BTypeOK /\ ListsInTurn
    BY <1>1 DEF BIInv
  <2>l. /\ mine.signals \in SUBSET Signal /\ inner.signals \in SUBSET Signal
        /\ mine.st # "filled" => mine.signals = {}
        /\ inner.st # "filled" => inner.signals = {}
    BY <2>t, ListFields DEF BTypeOK
  <2> USE FixedLists DEF ListsInTurn
  <2>1. CASE Call \/ BuiltinPends \/ \E u \in Signal : Arrive(u)
    BY <2>1 DEF Call, BuiltinPends, Arrive, Held
  <2>2. CASE BuiltinReady
    BY <2>2, <2>t, <2>l DEF BuiltinReady, Return, Held
  <2>3. CASE InnerWait \/ InnerCatch
    BY <2>3, <2>t, <2>l DEF InnerWait, InnerCatch, Held
  <2>4. CASE RunTraps
    <3>1. \A u \in pending : handled'[u] > 0
      BY <2>4, <2>t, ActedCounts DEF RunTraps, BTypeOK
    <3> QED
      BY <2>4, <3>1 DEF RunTraps, Held
  <2>5. CASE PollSignals
    <3>1. ASSUME SIGINT \in arrived PROVE handled'[SIGINT] > 0
      <4>1. {SIGINT} \in SUBSET Signal
        BY InterruptibleAssumption
      <4>2. arrived \cap {SIGINT} = {SIGINT}
        BY <3>1
      <4>3. handled' = Acted({SIGINT})
        BY <2>5, <4>2 DEF PollSignals
      <4> QED
        BY <2>t, <4>1, <4>3, ActedCounts
    <3> QED
      BY <2>5, <3>1 DEF PollSignals, Held
  <2>6. CASE SigintPends \/ SigintAgain
    BY <2>6, <2>t, <2>l DEF SigintPends, SigintAgain, Held
  <2>7. CASE Interrupt
    <3>1. handled'[SIGINT] > 0
      BY <2>7, <2>t, ActedCounts, InterruptibleAssumption DEF Interrupt
    <3> QED
      BY <2>7, <2>t, <2>l, <3>1 DEF Interrupt, Held
  <2>8. CASE SelectReturns
    <3>1. mine' = List("filled", arrived) => mine'.signals = arrived
      BY <2>t, FilledList DEF BTypeOK
    <3> QED
      BY <2>8, <2>t, <2>l, <3>1 DEF SelectReturns, Held
  <2> QED
    BY <2>1, <2>2, <2>3, <2>4, <2>5, <2>6, <2>7, <2>8 DEF BNext
<1> QED
  BY <1>1, BInvariance, PTL DEF BSpec, LossWindow


-----------------------------------------------------------------------------
(***************************************************************************)
(* The names of commands.                                                  *)
(***************************************************************************)

\* A set of positions that is not empty has a first one.
LEMMA FirstOf ==
    ASSUME NEW X, X \subseteq Nat, X # {}
    PROVE  \E x \in X : \A y \in X : x <= y
<1> DEFINE Less == OpToRel(<, Nat)
<1>1. IsWellFoundedOn(Less, Nat) BY NatLessThanWellFounded
<1>2. \A x, y \in Nat : y < x => <<y, x>> \in Less BY DEF OpToRel
<1> HIDE DEF Less
<1>3. PICK x \in X : \A y \in X : ~ (<<y, x>> \in Less) BY <1>1, WFMin
<1>4. ASSUME NEW y \in X PROVE x <= y
  <2>1. x \in Nat /\ y \in Nat OBVIOUS
  <2>2. ~ (y < x) BY <1>2, <1>3, <2>1
  <2> QED BY <2>1, <2>2
<1> QED BY <1>4

\* The kernel's way with a path that is relative.
Located2(e, p) ==
    ~ p.abs => /\ Place(e, Within(Dot, p)) = Place(e, p)
               /\ e.pwd # EmptyPath => Place(e, Within(e.pwd, p)) = Place(e, p)

\* The fields of a shell.
ShellFields(e) ==
    /\ e.kind \in {"None", "Special", "Mandatory", "Elective", "Extension", "Substitutive"}
    /\ e.function \in BOOLEAN /\ e.posix \in BOOLEAN /\ e.words \subseteq {"Alias", "Keyword"}
    /\ e.files \in [DOMAIN e.files -> {"binary", "script", "plain"}]
    /\ e.pwd \in Paths /\ (e.pwd = EmptyPath \/ e.pwd.abs)
    /\ e.path \in Seq(Paths) /\ e.stdpath \in Seq(Paths)

\* What is known of a shell and a name that is looked up in it.
LookedUp(name, e) ==
    /\ ShellFields(e) /\ name \in Paths /\ name.comps # << >> /\ Dot \in Paths /\ "." \notin DashNames
    /\ Located2(e, name)
    /\ \A k \in DOMAIN e.path : Located2(e, Within(e.path[k], name))
    /\ \A k \in DOMAIN e.stdpath : Located2(e, Within(e.stdpath[k], name))

\* PATH is a sequence of paths.
LEMMA ShellIs ==
    ASSUME NEW e, ShellFields(e)
    PROVE  /\ e.kind \in {"None", "Special", "Mandatory", "Elective", "Extension", "Substitutive"}
           /\ e.function \in BOOLEAN /\ e.posix \in BOOLEAN /\ e.words \subseteq {"Alias", "Keyword"}
           /\ e.files \in [DOMAIN e.files -> {"binary", "script", "plain"}]
           /\ e.pwd \in Paths /\ (e.pwd = EmptyPath \/ e.pwd.abs)
           /\ e.path \in Seq(Paths) /\ e.stdpath \in Seq(Paths)
           /\ DOMAIN e.path = 1..Len(e.path) /\ Len(e.path) \in Nat
           /\ \A k \in DOMAIN e.path : e.path[k] \in Paths
<1>1. e.path \in Seq(Paths) BY DEF ShellFields
<1>2. DOMAIN e.path = 1..Len(e.path) /\ Len(e.path) \in Nat BY <1>1, LenProperties
<1>3. \A k \in DOMAIN e.path : e.path[k] \in Paths BY <1>1, <1>2, ElementOfSeq
<1> QED BY <1>2, <1>3 DEF ShellFields

\* A name in a directory.
LEMMA WithinIs ==
    ASSUME NEW d \in Paths, NEW n \in Paths, n.comps # << >>
    PROVE  /\ Within(d, n) \in Paths /\ Within(d, n).comps # << >> /\ Within(d, n) # EmptyPath
           /\ Within(d, n).abs = d.abs
<1>1. PICK c : c = d.comps \o n.comps OBVIOUS
<1>2. d.comps \in Seq(STRING) /\ n.comps \in Seq(STRING) /\ d.abs \in BOOLEAN BY DEF Paths
<1>3. c \in Seq(STRING) /\ Len(c) = Len(d.comps) + Len(n.comps) BY <1>1, <1>2, ConcatProperties
<1>4. Len(d.comps) \in Nat /\ Len(n.comps) \in Nat /\ Len(n.comps) # 0 BY <1>2, LenProperties, EmptySeq
<1>5. c # << >>
  <2>1. PICK k, l, m : k = Len(c) /\ l = Len(d.comps) /\ m = Len(n.comps) OBVIOUS
  <2>2. k = l + m /\ l \in Nat /\ m \in Nat /\ m # 0 BY <1>3, <1>4, <2>1
  <2>3. k # 0 BY <2>2
  <2>4. Len(c) # 0 BY <2>1, <2>3
  <2> QED BY <1>3, <2>4, EmptySeq
<1>6. Within(d, n) = [abs |-> d.abs, comps |-> c] BY <1>1 DEF Within, Path
<1>7. Within(d, n) \in Paths /\ Within(d, n).comps = c /\ Within(d, n).abs = d.abs
  BY <1>2, <1>3, <1>6 DEF Paths
<1>8. EmptyPath.comps = << >> BY DEF EmptyPath, Path
<1> QED BY <1>5, <1>7, <1>8

\* A dot in front of a path hides a hyphen.
LEMMA DotHides ==
    ASSUME NEW p \in Paths, Dot \in Paths
    PROVE  Within(Dot, p).comps[1] = "." /\ ~ Within(Dot, p).abs
<1>1. p.comps \in Seq(STRING) /\ Len(p.comps) \in Nat BY LenProperties DEF Paths
<1>2. <<".">> \in Seq(STRING) /\ Len(<<".">>) = 1 BY DEF Paths, Dot, Path
<1>3. PICK c : c = <<".">> \o p.comps OBVIOUS
<1>4. Len(c) = 1 + Len(p.comps) /\ c[1] = <<".">>[1]
  <2>1. 1 \in 1..Len(<<".">>) BY <1>2
  <2> QED BY <1>1, <1>2, <1>3, <2>1, ConcatProperties
<1>5. Within(Dot, p) = [abs |-> FALSE, comps |-> c] BY <1>3 DEF Within, Dot, Path
<1> QED BY <1>4, <1>5

\* What becomes of the process when a path is executed.
LEMMA ReplaceIs ==
    ASSUME NEW e, NEW p \in Paths, Dot \in Paths, "." \notin DashNames, Located2(e, p)
    PROVE  ReplaceCurrentProcess(e, p) =
             IF IsExecutableFile(e, p) THEN RanFile(Place(e, p))
             ELSE RanNothing(IF FileAt(e, p) = "missing" THEN 127 ELSE 126)
<1>1. CASE FileAt(e, p) = "binary" BY <1>1 DEF ReplaceCurrentProcess, IsExecutableFile
<1>2. CASE FileAt(e, p) = "script"
  <2>1. p.abs \in BOOLEAN BY DEF Paths
  <2>2. ~ (AsOperand(p).comps[1] \in DashNames /\ ~ p.abs) BY <2>1, DotHides DEF AsOperand
  <2>3. Place(e, AsOperand(p)) = Place(e, p) BY <2>1 DEF AsOperand, Located2
  <2> QED BY <1>2, <2>2, <2>3 DEF ReplaceCurrentProcess, IsExecutableFile
<1>3. CASE FileAt(e, p) \notin {"binary", "script"} BY <1>3 DEF ReplaceCurrentProcess, IsExecutableFile
<1> QED BY <1>1, <1>2, <1>3

\* The places of PATH where the name is that of an executable file.
Found(name, e) == {k \in DOMAIN e.path : IsExecutableFile(e, Within(e.path[k], name))}

\* What the search of PATH finds.
LEMMA SearchPathIs ==
    ASSUME NEW name, NEW e, LookedUp(name, e)
    PROVE  /\ Found(name, e) = {} => SearchPath(name, e) = EmptyPath
           /\ Found(name, e) # {} =>
                 \E k \in Found(name, e) :
                    /\ \A j \in Found(name, e) : k <= j
                    /\ SearchPath(name, e) = Within(e.path[k], name)
                    /\ SearchPath(name, e) # EmptyPath
<1>1. PICK X : X = Found(name, e) OBVIOUS
<1>2. SearchPath(name, e) = IF X = {} THEN EmptyPath
                            ELSE Within(e.path[CHOOSE k \in X : \A j \in X : k <= j], name)
  BY <1>1 DEF SearchPath, Found
<1>3. ASSUME X # {}
      PROVE  \E k \in X : /\ \A j \in X : k <= j
                          /\ SearchPath(name, e) = Within(e.path[k], name)
                          /\ SearchPath(name, e) # EmptyPath
  <2>1. X \subseteq Nat /\ \A k \in X : k \in DOMAIN e.path BY <1>1, ShellIs DEF LookedUp, Found
  <2>2. \E k \in X : \A j \in X : k <= j BY <1>3, <2>1, FirstOf
  <2>3. PICK k : k = CHOOSE i \in X : \A j \in X : i <= j OBVIOUS
  <2>4. k \in X /\ \A j \in X : k <= j BY <2>2, <2>3
  <2>5. SearchPath(name, e) = Within(e.path[k], name) BY <1>2, <1>3, <2>3
  <2>6. e.path[k] \in Paths BY <2>1, <2>4, ShellIs DEF LookedUp
  <2>7. Within(e.path[k], name) # EmptyPath BY <2>6, WithinIs DEF LookedUp
  <2> QED BY <2>4, <2>5, <2>7
<1> QED BY <1>1, <1>2, <1>3

\* What the shell runs when nothing comes between the search and the execution.
Outcome(name, e) ==
    LET target == Classify(name, e).target
    IN  IF target = "Builtin" THEN ExecuteBuiltin(name, e)
        ELSE IF target = "Function" THEN RanFunction ELSE RunExternal(name, e)

\* The targets.
LEMMA ClassifyIs ==
    ASSUME NEW name, NEW e
    PROVE  Classify(name, e).target =
             IF Slashed(name) THEN "External"
             ELSE IF Builtin(e) = "Special" THEN "Builtin"
             ELSE IF e.function THEN "Function"
             ELSE IF Builtin(e) # "None" THEN "Builtin" ELSE "External"
BY DEF Classify, Target

\* The bearer that comes first gives the meaning.
LEMMA FirstBearer ==
    ASSUME NEW name, NEW e, NEW b \in Bearers(name, e), b[1] \in Int,
           \A c \in Bearers(name, e) : c[1] \in Int /\ b[1] <= c[1] /\ (c[1] = b[1] => c[2] = b[2])
    PROVE  MeaningOf(name, e) = b[2]
<1>1. PICK B : B = Bearers(name, e) OBVIOUS
<1>2. PICK x : x = CHOOSE y \in B : \A c \in B : y[1] <= c[1] OBVIOUS
<1>3. x \in B /\ \A c \in B : x[1] <= c[1] BY <1>1, <1>2
<1>4. x[1] = b[1] BY <1>1, <1>3
<1>5. x[2] = b[2] BY <1>1, <1>3, <1>4
<1> QED BY <1>1, <1>2, <1>5 DEF MeaningOf

\* What has a name with a slash.
LEMMA SlashedMeans ==
    ASSUME NEW name, NEW e, LookedUp(name, e), Slashed(name)
    PROVE  MeaningOf(name, e) = RunExternal(name, e)
<1>1. PICK f : f = Place(e, name) OBVIOUS
<1>2. PICK fs : fs = <<f>> OBVIOUS
<1>3. FilesNamed(name, e) = fs /\ DOMAIN fs = {1} /\ fs[1] = f /\ Len(fs) = 1
  BY <1>1, <1>2 DEF FilesNamed
<1>4. PICK n : n = RanNothing(IF f \in DOMAIN e.files THEN 126 ELSE 127) OBVIOUS
<1>5. PICK present : present = {k \in DOMAIN fs : fs[k] \in DOMAIN e.files} OBVIOUS
<1>6. PICK exec : exec = {k \in present : e.files[fs[k]] \in {"binary", "script"}} OBVIOUS
<1>7. present # {} <=> f \in DOMAIN e.files BY <1>3, <1>5
<1>8. exec = (IF IsExecutableFile(e, name) THEN {1} ELSE {})
  <2>1. \A k : k \in exec <=> k = 1 /\ f \in DOMAIN e.files /\ e.files[f] \in {"binary", "script"}
    BY <1>3, <1>5, <1>6
  <2>2. IsExecutableFile(e, name) <=> f \in DOMAIN e.files /\ e.files[f] \in {"binary", "script"}
    BY <1>1 DEF IsExecutableFile, FileAt
  <2> QED BY <2>1, <2>2
<1>9. Bearers(name, e) = {<<2 + k, RanFile(fs[k])>> : k \in exec} \cup {<<4, n>>}
  <2>1. Bearers(name, e) =
          {<<0, RanBuiltin>> : b \in {}} \cup {<<1, RanFunction>> : b \in {}}
            \cup {<<2, RanBuiltin>> : b \in {}} \cup {<<2 + k, RanFile(fs[k])>> : k \in exec}
            \cup {<<3 + Len(fs), RanNothing(IF present # {} THEN 126 ELSE 127)>>}
    BY <1>3, <1>5, <1>6 DEF Bearers
  <2>2. 3 + Len(fs) = 4 /\ n = RanNothing(IF present # {} THEN 126 ELSE 127) BY <1>3, <1>4, <1>7
  <2> QED BY <2>1, <2>2
<1>10. ReplaceCurrentProcess(e, name) = RunExternal(name, e)
  <2>1. name # EmptyPath BY DEF LookedUp, EmptyPath, Path
  <2> QED BY <2>1 DEF RunExternal
<1>11. ReplaceCurrentProcess(e, name) =
         IF IsExecutableFile(e, name) THEN RanFile(f)
         ELSE RanNothing(IF FileAt(e, name) = "missing" THEN 127 ELSE 126)
  BY <1>1, ReplaceIs DEF LookedUp
<1>12. CASE IsExecutableFile(e, name)
  <2>1. Bearers(name, e) = {<<3, RanFile(f)>>, <<4, n>>} BY <1>3, <1>8, <1>9, <1>12
  <2>2. PICK b : b = <<3, RanFile(f)>> OBVIOUS
  <2>3. b \in Bearers(name, e) /\ b[1] = 3 /\ b[2] = RanFile(f) BY <2>1, <2>2
  <2>4. \A c \in Bearers(name, e) : c[1] \in Int /\ 3 <= c[1] /\ (c[1] = 3 => c[2] = RanFile(f))
    BY <2>1
  <2>5. MeaningOf(name, e) = RanFile(f) BY <2>3, <2>4, FirstBearer
  <2> QED BY <1>10, <1>11, <1>12, <2>5
<1>13. CASE ~ IsExecutableFile(e, name)
  <2>1. Bearers(name, e) = {<<4, n>>} BY <1>8, <1>9, <1>13
  <2>2. PICK b : b = <<4, n>> OBVIOUS
  <2>3. b \in Bearers(name, e) /\ b[1] = 4 /\ b[2] = n BY <2>1, <2>2
  <2>4. \A c \in Bearers(name, e) : c[1] \in Int /\ 4 <= c[1] /\ (c[1] = 4 => c[2] = n) BY <2>1
  <2>5. MeaningOf(name, e) = n BY <2>3, <2>4, FirstBearer
  <2>6. FileAt(e, name) = "missing" <=> f \notin DOMAIN e.files
    <3>1. f \in DOMAIN e.files => e.files[f] \in {"binary", "script", "plain"} BY ShellIs DEF LookedUp
    <3> QED BY <1>1, <3>1 DEF FileAt
  <2> QED BY <1>4, <1>10, <1>11, <1>13, <2>5, <2>6
<1> QED BY <1>12, <1>13

\* Everything that has a name without a slash.
Absent(e) == e.kind = "None" \/ (e.kind = "Extension" /\ e.posix)

LEMMA BearersAre ==
    ASSUME NEW name, NEW e, LookedUp(name, e), ~ Slashed(name), NEW c
    PROVE  c \in Bearers(name, e) <=>
             \/ c = <<0, RanBuiltin>> /\ e.kind = "Special"
             \/ c = <<1, RanFunction>> /\ e.function
             \/ /\ c = <<2, RanBuiltin>> /\ ~ Absent(e)
                /\ ~ (e.kind = "Substitutive" /\ Found(name, e) = {})
             \/ \E k \in Found(name, e) : c = <<2 + k, RanFile(Place(e, Within(e.path[k], name)))>>
             \/ c = <<3 + Len(e.path), RanNothing(127)>>
<1>1. PICK n : n = Len(e.path) OBVIOUS
<1>2. n \in Nat /\ DOMAIN e.path = 1..n BY <1>1, ShellIs DEF LookedUp
<1>3. PICK fs : fs = [k \in 1..n |-> Place(e, Within(e.path[k], name))] OBVIOUS
<1>4. DOMAIN fs = 1..n /\ \A k \in 1..n : fs[k] = Place(e, Within(e.path[k], name)) BY <1>3
<1>5. FilesNamed(name, e) = fs BY <1>2, <1>3 DEF FilesNamed
<1>6. Len(fs) = n
  <2>1. PICK S : S = {fs[k] : k \in 1..n} OBVIOUS
  <2>2. fs \in [1..n -> S] BY <1>3, <1>4, <2>1
  <2>3. fs \in Seq(S) BY <1>2, <2>2, SeqDef
  <2>4. Len(fs) \in Nat /\ DOMAIN fs = 1..Len(fs) BY <2>3, LenProperties
  <2> QED BY <1>2, <1>4, <2>4
<1>7. PICK present : present = {k \in DOMAIN fs : fs[k] \in DOMAIN e.files} OBVIOUS
<1>8. PICK exec : exec = {k \in present : e.files[fs[k]] \in {"binary", "script"}} OBVIOUS
<1>9. exec = Found(name, e)
  <2>1. ASSUME NEW k PROVE k \in exec <=> k \in Found(name, e)
    <3>1. k \in exec <=> k \in 1..n /\ fs[k] \in DOMAIN e.files /\ e.files[fs[k]] \in {"binary", "script"}
      BY <1>4, <1>7, <1>8
    <3>2. k \in Found(name, e) <=> k \in 1..n /\ IsExecutableFile(e, Within(e.path[k], name))
      BY <1>2 DEF Found
    <3>3. ASSUME k \in 1..n
          PROVE  IsExecutableFile(e, Within(e.path[k], name)) <=>
                   fs[k] \in DOMAIN e.files /\ e.files[fs[k]] \in {"binary", "script"}
      <4>1. PICK f : f = fs[k] OBVIOUS
      <4>2. f = Place(e, Within(e.path[k], name)) BY <1>4, <3>3, <4>1
      <4> QED BY <4>1, <4>2 DEF IsExecutableFile, FileAt
    <3> QED BY <3>1, <3>2, <3>3
  <2> QED BY <2>1
<1>10. PICK away : away = Absent(e) OBVIOUS
<1>11. PICK left : left = (away \/ (e.kind = "Substitutive" /\ exec = {})) OBVIOUS
<1>16. Bearers(name, e) =
         {<<0, RanBuiltin>> : b \in IF e.kind = "Special" /\ ~ (e.kind = "None" \/ (e.kind = "Extension" /\ e.posix) \/ Slashed(name)) THEN {e.kind} ELSE {}}
           \cup {<<1, RanFunction>> : b \in IF e.function /\ ~ Slashed(name) THEN {TRUE} ELSE {}}
           \cup {<<2, RanBuiltin>> : b \in
                   IF \/ (e.kind = "None" \/ (e.kind = "Extension" /\ e.posix) \/ Slashed(name))
                      \/ (e.kind = "Substitutive" /\ exec = {})
                   THEN {} ELSE {e.kind}}
           \cup {<<2 + k, RanFile(fs[k])>> : k \in exec}
           \cup {<<3 + Len(fs), RanNothing(IF Slashed(name) /\ present # {} THEN 126 ELSE 127)>>}
  BY <1>5, <1>7, <1>8 DEF Bearers
<1>13. c \in Bearers(name, e) <=>
         \/ c = <<0, RanBuiltin>> /\ e.kind = "Special" /\ ~ away
         \/ c = <<1, RanFunction>> /\ e.function
         \/ c = <<2, RanBuiltin>> /\ ~ left
         \/ \E k \in exec : c = <<2 + k, RanFile(fs[k])>>
         \/ c = <<3 + n, RanNothing(127)>>
  BY <1>6, <1>10, <1>11, <1>16 DEF Absent
<1>14. (e.kind = "Special" => ~ away) /\ (left <=> Absent(e) \/ (e.kind = "Substitutive" /\ exec = {}))
  BY <1>10, <1>11 DEF Absent
<1>15. \A k \in exec : fs[k] = Place(e, Within(e.path[k], name)) BY <1>4, <1>7, <1>8
<1> QED BY <1>1, <1>9, <1>13, <1>14, <1>15

\* What has a name without a slash.
LEMMA UnslashedMeans ==
    ASSUME NEW name, NEW e, LookedUp(name, e), ~ Slashed(name)
    PROVE  MeaningOf(name, e) = Outcome(name, e)
<1>1. PICK n : n = Len(e.path) OBVIOUS
<1>2. n \in Nat /\ DOMAIN e.path = 1..n BY <1>1, ShellIs DEF LookedUp
<1>3. e.kind \in {"None", "Special", "Mandatory", "Elective", "Extension", "Substitutive"}
      /\ e.function \in BOOLEAN /\ e.posix \in BOOLEAN
  BY ShellIs DEF LookedUp
<1>4. Builtin(e) = (IF Absent(e) THEN "None" ELSE e.kind) BY DEF Builtin, Absent
<1>5. PICK F : F = Found(name, e) OBVIOUS
<1>6. F \subseteq 1..n /\ \A k \in F : k \in Int /\ 1 <= k /\ k <= n BY <1>2, <1>5 DEF Found
<1>7. PICK sub : sub = (e.kind = "Substitutive" /\ F = {}) OBVIOUS
<1>8. \A c : c \in Bearers(name, e) <=>
        \/ c = <<0, RanBuiltin>> /\ e.kind = "Special"
        \/ c = <<1, RanFunction>> /\ e.function
        \/ c = <<2, RanBuiltin>> /\ ~ Absent(e) /\ ~ sub
        \/ \E k \in F : c = <<2 + k, RanFile(Place(e, Within(e.path[k], name)))>>
        \/ c = <<3 + n, RanNothing(127)>>
  <2>1. ASSUME NEW c
        PROVE  c \in Bearers(name, e) <=>
                 \/ c = <<0, RanBuiltin>> /\ e.kind = "Special"
                 \/ c = <<1, RanFunction>> /\ e.function
                 \/ c = <<2, RanBuiltin>> /\ ~ Absent(e) /\ ~ sub
                 \/ \E k \in F : c = <<2 + k, RanFile(Place(e, Within(e.path[k], name)))>>
                 \/ c = <<3 + n, RanNothing(127)>>
    <3>1. c \in Bearers(name, e) <=>
            \/ c = <<0, RanBuiltin>> /\ e.kind = "Special"
            \/ c = <<1, RanFunction>> /\ e.function
            \/ /\ c = <<2, RanBuiltin>> /\ ~ Absent(e)
               /\ ~ (e.kind = "Substitutive" /\ Found(name, e) = {})
            \/ \E k \in Found(name, e) : c = <<2 + k, RanFile(Place(e, Within(e.path[k], name)))>>
            \/ c = <<3 + Len(e.path), RanNothing(127)>>
      BY BearersAre
    <3> QED BY <1>1, <1>5, <1>7, <3>1
  <2> QED BY <2>1
<1>9. \A c \in Bearers(name, e) :
        /\ c[1] \in Int /\ c[1] >= 0
        /\ c[1] = 0 => c[2] = RanBuiltin /\ e.kind = "Special"
        /\ c[1] = 1 => c[2] = RanFunction /\ e.function
        /\ c[1] = 2 => c[2] = RanBuiltin /\ ~ Absent(e) /\ ~ sub
        /\ c[1] > 2 => \/ \E k \in F : c[1] = 2 + k /\ c[2] = RanFile(Place(e, Within(e.path[k], name)))
                       \/ c[1] = 3 + n /\ c[2] = RanNothing(127)
  <2>1. ASSUME NEW c \in Bearers(name, e)
        PROVE  /\ c[1] \in Int /\ c[1] >= 0
               /\ c[1] = 0 => c[2] = RanBuiltin /\ e.kind = "Special"
               /\ c[1] = 1 => c[2] = RanFunction /\ e.function
               /\ c[1] = 2 => c[2] = RanBuiltin /\ ~ Absent(e) /\ ~ sub
               /\ c[1] > 2 => \/ \E k \in F : c[1] = 2 + k /\ c[2] = RanFile(Place(e, Within(e.path[k], name)))
                              \/ c[1] = 3 + n /\ c[2] = RanNothing(127)
    <3>1. CASE c = <<0, RanBuiltin>> /\ e.kind = "Special" BY <3>1
    <3>2. CASE c = <<1, RanFunction>> /\ e.function BY <3>2
    <3>3. CASE c = <<2, RanBuiltin>> /\ ~ Absent(e) /\ ~ sub BY <3>3
    <3>4. CASE \E k \in F : c = <<2 + k, RanFile(Place(e, Within(e.path[k], name)))>>
      <4>1. PICK k \in F : c = <<2 + k, RanFile(Place(e, Within(e.path[k], name)))>> BY <3>4
      <4>2. c[1] = 2 + k /\ c[2] = RanFile(Place(e, Within(e.path[k], name))) BY <4>1
      <4>3. k \in Int /\ 1 <= k BY <1>6
      <4> QED BY <4>2, <4>3
    <3>5. CASE c = <<3 + n, RanNothing(127)>>
      <4>1. c[1] = 3 + n /\ c[2] = RanNothing(127) BY <3>5
      <4> QED BY <1>2, <4>1
    <3> QED BY <1>8, <3>1, <3>2, <3>3, <3>4, <3>5
  <2> QED BY <2>1
<1>10. Classify(name, e).target =
         IF Builtin(e) = "Special" THEN "Builtin"
         ELSE IF e.function THEN "Function"
         ELSE IF Builtin(e) # "None" THEN "Builtin" ELSE "External"
  BY ClassifyIs
<1>11. F = {} => SearchPath(name, e) = EmptyPath
  BY <1>5, SearchPathIs
<1>12. F # {} => \E k \in F : /\ \A j \in F : k <= j
                             /\ SearchPath(name, e) = Within(e.path[k], name)
                             /\ SearchPath(name, e) # EmptyPath
  BY <1>5, SearchPathIs
<1>13. CASE Builtin(e) = "Special"
  <2>1. e.kind = "Special" BY <1>4, <1>13
  <2>2. PICK b : b = <<0, RanBuiltin>> OBVIOUS
  <2>3. b \in Bearers(name, e) /\ b[1] = 0 /\ b[2] = RanBuiltin BY <1>8, <2>1, <2>2
  <2>4. MeaningOf(name, e) = RanBuiltin BY <1>9, <2>3, FirstBearer
  <2> QED BY <1>10, <1>13, <2>1, <2>4 DEF Outcome, ExecuteBuiltin
<1>14. CASE Builtin(e) # "Special" /\ e.function
  <2>1. e.kind # "Special" BY <1>4, <1>14 DEF Absent
  <2>2. PICK b : b = <<1, RanFunction>> OBVIOUS
  <2>3. b \in Bearers(name, e) /\ b[1] = 1 /\ b[2] = RanFunction BY <1>8, <1>14, <2>2
  <2>4. \A c \in Bearers(name, e) : c[1] \in Int /\ 1 <= c[1] /\ (c[1] = 1 => c[2] = RanFunction)
    BY <1>9, <2>1
  <2>5. MeaningOf(name, e) = RanFunction BY <2>3, <2>4, FirstBearer
  <2> QED BY <1>10, <1>14, <2>5 DEF Outcome
<1>15. CASE Builtin(e) \notin {"Special", "None"} /\ ~ e.function /\ ~ sub
  <2>1. e.kind # "Special" /\ ~ Absent(e) BY <1>4, <1>15
  <2>2. PICK b : b = <<2, RanBuiltin>> OBVIOUS
  <2>3. b \in Bearers(name, e) /\ b[1] = 2 /\ b[2] = RanBuiltin BY <1>8, <1>15, <2>1, <2>2
  <2>4. \A c \in Bearers(name, e) : c[1] \in Int /\ 2 <= c[1] /\ (c[1] = 2 => c[2] = RanBuiltin)
    BY <1>9, <1>15, <2>1
  <2>5. MeaningOf(name, e) = RanBuiltin BY <2>3, <2>4, FirstBearer
  <2>6. ~ (e.kind = "Substitutive" /\ SearchPath(name, e) = EmptyPath) BY <1>7, <1>12, <1>15
  <2> QED BY <1>10, <1>15, <2>5, <2>6 DEF Outcome, ExecuteBuiltin
<1>16. CASE Builtin(e) # "Special" /\ ~ e.function /\ F = {} /\ (Builtin(e) = "None" \/ sub)
  <2>1. e.kind # "Special" /\ (Absent(e) \/ sub) BY <1>3, <1>4, <1>16 DEF Absent
  <2>2. PICK b : b = <<3 + n, RanNothing(127)>> OBVIOUS
  <2>3. b \in Bearers(name, e) /\ b[1] = 3 + n /\ b[2] = RanNothing(127) BY <1>8, <2>2
  <2>4. \A c \in Bearers(name, e) : c[1] = 3 + n /\ c[2] = RanNothing(127)
    <3>1. \A c \in Bearers(name, e) : c = <<3 + n, RanNothing(127)>> BY <1>8, <1>16, <2>1
    <3> QED BY <3>1
  <2>5. \A c \in Bearers(name, e) : c[1] \in Int /\ 3 + n <= c[1] /\ (c[1] = 3 + n => c[2] = RanNothing(127))
    BY <1>2, <2>4
  <2>6. MeaningOf(name, e) = RanNothing(127) BY <1>2, <2>3, <2>5, FirstBearer
  <2>7. SearchPath(name, e) = EmptyPath BY <1>11, <1>16
  <2>8. CASE Builtin(e) = "None"
    BY <1>10, <1>16, <2>6, <2>7, <2>8 DEF Outcome, RunExternal
  <2>9. CASE Builtin(e) # "None"
    <3>1. e.kind = "Substitutive" BY <1>7, <1>16, <2>9
    <3> QED BY <1>10, <1>16, <2>6, <2>7, <2>9, <3>1 DEF Outcome, ExecuteBuiltin
  <2> QED BY <2>8, <2>9
<1>17. CASE Builtin(e) = "None" /\ ~ e.function /\ F # {}
  <2>1. e.kind # "Special" /\ Absent(e) BY <1>3, <1>4, <1>17 DEF Absent
  <2>2. PICK k \in F : /\ \A j \in F : k <= j
                       /\ SearchPath(name, e) = Within(e.path[k], name)
                       /\ SearchPath(name, e) # EmptyPath
    BY <1>12, <1>17
  <2>3. PICK r : r = RanFile(Place(e, Within(e.path[k], name))) OBVIOUS
  <2>4. PICK b : b = <<2 + k, r>> OBVIOUS
  <2>5. b \in Bearers(name, e) /\ b[1] = 2 + k /\ b[2] = r BY <1>8, <2>3, <2>4
  <2>6. k \in Int /\ 1 <= k /\ k <= n BY <1>6
  <2>7. ASSUME NEW c \in Bearers(name, e)
        PROVE  c[1] \in Int /\ 2 + k <= c[1] /\ (c[1] = 2 + k => c[2] = r)
    <3>1. CASE \E j \in F : c[1] = 2 + j /\ c[2] = RanFile(Place(e, Within(e.path[j], name)))
      <4>1. PICK j \in F : c[1] = 2 + j /\ c[2] = RanFile(Place(e, Within(e.path[j], name))) BY <3>1
      <4>2. j \in Int /\ k <= j BY <1>6, <2>2
      <4>3. c[1] = 2 + k => j = k BY <2>6, <4>1, <4>2
      <4> QED BY <2>3, <2>6, <4>1, <4>2, <4>3
    <3>2. CASE c[1] = 3 + n /\ c[2] = RanNothing(127) BY <1>2, <2>6, <3>2
    <3>3. c[1] > 2
      <4>1. \/ \E j \in F : c = <<2 + j, RanFile(Place(e, Within(e.path[j], name)))>>
            \/ c = <<3 + n, RanNothing(127)>>
        BY <1>8, <1>17, <2>1
      <4>2. \/ \E j \in F : c[1] = 2 + j
            \/ c[1] = 3 + n
        BY <4>1
      <4> QED BY <1>2, <1>6, <4>2
    <3> QED BY <1>9, <3>1, <3>2, <3>3
  <2>8. 2 + k \in Int BY <2>6
  <2>9. MeaningOf(name, e) = r BY <2>5, <2>7, <2>8, FirstBearer
  <2>10. e.path[k] \in Paths /\ k \in DOMAIN e.path BY <1>2, <1>6, ShellIs DEF LookedUp
  <2>11. PICK p : p = Within(e.path[k], name) OBVIOUS
  <2>12. p \in Paths /\ Located2(e, p) /\ IsExecutableFile(e, p)
    BY <1>5, <2>10, <2>11, WithinIs DEF LookedUp, Found
  <2>13. ReplaceCurrentProcess(e, p) = r
    BY <2>3, <2>11, <2>12, ReplaceIs DEF LookedUp
  <2>14. RunExternal(name, e) = r BY <2>2, <2>11, <2>13 DEF RunExternal
  <2> QED BY <1>10, <1>17, <2>9, <2>14 DEF Outcome
<1>18. sub => F = {} /\ e.kind = "Substitutive" BY <1>7
<1> QED BY <1>13, <1>14, <1>15, <1>16, <1>17, <1>18

\* What a name means is what is run, if nothing changes in between.
LEMMA MeaningIs ==
    ASSUME NEW name, NEW e, LookedUp(name, e)
    PROVE  MeaningOf(name, e) = Outcome(name, e)
<1>1. CASE Slashed(name)
  <2>1. Classify(name, e).target = "External" BY <1>1, ClassifyIs
  <2> QED BY <1>1, <2>1, SlashedMeans DEF Outcome
<1>2. CASE ~ Slashed(name) BY <1>2, UnslashedMeans
<1> QED BY <1>1, <1>2

\* Shells that differ in what may hide a name only.
Alike(e, f) ==
    /\ f.posix = e.posix /\ f.words = e.words /\ f.files = e.files
    /\ f.cwd = e.cwd /\ f.pwd = e.pwd /\ f.stdpath = e.stdpath

\* In such shells a path is the same file.
LEMMA AlikeFiles ==
    ASSUME NEW e, NEW f, Alike(e, f), NEW p
    PROVE  /\ Place(f, p) = Place(e, p) /\ FileAt(f, p) = FileAt(e, p)
           /\ IsExecutableFile(f, p) = IsExecutableFile(e, p)
           /\ ReplaceCurrentProcess(f, p) = ReplaceCurrentProcess(e, p)
           /\ Located2(e, p) => Located2(f, p)
<1>1. \A q : Place(f, q) = Place(e, q) BY DEF Alike, Place
<1>2. \A q : FileAt(f, q) = FileAt(e, q)
  <2>1. ASSUME NEW q PROVE FileAt(f, q) = FileAt(e, q)
    <3>1. PICK x : x = Place(e, q) OBVIOUS
    <3>2. x = Place(f, q) BY <1>1, <3>1
    <3> QED BY <3>1, <3>2 DEF Alike, FileAt
  <2> QED BY <2>1
<1>3. IsExecutableFile(f, p) = IsExecutableFile(e, p) BY <1>2 DEF IsExecutableFile
<1>4. ReplaceCurrentProcess(f, p) = ReplaceCurrentProcess(e, p)
  <2>1. PICK k : k = FileAt(e, p) OBVIOUS
  <2>2. PICK x : x = Place(e, p) OBVIOUS
  <2>3. PICK y : y = Place(e, AsOperand(p)) OBVIOUS
  <2>4. k = FileAt(f, p) /\ x = Place(f, p) /\ y = Place(f, AsOperand(p)) BY <1>1, <1>2, <2>1, <2>2, <2>3
  <2>5. ReplaceCurrentProcess(e, p) =
          CASE k = "binary" -> RanFile(x)
            [] k = "script" ->
                 IF AsOperand(p).comps[1] \in DashNames /\ ~ p.abs THEN [ran |-> "shell with an option"]
                 ELSE RanFile(y)
            [] OTHER -> RanNothing(IF k = "missing" THEN 127 ELSE 126)
    BY <2>1, <2>2, <2>3 DEF ReplaceCurrentProcess
  <2>6. ReplaceCurrentProcess(f, p) =
          CASE k = "binary" -> RanFile(x)
            [] k = "script" ->
                 IF AsOperand(p).comps[1] \in DashNames /\ ~ p.abs THEN [ran |-> "shell with an option"]
                 ELSE RanFile(y)
            [] OTHER -> RanNothing(IF k = "missing" THEN 127 ELSE 126)
    BY <2>4 DEF ReplaceCurrentProcess
  <2> QED BY <2>5, <2>6
<1>5. Located2(e, p) => Located2(f, p) BY <1>1 DEF Located2, Alike
<1> QED BY <1>1, <1>2, <1>3, <1>4, <1>5

\* The same search with the same PATH.
LEMMA AlikeSearch ==
    ASSUME NEW e, NEW f, Alike(e, f), f.path = e.path, NEW name
    PROVE  SearchPath(name, f) = SearchPath(name, e) /\ RunExternal(name, f) = RunExternal(name, e)
<1>1. {k \in DOMAIN f.path : IsExecutableFile(f, Within(f.path[k], name))}
        = {k \in DOMAIN e.path : IsExecutableFile(e, Within(e.path[k], name))}
  BY AlikeFiles
<1>2. SearchPath(name, f) = SearchPath(name, e)
  <2>1. PICK X : X = {k \in DOMAIN e.path : IsExecutableFile(e, Within(e.path[k], name))} OBVIOUS
  <2>2. PICK path : path = e.path OBVIOUS
  <2>3. path = f.path /\ X = {k \in DOMAIN f.path : IsExecutableFile(f, Within(f.path[k], name))}
    BY <1>1, <2>1, <2>2
  <2>4. SearchPath(name, e) = IF X = {} THEN EmptyPath
                              ELSE Within(path[CHOOSE k \in X : \A j \in X : k <= j], name)
    BY <2>1, <2>2 DEF SearchPath
  <2>5. SearchPath(name, f) = IF X = {} THEN EmptyPath
                              ELSE Within(path[CHOOSE k \in X : \A j \in X : k <= j], name)
    BY <2>3 DEF SearchPath
  <2> QED BY <2>4, <2>5
<1> QED BY <1>2, AlikeFiles DEF RunExternal

\* The same outcome if nothing else differs either.
LEMMA AlikeOutcome ==
    ASSUME NEW e, NEW f, Alike(e, f), f.path = e.path, f.kind = e.kind, f.function = e.function, NEW name
    PROVE  Outcome(name, f) = Outcome(name, e) /\ Classify(name, f) = Classify(name, e)
<1>1. Builtin(f) = Builtin(e) BY DEF Builtin, Alike
<1>2. Classify(name, f) = Classify(name, e) BY <1>1 DEF Classify
<1> QED BY <1>2, AlikeSearch DEF Outcome, ExecuteBuiltin

\* The name is looked up in such a shell too.
LEMMA AlikeLookedUp ==
    ASSUME NEW e, NEW f, Alike(e, f), NEW name, LookedUp(name, e),
           f.kind \in {"None", "Special", "Mandatory", "Elective", "Extension", "Substitutive"},
           f.function \in BOOLEAN, f.path \in {e.path, e.stdpath}
    PROVE  LookedUp(name, f)
<1>1. ShellFields(f) BY DEF ShellFields, LookedUp, Alike
<1>2. Located2(f, name) BY AlikeFiles DEF LookedUp
<1>3. \A k \in DOMAIN f.path : Located2(f, Within(f.path[k], name)) BY AlikeFiles DEF LookedUp
<1>4. f.stdpath = e.stdpath BY DEF Alike
<1>5. \A k \in DOMAIN f.stdpath : Located2(f, Within(f.stdpath[k], name)) BY <1>4, AlikeFiles DEF LookedUp
<1> QED BY <1>1, <1>2, <1>3, <1>5 DEF LookedUp

\* A shell with another PATH.
LEMMA OtherPath ==
    ASSUME NEW e, IsShell(e), NEW p, NEW f, f = [e EXCEPT !.path = p]
    PROVE  Alike(e, f) /\ f.path = p /\ f.kind = e.kind /\ f.function = e.function
<1> DEFINE R == [kind : {"None", "Special", "Mandatory", "Elective", "Extension", "Substitutive"},
                 function : BOOLEAN, posix : BOOLEAN, words : SUBSET {"Alias", "Keyword"},
                 files : {e.files}, cwd : {e.cwd}, pwd : Paths, path : Seq(Paths), stdpath : Seq(Paths)]
<1>1. e \in R BY DEF IsShell
<1> QED BY <1>1 DEF Alike

\* The shells that the comparison is about.
LEMMA AlteredShells ==
    ASSUME NEW e, IsShell(e)
    PROVE  /\ Alike(e, Bare(e)) /\ Bare(e).path = e.path /\ Bare(e).kind = e.kind /\ Bare(e).function = FALSE
           /\ /\ Alike(e, Standard(e)) /\ Standard(e).path = e.stdpath
              /\ Standard(e).kind = e.kind /\ Standard(e).function = FALSE
           /\ \A f : f = [Bare(e) EXCEPT !.kind = "None"] =>
                 Alike(e, f) /\ f.path = e.path /\ f.kind = "None" /\ f.function = FALSE
<1> DEFINE R == [kind : {"None", "Special", "Mandatory", "Elective", "Extension", "Substitutive"},
                 function : BOOLEAN, posix : BOOLEAN, words : SUBSET {"Alias", "Keyword"},
                 files : {e.files}, cwd : {e.cwd}, pwd : Paths, path : Seq(Paths), stdpath : Seq(Paths)]
<1>1. e \in R BY DEF IsShell
<1>2. Bare(e) = [e EXCEPT !.function = FALSE] /\ Standard(e) = [Bare(e) EXCEPT !.path = e.stdpath]
  BY DEF Bare, Standard
<1>3. PICK b : b = Bare(e) OBVIOUS
<1>4. b \in R /\ Alike(e, b) /\ b.path = e.path /\ b.kind = e.kind /\ b.function = FALSE
  BY <1>1, <1>2, <1>3 DEF Alike
<1>5. PICK s : s = Standard(e) OBVIOUS
<1>6. s = [b EXCEPT !.path = e.stdpath] BY <1>2, <1>3, <1>5
<1>7. Alike(b, s) /\ s.path = e.stdpath /\ s.kind = b.kind /\ s.function = b.function
  BY <1>4, <1>6 DEF Alike
<1>8. Alike(e, s) BY <1>4, <1>7 DEF Alike
<1>9. ASSUME NEW f, f = [b EXCEPT !.kind = "None"]
      PROVE  Alike(b, f) /\ f.path = b.path /\ f.kind = "None" /\ f.function = b.function
  BY <1>4, <1>9 DEF Alike
<1>10. ASSUME NEW f, f = [Bare(e) EXCEPT !.kind = "None"]
       PROVE  Alike(e, f) /\ f.path = e.path /\ f.kind = "None" /\ f.function = FALSE
  BY <1>3, <1>4, <1>9, <1>10 DEF Alike
<1> QED BY <1>3, <1>4, <1>5, <1>7, <1>8, <1>10

\* A simple command: the assignment changes nothing about how its name was classified.
LEMMA SimpleCommandRuns ==
    ASSUME NEW e, IsShell(e), NEW path, NEW name,
           NEW f, f = [e EXCEPT !.path = path]
    PROVE  SimpleCommand(name, path, e) = Outcome(name, f)
<1>1. Alike(e, f) /\ f.kind = e.kind /\ f.function = e.function BY OtherPath
<1>2. Classify(name, f) = Classify(name, e)
  <2>1. Builtin(f) = Builtin(e) BY <1>1 DEF Builtin, Alike
  <2> QED BY <1>1, <2>1 DEF Classify
<1>3. AfterAssignments(e, path) = f BY DEF AfterAssignments
<1>4. PICK t : t = Classify(name, e).target OBVIOUS
<1>5. t \in {"Builtin", "Function", "External"} BY <1>4, ClassifyIs
<1>6. SimpleCommand(name, path, e) =
        CASE t = "Builtin" -> ExecuteBuiltin(name, f)
          [] t = "Function" -> RanFunction
          [] t = "External" -> RunExternal(name, f)
  BY <1>3, <1>4 DEF SimpleCommand
<1>7. Outcome(name, f) = IF t = "Builtin" THEN ExecuteBuiltin(name, f)
                         ELSE IF t = "Function" THEN RanFunction ELSE RunExternal(name, f)
  BY <1>2, <1>4 DEF Outcome
<1> QED BY <1>5, <1>6, <1>7

\* What a search finds.
LEMMA SearchIs ==
    ASSUME NEW e, NEW name, LookedUp(name, e), NEW t, t = Classify(name, e).target
    PROVE  /\ Slashed(name) => Search(name, e) = Target("External", name) /\ t = "External"
           /\ ~ Slashed(name) /\ NeedsPath(t, e) /\ SearchPath(name, e) = EmptyPath => Search(name, e) = NotFound
           /\ ~ Slashed(name) /\ NeedsPath(t, e) /\ SearchPath(name, e) # EmptyPath =>
                 Search(name, e) = Target(t, SearchPath(name, e))
           /\ ~ Slashed(name) /\ ~ NeedsPath(t, e) => Search(name, e) = Target(t, EmptyPath)
           /\ t \in {"Builtin", "Function", "External"}
           /\ \A p : Target(t, p) # NotFound /\ Target(t, p).target = t /\ Target(t, p).path = p
<1>1. t \in {"Builtin", "Function", "External"} BY ClassifyIs
<1>2. Slashed(name) => t = "External" BY ClassifyIs
<1>3. \A p : Target(t, p).target = t /\ Target(t, p).path = p BY DEF Target
<1>4. NotFound.target = "None" BY DEF NotFound
<1>5. \A p : Target(t, p) # NotFound BY <1>1, <1>3, <1>4
<1>6. Search(name, e) =
        CASE Slashed(name) -> Target(t, name)
          [] ~ Slashed(name) /\ NeedsPath(t, e) ->
               IF SearchPath(name, e) = EmptyPath THEN NotFound ELSE Target(t, SearchPath(name, e))
          [] OTHER -> Target(t, EmptyPath)
  BY DEF Search
<1>7. Slashed(name) => Search(name, e) = Target(t, name) BY <1>6
<1>8. ~ Slashed(name) /\ NeedsPath(t, e) =>
        Search(name, e) = IF SearchPath(name, e) = EmptyPath THEN NotFound ELSE Target(t, SearchPath(name, e))
  BY <1>6
<1>9. ~ Slashed(name) /\ ~ NeedsPath(t, e) => Search(name, e) = Target(t, EmptyPath) BY <1>6
<1> QED BY <1>1, <1>2, <1>3, <1>5, <1>7, <1>8, <1>9

\* A search of the command built-in and the execution of its result, compared with the
\* outcome in the shell as the search sees it.
LEMMA InvokeRuns ==
    ASSUME NEW e, NEW params, NEW name, NEW s, s = SearchEnv(e, params), LookedUp(name, s), Alike(e, s)
    PROVE  Invoke(name, params, e) = Outcome(name, s)
<1>1. PICK t : t = Classify(name, s).target OBVIOUS
<1>2. PICK found : found = Search(name, s) OBVIOUS
<1>3. Invoke(name, params, e) =
        CASE found = NotFound -> RanNothing(127)
          [] found.target = "Builtin" -> RanBuiltin
          [] found.target = "Function" -> RanFunction
          [] found.target = "External" -> ReplaceCurrentProcess(e, found.path)
  BY <1>2 DEF Invoke
<1>4. Outcome(name, s) = IF t = "Builtin" THEN ExecuteBuiltin(name, s)
                         ELSE IF t = "Function" THEN RanFunction ELSE RunExternal(name, s)
  BY <1>1 DEF Outcome
<1>5. NotFound.target = "None" BY DEF NotFound
<1>6. t \in {"Builtin", "Function", "External"} BY <1>1, SearchIs
<1>7. CASE Slashed(name)
  <2>1. found = Target("External", name) /\ t = "External" BY <1>1, <1>2, <1>7, SearchIs
  <2>2. found # NotFound /\ found.target = "External" /\ found.path = name BY <1>5, <2>1 DEF Target
  <2>3. name # EmptyPath BY DEF LookedUp, EmptyPath, Path
  <2>4. RunExternal(name, s) = ReplaceCurrentProcess(s, name) BY <1>7, <2>3 DEF RunExternal
  <2>5. ReplaceCurrentProcess(s, name) = ReplaceCurrentProcess(e, name) BY AlikeFiles
  <2> QED BY <1>3, <1>4, <2>1, <2>2, <2>4, <2>5
<1>8. CASE ~ Slashed(name) /\ NeedsPath(t, s) /\ SearchPath(name, s) = EmptyPath
  <2>1. found = NotFound BY <1>1, <1>2, <1>8, SearchIs
  <2>2. t = "External" \/ (t = "Builtin" /\ s.kind = "Substitutive") BY <1>8 DEF NeedsPath
  <2>3. Outcome(name, s) = RanNothing(127) BY <1>4, <1>8, <2>2 DEF ExecuteBuiltin, RunExternal
  <2> QED BY <1>3, <1>5, <2>1, <2>3
<1>9. CASE ~ Slashed(name) /\ NeedsPath(t, s) /\ SearchPath(name, s) # EmptyPath
  <2>1. PICK path : path = SearchPath(name, s) OBVIOUS
  <2>2. found = Target(t, path) BY <1>1, <1>2, <1>9, <2>1, SearchIs
  <2>3. found # NotFound /\ found.target = t /\ found.path = path BY <1>1, <2>2, SearchIs
  <2>4. ReplaceCurrentProcess(s, path) = ReplaceCurrentProcess(e, path) BY AlikeFiles
  <2>5. CASE t = "External"
    <3>1. Outcome(name, s) = ReplaceCurrentProcess(s, path) BY <1>4, <1>9, <2>1, <2>5 DEF RunExternal
    <3> QED BY <1>3, <2>3, <2>4, <2>5, <3>1
  <2>6. CASE t = "Builtin"
    <3>1. Outcome(name, s) = RanBuiltin BY <1>4, <1>9, <2>6 DEF ExecuteBuiltin
    <3> QED BY <1>3, <2>3, <2>6, <3>1
  <2> QED BY <1>9, <2>5, <2>6 DEF NeedsPath
<1>10. CASE ~ Slashed(name) /\ ~ NeedsPath(t, s)
  <2>1. found = Target(t, EmptyPath) BY <1>1, <1>2, <1>10, SearchIs
  <2>2. found # NotFound /\ found.target = t BY <1>1, <2>1, SearchIs
  <2>3. t # "External" /\ ~ (t = "Builtin" /\ s.kind = "Substitutive") BY <1>10 DEF NeedsPath
  <2>4. CASE t = "Builtin"
    <3>1. Outcome(name, s) = RanBuiltin BY <1>4, <2>3, <2>4 DEF ExecuteBuiltin
    <3> QED BY <1>3, <2>2, <2>4, <3>1
  <2>5. CASE t = "Function" BY <1>3, <1>4, <2>2, <2>5
  <2> QED BY <1>6, <2>3, <2>4, <2>5
<1> QED BY <1>7, <1>8, <1>9, <1>10

\* The shell as the built-ins search it.
LEMMA SearchEnvIs ==
    ASSUME NEW e, IsShell(e), NEW params, NEW s, s = SearchEnv(e, params), "Builtin" \in params.categories
    PROVE  /\ Alike(e, s) /\ s.kind = e.kind
           /\ s.function = (e.function /\ "Function" \in params.categories)
           /\ s.path = (IF params.standard THEN e.stdpath ELSE e.path)
<1> DEFINE R == [kind : {"None", "Special", "Mandatory", "Elective", "Extension", "Substitutive"},
                 function : BOOLEAN, posix : BOOLEAN, words : SUBSET {"Alias", "Keyword"},
                 files : {e.files}, cwd : {e.cwd}, pwd : Paths, path : Seq(Paths), stdpath : Seq(Paths)]
<1>1. e \in R BY DEF IsShell
<1>2. PICK k, b, p : /\ k = e.kind /\ b = (e.function /\ "Function" \in params.categories)
                     /\ p = (IF params.standard THEN e.stdpath ELSE e.path)
  OBVIOUS
<1>3. s = [e EXCEPT !.kind = k, !.function = b, !.path = p] BY <1>2 DEF SearchEnv
<1>4. /\ s.kind = k /\ s.function = b /\ s.path = p /\ s.posix = e.posix /\ s.words = e.words
      /\ s.files = e.files /\ s.cwd = e.cwd /\ s.pwd = e.pwd /\ s.stdpath = e.stdpath
  BY <1>1, <1>3
<1> QED BY <1>2, <1>4 DEF Alike

\* All the ways to run a name run what it means there.
LEMMA AllRunRight ==
    ASSUME NEW e, IsShell(e), NEW name, LookedUp(name, e)
    PROVE  RunsRight(name, e)
<1>1. ASSUME NEW path \in {e.path, e.stdpath}
      PROVE  SimpleCommand(name, path, e) = MeaningOf(name, [e EXCEPT !.path = path])
  <2>1. PICK f : f = [e EXCEPT !.path = path] OBVIOUS
  <2>2. Alike(e, f) /\ f.path = path /\ f.kind = e.kind /\ f.function = e.function BY <2>1, OtherPath
  <2>3. LookedUp(name, f) BY <2>2, AlikeLookedUp DEF LookedUp, ShellFields
  <2>4. SimpleCommand(name, path, e) = Outcome(name, f) BY <2>1, SimpleCommandRuns
  <2>5. MeaningOf(name, f) = Outcome(name, f) BY <2>3, MeaningIs
  <2> QED BY <2>1, <2>4, <2>5
<1>2. e.kind \in {"None", "Special", "Mandatory", "Elective", "Extension", "Substitutive"}
      /\ FALSE \in BOOLEAN
  BY DEF LookedUp, ShellFields
<1>3. ASSUME NEW std \in BOOLEAN, NEW f, Alike(e, f), f.kind = e.kind, f.function = FALSE,
             f.path = (IF std THEN e.stdpath ELSE e.path)
      PROVE  Invoke(name, DefaultForInvoke(std), e) = MeaningOf(name, f)
  <2>1. PICK params : params = DefaultForInvoke(std) OBVIOUS
  <2>2. params.standard = std /\ "Builtin" \in params.categories /\ "Function" \notin params.categories
    BY <2>1 DEF DefaultForInvoke, Params
  <2>3. PICK s : s = SearchEnv(e, params) OBVIOUS
  <2>4. Alike(e, s) /\ s.kind = e.kind /\ s.function = (e.function /\ "Function" \in params.categories)
        /\ s.path = (IF params.standard THEN e.stdpath ELSE e.path)
    BY <2>2, <2>3, SearchEnvIs
  <2>5. s.function = FALSE /\ s.path = (IF std THEN e.stdpath ELSE e.path) BY <2>2, <2>4
  <2>6. LookedUp(name, s) BY <1>2, <2>4, <2>5, AlikeLookedUp
  <2>7. Invoke(name, params, e) = Outcome(name, s) BY <2>3, <2>4, <2>6, InvokeRuns
  <2>8. LookedUp(name, f) BY <1>2, <1>3, AlikeLookedUp
  <2>9. MeaningOf(name, f) = Outcome(name, f) BY <2>8, MeaningIs
  <2>10. Alike(s, f) BY <1>3, <2>4 DEF Alike
  <2>11. Outcome(name, f) = Outcome(name, s) BY <1>3, <2>4, <2>5, <2>10, AlikeOutcome
  <2> QED BY <2>1, <2>7, <2>9, <2>11
<1>4. Invoke(name, DefaultForInvoke(FALSE), e) = MeaningOf(name, Bare(e))
  <2>1. PICK f : f = Bare(e) OBVIOUS
  <2>2. Alike(e, f) /\ f.path = e.path /\ f.kind = e.kind /\ f.function = FALSE BY <2>1, AlteredShells
  <2>3. Invoke(name, DefaultForInvoke(FALSE), e) = MeaningOf(name, f) BY <1>3, <2>2
  <2> QED BY <2>1, <2>3
<1>5. Invoke(name, DefaultForInvoke(TRUE), e) = MeaningOf(name, Standard(e))
  <2>1. PICK f : f = Standard(e) OBVIOUS
  <2>2. Alike(e, f) /\ f.path = e.stdpath /\ f.kind = e.kind /\ f.function = FALSE BY <2>1, AlteredShells
  <2>3. Invoke(name, DefaultForInvoke(TRUE), e) = MeaningOf(name, f) BY <1>3, <2>2
  <2> QED BY <2>1, <2>3
<1>6. ExecUtility(name, e) = MeaningOf(name, [Bare(e) EXCEPT !.kind = "None"])
  <2>1. PICK f : f = [Bare(e) EXCEPT !.kind = "None"] OBVIOUS
  <2>2. Alike(e, f) /\ f.path = e.path /\ f.kind = "None" /\ f.function = FALSE BY <2>1, AlteredShells
  <2>3. LookedUp(name, f) BY <1>2, <2>2, AlikeLookedUp
  <2>4. MeaningOf(name, f) = Outcome(name, f) BY <2>3, MeaningIs
  <2>5. Builtin(f) = "None" BY <2>2 DEF Builtin
  <2>6. Classify(name, f).target = "External" BY <2>2, <2>5, ClassifyIs
  <2>7. Outcome(name, f) = RunExternal(name, f) BY <2>6 DEF Outcome
  <2>8. RunExternal(name, f) = RunExternal(name, e) BY <2>2, AlikeSearch
  <2> QED BY <2>1, <2>4, <2>7, <2>8 DEF ExecUtility
<1> QED BY <1>1, <1>4, <1>5, <1>6 DEF RunsRight

\* Executing an absolute path is what running it as a command comes to.
LEMMA AbsoluteRuns ==
    ASSUME NEW e, IsShell(e), NEW p, p.abs, p # EmptyPath
    PROVE  SimpleCommand(p, e.path, e) = ReplaceCurrentProcess(e, p)
<1>1. PICK f : f = [e EXCEPT !.path = e.path] OBVIOUS
<1>2. Alike(e, f) BY <1>1, OtherPath
<1>3. SimpleCommand(p, e.path, e) = Outcome(p, f) BY <1>1, SimpleCommandRuns
<1>4. Slashed(p) BY DEF Slashed
<1>5. Classify(p, f).target = "External" BY <1>4, ClassifyIs
<1>6. Outcome(p, f) = RunExternal(p, f) BY <1>5 DEF Outcome
<1>7. RunExternal(p, f) = ReplaceCurrentProcess(f, p) BY <1>4 DEF RunExternal
<1>8. ReplaceCurrentProcess(f, p) = ReplaceCurrentProcess(e, p) BY <1>2, AlikeFiles
<1> QED BY <1>3, <1>6, <1>7, <1>8

\* What is executed: the path that was searched for is that of an executable file.
LEMMA SearchedPath ==
    ASSUME NEW e, NEW name, LookedUp(name, e), ~ Slashed(name), SearchPath(name, e) # EmptyPath
    PROVE  /\ SearchPath(name, e) \in Paths /\ SearchPath(name, e).comps # << >>
           /\ IsExecutableFile(e, SearchPath(name, e)) /\ Located2(e, SearchPath(name, e))
<1>1. PICK k \in Found(name, e) : SearchPath(name, e) = Within(e.path[k], name) BY SearchPathIs
<1>2. k \in DOMAIN e.path /\ IsExecutableFile(e, Within(e.path[k], name)) BY <1>1 DEF Found
<1>3. e.path[k] \in Paths BY <1>2, ShellIs DEF LookedUp
<1>4. Within(e.path[k], name) \in Paths /\ Within(e.path[k], name).comps # << >>
  BY <1>3, WithinIs DEF LookedUp
<1>5. Located2(e, Within(e.path[k], name)) BY <1>2 DEF LookedUp
<1> QED BY <1>1, <1>2, <1>4, <1>5

\* The normal form of what a search found: a file has an absolute path by which it can
\* be executed, or none if the working directory has no name.
LEMMA NormalizedIs ==
    ASSUME NEW e, NEW name, LookedUp(name, e), NEW p \in Paths, p.comps # << >>, Located2(e, p),
           IsExecutableFile(e, p), NEW t, NeedsPath(t, e),
           NEW found, found = Target(t, p), NEW n, n = NormalizeTarget(e, found)
    PROVE  \/ n = NotFound /\ e.pwd = EmptyPath /\ ~ p.abs
           \/ /\ n # NotFound /\ n.target = t /\ n.path.abs /\ n.path # EmptyPath
              /\ ReplaceCurrentProcess(e, n.path) = ReplaceCurrentProcess(e, p)
<1>1. p # EmptyPath BY DEF EmptyPath, Path
<1>2. t # "None" BY DEF NeedsPath
<1>3. found.target = t /\ found.path = p BY DEF Target
<1>4. found # NotFound BY <1>2, <1>3 DEF NotFound
<1>5. p.abs \in BOOLEAN BY DEF Paths
<1>6. CASE p.abs
  <2>1. n = found BY <1>3, <1>4, <1>6 DEF NormalizeTarget
  <2> QED BY <1>1, <1>3, <1>4, <1>6, <2>1
<1>7. CASE ~ p.abs
  <2>1. n = IF e.pwd = EmptyPath THEN NotFound ELSE Target(t, Within(e.pwd, p))
    BY <1>3, <1>4, <1>7 DEF NormalizeTarget
  <2>2. CASE e.pwd = EmptyPath BY <1>7, <2>1, <2>2
  <2>3. CASE e.pwd # EmptyPath
    <3>1. PICK q : q = Within(e.pwd, p) OBVIOUS
    <3>2. n = Target(t, q) BY <2>1, <2>3, <3>1
    <3>3. n.target = t /\ n.path = q BY <3>2 DEF Target
    <3>4. n # NotFound BY <1>2, <3>3 DEF NotFound
    <3>5. e.pwd \in Paths /\ e.pwd.abs BY <2>3 DEF LookedUp, ShellFields
    <3>6. q \in Paths /\ q # EmptyPath /\ q.abs BY <3>1, <3>5, WithinIs
    <3>7. Place(e, q) = Place(e, p) BY <1>7, <2>3, <3>1 DEF Located2
    <3>8. FileAt(e, q) = FileAt(e, p) BY <3>7 DEF FileAt
    <3>9. IsExecutableFile(e, q) BY <3>8 DEF IsExecutableFile
    <3>10. Located2(e, q) BY <3>6 DEF Located2
    <3>11. ReplaceCurrentProcess(e, q) = RanFile(Place(e, q)) BY <3>6, <3>9, <3>10, ReplaceIs DEF LookedUp
    <3>12. ReplaceCurrentProcess(e, p) = RanFile(Place(e, p)) BY ReplaceIs DEF LookedUp
    <3> QED BY <3>3, <3>4, <3>6, <3>7, <3>11, <3>12
  <2> QED BY <2>2, <2>3
<1> QED BY <1>5, <1>6, <1>7

\* What the command built-in says about a name is true.
LEMMA AllToldRight ==
    ASSUME NEW e, IsShell(e), NEW name, LookedUp(name, e)
    PROVE  ToldRight(name, e)
<1>1. PICK params : params = DefaultForIdentify(FALSE) OBVIOUS
<1>2. /\ params.standard = FALSE
      /\ {"Alias", "Builtin", "Function", "Keyword"} \subseteq params.categories
  BY <1>1 DEF DefaultForIdentify, Params
<1>3. PICK found : found = Categorize(name, params, e) OBVIOUS
<1>4. PICK meant : meant = MeaningOf(name, e) OBVIOUS
<1>5. PICK printed : printed = Described(name, found) OBVIOUS
<1>6. SUFFICES CASE e.words # {} -> found.target \in e.words
                 [] e.words = {} /\ found = NotFound ->
                      meant.ran = "nothing" \/ (e.pwd = EmptyPath /\ ~ Search(name, e).path.abs)
                 [] OTHER -> /\ meant.ran # "nothing"
                             /\ meant.ran = "file" => printed.abs
                             /\ \/ e.kind = "Substitutive" /\ meant = RanBuiltin
                                \/ SimpleCommand(printed, e.path, e) = meant
  BY <1>1, <1>3, <1>4, <1>5 DEF ToldRight
<1>7. CASE e.words # {}
  <2>1. e.words \subseteq {"Alias", "Keyword"} BY DEF LookedUp, ShellFields
  <2>2. CASE "Keyword" \in e.words
    <3>1. found = Target("Keyword", EmptyPath) BY <1>2, <1>3, <2>2 DEF Categorize
    <3>2. found.target = "Keyword" BY <3>1 DEF Target
    <3> QED BY <1>7, <2>2, <3>2
  <2>3. CASE "Keyword" \notin e.words
    <3>1. "Alias" \in e.words BY <1>7, <2>1, <2>3
    <3>2. found = Target("Alias", EmptyPath) BY <1>2, <1>3, <2>3, <3>1 DEF Categorize
    <3>3. found.target = "Alias" BY <3>2 DEF Target
    <3> QED BY <1>7, <3>1, <3>3
  <2> QED BY <2>2, <2>3
<1>8. CASE e.words = {}
  <2>1. PICK s : s = SearchEnv(e, params) OBVIOUS
  <2>2. PICK S : S = Search(name, s) OBVIOUS
  <2>3. found = NormalizeTarget(e, S) BY <1>3, <1>8, <2>1, <2>2 DEF Categorize
  <2>4. Alike(e, s) /\ s.kind = e.kind /\ s.function = e.function /\ s.path = e.path
    <3>1. e.function \in BOOLEAN BY DEF LookedUp, ShellFields
    <3>2. s.function = (e.function /\ "Function" \in params.categories) BY <1>2, <2>1, SearchEnvIs
    <3>3. s.function = e.function BY <1>2, <3>1, <3>2
    <3> QED BY <1>2, <2>1, <3>3, SearchEnvIs
  <2>5. LookedUp(name, s) BY <2>4, AlikeLookedUp DEF LookedUp, ShellFields
  <2>6. Outcome(name, s) = Outcome(name, e) /\ Classify(name, s) = Classify(name, e)
    BY <2>4, AlikeOutcome
  <2>7. SearchPath(name, s) = SearchPath(name, e) BY <2>4, AlikeSearch
  <2>8. PICK t : t = Classify(name, e).target OBVIOUS
  <2>9. NeedsPath(t, s) <=> NeedsPath(t, e) BY <2>4 DEF NeedsPath
  <2>10. Search(name, e) = S
    BY <2>2, <2>5, <2>6, <2>7, <2>8, <2>9, SearchIs
  <2>11. meant = Outcome(name, e) BY <1>4, MeaningIs
  <2>12. Outcome(name, e) = IF t = "Builtin" THEN ExecuteBuiltin(name, e)
                            ELSE IF t = "Function" THEN RanFunction ELSE RunExternal(name, e)
    BY <2>8 DEF Outcome
  <2>13. t \in {"Builtin", "Function", "External"} BY <2>8, SearchIs
  <2>14. RanBuiltin.ran = "builtin" /\ RanFunction.ran = "function" /\ RanNothing(127).ran = "nothing"
         /\ \A p : RanFile(p).ran = "file"
    BY DEF RanBuiltin, RanFunction, RanNothing, RanFile
  <2>15. name # EmptyPath BY DEF LookedUp, EmptyPath, Path
  <2>16. CASE Slashed(name)
    <3>1. S = Target("External", name) /\ t = "External" BY <1>8, <2>8, <2>10, <2>16, SearchIs
    <3>2. S.target = "External" /\ S.path = name BY <3>1 DEF Target
    <3>3. meant = ReplaceCurrentProcess(e, name) BY <2>11, <2>12, <2>15, <2>16, <3>1 DEF RunExternal
    <3>4. CASE IsExecutableFile(e, name)
      <4>1. NeedsPath(t, e) BY <3>1 DEF NeedsPath
      <4>2. \/ found = NotFound /\ e.pwd = EmptyPath /\ ~ name.abs
            \/ /\ found # NotFound /\ found.path.abs /\ found.path # EmptyPath
               /\ ReplaceCurrentProcess(e, found.path) = ReplaceCurrentProcess(e, name)
        BY <2>3, <3>1, <3>4, <4>1, NormalizedIs DEF LookedUp
      <4>3. meant.ran = "file"
        <5>1. ReplaceCurrentProcess(e, name) = RanFile(Place(e, name)) BY <3>4, ReplaceIs DEF LookedUp
        <5> QED BY <2>14, <3>3, <5>1
      <4>4. ASSUME found # NotFound PROVE printed = found.path /\ SimpleCommand(printed, e.path, e) = meant
        <5>1. printed = found.path BY <1>5, <4>2, <4>4 DEF Described
        <5> QED BY <3>3, <4>2, <4>4, <5>1, AbsoluteRuns
      <4> QED BY <1>8, <2>10, <3>2, <4>2, <4>3, <4>4
    <3>5. CASE ~ IsExecutableFile(e, name)
      <4>1. S # NotFound BY <3>2 DEF NotFound
      <4>2. NeedsPath(S.target, e) BY <3>2 DEF NeedsPath
      <4>3. found = NotFound BY <2>3, <3>2, <3>5, <4>1, <4>2 DEF NormalizeTarget
      <4>4. ReplaceCurrentProcess(e, name) = RanNothing(IF FileAt(e, name) = "missing" THEN 127 ELSE 126)
        BY <3>5, ReplaceIs DEF LookedUp
      <4>5. meant.ran = "nothing" BY <3>3, <4>4 DEF RanNothing
      <4> QED BY <1>8, <4>3, <4>5
    <3> QED BY <3>4, <3>5
  <2>17. CASE ~ Slashed(name) /\ NeedsPath(t, e) /\ SearchPath(name, e) = EmptyPath
    <3>1. S = NotFound BY <2>8, <2>10, <2>17, SearchIs
    <3>2. found = NotFound
      <4>1. S.target = "None" BY <3>1 DEF NotFound
      <4>2. ~ NeedsPath(S.target, e) BY <4>1 DEF NeedsPath
      <4> QED BY <2>3, <3>1, <4>2 DEF NormalizeTarget
    <3>3. meant = RanNothing(127)
      BY <2>11, <2>12, <2>17 DEF NeedsPath, ExecuteBuiltin, RunExternal
    <3> QED BY <1>8, <2>14, <3>2, <3>3
  <2>18. CASE ~ Slashed(name) /\ NeedsPath(t, e) /\ SearchPath(name, e) # EmptyPath
    <3>1. PICK p : p = SearchPath(name, e) OBVIOUS
    <3>2. S = Target(t, p) BY <2>8, <2>10, <2>18, <3>1, SearchIs
    <3>3. p \in Paths /\ Located2(e, p) /\ IsExecutableFile(e, p) BY <2>18, <3>1, SearchedPath
    <3>4. p.comps # << >> BY <2>18, <3>1, SearchedPath
    <3>5. \/ found = NotFound /\ e.pwd = EmptyPath /\ ~ p.abs
          \/ /\ found # NotFound /\ found.path.abs /\ found.path # EmptyPath
             /\ ReplaceCurrentProcess(e, found.path) = ReplaceCurrentProcess(e, p)
      BY <2>3, <2>18, <3>2, <3>3, <3>4, NormalizedIs
    <3>6. S.path = p BY <3>2 DEF Target
    <3>7. CASE t = "External"
      <4>1. meant = ReplaceCurrentProcess(e, p) BY <2>11, <2>12, <2>18, <3>1, <3>7 DEF RunExternal
      <4>2. meant.ran = "file"
        <5>1. ReplaceCurrentProcess(e, p) = RanFile(Place(e, p)) BY <3>3, ReplaceIs DEF LookedUp
        <5> QED BY <2>14, <4>1, <5>1
      <4>3. ASSUME found # NotFound PROVE printed = found.path /\ SimpleCommand(printed, e.path, e) = meant
        <5>1. printed = found.path BY <1>5, <3>5, <4>3 DEF Described
        <5> QED BY <3>5, <4>1, <4>3, <5>1, AbsoluteRuns
      <4> QED BY <1>8, <2>10, <3>5, <3>6, <4>2, <4>3
    <3>8. CASE t = "Builtin"
      <4>1. meant = RanBuiltin BY <2>11, <2>12, <2>18, <3>8 DEF ExecuteBuiltin
      <4>2. e.kind = "Substitutive" BY <2>18, <3>8 DEF NeedsPath
      <4> QED BY <1>8, <2>10, <2>14, <3>5, <3>6, <4>1, <4>2
    <3> QED BY <2>18, <3>7, <3>8 DEF NeedsPath
  <2>19. CASE ~ Slashed(name) /\ ~ NeedsPath(t, e)
    <3>1. S = Target(t, EmptyPath) BY <2>8, <2>10, <2>19, SearchIs
    <3>2. S # NotFound /\ S.target = t /\ S.path = EmptyPath BY <2>8, <3>1, SearchIs
    <3>3. found = S BY <2>3, <2>19, <3>2 DEF NormalizeTarget
    <3>4. printed = name BY <1>5, <3>2, <3>3 DEF Described
    <3>5. meant = RanBuiltin \/ meant = RanFunction
      BY <2>11, <2>12, <2>13, <2>19 DEF NeedsPath, ExecuteBuiltin
    <3>6. SimpleCommand(name, e.path, e) = meant
      <4>1. PICK f : f = [e EXCEPT !.path = e.path] OBVIOUS
      <4>2. Alike(e, f) /\ f.path = e.path /\ f.kind = e.kind /\ f.function = e.function BY <4>1, OtherPath
      <4>3. SimpleCommand(name, e.path, e) = Outcome(name, f) BY <4>1, SimpleCommandRuns
      <4> QED BY <2>11, <4>2, <4>3, AlikeOutcome
    <3> QED BY <1>8, <2>14, <3>2, <3>3, <3>4, <3>5, <3>6
  <2> QED BY <2>16, <2>17, <2>18, <2>19
<1> QED BY <1>7, <1>8

\* What the assumption says about one lookup.
LEMMA LookupsKnown ==
    ASSUME NEW base \in ShellStates, NEW dirs \in Seq(Dirs), NEW name \in CommandNames,
           NEW e, e = [base EXCEPT !.path = dirs]
    PROVE  IsShell(e) /\ LookedUp(name, e)
<1>1. IsShell(base) /\ Dirs \subseteq Paths /\ name \in Paths /\ name.comps # << >>
      /\ Dot \in Paths /\ "." \notin DashNames
  BY LookupAssumption
<1>2. Alike(base, e) /\ e.path = dirs /\ e.kind = base.kind /\ e.function = base.function
  <2>1. IsShell(base) BY <1>1
  <2>2. \A p, f : f = [base EXCEPT !.path = p] =>
          Alike(base, f) /\ f.path = p /\ f.kind = base.kind /\ f.function = base.function
    BY <2>1, OtherPath, Zenon
  <2> QED BY <2>2
<1>3. DOMAIN dirs = 1..Len(dirs) /\ \A k \in DOMAIN dirs : dirs[k] \in Dirs BY LenProperties, ElementOfSeq
<1>4. dirs \in Seq(Paths)
  <2>1. \A k \in 1..Len(dirs) : dirs[k] \in Paths BY <1>1, <1>3
  <2> QED BY <1>3, <2>1, SeqDef, LenProperties
<1>5. IsShell(e)
  <2>1. PICK fs, cwd : fs = base.files /\ cwd = base.cwd OBVIOUS
  <2>2. base \in [kind : {"None", "Special", "Mandatory", "Elective", "Extension", "Substitutive"},
                  function : BOOLEAN, posix : BOOLEAN, words : SUBSET {"Alias", "Keyword"},
                  files : {fs}, cwd : {cwd}, pwd : Paths, path : Seq(Paths), stdpath : Seq(Paths)]
    BY <1>1, <2>1 DEF IsShell
  <2>3. e \in [kind : {"None", "Special", "Mandatory", "Elective", "Extension", "Substitutive"},
               function : BOOLEAN, posix : BOOLEAN, words : SUBSET {"Alias", "Keyword"},
               files : {fs}, cwd : {cwd}, pwd : Paths, path : Seq(Paths), stdpath : Seq(Paths)]
    BY <1>4, <2>2
  <2>4. e.files = fs /\ e.cwd = cwd /\ e.pwd = base.pwd BY <1>2, <2>1 DEF Alike
  <2>5. base.files \in [DOMAIN base.files -> {"binary", "script", "plain"}]
        /\ (base.pwd = EmptyPath \/ base.pwd.abs)
    BY <1>1 DEF IsShell
  <2> QED BY <2>1, <2>3, <2>4, <2>5 DEF IsShell
<1>6. \A p \in Sought : Located2(base, p) BY LookupAssumption DEF Located2, Place
<1>7. \A p \in Sought : Located2(e, p) BY <1>2, <1>6, AlikeFiles
<1>8. \A d \in Dirs : Within(d, name) \in Sought BY DEF Sought
<1>9. \A k \in DOMAIN e.stdpath : e.stdpath[k] \in Dirs
  <2>1. e.stdpath = base.stdpath BY <1>2 DEF Alike
  <2>2. \A k \in DOMAIN base.stdpath : base.stdpath[k] \in {base.stdpath[j] : j \in DOMAIN base.stdpath} OBVIOUS
  <2>3. {base.stdpath[j] : j \in DOMAIN base.stdpath} \subseteq Dirs
    <3>1. {base.stdpath[j] : j \in DOMAIN base.stdpath} \in {{s.stdpath[j] : j \in DOMAIN s.stdpath} : s \in ShellStates}
      OBVIOUS
    <3> QED BY <3>1 DEF Dirs
  <2> QED BY <2>1, <2>2, <2>3
<1>10. name \in Sought BY DEF Sought
<1>11. ShellFields(e) BY <1>5 DEF IsShell, ShellFields
<1> QED BY <1>1, <1>2, <1>3, <1>5, <1>7, <1>8, <1>9, <1>10, <1>11 DEF LookedUp

\* Type correctness: the PATH so far is made of the directories of its set.
Probing ==
    probe \in [of : {"name"}, shell : ShellStates, pieces : PathSets, input : Seq(Dirs)]

\* For every kernel, shells, names and directories that are as LookupAssumption says, and
\* for a PATH of any length, a name has one meaning: simple commands, the command built-in
\* and exec run the same, and what command -v says is true (NamesAgree; simple_command.rs:
\* execute; search.rs; command/invoke.rs, identify.rs; exec.rs).
THEOREM NamesHaveOneMeaning == NameSpec => []NamesAgree
<1>1. NameInit => Probing
  <2> SUFFICES ASSUME NameInit PROVE Probing OBVIOUS
  <2>1. PICK e \in ShellStates, q \in PathSets :
          probe = [of |-> "name", shell |-> e, pieces |-> q, input |-> << >>]
    BY DEF NameInit
  <2>2. << >> \in Seq(Dirs) OBVIOUS
  <2> QED BY <2>1, <2>2 DEF Probing
<1>2. Probing /\ [NameNext]_probe => Probing'
  <2> SUFFICES ASSUME Probing, [NameNext]_probe PROVE Probing' OBVIOUS
  <2>1. CASE UNCHANGED probe BY <2>1 DEF Probing
  <2>2. CASE NameNext
    <3>1. PICK dir \in probe.pieces.set : probe' = [probe EXCEPT !.input = Append(@, dir)]
      BY <2>2 DEF NameNext
    <3>2. probe.pieces \in PathSets /\ probe.input \in Seq(Dirs) BY DEF Probing
    <3>3. dir \in Dirs BY <3>2 DEF Dirs
    <3>4. PICK dirs : dirs = Append(probe.input, dir) OBVIOUS
    <3>5. dirs \in Seq(Dirs) BY <3>2, <3>3, <3>4, AppendProperties
    <3>6. probe' = [probe EXCEPT !.input = dirs] BY <3>1, <3>4
    <3> QED BY <3>5, <3>6 DEF Probing
  <2> QED BY <2>1, <2>2
<1>3. Probing => NamesAgree
  <2> SUFFICES ASSUME Probing, NEW name \in CommandNames
               PROVE  RunsRight(name, Shell) /\ ToldRight(name, Shell)
    BY DEF NamesAgree
  <2>1. probe.shell \in ShellStates /\ probe.input \in Seq(Dirs) BY DEF Probing
  <2>2. PICK e : e = [probe.shell EXCEPT !.path = probe.input] OBVIOUS
  <2>3. IsShell(e) /\ LookedUp(name, e) BY <2>1, <2>2, LookupsKnown
  <2>4. RunsRight(name, e) /\ ToldRight(name, e) BY <2>3, AllRunRight, AllToldRight
  <2> QED BY <2>2, <2>4 DEF Shell
<1> QED BY <1>1, <1>2, <1>3, PTL DEF NameSpec
=============================================================================
