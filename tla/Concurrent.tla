----------------------------- MODULE Concurrent -----------------------------
(***************************************************************************)
(* Concurrent (yash-env/src/system/concurrency.rs): what lets the tasks of *)
(* one shell process wait for file descriptors, for times and for signals  *)
(* with a single select. A task that cannot go on leaves a waker; select   *)
(* calls the wakers of the tasks that can.                                 *)
(*                                                                         *)
(* A waker is kept in a cell owned by the future that waits, and the maps  *)
(* hold weak references to cells: a future that completes or is dropped    *)
(* takes its cell away, which removes the task from the sets below but not *)
(* the file descriptor from the keys of `reads` and `writes`.              *)
(***************************************************************************)
EXTENDS Naturals, FiniteSets

CONSTANTS
    Task,       \* the tasks of the process; each awaits one thing at a time
    Fd, Signal,
    File,       \* open file descriptions, which processes may share
    FileOf,     \* the one each descriptor refers to; dup makes two the same
    Slots,      \* the length of CAUGHT_SIGNALS
    MaxTime, MaxArrivals,   \* bounds on the clock and on the signals sent
    None

ASSUME ConcurrentAssumption ==
    /\ MaxTime \in Nat /\ MaxArrivals \in Nat /\ Slots \in Nat
    /\ None \notin Task /\ None \notin Fd
    /\ FileOf \in [Fd -> File]

VARIABLES
    op,         \* what each task awaits
    cell,       \* tasks whose waker cell holds a waker
    reads, writes,          \* State::reads, State::writes
    timeouts,   \* State::timeouts
    catches,    \* State::catches
    list,       \* the SignalList a task holds, if any; it is "open" as long
                \* as State::signals refers to it
    due,        \* tasks to be polled: new or woken
    guard,      \* what the task's TemporaryNonBlockingGuard will do
    stuck,      \* the task whose read or write blocks the process, or None
    nonblock,   \* descriptions in non-blocking mode
    readable, writable, \* descriptions by what the kernel says of them
    opened,     \* descriptors that are open
    arrived,    \* signals blocked and pending
    slots,      \* CAUGHT_SIGNALS
    now, budget,
    owed,       \* history: signals sent and not yet seen by a task
    shared      \* history: descriptions that two tasks have used at once,
                \* or whose mode another process has changed

tasks == <<op, cell, list, due, guard, stuck>>
maps == <<reads, writes, timeouts, catches>>
files == <<nonblock, readable, writable, opened>>
signals == <<arrived, slots, budget, owed>>
vars == <<tasks, maps, files, signals, now, shared>>

Time == 0..MaxTime
Kinds == {"read", "write"}
Op(kind, fd, until) == [kind |-> kind, fd |-> fd, until |-> until]
Idle == Op("none", None, 0)
Ops == {Idle, Op("signals", None, 0)}
        \cup [kind : Kinds, fd : Fd, until : {0}]
        \cup [kind : {"sleep"}, fd : {None}, until : Time]

(* SignalList.                                                             *)
List(st, caught) == [st |-> st, caught |-> caught]
NoList == List("none", {})
OpenList == List("open", {})
Lists == {NoList, OpenList} \cup [st : {"filled"}, caught : SUBSET Signal]

Open(t) == list[t].st = "open"

(* HashMap<Fd, WakerSet>.                                                  *)
Map == [keys : SUBSET Fd, wakers : [Fd -> SUBSET Task]]
EmptyMap == [keys |-> {}, wakers |-> [fd \in Fd |-> {}]]

Without(m, t) == [keys |-> m.keys, wakers |-> [fd \in Fd |-> m.wakers[fd] \ {t}]]

With(m, fd, t) ==
    [keys |-> m.keys \cup {fd},
     wakers |-> [m.wakers EXCEPT ![fd] = @ \cup {t}]]

(* wake_tasks_for_ready_fds: the map afterwards and the tasks in it woken. *)
Kept(m, ready) ==
    [keys |-> m.keys \ ready,
     wakers |-> [fd \in Fd |-> IF fd \in ready THEN {} ELSE m.wakers[fd]]]

Woken(m, ready) == UNION {m.wakers[fd] : fd \in m.keys \cap ready}

Init ==
    /\ op = [t \in Task |-> Idle]
    /\ cell = {} /\ due = {} /\ catches = {}
    /\ list = [t \in Task |-> NoList]
    /\ guard = [t \in Task |-> "none"]
    /\ stuck = None
    /\ reads = EmptyMap /\ writes = EmptyMap
    /\ timeouts = [t \in {} |-> 0]
    /\ nonblock = {} /\ readable = {} /\ writable = {} /\ opened = Fd
    /\ arrived = {} /\ slots = {} /\ owed = {}
    /\ now = 0 /\ budget = MaxArrivals /\ shared = {}

-----------------------------------------------------------------------------
Running == stuck = None

InUse(fd) == \E t \in Task : op[t].fd = fd

Uses(t, file) == op[t].kind \in Kinds /\ FileOf[op[t].fd] = file

InUseNow(file) == \E t \in Task : Uses(t, file)

\* A wrong version: the descriptor stays in blocking mode.
StartIOUnguarded(t, kind, fd) ==
    /\ Running /\ op[t] = Idle
    /\ fd \in opened
    /\ shared' = shared \cup {file \in {FileOf[fd]} : InUseNow(file)}
    /\ op' = [op EXCEPT ![t] = Op(kind, fd, 0)]
    /\ guard' = [guard EXCEPT ![t] = "keep"]
    /\ due' = due \cup {t}
    /\ UNCHANGED <<cell, list, stuck, maps, nonblock, readable, writable, opened, signals, now>>

(* Read::read, Write::write, read_all and write_all begin: the guard sets  *)
(* the descriptor to non-blocking mode, that is, its description.          *)
StartIO(t, kind, fd) ==
    /\ Running /\ op[t] = Idle
    /\ fd \in opened
    /\ shared' = shared \cup {file \in {FileOf[fd]} : InUseNow(file)}
    /\ op' = [op EXCEPT ![t] = Op(kind, fd, 0)]
    /\ guard' = [guard EXCEPT ![t] = IF FileOf[fd] \in nonblock THEN "keep" ELSE "restore"]
    /\ nonblock' = nonblock \cup {FileOf[fd]}
    /\ due' = due \cup {t}
    /\ UNCHANGED <<cell, list, stuck, maps, readable, writable, opened, signals, now>>

(* Sleep::sleep_until.                                                     *)
StartSleep(t, until) ==
    /\ Running /\ op[t] = Idle
    /\ op' = [op EXCEPT ![t] = Op("sleep", None, until)]
    /\ due' = due \cup {t}
    /\ UNCHANGED <<cell, list, guard, stuck, maps, files, signals, now, shared>>

(* WaitForSignals::wait_for_signals: the list is shared with the tasks     *)
(* that wait already.                                                      *)
StartWait(t) ==
    /\ Running /\ op[t] = Idle
    /\ op' = [op EXCEPT ![t] = Op("signals", None, 0)]
    /\ list' = [list EXCEPT ![t] = OpenList]
    /\ due' = due \cup {t}
    /\ UNCHANGED <<cell, guard, stuck, maps, files, signals, now, shared>>

(* The descriptions in non-blocking mode after the guard of t is dropped.  *)
Mode(t) == IF guard[t] = "restore" THEN nonblock \ {FileOf[op[t].fd]} ELSE nonblock

(* The future of t is gone, complete or dropped, and its cell, its list    *)
(* and its guard with it.                                                  *)
Finish(t) ==
    /\ op' = [op EXCEPT ![t] = Idle]
    /\ cell' = cell \ {t}
    /\ due' = due \ {t}
    /\ list' = [list EXCEPT ![t] = NoList]
    /\ guard' = [guard EXCEPT ![t] = "none"]
    /\ nonblock' = Mode(t)
    /\ reads' = Without(reads, t)
    /\ writes' = Without(writes, t)
    /\ timeouts' = [u \in DOMAIN timeouts \ {t} |-> timeouts[u]]
    /\ catches' = catches \ {t}
    /\ UNCHANGED <<stuck, readable, writable, opened, now, shared>>

\* The task leaves its waker in its cell and returns Pending.
Pend(t) ==
    /\ cell' = cell \cup {t}
    /\ due' = due \ {t}
    /\ UNCHANGED <<op, list, guard, stuck, files, signals, now, shared>>

Ready(t) == FileOf[op[t].fd] \in IF op[t].kind = "read" THEN readable ELSE writable

(* One turn of the loop of read or write: it returns the result, unless    *)
(* the call would block, or was interrupted. A task may be polled without  *)
(* having been woken.                                                      *)
PollIO(t) ==
    /\ Running /\ op[t].kind \in Kinds
    /\ \/ /\ Ready(t)
          /\ Finish(t)
          /\ UNCHANGED signals
       \/ /\ ~Ready(t) /\ FileOf[op[t].fd] \in nonblock
          /\ Pend(t)
          /\ reads' = IF op[t].kind = "read" THEN With(reads, op[t].fd, t) ELSE reads
          /\ writes' = IF op[t].kind = "write" THEN With(writes, op[t].fd, t) ELSE writes
          /\ UNCHANGED <<timeouts, catches>>

(* The call blocks: the descriptor is not in non-blocking mode.            *)
Block(t) ==
    /\ Running /\ op[t].kind \in Kinds
    /\ ~Ready(t) /\ FileOf[op[t].fd] \notin nonblock
    /\ stuck' = t
    /\ UNCHANGED <<op, cell, list, due, guard, maps, files, signals, now, shared>>

Unblock ==
    /\ stuck # None /\ Ready(stuck)
    /\ stuck' = None
    /\ UNCHANGED <<op, cell, list, due, guard, maps, files, signals, now, shared>>

(* ScheduledWakerQueue::push keeps the earlier of two times.               *)
Pushed(t, until) ==
    [u \in DOMAIN timeouts \cup {t} |->
        IF u # t THEN timeouts[u]
        ELSE IF t \in DOMAIN timeouts /\ timeouts[t] <= until THEN timeouts[t]
        ELSE until]

PollSleep(t) ==
    /\ Running /\ op[t].kind = "sleep"
    /\ \/ /\ now >= op[t].until
          /\ Finish(t)
          /\ UNCHANGED signals
       \/ /\ now < op[t].until
          /\ Pend(t)
          /\ timeouts' = Pushed(t, op[t].until)
          /\ UNCHANGED <<reads, writes, catches>>

PollWait(t) ==
    /\ Running /\ op[t].kind = "signals"
    /\ \/ /\ ~Open(t)
          /\ Finish(t)
          /\ owed' = owed \ list[t].caught
          /\ UNCHANGED <<arrived, slots, budget>>
       \/ /\ Open(t)
          /\ Pend(t)
          /\ catches' = catches \cup {t}
          /\ UNCHANGED <<reads, writes, timeouts>>

(* The future is dropped before it completes. That a list with signals in  *)
(* it is dropped is the affair of the caller (see Interruptible).          *)
Cancel(t) ==
    /\ Running /\ op[t] # Idle
    /\ list[t].st # "filled"
    /\ Finish(t)
    /\ UNCHANGED signals

-----------------------------------------------------------------------------
\* A wrong version: signals are let in and taken though nobody awaits them.
AwaitedAlways == TRUE

(* select_impl. Signals are let in only if some task awaits them. The call *)
(* fails with EINTR if it delivers any; if a descriptor has been closed it *)
(* fails and the sets are left as they were; otherwise it returns the      *)
(* descriptors that are ready.                                             *)
Awaited == \E t \in Task : Open(t)

\* catch_signal, the handler: a signal that finds no slot is lost.
Delivered(S) ==
    CHOOSE D \in SUBSET (slots \cup S) :
        /\ slots \subseteq D
        /\ Cardinality(D) <= Slots
        /\ D = slots \cup S \/ Cardinality(D) = Slots

\* ScheduledWakerQueue::next_wake_time has come.
Expired == \E t \in DOMAIN timeouts : timeouts[t] <= now

\* A wrong version: the tasks whose wakers are removed are not woken.
AfterSelectForgets(result, r, w, C) ==
    /\ reads' = Kept(reads, r)
    /\ writes' = Kept(writes, w)
    /\ list' = [t \in Task |-> IF Open(t) /\ C # {} THEN List("filled", C) ELSE list[t]]
    /\ slots' = {}
    /\ UNCHANGED <<timeouts, catches, due, cell>>

(* What select does after the call returned `result` with the given ready  *)
(* sets, the caught signals being in C.                                    *)
AfterSelect(result, r, w, C) ==
    LET filled == C # {} /\ Awaited
        rested == {t \in DOMAIN timeouts : timeouts[t] <= now}
        woken == (IF result = "EINTR" THEN {} ELSE Woken(reads, r) \cup Woken(writes, w))
                    \cup rested \cup (IF filled THEN catches ELSE {})
    IN /\ reads' = IF result = "EINTR" THEN reads ELSE Kept(reads, r)
       /\ writes' = IF result = "EINTR" THEN writes ELSE Kept(writes, w)
       /\ timeouts' = [t \in DOMAIN timeouts \ rested |-> timeouts[t]]
       /\ list' = IF ~filled THEN list
                  ELSE [t \in Task |-> IF Open(t) THEN List("filled", C) ELSE list[t]]
       /\ catches' = IF filled THEN {} ELSE catches
       /\ slots' = IF Awaited THEN {} ELSE C
       /\ due' = due \cup (woken \cap cell)
       /\ cell' = cell \ woken

\* The descriptors among `fds` whose descriptions are among `descriptions`.
On(fds, descriptions) == {fd \in fds : FileOf[fd] \in descriptions}

\* The main loop calls select once every task has been polled; peek is
\* called at any time and does not wait.
Select(peek) ==
    /\ Running /\ (peek \/ due = {})
    /\ LET r == On(reads.keys, readable)
           w == On(writes.keys, writable)
       IN \/ /\ Awaited /\ arrived # {}
             /\ AfterSelect("EINTR", {}, {}, Delivered(arrived))
             /\ arrived' = {}
          \/ /\ ~(Awaited /\ arrived # {})
             /\ ~((reads.keys \cup writes.keys) \subseteq opened)
             /\ AfterSelect("EBADF", reads.keys, writes.keys, slots)
             /\ UNCHANGED arrived
          \/ /\ (reads.keys \cup writes.keys) \subseteq opened
             /\ r # {} \/ w # {} \/ ((peek \/ Expired) /\ ~(Awaited /\ arrived # {}))
             /\ AfterSelect("ok", r, w, slots)
             /\ UNCHANGED arrived
    /\ UNCHANGED <<op, guard, stuck, files, budget, owed, now, shared>>

-----------------------------------------------------------------------------
(* The rest of the world. Descriptors are closed by the shell itself, when *)
(* nothing awaits them any more.                                           *)
Arrive(s) ==
    /\ budget > 0
    /\ budget' = budget - 1
    /\ arrived' = arrived \cup {s}
    /\ owed' = owed \cup {s}
    /\ UNCHANGED <<tasks, maps, files, slots, now, shared>>

Flip(S, file) == IF file \in S THEN S \ {file} ELSE S \cup {file}

Change(file) ==
    /\ \/ readable' = Flip(readable, file) /\ UNCHANGED writable
       \/ writable' = Flip(writable, file) /\ UNCHANGED readable
    /\ UNCHANGED <<tasks, maps, nonblock, opened, signals, now, shared>>

(* Another process, such as a child that inherited the description, sets   *)
(* its mode, or puts it back.                                              *)
Meddle(file) ==
    /\ nonblock' = Flip(nonblock, file)
    /\ shared' = shared \cup {file}
    /\ UNCHANGED <<tasks, maps, readable, writable, opened, signals, now>>

Close(fd) ==
    /\ Running /\ fd \in opened /\ ~InUse(fd)
    /\ opened' = opened \ {fd}
    /\ UNCHANGED <<tasks, maps, nonblock, readable, writable, signals, now, shared>>

Tick ==
    /\ now < MaxTime
    /\ now' = now + 1
    /\ UNCHANGED <<tasks, maps, files, signals, shared>>

Poll(t) == PollIO(t) \/ PollSleep(t) \/ PollWait(t)

Next ==
    \/ \E t \in Task :
          \/ \E fd \in Fd, kind \in Kinds : StartIO(t, kind, fd)
          \/ \E until \in Time : StartSleep(t, until)
          \/ StartWait(t) \/ Poll(t) \/ Block(t) \/ Cancel(t)
    \/ \E peek \in BOOLEAN : Select(peek)
    \/ \E s \in Signal : Arrive(s)
    \/ \E file \in File : Change(file) \/ Meddle(file)
    \/ \E fd \in Fd : Close(fd)
    \/ Unblock \/ Tick

Spec == Init /\ [][Next]_vars

(* The main loop polls what is to be polled and then calls select. Futures *)
(* are created and dropped only while the loop polls, so that they cannot  *)
(* keep it from calling select again and again: fairness is strong.        *)
Fairness ==
    /\ \A t \in Task : WF_vars(t \in due /\ (Poll(t) \/ Block(t)))
    /\ SF_vars(Select(FALSE))

FairSpec == Spec /\ Fairness

-----------------------------------------------------------------------------
TypeOK ==
    /\ op \in [Task -> Ops]
    /\ cell \subseteq Task /\ due \subseteq Task /\ catches \subseteq Task
    /\ reads \in Map /\ writes \in Map
    /\ DOMAIN timeouts \subseteq Task /\ \A t \in DOMAIN timeouts : timeouts[t] \in Time
    /\ list \in [Task -> Lists]
    /\ guard \in [Task -> {"none", "restore", "keep"}]
    /\ stuck \in Task \cup {None}
    /\ {nonblock, readable, writable, shared} \subseteq SUBSET File
    /\ opened \subseteq Fd
    /\ {arrived, slots, owed} \subseteq SUBSET Signal
    /\ now \in Time /\ budget \in 0..MaxArrivals

(* No wake-up is lost: a task that is not about to be polled has left its  *)
(* waker where select will find it when what it awaits comes about, and    *)
(* what it awaits is what select asks the kernel for.                      *)
LeftWaker(t) ==
    /\ t \in cell
    /\ op[t].kind = "read" => op[t].fd \in reads.keys /\ t \in reads.wakers[op[t].fd]
    /\ op[t].kind = "write" => op[t].fd \in writes.keys /\ t \in writes.wakers[op[t].fd]
    /\ op[t].kind = "sleep" => t \in DOMAIN timeouts /\ timeouts[t] = op[t].until
    /\ op[t].kind = "signals" => t \in catches /\ Open(t)

Registered == \A t \in Task : op[t] # Idle /\ t \notin due => LeftWaker(t)

(* No signal is lost on its way from the kernel to a task: not when select *)
(* fails, not when nobody awaits signals, not when tasks come and go.      *)
NoneLost ==
    owed \subseteq arrived \cup slots \cup UNION {list[t].caught : t \in Task}

(* Descriptions are in non-blocking mode only as long as a task uses them: *)
(* the mode they had is restored by whoever changed it, if no other        *)
(* process has a hand in it.                                               *)
ModeRestored ==
    \A file \in nonblock \ shared :
        \E t \in Task : Uses(t, file) /\ guard[t] = "restore"

(* A read or a write blocks the process, and every other task in it, only  *)
(* on a description that two tasks have used at once, be it through two    *)
(* descriptors, or whose mode another process has changed: the guard of    *)
(* one that is done then puts it back to blocking mode under the other.    *)
(* As long as no two do, nobody blocks.                                    *)
BlocksOnlyIfShared == stuck # None => FileOf[op[stuck].fd] \in shared

(* What the invariants rest on: only waiting futures own cells, guards and *)
(* lists, and the sets hold no task that waits for something else.         *)
Owns(t) ==
    /\ guard[t] # "none" <=> op[t].kind \in Kinds
    /\ list[t] # NoList <=> op[t].kind = "signals"
    /\ op[t] = Idle => t \notin cell /\ t \notin due
    /\ t \in catches => op[t].kind = "signals"
    /\ t \in DOMAIN timeouts => op[t].kind = "sleep" /\ timeouts[t] = op[t].until
    /\ \A fd \in Fd :
          /\ t \in reads.wakers[fd] => op[t].kind = "read" /\ op[t].fd = fd
          /\ t \in writes.wakers[fd] => op[t].kind = "write" /\ op[t].fd = fd

Owned == \A t \in Task : Owns(t)

(* A description that only one task uses is in non-blocking mode.          *)
Guarded ==
    \A t \in Task, file \in File : Uses(t, file) /\ file \notin shared =>
        file \in nonblock /\ \A u \in Task \ {t} : ~Uses(u, file)

(* The handler finds room for what it stores.                              *)
SlotsFit == IsFiniteSet(arrived) /\ IsFiniteSet(slots) /\ Cardinality(slots) <= Slots

IInv ==
    /\ TypeOK /\ Registered /\ ModeRestored /\ Owned
    /\ Guarded /\ BlocksOnlyIfShared /\ SlotsFit

(* A task that awaits a descriptor that is ready goes on, unless the       *)
(* process blocks.                                                         *)
IOCompletes ==
    \A t \in Task :
        (op[t].kind \in Kinds /\ Ready(t)) ~> (op[t].kind \notin Kinds \/ ~Ready(t) \/ ~Running)

(* A task that sleeps until a time that has come goes on, unless the       *)
(* process blocks.                                                         *)
SleepCompletes ==
    \A t \in Task :
        (op[t].kind = "sleep" /\ now >= op[t].until) ~> (op[t].kind # "sleep" \/ ~Running)

=============================================================================
