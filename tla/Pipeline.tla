------------------------------ MODULE Pipeline ------------------------------
(***************************************************************************)
(* Multi-command pipelines (yash-semantics/src/command/pipeline.rs) on the *)
(* virtual system: the shell connects and starts one child per command,    *)
(* the children move the pipe ends to their standard input and output and  *)
(* run, and the shell waits for all of them.                               *)
(*                                                                         *)
(* Process 0 is the shell (or the subshell of a job-controlled pipeline),  *)
(* process c the child that runs the c-th command, and pipe c connects     *)
(* command c to command c + 1.  The commands are small programs that read  *)
(* and write as those in pipelines do.  A process that waits for a pipe    *)
(* sleeps until the pipe wakes it.                                         *)
(***************************************************************************)
EXTENDS FdTable, Fifo, Sequences

CONSTANTS
    N,              \* number of commands, two or more
    StartFds,       \* the sets of descriptors the shell may have open
    Kinds,          \* the programs of the commands, see Program
    WriteSizes,     \* numbers of bytes a program writes at a time
    StartMayFail    \* whether starting a child may fail (EAGAIN)

ASSUME PipelineAssumption ==
    /\ N \in Nat /\ N >= 2
    /\ StartFds \subseteq SUBSET (0 .. OpenMax - 1)
    /\ Kinds \subseteq {"producer", "filter", "head", "null"}
    /\ WriteSizes \subseteq Nat \ {0}
    /\ StartMayFail \in BOOLEAN

None == -1
Child == 1 .. N
Pipes == 1 .. N - 1

\* Descriptions: the shell's own, and the two ends of each pipe.
Own(f) == [end |-> "own", of |-> f]
ReadEnd(p) == [end |-> "read", of |-> p]
WriteEnd(p) == [end |-> "write", of |-> p]
Ofd == [end : {"own", "read", "write"}, of : Nat]

VARIABLES
    pc,         \* where the shell is in execute_multi_command_pipeline
    next,       \* the command that is started or waited for
    pipes,      \* PipeSet: read_previous and the pair "next"
    pipefail,   \* the PipeFail option, once it has been read
    fds,        \* descriptor tables of the processes
    fifo,       \* the pipes
    state,      \* states of the children
    kind,       \* what each child's command does
    io,         \* the I/O operation of each child: kind and bytes left
    asleep,     \* children whose waker waits for a pipe
    status,     \* exit statuses, None until the child exits
    final       \* final_exit_status

vars == <<pc, next, pipes, pipefail, fds, fifo, state, kind, io, asleep, status, final>>
shellVars == <<pc, next, pipes, pipefail, final>>

\* Exit statuses: success and two kinds of failure.
Statuses == {0, 1, 2}

NoPipes == [prev |-> None, reader |-> None, writer |-> None]
Idle == [op |-> "none", left |-> 0]

TypeOK ==
    /\ pc \in {"shift", "start", "last_shift", "wait", "done", "interrupt"}
    /\ next \in 1 .. N + 1
    /\ pipes \in [prev : Int, reader : Int, writer : Int]
    /\ pipefail \in BOOLEAN
    /\ \A p \in 0 .. N : IsTable(fds[p], Ofd)
    /\ fifo \in [Pipes -> FifoType(Child)]
    /\ state \in [Child -> {"unborn", "connecting", "running", "zombie", "reaped"}]
    /\ kind \in [Child -> Kinds]
    /\ io \in [Child -> [op : {"none", "read", "write", "exit"}, left : Nat]]
    /\ asleep \subseteq Child
    /\ status \in [Child -> {None} \union Statuses]
    /\ final \in Statuses

Init ==
    /\ pc = "shift"
    /\ next = 1
    /\ pipes = NoPipes
    /\ pipefail = FALSE
    /\ \E D \in StartFds :
          fds = [p \in 0 .. N |->
                    IF p = 0 THEN [f \in D |-> Body(Own(f), FALSE)] ELSE <<>>]
    /\ fifo = [p \in Pipes |-> NewFifo]
    /\ state = [c \in Child |-> "unborn"]
    /\ kind \in [Child -> Kinds]
    /\ io = [c \in Child |-> Idle]
    /\ asleep = {}
    /\ status = [c \in Child |-> None]
    /\ final = 0

-----------------------------------------------------------------------------
Held(tables) == UNION {{tables[p][f].ofd : f \in DOMAIN tables[p]} : p \in 0 .. N}
HasReaders(tables, p) == ReadEnd(p) \in Held(tables)
HasWriters(tables, p) == WriteEnd(p) \in Held(tables)

\* A description is dropped with the last descriptor that refers to it, and
\* the pipe wakes those who wait for it.  Who has no descriptors waits for none.
Dropped == {ofd.of : ofd \in {o \in Held(fds) \ Held(fds') : o.end # "own"}}
SetTable(p, t) ==
    /\ fds' = [fds EXCEPT ![p] = t]
    /\ fifo' = [q \in Pipes |-> IF q \in Dropped THEN ClosedFifo(fifo[q]) ELSE fifo[q]]
    /\ asleep' = asleep \ UNION ({WokenByClose(fifo[q]) : q \in Dropped} \union (IF t = <<>> THEN {{p}} ELSE {}))

CloseIf(t, fd) == IF fd = None THEN t ELSE CloseFd(t, fd)

\* PipeSet::shift: the previous reading end and the writing end are closed,
\* the reading end becomes the previous one, and there is a new pipe if there
\* is another command.
AfterCloses == CloseIf(CloseIf(fds[0], pipes.prev), pipes.writer)
ShiftFails(hasNext) == hasNext /\ ~CanPipe(AfterCloses)
Shift(hasNext) ==
    \E t \in {AfterCloses} :
        IF hasNext /\ CanPipe(t)
          THEN /\ SetTable(0, Pipe(t, ReadEnd(next), WriteEnd(next)))
               /\ pipes' = [prev |-> pipes.reader,
                            reader |-> PipeReader(t), writer |-> PipeWriter(t)]
          ELSE /\ SetTable(0, t)
               /\ pipes' = [NoPipes EXCEPT !.prev = pipes.reader]

ShellShifts ==
    /\ pc = "shift"
    /\ Shift(next < N)
    /\ pc' = IF ShiftFails(next < N) THEN "interrupt" ELSE "start"
    /\ UNCHANGED <<next, pipefail, state, kind, io, status, final>>

\* Subshell start: the child has a copy of the shell's descriptors.
ShellStarts ==
    /\ pc = "start"
    /\ SetTable(next, fds[0])
    /\ state' = [state EXCEPT ![next] = "connecting"]
    /\ next' = next + 1
    /\ pc' = IF next < N THEN "shift" ELSE "last_shift"
    /\ UNCHANGED <<pipes, pipefail, kind, io, status, final>>

\* pid_or_fail: the pipeline is abandoned with the children started so far.
ShellCannotStart ==
    /\ StartMayFail
    /\ pc = "start"
    /\ pc' = "interrupt"
    /\ UNCHANGED <<next, pipes, pipefail, fds, fifo, state, kind, io, asleep, status, final>>

\* The option is read when all commands have been started.
ShellLastShift ==
    /\ pc = "last_shift"
    /\ Shift(FALSE)
    /\ pc' = "wait"
    /\ next' = 1
    /\ pipefail' \in BOOLEAN
    /\ UNCHANGED <<state, kind, io, status, final>>

\* The children are waited for in the order of the commands.
Collected(final_exit_status, exit_status) ==
    IF exit_status # 0 \/ ~pipefail THEN exit_status ELSE final_exit_status

ShellWaits ==
    /\ pc = "wait"
    /\ state[next] = "zombie"
    /\ state' = [state EXCEPT ![next] = "reaped"]
    /\ final' = Collected(final, status[next])
    /\ next' = next + 1
    /\ pc' = IF next < N THEN "wait" ELSE "done"
    /\ UNCHANGED <<pipes, pipefail, fds, fifo, kind, io, asleep, status>>

-----------------------------------------------------------------------------
\* What the child knows of the pipes: those of the shell when it was started.
\* Their descriptors are where the ends were in the copied table.
At(t, ofd) == IF \E f \in DOMAIN t : t[f].ofd = ofd
                THEN CHOOSE f \in DOMAIN t : t[f].ofd = ofd ELSE None
\* A wrong version: the child does not close the reading end of its own pipe.
PipesOfUnclosed(c) == [prev |-> At(fds[c], ReadEnd(c - 1)),
                       reader |-> None, writer |-> At(fds[c], WriteEnd(c))]
PipesOf(c) == [prev |-> At(fds[c], ReadEnd(c - 1)),
               reader |-> At(fds[c], ReadEnd(c)), writer |-> At(fds[c], WriteEnd(c))]

\* PipeSet::move_to_stdin_stdout.  The reading end of the next pipe has been
\* closed; the previous reading end is moved out of the way of the writing end
\* if it is at standard output, the writing end becomes standard output and
\* the previous reading end standard input.
\* A wrong version: standard output is overwritten with the previous reading
\* end still there.
NeverMovesPrevious(s) == FALSE
MovesPrevious(s) == s.writer \notin {None, 1} /\ s.prev = 1
MovePrevious(t, s) == IF MovesPrevious(s) THEN Dup(t, 1, 0, FALSE) ELSE t
PreviousAt(t, s) == IF MovesPrevious(s) THEN MinUnusedFd(t, 0) ELSE s.prev
MoveTo(t, fd, target) ==
    IF fd \in {None, target} THEN t ELSE CloseFd(Dup2(t, fd, target), fd)

Connect(c) ==
    /\ state[c] = "connecting"
    /\ \E s \in {PipesOf(c)} : \E t \in {CloseIf(fds[c], s.reader)} :
          IF MovesPrevious(s) => CanDup(t, 1, 0)
            THEN /\ \E u \in {MovePrevious(t, s)}, prev \in {PreviousAt(t, s)} :
                       SetTable(c, MoveTo(MoveTo(u, s.writer, 1), prev, 0))
                 /\ state' = [state EXCEPT ![c] = "running"]
                 /\ UNCHANGED status
            ELSE /\ SetTable(c, <<>>)
                 /\ state' = [state EXCEPT ![c] = "zombie"]
                 /\ status' = [status EXCEPT ![c] = 1]
    /\ UNCHANGED <<kind, io, shellVars>>

\* Exit::exit closes the descriptors.
Exit(c, exit_status) ==
    /\ SetTable(c, <<>>)
    /\ state' = [state EXCEPT ![c] = "zombie"]
    /\ status' = [status EXCEPT ![c] = exit_status]
    /\ io' = [io EXCEPT ![c] = Idle]
    /\ UNCHANGED <<kind, shellVars>>

\* The program of a command decides to do an I/O operation, or to exit.
Program(c) ==
    /\ state[c] = "running"
    /\ io[c].op = "none"
    /\ \/ /\ kind[c] = "producer"
          /\ \E n \in WriteSizes : io' = [io EXCEPT ![c] = [op |-> "write", left |-> n]]
          /\ UNCHANGED <<fds, fifo, state, kind, asleep, status, shellVars>>
       \/ /\ kind[c] \in {"filter", "head"}
          /\ io' = [io EXCEPT ![c] = [op |-> "read", left |-> 1]]
          /\ UNCHANGED <<fds, fifo, state, kind, asleep, status, shellVars>>
       \/ /\ kind[c] = "null"
          /\ \E exit_status \in Statuses : Exit(c, exit_status)

\* The outcome of a poll: the pipe, and those it wakes.
Polled(c, p, r, then) ==
    /\ fifo' = [fifo EXCEPT ![p] = r.fifo]
    /\ asleep' = IF r.done THEN asleep \ r.woken ELSE (asleep \union {c}) \ r.woken
    /\ io' = [io EXCEPT ![c] = then]
    /\ UNCHANGED <<fds, state, kind, status, shellVars>>

\* read of standard input.  The shell's own input is at its end.
Read(c) ==
    /\ state[c] = "running" /\ io[c].op = "read" /\ c \notin asleep
    /\ IF 0 \notin DOMAIN fds[c] \/ fds[c][0].ofd.end # "read"
         THEN Exit(c, IF 0 \in DOMAIN fds[c] THEN 0 ELSE 1)
         ELSE LET p == fds[c][0].ofd.of
                  r == PollRead(fifo[p], HasWriters(fds, p), c, io[c].left)
              IN  IF ~r.done THEN Polled(c, p, r, io[c])
                  ELSE IF r.count > 0 /\ kind[c] = "filter"
                    THEN Polled(c, p, r, [op |-> "write", left |-> r.count])
                    ELSE Polled(c, p, r, [op |-> "exit", left |-> 0])

\* write to standard output, one pass of poll_write_full: it goes on until all
\* bytes are written.  The shell's own output takes everything.
Write(c) ==
    /\ state[c] = "running" /\ io[c].op = "write" /\ c \notin asleep
    /\ IF 1 \notin DOMAIN fds[c] THEN Exit(c, 1)
       ELSE IF fds[c][1].ofd.end # "write"
         THEN /\ io' = [io EXCEPT ![c] = Idle]
              /\ UNCHANGED <<fds, fifo, state, kind, asleep, status, shellVars>>
         ELSE LET p == fds[c][1].ofd.of
                  r == PollWrite(fifo[p], HasReaders(fds, p), c, io[c].left)
              IN  IF ~r.done THEN Polled(c, p, r, io[c])
                  ELSE IF r.count = 0 THEN Exit(c, 1)
                  ELSE Polled(c, p, r,
                          IF r.count = io[c].left THEN Idle
                          ELSE [io[c] EXCEPT !.left = @ - r.count])

\* The input has ended or enough has been read.
Leave(c) ==
    /\ state[c] = "running" /\ io[c].op = "exit"
    /\ \E exit_status \in Statuses : Exit(c, exit_status)

\* A signal ends the child, wherever it is, and its descriptors are closed.
Killed(c) == state[c] \in {"connecting", "running"} /\ Exit(c, 2)

Shell ==
    \/ ShellShifts
    \/ ShellStarts
    \/ ShellCannotStart
    \/ ShellLastShift
    \/ ShellWaits

Run(c) == Connect(c) \/ Program(c) \/ Read(c) \/ Write(c) \/ Leave(c)

Next == Shell \/ \E c \in Child : Run(c) \/ Killed(c)

\* Every process that can run is run by the executor.
Fairness == WF_vars(Shell) /\ \A c \in Child : WF_vars(Run(c))

Spec == Init /\ [][Next]_vars
FairSpec == Spec /\ Fairness

-----------------------------------------------------------------------------
Running(c) == state[c] = "running"

\* Of the ends of the pipes, command c holds in the table t those to its
\* neighbours, as its standard input and output; the other descriptors are the
\* shell's.
Linked(c, t, shell) ==
    /\ c > 1 => 0 \in DOMAIN t /\ t[0].ofd = ReadEnd(c - 1)
    /\ c < N => 1 \in DOMAIN t /\ t[1].ofd = WriteEnd(c)
    /\ \A f \in DOMAIN t : ~(f = 0 /\ c > 1) /\ ~(f = 1 /\ c < N) => t[f].ofd = Own(f)
    /\ \A f \in DOMAIN shell : shell[f].ofd = Own(f) => f \in DOMAIN t

\* When a command starts, its standard input and output are the ends of the
\* pipes to its neighbours, it holds no other end of any pipe, and the other
\* descriptors are the shell's, whichever standard descriptors were closed.
Connected == \A c \in Child : Running(c) => Linked(c, fds[c], fds[0])

\* The shell holds exactly the pipe ends its PipeSet knows of, so that none is
\* left when the pipeline is done; if it is abandoned, those few are.
PipeSetExact ==
    {f \in DOMAIN fds[0] : fds[0][f].ofd.end # "own"}
        = {pipes.prev, pipes.reader, pipes.writer} \ {None}

\* A child sleeps only while its operation cannot proceed: no wake-up is lost,
\* in whatever order the neighbours read, write, close and exit.
SleepsJustly ==
    \A c \in asleep :
        IF io[c].op = "read"
          THEN LET p == fds[c][0].ofd.of IN fifo[p].content = 0 /\ HasWriters(fds, p)
          ELSE LET p == fds[c][1].ofd.of
                   room == PipeSize - fifo[p].content
               IN  HasReaders(fds, p) /\ room < io[c].left /\
                      (room = 0 \/ io[c].left <= PipeBuf)

\* The exit status is that of the last command, or with pipefail that of the
\* last command that failed.
StatusRight ==
    pc = "done" =>
        LET failed == {c \in Child : status[c] # 0}
        IN  final = IF ~pipefail THEN status[N]
                    ELSE IF failed = {} THEN 0 ELSE status[Max(failed)]

-----------------------------------------------------------------------------
(***************************************************************************)
(* The inductive invariant.                                                *)
(***************************************************************************)

\* The ends of the pipes k - 1 and k are where the pipe set s says they are in
\* the table t, and nothing but the shell's own descriptors is elsewhere.
Placed(t, s, k) ==
    /\ (s.prev # None) <=> (k > 1)
    /\ (s.reader # None) <=> (k \in Pipes)
    /\ (s.writer # None) <=> (k \in Pipes)
    /\ s.prev # None => s.prev \in DOMAIN t /\ t[s.prev].ofd = ReadEnd(k - 1)
    /\ s.reader # None => s.reader \in DOMAIN t /\ t[s.reader].ofd = ReadEnd(k)
    /\ s.writer # None => s.writer \in DOMAIN t /\ t[s.writer].ofd = WriteEnd(k)
    /\ \A f \in DOMAIN t : f \notin {s.prev, s.reader, s.writer} => t[f].ofd = Own(f)

\* The command whose neighbouring pipes the shell holds.
Held0 == CASE pc = "start" -> next
           [] pc \in {"shift", "last_shift"} -> next - 1
           [] OTHER -> 0

\* Where the shell is in its loops, and which children it has started.
Progress ==
    /\ pc \in {"shift", "start", "wait", "interrupt"} => next \in Child
    /\ pc \in {"last_shift", "done"} => next = N + 1
    /\ \A c \in Child : pc \in {"shift", "start"} /\ c >= next => state[c] = "unborn"
    /\ \A c \in Child : state[c] = "reaped" <=> pc \in {"wait", "done"} /\ c < next
    /\ \A c \in Child : state[c] \in {"zombie", "reaped"} => status[c] \in Statuses

\* The ends of the pipes in the tables.
Ends ==
    /\ fds = [p \in 0 .. N |-> fds[p]]
    /\ \A p \in 0 .. N : \A f \in DOMAIN fds[p] :
          fds[p][f].ofd.end # "own" => fds[p][f].ofd.of \in Pipes
    /\ pc # "interrupt" => Placed(fds[0], pipes, Held0)
    /\ \A c \in Child : state[c] = "connecting" => Placed(fds[c], PipesOf(c), c)
    /\ \A c \in Child : state[c] = "connecting" =>
          \A f \in DOMAIN fds[0] : fds[0][f].ofd = Own(f) =>
             f \in DOMAIN fds[c] /\ fds[c][f].ofd = Own(f)

\* Only running children do I/O, and a read or a write is of some bytes.
Operations ==
    \A c \in Child : /\ io[c].op # "none" => state[c] = "running"
                     /\ io[c].op \in {"read", "write"} => io[c].left > 0

\* Who sleeps has left a waker in the pipe it waits for.
Wakers ==
    \A c \in asleep :
        \/ /\ io[c].op = "read"
           /\ 0 \in DOMAIN fds[c] /\ fds[c][0].ofd.end = "read"
           /\ c \in fifo[fds[c][0].ofd.of].readWakers
        \/ /\ io[c].op = "write"
           /\ 1 \in DOMAIN fds[c] /\ fds[c][1].ofd.end = "write"
           /\ c \in fifo[fds[c][1].ofd.of].writeWakers

\* What the statuses of the children waited for so far amount to.
Gathered ==
    LET failed == {c \in Child : c < next /\ status[c] # 0}
    IN  IF pc \notin {"wait", "done"} \/ next = 1 THEN final = 0
        ELSE IF ~pipefail THEN final = status[next - 1]
        ELSE IF failed = {} THEN final = 0
        ELSE \E c \in failed : final = status[c] /\ \A d \in failed : d <= c

IInv == TypeOK /\ Progress /\ Ends /\ PipeSetExact /\ Connected /\ Operations
            /\ Wakers /\ SleepsJustly /\ Gathered

-----------------------------------------------------------------------------
\* Every endless producer has a later command that stops reading.
Finite == \A c \in Child : kind[c] = "producer" =>
             \E d \in Child : d > c /\ kind[d] \in {"head", "null"}

\* A pipeline ends: readers see the end of the input and writers find that
\* nobody reads any more, because nobody holds the other ends for too long.
Terminates == Finite ~> (pc \in {"done", "interrupt"})

=============================================================================
