----------------------------- MODULE JobControl -----------------------------
(***************************************************************************)
(* Job control in the main shell: how the children the shell starts, the   *)
(* kernel that keeps their states, the terminal, SIGCHLD and the JobList   *)
(* go together. The shell is interactive, has a terminal, and keeps the    *)
(* monitor option on, so that every job is a process group of its own; the *)
(* group is represented by its leader, the child itself.                   *)
(*                                                                         *)
(* The JobList is that of JobList.tla, whose operators are used here. Its  *)
(* loops over jobs (jobs, wait, the report before the prompt) take a step  *)
(* for each job.                                                           *)
(***************************************************************************)
EXTENDS Naturals, Sequences, FiniteSets

CONSTANTS
    Pid,
    StartChld,      \* the dispositions SIGCHLD may have at the start
    Shell, None

ASSUME JobControlAssumption ==
    /\ StartChld \subseteq {"Default", "Ignore"}
    /\ Shell \notin Pid /\ None \notin Pid \cup Nat
    /\ None \notin {"Running", "Stopped", "Finished"}

VARIABLES
    jobs,       \* Env::jobs
    proc,       \* the state of each child, or "None"; a child that has
                \* finished stays until it is waited for
    news,       \* children with a state that wait has not returned yet
    fresh,      \* foreground children that have yet to call tcsetpgrp
    early,      \* those that were stopped before they had called it
    tty,        \* the foreground process group of the terminal
    chld,       \* the disposition of SIGCHLD
    sigchld,    \* SIGCHLD is pending
    pc,         \* where the shell is
    cmd,        \* the command that waits for children
    todo,       \* the job indices a loop has yet to look at
    ignored,    \* history: SIGCHLD was ignored when the shell was started
    stray,      \* history: a signal was sent to a process group that is not
                \* a child's
    revived,    \* history: a suspended command took over the job of another,
                \* finished child that had its process ID
    late        \* history: the terminal was last taken by a child that had
                \* been stopped before it called tcsetpgrp

kernel == <<proc, news, fresh, early, tty, chld, sigchld>>
history == <<ignored, stray, revived, late>>
vars == <<jobs, kernel, pc, cmd, todo, history>>

JL == INSTANCE JobList WITH
        list <- jobs, iter <- [on |-> FALSE, next_index |-> 0, len |-> 0],
        subshell <- FALSE, Forks <- FALSE

Alive == {"Running", "Stopped"}
Halted == {"Stopped", "Finished"}

Cmd(kind, target, index, result) ==
    [kind |-> kind, target |-> target, index |-> index, result |-> result]
NoCmd == Cmd("none", None, None, None)

Index == DOMAIN jobs.jobs
Changed == {i \in Index : jobs.jobs[i].state_changed}
First == CHOOSE i \in todo : \A j \in todo : i <= j
Child(p) == proc[p] # "None"

Init ==
    /\ jobs = JL!EmptyList
    /\ proc = [p \in Pid |-> "None"]
    /\ news = {} /\ fresh = {} /\ early = {} /\ tty = Shell
    /\ chld \in StartChld /\ sigchld = FALSE /\ ignored = (chld = "Ignore")
    /\ pc = "input" /\ cmd = NoCmd /\ todo = {}
    /\ stray = FALSE /\ revived = FALSE /\ late = FALSE

-----------------------------------------------------------------------------
(* The kernel. A change of state is news for wait; the parent gets SIGCHLD *)
(* unless that is not caught, and a child of a process that ignores        *)
(* SIGCHLD leaves nothing behind.                                          *)
Becomes(p, s) ==
    LET vanishes == s = "Finished" /\ chld = "Ignore"
    IN /\ proc' = [proc EXCEPT ![p] = IF vanishes THEN "None" ELSE s]
       /\ news' = IF vanishes THEN news \ {p} ELSE news \cup {p}
       /\ sigchld' = (sigchld \/ chld = "Catch")
       /\ fresh' = fresh \ {p}
       /\ early' = IF s = "Finished" THEN early \ {p} ELSE early \cup ({p} \cap fresh)

Change(p, s) ==
    /\ proc[p] \in Alive /\ s # proc[p]
    /\ Becomes(p, s)
    /\ UNCHANGED <<jobs, tty, chld, pc, cmd, todo, history>>

(* The child of Config::start, in its own time.                            *)
ChildTakesTerminal(p) ==
    /\ p \in fresh \cup early /\ proc[p] = "Running"
    /\ tty' = p
    /\ fresh' = fresh \ {p} /\ early' = early \ {p}
    /\ late' = (p \in early)
    /\ UNCHANGED <<jobs, proc, news, chld, sigchld, pc, cmd, todo, ignored, stray, revived>>

(* kill(-pid, SIGCONT) and the like: s is what the signal makes of the job *)
Signal(p, s) ==
    /\ stray' = (stray \/ ~Child(p)) /\ UNCHANGED <<ignored, revived>>
    /\ IF proc[p] \in Alive \ {s} THEN Becomes(p, s)
       ELSE UNCHANGED <<proc, news, fresh, early, sigchld>>

\* A wrong version: the state of the awaited child is not entered in the list.
WaitedUnrecorded(p) ==
    /\ news' = news \ {p}
    /\ proc' = IF proc[p] = "Finished" THEN [proc EXCEPT ![p] = "None"] ELSE proc
    /\ jobs' = IF cmd.target = p THEN jobs ELSE JL!update_status(jobs, p, proc[p])
    /\ UNCHANGED <<fresh, early, chld, sigchld, tty>>

\* A wrong version: the state is entered without choosing the jobs anew.
WaitedUnranked(p) ==
    /\ news' = news \ {p}
    /\ proc' = IF proc[p] = "Finished" THEN [proc EXCEPT ![p] = "None"] ELSE proc
    /\ jobs' = IF p \in DOMAIN jobs.pids_to_indices
               THEN JL!WithState(jobs, jobs.pids_to_indices[p], proc[p]) ELSE jobs
    /\ UNCHANGED <<fresh, early, chld, sigchld, tty>>

(* wait returned the state of p.                                           *)
Waited(p) ==
    /\ news' = news \ {p}
    /\ proc' = IF proc[p] = "Finished" THEN [proc EXCEPT ![p] = "None"] ELSE proc
    /\ jobs' = JL!update_status(jobs, p, proc[p])
    /\ UNCHANGED <<fresh, early, chld, sigchld, tty>>

-----------------------------------------------------------------------------
(* The read-eval loop. A command ends with run_traps_for_caught_signals,   *)
(* and a read or a write may sleep: in each SIGCHLD goes unnoticed. Only a *)
(* shell that sleeps for SIGCHLD, below, makes use of it.                  *)
SigchldUnnoticed ==
    /\ pc # "sleep" /\ sigchld
    /\ sigchld' = FALSE
    /\ UNCHANGED <<jobs, proc, news, fresh, early, tty, chld, pc, cmd, todo, history>>

(* A line is read; update_all_subshell_statuses precedes each command.     *)
ReadCommand ==
    /\ pc = "input"
    /\ pc' = "update"
    /\ UNCHANGED <<jobs, kernel, cmd, todo, history>>

\* Where a command ends.
Ends ==
    /\ pc' = "update"
    /\ cmd' = NoCmd
    /\ todo' = {}

Update(p) ==
    /\ pc = "update" /\ p \in news
    /\ Waited(p)
    /\ UNCHANGED <<pc, cmd, todo, history>>

(* Another command follows, or the jobs whose state has changed are        *)
(* reported and a line is read.                                            *)
Updated ==
    /\ pc = "update" /\ news = {}
    /\ \/ pc' = "ready" /\ UNCHANGED todo
       \/ pc' = "report" /\ todo' = Changed
    /\ UNCHANGED <<jobs, kernel, cmd, history>>

(* Reporter::next_line; nothing is marked if the output fails.             *)
Report ==
    /\ pc = "report" /\ todo # {}
    /\ jobs' = JL!state_reported(jobs, First)
    /\ todo' = todo \ {First}
    /\ UNCHANGED <<kernel, pc, cmd, history>>

Reported ==
    /\ pc = "report" /\ (todo = {} \/ todo = Changed)
    /\ todo' = {}
    /\ pc' = "input"
    /\ UNCHANGED <<jobs, kernel, cmd, history>>

-----------------------------------------------------------------------------
(* Config::start and, in execute_async, the insertion of the job; for a    *)
(* foreground command, start_and_wait, and for a command substitution a    *)
(* loop of wait_for_subshell_to_halt, go on to wait.                       *)
Unused(p) == ~Child(p)

RunAsync(p) ==
    /\ pc = "ready" /\ Unused(p)
    /\ proc' = [proc EXCEPT ![p] = "Running"]
    /\ jobs' = JL!insert(jobs, JL!NewJob(p, TRUE, "Running", FALSE))
    /\ Ends
    /\ UNCHANGED <<news, fresh, early, tty, chld, sigchld, history>>

Run(p, kind) ==
    /\ pc = "ready" /\ Unused(p)
    /\ proc' = [proc EXCEPT ![p] = "Running"]
    /\ fresh' = IF kind = "run" THEN fresh \cup {p} ELSE fresh
    /\ cmd' = Cmd(kind, p, None, None)
    /\ pc' = "enable"
    /\ UNCHANGED <<jobs, news, early, tty, chld, sigchld, todo, history>>

(* The fg built-in.                                                        *)
Fg(i) ==
    /\ pc = "ready" /\ i \in Index
    /\ LET p == jobs.jobs[i].pid
       IN IF jobs.jobs[i].state \in Alive
          THEN /\ tty' = p /\ late' = FALSE
               /\ Signal(p, "Running")
               /\ cmd' = Cmd("fg", p, i, None)
               /\ pc' = "enable"
               /\ UNCHANGED <<jobs, todo>>
          ELSE /\ jobs' = JL!remove(jobs, i)
               /\ Ends
               /\ UNCHANGED <<proc, news, fresh, early, tty, sigchld, history>>
    /\ UNCHANGED chld

(* The bg built-in: the signal and the expected state, then the choice of  *)
(* the current job.                                                        *)
Bg(i) ==
    /\ pc = "ready" /\ i \in Index
    /\ IF jobs.jobs[i].state \in Alive
       THEN /\ Signal(jobs.jobs[i].pid, "Running")
            /\ jobs' = JL!expect(jobs, i, "Running")
            /\ UNCHANGED late
       ELSE UNCHANGED <<jobs, proc, news, fresh, early, sigchld, history>>
    /\ pc' = "bg" /\ todo' = {i}
    /\ UNCHANGED <<tty, chld, cmd>>

BgSelect ==
    /\ pc = "bg"
    /\ jobs' = JL!set_current_job(jobs, First)
    /\ Ends
    /\ UNCHANGED <<kernel, history>>

(* The kill built-in with a job ID and a signal that stops, continues or   *)
(* kills.                                                                  *)
Kill(i, s) ==
    /\ pc = "ready" /\ i \in Index /\ jobs.jobs[i].state \in Alive
    /\ Signal(jobs.jobs[i].pid, s)
    /\ Ends
    /\ UNCHANGED <<jobs, tty, chld, late>>

(* fg, bg and kill for a job that has vanished: if no other process group  *)
(* has its ID, tcsetpgrp and kill fail and nothing more is done.           *)
SignalFails(i) ==
    /\ pc = "ready" /\ i \in Index /\ jobs.jobs[i].state \in Alive
    /\ ~Child(jobs.jobs[i].pid)
    /\ Ends
    /\ UNCHANGED <<jobs, kernel, history>>

(* The jobs built-in, for the jobs in S.                                   *)
Jobs(S) ==
    /\ pc = "ready" /\ S \subseteq Index
    /\ pc' = "jobs" /\ todo' = S
    /\ UNCHANGED <<jobs, kernel, cmd, history>>

JobsNext ==
    /\ pc = "jobs"
    /\ IF todo = {} THEN Ends /\ UNCHANGED jobs
       ELSE /\ jobs' = IF jobs.jobs[First].state \in Alive
                       THEN JL!state_reported(jobs, First)
                       ELSE JL!remove(jobs, First)
            /\ todo' = todo \ {First}
            /\ UNCHANGED <<pc, cmd>>
    /\ UNCHANGED <<kernel, history>>

-----------------------------------------------------------------------------
(* The wait built-in, for one job or, if i is None, for all of them: the   *)
(* jobs are looked at in order up to one that has not finished.            *)
Wait(i) ==
    /\ pc = "ready"
    /\ cmd' = Cmd("wait", None, i, None)
    /\ pc' = "wait"
    /\ todo' = IF i = None THEN Index ELSE {i}
    /\ UNCHANGED <<jobs, kernel, history>>

WaitNext ==
    /\ pc = "wait"
    /\ IF todo = {} THEN Ends /\ UNCHANGED jobs
       ELSE IF First \in Index /\ jobs.jobs[First].state \in Alive
       THEN pc' = "enable" /\ UNCHANGED <<jobs, cmd, todo>>
       ELSE jobs' = JL!remove(jobs, First) /\ todo' = todo \ {First} /\ UNCHANGED <<pc, cmd>>
    /\ UNCHANGED <<kernel, history>>

-----------------------------------------------------------------------------
\* A wrong version: SIGCHLD is not yet caught when wait is called.
EnableLate ==
    /\ pc = "enable"
    /\ pc' = "poll"
    /\ UNCHANGED <<jobs, kernel, cmd, todo, history>>

(* Env::wait_for_subshell and wait_for_any_job_or_trap: SIGCHLD is caught  *)
(* from now on; then wait is called, and if there is no news the shell     *)
(* sleeps until SIGCHLD.                                                   *)
Enable ==
    /\ pc = "enable"
    /\ chld' = "Catch"
    /\ pc' = "poll"
    /\ UNCHANGED <<jobs, proc, news, fresh, early, tty, sigchld, cmd, todo, history>>

Awaited == IF cmd.kind = "wait" THEN {p \in Pid : Child(p)}
           ELSE {p \in {cmd.target} : Child(p)}

(* wait_for_subshell_to_halt goes on if the child is running. A child      *)
(* without job control, which a command substitution has, is awaited until *)
(* it has finished. wait looks at the jobs again.                          *)
Poll(p) ==
    /\ pc = "poll" /\ p \in Awaited \cap news
    /\ Waited(p)
    /\ IF cmd.kind = "wait"
       THEN /\ pc' = "wait"
            /\ todo' = IF cmd.index = None THEN Index ELSE {cmd.index}
            /\ UNCHANGED cmd
       ELSE IF proc[p] = "Finished" \/ (proc[p] = "Stopped" /\ cmd.kind # "subst")
       THEN pc' = "halted" /\ cmd' = [cmd EXCEPT !.result = proc[p]] /\ UNCHANGED todo
       ELSE pc' = "enable" /\ UNCHANGED <<cmd, todo>>
    /\ UNCHANGED <<history>>

PollNothing ==
    /\ pc = "poll" /\ Awaited # {} /\ Awaited \cap news = {}
    /\ pc' = "sleep"
    /\ UNCHANGED <<jobs, kernel, cmd, todo, history>>

(* ECHILD: each caller returns the error at once.                          *)
PollFails ==
    /\ pc = "poll" /\ Awaited = {}
    /\ Ends
    /\ UNCHANGED <<jobs, kernel, history>>

Wake ==
    /\ pc = "sleep" /\ sigchld
    /\ sigchld' = FALSE
    /\ pc' = "poll"
    /\ UNCHANGED <<jobs, proc, news, fresh, early, tty, chld, cmd, todo, history>>

(* The wait built-in returns on SIGINT and on a signal with a trap.        *)
WaitInterrupted ==
    /\ pc = "sleep" /\ cmd.kind = "wait"
    /\ Ends
    /\ UNCHANGED <<jobs, kernel, history>>

(* handle_job_status inserts a job for a suspended command while the list  *)
(* still has one with its process ID, which was a finished child's before. *)
Revives ==
    /\ pc = "halted" /\ cmd.kind = "run" /\ cmd.result = "Stopped"
    /\ cmd.target \in DOMAIN jobs.pids_to_indices

\* A wrong version: the shell does not take the terminal back.
HaltedUntouched ==
    /\ pc = "halted"
    /\ jobs' = CASE cmd.kind = "run" /\ cmd.result = "Stopped" ->
                      JL!insert(jobs, JL!NewJob(cmd.target, TRUE, "Stopped", TRUE))
                 [] cmd.kind = "fg" /\ cmd.result = "Finished" -> JL!remove(jobs, cmd.index)
                 [] OTHER -> jobs
    /\ revived' = (revived \/ Revives)
    /\ Ends
    /\ UNCHANGED <<kernel, ignored, stray, late>>

(* The rest of start_and_wait with handle_job_status, or of fg: the shell  *)
(* takes the terminal back; a suspended child becomes a job, a finished    *)
(* job is removed.                                                         *)
FinishHalted ==
    /\ pc = "halted"
    /\ IF cmd.kind = "subst" THEN UNCHANGED <<tty, late>> ELSE tty' = Shell /\ late' = FALSE
    /\ jobs' = CASE cmd.kind = "run" /\ cmd.result = "Stopped" ->
                      JL!insert(jobs, JL!NewJob(cmd.target, TRUE, "Stopped", TRUE))
                 [] cmd.kind = "fg" /\ cmd.result = "Finished" -> JL!remove(jobs, cmd.index)
                 [] OTHER -> jobs
    /\ revived' = (revived \/ Revives)
    /\ Ends
    /\ UNCHANGED <<proc, news, fresh, early, chld, sigchld, ignored, stray>>

-----------------------------------------------------------------------------
Waiting ==
    \/ Enable \/ PollNothing \/ PollFails \/ Wake \/ FinishHalted
    \/ \E p \in Pid : Poll(p)

Next ==
    \/ \E p \in Pid : \/ \E s \in Alive \cup {"Finished"} : Change(p, s)
                      \/ ChildTakesTerminal(p)
                      \/ Update(p) \/ RunAsync(p)
                      \/ \E kind \in {"run", "subst"} : Run(p, kind)
    \/ \E i \in Index : \/ Fg(i) \/ Bg(i) \/ SignalFails(i)
                        \/ \E s \in Alive \cup {"Finished"} : Kill(i, s)
    \/ \E i \in Index \cup {None} : Wait(i) \/ Jobs(IF i = None THEN Index ELSE {i})
    \/ SigchldUnnoticed \/ ReadCommand \/ Updated \/ Report \/ Reported
    \/ BgSelect \/ JobsNext \/ WaitNext \/ WaitInterrupted
    \/ Waiting

Spec == Init /\ [][Next]_vars

(* Once the shell waits for children, nothing but their states keeps it    *)
(* from going on.                                                          *)
FairSpec == Spec /\ WF_vars(Waiting)

-----------------------------------------------------------------------------
\* The commands that wait for one child.
Foreground == {"run", "subst", "fg"}

TypeOK ==
    /\ JL!TypeOK
    /\ proc \in [Pid -> {"None", "Running", "Stopped", "Finished"}]
    /\ news \subseteq Pid /\ fresh \subseteq Pid /\ early \subseteq Pid
    /\ tty \in Pid \cup {Shell}
    /\ chld \in {"Default", "Ignore", "Catch"}
    /\ {sigchld, ignored, stray, revived, late} \subseteq BOOLEAN
    /\ pc \in {"input", "update", "ready", "report", "bg", "jobs", "wait",
               "enable", "poll", "sleep", "halted"}
    /\ cmd \in [kind : {"none", "wait"} \cup Foreground, target : Pid \cup {None},
               index : Nat \cup {None}, result : Halted \cup {None}]
    /\ todo \subseteq Nat

(* What the kernel and the shell know of each other: a zombie is news, and *)
(* a command waits only while there is one.                                *)
KernelOK ==
    /\ \A p \in Pid : /\ p \in news => Child(p)
                      /\ proc[p] = "Finished" => p \in news
                      /\ p \in fresh \cup early => proc[p] \in Alive
    /\ ~ignored => chld # "Ignore"
    /\ pc \in {"poll", "sleep", "halted"} => chld = "Catch"

CmdOK ==
    /\ cmd.kind \in Foreground =>
          pc \in {"enable", "poll", "sleep", "halted"} /\ cmd.target \in Pid
    /\ cmd.kind \notin Foreground => cmd.target = None
    /\ cmd.kind = "wait" => pc \in {"wait", "enable", "poll", "sleep"}
    /\ pc \in {"wait", "enable", "poll", "sleep", "halted"} => cmd.kind # "none"
    /\ pc = "halted" <=> cmd.result # None
    /\ pc \in {"report", "jobs", "bg"} => todo \subseteq Index

Consistent == TypeOK /\ KernelOK /\ CmdOK

(* The shell never sleeps on a change it could have seen: as long as it    *)
(* sleeps, news of a child it waits for comes with a SIGCHLD.              *)
NoMissedChild == pc = "sleep" => (Awaited \cap news = {} \/ sigchld)

(* "to prevent unrelated processes that happen to have the same process    *)
(* IDs as the jobs from receiving the signal": fg, bg and kill only ever   *)
(* signal children of the shell. In a shell that was started with SIGCHLD  *)
(* ignored this fails, for a child that ends before the shell first waits  *)
(* leaves nothing behind.                                                  *)
NoStraySignal == ~ignored => ~stray

(* A job the shell believes alive is a child it has yet to wait for, and a *)
(* child it has lost sight of is the foreground one.                       *)
JobsAreChildren ==
    /\ ~ignored => \A i \in Index :
            jobs.jobs[i].state \in Alive => Child(jobs.jobs[i].pid)
    /\ \A p \in Pid :
          \/ ~Child(p) \/ p = cmd.target
          \/ \E i \in Index : jobs.jobs[i].pid = p

(* A command in the foreground is no job yet, but its child may have got   *)
(* the process ID of a finished one that is still in the list.             *)
Borrowed(p) == cmd.kind \in {"run", "subst"} /\ cmd.target = p

(* "Each Job in the job list remembers the latest state of the child       *)
(* process performing the job's task": a child with no news is listed with *)
(* the state it is in, unless the entry is still that of the finished      *)
(* child whose process ID the command in the foreground has now, or, if    *)
(* SIGCHLD was ignored, of one that has vanished ...                       *)
LatestState ==
    \A i \in Index :
        LET p == jobs.jobs[i].pid
        IN Child(p) /\ p \notin news =>
              \/ jobs.jobs[i].state = proc[p]
              \/ Borrowed(p) /\ (ignored \/ jobs.jobs[i].state = "Finished")

(* ... and a job that has finished keeps that state, whatever the children *)
(* started later do, until a child with its process ID is made a job or    *)
(* runs in the foreground.                                                 *)
FinishedIsFinal ==
    [][\A i \in Index :
          LET p == jobs.jobs[i].pid
          IN jobs.jobs[i].state = "Finished" /\ i \in Index' =>
                \/ jobs'.jobs[i].state = "Finished"
                \/ ~Child(p) /\ Child(p)'
                \/ Borrowed(p)]_vars

(* "When the shell is reading input, it makes itself the terminal's        *)
(* foreground process group." Only a child that was stopped before it      *)
(* could call tcsetpgrp may do so when it is resumed, in the background.   *)
ForegroundAtInput == ~ignored /\ pc = "input" => tty = Shell \/ late

(* "If the job list contains two or more jobs, there is a previous job":   *)
(* what the documentation of JobList promises. It fails when a suspended   *)
(* command takes over the job of a finished child with its process ID:     *)
(* update_status makes that job the current one and insert makes it the    *)
(* previous one too.                                                       *)
PreviousPromised == JL!PreviousExists

(* As long as that has not happened, the promise holds.                    *)
PreviousExists == ~revived => JL!PreviousExists

(* What the shell does to its jobs is what JobList.tla allows, so that its *)
(* invariants hold here: each step is a step of JobList, unless SIGCHLD    *)
(* was ignored and a job is inserted with the process ID of one that       *)
(* vanished, or a suspended command takes over a job.                      *)
FollowsJobList ==
    JL!Init /\ [][jobs' # jobs /\ ~ignored /\ ~Revives => JL!Next]_vars

(* What these rest on. The child that a command waits for is there, unless *)
(* SIGCHLD was ignored, until its last state is known; that of fg is the   *)
(* job it was given. A job that has finished is no child any more, unless  *)
(* the command in the foreground has its process ID.                       *)
AwaitedChild ==
    /\ ~ignored /\ cmd.kind \in Foreground /\ pc # "halted" => Child(cmd.target)
    /\ cmd.result = "Stopped" =>
          /\ Child(cmd.target) /\ (cmd.target \in news \/ proc[cmd.target] = "Stopped")
          /\ cmd.kind # "subst"
    /\ cmd.result = "Finished" => ~Child(cmd.target)
    /\ cmd.kind = "fg" => cmd.index \in Index /\ jobs.jobs[cmd.index].pid = cmd.target

FinishedGone ==
    \A i \in Index :
        LET p == jobs.jobs[i].pid
        IN jobs.jobs[i].state = "Finished" => ~Child(p) \/ Borrowed(p)

(* Nobody takes the terminal but the child of the present command and one  *)
(* that was stopped early.                                                 *)
Terminal ==
    /\ \A p \in fresh : /\ cmd.kind = "run" /\ cmd.target = p /\ pc # "halted"
                        /\ proc[p] = "Running"
    /\ tty # Shell => ignored \/ late \/ cmd.kind \in {"run", "fg"}

(* The inductive invariant. The slab and the map of process IDs are always *)
(* sound. A suspended command that takes over a job may lose the previous  *)
(* job, and then the current one. A job that vanished may be replaced,     *)
(* while the list has it suspended, by one that runs: then the ranks are   *)
(* lost.                                                                   *)
IInv ==
    /\ Consistent /\ AwaitedChild
    /\ JL!Slabbed(jobs) /\ JL!Owned(jobs)
    /\ ~revived => JL!WellFormed(jobs)
    /\ ~revived /\ ~ignored => JL!Ranked(jobs)
    /\ JobsAreChildren /\ FinishedGone
    /\ LatestState /\ NoStraySignal
    /\ Terminal

(* A shell that waits for a child which has finished stops waiting.        *)
WaitEnds ==
    (cmd.kind \in {"run", "fg", "subst"} /\ proc[cmd.target] = "Finished")
        ~> cmd.kind = "none"

=============================================================================
