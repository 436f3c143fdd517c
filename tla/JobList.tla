------------------------------ MODULE JobList -------------------------------
(***************************************************************************)
(* The job list of the shell (yash-env/src/job.rs): jobs in a slab, a map  *)
(* from process IDs to slab indices, and the indices of the current and of *)
(* the previous job. Each method of JobList is an operator from a list to  *)
(* a list; the actions at the end of the module call them in any order the *)
(* rest of the shell can.                                                  *)
(*                                                                         *)
(* A job's name and the numbers inside an exit status are left out: nothing *)
(* here depends on them.                                                   *)
(***************************************************************************)
EXTENDS Naturals, Sequences, FiniteSets

CONSTANTS
    Pid,    \* process IDs the kernel may assign to children
    Forks,  \* whether the environment may be the copy that a subshell gets,
            \* in which case the subshell calls disown_all before anything
    None    \* no index, no expected state

ASSUME JobListAssumption ==
    /\ Forks \in BOOLEAN
    /\ None \notin Nat
    /\ None \notin {"Running", "Stopped", "Finished"}

VARIABLES
    list,   \* the JobList
    iter,   \* the ExtractIf borrowing the list: its `next_index` and `len`,
            \* and whether there is one at all
    subshell \* Frame::Subshell is on the stack

vars == <<list, iter, subshell>>

\* ProcessState: Running, Halted(Stopped), and Halted(Exited or Signaled).
State == {"Running", "Stopped", "Finished"}
Alive == {"Running", "Stopped"}

Job == [pid : Pid, job_controlled : BOOLEAN, state : State,
        expected_state : State \cup {None}, state_changed : BOOLEAN,
        is_owned : BOOLEAN]

\* Job::new, with the state that the caller assigns afterwards.
NewJob(p, controlled, s, changed) ==
    [pid |-> p, job_controlled |-> controlled, state |-> s,
     expected_state |-> None, state_changed |-> changed, is_owned |-> TRUE]

(* struct JobList. `free` and `size` are the slab's own state.             *)
List(jobs, pids, current, previous, free, size) ==
    [jobs |-> jobs, pids_to_indices |-> pids,
     current_job_index |-> current, previous_job_index |-> previous,
     free |-> free, size |-> size]

EmptyList == List(<<>>, <<>>, 0, 0, <<>>, 0)

WithJobs(L, jobs) ==
    List(jobs, L.pids_to_indices, L.current_job_index, L.previous_job_index,
         L.free, L.size)

WithChosen(L, current, previous) ==
    List(L.jobs, L.pids_to_indices, current, previous, L.free, L.size)

WithPrevious(L, previous) == WithChosen(L, L.current_job_index, previous)

-----------------------------------------------------------------------------
(* The Slab crate: the smallest never-used index is `size`, and `free` is  *)
(* the stack of the indices that were vacated.                             *)
SlabNext(L) == IF L.free = <<>> THEN L.size ELSE Head(L.free)

SlabFree(L) == IF L.free = <<>> THEN L.free ELSE Tail(L.free)

SlabSize(L) == IF L.free = <<>> THEN L.size + 1 ELSE L.size

-----------------------------------------------------------------------------
Index(L) == DOMAIN L.jobs

SuspendedSet(L) == {i \in Index(L) : L.jobs[i].state = "Stopped"}

First(S) == CHOOSE i \in S : \A j \in S : i <= j

find_by_pid(L, p) ==
    IF p \in DOMAIN L.pids_to_indices THEN L.pids_to_indices[p] ELSE None

current_job(L) ==
    IF L.current_job_index \in Index(L) THEN L.current_job_index ELSE None

previous_job(L) ==
    IF /\ L.previous_job_index # L.current_job_index
       /\ L.previous_job_index \in Index(L)
    THEN L.previous_job_index ELSE None

IsSuspended(L, i) == i # None /\ i \in SuspendedSet(L)

\* Selecting index i demotes the old current job.
Select(L, i) ==
    IF i = L.current_job_index THEN L ELSE WithChosen(L, i, L.current_job_index)

\* set_current_job, which refuses with NoSuchJob or NotSuspended.
MaySelect(L, i) ==
    i \in Index(L) /\ (i \in SuspendedSet(L) \/ SuspendedSet(L) = {})

set_current_job(L, i) == IF MaySelect(L, i) THEN Select(L, i) ELSE L

(* JobList::insert stores the job ...                                      *)
Stored(L, job) ==
    IF job.pid \in DOMAIN L.pids_to_indices
    THEN WithJobs(L, [L.jobs EXCEPT ![L.pids_to_indices[job.pid]] = job])
    ELSE LET i == SlabNext(L)
         IN List([k \in Index(L) \cup {i} |-> IF k = i THEN job ELSE L.jobs[k]],
                 [p \in DOMAIN L.pids_to_indices \cup {job.pid} |->
                     IF p = job.pid THEN i ELSE L.pids_to_indices[p]],
                 L.current_job_index, L.previous_job_index,
                 SlabFree(L), SlabSize(L))

(* ... and then chooses the current and previous job again, by what was    *)
(* suspended before the insertion.                                         *)
insert(L, job) ==
    LET S == Stored(L, job)
        i == S.pids_to_indices[job.pid]
        new_suspended == job.state = "Stopped"
    IN IF current_job(L) = None
       THEN WithChosen(S, i, S.previous_job_index)
       ELSE IF ~IsSuspended(L, current_job(L)) /\ new_suspended
       THEN set_current_job(S, i)
       ELSE IF \/ previous_job(L) = None
               \/ ~IsSuspended(L, previous_job(L)) /\ new_suspended
       THEN WithPrevious(S, i)
       ELSE S

(* JobList::remove. An emptied slab is cleared, or its free stack would    *)
(* outlive the jobs.                                                       *)
Taken(L, i) ==
    LET rest == Index(L) \ {i}
    IN List([k \in rest |-> L.jobs[k]],
            [p \in DOMAIN L.pids_to_indices \ {L.jobs[i].pid} |->
                L.pids_to_indices[p]],
            L.current_job_index, L.previous_job_index,
            IF rest = {} THEN <<>> ELSE <<i>> \o L.free,
            IF rest = {} THEN 0 ELSE L.size)

\* any_suspended_job_but_current, or else any_job_but_current, or else 0.
AnyButCurrent(L, c) ==
    LET suspended == SuspendedSet(L) \ {c}
        others == Index(L) \ {c}
    IN IF suspended # {} THEN First(suspended)
       ELSE IF others # {} THEN First(others) ELSE 0

remove(L, i) ==
    LET T == Taken(L, i)
        was_current == i = L.current_job_index
        c == IF was_current THEN L.previous_job_index ELSE L.current_job_index
    IN IF i \notin Index(L) THEN L
       ELSE IF was_current \/ i = L.previous_job_index
       THEN WithChosen(T, c, AnyButCurrent(T, c))
       ELSE WithChosen(T, c, L.previous_job_index)

(* JobList::update_status: the new state, then the choice of the current   *)
(* and previous job when the job was suspended or resumed.                 *)
WithState(L, i, s) ==
    LET job == L.jobs[i]
    IN WithJobs(L, [L.jobs EXCEPT ![i] =
           [job EXCEPT !.state = s,
                       !.state_changed = @ \/ job.expected_state # s,
                       !.expected_state = None]])

\* A wrong version: the choice of jobs stays when a suspended job is resumed.
ResumedUnpromoted(L, i) == L

Resumed(L, i) ==
    LET p == previous_job(L)
        promotes == i = L.current_job_index /\ IsSuspended(L, p)
        c == IF promotes THEN p ELSE L.current_job_index
        suspended == SuspendedSet(L) \ {c}
    IN IF p # None /\ (promotes \/ i = p)
       THEN WithChosen(L, c, IF suspended # {} THEN First(suspended) ELSE i)
       ELSE L

update_status(L, p, s) ==
    LET i == find_by_pid(L, p)
        was == IsSuspended(L, i)
    IN IF i = None THEN L
       ELSE IF ~was /\ s = "Stopped" THEN Select(WithState(L, i, s), i)
       ELSE IF was /\ s # "Stopped" THEN Resumed(WithState(L, i, s), i)
       ELSE WithState(L, i, s)

disown_all(L) ==
    WithJobs(L, [i \in Index(L) |-> [L.jobs[i] EXCEPT !.is_owned = FALSE]])

\* JobRefMut::expect and JobRefMut::state_reported.
expect(L, i, s) ==
    WithJobs(L, [L.jobs EXCEPT ![i] = [@ EXCEPT !.expected_state = s]])

state_reported(L, i) ==
    WithJobs(L, [L.jobs EXCEPT ![i] = [@ EXCEPT !.state_changed = FALSE]])

-----------------------------------------------------------------------------
\* struct ExtractIf.
Iter(next_index, len) == [on |-> TRUE, next_index |-> next_index, len |-> len]

NoIter == [on |-> FALSE, next_index |-> 0, len |-> 0]

Init == list = EmptyList /\ iter = NoIter /\ subshell = FALSE

(* A new child has a process ID that no unreaped child of this shell has.  *)
(* The kernel may reuse the ID of a job that was reaped, and, in a         *)
(* subshell, that of any job inherited from the parent.                    *)
Reusable(p) ==
    \A i \in Index(list) :
        list.jobs[i].pid = p => ~list.jobs[i].is_owned \/ list.jobs[i].state \notin Alive

(* execute_async inserts a running job, job-controlled unless in a         *)
(* subshell. handle_job_status inserts a suspended one, which only a shell *)
(* that controls jobs (Env::controls_jobs) ever gets from start_and_wait.  *)
Insert(p) ==
    /\ ~iter.on
    /\ Reusable(p)
    /\ \/ list' = insert(list, NewJob(p, ~subshell, "Running", FALSE))
       \/ ~subshell /\ list' = insert(list, NewJob(p, TRUE, "Stopped", TRUE))
    /\ UNCHANGED <<iter, subshell>>

Remove(i) ==
    /\ ~iter.on
    /\ i \in Index(list)
    /\ list' = remove(list, i)
    /\ UNCHANGED <<iter, subshell>>

UpdateStatus(p, s) ==
    /\ ~iter.on
    /\ list' = update_status(list, p, s)
    /\ UNCHANGED <<iter, subshell>>

SetCurrentJob(i) ==
    /\ ~iter.on
    /\ list' = set_current_job(list, i)
    /\ UNCHANGED <<iter, subshell>>

Expect(i) ==
    /\ ~iter.on
    /\ i \in Index(list)
    /\ list' = expect(list, i, "Running")
    /\ UNCHANGED <<iter, subshell>>

StateReported(i) ==
    /\ ~iter.on
    /\ i \in Index(list)
    /\ list' = state_reported(list, i)
    /\ UNCHANGED <<iter, subshell>>

(* Config::start in the child: the copy of the list is disowned.           *)
DisownAll ==
    /\ Forks /\ ~iter.on
    /\ subshell' = TRUE
    /\ list' = disown_all(list)
    /\ UNCHANGED iter

(* JobList::extract_if, one pass of the loop of ExtractIf::next at a time: *)
(* the list is mutably borrowed, so nothing else happens to it meanwhile.  *)
ExtractIf ==
    /\ ~iter.on
    /\ iter' = Iter(0, Cardinality(Index(list)))
    /\ UNCHANGED <<list, subshell>>

ExtractNext(should_remove) ==
    /\ iter.on /\ iter.len > 0
    /\ iter' = Iter(iter.next_index + 1,
                  IF iter.next_index \in Index(list) THEN iter.len - 1 ELSE iter.len)
    /\ IF should_remove THEN list' = remove(list, iter.next_index)
                        ELSE UNCHANGED list
    /\ UNCHANGED subshell

\* The iterator is dropped, exhausted or not.
ExtractDrop ==
    /\ iter.on
    /\ iter' = NoIter
    /\ UNCHANGED <<list, subshell>>

Next ==
    \/ \E p \in Pid : Insert(p) \/ \E s \in State : UpdateStatus(p, s)
    \/ \E i \in Index(list) :
          Remove(i) \/ SetCurrentJob(i) \/ Expect(i) \/ StateReported(i)
    \/ DisownAll
    \/ ExtractIf \/ ExtractDrop \/ \E b \in BOOLEAN : ExtractNext(b)

Spec == Init /\ [][Next]_vars

-----------------------------------------------------------------------------
IsFcn(f) == f = [x \in DOMAIN f |-> f[x]]

Elems(q) == {q[k] : k \in DOMAIN q}

ListType(L) ==
    /\ IsFcn(L.jobs) /\ IsFcn(L.pids_to_indices)
    /\ Index(L) \subseteq Nat
    /\ \A i \in Index(L) : L.jobs[i] \in Job
    /\ DOMAIN L.pids_to_indices \subseteq Pid
    /\ L.current_job_index \in Nat
    /\ L.previous_job_index \in Nat
    /\ L.free \in Seq(Nat)
    /\ L.size \in Nat

TypeOK ==
    /\ ListType(list)
    /\ iter \in [on : BOOLEAN, next_index : Nat, len : Nat]
    /\ subshell \in BOOLEAN

InSync(L) ==
    /\ \A i \in Index(L) :
          /\ L.jobs[i].pid \in DOMAIN L.pids_to_indices
          /\ L.pids_to_indices[L.jobs[i].pid] = i
    /\ \A p \in DOMAIN L.pids_to_indices :
          /\ L.pids_to_indices[p] \in Index(L)
          /\ L.jobs[L.pids_to_indices[p]].pid = p

\* Every index below `size` is a job or is on the free stack, once, and the
\* slab of an empty list is as good as new.
SlabOK(L) ==
    /\ Index(L) = (0 .. L.size - 1) \ Elems(L.free)
    /\ \A k \in DOMAIN L.free : L.free[k] < L.size
    /\ \A k, m \in DOMAIN L.free : L.free[k] = L.free[m] => k = m
    /\ Index(L) = {} => L.size = 0

HasCurrent(L) == Index(L) # {} => L.current_job_index \in Index(L)

HasPrevious(L) == (\E i, j \in Index(L) : i # j) => previous_job(L) # None

(* pids_to_indices is exactly the inverse of the jobs' process IDs: the    *)
(* map kept by hand next to the slab never names a vacated or reused slot. *)
PidsInSync == InSync(list)

(* "If the job list contains at least one job, there is a current job."    *)
CurrentExists == HasCurrent(list)

(* "If the job list contains two or more jobs, there is a previous job."   *)
(* It is never the current one.                                            *)
PreviousExists == HasPrevious(list)

(* "If there is any suspended jobs, the current job must be a suspended    *)
(* job."                                                                   *)
CurrentSuspended ==
    SuspendedSet(list) # {} => list.current_job_index \in SuspendedSet(list)

\* The current job is suspended if any job is, and the previous job is
\* suspended if two or more are.
Ranked(L) ==
    LET S == SuspendedSet(L)
    IN /\ S # {} => L.current_job_index \in S
       /\ (\E i, j \in S : i # j) => L.previous_job_index \in S

(* Suspended jobs come first, for the current and for the previous job, in *)
(* a shell that is no subshell.                                            *)
SuspendedFirst == ~subshell => Ranked(list)

(* The comment in JobList::remove: once the list is empty, jobs added      *)
(* later have indices starting from 0.                                     *)
RestartsFromZero == Index(list) = {} => SlabNext(list) = 0

(* ExtractIf counts down to 0 exactly when it has passed the last job,     *)
(* however many slots are vacant and however many jobs it has removed: its *)
(* loop neither stops early nor runs past the last job.                    *)
ExtractCount ==
    iter.on => iter.len = Cardinality({i \in Index(list) : i >= iter.next_index})

(* The inductive invariant: the promises above, what the slab keeps, and   *)
(* that a shell that is no subshell owns all its jobs.                     *)
Slabbed(L) == ListType(L) /\ InSync(L) /\ SlabOK(L)

WellFormed(L) == Slabbed(L) /\ HasCurrent(L) /\ HasPrevious(L)

Owned(L) == \A i \in Index(L) : L.jobs[i].is_owned

IInv ==
    /\ TypeOK
    /\ WellFormed(list)
    /\ ~subshell => Ranked(list) /\ Owned(list)
    /\ ~Forks => ~subshell

=============================================================================
