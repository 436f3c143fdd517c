-------------------------- MODULE JobControlProofs --------------------------
(***************************************************************************)
(* Proofs about JobControl.tla for any set of process IDs. What the job    *)
(* list promises is taken from JobListProofs.                              *)
(***************************************************************************)
EXTENDS JobControl, TLAPS

JLP == INSTANCE JobListProofs WITH
        list <- jobs, iter <- [on |-> FALSE, next_index |-> 0, len |-> 0],
        subshell <- FALSE, Forks <- FALSE

-----------------------------------------------------------------------------
(* The two instances of JobList have the same definitions.                 *)
LEMMA SamePredicates ==
    ASSUME NEW L
    PROVE  /\ JL!Slabbed(L) <=> JLP!Slabbed(L)
           /\ JL!WellFormed(L) <=> JLP!WellFormed(L)
           /\ JL!Ranked(L) <=> JLP!Ranked(L)
           /\ JL!Owned(L) <=> JLP!Owned(L)
<1>1. JL!ListType(L) <=> JLP!ListType(L)
  BY DEF JL!ListType, JLP!ListType, JL!IsFcn, JLP!IsFcn, JL!Index, JLP!Index,
         JL!Job, JLP!Job, JL!State, JLP!State
<1>2. JL!InSync(L) <=> JLP!InSync(L)
  BY DEF JL!InSync, JLP!InSync, JL!Index, JLP!Index
<1>3. JL!SlabOK(L) <=> JLP!SlabOK(L)
  BY DEF JL!SlabOK, JLP!SlabOK, JL!Index, JLP!Index, JL!Elems, JLP!Elems
<1>4. JL!HasCurrent(L) <=> JLP!HasCurrent(L)
  BY DEF JL!HasCurrent, JLP!HasCurrent, JL!Index, JLP!Index
<1>5. JL!HasPrevious(L) <=> JLP!HasPrevious(L)
  BY DEF JL!HasPrevious, JLP!HasPrevious, JL!Index, JLP!Index,
         JL!previous_job, JLP!previous_job
<1>6. JL!Ranked(L) <=> JLP!Ranked(L)
  BY DEF JL!Ranked, JLP!Ranked, JL!SuspendedSet, JLP!SuspendedSet, JL!Index, JLP!Index
<1>7. JL!Owned(L) <=> JLP!Owned(L)
  BY DEF JL!Owned, JLP!Owned, JL!Index, JLP!Index
<1> QED BY <1>1, <1>2, <1>3, <1>4, <1>5, <1>6, <1>7
       DEF JL!WellFormed, JLP!WellFormed, JL!Slabbed, JLP!Slabbed

(* JobList::update_status ...                                              *)
LEMMA SameUpdate ==
    ASSUME NEW L, NEW p, NEW s
    PROVE  JL!update_status(L, p, s) = JLP!update_status(L, p, s)
BY DEF JL!find_by_pid, JLP!find_by_pid, JL!update_status, JLP!update_status,
       JL!IsSuspended, JLP!IsSuspended, JL!WithState, JLP!WithState,
       JL!Select, JLP!Select, JL!Resumed, JLP!Resumed, JL!WithChosen,
       JLP!WithChosen, JL!WithJobs, JLP!WithJobs, JL!List, JLP!List,
       JL!SuspendedSet, JLP!SuspendedSet, JL!First, JLP!First,
       JL!previous_job, JLP!previous_job, JL!Index, JLP!Index

(* ... set_current_job ...                                                 *)
LEMMA SameSelect ==
    ASSUME NEW L, NEW i
    PROVE  JL!set_current_job(L, i) = JLP!set_current_job(L, i)
BY DEF JL!set_current_job, JLP!set_current_job, JL!MaySelect, JLP!MaySelect,
       JL!Select, JLP!Select, JL!WithChosen, JLP!WithChosen, JL!List, JLP!List,
       JL!SuspendedSet, JLP!SuspendedSet, JL!Index, JLP!Index

(* ... expect and state_reported ...                                       *)
LEMMA SameTouch ==
    ASSUME NEW L, NEW i
    PROVE  /\ JL!expect(L, i, "Running") = JLP!expect(L, i, "Running")
           /\ JL!state_reported(L, i) = JLP!state_reported(L, i)
BY DEF JL!expect, JLP!expect, JL!state_reported, JLP!state_reported,
       JL!WithJobs, JLP!WithJobs, JL!List, JLP!List

(* ... remove ...                                                          *)
LEMMA SameRemove ==
    ASSUME NEW L, NEW i
    PROVE  JL!remove(L, i) = JLP!remove(L, i)
<1>1. JL!Taken(L, i) = JLP!Taken(L, i)
  BY DEF JL!Taken, JLP!Taken, JL!List, JLP!List, JL!Index, JLP!Index
<1>2. ASSUME NEW T, NEW c PROVE JL!AnyButCurrent(T, c) = JLP!AnyButCurrent(T, c)
  BY DEF JL!AnyButCurrent, JLP!AnyButCurrent, JL!SuspendedSet, JLP!SuspendedSet,
         JL!First, JLP!First, JL!Index, JLP!Index
<1> QED
  BY <1>1, <1>2 DEF JL!remove, JLP!remove, JL!WithChosen, JLP!WithChosen,
                    JL!List, JLP!List, JL!Index, JLP!Index

(* ... and insert.                                                         *)
LEMMA SameInsert ==
    ASSUME NEW L, NEW job
    PROVE  JL!insert(L, job) = JLP!insert(L, job)
<1>1. JL!Stored(L, job) = JLP!Stored(L, job)
  BY DEF JL!Stored, JLP!Stored, JL!WithJobs, JLP!WithJobs, JL!List, JLP!List,
         JL!Index, JLP!Index, JL!SlabNext, JLP!SlabNext, JL!SlabFree,
         JLP!SlabFree, JL!SlabSize, JLP!SlabSize
<1>2. JL!current_job(L) = JLP!current_job(L) /\ JL!previous_job(L) = JLP!previous_job(L)
  BY DEF JL!current_job, JLP!current_job, JL!previous_job, JLP!previous_job,
         JL!Index, JLP!Index
<1>3. ASSUME NEW i PROVE JL!IsSuspended(L, i) = JLP!IsSuspended(L, i)
  BY DEF JL!IsSuspended, JLP!IsSuspended, JL!SuspendedSet, JLP!SuspendedSet,
         JL!Index, JLP!Index
<1> QED
  BY <1>1, <1>2, <1>3, SameSelect
     DEF JL!insert, JLP!insert, JL!WithChosen, JLP!WithChosen,
         JL!WithPrevious, JLP!WithPrevious, JL!List, JLP!List

-----------------------------------------------------------------------------
(* What the shell asks of its job list: chosen, that the current and the   *)
(* previous job are there, ranked, that they are suspended if any are.     *)
Sound(L, chosen, ranked) ==
    /\ JL!Slabbed(L) /\ JL!Owned(L)
    /\ chosen => JL!WellFormed(L)
    /\ chosen /\ ranked => JL!Ranked(L)

\* U has the jobs of L, with the same process IDs and states.
SameJobs(L, U) ==
    /\ DOMAIN U.jobs = DOMAIN L.jobs
    /\ \A k \in DOMAIN L.jobs : /\ U.jobs[k].pid = L.jobs[k].pid
                                /\ U.jobs[k].state = L.jobs[k].state

(* The jobs of such a list are children with distinct process IDs.         *)
LEMMA JobTypes ==
    ASSUME NEW L, JL!Slabbed(L)
    PROVE  /\ DOMAIN L.jobs \subseteq Nat
           /\ \A i \in DOMAIN L.jobs :
                /\ L.jobs[i].pid \in Pid
                /\ L.jobs[i].state \in {"Running", "Stopped", "Finished"}
                /\ L.jobs[i].pid \in DOMAIN L.pids_to_indices
                /\ \A k \in DOMAIN L.jobs : L.jobs[i].pid = L.jobs[k].pid => i = k
BY DEF JL!Slabbed, JL!ListType, JL!InSync, JL!Index, JL!Job, JL!State

(* The state of a child is entered.                                        *)
LEMMA UpdateJobs ==
    ASSUME NEW L, NEW w \in BOOLEAN, NEW r \in BOOLEAN, Sound(L, w, r), NEW p \in Pid,
           NEW s \in {"Running", "Stopped", "Finished"},
           NEW U, U = JL!update_status(L, p, s)
    PROVE  /\ Sound(U, w, r) /\ DOMAIN U.jobs = DOMAIN L.jobs
           /\ \A k \in DOMAIN L.jobs :
                /\ U.jobs[k].pid = L.jobs[k].pid
                /\ L.jobs[k].pid = p => U.jobs[k].state = s
                /\ L.jobs[k].pid # p => U.jobs[k].state = L.jobs[k].state
<1>1. JLP!Slabbed(L) /\ s \in JLP!State /\ U = JLP!update_status(L, p, s)
  BY SamePredicates, SameUpdate DEF Sound, JLP!State
<1>2. /\ JLP!Slabbed(U)
      /\ (JLP!Owned(L) => JLP!Owned(U)) /\ JLP!HasStates(L, U, p, s)
  BY <1>1, JLP!UpdateSlabbed, JobControlAssumption
<1>3. JLP!WellFormed(L) => JLP!WellFormed(U) /\ (JLP!Ranked(L) => JLP!Ranked(U))
  BY <1>1, JLP!UpdateKeeps, JobControlAssumption
<1>4. Sound(U, w, r) BY <1>2, <1>3, SamePredicates DEF Sound
<1> QED BY <1>2, <1>4 DEF JLP!HasStates, JLP!Index

(* A report, the expected state and the choice of a job change no state.   *)
LEMMA TouchJobs ==
    ASSUME NEW L, NEW w \in BOOLEAN, NEW r \in BOOLEAN, Sound(L, w, r), NEW i, NEW U,
           \/ i \in DOMAIN L.jobs /\ U = JL!expect(L, i, "Running")
           \/ i \in DOMAIN L.jobs /\ U = JL!state_reported(L, i)
           \/ i \in Nat /\ U = JL!set_current_job(L, i)
    PROVE  Sound(U, w, r) /\ SameJobs(L, U)
<1>1. JLP!Slabbed(L) BY SamePredicates DEF Sound
<1>2. CASE i \in DOMAIN L.jobs /\ (\/ U = JL!expect(L, i, "Running")
                                   \/ U = JL!state_reported(L, i))
  <2>1. i \in JLP!Index(L) BY <1>2 DEF JLP!Index
  <2>2. U = JLP!expect(L, i, "Running") \/ U = JLP!state_reported(L, i)
    BY <1>2, SameTouch
  <2>3. /\ JLP!Slabbed(U) /\ (JLP!WellFormed(L) => JLP!WellFormed(U))
        /\ (JLP!Ranked(L) => JLP!Ranked(U))
        /\ (JLP!Owned(L) => JLP!Owned(U)) /\ JLP!Index(U) = JLP!Index(L)
        /\ \A k \in JLP!Index(L) : /\ U.jobs[k].pid = L.jobs[k].pid
                                   /\ U.jobs[k].state = L.jobs[k].state
    BY <1>1, <2>1, <2>2, JLP!TouchKeeps, JobControlAssumption
  <2> QED BY <2>3, SamePredicates DEF Sound, SameJobs, JLP!Index
<1>3. CASE i \in Nat /\ U = JL!set_current_job(L, i)
  <2>0. U = JLP!set_current_job(L, i) BY <1>3, SameSelect
  <2>1. JLP!Slabbed(U) /\ U.jobs = L.jobs
    BY <1>1, <1>3, <2>0, JLP!ChoiceSlabbed, JobControlAssumption
  <2>2. JLP!Owned(L) => JLP!Owned(U) BY <2>1 DEF JLP!Owned, JLP!Index
  <2>3. JLP!WellFormed(L) => JLP!WellFormed(U) /\ (JLP!Ranked(L) => JLP!Ranked(U))
    BY <2>0, JLP!SetCurrentKeeps, JobControlAssumption
  <2> QED BY <2>1, <2>2, <2>3, SamePredicates DEF Sound, SameJobs
<1> QED BY <1>2, <1>3

(* A job is removed.                                                       *)
LEMMA RemoveJobs ==
    ASSUME NEW L, NEW w \in BOOLEAN, NEW r \in BOOLEAN, Sound(L, w, r), NEW i \in DOMAIN L.jobs,
           NEW U, U = JL!remove(L, i)
    PROVE  /\ Sound(U, w, r) /\ DOMAIN U.jobs = DOMAIN L.jobs \ {i}
           /\ \A k \in DOMAIN U.jobs : U.jobs[k] = L.jobs[k]
<1>1. JLP!Slabbed(L) /\ i \in JLP!Index(L) /\ U = JLP!remove(L, i)
  BY SamePredicates, SameRemove DEF Sound, JLP!Index
<1>2. /\ JLP!Slabbed(U) /\ (JLP!Owned(L) => JLP!Owned(U))
      /\ JLP!WellFormed(L) => JLP!WellFormed(U) /\ (JLP!Ranked(L) => JLP!Ranked(U))
  <2>1. JLP!Slabbed(U) /\ (JLP!Owned(L) => JLP!Owned(U))
    BY <1>1, JLP!RemoveSlabbed, JobControlAssumption
  <2>2. JLP!WellFormed(L) => JLP!WellFormed(U) /\ (JLP!Ranked(L) => JLP!Ranked(U))
    BY <1>1, JLP!RemoveKeeps, JobControlAssumption
  <2> QED BY <2>1, <2>2
<1>3. PICK c : c = IF i = L.current_job_index THEN L.previous_job_index
                                              ELSE L.current_job_index
  OBVIOUS
<1>4. JLP!Removed(L, U, i, c) BY <1>1, <1>3, JLP!RemoveFields, JobControlAssumption
<1>5. U.jobs = [k \in DOMAIN L.jobs \ {i} |-> L.jobs[k]]
  BY <1>4 DEF JLP!Removed, JLP!Index
<1>6. Sound(U, w, r) BY <1>2, SamePredicates DEF Sound
<1> QED BY <1>5, <1>6

\* The ranks are kept if a job is inserted for p when it is no job yet that is
\* alive, and the choice of jobs if it is none at all.
MayInsert(L, w, r, p, s) ==
    /\ w /\ s = "Stopped" => \A k \in DOMAIN L.jobs : L.jobs[k].pid # p
    /\ r /\ s = "Running" =>
          \A k \in DOMAIN L.jobs : L.jobs[k].pid = p => L.jobs[k].state = "Finished"

\* U is L with a job for p, in place of the one it had.
Added(L, U, p, s, i) ==
    /\ DOMAIN U.jobs = DOMAIN L.jobs \cup {i}
    /\ U.jobs[i].pid = p /\ U.jobs[i].state = s
    /\ \A k \in DOMAIN L.jobs \ {i} : U.jobs[k] = L.jobs[k] /\ L.jobs[k].pid # p
    /\ i \in DOMAIN L.jobs => L.jobs[i].pid = p

(* A new child becomes a job, in place of a job with its process ID.       *)
LEMMA InsertJobs ==
    ASSUME NEW L, NEW w \in BOOLEAN, NEW r \in BOOLEAN, Sound(L, w, r), NEW p \in Pid,
           NEW s \in {"Running", "Stopped"}, NEW c \in BOOLEAN, MayInsert(L, w, r, p, s),
           NEW U, U = JL!insert(L, JL!NewJob(p, TRUE, s, c))
    PROVE  Sound(U, w, r) /\ \E i \in Nat : Added(L, U, p, s, i)
<1>1. PICK job : job = JL!NewJob(p, TRUE, s, c) OBVIOUS
<1>2. job \in JLP!Job /\ job.pid = p /\ job.state = s /\ job.is_owned
  BY <1>1 DEF JL!NewJob, JLP!Job, JLP!State
<1>3. JLP!Slabbed(L) /\ U = JLP!insert(L, job)
  BY <1>1, SamePredicates, SameInsert DEF Sound
<1>4. ASSUME w
      PROVE  /\ \A k \in JLP!SuspendedSet(L) : L.jobs[k].pid = job.pid => job.state # "Stopped"
             /\ r => \A k \in JLP!SuspendedSet(L) : L.jobs[k].pid # job.pid
  BY <1>2, <1>4 DEF JLP!SuspendedSet, JLP!Index, MayInsert
<1>5. ASSUME w
      PROVE  /\ JLP!WellFormed(U)
             /\ (/\ JLP!Ranked(L)
                 /\ \A k \in JLP!SuspendedSet(L) : L.jobs[k].pid # job.pid) => JLP!Ranked(U)
  <2>1. JLP!WellFormed(L) BY <1>5, SamePredicates DEF Sound
  <2> QED BY <1>2, <1>3, <1>4, <1>5, <2>1, JLP!InsertKeeps, JobControlAssumption
<1>7. /\ JLP!Slabbed(U)
      /\ JLP!Owned(L) /\ job.is_owned => JLP!Owned(U)
      /\ \E i \in Nat : JLP!Placed(L, job, U, i)
  BY <1>2, <1>3, JLP!InsertSlabbed, JobControlAssumption
<1>6. Sound(U, w, r) BY <1>2, <1>4, <1>5, <1>7, SamePredicates DEF Sound
<1>p. PICK i \in Nat : JLP!Placed(L, job, U, i) BY <1>7
<1>8. /\ DOMAIN U.jobs = DOMAIN L.jobs \cup {i} /\ U.jobs[i] = job
      /\ \A k \in DOMAIN L.jobs \ {i} : U.jobs[k] = L.jobs[k]
      /\ i \in DOMAIN L.jobs => L.jobs[i].pid = job.pid
  BY <1>p DEF JLP!Placed, JLP!Index
<1>9. \A k \in DOMAIN L.jobs \ {i} : L.jobs[k].pid # p
  <2> SUFFICES ASSUME NEW k \in DOMAIN L.jobs \ {i}, L.jobs[k].pid = p PROVE FALSE OBVIOUS
  <2>1. k \in DOMAIN U.jobs /\ i \in DOMAIN U.jobs /\ U.jobs[k].pid = U.jobs[i].pid
    BY <1>2, <1>8
  <2>2. k = i BY <2>1, <1>6, JobTypes DEF Sound
  <2> QED BY <2>2
<1>10. Added(L, U, p, s, i) BY <1>2, <1>8, <1>9 DEF Added
<1> QED BY <1>6, <1>10

(* A loop over jobs takes the first of them.                               *)
LEMMA FirstInTodo ==
    ASSUME todo \subseteq Nat, todo # {}
    PROVE  First \in todo
<1>1. First = JLP!First(todo) BY DEF First, JLP!First
<1> QED BY <1>1, JLP!FirstIn, JobControlAssumption

-----------------------------------------------------------------------------
\* The inductive invariant, apart from the list itself.
Types ==
    /\ proc \in [Pid -> {"None", "Running", "Stopped", "Finished"}]
    /\ news \subseteq Pid /\ fresh \subseteq Pid /\ early \subseteq Pid
    /\ tty \in Pid \cup {Shell}
    /\ chld \in {"Default", "Ignore", "Catch"}
    /\ pc \in {"input", "update", "ready", "report", "bg", "jobs", "wait",
               "enable", "poll", "sleep", "halted"}
    /\ cmd \in [kind : {"none", "wait"} \cup Foreground, target : Pid \cup {None},
                index : Nat \cup {None}, result : Halted \cup {None}]
    /\ todo \subseteq Nat

Flags == {sigchld, ignored, stray, revived, late} \subseteq BOOLEAN

Rest ==
    /\ KernelOK /\ CmdOK /\ AwaitedChild /\ JobsAreChildren /\ FinishedGone
    /\ LatestState /\ NoStraySignal /\ Terminal

(* The parts of the invariant that are proved apart ...                    *)
LEMMA Parts == IInv => Sound(jobs, ~revived, ~ignored) /\ Types /\ Flags /\ Rest
<1> SUFFICES ASSUME IInv PROVE Sound(jobs, ~revived, ~ignored) /\ Types /\ Flags /\ Rest OBVIOUS
<1>1. Sound(jobs, ~revived, ~ignored) BY Zenon DEF IInv, Sound
<1>2. Types /\ Flags BY Zenon DEF IInv, Consistent, TypeOK, Types, Flags
<1>3. Rest BY Zenon DEF IInv, Consistent, Rest
<1> QED BY <1>1, <1>2, <1>3

(* ... and make it up.                                                     *)
LEMMA Whole == Sound(jobs, ~revived, ~ignored) /\ Types /\ Flags /\ Rest => IInv
<1> SUFFICES ASSUME Sound(jobs, ~revived, ~ignored), Types, Flags, Rest PROVE IInv OBVIOUS
<1>1. JL!TypeOK BY DEF Sound, JL!Slabbed, JL!TypeOK
<1>2. TypeOK BY <1>1, Zenon DEF TypeOK, Types, Flags
<1> QED BY <1>2, Zenon DEF IInv, Sound, Rest, Consistent

(* In the next state too.                                                  *)
LEMMA PartsNext ==
    Sound(jobs', ~revived', ~ignored') /\ Types' /\ Flags' /\ Rest' => IInv'
<1>1. (Sound(jobs, ~revived, ~ignored))' /\ Types' /\ Flags' /\ Rest' => IInv' BY Whole, PTL
<1>2. Sound(jobs', ~revived', ~ignored') <=> (Sound(jobs, ~revived, ~ignored))'
  BY DEF Sound
<1> QED BY <1>1, <1>2

(* A command that has the last state of its child is one in the foreground *)
(* and SIGCHLD is caught.                                                  *)
LEMMA HaltedCommand ==
    ASSUME Types, Rest
    PROVE  /\ cmd.kind \in Foreground => cmd.target \in Pid
           /\ cmd.result \in Halted =>
                    pc = "halted" /\ cmd.kind \in Foreground /\ chld = "Catch"
           /\ pc = "halted" => cmd.kind \in Foreground /\ cmd.result \in Halted
           /\ pc # "halted" => cmd.result = None
<1>1. None \notin Halted BY JobControlAssumption DEF Halted
<1> QED BY <1>1 DEF Types, Rest, KernelOK, CmdOK

\* What the histories record stays the same when all of them do.
USE DEF history

(* A child changes its state, by itself ...                                *)
LEMMA ChangeKeeps ==
    ASSUME IInv, NEW p \in Pid, NEW s \in Alive \cup {"Finished"}, Change(p, s)
    PROVE  IInv'
<1>1. Sound(jobs, ~revived, ~ignored) /\ Types /\ Flags /\ Rest BY Parts
<1>2. UNCHANGED <<jobs, history>> BY DEF Change
<1>3. Sound(jobs', ~revived', ~ignored') BY <1>1, <1>2
<1>4. Types' BY <1>1 DEF Types, Change, Becomes, Alive
<1>5. Flags' BY <1>1 DEF Flags, Change, Becomes
<1>6. \A i \in Index : jobs.jobs[i].pid \in Pid BY <1>1, JobTypes DEF Sound, Index
<1>7. Rest'
  <2>1. KernelOK' BY <1>1 DEF KernelOK, Types, Rest, Change, Becomes, Alive, Child
  <2>2. CmdOK' BY <1>1 DEF CmdOK, Rest, Change, Index
  <2>3. AwaitedChild'
    BY <1>1, <1>6, HaltedCommand
       DEF AwaitedChild, Rest, Change, Becomes, Types, KernelOK, Child, Index, Alive, Halted
  <2>4. JobsAreChildren'
    BY <1>1, <1>6 DEF JobsAreChildren, Rest, Change, Becomes, Types, KernelOK, Child, Index, Alive
  <2>5. FinishedGone' /\ LatestState'
    BY <1>1, <1>6 DEF FinishedGone, LatestState, Borrowed, Rest, Change, Becomes, Types, Child, Index, Alive
  <2>6. NoStraySignal' BY <1>1 DEF NoStraySignal, Rest, Change
  <2>7. Terminal'
    BY <1>1 DEF Terminal, Rest, Change, Becomes, Types, Alive
  <2> QED BY <2>1, <2>2, <2>3, <2>4, <2>5, <2>6, <2>7 DEF Rest
<1> QED BY <1>3, <1>4, <1>5, <1>7, PartsNext

(* ... or takes the terminal.                                              *)
LEMMA ChildTakesTerminalKeeps ==
    ASSUME IInv, NEW p \in Pid, ChildTakesTerminal(p)
    PROVE  IInv'
<1>1. Sound(jobs, ~revived, ~ignored) /\ Types /\ Flags /\ Rest BY Parts
<1>2. UNCHANGED <<jobs, ignored, stray, revived>> BY DEF ChildTakesTerminal
<1>3. Sound(jobs', ~revived', ~ignored') BY <1>1, <1>2
<1>4. Types' BY <1>1 DEF Types, ChildTakesTerminal
<1>5. Flags' BY <1>1 DEF Flags, ChildTakesTerminal
<1>6. Rest'
  BY <1>1 DEF Rest, KernelOK, CmdOK, AwaitedChild, JobsAreChildren, FinishedGone, LatestState,
              Borrowed, NoStraySignal, Terminal, ChildTakesTerminal, Child, Index
<1> QED BY <1>3, <1>4, <1>5, <1>6, PartsNext

(* A step that leaves the children, the terminal and the states of the     *)
(* jobs alone. It goes on with the same command, or with one that is not   *)
(* in the foreground when there is nothing to wait for.                    *)
LEMMA QuietKeeps ==
    ASSUME IInv, UNCHANGED <<proc, news, fresh, early, tty, history>>,
           NEW w \in BOOLEAN, w = ~revived, NEW r \in BOOLEAN, r = ~ignored,
           Sound(jobs', w, r), SameJobs(jobs, jobs'),
           chld' = chld \/ chld' = "Catch", sigchld' \in BOOLEAN,
           Types', CmdOK', pc' \in {"poll", "sleep", "halted"} => chld' = "Catch",
           \/ cmd' = cmd /\ (pc' = "halted" <=> pc = "halted")
           \/ /\ cmd'.kind \notin Foreground /\ pc' # "halted"
              /\ cmd.kind \in Foreground => ignored /\ ~Child(cmd.target)
    PROVE  IInv'
<1>1. Sound(jobs, ~revived, ~ignored) /\ Types /\ Flags /\ Rest BY Parts
<1>2. Sound(jobs', ~revived', ~ignored') OBVIOUS
<1>3. Flags' BY <1>1, Zenon DEF Flags
<1>4. \A i \in Index : jobs.jobs[i].pid \in Pid BY <1>1, JobTypes DEF Sound, Index
<1>5. /\ Index' = Index
      /\ \A k \in Index : /\ jobs'.jobs[k].pid = jobs.jobs[k].pid
                          /\ jobs'.jobs[k].state = jobs.jobs[k].state
  BY DEF SameJobs, Index
<1>6. Rest'
  <2>1. KernelOK' BY <1>1 DEF Rest, KernelOK, Child
  <2>2. FinishedGone' /\ LatestState' /\ NoStraySignal'
    BY <1>1, <1>5 DEF Rest, FinishedGone, LatestState, Borrowed, Foreground, NoStraySignal, Child
  <2>3. CASE cmd' = cmd /\ (pc' = "halted" <=> pc = "halted")
    <3>1. AwaitedChild' /\ JobsAreChildren'
      BY <1>1, <1>5, <2>3 DEF Rest, AwaitedChild, JobsAreChildren, Child
    <3>2. Terminal' BY <1>1, <2>3 DEF Rest, Terminal
    <3> QED BY <2>1, <2>2, <3>1, <3>2 DEF Rest
  <2>4. CASE /\ cmd'.kind \notin Foreground /\ pc' # "halted"
             /\ cmd.kind \in Foreground => ignored /\ ~Child(cmd.target)
    <3>1. cmd'.result = None /\ None \notin Halted
      BY <2>4, JobControlAssumption DEF CmdOK, Halted
    <3>2. AwaitedChild' BY <2>4, <3>1 DEF AwaitedChild, Foreground, Halted
    <3>3. JobsAreChildren'
      BY <1>1, <1>5, <2>4, JobControlAssumption DEF Rest, JobsAreChildren, CmdOK, Child
    <3>4. Terminal'
      BY <1>1, <2>4 DEF Rest, Terminal, Child, Foreground
    <3> QED BY <2>1, <2>2, <3>2, <3>3, <3>4 DEF Rest
  <2> QED BY <2>3, <2>4
<1> QED BY <1>2, <1>3, <1>6, PartsNext

(* A job is removed once its process is no child any more.                 *)
LEMMA DropKeeps ==
    ASSUME IInv, NEW i \in Index, jobs' = JL!remove(jobs, i),
           jobs.jobs[i].state \notin Alive,
           UNCHANGED <<kernel, history>>,
           cmd.kind \notin Foreground, cmd'.kind \notin Foreground,
           Types', CmdOK', pc' \notin {"poll", "sleep", "halted"}
    PROVE  IInv'
<1>1. Sound(jobs, ~revived, ~ignored) /\ Types /\ Flags /\ Rest BY Parts
<1>2. PICK w \in BOOLEAN, r \in BOOLEAN : w = ~revived /\ r = ~ignored
  BY <1>1, Zenon DEF Flags
<1>3. /\ Sound(jobs', w, r) /\ Index' = Index \ {i}
      /\ \A k \in Index \ {i} : jobs'.jobs[k] = jobs.jobs[k]
  <2>1. Sound(jobs, w, r) /\ i \in DOMAIN jobs.jobs BY <1>1, <1>2 DEF Index
  <2>2. /\ Sound(jobs', w, r) /\ DOMAIN jobs'.jobs = DOMAIN jobs.jobs \ {i}
        /\ \A k \in DOMAIN jobs'.jobs : jobs'.jobs[k] = jobs.jobs[k]
    BY <2>1, RemoveJobs
  <2> QED BY <2>2 DEF Index
<1>4. Sound(jobs', ~revived', ~ignored') BY <1>2, <1>3
<1>5. Flags' BY <1>1, Zenon DEF Flags, kernel
<1>6. /\ jobs.jobs[i].pid \in Pid /\ jobs.jobs[i].state = "Finished"
      /\ \A k \in Index : jobs.jobs[k].pid \in Pid
  BY <1>1, JobTypes DEF Sound, Index, Alive
<1>7. ~Child(jobs.jobs[i].pid) BY <1>1, <1>6 DEF Rest, FinishedGone, Borrowed, Foreground
<1>8. Rest'
  <2>1. KernelOK' BY <1>1 DEF Rest, KernelOK, Child, kernel
  <2>2. FinishedGone' /\ LatestState' /\ NoStraySignal'
    BY <1>1, <1>3 DEF Rest, FinishedGone, LatestState, Borrowed, Foreground, NoStraySignal,
                      Child, kernel
  <2>3. cmd'.result = None /\ None \notin Halted BY JobControlAssumption DEF CmdOK, Halted
  <2>4. AwaitedChild' BY <2>3 DEF AwaitedChild, Foreground, Halted
  <2>5. JobsAreChildren'
    BY <1>1, <1>3, <1>7, JobControlAssumption
       DEF Rest, JobsAreChildren, CmdOK, Child, kernel
  <2>6. Terminal' BY <1>1 DEF Rest, Terminal, Foreground, kernel
  <2> QED BY <2>1, <2>2, <2>4, <2>5, <2>6 DEF Rest
<1> QED BY <1>4, <1>5, <1>8, PartsNext

(* fg, bg and kill send a signal to a job that is alive.                   *)
LEMMA SignalKeeps ==
    ASSUME IInv, pc = "ready", NEW i \in Index, jobs.jobs[i].state \in Alive,
           NEW s \in Alive \cup {"Finished"}, Signal(jobs.jobs[i].pid, s),
           NEW w \in BOOLEAN, w = ~revived, NEW r \in BOOLEAN, r = ~ignored,
           Sound(jobs', w, r), SameJobs(jobs, jobs'),
           chld' = chld, Types', CmdOK', pc' \notin {"poll", "sleep", "halted"},
           \/ cmd'.kind \notin Foreground /\ UNCHANGED <<tty, late>>
           \/ cmd' = Cmd("fg", jobs.jobs[i].pid, i, None) /\ s = "Running" /\ late' = FALSE
    PROVE  IInv'
<1>1. Sound(jobs, ~revived, ~ignored) /\ Types /\ Flags /\ Rest BY Parts
<1>2. PICK p \in Pid : p = jobs.jobs[i].pid BY <1>1, JobTypes DEF Sound, Index
<1>3. /\ \A k \in Index : jobs.jobs[k].pid \in Pid
      /\ Index' = Index
      /\ \A k \in Index : /\ jobs'.jobs[k].pid = jobs.jobs[k].pid
                          /\ jobs'.jobs[k].state = jobs.jobs[k].state
  BY <1>1, JobTypes DEF Sound, SameJobs, Index
<1>4. ignored' = ignored /\ Sound(jobs', ~revived', ~ignored') BY DEF Signal
<1>5. ~ignored => Child(p) BY <1>1, <1>2 DEF Rest, JobsAreChildren
<1>6. /\ stray' = (stray \/ ~Child(p))
      /\ \/ proc[p] \in Alive /\ s # proc[p] /\ Becomes(p, s)
         \/ UNCHANGED <<proc, news, fresh, early, sigchld>>
  BY <1>2 DEF Signal
<1>7. Flags'
  <2>1. stray' \in BOOLEAN BY <1>6
  <2>2. sigchld' \in BOOLEAN BY <1>1, <1>6 DEF Flags, Becomes
  <2>3. late' \in BOOLEAN BY <1>1 DEF Flags
  <2>4. ignored' \in BOOLEAN /\ revived' \in BOOLEAN BY <1>1 DEF Flags, Signal
  <2> QED BY <2>1, <2>2, <2>3, <2>4, Zenon DEF Flags
<1>c. cmd.kind \notin Foreground /\ cmd.target = None /\ None \notin Pid
  BY <1>1, JobControlAssumption DEF Rest, CmdOK
<1>8. Rest'
  <2>1. KernelOK'
    BY <1>1, <1>4, <1>6 DEF Rest, KernelOK, Types, Becomes, Alive, Child
  <2>2. FinishedGone' /\ LatestState'
    BY <1>1, <1>3, <1>6, <1>c
       DEF Rest, FinishedGone, LatestState, Borrowed, Foreground, Types, Becomes, Alive, Child
  <2>3. NoStraySignal' BY <1>1, <1>4, <1>5, <1>6 DEF Rest, NoStraySignal
  <2>4. \A q \in Pid : /\ proc'[q] # "None" => Child(q)
                       /\ Child(q) /\ ~ignored => proc'[q] # "None"
    BY <1>1, <1>6 DEF Rest, KernelOK, Types, Becomes, Alive, Child
  <2>5. cmd'.result = None /\ None \notin Halted BY JobControlAssumption DEF CmdOK, Halted
  <2>6. AwaitedChild'
    <3>1. CASE cmd'.kind \notin Foreground
      BY <3>1, <2>5 DEF AwaitedChild, Foreground, Halted
    <3>2. CASE cmd' = Cmd("fg", jobs.jobs[i].pid, i, None)
      <4>1. cmd'.kind = "fg" /\ cmd'.target = p /\ cmd'.index = i
        BY <3>2, <1>2 DEF Cmd
      <4>2. ~ignored => proc'[p] # "None" BY <1>5, <2>4
      <4> QED BY <4>1, <4>2, <2>5, <1>2, <1>3, <1>4 DEF AwaitedChild, Halted, Child
    <3> QED BY <3>1, <3>2
  <2>7. JobsAreChildren'
    <3>1. ASSUME NEW q \in Pid, proc'[q] # "None"
          PROVE  \E k \in Index' : jobs'.jobs[k].pid = q
      <4>1. Child(q) /\ q # cmd.target BY <3>1, <1>c, <2>4
      <4>2. PICK k \in Index : jobs.jobs[k].pid = q
        BY <1>1, <4>1 DEF Rest, JobsAreChildren
      <4> QED BY <4>2, <1>3
    <3>2. ASSUME ~ignored', NEW k \in Index', jobs'.jobs[k].state \in Alive
          PROVE  proc'[jobs'.jobs[k].pid] # "None"
      <4>1. k \in Index /\ jobs.jobs[k].state \in Alive /\ jobs.jobs[k].pid \in Pid
        BY <3>2, <1>3
      <4>2. Child(jobs.jobs[k].pid) BY <1>1, <1>4, <3>2, <4>1 DEF Rest, JobsAreChildren
      <4>3. proc'[jobs.jobs[k].pid] # "None" BY <4>1, <4>2, <2>4, <1>4, <3>2
      <4> QED BY <4>1, <4>3, <1>3
    <3> QED BY <3>1, <3>2 DEF JobsAreChildren, Child
  <2>8. Terminal'
    <3>1. fresh = {} BY <1>1, <1>c DEF Rest, Terminal, Foreground
    <3>2. fresh' = {} BY <3>1, <1>6 DEF Becomes
    <3>3. (tty' = tty /\ late' = late) \/ cmd'.kind = "fg" BY DEF Cmd
    <3>4. tty # Shell => ignored \/ late BY <1>1, <1>c DEF Rest, Terminal, Foreground
    <3> QED BY <3>2, <3>3, <3>4, <1>4 DEF Terminal
  <2> QED BY <2>1, <2>2, <2>3, <2>6, <2>7, <2>8 DEF Rest
<1> QED BY <1>4, <1>7, <1>8, PartsNext

(* The state of a child is read by wait. A command that was waiting for it *)
(* ends or goes on.                                                        *)
LEMMA WaitedKeeps ==
    ASSUME IInv, NEW p \in news, Waited(p), UNCHANGED history,
           Types', CmdOK', pc' \in {"poll", "sleep", "halted"} => chld = "Catch",
           \/ /\ cmd' = cmd /\ pc # "halted" /\ pc' # "halted"
              /\ cmd.kind \in Foreground => p = cmd.target /\ proc[p] # "Finished"
           \/ /\ cmd' = [cmd EXCEPT !.result = proc[p]] /\ pc' = "halted"
              /\ cmd.kind \in Foreground /\ p = cmd.target /\ proc[p] \in Halted
              /\ proc[p] = "Stopped" => cmd.kind # "subst"
    PROVE  IInv'
<1>1. Sound(jobs, ~revived, ~ignored) /\ Types /\ Flags /\ Rest BY Parts
<1>2. PICK w \in BOOLEAN, r \in BOOLEAN : w = ~revived /\ r = ~ignored
  BY <1>1, Zenon DEF Flags
<1>3. p \in Pid /\ Child(p) BY <1>1 DEF Types, Rest, KernelOK
<1>4. PICK s \in {"Running", "Stopped", "Finished"} : s = proc[p]
  BY <1>1, <1>3 DEF Types, Child
<1>5. /\ Sound(jobs', w, r) /\ Index' = Index
      /\ \A k \in Index :
            /\ jobs'.jobs[k].pid = jobs.jobs[k].pid
            /\ jobs.jobs[k].pid = p => jobs'.jobs[k].state = s
            /\ jobs.jobs[k].pid # p => jobs'.jobs[k].state = jobs.jobs[k].state
  <2>1. Sound(jobs, w, r) /\ jobs' = JL!update_status(jobs, p, s)
    BY <1>1, <1>2, <1>4 DEF Waited
  <2>2. /\ Sound(jobs', w, r) /\ DOMAIN jobs'.jobs = DOMAIN jobs.jobs
        /\ \A k \in DOMAIN jobs.jobs :
              /\ jobs'.jobs[k].pid = jobs.jobs[k].pid
              /\ jobs.jobs[k].pid = p => jobs'.jobs[k].state = s
              /\ jobs.jobs[k].pid # p => jobs'.jobs[k].state = jobs.jobs[k].state
    BY <2>1, <1>3, UpdateJobs
  <2> QED BY <2>2 DEF Index
<1>6. Sound(jobs', ~revived', ~ignored') BY <1>2, <1>5
<1>7. Flags' BY <1>1, Zenon DEF Flags, Waited
<1>8. /\ \A k \in Index : jobs.jobs[k].pid \in Pid
      /\ \A k \in Index : jobs.jobs[k].state \in {"Running", "Stopped", "Finished"}
  BY <1>1, JobTypes DEF Sound, Index
<1>9. /\ news' = news \ {p} /\ UNCHANGED <<fresh, early, chld, tty>>
      /\ \A q \in Pid : q # p => proc'[q] = proc[q]
      /\ s = "Finished" => proc'[p] = "None"
      /\ s # "Finished" => proc' = proc
  BY <1>1, <1>3, <1>4 DEF Waited, Types
<1>10. Rest'
  <2>6. /\ cmd'.target = cmd.target /\ cmd'.kind = cmd.kind
        /\ pc' = "halted" => pc = "halted" \/ (cmd.target = p /\ s \in Halted)
    BY <1>1, <1>4 DEF Types
  <2>1. KernelOK' BY <1>1, <1>4, <1>9 DEF Rest, KernelOK, Types, Child, Alive
  <2>2. FinishedGone'
    BY <1>1, <1>4, <1>5, <1>8, <1>9, <2>6 DEF Rest, FinishedGone, Borrowed, Child
  <2>3. LatestState'
    BY <1>1, <1>4, <1>5, <1>8, <1>9, <2>6 DEF Rest, LatestState, Borrowed, Child
  <2>4. NoStraySignal' BY <1>1 DEF Rest, NoStraySignal
  <2>5. AwaitedChild'
    <3>1. CASE cmd' = cmd /\ pc # "halted" /\ pc' # "halted"
               /\ (cmd.kind \in Foreground => p = cmd.target /\ proc[p] # "Finished")
      <4>1. cmd.result = None /\ None \notin Halted
        BY <1>1, <3>1, HaltedCommand, JobControlAssumption DEF Halted
      <4> QED BY <1>1, <1>4, <1>5, <1>9, <3>1, <4>1 DEF Rest, AwaitedChild, Child, Halted
    <3>2. CASE /\ cmd' = [cmd EXCEPT !.result = proc[p]] /\ pc' = "halted"
               /\ cmd.kind \in Foreground /\ p = cmd.target /\ proc[p] \in Halted
               /\ proc[p] = "Stopped" => cmd.kind # "subst"
      <4>1. /\ cmd'.result = s /\ cmd'.kind = cmd.kind
            /\ cmd'.target = p /\ cmd'.index = cmd.index
        BY <1>1, <1>4, <3>2 DEF Types
      <4> QED BY <1>1, <1>3, <1>4, <1>5, <1>9, <3>2, <4>1 DEF Rest, AwaitedChild, Child, Halted
    <3> QED BY <3>1, <3>2
  <2>7. JobsAreChildren'
    BY <1>1, <1>3, <1>4, <1>5, <1>8, <1>9, <2>6 DEF Rest, JobsAreChildren, Child, Alive
  <2>8. Terminal'
    BY <1>1, <1>4, <1>9, <2>6 DEF Rest, Terminal, Halted, KernelOK, Types, Alive
  <2> QED BY <2>1, <2>2, <2>3, <2>4, <2>5, <2>7, <2>8 DEF Rest
<1> QED BY <1>6, <1>7, <1>10, PartsNext

(* An asynchronous command is started and becomes a job.                   *)
LEMMA RunAsyncKeeps ==
    ASSUME IInv, NEW p \in Pid, RunAsync(p)
    PROVE  IInv'
<1>1. Sound(jobs, ~revived, ~ignored) /\ Types /\ Flags /\ Rest BY Parts
<1>2. PICK w \in BOOLEAN, r \in BOOLEAN : w = ~revived /\ r = ~ignored
  BY <1>1, Zenon DEF Flags
<1>3. /\ pc = "ready" /\ pc' = "update" /\ cmd' = NoCmd /\ todo' = {} /\ ~Child(p)
      /\ proc' = [proc EXCEPT ![p] = "Running"]
      /\ UNCHANGED <<news, fresh, early, tty, chld, sigchld, history>>
  BY DEF RunAsync, Ends, Unused
<1>4. \A k \in Index : /\ jobs.jobs[k].pid \in Pid
                      /\ jobs.jobs[k].state \in {"Running", "Stopped", "Finished"}
                      /\ \A m \in Index : jobs.jobs[k].pid = jobs.jobs[m].pid => k = m
  BY <1>1, JobTypes DEF Sound, Index
<1>5. r => \A k \in Index : jobs.jobs[k].pid = p => jobs.jobs[k].state = "Finished"
  BY <1>1, <1>2, <1>3, <1>4 DEF Rest, JobsAreChildren, Alive
<1>6. Sound(jobs', w, r) /\ \E i \in Nat : Added(jobs, jobs', p, "Running", i)
  <2>1. Sound(jobs, w, r) /\ jobs' = JL!insert(jobs, JL!NewJob(p, TRUE, "Running", FALSE))
    BY <1>1, <1>2 DEF RunAsync
  <2>2. MayInsert(jobs, w, r, p, "Running") BY <1>5 DEF MayInsert, Index
  <2>3. FALSE \in BOOLEAN /\ "Running" \in {"Running", "Stopped"} OBVIOUS
  <2> QED BY <2>1, <2>2, <2>3, InsertJobs
<1>7. PICK i \in Nat :
            /\ Index' = Index \cup {i}
            /\ jobs'.jobs[i].pid = p /\ jobs'.jobs[i].state = "Running"
            /\ \A k \in Index \ {i} : jobs'.jobs[k] = jobs.jobs[k] /\ jobs.jobs[k].pid # p
            /\ i \in Index => jobs.jobs[i].pid = p
  BY <1>6 DEF Added, Index
<1>8. Sound(jobs', ~revived', ~ignored') BY <1>2, <1>3, <1>6
<1>9. /\ cmd'.kind = "none" /\ cmd'.target = None /\ cmd'.index = None
      /\ cmd'.result = None
  BY <1>3 DEF NoCmd, Cmd
<1>10. Types' BY <1>1, <1>3, <1>9 DEF Types, NoCmd, Cmd
<1>11. Flags' BY <1>1, <1>3, Zenon DEF Flags
<1>c. cmd.kind \notin Foreground /\ cmd.target = None /\ None \notin Pid /\ None \notin Halted
  BY <1>1, <1>3, JobControlAssumption DEF Rest, CmdOK, Halted
<1>12. Rest'
  <2>1. KernelOK' BY <1>1, <1>3 DEF Rest, KernelOK, Types, Child, Alive
  <2>2. CmdOK' BY <1>3, <1>9 DEF CmdOK, Foreground
  <2>3. AwaitedChild' BY <1>9, <1>c DEF AwaitedChild, Foreground, Halted
  <2>4. \A k \in Index \ {i} : jobs.jobs[k].pid # p BY <1>7
  <2>5. proc'[p] = "Running" /\ \A q \in Pid : q # p => proc'[q] = proc[q]
    BY <1>1, <1>3 DEF Types
  <2>6. JobsAreChildren'
    <3>1. \A k \in Index' : ~ignored' /\ jobs'.jobs[k].state \in Alive
                => proc'[jobs'.jobs[k].pid] # "None"
      BY <1>1, <1>3, <1>4, <1>7, <2>4, <2>5 DEF Rest, JobsAreChildren, Child
    <3>2. ASSUME NEW q \in Pid, proc'[q] # "None"
          PROVE  \E k \in Index' : jobs'.jobs[k].pid = q
      <4>1. CASE q = p BY <4>1, <1>7
      <4>2. CASE q # p
        <5>1. Child(q) /\ q # cmd.target BY <3>2, <4>2, <2>5, <1>c DEF Child
        <5>2. PICK k \in Index : jobs.jobs[k].pid = q
          BY <1>1, <5>1 DEF Rest, JobsAreChildren
        <5> QED BY <5>2, <4>2, <1>7
      <4> QED BY <4>1, <4>2
    <3> QED BY <3>1, <3>2 DEF JobsAreChildren, Child
  <2>7. FinishedGone' /\ LatestState'
    BY <1>1, <1>3, <1>4, <1>7, <1>9, <1>c, <2>4, <2>5
       DEF Rest, FinishedGone, LatestState, Borrowed, Foreground, Child
  <2>8. NoStraySignal' BY <1>1, <1>3 DEF Rest, NoStraySignal
  <2>9. Terminal'
    BY <1>1, <1>3, <1>c DEF Rest, Terminal, Foreground
  <2> QED BY <2>1, <2>2, <2>3, <2>6, <2>7, <2>8, <2>9 DEF Rest
<1> QED BY <1>8, <1>10, <1>11, <1>12, PartsNext

(* A command is started in the foreground, or a command substitution.      *)
LEMMA RunKeeps ==
    ASSUME IInv, NEW p \in Pid, NEW kind \in {"run", "subst"}, Run(p, kind)
    PROVE  IInv'
<1>1. Sound(jobs, ~revived, ~ignored) /\ Types /\ Flags /\ Rest BY Parts
<1>2. /\ pc = "ready" /\ pc' = "enable" /\ cmd' = Cmd(kind, p, None, None) /\ ~Child(p)
      /\ proc' = [proc EXCEPT ![p] = "Running"]
      /\ kind = "run" => fresh' = fresh \cup {p}
      /\ kind # "run" => fresh' = fresh
      /\ UNCHANGED <<jobs, news, early, tty, chld, sigchld, todo, history>>
  BY DEF Run, Unused
<1>3. \A k \in Index : /\ jobs.jobs[k].pid \in Pid
                      /\ jobs.jobs[k].state \in Alive \cup {"Finished"}
  BY <1>1, JobTypes DEF Sound, Index, Alive
<1>4. Sound(jobs', ~revived', ~ignored') BY <1>1, <1>2
<1>5. cmd'.kind = kind /\ cmd'.target = p /\ cmd'.index = None /\ cmd'.result = None
  BY <1>2 DEF Cmd
<1>6. Types' BY <1>1, <1>2 DEF Types, Cmd, Foreground
<1>7. Flags' BY <1>1, <1>2, Zenon DEF Flags
<1>c. cmd.kind \notin Foreground /\ cmd.target = None /\ None \notin Pid /\ None \notin Halted
  BY <1>1, <1>2, JobControlAssumption DEF Rest, CmdOK, Halted
<1>8. proc'[p] = "Running" /\ \A q \in Pid : q # p => proc'[q] = proc[q]
  BY <1>1, <1>2 DEF Types
<1>9. Rest'
  <2>1. KernelOK' BY <1>1, <1>2, <1>8 DEF Rest, KernelOK, Child, Alive
  <2>2. CmdOK' BY <1>2, <1>5 DEF CmdOK, Foreground
  <2>3. AwaitedChild'
    BY <1>2, <1>3, <1>5, <1>8, <1>c DEF AwaitedChild, Halted, Child, Index
  <2>4. JobsAreChildren'
    BY <1>1, <1>2, <1>3, <1>5, <1>8, <1>c DEF Rest, JobsAreChildren, Child, Index
  <2>5. FinishedGone'
    BY <1>1, <1>2, <1>3, <1>5, <1>8, <1>c DEF Rest, FinishedGone, Borrowed, Foreground, Child, Index
  <2>8. \A k \in Index : ~ignored /\ jobs.jobs[k].pid = p => jobs.jobs[k].state = "Finished"
    BY <1>1, <1>2, <1>3 DEF Rest, JobsAreChildren
  <2>9. LatestState'
    BY <1>1, <1>2, <1>3, <1>5, <1>8, <1>c, <2>8
       DEF Rest, LatestState, Borrowed, Foreground, Child, Index
  <2>6. NoStraySignal' BY <1>1, <1>2 DEF Rest, NoStraySignal
  <2>7. Terminal'
    BY <1>1, <1>2, <1>5, <1>8, <1>c DEF Rest, Terminal, Foreground
  <2> QED BY <2>1, <2>2, <2>3, <2>4, <2>5, <2>6, <2>7, <2>9 DEF Rest
<1> QED BY <1>4, <1>6, <1>7, <1>9, PartsNext

(* The command in the foreground has finished or is suspended.             *)
LEMMA FinishHaltedKeeps ==
    ASSUME IInv, FinishHalted
    PROVE  IInv'
<1>1. Sound(jobs, ~revived, ~ignored) /\ Types /\ Flags /\ Rest BY Parts
<1>3. /\ pc = "halted" /\ pc' = "update" /\ cmd' = NoCmd /\ todo' = {}
      /\ cmd.kind # "subst" => tty' = Shell /\ late' = FALSE
      /\ cmd.kind = "subst" => tty' = tty /\ late' = late
      /\ revived' = (revived \/ Revives)
      /\ UNCHANGED <<proc, news, fresh, early, chld, sigchld, ignored, stray>>
  BY DEF FinishHalted, Ends
<1>f. /\ revived \in BOOLEAN /\ ignored \in BOOLEAN /\ stray \in BOOLEAN
      /\ late \in BOOLEAN /\ sigchld \in BOOLEAN
  BY <1>1, Zenon DEF Flags
<1>2. PICK w \in BOOLEAN, r \in BOOLEAN : w = ~revived' /\ r = ~ignored
  BY <1>3, <1>f
<1>s. Sound(jobs, w, r)
  <2>1. w => ~revived BY <1>2, <1>3
  <2> QED BY <1>1, <1>2, <2>1 DEF Sound
<1>4. /\ cmd.kind \in Foreground /\ cmd.result \in Halted /\ cmd.target \in Pid
      /\ chld = "Catch"
  BY <1>1, <1>3, HaltedCommand
<1>5. PICK t \in Pid : t = cmd.target BY <1>4
<1>6. /\ cmd.result = "Stopped" => /\ Child(t) /\ (t \in news \/ proc[t] = "Stopped")
                                  /\ cmd.kind # "subst"
      /\ cmd.result = "Finished" => ~Child(t)
      /\ cmd.kind = "fg" => cmd.index \in Index /\ jobs.jobs[cmd.index].pid = t
  BY <1>1, <1>5 DEF Rest, AwaitedChild
<1>7. \A k \in Index : /\ jobs.jobs[k].pid \in Pid
                      /\ jobs.jobs[k].state \in {"Running", "Stopped", "Finished"}
                      /\ \A m \in Index : jobs.jobs[k].pid = jobs.jobs[m].pid => k = m
  BY <1>1, JobTypes DEF Sound, Index
<1>8. /\ cmd'.kind = "none" /\ cmd'.target = None /\ cmd'.index = None
      /\ cmd'.result = None
  BY <1>3 DEF NoCmd, Cmd
<1>9. Types' BY <1>1, <1>3 DEF Types, NoCmd, Cmd
<1>10. Flags'
  <2>1. late' \in BOOLEAN BY <1>3, <1>f
  <2>2. revived' \in BOOLEAN BY <1>3, <1>f
  <2> QED BY <1>3, <1>f, <2>1, <2>2, Zenon DEF Flags
<1>c. None \notin Pid /\ None \notin Halted BY JobControlAssumption DEF Halted
<1>11. KernelOK' /\ CmdOK' /\ AwaitedChild' /\ NoStraySignal'
  <2>1. KernelOK' BY <1>1, <1>3 DEF Rest, KernelOK, Child
  <2>2. CmdOK' BY <1>3, <1>8 DEF CmdOK, Foreground
  <2>3. AwaitedChild' BY <1>8, <1>c DEF AwaitedChild, Foreground, Halted
  <2>4. NoStraySignal' BY <1>1, <1>3 DEF Rest, NoStraySignal
  <2> QED BY <2>1, <2>2, <2>3, <2>4
<1>12. Terminal'
  BY <1>1, <1>3, <1>4 DEF Rest, Terminal, Foreground
<1>q. ASSUME Sound(jobs', w, r), JobsAreChildren', FinishedGone', LatestState' PROVE IInv'
  <2>1. Sound(jobs', ~revived', ~ignored') BY <1>2, <1>3, <1>q
  <2>2. Rest' BY <1>11, <1>12, <1>q DEF Rest
  <2> QED BY <2>1, <2>2, <1>9, <1>10, PartsNext
<1>13. CASE cmd.kind = "run" /\ cmd.result = "Stopped"
  <2>1. Sound(jobs, w, r) /\ jobs' = JL!insert(jobs, JL!NewJob(t, TRUE, "Stopped", TRUE))
    BY <1>s, <1>5, <1>13 DEF FinishHalted
  <2>2. MayInsert(jobs, w, r, t, "Stopped")
    <3>1. w => t \notin DOMAIN jobs.pids_to_indices BY <1>2, <1>3, <1>5, <1>13 DEF Revives
    <3>2. \A k \in DOMAIN jobs.jobs : jobs.jobs[k].pid \in DOMAIN jobs.pids_to_indices
      BY <1>1, JobTypes DEF Sound
    <3> QED BY <3>1, <3>2 DEF MayInsert
  <2>3. TRUE \in BOOLEAN /\ "Stopped" \in {"Running", "Stopped"} OBVIOUS
  <2>4. Sound(jobs', w, r) /\ \E i \in Nat : Added(jobs, jobs', t, "Stopped", i)
    BY <2>1, <2>2, <2>3, InsertJobs
  <2>5. PICK i \in Nat :
            /\ Index' = Index \cup {i}
            /\ jobs'.jobs[i].pid = t /\ jobs'.jobs[i].state = "Stopped"
            /\ \A k \in Index \ {i} : jobs'.jobs[k] = jobs.jobs[k] /\ jobs.jobs[k].pid # t
            /\ i \in Index => jobs.jobs[i].pid = t
    BY <2>4 DEF Added, Index
  <2>6. Child(t) /\ (t \in news \/ proc[t] = "Stopped") BY <1>6, <1>13
  <2>7. FinishedGone' /\ LatestState'
    BY <1>1, <1>3, <1>5, <1>7, <1>8, <2>5, <2>6
       DEF Rest, FinishedGone, LatestState, Borrowed, Child
  <2>8. JobsAreChildren'
    <3>1. \A k \in Index' : ~ignored' /\ jobs'.jobs[k].state \in Alive
                => proc'[jobs'.jobs[k].pid] # "None"
      BY <1>1, <1>3, <2>5, <2>6 DEF Rest, JobsAreChildren, Child
    <3>2. ASSUME NEW q \in Pid, proc'[q] # "None"
          PROVE  \E k \in Index' : jobs'.jobs[k].pid = q
      <4>1. CASE q = t BY <4>1, <2>5
      <4>2. CASE q # t
        <5>1. Child(q) /\ q # cmd.target BY <3>2, <4>2, <1>3, <1>5 DEF Child
        <5>2. PICK k \in Index : jobs.jobs[k].pid = q
          BY <1>1, <5>1 DEF Rest, JobsAreChildren
        <5> QED BY <5>2, <2>5
      <4> QED BY <4>1, <4>2
    <3> QED BY <3>1, <3>2 DEF JobsAreChildren, Child
  <2> QED BY <2>4, <2>7, <2>8, <1>q
<1>14. CASE cmd.kind = "fg" /\ cmd.result = "Finished"
  <2>1. PICK i \in Index : i = cmd.index BY <1>6, <1>14
  <2>2. Sound(jobs, w, r) /\ jobs' = JL!remove(jobs, i) /\ i \in DOMAIN jobs.jobs
    BY <1>s, <1>14, <2>1 DEF FinishHalted, Index
  <2>3. /\ Sound(jobs', w, r) /\ DOMAIN jobs'.jobs = DOMAIN jobs.jobs \ {i}
        /\ \A k \in DOMAIN jobs'.jobs : jobs'.jobs[k] = jobs.jobs[k]
    BY <2>2, RemoveJobs
  <2>4. Index' = Index \ {i} /\ \A k \in Index' : jobs'.jobs[k] = jobs.jobs[k]
    BY <2>3 DEF Index
  <2>5. ~Child(t) /\ jobs.jobs[i].pid = t BY <1>6, <1>14, <2>1
  <2>6. FinishedGone' /\ LatestState'
    BY <1>1, <1>3, <1>8, <1>14, <2>4 DEF Rest, FinishedGone, LatestState, Borrowed, Child
  <2>7. JobsAreChildren'
    BY <1>1, <1>3, <1>5, <1>8, <2>4, <2>5 DEF Rest, JobsAreChildren, Child
  <2> QED BY <2>3, <2>6, <2>7, <1>q
<1>15. CASE /\ ~ (cmd.kind = "run" /\ cmd.result = "Stopped")
            /\ ~ (cmd.kind = "fg" /\ cmd.result = "Finished")
  <2>1. jobs' = jobs BY <1>15 DEF FinishHalted
  <2>2. Sound(jobs', w, r) BY <1>s, <2>1
  <2>6. cmd.kind \in {"run", "subst"} => ~Child(t)
    BY <1>4, <1>6, <1>15 DEF Halted
  <2>3. FinishedGone' /\ LatestState'
    BY <1>1, <1>3, <1>5, <1>7, <1>8, <2>1, <2>6 DEF Rest, FinishedGone, LatestState, Borrowed, Child, Index
  <2>4. ~Child(t) \/ \E i \in Index : jobs.jobs[i].pid = t
    BY <1>4, <1>6, <1>15 DEF Foreground, Halted
  <2>5. JobsAreChildren'
    BY <1>1, <1>3, <1>5, <2>1, <2>4 DEF Rest, JobsAreChildren, Child, Index
  <2> QED BY <2>2, <2>3, <2>5, <1>q
<1> QED BY <1>13, <1>14, <1>15

-----------------------------------------------------------------------------
(* The shell starts without jobs.                                          *)
LEMMA InitIInv == Init => IInv
<1> SUFFICES ASSUME Init PROVE IInv OBVIOUS
<1>1. /\ jobs.jobs = <<>> /\ jobs.pids_to_indices = <<>>
      /\ jobs.current_job_index = 0 /\ jobs.previous_job_index = 0
      /\ jobs.free = <<>> /\ jobs.size = 0
  BY DEF Init, JL!EmptyList, JL!List
<1>2. DOMAIN jobs.jobs = {} /\ DOMAIN jobs.pids_to_indices = {} /\ DOMAIN jobs.free = {}
  BY <1>1
<1>3. Sound(jobs, ~revived, ~ignored)
  <2>1. JL!ListType(jobs) BY <1>1, <1>2 DEF JL!ListType, JL!IsFcn, JL!Index
  <2>2. JL!SlabOK(jobs) BY <1>1, <1>2 DEF JL!SlabOK, JL!Index, JL!Elems
  <2>3. JL!InSync(jobs) /\ JL!HasCurrent(jobs) /\ JL!HasPrevious(jobs) /\ JL!Owned(jobs)
    BY <1>2 DEF JL!InSync, JL!HasCurrent, JL!HasPrevious, JL!Owned, JL!Index
  <2>4. JL!Ranked(jobs) BY <1>2 DEF JL!Ranked, JL!SuspendedSet, JL!Index
  <2> QED BY <2>1, <2>2, <2>3, <2>4 DEF Sound, JL!WellFormed, JL!Slabbed
<1>4. Types
  BY JobControlAssumption DEF Init, Types, NoCmd, Cmd
<1>5. Flags
  <2>1. ignored \in BOOLEAN BY DEF Init
  <2>2. {sigchld, stray, revived, late} \subseteq BOOLEAN BY DEF Init
  <2> QED BY <2>1, <2>2, Zenon DEF Flags
<1>6. Rest
  <2>1. Index = {} BY <1>2 DEF Index
  <2>2. KernelOK BY DEF Init, KernelOK
  <2>3. /\ cmd.kind = "none" /\ cmd.target = None /\ cmd.result = None
        /\ None \notin Halted
    BY JobControlAssumption DEF Init, NoCmd, Cmd, Halted
  <2>4. CmdOK BY <2>3 DEF Init, CmdOK, Foreground
  <2>5. AwaitedChild BY <2>3 DEF AwaitedChild, Foreground, Halted
  <2>6. JobsAreChildren /\ FinishedGone /\ LatestState
    BY <2>1 DEF Init, JobsAreChildren, FinishedGone, LatestState, Borrowed, Child
  <2>7. NoStraySignal /\ Terminal BY DEF Init, NoStraySignal, Terminal
  <2> QED BY <2>2, <2>4, <2>5, <2>6, <2>7 DEF Rest
<1> QED BY <1>3, <1>4, <1>5, <1>6, Whole

(* The loops over jobs: the report, jobs, bg and wait.                     *)
LEMMA LoopKeeps ==
    ASSUME IInv, \/ ReadCommand \/ Updated \/ Report \/ Reported \/ BgSelect
                 \/ JobsNext \/ WaitNext
                 \/ \E i \in Index \cup {None} :
                        Wait(i) \/ Jobs(IF i = None THEN Index ELSE {i})
    PROVE  IInv'
<1>1. Sound(jobs, ~revived, ~ignored) /\ Types /\ Flags /\ Rest BY Parts
<1>2. PICK w \in BOOLEAN, r \in BOOLEAN : w = ~revived /\ r = ~ignored
  BY <1>1, Zenon DEF Flags
<1>3. Sound(jobs, w, r) /\ SameJobs(jobs, jobs) BY <1>1, <1>2 DEF SameJobs
<1>4. sigchld \in BOOLEAN BY <1>1, Zenon DEF Flags
<1>5. Index \subseteq Nat BY <1>1, JobTypes DEF Sound, Index
<1>6. todo \subseteq Nat /\ (todo # {} => First \in todo) BY <1>1, FirstInTodo DEF Types
<1>c. CmdOK /\ Types BY <1>1 DEF Rest
<1>n. /\ NoCmd.kind = "none" /\ NoCmd.target = None /\ NoCmd.result = None
      /\ NoCmd \in [kind : {"none", "wait"} \cup Foreground, target : Pid \cup {None},
                    index : Nat \cup {None}, result : Halted \cup {None}]
  BY DEF NoCmd, Cmd
<1>e. ASSUME Ends, UNCHANGED <<kernel, history>> PROVE Types' /\ CmdOK'
  BY <1>e, <1>c, <1>n DEF Ends, Types, CmdOK, kernel, Foreground
<1>7. CASE ReadCommand
  <2>1. Types' /\ CmdOK' BY <1>7, <1>c DEF ReadCommand, Types, CmdOK, kernel, Index
  <2> QED BY <1>7, <1>2, <1>3, <1>4, <1>c, <2>1, QuietKeeps DEF ReadCommand, kernel
<1>8. CASE Updated
  <2>1. Types' /\ CmdOK'
    BY <1>8, <1>5, <1>c DEF Updated, Types, CmdOK, kernel, Index, Changed
  <2> QED BY <1>8, <1>2, <1>3, <1>4, <1>c, <2>1, QuietKeeps DEF Updated, kernel
<1>9. CASE Report
  <2>1. First \in Index BY <1>9, <1>6, <1>c DEF Report, CmdOK
  <2>2. Sound(jobs', w, r) /\ SameJobs(jobs, jobs')
    BY <1>9, <1>3, <2>1, TouchJobs DEF Report, Index
  <2>3. Types' /\ CmdOK'
    BY <1>9, <2>2, <1>c DEF Report, Types, CmdOK, kernel, Index, SameJobs
  <2> QED BY <1>9, <1>2, <1>4, <1>c, <2>2, <2>3, QuietKeeps DEF Report, kernel
<1>10. CASE Reported
  <2>1. Types' /\ CmdOK' BY <1>10, <1>c DEF Reported, Types, CmdOK, kernel, Index
  <2> QED BY <1>10, <1>2, <1>3, <1>4, <1>c, <2>1, QuietKeeps DEF Reported, kernel
<1>11. CASE BgSelect
  <2>0. First \notin Index => jobs' = jobs
    BY <1>11 DEF BgSelect, JL!set_current_job, JL!MaySelect, JL!Index, Index
  <2>1. Sound(jobs', w, r) /\ SameJobs(jobs, jobs')
    BY <1>11, <1>3, <1>5, <2>0, TouchJobs DEF BgSelect
  <2>2. Types' /\ CmdOK' BY <1>11, <1>e DEF BgSelect
  <2>3. cmd.kind \notin Foreground /\ cmd'.kind \notin Foreground /\ pc' = "update"
    BY <1>11, <1>c, <1>n DEF BgSelect, CmdOK, Ends, Foreground
  <2> QED BY <1>11, <1>2, <1>4, <2>1, <2>2, <2>3, QuietKeeps DEF BgSelect, kernel
<1>12. ASSUME NEW i \in Index \cup {None}, Wait(i) PROVE IInv'
  <2>1. cmd'.kind = "wait" /\ cmd'.target = None /\ cmd'.result = None
    BY <1>12 DEF Wait, Cmd
  <2>2. cmd' \in [kind : {"none", "wait"} \cup Foreground, target : Pid \cup {None},
                  index : Nat \cup {None}, result : Halted \cup {None}]
    BY <1>12, <1>5 DEF Wait, Cmd
  <2>3. todo' \subseteq Nat BY <1>12, <1>5 DEF Wait
  <2>4. Types' BY <1>12, <1>c, <2>2, <2>3 DEF Wait, Types, kernel
  <2>5. CmdOK' BY <1>12, <2>1 DEF Wait, CmdOK, Foreground
  <2>6. cmd.kind \notin Foreground /\ cmd'.kind \notin Foreground /\ pc' = "wait"
    BY <1>12, <1>c, <2>1 DEF Wait, CmdOK, Foreground
  <2> QED BY <1>12, <1>2, <1>3, <1>4, <2>4, <2>5, <2>6, QuietKeeps DEF Wait, kernel
<1>13. ASSUME NEW i \in Index \cup {None}, Jobs(IF i = None THEN Index ELSE {i}) PROVE IInv'
  <2>1. PICK S \in SUBSET Index : Jobs(S) BY <1>13 DEF Jobs
  <2>2. Types' /\ CmdOK' BY <1>c, <1>5, <2>1 DEF Jobs, Types, CmdOK, kernel, Index
  <2> QED BY <2>1, <1>2, <1>3, <1>4, <1>c, <2>2, QuietKeeps DEF Jobs, kernel
<1>14. CASE JobsNext
  <2>0. pc = "jobs" /\ cmd.kind \notin Foreground /\ todo \subseteq Index
        /\ UNCHANGED <<kernel, history>>
    BY <1>14, <1>c DEF JobsNext, CmdOK
  <2>1. CASE todo = {}
    <3>1. Ends /\ jobs' = jobs BY <1>14, <2>1 DEF JobsNext
    <3>2. Types' /\ CmdOK' BY <3>1, <2>0, <1>e
    <3>3. cmd'.kind \notin Foreground /\ pc' = "update" BY <3>1, <1>n DEF Ends, Foreground
    <3> QED BY <2>0, <1>2, <1>3, <1>4, <3>1, <3>2, <3>3, QuietKeeps DEF kernel
  <2>2. CASE todo # {}
    <3>1. First \in Index /\ pc' = pc /\ cmd' = cmd /\ todo' = todo \ {First}
      BY <1>14, <1>6, <2>0, <2>2 DEF JobsNext
    <3>2. PICK i \in Index : i = First BY <3>1
    <3>3. CASE jobs.jobs[i].state \in Alive
      <4>1. jobs' = JL!state_reported(jobs, i) BY <1>14, <2>2, <3>2, <3>3 DEF JobsNext
      <4>2. Sound(jobs', w, r) /\ SameJobs(jobs, jobs') BY <4>1, <1>3, TouchJobs DEF Index
      <4>3. Types' /\ CmdOK'
        BY <2>0, <3>1, <4>2, <1>c DEF Types, CmdOK, kernel, Index, SameJobs
      <4> QED BY <2>0, <3>1, <1>2, <1>4, <4>2, <4>3, QuietKeeps DEF kernel
    <3>4. CASE jobs.jobs[i].state \notin Alive
      <4>1. jobs' = JL!remove(jobs, i) BY <1>14, <2>2, <3>2, <3>4 DEF JobsNext
      <4>2. DOMAIN jobs'.jobs = DOMAIN jobs.jobs \ {i} BY <4>1, <1>3, RemoveJobs DEF Index
      <4>3. Types' /\ CmdOK'
        BY <2>0, <3>1, <3>2, <4>2, <1>c DEF Types, CmdOK, kernel, Index
      <4> QED BY <2>0, <3>1, <3>4, <4>1, <4>3, DropKeeps
    <3> QED BY <3>3, <3>4
  <2> QED BY <2>1, <2>2
<1>15. CASE WaitNext
  <2>0. pc = "wait" /\ cmd.kind = "wait" /\ cmd.kind \notin Foreground
        /\ UNCHANGED <<kernel, history>>
    BY <1>15, <1>c DEF WaitNext, CmdOK, Foreground, Types
  <2>1. CASE todo = {}
    <3>1. Ends /\ jobs' = jobs BY <1>15, <2>1 DEF WaitNext
    <3>2. Types' /\ CmdOK' BY <3>1, <2>0, <1>e
    <3>3. cmd'.kind \notin Foreground /\ pc' = "update" BY <3>1, <1>n DEF Ends, Foreground
    <3> QED BY <2>0, <1>2, <1>3, <1>4, <3>1, <3>2, <3>3, QuietKeeps DEF kernel
  <2>2. CASE todo # {} /\ First \in Index /\ jobs.jobs[First].state \in Alive
    <3>1. pc' = "enable" /\ UNCHANGED <<jobs, cmd, todo>> BY <1>15, <2>2 DEF WaitNext
    <3>2. Types' /\ CmdOK'
      BY <2>0, <3>1, <1>c DEF Types, CmdOK, kernel, Index, Foreground
    <3> QED BY <2>0, <1>2, <1>3, <1>4, <3>1, <3>2, QuietKeeps DEF kernel
  <2>3. CASE todo # {} /\ ~ (First \in Index /\ jobs.jobs[First].state \in Alive)
    <3>1. /\ jobs' = JL!remove(jobs, First) /\ pc' = pc /\ cmd' = cmd
          /\ todo' = todo \ {First}
      BY <1>15, <2>3 DEF WaitNext
    <3>2. Types' /\ CmdOK'
      BY <2>0, <3>1, <1>c DEF Types, CmdOK, kernel, Foreground
    <3>3. CASE First \in Index
      <4>1. PICK i \in Index : i = First BY <3>3
      <4>2. jobs' = JL!remove(jobs, i) /\ jobs.jobs[i].state \notin Alive
        BY <4>1, <3>1, <2>3
      <4> QED BY <2>0, <3>1, <3>2, <4>2, DropKeeps
    <3>4. CASE First \notin Index
      <4>1. jobs' = jobs BY <3>1, <3>4 DEF JL!remove, JL!Index, Index
      <4> QED BY <2>0, <1>2, <1>3, <1>4, <3>1, <3>2, <4>1, QuietKeeps DEF kernel
    <3> QED BY <3>3, <3>4
  <2> QED BY <2>1, <2>2, <2>3
<1> QED BY <1>7, <1>8, <1>9, <1>10, <1>11, <1>12, <1>13, <1>14, <1>15

(* The built-ins that signal a job: fg, bg and kill.                       *)
LEMMA BuiltinKeeps ==
    ASSUME IInv, NEW i \in Index,
           \/ Fg(i) \/ Bg(i) \/ SignalFails(i)
           \/ \E s \in Alive \cup {"Finished"} : Kill(i, s)
    PROVE  IInv'
<1>1. Sound(jobs, ~revived, ~ignored) /\ Types /\ Flags /\ Rest BY Parts
<1>2. PICK w \in BOOLEAN, r \in BOOLEAN : w = ~revived /\ r = ~ignored
  BY <1>1, Zenon DEF Flags
<1>3. Sound(jobs, w, r) /\ SameJobs(jobs, jobs) BY <1>1, <1>2 DEF SameJobs
<1>4. sigchld \in BOOLEAN BY <1>1, Zenon DEF Flags
<1>5. i \in Nat /\ jobs.jobs[i].pid \in Pid BY <1>1, JobTypes DEF Sound, Index
<1>c. CmdOK /\ Types BY <1>1 DEF Rest
<1>d. pc = "ready" /\ cmd.kind \notin Foreground /\ cmd.kind = "none"
      /\ cmd.target = None /\ cmd.result = None
  BY <1>c DEF CmdOK, Types, Fg, Bg, SignalFails, Kill, Foreground
<1>n. /\ NoCmd.kind = "none" /\ NoCmd.target = None /\ NoCmd.result = None
      /\ NoCmd \in [kind : {"none", "wait"} \cup Foreground, target : Pid \cup {None},
                    index : Nat \cup {None}, result : Halted \cup {None}]
  BY DEF NoCmd, Cmd
<1>s. ASSUME NEW p \in Pid, NEW s \in Alive \cup {"Finished"}, Signal(p, s)
      PROVE  /\ proc' \in [Pid -> {"None", "Running", "Stopped", "Finished"}]
             /\ news' \subseteq Pid /\ fresh' \subseteq Pid /\ early' \subseteq Pid
  <2>1. CASE proc[p] \in Alive \ {s} BY <1>c, <1>s, <2>1 DEF Signal, Becomes, Types, Alive
  <2>2. CASE proc[p] \notin Alive \ {s} BY <1>c, <1>s, <2>2 DEF Signal, Types
  <2> QED BY <2>1, <2>2
<1>6. CASE Fg(i) /\ jobs.jobs[i].state \in Alive
  <2>1. PICK p \in Pid : p = jobs.jobs[i].pid BY <1>5
  <2>2. /\ tty' = p /\ late' = FALSE /\ Signal(p, "Running")
        /\ cmd' = Cmd("fg", p, i, None) /\ pc' = "enable" /\ UNCHANGED <<jobs, todo, chld>>
    BY <1>6, <2>1 DEF Fg
  <2>3. "Running" \in Alive \cup {"Finished"} BY DEF Alive
  <2>4. /\ cmd'.kind = "fg" /\ cmd'.target = p /\ cmd'.result = None
        /\ cmd' \in [kind : {"none", "wait"} \cup Foreground, target : Pid \cup {None},
                     index : Nat \cup {None}, result : Halted \cup {None}]
    BY <2>2, <1>5 DEF Cmd, Foreground
  <2>5. Types' BY <1>c, <1>s, <2>2, <2>3, <2>4 DEF Types
  <2>6. CmdOK' BY <2>2, <2>4 DEF CmdOK, Foreground
  <2> QED
    BY <1>2, <1>3, <1>6, <1>d, <2>1, <2>2, <2>3, <2>5, <2>6, SignalKeeps
<1>7. CASE Fg(i) /\ jobs.jobs[i].state \notin Alive
  <2>1. /\ jobs' = JL!remove(jobs, i) /\ Ends
        /\ UNCHANGED <<kernel, history>>
    BY <1>7 DEF Fg, kernel
  <2>2. Types' /\ CmdOK'
    BY <2>1, <1>c, <1>n DEF Ends, Types, CmdOK, kernel, Foreground
  <2>3. pc' = "update" /\ cmd'.kind \notin Foreground BY <2>1, <1>n DEF Ends, Foreground
  <2> QED BY <1>7, <1>d, <2>1, <2>2, <2>3, DropKeeps
<1>8. CASE Bg(i) /\ jobs.jobs[i].state \in Alive
  <2>1. PICK p \in Pid : p = jobs.jobs[i].pid BY <1>5
  <2>2. /\ Signal(p, "Running") /\ jobs' = JL!expect(jobs, i, "Running")
        /\ pc' = "bg" /\ todo' = {i} /\ UNCHANGED <<tty, chld, cmd, late>>
    BY <1>8, <2>1 DEF Bg
  <2>3. "Running" \in Alive \cup {"Finished"} BY DEF Alive
  <2>4. Sound(jobs', w, r) /\ SameJobs(jobs, jobs') BY <1>3, <2>2, TouchJobs DEF Index
  <2>5. Types' BY <1>c, <1>s, <1>5, <2>2, <2>3 DEF Types
  <2>6. CmdOK' BY <2>2, <2>4, <1>d DEF CmdOK, Foreground, Index, SameJobs
  <2> QED
    BY <1>2, <1>8, <1>d, <2>1, <2>2, <2>3, <2>4, <2>5, <2>6, SignalKeeps
<1>9. CASE Bg(i) /\ jobs.jobs[i].state \notin Alive
  <2>1. /\ pc' = "bg" /\ todo' = {i} /\ UNCHANGED <<jobs, kernel, cmd, history>>
    BY <1>9 DEF Bg, kernel
  <2>2. Types' /\ CmdOK'
    BY <2>1, <1>c, <1>5, <1>d DEF Types, CmdOK, kernel, Index, Foreground
  <2> QED BY <1>2, <1>3, <1>4, <1>d, <2>1, <2>2, QuietKeeps DEF kernel
<1>10. ASSUME NEW s \in Alive \cup {"Finished"}, Kill(i, s) PROVE IInv'
  <2>1. PICK p \in Pid : p = jobs.jobs[i].pid BY <1>5
  <2>2. /\ Signal(p, s) /\ Ends /\ UNCHANGED <<jobs, tty, chld, late>>
        /\ jobs.jobs[i].state \in Alive
    BY <1>10, <2>1 DEF Kill
  <2>3. pc' = "update" /\ cmd' = NoCmd /\ cmd'.kind \notin Foreground /\ todo' = {}
    BY <2>2, <1>n DEF Ends, Foreground
  <2>4. Types' BY <1>c, <1>s, <1>n, <2>2, <2>3 DEF Types
  <2>5. CmdOK' BY <2>3, <1>n DEF CmdOK, Foreground
  <2> QED BY <1>2, <1>3, <1>d, <2>1, <2>2, <2>3, <2>4, <2>5, SignalKeeps
<1>11. CASE SignalFails(i)
  <2>1. Ends /\ UNCHANGED <<jobs, kernel, history>> BY <1>11 DEF SignalFails
  <2>2. pc' = "update" /\ cmd' = NoCmd /\ cmd'.kind \notin Foreground /\ todo' = {}
    BY <2>1, <1>n DEF Ends, Foreground
  <2>3. Types' /\ CmdOK' BY <2>1, <2>2, <1>c, <1>n DEF Types, CmdOK, kernel, Foreground
  <2> QED BY <1>2, <1>3, <1>4, <1>d, <2>1, <2>2, <2>3, QuietKeeps DEF kernel
<1> QED BY <1>6, <1>7, <1>8, <1>9, <1>10, <1>11

(* Waiting for children.                                                   *)
LEMMA WaitKeeps ==
    ASSUME IInv, \/ SigchldUnnoticed \/ Enable \/ PollNothing \/ PollFails \/ Wake
                 \/ WaitInterrupted \/ \E p \in Pid : Update(p) \/ Poll(p)
    PROVE  IInv'
<1>1. Sound(jobs, ~revived, ~ignored) /\ Types /\ Flags /\ Rest BY Parts
<1>2. PICK w \in BOOLEAN, r \in BOOLEAN : w = ~revived /\ r = ~ignored
  BY <1>1, Zenon DEF Flags
<1>3. Sound(jobs, w, r) /\ SameJobs(jobs, jobs) BY <1>1, <1>2 DEF SameJobs
<1>4. sigchld \in BOOLEAN BY <1>1, Zenon DEF Flags
<1>5. Index \subseteq Nat BY <1>1, JobTypes DEF Sound, Index
<1>c. CmdOK /\ Types /\ KernelOK BY <1>1 DEF Rest
<1>n. /\ NoCmd.kind = "none" /\ NoCmd.target = None /\ NoCmd.result = None
      /\ NoCmd \in [kind : {"none", "wait"} \cup Foreground, target : Pid \cup {None},
                    index : Nat \cup {None}, result : Halted \cup {None}]
  BY DEF NoCmd, Cmd
<1>e. ASSUME Ends, UNCHANGED <<kernel, history>>
      PROVE  Types' /\ CmdOK' /\ pc' = "update" /\ cmd'.kind \notin Foreground
  BY <1>e, <1>c, <1>n DEF Ends, Types, CmdOK, kernel, Foreground
<1>6. CASE SigchldUnnoticed
  <2>1. Types' /\ CmdOK' BY <1>6, <1>c DEF SigchldUnnoticed, Types, CmdOK, Index
  <2>2. sigchld' \in BOOLEAN BY <1>6 DEF SigchldUnnoticed
  <2>3. /\ UNCHANGED <<proc, news, fresh, early, tty, history, jobs, chld, cmd, pc>>
    BY <1>6 DEF SigchldUnnoticed
  <2> QED BY <1>2, <1>3, <1>c, <2>1, <2>2, <2>3, QuietKeeps DEF KernelOK
<1>7. CASE Enable
  <2>1. Types' /\ CmdOK' BY <1>7, <1>c DEF Enable, Types, CmdOK, Index
  <2>2. /\ UNCHANGED <<proc, news, fresh, early, tty, history, jobs, cmd, sigchld>>
        /\ pc = "enable" /\ pc' = "poll" /\ chld' = "Catch"
    BY <1>7 DEF Enable
  <2> QED BY <1>2, <1>3, <1>4, <2>1, <2>2, QuietKeeps
<1>8. CASE PollNothing
  <2>1. Types' /\ CmdOK' BY <1>8, <1>c DEF PollNothing, Types, CmdOK, Index, kernel
  <2>2. /\ UNCHANGED <<proc, news, fresh, early, tty, history, jobs, cmd, sigchld, chld>>
        /\ pc = "poll" /\ pc' = "sleep" /\ chld = "Catch"
    BY <1>8, <1>c DEF PollNothing, kernel, KernelOK
  <2> QED BY <1>2, <1>3, <1>4, <2>1, <2>2, QuietKeeps
<1>9. CASE PollFails
  <2>1. Ends /\ UNCHANGED <<jobs, kernel, history>> /\ pc = "poll" /\ Awaited = {}
    BY <1>9 DEF PollFails
  <2>2. cmd.kind \in Foreground => ignored /\ ~Child(cmd.target)
    BY <1>1, <2>1 DEF Awaited, Rest, AwaitedChild, Foreground
  <2> QED BY <1>2, <1>3, <1>4, <1>e, <2>1, <2>2, QuietKeeps DEF kernel
<1>10. CASE Wake
  <2>1. Types' /\ CmdOK' BY <1>10, <1>c DEF Wake, Types, CmdOK, Index
  <2>2. /\ UNCHANGED <<proc, news, fresh, early, tty, history, jobs, cmd, chld>>
        /\ pc = "sleep" /\ pc' = "poll" /\ chld = "Catch" /\ sigchld' \in BOOLEAN
    BY <1>10, <1>c DEF Wake, KernelOK
  <2> QED BY <1>2, <1>3, <2>1, <2>2, QuietKeeps
<1>11. CASE WaitInterrupted
  <2>1. Ends /\ UNCHANGED <<jobs, kernel, history>> /\ cmd.kind \notin Foreground
    BY <1>11 DEF WaitInterrupted, Foreground
  <2> QED BY <1>2, <1>3, <1>4, <1>e, <2>1, QuietKeeps DEF kernel
<1>w. ASSUME NEW p \in news, Waited(p)
      PROVE  /\ proc' \in [Pid -> {"None", "Running", "Stopped", "Finished"}]
             /\ news' \subseteq Pid /\ UNCHANGED <<fresh, early, chld, tty>>
             /\ proc[p] \in {"Running", "Stopped", "Finished"}
  BY <1>c, <1>w DEF Types, KernelOK, Child, Waited
<1>12. ASSUME NEW p \in Pid, Update(p) PROVE IInv'
  <2>1. /\ p \in news /\ Waited(p) /\ pc = "update"
        /\ UNCHANGED <<pc, cmd, todo, history>>
    BY <1>12 DEF Update
  <2>2. Types' BY <1>c, <1>w, <2>1 DEF Types
  <2>3. CmdOK' BY <1>c, <2>1 DEF CmdOK
  <2>4. cmd.kind \notin Foreground BY <1>c, <2>1 DEF CmdOK
  <2> QED BY <2>1, <2>2, <2>3, <2>4, WaitedKeeps
<1>13. ASSUME NEW p \in Pid, Poll(p) PROVE IInv'
  <2>1. /\ p \in news /\ p \in Awaited /\ Waited(p) /\ pc = "poll" /\ chld = "Catch"
        /\ UNCHANGED history
    BY <1>13, <1>c DEF Poll, KernelOK
  <2>2. cmd.kind # "wait" => p = cmd.target /\ cmd.kind \in Foreground
    BY <1>c, <2>1 DEF Awaited, Types, CmdOK
  <2>r. cmd.result = None BY <1>c, <2>1 DEF CmdOK
  <2>3. CASE cmd.kind = "wait"
    <3>1. /\ pc' = "wait" /\ cmd' = cmd
          /\ todo' = IF cmd.index = None THEN Index ELSE {cmd.index}
      BY <1>13, <2>3 DEF Poll
    <3>2. cmd.index \in Nat \cup {None} BY <1>c DEF Types
    <3>3. todo' \subseteq Nat BY <3>1, <3>2, <1>5
    <3>4. Types' BY <1>c, <1>w, <2>1, <3>1, <3>3 DEF Types
    <3>5. CmdOK' BY <1>c, <2>3, <2>r, <3>1 DEF CmdOK, Foreground
    <3> QED BY <2>1, <2>3, <3>1, <3>4, <3>5, WaitedKeeps DEF Foreground
  <2>4. CASE /\ cmd.kind # "wait"
             /\ proc[p] = "Finished" \/ (proc[p] = "Stopped" /\ cmd.kind # "subst")
    <3>1. pc' = "halted" /\ cmd' = [cmd EXCEPT !.result = proc[p]] /\ todo' = todo
      BY <1>13, <2>4 DEF Poll
    <3>2. proc[p] \in Halted BY <2>4 DEF Halted
    <3>3. /\ cmd' \in [kind : {"none", "wait"} \cup Foreground, target : Pid \cup {None},
                       index : Nat \cup {None}, result : Halted \cup {None}]
          /\ cmd'.kind = cmd.kind /\ cmd'.target = cmd.target /\ cmd'.result \in Halted
      BY <1>c, <3>1, <3>2 DEF Types
    <3>4. Types' BY <1>c, <1>w, <2>1, <3>1, <3>3 DEF Types
    <3>5. None \notin Halted BY JobControlAssumption DEF Halted
    <3>6. CmdOK' BY <1>c, <2>2, <2>4, <3>1, <3>3, <3>5 DEF CmdOK, Foreground
    <3>7. proc[p] = "Stopped" => cmd.kind # "subst" BY <2>4
    <3> QED BY <2>1, <2>2, <2>4, <3>1, <3>2, <3>4, <3>6, <3>7, WaitedKeeps
  <2>5. CASE /\ cmd.kind # "wait"
             /\ ~ (proc[p] = "Finished" \/ (proc[p] = "Stopped" /\ cmd.kind # "subst"))
    <3>1. pc' = "enable" /\ UNCHANGED <<cmd, todo>> BY <1>13, <2>5 DEF Poll
    <3>2. Types' BY <1>c, <1>w, <2>1, <3>1 DEF Types
    <3>3. CmdOK' BY <1>c, <2>1, <2>2, <2>5, <3>1 DEF CmdOK, Foreground
    <3> QED BY <2>1, <2>2, <2>5, <3>1, <3>2, <3>3, WaitedKeeps
  <2> QED BY <2>3, <2>4, <2>5
<1> QED BY <1>6, <1>7, <1>8, <1>9, <1>10, <1>11, <1>12, <1>13

(* Every step keeps the inductive invariant.                               *)
LEMMA NextIInv == IInv /\ [Next]_vars => IInv'
<1> SUFFICES ASSUME IInv, [Next]_vars PROVE IInv' OBVIOUS
<1>1. CASE \E p \in Pid : \E s \in Alive \cup {"Finished"} : Change(p, s)
  BY <1>1, ChangeKeeps
<1>2. CASE \E p \in Pid : ChildTakesTerminal(p) BY <1>2, ChildTakesTerminalKeeps
<1>3. CASE \E p \in Pid : RunAsync(p) BY <1>3, RunAsyncKeeps
<1>4. CASE \E p \in Pid : \E kind \in {"run", "subst"} : Run(p, kind) BY <1>4, RunKeeps
<1>5. CASE \E i \in Index : \/ Fg(i) \/ Bg(i) \/ SignalFails(i)
                           \/ \E s \in Alive \cup {"Finished"} : Kill(i, s)
  BY <1>5, BuiltinKeeps
<1>6. CASE \/ ReadCommand \/ Updated \/ Report \/ Reported \/ BgSelect
           \/ JobsNext \/ WaitNext
           \/ \E i \in Index \cup {None} : Wait(i) \/ Jobs(IF i = None THEN Index ELSE {i})
  BY <1>6, LoopKeeps
<1>7. CASE \/ SigchldUnnoticed \/ Enable \/ PollNothing \/ PollFails \/ Wake
           \/ WaitInterrupted \/ \E p \in Pid : Update(p) \/ Poll(p)
  BY <1>7, WaitKeeps
<1>8. CASE FinishHalted BY <1>8, FinishHaltedKeeps
<1>9. CASE UNCHANGED vars
  <2>1. Sound(jobs, ~revived, ~ignored) /\ Types /\ Flags /\ Rest BY Parts
  <2>2. PICK w \in BOOLEAN, r \in BOOLEAN : w = ~revived /\ r = ~ignored
  BY <2>1, Zenon DEF Flags
  <2>3. Sound(jobs, w, r) /\ SameJobs(jobs, jobs) BY <2>1, <2>2 DEF SameJobs
  <2>4. sigchld \in BOOLEAN BY <2>1, Zenon DEF Flags
  <2>5. Types' /\ CmdOK' BY <2>1, <1>9 DEF Rest, Types, CmdOK, Index, vars, kernel
  <2> QED BY <1>9, <2>1, <2>2, <2>3, <2>4, <2>5, QuietKeeps DEF vars, kernel, Rest, KernelOK
<1> QED BY <1>1, <1>2, <1>3, <1>4, <1>5, <1>6, <1>7, <1>8, <1>9 DEF Next, Waiting

-----------------------------------------------------------------------------
(* The inductive invariant holds whatever the order in which children      *)
(* stop, go on, end and take the terminal while the shell runs commands,   *)
(* and whichever process IDs the children started later have.              *)
THEOREM Invariant == Spec => []IInv
<1> QED BY InitIInv, NextIInv, PTL DEF Spec

(* The job list has the latest state of every child without news, but for  *)
(* the one in the foreground if it has the process ID of a finished job,   *)
(* and no child is ever out of sight: it is a job, or the one that the     *)
(* command in the foreground waits for.                                    *)
THEOREM LatestStates == Spec => [](LatestState /\ JobsAreChildren)
<1>1. IInv => LatestState /\ JobsAreChildren BY DEF IInv
<1> QED BY <1>1, Invariant, PTL

(* fg, bg and kill signal no process that is not a child of the shell.     *)
THEOREM SignalsReachChildren == Spec => []NoStraySignal
<1>1. IInv => NoStraySignal BY DEF IInv
<1> QED BY <1>1, Invariant, PTL

(* The shell has the terminal whenever it reads a line, unless the last to *)
(* take it was a child that had been stopped before it called tcsetpgrp.   *)
THEOREM TerminalTakenBack == Spec => []ForegroundAtInput
<1>1. IInv => ForegroundAtInput
  <2> SUFFICES ASSUME IInv, ~ignored, pc = "input" PROVE tty = Shell \/ late
    BY DEF ForegroundAtInput
  <2>1. CmdOK /\ Terminal BY DEF IInv, Consistent
  <2> QED BY <2>1 DEF CmdOK, Terminal, Foreground
<1> QED BY <1>1, Invariant, PTL

(* With two jobs or more there is a previous job, as long as no suspended  *)
(* command has taken over the job of a finished child with its process ID: *)
(* other reuses of process IDs, by background jobs, by commands that       *)
(* finish and by command substitutions, are harmless.                      *)
THEOREM PreviousJobExists == Spec => []PreviousExists
<1>1. IInv => PreviousExists BY DEF IInv, PreviousExists, JL!PreviousExists, JL!WellFormed
<1> QED BY <1>1, Invariant, PTL

-----------------------------------------------------------------------------
(* What keeps the shell from sleeping on news, in every execution: SIGCHLD *)
(* is caught before wait is called.                                        *)
Attentive == (pc \in {"poll", "sleep"} => chld = "Catch") /\ NoMissedChild

(* Only PollNothing puts the shell to sleep, and only when there is no     *)
(* news.                                                                   *)
LEMMA NextAttentive == Attentive /\ [Next]_vars => Attentive'
<1> SUFFICES ASSUME Attentive, [Next]_vars PROVE Attentive' OBVIOUS
<1>1. CASE \E p \in Pid : \E s \in Alive \cup {"Finished"} : Change(p, s)
  BY <1>1 DEF Attentive, NoMissedChild, Change, Becomes
<1>2. CASE \E p \in Pid : ChildTakesTerminal(p)
  BY <1>2 DEF Attentive, NoMissedChild, ChildTakesTerminal, Awaited, Child
<1>3. CASE \/ PollNothing \/ UNCHANGED vars
  BY <1>3 DEF Attentive, NoMissedChild, PollNothing, vars, kernel, Awaited, Child
<1>4. CASE \/ Wake \/ Enable \/ SigchldUnnoticed
  BY <1>4 DEF Attentive, NoMissedChild, Wake, Enable, SigchldUnnoticed
<1>5. ASSUME pc' \notin {"poll", "sleep"} PROVE Attentive'
  BY <1>5 DEF Attentive, NoMissedChild
<1>6. CASE \E p \in Pid : \/ Update(p) \/ RunAsync(p)
                         \/ \E kind \in {"run", "subst"} : Run(p, kind)
  BY <1>5, <1>6 DEF Update, RunAsync, Run, Ends
<1>7. CASE \E i \in Index : \/ Fg(i) \/ Bg(i) \/ SignalFails(i)
                           \/ \E s \in Alive \cup {"Finished"} : Kill(i, s)
  BY <1>5, <1>7 DEF Fg, Bg, SignalFails, Kill, Ends
<1>8. CASE \E i \in Index \cup {None} : Wait(i) \/ Jobs(IF i = None THEN Index ELSE {i})
  BY <1>5, <1>8 DEF Wait, Jobs
<1>9. CASE ReadCommand \/ Updated \/ Report \/ Reported \/ BgSelect \/ JobsNext \/ WaitNext
  BY <1>5, <1>9 DEF ReadCommand, Updated, Report, Reported, BgSelect, JobsNext, WaitNext, Ends
<1>10. CASE WaitInterrupted \/ PollFails \/ FinishHalted \/ \E p \in Pid : Poll(p)
  BY <1>5, <1>10 DEF WaitInterrupted, PollFails, FinishHalted, Poll, Ends
<1> QED
  BY <1>1, <1>2, <1>3, <1>4, <1>6, <1>7, <1>8, <1>9, <1>10 DEF Next, Waiting

(* The shell never sleeps on a change of a child it waits for: reused      *)
(* process IDs, early stops and an ignored SIGCHLD included.               *)
THEOREM NoChildMissed == Spec => []NoMissedChild
<1>1. Init => Attentive BY DEF Init, Attentive, NoMissedChild
<1>2. Attentive => NoMissedChild BY DEF Attentive
<1> QED BY <1>1, <1>2, NextAttentive, PTL DEF Spec

-----------------------------------------------------------------------------
(* Each step of the shell is one of JobList, as far as its jobs go.        *)
LEMMA StepFollows ==
    ASSUME IInv, Next, ~ignored, ~Revives, jobs' # jobs
    PROVE  JL!Next
<1>1. Sound(jobs, ~revived, ~ignored) /\ Types /\ Flags /\ Rest BY Parts
<1>2. Index = JL!Index(jobs) BY DEF Index, JL!Index
<1>3. todo \subseteq Nat /\ (todo # {} => First \in todo) BY <1>1, FirstInTodo DEF Types
<1>4. ASSUME NEW p \in Pid, NEW s \in JL!State, jobs' = JL!update_status(jobs, p, s)
      PROVE  JL!Next
  BY <1>4 DEF JL!Next, JL!UpdateStatus
<1>5. ASSUME NEW i \in Index, \/ jobs' = JL!remove(jobs, i)
                              \/ jobs' = JL!expect(jobs, i, "Running")
                              \/ jobs' = JL!state_reported(jobs, i)
                              \/ jobs' = JL!set_current_job(jobs, i)
      PROVE  JL!Next
  BY <1>2, <1>5 DEF JL!Next, JL!Remove, JL!SetCurrentJob, JL!Expect, JL!StateReported
<1>6. ASSUME NEW p \in Pid, \A i \in Index : jobs.jobs[i].pid = p => jobs.jobs[i].state \notin Alive,
             \/ jobs' = JL!insert(jobs, JL!NewJob(p, TRUE, "Running", FALSE))
             \/ jobs' = JL!insert(jobs, JL!NewJob(p, TRUE, "Stopped", TRUE))
      PROVE  JL!Next
  <2>1. JL!Reusable(p) BY <1>2, <1>6 DEF JL!Reusable, JL!Alive, Alive
  <2>2. JL!Insert(p) BY <1>6, <2>1 DEF JL!Insert
  <2> QED BY <2>2 DEF JL!Next
<1>w. ASSUME NEW p \in Pid, Waited(p), p \in news PROVE JL!Next
  <2>1. proc[p] \in JL!State BY <1>1, <1>w DEF Types, Rest, KernelOK, Child, JL!State
  <2> QED BY <1>4, <1>w, <2>1 DEF Waited
<1>7. ASSUME NEW p \in Pid, Update(p) \/ Poll(p) PROVE JL!Next
  BY <1>7, <1>w DEF Update, Poll
<1>8. ASSUME NEW p \in Pid, RunAsync(p) PROVE JL!Next
  <2>1. \A i \in Index : jobs.jobs[i].pid = p => jobs.jobs[i].state \notin Alive
    BY <1>1, <1>8 DEF Rest, JobsAreChildren, RunAsync, Unused
  <2> QED BY <1>6, <1>8, <2>1 DEF RunAsync
<1>9. ASSUME NEW i \in Index, Fg(i) \/ Bg(i) PROVE JL!Next
  BY <1>5, <1>9 DEF Fg, Bg
<1>10. CASE Report \/ BgSelect \/ JobsNext
  <2>1. Report \/ JobsNext => todo # {} BY <1>10 DEF Report, JobsNext
  <2>2. todo \subseteq Index BY <1>1, <1>10 DEF Rest, CmdOK, Report, BgSelect, JobsNext
  <2>3. CASE todo # {} BY <1>3, <1>5, <1>10, <2>2, <2>3 DEF Report, BgSelect, JobsNext
  <2>4. CASE BgSelect
    <3>1. jobs' = JL!set_current_job(jobs, First) BY <2>4 DEF BgSelect
    <3>2. First \in Index BY <3>1, <1>2 DEF JL!set_current_job, JL!MaySelect
    <3> QED BY <3>1, <3>2, <1>5
  <2> QED BY <1>10, <2>1, <2>3, <2>4
<1>11. CASE WaitNext
  <2>1. todo # {} /\ jobs' = JL!remove(jobs, First) BY <1>11 DEF WaitNext
  <2>2. First \in Index BY <2>1, <1>2 DEF JL!remove
  <2> QED BY <2>1, <2>2, <1>5
<1>12. CASE FinishHalted
  <2>1. /\ cmd.kind \in Foreground /\ cmd.target \in Pid /\ pc = "halted"
    BY <1>1, <1>12, HaltedCommand DEF FinishHalted
  <2>2. CASE cmd.kind = "run" /\ cmd.result = "Stopped"
    <3>0. cmd.target \notin DOMAIN jobs.pids_to_indices BY <2>1, <2>2 DEF Revives
    <3>1. \A i \in Index : jobs.jobs[i].pid # cmd.target
      BY <1>1, <3>0, JobTypes DEF Sound, Index
    <3>2. PICK t \in Pid : t = cmd.target BY <2>1
    <3>3. jobs' = JL!insert(jobs, JL!NewJob(t, TRUE, "Stopped", TRUE))
      BY <1>12, <2>2, <3>2 DEF FinishHalted
    <3> QED BY <3>1, <3>2, <3>3, <1>6
  <2>3. CASE cmd.kind = "fg" /\ cmd.result = "Finished"
    <3>1. cmd.index \in Index BY <1>1, <2>3 DEF Rest, AwaitedChild
    <3>2. jobs' = JL!remove(jobs, cmd.index) BY <1>12, <2>3 DEF FinishHalted
    <3> QED BY <3>1, <3>2, <1>5
  <2> QED BY <1>12, <2>2, <2>3 DEF FinishHalted
<1>13. CASE \/ \E p \in Pid : \/ \E s \in Alive \cup {"Finished"} : Change(p, s)
                               \/ ChildTakesTerminal(p)
                               \/ \E kind \in {"run", "subst"} : Run(p, kind)
            \/ \E i \in Index : \/ SignalFails(i)
                                \/ \E s \in Alive \cup {"Finished"} : Kill(i, s)
            \/ \E i \in Index \cup {None} : Wait(i) \/ Jobs(IF i = None THEN Index ELSE {i})
  BY <1>13 DEF Change, ChildTakesTerminal, Run, SignalFails, Kill, Wait, Jobs
<1>14. CASE \/ SigchldUnnoticed \/ ReadCommand \/ Updated \/ Reported \/ WaitInterrupted
            \/ Enable \/ PollNothing \/ PollFails \/ Wake
  BY <1>14 DEF SigchldUnnoticed, ReadCommand, Updated, Reported, WaitInterrupted,
               Enable, PollNothing, PollFails, Wake
<1> QED
  BY <1>7, <1>8, <1>9, <1>10, <1>11, <1>12, <1>13, <1>14 DEF Next, Waiting

(* What the shell does to its jobs is what JobList.tla allows, unless      *)
(* SIGCHLD was ignored or a suspended command takes over a job.            *)
THEOREM JobsFollowJobList == Spec => FollowsJobList
<1>1. Init => JL!Init BY DEF Init, JL!Init, JL!NoIter
<1>2. IInv /\ [Next]_vars => [jobs' # jobs /\ ~ignored /\ ~Revives => JL!Next]_vars
  <2> SUFFICES ASSUME IInv, Next, ~ignored, ~Revives, jobs' # jobs PROVE JL!Next
    BY DEF vars
  <2> QED BY StepFollows
<1> QED BY <1>1, <1>2, Invariant, PTL DEF Spec, FollowsJobList

(* A job that has finished is not seen in another state again, unless its  *)
(* process ID is taken.                                                    *)
LEMMA StepFinal ==
    ASSUME IInv, Next, NEW i \in Index, jobs.jobs[i].state = "Finished",
           i \in Index', NEW p, p = jobs.jobs[i].pid
    PROVE  \/ jobs'.jobs[i].state = "Finished"
           \/ proc[p] = "None" /\ proc'[p] # "None" /\ jobs'.jobs[i].pid = p
           \/ Borrowed(p)
<1>b. SUFFICES ASSUME ~Borrowed(p)
               PROVE  \/ jobs'.jobs[i].state = "Finished"
                      \/ proc[p] = "None" /\ proc'[p] # "None" /\ jobs'.jobs[i].pid = p
  OBVIOUS
<1>1. Sound(jobs, ~revived, ~ignored) /\ Types /\ Flags /\ Rest BY Parts
<1>2. PICK w \in BOOLEAN, r \in BOOLEAN : w = ~revived /\ r = ~ignored
  BY <1>1, Zenon DEF Flags
<1>3. Sound(jobs, w, r) BY <1>1, <1>2
<1>4. p \in Pid /\ ~Child(p) BY <1>1, <1>b, JobTypes DEF Sound, Index, Rest, FinishedGone
<1>5. todo \subseteq Nat /\ (todo # {} => First \in todo) BY <1>1, FirstInTodo DEF Types
<1>t. ASSUME SameJobs(jobs, jobs') PROVE jobs'.jobs[i].state = "Finished"
  BY <1>t DEF SameJobs, Index
<1>r. ASSUME NEW k \in Index, jobs' = JL!remove(jobs, k)
      PROVE  jobs'.jobs[i].state = "Finished"
  <2>1. k \in DOMAIN jobs.jobs /\ i \in DOMAIN jobs'.jobs BY DEF Index
  <2>2. /\ Sound(jobs', w, r) /\ DOMAIN jobs'.jobs = DOMAIN jobs.jobs \ {k}
        /\ \A m \in DOMAIN jobs'.jobs : jobs'.jobs[m] = jobs.jobs[m]
    BY <1>3, <1>r, <2>1, RemoveJobs
  <2> QED BY <2>1, <2>2
<1>w. ASSUME NEW q \in Pid, q \in news, Waited(q) PROVE jobs'.jobs[i].state = "Finished"
  <2>1. Child(q) /\ q # p BY <1>1, <1>4, <1>w DEF Rest, KernelOK
  <2>2. PICK s \in {"Running", "Stopped", "Finished"} : s = proc[q]
    BY <1>1, <2>1 DEF Types, Child
  <2>3. jobs' = JL!update_status(jobs, q, s) BY <1>w, <2>2 DEF Waited
  <2>4. /\ Sound(jobs', w, r) /\ DOMAIN jobs'.jobs = DOMAIN jobs.jobs
        /\ \A k \in DOMAIN jobs.jobs :
              /\ jobs'.jobs[k].pid = jobs.jobs[k].pid
              /\ jobs.jobs[k].pid = q => jobs'.jobs[k].state = s
              /\ jobs.jobs[k].pid # q => jobs'.jobs[k].state = jobs.jobs[k].state
    BY <1>3, <2>3, UpdateJobs
  <2> QED BY <2>1, <2>4 DEF Index
<1>6. CASE \E q \in Pid : Update(q) \/ Poll(q) BY <1>6, <1>w DEF Update, Poll
<1>7. ASSUME NEW q \in Pid, RunAsync(q)
      PROVE  \/ jobs'.jobs[i].state = "Finished"
             \/ proc[p] = "None" /\ proc'[p] # "None" /\ jobs'.jobs[i].pid = p
  <2>1. jobs' = JL!insert(jobs, JL!NewJob(q, TRUE, "Running", FALSE)) /\ ~Child(q)
        /\ proc' = [proc EXCEPT ![q] = "Running"]
    BY <1>7 DEF RunAsync, Unused
  <2>2. r => \A k \in DOMAIN jobs.jobs :
                jobs.jobs[k].pid = q => jobs.jobs[k].state = "Finished"
    <3>1. \A k \in Index : jobs.jobs[k].state \in {"Running", "Stopped", "Finished"}
      BY <1>1, JobTypes DEF Sound, Index
    <3>2. r => \A k \in Index : jobs.jobs[k].pid = q => jobs.jobs[k].state = "Finished"
      BY <1>1, <1>2, <2>1, <3>1 DEF Rest, JobsAreChildren, Alive
    <3> QED BY <3>2 DEF Index
  <2>3. MayInsert(jobs, w, r, q, "Running") BY <2>2 DEF MayInsert
  <2>4. FALSE \in BOOLEAN /\ "Running" \in {"Running", "Stopped"} OBVIOUS
  <2>5. PICK k \in Nat : Added(jobs, jobs', q, "Running", k)
    BY <1>3, <2>1, <2>3, <2>4, InsertJobs
  <2>6. CASE p = q
    <3>1. i = k BY <2>5, <2>6 DEF Added, Index
    <3>2. jobs'.jobs[i].pid = p BY <2>5, <2>6, <3>1 DEF Added
    <3> QED BY <1>1, <1>4, <2>1, <2>6, <3>2 DEF Types, Child
  <2>7. CASE p # q
    <3>1. i # k BY <2>5, <2>7 DEF Added, Index
    <3> QED BY <2>5, <3>1 DEF Added, Index
  <2> QED BY <2>6, <2>7
<1>8. ASSUME NEW k \in Index, Fg(k) \/ Bg(k) PROVE jobs'.jobs[i].state = "Finished"
  <2>1. k \in DOMAIN jobs.jobs BY DEF Index
  <2>2. \/ jobs' = jobs \/ jobs' = JL!remove(jobs, k) \/ jobs' = JL!expect(jobs, k, "Running")
    BY <1>8 DEF Fg, Bg
  <2>3. CASE jobs' = JL!expect(jobs, k, "Running")
    <3>1. Sound(jobs', w, r) /\ SameJobs(jobs, jobs') BY <1>3, <2>1, <2>3, TouchJobs
    <3> QED BY <3>1, <1>t
  <2> QED BY <2>2, <2>3, <1>r
<1>9. CASE Report \/ BgSelect \/ JobsNext
  <2>1. PICK k : k = First OBVIOUS
  <2>2. \/ jobs' = jobs
        \/ k \in DOMAIN jobs.jobs /\ jobs' = JL!state_reported(jobs, k)
        \/ k \in Index /\ jobs' = JL!remove(jobs, k)
        \/ k \in Nat /\ jobs' = JL!set_current_job(jobs, k)
    <3>1. todo \subseteq Index BY <1>1, <1>9 DEF Rest, CmdOK, Report, BgSelect, JobsNext
    <3>2. Index \subseteq Nat BY <1>1, JobTypes DEF Sound, Index
    <3>3. CASE BgSelect
      <4>1. First \notin Index => jobs' = jobs
        BY <3>3 DEF BgSelect, JL!set_current_job, JL!MaySelect, JL!Index, Index
      <4> QED BY <3>2, <3>3, <2>1, <4>1 DEF BgSelect
    <3> QED BY <1>5, <1>9, <2>1, <3>1, <3>3 DEF Report, JobsNext, Index
  <2>3. CASE \/ k \in DOMAIN jobs.jobs /\ jobs' = JL!state_reported(jobs, k)
             \/ k \in Nat /\ jobs' = JL!set_current_job(jobs, k)
    <3>1. Sound(jobs', w, r) /\ SameJobs(jobs, jobs') BY <1>3, <2>3, TouchJobs
    <3> QED BY <3>1, <1>t
  <2> QED BY <2>2, <2>3, <1>r
<1>10. CASE WaitNext
  <2>1. jobs' = jobs \/ jobs' = JL!remove(jobs, First) BY <1>10 DEF WaitNext
  <2>2. First \notin Index => JL!remove(jobs, First) = jobs
    BY DEF JL!remove, JL!Index, Index
  <2> QED BY <2>1, <2>2, <1>r
<1>11. CASE FinishHalted
  <2>1. cmd.kind \in Foreground /\ cmd.target \in Pid
    BY <1>1, <1>11, HaltedCommand DEF FinishHalted
  <2>2. CASE cmd.kind = "run" /\ cmd.result = "Stopped"
    <3>1. PICK t \in Pid : t = cmd.target BY <2>1
    <3>2. jobs' = JL!insert(jobs, JL!NewJob(t, TRUE, "Stopped", TRUE))
      BY <1>11, <2>2, <3>1 DEF FinishHalted
    <3>3. t # p BY <1>b, <2>2, <3>1 DEF Borrowed
    <3>4. FALSE \in BOOLEAN /\ Sound(jobs, FALSE, r) /\ MayInsert(jobs, FALSE, r, t, "Stopped")
      BY <1>3 DEF MayInsert, Sound
    <3>5. TRUE \in BOOLEAN /\ "Stopped" \in {"Running", "Stopped"} OBVIOUS
    <3>6. PICK k \in Nat : Added(jobs, jobs', t, "Stopped", k)
      BY <3>2, <3>4, <3>5, InsertJobs
    <3>7. i # k BY <3>3, <3>6 DEF Added, Index
    <3> QED BY <3>6, <3>7 DEF Added, Index
  <2>3. CASE cmd.kind = "fg" /\ cmd.result = "Finished"
    <3>1. cmd.index \in Index BY <1>1, <2>3 DEF Rest, AwaitedChild
    <3>2. jobs' = JL!remove(jobs, cmd.index) BY <1>11, <2>3 DEF FinishHalted
    <3> QED BY <3>1, <3>2, <1>r
  <2> QED BY <1>11, <2>2, <2>3 DEF FinishHalted
<1>12. CASE \/ \E q \in Pid : \/ \E s \in Alive \cup {"Finished"} : Change(q, s)
                               \/ ChildTakesTerminal(q)
                               \/ \E kind \in {"run", "subst"} : Run(q, kind)
            \/ \E k \in Index : \/ SignalFails(k)
                                \/ \E s \in Alive \cup {"Finished"} : Kill(k, s)
            \/ \E k \in Index \cup {None} : Wait(k) \/ Jobs(IF k = None THEN Index ELSE {k})
  BY <1>12 DEF Change, ChildTakesTerminal, Run, SignalFails, Kill, Wait, Jobs
<1>13. CASE \/ SigchldUnnoticed \/ ReadCommand \/ Updated \/ Reported \/ WaitInterrupted
            \/ Enable \/ PollNothing \/ PollFails \/ Wake
  BY <1>13 DEF SigchldUnnoticed, ReadCommand, Updated, Reported, WaitInterrupted,
               Enable, PollNothing, PollFails, Wake, kernel
<1> QED
  BY <1>6, <1>7, <1>8, <1>9, <1>10, <1>11, <1>12, <1>13 DEF Next, Waiting

(* What a finished job's state says is final, until a child that is        *)
(* started later with its process ID is made a job or runs in the          *)
(* foreground: no signal and no news of another child changes it.          *)
THEOREM FinishedStaysFinished == Spec => FinishedIsFinal
<1>1. IInv /\ [Next]_vars =>
        [\A i \in Index :
            LET p == jobs.jobs[i].pid
            IN jobs.jobs[i].state = "Finished" /\ i \in Index' =>
                \/ jobs'.jobs[i].state = "Finished"
                \/ ~Child(p) /\ Child(p)'
                \/ Borrowed(p)]_vars
  <2> SUFFICES ASSUME IInv, Next, NEW i \in Index, jobs.jobs[i].state = "Finished",
                      i \in Index', jobs'.jobs[i].state # "Finished",
                      ~Borrowed(jobs.jobs[i].pid)
               PROVE  LET p == jobs.jobs[i].pid IN ~Child(p) /\ Child(p)'
    OBVIOUS
  <2>1. PICK p : p = jobs.jobs[i].pid OBVIOUS
  <2>2. proc[p] = "None" /\ proc'[p] # "None" /\ jobs'.jobs[i].pid = p
    BY <2>1, StepFinal
  <2> QED BY <2>1, <2>2 DEF Child
<1> QED BY <1>1, Invariant, PTL DEF Spec, FinishedIsFinal

=============================================================================
