# A formal model of yash-rs

yash-rs is a POSIX shell written in Rust. At its centre there are parts in
which several things happen at once: an executor that polls tasks, one `select`
that serves all of them, signals that arrive whenever they like, children that
stop and die while the shell looks elsewhere, pipes whose ends are spread over
processes. Around them there is a large sequential program that keeps state in
places far from where it is used: guards that undo redirections, frames that
`break` and errexit consult, a stack of variable contexts, `OPTIND`, `PWD`,
here-documents that are waited for. And there are algorithms that text passes
through: a lexer, a parser, expansion, field splitting, patterns, arithmetic.

This directory keeps TLA+ specifications of those parts, the TLC configurations
that check them on small instances, and proofs checked by TLAPS that hold for
instances of any size. `PROJECT.json` is the machine-readable index:
components, runs, mutants, the lines of Rust each definition stands for,
findings, hazards and theorems.

## 1. Inventory

| Part | State it keeps | Operations | What makes it correct | Module |
|---|---|---|---|---|
| Executor (`yash-executor`) | wake queue, a future per task, a relay per forwarder | spawn, wake, step, send, receive, drop | a woken task is polled once; a result reaches its receiver | Executor, Scheduler |
| Concurrent system (`yash-env/src/system/concurrency.rs`, `waker`) | maps of wakers by descriptor, a heap of deadlines, a shared list of signals, the mask for select | read, write, sleep, wait for signals, select, peek | whoever waits can be woken; no signal is lost; descriptors get their mode back | Concurrent |
| Trap set (`yash-env/src/trap`) | a state per condition, for the user, for the parent shell and for the shell itself | set, peek, enter a subshell, enable and disable internal dispositions, catch | the kernel's dispositions and masks agree with the table | TrapSet, SetDisposition |
| Trap execution (`yash-semantics/src/trap`) | frames on the stack, pending flags | run traps for caught signals, run one trap, run the EXIT trap | a caught signal's command runs, once, and not inside another | TrapSet, Execution |
| Built-ins under interruption (`simple_command/builtin.rs`) | two futures and the vector `caught` | call, poll, interrupt, return | no signal is dropped or acted on twice | Interruptible |
| Job list (`yash-env/src/job.rs`) | slab of jobs, map from process IDs, current and previous index | insert, remove, update, select, disown, extract | the map is the inverse of the slab; suspended jobs come first | JobList |
| Job control (`Env::wait_for_subshell`, `Config::start`, `fg`, `bg`, `jobs`, `kill`, `wait`) | the job list, the terminal's foreground group | start, wait, resume, signal, report | the list tells the truth about children; the shell gets the terminal back | JobControl |
| Pipelines (`command/pipeline.rs`) | PipeSet, descriptors of each process | connect, start, shift, wait | everyone has its own ends only, and the pipeline ends | Pipeline, Fifo, FdTable |
| Redirections (`redir.rs`) | guards with saved descriptors, the terminal's descriptor | save, open, copy, close, undo, preserve | commands see what they asked for and leave no trace | Redirection, FdTable |
| Control flow (`command`, `stack.rs`, `break`, `return`, `exit`) | stack of frames, `Divert`, exit status | break, continue, return, exit, errors, errexit, recovery | a divert stops at the right construct; errexit applies where it should | Execution |
| Variables (`variable.rs`, `assign.rs`, `typeset`, `unset`) | one stack per name, a stack of contexts | assign, export, unset, push and pop | scoping, temporary assignments, read-only variables | Variables, Scopes |
| Functions, aliases, options | tables | define, remove, set | alias substitution ends and is substitution of text | Grammar (aliases) |
| Lexer and parser (`yash-syntax`) | position, alias history, pending here-documents | read, peek, substitute, parse | the tree is the one the grammar gives; printing and parsing are inverse | Grammar, WordLexer |
| Expansion (`expansion`, `yash-fnmatch`) | the flag `will_split`; assignments by `${x=y}` | expand, split, trim, match, glob | agrees with a definition | Phrases, Fields, Patterns |
| Arithmetic (`yash-arith`) | variables | parse, evaluate | the tree and the value C gives; overflow is an error | Arithmetic |
| Option parsing (`common/syntax.rs`, `getopts`) | `OPTIND`, a copy of the arguments | parse, one option per call | a getopts loop finds what one pass finds | Options, Getopts |
| Command search (`semantics/command`, `command`, `type`, `exec`) | none; PATH, functions, built-ins | classify, search, identify, invoke | all ways to look up a name agree | CommandSearch |
| Working directory (`cd`, `pwd.rs`) | the process's directory, `PWD`, `OLDPWD` | cd -L, cd -P, start | `PWD` names the directory | WorkingDirectory |
| Quoting (`yash-quote`) | none | quote | the lexer reads back what was quoted | WordLexer |
| Virtual system | processes, files, pipes | the system calls, simulated for tests | behaves as the kernel does | FdTable, Fifo |
| Real system | slots of caught signals | the system calls | (wrappers) | Concurrent (slots) |
| Input, prompts, messages | none or a buffer | read a line, format | (I/O, layout) | none |

The parts meet as follows. The executor polls the shell's main task and those
of command substitutions and the like. A task that would block registers its
waker with the concurrent system, whose `select` runs when the executor has
stalled. Signals are blocked except during `select`; the handler leaves them
in a small array, `select` moves them to a `SignalList` shared by the waiting
tasks, `Env::wait_for_signals` or `poll_signals` passes them on to the trap
set, and after each command the pending ones are run; what a trap action breaks
out of is combined with what the command broke out of. SIGCHLD takes the same
way and ends the sleep of `wait_for_subshell`, which calls `wait` again and
writes what it learns to the job list. `fg`, `bg` and `kill` read the job list
to decide whom to signal. The parser gives commands to the executor of
commands; expansion turns words into fields, reads and assigns variables; a
simple command performs redirections, pushes a context for its assignments and
a frame for its built-in, and undoes all of it by dropping guards.

Hard to test are, then: wake-ups and signals that come between two steps;
information that is old when it is used (process IDs, job states, non-blocking
mode, the terminal's descriptor, `PWD`, `OPTIND`); dispositions, descriptors
and contexts changed in steps of which one fails; and long sequences of
operations each of which repairs only its own neighbourhood. The list in
`PROJECT.json` under `hazards` gives the line for each.

## 2. Modules

### Concurrency, signals and jobs

* **Executor.tla** follows `executor.rs`, `task.rs`, `waker.rs` and
  `forwarder.rs`. `queue` is the wake queue, `future` says for each task
  whether it is unborn, pending or gone, `relay` is the cell shared by `Sender`
  and `Receiver`. While a task runs (between `StepPoll` and `Pend` or
  `Complete`) it may do what a future can do: spawn, wake itself or others,
  keep wakers, poll receivers.
* **Scheduler.tla** is what a user of the executor may assume: a set of tasks
  that are ready, each picked some time after it became so.
  `Executor!ImplementsScheduler` is the refinement.
* **JobList.tla** writes `JobList`'s methods as operators on a record, the slab
  with its free list included, because the reuse of indices matters. Actions
  call them the way the rest of the shell does. `insert` is called with a
  process ID that is listed only in a subshell, where the old job is the
  parent's; an entry brought back to life by `update_status` for another
  process is the subject of JobControl.
* **TrapSet.tla** has the table of traps, the kernel's view (disposition, mask,
  pending signals), Concurrent's mask for select, and the frames of running
  traps. It follows one process and goes into the child at a fork. A disposition
  is installed, and a subshell entered, in one step.
* **SetDisposition.tla** takes these steps apart for one signal: what
  `set_action`, `set_internal_disposition`, `Concurrent::set_disposition`,
  `Config::start` and `enter_subshell` do is a list of system calls (`todo`), and
  the signal may come between any two of them, find the mask and the disposition
  as they are, and kill the process.
* **Concurrent.tla** has one record per task for what it awaits, the maps from
  descriptors to tasks with the fact that they hold weak references, and the
  guard that makes a descriptor non-blocking. The mode belongs to an open file
  description (`File`), to which several descriptors may refer (`FileOf`) and
  which another process may have too and change (`Meddle`).
* **Interruptible.tla** takes up where Concurrent leaves a filled `SignalList`
  and follows the signals through `select(builtin_fut, sigint_fut)` to the trap
  set. It shares the meaning of `SignalList` with Concurrent, and the pending
  flag with TrapSet.
* **JobControl.tla** composes JobList, through `INSTANCE`, with children, a
  terminal and SIGCHLD. `pc` says where the shell is in the read-eval loop or
  in a wait. Loops over jobs take a step for each. Every step changes the job
  list by at most one JobList operation, and the property `FollowsJobList`
  states that the whole composition is a behaviour of JobList. A child may get the
  process ID of a finished one that is still listed. A suspended foreground command
  may so take over the job of another child (`Revives`), the one thing that is no
  step of JobList; the history variable `revived` remembers it. A child may be
  stopped before it calls `tcsetpgrp` (`early`) and take the terminal when it is
  resumed, be it in the background (`late`).

### Descriptors

* **FdTable.tla** is the descriptor table of a process with the system calls on
  it, from the virtual system: lowest unused number from a minimum, a limit,
  close-on-exec. No call changes a table when it fails.
* **Redirection.tla** has one table, and a stack `frames` of `RedirGuard`s and
  of scripts being read. Each redirection is an action (two more for
  noclobber, which opens, opens again and then calls fstat, while files come
  and go); `Undo` and `Preserve` are the two ends of a guard. `GetTty` opens
  the terminal at any time. What a pathname names is chosen anew at each open.
* **Fifo.tla** is the pipe of the virtual system with its lists of wakers, and
  **Pipeline.tla** puts it, FdTable and `execute_multi_command_pipeline`
  together: the shell is process 0 and every command is a process with a table
  of its own, a small program (producer, filter, head, one that does nothing)
  and a bit that says whether it sleeps. Starting and `pipe` may fail, a signal
  may kill a command at any time (`Killed`), and whether pipefail is on is read
  when all commands have been started.

### Commands and variables

* **Execution.tla** has the Rust call stack of constructs (`acts`), `env.stack`
  (`frames`) and what is going on at the top (`flow`). There is no program:
  whenever a list may run its next item, any command may be that item, so that
  the behaviours are those of all programs up to a depth. Every construct has
  an action for its end and one for a divert that reaches it. Trap actions and
  the EXIT trap are constructs like others. A subshell runs on top of its
  parent, which waits for it. It may be killed or suspended at any time
  (`SubshellHalts`), as may a utility (`CommandHalts`), which in an interactive
  shell is a divert (`handle_job_status`).
* **Scopes.tla** is what the variable set promises: a stack of scopes with
  variables of their own. **Variables.tla** keeps one stack per name and a
  separate stack of contexts as the code does, with the calls that functions,
  built-ins, utilities, `typeset`, `export`, `readonly` and `unset` make;
  `ImplementsScopes` is the refinement, with a mapping that turns the stacks by
  name into scopes.

### Algorithms

* **Arithmetic.tla** translates the precedence-climbing parser, which writes a
  flat array with the lengths of operands, and the evaluator, which reads it
  from its end; integers have `Bits` bits. The reference is the grammar of C
  and its evaluation.
* **Fields.tla** is the automaton that cuts fields and the way `read` shares
  them out. **Patterns.tla** is the compilation of patterns to regular
  expressions, the search for prefixes and suffixes, and pathname expansion in
  a small tree of directories; the engine of regular expressions is external.
  **Phrases.tla** is word expansion with its modifiers, quotes and the flag
  `will_split`.
* **Grammar.tla** is the parser of commands over tokens, with aliases and
  here-documents, and the display of trees. **WordLexer.tla** is the lexer of
  words over characters, and quoting.
* **CommandSearch.tla** is the search for what a name stands for, as simple
  commands, `command`, `type` and `exec` make it, in a shell that knows built-ins,
  functions, aliases, PATH and files. What file a path names is up to the kernel:
  the constant `Located`, of which `LookupAssumption` says that `./x` and `$PWD/x`
  are `x`.
* **Options.tla**, **Getopts.tla** (extends it) and **WorkingDirectory.tla**
  are the parser of options, getopts with the user's interference, and cd with
  interference by the user and by other processes.
* **Terms.tla** has the terms that Patterns, Phrases, WorkingDirectory and
  CommandSearch work on: characters, units of words, values, paths.
* **Algorithms.tla** instantiates all of these but CommandSearch, which it
  extends: `NameSpec` there is the part of the behaviours that is about names. A
  behaviour is either one input
  that grows by an element at a time, or a sequence of calls of getopts or of
  cd. The properties compare the translation with a reference in every state. Commands
  go through stages (`ReadCommand`): typed, read with aliases in force, printed and
  read again, and with the text that the aliases made of them.

### Proofs and instances

The eight modules **...Proofs.tla** (Executor, JobList, Concurrent, TrapSet,
JobControl, Pipeline, Redirection, Execution) hold the theorems about the module
they are named after. ExecutorProofs also has those about Interruptible, in which
futures are polled as well, and about CommandSearch; ExecutionProofs those about
Variables, whose contexts commands push and pop. Names such as `BSpec`, `NameSpec`
and `VSpec` keep them apart. The **MC** modules add only what TLC needs (model values, sets
of inputs, symmetry). MCBuiltin takes Executor, Interruptible and Variables together,
MCTrapSet takes TrapSet and SetDisposition: in a behaviour one of them moves while the
others stay in an initial state. They have no state in common, so that nothing is
lost by that. Definitions that are marked *a wrong version* are mutants:
versions of the definition that follows with one mistake, used to see that each
property notices one.

## 3. Runs

| Run | Distinct states | Question |
|---|---|---|
| builtin | 156,101 | the executor: handshake of sender and receiver, refinement of Scheduler, starvation; the built-in in its select: where signals may vanish; four contexts, temporary assignments, attributes, refinement of Scopes |
| trap_set | 231,946 | two signals with two arrivals, of which SIGTSTP may be ignored at the start, interactive or not, subshells, traps inside traps: is a trap lost, is each run in the end? The system calls around one signal, with the signal between any two of them: is it handled outside select, kept out for ever, or deadly? |
| concurrent | 321,600 | two tasks, two signals, two instants, a file that another process has too: are signals lost, when does the process block, does what tasks wait for happen? |
| job_list | 1,314,902 | up to three jobs, all operations, before and after a fork with process IDs reused |
| job_control | 2,618,850 | two children, all job-control commands, process IDs used again, children stopped early; one child if SIGCHLD is ignored at the start |
| redirection | 1,389,924 | two nested commands with three redirections in all, `.`, the terminal, noclobber, a table of five descriptors |
| pipeline | 246,107 | three commands, four ways the standard descriptors may be open, failures of pipe and fork, commands killed |
| execution | 3,366,391 | two nested constructs of ten kinds around every kind of command, a signal |
| algorithms | 282,435 | the algorithms against their references, command names looked up in every way, getopts and cd under interference |
| here_doc | fails | is a here-document read at the next newline? |
| precedence | fails | is `\|` tighter than `^`? |
| error_status | fails | does an error end the shell with its status? |

What the properties say:

* `NoLostWakeup`, `WokenIsPolled`, `ImplementsScheduler`: a task that was woken,
  by a result too, is polled; the executor is a Scheduler.
* `SuspendedFirst`: current and previous job are suspended ones while there are
  any. `NoLostTrap`, `OwedIsRun`: a signal that was caught for a trap stays
  pending until its action runs, which in the end it does, even if signals with
  lower numbers come first, a trap action runs, or an action breaks out of the
  loop that runs them.
* `HandlerInSelect`, `Settled`, `DiesJustly`: in the middle of any sequence of
  system calls, no handler runs outside select, and no signal kills the process
  that was neither deadly before the operation nor is to be after it; between
  operations disposition, mask and the mask for select fit together. `Settled`
  leaves out a child that ignores the signal (see `MaskIsOurs` below). `DiesJustly` speaks
  of the deadly ones only: a shell that is not interactive finds out whether a
  signal is ignored by ignoring it, and so drops one that comes between this call
  and the one that catches it.
* `NoneLost`: every signal of a select reaches all who wait. `IOCompletes`: who
  waits for a descriptor that is ready goes on. `BlocksOnlyIfShared`: the whole
  process is blocked in a read or write only on a file description that two tasks
  have used at once, through one descriptor or two, or that another process has
  changed (history variable `shared`); there it can happen, since of two
  readers the first that is done makes the description blocking for the other.
* `LossWindow`: a signal vanishes only if it comes during the select and the built-in
  completes in the very next poll.
* `NoMissedChild`, `LatestState`, `ForegroundAtInput`, `FollowsJobList`: the shell
  does not sleep while a child has news; the list shows the last news; the shell
  is in the foreground when it reads commands, unless a child that had been stopped
  before it could take the terminal has taken it since; and its use of the list is
  a behaviour of JobList, but for the takeover of a job.
* `InternalIntact`: the descriptors that guards and scripts rely on stay open,
  close-on-exec, out of the user's range and used for one purpose, whatever the
  commands inside redirect, and a script goes on being read from its own file.
  `UndoRestores`: dropping a guard gives back every descriptor the command
  redirected and touches no other one. `LeakBounded`: a command leaves nothing open
  in the shell's own range, but for one descriptor if a redirection failed after its
  target was saved. `NoClobber`: with noclobber, no
  regular file of somebody else is ever installed for writing.
* `Connected`: when its command runs, each child has the pipe ends it should
  have at 0 and 1, and no others, whichever standard descriptors were closed at
  the start. `SleepsJustly`: who sleeps cannot proceed. `Terminates`: if no
  producer goes on for ever, the shell gets to the end.
* `LoopTarget`: a break or continue always has as many loops around it as it
  counts, within one trap action, script and subshell, so that none leaves them.
  `ErrexitExact`: a failing simple command ends the shell if and only if
  errexit is on and it is in no condition, anywhere up the call stack.
  `Unwinds`: once a process exits or a command line is interrupted, nothing of
  it runs any more but traps; no construct swallows the divert.
* `TemporaryUndone`: after a command with temporary assignments every variable
  that was not assigned for good meanwhile is what it was, attributes included. `ImplementsScopes`: the refinement.
* The properties of *algorithms* each compare a translation with a definition
  that is written another way: trees of a grammar that derives the tokens,
  splitting by decomposition, matches by enumeration of substrings, words
  expanded without the flags, text after substitution of aliases parsed
  without aliases, and so on. `FieldsRight` is about splitting and about what `read`
  makes of the fields, `PatternsRight` about trims and pathname expansion,
  `PrintedReadsBack` about commands and quoted strings. `NamesAgree` says that simple commands, `command`,
  `command -p` and `exec` run the bearer of a name that comes first in order, with
  the PATH that is in force after the assignments of the command, and that what
  `command -v` prints is true and runs the same when it is used as a command. It
  says nothing of a utility in a relative directory of PATH while the working
  directory has no name: it runs, though `command -v` does not find it. `GetoptsAgrees` and `PwdNamesCwd` are about
  sequences of calls.

**The findings.**

* *here_doc*: `for_loop_values` takes the newline that ends the words of a
  `for` loop without reading pending here-documents. `cat <<END; for i in 1`,
  newline, text of the document, `END`, newline, `do` ... is refused, though the
  manual says that the contents follow the next newline operator. Array values
  have the same gap.
* *precedence*: the manual lists `|` as tighter than `^`; `ast.rs` has it the other
  way round, as C has. `ParsesRight` takes C's grammar as its reference.
* *error_status*: a trap action that an expansion error interrupts puts the exit
  status from before in place of the error's, and the shell may exit with zero;
  `docs/src/termination.md:70` says "a non-zero value indicating the error".

### Further properties and observations

These statements are defined in the modules and have been checked too. They are
not listed as runs of their own; put the name in place of the properties of the
configuration in the second column, with the constants or the specification in the
third.

| Property | Configuration | Constants | Result |
|---|---|---|---|
| `IInv`, `NoDuplicateWake`, `SendsOnce`, `NoResurrection` | MCBuiltin | | hold, and are proved |
| `ResultWakesReceiver` | MCBuiltin | | holds |
| `ReportedOnce` | MCBuiltin | | fails: `Executor::step` counts a completed task again if it was woken while it completed; `executor.rs:90` says "Returns the number of completed tasks." |
| `IInv`, `PidsInSync`, `PreviousExists` | MCJobList | | hold, and are proved |
| `ExtractCount` | MCJobList | | holds, and is proved |
| `CurrentSuspended` | MCJobList | | fails: in a subshell, a child with the process ID of an inherited suspended job takes its slot, and a running job is current before a suspended one, which `job.rs:863` excludes. Hence `SuspendedFirst` is stated of shells that are no subshells |
| `IInv`, `StartupIgnoreSticks`, `ParentsOnlyUntouched` | MCTrapSet | | hold, and are proved |
| `IgnoredUntilExec`, `InSync`, `CaughtInSelect` | MCTrapSet | | hold, with two arrivals and traps inside traps, and are proved |
| `MaskIsOurs` | MCTrapSet | `Signal = {2, 3}` | fails: SIGINT and SIGQUIT are blocked before the fork of an asynchronous command and unblocked in the child by setting their dispositions, which is not done if a trap ignores them already; all the child executes has them blocked, against what `block_sigint_sigquit` demands of its caller |
| `InheritedIsInherited` | MCTrapSet | `Signal = {2, 3}` | fails: in an asynchronous subshell a default that was only looked at turns into an ignored signal that claims to be inherited |
| `AutoIgnored` | MCTrapSet | `Signal = {2, 15}` | fails: a failed `exec` leaves an interactive shell without its ignored signals; `IgnoredUntilExec` says that this is the only way |
| `IInv`, `Registered`, `ModeRestored` | MCConcurrent | | hold, and are proved |
| `BlocksOnlyIfShared` | MCConcurrent | `Fd = {a, b}`, `Signal = {1}`, `Spec` | holds, with two descriptors of one file description (1,273,344 states), and is proved |
| `SleepCompletes` | MCConcurrent | | holds |
| `BIInv` | MCBuiltin | | holds, and is proved |
| `NothingLost` | MCBuiltin | | fails: a built-in that completes just after a signal came in drops that signal; the comment at `builtin.rs:108` promises otherwise. `LossWindow` says that there is no other way |
| `HandledOnce` | MCBuiltin | | fails: `command`, run in an interactive shell, can make a trap run twice. `OnceUnlessNested` says that a nested wait is the only way |
| `OnceUnlessNested` | MCBuiltin | | holds, and is proved |
| `IInv`, `NoStraySignal`, `JobsAreChildren`, `PreviousExists`, `FinishedIsFinal` | MCJobControl | | hold, and are proved |
| `PreviousPromised` | MCJobControl | | fails: of two jobs, a foreground command that has the process ID of the finished one and is suspended takes over its job, and the current job becomes the previous job too, which the documentation of `previous_job` excludes (`job.rs:879`). `PreviousExists` says that there is no other way |
| `NoMissedChild`, `LatestState` | MCJobControl | `StartChld = {"Ignore"}`, no constraint | hold (10,067,058 states), and are proved |
| `WaitEnds` | MCJobControl | `StartChld = {"Default"}`, `FairSpec`, no constraint | holds |
| `NothingLeaks` | MCRedirection | | fails: `perform` returns on an error after it has saved the target, and nobody closes the copy |
| `TtyIntact` | MCRedirection | | fails: a redirection closes a number in the internal range that is not open, the terminal is opened at that number, and undoing the redirection closes it; `env.tty` names a closed descriptor |
| `IInv` | MCRedirection | | holds, and is proved |
| `IInv`, `StatusRight`, `PipeSetExact` | MCPipeline | | hold, and are proved; the descriptors `PipeSetExact` speaks of are those an abandoned pipeline leaves open |
| `IInv` | MCExecution | `Layered` computed | holds, and is proved |
| `LoopStatus` | MCExecution | | holds, and is proved |
| `LoopStatusAlways` | MCExecution | | fails: a round that ends with `continue` leaves the status of the round before (or zero) to the loop; `docs/src/language/commands/loops.md:114` says "that of the last command run in the loop body" |
| `AbortSkipsTrap` | MCExecution | | fails: the EXIT trap runs after `Divert::Abort`, documented as "without executing the EXIT trap" |
| `ErrorExits` | MCExecution | | fails: an interactive shell with errexit recovers from an error of a special built-in |
| `VIInv`, `Normalized` | MCBuiltin | | hold, with two names and `MaxContexts = 3` too, and are proved |
| `OptionsCanonical` | MCAlgorithms | | holds |
| `CdArrives` | MCAlgorithms | | fails: cd shortens a path below a `PWD` that is not the directory any more, and arrives elsewhere than it records |

With SIGCHLD ignored at the start, a child that ends before the first wait
leaves nothing to wait for; the list then speaks of a process that has
vanished. JobControl's history variable `ignored` turns true at that moment,
and `NoStraySignal`, `JobsAreChildren`, `ForegroundAtInput` and
`FollowsJobList` are claimed of what happens before it. In the same situation
`fg` returns without taking the terminal back, and a pipeline panics, since it
expects an exit status. Setting a trap drops a signal that was caught for the
old one, as the code intends.

Reading the code for the models also showed, without a run:

* `x + (x = 1)` uses the new value of x.
* A quoted hyphen in brackets still makes a range (`[a"-"c]`), against
  `docs/src/patterns.md`; `[[.^.]]` and a negated bracket with nothing but
  multi-character symbols become broken regular expressions.
* A global alias after a compound command is not substituted.
* `IFS` as an array splits by the default but joins by its first element.
* With `PWD` unset, cd makes it relative. `umask u=rw,g=u` copies from the mask
  at the call.
* getopts reports operands after `--` when it is called after the end, and
  repeats itself if `OPTIND` is read-only.
* `allexport` exports a read-only variable even if the assignment fails.
* The virtual system: `wait(-1)` may fail with ECHILD though a child is alive;
  the rendezvous of two opens of a FIFO can be lost; a process killed while it
  blocks in a read keeps its descriptor.
* errexit inside a trap action exits with the status from before the trap; what
  is caught at the end of the input is not handled.

### Bounds

Two tasks suffice for each race the executor and the concurrent system have
(waker against wakee, first guard against second); a third lets the executor's
queue have an order, and one forwarder shows its handshake, since forwarders
share nothing. Three jobs let the list have a current job, a previous one and
a candidate for promotion, and removing them leaves a free list of several
entries. Two signals with different internal dispositions show the interplay
in the trap set, and two arrivals with frames nested twice make a trap meet a trap
and a signal wait for another. That a signal is ignored at the start changes
something for good only in a shell that is not interactive, and is tried with one of
the two. The system calls of SetDisposition need one signal only, since
calls for different signals share nothing but the mask for select, of which
`OtherSignal` makes the first. One descriptor that two tasks and another process use
is what disturbs a guard; with two descriptors of one description nothing new
happened (see above). Two children are a job and a foreground command, or two jobs of
any rank, and with one process ID taken twice a finished job and a new child; with SIGCHLD
ignored at the start the run has one child, which leaves nothing behind.
`MaxArrivals`, `MaxTime` and `MaxFrames` bound the signals, the clock
and the nesting; the counters of Interruptible are cut off at two, which is one
more than allowed.

Redirection: internal descriptors begin at 2 and the table ends at 5, so that
two saved descriptors, the terminal and a script compete for three places and
running out happens; redirections name 0, 1, 2 (internal) and 5 (beyond the
end). Two guards are an outer and an inner one; three redirections allow one of
them to redirect twice what the other one saved. Pipeline: the middle one of
three commands has pipes on both sides, and a write of three with `PipeBuf` 1
and a pipe of two is written in parts. Execution: a depth of two puts each
construct into each other one; counts up to two reach through both. Variables:
four contexts are the base, a function, its temporary assignments and those of a
command inside. One name is enough because names share nothing but the
contexts; the proofs are for any number of them. Algorithms: `Bits = 4` has every overflow there is; texts up to six
characters, words up to three, patterns and commands as the sets in
MCAlgorithms.tla say, chosen so that every production, operator and modifier
occurs in some input and meets its neighbours; `MaxEvents` and `MaxChanges`
bound the interference.

`CHECK_DEADLOCK FALSE` appears where the system may come to rest: the executor
is stalled when all tasks are done, the shell has exited, a pipeline is over,
an input cannot grow any more, or a bound is used up. Job list and job
control go on for ever, and there deadlock is checked.

### Fairness

* Executor: `run_until_stalled` keeps calling `step`, and a poll returns.
* Concurrent: `run_real` alternates between running the executor until it
  stalls and `select`. Strong fairness for `select` expresses that tasks which
  keep waking each other do not keep the loop from ever reaching it; `Poll` of
  a task that is due is weakly fair. Nothing is assumed of descriptors:
  completion is claimed for those that become and stay ready.
* TrapSet: `run_traps_for_caught_signals` is called after every command, its
  loop goes on, trap actions end. Nothing is assumed of the commands between.
* JobControl: a shell that waits goes on when it can. Children need not end.
* Pipeline: the shell and each child take a step when they can; the kernel
  schedules processes. A child that sleeps cannot until it is woken.

## 4. Proofs

The proof modules follow one pattern: lemmas about the operators of the
component; lemmas that the initial state satisfies the component's inductive
invariant `IInv` and that each action preserves it; the theorem that it is
invariant; and theorems about single properties as consequences. TLC has
checked the same `IInv` on the instances above before it was proved.

| Module | States that a run checks | Also |
|---|---|---|
| Executor | `NoLostWakeup`, `ImplementsScheduler` | `NoDuplicateWake`, `SendsOnce`, `NoResurrection` |
| Concurrent | `NoneLost`, `BlocksOnlyIfShared` | `Registered`, `ModeRestored` |
| TrapSet | `NoLostTrap` | `InSync`, `CaughtInSelect`, `StartupIgnoreSticks`, `CommandHasOrigin`, `ParentsOnlyUntouched`, `IgnoredUntilExec` |
| Interruptible (in ExecutorProofs) | `LossWindow` | `OnceUnlessNested` |
| JobList | `SuspendedFirst` | `PidsInSync`, `CurrentExists`, `PreviousExists`, `RestartsFromZero`, `ExtractCount` |
| JobControl | `NoMissedChild`, `LatestState`, `ForegroundAtInput`, `FollowsJobList` | `JobsAreChildren`, `NoStraySignal`, `PreviousExists`, `FinishedIsFinal` |
| Redirection | `InternalIntact`, `NoClobber`, `UndoRestores`, `LeakBounded` | |
| Pipeline | `Connected`, `SleepsJustly` | `PipeSetExact`, `StatusRight` |
| Execution | `LoopTarget`, `ErrexitExact`, `Unwinds` | `LoopStatus` |
| Variables (in ExecutionProofs) | `TemporaryUndone`, `ImplementsScopes` | `Normalized` |
| CommandSearch (in ExecutorProofs) | `NamesAgree` | |

*Executor*, for any finite or infinite set of tasks. `NoLostWakeup` is not
inductive by itself: one needs that a task not yet spawned occurs nowhere
(`UnbornUnknown`), that the running task has its future (`RunningIsLive`), and
that nothing is left when the executor is gone (`DeadIsEmpty`). In
`SchedulerRefinement` every step maps to a step of Scheduler or to none. The
only assumption is that `Null` is no task and that forwarded tasks are tasks.

*Concurrent*, for any sets of tasks, signals, descriptors and file descriptions. `Registered` (a
task that sleeps has left its waker where select looks) needs `Owned`: cells,
guards and lists belong to futures that wait, and no map holds a task that waits
for something else, so that waking one task cannot take away another one's
waker. `ModeRestored` and `BlocksOnlyIfShared` need `Guarded`: a description that
only one task uses, and no other process, is non-blocking. `SignalsReachTasks` has one hypothesis more,
`Cardinality(Signal) <= Slots`: `CAUGHT_SIGNALS` in `system/real.rs` has eight
slots, and if more different signals than that come in during one select the rest
is dropped (hazard at `real.rs:180`).

*Trap set*, for any set of signals, any dispositions and any mask at the start,
and any number of arrivals. That a signal caught for a trap is not lost
(`NoLostTrap`) rests on the agreement with the kernel: the disposition is the
one that trap and internal disposition together ask for (`InSync`), and what is
caught is blocked outside select and let in by it (`CaughtInSelect`). These in
turn need to know what entries there can be (`IgnoreIsInherited`,
`CommandHasOrigin`). The lemmas say what setting, peeking, entering a subshell
and installing a disposition do to one entry; each action is a few of them.
`IgnoredUntilExec` is about an interactive shell's defence against SIGINT, SIGTERM,
SIGQUIT and the signals that stop it. It follows from `InSync` and `Shield`: the
internal disposition of a signal that the shell defends itself against is not the
default. No trap command touches internal dispositions; `exec` does, and only a
failed one comes back.

*Interruptible built-ins*, for any set of signals with SIGINT in it. `BIInv`
says which lists exist at each point of the select (`ListsInTurn`) and, as long
as no built-in has waited for signals itself (`nested`), that a signal is in
one place only on its way to its trap (`OnePlace`). `NotHandledTwice` and the
action property `OnlyLossWindow` follow; the second needs `ListsInTurn` alone
and so covers nested waits too.

*Job list*, for any set of process IDs. `IInv` says of the record that the map
and the slab are inverse, the free list holds exactly the vacant indices below
the size, the current and the previous index are occupied when they must be,
and, in a shell that is not a subshell, suspended jobs are chosen first and
all jobs are its own. Lemmas state what `insert`, `remove`, `update_status` and
`set_current_job` do to such a record, and are used by each action.
`SuspendedTakePrecedence` is about shells that are no subshells, because in a
subshell the statement is false (`CurrentSuspended`). `ExtractVisitsAll` says that
the iterator of `extract_if` counts right: the length it keeps is the number of
jobs it has not visited, however many slots are vacant.

*Job control*, for any set of children. The lemmas about the job list come from
JobListProofs, instantiated with JobControl's list. `IInv` adds that jobs are
children (while SIGCHLD was not ignored at the start), that a child the list
calls finished is gone (`FinishedGone`), that the awaited child is one
(`AwaitedChild`), and who may have the terminal (`Terminal`). Process IDs are used again:
as long as the command in the foreground has the process ID of a finished job
(`Borrowed`), the list still speaks of the old child. `PreviousJobExists` is about
lists in which no suspended command has taken over a job (`revived`), since the
statement is false of others (`PreviousPromised`); `FinishedStaysFinished` names
the new children that may bring a finished job back to life. `JobsFollowJobList` is the refinement: every step changes the list as one step
of JobList does, or not at all, unless SIGCHLD was ignored or the step is such a
takeover.

*Redirections*, for any size of the table, any reserved range, any number of
nested commands and of redirections. `InternalIntact` is not inductive: that undoing
an inner guard leaves what an outer one relies on alone is true because an inner
frame neither redirects nor saves to such a descriptor (`Apart`), which is true
because `perform` refuses descriptors that are close-on-exec and saves into ones
that are free. `UndoRestores` speaks of one step that undoes a whole list in
reverse order. `Undoable` says when that works: nothing that was saved has been
redirected later, each descriptor saves for one entry, and the first entry of
each original knows the body it had at the beginning (`Restores`). `Untouched`
keeps track of that body until the original is redirected for the first time.
That the list is then undone is shown for the tables in between
(`UndoAllGoesThrough`, `AllUndone`): of the entries for which it were false take
the one undone first. `NoClobber` needs only that a file of somebody else is the
one that is about to be checked (`Foreign`). `LeaksAreFailures` compares the
descriptors no frame knows of before and after each action: a redirection that
fails after it saved its target adds one, and nothing else any, because what `Undo`
closes is all that its frame had saved.

*Pipelines*, for any number of commands, any programs, any `PipeBuf`
and any descriptors open at the start. `Placed` says of a table and a pipe
set that the ends of two neighbouring pipes are where the set says they are and
that everything else is the shell's own; `Ends` claims it of the shell and of each
child that has not connected yet. `Connected` follows through the closes and dups of
`move_to_stdin_stdout`, in whichever of 0 and 1 the ends happen to be.
`SleepsJustly` needs `Wakers`: who sleeps has a waker in the pipe it waits for, so
that whatever makes the pipe ready wakes it; and an end that is open nowhere
can be opened by nobody. `StatusOfPipeline` needs what the statuses so far
amount to (`Gathered`). The proof found an inaccuracy of an earlier version of
the model: `pipe` in a table with no free number at all.

*Execution*, for any set of constructs, nested to any depth, any operands of
break and continue and any number of signals. The code counts loops and looks
for conditions in `env.stack`, while a divert travels through the Rust call
stack; the invariant ties the two together. `Layered` says that `env.stack` is
made of layers, one for each construct, each being what the construct pushes in
its current phase. By induction over the layers (`LayersTell`) the stack up to
a construct has as many loops in reach as there are loops around the construct,
and has a condition if and only if a construct there is in one. `LoopTarget`
and `ErrexitExact` follow where a command is started; `HeldTargeted` keeps the
former true of a divert that waits while a trap action runs. `Unwinding` says of
a process that is to end where its divert is: on its way, held by a trap action,
or arrived, which leaves the EXIT trap; that combining the result of a trap
with that of the command never loses it is a property of the order of diverts
(`Combined`). `Unwinds` follows. The set of layers is infinite, so TLC
checked `IInv` with the only layers there can be, computed from the constructs.
The proof found a mistake in an earlier version of the model, which compared
diverts by a number that two of them could share if their counts were large.
`LoopStatus` needs `Noted`: while a loop looks at its condition it keeps the
status of its body, and a trap action that runs between two commands of the body
will give back the status it was started with (`GivesBack`); an interrupted action
does not, but its divert ends the loop.

*Variables*, for any names, any values, contexts nested to any depth and any number
of assignments; the only assumptions are that `NoValue` is no value and that the
empty list is a list of parameters. `Normalized` (each name's stack is in the
order of the contexts and mentions none that is gone) is what makes popping a
context a matter of the last element. `Undoable` says of each command that has
begun and each name nothing assigned for good since: below the command's context
the name still means what it meant at the start (`VisibleBelow`). An assignment for
good takes the topmost variable for the one it assigns to, even if that is a
command's temporary copy, and drops the copies; `CopiesRespect` says that a copy of
a read-only variable is read-only and has its value, so that looking at the copy is
enough. Every action has one of seven effects (`Effect`: none, a variable set, one
removed, parameters set, a command's context opened, a function's, the last one
popped), and the invariant and the refinement are both shown by effect.
`VariablesAreScopes` is the whole refinement: the initial state and every step map
to the stack of scopes.

*Command search*, for any kernel, any shells, files, names and directories, and a
PATH of any length. `Outcome` is what is run if nothing changes between the search
and the execution. `MeaningIs`: it is the meaning of the name, that is, the bearer
that comes first. Shells that differ in what a search does not look at (`Alike`)
find the same, and the searches of `command`, `command -p` and `exec` are each a
search in such a shell. For `command -v`, what is printed is itself a name, and
looked up again it means the same (`NormalizedIs`): this needs of the kernel that
`./x` and `$PWD/x` are the file `x`, and of `PWD` that it is absolute.

Only model-checked: all liveness, that is `WokenIsPolled`, `ResultWakesReceiver`,
`OwedIsRun`, `IOCompletes`, `SleepCompletes`, `WaitEnds`, `Terminates` and the
fairness in `ImplementsScheduler` (fairness and ENABLED are beyond the prover);
and everything in Algorithms except `NamesAgree`: its modules are recursive, and
recursive operators and induction over data are out of the prover's reach.

## 5. Not modelled

* `Executor::step` from inside a poll; a panic in a future.
* SIGKILL and SIGSTOP in the trap set, errors of `sigaction` for other signals.
  In TrapSet a signal with the default action that is not blocked ends the process,
  and with it the behaviour.
* `read_all` and `write_all` are several reads and writes; how much is
  transferred is not modelled in Concurrent, only whether the descriptor is
  ready.
* JobControl: a shell without terminal or monitor option, `kill` with process
  IDs, several operands at once, names and formats of jobs.
* Execution: traps set inside a subshell, more than one status of failure.
* Variables: quirks (LINENO, RANDOM), printing, arrays as values.
* Grammar: IO numbers, the expansion of arguments of declaration utilities, the
  portable mode. WordLexer: what follows `${` and `$(`, dollar-single-quotes.
* Phrases: command substitution and arithmetic as units, tildes with user
  names, `$-`, `$?`, `$$`, `$0`. Patterns: multi-character symbols in trims.
* WorkingDirectory: the steps of one cd are one action; other processes act
  between commands.
* CommandSearch: forks that fail, files that change between the search and the
  execution, empty names.
* The processes, signals and file system of the virtual system. They are a double
  for tests that departs from a kernel on purpose or by neglect (a killed process
  keeps its task and its descriptors), so that the kernel's part of JobControl and
  TrapSet follows the real one.
* Input, prompts, error messages and their layout, the wrappers of system
  calls, `ulimit`, `umask`, `times` and the like, arguments and files of
  start-up: I/O or formatting, as `PROJECT.json` says of each.

The map covers 14,546 of the 115,093 lines of Rust in the repository, that is
12.6 %. About half of all lines are unit tests inside the source files and a
fifth are comments; of the other lines about 28 % are covered. Much of what is
left is the simulated kernel the tests run on, printing and messages, the
boilerplate of traits and of type parameters, and wrappers of system calls, in
which there is no behaviour to state a property of.

## 6. Plan

What can be proved of the properties above is proved. Left to model: `umask`'s
symbolic modes, the arguments of start-up, the remaining options of `set`,
buffered input.
