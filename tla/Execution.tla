------------------------------ MODULE Execution ------------------------------
(***************************************************************************)
(* How commands nest, fail and divert: yash-semantics/src/command and the  *)
(* built-ins break, continue, return, exit, eval, `.` and exec.            *)
(*                                                                         *)
(* Executing a command returns Continue or Break(divert); every construct  *)
(* that encloses the command decides what becomes of the divert, while     *)
(* guards push and pop the frames of env.stack, which break, errexit and   *)
(* the traps consult.  The program is not a parameter: whenever a list may *)
(* run its next item, any command that fits may be that item, so that the  *)
(* behaviours are those of all programs nested at most MaxDepth deep.      *)
(*                                                                         *)
(* `acts` is the Rust call stack (the constructs being executed), `frames` *)
(* is env.stack, and `flow` is what is happening at the top of `acts`:     *)
(*   "list"     its list may run the next item, or end;                    *)
(*   "command"  Command::execute has the result of its command and is      *)
(*              about to run the traps of the signals caught meanwhile;    *)
(*   "divert"   a divert has reached the construct;                        *)
(*   "end"      the shell has finished.                                    *)
(* A subshell runs on top of its parent, which waits for it.               *)
(***************************************************************************)
EXTENDS Integers, Sequences, FiniteSets

CONSTANTS
    Constructs,     \* the constructs that may be nested
    MaxDepth,       \* how deep they may be nested
    MaxCount,       \* the greatest operand of break and continue
    MaxSignals      \* how many signals may be caught

Loops == {"while", "until", "for"}
ReadEvalLoops == {"main", "eval", "dot", "trap", "exittrap"}
AllConstructs ==
    Loops \cup {"if", "case", "not", "andor", "function", "eval", "dot", "subshell"}

\* Exit statuses.  Nothing here depends on which failure it is: FAILURE, ERROR,
\* 126 and above and the status of an interrupted command are all one.
SUCCESS == 0
FAILURE == 1
Statuses == {SUCCESS, FAILURE}
None == -1

ASSUME ExecutionAssumption ==
    /\ Constructs \subseteq AllConstructs
    /\ MaxDepth \in Nat /\ MaxCount \in Nat /\ MaxSignals \in Nat

VARIABLES
    acts,           \* the constructs being executed, the outermost first
    frames,         \* env.stack
    flow,           \* what is happening at the top of acts
    status,         \* env.exit_status
    errexit,        \* the ErrExit option
    interactive,    \* the Interactive option
    caught,         \* signals caught and not handled: "trap", "int"
    signals,        \* how many signals have been caught
    doomed          \* history: why a process is unwinding, if it is

vars == <<acts, frames, flow, status, errexit, interactive, caught, signals, doomed>>

-----------------------------------------------------------------------------
(* Results: Continue, or Break with a Divert.                              *)

Continue == [d |-> "none", n |-> 0, s |-> None]
Divert(d, n, s) == [d |-> d, n |-> n, s |-> s]

\* Divert derives Ord: by variant, then by count or exit status.
Rank(d) == CASE d = "none" -> 0 [] d = "continue" -> 1 [] d = "break" -> 2
             [] d = "return" -> 3 [] d = "interrupt" -> 4 [] d = "exit" -> 5
             [] d = "abort" -> 6
AtLeast(r, q) ==
    \/ Rank(r.d) > Rank(q.d)
    \/ Rank(r.d) = Rank(q.d) /\ (r.n > q.n \/ (r.n = q.n /\ r.s >= q.s))
Greater(r, q) == IF AtLeast(r, q) THEN r ELSE q

\* What Command::execute makes of its command's result and the traps' result.
\* A wrong version: the result of the traps wins.
CombinedLast(main, trap) == IF trap.d = "none" THEN main ELSE trap
Combined(main, trap) ==
    CASE trap.d = "none" -> main
      [] trap.d # "none" /\ main.d = "none" -> trap
      [] OTHER -> Greater(main, trap)

-----------------------------------------------------------------------------
(* The stack of frames.                                                    *)

Top == acts[Len(acts)]
Below == SubSeq(acts, 1, Len(acts) - 1)
Frames(fs) == {fs[i] : i \in 1..Len(fs)}
Drop(fs, n) == SubSeq(fs, 1, Len(fs) - n)

\* A wrong version: frames that start a new context do not hide outer loops.
LoopCountAll(fs, max) ==
    LET n == Cardinality({i \in 1..Len(fs) : fs[i] = "Loop"})
    IN  IF n < max THEN n ELSE max
LoopCount(fs, max) ==
    LET hidden == {i \in 1..Len(fs) : fs[i] \in {"Subshell", "DotScript", "SignalTrap", "ExitTrap"}}
        n == Cardinality({i \in 1..Len(fs) : fs[i] = "Loop" /\ \A j \in hidden : j < i})
    IN  IF n < max THEN n ELSE max

InTrap ==
    \E i \in 1..Len(frames) : /\ frames[i] = "SignalTrap"
                              /\ \A j \in i..Len(frames) : frames[j] # "Subshell"

IsInteractive == interactive /\ "Subshell" \notin Frames(frames)

ErrexitIsApplicable(e, fs) == e /\ "Condition" \notin Frames(fs)

\* apply_errexit, for exit status s with the frames fs.
ApplyErrexit(s, fs) ==
    IF s # SUCCESS /\ ErrexitIsApplicable(errexit, fs)
    THEN Divert("exit", 0, None) ELSE Continue

\* The frames a construct has pushed while it is in a phase.
\* A wrong version: the condition of an and-or list lasts to its end.
FramesOfLong(kind, phase) ==
    CASE kind \in {"while", "until"} ->
            IF phase = "cond" THEN <<"Loop", "Condition">> ELSE <<"Loop">>
      [] kind = "for" -> <<"Loop">>
      [] kind = "if" -> IF phase = "cond" THEN <<"Condition">> ELSE <<>>
      [] kind \in {"andor", "not"} -> <<"Condition">>
      [] kind = "eval" -> <<"Builtin">>
      [] kind = "dot" -> <<"Builtin", "DotScript">>
      [] kind = "subshell" -> <<"Subshell">>
      [] kind = "trap" -> <<"SignalTrap">>
      [] kind = "exittrap" -> <<"ExitTrap">>
      [] OTHER -> <<>>
FramesOf(kind, phase) ==
    CASE kind \in {"while", "until"} ->
            IF phase = "cond" THEN <<"Loop", "Condition">> ELSE <<"Loop">>
      [] kind = "for" -> <<"Loop">>
      [] kind \in {"if", "andor"} -> IF phase = "cond" THEN <<"Condition">> ELSE <<>>
      [] kind = "not" -> <<"Condition">>
      [] kind = "eval" -> <<"Builtin">>
      [] kind = "dot" -> <<"Builtin", "DotScript">>
      [] kind = "subshell" -> <<"Subshell">>
      [] kind = "trap" -> <<"SignalTrap">>
      [] kind = "exittrap" -> <<"ExitTrap">>
      [] OTHER -> <<>>

-----------------------------------------------------------------------------
(* Moving between the layers.  saved is the exit status a construct keeps  *)
(* for itself and, for a subshell, that of its parent, whose ErrExit       *)
(* option is errexit; held is the result a trap action was started after   *)
(* (for the EXIT trap, the one that ended the process, as history), and    *)
(* last a history field: the exit status of the last command of the loop   *)
(* body, with jumped telling whether `continue` ended a round.             *)

Act(kind, phase, saved, held) ==
    [kind |-> kind, phase |-> phase, ran |-> FALSE, saved |-> saved, held |-> held,
     last |-> None, jumped |-> FALSE, errexit |-> kind = "subshell" /\ errexit]

At(where, r) == [at |-> where, r |-> r, simple |-> FALSE, promise |-> None, jumped |-> FALSE]
Ready == At("list", Continue)

\* The process that is running: its innermost subshell, or the main shell.
Process(as) ==
    CHOOSE i \in 1..Len(as) :
        /\ as[i].kind \in {"main", "subshell"}
        /\ \A j \in (i + 1)..Len(as) : as[j].kind # "subshell"

\* The process stops running its commands from here on.
Dooms(r) == r.d \in {"interrupt", "exit", "abort"}
Doom(r, why) ==
    doomed' = IF /\ Dooms(r) /\ doomed = [p |-> 0, why |-> "none"]
                 /\ acts[Process(acts)].phase # "exit"
              THEN [p |-> Process(acts), why |-> why] ELSE doomed

\* The traps that are due run before a read-eval loop runs its next line.
TrapDue == caught # {} /\ "Subshell" \notin Frames(frames)
CanRun ==
    /\ flow.at = "list"
    /\ Top.phase # "exit"
    /\ Top.kind \in ReadEvalLoops => ~(TrapDue /\ ("int" \in caught \/ ~InTrap))
    /\ Top.kind = "not" => ~Top.ran

Ran(s) == [acts EXCEPT ![Len(acts)] =
              [Top EXCEPT !.ran = TRUE,
                          !.last = IF Top.kind \in Loops /\ Top.phase = "body"
                                   THEN s ELSE Top.last]]

\* A simple command has finished with exit status s and result r.
SimpleReturns(s, r, why) ==
    /\ CanRun
    /\ status' = s
    /\ flow' = [At("command", r) EXCEPT !.simple = (why = "errexit")]
    /\ acts' = Ran(s)
    /\ Doom(r, why)
    /\ UNCHANGED <<frames, interactive, caught, signals>>

-----------------------------------------------------------------------------
(* Simple commands.                                                        *)

\* An external utility, a built-in that is not special, an assignment, a
\* function definition or an asynchronous command.
SimpleCommand(s) ==
    SimpleReturns(s, ApplyErrexit(s, frames), "errexit") /\ UNCHANGED errexit

\* An expansion or an assignment fails.
ErrorResult ==
    Divert(IF ErrexitIsApplicable(errexit, frames) THEN "exit" ELSE "interrupt", 0, FAILURE)
ExpansionError == SimpleReturns(status, ErrorResult, "error") /\ UNCHANGED errexit

\* A special built-in, or a redirection of one, fails; or exit refuses to
\* leave suspended jobs behind.
SpecialError ==
    SimpleReturns(FAILURE, Divert("interrupt", 0, None), "error") /\ UNCHANGED errexit

\* A subshell cannot be started.
StartError ==
    SimpleReturns(status, Divert("interrupt", 0, FAILURE), "start") /\ UNCHANGED errexit

\* An external utility or a pipeline is suspended, or killed by SIGINT, and the
\* shell is interactive.
CommandHalts ==
    IsInteractive /\ SimpleReturns(status, Divert("interrupt", 0, FAILURE), "sigint")
        /\ UNCHANGED errexit

BreakOrContinue(d, max) ==
    LET count == LoopCount(frames \o <<"Builtin">>, max)
    IN  IF count = 0
        THEN SimpleReturns(FAILURE, Divert("interrupt", 0, None), "error")
        ELSE SimpleReturns(SUCCESS, Divert(d, count - 1, None), "none")
BreakBuiltin(max) == BreakOrContinue("break", max) /\ UNCHANGED errexit
ContinueBuiltin(max) == BreakOrContinue("continue", max) /\ UNCHANGED errexit

ReturnBuiltin(s) == SimpleReturns(status, Divert("return", 0, s), "none") /\ UNCHANGED errexit
ExitBuiltin(s) == SimpleReturns(status, Divert("exit", 0, s), "exit") /\ UNCHANGED errexit

\* exec cannot find or execute the utility.
ExecFails ==
    /\ SimpleReturns(FAILURE, IF IsInteractive THEN ApplyErrexit(FAILURE, frames)
                              ELSE Divert("abort", 0, None), "abort")
    /\ UNCHANGED errexit

\* set -e and set +e.
SetErrexit(e) ==
    /\ e # errexit
    /\ SimpleReturns(SUCCESS, Continue, "none")
    /\ errexit' = e

-----------------------------------------------------------------------------
(* Entering a construct.                                                   *)

FirstPhase(kind) == IF kind \in {"while", "until", "if", "andor", "not"} THEN "cond" ELSE "body"

Enter(kind) ==
    /\ CanRun /\ Len(acts) <= MaxDepth
    /\ acts' = Append([acts EXCEPT ![Len(acts)].ran = TRUE],
                      Act(kind, FirstPhase(kind), IF kind = "subshell" THEN status ELSE SUCCESS,
                          Continue))
    /\ frames' = frames \o FramesOf(kind, FirstPhase(kind))
    /\ UNCHANGED <<flow, status, errexit, interactive, caught, signals, doomed>>

\* A for loop over no values, or a case command no pattern of which matches.
NothingRuns == SimpleReturns(SUCCESS, Continue, "none") /\ UNCHANGED errexit

-----------------------------------------------------------------------------
(* Leaving a construct, or going on to its next part.                      *)

\* The construct goes on: its next list starts.
GoOn(phase, saved, jumped) ==
    /\ acts' = [acts EXCEPT ![Len(acts)] =
                   [Top EXCEPT !.phase = phase, !.ran = FALSE, !.saved = saved,
                               !.jumped = Top.jumped \/ jumped]]
    /\ frames' = Drop(frames, Len(FramesOf(Top.kind, Top.phase))) \o FramesOf(Top.kind, phase)
    /\ flow' = Ready
    /\ UNCHANGED <<errexit, interactive, caught, signals>>

\* The construct ends, and its command returns r with exit status s.
Leave(s, r, simple) ==
    /\ acts' = Below
    /\ frames' = Drop(frames, Len(FramesOf(Top.kind, Top.phase)))
    /\ status' = s
    /\ flow' = [At("command", r) EXCEPT
                   !.simple = simple, !.jumped = Top.jumped,
                   !.promise = IF /\ r.d = "none" /\ Top.kind \in Loops
                                  /\ ~(flow.at = "divert" /\ Top.phase = "cond")
                               THEN (IF Top.last = None THEN SUCCESS ELSE Top.last) ELSE None]
    /\ UNCHANGED <<interactive, caught, signals>>

\* The construct ends and is not a command of its own: a negated pipeline or
\* an and-or list returns r to the list it is an item of.
LeaveItem(s, r) ==
    /\ acts' = [Below EXCEPT ![Len(Below)].last =
                   IF Below[Len(Below)].kind \in Loops /\ Below[Len(Below)].phase = "body"
                   THEN s ELSE @]
    /\ frames' = Drop(frames, Len(FramesOf(Top.kind, Top.phase)))
    /\ status' = s
    /\ flow' = At(IF r.d = "none" THEN "list" ELSE "divert", r)
    /\ UNCHANGED <<interactive, caught, signals>>

ListEnds == flow.at = "list" /\ Top.ran /\ UNCHANGED doomed

Expected(kind) == kind = "while"

\* Loop::iterate
EndLoopCondition ==
    /\ Top.kind \in {"while", "until"} /\ Top.phase = "cond" /\ ListEnds
    /\ IF (status = SUCCESS) = Expected(Top.kind)
       THEN GoOn("body", Top.saved, FALSE) /\ UNCHANGED status
       ELSE Leave(Top.saved, Continue, FALSE) /\ UNCHANGED errexit
EndLoopBody ==
    /\ Top.kind \in {"while", "until"} /\ Top.phase = "body" /\ ListEnds
    /\ GoOn("cond", status, FALSE) /\ UNCHANGED status

\* The for loop has another value, or none; the variable may be read-only.
NextValue == Top.kind = "for" /\ ListEnds /\ GoOn("body", Top.saved, FALSE) /\ UNCHANGED status
EndFor == Top.kind = "for" /\ ListEnds /\ Leave(status, Continue, FALSE) /\ UNCHANGED errexit
ForAssignError ==
    /\ Top.kind = "for" /\ flow.at = "list" /\ Top.ran
    /\ Leave(status, ErrorResult, FALSE) /\ UNCHANGED errexit
    /\ Doom(ErrorResult, "error")

\* The branch falls through or the next pattern is tried, or the case command
\* is over; a last branch without commands succeeds.
EndCase ==
    /\ Top.kind = "case" /\ ListEnds
    /\ \/ GoOn("body", Top.saved, FALSE) /\ UNCHANGED status
       \/ \E s \in {status, SUCCESS} : Leave(s, Continue, FALSE) /\ UNCHANGED errexit

EndIfCondition ==
    /\ Top.kind = "if" /\ Top.phase = "cond" /\ ListEnds
    /\ \/ status = SUCCESS /\ GoOn("body", Top.saved, FALSE) /\ UNCHANGED status
       \/ status # SUCCESS /\ GoOn("cond", Top.saved, FALSE) /\ UNCHANGED status      \* elif
       \/ status # SUCCESS /\ GoOn("body", Top.saved, FALSE) /\ UNCHANGED status      \* else
       \/ status # SUCCESS /\ Leave(SUCCESS, Continue, FALSE) /\ UNCHANGED errexit
EndIfBody ==
    Top.kind = "if" /\ Top.phase = "body" /\ ListEnds
        /\ Leave(status, Continue, FALSE) /\ UNCHANGED errexit

EndNot ==
    /\ Top.kind = "not" /\ ListEnds
    /\ LeaveItem(IF status = SUCCESS THEN FAILURE ELSE SUCCESS, Continue) /\ UNCHANGED errexit

\* execute_conditional_pipeline: the next pipeline runs or is skipped.
EndAndOrCondition(runs) ==
    /\ Top.kind = "andor" /\ Top.phase = "cond" /\ ListEnds
    /\ \/ runs /\ GoOn("cond", Top.saved, FALSE) /\ UNCHANGED status
       \/ runs /\ GoOn("body", Top.saved, FALSE) /\ UNCHANGED status
       \/ ~runs /\ LeaveItem(status, Continue) /\ UNCHANGED errexit
EndAndOr ==
    Top.kind = "andor" /\ Top.phase = "body" /\ ListEnds
        /\ LeaveItem(status, Continue) /\ UNCHANGED errexit

\* A function, eval or `.` ends: it was run as a simple command.
AfterSimple(s) == ApplyErrexit(s, Drop(frames, Len(FramesOf(Top.kind, Top.phase))))
EndSimple ==
    /\ Top.kind \in {"function", "eval", "dot"} /\ flow.at = "list"
    /\ Top.kind = "function" => Top.ran
    /\ LET s == IF Top.ran THEN status ELSE SUCCESS
       IN  Leave(s, AfterSimple(s), TRUE) /\ Doom(AfterSimple(s), "errexit")
    /\ UNCHANGED errexit

-----------------------------------------------------------------------------
(* A divert reaches a construct.                                           *)

Diverted == flow.at = "divert" /\ UNCHANGED doomed
R == flow.r

DivertLoop ==
    /\ Top.kind \in Loops /\ Diverted
    /\ \/ R.d = "break" /\ R.n = 0 /\ Leave(status, Continue, FALSE) /\ UNCHANGED errexit
       \/ /\ R.d = "continue" /\ R.n = 0 /\ Top.kind = "for"
          /\ \/ GoOn("body", Top.saved, TRUE) /\ UNCHANGED status
             \/ Leave(status, Continue, FALSE) /\ UNCHANGED errexit
       \/ /\ R.d = "continue" /\ R.n = 0 /\ Top.kind # "for"
          /\ GoOn("cond", Top.saved, Top.phase = "body") /\ UNCHANGED status
       \/ /\ R.d \in {"break", "continue"} /\ R.n > 0
          /\ Leave(status, [R EXCEPT !.n = @ - 1], FALSE) /\ UNCHANGED errexit
       \/ /\ R.d \notin {"break", "continue"}
          /\ Leave(status, R, FALSE) /\ UNCHANGED errexit

DivertIf == Top.kind \in {"if", "case"} /\ Diverted /\ Leave(status, R, FALSE) /\ UNCHANGED errexit

DivertItem == Top.kind \in {"not", "andor"} /\ Diverted /\ LeaveItem(status, R) /\ UNCHANGED errexit

\* execute_function_body and consume_return: what a function or a dot script
\* keeps to itself.
Consumed(kind, r) == kind \in {"function", "dot"} /\ r.d = "return"
DivertSimple ==
    /\ Top.kind \in {"function", "eval", "dot"} /\ flow.at = "divert"
    /\ IF Consumed(Top.kind, R)
       THEN LET s == IF R.s = None THEN status ELSE R.s
            IN  Leave(s, AfterSimple(s), TRUE) /\ Doom(AfterSimple(s), "errexit")
       ELSE Leave(status, R, FALSE) /\ UNCHANGED doomed
    /\ UNCHANGED errexit

-----------------------------------------------------------------------------
(* Traps.                                                                  *)

\* Where caught signals are looked at: after a command, and before a line.
AtTrapPoint ==
    \/ flow.at = "command"
    \/ flow.at = "list" /\ Top.kind \in ReadEvalLoops /\ Top.phase # "exit"

\* A signal with a trap, or SIGINT with the default action in an interactive
\* shell, has been caught.  When it came makes no difference before it is
\* looked at.
Catch(what) ==
    /\ AtTrapPoint /\ "Subshell" \notin Frames(frames) /\ signals < MaxSignals
    /\ what = "int" => interactive
    /\ caught' = caught \cup {what}
    /\ signals' = signals + 1
    /\ UNCHANGED <<acts, frames, flow, status, errexit, interactive, doomed>>

\* run_traps_for_caught_signals has nothing to run (in a subshell, whose
\* traps have been reset, or in a trap action).
NothingToRun == ~TrapDue \/ ("int" \notin caught /\ InTrap)

\* The command's result goes to its list.
CommandReturns ==
    /\ flow.at = "command" /\ NothingToRun
    /\ flow' = At(IF R.d = "none" THEN "list" ELSE "divert", R)
    /\ acts' = Ran(status)
    /\ UNCHANGED <<frames, status, errexit, interactive, caught, signals, doomed>>

\* SIGINT with the default action interrupts the command.
InterruptCommand ==
    /\ AtTrapPoint /\ TrapDue /\ "int" \in caught
    /\ LET r == Combined(R, Divert("interrupt", 0, FAILURE))
       IN  flow' = At("divert", r) /\ Doom(r, "sigint")
    /\ acts' = IF flow.at = "command" THEN Ran(status) ELSE acts
    /\ caught' = caught \ {"int"}
    /\ UNCHANGED <<frames, status, errexit, interactive, signals>>

\* run_trap: the command's own result waits below the action.
RunTrap ==
    /\ AtTrapPoint /\ TrapDue /\ caught = {"trap"} /\ ~InTrap
    /\ acts' = Append(IF flow.at = "command" THEN Ran(status) ELSE acts,
                      Act("trap", "body", status, R))
    /\ frames' = frames \o FramesOf("trap", "body")
    /\ flow' = Ready
    /\ caught' = {}
    /\ UNCHANGED <<status, errexit, interactive, signals, doomed>>

\* run_trap when the action is over: the exit status is restored unless the
\* action was interrupted, whose own status is replaced by the current one.
TrapStatus(r) == IF r.d = "interrupt" THEN status ELSE Top.saved
TrapResult(r) == IF r.d = "interrupt" /\ r.s # None THEN [r EXCEPT !.s = status] ELSE r

LeaveTrap(r) ==
    LET q == Combined(Top.held, TrapResult(r))
    IN  /\ acts' = Below
        /\ frames' = Drop(frames, 1)
        /\ status' = TrapStatus(r)
        /\ flow' = At(IF q.d = "none" THEN "list" ELSE "divert", q)
        /\ UNCHANGED <<errexit, interactive, caught, signals, doomed>>
EndTrap == Top.kind = "trap" /\ ListEnds /\ LeaveTrap(Continue)
DivertTrap == Top.kind = "trap" /\ flow.at = "divert" /\ LeaveTrap(R)

-----------------------------------------------------------------------------
(* The end of a process: the result is applied and the EXIT trap runs.     *)

ApplyResult(s, r) == IF r.s = None THEN s ELSE r.s

RunExitTrap(s, r) ==
    /\ acts' = Append([acts EXCEPT ![Len(acts)].phase = "exit"], Act("exittrap", "body", s, r))
    /\ frames' = frames \o FramesOf("exittrap", "body")
    /\ flow' = Ready

EndProcess(r, runsTrap) ==
    LET s == ApplyResult(status, r)
    IN  /\ status' = s
        /\ IF runsTrap THEN RunExitTrap(s, r)
           ELSE /\ acts' = [acts EXCEPT ![Len(acts)].phase = "exit"]
                /\ flow' = Ready
                /\ UNCHANGED frames
        /\ UNCHANGED <<errexit, interactive, caught, signals, doomed>>

\* run_as_shell_process
EndMain(runsTrap) ==
    /\ Top.kind = "main" /\ Top.phase = "body" /\ flow.at = "list"
    /\ EndProcess(IF Top.ran THEN Continue ELSE Divert("none", 0, SUCCESS), runsTrap)
DivertMain(runsTrap) ==
    /\ Top.kind = "main" /\ flow.at = "divert"
    /\ ~(R.d = "interrupt" /\ interactive)
    /\ R.d = "abort" => ~runsTrap
    /\ EndProcess(R, runsTrap)

\* The interactive read-eval loop recovers.
Recover ==
    /\ Top.kind = "main" /\ flow.at = "divert" /\ R.d = "interrupt" /\ interactive
    /\ status' = ApplyResult(status, R)
    /\ flow' = Ready
    /\ doomed' = [p |-> 0, why |-> "none"]
    /\ UNCHANGED <<acts, frames, errexit, interactive, caught, signals>>

\* subshell_main
EndSubshell(runsTrap) ==
    Top.kind = "subshell" /\ Top.phase = "body" /\ ListEnds /\ EndProcess(Continue, runsTrap)
DivertSubshell(runsTrap) ==
    Top.kind = "subshell" /\ flow.at = "divert" /\ EndProcess(R, runsTrap)

\* run_exit_trap applies the result of the action.
LeaveExitTrap(r) ==
    /\ acts' = Below
    /\ frames' = Drop(frames, 1)
    /\ status' = ApplyResult(TrapStatus(r), TrapResult(r))
    /\ flow' = Ready
    /\ UNCHANGED <<errexit, interactive, caught, signals, doomed>>
EndExitTrap == Top.kind = "exittrap" /\ ListEnds /\ LeaveExitTrap(Continue)
DivertExitTrap == Top.kind = "exittrap" /\ flow.at = "divert" /\ LeaveExitTrap(R)

ExitMain ==
    /\ Top.kind = "main" /\ Top.phase = "exit" /\ flow.at = "list"
    /\ flow' = At("end", Continue)
    /\ UNCHANGED <<acts, frames, status, errexit, interactive, caught, signals, doomed>>

\* The parent goes on, its options unchanged, with exit status s and result r.
ParentGoesOn(s, r, why) ==
    /\ Top.kind = "subshell" /\ flow.at = "list"
    /\ acts' = Below /\ frames' = Drop(frames, 1)
    /\ status' = s /\ errexit' = Top.errexit
    /\ flow' = [At("command", r) EXCEPT !.simple = (why = "errexit")]
    /\ doomed' = IF Dooms(r) THEN [p |-> Process(Below), why |-> why]
                 ELSE IF doomed.p = Len(acts) THEN [p |-> 0, why |-> "none"] ELSE doomed
    /\ UNCHANGED <<interactive, caught, signals>>

AfterSubshell(s) ==
    IF s # SUCCESS /\ ErrexitIsApplicable(Top.errexit, Drop(frames, 1))
    THEN Divert("exit", 0, None) ELSE Continue

\* The parent takes the exit status of the subshell.
ExitSubshell ==
    Top.phase = "exit" /\ ParentGoesOn(status, AfterSubshell(status), "errexit")

\* A signal has killed or suspended the subshell. What it was doing makes no
\* difference to the parent, so that it is enough to look at it between its
\* own commands. handle_job_status may interrupt an interactive shell, whose
\* exit status is then left alone.
SubshellHalts ==
    \/ ParentGoesOn(FAILURE, AfterSubshell(FAILURE), "errexit")
    \/ /\ interactive /\ "Subshell" \notin Frames(Drop(frames, 1))
       /\ ParentGoesOn(Top.saved, Divert("interrupt", 0, FAILURE), "sigint")

-----------------------------------------------------------------------------
Init ==
    /\ acts = <<Act("main", "body", SUCCESS, Continue)>>
    /\ frames = <<>>
    /\ flow = Ready
    /\ status = SUCCESS
    /\ errexit \in BOOLEAN /\ interactive \in BOOLEAN
    /\ caught = {} /\ signals = 0
    /\ doomed = [p |-> 0, why |-> "none"]

Leaf ==
    \/ \E s \in Statuses : SimpleCommand(s)
    \/ \E s \in {None, FAILURE} : ReturnBuiltin(s) \/ ExitBuiltin(s)
    \/ \E n \in 1..MaxCount : BreakBuiltin(n) \/ ContinueBuiltin(n)
    \/ \E e \in BOOLEAN : SetErrexit(e)
    \/ ExpansionError \/ SpecialError \/ StartError \/ CommandHalts \/ ExecFails \/ NothingRuns

ConstructStep ==
    \/ \E k \in Constructs : Enter(k)
    \/ EndLoopCondition \/ EndLoopBody \/ NextValue \/ EndFor \/ ForAssignError \/ EndCase
    \/ EndIfCondition \/ EndIfBody \/ EndNot
    \/ \E runs \in BOOLEAN : EndAndOrCondition(runs)
    \/ EndAndOr \/ EndSimple
    \/ DivertLoop \/ DivertIf \/ DivertItem \/ DivertSimple

TrapStep ==
    \/ \E what \in {"trap", "int"} : Catch(what)
    \/ CommandReturns \/ InterruptCommand \/ RunTrap \/ EndTrap \/ DivertTrap

ProcessStep ==
    \/ \E runsTrap \in BOOLEAN :
          EndMain(runsTrap) \/ DivertMain(runsTrap) \/ EndSubshell(runsTrap) \/ DivertSubshell(runsTrap)
    \/ Recover \/ EndExitTrap \/ DivertExitTrap \/ ExitMain \/ ExitSubshell \/ SubshellHalts

Next == Leaf \/ ConstructStep \/ TrapStep \/ ProcessStep

Spec == Init /\ [][Next]_vars

-----------------------------------------------------------------------------
(* Properties.                                                             *)

Results ==
    [d : {"none", "continue", "break", "return", "interrupt", "exit", "abort"},
     n : 0..MaxCount, s : Statuses \cup {None}]
Acts ==
    [kind : AllConstructs \cup ReadEvalLoops, phase : {"cond", "body", "exit"},
     ran : BOOLEAN, saved : Statuses, held : Results,
     last : Statuses \cup {None}, jumped : BOOLEAN, errexit : BOOLEAN]
FrameTypes ==
    {"Loop", "Condition", "Subshell", "Builtin", "DotScript", "SignalTrap", "ExitTrap"}
Flows ==
    [at : {"list", "command", "divert", "end"}, r : Results, simple : BOOLEAN,
     promise : Statuses \cup {None}, jumped : BOOLEAN]
TypeOK ==
    /\ acts \in Seq(Acts) /\ frames \in Seq(FrameTypes) /\ flow \in Flows
    /\ status \in Statuses
    /\ errexit \in BOOLEAN /\ interactive \in BOOLEAN
    /\ caught \subseteq {"trap", "int"} /\ signals \in 0..MaxSignals
    /\ doomed \in [p : Nat, why : {"none", "errexit", "error", "exit", "abort", "sigint", "start"}]

\* The loops around the k-th construct, itself included, that a break in it can
\* reach.
Barriers == {"main", "dot", "trap", "exittrap", "subshell"}
Around(as, k) ==
    {i \in 1..k : as[i].kind \in Loops /\ \A j \in i..k : as[j].kind \notin Barriers}

Targeted(r, as, k) == r.d \in {"break", "continue"} => Cardinality(Around(as, k)) > r.n

\* A break or continue always has the loop it is meant for around it, within
\* the same function calls, evals and traps: the count that break computed
\* from env.stack is right for the constructs the divert then passes, and no
\* such divert ever leaves a trap action, a dot script or a subshell.
LoopTarget == flow.at \in {"command", "divert"} => Targeted(R, acts, Len(acts))

\* A failing simple command ends the shell if and only if errexit is on and
\* the command is not in a condition, anywhere up the call stack: neither the
\* last pipeline of an and-or list nor the body of a loop or an if is exempt.
ErrexitExact ==
    (flow.at = "command" /\ flow.simple) =>
        (R.d = "exit" <=> /\ status # SUCCESS /\ errexit
                          /\ \A i \in 1..Len(acts) : acts[i].phase # "cond")

\* Once a process has been told to exit, or a command line to be interrupted,
\* no further command of it runs, but for the actions of traps: no function,
\* loop, eval, dot script or trap swallows the divert.
Unwinds ==
    (doomed.p # 0 /\ flow.at = "list" /\ Top.phase # "exit" /\ Process(acts) = doomed.p) =>
        \E i \in doomed.p..Len(acts) : acts[i].kind \in {"trap", "exittrap"}

\* A loop's exit status is that of the last command of its body, or zero if
\* the body never ran, unless a continue ended a round.
LoopStatus == (flow.promise # None /\ ~flow.jumped) => status = flow.promise

-----------------------------------------------------------------------------
(* The inductive invariant.                                                *)

\* lay tells for each construct what the stack was after its frames had been
\* pushed.
Laid(lay) ==
    /\ lay[0] = <<>> /\ lay[Len(acts)] = frames
    /\ \A i \in 1..Len(acts) : lay[i] = lay[i - 1] \o FramesOf(acts[i].kind, acts[i].phase)

Layered == \E lay \in [0..Len(acts) -> Seq(FrameTypes)] : Laid(lay)

Phases(kind) ==
    CASE kind \in {"while", "until", "if", "andor"} -> {"cond", "body"}
      [] kind = "not" -> {"cond"}
      [] kind \in {"main", "subshell"} -> {"body", "exit"}
      [] OTHER -> {"body"}

\* What may be on top of what, and what may go on there.
Shape ==
    /\ acts # <<>>
    /\ \A i \in 1..Len(acts) : /\ acts[i].kind = "main" <=> i = 1
                               /\ acts[i].phase \in Phases(acts[i].kind)
    /\ \A i \in 1..Len(acts) - 1 : acts[i].phase = "exit" <=> acts[i + 1].kind = "exittrap"
    /\ Top.phase = "exit" => flow.at \in {"list", "end"}
    /\ flow.at \in {"list", "end"} => R.d = "none"

\* The break that a trap action has delayed will find its loop, too.
HeldTargeted ==
    \A i \in 1..Len(acts) : acts[i].kind = "trap" => Targeted(acts[i].held, acts, i - 1)

\* No subshell has been entered between the p-th construct and the k-th.
SameProcess(p, k) == \A i \in p + 1..k : acts[i].kind # "subshell"

\* A process that is to end has ended but for the EXIT trap, or its divert is on
\* its way, or waits for a trap action.
Unwinding ==
    doomed.p # 0 =>
        /\ doomed.p \in 1..Len(acts) /\ acts[doomed.p].kind \in {"main", "subshell"}
        /\ \/ acts[doomed.p].phase = "exit"
           \/ flow.at \in {"command", "divert"} /\ Dooms(R) /\ SameProcess(doomed.p, Len(acts))
           \/ \E i \in doomed.p + 1..Len(acts) :
                 acts[i].kind = "trap" /\ Dooms(acts[i].held) /\ SameProcess(doomed.p, i)

IInv ==
    /\ TypeOK /\ Shape /\ Layered
    /\ LoopTarget /\ HeldTargeted /\ ErrexitExact /\ Unwinding

-----------------------------------------------------------------------------
(* What the documents say and the code does not do.                        *)

\* docs/src/language/commands/loops.md on while loops, continue or not.
LoopStatusAlways == flow.promise # None => status = flow.promise

\* docs/src/termination.md: a shell that exits because of a shell error has a
\* non-zero exit status.
ErrorStatus == (flow.at = "end" /\ doomed.why = "error") => status # SUCCESS

\* yash-env/src/semantics.rs: Abort exits without executing the EXIT trap.
AbortSkipsTrap ==
    \A i \in 1..Len(acts) : acts[i].kind = "exittrap" => acts[i].held.d # "abort"

\* docs/src/termination.md: an error in a special built-in ends the shell if
\* the errexit option is set.
ErrorExits ==
    (flow.at = "divert" /\ Top.kind = "main" /\ interactive /\ errexit /\ doomed.why = "error")
        => R.d # "interrupt"
=============================================================================
