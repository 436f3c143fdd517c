---------------------------- MODULE Redirection ----------------------------
(***************************************************************************)
(* Redirections and the descriptors the shell keeps for itself             *)
(* (yash-semantics/src/redir.rs, redir/here_doc.rs; its users in           *)
(* command/compound_command.rs and command/simple_command/; Env::get_tty   *)
(* and move_fd_internal of yash-env; the dot built-in).                    *)
(*                                                                         *)
(* A command with redirections pushes a guard, performs its redirections   *)
(* one by one, runs its body and drops the guard, which restores the       *)
(* descriptors; the exec built-in makes them permanent.  Bodies nest, so   *)
(* that the guards and the scripts being read form a stack, "frames".  The *)
(* terminal, once opened, stays open in env.tty.                           *)
(*                                                                         *)
(* An open file description is an identity with an access mode.  Other     *)
(* processes may create, remove or replace files at any time, so that what *)
(* a pathname names is an arbitrary choice every time it is opened.        *)
(***************************************************************************)
EXTENDS FdTable, Sequences, SequencesExt

CONSTANTS
    MinInternalFd,  \* 10: the shell's own descriptors are not below it
    Named,          \* descriptors the user's redirections name
    Ofds,           \* bound: identities of open file descriptions
    MaxFrames,      \* bound: guards and scripts on the stack
    MaxRedirs,      \* bound: redirections of the commands
    OpenAccess      \* access modes files are opened with by <, >|, >> and <>

ASSUME RedirectionAssumption ==
    /\ MinInternalFd \in Nat /\ MaxFrames \in Nat
    /\ MaxRedirs \in Nat
    /\ OpenMax > 2 /\ 0 .. 2 \subseteq Ofds
    /\ Ofds \subseteq Nat /\ Named \subseteq Nat
    /\ OpenAccess \subseteq {"ReadOnly", "WriteOnly", "ReadWrite"}

None == -1

Access == {"ReadOnly", "WriteOnly", "ReadWrite"}
\* "foreign" marks a regular file that somebody else has made and that > opened
\* under the noclobber option.
Ofd == [id : Ofds, access : Access, foreign : BOOLEAN]

VARIABLES
    fds,        \* the descriptor table of the shell process
    frames,     \* RedirGuards and running scripts, innermost last
    tty,        \* env.tty: None or the descriptor of the terminal
    redirs,     \* bound: how many redirections have been performed or failed
    failures    \* history: redirections that failed with a saved descriptor

vars == <<fds, frames, tty, redirs, failures>>

\* A frame: a RedirGuard with its saved_fds (and, as history, the table it
\* started from), or a script the dot built-in reads from a descriptor.
FdOrNone == (0 .. OpenMax - 1) \union {None}
SavedFd == [original : Named, save : FdOrNone]
Phases == {"redirecting", "reopening", "checking", "failed", "body", "script"}
IsFrame(frame) ==
    /\ frame \in [phase : Phases, saved : Seq(SavedFd), entry : {frame.entry},
                 target : Named \union {0}, save : FdOrNone, fd : FdOrNone]
    /\ IsTable(frame.entry, Ofd)

Top == Last(frames)
InBody == frames # <<>> => Top.phase \in {"body", "script"}

\* Descriptions somebody still refers to: the table and the histories.
Referred == {fds[f].ofd.id : f \in DOMAIN fds} \union
            UNION {{frames[i].entry[f].ofd.id : f \in DOMAIN frames[i].entry} :
                      i \in 1 .. Len(frames)}
Fresh == Ofds \ Referred
NewOfd(access) == [id |-> Min(Fresh), access |-> access, foreign |-> FALSE]

\* The descriptors a list of saved_fds speaks of.
SavesOf(list) == {list[k].save : k \in 1 .. Len(list)} \ {None}
OriginalsOf(list) == {list[k].original : k \in 1 .. Len(list)}

TypeOK ==
    /\ IsTable(fds, Ofd)
    /\ frames \in Seq(Range(frames)) /\ Len(frames) <= MaxFrames
    /\ \A i \in 1 .. Len(frames) : IsFrame(frames[i])
    /\ tty \in FdOrNone
    /\ redirs \in 0 .. MaxRedirs
    /\ failures \in 0 .. redirs

-----------------------------------------------------------------------------
\* The shell starts with standard descriptors that may or may not be open.
Init ==
    /\ fds \in {[f \in D |-> Body([id |-> f, access |-> "ReadWrite", foreign |-> FALSE], FALSE)] :
                   D \in SUBSET (0 .. Min({2, MinInternalFd - 1}))}
    /\ frames = <<>>
    /\ tty = None
    /\ redirs = 0
    /\ failures = 0

Frame(phase) == [phase |-> phase, saved |-> <<>>, entry |-> fds,
                 target |-> 0, save |-> None, fd |-> None]

Push(frame) == frames' = Append(frames, frame)
SetTop(frame) == frames' = [frames EXCEPT ![Len(frames)] = frame]
Pop == frames' = Front(frames)

\* RedirGuard::new, at the start of a command with redirections.  (One with
\* none has an empty guard, which does nothing.)
Begin ==
    /\ InBody
    /\ Len(frames) < MaxFrames /\ redirs < MaxRedirs
    /\ Push(Frame("redirecting"))
    /\ UNCHANGED <<fds, tty, redirs, failures>>

\* The redirection failed: perform returns early and the guard's list stays
\* as it is.  Whatever "perform" saved before is not in the list.
Fail(t, save) ==
    /\ failures' = IF save = None THEN failures ELSE failures + 1
    /\ fds' = t
    /\ redirs' = redirs + 1
    /\ SetTop([Top EXCEPT !.phase = "failed", !.target = 0, !.save = None, !.fd = None])

\* The prepared descriptor fd moves to the target (FdSpec::Owned descriptors
\* are closed), and the guard remembers what to undo.
Install(t, fd, owned, target, save) ==
    LET moved == Dup2(t, fd, target)
        done  == IF owned THEN CloseFd(moved, fd) ELSE moved
    IN  IF fd # target /\ ~CanDup2(t, fd, target)
          THEN Fail(IF owned THEN CloseFd(t, fd) ELSE t, save)
          ELSE /\ fds' = IF fd = target THEN t ELSE done
               /\ SetTop([Top EXCEPT
                     !.phase = "redirecting", !.target = 0, !.save = None, !.fd = None,
                     !.saved = Append(@, [original |-> target, save |-> save])])
               /\ redirs' = redirs + 1
               /\ UNCHANGED failures

\* The description at the target is copied to an internal descriptor.
CanSave(target) == target \notin DOMAIN fds \/ CanOpen(fds, MinInternalFd)
Save(target) == IF target \in DOMAIN fds THEN MinUnusedFd(fds, MinInternalFd)
                ELSE None
Saved(target) == IF target \in DOMAIN fds THEN Dup(fds, target, MinInternalFd, TRUE)
                 ELSE fds

\* A wrong version: nobody checks whether the descriptor is reserved.
RedirectingAny(target) ==
    /\ frames # <<>>
    /\ Top.phase = "redirecting"
    /\ redirs < MaxRedirs
    /\ CanSave(target)

\* The checks at the start of "perform", common to all operators.
Redirecting(target) ==
    /\ frames # <<>>
    /\ Top.phase = "redirecting"
    /\ redirs < MaxRedirs
    /\ ~IsCloexec(fds, target)
    /\ CanSave(target)

\* ReservedFd, or FdNotOverwritten if there is no descriptor to save in.
Refused(target) ==
    /\ frames # <<>>
    /\ Top.phase = "redirecting"
    /\ redirs < MaxRedirs
    /\ IsCloexec(fds, target) \/ ~CanSave(target)
    /\ Fail(fds, None)
    /\ UNCHANGED tty

\* The operand cannot be expanded, the file cannot be opened, the operator is
\* not supported, or no temporary file can be written for a here-document.
NotOpened(target) ==
    /\ Redirecting(target)
    /\ Fail(Saved(target), Save(target))
    /\ UNCHANGED tty

\* <, >|, >>, <>, > with the clobber option on, and here-documents.
OpenFile(target, access) ==
    /\ Redirecting(target)
    /\ Fresh # {}
    /\ LET t == Saved(target)
       IN  /\ CanOpen(t, 0)
           /\ Install(OpenFd(t, 0, Body(NewOfd(access), FALSE)),
                      MinUnusedFd(t, 0), TRUE, target, Save(target))
    /\ UNCHANGED tty

\* > with the clobber option off, first open: O_CREAT | O_EXCL.
OpenNoClobber(target, exists) ==
    /\ Redirecting(target)
    /\ Fresh # {}
    /\ LET t == Saved(target)
       IN  /\ CanOpen(t, 0)
           /\ IF exists
                THEN /\ fds' = t
                     /\ SetTop([Top EXCEPT !.phase = "reopening",
                                           !.target = target,
                                           !.save = Save(target)])
                     /\ UNCHANGED <<redirs, failures>>
                ELSE Install(OpenFd(t, 0, Body(NewOfd("WriteOnly"), FALSE)),
                             MinUnusedFd(t, 0), TRUE, target, Save(target))
    /\ UNCHANGED tty

\* Second open, without O_CREAT.  The file may be gone or another one by now.
Reopen(kind) ==
    /\ frames # <<>>
    /\ Top.phase = "reopening"
    /\ IF kind # "absent" /\ CanOpen(fds, 0) /\ Fresh # {}
         THEN /\ fds' = OpenFd(fds, 0, Body([NewOfd("WriteOnly") EXCEPT
                                              !.foreign = (kind = "regular")], FALSE))
              /\ SetTop([Top EXCEPT !.phase = "checking", !.fd = MinUnusedFd(fds, 0)])
              /\ UNCHANGED <<redirs, failures>>
         ELSE Fail(fds, Top.save)
    /\ UNCHANGED tty

\* A wrong version: the result of fstat is ignored.
IsNeverRegular(fd) == FALSE

IsRegularFile(fd) == fds[fd].ofd.foreign

\* fstat tells what has really been opened: a regular file is closed again.
CheckReopened ==
    /\ frames # <<>>
    /\ Top.phase = "checking"
    /\ IF IsRegularFile(Top.fd)
         THEN Fail(CloseFd(fds, Top.fd), Top.save)
         ELSE Install(fds, Top.fd, TRUE, Top.target, Top.save)
    /\ UNCHANGED tty

\* <& and >& with a descriptor.
CopyFd(target, fd, access) ==
    /\ Redirecting(target)
    /\ LET t == Saved(target)
           valid == /\ fd \in DOMAIN t
                    /\ t[fd].ofd.access \in {access, "ReadWrite"}
                    /\ ~t[fd].cloexec
       IN  IF valid THEN Install(t, fd, FALSE, target, Save(target))
           ELSE Fail(t, Save(target))
    /\ UNCHANGED tty

\* <&- and >&-: nothing to install, the target is closed.
CloseTarget(target) ==
    /\ Redirecting(target)
    /\ fds' = CloseFd(Saved(target), target)
    /\ SetTop([Top EXCEPT !.saved =
                  Append(@, [original |-> target, save |-> Save(target)])])
    /\ redirs' = redirs + 1
    /\ UNCHANGED <<tty, failures>>

\* All redirections are performed, the body of the command starts.
StartBody ==
    /\ frames # <<>>
    /\ Top.phase = "redirecting"
    /\ Top.saved # <<>>
    /\ SetTop([Top EXCEPT !.phase = "body"])
    /\ UNCHANGED <<fds, tty, redirs, failures>>

\* A wrong version: the descriptor that was saved stays open.
UndoOneOnly(t, entry) ==
    IF entry.save = None THEN CloseFd(t, entry.original)
    ELSE Dup2(t, entry.save, entry.original)

\* One entry of undo_redirs.
UndoOne(t, entry) ==
    IF entry.save = None THEN CloseFd(t, entry.original)
    ELSE CloseFd(Dup2(t, entry.save, entry.original), entry.save)

\* A wrong version: the first redirection is undone first.
UndoForward ==
    /\ frames # <<>>
    /\ Top.phase \in {"body", "failed"}
    /\ fds' = FoldLeft(UndoOne, fds, Top.saved)
    /\ Pop
    /\ UNCHANGED <<tty, redirs, failures>>

\* undo_redirs: the entries are undone in reverse, the last redirection first.
UndoAll(t, list) ==
    LET undone[k \in 0 .. Len(list)] ==
            IF k = 0 THEN t ELSE UndoOne(undone[k - 1], list[Len(list) - k + 1])
    IN  undone[Len(list)]

\* Dropping the guard undoes its redirections.
Undo ==
    /\ frames # <<>>
    /\ Top.phase \in {"body", "failed"}
    /\ fds' = UndoAll(fds, Top.saved)
    /\ Pop
    /\ UNCHANGED <<tty, redirs, failures>>

\* The exec built-in: the saved descriptors are closed, nothing is restored.
Preserve ==
    /\ frames # <<>>
    /\ Top.phase = "body"
    /\ fds' = [f \in DOMAIN fds \ SavesOf(Top.saved) |-> fds[f]]
    /\ Pop
    /\ UNCHANGED <<tty, redirs, failures>>

-----------------------------------------------------------------------------
\* A descriptor the shell opens for itself: open gives the smallest one with
\* close-on-exec, move_fd_internal moves it out of the user's range.
MoveFdInternal(t, fd) ==
    IF fd >= MinInternalFd THEN t
    ELSE CloseFd(Dup(t, fd, MinInternalFd, TRUE), fd)
InternalFd(t) ==
    LET first  == MinUnusedFd(t, 0)
        opened == SetFd(t, first, Body(0, TRUE))
    IN  IF first >= MinInternalFd THEN first ELSE MinUnusedFd(opened, MinInternalFd)
CanOpenInternal(t) == CanOpen(t, 0) /\ InternalFd(t) < OpenMax
OpenInternal(t, ofd) ==
    MoveFdInternal(OpenFd(t, 0, Body(ofd, TRUE)), MinUnusedFd(t, 0))

\* Env::get_tty, on the first use of the terminal.
GetTty ==
    /\ InBody
    /\ tty = None
    /\ Fresh # {}
    /\ CanOpenInternal(fds)
    /\ tty' = InternalFd(fds)
    /\ fds' = OpenInternal(fds, NewOfd("ReadWrite"))
    /\ UNCHANGED <<frames, redirs, failures>>

\* The dot built-in opens a script and reads commands from it.
Dot ==
    /\ InBody
    /\ Len(frames) < MaxFrames
    /\ Fresh # {}
    /\ CanOpenInternal(fds)
    /\ fds' = OpenInternal(fds, NewOfd("ReadOnly"))
    /\ Push([Frame("script") EXCEPT !.save = InternalFd(fds), !.entry = fds'])
    /\ UNCHANGED <<tty, redirs, failures>>

DotEnd ==
    /\ frames # <<>>
    /\ Top.phase = "script"
    /\ fds' = CloseFd(fds, Top.save)
    /\ Pop
    /\ UNCHANGED <<tty, redirs, failures>>

Perform(target) ==
    \/ Refused(target)
    \/ NotOpened(target)
    \/ \E access \in OpenAccess : OpenFile(target, access)
    \/ \E exists \in BOOLEAN : OpenNoClobber(target, exists)
    \/ \E fd \in Named, access \in {"ReadOnly", "WriteOnly"} :
          CopyFd(target, fd, access)
    \/ CloseTarget(target)

Next ==
    \/ Begin
    \/ \E target \in Named : Perform(target)
    \/ \E kind \in {"absent", "regular", "special"} : Reopen(kind)
    \/ CheckReopened
    \/ StartBody
    \/ Undo
    \/ Preserve
    \/ GetTty
    \/ Dot
    \/ DotEnd

Spec == Init /\ [][Next]_vars

-----------------------------------------------------------------------------
\* What a guard has to undo, the redirection in the making included.
Entries(frame) ==
    IF frame.phase \in {"reopening", "checking"}
      THEN Append(frame.saved, [original |-> frame.target, save |-> frame.save])
      ELSE frame.saved

\* The descriptors the running commands rely on: what the guards saved and the
\* scripts being read.
InternalOf(frame) ==
    IF frame.phase = "script" THEN {frame.save} ELSE SavesOf(Entries(frame))
Internal(i) == InternalOf(frames[i])

\* Whatever the user's redirections do, in whatever nesting, a descriptor the
\* shell keeps for itself stays open, closed on exec, out of the user's range
\* and used for one purpose only; a script goes on being read from the file
\* that was opened for it.
InternalIntact ==
    /\ \A i \in 1 .. Len(frames) : \A f \in Internal(i) :
          f >= MinInternalFd /\ IsCloexec(fds, f)
    /\ \A i, j \in 1 .. Len(frames) : i # j => Internal(i) \cap Internal(j) = {}
    /\ \A i \in 1 .. Len(frames) : frames[i].phase = "script" =>
          fds[frames[i].save] = frames[i].entry[frames[i].save]
    /\ \A f \in DOMAIN fds : fds[f].cloexec => f >= MinInternalFd

\* The descriptors the shell has for itself without any use for them.
Stray == {f \in DOMAIN fds : fds[f].cloexec} \
             ((UNION {Internal(i) : i \in 1 .. Len(frames)}) \union {tty})

\* A command leaves no internal descriptor behind, except that a redirection
\* that fails after its target was saved leaves at most one.
LeakBounded == Cardinality(Stray) <= failures

\* Dropping a guard gives every descriptor its command redirected the
\* description it had before the command, or closes it if it was closed, and
\* leaves the other descriptors in the user's range as the body left them.
UndoRestores ==
    [][ Undo =>
          /\ \A f \in OriginalsOf(Top.saved) :
                /\ (f \in DOMAIN fds') = (f \in DOMAIN Top.entry)
                /\ f \in DOMAIN fds' => fds'[f] = Top.entry[f]
          /\ \A f \in (0 .. MinInternalFd - 1) \ OriginalsOf(Top.saved) :
                /\ (f \in DOMAIN fds') = (f \in DOMAIN fds)
                /\ f \in DOMAIN fds => fds'[f] = fds[f] ]_vars

\* With the noclobber option, > never gives a command a regular file that
\* somebody else made, even if files come and go between the two opens.
NoClobber ==
    \A f \in DOMAIN fds : fds[f].ofd.foreign =>
        Top.phase = "checking" /\ f = Top.fd

-----------------------------------------------------------------------------
(***************************************************************************)
(* The inductive invariant.                                                *)
(***************************************************************************)
\* Undoing the entry gives its original the body it has in table "entry".
Restores(saved, entry, t) ==
    IF saved.save = None THEN saved.original \notin DOMAIN entry
    ELSE /\ saved.original \in DOMAIN entry
         /\ entry[saved.original] = Body(t[saved.save].ofd, FALSE)

\* A list that can be undone from the last entry to the first: no redirection
\* has hit what was saved before it, every descriptor saves for one entry, and
\* the first entry of each original knows the body to restore.
Undoable(list, entry, t) ==
    /\ list \in Seq(SavedFd)
    /\ \A k \in 1 .. Len(list) : list[k].save # None => list[k].original < OpenMax
    /\ \A k, m \in 1 .. Len(list) :
          k < m /\ list[k].save # None => list[k].save # list[m].save
    /\ \A k, m \in 1 .. Len(list) : k <= m => list[k].save # list[m].original
    /\ \A k \in 1 .. Len(list) :
          (\A m \in 1 .. k - 1 : list[m].original # list[k].original) =>
              Restores(list[k], entry, t)

\* What the shell keeps for itself is out of the user's reach.
Kept(S, t) == \A f \in S : f >= MinInternalFd /\ IsCloexec(t, f)

FrameFine(frame, t) ==
    /\ Kept(InternalOf(frame), t)
    /\ frame.fd # None <=> frame.phase = "checking"
    /\ frame.phase = "script" =>
          frame.saved = <<>> /\ t[frame.save] = frame.entry[frame.save]
    /\ frame.phase # "script" => Undoable(Entries(frame), frame.entry, t)

\* As long as a guard redirects, what it has not redirected is as it was when
\* it began, but for what it saved and the file it is about to check.
Untouched(frame, t) ==
    \A f \in 0 .. OpenMax - 1 :
        f \in OriginalsOf(Entries(frame)) \union InternalOf(frame) \/
            /\ f \in DOMAIN t \ {frame.fd} <=> f \in DOMAIN frame.entry
            /\ f \in DOMAIN frame.entry => t[f] = frame.entry[f]

TopFine(frame, t) ==
    /\ frame.phase \in {"redirecting", "reopening", "checking"} => Untouched(frame, t)
    /\ frame.phase \in {"reopening", "checking"} => ~IsCloexec(t, frame.target)
    /\ frame.phase = "checking" => frame.fd \in DOMAIN t /\ ~t[frame.fd].cloexec

\* An inner frame neither saves to nor redirects what an outer one relies on.
Apart(inner, outer) ==
    InternalOf(outer) \cap (InternalOf(inner) \union OriginalsOf(Entries(inner))) = {}

Stack ==
    /\ \A i \in 1 .. Len(frames) : FrameFine(frames[i], fds)
    /\ \A i, j \in 1 .. Len(frames) : j < i => Apart(frames[i], frames[j])
    /\ \A i \in 1 .. Len(frames) - 1 : frames[i].phase \in {"body", "script"}
    /\ frames # <<>> => TopFine(Top, fds)
    /\ frames # <<>> /\ Top.phase \in {"reopening", "checking"} => redirs < MaxRedirs

Reserved == \A f \in DOMAIN fds : fds[f].cloexec => f >= MinInternalFd

Foreign ==
    \A f \in DOMAIN fds : fds[f].ofd.foreign =>
        frames # <<>> /\ Top.phase = "checking" /\ f = Top.fd

IInv == TypeOK /\ Stack /\ Reserved /\ Foreign

-----------------------------------------------------------------------------
\* undo_redirs "restores the file descriptors affected by redirections to the
\* original state and closes internal backing file descriptors": no internal
\* descriptor outlives the command it was made for (redir.rs:682).
NothingLeaks == frames = <<>> => Stray = {}

\* env.tty is the "file descriptor to the controlling terminal", which get_tty
\* returns as it is (lib.rs:153, 376): it has not been closed or replaced.
TtyIntact == tty # None => IsCloexec(fds, tty)

=============================================================================
