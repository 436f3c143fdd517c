--------------------------- MODULE WorkingDirectory ---------------------------
(***************************************************************************)
(* The working directory and the variables that name it: the cd built-in   *)
(* (yash-builtin, cd), and the check of PWD at start-up and in pwd         *)
(* (yash-env, pwd.rs).                                                     *)
(*                                                                         *)
(* A path is absolute or not and has components; repeated slashes and the  *)
(* special meaning of two leading ones are left out.  The file system is   *)
(* external: directories with names for directories and symbolic links,    *)
(* which other processes rename, remove and create between commands.       *)
(***************************************************************************)
EXTENDS Terms, Integers, Sequences, FiniteSets, SequencesExt

CONSTANTS StartTree,    \* names in each directory at the start, a function of directories
          Home,         \* the value of HOME
          CdPaths,      \* values of CDPATH, sequences of paths
          EnvPwds,      \* values of PWD that the shell may inherit
          Operands,     \* operands of cd
          NewPwds,      \* values that the user gives to PWD and OLDPWD
          NewNames,     \* names that other processes give
          MaxEvents,    \* bound: changes by others and by the user
          MaxPath       \* bound: components of PWD, which grow without bound once it is relative

VARIABLES dirs,      \* the file system: names in each directory
          cwd,       \* the working directory
          pwd, oldpwd,   \* the variables, EmptyPath if unset or empty
          cdpath,
          fixed,     \* the variables that are read-only
          events,
          honest,    \* history: PWD has not been made to name something else
          back       \* history: the directory that OLDPWD stands for, or Nowhere

cdVars == <<dirs, cwd, pwd, oldpwd, cdpath, fixed, events, honest, back>>

Root == "root"
Nowhere == "nowhere"
Dot == Path(FALSE, <<".">>)

(***************************************************************************)
(* The file system (external).                                             *)
(***************************************************************************)
MaxLinks == 8   \* _POSIX_SYMLOOP_MAX

Holds(t, d, name, child) == name \in DOMAIN t[d] /\ t[d][name] = Dir(child)
Parent(t, d) ==
    IF d = Root THEN Root
    ELSE IF \E up \in DOMAIN t : \E n \in DOMAIN t[up] : Holds(t, up, n, d)
    THEN CHOOSE up \in DOMAIN t : \E n \in DOMAIN t[up] : Holds(t, up, n, d)
    ELSE Nowhere

RECURSIVE Walk(_, _, _, _)
Walk(t, d, comps, links) ==
    LET c == Head(comps)
    IN  CASE d = Nowhere \/ comps = << >> -> d
          [] d # Nowhere /\ comps # << >> /\ c \in {".", ".."} ->
               Walk(t, IF c = "." THEN d ELSE Parent(t, d), Tail(comps), links)
          [] d # Nowhere /\ comps # << >> /\ c \notin {".", ".."} ->
               IF c \notin DOMAIN t[d] THEN Nowhere
               ELSE IF t[d][c].kind = "dir" THEN Walk(t, t[d][c].dir, Tail(comps), links)
               ELSE IF links = MaxLinks THEN Nowhere
               ELSE Walk(t, IF t[d][c].path.abs THEN Root ELSE d, t[d][c].path.comps \o Tail(comps), links + 1)

\* The directory that a path names for a process, Nowhere if there is none.
Resolve(t, path, from) ==
    IF path = EmptyPath THEN Nowhere ELSE Walk(t, IF path.abs THEN Root ELSE from, path.comps, 0)

RECURSIVE PathTo(_, _, _)
PathTo(t, d, comps) ==
    LET up == Parent(t, d)
    IN  CASE d = Root -> Path(TRUE, comps)
          [] d # Root /\ up = Nowhere -> EmptyPath
          [] OTHER -> PathTo(t, up, <<CHOOSE n \in DOMAIN t[up] : Holds(t, up, n, d)>> \o comps)

\* getcwd, EmptyPath if it fails.
GetCwd(t, d) == PathTo(t, d, << >>)

(***************************************************************************)
(* Paths in cd (cdpath.rs, canonicalize.rs, shorten.rs).                   *)
(***************************************************************************)
Join(base, path) == IF path.abs THEN path ELSE Path(base.abs, base.comps \o path.comps)

IsDirectory(path) == Resolve(dirs, path, cwd) # Nowhere

\* search: the first directory of CDPATH that has the path, unless that is the empty one.
CdPathSearch(path) ==
    LET excluded == path.abs \/ (path.comps # << >> /\ path.comps[1] \in {".", ".."})
        found == {k \in DOMAIN cdpath : IsDirectory(Join(cdpath[k], path))}
        first == CHOOSE k \in found : \A j \in found : k <= j
    IN  IF excluded \/ found = {} \/ cdpath[first] = EmptyPath THEN [found |-> FALSE]
        ELSE [found |-> TRUE, path |-> Join(cdpath[first], path)]

\* remove_dot_dot from an index on; a component is removed only if it exists.
Missing == [ok |-> FALSE]
RECURSIVE RemoveDotDot(_, _, _)
RemoveDotDot(abs, comps, index) ==
    CASE index > Len(comps) -> [ok |-> TRUE, path |-> Path(abs, comps)]
      [] index <= Len(comps) /\ (comps[index] # ".." \/ comps[index - 1] = "..") ->
           RemoveDotDot(abs, comps, index + 1)
      [] OTHER ->
           IF ~ IsDirectory(Path(abs, SubSeq(comps, 1, index - 1))) THEN Missing
           ELSE RemoveDotDot(abs, SubSeq(comps, 1, index - 2) \o SubSeq(comps, index + 1, Len(comps)),
                             IF index > 2 THEN index - 1 ELSE index)

Canonicalize(path) == RemoveDotDot(path.abs, SelectSeq(path.comps, LAMBDA c : c # "."), 2)

\* A wrong version: the operand is taken before it was canonicalized.
ShortenPlain(target, operand, logical) == operand

\* shorten: a path below PWD is given relative to it.
Shorten(target, operand, logical) ==
    LET n == Len(pwd.comps)
        below == (pwd = EmptyPath \/ target.abs = pwd.abs) /\ IsPrefix(pwd.comps, target.comps)
        rest == IF pwd = EmptyPath THEN target
                ELSE Path(FALSE, SubSeq(target.comps, n + 1, Len(target.comps)))
    IN  CASE ~ logical -> target
          [] logical /\ below /\ rest = EmptyPath -> Dot
          [] logical /\ below -> rest
          [] OTHER -> target

(***************************************************************************)
(* The cd built-in (cd.rs: main; target.rs: target; assign.rs).            *)
(***************************************************************************)
\* The operand after $HOME, $OLDPWD and $CDPATH; EmptyPath is an error.
Operand(operand) ==
    LET path == CASE operand = "none" -> Home [] operand = "-" -> oldpwd [] OTHER -> Operands[operand]
        search == CdPathSearch(path)
    IN  IF path # EmptyPath /\ search.found THEN search.path ELSE path

Target(operand, logical) ==
    CASE Operand(operand) = EmptyPath -> Missing
      [] Operand(operand) # EmptyPath /\ logical -> Canonicalize(Join(pwd, Operand(operand)))
      [] OTHER -> [ok |-> TRUE, path |-> Operand(operand)]

Names(t, path, d) == Resolve(t, path, d) = d

\* chdir: the directory that the process goes to, Nowhere after any error.
Destination(operand, logical) ==
    LET target == Target(operand, logical)
    IN  IF ~ target.ok THEN Nowhere
        ELSE Resolve(dirs, Shorten(target.path, Operand(operand), logical), cwd)

NewPwd(operand, logical) ==
    IF logical THEN Target(operand, logical).path ELSE GetCwd(dirs, Destination(operand, logical))

\* An assignment fails if the variable is read-only; cd goes on.
AssignFixed(name, old, new) == IF name \in fixed THEN old ELSE new

Cd(operand, logical) ==
    /\ Destination(operand, logical) # Nowhere
    /\ Len(NewPwd(operand, logical).comps) <= MaxPath
    /\ cwd' = Destination(operand, logical)
    /\ oldpwd' = AssignFixed("OLDPWD", oldpwd, pwd)
    /\ pwd' = AssignFixed("PWD", pwd, NewPwd(operand, logical))
    /\ honest' = ("PWD" \notin fixed /\ IF logical THEN honest ELSE NewPwd(operand, logical) # EmptyPath)
    /\ back' = IF honest /\ "OLDPWD" \notin fixed THEN cwd ELSE Nowhere
    /\ UNCHANGED <<dirs, cdpath, fixed, events>>

\* An error before or in chdir leaves all as it was.
CdFails(operand, logical) == Destination(operand, logical) = Nowhere /\ UNCHANGED cdVars

(***************************************************************************)
(* The value that PWD has at the start (pwd.rs: prepare_pwd).              *)
(***************************************************************************)
IsCorrect(t, path, d) ==
    /\ path.abs
    /\ \A k \in DOMAIN path.comps : path.comps[k] \notin {".", ".."}
    /\ Names(t, path, d)

PreparePwd(t, path, d) == IF IsCorrect(t, path, d) THEN path ELSE GetCwd(t, d)

CdInit ==
    /\ dirs = StartTree
    /\ cwd \in DOMAIN StartTree
    /\ \E p \in EnvPwds : pwd = PreparePwd(StartTree, p, cwd)
    /\ oldpwd = EmptyPath
    /\ cdpath \in CdPaths
    /\ fixed = {} /\ events = 0
    /\ honest = TRUE /\ back = Nowhere

(***************************************************************************)
(* The user changes the variables.                                         *)
(***************************************************************************)
Event == events < MaxEvents /\ events' = events + 1

AssignPwd(path) ==
    /\ Event /\ "PWD" \notin fixed
    /\ pwd' = path
    /\ honest' = (path.abs /\ Names(dirs, path, cwd))
    /\ UNCHANGED <<dirs, cwd, oldpwd, cdpath, fixed, back>>

AssignOldpwd(path) ==
    /\ Event /\ "OLDPWD" \notin fixed
    /\ oldpwd' = path /\ back' = Nowhere
    /\ UNCHANGED <<dirs, cwd, pwd, cdpath, fixed, honest>>

Readonly(name) ==
    /\ Event /\ fixed' = fixed \cup {name}
    /\ UNCHANGED <<dirs, cwd, pwd, oldpwd, cdpath, honest, back>>

(***************************************************************************)
(* Other processes change the directories.  A name may come to stand for   *)
(* another directory, or for none.                                         *)
(***************************************************************************)
ChangeTree(t) ==
    /\ Event /\ dirs' = t
    /\ honest' = (honest /\ Names(t, pwd, cwd))
    /\ back' = IF back # Nowhere /\ Resolve(t, oldpwd, cwd) = back THEN back ELSE Nowhere
    /\ UNCHANGED <<cwd, pwd, oldpwd, cdpath, fixed>>

Without(d, name) == [n \in DOMAIN dirs[d] \ {name} |-> dirs[d][n]]

RemoveEntry(d, name) ==
    /\ name \in DOMAIN dirs[d]
    /\ dirs[d][name].kind = "dir" => DOMAIN dirs[dirs[d][name].dir] = {}
    /\ ChangeTree([dirs EXCEPT ![d] = Without(d, name)])

RenameEntry(d, name, new) ==
    /\ name \in DOMAIN dirs[d] /\ new \notin DOMAIN dirs[d]
    /\ ChangeTree([dirs EXCEPT ![d] = [n \in (DOMAIN @ \ {name}) \cup {new} |-> IF n = new THEN @[name] ELSE @[n]]])

MakeLink(d, name, path) ==
    /\ name \notin DOMAIN dirs[d] /\ (d = Root \/ Parent(dirs, d) # Nowhere)
    /\ ChangeTree([dirs EXCEPT ![d] = [n \in DOMAIN @ \cup {name} |-> IF n = name THEN Link(path) ELSE @[n]]])

CdNext ==
    \/ \E o \in DOMAIN Operands \cup {"none", "-"}, logical \in BOOLEAN : Cd(o, logical) \/ CdFails(o, logical)
    \/ \E p \in NewPwds : AssignPwd(p) \/ AssignOldpwd(p)
    \/ \E v \in {"PWD", "OLDPWD"} : Readonly(v)
    \/ \E d \in DOMAIN dirs : \E name \in DOMAIN dirs[d] :
          RemoveEntry(d, name) \/ \E new \in NewNames : RenameEntry(d, name, new)
    \/ \E d \in DOMAIN dirs, name \in NewNames, p \in NewPwds : MakeLink(d, name, p)

===============================================================================
