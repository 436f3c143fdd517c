----------------------------- MODULE CommandSearch -----------------------------
(***************************************************************************)
(* What a command name stands for: the search of simple commands (yash-env,*)
(* semantics/command; yash-semantics, simple_command), and those of the    *)
(* command, type and exec built-ins, which repeat it with other parameters.*)
(*                                                                         *)
(* One name is looked up in a shell e, a record of what the shell knows    *)
(* about it: kind is the type of its built-in or "None", words says        *)
(* whether it is a keyword and an alias, function whether a function has   *)
(* it.  path and stdpath are $PATH and the system's own, sequences of      *)
(* directories, empty if unset.  files are the files that exist ("binary", *)
(* "script", or "plain" if not executable), cwd is the working directory,  *)
(* pwd its name for the shell, EmptyPath if it has none.  Forks and file   *)
(* permissions other than that to execute do not fail.                     *)
(***************************************************************************)
EXTENDS Terms, Integers, Sequences

CONSTANTS
    DashNames,      \* names that begin with a hyphen
    Located(_, _),  \* the kernel: the file that a path names for a process in a directory
    ShellStates,    \* the shells in which names are looked up, all but PATH
    PathSets,       \* sets of directories to make values of PATH of, each with a bound
    CommandNames    \* the names

VARIABLE probe      \* a shell and its PATH so far; in Algorithms, any input so far

NotFound == [target |-> "None", path |-> EmptyPath]
Target(kind, path) == [target |-> kind, path |-> path]

Dot == Path(FALSE, <<".">>)
Slashed(name) == name.abs \/ Len(name.comps) > 1
Within(dir, name) == Path(dir.abs, dir.comps \o name.comps)

(***************************************************************************)
(* Files and execve (external).                                            *)
(***************************************************************************)
Place(e, path) == Located(e.cwd, path)
FileAt(e, path) == IF Place(e, path) \in DOMAIN e.files THEN e.files[Place(e, path)] ELSE "missing"
IsExecutableFile(e, path) == FileAt(e, path) \in {"binary", "script"}

(***************************************************************************)
(* The search (search.rs).                                                 *)
(***************************************************************************)
\* ClassifyEnv::builtin: extensions do not exist in a shell that is to follow POSIX.
Builtin(e) == IF e.kind = "Extension" /\ e.posix THEN "None" ELSE e.kind

Classify(name, e) ==
    CASE Slashed(name) -> Target("External", EmptyPath)
      [] ~ Slashed(name) /\ Builtin(e) = "Special" -> Target("Builtin", EmptyPath)
      [] ~ Slashed(name) /\ Builtin(e) # "Special" /\ e.function -> Target("Function", EmptyPath)
      [] OTHER -> Target(IF Builtin(e) # "None" THEN "Builtin" ELSE "External", EmptyPath)

\* search_path: the first directory of the path that has the file, EmptyPath if there is none.
SearchPath(name, e) ==
    LET found == {k \in DOMAIN e.path : IsExecutableFile(e, Within(e.path[k], name))}
    IN  IF found = {} THEN EmptyPath
        ELSE Within(e.path[CHOOSE k \in found : \A j \in found : k <= j], name)

NeedsPath(target, e) == target = "External" \/ (target = "Builtin" /\ e.kind = "Substitutive")

Search(name, e) ==
    LET target == Classify(name, e).target
    IN  CASE Slashed(name) -> Target(target, name)
          [] ~ Slashed(name) /\ NeedsPath(target, e) ->
               IF SearchPath(name, e) = EmptyPath THEN NotFound ELSE Target(target, SearchPath(name, e))
          [] OTHER -> Target(target, EmptyPath)

(***************************************************************************)
(* Running the target (command.rs, simple_command).                        *)
(***************************************************************************)
RanNothing(status) == [ran |-> "nothing", status |-> status]
RanBuiltin == [ran |-> "builtin"]
RanFunction == [ran |-> "function"]
RanFile(path) == [ran |-> "file", path |-> path]

\* fall_back_on_sh: what looks like an option gets a dot in front of it.
AsOperand(path) ==
    IF ~ path.abs /\ path.comps[1] \in DashNames THEN Within(Dot, path) ELSE path

\* replace_current_process: execve, which runs binaries only, and the shell for scripts.
ReplaceCurrentProcess(e, path) ==
    CASE FileAt(e, path) = "binary" -> RanFile(Place(e, path))
      [] FileAt(e, path) = "script" ->
           IF AsOperand(path).comps[1] \in DashNames /\ ~ path.abs THEN [ran |-> "shell with an option"]
           ELSE RanFile(Place(e, AsOperand(path)))
      [] OTHER -> RanNothing(IF FileAt(e, path) = "missing" THEN 127 ELSE 126)

RunExternal(name, e) ==
    LET path == IF Slashed(name) THEN name ELSE SearchPath(name, e)
    IN  IF path = EmptyPath THEN RanNothing(127) ELSE ReplaceCurrentProcess(e, path)

\* A wrong version: the command is found before its assignments are made.
BeforeAssignments(e, path) == e

\* perform_assignments, of a command that assigns to PATH.
AfterAssignments(e, path) == [e EXCEPT !.path = path]

\* execute_builtin: a substitutive one runs only if there is a utility in its place.
ExecuteBuiltin(name, e) ==
    IF e.kind = "Substitutive" /\ SearchPath(name, e) = EmptyPath THEN RanNothing(127) ELSE RanBuiltin

\* SimpleCommand::execute: the name is classified first, then come the assignments.
SimpleCommand(name, path, e) ==
    LET after == AfterAssignments(e, path)
        target == Classify(name, e).target
    IN  CASE target = "Builtin" -> ExecuteBuiltin(name, after)
          [] target = "Function" -> RanFunction
          [] target = "External" -> RunExternal(name, after)

(***************************************************************************)
(* The command, type and exec built-ins.                                   *)
(***************************************************************************)
Params(standard, categories) == [standard |-> standard, categories |-> categories]
DefaultForInvoke(standard) == Params(standard, {"Builtin", "ExternalUtility"})
DefaultForIdentify(standard) ==
    Params(standard, {"Alias", "Builtin", "ExternalUtility", "Function", "Keyword"})

\* SearchEnv: the shell as the search parameters let it be seen.
SearchEnv(e, params) ==
    [e EXCEPT !.kind = IF "Builtin" \in params.categories THEN @ ELSE "None",
              !.function = @ /\ "Function" \in params.categories,
              !.path = IF params.standard THEN e.stdpath ELSE @]

\* command -p name: Invoke::execute, invoke_target.
Invoke(name, params, e) ==
    LET found == Search(name, SearchEnv(e, params))
    IN  CASE found = NotFound -> RanNothing(127)
          [] found.target = "Builtin" -> RanBuiltin
          [] found.target = "Function" -> RanFunction
          [] found.target = "External" -> ReplaceCurrentProcess(e, found.path)

\* exec name, which replaces the shell.
ExecUtility(name, e) == RunExternal(name, e)

\* normalize_target
NormalizeTarget(e, found) ==
    LET path == found.path
    IN  CASE found = NotFound -> NotFound
          [] found # NotFound /\ ~ NeedsPath(found.target, e) -> found
          [] NeedsPath(found.target, e) ->
               CASE ~ IsExecutableFile(e, path) -> NotFound
                 [] IsExecutableFile(e, path) /\ path.abs -> found
                 [] OTHER -> IF e.pwd = EmptyPath THEN NotFound ELSE Target(found.target, Within(e.pwd, path))

\* command -v and type: categorize.
Categorize(name, params, e) ==
    CASE "Keyword" \in params.categories /\ "Keyword" \in e.words -> Target("Keyword", EmptyPath)
      [] "Keyword" \notin e.words /\ "Alias" \in params.categories /\ "Alias" \in e.words -> Target("Alias", EmptyPath)
      [] OTHER -> NormalizeTarget(e, Search(name, SearchEnv(e, params)))

\* describe_target, as command -v prints it: a path or the name.
Described(name, found) == IF found.path = EmptyPath THEN name ELSE found.path

(***************************************************************************)
(* Reference: of all that have the name the one that comes first in the    *)
(* order of POSIX, in a shell whose PATH is known.                         *)
(***************************************************************************)
FilesNamed(name, e) ==
    IF Slashed(name) THEN <<Place(e, name)>>
    ELSE [k \in DOMAIN e.path |-> Place(e, Within(e.path[k], name))]

Bearers(name, e) ==
    LET files == FilesNamed(name, e)
        Runs(k) == e.files[files[k]] \in {"binary", "script"}
        present == {k \in DOMAIN files : files[k] \in DOMAIN e.files}
        executable == {k \in present : Runs(k)}
        absent == e.kind = "None" \/ (e.kind = "Extension" /\ e.posix) \/ Slashed(name)
    IN  {<<0, RanBuiltin>> : b \in IF e.kind = "Special" /\ ~ absent THEN {e.kind} ELSE {}}
          \cup {<<1, RanFunction>> : b \in IF e.function /\ ~ Slashed(name) THEN {TRUE} ELSE {}}
          \cup {<<2, RanBuiltin>> : b \in IF absent \/ (e.kind = "Substitutive" /\ executable = {}) THEN {} ELSE {e.kind}}
          \cup {<<2 + k, RanFile(files[k])>> : k \in executable}
          \cup {<<3 + Len(files), RanNothing(IF Slashed(name) /\ present # {} THEN 126 ELSE 127)>>}

MeaningOf(name, e) == (CHOOSE b \in Bearers(name, e) : \A c \in Bearers(name, e) : b[1] <= c[1])[2]

(***************************************************************************)
(* Lookups: every name in every shell while its PATH grows.                *)
(***************************************************************************)
NameInit == \E e \in ShellStates, q \in PathSets :
    probe = [of |-> "name", shell |-> e, pieces |-> q, input |-> << >>]
NameNext ==
    /\ probe.of = "name" /\ Len(probe.input) < probe.pieces.max
    /\ \E dir \in probe.pieces.set : probe' = [probe EXCEPT !.input = Append(@, dir)]
NameSpec == NameInit /\ [][NameNext]_probe

Shell == [probe.shell EXCEPT !.path = probe.input]

\* Without functions, and with the system's PATH.
Bare(e) == [e EXCEPT !.function = FALSE]
Standard(e) == [Bare(e) EXCEPT !.path = e.stdpath]

RunsRight(name, e) ==
    /\ \A path \in {e.path, e.stdpath} : SimpleCommand(name, path, e) = MeaningOf(name, [e EXCEPT !.path = path])
    /\ Invoke(name, DefaultForInvoke(FALSE), e) = MeaningOf(name, Bare(e))
    /\ Invoke(name, DefaultForInvoke(TRUE), e) = MeaningOf(name, Standard(e))
    /\ ExecUtility(name, e) = MeaningOf(name, [Bare(e) EXCEPT !.kind = "None"])

ToldRight(name, e) ==
    LET found == Categorize(name, DefaultForIdentify(FALSE), e)
        meant == MeaningOf(name, e)
        printed == Described(name, found)
    IN  CASE e.words # {} -> found.target \in e.words
          [] e.words = {} /\ found = NotFound ->
               meant.ran = "nothing" \/ (e.pwd = EmptyPath /\ ~ Search(name, e).path.abs)
          [] OTHER -> /\ meant.ran # "nothing"
                      /\ meant.ran = "file" => printed.abs
                      /\ \/ e.kind = "Substitutive" /\ meant = RanBuiltin
                         \/ SimpleCommand(printed, e.path, e) = meant

\* One name, one meaning: a simple command, with an assignment to PATH or without, the
\* command built-in with its options and exec run the first in order of those that have
\* the name and may be chosen there, although each of them searches in its own way and
\* at its own time; and what command -v says about a name that is no keyword or alias
\* is true, can be used in its place and does not depend on the working directory, nor is
\* anything kept back except where that directory has no name (simple_command.rs:
\* execute; search.rs; command/invoke.rs, identify.rs; exec.rs: main).
NamesAgree ==
    probe.of = "name" => \A name \in CommandNames : RunsRight(name, Shell) /\ ToldRight(name, Shell)

(***************************************************************************)
(* What the lookups are about: shells, and a kernel to which ./x and $PWD/x *)
(* are x.                                                                  *)
(***************************************************************************)
Paths == [abs : BOOLEAN, comps : Seq(STRING)]

IsShell(e) ==
    /\ e \in [kind : {"None", "Special", "Mandatory", "Elective", "Extension", "Substitutive"},
              function : BOOLEAN, posix : BOOLEAN, words : SUBSET {"Alias", "Keyword"},
              files : {e.files}, cwd : {e.cwd}, pwd : Paths, path : Seq(Paths), stdpath : Seq(Paths)]
    /\ e.files \in [DOMAIN e.files -> {"binary", "script", "plain"}]
    /\ e.pwd = EmptyPath \/ e.pwd.abs

\* The directories that are searched, and the paths that are looked for there.
Dirs == UNION ({q.set : q \in PathSets} \cup {{e.stdpath[k] : k \in DOMAIN e.stdpath} : e \in ShellStates})
Sought == CommandNames \cup {Within(dir, name) : dir \in Dirs, name \in CommandNames}

ASSUME LookupAssumption ==
    /\ Dot \in Paths /\ "." \notin DashNames
    /\ \A name \in CommandNames : name \in Paths /\ name.comps # << >>
    /\ Dirs \subseteq Paths
    /\ \A e \in ShellStates : IsShell(e)
    /\ \A e \in ShellStates, path \in {p \in Sought : ~ p.abs} :
          /\ Located(e.cwd, Within(Dot, path)) = Located(e.cwd, path)
          /\ e.pwd # EmptyPath => Located(e.cwd, Within(e.pwd, path)) = Located(e.cwd, path)
===============================================================================
