----------------------------- MODULE Variables -----------------------------
(***************************************************************************)
(* The variables of the shell: yash-env/src/variable.rs, and the commands  *)
(* that use it: assignments, functions, built-ins and external utilities   *)
(* with temporary assignments (yash-semantics/src/assign.rs and            *)
(* command/simple_command), typeset, export, readonly, unset, set, shift.  *)
(*                                                                         *)
(* `all` is all_variables, one stack of variables per name; each knows the *)
(* index of its context.  `contexts` is the stack of contexts, the base    *)
(* context first (index 1 here, 0 in the code).  `task` is what the        *)
(* command being started or left still has to do.                          *)
(***************************************************************************)
EXTENDS Integers, Sequences

CONSTANTS
    Names, Values,  \* names and values of variables
    ParamLists,     \* lists of positional parameters, the empty one included
    MaxContexts,    \* bound: how deep contexts may be nested
    MaxAssigns      \* bound: how many assignments a command may have

NoValue == "no value"

ASSUME VariablesAssumption ==
    /\ NoValue \notin Values
    /\ <<>> \in ParamLists
    /\ MaxContexts \in Nat \ {0} /\ MaxAssigns \in Nat

VARIABLES
    all,            \* all_variables
    contexts,       \* contexts
    allexport,      \* the AllExport option
    task,           \* what the running command still has to do
    open            \* history: the commands whose contexts are on the stack

vvars == <<all, contexts, allexport, task, open>>

Variable == [value : Values \cup {NoValue}, exported : BOOLEAN, ro : BOOLEAN]
Default == [value |-> NoValue, exported |-> FALSE, ro |-> FALSE]

-----------------------------------------------------------------------------
(* VariableSet.  The operators take a stack and return the new one.        *)

Last(s) == s[Len(s)]
Front(s) == SubSeq(s, 1, Len(s) - 1)
Highest(S) == CHOOSE i \in S : \A j \in S : j <= i
IsRegular(i) == contexts[i].kind = "Regular"

TopmostRegular == Highest({i \in 1..Len(contexts) : IsRegular(i)})
IndexOfContext(scope) ==
    CASE scope = "Global" -> 1
      [] scope = "Local" -> TopmostRegular
      [] scope = "Volatile" -> Len(contexts)

\* The variable in a lower context is copied to the volatile one on top.
\* A wrong version: the copy starts as a new variable.
NewInVolatile(stack) ==
    IF stack # <<>> /\ Last(stack).ctx = Len(contexts) THEN stack
    ELSE Append(stack, [var |-> Default, ctx |-> Len(contexts)])
CopyToVolatile(stack) ==
    IF stack = <<>> THEN <<[var |-> Default, ctx |-> Len(contexts)]>>
    ELSE IF Last(stack).ctx = Len(contexts) THEN stack
    ELSE Append(stack, [var |-> Last(stack).var, ctx |-> Len(contexts)])

\* The variables in volatile contexts are removed; the topmost replaces the
\* one in the regular context below, or a new variable in context index.
MoveToRegular(stack, index) ==
    LET there == {k \in 1..Len(stack) : stack[k].ctx >= index /\ IsRegular(stack[k].ctx)}
        below == Highest({0} \cup {k \in 1..Len(stack) : stack[k].ctx < index})
    IN  IF there # {} THEN [SubSeq(stack, 1, Highest(there)) EXCEPT ![Highest(there)].var = Last(stack).var]
        ELSE Append(SubSeq(stack, 1, below),
                    [var |-> IF below = Len(stack) THEN Default ELSE Last(stack).var,
                     ctx |-> index])

GetOrNew(stack, scope) ==
    IF scope = "Volatile" THEN CopyToVolatile(stack)
    ELSE MoveToRegular(stack, IndexOfContext(scope))

\* VariableRefMut::export on the top of the stack.
Exported(stack) == [stack EXCEPT ![Len(stack)].var.exported = TRUE]

\* Env::get_or_create_variable
GetOrCreate(n, scope) ==
    LET stack == GetOrNew(all[n], scope)
    IN  IF allexport THEN Exported(stack) ELSE stack

\* VariableRefMut::assign on the top of the stack.
IsReadOnly(stack) == Last(stack).var.ro
Assigned(stack, v) == [stack EXCEPT ![Len(stack)].var.value = v]

\* The variables left in the contexts below index.
\* A wrong version: pop_context leaves the stacks alone.
StackNotPopped(stack) == stack
StackPopped(stack) == IF stack # <<>> /\ Last(stack).ctx >= Len(contexts) THEN Front(stack) ELSE stack

Get(stack) == IF stack = <<>> THEN [var |-> Default, ctx |-> 0] ELSE Last(stack)

-----------------------------------------------------------------------------
(* The commands.  A task is what is being done: "run" when a list or the   *)
(* body of a function or built-in is running, "start" while a command's    *)
(* assignments are performed, "leave" while a function returns, "unwind"   *)
(* after an error that ends everything up to the base context.             *)

Run == [do |-> "run", kind |-> "none", assigns |-> <<>>]
Unwind == [do |-> "unwind", kind |-> "none", assigns |-> <<>>]

Touch(n, from) ==
    [k \in 1..Len(open) |->
        IF open[k].base >= from THEN [open[k] EXCEPT !.touched = @ \cup {n}] ELSE open[k]]

\* Scope Local leaves the contexts of the current function and below alone.
Modify(n, scope, stack) ==
    /\ all' = [all EXCEPT ![n] = stack]
    /\ open' = IF scope = "Volatile" THEN open
               ELSE Touch(n, IF scope = "Local" THEN TopmostRegular ELSE 1)
    /\ UNCHANGED <<contexts, allexport>>

\* An assignment command, the variable of a for loop, ${n=v}, read, getopts.
Assign(n, v) ==
    /\ task = Run
    /\ LET stack == GetOrCreate(n, "Global")
       IN  IF IsReadOnly(stack)
           THEN Modify(n, "Global", stack) /\ task' = Unwind
           ELSE Modify(n, "Global", Assigned(stack, v)) /\ UNCHANGED task

\* SetVariables::execute for one name: an assignment, if any, and an
\* attribute.  typeset runs in a volatile context of its own; export and
\* readonly are special built-ins, so that their failure ends everything.
WithAttr(var, attr) ==
    CASE attr = "readonly" -> [var EXCEPT !.ro = TRUE]
      [] attr = "export" -> [var EXCEPT !.exported = TRUE]
      [] attr = "unexport" -> [var EXCEPT !.exported = FALSE]
      [] OTHER -> var
SetVariable(n, v, scope, attr, special) ==
    /\ task = Run
    /\ LET stack == GetOrCreate(n, scope)
           fails == v # NoValue /\ IsReadOnly(stack)
           new == IF v = NoValue THEN stack ELSE Assigned(stack, v)
       IN  /\ Modify(n, scope, IF fails THEN stack
                               ELSE [new EXCEPT ![Len(new)].var = WithAttr(Last(new).var, attr)])
           /\ task' = IF fails /\ special THEN Unwind ELSE task
Typeset(n, v, scope, attr) ==
    contexts[Len(contexts)].kind = "Volatile" /\ SetVariable(n, v, scope, attr, FALSE)
ExportOrReadonly(n, v, attr) == SetVariable(n, v, "Global", attr, TRUE)

\* unset_variables for one name.
Unset(n) ==
    /\ task = Run
    /\ IF \E k \in 1..Len(all[n]) : all[n][k].var.ro
       THEN UNCHANGED <<all, contexts, allexport, open>> /\ task' = Unwind
       ELSE Modify(n, "Global", <<>>) /\ UNCHANGED task

\* set -- and shift change the parameters of the topmost regular context.
SetOrShift(p) ==
    /\ task = Run
    /\ p # contexts[TopmostRegular].params
    /\ contexts' = [contexts EXCEPT ![TopmostRegular].params = p]
    /\ UNCHANGED <<all, allexport, task, open>>

SetAllexport(a) ==
    /\ task = Run /\ allexport' = a /\ a # allexport
    /\ UNCHANGED <<all, contexts, task, open>>

-----------------------------------------------------------------------------
(* Commands with contexts of their own.                                    *)

PushContext(kind, p) == contexts' = Append(contexts, [kind |-> kind, params |-> p])

\* execute_builtin (unless special), execute_function and
\* execute_external_utility first push a volatile context.
Start(kind, assigns) ==
    /\ task = Run
    /\ Len(contexts) + (IF kind = "function" THEN 2 ELSE 1) <= MaxContexts
    /\ PushContext("Volatile", <<>>)
    /\ task' = [do |-> "start", kind |-> kind, assigns |-> assigns]
    /\ open' = Append(open, [base |-> Len(contexts) + 1, touched |-> {},
                             before |-> [n \in Names |-> Get(all[n]).var]])
    /\ UNCHANGED <<all, allexport>>

\* perform_assignments: the next assignment, exported.
AssignTemporarily ==
    /\ task.do = "start" /\ task.assigns # <<>>
    /\ LET n == Head(task.assigns)[1]
           stack == GetOrCreate(n, "Volatile")
           new == Assigned(stack, Head(task.assigns)[2])
       IN  IF IsReadOnly(stack)
           THEN Modify(n, "Volatile", stack) /\ task' = Unwind
           ELSE /\ Modify(n, "Volatile", Exported(new))
                /\ task' = [task EXCEPT !.assigns = Tail(@)]

\* execute_function_body pushes the context of the function.
RunFunction(p) ==
    /\ task = [do |-> "start", kind |-> "function", assigns |-> <<>>]
    /\ PushContext("Regular", p)
    /\ task' = Run
    /\ UNCHANGED <<all, allexport, open>>

RunBuiltin ==
    /\ task = [do |-> "start", kind |-> "builtin", assigns |-> <<>>]
    /\ task' = Run
    /\ UNCHANGED <<all, contexts, allexport, open>>

\* The utility has been started with the exported variables.
RunExternal ==
    /\ task = [do |-> "start", kind |-> "external", assigns |-> <<>>]
    /\ task' = [Unwind EXCEPT !.do = "leave"]
    /\ UNCHANGED <<all, contexts, allexport, open>>

\* pop_context_impl
PopContext ==
    /\ Len(contexts) > 1
    /\ all' = [n \in Names |-> StackPopped(all[n])]
    /\ contexts' = Front(contexts)
    /\ open' = IF Last(open).base = Len(contexts) THEN Front(open) ELSE open
    /\ UNCHANGED allexport

EndBody ==
    /\ task = Run /\ Len(contexts) > 1
    /\ PopContext
    /\ task' = IF IsRegular(Len(contexts)) THEN [Unwind EXCEPT !.do = "leave"] ELSE Run
LeaveCommand ==
    /\ task.do = "leave" /\ PopContext /\ task' = Run
UnwindOne ==
    /\ task.do = "unwind"
    /\ IF Len(contexts) = 1 THEN task' = Run /\ UNCHANGED <<all, contexts, allexport, open>>
       ELSE PopContext /\ UNCHANGED task

-----------------------------------------------------------------------------
VInit ==
    /\ all = [n \in Names |-> <<>>]
    /\ contexts = <<[kind |-> "Regular", params |-> <<>>]>>
    /\ allexport = FALSE
    /\ task = Run
    /\ open = <<>>

Assigns == UNION {[1..k -> Names \X Values] : k \in 0..MaxAssigns}
VNext ==
    \/ \E n \in Names, v \in Values : Assign(n, v)
    \/ \E n \in Names, v \in Values \cup {NoValue}, scope \in {"Global", "Local"},
          attr \in {"none", "readonly", "export", "unexport"} : Typeset(n, v, scope, attr)
    \/ \E n \in Names, v \in Values \cup {NoValue}, attr \in {"readonly", "export"} :
          ExportOrReadonly(n, v, attr)
    \/ \E n \in Names : Unset(n)
    \/ \E p \in ParamLists : SetOrShift(p)
    \/ \E a \in BOOLEAN : SetAllexport(a)
    \/ \E kind \in {"function", "builtin", "external"}, assigns \in Assigns : Start(kind, assigns)
    \/ AssignTemporarily
    \/ \E p \in ParamLists : RunFunction(p)
    \/ RunBuiltin \/ RunExternal
    \/ EndBody \/ LeaveCommand \/ UnwindOne

VSpec == VInit /\ [][VNext]_vvars

-----------------------------------------------------------------------------
(* Properties.                                                             *)

VTypeOK ==
    /\ all \in [Names -> Seq([var : Variable, ctx : 1..MaxContexts])]
    /\ contexts \in Seq([kind : {"Regular", "Volatile"}, params : ParamLists])
    /\ allexport \in BOOLEAN
    /\ task \in [do : {"run", "start", "leave", "unwind"},
                 kind : {"none", "function", "builtin", "external"}, assigns : Assigns]
    /\ open \in Seq([base : 1..MaxContexts, touched : SUBSET Names, before : [Names -> Variable]])

\* The stack of a name has at most one variable per context, in the order of
\* the contexts, and none of a context that is gone: what pop_context, which
\* pops at most one variable per name, relies on, and what the tests'
\* assert_normalized checks.
Normalized ==
    \A n \in Names :
        /\ \A i, j \in 1..Len(all[n]) : i < j => all[n][i].ctx < all[n][j].ctx
        /\ \A i \in 1..Len(all[n]) : all[n][i].ctx \in 1..Len(contexts)

\* When a command with temporary assignments is over, in whatever way, every
\* variable that nothing has assigned for good meanwhile is what it was when
\* the command was started: value, export flag and all.
TemporaryUndone ==
    [][Len(open') < Len(open) =>
          \A n \in Names \ Last(open).touched : Get(all'[n]).var = Last(open).before[n]]_vvars

\* The variable set is a stack of scopes with variables of their own, each
\* read-only variable keeping its value while its scope lives.
VariablesIn(i) ==
    [n \in {m \in Names : \E k \in 1..Len(all[m]) : all[m][k].ctx = i} |->
        all[n][CHOOSE k \in 1..Len(all[n]) : all[n][k].ctx = i].var]
ScopeStack ==
    [i \in 1..Len(contexts) |->
        [kind |-> contexts[i].kind, vars |-> VariablesIn(i), params |-> contexts[i].params]]
Abstract == INSTANCE Scopes WITH Params <- ParamLists, scopes <- ScopeStack
ImplementsScopes == Abstract!Spec

-----------------------------------------------------------------------------
(* The inductive invariant.                                                *)

\* The base context stays, and every command whose contexts are on the stack
\* has a volatile one at its base, the later command the higher one.
Nested ==
    /\ Len(contexts) \in 1..MaxContexts /\ contexts[1].kind = "Regular"
    /\ \A k \in 1..Len(open) :
          /\ open[k].base \in 2..Len(contexts)
          /\ contexts[open[k].base].kind = "Volatile"
          /\ \A l \in 1..k - 1 : open[l].base < open[k].base

\* A command that is starting is in the context it began with.
Started ==
    task.do = "start" =>
        /\ open # <<>> /\ Last(open).base = Len(contexts)
        /\ task.kind = "function" => Len(contexts) < MaxContexts

\* What a name refers to without the contexts from b on.
VisibleBelow(stack, b) ==
    LET below == {k \in 1..Len(stack) : stack[k].ctx < b}
    IN  IF below = {} THEN Default ELSE stack[Highest(below)].var

\* Nothing but an assignment for good changes what a command will uncover.
Undoable ==
    \A k \in 1..Len(open) : \A n \in Names \ open[k].touched :
        VisibleBelow(all[n], open[k].base) = open[k].before[n]

\* A temporary variable never hides the value of a read-only one: it began
\* as a copy.
CopiesRespect ==
    \A n \in Names : \A i, k \in 1..Len(all[n]) :
        i < k /\ (\A j \in i + 1..k : ~IsRegular(all[n][j].ctx)) =>
            Abstract!Respects(all[n][k].var, all[n][i].var)

VIInv == VTypeOK /\ Normalized /\ Nested /\ Started /\ Undoable /\ CopiesRespect
=============================================================================
