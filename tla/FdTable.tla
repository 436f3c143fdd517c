------------------------------ MODULE FdTable ------------------------------
(***************************************************************************)
(* The file descriptor table of a process and the system calls that change *)
(* it (yash-env/src/system/virtual/process.rs and the Dup, Pipe, Open and  *)
(* Close implementations of yash-env/src/system/virtual.rs).               *)
(*                                                                         *)
(* A table is a function whose domain is the set of the open descriptors,  *)
(* as the BTreeMap of Process::fds.  A body (FdBody) is a record of the    *)
(* open file description and the close-on-exec flag; what a description    *)
(* is is left to the modules that use this one.  No call changes a table   *)
(* when it fails.                                                          *)
(***************************************************************************)
EXTENDS Integers, FiniteSets, FiniteSetsExt

CONSTANT OpenMax    \* soft limit of Resource::NOFILE: descriptors are below it

ASSUME OpenMaxAssumption == OpenMax \in Nat

\* t is a table whose descriptions are in Ofd.
IsTable(t, Ofd) ==
    /\ DOMAIN t \subseteq 0 .. OpenMax - 1
    /\ t \in [DOMAIN t -> [ofd : Ofd, cloexec : BOOLEAN]]

Body(ofd, cloexec) == [ofd |-> ofd, cloexec |-> cloexec]

\* The smallest descriptor that is not open and not below min.
MinUnusedFd(t, min) == Min((min .. min + OpenMax) \ DOMAIN t)

\* A new descriptor at min or above can be had (open_fd_ge; EMFILE if not).
CanOpen(t, min) == MinUnusedFd(t, min) < OpenMax

SetFd(t, fd, body) ==
    [f \in DOMAIN t \union {fd} |-> IF f = fd THEN body ELSE t[f]]

CloseFd(t, fd) == [f \in DOMAIN t \ {fd} |-> t[f]]

OpenFd(t, min, body) == SetFd(t, MinUnusedFd(t, min), body)

\* dup: EBADF unless from is open, EMFILE unless a descriptor is left.
CanDup(t, from, min) == from \in DOMAIN t /\ CanOpen(t, min)
Dup(t, from, min, cloexec) == OpenFd(t, min, Body(t[from].ofd, cloexec))

\* dup2 replaces whatever the target was and clears close-on-exec; EBADF
\* unless from is open and the target is below the limit.
CanDup2(t, from, to) == from \in DOMAIN t /\ to \in 0 .. OpenMax - 1
Dup2(t, from, to) ==
    IF CanDup2(t, from, to) THEN SetFd(t, to, Body(t[from].ofd, FALSE)) ELSE t

\* pipe: the reading end gets the smallest descriptor, the writing end the
\* next; if there is none for the writing end the reading end is closed again.
PipeReader(t) == MinUnusedFd(t, 0)
PipeWriter(t) == MinUnusedFd(SetFd(t, PipeReader(t), Body(0, FALSE)), 0)
CanPipe(t) == CanOpen(t, 0) /\ PipeWriter(t) < OpenMax
Pipe(t, reader, writer) ==
    SetFd(SetFd(t, PipeReader(t), Body(reader, FALSE)),
          PipeWriter(t), Body(writer, FALSE))

IsCloexec(t, fd) == fd \in DOMAIN t /\ t[fd].cloexec
=============================================================================
