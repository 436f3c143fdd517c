---------------------------- MODULE MCConcurrent ----------------------------
(* Two tasks and one file, whose mode every descriptor of it shares.       *)
EXTENDS Concurrent

CONSTANTS t1, t2, a, b, f

MCFileOf == [fd \in Fd |-> f]

=============================================================================
