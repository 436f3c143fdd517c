---------------------------- MODULE MCExecution ----------------------------
(* Small instances of Execution for TLC. *)
EXTENDS Execution
=============================================================================
