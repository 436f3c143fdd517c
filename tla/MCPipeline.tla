----------------------------- MODULE MCPipeline -----------------------------
(***************************************************************************)
(* Small instances of Pipeline.                                            *)
(***************************************************************************)
EXTENDS Pipeline
=============================================================================
