--------------------------- MODULE MCRedirection ---------------------------
(***************************************************************************)
(* Small instances of Redirection: the user's descriptors are 0 and 1.     *)
(***************************************************************************)
EXTENDS Redirection
=============================================================================
