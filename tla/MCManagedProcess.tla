-------------------------- MODULE MCManagedProcess --------------------------
(* One command that may write more to stdout than is captured, and to       *)
(* stderr as much.                                                          *)
EXTENDS ManagedProcess

MCMaxWritten == <<2, 1>>
=============================================================================
