----------------------------- MODULE MCOmpTeams -----------------------------
(* Instances of OmpTeams: one initial thread and a pool of workers         *)
(* that is larger than OMP_THREAD_LIMIT lets it use.                       *)
EXTENDS OmpTeams
CONSTANTS r1, w1, w2, w3
MCNThreads == <<3, 2>>
=============================================================================
