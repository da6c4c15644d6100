---------------------------- MODULE MCOmpOrdered ----------------------------
(* Three tasks, three loops: a chunked one, one with fewer iterations than *)
(* tasks, and a contiguous one; the first two are NOWAIT.                  *)
EXTENDS OmpOrdered

MCTrip == <<4, 2, 3>>
MCOwner == << [i \in 0..3 |-> i % 3], [i \in 0..1 |-> i], [i \in 0..2 |-> i] >>
MCNowait == <<TRUE, TRUE, FALSE>>
=============================================================================
