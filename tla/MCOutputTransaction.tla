------------------------ MODULE MCOutputTransaction ------------------------
(* Two links at work on the same destinations and the same cache, with an  *)
(* executable and a dependency file each; the two may be aimed at one      *)
(* destination.                                                            *)
EXTENDS RuntimeCache, TLC

MCLayouts == {[i \in 1..2 |-> i], [i \in 1..2 |-> 1]}
Symmetry == Permutations(Processes)
=============================================================================
