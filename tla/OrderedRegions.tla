--------------------------- MODULE OrderedRegions ---------------------------
(***************************************************************************)
(* What block ORDERED promises a program, without tasks, counters or       *)
(* condition variables: in each worksharing loop the regions of the        *)
(* iterations begin one at a time, each once, in iteration order.  Loops   *)
(* are independent: NOWAIT lets two of them be under way.                  *)
(***************************************************************************)
EXTENDS Integers

CONSTANTS LastGeneration, Trip

Loops == 1..LastGeneration
Iterations(g) == 0..(Trip[g] - 1)

VARIABLES
  done,    \* done[g]: the iterations of loop g whose region is over
  running  \* running[g]: the iterations of loop g whose region is open

vars == <<done, running>>

Init ==
  /\ done = [g \in Loops |-> {}]
  /\ running = [g \in Loops |-> {}]

Begin(g, i) ==
  /\ running[g] = {}
  /\ i \notin done[g]
  /\ \A j \in Iterations(g) : j < i => j \in done[g]
  /\ running' = [running EXCEPT ![g] = {i}]
  /\ UNCHANGED done

End(g, i) ==
  /\ running[g] = {i}
  /\ running' = [running EXCEPT ![g] = {}]
  /\ done' = [done EXCEPT ![g] = @ \cup {i}]

Next == \E g \in Loops : \E i \in Iterations(g) : Begin(g, i) \/ End(g, i)

Spec == Init /\ [][Next]_vars
=============================================================================
