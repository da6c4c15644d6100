---------------------------- MODULE ReductionSpec ----------------------------
(***************************************************************************)
(* What the end of a worksharing construct with REDUCTION clauses promises *)
(* (runtime/src/openmp.rs: afs_omp_reduce_*, and their _nowait forms): the *)
(* private copies of the whole team are combined into the original object  *)
(* at once and in thread order, or, under NOWAIT, one at a time in any     *)
(* order; no contribution is lost or combined twice.                       *)
(*                                                                         *)
(* Values are free: combining appends the contribution to the value, so    *)
(* two values are equal only when the same contributions were combined in  *)
(* the same order, which is what a REAL reduction can tell apart.          *)
(***************************************************************************)
EXTENDS Naturals, Sequences

CONSTANTS
  TeamSize,  \* number of implicit tasks
  Program    \* the region's constructs: [vars : sequence of objects, nowait]

VARIABLES
  shared,    \* the original objects
  combined   \* which contributions <<construct, binding, task>> are in

Tasks == 0..(TeamSize - 1)
Constructs == 1..Len(Program)
Bindings(c) == 1..Len(Program[c].vars)
Objects == UNION {{Program[c].vars[b] : b \in Bindings(c)} : c \in Constructs}

\* The contributions of the team to one list item, in thread order.
TeamContributions(c, b) == [k \in 1..TeamSize |-> <<c, b, k - 1>>]

SpecInit ==
  /\ shared = [v \in Objects |-> << >>]
  /\ combined = {}

CombineTeam(c, b) ==
  /\ ~Program[c].nowait
  /\ \A t \in Tasks : <<c, b, t>> \notin combined
  /\ shared' = [shared EXCEPT ![Program[c].vars[b]] = @ \o TeamContributions(c, b)]
  /\ combined' = combined \cup {<<c, b, t>> : t \in Tasks}

CombineOne(c, b, t) ==
  /\ Program[c].nowait
  /\ <<c, b, t>> \notin combined
  /\ shared' = [shared EXCEPT ![Program[c].vars[b]] = Append(@, <<c, b, t>>)]
  /\ combined' = combined \cup {<<c, b, t>>}

SpecNext ==
  \E c \in Constructs : \E b \in Bindings(c) :
    CombineTeam(c, b) \/ \E t \in Tasks : CombineOne(c, b, t)

Spec == SpecInit /\ [][SpecNext]_<<shared, combined>>
=============================================================================
