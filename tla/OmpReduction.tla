---------------------------- MODULE OmpReduction ----------------------------
(***************************************************************************)
(* The reduction protocol of the OpenMP runtime (runtime/src/openmp.rs:    *)
(* afs_omp_reduce_i64 and its REAL, COMPLEX and array forms, which run the *)
(* same steps over slots of another type) as finish_reductions and         *)
(* finish_reductions_nowait of src/ir/lower/openmp.rs call it at the end   *)
(* of a worksharing construct.                                             *)
(*                                                                         *)
(* The team shares one workspace and one barrier for every construct of    *)
(* the region.  A section under the workspace mutex is one step; the       *)
(* barrier is std::sync::Barrier with its count and generation number.     *)
(* Program is a sequence of constructs; one with no list items is a loop   *)
(* without REDUCTION, of which only the closing barrier remains.           *)
(***************************************************************************)
EXTENDS Naturals, Sequences, SequencesExt

CONSTANTS
  TeamSize, Program,
  HasTeam    \* FALSE: the constructs are orphaned and called serially

ASSUME TeamSizeAssumption == TeamSize \in Nat \ {0}
ASSUME SerialAssumption == HasTeam \in BOOLEAN /\ (~HasTeam => TeamSize = 1)

VARIABLES
  shared,      \* the original objects of the list items
  slots,       \* ReductionWorkspace.slots, by thread number
  result,      \* ReductionWorkspace.result
  count,       \* Barrier: arrivals of the current round
  round,       \* Barrier: generation_id
  local,       \* the round each task waits to see change
  con, bind,   \* construct and list item each task is at
  original,    \* the task's copy of the original value, loaded before the call
  got,         \* what the call returned to the task
  pc

vars == <<shared, slots, result, count, round, local, con, bind, original, got, pc>>
barrierVars == <<count, round, local>>
placeVars == <<con, bind>>

Tasks == 0..(TeamSize - 1)
Constructs == 1..Len(Program)
Bindings(c) == 1..Len(Program[c].vars)
Objects == UNION {{Program[c].vars[b] : b \in Bindings(c)} : c \in Constructs}

\* The list item the task is at and the private copy it brings to it.
Object(t) == Program[con[t]].vars[bind[t]]
Private(t) == <<con[t], bind[t], t>>

\* combine_*_reduction on free values
Combine(left, right) == Append(left, right)

Goto(t, l) == pc' = [pc EXCEPT ![t] = l]

Init ==
  /\ shared = [v \in Objects |-> << >>]
  /\ slots = [t \in Tasks |-> << >>]
  /\ result = << >>
  /\ count = 0 /\ round = 0
  /\ local = [t \in Tasks |-> 0]
  /\ con = [t \in Tasks |-> 1] /\ bind = [t \in Tasks |-> 1]
  /\ original = [t \in Tasks |-> << >>]
  /\ got = [t \in Tasks |-> << >>]
  /\ pc = [t \in Tasks |-> "item"]

AtItem(t) == pc[t] = "item" /\ con[t] \in Constructs /\ bind[t] \in Bindings(con[t])

NextItem(t) ==
  /\ bind' = [bind EXCEPT ![t] = @ + 1]
  /\ Goto(t, "item")
  /\ UNCHANGED con

-----------------------------------------------------------------------------
(* finish_reductions and afs_omp_reduce_i64 *)

\* The generated code reads the original object, the runtime looks for the
\* team of the calling thread, and a status other than success is ERROR STOP.
Load(t) ==
  /\ AtItem(t)
  /\ ~Program[con[t]].nowait
  /\ original' = [original EXCEPT ![t] = shared[Object(t)]]
  /\ Goto(t, IF HasTeam THEN "post" ELSE "error_stop")
  /\ UNCHANGED <<shared, slots, result, barrierVars, placeVars, got>>

Post(t) ==
  /\ pc[t] = "post"
  /\ slots' = [slots EXCEPT ![t] = Private(t)]
  /\ Goto(t, "posted")
  /\ UNCHANGED <<shared, result, barrierVars, placeVars, original, got>>

\* Mutant: the original value is lost.
FoldForgets(t) ==
  /\ pc[t] = "fold"
  /\ result' = [k \in 1..TeamSize |-> slots[k - 1]]
  /\ Goto(t, "folded")
  /\ UNCHANGED <<shared, slots, barrierVars, placeVars, original, got>>

\* Mutant: thread 0, which has the result, does not wait for the others again.
FoldReturns(t) ==
  /\ pc[t] = "fold"
  /\ result' = FoldLeft(Combine, original[t], [k \in 1..TeamSize |-> slots[k - 1]])
  /\ Goto(t, "fetch")
  /\ UNCHANGED <<shared, slots, barrierVars, placeVars, original, got>>

\* Thread 0 folds the slots, in thread order, over its copy of the original.
Fold(t) ==
  /\ pc[t] = "fold"
  /\ result' = FoldLeft(Combine, original[t], [k \in 1..TeamSize |-> slots[k - 1]])
  /\ Goto(t, "folded")
  /\ UNCHANGED <<shared, slots, barrierVars, placeVars, original, got>>

Fetch(t) ==
  /\ pc[t] = "fetch"
  /\ got' = [got EXCEPT ![t] = result]
  /\ IF t = 0 THEN Goto(t, "store") /\ UNCHANGED placeVars ELSE NextItem(t)
  /\ UNCHANGED <<shared, slots, result, barrierVars, original>>

Store(t) ==
  /\ pc[t] = "store"
  /\ shared' = [shared EXCEPT ![Object(t)] = got[t]]
  /\ NextItem(t)
  /\ UNCHANGED <<slots, result, barrierVars, original, got>>

-----------------------------------------------------------------------------
(* finish_reductions_nowait and afs_omp_reduce_i64_nowait: read, combine   *)
(* and write the original object under the workspace mutex.                *)
CombineNowait(t) ==
  /\ AtItem(t)
  /\ Program[con[t]].nowait
  /\ IF HasTeam
     THEN /\ shared' = [shared EXCEPT ![Object(t)] = Combine(@, Private(t))]
          /\ NextItem(t)
     ELSE Goto(t, "error_stop") /\ UNCHANGED <<shared, placeVars>>
  /\ UNCHANGED <<slots, result, barrierVars, original, got>>

-----------------------------------------------------------------------------
(* std::sync::Barrier::wait *)

\* The barrier after the last list item, or of a loop without REDUCTION, is
\* left out under NOWAIT; without a team afs_omp_barrier does nothing.
EndOfConstruct(t) ==
  pc[t] = "item" /\ con[t] \in Constructs /\ bind[t] \notin Bindings(con[t])

NextConstruct(t) ==
  /\ con' = [con EXCEPT ![t] = @ + 1]
  /\ bind' = [bind EXCEPT ![t] = 1]
  /\ Goto(t, "item")

\* Mutant: the closing barrier is skipped where it is needed.
EndAlways(t) ==
  /\ EndOfConstruct(t)
  /\ NextConstruct(t)
  /\ UNCHANGED <<shared, slots, result, barrierVars, original, got>>

EndNowait(t) ==
  /\ EndOfConstruct(t)
  /\ Program[con[t]].nowait \/ ~HasTeam
  /\ NextConstruct(t)
  /\ UNCHANGED <<shared, slots, result, barrierVars, original, got>>

\* The point after the barrier a task stands at.
Passed(t) ==
  CASE pc[t] \in {"posted", "posted_wait"} ->
         Goto(t, IF t = 0 THEN "fold" ELSE "folded") /\ UNCHANGED placeVars
    [] pc[t] \in {"folded", "folded_wait"} -> Goto(t, "fetch") /\ UNCHANGED placeVars
    [] OTHER -> NextConstruct(t)

AtBarrier(t) ==
  \/ pc[t] \in {"posted", "folded"}
  \/ HasTeam /\ EndOfConstruct(t) /\ ~Program[con[t]].nowait

\* The last arrival starts a new round and goes on.
BarrierOpen(t) ==
  /\ AtBarrier(t)
  /\ count + 1 = TeamSize
  /\ count' = 0 /\ round' = round + 1
  /\ Passed(t)
  /\ UNCHANGED <<shared, slots, result, local, original, got>>

BarrierArrive(t) ==
  /\ AtBarrier(t)
  /\ count + 1 < TeamSize
  /\ count' = count + 1
  /\ local' = [local EXCEPT ![t] = round]
  /\ Goto(t, CASE pc[t] = "posted" -> "posted_wait"
               [] pc[t] = "folded" -> "folded_wait"
               [] OTHER -> "end_wait")
  /\ UNCHANGED <<shared, slots, result, round, placeVars, original, got>>

\* A waiter goes on when it sees that the round is not the one it arrived in.
BarrierLeave(t) ==
  /\ pc[t] \in {"posted_wait", "folded_wait", "end_wait"}
  /\ local[t] # round
  /\ Passed(t)
  /\ UNCHANGED <<shared, slots, result, barrierVars, original, got>>

-----------------------------------------------------------------------------
Finished(t) == pc[t] = "item" /\ con[t] \notin Constructs

Step(t) ==
  \/ Load(t) \/ Post(t) \/ Fold(t) \/ Fetch(t) \/ Store(t) \/ CombineNowait(t)
  \/ EndNowait(t) \/ BarrierOpen(t) \/ BarrierArrive(t) \/ BarrierLeave(t)

Next == \E t \in Tasks : Step(t)
Spec == Init /\ [][Next]_vars
FairSpec == Spec /\ \A t \in Tasks : WF_vars(Step(t))
-----------------------------------------------------------------------------
(* Properties *)

Contributions == UNION {{<<c, b, t>> : b \in Bindings(c), t \in Tasks} : c \in Constructs}

TeamFold(t) ==
  LET c == con[t]
      b == IF pc[t] = "store" THEN bind[t] ELSE bind[t] - 1
  IN  c \in Constructs /\ ~Program[c].nowait /\ b \in Bindings(c)
        /\ pc[t] \in {"store", "item", "end_wait"}
      => IsSuffix([k \in 1..TeamSize |-> <<c, b, k - 1>>], got[t])

Occurrences(x) ==
  LET s == shared[Program[x[1]].vars[x[2]]]
  IN  Len(SelectSeq(s, LAMBDA y : y = x))

\* Every task gets from afs_omp_reduce_i64 the fold of the whole team's private
\* copies of that very list item, in thread order, although the slots and the
\* result are reused by the next list item while slower tasks still have to
\* fetch; and once a task has passed a barrier, it finds in the original objects
\* every contribution of every construct before that barrier exactly once:
\* thread 0's store is not late, and no NOWAIT update is lost or repeated.
ReducedOnce ==
  \A t \in Tasks :
    /\ TeamFold(t)
    /\ \A x \in Contributions :
         (\E d \in Constructs : x[1] <= d /\ d < con[t] /\ ~Program[d].nowait)
           => Occurrences(x) = 1

\* Every task gets past every barrier of the region.
AllFinish == <>(\A t \in Tasks : Finished(t))

\* The team performs the atomic reductions of ReductionSpec.
Abstract == INSTANCE ReductionSpec WITH
  combined <- {x \in Contributions : Occurrences(x) > 0}
ImplementsReduction == Abstract!Spec
=============================================================================
