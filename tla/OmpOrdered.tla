----------------------------- MODULE OmpOrdered -----------------------------
(***************************************************************************)
(* The block ORDERED protocol of the OpenMP runtime (runtime/src/openmp.rs:*)
(* afs_omp_ordered_prepare, _enter, _exit), driven the way the compiler    *)
(* drives it (src/ir/lower/openmp.rs: lower_worksharing_loop and           *)
(* lower_ordered_region): each task of a team meets the same sequence of   *)
(* ORDERED worksharing loops, prepares each one, runs the iterations its   *)
(* static schedule gives it in increasing order, every iteration being one *)
(* ORDERED region, and ends the loop with a barrier unless it is NOWAIT.   *)
(*                                                                         *)
(* A section under the workspace mutex is one step; waiting on the         *)
(* condition variable, waking up, and what runs outside the mutex are      *)
(* steps of their own.  The generation counter is a u64 in the code; the   *)
(* number of loops a task meets, LastGeneration, stays below its wrap.     *)
(***************************************************************************)
EXTENDS Integers, FiniteSets

CONSTANTS
  Tasks,           \* the implicit tasks of the team
  LastGeneration,  \* how many ORDERED loops the region holds
  Trip,            \* Trip[g]: the trip count of the g-th loop
  Owner,           \* Owner[g][i]: the task whose schedule holds ordinal i
  Nowait           \* Nowait[g]: the g-th loop carries NOWAIT

Generations == 1..LastGeneration
Ordinals(g) == 0..(Trip[g] - 1)

ASSUME TasksAssumption == IsFiniteSet(Tasks) /\ Tasks # {}
ASSUME LoopsAssumption ==
  /\ LastGeneration \in Nat
  /\ Trip \in [Generations -> Nat]
  /\ \A g \in Generations : Owner[g] \in [Ordinals(g) -> Tasks]
  /\ Nowait \in [Generations -> BOOLEAN]

VARIABLES
  generations,  \* the workspace map: generation -> [prepared_tasks, next_ordinal]
  generation,   \* TeamContext.ordered_generation of each task
  active,       \* TeamContext.ordered_active_generation, 0 for None
  pos,          \* the task's iterations below pos are behind it in its loop
  iter,         \* the ordinal the task is entering or running
  pc            \* where the task is

vars == <<generations, generation, active, pos, iter, pc>>

Locations == {"idle", "loop", "check", "wait", "granted", "body", "release",
              "notify", "barrier", "error"}

TypeOK ==
  /\ DOMAIN generations \subseteq Generations
  /\ generations \in
       [DOMAIN generations -> [prepared_tasks : Nat, next_ordinal : Nat]]
  /\ generation \in [Tasks -> 0..LastGeneration]
  /\ active \in [Tasks -> 0..LastGeneration]
  /\ pos \in [Tasks -> Nat]
  /\ iter \in [Tasks -> Nat]
  /\ pc \in [Tasks -> Locations]

Init ==
  /\ generations = [g \in {} |-> [prepared_tasks |-> 0, next_ordinal |-> 0]]
  /\ generation = [t \in Tasks |-> 0]
  /\ active = [t \in Tasks |-> 0]
  /\ pos = [t \in Tasks |-> 0]
  /\ iter = [t \in Tasks |-> 0]
  /\ pc = [t \in Tasks |-> "idle"]

Goto(t, l) == pc' = [pc EXCEPT ![t] = l]

-----------------------------------------------------------------------------
(* afs_omp_ordered_prepare *)

\* generations.entry(g).or_default() with prepared_tasks + 1
Registered(g) ==
  [h \in DOMAIN generations \cup {g} |->
     IF h # g THEN generations[h]
     ELSE IF g \in DOMAIN generations
          THEN [generations[g] EXCEPT !.prepared_tasks = @ + 1]
          ELSE [prepared_tasks |-> 1, next_ordinal |-> 0]]

\* the entry of generation g - 1 is dropped once the whole team has prepared g
Retired(entries, g) ==
  IF entries[g].prepared_tasks = Cardinality(Tasks) /\ g > 1
  THEN [h \in DOMAIN entries \ {g - 1} |-> entries[h]]
  ELSE entries

Prepare(t) ==
  LET g == generation[t] + 1 IN
  /\ pc[t] = "idle"
  /\ g \in Generations
  /\ IF active[t] # 0
     THEN Goto(t, "error") /\ UNCHANGED <<generations, generation, pos>>
     ELSE /\ generation' = [generation EXCEPT ![t] = g]
          /\ pos' = [pos EXCEPT ![t] = 0]
          /\ IF Registered(g)[g].prepared_tasks > Cardinality(Tasks)
             THEN Goto(t, "error") /\ generations' = Registered(g)
             ELSE Goto(t, "loop") /\ generations' = Retired(Registered(g), g)
  /\ UNCHANGED <<active, iter>>

-----------------------------------------------------------------------------
(* afs_omp_ordered_enter *)

\* The loop reaches the task's next iteration and the call captures the
\* generation, outside the mutex.
Enter(t) ==
  LET g == generation[t] IN
  /\ pc[t] = "loop"
  /\ \E i \in Ordinals(g) :
       /\ i >= pos[t] /\ Owner[g][i] = t
       /\ \A j \in Ordinals(g) : pos[t] <= j /\ j < i => Owner[g][j] # t
       /\ iter' = [iter EXCEPT ![t] = i]
  /\ Goto(t, IF active[t] # 0 THEN "error" ELSE "check")
  /\ UNCHANGED <<generations, generation, active, pos>>

\* Mutant: an iteration that is not yet due is let in.
CheckNotDue(t) ==
  LET g == generation[t] IN
  /\ pc[t] = "check"
  /\ Goto(t, IF g \notin DOMAIN generations THEN "error" ELSE "granted")
  /\ UNCHANGED <<generations, generation, active, pos, iter>>

\* One round of the loop under the mutex.
Check(t) ==
  LET g == generation[t] IN
  /\ pc[t] = "check"
  /\ Goto(t, IF g \notin DOMAIN generations THEN "error"
             ELSE IF iter[t] < generations[g].next_ordinal THEN "error"
             ELSE IF iter[t] = generations[g].next_ordinal THEN "granted"
             ELSE "wait")
  /\ UNCHANGED <<generations, generation, active, pos, iter>>

\* A condition variable may wake a waiter that nobody notified.
SpuriousWakeup(t) ==
  /\ pc[t] = "wait"
  /\ Goto(t, "check")
  /\ UNCHANGED <<generations, generation, active, pos, iter>>

\* The mutex is dropped; the task records that it is inside the region.
Activate(t) ==
  /\ pc[t] = "granted"
  /\ active' = [active EXCEPT ![t] = generation[t]]
  /\ Goto(t, "body")
  /\ UNCHANGED <<generations, generation, pos, iter>>

-----------------------------------------------------------------------------
(* afs_omp_ordered_exit *)

\* The region's statements are over; ordered_active_generation.take().
Exit(t) ==
  /\ pc[t] = "body"
  /\ active' = [active EXCEPT ![t] = 0]
  /\ pos' = [pos EXCEPT ![t] = iter[t] + 1]
  /\ Goto(t, "release")
  /\ UNCHANGED <<generations, generation, iter>>

Release(t) ==
  LET g == generation[t] IN
  /\ pc[t] = "release"
  /\ IF g \in DOMAIN generations
     THEN /\ generations' = [generations EXCEPT ![g].next_ordinal = @ + 1]
          /\ Goto(t, "notify")
     ELSE Goto(t, "error") /\ UNCHANGED generations
  /\ UNCHANGED <<generation, active, pos, iter>>

\* Mutant: notify_one, which may pick a task whose turn it is not.
NotifyOne(t) ==
  LET waiting == {u \in Tasks : pc[u] = "wait"} IN
  /\ pc[t] = "notify"
  /\ IF waiting = {} THEN Goto(t, "loop")
     ELSE \E u \in waiting : pc' = [pc EXCEPT ![t] = "loop", ![u] = "check"]
  /\ UNCHANGED <<generations, generation, active, pos, iter>>

\* notify_all after the mutex is dropped: every waiter of the workspace,
\* whatever its generation, goes back to its check.
NotifyAll(t) ==
  /\ pc[t] = "notify"
  /\ pc' = [u \in Tasks |-> IF u = t THEN "loop"
                            ELSE IF pc[u] = "wait" THEN "check" ELSE pc[u]]
  /\ UNCHANGED <<generations, generation, active, pos, iter>>

-----------------------------------------------------------------------------
(* The end of the worksharing loop *)

NoMoreIterations(t) ==
  \A i \in Ordinals(generation[t]) : i >= pos[t] => Owner[generation[t]][i] # t

FinishNowait(t) ==
  /\ pc[t] = "loop"
  /\ NoMoreIterations(t)
  /\ Nowait[generation[t]]
  /\ Goto(t, "idle")
  /\ UNCHANGED <<generations, generation, active, pos, iter>>

\* std::sync::Barrier: the last arrival releases the team.
FinishBarrier(t) ==
  /\ pc[t] = "loop"
  /\ NoMoreIterations(t)
  /\ ~Nowait[generation[t]]
  /\ pc' = IF \A u \in Tasks \ {t} : pc[u] = "barrier"
           THEN [u \in Tasks |-> "idle"]
           ELSE [pc EXCEPT ![t] = "barrier"]
  /\ UNCHANGED <<generations, generation, active, pos, iter>>

-----------------------------------------------------------------------------
Finished(t) == pc[t] = "idle" /\ generation[t] = LastGeneration

Terminated == (\A t \in Tasks : Finished(t)) /\ UNCHANGED vars

Step(t) ==
  \/ Prepare(t) \/ Enter(t) \/ Check(t) \/ Activate(t)
  \/ Exit(t) \/ Release(t) \/ NotifyAll(t)
  \/ FinishNowait(t) \/ FinishBarrier(t)

Next == (\E t \in Tasks : Step(t) \/ SpuriousWakeup(t)) \/ Terminated

Spec == Init /\ [][Next]_vars

\* The operating system keeps scheduling every thread; nobody promises a
\* spurious wakeup.
FairSpec == Spec /\ \A t \in Tasks : WF_vars(Step(t))

-----------------------------------------------------------------------------
(* Properties *)

\* Task Owner[g][i] has left the ORDERED region of ordinal i of loop g: it is
\* past that iteration in that loop, or already in a later loop.
Completed(g, i) ==
  LET u == Owner[g][i] IN
  \/ generation[u] > g
  \/ generation[u] = g /\ pos[u] > i

\* Regions run in logical iteration order: while a task runs the ORDERED
\* region of an ordinal, the regions of all smaller ordinals of that loop are
\* over, although afs_omp_ordered_enter only compares with a shared counter
\* that other tasks advance and NOWAIT lets tasks be in different loops.
LogicalOrder ==
  \A t \in Tasks :
    pc[t] = "body" =>
      \A j \in Ordinals(generation[t]) : j < iter[t] => Completed(generation[t], j)

\* At most one task of the team is inside the ORDERED region of a loop.
OneInRegion ==
  \A t, u \in Tasks :
    pc[t] = "body" /\ pc[u] = "body" /\ generation[t] = generation[u] => t = u

\* A program the compiler accepts never gets AFS_OMP_ERROR_INVALID_ORDERED
\* (which its generated code turns into ERROR STOP): no entry is retired while
\* a task may still wait on it or advance it.
NoProtocolError == \A t \in Tasks : pc[t] # "error"

\* The workspace holds exactly the loops some task has prepared and not every
\* task has left behind, so entries neither leak nor vanish early.
RetainedGenerations ==
  DOMAIN generations =
    {g \in Generations : /\ \E t \in Tasks : generation[t] >= g
                         /\ \E t \in Tasks : generation[t] <= g}

\* Every task gets through all its ORDERED loops: a waiter is always notified
\* after the iteration before its own is over.
AllFinish == <>(\A t \in Tasks : Finished(t))

\* The regions of each loop begin one at a time in iteration order, whatever
\* the tasks do: the three entry points implement OrderedRegions.
DoneIterations(g) == {i \in Ordinals(g) : Completed(g, i)}
OpenIterations(g) ==
  {iter[t] : t \in {u \in Tasks : generation[u] = g /\ pc[u] = "body"}}

Regions == INSTANCE OrderedRegions WITH
  done    <- [g \in Generations |-> DoneIterations(g)],
  running <- [g \in Generations |-> OpenIterations(g)]

ImplementsRegions == Regions!Spec

-----------------------------------------------------------------------------
(* The inductive invariant behind the safety properties *)

\* The tasks that have prepared loop g.
Preparers(g) == {t \in Tasks : generation[t] >= g}

PreparedCount ==
  \A g \in DOMAIN generations :
    generations[g].prepared_tasks = Cardinality(Preparers(g))

InLoop ==
  \A t \in Tasks :
    /\ pc[t] # "idle" => generation[t] \in Generations
    /\ active[t] = IF pc[t] = "body" THEN generation[t] ELSE 0

\* A task that has begun to enter a region is at an iteration of its own that
\* nobody has passed; one that was let in is at the loop's next ordinal.
Inside == {"granted", "body", "release"}

OwnIteration ==
  \A t \in Tasks :
    LET g == generation[t] IN
    pc[t] \in Inside \cup {"check", "wait"} =>
      /\ iter[t] \in Ordinals(g) /\ Owner[g][iter[t]] = t
      /\ iter[t] >= generations[g].next_ordinal
      /\ pc[t] \in Inside => iter[t] = generations[g].next_ordinal
      /\ pc[t] = "release" => pos[t] = iter[t] + 1
      /\ pc[t] # "release" => pos[t] <= iter[t]

\* The ordinals below the shared counter are over.
PassedCompleted ==
  \A g \in DOMAIN generations : \A j \in Ordinals(g) :
    j < generations[g].next_ordinal => Completed(g, j)

\* A task between loops has no iteration left in the one behind it.
LeftNothing ==
  \A t \in Tasks :
    pc[t] \in {"idle", "barrier"} /\ generation[t] \in Generations => NoMoreIterations(t)

\* All of it together; every action of every task preserves it.
IndInv ==
  /\ TypeOK /\ NoProtocolError /\ RetainedGenerations
  /\ PreparedCount /\ InLoop /\ OwnIteration /\ PassedCompleted /\ LeftNothing
=============================================================================
