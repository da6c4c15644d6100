----------------------------- MODULE OmpDoacross -----------------------------
(***************************************************************************)
(* The ORDERED(2) doacross protocol of the OpenMP runtime                  *)
(* (runtime/src/openmp.rs: afs_omp_doacross_prepare, _wait, _post) as      *)
(* lower_worksharing_loop and lower_doacross_directive drive it: the outer *)
(* loop is shared out by a static schedule, every inner iteration waits    *)
(* for its sink vectors in turn and later posts its own coordinates.  The  *)
(* validator (src/sema/validate/openmp.rs) admits only sink vectors that   *)
(* are aligned with the loop steps and name a lexicographically earlier    *)
(* iteration, and exactly one source after the sinks.                      *)
(*                                                                         *)
(* Granularity and generations are those of OmpOrdered.                    *)
(***************************************************************************)
EXTENDS OmpLoop, FiniteSets, Sequences

CONSTANTS
  Tasks, LastGeneration,
  Shape,     \* Shape[g]: the DoacrossShape of the g-th loop nest
  Sinks,     \* Sinks[g]: its sink vectors, offsets of the two loop variables
  Owner,     \* Owner[g][o]: the task whose schedule holds outer ordinal o
  Nowait

Generations == 1..LastGeneration
OuterCount(g) ==
  LoopIterationCount(Shape[g].outer_lower, Shape[g].outer_upper, Shape[g].outer_step)
InnerCount(g) ==
  LoopIterationCount(Shape[g].inner_lower, Shape[g].inner_upper, Shape[g].inner_step)
Outer(g) == 0..(OuterCount(g) - 1)
Inner(g) == 0..(InnerCount(g) - 1)
Points(g) == Outer(g) \X Inner(g)

\* validate_doacross_sink_vector: aligned and lexicographically earlier
AcceptedSink(g, v) ==
  LET so == Shape[g].outer_step  si == Shape[g].inner_step IN
  /\ Divides(so, v[1]) /\ Divides(si, v[2])
  /\ \/ ExactQuotient(v[1], so) < 0
     \/ v[1] = 0 /\ ExactQuotient(v[2], si) < 0

ASSUME TasksAssumption == IsFiniteSet(Tasks) /\ Tasks # {}
ASSUME NestsAssumption ==
  /\ LastGeneration \in Nat
  /\ \A g \in Generations :
       /\ \A f \in {"outer_lower", "outer_upper", "outer_step",
                    "inner_lower", "inner_upper", "inner_step"} : Shape[g][f] \in Int
       /\ Shape[g].outer_step # 0 /\ Shape[g].inner_step # 0
       /\ Sinks[g] \in Seq(Int \X Int) /\ Len(Sinks[g]) > 0
       /\ \A k \in 1..Len(Sinks[g]) : AcceptedSink(g, Sinks[g][k])
       /\ Owner[g] \in [Outer(g) -> Tasks]
       /\ Nowait[g] \in BOOLEAN

VARIABLES
  generations,  \* generation -> [prepared_tasks, shape, completed]
  generation,   \* TeamContext.doacross_generation of each task
  outer, inner, \* ordinals of the iteration the task is at
  sink,         \* the sink vector it has to wait for next
  pc

vars == <<generations, generation, outer, inner, sink, pc>>

Init ==
  /\ generations = [g \in {} |-> 0]
  /\ generation = [t \in Tasks |-> 0]
  /\ outer = [t \in Tasks |-> 0] /\ inner = [t \in Tasks |-> 0]
  /\ sink = [t \in Tasks |-> 1]
  /\ pc = [t \in Tasks |-> "idle"]

Goto(t, l) == pc' = [pc EXCEPT ![t] = l]

-----------------------------------------------------------------------------
(* afs_omp_doacross_prepare *)

Entry(g) ==
  IF g \in DOMAIN generations THEN generations[g]
  ELSE [prepared_tasks |-> 0, shape |-> << >>, completed |-> {}]

\* entry(g).or_default(), its shape set and prepared_tasks + 1
Registered(g) ==
  [h \in DOMAIN generations \cup {g} |->
     IF h = g THEN [Entry(g) EXCEPT !.shape = Shape[g], !.prepared_tasks = @ + 1]
     ELSE generations[h]]

\* Mutant: the previous entry goes as soon as one task moves on.
RetiredEarly(entries, g) == [h \in DOMAIN entries \ {g - 1} |-> entries[h]]

\* The entry of the previous nest goes once the whole team has prepared g.
Retired(entries, g) ==
  IF entries[g].prepared_tasks = Cardinality(Tasks) /\ g > 1
  THEN [h \in DOMAIN entries \ {g - 1} |-> entries[h]]
  ELSE entries

Prepare(t) ==
  LET g == generation[t] + 1 IN
  /\ pc[t] = "idle"
  /\ g \in Generations
  /\ generation' = [generation EXCEPT ![t] = g]
  /\ outer' = [outer EXCEPT ![t] = -1]
  /\ IF Entry(g).shape \notin {<< >>, Shape[g]}
     THEN Goto(t, "error") /\ UNCHANGED generations
     ELSE IF Registered(g)[g].prepared_tasks > Cardinality(Tasks)
          THEN Goto(t, "error") /\ generations' = Registered(g)
          ELSE Goto(t, "outer") /\ generations' = Retired(Registered(g), g)
  /\ UNCHANGED <<inner, sink>>

-----------------------------------------------------------------------------
(* The loop nest *)

\* The schedule hands the task its next outer iteration.
NextOuter(t) ==
  LET g == generation[t] IN
  /\ pc[t] = "outer"
  /\ \E o \in Outer(g) :
       /\ o > outer[t] /\ Owner[g][o] = t
       /\ \A p \in Outer(g) : outer[t] < p /\ p < o => Owner[g][p] # t
       /\ outer' = [outer EXCEPT ![t] = o]
  /\ inner' = [inner EXCEPT ![t] = 0]
  /\ sink' = [sink EXCEPT ![t] = 1]
  /\ Goto(t, IF InnerCount(g) > 0 THEN "sink" ELSE "outer")
  /\ UNCHANGED <<generations, generation>>

NoMoreOuter(t) ==
  \A o \in Outer(generation[t]) : o > outer[t] => Owner[generation[t]][o] # t

FinishNowait(t) ==
  /\ pc[t] = "outer"
  /\ NoMoreOuter(t)
  /\ Nowait[generation[t]]
  /\ Goto(t, "idle")
  /\ UNCHANGED <<generations, generation, outer, inner, sink>>

\* std::sync::Barrier: the last arrival releases the team.
FinishBarrier(t) ==
  /\ pc[t] = "outer"
  /\ NoMoreOuter(t)
  /\ ~Nowait[generation[t]]
  /\ pc' = IF \A u \in Tasks \ {t} : pc[u] = "barrier"
           THEN [u \in Tasks |-> "idle"]
           ELSE [pc EXCEPT ![t] = "barrier"]
  /\ UNCHANGED <<generations, generation, outer, inner, sink>>

-----------------------------------------------------------------------------
(* afs_omp_doacross_wait *)

\* The ordinals of the point that lies vector v after the one of ordinals o and
\* i, from the values of the loop variables that the generated code passes.
PointAt(g, o, i, v) ==
  LET s == Shape[g] IN
  << DoacrossOrdinal(s.outer_lower + o * s.outer_step + v[1],
                     s.outer_lower, s.outer_upper, s.outer_step),
     DoacrossOrdinal(s.inner_lower + i * s.inner_step + v[2],
                     s.inner_lower, s.inner_upper, s.inner_step) >>

\* One round under the mutex; a point outside the nest is not waited for.
Wait(t) ==
  LET g == generation[t]
      p == PointAt(g, outer[t], inner[t], Sinks[g][sink[t]])
  IN
  /\ pc[t] = "sink"
  /\ IF g \notin DOMAIN generations
     THEN Goto(t, "error") /\ UNCHANGED sink
     ELSE IF NoOrdinal \in {p[1], p[2]} \/ p \in generations[g].completed
     THEN /\ Goto(t, IF sink[t] = Len(Sinks[g]) THEN "body" ELSE "sink")
          /\ sink' = [sink EXCEPT ![t] = @ + 1]
     ELSE Goto(t, "wait") /\ UNCHANGED sink
  /\ UNCHANGED <<generations, generation, outer, inner>>

SpuriousWakeup(t) ==
  /\ pc[t] = "wait"
  /\ Goto(t, "sink")
  /\ UNCHANGED <<generations, generation, outer, inner, sink>>

-----------------------------------------------------------------------------
(* afs_omp_doacross_post *)

\* The task posts its own point; values that the nest does not take, and a point
\* posted before, are errors.
Post(t) ==
  LET g == generation[t]
      p == PointAt(g, outer[t], inner[t], <<0, 0>>)
  IN
  /\ pc[t] = "body"
  /\ IF \/ g \notin DOMAIN generations
        \/ NoOrdinal \in {p[1], p[2]} \/ p \in generations[g].completed
     THEN Goto(t, "error") /\ UNCHANGED generations
     ELSE /\ generations' = [generations EXCEPT ![g].completed = @ \cup {p}]
          /\ Goto(t, "notify")
  /\ UNCHANGED <<generation, outer, inner, sink>>

\* Mutant: notify_one.
NotifyOne(t) ==
  LET more == inner[t] + 1 < InnerCount(generation[t])
      after == IF more THEN "sink" ELSE "outer"
      waiting == {u \in Tasks : pc[u] = "wait"}
  IN
  /\ pc[t] = "notify"
  /\ IF waiting = {} THEN Goto(t, after)
     ELSE \E u \in waiting : pc' = [pc EXCEPT ![t] = after, ![u] = "sink"]
  /\ inner' = IF more THEN [inner EXCEPT ![t] = @ + 1] ELSE inner
  /\ sink' = [sink EXCEPT ![t] = 1]
  /\ UNCHANGED <<generations, generation, outer>>

\* notify_all, then the inner loop goes on.
NotifyAll(t) ==
  LET more == inner[t] + 1 < InnerCount(generation[t]) IN
  /\ pc[t] = "notify"
  /\ pc' = [u \in Tasks |-> IF u = t THEN IF more THEN "sink" ELSE "outer"
                            ELSE IF pc[u] = "wait" THEN "sink" ELSE pc[u]]
  /\ inner' = IF more THEN [inner EXCEPT ![t] = @ + 1] ELSE inner
  /\ sink' = [sink EXCEPT ![t] = 1]
  /\ UNCHANGED <<generations, generation, outer>>

-----------------------------------------------------------------------------
Finished(t) == pc[t] = "idle" /\ generation[t] = LastGeneration

Terminated == (\A t \in Tasks : Finished(t)) /\ UNCHANGED vars

Step(t) ==
  \/ Prepare(t) \/ NextOuter(t) \/ Wait(t) \/ Post(t) \/ NotifyAll(t)
  \/ FinishNowait(t) \/ FinishBarrier(t)

Next == (\E t \in Tasks : Step(t) \/ SpuriousWakeup(t)) \/ Terminated

Spec == Init /\ [][Next]_vars
FairSpec == Spec /\ \A t \in Tasks : WF_vars(Step(t))

-----------------------------------------------------------------------------
(* Properties *)

\* The task of outer ordinal p[1] is past the body of point p of nest g.
Completed(g, p) ==
  LET u == Owner[g][p[1]] IN
  \/ generation[u] > g
  \/ /\ generation[u] = g
     /\ \/ outer[u] > p[1]
        \/ outer[u] = p[1] /\ inner[u] > p[2]
        \/ outer[u] = p[1] /\ inner[u] = p[2] /\ pc[u] = "notify"
        \/ outer[u] = p[1] /\ pc[u] \in {"idle", "barrier", "outer"}

\* A task is in the body of an iteration only after every iteration of the
\* nest that its sink vectors name is over, whichever task ran it.
DependencesHonoured ==
  \A t \in Tasks :
    pc[t] = "body" =>
      LET g == generation[t] IN
      \A k \in 1..Len(Sinks[g]) :
        LET s == Shape[g]
            p == << outer[t] + ExactQuotient(Sinks[g][k][1], s.outer_step),
                    inner[t] + ExactQuotient(Sinks[g][k][2], s.inner_step) >>
        IN  p \in Points(g) => Completed(g, p)

\* Entries of the workspace neither leak nor vanish under a task, and no point
\* is posted twice: a nest the compiler accepts never gets
\* AFS_OMP_ERROR_INVALID_ORDERED.
RetainedGenerations ==
  /\ \A t \in Tasks : pc[t] # "error"
  /\ DOMAIN generations =
       {g \in Generations : /\ \E t \in Tasks : generation[t] >= g
                            /\ \E t \in Tasks : generation[t] <= g}

\* No cycle of waits: every task gets through all its nests.
AllFinish == <>(\A t \in Tasks : Finished(t))
=============================================================================
