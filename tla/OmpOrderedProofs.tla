-------------------------- MODULE OmpOrderedProofs --------------------------
(***************************************************************************)
(* The safety properties of OmpOrdered for every team, every number of     *)
(* loops, every trip count and every schedule.                             *)
(***************************************************************************)
EXTENDS OmpOrdered, FiniteSetTheorems, TLAPS

\* The size of the team is a natural number, and so is the size of the set of
\* tasks that have prepared a loop, which is at most the team.
LEMMA PreparersFinite ==
  ASSUME NEW g
  PROVE  /\ IsFiniteSet(Preparers(g))
         /\ Cardinality(Preparers(g)) \in Nat
         /\ Cardinality(Tasks) \in Nat
         /\ Cardinality(Preparers(g)) <= Cardinality(Tasks)
         /\ Cardinality(Preparers(g)) = Cardinality(Tasks) => Preparers(g) = Tasks
<1>1. Preparers(g) \in SUBSET Tasks
  BY DEF Preparers
<1>2. QED
  BY <1>1, TasksAssumption, FS_Subset, FS_CardinalityType

\* Before any task has prepared a loop the workspace is empty.
LEMMA InitIndInv == Init => IndInv
<1> SUFFICES ASSUME Init PROVE IndInv
  OBVIOUS
<1> USE DEF Init
<1>1. TypeOK
  BY LoopsAssumption DEF TypeOK, Locations
<1>2. RetainedGenerations
  BY DEF RetainedGenerations, Generations
<1>3. PreparedCount /\ PassedCompleted
  BY DEF PreparedCount, PassedCompleted
<1>4. NoProtocolError /\ InLoop /\ OwnIteration
  BY DEF NoProtocolError, InLoop, OwnIteration, Inside
<1>5. LeftNothing
  BY DEF LeftNothing, Generations
<1> QED
  BY <1>1, <1>2, <1>3, <1>4, <1>5 DEF IndInv

\* The workspace still holds the loop that a task is in.
LEMMA CurrentRetained ==
  ASSUME TypeOK, RetainedGenerations,
         NEW t \in Tasks, generation[t] \in Generations
  PROVE  /\ generation[t] \in DOMAIN generations
         /\ generations[generation[t]].next_ordinal \in Nat
<1>1. generation[t] \in Nat
  BY LoopsAssumption DEF TypeOK
<1>2. generation[t] \in DOMAIN generations
  BY <1>1 DEF RetainedGenerations
<1>3. QED
  BY <1>2 DEF TypeOK

\* What concerns only the workspace and the tasks' generations is preserved by
\* a step that changes neither.
LEMMA WorkspaceUnchanged ==
  ASSUME IndInv, UNCHANGED <<generations, generation>>
  PROVE  RetainedGenerations' /\ PreparedCount'
  BY DEF IndInv, RetainedGenerations, PreparedCount, Preparers

\* The iterations that are over stay over when positions do not change.
LEMMA PassedUnchanged ==
  ASSUME IndInv, UNCHANGED <<generations, generation, pos>>
  PROVE  PassedCompleted'
  BY DEF IndInv, PassedCompleted, Completed

\* afs_omp_ordered_prepare preserves the invariant.
LEMMA PrepareInv ==
  ASSUME IndInv, NEW t \in Tasks, Prepare(t)
  PROVE  IndInv'
<1> USE DEF IndInv
<1>0. PICK g : g = generation[t] + 1
  OBVIOUS
<1>1. /\ pc[t] = "idle" /\ active[t] = 0
      /\ g \in Generations /\ g \in Nat /\ g > generation[t] /\ generation[t] \in Nat
      /\ LastGeneration \in Nat
  BY <1>0, LoopsAssumption DEF Prepare, InLoop, TypeOK, Generations
<1>2. /\ generation' = [generation EXCEPT ![t] = g]
      /\ pos' = [pos EXCEPT ![t] = 0]
      /\ UNCHANGED <<active, iter>>
  BY <1>0, <1>1 DEF Prepare
<1>3. /\ Preparers(g)' = Preparers(g) \cup {t}
      /\ t \notin Preparers(g)
      /\ \A h \in Generations : h # g => Preparers(h)' = Preparers(h)
  <2>1. \A u \in Tasks : generation[u] \in Nat /\ generation[u]' = IF u = t THEN g ELSE generation[u]
    BY <1>1, <1>2 DEF TypeOK
  <2>2. t \notin Preparers(g)
    BY <1>1 DEF Preparers
  <2>3. Preparers(g)' = Preparers(g) \cup {t}
    BY <1>0, <1>1, <2>1 DEF Preparers
  <2>4. ASSUME NEW h \in Generations, h # g
        PROVE  Preparers(h)' = Preparers(h)
    <3>1. h \in Nat
      BY DEF Generations
    <3>2. \A u \in Tasks : generation'[u] >= h <=> generation[u] >= h
      BY <1>0, <1>1, <2>1, <2>4, <3>1
    <3>3. QED
      BY <3>2 DEF Preparers
  <2>5. QED
    BY <2>2, <2>3, <2>4
<1>4. /\ Cardinality(Preparers(g)') = Cardinality(Preparers(g)) + 1
      /\ Cardinality(Preparers(g)) \in Nat
  BY <1>3, PreparersFinite, FS_AddElement
<1>5. /\ Cardinality(Preparers(g)') <= Cardinality(Tasks)
      /\ Cardinality(Preparers(g)') = Cardinality(Tasks) => Preparers(g)' = Tasks
      /\ Cardinality(Tasks) \in Nat
  <2>1. Preparers(g)' \in SUBSET Tasks
    BY DEF Preparers
  <2>2. QED
    BY <2>1, TasksAssumption, FS_Subset, FS_CardinalityType
\* Nobody has prepared a loop that the workspace does not hold and that is
\* ahead of this task.
<1>6. g \notin DOMAIN generations => Preparers(g) = {}
  <2>1. \A u \in Tasks : generation[u] >= g => g \in DOMAIN generations
    BY <1>1 DEF RetainedGenerations, TypeOK
  <2>2. QED
    BY <2>1 DEF Preparers
<1>7. Registered(g)[g].prepared_tasks = Cardinality(Preparers(g)')
  <2>1. CASE g \in DOMAIN generations
    BY <2>1, <1>4 DEF Registered, PreparedCount, TypeOK
  <2>2. CASE g \notin DOMAIN generations
    <3>1. Cardinality(Preparers(g)) = 0
      BY <2>2, <1>6, FS_EmptySet
    <3>2. QED
      BY <2>2, <3>1, <1>4 DEF Registered
  <2>3. QED
    BY <2>1, <2>2
<1>8. /\ pc' = [pc EXCEPT ![t] = "loop"]
      /\ generations' = Retired(Registered(g), g)
  BY <1>0, <1>1, <1>2, <1>4, <1>5, <1>7 DEF Prepare, Goto
<1>9. /\ DOMAIN Registered(g) = DOMAIN generations \cup {g}
      /\ \A h \in DOMAIN generations : h # g => Registered(g)[h] = generations[h]
      /\ Registered(g)[g].next_ordinal =
           IF g \in DOMAIN generations THEN generations[g].next_ordinal ELSE 0
      /\ Registered(g)[g] \in [prepared_tasks : Nat, next_ordinal : Nat]
  BY DEF Registered, TypeOK
<1>10. /\ DOMAIN generations' =
            IF Preparers(g)' = Tasks /\ g > 1
            THEN (DOMAIN generations \cup {g}) \ {g - 1} ELSE DOMAIN generations \cup {g}
       /\ \A h \in DOMAIN generations' : generations'[h] = Registered(g)[h]
       /\ g \in DOMAIN generations'
  BY <1>1, <1>5, <1>7, <1>8, <1>9 DEF Retired
<1>11. TypeOK'
  <2>1. generations' \in [DOMAIN generations' -> [prepared_tasks : Nat, next_ordinal : Nat]]
    <3>1. \A h \in DOMAIN generations' :
            generations'[h] \in [prepared_tasks : Nat, next_ordinal : Nat]
      BY <1>9, <1>10 DEF TypeOK
    <3>2. generations' = [h \in DOMAIN generations' |-> generations'[h]]
      BY <1>8 DEF Retired, Registered
    <3>3. QED
      BY <3>1, <3>2
  <2>2. DOMAIN generations' \subseteq Generations
    BY <1>1, <1>10 DEF TypeOK
  <2>3. QED
    BY <1>1, <1>2, <1>8, <2>1, <2>2 DEF TypeOK, Locations, Generations
<1>12. RetainedGenerations'
  <2>1. \A u \in Tasks : /\ generation[u] \in Nat
                         /\ generation'[u] = IF u = t THEN g ELSE generation[u]
    BY <1>1, <1>2 DEF TypeOK
  <2>2. Preparers(g)' = Tasks <=> \A u \in Tasks : generation'[u] >= g
    BY DEF Preparers
  <2>3. \A h \in Generations : h \in DOMAIN generations' <=>
          /\ \E u \in Tasks : generation'[u] >= h
          /\ \E u \in Tasks : generation'[u] <= h
    <3> SUFFICES ASSUME NEW h \in Generations
                 PROVE  h \in DOMAIN generations' <=>
                          /\ \E u \in Tasks : generation'[u] >= h
                          /\ \E u \in Tasks : generation'[u] <= h
      OBVIOUS
    <3>1. h \in DOMAIN generations <=>
            (\E u \in Tasks : generation[u] >= h) /\ (\E u \in Tasks : generation[u] <= h)
      BY DEF RetainedGenerations
    <3>2. h \in Nat /\ h >= 1
      BY DEF Generations
    <3>3. CASE h = g
      BY <3>3, <1>10, <2>1, <1>1
    <3>4. CASE h = g - 1
      BY <3>2, <3>4, <3>1, <1>0, <1>1, <1>10, <2>1, <2>2
    <3>5. CASE h < g - 1 \/ h > g
      BY <3>2, <3>5, <3>1, <1>0, <1>1, <1>10, <2>1
    <3>6. QED
      BY <3>2, <3>3, <3>4, <3>5, <1>1
  <2>4. QED
    BY <2>3, <1>11 DEF RetainedGenerations, TypeOK
<1>13. PreparedCount'
  <2> SUFFICES ASSUME NEW h \in DOMAIN generations'
               PROVE  generations'[h].prepared_tasks = Cardinality(Preparers(h)')
    BY DEF PreparedCount
  <2>1. CASE h = g
    BY <2>1, <1>7, <1>10
  <2>2. CASE h # g
    <3>1. h \in DOMAIN generations /\ generations'[h] = generations[h]
      BY <2>2, <1>9, <1>10
    <3>2. Preparers(h)' = Preparers(h)
      BY <3>1, <2>2, <1>3 DEF TypeOK
    <3>3. QED
      BY <3>1, <3>2 DEF PreparedCount
  <2>3. QED
    BY <2>1, <2>2
<1>14. NoProtocolError' /\ InLoop'
  BY <1>1, <1>2, <1>8 DEF NoProtocolError, InLoop, TypeOK
\* The tasks that are inside a loop keep its entry and its counter.
<1>15. ASSUME NEW u \in Tasks, u # t, generation[u] \in Generations
       PROVE  /\ generation'[u] = generation[u]
              /\ generations'[generation[u]].next_ordinal
                   = generations[generation[u]].next_ordinal
  <2>1. generation'[u] = generation[u]
    BY <1>2, <1>15 DEF TypeOK
  <2>2. generation[u] \in DOMAIN generations /\ generation'[u] \in DOMAIN generations'
    <3>1. generation'[u] \in Generations
      BY <2>1, <1>15
    <3>2. QED
      BY <1>15, <3>1, <1>11, <1>12, LoopsAssumption
      DEF RetainedGenerations, Generations
  <2>3. QED
    BY <2>1, <2>2, <1>9, <1>10
<1>16. OwnIteration'
  <2> SUFFICES ASSUME NEW u \in Tasks, pc'[u] \in Inside \cup {"check", "wait"}
               PROVE  /\ iter'[u] \in Ordinals(generation'[u])
                      /\ Owner[generation'[u]][iter'[u]] = u
                      /\ iter'[u] >= generations'[generation'[u]].next_ordinal
                      /\ pc'[u] \in Inside =>
                           iter'[u] = generations'[generation'[u]].next_ordinal
                      /\ pc'[u] = "release" => pos'[u] = iter'[u] + 1
                      /\ pc'[u] # "release" => pos'[u] <= iter'[u]
    BY DEF OwnIteration, Ordinals
  <2>1. u # t
    BY <1>8 DEF Inside, TypeOK
  <2>2. pc'[u] = pc[u] /\ pos'[u] = pos[u] /\ iter'[u] = iter[u]
    BY <2>1, <1>2, <1>8 DEF TypeOK
  <2>3. generation[u] \in Generations
    BY <2>2 DEF InLoop, Inside
  <2>4. QED
    BY <2>1, <2>2, <2>3, <1>15 DEF OwnIteration
<1>17. ASSUME NEW h \in Generations, NEW j \in Ordinals(h), Completed(h, j)
       PROVE  Completed(h, j)'
  <2>1. Owner[h][j] \in Tasks
    BY LoopsAssumption
  <2>2. h \in Nat
    BY DEF Generations
  <2>3. CASE Owner[h][j] = t
    BY <2>2, <2>3, <1>0, <1>1, <1>2, <1>17 DEF Completed, TypeOK
  <2>4. CASE Owner[h][j] # t
    BY <2>1, <2>4, <1>2, <1>17 DEF Completed, TypeOK
  <2>5. QED
    BY <2>3, <2>4
<1>18. PassedCompleted'
  <2> SUFFICES ASSUME NEW h \in DOMAIN generations', NEW j \in Ordinals(h),
                      j < generations'[h].next_ordinal
               PROVE  Completed(h, j)'
    BY DEF PassedCompleted, Ordinals
  <2>1. h \in Generations
    BY <1>11 DEF TypeOK
  <2>2. j \in Nat
    BY <2>1, LoopsAssumption DEF Ordinals
  <2>3. h \in DOMAIN generations /\ generations'[h].next_ordinal = generations[h].next_ordinal
    BY <2>2, <1>9, <1>10
  <2>4. QED
    BY <2>1, <2>3, <1>17 DEF PassedCompleted
<1>19. LeftNothing'
  <2> SUFFICES ASSUME NEW u \in Tasks, pc'[u] \in {"idle", "barrier"},
                      generation'[u] \in Generations
               PROVE  NoMoreIterations(u)'
    BY DEF LeftNothing
  <2>1. u # t
    BY <1>8 DEF TypeOK
  <2>2. QED
    BY <2>1, <1>2, <1>8 DEF LeftNothing, NoMoreIterations, TypeOK, Ordinals
<1> QED
  BY <1>11, <1>12, <1>13, <1>14, <1>16, <1>18, <1>19

\* afs_omp_ordered_enter, before the mutex: the iteration entered is one that
\* nobody has passed, for the counter only passes iterations that are over.
LEMMA EnterInv ==
  ASSUME IndInv, NEW t \in Tasks, Enter(t)
  PROVE  IndInv'
<1> USE DEF IndInv
<1>0. PICK g : g = generation[t]
  OBVIOUS
<1>1. /\ pc[t] = "loop" /\ active[t] = 0 /\ g \in Generations
      /\ g \in DOMAIN generations /\ generations[g].next_ordinal \in Nat
  BY <1>0, CurrentRetained DEF Enter, InLoop
<1>2. PICK i \in Ordinals(g) :
        i >= pos[t] /\ Owner[g][i] = t /\ iter' = [iter EXCEPT ![t] = i]
  BY <1>0 DEF Enter
<1>3. /\ pc' = [pc EXCEPT ![t] = "check"]
      /\ UNCHANGED <<generations, generation, active, pos>>
  BY <1>1 DEF Enter, Goto
<1>4. i \in Nat /\ pos[t] \in Nat
  BY <1>1, LoopsAssumption DEF Ordinals, TypeOK
<1>5. TypeOK'
  BY <1>2, <1>3, <1>4 DEF TypeOK, Locations
<1>6. NoProtocolError' /\ InLoop'
  BY <1>1, <1>0, <1>3 DEF NoProtocolError, InLoop, TypeOK
<1>7. i >= generations[g].next_ordinal
  <2>1. ~ Completed(g, i)
    BY <1>0, <1>1, <1>2, <1>4 DEF Completed, Generations
  <2>2. QED
    BY <2>1, <1>1, <1>4 DEF PassedCompleted
<1>8. OwnIteration'
  <2> SUFFICES ASSUME NEW u \in Tasks, pc'[u] \in Inside \cup {"check", "wait"}
               PROVE  /\ iter'[u] \in Ordinals(generation[u])
                      /\ Owner[generation[u]][iter'[u]] = u
                      /\ iter'[u] >= generations[generation[u]].next_ordinal
                      /\ pc'[u] \in Inside =>
                           iter'[u] = generations[generation[u]].next_ordinal
                      /\ pc'[u] = "release" => pos[u] = iter'[u] + 1
                      /\ pc'[u] # "release" => pos[u] <= iter'[u]
    BY <1>3 DEF OwnIteration, Ordinals
  <2>1. CASE u = t
    BY <2>1, <1>0, <1>2, <1>3, <1>4, <1>7 DEF Inside, TypeOK
  <2>2. CASE u # t
    BY <2>2, <1>2, <1>3 DEF OwnIteration, TypeOK
  <2>3. QED
    BY <2>1, <2>2
<1>9. LeftNothing'
  BY <1>3 DEF LeftNothing, NoMoreIterations, TypeOK, Ordinals
<1> QED
  BY <1>3, <1>5, <1>6, <1>8, <1>9, WorkspaceUnchanged, PassedUnchanged

\* afs_omp_ordered_enter, under the mutex: the entry is there and the ordinal
\* is not behind the counter.
LEMMA CheckInv ==
  ASSUME IndInv, NEW t \in Tasks, Check(t)
  PROVE  IndInv'
<1> USE DEF IndInv
<1>0. PICK g : g = generation[t]
  OBVIOUS
<1>1. /\ pc[t] = "check" /\ g \in Generations
      /\ g \in DOMAIN generations /\ generations[g].next_ordinal \in Nat
  BY <1>0, CurrentRetained DEF Check, InLoop
<1>2. iter[t] \in Nat /\ iter[t] >= generations[g].next_ordinal
  BY <1>0, <1>1 DEF OwnIteration, TypeOK
<1>3. /\ pc' = [pc EXCEPT ![t] =
                 IF iter[t] = generations[g].next_ordinal THEN "granted" ELSE "wait"]
      /\ UNCHANGED <<generations, generation, active, pos, iter>>
  <2>1. ~ (iter[t] < generations[g].next_ordinal)
    BY <1>1, <1>2
  <2>2. QED
    BY <1>0, <1>1, <2>1, Zenon DEF Check, Goto
<1>4. TypeOK' /\ NoProtocolError' /\ InLoop'
  BY <1>0, <1>1, <1>3 DEF TypeOK, Locations, NoProtocolError, InLoop
<1>5. OwnIteration'
  <2> SUFFICES ASSUME NEW u \in Tasks, pc'[u] \in Inside \cup {"check", "wait"}
               PROVE  /\ pc[u] \in Inside \cup {"check", "wait"}
                      /\ pc'[u] \in Inside =>
                           iter[u] = generations[generation[u]].next_ordinal
                      /\ pc'[u] = "release" <=> pc[u] = "release"
    BY <1>3 DEF OwnIteration, Ordinals
  <2>1. QED
    BY <1>0, <1>1, <1>3 DEF OwnIteration, Inside, TypeOK
<1>6. LeftNothing'
  BY <1>1, <1>3 DEF LeftNothing, NoMoreIterations, TypeOK, Ordinals
<1> QED
  BY <1>3, <1>4, <1>5, <1>6, WorkspaceUnchanged, PassedUnchanged

\* A wakeup only sends a waiter back to its check.
LEMMA SpuriousWakeupInv ==
  ASSUME IndInv, NEW t \in Tasks, SpuriousWakeup(t)
  PROVE  IndInv'
<1> USE DEF IndInv
<1>1. /\ pc[t] = "wait" /\ pc' = [pc EXCEPT ![t] = "check"]
      /\ UNCHANGED <<generations, generation, active, pos, iter>>
  BY DEF SpuriousWakeup, Goto
<1>2. TypeOK' /\ NoProtocolError' /\ InLoop'
  BY <1>1 DEF TypeOK, Locations, NoProtocolError, InLoop
<1>3. OwnIteration'
  BY <1>1 DEF OwnIteration, Inside, TypeOK, Ordinals
<1>4. LeftNothing'
  BY <1>1 DEF LeftNothing, NoMoreIterations, TypeOK, Ordinals
<1> QED
  BY <1>1, <1>2, <1>3, <1>4, WorkspaceUnchanged, PassedUnchanged

\* afs_omp_ordered_enter, after the mutex.
LEMMA ActivateInv ==
  ASSUME IndInv, NEW t \in Tasks, Activate(t)
  PROVE  IndInv'
<1> USE DEF IndInv
<1>1. /\ pc[t] = "granted" /\ pc' = [pc EXCEPT ![t] = "body"]
      /\ active' = [active EXCEPT ![t] = generation[t]]
      /\ UNCHANGED <<generations, generation, pos, iter>>
  BY DEF Activate, Goto
<1>2. TypeOK' /\ NoProtocolError' /\ InLoop'
  BY <1>1 DEF TypeOK, Locations, NoProtocolError, InLoop
<1>3. OwnIteration'
  BY <1>1 DEF OwnIteration, Inside, TypeOK, Ordinals
<1>4. LeftNothing'
  BY <1>1 DEF LeftNothing, NoMoreIterations, TypeOK, Ordinals
<1> QED
  BY <1>1, <1>2, <1>3, <1>4, WorkspaceUnchanged, PassedUnchanged

\* afs_omp_ordered_exit, before the mutex: the iteration is over.
LEMMA ExitInv ==
  ASSUME IndInv, NEW t \in Tasks, Exit(t)
  PROVE  IndInv'
<1> USE DEF IndInv
<1>1. /\ pc[t] = "body" /\ pc' = [pc EXCEPT ![t] = "release"]
      /\ active' = [active EXCEPT ![t] = 0]
      /\ pos' = [pos EXCEPT ![t] = iter[t] + 1]
      /\ UNCHANGED <<generations, generation, iter>>
  BY DEF Exit, Goto
<1>2. TypeOK' /\ NoProtocolError' /\ InLoop'
  BY <1>1, LoopsAssumption DEF TypeOK, Locations, NoProtocolError, InLoop
<1>3. OwnIteration'
  BY <1>1 DEF OwnIteration, Inside, TypeOK, Ordinals
<1>4. pos[t] \in Nat /\ iter[t] \in Nat /\ pos[t] <= iter[t]
  BY <1>1 DEF OwnIteration, Inside, TypeOK
<1>5. PassedCompleted'
  <2> SUFFICES ASSUME NEW h \in DOMAIN generations, NEW j \in Ordinals(h),
                      Completed(h, j)
               PROVE  Completed(h, j)'
    BY <1>1 DEF PassedCompleted, Ordinals
  <2>1. h \in Generations /\ Owner[h][j] \in Tasks /\ j \in Int
    BY LoopsAssumption DEF TypeOK, Ordinals
  <2>2. QED
    BY <2>1, <1>1, <1>4 DEF Completed, TypeOK
<1>6. LeftNothing'
  BY <1>1 DEF LeftNothing, NoMoreIterations, TypeOK, Ordinals
<1> QED
  BY <1>1, <1>2, <1>3, <1>5, <1>6, WorkspaceUnchanged

\* afs_omp_ordered_exit, under the mutex: the counter passes an iteration that
\* is over, and no other task stands at it.
LEMMA ReleaseInv ==
  ASSUME IndInv, NEW t \in Tasks, Release(t)
  PROVE  IndInv'
<1> USE DEF IndInv
<1>0. PICK g : g = generation[t]
  OBVIOUS
<1>1. /\ pc[t] = "release" /\ g \in Generations
      /\ g \in DOMAIN generations /\ generations[g].next_ordinal \in Nat
  BY <1>0, CurrentRetained DEF Release, InLoop
<1>2. /\ pc' = [pc EXCEPT ![t] = "notify"]
      /\ generations' = [generations EXCEPT ![g].next_ordinal = @ + 1]
      /\ UNCHANGED <<generation, active, pos, iter>>
  BY <1>0, <1>1 DEF Release, Goto
<1>3. /\ DOMAIN generations' = DOMAIN generations
      /\ \A h \in DOMAIN generations :
           /\ generations'[h].prepared_tasks = generations[h].prepared_tasks
           /\ generations'[h].next_ordinal =
                generations[h].next_ordinal + (IF h = g THEN 1 ELSE 0)
           /\ generations'[h] \in [prepared_tasks : Nat, next_ordinal : Nat]
  BY <1>1, <1>2 DEF TypeOK
<1>4. TypeOK'
  <2>1. generations' \in [DOMAIN generations' -> [prepared_tasks : Nat, next_ordinal : Nat]]
    BY <1>2, <1>3 DEF TypeOK
  <2>2. QED
    BY <1>2, <1>3, <2>1 DEF TypeOK, Locations
<1>5. RetainedGenerations' /\ PreparedCount'
  BY <1>2, <1>3 DEF RetainedGenerations, PreparedCount, Preparers
<1>6. NoProtocolError' /\ InLoop'
  BY <1>1, <1>2 DEF NoProtocolError, InLoop, TypeOK
<1>7. /\ iter[t] = generations[g].next_ordinal /\ Owner[g][iter[t]] = t
      /\ pos[t] = iter[t] + 1
  BY <1>0, <1>1 DEF OwnIteration, Inside
<1>8. OwnIteration'
  <2> SUFFICES ASSUME NEW u \in Tasks, pc'[u] \in Inside \cup {"check", "wait"}
               PROVE  /\ pc[u] = pc'[u]
                      /\ iter[u] >= generations'[generation[u]].next_ordinal
                      /\ pc[u] \in Inside =>
                           iter[u] = generations'[generation[u]].next_ordinal
    BY <1>2 DEF OwnIteration, Ordinals
  <2>1. u # t /\ pc'[u] = pc[u]
    BY <1>2 DEF Inside, TypeOK
  <2>2. generation[u] \in DOMAIN generations /\ generations[generation[u]].next_ordinal \in Nat
    BY <2>1, CurrentRetained DEF InLoop, Inside
  <2>3. /\ iter[u] \in Nat /\ iter[u] >= generations[generation[u]].next_ordinal
        /\ Owner[generation[u]][iter[u]] = u
        /\ pc[u] \in Inside => iter[u] = generations[generation[u]].next_ordinal
    BY <2>1 DEF OwnIteration, TypeOK
  <2>4. CASE generation[u] = g
    <3>1. iter[u] # iter[t]
      BY <2>1, <2>3, <2>4, <1>7
    <3>2. QED
      BY <3>1, <2>1, <2>2, <2>3, <2>4, <1>3, <1>7
  <2>5. CASE generation[u] # g
    BY <2>1, <2>2, <2>3, <2>5, <1>3
  <2>6. QED
    BY <2>4, <2>5
<1>9. PassedCompleted'
  <2> SUFFICES ASSUME NEW h \in DOMAIN generations, NEW j \in Ordinals(h),
                      j < generations'[h].next_ordinal
               PROVE  Completed(h, j)
    BY <1>2, <1>3 DEF PassedCompleted, Ordinals, Completed
  <2>1. j \in Int /\ generations[h].next_ordinal \in Nat
    BY DEF Ordinals, TypeOK
  <2>2. CASE j < generations[h].next_ordinal
    BY <2>2 DEF PassedCompleted
  <2>3. CASE h = g /\ j = iter[t]
    BY <2>1, <2>3, <1>0, <1>7 DEF Completed
  <2>4. QED
    BY <2>1, <2>2, <2>3, <1>3, <1>7
<1>10. LeftNothing'
  BY <1>2 DEF LeftNothing, NoMoreIterations, TypeOK, Ordinals
<1> QED
  BY <1>4, <1>5, <1>6, <1>8, <1>9, <1>10

\* notify_all sends every waiter back to its check.
LEMMA NotifyAllInv ==
  ASSUME IndInv, NEW t \in Tasks, NotifyAll(t)
  PROVE  IndInv'
<1> USE DEF IndInv
<1>1. /\ pc[t] = "notify"
      /\ pc' = [u \in Tasks |-> IF u = t THEN "loop"
                                ELSE IF pc[u] = "wait" THEN "check" ELSE pc[u]]
      /\ UNCHANGED <<generations, generation, active, pos, iter>>
  BY DEF NotifyAll
<1>2. TypeOK' /\ NoProtocolError' /\ InLoop'
  BY <1>1 DEF TypeOK, Locations, NoProtocolError, InLoop
<1>3. OwnIteration'
  BY <1>1 DEF OwnIteration, Inside, TypeOK, Ordinals
<1>4. LeftNothing'
  BY <1>1 DEF LeftNothing, NoMoreIterations, TypeOK, Ordinals
<1> QED
  BY <1>1, <1>2, <1>3, <1>4, WorkspaceUnchanged, PassedUnchanged

\* A task leaves a loop only when none of its iterations is left.
LEMMA FinishInv ==
  ASSUME IndInv, NEW t \in Tasks, FinishNowait(t) \/ FinishBarrier(t)
  PROVE  IndInv'
<1> USE DEF IndInv
<1>1. /\ pc[t] = "loop" /\ NoMoreIterations(t)
      /\ UNCHANGED <<generations, generation, active, pos, iter>>
  BY DEF FinishNowait, FinishBarrier
<1>2. \/ pc' = [pc EXCEPT ![t] = "idle"]
      \/ pc' = [pc EXCEPT ![t] = "barrier"]
      \/ pc' = [u \in Tasks |-> "idle"] /\ \A u \in Tasks \ {t} : pc[u] = "barrier"
  BY DEF FinishNowait, FinishBarrier, Goto
<1>3. TypeOK' /\ NoProtocolError' /\ InLoop'
  BY <1>1, <1>2 DEF TypeOK, Locations, NoProtocolError, InLoop
<1>4. OwnIteration'
  BY <1>1, <1>2 DEF OwnIteration, Inside, TypeOK, Ordinals
<1>5. LeftNothing'
  BY <1>1, <1>2 DEF LeftNothing, NoMoreIterations, TypeOK, Ordinals
<1> QED
  BY <1>1, <1>3, <1>4, <1>5, WorkspaceUnchanged, PassedUnchanged

\* Every step of the specification preserves the invariant.
LEMMA NextIndInv == IndInv /\ [Next]_vars => IndInv'
<1> SUFFICES ASSUME IndInv, [Next]_vars PROVE IndInv'
  OBVIOUS
<1>1. CASE UNCHANGED vars
  <2> USE <1>1 DEF vars, IndInv
  <2>1. TypeOK' /\ NoProtocolError' /\ InLoop'
    BY DEF TypeOK, NoProtocolError, InLoop
  <2>2. OwnIteration' /\ LeftNothing'
    BY DEF OwnIteration, LeftNothing, NoMoreIterations, Ordinals
  <2> QED
    BY <2>1, <2>2, WorkspaceUnchanged, PassedUnchanged
<1>2. CASE Terminated
  BY <1>1, <1>2 DEF Terminated
<1>3. ASSUME NEW t \in Tasks, Step(t) PROVE IndInv'
  BY <1>3, PrepareInv, EnterInv, CheckInv, ActivateInv, ExitInv, ReleaseInv,
     NotifyAllInv, FinishInv DEF Step
<1>4. ASSUME NEW t \in Tasks, SpuriousWakeup(t) PROVE IndInv'
  BY <1>4, SpuriousWakeupInv
<1> QED
  BY <1>1, <1>2, <1>3, <1>4 DEF Next

\* The invariant of the workspace and the tasks holds in every reachable state.
THEOREM Invariance == Spec => []IndInv
  BY InitIndInv, NextIndInv, PTL DEF Spec

\* Type correctness.
THEOREM TypeCorrect == Spec => []TypeOK
<1>1. IndInv => TypeOK
  BY DEF IndInv
<1>2. QED
  BY <1>1, Invariance, PTL

\* Regions run in logical iteration order, for every team and schedule.
THEOREM LogicalOrderHolds == Spec => []LogicalOrder
<1>1. IndInv => LogicalOrder
  <2> SUFFICES ASSUME IndInv, NEW t \in Tasks, pc[t] = "body",
                      NEW j \in Ordinals(generation[t]), j < iter[t]
               PROVE  Completed(generation[t], j)
    BY DEF LogicalOrder
  <2> USE DEF IndInv
  <2>1. generation[t] \in DOMAIN generations
    BY CurrentRetained DEF InLoop
  <2>2. iter[t] = generations[generation[t]].next_ordinal
    BY DEF OwnIteration, Inside
  <2> QED
    BY <2>1, <2>2 DEF PassedCompleted
<1>2. QED
  BY <1>1, Invariance, PTL

\* At most one task is inside the ORDERED region of a loop.
THEOREM OneInRegionHolds == Spec => []OneInRegion
<1>1. IndInv => OneInRegion
  BY DEF IndInv, OneInRegion, OwnIteration, Inside
<1>2. QED
  BY <1>1, Invariance, PTL

\* The runtime never reports AFS_OMP_ERROR_INVALID_ORDERED to a task that
\* follows the generated protocol.
THEOREM NoProtocolErrorHolds == Spec => []NoProtocolError
<1>1. IndInv => NoProtocolError
  BY DEF IndInv
<1>2. QED
  BY <1>1, Invariance, PTL

\* The workspace holds the loops under way and no other.
THEOREM RetainedGenerationsHolds == Spec => []RetainedGenerations
<1>1. IndInv => RetainedGenerations
  BY DEF IndInv
<1>2. QED
  BY <1>1, Invariance, PTL

-----------------------------------------------------------------------------
(* The runtime's protocol implements OrderedRegions *)

\* A step that leaves the regions of every loop alone is a stuttering step.
LEMMA RegionsStutter ==
  ASSUME \A g \in Generations : DoneIterations(g)' = DoneIterations(g),
         \A g \in Generations : OpenIterations(g)' = OpenIterations(g)
  PROVE  UNCHANGED Regions!vars
  BY DEF Regions!vars

\* Iterations are over, and open, the same as before a step that moves no task
\* to another loop or position and lets none into a region or out of it.
LEMMA NoRegionStep ==
  ASSUME UNCHANGED <<generation, pos>>,
         \A t \in Tasks : pc'[t] = "body" <=> pc[t] = "body",
         \A t \in Tasks : pc[t] = "body" => iter'[t] = iter[t]
  PROVE  UNCHANGED Regions!vars
<1>1. \A g \in Generations : DoneIterations(g)' = DoneIterations(g)
  BY DEF DoneIterations, Completed, Ordinals
<1>2. \A g \in Generations : OpenIterations(g)' = OpenIterations(g)
  BY DEF OpenIterations
<1>3. QED
  BY <1>1, <1>2, RegionsStutter

\* Preparing a loop completes no iteration: a task has none left behind it.
LEMMA PrepareStutters ==
  ASSUME IndInv, IndInv', NEW t \in Tasks, Prepare(t)
  PROVE  UNCHANGED Regions!vars
<1> USE DEF IndInv
<1>0. PICK g : g = generation[t] + 1
  OBVIOUS
<1>1. /\ pc[t] = "idle" /\ active[t] = 0 /\ g \in Generations
      /\ generation[t] \in Nat /\ UNCHANGED iter
  BY <1>0, LoopsAssumption DEF Prepare, InLoop, TypeOK
<1>2. /\ generation' = [generation EXCEPT ![t] = g]
      /\ pos' = [pos EXCEPT ![t] = 0]
      /\ pc'[t] # "body"
      /\ \A u \in Tasks \ {t} : pc'[u] = pc[u]
  BY <1>0, <1>1 DEF Prepare, Goto, TypeOK
<1>3. ASSUME NEW h \in Generations, NEW j \in Ordinals(h)
      PROVE  Completed(h, j)' <=> Completed(h, j)
  <2>1. Owner[h][j] \in Tasks /\ h \in Nat /\ j \in Nat
    BY LoopsAssumption DEF Generations, Ordinals
  <2>2. CASE Owner[h][j] # t
    BY <2>1, <2>2, <1>2 DEF Completed, TypeOK
  <2>3. CASE Owner[h][j] = t /\ h # generation[t]
    <3>1. generation'[t] = g /\ pos'[t] = 0
      BY <1>2 DEF TypeOK
    <3>2. Completed(h, j)' <=> g > h \/ (g = h /\ 0 > j)
      BY <2>3, <3>1 DEF Completed
    <3>3. Completed(h, j) <=> generation[t] > h
      BY <2>3 DEF Completed
    <3>4. QED
      BY <2>1, <2>3, <3>2, <3>3, <1>0, <1>1, SMTT(30)
  <2>4. CASE Owner[h][j] = t /\ h = generation[t]
    <3>1. pos[t] > j
      BY <2>1, <2>4, <1>1 DEF LeftNothing, NoMoreIterations, TypeOK
    <3>2. QED
      BY <2>1, <2>4, <3>1, <1>0, <1>1, <1>2 DEF Completed, TypeOK
  <2>5. QED
    BY <2>2, <2>3, <2>4
<1>4. \A h \in Generations : DoneIterations(h)' = DoneIterations(h)
  BY <1>3 DEF DoneIterations, Ordinals
<1>5. \A h \in Generations : OpenIterations(h)' = OpenIterations(h)
  <2>1. \A h \in Generations, u \in Tasks :
          (generation'[u] = h /\ pc'[u] = "body") <=> (generation[u] = h /\ pc[u] = "body")
    BY <1>1, <1>2 DEF TypeOK
  <2>2. QED
    BY <1>1, <2>1 DEF OpenIterations
<1>6. QED
  BY <1>4, <1>5, RegionsStutter

\* A task that is let in begins the region of the next iteration.
LEMMA ActivateBegins ==
  ASSUME IndInv, NEW t \in Tasks, Activate(t)
  PROVE  Regions!Next
<1> USE DEF IndInv
<1>0. PICK g, i : g = generation[t] /\ i = iter[t]
  OBVIOUS
<1>1. /\ pc[t] = "granted" /\ pc' = [pc EXCEPT ![t] = "body"]
      /\ UNCHANGED <<generations, generation, pos, iter>>
  BY DEF Activate, Goto
<1>2. /\ g \in Generations /\ g \in DOMAIN generations
      /\ i \in Ordinals(g) /\ i = generations[g].next_ordinal /\ Owner[g][i] = t
      /\ pos[t] <= i /\ pos[t] \in Nat /\ i \in Nat
  BY <1>0, <1>1, CurrentRetained DEF InLoop, OwnIteration, Inside, TypeOK
<1>3. OpenIterations(g) = {}
  <2> SUFFICES ASSUME NEW u \in Tasks, generation[u] = g, pc[u] = "body" PROVE FALSE
    BY DEF OpenIterations
  <2>1. iter[u] = i /\ Owner[g][iter[u]] = u
    BY <1>2 DEF OwnIteration, Inside
  <2>2. QED
    BY <2>1, <1>1, <1>2
<1>4. i \notin DoneIterations(g)
  BY <1>0, <1>2, SMTT(30) DEF DoneIterations, Completed, Generations
<1>5. \A j \in Ordinals(g) : j < i => j \in DoneIterations(g)
  BY <1>2 DEF PassedCompleted, DoneIterations
<1>6. \A h \in Generations : OpenIterations(h)' = IF h = g THEN {i} ELSE OpenIterations(h)
  <2>1. \A h \in Generations : OpenIterations(h)' =
          {iter[u] : u \in {v \in Tasks : generation[v] = h /\ (v = t \/ pc[v] = "body")}}
    BY <1>1 DEF OpenIterations, TypeOK
  <2>2. \A v \in Tasks : generation[v] = g /\ (v = t \/ pc[v] = "body") <=> v = t
    BY <1>0, <1>3 DEF OpenIterations
  <2>3. OpenIterations(g)' = {i}
    <3>1. {v \in Tasks : generation[v] = g /\ (v = t \/ pc[v] = "body")} = {t}
      BY <2>2
    <3>2. OpenIterations(g)' = {iter[u] : u \in {t}}
      BY <2>1, <3>1, <1>2, Zenon
    <3>3. {iter[u] : u \in {t}} = {i}
      BY <1>0, Zenon
    <3>4. QED
      BY <3>2, <3>3, Zenon
  <2>4. ASSUME NEW h \in Generations, h # g PROVE OpenIterations(h)' = OpenIterations(h)
    BY <2>1, <2>4, <1>0 DEF OpenIterations
  <2>5. QED
    BY <2>3, <2>4
<1>7. \A h \in Generations : DoneIterations(h)' = DoneIterations(h)
  BY <1>1 DEF DoneIterations, Completed, Ordinals
<1>8. Regions!Begin(g, i)
  BY <1>2, <1>3, <1>4, <1>5, <1>6, <1>7
  DEF Regions!Begin, Regions!Iterations, Ordinals
<1>9. QED
  BY <1>2, <1>8 DEF Regions!Next, Regions!Loops, Regions!Iterations, Generations, Ordinals

\* A task that leaves its region ends it.
LEMMA ExitEnds ==
  ASSUME IndInv, NEW t \in Tasks, Exit(t)
  PROVE  Regions!Next
<1> USE DEF IndInv
<1>0. PICK g, i : g = generation[t] /\ i = iter[t]
  OBVIOUS
<1>1. /\ pc[t] = "body" /\ pc' = [pc EXCEPT ![t] = "release"]
      /\ pos' = [pos EXCEPT ![t] = i + 1]
      /\ UNCHANGED <<generations, generation, iter>>
  BY <1>0 DEF Exit, Goto
<1>2. /\ g \in Generations /\ g \in DOMAIN generations
      /\ i \in Ordinals(g) /\ i = generations[g].next_ordinal /\ Owner[g][i] = t
      /\ pos[t] <= i /\ pos[t] \in Nat /\ i \in Nat /\ g \in Nat
  BY <1>0, <1>1, CurrentRetained DEF InLoop, OwnIteration, Inside, TypeOK, Generations
<1>3. \A u \in Tasks : generation[u] = g /\ pc[u] = "body" <=> u = t
  <2>1. ASSUME NEW u \in Tasks, generation[u] = g, pc[u] = "body" PROVE u = t
    BY <2>1, <1>2 DEF OwnIteration, Inside
  <2>2. QED
    BY <2>1, <1>0, <1>1
<1>4. OpenIterations(g) = {i}
  BY <1>0, <1>3 DEF OpenIterations
<1>5. \A h \in Generations : OpenIterations(h)' = IF h = g THEN {} ELSE OpenIterations(h)
  <2>1. \A h \in Generations, u \in Tasks : generation'[u] = h /\ pc'[u] = "body" <=>
          generation[u] = h /\ pc[u] = "body" /\ u # t
    BY <1>1 DEF TypeOK
  <2>2. OpenIterations(g)' = {}
    BY <2>1, <1>2, <1>3 DEF OpenIterations
  <2>3. ASSUME NEW h \in Generations, h # g PROVE OpenIterations(h)' = OpenIterations(h)
    <3>1. \A u \in Tasks : generation'[u] = h /\ pc'[u] = "body" <=>
            generation[u] = h /\ pc[u] = "body"
      BY <2>1, <2>3, <1>0
    <3>2. QED
      BY <3>1, <1>1 DEF OpenIterations
  <2>4. QED
    BY <2>2, <2>3
<1>6. ASSUME NEW h \in Generations, NEW j \in Ordinals(h)
      PROVE  Completed(h, j)' <=> (Completed(h, j) \/ (h = g /\ j = i))
  <2>1. Owner[h][j] \in Tasks /\ h \in Nat /\ j \in Nat
    BY LoopsAssumption DEF Generations, Ordinals
  <2>2. CASE Owner[h][j] # t
    BY <2>1, <2>2, <1>1, <1>2 DEF Completed, TypeOK
  <2>3. CASE Owner[h][j] = t /\ h # g
    BY <2>1, <2>3, <1>0, <1>1, <1>2 DEF Completed, TypeOK
  <2>4. CASE Owner[h][j] = t /\ h = g
    <3>1. j < i => Completed(h, j)
      BY <2>4, <1>2 DEF PassedCompleted
    <3>2. Completed(h, j) <=> pos[t] > j
      BY <2>1, <2>4, <1>0, <1>2 DEF Completed
    <3>3. Completed(h, j)' <=> i + 1 > j
      BY <2>1, <2>4, <1>0, <1>1, <1>2 DEF Completed, TypeOK
    <3>4. QED
      BY <2>1, <2>4, <3>1, <3>2, <3>3, <1>2
  <2>5. QED
    BY <2>2, <2>3, <2>4
<1>7. \A h \in Generations : DoneIterations(h)' =
        IF h = g THEN DoneIterations(h) \cup {i} ELSE DoneIterations(h)
  BY <1>2, <1>6 DEF DoneIterations, Ordinals
<1>8. Regions!End(g, i)
  BY <1>2, <1>4, <1>5, <1>7 DEF Regions!End
<1>9. QED
  BY <1>2, <1>8 DEF Regions!Next, Regions!Loops, Regions!Iterations, Generations, Ordinals

\* The entry points of the ordered protocol implement OrderedRegions: every
\* behaviour of the tasks is, region by region, one of iterations in order.
THEOREM Refinement == Spec => ImplementsRegions
<1>1. Init => Regions!Init
  <2> SUFFICES ASSUME Init PROVE Regions!Init
    OBVIOUS
  <2>1. \A g \in Generations : DoneIterations(g) = {}
    BY LoopsAssumption DEF Init, DoneIterations, Completed, Ordinals, Generations
  <2>2. \A g \in Generations : OpenIterations(g) = {}
    BY DEF Init, OpenIterations
  <2>3. QED
    BY <2>1, <2>2 DEF Regions!Init, Regions!Loops, Generations
<1>2. IndInv /\ IndInv' /\ [Next]_vars => [Regions!Next]_(Regions!vars)
  <2> SUFFICES ASSUME IndInv, IndInv', [Next]_vars
               PROVE  Regions!Next \/ UNCHANGED Regions!vars
    OBVIOUS
  <2>1. CASE UNCHANGED vars \/ Terminated
    <3>1. UNCHANGED vars
      BY <2>1 DEF Terminated
    <3>2. QED
      BY <3>1, NoRegionStep DEF vars
  <2>2. ASSUME NEW t \in Tasks,
               Enter(t) \/ Check(t) \/ SpuriousWakeup(t) \/ Release(t) \/ NotifyAll(t)
                 \/ FinishNowait(t) \/ FinishBarrier(t)
        PROVE  UNCHANGED Regions!vars
    <3> USE DEF IndInv, TypeOK, Goto
    <3>1. CASE Enter(t)
      BY <3>1, NoRegionStep DEF Enter
    <3>2. CASE Check(t)
      BY <3>2, NoRegionStep DEF Check
    <3>3. CASE SpuriousWakeup(t)
      BY <3>3, NoRegionStep DEF SpuriousWakeup
    <3>4. CASE Release(t)
      BY <3>4, NoRegionStep DEF Release
    <3>5. CASE NotifyAll(t)
      BY <3>5, NoRegionStep DEF NotifyAll
    <3>6. CASE FinishNowait(t)
      BY <3>6, NoRegionStep DEF FinishNowait
    <3>7. CASE FinishBarrier(t)
      BY <3>7, NoRegionStep DEF FinishBarrier
    <3>8. QED
      BY <2>2, <3>1, <3>2, <3>3, <3>4, <3>5, <3>6, <3>7
  <2>3. ASSUME NEW t \in Tasks, Prepare(t) \/ Activate(t) \/ Exit(t)
        PROVE  Regions!Next \/ UNCHANGED Regions!vars
    BY <2>3, PrepareStutters, ActivateBegins, ExitEnds
  <2>4. QED
    BY <2>1, <2>2, <2>3 DEF Next, Step
<1>3. QED
  BY <1>1, <1>2, Invariance, PTL DEF Spec, ImplementsRegions, Regions!Spec
=============================================================================
