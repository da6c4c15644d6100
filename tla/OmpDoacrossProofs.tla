-------------------------- MODULE OmpDoacrossProofs --------------------------
(***************************************************************************)
(* The safety properties of OmpDoacross for every team, every number of    *)
(* loop nests, every shape, schedule and list of accepted sink vectors.    *)
(* DependencesHonoured is about the iterations that the sink vectors name, *)
(* the code about values of loop variables: SinkNames says that the        *)
(* runtime's ordinal of such a value is the iteration that is meant.  What *)
(* carries the rest is Posted, that a point is posted only when it is      *)
(* over, and Waited, that what a task has waited for is over.              *)
(***************************************************************************)
EXTENDS OmpDoacross, FiniteSetTheorems, TLAPS

\* Most leaves are first-order; Zenon is tried first, briefly, and SMT then.
USE ZenonT(2), SMT

Locations == {"idle", "outer", "sink", "wait", "body", "notify", "barrier", "error"}
AtPoint == {"sink", "wait", "body", "notify"}

Workspace ==
  /\ DOMAIN generations \subseteq Generations
  /\ generations = [h \in DOMAIN generations |-> generations[h]]
  /\ \A h \in DOMAIN generations :
       generations[h] \in [prepared_tasks : Nat, shape : {Shape[h]}, completed : SUBSET Points(h)]

Places ==
  /\ generation \in [Tasks -> 0..LastGeneration]
  /\ outer \in [Tasks -> Int]
  /\ inner \in [Tasks -> Int]
  /\ sink \in [Tasks -> Int]
  /\ pc \in [Tasks -> Locations]

\* The tasks that have prepared nest g.
Preparers(g) == {t \in Tasks : generation[t] >= g}

PreparedCount ==
  \A g \in DOMAIN generations : generations[g].prepared_tasks = Cardinality(Preparers(g))

\* A task that is not idle is in a nest, and at a point of its own schedule.
InNest(t) ==
  /\ pc[t] # "idle" => generation[t] \in Generations
  /\ pc[t] \in AtPoint =>
       /\ <<outer[t], inner[t]>> \in Points(generation[t])
       /\ Owner[generation[t]][outer[t]] = t

Posted == \A g \in DOMAIN generations : \A p \in generations[g].completed : Completed(g, p)

\* The point that sink vector k of nest g names at point <<o, i>>.
Named(g, o, i, k) ==
  << o + ExactQuotient(Sinks[g][k][1], Shape[g].outer_step),
     i + ExactQuotient(Sinks[g][k][2], Shape[g].inner_step) >>

\* The first n sink vectors of the task's point have been waited for.
Over(t, n) ==
  LET g == generation[t] IN
  \A k \in 1..Len(Sinks[g]) :
    LET p == Named(g, outer[t], inner[t], k) IN k < n /\ p \in Points(g) => Completed(g, p)

Waited(t) ==
  /\ pc[t] \in {"sink", "wait"} =>
       sink[t] \in 1..Len(Sinks[generation[t]]) /\ Over(t, sink[t])
  /\ pc[t] = "body" => Over(t, Len(Sinks[generation[t]]) + 1)

DoacrossInv ==
  /\ Workspace /\ Places /\ PreparedCount /\ RetainedGenerations /\ Posted
  /\ \A t \in Tasks : InNest(t) /\ Waited(t)

-----------------------------------------------------------------------------
(* Ordinals of loop values *)

\* What a step divides is its quotient times the step.
LEMMA QuotientTimes ==
  ASSUME NEW x \in Int, NEW y \in Int \ {0}, Divides(y, x)
  PROVE  ExactQuotient(x, y) \in Int /\ x = ExactQuotient(x, y) * y
<1> DEFINE m == Magnitude(x)  n == Magnitude(y)
<1>1. m \in Nat /\ n \in Nat \ {0} /\ m % n = 0
  BY SMT DEF Magnitude, Divides
<1>2. m \div n \in Int /\ m = n * (m \div n)
  BY <1>1, SMT
<1> QED BY <1>1, <1>2, SMT DEF Magnitude, ExactQuotient

\* A multiple of a positive number leaves no remainder.
LEMMA MultipleDivides ==
  ASSUME NEW a \in Int, NEW b \in Int, b > 0, NEW x \in Int, x = a * b
  PROVE  x % b = 0 /\ x \div b = a
<1>1. x % b = 0
  BY SMT
<1>2. x \div b = a
  BY SMT
<1> QED BY <1>1, <1>2

\* A multiple of a step is divided by it, and the quotient is the factor.
LEMMA TimesQuotient ==
  ASSUME NEW k \in Int, NEW y \in Int \ {0}
  PROVE  Divides(y, k * y) /\ ExactQuotient(k * y, y) = k
<1> DEFINE n == Magnitude(y)  a == Magnitude(k)
<1>1. n \in Nat \ {0} /\ a \in Nat
  BY SMT DEF Magnitude
<1>2. Magnitude(k * y) = a * n /\ a * n \in Int /\ n > 0
  BY SMT DEF Magnitude
<1>3. (a * n) % n = 0 /\ (a * n) \div n = a
  <2> HIDE DEF a, n
  <2> QED BY <1>1, <1>2, MultipleDivides
<1>4. Divides(y, k * y)
  BY <1>2, <1>3 DEF Divides
<1>5. k # 0 => ((k * y < 0) = (y < 0) <=> k > 0)
  BY SMT
<1>6. k = 0 => k * y = 0 /\ a = 0
  BY SMT DEF Magnitude
<1>7. ExactQuotient(k * y, y) = k
  BY <1>2, <1>3, <1>5, <1>6, SMT DEF ExactQuotient, Magnitude
<1> QED BY <1>4, <1>7

\* doacross_ordinal of the value that lies an offset d after the value of
\* ordinal o is the ordinal d / step after o, where the loop has it.
LEMMA OrdinalNames ==
  ASSUME NEW lower \in Int, NEW upper \in Int, NEW step \in Int \ {0},
         NEW o \in Int, NEW d \in Int, Divides(step, d), NEW n,
         n = o + ExactQuotient(d, step),
         n \in 0..(LoopIterationCount(lower, upper, step) - 1),
         LoopIterationCount(lower, upper, step) \in Int
  PROVE  DoacrossOrdinal(lower + o * step + d, lower, upper, step) = n
<1>1. PICK q \in Int : q = ExactQuotient(d, step) /\ d = q * step
  BY QuotientTimes
<1>2. n \in Int /\ n = o + q
  BY <1>1
<1>3. (lower + o * step + d) - lower = n * step
  BY <1>1, <1>2, SMT
<1>4. Divides(step, n * step) /\ ExactQuotient(n * step, step) = n
  BY <1>2, TimesQuotient
<1>5. n >= 0 /\ n < LoopIterationCount(lower, upper, step)
  <2> DEFINE c == LoopIterationCount(lower, upper, step)
  <2>1. c \in Int /\ n \in 0..(c - 1)
    OBVIOUS
  <2> HIDE DEF c
  <2>2. n >= 0 /\ n < c
    BY <2>1, SMT
  <2> QED BY <2>2 DEF c
<1> QED BY <1>3, <1>4, <1>5, Zenon DEF DoacrossOrdinal

\* A trip count is an integer.
LEMMA CountIsInteger ==
  ASSUME NEW lower \in Int, NEW upper \in Int, NEW step \in Int \ {0}
  PROVE  LoopIterationCount(lower, upper, step) \in Int
<1>1. step > 0 => (upper - lower) \div step \in Int
  BY SMT
<1>2. step < 0 => (lower - upper) \div (-step) \in Int
  BY SMT
<1> QED BY <1>1, <1>2, SMT DEF LoopIterationCount

\* Counts, sink lists and points of an accepted nest.
LEMMA NestTypes ==
  ASSUME NEW g \in Generations
  PROVE  /\ g \in Nat /\ g > 0
         /\ OuterCount(g) \in Int /\ InnerCount(g) \in Int
         /\ Outer(g) \subseteq Nat /\ Inner(g) \subseteq Nat
         /\ Len(Sinks[g]) \in Nat /\ Len(Sinks[g]) > 0
         /\ \A p \in Points(g) : /\ p = <<p[1], p[2]>>
                                 /\ p[1] \in Outer(g) /\ p[2] \in Inner(g)
                                 /\ p[1] \in Nat /\ p[2] \in Nat /\ Owner[g][p[1]] \in Tasks
<1>1. g \in Nat /\ g > 0
  BY NestsAssumption, SMT DEF Generations
<1>2. OuterCount(g) \in Int /\ InnerCount(g) \in Int
  BY NestsAssumption, CountIsInteger DEF OuterCount, InnerCount
<1>3. Outer(g) \subseteq Nat /\ Inner(g) \subseteq Nat
  BY <1>2, SMT DEF Outer, Inner
<1>4. Len(Sinks[g]) \in Nat /\ Len(Sinks[g]) > 0
  BY NestsAssumption, SMT
<1>5. \A p \in Points(g) : /\ p = <<p[1], p[2]>>
                           /\ p[1] \in Outer(g) /\ p[2] \in Inner(g)
  BY SMT DEF Points
<1> QED BY <1>1, <1>2, <1>3, <1>4, <1>5, NestsAssumption

\* The values the generated code passes for a sink vector are those of the
\* point that the vector names, where the nest has that point.
LEMMA SinkNames ==
  ASSUME NEW g \in Generations, NEW o \in Int, NEW i \in Int,
         NEW k \in 1..Len(Sinks[g]), Named(g, o, i, k) \in Points(g)
  PROVE  PointAt(g, o, i, Sinks[g][k]) = Named(g, o, i, k)
<1> DEFINE v == Sinks[g][k]  s == Shape[g]  p == Named(g, o, i, k)
<1>1. v \in Int \X Int /\ v[1] \in Int /\ v[2] \in Int
  BY NestsAssumption, SMT
<1>2. Divides(s.outer_step, v[1]) /\ Divides(s.inner_step, v[2])
  BY NestsAssumption DEF AcceptedSink
<1>3. /\ s.outer_lower \in Int /\ s.outer_upper \in Int /\ s.outer_step \in Int \ {0}
      /\ s.inner_lower \in Int /\ s.inner_upper \in Int /\ s.inner_step \in Int \ {0}
  BY NestsAssumption
<1>4. p[1] \in Outer(g) /\ p[2] \in Inner(g) /\ OuterCount(g) \in Int /\ InnerCount(g) \in Int
  BY NestTypes
<1>5. DoacrossOrdinal(s.outer_lower + o * s.outer_step + v[1],
                      s.outer_lower, s.outer_upper, s.outer_step) = p[1]
  BY <1>1, <1>2, <1>3, <1>4, OrdinalNames DEF Named, Outer, OuterCount
<1>6. DoacrossOrdinal(s.inner_lower + i * s.inner_step + v[2],
                      s.inner_lower, s.inner_upper, s.inner_step) = p[2]
  BY <1>1, <1>2, <1>3, <1>4, OrdinalNames DEF Named, Inner, InnerCount
<1> QED BY <1>5, <1>6 DEF PointAt, Named

\* What a task posts is its own point.
LEMMA PostNames ==
  ASSUME NEW g \in Generations, NEW o \in Outer(g), NEW i \in Inner(g)
  PROVE  PointAt(g, o, i, <<0, 0>>) = <<o, i>> /\ NoOrdinal \notin {o, i}
<1> DEFINE s == Shape[g]
<1>1. /\ s.outer_lower \in Int /\ s.outer_upper \in Int /\ s.outer_step \in Int \ {0}
      /\ s.inner_lower \in Int /\ s.inner_upper \in Int /\ s.inner_step \in Int \ {0}
  BY NestsAssumption
<1>2. o \in Nat /\ i \in Nat /\ OuterCount(g) \in Int /\ InnerCount(g) \in Int
  BY NestTypes
<1>3. ASSUME NEW y \in Int \ {0}, NEW n \in Nat
      PROVE  Divides(y, 0) /\ n = n + ExactQuotient(0, y)
  <2>1. 0 * y = 0 /\ n = n + 0
    BY SMT
  <2>2. Divides(y, 0 * y) /\ ExactQuotient(0 * y, y) = 0
    BY TimesQuotient
  <2> QED BY <2>1, <2>2
<1>4. DoacrossOrdinal(s.outer_lower + o * s.outer_step + 0,
                      s.outer_lower, s.outer_upper, s.outer_step) = o
  <2> DEFINE c == LoopIterationCount(s.outer_lower, s.outer_upper, s.outer_step)
  <2>1. c \in Int /\ o \in 0..(c - 1)
    BY <1>2 DEF Outer, OuterCount
  <2>2. Divides(s.outer_step, 0) /\ o = o + ExactQuotient(0, s.outer_step)
    BY <1>1, <1>2, <1>3
  <2>3. o \in Int /\ 0 \in Int
    BY <1>2
  <2> HIDE DEF s
  <2> QED BY <1>1, <2>1, <2>2, <2>3, OrdinalNames
<1>5. DoacrossOrdinal(s.inner_lower + i * s.inner_step + 0,
                      s.inner_lower, s.inner_upper, s.inner_step) = i
  <2> DEFINE c == LoopIterationCount(s.inner_lower, s.inner_upper, s.inner_step)
  <2>1. c \in Int /\ i \in 0..(c - 1)
    BY <1>2 DEF Inner, InnerCount
  <2>2. Divides(s.inner_step, 0) /\ i = i + ExactQuotient(0, s.inner_step)
    BY <1>1, <1>2, <1>3
  <2>3. i \in Int /\ 0 \in Int
    BY <1>2
  <2> HIDE DEF s
  <2> QED BY <1>1, <2>1, <2>2, <2>3, OrdinalNames
<1>6. NoOrdinal \notin {o, i}
  BY <1>2, SMT DEF NoOrdinal
<1> QED BY <1>4, <1>5, <1>6 DEF PointAt

-----------------------------------------------------------------------------
(* What a step of one task means for the others *)

\* Where a task is when no point of its outer iteration is left.
Rest == {"idle", "barrier", "outer"}

\* A task never falls behind: what it was past it is past after the step.
Advances(u) ==
  \/ generation'[u] > generation[u]
  \/ generation'[u] = generation[u] /\ outer'[u] > outer[u]
  \/ /\ generation'[u] = generation[u] /\ outer'[u] = outer[u]
     /\ inner'[u] > inner[u] /\ pc[u] \notin Rest
  \/ /\ generation'[u] = generation[u] /\ outer'[u] = outer[u] /\ inner'[u] = inner[u]
     /\ pc[u] = "notify" => pc'[u] \in Rest \cup {"notify"}
     /\ pc[u] \in Rest => pc'[u] \in Rest

\* A task that the step leaves where it was, or only wakes up.
Unmoved(u) ==
  /\ generation'[u] = generation[u] /\ outer'[u] = outer[u]
  /\ inner'[u] = inner[u] /\ sink'[u] = sink[u]
  /\ pc'[u] = pc[u] \/ (pc[u] = "wait" /\ pc'[u] = "sink")

\* A task that stays where it is does not fall behind.
LEMMA UnmovedAdvances ==
  ASSUME NEW u, Unmoved(u)
  PROVE  Advances(u)
  BY DEF Unmoved, Advances, Rest

\* A point that is over stays over.
LEMMA CompletedKept ==
  ASSUME Places, Places', \A u \in Tasks : Advances(u),
         NEW g \in Generations, NEW p \in Points(g), Completed(g, p)
  PROVE  Completed(g, p)'
<1> DEFINE u == Owner[g][p[1]]
<1>1. u \in Tasks /\ g \in Nat /\ p[1] \in Nat /\ p[2] \in Nat
  BY NestTypes
<1> HIDE DEF u
<1>2. Advances(u)
  BY <1>1
<1>3. /\ generation[u] \in Int /\ generation'[u] \in Int /\ outer[u] \in Int /\ outer'[u] \in Int
      /\ inner[u] \in Int /\ inner'[u] \in Int
  BY <1>1, NestsAssumption DEF Places
<1>4. CASE generation[u] > g \/ generation'[u] > generation[u]
  <2>1. generation[u] >= g
    BY <1>1, <1>3, <1>4, SMT DEF Completed, u
  <2>2. generation'[u] >= generation[u]
    BY <1>2, <1>3, SMT DEF Advances
  <2>3. generation'[u] > g
    BY <1>1, <1>3, <1>4, <2>1, <2>2, SMT
  <2> QED BY <2>3 DEF Completed, u
<1>5. CASE ~(generation[u] > g) /\ ~(generation'[u] > generation[u])
  <2>1. /\ generation'[u] = generation[u] /\ generation[u] = g
        /\ \/ outer[u] > p[1]
           \/ outer[u] = p[1] /\ inner[u] > p[2]
           \/ outer[u] = p[1] /\ inner[u] = p[2] /\ pc[u] = "notify"
           \/ outer[u] = p[1] /\ pc[u] \in Rest
    BY <1>2, <1>5 DEF Completed, u, Advances, Rest
  <2>2. \/ outer'[u] > p[1]
        \/ outer'[u] = p[1] /\ inner'[u] > p[2]
        \/ outer'[u] = p[1] /\ inner'[u] = p[2] /\ pc'[u] = "notify"
        \/ outer'[u] = p[1] /\ pc'[u] \in Rest
    <3>1. CASE outer'[u] > outer[u]
      BY <1>1, <1>3, <2>1, <3>1, SMT
    <3>2. CASE outer'[u] = outer[u] /\ inner'[u] > inner[u] /\ pc[u] \notin Rest
      BY <1>1, <1>3, <2>1, <3>2, SMT
    <3>3. CASE /\ outer'[u] = outer[u] /\ inner'[u] = inner[u]
               /\ pc[u] = "notify" => pc'[u] \in Rest \cup {"notify"}
               /\ pc[u] \in Rest => pc'[u] \in Rest
      BY <2>1, <3>3
    <3> QED BY <1>2, <1>5, <2>1, <3>1, <3>2, <3>3 DEF Advances
  <2> QED BY <2>1, <2>2 DEF Completed, u, Rest
<1> QED BY <1>4, <1>5

\* So what was posted stays rightly posted, ...
LEMMA PostedKept ==
  ASSUME Workspace, Posted, Places, Places', \A u \in Tasks : Advances(u),
         UNCHANGED generations
  PROVE  Posted'
<1> SUFFICES ASSUME NEW g \in DOMAIN generations, NEW p \in generations[g].completed
             PROVE  Completed(g, p)'
  BY DEF Posted
<1>1. g \in Generations /\ p \in Points(g) /\ Completed(g, p)
  BY DEF Workspace, Posted
<1> QED BY <1>1, CompletedKept

\* ... what a task has waited for stays over, ...
LEMMA OverKept ==
  ASSUME Places, Places', \A u \in Tasks : Advances(u),
         NEW t \in Tasks, generation[t] \in Generations, NEW n, Over(t, n),
         generation'[t] = generation[t], outer'[t] = outer[t], inner'[t] = inner[t]
  PROVE  Over(t, n)'
<1> DEFINE g == generation[t]
<1> SUFFICES ASSUME NEW k \in 1..Len(Sinks[g]), k < n, 
                    Named(g, outer[t], inner[t], k) \in Points(g)
             PROVE  Completed(g, Named(g, outer[t], inner[t], k))'
  BY DEF Over, Named
<1>1. Completed(g, Named(g, outer[t], inner[t], k))
  BY DEF Over
<1> QED BY <1>1, CompletedKept DEF Named

\* ... and the task that is left where it was is where it should be.
LEMMA UnmovedKept ==
  ASSUME DoacrossInv, Places', \A u \in Tasks : Advances(u), NEW t \in Tasks, Unmoved(t)
  PROVE  InNest(t)' /\ Waited(t)'
<1>1. Places /\ InNest(t) /\ Waited(t)
  BY DEF DoacrossInv
<1>2. InNest(t)'
  BY <1>1 DEF InNest, Unmoved, AtPoint
<1>3. CASE pc'[t] \in {"sink", "wait", "body"}
  <2>1. generation[t] \in Generations
    BY <1>1, <1>3 DEF InNest, Unmoved
  <2>2. pc'[t] \in {"sink", "wait"} =>
          sink[t] \in 1..Len(Sinks[generation[t]]) /\ Over(t, sink[t])
    BY <1>1, <1>3 DEF Waited, Unmoved
  <2>3. pc'[t] = "body" => Over(t, Len(Sinks[generation[t]]) + 1)
    BY <1>1, <1>3 DEF Waited, Unmoved
  <2>4. \A n : Over(t, n) => Over(t, n)'
    BY <1>1, <2>1, OverKept DEF Unmoved
  <2>5. PICK n, m : n = sink[t] /\ m = Len(Sinks[generation[t]]) + 1
    OBVIOUS
  <2>6. n = sink'[t] /\ m = Len(Sinks[generation'[t]]) + 1
    BY <2>5 DEF Unmoved
  <2>7. (Over(t, n)' => Over(t, sink[t])') /\ (Over(t, m)' => Over(t, Len(Sinks[generation[t]]) + 1)')
    BY <2>6 DEF Over
  <2> QED BY <1>2, <2>2, <2>3, <2>4, <2>5, <2>6, <2>7 DEF Waited, Unmoved
<1>4. CASE pc'[t] \notin {"sink", "wait", "body"}
  BY <1>2, <1>4 DEF Waited
<1> QED BY <1>2, <1>3, <1>4

\* What concerns the workspace and the tasks' generations is preserved by a
\* step that changes neither.
LEMMA WorkspaceKept ==
  ASSUME DoacrossInv, UNCHANGED <<generations, generation>>,
         \A u \in Tasks : pc'[u] # "error"
  PROVE  Workspace' /\ PreparedCount' /\ RetainedGenerations'
  BY DEF DoacrossInv, Workspace, PreparedCount, Preparers, RetainedGenerations, Points, Outer, Inner

\* The workspace still holds the nest that a task is in.
LEMMA CurrentRetained ==
  ASSUME DoacrossInv, NEW t \in Tasks, generation[t] \in Generations
  PROVE  generation[t] \in DOMAIN generations
<1>1. generation[t] >= generation[t] /\ generation[t] <= generation[t]
  BY NestTypes
<1> QED BY <1>1 DEF DoacrossInv, RetainedGenerations

\* A step of task t that leaves the workspace alone and the other tasks where
\* they were preserves the invariant if it does so for task t.
LEMMA LocalStep ==
  ASSUME DoacrossInv, NEW t \in Tasks, UNCHANGED <<generations, generation>>, Places',
         \A u \in Tasks : pc'[u] # "error", Advances(t),
         \A u \in Tasks \ {t} : Unmoved(u),
         (\A u \in Tasks : Advances(u)) => InNest(t)' /\ Waited(t)'
  PROVE  DoacrossInv'
<1>1. \A u \in Tasks : Advances(u)
  BY UnmovedAdvances
<1>2. Workspace' /\ PreparedCount' /\ RetainedGenerations'
  BY WorkspaceKept
<1>3. Posted'
  BY <1>1, PostedKept DEF DoacrossInv
<1>4. \A u \in Tasks : InNest(u)' /\ Waited(u)'
  BY <1>1, UnmovedKept
<1> QED BY <1>2, <1>3, <1>4 DEF DoacrossInv

-----------------------------------------------------------------------------
(* The steps that leave the workspace alone *)

\* Before any task has prepared a nest the workspace is empty.
LEMMA InitInv == Init => DoacrossInv
<1> SUFFICES ASSUME Init PROVE DoacrossInv
  OBVIOUS
<1>1. Workspace /\ Posted /\ PreparedCount
  BY DEF Init, Workspace, Posted, PreparedCount
<1>2. Places
  BY NestsAssumption DEF Init, Places, Locations
<1>3. RetainedGenerations
  <2>1. \A g \in Generations : ~ \E t \in Tasks : generation[t] >= g
    BY NestTypes DEF Init
  <2> QED BY <2>1 DEF Init, RetainedGenerations
<1>4. \A t \in Tasks : InNest(t) /\ Waited(t)
  BY DEF Init, InNest, Waited, AtPoint
<1> QED BY <1>1, <1>2, <1>3, <1>4 DEF DoacrossInv

\* The schedule hands out an outer iteration: its first point is the task's,
\* and none of its sink vectors has been waited for.
LEMMA NextOuterInv ==
  ASSUME DoacrossInv, NEW t \in Tasks, NextOuter(t)
  PROVE  DoacrossInv'
<1> DEFINE g == generation[t]
<1>1. /\ pc[t] = "outer" /\ g \in Generations /\ Places
      /\ UNCHANGED <<generations, generation>>
  BY DEF NextOuter, DoacrossInv, InNest
<1>2. PICK o \in Outer(g) : o > outer[t] /\ Owner[g][o] = t /\ outer' = [outer EXCEPT ![t] = o]
  BY DEF NextOuter
<1>3. /\ inner' = [inner EXCEPT ![t] = 0] /\ sink' = [sink EXCEPT ![t] = 1]
      /\ pc' = [pc EXCEPT ![t] = IF InnerCount(g) > 0 THEN "sink" ELSE "outer"]
  BY DEF NextOuter, Goto
<1>4. o \in Int /\ InnerCount(g) \in Int /\ Len(Sinks[g]) \in Nat /\ Len(Sinks[g]) > 0
  BY <1>1, NestTypes
<1>5. /\ outer'[t] = o /\ inner'[t] = 0 /\ sink'[t] = 1 /\ generation'[t] = g
      /\ pc'[t] = IF InnerCount(g) > 0 THEN "sink" ELSE "outer"
  BY <1>1, <1>2, <1>3 DEF Places
<1>6. Places'
  BY <1>1, <1>2, <1>3, <1>4 DEF Places, Locations
<1>7. \A u \in Tasks \ {t} : Unmoved(u)
  <2> TAKE u \in Tasks \ {t}
  <2>1. /\ generation'[u] = generation[u] /\ outer'[u] = outer[u]
        /\ inner'[u] = inner[u] /\ sink'[u] = sink[u]
    BY <1>1, <1>2, <1>3 DEF Places
  <2>2. pc'[u] = pc[u] \/ (pc[u] = "wait" /\ pc'[u] = "sink")
    BY <1>1, <1>2, <1>3 DEF Places
  <2> QED BY <2>1, <2>2 DEF Unmoved
<1>8. Advances(t)
  BY <1>1, <1>2, <1>5 DEF Advances
<1>9. \A u \in Tasks : pc'[u] # "error"
  BY <1>5, <1>7 DEF DoacrossInv, RetainedGenerations, Unmoved
<1>10. InNest(t)'
  <2>1. InnerCount(g) > 0 => 0 \in Inner(g)
    BY <1>4, SMT DEF Inner
  <2>2. pc'[t] \in AtPoint => <<outer'[t], inner'[t]>> \in Points(g)
    BY <1>5, <2>1 DEF Points, AtPoint
  <2> QED BY <1>1, <1>2, <1>5, <2>2 DEF InNest, Points, Outer, Inner
<1>11. Waited(t)'
  <2>1. sink'[t] \in 1..Len(Sinks[g])
    BY <1>4, <1>5, SMT
  <2>2. \A k \in 1..Len(Sinks[g]) : ~ k < 1
    BY <1>4, SMT
  <2>3. Over(t, sink[t])'
    BY <1>5, <2>2 DEF Over
  <2> QED BY <1>5, <2>1, <2>3 DEF Waited
<1> QED BY <1>1, <1>6, <1>7, <1>8, <1>9, <1>10, <1>11, LocalStep

\* Leaving a NOWAIT loop: the task has no point any more.
LEMMA FinishNowaitInv ==
  ASSUME DoacrossInv, NEW t \in Tasks, FinishNowait(t)
  PROVE  DoacrossInv'
<1>1. /\ pc[t] = "outer" /\ Places /\ pc' = [pc EXCEPT ![t] = "idle"]
      /\ UNCHANGED <<generations, generation, outer, inner, sink>>
  BY DEF FinishNowait, DoacrossInv, Goto
<1>2. Places' /\ pc'[t] = "idle"
  BY <1>1 DEF Places, Locations
<1>3. \A u \in Tasks \ {t} : Unmoved(u)
  <2> TAKE u \in Tasks \ {t}
  <2>1. /\ generation'[u] = generation[u] /\ outer'[u] = outer[u]
        /\ inner'[u] = inner[u] /\ sink'[u] = sink[u]
    BY <1>1 DEF Places
  <2>2. pc'[u] = pc[u] \/ (pc[u] = "wait" /\ pc'[u] = "sink")
    BY <1>1 DEF Places
  <2> QED BY <2>1, <2>2 DEF Unmoved
<1>4. Advances(t)
  BY <1>1, <1>2 DEF Advances, Rest
<1>5. \A u \in Tasks : pc'[u] # "error"
  BY <1>2, <1>3 DEF DoacrossInv, RetainedGenerations, Unmoved
<1>6. InNest(t)' /\ Waited(t)'
  BY <1>2 DEF InNest, Waited, AtPoint
<1> QED BY <1>1, <1>2, <1>3, <1>4, <1>5, <1>6, LocalStep

\* The barrier: the task comes to rest there, or the whole team goes on.
LEMMA FinishBarrierInv ==
  ASSUME DoacrossInv, NEW t \in Tasks, FinishBarrier(t)
  PROVE  DoacrossInv'
<1>1. /\ pc[t] = "outer" /\ Places
      /\ UNCHANGED <<generations, generation, outer, inner, sink>>
  BY DEF FinishBarrier, DoacrossInv
<1>2. CASE ~ \A u \in Tasks \ {t} : pc[u] = "barrier"
  <2>1. pc' = [pc EXCEPT ![t] = "barrier"]
    BY <1>2 DEF FinishBarrier
  <2>2. Places' /\ pc'[t] = "barrier"
    BY <1>1, <2>1 DEF Places, Locations
  <2>3. \A u \in Tasks \ {t} : Unmoved(u)
    <3> TAKE u \in Tasks \ {t}
    <3>1. /\ generation'[u] = generation[u] /\ outer'[u] = outer[u]
          /\ inner'[u] = inner[u] /\ sink'[u] = sink[u]
      BY <1>1, <2>1 DEF Places
    <3>2. pc'[u] = pc[u] \/ (pc[u] = "wait" /\ pc'[u] = "sink")
      BY <1>1, <2>1 DEF Places
    <3> QED BY <3>1, <3>2 DEF Unmoved
  <2>4. Advances(t)
    BY <1>1, <2>2 DEF Advances, Rest
  <2>5. \A u \in Tasks : pc'[u] # "error"
    BY <2>2, <2>3 DEF DoacrossInv, RetainedGenerations, Unmoved
  <2>6. InNest(t)' /\ Waited(t)'
    BY <1>1, <2>2 DEF InNest, Waited, AtPoint, DoacrossInv
  <2> QED BY <1>1, <2>2, <2>3, <2>4, <2>5, <2>6, LocalStep
<1>3. CASE \A u \in Tasks \ {t} : pc[u] = "barrier"
  <2>1. pc' = [u \in Tasks |-> "idle"] /\ \A u \in Tasks : pc'[u] = "idle"
    BY <1>3 DEF FinishBarrier
  <2>2. Places'
    BY <1>1, <2>1 DEF Places, Locations
  <2>3. \A u \in Tasks : Advances(u)
    BY <1>1, <1>3, <2>1 DEF Advances, Rest
  <2>4. \A u \in Tasks : InNest(u)' /\ Waited(u)'
    BY <2>1 DEF InNest, Waited, AtPoint
  <2>5. Workspace' /\ PreparedCount' /\ RetainedGenerations'
    BY <1>1, <2>1, WorkspaceKept
  <2>6. Posted'
    BY <1>1, <2>2, <2>3, PostedKept DEF DoacrossInv
  <2> QED BY <2>2, <2>4, <2>5, <2>6 DEF DoacrossInv
<1> QED BY <1>2, <1>3

\* A wakeup without a notification only makes the task look again.
LEMMA SpuriousWakeupInv ==
  ASSUME DoacrossInv, NEW t \in Tasks, SpuriousWakeup(t)
  PROVE  DoacrossInv'
<1>1. /\ pc[t] = "wait" /\ Places /\ pc' = [pc EXCEPT ![t] = "sink"]
      /\ UNCHANGED <<generations, generation, outer, inner, sink>>
  BY DEF SpuriousWakeup, DoacrossInv, Goto
<1>2. Places' /\ pc'[t] = "sink"
  BY <1>1 DEF Places, Locations
<1>3. \A u \in Tasks : Unmoved(u)
  <2> TAKE u \in Tasks
  <2>1. /\ generation'[u] = generation[u] /\ outer'[u] = outer[u]
        /\ inner'[u] = inner[u] /\ sink'[u] = sink[u]
    BY <1>1 DEF Places
  <2>2. pc'[u] = pc[u] \/ (pc[u] = "wait" /\ pc'[u] = "sink")
    BY <1>1 DEF Places
  <2> QED BY <2>1, <2>2 DEF Unmoved
<1>4. Advances(t)
  BY <1>3, UnmovedAdvances
<1>5. \A u \in Tasks : pc'[u] # "error"
  BY <1>2, <1>3 DEF DoacrossInv, RetainedGenerations, Unmoved
<1>6. (\A u \in Tasks : Advances(u)) => InNest(t)' /\ Waited(t)'
  BY <1>2, <1>3, UnmovedKept
<1> QED BY <1>1, <1>2, <1>3, <1>4, <1>5, <1>6, LocalStep

-----------------------------------------------------------------------------
(* afs_omp_doacross_wait and afs_omp_doacross_post *)

\* One round of waiting: the vector is passed only when its point is posted,
\* hence over, or the nest has no such point.
LEMMA WaitInv ==
  ASSUME DoacrossInv, NEW t \in Tasks, Wait(t)
  PROVE  DoacrossInv'
<1> DEFINE g == generation[t]  k == sink[t]
           p == PointAt(g, outer[t], inner[t], Sinks[g][k])
           passed == NoOrdinal \in {p[1], p[2]} \/ p \in generations[g].completed
<1>1. /\ pc[t] = "sink" /\ g \in Generations /\ Places
      /\ UNCHANGED <<generations, generation, outer, inner>>
      /\ k \in 1..Len(Sinks[g]) /\ Over(t, k)
  BY DEF Wait, DoacrossInv, InNest, Waited
<1>2. g \in DOMAIN generations /\ Len(Sinks[g]) \in Nat
  BY <1>1, CurrentRetained, NestTypes
<1>3. /\ passed => /\ pc' = [pc EXCEPT ![t] = IF k = Len(Sinks[g]) THEN "body" ELSE "sink"]
                   /\ sink' = [sink EXCEPT ![t] = @ + 1]
      /\ ~passed => pc' = [pc EXCEPT ![t] = "wait"] /\ sink' = sink
  BY <1>2 DEF Wait, Goto
<1> HIDE DEF passed
<1>4. Places'
  <2>1. CASE passed
    <3>1. sink' \in [Tasks -> Int]
      BY <1>1, <1>3, <2>1 DEF Places
    <3>2. pc' \in [Tasks -> Locations]
      BY <1>1, <1>3, <2>1 DEF Places, Locations
    <3> QED BY <1>1, <3>1, <3>2 DEF Places
  <2>2. CASE ~passed
    BY <1>1, <1>3, <2>2 DEF Places, Locations
  <2> QED BY <2>1, <2>2
<1>5. \A u \in Tasks \ {t} : Unmoved(u)
  <2> TAKE u \in Tasks \ {t}
  <2>1. /\ generation'[u] = generation[u] /\ outer'[u] = outer[u] /\ inner'[u] = inner[u]
    BY <1>1
  <2>2. pc'[u] = pc[u] /\ sink'[u] = sink[u]
    BY <1>1, <1>3 DEF Places
  <2> QED BY <2>1, <2>2 DEF Unmoved
<1>6. Advances(t)
  BY <1>1 DEF Advances, Rest
<1>7. \A u \in Tasks : pc'[u] # "error"
  <2>1. pc'[t] \in {"body", "sink", "wait"}
    BY <1>1, <1>3 DEF Places
  <2> QED BY <1>5, <2>1 DEF DoacrossInv, RetainedGenerations, Unmoved
<1>8. InNest(t)'
  BY <1>1 DEF InNest, DoacrossInv, AtPoint
<1>9. ASSUME \A u \in Tasks : Advances(u)
      PROVE  Waited(t)'
  <2>1. PICK n : n = k /\ n \in Int
    BY <1>1 DEF Places
  <2>2. Over(t, n)'
    BY <1>1, <1>4, <1>9, <2>1, OverKept
  <2>3. CASE ~passed
    <3>1. pc'[t] = "wait" /\ sink'[t] = n /\ generation'[t] = g
      BY <1>1, <1>3, <2>1, <2>3 DEF Places
    <3>2. Over(t, sink[t])'
      BY <2>2, <3>1 DEF Over
    <3> QED BY <1>1, <2>1, <3>1, <3>2 DEF Waited
  <2>4. CASE passed
    <3>1. /\ sink'[t] = n + 1 /\ generation'[t] = g
          /\ pc'[t] = IF n = Len(Sinks[g]) THEN "body" ELSE "sink"
      BY <1>1, <1>3, <2>1, <2>4 DEF Places
    <3> DEFINE q == Named(g, outer[t], inner[t], n)
    <3>2. ASSUME q \in Points(g) PROVE Completed(g, q)'
      <4>1. p = q
        BY <1>1, <2>1, <3>2, SinkNames DEF Places
      <4>2. q[1] \in Nat /\ q[2] \in Nat
        BY <1>1, <3>2, NestTypes
      <4> HIDE DEF q, p
      <4>3. NoOrdinal \notin {q[1], q[2]}
        BY <4>2, SMT DEF NoOrdinal
      <4>4. Completed(g, q)
        BY <1>2, <2>4, <4>1, <4>3 DEF passed, DoacrossInv, Posted
      <4> QED BY <1>1, <1>4, <1>9, <3>2, <4>4, CompletedKept DEF q
    <3>3. Over(t, n + 1)'
      <4> SUFFICES ASSUME NEW j \in 1..Len(Sinks[g]), j < n + 1,
                          Named(g, outer[t], inner[t], j) \in Points(g)
                   PROVE  Completed(g, Named(g, outer[t], inner[t], j))'
        BY <1>1 DEF Over, Named, Points, Outer, Inner
      <4>1. j = n \/ j < n
        BY <1>2, <2>1, SMT
      <4>2. CASE j = n
        BY <3>2, <4>2
      <4>3. CASE j < n
        BY <1>1, <2>2, <4>3 DEF Over, Named, Points, Outer, Inner
      <4> QED BY <4>1, <4>2, <4>3
    <3>4. CASE n = Len(Sinks[g])
      <4>1. Over(t, Len(Sinks[generation[t]]) + 1)'
        BY <3>1, <3>3, <3>4 DEF Over
      <4> QED BY <3>1, <3>4, <4>1 DEF Waited
    <3>5. CASE n # Len(Sinks[g])
      <4>1. Over(t, sink[t])'
        BY <3>1, <3>3 DEF Over
      <4>2. n + 1 \in 1..Len(Sinks[g])
        BY <1>1, <1>2, <2>1, <3>5, SMT
      <4> QED BY <3>1, <3>5, <4>1, <4>2 DEF Waited
    <3> QED BY <3>4, <3>5
  <2> QED BY <2>3, <2>4
<1> QED BY <1>1, <1>4, <1>5, <1>6, <1>7, <1>8, <1>9, LocalStep

\* Posting: the point is over now, and it was not posted before because it
\* was not over.
LEMMA PostInv ==
  ASSUME DoacrossInv, NEW t \in Tasks, Post(t)
  PROVE  DoacrossInv'
<1> DEFINE g == generation[t]  p == <<outer[t], inner[t]>>
<1>1. /\ pc[t] = "body" /\ g \in Generations /\ Places
      /\ UNCHANGED <<generation, outer, inner, sink>>
      /\ p \in Points(g) /\ Owner[g][outer[t]] = t
  BY DEF Post, DoacrossInv, InNest, AtPoint
<1>2. g \in DOMAIN generations
  BY <1>1, CurrentRetained
<1>3. p \notin generations[g].completed
  <2>1. ~ Completed(g, p)
    <3>1. outer[t] \in Int /\ inner[t] \in Int /\ g \in Int
      BY <1>1, NestTypes DEF Places
    <3>2. ~ g > g /\ ~ outer[t] > outer[t] /\ ~ inner[t] > inner[t]
      BY <3>1, SMT
    <3> QED BY <1>1, <3>2 DEF Completed
  <2> QED BY <1>2, <2>1 DEF DoacrossInv, Posted
<1>4. /\ generations' = [generations EXCEPT ![g].completed = @ \cup {p}]
      /\ pc' = [pc EXCEPT ![t] = "notify"]
  <2>1. outer[t] \in Outer(g) /\ inner[t] \in Inner(g)
    BY <1>1, NestTypes
  <2>2. PointAt(g, outer[t], inner[t], <<0, 0>>) = p /\ NoOrdinal \notin {p[1], p[2]}
    BY <1>1, <2>1, PostNames
  <2> QED BY <1>2, <1>3, <2>2 DEF Post, Goto
<1>5. Places' /\ pc'[t] = "notify"
  BY <1>1, <1>4 DEF Places, Locations
<1>6. \A u \in Tasks \ {t} : Unmoved(u)
  <2> TAKE u \in Tasks \ {t}
  <2>1. pc'[u] = pc[u]
    BY <1>1, <1>4 DEF Places
  <2> QED BY <1>1, <2>1 DEF Unmoved
<1>7. \A u \in Tasks : Advances(u)
  <2>1. Advances(t)
    BY <1>1 DEF Advances, Rest
  <2> QED BY <1>6, <2>1, UnmovedAdvances
<1>8. /\ DOMAIN generations' = DOMAIN generations
      /\ generations' = [h \in DOMAIN generations' |-> generations'[h]]
      /\ \A h \in DOMAIN generations : h # g => generations'[h] = generations[h]
      /\ generations'[g] = [generations[g] EXCEPT !.completed = @ \cup {p}]
  <2>1. generations = [h \in DOMAIN generations |-> generations[h]]
    BY DEF DoacrossInv, Workspace
  <2> QED BY <1>2, <1>4, <2>1
<1>9. /\ generations[g] \in [prepared_tasks : Nat, shape : {Shape[g]}, completed : SUBSET Points(g)]
      /\ generations'[g] \in [prepared_tasks : Nat, shape : {Shape[g]}, completed : SUBSET Points(g)]
      /\ generations'[g].prepared_tasks = generations[g].prepared_tasks
      /\ generations'[g].completed = generations[g].completed \cup {p}
  <2>1. generations[g] \in [prepared_tasks : Nat, shape : {Shape[g]}, completed : SUBSET Points(g)]
    BY <1>2 DEF DoacrossInv, Workspace
  <2> HIDE DEF p
  <2>2. /\ generations'[g].prepared_tasks = generations[g].prepared_tasks
        /\ generations'[g].completed = generations[g].completed \cup {p}
    BY <1>8, <2>1
  <2>3. generations'[g] \in [prepared_tasks : Nat, shape : {Shape[g]}, completed : SUBSET Points(g)]
    BY <1>1, <1>8, <2>1
  <2> QED BY <2>1, <2>2, <2>3
<1>10. Workspace'
  <2>1. \A h \in DOMAIN generations' : generations'[h]
          \in [prepared_tasks : Nat, shape : {Shape[h]}, completed : SUBSET Points(h)]
    BY <1>8, <1>9 DEF DoacrossInv, Workspace
  <2> QED BY <1>8, <2>1 DEF DoacrossInv, Workspace, Points, Outer, Inner
<1>11. PreparedCount'
  BY <1>1, <1>8, <1>9 DEF DoacrossInv, PreparedCount, Preparers
<1>12. RetainedGenerations'
  <2>1. \A u \in Tasks : pc'[u] # "error"
    BY <1>5, <1>6 DEF DoacrossInv, RetainedGenerations, Unmoved
  <2> QED BY <1>1, <1>8, <2>1 DEF DoacrossInv, RetainedGenerations
<1>13. Posted'
  <2> SUFFICES ASSUME NEW h \in DOMAIN generations, NEW q \in generations'[h].completed
               PROVE  Completed(h, q)'
    BY <1>8 DEF Posted
  <2>1. CASE h = g /\ q = p
    BY <1>1, <1>5, <2>1 DEF Completed
  <2>2. CASE ~(h = g /\ q = p)
    <3>1. q \in generations[h].completed
      BY <1>8, <1>9, <2>2
    <3>2. h \in Generations /\ q \in Points(h) /\ Completed(h, q)
      BY <3>1 DEF DoacrossInv, Workspace, Posted
    <3> QED BY <1>1, <1>5, <1>7, <3>2, CompletedKept
  <2> QED BY <2>1, <2>2
<1>14. InNest(t)' /\ Waited(t)'
  BY <1>1, <1>5 DEF InNest, Waited, AtPoint, DoacrossInv, Points, Outer, Inner
<1>15. \A u \in Tasks : InNest(u)' /\ Waited(u)'
  BY <1>5, <1>6, <1>7, <1>14, UnmovedKept
<1> QED BY <1>5, <1>10, <1>11, <1>12, <1>13, <1>15 DEF DoacrossInv

\* notify_all wakes the waiting tasks, and the inner loop goes on: at its next
\* point nothing has been waited for yet.
LEMMA NotifyAllInv ==
  ASSUME DoacrossInv, NEW t \in Tasks, NotifyAll(t)
  PROVE  DoacrossInv'
<1> DEFINE g == generation[t]  more == inner[t] + 1 < InnerCount(g)
<1>1. /\ pc[t] = "notify" /\ g \in Generations /\ Places
      /\ UNCHANGED <<generations, generation, outer>>
      /\ <<outer[t], inner[t]>> \in Points(g) /\ Owner[g][outer[t]] = t
  BY DEF NotifyAll, DoacrossInv, InNest, AtPoint
<1>2. /\ pc' = [u \in Tasks |-> IF u = t THEN IF more THEN "sink" ELSE "outer"
                                ELSE IF pc[u] = "wait" THEN "sink" ELSE pc[u]]
      /\ inner' = IF more THEN [inner EXCEPT ![t] = @ + 1] ELSE inner
      /\ sink' = [sink EXCEPT ![t] = 1]
  BY DEF NotifyAll
<1>3. /\ InnerCount(g) \in Int /\ Len(Sinks[g]) \in Nat /\ Len(Sinks[g]) > 0
      /\ outer[t] \in Outer(g) /\ inner[t] \in Inner(g) /\ inner[t] \in Nat
  BY <1>1, NestTypes DEF Points
<1> HIDE DEF more
<1>4. Places'
  BY <1>1, <1>2 DEF Places, Locations
<1>5. /\ pc'[t] = IF more THEN "sink" ELSE "outer"
      /\ sink'[t] = 1 /\ generation'[t] = g /\ outer'[t] = outer[t]
      /\ inner'[t] = IF more THEN inner[t] + 1 ELSE inner[t]
  BY <1>1, <1>2 DEF Places
<1>6. \A u \in Tasks \ {t} : Unmoved(u)
  <2> TAKE u \in Tasks \ {t}
  <2>1. /\ generation'[u] = generation[u] /\ outer'[u] = outer[u]
        /\ inner'[u] = inner[u] /\ sink'[u] = sink[u]
    BY <1>1, <1>2 DEF Places
  <2>2. pc'[u] = pc[u] \/ (pc[u] = "wait" /\ pc'[u] = "sink")
    BY <1>2
  <2> QED BY <2>1, <2>2 DEF Unmoved
<1>7. Advances(t)
  BY <1>1, <1>3, <1>5 DEF Advances, Rest
<1>8. \A u \in Tasks : pc'[u] # "error"
  BY <1>5, <1>6 DEF DoacrossInv, RetainedGenerations, Unmoved
<1>9. InNest(t)'
  <2>1. more => inner[t] + 1 \in Inner(g)
    BY <1>3, SMT DEF Inner, more
  <2>2. pc'[t] \in AtPoint => <<outer'[t], inner'[t]>> \in Points(g)
    BY <1>3, <1>5, <2>1 DEF Points, AtPoint
  <2> QED BY <1>1, <1>5, <2>2 DEF InNest, Points, Outer, Inner
<1>10. Waited(t)'
  <2>1. sink'[t] \in 1..Len(Sinks[g])
    BY <1>3, <1>5, SMT
  <2>2. \A k \in 1..Len(Sinks[g]) : ~ k < 1
    BY <1>3, SMT
  <2>3. Over(t, sink[t])'
    BY <1>5, <2>2 DEF Over
  <2> QED BY <1>5, <2>1, <2>3 DEF Waited
<1> QED BY <1>1, <1>4, <1>6, <1>7, <1>8, <1>9, <1>10, LocalStep

-----------------------------------------------------------------------------
(* afs_omp_doacross_prepare *)

\* The size of the team is a natural number, and so is the size of the set of
\* tasks that have prepared a nest, which is at most the team.
LEMMA PreparersFinite ==
  ASSUME NEW P \in SUBSET Tasks
  PROVE  /\ IsFiniteSet(P)
         /\ Cardinality(P) \in Nat /\ Cardinality(Tasks) \in Nat
         /\ Cardinality(P) <= Cardinality(Tasks)
         /\ Cardinality(P) = Cardinality(Tasks) => P = Tasks
  BY TasksAssumption, FS_Subset, FS_CardinalityType

\* The task that prepares a nest joins its preparers and no other nest's.
LEMMA PreparersGrow ==
  ASSUME Places, NEW t \in Tasks, NEW g \in Generations, g = generation[t] + 1,
         generation' = [generation EXCEPT ![t] = g]
  PROVE  /\ Preparers(g)' = Preparers(g) \cup {t}
         /\ Cardinality(Preparers(g)') = Cardinality(Preparers(g)) + 1
         /\ \A h \in Generations : h # g => Preparers(h)' = Preparers(h)
<1>1. /\ \A u \in Tasks : generation[u] \in Int
      /\ \A u \in Tasks : generation'[u] = IF u = t THEN g ELSE generation[u]
  BY NestsAssumption DEF Places
<1>2. g \in Int
  BY NestTypes
<1>3. t \notin Preparers(g)
  BY <1>1, <1>2 DEF Preparers
<1>4. Preparers(g)' = Preparers(g) \cup {t}
  <2>1. \A u \in Tasks : generation'[u] >= g <=> generation[u] >= g \/ u = t
    BY <1>1, <1>2, SMT
  <2> QED BY <2>1 DEF Preparers
<1>5. Cardinality(Preparers(g)') = Cardinality(Preparers(g)) + 1
  <2>1. Preparers(g) \in SUBSET Tasks
    BY DEF Preparers
  <2>2. IsFiniteSet(Preparers(g))
    BY <2>1, PreparersFinite
  <2> QED BY <1>3, <1>4, <2>2, FS_AddElement
<1>6. ASSUME NEW h \in Generations, h # g
      PROVE  Preparers(h)' = Preparers(h)
  <2>1. h \in Int
    BY NestTypes
  <2>2. \A u \in Tasks : generation'[u] >= h <=> generation[u] >= h
    BY <1>1, <1>2, <1>6, <2>1, SMT
  <2> QED BY <2>2 DEF Preparers
<1> QED BY <1>4, <1>5, <1>6

\* An entry of the workspace is what its three fields are.
LEMMA EntryIs ==
  ASSUME NEW r, NEW n, NEW s, NEW x,
         r = [f \in {"prepared_tasks", "shape", "completed"} |-> r[f]],
         r.prepared_tasks = n, r.shape = s, r.completed = x
  PROVE  r = [prepared_tasks |-> n, shape |-> s, completed |-> x]
  BY SMT

\* A nest is prepared without an error, and the entry of the nest before it
\* goes with the last task that prepares.
LEMMA PrepareEffect ==
  ASSUME DoacrossInv, NEW t \in Tasks, Prepare(t),
         NEW g, g = generation[t] + 1
  PROVE  /\ generation' = [generation EXCEPT ![t] = g]
         /\ pc' = [pc EXCEPT ![t] = "outer"]
         /\ DOMAIN generations' =
              IF Preparers(g)' = Tasks /\ g > 1
              THEN (DOMAIN generations \cup {g}) \ {g - 1} ELSE DOMAIN generations \cup {g}
         /\ generations' = [h \in DOMAIN generations' |-> generations'[h]]
         /\ \A h \in DOMAIN generations' \ {g} : generations'[h] = generations[h]
         /\ generations'[g] = [ prepared_tasks |-> Cardinality(Preparers(g)'),
                                shape |-> Shape[g],
                                completed |-> IF g \in DOMAIN generations
                                              THEN generations[g].completed ELSE {} ]
<1>1. /\ g \in Generations /\ Places /\ pc[t] = "idle"
      /\ generation' = [generation EXCEPT ![t] = g]
  BY DEF Prepare, DoacrossInv
<1>2. /\ Cardinality(Preparers(g)') = Cardinality(Preparers(g)) + 1
      /\ Preparers(g)' \in SUBSET Tasks /\ Preparers(g) \in SUBSET Tasks
  BY <1>1, PreparersGrow DEF Preparers
<1> DEFINE c == Cardinality(Preparers(g))
<1>3. /\ c \in Nat /\ Cardinality(Tasks) \in Nat /\ c + 1 <= Cardinality(Tasks)
      /\ c + 1 = Cardinality(Tasks) <=> Preparers(g)' = Tasks
  BY <1>2, PreparersFinite
<1>4. ASSUME g \in DOMAIN generations
      PROVE  /\ generations[g] = [ prepared_tasks |-> c, shape |-> Shape[g],
                                   completed |-> generations[g].completed ]
             /\ Entry(g) = generations[g]
  <2>1. /\ generations[g] \in [prepared_tasks : Nat, shape : {Shape[g]}, completed : SUBSET Points(g)]
        /\ generations[g].prepared_tasks = c
    BY <1>4 DEF DoacrossInv, Workspace, PreparedCount
  <2> HIDE DEF c
  <2> QED BY <1>4, <2>1 DEF Entry
<1>5. ASSUME g \notin DOMAIN generations
      PROVE  c = 0
  <2>1. \E u \in Tasks : generation[u] <= g
    BY <1>1, NestTypes, NestsAssumption DEF Places
  <2>2. Preparers(g) = {}
    BY <1>1, <1>5, <2>1 DEF DoacrossInv, RetainedGenerations, Preparers
  <2> QED BY <2>2, FS_EmptySet
<1> DEFINE e == [ prepared_tasks |-> c + 1, shape |-> Shape[g],
                  completed |-> IF g \in DOMAIN generations
                                THEN generations[g].completed ELSE {} ]
<1>6. /\ Entry(g).shape \in {<< >>, Shape[g]}
      /\ Registered(g)[g] = e
  <2> DEFINE x == IF g \in DOMAIN generations THEN generations[g].completed ELSE {}
  <2>1. \E s \in {<< >>, Shape[g]} :
          Entry(g) = [prepared_tasks |-> c, shape |-> s, completed |-> x]
    <3>1. CASE g \in DOMAIN generations
      <4> HIDE DEF c
      <4> QED BY <1>4, <3>1
    <3>2. CASE g \notin DOMAIN generations
      <4>1. c = 0
        BY <1>5, <3>2
      <4> HIDE DEF c
      <4> QED BY <3>2, <4>1 DEF Entry
    <3> QED BY <3>1, <3>2
  <2> HIDE DEF c, x
  <2>2. PICK r, s : /\ s \in {<< >>, Shape[g]} /\ r = Entry(g)
                    /\ r = [prepared_tasks |-> c, shape |-> s, completed |-> x]
    BY <2>1
  <2>3. /\ DOMAIN r = {"prepared_tasks", "shape", "completed"}
        /\ r.prepared_tasks = c /\ r.shape = s /\ r.completed = x
    BY <2>2, SMT
  <2>4. PICK v : v = [r EXCEPT !.shape = Shape[g], !.prepared_tasks = @ + 1]
    OBVIOUS
  <2>5. v = Registered(g)[g]
    BY <2>2, <2>4 DEF Registered
  <2>6. v.prepared_tasks = c + 1 /\ v.shape = Shape[g] /\ v.completed = x
    <3>1. v.prepared_tasks = r.prepared_tasks + 1
      BY <2>3, <2>4
    <3>2. v.shape = Shape[g]
      BY <2>3, <2>4
    <3>3. v.completed = r.completed
      BY <2>3, <2>4
    <3> QED BY <2>3, <3>1, <3>2, <3>3
  <2>7. v = [f \in DOMAIN r |-> v[f]]
    BY <2>4, Zenon
  <2>8. v = [prepared_tasks |-> c + 1, shape |-> Shape[g], completed |-> x]
    BY <2>3, <2>6, <2>7, EntryIs, Zenon
  <2> QED BY <2>2, <2>3, <2>5, <2>8 DEF x
<1> HIDE DEF c
<1>7. e.prepared_tasks = c + 1 /\ ~ c + 1 > Cardinality(Tasks)
  BY <1>3, SMT
<1>8. generations' = Retired(Registered(g), g) /\ pc' = [pc EXCEPT ![t] = "outer"]
  BY <1>6, <1>7 DEF Prepare, Goto
<1> HIDE DEF e
<1>9. /\ DOMAIN Registered(g) = DOMAIN generations \cup {g}
      /\ \A h \in DOMAIN generations \ {g} : Registered(g)[h] = generations[h]
      /\ Registered(g) = [h \in DOMAIN generations \cup {g} |-> Registered(g)[h]]
  BY DEF Registered
<1>10. g # g - 1
  BY <1>1, NestTypes
<1>11. CASE Preparers(g)' = Tasks /\ g > 1
  <2>1. generations' = [h \in DOMAIN Registered(g) \ {g - 1} |-> Registered(g)[h]]
    BY <1>3, <1>6, <1>7, <1>8, <1>11 DEF Retired
  <2>2. DOMAIN generations' = (DOMAIN generations \cup {g}) \ {g - 1}
    BY <1>9, <2>1
  <2>3. \A h \in DOMAIN generations' : generations'[h] = Registered(g)[h]
    BY <2>1, <2>2
  <2>4. \A h \in DOMAIN generations' \ {g} : generations'[h] = generations[h]
    BY <1>9, <2>2, <2>3
  <2>5. generations'[g] = e
    BY <1>6, <1>10, <2>2, <2>3
  <2>6. generations' = [h \in DOMAIN generations' |-> generations'[h]]
    BY <2>1
  <2> QED BY <1>1, <1>2, <1>8, <1>11, <2>2, <2>4, <2>5, <2>6 DEF e, c
<1>12. CASE ~(Preparers(g)' = Tasks /\ g > 1)
  <2>1. generations' = Registered(g)
    BY <1>3, <1>6, <1>7, <1>8, <1>12 DEF Retired
  <2> QED BY <1>1, <1>2, <1>6, <1>8, <1>9, <1>12, <2>1 DEF e, c
<1> QED BY <1>11, <1>12

\* afs_omp_doacross_prepare keeps the invariant.
LEMMA PrepareInv ==
  ASSUME DoacrossInv, NEW t \in Tasks, Prepare(t)
  PROVE  DoacrossInv'
<1>0. PICK g : g = generation[t] + 1
  OBVIOUS
<1>1. /\ g \in Generations /\ Places /\ pc[t] = "idle"
      /\ outer' = [outer EXCEPT ![t] = -1] /\ UNCHANGED <<inner, sink>>
  BY <1>0 DEF Prepare, DoacrossInv
<1>2. g \in Nat /\ g > 0 /\ LastGeneration \in Nat /\ generation[t] \in Int
  BY <1>1, NestTypes, NestsAssumption DEF Places
<1>3. /\ generation' = [generation EXCEPT ![t] = g]
      /\ pc' = [pc EXCEPT ![t] = "outer"]
      /\ DOMAIN generations' =
           IF Preparers(g)' = Tasks /\ g > 1
           THEN (DOMAIN generations \cup {g}) \ {g - 1} ELSE DOMAIN generations \cup {g}
      /\ generations' = [h \in DOMAIN generations' |-> generations'[h]]
      /\ \A h \in DOMAIN generations' \ {g} : generations'[h] = generations[h]
      /\ generations'[g] = [ prepared_tasks |-> Cardinality(Preparers(g)'),
                             shape |-> Shape[g],
                             completed |-> IF g \in DOMAIN generations
                                           THEN generations[g].completed ELSE {} ]
  BY <1>0, PrepareEffect
<1>4. /\ Preparers(g)' \in SUBSET Tasks
      /\ \A h \in Generations : h # g => Preparers(h)' = Preparers(h)
      /\ Cardinality(Preparers(g)') \in Nat
  <2>1. Preparers(g)' \in SUBSET Tasks
    BY DEF Preparers
  <2> QED BY <1>0, <1>1, <1>3, <2>1, PreparersGrow, PreparersFinite
<1>5. Places'
  BY <1>1, <1>2, <1>3 DEF Places, Locations, Generations
<1>6. pc'[t] = "outer" /\ generation'[t] = g
  BY <1>1, <1>3 DEF Places
<1>7. \A u \in Tasks \ {t} : Unmoved(u)
  <2> TAKE u \in Tasks \ {t}
  <2>1. generation'[u] = generation[u] /\ outer'[u] = outer[u]
    BY <1>1, <1>3 DEF Places
  <2>2. pc'[u] = pc[u]
    BY <1>1, <1>3 DEF Places
  <2> QED BY <1>1, <2>1, <2>2 DEF Unmoved
<1>8. \A u \in Tasks : Advances(u)
  <2>1. g > generation[t]
    BY <1>0, <1>2, SMT
  <2>2. Advances(t)
    BY <1>6, <2>1 DEF Advances
  <2> QED BY <1>7, <2>2, UnmovedAdvances
<1>9. Workspace'
  <2>1. DOMAIN generations' \subseteq Generations
    BY <1>1, <1>3 DEF DoacrossInv, Workspace
  <2>2. (IF g \in DOMAIN generations THEN generations[g].completed ELSE {}) \in SUBSET Points(g)
    BY DEF DoacrossInv, Workspace
  <2>3. generations'[g] \in [prepared_tasks : Nat, shape : {Shape[g]}, completed : SUBSET Points(g)]
    BY <1>3, <1>4, <2>2
  <2>4. \A h \in DOMAIN generations' : generations'[h]
          \in [prepared_tasks : Nat, shape : {Shape[h]}, completed : SUBSET Points(h)]
    BY <1>3, <2>3 DEF DoacrossInv, Workspace
  <2> QED BY <1>3, <2>1, <2>4 DEF Workspace, Points, Outer, Inner
<1>10. PreparedCount'
  <2> SUFFICES ASSUME NEW h \in DOMAIN generations'
               PROVE  generations'[h].prepared_tasks = Cardinality(Preparers(h)')
    BY DEF PreparedCount
  <2>1. CASE h = g
    BY <1>3, <2>1
  <2>2. CASE h # g
    <3>1. h \in DOMAIN generations /\ generations'[h] = generations[h] /\ h \in Generations
      BY <1>3, <1>9, <2>2 DEF Workspace
    <3>2. Preparers(h)' = Preparers(h)
      BY <1>4, <2>2, <3>1
    <3> QED BY <3>1, <3>2 DEF DoacrossInv, PreparedCount
  <2> QED BY <2>1, <2>2
<1>11. RetainedGenerations'
  <2>1. /\ \A u \in Tasks : generation[u] \in Int
        /\ \A u \in Tasks : generation'[u] = IF u = t THEN g ELSE generation[u]
    BY <1>1, <1>2, <1>3 DEF Places
  <2>2. Preparers(g)' = Tasks <=> \A u \in Tasks : generation'[u] >= g
    BY DEF Preparers
  <2>3. ASSUME NEW h \in Generations
        PROVE  h \in DOMAIN generations' <=>
                 /\ \E u \in Tasks : generation'[u] >= h
                 /\ \E u \in Tasks : generation'[u] <= h
    <3>1. h \in DOMAIN generations <=>
            (\E u \in Tasks : generation[u] >= h) /\ (\E u \in Tasks : generation[u] <= h)
      BY DEF DoacrossInv, RetainedGenerations
    <3>2. h \in Nat /\ h >= 1
      BY NestTypes
    <3>3. CASE h = g
      <4>1. g # g - 1
        BY <1>2, SMT
      <4>2. g \in DOMAIN generations'
        BY <1>3, <4>1
      <4>3. generation'[t] >= h /\ generation'[t] <= h
        BY <1>2, <1>6, <3>3, SMT
      <4> QED BY <3>3, <4>2, <4>3
    <3>4. CASE h = g - 1
      <4>1. h \in DOMAIN generations
        BY <1>0, <1>2, <2>1, <3>1, <3>2, <3>4, SMT
      <4>2. h \in DOMAIN generations' <=> ~(Preparers(g)' = Tasks)
        BY <1>2, <1>3, <3>2, <3>4, <4>1, SMT
      <4>3. \E u \in Tasks : generation'[u] >= h
        BY <1>2, <1>6, <3>4, SMT
      <4>4. (\E u \in Tasks : generation'[u] <= h) <=> ~ \A u \in Tasks : generation'[u] >= g
        BY <1>2, <2>1, <3>2, <3>4, SMT
      <4> QED BY <2>2, <4>2, <4>3, <4>4
    <3>5. CASE h < g - 1 \/ h > g
      <4>1. h \in DOMAIN generations' <=> h \in DOMAIN generations
        BY <1>2, <1>3, <3>2, <3>5, SMT
      <4>2. \A u \in Tasks : /\ generation'[u] >= h <=> generation[u] >= h
                             /\ generation'[u] <= h <=> generation[u] <= h
        BY <1>0, <1>2, <2>1, <3>2, <3>5, SMT
      <4> QED BY <3>1, <4>1, <4>2
    <3> QED BY <1>2, <3>2, <3>3, <3>4, <3>5, SMT
  <2>4. \A u \in Tasks : pc'[u] # "error"
    BY <1>6, <1>7 DEF DoacrossInv, RetainedGenerations, Unmoved
  <2>5. DOMAIN generations' \subseteq Generations
    BY <1>9 DEF Workspace
  <2> QED BY <2>3, <2>4, <2>5 DEF RetainedGenerations
<1>12. Posted'
  <2> SUFFICES ASSUME NEW h \in DOMAIN generations', NEW p \in generations'[h].completed
               PROVE  Completed(h, p)'
    BY DEF Posted
  <2>1. h \in DOMAIN generations /\ p \in generations[h].completed
    BY <1>3
  <2>2. h \in Generations /\ p \in Points(h) /\ Completed(h, p)
    BY <2>1 DEF DoacrossInv, Workspace, Posted
  <2> QED BY <1>1, <1>5, <1>8, <2>2, CompletedKept
<1>13. InNest(t)' /\ Waited(t)'
  BY <1>1, <1>6 DEF InNest, Waited, AtPoint
<1>14. \A u \in Tasks : InNest(u)' /\ Waited(u)'
  BY <1>5, <1>7, <1>8, <1>13, UnmovedKept
<1> QED BY <1>5, <1>9, <1>10, <1>11, <1>12, <1>14 DEF DoacrossInv

-----------------------------------------------------------------------------
(* The theorems *)

\* The invariant is inductive.
LEMMA NextInv == DoacrossInv /\ [Next]_vars => DoacrossInv'
<1> SUFFICES ASSUME DoacrossInv, [Next]_vars PROVE DoacrossInv'
  OBVIOUS
<1>1. ASSUME NEW t \in Tasks, Step(t) PROVE DoacrossInv'
  BY <1>1, PrepareInv, NextOuterInv, WaitInv, PostInv, NotifyAllInv,
     FinishNowaitInv, FinishBarrierInv DEF Step
<1>2. ASSUME NEW t \in Tasks, SpuriousWakeup(t) PROVE DoacrossInv'
  BY <1>2, SpuriousWakeupInv
<1>3. CASE UNCHANGED vars
  <2>1. \A u \in Tasks : Unmoved(u)
    BY <1>3 DEF vars, Unmoved
  <2>2. \A u \in Tasks : Advances(u)
    BY <2>1, UnmovedAdvances
  <2>3. Workspace' /\ PreparedCount' /\ RetainedGenerations'
    BY <1>3, WorkspaceKept DEF vars, DoacrossInv, RetainedGenerations
  <2>4. Places'
    BY <1>3 DEF vars, Places, DoacrossInv
  <2>5. Posted'
    BY <1>3, <2>2, <2>4, PostedKept DEF vars, DoacrossInv
  <2>6. \A u \in Tasks : InNest(u)' /\ Waited(u)'
    BY <2>1, <2>2, <2>4, UnmovedKept
  <2> QED BY <2>3, <2>4, <2>5, <2>6 DEF DoacrossInv
<1> QED BY <1>1, <1>2, <1>3 DEF Next, Terminated

\* The invariant of the workspace, the posted points and the tasks' places in
\* their nests holds throughout.
THEOREM InvariantHolds == Spec => []DoacrossInv
  BY InitInv, NextInv, PTL DEF Spec

\* A task is in the body of an iteration only after every iteration of the
\* nest that its sink vectors name is over.
THEOREM DependencesAreHonoured == Spec => []DependencesHonoured
<1>1. DoacrossInv => DependencesHonoured
  <2> SUFFICES ASSUME DoacrossInv, NEW t \in Tasks, pc[t] = "body",
                      NEW k \in 1..Len(Sinks[generation[t]]),
                      Named(generation[t], outer[t], inner[t], k) \in Points(generation[t])
               PROVE  Completed(generation[t], Named(generation[t], outer[t], inner[t], k))
    BY DEF DependencesHonoured, Named
  <2>1. generation[t] \in Generations /\ Over(t, Len(Sinks[generation[t]]) + 1)
    BY DEF DoacrossInv, InNest, Waited
  <2>2. k < Len(Sinks[generation[t]]) + 1
    BY <2>1, NestTypes
  <2> QED BY <2>1, <2>2 DEF Over
<1> QED BY <1>1, InvariantHolds, PTL

\* The workspace holds exactly the nests that some task has begun and not
\* every task has left, and no call of the runtime reports an error.
THEOREM GenerationsAreRetained == Spec => []RetainedGenerations
<1>1. DoacrossInv => RetainedGenerations
  BY DEF DoacrossInv
<1> QED BY <1>1, InvariantHolds, PTL
=============================================================================
