----------------------------- MODULE OmpSchedule -----------------------------
(***************************************************************************)
(* A worksharing loop from dispatch to lastprivate copy-out: the bounds     *)
(* routines of runtime/src/openmp.rs and the code that                      *)
(* lower_worksharing_loop and lower_do_loop generate around them.           *)
(*                                                                          *)
(* Integers of the generated code are the range MinInt..MaxInt, and its     *)
(* additions wrap in it; the runtime's i128 intermediates do not.  The      *)
(* loop is chosen at the start and never changes.  Its body runs one point  *)
(* of the iteration space: an index, or the pair of indices of a collapsed  *)
(* nest.                                                                    *)
(***************************************************************************)
EXTENDS OmpLoop, Sequences, FiniteSets, FiniteSetsExt

CONSTANTS
  MaxInt,  \* the largest of the generated code's integers
  Loops    \* records [outer, inner, flags, collapsed, kind, chunk, team]

ASSUME RangeAssumption == MaxInt \in Nat

MinInt == -(MaxInt + 1)
Range64 == MinInt..MaxInt
Wrap(x) == ((x - MinInt) % (MaxInt - MinInt + 1)) + MinInt
None == << >>

VARIABLES
  loop,       \* the loop under execution
  next_index, \* DynamicWorkspace.next_index
  chunk_index,
  first, last,\* each task's current interval
  index,      \* each task's private iteration variable
  private,    \* a lastprivate variable the body sets to <<its point>>
  shared,     \* its original and the iteration variable's, after copy-out
  executed,   \* history: the points executed
  repeated,   \* history: a point was executed twice
  copies,     \* history: copy-outs made
  stopped,    \* ERROR STOP
  pc

vars == <<loop, next_index, chunk_index, first, last, index, private, shared,
          executed, repeated, copies, stopped, pc>>

Tasks == 0..(loop.team - 1)

Count(r) == LoopIterationCount(r.lower, r.upper, r.step)

-----------------------------------------------------------------------------
(* The runtime's bounds routines: status 1 with an interval, 0 for no work,  *)
(* negative for a loop that it refuses.                                     *)

Invalid == [status |-> -1]
NoWork == [status |-> 0]
Interval(lower, step, first_index, n) ==
  [ status |-> 1,
    first  |-> lower + first_index * step,
    last   |-> lower + (first_index + n - 1) * step ]

\* afs_omp_static_bounds
StaticBounds(r, thread_num, team_size) ==
  LET iterations == Count(r)
      base == iterations \div team_size
      remainder == iterations % team_size
      local == base + (IF thread_num < remainder THEN 1 ELSE 0)
  IN  IF r.step = 0 THEN Invalid
      ELSE IF iterations = 0 \/ local = 0 THEN NoWork
      ELSE Interval(r.lower, r.step,
                    thread_num * base + Min({thread_num, remainder}), local)

\* afs_omp_static_chunk_bounds
StaticChunkBounds(r, chunk, thread_num, team_size, k) ==
  LET iterations == Count(r)
      global_chunk == thread_num + k * team_size
      total_chunks == (iterations + chunk - 1) \div chunk
      first_index == global_chunk * chunk
  IN  IF r.step = 0 \/ chunk <= 0 THEN Invalid
      ELSE IF global_chunk >= total_chunks THEN NoWork
      ELSE Interval(r.lower, r.step, first_index, Min({chunk, iterations - first_index}))

\* afs_omp_dynamic_bounds, without its update of the cursor
DynamicBounds(r, chunk, cursor) ==
  IF r.step = 0 \/ chunk <= 0 THEN Invalid
  ELSE IF cursor >= Count(r) THEN NoWork
  ELSE Interval(r.lower, r.step, cursor, Min({chunk, Count(r) - cursor}))

-----------------------------------------------------------------------------
(* collapse(2) *)

\* nonrect_inner_bounds: bit 0 of flags ties the lower bound to the outer
\* index, bit 1 the upper bound.
InnerRange(l, outer) ==
  [ lower |-> IF l.flags \in {1, 3} THEN outer ELSE l.inner.lower,
    upper |-> IF l.flags \in {2, 3} THEN outer ELSE l.inner.upper,
    step  |-> l.inner.step ]

OuterIndex(l, k) == l.outer.lower + k * l.outer.step
Row(l, k) == Count(InnerRange(l, OuterIndex(l, k)))
RowsBefore(l, k) ==
  LET before[j \in 0..k] == IF j = 0 THEN 0 ELSE before[j - 1] + Row(l, j - 1)
  IN  before[k]

\* afs_omp_collapse2_shape and afs_omp_collapse2_nonrect_shape: the trip count
Total(l) ==
  IF l.flags = 0 THEN Count(l.outer) * Count(l.inner)
  ELSE RowsBefore(l, Count(l.outer))

ShapeValid(l) ==
  /\ l.outer.step # 0 /\ l.inner.step # 0
  /\ Count(l.outer) <= MaxInt
  /\ l.flags = 0 => Count(l.inner) <= MaxInt
  /\ Total(l) <= MaxInt

\* Mutant: quotient and remainder by the wrong loop's count.
IndicesTransposed(l, flat) ==
  <<OuterIndex(l, flat \div Count(l.outer)),
    l.inner.lower + (flat % Count(l.outer)) * l.inner.step>>

\* afs_omp_collapse2_indices and afs_omp_collapse2_nonrect_indices
Indices(l, flat) ==
  IF l.flags = 0
  THEN <<OuterIndex(l, flat \div Count(l.inner)),
         l.inner.lower + (flat % Count(l.inner)) * l.inner.step>>
  ELSE LET k == CHOOSE k \in 0..(Count(l.outer) - 1) :
                  RowsBefore(l, k) <= flat /\ flat < RowsBefore(l, k + 1)
           o == OuterIndex(l, k)
       IN  <<o, InnerRange(l, o).lower + (flat - RowsBefore(l, k)) * l.inner.step>>

\* The range that is scheduled, and the point that its index i stands for.
Scheduled(l) ==
  IF l.collapsed THEN [lower |-> 0, upper |-> Total(l) - 1, step |-> 1] ELSE l.outer
Point(l, i) == IF l.collapsed THEN Indices(l, i) ELSE i

-----------------------------------------------------------------------------
(* The generated code *)

Init ==
  /\ loop \in Loops
  /\ next_index = 0
  /\ chunk_index = [t \in Tasks |-> 0]
  /\ first = [t \in Tasks |-> 0] /\ last = [t \in Tasks |-> 0]
  /\ index = [t \in Tasks |-> 0]
  /\ private = [t \in Tasks |-> None]
  /\ shared = None
  /\ executed = {} /\ repeated = FALSE /\ copies = 0
  /\ stopped = FALSE
  /\ pc = [t \in Tasks |-> "dispatch"]

Bounds(t) ==
  LET r == Scheduled(loop) IN
  CASE loop.kind = "dynamic" -> DynamicBounds(r, loop.chunk, next_index)
    [] loop.kind = "chunked" ->
         StaticChunkBounds(r, loop.chunk, t, loop.team, chunk_index[t])
    [] OTHER -> StaticBounds(r, t, loop.team)

\* ERROR STOP ends the program.
ErrorStop ==
  /\ stopped' = TRUE
  /\ UNCHANGED <<next_index, first, last, index, pc>>

\* Mutant: no work left sends the task back to ask again.
DispatchAgain(t) ==
  /\ ~stopped /\ pc[t] = "dispatch"
  /\ IF loop.collapsed /\ ~ShapeValid(loop) THEN ErrorStop
     ELSE LET b == Bounds(t) IN
       IF b.status < 0 THEN ErrorStop
       ELSE IF b.status = 0
       THEN UNCHANGED <<next_index, first, last, index, stopped, pc>>
       ELSE /\ first' = [first EXCEPT ![t] = b.first]
            /\ last' = [last EXCEPT ![t] = b.last]
            /\ index' = [index EXCEPT ![t] = b.first]
            /\ next_index' = IF loop.kind = "dynamic"
                             THEN Min({next_index + loop.chunk, Count(Scheduled(loop))})
                             ELSE next_index
            /\ pc' = [pc EXCEPT ![t] = "work"]
            /\ UNCHANGED stopped
  /\ UNCHANGED <<loop, chunk_index, private, shared, executed, repeated, copies>>

\* The dispatch block: the next interval, or the end of the loop.
Dispatch(t) ==
  /\ ~stopped /\ pc[t] = "dispatch"
  /\ IF loop.collapsed /\ ~ShapeValid(loop) THEN ErrorStop
     ELSE LET b == Bounds(t) IN
       IF b.status < 0 THEN ErrorStop
       ELSE IF b.status = 0
       THEN pc' = [pc EXCEPT ![t] = "done"] /\ UNCHANGED <<next_index, first, last, index, stopped>>
       ELSE /\ first' = [first EXCEPT ![t] = b.first]
            /\ last' = [last EXCEPT ![t] = b.last]
            /\ index' = [index EXCEPT ![t] = b.first]
            /\ next_index' = IF loop.kind = "dynamic"
                             THEN Min({next_index + loop.chunk, Count(Scheduled(loop))})
                             ELSE next_index
            /\ pc' = [pc EXCEPT ![t] = "work"]
            /\ UNCHANGED stopped
  /\ UNCHANGED <<loop, chunk_index, private, shared, executed, repeated, copies>>

InBounds(t) ==
  IF Scheduled(loop).step < 0 THEN index[t] >= last[t] ELSE index[t] <= last[t]

\* lower_do_loop: check, body, increment.
Iterate(t) ==
  LET p == Point(loop, index[t]) IN
  /\ ~stopped /\ pc[t] = "work" /\ InBounds(t)
  /\ executed' = executed \cup {p}
  /\ repeated' = (repeated \/ p \in executed)
  /\ private' = [private EXCEPT ![t] = <<p>>]
  /\ index' = [index EXCEPT ![t] = Wrap(@ + Scheduled(loop).step)]
  /\ UNCHANGED <<loop, next_index, chunk_index, first, last, shared, copies, stopped, pc>>

\* What the iteration variables hold when their copy-out is made.
Iterators(t) ==
  IF loop.collapsed
  THEN <<Wrap(loop.outer.lower + Count(loop.outer) * loop.outer.step),
         Wrap(loop.inner.lower + Count(loop.inner) * loop.inner.step)>>
  ELSE index[t]

\* Mutant: the highest task copies out.
ChunkEndHighest(t) ==
  LET owns == t = loop.team - 1 IN
  /\ ~stopped /\ pc[t] = "work" /\ ~InBounds(t)
  /\ shared' = IF owns THEN private[t] \o <<Iterators(t)>> ELSE shared
  /\ copies' = IF owns THEN copies + 1 ELSE copies
  /\ chunk_index' = IF loop.kind = "chunked"
                    THEN [chunk_index EXCEPT ![t] = @ + 1] ELSE chunk_index
  /\ pc' = [pc EXCEPT ![t] = IF loop.kind = "static" THEN "done" ELSE "dispatch"]
  /\ UNCHANGED <<loop, next_index, first, last, index, private, executed, repeated, stopped>>

\* The exit of the inner loop: the copy-out of the interval that ends where
\* the sequential loop ends, and the next chunk.
ChunkEnd(t) ==
  LET owns == last[t] = StaticBounds(Scheduled(loop), 0, 1).last IN
  /\ ~stopped /\ pc[t] = "work" /\ ~InBounds(t)
  /\ shared' = IF owns THEN private[t] \o <<Iterators(t)>> ELSE shared
  /\ copies' = IF owns THEN copies + 1 ELSE copies
  /\ chunk_index' = IF loop.kind = "chunked"
                    THEN [chunk_index EXCEPT ![t] = @ + 1] ELSE chunk_index
  /\ pc' = [pc EXCEPT ![t] = IF loop.kind = "static" THEN "done" ELSE "dispatch"]
  /\ UNCHANGED <<loop, next_index, first, last, index, private, executed, repeated, stopped>>

Finished == stopped \/ \A t \in Tasks : pc[t] = "done"

Terminated == Finished /\ UNCHANGED vars

Task(t) == Dispatch(t) \/ Iterate(t) \/ ChunkEnd(t)

Next == (\E t \in Tasks : Task(t)) \/ Terminated

Spec == Init /\ [][Next]_vars

\* The threads of a team are scheduled; the loop body ends.
FairSpec == Spec /\ WF_vars(\E t \in Tasks : Task(t))

-----------------------------------------------------------------------------
(* The loop as Fortran defines it *)

Iterations(r) ==
  {v \in (IF r.step > 0 THEN r.lower..r.upper ELSE r.upper..r.lower) :
     Divides(r.step, v - r.lower)}

Reference(l) ==
  IF ~l.collapsed THEN Iterations(l.outer)
  ELSE UNION {{<<o, i>> : i \in Iterations(InnerRange(l, o))} : o \in Iterations(l.outer)}

SequentialLast(l) ==
  LET Latest(r) == IF r.step > 0 THEN Max(Iterations(r)) ELSE Min(Iterations(r)) IN
  IF ~l.collapsed THEN <<Latest(l.outer), Latest(l.outer) + l.outer.step>>
  ELSE <<<<Latest(l.outer), Latest(l.inner)>>,
         <<Latest(l.outer) + l.outer.step, Latest(l.inner) + l.inner.step>>>>

Legal(l) ==
  /\ l.outer.step # 0
  /\ l.collapsed => l.inner.step # 0
  /\ l.kind # "static" => l.chunk > 0
  /\ l.collapsed =>
       /\ Cardinality(Iterations(l.outer)) <= MaxInt
       /\ l.flags = 0 => Cardinality(Iterations(l.inner)) <= MaxInt
       /\ Cardinality(Reference(l)) <= MaxInt

\* Whatever the schedule and the order in which the tasks are served, the team
\* executes each iteration of the sequential loop (nest) once and no other; the
\* generated code stops the program only for a loop that has no meaning or more
\* iterations than an integer counts.
EachIterationOnce ==
  /\ ~repeated
  /\ executed \subseteq (IF Legal(loop) THEN Reference(loop) ELSE {})
  /\ Finished /\ ~stopped => executed = Reference(loop)
  /\ stopped => ~Legal(loop)

\* The lastprivate originals end with the values of the sequentially last
\* iteration, and exactly one task copies them: no two tasks race on them.
LastprivateIsSequential ==
  /\ copies <= 1
  /\ Finished /\ ~stopped =>
       IF Reference(loop) = {} THEN shared = None
       ELSE loop.flags = 0 => shared = SequentialLast(loop)

\* Every task leaves the loop (or the program stops).
LoopEnds == <>Finished
=============================================================================
