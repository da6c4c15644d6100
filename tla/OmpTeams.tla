------------------------------ MODULE OmpTeams ------------------------------
(***************************************************************************)
(* Fork and join of parallel regions in the OpenMP runtime                 *)
(* (runtime/src/openmp.rs: afs_omp_parallel_region, run_implicit_task,     *)
(* enter_team and TeamContextGuard, ContentionGroup, determine_team_size,  *)
(* afs_omp_set_num_threads, afs_omp_threadprivate).                        *)
(*                                                                         *)
(* Host threads are the roots (initial threads) and the workers that       *)
(* thread::scope spawns; a worker's thread-local state is fresh at spawn   *)
(* and gone when it ends.  A region call in progress is a frame of its     *)
(* host; the teams a host works in are its stack of contexts.  A root's    *)
(* outermost region creates the contention group of everything below it.   *)
(* Region bodies are the calls a program may make: nested regions,         *)
(* omp_set_num_threads and accesses to a threadprivate variable.           *)
(***************************************************************************)
EXTENDS Integers, Sequences, FiniteSets, FiniteSetsExt

CONSTANTS
  Roots, Workers,
  ThreadLimit, MaxActiveLevels, NThreads, Dynamic, Processors,  \* RuntimeConfig
  IfValues, Clauses,   \* if_value and num_threads arguments, 0 for none
  SetValues,           \* arguments of omp_set_num_threads
  TpValues,            \* what a program stores in the threadprivate variable
  SpawnMayFail,        \* the system may refuse a thread
  MaxDepth, MaxForks   \* bounds: nesting, and region calls of a run

ASSUME ConfigAssumption ==
  /\ ThreadLimit \in Nat \ {0} /\ MaxActiveLevels \in Nat /\ Processors \in Nat \ {0}
  /\ NThreads \in Seq(Nat \ {0}) /\ NThreads # << >>
  /\ Dynamic \in BOOLEAN /\ SpawnMayFail \in BOOLEAN
  /\ Roots \cap Workers = {}

Hosts == Roots \cup Workers
NoSlot == << >>
Template == 0

VARIABLES
  active,      \* ContentionGroup.active_threads of each root's group
  stack,       \* ThreadState.teams of each host
  requested,   \* ThreadState.requested_threads, 0 when not set
  frames,      \* the region calls in progress on each host
  pc,
  persistent,  \* the process-wide threadprivate storage: slot -> value
  hostlocal,   \* THREADPRIVATE_STORAGE of each host, as a set of at most one value
  forks,       \* region calls made
  written      \* history: what each OpenMP thread last assigned

vars == <<active, stack, requested, frames, pc, persistent, hostlocal, forks, written>>
tpVars == <<persistent, hostlocal, written>>

Init ==
  /\ active = [r \in Roots |-> 1]
  /\ stack = [h \in Hosts |-> << >>]
  /\ requested = [h \in Hosts |-> 0]
  /\ frames = [h \in Hosts |-> << >>]
  /\ pc = [h \in Hosts |-> IF h \in Roots THEN "run" ELSE "free"]
  /\ persistent = [s \in {} |-> Template]
  /\ hostlocal = [h \in Hosts |-> {}]
  /\ forks = 0
  /\ written = [s \in {} |-> Template]

Goto(h, l) == pc' = [pc EXCEPT ![h] = l]
Top(s) == s[Len(s)]
Pop(s) == SubSeq(s, 1, Len(s) - 1)
Level(h) == Len(stack[h])

\* current_contention_group, or the group a root is about to create
Group(h) == IF stack[h] = << >> THEN h ELSE Top(stack[h]).group

\* current_threadprivate_slot
Slot(h) == IF stack[h] = << >> THEN NoSlot ELSE Top(stack[h]).slot

\* active_level
ActiveLevel(h) == Cardinality({i \in 1..Level(h) : stack[h][i].team_size > 1})

\* requested_thread_count
RequestedThreadCount(h) ==
  IF requested[h] > 0 THEN requested[h]
  ELSE NThreads[Min({Level(h) + 1, Len(NThreads)})]

\* determine_team_size
TeamSize(h, if_value, clause) ==
  IF if_value = 0 \/ ActiveLevel(h) >= MaxActiveLevels THEN 1
  ELSE LET asked == IF clause > 0 THEN clause ELSE RequestedThreadCount(h)
           capped == Min({Max({asked, 1}), ThreadLimit})
       IN  IF Dynamic THEN Min({capped, Processors}) ELSE capped

-----------------------------------------------------------------------------
(* afs_omp_parallel_region *)

\* Everything up to the load of active_threads in reserve_additional.
Fork(h, if_value, clause) ==
  LET top == stack[h] = << >> IN
  /\ pc[h] = "run" /\ Len(frames[h]) < MaxDepth /\ forks < MaxForks
  /\ forks' = forks + 1
  /\ active' = IF top THEN [active EXCEPT ![h] = 1] ELSE active
  /\ frames' = [frames EXCEPT ![h] = Append(@,
       [ want       |-> TeamSize(h, if_value, clause) - 1,
         observed   |-> active'[Group(h)],
         reserved   |-> 0,
         spawned    |-> 0,
         inherited  |-> requested[h],
         persistent |-> top /\ ~Dynamic,
         slot       |-> Slot(h) ])]
  /\ Goto(h, "reserve")
  /\ UNCHANGED <<stack, requested, tpVars>>

SetFrame(h, field, value) ==
  frames' = [frames EXCEPT ![h][Len(frames[h])][field] = value]

\* Mutant: the limit is applied to the region alone.
ReserveAlone(h) ==
  LET f == Top(frames[h])
      g == Group(h)
      granted == Min({f.want, ThreadLimit - 1})
  IN
  /\ pc[h] = "reserve"
  /\ IF granted = 0 THEN Goto(h, "spawn") /\ UNCHANGED <<active, frames>>
     ELSE IF active[g] = f.observed
     THEN /\ active' = [active EXCEPT ![g] = f.observed + granted]
          /\ SetFrame(h, "reserved", granted)
          /\ Goto(h, "spawn")
     ELSE SetFrame(h, "observed", active[g]) /\ UNCHANGED <<active, pc>>
  /\ UNCHANGED <<stack, requested, tpVars, forks>>

\* One round of the compare-exchange loop of reserve_additional.
Reserve(h) ==
  LET f == Top(frames[h])
      g == Group(h)
      granted == Min({f.want, Max({ThreadLimit - f.observed, 0})})
  IN
  /\ pc[h] = "reserve"
  /\ IF granted = 0 THEN Goto(h, "spawn") /\ UNCHANGED <<active, frames>>
     ELSE IF active[g] = f.observed
     THEN /\ active' = [active EXCEPT ![g] = f.observed + granted]
          /\ SetFrame(h, "reserved", granted)
          /\ Goto(h, "spawn")
     ELSE SetFrame(h, "observed", active[g]) /\ UNCHANGED <<active, pc>>
  /\ UNCHANGED <<stack, requested, tpVars, forks>>

\* TeamContext; nest is history, the active regions that enclose the task.
Context(h, thread_num, slot) ==
  [ region     |-> <<h, Len(frames[h])>>,
    thread_num |-> thread_num,
    team_size  |-> Top(frames[h]).reserved + 1,
    group      |-> Group(h),
    slot       |-> slot,
    previous   |-> 0,
    nest       |-> (IF stack[h] = << >> THEN 0 ELSE Top(stack[h]).nest)
                     + (IF Top(frames[h]).reserved > 0 THEN 1 ELSE 0) ]

\* What Spawn and its mutant have in common.
SpawnAs(h, num, slot) ==
  LET f == Top(frames[h]) IN
  /\ pc[h] = "spawn" /\ f.spawned < f.reserved
  /\ \E w \in Workers :
       /\ pc[w] = "free"
       /\ pc' = [pc EXCEPT ![w] = "run"]
       /\ stack' = [stack EXCEPT ![w] = <<Context(h, num, slot)>>]
       /\ requested' = [requested EXCEPT ![w] = f.inherited]
  /\ SetFrame(h, "spawned", f.spawned + 1)
  /\ UNCHANGED <<active, tpVars, forks>>

\* Mutant: one slot for teams of all sizes.
SpawnAnySize(h) ==
  LET num == Top(frames[h]).spawned + 1
  IN  SpawnAs(h, num, IF Top(frames[h]).persistent THEN <<Group(h), num>> ELSE NoSlot)
\* scope.spawn and the new thread's enter_team
Spawn(h) ==
  LET f == Top(frames[h])
      num == f.spawned + 1
  IN  SpawnAs(h, num, IF f.persistent THEN <<Group(h), f.reserved + 1, num>> ELSE NoSlot)

\* scope.spawn panics when the system has no thread left; the scope still
\* joins the workers it has before the panic reaches catch_unwind.
SpawnFail(h) ==
  /\ SpawnMayFail
  /\ pc[h] = "spawn" /\ Top(frames[h]).spawned < Top(frames[h]).reserved
  /\ Goto(h, "join")
  /\ UNCHANGED <<active, stack, requested, frames, tpVars, forks>>

\* The encountering thread becomes implicit task 0.
EnterPrimary(h) ==
  LET f == Top(frames[h]) IN
  /\ pc[h] = "spawn" /\ f.spawned = f.reserved
  /\ stack' = [stack EXCEPT ![h] =
       Append(@, [Context(h, 0, f.slot) EXCEPT !.previous = requested[h]])]
  /\ requested' = [requested EXCEPT ![h] = f.inherited]
  /\ Goto(h, "run")
  /\ UNCHANGED <<active, frames, tpVars, forks>>

\* Mutant: the control variable is not restored.
PrimaryEndKeepsIcv(h) ==
  /\ pc[h] = "run" /\ frames[h] # << >>
  /\ stack' = [stack EXCEPT ![h] = Pop(@)]
  /\ Goto(h, "join")
  /\ UNCHANGED <<active, requested, frames, tpVars, forks>>

\* The task's body returns and TeamContextGuard is dropped.
PrimaryEnd(h) ==
  /\ pc[h] = "run" /\ frames[h] # << >>
  /\ stack' = [stack EXCEPT ![h] = Pop(@)]
  /\ requested' = [requested EXCEPT ![h] = Top(stack[h]).previous]
  /\ Goto(h, "join")
  /\ UNCHANGED <<active, frames, tpVars, forks>>

\* The OpenMP thread a host is, for threadprivate persistence: a numbered
\* member of the outermost teams of one size, or just the host itself.
Identity(h) ==
  LET c == stack[h][1] IN
  IF h \in Workers /\ ~Dynamic /\ c.region[1] \in Roots /\ c.region[2] = 1
  THEN <<c.group, c.team_size, c.thread_num>> ELSE <<h>>

WorkerEnd(w) ==
  /\ pc[w] = "run" /\ w \in Workers /\ frames[w] = << >>
  /\ stack' = [stack EXCEPT ![w] = << >>]
  /\ requested' = [requested EXCEPT ![w] = 0]
  /\ hostlocal' = [hostlocal EXCEPT ![w] = {}]
  /\ Goto(w, "free")
  /\ written' = [i \in DOMAIN written \ {<<w>>} |-> written[i]]
  /\ UNCHANGED <<active, frames, persistent, forks>>

Members(region) ==
  {w \in Workers : stack[w] # << >> /\ stack[w][1].region = region}

\* The scope has joined its workers; release the reservation and return.
JoinAndRelease(h) ==
  LET f == Top(frames[h])
      g == Group(h)
  IN
  /\ pc[h] = "join"
  /\ Members(<<h, Len(frames[h])>>) = {}
  /\ active' = [active EXCEPT ![g] = @ - f.reserved]
  /\ frames' = [frames EXCEPT ![h] = Pop(@)]
  /\ Goto(h, "run")
  /\ UNCHANGED <<stack, requested, tpVars, forks>>

-----------------------------------------------------------------------------
(* Calls of region bodies *)

\* afs_omp_set_num_threads
SetNumThreads(h) ==
  /\ pc[h] = "run"
  /\ \E n \in SetValues : requested' = [requested EXCEPT ![h] = n]
  /\ UNCHANGED <<active, stack, frames, pc, tpVars, forks>>

\* afs_omp_threadprivate: the storage of the current thread, made from the
\* template on first use, and what it holds.
Stored(h) ==
  IF Slot(h) # NoSlot
  THEN IF Slot(h) \in DOMAIN persistent THEN persistent[Slot(h)] ELSE Template
  ELSE IF hostlocal[h] # {} THEN CHOOSE v \in hostlocal[h] : TRUE ELSE Template

Override(f, x, v) == [y \in DOMAIN f \cup {x} |-> IF y = x THEN v ELSE f[y]]

\* The program stores v through the pointer it got.
Assign(h, v) ==
  /\ pc[h] = "run"
  /\ IF Slot(h) # NoSlot
     THEN persistent' = Override(persistent, Slot(h), v) /\ UNCHANGED hostlocal
     ELSE hostlocal' = [hostlocal EXCEPT ![h] = {v}] /\ UNCHANGED persistent
  /\ written' = Override(written, Identity(h), v)
  /\ UNCHANGED <<active, stack, requested, frames, pc, forks>>

-----------------------------------------------------------------------------
RegionStep(h) ==
  \/ Reserve(h) \/ Spawn(h) \/ EnterPrimary(h) \/ PrimaryEnd(h)
  \/ WorkerEnd(h) \/ JoinAndRelease(h)

Next ==
  \E h \in Hosts :
    \/ \E i \in IfValues, c \in Clauses : Fork(h, i, c)
    \/ RegionStep(h)
    \/ SpawnFail(h)
    \/ SetNumThreads(h)
    \/ \E v \in TpValues : Assign(h, v)

Spec == Init /\ [][Next]_vars

-----------------------------------------------------------------------------
Live == {h \in Hosts : pc[h] # "free"}

Crew(r) == {h \in Live : h = r \/ (h \in Workers /\ stack[h][1].group = r)}

\* The threads that run in one contention group, however its regions nest and
\* fork at the same time, never exceed OMP_THREAD_LIMIT (reserve_additional),
\* and active_threads is the root plus what the calls in progress have
\* reserved: every path out of afs_omp_parallel_region, a failed spawn
\* included, gives back exactly what it took.
ThreadLimitRespected ==
  \A r \in Roots :
    /\ Cardinality(Crew(r)) <= ThreadLimit
    /\ active[r] = 1 + MapThenSumSet(
         LAMBDA h : MapThenSumSet(LAMBDA i : frames[h][i].reserved, 1..Len(frames[h])),
         Crew(r))

\* What a region's body does to the thread-count control variable ends with
\* the region: the encountering task gets back the value it forked with
\* (TeamContextGuard), whatever omp_set_num_threads calls the body made.
IcvScoped ==
  \A h \in Hosts : pc[h] = "join" => requested[h] = Top(frames[h]).inherited

\* A threadprivate variable holds what its OpenMP thread last stored in it:
\* across nested regions and, for the workers of outermost regions of one
\* size without dynamic adjustment, across regions although each region gets
\* fresh host threads; any other worker starts from the template.  Two running
\* OpenMP threads never use the same storage (the slot that
\* afs_omp_threadprivate resolves, or the host's own).
ThreadprivatePersists ==
  /\ \A h, k \in Live : h # k /\ Slot(h) # NoSlot => Slot(h) # Slot(k)
  /\ \A h \in Live : pc[h] = "run" =>
       Stored(h) = IF Identity(h) \in DOMAIN written THEN written[Identity(h)] ELSE Template

=============================================================================
