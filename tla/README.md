# ARMFORTAS in TLA+

Models, model-checking runs and proofs for the parts of ARMFORTAS where
correctness depends on the order of things: the OpenMP runtime and the code the
compiler generates around it, the I/O units of the runtime, the preprocessor and
the compilation order of a multi-file build, register allocation and the copies
of arguments around calls and branches, linking and the publication of compiler
outputs, and the process supervisor of the test harness. Everything is
translated from the source; `PROJECT.json` gives the lines behind each
definition.

## The system

ARMFORTAS compiles Fortran to ARM64 and x86-64. A run of the compiler goes
through preprocessing, lexing, parsing, semantic analysis (which reads and
writes module interface files), lowering to an IR, optimization by passes run to
a fixpoint, code generation, assembling and linking. The result is linked with a
runtime library of its own: arrays, strings, formatted I/O, program lifecycle
and OpenMP.

| part | state | operations | what is hard |
|---|---|---|---|
| OpenMP runtime (`runtime/src/openmp.rs`) | per-thread stacks of team contexts; per-team barrier, reduction, dynamic, ordered and doacross workspaces; a process-wide registry of critical locks and threadprivate copies | fork and join, barrier, reduce, ordered and doacross calls, bounds, critical, locks, threadprivate | threads, condition variables, reuse of one workspace by successive constructs, NOWAIT |
| lowering of OpenMP (`src/ir/lower/openmp.rs`, `core.rs`) | generated loops, private copies | dispatch, DO loop, lastprivate copies, reductions | agreement with the runtime, integer limits |
| I/O units (`runtime/src/io_system.rs`, `lifecycle.rs`) | registry of connections, a lock for each, buffers, record in progress, scratch files | OPEN, CLOSE, WRITE with child transfers, READ, FLUSH, finalization | OPEN and CLOSE in several critical sections, blocking reads, exit at any moment |
| preprocessor and scan (`src/preprocess/mod.rs`, `src/driver/dep_scan.rs`) | stack of conditionals and a counter, include files; module table, in-degrees, queue | directives, includes; order the files | every nesting of directives; duplicates, cycles, repeated edges |
| code generation (`src/codegen/arm64/linearscan.rs`, `isel.rs`, `x86/isel.rs`) | active and free registers, worklist, spill slots, splits; pending copies | assign, evict, split, spill; copy, break a cycle | overlapping ranges, calls that overwrite registers, sources that are destinations |
| linking (`src/driver/mod.rs`, `src/runtime/artifact.rs`) | shared runtime cache; staged files, backups, destinations | install the runtime; stage, validate, back up, publish, roll back | failing calls, kills, concurrent compilers |
| test harness (`src/testing/managed_process.rs`) | process group, captured streams, exit report | poll, terminate, reap, collect | races of exit, deadline, cancellation and limit; reuse of process ids |
| lexer, parser, semantic analysis, optimizer, rest of code generation and runtime | syntax trees, IR, descriptors | translation, pure functions | not concurrent; see "Not modelled" |

The compiler emits the calls in the order the runtime expects, so the runtime's
modules include the program points of the generated code that order the calls.
The deadlock freedom of doacross loops rests on a rule of semantic analysis (a
sink names an earlier iteration), which `OmpDoacross` has as `AcceptedSink`.

## Modules

**`OmpOrdered`** - `afs_omp_ordered_prepare`, `_enter`, `_exit` and the end of
the loop. `generations` is the workspace's map from generation to
`prepared_tasks` and `next_ordinal`; `generation` and the active generation are
the task's context. A call that locks, waits, and then updates the context is
several steps: `Enter`, `Check` (under the mutex, looping over `Condvar::wait`
with spurious wakeups), `Activate`; `Exit`, `Release`, `NotifyAll`. Iterations
are their ordinals; the arithmetic that turns an iteration into an ordinal is in
`OmpLoop`. **`OrderedRegions`** is the promise: regions of a loop run one at a
time, each once, in iteration order. `OmpOrdered` implements it.

**`OmpDoacross`** - the two-dimensional ORDERED(2) protocol: `Prepare`, `Wait`
and `Post`, with real bounds and strides. **`OmpLoop`** holds the trip count and
the ordinal of an iteration, used here and in `OmpSchedule`.

**`OmpReduction`** - the end of a construct with REDUCTION: `Post`, barrier,
`Fold` by thread zero, barrier, `Fetch`, `Store` by thread zero, closing barrier;
or `CombineNowait`. Values are free: combining appends, so equal values mean the
same contributions in the same order. **`ReductionSpec`** is the promise.

**`OmpCritical`** - the lock registry keyed by the lower-cased name, `held` and
one condition variable for each name, `notify_one` after the mutex is dropped;
and a simple lock, a word that `afs_omp_set_lock` takes by compare-and-exchange
in a spinning loop. A thread has a stack of the regions it is in; `Nests` says
which regions, and which uses of the lock, the program nests in which.

**`OmpTeams`** - `afs_omp_parallel_region` and what it calls: team size, the
compare-and-exchange reservation below the thread limit, spawning (which may
fail), contexts, join and release; `omp_set_num_threads`; threadprivate storage.

**`OmpSchedule`** - bounds for static, chunked and dynamic schedules, collapsed
rectangular and non-rectangular nests, and the generated dispatch loop, DO loop
and lastprivate copies. Integers have a width: `Range64` is `MinInt..MaxInt`,
and the increment of the DO loop wraps.

**`IoUnits`** - the registry of connections under its lock, each connection
under its own, as in `with_unit`, `afs_open`, `afs_close`, the list-directed and
unformatted WRITE calls, `afs_flush` and `afs_io_finalize`. A step is one
critical section or one file system call, so an OPEN is up to eight of them. A
WRITE statement is a call to begin, one for each item and one to end, and a
defined-I/O procedure nests child statements in it; every write may stay in the
buffer, reach the file or fail. A failing statement without IOSTAT= leaves
through `exit()`, one inside a read with its unit locked. STOP finalizes once
itself and once in the atexit handler. The program is assumed to keep two threads
from one unit during a statement of several calls, which the code leaves to it.

**`Preprocess`** - the conditional stack with its four states, `skip_depth`, the
floor of an included file, definitions, `#error`, C block comments and the end of
each file. The next line is any line; a verdict stands for what an expression
evaluates to. `groups` is the meaning of the directives without states and
counter, kept beside them. **`DepScan`** - `resolve_compilation_order`: `Define`
for each file, `Count`, `Pop`, `Finish`; repeated entries in a list of dependents
are kept as their number, which is what in-degrees see. **`ScanProject`** composes
the two: one file is scanned through the preprocessor, the others have any
dependences, and the order is resolved from all of them.

**`LinearScan`** - `SpillSlotPlan::new` and `linear_scan` for one register file:
each interval of the worklist, in order, expires old ones and is assigned, split
at its only call, given the register of the value that ends last, or spilled. A
value has its conservative range, which decides registers, and its corrected one,
which decides spill slots. **`ParallelCopy`** - `rewrite_call_arg_copy_operations`
and the two loops of `emit_branch_arg_copies`, which are one algorithm: emit a copy
whose destination nobody reads, or move one source to a scratch register.
**`RegAlloc`** composes them around one call of `select_call_inst`: bridge stores,
argument copies, the call, the copy of its result, and at `CallResultCopyEnd` the
bridge loads, over the locations that the allocation chose. A call and a bridge
keep 8 bytes, so a 16-byte vector becomes its low half (`Low`).
**`X86BranchArgs`** - the same copies in the x86 back end.

**`OutputTransaction`** - `publish_output_transaction`, one file system call a
step. A call may fail, a staged file may vanish or be empty, and the process may
be killed between any two steps. **`RuntimeCache`** extends it to a link: the
runtime library comes first, from a cache that all compilers of a user share and
install into through a temporary file and a rename (`artifact.rs`, as on macOS,
where the entry is given its install name before the rename). Both begin at
`link_inputs_with_dependency_file`: the driver has removed a stale dependency file
before, so what is kept of previous outputs does not include it.

**`ManagedProcess`** - `run_with_limits`. The four polls of the loop are four
steps; readers and observer are threads of their own; the command, one
descendant and the host are nondeterministic. A group signal fails only when no
live member is left to receive it, as on Darwin; the harness is assumed to have
the right to signal its own children, and SIGKILL acts at once. The observer's
`waitid`, the last `wait` and the reads may fail. The descendant may leave the
group.

`*Proofs` modules hold the theorems. `MC*` modules give constants their values.

Definitions introduced by a comment "Mutant" are faulty variants of the
definition that follows. No specification uses them; each shows that some
property would notice the fault.

## Runs

| run | configuration | shows |
|---|---|---|
| `ordered` | `MCOmpOrdered.cfg` | regions in order, refinement of `OrderedRegions`, every task finishes |
| `doacross` | `MCOmpDoacross.cfg` | a body runs after all its sinks in the nest; the workspace keeps the nests in use and no error return is reached; no deadlock |
| `reduction` | `MCOmpReduction.cfg` | every contribution once, in thread order, visible after the construct; refinement of `ReductionSpec`; every task finishes |
| `locks` | `MCOmpCritical.cfg` | exclusion for each name whatever its spelling, and for the simple lock, nested or not; no lost wakeup; everybody served if the nesting has an order |
| `teams` | `MCOmpTeams.cfg` | thread limit with balanced reservations; scoped control variables; threadprivate copies are distinct and persist across equal outermost regions |
| `schedule` | `MCOmpSchedule.cfg` | for single loops and collapsed nests: each iteration once and only illegal loops stop, lastprivate as in sequential execution, every loop ends |
| `io_units` | `MCIoUnits.cfg` | no live unit that no number leads to; a successful WRITE put all its items, children's included, as one record; exit flushes what no thread has in use and removes scratch files; a blocked read holds up nobody else, not even the exit |
| `dep_scan` | `MCDepScan.cfg` | emitted exactly where the directives say; included files leave their includers' conditionals alone; dependences first; refused exactly for duplicates and cycles |
| `regalloc` | `MCRegAlloc.cfg` | no register or slot for two live values; values over a call in preserved registers or bridged around it, with their low 8 bytes at least; occupancy masks and slot sizes exact; arguments and results arrive |
| `x86_wide_copies` | `MCX86BranchArgs.cfg` | *violation*: see Findings |
| `output_transaction` | `MCOutputTransaction.cfg` | no link uses an unfinished runtime or refuses one without a fault; all or nothing, without litter, and previous outputs survive, while no second compiler has published |
| `managed_process` | `MCManagedProcess.cfg` | success is complete and undisturbed and reports are honest; nothing left behind, but a zombie when the wait for it fails; no stray signal; the supervisor always returns |

### Bounds

- Three tasks are the fewest for which a wakeup can go to the wrong waiter while
  the right one sleeps. Three ordered loops, two of them NOWAIT, let one task be
  two generations from another, when a generation is retired under it.
- The reduction program reuses one workspace for four list items, mixes NOWAIT
  with synchronized constructs and reduces an object twice.
- Two threads visit critical regions twice and one once, and two set the lock: a
  thread can be overtaken between its wakeup and its next look at the flag. Atomic
  updates are nested in named regions and in uses of the lock, and the lock in
  named regions, so that chains of three wait for one another.
- Teams nest to depth two over one root and three workers, below a limit of
  three threads, so that nested forks compete; at most three region calls a run.
- Schedules are checked over a 4-bit integer, with bounds and steps in the middle
  and at both ends of it, up to five iterations and teams of one to three, for
  loops whose variable does not overflow. The nests have up to five rows of up to
  five iterations, empty rows, zero steps, rows that depend on the outer index, and
  totals on both sides of the largest integer.
- Two threads, three statements and two connections beside the terminal's: two
  OPENs of one unit overlap, a CLOSE or an exit comes between, and a third
  statement finds what they left. Two items and one level of child transfers.
- Eight lines over a file and an include within it hold a conditional with all its
  arms around an include with one of its own. The limit of 64 includes is 2.
- Four files with three modules have cycles of two and three files, a file that
  merely depends on a cycle, and two edges between the same files.
- Four values and three registers, one of them callee-saved, run out of registers
  of either kind; ranges end and start at the same position, cross no, one and two
  calls, end at an argument copy, start at a result copy, have 8 and 16 bytes and
  differ from their corrected ones. The first call has arguments, the second a
  result, in a register that split values compete for. Two argument registers are enough for the swap that needs the scratch register;
  longer cycles are covered by the proof.
- Two compilers with two outputs each and three failing calls have a failure in
  the middle of a publication, further ones in the rollback, and a second
  compiler that comes between any two of those steps. The properties stated for
  a compiler alone hold as long as the other has not renamed a file into place.
  The cache holds nothing, the bare payload, a prepared or a foreign library at
  first, and a killed compiler may have left a temporary file.
- A command writes up to two units to one stream, one more than is captured, and
  one to the other.

Where `CHECK_DEADLOCK FALSE` appears the system stops when its work is done.

### Fairness

The OpenMP modules ask weak fairness of each thread's own steps: the operating
system runs a runnable thread. Spurious wakeups, new calls by the program and
failures are under no obligation. `OmpCritical` needs no strong fairness since
the number of visits is bounded and the nesting has an order: a thread that is overtaken is overtaken finitely
often, at the critical lock and at the spinning lock. The dispatch of
`OmpSchedule` asks only that some task moves. In `IoUnits` a thread that has a
step to take by itself takes it; the program need not go on, and input need never
come, so a reader may keep its unit for ever. Lock acquisition needs no more,
since the statements are finitely many. The supervisor of `ManagedProcess` is
scheduled and its deadline passes; nothing is asked of the command, the readers or
the observer. The other modules are checked for safety alone.

## Proofs

For every value of the constants that satisfies the named assumptions of the
modules, which the runs evaluate.

| module | theorem | states |
|---|---|---|
| `OmpOrderedProofs` | `Invariance`, `TypeCorrect` | `IndInv` and `TypeOK` are invariants |
| | `LogicalOrderHolds` | a region begins after all earlier iterations have ended theirs |
| | `OneInRegionHolds` | one task at a time in the regions of a loop |
| | `NoProtocolErrorHolds` | no error return is reached |
| | `RetainedGenerationsHolds` | the workspace holds only generations in use |
| | `Refinement` | the safety part of `OrderedRegions` is implemented |
| `OmpCriticalProofs` | `RegionsExclude` | exclusion for each name and for the simple lock |
| | `WakeupsReachWaiters` | nobody waits for a free lock without a wakeup under way |
| `OmpDoacrossProofs` | `InvariantHolds` | `DoacrossInv` is an invariant |
| | `DependencesAreHonoured` | a body begins after all iterations its sinks name |
| | `GenerationsAreRetained` | the workspace holds exactly the nests in use and no error return is reached |
| `ScanProjectProofs` | `EmissionIsRight` | the counter says emit exactly when all arms around the line are taken |
| | `IncludesAreIsolated` | the frames below an include file's floor stay as they were |
| | `PreprocessedRightly` | both, in a build that scans its files |
| | `OrderInvariant` | `OrderInv` is an invariant |
| | `OrderRespectsUses` | a file comes once, after the files whose modules it uses, and an order has all files |
| | `RefusalsAreRight` | refused exactly for duplicates and for files that wait for one another |
| `RegAllocProofs` | `RegistersNotShared` | overlapping ranges have different registers |
| | `CallsPreserveRegisters` | of a value in a register over a call exactly 8 bytes are preserved, and the register is saved |
| | `StorageStaysExact` | slots are wide enough and not shared, occupancy masks show every register in use |
| | `CopiesAreSimultaneous` | every destination ends with what its source held at first |
| | `CyclesLeaveTempsFree` | when no copy is safe the copies permute registers and read no scratch register |
| | `CallInvariant`, `AllocationStands` | `CallInv` is an invariant of the composition, in which the results on the scan hold too |
| | `ArgumentsAlwaysArrive` | the callee finds its arguments |
| | `LiveValuesSurvive` | after the result copy a value live over a call is where its uses look for it, a vector with its low half unless spilled, and so is the result |
| `RuntimeCacheProofs` | `RuntimeStaysUsable` | once a compiler has the path of the runtime, a prepared library is there |
| | `InstallersAgree` | only a fault, a leftover or a foreign entry refuses a link |
| | `OutputsAllOrNothing` | all destinations restored or all published, and nothing left over |
| | `PreviousOutputKept` | at every moment the previous output is in place or in its backup until all are published |
| `ManagedProcessProofs` | `OutcomesAreHonest` | success comes with the whole output, a reported deadline or cancellation was there |
| | `GroupIsGone` | on return nobody of the command's group runs, and the command is reaped unless the wait failed, which is reported |
| | `SignalsMeetTheGroup` | no signal goes to a process that reuses the number |

**Ordered regions.** That a region begins in order follows only when
`next_ordinal` counts exactly the regions that ended. `IndInv` adds that
`prepared_tasks` counts the tasks that reached the generation (`PreparedCount`),
that a task between prepare and finish has a loop (`InLoop`), that it waits for an
iteration of its own (`OwnIteration`), that the ordinals below `next_ordinal` are
those their owners have passed (`PassedCompleted`), and that a task leaves a loop
only after its last iteration (`LeftNothing`). The last two make retiring safe:
when every task has prepared generation g, none needs g - 1. There is one lemma
for each action; `Activate` begins and `Exit` ends a region of `OrderedRegions`
and every other step stutters. The team is finite and nonempty, and iterations
increase along each task, as in all schedules.

**Critical regions and locks.** Exclusion is stated for names, and the code has
locks. `CritInv` adds that different keys have different locks (`Numbered`), that a
thread in a call has the lock of its name, and in exit the one of its innermost
region (`Calling`), that the lock of every region somebody is in is held (`Owned`),
that no two regions somebody is in have one key (`Apart`), and that an owner of the
simple lock has set the word (`SimpleOwned`). Nothing is assumed of `Nests`.

**Doacross.** A wait looks for an ordinal among the posted ones, and the property
speaks of iterations. `SinkNames` shows that the values the generated code passes for
a sink vector are those of the iteration the vector names, which needs that the
strides divide the vector (`NestsAssumption`, the rule of semantic analysis).
`DoacrossInv` then adds that the points posted in a nest are over (`Posted`), that a
task is at a point of its own schedule (`InNest`) and has waited for its sinks in
turn (`Waited`), and, as for ordered regions, that `prepared_tasks` counts the tasks
that reached the nest.

**Preprocessor.** `skip_depth` alone does not say which levels are skipped.
`PpInv` adds the shape of the stack (`Levels`): active frames, then at most one
that is skipping or done, then only frames below a skipped one, `skip_depth` being
the number of those that are not active. Isolation needs that the floors of the
open files do not decrease and that the frames below each are those at its entry
(`Floors`).

**Order of compilation.** `OrderInv` says that the table has the definitions of the
files seen so far (`Table`), that an in-degree is the number of modules whose files
are not placed yet, that the files with none are those placed or queued, each once
(`Kahn`), and what each result means (`Verdict`). The files that are left when the
queue is empty each wait for another of them, which is the cycle that is reported.
The files are finitely many and each uses finitely many modules
(`ProjectsAssumption`).

**Register allocation.** That two ranges do not share a register when the second
is assigned needs that the active list, the pools and the map agree, that a
register's earlier holders ended before every interval still to come, and that
intervals come in the order of their starts (`Books`). A split value is two
names, with `Known` telling which ranges mean something. For the slots `AllocInv`
adds that values are coloured in the order of their first positions and that a slot
has room for each of its values (`Slots`); a mask is right at a position because the
ranges toggled for a register are those of the values in it, of which at most one
covers the position.
`ScanAssumption` says that ranges are ranges, the corrected inside the conservative
one, that none starts at a call, and that no two calls are adjacent.

**Argument copies.** `PcInv` says where the promised value of each destination is
now: in the source of its pending copy, or in the destination once written
(`Promise`), for a group whose destinations are distinct (`Shape`). When no copy is
safe, every destination is a source; counting shows that every source is then a
destination, hence a register that is no scratch register.

**Around a call.** `CallInv` carries `PcInv` to the call, with the group being
exactly the marked copies of that call over the locations the scan chose (`Stages`).
A value that is live over the call is in a preserved register or in a slot that no
copy writes, or it is split there and both bridge moves go through a slot of its own.
`Between` says what each of these holds from the call to `CallResultCopyEnd`, and where
the result is; the loads come last, and neither a live value nor the result is where
one of them goes, because their ranges overlap.
`CallAssumption` says that the copies between marker and call write distinct
caller-saved registers, that nothing else begins among them, and that between a call
and its `CallResultCopyEnd` only its result begins.

**Runtime cache and outputs.** `CacheInv` adds that what is renamed into place is
prepared and that the entry only ever changes into the prepared library. For the
transaction, `OutInv` says for each compiler how far it has come with each output in
each phase (`Staged`), which temporary files it has left (`Swept`) and, as long as no
other has published, what is at each destination and in each backup (`Intact`).
`LinkInv` puts the two together: without a runtime no output is touched (`Waiting`).
Any number of compilers, outputs, faults and kills.

**Supervisor.** `SupInv` says that the process id is the command's own until the
last signal is sent and that a child that is not reaped leaves an error to report
(`Reaping`), that the reason for leaving the loop is one that was there (`Reasons`),
that what was written is in the pipe or captured, unless the
stream is marked truncated, and that a stream read to its end has no writer
(`Streaming`), and how the results are put together (`Collecting`).

Only model-checked: every liveness property, which is out of the prover's reach;
`ReducedOnce` and `ReductionSpec`, whose values are folds over sequences, and
`EachIterationOnce` and `LastprivateIsSequential`, which speak of what whole loops
compute, so that both need induction over data; and the properties of `OmpTeams` and
of `IoUnits`, for which there is no inductive invariant here with a complete proof.

## Findings

**128-bit branch arguments on x86-64** (`x86_wide_copies`). The comment of
`emit_branch_arg_copies` says that all reads complete before any parameter is
written. Narrow arguments are staged through fresh temporaries; a 128-bit one is
copied straight to its parameter's slots while later arguments are still to be
read, so a branch that swaps two of them gives both the same value.

Seen while modelling, in the models and without a run of their own:

- `afs_omp_reduce_i64` refuses a thread without a team context and the generated
  code turns that into ERROR STOP, while lowering describes orphaned constructs
  as binding to the implicit one-thread team.
- `active_level` counts the contexts on the calling thread's stack. A worker's
  stack starts with one context at any depth, so its regions can be active beyond
  OMP_MAX_ACTIVE_LEVELS.
- The bounds computation keeps every iteration of a loop up to the largest
  integer; the generated DO loop wraps after the last of them and starts again.
- Two compilers that publish to one destination and both fail can lose the
  previous output, because one makes its backup while the other's rollback has
  removed the file.
- The scratch file of a connection that a second OPEN of the unit takes over stays
  on disk; `ScratchRemoved` speaks of the connections that are left at exit.
- A block comment that an included file leaves open takes lines of its includer.
- A region nested in one of its own name, which semantic analysis and lowering
  accept, waits for itself (audit-13, A13-07); `AllServed` asks for an order.
- A 16-byte vector that lives over a call in a callee-saved register, or is bridged
  around it, keeps its low half only (audit-05.md:290-292). The audit reached no
  such code from Fortran, since loops with calls are not vectorized.
- FPow emits its call of pow with neither `CallArgCopyStart` nor `CallResultCopyEnd`
  (isel.rs:1323-1353). A value split there is loaded only at the next
  `CallResultCopyEnd` or the end of the block (linearscan.rs:1306-1309, 1380-1383),
  though the comment there has this for hand-written MIR only.

## Not modelled

- Lexer, parser, most of semantic analysis, IR lowering outside OpenMP, the
  optimizer and most of code generation (selection, liveness data-flow, emission,
  the x86 allocator): translations of unbounded inputs whose correctness needs
  semantics of Fortran, the IR and the machines. They are most of the repository's
  lines, so the models cover a small share of it.
- Around calls: indirect targets, borrowed temporaries, the call of FPow, and 128-bit
  integer arguments, which are loaded before the marker.
- Macro expansion and expressions of the preprocessor: a verdict stands for them.
- Direct and stream access, positioning, INQUIRE, namelist, formats: the bytes of a
  record. Statements of two threads on one unit, which the code serializes only
  call by call.
- Real, complex and array reductions (same protocol, other slots), the atomic
  updates, SECTIONS, SINGLE, SIMD.
- Environment variables and command-line options: constants.
- Barriers inside regions of `OmpTeams`: a failed spawn there cannot leave
  threads at a barrier, as it can in the code.
- Arrays, strings, mathematics.

## Plan

1. Teams composed with barriers, for failed spawns; concurrent compilers with
   interface files left out of the transaction.
2. Allocation status and descriptors; the pass manager's fixpoint; dominance in
   the IR verifier against its definition.
3. Proofs: the units of `IoUnits`, a connection at a time; the thread limit and the
   threadprivate copies of `OmpTeams`.
