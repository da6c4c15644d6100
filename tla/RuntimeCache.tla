---------------------------- MODULE RuntimeCache ----------------------------
(***************************************************************************)
(* A link: the runtime library first, the outputs then                     *)
(* (src/driver/mod.rs: link_inputs_with_dependency_file).  The dynamic     *)
(* runtime is carried in the compiler and kept in a cache that all         *)
(* compilers of a user share (src/runtime/artifact.rs:                     *)
(* materialize_bundled_runtime_dylib_in); the entry is prepared in a       *)
(* temporary file beside it and moved into place, and an entry that is     *)
(* there is used if its install name is right.                             *)
(*                                                                         *)
(* The link's outputs, the executable and the dependency file, are then    *)
(* published as in OutputTransaction, with whose steps, faults and crashes *)
(* those of the cache interleave.                                          *)
(***************************************************************************)
EXTENDS OutputTransaction

CONSTANTS
  PriorRuntime,   \* what the cache may hold beforehand
  Leftover        \* what a killed compiler with this process id may have left

\* Raw is the payload as carried, Prepared the payload with its install name;
\* Partial is a file that was not written to its end, Foreign any other.
Libraries == {"none", "partial", "raw", "prepared", "foreign"}

ASSUME RuntimeAssumption ==
  /\ PriorRuntime \subseteq {"none", "raw", "prepared", "foreign"}
  /\ Leftover \subseteq Libraries

VARIABLES
  dylib,        \* the cache entry
  temporary,    \* the temporary file of each process
  runtime,      \* "look", "create", "write", "prepare", "rename", "found", "failed"
  prior_dylib, met   \* history: the entry at the start; whom a fault or leftover met

cachevars == <<dylib, temporary, runtime, prior_dylib, met>>

\* The start of link_inputs_with_dependency_file.  The driver has already removed
\* the dependency file of an earlier compilation (prepare_dependency_file), so
\* there is no file at that destination here.
LinkInit ==
  /\ Init
  /\ dylib \in PriorRuntime /\ prior_dylib = dylib
  /\ temporary \in [Processes -> Leftover]
  /\ runtime = [p \in Processes |-> "look"]
  /\ met = [p \in Processes |-> FALSE]

-----------------------------------------------------------------------------
Runtime(p, l) == runtime' = [runtime EXCEPT ![p] = l]
Temporary(p, x) == temporary' = [temporary EXCEPT ![p] = x]

Running(p) == pc[p] = "prepare"

\* Mutant: the payload as it is carried will do.
LookLenient(p) ==
  /\ Running(p) /\ runtime[p] = "look"
  /\ Runtime(p, CASE dylib \in {"raw", "prepared"} -> "found"
                  [] dylib = "none" -> "create"
                  [] OTHER -> "failed")
  /\ UNCHANGED <<dylib, temporary, met, prior_dylib, vars>>

\* An entry with the right install name is used, one that is the payload
\* itself is replaced and any other refused.
Look(p) ==
  /\ Running(p) /\ runtime[p] = "look"
  /\ Runtime(p, CASE dylib = "prepared" -> "found"
                  [] dylib \in {"none", "raw"} -> "create"
                  [] OTHER -> "failed")
  /\ UNCHANGED <<dylib, temporary, met, prior_dylib, vars>>

\* create_new refuses a name that is taken; the error path removes the file.
Create(p) ==
  /\ Running(p) /\ runtime[p] = "create"
  /\ IF temporary[p] = "none"
     THEN Temporary(p, "partial") /\ Runtime(p, "write") /\ UNCHANGED met
     ELSE /\ Temporary(p, "none") /\ Runtime(p, "failed")
          /\ met' = [met EXCEPT ![p] = TRUE]
  /\ UNCHANGED <<dylib, prior_dylib, vars>>

WriteAll(p) ==
  /\ Running(p) /\ runtime[p] = "write"
  /\ Temporary(p, "raw") /\ Runtime(p, "prepare")
  /\ UNCHANGED <<dylib, met, prior_dylib, vars>>

\* prepare_cached_runtime_dylib (install_name_tool) and the permissions.
PrepareDylib(p) ==
  /\ Running(p) /\ runtime[p] = "prepare"
  /\ Temporary(p, "prepared") /\ Runtime(p, "rename")
  /\ UNCHANGED <<dylib, met, prior_dylib, vars>>

\* Mutant: an entry that someone else put there in the meantime is an error.
RenameNew(p) ==
  /\ Running(p) /\ runtime[p] = "rename"
  /\ IF dylib = prior_dylib
     THEN dylib' = temporary[p] /\ Runtime(p, "found")
     ELSE UNCHANGED dylib /\ Runtime(p, "failed")
  /\ Temporary(p, "none")
  /\ UNCHANGED <<met, prior_dylib, vars>>

Rename(p) ==
  /\ Running(p) /\ runtime[p] = "rename"
  /\ dylib' = temporary[p] /\ Temporary(p, "none") /\ Runtime(p, "found")
  /\ UNCHANGED <<met, prior_dylib, vars>>

\* A call fails: the temporary file, if there is one, is removed.  When it was
\* the rename, a library that another compiler has installed is as good.
CacheFault(p) ==
  /\ Running(p) /\ runtime[p] \in {"look", "create", "write", "prepare", "rename"} /\ Fault
  /\ IF runtime[p] = "look" THEN UNCHANGED temporary ELSE Temporary(p, "none")
  /\ Runtime(p, IF runtime[p] = "rename" /\ dylib = "prepared" THEN "found" ELSE "failed")
  /\ met' = [met EXCEPT ![p] = TRUE]
  /\ UNCHANGED <<dylib, prior_dylib, path, file, prior, staging, dir, backup, flags,
                 at, pc, failed>>

\* Without a runtime the link returns before it stages anything.
NoRuntime(p) ==
  /\ Running(p) /\ runtime[p] = "failed"
  /\ Goto(p, "err", 1)
  /\ UNCHANGED <<path, file, prior, staging, dir, backup, flags, failed, faults, cachevars>>

Link(p) ==
  \/ Look(p) \/ Create(p) \/ WriteAll(p) \/ PrepareDylib(p) \/ Rename(p)
  \/ CacheFault(p) \/ NoRuntime(p)
  \/ runtime[p] = "found" /\ (Step(p) \/ Vanish(p)) /\ UNCHANGED cachevars
  \/ Crash(p) /\ UNCHANGED cachevars

LinkNext ==
  (\E p \in Processes : Link(p)) \/ (Terminated /\ UNCHANGED cachevars)

LinkSpec == LinkInit /\ [][LinkNext]_<<vars, cachevars>>

-----------------------------------------------------------------------------
\* From the moment a compiler has been given the path of the runtime library,
\* a prepared library is there: no other compiler's installation, failure or
\* death takes it away or puts something unfinished in its place, so the linker
\* and the programs that were linked can load it.
RuntimeUsable ==
  (\E p \in Processes : runtime[p] = "found") => dylib = "prepared"

\* A link goes without its runtime only because one of its own calls failed, a
\* temporary file of its name was there, or the cache held another library from
\* the start: compilers that install at the same time never refuse each other,
\* and one that was killed half-way is in nobody's way.
OnlyFaultsRefuse ==
  \A p \in Processes : runtime[p] = "failed" => met[p] \/ prior_dylib = "foreign"
=============================================================================
