-------------------------- MODULE OutputTransaction --------------------------
(***************************************************************************)
(* How the driver publishes what a compilation produces                    *)
(* (src/driver/mod.rs: PendingExternalOutput, publish_output_transaction): *)
(* the object or executable, the module interfaces and the dependency file *)
(* are staged in directories of their own beside their destinations and    *)
(* then moved into place together, or not at all.                          *)
(*                                                                         *)
(* A step is one call to the file system, which may fail, and the driver's *)
(* reaction to its result; the process may be killed between any two.      *)
(* Several compilers may be at work on the same destinations; the staging  *)
(* names hold the process id and a counter, so each has its own.           *)
(***************************************************************************)
EXTENDS Integers

CONSTANTS
  Processes,      \* compilers; also what their files hold
  Count,          \* outputs of one compilation
  Paths,          \* destinations
  Layouts,        \* which output may go to which destination
  Prior,          \* what may be at a destination beforehand
  None, Empty, Old, Dir,
  MaxFaults,      \* bound: failing file system calls
  MayCrash

Outputs == 1..Count

ASSUME OutputsAssumption ==
  /\ Count \in Nat \ {0}
  /\ Layouts \subseteq [Outputs -> Paths]
  /\ Prior \subseteq {None, Old, Dir}
  /\ MaxFaults \in Nat /\ MayCrash \in BOOLEAN
ASSUME ContentsDistinct ==
  /\ None # Empty /\ None # Old /\ None # Dir /\ Empty # Old /\ Empty # Dir /\ Old # Dir
  /\ {None, Empty, Old, Dir} \cap Processes = {}

VARIABLES
  path,        \* path[i]: the destination of output i
  file,        \* what each destination holds
  prior,       \* history: what it held at the start
  staging,     \* staging_path of each output of each process
  dir,         \* staging_dir exists
  backup,      \* previous-output in the staging directory
  backed_up, published, committed,
  at,          \* index of the output being worked on
  pc,
  failed,      \* history: a clean-up or rollback call of the process failed
  faults

vars == <<path, file, prior, staging, dir, backup, backed_up, published, committed,
          at, pc, failed, faults>>
flags == <<backed_up, published, committed>>

Init ==
  /\ path \in Layouts
  /\ file \in [Paths -> Prior] /\ prior = file
  /\ staging = [p \in Processes |-> [i \in Outputs |-> None]]
  /\ dir = [p \in Processes |-> [i \in Outputs |-> FALSE]]
  /\ backup = [p \in Processes |-> [i \in Outputs |-> None]]
  /\ backed_up = [p \in Processes |-> [i \in Outputs |-> FALSE]]
  /\ published = backed_up /\ committed = backed_up
  /\ at = [p \in Processes |-> 1]
  /\ pc = [p \in Processes |-> "prepare"]
  /\ failed = [p \in Processes |-> FALSE]
  /\ faults = 0

Goto(p, l, i) == pc' = [pc EXCEPT ![p] = l] /\ at' = [at EXCEPT ![p] = i]

\* The next output of the same phase, or the next phase.
Advance(p, next, first) ==
  IF at[p] < Count THEN Goto(p, pc[p], at[p] + 1) ELSE Goto(p, next, first)

\* A call to the file system fails for a reason of its own.
Fault == faults < MaxFaults /\ faults' = faults + 1

-----------------------------------------------------------------------------
(* Staging *)

\* PendingExternalOutput::prepare and the tool that writes the staged file;
\* on an error the outputs prepared so far are dropped.
Prepare(p) ==
  LET i == at[p] IN
  /\ pc[p] = "prepare"
  /\ dir' = [dir EXCEPT ![p][i] = TRUE]
  /\ \E made \in {None, Empty, p} :
       /\ staging' = [staging EXCEPT ![p][i] = made]
       /\ IF made = p THEN Advance(p, "validate", 1) ELSE Goto(p, "drop", 1)
  /\ UNCHANGED <<path, file, prior, backup, flags, failed, faults>>

PrepareFails(p) ==
  /\ pc[p] = "prepare" /\ Fault
  /\ Goto(p, "drop", 1)
  /\ UNCHANGED <<path, file, prior, staging, dir, backup, flags, failed>>

\* A staged file disappears after it has been prepared, which the test of the
\* rollback provokes too.
Vanish(p) ==
  /\ pc[p] \in {"validate", "backup", "publish"} /\ Fault
  /\ \E i \in Outputs :
       staging[p][i] # None /\ staging' = [staging EXCEPT ![p][i] = None]
  /\ UNCHANGED <<path, file, prior, dir, backup, flags, at, pc, failed>>

-----------------------------------------------------------------------------
(* publish_output_transaction_inner *)

\* validate, one destination per output, no directory in the way
Publishable(p) ==
  \A i \in Outputs :
    /\ staging[p][i] \notin {None, Empty}
    /\ \A j \in Outputs : j < i => path[i] # path[j]
    /\ file[path[i]] # Dir

Validate(p) ==
  /\ pc[p] = "validate"
  /\ IF Publishable(p) THEN Goto(p, "backup", 1) ELSE Goto(p, "drop", 1)
  /\ UNCHANGED <<path, file, prior, staging, dir, backup, flags, failed, faults>>

\* Mutant: the link is never made.
BackupForgets(p) ==
  /\ pc[p] = "backup"
  /\ backed_up' = [backed_up EXCEPT ![p][at[p]] = file[path[at[p]]] # None]
  /\ Advance(p, "publish", 1)
  /\ UNCHANGED <<path, file, prior, staging, dir, backup, published, committed, failed, faults>>

\* A hard link keeps what the destination holds, if it holds something.
Backup(p) ==
  LET i == at[p] IN
  /\ pc[p] = "backup"
  /\ IF file[path[i]] = None THEN UNCHANGED <<backup, backed_up>>
     ELSE /\ backup' = [backup EXCEPT ![p][i] = file[path[i]]]
          /\ backed_up' = [backed_up EXCEPT ![p][i] = TRUE]
  /\ Advance(p, "publish", 1)
  /\ UNCHANGED <<path, file, prior, staging, dir, published, committed, failed, faults>>

BackupFails(p) ==
  /\ pc[p] = "backup" /\ Fault
  /\ Goto(p, "unpublish", Count)
  /\ UNCHANGED <<path, file, prior, staging, dir, backup, flags, failed>>

Publish(p) ==
  LET i == at[p] IN
  /\ pc[p] = "publish" /\ staging[p][i] # None
  /\ file' = [file EXCEPT ![path[i]] = staging[p][i]]
  /\ staging' = [staging EXCEPT ![p][i] = None]
  /\ published' = [published EXCEPT ![p][i] = TRUE]
  /\ Advance(p, "commit", 1)
  /\ UNCHANGED <<path, prior, dir, backup, backed_up, committed, failed, faults>>

\* The rename is refused, or the staged file is gone.
PublishFails(p) ==
  /\ pc[p] = "publish"
  /\ IF staging[p][at[p]] = None THEN UNCHANGED faults ELSE Fault
  /\ Goto(p, "unpublish", Count)
  /\ UNCHANGED <<path, file, prior, staging, dir, backup, flags, failed>>

\* A removal that may fail, of a backup, and of the directory that it leaves
\* empty: remove_dir refuses a directory that still holds the backup.
Commit(p) ==
  LET i == at[p] IN
  /\ pc[p] = "commit"
  /\ \/ /\ backup' = [backup EXCEPT ![p][i] = None]
        /\ dir' = [dir EXCEPT ![p][i] = FALSE]
        /\ UNCHANGED <<failed, faults>>
     \/ /\ Fault
        /\ failed' = [failed EXCEPT ![p] = TRUE]
        /\ \E left \in {None, backup[p][i]} : backup' = [backup EXCEPT ![p][i] = left]
        /\ UNCHANGED dir
  /\ committed' = [committed EXCEPT ![p][i] = TRUE]
  /\ Advance(p, "ok", 1)
  /\ UNCHANGED <<path, file, prior, staging, backed_up, published>>

-----------------------------------------------------------------------------
(* rollback, from the last output to the first *)

\* Mutant: a file that replaced nothing is left behind.
UnpublishKeepsFresh(p) ==
  LET i == at[p] IN
  /\ pc[p] = "unpublish"
  /\ file' = IF published[p][i] /\ backed_up[p][i] THEN [file EXCEPT ![path[i]] = None] ELSE file
  /\ Goto(p, "restore", i)
  /\ UNCHANGED <<path, prior, staging, dir, backup, flags, failed, faults>>

\* The newly published file is removed, if there is one.
Unpublish(p) ==
  LET i == at[p] IN
  /\ pc[p] = "unpublish"
  /\ \/ /\ file' = IF published[p][i] THEN [file EXCEPT ![path[i]] = None] ELSE file
        /\ UNCHANGED <<failed, faults>>
     \/ /\ published[p][i] /\ Fault
        /\ failed' = [failed EXCEPT ![p] = TRUE]
        /\ UNCHANGED file
  /\ Goto(p, "restore", i)
  /\ UNCHANGED <<path, prior, staging, dir, backup, flags>>

\* The backup is moved back, or removed when it was not needed.
Restore(p) ==
  LET i == at[p] IN
  /\ pc[p] = "restore"
  /\ \/ /\ IF backed_up[p][i] /\ published[p][i]
           THEN file' = [file EXCEPT ![path[i]] = backup[p][i]] ELSE UNCHANGED file
        /\ backup' = [backup EXCEPT ![p][i] = None]
        /\ UNCHANGED <<failed, faults>>
     \/ /\ backed_up[p][i] /\ Fault
        /\ failed' = [failed EXCEPT ![p] = TRUE]
        /\ UNCHANGED <<file, backup>>
  /\ IF i > 1 THEN Goto(p, "unpublish", i - 1) ELSE Goto(p, "drop", 1)
  /\ UNCHANGED <<path, prior, staging, dir, flags>>

-----------------------------------------------------------------------------
(* Drop for PendingExternalOutput: an output that was not committed loses   *)
(* its staged file and, when nothing else is in it, its directory.          *)
Drop(p) ==
  LET i == at[p] IN
  /\ pc[p] = "drop"
  /\ \/ /\ staging' = [staging EXCEPT ![p][i] = None]
        /\ dir' = [dir EXCEPT ![p][i] = @ /\ backup[p][i] # None]
        /\ UNCHANGED <<failed, faults>>
     \/ /\ dir[p][i] /\ Fault
        /\ failed' = [failed EXCEPT ![p] = TRUE]
        /\ \E left \in {None, staging[p][i]} : staging' = [staging EXCEPT ![p][i] = left]
        /\ UNCHANGED dir
  /\ Advance(p, "err", 1)
  /\ UNCHANGED <<path, file, prior, backup, flags>>

\* The process is killed; nothing is cleaned up.
Crash(p) ==
  /\ MayCrash /\ pc[p] \notin {"ok", "err", "crashed"}
  /\ Goto(p, "crashed", at[p])
  /\ UNCHANGED <<path, file, prior, staging, dir, backup, flags, failed, faults>>

-----------------------------------------------------------------------------
Ended(p) == pc[p] \in {"ok", "err", "crashed"}
Terminated == (\A p \in Processes : Ended(p)) /\ UNCHANGED vars

Step(p) ==
  \/ Prepare(p) \/ PrepareFails(p) \/ Validate(p)
  \/ Backup(p) \/ BackupFails(p) \/ Publish(p) \/ PublishFails(p) \/ Commit(p)
  \/ Unpublish(p) \/ Restore(p) \/ Drop(p)

Next == (\E p \in Processes : Step(p) \/ Vanish(p) \/ Crash(p)) \/ Terminated

Spec == Init /\ [][Next]_vars

-----------------------------------------------------------------------------
(* Properties *)

Done(p) == pc[p] \in {"commit", "ok"}

\* No other compiler has renamed anything into place.
Alone(p) == \A q \in Processes \ {p} : \A i \in Outputs : ~published[q][i]

\* When publish_output_transaction returns an error and its rollback met no
\* further failure, every destination holds what it held before, however many
\* outputs had been published; when it returns success, every destination has
\* the new output.  Another compiler may be at work on the same destinations as
\* long as it has published nothing.  A transaction that returns leaves no
\* staging directory, staged file or backup behind, unless a removal failed.
AllOrNothing ==
  \A p \in Processes :
    /\ Alone(p) =>
         /\ pc[p] = "err" /\ ~failed[p] => file = prior
         /\ pc[p] = "ok" => \A i \in Outputs : file[path[i]] = p
    /\ pc[p] \in {"ok", "err"} /\ ~failed[p] =>
         \A i \in Outputs : ~dir[p][i] /\ staging[p][i] = None /\ backup[p][i] = None

\* The previous output is at x, in a backup beside it, or replaced by a
\* compilation that published all of its outputs.
Preserved(x) ==
  \/ file[x] = Old
  \/ \E p \in Processes, i \in Outputs : path[i] = x /\ backup[p][i] = Old
  \/ \E p \in Processes :
       Done(p) \/ (pc[p] = "crashed" /\ \A i \in Outputs : published[p][i])

\* A rollback (or a kill in it) is between the two steps for x.
RollingBack(x) ==
  \E p \in Processes, i \in Outputs :
    /\ path[i] = x /\ published[p][i]
    /\ pc[p] \in {"restore", "crashed"} \/ failed[p]

\* "The old destination remains published until a verified, non-empty regular
\* replacement is ready": whatever fails and wherever the process is killed, a destination
\* never shows an empty file, the previous output is never lost before a
\* compilation has published all of its outputs, and a destination that had a
\* file is without one only between the two steps of a rollback.  Two compilers
\* that both publish are promised only the first.  The previous output is what
\* the transaction finds; a stale dependency file has been removed before it.
PreviousOutputSurvives ==
  \A x \in Paths :
    /\ file[x] # Empty
    /\ prior[x] = Dir <=> file[x] = Dir
    /\ prior[x] = Old /\ (\E p \in Processes : Alone(p)) =>
         /\ Preserved(x)
         /\ file[x] = None => RollingBack(x)
=============================================================================
