--------------------------- MODULE ManagedProcess ---------------------------
(***************************************************************************)
(* One command under supervision (src/testing/managed_process.rs:          *)
(* run_with_limits).  The supervisor polls four conditions in turn, ends   *)
(* the process group, reaps the child and collects what two reader threads *)
(* captured; an observer thread reports the exit without reaping.  Around  *)
(* it are the child, one descendant that may leave the process group, and  *)
(* a host that gives a released process id to somebody else.               *)
(***************************************************************************)
EXTENDS Integers, Sequences

CONSTANTS
  MaxWritten,     \* bound: what the command writes to each stream
  CaptureLimit,
  MayEscape,      \* whether the descendant can leave the process group
  MayFail         \* whether waitid, wait and read can fail

Streams == 1..2   \* stdout, then stderr

ASSUME LimitsAssumption ==
  MaxWritten \in [Streams -> Nat] /\ CaptureLimit \in Nat /\ MayEscape \in BOOLEAN
  /\ MayFail \in BOOLEAN

VARIABLES
  \* the command
  child,       \* "none", "running", "zombie", "reaped"
  kin,         \* "none", "group", "escaped", "zombie", "gone"
  written, pipe,
  \* the host
  stranger,    \* the child's process id belongs to an unrelated group
  \* the threads
  captured, truncated, reader,
  output_limit_exceeded,
  completion,  \* what the observer sent: "empty", "exited", "failed"
  cancelled, late,
  \* the supervisor
  pc, reason, observed, lifecycle_error,
  got,         \* of the streams finished so far
  result,
  \* history
  disturbed,   \* a signal of the supervisor ended the child
  misfired     \* a signal of the supervisor met the stranger

command == <<child, kin, written, pipe>>
threads == <<captured, truncated, reader, output_limit_exceeded, completion>>
supervisor == <<pc, reason, observed, lifecycle_error, got, result>>
history == <<disturbed, misfired>>
vars == <<command, stranger, threads, cancelled, late, supervisor, history>>

Init ==
  /\ child = "none" /\ kin = "none"
  /\ written = [s \in Streams |-> 0] /\ pipe = written
  /\ stranger = FALSE
  /\ captured = written
  /\ truncated = [s \in Streams |-> FALSE]
  /\ reader = [s \in Streams |-> "reading"]
  /\ output_limit_exceeded = FALSE
  /\ completion = "empty"
  /\ cancelled = FALSE /\ late = FALSE
  /\ pc = "start" /\ reason = "none"
  /\ observed = FALSE /\ lifecycle_error = FALSE
  /\ got = << >>
  /\ result = "none"
  /\ disturbed = FALSE /\ misfired = FALSE

-----------------------------------------------------------------------------
(* The command and the host *)

Holds == child = "running" \/ kin \in {"group", "escaped"}   \* the pipes
InGroup == child \in {"running", "zombie"} \/ kin \in {"group", "zombie"}
LiveInGroup == child = "running" \/ kin = "group"

Write(s) ==
  /\ Holds /\ written[s] < MaxWritten[s]
  /\ written' = [written EXCEPT ![s] = @ + 1]
  /\ pipe' = [pipe EXCEPT ![s] = @ + 1]
  /\ UNCHANGED <<child, kin, stranger, threads, cancelled, late, supervisor, history>>

Exit ==
  /\ child = "running" /\ child' = "zombie"
  /\ UNCHANGED <<kin, written, pipe, stranger, threads, cancelled, late, supervisor, history>>

KinStep ==
  /\ \/ kin = "none" /\ child = "running" /\ kin' = "group"
     \/ kin = "group" /\ MayEscape /\ kin' = "escaped"
     \/ kin = "group" /\ kin' = "zombie"
     \/ kin = "escaped" /\ kin' = "gone"
     \/ kin = "zombie" /\ kin' = "gone"
  /\ UNCHANGED <<child, written, pipe, stranger, threads, cancelled, late, supervisor, history>>

\* A process id is free once it was reaped and no group bears it.
ReusePid ==
  /\ child = "reaped" /\ ~InGroup /\ ~stranger
  /\ stranger' = TRUE
  /\ UNCHANGED <<command, threads, cancelled, late, supervisor, history>>

Cancel ==
  /\ ~cancelled /\ cancelled' = TRUE
  /\ UNCHANGED <<command, stranger, threads, late, supervisor, history>>

\* The deadline passes.
Late ==
  /\ pc # "start" /\ ~late /\ late' = TRUE
  /\ UNCHANGED <<command, stranger, threads, cancelled, supervisor, history>>

-----------------------------------------------------------------------------
(* The threads *)

Read(s) ==
  /\ pc # "start" /\ reader[s] = "reading"
  /\ \E read \in 1..pipe[s] :
       LET room == CaptureLimit - captured[s]
           retained == IF read < room THEN read ELSE room IN
       /\ pipe' = [pipe EXCEPT ![s] = @ - read]
       /\ captured' = [captured EXCEPT ![s] = @ + retained]
       /\ truncated' = [truncated EXCEPT ![s] = @ \/ retained # read]
       /\ output_limit_exceeded' = (output_limit_exceeded \/ retained # read)
  /\ UNCHANGED <<child, kin, written, stranger, reader, completion, cancelled, late,
                 supervisor, history>>

ReadEnds(s) ==
  /\ pc # "start" /\ reader[s] = "reading"
  /\ \/ pipe[s] = 0 /\ ~Holds /\ reader' = [reader EXCEPT ![s] = "complete"]
     \/ MayFail /\ reader' = [reader EXCEPT ![s] = "failed"]
  /\ UNCHANGED <<command, stranger, captured, truncated, output_limit_exceeded,
                 completion, cancelled, late, supervisor, history>>

\* waitid returns: the exited child is left waitable.  After the child has
\* been reaped there is nothing to wait for.
Observe ==
  /\ pc # "start" /\ completion = "empty" /\ ~observed
  /\ \/ child = "zombie" /\ completion' = "exited"
     \/ (MayFail \/ child = "reaped") /\ completion' = "failed"
  /\ UNCHANGED <<command, stranger, captured, truncated, reader, output_limit_exceeded,
                 cancelled, late, supervisor, history>>

-----------------------------------------------------------------------------
(* The supervisor *)

Start ==
  /\ pc = "start" /\ child' = "running" /\ pc' = "cancelled?"
  /\ UNCHANGED <<kin, written, pipe, stranger, threads, cancelled, late,
                 reason, observed, lifecycle_error, got, result, history>>

SpawnFails ==
  /\ pc = "start" /\ pc' = "done" /\ result' = "spawn"
  /\ UNCHANGED <<command, stranger, threads, cancelled, late,
                 reason, observed, lifecycle_error, got, history>>

\* Break out of the loop for a reason, or go on.
Goes(why, to) == reason' = why /\ pc' = to
PollOnly == UNCHANGED <<command, stranger, captured, truncated, reader,
                        output_limit_exceeded, cancelled, late, lifecycle_error, got,
                        result, history>>

PollCancelled ==
  /\ pc = "cancelled?"
  /\ IF cancelled THEN Goes("cancelled", "term") ELSE Goes(reason, "limit?")
  /\ PollOnly /\ UNCHANGED <<completion, observed>>

PollLimit ==
  /\ pc = "limit?"
  /\ IF output_limit_exceeded THEN Goes("limit", "term") ELSE Goes(reason, "exited?")
  /\ PollOnly /\ UNCHANGED <<completion, observed>>

\* ChildExitObserver::poll; the message is taken even when it is an error.
PollExit ==
  /\ pc = "exited?"
  /\ CASE completion = "exited" -> Goes("exited", "kill")
       [] completion = "failed" -> Goes("monitor", "term")
       [] OTHER -> Goes(reason, "late?")
  /\ observed' = (completion # "empty")
  /\ completion' = "empty"
  /\ PollOnly

\* Mutant: the deadline is forgotten.
PollForever ==
  /\ pc = "late?"
  /\ Goes(reason, "cancelled?")
  /\ PollOnly /\ UNCHANGED <<completion, observed>>

PollDeadline ==
  /\ pc = "late?"
  /\ IF late THEN Goes("timeout", "term") ELSE Goes(reason, "cancelled?")
  /\ PollOnly /\ UNCHANGED <<completion, observed>>

\* kill(-process_group, signal).  It reaches every member, a terminated one
\* excepted; a group of terminated members is an error on some hosts; a group
\* that does not exist is no error.
Signal(dies) ==
  /\ child' = IF "child" \in dies THEN "zombie" ELSE child
  /\ kin' = IF "kin" \in dies THEN "zombie" ELSE kin
  /\ disturbed' = (disturbed \/ (child = "running" /\ "child" \in dies))
  /\ misfired' = (misfired \/ stranger)
  /\ \/ UNCHANGED lifecycle_error
     \/ ~LiveInGroup /\ InGroup /\ lifecycle_error' = TRUE
Live == {p \in {"child", "kin"} : IF p = "child" THEN child = "running" ELSE kin = "group"}

\* Mutant: the child is reaped before the last signal.
TerminateReaps ==
  /\ pc = "term"
  /\ pc' = "kill"
  /\ child' = "reaped"
  /\ UNCHANGED <<kin, written, pipe, stranger, threads, cancelled, late, reason, observed,
                 got, result, lifecycle_error, history>>

\* SIGTERM, which a process may survive; the grace period follows.  When the
\* signal fails no member is left for child.kill() to end.
Terminate ==
  /\ pc = "term"
  /\ \E dies \in SUBSET Live : Signal(dies)
  /\ pc' = "kill"
  /\ UNCHANGED <<written, pipe, stranger, threads, cancelled, late, reason, observed,
                 got, result>>

\* Mutant: only the child is killed.
KillChildOnly ==
  /\ pc = "kill"
  /\ Signal(Live \cap {"child"})
  /\ pc' = IF reason = "exited" THEN "reap" ELSE "observe"
  /\ UNCHANGED <<written, pipe, stranger, threads, cancelled, late, reason, observed,
                 got, result>>

Kill ==
  /\ pc = "kill"
  /\ Signal(Live)
  /\ pc' = IF reason = "exited" THEN "reap" ELSE "observe"
  /\ UNCHANGED <<written, pipe, stranger, threads, cancelled, late, reason, observed,
                 got, result>>

\* ChildExitObserver::wait, which an earlier message or a timeout cuts short.
AwaitExit ==
  /\ pc = "observe"
  /\ \/ observed /\ UNCHANGED <<lifecycle_error, completion, observed>>
     \/ /\ ~observed /\ completion # "empty"
        /\ observed' = TRUE /\ completion' = "empty"
        /\ lifecycle_error' = (lifecycle_error \/ completion = "failed")
     \/ /\ ~observed /\ completion = "empty"
        /\ lifecycle_error' = TRUE
        /\ UNCHANGED <<completion, observed>>
  /\ pc' = "reap"
  /\ UNCHANGED <<command, stranger, captured, truncated, reader, output_limit_exceeded,
                 cancelled, late, reason, got, result, history>>

\* Child::wait returns once the child has exited.  Its own error is returned at
\* once (managed_process.rs:695, 709): the group is not looked at again.
Reap ==
  /\ pc = "reap"
  /\ \/ /\ child \in {"zombie", "reaped"} /\ child' = "reaped" /\ pc' = "verify"
        /\ UNCHANGED lifecycle_error
     \/ MayFail /\ lifecycle_error' = TRUE /\ pc' = "collect" /\ UNCHANGED child
  /\ UNCHANGED <<kin, written, pipe, stranger, threads, cancelled, late, reason, observed,
                 got, result, history>>

\* An error of the clean-up is forgiven when the group is seen to be gone.
VerifyGroupCleanup ==
  /\ pc = "verify"
  /\ lifecycle_error' = (lifecycle_error /\ (InGroup \/ stranger))
  /\ pc' = "collect"
  /\ UNCHANGED <<command, stranger, threads, cancelled, late, reason, observed,
                 got, result, history>>

\* Reader::finish for the next stream: its completion, or the end of waiting;
\* the bytes are taken out of the buffer.
Collect ==
  LET s == Len(got) + 1 IN
  /\ pc = "collect"
  /\ got' = Append(got, [end |-> reader[s], bytes |-> captured[s],
                         truncated |-> truncated[s]])
  /\ captured' = [captured EXCEPT ![s] = 0]
  /\ pc' = IF s = 2 THEN "return" ELSE "collect"
  /\ UNCHANGED <<command, stranger, truncated, reader, output_limit_exceeded, completion,
                 cancelled, late, reason, observed, lifecycle_error, result, history>>

Complete == \A s \in Streams : got[s].end = "complete"
Whole == \A s \in Streams : ~got[s].truncated

\* Mutant: an exit is a success however the streams ended.
OutcomeUnread ==
  IF reason = "monitor" \/ lifecycle_error THEN "monitor"
  ELSE IF reason # "exited" THEN reason
  ELSE "ok"
\* What the caller is told, the first that applies.
Outcome ==
  IF reason = "monitor" \/ lifecycle_error THEN "monitor"
  ELSE IF reason # "exited" THEN reason
  ELSE IF ~Complete THEN "incomplete"
  ELSE IF ~Whole THEN "limit"
  ELSE "ok"

Return ==
  /\ pc = "return"
  /\ result' = Outcome /\ pc' = "done"
  /\ UNCHANGED <<command, stranger, threads, cancelled, late, reason, observed,
                 lifecycle_error, got, history>>

-----------------------------------------------------------------------------
Environment == (\E s \in Streams : Write(s)) \/ Exit \/ KinStep \/ ReusePid \/ Cancel
Thread == (\E s \in Streams : Read(s) \/ ReadEnds(s)) \/ Observe
Poll == PollCancelled \/ PollLimit \/ PollExit \/ PollDeadline
Supervise ==
  Start \/ SpawnFails \/ Poll \/ Terminate \/ Kill \/ AwaitExit \/ Reap
    \/ VerifyGroupCleanup \/ Collect \/ Return

Next == Environment \/ Late \/ Thread \/ Supervise

Spec == Init /\ [][Next]_vars

\* The supervisor is scheduled and time passes.  Nothing is asked of the
\* command, nor of the threads.
FairSpec == Spec /\ WF_vars(Supervise) /\ WF_vars(Late)

-----------------------------------------------------------------------------
\* "A capture limit is a hard failure, never a successful result with silently
\* incomplete output" (managed_process.rs:5-7): with Ok the caller has all
\* that anybody wrote, and nobody is left to write more, even when the reader
\* reaches the limit after the last look at the flag.  The reported outcome is
\* what happened: a command the supervisor put an end to is no success, and a
\* deadline or a cancellation that is reported was there.
OutcomeIsHonest ==
  /\ result = "ok" =>
       ~disturbed /\ ~Holds /\ \A s \in Streams : got[s].bytes = written[s]
  /\ result = "timeout" => late
  /\ result = "cancelled" => cancelled

\* No member of the process group is still running when run_with_limits returns,
\* and "callers never inherit a zombie" (managed_process.rs:693-694) but when the
\* wait for it failed, which they are told instead of any other outcome.
NothingLeftBehind ==
  result \notin {"none", "spawn"} =>
    /\ child # "running" /\ kin # "group"
    /\ child = "reaped" \/ (MayFail /\ result = "monitor")

\* The child's process id is held until the last signal has been sent, so that
\* no signal meets an unrelated group (managed_process.rs:670-674, 704-707).
NeverMisfires == ~misfired

\* Every command comes back to its caller, whatever it does: neither a command
\* that ignores SIGTERM nor a descendant that holds the pipes open, nor a
\* reader or an observer that is never scheduled, delays it for ever.
EveryCommandReturns == <>(pc = "done")
=============================================================================
