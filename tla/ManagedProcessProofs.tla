------------------------ MODULE ManagedProcessProofs ------------------------
(***************************************************************************)
(* What run_with_limits promises its caller, for every amount of output,   *)
(* every capture limit and every host: the outcome is what happened,       *)
(* nothing of the command's group is left, and no signal meets a group     *)
(* that took over the process id.                                          *)
(*                                                                         *)
(* The promises are about the end of a run, and what makes them true is    *)
(* decided on the way: up to the last signal the child is not reaped, so   *)
(* its process id is nobody else's (Reaping); an exit that was reported    *)
(* was not caused by the supervisor (Reasons); and what a stream's reader  *)
(* has kept and what is still in the pipe are all that was written, as     *)
(* long as nothing was cut off (Streaming).                                *)
(***************************************************************************)
EXTENDS ManagedProcess, TLAPS

Polling == {"cancelled?", "limit?", "exited?", "late?"}
Before == {"start"} \cup Polling
Ending == {"observe", "reap", "verify", "collect", "return", "done"}
Got == [end : {"reading", "complete", "failed"}, bytes : Nat, truncated : BOOLEAN]

TypeOK ==
  /\ child \in {"none", "running", "zombie", "reaped"}
  /\ kin \in {"none", "group", "escaped", "zombie", "gone"}
  /\ written \in [Streams -> Nat] /\ pipe \in [Streams -> Nat]
  /\ captured \in [Streams -> Nat] /\ truncated \in [Streams -> BOOLEAN]
  /\ reader \in [Streams -> {"reading", "complete", "failed"}]
  /\ completion \in {"empty", "exited", "failed"}
  /\ stranger \in BOOLEAN /\ lifecycle_error \in BOOLEAN
  /\ disturbed \in BOOLEAN /\ misfired \in BOOLEAN
  /\ cancelled \in BOOLEAN /\ late \in BOOLEAN
  /\ pc \in Before \cup {"term", "kill"} \cup Ending
  /\ reason \in {"none", "cancelled", "limit", "monitor", "exited", "timeout"}
  /\ got \in Seq(Got)

\* The child is reaped after the last signal, unless the wait for it fails, and
\* only then is its process id anybody else's; nobody is born into the group after it.
Reaping ==
  /\ child = "none" <=> pc = "start" \/ result = "spawn"
  /\ pc = "verify" => child = "reaped"
  /\ pc \in {"collect", "return"} => child = "reaped" \/ (MayFail /\ lifecycle_error)
  /\ pc = "done" /\ result # "spawn" => child = "reaped" \/ (MayFail /\ result = "monitor")
  /\ child = "reaped" => pc \in {"verify", "collect", "return", "done"}
  /\ stranger => child = "reaped"
  /\ pc \in Ending => child # "running" /\ kin # "group"
  /\ child = "none" => kin = "none"
  /\ ~misfired

\* Why the loop was left, and that nothing had been done to the child when its
\* exit was the reason.
Reasons ==
  /\ pc \in Before => reason = "none" /\ ~disturbed
  /\ pc \notin Before => reason # "none" \/ result = "spawn"
  /\ completion = "exited" => child \in {"zombie", "reaped"}
  /\ reason = "exited" => child \in {"zombie", "reaped"} /\ ~disturbed
  /\ reason = "exited" => pc # "term"
  /\ reason = "timeout" => late
  /\ reason = "cancelled" => cancelled

\* What was written to a stream is in the pipe or was kept; a stream that was
\* read to its end has no writer left.
Streaming ==
  /\ \A s \in Streams : captured[s] <= CaptureLimit
  /\ \A s \in Streams : s > Len(got) /\ ~truncated[s] => captured[s] + pipe[s] = written[s]
  /\ \A s \in Streams : reader[s] = "complete" => pipe[s] = 0 /\ ~Holds /\ pc # "start"
  /\ \A s \in Streams : s <= Len(got) =>
       /\ got[s].end = "complete" => ~Holds
       /\ got[s].end = "complete" /\ ~got[s].truncated => got[s].bytes = written[s]

Collecting ==
  /\ Len(got) <= 2
  /\ pc \in Before \cup {"term", "kill", "observe", "reap", "verify"} => got = << >>
  /\ pc = "collect" => Len(got) < 2
  /\ pc = "return" => Len(got) = 2
  /\ result # "none" <=> pc = "done"
  /\ result = "ok" => /\ reason = "exited" /\ Len(got) = 2
                      /\ \A s \in Streams : got[s].end = "complete" /\ ~got[s].truncated
  /\ result = "timeout" => reason = "timeout"
  /\ result = "cancelled" => reason = "cancelled"

SupInv == TypeOK /\ Reaping /\ Reasons /\ Streaming /\ Collecting
-----------------------------------------------------------------------------
(* What an action may leave alone to leave a conjunct alone. *)

LEMMA ReapingFrame ==
  ASSUME Reaping, UNCHANGED <<child, kin, stranger, pc, result, misfired, lifecycle_error>>
  PROVE  Reaping'
BY DEF Reaping

\* The environment only adds to what a reason rests on.
LEMMA ReasonsFrame ==
  ASSUME Reasons, UNCHANGED <<child, pc, reason, result, disturbed>>,
         completion' = "exited" => completion = "exited" \/ child = "zombie",
         late => late', cancelled => cancelled'
  PROVE  Reasons'
BY DEF Reasons

LEMMA StreamingFrame ==
  ASSUME Streaming, UNCHANGED <<written, pipe, captured, truncated, reader, got>>,
         Holds' => Holds, pc # "start" => pc' # "start"
  PROVE  Streaming'
BY DEF Streaming

LEMMA CollectingFrame ==
  ASSUME Collecting, UNCHANGED <<pc, reason, got, result>>
  PROVE  Collecting'
BY DEF Collecting

\* A step within the loop, and out of it for a reason.
LEMMA PollKeeps ==
  ASSUME SupInv, pc \in Polling, PollOnly,
         \/ pc' \in Polling /\ reason' = reason
         \/ pc' = "term" /\ reason' \in {"cancelled", "limit", "monitor", "timeout"}
         \/ pc' = "kill" /\ reason' = "exited" /\ child = "zombie",
         reason' = "cancelled" => cancelled, reason' = "timeout" => late,
         completion' \in {completion, "empty"}
  PROVE  SupInv'
<1> USE DEF PollOnly, command, history, Polling, Before, Ending
<1>1. TypeOK'
  BY DEF SupInv, TypeOK
<1>2. Reaping'
  BY DEF SupInv, Reaping
<1>3. Reasons'
  BY DEF SupInv, Reasons
<1>4. Streaming'
  BY StreamingFrame DEF SupInv, Holds
<1>5. Collecting'
  BY DEF SupInv, Collecting
<1> QED BY <1>1, <1>2, <1>3, <1>4, <1>5 DEF SupInv

\* A signal ends live members, and meets nobody else.
LEMMA SignalKeeps ==
  ASSUME SupInv, pc \in {"term", "kill"}, NEW dies \in SUBSET Live, Signal(dies)
  PROVE  /\ child' \in {child, "zombie"} /\ (child = "none" <=> child' = "none")
         /\ child # "reaped" /\ child' # "reaped"
         /\ kin' \in {kin, "zombie"} /\ (kin' = "none" <=> kin = "none")
         /\ lifecycle_error' \in BOOLEAN /\ disturbed' \in BOOLEAN
         /\ ~misfired' /\ ~stranger
         /\ Holds' => Holds
         /\ child = "zombie" => child' = "zombie" /\ disturbed' = disturbed
BY DEF SupInv, TypeOK, Reaping, Signal, Live, Holds, Before, Polling, Ending

LEMMA SupInitInv == Init => SupInv
<1> SUFFICES ASSUME Init PROVE SupInv
  OBVIOUS
<1>1. TypeOK
  <2>1. written \in [Streams -> Nat] /\ pipe = written /\ captured = written
    BY DEF Init
  <2>2. /\ truncated \in [Streams -> BOOLEAN]
        /\ reader \in [Streams -> {"reading", "complete", "failed"}]
    BY DEF Init
  <2>3. got \in Seq(Got) /\ pc \in Before
    BY DEF Init, Before
  <2> QED BY <2>1, <2>2, <2>3 DEF Init, TypeOK
<1>2. Reaping /\ Reasons
  BY DEF Init, Reaping, Reasons, Before, Polling, Ending
<1>3. Streaming
  BY LimitsAssumption DEF Init, Streaming, Streams
<1>4. Collecting
  BY DEF Init, Collecting
<1> QED BY <1>1, <1>2, <1>3, <1>4 DEF SupInv

\* Output reaches the pipe, and the reader: what is kept and what is in the pipe
\* stay all that was written, until something is cut off.
LEMMA WriteKeeps ==
  ASSUME SupInv, NEW s \in Streams, Write(s)
  PROVE  SupInv'
<1> USE DEF Write, threads, supervisor, history
<1>1. /\ written' = [written EXCEPT ![s] = @ + 1] /\ written' \in [Streams -> Nat]
      /\ pipe' = [pipe EXCEPT ![s] = @ + 1] /\ pipe' \in [Streams -> Nat]
  BY DEF SupInv, TypeOK
<1>2. TypeOK'
  BY <1>1 DEF SupInv, TypeOK
<1>3. Reaping' /\ Reasons' /\ Collecting'
  BY ReapingFrame, ReasonsFrame, CollectingFrame DEF SupInv
<1>4. Streaming'
  BY <1>1 DEF SupInv, TypeOK, Streaming, Holds
<1> QED BY <1>2, <1>3, <1>4 DEF SupInv

LEMMA ReadKeeps ==
  ASSUME SupInv, NEW s \in Streams, Read(s)
  PROVE  SupInv'
<1> USE DEF Read, supervisor, history
<1> DEFINE room == CaptureLimit - captured[s]
           retained(read) == IF read < room THEN read ELSE room
<1>1. PICK read \in 1..pipe[s] :
        /\ pipe' = [pipe EXCEPT ![s] = @ - read]
        /\ captured' = [captured EXCEPT ![s] = @ + retained(read)]
        /\ truncated' = [truncated EXCEPT ![s] = @ \/ retained(read) # read]
  OBVIOUS
<1>r. /\ retained(read) \in Nat /\ retained(read) <= read
      /\ captured[s] + retained(read) <= CaptureLimit
  BY LimitsAssumption DEF SupInv, TypeOK, Streaming
<1> HIDE DEF retained
<1>2. /\ pipe' \in [Streams -> Nat] /\ captured' \in [Streams -> Nat]
      /\ truncated' \in [Streams -> BOOLEAN]
  BY <1>1, <1>r DEF SupInv, TypeOK
<1>3. TypeOK'
  BY <1>2 DEF SupInv, TypeOK
<1>4. Reaping' /\ Reasons' /\ Collecting'
  BY ReapingFrame, ReasonsFrame, CollectingFrame DEF SupInv
<1>5. Streaming'
  <2>1. ASSUME NEW t \in Streams PROVE captured'[t] <= CaptureLimit
    BY <1>1, <1>r DEF SupInv, TypeOK, Streaming
  <2>2. ASSUME NEW t \in Streams, t > Len(got), ~truncated'[t]
        PROVE  captured'[t] + pipe'[t] = written[t]
    <3>1. ~truncated[t] /\ (t = s => retained(read) = read)
      BY <1>1, <2>2, Zenon DEF SupInv, TypeOK
    <3> QED BY <1>1, <2>2, <3>1 DEF SupInv, TypeOK, Streaming
  <2>3. ASSUME NEW t \in Streams, reader[t] = "complete" PROVE pipe'[t] = 0
    BY <1>1, <2>3 DEF SupInv, TypeOK, Streaming
  <2> QED BY <2>1, <2>2, <2>3 DEF SupInv, Streaming, Holds
<1> QED BY <1>3, <1>4, <1>5 DEF SupInv

LEMMA ReadEndsKeeps ==
  ASSUME SupInv, NEW s \in Streams, ReadEnds(s)
  PROVE  SupInv'
<1> USE DEF ReadEnds, command, supervisor, history
<1>0. reader' \in [Streams -> {"reading", "complete", "failed"}]
  BY DEF SupInv, TypeOK
<1>1. TypeOK'
  BY <1>0 DEF SupInv, TypeOK
<1>2. Reaping' /\ Reasons' /\ Collecting'
  BY ReapingFrame, ReasonsFrame, CollectingFrame DEF SupInv
<1>3. Streaming'
  BY DEF SupInv, TypeOK, Streaming, Holds
<1> QED BY <1>1, <1>2, <1>3 DEF SupInv

-----------------------------------------------------------------------------
LEMMA SupStepInv == SupInv /\ [Next]_vars => SupInv'
<1> SUFFICES ASSUME SupInv, [Next]_vars PROVE SupInv'
  OBVIOUS
<1> USE DEF command, threads, supervisor, history
<1>1. CASE UNCHANGED vars
  <2>1. TypeOK'
    BY <1>1 DEF vars, SupInv, TypeOK
  <2> QED BY <1>1, <2>1, ReapingFrame, ReasonsFrame, StreamingFrame, CollectingFrame
          DEF vars, SupInv, Holds
<1>2. ASSUME NEW s \in Streams, Write(s) PROVE SupInv'
  BY <1>2, WriteKeeps
<1>3. CASE Exit
  <2>1. TypeOK' /\ Reaping'
    BY <1>3 DEF Exit, SupInv, TypeOK, Reaping
  <2>2. Reasons'
    BY <1>3 DEF Exit, SupInv, Reasons
  <2>3. Streaming' /\ Collecting'
    BY <1>3, StreamingFrame, CollectingFrame DEF Exit, SupInv, Holds
  <2> QED BY <2>1, <2>2, <2>3 DEF SupInv
<1>4. CASE KinStep
  <2>1. TypeOK' /\ Reaping'
    BY <1>4 DEF KinStep, SupInv, TypeOK, Reaping
  <2>2. Reasons' /\ Streaming' /\ Collecting'
    BY <1>4, ReasonsFrame, StreamingFrame, CollectingFrame DEF KinStep, SupInv, Holds
  <2> QED BY <2>1, <2>2 DEF SupInv
<1>5. CASE ReusePid \/ Cancel \/ Late
  <2>1. TypeOK'
    <3>1. stranger' \in BOOLEAN /\ cancelled' \in BOOLEAN /\ late' \in BOOLEAN
      BY <1>5 DEF ReusePid, Cancel, Late, SupInv, TypeOK
    <3> QED BY <1>5, <3>1 DEF ReusePid, Cancel, Late, SupInv, TypeOK
  <2>2. Reaping'
    BY <1>5 DEF ReusePid, Cancel, Late, SupInv, Reaping
  <2>3. Reasons' /\ Streaming' /\ Collecting'
    BY <1>5, ReasonsFrame, StreamingFrame, CollectingFrame
       DEF ReusePid, Cancel, Late, SupInv, Holds
  <2> QED BY <2>1, <2>2, <2>3 DEF SupInv
<1>6. ASSUME NEW s \in Streams, Read(s) PROVE SupInv'
  BY <1>6, ReadKeeps
<1>7. ASSUME NEW s \in Streams, ReadEnds(s) PROVE SupInv'
  BY <1>7, ReadEndsKeeps
<1>8. CASE Observe
  <2>1. TypeOK'
    BY <1>8 DEF Observe, SupInv, TypeOK
  <2>2. Reaping' /\ Reasons' /\ Streaming' /\ Collecting'
    BY <1>8, ReapingFrame, ReasonsFrame, StreamingFrame, CollectingFrame
       DEF Observe, SupInv, Holds
  <2> QED BY <2>1, <2>2 DEF SupInv
<1>9. CASE Start
  <2>1. TypeOK'
    BY <1>9 DEF Start, SupInv, TypeOK, Before, Polling
  <2>2. Reaping' /\ Reasons'
    BY <1>9 DEF Start, SupInv, Reaping, Reasons, Collecting, Before, Polling, Ending
  <2>3. got = << >>
    BY <1>9 DEF Start, SupInv, Collecting, Before
  <2>4. Streaming'
    BY <1>9, <2>3 DEF Start, SupInv, Streaming, Streams
  <2>5. Collecting'
    BY <1>9, <2>3 DEF Start, SupInv, Collecting, Before, Polling
  <2> QED BY <2>1, <2>2, <2>4, <2>5 DEF SupInv
<1>10. CASE SpawnFails
  <2>1. TypeOK' /\ Reaping' /\ Reasons'
    BY <1>10 DEF SpawnFails, SupInv, TypeOK, Reaping, Reasons, Collecting, Before, Polling, Ending
  <2>2. Streaming' /\ Collecting'
    BY <1>10, StreamingFrame DEF SpawnFails, SupInv, Collecting, Before, Polling, Holds
  <2> QED BY <2>1, <2>2 DEF SupInv
<1>11. CASE PollCancelled \/ PollLimit \/ PollDeadline
  <2>1. /\ pc \in Polling /\ PollOnly /\ completion' \in {completion, "empty"}
        /\ \/ pc' \in Polling /\ reason' = reason
           \/ pc' = "term" /\ reason' \in {"cancelled", "limit", "monitor", "timeout"}
        /\ reason' = "cancelled" => cancelled
        /\ reason' = "timeout" => late
    BY <1>11 DEF PollCancelled, PollLimit, PollDeadline, Goes, Polling, SupInv, Reasons, Before
  <2> QED BY <2>1, PollKeeps
<1>12. CASE PollExit
  <2>1. /\ pc \in Polling /\ PollOnly /\ completion' \in {completion, "empty"}
        /\ reason' # "cancelled" /\ reason' # "timeout"
    BY <1>12 DEF PollExit, Goes, Polling, SupInv, Reasons, Before
  <2>2. completion = "exited" => child = "zombie"
    BY <1>12 DEF PollExit, SupInv, Reasons, Reaping
  <2>3. \/ pc' \in Polling /\ reason' = reason
        \/ pc' = "term" /\ reason' \in {"cancelled", "limit", "monitor", "timeout"}
        \/ pc' = "kill" /\ reason' = "exited" /\ child = "zombie"
    BY <1>12, <2>2 DEF PollExit, Goes, Polling
  <2> QED BY <2>1, <2>3, PollKeeps
<1>13. CASE Terminate
  <2>1. PICK dies \in SUBSET Live : Signal(dies)
    BY <1>13 DEF Terminate
  <2>2. TypeOK'
    <3>1. /\ child' \in {child, "zombie"} /\ kin' \in {kin, "zombie"}
          /\ lifecycle_error' \in BOOLEAN /\ disturbed' \in BOOLEAN /\ ~misfired'
          /\ pc' \in {"kill", "observe", "reap"}
      BY <1>13, <2>1, SignalKeeps DEF Terminate, SupInv, TypeOK
    <3>2. misfired' \in BOOLEAN
      BY <2>1, <3>1 DEF Signal, SupInv, TypeOK
    <3>3. UNCHANGED <<written, pipe, stranger, threads, cancelled, late, reason, got>>
      BY <1>13 DEF Terminate
    <3> QED BY <3>1, <3>2, <3>3 DEF SupInv, TypeOK, Ending
  <2>3. Reaping' /\ Reasons'
    BY <1>13, <2>1, SignalKeeps
       DEF Terminate, SupInv, TypeOK, Reaping, Reasons, Collecting, Before, Polling, Ending
  <2>4. Streaming' /\ Collecting'
    BY <1>13, <2>1, SignalKeeps, StreamingFrame DEF Terminate, SupInv, Collecting, Before, Polling
  <2> QED BY <2>2, <2>3, <2>4 DEF SupInv
<1>14. CASE Kill
  <2>1. Signal(Live) /\ child' # "running" /\ kin' # "group"
    BY <1>14 DEF Kill, Signal, Live
  <2>2. TypeOK'
    <3>1. /\ child' \in {child, "zombie"} /\ kin' \in {kin, "zombie"}
          /\ lifecycle_error' \in BOOLEAN /\ disturbed' \in BOOLEAN /\ ~misfired'
          /\ pc' \in {"kill", "observe", "reap"}
      BY <1>14, <2>1, SignalKeeps DEF Kill, SupInv, TypeOK
    <3>2. misfired' \in BOOLEAN
      BY <2>1, <3>1 DEF Signal, SupInv, TypeOK
    <3>3. UNCHANGED <<written, pipe, stranger, threads, cancelled, late, reason, got>>
      BY <1>14 DEF Kill
    <3> QED BY <3>1, <3>2, <3>3 DEF SupInv, TypeOK, Ending
  <2>3. Reaping' /\ Reasons'
    BY <1>14, <2>1, SignalKeeps
       DEF Kill, SupInv, TypeOK, Reaping, Reasons, Collecting, Before, Polling, Ending
  <2>4. Streaming' /\ Collecting'
    BY <1>14, <2>1, SignalKeeps, StreamingFrame DEF Kill, SupInv, Collecting, Before, Polling
  <2> QED BY <2>2, <2>3, <2>4 DEF SupInv
<1>15. CASE AwaitExit
  <2>1. TypeOK'
    <3>1. lifecycle_error' \in BOOLEAN
      BY <1>15 DEF AwaitExit, SupInv, TypeOK
    <3> QED BY <1>15, <3>1 DEF AwaitExit, SupInv, TypeOK, Ending
  <2>2. Reaping' /\ Reasons'
    BY <1>15 DEF AwaitExit, SupInv, Reaping, Reasons, Collecting, Before, Polling, Ending
  <2>3. Streaming' /\ Collecting'
    BY <1>15, StreamingFrame DEF AwaitExit, SupInv, Collecting, Before, Polling, Holds
  <2> QED BY <2>1, <2>2, <2>3 DEF SupInv
<1>16. CASE Reap
  <2>1. CASE child \in {"zombie", "reaped"} /\ child' = "reaped" /\ pc' = "verify"
             /\ UNCHANGED lifecycle_error
    <3>1. TypeOK'
      BY <1>16, <2>1 DEF Reap, SupInv, TypeOK, Ending
    <3>2. Reaping'
      BY <1>16, <2>1 DEF Reap, SupInv, Reaping, Collecting, Ending
    <3>3. Reasons'
      BY <1>16, <2>1 DEF Reap, SupInv, Reasons, Before, Polling
    <3>4. Streaming' /\ Collecting'
      BY <1>16, <2>1, StreamingFrame DEF Reap, SupInv, Collecting, Before, Polling, Holds
    <3> QED BY <3>1, <3>2, <3>3, <3>4 DEF SupInv
  <2>2. CASE MayFail /\ lifecycle_error' = TRUE /\ pc' = "collect" /\ UNCHANGED child
    <3>1. TypeOK'
      BY <1>16, <2>2 DEF Reap, SupInv, TypeOK, Ending
    <3>2. Reaping'
      BY <1>16, <2>2 DEF Reap, SupInv, Reaping, Collecting, Ending
    <3>3. Reasons'
      BY <1>16, <2>2 DEF Reap, SupInv, Reasons, Before, Polling
    <3>4. Streaming' /\ Collecting'
      BY <1>16, <2>2, StreamingFrame DEF Reap, SupInv, Collecting, Before, Polling, Holds
    <3> QED BY <3>1, <3>2, <3>3, <3>4 DEF SupInv
  <2> QED BY <1>16, <2>1, <2>2 DEF Reap
<1>17. CASE VerifyGroupCleanup
  <2>1. TypeOK' /\ Reaping' /\ Reasons'
    BY <1>17 DEF VerifyGroupCleanup, SupInv, TypeOK, Reaping, Reasons, Before, Polling, Ending
  <2>2. Streaming' /\ Collecting'
    BY <1>17, StreamingFrame DEF VerifyGroupCleanup, SupInv, Collecting, Before, Polling, Holds
  <2> QED BY <2>1, <2>2 DEF SupInv
<1>18. CASE Collect
  <2>1. TypeOK' /\ Reaping' /\ Reasons'
    BY <1>18 DEF Collect, SupInv, TypeOK, Reaping, Reasons, Collecting, Got, Streams,
                 Before, Polling, Ending
  <2>2. Streaming'
    BY <1>18, LimitsAssumption DEF Collect, SupInv, TypeOK, Streaming, Collecting, Holds, Streams, Got
  <2>3. Collecting'
    BY <1>18 DEF Collect, SupInv, TypeOK, Collecting, Before, Polling, Got
  <2> QED BY <2>1, <2>2, <2>3 DEF SupInv
<1>19. CASE Return
  <2>1. TypeOK' /\ Reasons'
    BY <1>19 DEF Return, Outcome, SupInv, TypeOK, Reaping, Reasons, Collecting,
                 Before, Polling, Ending
  <2>4. Reaping'
    <3>1. lifecycle_error => result' = "monitor"
      BY <1>19 DEF Return, Outcome
    <3>2. result' # "spawn" /\ result = "none"
      BY <1>19 DEF Return, Outcome, SupInv, TypeOK, Reasons, Collecting, Before, Polling
    <3> QED BY <1>19, <3>1, <3>2 DEF Return, SupInv, Reaping, Ending
  <2>2. Streaming'
    BY <1>19, StreamingFrame DEF Return, SupInv, Holds
  <2>3. Collecting'
    BY <1>19 DEF Return, Outcome, Complete, Whole, SupInv, TypeOK, Reasons, Collecting,
                 Before, Polling
  <2> QED BY <2>1, <2>2, <2>3, <2>4 DEF SupInv
<1> QED
  BY <1>1, <1>2, <1>3, <1>4, <1>5, <1>6, <1>7, <1>8, <1>9, <1>10, <1>11, <1>12, <1>13,
     <1>14, <1>15, <1>16, <1>17, <1>18, <1>19
     DEF Next, Environment, Thread, Poll, Supervise

-----------------------------------------------------------------------------
LEMMA SupAlways == Spec => []SupInv
BY SupInitInv, SupStepInv, PTL DEF Spec

\* The caller of run_with_limits is told what happened: Ok comes with all that
\* was written and no writer left, a timeout and a cancellation had been there.
THEOREM OutcomesAreHonest == Spec => []OutcomeIsHonest
<1>1. SupInv => OutcomeIsHonest
  BY DEF SupInv, Reasons, Streaming, Collecting, OutcomeIsHonest, Streams
<1> QED BY <1>1, SupAlways, PTL

\* No member of the child's group runs when run_with_limits returns, whatever
\* reason it returns for, and the child is reaped unless the wait for it failed
\* and the caller is told so (terminate_and_reap).
THEOREM GroupIsGone == Spec => []NothingLeftBehind
<1>1. SupInv => NothingLeftBehind
  BY DEF SupInv, Reaping, Collecting, NothingLeftBehind, Ending
<1> QED BY <1>1, SupAlways, PTL

\* No signal of the supervisor meets a group that took over the process id.
THEOREM SignalsMeetTheGroup == Spec => []NeverMisfires
<1>1. SupInv => NeverMisfires
  BY DEF SupInv, Reaping, NeverMisfires
<1> QED BY <1>1, SupAlways, PTL
=============================================================================
