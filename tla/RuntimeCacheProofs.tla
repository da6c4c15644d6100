------------------------- MODULE RuntimeCacheProofs -------------------------
(***************************************************************************)
(* A link, for any number of compilers, outputs, faults and deaths: first  *)
(* the output transaction, then the runtime that a link looks for before   *)
(* it.                                                                     *)
(*                                                                         *)
(* Both promises of the transaction are about what a destination holds at  *)
(* the end; what makes them true is, for each output, how far its process  *)
(* has come with it, what the backup beside it holds, and that nothing     *)
(* else has touched it while no other process has published.  OutInv says  *)
(* so, and every step of a process keeps it.                               *)
(*                                                                         *)
(* RuntimeUsable is not inductive: what is moved into place must be known  *)
(* to be prepared, and OnlyFaultsRefuse needs that the entry only ever     *)
(* changes into the prepared library.  The steps of the cache do not see   *)
(* OutInv, and without the runtime nothing has been prepared (Waiting), so *)
(* the promises of the transaction hold for every link.                    *)
(***************************************************************************)
EXTENDS RuntimeCache, TLAPS

\* Most leaves are first-order; Zenon is tried first, briefly, and SMT then.
USE ZenonT(2), SMT

Phases == {"prepare", "validate", "backup", "publish", "commit", "unpublish", "restore",
           "drop", "ok", "err", "crashed"}
RollbackPhases == {"unpublish", "restore"}
Transacting == {"backup", "publish", "commit"} \cup RollbackPhases

OutTypes ==
  /\ path \in [Outputs -> Paths]
  /\ file \in [Paths -> {None, Old, Dir} \cup Processes]
  /\ prior \in [Paths -> {None, Old, Dir}]
  /\ staging \in [Processes -> [Outputs -> {None, Empty} \cup Processes]]
  /\ backup \in [Processes -> [Outputs -> {None, Old} \cup Processes]]
  /\ dir \in [Processes -> [Outputs -> BOOLEAN]]
  /\ backed_up \in [Processes -> [Outputs -> BOOLEAN]]
  /\ published \in [Processes -> [Outputs -> BOOLEAN]]
  /\ at \in [Processes -> Outputs]
  /\ pc \in [Processes -> Phases]
  /\ failed \in [Processes -> BOOLEAN]

Directories == \A x \in Paths : prior[x] = Dir <=> file[x] = Dir

\* Each output has a destination of its own, where there is no directory.
Apart == \A j \in Outputs : prior[path[j]] # Dir /\ \A k \in Outputs : path[j] = path[k] => j = k

\* How far process p has come with each of its outputs.
Staged(p) ==
  /\ pc[p] \in Transacting => Apart
  /\ pc[p] = "prepare" =>
       \A j \in Outputs : j >= at[p] => staging[p][j] = None /\ ~dir[p][j]
  /\ pc[p] \in {"prepare", "validate", "backup", "publish"} =>
       \A j \in Outputs : staging[p][j] \in {None, p}
  /\ pc[p] \in {"prepare", "validate"} =>
       \A j \in Outputs : ~published[p][j] /\ ~backed_up[p][j]
  /\ pc[p] = "backup" => \A j \in Outputs : ~published[p][j] /\ (backed_up[p][j] => j < at[p])
  /\ pc[p] = "publish" => \A j \in Outputs : published[p][j] <=> j < at[p]
  /\ pc[p] \in {"commit", "ok"} => \A j \in Outputs : published[p][j]
  /\ \A j \in Outputs : published[p][j] => staging[p][j] = None
  /\ \A j \in Outputs : backup[p][j] # None => backed_up[p][j]
  /\ pc[p] \in {"backup", "publish"} =>
       \A j \in Outputs : backed_up[p][j] => backup[p][j] # None
  /\ pc[p] \in RollbackPhases =>
       \A j \in Outputs : j <= at[p] /\ backed_up[p][j] => backup[p][j] # None

\* What has been removed, as long as no removal of the process failed.
Swept(p) == ~failed[p] =>
  \A j \in Outputs :
    /\ pc[p] \in RollbackPhases /\ j > at[p] => backup[p][j] = None
    /\ pc[p] \in {"drop", "err", "ok"} => backup[p][j] = None
    /\ pc[p] = "commit" /\ j < at[p] => backup[p][j] = None /\ ~dir[p][j]
    /\ pc[p] = "drop" /\ j < at[p] => staging[p][j] = None /\ ~dir[p][j]
    /\ pc[p] \in {"err", "ok"} => staging[p][j] = None /\ ~dir[p][j]

\* A destination to which p has published nothing is as it was.
Elsewhere(p, x) ==
  (\A j \in Outputs : path[j] = x => ~published[p][j]) => file[x] = prior[x]

\* A backup holds what the destination of output j held, and one was made when
\* the destination held something.
Kept(p, j) ==
  /\ backup[p][j] # None => backup[p][j] = prior[path[j]]
  /\ published[p][j] \/ (pc[p] = "backup" /\ j < at[p]) \/ pc[p] = "publish" =>
       (backed_up[p][j] <=> prior[path[j]] # None)

\* The rollback is past output j, or has not come to it.
Rolled(p, j) == pc[p] \in {"drop", "err"} \/ (pc[p] \in RollbackPhases /\ j > at[p])
Unrolled(p, j) ==
  \/ pc[p] \in {"publish", "commit", "ok"}
  \/ pc[p] = "unpublish" /\ j <= at[p]
  \/ pc[p] = "restore" /\ j < at[p]

\* What the destination of a published output holds.
Landed(p, j) == published[p][j] =>
  /\ Unrolled(p, j) => file[path[j]] = p
  /\ pc[p] = "restore" /\ j = at[p] =>
       file[path[j]] \in {None, p} /\ (~failed[p] => file[path[j]] = None)
  /\ Rolled(p, j) /\ ~failed[p] => file[path[j]] = prior[path[j]]
  /\ backed_up[p][j] /\ (Rolled(p, j) \/ pc[p] = "crashed") =>
       \/ file[path[j]] = prior[path[j]] \/ backup[p][j] = prior[path[j]]
       \/ pc[p] = "crashed" /\ \A k \in Outputs : published[p][k]

\* What p knows of the destinations while it is the only one to publish.
Intact(p) ==
  (\A x \in Paths : Elsewhere(p, x)) /\ (\A j \in Outputs : Kept(p, j) /\ Landed(p, j))

Own(p) == Staged(p) /\ Swept(p) /\ (Alone(p) => Intact(p))

OutInv == OutTypes /\ Directories /\ \A p \in Processes : Own(p)

-----------------------------------------------------------------------------
\* One entry of one process' row is set.
Sets(f, g, p, i, v) == g[p][i] = v /\ \A j \in Outputs \ {i} : g[p][j] = f[p][j]

\* Where Goto and Advance lead.
Leads == pc' \in [Processes -> Phases] /\ at' \in [Processes -> Outputs]
Onward(p, here, next) ==
  \/ at[p] < Count /\ pc'[p] = here /\ at'[p] = at[p] + 1
  \/ at[p] = Count /\ pc'[p] = next /\ at'[p] = 1

\* Outputs are numbers.
LEMMA OutputsOrdered ==
  \A j, k \in Outputs :
    /\ j <= j /\ ~(j < j) /\ ~(j > j) /\ ~(j < 1)
    /\ j <= k <=> j < k \/ j = k
    /\ j # k /\ j >= k => j > k
BY SMT DEF Outputs

LEMMA FirstOutput == 1 \in Outputs
BY OutputsAssumption, SMT DEF Outputs

LEMMA Going ==
  ASSUME OutTypes, NEW p \in Processes, NEW l \in Phases, NEW i \in Outputs, Goto(p, l, i)
  PROVE  Leads /\ pc'[p] = l /\ at'[p] = i
BY DEF Goto, OutTypes, Leads

LEMMA Advancing ==
  ASSUME OutTypes, NEW p \in Processes, NEW next \in Phases, Advance(p, next, 1)
  PROVE  Leads /\ Onward(p, pc[p], next)
BY OutputsAssumption, Going, SMT DEF Advance, OutTypes, Outputs, Onward

\* A step of p touches its own rows only, and a file only to publish or after
\* it has published.
LEMMA OwnRows ==
  ASSUME OutTypes, NEW p \in Processes, Step(p) \/ Vanish(p) \/ Crash(p)
  PROVE  /\ UNCHANGED <<path, prior>>
         /\ \A q \in Processes \ {p} :
              /\ staging'[q] = staging[q] /\ dir'[q] = dir[q] /\ backup'[q] = backup[q]
              /\ backed_up'[q] = backed_up[q] /\ published'[q] = published[q]
              /\ at'[q] = at[q] /\ pc'[q] = pc[q] /\ failed'[q] = failed[q]
         /\ file' = file \/ \E i \in Outputs : published'[p][i]
         /\ \A i \in Outputs : published[p][i] => published'[p][i]
<1> USE DEF flags, Goto, Advance, OutTypes
<1>1. CASE Prepare(p) \/ PrepareFails(p) \/ Vanish(p) \/ Validate(p)
  <2>1. CASE Prepare(p) \/ PrepareFails(p)
    BY <2>1, SMT DEF Prepare, PrepareFails
  <2>2. CASE Vanish(p) \/ Validate(p)
    BY <2>2, SMT DEF Vanish, Validate
  <2> QED BY <1>1, <2>1, <2>2
<1>2. CASE Backup(p) \/ BackupFails(p) \/ PublishFails(p)
  BY <1>2, SMT DEF Backup, BackupFails, PublishFails
<1>3. CASE Publish(p)
  BY <1>3 DEF Publish
<1>4. CASE Commit(p)
  BY <1>4, SMT DEF Commit
<1>5. CASE Drop(p) \/ Crash(p)
  BY <1>5, SMT DEF Drop, Crash
<1>6. CASE Unpublish(p) \/ Restore(p)
  BY <1>6, SMT DEF Unpublish, Restore
<1> QED BY <1>1, <1>2, <1>3, <1>4, <1>5, <1>6 DEF Step

\* A process whose rows are left alone keeps its part of the invariant, if the
\* files are left alone too while it is the only one to publish.
LEMMA Others ==
  ASSUME NEW p \in Processes, Own(p), UNCHANGED <<path, prior>>,
         staging'[p] = staging[p], dir'[p] = dir[p], backup'[p] = backup[p],
         backed_up'[p] = backed_up[p], published'[p] = published[p],
         at'[p] = at[p], pc'[p] = pc[p], failed'[p] = failed[p],
         Alone(p)' => Alone(p) /\ file' = file
  PROVE  Own(p)'
<1>1. Staged(p)' /\ Swept(p)'
  BY SMT DEF Own, Staged, Swept, Apart
<1>2. Alone(p)' => Intact(p)'
  BY SMT DEF Own, Intact, Elsewhere, Kept, Landed, Rolled, Unrolled
<1> QED BY <1>1, <1>2 DEF Own

\* A step that publishes or rolls back only touches files that are no
\* directory, and puts none.
LEMMA DirectoriesKept ==
  ASSUME OutTypes, Directories, NEW p \in Processes, Staged(p), Step(p) \/ Vanish(p) \/ Crash(p)
  PROVE  Directories'
<1>1. CASE UNCHANGED <<prior, file>>
  BY <1>1 DEF Directories
<1>2. CASE /\ UNCHANGED prior /\ pc[p] \in Transacting
           /\ \E i \in Outputs, v \in {None, Old} \cup Processes :
                file' = [file EXCEPT ![path[i]] = v]
  BY <1>2, ContentsDistinct, SMT DEF Directories, OutTypes, Staged, Apart
<1>3. CASE Publish(p) \/ Unpublish(p) \/ Restore(p)
  <2>1. at[p] \in Outputs /\ backup[p][at[p]] \in {None, Old} \cup Processes
    BY SMT DEF OutTypes
  <2>2. Publish(p) => staging[p][at[p]] = p
    BY <2>1 DEF Publish, Staged
  <2> QED BY <1>1, <1>2, <1>3, <2>1, <2>2, SMT
          DEF Publish, Unpublish, Restore, Transacting, RollbackPhases
<1> QED
  BY <1>1, <1>3 DEF Step, Prepare, PrepareFails, Vanish, Validate, Backup, BackupFails,
                    PublishFails, Commit, Drop, Crash

-----------------------------------------------------------------------------
(* One lemma per step: what process p knows, and the types.                 *)

Keeps(p) == OutTypes' /\ Staged(p)' /\ Swept(p)' /\ (Intact(p) => Intact(p)')

\* A step that leaves the files, the backups and the flags alone.
LEMMA Quiet ==
  ASSUME OutTypes, NEW p \in Processes, Intact(p),
         UNCHANGED <<path, prior, file, backup, backed_up, published>>,
         failed[p] => failed'[p],
         pc'[p] \notin {"restore", "crashed"},
         pc'[p] = "publish" => pc[p] = "publish",
         pc'[p] = "backup" => at'[p] = 1 \/ (pc[p] = "backup" /\ at'[p] = at[p]),
         \A j \in Outputs : published[p][j] =>
           (Unrolled(p, j)' => Unrolled(p, j)) /\ (Rolled(p, j)' => Rolled(p, j))
  PROVE  Intact(p)'
<1>1. ASSUME NEW x \in Paths, Elsewhere(p, x) PROVE Elsewhere(p, x)'
  BY <1>1 DEF Elsewhere
<1>2. ASSUME NEW j \in Outputs, Kept(p, j) PROVE Kept(p, j)'
  BY <1>2, SMT DEF Kept, Outputs
<1>3. ASSUME NEW j \in Outputs, Landed(p, j), published[p][j]
      PROVE  /\ Unrolled(p, j)' => file[path[j]] = p
             /\ Rolled(p, j)' /\ ~failed'[p] => file[path[j]] = prior[path[j]]
             /\ backed_up[p][j] /\ Rolled(p, j)' =>
                  file[path[j]] = prior[path[j]] \/ backup[p][j] = prior[path[j]]
  <2>1. Rolled(p, j)' => pc[p] # "crashed"
    BY <1>3 DEF Rolled, RollbackPhases
  <2> QED BY <1>3, <2>1 DEF Landed
<1> QED BY <1>1, <1>2, <1>3 DEF Intact, Landed

LEMMA PrepareKeeps ==
  ASSUME NEW p \in Processes, OutTypes, Staged(p), Prepare(p)
  PROVE  Keeps(p)
<1> DEFINE i == at[p]
<1>1. PICK made \in {None, Empty, p} :
        /\ staging' = [staging EXCEPT ![p][i] = made]
        /\ IF made = p THEN Advance(p, "validate", 1) ELSE Goto(p, "drop", 1)
  BY DEF Prepare
<1>2. /\ pc[p] = "prepare" /\ i \in Outputs /\ Leads
      /\ \/ made = p /\ Onward(p, "prepare", "validate")
         \/ pc'[p] = "drop" /\ at'[p] = 1
      /\ UNCHANGED <<path, file, prior, backup, backed_up, published, failed>>
  <2>1. /\ pc[p] = "prepare" /\ i \in Outputs
        /\ UNCHANGED <<path, file, prior, backup, backed_up, published, failed>>
    BY DEF Prepare, flags, OutTypes
  <2>2. made = p => Advance(p, "validate", 1)
    BY <1>1
  <2>3. made = p => Leads /\ Onward(p, pc[p], "validate")
    BY <2>2, Advancing DEF Phases
  <2>4. made # p => Leads /\ pc'[p] = "drop" /\ at'[p] = 1
    BY <1>1, Going, FirstOutput DEF Phases
  <2> QED BY <2>1, <2>3, <2>4
<1>3. /\ staging' \in [Processes -> [Outputs -> {None, Empty} \cup Processes]]
      /\ Sets(staging, staging', p, i, made)
      /\ dir' \in [Processes -> [Outputs -> BOOLEAN]]
      /\ Sets(dir, dir', p, i, TRUE)
  BY <1>1, SMT DEF Prepare, Sets, OutTypes
<1>4. OutTypes'
  BY <1>2, <1>3 DEF OutTypes, Leads
<1>5. \A j \in Outputs : ~published[p][j] /\ ~backed_up[p][j] /\ backup[p][j] = None
  BY <1>2 DEF Staged
<1>6. Staged(p)'
  BY <1>2, <1>3, <1>5, SMT DEF Sets, Onward, Staged, Transacting, RollbackPhases, Outputs
<1>7. Swept(p)'
  BY <1>2, <1>3, <1>5, SMT DEF Sets, Onward, Swept, RollbackPhases, Outputs
<1>8. Intact(p) => Intact(p)'
  BY <1>2, <1>5, Quiet DEF Onward
<1> QED BY <1>4, <1>6, <1>7, <1>8 DEF Keeps

LEMMA PrepareFailsKeeps ==
  ASSUME NEW p \in Processes, OutTypes, Staged(p), PrepareFails(p)
  PROVE  Keeps(p)
<1>1. /\ pc[p] = "prepare" /\ Leads /\ pc'[p] = "drop" /\ at'[p] = 1
      /\ UNCHANGED <<path, file, prior, staging, dir, backup, backed_up, published, failed>>
  BY Going, FirstOutput DEF PrepareFails, flags, Phases
<1>2. OutTypes'
  BY <1>1 DEF OutTypes, Leads
<1>3. Staged(p)' /\ Swept(p)'
  <2>1. \A j \in Outputs : ~(j < 1)
    BY OutputsOrdered
  <2> QED BY <1>1, <2>1, Zenon DEF Staged, Swept, Transacting, RollbackPhases
<1>4. Intact(p) => Intact(p)'
  BY <1>1, Quiet DEF Staged
<1> QED BY <1>2, <1>3, <1>4 DEF Keeps

LEMMA VanishKeeps ==
  ASSUME NEW p \in Processes, OutTypes, Staged(p), Swept(p), Vanish(p)
  PROVE  Keeps(p)
<1>1. PICK i \in Outputs : staging' = [staging EXCEPT ![p][i] = None]
  BY DEF Vanish
<1>2. /\ staging' \in [Processes -> [Outputs -> {None, Empty} \cup Processes]]
      /\ \A j \in Outputs : staging'[p][j] \in {None, staging[p][j]}
  BY <1>1 DEF OutTypes
<1>3. /\ pc[p] \in {"validate", "backup", "publish"}
      /\ UNCHANGED <<path, file, prior, dir, backup, backed_up, published, at, pc, failed>>
  BY DEF Vanish, flags
<1>4. OutTypes'
  BY <1>2, <1>3 DEF OutTypes
<1>5. Staged(p)' /\ Swept(p)'
  <2>1. Staged(p)'
    BY <1>2, <1>3, SMT DEF Staged, Apart, RollbackPhases
  <2>2. Swept(p)'
    BY <1>2, <1>3, SMT DEF Swept, RollbackPhases
  <2> QED BY <2>1, <2>2
<1>6. Intact(p) => Intact(p)'
  BY <1>3, Quiet DEF Rolled, Unrolled
<1> QED BY <1>4, <1>5, <1>6 DEF Keeps

LEMMA ValidateKeeps ==
  ASSUME NEW p \in Processes, OutTypes, Directories, Staged(p), Swept(p), Validate(p)
  PROVE  Keeps(p)
<1>1. /\ pc[p] = "validate" /\ Leads /\ at'[p] = 1
      /\ \/ pc'[p] = "backup" /\ Publishable(p)
         \/ pc'[p] = "drop"
      /\ UNCHANGED <<path, file, prior, staging, dir, backup, backed_up, published, failed>>
  <2>1. Goto(p, "backup", 1) => Leads /\ pc'[p] = "backup" /\ at'[p] = 1
    BY Going, FirstOutput DEF Phases
  <2>2. Goto(p, "drop", 1) => Leads /\ pc'[p] = "drop" /\ at'[p] = 1
    BY Going, FirstOutput DEF Phases
  <2> QED BY <2>1, <2>2, Zenon DEF Validate, flags
<1>2. OutTypes'
  BY <1>1 DEF OutTypes, Leads
<1>3. Publishable(p) => Apart'
  <2>1. ASSUME Publishable(p), NEW j \in Outputs, NEW k \in Outputs, path[j] = path[k] PROVE j = k
    BY <2>1, SMT DEF Publishable, Outputs
  <2>2. ASSUME Publishable(p), NEW j \in Outputs PROVE prior[path[j]] # Dir
    BY <2>2 DEF Publishable, OutTypes, Directories
  <2> QED BY <1>1, <2>1, <2>2 DEF Apart
<1>4. Staged(p)' /\ Swept(p)'
  <2>1. \A j \in Outputs : ~(j < 1)
    BY OutputsOrdered
  <2> QED BY <1>1, <1>3, <2>1, Zenon DEF Staged, Swept, Transacting, RollbackPhases
<1>5. Intact(p) => Intact(p)'
  BY <1>1, Quiet DEF Staged
<1> QED BY <1>2, <1>4, <1>5 DEF Keeps

LEMMA BackupKeeps ==
  ASSUME NEW p \in Processes, OutTypes, Directories, Staged(p), Backup(p)
  PROVE  Keeps(p)
<1> DEFINE i == at[p]
           here == file[path[i]]
<1>1. /\ pc[p] = "backup" /\ i \in Outputs /\ path[i] \in Paths /\ Apart
      /\ UNCHANGED <<path, file, prior, staging, dir, published, failed>>
  BY DEF Backup, OutTypes, Staged, Transacting
<1>2. Leads /\ Onward(p, "backup", "publish")
  BY <1>1, Advancing DEF Backup, Phases
<1>3. here \in {None, Old} \cup Processes /\ backup[p][i] = None /\ ~backed_up[p][i]
  BY <1>1, SMT DEF OutTypes, Directories, Staged, Apart, Outputs
<1>4. /\ backup' \in [Processes -> [Outputs -> {None, Old} \cup Processes]]
      /\ Sets(backup, backup', p, i, here)
      /\ backed_up' \in [Processes -> [Outputs -> BOOLEAN]]
      /\ backed_up'[p][i] <=> here # None
      /\ \A j \in Outputs \ {i} : backed_up'[p][j] = backed_up[p][j]
  <2>1. CASE here = None
    BY <1>1, <1>3, <2>1 DEF Backup, Sets, OutTypes
  <2>2. CASE here # None
    <3>1. /\ backup' = [backup EXCEPT ![p][i] = here]
          /\ backed_up' = [backed_up EXCEPT ![p][i] = TRUE]
      BY <2>2 DEF Backup
    <3> QED BY <1>1, <1>3, <2>2, <3>1 DEF Sets, OutTypes
  <2> QED BY <2>1, <2>2
<1>5. OutTypes'
  BY <1>1, <1>2, <1>4 DEF OutTypes, Leads
<1> HIDE DEF here
<1>6. ASSUME NEW j \in Outputs
      PROVE  /\ ~published[p][j] /\ staging[p][j] \in {None, p}
             /\ backed_up'[p][j] <=> backup'[p][j] # None
             /\ backed_up'[p][j] => j <= i
  BY <1>1, <1>4, SMT DEF Sets, Staged, Outputs
<1>7. Staged(p)' /\ Swept(p)'
  <2>1. Staged(p)'
    BY <1>1, <1>2, <1>6, SMT DEF Onward, Staged, Apart, Transacting, RollbackPhases, Outputs
  <2>2. Swept(p)'
    BY <1>1, <1>2, <1>6, SMT DEF Onward, Swept, RollbackPhases, Outputs
  <2> QED BY <2>1, <2>2
<1>8. ASSUME Intact(p) PROVE Intact(p)'
  <2>1. here = prior[path[i]]
    BY <1>1, <1>6, <1>8 DEF here, Intact, Elsewhere
  <2>2. ASSUME NEW j \in Outputs PROVE Kept(p, j)'
    <3>1. /\ backup'[p][j] # None => backup'[p][j] = prior[path[j]]
          /\ j <= i => (backed_up'[p][j] <=> prior[path[j]] # None)
      BY <1>1, <1>4, <1>8, <2>1, SMT DEF Sets, Intact, Kept, Outputs
    <3> QED BY <1>1, <1>2, <1>6, <3>1, SMT DEF Onward, Kept, Outputs
  <2> QED BY <1>1, <1>6, <1>8, <2>2 DEF Intact, Elsewhere, Landed
<1> QED BY <1>5, <1>7, <1>8 DEF Keeps

LEMMA PublishKeeps ==
  ASSUME NEW p \in Processes, OutTypes, Staged(p), Publish(p)
  PROVE  Keeps(p)
<1> DEFINE i == at[p]
<1>1. /\ pc[p] = "publish" /\ i \in Outputs /\ path[i] \in Paths /\ staging[p][i] = p /\ Apart
      /\ UNCHANGED <<path, prior, dir, backup, backed_up, failed>>
  BY DEF Publish, OutTypes, Staged, Transacting
<1>2. Leads /\ Onward(p, "publish", "commit")
  BY <1>1, Advancing DEF Publish, Phases
<1>3. /\ file' \in [Paths -> {None, Old, Dir} \cup Processes]
      /\ file'[path[i]] = p /\ \A x \in Paths \ {path[i]} : file'[x] = file[x]
      /\ staging' \in [Processes -> [Outputs -> {None, Empty} \cup Processes]]
      /\ Sets(staging, staging', p, i, None)
      /\ published' \in [Processes -> [Outputs -> BOOLEAN]]
      /\ Sets(published, published', p, i, TRUE)
  BY <1>1 DEF Publish, Sets, OutTypes
<1>4. OutTypes'
  BY <1>1, <1>2, <1>3 DEF OutTypes, Leads
<1>5. ASSUME NEW j \in Outputs
      PROVE  /\ published'[p][j] <=> j <= i
             /\ staging'[p][j] \in {None, p} /\ (published'[p][j] => staging'[p][j] = None)
             /\ backed_up[p][j] <=> backup[p][j] # None
  <2>1. /\ published[p][j] <=> j < i
        /\ published[p][j] => staging[p][j] = None
        /\ staging[p][j] \in {None, p}
        /\ backed_up[p][j] <=> backup[p][j] # None
    BY <1>1 DEF Staged
  <2>2. published'[p][j] <=> j <= i
    <3>1. j <= i <=> j < i \/ j = i
      BY <1>1, OutputsOrdered
    <3> QED BY <1>1, <1>3, <2>1, <3>1, Zenon DEF Sets
  <2> QED BY <1>3, <2>1, <2>2 DEF Sets
<1>6. Staged(p)' /\ Swept(p)'
  <2>1. Staged(p)'
    BY <1>1, <1>2, <1>5, SMT DEF Onward, Staged, Apart, Transacting, RollbackPhases, Outputs
  <2>2. Swept(p)'
    BY <1>1, <1>2, <1>5, SMT DEF Onward, Swept, RollbackPhases, Outputs
  <2> QED BY <2>1, <2>2
<1>7. ASSUME Intact(p) PROVE Intact(p)'
  <2>1. ASSUME NEW x \in Paths PROVE Elsewhere(p, x)'
    <3>1. CASE x = path[i]
      BY <1>1, <1>3, <3>1 DEF Sets, Elsewhere
    <3>2. CASE x # path[i]
      <4>1. \A j \in Outputs : path[j] = x => published'[p][j] = published[p][j]
        BY <1>3, <3>2 DEF Sets
      <4> QED BY <1>1, <1>3, <1>7, <3>2, <4>1 DEF Intact, Elsewhere
    <3> QED BY <3>1, <3>2
  <2>2. ASSUME NEW j \in Outputs PROVE Kept(p, j)'
    BY <1>1, <1>2, <1>3, <1>7 DEF Onward, Intact, Kept
  <2>3. ASSUME NEW j \in Outputs PROVE Landed(p, j)'
    <3>1. published'[p][j] => file'[path[j]] = p
      BY <1>1, <1>3, <1>7 DEF Sets, Apart, Intact, Landed, Unrolled, OutTypes
    <3> QED BY <1>1, <1>2, <3>1 DEF Onward, Landed, Rolled, RollbackPhases
  <2> QED BY <2>1, <2>2, <2>3 DEF Intact
<1> QED BY <1>4, <1>6, <1>7 DEF Keeps

\* BackupFails and PublishFails: the rollback begins at the last output.
LEMMA FailsKeeps ==
  ASSUME NEW p \in Processes, OutTypes, Staged(p), BackupFails(p) \/ PublishFails(p)
  PROVE  Keeps(p)
<1>1. /\ pc[p] \in {"backup", "publish"} /\ Leads /\ pc'[p] = "unpublish" /\ at'[p] = Count
      /\ UNCHANGED <<path, file, prior, staging, dir, backup, backed_up, published, failed>>
  BY Going, OutputsAssumption, SMT DEF BackupFails, PublishFails, flags, Phases, Outputs
<1>2. OutTypes'
  BY <1>1 DEF OutTypes, Leads
<1>3. \A j \in Outputs : j <= Count /\ ~(j > Count)
  BY OutputsAssumption, SMT DEF Outputs
<1>4. Staged(p)'
  <2>1. /\ Apart /\ \A j \in Outputs : backed_up[p][j] <=> backup[p][j] # None
        /\ \A j \in Outputs : published[p][j] => staging[p][j] = None
    BY <1>1 DEF Staged, Transacting
  <2> QED BY <1>1, <2>1 DEF Staged, Apart, RollbackPhases
<1>5. Swept(p)'
  BY <1>1, <1>3 DEF Swept, RollbackPhases
<1>6. ASSUME NEW j \in Outputs PROVE ~Rolled(p, j)' /\ (published[p][j] => Unrolled(p, j))
  <2>1. ~Rolled(p, j)'
    BY <1>1, <1>3 DEF Rolled, RollbackPhases
  <2>2. published[p][j] => Unrolled(p, j)
    BY <1>1 DEF Unrolled, Staged
  <2> QED BY <2>1, <2>2
<1>7. Intact(p) => Intact(p)'
  BY <1>1, <1>6, Quiet
<1> QED BY <1>2, <1>4, <1>5, <1>7 DEF Keeps

LEMMA CommitKeeps ==
  ASSUME NEW p \in Processes, OutTypes, Staged(p), Swept(p), Commit(p)
  PROVE  Keeps(p)
<1> DEFINE i == at[p]
<1>1. /\ pc[p] = "commit" /\ i \in Outputs /\ Apart
      /\ UNCHANGED <<path, file, prior, staging, backed_up, published>>
  BY DEF Commit, OutTypes, Staged, Transacting
<1>2. Leads /\ Onward(p, "commit", "ok")
  BY <1>1, Advancing DEF Commit, Phases
<1>3. /\ backup' \in [Processes -> [Outputs -> {None, Old} \cup Processes]]
      /\ \A j \in Outputs : backup'[p][j] \in {None, backup[p][j]}
      /\ dir' \in [Processes -> [Outputs -> BOOLEAN]] /\ failed' \in [Processes -> BOOLEAN]
      /\ \A j \in Outputs \ {i} : dir'[p][j] = dir[p][j]
      /\ ~failed'[p] => ~failed[p] /\ ~dir'[p][i] /\ backup'[p][i] = None
  <2>1. CASE /\ backup' = [backup EXCEPT ![p][i] = None]
             /\ dir' = [dir EXCEPT ![p][i] = FALSE] /\ UNCHANGED failed
    BY <1>1, <2>1 DEF OutTypes
  <2>2. CASE /\ failed' = [failed EXCEPT ![p] = TRUE] /\ UNCHANGED dir
             /\ \E left \in {None, backup[p][i]} : backup' = [backup EXCEPT ![p][i] = left]
    BY <1>1, <2>2, SMT DEF OutTypes
  <2> QED BY <2>1, <2>2 DEF Commit
<1>4. OutTypes'
  BY <1>1, <1>2, <1>3 DEF OutTypes, Leads
<1>5. \A j \in Outputs : /\ published[p][j] /\ staging[p][j] = None
                         /\ backup'[p][j] # None => backed_up[p][j]
  BY <1>1, <1>3, SMT DEF Staged
<1>6. Staged(p)'
  BY <1>1, <1>2, <1>5 DEF Onward, Staged, Apart, RollbackPhases
<1>7. Swept(p)'
  <2>1. ASSUME ~failed'[p], NEW j \in Outputs, j <= i PROVE backup'[p][j] = None /\ ~dir'[p][j]
    BY <1>1, <1>3, <2>1, SMT DEF Swept, Outputs
  <2> QED BY <1>1, <1>2, <1>5, <2>1, SMT DEF Onward, Swept, RollbackPhases, Outputs
<1>8. ASSUME Intact(p) PROVE Intact(p)'
  <2>1. ASSUME NEW x \in Paths PROVE Elsewhere(p, x)'
    BY <1>1, <1>8 DEF Intact, Elsewhere
  <2>2. ASSUME NEW j \in Outputs PROVE Kept(p, j)'
    BY <1>1, <1>3, <1>5, <1>8 DEF Intact, Kept
  <2>3. ASSUME NEW j \in Outputs PROVE Landed(p, j)'
    BY <1>1, <1>2, <1>5, <1>8 DEF Onward, Intact, Landed, Rolled, Unrolled, RollbackPhases
  <2> QED BY <2>1, <2>2, <2>3 DEF Intact
<1> QED BY <1>4, <1>6, <1>7, <1>8 DEF Keeps

LEMMA UnpublishKeeps ==
  ASSUME NEW p \in Processes, OutTypes, Staged(p), Swept(p), Unpublish(p)
  PROVE  Keeps(p)
<1> DEFINE i == at[p]
<1>1. /\ pc[p] = "unpublish" /\ i \in Outputs /\ path[i] \in Paths /\ Apart
      /\ UNCHANGED <<path, prior, staging, dir, backup, backed_up, published>>
  BY DEF Unpublish, flags, OutTypes, Staged, Transacting, RollbackPhases
<1>2. Leads /\ pc'[p] = "restore" /\ at'[p] = i
  BY <1>1, Going DEF Unpublish, Phases
<1>3. /\ file' \in [Paths -> {None, Old, Dir} \cup Processes]
      /\ failed' \in [Processes -> BOOLEAN] /\ (failed[p] => failed'[p])
      /\ \A x \in Paths \ {path[i]} : file'[x] = file[x]
      /\ ~published[p][i] => file' = file
      /\ file'[path[i]] \in {None, file[path[i]]}
      /\ published[p][i] /\ ~failed'[p] => file'[path[i]] = None
  <2>1. CASE /\ file' = IF published[p][i] THEN [file EXCEPT ![path[i]] = None] ELSE file
             /\ UNCHANGED failed
    BY <1>1, <2>1 DEF OutTypes
  <2>2. CASE UNCHANGED file /\ failed' = [failed EXCEPT ![p] = TRUE]
    BY <1>1, <2>2 DEF OutTypes
  <2> QED BY <2>1, <2>2 DEF Unpublish
<1>4. OutTypes'
  BY <1>1, <1>2, <1>3 DEF OutTypes, Leads
<1>5. Staged(p)' /\ Swept(p)'
  <2>1. Staged(p)'
    BY <1>1, <1>2 DEF Staged, Apart, Transacting, RollbackPhases
  <2>2. Swept(p)'
    BY <1>1, <1>2, <1>3 DEF Swept, RollbackPhases
  <2> QED BY <2>1, <2>2
<1>6. ASSUME Intact(p) PROVE Intact(p)'
  <2>1. ASSUME NEW x \in Paths PROVE Elsewhere(p, x)'
    BY <1>1, <1>3, <1>6 DEF Intact, Elsewhere
  <2>2. ASSUME NEW j \in Outputs PROVE Kept(p, j)'
    BY <1>1, <1>2, <1>6 DEF Intact, Kept
  <2>3. ASSUME NEW j \in Outputs PROVE Landed(p, j)'
    <3>1. CASE j = i
      <4>1. Unrolled(p, j) /\ ~Unrolled(p, j)' /\ ~Rolled(p, j)'
        <5>1. j <= j /\ ~(j < j) /\ ~(j > j)
          BY OutputsOrdered
        <5> QED BY <1>1, <1>2, <3>1, <5>1, Zenon DEF Rolled, Unrolled, RollbackPhases
      <4> QED BY <1>1, <1>2, <1>3, <1>6, <3>1, <4>1 DEF Intact, Landed
    <3>2. CASE j # i
      <4>1. /\ Unrolled(p, j)' => Unrolled(p, j)
            /\ Rolled(p, j)' => Rolled(p, j)
        BY <1>1, <1>2, <3>2, SMT DEF Rolled, Unrolled, RollbackPhases, Outputs
      <4>2. file'[path[j]] = file[path[j]]
        BY <1>1, <1>3, <3>2 DEF OutTypes, Apart
      <4> QED BY <1>1, <1>2, <1>3, <1>6, <3>2, <4>1, <4>2 DEF Intact, Landed
    <3> QED BY <3>1, <3>2
  <2> QED BY <2>1, <2>2, <2>3 DEF Intact
<1> QED BY <1>4, <1>5, <1>6 DEF Keeps

LEMMA RestoreKeeps ==
  ASSUME NEW p \in Processes, OutTypes, Staged(p), Swept(p), Restore(p)
  PROVE  Keeps(p)
<1> DEFINE i == at[p]
<1>1. /\ pc[p] = "restore" /\ i \in Outputs /\ path[i] \in Paths /\ Apart
      /\ UNCHANGED <<path, prior, staging, dir, backed_up, published>>
  BY DEF Restore, flags, OutTypes, Staged, Transacting, RollbackPhases
<1>2. /\ Leads
      /\ \/ i > 1 /\ pc'[p] = "unpublish" /\ at'[p] = i - 1
         \/ i = 1 /\ pc'[p] = "drop" /\ at'[p] = 1
  BY <1>1, Going, OutputsAssumption, SMT DEF Restore, Phases, Outputs
<1>3. /\ file' \in [Paths -> {None, Old, Dir} \cup Processes]
      /\ backup' \in [Processes -> [Outputs -> {None, Old} \cup Processes]]
      /\ failed' \in [Processes -> BOOLEAN] /\ (failed[p] => failed'[p])
      /\ \A x \in Paths \ {path[i]} : file'[x] = file[x]
      /\ \A j \in Outputs \ {i} : backup'[p][j] = backup[p][j]
      /\ ~(backed_up[p][i] /\ published[p][i]) => file' = file
      /\ backup'[p][i] \in {None, backup[p][i]}
      /\ ~failed'[p] => backup'[p][i] = None
      /\ backed_up[p][i] /\ published[p][i] =>
           \/ file'[path[i]] = backup[p][i]
           \/ failed'[p] /\ backup'[p][i] = backup[p][i]
  <2>1. CASE /\ backed_up[p][i] /\ published[p][i]
             /\ file' = [file EXCEPT ![path[i]] = backup[p][i]]
             /\ backup' = [backup EXCEPT ![p][i] = None] /\ UNCHANGED failed
    BY <1>1, <2>1, SMT DEF OutTypes
  <2>2. CASE /\ ~(backed_up[p][i] /\ published[p][i]) /\ UNCHANGED file
             /\ backup' = [backup EXCEPT ![p][i] = None] /\ UNCHANGED failed
    BY <1>1, <2>2 DEF OutTypes
  <2>3. CASE failed' = [failed EXCEPT ![p] = TRUE] /\ UNCHANGED <<file, backup>>
    BY <1>1, <2>3 DEF OutTypes
  <2> QED BY <2>1, <2>2, <2>3 DEF Restore
<1>4. /\ pc'[p] \in {"unpublish", "drop"}
      /\ pc'[p] = "unpublish" => ~(i <= at'[p])
      /\ \A j \in Outputs :
           /\ pc'[p] = "unpublish" => (j <= at'[p] => j < i) /\ (j > at'[p] => j >= i)
           /\ pc'[p] = "drop" => ~(j < at'[p]) /\ j >= i
           /\ j # i => (j >= i => j > i) /\ (j <= i => j < i)
  BY <1>1, <1>2, SMT DEF Outputs
<1>5. OutTypes'
  BY <1>1, <1>2, <1>3 DEF OutTypes, Leads
<1>6. ASSUME NEW j \in Outputs
      PROVE  /\ published[p][j] => staging[p][j] = None
             /\ backup'[p][j] # None => backed_up[p][j]
             /\ j < i /\ backed_up[p][j] => backup'[p][j] # None
             /\ j >= i /\ ~failed'[p] => backup'[p][j] = None
             /\ backup'[p][j] \in {None, backup[p][j]}
  <2>1. /\ published[p][j] => staging[p][j] = None
        /\ backup[p][j] # None => backed_up[p][j]
        /\ j <= i /\ backed_up[p][j] => backup[p][j] # None
    BY <1>1 DEF Staged, RollbackPhases
  <2>2. j > i /\ ~failed[p] => backup[p][j] = None
    BY <1>1 DEF Swept, RollbackPhases
  <2>3. j <= j /\ ~(j < j) /\ (j < i => j <= i) /\ (j # i /\ j >= i => j > i)
    BY <1>1, OutputsOrdered
  <2>4. CASE j = i
    BY <2>1, <2>3, <2>4, <1>3, Zenon
  <2>5. CASE j # i
    <3>1. backup'[p][j] = backup[p][j]
      BY <2>5, <1>3
    <3> QED BY <2>1, <2>2, <2>3, <2>5, <3>1, <1>3, Zenon
  <2> QED BY <2>4, <2>5
<1>7. Staged(p)'
  BY <1>1, <1>4, <1>6, Zenon DEF Staged, Apart, Transacting, RollbackPhases
<1>8. Swept(p)'
  BY <1>1, <1>4, <1>6, Zenon DEF Swept, RollbackPhases
<1>9. ASSUME Intact(p) PROVE Intact(p)'
  <2>1. ASSUME NEW x \in Paths PROVE Elsewhere(p, x)'
    BY <1>1, <1>3, <1>9 DEF Intact, Elsewhere
  <2>2. ASSUME NEW j \in Outputs PROVE Kept(p, j)'
    BY <1>1, <1>2, <1>6, <1>9 DEF Intact, Kept
  <2>3. published[p][i] => /\ ~failed'[p] => file'[path[i]] = prior[path[i]]
                           /\ backed_up[p][i] => \/ file'[path[i]] = prior[path[i]]
                                                 \/ backup'[p][i] = prior[path[i]]
    <3>1. /\ published[p][i] => (backed_up[p][i] <=> prior[path[i]] # None)
          /\ backed_up[p][i] => backup[p][i] = prior[path[i]]
          /\ published[p][i] /\ ~failed[p] => file[path[i]] = None
      <4>1. Kept(p, i) /\ Landed(p, i)
        BY <1>1, <1>9 DEF Intact
      <4>2. backed_up[p][i] => backup[p][i] # None
        <5>1. i <= at[p]
          BY <1>1, OutputsOrdered
        <5> QED BY <1>1, <5>1, Zenon DEF Staged, RollbackPhases
      <4> QED BY <1>1, <4>1, <4>2 DEF Kept, Landed
    <3> QED BY <1>1, <1>3, <3>1
  <2>4. ASSUME NEW j \in Outputs PROVE Landed(p, j)'
    <3>1. CASE j = i
      BY <1>1, <1>4, <2>3, <3>1, Zenon DEF Landed, Rolled, Unrolled, RollbackPhases
    <3>2. CASE j # i
      <4>1. /\ Unrolled(p, j)' => Unrolled(p, j)
            /\ Rolled(p, j)' => Rolled(p, j)
        BY <1>1, <1>4, <3>2, Zenon DEF Rolled, Unrolled, RollbackPhases
      <4>2. file'[path[j]] = file[path[j]] /\ backup'[p][j] = backup[p][j]
        BY <1>1, <1>3, <3>2 DEF OutTypes, Apart
      <4> QED BY <1>1, <1>2, <1>3, <1>9, <4>1, <4>2 DEF Intact, Landed
    <3> QED BY <3>1, <3>2
  <2> QED BY <2>1, <2>2, <2>4 DEF Intact
<1> QED BY <1>5, <1>7, <1>8, <1>9 DEF Keeps

LEMMA DropKeeps ==
  ASSUME NEW p \in Processes, OutTypes, Staged(p), Swept(p), Drop(p)
  PROVE  Keeps(p)
<1> DEFINE i == at[p]
<1>1. /\ pc[p] = "drop" /\ i \in Outputs
      /\ UNCHANGED <<path, file, prior, backup, backed_up, published>>
  BY DEF Drop, flags, OutTypes
<1>2. Leads /\ Onward(p, "drop", "err")
  BY <1>1, Advancing DEF Drop, Phases
<1>3. /\ staging' \in [Processes -> [Outputs -> {None, Empty} \cup Processes]]
      /\ \A j \in Outputs : staging'[p][j] \in {None, staging[p][j]}
      /\ dir' \in [Processes -> [Outputs -> BOOLEAN]] /\ failed' \in [Processes -> BOOLEAN]
      /\ failed[p] => failed'[p]
      /\ \A j \in Outputs \ {i} : dir'[p][j] = dir[p][j]
      /\ ~failed'[p] => staging'[p][i] = None /\ (dir'[p][i] => backup[p][i] # None)
  <2>1. CASE /\ staging' = [staging EXCEPT ![p][i] = None]
             /\ dir' = [dir EXCEPT ![p][i] = @ /\ backup[p][i] # None] /\ UNCHANGED failed
    BY <1>1, <2>1 DEF OutTypes
  <2>2. CASE /\ failed' = [failed EXCEPT ![p] = TRUE] /\ UNCHANGED dir
             /\ \E left \in {None, staging[p][i]} : staging' = [staging EXCEPT ![p][i] = left]
    BY <1>1, <2>2, SMT DEF OutTypes
  <2> QED BY <2>1, <2>2 DEF Drop
<1>4. OutTypes'
  BY <1>1, <1>2, <1>3 DEF OutTypes, Leads
<1>5. Staged(p)'
  <2>1. pc'[p] \in {"drop", "err"}
    BY <1>2 DEF Onward
  <2>2. \A j \in Outputs : published[p][j] => staging'[p][j] = None
    BY <1>3 DEF Staged
  <2>3. \A j \in Outputs : backup[p][j] # None => backed_up[p][j]
    BY DEF Staged
  <2> QED BY <1>1, <2>1, <2>2, <2>3, Zenon DEF Staged, Transacting, RollbackPhases
<1>6. Swept(p)'
  <2>1. ASSUME ~failed'[p], NEW j \in Outputs
        PROVE  backup[p][j] = None /\ (j <= i => staging'[p][j] = None /\ ~dir'[p][j])
    <3>1. backup[p][j] = None /\ (j < i => staging[p][j] = None /\ ~dir[p][j])
      BY <1>1, <1>3, <2>1 DEF Swept
    <3>2. j <= i <=> j < i \/ j = i
      BY <1>1, <2>1, OutputsOrdered
    <3>3. CASE j = i
      BY <1>3, <2>1, <3>1, <3>3, Zenon
    <3>4. CASE j # i
      BY <1>3, <2>1, <3>1, <3>2, <3>4, Zenon
    <3> QED BY <3>3, <3>4
  <2> QED BY <1>1, <1>2, <2>1, SMT DEF Onward, Swept, RollbackPhases, Outputs
<1>7. Intact(p) => Intact(p)'
  BY <1>1, <1>2, <1>3, Quiet DEF Onward, Rolled, Unrolled, RollbackPhases
<1> QED BY <1>4, <1>5, <1>6, <1>7 DEF Keeps

LEMMA CrashKeeps ==
  ASSUME NEW p \in Processes, OutTypes, Staged(p), Crash(p)
  PROVE  Keeps(p)
<1>1. /\ pc[p] \in Phases \ {"ok", "err", "crashed"} /\ Leads /\ pc'[p] = "crashed"
      /\ UNCHANGED <<path, file, prior, staging, dir, backup, backed_up, published, failed>>
  BY Going DEF Crash, flags, OutTypes, Phases
<1>2. OutTypes'
  BY <1>1 DEF OutTypes, Leads
<1>3. Staged(p)' /\ Swept(p)'
  BY <1>1 DEF Staged, Swept, Transacting, RollbackPhases
<1>4. ASSUME Intact(p) PROVE Intact(p)'
  <2>1. ASSUME NEW j \in Outputs, published[p][j], backed_up[p][j]
        PROVE  \/ file[path[j]] = prior[path[j]] \/ backup[p][j] = prior[path[j]]
               \/ \A k \in Outputs : published[p][k]
    <3>1. CASE Rolled(p, j)
      BY <1>1, <1>4, <2>1, <3>1 DEF Intact, Landed
    <3>2. CASE pc[p] = "commit"
      BY <3>2 DEF Staged
    <3>3. CASE ~Rolled(p, j) /\ pc[p] # "commit"
      <4>1. pc[p] \notin {"prepare", "validate"}
        BY <2>1 DEF Staged
      <4>2. pc[p] \in {"backup", "publish"} \/ (pc[p] \in RollbackPhases /\ j <= at[p])
        BY <1>1, <3>3, <4>1, SMT DEF OutTypes, Rolled, RollbackPhases, Phases, Outputs
      <4>3. backup[p][j] # None
        BY <2>1, <4>2 DEF Staged
      <4> QED BY <1>4, <4>3 DEF Intact, Kept
    <3> QED BY <3>1, <3>2, <3>3
  <2>2. ASSUME NEW j \in Outputs PROVE Landed(p, j)'
    BY <1>1, <2>1 DEF Landed, Rolled, Unrolled, RollbackPhases
  <2>3. ASSUME NEW j \in Outputs PROVE Kept(p, j)'
    BY <1>1, <1>4 DEF Intact, Kept
  <2>4. ASSUME NEW x \in Paths PROVE Elsewhere(p, x)'
    BY <1>1, <1>4 DEF Intact, Elsewhere
  <2> QED BY <2>2, <2>3, <2>4 DEF Intact
<1> QED BY <1>2, <1>3, <1>4 DEF Keeps

-----------------------------------------------------------------------------
LEMMA OutInitInv == Init => OutInv
<1> SUFFICES ASSUME Init PROVE OutInv
  OBVIOUS
<1>1. /\ path \in [Outputs -> Paths] /\ prior \in [Paths -> {None, Old, Dir}] /\ file = prior
      /\ at \in [Processes -> Outputs] /\ pc \in [Processes -> Phases]
  BY OutputsAssumption, SMT DEF Init, Outputs, Phases
<1>2. /\ staging \in [Processes -> [Outputs -> {None, Empty} \cup Processes]]
      /\ backup \in [Processes -> [Outputs -> {None, Old} \cup Processes]]
      /\ dir \in [Processes -> [Outputs -> BOOLEAN]] /\ failed \in [Processes -> BOOLEAN]
      /\ backed_up \in [Processes -> [Outputs -> BOOLEAN]] /\ published = backed_up
  BY DEF Init
<1>3. OutTypes /\ Directories
  BY <1>1, <1>2 DEF OutTypes, Directories
<1>4. ASSUME NEW p \in Processes PROVE Staged(p) /\ Swept(p) /\ Intact(p)
  <2>1. /\ pc[p] = "prepare"
        /\ \A j \in Outputs : /\ staging[p][j] = None /\ backup[p][j] = None /\ ~dir[p][j]
                              /\ ~backed_up[p][j] /\ ~published[p][j]
    BY DEF Init
  <2>2. Staged(p) /\ Swept(p)
    BY <2>1 DEF Staged, Swept, Transacting, RollbackPhases
  <2>3. Intact(p)
    BY <1>1, <2>1 DEF Intact, Elsewhere, Kept, Landed
  <2> QED BY <2>2, <2>3
<1> QED BY <1>3, <1>4 DEF OutInv, Own

LEMMA StepKeeps ==
  ASSUME OutTypes, Directories, NEW p \in Processes, Staged(p), Swept(p),
         Step(p) \/ Vanish(p) \/ Crash(p)
  PROVE  Keeps(p)
<1>1. CASE Prepare(p) \/ PrepareFails(p) \/ Validate(p) \/ Vanish(p)
  BY <1>1, PrepareKeeps, PrepareFailsKeeps, ValidateKeeps, VanishKeeps
<1>2. CASE Backup(p) \/ Publish(p) \/ BackupFails(p) \/ PublishFails(p)
  BY <1>2, BackupKeeps, PublishKeeps, FailsKeeps
<1>3. CASE Commit(p) \/ Unpublish(p) \/ Restore(p) \/ Drop(p) \/ Crash(p)
  BY <1>3, CommitKeeps, UnpublishKeeps, RestoreKeeps, DropKeeps, CrashKeeps
<1> QED BY <1>1, <1>2, <1>3 DEF Step

\* A step of one process keeps the invariant: its own part by the lemmas above,
\* the others' because it touches a file only once it has published.
LEMMA OutStep ==
  ASSUME OutInv, NEW p \in Processes, Step(p) \/ Vanish(p) \/ Crash(p)
  PROVE  OutInv'
<1>1. OutTypes /\ Directories /\ Staged(p) /\ Swept(p) /\ (Alone(p) => Intact(p))
  BY DEF OutInv, Own
<1>2. Keeps(p) /\ Directories'
  BY <1>1, StepKeeps, DirectoriesKept
<1>3. Own(p)'
  <2>1. Alone(p)' => Alone(p)
    BY <1>1, OwnRows DEF Alone
  <2> QED BY <1>1, <1>2, <2>1 DEF Keeps, Own
<1>4. ASSUME NEW q \in Processes \ {p} PROVE Own(q)'
  <2>1. Alone(q)' => Alone(q) /\ file' = file
    BY <1>1, OwnRows DEF Alone
  <2>2. Own(q)
    BY DEF OutInv
  <2> QED BY <1>1, <2>1, <2>2, OwnRows, Others
<1> QED BY <1>2, <1>3, <1>4 DEF OutInv, Keeps

\* A step that none of the transaction's variables sees.
LEMMA OutStutter ==
  ASSUME OutInv, UNCHANGED <<path, file, prior, staging, dir, backup, flags, at, pc, failed>>
  PROVE  OutInv'
<1>1. OutTypes' /\ Directories'
  BY DEF OutInv, OutTypes, Directories, flags
<1>2. ASSUME NEW p \in Processes PROVE Own(p)'
  <2>1. Alone(p)' => Alone(p) /\ file' = file
    BY DEF Alone, flags
  <2> QED BY <2>1, Others DEF OutInv, flags
<1> QED BY <1>1, <1>2 DEF OutInv

\* The look for the runtime gives up before anything has been prepared.
LEMMA OutGivesUp ==
  ASSUME OutInv, NEW p \in Processes, pc[p] = "prepare", at[p] = 1, Goto(p, "err", 1),
         UNCHANGED <<path, file, prior, staging, dir, backup, flags, failed>>
  PROVE  OutInv'
<1>1. /\ OutTypes /\ Directories /\ Own(p) /\ Leads /\ pc'[p] = "err"
      /\ \A q \in Processes : q # p => pc'[q] = pc[q] /\ at'[q] = at[q]
  <2>1. "err" \in Phases /\ 1 \in Outputs
    BY OutputsAssumption, SMT DEF Phases, Outputs
  <2>2. \A q \in Processes : q # p => pc'[q] = pc[q] /\ at'[q] = at[q]
    BY DEF OutInv, OutTypes, Goto
  <2> QED BY <2>1, <2>2, Going DEF OutInv
<1>2. OutTypes' /\ Directories'
  BY <1>1 DEF OutTypes, Directories, Leads, flags
<1>3. \A j \in Outputs : /\ staging[p][j] = None /\ ~dir[p][j] /\ backup[p][j] = None
                         /\ ~published[p][j]
  BY <1>1, SMT DEF Own, Staged, Outputs
<1>4. Staged(p)' /\ Swept(p)'
  BY <1>1, <1>3 DEF Staged, Swept, Transacting, RollbackPhases, flags
<1>5. Intact(p) => Intact(p)'
  BY <1>1, <1>3, Quiet DEF flags
<1>6. ASSUME NEW q \in Processes PROVE Alone(q)' => Alone(q) /\ file' = file
  BY DEF Alone, flags
<1>7. ASSUME NEW q \in Processes \ {p} PROVE Own(q)'
  BY <1>1, <1>6, Others DEF OutInv, flags
<1>8. Own(p)'
  BY <1>1, <1>4, <1>5, <1>6 DEF Own
<1> QED BY <1>2, <1>7, <1>8 DEF OutInv

-----------------------------------------------------------------------------
\* A published output is Landed, any other destination is as it was.
LEMMA InvAllOrNothing == OutInv => AllOrNothing
<1> SUFFICES ASSUME OutInv, NEW p \in Processes
             PROVE  /\ Alone(p) =>
                         /\ pc[p] = "err" /\ ~failed[p] => file = prior
                         /\ pc[p] = "ok" => \A i \in Outputs : file[path[i]] = p
                    /\ pc[p] \in {"ok", "err"} /\ ~failed[p] =>
                         \A i \in Outputs : ~dir[p][i] /\ staging[p][i] = None
                                                        /\ backup[p][i] = None
  BY DEF AllOrNothing
<1>1. OutTypes /\ Own(p)
  BY DEF OutInv
<1>2. ASSUME Alone(p), pc[p] = "err", ~failed[p] PROVE file = prior
  <2>1. ASSUME NEW x \in Paths PROVE file[x] = prior[x]
    <3>1. CASE \E j \in Outputs : path[j] = x /\ published[p][j]
      BY <1>1, <1>2, <3>1 DEF Own, Intact, Landed, Rolled
    <3>2. CASE \A j \in Outputs : path[j] = x => ~published[p][j]
      BY <1>1, <1>2, <3>2 DEF Own, Intact, Elsewhere
    <3> QED BY <3>1, <3>2
  <2> QED BY <1>1, <2>1, SMT DEF OutTypes
<1>3. ASSUME Alone(p), pc[p] = "ok", NEW i \in Outputs PROVE file[path[i]] = p
  BY <1>1, <1>3 DEF Own, Staged, Intact, Landed, Unrolled
<1>4. ASSUME pc[p] \in {"ok", "err"}, ~failed[p], NEW i \in Outputs
      PROVE  ~dir[p][i] /\ staging[p][i] = None /\ backup[p][i] = None
  BY <1>1, <1>4 DEF Own, Swept
<1> QED BY <1>2, <1>3, <1>4

\* Up to the moment all outputs are published the previous one is at its
\* destination or in its backup.
LEMMA InvPreviousOutput == OutInv => PreviousOutputSurvives
<1> SUFFICES ASSUME OutInv, NEW x \in Paths
             PROVE  /\ file[x] # Empty
                    /\ prior[x] = Dir <=> file[x] = Dir
                    /\ prior[x] = Old /\ (\E p \in Processes : Alone(p)) =>
                         Preserved(x) /\ (file[x] = None => RollingBack(x))
  BY DEF PreviousOutputSurvives
<1>1. OutTypes
  BY DEF OutInv
<1>2. file[x] # Empty /\ (prior[x] = Dir <=> file[x] = Dir)
  BY <1>1, ContentsDistinct DEF OutInv, OutTypes, Directories
<1>3. ASSUME prior[x] = Old, NEW p \in Processes, Alone(p)
      PROVE  Preserved(x) /\ (file[x] = None => RollingBack(x))
  <2>1. Staged(p) /\ Intact(p)
    BY <1>3 DEF OutInv, Own
  <2>2. CASE \A j \in Outputs : path[j] = x => ~published[p][j]
    BY <1>3, <2>1, <2>2, ContentsDistinct DEF Intact, Elsewhere, Preserved
  <2>3. ASSUME NEW j \in Outputs, path[j] = x, published[p][j]
        PROVE  Preserved(x) /\ (file[x] = None => RollingBack(x))
    <3>1. backed_up[p][j] /\ Landed(p, j) /\ (backup[p][j] # None => backup[p][j] = Old)
      BY <1>3, <2>1, <2>3, ContentsDistinct DEF Intact, Kept
    <3>2. \/ Done(p) \/ Rolled(p, j) \/ pc[p] = "crashed" \/ pc[p] = "publish"
          \/ pc[p] \in RollbackPhases /\ j <= at[p]
      <4>1. pc[p] \in Phases \ {"prepare", "validate", "backup"}
        BY <1>1, <2>1, <2>3 DEF OutTypes, Staged
      <4>2. at[p] \in Nat /\ j \in Nat
        BY <1>1, SMT DEF OutTypes, Outputs
      <4> QED BY <4>1, <4>2, SMT DEF Phases, Rolled, RollbackPhases, Done
    <3>3. Preserved(x)
      <4>1. CASE pc[p] = "publish" \/ (pc[p] \in RollbackPhases /\ j <= at[p])
        BY <2>1, <2>3, <3>1, <4>1 DEF Staged, Preserved
      <4>2. CASE Done(p)
        BY <4>2 DEF Preserved
      <4>3. CASE Rolled(p, j) \/ pc[p] = "crashed"
        BY <1>3, <2>3, <3>1, <4>3 DEF Landed, Preserved
      <4> QED BY <3>2, <4>1, <4>2, <4>3
    <3>4. ASSUME file[x] = None PROVE RollingBack(x)
      <4>1. ~Unrolled(p, j) /\ (Rolled(p, j) => failed[p])
        BY <1>3, <2>3, <3>1, <3>4, ContentsDistinct DEF Landed
      <4>2. pc[p] \in {"restore", "crashed"} \/ failed[p]
        BY <3>2, <4>1 DEF Unrolled, RollbackPhases, Done
      <4> QED BY <2>3, <4>2 DEF RollingBack
    <3> QED BY <3>3, <3>4
  <2> QED BY <2>2, <2>3
<1> QED BY <1>2, <1>3

----------------------------------------------------------------------------
(* The runtime a link needs. *)

CacheTypes ==
  /\ runtime \in [Processes -> {"look", "create", "write", "prepare", "rename", "found", "failed"}]
  /\ temporary \in [Processes -> Libraries]
  /\ met \in [Processes -> BOOLEAN]

CacheInv ==
  /\ CacheTypes
  /\ prior_dylib \in PriorRuntime
  /\ dylib \in {prior_dylib, "prepared"}
  /\ \A p \in Processes : runtime[p] = "rename" => temporary[p] = "prepared"
  /\ RuntimeUsable
  /\ OnlyFaultsRefuse

LEMMA CacheInitInv == LinkInit => CacheInv
BY RuntimeAssumption
   DEF LinkInit, CacheInv, CacheTypes, RuntimeUsable, OnlyFaultsRefuse, Libraries

\* The steps of a transaction, and a death, leave the cache alone.
LEMMA CacheFrame ==
  ASSUME CacheInv, UNCHANGED cachevars
  PROVE  CacheInv'
BY DEF cachevars, CacheInv, CacheTypes, RuntimeUsable, OnlyFaultsRefuse

LEMMA CacheStepInv == CacheInv /\ [LinkNext]_<<vars, cachevars>> => CacheInv'
<1> SUFFICES ASSUME CacheInv, [LinkNext]_<<vars, cachevars>> PROVE CacheInv'
  OBVIOUS
<1> USE DEF Runtime, Temporary, CacheTypes, Libraries
<1>1. CASE UNCHANGED cachevars
  BY <1>1, CacheFrame
<1>2. ASSUME NEW p \in Processes, Look(p) PROVE CacheInv'
  BY <1>2, RuntimeAssumption DEF Look, CacheInv, RuntimeUsable, OnlyFaultsRefuse
<1>3. ASSUME NEW p \in Processes, Create(p) PROVE CacheInv'
  <2>1. CASE temporary[p] = "none"
    BY <1>3, <2>1 DEF Create, CacheInv, RuntimeUsable, OnlyFaultsRefuse
  <2>2. CASE temporary[p] # "none"
    BY <1>3, <2>2 DEF Create, CacheInv, RuntimeUsable, OnlyFaultsRefuse
  <2> QED BY <2>1, <2>2
<1>4. ASSUME NEW p \in Processes, WriteAll(p) PROVE CacheInv'
  BY <1>4 DEF WriteAll, CacheInv, RuntimeUsable, OnlyFaultsRefuse
<1>5. ASSUME NEW p \in Processes, PrepareDylib(p) PROVE CacheInv'
  BY <1>5 DEF PrepareDylib, CacheInv, RuntimeUsable, OnlyFaultsRefuse
<1>6. ASSUME NEW p \in Processes, Rename(p) PROVE CacheInv'
  <2>1. dylib' = "prepared" /\ prior_dylib' = prior_dylib
    BY <1>6 DEF Rename, CacheInv
  <2> QED BY <1>6, <2>1 DEF Rename, CacheInv, RuntimeUsable, OnlyFaultsRefuse
<1>7. ASSUME NEW p \in Processes, CacheFault(p) PROVE CacheInv'
  BY <1>7 DEF CacheFault, CacheInv, RuntimeUsable, OnlyFaultsRefuse
<1>8. ASSUME NEW p \in Processes, NoRuntime(p) PROVE CacheInv'
  BY <1>8, CacheFrame DEF NoRuntime
<1> QED
  BY <1>1, <1>2, <1>3, <1>4, <1>5, <1>6, <1>7, <1>8 DEF LinkNext, Link

-----------------------------------------------------------------------------
\* A process that has no runtime yet has not begun with its outputs.
Waiting == \A p \in Processes : pc[p] = "prepare" /\ runtime[p] # "found" => at[p] = 1

LinkInv == CacheInv /\ OutInv /\ Waiting

LEMMA LinkInitInv == LinkInit => LinkInv
BY CacheInitInv, OutInitInv, SMT DEF LinkInit, Init, LinkInv, Waiting

LEMMA LinkStepInv == LinkInv /\ [LinkNext]_<<vars, cachevars>> => LinkInv'
<1> SUFFICES ASSUME LinkInv, [LinkNext]_<<vars, cachevars>> PROVE LinkInv'
  OBVIOUS
<1>1. CacheInv /\ CacheTypes /\ OutInv /\ Waiting /\ CacheInv'
  BY CacheStepInv DEF LinkInv, CacheInv
<1>2. ASSUME UNCHANGED <<path, file, prior, staging, dir, backup, flags, at, pc, failed>>,
             \A p \in Processes : runtime[p] = "found" => runtime'[p] = "found"
      PROVE  LinkInv'
  <2>1. OutInv'
    BY <1>1, <1>2, OutStutter
  <2>2. Waiting'
    BY <1>1, <1>2 DEF Waiting
  <2> QED BY <1>1, <2>1, <2>2 DEF LinkInv
<1>3. CASE UNCHANGED <<vars, cachevars>>
  BY <1>2, <1>3 DEF vars, flags, cachevars
<1>4. ASSUME NEW p \in Processes,
             Look(p) \/ Create(p) \/ WriteAll(p) \/ PrepareDylib(p) \/ Rename(p) \/ CacheFault(p)
      PROVE  LinkInv'
  <2>1. UNCHANGED <<path, file, prior, staging, dir, backup, flags, at, pc, failed>>
    BY <1>4 DEF Look, Create, WriteAll, PrepareDylib, Rename, CacheFault, vars, flags
  <2>2. runtime[p] # "found" /\ \E l : runtime' = [runtime EXCEPT ![p] = l]
    BY <1>4 DEF Look, Create, WriteAll, PrepareDylib, Rename, CacheFault, Runtime
  <2>3. \A q \in Processes : runtime[q] = "found" => runtime'[q] = "found"
    BY <1>1, <2>2 DEF CacheTypes
  <2> QED BY <1>2, <2>1, <2>3
<1>5. ASSUME NEW p \in Processes, NoRuntime(p) PROVE LinkInv'
  <2>1. pc[p] = "prepare" /\ at[p] = 1 /\ Goto(p, "err", 1)
    BY <1>1, <1>5 DEF NoRuntime, Running, Waiting
  <2>2. UNCHANGED <<path, file, prior, staging, dir, backup, flags, failed, runtime>>
    BY <1>5 DEF NoRuntime, cachevars
  <2>3. OutInv'
    BY <1>1, <2>1, <2>2, OutGivesUp
  <2>4. Waiting'
    BY <1>1, <2>1, <2>2 DEF Waiting, Goto, OutInv, OutTypes
  <2> QED BY <1>1, <2>3, <2>4 DEF LinkInv
<1>6. ASSUME NEW p \in Processes, UNCHANGED cachevars,
             \/ Crash(p)
             \/ runtime[p] = "found" /\ (Step(p) \/ Vanish(p))
      PROVE  LinkInv'
  <2>1. OutInv'
    BY <1>1, <1>6, OutStep
  <2>2. /\ UNCHANGED runtime
        /\ \A q \in Processes \ {p} : at'[q] = at[q] /\ pc'[q] = pc[q]
    BY <1>1, <1>6, OwnRows DEF OutInv, cachevars
  <2>3. runtime[p] = "found" \/ pc'[p] = "crashed"
    BY <1>1, <1>6 DEF Crash, Goto, OutInv, OutTypes
  <2>4. Waiting'
    BY <1>1, <2>2, <2>3 DEF Waiting
  <2> QED BY <1>1, <2>1, <2>4 DEF LinkInv
<1> QED
  BY <1>3, <1>4, <1>5, <1>6 DEF LinkNext, Link, Terminated

-----------------------------------------------------------------------------
\* Whoever was given the path of the cached runtime finds a prepared library
\* there ever after (materialize_bundled_runtime_dylib_in).
THEOREM RuntimeStaysUsable == LinkSpec => []RuntimeUsable
<1>1. CacheInv => RuntimeUsable
  BY DEF CacheInv
<1> QED BY <1>1, CacheInitInv, CacheStepInv, PTL DEF LinkSpec

\* Compilers that install the runtime at the same time never refuse each other.
THEOREM InstallersAgree == LinkSpec => []OnlyFaultsRefuse
<1>1. CacheInv => OnlyFaultsRefuse
  BY DEF CacheInv
<1> QED BY <1>1, CacheInitInv, CacheStepInv, PTL DEF LinkSpec

\* An error after a rollback without failures leaves what was there, a success
\* the new outputs, and neither leaves anything of the staging
\* (publish_output_transaction), in a link among any number of others.
THEOREM OutputsAllOrNothing == LinkSpec => []AllOrNothing
<1>1. LinkInv => AllOrNothing
  BY InvAllOrNothing DEF LinkInv
<1> QED BY <1>1, LinkInitInv, LinkStepInv, PTL DEF LinkSpec

\* Whatever fails and whoever is killed, the previous output is at its
\* destination or in its backup until all outputs are published.
THEOREM PreviousOutputKept == LinkSpec => []PreviousOutputSurvives
<1>1. LinkInv => PreviousOutputSurvives
  BY InvPreviousOutput DEF LinkInv
<1> QED BY <1>1, LinkInitInv, LinkStepInv, PTL DEF LinkSpec
=============================================================================
