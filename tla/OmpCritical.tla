---------------------------- MODULE OmpCritical ----------------------------
(***************************************************************************)
(* CRITICAL and ATOMIC regions of the OpenMP runtime (runtime/src/         *)
(* openmp.rs: critical_lock, afs_omp_critical_enter and _exit, and         *)
(* afs_omp_atomic_enter and _exit, which use the same lock under a name no *)
(* Fortran program can spell), and the simple locks of its API             *)
(* (afs_omp_set_lock and afs_omp_unset_lock).                              *)
(*                                                                         *)
(* Locks live in a process-wide registry keyed by the lower-cased name;    *)
(* the first user of a key creates its lock.  A lock is a flag under a     *)
(* mutex with a condition variable; leaving wakes one waiter after the     *)
(* mutex is dropped, so a third thread may take the lock first, and a      *)
(* waiter may wake without being notified.                                 *)
(*                                                                         *)
(* A simple lock is a word of the program's, taken by a weak compare and   *)
(* exchange in a loop.  The program initialises it first and unsets only   *)
(* what it has set.                                                        *)
(*                                                                         *)
(* Regions nest in each other and in a use of the simple lock, and the     *)
(* lock is set inside regions; Nests says which the program does.  Neither *)
(* semantic analysis nor lowering looks at the names, so Nests may hold    *)
(* anything: a region within one of its own name, which waits for itself,  *)
(* or two names nested both ways.                                          *)
(***************************************************************************)
EXTENDS Naturals, Sequences, FiniteSets

CONSTANTS
  Threads,
  Spellings,      \* names as separately compiled units spell them
  Lower,          \* Lower[s]: the lower-cased name, make_ascii_lowercase
  SimpleLock,     \* stands for the simple lock in Nests
  Nests,          \* pairs <<outer, inner>> of keys, or SimpleLock
  MaxVisits,      \* how many regions each thread runs
  MaxSets         \* how often each thread sets the simple lock

Keys == {Lower[s] : s \in Spellings}

ASSUME CriticalAssumption ==
  /\ Spellings # {} /\ IsFiniteSet(Keys)
  /\ MaxVisits \in [Threads -> Nat] /\ MaxSets \in [Threads -> Nat]

NoLock == 0
NoName == CHOOSE s \in Spellings : TRUE   \* outside; any will do

VARIABLES
  registry,   \* key -> lock; locks are numbered as they are created
  held,       \* lock -> CriticalLock.held
  inside,     \* the spellings of the regions the thread is in, innermost last
  name,       \* the spelling of the region the thread enters or leaves
  lock,       \* the lock critical_lock returned to the thread
  visits,
  pc,
  word,       \* the simple lock: 0 or 1
  sets,
  simple      \* "none", or "spin" and "locked" in the thread's use of it

regions == <<registry, held, inside, name, lock, visits, pc>>
simples == <<word, sets, simple>>
vars == <<regions, simples>>

Locks == 1..Cardinality(Keys)

Init ==
  /\ registry = [k \in {} |-> NoLock]
  /\ held = [l \in Locks |-> FALSE]
  /\ inside = [t \in Threads |-> << >>]
  /\ name = [t \in Threads |-> NoName]
  /\ lock = [t \in Threads |-> NoLock]
  /\ visits = [t \in Threads |-> 0]
  /\ pc = [t \in Threads |-> "run"]
  /\ word = 0
  /\ sets = [t \in Threads |-> 0]
  /\ simple = [t \in Threads |-> "none"]

Goto(t, l) == pc' = [pc EXCEPT ![t] = l]

\* The end of a call: its name and its lock are gone.
Forget(t) ==
  /\ name' = [name EXCEPT ![t] = NoName]
  /\ lock' = [lock EXCEPT ![t] = NoLock]

\* The program's own code, in and out of regions.
Running(t) == pc[t] = "run" /\ simple[t] # "spin"

\* What the thread has, and whether the program then asks for k.
Has(t) ==
  {Lower[inside[t][i]] : i \in 1..Len(inside[t])}
    \cup {l \in {SimpleLock} : simple[t] = "locked"}
Asks(t, k) == \A j \in Has(t) : <<j, k>> \in Nests

\* critical_lock, under the registry mutex: the lock of the key, created on
\* first use.
CriticalLock(t, s) ==
  LET k == Lower[s] IN
  /\ registry' =
       IF k \in DOMAIN registry THEN registry
       ELSE [j \in DOMAIN registry \cup {k} |->
               IF j = k THEN Cardinality(DOMAIN registry) + 1 ELSE registry[j]]
  /\ lock' = [lock EXCEPT ![t] = registry'[k]]

-----------------------------------------------------------------------------
(* afs_omp_critical_enter, afs_omp_atomic_enter *)

Enter(t, s) ==
  /\ Running(t) /\ Asks(t, Lower[s])
  /\ visits[t] < MaxVisits[t]
  /\ visits' = [visits EXCEPT ![t] = @ + 1]
  /\ name' = [name EXCEPT ![t] = s]
  /\ CriticalLock(t, s)
  /\ Goto(t, "try")
  /\ UNCHANGED <<held, inside, simples>>

\* Mutant: the flag is not looked at again after a wakeup.
AcquireUnchecked(t) ==
  /\ pc[t] = "try"
  /\ held' = [held EXCEPT ![lock[t]] = TRUE]
  /\ inside' = [inside EXCEPT ![t] = Append(@, name[t])]
  /\ Goto(t, "run") /\ Forget(t)
  /\ UNCHANGED <<registry, visits, simples>>

\* One round of while *held { wait }.
Acquire(t) ==
  /\ pc[t] = "try"
  /\ ~held[lock[t]]
  /\ held' = [held EXCEPT ![lock[t]] = TRUE]
  /\ inside' = [inside EXCEPT ![t] = Append(@, name[t])]
  /\ Goto(t, "run") /\ Forget(t)
  /\ UNCHANGED <<registry, visits, simples>>

Block(t) ==
  /\ pc[t] = "try"
  /\ held[lock[t]]
  /\ Goto(t, "waiting")
  /\ UNCHANGED <<registry, held, inside, name, lock, visits, simples>>

SpuriousWakeup(t) ==
  /\ pc[t] = "waiting"
  /\ Goto(t, "try")
  /\ UNCHANGED <<registry, held, inside, name, lock, visits, simples>>

-----------------------------------------------------------------------------
(* afs_omp_critical_exit, afs_omp_atomic_exit *)

\* The end of the innermost region.
Exit(t) ==
  /\ Running(t) /\ inside[t] # << >>
  /\ name' = [name EXCEPT ![t] = inside[t][Len(inside[t])]]
  /\ CriticalLock(t, inside[t][Len(inside[t])])
  /\ Goto(t, "unlock")
  /\ UNCHANGED <<held, inside, visits, simples>>

Unlock(t) ==
  /\ pc[t] = "unlock"
  /\ Goto(t, IF held[lock[t]] THEN "notify" ELSE "error")
  /\ held' = [held EXCEPT ![lock[t]] = FALSE]
  /\ inside' = [inside EXCEPT ![t] = SubSeq(@, 1, Len(@) - 1)]
  /\ UNCHANGED <<registry, name, lock, visits, simples>>

Waiters(l) == {u \in Threads : pc[u] = "waiting" /\ lock[u] = l}

\* Mutant: nobody is woken.
NotifyNobody(t) ==
  /\ pc[t] = "notify"
  /\ Goto(t, "run") /\ Forget(t)
  /\ UNCHANGED <<registry, held, inside, visits, simples>>

NotifyOne(t) ==
  /\ pc[t] = "notify"
  /\ \/ Waiters(lock[t]) = {} /\ Goto(t, "run")
     \/ \E u \in Waiters(lock[t]) :
          pc' = [pc EXCEPT ![t] = "run", ![u] = "try"]
  /\ Forget(t)
  /\ UNCHANGED <<registry, held, inside, visits, simples>>

-----------------------------------------------------------------------------
(* afs_omp_set_lock, afs_omp_unset_lock *)

SetLock(t) ==
  /\ Running(t) /\ simple[t] = "none" /\ Asks(t, SimpleLock)
  /\ sets[t] < MaxSets[t]
  /\ sets' = [sets EXCEPT ![t] = @ + 1]
  /\ simple' = [simple EXCEPT ![t] = "spin"]
  /\ UNCHANGED <<regions, word>>

\* The round of the loop whose compare_exchange_weak succeeds; a round in which
\* it fails, by itself or because the lock is set, changes nothing.
CompareExchange(t) ==
  /\ simple[t] = "spin" /\ word = 0
  /\ word' = 1
  /\ simple' = [simple EXCEPT ![t] = "locked"]
  /\ UNCHANGED <<regions, sets>>

\* Mutant: an unset that does not reach the word.
UnsetLockLost(t) ==
  /\ Running(t) /\ simple[t] = "locked"
  /\ simple' = [simple EXCEPT ![t] = "none"]
  /\ UNCHANGED <<regions, sets, word>>

UnsetLock(t) ==
  /\ Running(t) /\ simple[t] = "locked"
  /\ word' = 0
  /\ simple' = [simple EXCEPT ![t] = "none"]
  /\ UNCHANGED <<regions, sets>>

-----------------------------------------------------------------------------
Finished(t) ==
  /\ pc[t] = "run" /\ inside[t] = << >> /\ visits[t] = MaxVisits[t]
  /\ simple[t] = "none" /\ sets[t] = MaxSets[t]
Terminated == (\A t \in Threads : Finished(t)) /\ UNCHANGED vars

Step(t) ==
  \/ \E s \in Spellings : Enter(t, s)
  \/ Acquire(t) \/ Block(t) \/ Exit(t) \/ Unlock(t) \/ NotifyOne(t)
  \/ SetLock(t) \/ CompareExchange(t) \/ UnsetLock(t)

Next == (\E t \in Threads : Step(t) \/ SpuriousWakeup(t)) \/ Terminated
Spec == Init /\ [][Next]_vars
FairSpec == Spec /\ \A t \in Threads : WF_vars(Step(t))

-----------------------------------------------------------------------------
(* Properties *)

\* No two threads, and no thread twice, are inside regions of one name, however
\* each spells it and whatever else they are nested in, and no two threads have
\* the simple lock.  A region lasts until exit's critical section.
MutualExclusion ==
  \A t, u \in Threads :
    /\ \A i \in 1..Len(inside[t]), j \in 1..Len(inside[u]) :
         Lower[inside[t][i]] = Lower[inside[u][j]] => t = u /\ i = j
    /\ simple[t] = "locked" /\ simple[u] = "locked" => t = u

\* notify_one after the unlock loses no wakeup: if threads wait on a lock that
\* is free, a thread is on its way to it or is about to notify.
NoLostWakeup ==
  \A l \in Locks :
    Waiters(l) # {} /\ ~held[l] =>
      \E u \in Threads : lock[u] = l /\ pc[u] \in {"try", "notify"}

\* No names, and no name and the lock, are nested both ways, nor a name in itself.
Acyclic ==
  \A S \in SUBSET (Keys \cup {SimpleLock}) :
    S # {} => \E k \in S : \A j \in S : <<j, k>> \notin Nests

\* Each thread runs finitely many regions and sets the lock finitely often.  If
\* the program nests them in one order, all threads get in and out of all of them.
\* (A program that does not may wait for ever; a region within one of its own
\* name always does.)
AllServed == Acyclic => <>(\A t \in Threads : Finished(t))
=============================================================================
