------------------------- MODULE OmpCriticalProofs -------------------------
(***************************************************************************)
(* Regions of one name exclude each other, and so do the owners of the     *)
(* simple lock, and no wakeup is lost, for every set of threads and every  *)
(* way names are spelled.                                                  *)
(*                                                                         *)
(* MutualExclusion speaks of names and the code of locks: the invariant    *)
(* says that a thread with a region to enter or leave has the lock of its  *)
(* name, that names have different locks (a new lock's number is one more  *)
(* than there are names), and that the locks of all regions a thread is in *)
(* are held.  Nothing is assumed of Nests: the results hold for programs   *)
(* that deadlock too.                                                      *)
(***************************************************************************)
EXTENDS OmpCritical, FiniteSetTheorems, TLAPS

Places == {"run", "try", "waiting", "unlock", "notify", "error"}

CritTypes ==
  /\ held \in [Locks -> BOOLEAN]
  /\ inside \in [Threads -> Seq(Spellings)]
  /\ name \in [Threads -> Spellings]
  /\ lock \in [Threads -> Nat]
  /\ pc \in [Threads -> Places]
  /\ word \in {0, 1}
  /\ simple \in [Threads -> {"none", "spin", "locked"}]

Numbered ==
  /\ DOMAIN registry \subseteq Keys
  /\ \A k \in DOMAIN registry : registry[k] \in 1..Cardinality(DOMAIN registry)
  /\ \A j, k \in DOMAIN registry : registry[j] = registry[k] => j = k

Key(t) == Lower[name[t]]

\* The regions thread t is in, outermost first, and their names.
Depths(t) == 1..Len(inside[t])
Name(t, i) == Lower[inside[t][i]]

Calling ==
  /\ \A t \in Threads : pc[t] \in {"try", "waiting", "unlock"} =>
       Key(t) \in DOMAIN registry /\ lock[t] = registry[Key(t)]
  /\ \A t \in Threads : pc[t] = "notify" => lock[t] \in Locks
  /\ \A t \in Threads : pc[t] = "unlock" =>
       inside[t] # << >> /\ name[t] = inside[t][Len(inside[t])]

Owned ==
  \A t \in Threads : \A i \in Depths(t) :
    Name(t, i) \in DOMAIN registry /\ held[registry[Name(t, i)]]

Apart ==
  \A t, u \in Threads : \A i \in Depths(t), j \in Depths(u) :
    Name(t, i) = Name(u, j) => t = u /\ i = j

SimpleOwned ==
  /\ \A t \in Threads : simple[t] = "locked" => word = 1
  /\ \A t, u \in Threads : simple[t] = "locked" /\ simple[u] = "locked" => t = u

CritInv ==
  CritTypes /\ Numbered /\ Calling /\ Owned /\ Apart /\ SimpleOwned /\ NoLostWakeup

-----------------------------------------------------------------------------
\* Every lock that critical_lock returns is one of Locks.
LEMMA LocksNumbered ==
  ASSUME Numbered
  PROVE  /\ IsFiniteSet(DOMAIN registry) /\ Cardinality(DOMAIN registry) \in Nat
         /\ \A k \in DOMAIN registry : registry[k] \in Locks
<1>1. IsFiniteSet(Keys) /\ DOMAIN registry \in SUBSET Keys
  BY CriticalAssumption DEF Numbered
<1>2. /\ IsFiniteSet(DOMAIN registry)
      /\ Cardinality(DOMAIN registry) <= Cardinality(Keys)
  BY <1>1, FS_Subset
<1>3. Cardinality(DOMAIN registry) \in Nat /\ Cardinality(Keys) \in Nat
  BY <1>1, <1>2, FS_CardinalityType
<1> QED BY <1>2, <1>3 DEF Numbered, Locks

\* critical_lock: names keep their locks, and keep different ones.
LEMMA LookupKeeps ==
  ASSUME Numbered, NEW t \in Threads, NEW s \in Spellings, CriticalLock(t, s),
         lock \in [Threads -> Nat]
  PROVE  /\ Numbered'
         /\ Lower[s] \in DOMAIN registry' /\ lock' = [lock EXCEPT ![t] = registry'[Lower[s]]]
         /\ DOMAIN registry \subseteq DOMAIN registry'
         /\ \A k \in DOMAIN registry : registry'[k] = registry[k]
         /\ lock' \in [Threads -> Nat]
<1> DEFINE k == Lower[s]
           D == DOMAIN registry
           n == Cardinality(D)
<1>1. k \in Keys /\ IsFiniteSet(D) /\ n \in Nat /\ D \subseteq Keys
      /\ \A j \in D : registry[j] \in 1..n
  BY LocksNumbered DEF Keys, Numbered
<1>2. lock' = [lock EXCEPT ![t] = registry'[k]]
  BY DEF CriticalLock
<1>3. CASE k \in D
  <2>1. registry' = registry
    BY <1>3 DEF CriticalLock
  <2> QED BY <1>1, <1>2, <1>3, <2>1 DEF Numbered
<1>4. CASE k \notin D
  <2>1. registry' = [j \in D \cup {k} |-> IF j = k THEN n + 1 ELSE registry[j]]
    BY <1>4 DEF CriticalLock
  <2>2. DOMAIN registry' = D \cup {k}
    BY <2>1
  <2>3. Cardinality(D \cup {k}) = n + 1
    BY <1>1, <1>4, FS_AddElement
  <2>4. registry'[k] = n + 1 /\ \A j \in D : registry'[j] = registry[j]
    BY <2>1, <1>4
  <2> HIDE DEF n, k
  <2>5. \A j \in D \cup {k} : registry'[j] \in 1..(n + 1)
    BY <1>1, <2>4
  <2>6. \A i, j \in D \cup {k} : registry'[i] = registry'[j] => i = j
    <3>1. \A j \in D : registry'[j] # n + 1
      BY <1>1, <2>4
    <3> QED BY <2>4, <3>1 DEF Numbered
  <2>7. Numbered'
    BY <1>1, <2>2, <2>3, <2>5, <2>6 DEF Numbered
  <2> QED BY <1>1, <1>2, <2>2, <2>4, <2>7 DEF k
<1> QED BY <1>3, <1>4

-----------------------------------------------------------------------------
LEMMA CritInitInv == Init => CritInv
<1> SUFFICES ASSUME Init PROVE CritInv
  OBVIOUS
<1>1. NoName \in Spellings
  BY CriticalAssumption DEF NoName
<1>2. CritTypes
  BY <1>1 DEF Init, CritTypes, Places, NoLock
<1>3. DOMAIN registry = {} /\ \A t \in Threads : Depths(t) = {} /\ pc[t] = "run"
  BY DEF Init, Depths
<1>4. Numbered /\ Calling /\ Owned /\ Apart
  BY <1>3 DEF Numbered, Calling, Owned, Apart
<1>5. SimpleOwned /\ NoLostWakeup
  BY DEF Init, SimpleOwned, NoLostWakeup, Waiters
<1> QED BY <1>2, <1>4, <1>5 DEF CritInv

\* The simple lock's steps and the regions' do not touch each other's state.
LEMMA RegionsFrame ==
  ASSUME CritInv, UNCHANGED regions
  PROVE  Numbered' /\ Calling' /\ Owned' /\ Apart' /\ NoLostWakeup'
<1>1. Numbered' /\ Calling' /\ NoLostWakeup'
  BY DEF CritInv, regions, Numbered, Calling, Key, NoLostWakeup, Waiters
<1>2. Owned' /\ Apart'
  BY DEF CritInv, regions, Owned, Apart, Depths, Name
<1> QED BY <1>1, <1>2

LEMMA SimpleFrame ==
  ASSUME CritInv, UNCHANGED simples
  PROVE  SimpleOwned'
BY DEF CritInv, simples, SimpleOwned

\* A call that finds its lock disturbs nobody who has one.
LEMMA LookupFrame ==
  ASSUME CritInv, Numbered',
         DOMAIN registry \subseteq DOMAIN registry',
         \A k \in DOMAIN registry : registry'[k] = registry[k],
         UNCHANGED <<held, inside>>
  PROVE  Owned' /\ Apart'
<1>1. \A t \in Threads : Depths(t)' = Depths(t)
  BY DEF Depths
<1>2. \A t \in Threads : \A i \in Depths(t) : Name(t, i)' = Name(t, i)
  BY DEF Name
<1>3. Owned'
  BY <1>1, <1>2 DEF CritInv, Owned
<1>4. Apart'
  BY <1>1, <1>2 DEF CritInv, Apart
<1> QED BY <1>3, <1>4

LEMMA EnterInv ==
  ASSUME CritInv, NEW t \in Threads, NEW s \in Spellings, Enter(t, s)
  PROVE  CritInv'
<1> USE DEF CritInv
<1>1. /\ Numbered'
      /\ Lower[s] \in DOMAIN registry' /\ lock' = [lock EXCEPT ![t] = registry'[Lower[s]]]
      /\ DOMAIN registry \subseteq DOMAIN registry'
      /\ \A k \in DOMAIN registry : registry'[k] = registry[k]
      /\ lock' \in [Threads -> Nat]
  BY LookupKeeps DEF Enter, CritTypes
<1>2. /\ pc[t] = "run" /\ pc' = [pc EXCEPT ![t] = "try"] /\ UNCHANGED <<held, inside>>
      /\ name' = [name EXCEPT ![t] = s] /\ UNCHANGED simples
  BY DEF Enter, Running, Goto
<1>3. CritTypes'
  BY <1>1, <1>2 DEF CritTypes, Places, simples
<1>4. Calling'
  <2>1. ASSUME NEW u \in Threads, pc'[u] \in {"try", "waiting", "unlock"}
        PROVE  Key(u)' \in DOMAIN registry' /\ lock'[u] = registry'[Key(u)']
    <3>1. CASE u = t
      BY <3>1, <1>1, <1>2 DEF CritTypes, Key
    <3>2. CASE u # t
      <4>1. pc'[u] = pc[u] /\ name'[u] = name[u] /\ lock'[u] = lock[u]
        BY <3>2, <1>1, <1>2 DEF CritTypes
      <4> QED BY <4>1, <2>1, <1>1 DEF Calling, Key
    <3> QED BY <3>1, <3>2
  <2>2. ASSUME NEW u \in Threads, pc'[u] # "try"
        PROVE  pc'[u] = pc[u] /\ lock'[u] = lock[u] /\ name'[u] = name[u]
    BY <2>2, <1>1, <1>2 DEF CritTypes
  <2> QED BY <2>1, <2>2, <1>2 DEF Calling
<1>5. NoLostWakeup'
  <2> SUFFICES ASSUME NEW l \in Locks, NEW w \in Threads,
                      pc'[w] = "waiting", lock'[w] = l, ~held'[l]
               PROVE  \E u \in Threads : lock'[u] = l /\ pc'[u] \in {"try", "notify"}
    BY DEF NoLostWakeup, Waiters
  <2>1. pc[w] = "waiting" /\ lock[w] = l /\ ~held[l]
    BY <1>1, <1>2 DEF CritTypes
  <2>2. PICK u \in Threads : lock[u] = l /\ pc[u] \in {"try", "notify"}
    BY <2>1 DEF NoLostWakeup, Waiters
  <2>3. u # t
    BY <2>2, <1>2
  <2> QED BY <2>2, <2>3, <1>1, <1>2 DEF CritTypes
<1>6. Owned' /\ Apart'
  BY <1>1, <1>2, LookupFrame
<1> QED BY <1>1, <1>2, <1>3, <1>4, <1>5, <1>6, SimpleFrame

\* A region is entered when no thread is in one of its name: all those are held.
LEMMA AcquireInv ==
  ASSUME CritInv, NEW t \in Threads, Acquire(t)
  PROVE  CritInv'
<1> USE DEF CritInv
<1>1. /\ pc[t] = "try" /\ ~held[lock[t]] /\ held' = [held EXCEPT ![lock[t]] = TRUE]
      /\ pc' = [pc EXCEPT ![t] = "run"]
      /\ inside' = [inside EXCEPT ![t] = Append(@, name[t])]
      /\ name' = [name EXCEPT ![t] = NoName] /\ lock' = [lock EXCEPT ![t] = NoLock]
      /\ registry' = registry /\ UNCHANGED simples
  BY DEF Acquire, Goto, Forget
<1>2. Key(t) \in DOMAIN registry /\ lock[t] = registry[Key(t)] /\ lock[t] \in Locks
  BY <1>1, LocksNumbered DEF Calling
<1>3. /\ inside[t] \in Seq(Spellings) /\ name[t] \in Spellings
      /\ NoName \in Spellings /\ NoLock \in Nat
  BY CriticalAssumption DEF CritTypes, NoName, NoLock
<1>4. /\ inside'[t] = Append(inside[t], name[t])
      /\ \A u \in Threads : u # t => /\ inside'[u] = inside[u] /\ pc'[u] = pc[u]
                                      /\ name'[u] = name[u] /\ lock'[u] = lock[u]
      /\ pc'[t] = "run"
  BY <1>1 DEF CritTypes
<1>5. CritTypes'
  <2>1. Append(inside[t], name[t]) \in Seq(Spellings)
    BY <1>3
  <2>2. inside' \in [Threads -> Seq(Spellings)]
    BY <2>1, <1>1 DEF CritTypes
  <2> QED BY <2>2, <1>1, <1>2, <1>3 DEF CritTypes, Places, simples
<1>6. Calling'
  BY <1>1, <1>4 DEF Calling, Key
<1> PICK n \in Nat : n = Len(inside[t]) + 1
  <2>1. Len(inside[t]) \in Nat
    BY <1>3
  <2> QED BY <2>1
<1>7. /\ Depths(t)' = Depths(t) \cup {n} /\ n \notin Depths(t)
      /\ Name(t, n)' = Key(t) /\ \A i \in Depths(t) : Name(t, i)' = Name(t, i)
  <2>1. Len(inside[t]) \in Nat /\ Len(inside'[t]) = n
    BY <1>3, <1>4
  <2>2. inside'[t][n] = name[t] /\ \A i \in 1..Len(inside[t]) : inside'[t][i] = inside[t][i]
    BY <1>3, <1>4
  <2>3. 1..n = (1..Len(inside[t])) \cup {n} /\ n \notin 1..Len(inside[t])
    BY <2>1
  <2>4. Depths(t)' = Depths(t) \cup {n} /\ n \notin Depths(t)
    BY <2>1, <2>3 DEF Depths
  <2>5. Name(t, n)' = Key(t) /\ \A i \in Depths(t) : Name(t, i)' = Name(t, i)
    BY <2>2 DEF Depths, Name, Key
  <2> QED BY <2>4, <2>5
<1>8. \A u \in Threads : u # t =>
        Depths(u)' = Depths(u) /\ \A i \in Depths(u) : Name(u, i)' = Name(u, i)
  BY <1>4 DEF Depths, Name
<1>9. \A u \in Threads : \A i \in Depths(u) : Name(u, i) # Key(t)
  BY <1>1, <1>2 DEF Owned
<1>10. Owned'
  <2>1. \A l \in Locks : held[l] => held'[l]
    BY <1>1, <1>2 DEF CritTypes
  <2>2. held'[lock[t]]
    BY <1>1, <1>2 DEF CritTypes
  <2>3. \A k \in DOMAIN registry : registry[k] \in Locks
    BY LocksNumbered
  <2>4. ASSUME NEW u \in Threads, NEW i \in Depths(u)
        PROVE  Name(u, i) \in DOMAIN registry' /\ held'[registry'[Name(u, i)]]
    BY <1>1, <2>1, <2>3 DEF Owned
  <2>5. Name(t, n)' \in DOMAIN registry' /\ held'[registry'[Name(t, n)']]
    BY <1>1, <1>2, <1>7, <2>2
  <2>6. ASSUME NEW u \in Threads, NEW i \in Depths(u)'
        PROVE  Name(u, i)' \in DOMAIN registry' /\ held'[registry'[Name(u, i)']]
    BY <1>7, <1>8, <2>4, <2>5
  <2> QED BY <2>6 DEF Owned
<1>11. Apart'
  <2> SUFFICES ASSUME NEW u \in Threads, NEW w \in Threads, NEW i \in Depths(u)',
                      NEW j \in Depths(w)', Name(u, i)' = Name(w, j)'
               PROVE  u = w /\ i = j
    BY DEF Apart
  <2>1. ASSUME NEW x \in Threads, NEW k \in Depths(x)'
        PROVE  \/ x = t /\ k = n /\ Name(x, k)' = Key(t)
               \/ k \in Depths(x) /\ Name(x, k)' = Name(x, k) /\ Name(x, k) # Key(t)
    BY <1>7, <1>8, <1>9
  <2>2. \/ u = t /\ i = n /\ Name(u, i)' = Key(t)
        \/ i \in Depths(u) /\ Name(u, i)' = Name(u, i) /\ Name(u, i) # Key(t)
    BY <2>1
  <2>3. \/ w = t /\ j = n /\ Name(w, j)' = Key(t)
        \/ j \in Depths(w) /\ Name(w, j)' = Name(w, j) /\ Name(w, j) # Key(t)
    BY <2>1
  <2> QED BY <2>2, <2>3 DEF Apart
<1>12. NoLostWakeup'
  <2> SUFFICES ASSUME NEW l \in Locks, NEW w \in Threads,
                      pc'[w] = "waiting", lock'[w] = l, ~held'[l]
               PROVE  \E u \in Threads : lock'[u] = l /\ pc'[u] \in {"try", "notify"}
    BY DEF NoLostWakeup, Waiters
  <2>1. w # t /\ pc[w] = "waiting" /\ lock[w] = l /\ ~held[l] /\ l # lock[t]
    BY <1>1, <1>2, <1>4 DEF CritTypes
  <2>2. PICK u \in Threads : lock[u] = l /\ pc[u] \in {"try", "notify"}
    BY <2>1 DEF NoLostWakeup, Waiters
  <2> QED BY <2>1, <2>2, <1>4
<1> QED BY <1>1, <1>5, <1>6, <1>10, <1>11, <1>12, SimpleFrame DEF Numbered

\* Waiting begins only on a lock that is held; waking leaves a thread that tries.
LEMMA BlockInv ==
  ASSUME CritInv, NEW t \in Threads, Block(t) \/ SpuriousWakeup(t)
  PROVE  CritInv'
<1> USE DEF CritInv
<1>1. /\ \/ pc[t] = "try" /\ held[lock[t]] /\ pc' = [pc EXCEPT ![t] = "waiting"]
         \/ pc[t] = "waiting" /\ pc' = [pc EXCEPT ![t] = "try"]
      /\ UNCHANGED <<registry, held, inside, name, lock>> /\ UNCHANGED simples
  BY DEF Block, SpuriousWakeup, Goto
<1>2. /\ pc[t] \in {"try", "waiting"} /\ pc'[t] \in {"try", "waiting"}
      /\ \A u \in Threads : u # t => pc'[u] = pc[u]
  BY <1>1 DEF CritTypes
<1>3. CritTypes'
  BY <1>1 DEF CritTypes, Places, simples
<1>4. Calling'
  BY <1>1, <1>2 DEF Calling, Key
<1>5. NoLostWakeup'
  <2> SUFFICES ASSUME NEW l \in Locks, NEW w \in Threads,
                      pc'[w] = "waiting", lock'[w] = l, ~held'[l]
               PROVE  \E u \in Threads : lock'[u] = l /\ pc'[u] \in {"try", "notify"}
    BY DEF NoLostWakeup, Waiters
  <2>1. ~held[l] /\ pc[w] = "waiting" /\ lock[w] = l
    BY <1>1, <1>2 DEF CritTypes
  <2>2. PICK u \in Threads : lock[u] = l /\ pc[u] \in {"try", "notify"}
    BY <2>1 DEF NoLostWakeup, Waiters
  <2>3. CASE u = t
    <3>1. pc[t] = "try" /\ held[lock[t]]
      BY <2>2, <2>3, <1>1
    <3> QED BY <3>1, <2>1, <2>2, <2>3
  <2>4. CASE u # t
    BY <2>2, <2>4, <1>1, <1>2
  <2> QED BY <2>3, <2>4
<1>6. Numbered' /\ Owned' /\ Apart'
  BY <1>1, LookupFrame DEF Numbered
<1> QED BY <1>1, <1>3, <1>4, <1>5, <1>6, SimpleFrame

\* The exit finds the lock that the entry to the innermost region took.
LEMMA ExitInv ==
  ASSUME CritInv, NEW t \in Threads, Exit(t)
  PROVE  CritInv'
<1> USE DEF CritInv
<1>1. /\ Len(inside[t]) \in 1..Len(inside[t]) /\ inside[t] # << >>
      /\ inside[t][Len(inside[t])] \in Spellings
  <2>1. inside[t] \in Seq(Spellings) /\ inside[t] # << >>
    BY DEF CritTypes, Exit
  <2> QED BY <2>1
<1> DEFINE s == inside[t][Len(inside[t])]
<1>2. /\ Numbered'
      /\ Lower[s] \in DOMAIN registry' /\ lock' = [lock EXCEPT ![t] = registry'[Lower[s]]]
      /\ DOMAIN registry \subseteq DOMAIN registry'
      /\ \A k \in DOMAIN registry : registry'[k] = registry[k]
      /\ lock' \in [Threads -> Nat]
  BY <1>1, LookupKeeps DEF Exit, CritTypes
<1>3. /\ pc[t] = "run" /\ pc' = [pc EXCEPT ![t] = "unlock"] /\ UNCHANGED <<held, inside>>
      /\ name' = [name EXCEPT ![t] = s] /\ UNCHANGED simples
  BY DEF Exit, Running, Goto
<1>4. /\ pc'[t] = "unlock" /\ name'[t] = s /\ lock'[t] = registry'[Lower[s]]
      /\ \A u \in Threads : u # t => /\ pc'[u] = pc[u] /\ name'[u] = name[u]
                                      /\ lock'[u] = lock[u]
  BY <1>2, <1>3 DEF CritTypes
<1>5. CritTypes'
  BY <1>1, <1>2, <1>3 DEF CritTypes, Places, simples
<1>6. Calling'
  <2>1. ASSUME NEW u \in Threads, pc'[u] \in {"try", "waiting", "unlock"}
        PROVE  Key(u)' \in DOMAIN registry' /\ lock'[u] = registry'[Key(u)']
    <3>1. CASE u = t
      BY <3>1, <1>2, <1>4 DEF Key
    <3>2. CASE u # t
      BY <3>2, <2>1, <1>2, <1>4 DEF Calling, Key
    <3> QED BY <3>1, <3>2
  <2>2. \A u \in Threads : pc'[u] = "notify" => lock'[u] \in Locks
    BY <1>4 DEF Calling
  <2>3. \A u \in Threads : pc'[u] = "unlock" =>
          inside'[u] # << >> /\ name'[u] = inside'[u][Len(inside'[u])]
    BY <1>1, <1>3, <1>4 DEF Calling
  <2> QED BY <2>1, <2>2, <2>3 DEF Calling
<1>7. NoLostWakeup'
  <2> SUFFICES ASSUME NEW l \in Locks, NEW w \in Threads,
                      pc'[w] = "waiting", lock'[w] = l, ~held'[l]
               PROVE  \E u \in Threads : lock'[u] = l /\ pc'[u] \in {"try", "notify"}
    BY DEF NoLostWakeup, Waiters
  <2>1. pc[w] = "waiting" /\ lock[w] = l /\ ~held[l]
    BY <1>3, <1>4
  <2>2. PICK u \in Threads : lock[u] = l /\ pc[u] \in {"try", "notify"}
    BY <2>1 DEF NoLostWakeup, Waiters
  <2> QED BY <2>2, <1>3, <1>4
<1>8. Owned' /\ Apart'
  BY <1>2, <1>3, LookupFrame
<1> QED BY <1>2, <1>3, <1>5, <1>6, <1>7, <1>8, SimpleFrame

\* Whoever unlocks leaves its innermost region and is about to notify.
LEMMA UnlockInv ==
  ASSUME CritInv, NEW t \in Threads, Unlock(t)
  PROVE  CritInv'
<1> USE DEF CritInv
<1> PICK n \in Nat : n = Len(inside[t])
  <2>1. Len(inside[t]) \in Nat
    BY DEF CritTypes
  <2> QED BY <2>1
<1>1. /\ pc[t] = "unlock" /\ inside[t] \in Seq(Spellings) /\ inside[t] # << >>
      /\ name[t] = inside[t][n] /\ n \in Nat \ {0}
  <2>1. pc[t] = "unlock" /\ inside[t] \in Seq(Spellings)
    BY DEF Unlock, CritTypes
  <2>2. inside[t] # << >> /\ name[t] = inside[t][n]
    BY <2>1 DEF Calling
  <2> QED BY <2>1, <2>2
<1>2. /\ n \in Depths(t) /\ Name(t, n) = Key(t) /\ Key(t) \in DOMAIN registry
      /\ lock[t] = registry[Key(t)] /\ lock[t] \in Locks
  BY <1>1, LocksNumbered DEF Depths, Name, Key, Calling
<1>3. held[lock[t]]
  BY <1>2 DEF Owned
<1>4. /\ pc' = [pc EXCEPT ![t] = "notify"] /\ held' = [held EXCEPT ![lock[t]] = FALSE]
      /\ inside' = [inside EXCEPT ![t] = SubSeq(@, 1, Len(@) - 1)]
      /\ UNCHANGED <<registry, name, lock>> /\ UNCHANGED simples
  BY <1>3 DEF Unlock, Goto
<1>5. /\ pc'[t] = "notify" /\ inside'[t] = SubSeq(inside[t], 1, n - 1)
      /\ \A u \in Threads : u # t => pc'[u] = pc[u] /\ inside'[u] = inside[u]
  BY <1>4 DEF CritTypes
<1>6. CritTypes'
  <2>1. SubSeq(inside[t], 1, n - 1) \in Seq(Spellings)
    BY <1>1
  <2>2. inside' \in [Threads -> Seq(Spellings)]
    BY <2>1, <1>4 DEF CritTypes
  <2> QED BY <2>2, <1>2, <1>4 DEF CritTypes, Places, simples
<1>7. Calling'
  BY <1>2, <1>4, <1>5 DEF Calling, Key
<1>8. /\ Depths(t)' = Depths(t) \ {n}
      /\ \A i \in Depths(t) \ {n} : Name(t, i)' = Name(t, i)
  <2>1. Len(inside'[t]) = n - 1 /\ 1..(n - 1) = (1..n) \ {n}
    BY <1>1, <1>5
  <2>2. \A i \in 1..(n - 1) : inside'[t][i] = inside[t][i]
    BY <1>1, <1>5
  <2>3. Depths(t)' = Depths(t) \ {n}
    BY <2>1 DEF Depths
  <2> QED BY <2>1, <2>2, <2>3 DEF Depths, Name
<1>9. \A u \in Threads : u # t =>
        Depths(u)' = Depths(u) /\ \A i \in Depths(u) : Name(u, i)' = Name(u, i)
  BY <1>5 DEF Depths, Name
<1>10. ASSUME NEW u \in Threads, NEW i \in Depths(u)'
       PROVE  /\ i \in Depths(u) /\ Name(u, i)' = Name(u, i)
              /\ Name(u, i) # Key(t)
  <2>1. i \in Depths(u) /\ Name(u, i)' = Name(u, i) /\ (u = t => i # n)
    <3>1. CASE u = t
      BY <3>1, <1>8
    <3>2. CASE u # t
      BY <3>2, <1>9
    <3> QED BY <3>1, <3>2
  <2> QED BY <2>1, <1>2 DEF Apart
<1>11. Owned'
  <2> SUFFICES ASSUME NEW u \in Threads, NEW i \in Depths(u)'
               PROVE  Name(u, i)' \in DOMAIN registry' /\ held'[registry'[Name(u, i)']]
    BY DEF Owned
  <2>1. /\ i \in Depths(u) /\ Name(u, i)' = Name(u, i) /\ Name(u, i) # Key(t)
    BY <1>10
  <2>2. Name(u, i) \in DOMAIN registry /\ held[registry[Name(u, i)]]
    BY <2>1 DEF Owned
  <2>3. registry[Name(u, i)] # lock[t] /\ registry[Name(u, i)] \in Locks
    BY <2>1, <2>2, <1>2, LocksNumbered DEF Numbered
  <2>4. held'[registry[Name(u, i)]]
    BY <2>2, <2>3, <1>2, <1>4 DEF CritTypes
  <2> QED BY <2>1, <2>2, <2>4, <1>4
<1>12. Apart'
  BY <1>10 DEF Apart
<1>13. NoLostWakeup'
  <2> SUFFICES ASSUME NEW l \in Locks, NEW w \in Threads,
                      pc'[w] = "waiting", lock'[w] = l, ~held'[l]
               PROVE  \E u \in Threads : lock'[u] = l /\ pc'[u] \in {"try", "notify"}
    BY DEF NoLostWakeup, Waiters
  <2>1. CASE l = lock[t]
    BY <2>1, <1>4, <1>5
  <2>2. CASE l # lock[t]
    <3>1. pc[w] = "waiting" /\ lock[w] = l /\ ~held[l]
      BY <2>2, <1>4, <1>5 DEF CritTypes
    <3>2. PICK u \in Threads : lock[u] = l /\ pc[u] \in {"try", "notify"}
      BY <3>1 DEF NoLostWakeup, Waiters
    <3> QED BY <2>2, <3>2, <1>4, <1>5
  <2> QED BY <2>1, <2>2
<1> QED BY <1>4, <1>6, <1>7, <1>11, <1>12, <1>13, SimpleFrame DEF Numbered

\* A notification either reaches a waiter, which then tries, or nobody waits.
LEMMA NotifyInv ==
  ASSUME CritInv, NEW t \in Threads, NotifyOne(t)
  PROVE  CritInv'
<1> USE DEF CritInv
<1>1. /\ pc[t] = "notify" /\ UNCHANGED <<registry, held, inside>> /\ UNCHANGED simples
      /\ name' = [name EXCEPT ![t] = NoName] /\ lock' = [lock EXCEPT ![t] = NoLock]
  BY DEF NotifyOne, Forget
<1>2. PICK W \in SUBSET Threads :
        /\ \A u \in W : pc[u] = "waiting" /\ lock[u] = lock[t] /\ u # t
        /\ pc' = [u \in Threads |-> IF u = t THEN "run" ELSE IF u \in W THEN "try" ELSE pc[u]]
        /\ W = {} => Waiters(lock[t]) = {}
  <2>1. CASE Waiters(lock[t]) = {} /\ Goto(t, "run")
    <3> WITNESS {} \in SUBSET Threads
    <3> QED BY <2>1 DEF Goto, CritTypes
  <2>2. ASSUME NEW u \in Waiters(lock[t]), pc' = [pc EXCEPT ![t] = "run", ![u] = "try"]
        PROVE  \E W \in SUBSET Threads :
                 /\ \A v \in W : pc[v] = "waiting" /\ lock[v] = lock[t] /\ v # t
                 /\ pc' = [v \in Threads |-> IF v = t THEN "run"
                                            ELSE IF v \in W THEN "try" ELSE pc[v]]
                 /\ W = {} => Waiters(lock[t]) = {}
    <3>1. u \in Threads /\ pc[u] = "waiting" /\ lock[u] = lock[t] /\ u # t
      BY <1>1 DEF Waiters
    <3>2. {u} \in SUBSET Threads
      BY <3>1
    <3>3. pc' = [v \in Threads |-> IF v = t THEN "run"
                                   ELSE IF v \in {u} THEN "try" ELSE pc[v]]
      BY <2>2, <3>1 DEF CritTypes
    <3> WITNESS {u} \in SUBSET Threads
    <3> QED BY <3>1, <3>3
  <2> QED BY <2>1, <2>2 DEF NotifyOne
<1>3. \A u \in Threads : u # t => name'[u] = name[u] /\ lock'[u] = lock[u]
  BY <1>1 DEF CritTypes
<1>4. CritTypes'
  <2>1. NoName \in Spellings /\ NoLock \in Nat
    BY CriticalAssumption DEF NoName, NoLock
  <2>2. pc' \in [Threads -> Places]
    BY <1>2 DEF CritTypes, Places
  <2> QED BY <2>1, <2>2, <1>1 DEF CritTypes, simples
<1>5. pc'[t] = "run"
  BY <1>2
<1>6. Calling'
  <2>1. ASSUME NEW u \in Threads, pc'[u] \in {"try", "waiting", "unlock"}
        PROVE  Key(u)' \in DOMAIN registry' /\ lock'[u] = registry'[Key(u)']
    <3>1. u # t /\ pc[u] \in {"try", "waiting", "unlock"}
      BY <2>1, <1>2, <1>5
    <3>2. Key(u)' = Key(u) /\ lock'[u] = lock[u]
      BY <3>1, <1>3 DEF Key
    <3> QED BY <3>1, <3>2, <1>1 DEF Calling
  <2>2. \A u \in Threads : pc'[u] \in {"unlock", "notify"} => u # t /\ pc[u] = pc'[u]
    BY <1>2, <1>5
  <2> QED BY <2>1, <2>2, <1>1, <1>3 DEF Calling
<1>7. NoLostWakeup'
  <2> SUFFICES ASSUME NEW l \in Locks, NEW w \in Threads,
                      pc'[w] = "waiting", lock'[w] = l, ~held'[l]
               PROVE  \E u \in Threads : lock'[u] = l /\ pc'[u] \in {"try", "notify"}
    BY DEF NoLostWakeup, Waiters
  <2>1. w # t /\ pc[w] = "waiting" /\ lock[w] = l /\ ~held[l]
    BY <1>1, <1>2, <1>3, <1>5
  <2>2. PICK u \in Threads : lock[u] = l /\ pc[u] \in {"try", "notify"}
    BY <2>1 DEF NoLostWakeup, Waiters
  <2>3. CASE u # t
    <3>1. pc'[u] = pc[u]
      BY <2>2, <2>3, <1>2
    <3> QED BY <2>2, <2>3, <3>1, <1>3
  <2>4. CASE u = t
    <3>1. w \in Waiters(lock[t])
      BY <2>1, <2>2, <2>4 DEF Waiters
    <3>2. PICK v \in W : TRUE
      BY <3>1, <1>2
    <3>3. v \in Threads /\ v # t /\ lock[v] = l /\ pc'[v] = "try"
      BY <3>2, <2>2, <2>4, <1>2
    <3> QED BY <3>3, <1>3
  <2> QED BY <2>3, <2>4
<1>8. Numbered' /\ Owned' /\ Apart'
  BY <1>1, LookupFrame DEF Numbered
<1> QED BY <1>1, <1>4, <1>6, <1>7, <1>8, SimpleFrame

\* The word is 1 while a thread has the lock, so no other exchange succeeds.
LEMMA SimpleInv ==
  ASSUME CritInv, NEW t \in Threads, SetLock(t) \/ CompareExchange(t) \/ UnsetLock(t)
  PROVE  CritInv'
<1> USE DEF CritInv
<1>1. UNCHANGED regions
  BY DEF SetLock, CompareExchange, UnsetLock
<1>2. /\ \/ simple[t] = "none" /\ word' = word /\ simple' = [simple EXCEPT ![t] = "spin"]
         \/ word = 0 /\ word' = 1 /\ simple' = [simple EXCEPT ![t] = "locked"]
         \/ simple[t] = "locked" /\ word' = 0 /\ simple' = [simple EXCEPT ![t] = "none"]
  BY DEF SetLock, CompareExchange, UnsetLock
<1>3. CritTypes'
  BY <1>1, <1>2 DEF CritTypes, regions
<1>4. SimpleOwned'
  <2>1. CASE word' = word /\ simple' = [simple EXCEPT ![t] = "spin"]
    BY <2>1 DEF SimpleOwned, CritTypes
  <2>2. CASE word = 0 /\ word' = 1 /\ simple' = [simple EXCEPT ![t] = "locked"]
    <3>1. \A u \in Threads : simple[u] # "locked"
      BY <2>2 DEF SimpleOwned
    <3> QED BY <2>2, <3>1 DEF SimpleOwned, CritTypes
  <2>3. CASE simple[t] = "locked" /\ simple' = [simple EXCEPT ![t] = "none"]
    <3>1. \A u \in Threads : simple'[u] # "locked"
      BY <2>3 DEF SimpleOwned, CritTypes
    <3> QED BY <3>1 DEF SimpleOwned
  <2> QED BY <1>2, <2>1, <2>2, <2>3
<1> QED BY <1>1, <1>3, <1>4, RegionsFrame

LEMMA CritStepInv == CritInv /\ [Next]_vars => CritInv'
<1> SUFFICES ASSUME CritInv, [Next]_vars PROVE CritInv'
  OBVIOUS
<1>1. CASE UNCHANGED vars
  BY <1>1, RegionsFrame, SimpleFrame DEF vars, CritInv, CritTypes, regions, simples
<1>2. ASSUME NEW t \in Threads, Step(t) \/ SpuriousWakeup(t) PROVE CritInv'
  BY <1>2, EnterInv, AcquireInv, BlockInv, ExitInv, UnlockInv, NotifyInv, SimpleInv DEF Step
<1> QED BY <1>1, <1>2 DEF Next, Terminated

LEMMA InvExcludes == CritInv => MutualExclusion
BY DEF CritInv, Apart, Depths, Name, SimpleOwned, MutualExclusion

-----------------------------------------------------------------------------
\* Regions of one name exclude each other however it is spelled and whatever they
\* are nested in, and a simple lock has one owner (afs_omp_critical_enter,
\* afs_omp_set_lock).
THEOREM RegionsExclude == Spec => []MutualExclusion
BY CritInitInv, CritStepInv, InvExcludes, PTL DEF Spec

\* A notification after the mutex is dropped is enough: no thread waits on a
\* free lock with nobody on the way to it (afs_omp_critical_exit).
THEOREM WakeupsReachWaiters == Spec => []NoLostWakeup
<1>1. CritInv => NoLostWakeup
  BY DEF CritInv
<1> QED BY <1>1, CritInitInv, CritStepInv, PTL DEF Spec
=============================================================================
