---------------------------- MODULE RegAllocProofs ----------------------------
(***************************************************************************)
(* The allocation and the code around a call are right for any number of   *)
(* values, any registers, calls, live ranges and arguments.                *)
(*                                                                         *)
(* The scan (LinearScan): the invariant ties the lists that linear_scan    *)
(* keeps (active, the free pools, the worklist) to the map it returns,     *)
(* which "accumulates stale historical entries": a value that has a        *)
(* register is active, or ends before everything still to be handled       *)
(* begins.                                                                 *)
(*                                                                         *)
(* The copies (ParallelCopy): the invariant says what every pending source *)
(* still holds and what every written destination already holds; that it   *)
(* survives a broken cycle is a counting argument: as many sources as      *)
(* copies, as many destinations as copies, and every destination a source, *)
(* leave no source over for a temporary.                                   *)
(*                                                                         *)
(* The call (RegAlloc): two values that are live at one position are never *)
(* in one place, so the value found in a place before the argument copies  *)
(* is the one that belongs there.                                          *)
(***************************************************************************)
EXTENDS RegAlloc, FiniteSetTheorems, TLAPS

\* Most leaves are first-order; Zenon is tried first, briefly, and SMT then.
USE ZenonT(2), SMT

-----------------------------------------------------------------------------
(* The scan *)

\* A value whose range means something: an original, or the rest of a split one.
Known(n) == n \in VRegs \/ (n \in Names /\ n - N \in split)

Types ==
    /\ input \in Inputs
    /\ todo \subseteq Names /\ split \subseteq VRegs
    /\ home \in [Names -> Regs \cup {"none", "slot"}]
    /\ free \subseteq Regs
    /\ active \subseteq [reg : Regs, end : Nat, vreg : Names]
    /\ \A v \in split : CallOf(v) \in Calls /\ input[v].start < CallOf(v)
    /\ \A n \in Names : n \in todo \/ home[n] # "none" => Known(n)
    /\ \A n \in todo : home[n] = "none" /\ n \notin split

\* The active list, the free pools and the map agree.
Books ==
    /\ \A a \in active :
          /\ home[a.vreg] = a.reg /\ a.end = HeldTo(a.vreg)
          /\ a.reg \notin free
    /\ \A a, b \in active : a.reg = b.reg => a = b
    /\ \A n \in Names : home[n] \in Regs =>
          \/ \E a \in active : a.vreg = n
          \/ \A u \in todo : HeldTo(n) < From(u)
    /\ \A n \in Names, u \in todo : home[n] \in Regs => From(n) <= From(u)

\* No caller-saved register is held over a call, and the callee-saved ones in use
\* are known.
Guarded ==
    \A v \in Names :
        /\ home[v] \in Caller => Crossed(From(v), HeldTo(v)) = {}
        /\ home[v] \in Callee => home[v] \in used

ScanInv == Types /\ Books /\ NoSharing /\ Guarded

\* The second half of a split interval has a name of its own.
LEMMA PostName ==
    ASSUME NEW v \in VRegs
    PROVE  v \in Names /\ Post(v) \in Names /\ Post(v) \notin VRegs /\ Post(v) - N = v
BY ScanAssumption, SMT DEF VRegs, Names, Post

\* Ranges are ranges of positions.
LEMMA RangeTypes ==
    ASSUME Types, NEW n, Known(n)
    PROVE  From(n) \in Nat /\ To(n) \in Nat
<1>1. \A v \in VRegs : input[v] \in LiveInterval
  BY ScanAssumption DEF Types
<1>2. CASE n \in VRegs
  BY <1>1, <1>2 DEF From, To, LiveInterval
<1>3. CASE n \notin VRegs
  <2>1. n - N \in split /\ n - N \in VRegs
    BY <1>3 DEF Known, Types
  <2>2. CallOf(n - N) \in Nat
    BY <2>1, ScanAssumption DEF Types
  <2> QED
    BY <1>1, <1>3, <2>1, <2>2, SMT DEF From, To, LiveInterval
<1> QED
  BY <1>2, <1>3

\* The last position a name holds its register at is a position.
LEMMA HeldType ==
    ASSUME Types, NEW n, Known(n)
    PROVE  HeldTo(n) \in Nat
<1>1. CASE n \in split
  <2>1. CallOf(n) \in Nat /\ CallOf(n) # 0
    BY <1>1, ScanAssumption DEF Types
  <2>2. HeldTo(n) = CallOf(n) - 1
    BY <1>1 DEF HeldTo
  <2> QED
    BY <2>1, <2>2, SMT
<1>2. CASE n \notin split
  BY <1>2, RangeTypes DEF HeldTo
<1> QED
  BY <1>1, <1>2

\* The call a value is split at, when it is the only one it crosses.
LEMMA SplitCall ==
    ASSUME Types, NEW v, Splittable(v)
    PROVE  /\ CallOf(v) \in Calls /\ CallOf(v) \in Nat
           /\ From(v) < CallOf(v) /\ CallOf(v) < To(v)
           /\ From(v) = input[v].start
           /\ Crossed(From(v), To(v)) = {CallOf(v)}
<1>1. /\ v \in VRegs /\ From(v) = input[v].start /\ To(v) = input[v].end
  BY DEF Splittable, From, To
<1>2. PICK c \in Calls : Crossed(From(v), To(v)) = {c}
  BY DEF Splittable
<1>3. c \in Calls /\ input[v].start < c /\ c < input[v].end
  BY <1>1, <1>2 DEF Crossed
<1>4. CallOf(v) \in Calls /\ input[v].start < CallOf(v) /\ CallOf(v) < input[v].end
  BY <1>3 DEF CallOf
<1>5. CallOf(v) \in Crossed(From(v), To(v))
  BY <1>1, <1>4 DEF Crossed
<1> QED
  BY <1>1, <1>2, <1>4, <1>5, ScanAssumption

\* What is true when a value reaches the head of the worklist: a register that
\* is free then, or will be after expiry, holds nothing that is still live, and
\* everything that has a register began no later.
LEMMA HeadFacts ==
    ASSUME ScanInv, NEW v \in Names, AtHead(v)
    PROVE  /\ Known(v) /\ home[v] = "none" /\ v \notin split
           /\ From(v) \in Nat /\ To(v) \in Nat
           /\ \A u \in todo : From(v) <= From(u)
           /\ Avail(v) \subseteq Regs
           /\ \A a \in Kept(v) : a.reg \notin Avail(v)
           /\ \A n \in Names : home[n] \in Regs => From(n) <= From(v)
           /\ \A n \in Names : home[n] \in Regs =>
                 (\E a \in Kept(v) : a.vreg = n) \/ HeldTo(n) < From(v)
<1> USE DEF ScanInv
<1>1. v \in todo /\ Known(v) /\ home[v] = "none" /\ v \notin split
  BY DEF AtHead, Types
<1>2. From(v) \in Nat /\ To(v) \in Nat
  BY <1>1, RangeTypes
<1>3. \A u \in todo : From(u) \in Nat
  BY RangeTypes DEF Types
<1>4. \A u \in todo : From(v) <= From(u)
  BY <1>2, <1>3, SMT DEF AtHead, Before
<1>5. Avail(v) \subseteq Regs
  BY DEF Avail, Types
<1>6. \A a \in Kept(v) : a.reg \notin Avail(v)
  <2> SUFFICES ASSUME NEW a \in Kept(v), a.reg \in Avail(v) PROVE FALSE
    OBVIOUS
  <2>1. a \in active /\ a.reg \notin free
    BY DEF Kept, Books
  <2>2. PICK b \in active \ Kept(v) : b.reg = a.reg
    BY <2>1 DEF Avail
  <2> QED
    BY <2>1, <2>2 DEF Books
<1>7. \A n \in Names : home[n] \in Regs => From(n) <= From(v)
  BY <1>1 DEF Books
<1>8. ASSUME NEW n \in Names, home[n] \in Regs
      PROVE  (\E a \in Kept(v) : a.vreg = n) \/ HeldTo(n) < From(v)
  <2>1. CASE \A u \in todo : HeldTo(n) < From(u)
    BY <1>1, <2>1
  <2>2. ASSUME NEW a \in active, a.vreg = n
        PROVE  (\E b \in Kept(v) : b.vreg = n) \/ HeldTo(n) < From(v)
    <3>1. a.end \in Nat /\ a.end = HeldTo(n)
      BY <2>2 DEF Types, Books
    <3>2. CASE a.end >= From(v)
      BY <2>2, <3>2 DEF Kept
    <3>3. CASE ~(a.end >= From(v))
      BY <1>2, <3>1, <3>3, SMT
    <3> QED
      BY <3>2, <3>3
  <2> QED
    BY <1>8, <2>1, <2>2 DEF Books
<1> QED
  BY <1>1, <1>2, <1>4, <1>5, <1>6, <1>7, <1>8

\* Giving register r to v until e, with the active list cut down to K: the books
\* stay right as long as r is held by nothing in K, and whoever left the list
\* has gone to memory.
LEMMA Place ==
    ASSUME ScanInv, Types', NEW v \in Names, AtHead(v),
           NEW r \in Regs, NEW K \in SUBSET Kept(v),
           input' = input, split \subseteq split', split' \subseteq split \cup {v},
           home'[v] = r,
           \A n \in Names \ {v} : home'[n] = home[n] \/ home'[n] = "slot",
           active' = K \cup {Hold(v, r, HeldTo(v)')},
           \A a \in K : home'[a.vreg] = home[a.vreg] /\ a.reg # r,
           \A a \in Kept(v) \ K : home'[a.vreg] = "slot",
           free' \subseteq Avail(v), r \notin free',
           \A u \in todo' : From(u)' \in Nat /\ From(v) <= From(u)'
    PROVE  Books' /\ NoSharing'
<1> USE DEF ScanInv
<1>1. /\ home[v] = "none" /\ From(v) \in Nat /\ v \notin split
      /\ \A a \in Kept(v) : a.reg \notin Avail(v)
      /\ \A n \in Names : home[n] \in Regs => From(n) <= From(v)
      /\ \A n \in Names : home[n] \in Regs =>
            (\E a \in Kept(v) : a.vreg = n) \/ HeldTo(n) < From(v)
  BY HeadFacts
<1>2. \A n \in Names : From(n)' = From(n)
  BY SMT DEF From, CallOf
<1>3. \A n \in Names \ {v} : HeldTo(n)' = HeldTo(n)
  BY SMT DEF HeldTo, To, CallOf
<1>4. \A n \in Names \ {v} : home'[n] \in Regs => home'[n] = home[n]
  BY ScanAssumption
<1>5. \A a \in Kept(v) : a.vreg \in Names \ {v} /\ a \in active
  BY <1>1, ScanAssumption, SMT DEF Kept, Types, Books
<1>6. ASSUME NEW n \in Names \ {v}, home'[n] \in Regs
      PROVE  (\E a \in K : a.vreg = n) \/ HeldTo(n) < From(v)
  BY <1>1, <1>4, <1>6, ScanAssumption, SMT
<1>7. \A n \in Names \ {v} : home'[n] = r => HeldTo(n) < From(v)
  <2> SUFFICES ASSUME NEW n \in Names \ {v}, home'[n] = r,
                      NEW a \in K, a.vreg = n
               PROVE  FALSE
    BY <1>6
  <2> QED
    BY <1>5 DEF Books
<1>8. NoSharing'
  <2> SUFFICES ASSUME NEW m \in Names, NEW n \in Names, m # n,
                      home'[m] \in Regs, home'[m] = home'[n]
               PROVE  HeldTo(m)' < From(n)' \/ HeldTo(n)' < From(m)'
    BY DEF NoSharing
  <2>1. CASE m = v
    BY <1>2, <1>3, <1>7, <2>1
  <2>2. CASE n = v
    BY <1>2, <1>3, <1>7, <2>2
  <2>3. CASE m # v /\ n # v
    BY <1>2, <1>3, <1>4, <2>3, SMT DEF NoSharing
  <2> QED
    BY <2>1, <2>2, <2>3
<1>9. \A a \in active' :
         /\ home'[a.vreg] = a.reg /\ a.end = HeldTo(a.vreg)'
         /\ a.reg \notin free'
  <2> SUFFICES ASSUME NEW a \in active'
               PROVE  /\ home'[a.vreg] = a.reg /\ a.end = HeldTo(a.vreg)'
                      /\ a.reg \notin free'
    OBVIOUS
  <2>1. CASE a = Hold(v, r, HeldTo(v)')
    BY <2>1 DEF Hold
  <2>2. CASE a \in K
    BY <1>1, <1>3, <1>5, <2>2, SMT DEF Books
  <2> QED
    BY <2>1, <2>2
<1>10. \A a, b \in active' : a.reg = b.reg => a = b
  BY <1>5, SMT DEF Hold, Books
<1>11. \A n \in Names : home'[n] \in Regs =>
          \/ \E a \in active' : a.vreg = n
          \/ \A u \in todo' : HeldTo(n)' < From(u)'
  <2> SUFFICES ASSUME NEW n \in Names, home'[n] \in Regs
               PROVE  \/ \E a \in active' : a.vreg = n
                      \/ \A u \in todo' : HeldTo(n)' < From(u)'
    OBVIOUS
  <2>1. CASE n = v
    <3>1. Hold(v, r, HeldTo(v)') \in active'
      OBVIOUS
    <3>2. Hold(v, r, HeldTo(v)').vreg = v
      BY DEF Hold
    <3> QED
      BY <2>1, <3>1, <3>2
  <2>2. CASE n # v /\ \E a \in K : a.vreg = n
    BY <2>2
  <2>3. CASE n # v /\ HeldTo(n) < From(v)
    <3>1. Known(n)
      BY <1>4, <2>3, ScanAssumption DEF Types
    <3>2. HeldTo(n) \in Nat
      BY <3>1, HeldType
    <3> QED
      BY <1>1, <1>3, <2>3, <3>2, SMT
  <2> QED
    BY <1>6, <2>1, <2>2, <2>3
<1>12. \A n \in Names, u \in todo' : home'[n] \in Regs => From(n)' <= From(u)'
  <2> SUFFICES ASSUME NEW n \in Names, NEW u \in todo', home'[n] \in Regs
               PROVE  From(n)' <= From(u)'
    OBVIOUS
  <2>1. CASE n = v
    BY <1>2, <2>1
  <2>2. CASE n # v
    <3>1. From(n) \in Nat /\ From(n) <= From(v)
      BY <1>1, <1>4, <2>2, RangeTypes, ScanAssumption DEF Types
    <3> QED
      BY <1>1, <1>2, <3>1, SMT
  <2> QED
    BY <2>1, <2>2
<1> QED
  BY <1>8, <1>9, <1>10, <1>11, <1>12 DEF Books


----------------------------------------------------------------------------
\* Before the scan nothing is assigned.
LEMMA ScanInit == LsInit => ScanInv
<1> SUFFICES ASSUME LsInit PROVE ScanInv
  OBVIOUS
<1>1. Types
  BY ScanAssumption, SMT DEF LsInit, Types, VRegs, Names, Known
<1>2. Books
  BY ScanAssumption DEF LsInit, Books
<1>3. NoSharing /\ Guarded
  BY ScanAssumption DEF LsInit, NoSharing, Guarded, Regs
<1> QED
  BY <1>1, <1>2, <1>3 DEF ScanInv

\* What a step that only takes v off the worklist leaves known.
LEMMA FewerTodo ==
    ASSUME ScanInv, NEW v \in Names, AtHead(v), input' = input,
           todo' = todo \ {v}
    PROVE  \A u \in todo' : From(u)' \in Nat /\ From(v) <= From(u)'
<1>1. \A u \in todo : From(v) <= From(u)
  BY HeadFacts
<1>2. \A u \in todo : From(u) \in Nat
  BY RangeTypes DEF ScanInv, Types
<1>3. \A u \in todo : From(u)' = From(u)
  BY SMT DEF From, CallOf
<1> QED
  BY <1>1, <1>2, <1>3

\* A register is taken only when it is free and the calls allow it.
LEMMA AssignInv ==
    ASSUME ScanInv, NEW v \in Names, Assign(v)
    PROVE  ScanInv'
<1> USE DEF ScanInv
<1>1. PICK r \in Pool(v) :
         /\ home' = [home EXCEPT ![v] = r]
         /\ active' = Kept(v) \cup {Hold(v, r, To(v))}
         /\ free' = Avail(v) \ {r}
         /\ used' = used \cup ({r} \cap Callee)
  BY DEF Assign
<1>2. AtHead(v) /\ todo' = todo \ {v} /\ input' = input /\ split' = split
  BY DEF Assign
<1>3. /\ Known(v) /\ home[v] = "none" /\ v \notin split /\ To(v) \in Nat
      /\ Avail(v) \subseteq Regs
      /\ \A a \in Kept(v) : a.reg \notin Avail(v)
  BY <1>2, HeadFacts
<1>4. r \in Regs /\ r \in Avail(v) /\ (r \in Caller => Crossed(From(v), To(v)) = {})
  BY <1>3, ScanAssumption DEF Pool, Crosses
<1>5. HeldTo(v)' = To(v)
  BY <1>2, <1>3 DEF HeldTo, To
<1>6. Types'
  <2>1. \A n \in split : CallOf(n)' = CallOf(n)
    BY <1>2 DEF CallOf
  <2>2. Kept(v) \subseteq active
    BY DEF Kept
  <2>3. active' \subseteq [reg : Regs, end : Nat, vreg : Names]
    BY <1>1, <1>3, <1>4, <2>2, SMTT(30) DEF Types, Hold
  <2> QED
    BY <1>1, <1>2, <1>3, <1>4, <2>1, <2>3 DEF Types, Known
<1>7. \A n \in Names \ {v} : home'[n] = home[n]
  BY <1>1 DEF Types
<1>8. home'[v] = r
  BY <1>1 DEF Types
<1>9. \A a \in Kept(v) : home'[a.vreg] = home[a.vreg] /\ a.reg # r
  <2>1. \A a \in Kept(v) : a.vreg \in Names /\ home[a.vreg] \in Regs
    BY DEF Kept, Types, Books
  <2>2. \A a \in Kept(v) : a.vreg # v
    BY <1>3, <2>1, ScanAssumption
  <2> QED
    BY <1>3, <1>4, <1>7, <2>1, <2>2
<1>10. Books' /\ NoSharing'
  BY <1>1, <1>2, <1>4, <1>5, <1>6, <1>7, <1>8, <1>9, FewerTodo, Place, SMT
<1>11. Guarded'
  <2>1. \A n \in Names : From(n)' = From(n)
    BY <1>2, SMT DEF From, CallOf
  <2>2. \A n \in Names \ {v} : HeldTo(n)' = HeldTo(n)
    BY <1>2, SMT DEF HeldTo, To, CallOf
  <2>3. \A n \in Names \ {v} :
           /\ home'[n] \in Caller => Crossed(From(n)', HeldTo(n)') = {}
           /\ home'[n] \in Callee => home'[n] \in used'
    BY <1>1, <1>7, <2>1, <2>2, SMT DEF Guarded
  <2>4. /\ home'[v] \in Caller => Crossed(From(v)', HeldTo(v)') = {}
        /\ home'[v] \in Callee => home'[v] \in used'
    BY <1>1, <1>4, <1>5, <1>8, <2>1, SMT
  <2> QED
    BY <2>3, <2>4 DEF Guarded, Crossed
<1> QED
  BY <1>6, <1>10, <1>11


\* Splitting: the first half ends before the only call its range crosses, and
\* the second half begins after everything that is already placed.
LEMMA SplitInv ==
    ASSUME ScanInv, NEW v \in Names, SplitAtCall(v)
    PROVE  ScanInv'
<1> USE DEF ScanInv
<1>1. PICK r \in SafePre(v) :
         /\ home' = [home EXCEPT ![v] = r]
         /\ active' = Kept(v) \cup {Hold(v, r, CallOf(v) - 1)}
         /\ free' = Avail(v) \ {r}
  BY DEF SplitAtCall
<1>2. /\ AtHead(v) /\ Splittable(v) /\ v \in VRegs
      /\ todo' = (todo \ {v}) \cup {Post(v)} /\ split' = split \cup {v}
      /\ input' = input /\ used' = used
  BY DEF SplitAtCall, Splittable
<1>3. /\ Known(v) /\ home[v] = "none" /\ v \notin split /\ From(v) \in Nat
      /\ Avail(v) \subseteq Regs
      /\ \A a \in Kept(v) : a.reg \notin Avail(v)
      /\ \A u \in todo : From(v) <= From(u)
  BY <1>2, HeadFacts
<1>4. /\ CallOf(v) \in Calls /\ CallOf(v) \in Nat /\ From(v) < CallOf(v)
      /\ From(v) = input[v].start
      /\ Crossed(From(v), To(v)) = {CallOf(v)}
      /\ CallOf(v) < To(v)
  BY <1>2, SplitCall
<1>5. r \in Regs /\ r \in Avail(v) /\ r \in Caller
  BY DEF SafePre, Regs
<1>6. CallOf(v)' = CallOf(v) /\ HeldTo(v)' = CallOf(v) - 1
  BY <1>2 DEF HeldTo, CallOf
<1>7. /\ Post(v) \in Names /\ Post(v) \notin VRegs /\ Post(v) - N = v /\ v # Post(v)
      /\ Post(v) \notin split
  BY <1>2, PostName DEF Types
<1>8. home[Post(v)] = "none"
  BY <1>3, <1>7 DEF Types, Known
<1>9. Types'
  <2>1. \A n \in split : CallOf(n)' = CallOf(n)
    BY <1>2 DEF CallOf
  <2>2. active' \subseteq [reg : Regs, end : Nat, vreg : Names]
    <3>1. CallOf(v) - 1 \in Nat
      BY <1>3, <1>4, SMT
    <3>2. Hold(v, r, CallOf(v) - 1) \in [reg : Regs, end : Nat, vreg : Names]
      BY <1>5, <3>1 DEF Hold
    <3>3. Kept(v) \subseteq [reg : Regs, end : Nat, vreg : Names]
      BY DEF Kept, Types
    <3> QED
      BY <1>1, <3>2, <3>3
  <2>3. \A n \in split' : CallOf(n)' \in Calls /\ input'[n].start < CallOf(n)'
    BY <1>2, <1>4, <1>6, <2>1 DEF Types
  <2>4. \A n \in Names : n \in todo' \/ home'[n] # "none" => Known(n)'
    BY <1>1, <1>2, <1>7 DEF Types, Known
  <2>5. \A n \in todo' : home'[n] = "none" /\ n \notin split'
    BY <1>1, <1>2, <1>7, <1>8 DEF Types
  <2> QED
    BY <1>1, <1>2, <1>3, <1>5, <1>7, <2>2, <2>3, <2>4, <2>5, SMT DEF Types
<1>10. \A n \in Names \ {v} : home'[n] = home[n]
  BY <1>1 DEF Types
<1>11. home'[v] = r
  BY <1>1 DEF Types
<1>12. \A a \in Kept(v) : home'[a.vreg] = home[a.vreg] /\ a.reg # r
  <2>1. \A a \in Kept(v) : a.vreg \in Names /\ home[a.vreg] \in Regs
    BY DEF Kept, Types, Books
  <2>2. \A a \in Kept(v) : a.vreg # v
    BY <1>3, <2>1, ScanAssumption
  <2> QED
    BY <1>3, <1>5, <1>10, <2>1, <2>2
<1>13. \A n \in Names : From(n)' = From(n)
  BY <1>2, SMTT(30) DEF From, CallOf
<1>14. \A u \in todo' : From(u)' \in Nat /\ From(v) <= From(u)'
  <2>1. From(Post(v)) = CallOf(v) + 1
    BY <1>7 DEF From
  <2>2. \A u \in todo : From(u) \in Nat /\ u \in Names
    BY RangeTypes DEF Types
  <2>3. From(Post(v)) \in Nat /\ From(v) <= From(Post(v))
    BY <1>3, <1>4, <2>1, SMT
  <2> QED
    BY <1>2, <1>3, <1>7, <1>13, <2>2, <2>3
<1>15. Books' /\ NoSharing'
  BY <1>1, <1>2, <1>5, <1>6, <1>9, <1>10, <1>11, <1>12, <1>14, Place, SMT
<1>16. Guarded'
  <2>1. \A n \in Names \ {v} : HeldTo(n)' = HeldTo(n)
    BY <1>2, SMT DEF HeldTo, To, CallOf
  <2>2. \A n \in Names \ {v} :
           /\ home'[n] \in Caller => Crossed(From(n)', HeldTo(n)') = {}
           /\ home'[n] \in Callee => home'[n] \in used'
    BY <1>2, <1>10, <1>13, <2>1 DEF Guarded
  <2>3. Crossed(From(v), CallOf(v) - 1) = {}
    <3> SUFFICES ASSUME NEW c \in Calls, From(v) < c, c < CallOf(v) - 1 PROVE FALSE
      BY DEF Crossed
    <3>1. c \in Nat /\ To(v) \in Nat
      BY <1>3, RangeTypes, ScanAssumption
    <3>2. c < To(v)
      BY <1>4, <3>1, SMT
    <3>3. c \in Crossed(From(v), To(v))
      BY <3>2 DEF Crossed
    <3> QED
      BY <1>4, <3>1, <3>3, SMT
  <2>4. r \notin Callee
    BY <1>5, ScanAssumption
  <2> QED
    BY <1>6, <1>11, <1>13, <2>2, <2>3, <2>4 DEF Guarded, Crossed
<1> QED
  BY <1>9, <1>15, <1>16


\* Eviction: the victim outlives v and began no later, so any call that v
\* crosses the victim crossed too, and its register is good for v.
LEMMA EvictInv ==
    ASSUME ScanInv, NEW v \in Names, EvictFurthest(v)
    PROVE  ScanInv'
<1> USE DEF ScanInv
<1>1. PICK a \in Kept(v) :
         /\ a.end > To(v)
         /\ home' = [home EXCEPT ![a.vreg] = "slot", ![v] = a.reg]
         /\ active' = (Kept(v) \ {a}) \cup {Hold(v, a.reg, To(v))}
  BY DEF EvictFurthest, Evicts
<1>2. /\ AtHead(v) /\ todo' = todo \ {v} /\ free' = Avail(v)
      /\ input' = input /\ split' = split /\ used' = used
  BY DEF EvictFurthest
<1>3. /\ Known(v) /\ home[v] = "none" /\ v \notin split
      /\ From(v) \in Nat /\ To(v) \in Nat
      /\ Avail(v) \subseteq Regs
      /\ \A b \in Kept(v) : b.reg \notin Avail(v)
      /\ \A n \in Names : home[n] \in Regs => From(n) <= From(v)
  BY <1>2, HeadFacts
<1>4. \A b \in Kept(v) :
         /\ b \in active /\ b.vreg \in Names /\ b.reg \in Regs /\ b.end \in Nat
         /\ home[b.vreg] = b.reg /\ b.end = HeldTo(b.vreg)
         /\ b.vreg # v
  BY <1>3, ScanAssumption DEF Kept, Types, Books
<1>5. /\ home'[v] = a.reg /\ home'[a.vreg] = "slot"
      /\ \A n \in Names \ {v, a.vreg} : home'[n] = home[n]
  BY <1>1, <1>4 DEF Types
<1>6. HeldTo(v)' = To(v)
  BY <1>2, <1>3 DEF HeldTo, To
<1>7. Types'
  <2>1. \A n \in split : CallOf(n)' = CallOf(n)
    BY <1>2 DEF CallOf
  <2>2. active' \subseteq [reg : Regs, end : Nat, vreg : Names]
    BY <1>1, <1>3, <1>4, SMTT(30) DEF Types, Hold, Kept
  <2>3. home' \in [Names -> Regs \cup {"none", "slot"}]
    BY <1>1, <1>4 DEF Types
  <2>4. \A n \in Names : n \in todo' \/ home'[n] # "none" => Known(n)'
    <3>1. home[a.vreg] # "none"
      BY <1>4, ScanAssumption
    <3> QED
      BY <1>2, <1>3, <1>4, <1>5, <3>1 DEF Types, Known
  <2>5. \A n \in todo' : home'[n] = "none" /\ n \notin split'
    <3>1. a.vreg \notin todo
      BY <1>4, ScanAssumption DEF Types
    <3> QED
      BY <1>2, <1>5, <3>1 DEF Types
  <2> QED
    BY <1>2, <1>3, <2>1, <2>2, <2>3, <2>4, <2>5 DEF Types
<1>8. \A b \in Kept(v) \ {a} : home'[b.vreg] = home[b.vreg] /\ b.reg # a.reg
  <2>1. \A b \in Kept(v) \ {a} : b.reg # a.reg
    BY <1>4 DEF Books
  <2>2. \A b \in Kept(v) \ {a} : b.vreg # a.vreg
    BY <1>4, <2>1
  <2> QED
    BY <1>4, <1>5, <2>1, <2>2
<1>9. \A b \in Kept(v) \ (Kept(v) \ {a}) : home'[b.vreg] = "slot"
  BY <1>5
<1>10. \A n \in Names \ {v} : home'[n] = home[n] \/ home'[n] = "slot"
  BY <1>5
<1>11. a.reg \in Regs /\ a.reg \notin free'
  BY <1>2, <1>3, <1>4
<1>12. Books' /\ NoSharing'
  <2> DEFINE K == Kept(v) \ {a}
  <2>1. K \in SUBSET Kept(v) /\ active' = K \cup {Hold(v, a.reg, HeldTo(v)')}
    BY <1>1, <1>6
  <2>2. \A u \in todo' : From(u)' \in Nat /\ From(v) <= From(u)'
    BY <1>2, FewerTodo
  <2>3. split \subseteq split' /\ split' \subseteq split \cup {v} /\ free' \subseteq Avail(v)
    BY <1>2
  <2>4. /\ \A b \in K : home'[b.vreg] = home[b.vreg] /\ b.reg # a.reg
        /\ \A b \in Kept(v) \ K : home'[b.vreg] = "slot"
    BY <1>8, <1>9
  <2> HIDE DEF K
  <2> QED
    BY <1>2, <1>5, <1>7, <1>10, <1>11, <2>1, <2>2, <2>3, <2>4, Place
<1>13. Guarded'
  <2>1. \A n \in Names : From(n)' = From(n)
    BY <1>2, SMT DEF From, CallOf
  <2>2. \A n \in Names \ {v} : HeldTo(n)' = HeldTo(n)
    BY <1>2, SMT DEF HeldTo, To, CallOf
  <2>3. \A n \in Names \ {v} :
           /\ home'[n] \in Caller => Crossed(From(n)', HeldTo(n)') = {}
           /\ home'[n] \in Callee => home'[n] \in used'
    BY <1>2, <1>5, <2>1, <2>2, ScanAssumption DEF Guarded, Regs
  <2>4. ASSUME a.reg \in Caller
        PROVE  Crossed(From(v), To(v)) = {}
    <3> SUFFICES ASSUME NEW c \in Calls, From(v) < c, c < To(v) PROVE FALSE
      BY DEF Crossed
    <3>1. c \in Nat
      BY ScanAssumption
    <3>2. From(a.vreg) \in Nat /\ From(a.vreg) <= From(v)
      BY <1>3, <1>4, RangeTypes, ScanAssumption DEF Types
    <3>3. From(a.vreg) < c /\ c < HeldTo(a.vreg)
      BY <1>1, <1>3, <1>4, <3>1, <3>2, SMT
    <3>4. Crossed(From(a.vreg), HeldTo(a.vreg)) = {}
      BY <1>4, <2>4 DEF Guarded
    <3> QED
      BY <3>3, <3>4 DEF Crossed
  <2>5. a.reg \in Callee => a.reg \in used'
    BY <1>2, <1>4 DEF Guarded
  <2> QED
    BY <1>5, <1>6, <2>1, <2>3, <2>4, <2>5 DEF Guarded, Crossed
<1> QED
  BY <1>7, <1>12, <1>13

\* An interval that gets no register holds none.
LEMMA SpillSelfInv ==
    ASSUME ScanInv, NEW v \in Names, SpillSelf(v)
    PROVE  ScanInv'
<1> USE DEF ScanInv
<1>1. /\ AtHead(v) /\ home' = [home EXCEPT ![v] = "slot"]
      /\ active' = Kept(v) /\ free' = Avail(v) /\ todo' = todo \ {v}
      /\ input' = input /\ split' = split /\ used' = used
  BY DEF SpillSelf
<1>2. /\ Known(v) /\ home[v] = "none" /\ v \notin split
      /\ From(v) \in Nat /\ Avail(v) \subseteq Regs
      /\ \A b \in Kept(v) : b.reg \notin Avail(v)
      /\ \A u \in todo : From(v) <= From(u)
      /\ \A n \in Names : home[n] \in Regs =>
            (\E a \in Kept(v) : a.vreg = n) \/ HeldTo(n) < From(v)
  BY <1>1, HeadFacts
<1>3. home'[v] = "slot" /\ \A n \in Names \ {v} : home'[n] = home[n]
  BY <1>1 DEF Types
<1>4. /\ \A n \in Names : From(n)' = From(n) /\ HeldTo(n)' = HeldTo(n)
      /\ \A n \in split : CallOf(n)' = CallOf(n)
  BY <1>1, SMT DEF From, HeldTo, To, CallOf
<1>5. Types'
  BY <1>1, <1>2, <1>3, <1>4, SMTT(30) DEF Types, Known, Kept
<1>6. \A a \in active' : a \in active /\ a.vreg \in Names /\ a.vreg # v
  BY <1>1, <1>2, ScanAssumption DEF Types, Books, Kept
<1>7. Books'
  <2>1. \A a \in active' :
           /\ home'[a.vreg] = a.reg /\ a.end = HeldTo(a.vreg)'
           /\ a.reg \notin free'
    BY <1>1, <1>2, <1>3, <1>4, <1>6 DEF Books
  <2>2. \A a, b \in active' : a.reg = b.reg => a = b
    BY <1>6 DEF Books
  <2>3. ASSUME NEW n \in Names, home'[n] \in Regs
        PROVE  \/ \E a \in active' : a.vreg = n
               \/ \A u \in todo' : HeldTo(n)' < From(u)'
    <3>1. n # v /\ home[n] \in Regs
      BY <1>3, <2>3, ScanAssumption
    <3>2. Known(n) /\ HeldTo(n) \in Nat
      BY <3>1, HeldType, ScanAssumption DEF Types
    <3>3. \A u \in todo : u \in Names /\ From(u) \in Nat
      BY RangeTypes DEF Types
    <3> QED
      BY <1>1, <1>2, <1>4, <3>1, <3>2, <3>3, SMT
  <2>4. \A n \in Names, u \in todo' : home'[n] \in Regs => From(n)' <= From(u)'
    <3>1. \A u \in todo' : u \in todo /\ u \in Names
      BY <1>1 DEF Types
    <3> QED
      BY <1>3, <1>4, <3>1, ScanAssumption DEF Books
  <2> QED
    BY <2>1, <2>2, <2>3, <2>4 DEF Books
<1>8. NoSharing'
  BY <1>3, <1>4, ScanAssumption DEF NoSharing
<1>9. Guarded'
  BY <1>1, <1>3, <1>4, ScanAssumption, SMT DEF Guarded, Crossed, Regs
<1> QED
  BY <1>5, <1>7, <1>8, <1>9

\* Planning slots and stuttering touch nothing the invariant speaks of.
LEMMA ScanFrame ==
    ASSUME ScanInv, UNCHANGED <<input, scanVars>>
    PROVE  ScanInv'
<1>1. /\ \A n : CallOf(n)' = CallOf(n) /\ From(n)' = From(n) /\ HeldTo(n)' = HeldTo(n)
      /\ \A n : Known(n)' = Known(n)
  BY SMTT(30) DEF From, HeldTo, To, CallOf, Known, scanVars
<1> QED
  BY <1>1 DEF ScanInv, Types, Books, NoSharing, Guarded, Crossed, scanVars

\* Every step of the scan preserves its invariant.
LEMMA ScanStep == ScanInv /\ [LsNext]_lsVars => ScanInv'
<1> SUFFICES ASSUME ScanInv, [LsNext]_lsVars PROVE ScanInv'
  OBVIOUS
<1>1. ASSUME NEW v \in VRegs, PlanSlot(v) PROVE ScanInv'
  BY <1>1, ScanFrame DEF PlanSlot
<1>2. ASSUME NEW v \in Names, Assign(v) PROVE ScanInv'
  BY <1>2, AssignInv
<1>3. ASSUME NEW v \in Names, SplitAtCall(v) PROVE ScanInv'
  BY <1>3, SplitInv
<1>4. ASSUME NEW v \in Names, EvictFurthest(v) PROVE ScanInv'
  BY <1>4, EvictInv
<1>5. ASSUME NEW v \in Names, SpillSelf(v) PROVE ScanInv'
  BY <1>5, SpillSelfInv
<1>6. CASE UNCHANGED lsVars
  BY <1>6, ScanFrame DEF lsVars
<1> QED
  BY <1>1, <1>2, <1>3, <1>4, <1>5, <1>6 DEF LsNext

\* No register is ever given to two values that are live together, for every
\* set of live ranges, every pool and every order of the pool.
THEOREM RegistersNotShared == LsSpec => []NoSharing
<1>1. ScanInv => NoSharing
  BY DEF ScanInv
<1> QED
  BY ScanInit, ScanStep, <1>1, PTL DEF LsSpec

\* A value takes 8 bytes or 16, so a callee-saved register keeps 8 of them.
LEMMA GuardedPreserves == ScanInv => CallsPreserve
<1> SUFFICES ASSUME Types, Guarded, NEW v \in Names, home[v] \in Regs
             PROVE  /\ Crossed(From(v), HeldTo(v)) # {} => Surviving(v) = 8
                    /\ home[v] \in Callee => home[v] \in used
  BY DEF ScanInv, CallsPreserve
<1>1. Size(v) \in {8, 16}
  <2>1. PICK u \in VRegs : Size(v) = input[u].size
    <3>1. v \in VRegs \/ v - N \in VRegs
      BY ScanAssumption, SMT DEF Names, VRegs
    <3> QED BY <3>1 DEF Size
  <2>2. input[u] \in LiveInterval
    BY ScanAssumption DEF Types
  <2> QED BY <2>1, <2>2 DEF LiveInterval
<1>2. ASSUME Crossed(From(v), HeldTo(v)) # {} PROVE Surviving(v) = 8
  <2>1. home[v] \in Callee
    BY <1>2 DEF Guarded, Regs
  <2>2. Preserved(home[v]) = 8
    BY <2>1 DEF Preserved
  <2> QED BY <1>1, <2>2, SMT DEF Surviving
<1> QED BY <1>2 DEF Guarded

\* A call leaves 8 bytes of every value that is in a register across it, all of
\* a narrow value and half of a vector, and every callee-saved register in use is
\* saved by the prologue (linear_scan, insert_callee_saves).
THEOREM CallsPreserveRegisters == LsSpec => []CallsPreserve
BY ScanInit, ScanStep, GuardedPreserves, PTL DEF LsSpec

-----------------------------------------------------------------------------
(* The copies *)

Dsts(cs) == {c.dst : c \in cs}
Srcs(cs) == {c.src : c \in cs}

PendingCopy == [dst : Loc, src : Locations]

\* The state of the locations and of the group between two moves.
Shape ==
    /\ IsGroup(copies)
    /\ entry \in Contents /\ loc \in Contents
    /\ pending \subseteq PendingCopy /\ IsFiniteSet(pending)
    /\ \A c, d \in pending : c.dst = d.dst => c = d
    /\ Dsts(pending) \subseteq Dsts(copies)

\* What the group promises to the destination of each copy is held by the
\* source of the pending copy, or by the destination itself once it is written;
\* nothing else that a copy may name has changed.
Promise ==
    /\ \A p \in pending, c \in copies :
          p.dst = c.dst => loc[p.src] = entry[c.src]
    /\ \A c \in copies : c.dst \notin Dsts(pending) => loc[c.dst] = entry[c.src]
    /\ \A x \in (Loc \cup Frame) \ Written : loc[x] = entry[x]

PcInv == Shape /\ Promise

\* A set of copies with distinct destinations has as many destinations as
\* copies and at most as many sources.
LEMMA CountCopies ==
    ASSUME NEW cs, IsFiniteSet(cs),
           \A c, d \in cs : c.dst = d.dst => c = d
    PROVE  /\ IsFiniteSet(Dsts(cs)) /\ IsFiniteSet(Srcs(cs))
           /\ Cardinality(Dsts(cs)) = Cardinality(cs)
           /\ Cardinality(Srcs(cs)) <= Cardinality(cs)
<1> DEFINE dst == [c \in cs |-> c.dst]
           src == [c \in cs |-> c.src]
<1>1. dst \in Bijection(cs, Dsts(cs))
  <2>1. dst \in [cs -> Dsts(cs)]
    BY DEF Dsts
  <2>2. \A c, d \in cs : dst[c] = dst[d] => c = d
    OBVIOUS
  <2>3. \A y \in Dsts(cs) : \E c \in cs : dst[c] = y
    BY DEF Dsts
  <2> QED
    BY <2>1, <2>2, <2>3 DEF Bijection, Injection, Surjection, IsInjective
<1>2. src \in Surjection(cs, Srcs(cs))
  <2>1. src \in [cs -> Srcs(cs)]
    BY DEF Srcs
  <2>2. \A y \in Srcs(cs) : \E c \in cs : src[c] = y
    BY DEF Srcs
  <2> QED
    BY <2>1, <2>2 DEF Surjection
<1>3. IsFiniteSet(Dsts(cs)) /\ Cardinality(Dsts(cs)) = Cardinality(cs)
  BY <1>1, FS_Bijection DEF ExistsBijection
<1>4. IsFiniteSet(Srcs(cs)) /\ Cardinality(Srcs(cs)) <= Cardinality(cs)
  BY <1>2, FS_Surjection
<1> QED
  BY <1>3, <1>4

\* The pigeonhole step behind the shared scratch of emit_branch_arg_copies and
\* rewrite_call_arg_copy_operations.
LEMMA NoSafeCopy ==
    ASSUME Shape, \A c \in pending : ~Safe(c)
    PROVE  Srcs(pending) = Dsts(pending)
<1>1. Dsts(pending) \subseteq Srcs(pending)
  BY DEF Safe, Dsts, Srcs
<1>2. /\ IsFiniteSet(Dsts(pending)) /\ IsFiniteSet(Srcs(pending))
      /\ Cardinality(Dsts(pending)) = Cardinality(pending)
      /\ Cardinality(Srcs(pending)) <= Cardinality(pending)
  BY CountCopies DEF Shape
<1>3. /\ Cardinality(Dsts(pending)) \in Nat
      /\ Cardinality(Srcs(pending)) \in Nat
  BY <1>2, FS_CardinalityType
<1>4. Cardinality(Dsts(pending)) <= Cardinality(Srcs(pending))
  BY <1>1, <1>2, FS_Subset
<1>5. Cardinality(Dsts(pending)) = Cardinality(Srcs(pending))
  BY <1>2, <1>3, <1>4, SMT
<1> QED
  BY <1>1, <1>2, <1>5, FS_Subset

----------------------------------------------------------------------------
\* Before the first group there is nothing to copy.
LEMMA PcInitInv == PcInit => PcInv
<1> SUFFICES ASSUME PcInit PROVE PcInv
  OBVIOUS
<1>1. IsGroup({}) /\ IsFiniteSet({})
  BY FS_EmptySet DEF IsGroup
<1>2. Shape
  BY <1>1 DEF PcInit, Shape, Dsts
<1>3. Promise
  BY DEF PcInit, Promise, Dsts
<1> QED
  BY <1>2, <1>3 DEF PcInv

\* A new group reads what the locations hold at its start.
LEMMA StartInv ==
    ASSUME PcInv, NEW cs, NEW l \in Contents, IsGroup(cs), Start(cs, l)
    PROVE  PcInv'
<1>1. Shape'
  BY DEF Start, Shape, IsGroup, Copy, PendingCopy, Dsts, Locations
<1>2. Promise'
  <2>1. ASSUME NEW p \in pending', NEW c \in copies', p.dst = c.dst
        PROVE  loc'[p.src] = entry'[c.src]
    BY <2>1 DEF Start, IsGroup
  <2>2. ASSUME NEW c \in copies', c.dst \notin Dsts(pending')
        PROVE  loc'[c.dst] = entry'[c.src]
    BY <2>2 DEF Start, Dsts
  <2> QED
    BY <2>1, <2>2 DEF Start, Promise, Dsts
<1> QED
  BY <1>1, <1>2 DEF PcInv

\* Emitting a safe copy: nobody pending reads what it writes.
LEMMA EmitInv ==
    ASSUME PcInv, NEW c \in pending, Emit(c)
    PROVE  PcInv'
<1> USE DEF PcInv
<1>1. /\ c \in PendingCopy /\ c.dst \in Loc /\ c.src \in Locations
      /\ pending' = pending \ {c} /\ copies' = copies /\ entry' = entry
      /\ loc' = [loc EXCEPT ![c.dst] = loc[c.src]]
  BY DEF Emit, Shape, PendingCopy
<1>2. c.dst \notin Dsts(pending') /\ Dsts(pending') = Dsts(pending) \ {c.dst}
  BY <1>1 DEF Shape, Dsts
<1>3. Shape'
  <2>1. loc' \in Contents
    BY <1>1 DEF Shape, Contents
  <2>2. IsFiniteSet(pending')
    BY <1>1, FS_RemoveElement DEF Shape
  <2> QED
    BY <1>1, <1>2, <2>1, <2>2 DEF Shape
<1>4. \A x \in Locations \ {c.dst} : loc'[x] = loc[x]
  BY <1>1 DEF Shape, Contents
<1>5. loc'[c.dst] = loc[c.src]
  BY <1>1 DEF Shape, Contents, Locations
<1>6. ASSUME NEW p \in pending', NEW d \in copies, p.dst = d.dst
      PROVE  loc'[p.src] = entry[d.src]
  <2>1. p \in pending /\ p # c /\ p.src # c.dst /\ p.src \in Locations
    BY <1>1 DEF Emit, Safe, Shape, PendingCopy
  <2> QED
    BY <1>4, <1>6, <2>1 DEF Promise
<1>7. ASSUME NEW d \in copies, d.dst \notin Dsts(pending')
      PROVE  loc'[d.dst] = entry[d.src]
  <2>1. CASE d.dst = c.dst
    BY <1>5, <2>1 DEF Promise
  <2>2. CASE d.dst # c.dst
    <3>1. d.dst \in Locations /\ d.dst \notin Dsts(pending)
      BY <1>2, <1>7, <2>2 DEF Shape, IsGroup, Copy, Locations
    <3> QED
      BY <1>4, <2>2, <3>1 DEF Promise
  <2> QED
    BY <2>1, <2>2
<1>8. ASSUME NEW x \in (Loc \cup Frame) \ Written
      PROVE  loc'[x] = entry[x]
  <2>1. x \in Locations /\ x # c.dst
    BY <1>1 DEF Shape, Dsts, Written, Locations
  <2> QED
    BY <1>4, <2>1 DEF Promise
<1>9. Promise'
  BY <1>1, <1>6, <1>7, <1>8, SMT DEF Promise, Written, Dsts
<1> QED
  BY <1>3, <1>9


\* Saving a source in a temporary: no pending copy reads a temporary, because
\* the sources are the destinations.
LEMMA BreakCycleInv ==
    ASSUME PcInv, NEW c \in pending, NEW t \in Temps, BreakCycle(c, t)
    PROVE  PcInv'
<1> USE DEF PcInv
<1> DEFINE saved == [dst |-> c.dst, src |-> t]
<1>1. /\ c \in PendingCopy /\ c.dst \in Loc /\ c.src \in Locations
      /\ t \in Locations /\ saved \in PendingCopy
      /\ pending' = (pending \ {c}) \cup {saved}
      /\ copies' = copies /\ entry' = entry
      /\ loc' = [loc EXCEPT ![t] = loc[c.src]]
  BY DEF BreakCycle, Shape, PendingCopy, Locations
<1>2. \A p \in pending : p.src \in Loc
  <2>1. Srcs(pending) = Dsts(pending)
    BY NoSafeCopy DEF BreakCycle
  <2> QED
    BY <2>1, SMT DEF Srcs, Dsts, Shape, PendingCopy
<1>3. Dsts(pending') = Dsts(pending)
  BY <1>1, SMT DEF Dsts
<1>4. Shape'
  <2>1. loc' \in Contents
    BY <1>1 DEF Shape, Contents
  <2>2. IsFiniteSet(pending')
    BY <1>1, FS_RemoveElement, FS_AddElement DEF Shape
  <2>3. \A p, q \in pending' : p.dst = q.dst => p = q
    BY <1>1, SMT DEF Shape
  <2> QED
    BY <1>1, <1>3, <2>1, <2>2, <2>3 DEF Shape
<1>5. /\ \A x \in Locations \ {t} : loc'[x] = loc[x]
      /\ loc'[t] = loc[c.src]
  BY <1>1 DEF Shape, Contents
<1>6. ASSUME NEW p \in pending', NEW d \in copies, p.dst = d.dst
      PROVE  loc'[p.src] = entry[d.src]
  <2>1. CASE p = saved
    BY <1>5, <1>6, <2>1 DEF Promise
  <2>2. CASE p # saved
    <3>1. p \in pending /\ p.src \in Locations /\ p.src # t
      BY <1>1, <1>2, <2>2, LocationsDisjoint DEF Locations
    <3> QED
      BY <1>5, <1>6, <3>1, SMT DEF Promise
  <2> QED
    BY <2>1, <2>2
<1>7. ASSUME NEW d \in copies, d.dst \notin Dsts(pending')
      PROVE  loc'[d.dst] = entry[d.src]
  <2>1. d.dst \in Locations /\ d.dst # t
    BY LocationsDisjoint DEF Shape, IsGroup, Copy, Locations
  <2> QED
    BY <1>3, <1>5, <1>7, <2>1 DEF Promise
<1>8. ASSUME NEW x \in (Loc \cup Frame) \ Written
      PROVE  loc'[x] = entry[x]
  <2>1. x \in Locations /\ x # t
    BY LocationsDisjoint DEF Locations
  <2> QED
    BY <1>5, <2>1 DEF Promise
<1>9. Promise'
  BY <1>1, <1>6, <1>7, <1>8, SMT DEF Promise, Written, Dsts
<1> QED
  BY <1>4, <1>9

\* Every step of the copies preserves their invariant.
LEMMA PcStepInv == PcInv /\ [PcNext]_pcVars => PcInv'
<1> SUFFICES ASSUME PcInv, [PcNext]_pcVars PROVE PcInv'
  OBVIOUS
<1>1. ASSUME NEW cs \in SUBSET Copy, NEW l \in Contents, IsGroup(cs), Start(cs, l)
      PROVE  PcInv'
  BY <1>1, StartInv
<1>2. ASSUME NEW c \in pending, Emit(c)
      PROVE  PcInv'
  BY <1>2, EmitInv
<1>3. ASSUME NEW c \in pending, NEW t \in Temps, BreakCycle(c, t)
      PROVE  PcInv'
  BY <1>3, BreakCycleInv
<1>4. CASE UNCHANGED pcVars
  BY <1>4 DEF pcVars, PcInv, Shape, Promise, Dsts, Written
<1> QED
  BY <1>1, <1>2, <1>3, <1>4 DEF PcNext, CopyStep

\* What emit_branch_arg_copies and rewrite_call_arg_copy_operations promise,
\* whatever the copies: the group behaves as one simultaneous assignment.
THEOREM CopiesAreSimultaneous == PcSpec => []Simultaneous
<1>1. PcInv => Simultaneous
  BY DEF PcInv, Shape, Promise, Simultaneous, Dsts
<1> QED
  BY PcInitInv, PcStepInv, <1>1, PTL DEF PcSpec

\* One scratch serves every cycle: when no copy is safe, the pending sources are
\* the pending destinations, so nothing still needed is in a temporary.
THEOREM CyclesLeaveTempsFree == PcSpec => []CyclesArePermutations
<1>1. PcInv => CyclesArePermutations
  BY NoSafeCopy DEF PcInv, CyclesArePermutations, Srcs, Dsts
<1> QED
  BY PcInitInv, PcStepInv, <1>1, PTL DEF PcSpec

-----------------------------------------------------------------------------
(* The slots, and what is left when the worklist is empty *)

\* Slots are planned in the order of the values' first positions, and a slot has
\* room for every value it is planned for, one at a time.
Slots ==
    /\ color \in [VRegs -> 0..N] /\ slotSize \in [VRegs -> {0, 8, 16}]
    /\ \A v \in VRegs \ Uncolored :
          /\ input[v].size <= slotSize[color[v]]
          /\ \A w \in VRegs \ {v} :
                color[v] = color[w] => input[v].hi < input[w].lo \/ input[w].hi < input[v].lo
          /\ \A w \in Uncolored : input[v].lo <= input[w].lo

\* Who is off the worklist has a place, and a split value crosses one call, and
\* is really live over it.
Handled ==
    /\ \A n \in Names : Known(n) /\ n \notin todo => home[n] # "none"
    /\ \A v \in split : Crossed(input[v].start, input[v].end) = {CallOf(v)}
    /\ \A v \in split : input[v].lo < CallOf(v) /\ CallOf(v) < input[v].hi

AllocInv == ScanInv /\ Slots /\ Handled

\* Live ranges are nonempty, and the real one lies inside the conservative one.
LEMMA Ranges ==
    ASSUME input \in Inputs, NEW v \in VRegs
    PROVE  /\ input[v].start \in Nat /\ input[v].end \in Nat
           /\ input[v].lo \in Nat /\ input[v].hi \in Nat /\ input[v].size \in {8, 16}
           /\ input[v].start <= input[v].lo /\ input[v].lo <= input[v].hi
           /\ input[v].hi <= input[v].end /\ input[v].start \notin Calls
<1>1. input[v] \in LiveInterval
  BY ScanAssumption
<1> QED BY <1>1, ScanAssumption DEF LiveInterval

\* Before the plan no interval has a slot.
LEMMA SlotsInit == LsInit => Slots /\ Handled
<1> SUFFICES ASSUME LsInit PROVE Slots /\ Handled
  OBVIOUS
<1>1. Slots
  BY ScanAssumption, SMT DEF LsInit, Slots, Uncolored
<1>2. Handled
  BY DEF LsInit, Handled, Known
<1> QED BY <1>1, <1>2

\* SpillSlotPlan::new: a slot is taken again only when all its values have
\* ended, and a new one has none.
LEMMA PlanSlotInv ==
    ASSUME Slots, input \in Inputs, NEW v \in VRegs, PlanSlot(v)
    PROVE  Slots'
<1>1. /\ v \in Uncolored /\ input' = input
      /\ \A w \in Uncolored : Before(input[v].lo, v, input[w].lo, w)
      /\ color \in [VRegs -> 0..N] /\ slotSize \in [VRegs -> {0, 8, 16}]
  BY DEF PlanSlot, Slots
<1>2. \A w \in Uncolored : input[v].lo <= input[w].lo
  <2> TAKE w \in Uncolored
  <2>1. input[v].lo \in Nat /\ input[w].lo \in Nat
    BY Ranges DEF Uncolored
  <2> QED BY <1>1, <2>1, SMT DEF Before
<1>3. PICK k \in VRegs :
        /\ color' = [color EXCEPT ![v] = k]
        /\ slotSize' \in [VRegs -> {0, 8, 16}]
        /\ input[v].size <= slotSize'[k]
        /\ \A j \in VRegs : slotSize[j] # 0 => slotSize'[j] = slotSize[j]
        /\ \A w \in VRegs \ Uncolored : color[w] = k => input[w].hi < input[v].lo
  <2>1. ASSUME NEW k \in Reusable(v), color' = [color EXCEPT ![v] = k], slotSize' = slotSize
        PROVE  /\ k \in VRegs /\ input[v].size <= slotSize[k]
               /\ \A w \in VRegs \ Uncolored : color[w] = k => input[w].hi < input[v].lo
    <3>1. /\ k \in VRegs /\ Released(k, input[v].lo)
          /\ \/ slotSize[k] = 16
             \/ slotSize[k] = 8 /\ input[v].size = 8
      BY DEF Reusable
    <3>2. input[v].size \in {8, 16}
      BY Ranges
    <3>3. input[v].size <= slotSize[k]
      BY <3>1, <3>2, SMT
    <3> QED BY <3>1, <3>3 DEF Released
  <2>2. ASSUME NEW k \in VRegs, slotSize[k] = 0, color' = [color EXCEPT ![v] = k],
               slotSize' = [slotSize EXCEPT ![k] = input[v].size]
        PROVE  /\ slotSize' \in [VRegs -> {0, 8, 16}]
               /\ input[v].size <= slotSize'[k]
               /\ \A j \in VRegs : slotSize[j] # 0 => slotSize'[j] = slotSize[j]
               /\ \A w \in VRegs \ Uncolored : color[w] # k
    <3>1. input[v].size \in {8, 16} /\ \A w \in VRegs : input[w].size \in {8, 16}
      BY Ranges
    <3>2. slotSize' \in [VRegs -> {0, 8, 16}] /\ slotSize'[k] = input[v].size
      BY <1>1, <2>2, <3>1
    <3>3. \A j \in VRegs : slotSize[j] # 0 => slotSize'[j] = slotSize[j]
      BY <1>1, <2>2
    <3>4. \A w \in VRegs \ Uncolored : color[w] # k
      <4> TAKE w \in VRegs \ Uncolored
      <4>1. input[w].size <= slotSize[color[w]] /\ ~ input[w].size <= 0
        BY <3>1, SMT DEF Slots
      <4> QED BY <2>2, <4>1
    <3> QED BY <3>1, <3>2, <3>3, <3>4, SMT
  <2> QED BY <1>1, <2>1, <2>2, SMT DEF PlanSlot
<1>4. color' \in [VRegs -> 0..N] /\ color'[v] = k /\ k # 0
  BY <1>1, <1>3, ScanAssumption, SMT DEF VRegs
<1>5. \A w \in VRegs \ {v} : color'[w] = color[w]
  BY <1>1, <1>3
<1>6. Uncolored' = Uncolored \ {v}
  BY <1>4, <1>5 DEF Uncolored
<1>7. ASSUME NEW u \in VRegs \ Uncolored'
      PROVE  /\ input[u].size <= slotSize'[color'[u]]
             /\ \A w \in Uncolored' : input[u].lo <= input[w].lo
  <2>1. CASE u = v
    BY <1>2, <1>3, <1>4, <1>6, <2>1
  <2>2. CASE u # v
    <3>1. u \in VRegs \ Uncolored /\ color'[u] = color[u] /\ color[u] # 0
      BY <1>5, <1>6, <2>2 DEF Uncolored
    <3>2. input[u].size <= slotSize[color[u]] /\ color[u] \in VRegs
      BY <1>1, <3>1, ScanAssumption, SMT DEF Slots, VRegs
    <3>3. slotSize[color[u]] # 0
      BY <3>2, Ranges, SMT
    <3> QED BY <1>3, <1>6, <3>1, <3>2, <3>3 DEF Slots
  <2> QED BY <2>1, <2>2
<1>8. ASSUME NEW u \in VRegs \ Uncolored', NEW w \in VRegs \ {u}, color'[u] = color'[w]
      PROVE  input[u].hi < input[w].lo \/ input[w].hi < input[u].lo
  <2>1. u \notin Uncolored' /\ w \notin Uncolored'
    BY <1>8 DEF Uncolored
  <2>2. CASE u = v
    BY <1>3, <1>4, <1>5, <1>6, <1>8, <2>1, <2>2
  <2>3. CASE w = v
    BY <1>3, <1>4, <1>5, <1>6, <1>8, <2>1, <2>3
  <2>4. CASE u # v /\ w # v
    BY <1>5, <1>6, <1>8, <2>1, <2>4 DEF Slots
  <2> QED BY <2>2, <2>3, <2>4
<1> QED BY <1>1, <1>3, <1>4, <1>7, <1>8 DEF Slots

\* A step of the scan leaves the plan alone.
LEMMA SlotsFrame ==
    ASSUME Slots, UNCHANGED <<input, planVars>>
    PROVE  Slots'
BY DEF Slots, Uncolored, planVars

\* A value that leaves the worklist gets a place; splitting puts the rest on it.
LEMMA HandledStep ==
    ASSUME ScanInv, Handled, NEW v \in Names, AtHead(v), input' = input, Types',
           home'[v] # "none",
           \A n \in Names \ {v} : home'[n] = home[n] \/ home'[n] = "slot",
           \/ todo' = todo \ {v} /\ split' = split
           \/ /\ Splittable(v)
              /\ todo' = (todo \ {v}) \cup {Post(v)} /\ split' = split \cup {v}
    PROVE  Handled'
<1>1. \A n : CallOf(n)' = CallOf(n)
  BY DEF CallOf
<1>2. ASSUME NEW n \in Names, Known(n)', n \notin todo'
      PROVE  home'[n] # "none"
  <2>1. CASE n = v
    BY <2>1
  <2>2. CASE n # v
    <3>1. n \notin todo
      BY <1>2, <2>2
    <3>2. Known(n)
      <4>1. CASE split' = split
        BY <1>2, <4>1 DEF Known
      <4>2. CASE Splittable(v) /\ split' = split \cup {v} /\ Post(v) \in todo'
        <5>1. n - N # v
          BY <1>2, <4>2, ScanAssumption, SMT DEF Post, Names, Splittable, VRegs
        <5> QED BY <1>2, <4>2, <5>1 DEF Known
      <4> QED BY <4>1, <4>2
    <3> QED BY <2>2, <3>1, <3>2 DEF Handled
  <2> QED BY <2>1, <2>2
<1>3. ASSUME NEW u \in split'
      PROVE  /\ Crossed(input'[u].start, input'[u].end) = {CallOf(u)'}
             /\ input'[u].lo < CallOf(u)' /\ CallOf(u)' < input'[u].hi
  <2>1. CASE u \in split
    BY <1>1, <2>1 DEF Handled
  <2>2. CASE u \notin split
    <3>1. u = v /\ Splittable(v)
      BY <1>3, <2>2
    <3>2. Crossed(From(v), To(v)) = {CallOf(v)} /\ v \in VRegs
      BY <3>1, SplitCall DEF ScanInv, Splittable
    <3>3. input[v].lo < CallOf(v) /\ CallOf(v) < input[v].hi
      BY <3>1 DEF Splittable
    <3> QED BY <1>1, <3>1, <3>2, <3>3 DEF From, To
  <2> QED BY <2>1, <2>2
<1> QED BY <1>2, <1>3 DEF Handled

\* The plan and the scan start together.
LEMMA AllocInit == LsInit => AllocInv
BY ScanInit, SlotsInit DEF AllocInv

\* Every step of the allocation preserves the invariant of both.
LEMMA AllocStep == AllocInv /\ [LsNext]_lsVars => AllocInv'
<1> SUFFICES ASSUME AllocInv, [LsNext]_lsVars PROVE AllocInv'
  OBVIOUS
<1>1. ScanInv /\ ScanInv' /\ Types' /\ Slots /\ Handled /\ input \in Inputs /\ Types
  BY ScanStep DEF AllocInv, ScanInv, Types
<1>2. ASSUME NEW v \in VRegs, PlanSlot(v) PROVE Slots' /\ Handled'
  <2>1. Slots'
    BY <1>1, <1>2, PlanSlotInv
  <2>2. UNCHANGED <<input, scanVars>>
    BY <1>2 DEF PlanSlot
  <2> QED BY <1>1, <2>1, <2>2 DEF Handled, Known, Crossed, CallOf, scanVars
<1>3. ASSUME NEW v \in Names, Assign(v) PROVE Slots' /\ Handled'
  <2>1. PICK r \in Pool(v) : home' = [home EXCEPT ![v] = r]
    BY <1>3 DEF Assign
  <2>2. /\ AtHead(v) /\ todo' = todo \ {v} /\ split' = split
        /\ UNCHANGED <<input, planVars>>
    BY <1>3 DEF Assign
  <2>3. r # "none"
    BY <1>1, <2>2, HeadFacts, ScanAssumption DEF Pool
  <2>4. home'[v] # "none" /\ \A n \in Names \ {v} : home'[n] = home[n]
    BY <1>1, <2>1, <2>3 DEF Types
  <2> QED BY <1>1, <2>2, <2>4, SlotsFrame, HandledStep
<1>4. ASSUME NEW v \in Names, SplitAtCall(v) PROVE Slots' /\ Handled'
  <2>1. PICK r \in SafePre(v) : home' = [home EXCEPT ![v] = r]
    BY <1>4 DEF SplitAtCall
  <2>2. /\ AtHead(v) /\ Splittable(v) /\ UNCHANGED <<input, planVars>>
        /\ todo' = (todo \ {v}) \cup {Post(v)} /\ split' = split \cup {v}
    BY <1>4 DEF SplitAtCall
  <2>3. r # "none"
    BY ScanAssumption DEF SafePre, Regs
  <2>4. home'[v] # "none" /\ \A n \in Names \ {v} : home'[n] = home[n]
    BY <1>1, <2>1, <2>3 DEF Types
  <2> QED BY <1>1, <2>2, <2>4, SlotsFrame, HandledStep
<1>5. ASSUME NEW v \in Names, EvictFurthest(v) PROVE Slots' /\ Handled'
  <2>1. PICK a \in Kept(v) : home' = [home EXCEPT ![a.vreg] = "slot", ![v] = a.reg]
    BY <1>5 DEF EvictFurthest
  <2>2. /\ AtHead(v) /\ todo' = todo \ {v} /\ split' = split
        /\ UNCHANGED <<input, planVars>>
    BY <1>5 DEF EvictFurthest
  <2>3. a.reg \in Regs /\ a.vreg \in Names
    BY <1>1 DEF Kept, Types
  <2>4. a.reg # "none"
    BY <2>3, ScanAssumption
  <2>5. home'[v] = a.reg /\ \A n \in Names \ {v} : home'[n] = home[n] \/ home'[n] = "slot"
    BY <1>1, <2>1, <2>3 DEF Types
  <2> QED BY <1>1, <2>2, <2>4, <2>5, SlotsFrame, HandledStep
<1>6. ASSUME NEW v \in Names, SpillSelf(v) PROVE Slots' /\ Handled'
  <2>1. /\ AtHead(v) /\ todo' = todo \ {v} /\ split' = split
        /\ UNCHANGED <<input, planVars>> /\ home' = [home EXCEPT ![v] = "slot"]
    BY <1>6 DEF SpillSelf
  <2>2. home'[v] # "none" /\ \A n \in Names \ {v} : home'[n] = home[n]
    BY <1>1, <2>1 DEF Types
  <2> QED BY <1>1, <2>1, <2>2, SlotsFrame, HandledStep
<1>7. CASE UNCHANGED lsVars
  <2>1. Slots'
    BY <1>1, <1>7, SlotsFrame DEF lsVars
  <2>2. Handled'
    BY <1>1, <1>7 DEF lsVars, scanVars, Handled, Known, Crossed, CallOf
  <2> QED BY <1>1, <2>1, <2>2 DEF AllocInv
<1> QED BY <1>1, <1>2, <1>3, <1>4, <1>5, <1>6, <1>7 DEF LsNext, AllocInv

\* When the worklist is empty, a value is in one of four places: the bridge slot
\* or the second register of a split one after its call, its register, or its
\* planned slot.
LEMMA WhereCases ==
    ASSUME AllocInv, Allocated, NEW v \in VRegs, NEW p
    PROVE  \/ /\ Recorded(v) /\ p > CallOf(v)
              /\ Where(v, p) = <<"bridge", v>>
           \/ /\ Recorded(v) /\ p > CallOf(v)
              /\ home[Post(v)] \in Regs /\ Where(v, p) = home[Post(v)]
           \/ /\ ~(Recorded(v) /\ p > CallOf(v)) /\ home[v] = "slot"
              /\ Where(v, p) = <<"spill", color[v]>>
           \/ /\ ~(Recorded(v) /\ p > CallOf(v)) /\ home[v] \in Regs
              /\ (v \in split => Recorded(v)) /\ Where(v, p) = home[v]
<1>1. /\ home[v] \in Regs \cup {"slot"} /\ Post(v) \in Names
      /\ home[Post(v)] \in Regs \cup {"none", "slot"}
      /\ v \in split => home[Post(v)] # "none"
  <2>1. v \in Names /\ Post(v) \in Names /\ Post(v) - N = v /\ todo = {}
    BY PostName DEF Allocated
  <2>2. Known(v) /\ (v \in split => Known(Post(v)))
    BY <2>1 DEF Known
  <2> QED BY <2>1, <2>2 DEF AllocInv, Handled, ScanInv, Types
<1>2. "slot" \notin Regs /\ "none" \notin Regs
  BY ScanAssumption
<1>3. CASE Recorded(v) /\ p > CallOf(v)
  <2>1. home[Post(v)] \in Regs \cup {"slot"}
    BY <1>1, <1>3 DEF Recorded
  <2>2. CASE home[Post(v)] = "slot"
    BY <1>3, <2>2 DEF Where
  <2>3. CASE home[Post(v)] # "slot"
    BY <1>3, <2>1, <2>3 DEF Where
  <2> QED BY <2>2, <2>3
<1>4. CASE ~(Recorded(v) /\ p > CallOf(v))
  <2>1. CASE home[v] = "slot"
    BY <1>4, <2>1 DEF Where
  <2>2. CASE home[v] # "slot"
    <3>1. Where(v, p) = home[v]
      BY <1>4, <2>2 DEF Where
    <3>2. v \in split => Recorded(v)
      BY <1>1, <2>2 DEF Recorded
    <3> QED BY <1>1, <1>4, <2>2, <3>1, <3>2
  <2> QED BY <2>1, <2>2
<1> QED BY <1>3, <1>4

\* Slots are no registers, and differ by kind and number.
LEMMA Kinds ==
    /\ \A v, k : <<"bridge", v>> # <<"spill", k>>
    /\ \A v, w : <<"bridge", v>> = <<"bridge", w>> => v = w
    /\ \A v, w : <<"spill", v>> = <<"spill", w>> => v = w
    /\ \A v \in VRegs : <<"bridge", v>> \notin Regs /\ <<"spill", v>> \notin Regs
<1>1. \A v \in VRegs : <<"bridge", v>> \notin Regs /\ <<"spill", v>> \notin Regs
  BY CallAssumption, LocationsDisjoint
<1>2. \A v, k : <<"bridge", v>> # <<"spill", k>>
  BY SMT
<1>3. /\ \A v, w : <<"bridge", v>> = <<"bridge", w>> => v = w
      /\ \A v, w : <<"spill", v>> = <<"spill", w>> => v = w
  BY SMT
<1> QED BY <1>1, <1>2, <1>3

\* A name that stands for value v at position p and holds register r there.
Stands(n, v, p, r) ==
    /\ n \in {v, Post(v)} /\ n \in Names /\ home[n] = r
    /\ From(n) <= p /\ p <= (IF n = v /\ v \in split THEN CallOf(v) ELSE To(v))
    /\ n = Post(v) => Recorded(v)
    /\ n = v /\ v \in split => Recorded(v)

\* A value that is in a register stands there under one of its two names.
LEMMA Standing ==
    ASSUME AllocInv, Allocated, NEW v \in VRegs, NEW p \in Nat,
           From(v) <= p, p <= To(v), Where(v, p) \in Regs
    PROVE  \E n : Stands(n, v, p, Where(v, p))
<1>1. /\ v \in Names /\ Post(v) \in Names /\ Post(v) \notin VRegs /\ Post(v) - N = v
      /\ Post(v) # v
  BY PostName
<1>2. color[v] \in VRegs
  BY ScanAssumption, SMT DEF AllocInv, Slots, Allocated, Uncolored, VRegs
<1>3. ~ \E k : Where(v, p) = <<"bridge", v>> \/ (k \in VRegs /\ Where(v, p) = <<"spill", k>>)
  BY Kinds
<1>4. CASE /\ Recorded(v) /\ p > CallOf(v)
           /\ home[Post(v)] \in Regs /\ Where(v, p) = home[Post(v)]
  <2>1. From(Post(v)) = CallOf(v) + 1 /\ CallOf(v) \in Nat
    BY <1>1, <1>4, ScanAssumption DEF From, Recorded, AllocInv, ScanInv, Types
  <2>2. From(Post(v)) <= p
    BY <1>4, <2>1, SMT
  <2>3. Stands(Post(v), v, p, Where(v, p))
    BY <1>1, <1>4, <2>2 DEF Stands
  <2> QED BY <2>3
<1>5. CASE /\ ~(Recorded(v) /\ p > CallOf(v)) /\ home[v] \in Regs
           /\ (v \in split => Recorded(v)) /\ Where(v, p) = home[v]
  <2>1. v \in split => p <= CallOf(v)
    <3>1. v \in split => CallOf(v) \in Nat
      BY ScanAssumption DEF AllocInv, ScanInv, Types
    <3> QED BY <1>5, <3>1, SMT
  <2>2. Stands(v, v, p, Where(v, p))
    BY <1>1, <1>5, <2>1 DEF Stands
  <2> QED BY <2>2
<1> QED BY <1>2, <1>3, <1>4, <1>5, WhereCases

\* Two names never stand in one register at one position: the first half of a
\* split value lasts up to its call, and nothing else begins there.
LEMMA StandingApart ==
    ASSUME AllocInv, Allocated, NEW v \in VRegs, NEW w \in VRegs, NEW p \in Nat, NEW r \in Regs,
           NEW n, Stands(n, v, p, r), NEW m, Stands(m, w, p, r)
    PROVE  n = m
<1> SUFFICES ASSUME n # m PROVE FALSE
  OBVIOUS
<1>1. HeldTo(n) < From(m) \/ HeldTo(m) < From(n)
  BY DEF Stands, AllocInv, ScanInv, NoSharing
<1>2. ASSUME NEW x \in VRegs, NEW y \in VRegs, NEW k, NEW l,
             Stands(k, x, p, r), Stands(l, y, p, r), HeldTo(k) < From(l)
      PROVE  FALSE
  <2>1. Types /\ input \in Inputs /\ Handled
    BY DEF AllocInv, ScanInv, Types
  <2>2. Known(k) /\ Known(l) /\ k \in Names /\ l \in Names
    BY <1>2, <2>1, ScanAssumption DEF Stands, Types
  <2>3. HeldTo(k) \in Nat /\ From(l) \in Nat /\ To(k) \in Nat
    BY <2>1, <2>2, HeldType, RangeTypes
  <2>4. p < HeldTo(k) + 1 \/ (k = x /\ x \in split /\ p = CallOf(x))
    <3>1. CASE k = x /\ x \in split
      <4>1. HeldTo(k) = CallOf(x) - 1 /\ CallOf(x) \in Nat /\ p <= CallOf(x)
        BY <1>2, <2>1, <3>1, ScanAssumption DEF HeldTo, Stands, Types
      <4> QED BY <3>1, <4>1, SMT
    <3>2. CASE ~(k = x /\ x \in split)
      <4>1. k \notin split /\ To(k) = To(x)
        <5>1. k \in {x, Post(x)} /\ Post(x) \notin VRegs /\ Post(x) - N = x
          BY <1>2, PostName DEF Stands
        <5> QED BY <2>1, <3>2, <5>1 DEF Types, To
      <4>2. HeldTo(k) = To(k) /\ p <= To(k)
        BY <1>2, <3>2, <4>1 DEF HeldTo, Stands
      <4> QED BY <2>3, <4>2, SMT
    <3> QED BY <3>1, <3>2
  <2>5. From(l) <= p
    BY <1>2 DEF Stands
  <2>6. k = x /\ x \in split /\ p = CallOf(x) /\ HeldTo(k) = CallOf(x) - 1 /\ CallOf(x) \in Calls
    BY <1>2, <2>1, <2>3, <2>4, <2>5, SMT DEF HeldTo, Types
  <2>7. From(l) = p
    BY <1>2, <2>3, <2>5, <2>6, SMT
  <2>8. CASE l = y
    <3>1. From(l) = input[y].start
      BY <2>8 DEF From
    <3> QED BY <2>1, <2>6, <2>7, <3>1, Ranges
  <2>9. CASE l = Post(y)
    <3>1. From(l) = CallOf(y) + 1
      BY <2>9, PostName DEF From
    <3>2. CallOf(y) \in Calls
      BY <1>2, <2>1, <2>9 DEF Stands, Recorded, Types
    <3> QED BY <2>6, <2>7, <3>1, <3>2, ScanAssumption
  <2> QED BY <1>2, <2>8, <2>9 DEF Stands
<1> QED BY <1>1, <1>2

\* The range toggled for name n of value v.
Toggle(n, v) ==
    IF n = v THEN <<From(v), IF Recorded(v) THEN CallOf(v) ELSE To(v), v>>
             ELSE <<CallOf(v) + 1, To(v), v>>

\* A range that is toggled for r and covers p is that of a name standing in r.
LEMMA TogglesStand ==
    ASSUME AllocInv, Allocated, NEW p \in Nat, NEW r \in Regs,
           NEW x \in Toggled(r), x[1] <= p, p <= x[2]
    PROVE  \E w \in VRegs : \E m : Stands(m, w, p, r) /\ x = Toggle(m, w)
<1>1. CASE \E v \in VRegs : /\ home[v] = r
                            /\ x = <<From(v), IF Recorded(v) THEN CallOf(v) ELSE To(v), v>>
  <2>1. PICK v \in VRegs : /\ home[v] = r
                           /\ x = <<From(v), IF Recorded(v) THEN CallOf(v) ELSE To(v), v>>
    BY <1>1
  <2>2. v \in split => Recorded(v)
    <3>1. Post(v) \in Names /\ Post(v) - N = v /\ todo = {}
      BY PostName DEF Allocated
    <3> QED BY <2>1, <3>1 DEF Recorded, AllocInv, Handled, Known
  <2>3. Recorded(v) <=> v \in split
    BY <2>2 DEF Recorded
  <2>4. From(v) <= p /\ p <= (IF v \in split THEN CallOf(v) ELSE To(v))
    BY <2>1, <2>3
  <2>5. Stands(v, v, p, r)
    BY <2>1, <2>3, <2>4, PostName DEF Stands
  <2> QED BY <2>1, <2>5 DEF Toggle
<1>2. CASE \E v \in VRegs : /\ Recorded(v) /\ home[Post(v)] = r
                            /\ x = <<CallOf(v) + 1, To(v), v>>
  <2>1. PICK v \in VRegs : /\ Recorded(v) /\ home[Post(v)] = r
                           /\ x = <<CallOf(v) + 1, To(v), v>>
    BY <1>2
  <2>2. From(Post(v)) = CallOf(v) + 1 /\ Post(v) # v /\ Post(v) \in Names
    BY PostName DEF From
  <2>3. From(Post(v)) <= p /\ p <= To(v)
    BY <2>1, <2>2
  <2>4. Stands(Post(v), v, p, r)
    BY <2>1, <2>2, <2>3 DEF Stands
  <2> QED BY <2>1, <2>2, <2>4 DEF Toggle
<1> QED BY <1>1, <1>2 DEF Toggled

\* precompute_allocation_plan: the mask has the bit of every register that a
\* live value is in.
LEMMA MaskExact ==
    ASSUME AllocInv, Allocated, NEW v \in VRegs, NEW p \in Nat,
           From(v) <= p, p <= To(v), Where(v, p) \in Regs
    PROVE  Occupied(Where(v, p), p)
<1> DEFINE r == Where(v, p)
<1>1. PICK n : Stands(n, v, p, r)
  BY Standing
<1>2. Toggle(n, v) \in {x \in Toggled(r) : x[1] <= p /\ p <= x[2]}
  <2>1. CASE n = v
    <3>1. v \in split <=> Recorded(v)
      BY <1>1, <2>1 DEF Stands, Recorded
    <3>2. /\ Toggle(n, v) = <<From(v), IF Recorded(v) THEN CallOf(v) ELSE To(v), v>>
          /\ home[v] = r /\ From(v) <= p /\ p <= (IF Recorded(v) THEN CallOf(v) ELSE To(v))
      BY <1>1, <2>1, <3>1 DEF Toggle, Stands
    <3> QED BY <3>2, SMT DEF Toggled
  <2>2. CASE n # v
    <3>1. /\ Toggle(n, v) = <<CallOf(v) + 1, To(v), v>> /\ n = Post(v) /\ Recorded(v)
          /\ home[Post(v)] = r /\ From(n) <= p /\ p <= To(v)
      BY <1>1, <2>2 DEF Toggle, Stands
    <3>2. From(n) = CallOf(v) + 1
      BY <3>1, PostName DEF From
    <3> QED BY <3>1, <3>2, SMT DEF Toggled
  <2> QED BY <2>1, <2>2
<1>3. ASSUME NEW x \in Toggled(r), x[1] <= p, p <= x[2]
      PROVE  x = Toggle(n, v)
  <2>0. PICK w \in VRegs : \E m : Stands(m, w, p, r) /\ x = Toggle(m, w)
    BY <1>3, TogglesStand
  <2>1. PICK m : Stands(m, w, p, r) /\ x = Toggle(m, w)
    BY <2>0
  <2>2. n = m
    BY <1>1, <2>1, StandingApart
  <2>3. v = w
    <3>1. n \in {v, Post(v)} /\ n \in {w, Post(w)}
      BY <1>1, <2>1, <2>2 DEF Stands
    <3>2. /\ Post(v) \notin VRegs /\ Post(v) - N = v
          /\ Post(w) \notin VRegs /\ Post(w) - N = w
      BY PostName
    <3> QED BY <3>1, <3>2
  <2> QED BY <2>1, <2>2, <2>3
<1>4. {x \in Toggled(r) : x[1] <= p /\ p <= x[2]} = {Toggle(n, v)}
  BY <1>2, <1>3
<1>5. Cardinality({Toggle(n, v)}) = 1
  BY FS_Singleton
<1>6. 1 % 2 = 1
  BY SMT
<1> HIDE DEF r
<1>7. Cardinality({x \in Toggled(r) : x[1] <= p /\ p <= x[2]}) % 2 = 1
  BY <1>4, <1>5, <1>6, Zenon
<1> QED BY <1>7 DEF Occupied, r

\* Toggling by parity finds exactly the storage that is live.
LEMMA StorageIsExact == AllocInv => StorageExact
<1> SUFFICES ASSUME AllocInv PROVE StorageExact
  OBVIOUS
<1>1. \A v \in VRegs \ Uncolored :
        /\ input[v].size <= slotSize[color[v]]
        /\ \A w \in VRegs \ {v} :
              color[v] = color[w] => input[v].hi < input[w].lo \/ input[w].hi < input[v].lo
  BY DEF AllocInv, Slots
<1>2. ASSUME Allocated, NEW v \in VRegs, NEW w \in VRegs, NEW p \in {From(w), To(w)},
             From(v) <= p, p <= To(v), Where(v, p) \in Regs
      PROVE  Occupied(Where(v, p), p)
  <2>1. p \in Nat
    BY RangeTypes DEF AllocInv, ScanInv, Known
  <2> QED BY <1>2, <2>1, MaskExact
<1> QED BY <1>1, <1>2 DEF StorageExact

\* Values that are live together share no spill slot, every slot is large enough,
\* and the occupancy masks by which spill reloads find a free register are right.
THEOREM StorageStaysExact == LsSpec => []StorageExact
<1> QED BY AllocInit, AllocStep, StorageIsExact, PTL DEF LsSpec

-----------------------------------------------------------------------------
(* The call *)

\* Two values that are really live at one position that is no call are never in
\* one place.
LEMMA PlacesApart ==
    ASSUME AllocInv, Allocated, NEW v \in VRegs, NEW w \in VRegs, NEW p \in Nat,
           input[v].lo <= p, p <= input[v].hi, input[w].lo <= p, p <= input[w].hi,
           Where(v, p) = Where(w, p)
    PROVE  v = w
<1>1. input \in Inputs /\ Types
  BY DEF AllocInv, ScanInv, Types
<1>2. /\ From(v) <= p /\ p <= To(v) /\ From(w) <= p /\ p <= To(w)
      /\ ~ input[v].hi < input[w].lo /\ ~ input[w].hi < input[v].lo
  <2>1. \A u \in {v, w} : From(u) = input[u].start /\ To(u) = input[u].end
    BY DEF From, To
  <2> QED BY <1>1, <2>1, Ranges, SMT
<1>3. color[v] \in VRegs /\ color[w] \in VRegs
  BY ScanAssumption, SMT DEF AllocInv, Slots, Allocated, Uncolored, VRegs
<1>4. CASE Where(v, p) \in Regs
  <2>1. PICK n, m : Stands(n, v, p, Where(v, p)) /\ Stands(m, w, p, Where(v, p))
    BY <1>2, <1>4, Standing
  <2>2. n = m
    BY <1>4, <2>1, StandingApart, SMT
  <2>3. n \in {v, Post(v)} /\ n \in {w, Post(w)}
    BY <2>1, <2>2 DEF Stands
  <2>4. /\ Post(v) \notin VRegs /\ Post(v) - N = v
        /\ Post(w) \notin VRegs /\ Post(w) - N = w
    BY PostName
  <2> QED BY <2>3, <2>4
<1>5. CASE Where(v, p) \notin Regs
  <2>1. \A u \in {v, w} : Where(u, p) = <<"bridge", u>> \/ Where(u, p) = <<"spill", color[u]>>
    BY <1>5, WhereCases
  <2>2. color[v] = color[w] => v = w
    BY <1>2 DEF AllocInv, Slots, Allocated, Uncolored
  <2> QED BY <2>1, <2>2, Kinds
<1> QED BY <1>4, <1>5

\* So the value found in the place of a live value before the copies is that one.
LEMMA HolderIs ==
    ASSUME AllocInv, Allocated, NEW c \in Calls, NEW v \in VRegs,
           input[v].lo < Marker[c], Marker[c] <= input[v].hi
    PROVE  Holder(Where(v, Marker[c]), c) = v
<1> DEFINE M == Marker[c]
           held == {u \in VRegs : /\ input[u].lo < M /\ M <= input[u].hi
                                  /\ Where(u, M) = Where(v, M)}
<1>1. M \in Nat /\ \A u \in VRegs : input[u].lo \in Nat
  BY CallAssumption, Ranges DEF AllocInv, ScanInv, Types
<1>2. v \in held
  OBVIOUS
<1>3. \A u \in held : u = v
  <2> TAKE u \in held
  <2>1. input[u].lo <= M /\ input[v].lo <= M
    BY <1>1, SMT
  <2> QED BY <1>1, <2>1, PlacesApart
<1>4. Holder(Where(v, M), c) = IF held = {} THEN 0 ELSE CHOOSE u \in held : TRUE
  BY DEF Holder
<1> HIDE DEF held
<1> QED BY <1>2, <1>3, <1>4

\* No call lies between a marker and its call, so a value that has a place at
\* the marker still has it anywhere before the call.
LEMMA WhereKept ==
    ASSUME AllocInv, NEW c \in Calls, NEW v \in VRegs, NEW p \in Nat,
           Marker[c] <= p, p <= c
    PROVE  Where(v, p) = Where(v, Marker[c])
<1>1. Marker[c] \in Nat /\ c \in Nat /\ CopyEnd[c] \in Nat /\ c < CopyEnd[c]
  BY CallAssumption, ScanAssumption
<1>2. Recorded(v) => (p > CallOf(v) <=> Marker[c] > CallOf(v))
  <2> SUFFICES ASSUME Recorded(v) PROVE p > CallOf(v) <=> Marker[c] > CallOf(v)
    OBVIOUS
  <2>1. CallOf(v) \in Calls /\ CallOf(v) \in Nat
    BY ScanAssumption DEF Recorded, AllocInv, ScanInv, Types
  <2>2. Marker[c] <= CallOf(v) /\ CallOf(v) < CopyEnd[c] => CallOf(v) = c
    BY <2>1, CallAssumption
  <2> QED BY <1>1, <2>1, <2>2, SMT
<1> QED BY <1>2 DEF Where

\* Nor does one lie between a call and the end of its result copy.
LEMMA WhereKeptAfter ==
    ASSUME AllocInv, NEW c \in Calls, NEW v \in VRegs, NEW p \in Nat,
           c < p, p < CopyEnd[c]
    PROVE  Where(v, p) = Where(v, c + 1)
<1>1. Marker[c] \in Nat /\ c \in Nat /\ CopyEnd[c] \in Nat /\ Marker[c] < c
  BY CallAssumption, ScanAssumption
<1>2. Recorded(v) => (p > CallOf(v) <=> c + 1 > CallOf(v))
  <2> SUFFICES ASSUME Recorded(v) PROVE p > CallOf(v) <=> c + 1 > CallOf(v)
    OBVIOUS
  <2>1. CallOf(v) \in Calls /\ CallOf(v) \in Nat
    BY ScanAssumption DEF Recorded, AllocInv, ScanInv, Types
  <2>2. Marker[c] <= CallOf(v) /\ CallOf(v) < CopyEnd[c] => CallOf(v) = c
    BY <2>1, CallAssumption
  <2> QED BY <1>1, <2>1, <2>2, SMT
<1> QED BY <1>2 DEF Where

\* The low half of a value is a content, and 8 bytes of it are all of it.
LEMMA LowFacts ==
    ASSUME NEW v \in VRegs
    PROVE  Low(v) \in Values /\ Low(Low(v)) = Low(v)
<1>1. N + v \in Names /\ N + v \notin VRegs
  BY PostName DEF Post
<1>2. v \in Names
  BY PostName
<1> QED BY <1>1, <1>2, CallAssumption DEF Low

\* The places of a value are locations, and its slots neither registers nor
\* temporaries.
LEMMA PlaceKinds ==
    ASSUME AllocInv, Allocated, NEW v \in VRegs, NEW p
    PROVE  /\ \/ Where(v, p) \in Regs
              \/ Where(v, p) = <<"bridge", v>>
              \/ Where(v, p) = <<"spill", color[v]>>
           /\ Where(v, p) \in Locations /\ <<"bridge", v>> \in Locations
           /\ color[v] \in VRegs
           /\ <<"bridge", v>> \notin Regs \cup Temps
           /\ <<"spill", color[v]>> \notin Regs \cup Temps
<1>1. color[v] \in VRegs
  BY ScanAssumption, SMT DEF AllocInv, Slots, Allocated, Uncolored, VRegs
<1>2. \/ Where(v, p) \in Regs
      \/ Where(v, p) = <<"bridge", v>>
      \/ Where(v, p) = <<"spill", color[v]>>
  BY WhereCases
<1>3. Regs \subseteq Loc /\ \A k \in VRegs : <<"spill", k>> \in Frame /\ <<"bridge", k>> \in Frame
  BY CallAssumption
<1>4. <<"bridge", v>> \notin Regs \cup Temps /\ <<"spill", color[v]>> \notin Regs \cup Temps
  BY <1>1, <1>3, LocationsDisjoint
<1> QED BY <1>1, <1>2, <1>3, <1>4 DEF Locations

\* What a location of the allocation holds before the copies: the bridge slot of
\* a value split at this call has the value already.
LEMMA BeforeCopiesIs ==
    ASSUME AllocInv, Allocated, NEW c \in Calls, NEW v \in VRegs,
           input[v].lo < Marker[c], Marker[c] <= input[v].hi
    PROVE  /\ Where(v, Marker[c]) \in Regs \cup Frame
           /\ BeforeCopies(c)[Where(v, Marker[c])] = v
           /\ Bridged(v, c) => BeforeCopies(c)[<<"bridge", v>>] = Low(v)
<1> DEFINE M == Marker[c]  x == Where(v, M)
<1>1. Holder(x, c) = v
  BY HolderIs
<1>2. color[v] \in VRegs
  BY PlaceKinds
<1>3. x \in Regs \cup Frame /\ x \in Locations /\ <<"bridge", v>> \in Locations
  <2>1. \/ x \in Regs \/ x = <<"bridge", v>> \/ x = <<"spill", color[v]>>
    BY WhereCases
  <2>2. <<"spill", color[v]>> \in Frame /\ <<"bridge", v>> \in Frame
    BY <1>2, CallAssumption
  <2>3. x \in Locations /\ <<"bridge", v>> \in Locations
    BY PlaceKinds
  <2> HIDE DEF x
  <2> QED BY <2>1, <2>2, <2>3
<1>4. M \in Nat /\ c \in Nat /\ M < c
  BY CallAssumption, ScanAssumption
<1>5. ~ \E w \in VRegs : Bridged(w, c) /\ x = <<"bridge", w>>
  <2> SUFFICES ASSUME NEW w \in VRegs, Bridged(w, c), x = <<"bridge", w>> PROVE FALSE
    OBVIOUS
  <2>1. Recorded(v) /\ M > CallOf(v) /\ w = v
    <3>1. x \notin Regs /\ x # <<"spill", color[v]>>
      BY Kinds
    <3>2. Recorded(v) /\ M > CallOf(v) /\ x = <<"bridge", v>>
      BY <3>1, WhereCases
    <3> HIDE DEF x
    <3> QED BY <3>2, Kinds
  <2> QED BY <1>4, <2>1, SMT DEF Bridged
<1>6. BeforeCopies(c)[x] = v
  BY <1>1, <1>3, <1>5 DEF BeforeCopies
<1>7. ASSUME Bridged(v, c) PROVE BeforeCopies(c)[<<"bridge", v>>] = Low(v)
  <2>1. Recorded(v) /\ CallOf(v) = c /\ home[v] \in Regs
    BY <1>7 DEF Bridged, Recorded
  <2>2. ~ M > CallOf(v) /\ home[v] # "slot"
    BY <1>4, <2>1, ScanAssumption, SMT
  <2>3. x = home[v]
    BY <2>2 DEF Where
  <2>4. <<"bridge", v>>[2] = v
    BY SMT
  <2>5. <<"bridge", v>> \in {<<"bridge", w>> : w \in {u \in VRegs : Bridged(u, c)}}
    BY <1>7
  <2> QED BY <1>1, <1>3, <2>3, <2>4, <2>5 DEF BeforeCopies
<1> QED BY <1>3, <1>6, <1>7

\* A call splits the values that are live over it from nothing else: such a value
\* is unsplit, or split at this very call.
LEMMA SplitHere ==
    ASSUME AllocInv, NEW c \in Calls, NEW v \in split,
           input[v].lo < c, c < input[v].hi
    PROVE  CallOf(v) = c
<1>1. input \in Inputs /\ v \in VRegs
  BY DEF AllocInv, ScanInv, Types
<1>2. c \in Crossed(input[v].start, input[v].end)
  BY <1>1, Ranges, ScanAssumption, SMT DEF Crossed
<1> QED BY <1>2 DEF AllocInv, Handled

Group(c) ==
    /\ \A w \in Setup(c) : args[w[1]] \in Givable(w, c)
    /\ copies = {[dst |-> w[1], src |-> Where(args[w[1]], w[2])] : w \in Setup(c)}
    /\ entry = BeforeCopies(c)

Stages ==
    /\ stage \in {"allocate", "arguments", "called", "copied", "returned"}
    /\ stage # "allocate" => Allocated /\ call \in Calls
    /\ stage \in {"allocate", "arguments"} => PcInv
    /\ stage = "arguments" => \A c \in Calls : call = c => Group(c)

\* While the result is copied, a value split at the call is in its bridge slot
\* and any other where it will be found, and the result is on its way.
Left(v) ==
    IF Bridged(v, call) THEN loc[<<"bridge", v>>] = Low(v)
    ELSE loc[Where(v, call + 1)] = Remains(v)

Between ==
    /\ stage \in {"called", "copied"} => \A v \in LiveOver : Left(v)
    /\ stage = "called" => \A v \in Results(call) : loc[ResultReg] = Low(v)
    /\ stage = "copied" => \A v \in Results(call) : loc[ResultAt(v)] = Low(v)

CallInv == AllocInv /\ Stages /\ Between /\ ValuesSurviveCall

\* Nothing has been called yet.
LEMMA CallInit == Init => CallInv
<1> SUFFICES ASSUME Init PROVE CallInv
  OBVIOUS
<1>1. AllocInv
  BY AllocInit DEF Init
<1>2. PcInv
  <2>1. loc \in Contents
    BY CallAssumption DEF Init, Contents
  <2>2. PcInit
    BY <2>1 DEF Init, PcInit
  <2> QED BY <2>2, PcInitInv
<1> QED BY <1>1, <1>2 DEF Init, CallInv, Stages, Between, ValuesSurviveCall

\* Only the allocation moves the places.
LEMMA PlacesFixed ==
    ASSUME UNCHANGED lsVars, NEW c
    PROVE  /\ \A v, p : Where(v, p)' = Where(v, p)
           /\ BeforeCopies(c)' = BeforeCopies(c)
           /\ \A w : Givable(w, c)' = Givable(w, c)
           /\ Allocated' = Allocated
<1>1. \A v, p : Where(v, p)' = Where(v, p)
  <2>1. UNCHANGED <<input, home, split, color>>
    BY DEF lsVars, scanVars, planVars
  <2>2. \A v : CallOf(v)' = CallOf(v) /\ Recorded(v)' = Recorded(v)
    BY <2>1, Zenon DEF CallOf, Recorded, Post
  <2> QED BY <2>1, <2>2, Zenon DEF Where, Post
<1>2. BeforeCopies(c)' = BeforeCopies(c) /\ \A w : Givable(w, c)' = Givable(w, c)
  <2>1. UNCHANGED <<input, home, split>>
    BY DEF lsVars, scanVars
  <2>2. \A x : Holder(x, c)' = Holder(x, c)
    <3> TAKE x
    <3> DEFINE held == {v \in VRegs : /\ input[v].lo < Marker[c] /\ Marker[c] <= input[v].hi
                                      /\ Where(v, Marker[c]) = x}
               heldP == {v \in VRegs : /\ input[v].lo < Marker[c] /\ Marker[c] <= input[v].hi
                                       /\ Where(v, Marker[c])' = x}
    <3>1. held = heldP
      BY <1>1
    <3>2. Holder(x, c) = IF held = {} THEN 0 ELSE CHOOSE v \in held : TRUE
      BY DEF Holder
    <3>3. Holder(x, c)' = IF heldP = {} THEN 0 ELSE CHOOSE v \in heldP : TRUE
      BY <2>1, SMT DEF Holder
    <3> HIDE DEF held, heldP
    <3> QED BY <3>1, <3>2, <3>3, SMT
  <2>3. \A w \in VRegs : Bridged(w, c)' = Bridged(w, c)
    BY <2>1, Zenon DEF Bridged, Recorded, CallOf, Post
  <2>4. \A x : Low(x)' = Low(x)
    BY <2>1 DEF Low, Size
  <2>5. BeforeCopies(c)' = BeforeCopies(c)
    BY <2>1, <2>2, <2>3, <2>4, SMT DEF BeforeCopies
  <2> QED BY <2>1, <2>5 DEF Givable, Size
<1>3. Allocated' = Allocated
  BY DEF lsVars, scanVars, planVars, Allocated, Uncolored
<1> QED BY <1>1, <1>2, <1>3

\* The marked group is a group of copies: one per argument register, from a
\* register or a slot.
LEMMA SetUpInv ==
    ASSUME CallInv, NEW c \in Calls, SetUp(c)
    PROVE  CallInv'
<1> DEFINE cs == {[dst |-> w[1], src |-> Where(args'[w[1]], w[2])] : w \in Setup(c)}
<1>1. /\ stage = "allocate" /\ Allocated /\ AllocInv /\ PcInv
      /\ \A w \in Setup(c) : args'[w[1]] \in Givable(w, c)
      /\ Start(cs, BeforeCopies(c))
      /\ stage' = "arguments" /\ call' = c /\ UNCHANGED lsVars
  BY DEF SetUp, CallInv, Stages
<1>2. AllocInv'
  BY <1>1, AllocStep
<1>3. \A v, p : Where(v, p)' = Where(v, p)
  BY <1>1, PlacesFixed
<1>4. BeforeCopies(c)' = BeforeCopies(c) /\ \A w : Givable(w, c)' = Givable(w, c)
  BY <1>1, PlacesFixed
<1>5. \A w \in Setup(c) :
        /\ w[1] \in Loc /\ args'[w[1]] \in VRegs
        /\ Where(args'[w[1]], w[2]) \in Loc \cup Frame
  <2> TAKE w \in Setup(c)
  <2>1. /\ w[1] \in Caller /\ w[2] \in Nat /\ Marker[c] < w[2] /\ w[2] < c
        /\ Marker[c] \in Nat /\ c \in Nat
    BY CallAssumption, ScanAssumption DEF Setup
  <2>2. PICK v \in VRegs : v = args'[w[1]] /\ input[v].lo < Marker[c] /\ w[2] <= input[v].hi
    BY <1>1 DEF Givable
  <2>3. input[v].hi \in Nat
    BY <1>1, Ranges DEF AllocInv, ScanInv, Types
  <2>4. Marker[c] <= w[2] /\ w[2] <= c /\ Marker[c] <= input[v].hi
    BY <2>1, <2>2, <2>3, SMT
  <2>5. Where(v, w[2]) \in Regs \cup Frame
    <3>1. Where(v, w[2]) = Where(v, Marker[c])
      BY <1>1, <2>1, <2>4, WhereKept
    <3> QED BY <1>1, <2>2, <2>4, <3>1, BeforeCopiesIs
  <2> QED BY <2>1, <2>2, <2>5, CallAssumption DEF Regs
<1>6. IsGroup(cs)
  <2>1. cs \subseteq Copy
    BY <1>5, SMT DEF Copy
  <2>2. IsFiniteSet(cs)
    <3>1. IsFiniteSet(Setup(c))
      BY CallAssumption, FS_Subset DEF Setup
    <3> DEFINE f == [w \in Setup(c) |-> [dst |-> w[1], src |-> Where(args'[w[1]], w[2])]]
    <3>2. f \in Surjection(Setup(c), cs)
      BY DEF Surjection
    <3> QED BY <3>1, <3>2, FS_Surjection
  <2>3. \A a, b \in cs : a.dst = b.dst => a = b
    <3>1. \A w, x \in Setup(c) : w[1] = x[1] => w = x
      BY CallAssumption
    <3> QED BY <3>1, SMT
  <2> QED BY <2>1, <2>2, <2>3 DEF IsGroup
<1>7. BeforeCopies(c) \in Contents
  <2>1. \A x : Holder(x, c) \in Values /\ Low(Holder(x, c)) \in Values
    <3> TAKE x
    <3> DEFINE held == {v \in VRegs : /\ input[v].lo < Marker[c] /\ Marker[c] <= input[v].hi
                                      /\ Where(v, Marker[c]) = x}
    <3>1. Holder(x, c) = IF held = {} THEN 0 ELSE CHOOSE v \in held : TRUE
      BY DEF Holder
    <3>2. held \subseteq VRegs
      OBVIOUS
    <3> HIDE DEF held
    <3>3. 0 \notin VRegs /\ VRegs \subseteq Names
      BY ScanAssumption, SMT DEF VRegs, Names
    <3>4. Low(0) = 0
      BY <3>3 DEF Low
    <3>5. VRegs \cup {0} \subseteq Values
      BY <3>3, CallAssumption
    <3>6. Holder(x, c) \in VRegs \cup {0}
      BY <3>1, <3>2
    <3> QED BY <3>4, <3>5, <3>6, LowFacts
  <2> QED BY <2>1 DEF BeforeCopies, Contents
<1>8. PcInv'
  BY <1>1, <1>6, <1>7, StartInv
<1>9. Stages'
  <2>1. Allocated'
    BY <1>1 DEF Allocated, Uncolored, lsVars, scanVars, planVars
  <2>2. copies' = cs /\ entry' = BeforeCopies(c)
    BY <1>1 DEF Start
  <2>3. copies' = {[dst |-> w[1], src |-> Where(args[w[1]], w[2])'] : w \in Setup(c)}
    BY <1>3, <2>2
  <2>4. \A w \in Setup(c) : args'[w[1]] \in Givable(w, c)'
    BY <1>1, <1>4
  <2>5. Group(c)'
    BY <1>4, <2>2, <2>3, <2>4 DEF Group, Setup
  <2> QED BY <1>1, <1>8, <2>1, <2>5 DEF Stages
<1>10. Between' /\ ValuesSurviveCall'
  BY <1>1 DEF Between, ValuesSurviveCall
<1> QED BY <1>2, <1>9, <1>10 DEF CallInv

\* A group is the group of its call for as long as the allocation stands.
LEMMA GroupKept ==
    ASSUME NEW c, Group(c), UNCHANGED <<lsVars, args, copies, entry>>
    PROVE  Group(c)'
<1>1. \A w \in Setup(c) : args'[w[1]] \in Givable(w, c)'
  BY PlacesFixed DEF Group
<1>2. copies' = {[dst |-> w[1], src |-> Where(args[w[1]], w[2])'] : w \in Setup(c)}
  <2>1. \A w \in Setup(c) : Where(args[w[1]], w[2])' = Where(args[w[1]], w[2])
    BY Zenon DEF lsVars, scanVars, planVars, Where, Recorded, Post, CallOf
  <2> QED BY <2>1 DEF Group
<1>3. entry' = BeforeCopies(c)'
  BY PlacesFixed DEF Group
<1> QED BY <1>1, <1>2, <1>3 DEF Group, Setup

\* A copy changes neither the allocation nor what the group was given as.
LEMMA CopyArgumentsInv ==
    ASSUME CallInv, CopyArguments
    PROVE  CallInv'
<1>1. /\ stage = "arguments" /\ AllocInv /\ PcInv /\ CopyStep
      /\ UNCHANGED <<lsVars, stage, call, args>>
  BY DEF CopyArguments, CallInv, Stages
<1>2. AllocInv'
  BY <1>1, AllocStep
<1>3. PcInv'
  BY <1>1, PcStepInv DEF PcNext
<1>4. copies' = copies /\ entry' = entry
  BY <1>1 DEF CopyStep, Emit, BreakCycle
<1>5. Stages'
  <2>1. PICK c : c = call /\ c = call'
    BY <1>1
  <2>2. Allocated /\ c \in Calls /\ Group(c)
    BY <1>1, <2>1 DEF CallInv, Stages
  <2>3. Group(c)'
    BY <1>1, <1>4, <2>2, GroupKept
  <2>4. Allocated'
    BY <1>1, <2>2, PlacesFixed
  <2> QED BY <1>1, <1>3, <2>1, <2>2, <2>3, <2>4 DEF Stages
<1>6. Between' /\ ValuesSurviveCall'
  BY <1>1 DEF Between, ValuesSurviveCall
<1> QED BY <1>2, <1>5, <1>6 DEF CallInv

\* When the copies are done, what a live value's place held at the marker is
\* still there, unless it is an argument register.
LEMMA PlacesAfterCopies ==
    ASSUME CallInv, stage = "arguments", pending = {},
           NEW v \in VRegs, input[v].lo < Marker[call], Marker[call] <= input[v].hi
    PROVE  /\ Where(v, Marker[call]) \notin Caller => loc[Where(v, Marker[call])] = v
           /\ Bridged(v, call) => loc[<<"bridge", v>>] = Low(v)
<1>1. /\ AllocInv /\ Allocated /\ call \in Calls /\ PcInv /\ entry = BeforeCopies(call)
      /\ copies = {[dst |-> w[1], src |-> Where(args[w[1]], w[2])] : w \in Setup(call)}
  BY DEF CallInv, Stages, Group
<1>2. Written \subseteq Caller
  <2>1. \A w \in Setup(call) : w[1] \in Caller
    BY <1>1, CallAssumption
  <2> QED BY <1>1, <2>1, SMT DEF Written
<1>3. \A x \in (Loc \cup Frame) \ Written : loc[x] = entry[x]
  BY <1>1 DEF PcInv, Promise
<1>4. /\ Where(v, Marker[call]) \in Regs \cup Frame
      /\ entry[Where(v, Marker[call])] = v
      /\ Bridged(v, call) => entry[<<"bridge", v>>] = Low(v)
  BY <1>1, BeforeCopiesIs
<1>5. <<"bridge", v>> \in Frame /\ <<"bridge", v>> \notin Caller
  BY CallAssumption, Kinds DEF Regs
<1> QED BY <1>2, <1>3, <1>4, <1>5, CallAssumption

\* What the places and the contents are called is fixed with the allocation.
LEMMA TermsFixed ==
    ASSUME UNCHANGED <<lsVars, call>>
    PROVE  /\ LiveOver' = LiveOver /\ Results(call)' = Results(call)
           /\ \A v \in VRegs : /\ Where(v, call + 1)' = Where(v, call + 1)
                               /\ ResultAt(v)' = ResultAt(v) /\ Low(v)' = Low(v)
                               /\ Remains(v)' = Remains(v)
                               /\ Bridged(v, call)' = Bridged(v, call)
<1>1. call' = call /\ UNCHANGED <<input, home, split, color>>
  BY DEF lsVars, scanVars, planVars
<1>2. \A v : CallOf(v)' = CallOf(v) /\ Recorded(v)' = Recorded(v) /\ Low(v)' = Low(v)
  BY <1>1, Zenon DEF CallOf, Recorded, Post, Low, Size
<1>3. \A v : Where(v, call + 1)' = Where(v, call + 1)
  BY <1>1, <1>2, Zenon DEF Where, Post
<1>4. \A v : ResultAt(v)' = ResultAt(v)
  BY <1>1, <1>2, Zenon DEF ResultAt, Where, Post
<1>5. \A v : Remains(v)' = Remains(v)
  BY <1>2, <1>3, Zenon DEF Remains
<1>6. \A v : Bridged(v, call)' = Bridged(v, call)
  BY <1>1, <1>2, Zenon DEF Bridged
<1>7. LiveOver' = LiveOver /\ Results(call)' = Results(call)
  BY <1>1 DEF LiveOver, Results
<1> QED BY <1>2, <1>3, <1>4, <1>5, <1>6, <1>7

LEMMA LeftFixed ==
    ASSUME UNCHANGED <<lsVars, call, loc>>, NEW v \in VRegs
    PROVE  Left(v)' = Left(v)
BY TermsFixed DEF Left

\* The values live over the call and the result, and where they lie.
LEMMA LiveFacts ==
    ASSUME AllocInv, call \in Calls, NEW v \in LiveOver
    PROVE  /\ v \in VRegs /\ call \in Nat
           /\ input[v].lo < call /\ call < input[v].hi /\ CopyEnd[call] <= input[v].hi
           /\ input[v].lo \in Nat /\ input[v].hi \in Nat /\ CopyEnd[call] \in Nat
           /\ input[v].lo < Marker[call] /\ Marker[call] <= input[v].hi
<1>1. v \in VRegs /\ input[v].lo < call /\ call < input[v].hi /\ input \in Inputs
  BY DEF LiveOver, AllocInv, ScanInv, Types
<1>2. /\ input[v].lo \in Nat /\ input[v].hi \in Nat
      /\ call \in Nat /\ Marker[call] \in Nat /\ Marker[call] < call
      /\ CopyEnd[call] \in Nat
  BY <1>1, Ranges, CallAssumption, ScanAssumption
<1>3. ~(Marker[call] <= input[v].lo /\ input[v].lo <= call) /\ CopyEnd[call] <= input[v].hi
  BY <1>1, CallAssumption
<1>4. input[v].lo < Marker[call] /\ Marker[call] <= input[v].hi
  BY <1>1, <1>2, <1>3, SMT
<1> QED BY <1>1, <1>2, <1>3, <1>4

\* Two values that are live over the call have different places after it.
LEMMA LiveApart ==
    ASSUME AllocInv, Allocated, call \in Calls, NEW u \in LiveOver, NEW v \in LiveOver,
           Where(u, call + 1) = Where(v, call + 1)
    PROVE  u = v
<1>1. \A w \in {u, v} : w \in VRegs /\ input[w].lo <= call + 1 /\ call + 1 <= input[w].hi
  <2> TAKE w \in {u, v}
  <2>1. /\ w \in VRegs /\ call \in Nat /\ input[w].lo < call /\ call < input[w].hi
        /\ input[w].lo \in Nat /\ input[w].hi \in Nat
    BY LiveFacts
  <2> QED BY <2>1, SMT
<1>2. call + 1 \in Nat
  BY ScanAssumption
<1> QED BY <1>1, <1>2, PlacesApart

\* The result is copied to the place of no value that is live over the call.
LEMMA ResultApart ==
    ASSUME AllocInv, Allocated, call \in Calls, NEW v \in LiveOver, NEW r \in Results(call)
    PROVE  ResultAt(r) # Where(v, call + 1) /\ r # v
<1> DEFINE p == input[r].lo
<1>1. r \in VRegs /\ p \in Nat /\ call < p /\ p < CopyEnd[call] /\ p <= input[r].hi
  BY Ranges DEF Results, AllocInv, ScanInv, Types
<1>2. /\ v \in VRegs /\ call \in Nat /\ input[v].lo < call /\ CopyEnd[call] <= input[v].hi
      /\ input[v].lo \in Nat /\ input[v].hi \in Nat /\ CopyEnd[call] \in Nat
  BY LiveFacts
<1>3. input[v].lo <= p /\ p <= input[v].hi /\ r # v
  BY <1>1, <1>2, SMT
<1>4. Where(v, p) = Where(v, call + 1)
  BY <1>1, <1>2, WhereKeptAfter
<1>5. p <= p
  BY <1>1, SMT
<1>6. Where(r, p) # Where(v, p)
  BY <1>1, <1>2, <1>3, <1>5, PlacesApart
<1> QED BY <1>3, <1>4, <1>6 DEF ResultAt

\* A value that is split at the call is live over it.
LEMMA BridgedLive ==
    ASSUME AllocInv, NEW v \in VRegs, Bridged(v, call)
    PROVE  v \in LiveOver
BY DEF Bridged, Recorded, AllocInv, Handled, LiveOver

\* The call leaves slots alone, and 8 bytes of callee-saved registers.
LEMMA BlInv ==
    ASSUME CallInv, Bl
    PROVE  CallInv'
<1>1. /\ stage = "arguments" /\ pending = {} /\ AllocInv /\ Allocated /\ call \in Calls
      /\ stage' = "called" /\ UNCHANGED <<lsVars, call, args>>
      /\ loc' = [x \in Locations |-> AfterCall(x)]
  BY DEF Bl, CallInv, Stages
<1>2. AllocInv'
  BY <1>1, AllocStep
<1>3. Stages'
  BY <1>1, PlacesFixed DEF Stages
<1>4. ResultReg \in Caller /\ ResultReg \in Locations /\ ResultReg \notin Callee
  BY CallAssumption, ScanAssumption DEF Regs, Locations
<1>5. ASSUME NEW v \in LiveOver, Bridged(v, call) PROVE loc'[<<"bridge", v>>] = Low(v)
  <2>1. v \in VRegs /\ loc[<<"bridge", v>>] = Low(v)
    BY <1>1, <1>5, LiveFacts, PlacesAfterCopies
  <2>2. <<"bridge", v>> \in Locations /\ <<"bridge", v>> \notin Regs \cup Temps
    BY <1>1, <2>1, PlaceKinds
  <2>3. AfterCall(<<"bridge", v>>) = loc[<<"bridge", v>>]
    BY <1>4, <2>2 DEF AfterCall, Regs
  <2> QED BY <1>1, <2>1, <2>2, <2>3
<1>6. ASSUME NEW v \in LiveOver, ~Bridged(v, call)
      PROVE  loc'[Where(v, call + 1)] = Remains(v)
  <2> DEFINE x == Where(v, call + 1)
  <2>1. /\ v \in VRegs /\ call \in Nat /\ input[v].lo < call /\ call < input[v].hi
        /\ input[v].lo < Marker[call] /\ Marker[call] <= input[v].hi
    BY <1>1, LiveFacts
  <2>2. ~Recorded(v)
    BY <1>1, <1>6, <2>1, SplitHere DEF Bridged, Recorded
  <2>3. x = Where(v, Marker[call])
    BY <2>2 DEF Where
  <2>4. x \notin Caller => loc[x] = v
    BY <1>1, <2>1, <2>3, PlacesAfterCopies
  <2>5. /\ x \in Locations /\ color[v] \in VRegs
        /\ <<"spill", color[v]>> \notin Regs \cup Temps
    BY <1>1, <2>1, PlaceKinds
  <2>6. CASE x = <<"spill", color[v]>>
    <3>1. AfterCall(x) = loc[x]
      BY <1>4, <2>5, <2>6 DEF AfterCall, Regs
    <3>2. Remains(v) = v
      BY <2>5, <2>6 DEF Remains
    <3> QED BY <1>1, <2>4, <2>5, <2>6, <3>1, <3>2 DEF Regs
  <2>7. CASE x # <<"spill", color[v]>>
    <3>1. home[v] \in Regs /\ v \notin split /\ x = home[v]
      BY <1>1, <2>1, <2>2, <2>7, WhereCases
    <3>2. From(v) = input[v].start /\ HeldTo(v) = input[v].end /\ v \in Names
      BY <2>1, <3>1, PostName DEF From, HeldTo, To
    <3>3. call \in Crossed(From(v), HeldTo(v))
      <4>1. /\ input[v].start \in Nat /\ input[v].end \in Nat
            /\ input[v].lo \in Nat /\ input[v].hi \in Nat
            /\ input[v].start <= input[v].lo /\ input[v].hi <= input[v].end
        BY <1>1, <2>1, Ranges DEF AllocInv, ScanInv, Types
      <4>2. input[v].start < call /\ call < input[v].end
        BY <2>1, <4>1, SMT
      <4> QED BY <1>1, <3>2, <4>2 DEF Crossed
    <3>4. x \notin Caller /\ x \in Callee /\ x \notin Temps
      <4>1. home[v] \notin Caller
        BY <1>1, <3>2, <3>3 DEF AllocInv, ScanInv, Guarded
      <4> QED BY <3>1, <4>1, CallAssumption, LocationsDisjoint DEF Regs
    <3>5. AfterCall(x) = Low(loc[x])
      <4> HIDE DEF x
      <4> QED BY <1>4, <3>4 DEF AfterCall
    <3>6. Remains(v) = Low(v)
      <4>1. \A k \in VRegs : x # <<"spill", k>>
        <5> HIDE DEF x
        <5> QED BY <3>1, Kinds
      <4> QED BY <4>1 DEF Remains
    <3> QED BY <1>1, <2>4, <2>5, <3>4, <3>5, <3>6
  <2> QED BY <2>6, <2>7
<1>7. ASSUME NEW v \in Results(call) PROVE loc'[ResultReg] = Low(v)
  <2>1. \A w \in Results(call) : w = v
    BY <1>1, CallAssumption DEF Results, AllocInv, ScanInv, Types
  <2>2. (CHOOSE w \in Results(call) : TRUE) = v
    BY <1>7, <2>1
  <2>3. AfterCall(ResultReg) = Low(v)
    BY <1>7, <2>2 DEF AfterCall
  <2> QED BY <1>1, <1>4, <2>3
<1>8. Between' /\ ValuesSurviveCall'
  <2>1. \A v \in LiveOver : v \in VRegs
    BY DEF LiveOver
  <2>2. \A v \in LiveOver : Left(v)'
    BY <1>1, <1>5, <1>6, <2>1, TermsFixed DEF Left
  <2>3. \A v \in Results(call) : loc'[ResultReg] = Low(v)'
    BY <1>1, <1>7, TermsFixed DEF Results
  <2> QED BY <1>1, <2>2, <2>3, TermsFixed DEF Between, ValuesSurviveCall
<1> QED BY <1>2, <1>3, <1>8 DEF CallInv

\* The result is copied to a place of its own.
LEMMA CopyResultInv ==
    ASSUME CallInv, CopyResult
    PROVE  CallInv'
<1>1. /\ stage = "called" /\ AllocInv /\ Allocated /\ call \in Calls
      /\ stage' = "copied" /\ UNCHANGED <<lsVars, call, args>>
      /\ loc' = [x \in Locations |->
                    IF \E v \in Results(call) : x = ResultAt(v)
                    THEN Low(loc[ResultReg]) ELSE loc[x]]
      /\ \A v \in LiveOver : Left(v)
      /\ \A v \in Results(call) : loc[ResultReg] = Low(v)
  BY DEF CopyResult, CallInv, Stages, Between
<1>2. AllocInv'
  BY <1>1, AllocStep
<1>3. Stages'
  BY <1>1, PlacesFixed DEF Stages
<1>4. ASSUME NEW v \in LiveOver PROVE Left(v)'
  <2>1. v \in VRegs
    BY DEF LiveOver
  <2>2. /\ Where(v, call + 1) \in Locations /\ <<"bridge", v>> \in Locations
        /\ <<"bridge", v>> \notin Regs
    BY <1>1, <2>1, PlaceKinds
  <2>3. loc'[Where(v, call + 1)] = loc[Where(v, call + 1)]
    BY <1>1, <2>2, ResultApart
  <2>4. loc'[<<"bridge", v>>] = loc[<<"bridge", v>>]
    <3>1. ASSUME NEW r \in Results(call) PROVE ResultAt(r) # <<"bridge", v>>
      <4>1. r # v /\ r \in VRegs
        BY <1>1, ResultApart DEF Results
      <4>2. \/ ResultAt(r) \in Regs
            \/ ResultAt(r) = <<"bridge", r>>
            \/ ResultAt(r) = <<"spill", color[r]>>
        BY <1>1, <4>1, PlaceKinds DEF ResultAt
      <4> QED BY <2>2, <4>1, <4>2, Kinds
    <3> QED BY <1>1, <2>2, <3>1
  <2>5. Left(v)
    BY <1>1
  <2>6. /\ Where(v, call + 1)' = Where(v, call + 1) /\ Low(v)' = Low(v)
        /\ Remains(v)' = Remains(v) /\ Bridged(v, call)' = Bridged(v, call)
    BY <1>1, <2>1, TermsFixed
  <2> QED BY <2>3, <2>4, <2>5, <2>6 DEF Left
<1>5. ASSUME NEW v \in Results(call) PROVE loc'[ResultAt(v)] = Low(v)
  <2>1. v \in VRegs
    BY DEF Results
  <2>2. ResultAt(v) \in Locations
    BY <1>1, <2>1, PlaceKinds DEF ResultAt
  <2>3. loc'[ResultAt(v)] = Low(loc[ResultReg])
    BY <1>1, <2>2
  <2> QED BY <1>1, <2>1, <2>3, LowFacts
<1>6. Between' /\ ValuesSurviveCall'
  <2>1. \A v \in Results(call) : v \in VRegs
    BY DEF Results
  <2>2. \A v \in Results(call)' : loc'[ResultAt(v)'] = Low(v)'
    BY <1>1, <1>5, <2>1, TermsFixed
  <2> QED BY <1>1, <1>4, <2>2, TermsFixed DEF Between, ValuesSurviveCall
<1> QED BY <1>2, <1>3, <1>6 DEF CallInv

\* What is loaded back into a register is the value that belongs there, and no
\* other value, nor the result, is in one of these registers.
LEMMA LoadBridgesInv ==
    ASSUME CallInv, LoadBridges
    PROVE  CallInv'
<1> DEFINE back(x) == {v \in VRegs : Bridged(v, call) /\ Where(v, call + 1) = x}
<1>1. /\ stage = "copied" /\ AllocInv /\ Allocated /\ call \in Calls
      /\ stage' = "returned" /\ UNCHANGED <<lsVars, call, args>>
      /\ loc' = [x \in Locations |->
                    IF back(x) # {} /\ x \in Regs
                    THEN Low(loc[<<"bridge", CHOOSE v \in back(x) : TRUE>>]) ELSE loc[x]]
      /\ \A v \in LiveOver : Left(v)
      /\ \A v \in Results(call) : loc[ResultAt(v)] = Low(v)
  BY DEF LoadBridges, Loaded, CallInv, Stages, Between
<1>2. AllocInv'
  BY <1>1, AllocStep
<1>3. Stages'
  BY <1>1, PlacesFixed DEF Stages
<1>4. \A x : \A u \in back(x) : u \in VRegs /\ u \in LiveOver /\ Where(u, call + 1) = x
  BY <1>1, BridgedLive
<1>5. ASSUME NEW v \in LiveOver PROVE loc'[Where(v, call + 1)] = Remains(v)
  <2> DEFINE x == Where(v, call + 1)
  <2>1. v \in VRegs /\ call \in Nat /\ Left(v)
    BY <1>1, LiveFacts
  <2>2. x \in Locations
    BY <1>1, <2>1, PlaceKinds
  <2>3. \A u \in back(x) : u = v
    BY <1>1, <1>4, LiveApart
  <2>4. CASE ~Bridged(v, call)
    <3>1. back(x) = {}
      BY <2>3, <2>4
    <3>2. loc'[x] = loc[x]
      <4> HIDE DEF x, back
      <4> QED BY <1>1, <2>2, <3>1
    <3> QED BY <2>1, <2>4, <3>2 DEF Left
  <2>5. CASE Bridged(v, call)
    <3>1. loc[<<"bridge", v>>] = Low(v)
      BY <2>1, <2>5 DEF Left
    <3>2. Recorded(v) /\ call + 1 > CallOf(v)
      BY <2>1, <2>5, SMT DEF Bridged
    <3>3. x = <<"bridge", v>> \/ x \in Regs
      BY <1>1, <2>1, <3>2, WhereCases
    <3>4. Remains(v) = Low(v)
      <4>1. \A k \in VRegs : x # <<"spill", k>>
        <5>1. CASE x \in Regs
          <6> HIDE DEF x
          <6> QED BY <5>1, Kinds
        <5>2. CASE x = <<"bridge", v>>
          <6> HIDE DEF x
          <6> QED BY <5>2, Kinds
        <5> QED BY <3>3, <5>1, <5>2
      <4> QED BY <4>1 DEF Remains
    <3>5. CASE x = <<"bridge", v>>
      <4>1. x \notin Regs
        BY <2>1, <3>5, Kinds
      <4>2. loc'[x] = loc[x]
        <5> HIDE DEF x, back
        <5> QED BY <1>1, <2>2, <4>1
      <4> QED BY <3>1, <3>4, <3>5, <4>2
    <3>6. CASE x \in Regs
      <4>1. v \in back(x)
        BY <2>1, <2>5
      <4>2. (CHOOSE u \in back(x) : TRUE) = v
        BY <2>3, <4>1
      <4>3. loc'[x] = Low(loc[<<"bridge", v>>])
        <5> HIDE DEF x, back
        <5> QED BY <1>1, <2>2, <3>6, <4>1, <4>2
      <4> QED BY <2>1, <3>1, <3>4, <4>3, LowFacts
    <3> QED BY <3>3, <3>5, <3>6
  <2> QED BY <2>4, <2>5
<1>6. ASSUME NEW v \in Results(call) PROVE loc'[ResultAt(v)] = Low(v)
  <2>1. v \in VRegs
    BY DEF Results
  <2>2. ResultAt(v) \in Locations
    BY <1>1, <2>1, PlaceKinds DEF ResultAt
  <2>3. back(ResultAt(v)) = {}
    BY <1>1, <1>4, ResultApart
  <2>4. loc'[ResultAt(v)] = loc[ResultAt(v)]
    <3> HIDE DEF back
    <3> QED BY <1>1, <2>2, <2>3
  <2> QED BY <1>1, <2>4
<1>7. Between' /\ ValuesSurviveCall'
  <2>1. (\A v \in LiveOver : v \in VRegs) /\ (\A v \in Results(call) : v \in VRegs)
    BY DEF LiveOver, Results
  <2>2. \A v \in LiveOver' : loc'[Where(v, call + 1)'] = Remains(v)'
    BY <1>1, <1>5, <2>1, TermsFixed
  <2>3. \A v \in Results(call)' : loc'[ResultAt(v)'] = Low(v)'
    BY <1>1, <1>6, <2>1, TermsFixed
  <2> QED BY <1>1, <2>2, <2>3 DEF Between, ValuesSurviveCall
<1> QED BY <1>2, <1>3, <1>7 DEF CallInv

\* The allocation does not touch the copies.
LEMMA AllocateInv ==
    ASSUME CallInv, Allocate
    PROVE  CallInv'
<1>1. /\ stage = "allocate" /\ AllocInv /\ PcInv /\ LsNext
      /\ UNCHANGED <<pcVars, stage, call, args>>
  BY DEF Allocate, CallInv, Stages
<1>2. AllocInv'
  BY <1>1, AllocStep
<1>3. PcInv'
  BY <1>1, PcStepInv
<1> QED BY <1>1, <1>2, <1>3 DEF CallInv, Stages, Between, ValuesSurviveCall

\* Nor do the steps that leave everything as it is.
LEMMA IdleInv ==
    ASSUME CallInv, UNCHANGED vars
    PROVE  CallInv'
<1>1. UNCHANGED lsVars /\ UNCHANGED pcVars /\ UNCHANGED <<stage, call, args>>
  BY DEF vars
<1>2. AllocInv'
  BY <1>1, AllocStep DEF CallInv
<1>3. CASE stage = "allocate"
  <2>1. PcInv'
    BY <1>1, <1>3, PcStepInv DEF CallInv, Stages
  <2> QED BY <1>1, <1>2, <1>3, <2>1 DEF CallInv, Stages, Between, ValuesSurviveCall
<1>4. CASE stage = "arguments"
  <2>1. PcInv'
    BY <1>1, <1>4, PcStepInv DEF CallInv, Stages
  <2>2. PICK c : c = call /\ c = call'
    BY <1>1
  <2>3. Allocated /\ c \in Calls /\ Group(c)
    BY <1>4, <2>2 DEF CallInv, Stages
  <2>4. Group(c)'
    BY <1>1, <2>3, GroupKept DEF pcVars
  <2>5. Allocated'
    BY <1>1, <2>3, PlacesFixed
  <2> QED BY <1>1, <1>2, <1>4, <2>1, <2>2, <2>3, <2>4, <2>5
      DEF CallInv, Stages, Between, ValuesSurviveCall
<1>5. CASE stage \in {"called", "copied", "returned"}
  <2>1. Stages'
    BY <1>1, <1>5, PlacesFixed DEF CallInv, Stages
  <2>2. Between' /\ ValuesSurviveCall'
    <3>1. UNCHANGED <<lsVars, call, loc, stage>>
      BY <1>1 DEF pcVars
    <3>2. (\A v \in LiveOver : v \in VRegs) /\ (\A v \in Results(call) : v \in VRegs)
      BY DEF LiveOver, Results
    <3>3. LiveOver' = LiveOver /\ Results(call)' = Results(call)
      BY <3>1, TermsFixed
    <3>4. \A v \in LiveOver : /\ Left(v)' = Left(v) /\ Remains(v)' = Remains(v)
                             /\ Where(v, call + 1)' = Where(v, call + 1)
      BY <3>1, <3>2, LeftFixed, TermsFixed
    <3>5. \A v \in Results(call) : ResultAt(v)' = ResultAt(v) /\ Low(v)' = Low(v)
      BY <3>1, <3>2, TermsFixed
    <3>6. Between'
      BY <3>1, <3>3, <3>4, <3>5 DEF CallInv, Between
    <3>7. ValuesSurviveCall'
      BY <3>1, <3>3, <3>4, <3>5 DEF CallInv, ValuesSurviveCall
    <3> QED BY <3>6, <3>7
  <2> QED BY <1>2, <2>1, <2>2 DEF CallInv
<1> QED BY <1>3, <1>4, <1>5 DEF CallInv, Stages

\* Every step of the system preserves the invariant.
LEMMA CallNext == CallInv /\ [Next]_vars => CallInv'
<1> SUFFICES ASSUME CallInv, [Next]_vars PROVE CallInv'
  OBVIOUS
<1>1. CASE Allocate
  BY <1>1, AllocateInv
<1>2. ASSUME NEW c \in Calls, SetUp(c) PROVE CallInv'
  BY <1>2, SetUpInv
<1>3. CASE CopyArguments
  BY <1>3, CopyArgumentsInv
<1>4. CASE Bl
  BY <1>4, BlInv
<1>5. CASE CopyResult
  BY <1>5, CopyResultInv
<1>6. CASE LoadBridges
  BY <1>6, LoadBridgesInv
<1>7. CASE UNCHANGED vars
  BY <1>7, IdleInv
<1> QED BY <1>1, <1>2, <1>3, <1>4, <1>5, <1>6, <1>7 DEF Next, Done

\* The invariant of the allocation, the copies and the call holds throughout.
THEOREM CallInvariant == Spec => []CallInv
<1>1. Init => CallInv
  BY CallInit
<1> QED BY <1>1, CallNext, PTL DEF Spec

\* When the copies of a marked group are done, every register holds its
\* argument: the group is simultaneous, and no place it reads is the place of
\* two values.
LEMMA ArgumentsAreThere == CallInv => ArgumentsArrive
<1> SUFFICES ASSUME CallInv, stage = "arguments", pending = {}, NEW r \in ArgRegs(call)
             PROVE  loc[r] = args[r]
  BY DEF ArgumentsArrive
<1>1. /\ AllocInv /\ Allocated /\ call \in Calls /\ PcInv /\ Group(call)
  BY DEF CallInv, Stages
<1>2. PICK w \in Setup(call) : r = w[1]
  BY DEF ArgRegs
<1>3. PICK v \in VRegs : /\ v = args[r] /\ input[v].lo < Marker[call] /\ w[2] <= input[v].hi
  BY <1>1, <1>2 DEF Group, Givable
<1>4. /\ Marker[call] \in Nat /\ call \in Nat /\ w[2] \in Nat /\ input[v].hi \in Nat
      /\ Marker[call] < w[2] /\ w[2] < call
  BY <1>1, CallAssumption, ScanAssumption, Ranges DEF Setup, AllocInv, ScanInv, Types
<1>5. Marker[call] <= w[2] /\ w[2] <= call /\ Marker[call] <= input[v].hi
  BY <1>3, <1>4, SMT
<1>6. Where(v, w[2]) = Where(v, Marker[call])
  BY <1>1, <1>3, <1>4, <1>5, WhereKept
<1>7. entry[Where(v, Marker[call])] = v
  BY <1>1, <1>3, <1>5, BeforeCopiesIs DEF Group
<1>8. [dst |-> r, src |-> Where(v, w[2])] \in copies
  BY <1>1, <1>2, <1>3 DEF Group
<1>9. \A c \in copies : loc[c.dst] = entry[c.src]
  BY <1>1 DEF PcInv, Promise, Dsts
<1> QED BY <1>3, <1>6, <1>7, <1>8, <1>9

\* For every allocation the scan can make and every group of argument copies,
\* the callee finds its arguments in the registers it takes them from.
THEOREM ArgumentsAlwaysArrive == Spec => []ArgumentsArrive
BY CallInvariant, ArgumentsAreThere, PTL

\* No value that is live over a call is lost by it, nor is the call's result: it
\* is in a register the callee saves, in a slot, or it was stored before the call
\* and loaded after the result was copied (insert_split_bridges).  Vectors keep
\* their low half, and all of it in a spill slot.
THEOREM LiveValuesSurvive == Spec => []ValuesSurviveCall
<1>1. CallInv => ValuesSurviveCall
  BY DEF CallInv
<1> QED BY <1>1, CallInvariant, PTL

\* The promises of the allocation hold in the whole system too: the copies and
\* the call leave it as it is.
THEOREM AllocationStands == Spec => [](NoSharing /\ CallsPreserve /\ StorageExact)
<1>1. CallInv => NoSharing /\ CallsPreserve /\ StorageExact
  BY StorageIsExact, GuardedPreserves DEF CallInv, AllocInv, ScanInv
<1> QED BY <1>1, CallInvariant, PTL
=============================================================================
