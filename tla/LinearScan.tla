----------------------------- MODULE LinearScan -----------------------------
(***************************************************************************)
(* The arm64 register allocator (linear_scan and SpillSlotPlan in          *)
(* codegen/arm64/linearscan.rs) for one register file; the general and the *)
(* floating-point file have pools of their own and run the same code.      *)
(*                                                                         *)
(* A value (virtual register) has a conservative live range start..end,    *)
(* which decides registers, and a corrected one lo..hi inside it, which    *)
(* decides which values may share a spill slot.  Positions are the even    *)
(* numbers of the instructions.  The order in which a pool offers its      *)
(* registers is left open: no property depends on it.  The hint branch is  *)
(* left out, since no interval is ever given a hint.                       *)
(***************************************************************************)
EXTENDS Naturals, FiniteSets

CONSTANTS
    N,         \* number of values
    Caller,    \* registers a call overwrites
    Callee,    \* registers a call preserves
    Calls,     \* positions of the calls
    Writes,    \* pairs <<register, position>>: moves into fixed registers
    Inputs     \* the live ranges to allocate: functions of 1..N

Regs == Caller \cup Callee
VRegs == 1..N
Names == 1..(2 * N)

\* LiveInterval with what linear_scan computes beside it: `local` is
\* vreg_ref_blocks and vreg_def_blocks having one block, `size` the bytes of a
\* spill.
LiveInterval == [start : Nat, end : Nat, lo : Nat, hi : Nat,
                 local : BOOLEAN, size : {8, 16}]

\* A call defines no value, and in its block it comes after the CallArgCopyStart
\* of select_call_inst or the copies of its arguments (the pow of FPow), so no
\* range starts at a call.  Instructions are two positions apart.
ASSUME ScanAssumption ==
    /\ N \in Nat
    /\ Caller \cap Callee = {}
    /\ Regs \cap {"none", "slot"} = {}
    /\ Calls \subseteq Nat \ {0}
    /\ \A c \in Calls : c + 1 \notin Calls
    /\ Inputs \subseteq [VRegs -> LiveInterval]
    /\ \A i \in Inputs, v \in VRegs :
          /\ i[v].start <= i[v].lo /\ i[v].lo <= i[v].hi /\ i[v].hi <= i[v].end
          /\ i[v].start \notin Calls

VARIABLES
    input,     \* the live ranges of this function
    color,     \* SpillSlotPlan: the slot planned for each value, 0 before
    slotSize,  \* SpillSlotPlan: the bytes of each slot
    todo,      \* the values of the worklist not yet handled
    active,    \* the registers in use: register, last position, value
    free,      \* the registers of both free pools
    home,      \* per value and post-half: "none", "slot" or its register
    split,     \* the values split at a call
    used       \* callee_saved_used

planVars == <<color, slotSize>>
scanVars == <<todo, active, free, home, split, used>>
lsVars == <<input, planVars, scanVars>>

\* classify_call_crossing: the calls strictly inside a range.
Crossed(s, e) == {c \in Calls : s < c /\ c < e}

\* The call a value is split at, and the synthetic value that covers the rest.
CallOf(v) == CHOOSE c \in Calls : input[v].start < c /\ c < input[v].end
Post(v) == N + v
From(v) == IF v \in VRegs THEN input[v].start ELSE CallOf(v - N) + 1
To(v) == IF v \in VRegs THEN input[v].end ELSE input[v - N].end
HeldTo(v) == IF v \in split THEN CallOf(v) - 1 ELSE To(v)
Size(v) == input[IF v \in VRegs THEN v ELSE v - N].size

\* Intervals are handled in the order of their start, then of their value; the
\* second halves of values split at one call come in any order.
Before(p, v, q, w) == p < q \/ (p = q /\ (v <= w \/ v > N))

----------------------------------------------------------------------------
LsInit ==
    /\ input \in Inputs
    /\ color = [v \in VRegs |-> 0] /\ slotSize = [k \in VRegs |-> 0]
    /\ todo = VRegs
    /\ active = {} /\ free = Regs
    /\ home = [v \in Names |-> "none"]
    /\ split = {} /\ used = {}

Uncolored == {v \in VRegs : color[v] = 0}

\* A mutant of Released: a value may take the slot of one that ends where it
\* starts.
ReleasedAtEnd(k, p) ==
    /\ slotSize[k] > 0
    /\ \A w \in VRegs : color[w] = k => input[w].hi <= p

\* SpillSlotPlan::new: a color is free again when every value it holds ends
\* strictly before this one starts.
Released(k, p) ==
    /\ slotSize[k] > 0
    /\ \A w \in VRegs : color[w] = k => input[w].hi < p

\* free_8 before free_16 for 8 bytes, free_16 alone for 16.
Reusable(v) ==
    LET ofSize(n) == {k \in VRegs : Released(k, input[v].lo) /\ slotSize[k] = n}
    IN  IF input[v].size = 8 /\ ofSize(8) # {} THEN ofSize(8) ELSE ofSize(16)

PlanSlot(v) ==
    /\ v \in Uncolored
    /\ \A w \in Uncolored : Before(input[v].lo, v, input[w].lo, w)
    /\ \/ \E k \in Reusable(v) :
             /\ color' = [color EXCEPT ![v] = k]
             /\ UNCHANGED slotSize
       \/ /\ Reusable(v) = {}
          /\ \E k \in VRegs :
                /\ slotSize[k] = 0
                /\ \A j \in 1..(k - 1) : slotSize[j] > 0
                /\ color' = [color EXCEPT ![v] = k]
                /\ slotSize' = [slotSize EXCEPT ![k] = input[v].size]
    /\ UNCHANGED <<input, scanVars>>

----------------------------------------------------------------------------
\* The interval at the head of the worklist.
AtHead(v) ==
    /\ Uncolored = {}
    /\ v \in todo
    /\ \A w \in todo : Before(From(v), v, From(w), w)

\* A mutant of Kept: a register is released at the last position of its value.
KeptOneLess(v) == {a \in active : a.end > From(v)}

\* expire_intervals: what stays active when v starts, and what is free then.
Kept(v) == {a \in active : a.end >= From(v)}
Avail(v) == free \cup {a.reg : a \in active \ Kept(v)}

Crosses(v) == Crossed(From(v), To(v)) # {}

\* A mutant of Pool: a value that crosses a call takes any register.
PoolAny(v) ==
    IF Avail(v) \cap Caller # {} THEN Avail(v) \cap Caller ELSE Avail(v) \cap Callee

\* reg_opt: a value that crosses a call needs a callee-saved register, also when
\* it is wider than what a callee saves of it; another one takes a caller-saved
\* register first.
Pool(v) ==
    IF ~Crosses(v) /\ Avail(v) \cap Caller # {}
    THEN Avail(v) \cap Caller
    ELSE Avail(v) \cap Callee

\* safe_pre_phys: no fixed move overwrites the register before the call.
SafePre(v) ==
    {r \in Avail(v) \cap Caller :
        \A w \in Writes : w[1] = r => ~(From(v) < w[2] /\ w[2] <= CallOf(v) - 1)}

\* single_call, real_crosses: the value is referenced in one block and really
\* straddles its only call.
Splittable(v) ==
    /\ v \in VRegs
    /\ \E c \in Calls : Crossed(From(v), To(v)) = {c}
    /\ input[v].local
    /\ input[v].lo < CallOf(v) /\ CallOf(v) < input[v].hi

CanSplit(v) == Splittable(v) /\ SafePre(v) # {}

Hold(v, r, e) == [reg |-> r, end |-> e, vreg |-> v]

\* A register is free.
Assign(v) ==
    /\ AtHead(v)
    /\ \E r \in Pool(v) :
          /\ home' = [home EXCEPT ![v] = r]
          /\ active' = Kept(v) \cup {Hold(v, r, To(v))}
          /\ free' = Avail(v) \ {r}
          /\ used' = used \cup ({r} \cap Callee)
    /\ todo' = todo \ {v}
    /\ UNCHANGED <<input, planVars, split>>

\* Live-range splitting: the part before the call takes a caller-saved register,
\* the part after it joins the worklist under a name of its own.
SplitAtCall(v) ==
    /\ AtHead(v)
    /\ Pool(v) = {}
    /\ Splittable(v)
    /\ \E r \in SafePre(v) :
          /\ home' = [home EXCEPT ![v] = r]
          /\ active' = Kept(v) \cup {Hold(v, r, CallOf(v) - 1)}
          /\ free' = Avail(v) \ {r}
    /\ todo' = (todo \ {v}) \cup {Post(v)}
    /\ split' = split \cup {v}
    /\ UNCHANGED <<input, planVars, used>>

Furthest(v) == {a \in Kept(v) : \A b \in Kept(v) : b.end <= a.end}

Evicts(v, a) == a \in Furthest(v) /\ a.end > To(v)

\* The active value that ends last gives its register up and lives in memory.
EvictFurthest(v) ==
    /\ AtHead(v)
    /\ Pool(v) = {} /\ ~CanSplit(v)
    /\ \E a \in Kept(v) :
          /\ Evicts(v, a)
          /\ home' = [home EXCEPT ![a.vreg] = "slot", ![v] = a.reg]
          /\ active' = (Kept(v) \ {a}) \cup {Hold(v, a.reg, To(v))}
    /\ free' = Avail(v)
    /\ todo' = todo \ {v}
    /\ UNCHANGED <<input, planVars, split, used>>

SpillSelf(v) ==
    /\ AtHead(v)
    /\ Pool(v) = {} /\ ~CanSplit(v)
    /\ \A a \in Kept(v) : ~Evicts(v, a)
    /\ home' = [home EXCEPT ![v] = "slot"]
    /\ active' = Kept(v) /\ free' = Avail(v)
    /\ todo' = todo \ {v}
    /\ UNCHANGED <<input, planVars, split, used>>

LsNext ==
    \/ \E v \in VRegs : PlanSlot(v)
    \/ \E v \in Names :
          \/ Assign(v)
          \/ SplitAtCall(v)
          \/ EvictFurthest(v)
          \/ SpillSelf(v)

LsSpec == LsInit /\ [][LsNext]_lsVars

----------------------------------------------------------------------------
Allocated == Uncolored = {} /\ todo = {}

\* The SplitRecords built at the end: a value whose first half was evicted
\* keeps none and is in memory throughout.
Recorded(v) == v \in split /\ home[v] \in Regs /\ home[Post(v)] # "none"

\* logical_assignment: the register or the slot of v at position p.
Where(v, p) ==
    CASE Recorded(v) /\ p > CallOf(v) /\ home[Post(v)] = "slot" -> <<"bridge", v>>
      [] Recorded(v) /\ p > CallOf(v) /\ home[Post(v)] # "slot" -> home[Post(v)]
      [] ~(Recorded(v) /\ p > CallOf(v)) /\ home[v] = "slot" -> <<"spill", color[v]>>
      [] OTHER -> home[v]

\* precompute_allocation_plan: the ranges toggled for register r, with their
\* values; a first half is toggled up to the call itself.
Toggled(r) ==
    {<<From(v), IF Recorded(v) THEN CallOf(v) ELSE To(v), v>> :
        v \in {w \in VRegs : home[w] = r}}
    \cup {<<CallOf(v) + 1, To(v), v>> :
             v \in {w \in VRegs : Recorded(w) /\ home[Post(w)] = r}}

\* The occupancy mask at the instruction of position p: each toggle flips it.
Occupied(r, p) == Cardinality({x \in Toggled(r) : x[1] <= p /\ p <= x[2]}) % 2 = 1
----------------------------------------------------------------------------
\* No two values whose live ranges overlap are in the same register, at any
\* point of the scan: neither expiry, nor splitting, nor eviction hands a
\* register out twice.
NoSharing ==
    \A v, w \in Names :
        v # w /\ home[v] \in Regs /\ home[v] = home[w] =>
            HeldTo(v) < From(w) \/ HeldTo(w) < From(v)

\* The bytes of register r that a call leaves (insert_callee_saves gives every
\* register it saves a slot of 8 bytes), and those of a value in it.
Preserved(r) == IF r \in Callee THEN 8 ELSE 0
Surviving(v) == IF Size(v) < Preserved(home[v]) THEN Size(v) ELSE Preserved(home[v])

\* A call leaves 8 bytes of every value that is in a register across it: all of
\* a narrow value, and no more than the low half of a vector, for which the
\* callee-saved registers are no safe place (audit-05.md:290-292).  None is ever
\* in a caller-saved register there, even in one taken from an evicted value.
\* A callee-saved register in use is always among those the prologue saves.
CallsPreserve ==
    \A v \in Names : home[v] \in Regs =>
        /\ Crossed(From(v), HeldTo(v)) # {} => Surviving(v) = 8
        /\ home[v] \in Callee => home[v] \in used

\* Storage is what the rest of the back end takes it to be.  Values live at the
\* same position never share a planned spill slot, and a 16-byte value never
\* gets an 8-byte slot (SpillSlotPlan).  "Allocated intervals sharing a physical
\* register never overlap, so toggling at each range boundary produces the exact
\* occupancy mask": a register that apply_allocation borrows for a spill reload
\* holds no value live there.
StorageExact ==
    /\ \A v \in VRegs \ Uncolored :
          /\ input[v].size <= slotSize[color[v]]
          /\ \A w \in VRegs \ {v} :
                color[v] = color[w] => input[v].hi < input[w].lo \/ input[w].hi < input[v].lo
    /\ Allocated =>
          \A v, w \in VRegs : \A p \in {From(w), To(w)} :
              From(v) <= p /\ p <= To(v) /\ Where(v, p) \in Regs => Occupied(Where(v, p), p)

=============================================================================
