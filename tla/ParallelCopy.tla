---------------------------- MODULE ParallelCopy ----------------------------
(***************************************************************************)
(* The parallel copies of the arm64 back end: the arguments of a branch    *)
(* (emit_branch_arg_copies in isel.rs), of a call and of a function entry  *)
(* (rewrite_call_arg_copy_operations in linearscan.rs).  All three turn "all *)
(* the values arrive at once" into a sequence of moves with the same loop: *)
(* emit a copy whose destination nobody still reads; when there is none,   *)
(* save one source in a temporary and read it from there.                  *)
(*                                                                         *)
(* A location is a virtual register, a physical register or a 16-byte slot *)
(* of the frame.  Frame holds the locations that copies only read (a call  *)
(* argument reloaded from its spill slot has no source register).  Temps   *)
(* holds the temporaries: one fresh register per broken cycle for the      *)
(* narrow branch arguments, one slot shared by all the broken cycles for   *)
(* the wide ones, x9 or d29 for calls and entries.  `loc` is what the      *)
(* instructions emitted so far leave in the locations.                     *)
(***************************************************************************)
EXTENDS Naturals, FiniteSets

CONSTANTS Loc, Frame, Temps, Values

\* Temporaries are never named by a copy: the allocation order leaves x9-x11
\* and d29-d31 out, and the other temporaries are made for the purpose.
ASSUME LocationsDisjoint ==
    /\ Loc \cap Frame = {}
    /\ Loc \cap Temps = {}
    /\ Frame \cap Temps = {}
    /\ Temps # {}

VARIABLES
    copies,    \* the group being emitted, as it was given
    entry,     \* what the locations hold when the group starts
    pending,   \* the copies not yet emitted
    loc        \* what the locations hold after the moves emitted so far

pcVars == <<copies, entry, pending, loc>>

Locations == Loc \cup Frame \cup Temps
Contents == [Locations -> Values]

\* A group: every destination (a block parameter, an argument register) is
\* written once.
Copy == [dst : Loc, src : Loc \cup Frame]
IsGroup(cs) ==
    /\ cs \subseteq Copy
    /\ IsFiniteSet(cs)
    /\ \A c, d \in cs : c.dst = d.dst => c = d

\* PendingCallArgCopy::source_reg: a reload reads no register.
ReadsRegister(c) == c.src \notin Frame

\* The search for safe_idx: no other pending copy reads the destination.
Safe(c) == \A d \in pending \ {c} : d.src # c.dst

----------------------------------------------------------------------------
PcInit ==
    /\ copies = {} /\ pending = {}
    /\ loc \in Contents
    /\ entry = loc

\* A new group, after other instructions have left l in the locations.
Start(cs, l) ==
    /\ pending = {}
    /\ copies' = cs /\ pending' = cs
    /\ entry' = l /\ loc' = l

\* A mutant of Emit: the first pending copy is taken as it comes.
EmitInOrder(c) ==
    /\ loc' = [loc EXCEPT ![c.dst] = loc[c.src]]
    /\ pending' = pending \ {c}
    /\ UNCHANGED <<copies, entry>>

\* `pending.remove(idx)` and the move it becomes.
Emit(c) ==
    /\ Safe(c)
    /\ loc' = [loc EXCEPT ![c.dst] = loc[c.src]]
    /\ pending' = pending \ {c}
    /\ UNCHANGED <<copies, entry>>

\* Every pending destination is still read: one register source goes through a
\* temporary.
BreakCycle(c, t) ==
    /\ \A d \in pending : ~Safe(d)
    /\ ReadsRegister(c)
    /\ loc' = [loc EXCEPT ![t] = loc[c.src]]
    /\ pending' = (pending \ {c}) \cup {[dst |-> c.dst, src |-> t]}
    /\ UNCHANGED <<copies, entry>>

CopyStep ==
    \E c \in pending :
        \/ Emit(c)
        \/ \E t \in Temps : BreakCycle(c, t)

PcNext ==
    \/ \E cs \in SUBSET Copy, l \in Contents : IsGroup(cs) /\ Start(cs, l)
    \/ CopyStep

PcSpec == PcInit /\ [][PcNext]_pcVars
----------------------------------------------------------------------------
Written == {c.dst : c \in copies}

\* The moves have the effect of all the copies at once: when the group is
\* emitted, every destination holds what its source held when the group
\* started, and no other location that a copy may name has changed.
Simultaneous ==
    pending = {} =>
        /\ \A c \in copies : loc[c.dst] = entry[c.src]
        /\ \A x \in (Loc \cup Frame) \ Written : loc[x] = entry[x]

\* When every pending destination is still read, the sources are exactly the
\* destinations.  So the temporary about to be written holds nothing that is
\* still needed, which is why one scratch serves every cycle of a group, and
\* the reload-free copy that the code asks for ("parallel-copy cycle must
\* contain a register source") exists.
CyclesArePermutations ==
    (\A c \in pending : ~Safe(c)) =>
        {c.src : c \in pending} = {c.dst : c \in pending}

=============================================================================
