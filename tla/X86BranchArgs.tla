--------------------------- MODULE X86BranchArgs ---------------------------
(***************************************************************************)
(* The branch arguments of the x86 back end (emit_branch_arg_copies in     *)
(* codegen/x86/isel.rs).  The arguments are visited in order.  A narrow    *)
(* one is read into a temporary of its own and written to its parameter in *)
(* a second loop; a wide one (i128, a pair of frame slots) is copied at    *)
(* once.  `loc` is what the instructions emitted so far leave in the       *)
(* virtual registers and slots.                                            *)
(***************************************************************************)
EXTENDS Naturals, Sequences, FiniteSets

CONSTANTS Narrow, Wide, MaxArgs

VARIABLES
    args,      \* the (parameter, argument) pairs of the branch
    next,      \* the pair the loops are at
    staged,    \* the narrow pairs read so far: parameter and value of the temp
    loc

vars == <<args, next, staged, loc>>

Locations == Narrow \cup Wide

\* A parameter and its argument have one type; parameters are distinct.
Pairs == (Narrow \X Narrow) \cup (Wide \X Wide)
ArgLists ==
    {s \in UNION {[1..n -> Pairs] : n \in 0..MaxArgs} :
        \A i, j \in DOMAIN s : s[i][1] = s[j][1] => i = j}

Init ==
    /\ args \in ArgLists
    /\ next = 1 /\ staged = <<>>
    /\ loc = [x \in Locations |-> x]

\* `dst == src`: nothing is emitted.
Skip ==
    /\ next <= Len(args)
    /\ args[next][1] = args[next][2]
    /\ next' = next + 1
    /\ UNCHANGED <<args, staged, loc>>

CopyWide ==
    /\ next <= Len(args)
    /\ args[next][1] \in Wide /\ args[next][1] # args[next][2]
    /\ loc' = [loc EXCEPT ![args[next][1]] = loc[args[next][2]]]
    /\ next' = next + 1
    /\ UNCHANGED <<args, staged>>

StageNarrow ==
    /\ next <= Len(args)
    /\ args[next][1] \in Narrow /\ args[next][1] # args[next][2]
    /\ staged' = Append(staged, <<args[next][1], loc[args[next][2]]>>)
    /\ next' = next + 1
    /\ UNCHANGED <<args, loc>>

\* The second loop.
WriteStaged ==
    /\ next > Len(args) /\ staged # <<>>
    /\ loc' = [loc EXCEPT ![Head(staged)[1]] = Head(staged)[2]]
    /\ staged' = Tail(staged)
    /\ UNCHANGED <<args, next>>

Emitted == next > Len(args) /\ staged = <<>>

Done == Emitted /\ UNCHANGED vars

Next == Skip \/ CopyWide \/ StageNarrow \/ WriteStaged \/ Done

Spec == Init /\ [][Next]_vars
----------------------------------------------------------------------------
\* "all reads complete before any param is written, so overlapping/swapped args
\* can't clobber each other": at the jump every parameter holds what its
\* argument held before the first move.
AllReadsFirst == Emitted => \A i \in DOMAIN args : loc[args[i][1]] = args[i][2]

=============================================================================
