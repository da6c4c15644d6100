------------------------------ MODULE RegAlloc ------------------------------
(***************************************************************************)
(* The arm64 back end around one call: the registers of the function are   *)
(* allocated (LinearScan), then the instructions before and after the call *)
(* run on what the allocation decided.  insert_split_bridges stores the    *)
(* split values, the arguments are copied to the argument registers        *)
(* (ParallelCopy, with the spilled arguments reloaded straight into their  *)
(* argument register), the call overwrites what it may overwrite, its      *)
(* result is copied out of the result register, and the split values are   *)
(* loaded back.                                                            *)
(*                                                                         *)
(* The content of a location is a value, the low half of a 16-byte value,  *)
(* or 0 for anything else.  Spill slots have room for the whole value;     *)
(* callees save, and bridges move, 8 bytes.                                *)
(*                                                                         *)
(* The calls are those of select_call_inst, which stand between the two    *)
(* markers CallArgCopyStart and CallResultCopyEnd.  The call of pow for    *)
(* FPow has neither: a function with one is outside this module, and so    *)
(* are the pairs of registers loaded for a 128-bit integer argument, which *)
(* is done before the first marker.                                        *)
(***************************************************************************)
EXTENDS LinearScan, ParallelCopy

CONSTANTS
    Marker,       \* per call, the position of its CallArgCopyStart
    CopyEnd,      \* per call, the position of its CallResultCopyEnd
    ResultReg     \* the register a call returns its result in

VARIABLES
    stage,     \* "allocate", "arguments", "called", "copied" or "returned"
    call,      \* the position of the call that is executed
    args       \* per argument register, its value, or 0

vars == <<lsVars, pcVars, stage, call, args>>

\* The moves into argument registers between the marker of call c and c.
Setup(c) == {w \in Writes : Marker[c] < w[2] /\ w[2] < c}
ArgRegs(c) == {w[1] : w \in Setup(c)}

\* select_call_inst in isel.rs: between the marker and its call there are only the moves
\* into argument registers, which the call may overwrite, one per register; no
\* value is defined there.  Between the call and its other marker at most one
\* value is defined, the result, and no value is used.  Registers and slots are
\* locations, temporaries apart.
ASSUME CallAssumption ==
    /\ IsFiniteSet(Writes)
    /\ ResultReg \in Caller
    /\ \A c \in Calls :
          /\ Marker[c] \in Nat /\ Marker[c] < c
          /\ CopyEnd[c] \in Nat /\ c < CopyEnd[c]
          /\ \A d \in Calls : Marker[c] <= d /\ d < CopyEnd[c] => d = c
          /\ \A i \in Inputs, v \in VRegs :
                /\ ~(Marker[c] <= i[v].lo /\ i[v].lo <= c)
                /\ i[v].lo < c /\ c < i[v].hi => CopyEnd[c] <= i[v].hi
                /\ c < i[v].lo /\ i[v].lo < CopyEnd[c] =>
                      \A w \in VRegs : c < i[w].lo /\ i[w].lo < CopyEnd[c] => v = w
          /\ \A w \in Setup(c) : w[1] \in Caller /\ w[2] \in Nat
          /\ \A w, x \in Setup(c) : w[1] = x[1] => w = x
    /\ Regs \subseteq Loc
    /\ \A v \in VRegs : <<"spill", v>> \in Frame /\ <<"bridge", v>> \in Frame
    /\ Names \cup {0} \subseteq Values

\* What a move of 8 bytes leaves of a content; N + v is the low half of v.
Low(x) == IF x \in VRegs /\ Size(x) = 16 THEN N + x ELSE x

\* The values an argument can have (a vector is no register argument), those
\* live over a call, and the result of call c.
Givable(w, c) ==
    {v \in VRegs : Size(v) = 8 /\ input[v].lo < Marker[c] /\ w[2] <= input[v].hi}
LiveOver == {v \in VRegs : input[v].lo < call /\ call < input[v].hi}
Results(c) == {v \in VRegs : c < input[v].lo /\ input[v].lo < CopyEnd[c]}
ResultAt(v) == Where(v, input[v].lo)

Bridged(v, c) == Recorded(v) /\ CallOf(v) = c

\* The value in location x when the code before call c reaches its marker.
Holder(x, c) ==
    LET held == {v \in VRegs : /\ input[v].lo < Marker[c] /\ Marker[c] <= input[v].hi
                               /\ Where(v, Marker[c]) = x}
    IN  IF held = {} THEN 0 ELSE CHOOSE v \in held : TRUE

\* The locations after the bridge stores, which come above the argument copies.
BeforeCopies(c) ==
    [x \in Locations |->
        IF x \in {<<"bridge", v>> : v \in {w \in VRegs : Bridged(w, c)}}
        THEN Low(Holder(home[x[2]], c))
        ELSE Holder(x, c)]

----------------------------------------------------------------------------
Init ==
    /\ LsInit
    /\ copies = {} /\ pending = {}
    /\ loc = [x \in Locations |-> 0] /\ entry = loc
    /\ stage = "allocate" /\ call = 0 /\ args = <<>>

Allocate ==
    /\ stage = "allocate"
    /\ LsNext
    /\ UNCHANGED <<pcVars, stage, call, args>>

\* The marked group before a call: one copy per register argument.
SetUp(c) ==
    /\ stage = "allocate" /\ Allocated
    /\ args' \in [ArgRegs(c) -> VRegs]
    /\ \A w \in Setup(c) : args'[w[1]] \in Givable(w, c)
    /\ Start({[dst |-> w[1], src |-> Where(args'[w[1]], w[2])] : w \in Setup(c)},
             BeforeCopies(c))
    /\ stage' = "arguments" /\ call' = c
    /\ UNCHANGED lsVars

CopyArguments ==
    /\ stage = "arguments"
    /\ CopyStep
    /\ UNCHANGED <<lsVars, stage, call, args>>

\* What the call leaves in location x.
AfterCall(x) ==
    IF x = ResultReg /\ Results(call) # {} THEN Low(CHOOSE v \in Results(call) : TRUE)
    ELSE IF x \in Caller \cup Temps THEN 0
    ELSE IF x \in Callee THEN Low(loc[x]) ELSE loc[x]

\* What l becomes by the bridge loads of the split values whose second half has
\* a register.
Loaded(l) ==
    [x \in Locations |->
        LET back == {v \in VRegs : Bridged(v, call) /\ Where(v, call + 1) = x}
        IN  IF back # {} /\ x \in Regs
            THEN Low(l[<<"bridge", CHOOSE v \in back : TRUE>>])
            ELSE l[x]]

\* A mutant of Bl: the split values are loaded as soon as the call is back.
BlLoads ==
    /\ stage = "arguments" /\ pending = {}
    /\ loc' = Loaded([x \in Locations |-> AfterCall(x)])
    /\ stage' = "called"
    /\ UNCHANGED <<lsVars, copies, entry, pending, call, args>>

Bl ==
    /\ stage = "arguments" /\ pending = {}
    /\ loc' = [x \in Locations |-> AfterCall(x)]
    /\ stage' = "called"
    /\ UNCHANGED <<lsVars, copies, entry, pending, call, args>>

\* The move out of the result register, of 8 bytes in every class.
CopyResult ==
    /\ stage = "called"
    /\ loc' = [x \in Locations |->
                  IF \E v \in Results(call) : x = ResultAt(v) THEN Low(loc[ResultReg]) ELSE loc[x]]
    /\ stage' = "copied"
    /\ UNCHANGED <<lsVars, copies, entry, pending, call, args>>

\* pending_post_call_bridges, which wait for CallResultCopyEnd.
LoadBridges ==
    /\ stage = "copied"
    /\ loc' = Loaded(loc)
    /\ stage' = "returned"
    /\ UNCHANGED <<lsVars, copies, entry, pending, call, args>>

\* The code after the call, and a function that makes no call.
Done == stage \in {"allocate", "returned"} /\ Allocated /\ UNCHANGED vars

Next ==
    \/ Allocate \/ (\E c \in Calls : SetUp(c)) \/ CopyArguments
    \/ Bl \/ CopyResult \/ LoadBridges \/ Done

Spec == Init /\ [][Next]_vars
----------------------------------------------------------------------------
\* Every argument register holds its argument at the call, whatever registers
\* and slots the allocation chose and however they overlap.
ArgumentsArrive ==
    stage = "arguments" /\ pending = {} => \A r \in ArgRegs(call) : loc[r] = args[r]

\* What is left of a value that was live over the call: all of it in a spill
\* slot, and its low 8 bytes elsewhere.
Remains(v) == IF \E k \in VRegs : Where(v, call + 1) = <<"spill", k>> THEN v ELSE Low(v)

\* When the code goes on after CallResultCopyEnd, every value that is live over
\* the call is where the instructions that use it look for it, and so is the
\* result: the loads of the split values overwrite neither the result register
\* while it is needed nor what the result was copied to.  An 8-byte value is
\* there with all its bytes; of a 16-byte one, a callee-saved register or a
\* bridge has brought over the low half only (audit-05.md:290-292).
ValuesSurviveCall ==
    stage = "returned" =>
        /\ \A v \in LiveOver : loc[Where(v, call + 1)] = Remains(v)
        /\ \A v \in Results(call) : loc[ResultAt(v)] = Low(v)

=============================================================================
