----------------------------- MODULE MCRegAlloc -----------------------------
(***************************************************************************)
(* Four values, two caller-saved registers and one callee-saved register;  *)
(* two calls, the first with two register arguments and no result, the     *)
(* second with a result and no argument.                                   *)
(***************************************************************************)
EXTENDS RegAlloc, TLC

CONSTANTS a1, a2, s1, x9

MCCalls == {12, 20}
MCWrites == {<<a1, 8>>, <<a2, 10>>}
MCMarker == 12 :> 6 @@ 20 :> 18
MCCopyEnd == 12 :> 14 @@ 20 :> 24
Result == 22

\* A range from s to e, really live from l.
Range(s, l, e, loc1, bytes) ==
    [start |-> s, end |-> e, lo |-> l, hi |-> e, local |-> loc1, size |-> bytes]

\* Definitions at 0, 4 and 16 and by the result copy; last uses at 4, at the
\* second argument copy, between the calls and after them; one range that only
\* seems to cross the first call.
Ranges ==
    {Range(0, 0, 4, TRUE, 16), Range(0, 0, 10, TRUE, 8), Range(0, 0, 16, FALSE, 8),
     Range(0, 0, 26, FALSE, 8), Range(0, 16, 26, FALSE, 8), Range(4, 4, 10, TRUE, 8),
     Range(16, 16, 16, TRUE, 8), Range(16, 16, 26, TRUE, 8), Range(16, 16, 26, TRUE, 16),
     Range(Result, Result, 26, TRUE, 8)}

MCInputs ==
    {i \in [VRegs -> Ranges] :
        /\ \A v \in 1..(N - 1) : i[v].start <= i[v + 1].start
        /\ \A v, w \in VRegs : i[v].lo = Result /\ i[w].lo = Result => v = w}

MCFrame == {<<"spill", k>> : k \in VRegs} \cup {<<"bridge", v>> : v \in VRegs}
MCLoc == Regs
MCValues == 0..(2 * N)

=============================================================================
