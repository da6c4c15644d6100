--------------------------- MODULE MCOmpSchedule ---------------------------
(* Loops of up to MaxTrip iterations for teams of one to three, with bounds *)
(* and steps in the middle and at the ends of the integers of OmpSchedule,   *)
(* and nests of two loops.                                                  *)
EXTENDS OmpSchedule

MaxTrip == 5
Ends == {MinInt, MinInt + 1, -1, 0, 3, MaxInt - 1, MaxInt}
Ranges == [lower : Ends, upper : Ends, step : {MinInt, -3, -1, 0, 1, 2, MaxInt}]
NoInner == [lower |-> 0, upper |-> 0, step |-> 1]

Schedules ==
  [kind : {"static"}, chunk : {0}, team : 1..3]
    \cup [kind : {"chunked", "dynamic"}, chunk : 0..2, team : 2..3]

Make(o, i, f, c, s) ==
  [outer |-> o, inner |-> i, flags |-> f, collapsed |-> c,
   kind |-> s.kind, chunk |-> s.chunk, team |-> s.team]

\* The iteration variable may pass its last value without overflow, as
\* Fortran requires of a program.
NoOverflow(r) ==
  r.step # 0 => LET n == Count(r) IN r.lower + n * r.step \in Range64

Short(r) == r.step # 0 => Count(r) <= MaxTrip
PlainLoops ==
  {Make(r, NoInner, 0, FALSE, s) : r \in {r \in Ranges : NoOverflow(r) /\ Short(r)}, s \in Schedules}

Sides ==
  {r \in [lower : {-2, 1}, upper : {-1, 2}, step : {-1, 1, 2}] : NoOverflow(r)}
    \cup {[lower |-> 1, upper |-> 2, step |-> 0]}
Nests ==
  {Make(o, i, f, TRUE, s) : o \in Sides, i \in Sides, f \in 0..3,
     s \in [kind : {"static"}, chunk : {0}, team : {2}] \cup [kind : {"dynamic"}, chunk : {2}, team : {2}]}

MCLoops == PlainLoops \cup Nests
=============================================================================
