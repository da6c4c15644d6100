---------------------------- MODULE MCOmpDoacross ----------------------------
(* A NOWAIT nest with an ascending outer and a descending strided inner     *)
(* loop, chunked over the tasks, then a descending nest under a contiguous  *)
(* schedule; wavefront sinks, some of them out of the nest.                 *)
EXTENDS OmpDoacross

MCShape ==
  << [outer_lower |-> 1, outer_upper |-> 4, outer_step |-> 1,
      inner_lower |-> 5, inner_upper |-> 2, inner_step |-> -2],
     [outer_lower |-> 3, outer_upper |-> 1, outer_step |-> -1,
      inner_lower |-> 1, inner_upper |-> 2, inner_step |-> 1] >>
MCSinks == << << <<-1, 0>>, <<0, 2>> >>, << <<1, 1>>, <<0, -1>> >> >>
MCOwner == << [o \in 0..3 |-> o % 3], [o \in 0..2 |-> o] >>
MCNowait == <<TRUE, FALSE>>
=============================================================================
