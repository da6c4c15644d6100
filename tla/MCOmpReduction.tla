--------------------------- MODULE MCOmpReduction ---------------------------
(* Two list items in one construct, a NOWAIT construct, a loop without      *)
(* REDUCTION that supplies the barrier the NOWAIT one leaves out, and a     *)
(* construct that reduces an object of the first again.                     *)
EXTENDS OmpReduction

MCProgram == << [vars |-> <<"x", "y">>, nowait |-> FALSE],
                [vars |-> <<"z">>, nowait |-> TRUE],
                [vars |-> << >>, nowait |-> FALSE],
                [vars |-> <<"x">>, nowait |-> FALSE] >>
=============================================================================
