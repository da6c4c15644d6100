------------------------------- MODULE OmpLoop -------------------------------
(***************************************************************************)
(* Arithmetic of Fortran DO ranges in the OpenMP runtime                   *)
(* (runtime/src/openmp.rs).  The code computes on i128 copies of i64       *)
(* bounds, so nothing wraps; Rust's / and % truncate towards zero, TLA+'s  *)
(* \div and % round down, and the operators below only divide numbers for  *)
(* which both agree.                                                       *)
(***************************************************************************)
EXTENDS Integers

\* loop_iteration_count
LoopIterationCount(lower, upper, step) ==
  IF step > 0
  THEN IF lower > upper THEN 0 ELSE ((upper - lower) \div step) + 1
  ELSE IF lower < upper THEN 0 ELSE ((lower - upper) \div (-step)) + 1

Magnitude(x) == IF x < 0 THEN -x ELSE x

\* Rust's x % y = 0
Divides(y, x) == Magnitude(x) % Magnitude(y) = 0

\* Rust's x / y where y divides x
ExactQuotient(x, y) ==
  IF (x < 0) = (y < 0) THEN Magnitude(x) \div Magnitude(y)
                       ELSE -(Magnitude(x) \div Magnitude(y))

NoOrdinal == -1

\* Mutant: the last iteration is taken to be outside the loop.
DoacrossOrdinalShort(value, lower, upper, step) ==
  LET delta == value - lower
      ordinal == ExactQuotient(delta, step)
  IN  IF step # 0 /\ Divides(step, delta) /\ ordinal >= 0
          /\ ordinal < LoopIterationCount(lower, upper, step) - 1
      THEN ordinal ELSE NoOrdinal

\* doacross_ordinal: the position of a value in its loop, NoOrdinal (None)
\* for one the loop does not take.
DoacrossOrdinal(value, lower, upper, step) ==
  LET delta == value - lower
      ordinal == ExactQuotient(delta, step)
  IN  IF step # 0 /\ Divides(step, delta) /\ ordinal >= 0
          /\ ordinal < LoopIterationCount(lower, upper, step)
      THEN ordinal ELSE NoOrdinal
=============================================================================
