----------------------------- MODULE MCIoUnits -----------------------------
(***************************************************************************)
(* Two threads, the terminal and one file unit.  Scratch files are         *)
(* unformatted and named ones formatted, so that both kinds of WRITE meet  *)
(* both kinds of CLOSE.                                                    *)
(***************************************************************************)
EXTENDS IoUnits, TLC

CONSTANTS t1, t2

MCOpens ==
    {<<"scratch", "unformatted">>, <<"file", "formatted">>, <<"again", "formatted">>,
     <<"respecify", "unformatted">>}

=============================================================================
