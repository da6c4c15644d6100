----------------------------- MODULE MCDepScan -----------------------------
(* Four files.  Each has a module of its own, or one file has two of them   *)
(* and another none, or a module is defined twice; c may be a module that   *)
(* no file defines.  Every choice of uses.  File 0 is followed through the  *)
(* preprocessor: it may use a or b and may define c.                        *)
EXTENDS ScanProject

MCStatements == {<<"use", "a">>, <<"use", "b">>, <<"module", "c">>}
MCDefines ==
  {<<d>> \o o : d \in {{}, {"c"}},
                o \in {<<{"a"}, {"b"}, {}>>, <<{"a", "b"}, {}, {}>>, <<{"a"}, {"b", "c"}, {"b"}>>}}
MCUses == {u \in [0..3 -> SUBSET {"a", "b", "c"}] : "c" \notin u[0]}
MCProjects ==
  {[defines |-> [i \in 0..3 |-> d[i + 1]], uses |-> u] : d \in MCDefines, u \in MCUses}
=============================================================================
