--------------------------- MODULE MCOmpCritical ---------------------------
(* Three threads, a name spelled two ways, and the atomic domain; one simple *)
(* lock.  Atomic updates are made inside regions and while the lock is set,  *)
(* and the lock is set inside regions.                                      *)
EXTENDS OmpCritical
MCLower == [s \in Spellings |-> IF s = "Sum" THEN "sum" ELSE s]
MCMaxVisits == <<2, 2, 1>>
MCMaxSets == <<1, 0, 1>>
MCNests == {<<"sum", "$atomic">>, <<"sum", SimpleLock>>, <<SimpleLock, "$atomic">>}
=============================================================================
