--------------------------- MODULE MCJobDispatching ---------------------------
(***************************************************************************)
(* Values of the constants of JobDispatching for TLC.  Any stop signal     *)
(* leads through the same code as SIGTERM, so one is enough where only the *)
(* number of them counts; a second one that is not renamed to SIGQUIT      *)
(* joins it where it matters which signal overwrites which.                *)
(***************************************************************************)
EXTENDS JobDispatching

OneStop  == {"SIGTERM"}
TwoStops == {"SIGTERM", "SIGINT"}
StopAndHangup == {"SIGTERM", "SIGHUP"}

\* A job that ends in the way that keeps its slot busiest, or in every way.
MoreToDo  == {"OK_MORE"}
AnyResult == {"OK_MORE", "OK", "FAIL", "SIGNALED"}
=============================================================================
