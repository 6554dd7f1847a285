----------------------------- MODULE MCLinkedLog -----------------------------
(***************************************************************************)
(* Values of the constants of LinkedLog for TLC.  Two tasks are enough to  *)
(* meet in every lock, and a third pipe is there for a task to open while  *)
(* the pipes of two ended jobs wait to be closed; so there are three nodes *)
(* too, and one that is taken out may be the first, the last or between.   *)
(***************************************************************************)
EXTENDS LinkedLog

CONSTANTS t1, t2, a1, a2, a3

TwoTasks   == {t1, t2}
ThreePipes == {1, 2, 3}
ThreeNodes == {a1, a2, a3}
=============================================================================
