---------------------------- MODULE MCSubprocsLog ----------------------------
(***************************************************************************)
(* Values of the constants of SubprocsLog for TLC.  Two tasks are enough   *)
(* to meet in every lock, and a third pipe is there for a task to open     *)
(* while the pipes of two ended jobs wait to be closed.                    *)
(***************************************************************************)
EXTENDS SubprocsLog

CONSTANTS t1, t2

TwoTasks   == {t1, t2}
ThreePipes == {1, 2, 3}
=============================================================================
