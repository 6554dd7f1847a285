---------------------------- MODULE SlotLifecycle ----------------------------
(***************************************************************************)
(* What the dispatcher promises about its thread slots, whatever threads   *)
(* and locks it is made of: a slot holds at most one job at a time, from   *)
(* the start of its task until the job has been waited for and its result  *)
(* recorded, and no job is started once the dispatcher is shutting down.   *)
(***************************************************************************)
CONSTANT Slots

VARIABLES
  job,    \* of each slot: "idle", "starting", "running", or "ended" and uncollected
  phase   \* of the dispatcher: "open", "closing" (no new jobs) or "down"

lifecycleVars == <<job, phase>>

Init ==
  /\ job = [s \in Slots |-> "idle"]
  /\ phase = "open"

Moves(s, from, to) ==
  /\ phase # "down"
  /\ job[s] = from
  /\ job' = [job EXCEPT ![s] = to]
  /\ UNCHANGED phase

Start(s)   == phase = "open" /\ Moves(s, "idle", "starting")
Launch(s)  == Moves(s, "starting", "running")
GiveUp(s)  == Moves(s, "starting", "idle")
End(s)     == Moves(s, "running", "ended")
Collect(s) == Moves(s, "ended", "idle")

Close == phase = "open" /\ phase' = "closing" /\ UNCHANGED job

\* The process ends: at the end of a shutdown or by a fatal error.
GoDown == phase # "down" /\ phase' = "down" /\ UNCHANGED job

Next ==
  \/ \E s \in Slots : Start(s) \/ Launch(s) \/ GiveUp(s) \/ End(s) \/ Collect(s)
  \/ Close
  \/ GoDown

Spec == Init /\ [][Next]_lifecycleVars

\* A started job is launched or given up, and an ended one is collected.
Fairness ==
  \A s \in Slots : /\ WF_lifecycleVars(Launch(s) \/ GiveUp(s))
                   /\ WF_lifecycleVars(Collect(s))

FairSpec == Spec /\ Fairness
=============================================================================
