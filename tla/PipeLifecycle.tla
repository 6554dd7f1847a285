---------------------------- MODULE PipeLifecycle ----------------------------
(***************************************************************************)
(* What the log promises about the pipes of the jobs, whatever list, ids   *)
(* and locks it is made of: pipes are read from the time they are given to *)
(* the log, nothing is written to them any more when they are given up,    *)
(* and then they are closed once, with nothing left in them.               *)
(***************************************************************************)
CONSTANT Fds

VARIABLES
  open,     \* the pipes that are open
  listed,   \* those of them that the log reads ...
  leaving,  \* ... and those that it reads for the last time
  unread    \* those with output to read

vars == <<open, listed, leaving, unread>>

Init == open = {} /\ listed = {} /\ leaving = {} /\ unread = {}

Open(f) ==
  /\ f \notin open
  /\ open' = open \union {f} /\ UNCHANGED <<listed, leaving, unread>>

Write(f) ==
  /\ f \in open \ leaving
  /\ unread' = unread \union {f} /\ UNCHANGED <<open, listed, leaving>>

Enter(f) ==
  /\ f \in open \ (listed \union leaving)
  /\ listed' = listed \union {f} /\ UNCHANGED <<open, leaving, unread>>

\* The pipes of one job, or at the end of all.
Leave(fs) ==
  /\ listed' = listed \ fs /\ leaving' = leaving \union fs
  /\ UNCHANGED <<open, unread>>

Read(f) ==
  /\ f \in listed \union leaving
  /\ unread' = unread \ {f} /\ UNCHANGED <<open, listed, leaving>>

Close(f) ==
  /\ f \in leaving \ unread
  /\ open' = open \ {f} /\ leaving' = leaving \ {f} /\ UNCHANGED <<listed, unread>>

Next ==
  \/ \E f \in Fds : Open(f) \/ Write(f) \/ Enter(f) \/ Read(f) \/ Close(f)
  \/ \E fs \in SUBSET listed : Leave(fs)

Spec == Init /\ [][Next]_vars

\* Pipes with output to read come to the log, it is read, and pipes given up are closed.
Fairness ==
  \A f \in Fds : /\ WF_vars(f \in unread /\ Enter(f))
                 /\ WF_vars(Read(f))
                 /\ WF_vars(Close(f))

FairSpec == Spec /\ Fairness
=============================================================================
