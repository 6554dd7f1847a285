---------------------------- MODULE ThreadModels ----------------------------
(***************************************************************************)
(* The three thread models of jobdispatching.c, which decide when a slot   *)
(* is started, with their counters and time stamps.  JobDispatching says   *)
(* what the threads may do to a slot at any moment; this module says when  *)
(* they do it, and takes each visit of the main thread to a slot and each  *)
(* thing a task does to its slot as one step.                              *)
(*                                                                         *)
(* Time stamps are kept relative to now: time(0) is always 0, and when a   *)
(* second passes they all move one second into the past, where they stop   *)
(* at a bound.  So time goes on for ever and the states remain few.        *)
(***************************************************************************)
EXTENDS Integers

CONSTANTS
  Threads,      \* dp_settings->threads
  Settings,     \* the other settings that matter, one of them per behaviour, with
                \* the bound on how far time stamps move into the past (horizon)
  ForkFailsIn   \* the thread models in which a fork may fail

Models == {"INDEPENDENT", "DEPENDENT", "FIXED_INTERVAL"}

ASSUME ThreadModelsAssumption ==
  /\ Threads \in Nat \ {0}
  /\ ForkFailsIn \subseteq Models
  /\ \A st \in Settings :
       /\ st.model \in Models /\ st.horizon \in Nat
       /\ {st.sleep, st.sleepOnError, st.run_time_max, st.termination_timeout}
             \subseteq 0 .. st.horizon - 1
       /\ st.fi_wait_time_max \in -1 .. st.horizon - 1
       /\ st.sleep + st.fi_wait_time_max <= st.horizon

VARIABLES
  settings,
  (* The slots *)
  status, wake,           \* slot->status; the time stamp in it when it is SLEEPING
  last_started_at, termination_requested,
  killed,                 \* whether the job was sent SIGKILL
  (* The main thread *)
  pc, cur,
  noThreads, sleepUntil,  \* the static variables of dependentThreadModel
  (* The fixed_interval_state *)
  new_thread_required, longest_running_slot, last_run_slot, is_sleeping,
  sleep_until, wait_until,
  found_free,             \* history: whether a slot was free at its visit in this turn
  failed_at               \* history: when a slot was last found to have failed

slotVars  == <<status, wake, last_started_at, termination_requested, killed>>
mainVars  == <<pc, cur>>
depVars   == <<noThreads, sleepUntil>>
fixedVars == <<new_thread_required, longest_running_slot, last_run_slot, is_sleeping,
               sleep_until, wait_until, found_free>>
vars      == <<settings, slotVars, mainVars, depVars, fixedVars, failed_at>>

Slots  == 0 .. Threads - 1
NoSlot == -1

Is(model) == settings.model = model

\* time(0), and the time stamp 0, which is long past and stays so.
Now   == 0
Horizon == settings.horizon
Epoch   == -(Horizon + 1)

\* wait_until == FI_WAIT_INDEFINITELY
Indefinitely == Epoch - 1

Done == {"DONE_MORE", "DONE_OK", "DONE_FAIL"}

Init ==
  /\ settings \in Settings
  /\ status = [s \in Slots |-> "AVAILABLE"] /\ wake = [s \in Slots |-> Epoch]
  /\ last_started_at = [s \in Slots |-> Epoch]
  /\ termination_requested = [s \in Slots |-> Epoch]
  /\ killed = [s \in Slots |-> FALSE]
  /\ pc = "pre" /\ cur = 0
  /\ noThreads = 1 /\ sleepUntil = Epoch
  /\ new_thread_required = FALSE /\ is_sleeping = FALSE
  /\ longest_running_slot = NoSlot /\ last_run_slot = NoSlot
  /\ sleep_until = Epoch /\ wait_until = Epoch /\ found_free = FALSE
  /\ failed_at = [s \in Slots |-> Epoch]

-----------------------------------------------------------------------------
(* The tasks and their jobs *)

Becomes(s, what) == status' = [status EXCEPT ![s] = what]

SlotReset(s) ==
  /\ termination_requested' = [termination_requested EXCEPT ![s] = Epoch]
  /\ killed' = [killed EXCEPT ![s] = FALSE]

Sleeps(s, duration) ==
  Becomes(s, "SLEEPING") /\ wake' = [wake EXCEPT ![s] = Now + duration]

Fails(s) == failed_at' = [failed_at EXCEPT ![s] = Now]

TaskPublishesPid(s) ==
  /\ status[s] = "BOOTSTRAPPING" /\ Becomes(s, "PID")
  /\ UNCHANGED <<settings, wake, last_started_at, termination_requested, killed,
                 mainVars, depVars, fixedVars, failed_at>>

TaskForkFails(s) ==
  /\ settings.model \in ForkFailsIn
  /\ status[s] = "BOOTSTRAPPING" /\ Sleeps(s, settings.sleepOnError)
  /\ SlotReset(s) /\ Fails(s)
  /\ UNCHANGED <<settings, last_started_at, mainVars, depVars, fixedVars>>

SleepAfter(result) ==
  IF result = "DONE_OK" THEN settings.sleep ELSE settings.sleepOnError

\* A job that SIGKILL ended has the exit status of one that ended well.
TaskPublishesResult(s) ==
  /\ status[s] = "PID"
  /\ \E result \in IF killed[s] THEN {"DONE_OK"} ELSE Done :
       IF Is("INDEPENDENT")
       THEN /\ IF result = "DONE_MORE" THEN Becomes(s, "AVAILABLE") /\ UNCHANGED wake
               ELSE Sleeps(s, SleepAfter(result))
            /\ IF result = "DONE_FAIL" THEN Fails(s) ELSE UNCHANGED failed_at
       ELSE Becomes(s, result) /\ UNCHANGED <<wake, failed_at>>
  /\ SlotReset(s)
  /\ UNCHANGED <<settings, last_started_at, mainVars, depVars, fixedVars>>

Task(s) == TaskPublishesPid(s) \/ TaskForkFails(s) \/ TaskPublishesResult(s)

\* A second passes.  A fork takes less.
Past(t) == IF t <= -Horizon THEN t ELSE t - 1

Tick ==
  LET AllPast(f) == [s \in Slots |-> Past(f[s])] IN
  /\ \A s \in Slots : status[s] # "BOOTSTRAPPING"
  /\ wake' = AllPast(wake)
  /\ last_started_at' = AllPast(last_started_at)
  /\ termination_requested' = AllPast(termination_requested)
  /\ failed_at' = AllPast(failed_at)
  /\ sleepUntil' = Past(sleepUntil)
  /\ sleep_until' = Past(sleep_until) /\ wait_until' = Past(wait_until)
  /\ UNCHANGED <<settings, status, killed, mainVars, noThreads, new_thread_required,
                 longest_running_slot, last_run_slot, is_sleeping, found_free>>

-----------------------------------------------------------------------------
(* A turn of dispatch(): the pre-state check, a visit to each slot, the     *)
(* post-state check                                                         *)

\* Mutation: the interval is not looked at.
IntervalOverFromStart == TRUE

\* The interval since the last start is over.
IntervalOver ==
  last_run_slot # NoSlot => Now - settings.sleep >= last_started_at[last_run_slot]

PreStateCheck ==
  /\ pc = "pre" /\ pc' = "scan"
  /\ IF Is("FIXED_INTERVAL")
     THEN /\ is_sleeping' = (is_sleeping /\ sleep_until > Now)
          /\ new_thread_required' = (new_thread_required \/ IntervalOver)
     ELSE UNCHANGED <<is_sleeping, new_thread_required>>
  /\ UNCHANGED <<settings, slotVars, cur, depVars, longest_running_slot, last_run_slot,
                 sleep_until, wait_until, found_free, failed_at>>

Visits(s) ==
  /\ pc = "scan" /\ s = cur
  /\ IF cur < Threads - 1 THEN cur' = cur + 1 /\ UNCHANGED pc ELSE cur' = 0 /\ pc' = "post"
  /\ UNCHANGED settings

StartsThread(s) ==
  /\ Becomes(s, "BOOTSTRAPPING")
  /\ last_started_at' = [last_started_at EXCEPT ![s] = Now]
  /\ UNCHANGED <<wake, termination_requested, killed, failed_at>>

TakesBack(s) ==
  /\ Becomes(s, "AVAILABLE")
  /\ wake' = [wake EXCEPT ![s] = Epoch]
  /\ IF status[s] = "DONE_FAIL" THEN Fails(s) ELSE UNCHANGED failed_at
  /\ UNCHANGED <<last_started_at, termination_requested, killed>>

\* thread_proc_term, and its test
MayTerm(s) == termination_requested[s] = Epoch /\ status[s] = "PID"

Terminates(s) ==
  termination_requested' = [termination_requested EXCEPT ![s] = Now]

\* Mutation: the termination timeout is not looked at.
CheckRunTimeOnly(s) ==
  /\ IF MayTerm(s) /\ settings.run_time_max > 0
        /\ Now - last_started_at[s] > settings.run_time_max
     THEN Terminates(s) ELSE UNCHANGED termination_requested
  /\ UNCHANGED <<status, wake, last_started_at, killed, failed_at>>

CheckThread(s) ==
  LET overdue == /\ termination_requested[s] # Epoch
                 /\ Now >= termination_requested[s] + settings.termination_timeout
      overrun == /\ settings.run_time_max > 0
                 /\ Now - last_started_at[s] > settings.run_time_max
  IN
  /\ killed' = [killed EXCEPT ![s] = @ \/ (status[s] = "PID" /\ overdue)]
  /\ IF MayTerm(s) /\ overrun THEN Terminates(s) ELSE UNCHANGED termination_requested
  /\ UNCHANGED <<status, wake, last_started_at, failed_at>>

(* independentThreadModel *)

IndependentStarts(s) ==
  /\ Is("INDEPENDENT") /\ Visits(s)
  /\ status[s] = "AVAILABLE" /\ StartsThread(s)
  /\ UNCHANGED <<depVars, fixedVars>>

\* Mutation: a slot sleeps until its time stamp is over the horizon.
SleptTooLong(s) == status[s] = "SLEEPING" /\ wake[s] > Now

SleptEnough(s) == status[s] = "SLEEPING" /\ Now > wake[s]

IndependentWakes(s) ==
  /\ Is("INDEPENDENT") /\ Visits(s)
  /\ SleptEnough(s) /\ TakesBack(s)
  /\ UNCHANGED <<depVars, fixedVars>>

IndependentLeaves(s) ==
  /\ Is("INDEPENDENT") /\ Visits(s)
  /\ status[s] # "AVAILABLE" /\ ~SleptEnough(s) /\ CheckThread(s)
  /\ UNCHANGED <<depVars, fixedVars>>

(* dependentThreadModel *)

MayStart(s) == status[s] = "AVAILABLE" /\ s < noThreads /\ Now > sleepUntil

DependentStarts(s) ==
  /\ Is("DEPENDENT") /\ Visits(s)
  /\ MayStart(s) /\ StartsThread(s)
  /\ UNCHANGED <<depVars, fixedVars>>

\* Mutation: the last slot is let go when a job is done.
ThreadsAfterOff(result) ==
  IF result = "DONE_MORE" THEN IF noThreads + 1 > Threads THEN noThreads ELSE noThreads + 1
  ELSE 0

\* One slot more is used after a job that has more to do, otherwise only the first.
ThreadsAfter(result) ==
  IF result = "DONE_MORE" THEN IF noThreads + 1 > Threads THEN noThreads ELSE noThreads + 1
  ELSE 1

DependentTakesBack(s) ==
  /\ Is("DEPENDENT") /\ Visits(s)
  /\ status[s] \in Done /\ TakesBack(s)
  /\ noThreads' = ThreadsAfter(status[s])
  /\ sleepUntil' = CASE status[s] = "DONE_MORE" -> sleepUntil
                     [] status[s] = "DONE_OK"   -> Now + settings.sleep
                     [] status[s] = "DONE_FAIL" -> Now + settings.sleepOnError
  /\ UNCHANGED fixedVars

DependentLeaves(s) ==
  /\ Is("DEPENDENT") /\ Visits(s)
  /\ ~MayStart(s) /\ status[s] \notin Done /\ CheckThread(s)
  /\ UNCHANGED <<depVars, fixedVars>>

(* fixedIntervalThreadModel *)

Free(s) == status[s] \in Done \union {"AVAILABLE"}

\* A failed job puts the creation of threads to sleep before it is its turn.
SleepsNow(s) == is_sleeping \/ status[s] = "DONE_FAIL"

FixedIntervalStarts(s) ==
  /\ Is("FIXED_INTERVAL") /\ Visits(s)
  /\ Free(s) /\ new_thread_required /\ ~SleepsNow(s)
  /\ StartsThread(s)
  /\ new_thread_required' = FALSE /\ wait_until' = Epoch /\ last_run_slot' = s
  /\ found_free' = TRUE
  /\ UNCHANGED <<longest_running_slot, is_sleeping, sleep_until, depVars>>

\* Mutation: the sleep that goes on is not prolonged.
PausesUntilIfNone(s) ==
  IF status[s] = "DONE_FAIL" /\ ~is_sleeping THEN Now + settings.sleepOnError ELSE sleep_until

PausesUntil(s) ==
  IF status[s] = "DONE_FAIL" THEN Now + settings.sleepOnError ELSE sleep_until

FixedIntervalTakesBack(s) ==
  /\ Is("FIXED_INTERVAL") /\ Visits(s)
  /\ Free(s) /\ (new_thread_required => SleepsNow(s))
  /\ TakesBack(s)
  /\ is_sleeping' = SleepsNow(s) /\ sleep_until' = PausesUntil(s)
  /\ found_free' = TRUE
  /\ UNCHANGED <<new_thread_required, longest_running_slot, last_run_slot, wait_until, depVars>>

\* Mutation: the slot that runs longest is looked for only once.
RunsLongerThanNone(s) == longest_running_slot = NoSlot

RunsLongest(s) ==
  IF longest_running_slot = NoSlot THEN TRUE
  ELSE \/ status[longest_running_slot] # "PID"
       \/ last_started_at[longest_running_slot] > last_started_at[s]

FixedIntervalLeaves(s) ==
  /\ Is("FIXED_INTERVAL") /\ Visits(s)
  /\ ~Free(s) /\ CheckThread(s)
  /\ longest_running_slot' = IF RunsLongest(s) THEN s ELSE longest_running_slot
  /\ UNCHANGED <<new_thread_required, last_run_slot, is_sleeping, sleep_until, wait_until,
                 found_free, depVars>>

(* postsc_fixed_interval *)

\* Mutation: a wait is over as soon as it has begun.
WaitHasBegun ==
  settings.fi_wait_time_max = 0 \/ (settings.fi_wait_time_max > 0 /\ wait_until > Epoch)

WaitIsOver ==
  \/ settings.fi_wait_time_max = 0
  \/ settings.fi_wait_time_max > 0 /\ wait_until > Epoch /\ wait_until <= Now

PostStateCheck ==
  LET lacking == Is("FIXED_INTERVAL") /\ new_thread_required /\ ~is_sleeping
      wait    == settings.fi_wait_time_max
  IN
  /\ pc = "post" /\ pc' = "pre"
  /\ wait_until' = CASE lacking /\ wait = -1                      -> Indefinitely
                     [] lacking /\ wait > 0 /\ wait_until = Epoch -> Now + wait
                     [] OTHER                                     -> wait_until
  /\ IF lacking /\ WaitIsOver /\ longest_running_slot # NoSlot /\ MayTerm(longest_running_slot)
     THEN Terminates(longest_running_slot) ELSE UNCHANGED termination_requested
  /\ found_free' = FALSE
  /\ UNCHANGED <<settings, status, wake, last_started_at, killed, cur, depVars,
                 new_thread_required, longest_running_slot, last_run_slot, is_sleeping,
                 sleep_until, failed_at>>

Main ==
  \/ PreStateCheck
  \/ \E s \in Slots :
       \/ IndependentStarts(s) \/ IndependentWakes(s) \/ IndependentLeaves(s)
       \/ DependentStarts(s) \/ DependentTakesBack(s) \/ DependentLeaves(s)
       \/ FixedIntervalStarts(s) \/ FixedIntervalTakesBack(s) \/ FixedIntervalLeaves(s)
  \/ PostStateCheck

Next == Main \/ Tick \/ \E s \in Slots : Task(s)

Spec == Init /\ [][Next]_vars

\* The main thread goes on, time passes, tasks fork, and a killed job is waited
\* for.  Other jobs end or not.
Fairness ==
  /\ WF_vars(Main) /\ SF_vars(Tick)
  /\ \A s \in Slots : /\ WF_vars(TaskPublishesPid(s))
                      /\ WF_vars(killed[s] /\ TaskPublishesResult(s))

FairSpec == Spec /\ Fairness

-----------------------------------------------------------------------------
Stamp == Epoch .. Horizon

(* Type correctness: every variable of the thread models keeps its range. *)
TypeOK ==
  /\ settings \in Settings
  /\ status \in [Slots -> {"AVAILABLE", "BOOTSTRAPPING", "PID", "SLEEPING"} \union Done]
  /\ {wake, last_started_at, termination_requested, failed_at} \subseteq [Slots -> Stamp]
  /\ killed \in [Slots -> BOOLEAN]
  /\ pc \in {"pre", "scan", "post"} /\ cur \in Slots
  /\ noThreads \in 1 .. Threads
  /\ {sleepUntil, sleep_until} \subseteq Stamp /\ wait_until \in Stamp \union {Indefinitely}
  /\ {longest_running_slot, last_run_slot} \subseteq Slots \union {NoSlot}
  /\ {new_thread_required, is_sleeping, found_free} \subseteq BOOLEAN

Starts(s) == status[s] # "BOOTSTRAPPING" /\ status'[s] = "BOOTSTRAPPING"

\* In the fixed interval model no job is started within the interval after any
\* other, though a start may be late, wait for a slot or come after a pause
\* (CHANGELOG:118-127).
IntervalKept ==
  [][\A s, t \in Slots :
       Is("FIXED_INTERVAL") /\ Starts(s) => Now - settings.sleep >= last_started_at[t]]_vars

Lesser(m, n) == IF m < n THEN m ELSE n

\* In the dependent model a job that ends well cuts the pause of one that failed short.
ErrorPause ==
  IF Is("DEPENDENT") THEN Lesser(settings.sleep, settings.sleepOnError)
  ELSE settings.sleepOnError

\* After a failure nothing is started for sleepOnError seconds, however many jobs
\* end meanwhile and in which order: not in the same slot in the independent model,
\* nowhere in the others (lines 308-324).
ErrorPauseKept ==
  [][\A s, t \in Slots :
       Starts(s) /\ (Is("INDEPENDENT") => s = t) => Now - ErrorPause >= failed_at[t]]_vars

\* No job has to go for another one to be started before the interval and the whole
\* wait have passed since the last start of any, nor in a turn in which main came by a
\* free slot, however many slots there are and whatever puts the start off
\* (CHANGELOG:133-145).  A slot whose job ends after its visit in this turn is free
\* and not seen to be: a job has to go all the same.
WaitComesFirst ==
  [][\A s, t \in Slots :
       pc = "post" /\ termination_requested[s] = Epoch /\ termination_requested'[s] = Now =>
         /\ ~found_free
         /\ last_started_at[t] + settings.sleep + settings.fi_wait_time_max <= Now]_vars

\* The job that has to go, when no slot was found free, is none younger than another
\* one, although the pointer to its slot is kept from turn to turn (CHANGELOG:139-141).
\* So it is with two slots; with three it is not.
OldestIsTerminated ==
  [][\A s, t \in Slots :
       pc = "post" /\ termination_requested[s] = Epoch /\ termination_requested'[s] = Now =>
         /\ status[t] # "AVAILABLE"
         /\ status[t] = "PID" => last_started_at[s] <= last_started_at[t]]_vars

\* A slot that sleeps wakes up (jobdispatching.h:50-54).
SleepersWake == \A s \in Slots : status[s] = "SLEEPING" ~> status[s] # "SLEEPING"

\* When a job is due and the fixed interval model does not wait indefinitely for a
\* slot, the job is started in the end, whatever the others do (CHANGELOG:133-145).
DueJobStarts ==
  new_thread_required /\ settings.fi_wait_time_max # -1 ~> ~new_thread_required

\* The dependent model goes on with its first slot in the end (lines 861-924).
FirstSlotStarts == Is("DEPENDENT") /\ status[0] = "AVAILABLE" ~> status[0] # "AVAILABLE"

-----------------------------------------------------------------------------
(* The inductive invariant *)

\* No job was started and none failed in the time to come.
StampsInv == \A s \in Slots : last_started_at[s] <= Now /\ failed_at[s] <= Now

LastStart == IF last_run_slot = NoSlot THEN Epoch ELSE last_started_at[last_run_slot]

\* The fixed interval model remembers the slot that was started last, and a job is
\* due only when the interval since then is over.
IntervalInv ==
  Is("FIXED_INTERVAL") =>
    /\ \A s \in Slots : last_started_at[s] <= LastStart
    /\ new_thread_required => Now - settings.sleep >= LastStart

\* What keeps slots from being started while the pause after a failure lasts.
Pauses(s) ==
  LET end == failed_at[s] + ErrorPause IN
  /\ Is("INDEPENDENT")    => status[s] = "SLEEPING" /\ wake[s] >= end
  /\ Is("DEPENDENT")      => sleepUntil >= end
  /\ Is("FIXED_INTERVAL") => is_sleeping /\ sleep_until >= end

\* Forks that fail are for the independent model only: the others do not pause.
PauseInv ==
  (settings.model \in ForkFailsIn => Is("INDEPENDENT")) =>
    \A s \in Slots : failed_at[s] > Now - ErrorPause => Pauses(s)

\* What every step of the thread models preserves.
IInv == TypeOK /\ StampsInv /\ IntervalInv /\ PauseInv

\* A slot the main thread has been at in this turn.
Visited(s) == pc = "post" \/ (pc = "scan" /\ s < cur)

\* In the fixed interval model a job is due and nothing but a free slot is lacking.
Lacking == Is("FIXED_INTERVAL") /\ new_thread_required /\ ~is_sleeping

Runs(s) == status[s] \in {"BOOTSTRAPPING", "PID"}

IsOlder(s, t) == Runs(s) /\ Runs(t) => last_started_at[s] <= last_started_at[t]

\* A turn that could start no slot has come by none that was free, nor by one that is
\* available now; and from the moment main begins to wait for a slot the wait is
\* counted from no earlier than the end of the interval.
WaitInv ==
  /\ pc # "scan" => cur = 0
  /\ pc = "pre" => ~found_free
  /\ Lacking => ~found_free /\ \A s \in Slots : Visited(s) => status[s] # "AVAILABLE"
  /\ Is("FIXED_INTERVAL") /\ settings.fi_wait_time_max > 0 /\ wait_until > Epoch =>
       LastStart + settings.sleep + settings.fi_wait_time_max
         <= IF wait_until > Now THEN wait_until ELSE Now

\* What a turn has found so far if it could start no slot: of two slots,
\* longest_running_slot is the one that runs longer.
OldestInv ==
  /\ \A s \in Slots : status[s] = "BOOTSTRAPPING" => last_started_at[s] = Now
  /\ Lacking => \A s \in Slots : Visited(s) =>
       longest_running_slot # NoSlot /\ IsOlder(longest_running_slot, s)
=============================================================================
