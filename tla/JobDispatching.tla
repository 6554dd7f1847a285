--------------------------- MODULE JobDispatching ---------------------------
(***************************************************************************)
(* The dispatcher of jobdispatching.c: the main thread, which scans the    *)
(* thread slots, starts jobs, polls for signals and shuts down; one task   *)
(* thread per started slot, which forks the job, waits for it and records  *)
(* its result in the slot; and the signal handler thread.                  *)
(*                                                                         *)
(* The main thread and the task threads share the slots without a lock, so *)
(* every read or write of a slot that another thread can come between is a *)
(* step of its own.  In particular kill(slot->status, ...) reads the       *)
(* status again after the test that led to it, and check_thread reads      *)
(* termination_requested twice.                                            *)
(*                                                                         *)
(* Clock readings are abstracted to what they decide: a sleep or a time    *)
(* limit may expire at any moment after it was set.                        *)
(***************************************************************************)
EXTENDS Integers

CONSTANTS
  Threads,      \* dp_settings->threads, the number of slots
  ThreadModel,  \* dp_settings->threadModel
  RunTimeMax,   \* whether dp_settings->thread_run_time_max is above zero
  RunOnce,      \* the values dp_settings->run_once may have
  Signals,      \* the signals the process may be sent
  JobResults,   \* the ways a job may end of itself
  MaxLinger     \* bound: finished tasks of one slot that still have to reset it

StopSignals == {"SIGTERM", "SIGQUIT", "SIGINT"}

ASSUME SettingsAssumption ==
  /\ Threads \in Nat \ {0}
  /\ ThreadModel \in {"INDEPENDENT", "DEPENDENT", "FIXED_INTERVAL"}
  /\ RunTimeMax \in BOOLEAN
  /\ RunOnce \subseteq BOOLEAN
  /\ Signals \subseteq StopSignals \union {"SIGHUP"}
  /\ JobResults \subseteq {"OK_MORE", "OK", "FAIL", "SIGNALED"}
  /\ MaxLinger \in Nat \ {0}

VARIABLES
  (* The slots *)
  status,                 \* slot->status; "PID" stands for the pid of the slot's job
  termination_requested,  \* "no", or a request younger ("recent") or older
                          \* ("overdue") than dp_settings->termination_timeout
  overrun,                \* whether the job has run longer than thread_run_time_max
  (* The task threads and their jobs *)
  task,                   \* where the task thread that holds the slot is
  linger,                 \* how many earlier tasks still have to call slot_reset
  child,                  \* the job's process: alive, asked to terminate, or a zombie
  (* The main thread *)
  pc, cur,                \* where it is, the slot in hand
  call, victim,           \* the kill it is in the middle of, and of which slot
  running, waiting,       \* dispatch()'s running; whether it is in waitForThreads
  stopped, stopSignals,   \* the locals of waitForThreads
  (* Signals *)
  pending,                \* sent to the process and not yet taken
  handledSignal           \* taken by the handler thread and not yet seen by main

slotVars == <<status, termination_requested, overrun>>
taskVars == <<task, linger, child>>
mainVars == <<pc, cur, call, victim, running, waiting, stopped, stopSignals>>
sigVars  == <<pending, handledSignal>>
vars     == <<slotVars, taskVars, mainVars, sigVars>>

Slots == 0 .. Threads - 1

Done     == {"DONE_MORE", "DONE_OK", "DONE_FAIL"}
Sleeping == {"SLEEPING", "SLEEPING_ON_ERROR"}
Status   == {"AVAILABLE", "BOOTSTRAPPING", "PID"} \union Done \union Sleeping

Exits    == {"OK_MORE", "OK", "FAIL"}
Zombie   == Exits \union {"SIGNALED"}
Living   == {"alive", "asked"}
Child    == {"none"} \union Living \union Zombie

\* A task that waitpid has returned to holds the result in its stat_loc.
Task     == {"none", "boot", "forked", "waiting"} \union Zombie

NoSignal == "-1"

\* The process has ended: by the end of main() or by exit() or SIGKILL.
Ended == pc \in {"exited", "aborted"}

Init ==
  /\ status = [s \in Slots |-> "AVAILABLE"]
  /\ termination_requested = [s \in Slots |-> "no"]
  /\ overrun = [s \in Slots |-> FALSE]
  /\ task = [s \in Slots |-> "none"]
  /\ linger = [s \in Slots |-> 0]
  /\ child = [s \in Slots |-> "none"]
  /\ pc = "scan" /\ cur = 0 /\ call = "none" /\ victim = 0
  /\ running \in {IF run_once THEN 0 ELSE 1 : run_once \in RunOnce}
  /\ waiting = FALSE /\ stopped = 0 /\ stopSignals = 0
  /\ pending = {} /\ handledSignal = NoSignal

-----------------------------------------------------------------------------
(* The task thread of slot s: task() *)

\* pipe_safe() exits the whole process when a pipe cannot be opened.
TaskPipeFails(s) ==
  /\ ~Ended /\ task[s] = "boot"
  /\ pc' = "aborted"
  /\ UNCHANGED <<slotVars, taskVars, cur, call, victim, running, waiting,
                 stopped, stopSignals, sigVars>>

\* The job runs from here on, though the slot does not know its pid yet.
TaskForks(s) ==
  /\ ~Ended /\ task[s] = "boot"
  /\ task' = [task EXCEPT ![s] = "forked"]
  /\ child' = [child EXCEPT ![s] = "alive"]
  /\ UNCHANGED <<slotVars, linger, mainVars, sigVars>>

\* The task writes its last word to the slot and goes on to slot_reset.
TaskReleases(s, newStatus) ==
  /\ linger[s] < MaxLinger
  /\ status' = [status EXCEPT ![s] = newStatus]
  /\ task' = [task EXCEPT ![s] = "none"]
  /\ linger' = [linger EXCEPT ![s] = @ + 1]
  /\ UNCHANGED <<termination_requested, overrun, child, mainVars, sigVars>>

TaskForkFails(s) ==
  /\ ~Ended /\ task[s] = "boot"
  /\ TaskReleases(s, "SLEEPING_ON_ERROR")

TaskPublishesPid(s) ==
  /\ ~Ended /\ task[s] = "forked"
  /\ status' = [status EXCEPT ![s] = "PID"]
  /\ task' = [task EXCEPT ![s] = "waiting"]
  /\ UNCHANGED <<termination_requested, overrun, linger, child, mainVars, sigVars>>

\* waitpid returns: the pid in the slot no longer names a process of ours.
TaskReaps(s) ==
  /\ ~Ended /\ task[s] = "waiting" /\ child[s] \in Zombie
  /\ task' = [task EXCEPT ![s] = child[s]]
  /\ child' = [child EXCEPT ![s] = "none"]
  /\ UNCHANGED <<slotVars, linger, mainVars, sigVars>>

\* waitpid() fails, and the task exits the whole process. All signals are blocked in the
\* thread, so that this takes a system that has reaped the job by itself.
TaskWaitFails(s) ==
  /\ ~Ended /\ task[s] = "waiting" /\ child[s] \in Zombie
  /\ pc' = "aborted"
  /\ UNCHANGED <<slotVars, taskVars, cur, call, victim, running, waiting,
                 stopped, stopSignals, sigVars>>

\* WEXITSTATUS of a job that a signal ended is 0, that of a job that ended well.
ExitStatus(result) == IF result = "SIGNALED" THEN "OK" ELSE result

ResultStatus(result) ==
  LET exit == ExitStatus(result) IN
  IF ThreadModel = "INDEPENDENT"
  THEN CASE exit = "OK_MORE" -> "AVAILABLE"
         [] exit = "OK"      -> "SLEEPING"
         [] exit = "FAIL"    -> "SLEEPING_ON_ERROR"
  ELSE CASE exit = "OK_MORE" -> "DONE_MORE"
         [] exit = "OK"      -> "DONE_OK"
         [] exit = "FAIL"    -> "DONE_FAIL"

\* Mutation: only a job that exited is given a result.
TaskPublishesExit(s) ==
  /\ ~Ended /\ task[s] \in Exits
  /\ TaskReleases(s, ResultStatus(task[s]))

TaskPublishesResult(s) ==
  /\ ~Ended /\ task[s] \in Zombie
  /\ TaskReleases(s, ResultStatus(task[s]))

\* The slot may be in use again by the time an earlier task resets it.
TaskResetsSlot(s) ==
  /\ ~Ended /\ linger[s] > 0
  /\ linger' = [linger EXCEPT ![s] = @ - 1]
  /\ termination_requested' = [termination_requested EXCEPT ![s] = "no"]
  /\ UNCHANGED <<status, overrun, task, child, mainVars, sigVars>>

TaskNext(s) ==
  \/ TaskPipeFails(s)
  \/ TaskForks(s)
  \/ TaskForkFails(s)
  \/ TaskPublishesPid(s)
  \/ TaskReaps(s)
  \/ TaskWaitFails(s)
  \/ TaskPublishesResult(s)
  \/ TaskResetsSlot(s)

-----------------------------------------------------------------------------
(* The jobs and the clock *)

\* A job may end at any time, in any way, and need not heed SIGTERM.
JobEnds(s) ==
  /\ ~Ended /\ child[s] \in Living
  /\ \E result \in JobResults : child' = [child EXCEPT ![s] = result]
  /\ UNCHANGED <<slotVars, task, linger, mainVars, sigVars>>

TerminationTimeoutPasses(s) ==
  /\ ~Ended /\ termination_requested[s] = "recent"
  /\ termination_requested' = [termination_requested EXCEPT ![s] = "overdue"]
  /\ UNCHANGED <<status, overrun, taskVars, mainVars, sigVars>>

RunTimeMaxPasses(s) ==
  /\ ~Ended /\ RunTimeMax /\ task[s] # "none" /\ ~overrun[s]
  /\ overrun' = [overrun EXCEPT ![s] = TRUE]
  /\ UNCHANGED <<status, termination_requested, taskVars, mainVars, sigVars>>

ClockNext(s) == TerminationTimeoutPasses(s) \/ RunTimeMaxPasses(s)

-----------------------------------------------------------------------------
(* The main thread: sending signals to jobs *)

At(where) == ~Ended /\ call = "none" /\ pc = where

\* thread_proc_term and thread_proc_kill are entered with this test passed.
Calls(fn, s) == call' = fn /\ victim' = s

CallsNothing == UNCHANGED <<call, victim>>

Returns == call' = "none" /\ victim' = 0

\* kill(slot->status, SIGKILL): zero is the dispatcher's own process group.
KillSendsSigkill ==
  /\ ~Ended /\ call = "kill"
  /\ Returns
  /\ pc' = IF status[victim] = "AVAILABLE" THEN "aborted" ELSE pc
  /\ child' = IF status[victim] = "PID" /\ child[victim] \in Living
              THEN [child EXCEPT ![victim] = "SIGNALED"] ELSE child
  /\ UNCHANGED <<slotVars, task, linger, cur, running, waiting, stopped,
                 stopSignals, sigVars>>

\* kill(slot->status, SIGTERM)
TermSendsSigterm ==
  /\ ~Ended /\ call = "term"
  /\ call' = "mark"
  /\ pending' = IF status[victim] = "AVAILABLE" THEN pending \union {"SIGTERM"}
                ELSE pending
  /\ child' = IF status[victim] = "PID" /\ child[victim] = "alive"
              THEN [child EXCEPT ![victim] = "asked"] ELSE child
  /\ UNCHANGED <<slotVars, task, linger, pc, cur, victim, running, waiting,
                 stopped, stopSignals, handledSignal>>

\* slot->termination_requested = time(NULL)
TermMarksSlot ==
  /\ ~Ended /\ call = "mark"
  /\ Returns
  /\ termination_requested' = [termination_requested EXCEPT ![victim] = "recent"]
  /\ UNCHANGED <<status, overrun, taskVars, pc, cur, running, waiting, stopped,
                 stopSignals, sigVars>>

\* Mutation: any slot that is in use will do.
MayTermInUse(s) == status[s] # "AVAILABLE" /\ termination_requested[s] = "no"

\* The test that thread_proc_term makes before it sends anything.
MayTerm(s) == status[s] = "PID" /\ termination_requested[s] = "no"

-----------------------------------------------------------------------------
(* The main thread: the scan over the slots, in dispatch and waitForThreads *)

\* Mutation: the termination timeout is not looked at.
CheckRunTimeOnly ==
  /\ At("scan")
  /\ pc' = "visit"
  /\ IF MayTerm(cur) /\ overrun[cur] THEN Calls("term", cur) ELSE CallsNothing
  /\ UNCHANGED <<slotVars, taskVars, cur, running, waiting, stopped, stopSignals, sigVars>>

\* Mutation: the run time is not looked at.
CheckTimeoutOnly ==
  /\ At("scan")
  /\ CallsNothing
  /\ pc' = IF status[cur] = "PID" /\ termination_requested[cur] # "no"
           THEN "timeout" ELSE "visit"
  /\ UNCHANGED <<slotVars, taskVars, cur, running, waiting, stopped, stopSignals, sigVars>>

CheckThread ==
  /\ At("scan")
  /\ \/ /\ status[cur] = "PID" /\ termination_requested[cur] # "no"
        /\ CallsNothing /\ pc' = "timeout"
     \/ /\ MayTerm(cur) /\ overrun[cur]
        /\ Calls("term", cur) /\ pc' = "visit"
     \/ /\ status[cur] # "PID" \/ (termination_requested[cur] = "no" /\ ~overrun[cur])
        /\ CallsNothing /\ pc' = "visit"
  /\ UNCHANGED <<slotVars, taskVars, cur, running, waiting, stopped, stopSignals, sigVars>>

\* The time of the request is read again, after the test that there is one: if an
\* earlier task has reset it to 0 meanwhile, its timeout passed decades ago.
CheckTimeout ==
  /\ At("timeout")
  /\ IF termination_requested[cur] = "recent" THEN CallsNothing ELSE Calls("kill", cur)
  /\ pc' = "visit"
  /\ UNCHANGED <<slotVars, taskVars, cur, running, waiting, stopped, stopSignals, sigVars>>

\* On to the next slot, or past the scan with n slots found stopped.
NextSlot(n) ==
  /\ stopped' = n
  /\ IF cur < Threads - 1
     THEN cur' = cur + 1 /\ pc' = "scan"
     ELSE cur' = 0 /\ pc' = IF waiting /\ n = Threads THEN "deinit" ELSE "signals"

\* Mutation: the thread model goes on during a shutdown.
VisitsAlways == At("visit")

\* What the thread models have in common when a slot of theirs is visited.
Visits == At("visit") /\ ~waiting

\* The fixed interval model may start the slot of a job that ended well in the
\* visit that takes it back; after a failed job it sleeps first.
Startable(s) ==
  \/ status[s] = "AVAILABLE"
  \/ ThreadModel = "FIXED_INTERVAL" /\ status[s] \in {"DONE_OK", "DONE_MORE"}

\* Mutation: the slot is left for the task to mark.
StartThreadUnmarked ==
  /\ Visits /\ Startable(cur)
  /\ overrun' = [overrun EXCEPT ![cur] = FALSE]
  /\ task' = [task EXCEPT ![cur] = "boot"]
  /\ NextSlot(stopped)
  /\ UNCHANGED <<status, termination_requested, linger, child, call, victim, running,
                 waiting, stopSignals, sigVars>>

StartThread ==
  /\ Visits /\ Startable(cur)
  /\ status' = [status EXCEPT ![cur] = "BOOTSTRAPPING"]
  /\ overrun' = [overrun EXCEPT ![cur] = FALSE]
  /\ task' = [task EXCEPT ![cur] = "boot"]
  /\ NextSlot(stopped)
  /\ UNCHANGED <<termination_requested, linger, child, call, victim, running,
                 waiting, stopSignals, sigVars>>

\* pthread_create fails: the whole process exits.
StartFails ==
  /\ Visits /\ Startable(cur)
  /\ status' = [status EXCEPT ![cur] = "BOOTSTRAPPING"]
  /\ pc' = "aborted"
  /\ UNCHANGED <<termination_requested, overrun, taskVars, cur, call, victim,
                 running, waiting, stopped, stopSignals, sigVars>>

\* The independent model wakes a slot that has slept long enough; the others
\* take back a slot whose job has ended.
MakesAvailable ==
  /\ Visits
  /\ status[cur] \in IF ThreadModel = "INDEPENDENT" THEN Sleeping ELSE Done
  /\ status' = [status EXCEPT ![cur] = "AVAILABLE"]
  /\ NextSlot(stopped)
  /\ UNCHANGED <<termination_requested, overrun, taskVars, call, victim, running,
                 waiting, stopSignals, sigVars>>

\* Only the independent model starts every available slot it visits, and only
\* the other models take back every slot whose job has ended.
LeavesSlot ==
  /\ Visits
  /\ status[cur] \notin IF ThreadModel = "INDEPENDENT" THEN {"AVAILABLE"} ELSE Done
  /\ NextSlot(stopped)
  /\ UNCHANGED <<slotVars, taskVars, call, victim, running, waiting, stopSignals, sigVars>>

\* Mutation: status < 1
IsStoppedOrBooting(s) == status[s] # "PID"

\* waitForThreads: status == 0 || status < -1
IsStopped(s) == status[s] \notin {"BOOTSTRAPPING", "PID"}

CountStopped ==
  /\ At("visit") /\ waiting
  /\ NextSlot(IF IsStopped(cur) THEN stopped + 1 ELSE stopped)
  /\ UNCHANGED <<slotVars, taskVars, call, victim, running, waiting, stopSignals, sigVars>>

-----------------------------------------------------------------------------
(* The main thread: polling for signals and the turn of the loops *)

\* Mutation: SIGINT is forgotten.
IsStopQuitOnly(sig) == sig = "SIGQUIT"

\* SIGTERM is handled as SIGQUIT.
IsStop(sig) == sig \in {"SIGQUIT", "SIGINT"}

\* Mutation: the wait takes one signal more to end.
TurnsLoopLate(n) ==
  /\ waiting' = (waiting \/ running <= 0)
  /\ stopped' = 0
  /\ stopSignals' = n
  /\ pc' = IF n = 3 THEN "deinit" ELSE "scan"

\* Mutation: the count of stopped slots goes on from turn to turn.
TurnsLoopCounting(n) ==
  /\ waiting' = (waiting \/ running <= 0)
  /\ UNCHANGED stopped
  /\ stopSignals' = n
  /\ pc' = IF n = 2 THEN "deinit" ELSE "scan"

\* The condition of dispatch()'s loop, or that of waitForThreads' after n
\* further stop signals.
TurnsLoop(n) ==
  /\ waiting' = (waiting \/ running <= 0)
  /\ stopped' = 0
  /\ stopSignals' = n
  /\ pc' = IF n = 2 THEN "deinit" ELSE "scan"

PollSignals ==
  /\ At("signals") /\ ~waiting
  /\ \/ /\ IsStop(handledSignal)
        /\ handledSignal' = NoSignal /\ running' = -1 /\ pc' = "all"
     \/ /\ ~IsStop(handledSignal)
        /\ handledSignal' = NoSignal /\ pc' = "post" /\ UNCHANGED running
  /\ UNCHANGED <<slotVars, taskVars, cur, call, victim, waiting, stopped,
                 stopSignals, pending>>

\* The first further stop signal asks every job to terminate, the second one
\* ends the wait.  A SIGHUP is left where it is.
PollSignalsWaiting ==
  /\ At("signals") /\ waiting
  /\ \/ /\ IsStop(handledSignal) /\ stopSignals = 0
        /\ handledSignal' = NoSignal /\ stopSignals' = 1 /\ pc' = "all"
        /\ UNCHANGED <<waiting, stopped>>
     \/ /\ IsStop(handledSignal) /\ stopSignals > 0
        /\ handledSignal' = NoSignal /\ TurnsLoop(stopSignals + 1)
     \/ /\ ~IsStop(handledSignal)
        /\ UNCHANGED handledSignal /\ TurnsLoop(stopSignals)
  /\ UNCHANGED <<slotVars, taskVars, cur, call, victim, running, pending>>

\* thread_proc_term_all, with mutexSignal held.
TermAll ==
  /\ At("all") /\ cur < Threads
  /\ cur' = cur + 1 /\ pc' = "all"
  /\ IF MayTerm(cur) THEN Calls("term", cur) ELSE CallsNothing
  /\ UNCHANGED <<slotVars, taskVars, running, waiting, stopped, stopSignals, sigVars>>

TermAllReturns ==
  /\ At("all") /\ cur = Threads
  /\ cur' = 0
  /\ \/ waiting /\ TurnsLoop(stopSignals)
     \/ ~waiting /\ pc' = "post" /\ UNCHANGED <<waiting, stopped, stopSignals>>
  /\ UNCHANGED <<slotVars, taskVars, call, victim, running, sigVars>>

\* In the fixed interval model the longest running job may have to go.
PostStateCheck ==
  /\ At("post")
  /\ \/ CallsNothing
     \/ /\ ThreadModel = "FIXED_INTERVAL"
        /\ \E s \in Slots : MayTerm(s) /\ Calls("term", s)
  /\ TurnsLoop(stopSignals)
  /\ UNCHANGED <<slotVars, taskVars, cur, running, sigVars>>

\* subprocslog_deinitialize(), then the slots are freed.
FreeSlots ==
  /\ At("deinit")
  /\ pc' = "freed"
  /\ UNCHANGED <<slotVars, taskVars, cur, call, victim, running, waiting,
                 stopped, stopSignals, sigVars>>

MainReturns ==
  /\ At("freed")
  /\ pc' = "exited"
  /\ UNCHANGED <<slotVars, taskVars, cur, call, victim, running, waiting,
                 stopped, stopSignals, sigVars>>

MainNext ==
  \/ KillSendsSigkill \/ TermSendsSigterm \/ TermMarksSlot
  \/ CheckThread \/ CheckTimeout
  \/ StartThread \/ StartFails \/ MakesAvailable \/ LeavesSlot \/ CountStopped
  \/ PollSignals \/ PollSignalsWaiting \/ TermAll \/ TermAllReturns
  \/ PostStateCheck \/ FreeSlots \/ MainReturns

-----------------------------------------------------------------------------
(* Signals sent to the process, and the signal handler thread *)

SignalArrives(sig) ==
  /\ ~Ended /\ sig \notin pending
  /\ pending' = pending \union {sig}
  /\ UNCHANGED <<slotVars, taskVars, mainVars, handledSignal>>

MainHoldsMutexSignal == pc = "all"

\* One variable holds the last signal caught, whether or not main has seen it.
SignalHandler ==
  /\ ~Ended /\ ~MainHoldsMutexSignal
  /\ \E sig \in pending :
       /\ pending' = pending \ {sig}
       /\ handledSignal' = IF sig = "SIGTERM" THEN "SIGQUIT" ELSE sig
  /\ UNCHANGED <<slotVars, taskVars, mainVars>>

Finished == Ended /\ UNCHANGED vars

Next ==
  \/ MainNext
  \/ SignalHandler
  \/ \E s \in Slots : TaskNext(s) \/ JobEnds(s) \/ ClockNext(s)
  \/ \E sig \in Signals : SignalArrives(sig)
  \/ Finished

\* Every thread is scheduled and time passes; jobs end, and signals come, or not.
Fairness ==
  /\ WF_vars(MainNext)
  /\ WF_vars(SignalHandler)
  /\ \A s \in Slots : WF_vars(TaskNext(s)) /\ WF_vars(ClockNext(s))

Spec == Init /\ [][Next]_vars

FairSpec == Spec /\ Fairness

-----------------------------------------------------------------------------
(* Type correctness: every variable of the dispatcher keeps its range. *)
TypeOK ==
  /\ status \in [Slots -> Status]
  /\ termination_requested \in [Slots -> {"no", "recent", "overdue"}]
  /\ overrun \in [Slots -> BOOLEAN]
  /\ task \in [Slots -> Task]
  /\ linger \in [Slots -> 0 .. MaxLinger]
  /\ child \in [Slots -> Child]
  /\ pc \in {"scan", "timeout", "visit", "signals", "all", "post", "deinit",
             "freed", "exited", "aborted"}
  /\ cur \in 0 .. Threads
  /\ call \in {"none", "kill", "term", "mark"}
  /\ victim \in Slots
  /\ running \in {-1, 0, 1}
  /\ waiting \in BOOLEAN
  /\ stopped \in 0 .. Threads
  /\ stopSignals \in 0 .. 2
  /\ pending \subseteq StopSignals \union {"SIGHUP"}
  /\ handledSignal \in {"SIGQUIT", "SIGINT", "SIGHUP", NoSignal}

\* The status of a slot says what its task is about: BOOTSTRAPPING until the
\* task has forked and stored the pid, a pid until the task stores the result.
\* A job that has not been waited for always has its task (lines 226-230, 251,
\* 330-365, 734), so no pid is lost and no slot is started twice.
SlotOwnership ==
  pc # "aborted" =>
    \A s \in Slots :
      /\ status[s] = "BOOTSTRAPPING" <=> task[s] \in {"boot", "forked"}
      /\ status[s] = "PID" <=> task[s] \in {"waiting"} \union Zombie
      /\ child[s] # "none" <=> task[s] \in {"forked", "waiting"}

\* kill(slot->status, ...) never sees THREAD_STATUS_BOOTSTRAPPING: kill(-1, sig)
\* would signal every process of the system.  The status may have changed since
\* the test that led to the call (lines 384 and 403).
NoBroadcastKill ==
  call \in {"kill", "term"} => status[victim] # "BOOTSTRAPPING"

\* Once waitForThreads returns, other than for a third stop signal, no task is
\* left that has a job or has still to start one: the scan counts the slots one
\* by one while tasks go on, and compares the count with the number of slots.
CleanExit ==
  pc \in {"deinit", "freed", "exited"} /\ stopSignals < 2 =>
    \A s \in Slots : task[s] = "none" /\ child[s] = "none"

-----------------------------------------------------------------------------
(* The inductive invariant *)

\* Where the main thread is bounds the slot it has in hand; the second further
\* stop signal ends the wait at once.
MainInv ==
  /\ pc \in {"scan", "timeout", "visit"} => cur \in Slots
  /\ pc \in {"signals", "post"} => cur = 0
  /\ stopSignals = 2 => pc \in {"deinit", "freed", "exited", "aborted"}
  /\ pc \in {"deinit", "freed", "exited"} => waiting
  /\ waiting => running <= 0
  /\ pc \in {"scan", "timeout", "visit"} /\ ~waiting => running # -1

\* While a kill is under way, or may be next, its slot is not started again.
CallInv ==
  /\ call # "none" => status[victim] # "BOOTSTRAPPING"
  /\ pc = "timeout" => status[cur] # "BOOTSTRAPPING"

\* waitForThreads has found as many slots stopped as it has visited only if
\* all of these have no task; and no task starts any more.
CountInv ==
  waiting /\ pc \in {"scan", "timeout", "visit"} =>
    /\ stopped <= cur
    /\ stopped = cur => \A s \in 0 .. cur - 1 : task[s] = "none"

\* What every step of the dispatcher preserves: the parts of the invariants
\* above that depend on each other.
IInv == TypeOK /\ SlotOwnership /\ MainInv /\ CallInv /\ CountInv /\ CleanExit

-----------------------------------------------------------------------------
(* The abstract specification *)

JobOf(s) ==
  CASE task[s] = "none" -> "idle"
    [] task[s] = "boot" -> "starting"
    [] task[s] \in {"forked", "waiting"} /\ child[s] \in Living -> "running"
    [] OTHER -> "ended"

Phase == IF Ended THEN "down" ELSE IF waiting \/ running = -1 THEN "closing" ELSE "open"

Lifecycle == INSTANCE SlotLifecycle
  WITH job <- [s \in Slots |-> JobOf(s)], phase <- Phase

\* A slot is started only when its last job has been waited for, and never after
\* a stop signal was acted on, whatever the tasks do meanwhile.
ImplementsLifecycle == Lifecycle!Spec

\* Besides, a task that was started forks or gives up, and each job that ends is
\* waited for and its result recorded, unless the process ends first.
ImplementsFairLifecycle == Lifecycle!FairSpec

-----------------------------------------------------------------------------
(* Liveness *)

\* With a limit on the run time, a shutdown, or a run with run_once set, ends
\* although jobs may ignore SIGTERM and never end: the limit leads to SIGTERM, its
\* timeout to SIGKILL (lines 425-462, 474-557).
ShutdownCompletes == running <= 0 ~> Ended

\* A job that runs over thread_run_time_max comes to its end, although an old
\* task may clear the request to terminate it, or an old request be taken for one.
OverrunJobEnds ==
  \A s \in Slots : overrun[s] /\ child[s] \in Living ~> child[s] \notin Living \/ Ended

StopRequested == pending \intersect StopSignals # {} \/ IsStop(handledSignal)

\* A stop signal sent to the process begins the shutdown (CHANGELOG:169-170).
StopSignalIsActedOn == StopRequested ~> running = -1 \/ waiting \/ Ended

=============================================================================
