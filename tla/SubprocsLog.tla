----------------------------- MODULE SubprocsLog -----------------------------
(***************************************************************************)
(* The log of the jobs' output, subprocslog.c: a list of sources, each the *)
(* reading end of the pipes of one job, which the main thread sweeps into  *)
(* the log files.  The task threads append a source for each job and       *)
(* remove it when the job has ended; the main thread reopens the log files *)
(* on SIGHUP and shuts the log down at the end.                            *)
(*                                                                         *)
(* Two locks order them: initialized_state_rwlock and source_list_mutex.   *)
(* The pipes of a job for stdout and stderr are one descriptor here, and   *)
(* of what is in them it counts only whether there is something to read.   *)
(***************************************************************************)
EXTENDS Integers, Sequences, SequencesExt

CONSTANTS
  Tasks,        \* the task threads, one per slot
  Fds,          \* the file descriptors for pipes
  NoTask,       \* no task
  MaxSourceId,  \* the greatest source id, 65000 in the code
  MaxJobs,      \* bound: jobs started in all
  Hangups,      \* whether SIGHUP may come
  OpenFails,    \* whether a log file may fail to open again
  Forced        \* whether waitForThreads may end while jobs are running

ASSUME LogAssumption ==
  /\ Fds \subseteq Nat /\ NoTask \notin Tasks /\ IsFiniteSet(Tasks)
  /\ MaxSourceId \in Nat /\ MaxJobs \in Nat
  /\ Hangups \in BOOLEAN /\ OpenFails \in BOOLEAN /\ Forced \in BOOLEAN

VARIABLES
  (* The list of sources, the latest first, and the next id *)
  sources, source_count,
  (* The state of the log and initialized_state_rwlock *)
  initialized,
  writer,                 \* the main thread holds the lock for writing
  readers,                \* the tasks that hold it for reading
  leaked,                 \* whether a call has returned with it held for reading
  (* The pipes *)
  owner, unread,          \* of each descriptor, the task whose job writes to it, or
                          \* NoTask if it is closed; the ones with output to read
  (* The task threads and their jobs *)
  task, pipe, logger_id, alive, jobs,
  (* The main thread *)
  pc, current,            \* where it is; the source in hand in do_write_buffers
  logging_enabled, stopping

listVars  == <<sources, source_count>>
lockVars  == <<initialized, writer, readers, leaked>>
pipeVars  == <<owner, unread>>
taskVars  == <<task, pipe, logger_id, alive, jobs>>
mainVars  == <<pc, current, logging_enabled, stopping>>
vars      == <<listVars, lockVars, pipeVars, taskVars, mainVars>>

RV_FAIL == -1

NoFd == -1

Init ==
  /\ sources = <<>> /\ source_count = 0
  /\ initialized = TRUE /\ writer = FALSE /\ readers = {} /\ leaked = FALSE
  /\ owner = [f \in Fds |-> NoTask] /\ unread = {}
  /\ task = [t \in Tasks |-> "none"] /\ pipe = [t \in Tasks |-> NoFd]
  /\ logger_id = [t \in Tasks |-> RV_FAIL] /\ alive = [t \in Tasks |-> FALSE]
  /\ jobs = 0
  /\ pc = "scan" /\ current = 0 /\ logging_enabled = TRUE /\ stopping = FALSE

Ended == pc \in {"exited", "aborted"}

\* source_list_mutex is free: only a sweep holds it for longer than a step.
MutexFree == pc \notin {"sweep", "swept"}

-----------------------------------------------------------------------------
(* The task threads, as far as they deal with the log: task() *)

\* The main thread starts the task of a slot in its scan.
TaskStarts(t) ==
  /\ pc = "scan" /\ ~stopping /\ task[t] = "none" /\ jobs < MaxJobs
  /\ jobs' = jobs + 1
  /\ task' = [task EXCEPT ![t] = "starting"]
  /\ UNCHANGED <<listVars, lockVars, pipeVars, pipe, logger_id, alive, mainVars>>

\* Pipes get the lowest free descriptor.
Opens(f, t) ==
  /\ owner[f] = NoTask /\ \A g \in Fds : owner[g] = NoTask => f <= g
  /\ owner' = [owner EXCEPT ![f] = t]

TaskForks(t) ==
  /\ ~Ended /\ task[t] = "starting"
  /\ \E f \in Fds : Opens(f, t) /\ pipe' = [pipe EXCEPT ![t] = f]
  /\ task' = [task EXCEPT ![t] = "forked"]
  /\ alive' = [alive EXCEPT ![t] = TRUE]
  /\ UNCHANGED <<listVars, lockVars, unread, logger_id, jobs, mainVars>>

\* The pipes stay open when the fork fails.
TaskForkFails(t) ==
  /\ ~Ended /\ task[t] = "starting"
  /\ \E f \in Fds : Opens(f, t)
  /\ task' = [task EXCEPT ![t] = "none"]
  /\ UNCHANGED <<listVars, lockVars, unread, pipe, logger_id, alive, jobs, mainVars>>

Closes(f) == owner' = [owner EXCEPT ![f] = NoTask] /\ unread' = unread \ {f}

Goes(t, to) ==
  task' = [task EXCEPT ![t] = to] /\ UNCHANGED <<pipe, logger_id, alive, jobs>>

\* The task is done with the log and goes on to publish the job's result.
Finishes(t) ==
  /\ task' = [task EXCEPT ![t] = "none"]
  /\ pipe' = [pipe EXCEPT ![t] = NoFd]
  /\ logger_id' = [logger_id EXCEPT ![t] = RV_FAIL]
  /\ UNCHANGED <<alive, jobs>>

\* The task closes the pipes itself, with sfclose(), which exits when they are
\* closed already.
ClosesAndFinishes(t) ==
  \/ owner[pipe[t]] # NoTask /\ Closes(pipe[t]) /\ Finishes(t) /\ UNCHANGED pc
  \/ owner[pipe[t]] = NoTask /\ pc' = "aborted" /\ UNCHANGED <<pipeVars, taskVars>>

\* subprocslog_append_source() takes the rwlock, and keeps it when it fails; the task
\* closes the pipes then, with sfclose() as well.
AppendLocks(t) ==
  /\ ~Ended /\ task[t] = "forked" /\ ~writer
  /\ \/ /\ initialized
        /\ readers' = readers \union {t}
        /\ Goes(t, "appending")
        /\ UNCHANGED <<leaked, pipeVars, pc>>
     \/ /\ ~initialized
        /\ leaked' = TRUE
        /\ \/ owner[pipe[t]] # NoTask /\ Closes(pipe[t]) /\ Goes(t, "waiting") /\ UNCHANGED pc
           \/ owner[pipe[t]] = NoTask /\ pc' = "aborted" /\ UNCHANGED <<pipeVars, taskVars>>
        /\ UNCHANGED readers
  /\ UNCHANGED <<listVars, initialized, writer, current, logging_enabled, stopping>>

\* Mutation: the id is the length of the list.
NewIdByLength == Len(sources)

\* Ids start again from 0 after the greatest.
NewId == IF source_count > MaxSourceId THEN 0 ELSE source_count

\* Mutation: the rwlock is not released.
AppendSourceKeepsLock(t) ==
  /\ ~Ended /\ task[t] = "appending" /\ MutexFree
  /\ sources' = <<[id |-> NewId, fd |-> pipe[t], state |-> "ACTIVE"]>> \o sources
  /\ source_count' = NewId + 1
  /\ logger_id' = [logger_id EXCEPT ![t] = NewId]
  /\ task' = [task EXCEPT ![t] = "waiting"]
  /\ UNCHANGED <<initialized, writer, readers, leaked, pipeVars, pipe, alive, jobs, mainVars>>

AppendSource(t) ==
  /\ ~Ended /\ task[t] = "appending" /\ MutexFree
  /\ sources' = <<[id |-> NewId, fd |-> pipe[t], state |-> "ACTIVE"]>> \o sources
  /\ source_count' = NewId + 1
  /\ logger_id' = [logger_id EXCEPT ![t] = NewId]
  /\ task' = [task EXCEPT ![t] = "waiting"]
  /\ readers' = readers \ {t}
  /\ UNCHANGED <<initialized, writer, leaked, pipeVars, pipe, alive, jobs, mainVars>>

\* subprocslog_remove_source() looks at initialized without taking the lock.
RemoveTests(t) ==
  /\ ~Ended /\ task[t] = "waiting" /\ ~alive[t]
  /\ \/ /\ logger_id[t] = RV_FAIL
        /\ Finishes(t) /\ UNCHANGED <<pipeVars, pc>>
     \/ /\ logger_id[t] # RV_FAIL /\ initialized
        /\ Goes(t, "removing") /\ UNCHANGED <<pipeVars, pc>>
     \/ /\ logger_id[t] # RV_FAIL /\ ~initialized
        /\ ClosesAndFinishes(t)
  /\ UNCHANGED <<listVars, lockVars, current, logging_enabled, stopping>>

HasId(t) == {i \in DOMAIN sources : sources[i].id = logger_id[t]}

\* The latest source with the id will be closed by the next sweep.
RemoveSource(t) ==
  /\ ~Ended /\ task[t] = "removing" /\ MutexFree
  /\ \/ /\ \E i \in HasId(t) :
             /\ \A j \in HasId(t) : i <= j
             /\ sources' = [sources EXCEPT ![i].state = "MOTHBALLED"]
        /\ Finishes(t) /\ UNCHANGED <<pipeVars, pc>>
     \/ /\ HasId(t) = {}
        /\ ClosesAndFinishes(t) /\ UNCHANGED sources
  /\ UNCHANGED <<source_count, lockVars, current, logging_enabled, stopping>>

TaskNext(t) ==
  TaskForks(t) \/ TaskForkFails(t) \/ AppendLocks(t) \/ AppendSource(t) \/ RemoveTests(t) \/ RemoveSource(t)

-----------------------------------------------------------------------------
(* The jobs *)

\* What a job writes after its pipes are closed is not for the log any more.
JobWrites(t) ==
  /\ ~Ended /\ alive[t] /\ owner[pipe[t]] = t
  /\ unread' = unread \union {pipe[t]}
  /\ UNCHANGED <<listVars, lockVars, owner, taskVars, mainVars>>

JobEnds(t) ==
  /\ ~Ended /\ alive[t]
  /\ alive' = [alive EXCEPT ![t] = FALSE]
  /\ UNCHANGED <<listVars, lockVars, pipeVars, task, pipe, logger_id, jobs, mainVars>>

-----------------------------------------------------------------------------
(* The main thread: dispatch(), waitForThreads() and the log's functions *)

At(where) == ~Ended /\ pc = where

\* The scan over the slots is done; a shutdown may begin, and end, with it.
ScanEnds ==
  /\ At("scan")
  /\ stopping' \in {stopping, TRUE}
  /\ pc' = IF stopping /\ \A t \in Tasks : task[t] = "none" THEN "deinitialize" ELSE "signals"
  /\ UNCHANGED <<listVars, lockVars, pipeVars, taskVars, current, logging_enabled>>

\* SIGHUP is acted on until the shutdown, a third stop signal only during it.
PollSignals ==
  /\ At("signals")
  /\ \/ pc' = "write"
     \/ Hangups /\ ~stopping /\ pc' = "reinitialize"
     \/ Forced /\ stopping /\ pc' = "deinitialize"
  /\ UNCHANGED <<listVars, lockVars, pipeVars, taskVars, current, logging_enabled, stopping>>

\* pthread_rwlock_wrlock: no reader, in particular none that will never unlock.
MayWrite == readers = {} /\ ~leaked

\* Mutation: neither the lock nor the state of the log is looked at.
ReinitializeUnchecked ==
  /\ At("reinitialize")
  /\ initialized' = FALSE /\ writer' = TRUE /\ pc' = "reopen"
  /\ UNCHANGED <<listVars, readers, leaked, pipeVars, taskVars, current,
                 logging_enabled, stopping>>

\* subprocslog_reinitialize() closes the log files, if they are open ...
ReinitializeCloses ==
  /\ At("reinitialize") /\ MayWrite
  /\ IF initialized
     THEN initialized' = FALSE /\ writer' = TRUE /\ pc' = "reopen"
     ELSE UNCHANGED <<initialized, writer>> /\ pc' = "write"
  /\ UNCHANGED <<listVars, readers, leaked, pipeVars, taskVars, current,
                 logging_enabled, stopping>>

\* ... and opens them again.  What it returns is not looked at.
ReinitializeOpens ==
  /\ At("reopen")
  /\ initialized' \in IF OpenFails THEN BOOLEAN ELSE {TRUE}
  /\ writer' = FALSE /\ pc' = "write"
  /\ UNCHANGED <<listVars, readers, leaked, pipeVars, taskVars, current,
                 logging_enabled, stopping>>

\* do_write_buffers takes source_list_mutex.
BeginsSweep == pc' = "sweep" /\ current' = 1

\* subprocslog_write_buffers() keeps the rwlock when it fails, and dispatch()
\* does not call it any more.
WriteBuffers ==
  /\ At("write")
  /\ \/ /\ logging_enabled /\ initialized
        /\ BeginsSweep /\ UNCHANGED <<leaked, logging_enabled>>
     \/ /\ logging_enabled /\ ~initialized
        /\ leaked' = TRUE /\ logging_enabled' = FALSE
        /\ pc' = "scan" /\ UNCHANGED current
     \/ /\ ~logging_enabled
        /\ pc' = "scan" /\ UNCHANGED <<current, leaked, logging_enabled>>
  /\ UNCHANGED <<listVars, initialized, writer, readers, pipeVars, taskVars, stopping>>

\* write_fdsource_to_fhsink: reads until nothing is left.
SweepReads ==
  /\ At("sweep") /\ current <= Len(sources)
  /\ unread' = unread \ {sources[current].fd}
  /\ pc' = "swept"
  /\ UNCHANGED <<listVars, lockVars, owner, taskVars, current, logging_enabled, stopping>>

SweepCloses ==
  /\ At("swept")
  /\ IF sources[current].state = "MOTHBALLED"
     THEN /\ Closes(sources[current].fd)
          /\ sources' = RemoveAt(sources, current) /\ UNCHANGED current
     ELSE current' = current + 1 /\ UNCHANGED <<sources, pipeVars>>
  /\ pc' = "sweep"
  /\ UNCHANGED <<source_count, lockVars, taskVars, logging_enabled, stopping>>

\* The sweep that subprocslog_deinitialize() makes is the last thing it does
\* before it closes the log files.
SweepEnds ==
  /\ At("sweep") /\ current > Len(sources)
  /\ current' = 0
  /\ IF writer THEN initialized' = FALSE /\ writer' = FALSE /\ pc' = "exiting"
     ELSE UNCHANGED <<initialized, writer>> /\ pc' = "scan"
  /\ UNCHANGED <<listVars, readers, leaked, pipeVars, taskVars, logging_enabled, stopping>>

\* subprocslog_deinitialize() removes all sources and sweeps once more.
Deinitialize ==
  /\ At("deinitialize") /\ MayWrite
  /\ writer' = TRUE
  /\ sources' = IF initialized
                THEN [i \in DOMAIN sources |-> [sources[i] EXCEPT !.state = "MOTHBALLED"]]
                ELSE sources
  /\ BeginsSweep
  /\ UNCHANGED <<source_count, initialized, readers, leaked, pipeVars, taskVars,
                 logging_enabled, stopping>>

MainReturns ==
  /\ At("exiting")
  /\ pc' = "exited"
  /\ UNCHANGED <<listVars, lockVars, pipeVars, taskVars, current, logging_enabled, stopping>>

MainNext ==
  \/ ScanEnds \/ PollSignals
  \/ ReinitializeCloses \/ ReinitializeOpens
  \/ WriteBuffers \/ SweepReads \/ SweepCloses \/ SweepEnds
  \/ Deinitialize \/ MainReturns

Finished == Ended /\ UNCHANGED vars

Next ==
  \/ MainNext
  \/ \E t \in Tasks : TaskStarts(t) \/ TaskNext(t) \/ JobWrites(t) \/ JobEnds(t)
  \/ Finished

\* Every thread is scheduled, and gets source_list_mutex although the main thread
\* takes it in every turn: it sleeps between the turns.  Jobs write and end, or not.
Fairness ==
  /\ WF_vars(MainNext)
  /\ \A t \in Tasks : /\ WF_vars(TaskNext(t))
                      /\ SF_vars(AppendSource(t) \/ RemoveSource(t))

Spec == Init /\ [][Next]_vars

FairSpec == Spec /\ Fairness

-----------------------------------------------------------------------------
(* Type correctness: every variable of the log keeps its range. *)
TypeOK ==
  /\ sources \in Seq([id : 0 .. MaxSourceId, fd : Fds, state : {"ACTIVE", "MOTHBALLED"}])
  /\ source_count \in 0 .. MaxSourceId + 1
  /\ initialized \in BOOLEAN /\ writer \in BOOLEAN /\ leaked \in BOOLEAN
  /\ readers \subseteq Tasks
  /\ owner \in [Fds -> Tasks \union {NoTask}]
  /\ unread \subseteq {f \in Fds : owner[f] # NoTask}
  /\ task \in [Tasks -> {"none", "starting", "forked", "appending", "waiting", "removing"}]
  /\ pipe \in [Tasks -> Fds \union {NoFd}]
  /\ logger_id \in [Tasks -> 0 .. MaxSourceId \union {RV_FAIL}]
  /\ alive \in [Tasks -> BOOLEAN]
  /\ jobs \in 0 .. MaxJobs
  /\ pc \in {"scan", "signals", "reinitialize", "reopen", "write", "sweep", "swept",
             "deinitialize", "exiting", "exited", "aborted"}
  /\ current \in 0 .. Len(sources) + 1
  /\ logging_enabled \in BOOLEAN /\ stopping \in BOOLEAN

\* The pipes of every source in the list are open, and no two sources share them:
\* a sweep never reads or closes pipes that were closed, and perhaps opened again
\* for another job, behind its back (lines 262-283).
SourcesOpen ==
  /\ \A i \in DOMAIN sources : owner[sources[i].fd] # NoTask
  /\ \A i, j \in DOMAIN sources : sources[i].fd = sources[j].fd => i = j

\* What a job has written is in the log before its pipes are closed.
NoOutputLost ==
  [][\A f \in Fds : owner[f] # NoTask /\ owner'[f] = NoTask => f \notin unread]_vars

\* subprocslog_remove_source() schedules the very source that the task appended
\* to be removed (subprocslog.h:72-75): whichever other sources came and went
\* since, the id still names it.
RemovesOwnSource ==
  [][\A t \in Tasks :
       task[t] \in {"waiting", "removing"} /\ logger_id[t] # RV_FAIL /\ task'[t] = "none" =>
         \E i \in DOMAIN sources' : sources'[i].fd = pipe[t] /\ sources'[i].state = "MOTHBALLED"]_vars

\* Once the wait for the jobs is over the log is closed and the process ends.
LogShutsDown == pc = "deinitialize" ~> pc = "exited"

\* A call that returned with the rwlock held has found the log closed for good.
LeakIsFinal == leaked => ~initialized

\* Nothing else than that keeps the main thread waiting for the rwlock for ever.
OnlyLeaksBlock ==
  pc \in {"reinitialize", "deinitialize"} ~> pc \notin {"reinitialize", "deinitialize"} \/ leaked

-----------------------------------------------------------------------------
(* What the log promises about the pipes *)

PipesIn(state) == {sources[i].fd : i \in {j \in DOMAIN sources : sources[j].state = state}}

Pipes == INSTANCE PipeLifecycle
  WITH open <- {f \in Fds : owner[f] # NoTask},
       listed <- PipesIn("ACTIVE"), leaving <- PipesIn("MOTHBALLED")

\* If there is no SIGHUP: nobody but a sweep closes pipes, and never before their last
\* output is read; they are given up only when no job writes to them (lines 262-283).
ImplementsPipes == Pipes!Spec

\* Besides, all output is logged in the end, also what a job has written before its
\* pipes are in the list, and pipes that are given up are closed.
ImplementsFairPipes == Pipes!FairSpec

-----------------------------------------------------------------------------
(* The inductive invariants *)

\* While SIGHUP is handled the log is closed for a moment, and nobody may find it so:
\* the main thread holds the rwlock, which no call has kept.
ReopensAlone == pc = "reopen" => writer /\ ~leaked

\* The source in hand is one of the list, as long as the sweep has the mutex.
SweepInv ==
  /\ pc = "sweep" => current >= 1
  /\ pc = "swept" => current \in DOMAIN sources

HasPipe == {"forked", "appending", "waiting", "removing"}

TasksInv ==
  \A t \in Tasks : /\ pipe[t] # NoFd <=> task[t] \in HasPipe
                   /\ alive[t] => task[t] \in HasPipe \ {"removing"}

\* What every step of the log preserves, whatever happens to it.
IInv == TypeOK /\ SweepInv /\ TasksInv /\ LeakIsFinal /\ ReopensAlone

\* The log is closed only when all tasks are done with it, and nobody closes pipes twice.
ClosesLast ==
  /\ pc \notin {"reinitialize", "reopen", "aborted"}
  /\ writer => pc \in {"sweep", "swept"}
  /\ ~initialized => pc \in {"exiting", "exited"}
  /\ writer \/ ~initialized \/ (pc = "deinitialize" /\ ~Forced) =>
       \A t \in Tasks : task[t] = "none"

\* A task has its pipes to itself until it has scheduled their source to be removed.
PipesOwned == \A t \in Tasks : pipe[t] # NoFd => owner[pipe[t]] = t

IsListed(t) ==
  \E i \in DOMAIN sources :
    sources[i] = [id |-> logger_id[t], fd |-> pipe[t], state |-> "ACTIVE"]

\* The source that a task has appended stays in the list until the task removes it.
SourcesListed ==
  \A t \in Tasks :
    /\ task[t] \in {"waiting", "removing"} => IsListed(t)
    /\ task[t] \in {"forked", "appending"} => \A i \in DOMAIN sources : sources[i].fd # pipe[t]

\* Whoever may write to the pipes of a source has gone when it is to be removed ...
RemovedIsLeft ==
  \A i \in DOMAIN sources :
    sources[i].state = "MOTHBALLED" => \A t \in Tasks : pipe[t] # sources[i].fd

\* ... and so nothing comes between the last read and the close.
SweptIsRead ==
  pc = "swept" /\ sources[current].state = "MOTHBALLED" => sources[current].fd \notin unread

\* What every step preserves if there is no SIGHUP, no end is forced and ids are
\* not given again too early.
ListInv ==
  /\ ClosesLast /\ PipesOwned /\ SourcesOpen
  /\ SourcesListed /\ RemovedIsLeft /\ SweptIsRead

\* While the main thread closes the log for good, nobody can get at the list ...
ClosingInv ==
  writer => /\ initialized /\ pc \in {"sweep", "swept"} /\ current = 1 /\ readers = {}
            /\ SourcesOpen /\ \A i \in DOMAIN sources : sources[i].state = "MOTHBALLED"

\* ... and after that there is none any more.
ClosedInv ==
  ~initialized => /\ ~writer /\ pc \in {"exiting", "exited", "aborted"}
                  /\ readers = {} /\ sources = <<>>

\* What every step preserves also if an end is forced while tasks are at work: up to the
\* close it is as in an undisturbed log.
EndInv ==
  /\ pc \notin {"reinitialize", "reopen"}
  /\ \A t \in Tasks : task[t] = "appending" => t \in readers
  /\ initialized /\ ~writer => ListInv
  /\ ClosingInv /\ ClosedInv

\* No two sources in the list have one id.
IdsUnique == \A i, j \in DOMAIN sources : sources[i].id = sources[j].id => i = j

\* The tasks that are yet to append a source.
Appenders == {t \in Tasks : task[t] \in {"starting", "forked", "appending"}}

\* Ids are given in turn, one for a job at most.
IdInv ==
  /\ IdsUnique
  /\ \A i \in DOMAIN sources : sources[i].id < source_count
  /\ source_count + Cardinality(Appenders) <= jobs
=============================================================================
