------------------------ MODULE UndisturbedLog_proofs ------------------------
(***************************************************************************)
(* What is proved of the log of the jobs' output when nothing disturbs it: *)
(* no SIGHUP comes, and the main thread waits for the jobs to the end.     *)
(* One section is about ends that are forced earlier.  That no two sources *)
(* in the list have one id is a hypothesis at first; the last section      *)
(* shows it for as many jobs as there are ids.                             *)
(***************************************************************************)
EXTENDS SubprocsLog_proofs, FiniteSetTheorems

-----------------------------------------------------------------------------
(* The steps of the task threads *)

\* What the invariants say of the task that moves.
LEMMA OneTask ==
  ASSUME IInv, ListInv, NEW t \in Tasks
  PROVE  /\ TypeInv /\ TypeOK /\ TasksInv
         /\ t # NoTask /\ NoTask \notin Tasks /\ NoFd \notin Fds
         /\ task[t] \in HasPipe => pipe[t] \in Fds /\ owner[pipe[t]] = t
         /\ \A u \in Tasks : pipe[u] # NoFd /\ pipe[u] = pipe[t] => u = t
         /\ task[t] # "none" => ~writer /\ initialized
BY Numbers DEF IInv, TypeInv, ListInv, TypeOK, TasksInv, PipesOwned, ClosesLast

LEMMA TaskStartsListed ==
  ASSUME IInv, ListInv, NEW t \in Tasks, TaskStarts(t)
  PROVE  ListInv'
<1>1. /\ TypeOK /\ ListInv /\ pc = "scan" /\ task[t] = "none"
      /\ task' = [task EXCEPT ![t] = "starting"]
      /\ UNCHANGED <<listVars, lockVars, pipeVars, pipe, logger_id, alive, mainVars>>
  BY DEF IInv, TaskStarts
<1>. USE DEF listVars, lockVars, pipeVars, mainVars
<1>2. ClosesLast'
  BY <1>1 DEF ListInv, ClosesLast
<1>3. PipesOwned' /\ SourcesOpen' /\ RemovedIsLeft' /\ SweptIsRead'
  BY <1>1 DEF ListInv, PipesOwned, SourcesOpen, RemovedIsLeft, SweptIsRead
<1>4. SourcesListed'
  BY <1>1 DEF ListInv, SourcesListed, IsListed, TypeOK
<1>. QED
  BY <1>2, <1>3, <1>4 DEF ListInv

\* The pipes a task opens are those of no other task, and of no source.
LEMMA TaskForksListed ==
  ASSUME IInv, ListInv, NEW t \in Tasks, TaskForks(t)
  PROVE  ListInv'
<1>1. PICK f \in Fds : Opens(f, t) /\ pipe' = [pipe EXCEPT ![t] = f]
  BY DEF TaskForks
<1>2. /\ TypeOK /\ task[t] = "starting" /\ owner[f] = NoTask
      /\ owner' = [owner EXCEPT ![f] = t]
      /\ task' = [task EXCEPT ![t] = "forked"]
      /\ UNCHANGED <<listVars, lockVars, unread, logger_id, jobs, mainVars>>
  BY <1>1 DEF IInv, TaskForks, Opens
<1>3. \A i \in DOMAIN sources : sources[i].fd \in Fds /\ sources[i].fd # f
  BY <1>2, SourcesTyped DEF ListInv, SourcesOpen
<1>. USE DEF listVars, lockVars, mainVars
<1>4. ClosesLast'
  BY <1>2 DEF ListInv, ClosesLast, TypeOK
<1>5. PipesOwned'
  BY <1>1, <1>2, Numbers DEF ListInv, PipesOwned, TypeOK
<1>6. SourcesOpen'
  BY <1>2, <1>3 DEF ListInv, SourcesOpen, TypeOK
<1>7. SourcesListed'
  BY <1>1, <1>2, <1>3 DEF ListInv, SourcesListed, IsListed, TypeOK
<1>8. RemovedIsLeft' /\ SweptIsRead'
  BY <1>1, <1>2, <1>3 DEF ListInv, RemovedIsLeft, SweptIsRead, TypeOK
<1>. QED
  BY <1>4, <1>5, <1>6, <1>7, <1>8 DEF ListInv

LEMMA TaskForkFailsListed ==
  ASSUME IInv, ListInv, NEW t \in Tasks, TaskForkFails(t)
  PROVE  ListInv'
<1>1. PICK f \in Fds : Opens(f, t)
  BY DEF TaskForkFails
<1>2. /\ TypeOK /\ task[t] = "starting" /\ owner[f] = NoTask
      /\ owner' = [owner EXCEPT ![f] = t]
      /\ task' = [task EXCEPT ![t] = "none"]
      /\ UNCHANGED <<listVars, lockVars, unread, pipe, logger_id, alive, jobs, mainVars>>
  BY <1>1 DEF IInv, TaskForkFails, Opens
<1>. USE DEF listVars, lockVars, mainVars
<1>3. \A i \in DOMAIN sources : sources[i].fd \in Fds /\ sources[i].fd # f
  BY <1>2, SourcesTyped DEF ListInv, SourcesOpen
<1>4. ClosesLast'
  BY <1>2 DEF ListInv, ClosesLast, TypeOK
<1>5. PipesOwned'
  BY <1>2, Numbers DEF ListInv, PipesOwned, TypeOK
<1>6. SourcesOpen'
  BY <1>2, <1>3 DEF ListInv, SourcesOpen, TypeOK
<1>7. SourcesListed'
  BY <1>2 DEF ListInv, SourcesListed, IsListed, TypeOK
<1>8. RemovedIsLeft' /\ SweptIsRead'
  BY <1>2 DEF ListInv, RemovedIsLeft, SweptIsRead
<1>. QED
  BY <1>4, <1>5, <1>6, <1>7, <1>8 DEF ListInv

\* A task that moves on to another state, with the same pipes and the same source.
LEMMA GoesListed ==
  ASSUME IInv, ListInv, NEW t \in Tasks, NEW to \in {"appending", "removing"},
         task[t] = IF to = "appending" THEN "forked" ELSE "waiting",
         Goes(t, to), UNCHANGED <<listVars, initialized, writer, pipeVars, mainVars>>
  PROVE  ListInv'
<1>1. /\ TypeOK /\ task' = [task EXCEPT ![t] = to]
      /\ UNCHANGED <<pipe, logger_id, alive, jobs>>
  BY DEF IInv, Goes
<1>. USE DEF listVars, pipeVars, mainVars
<1>2. ClosesLast'
  BY <1>1 DEF ListInv, ClosesLast, TypeOK
<1>3. PipesOwned' /\ SourcesOpen' /\ RemovedIsLeft' /\ SweptIsRead'
  BY <1>1 DEF ListInv, PipesOwned, SourcesOpen, RemovedIsLeft, SweptIsRead
<1>4. SourcesListed'
  BY <1>1 DEF ListInv, SourcesListed, IsListed, TypeOK
<1>. QED
  BY <1>2, <1>3, <1>4 DEF ListInv

\* The log is never closed to a task.
LEMMA AppendLocksListed ==
  ASSUME IInv, ListInv, NEW t \in Tasks, AppendLocks(t)
  PROVE  ListInv'
<1>1. initialized
  BY OneTask DEF AppendLocks
<1>. QED
  BY <1>1, GoesListed DEF AppendLocks, mainVars

\* The new source is in front, and its pipes are those of no other.
LEMMA AppendSourceListed ==
  ASSUME IInv, ListInv, NEW t \in Tasks, AppendSource(t)
  PROVE  ListInv'
<1>. DEFINE new == [id |-> NewId, fd |-> pipe[t], state |-> "ACTIVE"]
<1>1. /\ TypeOK /\ TypeInv /\ MutexFree /\ task[t] = "appending"
      /\ UNCHANGED <<initialized, writer, leaked, pipeVars, pipe, alive, jobs, mainVars>>
      /\ logger_id' = [logger_id EXCEPT ![t] = NewId]
      /\ task' = [task EXCEPT ![t] = "waiting"]
  BY DEF IInv, TypeInv, AppendSource
<1>2. /\ DOMAIN sources' = 1 .. Len(sources) + 1 /\ DOMAIN sources = 1 .. Len(sources)
      /\ Len(sources) \in Nat
      /\ sources'[1] = new
      /\ \A i \in DOMAIN sources : i + 1 \in DOMAIN sources' /\ sources'[i + 1] = sources[i]
      /\ \A j \in DOMAIN sources' : j = 1 \/ \E i \in DOMAIN sources : j = i + 1
  <2>1. DOMAIN sources = 1 .. Len(sources) /\ Len(sources) \in Nat
    BY <1>1, SourcesTyped
  <2>2. /\ DOMAIN sources' = 1 .. Len(sources) + 1 /\ sources'[1] = new
        /\ \A i \in 1 .. Len(sources) : sources'[i + 1] = sources[i]
    BY <1>1, AppendedSources
  <2>3. \A j \in DOMAIN sources' : j # 1 => j - 1 \in DOMAIN sources /\ j = (j - 1) + 1
    BY <2>1, <2>2
  <2>. QED
    BY <2>1, <2>2, <2>3
<1>3. /\ pipe[t] # NoFd /\ owner[pipe[t]] = t /\ t # NoTask /\ initialized /\ ~writer
      /\ \A u \in Tasks : pipe[u] # NoFd /\ pipe[u] = pipe[t] => u = t
      /\ \A i \in DOMAIN sources : sources[i].fd # pipe[t]
  BY <1>1, OneTask, Numbers DEF HasPipe, ListInv, SourcesListed
<1>4. ClosesLast'
  BY <1>1 DEF ListInv, ClosesLast, TypeOK, mainVars
<1>5. PipesOwned'
  BY <1>1 DEF ListInv, PipesOwned, pipeVars
<1>6. SourcesOpen'
  <2>1. \A j \in DOMAIN sources' : owner'[sources'[j].fd] # NoTask
    BY <1>1, <1>2, <1>3 DEF ListInv, SourcesOpen, pipeVars
  <2>2. ASSUME NEW j \in DOMAIN sources', NEW k \in DOMAIN sources',
               sources'[j].fd = sources'[k].fd
        PROVE  j = k
    BY <1>2, <1>3, <2>2 DEF ListInv, SourcesOpen
  <2>. QED
    BY <2>1, <2>2 DEF SourcesOpen
<1>7. SourcesListed'
  <2>. SUFFICES ASSUME NEW u \in Tasks
                PROVE  /\ task'[u] \in {"waiting", "removing"} => IsListed(u)'
                       /\ task'[u] \in {"forked", "appending"} =>
                            \A i \in DOMAIN sources' : sources'[i].fd # pipe'[u]
    BY DEF SourcesListed
  <2>1. CASE u = t
    <3>1. 1 \in DOMAIN sources'
      BY <1>2
    <3>2. sources'[1] = [id |-> logger_id'[t], fd |-> pipe'[t], state |-> "ACTIVE"]
      BY <1>1, <1>2 DEF TypeOK
    <3>3. task'[t] = "waiting"
      BY <1>1 DEF TypeOK
    <3>. QED
      BY <2>1, <3>1, <3>2, <3>3 DEF IsListed
  <2>2. CASE u # t
    <3>1. task'[u] = task[u] /\ logger_id'[u] = logger_id[u] /\ pipe'[u] = pipe[u]
      BY <1>1, <2>2 DEF TypeOK
    <3>2. IsListed(u) => IsListed(u)'
      BY <1>2, <3>1 DEF IsListed
    <3>3. task[u] \in {"forked", "appending"} => pipe[u] # pipe[t]
      BY <1>1, <1>3, <2>2 DEF TypeInv, TasksInv, HasPipe
    <3>. QED
      BY <1>2, <3>1, <3>2, <3>3 DEF ListInv, SourcesListed
  <2>. QED
    BY <2>1, <2>2
<1>8. RemovedIsLeft'
  BY <1>1, <1>2 DEF ListInv, RemovedIsLeft
<1>9. SweptIsRead'
  BY <1>1 DEF SweptIsRead, MutexFree, mainVars
<1>. QED
  BY <1>4, <1>5, <1>6, <1>7, <1>8, <1>9 DEF ListInv

\* A task that waits has appended a source, and the log is open.
LEMMA RemoveTestsListed ==
  ASSUME IInv, ListInv, NEW t \in Tasks, RemoveTests(t)
  PROVE  ListInv' /\ task'[t] # "none"
<1>1. /\ TypeOK /\ task[t] = "waiting" /\ initialized /\ IsListed(t)
  BY OneTask DEF RemoveTests, ListInv, SourcesListed
<1>2. logger_id[t] # RV_FAIL
  BY <1>1, SourcesTyped, Numbers DEF IsListed
<1>3. Goes(t, "removing") /\ UNCHANGED <<listVars, lockVars, pipeVars, mainVars>>
  BY <1>1, <1>2 DEF RemoveTests, mainVars
<1>4. ListInv'
  BY <1>1, <1>3, GoesListed DEF lockVars
<1>. QED
  BY <1>1, <1>3, <1>4 DEF Goes, TypeOK

\* The source that a task schedules to be removed is its own.
LEMMA RemovedSource ==
  ASSUME IInv, ListInv, IdsUnique, NEW t \in Tasks, RemoveSource(t)
  PROVE  \E i \in DOMAIN sources :
           /\ sources[i] = [id |-> logger_id[t], fd |-> pipe[t], state |-> "ACTIVE"]
           /\ sources' = [sources EXCEPT ![i].state = "MOTHBALLED"]
           /\ Finishes(t) /\ UNCHANGED <<pipeVars, mainVars>>
<1>1. PICK i \in DOMAIN sources :
        sources[i] = [id |-> logger_id[t], fd |-> pipe[t], state |-> "ACTIVE"]
  BY DEF RemoveSource, ListInv, SourcesListed, IsListed
<1>2. HasId(t) = {i}
  BY <1>1 DEF HasId, IdsUnique
<1>. QED
  BY <1>1, <1>2 DEF RemoveSource, mainVars

LEMMA RemoveSourceListed ==
  ASSUME IInv, ListInv, IdsUnique, NEW t \in Tasks, RemoveSource(t)
  PROVE  ListInv'
<1>1. PICK k \in DOMAIN sources :
        /\ sources[k] = [id |-> logger_id[t], fd |-> pipe[t], state |-> "ACTIVE"]
        /\ sources' = [sources EXCEPT ![k].state = "MOTHBALLED"]
        /\ Finishes(t) /\ UNCHANGED <<pipeVars, mainVars>>
  BY RemovedSource
<1>2. /\ TypeOK /\ TypeInv /\ task[t] = "removing" /\ MutexFree /\ UNCHANGED lockVars
      /\ task' = [task EXCEPT ![t] = "none"] /\ pipe' = [pipe EXCEPT ![t] = NoFd]
      /\ logger_id' = [logger_id EXCEPT ![t] = RV_FAIL]
  BY <1>1 DEF IInv, TypeInv, RemoveSource, Finishes
<1>3. /\ DOMAIN sources' = DOMAIN sources
      /\ \A j \in DOMAIN sources : j # k => sources'[j] = sources[j]
      /\ \A j \in DOMAIN sources : sources'[j].fd = sources[j].fd /\ sources[j].fd \in Fds
      /\ sources[k].fd = pipe[t]
  BY <1>1, <1>2, MothballedSources, SourcesTyped
<1>4. /\ NoFd \notin Fds
      /\ \A u \in Tasks : pipe[u] # NoFd /\ pipe[u] = pipe[t] => u = t
  BY OneTask
<1>5. ClosesLast'
  BY <1>1, <1>2 DEF ListInv, ClosesLast, TypeOK, mainVars, lockVars
<1>6. PipesOwned'
  BY <1>1, <1>2 DEF ListInv, PipesOwned, TypeOK, pipeVars
<1>7. SourcesOpen'
  BY <1>1, <1>3 DEF ListInv, SourcesOpen, pipeVars
<1>8. SourcesListed'
  <2>. SUFFICES ASSUME NEW u \in Tasks
                PROVE  /\ task'[u] \in {"waiting", "removing"} => IsListed(u)'
                       /\ task'[u] \in {"forked", "appending"} =>
                            \A i \in DOMAIN sources' : sources'[i].fd # pipe'[u]
    BY DEF SourcesListed
  <2>1. CASE u = t
    BY <1>2, <2>1 DEF TypeOK
  <2>2. CASE u # t
    <3>1. task'[u] = task[u] /\ logger_id'[u] = logger_id[u] /\ pipe'[u] = pipe[u]
      BY <1>2, <2>2 DEF TypeOK
    <3>2. ASSUME task[u] \in {"waiting", "removing"}
          PROVE  IsListed(u)'
      <4>1. PICK i \in DOMAIN sources :
              sources[i] = [id |-> logger_id[u], fd |-> pipe[u], state |-> "ACTIVE"]
        BY <3>2 DEF ListInv, SourcesListed, IsListed
      <4>2. i # k
        BY <1>3, <1>4, <2>2, <4>1
      <4>. QED
        BY <1>3, <3>1, <4>1, <4>2 DEF IsListed
    <3>. QED
      BY <1>3, <3>1, <3>2 DEF ListInv, SourcesListed
  <2>. QED
    BY <2>1, <2>2
<1>9. RemovedIsLeft'
  <2>. SUFFICES ASSUME NEW i \in DOMAIN sources, sources'[i].state = "MOTHBALLED",
                       NEW u \in Tasks
                PROVE  pipe'[u] # sources'[i].fd
    BY <1>3 DEF RemovedIsLeft
  <2>1. CASE i = k
    BY <1>2, <1>3, <1>4, <2>1 DEF TypeOK
  <2>2. CASE i # k
    BY <1>2, <1>3, <1>4, <2>2 DEF ListInv, RemovedIsLeft, TypeOK
  <2>. QED
    BY <2>1, <2>2
<1>10. SweptIsRead'
  BY <1>1, <1>2 DEF SweptIsRead, MutexFree, mainVars
<1>. QED
  BY <1>5, <1>6, <1>7, <1>8, <1>9, <1>10 DEF ListInv

\* No job writes to the pipes of a source that is to be removed.
LEMMA JobListed ==
  ASSUME IInv, ListInv, NEW t \in Tasks, JobWrites(t) \/ JobEnds(t)
  PROVE  ListInv'
<1>1. /\ UNCHANGED <<listVars, lockVars, owner, task, pipe, logger_id, mainVars>>
      /\ unread' \in {unread, unread \union {pipe[t]}}
  BY DEF JobWrites, JobEnds, taskVars, pipeVars
<1>. USE DEF listVars, lockVars, mainVars
<1>2. ClosesLast' /\ PipesOwned' /\ SourcesOpen' /\ SourcesListed' /\ RemovedIsLeft'
  BY <1>1 DEF ListInv, ClosesLast, PipesOwned, SourcesOpen, SourcesListed, IsListed, RemovedIsLeft
<1>3. SweptIsRead'
  <2>1. pc = "swept" => current \in DOMAIN sources
    BY DEF IInv, SweepInv
  <2>. QED
    BY <1>1, <2>1 DEF ListInv, SweptIsRead, RemovedIsLeft
<1>. QED
  BY <1>2, <1>3 DEF ListInv

-----------------------------------------------------------------------------
(* The steps of the main thread *)

\* The log stays in hand of the main thread once the tasks are done with it.
LEMMA TurnListed ==
  ASSUME IInv, ListInv, ~Hangups,
         ScanEnds \/ PollSignals \/ ReinitializeCloses \/ ReinitializeOpens
           \/ WriteBuffers \/ MainReturns
  PROVE  ListInv'
<1>1. /\ UNCHANGED <<listVars, pipeVars, taskVars>>
      /\ pc # "swept" /\ pc' # "swept"
  BY DEF ScanEnds, PollSignals, ReinitializeCloses, ReinitializeOpens, WriteBuffers,
         BeginsSweep, MainReturns, At
<1>2. PipesOwned' /\ SourcesOpen' /\ SourcesListed' /\ RemovedIsLeft' /\ SweptIsRead'
  BY <1>1 DEF ListInv, PipesOwned, SourcesOpen, SourcesListed, IsListed, RemovedIsLeft,
              SweptIsRead, listVars, pipeVars, taskVars
<1>3. ClosesLast'
  <2>. USE DEF ListInv, ClosesLast, At, taskVars, lockVars
  <2>1. CASE ScanEnds
    BY <2>1 DEF ScanEnds
  <2>2. CASE PollSignals
    BY <2>2 DEF PollSignals
  <2>3. CASE ReinitializeCloses \/ ReinitializeOpens
    BY <2>3 DEF ReinitializeCloses, ReinitializeOpens
  <2>4. CASE WriteBuffers
    BY <2>4 DEF WriteBuffers, BeginsSweep
  <2>5. CASE MainReturns
    BY <2>5 DEF MainReturns
  <2>. QED
    BY <2>1, <2>2, <2>3, <2>4, <2>5
<1>. QED
  BY <1>2, <1>3 DEF ListInv

\* After the read nothing is left in the pipes of the source in hand.
LEMMA SweepReadsListed ==
  ASSUME IInv, ListInv, SweepReads
  PROVE  ListInv'
<1>1. /\ pc = "sweep" /\ pc' = "swept" /\ unread' = unread \ {sources[current].fd}
      /\ UNCHANGED <<listVars, lockVars, owner, taskVars, current>>
  BY DEF SweepReads, At
<1>. QED
  BY <1>1 DEF ListInv, ClosesLast, PipesOwned, SourcesOpen, SourcesListed, IsListed,
              RemovedIsLeft, SweptIsRead, listVars, lockVars, taskVars

\* The sources that a sweep leaves in the list have their pipes.
LEMMA SweepKeepsOpen ==
  ASSUME IInv, SourcesOpen, SweepCloses
  PROVE  /\ SourcesOpen'
         /\ \A j \in DOMAIN sources' : \E i \in DOMAIN sources : sources'[j] = sources[i]
<1>1. TypeInv /\ TypeOK /\ current \in DOMAIN sources
  BY DEF IInv, TypeInv, SweepInv, SweepCloses, At
<1>2. CASE sources[current].state # "MOTHBALLED"
  BY <1>2 DEF SweepCloses, SourcesOpen, pipeVars
<1>3. CASE sources[current].state = "MOTHBALLED"
  <2>. DEFINE f == sources[current].fd
              from(j) == IF j < current THEN j ELSE j + 1
  <2>1. /\ DOMAIN sources = 1 .. Len(sources) /\ Len(sources) \in Nat
        /\ \A i \in DOMAIN sources : sources[i].fd \in Fds
    BY <1>1, SourcesTyped
  <2>2. /\ DOMAIN sources' = 1 .. Len(sources) - 1
        /\ \A j \in DOMAIN sources' : sources'[j] = IF j < current THEN sources[j] ELSE sources[j + 1]
    BY <1>1, <1>3, SweptSources DEF SweepCloses, At
  <2>3. /\ \A j \in DOMAIN sources' :
             from(j) \in DOMAIN sources /\ from(j) # current /\ sources'[j] = sources[from(j)]
        /\ \A j, k \in DOMAIN sources' : from(j) = from(k) => j = k
    BY <1>1, <2>1, <2>2
  <2>. HIDE DEF from
  <2>4. owner' = [owner EXCEPT ![f] = NoTask] /\ f \in Fds
    BY <1>1, <1>3, <2>1 DEF SweepCloses, Closes
  <2>5. \A j \in DOMAIN sources' : owner'[sources'[j].fd] = owner[sources'[j].fd]
    BY <1>1, <2>1, <2>3, <2>4 DEF TypeOK, SourcesOpen
  <2>. QED
    BY <2>3, <2>5 DEF SourcesOpen
<1>. QED
  BY <1>2, <1>3

\* The pipes that are closed belong to no task and to no other source.
LEMMA SweepClosesListed ==
  ASSUME IInv, ListInv, SweepCloses
  PROVE  ListInv'
<1>1. /\ TypeInv /\ TypeOK /\ current \in DOMAIN sources
      /\ pc = "swept" /\ pc' = "sweep"
      /\ UNCHANGED <<source_count, lockVars, taskVars, logging_enabled, stopping>>
  BY DEF IInv, TypeInv, SweepInv, SweepCloses, At
<1>2. ClosesLast' /\ SweptIsRead'
  BY <1>1 DEF ListInv, ClosesLast, SweptIsRead, lockVars, taskVars
<1>3. CASE sources[current].state # "MOTHBALLED"
  <2>1. UNCHANGED <<sources, pipeVars>>
    BY <1>3 DEF SweepCloses
  <2>. QED
    BY <1>1, <1>2, <2>1 DEF ListInv, PipesOwned, SourcesOpen, SourcesListed, IsListed,
                            RemovedIsLeft, pipeVars, taskVars
<1>4. CASE sources[current].state = "MOTHBALLED"
  <2>. DEFINE f == sources[current].fd
              from(j) == IF j < current THEN j ELSE j + 1
  <2>1. /\ DOMAIN sources = 1 .. Len(sources) /\ Len(sources) \in Nat
        /\ \A i \in DOMAIN sources : sources[i].fd \in Fds
    BY <1>1, SourcesTyped
  <2>2. /\ DOMAIN sources' = 1 .. Len(sources) - 1
        /\ \A j \in DOMAIN sources' : sources'[j] = IF j < current THEN sources[j] ELSE sources[j + 1]
    BY <1>1, <1>4, SweptSources
  \* Every source that is left was there, in another place than the closed one ...
  <2>3. /\ \A j \in DOMAIN sources' :
             from(j) \in DOMAIN sources /\ from(j) # current /\ sources'[j] = sources[from(j)]
        /\ \A j, k \in DOMAIN sources' : from(j) = from(k) => j = k
    BY <1>1, <2>1, <2>2
  \* ... and all others that were there are left.
  <2>4. \A i \in DOMAIN sources : i # current =>
          \E j \in DOMAIN sources' : sources'[j] = sources[i]
    <3>. SUFFICES ASSUME NEW i \in DOMAIN sources, i # current
                  PROVE  \E j \in DOMAIN sources' : sources'[j] = sources[i]
      OBVIOUS
    <3>1. CASE i < current
      BY <1>1, <2>1, <2>2, <3>1
    <3>2. CASE i > current
      <4>1. i - 1 \in DOMAIN sources' /\ ~(i - 1 < current) /\ (i - 1) + 1 = i
        BY <1>1, <2>1, <2>2, <3>2
      <4>. QED
        BY <2>2, <4>1
    <3>. QED
      BY <1>1, <2>1, <3>1, <3>2
  <2>. HIDE DEF from
  <2>5. \A j \in DOMAIN sources' : sources'[j].fd # f
    BY <1>1, <2>3 DEF ListInv, SourcesOpen
  <2>6. owner' = [owner EXCEPT ![f] = NoTask] /\ f \in Fds
    BY <1>1, <1>4, <2>1 DEF SweepCloses, Closes
  <2>7. \A u \in Tasks : pipe[u] # f
    BY <1>1, <1>4 DEF ListInv, RemovedIsLeft
  <2>8. PipesOwned'
    BY <1>1, <2>6, <2>7 DEF ListInv, PipesOwned, TypeOK, taskVars
  <2>9. SourcesOpen'
    BY SweepKeepsOpen DEF ListInv
  <2>10. SourcesListed'
    <3>1. ASSUME NEW u \in Tasks, IsListed(u)
          PROVE  IsListed(u)'
      <4>1. PICK i \in DOMAIN sources :
              sources[i] = [id |-> logger_id[u], fd |-> pipe[u], state |-> "ACTIVE"]
        BY <3>1 DEF IsListed
      <4>2. i # current
        BY <1>4, <4>1
      <4>. QED
        BY <1>1, <2>4, <4>1, <4>2 DEF IsListed, taskVars
    <3>. QED
      BY <1>1, <2>3, <3>1 DEF ListInv, SourcesListed, taskVars
  <2>11. RemovedIsLeft'
    BY <1>1, <2>3 DEF ListInv, RemovedIsLeft, taskVars
  <2>. QED
    BY <1>2, <2>8, <2>9, <2>10, <2>11 DEF ListInv
<1>. QED
  BY <1>3, <1>4

LEMMA SweepEndsListed ==
  ASSUME IInv, ListInv, SweepEnds
  PROVE  ListInv'
<1>1. /\ pc = "sweep" /\ UNCHANGED <<listVars, pipeVars, taskVars>>
      /\ \/ writer /\ initialized' = FALSE /\ writer' = FALSE /\ pc' = "exiting"
         \/ ~writer /\ UNCHANGED <<initialized, writer>> /\ pc' = "scan"
  BY DEF SweepEnds, At
<1>2. ClosesLast'
  BY <1>1 DEF ListInv, ClosesLast, taskVars
<1>. QED
  BY <1>1, <1>2 DEF ListInv, PipesOwned, SourcesOpen, SourcesListed, IsListed,
                    RemovedIsLeft, SweptIsRead, listVars, pipeVars, taskVars

\* When all sources are scheduled to be removed no task is left that could use one.
LEMMA DeinitializeListed ==
  ASSUME ~Forced, IInv, ListInv, Deinitialize
  PROVE  ListInv'
<1>1. /\ TypeOK /\ pc = "deinitialize" /\ pc' = "sweep" /\ writer' = TRUE
      /\ UNCHANGED <<source_count, initialized, readers, leaked, pipeVars, taskVars>>
      /\ \A t \in Tasks : task[t] = "none" /\ pipe[t] = NoFd
      /\ initialized /\ NoFd \notin Fds
  BY Numbers DEF IInv, TasksInv, HasPipe, ListInv, ClosesLast, Deinitialize, At, BeginsSweep
<1>2. sources' = [i \in DOMAIN sources |-> [sources[i] EXCEPT !.state = "MOTHBALLED"]]
  BY <1>1 DEF Deinitialize
<1>3. /\ DOMAIN sources' = DOMAIN sources
      /\ \A i \in DOMAIN sources :
           sources'[i] = [id |-> sources[i].id, fd |-> sources[i].fd, state |-> "MOTHBALLED"]
  BY <1>1, <1>2, DeinitializedSources
<1>4. \A i \in DOMAIN sources : sources'[i].fd = sources[i].fd /\ sources[i].fd \in Fds
  BY <1>1, <1>3, SourcesTyped
<1>. QED
  BY <1>1, <1>3, <1>4 DEF ListInv, ClosesLast, PipesOwned, SourcesOpen, SourcesListed,
                    RemovedIsLeft, SweptIsRead, pipeVars, taskVars

-----------------------------------------------------------------------------
(* The invariant of the undisturbed log *)

LEMMA InitEstablishesListInv == Init => ListInv
BY DEF Init, ListInv, ClosesLast, PipesOwned, SourcesOpen, SourcesListed, RemovedIsLeft,
       SweptIsRead

LEMMA NextPreservesListInv ==
  ASSUME ~Hangups
  PROVE  IInv /\ ListInv /\ IdsUnique /\ [Next]_vars /\ ~(Forced /\ Deinitialize) => ListInv'
<1>. SUFFICES ASSUME IInv, ListInv, IdsUnique, [Next]_vars, ~(Forced /\ Deinitialize)
              PROVE  ListInv'
  OBVIOUS
<1>1. CASE MainNext
  BY <1>1, TurnListed, SweepReadsListed, SweepClosesListed, SweepEndsListed,
     DeinitializeListed DEF MainNext
<1>2. ASSUME NEW t \in Tasks, TaskStarts(t) \/ TaskNext(t) \/ JobWrites(t) \/ JobEnds(t)
      PROVE  ListInv'
  BY <1>2, TaskStartsListed, TaskForksListed, TaskForkFailsListed, AppendLocksListed,
     AppendSourceListed, RemoveTestsListed, RemoveSourceListed, JobListed DEF TaskNext
<1>3. CASE Finished \/ UNCHANGED vars
  BY <1>3 DEF ListInv, ClosesLast, PipesOwned, SourcesOpen, SourcesListed, IsListed,
     RemovedIsLeft, SweptIsRead, Finished,
     vars, listVars, lockVars, pipeVars, taskVars, mainVars
<1>. QED
  BY <1>1, <1>2, <1>3 DEF Next

\* What the steps of the undisturbed log keep true of it holds in every state.
THEOREM ListInvariance ==
  ASSUME ~Hangups, ~Forced
  PROVE  Spec /\ []IdsUnique => []ListInv
BY InitEstablishesListInv, NextPreservesListInv, Invariance, PTL DEF Spec

-----------------------------------------------------------------------------
(* A forced end: jobs and their tasks are still there when the log closes *)

\* Nobody takes the rwlock for reading without giving it back, before he goes on.
LEMMA ReadersAppend ==
  ASSUME IInv, [Next]_vars, \A t \in Tasks : task[t] = "appending" => t \in readers
  PROVE  \A t \in Tasks : task'[t] = "appending" => t \in readers'
<1>1. CASE MainNext
  <2>1. UNCHANGED <<task, readers>>
    BY <1>1 DEF MainNext, ScanEnds, PollSignals, ReinitializeCloses, ReinitializeOpens,
       WriteBuffers, SweepReads, SweepCloses, SweepEnds, Deinitialize, MainReturns,
       taskVars, lockVars
  <2>. QED
    BY <2>1
<1>2. ASSUME NEW t \in Tasks, TaskStarts(t) \/ TaskNext(t) \/ JobWrites(t) \/ JobEnds(t)
      PROVE  \A u \in Tasks : task'[u] = "appending" => u \in readers'
  <2>. USE DEF TypeOK, IInv
  <2>1. CASE TaskStarts(t) \/ JobWrites(t) \/ JobEnds(t)
    BY <2>1 DEF TaskStarts, JobWrites, JobEnds, lockVars, taskVars
  <2>2. CASE TaskForks(t) \/ TaskForkFails(t)
    BY <2>2 DEF TaskForks, TaskForkFails, lockVars
  <2>3. CASE AppendLocks(t) \/ AppendSource(t)
    BY <2>3 DEF AppendLocks, AppendSource, Goes, taskVars
  <2>4. CASE RemoveTests(t) \/ RemoveSource(t)
    BY <2>4 DEF RemoveTests, RemoveSource, Goes, Finishes, ClosesAndFinishes, lockVars, taskVars
  <2>. QED
    BY <1>2, <2>1, <2>2, <2>3, <2>4 DEF TaskNext
<1>3. CASE Finished \/ UNCHANGED vars
  BY <1>3 DEF Finished, vars, taskVars, lockVars
<1>. QED
  BY <1>1, <1>2, <1>3 DEF Next

\* What a task or its job does to the log in general.
LEMMA TasksLeaveLock ==
  ASSUME NEW t \in Tasks, TaskStarts(t) \/ TaskNext(t) \/ JobWrites(t) \/ JobEnds(t)
  PROVE  /\ UNCHANGED <<initialized, writer, current>>
         /\ pc' = pc \/ pc' = "aborted"
BY DEF TaskStarts, TaskNext, TaskForks, TaskForkFails, AppendLocks, AppendSource, RemoveTests,
   RemoveSource, ClosesAndFinishes, JobWrites, JobEnds, lockVars, mainVars

\* Who comes while the log closes can open pipes, and has to wait for all else.
LEMMA TasksAtClosing ==
  ASSUME IInv, EndInv, writer, NEW t \in Tasks,
         TaskStarts(t) \/ TaskNext(t) \/ JobWrites(t) \/ JobEnds(t)
  PROVE  ClosingInv' /\ UNCHANGED pc
<1>1. /\ TypeOK /\ initialized /\ pc \in {"sweep", "swept"} /\ readers = {} /\ ~MutexFree
      /\ SourcesOpen /\ \A i \in DOMAIN sources : sources[i].state = "MOTHBALLED"
  BY DEF IInv, EndInv, ClosingInv, MutexFree
<1>2. UNCHANGED <<sources, readers, pc>>
  BY <1>1 DEF TaskStarts, TaskNext, TaskForks, TaskForkFails, AppendLocks, AppendSource,
     RemoveTests, RemoveSource, JobWrites, JobEnds, listVars, lockVars, mainVars
<1>3. \A f \in Fds : owner[f] # NoTask => owner'[f] # NoTask
  <2>1. CASE TaskForks(t) \/ TaskForkFails(t)
    BY <1>1, <2>1, Numbers DEF TaskForks, TaskForkFails, Opens, TypeOK
  <2>2. CASE ~(TaskForks(t) \/ TaskForkFails(t))
    BY <1>1, <2>2 DEF TaskStarts, TaskNext, AppendLocks, AppendSource, RemoveTests, RemoveSource,
       JobWrites, JobEnds, pipeVars
  <2>. QED
    BY <2>1, <2>2
<1>4. SourcesOpen'
  BY <1>1, <1>2, <1>3, SourcesTyped DEF SourcesOpen
<1>. QED
  BY <1>1, <1>2, <1>4, TasksLeaveLock DEF EndInv, ClosingInv

\* Who comes later finds no source, and appends none.
LEMMA TasksAfterClose ==
  ASSUME EndInv, ~initialized, NEW t \in Tasks,
         TaskStarts(t) \/ TaskNext(t) \/ JobWrites(t) \/ JobEnds(t)
  PROVE  ClosedInv'
<1>1. /\ ~writer /\ pc \in {"exiting", "exited", "aborted"}
      /\ readers = {} /\ sources = <<>> /\ task[t] # "appending"
  BY DEF EndInv, ClosedInv
<1>2. HasId(t) = {}
  BY <1>1 DEF HasId
<1>3. UNCHANGED <<sources, readers>>
  BY <1>1, <1>2 DEF TaskStarts, TaskNext, TaskForks, TaskForkFails, AppendLocks, AppendSource,
     RemoveTests, RemoveSource, JobWrites, JobEnds, listVars, lockVars
<1>. QED
  BY <1>1, <1>3, TasksLeaveLock DEF ClosedInv

LEMMA TasksKeepEndInv ==
  ASSUME ~Hangups, IInv, EndInv, IdsUnique, NEW t \in Tasks,
         TaskStarts(t) \/ TaskNext(t) \/ JobWrites(t) \/ JobEnds(t)
  PROVE  EndInv'
<1>1. \A u \in Tasks : task'[u] = "appending" => u \in readers'
  BY ReadersAppend DEF EndInv, Next
<1>2. pc' \notin {"reinitialize", "reopen"}
  BY TasksLeaveLock DEF EndInv
<1>3. CASE initialized /\ ~writer
  <2>1. ~Deinitialize
    BY TasksLeaveLock, <1>3 DEF Deinitialize
  <2>2. ListInv'
    BY <1>3, <2>1, NextPreservesListInv DEF EndInv, Next
  <2>. QED
    BY <1>1, <1>2, <1>3, <2>2, TasksLeaveLock DEF EndInv, ClosingInv, ClosedInv
<1>4. CASE writer
  <2>1. initialized
    BY <1>4 DEF EndInv, ClosingInv
  <2>. QED
    BY <1>1, <1>2, <1>4, <2>1, TasksAtClosing, TasksLeaveLock DEF EndInv, ClosedInv
<1>5. CASE ~initialized
  BY <1>1, <1>2, <1>5, TasksAfterClose, TasksLeaveLock DEF EndInv, ClosingInv, ClosedInv
<1>. QED
  BY <1>3, <1>4, <1>5

\* All sources are scheduled to be removed, the tasks at work or not.
LEMMA DeinitializeCloses ==
  ASSUME IInv, EndInv, Deinitialize
  PROVE  /\ pc' = "sweep" /\ initialized' /\ writer' /\ ClosingInv'
<1>1. /\ TypeOK /\ initialized /\ ~writer /\ ListInv /\ pc' = "sweep" /\ writer' = TRUE
      /\ current' = 1 /\ readers = {} /\ UNCHANGED <<initialized, readers, pipeVars>>
  BY DEF IInv, EndInv, ClosingInv, ClosedInv, Deinitialize, At, BeginsSweep, MayWrite
<1>2. sources' = [i \in DOMAIN sources |-> [sources[i] EXCEPT !.state = "MOTHBALLED"]]
  BY <1>1 DEF Deinitialize
<1>3. /\ DOMAIN sources' = DOMAIN sources
      /\ \A i \in DOMAIN sources :
           sources'[i] = [id |-> sources[i].id, fd |-> sources[i].fd, state |-> "MOTHBALLED"]
  BY <1>1, <1>2, DeinitializedSources
<1>4. \A i \in DOMAIN sources : sources'[i].fd = sources[i].fd /\ sources'[i].state = "MOTHBALLED"
  BY <1>3
<1>5. SourcesOpen'
  BY <1>1, <1>3, <1>4 DEF ListInv, SourcesOpen, pipeVars
<1>. QED
  BY <1>1, <1>3, <1>4, <1>5 DEF ClosingInv

\* The last sweep closes one source after the other, and stays at the head of the list.
LEMMA MainAtClosing ==
  ASSUME IInv, EndInv, MainNext, writer
  PROVE  /\ pc' \notin {"reinitialize", "reopen"}
         /\ ClosingInv' /\ ClosedInv' /\ (initialized' => writer')
<1>1. /\ TypeOK /\ initialized /\ pc \in {"sweep", "swept"} /\ current = 1 /\ readers = {}
      /\ SourcesOpen /\ \A i \in DOMAIN sources : sources[i].state = "MOTHBALLED"
  BY DEF IInv, EndInv, ClosingInv
<1>2. CASE SweepReads
  <2>1. UNCHANGED <<sources, owner, initialized, writer, readers, current>> /\ pc' = "swept"
    BY <1>2 DEF SweepReads, listVars, lockVars
  <2>. QED
    BY <1>1, <2>1 DEF ClosingInv, ClosedInv, SourcesOpen
<1>3. CASE SweepCloses
  <2>1. UNCHANGED <<initialized, writer, readers>> /\ pc' = "sweep" /\ pc = "swept"
    BY <1>3 DEF SweepCloses, lockVars, At
  <2>2. UNCHANGED current
    BY <1>1, <1>3, <2>1 DEF SweepCloses, IInv, SweepInv
  <2>. QED
    BY <1>1, <1>3, <2>1, <2>2, SweepKeepsOpen DEF ClosingInv, ClosedInv
<1>4. CASE SweepEnds
  <2>1. /\ ~initialized' /\ ~writer' /\ pc' = "exiting" /\ UNCHANGED <<sources, readers>>
        /\ 1 > Len(sources)
    BY <1>1, <1>4 DEF SweepEnds, listVars
  <2>2. sources = <<>>
    BY <1>1, <2>1, SourcesTyped, EmptySeq
  <2>. QED
    BY <1>1, <2>1, <2>2 DEF ClosingInv, ClosedInv
<1>. QED
  BY <1>1, <1>2, <1>3, <1>4 DEF MainNext, ScanEnds, PollSignals, ReinitializeCloses,
     ReinitializeOpens, WriteBuffers, Deinitialize, MainReturns, At

LEMMA MainKeepsEndInv ==
  ASSUME ~Hangups, IInv, EndInv, IdsUnique, MainNext
  PROVE  EndInv'
<1>1. \A u \in Tasks : task'[u] = "appending" => u \in readers'
  BY ReadersAppend DEF EndInv, Next
<1>2. CASE Deinitialize
  BY <1>1, <1>2, DeinitializeCloses DEF EndInv, ClosedInv
<1>3. CASE initialized /\ ~writer /\ ~Deinitialize
  <2>1. ListInv'
    BY <1>3, NextPreservesListInv DEF EndInv, Next
  <2>2. UNCHANGED <<initialized, writer>>
    BY <1>3 DEF MainNext, ScanEnds, PollSignals, ReinitializeCloses, ReinitializeOpens,
       WriteBuffers, SweepReads, SweepCloses, SweepEnds, MainReturns, At, EndInv, lockVars
  <2>. QED
    BY <1>1, <1>3, <2>1, <2>2 DEF EndInv, ClosingInv, ClosedInv, ListInv, ClosesLast
<1>4. CASE writer /\ ~Deinitialize
  BY <1>1, <1>4, MainAtClosing DEF EndInv
<1>5. CASE ~initialized
  <2>1. /\ pc' = "exited" /\ UNCHANGED <<initialized, writer, readers, sources>>
    BY <1>5 DEF EndInv, ClosedInv, MainNext, ScanEnds, PollSignals, ReinitializeCloses,
       ReinitializeOpens, WriteBuffers, SweepReads, SweepCloses, SweepEnds, Deinitialize,
       MainReturns, At, Ended, listVars, lockVars
  <2>. QED
    BY <1>1, <1>5, <2>1 DEF EndInv, ClosingInv, ClosedInv
<1>. QED
  BY <1>2, <1>3, <1>4, <1>5

\* However the end comes, without SIGHUP: up to the close the log is as in an undisturbed
\* process, and after it there is none.
THEOREM EndInvariance ==
  ASSUME ~Hangups
  PROVE  Spec /\ []IdsUnique => []EndInv
<1>1. Init => EndInv
  BY InitEstablishesListInv DEF Init, EndInv, ClosingInv, ClosedInv
<1>2. IInv /\ EndInv /\ IdsUnique /\ [Next]_vars => EndInv'
  <2>. SUFFICES ASSUME IInv, EndInv, IdsUnique, [Next]_vars PROVE EndInv'
    OBVIOUS
  <2>1. CASE Finished \/ UNCHANGED vars
    BY <2>1 DEF EndInv, ClosingInv, ClosedInv, ListInv, ClosesLast, PipesOwned, SourcesOpen,
       SourcesListed, IsListed, RemovedIsLeft, SweptIsRead, Finished,
       vars, listVars, lockVars, pipeVars, taskVars, mainVars
  <2>. QED
    BY <2>1, MainKeepsEndInv, TasksKeepEndInv DEF Next
<1>. QED
  BY <1>1, <1>2, Invariance, PTL DEF Spec

\* The pipes of every source in the list are open and its own (subprocslog.c:262-283),
\* also when the end is forced: no sweep, not even the last one, reads or closes pipes that were
\* closed behind its back.
THEOREM SourcesStayOpen ==
  ASSUME ~Hangups
  PROVE  Spec /\ []IdsUnique => []SourcesOpen
<1>1. EndInv => SourcesOpen
  BY DEF EndInv, ListInv, ClosingInv, ClosedInv, SourcesOpen
<1>. QED
  BY <1>1, EndInvariance, PTL

-----------------------------------------------------------------------------
(* What becomes of the output *)

\* Whatever closes pipes, there is nothing to read in them: only a sweep does, and it
\* has just read them.
LEMMA StepLosesNothing ==
  ASSUME ~Hangups, ~Forced, IInv, ListInv, IdsUnique, [Next]_vars,
         NEW f \in Fds, owner[f] # NoTask, owner'[f] = NoTask
  PROVE  f \notin unread
<1>1. owner \in [Fds -> Tasks \union {NoTask}] /\ owner' # owner
  BY DEF IInv, TypeOK
<1>2. CASE MainNext
  <2>1. SweepCloses
    BY <1>1, <1>2 DEF MainNext, ScanEnds, PollSignals, ReinitializeCloses, ReinitializeOpens,
       WriteBuffers, SweepReads, SweepEnds, Deinitialize, MainReturns, pipeVars
  <2>2. pc = "swept" /\ sources[current].state = "MOTHBALLED" /\ Closes(sources[current].fd)
    BY <1>1, <2>1 DEF SweepCloses, At, pipeVars
  <2>3. f = sources[current].fd
    BY <1>1, <2>2 DEF Closes
  <2>. QED
    BY <2>2, <2>3 DEF ListInv, SweptIsRead
<1>3. ASSUME NEW t \in Tasks, TaskStarts(t) \/ TaskNext(t) \/ JobWrites(t) \/ JobEnds(t)
      PROVE  FALSE
  <2>1. CASE TaskForks(t) \/ TaskForkFails(t)
    BY <1>1, <2>1, Numbers DEF TaskForks, TaskForkFails, Opens
  <2>2. CASE AppendLocks(t)
    <3>1. initialized
      BY <2>2, OneTask DEF AppendLocks
    <3>. QED
      BY <1>1, <2>2, <3>1 DEF AppendLocks, pipeVars
  <2>3. CASE RemoveTests(t)
    <3>1. /\ initialized /\ IsListed(t) /\ TypeOK
      BY <2>3, OneTask DEF RemoveTests, ListInv, SourcesListed
    <3>2. logger_id[t] # RV_FAIL
      BY <3>1, SourcesTyped, Numbers DEF IsListed
    <3>. QED
      BY <1>1, <2>3, <3>1, <3>2 DEF RemoveTests, pipeVars
  <2>4. CASE RemoveSource(t)
    BY <1>1, <2>4, RemovedSource DEF pipeVars
  <2>5. CASE TaskStarts(t) \/ AppendSource(t) \/ JobWrites(t) \/ JobEnds(t)
    BY <1>1, <2>5 DEF TaskStarts, AppendSource, JobWrites, JobEnds, pipeVars
  <2>. QED
    BY <1>3, <2>1, <2>2, <2>3, <2>4, <2>5 DEF TaskNext
<1>4. CASE Finished \/ UNCHANGED vars
  BY <1>1, <1>4 DEF Finished, vars, pipeVars
<1>. QED
  BY <1>2, <1>3, <1>4 DEF Next

\* What a job has written is in the log before its pipes are closed
\* (subprocslog.c:262-283 and 295-338).
THEOREM LosesNoOutput ==
  ASSUME ~Hangups, ~Forced
  PROVE  Spec /\ []IdsUnique => NoOutputLost
<1>1. IInv /\ ListInv /\ IdsUnique /\ [Next]_vars =>
        [\A f \in Fds : owner[f] # NoTask /\ owner'[f] = NoTask => f \notin unread]_vars
  BY StepLosesNothing
<1>. QED
  BY <1>1, Invariance, ListInvariance, PTL DEF Spec, NoOutputLost

\* Whatever ends a task that has appended a source, it schedules that source to be
\* removed.
LEMMA StepRemovesOwnSource ==
  ASSUME ~Hangups, ~Forced, IInv, ListInv, IdsUnique, [Next]_vars,
         NEW t \in Tasks, task[t] \in {"waiting", "removing"}, task'[t] = "none"
  PROVE  \E i \in DOMAIN sources' : sources'[i].fd = pipe[t] /\ sources'[i].state = "MOTHBALLED"
<1>1. TypeOK /\ task' # task
  BY DEF IInv
<1>2. CASE MainNext \/ Finished \/ UNCHANGED vars
  BY <1>1, <1>2 DEF MainNext, ScanEnds, PollSignals, ReinitializeCloses, ReinitializeOpens,
     WriteBuffers, SweepReads, SweepCloses, SweepEnds, Deinitialize, MainReturns, Finished,
     vars, taskVars
<1>3. ASSUME NEW u \in Tasks, TaskStarts(u) \/ TaskNext(u) \/ JobWrites(u) \/ JobEnds(u)
      PROVE  RemoveSource(t)
  <2>1. CASE TaskStarts(u) \/ TaskForks(u) \/ TaskForkFails(u) \/ AppendSource(u)
    BY <1>1, <2>1 DEF TaskStarts, TaskForks, TaskForkFails, AppendSource, TypeOK
  <2>2. CASE AppendLocks(u)
    BY <1>1, <2>2 DEF AppendLocks, Goes, taskVars, TypeOK
  <2>3. CASE RemoveTests(u)
    <3>1. task'[u] # "none" /\ UNCHANGED listVars
      BY <2>3, RemoveTestsListed DEF RemoveTests
    <3>2. u # t
      BY <3>1
    <3>. QED
      BY <1>1, <2>3, <3>2
      DEF RemoveTests, Goes, Finishes, ClosesAndFinishes, taskVars, TypeOK
  <2>4. CASE RemoveSource(u)
    <3>1. task' = [task EXCEPT ![u] = "none"]
      BY <2>4, RemovedSource DEF Finishes
    <3>. QED
      BY <1>1, <2>4, <3>1 DEF TypeOK
  <2>5. CASE JobWrites(u) \/ JobEnds(u)
    BY <1>1, <2>5 DEF JobWrites, JobEnds, taskVars
  <2>. QED
    BY <1>3, <2>1, <2>2, <2>3, <2>4, <2>5 DEF TaskNext
<1>4. CASE RemoveSource(t)
  <2>1. PICK i \in DOMAIN sources :
          /\ sources[i] = [id |-> logger_id[t], fd |-> pipe[t], state |-> "ACTIVE"]
          /\ sources' = [sources EXCEPT ![i].state = "MOTHBALLED"]
    BY <1>4, RemovedSource
  <2>2. /\ DOMAIN sources' = DOMAIN sources
        /\ sources'[i] = [id |-> sources[i].id, fd |-> sources[i].fd, state |-> "MOTHBALLED"]
    BY <1>1, <2>1, MothballedSources
  <2>. QED
    BY <2>1, <2>2
<1>. QED
  BY <1>2, <1>3, <1>4 DEF Next

\* The source that a task removes is the one it has appended (subprocslog.h:72-75).
THEOREM RemovesItsOwn ==
  ASSUME ~Hangups, ~Forced
  PROVE  Spec /\ []IdsUnique => RemovesOwnSource
<1>1. IInv /\ ListInv /\ IdsUnique /\ [Next]_vars =>
        [\A t \in Tasks :
           task[t] \in {"waiting", "removing"} /\ logger_id[t] # RV_FAIL /\ task'[t] = "none" =>
             \E i \in DOMAIN sources' : sources'[i].fd = pipe[t] /\ sources'[i].state = "MOTHBALLED"]_vars
  BY StepRemovesOwnSource
<1>. QED
  BY <1>1, Invariance, ListInvariance, PTL DEF Spec, RemovesOwnSource

-----------------------------------------------------------------------------
(* The log implements PipeLifecycle *)

OpenPipes == {f \in Fds : owner[f] # NoTask}

\* A pipe that is open is in no more than one part of the list.
LEMMA PipesTyped ==
  ASSUME TypeOK, SourcesOpen
  PROVE  /\ PipesIn("ACTIVE") \subseteq OpenPipes /\ PipesIn("MOTHBALLED") \subseteq OpenPipes
         /\ PipesIn("ACTIVE") \cap PipesIn("MOTHBALLED") = {}
BY SourcesTyped DEF SourcesOpen, PipesIn, OpenPipes

\* A step that opens pipes, of a job or of none.
LEMMA StepOpens ==
  ASSUME IInv, ListInv, NEW t \in Tasks, TaskForks(t) \/ TaskForkFails(t)
  PROVE  Pipes!Next
<1>1. PICK f \in Fds : Opens(f, t)
  BY DEF TaskForks, TaskForkFails
<1>2. UNCHANGED <<sources, unread>>
  BY DEF TaskForks, TaskForkFails, listVars
<1>3. f \notin OpenPipes /\ OpenPipes' = OpenPipes \cup {f}
  BY <1>1, Numbers DEF IInv, TypeOK, Opens, OpenPipes
<1>4. Pipes!Open(f)
  BY <1>2, <1>3 DEF Pipes!Open, PipesIn, OpenPipes
<1>. QED
  BY <1>4 DEF Pipes!Next

LEMMA StepWrites ==
  ASSUME IInv, ListInv, NEW t \in Tasks, JobWrites(t)
  PROVE  Pipes!Next
<1>1. /\ pipe[t] \in Fds /\ owner[pipe[t]] = t /\ t # NoTask
      /\ UNCHANGED <<sources, owner>> /\ unread' = unread \cup {pipe[t]}
  BY OneTask DEF JobWrites, listVars, TasksInv, HasPipe
<1>2. pipe[t] \in OpenPipes \ PipesIn("MOTHBALLED")
  BY <1>1 DEF OpenPipes, PipesIn, ListInv, RemovedIsLeft
<1>3. Pipes!Write(pipe[t])
  BY <1>1, <1>2 DEF Pipes!Write, PipesIn, OpenPipes
<1>. QED
  BY <1>1, <1>3 DEF Pipes!Next

LEMMA StepEnters ==
  ASSUME IInv, ListInv, NEW t \in Tasks, AppendSource(t)
  PROVE  Pipes!Next
<1>1. /\ TypeInv /\ TypeOK /\ task[t] = "appending" /\ UNCHANGED <<owner, unread>>
      /\ pipe[t] \in OpenPipes
  BY OneTask DEF AppendSource, pipeVars, HasPipe, OpenPipes
<1>2. pipe[t] \notin PipesIn("ACTIVE") \cup PipesIn("MOTHBALLED")
  BY <1>1 DEF ListInv, SourcesListed, PipesIn
<1>3. /\ DOMAIN sources = 1 .. Len(sources) /\ Len(sources) \in Nat
      /\ DOMAIN sources' = 1 .. Len(sources) + 1
      /\ sources'[1] = [id |-> NewId, fd |-> pipe[t], state |-> "ACTIVE"]
      /\ \A i \in 1 .. Len(sources) : sources'[i + 1] = sources[i]
  BY <1>1, AppendedSources, SourcesTyped
<1>4. /\ \A i \in DOMAIN sources : i + 1 \in DOMAIN sources' /\ sources'[i + 1] = sources[i]
      /\ \A j \in DOMAIN sources' : j = 1 \/ \E i \in DOMAIN sources : j = i + 1
      /\ 1 \in DOMAIN sources'
  <2>1. \A j \in DOMAIN sources' : j # 1 => j - 1 \in DOMAIN sources /\ j = (j - 1) + 1
    BY <1>3
  <2>. QED
    BY <1>3, <2>1
<1>5. /\ PipesIn("ACTIVE")' = PipesIn("ACTIVE") \cup {pipe[t]}
      /\ PipesIn("MOTHBALLED")' = PipesIn("MOTHBALLED")
  BY <1>3, <1>4 DEF PipesIn
<1>6. Pipes!Enter(pipe[t])
  BY <1>1, <1>2, <1>5 DEF Pipes!Enter, OpenPipes
<1>. QED
  BY <1>1, <1>6 DEF Pipes!Next, OpenPipes

\* The task, or the main thread at the end, gives up pipes that are in the list.
LEMMA StepLeaves ==
  ASSUME IInv, ListInv, IdsUnique, (\E t \in Tasks : RemoveSource(t)) \/ Deinitialize
  PROVE  Pipes!Next
<1>1. SUFFICES \E fs \in SUBSET PipesIn("ACTIVE") : Pipes!Leave(fs)
  BY DEF Pipes!Next
<1>2. ASSUME NEW t \in Tasks, RemoveSource(t)
      PROVE  \E fs \in SUBSET PipesIn("ACTIVE") : Pipes!Leave(fs)
  <2>1. PICK k \in DOMAIN sources :
          /\ sources[k] = [id |-> logger_id[t], fd |-> pipe[t], state |-> "ACTIVE"]
          /\ sources' = [sources EXCEPT ![k].state = "MOTHBALLED"]
          /\ UNCHANGED <<pipeVars, mainVars>>
    BY <1>2, RemovedSource
  <2>2. /\ DOMAIN sources' = DOMAIN sources
        /\ sources'[k] = [id |-> sources[k].id, fd |-> sources[k].fd, state |-> "MOTHBALLED"]
        /\ \A j \in DOMAIN sources : j # k => sources'[j] = sources[j]
    BY <2>1, MothballedSources DEF IInv
  <2>3. \A j \in DOMAIN sources : sources[j].fd = pipe[t] => j = k
    BY <2>1 DEF ListInv, SourcesOpen
  <2>4. /\ pipe[t] \in PipesIn("ACTIVE")
        /\ PipesIn("ACTIVE")' = PipesIn("ACTIVE") \ {pipe[t]}
        /\ PipesIn("MOTHBALLED")' = PipesIn("MOTHBALLED") \cup {pipe[t]}
    BY <2>1, <2>2, <2>3 DEF PipesIn
  <2>5. Pipes!Leave({pipe[t]})
    BY <2>1, <2>4 DEF Pipes!Leave, pipeVars
  <2>. QED
    BY <2>4, <2>5
<1>3. CASE Deinitialize
  <2>1. initialized /\ UNCHANGED pipeVars
    BY <1>3 DEF Deinitialize, At, ListInv, ClosesLast
  <2>2. sources' = [i \in DOMAIN sources |-> [sources[i] EXCEPT !.state = "MOTHBALLED"]]
    BY <1>3, <2>1 DEF Deinitialize
  <2>3. /\ DOMAIN sources' = DOMAIN sources
        /\ \A i \in DOMAIN sources :
             sources'[i] = [id |-> sources[i].id, fd |-> sources[i].fd, state |-> "MOTHBALLED"]
    BY <2>2, DeinitializedSources DEF IInv
  <2>4. /\ PipesIn("ACTIVE")' = {}
        /\ PipesIn("MOTHBALLED")' = PipesIn("MOTHBALLED") \cup PipesIn("ACTIVE")
    BY <2>3, SourcesTyped DEF PipesIn, IInv
  <2>5. Pipes!Leave(PipesIn("ACTIVE"))
    BY <2>1, <2>4 DEF Pipes!Leave, pipeVars
  <2>. QED
    BY <2>5
<1>. QED
  BY <1>2, <1>3

LEMMA StepReads ==
  ASSUME IInv, ListInv, SweepReads
  PROVE  Pipes!Next
<1>. DEFINE f == sources[current].fd
<1>1. current \in DOMAIN sources
  BY SourcesTyped DEF IInv, SweepInv, SweepReads, At, TypeOK
<1>2. f \in Fds /\ f \in PipesIn("ACTIVE") \cup PipesIn("MOTHBALLED")
  BY <1>1, SourcesTyped DEF IInv, PipesIn
<1>3. UNCHANGED <<sources, owner>> /\ unread' = unread \ {f}
  BY DEF SweepReads, listVars
<1>4. Pipes!Read(f)
  BY <1>2, <1>3 DEF Pipes!Read, PipesIn
<1>. QED
  BY <1>2, <1>4 DEF Pipes!Next

\* Nothing was written since the last read.
LEMMA StepCloses ==
  ASSUME IInv, ListInv, SweepCloses, sources[current].state = "MOTHBALLED"
  PROVE  Pipes!Next
<1>. DEFINE f == sources[current].fd
<1>1. /\ TypeInv /\ TypeOK /\ pc = "swept" /\ current \in DOMAIN sources
      /\ owner' = [owner EXCEPT ![f] = NoTask] /\ unread' = unread \ {f}
  BY DEF IInv, TypeInv, SweepInv, SweepCloses, At, Closes
<1>2. /\ DOMAIN sources = 1 .. Len(sources) /\ Len(sources) \in Nat /\ f \in Fds
      /\ DOMAIN sources' = 1 .. Len(sources) - 1
      /\ \A j \in DOMAIN sources' : sources'[j] = IF j < current THEN sources[j] ELSE sources[j + 1]
  BY <1>1, SweptSources, SourcesTyped
<1>3. \A i \in DOMAIN sources : sources[i].fd = f => i = current
  BY <1>1 DEF ListInv, SourcesOpen
<1>4. \A j \in DOMAIN sources' : \E i \in DOMAIN sources : i # current /\ sources'[j] = sources[i]
  <2>. SUFFICES ASSUME NEW j \in DOMAIN sources'
                PROVE  \E i \in DOMAIN sources : i # current /\ sources'[j] = sources[i]
    OBVIOUS
  <2>1. CASE j < current
    BY <1>1, <1>2, <2>1
  <2>2. CASE ~(j < current)
    <3>1. j + 1 \in DOMAIN sources /\ j + 1 # current
      BY <1>1, <1>2, <2>2
    <3>. QED
      BY <1>2, <2>2, <3>1
  <2>. QED
    BY <2>1, <2>2
<1>5. \A i \in DOMAIN sources : i # current => \E j \in DOMAIN sources' : sources'[j] = sources[i]
  <2>. SUFFICES ASSUME NEW i \in DOMAIN sources, i # current
                PROVE  \E j \in DOMAIN sources' : sources'[j] = sources[i]
    OBVIOUS
  <2>1. CASE i < current
    BY <1>1, <1>2, <2>1
  <2>2. CASE i > current
    <3>1. i - 1 \in DOMAIN sources' /\ ~(i - 1 < current) /\ (i - 1) + 1 = i
      BY <1>1, <1>2, <2>2
    <3>. QED
      BY <1>2, <3>1
  <2>. QED
    BY <1>1, <1>2, <2>1, <2>2
<1>6. /\ f \in PipesIn("MOTHBALLED")
      /\ PipesIn("ACTIVE")' = PipesIn("ACTIVE")
      /\ PipesIn("MOTHBALLED")' = PipesIn("MOTHBALLED") \ {f}
  <2>. HIDE DEF f
  <2>1. f = sources[current].fd
    BY DEF f
  <2>. QED
    BY <1>1, <1>3, <1>4, <1>5, <2>1 DEF PipesIn
<1>7. f \notin unread
  BY <1>1 DEF ListInv, SweptIsRead
<1>8. OpenPipes' = OpenPipes \ {f}
  BY <1>1 DEF OpenPipes, TypeOK
<1>9. PICK g \in Fds : g = f
  BY <1>2
<1>10. Pipes!Close(g)
  BY <1>1, <1>6, <1>7, <1>8, <1>9 DEF Pipes!Close, OpenPipes
<1>. QED
  BY <1>10 DEF Pipes!Next

\* Every step of the log is a step of PipeLifecycle, or changes nothing there.
LEMMA StepImplementsPipes ==
  ASSUME ~Hangups, ~Forced, IInv, ListInv, IdsUnique, [Next]_vars
  PROVE  [Pipes!Next]_Pipes!vars
<1>1. ASSUME UNCHANGED <<sources, owner, unread>>
      PROVE  UNCHANGED Pipes!vars
  BY <1>1 DEF Pipes!vars, PipesIn
<1>2. CASE MainNext
  <2>1. CASE ScanEnds \/ PollSignals \/ ReinitializeCloses \/ ReinitializeOpens
               \/ WriteBuffers \/ SweepEnds \/ MainReturns
    BY <1>1, <2>1 DEF ScanEnds, PollSignals, ReinitializeCloses, ReinitializeOpens,
       WriteBuffers, SweepEnds, MainReturns, listVars, pipeVars
  <2>2. CASE SweepCloses
    BY <1>1, <2>2, StepCloses DEF SweepCloses, pipeVars
  <2>. QED
    BY <1>2, <2>1, <2>2, StepReads, StepLeaves DEF MainNext
<1>3. ASSUME NEW t \in Tasks, TaskStarts(t) \/ TaskNext(t) \/ JobWrites(t) \/ JobEnds(t)
      PROVE  [Pipes!Next]_Pipes!vars
  <2>1. CASE TaskStarts(t) \/ JobEnds(t)
    BY <1>1, <2>1 DEF TaskStarts, JobEnds, listVars, pipeVars
  <2>2. CASE AppendLocks(t)
    <3>1. initialized
      BY <2>2, OneTask DEF AppendLocks
    <3>. QED
      BY <1>1, <2>2, <3>1 DEF AppendLocks, listVars, pipeVars
  <2>3. CASE RemoveTests(t)
    <3>1. initialized /\ IsListed(t) /\ TypeOK
      BY <2>3, OneTask DEF RemoveTests, ListInv, SourcesListed
    <3>2. logger_id[t] # RV_FAIL
      BY <3>1, SourcesTyped, Numbers DEF IsListed
    <3>. QED
      BY <1>1, <2>3, <3>1, <3>2 DEF RemoveTests, listVars, pipeVars
  <2>. QED
    BY <1>3, <2>1, <2>2, <2>3, StepOpens, StepWrites, StepEnters, StepLeaves DEF TaskNext
<1>4. CASE Finished \/ UNCHANGED vars
  BY <1>1, <1>4 DEF Finished, vars, listVars, pipeVars
<1>. QED
  BY <1>2, <1>3, <1>4 DEF Next

\* The undisturbed log implements PipeLifecycle: its list, its ids and its locks keep
\* what it promises about the pipes.
THEOREM Implements ==
  ASSUME ~Hangups, ~Forced
  PROVE  Spec /\ []IdsUnique => ImplementsPipes
<1>1. Init => Pipes!Init
  BY DEF Init, Pipes!Init, PipesIn
<1>2. IInv /\ ListInv /\ IdsUnique /\ [Next]_vars => [Pipes!Next]_Pipes!vars
  BY StepImplementsPipes
<1>. QED
  BY <1>1, <1>2, Invariance, ListInvariance, PTL DEF Spec, ImplementsPipes, Pipes!Spec

-----------------------------------------------------------------------------
(* The ids of as many jobs as there are ids are all different *)

LEMMA AppendersFinite ==
  /\ IsFiniteSet(Appenders) /\ Cardinality(Appenders) \in Nat
  /\ IsFiniteSet(Appenders') /\ Cardinality(Appenders') \in Nat
<1>1. IsFiniteSet(Tasks) /\ Appenders \in SUBSET Tasks /\ Appenders' \in SUBSET Tasks
  BY LogAssumption DEF Appenders
<1>. QED
  BY <1>1, FS_Subset, FS_CardinalityType

\* A step that appends no source and starts no task.
LEMMA FewerAppenders ==
  ASSUME TypeOK, IdInv, UNCHANGED <<source_count, jobs>>, Appenders' \subseteq Appenders,
         DOMAIN sources' = DOMAIN sources,
         \A i \in DOMAIN sources : sources'[i].id = sources[i].id
  PROVE  IdInv'
<1>1. Cardinality(Appenders') <= Cardinality(Appenders)
  BY AppendersFinite, FS_Subset
<1>2. source_count \in Nat /\ jobs \in Nat
  BY Numbers DEF TypeOK
<1>. QED
  BY <1>1, <1>2, AppendersFinite DEF IdInv, IdsUnique

LEMMA TaskStartsIds ==
  ASSUME TypeOK, IdInv, NEW t \in Tasks, TaskStarts(t)
  PROVE  IdInv'
<1>1. /\ task[t] = "none" /\ jobs' = jobs + 1 /\ task' = [task EXCEPT ![t] = "starting"]
      /\ UNCHANGED <<sources, source_count>>
  BY DEF TaskStarts, listVars
<1>2. Appenders' = Appenders \cup {t} /\ t \notin Appenders
  BY <1>1 DEF TypeOK, Appenders
<1>3. Cardinality(Appenders') = Cardinality(Appenders) + 1
  BY <1>2, AppendersFinite, FS_AddElement
<1>4. source_count \in Nat /\ jobs \in Nat
  BY Numbers DEF TypeOK
<1>. QED
  BY <1>1, <1>3, <1>4, AppendersFinite DEF IdInv, IdsUnique

\* A new id is greater than all that were given before.
LEMMA AppendSourceIds ==
  ASSUME TypeInv, IdInv, MaxJobs <= MaxSourceId + 1, NEW t \in Tasks, AppendSource(t)
  PROVE  IdInv'
<1>1. /\ TypeOK /\ task[t] = "appending" /\ UNCHANGED jobs
      /\ task' = [task EXCEPT ![t] = "waiting"] /\ source_count' = NewId + 1
  BY DEF TypeInv, AppendSource
<1>2. Appenders' = Appenders \ {t} /\ t \in Appenders
  BY <1>1 DEF TypeOK, Appenders
<1>3. Cardinality(Appenders') = Cardinality(Appenders) - 1
  BY <1>2, AppendersFinite, FS_RemoveElement
<1>4. source_count \in Nat /\ jobs \in 0 .. MaxJobs /\ MaxSourceId \in Nat /\ MaxJobs \in Nat
  BY <1>1, Numbers DEF TypeOK
<1>5. NewId = source_count /\ source_count' = source_count + 1
  BY <1>1, <1>3, <1>4, AppendersFinite DEF IdInv, NewId
<1>6. /\ DOMAIN sources' = 1 .. Len(sources) + 1 /\ DOMAIN sources = 1 .. Len(sources)
      /\ Len(sources) \in Nat
      /\ sources'[1].id = source_count
      /\ \A i \in 1 .. Len(sources) : sources'[i + 1] = sources[i]
      /\ \A i \in DOMAIN sources : sources[i].id \in Nat
  <2>1. /\ DOMAIN sources = 1 .. Len(sources) /\ Len(sources) \in Nat
        /\ \A i \in DOMAIN sources : sources[i].id \in Nat
    BY <1>1, <1>4, SourcesTyped
  <2>2. /\ DOMAIN sources' = 1 .. Len(sources) + 1
        /\ sources'[1] = [id |-> NewId, fd |-> pipe[t], state |-> "ACTIVE"]
        /\ \A i \in 1 .. Len(sources) : sources'[i + 1] = sources[i]
    BY AppendedSources
  <2>. QED
    BY <1>5, <2>1, <2>2
<1>7. \A j \in DOMAIN sources' : j # 1 =>
        \E i \in DOMAIN sources : j = i + 1 /\ sources'[j] = sources[i]
  <2>. SUFFICES ASSUME NEW j \in DOMAIN sources', j # 1
                PROVE  \E i \in DOMAIN sources : j = i + 1 /\ sources'[j] = sources[i]
    OBVIOUS
  <2>1. j - 1 \in DOMAIN sources /\ j = (j - 1) + 1
    BY <1>6
  <2>. QED
    BY <1>6, <2>1
<1>8. \A j \in DOMAIN sources' : sources'[j].id < source_count'
  BY <1>4, <1>5, <1>6, <1>7 DEF IdInv
<1>9. IdsUnique'
  <2>. SUFFICES ASSUME NEW j \in DOMAIN sources', NEW k \in DOMAIN sources',
                       sources'[j].id = sources'[k].id
                PROVE  j = k
    BY DEF IdsUnique
  <2>1. \A l \in DOMAIN sources' : l # 1 => sources'[l].id < source_count
    BY <1>7 DEF IdInv
  <2>2. CASE j = 1 \/ k = 1
    BY <1>4, <1>6, <2>1, <2>2
  <2>3. CASE j # 1 /\ k # 1
    BY <1>7, <2>3 DEF IdInv, IdsUnique
  <2>. QED
    BY <2>2, <2>3
<1>10. source_count' + Cardinality(Appenders') <= jobs'
  BY <1>1, <1>3, <1>4, <1>5, AppendersFinite DEF IdInv
<1>. QED
  BY <1>8, <1>9, <1>10 DEF IdInv

\* A sweep takes sources out of the list and changes no id.
LEMMA SweepClosesIds ==
  ASSUME TypeInv, IdInv, SweepCloses
  PROVE  IdInv'
<1>1. TypeOK /\ UNCHANGED <<source_count, taskVars>> /\ Appenders' = Appenders
  BY DEF TypeInv, SweepCloses, taskVars, Appenders
<1>2. CASE sources[current].state # "MOTHBALLED"
  BY <1>1, <1>2, FewerAppenders DEF SweepCloses, taskVars
<1>3. CASE sources[current].state = "MOTHBALLED"
  <2>. DEFINE from(j) == IF j < current THEN j ELSE j + 1
  <2>1. /\ DOMAIN sources = 1 .. Len(sources) /\ current \in 1 .. Len(sources)
        /\ Len(sources) \in Nat /\ DOMAIN sources' = 1 .. Len(sources) - 1
        /\ \A j \in DOMAIN sources' : sources'[j] = IF j < current THEN sources[j] ELSE sources[j + 1]
    BY <1>1, <1>3, SweptSources, SourcesTyped
  <2>2. /\ \A j \in DOMAIN sources' : from(j) \in DOMAIN sources /\ sources'[j] = sources[from(j)]
        /\ \A j, k \in DOMAIN sources' : from(j) = from(k) => j = k
    BY <2>1
  <2>. HIDE DEF from
  <2>. QED
    BY <1>1, <2>2 DEF IdInv, IdsUnique, taskVars
<1>. QED
  BY <1>2, <1>3

LEMMA TaskIds ==
  ASSUME TypeInv, IdInv, MaxJobs <= MaxSourceId + 1, NEW t \in Tasks,
         TaskStarts(t) \/ TaskNext(t) \/ JobWrites(t) \/ JobEnds(t)
  PROVE  IdInv'
<1>1. TypeOK /\ TasksInv
  BY DEF TypeInv
<1>2. CASE TaskStarts(t)
  BY <1>1, <1>2, TaskStartsIds
<1>3. CASE AppendSource(t)
  BY <1>3, AppendSourceIds
<1>4. CASE TaskForks(t) \/ TaskForkFails(t)
  BY <1>1, <1>4, FewerAppenders DEF TaskForks, TaskForkFails, Appenders, TypeOK, listVars
<1>5. CASE AppendLocks(t)
  BY <1>1, <1>5, FewerAppenders DEF AppendLocks, Goes, Appenders, TypeOK, listVars,
      taskVars
<1>6. CASE RemoveTests(t)
  <2>1. UNCHANGED <<sources, source_count, jobs>>
    BY <1>6 DEF RemoveTests, Goes, Finishes, ClosesAndFinishes, listVars, taskVars
  <2>2. Appenders' \subseteq Appenders
    BY <1>1, <1>6
    DEF RemoveTests, Goes, Finishes, ClosesAndFinishes, taskVars, Appenders, TypeOK
  <2>. QED
    BY <1>1, <2>1, <2>2, FewerAppenders
<1>7. CASE RemoveSource(t)
  <2>1. UNCHANGED <<source_count, jobs>>
    BY <1>7 DEF RemoveSource, Finishes, ClosesAndFinishes, taskVars
  <2>2. Appenders' \subseteq Appenders
    BY <1>1, <1>7 DEF RemoveSource, Finishes, ClosesAndFinishes, taskVars, Appenders, TypeOK
  <2>3. \/ UNCHANGED sources
        \/ \E i \in DOMAIN sources : sources' = [sources EXCEPT ![i].state = "MOTHBALLED"]
    BY <1>7 DEF RemoveSource, HasId
  <2>4. DOMAIN sources' = DOMAIN sources /\ \A j \in DOMAIN sources : sources'[j].id = sources[j].id
    <3>1. ASSUME NEW i \in DOMAIN sources, sources' = [sources EXCEPT ![i].state = "MOTHBALLED"]
          PROVE  /\ DOMAIN sources' = DOMAIN sources
                 /\ \A j \in DOMAIN sources : sources'[j].id = sources[j].id
      <4>1. /\ DOMAIN sources' = DOMAIN sources
            /\ sources'[i] = [id |-> sources[i].id, fd |-> sources[i].fd, state |-> "MOTHBALLED"]
            /\ \A j \in DOMAIN sources : j # i => sources'[j] = sources[j]
        BY <1>1, <3>1, MothballedSources
      <4>. QED
        BY <4>1
    <3>. QED
      BY <2>3, <3>1
  <2>. QED
    BY <1>1, <2>1, <2>2, <2>4, FewerAppenders
<1>8. CASE JobWrites(t) \/ JobEnds(t)
  BY <1>1, <1>8, FewerAppenders DEF JobWrites, JobEnds, Appenders, listVars, taskVars
<1>. QED
  BY <1>2, <1>3, <1>4, <1>5, <1>6, <1>7, <1>8 DEF TaskNext

LEMMA MainIds ==
  ASSUME TypeInv, IdInv, MainNext
  PROVE  IdInv'
<1>1. TypeOK
  BY DEF TypeInv
<1>2. CASE SweepCloses
  BY <1>2, SweepClosesIds
<1>3. CASE Deinitialize
  <2>1. /\ UNCHANGED <<source_count, taskVars>>
        /\ \/ UNCHANGED sources
           \/ sources' = [i \in DOMAIN sources |-> [sources[i] EXCEPT !.state = "MOTHBALLED"]]
    BY <1>3 DEF Deinitialize
  <2>2. DOMAIN sources' = DOMAIN sources /\ \A i \in DOMAIN sources : sources'[i].id = sources[i].id
    BY <1>1, <2>1, DeinitializedSources
  <2>. QED
    BY <1>1, <2>1, <2>2, FewerAppenders DEF Appenders, taskVars
<1>4. CASE UNCHANGED <<listVars, taskVars>>
  BY <1>1, <1>4, FewerAppenders DEF Appenders, listVars, taskVars
<1>5. MainNext => SweepCloses \/ Deinitialize \/ UNCHANGED <<listVars, taskVars>>
  BY DEF MainNext, ScanEnds, PollSignals, ReinitializeCloses, ReinitializeOpens,
     WriteBuffers, SweepReads, SweepEnds, MainReturns
<1>. QED
  BY <1>2, <1>3, <1>4, <1>5

\* Up to the greatest id no id is given twice: whatever happens to the log, no two
\* sources in the list have one.
THEOREM IdInvariance ==
  ASSUME MaxJobs <= MaxSourceId + 1
  PROVE  Spec => []IdInv
<1>1. Init => IdInv
  <2>. SUFFICES ASSUME Init PROVE IdInv
    OBVIOUS
  <2>1. Appenders = {}
    BY DEF Init, Appenders
  <2>2. Cardinality(Appenders) = 0
    BY <2>1, FS_EmptySet
  <2>. QED
    BY <2>2 DEF Init, IdInv, IdsUnique
<1>2. IInv /\ IdInv /\ [Next]_vars => IdInv'
  <2>. SUFFICES ASSUME IInv, IdInv, [Next]_vars PROVE IdInv'
    OBVIOUS
  <2>1. TypeInv /\ TypeOK
    BY DEF IInv, TypeInv
  <2>2. CASE Finished \/ UNCHANGED vars
    BY <2>1, <2>2, FewerAppenders DEF Finished, vars, Appenders, listVars, taskVars
  <2>. QED
    BY <2>1, <2>2, TaskIds, MainIds DEF Next
<1>. QED
  BY <1>1, <1>2, Invariance, PTL DEF Spec

\* Together: what the undisturbed log promises for as many jobs as there are ids.
THEOREM UndisturbedLog ==
  ASSUME ~Hangups, ~Forced, MaxJobs <= MaxSourceId + 1
  PROVE  Spec => []SourcesOpen /\ NoOutputLost /\ RemovesOwnSource /\ ImplementsPipes
<1>1. IdInv => IdsUnique
  BY DEF IdInv
<1>2. Spec => []IdsUnique
  BY <1>1, IdInvariance, PTL
<1>. QED
  BY <1>2, SourcesStayOpen, LosesNoOutput, RemovesItsOwn, Implements, PTL
=============================================================================
