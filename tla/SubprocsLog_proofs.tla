------------------------- MODULE SubprocsLog_proofs -------------------------
(***************************************************************************)
(* What is proved of the log of the jobs' output, for any number of tasks, *)
(* pipes and jobs.                                                         *)
(***************************************************************************)
EXTENDS SubprocsLog, SequenceTheorems, TLAPS

-----------------------------------------------------------------------------
(* The list *)

Source == [id : 0 .. MaxSourceId, fd : Fds, state : {"ACTIVE", "MOTHBALLED"}]

\* A source put before the others moves them all by one.
LEMMA InFrontProperties ==
  ASSUME NEW S, NEW s \in Seq(S), NEW e \in S
  PROVE  /\ <<e>> \o s \in Seq(S)
         /\ Len(<<e>> \o s) = Len(s) + 1
         /\ (<<e>> \o s)[1] = e
         /\ \A i \in 1 .. Len(s) : (<<e>> \o s)[i + 1] = s[i]
<1>1. <<e>> \in Seq(S) /\ Len(<<e>>) = 1 /\ <<e>>[1] = e
  OBVIOUS
<1>. QED
  BY <1>1, ConcatProperties, LenProperties

\* A source taken out moves those behind it by one.
LEMMA RemoveAtProperties ==
  ASSUME NEW S, NEW s \in Seq(S), NEW i \in 1 .. Len(s)
  PROVE  /\ RemoveAt(s, i) \in Seq(S)
         /\ Len(RemoveAt(s, i)) = Len(s) - 1
         /\ \A j \in 1 .. Len(s) - 1 : RemoveAt(s, i)[j] = IF j < i THEN s[j] ELSE s[j + 1]
<1>. DEFINE front == SubSeq(s, 1, i - 1)
            back  == SubSeq(s, i + 1, Len(s))
<1>1. Len(s) \in Nat /\ \A j \in 1 .. Len(s) : s[j] \in S
  BY LenProperties, ElementOfSeq
<1>2. /\ front \in Seq(S) /\ Len(front) = i - 1
      /\ \A j \in 1 .. i - 1 : front[j] = s[j]
  BY <1>1, SubSeqProperties
<1>3. /\ back \in Seq(S) /\ Len(back) = Len(s) - i
      /\ \A j \in 1 .. Len(s) - i : back[j] = s[j + i]
  BY <1>1, SubSeqProperties
<1>. HIDE DEF front, back
<1>. DEFINE both == front \o back
<1>4. /\ both \in Seq(S) /\ Len(both) = Len(s) - 1
      /\ \A j \in 1 .. Len(s) - 1 : both[j] = IF j <= i - 1 THEN front[j] ELSE back[j - (i - 1)]
  <2>1. /\ both \in Seq(S) /\ Len(both) = Len(front) + Len(back)
        /\ \A j \in 1 .. Len(front) + Len(back) :
             both[j] = IF j <= Len(front) THEN front[j] ELSE back[j - Len(front)]
    BY <1>2, <1>3, ConcatProperties
  <2>2. Len(front) + Len(back) = Len(s) - 1
    BY <1>1, <1>2, <1>3
  <2>. QED
    BY <1>2, <2>1, <2>2
<1>. HIDE DEF both
<1>5. \A j \in 1 .. Len(s) - 1 : both[j] = IF j < i THEN s[j] ELSE s[j + 1]
  <2>. TAKE j \in 1 .. Len(s) - 1
  <2>1. CASE j < i
    <3>1. j <= i - 1 /\ j \in 1 .. i - 1
      BY <1>1, <2>1
    <3>. QED
      BY <1>2, <1>4, <2>1, <3>1
  <2>2. CASE ~(j < i)
    <3>1. /\ ~(j <= i - 1) /\ j - (i - 1) \in 1 .. Len(s) - i
          /\ (j - (i - 1)) + i = j + 1
      BY <1>1, <2>2
    <3>2. back[j - (i - 1)] = s[(j - (i - 1)) + i]
      BY <1>3, <3>1
    <3>. QED
      BY <1>4, <2>2, <3>1, <3>2
  <2>. QED
    BY <2>1, <2>2
<1>. QED
  BY <1>4, <1>5 DEF RemoveAt, both, front, back

\* What is known of the sources in the list.
LEMMA SourcesTyped ==
  ASSUME TypeOK
  PROVE  /\ sources \in Seq(Source) /\ Len(sources) \in Nat
         /\ DOMAIN sources = 1 .. Len(sources)
         /\ \A i \in DOMAIN sources :
              /\ sources[i] \in Source /\ sources[i].fd \in Fds
              /\ sources[i].id \in 0 .. MaxSourceId
              /\ sources[i].state \in {"ACTIVE", "MOTHBALLED"}
<1>1. sources \in Seq(Source)
  BY DEF TypeOK, Source
<1>2. Len(sources) \in Nat /\ DOMAIN sources = 1 .. Len(sources)
  BY <1>1, LenProperties
<1>3. \A i \in DOMAIN sources : sources[i] \in Source
  BY <1>1, <1>2, ElementOfSeq
<1>. QED
  BY <1>1, <1>2, <1>3 DEF Source

\* The constants.
LEMMA Numbers ==
  /\ NoFd \notin Fds /\ Fds \subseteq Nat /\ NoTask \notin Tasks
  /\ MaxSourceId \in Nat /\ MaxJobs \in Nat /\ RV_FAIL \notin 0 .. MaxSourceId
  /\ \A n : n \in 0 .. MaxSourceId + 1 =>
       (IF n > MaxSourceId THEN 0 ELSE n) \in 0 .. MaxSourceId
BY LogAssumption DEF NoFd, RV_FAIL

-----------------------------------------------------------------------------
(* Types, and what a task and a sweep have in hand *)

TypeInv == TypeOK /\ SweepInv /\ TasksInv

LEMMA TaskStartsTyped ==
  ASSUME TypeInv, NEW t \in Tasks, TaskStarts(t)
  PROVE  TypeInv'
<1>1. /\ TypeOK /\ TasksInv
      /\ UNCHANGED <<listVars, lockVars, pipeVars, pipe, logger_id, alive, mainVars>>
      /\ task' = [task EXCEPT ![t] = "starting"] /\ task[t] = "none"
      /\ jobs' = jobs + 1 /\ jobs < MaxJobs
  BY DEF TypeInv, TaskStarts
<1>2. jobs' \in 0 .. MaxJobs
  BY <1>1, Numbers DEF TypeOK
<1>3. TasksInv'
  BY <1>1 DEF TypeOK, TasksInv, HasPipe
<1>. QED
  BY <1>1, <1>2, <1>3 DEF TypeInv, TypeOK, SweepInv, listVars, lockVars, pipeVars, mainVars

LEMMA TaskForksTyped ==
  ASSUME TypeInv, NEW t \in Tasks, TaskForks(t)
  PROVE  TypeInv'
<1>1. PICK f \in Fds : Opens(f, t) /\ pipe' = [pipe EXCEPT ![t] = f]
  BY DEF TaskForks
<1>2. /\ TypeOK /\ TasksInv
      /\ UNCHANGED <<listVars, lockVars, unread, logger_id, jobs, mainVars>>
      /\ task' = [task EXCEPT ![t] = "forked"] /\ alive' = [alive EXCEPT ![t] = TRUE]
      /\ owner' = [owner EXCEPT ![f] = t] /\ f # NoFd /\ t # NoTask
  BY <1>1, Numbers DEF TypeInv, TaskForks, Opens
<1>3. TasksInv'
  BY <1>1, <1>2 DEF TypeOK, TasksInv, HasPipe
<1>4. TypeOK'
  BY <1>1, <1>2 DEF TypeOK, listVars, lockVars, mainVars
<1>. QED
  BY <1>2, <1>3, <1>4 DEF TypeInv, SweepInv, listVars, mainVars

LEMMA TaskForkFailsTyped ==
  ASSUME TypeInv, NEW t \in Tasks, TaskForkFails(t)
  PROVE  TypeInv'
<1>1. PICK f \in Fds : Opens(f, t)
  BY DEF TaskForkFails
<1>2. /\ TypeOK /\ TasksInv
      /\ UNCHANGED <<listVars, lockVars, unread, pipe, logger_id, alive, jobs, mainVars>>
      /\ task' = [task EXCEPT ![t] = "none"] /\ task[t] = "starting"
      /\ owner' = [owner EXCEPT ![f] = t] /\ t # NoTask
  BY <1>1, Numbers DEF TypeInv, TaskForkFails, Opens
<1>3. TasksInv'
  BY <1>2 DEF TypeOK, TasksInv, HasPipe
<1>4. TypeOK'
  BY <1>1, <1>2 DEF TypeOK, listVars, lockVars, mainVars
<1>. QED
  BY <1>2, <1>3, <1>4 DEF TypeInv, SweepInv, listVars, mainVars

\* Closing a pipe leaves nothing to read in it.
LEMMA ClosesTyped ==
  ASSUME TypeOK, NEW f \in Fds, Closes(f)
  PROVE  /\ owner' \in [Fds -> Tasks \union {NoTask}]
         /\ unread' \subseteq {g \in Fds : owner'[g] # NoTask}
BY DEF TypeOK, Closes

LEMMA AppendLocksTyped ==
  ASSUME TypeInv, NEW t \in Tasks, AppendLocks(t)
  PROVE  TypeInv'
<1>1. /\ TypeOK /\ TasksInv /\ task[t] = "forked" /\ pipe[t] \in Fds
      /\ UNCHANGED <<listVars, initialized, writer, current, logging_enabled, stopping>>
      /\ UNCHANGED <<pipe, logger_id, alive, jobs>>
  BY DEF TypeInv, AppendLocks, Goes, TasksInv, TypeOK, HasPipe, taskVars
<1>2. /\ task' \in {task, [task EXCEPT ![t] = "appending"], [task EXCEPT ![t] = "waiting"]}
      /\ readers' \in {readers, readers \union {t}} /\ leaked' \in {leaked, TRUE}
      /\ UNCHANGED pipeVars \/ Closes(pipe[t])
      /\ pc' \in {pc, "aborted"}
  BY DEF AppendLocks, Goes, taskVars
<1>3. /\ owner' \in [Fds -> Tasks \union {NoTask}]
      /\ unread' \subseteq {g \in Fds : owner'[g] # NoTask}
  BY <1>1, <1>2, ClosesTyped DEF TypeOK, pipeVars
<1>4. TasksInv'
  BY <1>1, <1>2 DEF TypeOK, TasksInv, HasPipe
<1>5. TypeOK'
  <2>1. /\ task' \in [Tasks -> {"none", "starting", "forked", "appending", "waiting", "removing"}]
        /\ readers' \subseteq Tasks /\ leaked' \in BOOLEAN
    BY <1>1, <1>2 DEF TypeOK
  <2>2. pc' \in {"scan", "signals", "reinitialize", "reopen", "write", "sweep", "swept",
                "deinitialize", "exiting", "exited", "aborted"}
    BY <1>1, <1>2 DEF TypeOK
  <2>. QED
    BY <1>1, <1>3, <2>1, <2>2 DEF TypeOK, listVars
<1>. QED
  BY <1>1, <1>2, <1>4, <1>5 DEF TypeInv, SweepInv, listVars

LEMMA NewIdTyped ==
  ASSUME TypeOK
  PROVE  NewId \in 0 .. MaxSourceId /\ NewId + 1 \in 0 .. MaxSourceId + 1
BY Numbers DEF TypeOK, NewId

\* The list after a source was appended.
LEMMA AppendedSources ==
  ASSUME TypeInv, NEW t \in Tasks, AppendSource(t)
  PROVE  LET new == [id |-> NewId, fd |-> pipe[t], state |-> "ACTIVE"] IN
         /\ pipe[t] \in Fds /\ new \in Source
         /\ sources' \in Seq(Source) /\ Len(sources') = Len(sources) + 1
         /\ DOMAIN sources' = 1 .. Len(sources) + 1
         /\ sources'[1] = new
         /\ \A i \in 1 .. Len(sources) : sources'[i + 1] = sources[i]
<1>. DEFINE new == [id |-> NewId, fd |-> pipe[t], state |-> "ACTIVE"]
<1>1. pipe[t] \in Fds /\ TypeOK
  BY DEF TypeInv, TypeOK, TasksInv, AppendSource, HasPipe
<1>2. new \in Source
  BY <1>1, NewIdTyped DEF Source
<1>3. sources' = <<new>> \o sources
  BY DEF AppendSource
<1>. HIDE DEF new
<1>4. /\ sources' \in Seq(Source) /\ Len(sources') = Len(sources) + 1
      /\ sources'[1] = new
      /\ \A i \in 1 .. Len(sources) : sources'[i + 1] = sources[i]
  BY <1>1, <1>2, <1>3, InFrontProperties, SourcesTyped
<1>5. DOMAIN sources' = 1 .. Len(sources')
  BY <1>4, LenProperties
<1>. QED
  BY <1>1, <1>2, <1>4, <1>5 DEF new

LEMMA AppendSourceTyped ==
  ASSUME TypeInv, NEW t \in Tasks, AppendSource(t)
  PROVE  TypeInv'
<1>1. /\ TypeOK /\ TasksInv /\ MutexFree /\ task[t] = "appending"
      /\ UNCHANGED <<initialized, writer, leaked, pipeVars, pipe, alive, jobs, mainVars>>
      /\ source_count' = NewId + 1 /\ logger_id' = [logger_id EXCEPT ![t] = NewId]
      /\ task' = [task EXCEPT ![t] = "waiting"] /\ readers' = readers \ {t}
  BY DEF TypeInv, AppendSource
<1>2. sources' \in Seq(Source) /\ Len(sources') = Len(sources) + 1 /\ Len(sources) \in Nat
  BY <1>1, AppendedSources, SourcesTyped
<1>3. TasksInv'
  BY <1>1 DEF TypeOK, TasksInv, HasPipe
<1>4. source_count' \in 0 .. MaxSourceId + 1 /\ NewId \in 0 .. MaxSourceId
  BY <1>1, NewIdTyped
<1>5. current' \in 0 .. Len(sources') + 1
  BY <1>1, <1>2 DEF TypeOK, mainVars
<1>6. sources' \in Seq([id : 0 .. MaxSourceId, fd : Fds, state : {"ACTIVE", "MOTHBALLED"}])
  BY <1>2 DEF Source
<1>7. /\ logger_id' \in [Tasks -> 0 .. MaxSourceId \union {RV_FAIL}]
      /\ task' \in [Tasks -> {"none", "starting", "forked", "appending", "waiting", "removing"}]
      /\ readers' \subseteq Tasks
  BY <1>1, <1>4 DEF TypeOK
<1>8. TypeOK'
  BY <1>1, <1>4, <1>5, <1>6, <1>7 DEF TypeOK, pipeVars, mainVars
<1>9. SweepInv'
  BY <1>1 DEF MutexFree, SweepInv, mainVars
<1>. QED
  BY <1>3, <1>8, <1>9 DEF TypeInv

\* A task that has finished has no pipe any more.
LEMMA FinishesTyped ==
  ASSUME TypeOK, TasksInv, NEW t \in Tasks, Finishes(t), ~alive[t]
  PROVE  /\ task' \in [Tasks -> {"none", "starting", "forked", "appending", "waiting", "removing"}]
         /\ pipe' \in [Tasks -> Fds \union {NoFd}]
         /\ logger_id' \in [Tasks -> 0 .. MaxSourceId \union {RV_FAIL}]
         /\ UNCHANGED <<alive, jobs>>
         /\ TasksInv'
BY DEF TypeOK, TasksInv, Finishes, HasPipe

\* Closing its pipes itself, a task may find that they are closed.
LEMMA ClosesAndFinishesTyped ==
  ASSUME TypeInv, NEW t \in Tasks, ClosesAndFinishes(t), task[t] \in HasPipe, ~alive[t],
         UNCHANGED <<source_count, lockVars, current, logging_enabled, stopping>>,
         UNCHANGED sources
  PROVE  TypeInv'
<1>1. TypeOK /\ TasksInv /\ SweepInv /\ pipe[t] \in Fds
  BY DEF TypeInv, TypeOK, TasksInv
<1>2. CASE Closes(pipe[t]) /\ Finishes(t) /\ UNCHANGED pc
  <2>1. /\ owner' \in [Fds -> Tasks \union {NoTask}]
        /\ unread' \subseteq {g \in Fds : owner'[g] # NoTask}
    BY <1>1, <1>2, ClosesTyped
  <2>2. TypeOK' /\ TasksInv'
    BY <1>1, <1>2, <2>1, FinishesTyped DEF TypeOK, lockVars
  <2>. QED
    BY <1>1, <1>2, <2>2 DEF TypeInv, SweepInv
<1>3. CASE pc' = "aborted" /\ UNCHANGED <<pipeVars, taskVars>>
  BY <1>1, <1>3 DEF TypeInv, TypeOK, SweepInv, TasksInv, pipeVars, taskVars, lockVars
<1>. QED
  BY <1>2, <1>3 DEF ClosesAndFinishes

LEMMA RemoveTestsTyped ==
  ASSUME TypeInv, NEW t \in Tasks, RemoveTests(t)
  PROVE  TypeInv'
<1>1. /\ TypeOK /\ TasksInv /\ SweepInv /\ task[t] = "waiting" /\ ~alive[t]
      /\ UNCHANGED <<listVars, lockVars, current, logging_enabled, stopping>>
  BY DEF TypeInv, RemoveTests
<1>2. CASE Finishes(t) /\ UNCHANGED <<pipeVars, pc>>
  <2>1. TypeOK' /\ TasksInv'
    BY <1>1, <1>2, FinishesTyped DEF TypeOK, listVars, lockVars, pipeVars
  <2>. QED
    BY <1>1, <1>2, <2>1 DEF TypeInv, SweepInv, listVars
<1>3. CASE Goes(t, "removing") /\ UNCHANGED <<pipeVars, pc>>
  <2>1. TypeOK' /\ TasksInv'
    BY <1>1, <1>3 DEF TypeOK, TasksInv, HasPipe, Goes, listVars, lockVars, pipeVars
  <2>. QED
    BY <1>1, <1>3, <2>1 DEF TypeInv, SweepInv, listVars
<1>4. CASE ClosesAndFinishes(t)
  BY <1>1, <1>4, ClosesAndFinishesTyped DEF listVars, HasPipe
<1>. QED
  BY <1>2, <1>3, <1>4 DEF RemoveTests

\* What becomes of the list when a source is scheduled to be removed.
LEMMA MothballedSources ==
  ASSUME TypeOK, NEW i \in DOMAIN sources,
         sources' = [sources EXCEPT ![i].state = "MOTHBALLED"]
  PROVE  /\ sources' \in Seq(Source) /\ Len(sources') = Len(sources)
         /\ DOMAIN sources' = DOMAIN sources
         /\ sources'[i] = [id |-> sources[i].id, fd |-> sources[i].fd, state |-> "MOTHBALLED"]
         /\ \A j \in DOMAIN sources : j # i => sources'[j] = sources[j]
<1>. DEFINE new == [sources[i] EXCEPT !.state = "MOTHBALLED"]
<1>1. /\ new \in Source
      /\ new = [id |-> sources[i].id, fd |-> sources[i].fd, state |-> "MOTHBALLED"]
  BY SourcesTyped DEF Source
<1>2. sources' = [sources EXCEPT ![i] = new]
  OBVIOUS
<1>. HIDE DEF new
<1>3. /\ sources' \in Seq(Source) /\ Len(sources') = Len(sources)
      /\ \A j \in 1 .. Len(sources) : sources'[j] = IF j = i THEN new ELSE sources[j]
  <2>. DEFINE changed == [sources EXCEPT ![i] = new]
  <2>1. sources \in Seq(Source) /\ i \in 1 .. Len(sources)
    BY SourcesTyped
  <2>2. /\ changed \in Seq(Source) /\ Len(changed) = Len(sources)
        /\ \A j \in 1 .. Len(sources) : changed[j] = IF j = i THEN new ELSE sources[j]
    BY <1>1, <2>1, ExceptSeq
  <2>. HIDE DEF changed
  <2>3. sources' = changed
    BY <1>2 DEF changed
  <2>. QED
    BY <2>2, <2>3
<1>4. DOMAIN sources' = DOMAIN sources
  BY <1>3, LenProperties, SourcesTyped
<1>. QED
  BY <1>1, <1>3, <1>4, SourcesTyped

LEMMA RemoveSourceTyped ==
  ASSUME TypeInv, NEW t \in Tasks, RemoveSource(t)
  PROVE  TypeInv'
<1>1. /\ TypeOK /\ TasksInv /\ SweepInv /\ task[t] = "removing" /\ ~alive[t]
      /\ UNCHANGED <<source_count, lockVars, current, logging_enabled, stopping>>
  BY DEF TypeInv, RemoveSource, TasksInv, HasPipe
<1>2. ASSUME NEW i \in HasId(t), sources' = [sources EXCEPT ![i].state = "MOTHBALLED"],
             Finishes(t), UNCHANGED <<pipeVars, pc>>
      PROVE  TypeInv'
  <2>1. sources' \in Seq(Source) /\ Len(sources') = Len(sources) /\ DOMAIN sources' = DOMAIN sources
    BY <1>1, <1>2, MothballedSources DEF HasId
  <2>2. sources' \in Seq([id : 0 .. MaxSourceId, fd : Fds, state : {"ACTIVE", "MOTHBALLED"}])
    BY <2>1 DEF Source
  <2>3. TypeOK' /\ TasksInv'
    BY <1>1, <1>2, <2>1, <2>2, FinishesTyped DEF TypeOK, lockVars, pipeVars
  <2>. QED
    BY <1>1, <1>2, <2>1, <2>3 DEF TypeInv, SweepInv
<1>3. CASE ClosesAndFinishes(t) /\ UNCHANGED sources
  BY <1>1, <1>3, ClosesAndFinishesTyped DEF HasPipe
<1>. QED
  BY <1>2, <1>3 DEF RemoveSource

LEMMA JobTyped ==
  ASSUME TypeInv, NEW t \in Tasks, JobWrites(t) \/ JobEnds(t)
  PROVE  TypeInv'
<1>1. TypeOK /\ TasksInv /\ SweepInv /\ t # NoTask
  BY Numbers DEF TypeInv
<1>2. CASE JobWrites(t)
  <2>1. /\ UNCHANGED <<listVars, lockVars, owner, taskVars, mainVars>>
        /\ alive[t] /\ owner[pipe[t]] = t /\ unread' = unread \union {pipe[t]}
    BY <1>2 DEF JobWrites
  <2>2. pipe[t] \in Fds
    BY <1>1, <2>1 DEF TypeOK, TasksInv
  <2>. QED
    BY <1>1, <2>1, <2>2
    DEF TypeInv, TypeOK, SweepInv, TasksInv, listVars, lockVars, taskVars, mainVars
<1>3. CASE JobEnds(t)
  BY <1>1, <1>3
  DEF JobEnds, TypeInv, TypeOK, SweepInv, TasksInv, listVars, lockVars, pipeVars, mainVars
<1>. QED
  BY <1>2, <1>3

-----------------------------------------------------------------------------
(* The main thread *)

LEMMA TurnTyped ==
  ASSUME TypeInv, ScanEnds \/ PollSignals \/ ReinitializeCloses \/ ReinitializeOpens
                    \/ WriteBuffers \/ MainReturns
  PROVE  TypeInv'
<1>1. TypeOK /\ TasksInv /\ SweepInv /\ Len(sources) \in Nat
  BY SourcesTyped DEF TypeInv
<1>2. CASE ScanEnds \/ PollSignals \/ MainReturns
  BY <1>1, <1>2
  DEF ScanEnds, PollSignals, MainReturns, At, TypeInv, TypeOK, SweepInv, TasksInv,
      listVars, lockVars, pipeVars, taskVars
<1>3. CASE ReinitializeCloses \/ ReinitializeOpens
  BY <1>1, <1>3
  DEF ReinitializeCloses, ReinitializeOpens, At, TypeInv, TypeOK, SweepInv, TasksInv,
      listVars, lockVars, pipeVars, taskVars
<1>4. CASE WriteBuffers
  <2>1. /\ (pc' = "sweep" /\ current' = 1) \/ (pc' = "scan" /\ UNCHANGED current)
        /\ leaked' \in {leaked, TRUE} /\ logging_enabled' \in {logging_enabled, FALSE}
        /\ UNCHANGED <<listVars, initialized, writer, readers, pipeVars, taskVars, stopping>>
    BY <1>4 DEF WriteBuffers, BeginsSweep
  <2>2. leaked' \in BOOLEAN /\ logging_enabled' \in BOOLEAN
    BY <1>1, <2>1, Zenon DEF TypeOK
  <2>3. current' \in 0 .. Len(sources) + 1
    BY <1>1, <2>1 DEF TypeOK
  <2>4. TypeOK'
    BY <1>1, <2>1, <2>2, <2>3 DEF TypeOK, listVars, pipeVars, taskVars
  <2>5. SweepInv' /\ TasksInv'
    BY <1>1, <2>1 DEF SweepInv, TasksInv, taskVars
  <2>. QED
    BY <2>4, <2>5 DEF TypeInv
<1>. QED
  BY <1>2, <1>3, <1>4

LEMMA SweepReadsTyped ==
  ASSUME TypeInv, SweepReads
  PROVE  TypeInv'
<1>1. TypeOK /\ TasksInv /\ SweepInv
  BY DEF TypeInv
<1>2. current \in DOMAIN sources
  BY <1>1, SourcesTyped DEF SweepReads, At, SweepInv, TypeOK
<1>. QED
  BY <1>1, <1>2
  DEF SweepReads, At, TypeInv, TypeOK, SweepInv, TasksInv, listVars, lockVars, taskVars

\* The list after the source in hand was closed.
LEMMA SweptSources ==
  ASSUME TypeInv, SweepCloses, sources[current].state = "MOTHBALLED"
  PROVE  /\ current \in 1 .. Len(sources) /\ Len(sources) \in Nat
         /\ sources' \in Seq(Source) /\ Len(sources') = Len(sources) - 1
         /\ DOMAIN sources' = 1 .. Len(sources) - 1
         /\ \A j \in 1 .. Len(sources) - 1 :
              sources'[j] = IF j < current THEN sources[j] ELSE sources[j + 1]
<1>1. TypeOK /\ current \in DOMAIN sources /\ sources' = RemoveAt(sources, current)
  BY DEF TypeInv, SweepInv, SweepCloses, At
<1>2. /\ sources' \in Seq(Source) /\ Len(sources') = Len(sources) - 1
      /\ \A j \in 1 .. Len(sources) - 1 :
           sources'[j] = IF j < current THEN sources[j] ELSE sources[j + 1]
  BY <1>1, SourcesTyped, RemoveAtProperties
<1>. QED
  BY <1>1, <1>2, SourcesTyped, LenProperties

LEMMA SweepClosesTyped ==
  ASSUME TypeInv, SweepCloses
  PROVE  TypeInv'
<1>1. /\ TypeOK /\ TasksInv /\ SweepInv /\ current \in 1 .. Len(sources) /\ Len(sources) \in Nat
      /\ sources[current].fd \in Fds
      /\ pc = "swept" /\ pc' = "sweep"
      /\ UNCHANGED <<source_count, lockVars, taskVars, logging_enabled, stopping>>
  BY SourcesTyped DEF TypeInv, SweepInv, SweepCloses, At
<1>2. TasksInv'
  BY <1>1 DEF TasksInv, taskVars
<1>3. CASE sources[current].state = "MOTHBALLED"
  <2>1. /\ Closes(sources[current].fd) /\ UNCHANGED current
        /\ sources' \in Seq(Source) /\ Len(sources') = Len(sources) - 1
    BY <1>3, SweptSources DEF SweepCloses
  <2>2. /\ owner' \in [Fds -> Tasks \union {NoTask}]
        /\ unread' \subseteq {g \in Fds : owner'[g] # NoTask}
    BY <1>1, <2>1, ClosesTyped
  <2>3. current' \in 0 .. Len(sources') + 1 /\ current' >= 1
    BY <1>1, <2>1
  <2>4. sources' \in Seq([id : 0 .. MaxSourceId, fd : Fds, state : {"ACTIVE", "MOTHBALLED"}])
    BY <2>1 DEF Source
  <2>5. TypeOK'
    BY <1>1, <2>2, <2>3, <2>4 DEF TypeOK, lockVars, taskVars
  <2>. QED
    BY <1>1, <1>2, <2>3, <2>5 DEF TypeInv, SweepInv
<1>4. CASE sources[current].state # "MOTHBALLED"
  <2>1. current' = current + 1 /\ UNCHANGED <<sources, pipeVars>>
    BY <1>4 DEF SweepCloses
  <2>2. current' \in 0 .. Len(sources') + 1 /\ current' >= 1
    BY <1>1, <2>1
  <2>3. TypeOK'
    BY <1>1, <2>1, <2>2 DEF TypeOK, lockVars, taskVars, pipeVars
  <2>. QED
    BY <1>1, <1>2, <2>2, <2>3 DEF TypeInv, SweepInv
<1>. QED
  BY <1>3, <1>4

LEMMA SweepEndsTyped ==
  ASSUME TypeInv, SweepEnds
  PROVE  TypeInv'
<1>1. TypeOK /\ TasksInv /\ SweepInv /\ Len(sources) \in Nat
  BY SourcesTyped DEF TypeInv
<1>2. /\ current' = 0 /\ pc' \in {"exiting", "scan"}
      /\ initialized' \in {initialized, FALSE} /\ writer' \in {writer, FALSE}
      /\ UNCHANGED <<listVars, readers, leaked, pipeVars, taskVars, logging_enabled, stopping>>
  BY DEF SweepEnds
<1>3. initialized' \in BOOLEAN /\ writer' \in BOOLEAN
  BY <1>1, <1>2, Zenon DEF TypeOK
<1>4. TypeOK'
  BY <1>1, <1>2, <1>3 DEF TypeOK, listVars, pipeVars, taskVars
<1>. QED
  BY <1>1, <1>2, <1>4 DEF TypeInv, SweepInv, TasksInv, taskVars

\* subprocslog_deinitialize() schedules every source to be removed.
LEMMA DeinitializedSources ==
  ASSUME TypeOK, sources' = [i \in DOMAIN sources |-> [sources[i] EXCEPT !.state = "MOTHBALLED"]]
  PROVE  /\ sources' \in Seq(Source) /\ Len(sources') = Len(sources)
         /\ DOMAIN sources' = DOMAIN sources
         /\ \A i \in DOMAIN sources :
              sources'[i] = [id |-> sources[i].id, fd |-> sources[i].fd, state |-> "MOTHBALLED"]
<1>1. \A i \in DOMAIN sources :
        /\ [sources[i] EXCEPT !.state = "MOTHBALLED"]
             = [id |-> sources[i].id, fd |-> sources[i].fd, state |-> "MOTHBALLED"]
        /\ [sources[i] EXCEPT !.state = "MOTHBALLED"] \in Source
  BY SourcesTyped DEF Source
<1>2. DOMAIN sources' = 1 .. Len(sources) /\ Len(sources) \in Nat
  BY SourcesTyped
<1>3. sources' \in [1 .. Len(sources) -> Source]
  BY <1>1, SourcesTyped
<1>4. sources' \in Seq(Source)
  BY <1>2, <1>3, SeqDef
<1>5. Len(sources') = Len(sources)
  BY <1>2, <1>4, LenProperties
<1>. QED
  BY <1>1, <1>2, <1>4, <1>5, SourcesTyped

LEMMA DeinitializeTyped ==
  ASSUME TypeInv, Deinitialize
  PROVE  TypeInv'
<1>1. /\ TypeOK /\ TasksInv /\ SweepInv /\ Len(sources) \in Nat
      /\ writer' = TRUE /\ pc' = "sweep" /\ current' = 1
      /\ UNCHANGED <<source_count, initialized, readers, leaked, pipeVars, taskVars,
                     logging_enabled, stopping>>
  BY SourcesTyped DEF TypeInv, Deinitialize, BeginsSweep
<1>2. sources' \in Seq(Source) /\ Len(sources') = Len(sources)
  BY <1>1, DeinitializedSources, SourcesTyped DEF Deinitialize
<1>3. sources' \in Seq([id : 0 .. MaxSourceId, fd : Fds, state : {"ACTIVE", "MOTHBALLED"}])
  BY <1>2 DEF Source
<1>4. current' \in 0 .. Len(sources') + 1
  BY <1>1, <1>2
<1>. QED
  BY <1>1, <1>3, <1>4 DEF TypeInv, TypeOK, SweepInv, TasksInv, pipeVars, taskVars

-----------------------------------------------------------------------------
(* The rwlock *)

LockInv == LeakIsFinal /\ ReopensAlone

\* A task leaks the rwlock only when it is told that the log is closed, which it is
\* not told while the main thread opens the log again.
LEMMA TaskKeepsLock ==
  ASSUME LockInv, NEW t \in Tasks, TaskNext(t)
  PROVE  LockInv'
<1>1. CASE TaskForks(t)
  BY <1>1 DEF LockInv, LeakIsFinal, ReopensAlone, TaskForks, lockVars, mainVars
<1>2. CASE TaskForkFails(t)
  BY <1>2 DEF LockInv, LeakIsFinal, ReopensAlone, TaskForkFails, lockVars, mainVars
<1>3. CASE AppendLocks(t)
  BY <1>3 DEF LockInv, LeakIsFinal, ReopensAlone, AppendLocks
<1>4. CASE AppendSource(t)
  BY <1>4 DEF LockInv, LeakIsFinal, ReopensAlone, AppendSource, mainVars
<1>5. CASE RemoveTests(t)
  BY <1>5 DEF LockInv, LeakIsFinal, ReopensAlone, RemoveTests, ClosesAndFinishes, lockVars
<1>6. CASE RemoveSource(t)
  BY <1>6 DEF LockInv, LeakIsFinal, ReopensAlone, RemoveSource, ClosesAndFinishes, lockVars
<1>. QED
  BY <1>1, <1>2, <1>3, <1>4, <1>5, <1>6 DEF TaskNext

\* The main thread closes the log to open it again only under the rwlock, which
\* nobody has leaked then, and leaks it only when the log is closed.
LEMMA MainKeepsLock ==
  ASSUME LockInv, MainNext
  PROVE  LockInv'
<1>. USE DEF LockInv, LeakIsFinal, ReopensAlone, At
<1>1. CASE ScanEnds
  BY <1>1 DEF ScanEnds, lockVars
<1>2. CASE PollSignals
  BY <1>2 DEF PollSignals, lockVars
<1>3. CASE ReinitializeCloses
  BY <1>3 DEF ReinitializeCloses, MayWrite
<1>4. CASE ReinitializeOpens
  BY <1>4 DEF ReinitializeOpens
<1>5. CASE WriteBuffers
  BY <1>5 DEF WriteBuffers, BeginsSweep
<1>6. CASE SweepReads
  BY <1>6 DEF SweepReads, lockVars
<1>7. CASE SweepCloses
  BY <1>7 DEF SweepCloses, lockVars
<1>8. CASE SweepEnds
  BY <1>8 DEF SweepEnds
<1>9. CASE Deinitialize
  BY <1>9 DEF Deinitialize, BeginsSweep
<1>10. CASE MainReturns
  BY <1>10 DEF MainReturns, lockVars
<1>. QED
  BY <1>1, <1>2, <1>3, <1>4, <1>5, <1>6, <1>7, <1>8, <1>9, <1>10 DEF MainNext

-----------------------------------------------------------------------------
(* The invariant of every log *)

LEMMA TaskPreserves ==
  ASSUME IInv, NEW t \in Tasks, TaskStarts(t) \/ TaskNext(t) \/ JobWrites(t) \/ JobEnds(t)
  PROVE  IInv'
<1>1. TypeInv /\ LockInv
  BY DEF IInv, TypeInv, LockInv
<1>2. TypeInv'
  BY <1>1, TaskStartsTyped, TaskForksTyped, TaskForkFailsTyped, AppendLocksTyped,
     AppendSourceTyped, RemoveTestsTyped, RemoveSourceTyped, JobTyped DEF TaskNext
<1>3. CASE TaskNext(t)
  BY <1>1, <1>2, <1>3, TaskKeepsLock DEF IInv, TypeInv, LockInv
<1>4. CASE TaskStarts(t) \/ JobWrites(t) \/ JobEnds(t)
  <2>1. UNCHANGED <<lockVars, mainVars>>
    BY <1>4 DEF TaskStarts, JobWrites, JobEnds
  <2>2. LockInv'
    BY <1>1, <2>1 DEF LockInv, LeakIsFinal, ReopensAlone, lockVars, mainVars
  <2>. QED
    BY <1>2, <2>2 DEF IInv, TypeInv, LockInv
<1>. QED
  BY <1>3, <1>4

LEMMA MainPreserves ==
  ASSUME IInv, MainNext
  PROVE  IInv'
<1>1. TypeInv /\ LockInv
  BY DEF IInv, TypeInv, LockInv
<1>2. TypeInv'
  BY <1>1, TurnTyped, SweepReadsTyped, SweepClosesTyped, SweepEndsTyped, DeinitializeTyped
  DEF MainNext
<1>3. LockInv'
  BY <1>1, MainKeepsLock
<1>. QED
  BY <1>2, <1>3 DEF IInv, TypeInv, LockInv

LEMMA InitEstablishes == Init => IInv
<1>. SUFFICES ASSUME Init PROVE IInv
  OBVIOUS
<1>1. sources \in Seq(Source) /\ Len(sources) = 0
  BY DEF Init
<1>2. source_count \in 0 .. MaxSourceId + 1 /\ jobs \in 0 .. MaxJobs
  BY Numbers DEF Init
<1>3. current \in 0 .. Len(sources) + 1
  BY <1>1 DEF Init
<1>4. TypeOK
  BY <1>1, <1>2, <1>3 DEF Init, TypeOK, Source
<1>. QED
  BY <1>4 DEF Init, IInv, SweepInv, TasksInv, LeakIsFinal, ReopensAlone, HasPipe

LEMMA NextPreserves == IInv /\ [Next]_vars => IInv'
<1>. SUFFICES ASSUME IInv, [Next]_vars PROVE IInv'
  OBVIOUS
<1>1. CASE MainNext
  BY <1>1, MainPreserves
<1>2. ASSUME NEW t \in Tasks, TaskStarts(t) \/ TaskNext(t) \/ JobWrites(t) \/ JobEnds(t)
      PROVE  IInv'
  BY <1>2, TaskPreserves
<1>3. CASE Finished \/ UNCHANGED vars
  BY <1>3 DEF IInv, TypeOK, SweepInv, TasksInv, LeakIsFinal, ReopensAlone, Finished,
     vars, listVars, lockVars, pipeVars, taskVars, mainVars
<1>. QED
  BY <1>1, <1>2, <1>3 DEF Next

\* The inductive invariant of the log holds in every reachable state.
THEOREM Invariance == Spec => []IInv
BY InitEstablishes, NextPreserves, PTL DEF Spec

\* Type correctness of the log.
THEOREM TypeCorrect == Spec => []TypeOK
<1>1. IInv => TypeOK
  BY DEF IInv
<1>. QED
  BY <1>1, Invariance, PTL

\* A call of the log that returned with the rwlock held has found the log closed for
\* good (subprocslog.c:440-445 and 462-467): no leak is due to the moment in which
\* the log files are opened again.
THEOREM LeaksAreFinal == Spec => []LeakIsFinal
<1>1. IInv => LeakIsFinal
  BY DEF IInv
<1>. QED
  BY <1>1, Invariance, PTL
=============================================================================
