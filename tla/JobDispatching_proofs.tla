----------------------- MODULE JobDispatching_proofs -----------------------
(***************************************************************************)
(* Proofs about the dispatcher, for any number of threads, every thread    *)
(* model and all settings.                                                 *)
(*                                                                         *)
(* The inductive invariant IInv is preserved by every action, one lemma    *)
(* for each; the safety properties are among its parts.  With it each step *)
(* of the dispatcher is a step of SlotLifecycle or changes nothing there.  *)
(***************************************************************************)
EXTENDS JobDispatching, TLAPS

\* The dispatcher starts with all slots available and scans them.
LEMMA InitEstablishes == Init => IInv
<1>. SUFFICES ASSUME Init PROVE IInv
  OBVIOUS
<1>1. TypeOK
  <2>1. 0 \in Slots /\ 0 \in 0 .. Threads /\ 0 \in 0 .. MaxLinger
    BY SettingsAssumption DEF Slots
  <2>2. running \in {0, 1}
    BY DEF Init
  <2>3. /\ status \in [Slots -> Status] /\ child \in [Slots -> Child]
        /\ task \in [Slots -> Task] /\ linger \in [Slots -> 0 .. MaxLinger]
        /\ termination_requested \in [Slots -> {"no", "recent", "overdue"}]
        /\ overrun \in [Slots -> BOOLEAN]
    BY <2>1 DEF Init, Status, Task, Child
  <2>4. pc = "scan" /\ cur \in 0 .. Threads /\ call = "none" /\ victim \in Slots
    BY <2>1 DEF Init
  <2>5. waiting \in BOOLEAN
    BY DEF Init
  <2>6. stopped \in 0 .. Threads /\ stopSignals \in 0 .. 2
    BY <2>1 DEF Init
  <2>7. pending \subseteq StopSignals \union {"SIGHUP"} /\ handledSignal = NoSignal
    BY DEF Init
  <2>. QED
    BY <2>2, <2>3, <2>4, <2>5, <2>6, <2>7 DEF TypeOK
<1>2. SlotOwnership
  BY DEF Init, SlotOwnership, Zombie, Exits
<1>3. MainInv /\ CallInv /\ CountInv /\ CleanExit
  BY SettingsAssumption DEF Init, MainInv, CallInv, CountInv, CleanExit, Slots
<1>. QED
  BY <1>1, <1>2, <1>3 DEF IInv

-----------------------------------------------------------------------------
(* The task threads *)

\* The process ends: the aborted process promises nothing about its slots.
LEMMA TaskAbortsPreserves ==
  ASSUME NEW s \in Slots, IInv, TaskPipeFails(s) \/ TaskWaitFails(s)
  PROVE  IInv'
<1>1. TypeOK'
  BY DEF IInv, TypeOK, slotVars, taskVars, sigVars, TaskPipeFails, TaskWaitFails
<1>2. SlotOwnership'
  BY DEF SlotOwnership, TaskPipeFails, TaskWaitFails
<1>3. MainInv' /\ CallInv' /\ CountInv' /\ CleanExit'
  BY DEF IInv, MainInv, CallInv, CountInv, CleanExit, slotVars, TaskPipeFails, TaskWaitFails
<1>. QED
  BY <1>1, <1>2, <1>3 DEF IInv

\* The job is alive from here on; its slot stays BOOTSTRAPPING.
LEMMA TaskForksPreserves ==
  ASSUME NEW s \in Slots, IInv, TaskForks(s)
  PROVE  IInv'
<1>1. TypeOK'
  BY DEF IInv, TypeOK, Task, Child, Living, slotVars, mainVars, sigVars, TaskForks
<1>2. SlotOwnership'
  BY DEF IInv, SlotOwnership, TypeOK, Zombie, Exits, slotVars, mainVars, TaskForks
<1>3. MainInv' /\ CallInv' /\ CountInv' /\ CleanExit'
  BY DEF IInv, MainInv, CallInv, CountInv, CleanExit, mainVars, slotVars, TaskForks
<1>. QED
  BY <1>1, <1>2, <1>3 DEF IInv

\* The task gives the slot back without a job.
LEMMA TaskForkFailsPreserves ==
  ASSUME NEW s \in Slots, IInv, TaskForkFails(s)
  PROVE  IInv'
<1>1. TypeOK'
  BY SettingsAssumption DEF IInv, TypeOK, Status, Task, Sleeping, mainVars, sigVars,
      TaskReleases, TaskForkFails
<1>2. SlotOwnership'
  BY DEF IInv, SlotOwnership, TypeOK, Zombie, Exits, mainVars, TaskReleases,
      TaskForkFails
<1>3. MainInv' /\ CallInv' /\ CountInv' /\ CleanExit'
  BY DEF IInv, MainInv, CallInv, CountInv, CleanExit, mainVars, TaskReleases,
      TaskForkFails
<1>. QED
  BY <1>1, <1>2, <1>3 DEF IInv

\* The pid replaces BOOTSTRAPPING.
LEMMA TaskPublishesPidPreserves ==
  ASSUME NEW s \in Slots, IInv, TaskPublishesPid(s)
  PROVE  IInv'
<1>1. TypeOK'
  BY DEF IInv, TypeOK, Status, Task, mainVars, sigVars, TaskPublishesPid
<1>2. SlotOwnership'
  BY DEF IInv, SlotOwnership, TypeOK, mainVars, TaskPublishesPid
<1>3. MainInv' /\ CallInv' /\ CountInv' /\ CleanExit'
  BY DEF IInv, MainInv, CallInv, CountInv, CleanExit, mainVars, TaskPublishesPid
<1>. QED
  BY <1>1, <1>2, <1>3 DEF IInv

\* The job is gone, its slot still has the pid.
LEMMA TaskReapsPreserves ==
  ASSUME NEW s \in Slots, IInv, TaskReaps(s)
  PROVE  IInv'
<1>1. TypeOK'
  BY DEF IInv, TypeOK, Task, Child, slotVars, mainVars, sigVars, TaskReaps
<1>2. SlotOwnership'
  BY DEF IInv, SlotOwnership, TypeOK, Zombie, Exits, slotVars, mainVars, TaskReaps
<1>3. MainInv' /\ CallInv' /\ CountInv' /\ CleanExit'
  BY DEF IInv, MainInv, CallInv, CountInv, CleanExit, mainVars, slotVars, TaskReaps
<1>. QED
  BY <1>1, <1>2, <1>3 DEF IInv

\* No result is BOOTSTRAPPING or a pid, whatever the thread model.
LEMMA TaskPublishesResultPreserves ==
  ASSUME NEW s \in Slots, IInv, TaskPublishesResult(s)
  PROVE  IInv'
<1>1. TypeOK'
  BY SettingsAssumption DEF IInv, TypeOK, Status, Task, Zombie, Exits, Done,
      Sleeping, mainVars, sigVars, TaskReleases, ResultStatus, ExitStatus,
      TaskPublishesResult
<1>2. SlotOwnership'
  BY DEF IInv, SlotOwnership, TypeOK, Zombie, Exits, mainVars, TaskReleases,
      ResultStatus, ExitStatus, TaskPublishesResult
<1>3. MainInv' /\ CallInv' /\ CountInv' /\ CleanExit'
  BY DEF IInv, MainInv, CallInv, CountInv, CleanExit, mainVars, TaskReleases,
      Zombie, Exits, ResultStatus, ExitStatus, TaskPublishesResult
<1>. QED
  BY <1>1, <1>2, <1>3 DEF IInv

\* An earlier task changes nothing but the termination request.
LEMMA TaskResetsSlotPreserves ==
  ASSUME NEW s \in Slots, IInv, TaskResetsSlot(s)
  PROVE  IInv'
<1>1. TypeOK'
  BY SettingsAssumption DEF IInv, TypeOK, mainVars, sigVars, TaskResetsSlot
<1>2. SlotOwnership'
  BY DEF IInv, SlotOwnership, mainVars, TaskResetsSlot
<1>3. MainInv' /\ CallInv' /\ CountInv' /\ CleanExit'
  BY DEF IInv, MainInv, CallInv, CountInv, CleanExit, mainVars, TaskResetsSlot
<1>. QED
  BY <1>1, <1>2, <1>3 DEF IInv

-----------------------------------------------------------------------------
(* The jobs and the clock *)

\* A job that ends is there to be waited for.
LEMMA JobEndsPreserves ==
  ASSUME NEW s \in Slots, IInv, JobEnds(s)
  PROVE  IInv'
<1>1. TypeOK'
  BY SettingsAssumption DEF IInv, TypeOK, Child, Zombie, Exits, slotVars, mainVars,
      sigVars, JobEnds
<1>2. SlotOwnership'
  <2>1. PICK result \in JobResults : child' = [child EXCEPT ![s] = result]
    BY DEF JobEnds
  <2>2. result # "none" /\ child[s] # "none"
    BY <2>1, SettingsAssumption DEF JobEnds, Living
  <2>. QED
    BY <2>1, <2>2 DEF IInv, SlotOwnership, TypeOK, JobEnds, slotVars, mainVars
<1>3. MainInv' /\ CallInv' /\ CountInv' /\ CleanExit'
  BY DEF IInv, MainInv, CallInv, CountInv, CleanExit, mainVars, slotVars, Living,
      JobEnds
<1>. QED
  BY <1>1, <1>2, <1>3 DEF IInv

\* The clock only ages requests.
LEMMA TerminationTimeoutPassesPreserves ==
  ASSUME NEW s \in Slots, IInv, TerminationTimeoutPasses(s)
  PROVE  IInv'
<1>1. TypeOK'
  BY DEF IInv, TypeOK, taskVars, mainVars, sigVars, TerminationTimeoutPasses
<1>2. SlotOwnership'
  BY DEF IInv, SlotOwnership, taskVars, mainVars, TerminationTimeoutPasses
<1>3. MainInv' /\ CallInv' /\ CountInv' /\ CleanExit'
  BY DEF IInv, MainInv, CallInv, CountInv, CleanExit, mainVars, taskVars,
      TerminationTimeoutPasses
<1>. QED
  BY <1>1, <1>2, <1>3 DEF IInv

\* The clock only ages jobs.
LEMMA RunTimeMaxPassesPreserves ==
  ASSUME NEW s \in Slots, IInv, RunTimeMaxPasses(s)
  PROVE  IInv'
<1>1. TypeOK'
  BY DEF IInv, TypeOK, taskVars, mainVars, sigVars, RunTimeMaxPasses
<1>2. SlotOwnership'
  BY DEF IInv, SlotOwnership, taskVars, mainVars, RunTimeMaxPasses
<1>3. MainInv' /\ CallInv' /\ CountInv' /\ CleanExit'
  BY DEF IInv, MainInv, CallInv, CountInv, CleanExit, mainVars, taskVars,
      RunTimeMaxPasses
<1>. QED
  BY <1>1, <1>2, <1>3 DEF IInv

-----------------------------------------------------------------------------
(* The main thread: sending signals to jobs *)

\* SIGKILL leaves a zombie, or ends the process when the slot became available.
LEMMA KillSendsSigkillPreserves ==
  ASSUME IInv, KillSendsSigkill
  PROVE  IInv'
<1>1. TypeOK'
  BY SettingsAssumption DEF IInv, TypeOK, Child, Zombie, Slots, slotVars, sigVars,
      Returns, KillSendsSigkill
<1>2. SlotOwnership'
  BY DEF IInv, SlotOwnership, Living, slotVars, KillSendsSigkill
<1>3. MainInv' /\ CallInv' /\ CountInv' /\ CleanExit'
  BY DEF IInv, MainInv, CallInv, CountInv, CleanExit, Returns, Living, slotVars,
      KillSendsSigkill
<1>. QED
  BY <1>1, <1>2, <1>3 DEF IInv

\* SIGTERM changes how the job is alive, and no more.
LEMMA TermSendsSigtermPreserves ==
  ASSUME IInv, TermSendsSigterm
  PROVE  IInv'
<1>1. TypeOK'
  BY DEF IInv, TypeOK, StopSignals, Child, Living, slotVars, TermSendsSigterm
<1>2. SlotOwnership'
  BY DEF IInv, SlotOwnership, slotVars, TermSendsSigterm
<1>3. MainInv' /\ CallInv' /\ CountInv' /\ CleanExit'
  BY DEF IInv, MainInv, CallInv, CountInv, CleanExit, slotVars, TermSendsSigterm
<1>. QED
  BY <1>1, <1>2, <1>3 DEF IInv

\* The request is marked and the call returns.
LEMMA TermMarksSlotPreserves ==
  ASSUME IInv, TermMarksSlot
  PROVE  IInv'
<1>1. TypeOK'
  BY SettingsAssumption DEF IInv, TypeOK, Slots, taskVars, sigVars, Returns,
      TermMarksSlot
<1>2. SlotOwnership'
  BY DEF IInv, SlotOwnership, taskVars, TermMarksSlot
<1>3. MainInv' /\ CallInv' /\ CountInv' /\ CleanExit'
  BY DEF IInv, MainInv, CallInv, CountInv, CleanExit, Returns, taskVars,
      TermMarksSlot
<1>. QED
  BY <1>1, <1>2, <1>3 DEF IInv

-----------------------------------------------------------------------------
(* The main thread: the scan over the slots *)

\* A call begins, or the timeout is looked at, only for a slot that has a pid.
LEMMA CheckThreadPreserves ==
  ASSUME IInv, CheckThread
  PROVE  IInv'
<1>1. TypeOK'
  BY DEF IInv, TypeOK, MainInv, slotVars, taskVars, sigVars, At, Calls,
      CallsNothing, CheckThread
<1>2. SlotOwnership'
  BY DEF IInv, SlotOwnership, slotVars, taskVars, At, CheckThread
<1>3. MainInv' /\ CallInv' /\ CountInv' /\ CleanExit'
  BY DEF IInv, MainInv, CallInv, CountInv, CleanExit, At, slotVars, Calls,
      CallsNothing, MayTerm, taskVars, CheckThread
<1>. QED
  BY <1>1, <1>2, <1>3 DEF IInv

\* A slot whose timeout was looked at may be killed: it is not started meanwhile.
LEMMA CheckTimeoutPreserves ==
  ASSUME IInv, CheckTimeout
  PROVE  IInv'
<1>1. TypeOK'
  BY DEF IInv, TypeOK, MainInv, slotVars, taskVars, sigVars, At, Calls,
      CallsNothing, CheckTimeout
<1>2. SlotOwnership'
  BY DEF IInv, SlotOwnership, slotVars, taskVars, At, CheckTimeout
<1>3. MainInv' /\ CallInv' /\ CountInv' /\ CleanExit'
  BY DEF IInv, MainInv, CallInv, CountInv, CleanExit, At, slotVars, Calls,
      CallsNothing, taskVars, CheckTimeout
<1>. QED
  BY <1>1, <1>2, <1>3 DEF IInv

\* Only a slot without a task is started, and none once waitForThreads is entered.
LEMMA StartThreadPreserves ==
  ASSUME IInv, StartThread
  PROVE  IInv'
<1>1. TypeOK'
  BY SettingsAssumption DEF IInv, TypeOK, MainInv, Status, Task, sigVars, At,
      Visits, NextSlot, StartThread
<1>2. SlotOwnership'
  BY DEF IInv, SlotOwnership, TypeOK, Zombie, Exits, At, Visits, Startable,
      StartThread
<1>3. MainInv' /\ CallInv' /\ CountInv' /\ CleanExit'
  BY SettingsAssumption DEF IInv, MainInv, CallInv, CountInv, CleanExit, Slots, At,
      Visits, NextSlot, StartThread
<1>. QED
  BY <1>1, <1>2, <1>3 DEF IInv

\* The process ends: the aborted process promises nothing about its slots.
LEMMA StartFailsPreserves ==
  ASSUME IInv, StartFails
  PROVE  IInv'
<1>1. TypeOK'
  BY DEF IInv, TypeOK, MainInv, Status, taskVars, sigVars, At, Visits, StartFails
<1>2. SlotOwnership'
  BY DEF SlotOwnership, StartFails
<1>3. MainInv' /\ CallInv' /\ CountInv' /\ CleanExit'
  BY DEF MainInv, CallInv, CountInv, CleanExit, Visits, At, StartFails
<1>. QED
  BY <1>1, <1>2, <1>3 DEF IInv

\* A slot that is taken back has no task.
LEMMA MakesAvailablePreserves ==
  ASSUME IInv, MakesAvailable
  PROVE  IInv'
<1>1. TypeOK'
  BY SettingsAssumption DEF IInv, TypeOK, MainInv, Status, taskVars, sigVars, At,
      Visits, NextSlot, MakesAvailable
<1>2. SlotOwnership'
  BY DEF IInv, SlotOwnership, TypeOK, Done, Sleeping, Task, Zombie, Exits, taskVars,
      At, Visits, MakesAvailable
<1>3. MainInv' /\ CallInv' /\ CountInv' /\ CleanExit'
  BY SettingsAssumption DEF IInv, MainInv, CallInv, CountInv, CleanExit, Slots, At,
      Visits, NextSlot, MakesAvailable
<1>. QED
  BY <1>1, <1>2, <1>3 DEF IInv

\* On to the next slot.
LEMMA LeavesSlotPreserves ==
  ASSUME IInv, LeavesSlot
  PROVE  IInv'
<1>1. TypeOK'
  BY SettingsAssumption DEF IInv, TypeOK, slotVars, taskVars, sigVars, NextSlot,
      LeavesSlot
<1>2. SlotOwnership'
  BY DEF IInv, SlotOwnership, slotVars, taskVars, At, Visits, LeavesSlot
<1>3. MainInv' /\ CallInv' /\ CountInv' /\ CleanExit'
  BY SettingsAssumption DEF IInv, MainInv, CallInv, CountInv, CleanExit, Slots, At,
      Visits, NextSlot, LeavesSlot
<1>. QED
  BY <1>1, <1>2, <1>3 DEF IInv

\* A slot counts as stopped only if it has no task; when all of them do, so have all.
LEMMA CountStoppedPreserves ==
  ASSUME IInv, CountStopped
  PROVE  IInv'
<1>1. TypeOK'
  <2>1. stopped \in 0 .. cur /\ cur \in Slots
    BY DEF IInv, TypeOK, CountInv, MainInv, CountStopped, At
  <2>. QED
    BY <2>1, SettingsAssumption
    DEF IInv, TypeOK, CountStopped, NextSlot, At, slotVars, taskVars, sigVars, Slots, Ended
<1>2. SlotOwnership'
  BY DEF IInv, SlotOwnership, slotVars, taskVars, At, CountStopped
<1>3. MainInv' /\ CallInv' /\ CountInv' /\ CleanExit'
  BY SettingsAssumption DEF IInv, MainInv, CallInv, CountInv, CleanExit, Slots, At,
      NextSlot, TypeOK, SlotOwnership, Task, taskVars, IsStopped, CountStopped
<1>. QED
  BY <1>1, <1>2, <1>3 DEF IInv

-----------------------------------------------------------------------------
(* The main thread: polling for signals and the turn of the loops *)

\* A stop signal ends the scans of dispatch().
LEMMA PollSignalsPreserves ==
  ASSUME IInv, PollSignals
  PROVE  IInv'
<1>1. TypeOK'
  BY DEF IInv, TypeOK, slotVars, taskVars, PollSignals
<1>2. SlotOwnership'
  BY DEF IInv, SlotOwnership, slotVars, taskVars, At, PollSignals
<1>3. MainInv' /\ CallInv' /\ CountInv' /\ CleanExit'
  BY DEF IInv, MainInv, CallInv, CountInv, CleanExit, At, PollSignals
<1>. QED
  BY <1>1, <1>2, <1>3 DEF IInv

\* The wait ends here only for the second further stop signal.
LEMMA PollSignalsWaitingPreserves ==
  ASSUME IInv, PollSignalsWaiting
  PROVE  IInv'
<1>a. stopSignals \in {0, 1} /\ waiting /\ cur = 0 /\ running \in {0, -1}
  BY DEF IInv, TypeOK, MainInv, PollSignalsWaiting, At
<1>b. \/ pc' = "all" /\ stopSignals' = 1
      \/ pc' = "deinit" /\ stopSignals' = 2
      \/ pc' = "scan" /\ stopSignals' # 2
  BY <1>a DEF PollSignalsWaiting, TurnsLoop
<1>c. waiting' = TRUE /\ stopped' \in {0, stopped} /\ (pc' = "scan" => stopped' = 0)
  BY <1>a DEF IInv, TypeOK, PollSignalsWaiting, TurnsLoop
<1>d. handledSignal' \in {handledSignal, NoSignal} /\ cur' = 0
  BY <1>a DEF PollSignalsWaiting
<1>f. stopSignals' = 1 \/ stopSignals' = stopSignals \/ stopSignals' = stopSignals + 1
  BY DEF PollSignalsWaiting, TurnsLoop
<1>e. UNCHANGED <<slotVars, taskVars, call, victim, running, pending>>
  BY DEF PollSignalsWaiting
<1>1. TypeOK'
  BY <1>a, <1>b, <1>c, <1>d, <1>e, <1>f, SettingsAssumption
  DEF IInv, TypeOK, NoSignal, slotVars, taskVars
<1>2. SlotOwnership'
  BY DEF IInv, SlotOwnership, slotVars, taskVars, At, PollSignalsWaiting
<1>3. MainInv'
  BY <1>a, <1>b, <1>c, <1>d, <1>e, SettingsAssumption DEF MainInv, Slots
<1>4. CallInv'
  BY <1>b, <1>e DEF CallInv, At, PollSignalsWaiting
<1>5. CountInv'
  <2>1. pc' = "scan" => stopped' = 0 /\ cur' = 0
    BY <1>c, <1>d
  <2>2. pc' \notin {"visit", "timeout"}
    BY <1>b
  <2>. QED
    BY <2>1, <2>2 DEF CountInv
<1>6. CleanExit'
  <2>1. pc' = "deinit" => stopSignals' = 2
    BY <1>b
  <2>2. pc' \in {"all", "deinit", "scan"}
    BY <1>b
  <2>. QED
    BY <2>1, <2>2 DEF CleanExit
<1>. QED
  BY <1>1, <1>2, <1>3, <1>4, <1>5, <1>6 DEF IInv

\* A kill begins only for a slot that has a pid.
LEMMA TermAllPreserves ==
  ASSUME IInv, TermAll
  PROVE  IInv'
<1>1. TypeOK'
  BY SettingsAssumption DEF IInv, TypeOK, Slots, slotVars, taskVars, sigVars, Calls,
      CallsNothing, TermAll
<1>2. SlotOwnership'
  BY DEF IInv, SlotOwnership, slotVars, taskVars, At, TermAll
<1>3. MainInv' /\ CallInv' /\ CountInv' /\ CleanExit'
  BY DEF IInv, MainInv, CallInv, CountInv, CleanExit, At, slotVars, Calls,
      CallsNothing, MayTerm, TermAll
<1>. QED
  BY <1>1, <1>2, <1>3 DEF IInv

\* The turn is over, or goes on with post_state_check.
LEMMA TermAllReturnsPreserves ==
  ASSUME IInv, TermAllReturns
  PROVE  IInv'
<1>1. TypeOK'
  BY DEF IInv, TypeOK, slotVars, taskVars, sigVars, TurnsLoop, TermAllReturns
<1>2. SlotOwnership'
  BY DEF IInv, SlotOwnership, slotVars, taskVars, At, TermAllReturns
<1>3. MainInv' /\ CallInv' /\ CleanExit'
  BY DEF IInv, MainInv, CallInv, CleanExit, TypeOK, Slots, At, TurnsLoop,
      TermAllReturns
<1>4. CountInv'
  <2>1. cur' = 0 /\ pc' \notin {"visit", "timeout"}
    BY DEF TermAllReturns, TurnsLoop
  <2>2. pc' = "scan" => stopped' = 0
    BY DEF TermAllReturns, TurnsLoop
  <2>. QED
    BY <2>1, <2>2 DEF CountInv
<1>. QED
  BY <1>1, <1>2, <1>3, <1>4 DEF IInv

\* The next turn begins, in waitForThreads if dispatch() is not to go on.
LEMMA PostStateCheckPreserves ==
  ASSUME IInv, PostStateCheck
  PROVE  IInv'
<1>1. TypeOK'
  BY DEF IInv, TypeOK, MainInv, slotVars, taskVars, sigVars, At, Calls,
      CallsNothing, TurnsLoop, PostStateCheck
<1>2. SlotOwnership'
  BY DEF IInv, SlotOwnership, slotVars, taskVars, At, PostStateCheck
<1>3. CallInv' /\ CountInv' /\ CleanExit'
  BY DEF IInv, CallInv, CountInv, CleanExit, slotVars, At, Calls, CallsNothing,
      MayTerm, MainInv, TurnsLoop, PostStateCheck
<1>4. MainInv'
  <2>1. cur = 0 /\ stopSignals # 2 /\ (waiting => running <= 0) /\ running \in {-1, 0, 1}
    BY DEF IInv, TypeOK, MainInv, PostStateCheck, At
  <2>2. pc' = "scan" /\ UNCHANGED <<cur, running, stopSignals>>
    BY <2>1 DEF PostStateCheck, TurnsLoop
  <2>3. waiting' <=> waiting \/ running <= 0
    BY DEF PostStateCheck, TurnsLoop
  <2>4. (waiting' => running <= 0) /\ (~waiting' => running # -1)
    BY <2>1, <2>3
  <2>. QED
    BY <2>1, <2>2, <2>4, SettingsAssumption DEF MainInv, Slots
<1>. QED
  BY <1>1, <1>2, <1>3, <1>4 DEF IInv

\* The slots are freed.
LEMMA FreeSlotsPreserves ==
  ASSUME IInv, FreeSlots
  PROVE  IInv'
<1>1. TypeOK'
  BY DEF IInv, TypeOK, slotVars, taskVars, sigVars, FreeSlots
<1>2. SlotOwnership'
  BY DEF IInv, SlotOwnership, slotVars, taskVars, At, FreeSlots
<1>3. MainInv' /\ CallInv' /\ CountInv' /\ CleanExit'
  BY DEF IInv, MainInv, CallInv, CountInv, CleanExit, At, taskVars, FreeSlots
<1>. QED
  BY <1>1, <1>2, <1>3 DEF IInv

\* The process ends.
LEMMA MainReturnsPreserves ==
  ASSUME IInv, MainReturns
  PROVE  IInv'
<1>1. TypeOK'
  BY DEF IInv, TypeOK, slotVars, taskVars, sigVars, MainReturns
<1>2. SlotOwnership'
  BY DEF IInv, SlotOwnership, slotVars, taskVars, At, MainReturns
<1>3. MainInv' /\ CallInv' /\ CountInv' /\ CleanExit'
  BY DEF IInv, MainInv, CallInv, CountInv, CleanExit, At, taskVars, MainReturns
<1>. QED
  BY <1>1, <1>2, <1>3 DEF IInv

-----------------------------------------------------------------------------
(* Signals *)

\* A signal is pending.
LEMMA SignalArrivesPreserves ==
  ASSUME NEW sig \in Signals, IInv, SignalArrives(sig)
  PROVE  IInv'
<1>1. TypeOK'
  BY SettingsAssumption DEF IInv, TypeOK, slotVars, taskVars, mainVars,
      SignalArrives
<1>2. SlotOwnership'
  BY DEF IInv, SlotOwnership, slotVars, taskVars, mainVars, SignalArrives
<1>3. MainInv' /\ CallInv' /\ CountInv' /\ CleanExit'
  BY DEF IInv, MainInv, CallInv, CountInv, CleanExit, mainVars, slotVars, taskVars,
      SignalArrives
<1>. QED
  BY <1>1, <1>2, <1>3 DEF IInv

\* A signal is stored.
LEMMA SignalHandlerPreserves ==
  ASSUME IInv, SignalHandler
  PROVE  IInv'
<1>1. TypeOK'
  BY DEF IInv, TypeOK, StopSignals, slotVars, taskVars, mainVars, SignalHandler
<1>2. SlotOwnership'
  BY DEF IInv, SlotOwnership, slotVars, taskVars, mainVars, SignalHandler
<1>3. MainInv' /\ CallInv' /\ CountInv' /\ CleanExit'
  BY DEF IInv, MainInv, CallInv, CountInv, CleanExit, mainVars, slotVars, taskVars,
      SignalHandler
<1>. QED
  BY <1>1, <1>2, <1>3 DEF IInv

-----------------------------------------------------------------------------
(* The invariant *)

\* Each of the lemmas above is one of the ways to take a step.
LEMMA NextPreserves ==
  ASSUME IInv, [Next]_vars
  PROVE  IInv'
<1>1. ASSUME NEW s \in Slots, TaskNext(s) \/ JobEnds(s) \/ ClockNext(s)
      PROVE  IInv'
  BY <1>1, TaskAbortsPreserves, TaskForksPreserves, TaskForkFailsPreserves,
     TaskPublishesPidPreserves, TaskReapsPreserves, TaskPublishesResultPreserves,
     TaskResetsSlotPreserves, JobEndsPreserves, TerminationTimeoutPassesPreserves,
     RunTimeMaxPassesPreserves
  DEF TaskNext, ClockNext
<1>2. CASE MainNext
  BY <1>2, KillSendsSigkillPreserves, TermSendsSigtermPreserves, TermMarksSlotPreserves,
     CheckThreadPreserves, CheckTimeoutPreserves, StartThreadPreserves, StartFailsPreserves,
     MakesAvailablePreserves, LeavesSlotPreserves, CountStoppedPreserves,
     PollSignalsPreserves, PollSignalsWaitingPreserves, TermAllPreserves,
     TermAllReturnsPreserves, PostStateCheckPreserves, FreeSlotsPreserves,
     MainReturnsPreserves
  DEF MainNext
<1>3. ASSUME NEW sig \in Signals, SignalArrives(sig)
      PROVE  IInv'
  BY <1>3, SignalArrivesPreserves
<1>4. CASE SignalHandler
  BY <1>4, SignalHandlerPreserves
<1>5. CASE UNCHANGED vars
  BY <1>5 DEF IInv, TypeOK, SlotOwnership, MainInv, CallInv, CountInv, CleanExit, Ended,
     vars, slotVars, taskVars, mainVars, sigVars
<1>. QED
  BY <1>1, <1>2, <1>3, <1>4, <1>5 DEF Next, Finished

\* The invariant holds in every reachable state.
THEOREM Invariance == Spec => []IInv
<1>1. IInv /\ [Next]_vars => IInv'
  BY NextPreserves
<1>. QED
  BY <1>1, InitEstablishes, PTL DEF Spec

\* Every variable keeps its range, whatever the settings: no count of the main
\* thread, of slots found stopped or of stop signals, overruns its bound.
THEOREM TypeCorrect == Spec => []TypeOK
<1>1. IInv => TypeOK
  BY DEF IInv
<1>. QED
  BY <1>1, Invariance, PTL

\* The status of a slot tells at all times what its task is about, so that no pid
\* is lost and no slot is started while it has a task.
THEOREM SlotsAreOwned == Spec => []SlotOwnership
<1>1. IInv => SlotOwnership
  BY DEF IInv
<1>. QED
  BY <1>1, Invariance, PTL

\* However the status changes between the test and the kill, kill(-1, sig) is
\* never called.
THEOREM NeverBroadcasts == Spec => []NoBroadcastKill
<1>1. IInv => NoBroadcastKill
  BY DEF IInv, CallInv, NoBroadcastKill
<1>. QED
  BY <1>1, Invariance, PTL

\* A shutdown that is not cut short by a third stop signal waits for every task
\* and job, although it counts the slots one by one while they run.
THEOREM ExitsClean == Spec => []CleanExit
<1>1. IInv => CleanExit
  BY DEF IInv
<1>. QED
  BY <1>1, Invariance, PTL

-----------------------------------------------------------------------------
(* The dispatcher implements the abstract life of its slots *)

\* What SlotLifecycle calls job.
Jobs == [s \in Slots |-> JobOf(s)]

\* All slots are idle and the dispatcher is open.
LEMMA InitRefines == Init => Lifecycle!Init
  BY DEF Init, Lifecycle!Init, JobOf, Phase, Ended

\* A step of one slot's task or job moves that slot, and no other.
LEMMA SlotMoves ==
  ASSUME NEW s \in Slots, NEW from, NEW to, ~Ended, JobOf(s) = from, JobOf(s)' = to,
         UNCHANGED <<pc, running, waiting>>,
         \A r \in Slots \ {s} : UNCHANGED <<task[r], child[r]>>
  PROVE  Lifecycle!Moves(s, from, to)
<1>1. \A r \in Slots \ {s} : JobOf(r)' = JobOf(r)
  BY DEF JobOf
<1>2. Phase # "down" /\ UNCHANGED Phase
  BY DEF Phase, Ended
<1>3. Jobs' = [Jobs EXCEPT ![s] = to]
  BY <1>1 DEF Jobs, Slots
<1>. QED
  BY <1>2, <1>3 DEF Lifecycle!Moves, Jobs

\* Only the tasks and the processes of the jobs matter to the abstract slots.
LEMMA JobsUnchanged ==
  ASSUME UNCHANGED <<task, child>>
  PROVE  UNCHANGED Jobs
  BY DEF Jobs, JobOf, Slots

\* Tasks, jobs and the clock move one slot, or none.
LEMMA TaskRefines ==
  ASSUME IInv, NEW s \in Slots, TaskNext(s) \/ JobEnds(s) \/ ClockNext(s)
  PROVE  [Lifecycle!Next]_<<Jobs, Phase>>
<1>1. CASE TaskPipeFails(s) \/ TaskWaitFails(s)
  <2>1. UNCHANGED Jobs
    BY <1>1, JobsUnchanged DEF TaskPipeFails, TaskWaitFails, taskVars
  <2>2. Phase # "down" /\ Phase' = "down"
    BY <1>1 DEF TaskPipeFails, TaskWaitFails, Phase, Ended
  <2>. QED
    BY <2>1, <2>2 DEF Lifecycle!Next, Lifecycle!GoDown, Jobs
<1>2. CASE TaskForks(s)
  <2>1. JobOf(s) = "starting" /\ JobOf(s)' = "running"
    BY <1>2 DEF IInv, TypeOK, TaskForks, JobOf, Living
  <2>2. Lifecycle!Launch(s)
    BY <1>2, <2>1, SlotMoves DEF IInv, TypeOK, TaskForks, mainVars, Lifecycle!Launch
  <2>. QED
    BY <2>2 DEF Lifecycle!Next
<1>3. CASE TaskForkFails(s)
  <2>1. JobOf(s) = "starting" /\ JobOf(s)' = "idle"
    BY <1>3 DEF IInv, TypeOK, TaskForkFails, TaskReleases, JobOf
  <2>2. Lifecycle!GiveUp(s)
    BY <1>3, <2>1, SlotMoves
    DEF IInv, TypeOK, TaskForkFails, TaskReleases, mainVars, Lifecycle!GiveUp
  <2>. QED
    BY <2>2 DEF Lifecycle!Next
<1>4. CASE TaskPublishesPid(s)
  <2>1. \A r \in Slots : JobOf(r)' = JobOf(r)
    BY <1>4 DEF IInv, TypeOK, TaskPublishesPid, JobOf
  <2>. QED
    BY <1>4, <2>1 DEF Jobs, Phase, Ended, TaskPublishesPid, mainVars, Slots
<1>5. CASE TaskReaps(s)
  <2>1. \A r \in Slots : JobOf(r)' = JobOf(r)
    BY <1>5 DEF IInv, TypeOK, TaskReaps, JobOf, Zombie, Exits, Living
  <2>. QED
    BY <1>5, <2>1 DEF Jobs, Phase, Ended, TaskReaps, mainVars, Slots
<1>6. CASE TaskPublishesResult(s)
  <2>1. JobOf(s) = "ended" /\ JobOf(s)' = "idle"
    BY <1>6 DEF IInv, TypeOK, TaskPublishesResult, TaskReleases, JobOf, Zombie, Exits
  <2>2. Lifecycle!Collect(s)
    BY <1>6, <2>1, SlotMoves
    DEF IInv, TypeOK, TaskPublishesResult, TaskReleases, mainVars, Lifecycle!Collect
  <2>. QED
    BY <2>2 DEF Lifecycle!Next
<1>7. CASE TaskResetsSlot(s) \/ ClockNext(s)
  <2>1. UNCHANGED <<task, child, mainVars>>
    BY <1>7 DEF TaskResetsSlot, ClockNext, TerminationTimeoutPasses, RunTimeMaxPasses, taskVars
  <2>. QED
    BY <2>1, JobsUnchanged DEF mainVars, Phase, Ended
<1>8. CASE JobEnds(s)
  <2>1. PICK result \in JobResults : child' = [child EXCEPT ![s] = result]
    BY <1>8 DEF JobEnds
  <2>2. result \notin Living /\ pc # "aborted"
    BY <1>8, SettingsAssumption DEF Living, JobEnds, Ended
  <2>3. child[s] \in Living /\ task[s] \in {"forked", "waiting"}
    BY <1>8, <2>2 DEF IInv, SlotOwnership, JobEnds, Living
  <2>4. JobOf(s) = "running" /\ JobOf(s)' = "ended"
    BY <1>8, <2>1, <2>2, <2>3 DEF IInv, TypeOK, JobEnds, JobOf
  <2>5. Lifecycle!End(s)
    BY <1>8, <2>1, <2>4, SlotMoves DEF IInv, TypeOK, JobEnds, mainVars, Lifecycle!End
  <2>. QED
    BY <2>5 DEF Lifecycle!Next
<1>. QED
  BY <1>1, <1>2, <1>3, <1>4, <1>5, <1>6, <1>7, <1>8 DEF TaskNext

\* The dispatcher goes down whenever the process ends.
LEMMA Abort ==
  ASSUME ~Ended, Ended', UNCHANGED <<task, child>>
  PROVE  Lifecycle!GoDown
  BY JobsUnchanged DEF Phase, Jobs, Lifecycle!GoDown

\* A step of the main thread that leaves the tasks and jobs alone closes the
\* dispatcher or changes nothing, unless it reopens it.
LEMMA MainStutters ==
  ASSUME ~Ended, UNCHANGED <<task, child>>, Phase' = Phase \/ Phase' = "closing"
  PROVE  [Lifecycle!Next]_<<Jobs, Phase>>
<1>1. UNCHANGED Jobs /\ Phase \in {"open", "closing"}
  BY JobsUnchanged DEF Phase
<1>2. CASE Phase = "open" /\ Phase' = "closing"
  BY <1>1, <1>2 DEF Lifecycle!Next, Lifecycle!Close, Jobs
<1>. QED
  BY <1>1, <1>2

\* The main thread starts jobs, kills them, closes the dispatcher and ends it.
LEMMA MainRefines ==
  ASSUME IInv, MainNext
  PROVE  [Lifecycle!Next]_<<Jobs, Phase>>
<1>. ~Ended
  BY DEF MainNext, KillSendsSigkill, TermSendsSigterm, TermMarksSlot, CheckThread,
     CheckTimeout, StartThread, StartFails, MakesAvailable, LeavesSlot, CountStopped, PollSignals,
     PollSignalsWaiting, TermAll, TermAllReturns, PostStateCheck, FreeSlots,
     MainReturns, At, Visits
<1>1. CASE KillSendsSigkill
  <2>1. CASE status[victim] = "PID" /\ child[victim] \in Living
    <3>1. PICK v \in Slots : v = victim
      BY DEF IInv, TypeOK
    <3>2. task[v] \in {"forked", "waiting"}
      BY <2>1, <3>1 DEF IInv, SlotOwnership, Ended, Living
    <3>3. /\ child' = [child EXCEPT ![v] = "SIGNALED"]
          /\ UNCHANGED <<task, pc, running, waiting>>
      BY <1>1, <2>1, <3>1 DEF KillSendsSigkill
    <3>4. JobOf(v) = "running" /\ JobOf(v)' = "ended"
      BY <2>1, <3>1, <3>2, <3>3 DEF IInv, TypeOK, JobOf, Living
    <3>5. \A r \in Slots \ {v} : UNCHANGED <<task[r], child[r]>>
      BY <3>3 DEF IInv, TypeOK
    <3>6. Lifecycle!End(v)
      BY <3>3, <3>4, <3>5, SlotMoves DEF Lifecycle!End
    <3>. QED
      BY <3>6 DEF Lifecycle!Next
  <2>2. CASE status[victim] = "AVAILABLE"
    BY <1>1, <2>2, Abort DEF KillSendsSigkill, Ended, Lifecycle!Next
  <2>3. CASE status[victim] # "AVAILABLE" /\ ~(status[victim] = "PID" /\ child[victim] \in Living)
    BY <1>1, <2>3, MainStutters DEF KillSendsSigkill, Phase, Ended
  <2>. QED
    BY <2>1, <2>2, <2>3
<1>2. CASE TermSendsSigterm
  <2>1. \A r \in Slots : JobOf(r)' = JobOf(r)
    BY <1>2 DEF IInv, TypeOK, TermSendsSigterm, JobOf, Living
  <2>. QED
    BY <1>2, <2>1 DEF Jobs, Phase, Ended, TermSendsSigterm, Slots
<1>3. CASE StartThread
  <2>1. PICK s \in Slots : s = cur
    BY <1>3 DEF IInv, MainInv, StartThread, Visits, At
  <2>2. task[s] = "none" /\ task' = [task EXCEPT ![s] = "boot"] /\ UNCHANGED child
    BY <1>3, <2>1 DEF IInv, TypeOK, SlotOwnership, StartThread, Visits, At, Startable,
       Zombie, Exits, Task, Ended
  <2>3. Phase = "open" /\ Phase' = "open"
    BY <1>3 DEF IInv, MainInv, StartThread, Visits, At, NextSlot, Phase, Ended
  <2>4. JobOf(s) = "idle" /\ JobOf(s)' = "starting"
    BY <2>2 DEF IInv, TypeOK, JobOf
  <2>5. \A r \in Slots \ {s} : JobOf(r)' = JobOf(r)
    BY <2>2 DEF IInv, TypeOK, JobOf
  <2>6. Jobs' = [Jobs EXCEPT ![s] = "starting"]
    BY <2>4, <2>5 DEF Jobs, Slots
  <2>7. Lifecycle!Start(s)
    BY <2>3, <2>4, <2>6 DEF Lifecycle!Start, Lifecycle!Moves, Jobs
  <2>. QED
    BY <2>7 DEF Lifecycle!Next
<1>4. CASE StartFails \/ MainReturns
  BY <1>4, Abort DEF StartFails, MainReturns, taskVars, Ended, Lifecycle!Next
<1>5. CASE \/ TermMarksSlot \/ CheckThread \/ CheckTimeout \/ MakesAvailable \/ LeavesSlot
           \/ CountStopped \/ TermAll \/ FreeSlots
  <2>1. UNCHANGED <<task, child, running, waiting>> /\ ~Ended'
    BY <1>5 DEF TermMarksSlot, CheckThread, CheckTimeout, MakesAvailable, LeavesSlot,
       CountStopped, TermAll, FreeSlots, Visits, At, NextSlot, taskVars, Ended
  <2>. QED
    BY <2>1, MainStutters DEF Phase
<1>6. CASE PollSignals
  <2>1. UNCHANGED <<task, child, waiting>> /\ running' \in {running, -1} /\ ~Ended'
    BY <1>6 DEF PollSignals, taskVars, Ended
  <2>. QED
    BY <2>1, MainStutters DEF Phase
<1>7. CASE PollSignalsWaiting \/ TermAllReturns \/ PostStateCheck
  <2>1. UNCHANGED <<task, child, running>> /\ ~Ended'
    BY <1>7 DEF PollSignalsWaiting, TermAllReturns, PostStateCheck, TurnsLoop, taskVars, Ended
  <2>2. waiting => waiting'
    BY <1>7 DEF PollSignalsWaiting, TermAllReturns, PostStateCheck, TurnsLoop
  <2>. QED
    BY <2>1, <2>2, MainStutters DEF Phase
<1>. QED
  BY <1>1, <1>2, <1>3, <1>4, <1>5, <1>6, <1>7 DEF MainNext

\* A signal means nothing before the main thread sees it.
LEMMA SignalRefines ==
  ASSUME (\E sig \in Signals : SignalArrives(sig)) \/ SignalHandler \/ Finished
  PROVE  UNCHANGED <<Jobs, Phase>>
<1>1. UNCHANGED <<task, child, pc, waiting, running>>
  BY DEF SignalArrives, SignalHandler, Finished, vars, taskVars, mainVars
<1>. QED
  BY <1>1, JobsUnchanged DEF Phase, Ended

\* Each step of the dispatcher is one of the abstract specification, or none.
LEMMA NextRefines ==
  ASSUME IInv, [Next]_vars
  PROVE  [Lifecycle!Next]_<<Jobs, Phase>>
<1>1. CASE \E s \in Slots : TaskNext(s) \/ JobEnds(s) \/ ClockNext(s)
  BY <1>1, TaskRefines
<1>2. CASE MainNext
  BY <1>2, MainRefines
<1>3. CASE (\E sig \in Signals : SignalArrives(sig)) \/ SignalHandler \/ Finished
  BY <1>3, SignalRefines
<1>4. CASE UNCHANGED vars
  BY <1>4, JobsUnchanged DEF vars, taskVars, mainVars, Phase, Ended
<1>. QED
  BY <1>1, <1>2, <1>3, <1>4 DEF Next

\* A slot is started only when its last job has been waited for, and never after
\* a stop signal was acted on: the dispatcher implements SlotLifecycle.
THEOREM Implements == Spec => ImplementsLifecycle
<1>1. Init => Lifecycle!Init
  BY InitRefines
<1>2. IInv /\ [Next]_vars => [Lifecycle!Next]_<<Jobs, Phase>>
  BY NextRefines
<1>3. [Lifecycle!Next]_<<Jobs, Phase>> => [Lifecycle!Next]_Lifecycle!lifecycleVars
  BY DEF Jobs, Lifecycle!lifecycleVars
<1>. QED
  BY <1>1, <1>2, <1>3, Invariance, PTL DEF Spec, ImplementsLifecycle, Lifecycle!Spec
=============================================================================
