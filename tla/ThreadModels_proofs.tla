------------------------- MODULE ThreadModels_proofs -------------------------
(***************************************************************************)
(* Proofs about the thread models, for any number of slots and all         *)
(* settings: the interval between two starts, and the pause after a        *)
(* failure.                                                                *)
(***************************************************************************)
EXTENDS ThreadModels, TLAPS

\* What is known of the settings and of the bounds on time stamps.
LEMMA SettingsTyped ==
  ASSUME settings \in Settings
  PROVE  /\ settings.model \in Models
         /\ Horizon \in Nat /\ Epoch \in Int /\ Epoch = -(Horizon + 1)
         /\ settings.sleep \in 0 .. Horizon - 1
         /\ settings.sleepOnError \in 0 .. Horizon - 1
         /\ settings.fi_wait_time_max \in -1 .. Horizon - 1
         /\ settings.sleep + settings.fi_wait_time_max <= Horizon
         /\ Indefinitely = Epoch - 1
BY ThreadModelsAssumption DEF Horizon, Epoch, Indefinitely

LEMMA PauseTyped ==
  ASSUME settings \in Settings
  PROVE  /\ ErrorPause \in 0 .. Horizon - 1 /\ ErrorPause <= settings.sleepOnError
         /\ Is("DEPENDENT") => ErrorPause <= settings.sleep
         /\ ~Is("DEPENDENT") => ErrorPause = settings.sleepOnError
BY SettingsTyped DEF ErrorPause, Lesser

\* What does not move the settings does not move the bounds either.
LEMMA SettingsUnchanged ==
  ASSUME UNCHANGED settings
  PROVE  /\ UNCHANGED <<Horizon, Epoch, Indefinitely, Stamp, ErrorPause>>
         /\ \A model : Is(model)' = Is(model)
         /\ ~(Is("INDEPENDENT") /\ (Is("DEPENDENT") \/ Is("FIXED_INTERVAL")))
         /\ ~(Is("DEPENDENT") /\ Is("FIXED_INTERVAL"))
BY DEF Horizon, Epoch, Indefinitely, Stamp, ErrorPause, Is

\* No job is running, nothing is late and nothing has failed.
LEMMA InitEstablishes == Init => IInv
<1>. SUFFICES ASSUME Init PROVE IInv
  OBVIOUS
<1>1. settings \in Settings /\ 0 \in Slots
  BY ThreadModelsAssumption DEF Init, Slots
<1>2. Epoch \in Stamp /\ Epoch <= Now /\ Epoch <= Now - ErrorPause
  BY <1>1, SettingsTyped, PauseTyped DEF Stamp, Now
<1>3. TypeOK
  <2>1. /\ {wake, last_started_at, termination_requested, failed_at} \subseteq [Slots -> Stamp]
        /\ {sleepUntil, sleep_until, wait_until} \subseteq Stamp
    BY <1>2 DEF Init
  <2>2. cur \in Slots /\ noThreads \in 1 .. Threads
    BY <1>1, ThreadModelsAssumption DEF Init
  <2>. QED
    BY <2>1, <2>2 DEF Init, TypeOK
<1>4. StampsInv /\ IntervalInv
  BY <1>1, <1>2, SettingsTyped DEF Init, StampsInv, IntervalInv, LastStart
<1>5. PauseInv
  <2>1. Epoch \in Int /\ Now - ErrorPause \in Int
    BY <1>1, SettingsTyped, PauseTyped DEF Now
  <2>. QED
    BY <1>2, <2>1 DEF Init, PauseInv
<1>. QED
  BY <1>3, <1>4, <1>5 DEF IInv

-----------------------------------------------------------------------------
(* What leaves a part of the invariant alone *)

\* Without a start, and with no job due that was not.
LEMMA IntervalStays ==
  ASSUME IInv, UNCHANGED <<settings, last_started_at, last_run_slot>>,
         new_thread_required' => new_thread_required
  PROVE  IntervalInv'
<1>1. UNCHANGED LastStart /\ Is("FIXED_INTERVAL")' = Is("FIXED_INTERVAL")
  BY SettingsUnchanged DEF LastStart
<1>. QED
  BY <1>1 DEF IInv, IntervalInv, Now

\* Without a failure, and with all that sleeps still asleep.
LEMMA PauseStays ==
  ASSUME IInv, UNCHANGED <<settings, failed_at, sleepUntil, is_sleeping, sleep_until>>,
         \A s \in Slots : status[s] = "SLEEPING" => UNCHANGED <<status[s], wake[s]>>
  PROVE  PauseInv'
<1>1. UNCHANGED ErrorPause /\ \A model : Is(model)' = Is(model)
  BY SettingsUnchanged
<1>2. \A s \in Slots : Pauses(s) => Pauses(s)'
  BY <1>1 DEF Pauses
<1>. QED
  BY <1>1, <1>2 DEF IInv, PauseInv, Now

LEMMA StampsStay ==
  ASSUME IInv, UNCHANGED <<last_started_at, failed_at>>
  PROVE  StampsInv'
BY DEF IInv, StampsInv, Now

-----------------------------------------------------------------------------
(* The tasks *)

LEMMA TaskPublishesPidPreserves ==
  ASSUME IInv, NEW s \in Slots, TaskPublishesPid(s)
  PROVE  IInv'
<1>1. UNCHANGED <<settings, last_started_at, failed_at, wake, last_run_slot, sleepUntil,
                  new_thread_required, is_sleeping, sleep_until>>
  BY DEF TaskPublishesPid, depVars, fixedVars
<1>2. TypeOK'
  BY SettingsUnchanged DEF IInv, TypeOK, TaskPublishesPid, Becomes, mainVars, depVars, fixedVars
<1>3. PauseInv'
  BY <1>1, PauseStays DEF IInv, TypeOK, TaskPublishesPid, Becomes
<1>. QED
  BY <1>1, <1>2, <1>3, IntervalStays, StampsStay DEF IInv

\* A slot whose fork failed sleeps as long as a pause after a failure.
LEMMA TaskForkFailsPreserves ==
  ASSUME IInv, NEW s \in Slots, TaskForkFails(s)
  PROVE  IInv'
<1>1. UNCHANGED <<settings, last_started_at, last_run_slot, sleepUntil, new_thread_required,
                  is_sleeping, sleep_until>>
  BY DEF TaskForkFails, depVars, fixedVars
<1>2. /\ status' = [status EXCEPT ![s] = "SLEEPING"]
      /\ wake' = [wake EXCEPT ![s] = settings.sleepOnError]
      /\ failed_at' = [failed_at EXCEPT ![s] = 0]
      /\ settings.model \in ForkFailsIn
  <2>1. Now + settings.sleepOnError = settings.sleepOnError
    BY SettingsTyped DEF IInv, TypeOK, Now
  <2>. QED
    BY <2>1 DEF TaskForkFails, Sleeps, Becomes, Fails, Now
<1>3. /\ {0, settings.sleepOnError, Epoch} \subseteq Stamp
      /\ ErrorPause \in Int /\ ErrorPause <= settings.sleepOnError
  BY SettingsTyped, PauseTyped DEF IInv, TypeOK, Stamp
<1>4. TypeOK'
  BY <1>1, <1>2, <1>3, SettingsUnchanged DEF IInv, TypeOK, TaskForkFails, SlotReset, mainVars,
     depVars, fixedVars
<1>5. StampsInv'
  BY <1>1, <1>2 DEF IInv, TypeOK, StampsInv, Now
<1>6. PauseInv'
  <2>. SUFFICES ASSUME Is("INDEPENDENT"), NEW t \in Slots, failed_at'[t] > Now - ErrorPause
                PROVE  status'[t] = "SLEEPING" /\ wake'[t] >= failed_at'[t] + ErrorPause
    BY <1>1, <1>2, SettingsUnchanged DEF PauseInv, Pauses, Now
  <2>1. CASE t = s
    BY <1>2, <1>3, <2>1 DEF IInv, TypeOK
  <2>2. CASE t # s
    <3>1. UNCHANGED <<status[t], wake[t], failed_at[t]>>
      BY <1>2, <2>2 DEF IInv, TypeOK
    <3>. QED
      BY <3>1 DEF IInv, PauseInv, Pauses
  <2>. QED
    BY <2>1, <2>2
<1>. QED
  BY <1>1, <1>4, <1>5, <1>6, IntervalStays DEF IInv

\* In the independent model the task itself puts the slot to sleep.
LEMMA TaskPublishesResultPreserves ==
  ASSUME IInv, NEW s \in Slots, TaskPublishesResult(s)
  PROVE  IInv'
<1>1. UNCHANGED <<settings, last_started_at, last_run_slot, sleepUntil, new_thread_required,
                  is_sleeping, sleep_until>>
  BY DEF TaskPublishesResult, depVars, fixedVars
<1>2. PICK result \in Done :
        IF Is("INDEPENDENT")
        THEN /\ IF result = "DONE_MORE" THEN Becomes(s, "AVAILABLE") /\ UNCHANGED wake
                ELSE Sleeps(s, SleepAfter(result))
             /\ IF result = "DONE_FAIL" THEN Fails(s) ELSE UNCHANGED failed_at
        ELSE Becomes(s, result) /\ UNCHANGED <<wake, failed_at>>
  BY DEF TaskPublishesResult, Done
<1>3. /\ {0, settings.sleep, settings.sleepOnError, Epoch} \subseteq Stamp
      /\ settings.sleep \in Int /\ settings.sleepOnError \in Int
  BY SettingsTyped DEF IInv, TypeOK, Stamp
<1>4. Now + SleepAfter(result) \in Stamp
  BY <1>3 DEF SleepAfter, Now
<1>5. TypeOK'
  <2>1. /\ status' \in [Slots -> {"AVAILABLE", "BOOTSTRAPPING", "PID", "SLEEPING"} \union Done]
        /\ wake' \in [Slots -> Stamp] /\ failed_at' \in [Slots -> Stamp]
    BY <1>2, <1>3, <1>4 DEF IInv, TypeOK, Becomes, Sleeps, Fails, Now
  <2>. QED
    BY <1>1, <1>3, <2>1, SettingsUnchanged DEF IInv, TypeOK, TaskPublishesResult, SlotReset,
       mainVars, depVars, fixedVars
<1>6. \A t \in Slots : failed_at'[t] \in {failed_at[t], 0}
  BY <1>2 DEF IInv, TypeOK, Fails, Now
<1>7. StampsInv'
  BY <1>1, <1>6 DEF IInv, StampsInv, Now
<1>8. PauseInv'
  <2>1. CASE ~Is("INDEPENDENT") \/ result # "DONE_FAIL"
    <3>1. UNCHANGED failed_at
      BY <1>2, <2>1
    <3>2. \A t \in Slots : status[t] = "SLEEPING" => UNCHANGED <<status[t], wake[t]>>
      BY <1>2 DEF IInv, TypeOK, TaskPublishesResult, Becomes, Sleeps
    <3>. QED
      BY <1>1, <3>1, <3>2, PauseStays
  <2>2. CASE Is("INDEPENDENT") /\ result = "DONE_FAIL"
    <3>1. /\ status' = [status EXCEPT ![s] = "SLEEPING"]
          /\ wake' = [wake EXCEPT ![s] = settings.sleepOnError]
          /\ failed_at' = [failed_at EXCEPT ![s] = 0]
      BY <1>2, <1>3, <2>2 DEF Becomes, Sleeps, SleepAfter, Fails, Now
    <3>2. ErrorPause \in Int /\ ErrorPause <= settings.sleepOnError
      BY PauseTyped DEF IInv, TypeOK
    <3>. SUFFICES ASSUME NEW t \in Slots, failed_at'[t] > Now - ErrorPause
                  PROVE  status'[t] = "SLEEPING" /\ wake'[t] >= failed_at'[t] + ErrorPause
      BY <1>1, <2>2, SettingsUnchanged DEF PauseInv, Pauses, Now
    <3>3. CASE t = s
      BY <1>3, <3>1, <3>2, <3>3 DEF IInv, TypeOK
    <3>4. CASE t # s
      <4>1. UNCHANGED <<status[t], wake[t], failed_at[t]>>
        BY <3>1, <3>4 DEF IInv, TypeOK
      <4>. QED
        BY <2>2, <4>1 DEF IInv, PauseInv, Pauses
    <3>. QED
      BY <3>3, <3>4
  <2>. QED
    BY <2>1, <2>2
<1>. QED
  BY <1>1, <1>5, <1>7, <1>8, IntervalStays DEF IInv

LEMMA TaskPreserves ==
  ASSUME IInv, NEW s \in Slots, Task(s)
  PROVE  IInv'
BY TaskPublishesPidPreserves, TaskForkFailsPreserves, TaskPublishesResultPreserves DEF Task

-----------------------------------------------------------------------------
(* Time *)

\* Stamps move into the past in step, but for those that are at the bound.
LEMMA PastTyped ==
  ASSUME settings \in Settings, NEW t \in Stamp
  PROVE  /\ Past(t) \in Stamp /\ Past(t) <= t /\ Past(t) >= t - 1
         /\ Past(t) > -Horizon => Past(t) = t - 1
         /\ \A u \in Stamp : t <= u => Past(t) <= Past(u)
BY SettingsTyped DEF Stamp, Past

LEMMA TickPreserves ==
  ASSUME IInv, Tick
  PROVE  IInv'
<1>1. /\ UNCHANGED <<settings, status, killed, mainVars, noThreads, new_thread_required,
                     longest_running_slot, last_run_slot, is_sleeping, found_free>>
      /\ wake' = [s \in Slots |-> Past(wake[s])]
      /\ last_started_at' = [s \in Slots |-> Past(last_started_at[s])]
      /\ termination_requested' = [s \in Slots |-> Past(termination_requested[s])]
      /\ failed_at' = [s \in Slots |-> Past(failed_at[s])]
      /\ sleepUntil' = Past(sleepUntil)
      /\ sleep_until' = Past(sleep_until) /\ wait_until' = Past(wait_until)
  BY DEF Tick
<1>2. settings \in Settings
  BY DEF IInv, TypeOK
<1>3. TypeOK'
  <2>1. wait_until' \in Stamp \union {Indefinitely}
    <3>1. Past(Indefinitely) = Indefinitely
      BY <1>2, SettingsTyped DEF Past
    <3>. QED
      BY <1>1, <1>2, <3>1, PastTyped DEF IInv, TypeOK
  <2>2. {sleepUntil', sleep_until'} \subseteq Stamp
    BY <1>1, <1>2, PastTyped DEF IInv, TypeOK
  <2>3. {wake', last_started_at', termination_requested', failed_at'} \subseteq [Slots -> Stamp]
    BY <1>1, <1>2, PastTyped DEF IInv, TypeOK
  <2>. QED
    BY <1>1, <2>1, <2>2, <2>3, SettingsUnchanged DEF IInv, TypeOK, mainVars
<1>4. StampsInv'
  <2>. SUFFICES ASSUME NEW s \in Slots
                PROVE  Past(last_started_at[s]) <= 0 /\ Past(failed_at[s]) <= 0
    BY <1>1 DEF StampsInv, Now
  <2>1. last_started_at[s] \in Stamp /\ failed_at[s] \in Stamp
    BY DEF IInv, TypeOK
  <2>2. last_started_at[s] <= 0 /\ failed_at[s] <= 0
    BY DEF IInv, StampsInv, Now
  <2>. QED
    BY <1>2, <2>1, <2>2, PastTyped, SettingsTyped DEF Stamp
<1>5. IntervalInv'
  <2>1. LastStart \in Stamp
    BY <1>2, SettingsTyped DEF IInv, TypeOK, LastStart, Stamp
  <2>2. LastStart' = Past(LastStart)
    BY <1>1, <1>2, SettingsTyped, SettingsUnchanged DEF IInv, TypeOK, LastStart, Past
  <2>3. CASE ~Is("FIXED_INTERVAL")
    BY <1>1, <2>3, SettingsUnchanged DEF IntervalInv
  <2>4. CASE Is("FIXED_INTERVAL")
    <3>1. \A s \in Slots : last_started_at[s] \in Stamp /\ last_started_at[s] <= LastStart
      BY <2>4 DEF IInv, TypeOK, IntervalInv
    <3>2. \A s \in Slots : last_started_at'[s] <= LastStart'
      BY <1>1, <1>2, <2>1, <2>2, <3>1, PastTyped
    <3>3. ASSUME new_thread_required PROVE 0 - settings.sleep >= LastStart'
      <4>1. 0 - settings.sleep >= LastStart
        BY <2>4, <3>3 DEF IInv, IntervalInv, Now
      <4>2. Past(LastStart) <= LastStart /\ Past(LastStart) \in Stamp
        BY <1>2, <2>1, PastTyped
      <4>3. {LastStart, LastStart', settings.sleep} \subseteq Int
        BY <1>2, <2>1, <2>2, <4>2, SettingsTyped DEF Stamp
      <4>. QED
        BY <2>2, <4>1, <4>2, <4>3
    <3>. QED
      BY <1>1, <3>2, <3>3 DEF IntervalInv, Now
  <2>. QED
    BY <2>3, <2>4
<1>6. PauseInv'
  <2>. SUFFICES ASSUME settings.model \in ForkFailsIn => Is("INDEPENDENT"),
                       NEW s \in Slots, Past(failed_at[s]) > 0 - ErrorPause
                PROVE  /\ Is("INDEPENDENT") => /\ status[s] = "SLEEPING"
                                              /\ Past(wake[s]) >= Past(failed_at[s]) + ErrorPause
                       /\ Is("DEPENDENT") => Past(sleepUntil) >= Past(failed_at[s]) + ErrorPause
                       /\ Is("FIXED_INTERVAL") =>
                             /\ is_sleeping
                             /\ Past(sleep_until) >= Past(failed_at[s]) + ErrorPause
    BY <1>1, SettingsUnchanged DEF PauseInv, Pauses, Now
  <2>1. {failed_at[s], wake[s], sleepUntil, sleep_until} \subseteq Stamp
    BY DEF IInv, TypeOK
  <2>2. ErrorPause \in 0 .. Horizon - 1 /\ Horizon \in Nat /\ Epoch \in Int
    BY <1>2, SettingsTyped, PauseTyped
  <2>3. Past(failed_at[s]) = failed_at[s] - 1
    <3>1. failed_at[s] \in Stamp /\ Past(failed_at[s]) \in Stamp
      BY <1>2, <2>1, PastTyped
    <3>2. Past(failed_at[s]) > -Horizon
      BY <2>2, <3>1 DEF Stamp
    <3>. QED
      BY <1>2, <3>1, <3>2, PastTyped
  <2>4. failed_at[s] > Now - ErrorPause
    BY <2>1, <2>2, <2>3 DEF Stamp, Now
  <2>5. Pauses(s)
    BY <2>4 DEF IInv, PauseInv
  <2>6. \A t \in Stamp :
          t >= failed_at[s] + ErrorPause => Past(t) >= Past(failed_at[s]) + ErrorPause
    BY <1>2, <2>1, <2>2, <2>3, PastTyped DEF Stamp
  <2>. QED
    BY <2>1, <2>5, <2>6 DEF Pauses
<1>. QED
  BY <1>3, <1>4, <1>5, <1>6 DEF IInv

-----------------------------------------------------------------------------
(* The main thread *)

\* The interval is measured from the last start, and a pause that goes on is not
\* ended.
LEMMA PreStateCheckPreserves ==
  ASSUME IInv, PreStateCheck
  PROVE  IInv'
<1>1. /\ UNCHANGED <<settings, slotVars, cur, depVars, longest_running_slot, last_run_slot,
                     sleep_until, wait_until, found_free, failed_at>>
      /\ pc' = "scan"
  BY DEF PreStateCheck
<1>2. IF Is("FIXED_INTERVAL")
      THEN /\ is_sleeping' = (is_sleeping /\ sleep_until > Now)
           /\ new_thread_required' = (new_thread_required \/ IntervalOver)
      ELSE UNCHANGED <<is_sleeping, new_thread_required>>
  BY DEF PreStateCheck
<1>3. {new_thread_required', is_sleeping'} \subseteq BOOLEAN
  BY <1>2 DEF IInv, TypeOK
<1>4. TypeOK'
  BY <1>1, <1>3, SettingsUnchanged DEF IInv, TypeOK, slotVars, depVars
<1>5. StampsInv'
  BY <1>1, StampsStay DEF slotVars
<1>6. IntervalInv'
  <2>1. CASE ~Is("FIXED_INTERVAL")
    BY <1>1, <2>1, SettingsUnchanged DEF IntervalInv
  <2>2. CASE Is("FIXED_INTERVAL")
    <3>1. UNCHANGED <<LastStart, last_started_at, settings>>
      BY <1>1, SettingsUnchanged DEF LastStart, slotVars
    <3>2. IntervalOver => Now - settings.sleep >= LastStart
      BY SettingsTyped DEF IInv, TypeOK, IntervalOver, LastStart, Now
    <3>. QED
      BY <1>2, <2>2, <3>1, <3>2, SettingsUnchanged DEF IInv, IntervalInv, Now
  <2>. QED
    BY <2>1, <2>2
<1>7. PauseInv'
  <2>1. UNCHANGED ErrorPause /\ \A model : Is(model)' = Is(model)
    BY <1>1, SettingsUnchanged
  <2>2. ASSUME NEW s \in Slots, failed_at[s] > Now - ErrorPause, Pauses(s)
        PROVE  Pauses(s)'
    <3>1. CASE ~Is("FIXED_INTERVAL")
      BY <1>1, <2>1, <2>2, <3>1 DEF Pauses, slotVars, depVars
    <3>2. CASE Is("FIXED_INTERVAL")
      <4>1. is_sleeping /\ sleep_until >= failed_at[s] + ErrorPause
        BY <2>2, <3>2 DEF Pauses
      <4>2. sleep_until \in Int /\ failed_at[s] \in Int /\ ErrorPause \in Int
        BY SettingsTyped, PauseTyped DEF IInv, TypeOK, Stamp
      <4>3. sleep_until > Now
        BY <2>2, <4>1, <4>2 DEF Now
      <4>4. is_sleeping'
        BY <1>2, <3>2, <4>1, <4>3, Zenon
      <4>. QED
        BY <1>1, <2>1, <3>2, <4>1, <4>4, SettingsUnchanged DEF Pauses
    <3>. QED
      BY <3>1, <3>2
  <2>. QED
    BY <1>1, <2>1, <2>2 DEF IInv, PauseInv, Now
<1>. QED
  BY <1>4, <1>5, <1>6, <1>7 DEF IInv

LEMMA VisitsTyped ==
  ASSUME TypeOK, NEW s \in Slots, Visits(s)
  PROVE  UNCHANGED settings /\ cur' \in Slots /\ pc' \in {"pre", "scan", "post"}
BY ThreadModelsAssumption DEF TypeOK, Visits, Slots

\* A slot that is only looked after is neither started nor taken back.
LEMMA CheckPreserves ==
  ASSUME IInv, NEW s \in Slots, Visits(s), CheckThread(s),
         UNCHANGED <<depVars, new_thread_required, last_run_slot, is_sleeping, sleep_until,
                     wait_until, found_free>>,
         longest_running_slot' \in {longest_running_slot, s}
  PROVE  IInv'
<1>1. UNCHANGED <<settings, status, wake, last_started_at, failed_at>>
  BY DEF Visits, CheckThread
<1>2. killed' \in [Slots -> BOOLEAN] /\ termination_requested' \in [Slots -> Stamp]
  <2>1. Now \in Stamp
    BY SettingsTyped DEF IInv, TypeOK, Stamp, Now
  <2>. QED
    BY <2>1 DEF IInv, TypeOK, CheckThread, Terminates
<1>3. TypeOK'
  BY <1>1, <1>2, VisitsTyped, SettingsUnchanged DEF IInv, TypeOK, depVars
<1>. QED
  BY <1>1, <1>3, StampsStay, IntervalStays, PauseStays DEF IInv, depVars

\* What a start does to the slots in every model.
LEMMA StartTyped ==
  ASSUME IInv, NEW s \in Slots, Visits(s), StartsThread(s), UNCHANGED depVars,
         status[s] # "SLEEPING", UNCHANGED <<longest_running_slot, is_sleeping, sleep_until>>,
         last_run_slot' \in {last_run_slot, s}, {new_thread_required', found_free'} \subseteq BOOLEAN,
         wait_until' \in {wait_until, Epoch}
  PROVE  /\ TypeOK' /\ StampsInv' /\ PauseInv'
         /\ last_started_at' = [last_started_at EXCEPT ![s] = 0]
<1>1. /\ UNCHANGED <<settings, wake, termination_requested, killed, failed_at>>
      /\ status' = [status EXCEPT ![s] = "BOOTSTRAPPING"]
      /\ last_started_at' = [last_started_at EXCEPT ![s] = 0]
  BY DEF Visits, StartsThread, Becomes, Now
<1>2. 0 \in Stamp /\ Epoch \in Stamp
  BY SettingsTyped DEF IInv, TypeOK, Stamp
<1>3. TypeOK'
  BY <1>1, <1>2, VisitsTyped, SettingsUnchanged DEF IInv, TypeOK, depVars
<1>4. StampsInv'
  BY <1>1 DEF IInv, TypeOK, StampsInv, Now
<1>5. PauseInv'
  BY <1>1, PauseStays DEF IInv, TypeOK, depVars
<1>. QED
  BY <1>1, <1>3, <1>4, <1>5

LEMMA OtherModelsStart ==
  ASSUME IInv, NEW s \in Slots, IndependentStarts(s) \/ DependentStarts(s)
  PROVE  IInv'
<1>1. /\ Visits(s) /\ StartsThread(s) /\ UNCHANGED <<depVars, fixedVars>>
      /\ status[s] = "AVAILABLE" /\ ~Is("FIXED_INTERVAL")
  BY DEF IndependentStarts, DependentStarts, MayStart, Is
<1>2. TypeOK' /\ StampsInv' /\ PauseInv'
  BY <1>1, StartTyped DEF IInv, TypeOK, fixedVars
<1>3. IntervalInv'
  BY <1>1, SettingsUnchanged DEF IntervalInv, Visits
<1>. QED
  BY <1>2, <1>3 DEF IInv

\* The slot that is started becomes the one that was started last.
LEMMA FixedIntervalStartsPreserves ==
  ASSUME IInv, NEW s \in Slots, FixedIntervalStarts(s)
  PROVE  IInv'
<1>1. /\ Visits(s) /\ StartsThread(s) /\ status[s] # "SLEEPING" /\ UNCHANGED depVars
      /\ new_thread_required' = FALSE /\ wait_until' = Epoch /\ last_run_slot' = s
      /\ found_free' = TRUE /\ UNCHANGED <<longest_running_slot, is_sleeping, sleep_until>>
  BY DEF FixedIntervalStarts, Free, Done
<1>2. /\ TypeOK' /\ StampsInv' /\ PauseInv'
      /\ last_started_at' = [last_started_at EXCEPT ![s] = 0]
  BY <1>1, StartTyped
<1>3. LastStart' = 0
  BY <1>1, <1>2 DEF IInv, TypeOK, LastStart, Slots, NoSlot
<1>4. IntervalInv'
  BY <1>1, <1>2, <1>3 DEF StampsInv, IntervalInv, Now
<1>. QED
  BY <1>2, <1>4 DEF IInv

\* A slot taken back is available; if its job has failed, the time is noted.
LEMMA TakesBackTyped ==
  ASSUME IInv, NEW s \in Slots, Visits(s), TakesBack(s), noThreads' \in 1 .. Threads,
         {sleepUntil', sleep_until'} \subseteq Stamp, {is_sleeping', found_free'} \subseteq BOOLEAN,
         UNCHANGED <<new_thread_required, longest_running_slot, last_run_slot, wait_until>>
  PROVE  /\ TypeOK' /\ StampsInv' /\ IntervalInv'
         /\ UNCHANGED <<settings, ErrorPause>> /\ \A model : Is(model)' = Is(model)
         /\ failed_at' = IF status[s] = "DONE_FAIL" THEN [failed_at EXCEPT ![s] = 0] ELSE failed_at
         /\ status' = [status EXCEPT ![s] = "AVAILABLE"]
         /\ wake' = [wake EXCEPT ![s] = Epoch]
<1>1. /\ UNCHANGED <<settings, last_started_at, termination_requested, killed>>
      /\ failed_at' = IF status[s] = "DONE_FAIL" THEN [failed_at EXCEPT ![s] = 0] ELSE failed_at
      /\ status' = [status EXCEPT ![s] = "AVAILABLE"]
      /\ wake' = [wake EXCEPT ![s] = Epoch]
  BY DEF Visits, TakesBack, Becomes, Fails, Now
<1>2. 0 \in Stamp /\ Epoch \in Stamp
  BY SettingsTyped DEF IInv, TypeOK, Stamp
<1>3. failed_at' \in [Slots -> Stamp] /\ \A t \in Slots : failed_at'[t] \in {failed_at[t], 0}
  BY <1>1, <1>2 DEF IInv, TypeOK
<1>4. TypeOK'
  BY <1>1, <1>2, <1>3, VisitsTyped, SettingsUnchanged DEF IInv, TypeOK
<1>5. StampsInv'
  BY <1>1, <1>3 DEF IInv, StampsInv, Now
<1>6. IntervalInv'
  BY <1>1, IntervalStays
<1>. QED
  BY <1>1, <1>4, <1>5, <1>6, SettingsUnchanged

\* A slot wakes up after its time stamp, and so after the pause.
LEMMA IndependentWakesPreserves ==
  ASSUME IInv, NEW s \in Slots, IndependentWakes(s)
  PROVE  IInv'
<1>1. /\ Is("INDEPENDENT") /\ Visits(s) /\ TakesBack(s) /\ UNCHANGED <<depVars, fixedVars>>
      /\ status[s] = "SLEEPING" /\ Now > wake[s]
  BY DEF IndependentWakes, SleptEnough
<1>2. /\ TypeOK' /\ StampsInv' /\ IntervalInv'
      /\ UNCHANGED <<ErrorPause, failed_at>> /\ \A model : Is(model)' = Is(model)
      /\ status' = [status EXCEPT ![s] = "AVAILABLE"]
      /\ wake' = [wake EXCEPT ![s] = Epoch]
  BY <1>1, TakesBackTyped DEF IInv, TypeOK, depVars, fixedVars
<1>3. ASSUME NEW t \in Slots, failed_at[t] > Now - ErrorPause
      PROVE  status'[t] = "SLEEPING" /\ wake'[t] >= failed_at[t] + ErrorPause
  <2>1. status[t] = "SLEEPING" /\ wake[t] >= failed_at[t] + ErrorPause
    BY <1>1, <1>3 DEF IInv, PauseInv, Pauses
  <2>2. {failed_at[t], wake[t], ErrorPause} \subseteq Int
    BY SettingsTyped, PauseTyped DEF IInv, TypeOK, Stamp
  <2>3. t # s
    BY <1>1, <1>3, <2>1, <2>2 DEF Now
  <2>. QED
    BY <1>2, <2>1, <2>3 DEF IInv, TypeOK
<1>4. ~Is("DEPENDENT") /\ ~Is("FIXED_INTERVAL")
  BY <1>1 DEF Is
<1>. QED
  BY <1>2, <1>3, <1>4 DEF IInv, PauseInv, Pauses, Now

\* Each result sets the pause anew, to no less than the lesser of the two.
LEMMA DependentTakesBackPreserves ==
  ASSUME IInv, NEW s \in Slots, DependentTakesBack(s)
  PROVE  IInv'
<1>1. /\ Is("DEPENDENT") /\ Visits(s) /\ TakesBack(s) /\ UNCHANGED fixedVars
      /\ status[s] \in Done /\ noThreads' = ThreadsAfter(status[s])
  BY DEF DependentTakesBack
<1>2. CASE status[s] = "DONE_MORE"
  <2>1. UNCHANGED sleepUntil
    BY <1>2 DEF DependentTakesBack
  <2>2. noThreads' \in 1 .. Threads
    BY <1>1, ThreadModelsAssumption DEF IInv, TypeOK, ThreadsAfter
  <2>3. TypeOK' /\ StampsInv' /\ IntervalInv' /\ UNCHANGED <<settings, failed_at>>
        /\ status' = [status EXCEPT ![s] = "AVAILABLE"] /\ wake' = [wake EXCEPT ![s] = Epoch]
    BY <1>1, <1>2, <2>1, <2>2, TakesBackTyped DEF IInv, TypeOK, fixedVars
  <2>4. PauseInv'
    BY <1>1, <2>1, <2>3, PauseStays DEF IInv, TypeOK, Done, fixedVars
  <2>. QED
    BY <2>3, <2>4 DEF IInv
<1>3. CASE status[s] \in {"DONE_OK", "DONE_FAIL"}
  <2>1. sleepUntil' = IF status[s] = "DONE_OK" THEN Now + settings.sleep
                      ELSE Now + settings.sleepOnError
    BY <1>3 DEF DependentTakesBack
  <2>2. /\ {settings.sleep, settings.sleepOnError} \subseteq Stamp
        /\ {settings.sleep, settings.sleepOnError, ErrorPause} \subseteq Int
        /\ ErrorPause <= settings.sleep /\ ErrorPause <= settings.sleepOnError
    BY <1>1, SettingsTyped, PauseTyped DEF IInv, TypeOK, Stamp
  <2>3. sleepUntil' \in Stamp /\ sleepUntil' \in Int /\ sleepUntil' >= ErrorPause
    BY <2>1, <2>2 DEF Now
  <2>4. noThreads' \in 1 .. Threads
    BY <1>1, <1>3, ThreadModelsAssumption DEF ThreadsAfter
  <2>5. /\ TypeOK' /\ StampsInv' /\ IntervalInv'
        /\ UNCHANGED ErrorPause /\ \A model : Is(model)' = Is(model)
    BY <1>1, <2>3, <2>4, TakesBackTyped DEF IInv, TypeOK, fixedVars
  <2>6. \A t \in Slots : failed_at'[t] \in Int /\ failed_at'[t] <= 0
    BY <2>5, SettingsTyped DEF TypeOK, StampsInv, Stamp, Now
  <2>7. \A t \in Slots : sleepUntil' >= failed_at'[t] + ErrorPause
    BY <2>2, <2>3, <2>6
  <2>8. ~Is("INDEPENDENT") /\ ~Is("FIXED_INTERVAL")
    BY <1>1 DEF Is
  <2>. QED
    BY <2>5, <2>7, <2>8 DEF IInv, PauseInv, Pauses
<1>. QED
  BY <1>1, <1>2, <1>3 DEF Done

\* A failure prolongs the pause; other results leave it as it is.
LEMMA FixedIntervalTakesBackPreserves ==
  ASSUME IInv, NEW s \in Slots, FixedIntervalTakesBack(s)
  PROVE  IInv'
<1>1. /\ Is("FIXED_INTERVAL") /\ Visits(s) /\ TakesBack(s) /\ UNCHANGED depVars
      /\ UNCHANGED <<new_thread_required, longest_running_slot, last_run_slot, wait_until>>
      /\ is_sleeping' = (is_sleeping \/ status[s] = "DONE_FAIL")
      /\ sleep_until' = IF status[s] = "DONE_FAIL" THEN Now + settings.sleepOnError
                        ELSE sleep_until
      /\ status[s] # "SLEEPING" /\ found_free' = TRUE
  BY DEF FixedIntervalTakesBack, SleepsNow, PausesUntil, Free, Done
<1>2. /\ settings.sleepOnError \in Stamp /\ settings.sleepOnError \in Int
      /\ ErrorPause = settings.sleepOnError
  BY <1>1, SettingsTyped, PauseTyped DEF IInv, TypeOK, Stamp, Is
<1>3. sleep_until' \in Stamp /\ {is_sleeping', found_free'} \subseteq BOOLEAN
  BY <1>1, <1>2 DEF IInv, TypeOK, Now
<1>4. /\ TypeOK' /\ StampsInv' /\ IntervalInv'
      /\ UNCHANGED <<settings, ErrorPause>> /\ \A model : Is(model)' = Is(model)
      /\ failed_at' = IF status[s] = "DONE_FAIL" THEN [failed_at EXCEPT ![s] = 0] ELSE failed_at
      /\ status' = [status EXCEPT ![s] = "AVAILABLE"]
      /\ wake' = [wake EXCEPT ![s] = Epoch]
  BY <1>1, <1>3, TakesBackTyped DEF IInv, TypeOK, depVars
<1>5. ~Is("INDEPENDENT") /\ ~Is("DEPENDENT")
  BY <1>1 DEF Is
<1>6. CASE status[s] = "DONE_FAIL"
  <2>1. \A t \in Slots : failed_at'[t] \in Int /\ failed_at'[t] <= 0
    BY <1>4, SettingsTyped DEF TypeOK, StampsInv, Stamp, Now
  <2>2. is_sleeping'
    BY <1>1, <1>6, Zenon
  <2>3. sleep_until' = settings.sleepOnError
    BY <1>1, <1>2, <1>6 DEF Now
  <2>4. \A t \in Slots : sleep_until' >= failed_at'[t] + ErrorPause
    BY <1>2, <2>1, <2>3
  <2>. QED
    BY <1>4, <1>5, <2>2, <2>4 DEF IInv, PauseInv, Pauses
<1>7. CASE status[s] # "DONE_FAIL"
  <2>1. UNCHANGED <<failed_at, sleep_until>> /\ is_sleeping' = is_sleeping
    BY <1>1, <1>4, <1>7 DEF IInv, TypeOK
  <2>. QED
    BY <1>1, <1>4, <2>1, PauseStays DEF IInv, TypeOK, depVars
<1>. QED
  BY <1>6, <1>7

LEMMA LeavesPreserves ==
  ASSUME IInv, NEW s \in Slots,
         IndependentLeaves(s) \/ DependentLeaves(s) \/ FixedIntervalLeaves(s)
  PROVE  IInv'
<1>1. Visits(s) /\ CheckThread(s) /\ longest_running_slot' \in {longest_running_slot, s}
  BY DEF IndependentLeaves, DependentLeaves, FixedIntervalLeaves, fixedVars
<1>2. UNCHANGED <<depVars, new_thread_required, last_run_slot, is_sleeping, sleep_until,
                  wait_until, found_free>>
  BY DEF IndependentLeaves, DependentLeaves, FixedIntervalLeaves, fixedVars
<1>. QED
  BY <1>1, <1>2, CheckPreserves

LEMMA PostStateCheckPreserves ==
  ASSUME IInv, PostStateCheck
  PROVE  IInv'
<1>1. /\ UNCHANGED <<settings, status, wake, last_started_at, killed, cur, depVars,
                     new_thread_required, longest_running_slot, last_run_slot, is_sleeping,
                     sleep_until, failed_at>>
      /\ pc' = "pre" /\ found_free' = FALSE
  BY DEF PostStateCheck
<1>2. Now \in Stamp /\ (settings.fi_wait_time_max > 0 => Now + settings.fi_wait_time_max \in Stamp)
  BY SettingsTyped DEF IInv, TypeOK, Stamp, Now
<1>3. wait_until' \in Stamp \union {Indefinitely}
  BY <1>2 DEF IInv, TypeOK, PostStateCheck
<1>4. termination_requested' \in [Slots -> Stamp]
  BY <1>2 DEF IInv, TypeOK, PostStateCheck, Terminates
<1>5. TypeOK'
  BY <1>1, <1>3, <1>4, SettingsUnchanged DEF IInv, TypeOK, depVars
<1>. QED
  BY <1>1, <1>5, StampsStay, IntervalStays, PauseStays DEF IInv, depVars

LEMMA MainPreserves ==
  ASSUME IInv, Main
  PROVE  IInv'
BY PreStateCheckPreserves, OtherModelsStart, FixedIntervalStartsPreserves,
   IndependentWakesPreserves, DependentTakesBackPreserves, FixedIntervalTakesBackPreserves,
   LeavesPreserves, PostStateCheckPreserves DEF Main

-----------------------------------------------------------------------------
(* The theorems *)

LEMMA StuttersPreserves ==
  ASSUME IInv, UNCHANGED vars
  PROVE  IInv'
<1>1. UNCHANGED <<settings, status, wake, last_started_at, termination_requested, killed,
                  mainVars, noThreads, sleepUntil, fixedVars, failed_at>>
  BY DEF vars, slotVars, depVars
<1>2. TypeOK'
  BY <1>1, SettingsUnchanged DEF IInv, TypeOK, mainVars, fixedVars
<1>. QED
  BY <1>1, <1>2, StampsStay, IntervalStays, PauseStays DEF IInv, fixedVars

LEMMA NextPreserves == IInv /\ [Next]_vars => IInv'
BY TaskPreserves, TickPreserves, MainPreserves, StuttersPreserves DEF Next

\* In every thread model, however tasks end and time passes.
THEOREM Invariance == Spec => []IInv
BY InitEstablishes, NextPreserves, PTL DEF Spec

\* Every variable keeps its range, noThreads and the time stamps among them.
THEOREM TypeCorrect == Spec => []TypeOK
<1>1. IInv => TypeOK
  BY DEF IInv
<1>. QED
  BY <1>1, Invariance, PTL

\* Only a visit that starts a slot starts one.
LEMMA StartsOnlyIf ==
  ASSUME IInv, [Next]_vars, NEW s \in Slots, Starts(s)
  PROVE  IndependentStarts(s) \/ DependentStarts(s) \/ FixedIntervalStarts(s)
<1>1. CASE \E t \in Slots : Task(t)
  BY <1>1 DEF IInv, TypeOK, Starts, Task, TaskPublishesPid, TaskForkFails, TaskPublishesResult,
     Becomes, Sleeps, Done
<1>2. CASE Tick \/ PreStateCheck \/ PostStateCheck \/ UNCHANGED vars
  BY <1>2 DEF Starts, Tick, PreStateCheck, PostStateCheck, vars, slotVars
<1>3. ASSUME NEW t \in Slots,
             \/ IndependentLeaves(t) \/ DependentLeaves(t) \/ FixedIntervalLeaves(t)
             \/ IndependentWakes(t) \/ DependentTakesBack(t) \/ FixedIntervalTakesBack(t)
      PROVE  FALSE
  BY <1>3 DEF IInv, TypeOK, Starts, IndependentLeaves, DependentLeaves, FixedIntervalLeaves,
     IndependentWakes, DependentTakesBack, FixedIntervalTakesBack, CheckThread, TakesBack, Becomes
<1>4. ASSUME NEW t \in Slots,
             IndependentStarts(t) \/ DependentStarts(t) \/ FixedIntervalStarts(t)
      PROVE  t = s
  BY <1>4 DEF IInv, TypeOK, Starts, IndependentStarts, DependentStarts, FixedIntervalStarts,
     StartsThread, Becomes
<1>. QED
  BY <1>1, <1>2, <1>3, <1>4 DEF Next, Main

\* In the fixed interval model no job is started within the interval after any
\* other (CHANGELOG:118-127).
THEOREM KeepsInterval == Spec => IntervalKept
<1>1. ASSUME IInv, [Next]_vars, NEW s \in Slots, NEW t \in Slots, Is("FIXED_INTERVAL"), Starts(s)
      PROVE  Now - settings.sleep >= last_started_at[t]
  <2>1. FixedIntervalStarts(s)
    BY <1>1, StartsOnlyIf DEF IndependentStarts, DependentStarts, Is
  <2>2. Now - settings.sleep >= LastStart /\ last_started_at[t] <= LastStart
    BY <1>1, <2>1 DEF IInv, IntervalInv, FixedIntervalStarts
  <2>3. {last_started_at[t], LastStart, Now - settings.sleep} \subseteq Int
    BY <1>1, SettingsTyped DEF IInv, TypeOK, LastStart, Stamp, Now
  <2>. QED
    BY <2>2, <2>3
<1>2. IInv /\ [Next]_vars =>
        [\A s, t \in Slots :
           Is("FIXED_INTERVAL") /\ Starts(s) => Now - settings.sleep >= last_started_at[t]]_vars
  BY <1>1
<1>. QED
  BY <1>2, Invariance, PTL DEF Spec, IntervalKept

\* After a failure nothing is started before the pause is over, where no fork fails
\* but in the independent model.
THEOREM KeepsErrorPause ==
  ASSUME ForkFailsIn \subseteq {"INDEPENDENT"}
  PROVE  Spec => ErrorPauseKept
<1>1. ASSUME IInv, [Next]_vars, NEW s \in Slots, NEW t \in Slots, Starts(s),
             Is("INDEPENDENT") => s = t
      PROVE  Now - ErrorPause >= failed_at[t]
  <2>1. {failed_at[t], ErrorPause, sleepUntil} \subseteq Int
    BY <1>1, SettingsTyped, PauseTyped DEF IInv, TypeOK, Stamp
  <2>2. failed_at[t] > Now - ErrorPause => Pauses(t)
    BY <1>1 DEF IInv, PauseInv, Is
  <2>3. CASE IndependentStarts(s)
    BY <1>1, <2>1, <2>2, <2>3 DEF IndependentStarts, Pauses, Now
  <2>4. CASE DependentStarts(s)
    BY <1>1, <2>1, <2>2, <2>4 DEF DependentStarts, MayStart, Pauses, Now
  <2>5. CASE FixedIntervalStarts(s)
    BY <1>1, <2>1, <2>2, <2>5 DEF FixedIntervalStarts, SleepsNow, Pauses, Now
  <2>. QED
    BY <1>1, <2>3, <2>4, <2>5, StartsOnlyIf
<1>2. IInv /\ [Next]_vars =>
        [\A s, t \in Slots :
           Starts(s) /\ (Is("INDEPENDENT") => s = t) => Now - ErrorPause >= failed_at[t]]_vars
  BY <1>1
<1>. QED
  BY <1>2, Invariance, PTL DEF Spec, ErrorPauseKept

-----------------------------------------------------------------------------
(* The wait for a slot *)

\* A task starts no job and, in the fixed interval model, takes no slot back.
LEMMA TaskLeaves ==
  ASSUME NEW s \in Slots, Task(s)
  PROVE  /\ UNCHANGED <<settings, mainVars, last_started_at, fixedVars>>
         /\ UNCHANGED <<longest_running_slot, last_run_slot, new_thread_required, is_sleeping,
                         wait_until, found_free>>
BY DEF Task, TaskPublishesPid, TaskForkFails, TaskPublishesResult, fixedVars

LEMMA TaskMoves ==
  ASSUME IInv, NEW s \in Slots, Task(s), NEW t \in Slots
  PROVE  /\ status'[t] = "BOOTSTRAPPING" => status[t] = "BOOTSTRAPPING"
         /\ Runs(t)' => Runs(t)
         /\ Is("FIXED_INTERVAL") /\ status'[t] = "AVAILABLE" => status[t] = "AVAILABLE"
<1>1. CASE TaskPublishesPid(s) \/ TaskForkFails(s)
  BY <1>1 DEF TaskPublishesPid, TaskForkFails, Sleeps, Becomes, Runs, IInv, TypeOK
<1>2. CASE TaskPublishesResult(s)
  <2>1. PICK result \in Done :
          IF Is("INDEPENDENT")
          THEN /\ IF result = "DONE_MORE" THEN Becomes(s, "AVAILABLE") /\ UNCHANGED wake
                  ELSE Sleeps(s, SleepAfter(result))
               /\ IF result = "DONE_FAIL" THEN Fails(s) ELSE UNCHANGED failed_at
          ELSE Becomes(s, result) /\ UNCHANGED <<wake, failed_at>>
    BY <1>2 DEF TaskPublishesResult, Done
  <2>2. /\ status' = [status EXCEPT ![s] = status'[s]]
        /\ status'[s] \in Done \union {"SLEEPING", "AVAILABLE"}
        /\ Is("FIXED_INTERVAL") => status'[s] # "AVAILABLE"
    BY <2>1 DEF Sleeps, Becomes, Is, Done, IInv, TypeOK
  <2>. QED
    BY <2>2 DEF Runs, Done, IInv, TypeOK
<1>. QED
  BY <1>1, <1>2 DEF Task

\* Where the main thread is after a visit.
LEMMA VisitMovesOn ==
  ASSUME IInv, NEW s \in Slots, Visits(s)
  PROVE  /\ pc' # "scan" => cur' = 0
         /\ pc' # "pre" /\ UNCHANGED settings
         /\ \A t \in Slots : Visited(t)' => Visited(t) \/ t = s
BY ThreadModelsAssumption DEF IInv, TypeOK, Visits, Visited, Slots

\* A visit that starts a job or takes a slot back leaves no job that is due and lacks
\* nothing but a slot: it was due and is not any more, or a pause comes first.
LEMMA FreeVisitLacksNothing ==
  ASSUME IInv, NEW s \in Slots,
         \/ IndependentStarts(s) \/ DependentStarts(s) \/ FixedIntervalStarts(s)
         \/ IndependentWakes(s) \/ DependentTakesBack(s) \/ FixedIntervalTakesBack(s)
  PROVE  /\ Visits(s) /\ (StartsThread(s) \/ TakesBack(s))
         /\ ~Lacking'
<1>1. Visits(s) /\ (StartsThread(s) \/ TakesBack(s))
  BY DEF IndependentStarts, DependentStarts, FixedIntervalStarts, IndependentWakes,
     DependentTakesBack, FixedIntervalTakesBack
<1>2. Is("FIXED_INTERVAL") => (new_thread_required' => is_sleeping')
  BY DEF IndependentStarts, DependentStarts, FixedIntervalStarts, IndependentWakes,
     DependentTakesBack, FixedIntervalTakesBack, Is
<1>. QED
  BY <1>1, <1>2, VisitMovesOn, SettingsUnchanged DEF Lacking

\* A visit that leaves the slot alone has not found it free, if a job lacks a slot.
LEMMA LeavesMoves ==
  ASSUME IInv, NEW s \in Slots,
         IndependentLeaves(s) \/ DependentLeaves(s) \/ FixedIntervalLeaves(s)
  PROVE  /\ Visits(s) /\ Lacking' = Lacking
         /\ UNCHANGED <<settings, status, last_started_at, last_run_slot, wait_until, found_free>>
         /\ Lacking => FixedIntervalLeaves(s) /\ status[s] # "AVAILABLE"
<1>1. /\ Visits(s)
      /\ UNCHANGED <<settings, status, last_started_at, last_run_slot, wait_until,
                     new_thread_required, is_sleeping, found_free>>
  BY VisitMovesOn DEF IndependentLeaves, DependentLeaves, FixedIntervalLeaves, CheckThread, fixedVars
<1>2. Lacking => FixedIntervalLeaves(s)
  BY DEF Lacking, IndependentLeaves, DependentLeaves, FixedIntervalLeaves, Is
<1>3. FixedIntervalLeaves(s) => status[s] # "AVAILABLE"
  BY DEF FixedIntervalLeaves, Free
<1>. QED
  BY <1>1, <1>2, <1>3, SettingsUnchanged DEF Lacking

\* The end of the wait, counted from the last start of any job.
WaitEnds ==
  Is("FIXED_INTERVAL") /\ settings.fi_wait_time_max > 0 /\ wait_until > Epoch =>
    LastStart + settings.sleep + settings.fi_wait_time_max
      <= IF wait_until > Now THEN wait_until ELSE Now

NoneFree ==
  /\ pc # "scan" => cur = 0
  /\ pc = "pre" => ~found_free
  /\ Lacking => ~found_free /\ \A s \in Slots : Visited(s) => status[s] # "AVAILABLE"

LEMMA WaitInvIs == WaitInv <=> NoneFree /\ WaitEnds
  BY DEF WaitInv, NoneFree, WaitEnds

LEMMA WaitEndStays ==
  ASSUME WaitEnds, UNCHANGED <<settings, last_started_at, last_run_slot, wait_until>>
  PROVE  WaitEnds'
<1>1. UNCHANGED <<LastStart, Epoch>> /\ Is("FIXED_INTERVAL")' = Is("FIXED_INTERVAL")
  BY SettingsUnchanged DEF LastStart
<1>. QED
  BY <1>1 DEF WaitEnds, Now

\* A step that takes no slot back, nor looks at another one.
LEMMA NoneFreeStays ==
  ASSUME NoneFree,
         UNCHANGED <<settings, mainVars, new_thread_required, is_sleeping, found_free>>,
         \A s \in Slots : Is("FIXED_INTERVAL") /\ status'[s] = "AVAILABLE" =>
                            status[s] = "AVAILABLE"
  PROVE  NoneFree'
<1>1. UNCHANGED <<pc, cur>> /\ Lacking' = Lacking /\ \A s \in Slots : Visited(s)' = Visited(s)
  BY SettingsUnchanged DEF mainVars, Lacking, Visited
<1>. QED
  BY <1>1 DEF NoneFree, Lacking

\* Before the first visit of a turn, and after the last, nothing is to be shown of the
\* slots.
LEMMA ChecksVisitNone ==
  ASSUME NoneFree, PreStateCheck \/ PostStateCheck
  PROVE  cur' = 0 /\ ~found_free' /\ \A s \in Slots : ~Visited(s)'
<1>2. ~found_free'
  BY DEF PreStateCheck, PostStateCheck, NoneFree
<1>1. UNCHANGED cur /\ cur = 0 /\ pc' \in {"scan", "pre"}
  BY DEF PreStateCheck, PostStateCheck, NoneFree
<1>. QED
  BY <1>1, <1>2, ThreadModelsAssumption DEF Visited, Slots

LEMMA NextKeepsNoneFree == IInv /\ NoneFree /\ [Next]_vars => NoneFree'
<1>. SUFFICES ASSUME IInv, NoneFree, [Next]_vars PROVE NoneFree'
  OBVIOUS
<1>1. ASSUME NEW s \in Slots, Task(s)
      PROVE  NoneFree'
  <2>1. UNCHANGED <<settings, mainVars, new_thread_required, is_sleeping, found_free>>
    BY <1>1, TaskLeaves
  <2>2. \A t \in Slots : Is("FIXED_INTERVAL") /\ status'[t] = "AVAILABLE" => status[t] = "AVAILABLE"
    BY <1>1, TaskMoves
  <2>. QED
    BY <2>1, <2>2, NoneFreeStays
<1>2. CASE Tick \/ UNCHANGED vars
  BY <1>2, NoneFreeStays DEF Tick, vars, slotVars, fixedVars
<1>3. CASE PreStateCheck \/ PostStateCheck
  BY <1>3, ChecksVisitNone DEF NoneFree
<1>4. ASSUME NEW s \in Slots,
             \/ IndependentStarts(s) \/ DependentStarts(s) \/ FixedIntervalStarts(s)
             \/ IndependentWakes(s) \/ DependentTakesBack(s) \/ FixedIntervalTakesBack(s)
      PROVE  NoneFree'
  BY <1>4, FreeVisitLacksNothing, VisitMovesOn DEF NoneFree
<1>5. ASSUME NEW s \in Slots,
             IndependentLeaves(s) \/ DependentLeaves(s) \/ FixedIntervalLeaves(s)
      PROVE  NoneFree'
  <2>1. /\ Visits(s) /\ Lacking' = Lacking /\ UNCHANGED <<status, found_free>>
        /\ Lacking => status[s] # "AVAILABLE"
    BY <1>5, LeavesMoves
  <2>2. (pc' # "scan" => cur' = 0) /\ pc' # "pre" /\ \A t \in Slots : Visited(t)' => Visited(t) \/ t = s
    BY <2>1, VisitMovesOn
  <2>. QED
    BY <2>1, <2>2 DEF NoneFree
<1>. QED
  BY <1>1, <1>2, <1>3, <1>4, <1>5 DEF Next, Main

\* A wait begins when the interval is over, and its end comes closer no faster than
\* the last start moves away.
LEMMA NextKeepsWaitEnd == IInv /\ WaitEnds /\ [Next]_vars => WaitEnds'
<1>. SUFFICES ASSUME IInv, WaitEnds, [Next]_vars PROVE WaitEnds'
  OBVIOUS
<1>1. CASE \E s \in Slots : Task(s)
  BY <1>1, TaskLeaves, WaitEndStays
<1>2. CASE PreStateCheck \/ UNCHANGED vars
  BY <1>2, WaitEndStays DEF PreStateCheck, vars, slotVars, fixedVars
<1>. DEFINE wait == settings.fi_wait_time_max
<1>3. /\ settings.sleep \in 0 .. Horizon - 1 /\ wait \in -1 .. Horizon - 1
      /\ Horizon \in Nat /\ Epoch = -(Horizon + 1) /\ settings.sleep + wait <= Horizon
      /\ LastStart \in Stamp /\ wait_until \in Stamp \union {Indefinitely}
      /\ Indefinitely = Epoch - 1
  BY SettingsTyped DEF IInv, TypeOK, LastStart, Stamp
<1>4. CASE Tick
  <2>1. /\ UNCHANGED <<settings, last_run_slot>> /\ wait_until' = Past(wait_until)
        /\ last_started_at' = [s \in Slots |-> Past(last_started_at[s])]
    BY <1>4 DEF Tick
  <2>2. LastStart' = Past(LastStart)
    BY <1>3, <2>1, SettingsUnchanged DEF IInv, TypeOK, LastStart, Past
  <2>3. LastStart' <= LastStart /\ LastStart' \in Int /\ LastStart \in Int
        /\ (LastStart > -Horizon => LastStart' = LastStart - 1)
    BY <1>3, <2>2 DEF Past, Stamp
  <2>. SUFFICES ASSUME Is("FIXED_INTERVAL"), wait > 0, wait_until' > Epoch
                PROVE  LastStart' + settings.sleep + wait
                         <= IF wait_until' > 0 THEN wait_until' ELSE 0
    BY <2>1, SettingsUnchanged DEF WaitEnds, Now
  <2>4. wait_until > Epoch /\ wait_until \in Int
    BY <1>3, <2>1 DEF Past, Stamp
  <2>5. LastStart + settings.sleep + wait <= IF wait_until > 0 THEN wait_until ELSE 0
    BY <2>4 DEF WaitEnds, Now
  <2>6. CASE wait_until > 0
    <3>1. wait_until' = wait_until - 1
      BY <1>3, <2>1, <2>4, <2>6 DEF Past
    <3>. QED
      BY <1>3, <2>3, <2>4, <2>5, <2>6, <3>1
  <2>7. CASE wait_until <= 0
    <3>1. wait_until' <= 0 /\ wait_until' \in Int
      BY <1>3, <2>1, <2>4, <2>7 DEF Past
    <3>. QED
      BY <1>3, <2>3, <2>4, <2>5, <2>7, <3>1
  <2>. QED
    BY <2>4, <2>6, <2>7
<1>5. CASE PostStateCheck
  <2>1. UNCHANGED <<settings, last_started_at, last_run_slot>>
    BY <1>5 DEF PostStateCheck
  <2>2. CASE wait_until' = wait_until
    BY <2>1, <2>2, WaitEndStays
  <2>3. CASE wait_until' # wait_until /\ wait > 0
    <3>1. Lacking /\ wait_until' = Now + wait
      BY <1>5, <2>3 DEF PostStateCheck, Lacking
    <3>2. Now - settings.sleep >= LastStart
      BY <3>1 DEF Lacking, IInv, IntervalInv
    <3>3. LastStart + settings.sleep + wait <= wait_until' /\ wait_until' > 0
      BY <1>3, <2>3, <3>1, <3>2 DEF Now, Stamp
    <3>4. UNCHANGED LastStart
      BY <2>1, SettingsUnchanged DEF LastStart
    <3>. QED
      BY <2>1, <3>3, <3>4 DEF WaitEnds, Now
  <2>4. CASE ~(wait > 0)
    BY <2>1, <2>4 DEF WaitEnds
  <2>. QED
    BY <2>2, <2>3, <2>4
<1>6. ASSUME NEW s \in Slots, FixedIntervalStarts(s)
      PROVE  WaitEnds'
  BY <1>3, <1>6, VisitMovesOn, SettingsUnchanged DEF FixedIntervalStarts, WaitEnds
<1>7. ASSUME NEW s \in Slots,
             \/ IndependentStarts(s) \/ DependentStarts(s)
             \/ IndependentWakes(s) \/ DependentTakesBack(s)
      PROVE  WaitEnds'
  <2>1. ~Is("FIXED_INTERVAL") /\ UNCHANGED settings
    BY <1>7, VisitMovesOn
    DEF IndependentStarts, DependentStarts, IndependentWakes, DependentTakesBack, Is
  <2>. QED
    BY <2>1, SettingsUnchanged DEF WaitEnds
<1>8. ASSUME NEW s \in Slots, FixedIntervalTakesBack(s)
      PROVE  WaitEnds'
  BY <1>8, VisitMovesOn, WaitEndStays DEF FixedIntervalTakesBack, TakesBack
<1>9. ASSUME NEW s \in Slots,
             IndependentLeaves(s) \/ DependentLeaves(s) \/ FixedIntervalLeaves(s)
      PROVE  WaitEnds'
  BY <1>9, LeavesMoves, WaitEndStays
<1>. QED
  BY <1>1, <1>2, <1>4, <1>5, <1>6, <1>7, <1>8, <1>9 DEF Next, Main

\* Only the check after a turn asks a job to end while the main thread is there, the
\* one in longest_running_slot, and only if a job is due that lacks nothing but a slot.
LEMMA WhoGoes ==
  ASSUME IInv, [Next]_vars, NEW s \in Slots,
         pc = "post", termination_requested[s] = Epoch, termination_requested'[s] = Now
  PROVE  PostStateCheck /\ Lacking /\ WaitIsOver /\ s = longest_running_slot /\ status[s] = "PID"
<1>1. Epoch # Now /\ Past(Epoch) # Now
  BY SettingsTyped DEF IInv, TypeOK, Past, Now
<1>2. PostStateCheck
  <2>1. CASE \E u \in Slots : Task(u)
    BY <1>1, <2>1 DEF Task, TaskPublishesPid, TaskForkFails, TaskPublishesResult, SlotReset,
       IInv, TypeOK
  <2>2. CASE Tick \/ UNCHANGED vars
    BY <1>1, <2>2 DEF Tick, vars, slotVars
  <2>3. CASE Main
    BY <2>3 DEF Main, PreStateCheck, Visits, IndependentStarts, IndependentWakes,
       IndependentLeaves, DependentStarts, DependentTakesBack, DependentLeaves,
       FixedIntervalStarts, FixedIntervalTakesBack, FixedIntervalLeaves
  <2>. QED
    BY <2>1, <2>2, <2>3 DEF Next
<1>. QED
  BY <1>1, <1>2 DEF PostStateCheck, Lacking, MayTerm, Terminates, IInv, TypeOK

\* From the end of the interval on a wait is counted, and a turn that could start no slot
\* has found none, in every model and however many slots there are.
THEOREM WaitInvariance == Spec => []WaitInv
<1>1. Init => WaitInv
  BY SettingsTyped DEF Init, WaitInv, Lacking
<1>2. IInv /\ WaitInv /\ [Next]_vars => WaitInv'
  <2>1. WaitInv' <=> NoneFree' /\ WaitEnds'
    BY DEF WaitInv, NoneFree, WaitEnds
  <2>. QED
    BY <2>1, WaitInvIs, NextKeepsNoneFree, NextKeepsWaitEnd
<1>. QED
  BY <1>1, <1>2, Invariance, PTL DEF Spec

\* A job has to go for want of a slot only when the interval and the whole wait have
\* passed since the last start of any, and in a turn in which main found no slot free;
\* one may have become free since its visit (CHANGELOG:133-145).
THEOREM KeepsWait == Spec => WaitComesFirst
<1>1. ASSUME IInv, WaitInv, [Next]_vars, NEW s \in Slots, NEW t \in Slots,
             pc = "post", termination_requested[s] = Epoch, termination_requested'[s] = Now
      PROVE  /\ ~found_free
             /\ last_started_at[t] + settings.sleep + settings.fi_wait_time_max <= Now
  <2>1. Lacking /\ WaitIsOver
    BY <1>1, WhoGoes
  <2>2. ~found_free
    BY <1>1, <2>1 DEF WaitInv
  <2>3. last_started_at[t] <= LastStart /\ LastStart <= Now - settings.sleep
    BY <1>1, <2>1 DEF Lacking, IInv, IntervalInv
  <2>4. {last_started_at[t], LastStart, settings.sleep, settings.fi_wait_time_max} \subseteq Int
    BY <1>1, SettingsTyped DEF IInv, TypeOK, LastStart, Stamp
  <2>5. CASE settings.fi_wait_time_max = 0
    BY <2>2, <2>3, <2>4, <2>5 DEF Now
  <2>6. CASE settings.fi_wait_time_max > 0 /\ wait_until > Epoch /\ wait_until <= Now
    <3>1. LastStart + settings.sleep + settings.fi_wait_time_max
            <= IF wait_until > Now THEN wait_until ELSE Now
      BY <1>1, <2>1, <2>6 DEF WaitInv, Lacking
    <3>2. ~(wait_until > Now)
      <4>1. wait_until \in Int
        BY <1>1, SettingsTyped DEF IInv, TypeOK, Stamp
      <4>. QED
        BY <2>6, <4>1 DEF Now
    <3>. QED
      BY <2>2, <2>3, <2>4, <3>1, <3>2 DEF Now
  <2>. QED
    BY <2>1, <2>5, <2>6 DEF WaitIsOver
<1>2. IInv /\ WaitInv /\ [Next]_vars =>
        [\A s, t \in Slots :
           pc = "post" /\ termination_requested[s] = Epoch /\ termination_requested'[s] = Now =>
             /\ ~found_free
             /\ last_started_at[t] + settings.sleep + settings.fi_wait_time_max <= Now]_vars
  BY <1>1
<1>. QED
  BY <1>2, Invariance, WaitInvariance, PTL DEF Spec, WaitComesFirst

-----------------------------------------------------------------------------
(* The job that has to go *)

\* A step that starts no job, nor looks at another slot.
LEMMA OldestStays ==
  ASSUME IInv, OldestInv,
         UNCHANGED <<settings, mainVars, last_started_at, new_thread_required, is_sleeping,
                     longest_running_slot>>,
         \A s \in Slots : /\ status'[s] = "BOOTSTRAPPING" => status[s] = "BOOTSTRAPPING"
                          /\ Runs(s)' => Runs(s)
  PROVE  OldestInv'
<1>1. UNCHANGED <<pc, cur>> /\ Lacking' = Lacking /\ \A s \in Slots : Visited(s)' = Visited(s)
  BY SettingsUnchanged DEF mainVars, Lacking, Visited
<1>2. \A s \in Slots : longest_running_slot # NoSlot /\ IsOlder(longest_running_slot, s)
                         => IsOlder(longest_running_slot, s)'
  BY DEF IInv, TypeOK, IsOlder
<1>. QED
  BY <1>1, <1>2 DEF OldestInv, Lacking, Now

LEMMA TaskKeepsOldest ==
  ASSUME IInv, OldestInv, NEW s \in Slots, Task(s)
  PROVE  OldestInv'
<1>1. UNCHANGED <<settings, mainVars, last_started_at, new_thread_required, is_sleeping,
                  longest_running_slot>>
  BY TaskLeaves
<1>2. \A t \in Slots : /\ status'[t] = "BOOTSTRAPPING" => status[t] = "BOOTSTRAPPING"
                       /\ Runs(t)' => Runs(t)
  BY TaskMoves
<1>. QED
  BY <1>1, <1>2, OldestStays

\* Time makes all jobs older together, and passes while no task forks.
LEMMA TickKeepsOldest ==
  ASSUME IInv, OldestInv, Tick
  PROVE  OldestInv'
<1>1. /\ UNCHANGED <<settings, status, mainVars, new_thread_required, is_sleeping,
                     longest_running_slot>>
      /\ last_started_at' = [s \in Slots |-> Past(last_started_at[s])]
      /\ \A s \in Slots : status[s] # "BOOTSTRAPPING"
  BY DEF Tick
<1>2. UNCHANGED <<pc, cur>> /\ Lacking' = Lacking /\ \A s \in Slots : Visited(s)' = Visited(s)
  BY <1>1, SettingsUnchanged DEF mainVars, Lacking, Visited
<1>3. ASSUME NEW s \in Slots, NEW t \in Slots, IsOlder(s, t)
      PROVE  IsOlder(s, t)'
  BY <1>1, <1>3, PastTyped DEF IsOlder, Runs, IInv, TypeOK
<1>4. longest_running_slot # NoSlot => longest_running_slot \in Slots
  BY DEF IInv, TypeOK
<1>. QED
  BY <1>1, <1>2, <1>3, <1>4 DEF OldestInv

LEMMA ChecksKeepOldest ==
  ASSUME IInv, NoneFree, OldestInv, PreStateCheck \/ PostStateCheck
  PROVE  OldestInv'
<1>1. UNCHANGED <<status, last_started_at>>
  BY DEF PreStateCheck, PostStateCheck, slotVars
<1>. QED
  BY <1>1, ChecksVisitNone DEF OldestInv, Now

LEMMA FreeVisitKeepsOldest ==
  ASSUME IInv, OldestInv, NEW s \in Slots,
         \/ IndependentStarts(s) \/ DependentStarts(s) \/ FixedIntervalStarts(s)
         \/ IndependentWakes(s) \/ DependentTakesBack(s) \/ FixedIntervalTakesBack(s)
  PROVE  OldestInv'
<1>1. Visits(s) /\ (StartsThread(s) \/ TakesBack(s)) /\ ~Lacking'
  BY FreeVisitLacksNothing
<1>2. \A t \in Slots : status'[t] = "BOOTSTRAPPING" => last_started_at'[t] = Now
  <2>1. CASE StartsThread(s)
    BY <2>1 DEF StartsThread, Becomes, OldestInv, IInv, TypeOK
  <2>2. CASE TakesBack(s)
    BY <2>2 DEF TakesBack, Becomes, OldestInv, IInv, TypeOK
  <2>. QED
    BY <1>1, <2>1, <2>2
<1>. QED
  BY <1>1, <1>2 DEF OldestInv, Now

\* Of two slots, the one in hand and the one before, the older is remembered, also if
\* it forks or its job ends meanwhile.
LEMMA LeavesKeepsOldest ==
  ASSUME Threads <= 2, IInv, OldestInv, NEW s \in Slots,
         IndependentLeaves(s) \/ DependentLeaves(s) \/ FixedIntervalLeaves(s)
  PROVE  OldestInv'
<1>1. Visits(s) /\ UNCHANGED <<settings, status, last_started_at>>
  BY LeavesMoves
<1>2. SUFFICES ASSUME Lacking', NEW t \in Slots, Visited(t)'
               PROVE  longest_running_slot' # NoSlot /\ IsOlder(longest_running_slot', t)
  BY <1>1 DEF OldestInv, IsOlder, Runs, Now
<1>3. Lacking /\ FixedIntervalLeaves(s)
  BY <1>2, LeavesMoves
<1>4. /\ longest_running_slot' = IF RunsLongest(s) THEN s ELSE longest_running_slot
      /\ NoSlot \notin Slots
  BY <1>3 DEF FixedIntervalLeaves, NoSlot, Slots
<1>5. \A u \in Slots : last_started_at[u] \in Int /\ last_started_at[u] <= 0
  BY SettingsTyped DEF IInv, TypeOK, StampsInv, Stamp, Now
<1>6. \A u \in Slots : Runs(u) /\ status[u] # "PID" => last_started_at[u] = 0
  BY DEF Runs, OldestInv, Now
<1>7. t = s \/ Visited(t)
  BY <1>1, <1>2, VisitMovesOn
<1>8. Visited(t) => longest_running_slot \in Slots /\ IsOlder(longest_running_slot, t)
  BY <1>3 DEF OldestInv, IInv, TypeOK
<1>9. CASE RunsLongest(s)
  <2>1. CASE t = s
    BY <1>4, <1>5, <1>9, <2>1 DEF IsOlder
  <2>2. CASE t # s
    <3>1. longest_running_slot = s \/ longest_running_slot = t
      BY <1>7, <1>8, <2>2, ThreadModelsAssumption DEF Slots
    <3>2. IsOlder(s, t)
      BY <1>4, <1>5, <1>6, <1>7, <1>8, <1>9, <2>2, <3>1 DEF RunsLongest, IsOlder
    <3>. QED
      BY <1>4, <1>7, <1>8, <1>9, <2>2, <3>2
  <2>. QED
    BY <2>1, <2>2
<1>10. CASE ~RunsLongest(s)
  <2>1. /\ longest_running_slot \in Slots
        /\ last_started_at[longest_running_slot] <= last_started_at[s]
    BY <1>5, <1>10 DEF RunsLongest, IInv, TypeOK
  <2>. QED
    BY <1>4, <1>7, <1>8, <1>10, <2>1 DEF IsOlder
<1>. QED
  BY <1>9, <1>10

LEMMA NextKeepsOldest ==
  ASSUME Threads <= 2
  PROVE  IInv /\ NoneFree /\ OldestInv /\ [Next]_vars => OldestInv'
<1>. SUFFICES ASSUME IInv, NoneFree, OldestInv, [Next]_vars PROVE OldestInv'
  OBVIOUS
<1>1. CASE UNCHANGED vars
  <2>1. UNCHANGED <<settings, status, mainVars, last_started_at, new_thread_required, is_sleeping,
                    longest_running_slot>>
    BY <1>1 DEF vars, slotVars, fixedVars
  <2>. QED
    BY <2>1, OldestStays DEF Runs
<1>2. CASE Main
  BY <1>2, ChecksKeepOldest, FreeVisitKeepsOldest, LeavesKeepsOldest DEF Main
<1>. QED
  BY <1>1, <1>2, TaskKeepsOldest, TickKeepsOldest DEF Next

\* What a turn has found so far in the fixed interval model with two slots: an older
\* job is remembered than any that it has come by.
THEOREM OldestInvariance ==
  ASSUME Threads <= 2
  PROVE  Spec => []OldestInv
<1>1. Init => OldestInv
  BY DEF Init, OldestInv, Visited, Lacking
<1>2. WaitInv => NoneFree
  BY WaitInvIs
<1>. QED
  BY <1>1, <1>2, NextKeepsOldest, Invariance, WaitInvariance, PTL DEF Spec

\* With two slots, the job that has to go for want of a free slot is none younger than
\* the other (CHANGELOG:139-141): the run timed_three_slots shows that three are too many.
THEOREM KeepsOldest ==
  ASSUME Threads <= 2
  PROVE  Spec => OldestIsTerminated
<1>1. ASSUME IInv, WaitInv, OldestInv, [Next]_vars, NEW s \in Slots, NEW t \in Slots,
             pc = "post", termination_requested[s] = Epoch, termination_requested'[s] = Now
      PROVE  /\ status[t] # "AVAILABLE"
             /\ status[t] = "PID" => last_started_at[s] <= last_started_at[t]
  <2>1. Lacking /\ s = longest_running_slot /\ status[s] = "PID"
    BY <1>1, WhoGoes
  <2>2. status[t] # "AVAILABLE" /\ IsOlder(s, t)
    BY <1>1, <2>1 DEF WaitInv, OldestInv, Visited
  <2>. QED
    BY <2>1, <2>2 DEF IsOlder, Runs
<1>2. IInv /\ WaitInv /\ OldestInv /\ [Next]_vars =>
        [\A s, t \in Slots :
           pc = "post" /\ termination_requested[s] = Epoch /\ termination_requested'[s] = Now =>
             /\ status[t] # "AVAILABLE"
             /\ status[t] = "PID" => last_started_at[s] <= last_started_at[t]]_vars
  BY <1>1
<1>. QED
  BY <1>2, Invariance, WaitInvariance, OldestInvariance, PTL DEF Spec, OldestIsTerminated
=============================================================================
