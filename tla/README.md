# The Fat Controller: specification and verification

The Fat Controller runs a command again and again, in up to `threads` processes
at a time. This directory holds TLA+ specifications of its source, configurations
for TLC and proofs checked by TLAPS. `src/` below is the root of the repository.

## 1. The system

### Components

| Component | State it keeps | Operations | Right if |
|---|---|---|---|
| **Job dispatcher** `jobdispatching.c` | `slots[]` (status, termination_requested, last_started_at), `handledSignal`, the locals of `dispatch` and `waitForThreads` | `dispatch`, `task`, `check_thread`, `thread_proc_term(_all)`, `thread_proc_kill`, `slot_reset`, `waitForThreads`, `signalHandler` | one job per slot; none started after a stop signal; jobs over their time limit end; a shutdown ends, and not before the jobs |
| **Thread models** `jobdispatching.c:819-1108` | `noThreads`, `sleepUntil` (static), `fixed_interval_state`, `independent_mode_state` | `*ThreadModel`, `presc_*`, `postsc_*` | starts are as far apart as the options say; back-off after errors; every slot is used again |
| **Sub-process log** `subprocslog.c` | the list of sources, `source_count`, `initialized`, a mutex and a read-write lock, the log files | `initialize`, `reinitialize`, `deinitialize`, `write_buffers`, `append_source`, `remove_source(s)` | no output lost; each pipe closed once, by its owner; no lock kept |
| **Daemonise** `daemonise.c` | the pid file and its lock | `daemonStart`, `daemonize`, `daemonShutdown` | at most one daemon per pid file; the file names it |
| **Control script** `scripts/fatcontrollerd` | none: it reads and removes the pid file | start, debug, stop, restart, status | what it reports is so; the program gets the settings of the configuration file, where the shell does not make other words of them |
| **Main program** `fatcontroller.c` | the settings | `main`, `_syslog`, `setupSyslog` | |
| **Options** `dgetopts.c` | flags | `processOptions` | only usable settings are accepted |
| **Memory** `sfmemlib.c` | none | `sfmalloc`, `sfcalloc`, `sfrealloc` | |

`main.c` is an IDE stub that the makefile does not build.

### How they interact

`main` parses the options, becomes a daemon if asked to and calls `dispatch`. From
there on the process has these threads:

* the **main thread** scans the slots every 200 ms (`check_thread`, then the thread
  model, which may start the slot), polls `handledSignal`, sweeps the pipes of the
  jobs into the log files, and after a stop signal repeats this in `waitForThreads`
  until every slot is stopped;
* one **task thread** per job forks it, appends its pipes to the log, waits for it,
  removes the pipes, writes the result to the slot and resets the slot;
* the **signal handler thread** takes signals with `sigwait` and stores the last one
  in `handledSignal`, under `mutexSignal`.

The slots are shared by main and the tasks **without a lock**; the order of single
reads and writes is all that keeps them consistent. The log is shared under a
mutex (the list) and a read-write lock (whether it is open), with two places that
read `initialized` or return without regard to them. Jobs are processes: they may
end at any time in any way, may ignore SIGTERM, and write to their pipes whenever
they like.

### What is hard

Interleavings of main and the tasks on one slot; a kill that reads the status
again; requests recorded late and cleared by an old task; a signal that overwrites
another; a shutdown while jobs come and go; a failed fork, open or reopen half way
through an operation; two owners of a pipe; a lock kept on an error path; two
processes and a script on one pid file. `PROJECT.json` lists them under "hazards",
each with its line and the properties that would catch it.

## 2. The modules

| Module | Models | |
|---|---|---|
| `SlotLifecycle` | the abstract specification of the dispatcher | what a slot goes through, what a shutdown forbids |
| `JobDispatching` | `jobdispatching.c`: who may touch a slot when | main, task and signal handler threads, jobs; the clock only as what it allows |
| `ThreadModels` | `jobdispatching.c:819-1108`: which slot is started when | the three thread models with their counters, time stamps and a clock |
| `PipeLifecycle` | the abstract specification of the log | what becomes of the pipes and of what is written to them |
| `SubprocsLog` | `subprocslog.c` and its callers | the list of sources, the locks, the pipes |
| `LinkedLog` (extends `SubprocsLog`) | the list of `subprocslog.c` in memory | nodes and links; the walks along them |
| `Options` | `dgetopts.c`, `build_parameters` and `fatcontroller_start` of the script | from a configuration file to settings, as pure operators |
| `Daemonise` (extends `Options`) | `daemonise.c`, `fatcontroller.c`, `scripts/fatcontrollerd` | processes, pid file and its lock, the script's commands |
| `JobDispatching_proofs`, `ThreadModels_proofs`, `SubprocsLog_proofs`, `UndisturbedLog_proofs`, `LinkedLog_proofs`, `Options_proofs`, `Daemonise_proofs` | | theorems and lemmas |
| `MCJobDispatching`, `MCThreadModels`, `MCSubprocsLog`, `MCLinkedLog`, `MCDaemonise` | | values of the constants for TLC |

The dispatcher is seen twice. `JobDispatching` has every read and write of a slot as a step and
lets every time-out pass when it likes, to find what interleavings do; `ThreadModels` takes the
visit of a slot as one step and has the clock, to find what the order of visits, results and
seconds does. The first allows whatever the second does.

### JobDispatching

`status`, `termination_requested` and `overrun` are the fields of the slots; a pid is
"PID", a timestamp in `status` is "SLEEPING" or "SLEEPING_ON_ERROR". `task[s]` is the
place in `task()` of the thread that holds slot `s`, and `linger[s]` counts earlier
tasks that have stored their last status but not yet called `slot_reset` (line 369):
the slot may already be started again by then. `child[s]` is the process.

Each action is the code between two points at which another thread can change what it
reads. `check_thread` reads `termination_requested` twice: `CheckThread` is the test in
line 431, and `CheckTimeout` the subtraction in line 434, before which an earlier task may have reset it to 0,
so that the time-out seems to be over long since. The calls it makes take
further steps: `TermSendsSigterm` reads the status again (line 384), `TermMarksSlot`
records the request (line 386), `KillSendsSigkill` reads the status again (line 403).
A status of 0 makes `kill` signal the dispatcher's own process group: SIGKILL ends
it ("aborted"), SIGTERM is one more signal for it to handle. The jobs are not reached by it, since each starts
a session of its own (line 145).
The thread model and the start of a slot are one step (`StartThread`, `MakesAvailable`,
`LeavesSlot`): only main writes to a slot that has no task.
`thread_proc_term_all` runs with `mutexSignal` held (`pc = "all"`), and
the signal handler waits for it.

Abstractions, all towards more behaviours:

* time: a time-out may pass at any moment after it was set; a sleeping slot may wake
  at once; a slot that is available may be left alone by the dependent and the fixed
  interval model, and the fixed interval model may terminate any running slot when
  the scan is over. `noThreads`, `sleepUntil` and the fixed interval state only decide
  which of these happens; `ThreadModels` has them;
* `RunOnce` is the set of values that the setting may have, one of them per behaviour;
* the dependent model of this module may do nothing that the fixed interval model may not, so the
  latter is the one the runs use; the proofs are for all three;
* `exit` in a thread ends the process at once: `StartFails`, `TaskPipeFails` and `TaskWaitFails` (line 257; all signals are blocked in the thread, so that
  `waitpid` fails only where the system has reaped the job by itself);
* a job stopped and continued (WUNTRACED, WCONTINUED) makes no difference to `task`;
* the log is left out here: `subprocslog_deinitialize` is part of `FreeSlots`.

Not modelled: the branches for `daemon == 0` (`main` always passes 1), and a log that
cannot be opened at the start (`dispatch` then returns at once).

### ThreadModels

`status`, `last_started_at` and `termination_requested` are the fields of the slots, `wake` is the
time stamp that `status` holds while a slot sleeps; `noThreads` and `sleepUntil` are the static
variables of `dependentThreadModel`, the `fixed_interval_state` is spelt out. `settings` never changes
in a behaviour. Each visit of main to a slot (`check_thread`, then the branch of its thread
model) is one action, named by the model and by what becomes of the slot: `IndependentStarts`,
`DependentTakesBack`, `FixedIntervalLeaves`. `PreStateCheck` and `PostStateCheck` frame
the visits. What a task does to its slot is a step of its own.

* **Time stamps are relative**: `time(0)` is always 0, and `Tick` moves all stamps one second into the past, down
  to `-horizon`, where they stop. No comparison in the code looks further back than the longest
  of the settings, and each setting is less than the horizon, so that a stamp at the bound decides as an older
  one would. The interval and the wait for a slot follow one another, and their sum is no more than the horizon: a wait
  that is over on the clock that stops is over on one that does not. The stamp 0 of the code ("never") is `Epoch`, below the bound: it stays apart from
  every real stamp, as 0 does from `time(0)`. So time goes on for ever and the liveness
  properties are not cut off by a last second.
* **A fork takes less than a second**: no `Tick` while a slot is BOOTSTRAPPING. Otherwise a
  slot could be found over its time limit before its job is there.
* A visit in one step leaves out the races within `check_thread`, which `JobDispatching` has. A task that stores a
  result resets the slot in the same step, for the same reason.
* `killed` remembers that the job was sent SIGKILL: it ends, and its exit status, read without
  `WIFEXITED`, is 0.
* `ForkFailsIn` says in which models a fork may fail: in the independent one in the passing run. In the others
  the slot never comes back; `timed_fork_fails` shows that.
* `failed_at` is a history variable: when main, or in the independent model the task, took note of
  the failure. `ErrorPauseKept` measures from there.
* `found_free` is another: whether main has come by a free slot in this turn. `WaitComesFirst` asks for it.
* Signals and the shutdown are left to `JobDispatching`: `ThreadModels` is about a dispatcher that goes on.

### SubprocsLog

`sources` is the linked list, latest first; `owner[f]` says whose job writes to
descriptor `f`, or that it is closed, and `unread` which descriptors have output.
Opening takes the lowest free descriptor, as `pipe(2)` does, so that a descriptor
closed twice may well be another job's. The read-write lock is `writer` and `readers`; `leaked`
remembers a call that returned with it held for reading (lines 444, 466). The
mutex is held across steps only by the sweep (`MutexFree`). The sweep reads a source
and closes it in two steps, since a job writes in between.
The other part of the model is the callers: `task()` with its handling of
failures (`sfclose` exits when a descriptor is closed already; a failed fork leaves both
pipes open, `TaskForkFails`), and the main loop.

`PipeLifecycle` knows no list, ids, locks or threads: pipes are opened, written to, given to the log,
read, given up and closed. `ImplementsPipes` maps a pipe to "listed" if an ACTIVE source has it and
to "leaving" if a MOTHBALLED one has, and so says that nothing but a sweep closes a pipe, that nobody writes
to it once it is given up, and that it is empty when it is closed. It is claimed of the log
without SIGHUP and forced ends: `log_hangup_race` shows what SIGHUP does to it, and after a forced end
jobs go on writing to pipes that were given up.

### LinkedLog

The same log with the list as it is in memory: `source`, `next` and `previous` are the fields of the nodes, `allocated`
the nodes in use, and a node that is freed says nothing any more (`Freed`). Each turn of a walk along the list is a step:

* `subprocslog_remove_source` searches with `source_list_mutex` (`mutex`, `found`), whatever the rwlock is:
  `RemoveTakes`, `RemoveWalks`, `RemoveFinds`, `RemoveMisses`;
* `subprocslog_remove_sources`, called by `subprocslog_deinitialize`, marks with the rwlock but without the mutex (`marking`, `at`): `BeginsMarking`,
  `Marks`, `EndsMarking`. So a search and the marking may be under way at once;
* the sweep has the mutex, goes from node to node (`at`) and takes nodes out: `Unlinks` has the cases of lines 286-325.

`sources`, `current` and `order` (the nodes in the order of the list) are kept as records only: no guard of a step on the list reads them, they say what the list
ought to be. `ImplementsLog` is `Spec` of `SubprocsLog`: the list is that sequence, and the steps `RemoveSource` and
`Deinitialize` of `SubprocsLog`, each many steps here, may be taken as one. `malloc` gives a free node; which one makes no difference.

### Options

A command line is a sequence of words of which only the option's name, or for an argument its value by
`atoi`, counts. `Parse` is `getopt_long` over the words: an option that takes an argument takes the next
word, even if that is an option itself. `Accepts` is what `processOptions` checks,
`CommandLine` is what the script builds. It quotes the command, its arguments and most names, which are one word each (`Text`). It quotes
neither the numbers nor the name in `ERR_LOG_FILE` (lines 62 and 101), so that a configuration file (`ConfigFile`) has a sequence of words for
each of these (`Unquoted`): none where the variable is not set or blank, several where it has spaces. `test -n` is true of a blank
variable too, and the option is then passed on without an argument (`blank`, `IfSet`). `AWord` is any word: an option written out in
full, a word with a dash that is none (`Unknown`; a negative number, for one) or another. `Configured` says what the file
asks for, and `Complete` which files the script can make a command line of that says so: SLEEP, SLEEP_ON_ERROR and THREADS are set, as in
the example file, nothing is blank, `ERR_LOG_FILE` has no space in it, and no word after the first one of a number has a dash before it. Of
the other files `SettingsAsConfigured` says nothing, since it would not hold: `ERR_LOG_FILE="/var/log/a -b.err"` makes a
command line that the program refuses, `"/var/log/a b"` another file name.
Left out: short options, abbreviations of long ones, `--option=value`, the word `--` and file name patterns
(words that could mean these are no members of `AWord`), what the texts say, `splitArgs`.

### Daemonise

`proc[p]` is where a process is between fork and end: "forked", "opened" (`open` with `O_CREAT` and
`O_TRUNC`), "locked", "named" (pid written), "running" (SIGTERM is caught), "stopping". `file[p]` is the
inode it has open: a file that was removed lives on with its lock, and `dir` is the inode that has the name
PID_FILE now. `content` is the set of pids that can be read in a file, `Junk` what a longer pid leaves
behind when a shorter one is written at offset 0 (`open` has emptied the file, perhaps before another process wrote to it). `Ends` stands for every end of a process,
failures of `daemonize` and SIGKILL included: what follows a failure of `setsid`, `chdir` or the
standard descriptors is the end of the process and nothing else. Pids and inodes are used again.

The script is one operator who gives one command after the other; each command is a few steps
(`CommandStop`, `Cat`, `Kill`, `RemovesPidFile`), between which daemons go on, fail and end. `Kill` may succeed with any pid in the file, the digits
in `Junk` included: there may be a process of the system with that pid, which the model does not have otherwise. Only processes of the
program are changed by it. While a program stays in the foreground the script waits for it (`Start`, `Returns`). start returns as soon as the
program has forked, and a command that is given while a daemon is still starting
can meet a pid file that is missing, empty or another one's. The history variable `rushed`
remembers that such a command was given: `OneUnaskedDaemon` and `StopStops` are about the behaviours
without one, and do not hold in the others. `status` changes nothing and is left out.

## 3. The runs

| Run | Checks | Bounds | States |
|---|---|---|---|
| `dispatch_independent` | type, ownership of slots, no kill(-1), clean exit, the inductive invariant, refinement of `SlotLifecycle!Spec` | 2 slots, independent, SIGTERM again and again | 240,344 |
| `dispatch_fixed_interval` | shutdown ends, overrun jobs end, stop signals count, refinement of `SlotLifecycle!FairSpec` | 1 slot, run time limit, run_once or not, all results, SIGTERM and SIGINT | 86,164 |
| `timed_models` | type, inductive invariants, interval kept, wait for a slot kept, pause after errors kept, the oldest job goes, sleepers wake, due jobs start, the dependent model goes on | 2 slots, 5 settings, clock without end | 152,508 |
| `log_undisturbed` | on the linked list: pipes have one owner, no output lost, sources found, the inductive invariants, refinement of `PipeLifecycle!Spec` and `PipeLifecycle!FairSpec`, log closes | 2 tasks, 3 jobs, 3 pipes, 3 nodes | 219,550 |
| `log_hangup` | on the linked list: a leaked lock means a closed log; nothing else blocks main; the list stays whole; refinement of `SubprocsLog!Spec`; the inductive invariants | 2 tasks, 2 jobs, with SIGHUP, failing opens, forced end, one id for all | 37,372 |
| `daemon` | type, inductive invariant, one unasked daemon, pid file names it, stop stops, settings as configured (complete files) | 3 pids, 2 inodes, 11 configurations, symmetry of pids and inodes | 140,675 |

Two slots are enough for what one slot's steps can do to another's, in the scan and in
the count of `waitForThreads`; one is enough for the liveness properties, which
are about each slot for itself, while main serves them all in turn. `MaxLinger = 1` allows an old
task to outlive the start and the end of the slot's next job; a second one would
only repeat the same write. The proofs below need none of these bounds.
Every job of `dispatch_independent` has more to do, which makes its slot available at once and so the
interleavings with old tasks the densest; all results occur in other runs.

The five settings of `timed_models`: each model; pauses after errors that are longer than, as long as and
shorter than the other ones; a run time limit in two of them; and in the fixed interval model no wait
for a slot, a wait of a second, and a wait without end. `OldestIsTerminated` is about
two slots: the third one makes a difference, see below.

That all output is logged in the end is part of `PipeLifecycle!FairSpec`: a pipe with something to read
is entered in the log in the end, and what the log has is read.

In the log two tasks can meet in each lock, and a third job opens its pipes while those of
the two before wait to be closed: the list has up to three nodes, and the one that is taken out is
the only one, the first, the last or between two others. `MaxSourceId` stands for 65000: 2 where ids are not to
start again within three jobs, 0 where every job's id is that of the job before. The two passing runs are of `LinkedLog`,
the violations are found on the shorter `SubprocsLog`. `log_hangup` has two jobs, to keep `OnlyLeaksBlock` within reach: a job that has forked,
appends, searches or misses its source, and another one whose source is being swept or marked. Two jobs do not reach the unlinking of a node between two others in this run; `log_undisturbed` does, and the
theorem `KeepsLinks` covers it with SIGHUP too. With three jobs all that the run checks holds
too, on 757,561 states. Type correctness of the log is part of its `IInv`.

In `daemon` three processes are a daemon that stops, one that runs and one that starts, and two inodes are the
file that was removed and the one that took its name. Of the configurations five are complete: with and without
the optional settings, with run_once, with a test fire, and one whose SLEEP is two words. The others are those of which the script makes something else: one
without THREADS, with which the program stays in the foreground; one whose second word is negative; an `ERR_LOG_FILE` with a
space, with a word with a dash, with an option after the space, and one that is blank. In all of these the other properties hold. `Permutations(Pids) \union Permutations(Files)` is sound: all
properties of the run are invariants and name no pid and no inode.

The runs that TLC refutes, each against a sentence of the repository (`PROJECT.json`,
"findings"):

| Run | What the code does |
|---|---|
| `dispatch_stop_overwritten` | SIGHUP replaces a stop signal that main has not seen yet |
| `timed_fork_fails` | a failed fork puts the slot to sleep, and the dependent and fixed interval models never wake it |
| `timed_three_slots` | with three slots the fixed interval model terminates a job although an older one runs: when the job of `longest_running_slot` has ended, the slot in hand takes its place, whichever was visited before |
| `log_hangup_race` | `remove_source` fails during SIGHUP, and the pipes get two owners |
| `log_reopen_fails` | after a failed reopening the shutdown blocks for ever |
| `daemon_restart` | restart removes the pid file of a daemon that still waits for its jobs; the new one locks another file, and two daemons run |

Each is a property of a passing run under one more thing that may happen (SIGHUP, a failing fork or open, a third
slot), or, in `daemon_restart`, the stronger `OneDaemon` in place of `OneUnaskedDaemon`.

Some behaviours that no run is spent on: the third stop signal during a shutdown ends the wait with
jobs still running (`CleanExit` is about ends that were not forced); a termination request that is recorded
after the job has ended stays for the slot's next job, which may be killed without a SIGTERM of its own, since
`slot_reset` (line 369) comes after the result is stored; and that call may come after `dispatch` has
freed the slots. The models have all three. Where the documents say something of the code that is plainly otherwise no run
is spent on it either: SIGHUP only reopens the log (CHANGELOG:165-167 says that it terminates the jobs), the
first stop signal already terminates the jobs (CHANGELOG:169-174 says the second does), and
`subprocslog_reinitialize` detaches no source (subprocslog.h:48-55 says it does).

### Fairness

* `JobDispatching`: main, the signal handler and each task are threads of one process, each weakly fair; time
  passes, so the two clocks of each slot are weakly fair.
* `ThreadModels`: main is weakly fair, and a second passes in the end: strong fairness of
  `Tick`, which is only put off by forks, each of which comes to its end (weak
  fairness of `TaskPublishesPid`). A job that was sent SIGKILL ends and its task is told (weak fairness of
  `killed[s] /\ TaskPublishesResult(s)`).
* `SubprocsLog`, `LinkedLog`: every thread is weakly fair, and the mutex needs strong fairness for a task that wants it,
  since main takes it in every turn; main sleeps for 200 ms between the turns, in which a waiting
  task gets it. `pthread_rwlock` needs none: readers of it never wait for main for longer than
  a reopening.
* `Daemonise`: none. All its properties are safety; processes may stay where they are.
* Jobs: none, unless they were sent SIGKILL. A job may run for ever, ignore SIGTERM and never write.
* Signals: none. They come or not; each of `Signals` may be pending once at a time,
  as for standard POSIX signals.

`CHECK_DEADLOCK FALSE` stands in `log_hangup` and `log_reopen_fails` only: there the process really may
block for ever.

## 4. The proofs

Seven modules, each for every value of the constants that the module's `ASSUME` allows: any number of slots, tasks, pipes,
processes and files, any settings and any signals. Where a theorem needs more, its `ASSUME` says so, and the
text below why.

### JobDispatching_proofs (602 obligations), from `SettingsAssumption`

`SlotOwnership` is not inductive by itself: it says nothing of the slot main is about
to start or kill. `IInv` adds

* `MainInv`: where main is bounds the slot in hand, and the shutdown only goes forward;
* `CallInv`: from the second read of `check_thread` to the end of a kill the slot is not BOOTSTRAPPING. This holds since
  only main puts that status there and main is in the call; it is `NoBroadcastKill`
  for the step between the kill and its record, too;
* `CountInv`: in `waitForThreads`, if all slots visited in this turn were stopped, none
  of them has a task. Since no slot is started any more, this carries over to the
  end of the turn and gives `CleanExit`.

One lemma per action shows that it preserves `IInv` (`StartThreadPreserves`, ...),
`NextPreserves` puts them together, and

* `Invariance`: `Spec => []IInv`, from which `TypeCorrect`, `SlotsAreOwned`, `NeverBroadcasts` and `ExitsClean`;
* `Implements`: `Spec => ImplementsLifecycle`. `SlotMoves` shows that changing the job of one
  slot is a move of the abstract function, and `TaskRefines`, `MainRefines`,
  `SignalRefines` that each step is such a move, a closing, an end or a stutter. The interesting step
  is `StartThread`, which needs `MainInv` (main is not in its turn after a stop signal) and
  `SlotOwnership` (a slot that may be started has no job).

### ThreadModels_proofs (1105 obligations), from `ThreadModelsAssumption`

`IntervalKept` and `ErrorPauseKept` relate a start to earlier events, and the code keeps neither the starts nor the
failures: it keeps one slot, one flag and one time stamp. `IInv` says why they are enough:

* `StampsInv`: no start and no failure lies ahead of now;
* `IntervalInv`: the slot in `last_run_slot` has the latest start of all, and `new_thread_required` is set only when the
  interval since that start is over; it survives `Tick` since stamps that stop at the bound
  keep their order;
* `PauseInv`: as long as the pause after a failure of slot `s` lasts, something keeps starts away (`Pauses(s)`): the
  slot sleeps until then in the independent model, `sleepUntil` lies behind it in the
  dependent one, `is_sleeping` holds and `sleep_until` lies behind it in the fixed interval
  model. The dependent model promises no more than the lesser of the two pauses, since a job that ends well
  sets `sleepUntil` back. In models in which forks fail without a pause `PauseInv` is
  not claimed.

`KeepsInterval` and `KeepsErrorPause` follow from `StartsOnlyIf` (only a visit that starts a slot starts one)
and the invariant before the step. `KeepsErrorPause` assumes `ForkFailsIn \subseteq {"INDEPENDENT"}`: where
a fork fails in another model, no pause is taken.

`KeepsWait` (`WaitComesFirst`) is for any number of slots: no job is terminated to make room before the
interval since the last start and, after it, the wait for a slot have passed, nor in a turn in which main came by a free slot. That is
less than "while no slot is free": a job that ends after main has come by its slot leaves the slot free (`DONE_*`), and
another job is sent SIGTERM at the end of the turn all the same. The code keeps no note of the free slots it has seen; the history variable `found_free` does,
from the first visit of a turn to its end. Nor has the code the time of the
last start in hand when it terminates, only `new_thread_required` and `wait_until`. `WaitInv` says that once `wait_until` is set, the last start, the interval and the wait together lie no later than it, or no
later than now if it has passed, and that in a turn in which main still lacks a slot it has found none free.
Where there is no wait, `IntervalInv` is enough. `Tick` disturbs it, as stamps stop at the bound, and keeps it because the
sum of the two settings is within the horizon.

`KeepsOldest` (`OldestIsTerminated`) is for two slots at most; `timed_three_slots` refutes it for three. The code keeps
one pointer, `longest_running_slot`, from turn to turn, and never clears it. `OldestInv` says what it is worth:
while a job is due and nothing but a slot is lacking, every slot visited in this turn was taken, and the pointer
is set to one whose job, if it still has one, is none younger than any visited. Half way through the turn this is so
because a slot in BOOTSTRAPPING was started in this very second. In `LeavesKeepsOldest` the job of the pointed slot may be
gone: `RunsLongest` then takes the slot in hand, and with two slots there is no third one that was visited before.

### Daemonise_proofs (333 obligations), from `DaemoniseAssumption` and `ConfigsAssumption`

`IInv` adds to the properties: `OneHolder` (a file is locked by one process at most), `StopFindsFile` (only the script removes
the file, so `cat` finds one), `JunkInv` (digits are left behind a pid only, so that whoever reads them reads a pid too) and `Unrushed`, for behaviours without a rushed command: while a daemon starts the script
is idle; whoever is starting or runs unasked has the file open that bears the name now; and what stop has
read names none but the running daemon. `WritesPidPreserves` needs `OneHolder`
for `PidFileNamesItsDaemon`; `KillPreserves` needs `Unrushed` and `JunkInv` for `StopStops`: kill succeeds only if something was read, so a pid of a process of the program, and the only running one it can have read of is the daemon, which
is then told to stop. `OneUnaskedDaemon` follows from
`OneHolder` and `Unrushed`: two daemons that both have the file of that name would both have
locked it. `TakesSettings` (`SettingsAsConfigured`) rests on the next module; `ConfigsAssumption` says no more than that each configuration
is a `ConfigFile`; the theorem is about those that are `Complete`.

### Options_proofs (661 obligations), no assumption

From any configuration file that is `Complete` (section 2), the script builds a command line that the program accepts, and
from which it gets the settings that the file asks for (`CommandLineSaysWhatIsConfigured`). `getopt_long` is a fold over a command line of any length (numbers may be several
words each), so this is an induction over data. The library's induction theorems take an operator, which
the provers cannot instantiate; `SetInduction` is induction over Nat for a *set*, proved from the well-foundedness of `<`, and
serves instead. From it follow in turn

* `StepsExist` and `StepsUnique`: a function that steps over the words of a command line exists and is the only one, so that the recursive
  definition `ParsedFrom` may be expanded;
* `ParsedFromAppend`, `ParsedFromConcat`: the words may be parsed segment by segment;
* `TakesFlag`, `TakesQuoted`, `TakesPlain`, `TakesIfTrue`, `TakesIfSet`: what one segment of the script's command line, present or not, does to what has been parsed. In
  `TakesPlain` the further words of a number are passed over (`PassedOver`): they are neither options nor arguments;
* `TakesParameters`, `TakesCommandLine`: the segments in the order of the script, none of which undoes another.

Each condition in `Complete` is needed. Without a value, or with a blank one, an option takes the next option for its argument. A second word with a
dash is an option to `getopt_long`, which refuses it or sets something else. And of a file name in two
words the program takes the first.

### SubprocsLog_proofs (564 obligations), from `LogAssumption`

About the log in all its behaviours, with SIGHUP, failing opens and forced ends. `LogAssumption` says that there are finitely many tasks, since
the slots are an array of a fixed length. `LeakIsFinal` is not inductive, since
the log is closed for a moment while SIGHUP is handled and open again after it. `ReopensAlone` closes the gap: in that moment
main holds the rwlock for writing, which it got only because nobody had leaked it, and no task can come in and be told
that the log is closed. `TypeOK` is not inductive either: that `sources[current]` exists when a sweep has
read it needs `SweepInv`, and that a task has a pipe to append or close needs `TasksInv`. The lemmas at the head of the module say
what inserting, changing and removing do to a sequence of sources. `Invariance` is
`Spec => []IInv`, from which `TypeCorrect` and `LeaksAreFinal`.

### UndisturbedLog_proofs (1212 obligations), from `LogAssumption`

About the log without SIGHUP (`~Hangups`), and but for one section without forced ends (`~Forced`). With SIGHUP the
properties are false (`log_hangup_race`); with a forced end those about output and about each task's own source are, since the log closes while
jobs are running. `SourcesOpen`, that each source in the list has open pipes that no other source has, needs to know
what every task and the sweep are doing to the list. `ListInv` adds

* `ClosesLast`: the log is closed, or kept locked for closing, only when no task has anything to do with it;
* `PipesOwned`: a task's pipes are open and its own from the fork until it gives their source up;
* `SourcesListed`: the source a task has appended is in the list, ACTIVE and with the task's id and pipes, until
  that task gives it up, and before that no source has its pipes;
* `RemovedIsLeft`: no task has the pipes of a source that is MOTHBALLED, so that its sweep closes nobody else's;
* `SweptIsRead`: between the last read of such a source and its close nothing can be written.

`remove_source` looks for an id, so it marks the right source only if ids are unique. They are not given
for ever: after 65000 they start again from 0, and the source of a job that still runs may have the next id. Hence the hypothesis `[]IdsUnique`
of the theorems `ListInvariance`, `EndInvariance`, `SourcesStayOpen`, `LosesNoOutput`, `RemovesItsOwn` and `Implements`. `IdInvariance` discharges it for
as many jobs as there are ids (`MaxJobs <= MaxSourceId + 1`), whatever else happens: `IdInv` counts the tasks that are still to append a source,
so that `source_count` never passes the number of jobs and each id in the list is less than it. `UndisturbedLog` puts the two together.
For more jobs than ids the hypothesis says what the code relies on: that no job outlives 65000 later ones.

`SourcesStayOpen` allows forced ends. `EndInv` has three phases: up to the close the log is as `ListInv` says, tasks at work
or not; while main closes it (`ClosingInv`: it holds the rwlock for writing, nobody holds it for reading, and
all sources are MOTHBALLED) a task can do no more than open other pipes; after that (`ClosedInv`) no source is left, and
no task that took the rwlock before can be about to append one. What those tasks do to their pipes is no part of it: these are closed already, which exits the process, or
another job has got them. No run has forced ends without SIGHUP; with `Forced = TRUE` in
`log_undisturbed.cfg` TLC confirms `EndInv` and `SourcesOpen` on 325,726 states.

`Implements` is the refinement `Spec /\ []IdsUnique => ImplementsPipes`. One lemma per abstract action: a task that forks
opens a pipe (`StepOpens`), jobs write (`StepWrites`, which needs `RemovedIsLeft`), `append_source` enters one (`StepEnters`, which
needs that no source has it already), `remove_source` and `deinitialize` give up one or all (`StepLeaves`), a sweep reads (`StepReads`)
and closes (`StepCloses`, which needs `SweptIsRead` and that no other source has this pipe); `StepImplementsPipes` shows that every other
step is a stutter.

### LinkedLog_proofs (1309 obligations), from `LogAssumption` and `NodesAssumption`

`KeepsLinks` is `LinkedSpec => []LinksInv`, with SIGHUP, failing opens and forced ends, and for any number of nodes. `LinksInv` says

* `Linked`: from `source_list_start` the links lead through exactly the allocated nodes, each once, and back;
* `Contents`: each node says what the source at its place in the sequence says, but for those that `subprocslog_remove_sources` has
  marked before `EndsMarking` marks the whole sequence;
* `SearchInv`: a task that searches has passed only sources with other ids, and no sweep is under way;
* `MarkInv`: while main marks without the mutex, nobody is about to append (a task that is holds the rwlock for reading), so the
  list grows no new head that would be left unmarked;
* in a sweep, the node in hand is the one at place `current`.

`UnlinksKeeps` is the heart: taking out the node at one place gives the list without that place, in each of the four cases.
A search marks a node that may have been marked already, or will be; `RemoveFindsKeeps` and `MarksKeeps` show that
the order makes no difference. `LinkedImplements` is `LinkedSpec => ImplementsLog`: a search is a stutter until it finds (`RemoveFindsIsOne`: the first node with
the id is the latest source with it) or misses (`RemoveMissesIsOne`), the marking is one until it ends, and a sweep goes
with its sequence (`SweepIsOne`). So the theorems about `SubprocsLog` above, each about its `Spec`, hold of the linked list.

### Model-checked only

The liveness properties and the refinements of `SlotLifecycle!FairSpec` and `PipeLifecycle!FairSpec`: fairness is out of reach of the
prover. Every invariant and every action property of the passing runs is a theorem, and so are the three refinements
without fairness.

## 5. Not modelled

* Syslog, the text of log messages, the warning of `thread_run_time_warn`; `sfmemlib.c` (three wrappers that exit
  when malloc fails); `main.c`, makefile and packaging: no state to check.
* The branches for `daemon == 0` in `dispatch`: `main` always passes 1.
* The reads and writes of freed memory at the very end (`slot_reset` after `FreeSlots`; `source->id` read after the unlock,
  subprocslog.c:506-507): the steps are there, the harm is not a state of the model.
* The width of `int` time stamps in `status`: stamps are relative to now.
* The rates at which jobs write and main reads, and how many descriptors there are in all.
* Short options, abbreviations of long ones, `--option=value`, the word `--`, file name patterns, `splitArgs` and the log format.

## 6. Plan

Done: `SlotLifecycle`, `JobDispatching`, `ThreadModels`, `PipeLifecycle`, `SubprocsLog`, `LinkedLog`, `Options`, `Daemonise`, and proofs about all
but the two abstract ones. Left:

1. `ThreadModels`: a refinement from `JobDispatching` with the clock kept, to say in TLA+ what section 2 says of the two views.
2. `FatController`: dispatcher and log composed, for the SIGHUP that blocks main with `mutexSignal` held
   and the forced end with jobs still in the log.
