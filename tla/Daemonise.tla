----------------------------- MODULE Daemonise -----------------------------
(***************************************************************************)
(* The daemon's process, its pid file and the control script: main() of    *)
(* fatcontroller.c, daemonize() of daemonise.c, and start, debug, stop and *)
(* restart of scripts/fatcontrollerd.  status only looks.                  *)
(*                                                                         *)
(* The directory has at most one file of the name PID_FILE, but one that   *)
(* was removed lives on for the processes that have it open, with their    *)
(* lock.  The script is run by one operator, one command after the other;  *)
(* start returns as soon as the program has forked.                        *)
(***************************************************************************)
EXTENDS Options, FiniteSets

CONSTANTS
  Pids,     \* process ids; one is used again after its process has ended
  Files,    \* inodes, likewise
  Configs   \* configuration files by name, one of them per behaviour

NoFile == "no file"
Junk   == "junk"     \* digits that a longer pid has left behind

ASSUME DaemoniseAssumption == NoFile \notin Files /\ Junk \notin Pids

ASSUME ConfigsAssumption == \A name \in DOMAIN Configs : Configs[name] \in ConfigFile

VARIABLES
  cfg,          \* the name of the configuration file
  (* The script *)
  pc, debug,    \* where it is, and whether it starts the program with --debug
  restarting,   \* whether the stop is that of a restart
  read,         \* what cat has read
  rushed,       \* history: whether a command was given while a daemon was starting
  (* The processes *)
  proc, file,   \* what a process does, and which file it has open
  (* The files *)
  dir, content  \* the file of the name PID_FILE, and the pids in each file

scriptVars == <<pc, debug, restarting, read, rushed>>
procVars   == <<proc, file>>
fileVars   == <<dir, content>>
vars       == <<cfg, scriptVars, procVars, fileVars>>

Starting == {"forked", "opened", "locked", "named"}
Daemon   == {"running", "stopping"}

Alive(p) == proc[p] # "none"

Init ==
  /\ cfg \in DOMAIN Configs
  /\ pc = "idle" /\ debug = FALSE /\ restarting = FALSE /\ read = {}
  /\ rushed = FALSE
  /\ proc = [p \in Pids |-> "none"] /\ file = [p \in Pids |-> NoFile]
  /\ dir = NoFile /\ content = [f \in Files |-> {}]

-----------------------------------------------------------------------------
(* The daemon's process *)

IsOpen(f) == \E p \in Pids : file[p] = f

HoldsLock(p, f) == file[p] = f /\ proc[p] \in {"locked", "named"} \union Daemon

Becomes(p, what) == proc' = [proc EXCEPT ![p] = what]

\* O_CREAT | O_TRUNC: whatever an earlier process has written is gone.
OpensPidFile(p) ==
  /\ proc[p] = "forked" /\ Becomes(p, "opened")
  /\ \E f \in Files :
       /\ IF dir = NoFile THEN ~IsOpen(f) ELSE f = dir
       /\ dir' = f /\ content' = [content EXCEPT ![f] = {}]
       /\ file' = [file EXCEPT ![p] = f]
  /\ UNCHANGED <<cfg, scriptVars>>

\* Mutation: the pid is written whether or not the file could be locked.
LocksOrNames(p) ==
  /\ proc[p] = "opened" /\ content' = [content EXCEPT ![file[p]] = {p}]
  /\ IF \E q \in Pids : HoldsLock(q, file[p])
     THEN Becomes(p, "none") /\ file' = [file EXCEPT ![p] = NoFile]
     ELSE Becomes(p, "locked") /\ UNCHANGED file
  /\ UNCHANGED <<cfg, scriptVars, dir>>

\* lockf(F_TLOCK): the process that finds the file locked ends.
LocksPidFile(p) ==
  /\ proc[p] = "opened"
  /\ IF \E q \in Pids : HoldsLock(q, file[p])
     THEN Becomes(p, "none") /\ file' = [file EXCEPT ![p] = NoFile]
     ELSE Becomes(p, "locked") /\ UNCHANGED file
  /\ UNCHANGED <<cfg, scriptVars, fileVars>>

\* Mutation: what fork returned in the child is written.
WritesForkResult(p) ==
  /\ proc[p] = "locked" /\ Becomes(p, "named")
  /\ content' = [content EXCEPT ![file[p]] = {"0"}]
  /\ UNCHANGED <<cfg, scriptVars, file, dir>>

\* The file may have been written to since it was truncated.
WritesPid(p) ==
  /\ proc[p] = "locked" /\ Becomes(p, "named")
  /\ \E rest \in {{}} \union (IF content[file[p]] = {} THEN {} ELSE {{Junk}}) :
       content' = [content EXCEPT ![file[p]] = {p} \union rest]
  /\ UNCHANGED <<cfg, scriptVars, file, dir>>

\* From here on SIGTERM is caught.
Dispatches(p) ==
  /\ proc[p] = "named" /\ Becomes(p, "running")
  /\ UNCHANGED <<cfg, scriptVars, file, fileVars>>

\* The process ends, of itself or not: an open or a step of dispatch() fails, its
\* jobs are done after a stop or with run_once, or it is killed.
Ends(p) ==
  /\ Alive(p) /\ Becomes(p, "none")
  /\ file' = [file EXCEPT ![p] = NoFile]
  /\ UNCHANGED <<cfg, scriptVars, fileVars>>

Process(p) ==
  OpensPidFile(p) \/ LocksPidFile(p) \/ WritesPid(p) \/ Dispatches(p) \/ Ends(p)

-----------------------------------------------------------------------------
(* The control script *)

Command ==
  /\ pc = "idle"
  /\ rushed' = (rushed \/ \E p \in Pids : proc[p] \in Starting)

CommandStart ==
  /\ Command /\ pc' = "start" /\ debug' \in BOOLEAN
  /\ UNCHANGED <<cfg, restarting, read, procVars, fileVars>>

\* Without a pid file stop ends the script, in restart as well.
CommandStop ==
  /\ Command /\ dir # NoFile
  /\ pc' = "cat" /\ restarting' \in BOOLEAN
  /\ UNCHANGED <<cfg, debug, read, procVars, fileVars>>

Cat ==
  /\ pc = "cat" /\ pc' = "kill"
  /\ read' = content[dir]
  /\ UNCHANGED <<cfg, debug, restarting, rushed, procVars, fileVars>>

\* SIGTERM to a process that does not catch it yet ends it.
Terminated(S) ==
  /\ proc' = [p \in Pids |-> IF p \notin S THEN proc[p]
                             ELSE IF proc[p] \in Starting THEN "none"
                             ELSE IF proc[p] = "running" THEN "stopping" ELSE proc[p]]
  /\ file' = [p \in Pids |-> IF p \in S /\ proc[p] \in Starting THEN NoFile ELSE file[p]]

\* The program's own processes among those that kill reaches.
Reached == {p \in read \ {Junk} : Alive(p)}

\* Mutation: the file is removed whether or not kill was successful.
KillSucceedsAlways == TRUE

\* A pid that is none of the program's, digits left behind among them, may be that of
\* any other process of the system.
KillSucceeds == read # {}

KillFails == read = {} \/ Reached # read

\* Whether kill fails when it reaches some of the processes depends on the shell.
Kill ==
  /\ pc = "kill" /\ Terminated(Reached) /\ read' = {}
  /\ \/ KillSucceeds /\ pc' = "rm" /\ UNCHANGED restarting
     \/ KillFails /\ pc' = "idle" /\ restarting' = FALSE
  /\ UNCHANGED <<cfg, debug, rushed, fileVars>>

RemovesPidFile ==
  /\ pc = "rm" /\ dir' = NoFile
  /\ pc' = IF restarting THEN "start" ELSE "idle"
  /\ restarting' = FALSE
  /\ UNCHANGED <<cfg, debug, read, rushed, procVars, content>>

Words == CommandLine(Configs[cfg], debug)

\* What main() does before it returns or forks; after a test fire it returns 1, as
\* after a refusal.
Runs ==
  LET switches == SettingsOf(Words).switches IN
  IF ~Accepts(Words) \/ "test-fire" \in switches THEN "not at all"
  ELSE IF "daemonise" \in switches THEN "forked" ELSE "foreground"

\* fork may fail; a program that does not become a daemon keeps the script waiting.
Start ==
  /\ pc = "start" /\ debug' = FALSE
  /\ pc' = IF Runs = "foreground" THEN "waiting" ELSE "idle"
  /\ \/ Runs # "not at all" /\ \E p \in Pids : ~Alive(p) /\ Becomes(p, Runs)
     \/ Runs # "foreground" /\ UNCHANGED proc
  /\ UNCHANGED <<cfg, restarting, read, rushed, file, fileVars>>

Returns ==
  /\ pc = "waiting" /\ pc' = "idle"
  /\ \A p \in Pids : proc[p] # "foreground"
  /\ UNCHANGED <<cfg, debug, restarting, read, rushed, procVars, fileVars>>

Script ==
  CommandStart \/ CommandStop \/ Cat \/ Kill \/ RemovesPidFile \/ Start \/ Returns

Next == Script \/ \E p \in Pids : Process(p)

Spec == Init /\ [][Next]_vars

-----------------------------------------------------------------------------
(* Type correctness: every variable keeps its range. *)
TypeOK ==
  /\ cfg \in DOMAIN Configs
  /\ pc \in {"idle", "start", "waiting", "cat", "kill", "rm"}
  /\ {debug, restarting, rushed} \subseteq BOOLEAN
  /\ read \subseteq Pids \union {Junk}
  /\ proc \in [Pids -> {"none", "foreground"} \union Starting \union Daemon]
  /\ file \in [Pids -> Files \union {NoFile}]
  /\ dir \in Files \union {NoFile}
  /\ content \in [Files -> SUBSET (Pids \union {Junk})]
  /\ \A p \in Pids : file[p] # NoFile <=> proc[p] \in (Starting \ {"forked"}) \union Daemon

\* While no command is given before the daemon of the one before runs or has given
\* up, there is one daemon at most that was not told to stop, and the next start
\* will meet its lock, whatever ended in between and however (daemonise.c:166).
OneUnaskedDaemon ==
  ~rushed => \A p, q \in Pids : proc[p] = "running" =>
                /\ dir = file[p]
                /\ proc[q] = "running" => p = q

\* The pid file of a daemon has the pid of no other process of the program written to
\* it, though others may open it at any time (daemonise.c:166-190).  It may be empty,
\* and what an earlier one has written may be left behind the daemon's pid: digits,
\* which kill would take for one more pid, maybe that of some process of the system.
PidFileNamesItsDaemon ==
  \A p \in Pids : proc[p] \in {"named"} \union Daemon => content[file[p]] \subseteq {p, Junk}

\* When stop removes the pid file, no daemon is left that was not told to stop
\* (scripts/fatcontrollerd:117-120).
StopStops == pc = "rm" /\ ~rushed => \A p \in Pids : proc[p] # "running"

\* The program that the script starts takes from a configuration file that sets
\* SLEEP, SLEEP_ON_ERROR and THREADS, nothing to blanks, and what is not quoted to
\* words that the shell leaves harmless, what the file says, and the defaults for what
\* the file leaves out (scripts/service.fat.example).
SettingsAsConfigured ==
  pc = "start" /\ Complete(Configs[cfg]) =>
    Accepts(Words) /\ SettingsOf(Words) = Configured(Configs[cfg], debug)

\* What the comment in daemonise.c:166 promises: only one copy runs.
OneDaemon ==
  ~rushed => \A p, q \in Pids : proc[p] \in Daemon /\ proc[q] \in Daemon => p = q

-----------------------------------------------------------------------------
(* The inductive invariant *)

\* A file is locked by one process at most.
OneHolder ==
  \A p, q \in Pids : file[p] # NoFile /\ HoldsLock(p, file[p]) /\ HoldsLock(q, file[p]) => p = q

\* stop has found a pid file, and only the script takes it away.
StopFindsFile == pc \in {"cat", "kill", "rm"} => dir # NoFile

\* Digits are left behind a pid only.
JunkInv == read # {Junk} /\ \A f \in Files : content[f] # {Junk}

\* Unless commands are given in a rush, the script is idle while a daemon starts;
\* who has the pid file open, other than to end, has the one that is found by its
\* name; and what stop has read names no daemon but the one that was not told to
\* stop.
Unrushed ==
  ~rushed =>
    \A p \in Pids :
      /\ proc[p] \in Starting => pc = "idle"
      /\ proc[p] \in (Starting \ {"forked"}) \union {"running"} => file[p] = dir
      /\ proc[p] = "running" /\ pc = "kill" => read \subseteq {p, Junk}

\* What every step preserves: the parts of the invariants above that depend on
\* each other.
IInv ==
  /\ TypeOK /\ OneHolder /\ PidFileNamesItsDaemon /\ StopFindsFile /\ JunkInv
  /\ Unrushed /\ StopStops
=============================================================================
