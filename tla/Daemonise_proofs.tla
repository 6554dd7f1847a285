-------------------------- MODULE Daemonise_proofs --------------------------
(***************************************************************************)
(* Proofs about the daemon's process, its pid file and the control script, *)
(* for any number of process ids and files and any configurations.         *)
(***************************************************************************)
EXTENDS Daemonise, Options_proofs

\* No process, no pid file, no command.
LEMMA InitEstablishes == Init => IInv
  BY DEF Init, IInv, TypeOK, OneHolder, PidFileNamesItsDaemon, StopFindsFile, JunkInv, Unrushed,
     StopStops, Starting, Daemon, HoldsLock

-----------------------------------------------------------------------------
(* The daemon's process *)

\* The file opened is the one of that name, or a new one that no process has open.
LEMMA OpensPidFilePreserves ==
  ASSUME IInv, NEW p \in Pids, OpensPidFile(p)
  PROVE  IInv'
<1>1. PICK f \in Files :
        /\ IF dir = NoFile THEN ~IsOpen(f) ELSE f = dir
        /\ dir' = f /\ content' = [content EXCEPT ![f] = {}]
        /\ file' = [file EXCEPT ![p] = f]
  BY DEF OpensPidFile
<1>2. f # NoFile /\ proc[p] = "forked" /\ proc' = [proc EXCEPT ![p] = "opened"]
  BY DaemoniseAssumption DEF OpensPidFile, Becomes
<1>3. UNCHANGED <<cfg, pc, debug, restarting, read, rushed>>
  BY DEF OpensPidFile, scriptVars
<1>4. TypeOK'
  BY <1>1, <1>2, <1>3 DEF IInv, TypeOK, Starting, Daemon
<1>5. OneHolder'
  BY <1>1, <1>2 DEF IInv, TypeOK, OneHolder, HoldsLock, Daemon
<1>6. PidFileNamesItsDaemon'
  BY <1>1, <1>2 DEF IInv, TypeOK, PidFileNamesItsDaemon, Daemon
<1>7. StopFindsFile' /\ StopStops' /\ JunkInv'
  BY <1>1, <1>2, <1>3 DEF IInv, TypeOK, StopFindsFile, StopStops, JunkInv
<1>8. Unrushed'
  BY <1>1, <1>2, <1>3 DEF IInv, TypeOK, Unrushed, Starting, Daemon
<1>. QED
  BY <1>4, <1>5, <1>6, <1>7, <1>8 DEF IInv

\* The lock goes to a process only if no other one has it.
LEMMA LocksPidFilePreserves ==
  ASSUME IInv, NEW p \in Pids, LocksPidFile(p)
  PROVE  IInv'
<1>1. UNCHANGED <<cfg, pc, debug, restarting, read, rushed, dir, content>> /\ proc[p] = "opened"
  BY DEF LocksPidFile, scriptVars, fileVars
<1>2. CASE \E q \in Pids : HoldsLock(q, file[p])
  <2>1. proc' = [proc EXCEPT ![p] = "none"] /\ file' = [file EXCEPT ![p] = NoFile]
    BY <1>2 DEF LocksPidFile, Becomes
  <2>2. TypeOK'
    BY <1>1, <2>1 DEF IInv, TypeOK, Starting, Daemon
  <2>3. OneHolder' /\ PidFileNamesItsDaemon'
    BY <1>1, <2>1 DEF IInv, TypeOK, OneHolder, PidFileNamesItsDaemon, HoldsLock, Daemon
  <2>4. StopFindsFile' /\ StopStops' /\ JunkInv' /\ Unrushed'
    BY <1>1, <2>1 DEF IInv, TypeOK, StopFindsFile, StopStops, JunkInv,
       Unrushed, Starting, Daemon
  <2>. QED
    BY <2>2, <2>3, <2>4 DEF IInv
<1>3. CASE \A q \in Pids : ~HoldsLock(q, file[p])
  <2>1. proc' = [proc EXCEPT ![p] = "locked"] /\ UNCHANGED file
    BY <1>3 DEF LocksPidFile, Becomes
  <2>2. TypeOK'
    BY <1>1, <2>1 DEF IInv, TypeOK, Starting, Daemon
  <2>3. OneHolder'
    BY <1>1, <1>3, <2>1 DEF IInv, TypeOK, OneHolder, HoldsLock, Daemon
  <2>4. PidFileNamesItsDaemon'
    BY <1>1, <2>1 DEF IInv, TypeOK, PidFileNamesItsDaemon, Daemon
  <2>5. StopFindsFile' /\ StopStops' /\ JunkInv' /\ Unrushed'
    BY <1>1, <2>1 DEF IInv, TypeOK, StopFindsFile, StopStops, JunkInv,
       Unrushed, Starting, Daemon
  <2>. QED
    BY <2>2, <2>3, <2>4, <2>5 DEF IInv
<1>. QED
  BY <1>2, <1>3

\* Only the one that holds the lock writes to the file.
LEMMA WritesPidPreserves ==
  ASSUME IInv, NEW p \in Pids, WritesPid(p)
  PROVE  IInv'
<1>1. PICK rest \in {{}, {Junk}} : content' = [content EXCEPT ![file[p]] = {p} \union rest]
  BY DEF WritesPid
<1>2. proc[p] = "locked" /\ proc' = [proc EXCEPT ![p] = "named"]
  BY DEF WritesPid, Becomes
<1>3. UNCHANGED <<cfg, pc, debug, restarting, read, rushed, file, dir>>
  BY DEF WritesPid, scriptVars
<1>4. file[p] \in Files
  BY <1>2 DEF IInv, TypeOK, Starting
<1>5. TypeOK'
  BY <1>1, <1>2, <1>3, <1>4 DEF IInv, TypeOK, Starting, Daemon
<1>6. OneHolder'
  BY <1>2, <1>3 DEF IInv, TypeOK, OneHolder, HoldsLock, Daemon
<1>7. \A q \in Pids \ {p} : proc[q] \in {"named"} \union Daemon => file[q] # file[p]
  BY <1>2, <1>4, DaemoniseAssumption DEF IInv, OneHolder, HoldsLock
<1>8. PidFileNamesItsDaemon'
  BY <1>1, <1>2, <1>3, <1>4, <1>7 DEF IInv, TypeOK, PidFileNamesItsDaemon, Daemon
<1>9. StopFindsFile' /\ StopStops' /\ Unrushed'
  BY <1>2, <1>3 DEF IInv, TypeOK, StopFindsFile, StopStops, Unrushed, Starting, Daemon
<1>10. JunkInv'
  BY <1>1, <1>3, <1>4, DaemoniseAssumption DEF IInv, TypeOK, JunkInv
<1>. QED
  BY <1>5, <1>6, <1>8, <1>9, <1>10 DEF IInv

\* The script is idle while a daemon starts, so that stop has read nothing yet.
LEMMA DispatchesPreserves ==
  ASSUME IInv, NEW p \in Pids, Dispatches(p)
  PROVE  IInv'
<1>1. proc[p] = "named" /\ proc' = [proc EXCEPT ![p] = "running"]
  BY DEF Dispatches, Becomes
<1>2. UNCHANGED <<cfg, pc, debug, restarting, read, rushed, file, dir, content>>
  BY DEF Dispatches, scriptVars, fileVars
<1>3. TypeOK'
  BY <1>1, <1>2 DEF IInv, TypeOK, Starting, Daemon
<1>4. OneHolder' /\ PidFileNamesItsDaemon'
  BY <1>1, <1>2 DEF IInv, TypeOK, OneHolder, PidFileNamesItsDaemon, HoldsLock, Daemon
<1>5. StopFindsFile' /\ StopStops' /\ JunkInv' /\ Unrushed'
  BY <1>1, <1>2 DEF IInv, TypeOK, StopFindsFile, StopStops, JunkInv,
     Unrushed, Starting, Daemon
<1>. QED
  BY <1>3, <1>4, <1>5 DEF IInv

\* A process that ends lets go of its file.
LEMMA EndsPreserves ==
  ASSUME IInv, NEW p \in Pids, Ends(p)
  PROVE  IInv'
<1>1. proc' = [proc EXCEPT ![p] = "none"] /\ file' = [file EXCEPT ![p] = NoFile]
  BY DEF Ends, Becomes
<1>2. UNCHANGED <<cfg, pc, debug, restarting, read, rushed, dir, content>>
  BY DEF Ends, scriptVars, fileVars
<1>3. TypeOK'
  BY <1>1, <1>2 DEF IInv, TypeOK, Starting, Daemon
<1>4. OneHolder' /\ PidFileNamesItsDaemon'
  BY <1>1, <1>2 DEF IInv, TypeOK, OneHolder, PidFileNamesItsDaemon, HoldsLock, Daemon
<1>5. StopFindsFile' /\ StopStops' /\ JunkInv' /\ Unrushed'
  BY <1>1, <1>2 DEF IInv, TypeOK, StopFindsFile, StopStops, JunkInv,
     Unrushed, Starting, Daemon
<1>. QED
  BY <1>3, <1>4, <1>5 DEF IInv

LEMMA ProcessPreserves ==
  ASSUME IInv, NEW p \in Pids, Process(p)
  PROVE  IInv'
BY OpensPidFilePreserves, LocksPidFilePreserves, WritesPidPreserves, DispatchesPreserves,
   EndsPreserves DEF Process

-----------------------------------------------------------------------------
(* The control script *)

\* As long as the processes and files are left alone, what is locked stays locked.
LEMMA FilesUnchanged ==
  ASSUME OneHolder, PidFileNamesItsDaemon, UNCHANGED <<proc, file, content>>
  PROVE  OneHolder' /\ PidFileNamesItsDaemon'
BY DEF OneHolder, PidFileNamesItsDaemon, HoldsLock

\* A command that is not in a rush finds no daemon starting.
LEMMA CommandPreserves ==
  ASSUME IInv, CommandStart \/ CommandStop
  PROVE  IInv'
<1>1. UNCHANGED <<cfg, read, proc, file, dir, content>> /\ pc' \in {"start", "cat"}
  BY DEF CommandStart, CommandStop, procVars, fileVars
<1>2. ~rushed' => ~rushed /\ \A p \in Pids : proc[p] \notin Starting
  BY DEF CommandStart, CommandStop, Command
<1>3. TypeOK'
  BY <1>1 DEF IInv, TypeOK, CommandStart, CommandStop, Command
<1>4. StopFindsFile'
  BY DEF StopFindsFile, CommandStart, CommandStop, fileVars
<1>5. StopStops' /\ JunkInv' /\ Unrushed'
  BY <1>1, <1>2 DEF IInv, StopStops, JunkInv, Unrushed
<1>. QED
  BY <1>1, <1>3, <1>4, <1>5, FilesUnchanged DEF IInv

\* What cat reads is the pid of the daemon, if there is one that runs.
LEMMA CatPreserves ==
  ASSUME IInv, Cat
  PROVE  IInv'
<1>1. UNCHANGED <<cfg, debug, restarting, rushed, proc, file, dir, content>>
  BY DEF Cat, procVars, fileVars
<1>2. pc = "cat" /\ pc' = "kill" /\ read' = content[dir] /\ dir \in Files
  BY DEF IInv, TypeOK, StopFindsFile, Cat
<1>3. TypeOK'
  BY <1>1, <1>2 DEF IInv, TypeOK
<1>4. StopFindsFile' /\ StopStops' /\ JunkInv'
  BY <1>1, <1>2 DEF IInv, StopFindsFile, StopStops, JunkInv
<1>5. Unrushed'
  BY <1>1, <1>2 DEF IInv, Unrushed, PidFileNamesItsDaemon, Daemon, Starting
<1>. QED
  BY <1>1, <1>3, <1>4, <1>5, FilesUnchanged DEF IInv

\* kill reaches the daemon that was not told to stop if it reaches any process.
LEMMA KillPreserves ==
  ASSUME IInv, Kill
  PROVE  IInv'
<1>1. UNCHANGED <<cfg, debug, rushed, dir, content>>
  BY DEF Kill, fileVars
<1>2. /\ pc = "kill" /\ pc' \in {"rm", "idle"} /\ restarting' \in {restarting, FALSE}
      /\ read' = {}
      /\ pc' = "rm" => read # {}
  BY DEF Kill, KillSucceeds
<1>3. \A p \in Pids :
        /\ proc'[p] = IF p \notin Reached THEN proc[p]
                      ELSE IF proc[p] \in Starting THEN "none"
                      ELSE IF proc[p] = "running" THEN "stopping" ELSE proc[p]
        /\ file'[p] = IF p \in Reached /\ proc[p] \in Starting THEN NoFile ELSE file[p]
  BY DEF Kill, Terminated
<1>4. TypeOK'
  <2>1. proc' \in [Pids -> {"none", "foreground"} \union Starting \union Daemon]
    BY DEF IInv, TypeOK, Kill, Terminated, Daemon
  <2>2. file' \in [Pids -> Files \union {NoFile}]
    BY DEF IInv, TypeOK, Kill, Terminated
  <2>3. \A p \in Pids :
          file'[p] # NoFile <=> proc'[p] \in (Starting \ {"forked"}) \union Daemon
    BY <1>3 DEF IInv, TypeOK, Starting, Daemon
  <2>. QED
    BY <1>1, <1>2, <2>1, <2>2, <2>3 DEF IInv, TypeOK
<1>5. OneHolder'
  BY <1>3 DEF IInv, OneHolder, HoldsLock, Daemon, Starting
<1>6. PidFileNamesItsDaemon'
  BY <1>1, <1>3 DEF IInv, PidFileNamesItsDaemon, Daemon, Starting
<1>7. StopFindsFile' /\ JunkInv'
  BY <1>1, <1>2 DEF IInv, StopFindsFile, JunkInv
<1>8. Unrushed'
  BY <1>1, <1>2, <1>3 DEF IInv, Unrushed, Starting
<1>9. StopStops'
  <2>. SUFFICES ASSUME pc' = "rm", ~rushed, NEW p \in Pids, proc'[p] = "running"
                PROVE  FALSE
    BY <1>1 DEF StopStops
  <2>1. proc[p] = "running" /\ p \notin Reached
    BY <1>3 DEF Starting
  <2>2. read \subseteq {p, Junk} /\ read # {} /\ read # {Junk}
    BY <1>2, <2>1 DEF IInv, Unrushed, JunkInv
  <2>3. p \in read /\ p # Junk
    BY <2>2, DaemoniseAssumption
  <2>. QED
    BY <2>1, <2>3 DEF Reached, Alive
<1>. QED
  BY <1>4, <1>5, <1>6, <1>7, <1>8, <1>9 DEF IInv

\* The file that is removed is not that of a daemon that goes on.
LEMMA RemovesPidFilePreserves ==
  ASSUME IInv, RemovesPidFile
  PROVE  IInv'
<1>1. UNCHANGED <<cfg, debug, read, rushed, proc, file, content>>
  BY DEF RemovesPidFile, procVars
<1>2. pc = "rm" /\ pc' \in {"start", "idle"} /\ dir' = NoFile /\ restarting' = FALSE
  BY DEF RemovesPidFile
<1>3. TypeOK' /\ StopFindsFile' /\ StopStops' /\ JunkInv'
  BY <1>1, <1>2 DEF IInv, TypeOK, StopFindsFile, StopStops, JunkInv
<1>4. Unrushed'
  BY <1>1, <1>2 DEF IInv, Unrushed, StopStops, Starting
<1>. QED
  BY <1>1, <1>3, <1>4, FilesUnchanged DEF IInv

\* The program that is started has no file open yet.
LEMMA StartPreserves ==
  ASSUME IInv, Start
  PROVE  IInv'
<1>1. UNCHANGED <<cfg, restarting, read, rushed, file, dir, content>>
  BY DEF Start, fileVars
<1>2. /\ pc = "start" /\ pc' \in {"idle", "waiting"} /\ debug' = FALSE
      /\ pc' = "waiting" <=> Runs = "foreground"
  BY DEF Start
<1>3. CASE UNCHANGED proc
  <2>1. TypeOK' /\ StopFindsFile' /\ StopStops' /\ JunkInv' /\ Unrushed'
    BY <1>1, <1>2, <1>3 DEF IInv, TypeOK, StopFindsFile, StopStops, JunkInv, Unrushed
  <2>. QED
    BY <1>1, <1>3, <2>1, FilesUnchanged DEF IInv
<1>4. CASE Runs # "not at all" /\ \E p \in Pids : ~Alive(p) /\ Becomes(p, Runs)
  <2>1. PICK p \in Pids : proc[p] = "none" /\ proc' = [proc EXCEPT ![p] = Runs]
    BY <1>4 DEF Alive, Becomes
  <2>2. Runs \in {"forked", "foreground"}
    BY <1>4 DEF Runs
  <2>3. TypeOK'
    BY <1>1, <1>2, <2>1, <2>2 DEF IInv, TypeOK, Starting, Daemon
  <2>4. OneHolder' /\ PidFileNamesItsDaemon'
    BY <1>1, <2>1, <2>2 DEF IInv, TypeOK, OneHolder, PidFileNamesItsDaemon, HoldsLock, Daemon
  <2>5. StopFindsFile' /\ StopStops' /\ JunkInv' /\ Unrushed'
    BY <1>1, <1>2, <2>1, <2>2 DEF IInv, TypeOK, StopFindsFile, StopStops, JunkInv, Unrushed, Starting
  <2>. QED
    BY <2>3, <2>4, <2>5 DEF IInv
<1>. QED
  BY <1>3, <1>4 DEF Start

LEMMA ReturnsPreserves ==
  ASSUME IInv, Returns
  PROVE  IInv'
<1>1. UNCHANGED <<cfg, debug, restarting, read, rushed, proc, file, dir, content>>
  BY DEF Returns, procVars, fileVars
<1>2. pc = "waiting" /\ pc' = "idle"
  BY DEF Returns
<1>3. TypeOK' /\ StopFindsFile' /\ StopStops' /\ JunkInv' /\ Unrushed'
  BY <1>1, <1>2 DEF IInv, TypeOK, StopFindsFile, StopStops, JunkInv, Unrushed
<1>. QED
  BY <1>1, <1>3, FilesUnchanged DEF IInv

LEMMA ScriptPreserves ==
  ASSUME IInv, Script
  PROVE  IInv'
BY CommandPreserves, CatPreserves, KillPreserves, RemovesPidFilePreserves, StartPreserves,
   ReturnsPreserves DEF Script

-----------------------------------------------------------------------------
(* The theorems *)

LEMMA StuttersPreserves ==
  ASSUME IInv, UNCHANGED vars
  PROVE  IInv'
BY FilesUnchanged DEF IInv, TypeOK, StopFindsFile, StopStops, JunkInv, Unrushed, vars, scriptVars,
   procVars, fileVars

LEMMA NextPreserves == IInv /\ [Next]_vars => IInv'
BY ProcessPreserves, ScriptPreserves, StuttersPreserves DEF Next

\* Whatever the processes and the operator do, in which order and how often.
THEOREM Invariance == Spec => []IInv
BY InitEstablishes, NextPreserves, PTL DEF Spec

\* Every variable keeps its range.
THEOREM TypeCorrect == Spec => []TypeOK
<1>1. IInv => TypeOK
  BY DEF IInv
<1>. QED
  BY <1>1, Invariance, PTL

\* The pid file of a daemon has the pid of no other process of the program in it
\* (daemonise.c:166-190).
THEOREM NamesItsDaemon == Spec => []PidFileNamesItsDaemon
<1>1. IInv => PidFileNamesItsDaemon
  BY DEF IInv
<1>. QED
  BY <1>1, Invariance, PTL

\* When stop removes the pid file, no daemon runs that was not told to stop, unless
\* commands were given in a rush (scripts/fatcontrollerd:117-120).
THEOREM StopIsHeeded == Spec => []StopStops
<1>1. IInv => StopStops
  BY DEF IInv
<1>. QED
  BY <1>1, Invariance, PTL

\* At most one daemon was not told to stop, unless commands were given in a rush: the
\* two would hold the lock of the one file of that name (daemonise.c:166).
THEOREM OneDaemonUnasked == Spec => []OneUnaskedDaemon
<1>1. IInv => OneUnaskedDaemon
  <2>. SUFFICES ASSUME IInv, ~rushed, NEW p \in Pids, NEW q \in Pids, proc[p] = "running"
                PROVE  dir = file[p] /\ (proc[q] = "running" => p = q)
    BY DEF OneUnaskedDaemon
  <2>1. dir = file[p] /\ file[p] # NoFile /\ HoldsLock(p, file[p])
    BY DEF IInv, TypeOK, Unrushed, HoldsLock, Daemon
  <2>2. CASE proc[q] = "running"
    <3>1. HoldsLock(q, file[p])
      BY <2>1, <2>2 DEF IInv, Unrushed, HoldsLock, Daemon
    <3>. QED
      BY <2>1, <3>1 DEF IInv, OneHolder
  <2>. QED
    BY <2>1, <2>2
<1>. QED
  BY <1>1, Invariance, PTL

\* The program that the script starts takes what the configuration file says, if the
\* file is Complete: it sets what the script relies on, and none of the words of what
\* is not quoted does harm (scripts/fatcontrollerd:23-101, dgetopts.c).
THEOREM TakesSettings == Spec => []SettingsAsConfigured
<1>1. IInv => SettingsAsConfigured
  <2>. SUFFICES ASSUME IInv, Complete(Configs[cfg])
                PROVE  Accepts(Words) /\ SettingsOf(Words) = Configured(Configs[cfg], debug)
    BY DEF SettingsAsConfigured
  <2>1. Configs[cfg] \in ConfigFile /\ debug \in BOOLEAN
    BY ConfigsAssumption DEF IInv, TypeOK
  <2>. QED
    BY <2>1, CommandLineSaysWhatIsConfigured DEF Words
<1>. QED
  BY <1>1, Invariance, PTL
=============================================================================
