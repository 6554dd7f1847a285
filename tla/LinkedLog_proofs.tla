--------------------------- MODULE LinkedLog_proofs ---------------------------
(***************************************************************************)
(* The linked list of subprocslog.c, searched, marked and swept node by    *)
(* node, is the sequence of SubprocsLog: for any number of tasks, pipes,   *)
(* jobs and nodes, and with SIGHUP, failing opens and forced ends.         *)
(***************************************************************************)
EXTENDS LinkedLog, SubprocsLog_proofs

LInv == IInv /\ LinksInv

Sweeping == {"sweep", "swept"}

-----------------------------------------------------------------------------
(* The list *)

\* Places and nodes.
LEMMA Places ==
  ASSUME Linked, TypeOK
  PROVE  /\ Len(order) \in Nat /\ Len(sources) = Len(order)
         /\ DOMAIN order = 1 .. Len(order) /\ DOMAIN sources = 1 .. Len(order)
         /\ \A i \in 1 .. Len(order) :
              /\ order[i] \in Nodes /\ order[i] # NULL /\ order[i] \in allocated
              /\ Nth(order, i) = order[i] /\ sources[i] \in Source
         /\ \A i : i \notin 1 .. Len(order) => Nth(order, i) = NULL
         /\ \A i : Nth(order, i) # NULL => i \in 1 .. Len(order)
         /\ \A i, j \in 1 .. Len(order) : order[i] = order[j] => i = j
<1>1. order \in Seq(Nodes) /\ sources \in Seq(Source) /\ Len(order) = Len(sources)
  BY SourcesTyped DEF Linked
<1>2. /\ Len(order) \in Nat /\ DOMAIN order = 1 .. Len(order) /\ DOMAIN sources = 1 .. Len(order)
      /\ \A i \in 1 .. Len(order) : order[i] \in Nodes /\ sources[i] \in Source
  BY <1>1, LenProperties, ElementOfSeq
<1>3. \A i : Nth(order, i) = IF i \in 1 .. Len(order) THEN order[i] ELSE NULL
  BY <1>2 DEF Nth
<1>4. \A i \in 1 .. Len(order) : order[i] # NULL /\ order[i] \in allocated
  BY <1>2, NodesAssumption DEF Linked
<1>. QED
  BY <1>1, <1>2, <1>3, <1>4 DEF Linked

\* What a node says, but for its state, is what the sequence says.
LEMMA NodeSays ==
  ASSUME LInv, NEW i \in 1 .. Len(order)
  PROVE  /\ source[order[i]].id = sources[i].id /\ source[order[i]].fd = sources[i].fd
         /\ ~marking => source[order[i]] = sources[i]
<1>1. TypeOK /\ Linked /\ Contents
  BY DEF LInv, IInv, LinksInv
<1>2. i \in DOMAIN order /\ sources[i] \in Source
  BY <1>1, Places
<1>. QED
  BY <1>1, <1>2 DEF Contents, Marked, Source

\* A step that leaves the list alone.
LEMMA LeavesList ==
  ASSUME LInv, UNCHANGED <<heapVars, walkVars, sources>>,
         mutex # NoTask => /\ MutexFree' /\ task'[mutex] = task[mutex]
                           /\ logger_id'[mutex] = logger_id[mutex],
         \A t \in Tasks : task'[t] = "appending" => t \in readers',
         marking => /\ pc' \in {"deinitialize", "aborted"} /\ MayWrite'
                    /\ initialized' = initialized,
         pc' \in Sweeping => pc \in Sweeping /\ current' = current
  PROVE  LinksInv'
<1>1. TypeOK /\ Linked /\ Contents /\ SearchInv /\ MarkInv
      /\ (pc \in Sweeping => at = Nth(order, current))
  BY DEF LInv, IInv, LinksInv, Sweeping
<1>2. /\ UNCHANGED <<allocated, source, next, previous, source_list_start, order>>
      /\ UNCHANGED <<mutex, found, at, marking>> /\ UNCHANGED sources
  BY DEF heapVars, walkVars
<1>3. \A i : Nth(order', i) = Nth(order, i)
  BY <1>2 DEF Nth
<1>4. Linked'
  BY <1>1, <1>2, <1>3 DEF Linked
<1>5. \A i : Marked(i)' <=> Marked(i)
  BY <1>2 DEF Marked
<1>6. Contents'
  BY <1>1, <1>2, <1>5 DEF Contents
<1>7. SearchInv'
  BY <1>1, <1>2, <1>3 DEF SearchInv
<1>8. MarkInv'
  BY <1>1, <1>2, <1>3 DEF MarkInv
<1>9. pc' \in Sweeping => at' = Nth(order', current')
  BY <1>1, <1>2, <1>3 DEF Nth
<1>. QED
  BY <1>4, <1>6, <1>7, <1>8, <1>9 DEF LinksInv, Sweeping

-----------------------------------------------------------------------------
(* The steps that are as in SubprocsLog *)

LEMMA TaskStepLeavesList ==
  ASSUME LInv, NEW t \in Tasks, Unlinked,
         \/ TaskStarts(t) \/ JobWrites(t) \/ JobEnds(t)
         \/ TaskForks(t) \/ TaskForkFails(t) \/ RemoveTests(t)
         \/ ~marking /\ AppendLocks(t)
  PROVE  LinksInv'
<1>1. /\ UNCHANGED <<heapVars, walkVars>>
      /\ TypeOK /\ SearchInv /\ MarkInv
  BY DEF Unlinked, LInv, IInv, LinksInv
<1>2. task \in [Tasks -> {"none", "starting", "forked", "appending", "waiting", "removing"}]
      /\ logger_id \in [Tasks -> 0 .. MaxSourceId \union {RV_FAIL}]
  BY <1>1 DEF TypeOK
<1>3. CASE TaskStarts(t)
  <2>1. /\ UNCHANGED <<sources, readers, leaked, initialized, logger_id, pc, current>>
        /\ task' = [task EXCEPT ![t] = "starting"] /\ task[t] = "none"
    BY <1>3 DEF TaskStarts, listVars, lockVars, mainVars
  <2>. QED
    BY <1>1, <1>2, <2>1, LeavesList DEF SearchInv, MarkInv, MayWrite, MutexFree, Sweeping
<1>4. CASE JobWrites(t) \/ JobEnds(t)
  <2>1. UNCHANGED <<sources, readers, leaked, initialized, task, logger_id, pc, current>>
    BY <1>4 DEF JobWrites, JobEnds, listVars, lockVars, mainVars, taskVars
  <2>. QED
    BY <1>1, <1>2, <2>1, LeavesList DEF SearchInv, MarkInv, MayWrite, MutexFree, Sweeping
<1>5. CASE TaskForks(t) \/ TaskForkFails(t)
  <2>1. /\ UNCHANGED <<sources, readers, leaked, initialized, logger_id, pc, current>>
        /\ task[t] = "starting"
        /\ \E to \in {"forked", "none"} : task' = [task EXCEPT ![t] = to]
    BY <1>5 DEF TaskForks, TaskForkFails, listVars, lockVars, mainVars
  <2>. QED
    BY <1>1, <1>2, <2>1, LeavesList DEF SearchInv, MarkInv, MayWrite, MutexFree, Sweeping
<1>6. CASE RemoveTests(t)
  <2>1. /\ UNCHANGED <<sources, readers, leaked, initialized, current>>
        /\ task[t] = "waiting" /\ pc' \in {pc, "aborted"} /\ ~Ended
        /\ \/ UNCHANGED <<task, logger_id>>
           \/ task' = [task EXCEPT ![t] = "removing"] /\ UNCHANGED logger_id
           \/ /\ task' = [task EXCEPT ![t] = "none"]
              /\ logger_id' = [logger_id EXCEPT ![t] = RV_FAIL]
    BY <1>6 DEF RemoveTests, ClosesAndFinishes, Finishes, Goes, listVars, lockVars, taskVars
  <2>. QED
    BY <1>1, <1>2, <2>1, LeavesList DEF SearchInv, MarkInv, MayWrite, MutexFree, Sweeping
<1>7. CASE ~marking /\ AppendLocks(t)
  <2>1. /\ UNCHANGED <<sources, initialized, logger_id, current>>
        /\ task[t] = "forked" /\ pc' \in {pc, "aborted"} /\ ~Ended
        /\ \/ task' = [task EXCEPT ![t] = "appending"] /\ readers' = readers \union {t}
           \/ task' = [task EXCEPT ![t] = "waiting"] /\ readers' = readers
           \/ task' = task /\ readers' = readers
    BY <1>7 DEF AppendLocks, Goes, listVars, taskVars
  <2>. QED
    BY <1>1, <1>2, <1>7, <2>1, LeavesList DEF SearchInv, MarkInv, MutexFree, Sweeping
<1>. QED
  BY <1>3, <1>4, <1>5, <1>6, <1>7

LEMMA MainStepLeavesList ==
  ASSUME LInv, Unlinked,
         ScanEnds \/ PollSignals \/ ReinitializeCloses \/ ReinitializeOpens \/ MainReturns
  PROVE  LinksInv'
<1>1. /\ UNCHANGED <<heapVars, walkVars>>
      /\ SearchInv /\ MarkInv
  BY DEF Unlinked, LInv, LinksInv
<1>2. /\ UNCHANGED <<sources, readers, leaked, task, logger_id>>
      /\ pc \in {"scan", "signals", "reinitialize", "reopen", "exiting"}
      /\ pc' \notin Sweeping
  BY DEF ScanEnds, PollSignals, ReinitializeCloses, ReinitializeOpens, MainReturns,
     At, listVars, lockVars, taskVars, Sweeping
<1>3. ~marking
  BY <1>1, <1>2 DEF MarkInv
<1>. QED
  BY <1>1, <1>2, <1>3, LeavesList DEF SearchInv, MarkInv, MutexFree, Sweeping

\* A step that is none.
LEMMA StutterLeavesList ==
  ASSUME LInv, UNCHANGED linkedVars
  PROVE  LinksInv'
<1>1. /\ UNCHANGED <<heapVars, walkVars>>
      /\ UNCHANGED <<sources, readers, leaked, initialized, task, logger_id, pc, current>>
  BY DEF linkedVars, vars, listVars, lockVars, taskVars, mainVars
<1>. QED
  BY <1>1, LeavesList DEF LInv, LinksInv, SearchInv, MarkInv, MayWrite, MutexFree, Sweeping

-----------------------------------------------------------------------------
(* subprocslog_append_source *)

LEMMA AppendLinksKeeps ==
  ASSUME LInv, TypeOK', NEW t \in Tasks, AppendLinks(t)
  PROVE  LinksInv'
<1>. DEFINE a == Malloc
<1>1. /\ TypeOK /\ Linked /\ Contents /\ SearchInv /\ MarkInv
  BY DEF LInv, IInv, LinksInv
<1>2. a \in Nodes /\ a \notin allocated
  BY DEF AppendLinks, Malloc
<1>3. /\ ~MutexTaken /\ AppendSource(t) /\ UNCHANGED walkVars
      /\ allocated' = allocated \union {a}
      /\ source' = [source EXCEPT ![a] = [id |-> NewId, fd |-> pipe[t], state |-> "ACTIVE"]]
      /\ next' = [next EXCEPT ![a] = source_list_start]
      /\ previous' = [b \in Nodes |-> CASE b = a                 -> NULL
                                        [] b = source_list_start -> a
                                        [] OTHER                 -> previous[b]]
      /\ source_list_start' = a
      /\ order' = <<a>> \o order
  BY DEF AppendLinks
<1>. HIDE DEF a
<1>. DEFINE new == [id |-> NewId, fd |-> pipe[t], state |-> "ACTIVE"]
<1>4. /\ ~Ended /\ task[t] = "appending" /\ MutexFree /\ mutex = NoTask
      /\ sources' = <<new>> \o sources
      /\ task' = [task EXCEPT ![t] = "waiting"] /\ readers' = readers \ {t}
      /\ UNCHANGED <<pc, current, mutex, found, at, marking>>
  BY <1>3 DEF AppendSource, MutexTaken, mainVars, walkVars
<1>5. ~marking
  BY <1>1, <1>4 DEF MarkInv, MayWrite
<1>6. /\ order \in Seq(Nodes) /\ sources \in Seq(Source) /\ new \in Source
  <2>1. TypeInv
    BY DEF LInv, IInv, TypeInv
  <2>. QED
    BY <1>1, <1>4, <2>1, <1>3, AppendedSources, SourcesTyped DEF Linked
<1>7. /\ order' \in Seq(Nodes) /\ Len(order') = Len(order) + 1 /\ order'[1] = a
      /\ \A i \in 1 .. Len(order) : order'[i + 1] = order[i]
      /\ Len(sources') = Len(sources) + 1 /\ sources'[1] = new
      /\ \A i \in 1 .. Len(sources) : sources'[i + 1] = sources[i]
  BY <1>2, <1>3, <1>4, <1>6, InFrontProperties
<1>8. /\ Len(order) \in Nat /\ Len(sources) = Len(order)
      /\ DOMAIN order = 1 .. Len(order) /\ DOMAIN order' = 1 .. Len(order) + 1
      /\ \A i \in 1 .. Len(order) : order[i] \in Nodes /\ order[i] \in allocated
      /\ \A i, j \in 1 .. Len(order) : order[i] = order[j] => i = j
  BY <1>1, <1>7, Places, LenProperties
<1>. DEFINE len == Len(order)
<1>9. \A i \in 1 .. len + 1 : i = 1 \/ (i - 1 \in 1 .. len /\ i = (i - 1) + 1)
  BY <1>8
<1>10. /\ Nth(order', 0) = NULL /\ Nth(order', 1) = a
       /\ \A i \in Nat : i >= 1 => Nth(order', i + 1) = Nth(order, i)
  BY <1>7, <1>8 DEF Nth
<1>11. \A i \in 1 .. len : order'[i + 1] # a
  BY <1>2, <1>7, <1>8
<1>12. \A i, j \in 1 .. len + 1 : order'[i] = order'[j] => i = j
  <2>. SUFFICES ASSUME NEW i \in 1 .. len + 1, NEW j \in 1 .. len + 1, order'[i] = order'[j]
                PROVE  i = j
    OBVIOUS
  <2>1. CASE i = 1 \/ j = 1
    BY <1>7, <1>9, <1>11, <2>1
  <2>2. CASE i # 1 /\ j # 1
    <3>1. order[i - 1] = order[j - 1] /\ i - 1 \in 1 .. len /\ j - 1 \in 1 .. len
      BY <1>7, <1>9, <2>2
    <3>2. i - 1 = j - 1
      BY <1>8, <3>1
    <3>. QED
      BY <3>2
  <2>. QED
    BY <2>1, <2>2
<1>13. allocated' = {order'[i] : i \in DOMAIN order'}
  <2>1. allocated = {order[i] : i \in 1 .. len}
    BY <1>1, <1>8 DEF Linked
  <2>2. ASSUME NEW b \in allocated'
        PROVE  \E i \in 1 .. len + 1 : b = order'[i]
    <3>1. CASE b = a
      BY <1>7, <1>8, <3>1
    <3>2. CASE b \in allocated
      <4>1. PICK i \in 1 .. len : b = order[i]
        BY <2>1, <3>2
      <4>2. i + 1 \in 1 .. len + 1 /\ b = order'[i + 1]
        BY <1>7, <1>8, <4>1
      <4>. QED
        BY <4>2
    <3>. QED
      BY <1>3, <2>2, <3>1, <3>2
  <2>3. ASSUME NEW i \in 1 .. len + 1
        PROVE  order'[i] \in allocated'
    BY <1>3, <1>7, <1>8, <1>9
  <2>. QED
    BY <1>8, <2>2, <2>3
<1>14. \A b \in Nodes : next'[b] = IF b = a THEN source_list_start ELSE next[b]
  BY <1>1, <1>3 DEF Linked
<1>15. source_list_start = Nth(order, 1)
  BY <1>1 DEF Linked
<1>16. ASSUME NEW i \in 1 .. len
       PROVE  /\ order'[i + 1] = order[i] /\ order[i] # a /\ order[i] \in Nodes
              /\ next[order[i]] = Nth(order, i + 1) /\ previous[order[i]] = Nth(order, i - 1)
              /\ order[i] = source_list_start <=> i = 1
  <2>1. /\ order'[i + 1] = order[i] /\ order[i] # a /\ order[i] \in Nodes
        /\ next[order[i]] = Nth(order, i + 1) /\ previous[order[i]] = Nth(order, i - 1)
    BY <1>1, <1>2, <1>7, <1>8 DEF Linked
  <2>2. 1 \in 1 .. len /\ Nth(order, 1) = order[1]
    BY <1>8 DEF Nth
  <2>. QED
    BY <1>8, <1>15, <2>1, <2>2
<1>17. \A i \in 1 .. len + 1 : next'[order'[i]] = Nth(order', i + 1)
  <2>1. next'[order'[1]] = Nth(order', 1 + 1)
    <3>1. Nth(order', 1 + 1) = Nth(order, 1)
      BY <1>10
    <3>. QED
      BY <1>2, <1>7, <1>14, <1>15, <3>1
  <2>2. ASSUME NEW j \in 1 .. len
        PROVE  next'[order'[j + 1]] = Nth(order', (j + 1) + 1)
    <3>1. /\ order'[j + 1] = order[j] /\ order[j] # a /\ order[j] \in Nodes
          /\ next[order[j]] = Nth(order, j + 1)
      BY <1>16
    <3>2. Nth(order', (j + 1) + 1) = Nth(order, j + 1)
      <4>1. j + 1 \in Nat /\ j + 1 >= 1
        OBVIOUS
      <4>. QED
        BY <1>10, <4>1
    <3>. QED
      BY <1>14, <3>1, <3>2
  <2>. QED
    BY <1>9, <2>1, <2>2
<1>18. \A i \in 1 .. len + 1 : previous'[order'[i]] = Nth(order', i - 1)
  <2>. DEFINE Back(i) == previous'[order'[i]] = Nth(order', i - 1)
  <2>1. Back(1)
    <3>1. a # source_list_start
      BY <1>2, <1>8, <1>15, NodesAssumption DEF Nth
    <3>2. previous'[a] = NULL
      BY <1>2, <1>3, <3>1
    <3>. QED
      BY <1>7, <1>10, <3>2
  <2>2. ASSUME NEW j \in 1 .. len
        PROVE  Back(j + 1)
    <3>1. /\ order'[j + 1] = order[j] /\ order[j] # a /\ order[j] \in Nodes
          /\ previous[order[j]] = Nth(order, j - 1)
          /\ order[j] = source_list_start <=> j = 1
      BY <1>16
    <3>2. (j + 1) - 1 = j
      OBVIOUS
    <3>3. CASE j = 1
      <4>1. previous'[order[j]] = a
        BY <1>3, <3>1, <3>3
      <4>. QED
        BY <1>10, <3>1, <3>2, <3>3, <4>1
    <3>4. CASE j # 1
      <4>1. previous'[order[j]] = Nth(order, j - 1)
        BY <1>3, <3>1, <3>4
      <4>2. Nth(order', (j - 1) + 1) = Nth(order, j - 1)
        <5>1. j - 1 \in Nat /\ j - 1 >= 1
          BY <3>4
        <5>. QED
          BY <1>10, <5>1
      <4>3. (j - 1) + 1 = j
        OBVIOUS
      <4>. QED
        BY <3>1, <3>2, <4>1, <4>2, <4>3
    <3>. QED
      BY <3>3, <3>4
  <2>3. \A i \in 1 .. len + 1 : Back(i)
    <3>. HIDE DEF Back
    <3>. QED
      BY <1>9, <2>1, <2>2
  <2>. QED
    BY <2>3
<1>19. Linked'
  <2>0. source_list_start \in Nodes \union {NULL}
    BY <1>8, <1>15 DEF Nth
  <2>1. DOMAIN source' = Nodes /\ next' \in [Nodes -> Nodes \union {NULL}]
    BY <1>1, <1>2, <1>3, <2>0 DEF Linked
  <2>2. previous' \in [Nodes -> Nodes \union {NULL}]
    BY <1>1, <1>2, <1>3 DEF Linked
  <2>3. Len(order') = Len(sources') /\ source_list_start' = Nth(order', 1)
    BY <1>3, <1>7, <1>8, <1>10
  <2>. QED
    BY <1>7, <1>8, <1>12, <1>13, <1>17, <1>18, <2>1, <2>2, <2>3 DEF Linked
<1>20. \A i \in 1 .. len + 1 : source'[order'[i]] = sources'[i]
  <2>. SUFFICES ASSUME NEW i \in 1 .. len + 1 PROVE source'[order'[i]] = sources'[i]
    OBVIOUS
  <2>0. \A b \in Nodes : source'[b] = IF b = a THEN new ELSE source[b]
    BY <1>1, <1>3 DEF Linked
  <2>1. CASE i = 1
    BY <1>2, <1>7, <2>0, <2>1
  <2>2. CASE i # 1
    <3>1. i - 1 \in 1 .. len /\ i = (i - 1) + 1
      BY <1>9, <2>2
    <3>2. source[order[i - 1]] = sources[i - 1]
      BY <1>5, <3>1, NodeSays
    <3>. QED
      BY <1>7, <1>8, <1>16, <2>0, <3>1, <3>2
  <2>. QED
    BY <2>1, <2>2
<1>21. Contents'
  BY <1>4, <1>5, <1>8, <1>20 DEF Contents, Marked
<1>22. SearchInv' /\ MarkInv'
  <2>1. \A u \in Tasks : task'[u] = "appending" => task[u] = "appending" /\ u # t
    BY <1>1, <1>4 DEF TypeOK
  <2>. QED
    BY <1>1, <1>4, <1>5, <2>1 DEF SearchInv, MarkInv
<1>. QED
  BY <1>4, <1>19, <1>21, <1>22 DEF LinksInv, MutexFree

-----------------------------------------------------------------------------
(* subprocslog_remove_source *)

\* A step of the search alone.
LEMMA SearchKeeps ==
  ASSUME LInv, NEW t \in Tasks, RemoveTakes(t) \/ RemoveWalks(t)
  PROVE  LinksInv'
<1>1. /\ TypeOK /\ Linked /\ Contents /\ SearchInv /\ MarkInv
      /\ (pc \in Sweeping => at = Nth(order, current))
  BY DEF LInv, IInv, LinksInv, Sweeping
<1>2. /\ UNCHANGED <<sources, task, logger_id, readers, leaked, initialized, pc, current>>
      /\ UNCHANGED <<allocated, source, next, previous, source_list_start, order, at, marking>>
  BY DEF RemoveTakes, RemoveWalks, vars, listVars, taskVars, lockVars, mainVars, heapVars
<1>3. Linked' /\ Contents' /\ MarkInv' /\ (pc' \in Sweeping => at' = Nth(order', current'))
  <2>1. Linked'
    BY <1>1, <1>2 DEF Linked
  <2>2. Contents'
    BY <1>1, <1>2 DEF Contents, Marked
  <2>3. MarkInv'
    BY <1>1, <1>2 DEF MarkInv, MayWrite
  <2>. QED
    BY <1>1, <1>2, <2>1, <2>2, <2>3 DEF Sweeping
<1>4. SearchInv'
  <2>1. CASE RemoveTakes(t)
    <3>1. /\ mutex' = t /\ found' = Nth(order, 1) /\ task[t] = "removing" /\ MutexFree
      BY <1>1, <2>1 DEF RemoveTakes, MutexTaken, Linked
    <3>2. 1 \in 1 .. Len(order) + 1 /\ \A i \in 1 .. 1 - 1 : sources[i].id # logger_id[t]
      BY <1>1, Places
    <3>. QED
      BY <1>2, <3>1, <3>2 DEF SearchInv, MutexFree
  <2>2. CASE RemoveWalks(t)
    <3>1. /\ mutex = t /\ mutex' = t /\ found # NULL /\ found' = next[found]
          /\ source[found].id # logger_id[t]
      BY <2>2 DEF RemoveWalks, Searches
    <3>2. /\ MutexFree /\ task[t] = "removing"
          /\ \E n \in 1 .. Len(order) + 1 : /\ found = Nth(order, n)
                                            /\ \A i \in 1 .. n - 1 : sources[i].id # logger_id[t]
      BY <1>1, <3>1, LogAssumption DEF SearchInv
    <3>3. PICK n \in 1 .. Len(order) + 1 : /\ found = Nth(order, n)
                                           /\ \A i \in 1 .. n - 1 : sources[i].id # logger_id[t]
      BY <3>2
    <3>4. n \in 1 .. Len(order) /\ found = order[n] /\ DOMAIN order = 1 .. Len(order)
          /\ Len(order) \in Nat
      BY <1>1, <3>1, <3>3, Places
    <3>5. next[found] = Nth(order, n + 1)
      BY <1>1, <3>4 DEF Linked
    <3>6. sources[n].id # logger_id[t]
      BY <3>1, <3>4, NodeSays
    <3>7. n + 1 \in 1 .. Len(order) + 1 /\ \A i \in 1 .. (n + 1) - 1 : sources[i].id # logger_id[t]
      BY <3>3, <3>4, <3>6
    <3>. QED
      BY <1>2, <3>1, <3>2, <3>5, <3>7 DEF SearchInv, MutexFree
  <2>. QED
    BY <2>1, <2>2
<1>. QED
  BY <1>3, <1>4 DEF LinksInv, Sweeping

\* Where the search is.
LEMMA FoundPlace ==
  ASSUME LInv, NEW t \in Tasks, Searches(t)
  PROVE  /\ MutexFree /\ task[t] = "removing" /\ Position(found) \in 1 .. Len(order)
         /\ order[Position(found)] = found
         /\ \A i \in 1 .. Position(found) - 1 : sources[i].id # logger_id[t]
<1>1. TypeOK /\ Linked /\ SearchInv
  BY DEF LInv, IInv, LinksInv
<1>2. mutex = t /\ found # NULL /\ mutex # NoTask
  BY LogAssumption DEF Searches
<1>3. PICK n \in 1 .. Len(order) + 1 : /\ found = Nth(order, n)
                                       /\ \A i \in 1 .. n - 1 : sources[i].id # logger_id[t]
  BY <1>1, <1>2 DEF SearchInv
<1>4. n \in 1 .. Len(order) /\ found = order[n] /\ DOMAIN order = 1 .. Len(order)
      /\ \A i, j \in 1 .. Len(order) : order[i] = order[j] => i = j
  BY <1>1, <1>2, <1>3, Places
<1>5. Position(found) = n
  BY <1>4 DEF Position
<1>. QED
  BY <1>1, <1>2, <1>3, <1>4, <1>5 DEF SearchInv

\* A state that is changed in a node and in the sequence.
LEMMA RemoveFindsKeeps ==
  ASSUME LInv, NEW t \in Tasks, RemoveFinds(t)
  PROVE  LinksInv'
<1>. DEFINE n == Position(found)
<1>1. /\ TypeOK /\ Linked /\ Contents /\ SearchInv /\ MarkInv
      /\ (pc \in Sweeping => at = Nth(order, current))
  BY DEF LInv, IInv, LinksInv, Sweeping
<1>2. /\ MutexFree /\ task[t] = "removing" /\ n \in 1 .. Len(order) /\ order[n] = found
  BY FoundPlace DEF RemoveFinds
<1>3. /\ source' = [source EXCEPT ![found].state = "MOTHBALLED"]
      /\ sources' = [sources EXCEPT ![n].state = "MOTHBALLED"]
      /\ mutex' = NoTask /\ task' = [task EXCEPT ![t] = "none"]
      /\ UNCHANGED <<readers, leaked, initialized, pc, current, at, marking>>
      /\ UNCHANGED <<allocated, next, previous, source_list_start, order>>
  BY DEF RemoveFinds, Mothballs, Finishes, lockVars, mainVars
<1>. HIDE DEF n
<1>4. /\ DOMAIN order = 1 .. Len(order) /\ DOMAIN sources = 1 .. Len(order)
      /\ Len(sources) = Len(order) /\ sources \in Seq(Source) /\ Len(order) \in Nat
      /\ \A i \in 1 .. Len(order) : order[i] \in Nodes /\ sources[i] \in Source
      /\ \A i, j \in 1 .. Len(order) : order[i] = order[j] => i = j
  BY <1>1, Places, SourcesTyped
<1>5. Len(sources') = Len(sources)
  BY <1>2, <1>3, <1>4
<1>6. Linked'
  BY <1>1, <1>3, <1>5 DEF Linked
<1>7. \A i : Marked(i)' <=> Marked(i)
  BY <1>3 DEF Marked
<1>8. Contents'
  <2>. SUFFICES ASSUME NEW i \in 1 .. Len(order)
                PROVE  source'[order[i]] = IF Marked(i) THEN [sources'[i] EXCEPT !.state = "MOTHBALLED"]
                                           ELSE sources'[i]
    BY <1>3, <1>4, <1>7 DEF Contents
  <2>1. source[order[i]] = IF Marked(i) THEN [sources[i] EXCEPT !.state = "MOTHBALLED"] ELSE sources[i]
    BY <1>1, <1>4 DEF Contents
  <2>2. CASE i = n
    <3>1. /\ source'[order[i]] = [source[order[i]] EXCEPT !.state = "MOTHBALLED"]
          /\ sources'[i] = [sources[i] EXCEPT !.state = "MOTHBALLED"]
      BY <1>1, <1>2, <1>3, <1>4, <2>2 DEF Linked
    <3>. QED
      BY <1>4, <2>1, <3>1 DEF Source
  <2>3. CASE i # n
    BY <1>1, <1>2, <1>3, <1>4, <2>1, <2>3 DEF Linked
  <2>. QED
    BY <2>2, <2>3
<1>9. SearchInv' /\ MarkInv'
  BY <1>1, <1>3 DEF SearchInv, MarkInv, MayWrite, TypeOK
<1>. QED
  BY <1>1, <1>3, <1>6, <1>8, <1>9 DEF LinksInv, Sweeping

LEMMA RemoveMissesKeeps ==
  ASSUME LInv, NEW t \in Tasks, RemoveMisses(t)
  PROVE  LinksInv'
<1>1. /\ TypeOK /\ Linked /\ Contents /\ SearchInv /\ MarkInv
  BY DEF LInv, IInv, LinksInv
<1>2. /\ UNCHANGED <<sources, readers, leaked, initialized, current, at, marking>>
      /\ UNCHANGED <<allocated, source, next, previous, source_list_start, order>>
      /\ mutex' = NoTask /\ pc' \in {pc, "aborted"} /\ mutex = t
      /\ task' = task \/ task' = [task EXCEPT ![t] = "none"]
  BY DEF RemoveMisses, ClosesAndFinishes, Finishes, listVars, lockVars, taskVars, heapVars
<1>3. Linked' /\ Contents'
  BY <1>1, <1>2 DEF Linked, Contents, Marked
<1>4. MutexFree
  BY <1>1, <1>2, LogAssumption DEF SearchInv
<1>5. SearchInv' /\ MarkInv'
  BY <1>1, <1>2 DEF SearchInv, MarkInv, MayWrite, TypeOK
<1>. QED
  BY <1>2, <1>3, <1>4, <1>5 DEF LinksInv, MutexFree

-----------------------------------------------------------------------------
(* The sweep *)

\* Nobody searches while the main thread sweeps, and nobody marks.
LEMMA SweepsAlone ==
  ASSUME LInv, pc \in Sweeping
  PROVE  mutex = NoTask /\ ~marking /\ at = Nth(order, current)
BY DEF LInv, LinksInv, SearchInv, MarkInv, MutexFree, Sweeping

LEMMA WriteBuffersKeeps ==
  ASSUME LInv, LinkedWriteBuffers
  PROVE  LinksInv'
<1>1. /\ TypeOK /\ Linked /\ Contents /\ SearchInv /\ MarkInv
  BY DEF LInv, IInv, LinksInv
<1>2. /\ UNCHANGED <<sources, readers, initialized, task, logger_id, mutex, found, marking>>
      /\ UNCHANGED <<allocated, source, next, previous, source_list_start, order>>
      /\ pc = "write"
      /\ \/ pc' = "scan"
         \/ pc' = "sweep" /\ current' = 1 /\ at' = source_list_start /\ mutex = NoTask
  BY DEF LinkedWriteBuffers, WriteBuffers, BeginsSweep, At, listVars, taskVars, heapVars
<1>3. ~marking
  BY <1>1, <1>2 DEF MarkInv
<1>4. Linked'
  BY <1>1, <1>2 DEF Linked
<1>5. Contents'
  BY <1>1, <1>2, <1>3 DEF Contents, Marked
<1>6. SearchInv' /\ MarkInv'
  BY <1>1, <1>2, <1>3 DEF SearchInv, MarkInv, MutexFree
<1>. QED
  BY <1>1, <1>2, <1>4, <1>5, <1>6 DEF LinksInv, Linked

LEMMA SweepReadsKeeps ==
  ASSUME LInv, LinkedSweepReads
  PROVE  LinksInv'
<1>1. /\ UNCHANGED <<heapVars, walkVars, sources, readers, leaked, initialized, task, logger_id, current>>
      /\ pc = "sweep" /\ pc' = "swept"
  BY DEF LinkedSweepReads, At, listVars, lockVars, taskVars
<1>2. mutex = NoTask /\ ~marking
  BY <1>1, SweepsAlone DEF Sweeping
<1>. QED
  BY <1>1, <1>2, LeavesList DEF LInv, LinksInv, MarkInv, Sweeping

\* A source that stays in the list.
LEMMA SweepPassesKeeps ==
  ASSUME LInv, LinkedSweepCloses, source[at].state # "MOTHBALLED"
  PROVE  LinksInv'
<1>1. /\ TypeOK /\ Linked /\ Contents /\ SearchInv /\ MarkInv
      /\ (pc = "swept" => current \in DOMAIN sources)
  BY DEF LInv, IInv, LinksInv, SweepInv
<1>2. /\ UNCHANGED <<sources, readers, leaked, initialized, task, logger_id, mutex, found, marking>>
      /\ UNCHANGED <<allocated, source, next, previous, source_list_start, order>>
      /\ pc = "swept" /\ pc' = "sweep" /\ current' = current + 1 /\ at' = next[at]
  BY DEF LinkedSweepCloses, At, lockVars, taskVars, heapVars
<1>3. mutex = NoTask /\ ~marking /\ at = Nth(order, current)
  BY <1>2, SweepsAlone DEF Sweeping
<1>4. at' = Nth(order, current + 1)
  <2>1. current \in DOMAIN order /\ at = order[current]
    BY <1>1, <1>2, <1>3, Places
  <2>. QED
    BY <1>1, <1>2, <2>1 DEF Linked
<1>5. Linked'
  BY <1>1, <1>2 DEF Linked
<1>6. Contents'
  BY <1>1, <1>2, <1>3 DEF Contents, Marked
<1>7. SearchInv' /\ MarkInv'
  BY <1>1, <1>2, <1>3 DEF SearchInv, MarkInv
<1>. QED
  BY <1>2, <1>4, <1>5, <1>6, <1>7 DEF LinksInv

\* A source that is taken out: the first, the last, the only one, or one between.
LEMMA UnlinksKeeps ==
  ASSUME LInv, LinkedSweepCloses, source[at].state = "MOTHBALLED"
  PROVE  LinksInv'
<1>. DEFINE n == current  len == Len(order)
<1>1. /\ TypeOK /\ Linked /\ Contents /\ SearchInv /\ MarkInv
      /\ (pc = "swept" => current \in DOMAIN sources)
  BY DEF LInv, IInv, LinksInv, SweepInv
<1>2. /\ pc = "swept" /\ pc' = "sweep" /\ at' = next[at] /\ Unlinks(at)
      /\ sources' = RemoveAt(sources, n) /\ order' = RemoveAt(order, n)
      /\ UNCHANGED <<readers, leaked, initialized, task, logger_id, mutex, found, marking, current>>
  BY DEF LinkedSweepCloses, At, lockVars, taskVars
<1>3. mutex = NoTask /\ ~marking /\ at = Nth(order, n)
  BY <1>2, SweepsAlone DEF Sweeping
<1>4. /\ len \in Nat /\ Len(sources) = len
      /\ DOMAIN order = 1 .. len /\ DOMAIN sources = 1 .. len
      /\ \A i \in 1 .. len : order[i] \in Nodes /\ order[i] # NULL /\ sources[i] \in Source
      /\ \A i, j \in 1 .. len : order[i] = order[j] => i = j
      /\ n \in 1 .. len /\ at = order[n]
  BY <1>1, <1>2, <1>3, Places
<1>5. /\ order' \in Seq(Nodes) /\ Len(order') = len - 1
      /\ \A i \in 1 .. len - 1 : order'[i] = IF i < n THEN order[i] ELSE order[i + 1]
      /\ Len(sources') = len - 1
      /\ \A i \in 1 .. len - 1 : sources'[i] = IF i < n THEN sources[i] ELSE sources[i + 1]
  <2>1. order \in Seq(Nodes) /\ sources \in Seq(Source)
    BY <1>1, SourcesTyped DEF Linked
  <2>2. /\ RemoveAt(order, n) \in Seq(Nodes) /\ Len(RemoveAt(order, n)) = len - 1
        /\ \A i \in 1 .. len - 1 :
             RemoveAt(order, n)[i] = IF i < n THEN order[i] ELSE order[i + 1]
    BY <1>4, <2>1, RemoveAtProperties
  <2>3. /\ Len(RemoveAt(sources, n)) = len - 1
        /\ \A i \in 1 .. len - 1 :
             RemoveAt(sources, n)[i] = IF i < n THEN sources[i] ELSE sources[i + 1]
    <3>1. n \in 1 .. Len(sources)
      BY <1>4
    <3>2. /\ Len(RemoveAt(sources, n)) = Len(sources) - 1
          /\ \A i \in 1 .. Len(sources) - 1 :
               RemoveAt(sources, n)[i] = IF i < n THEN sources[i] ELSE sources[i + 1]
      BY <2>1, <3>1, RemoveAtProperties
    <3>. QED
      BY <1>4, <3>2
  <2>. QED
    BY <1>2, <2>2, <2>3
<1>6. /\ source_list_start' = IF previous[at] = NULL THEN next[at] ELSE source_list_start
      /\ next' = [b \in Nodes |-> CASE b = at           -> NULL
                                   [] b = previous[at] -> next[at]
                                   [] OTHER            -> next[b]]
      /\ previous' = [b \in Nodes |-> CASE b = at       -> NULL
                                       [] b = next[at] -> previous[at]
                                       [] OTHER        -> previous[b]]
      /\ source' = [source EXCEPT ![at] = Freed]
      /\ allocated' = allocated \ {at}
  BY <1>2 DEF Unlinks
<1>7. next[at] = Nth(order, n + 1) /\ previous[at] = Nth(order, n - 1)
  BY <1>1, <1>4 DEF Linked
<1>8. \A i \in 1 .. len : Nth(order, i) = order[i]
  BY <1>4 DEF Nth
<1>9. Nth(order, 0) = NULL /\ Nth(order, len + 1) = NULL
  BY <1>4 DEF Nth
\* Before the source nothing moves, behind it all does.
<1>10. \A i \in Nat : Nth(order', i) = IF i < n THEN Nth(order, i) ELSE Nth(order, i + 1)
  <2>. SUFFICES ASSUME NEW i \in Nat
                PROVE  Nth(order', i) = IF i < n THEN Nth(order, i) ELSE Nth(order, i + 1)
    OBVIOUS
  <2>1. DOMAIN order' = 1 .. len - 1
    BY <1>5, LenProperties
  <2>2. CASE i \in 1 .. len - 1
    BY <1>4, <1>5, <2>1, <2>2 DEF Nth
  <2>3. CASE i = 0
    BY <1>4, <2>1, <2>3 DEF Nth
  <2>4. CASE i >= len
    <3>1. ~(i < n) /\ i + 1 \notin 1 .. len /\ i \notin 1 .. len - 1
      BY <1>4, <2>4
    <3>. QED
      BY <1>4, <2>1, <3>1 DEF Nth
  <2>. QED
    BY <1>4, <2>2, <2>3, <2>4
<1>11. ASSUME NEW k \in 1 .. len, k # n
       PROVE  /\ next'[order[k]] = IF k = n - 1 THEN Nth(order, n + 1) ELSE Nth(order, k + 1)
              /\ previous'[order[k]] = IF k = n + 1 THEN Nth(order, n - 1) ELSE Nth(order, k - 1)
              /\ source'[order[k]] = sources[k]
  <2>1. order[k] \in Nodes /\ order[k] # at /\ order[k] # NULL
    BY <1>4, <1>11
  <2>2. next[order[k]] = Nth(order, k + 1) /\ previous[order[k]] = Nth(order, k - 1)
    BY <1>1, <1>4 DEF Linked
  <2>3. order[k] = previous[at] <=> k = n - 1
    <3>1. CASE n = 1
      BY <1>4, <1>7, <1>9, <2>1, <3>1
    <3>2. CASE n # 1
      <4>1. n - 1 \in 1 .. len /\ previous[at] = order[n - 1]
        BY <1>4, <1>7, <1>8, <3>2
      <4>. QED
        BY <1>4, <4>1
    <3>. QED
      BY <3>1, <3>2
  <2>4. order[k] = next[at] <=> k = n + 1
    <3>1. CASE n = len
      BY <1>4, <1>7, <1>9, <2>1, <3>1
    <3>2. CASE n # len
      <4>0. len \in Nat /\ n \in 1 .. len
        BY <1>4
      <4>1. n + 1 \in 1 .. len
        BY <4>0, <3>2
      <4>2. next[at] = order[n + 1]
        BY <1>7, <1>8, <4>1
      <4>. QED
        BY <1>4, <4>1, <4>2
    <3>. QED
      BY <3>1, <3>2
  <2>5. /\ next'[order[k]] = IF order[k] = previous[at] THEN next[at] ELSE next[order[k]]
        /\ previous'[order[k]] = IF order[k] = next[at] THEN previous[at] ELSE previous[order[k]]
    BY <1>6, <2>1
  <2>6. source'[order[k]] = source[order[k]]
    BY <1>1, <1>6, <2>1 DEF Linked
  <2>7. source[order[k]] = sources[k]
    BY <1>3, NodeSays
  <2>. QED
    BY <1>7, <2>2, <2>3, <2>4, <2>5, <2>6, <2>7
<1>12. ASSUME NEW i \in 1 .. len - 1
       PROVE  /\ next'[order'[i]] = Nth(order', i + 1) /\ previous'[order'[i]] = Nth(order', i - 1)
              /\ source'[order'[i]] = sources'[i] /\ order'[i] # at /\ order'[i] \in allocated
  <2>1. i + 1 \in Nat /\ i - 1 \in Nat /\ (i + 1) - 1 = i /\ (i - 1) + 1 = i
    OBVIOUS
  <2>2. CASE i < n
    <3>1. order'[i] = order[i] /\ sources'[i] = sources[i] /\ i \in 1 .. len /\ i # n
      BY <1>4, <1>5, <2>2
    <3>2. /\ next'[order[i]] = IF i = n - 1 THEN Nth(order, n + 1) ELSE Nth(order, i + 1)
          /\ previous'[order[i]] = IF i = n + 1 THEN Nth(order, n - 1) ELSE Nth(order, i - 1)
          /\ source'[order[i]] = sources[i]
      BY <1>11, <3>1
    <3>3. Nth(order', i - 1) = Nth(order, i - 1)
      <4>1. i - 1 < n
        BY <1>4, <2>2
      <4>. QED
        BY <1>10, <2>1, <4>1
    <3>4. previous'[order[i]] = Nth(order', i - 1)
      BY <1>4, <2>2, <3>2, <3>3
    <3>5. next'[order[i]] = Nth(order', i + 1)
      <4>1. CASE i = n - 1
        <5>1. i + 1 = n /\ Nth(order', n) = Nth(order, n + 1)
          BY <1>4, <1>10, <4>1
        <5>. QED
          BY <3>2, <4>1, <5>1
      <4>2. CASE i # n - 1
        <5>1. i + 1 < n
          BY <1>4, <2>2, <4>2
        <5>2. Nth(order', i + 1) = Nth(order, i + 1)
          BY <1>10, <2>1, <5>1
        <5>. QED
          BY <3>2, <4>2, <5>2
      <4>. QED
        BY <4>1, <4>2
    <3>. QED
      BY <1>1, <1>4, <3>1, <3>2, <3>4, <3>5, Places
  <2>3. CASE ~(i < n)
    <3>1. /\ order'[i] = order[i + 1] /\ sources'[i] = sources[i + 1]
          /\ i + 1 \in 1 .. len /\ i + 1 # n /\ i + 1 # n - 1
      <4>1. i + 1 \in 1 .. len /\ i + 1 # n /\ i + 1 # n - 1
        BY <1>4, <2>3
      <4>. QED
        BY <1>5, <2>3, <4>1
    <3>2. /\ next'[order[i + 1]] = Nth(order, (i + 1) + 1)
          /\ previous'[order[i + 1]] = IF i + 1 = n + 1 THEN Nth(order, n - 1) ELSE Nth(order, i)
          /\ source'[order[i + 1]] = sources[i + 1]
      BY <1>11, <2>1, <3>1
    <3>3. Nth(order', i + 1) = Nth(order, (i + 1) + 1)
      <4>1. ~(i + 1 < n)
        BY <1>4, <2>3
      <4>. QED
        BY <1>10, <2>1, <4>1
    <3>4. previous'[order[i + 1]] = Nth(order', i - 1)
      <4>1. CASE i = n
        <5>1. n - 1 \in Nat /\ n - 1 < n
          BY <1>4
        <5>2. Nth(order', n - 1) = Nth(order, n - 1)
          BY <1>10, <5>1
        <5>. QED
          BY <3>2, <4>1, <5>2
      <4>2. CASE i # n
        <5>1. ~(i - 1 < n) /\ i + 1 # n + 1
          BY <1>4, <2>3, <4>2
        <5>2. Nth(order', i - 1) = Nth(order, i)
          BY <1>10, <2>1, <5>1
        <5>. QED
          BY <3>2, <5>1, <5>2
      <4>. QED
        BY <4>1, <4>2
    <3>. QED
      BY <1>1, <1>4, <3>1, <3>2, <3>3, <3>4, Places
  <2>. QED
    BY <2>2, <2>3
<1>13. DOMAIN order' = 1 .. len - 1
  BY <1>5, LenProperties
<1>14. \A i, j \in 1 .. len - 1 : order'[i] = order'[j] => i = j
  <2>. SUFFICES ASSUME NEW i \in 1 .. len - 1, NEW j \in 1 .. len - 1, order'[i] = order'[j]
                PROVE  i = j
    OBVIOUS
  <2>. DEFINE Was(k) == IF k < n THEN k ELSE k + 1
  <2>1. /\ Was(i) \in 1 .. len /\ Was(j) \in 1 .. len
        /\ order'[i] = order[Was(i)] /\ order'[j] = order[Was(j)]
    BY <1>4, <1>5
  <2>2. Was(i) = Was(j)
    <3>. HIDE DEF Was
    <3>. QED
      BY <1>4, <2>1
  <2>. QED
    BY <1>4, <2>2
<1>15. allocated' = {order'[i] : i \in DOMAIN order'}
  <2>1. allocated = {order[i] : i \in 1 .. len}
    BY <1>1, <1>4 DEF Linked
  <2>2. ASSUME NEW b \in allocated, b # at
        PROVE  \E i \in 1 .. len - 1 : b = order'[i]
    <3>1. PICK k \in 1 .. len : b = order[k]
      BY <2>1
    <3>2. k # n
      BY <1>4, <2>2, <3>1
    <3>3. CASE k < n
      <4>1. k \in 1 .. len - 1 /\ order'[k] = order[k]
        BY <1>4, <1>5, <3>3
      <4>. QED
        BY <3>1, <4>1
    <3>4. CASE ~(k < n)
      <4>1. k - 1 \in 1 .. len - 1 /\ ~(k - 1 < n) /\ (k - 1) + 1 = k
        BY <1>4, <3>2, <3>4
      <4>2. order'[k - 1] = order[k]
        BY <1>5, <4>1
      <4>. QED
        BY <3>1, <4>1, <4>2
    <3>. QED
      BY <3>3, <3>4
  <2>3. allocated' \subseteq {order'[i] : i \in 1 .. len - 1}
    BY <1>6, <2>2
  <2>4. {order'[i] : i \in 1 .. len - 1} \subseteq allocated'
    BY <1>6, <1>12
  <2>. QED
    BY <1>13, <2>3, <2>4
<1>16. source_list_start' = Nth(order', 1)
  <2>1. source_list_start = Nth(order, 1)
    BY <1>1 DEF Linked
  <2>2. CASE n = 1
    <3>1. previous[at] = NULL
      BY <1>7, <1>9, <2>2
    <3>2. Nth(order', 1) = Nth(order, 1 + 1)
      BY <1>10, <2>2
    <3>. QED
      BY <1>6, <1>7, <2>2, <3>1, <3>2
  <2>3. CASE n # 1
    <3>1. n - 1 \in 1 .. len /\ 1 < n
      BY <1>4, <2>3
    <3>2. previous[at] # NULL
      BY <1>4, <1>7, <1>8, <3>1
    <3>3. Nth(order', 1) = Nth(order, 1)
      BY <1>10, <3>1
    <3>. QED
      BY <1>6, <2>1, <3>2, <3>3
  <2>. QED
    BY <2>2, <2>3
<1>17. Linked'
  <2>1. DOMAIN source' = Nodes
    BY <1>1, <1>6 DEF Linked
  <2>2. next[at] \in Nodes \union {NULL} /\ previous[at] \in Nodes \union {NULL}
    BY <1>1, <1>4 DEF Linked
  <2>3. /\ next' \in [Nodes -> Nodes \union {NULL}]
        /\ previous' \in [Nodes -> Nodes \union {NULL}]
    BY <1>1, <1>6, <2>2 DEF Linked
  <2>. QED
    BY <1>5, <1>12, <1>13, <1>14, <1>15, <1>16, <2>1, <2>3 DEF Linked
<1>18. Contents'
  BY <1>2, <1>3, <1>12, <1>13 DEF Contents, Marked
<1>19. SearchInv' /\ MarkInv'
  BY <1>1, <1>2, <1>3 DEF SearchInv, MarkInv
<1>20. at' = Nth(order', current')
  BY <1>2, <1>4, <1>7, <1>10
<1>. QED
  BY <1>17, <1>18, <1>19, <1>20 DEF LinksInv

LEMMA SweepEndsKeeps ==
  ASSUME LInv, LinkedSweepEnds
  PROVE  LinksInv'
<1>1. /\ UNCHANGED <<heapVars, walkVars, sources, readers, leaked, task, logger_id>>
      /\ pc = "sweep" /\ pc' \notin Sweeping
  BY DEF LinkedSweepEnds, At, listVars, taskVars, Sweeping
<1>2. mutex = NoTask /\ ~marking
  BY <1>1, SweepsAlone DEF Sweeping
<1>. QED
  BY <1>1, <1>2, LeavesList DEF LInv, LinksInv, MarkInv, Sweeping

-----------------------------------------------------------------------------
(* subprocslog_deinitialize *)

LEMMA BeginsMarkingKeeps ==
  ASSUME LInv, BeginsMarking
  PROVE  LinksInv'
<1>1. /\ TypeOK /\ Linked /\ Contents /\ SearchInv /\ MarkInv
  BY DEF LInv, IInv, LinksInv
<1>2. /\ UNCHANGED <<sources, readers, leaked, initialized, task, logger_id, pc, current, mutex, found>>
      /\ UNCHANGED <<allocated, source, next, previous, source_list_start, order>>
      /\ pc = "deinitialize" /\ ~marking /\ MayWrite /\ marking'
      /\ at' = IF initialized THEN source_list_start ELSE NULL
  BY DEF BeginsMarking, At, vars, listVars, lockVars, taskVars, mainVars, heapVars
<1>3. /\ Len(order) \in Nat /\ DOMAIN order = 1 .. Len(order)
      /\ source_list_start = Nth(order, 1) /\ Nth(order, Len(order) + 1) = NULL
      /\ \A i \in 1 .. Len(order) : order[i] # NULL /\ Nth(order, i) = order[i]
  BY <1>1, Places DEF Linked
<1>4. Linked'
  BY <1>1, <1>2 DEF Linked
<1>5. \A i \in DOMAIN order : ~Marked(i)'
  <2>. SUFFICES ASSUME NEW i \in 1 .. Len(order), initialized
                PROVE  \E j \in 1 .. Len(order) : at' = order[j] /\ ~(i < j)
    BY <1>2, <1>3 DEF Marked
  <2>1. 1 \in 1 .. Len(order) /\ at' = order[1] /\ ~(i < 1)
    BY <1>2, <1>3
  <2>. QED
    BY <2>1
<1>6. Contents'
  BY <1>1, <1>2, <1>5 DEF Contents, Marked
<1>7. \E n \in 1 .. Len(order) + 1 : at' = Nth(order, n)
  <2>1. 1 \in 1 .. Len(order) + 1 /\ Len(order) + 1 \in 1 .. Len(order) + 1
    BY <1>3
  <2>. QED
    BY <1>2, <1>3, <2>1
<1>8. SearchInv' /\ MarkInv'
  BY <1>1, <1>2, <1>7 DEF SearchInv, MarkInv, MutexFree, MayWrite
<1>. QED
  BY <1>2, <1>4, <1>6, <1>8 DEF LinksInv

\* One more node is marked, and the sequence does not say so yet.
LEMMA MarksKeeps ==
  ASSUME LInv, Marks
  PROVE  LinksInv'
<1>1. /\ TypeOK /\ Linked /\ Contents /\ SearchInv /\ MarkInv
  BY DEF LInv, IInv, LinksInv
<1>2. /\ UNCHANGED <<sources, readers, leaked, initialized, task, logger_id, pc, current, mutex, found>>
      /\ UNCHANGED <<allocated, next, previous, source_list_start, order, marking>>
      /\ pc = "deinitialize" /\ marking /\ at # NULL /\ at' = next[at]
      /\ source' = [source EXCEPT ![at].state = "MOTHBALLED"]
  BY DEF Marks, At, Mothballs, vars, listVars, lockVars, taskVars, mainVars
<1>3. /\ Len(order) \in Nat /\ Len(sources) = Len(order) /\ DOMAIN order = 1 .. Len(order)
      /\ \A i \in 1 .. Len(order) :
           order[i] \in Nodes /\ order[i] # NULL /\ Nth(order, i) = order[i] /\ sources[i] \in Source
      /\ \A i, j \in 1 .. Len(order) : order[i] = order[j] => i = j
      /\ \A i : Nth(order, i) # NULL => i \in 1 .. Len(order)
  BY <1>1, Places
<1>4. PICK n \in 1 .. Len(order) : at = order[n]
  <2>1. PICK n \in 1 .. Len(order) + 1 : at = Nth(order, n)
    BY <1>1, <1>2 DEF MarkInv
  <2>. QED
    BY <1>2, <1>3, <2>1
<1>5. at' = Nth(order, n + 1)
  BY <1>1, <1>2, <1>3, <1>4 DEF Linked
<1>6. Linked'
  BY <1>1, <1>2 DEF Linked
<1>7. ASSUME initialized, NEW i \in 1 .. Len(order)
      PROVE  (Marked(i) <=> i < n) /\ (Marked(i)' <=> i < n + 1)
  <2>1. Marked(i) <=> i < n
    BY <1>2, <1>3, <1>4, <1>7 DEF Marked
  <2>2. CASE n = Len(order)
    <3>1. at' = NULL
      <4>1. n + 1 \notin DOMAIN order
        BY <1>3, <2>2
      <4>. QED
        BY <1>5, <4>1 DEF Nth
    <3>2. Marked(i)'
      BY <1>2, <1>3, <1>7, <3>1 DEF Marked
    <3>. QED
      BY <1>3, <2>1, <2>2, <3>2
  <2>3. CASE n # Len(order)
    <3>1. n + 1 \in 1 .. Len(order)
      BY <1>3, <2>3
    <3>2. at' = order[n + 1]
      BY <1>3, <1>5, <3>1
    <3>3. Marked(i)' <=> i < n + 1
      BY <1>2, <1>3, <1>7, <3>1, <3>2 DEF Marked
    <3>. QED
      BY <2>1, <3>3
  <2>. QED
    BY <2>2, <2>3
<1>8. initialized
  BY <1>1, <1>2 DEF MarkInv
<1>9. Contents'
  <2>. SUFFICES ASSUME NEW i \in 1 .. Len(order)
                PROVE  source'[order[i]] = IF i < n + 1
                                           THEN [sources[i] EXCEPT !.state = "MOTHBALLED"]
                                           ELSE sources[i]
    BY <1>2, <1>3, <1>7, <1>8 DEF Contents
  <2>1. source[order[i]] = IF i < n THEN [sources[i] EXCEPT !.state = "MOTHBALLED"] ELSE sources[i]
    BY <1>1, <1>3, <1>7, <1>8 DEF Contents
  <2>2. CASE i = n
    <3>1. source'[order[i]] = [source[order[i]] EXCEPT !.state = "MOTHBALLED"]
      BY <1>1, <1>2, <1>3, <1>4, <2>2 DEF Linked
    <3>2. source[order[i]] = sources[i]
      BY <2>1, <2>2
    <3>. QED
      BY <2>2, <3>1, <3>2
  <2>3. CASE i # n
    <3>1. source'[order[i]] = source[order[i]]
      BY <1>1, <1>2, <1>3, <1>4, <2>3 DEF Linked
    <3>2. i < n <=> i < n + 1
      BY <1>3, <2>3
    <3>. QED
      BY <2>1, <3>1, <3>2
  <2>. QED
    BY <2>2, <2>3
<1>10. SearchInv' /\ MarkInv'
  <2>1. n + 1 \in 1 .. Len(order) + 1
    BY <1>3
  <2>2. SearchInv'
    BY <1>1, <1>2 DEF SearchInv, MutexFree
  <2>3. MarkInv'
    BY <1>1, <1>2, <1>5, <1>8, <2>1 DEF MarkInv, MayWrite
  <2>. QED
    BY <2>2, <2>3
<1>. QED
  BY <1>2, <1>6, <1>9, <1>10 DEF LinksInv

\* All nodes are marked when the sequence says so.
LEMMA EndsMarkingKeeps ==
  ASSUME LInv, EndsMarking
  PROVE  LinksInv'
<1>1. /\ TypeOK /\ Linked /\ Contents /\ SearchInv /\ MarkInv
  BY DEF LInv, IInv, LinksInv
<1>2. /\ UNCHANGED <<readers, leaked, initialized, task, logger_id, mutex, found>>
      /\ UNCHANGED <<allocated, source, next, previous, source_list_start, order>>
      /\ marking /\ at = NULL /\ mutex = NoTask
      /\ marking' = FALSE /\ at' = source_list_start /\ pc' = "sweep" /\ current' = 1
      /\ sources' = IF initialized
                    THEN [i \in DOMAIN sources |-> [sources[i] EXCEPT !.state = "MOTHBALLED"]]
                    ELSE sources
  BY DEF EndsMarking, BeginsSweep, taskVars, heapVars
<1>3. /\ Len(order) \in Nat /\ Len(sources) = Len(order) /\ DOMAIN order = 1 .. Len(order)
      /\ DOMAIN sources = 1 .. Len(order) /\ sources \in Seq(Source)
      /\ \A i \in 1 .. Len(order) : order[i] # NULL
  BY <1>1, Places, SourcesTyped
<1>4. Len(sources') = Len(sources)
  BY <1>2, <1>3
<1>5. Linked'
  BY <1>1, <1>2, <1>4 DEF Linked
<1>6. \A i \in 1 .. Len(order) : Marked(i) <=> initialized
  BY <1>2, <1>3 DEF Marked
<1>7. Contents'
  <2>. SUFFICES ASSUME NEW i \in 1 .. Len(order) PROVE source[order[i]] = sources'[i]
    BY <1>2, <1>3 DEF Contents, Marked
  <2>1. source[order[i]] = IF initialized THEN [sources[i] EXCEPT !.state = "MOTHBALLED"] ELSE sources[i]
    BY <1>1, <1>3, <1>6 DEF Contents
  <2>. QED
    BY <1>2, <1>3, <2>1
<1>8. SearchInv' /\ MarkInv'
  BY <1>1, <1>2 DEF SearchInv, MarkInv
<1>9. at' = Nth(order', current')
  BY <1>1, <1>2 DEF Linked
<1>. QED
  BY <1>5, <1>7, <1>8, <1>9 DEF LinksInv

-----------------------------------------------------------------------------
(* Every step is a step of SubprocsLog, or none *)

LEMMA RemoveFindsIsOne ==
  ASSUME LInv, NEW t \in Tasks, RemoveFinds(t)
  PROVE  RemoveSource(t)
<1>. DEFINE n == Position(found)
<1>1. /\ ~Ended /\ source[found].id = logger_id[t]
      /\ sources' = [sources EXCEPT ![n].state = "MOTHBALLED"] /\ Finishes(t)
      /\ UNCHANGED <<source_count, lockVars, pipeVars, mainVars>>
  BY DEF RemoveFinds, Searches
<1>2. /\ MutexFree /\ task[t] = "removing" /\ n \in 1 .. Len(order) /\ order[n] = found
      /\ \A i \in 1 .. n - 1 : sources[i].id # logger_id[t]
  BY FoundPlace DEF RemoveFinds
<1>3. DOMAIN sources = 1 .. Len(order) /\ Len(order) \in Nat
  BY Places DEF LInv, IInv, LinksInv
<1>4. sources[n].id = logger_id[t]
  BY <1>1, <1>2, NodeSays
<1>. HIDE DEF n
<1>5. n \in HasId(t) /\ \A j \in HasId(t) : n <= j
  BY <1>2, <1>3, <1>4 DEF HasId
<1>. QED
  BY <1>1, <1>2, <1>5 DEF RemoveSource, mainVars

LEMMA RemoveMissesIsOne ==
  ASSUME LInv, NEW t \in Tasks, RemoveMisses(t)
  PROVE  RemoveSource(t)
<1>1. /\ TypeOK /\ Linked /\ SearchInv
  BY DEF LInv, IInv, LinksInv
<1>2. /\ ~Ended /\ mutex = t /\ found = NULL /\ ClosesAndFinishes(t) /\ mutex # NoTask
      /\ UNCHANGED <<listVars, lockVars, current, logging_enabled, stopping>>
  BY LogAssumption DEF RemoveMisses
<1>3. PICK n \in 1 .. Len(order) + 1 : /\ found = Nth(order, n)
                                       /\ \A i \in 1 .. n - 1 : sources[i].id # logger_id[t]
  BY <1>1, <1>2 DEF SearchInv
<1>4. /\ DOMAIN sources = 1 .. Len(order) /\ Len(order) \in Nat
      /\ \A i \in 1 .. Len(order) : Nth(order, i) # NULL
  BY <1>1, Places
<1>5. n = Len(order) + 1
  BY <1>2, <1>3, <1>4
<1>6. HasId(t) = {}
  BY <1>3, <1>4, <1>5 DEF HasId
<1>. QED
  BY <1>1, <1>2, <1>6 DEF RemoveSource, SearchInv, listVars

LEMMA SweepIsOne ==
  ASSUME LInv, LinkedSweepReads \/ LinkedSweepCloses \/ LinkedSweepEnds
  PROVE  SweepReads \/ SweepCloses \/ SweepEnds
<1>1. /\ TypeOK /\ Linked /\ (pc = "sweep" => current >= 1)
      /\ (pc = "swept" => current \in DOMAIN sources)
  BY DEF LInv, IInv, LinksInv, SweepInv
<1>2. pc \in Sweeping
  BY DEF LinkedSweepReads, LinkedSweepCloses, LinkedSweepEnds, At, Sweeping
<1>3. ~marking /\ at = Nth(order, current)
  BY <1>2, SweepsAlone
<1>4. /\ Len(order) \in Nat /\ Len(sources) = Len(order) /\ DOMAIN sources = 1 .. Len(order)
      /\ \A i \in 1 .. Len(order) : Nth(order, i) = order[i] /\ Nth(order, i) # NULL
      /\ \A i : Nth(order, i) # NULL => i \in 1 .. Len(order)
      /\ current \in Int
  BY <1>1, Places DEF TypeOK
<1>5. CASE LinkedSweepReads
  <2>1. current \in 1 .. Len(order) /\ at = order[current]
    BY <1>3, <1>4, <1>5 DEF LinkedSweepReads
  <2>2. source[at].fd = sources[current].fd /\ current <= Len(sources)
    BY <1>4, <2>1, NodeSays
  <2>. QED
    BY <1>5, <2>2 DEF LinkedSweepReads, SweepReads
<1>6. CASE LinkedSweepCloses
  <2>1. current \in 1 .. Len(order) /\ at = order[current]
    BY <1>1, <1>3, <1>4, <1>6 DEF LinkedSweepCloses, At
  <2>2. source[at] = sources[current]
    BY <1>3, <2>1, NodeSays
  <2>. QED
    BY <1>6, <2>2 DEF LinkedSweepCloses, SweepCloses
<1>7. CASE LinkedSweepEnds
  <2>1. At("sweep") /\ at = NULL
    BY <1>7 DEF LinkedSweepEnds
  <2>2. current > Len(sources)
    <3>1. current \notin 1 .. Len(order)
      BY <1>3, <1>4, <2>1
    <3>2. current >= 1 /\ current \in Int /\ Len(order) \in Nat /\ Len(sources) = Len(order)
      BY <1>1, <1>4, <2>1 DEF At
    <3>. QED
      BY <3>1, <3>2
  <2>. QED
    BY <1>7, <2>2 DEF LinkedSweepEnds, SweepEnds
<1>. QED
  BY <1>5, <1>6, <1>7

LEMMA StepImplementsLog ==
  ASSUME LInv, [LinkedNext]_linkedVars
  PROVE  [Next]_vars
<1>1. ASSUME NEW t \in Tasks, LinkedTaskNext(t)
      PROVE  TaskNext(t) \/ UNCHANGED vars
  <2>1. AppendLinks(t) => AppendSource(t)
    BY DEF AppendLinks
  <2>2. RemoveTakes(t) \/ RemoveWalks(t) => UNCHANGED vars
    BY DEF RemoveTakes, RemoveWalks
  <2>. QED
    BY <1>1, <2>1, <2>2, RemoveFindsIsOne, RemoveMissesIsOne DEF LinkedTaskNext, TaskNext
<1>2. ASSUME LinkedMainNext
      PROVE  MainNext \/ UNCHANGED vars
  <2>1. LinkedWriteBuffers => WriteBuffers
    BY DEF LinkedWriteBuffers
  <2>2. BeginsMarking \/ Marks => UNCHANGED vars
    BY DEF BeginsMarking, Marks
  <2>3. EndsMarking => Deinitialize
    BY DEF EndsMarking, Deinitialize, LInv, LinksInv, MarkInv
  <2>. QED
    BY <1>2, <2>1, <2>2, <2>3, SweepIsOne DEF LinkedMainNext, MainNext
<1>3. UNCHANGED linkedVars => UNCHANGED vars
  BY DEF linkedVars
<1>. QED
  BY <1>1, <1>2, <1>3 DEF LinkedNext, Next

-----------------------------------------------------------------------------
(* The theorems *)

LEMMA LinkedInitEstablishes == LinkedInit => LInv
<1>. SUFFICES ASSUME LinkedInit PROVE LInv
  OBVIOUS
<1>1. IInv
  BY InitEstablishes DEF LinkedInit
<1>2. /\ order = <<>> /\ Len(order) = 0 /\ DOMAIN order = {} /\ order \in Seq(Nodes)
      /\ Len(sources) = 0
  BY DEF LinkedInit, Init
<1>3. Linked
  BY <1>2 DEF LinkedInit, Linked, Nth
<1>4. Contents /\ SearchInv /\ MarkInv
  BY <1>2 DEF LinkedInit, Init, Contents, SearchInv, MarkInv
<1>. QED
  BY <1>1, <1>3, <1>4 DEF LInv, LinksInv, LinkedInit, Init

LEMMA LinkedNextPreserves == LInv /\ [LinkedNext]_linkedVars => LInv'
<1>. SUFFICES ASSUME LInv, [LinkedNext]_linkedVars PROVE LInv'
  OBVIOUS
<1>1. IInv' /\ TypeOK'
  BY StepImplementsLog, NextPreserves DEF LInv, IInv
<1>2. ASSUME NEW t \in Tasks, LinkedTaskNext(t)
      PROVE  LinksInv'
  BY <1>1, <1>2, TaskStepLeavesList, AppendLinksKeeps, SearchKeeps, RemoveFindsKeeps, RemoveMissesKeeps
  DEF LinkedTaskNext
<1>3. ASSUME NEW t \in Tasks, TaskStarts(t) \/ JobWrites(t) \/ JobEnds(t), Unlinked
      PROVE  LinksInv'
  BY <1>3, TaskStepLeavesList
<1>4. ASSUME LinkedMainNext
      PROVE  LinksInv'
  BY <1>4, MainStepLeavesList, WriteBuffersKeeps, SweepReadsKeeps, SweepPassesKeeps, UnlinksKeeps,
     SweepEndsKeeps, BeginsMarkingKeeps, MarksKeeps, EndsMarkingKeeps
  DEF LinkedMainNext
<1>5. ASSUME (Finished /\ Unlinked) \/ UNCHANGED linkedVars
      PROVE  LinksInv'
  BY <1>5, StutterLeavesList DEF Finished, Unlinked, linkedVars
<1>6. LinksInv'
  BY <1>2, <1>3, <1>4, <1>5 DEF LinkedNext
<1>. QED
  BY <1>1, <1>6 DEF LInv

LEMMA LinkedInvariance == LinkedSpec => []LInv
BY LinkedInitEstablishes, LinkedNextPreserves, PTL DEF LinkedSpec

\* The links of the list are never broken, no node is lost, and no walk along the list
\* follows a node that was freed, although subprocslog_remove_sources walks without the
\* mutex and subprocslog_remove_source without the rwlock (subprocslog.c:511-565).
THEOREM KeepsLinks == LinkedSpec => []LinksInv
<1>1. LInv => LinksInv
  BY DEF LInv
<1>. QED
  BY <1>1, LinkedInvariance, PTL

\* The log node by node implements the log on the sequence (subprocslog.c:251-335,
\* 469-565): what is proved of SubprocsLog holds of the list in memory.
THEOREM LinkedImplements == LinkedSpec => ImplementsLog
<1>1. LinkedInit => Init
  BY DEF LinkedInit
<1>2. LInv /\ [LinkedNext]_linkedVars => [Next]_vars
  BY StepImplementsLog
<1>. QED
  BY <1>1, <1>2, LinkedInvariance, PTL DEF LinkedSpec, ImplementsLog, Spec
=============================================================================
