------------------------------ MODULE LinkedLog ------------------------------
(***************************************************************************)
(* The log of SubprocsLog as it is in memory: the list of sources is a     *)
(* doubly linked one, searched and marked node by node, with locks that    *)
(* do not always keep the others away.  subprocslog_remove_source walks    *)
(* along the list with source_list_mutex, but whatever the rwlock is;      *)
(* subprocslog_remove_sources with the rwlock, but without the mutex.      *)
(*                                                                         *)
(* sources, current and order only record what the code does: no guard of  *)
(* this module reads them.                                                 *)
(***************************************************************************)
EXTENDS SubprocsLog

CONSTANTS Nodes, NULL    \* addresses for sources; malloc exits if there are none left

ASSUME NodesAssumption == NULL \notin Nodes

VARIABLES
  allocated,          \* the nodes in use
  source,             \* the id, fd and state of each
  next, previous,     \* its links
  source_list_start,
  mutex,              \* the task that has source_list_mutex, in subprocslog_remove_source
  found,              \* and how far it has come along the list
  at,                 \* the same for the main thread
  marking,            \* which is in subprocslog_remove_sources, with the rwlock
  order               \* history: the nodes of the list, from the first to the last

heapVars   == <<allocated, source, next, previous, source_list_start, order>>
walkVars   == <<mutex, found, at, marking>>
linkedVars == <<vars, heapVars, walkVars>>

\* What a node says that is not in use.
Freed == [id |-> RV_FAIL, fd |-> NoFd, state |-> "FREED"]

LinkedInit ==
  /\ Init
  /\ allocated = {} /\ source = [a \in Nodes |-> Freed]
  /\ next = [a \in Nodes |-> NULL] /\ previous = [a \in Nodes |-> NULL]
  /\ source_list_start = NULL /\ order = <<>>
  /\ mutex = NoTask /\ found = NULL /\ at = NULL /\ marking = FALSE

MutexTaken == mutex # NoTask \/ ~MutexFree

\* malloc returns a node that is free: which one makes no difference, since addresses are
\* compared with NULL only.
Malloc == CHOOSE a \in Nodes : a \notin allocated

-----------------------------------------------------------------------------
(* The tasks *)

AppendLinks(t) ==
  /\ ~MutexTaken /\ AppendSource(t) /\ Nodes \ allocated # {}
  /\ LET a == Malloc IN
       /\ allocated' = allocated \union {a}
       /\ source' = [source EXCEPT ![a] = [id |-> NewId, fd |-> pipe[t], state |-> "ACTIVE"]]
       /\ next' = [next EXCEPT ![a] = source_list_start]
       /\ previous' = [b \in Nodes |-> CASE b = a                 -> NULL
                                         [] b = source_list_start -> a
                                         [] OTHER                 -> previous[b]]
       /\ source_list_start' = a
       /\ order' = <<a>> \o order
  /\ UNCHANGED walkVars

\* Mutation: source_list_mutex is not waited for.
RemoveTakesUnlocked(t) ==
  /\ ~Ended /\ task[t] = "removing"
  /\ mutex' = t /\ found' = source_list_start
  /\ UNCHANGED <<vars, heapVars, at, marking>>

RemoveTakes(t) ==
  /\ ~Ended /\ task[t] = "removing" /\ ~MutexTaken
  /\ mutex' = t /\ found' = source_list_start
  /\ UNCHANGED <<vars, heapVars, at, marking>>

\* The task has the mutex and a node in hand.
Searches(t) == ~Ended /\ mutex = t /\ found # NULL

RemoveWalks(t) ==
  /\ Searches(t) /\ source[found].id # logger_id[t]
  /\ found' = next[found]
  /\ UNCHANGED <<vars, heapVars, mutex, at, marking>>

\* Where in the list a node is: for the record only.
Position(a) == CHOOSE i \in DOMAIN order : order[i] = a

Mothballs(a) == source' = [source EXCEPT ![a].state = "MOTHBALLED"]

\* Mutation: the task closes the pipes whether or not the source is found.
RemoveFindsClosing(t) ==
  /\ Searches(t) /\ source[found].id = logger_id[t]
  /\ Mothballs(found)
  /\ mutex' = NoTask /\ found' = NULL
  /\ sources' = [sources EXCEPT ![Position(found)].state = "MOTHBALLED"]
  /\ ClosesAndFinishes(t)
  /\ UNCHANGED <<source_count, lockVars, current, logging_enabled, stopping,
                 allocated, next, previous, source_list_start, order, at, marking>>

RemoveFinds(t) ==
  /\ Searches(t) /\ source[found].id = logger_id[t]
  /\ Mothballs(found)
  /\ mutex' = NoTask /\ found' = NULL
  /\ sources' = [sources EXCEPT ![Position(found)].state = "MOTHBALLED"]
  /\ Finishes(t)
  /\ UNCHANGED <<source_count, lockVars, pipeVars, mainVars,
                 allocated, next, previous, source_list_start, order, at, marking>>

RemoveMisses(t) ==
  /\ ~Ended /\ mutex = t /\ found = NULL
  /\ mutex' = NoTask
  /\ ClosesAndFinishes(t)
  /\ UNCHANGED <<listVars, lockVars, current, logging_enabled, stopping,
                 heapVars, found, at, marking>>

\* The steps that are as in SubprocsLog.
Unlinked == UNCHANGED <<heapVars, walkVars>>

LinkedTaskNext(t) ==
  \/ (TaskForks(t) \/ TaskForkFails(t) \/ RemoveTests(t)) /\ Unlinked
  \/ ~marking /\ AppendLocks(t) /\ Unlinked
  \/ AppendLinks(t)
  \/ RemoveTakes(t) \/ RemoveWalks(t) \/ RemoveFinds(t) \/ RemoveMisses(t)

-----------------------------------------------------------------------------
(* The main thread *)

LinkedWriteBuffers ==
  /\ WriteBuffers
  /\ IF pc' = "sweep" THEN mutex = NoTask /\ at' = source_list_start ELSE UNCHANGED at
  /\ UNCHANGED <<heapVars, mutex, found, marking>>

\* Mutation: a source is read only when its job has ended.
LinkedSweepReadsMothballed ==
  /\ At("sweep") /\ at # NULL
  /\ unread' = IF source[at].state = "MOTHBALLED" THEN unread \ {source[at].fd} ELSE unread
  /\ pc' = "swept"
  /\ UNCHANGED <<listVars, lockVars, owner, taskVars, current, logging_enabled, stopping,
                 heapVars, walkVars>>

LinkedSweepReads ==
  /\ At("sweep") /\ at # NULL
  /\ unread' = unread \ {source[at].fd}
  /\ pc' = "swept"
  /\ UNCHANGED <<listVars, lockVars, owner, taskVars, current, logging_enabled, stopping,
                 heapVars, walkVars>>

\* Mutation: the node after it does not learn what is before it now.
UnlinksForward(a) ==
  /\ source_list_start' = IF previous[a] = NULL THEN next[a] ELSE source_list_start
  /\ next' = [b \in Nodes |-> CASE b = a           -> NULL
                               [] b = previous[a] -> next[a]
                               [] OTHER           -> next[b]]
  /\ previous' = [previous EXCEPT ![a] = NULL]
  /\ source' = [source EXCEPT ![a] = Freed]
  /\ allocated' = allocated \ {a}

\* The first node, the last one (whose predecessor gets NULL) and one between are three
\* cases in the code.  The node itself is freed.
Unlinks(a) ==
  /\ source_list_start' = IF previous[a] = NULL THEN next[a] ELSE source_list_start
  /\ next' = [b \in Nodes |-> CASE b = a           -> NULL
                               [] b = previous[a] -> next[a]
                               [] OTHER           -> next[b]]
  /\ previous' = [b \in Nodes |-> CASE b = a       -> NULL
                                   [] b = next[a] -> previous[a]
                                   [] OTHER       -> previous[b]]
  /\ source' = [source EXCEPT ![a] = Freed]
  /\ allocated' = allocated \ {a}

LinkedSweepCloses ==
  /\ At("swept")
  /\ IF source[at].state = "MOTHBALLED"
     THEN /\ Closes(source[at].fd) /\ Unlinks(at)
          /\ sources' = RemoveAt(sources, current) /\ order' = RemoveAt(order, current)
          /\ UNCHANGED current
     ELSE /\ current' = current + 1
          /\ UNCHANGED <<sources, pipeVars, heapVars>>
  /\ at' = next[at]
  /\ pc' = "sweep"
  /\ UNCHANGED <<source_count, lockVars, taskVars, logging_enabled, stopping,
                 mutex, found, marking>>

LinkedSweepEnds ==
  /\ At("sweep") /\ at = NULL
  /\ current' = 0
  /\ IF writer THEN initialized' = FALSE /\ writer' = FALSE /\ pc' = "exiting"
     ELSE UNCHANGED <<initialized, writer>> /\ pc' = "scan"
  /\ UNCHANGED <<listVars, readers, leaked, pipeVars, taskVars, logging_enabled, stopping,
                 heapVars, walkVars>>

\* Mutation: the rwlock is not waited for.
BeginsMarkingUnlocked ==
  /\ At("deinitialize") /\ ~marking
  /\ marking' = TRUE /\ at' = IF initialized THEN source_list_start ELSE NULL
  /\ UNCHANGED <<vars, heapVars, mutex, found>>

\* subprocslog_deinitialize() takes the rwlock and calls subprocslog_remove_sources(),
\* which looks at initialized first, ...
BeginsMarking ==
  /\ At("deinitialize") /\ ~marking /\ MayWrite
  /\ marking' = TRUE /\ at' = IF initialized THEN source_list_start ELSE NULL
  /\ UNCHANGED <<vars, heapVars, mutex, found>>

Marks ==
  /\ At("deinitialize") /\ marking /\ at # NULL
  /\ Mothballs(at) /\ at' = next[at]
  /\ UNCHANGED <<vars, allocated, next, previous, source_list_start, order,
                 mutex, found, marking>>

\* ... then takes the mutex and sweeps.
EndsMarking ==
  /\ At("deinitialize") /\ marking /\ at = NULL /\ mutex = NoTask
  /\ marking' = FALSE /\ at' = source_list_start
  /\ writer' = TRUE
  /\ sources' = IF initialized
                THEN [i \in DOMAIN sources |-> [sources[i] EXCEPT !.state = "MOTHBALLED"]]
                ELSE sources
  /\ BeginsSweep
  /\ UNCHANGED <<source_count, initialized, readers, leaked, pipeVars, taskVars,
                 logging_enabled, stopping, heapVars, mutex, found>>

LinkedMainNext ==
  \/ (ScanEnds \/ PollSignals \/ ReinitializeCloses \/ ReinitializeOpens \/ MainReturns) /\ Unlinked
  \/ LinkedWriteBuffers \/ LinkedSweepReads \/ LinkedSweepCloses \/ LinkedSweepEnds
  \/ BeginsMarking \/ Marks \/ EndsMarking

LinkedNext ==
  \/ LinkedMainNext
  \/ \E t \in Tasks : \/ LinkedTaskNext(t)
                      \/ (TaskStarts(t) \/ JobWrites(t) \/ JobEnds(t)) /\ Unlinked
  \/ Finished /\ Unlinked

LinkedSpec == LinkedInit /\ [][LinkedNext]_linkedVars

\* As in SubprocsLog.
LinkedFairSpec ==
  /\ LinkedSpec
  /\ WF_linkedVars(LinkedMainNext)
  /\ \A t \in Tasks : /\ WF_linkedVars(LinkedTaskNext(t))
                      /\ SF_linkedVars(AppendLinks(t) \/ RemoveTakes(t))
-----------------------------------------------------------------------------
\* Searched and marked node by node the list is still the sequence of SubprocsLog, on
\* which subprocslog_remove_source and subprocslog_deinitialize act in one step.
ImplementsLog == Spec

\* The node at place i of a list, or NULL before the first and after the last one.
Nth(list, i) == IF i \in DOMAIN list THEN list[i] ELSE NULL

\* The links lead from the first node to the last one and back, and nothing else is
\* allocated: no node is lost, and none is in the list twice.
Linked ==
  /\ order \in Seq(Nodes) /\ DOMAIN source = Nodes
  /\ next \in [Nodes -> Nodes \union {NULL}] /\ previous \in [Nodes -> Nodes \union {NULL}]
  /\ Len(order) = Len(sources) /\ allocated = {order[i] : i \in DOMAIN order}
  /\ \A i, j \in DOMAIN order : order[i] = order[j] => i = j
  /\ source_list_start = Nth(order, 1)
  /\ \A i \in DOMAIN order : next[order[i]] = Nth(order, i + 1) /\ previous[order[i]] = Nth(order, i - 1)

\* Already marked by subprocslog_remove_sources.
Marked(i) == marking /\ initialized /\ \A j \in DOMAIN order : at = order[j] => i < j

\* The nodes say what the sequence says, but for those that are marked before it is.
Contents ==
  \A i \in DOMAIN order :
    source[order[i]] = IF Marked(i) THEN [sources[i] EXCEPT !.state = "MOTHBALLED"] ELSE sources[i]

\* A task that has the mutex has passed no source with the id it looks for.
SearchInv ==
  mutex # NoTask =>
    /\ MutexFree /\ mutex \in Tasks /\ task[mutex] = "removing"
    /\ \E n \in 1 .. Len(order) + 1 : /\ found = Nth(order, n)
                                    /\ \A i \in 1 .. n - 1 : sources[i].id # logger_id[mutex]

\* While main walks along the list without the mutex, nobody can append to it.
MarkInv ==
  /\ \A t \in Tasks : task[t] = "appending" => t \in readers
  /\ marking => /\ pc \in {"deinitialize", "aborted"} /\ MayWrite /\ (initialized \/ at = NULL)
                /\ \E n \in 1 .. Len(order) + 1 : at = Nth(order, n)

\* Searched, marked or swept, the list is as it should be, and nobody has a pointer to
\* a node that was freed.
LinksInv ==
  /\ Linked /\ Contents /\ SearchInv /\ MarkInv
  /\ pc \in {"sweep", "swept"} => at = Nth(order, current)
=============================================================================
