---------------------------- MODULE RebuildDriver ----------------------------
(***************************************************************************)
(* SortedCollectionRebuilder::Rebuild over several collections: the thread *)
(* count of the constructor, segmentBasedIndexRebuild's workers and its    *)
(* batched linkHighDramNodes tasks, listBasedIndexRebuild's batched        *)
(* rebuildSkiplistIndex tasks, and the clean-up on success.  The work on   *)
(* one collection or one segment is abstracted to its returned status;     *)
(* IndexRebuild models it in detail.                                       *)
(*                                                                         *)
(* A batch of std::async futures is joined in launch order, and the join   *)
(* returns at the first failed status; the futures left in the vector      *)
(* still block in their destructors, so the call returns only when every   *)
(* launched task has finished.                                             *)
(***************************************************************************)
EXTENDS Naturals, Sequences, FiniteSets, SequencesExt

CONSTANTS
  Colls,             \* collection ids with a linked header
  Configured,        \* num_rebuild_threads passed to the constructor
  MaxAccessThreads   \* configs_.max_access_threads

\* Lines 19-20: num_rebuild_threads_ = min(num_rebuild_threads, max_access_threads).
NumRebuildThreads == IF Configured < MaxAccessThreads THEN Configured
                                                       ELSE MaxAccessThreads
Workers == 1..NumRebuildThreads

VARIABLES
  mode,      \* segment_based_rebuild_
  initSt,    \* the status initRebuildLists returned
  cls,       \* collection -> "rebuild" or "invalid" after initRebuildLists
  sampled,   \* collections with an element sampled as a segment start
  visited,   \* recovery_segments_: segment -> visited flag
  segSt,     \* segment -> "none", "Ok" or "Fail" (rebuildSegmentIndex)
  wi, wst,   \* per phase-A worker: iterator position and status
  task,      \* collection -> status of its rebuildSkiplistIndex or
             \*   linkHighDramNodes task: "none", "running", "Ok", "Fail"
  i, fs,     \* the batch loop's counter and its vector of futures
  joining,   \* the batch loop is joining fs
  jw,        \* the next phase-A future to join
  nextTid,   \* next_tid_
  wtid,      \* this_thread.id of each phase-A worker (-1 before it enters)
  ttid,      \* this_thread.id of each collection's task (-1 before entry)
  dpc,       \* where Rebuild is
  status,    \* RebuildResult.s
  cleaned    \* cleanInvalidRecords ran

vars == <<mode, initSt, cls, sampled, visited, segSt, wi, wst, task, i, fs,
          joining, jw, nextTid, wtid, ttid, dpc, status, cleaned>>

\* The variables of the thread ids, which most actions leave alone.
tidVars == <<nextTid, wtid, ttid>>

Rebuilt == {c \in Colls : cls[c] = "rebuild"}

\* recovery_segments_: every rebuild collection's header (registered by
\* initRebuildLists) and the sampled elements of any collection.
\* Segment starts are registered only in segment mode (addRecoverySegment).
Segs == IF mode = "segment"
        THEN {<<c, "hdr">> : c \in Rebuilt} \cup {<<c, "elem">> : c \in sampled}
        ELSE {}

\* The map's iteration order, the same for every worker.
SegOrder == SetToSeq(Segs)

\* rebuild_skiplits_ in its iteration order.
RebuildOrder == SetToSeq(Rebuilt)

Init ==
  /\ mode \in {"segment", "list"}
  /\ initSt \in {"Ok", "Abort"}
  /\ cls \in [Colls -> {"rebuild", "invalid"}]
  /\ sampled \in IF mode = "segment" THEN SUBSET Colls ELSE {{}}
  /\ visited = [s \in Segs |-> FALSE]
  /\ segSt = [s \in Segs |-> "none"]
  /\ wi = [w \in Workers |-> 1]
  /\ wst = [w \in Workers |-> "none"]
  /\ task = [c \in Colls |-> "none"]
  /\ i = 0 /\ fs = <<>> /\ joining = FALSE /\ jw = 1
  \* next_tid_'s initialiser is outside rebuilder.cpp: any value modulo
  \* the size of the thread cache.
  /\ nextTid \in 0..(NumRebuildThreads - 1)
  /\ wtid = [w \in Workers |-> -1]
  /\ ttid = [c \in Colls |-> -1]
  /\ dpc = "init" /\ status = "Ok" /\ cleaned = FALSE

-----------------------------------------------------------------------------
\* Rebuild, lines 29-32: the index rebuild runs only after a successful
\* initRebuildLists and only if some collection is to be rebuilt.
StartRebuild ==
  /\ dpc = "init"
  /\ CASE initSt # "Ok" -> /\ dpc' = "returned" /\ status' = initSt
                          /\ UNCHANGED wst
       [] Rebuilt = {} -> dpc' = "clean" /\ UNCHANGED <<status, wst>>
       [] mode = "segment" -> /\ dpc' = "segA" /\ UNCHANGED status
                              /\ wst' = [w \in Workers |-> "start"]
       [] OTHER -> dpc' = "list" /\ UNCHANGED <<status, wst>>
  /\ UNCHANGED <<tidVars, mode, initSt, cls, sampled, visited, segSt, wi, task, i, fs,
                 joining, jw, cleaned>>

\* Lines 77-78: the thread cache entry a thread uses is its
\* ThreadManager::ThreadID() modulo the cache's size, num_rebuild_threads_;
\* addUnlinkedRecord, which the rebuild threads call, indexes it the same way.
CacheSlot(id) == id % NumRebuildThreads

\* Line 253: a phase-A worker takes its thread id from next_tid_ on entry.
WorkerEnter(w) ==
  /\ wst[w] = "start"
  /\ wst' = [wst EXCEPT ![w] = "run"]
  /\ wtid' = [wtid EXCEPT ![w] = nextTid]
  /\ nextTid' = nextTid + 1
  /\ UNCHANGED <<ttid, mode, initSt, cls, sampled, visited, segSt, wi, task, i,
                 fs, joining, jw, dpc, status, cleaned>>

\* Mutant: the skip path does not advance the iterator.
NextIterStuck(w) == wi[w]

NextIter(w) == wi[w] + 1

\* One iteration of rebuild_segments_index (lines 254-283): skip a visited
\* segment; claim an unvisited one under lock_ (the double check is modelled
\* in IndexRebuild); a segment of an invalid collection is only asserted to
\* be one (line 271); a rebuild collection's segment is rebuilt, and a failed
\* rebuildSegmentIndex ends the worker with its status.
WorkerStep(w) ==
  /\ wst[w] = "run"
  /\ IF wi[w] > Len(SegOrder)
     THEN /\ wst' = [wst EXCEPT ![w] = "Ok"]
          /\ UNCHANGED <<visited, segSt, wi>>
     ELSE LET s == SegOrder[wi[w]] IN
          IF visited[s]
          THEN /\ wi' = [wi EXCEPT ![w] = NextIter(w)]
               /\ UNCHANGED <<visited, segSt, wst>>
          ELSE /\ visited' = [visited EXCEPT ![s] = TRUE]
               /\ IF cls[s[1]] = "invalid"
                  THEN /\ wi' = [wi EXCEPT ![w] = NextIter(w)]
                       /\ UNCHANGED <<segSt, wst>>
                  ELSE \E r \in {"Ok", "Fail"} :
                         /\ segSt' = [segSt EXCEPT ![s] = r]
                         /\ IF r = "Ok"
                            THEN /\ wi' = [wi EXCEPT ![w] = NextIter(w)]
                                 /\ UNCHANGED wst
                            ELSE /\ wst' = [wst EXCEPT ![w] = "Fail"]
                                 /\ UNCHANGED wi
  /\ UNCHANGED <<tidVars, mode, initSt, cls, sampled, task, i, fs, joining, jw, dpc,
                 status, cleaned>>

\* Lines 291-296: join the phase-A futures in order; the first failed status
\* is returned.
JoinWorker ==
  /\ dpc = "segA" /\ wst[jw] \in {"Ok", "Fail"}
  /\ IF wst[jw] = "Fail"
     THEN dpc' = "drain" /\ status' = "Fail" /\ UNCHANGED jw
     ELSE IF jw = NumRebuildThreads
          THEN dpc' = "link" /\ UNCHANGED <<status, jw>>
          ELSE jw' = jw + 1 /\ UNCHANGED <<dpc, status>>
  /\ UNCHANGED <<tidVars, mode, initSt, cls, sampled, visited, segSt, wi, wst, task, i,
                 fs, joining, cleaned>>

\* Mutant: only a full batch is joined.
BatchEndsFullOnly(n) == n % NumRebuildThreads = 0

\* Mutant: a batch holds one future too many.
BatchEndsLate(n) == n % (NumRebuildThreads + 1) = 0 \/ n = Cardinality(Rebuilt)

\* Lines 305 and 574: the futures are joined after every
\* num_rebuild_threads_ launches and after the last one.
BatchEnds(n) == n % NumRebuildThreads = 0 \/ n = Cardinality(Rebuilt)

\* Lines 301-304 / 570-573: launch the task of the next collection of
\* rebuild_skiplits_ (linkHighDramNodes in segment mode, rebuildSkiplistIndex
\* in list mode).
LaunchTask ==
  /\ dpc \in {"link", "list"} /\ ~joining /\ i < Len(RebuildOrder)
  /\ LET c == RebuildOrder[i + 1] IN
       /\ task' = [task EXCEPT ![c] = "launched"]
       /\ fs' = Append(fs, c)
  /\ i' = i + 1
  /\ joining' = BatchEnds(i + 1)
  /\ UNCHANGED <<tidVars, mode, initSt, cls, sampled, visited, segSt, wi, wst, jw, dpc,
                 status, cleaned>>

\* Lines 490 / 463: rebuildSkiplistIndex and linkHighDramNodes take their
\* thread id from next_tid_ when the task starts to run.
EnterTask(c) ==
  /\ task[c] = "launched"
  /\ task' = [task EXCEPT ![c] = "running"]
  /\ ttid' = [ttid EXCEPT ![c] = nextTid]
  /\ nextTid' = nextTid + 1
  /\ UNCHANGED <<wtid, mode, initSt, cls, sampled, visited, segSt, wi, wst, i,
                 fs, joining, jw, dpc, status, cleaned>>

\* A launched task finishes: linkHighDramNodes always returns Ok,
\* rebuildSkiplistIndex may fail (a hash-index insert error).
RunTask(c) ==
  /\ task[c] = "running"
  /\ \E r \in IF mode = "list" THEN {"Ok", "Fail"} ELSE {"Ok"} :
       task' = [task EXCEPT ![c] = r]
  /\ UNCHANGED <<tidVars, mode, initSt, cls, sampled, visited, segSt, wi, wst, i, fs,
                 joining, jw, dpc, status, cleaned>>

\* Lines 306-313 / 575-581: f.get() on the first future of the batch; a
\* failed status is returned at once.
JoinTask ==
  /\ dpc \in {"link", "list"} /\ joining /\ fs # <<>>
  /\ task[Head(fs)] \in {"Ok", "Fail"}
  /\ IF task[Head(fs)] = "Fail"
     THEN dpc' = "drain" /\ status' = "Fail" /\ UNCHANGED <<fs, joining>>
     ELSE /\ fs' = Tail(fs)
          /\ joining' = (Tail(fs) # <<>>)
          /\ UNCHANGED <<dpc, status>>
  /\ UNCHANGED <<tidVars, mode, initSt, cls, sampled, visited, segSt, wi, wst, task, i,
                 jw, cleaned>>

\* A future whose thread has not returned: launched or running a task,
\* or a phase-A worker that has not left its scan.
InFlight == {"launched", "running", "start", "run"}

\* The loop over rebuild_skiplits_ has ended (lines 316-319 / 585): the
\* futures still in fs block in their destructors, then the call returns Ok.
EndTasks ==
  /\ dpc \in {"link", "list"} /\ ~joining /\ i = Len(RebuildOrder)
  /\ \A c \in Colls : task[c] \notin InFlight
  /\ dpc' = "clean"
  /\ UNCHANGED <<tidVars, mode, initSt, cls, sampled, visited, segSt, wi, wst, task, i,
                 fs, joining, jw, status, cleaned>>

\* A failed status is returned once every launched future has finished.
Drain ==
  /\ dpc = "drain"
  /\ \A c \in Colls : task[c] \notin InFlight
  /\ \A w \in Workers : wst[w] \notin InFlight
  /\ dpc' = "returned"
  /\ UNCHANGED <<tidVars, mode, initSt, cls, sampled, visited, segSt, wi, wst, task, i,
                 fs, joining, jw, status, cleaned>>

\* Lines 34-37: on success the rebuilt skiplists are handed over and
\* cleanInvalidRecords runs.
Clean ==
  /\ dpc = "clean"
  /\ cleaned' = TRUE
  /\ dpc' = "returned"
  /\ UNCHANGED <<tidVars, mode, initSt, cls, sampled, visited, segSt, wi, wst, task, i,
                 fs, joining, jw, status>>

\* Rebuild has returned; recovery goes on in the engine.
Returned == dpc = "returned" /\ UNCHANGED vars

Next ==
  \/ StartRebuild
  \/ \E w \in Workers : WorkerEnter(w) \/ WorkerStep(w)
  \/ JoinWorker
  \/ LaunchTask
  \/ \E c \in Colls : EnterTask(c) \/ RunTask(c)
  \/ JoinTask
  \/ EndTasks
  \/ Drain
  \/ Clean
  \/ Returned

\* Every future runs to completion and the calling thread keeps running.
Fairness ==
  /\ \A w \in Workers : WF_vars(WorkerEnter(w) \/ WorkerStep(w))
  /\ \A c \in Colls : WF_vars(EnterTask(c) \/ RunTask(c))
  /\ WF_vars(StartRebuild \/ JoinWorker \/ LaunchTask \/ JoinTask \/ EndTasks
             \/ Drain \/ Clean)

Spec == Init /\ [][Next]_vars /\ Fairness

-----------------------------------------------------------------------------
\* A rebuild collection's index is complete: in list mode its
\* rebuildSkiplistIndex returned Ok; in segment mode every one of its
\* segments was rebuilt with Ok and its upper levels were linked.
Complete(c) ==
  IF mode = "list"
  THEN task[c] = "Ok"
  ELSE /\ \A s \in Segs : s[1] = c => segSt[s] = "Ok"
       /\ task[c] = "Ok"

\* Rebuild returns Ok only when every rebuild collection was completely
\* indexed and the invalid records were cleaned; a failed status is never
\* lost in the batched joins of the futures, and nothing is cleaned after a
\* failure.
OkMeansComplete ==
  dpc = "returned" =>
    /\ status = "Ok" => cleaned /\ \A c \in Rebuilt : Complete(c)
    /\ status # "Ok" => ~cleaned

\* Threads of the rebuild that run at the same time never share a thread
\* cache entry (spec 5: per-worker state is owned by one worker and not
\* locked).  This holds because next_tid_ hands consecutive ids to at most
\* num_rebuild_threads_ threads between two joins: the phase-A workers,
\* then each batch of futures.
DistinctThreadCaches ==
  /\ \A v, w \in Workers :
       v # w /\ wst[v] = "run" /\ wst[w] = "run" =>
         CacheSlot(wtid[v]) # CacheSlot(wtid[w])
  /\ \A c, d \in Colls :
       c # d /\ task[c] = "running" /\ task[d] = "running" =>
         CacheSlot(ttid[c]) # CacheSlot(ttid[d])
  /\ \A w \in Workers, c \in Colls :
       ~(wst[w] = "run" /\ task[c] = "running")

\* Rebuild always returns: every phase-A worker leaves the segment scan and
\* every batch of futures is joined.
RebuildReturns == <>(dpc = "returned")

=============================================================================
