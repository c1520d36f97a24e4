---------------------------- MODULE IndexRebuild ----------------------------
(***************************************************************************)
(* The index-rebuild and reclamation phases of SortedCollectionRebuilder   *)
(* (src/engine/sorted_collection/rebuilder.cpp) for one collection whose   *)
(* header initRebuildLists classified "rebuild".                            *)
(*                                                                         *)
(* Persistent memory: records 0..2*NumElems.  Record 0 is the header,      *)
(* records 1..NumElems are the linked elements in key order, and record    *)
(* NumElems+i is the slot of an older version of element i (a history may *)
(* leave it empty).  prev/next are the on-media links, oldv the old_version*)
(* pointers.  DRAM: height[r] > 0 iff a SkiplistNode was built for record  *)
(* r; nxt[l][r] is that node's level-l successor.  hidx is the hash index. *)
(*                                                                         *)
(* The initial state is the one intake (AddElement) and initRebuildLists   *)
(* leave behind: old versions queued unlinked (checkpoint recovery) or     *)
(* purged, the header node and the sampled segment-start nodes built, the  *)
(* collection's own hash entry inserted.                                   *)
(***************************************************************************)
EXTENDS Naturals, Sequences, FiniteSets, SequencesExt

CONSTANTS
  NumElems,           \* linked elements of the collection
  Histories,          \* version histories an element may have (see MC)
  CheckpointTS,       \* checkpoint_.CheckpointTS(); 0: no checkpoint recovery
  MaxHeight,          \* kMaxHeight
  Workers,            \* the num_rebuild_threads_ segment workers
  SegmentBased,       \* segment_based_rebuild_
  IndexWithHashtable, \* the collection's configs.index_with_hashtable
  HashCapacity,       \* entries the hash table can allocate before MemoryOverflow
  Null

CV == INSTANCE CheckpointVersion

Header == 0
Elems == 1..NumElems
OldOf(i) == NumElems + i
Recs == 0..2 * NumElems
Keys == 0..NumElems          \* 0 is the collection name, i the key of element i
Levels == 1..MaxHeight
ThisId == 1
OtherId == 2                 \* a collection that reused an old version's offset
Phases == {"index", "clean", "done", "failed"}
Entries == [type : {"Skiplist", "SkiplistNode", "DLRecord"}, ptr : Recs]

VARIABLES
  rec,        \* static attributes of each persistent record
  prev, next, \* on-media linkage
  oldv,       \* old_version
  destroyed,  \* records whose Destroy() ran
  unlinked,   \* the thread caches' unlinked_records, as a count per record
  freed,      \* how often each record was handed to the allocator
  height,     \* DRAM node height per record (0: no node)
  nxt,        \* DRAM node links per level
  hidx,       \* hash index: key -> entry or Null
  size,       \* Skiplist::Size() as published by UpdateSize
  segs,       \* recovery_segments_: start record -> visited
  segOrder,   \* the iteration order of recovery_segments_
  wpc, wi, wcur, wnode, wcnt, wst,  \* segment workers
  splice, listCount,                \* the list-based rebuild task
  phase,
  status      \* the status Rebuild returns

pmem == <<prev, next, oldv, destroyed, unlinked, freed>>
dram == <<height, nxt, hidx, size>>
workers == <<wpc, wi, wcur, wnode, wcnt, wst>>
vars == <<rec, pmem, dram, segs, segOrder, workers, splice, listCount, phase,
          status>>

-----------------------------------------------------------------------------
(* The persistent image before recovery.                                   *)

Existing(r) == rec[r].type # "Empty"
OldRecs == {OldOf(i) : i \in Elems}

\* Element i's neighbours in the list; an old version keeps the links it had
\* when it was itself linked at position i.
Succ(i) == IF i = NumElems THEN Header ELSE i + 1
Pred(i) == IF i = 1 THEN Header ELSE i - 1
Pos(r) == IF r \in OldRecs THEN r - NumElems ELSE r

RecordImage(h) ==
  [r \in Recs |->
     CASE r = Header -> [type |-> "SortedRecord", cid |-> ThisId, key |-> 0,
                         ts |-> 0, st |-> "Normal"]
       [] r \in Elems -> [type |-> "SortedElem", cid |-> ThisId, key |-> r,
                          ts |-> h[r].ts, st |-> h[r].st]
       [] h[Pos(r)].old # <<>> ->
            [type |-> "SortedElem", key |-> Pos(r),
             cid |-> IF h[Pos(r)].old[1].same THEN ThisId ELSE OtherId,
             ts |-> h[Pos(r)].old[1].ts, st |-> h[Pos(r)].old[1].st]
       [] OTHER -> [type |-> "Empty", cid |-> ThisId, key |-> Pos(r),
                    ts |-> 0, st |-> "Normal"]]

FindCheckpointVersion(r) == CV!FindCheckpointVersion(rec, oldv, r)

-----------------------------------------------------------------------------
(* Collaborators outside src/: Skiplist::Remove / Replace and the          *)
(* linkage checks of RecoveryUtils, from the spec.                         *)

CheckLinkage(r) == next[prev[r]] = r /\ prev[next[r]] = r

\* Skiplist::MatchType: a sorted header or element that was not destroyed.
MatchType(r) == r \notin destroyed /\ rec[r].type \in {"SortedElem", "SortedRecord"}

\* Skiplist::Remove: unlink r if its linkage checks, else return false.
SkiplistRemove(r) ==
  LET p == prev[r]
      n == next[r]
  IN  IF CheckLinkage(r)
      THEN /\ next' = [next EXCEPT ![p] = n]
           /\ prev' = [prev EXCEPT ![n] = p]
      ELSE UNCHANGED <<prev, next>>

\* Skiplist::Replace: link new in old's place if old's linkage checks.
SkiplistReplace(old, new) ==
  LET p == prev[old]
      n == next[old]
  IN  IF CheckLinkage(old)
      THEN /\ next' = [next EXCEPT ![p] = new, ![new] = n]
           /\ prev' = [prev EXCEPT ![n] = new, ![new] = p]
      ELSE UNCHANGED <<prev, next>>

-----------------------------------------------------------------------------
(* Rebuilder helpers.                                                      *)

HashFull == Cardinality({k \in Keys : hidx[k] # Null}) >= HashCapacity

AddUnlinkedRecord(r) == unlinked' = [unlinked EXCEPT ![r] = @ + 1]

\* Skiplist::UpdateSize: an atomic add of a worker's local count.
UpdateSize(n) == size' = size + n

\* Mutant: the table's NotFound is passed on instead of mapped to Ok.
InsertHashIndexRawStatus(k, e) ==
  CASE hidx[k] # Null -> [s |-> "Abort", h |-> hidx]
    [] HashFull -> [s |-> "MemoryOverflow", h |-> hidx]
    [] OTHER -> [s |-> "NotFound", h |-> [hidx EXCEPT ![k] = e]]

\* insertHashIndex: the hash table's Insert reports NotFound on an empty
\* slot (success); an existing entry is a rebuild bug and aborts; any other
\* status of Insert (MemoryOverflow when no entry can be allocated) is
\* passed on.
InsertHashIndex(k, e) ==
  CASE hidx[k] # Null -> [s |-> "Abort", h |-> hidx]
    [] HashFull -> [s |-> "MemoryOverflow", h |-> hidx]
    [] OTHER -> [s |-> "Ok", h |-> [hidx EXCEPT ![k] = e]]

\* Mutant: only a missing version is dropped, a tombstone is kept.
DropVersionNullOnly(v) == v = Null

\* The checkpoint version of r is dropped from the list.
DropVersion(v) == v = Null \/ rec[v].st = "Outdated"

\* Mutant: a record with an older checkpoint version is removed, not replaced.
RepairVersionRemoveReplaced(r, v) ==
  /\ IF DropVersion(v) \/ v # r THEN SkiplistRemove(r) ELSE UNCHANGED <<prev, next>>
  /\ IF DropVersion(v) \/ v # r THEN AddUnlinkedRecord(r) ELSE UNCHANGED unlinked

\* Remove r, or Replace it by its checkpoint version v, queueing r unlinked.
RepairVersion(r, v) ==
  /\ IF DropVersion(v) THEN SkiplistRemove(r)
     ELSE IF v # r THEN SkiplistReplace(r, v) ELSE UNCHANGED <<prev, next>>
  /\ IF DropVersion(v) \/ v # r THEN AddUnlinkedRecord(r) ELSE UNCHANGED unlinked

\* Mutant: the entry always points at the persistent record.
ElemEntryRecordOnly(v, hgt) == [type |-> "DLRecord", ptr |-> v]

\* The entry of a rebuilt element: its node if one was built, else its record.
ElemEntry(v, hgt) ==
  IF hgt > 0 THEN [type |-> "SkiplistNode", ptr |-> v]
  ELSE [type |-> "DLRecord", ptr |-> v]

-----------------------------------------------------------------------------
Init ==
  \E h \in [Elems -> Histories], starts \in SUBSET Elems, ht \in [Elems -> Levels] :
    /\ rec = RecordImage(h)
    /\ next = [r \in Recs |-> IF r = Header THEN 1 ELSE Succ(Pos(r))]
    /\ prev = [r \in Recs |-> IF r = Header THEN NumElems ELSE Pred(Pos(r))]
    /\ oldv = [r \in Recs |->
                 IF r \in Elems /\ Existing(OldOf(r)) THEN OldOf(r) ELSE Null]
    /\ destroyed = {}
    \* AddElement on an old version: its linkage does not check, so it is
    \* queued unlinked under checkpoint recovery and purged otherwise.
    /\ unlinked = [r \in Recs |->
                     IF r \in OldRecs /\ Existing(r) /\ CV!RecoverToCheckpoint
                     THEN 1 ELSE 0]
    /\ freed = [r \in Recs |->
                  IF r \in OldRecs /\ Existing(r) /\ ~CV!RecoverToCheckpoint
                  THEN 1 ELSE 0]
    \* AddElement samples segment starts among elements that are their own
    \* checkpoint version; initRebuildLists adds the header node.
    /\ IF SegmentBased
       THEN /\ \A s \in starts : FindCheckpointVersion(s) = s
            /\ segs = [s \in starts \cup {Header} |-> FALSE]
            /\ height = [r \in Recs |-> IF r = Header THEN MaxHeight
                                        ELSE IF r \in starts THEN ht[r] ELSE 0]
       ELSE /\ starts = {} /\ ht = [i \in Elems |-> 1]
            /\ segs = [s \in {} |-> FALSE]
            /\ height = [r \in Recs |-> IF r = Header THEN MaxHeight ELSE 0]
    /\ segOrder \in SetToSeqs(DOMAIN segs)
    /\ nxt = [l \in Levels |-> [r \in Recs |-> Null]]
    /\ hidx = [k \in Keys |-> IF k = 0 THEN [type |-> "Skiplist", ptr |-> Header]
                              ELSE Null]
    /\ size = 0
    /\ wpc = [w \in Workers |-> IF SegmentBased THEN "scan" ELSE "done"]
    /\ wi = [w \in Workers |-> 1]
    /\ wcur = [w \in Workers |-> Header]
    /\ wnode = [w \in Workers |-> Header]
    /\ wcnt = [w \in Workers |-> 0]
    /\ wst = [w \in Workers |-> "Ok"]
    /\ splice = [prevs |-> [l \in Levels |-> Header], prevRec |-> Header]
    /\ listCount = 0
    /\ phase = "index"
    /\ status = "Ok"

-----------------------------------------------------------------------------
(* Segment-based rebuild, phase A: each worker runs rebuild_segments_index *)
(* (segmentBasedIndexRebuild), claiming unvisited segments in the order of *)
(* recovery_segments_ and running rebuildSegmentIndex on each.             *)

CurSeg(w) == segOrder[wi[w]]

\* Mutant: the loop runs one entry past the end of recovery_segments_.
ScanEndedLate(w) == wi[w] > Len(segOrder) + 1

\* iter == recovery_segments_.end()
ScanEnded(w) == wi[w] > Len(segOrder)

\* Mutant: the claim does not re-check visited under the lock.
ClaimableNoRecheck(w) == TRUE

\* The re-check of visited under lock_.
Claimable(w) == ~segs[CurSeg(w)]

\* Mutant: a start element is not counted.
StartCountZero(s) == 0

\* num_elems for the start of a segment: one if it is an element.
StartCount(s) == IF s # Header THEN 1 ELSE 0

\* Mutant: the last node of a segment is always terminated.
HandOverNull(nr) == Null

\* The level-1 successor of a segment's last node when the walk meets the
\* start nr of another segment: its node, or null if nr is a header.
HandOver(nr) == IF rec[nr].type = "SortedElem" THEN nr ELSE Null

NextSegment(w) ==
  /\ wi' = [wi EXCEPT ![w] = @ + 1]
  /\ wpc' = [wpc EXCEPT ![w] = "scan"]

\* The for loop ends: the worker returns Status::Ok.
FinishScan(w) ==
  /\ phase = "index" /\ wpc[w] = "scan"
  /\ ScanEnded(w)
  /\ wpc' = [wpc EXCEPT ![w] = "done"]
  /\ UNCHANGED <<rec, pmem, dram, segs, segOrder, wi, wcur, wnode, wcnt, wst,
                 splice, listCount, phase, status>>

\* iter->second.visited read without the lock: already visited, continue.
SkipVisited(w) ==
  /\ phase = "index" /\ wpc[w] = "scan"
  /\ wi[w] <= Len(segOrder)
  /\ segs[CurSeg(w)]
  /\ wi' = [wi EXCEPT ![w] = @ + 1]
  /\ UNCHANGED <<rec, pmem, dram, segs, segOrder, wpc, wcur, wnode, wcnt, wst,
                 splice, listCount, phase, status>>

\* Seen unvisited without the lock: go for the spin lock.
SeeUnvisited(w) ==
  /\ phase = "index" /\ wpc[w] = "scan"
  /\ wi[w] <= Len(segOrder)
  /\ ~segs[CurSeg(w)]
  /\ wpc' = [wpc EXCEPT ![w] = "lock"]
  /\ UNCHANGED <<rec, pmem, dram, segs, segOrder, wi, wcur, wnode, wcnt, wst,
                 splice, listCount, phase, status>>

\* Under lock_, the second check of visited lost the race: continue.
LoseClaim(w) ==
  /\ wpc[w] = "lock"
  /\ ~Claimable(w)
  /\ NextSegment(w)
  /\ UNCHANGED <<rec, pmem, dram, segs, segOrder, wcur, wnode, wcnt, wst,
                 splice, listCount, phase, status>>

\* Under lock_, the second check holds: mark visited.  Then the owner is
\* found in rebuild_skiplits_ and rebuildSegmentIndex starts: a start
\* element is counted and gets its hash entry, and its old_version is
\* cleared.
ClaimSegment(w) ==
  LET s == CurSeg(w)
      isElem == s # Header
      ins == InsertHashIndex(rec[s].key, [type |-> "SkiplistNode", ptr |-> s])
      fails == isElem /\ IndexWithHashtable /\ ins.s # "Ok"
  IN
  /\ wpc[w] = "lock"
  /\ Claimable(w)
  /\ segs' = [segs EXCEPT ![s] = TRUE]
  /\ hidx' = IF isElem /\ IndexWithHashtable THEN ins.h ELSE hidx
  /\ IF fails
     THEN /\ wst' = [wst EXCEPT ![w] = ins.s]
          /\ wpc' = [wpc EXCEPT ![w] = "done"]
          /\ UNCHANGED <<oldv, wcur, wnode, wcnt>>
     ELSE /\ oldv' = [oldv EXCEPT ![s] = Null]
          /\ wcur' = [wcur EXCEPT ![w] = s]
          /\ wnode' = [wnode EXCEPT ![w] = s]
          /\ wcnt' = [wcnt EXCEPT ![w] = StartCount(s)]
          /\ wpc' = [wpc EXCEPT ![w] = "walk"]
          /\ UNCHANGED wst
  /\ UNCHANGED <<rec, prev, next, destroyed, unlinked, freed, height, nxt, size,
                 segOrder, wi, splice, listCount, phase, status>>

\* The walk meets the header: end of list, the segment's last node gets a
\* null level-1 successor and the count is published (UpdateSize).
EndSegmentAtHeader(w) ==
  /\ wpc[w] = "walk"
  /\ next[wcur[w]] = Header
  /\ nxt' = [nxt EXCEPT ![1][wnode[w]] = Null]
  /\ UpdateSize(wcnt[w])
  /\ NextSegment(w)
  /\ UNCHANGED <<rec, pmem, height, hidx, segs, segOrder, wcur, wnode, wcnt, wst,
                 splice, listCount, phase, status>>

\* The walk meets the start of another segment: hand over at level 1 to its
\* start node (null if that start is a header) and publish the count.
EndSegmentAtStart(w) ==
  LET nr == next[wcur[w]]
  IN
  /\ wpc[w] = "walk"
  /\ nr # Header
  /\ nr \in DOMAIN segs
  /\ nxt' = [nxt EXCEPT ![1][wnode[w]] = HandOver(nr)]
  /\ UpdateSize(wcnt[w])
  /\ NextSegment(w)
  /\ UNCHANGED <<rec, pmem, height, hidx, segs, segOrder, wcur, wnode, wcnt, wst,
                 splice, listCount, phase, status>>

\* An element inside the segment, under its hash stripe lock: drop it, or
\* replace it by its checkpoint version, append a DRAM node if one is built
\* at level 1, insert its hash entry and clear the version's old_version.
WalkSegmentElem(w) ==
  LET nr == next[wcur[w]]
      v == FindCheckpointVersion(nr)
  IN
  /\ wpc[w] = "walk"
  /\ nr # Header
  /\ nr \notin DOMAIN segs
  /\ RepairVersion(nr, v)
  /\ IF DropVersion(v)
     THEN UNCHANGED <<oldv, height, nxt, hidx, wcur, wnode, wcnt, wst, wpc, wi>>
     ELSE \E hgt \in 0..MaxHeight :
            LET ins == InsertHashIndex(rec[nr].key, ElemEntry(v, hgt))
                fails == IndexWithHashtable /\ ins.s # "Ok"
            IN
            /\ wcnt' = [wcnt EXCEPT ![w] = @ + 1]
            /\ height' = [height EXCEPT ![v] = hgt]
            /\ IF hgt > 0
               THEN /\ nxt' = [nxt EXCEPT ![1][wnode[w]] = v, ![1][v] = Null]
                    /\ wnode' = [wnode EXCEPT ![w] = v]
               ELSE UNCHANGED <<nxt, wnode>>
            /\ hidx' = IF IndexWithHashtable THEN ins.h ELSE hidx
            /\ IF fails
               THEN /\ wst' = [wst EXCEPT ![w] = ins.s]
                    /\ wpc' = [wpc EXCEPT ![w] = "done"]
                    /\ UNCHANGED <<oldv, wcur, wi>>
               ELSE /\ oldv' = [oldv EXCEPT ![v] = Null]
                    /\ wcur' = [wcur EXCEPT ![w] = v]
                    /\ UNCHANGED <<wst, wpc, wi>>
  /\ UNCHANGED <<rec, destroyed, freed, size, segs, segOrder, splice, listCount,
                 phase, status>>

\* All workers have returned (the futures of phase A are joined).
WorkersJoined == \A w \in Workers : wpc[w] = "done"

-----------------------------------------------------------------------------
(* Segment-based rebuild, phase B: linkHighDramNodes walks level 1 from    *)
(* the header node and splices every taller node into the higher levels,  *)
(* then terminates every level.                                            *)

\* Mutant: the splice into higher levels starts one level too high.
RECURSIVE LinkLevelsFrom3(_, _, _)
LinkLevelsFrom3(n, prevs, links) ==
  IF n = Null
  THEN [l \in Levels |-> [links[l] EXCEPT ![prevs[l]] = Null]]
  ELSE LinkLevelsFrom3(links[1][n],
                  [l \in Levels |-> IF l <= height[n] THEN n ELSE prevs[l]],
                  [l \in Levels |-> IF 3 <= l /\ l <= height[n]
                                    THEN [links[l] EXCEPT ![prevs[l]] = n]
                                    ELSE links[l]])

RECURSIVE LinkLevels(_, _, _)
LinkLevels(n, prevs, links) ==
  IF n = Null
  THEN [l \in Levels |-> [links[l] EXCEPT ![prevs[l]] = Null]]
  ELSE LinkLevels(links[1][n],
                  [l \in Levels |-> IF l <= height[n] THEN n ELSE prevs[l]],
                  [l \in Levels |-> IF 2 <= l /\ l <= height[n]
                                    THEN [links[l] EXCEPT ![prevs[l]] = n]
                                    ELSE links[l]])

\* The futures of phase A returned Ok: link the higher levels.
LinkHighDramNodes ==
  /\ phase = "index" /\ SegmentBased
  /\ WorkersJoined
  /\ \A w \in Workers : wst[w] = "Ok"
  /\ nxt' = LinkLevels(nxt[1][Header], [l \in Levels |-> Header], nxt)
  /\ phase' = "clean"
  /\ UNCHANGED <<rec, pmem, height, hidx, size, segs, segOrder, workers, splice,
                 listCount, status>>

\* A future of phase A returned an error status: Rebuild returns it.
SegmentRebuildFails ==
  /\ phase = "index" /\ SegmentBased
  /\ WorkersJoined
  /\ \E w \in Workers : wst[w] # "Ok"
  /\ phase' = "failed"
  /\ status' \in {wst[w] : w \in Workers} \ {"Ok"}
  /\ UNCHANGED <<rec, pmem, dram, segs, segOrder, workers, splice, listCount>>

-----------------------------------------------------------------------------
(* List-based rebuild: one rebuildSkiplistIndex task walks the whole list, *)
(* splicing each built node into all its levels at once.                   *)

\* Mutant: the task returns without publishing its count.
ListRebuildDoneNoPublish ==
  /\ phase = "index" /\ ~SegmentBased
  /\ next[splice.prevRec] = Header
  /\ phase' = "clean"
  /\ UNCHANGED <<rec, pmem, dram, segs, segOrder, workers, splice,
                 listCount, status>>

\* The walk meets the header again: publish the count.
ListRebuildDone ==
  /\ phase = "index" /\ ~SegmentBased
  /\ next[splice.prevRec] = Header
  /\ UpdateSize(listCount)
  /\ phase' = "clean"
  /\ UNCHANGED <<rec, pmem, height, nxt, hidx, segs, segOrder, workers, splice,
                 listCount, status>>

\* Mutant: the splice's prevs are not advanced to the new node.
AdvanceSpliceStale(prevs, v, hgt) == prevs

\* splice.prevs[i] = dram_node for every level of the new node.
AdvanceSplice(prevs, v, hgt) == [l \in Levels |-> IF l <= hgt THEN v ELSE prevs[l]]

\* One element under its hash stripe lock.
ListRebuildElem ==
  LET nr == next[splice.prevRec]
      v == FindCheckpointVersion(nr)
  IN
  /\ phase = "index" /\ ~SegmentBased
  /\ nr # Header
  /\ RepairVersion(nr, v)
  /\ IF DropVersion(v)
     THEN UNCHANGED <<oldv, height, nxt, hidx, splice, listCount, phase, status>>
     ELSE \E hgt \in 0..MaxHeight :
            LET ins == InsertHashIndex(rec[nr].key, ElemEntry(v, hgt))
                fails == IndexWithHashtable /\ ins.s # "Ok"
                spliced == {l \in Levels : l <= hgt}
            IN
            /\ listCount' = listCount + 1
            /\ height' = [height EXCEPT ![v] = hgt]
            /\ nxt' = [l \in Levels |->
                         IF l \in spliced
                         THEN [nxt[l] EXCEPT ![splice.prevs[l]] = v, ![v] = Null]
                         ELSE nxt[l]]
            /\ hidx' = IF IndexWithHashtable THEN ins.h ELSE hidx
            /\ IF fails
               THEN /\ phase' = "failed"
                    /\ status' = ins.s
                    /\ UNCHANGED <<oldv, splice>>
               ELSE /\ oldv' = [oldv EXCEPT ![v] = Null]
                    /\ splice' = [prevs |-> AdvanceSplice(splice.prevs, v, hgt),
                                  prevRec |-> v]
                    /\ UNCHANGED <<phase, status>>
  /\ UNCHANGED <<rec, destroyed, freed, size, segs, segOrder, workers>>

-----------------------------------------------------------------------------
(* cleanInvalidRecords: every queued record that no longer matches its     *)
(* type or whose linkage does not check is destroyed and freed, once per   *)
(* time it was queued; the queues are cleared.                             *)

\* Mutant: queued records are freed without re-checking their linkage.
CleanInvalidRecordsNoRecheck ==
  LET toFree == {r \in Recs : unlinked[r] > 0}
  IN
  /\ phase = "clean"
  /\ destroyed' = destroyed \cup toFree
  /\ freed' = [r \in Recs |-> freed[r] + IF r \in toFree THEN unlinked[r] ELSE 0]
  /\ unlinked' = [r \in Recs |-> 0]
  /\ phase' = "done"
  /\ UNCHANGED <<rec, prev, next, oldv, dram, segs, segOrder, workers, splice,
                 listCount, status>>

CleanInvalidRecords ==
  LET toFree == {r \in Recs : unlinked[r] > 0 /\
                              (~MatchType(r) \/ ~CheckLinkage(r))}
  IN
  /\ phase = "clean"
  /\ destroyed' = destroyed \cup toFree
  /\ freed' = [r \in Recs |-> freed[r] + IF r \in toFree THEN unlinked[r] ELSE 0]
  /\ unlinked' = [r \in Recs |-> 0]
  /\ phase' = "done"
  /\ UNCHANGED <<rec, prev, next, oldv, dram, segs, segOrder, workers, splice,
                 listCount, status>>

\* Rebuild has returned.
Terminated ==
  /\ phase \in {"done", "failed"}
  /\ UNCHANGED vars

-----------------------------------------------------------------------------
WorkerStep(w) ==
  \/ FinishScan(w) \/ SkipVisited(w) \/ SeeUnvisited(w)
  \/ LoseClaim(w) \/ ClaimSegment(w)
  \/ EndSegmentAtHeader(w) \/ EndSegmentAtStart(w) \/ WalkSegmentElem(w)

RebuilderStep ==
  \/ LinkHighDramNodes \/ SegmentRebuildFails
  \/ ListRebuildDone \/ ListRebuildElem
  \/ CleanInvalidRecords

Next ==
  \/ \E w \in Workers : WorkerStep(w)
  \/ RebuilderStep
  \/ Terminated

\* Workers are OS threads that never block for long (spin locks held for a
\* few statements), so each one that can step eventually does.
Fairness ==
  /\ \A w \in Workers : WF_vars(WorkerStep(w))
  /\ WF_vars(RebuilderStep)

Spec == Init /\ [][Next]_vars /\ Fairness

-----------------------------------------------------------------------------
(* Views of the state used by the properties.                              *)

Bound == Cardinality(Recs) + 1

\* The on-media list from the header, following next.
RECURSIVE MediaFrom(_, _)
MediaFrom(r, fuel) ==
  IF r = Header \/ fuel = 0 THEN <<>> ELSE <<r>> \o MediaFrom(next[r], fuel - 1)
MediaList == MediaFrom(next[Header], Bound)

\* The DRAM list of level l from the header node.
RECURSIVE LevelFrom(_, _, _)
LevelFrom(l, n, fuel) ==
  IF n = Null \/ fuel = 0 THEN <<>> ELSE <<n>> \o LevelFrom(l, nxt[l][n], fuel - 1)
LevelList(l) == LevelFrom(l, nxt[l][Header], Bound)

\* Spec I4 on the pre-recovery image: the version of element i visible at
\* the checkpoint (the image's chains have at most one older version).
VisibleVersion(i) ==
  IF ~CV!RecoverToCheckpoint \/ rec[i].ts <= CheckpointTS THEN i
  ELSE IF /\ Existing(OldOf(i))
          /\ rec[OldOf(i)].cid = ThisId
          /\ rec[OldOf(i)].ts <= CheckpointTS
       THEN OldOf(i)
       ELSE Null

\* The list recovery must produce: the visible, non-deleted versions in order.
ExpectedList ==
  SelectSeq([i \in Elems |-> VisibleVersion(i)],
            LAMBDA v : v # Null /\ rec[v].st = "Normal")

Done == phase = "done"

-----------------------------------------------------------------------------
TypeOK ==
  /\ rec \in [Recs -> [type : {"SortedRecord", "SortedElem", "Empty"},
                       cid : {ThisId, OtherId}, key : Keys, ts : Nat,
                       st : {"Normal", "Outdated"}]]
  /\ prev \in [Recs -> Recs] /\ next \in [Recs -> Recs]
  /\ oldv \in [Recs -> Recs \cup {Null}]
  /\ destroyed \subseteq Recs
  /\ unlinked \in [Recs -> Nat] /\ freed \in [Recs -> Nat]
  /\ height \in [Recs -> 0..MaxHeight]
  /\ nxt \in [Levels -> [Recs -> Recs \cup {Null}]]
  /\ hidx \in [Keys -> Entries \cup {Null}]
  /\ size \in 0..NumElems
  /\ wpc \in [Workers -> {"scan", "lock", "walk", "done"}]
  /\ wst \in [Workers -> {"Ok", "Abort", "MemoryOverflow"}]
  /\ status \in {"Ok", "Abort", "MemoryOverflow"}
  /\ phase \in Phases

\* After Rebuild, the list holds exactly the checkpoint-visible, non-deleted
\* version of every key, in key order (spec 8.3, S2-S4): no version younger
\* than the checkpoint, no tombstone, nothing lost.
CheckpointViewRestored == Done => MediaList = ExpectedList

\* Level 1 of the DRAM skiplist lists exactly the on-media records that got
\* a node, in the same order (spec 8.5), across segment hand-overs.
Level1MatchesMedia ==
  phase \in {"clean", "done"} =>
    LevelList(1) = SelectSeq(MediaList, LAMBDA r : height[r] > 0)

\* Every higher level lists exactly the level-1 nodes at least that tall.
UpperLevelsAreSublists ==
  phase \in {"clean", "done"} =>
    \A l \in Levels \ {1} :
      LevelList(l) = SelectSeq(LevelList(1), LAMBDA r : height[r] >= l)

\* The hash index has one entry per surviving key, pointing at its node if
\* one was built and at its record otherwise, and none for a dropped key
\* (spec 8.4).
HashIndexMatchesList ==
  Done =>
    \A k \in Elems :
      LET live == {r \in ToSet(MediaList) : rec[r].key = k}
      IN  IF IndexWithHashtable /\ live # {}
          THEN \E r \in live :
                 hidx[k] = [type |-> IF height[r] > 0 THEN "SkiplistNode"
                                     ELSE "DLRecord",
                            ptr |-> r]
          ELSE hidx[k] = Null

\* The published element count equals the length of the list (spec 8.7):
\* no element is counted twice at a segment boundary, none is missed.
SizeMatchesList == Done => size = Len(MediaList)

\* After reclamation, each record off the list has been freed exactly once,
\* none on it has, and no surviving record still points at freed storage
\* through old_version (spec 8.6).
ReclaimExact ==
  Done =>
    /\ \A r \in Recs \ {Header} :
         Existing(r) => freed[r] = IF r \in ToSet(MediaList) THEN 0 ELSE 1
    /\ \A r \in ToSet(MediaList) : oldv[r] = Null

\* No insertHashIndex finds the slot of a sorted record already taken: no
\* segment is rebuilt twice by workers racing for it, no start element is
\* indexed again as another segment's interior element.
NoDuplicateHashEntry ==
  /\ status # "Abort"
  /\ \A w \in Workers : wst[w] # "Abort"

\* The checkpoint view of the on-media list as recovery would compute it
\* from the current image: the visible version of each linked record.
MediaView ==
  SelectSeq([i \in 1..Len(MediaList) |-> FindCheckpointVersion(MediaList[i])],
            LAMBDA v : v # Null /\ rec[v].st = "Normal")

\* Every Remove, Replace and old_version reset leaves an image from which
\* recovery computes the same view: a crash at any step of the rebuild, or
\* a rebuild that fails midway and is not rolled back (spec section 5),
\* loses or resurrects no key when recovery runs again.
MediaViewStable == MediaView = ExpectedList

\* Rebuild returns.
RecoveryTerminates == <>(phase \in {"done", "failed"})

-----------------------------------------------------------------------------
(* Refinement: the rebuild implements RecoveredCollection.  The abstract   *)
(* view is the checkpoint view recovery would compute from the current     *)
(* media; the published index, size and hash keys are the on-media list   *)
(* (which searches reach through the DRAM nodes, Level1MatchesMedia),      *)
(* Skiplist::Size() and the keys with an entry, once the index phase is    *)
(* over; the abstract state follows Rebuild's phase.                       *)

Published == phase \in {"clean", "done"}
KeysOf(s) == [j \in DOMAIN s |-> rec[s[j]].key]

Recovered == INSTANCE RecoveredCollection WITH
  Keys <- Elems,
  MaxLen <- NumElems,
  Hashed <- IndexWithHashtable,
  view <- KeysOf(MediaView),
  index <- IF Published THEN KeysOf(MediaList) ELSE <<>>,
  count <- IF Published THEN size ELSE 0,
  hashed <- IF Published THEN {k \in Elems : hidx[k] # Null} ELSE {},
  state <- CASE phase = "index" -> "recovering"
             [] phase = "clean" -> "indexed"
             [] phase = "done" -> "reclaimed"
             [] phase = "failed" -> "failed"

\* The rebuild, with all its workers, segments and hand-overs, behaves as one
\* step that publishes the checkpoint view as its list, size and hash keys,
\* or as a failure that leaves the view intact, followed by reclamation;
\* and it does take one of them.
RefinesRecoveredCollection == Recovered!Spec

=============================================================================
