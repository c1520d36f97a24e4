# TLA+ models of kvdk's sorted-collection recovery

The models cover `src/engine/sorted_collection/rebuilder.cpp`, the `SortedCollectionRebuilder`.
On restart it rebuilds every skiplist-backed sorted collection from records on persistent memory.
They also model the experimental `src/engine/experimental/vhash_group.cpp`, a name-to-VHash map.

## 1. The system

### Components and how they interact

| Component | Code | State it changes |
|---|---|---|
| Candidate Intake | `AddHeader`, `AddElement` (42-93) | `linked_headers_`, the per-thread `rebuilder_thread_cache_` (unlinked records, visited skiplists), purges |
| Segment Planner | `AddElement` sampling (76-90), `addRecoverySegment` (614-619) | `recovery_segments_`: start record to {visited, start node} |
| Header Resolver | `initRebuildLists` (119-246) | Duplicate headers are broken (`PersistPrevNT`), and headers are replaced by their checkpoint version. It fills `rebuild_skiplits_` and `invalid_skiplists_`. |
| Rollback Applier | `Rollback` (95-117) | Media linkage of batch-write log entries |
| Index Rebuilder, list mode | `listBasedIndexRebuild`, `rebuildSkiplistIndex` (421-565) | Media (Remove/Replace, old_version), DRAM nodes, hash index, size |
| Index Rebuilder, segment mode | `segmentBasedIndexRebuild` (248-319), `rebuildSegmentIndex` (321-419), `linkHighDramNodes` (462-487) | The same, plus the segments' visited flags |
| Checkpoint resolution | `findCheckpointVersion` (676-702) | None: it is a pure function |
| Hash-index insert | `insertHashIndex` (621-674) | Hash index entries |
| Reclaimer | `cleanInvalidRecords` (567-612) | Frees unlinked records and destroys invalid skiplists |
| Driver | `Rebuild` (27-40) | The phase order and the returned status |
| VHashGroup | `Create`, `Destroy`, `Get` (vhash_group.cpp 5-24) | `hpmap` slots; VHash objects from and back to `vhb` |

The phases run in this order:

1. Intake threads call `AddHeader` and `AddElement` concurrently. These calls share `linked_headers_` and `recovery_segments_` behind spin locks, and `rebuilder_thread_cache_` with no lock.
2. `Rebuild` runs `initRebuildLists`.
3. It then runs either the segment-based or the list-based index rebuild, using up to `num_rebuild_threads_` futures.
4. If the rebuild succeeded, it runs `cleanInvalidRecords`.

In segment mode, the workers race to claim segments with a double-checked `visited` flag.
- A worker walks from its segment's start until it reaches the next segment's start or the header, and hands level 1 over to that node.
- Each element on the way is removed (if it is outdated at the checkpoint), replaced by its checkpoint version, or kept.
- Each kept element may get a DRAM node and a hash entry.
- Afterwards, the higher levels are linked per collection.

### Hard behaviours
- Workers interleave while claiming segments and while walking adjacent segments.
- Records left unlinked at intake can be linked again by a later `Replace`.
- A hash insert can fail midway through a rebuild, and the error leaves the media as it is.
- Termination depends on the segment scan loop and on the future joins.
- Intake repairs linkage torn by a crash mid-write, on several threads at once, and the log rollback must come before it.
- Not yet modelled: the intake race on the thread caches.

## 2. Modules

| Module | Models | State / actions |
|---|---|---|
| `CheckpointVersion` | `findCheckpointVersion` | `WalkOldVersions` (RECURSIVE) is the loop at 683-701. `FindCheckpointVersion` adds the `recoverToCheckpoint` guard. |
| `MC_CheckpointVersion` | a checker of the above | Init enumerates every store of 4 records with 2 collection ids, timestamps 1..4, and old_version pointers to strictly older records. It compares the result with `VisibleAtCheckpoint`, the spec's rule I4 restricted to the same-id prefix of the chain. |
| `IndexRebuild` | the index rebuild for one rebuild collection, in either mode, plus the unlinked-record reclamation and the driver's phase order | See below. |
| `HeaderResolver` | `initRebuildLists`, the intake of headers, and `cleanInvalidRecords` over several collections | See below. |
| `RecoveredCollection` | the abstract promise of recovering one collection | `view` (checkpoint keys in order), `index`, `count`, `hashed`, `state`. `Publish` sets the index to the view in one step; `Fail` publishes nothing; `Reclaim` follows a publish. |
| `RebuildDriver` | `Rebuild`, the constructor's thread clamp, and the drivers of both modes over several collections | See below. |
| `Intake` | `AddHeader`, `AddElement` and `Rollback` over one collection with a torn write | See below. |
| `VHashGroup` | `VHashGroup::Create`, `Destroy`, `Get` | Per name: `slot` (the hpmap entry) and `owner` (the accessor lock). Per caller: `pc`, `arg`, `acc` (the pointer read under the lock). `handedOut` and `recycled` record `vhb`. Each locked call is two actions: `StartCreate`/`StartDestroy` (lock and read) and `FinishCreate`/`FinishDestroy` (write and unlock). `Get` is one lockless read. |
| `MC_IndexRebuild` | per-element version histories | The seven histories are: kept, tombstone, new after the checkpoint, rolled back, rolled back to a tombstone, offset reused by another collection, and two versions after the checkpoint. |

### State of `IndexRebuild`

**Media image of a DLRecord:**
- `rec`: the persistent record of each record.
- `prev`, `next`: the circular list, with the header `0` as the sentinel.
- `oldv`: the `old_version` pointers.
- `destroyed`: destroyed records.

**Reclamation:**
- `unlinked`: how many times each record was queued in `unlinked_records`.
- `freed`: how many times each record was freed.

**DRAM index and counts:**
- `height`: the node height chosen by `NewNodeBuild`.
- `nxt`: the DRAM next pointer at each level.
- `hidx`: the hash index.
- `size`: `Skiplist::Size`.

**Segments:**
- `segs`: `recovery_segments_`, with a visited flag and the start node.
- `segOrder`: the map's iteration order.

**Per worker:**
- `wpc`: the program counter.
- `wi`: the iterator.
- `wcur`: `cur_record`.
- `wnode`: `build_node`.
- `wcnt`: `num_elems`.
- `wst`: the returned status.

**List mode:**
- `splice`: the Splice's `prev_pmem_record`.
- `listCount`: the list mode's count.

**Driver:**
- `phase`: the driver's phase.
- `status`: the returned status.

### Actions of `IndexRebuild`

- **Segment mode.** Each iteration of the claim loop at 254-283 is one action:
  - `SkipVisited`;
  - `SeeUnvisited` (the unlocked read);
  - `LoseClaim` / `ClaimSegment` (the re-check under `lock_`, with the start of `rebuildSegmentIndex`);
  - `FinishScan`.
- **A segment's walk.** Each iteration of the walk at 355-417 is one action:
  - `WalkSegmentElem` does the Remove, Replace or keep, the node build, the hash insert and the old-version clear in one step;
  - `EndSegmentAtStart` / `EndSegmentAtHeader` do the level-1 hand-over and `UpdateSize`.
- **Segment mode's end.**
  - `WorkersJoined` and `SegmentRebuildFails` model the first future loop.
  - `LinkHighDramNodes` models the second future loop.
- **List mode.** `ListRebuildElem` is one iteration of 506-562, and `ListRebuildDone` is its exit together with `UpdateSize`.
- **Reclamation.** `CleanInvalidRecords` is the unlinked-record pass of 588-612, including the MatchType/CheckLinkage re-check.
- **Driver.** `Terminated` is `Rebuild`'s return.

The following are modelled from the spec, because their code is not under `src/`:
- `Skiplist::Remove`, `Replace`, `MatchType`;
- `RecoveryUtils::CheckLinkage`;
- the hash table's capacity.

`Init` is the state after intake. It models `AddElement` as follows:
- Each element is linked with its current version.
- Old versions are queued unlinked when recovering to a checkpoint, and are otherwise freed.
- In segment mode, any subset of the elements that are their own checkpoint version is sampled as segment starts, plus the header.
- Every iteration order of the segment map is possible.


### `HeaderResolver`

The state is a media image of three headers `h1..h3`, one element `Elm` and a `Void` record, with two collection ids and two names.
- `Init` is every valid image after intake (`ValidImage`): each header is self-linked (empty), owns the list holding `Elm`, or is off the media; `old_version` points at an older header of the same name; timestamps are unique. `AddHeader` put the linked headers into `lh`; off headers are queued unlinked when recovering to a checkpoint and freed otherwise.
- `SortLinkedHeaders` is the `std::sort` at 122-131 with `HeaderLess`, (id, ts).
- `BreakDuplicate` is one duplicate pair of 133-153: `PersistPrevNT` on the newer header, queued unlinked.
- `ResolveBadConfig` is the fatal return of 155-175: the header's value does not decode, or its comparator is not registered. Any non-duplicate header may be the bad one. The loop returns `Abort` after the writes it made for the headers before it, and `ViewStable` checks that those half-resolved media still recover to the same collections.
- `ResolveNoVersion`, `ResolveOutdated`, `ResolveRebuild` are the three outcomes for one header at 156-240, each with the `max_recovered_id_` update. `ResolveRebuild` includes `Replace` when the checkpoint version differs, the segment registration, the `old_version` clear and the hash insert, whose MemoryOverflow ends the phase as failed.
- `FinishResolve` leaves the loop; `CleanInvalidRecords` is 567-612 with the destruction of the invalid skiplists; `Terminated` is `Rebuild`'s return.
- The constant `EmptyHeaderRollback` admits the image that triggers the second finding; the passing run excludes it.

### `RebuildDriver`

One collection's rebuild is reduced to its returned status here; `IndexRebuild` has the detail.
- `Init` is the state after `initRebuildLists`:
  - its status;
  - each collection classified rebuild or invalid;
  - in segment mode, the sampled element starts of any collection, plus every rebuild header (`Segs`, from `addRecoverySegment`).
- `NumRebuildThreads` is the clamp of lines 19-20.
- `StartRebuild` is lines 29-32.
- `WorkerStep` is one iteration of a phase-A worker (254-283): it skips, or it claims and then rebuilds the segment or ignores it if the collection is invalid. A failed segment ends that worker.
- `JoinWorker` joins the phase-A futures in order (291-296).
- `LaunchTask`, `RunTask`, `JoinTask` and `EndTasks` are the batch loops over `rebuild_skiplits_`:
  - `linkHighDramNodes` in segment mode (297-318);
  - `rebuildSkiplistIndex` in list mode (566-586);
  - `BatchEnds` is the join condition `i % n == 0 || i == size`.
- `Drain` returns the first failed status once every launched future has finished, because `std::async` futures block in their destructors.
- `WorkerEnter` (253) and `EnterTask` (490, and 463 for `linkHighDramNodes`) are a thread's entry: it takes `this_thread.id = next_tid_.fetch_add(1)`. A launched task is `"launched"` until it enters, and a worker is `"start"`.
- `CacheSlot` is the thread-cache index of lines 77-78, `ThreadID() % num_rebuild_threads_`. `addUnlinkedRecord`, which the rebuild threads call, is in the header outside `src/` and indexes the cache the same way.
- `next_tid_`'s starting value is set in the header, so `Init` lets it take any value modulo the cache size.
- `Clean` is lines 34-37.

### `Intake`

Before the crash the collection was `H -> A -> C -> H`, and a write of `B` was in flight: an insert between two adjacent records, or an update of `A` or `C` (`B.old_version` = the record it replaces).
- `Init` covers every such write, every subset of its two neighbour stores that was persisted, and whether the batch log holds `B`.
- `Rollback` is 95-117: a prev-linkage check, then `Replace` by the old version or `Remove`, and `Destroy` in every case.
- `StartAdd` is the read half of `CheckAndRepairLinkage` (spec 4.1). `FinishAdd` writes the one torn side back, then does the rest of `AddHeader`/`AddElement`: keep the record, queue it unlinked, or purge it.
- Nothing locks the neighbours between the two halves, so intake threads interleave there.
- `StageOrder` runs `Rollback` before intake (spec 4.5) or after it (spec 5). `Remove`, `Replace`, `CheckPrevLinkage` and `CheckAndRepairLinkage` are modelled from the spec.

`IndexRebuild` also instantiates `RecoveredCollection` (`Recovered`). The mapping sends `view` to the keys of the media's checkpoint view; `index`, `count` and `hashed` to the level-1 media list, `size` and the hash entries once the driver has published (phase `clean` or `done`); and the driver's phase to the abstract state.

## 3. Runs

| Run | Config | Checks | Shows |
|---|---|---|---|
| `checkpoint_version` | `MC_CheckpointVersion.cfg` | `ReturnsCheckpointVisibleVersion` | `findCheckpointVersion` agrees with the spec's visibility rule on all 272k small stores. |
| `rebuild_list` | `MC_IndexRebuild_list.cfg` | Checkpoint view restored, level 1 equals media, hash index and size match the list, exact reclamation, `RefinesRecoveredCollection` | List mode is correct for 3 elements over all 7^3 histories. The hash capacity is large enough that inserts never fail. |
| `rebuild_segment` | `MC_IndexRebuild_segment.cfg` | Same as list mode except the refinement, plus upper levels are sublists, no duplicate hash entry, `MediaViewStable`, and `RecoveryTerminates` | With 2 workers, every set and order of segment starts, heights 1..2, and a hash capacity of 3, the claim race never rebuilds a segment twice and the hand-overs are exact. After a MemoryOverflow failure the media still recovers to the same view. |
| `rebuild_driver` | `MC_RebuildDriver.cfg` | `OkMeansComplete`, `DistinctThreadCaches`, `RebuildReturns` | Over 3 collections in both modes, with 3 threads clamped to 2, `Rebuild` always returns. It returns Ok only if every rebuild collection was completely indexed, and cleans only then. A failure in the partial last batch is not lost. Rebuild threads running at the same time never share a thread-cache entry, because `next_tid_` hands consecutive ids to at most n threads between two joins (a batch one future larger breaks it). |
| `header_resolver` | `MC_HeaderResolver.cfg` | `ClassifiedAtCheckpoint`, `UniqueLinkedHeader`, `ViewStable`, `HeaderReclaimExact`, `TypeOK` | Over every valid image of 3 headers, sorting, duplicate breaking and replacement classify each id as the spec's rule does, leave one linked header per id, never change the checkpoint view at any step (so a stop or fatal return mid-way loses nothing), and free exactly the unreachable headers. |
| `header_resolver_empty_rollback` | `MC_HeaderResolver_rollback.cfg` | `UniqueLinkedHeader` (expected violation) | Replace of an empty collection's header leaves the newer header linked (second finding). |
| `intake` | `MC_Intake.cfg` | `ListConsistent`, `IntakeMatchesList`, `NoWriteAfterFree` | Rollback first, then one intake thread. Every torn insert or update ends as a well-linked list. It holds the collection before or after the write, and before it if the write was logged. Intake keeps exactly the records on the list, and no freed record is written. |
| `intake_concurrent` | `MC_Intake_concurrent.cfg` | `ListConsistent` (expected violation) | Two intake threads repair adjacent records of a torn insert and tear the list again (third finding). |
| `intake_rollback_after` | `MC_Intake_rollback_after.cfg` | `NoWriteAfterFree` (expected violation) | With Rollback after intake, Rollback destroys a record that intake already purged (fourth finding). |
| `vhash_group` | `MC_VHashGroup.cfg` | `VHashOwnedOnce` | With 2 callers on 2 names, every VHash handed out is held by one name or recycled once, whatever the interleaving. |
| `rebuild_segment_tombstone_start` | `MC_IndexRebuild_tombstart.cfg` | `CheckpointViewRestored` (expected violation) | A tombstone sampled as a segment start survives in segment mode (finding below). |

### Why the bounds are enough
- **Elements.** Three elements give a segment with an interior element and adjacent segments on both sides of an element.
- **Workers.** Two workers are enough for every claim race, because the claim re-check serialises on one lock.
- **Height.** Height 2 exercises the level-2 linking over skipped nodes.
- **Hash capacity.** A capacity of 3, with the header's entry in place, makes the third element's insert overflow.
- **Histories.** The seven histories cover every branch of the walk: Remove, Replace, Replace followed by Remove of the replaced record, foreign `old_version`, and keep. The checkpoint at 1 separates "before" from "after" the checkpoint.

- **Headers.** Three headers with timestamps 1..3 and the checkpoint at 2 give a duplicate pair of one id with an older checkpoint version, a header newer than the checkpoint, and a foreign `old_version`. The hash insert's MemoryOverflow is a nondeterministic outcome.
- **Driver.** With three collections and two threads there is a full batch of futures and a partial one. The clamp takes 3 down to 2, and invalid collections can have sampled segments. There are 288 initial states (next_tid_ starts even or odd), and 31164 distinct states. Three collections are the fewest for which a batch one future too large (three threads with consecutive ids) would put two threads on one cache entry.
- **Intake.** Three committed records and one written record give every insert position: after the header, in the middle and before the header. They also give an update of the first and of the last element, and a pair of adjacent records for two threads to repair at once. There are 40 initial states.
- **VHashGroup.** Two callers on two names give every Create/Destroy race on one name; three VHashes let both names hold one while a third Create is in flight.
- **Refinement.** The list run checks the refinement: the DRAM towers are not part of the abstract view. The segment run's claim race and hand-overs are checked by its own invariants, so it does not repeat the refinement.

The segment run uses every history except the tombstone, because a tombstone as a segment start is the finding, which `rebuild_segment_tombstone_start` checks on its own.

### Fairness
- Every worker has weak fairness, because every worker is a `std::async` future that runs to completion.
- The rebuilder's own steps (the joins, link and clean) have weak fairness, because the driver thread runs them sequentially.
- `RecoveredCollection` asks for weak fairness of its outcome and its reclaim. `IndexRebuild` implements it under the fairness above, which the list run checks. The segment run checks `RecoveryTerminates`.
- `RebuildDriver` has weak fairness for every phase-A worker, every launched task and the driver thread, for the same reasons.
- `HeaderResolver` and `VHashGroup` assume no fairness, because they check only invariants.
- No other fairness is assumed.
- No symmetry is used, because the liveness property makes symmetry unsound.

## 4. Findings

### Tombstone as a segment start

`AddElement` (rebuilder.cpp:82) makes a record a segment start when `findCheckpointVersion(record) == record`, without looking at its status.

For a delete tombstone:
- `rebuildSegmentIndex` counts its start element and indexes it, and never drops it (328-342).
- `rebuildSkiplistIndex` removes the same record at 511-518.

So segment mode leaves a deleted key visible and counted. This contradicts the spec's property that the two modes produce identical results with the outdated elements removed.

### Rollback of an empty collection's header

Take an empty collection whose header was rewritten after the checkpoint. `initRebuildLists` (rebuilder.cpp:200) calls `Skiplist::Replace(header, older)`. The header's prev and next are the header itself, so the newer header stays linked: in a 2-cycle with the older one. `CheckLinkage` then keeps it, against spec 8.1 and I5 (one linked header per id after recovery).

### Concurrent repair of a torn write (spec gap)

`AddHeader` and `AddElement` (rebuilder.cpp:45, :65) call `CheckAndRepairLinkage` without a lock, from several intake threads. Take an insert of `B` after the header where only `H.next = B` was persisted. One thread takes `B` and another takes `A`, and both read before either repairs. One writes `A.prev = B` and the other writes `H.next = A`, and both report linked. The list `H -> A -> C` now has `A.prev = B`, while `B` is kept but is not on it. The spec neither serialises intake nor makes the repair atomic.

### Rollback after intake (spec gap)

Spec 5 runs intake before Rollback, and 4.5 runs it after. In the section-5 order, take an uncommitted insert whose neighbour stores were not persisted. `AddElement` purges the insert (line 69), and `Rollback` then reads it and calls `Destroy()` on freed memory (line 115). The passing run uses the 4.5 order.

## 5. Not modelled yet, in the planned order

1. **The thread-cache race among intake threads.** At line 77, `++visited_skiplists[id]` runs on a cache shared by every thread with the same `ThreadID() % n`. For the rebuild threads, `DistinctThreadCaches` shows no two running threads share an entry. Intake threads get their ids from the engine's thread manager, outside `src/`, so whether they collide is not decided here. If they do, the race is undefined behaviour on an `unordered_map`. A lost count only changes which elements start segments, and `IndexRebuild` covers every subset of starts.
2. **Torn headers.** `Intake` tears element writes only; a torn header rewrite goes through the same two steps.
3. **A segment start in neither map (the assertion at 271).** It needs a linked element whose header was not linked at intake. Only the concurrent-repair finding produces that, and `Intake` and `RebuildDriver` are not composed.
4. **Zero rebuild threads.** With `num_rebuild_threads_ = 0`, `i % 0` at lines 305 and 574 traps. The run budget has no room for this case; the driver run clamps 3 to 2.
5. **Crash and restart as steps.** `MediaViewStable` (`IndexRebuild`) and `ViewStable` (`HeaderResolver`) check, at every state, that a recovery started from the current media would compute the same view, which is what a crash there followed by a second recovery needs. The second recovery itself (intake again over the half-rebuilt media) is not run as further steps.
6. **VHash use after Recycle.** A `Get` result used after a concurrent `Destroy` recycled it depends on `vhb`, which is outside `src/`.

Out of reach or pure I/O:
- logging;
- the comparator registry;
- the allocator's internals;
- `linkSegmentDramNodes`, which nothing calls;
