--------------------------- MODULE HeaderResolver ---------------------------
(***************************************************************************)
(* Header intake (AddHeader), header resolution (initRebuildLists) and the *)
(* reclamation that follows (cleanInvalidRecords), of                       *)
(* src/engine/sorted_collection/rebuilder.cpp.                             *)
(*                                                                         *)
(* Persistent memory holds the header records Hdrs, one element record Elm *)
(* that belongs to at most one header's list, and Void, the offset an      *)
(* unlinked record's stale links point at (a record that does not link     *)
(* back).  The index rebuild of the element lists, which runs between      *)
(* resolution and reclamation, is the subject of IndexRebuild; here it     *)
(* touches no header and is left out.                                      *)
(***************************************************************************)
EXTENDS Naturals, Sequences, FiniteSets, TLC, SequencesExt

CONSTANTS
  Hdrs,                \* header records on media
  Elm,                 \* the element record
  Void,                \* a record that links back to nothing
  Cids,                \* collection ids, ordered as FetchID orders them
  Names,               \* collection names (the headers' keys)
  MaxTS,               \* timestamps are 1..MaxTS
  CheckpointTS,        \* checkpoint_.CheckpointTS(); 0: no checkpoint
  SegmentBased,        \* segment_based_rebuild_
  EmptyHeaderRollback, \* images may hold an empty collection whose header
                       \* was rewritten after the checkpoint
  Null

CV == INSTANCE CheckpointVersion

Recs == Hdrs \cup {Elm, Void}
Statuses == {"Ok", "Abort", "MemoryOverflow"}
Phases == {"sort", "resolve", "clean", "done", "failed"}

VARIABLES
  rec,        \* static attributes of each record
  prev, next, \* on-media linkage
  oldv,       \* old_version
  destroyed,  \* records whose Destroy() ran
  unlinked,   \* the thread caches' unlinked_records, as a count per record
  freed,      \* how often each record was handed to the allocator
  lh,         \* linked_headers_
  i,          \* the resolver's loop index
  rebuild,    \* rebuild_skiplits_: id -> header record of the skiplist
  invalid,    \* invalid_skiplists_: id -> header record of the skiplist
  hidx,       \* hash index: collection name -> Skiplist entry
  segs,       \* header records registered as recovery segments
  maxId,      \* max_recovered_id_
  phase,
  status,     \* the status Rebuild returns
  image0      \* history: the image intake left (live headers, old_version)

pmem == <<prev, next, oldv, destroyed, unlinked, freed>>
vars == <<rec, pmem, lh, i, rebuild, invalid, hidx, segs, maxId, phase,
          status, image0>>

-----------------------------------------------------------------------------
(* Collaborators outside src/, from the spec.                              *)

CheckLinkage(r) == next[prev[r]] = r /\ prev[next[r]] = r

MatchType(r) == r \notin destroyed /\ rec[r].type \in {"SortedElem", "SortedRecord"}

\* Skiplist::Replace: link new in old's place if old's linkage checks.
SkiplistReplace(old, new) ==
  LET p == prev[old]
      n == next[old]
  IN  IF CheckLinkage(old)
      THEN /\ next' = [next EXCEPT ![p] = new, ![new] = n]
           /\ prev' = [prev EXCEPT ![n] = new, ![new] = p]
      ELSE UNCHANGED <<prev, next>>

\* The records of the list headed by h, following next until h comes back.
RECURSIVE ListFrom(_, _, _)
ListFrom(r, h, k) ==
  IF r = h \/ k = 0 THEN {} ELSE {r} \cup ListFrom(next[r], h, k - 1)
ListOf(h) == {h} \cup ListFrom(next[h], h, Cardinality(Recs))

\* Skiplist::Destroy of an invalid skiplist: every record of its list is
\* destroyed and freed.
DestroyList(h) == ListOf(h)

-----------------------------------------------------------------------------
(* Rebuilder helpers.                                                      *)

RecoverToCheckpoint == CV!RecoverToCheckpoint

FindCheckpointVersion(r) == CV!FindCheckpointVersion(rec, oldv, r)

AddUnlinkedRecord(r) == unlinked' = [unlinked EXCEPT ![r] = @ + 1]

\* Mutant: the table's NotFound is passed on instead of mapped to Ok.
InsertHashIndexRawStatus(n) ==
  IF hidx[n] # Null THEN {"Abort"} ELSE {"NotFound", "MemoryOverflow"}

\* insertHashIndex of a Skiplist entry: an existing entry aborts; the
\* table's Insert may fail to allocate the entry (MemoryOverflow), which is
\* passed on.  The possible outcomes.
InsertHashIndex(n) ==
  IF hidx[n] # Null THEN {"Abort"} ELSE {"Ok", "MemoryOverflow"}

\* Mutant: headers of one id sorted newest first.
HeaderLessTsDesc(a, b) ==
  IF rec[a].cid = rec[b].cid THEN rec[a].ts > rec[b].ts ELSE rec[a].cid < rec[b].cid

\* The comparator of initRebuildLists: by id, then by timestamp.
HeaderLess(a, b) ==
  IF rec[a].cid = rec[b].cid THEN rec[a].ts < rec[b].ts ELSE rec[a].cid < rec[b].cid

-----------------------------------------------------------------------------
(* The image intake leaves.  Each header is self-linked (an empty          *)
(* collection), heads the list holding Elm, or is off every list.  Time-   *)
(* stamps are unique; old_version points at an older header of the same   *)
(* name.  Live collections have distinct names, and of the linked headers  *)
(* of one id all but the youngest are self-linked: the leftovers of a      *)
(* crashed header update that initRebuildLists asserts on.                 *)

Shapes == {"self", "list", "off"}
HeaderRecs == [type : {"SortedRecord"}, cid : Cids, name : Names,
               ts : 1..MaxTS, st : {"Normal", "Outdated"}]

LinkOf(shape, h) ==
  CASE h = Void -> Void
    [] h = Elm -> IF \E o \in Hdrs : shape[o] = "list"
                  THEN CHOOSE o \in Hdrs : shape[o] = "list" ELSE Void
    [] shape[h] = "self" -> h
    [] shape[h] = "list" -> Elm
    [] shape[h] = "off" -> Void

ValidImage(hr, shape, ov) ==
  LET linked == {h \in Hdrs : shape[h] # "off"}
  IN
  /\ \A a, b \in Hdrs : a # b => hr[a].ts # hr[b].ts
  /\ Cardinality({h \in Hdrs : shape[h] = "list"}) <= 1
  /\ \A h \in Hdrs : ov[h] # Null =>
       hr[ov[h]].ts < hr[h].ts /\ hr[ov[h]].name = hr[h].name
  /\ \A a, b \in linked : hr[a].name = hr[b].name => hr[a].cid = hr[b].cid
  /\ \A a, b \in linked :
       hr[a].cid = hr[b].cid /\ hr[a].ts < hr[b].ts => shape[a] = "self"

\* AddHeader: a linked header joins linked_headers_ (in whatever order the
\* intake threads got there); an unlinked one is queued when recovering to
\* a checkpoint and purged otherwise.  An unlinked element is handled alike
\* by AddElement.
Init ==
  \E hr \in [Hdrs -> HeaderRecs], shape \in [Hdrs -> Shapes],
     ov \in [Hdrs -> Hdrs \cup {Null}] :
    LET linked == {h \in Hdrs : shape[h] # "off"}
        hasElm == \E h \in Hdrs : shape[h] = "list"
        off == {h \in Hdrs : shape[h] = "off"}
    IN
    /\ ValidImage(hr, shape, ov)
    /\ rec = [r \in Recs |->
                IF r \in Hdrs THEN hr[r]
                ELSE [type |-> IF r = Elm /\ hasElm THEN "SortedElem" ELSE "Empty",
                      cid |-> 0, name |-> Null, ts |-> 0, st |-> "Normal"]]
    /\ prev = [r \in Recs |-> LinkOf(shape, r)]
    /\ next = prev
    /\ oldv = [r \in Recs |-> IF r \in Hdrs THEN ov[r] ELSE Null]
    /\ EmptyHeaderRollback \/
         ~\E h \in linked :
            LET v == CV!FindCheckpointVersion(rec, oldv, h)
            IN  shape[h] = "self" /\ v \notin {h, Null} /\ rec[v].cid = rec[h].cid
    /\ destroyed = IF RecoverToCheckpoint THEN {} ELSE off
    /\ unlinked = [r \in Recs |-> IF r \in off /\ RecoverToCheckpoint THEN 1 ELSE 0]
    /\ freed = [r \in Recs |-> IF r \in off /\ ~RecoverToCheckpoint THEN 1 ELSE 0]
    /\ lh = SetToSeq(linked)
    /\ i = 1
    /\ rebuild = [c \in Cids |-> Null]
    /\ invalid = [c \in Cids |-> Null]
    /\ hidx = [n \in Names |-> Null]
    /\ segs = {}
    /\ maxId = 0
    /\ phase = "sort"
    /\ status = "Ok"
    /\ image0 = [live |-> linked, oldv |-> oldv]

-----------------------------------------------------------------------------
(* initRebuildLists                                                        *)

SortLinkedHeaders ==
  /\ phase = "sort"
  /\ lh' = SortSeq(lh, HeaderLess)
  /\ phase' = "resolve"
  /\ UNCHANGED <<rec, pmem, i, rebuild, invalid, hidx, segs, maxId, status,
                 image0>>

Cur == lh[i]
IsDuplicate == i + 1 <= Len(lh) /\ rec[lh[i + 1]].cid = rec[lh[i]].cid
Resolving == phase = "resolve" /\ i <= Len(lh)

\* Mutant: the newer header is broken instead of the older one.
BreakDuplicateNewer ==
  /\ Resolving /\ IsDuplicate
  /\ prev' = [prev EXCEPT ![lh[i + 1]] = lh[i]]
  /\ AddUnlinkedRecord(lh[i + 1])
  /\ i' = i + 1
  /\ UNCHANGED <<rec, next, oldv, destroyed, freed, lh, rebuild, invalid,
                 hidx, segs, maxId, phase, status, image0>>

\* Mutant: the older duplicate is queued but its linkage is not broken.
BreakDuplicateNoBreak ==
  /\ Resolving /\ IsDuplicate
  /\ AddUnlinkedRecord(Cur)
  /\ i' = i + 1
  /\ UNCHANGED <<rec, prev, next, oldv, destroyed, freed, lh, rebuild,
                 invalid, hidx, segs, maxId, phase, status, image0>>

\* An older header of an id that has a newer one: persist its prev to the
\* newer header's offset, which breaks both of its links, and queue it.
BreakDuplicate ==
  /\ Resolving /\ IsDuplicate
  /\ prev' = [prev EXCEPT ![Cur] = lh[i + 1]]
  /\ AddUnlinkedRecord(Cur)
  /\ i' = i + 1
  /\ UNCHANGED <<rec, next, oldv, destroyed, freed, lh, rebuild, invalid,
                 hidx, segs, maxId, phase, status, image0>>

\* Lines 155-175: the header's value does not decode into an id and
\* SortedCollectionConfigs (DecodeSortedCollectionValue's fatal status,
\* here Abort), or its comparator is not registered (Abort).  Which header
\* has a bad value or an unknown comparator is an input of the image: any
\* header can.  initRebuildLists returns before touching this header, after
\* the writes it made for the headers before it.
ResolveBadConfig ==
  /\ Resolving /\ ~IsDuplicate
  /\ phase' = "failed"
  /\ status' = "Abort"
  /\ UNCHANGED <<rec, pmem, lh, i, rebuild, invalid, hidx, segs, maxId, image0>>

UpdateMaxId == maxId' = IF rec[Cur].cid > maxId THEN rec[Cur].cid ELSE maxId

\* The checkpoint version of the header belongs to this id.
HasOwnVersion(v) == v # Null /\ rec[v].cid = rec[Cur].cid

\* No checkpoint version, or one of another collection that reused the
\* name: an invalid skiplist over the header itself.
ResolveNoVersion ==
  LET v == FindCheckpointVersion(Cur)
  IN
  /\ Resolving /\ ~IsDuplicate /\ ~HasOwnVersion(v)
  /\ UpdateMaxId
  /\ invalid' = [invalid EXCEPT ![rec[Cur].cid] = Cur]
  /\ i' = i + 1
  /\ UNCHANGED <<rec, pmem, lh, rebuild, hidx, segs, phase, status, image0>>

\* Link the checkpoint version in place of a newer header, and queue that.
ReplaceByVersion(v) ==
  IF v # Cur THEN SkiplistReplace(Cur, v) /\ AddUnlinkedRecord(Cur)
  ELSE UNCHANGED <<prev, next, unlinked>>

\* The checkpoint version is a tombstone or has expired: an invalid skiplist
\* over the version.
ResolveOutdated ==
  LET v == FindCheckpointVersion(Cur)
  IN
  /\ Resolving /\ ~IsDuplicate /\ HasOwnVersion(v)
  /\ rec[v].st = "Outdated"
  /\ UpdateMaxId
  /\ ReplaceByVersion(v)
  /\ invalid' = [invalid EXCEPT ![rec[Cur].cid] = v]
  /\ i' = i + 1
  /\ UNCHANGED <<rec, oldv, destroyed, freed, lh, rebuild, hidx, segs, phase,
                 status, image0>>

\* A valid checkpoint version: a rebuild skiplist over it, its header node a
\* recovery segment, its old_version cleared, and the skiplist indexed by
\* name; a failed insert ends initRebuildLists with that status.
ResolveRebuild ==
  LET v == FindCheckpointVersion(Cur)
      n == rec[Cur].name
  IN
  /\ Resolving /\ ~IsDuplicate /\ HasOwnVersion(v)
  /\ rec[v].st = "Normal"
  /\ UpdateMaxId
  /\ ReplaceByVersion(v)
  /\ rebuild' = [rebuild EXCEPT ![rec[Cur].cid] = v]
  /\ segs' = IF SegmentBased THEN segs \cup {v} ELSE segs
  /\ oldv' = [oldv EXCEPT ![v] = Null]
  /\ \E s \in InsertHashIndex(n) :
       IF s = "Ok"
       THEN /\ hidx' = [hidx EXCEPT ![n] = rec[Cur].cid]
            /\ i' = i + 1
            /\ UNCHANGED <<phase, status>>
       ELSE /\ phase' = "failed"
            /\ status' = s
            /\ UNCHANGED <<hidx, i>>
  /\ UNCHANGED <<rec, destroyed, freed, lh, invalid, image0>>

\* The loop is over: linked_headers_ is cleared, and Rebuild goes on to the
\* index rebuild (IndexRebuild) and then to reclamation.
FinishResolve ==
  /\ phase = "resolve" /\ i > Len(lh)
  /\ lh' = <<>>
  /\ phase' = "clean"
  /\ UNCHANGED <<rec, pmem, i, rebuild, invalid, hidx, segs, maxId, status,
                 image0>>

-----------------------------------------------------------------------------
(* cleanInvalidRecords                                                     *)

\* The records the unlinked pass frees, and those of the invalid lists.
InvalidRecs == UNION {DestroyList(invalid[c]) : c \in {d \in Cids : invalid[d] # Null}}

FreeAll(toFree) ==
  LET gone == toFree \cup InvalidRecs
  IN  /\ destroyed' = destroyed \cup gone
      /\ freed' = [r \in Recs |-> freed[r]
                     + (IF r \in toFree THEN unlinked[r] ELSE 0)
                     + (IF r \in InvalidRecs THEN 1 ELSE 0)]
      /\ unlinked' = [r \in Recs |-> 0]
      /\ invalid' = [c \in Cids |-> Null]
      /\ phase' = "done"
      /\ UNCHANGED <<rec, prev, next, oldv, lh, i, rebuild, hidx, segs, maxId,
                     status, image0>>

\* Mutant: queued records are freed without re-checking their linkage.
CleanInvalidRecordsNoRecheck ==
  /\ phase = "clean"
  /\ FreeAll({r \in Recs : unlinked[r] > 0})

\* Queued records that no longer match their type or whose linkage fails
\* are destroyed and freed; then every invalid skiplist is destroyed.
CleanInvalidRecords ==
  /\ phase = "clean"
  /\ FreeAll({r \in Recs : unlinked[r] > 0 /\ (~MatchType(r) \/ ~CheckLinkage(r))})

\* Rebuild has returned.
Terminated ==
  /\ phase \in {"done", "failed"}
  /\ UNCHANGED vars

Next ==
  \/ SortLinkedHeaders
  \/ BreakDuplicate
  \/ ResolveBadConfig
  \/ ResolveNoVersion
  \/ ResolveOutdated
  \/ ResolveRebuild
  \/ FinishResolve
  \/ CleanInvalidRecords
  \/ Terminated

Spec == Init /\ [][Next]_vars

-----------------------------------------------------------------------------
(* Views used by the properties.                                           *)

Live(h) == h \notin destroyed /\ CheckLinkage(h)

RECURSIVE ChainOf(_, _)
ChainOf(r, ov) == IF r = Null THEN {} ELSE {r} \cup ChainOf(ov[r], ov)

\* The spec's visibility rule (4.6), stated over the whole chain: the
\* youngest version at or before the checkpoint, unless a version down to it
\* belongs to another collection.
VisibleRef(h, ov) ==
  LET ok == {r \in ChainOf(h, ov) : rec[r].ts <= CheckpointTS}
      v  == CHOOSE r \in ok : \A q \in ok : rec[q].ts <= rec[r].ts
  IN  CASE CheckpointTS = 0 -> h
        [] ok = {} -> Null
        [] \E r \in ChainOf(h, ov) :
             rec[r].ts >= rec[v].ts /\ rec[r].cid # rec[h].cid -> Null
        [] OTHER -> v

\* The youngest of the given live headers of collection c.
Candidate(live, c) ==
  LET cs == {h \in live : rec[h].cid = c}
  IN  IF cs = {} THEN Null
      ELSE CHOOSE h \in cs : \A q \in cs : rec[q].ts <= rec[h].ts

\* The header collection c recovers to at the checkpoint, if it survives.
NormalView(live, ov, c) ==
  LET h == Candidate(live, c)
      v == IF h = Null THEN Null ELSE VisibleRef(h, ov)
  IN  IF v # Null /\ rec[v].st = "Normal" THEN v ELSE Null

\* The record an invalid skiplist of collection c is expected over.
InvalidView(c) ==
  LET h == Candidate(image0.live, c)
      v == IF h = Null THEN Null ELSE VisibleRef(h, image0.oldv)
  IN  CASE h = Null -> Null
        [] v = Null -> h
        [] rec[v].st = "Outdated" -> v
        [] OTHER -> Null

Kept == UNION {ListOf(rebuild[c]) : c \in {d \in Cids : rebuild[d] # Null}}

-----------------------------------------------------------------------------
(* Properties                                                              *)

TypeOK ==
  /\ prev \in [Recs -> Recs] /\ next \in [Recs -> Recs]
  /\ oldv \in [Recs -> Recs \cup {Null}]
  /\ destroyed \subseteq Recs
  /\ unlinked \in [Recs -> Nat] /\ freed \in [Recs -> Nat]
  /\ rebuild \in [Cids -> Hdrs \cup {Null}]
  /\ invalid \in [Cids -> Hdrs \cup {Null}]
  /\ hidx \in [Names -> Cids \cup {Null}]
  /\ segs \subseteq Hdrs
  /\ phase \in Phases
  /\ status \in Statuses

\* Resolution classifies every collection as the checkpoint says: a rebuild
\* skiplist over the visible version when it is live, an invalid one over
\* the header (no own version) or over the tombstone; each rebuild skiplist's
\* header is linked and is the only collection indexed under its name.
\* Duplicate breaking, sorting and Replace must all agree for this.
ClassifiedAtCheckpoint ==
  phase = "clean" =>
    /\ rebuild = [c \in Cids |-> NormalView(image0.live, image0.oldv, c)]
    /\ invalid = [c \in Cids |-> InvalidView(c)]
    /\ \A c \in Cids : rebuild[c] # Null => CheckLinkage(rebuild[c])
    /\ hidx = [n \in Names |->
                IF \E c \in Cids : rebuild[c] # Null /\ rec[rebuild[c]].name = n
                THEN CHOOSE c \in Cids : rebuild[c] # Null /\ rec[rebuild[c]].name = n
                ELSE Null]

\* After recovery each collection id has at most one linked header on media,
\* and a rebuilt collection's list holds no header but its own (spec 8.1,
\* I5): duplicates are broken, replaced headers unlinked.
UniqueLinkedHeader ==
  phase = "done" =>
    /\ \A c \in Cids : Cardinality({h \in Hdrs : rec[h].cid = c /\ Live(h)}) <= 1
    /\ \A c \in Cids : rebuild[c] # Null => ListOf(rebuild[c]) \cap Hdrs = {rebuild[c]}

\* At every step of resolution and reclamation, so also after a crash or a
\* failed hash insert there, the media recovers to the same collections:
\* the live headers and old_version chains give every id the checkpoint
\* view intake saw.
ViewStable ==
  \A c \in Cids :
    NormalView({h \in Hdrs : Live(h)}, oldv, c) = NormalView(image0.live, image0.oldv, c)

\* Reclamation frees exactly the records no rebuilt collection keeps, each
\* once: queued headers that were relinked by Replace survive the re-check,
\* and invalid lists go whole (spec 8.6).
HeaderReclaimExact ==
  phase = "done" =>
    \A r \in Recs : rec[r].type # "Empty" =>
      freed[r] = IF r \in Kept THEN 0 ELSE 1

=============================================================================
