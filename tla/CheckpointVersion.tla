-------------------------- MODULE CheckpointVersion --------------------------
(***************************************************************************)
(* SortedCollectionRebuilder::findCheckpointVersion                        *)
(* (src/engine/sorted_collection/rebuilder.cpp).                           *)
(*                                                                         *)
(* A persistent record store is a function from record offsets to the      *)
(* record's static attributes (collection id "cid", timestamp "ts", ...)   *)
(* plus the mutable old_version pointer "oldv".  The operator walks the    *)
(* old_version chain back to the version current at the checkpoint.        *)
(***************************************************************************)
EXTENDS Naturals

CONSTANTS
  CheckpointTS,   \* checkpoint_.CheckpointTS(); 0 means "not to checkpoint"
  Null            \* kNullPMemOffset / nullptr

\* SortedCollectionRebuilder::recoverToCheckpoint
RecoverToCheckpoint == CheckpointTS > 0

\* The while loop of findCheckpointVersion: step back through old_version
\* while the current record is younger than the checkpoint; an ancestor of
\* another collection id means the offset was reused, and ends in null.
\* Mutant: an ancestor of another collection is accepted as a version.
RECURSIVE WalkOldVersionsNoIdCheck(_, _, _, _)
WalkOldVersionsNoIdCheck(curr, id, rec, oldv) ==
  IF curr = Null \/ rec[curr].ts <= CheckpointTS
  THEN curr
  ELSE WalkOldVersionsNoIdCheck(oldv[curr], id, rec, oldv)

RECURSIVE WalkOldVersions(_, _, _, _)
WalkOldVersions(curr, id, rec, oldv) ==
  IF curr = Null \/ rec[curr].ts <= CheckpointTS
  THEN curr
  ELSE LET older == oldv[curr]
       IN  IF older # Null /\ rec[older].cid # id
           THEN Null
           ELSE WalkOldVersions(older, id, rec, oldv)

\* findCheckpointVersion(pmem_record)
FindCheckpointVersion(rec, oldv, r) ==
  IF ~RecoverToCheckpoint
  THEN r
  ELSE WalkOldVersions(r, rec[r].cid, rec, oldv)

=============================================================================
