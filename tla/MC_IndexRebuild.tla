-------------------------- MODULE MC_IndexRebuild --------------------------
(***************************************************************************)
(* Element version histories for IndexRebuild, checkpoint at ts 1.  Each   *)
(* is one case of findCheckpointVersion / the rebuild's classification.    *)
(***************************************************************************)
EXTENDS IndexRebuild

\* Current at the checkpoint and live: kept as it is.
HKeep == [ts |-> 1, st |-> "Normal", old |-> <<>>]
\* Current at the checkpoint and a delete tombstone: removed.
HTomb == [ts |-> 1, st |-> "Outdated", old |-> <<>>]
\* Inserted after the checkpoint: removed.
HNew == [ts |-> 2, st |-> "Normal", old |-> <<>>]
\* Updated after the checkpoint: replaced by its old version.
HRoll == [ts |-> 3, st |-> "Normal",
          old |-> <<[ts |-> 1, st |-> "Normal", same |-> TRUE]>>]
\* Updated after the checkpoint a key deleted before it: removed.
HRollDel == [ts |-> 3, st |-> "Normal",
             old |-> <<[ts |-> 1, st |-> "Outdated", same |-> TRUE]>>]
\* old_version offset reused by another collection: removed.
HReused == [ts |-> 3, st |-> "Normal",
            old |-> <<[ts |-> 1, st |-> "Normal", same |-> FALSE]>>]
\* Two updates after the checkpoint: no version at it, removed.
HTwice == [ts |-> 3, st |-> "Normal",
           old |-> <<[ts |-> 2, st |-> "Normal", same |-> TRUE]>>]

AllHistories == {HKeep, HTomb, HNew, HRoll, HRollDel, HReused, HTwice}
\* Without a tombstone that is its own checkpoint version.
LiveStartHistories == AllHistories \ {HTomb}

=============================================================================
