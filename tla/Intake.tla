------------------------------- MODULE Intake -------------------------------
(***************************************************************************)
(* Candidate intake and the rollback of a batch-write log entry            *)
(* (rebuilder.cpp AddHeader, AddElement and Rollback) over one collection  *)
(* that a crash interrupted in the middle of a write.                      *)
(*                                                                         *)
(* Before the crash the collection was Hdr -> A -> C -> Hdr.  One write    *)
(* was in flight on record B: either an insert of B between two adjacent   *)
(* records, or an update of A or C by B (B.old_version = the record it     *)
(* replaces).  B's prev and next were written with the record; the crash   *)
(* kept any subset of the two neighbour stores that link B in.  If the     *)
(* write belonged to an uncommitted batch, the log holds an entry for B.   *)
(*                                                                         *)
(* Intake threads take the records the scan hands them in any order.      *)
(* CheckAndRepairLinkage (outside src/, modelled from spec 4.1) reads both *)
(* neighbours, then repairs at most one torn side by writing the           *)
(* neighbour; the two are separate steps because nothing locks the        *)
(* neighbours in between.  The constant RollbackFirst puts Rollback before *)
(* intake (spec 4.5) or after it (spec 5).                                 *)
(***************************************************************************)
EXTENDS Naturals, Sequences, FiniteSets

CONSTANTS
  Threads,        \* intake threads
  RollbackFirst,  \* the log is rolled back before intake
  Checkpoint,     \* recoverToCheckpoint()
  Null

Hdr == "H"
New == "B"
Recs == {Hdr, "A", New, "C"}
Committed == <<"A", "C">>   \* the elements in list order before the write

\* The writes that can be in flight: an insert between adjacent records, or
\* an update of a committed element; log says whether the batch log holds it.
Txs == {[x |-> s[1], y |-> s[2], o |-> Null, log |-> b] :
          s \in {<<Hdr, "A">>, <<"A", "C">>, <<"C", Hdr>>}, b \in BOOLEAN}
       \cup
       {[x |-> s[1], y |-> s[2], o |-> s[3], log |-> b] :
          s \in {<<Hdr, "C", "A">>, <<"A", Hdr, "C">>}, b \in BOOLEAN}

VARIABLES
  tx,         \* the write in flight (x and y are B's prev and next)
  logged,     \* B's log entry has not been rolled back yet
  prev, next, \* media linkage
  destroyed,  \* records Destroy()ed
  freed,      \* records PurgeAndFree()d
  unlinked,   \* records queued by addUnlinkedRecord
  kept,       \* records CheckAndRepairLinkage reported linked
  taken,      \* records the scan has handed to an intake thread
  pc, cur, seen,
  stage       \* index into StageOrder

vars == <<tx, logged, prev, next, destroyed, freed, unlinked, kept, taken,
          pc, cur, seen, stage>>

\* The recovery driver calls Rollback per log entry before intake (spec 4.5)
\* or after it (spec 5).
StageOrderIntakeFirst == <<"intake", "rollback">>
StageOrder == IF RollbackFirst THEN <<"rollback", "intake">>
                               ELSE <<"intake", "rollback">>

Stage == IF stage <= 2 THEN StageOrder[stage] ELSE "resolve"

\* The committed list Hdr -> A -> C -> Hdr, then B and the persisted subset
\* of its two neighbour stores.
CommittedPrev == [r \in Recs |-> CASE r = Hdr -> "C" [] r = "A" -> Hdr
                                   [] r = "C" -> "A" [] r = New -> Null]
CommittedNext == [r \in Recs |-> CASE r = Hdr -> "A" [] r = "A" -> "C"
                                   [] r = "C" -> Hdr [] r = New -> Null]

Init ==
  /\ tx \in Txs
  /\ logged = tx.log
  /\ \E sides \in SUBSET {"prevSide", "nextSide"} :
       /\ next = [CommittedNext EXCEPT ![New] = tx.y,
                    ![tx.x] = IF "prevSide" \in sides THEN New ELSE @]
       /\ prev = [CommittedPrev EXCEPT ![New] = tx.x,
                    ![tx.y] = IF "nextSide" \in sides THEN New ELSE @]
  /\ destroyed = {} /\ freed = {} /\ unlinked = {} /\ kept = {}
  /\ taken = {}
  /\ pc = [t \in Threads |-> "idle"]
  /\ cur = [t \in Threads |-> Null]
  /\ seen = [t \in Threads |-> [p |-> Null, n |-> Null, mp |-> FALSE, mn |-> FALSE]]
  /\ stage = 1

-----------------------------------------------------------------------------
(* Collaborators outside src/, modelled from the spec.                    *)

CheckPrevLinkage(r) == next[prev[r]] = r

\* Skiplist::Remove and Replace: the neighbours of e are relinked around e.
SkiplistRemove(e) ==
  /\ next' = [next EXCEPT ![prev[e]] = next[e]]
  /\ prev' = [prev EXCEPT ![next[e]] = prev[e]]

SkiplistReplace(e, o) ==
  /\ next' = [next EXCEPT ![prev[e]] = o, ![o] = next[e]]
  /\ prev' = [prev EXCEPT ![next[e]] = o, ![o] = prev[e]]

\* Mutant: the rollback of an update removes B instead of restoring it.
RollbackIgnoreOldVersion ==
  /\ Stage = "rollback" /\ logged
  /\ IF CheckPrevLinkage(New) THEN SkiplistRemove(New)
                              ELSE UNCHANGED <<prev, next>>
  /\ destroyed' = destroyed \cup {New}
  /\ logged' = FALSE
  /\ UNCHANGED <<tx, freed, unlinked, kept, taken, pc, cur, seen, stage>>

\* Rollback of B's log entry: B always validates (it was written before it
\* was linked); only its prev linkage is checked before Remove or Replace
\* by the old version, and B is destroyed either way.
Rollback ==
  /\ Stage = "rollback" /\ logged
  /\ IF CheckPrevLinkage(New)
     THEN IF tx.o # Null THEN SkiplistReplace(New, tx.o) ELSE SkiplistRemove(New)
     ELSE UNCHANGED <<prev, next>>
  /\ destroyed' = destroyed \cup {New}
  /\ logged' = FALSE
  /\ UNCHANGED <<tx, freed, unlinked, kept, taken, pc, cur, seen, stage>>

\* The scan hands every record that is not destroyed to one intake thread.
Pending == Recs \ (taken \cup destroyed)

\* AddHeader / AddElement, first half of CheckAndRepairLinkage: read the
\* record's prev and next and whether each points back.
StartAdd(t, r) ==
  /\ Stage = "intake" /\ pc[t] = "idle" /\ r \in Pending
  /\ taken' = taken \cup {r}
  /\ pc' = [pc EXCEPT ![t] = "repair"]
  /\ cur' = [cur EXCEPT ![t] = r]
  /\ seen' = [seen EXCEPT ![t] = [p |-> prev[r], n |-> next[r],
                                   mp |-> next[prev[r]] = r,
                                   mn |-> prev[next[r]] = r]]
  /\ UNCHANGED <<tx, logged, prev, next, destroyed, freed, unlinked, kept, stage>>

\* Second half: repair the one torn side by writing the neighbour.
RepairedNext(t) ==
  IF ~seen[t].mp /\ seen[t].mn THEN [next EXCEPT ![seen[t].p] = cur[t]] ELSE next
RepairedPrev(t) ==
  IF seen[t].mp /\ ~seen[t].mn THEN [prev EXCEPT ![seen[t].n] = cur[t]] ELSE prev

\* Mutant: the result is the match read before the repair.
CheckAndRepairLinkageNoRepair(t) == seen[t].mp /\ seen[t].mn

\* The result: both sides point back after the repair.
CheckAndRepairLinkage(t) ==
  RepairedNext(t)[seen[t].p] = cur[t] /\ RepairedPrev(t)[seen[t].n] = cur[t]

\* The rest of AddHeader / AddElement: a linked header goes to
\* linked_headers_ and a linked element is left in place (segment sampling
\* is modelled in IndexRebuild); an unlinked record is queued when
\* recovering to a checkpoint and purged otherwise.
FinishAdd(t) ==
  LET r == cur[t] IN
  /\ pc[t] = "repair"
  /\ next' = RepairedNext(t)
  /\ prev' = RepairedPrev(t)
  /\ IF CheckAndRepairLinkage(t)
     THEN /\ kept' = kept \cup {r}
          /\ UNCHANGED <<freed, unlinked>>
     ELSE /\ IF Checkpoint THEN /\ unlinked' = unlinked \cup {r}
                                /\ UNCHANGED freed
                           ELSE /\ freed' = freed \cup {r}
                                /\ UNCHANGED unlinked
          /\ UNCHANGED kept
  /\ pc' = [pc EXCEPT ![t] = "idle"]
  /\ cur' = [cur EXCEPT ![t] = Null]
  /\ UNCHANGED <<tx, logged, destroyed, taken, seen, stage>>

\* A stage ends when its work is done: the log is empty, or every record
\* has been taken and every thread is idle.
EndStage ==
  /\ stage <= 2
  /\ Stage = "rollback" => ~logged
  /\ Stage = "intake" => Pending = {} /\ \A t \in Threads : pc[t] = "idle"
  /\ stage' = stage + 1
  /\ UNCHANGED <<tx, logged, prev, next, destroyed, freed, unlinked, kept,
                 taken, pc, cur, seen>>

\* Header resolution follows; this module stops here.
Resolving == Stage = "resolve" /\ UNCHANGED vars

Next ==
  \/ Rollback
  \/ \E t \in Threads : \/ \E r \in Recs : StartAdd(t, r)
                        \/ FinishAdd(t)
  \/ EndStage
  \/ Resolving

Spec == Init /\ [][Next]_vars

-----------------------------------------------------------------------------
\* The list reached from the header by following nx.
RECURSIVE ListFrom(_, _, _)
ListFrom(nx, r, k) ==
  IF r = Hdr \/ k = 0 THEN <<>> ELSE <<r>> \o ListFrom(nx, nx[r], k - 1)

OnList == ListFrom(next, next[Hdr], Cardinality(Recs))
OnSet == {OnList[j] : j \in DOMAIN OnList} \cup {Hdr}

\* The element order once B's write has taken effect.
AfterNext == [CommittedNext EXCEPT ![New] = tx.y, ![tx.x] = New]
Written == ListFrom(AfterNext, AfterNext[Hdr], Cardinality(Recs))

Intaken == Stage = "resolve"

\* After rollback and intake the media list is well linked and holds the
\* collection either before or after the interrupted write, never a mix;
\* a write whose batch was logged is undone.  This is what Rollback's
\* prev-only check, its Remove or Replace, and CheckAndRepairLinkage's
\* one-sided repair must achieve together, whatever was persisted.
ListConsistent ==
  Intaken =>
    /\ \A r \in OnSet : prev[next[r]] = r
    /\ OnList \in IF tx.log THEN {Committed} ELSE {Committed, Written}

\* AddHeader / AddElement report exactly the records on the list as linked;
\* no record on the list is purged or queued as unlinked, and every other
\* record is destroyed, queued or purged.
IntakeMatchesList ==
  Intaken =>
    /\ kept = OnSet
    /\ (freed \cup unlinked) \cap OnSet = {}
    /\ Recs \ OnSet \subseteq freed \cup unlinked \cup destroyed

\* No step writes the linkage of, or destroys, a record that intake has
\* already purged and returned to the allocator.
NoWriteAfterFree ==
  [][\A r \in freed : /\ prev'[r] = prev[r] /\ next'[r] = next[r]
                      /\ (r \in destroyed' <=> r \in destroyed)]_vars

=============================================================================
