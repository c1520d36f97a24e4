------------------------ MODULE MC_CheckpointVersion ------------------------
(***************************************************************************)
(* Checks FindCheckpointVersion against the visibility rule of spec I4 /   *)
(* section 4.6 over every small record store whose old_version chains     *)
(* respect I3 (strictly older timestamps).                                 *)
(***************************************************************************)
EXTENDS Naturals, Sequences, FiniteSets

CONSTANTS Recs, Cids, MaxTS, CheckpointTS, Null

CV == INSTANCE CheckpointVersion

VARIABLES rec, oldv, query, answer
vars == <<rec, oldv, query, answer>>

\* Record stores reachable before recovery: any ids and timestamps, and an
\* old_version that is null or a strictly older record (I3).
Init ==
  /\ rec \in [Recs -> [cid : Cids, ts : 1..MaxTS]]
  /\ oldv \in {f \in [Recs -> Recs \cup {Null}] :
                 \A r \in Recs : f[r] # Null => rec[f[r]].ts < rec[r].ts}
  /\ query = Null
  /\ answer = Null

\* The rebuilder asks for the checkpoint version of record r.
Resolve(r) ==
  /\ query' = r
  /\ answer' = CV!FindCheckpointVersion(rec, oldv, r)
  /\ UNCHANGED <<rec, oldv>>

Next == \E r \in Recs : Resolve(r)

Spec == Init /\ [][Next]_vars

-----------------------------------------------------------------------------
\* Reference definition (spec I4, section 4.6).
RECURSIVE ChainFrom(_)
ChainFrom(r) == IF r = Null THEN <<>> ELSE <<r>> \o ChainFrom(oldv[r])

\* The chain up to, not including, the first record of another collection.
SameCollectionPrefix(r) ==
  LET ch == ChainFrom(r)
      foreign == {i \in DOMAIN ch : rec[ch[i]].cid # rec[r].cid}
  IN  IF foreign = {} THEN ch
      ELSE SubSeq(ch, 1, (CHOOSE i \in foreign : \A j \in foreign : i <= j) - 1)

\* The youngest version of r's key, in r's collection, not newer than the
\* checkpoint; r itself when recovery does not target a checkpoint.
VisibleAtCheckpoint(r) ==
  IF CheckpointTS = 0 THEN r
  ELSE LET p == SameCollectionPrefix(r)
           cands == {p[i] : i \in DOMAIN p} \cap {x \in Recs : rec[x].ts <= CheckpointTS}
       IN  IF cands = {} THEN Null
           ELSE CHOOSE x \in cands : \A y \in cands : rec[y].ts <= rec[x].ts

TypeOK ==
  /\ rec \in [Recs -> [cid : Cids, ts : 1..MaxTS]]
  /\ oldv \in [Recs -> Recs \cup {Null}]
  /\ query \in Recs \cup {Null}
  /\ answer \in Recs \cup {Null}

\* The version findCheckpointVersion returns is the one the checkpoint
\* visibility rule selects: the youngest record of the same collection in
\* the old_version chain whose timestamp is at most the checkpoint.
ReturnsCheckpointVisibleVersion ==
  query # Null => answer = VisibleAtCheckpoint(query)

=============================================================================
