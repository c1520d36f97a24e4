------------------------- MODULE RecoveredCollection -------------------------
(***************************************************************************)
(* What recovery of one sorted collection promises, without workers,       *)
(* segments or linkage (spec sections 4.4, 5 and 8).  The collection has a *)
(* view: the keys visible at the checkpoint, in order.  Recovery either    *)
(* publishes in one step an index of exactly that view (its level-1 list, *)
(* its size, and hash entries for its keys when the collection is indexed *)
(* in the hash table), or fails and publishes nothing; the view never      *)
(* changes, so a failed recovery can be run again.  After publishing,      *)
(* unreachable records are reclaimed.                                      *)
(***************************************************************************)
EXTENDS Naturals, Sequences, Functions

CONSTANTS
  Keys,    \* the collection's keys
  MaxLen,  \* the most keys the view holds
  Hashed   \* index_with_hashtable

VARIABLES
  view,    \* the checkpoint view of the media
  index,   \* the published level-1 key sequence
  count,   \* the published size
  hashed,  \* the keys with a published hash entry
  state

vars == <<view, index, count, hashed, state>>

Views == UNION {[1..k -> Keys] : k \in 0..MaxLen}

Init ==
  /\ view \in Views
  /\ index = <<>>
  /\ count = 0
  /\ hashed = {}
  /\ state = "recovering"

Publish ==
  /\ state = "recovering"
  /\ index' = view
  /\ count' = Len(view)
  /\ hashed' = IF Hashed THEN Range(view) ELSE {}
  /\ state' = "indexed"
  /\ UNCHANGED view

Fail ==
  /\ state = "recovering"
  /\ state' = "failed"
  /\ UNCHANGED <<view, index, count, hashed>>

Reclaim ==
  /\ state = "indexed"
  /\ state' = "reclaimed"
  /\ UNCHANGED <<view, index, count, hashed>>

Next == Publish \/ Fail \/ Reclaim

\* Recovery is one call that returns: it publishes or fails, and a published
\* collection is reclaimed.
Spec == Init /\ [][Next]_vars /\ WF_vars(Publish \/ Fail) /\ WF_vars(Reclaim)

=============================================================================
