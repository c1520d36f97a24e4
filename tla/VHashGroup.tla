----------------------------- MODULE VHashGroup -----------------------------
(***************************************************************************)
(* VHashGroup (src/engine/experimental/vhash_group.cpp): a map from names *)
(* to VHash objects.  Create and Destroy look the name up with             *)
(* hpmap.acquire_lock, which locks the name's slot for as long as the      *)
(* accessor lives (the rest of the call); Get looks it up lockless.  Each *)
(* call is two steps: the locked lookup with the read of acc.pointer(),    *)
(* then the writes that depend on it.                                      *)
(***************************************************************************)
EXTENDS Naturals, FiniteSets

CONSTANTS
  Callers,  \* threads calling into the group
  Names,
  VHashes,  \* the objects vhb.NewVHash can hand out (its capacity)
  Null

VARIABLES
  slot,       \* hpmap: name -> VHash or Null
  owner,      \* the caller holding a name's slot lock, or Null
  pc,         \* per caller: "idle", "create" or "destroy"
  arg,        \* the name a caller's call is about
  acc,        \* the pointer the call read through its accessor
  handedOut,  \* objects vhb.NewVHash has returned
  recycled,   \* how often vhb.Recycle got each object
  got         \* the last result of Get per caller

vars == <<slot, owner, pc, arg, acc, handedOut, recycled, got>>

Init ==
  /\ slot = [n \in Names |-> Null]
  /\ owner = [n \in Names |-> Null]
  /\ pc = [c \in Callers |-> "idle"]
  /\ arg = [c \in Callers |-> CHOOSE n \in Names : TRUE]
  /\ acc = [c \in Callers |-> Null]
  /\ handedOut = {}
  /\ recycled = [o \in VHashes |-> 0]
  /\ got = [c \in Callers |-> Null]

\* Mutant: the lookup does not wait for the slot's lock.
CanLockAlways(n) == TRUE

\* hpmap.lookup(name, acquire_lock) waits until no one holds the slot.
CanLock(n) == owner[n] = Null

\* Lines 6-7 / 14-15: lock the slot and read its pointer.
LockedLookup(c, n, op) ==
  /\ pc[c] = "idle" /\ CanLock(n)
  /\ owner' = [owner EXCEPT ![n] = c]
  /\ pc' = [pc EXCEPT ![c] = op]
  /\ arg' = [arg EXCEPT ![c] = n]
  /\ acc' = [acc EXCEPT ![c] = slot[n]]
  /\ UNCHANGED <<slot, handedOut, recycled, got>>

\* The bound of the model: a Create starts only while vhb.NewVHash has an
\* object left for every Create in flight.
PoolLeft == Cardinality(VHashes \ handedOut) > Cardinality({c \in Callers : pc[c] = "create"})

StartCreate(c, n) == PoolLeft /\ LockedLookup(c, n, "create")
StartDestroy(c, n) == LockedLookup(c, n, "destroy")

\* Returning destroys the accessor, which unlocks the slot.
Return(c) ==
  /\ pc' = [pc EXCEPT ![c] = "idle"]
  /\ owner' = [owner EXCEPT ![arg[c]] = Null]

\* Create: a name that has a VHash returns false; otherwise a new VHash is
\* set into the slot.
FinishCreate(c) ==
  /\ pc[c] = "create"
  /\ Return(c)
  /\ IF acc[c] # Null
     THEN UNCHANGED <<slot, handedOut>>
     ELSE \E o \in VHashes \ handedOut :
            /\ handedOut' = handedOut \cup {o}
            /\ slot' = [slot EXCEPT ![arg[c]] = o]
  /\ UNCHANGED <<arg, acc, recycled, got>>

\* Destroy: a name without a VHash returns false; otherwise the slot is
\* erased and the VHash handed to vhb.Recycle.
FinishDestroy(c) ==
  /\ pc[c] = "destroy"
  /\ Return(c)
  /\ IF acc[c] = Null
     THEN UNCHANGED <<slot, recycled>>
     ELSE /\ slot' = [slot EXCEPT ![arg[c]] = Null]
          /\ recycled' = [recycled EXCEPT ![acc[c]] = @ + 1]
  /\ UNCHANGED <<arg, acc, handedOut, got>>

\* Get: a lockless lookup, atomic with respect to the slot's writers.
Get(c, n) ==
  /\ pc[c] = "idle"
  /\ got' = [got EXCEPT ![c] = slot[n]]
  /\ UNCHANGED <<slot, owner, pc, arg, acc, handedOut, recycled>>

Next ==
  \E c \in Callers :
    \/ \E n \in Names : StartCreate(c, n) \/ StartDestroy(c, n) \/ Get(c, n)
    \/ FinishCreate(c)
    \/ FinishDestroy(c)

Spec == Init /\ [][Next]_vars

-----------------------------------------------------------------------------
\* Whatever the interleaving of Create and Destroy calls on a name, every
\* VHash NewVHash handed out is, exactly once, either held by one name or
\* recycled: none is leaked by a lost update, recycled twice by two
\* Destroys, or recycled while a name still refers to it.
VHashOwnedOnce ==
  \A o \in handedOut :
    Cardinality({n \in Names : slot[n] = o}) + recycled[o] = 1

=============================================================================
