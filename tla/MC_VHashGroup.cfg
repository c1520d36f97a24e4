CONSTANTS
  Callers = {c1, c2}
  Names = {n1, n2}
  VHashes = {v1, v2, v3}
  Null = Null
SPECIFICATION Spec
INVARIANTS
  VHashOwnedOnce
