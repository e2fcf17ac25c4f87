SPECIFICATION Spec
CONSTANTS
  Actors = {a1, a2}
  Files = {f1, f2}
  Contents = {d1}
  Ids = {q1, q2}
  Faults = {"read", "write", "unlink", "ledger", "crash"}
  Absent = Absent
  Damaged = Damaged
  NoId = NoId
SYMMETRY Symmetry
INVARIANT VaultedBytesSurvive
INVARIANT ListedIsWhole
INVARIANT VaultInv
CHECK_DEADLOCK FALSE
