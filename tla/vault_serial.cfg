SPECIFICATION Spec
CONSTANTS
  Actors = {a1}
  Files = {f1, f2}
  Contents = {d1, d2}
  Ids = {q1, q2}
  Faults = {"write", "unlink"}
  Absent = Absent
  Damaged = Damaged
  NoId = NoId
INVARIANT HeldIsListed
INVARIANT LedgerIsTrue
PROPERTY KeepsContract
CHECK_DEADLOCK FALSE
