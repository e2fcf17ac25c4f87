SPECIFICATION Spec
CONSTANTS
  Actors = {a1, a2}
  Files = {f1, f2}
  Contents = {d1}
  Ids = {q1, q2}
  Faults = {}
  Absent = Absent
  Damaged = Damaged
  NoId = NoId
INVARIANT HeldIsListed
CHECK_DEADLOCK FALSE
