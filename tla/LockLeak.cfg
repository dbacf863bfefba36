CONSTANTS
  Run = {r1, r2}
  NoLock = NoLock
  Legacy = Legacy
  Garbage = Garbage
  r1 = r1
  r2 = r2
  MaxAttempts = 0
  Timed = {r1, r2}
  Faults = {}
SPECIFICATION Spec
INVARIANTS
  EndedLeavesNoLock
