CONSTANTS
  Run = {r1, r2, r3}
  NoLock = NoLock
  Legacy = Legacy
  Garbage = Garbage
  r1 = r1
  r2 = r2
  r3 = r3
  MaxAttempts = 0
  Timed = {r1, r2}
  Faults = {"storeError", "retry", "crash", "operator", "rogue"}
SPECIFICATION FairSpec
INVARIANTS
  ReleasedLeavesNoLock
PROPERTIES
  OnlyOwnLockDeleted
  EveryRunServed
  TimedRunsEnd
