CONSTANTS
  Run = {r1, r2, r3}
  NoLock = NoLock
  Legacy = Legacy
  Garbage = Garbage
  r1 = r1
  r2 = r2
  r3 = r3
  MaxAttempts = 2
  Timed = {r1, r2, r3}
  Faults = {"storeError", "retry", "conflict409", "delay", "crash", "operator"}
SPECIFICATION Spec
SYMMETRY Symmetry
INVARIANTS
  TypeOK
  MutualExclusion
  HolderOwnsLock
PROPERTIES
  ImplementsLockSpec
