CONSTANTS
  c1 = c1
  c2 = c2
  c3 = c3
  x = x
  y = y
  NoObject = NoObject
  MaxLost = 1
  Caller = {c1, c2, c3}
  Content = {x, y}
  Calls <- AllCalls
  Faults = {"retry", "conflict409", "error"}
SPECIFICATION Spec
SYMMETRY Symmetry
INVARIANTS
  TypeOK
PROPERTIES
  ImplementsObjectStore
