CONSTANTS
  AllArch = "all"
  DefaultArchs <- Seeds
  Unset = Unset
  None = None
  Codename = {"noble"}
  InitialRepo <- EmptyRepo
  r1 = r1
  r2 = r2
  r3 = r3
  Run = {r1, r2, r3}
  Jobs <- LockedJobs
  MaxActive = 3
  MaxStops = 2
  Clients = TRUE
SPECIFICATION Spec
SYMMETRY Symmetry

INVARIANTS
  TypeOK
  BodiesMatch
  AckedListed
  InReleaseLast
  NoStaleSignature
  ByHashServed
  QueriesSeeAcked
