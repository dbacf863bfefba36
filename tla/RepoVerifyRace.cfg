CONSTANTS
  AllArch = "all"
  DefaultArchs <- Seeds
  Unset = Unset
  None = None
  Codename = {"noble"}
  InitialRepo <- EmptyRepo
  r1 = r1
  r2 = r2
  r3 = r3
  Run = {r1, r2, r3}
  Jobs <- VerifyJobs
  MaxActive = 2
  MaxStops = 0
  Clients = FALSE
SPECIFICATION Spec
SYMMETRY Symmetry

INVARIANTS
  AckedListed
