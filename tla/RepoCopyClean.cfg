CONSTANTS
  AllArch = "all"
  DefaultArchs <- Seeds
  Unset = Unset
  None = None
  Codename = {"noble", "jammy"}
  InitialRepo <- EmptyRepo
  r1 = r1
  r2 = r2
  r3 = r3
  r4 = r4
  Run = {r1, r2, r3, r4}
  Jobs <- CopyCleanJobs
  MaxActive = 4
  MaxStops = 0
  Clients = FALSE
SPECIFICATION Spec
SYMMETRY Symmetry

INVARIANTS
  BodiesMatch
