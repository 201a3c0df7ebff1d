\* The gateway's wiring: an identity and a row of the inventory with an id of
\* its own, the repository in memory.
SPECIFICATION Spec
CONSTANTS
  good = good
  bad = bad
  Callers = {alice}
  Devices = {router, row}
  Known = {router}
  Rows = {row}
  Identity <- MCIdentity
  QuarantineOnFailure = TRUE
  Repositories = {"memory"}
  Hashes = {good, bad}
  Absent = Absent
  Kinds = {"signed", "tpm"}
  Measurements <- MCMeasurements
  None = None
  MaxNonces = 2
  MaxEvents = 1
INVARIANT TrustFollowsVerdict
