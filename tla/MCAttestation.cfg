\* Two callers and one device with two nonces; both repositories; one row with
\* the id of the device's identity and one with another.
SPECIFICATION Spec
CONSTANTS
  good = good
  bad = bad
  Callers = {alice, bob}
  Devices = {router, stranger}
  Known = {router}
  Rows = {router, stranger}
  Identity <- MCIdentity
  QuarantineOnFailure = TRUE
  Repositories = {"memory", "postgres"}
  Hashes = {good, bad}
  Absent = Absent
  Kinds = {"signed", "tpm"}
  Measurements <- MCMeasurements
  None = None
  MaxNonces = 2
  MaxEvents = 1
INVARIANTS
  TypeOK
  AcceptedAgree
  VerdictsStand
PROPERTIES
  NonceSpec
  NoncesReclaimed
