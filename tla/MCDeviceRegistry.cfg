\* Two callers; two identities; three changes of devices or of an identity's
\* status, and an error or a restart.
SPECIFICATION Spec
CONSTANTS
  Callers = {alice, bob}
  Names = {core, edge}
  Roles = {access, spine}
  Statuses = {unknown, online}
  Unknown = unknown
  None = None
  MaxIdentities = 2
  MaxUpdates = 3
  MaxEvents = 1
SYMMETRY Symmetric
INVARIANTS
  TypeOK
  RevokedKeptOut
  UpdatesStay
  NamesDistinct
CHECK_DEADLOCK FALSE
