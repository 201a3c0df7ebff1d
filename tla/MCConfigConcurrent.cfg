\* Two callers of one device at once.
SPECIFICATION Spec
CONSTANTS
  Devices = {core}
  Configs = {x}
  Callers = {alice, bob}
  None = None
  MaxBlocks = 2
  MaxErrors = 1
  MaxCrashes = 0
  MaxDamage = 0
  HashSize = 2
INVARIANTS
  ChainLinear
  PendingMatchesDeploys
PROPERTIES
  LedgerSpec
  CallsEnd
