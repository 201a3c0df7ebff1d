\* One deployment whose commit reports an error.
SPECIFICATION Spec
CONSTANTS
  Devices = {core}
  Configs = {x}
  Callers = {alice}
  None = None
  MaxBlocks = 1
  MaxErrors = 1
  MaxCrashes = 0
  MaxDamage = 0
  HashSize = 2
INVARIANT FailedNeverRuns
