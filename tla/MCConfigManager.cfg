\* One caller and a history long enough to go back: three blocks, one error,
\* one crash, one damaged chain.
SPECIFICATION Spec
CONSTANTS
  Devices = {core}
  Configs = {x, y}
  Callers = {alice}
  None = None
  MaxBlocks = 3
  MaxErrors = 1
  MaxCrashes = 1
  MaxDamage = 1
  HashSize = 2
INVARIANTS
  TypeOK
  OnlyValidBlocksRun
  StatusTellsRunning
  RollbackRestores
