SPECIFICATION Spec
CONSTANTS
  Replicas = {r1}
  Callers <- MCCallers
  Verifiers = {v1}
  Backends = {"memory", "postgres", "postgres_fixed"}
  Free = Free
  Shape <- MCShape
  operations = operations
  alarms = alarms
  MaxEvents = 3
  MaxFailures = 1
  MaxCrashes = 1
  MaxDamage = 1
PROPERTY LogReturns
INVARIANTS
  TypeOK
  ChainIntact
  SequenceOrder
  AckedInOrder
  AlertsFollowLog
  ValidMeansHistory
  MemoryLogVerifies
