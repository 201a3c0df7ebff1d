\* Two callers and two devices over either adapter, the pool with room for one.
SPECIFICATION Spec
CONSTANTS
  Callers = {alice, bob}
  Devices = {core, edge}
  Protocols = {"ssh", "netconf"}
  MaxSessions = 1
  None = None
  MaxConnections = 3
  MaxCommands = 3
  MaxFailures = 1
SYMMETRY Symmetric
INVARIANTS
  TypeOK
  OpenIsHeld
  ToldItsOwn
CHECK_DEADLOCK FALSE
