\* Two callers of the issuer and a worker of the proxy; the engine demands a
\* step-up for every grant, so that both answers about approvals occur.
SPECIFICATION Spec
CONSTANTS
  read = read
  write = write
  router = router
  switch = switch
  Callers = {alice, bob}
  Workers = {w}
  Types = {device}
  DeviceType = device
  Names = {router, switch}
  Blank = Blank
  Actions = {read, write}
  Kinds = {write}
  Selectors <- MCSelectors
  Positions = {1, 2}
  Requests <- MCRequests
  Shares <- MCShares
  Answers = {"step_up"}
  Approvals = {0, 1}
  Window = 0
  None = None
  MaxTokens = 2
  MaxTime = 1
  MaxErrors = 1
  MaxRestarts = 1
  MaxAge = 1
  MaxMessages = 1
  MaxPerformed = 2
INVARIANTS
  TypeOK
  RevocationHolds
  DelegatedWithinParent
  PerformedWithinGrant
  UsesArePerformed
PROPERTY RefusalIsFinal
SYMMETRY CallersAlike
