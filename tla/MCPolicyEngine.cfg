\* Two goroutines that evaluate and update.
SPECIFICATION Spec
CONSTANTS
  allow = allow
  guard = guard
  plain = plain
  urgent = urgent
  key = key
  Callers = {alice, bob}
  Policies = {p, q}
  Contents = {allow, guard}
  Perishable = {guard}
  Requests = {plain, urgent}
  Matching <- MCMatching
  Key <- MCKey
  None = None
  MaxUpdates = 2
  MaxErrors = 1
  MaxRestarts = 1
INVARIANTS
  TypeOK
  CacheCurrent
  AnswersCurrent
  LoadedIsStored
  DenyOverrides
PROPERTY CallsReturn
