\* Two updates of one policy at once, and nothing else goes wrong.
SPECIFICATION Spec
CONSTANTS
  allow = allow
  guard = guard
  plain = plain
  urgent = urgent
  key = key
  Callers = {alice, bob}
  Policies = {p}
  Contents = {allow, guard}
  Perishable = {guard}
  Requests = {plain, urgent}
  Matching <- MCMatching
  Key <- MCKey
  None = None
  MaxUpdates = 2
  MaxErrors = 0
  MaxRestarts = 0
INVARIANT UpdatesConverge
