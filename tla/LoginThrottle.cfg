SPECIFICATION Spec
CONSTANTS
  Handlers = {h1, h2, h3}
  Accounts = {a1, a2}
  Ips = {i1}
  AccountThreshold = 2
  IpThreshold = 3
  Window = 1
  MaxDelay = 4
  MaxFailures = 6
SYMMETRY Alike
INVARIANT
  GuessesBounded
PROPERTY RefusalsSayWhen
CHECK_DEADLOCK FALSE
