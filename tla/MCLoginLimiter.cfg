CONSTANTS
  Addrs = {a1, a2, a3}
  MaxFailures = 2
  Window = 1
  Lockout = 2
  MaxTracked = 1
  MaxTime = 4
  MaxLog = 3
SPECIFICATION LimiterSpec
SYMMETRY Symmetric
INVARIANTS GuessesLimited
PROPERTIES LockoutHolds LockoutDeserved
CHECK_DEADLOCK FALSE
