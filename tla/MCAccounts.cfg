SPECIFICATION AccountsSpec
CONSTANTS
  Names = {"admin", "ana"}
  Seed = "admin"
  Ttl = 2
  MaxClock = 3
INVARIANTS
  AdminRemains
  PowersExpire
CHECK_DEADLOCK FALSE
