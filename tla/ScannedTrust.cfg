CONSTANTS
  Pids = {1, 2}
  Times = {0, 1, 2, 3}
  Comms = {"sh"}
  Trusts = {"sshd"}
  Containers = {}
  NoKey = NoKey
  Tolerance = 1
  MaxProcesses = 2
  Retain = 1
  CredCap = 0
  AncestryCap = 3
  MaxProcs = 2
  MaxTime = 3
  Calls = {"FileOpen"}
  MaxOpens = 1
  Tick = 2
  RingCap = 1
  ReapEvery = 1
  ReuseGap = 1
  BusyProcs = 2
SPECIFICATION ObsSpec
INVARIANT ScannedTrustApplies
CHECK_DEADLOCK FALSE
