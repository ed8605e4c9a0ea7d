CONSTANTS
  Pids = {1, 2, 3}
  Times = {0, 1, 2}
  Comms = {"sh"}
  Trusts = {}
  Containers = {}
  NoKey = NoKey
  Tolerance = 1
  MaxProcesses = 2
  Retain = 1
  CredCap = 0
  AncestryCap = 3
  MaxProcs = 4
  MaxTime = 2
  Calls = {"CredChange"}
  MaxOpens = 1
  Tick = 2
  RingCap = 1
  ReapEvery = 1
  ReuseGap = 1
  BusyProcs = 2
SPECIFICATION ObsSpec
INVARIANTS EdgesAgree OneNodePerProcess LineageTrue ExitsNoticed
PROPERTIES RunningSpared
CHECK_DEADLOCK FALSE
