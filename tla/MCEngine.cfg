CONSTANTS
  Pids = {p1, p2}
  Times = {0, 1, 2}
  Comms = {"sh"}
  Trusts = {}
  Containers = {}
  NoKey = NoKey
  Tolerance = 1
  MaxProcesses = 1
  Retain = 0
  CredCap = 0
  AncestryCap = 2
  ChainWindow = 1
  Detections <- MCDetections
  Daemons = {"sh"}
  Floors = {1, 2}
  Floor = 2
  ReapEvery = 0
  Actors <- MCActors
  Calls = {"Fork", "CredChange", "FileOpen", "Exit"}
SPECIFICATION EngineSpec
SYMMETRY Symmetric
CONSTRAINT Scanned
INVARIANTS FloorsNest
PROPERTIES EvidenceKept EscalatesOnly EvidenceNeverLowers
CHECK_DEADLOCK FALSE
