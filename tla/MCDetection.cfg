CONSTANTS
  Pids = {1, 2}
  Times = {0, 1, 2, 3}
  Comms = {"sh", "nginx"}
  Trusts = {"unix_chkpwd", "nginx"}
  Containers = {"box"}
  NoKey = NoKey
  Tolerance = 0
  MaxProcesses = 2
  Retain = 0
  CredCap = 0
  AncestryCap = 2
  ChainWindow = 2
  Daemons = {"nginx"}
  DaemonComms = {"nginx"}
  KernelComms = {}
  HostNs = 1
  NoFile = NoFile
  RealPath <- MCRealPath
  Subvolumes = {"/usr/bin/unix_chkpwd"}
  Parent <- MCParent
  Child <- MCChild
  Paths = {"/usr/bin/unix_chkpwd", "/usr/sbin/nginx", "/usr/local/nginx/sbin/nginx", "/usr/bin/sh"}
  Shells = {"/usr/bin/sh"}
  ImageInodes <- MCImageInodes
  Installed = {"/usr/bin/unix_chkpwd", "/usr/bin/nginx", "/usr/local/nginx/sbin/nginx", "/usr/bin/sh"}
  ParentRuns = {"/usr/bin/nginx", "/usr/bin/sh"}
  Acts <- MCActs
  Shapes <- MCShapes
  Histories <- MCHistories
  Floor = 2
  RingCap = 1
  MaxInstalls = 1
  MaxCalls = 3
SPECIFICATION DetectionSpec
INVARIANTS NamesNeverExonerate DampedAsEarned
PROPERTIES SuppressionEarned Recognised
CHECK_DEADLOCK FALSE
