SPECIFICATION StoreSpec
CONSTANTS
  h1 = h1
  h2 = h2
  Hosts = {h1, h2}
  Keep = Keep
  Records <- MCRecords
  Users = {"ana"}
  Notes = {}
  MaxPerHost = 1
  MaxStored = 2
  PruneEvery = 2
  Retain = 1
  MaxIngests = 4
  MaxTime = 2
  MaxMarks = 1
  MaxFaults = 1
SYMMETRY Symmetric
INVARIANTS
  SameIncident
  TriageDurable
  RowsBounded
PROPERTIES
  Implements
CHECK_DEADLOCK FALSE
