SPECIFICATION EnforcementSpec
CONSTANTS
  Namespaces = {1, 2}
  Host = 1
  Homes = {h1, h2, h3}
  LongDir = {}
  LongKey = {h3}
  TrieRoom = 3
  RingCap = 2
  MaxOpens = 3
INVARIANTS DenialsJustified DenialsRecorded
PROPERTY HomesWatched
CHECK_DEADLOCK FALSE
