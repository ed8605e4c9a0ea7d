CONSTANTS
  k1 = k1
  k2 = k2
  Keys <- MCKeys
  RuleDefs <- MCRuleDefs
  Kinds = {"a", "b"}
  Stamps = {0, 2}
  MaxEvents = 4
SPECIFICATION RulesSpec
SYMMETRY Symmetric
INVARIANTS SequenceSound CleanSequenceFires
CHECK_DEADLOCK FALSE
