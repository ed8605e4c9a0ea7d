------------------------------ MODULE MCRules ------------------------------
(* A three-step lineage rule, a two-step rule on one process whose steps   *)
(* overlap, a one-step sequence and a single-event rule.                   *)
EXTENDS Rules, TLC

CONSTANTS k1, k2

MCKeys == {k1, k2}
Symmetric == Permutations(MCKeys)

MCRuleDefs ==
  << [sequence |-> TRUE, scope |-> "SameLineage", within |-> 1,
      steps |-> <<{"a"}, {"b"}, {"b"}>>],
     [sequence |-> TRUE, scope |-> "SameProcess", within |-> 0,
      steps |-> <<{"a", "b"}, {"b"}>>],
     [sequence |-> TRUE, scope |-> "SameLineage", within |-> 1,
      steps |-> <<{"b"}>>],
     [sequence |-> FALSE, scope |-> "SameProcess", within |-> 0,
      steps |-> <<{"a"}>>] >>
=============================================================================
