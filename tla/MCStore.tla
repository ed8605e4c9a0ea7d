------------------------------ MODULE MCStore ------------------------------
(* Small instances of Store for TLC.                                       *)
EXTENDS Store, TLC

MCRecords == {[exe |-> "sh", signals |-> <<[id |-> "read", ts |-> 1]>>]}

Symmetric == Permutations(Hosts)

=============================================================================
