------------------------------ MODULE MCEngine ------------------------------
EXTENDS Engine, TLC

(* Two signals of one family and one of another, with the scores the       *)
(* detectors give them: alone each but one is below the floor.             *)
MCDetections ==
  {[id |-> "privilege_escalation", score |-> 40, on |-> "CredChange"],
   [id |-> "ssh_private_key_read", score |-> 35, on |-> "FileOpen"],
   [id |-> "credential_store_read", score |-> 30, on |-> "FileOpen"]}

(* Two processes that started at the clock's first reading, which a tick   *)
(* of /proc truncates to 0.                                                *)
MCActors == [pid : Pids, start : {1}]

(* The scan saw no process that started later.                             *)
Scanned == \A k \in DOMAIN edges : k.start = 0

Symmetric == Permutations(Pids)
=============================================================================
