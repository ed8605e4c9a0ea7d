---------------------------- MODULE IncidentLog ----------------------------
(***************************************************************************)
(* What the incident store promises its users, with no disk, no process    *)
(* and no restart in sight: each host has a log of its latest incidents, in*)
(* the order they arrived; an incident in it can be triaged; and the oldest*)
(* incidents of the fleet may be forgotten.  Store implements it.          *)
(***************************************************************************)
EXTENDS Integers, Sequences

CONSTANTS
  Hosts,         \* reporting hosts
  MaxPerHost     \* incidents a host's log holds

VARIABLES log    \* host -> its incidents, oldest first

LogInit == log = [h \in Hosts |-> <<>>]

Latest(s) ==
  IF Len(s) > MaxPerHost THEN SubSeq(s, Len(s) - MaxPerHost + 1, Len(s)) ELSE s

Add(h) ==
  \E inc \in {log'[h][i] : i \in DOMAIN log'[h]} :
    /\ \A g \in Hosts : \A i \in DOMAIN log[g] : log[g][i].id < inc.id
    /\ ~inc.resolved
    /\ log' = [log EXCEPT ![h] = Latest(Append(@, inc))]

(* Triage touches one incident, and nothing the agent reported of it.      *)
Decide(h) ==
  \E i \in DOMAIN log[h] :
    /\ log' = [log EXCEPT ![h][i] = log'[h][i]]
    /\ log'[h][i].id = log[h][i].id /\ log'[h][i].record = log[h][i].record
    /\ log'[h][i].received = log[h][i].received

(* What is left of a log, oldest first, without the incidents up to `id`.  *)
After(s, id) ==
  LET first == CHOOSE n \in 1..Len(s) + 1 : \A i \in DOMAIN s : i < n <=> s[i].id <= id
  IN  SubSeq(s, first, Len(s))

(* Only what is oldest in the whole fleet is forgotten.                    *)
Forget ==
  \E g \in Hosts : \E i \in DOMAIN log[g] :
    log' = [h \in Hosts |-> After(log[h], log[g][i].id)]

LogNext == Forget \/ \E h \in Hosts : Add(h) \/ Decide(h)

LogSpec == LogInit /\ [][LogNext]_log

=============================================================================
