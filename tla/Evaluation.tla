----------------------------- MODULE Evaluation -----------------------------
(***************************************************************************)
(* The evaluation of a lineage (evaluate() and context() in                *)
(* src/src/detect/mod.rs), as operators on the engine's maps: `sigs` maps a*)
(* process key to its signals by id, `rep` a key to the severity last      *)
(* reported for it.                                                        *)
(***************************************************************************)
EXTENDS ProcessGraph, Score, Sequences

CONSTANT Daemons       \* the command names is_network_daemon knows

ASSUME EvaluationConstants == Daemons \subseteq Comms

NoMap == [k \in {} |-> 0]

BucketOf(sigs, key) == IF key \in DOMAIN sigs THEN sigs[key] ELSE NoMap

(* Mutant: the signals of the event replace the earlier ones.              *)
Merge_Replaces(bucket, found, ts) ==
  [id \in {d.id : d \in found} |->
     [score |-> Max({d.score : d \in {x \in found : x.id = id}}), ts |-> ts]]

(* Per signal id the highest score stays; an equal score does not refresh  *)
(* the timestamp.                                                          *)
Merge(bucket, found, ts) ==
  LET best(id) == Max({d.score : d \in {x \in found : x.id = id}})
      ids == {d.id : d \in found}
  IN  [id \in DOMAIN bucket \cup ids |->
         IF id \in ids /\ (id \in DOMAIN bucket => bucket[id].score < best(id))
         THEN [score |-> best(id), ts |-> ts] ELSE bucket[id]]

(* The subject and the ancestors the graph knows.                          *)
Lineage(g, subject) ==
  LET walk == Ancestry(g, subject)
  IN  IF walk = <<>> THEN <<subject>> ELSE walk

Gathered(sigs, keys) ==
  UNION {{[id |-> id, score |-> sigs[k][id].score, ts |-> sigs[k][id].ts, on |-> k] :
            id \in DOMAIN sigs[k]} : k \in keys \cap DOMAIN sigs}

(* context(): the oldest ancestor is a network daemon; any is in a         *)
(* container.                                                              *)
NetworkRooted(g, lineage) ==
  LET root == lineage[Len(lineage)]
  IN  root \in DOMAIN g.nodes /\ g.nodes[root].comm \in Daemons

InContainer(g, lineage) ==
  \E i \in 1..Len(lineage) : /\ lineage[i] \in DOMAIN g.nodes
                             /\ g.nodes[lineage[i]].container # Empty

ScoreLineage(g, sigs, lineage) ==
  ScoreOf(Gathered(sigs, {lineage[i] : i \in 1..Len(lineage)}),
          NetworkRooted(g, lineage), InContainer(g, lineage))

(* Mutants: the severity already reported is reported again; only the      *)
(* floor's own severity is reported.                                       *)
Alerts_Again(floor, score, rep, subject) ==
  /\ SeverityOf(score) >= floor
  /\ subject \in DOMAIN rep => SeverityOf(score) >= rep[subject]
Alerts_Exactly(floor, score, rep, subject) ==
  /\ SeverityOf(score) = floor
  /\ subject \in DOMAIN rep => SeverityOf(score) > rep[subject]

(* evaluate(): below the floor, or no higher than what was reported for    *)
(* this subject, nothing happens.                                          *)
Alerts(floor, score, rep, subject) ==
  /\ SeverityOf(score) >= floor
  /\ subject \in DOMAIN rep => SeverityOf(score) > rep[subject]

=============================================================================
