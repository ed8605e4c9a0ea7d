------------------------------- MODULE Engine -------------------------------
(***************************************************************************)
(* The detection engine (src/src/detect/mod.rs) in the agent's event       *)
(* callback (run() in src/src/main.rs): an event updates the process graph,*)
(* the signals it raises are kept per process, the lineage of the process  *)
(* is scored, an incident is emitted when its severity is higher than any  *)
(* reported for that process, and from time to time graph and engine are   *)
(* reaped.                                                                 *)
(*                                                                         *)
(* The noise budget (src/src/budget.rs) feeds one capture to an engine per *)
(* severity floor.  Those engines differ in nothing but what they have     *)
(* reported, so `reported` is kept per floor; Floor is the daemon's.       *)
(*                                                                         *)
(* Which of the signals that go with an event's type it raises is left     *)
(* open (`found`) and no baseline is loaded: Detection has both.           *)
(***************************************************************************)
EXTENDS Evaluation

CONSTANTS
  Detections,    \* the signals that detectors and rules can raise, each with
                 \* the type of event it is raised on
  Floors,        \* the floors FLOORS measures, among them
  Floor,         \* min_severity, the daemon's own
  ReapEvery,     \* event time between two reaps
  Actors,        \* bound: the processes that make calls
  Calls          \* bound: the types of event they cause

ASSUME EngineConstants ==
  /\ Detections \subseteq [id : STRING, score : Nat, on : StructuralTypes \cup BehaviourTypes]
  /\ Floor \in Floors /\ Floors \subseteq Severities /\ ReapEvery \in Nat
  /\ Actors \subseteq Key

VARIABLES
  signals,       \* key -> signal id -> [score, ts]
  reported,      \* floor -> key -> severity
  lastReap,      \* timestamp of the event that last reaped
  clock,         \* timestamp of the last event
  assessed,      \* the last evaluation: subject, score, the floors it alerts at
  told,          \* history: subject -> severity of its last incident
  strayed,       \* history: subjects of incidents a reap found without a node
  ended          \* history: keys whose exit was seen

evars == <<graph, edges, phase, signals, reported, lastReap, clock, assessed,
           told, strayed, ended>>

NotAssessed == [subject |-> NoKey, score |-> 0, alerted |-> {}]

(* measure() and engine_for(): every floor gets an engine of its own.      *)
FreshEngines == [f \in Floors |-> NoMap]

EngineInit ==
  /\ Init
  /\ signals = NoMap /\ reported = FreshEngines
  /\ lastReap = 0 /\ clock = 0
  /\ assessed = NotAssessed
  /\ told = NoMap /\ strayed = {} /\ ended = {}

-----------------------------------------------------------------------------

(* replay_at(): the floors whose engine makes an incident of an event.     *)
Counted(score, subject) == {f \in Floors : Alerts(f, score, reported[f], subject)}

(* on_event: `found` are the signals of the event, all filed under the key *)
(* of the first of them.                                                   *)
OnEvent(g, ev, found, subject) ==
  LET sigs == Put(signals, subject, Merge(BucketOf(signals, subject), found, ev.ts))
      score == ScoreLineage(g, sigs, Lineage(g, subject))
      alerted == Counted(score, subject)
  IN  IF found = {}
      THEN [signals |-> signals, reported |-> reported, assessed |-> NotAssessed]
      ELSE [signals |-> sigs,
            reported |-> [f \in Floors |->
                            IF f \in alerted THEN Put(reported[f], subject, SeverityOf(score))
                            ELSE reported[f]],
            assessed |-> [subject |-> subject, score |-> score, alerted |-> alerted]]

(* Engine::reap, after the graph's: state of keys without a node goes.     *)
Retained(map, g) == [k \in DOMAIN map \cap DOMAIN g.nodes |-> map[k]]

(* The detectors file a signal under the event's key; a lineage rule that  *)
(* fires alone files its signal under the lineage's root.                  *)
Subjects(g, ev) == {ev.key, Lineage(g, ev.key)[Len(Lineage(g, ev.key))]}

Handle(ev, g, found, subject) ==
  \E next \in {OnEvent(g, ev, found, subject)} :
      /\ phase # "scan"
      /\ told' = IF Floor \in next.assessed.alerted
                 THEN Put(told, subject, SeverityOf(next.assessed.score))
                 ELSE told
      /\ IF ev.ts - lastReap > ReapEvery
         THEN /\ graph' \in Reap(g, ev.ts)
              /\ signals' = Retained(next.signals, graph')
              /\ reported' = [f \in Floors |-> Retained(next.reported[f], graph')]
              /\ lastReap' = ev.ts /\ phase' = "reaped"
              /\ strayed' = strayed \cup (DOMAIN told' \ DOMAIN graph'.nodes)
         ELSE /\ graph' = g
              /\ signals' = next.signals /\ reported' = next.reported
              /\ phase' = "run"
              /\ UNCHANGED <<lastReap, strayed>>
      /\ clock' = ev.ts
      /\ assessed' = next.assessed
      /\ ended' = IF ev.type = "Exit" THEN ended \cup {ev.key} ELSE ended
      /\ UNCHANGED edges

(* A process whose exit was seen makes no further calls.                   *)
ActorEvent ==
  {ev \in KernelEvent : /\ ev.type \in Calls /\ ev.key \in Actors
                        /\ ev.child \in Actors \cup {NoKey}}

HandleAny ==
  \E ev \in ActorEvent :
    /\ {ev.key, ev.child} \cap ended = {}
    /\ ForkIsFirst(ev) /\ ev.ts >= clock
    /\ \E g \in {ApplyEvent(graph, ev)} :
          \/ Handle(ev, g, {}, ev.key)
          \/ \E found \in SUBSET {d \in Detections : d.on = ev.type} \ {{}},
                subject \in Subjects(g, ev) : Handle(ev, g, found, subject)

Scan ==
  /\ \/ \E key \in Key, ppid \in Pids \cup {0}, comm \in Comms :
          ScanOne(key, ppid, comm, Empty)
     \/ FinishScan
  /\ UNCHANGED <<signals, reported, lastReap, clock, assessed, told, strayed,
                 ended>>

EngineNext == Scan \/ HandleAny

EngineSpec == EngineInit /\ [][EngineNext]_evars

-----------------------------------------------------------------------------
(* Properties. *)

(* Evidence is not lost: a signal on a process the graph holds stays, at   *)
(* its score or a higher one, as long as the process has its node.         *)
EvidenceKept ==
  [][\A k \in DOMAIN signals \cap Nodes \cap DOMAIN graph'.nodes :
       /\ k \in DOMAIN signals'
       /\ \A id \in DOMAIN signals[k] :
            /\ id \in DOMAIN signals'[k]
            /\ signals'[k][id].score >= signals[k][id].score]_evars

(* A process is not reported twice at one severity, nor ever at a lower    *)
(* one, as long as every reap finds it in the graph.                       *)
EscalatesOnly ==
  [][LET subject == assessed'.subject
     IN  Floor \in assessed'.alerted /\ subject \in DOMAIN told \ strayed =>
           SeverityOf(assessed'.score) > told[subject]]_evars

(* The noise budget's rows nest: an event that is an incident at one floor *)
(* is an incident at every lower one, whatever each engine had reported    *)
(* before, so raising min_severity can only take incidents away and never  *)
(* brings one that the lower floor had held back as a repetition.          *)
FloorsNest ==
  \A f \in assessed.alerted : \A low \in Floors : low <= f => low \in assessed.alerted

(* More evidence of one operation never lowers its score: while all the    *)
(* signals of a lineage lie within the chain window, an evaluation scores  *)
(* them no lower than it would have scored those that were there before.   *)
EvidenceNeverLowers ==
  [][assessed'.subject # NoKey /\ phase' = "run" =>
       \A lineage \in {Lineage(graph', assessed'.subject)} :
         LET later == Gathered(signals', {lineage[i] : i \in 1..Len(lineage)})
         IN  (\A s, t \in later : s.ts - t.ts <= ChainWindow) =>
               assessed'.score >= ScoreLineage(graph', signals, lineage)]_evars

=============================================================================
