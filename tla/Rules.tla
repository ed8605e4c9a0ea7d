------------------------------- MODULE Rules -------------------------------
(***************************************************************************)
(* User-defined rules (RuleSet in src/src/detect/rule.rs): single-event    *)
(* rules, and sequences whose steps must be seen in order, on one process  *)
(* or in one lineage, within a time window.  One match is in flight per    *)
(* rule and scope.                                                         *)
(*                                                                         *)
(* A condition is the set of event kinds that satisfy it.  An event names  *)
(* its process and the topmost ancestor the graph knows for it, which is   *)
(* what a lineage is keyed on.                                             *)
(***************************************************************************)
EXTENDS Integers, Sequences, FiniteSets

CONSTANTS
  RuleDefs,    \* the rules, in load order
  Kinds,       \* event kinds conditions tell apart
  Keys,        \* process keys
  Stamps,      \* event timestamps
  MaxEvents    \* bound: events fed to the rules; the last one ends it

Rule == [sequence : BOOLEAN, scope : {"SameProcess", "SameLineage"},
         steps : Seq(SUBSET Kinds), within : Nat]

(* What Rule::validate leaves: a rule has a match or a non-empty sequence. *)
ASSUME RulesConstants ==
  /\ RuleDefs \in Seq(Rule)
  /\ \A i \in 1..Len(RuleDefs) :
       /\ Len(RuleDefs[i].steps) > 0
       /\ ~RuleDefs[i].sequence => Len(RuleDefs[i].steps) = 1
  /\ Stamps \subseteq Nat /\ MaxEvents \in Nat

VARIABLES
  partials,    \* <<rule, scope key>> -> [step, first]
  log,         \* history: the events so far, each with the signals it made
  cut          \* history: key -> events before a reap last dropped a match of it

rvars == <<partials, log, cut>>

RuleEvent == [kind : Kinds, proc : Keys, root : Keys, ts : Stamps]

Matches(cond, ev) == ev.kind \in cond

ScopeKey(rule, ev) == IF rule.scope = "SameProcess" THEN ev.proc ELSE ev.root

(* Mutant: a match in flight never expires.                                *)
Stale_Never(partial, rule, ts) == FALSE

(* ev.ts_ns.saturating_sub(first_ts) > within: an event older than the     *)
(* first step never expires it.                                            *)
Stale(partial, rule, ts) == ts - partial.first > rule.within

(* Mutant: the event that expires a match is not taken for the first step  *)
(* of the next.                                                            *)
Advance_ExpiryEnds(rule, inFlight, ev) ==
  LET live == {p \in inFlight : ~Stale(p, rule, ev.ts)}
      next == {p \in live : Matches(rule.steps[p.step + 1], ev)}
      moved == {[p EXCEPT !.step = @ + 1] : p \in next}
      begun == [step |-> 1, first |-> ev.ts]
  IN  IF next # {}
      THEN [left |-> {p \in moved : p.step < Len(rule.steps)},
            done |-> \E p \in moved : p.step = Len(rule.steps)]
      ELSE IF live # inFlight \/ ~Matches(rule.steps[1], ev)
      THEN [left |-> live, done |-> FALSE]
      ELSE IF Len(rule.steps) = 1 THEN [left |-> live, done |-> TRUE]
      ELSE [left |-> {begun}, done |-> FALSE]

(* advance_sequence: the partial the rule is left with in this scope ({}   *)
(* for none) and whether the sequence is complete.  An event that does not *)
(* advance the match in flight but satisfies the first step replaces it.   *)
Advance(rule, inFlight, ev) ==
  LET live == {p \in inFlight : ~Stale(p, rule, ev.ts)}
      next == {p \in live : Matches(rule.steps[p.step + 1], ev)}
      begun == [step |-> 1, first |-> ev.ts]
  IN  IF next # {}
      THEN LET moved == {[p EXCEPT !.step = @ + 1] : p \in next}
           IN  [left |-> {p \in moved : p.step < Len(rule.steps)},
                done |-> \E p \in moved : p.step = Len(rule.steps)]
      ELSE IF ~Matches(rule.steps[1], ev) THEN [left |-> live, done |-> FALSE]
      ELSE IF Len(rule.steps) = 1 THEN [left |-> live, done |-> TRUE]
      ELSE [left |-> {begun}, done |-> FALSE]

InFlight(i, key) ==
  IF <<i, key>> \in DOMAIN partials THEN {partials[<<i, key>>]} ELSE {}

Outcome(i, ev) == Advance(RuleDefs[i], InFlight(i, ScopeKey(RuleDefs[i], ev)), ev)

RulesInit == partials = [k \in {} |-> 0] /\ log = <<>> /\ cut = [k \in Keys |-> 0]

(* on_event: every rule sees the event.                                    *)
OnRules(ev) ==
  LET seqs == {i \in 1..Len(RuleDefs) : RuleDefs[i].sequence}
      slot(i) == <<i, ScopeKey(RuleDefs[i], ev)>>
      kept == {k \in DOMAIN partials : \A i \in seqs : k # slot(i)}
      set == {i \in seqs : Outcome(i, ev).left # {}}
  IN  /\ partials' =
           [k \in kept \cup {slot(i) : i \in set} |->
              IF k \in kept THEN partials[k]
              ELSE CHOOSE p \in Outcome(k[1], ev).left : TRUE]
      /\ log' = Append(log, [ev |-> ev, fired |->
           {[rule |-> i, key |-> ev.proc] :
              i \in {j \in 1..Len(RuleDefs) \ seqs : Matches(RuleDefs[j].steps[1], ev)}}
           \cup {[rule |-> i, key |-> slot(i)[2]] : i \in {j \in seqs : Outcome(j, ev).done}}])

Feed(ev) ==
  /\ Len(log) < MaxEvents
  /\ OnRules(ev)
  /\ UNCHANGED cut

(* RuleSet::reap while the graph has no node for the keys `lost` of matches*)
(* in flight: those are dropped.  The processes may be running all the     *)
(* same, evicted or known under another key, and go on.                    *)
ReapRules(lost) ==
  /\ lost # {} /\ Len(log) < MaxEvents
  /\ partials' = [k \in {x \in DOMAIN partials : x[2] \notin lost} |-> partials[k]]
  /\ cut' = [k \in Keys |-> IF k \in lost THEN Len(log) ELSE cut[k]]
  /\ UNCHANGED log

RulesNext ==
  \/ \E ev \in RuleEvent : Feed(ev)
  \/ \E lost \in SUBSET {k[2] : k \in DOMAIN partials} : ReapRules(lost)

RulesSpec == RulesInit /\ [][RulesNext]_rvars

-----------------------------------------------------------------------------
(* Properties. *)

(* The events at the positions `at` of the log satisfy the steps of the    *)
(* rule in order, in one scope, the last within the window of the first.   *)
Witness(rule, key, at) ==
  LET n == Len(rule.steps)
  IN  /\ \A i \in 1..n : /\ Matches(rule.steps[i], log[at[i]].ev)
                         /\ ScopeKey(rule, log[at[i]].ev) = key
      /\ \A i \in 1..(n - 1) : at[i] < at[i + 1]
      /\ log[at[n]].ev.ts - log[at[1]].ev.ts <= rule.within

(* The last of the positions is the last event.                            *)
Positions(rule) ==
  {at \in [1..Len(rule.steps) -> 1..Len(log)] : at[Len(rule.steps)] = Len(log)}

Sequences == {i \in 1..Len(RuleDefs) : RuleDefs[i].sequence}

FiredIn(from, to, i, key) ==
  \E j \in from..to : [rule |-> i, key |-> key] \in log[j].fired

(* A sequence rule signals only what it was written for: its steps, in     *)
(* order, in one scope, within the window, the last of them the event that *)
(* made the signal.                                                        *)
SequenceSound ==
  \A i \in Sequences, key \in Keys :
    log # <<>> /\ FiredIn(Len(log), Len(log), i, key) =>
      \E at \in Positions(RuleDefs[i]) : Witness(RuleDefs[i], key, at)

(* What the matcher does guarantee: a sequence whose first step looks like *)
(* no other is found if, from its first event to its last, nothing in the  *)
(* scope satisfies the first step again, nothing lies outside the window   *)
(* (advance_sequence restarts or expires the match otherwise) and no reap  *)
(* drops what is in flight in the scope.                                   *)
CleanSequenceFires ==
  \A i \in Sequences, key \in Keys : \A at \in Positions(RuleDefs[i]) :
    LET rule == RuleDefs[i]
        n == Len(rule.steps)
    IN  /\ \A s \in 2..n : rule.steps[s] \cap rule.steps[1] = {}
        /\ Witness(rule, key, at) /\ cut[key] < at[1]
        /\ \A j \in (at[1] + 1)..at[n] :
             ScopeKey(rule, log[j].ev) = key =>
               /\ ~Matches(rule.steps[1], log[j].ev)
               /\ log[j].ev.ts - log[at[1]].ev.ts <= rule.within
        => FiredIn(at[1], at[n], i, key)

=============================================================================
