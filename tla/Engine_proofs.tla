---------------------------- MODULE Engine_proofs ---------------------------
(***************************************************************************)
(* What the agent concludes from the events: the incidents its engine      *)
(* reports (Engine), for every set of detections and floors, every graph   *)
(* and every order of events, and what a sequence rule signals and never   *)
(* misses (Rules), for any rules, processes, timestamps and number of      *)
(* events.  The two machines share no state.                               *)
(*                                                                         *)
(* Engine: FloorsNest compares engines that have each seen the same events *)
(* and reported different ones, so the invariant says how their memories   *)
(* differ (Nested): what a higher floor has reported for a process the     *)
(* lower one has reported too, at the same severity, and whatever only the *)
(* lower one has reported lies below the higher floor.  EscalatesOnly needs*)
(* that the daemon's memory of a process is its last incident unless a reap*)
(* found it without a node (Remembered).                                   *)
(*                                                                         *)
(* Rules: soundness needs every match in flight to be grounded in events:  *)
(* as many as its step counter says, in order, the first of them at its    *)
(* timestamp.  Completeness needs the match begun by a first step that     *)
(* nothing since repeated or outlived to be ahead of every run of steps    *)
(* that starts there: the matcher is greedy, so none can overtake it.      *)
(***************************************************************************)
EXTENDS Engine, Rules, TLAPS

(* Leaves go to Zenon, those with arithmetic or records to SMT, as cited; the
   time is for a slow machine.                                             *)
USE ZenonT(30)

-----------------------------------------------------------------------------
(* Incidents reported. *)

(* low and high are the memories of the engines with the floors l <= f.    *)
Above(low, high, f) ==
  /\ \A k \in DOMAIN high : k \in DOMAIN low /\ low[k] = high[k] /\ high[k] >= f
  /\ \A k \in DOMAIN low : low[k] \in Severities /\ (k \notin DOMAIN high => low[k] < f)

Nested ==
  /\ DOMAIN reported = Floors
  /\ \A l, f \in Floors : l <= f => Above(reported[l], reported[f], f)

Remembered ==
  \A k \in DOMAIN told \ strayed :
    k \in DOMAIN reported[Floor] /\ reported[Floor][k] = told[k]

(* Nothing is evaluated before the scan is over.                           *)
Quiet == phase = "scan" => assessed.alerted = {}

NInv == Nested /\ Remembered /\ Quiet /\ FloorsNest

-----------------------------------------------------------------------------

(* Severity::from_score has five values.                                   *)
LEMMA SeverityType == ASSUME NEW x PROVE SeverityOf(x) \in Severities
  BY SMTT(30) DEF SeverityOf, Severities

(* evaluate() at two floors: what alerts at the higher one alerts at the   *)
(* lower one.                                                              *)
LEMMA AlertsNest ==
  ASSUME NEW l \in Floors, NEW f \in Floors, l <= f,
         NEW low, NEW high, Above(low, high, f), NEW x, NEW k, Alerts(f, x, high, k)
  PROVE  Alerts(l, x, low, k)
<1> DEFINE s == SeverityOf(x)
<1>1. s \in Int /\ l \in Int /\ f \in Int
  BY SMTT(30), SeverityType, EngineConstants DEF Severities
<1>2. s >= f /\ (k \in DOMAIN high => s > high[k])
  BY DEF Alerts
<1> HIDE DEF s
<1>3. s >= l
  BY SMTT(30), <1>1, <1>2
<1>4. k \in DOMAIN low => s > low[k]
  <2> SUFFICES ASSUME k \in DOMAIN low PROVE s > low[k]
    OBVIOUS
  <2>1. low[k] \in Int
    BY SMTT(30) DEF Above, Severities
  <2>2. CASE k \in DOMAIN high
    BY <1>2, <2>2 DEF Above
  <2>3. CASE k \notin DOMAIN high
    BY SMTT(30), <1>1, <1>2, <2>1, <2>3 DEF Above
  <2> QED
    BY <2>2, <2>3
<1> QED
  BY <1>3, <1>4 DEF Alerts, s

(* Both engines have then reported the same; and what alerts at the lower  *)
(* floor alone lies below the higher.                                      *)
LEMMA PutNests ==
  ASSUME NEW l \in Floors, NEW f \in Floors, l <= f,
         NEW low, NEW high, Above(low, high, f), NEW x, NEW k
  PROVE  LET s == SeverityOf(x)
             low2 == IF Alerts(l, x, low, k) THEN Put(low, k, s) ELSE low
             high2 == IF Alerts(f, x, high, k) THEN Put(high, k, s) ELSE high
         IN  Above(low2, high2, f)
<1> DEFINE s == SeverityOf(x)
<1>1. s \in Severities /\ s \in Int /\ l \in Int /\ f \in Int
  BY SMTT(30), SeverityType, EngineConstants DEF Severities
<1>2. /\ DOMAIN Put(low, k, s) = DOMAIN low \cup {k} /\ Put(low, k, s)[k] = s
      /\ \A q \in DOMAIN low : q # k => Put(low, k, s)[q] = low[q]
      /\ DOMAIN Put(high, k, s) = DOMAIN high \cup {k} /\ Put(high, k, s)[k] = s
      /\ \A q \in DOMAIN high : q # k => Put(high, k, s)[q] = high[q]
  BY DEF Put
<1>3. CASE Alerts(f, x, high, k)
  <2>1. Alerts(l, x, low, k) /\ s >= f
    BY <1>3, AlertsNest DEF Alerts
  <2>2. Above(Put(low, k, s), Put(high, k, s), f)
    <3> HIDE DEF s
    <3> QED
      BY <1>1, <1>2, <2>1 DEF Above
  <2> QED
    BY <1>3, <2>1, <2>2
<1>4. CASE ~Alerts(f, x, high, k) /\ Alerts(l, x, low, k)
  <2>1. k \notin DOMAIN high /\ s < f
    <3>1. k \in DOMAIN low => s > low[k]
      BY <1>4 DEF Alerts
    <3>2. k \in DOMAIN high => low[k] = high[k] /\ high[k] >= f /\ k \in DOMAIN low
                               /\ low[k] \in Int
      BY SMTT(30) DEF Above, Severities
    <3>3. ~(s >= f /\ (k \in DOMAIN high => s > high[k]))
      BY <1>4 DEF Alerts
    <3> HIDE DEF s
    <3> QED
      BY SMTT(30), <1>1, <3>1, <3>2, <3>3
  <2>2. Above(Put(low, k, s), high, f)
    <3> HIDE DEF s
    <3> QED
      BY <1>1, <1>2, <2>1 DEF Above
  <2> QED
    BY <1>4, <2>2
<1>5. CASE ~Alerts(f, x, high, k) /\ ~Alerts(l, x, low, k)
  BY <1>5
<1> QED
  BY <1>3, <1>4, <1>5

(* Engine::reap takes the same keys from both.                             *)
LEMMA RetainedNests ==
  ASSUME NEW f, NEW low, NEW high, Above(low, high, f), NEW g
  PROVE  Above(Retained(low, g), Retained(high, g), f)
  BY DEF Above, Retained

-----------------------------------------------------------------------------

(* The engines start with nothing to remember.                             *)
LEMMA InitNInv == EngineInit => NInv
<1> SUFFICES ASSUME EngineInit PROVE NInv
  OBVIOUS
<1>1. /\ reported = [f \in Floors |-> NoMap] /\ told = NoMap /\ assessed = NotAssessed
      /\ DOMAIN NoMap = {}
  BY DEF EngineInit, FreshEngines, NoMap
<1>2. Nested
  BY <1>1 DEF Nested, Above
<1>3. Remembered /\ Quiet /\ FloorsNest
  BY <1>1 DEF Remembered, Quiet, FloorsNest, NotAssessed
<1> QED
  BY <1>2, <1>3 DEF NInv

(* What on_event leaves, before a reap.                                    *)
LEMMA OnEventNests ==
  ASSUME NInv, NEW g, NEW ev, NEW found, NEW subject, NEW next,
         next = OnEvent(g, ev, found, subject)
  PROVE  /\ DOMAIN next.reported = Floors
         /\ \A l, f \in Floors : l <= f => Above(next.reported[l], next.reported[f], f)
         /\ \A f \in next.assessed.alerted : \A low \in Floors :
              low <= f => low \in next.assessed.alerted
         /\ Floor \in next.assessed.alerted =>
              /\ next.assessed.subject = subject
              /\ next.reported[Floor] =
                   Put(reported[Floor], subject, SeverityOf(next.assessed.score))
              /\ subject \in DOMAIN reported[Floor] =>
                   SeverityOf(next.assessed.score) > reported[Floor][subject]
         /\ Floor \notin next.assessed.alerted => next.reported[Floor] = reported[Floor]
<1> DEFINE sigs == Put(signals, subject, Merge(BucketOf(signals, subject), found, ev.ts))
           score == ScoreLineage(g, sigs, Lineage(g, subject))
           alerted == Counted(score, subject)
<1>0. Floor \in Floors
  BY EngineConstants
<1>1. CASE found = {}
  <2>1. next.reported = reported /\ next.assessed.alerted = {}
    BY <1>1 DEF OnEvent, NotAssessed
  <2> QED
    BY <2>1 DEF NInv, Nested
<1>2. CASE found # {}
  <2>1. /\ next.reported = [f \in Floors |->
                              IF f \in alerted THEN Put(reported[f], subject, SeverityOf(score))
                              ELSE reported[f]]
        /\ next.assessed = [subject |-> subject, score |-> score, alerted |-> alerted]
    BY <1>2 DEF OnEvent
  <2> HIDE DEF score
  <2>2. alerted = {f \in Floors : Alerts(f, score, reported[f], subject)}
    BY DEF Counted
  <2> HIDE DEF alerted
  <2>3. ASSUME NEW l \in Floors, NEW f \in Floors, l <= f
        PROVE  /\ Above(next.reported[l], next.reported[f], f)
               /\ f \in alerted => l \in alerted
    <3>1. Above(reported[l], reported[f], f)
      BY <2>3 DEF NInv, Nested
    <3>2. /\ next.reported[l] = IF Alerts(l, score, reported[l], subject)
                                THEN Put(reported[l], subject, SeverityOf(score))
                                ELSE reported[l]
          /\ next.reported[f] = IF Alerts(f, score, reported[f], subject)
                                THEN Put(reported[f], subject, SeverityOf(score))
                                ELSE reported[f]
      BY <2>1, <2>2
    <3>3. Above(next.reported[l], next.reported[f], f)
      <4>1. /\ l \in Floors /\ f \in Floors /\ l <= f
        BY <2>3
      <4>2. Above(IF Alerts(l, score, reported[l], subject)
                  THEN Put(reported[l], subject, SeverityOf(score)) ELSE reported[l],
                  IF Alerts(f, score, reported[f], subject)
                  THEN Put(reported[f], subject, SeverityOf(score)) ELSE reported[f], f)
        BY <4>1, <3>1, PutNests
      <4> QED BY <4>2, <3>2, Zenon
    <3>4. Alerts(f, score, reported[f], subject) => Alerts(l, score, reported[l], subject)
      BY <2>3, <3>1, AlertsNest
    <3> QED
      BY <2>2, <3>3, <3>4
  <2>4. \A f \in alerted : f \in Floors
    BY <2>2
  <2>5. /\ Floor \in alerted => Alerts(Floor, score, reported[Floor], subject)
        /\ next.reported[Floor] =
             IF Floor \in alerted THEN Put(reported[Floor], subject, SeverityOf(score))
             ELSE reported[Floor]
    BY <1>0, <2>1, <2>2
  <2>6. DOMAIN next.reported = Floors
    BY <2>1
  <2>7. /\ next.assessed.subject = subject /\ next.assessed.score = score
        /\ next.assessed.alerted = alerted
    BY SMTT(30), <2>1
  <2>8. Floor \in alerted /\ subject \in DOMAIN reported[Floor] =>
          SeverityOf(score) > reported[Floor][subject]
    BY <2>5 DEF Alerts
  <2> QED
    BY <2>3, <2>4, <2>5, <2>6, <2>7, <2>8, Zenon
<1> QED
  BY <1>1, <1>2

(* An event, with the reap that may follow it.                             *)
LEMMA HandleNInv ==
  ASSUME NInv, NEW ev, NEW g, NEW found, NEW subject, Handle(ev, g, found, subject)
  PROVE  /\ NInv'
         /\ Floor \in assessed'.alerted /\ assessed'.subject \in DOMAIN told \ strayed =>
              SeverityOf(assessed'.score) > told[assessed'.subject]
<1> DEFINE next == OnEvent(g, ev, found, subject)
<1>1. /\ told' = IF Floor \in next.assessed.alerted
                 THEN Put(told, subject, SeverityOf(next.assessed.score)) ELSE told
      /\ \/ /\ reported' = [f \in Floors |-> Retained(next.reported[f], graph')]
            /\ strayed' = strayed \cup (DOMAIN told' \ DOMAIN graph'.nodes)
         \/ reported' = next.reported /\ strayed' = strayed
      /\ assessed' = next.assessed /\ phase' \in {"run", "reaped"}
  BY DEF Handle
<1>2. /\ DOMAIN next.reported = Floors
      /\ \A l, f \in Floors : l <= f => Above(next.reported[l], next.reported[f], f)
      /\ \A f \in next.assessed.alerted : \A low \in Floors :
           low <= f => low \in next.assessed.alerted
      /\ Floor \in next.assessed.alerted =>
           /\ next.assessed.subject = subject
           /\ next.reported[Floor] =
                Put(reported[Floor], subject, SeverityOf(next.assessed.score))
           /\ subject \in DOMAIN reported[Floor] =>
                SeverityOf(next.assessed.score) > reported[Floor][subject]
      /\ Floor \notin next.assessed.alerted => next.reported[Floor] = reported[Floor]
  BY OnEventNests
<1>3. Floor \in Floors
  BY EngineConstants
<1> HIDE DEF next
<1>4. FloorsNest'
  BY <1>1, <1>2 DEF FloorsNest
<1>5. Nested'
  <2>1. CASE reported' = next.reported
    BY <1>2, <2>1 DEF Nested
  <2>2. CASE reported' = [f \in Floors |-> Retained(next.reported[f], graph')]
    <3>1. \A l, f \in Floors : l <= f => Above(reported'[l], reported'[f], f)
      BY <1>2, <2>2, RetainedNests
    <3> QED
      BY <2>2, <3>1 DEF Nested
  <2> QED
    BY <1>1, <2>1, <2>2
<1>6. \A k \in DOMAIN told' \ strayed :
        k \in DOMAIN next.reported[Floor] /\ next.reported[Floor][k] = told'[k]
  <2>1. CASE Floor \in next.assessed.alerted
    BY <1>1, <1>2, <2>1 DEF NInv, Remembered, Put
  <2>2. CASE Floor \notin next.assessed.alerted
    BY <1>1, <1>2, <2>2 DEF NInv, Remembered
  <2> QED
    BY <2>1, <2>2
<1>7. Remembered'
  <2>1. CASE reported' = next.reported /\ strayed' = strayed
    BY <1>6, <2>1 DEF Remembered
  <2>2. CASE /\ reported' = [f \in Floors |-> Retained(next.reported[f], graph')]
             /\ strayed' = strayed \cup (DOMAIN told' \ DOMAIN graph'.nodes)
    <3>1. reported'[Floor] = Retained(next.reported[Floor], graph')
      BY <1>3, <2>2
    <3> QED
      BY <1>6, <2>2, <3>1 DEF Remembered, Retained
  <2> QED
    BY <1>1, <2>1, <2>2
<1>8. Floor \in assessed'.alerted /\ assessed'.subject \in DOMAIN told \ strayed =>
        SeverityOf(assessed'.score) > told[assessed'.subject]
  BY <1>1, <1>2 DEF NInv, Remembered
<1>9. Quiet'
  BY <1>1 DEF Quiet
<1> QED
  BY <1>4, <1>5, <1>7, <1>8, <1>9 DEF NInv

(* Every step keeps the invariant, and an incident of the daemon is an     *)
(* escalation.                                                             *)
LEMMA NextNInv ==
  ASSUME NInv, [EngineNext]_evars
  PROVE  /\ NInv'
         /\ ~UNCHANGED evars =>
              (Floor \in assessed'.alerted /\ assessed'.subject \in DOMAIN told \ strayed =>
                 SeverityOf(assessed'.score) > told[assessed'.subject])
<1>1. CASE UNCHANGED evars
  BY <1>1 DEF evars, NInv, Nested, Remembered, Quiet, FloorsNest
<1>2. CASE Scan
  <2>1. UNCHANGED <<reported, told, strayed, assessed>> /\ phase = "scan"
    BY <1>2 DEF Scan, ScanOne, FinishScan
  <2>2. assessed'.alerted = {}
    BY <2>1 DEF NInv, Quiet
  <2> QED
    BY <2>1, <2>2 DEF NInv, Nested, Remembered, Quiet, FloorsNest
<1>3. CASE HandleAny
  <2>1. PICK ev \in ActorEvent : \E g, found, subject : Handle(ev, g, found, subject)
    BY <1>3 DEF HandleAny
  <2>2. PICK g, found, subject : Handle(ev, g, found, subject)
    BY <2>1
  <2> QED
    BY <2>2, HandleNInv
<1> QED
  BY <1>1, <1>2, <1>3 DEF EngineNext

-----------------------------------------------------------------------------

(* The invariant of the engines' memories.                                 *)
THEOREM EngineInvariant == EngineSpec => []NInv
<1>1. NInv /\ [EngineNext]_evars => NInv'
  BY NextNInv
<1> QED
  BY <1>1, InitNInv, PTL DEF EngineSpec

(* The rows of the noise budget nest (replay_at, evaluate).                *)
THEOREM FloorsAlwaysNest == EngineSpec => []FloorsNest
<1>1. NInv => FloorsNest
  BY DEF NInv
<1> QED
  BY <1>1, EngineInvariant, PTL

(* A process is reported again only at a higher severity (evaluate, reap). *)
THEOREM IncidentsEscalate == EngineSpec => EscalatesOnly
<1>1. NInv /\ [EngineNext]_evars =>
        [LET subject == assessed'.subject
         IN  Floor \in assessed'.alerted /\ subject \in DOMAIN told \ strayed =>
               SeverityOf(assessed'.score) > told[subject]]_evars
  BY NextNInv
<1> QED
  BY <1>1, EngineInvariant, PTL DEF EngineSpec, EscalatesOnly

-----------------------------------------------------------------------------
(* Sequence rules. *)

Entry == [ev : RuleEvent, fired : SUBSET [rule : Nat, key : Keys]]

RTypes ==
  /\ log \in Seq(Entry)
  /\ DOMAIN partials \subseteq Sequences \X Keys
  /\ \A k \in DOMAIN partials :
       /\ partials[k] \in [step : Nat \ {0}, first : Nat]
       /\ partials[k].step < Len(RuleDefs[k[1]].steps)

(* Runs of events that satisfy the first m steps of a rule, in order.      *)
Runs(rule, key, m) ==
  {at \in [1..m -> 1..Len(log)] :
     /\ \A j \in 1..m : /\ Matches(rule.steps[j], log[at[j]].ev)
                        /\ ScopeKey(rule, log[at[j]].ev) = key
     /\ \A j \in 1..(m - 1) : at[j] < at[j + 1]}

(* A match in flight stands for events that were seen.                     *)
Grounded ==
  \A k \in DOMAIN partials :
    \E at \in Runs(RuleDefs[k[1]], k[2], partials[k].step) :
      log[at[1]].ev.ts = partials[k].first

(* The event f is a first step, and nothing in its scope has repeated it   *)
(* or come too late for it.                                                *)
Clean(rule, key, f) ==
  /\ \A s \in 2..Len(rule.steps) : rule.steps[s] \cap rule.steps[1] = {}
  /\ Matches(rule.steps[1], log[f].ev) /\ ScopeKey(rule, log[f].ev) = key
  /\ \A j \in (f + 1)..Len(log) :
       ScopeKey(rule, log[j].ev) = key =>
         /\ ~Matches(rule.steps[1], log[j].ev)
         /\ log[j].ev.ts - log[f].ev.ts <= rule.within

(* The match in flight began at f, and no run from f is longer.            *)
Leads(i, key, f) ==
  /\ <<i, key>> \in DOMAIN partials
  /\ partials[<<i, key>>].first = log[f].ev.ts
  /\ \A m \in 1..Len(RuleDefs[i].steps) : \A at \in Runs(RuleDefs[i], key, m) :
       at[1] = f => m <= partials[<<i, key>>].step

Ahead ==
  \A i \in Sequences, key \in Keys : \A f \in 1..Len(log) :
    cut[key] < f /\ Clean(RuleDefs[i], key, f) => FiredIn(f, Len(log), i, key) \/ Leads(i, key, f)

RInv == RTypes /\ Grounded /\ Ahead /\ SequenceSound

-----------------------------------------------------------------------------
(* Facts about the definitions. *)

(* Every element of a sequence is of its type.                             *)
LEMMA Elements ==
  ASSUME NEW T, NEW s \in Seq(T), NEW i \in 1..Len(s)
  PROVE  s[i] \in T
  BY SMTT(30)

(* A rule that was loaded has steps.                                       *)
LEMMA Loaded ==
  ASSUME NEW i \in Sequences
  PROVE  /\ i \in Nat /\ RuleDefs[i] \in Rule
         /\ RuleDefs[i].steps \in Seq(SUBSET Kinds)
         /\ Len(RuleDefs[i].steps) \in Nat \ {0}
         /\ RuleDefs[i].within \in Nat
<1>1. RuleDefs \in Seq(Rule) /\ i \in 1..Len(RuleDefs)
  BY RulesConstants DEF Sequences
<1>2. RuleDefs[i] \in Rule /\ i \in Nat
  BY SMTT(30), <1>1, Elements
<1>3. Len(RuleDefs[i].steps) > 0
  BY <1>1, RulesConstants
<1>4. RuleDefs[i].steps \in Seq(SUBSET Kinds) /\ RuleDefs[i].within \in Nat
  BY <1>2 DEF Rule
<1>5. Len(RuleDefs[i].steps) \in Nat
  BY SMTT(30), <1>4
<1> QED BY SMTT(30), <1>2, <1>3, <1>4, <1>5

(* An event belongs to one scope of a rule.                                *)
LEMMA Scoped ==
  ASSUME NEW rule, NEW ev \in RuleEvent
  PROVE  ScopeKey(rule, ev) \in Keys /\ ev.ts \in Nat
  BY RulesConstants DEF ScopeKey, RuleEvent

(* advance_sequence with no match in flight: the event begins one, or is   *)
(* nothing to the rule.                                                    *)
LEMMA AdvanceNone ==
  ASSUME NEW rule, NEW ev
  PROVE  LET out == Advance(rule, {}, ev)
         IN  \/ ~Matches(rule.steps[1], ev) /\ out = [left |-> {}, done |-> FALSE]
             \/ /\ Matches(rule.steps[1], ev) /\ Len(rule.steps) = 1
                /\ out = [left |-> {}, done |-> TRUE]
             \/ /\ Matches(rule.steps[1], ev) /\ Len(rule.steps) # 1
                /\ out = [left |-> {[step |-> 1, first |-> ev.ts]}, done |-> FALSE]
  BY DEF Advance

(* advance_sequence with a match in flight: it is advanced, or restarted by*)
(* the event, or left alone, or dropped because it expired.                *)
LEMMA AdvanceOne ==
  ASSUME NEW rule, NEW ev, NEW p \in [step : Nat \ {0}, first : Nat],
         Len(rule.steps) \in Nat, p.step < Len(rule.steps)
  PROVE  LET out == Advance(rule, {p}, ev)
             goes == ~Stale(p, rule, ev.ts) /\ Matches(rule.steps[p.step + 1], ev)
         IN  \/ /\ goes /\ p.step + 1 < Len(rule.steps)
                /\ out = [left |-> {[step |-> p.step + 1, first |-> p.first]}, done |-> FALSE]
             \/ /\ goes /\ p.step + 1 = Len(rule.steps)
                /\ out = [left |-> {}, done |-> TRUE]
             \/ /\ ~goes /\ Matches(rule.steps[1], ev)
                /\ out = [left |-> {[step |-> 1, first |-> ev.ts]}, done |-> FALSE]
             \/ /\ ~goes /\ ~Matches(rule.steps[1], ev) /\ ~Stale(p, rule, ev.ts)
                /\ out = [left |-> {p}, done |-> FALSE]
             \/ /\ ~goes /\ ~Matches(rule.steps[1], ev) /\ Stale(p, rule, ev.ts)
                /\ out = [left |-> {}, done |-> FALSE]
<1> DEFINE alive == {q \in {p} : ~Stale(q, rule, ev.ts)}
           next == {q \in alive : Matches(rule.steps[q.step + 1], ev)}
           moved == {[q EXCEPT !.step = @ + 1] : q \in next}
           n == Len(rule.steps)
           q1 == [p EXCEPT !.step = @ + 1]
<1>1. q1 = [step |-> p.step + 1, first |-> p.first] /\ q1.step = p.step + 1
  BY SMTT(30)
<1>2. CASE ~Stale(p, rule, ev.ts) /\ Matches(rule.steps[p.step + 1], ev)
  <2>1. next = {p}
    BY <1>2
  <2>2. moved = {q1}
    BY <2>1
  <2>3. Advance(rule, {p}, ev) =
          [left |-> {q \in moved : q.step < n}, done |-> \E q \in moved : q.step = n]
    BY <2>1 DEF Advance
  <2> HIDE DEF q1, moved, next, alive, n
  <2>4. CASE p.step + 1 < n
    <3>1. q1.step < n /\ q1.step # n
      BY SMTT(30), <1>1, <2>4 DEF n
    <3>2. {q \in moved : q.step < n} = {q1} /\ ~\E q \in moved : q.step = n
      BY <2>2, <3>1, Zenon
    <3>3. Advance(rule, {p}, ev) = [left |-> {q1}, done |-> FALSE]
      BY <2>3, <3>2
    <3> QED BY <1>1, <1>2, <2>4, <3>3 DEF n
  <2>5. CASE p.step + 1 = n
    <3>1. ~(q1.step < n) /\ q1.step = n
      BY SMTT(30), <1>1, <2>5 DEF n
    <3>2. {q \in moved : q.step < n} = {} /\ \E q \in moved : q.step = n
      BY <2>2, <3>1, Zenon
    <3>3. Advance(rule, {p}, ev) = [left |-> {}, done |-> TRUE]
      BY <2>3, <3>2
    <3> QED BY <1>2, <2>5, <3>3 DEF n
  <2>6. p.step + 1 < n \/ p.step + 1 = n
    BY SMTT(30) DEF n
  <2> QED BY <2>4, <2>5, <2>6
<1>3. CASE ~(~Stale(p, rule, ev.ts) /\ Matches(rule.steps[p.step + 1], ev))
  <2>1. next = {}
    BY <1>3
  <2>2. n # 1
    <3> DEFINE k == p.step
    <3>1. k \in Nat /\ k # 0 /\ n \in Nat /\ k < n
      OBVIOUS
    <3> HIDE DEF k, n
    <3> QED BY SMTT(30), <3>1
  <2>3. Advance(rule, {p}, ev) =
          IF ~Matches(rule.steps[1], ev) THEN [left |-> alive, done |-> FALSE]
          ELSE [left |-> {[step |-> 1, first |-> ev.ts]}, done |-> FALSE]
    BY <2>1, <2>2 DEF Advance
  <2>4. alive = IF Stale(p, rule, ev.ts) THEN {} ELSE {p}
    OBVIOUS
  <2> HIDE DEF alive, next, moved, n, q1
  <2> QED BY <1>3, <2>3, <2>4
<1> QED BY <1>2, <1>3

-----------------------------------------------------------------------------
(* What one event does. *)

(* The log has the event at its end and is otherwise what it was.          *)
Grew(ev) ==
  /\ Len(log) \in Nat /\ Len(log') = Len(log) + 1
  /\ \A j \in 1..Len(log) : log'[j] = log[j]
  /\ log'[Len(log) + 1].ev = ev

Signalled(i, key) == [rule |-> i, key |-> key] \in log'[Len(log) + 1].fired

(* on_event logs the event with the signals of the rules that are done.    *)
LEMMA EventLogged ==
  ASSUME RTypes, NEW ev \in RuleEvent, OnRules(ev)
  PROVE  /\ log' \in Seq(Entry) /\ Grew(ev)
         /\ \A i \in Sequences, key \in Keys :
              Signalled(i, key) <=> key = ScopeKey(RuleDefs[i], ev) /\ Outcome(i, ev).done
<1> DEFINE single == {[rule |-> i, key |-> ev.proc] :
                        i \in {j \in 1..Len(RuleDefs) \ Sequences : Matches(RuleDefs[j].steps[1], ev)}}
           done == {[rule |-> i, key |-> ScopeKey(RuleDefs[i], ev)] :
                      i \in {j \in Sequences : Outcome(j, ev).done}}
           e == [ev |-> ev, fired |-> single \cup done]
<1>1. log' = Append(log, e)
  BY DEF OnRules, Sequences
<1>2. single \in SUBSET [rule : Nat, key : Keys]
  <2>1. ev.proc \in Keys
    BY DEF RuleEvent
  <2>2. \A i \in 1..Len(RuleDefs) : i \in Nat
    BY SMTT(30), RulesConstants
  <2> QED BY SMTT(30), <2>1, <2>2
<1>3. done \in SUBSET [rule : Nat, key : Keys]
  BY SMTT(30), Loaded, Scoped
<1>4. e \in Entry
  BY <1>2, <1>3 DEF Entry
<1>5. \A i \in Sequences, key \in Keys :
        [rule |-> i, key |-> key] \in single \cup done <=>
          key = ScopeKey(RuleDefs[i], ev) /\ Outcome(i, ev).done
  <2> SUFFICES ASSUME NEW i \in Sequences, NEW key \in Keys
               PROVE  [rule |-> i, key |-> key] \in single \cup done <=>
                        key = ScopeKey(RuleDefs[i], ev) /\ Outcome(i, ev).done
    OBVIOUS
  <2>1. [rule |-> i, key |-> key] \notin single
    OBVIOUS
  <2>2. [rule |-> i, key |-> key] \in done <=>
          \E j \in Sequences : /\ Outcome(j, ev).done
                               /\ [rule |-> i, key |-> key]
                                    = [rule |-> j, key |-> ScopeKey(RuleDefs[j], ev)]
    BY Zenon
  <2>3. \A j : [rule |-> i, key |-> key] = [rule |-> j, key |-> ScopeKey(RuleDefs[j], ev)]
                 <=> i = j /\ key = ScopeKey(RuleDefs[j], ev)
    OBVIOUS
  <2> QED BY <2>1, <2>2, <2>3, Zenon
<1> HIDE DEF single, done
<1>6. log \in Seq(Entry)
  BY DEF RTypes
<1>7. /\ log' \in Seq(Entry) /\ Len(log) \in Nat /\ Len(log') = Len(log) + 1
      /\ \A j \in 1..Len(log) : log'[j] = log[j]
      /\ log'[Len(log) + 1] = e
  <2> HIDE DEF e
  <2> QED BY SMTT(30), <1>1, <1>4, <1>6
<1>8. log'[Len(log) + 1].ev = ev /\ log'[Len(log) + 1].fired = single \cup done
  BY SMTT(30), <1>7
<1> QED BY <1>5, <1>7, <1>8 DEF Grew, Signalled

(* on_event replaces the match in flight in the event's scope, and touches *)
(* no other.                                                               *)
LEMMA SlotsWritten ==
  ASSUME RTypes, NEW ev \in RuleEvent, OnRules(ev), NEW i \in Sequences
  PROVE  LET key == ScopeKey(RuleDefs[i], ev)
             left == Outcome(i, ev).left
         IN  /\ left = {} => <<i, key>> \notin DOMAIN partials'
             /\ \A q : left = {q} => /\ <<i, key>> \in DOMAIN partials'
                                     /\ partials'[<<i, key>>] = q
             /\ \A other \in Keys : other # key =>
                  /\ <<i, other>> \in DOMAIN partials' <=> <<i, other>> \in DOMAIN partials
                  /\ <<i, other>> \in DOMAIN partials =>
                       partials'[<<i, other>>] = partials[<<i, other>>]
<1> DEFINE slot(j) == <<j, ScopeKey(RuleDefs[j], ev)>>
           kept == {k \in DOMAIN partials : \A j \in Sequences : k # slot(j)}
           set == {j \in Sequences : Outcome(j, ev).left # {}}
           dom == kept \cup {slot(j) : j \in set}
           key == ScopeKey(RuleDefs[i], ev)
           left == Outcome(i, ev).left
<1>1. partials' = [k \in dom |-> IF k \in kept THEN partials[k]
                                 ELSE CHOOSE p \in Outcome(k[1], ev).left : TRUE]
  BY DEF OnRules, Sequences
<1>2. DOMAIN partials' = dom
  BY <1>1
<1>3. /\ slot(i) \notin kept
      /\ slot(i) \in dom <=> left # {}
  BY Zenon
<1>4. ASSUME NEW q, left = {q}
      PROVE  slot(i) \in dom /\ partials'[slot(i)] = q
  <2>1. slot(i) \in dom
    BY <1>3, <1>4, Zenon
  <2>2. partials'[slot(i)] = CHOOSE p \in Outcome(slot(i)[1], ev).left : TRUE
    BY <1>1, <1>3, <2>1
  <2>3. Outcome(slot(i)[1], ev).left = {q}
    BY <1>4
  <2>4. (CHOOSE p \in {q} : TRUE) = q
    OBVIOUS
  <2> QED BY <2>1, <2>2, <2>3, <2>4
<1>5. ASSUME NEW other \in Keys, other # key
      PROVE  /\ <<i, other>> \in dom <=> <<i, other>> \in DOMAIN partials
             /\ <<i, other>> \in DOMAIN partials =>
                  partials'[<<i, other>>] = partials[<<i, other>>]
  <2>1. \A j : <<i, other>> # slot(j)
    <3> SUFFICES ASSUME NEW j, <<i, other>> = slot(j) PROVE FALSE
      OBVIOUS
    <3>1. i = j /\ other = ScopeKey(RuleDefs[j], ev)
      OBVIOUS
    <3> QED BY <3>1, <1>5
  <2>2. /\ <<i, other>> \in kept <=> <<i, other>> \in DOMAIN partials
        /\ <<i, other>> \in dom <=> <<i, other>> \in kept
    BY <2>1, Zenon
  <2> HIDE DEF slot, kept, dom
  <2> QED BY <1>1, <2>2
<1> QED BY <1>2, <1>3, <1>4, <1>5

(* What an event does to the match a rule has in flight in the event's     *)
(* scope, case by case.                                                    *)
Goes(i, k, ev) ==
  /\ k \in DOMAIN partials
  /\ ~Stale(partials[k], RuleDefs[i], ev.ts)
  /\ Matches(RuleDefs[i].steps[partials[k].step + 1], ev)

Begins(i, k, ev) ==
  /\ Matches(RuleDefs[i].steps[1], ev) /\ ~Goes(i, k, ev) /\ Len(RuleDefs[i].steps) # 1
  /\ k \in DOMAIN partials' /\ partials'[k] = [step |-> 1, first |-> ev.ts]

FiresAlone(i, k, ev) ==
  /\ Matches(RuleDefs[i].steps[1], ev) /\ Len(RuleDefs[i].steps) = 1
  /\ k \notin DOMAIN partials'

MovesOn(i, k, ev) ==
  /\ Goes(i, k, ev) /\ partials[k].step + 1 < Len(RuleDefs[i].steps)
  /\ k \in DOMAIN partials'
  /\ partials'[k] = [step |-> partials[k].step + 1, first |-> partials[k].first]

Completes(i, k, ev) ==
  /\ Goes(i, k, ev) /\ partials[k].step + 1 = Len(RuleDefs[i].steps)
  /\ k \notin DOMAIN partials'

Stays(i, k, ev) ==
  /\ k \in DOMAIN partials /\ ~Goes(i, k, ev)
  /\ ~Matches(RuleDefs[i].steps[1], ev)
  /\ k \in DOMAIN partials' /\ partials'[k] = partials[k]

Idles(i, k, ev) ==
  /\ k \in DOMAIN partials => Stale(partials[k], RuleDefs[i], ev.ts)
  /\ ~Matches(RuleDefs[i].steps[1], ev)
  /\ k \notin DOMAIN partials'

(* A match that moved on keeps its first timestamp.                        *)
LEMMA MovedOn ==
  ASSUME NEW i, NEW k, NEW ev, MovesOn(i, k, ev)
  PROVE  /\ k \in DOMAIN partials' /\ partials'[k].step = partials[k].step + 1
         /\ partials'[k].first = partials[k].first
  BY SMTT(30) DEF MovesOn

(* feed() does one of these to the slot of a rule in the event's scope, and*)
(* signals in two of them.                                                 *)
LEMMA SlotCases ==
  ASSUME RTypes, NEW ev \in RuleEvent, OnRules(ev), NEW i \in Sequences
  PROVE  LET key == ScopeKey(RuleDefs[i], ev)
             k == <<i, key>>
         IN  \/ ~Signalled(i, key) /\ Begins(i, k, ev)
             \/ Signalled(i, key) /\ FiresAlone(i, k, ev)
             \/ ~Signalled(i, key) /\ MovesOn(i, k, ev)
             \/ Signalled(i, key) /\ Completes(i, k, ev)
             \/ ~Signalled(i, key) /\ Stays(i, k, ev)
             \/ ~Signalled(i, key) /\ Idles(i, k, ev)
<1> DEFINE key == ScopeKey(RuleDefs[i], ev)
           k == <<i, key>>
           rule == RuleDefs[i]
           out == Outcome(i, ev)
<1>1. Len(rule.steps) \in Nat \ {0}
  BY Loaded
<1>2. key \in Keys
  BY Scoped
<1>3. Signalled(i, key) <=> out.done
  BY <1>2, EventLogged
<1>4. /\ out.left = {} => k \notin DOMAIN partials'
      /\ \A q : out.left = {q} => k \in DOMAIN partials' /\ partials'[k] = q
  BY SlotsWritten
<1>5. CASE k \notin DOMAIN partials
  <2>1. out = Advance(rule, {}, ev)
    BY <1>5 DEF Outcome, InFlight
  <2>2. ~Goes(i, k, ev)
    BY <1>5 DEF Goes
  <2>3. \/ ~Matches(rule.steps[1], ev) /\ out = [left |-> {}, done |-> FALSE]
        \/ /\ Matches(rule.steps[1], ev) /\ Len(rule.steps) = 1
           /\ out = [left |-> {}, done |-> TRUE]
        \/ /\ Matches(rule.steps[1], ev) /\ Len(rule.steps) # 1
           /\ out = [left |-> {[step |-> 1, first |-> ev.ts]}, done |-> FALSE]
    BY <2>1, AdvanceNone
  <2> HIDE DEF out, key, k, rule
  <2>4. \/ ~Matches(rule.steps[1], ev) /\ out.left = {} /\ ~out.done
        \/ /\ Matches(rule.steps[1], ev) /\ Len(rule.steps) = 1
           /\ out.left = {} /\ out.done
        \/ /\ Matches(rule.steps[1], ev) /\ Len(rule.steps) # 1
           /\ out.left = {[step |-> 1, first |-> ev.ts]} /\ ~out.done
    BY SMTT(30), <2>3
  <2>5. \/ ~Signalled(i, key) /\ Begins(i, k, ev)
        \/ Signalled(i, key) /\ FiresAlone(i, k, ev)
        \/ ~Signalled(i, key) /\ Idles(i, k, ev)
    BY <1>3, <1>4, <1>5, <2>2, <2>4, Zenon DEF Begins, FiresAlone, Idles, rule
  <2> QED BY <2>5, Zenon DEF key, k
<1>6. CASE k \in DOMAIN partials
  <2> DEFINE p == partials[k]
             goes == ~Stale(p, rule, ev.ts) /\ Matches(rule.steps[p.step + 1], ev)
  <2>1. out = Advance(rule, {p}, ev)
    BY <1>6 DEF Outcome, InFlight
  <2>2. Goes(i, k, ev) <=> goes
    BY <1>6 DEF Goes
  <2>3. p \in [step : Nat \ {0}, first : Nat] /\ p.step < Len(rule.steps)
    <3>1. k[1] = i
      OBVIOUS
    <3> QED BY <1>6, <3>1 DEF RTypes
  <2>4. Len(rule.steps) # 1
    <3> DEFINE a == p.step
               n == Len(rule.steps)
    <3>1. a \in Nat /\ a # 0 /\ n \in Nat /\ a < n
      BY <1>1, <2>3
    <3> HIDE DEF a, n
    <3>2. n # 1
      BY SMTT(30), <3>1
    <3> QED BY <3>2 DEF n
  <2> HIDE DEF out, key, k, rule, p
  <2>5. \/ /\ goes /\ p.step + 1 < Len(rule.steps)
           /\ out = [left |-> {[step |-> p.step + 1, first |-> p.first]}, done |-> FALSE]
        \/ /\ goes /\ p.step + 1 = Len(rule.steps)
           /\ out = [left |-> {}, done |-> TRUE]
        \/ /\ ~goes /\ Matches(rule.steps[1], ev)
           /\ out = [left |-> {[step |-> 1, first |-> ev.ts]}, done |-> FALSE]
        \/ /\ ~goes /\ ~Matches(rule.steps[1], ev) /\ ~Stale(p, rule, ev.ts)
           /\ out = [left |-> {p}, done |-> FALSE]
        \/ /\ ~goes /\ ~Matches(rule.steps[1], ev) /\ Stale(p, rule, ev.ts)
           /\ out = [left |-> {}, done |-> FALSE]
    BY <1>1, <2>1, <2>3, AdvanceOne
  <2> HIDE DEF goes
  <2>6. \/ /\ goes /\ p.step + 1 < Len(rule.steps)
           /\ out.left = {[step |-> p.step + 1, first |-> p.first]} /\ ~out.done
        \/ /\ goes /\ p.step + 1 = Len(rule.steps)
           /\ out.left = {} /\ out.done
        \/ /\ ~goes /\ Matches(rule.steps[1], ev)
           /\ out.left = {[step |-> 1, first |-> ev.ts]} /\ ~out.done
        \/ /\ ~goes /\ ~Matches(rule.steps[1], ev)
           /\ out.left = {p} /\ ~out.done
        \/ /\ ~Matches(rule.steps[1], ev) /\ Stale(p, rule, ev.ts)
           /\ out.left = {} /\ ~out.done
    BY SMTT(30), <2>5
  <2>7. \/ ~Signalled(i, key) /\ Begins(i, k, ev)
        \/ ~Signalled(i, key) /\ MovesOn(i, k, ev)
        \/ Signalled(i, key) /\ Completes(i, k, ev)
        \/ ~Signalled(i, key) /\ Stays(i, k, ev)
        \/ ~Signalled(i, key) /\ Idles(i, k, ev)
    BY <1>3, <1>4, <1>6, <2>2, <2>4, <2>6, Zenon
       DEF Begins, MovesOn, Completes, Stays, Idles, rule, p
  <2> QED BY <2>7, Zenon DEF key, k
<1> QED BY <1>5, <1>6

-----------------------------------------------------------------------------
(* Runs of steps as the log grows. *)

(* A run stays one.                                                        *)
LEMMA RunKept ==
  ASSUME NEW ev, Grew(ev), NEW rule, NEW key, NEW m \in Nat, NEW at \in Runs(rule, key, m)
  PROVE  at \in Runs(rule, key, m)'
<1>1. /\ at \in [1..m -> 1..Len(log)]
      /\ \A j \in 1..m : /\ Matches(rule.steps[j], log[at[j]].ev)
                         /\ ScopeKey(rule, log[at[j]].ev) = key
      /\ \A j \in 1..(m - 1) : at[j] < at[j + 1]
  BY DEF Runs
<1>2. at \in [1..m -> 1..Len(log')]
  BY SMTT(30), <1>1 DEF Grew
<1>3. \A j \in 1..m : log'[at[j]] = log[at[j]]
  BY <1>1 DEF Grew
<1>4. \A j \in 1..m : /\ Matches(rule.steps[j], log'[at[j]].ev)
                      /\ ScopeKey(rule, log'[at[j]].ev) = key
  BY <1>1, <1>3
<1> QED BY <1>1, <1>2, <1>4 DEF Runs

(* A run to the match's step is one longer if the event satisfies the next *)
(* step.                                                                   *)
LEMMA RunExtended ==
  ASSUME NEW ev, Grew(ev), NEW rule, NEW m \in Nat,
         NEW at \in Runs(rule, ScopeKey(rule, ev), m), Matches(rule.steps[m + 1], ev)
  PROVE  LET more == [j \in 1..(m + 1) |-> IF j <= m THEN at[j] ELSE Len(log) + 1]
         IN  /\ more \in Runs(rule, ScopeKey(rule, ev), m + 1)'
             /\ more[m + 1] = Len(log')
             /\ m > 0 => more[1] = at[1]
<1> DEFINE key == ScopeKey(rule, ev)
           more == [j \in 1..(m + 1) |-> IF j <= m THEN at[j] ELSE Len(log) + 1]
<1>1. /\ at \in [1..m -> 1..Len(log)]
      /\ \A j \in 1..m : /\ Matches(rule.steps[j], log[at[j]].ev)
                         /\ ScopeKey(rule, log[at[j]].ev) = key
      /\ \A j \in 1..(m - 1) : at[j] < at[j + 1]
  BY DEF Runs
<1>2. /\ \A j \in 1..m : more[j] = at[j]
      /\ more[m + 1] = Len(log) + 1 /\ Len(log') = Len(log) + 1 /\ Len(log) \in Nat
  BY SMTT(30) DEF Grew
<1>3. more \in [1..(m + 1) -> 1..Len(log')]
  BY SMTT(30), <1>1, <1>2
<1> HIDE DEF more, key
<1>4. \A j \in 1..m : log'[at[j]] = log[at[j]]
  BY <1>1 DEF Grew
<1>5. \A j \in 1..(m + 1) : /\ Matches(rule.steps[j], log'[more[j]].ev)
                            /\ ScopeKey(rule, log'[more[j]].ev) = key
  <2> SUFFICES ASSUME NEW j \in 1..(m + 1)
               PROVE  /\ Matches(rule.steps[j], log'[more[j]].ev)
                      /\ ScopeKey(rule, log'[more[j]].ev) = key
    OBVIOUS
  <2>1. CASE j = m + 1
    BY <2>1, <1>2 DEF Grew, key
  <2>2. CASE j # m + 1
    <3>1. j \in 1..m
      BY SMTT(30), <2>2
    <3> QED BY <3>1, <1>1, <1>2, <1>4
  <2> QED BY <2>1, <2>2
<1>6. \A j \in 1..(m + 1 - 1) : more[j] < more[j + 1]
  <2> SUFFICES ASSUME NEW j \in 1..m PROVE more[j] < more[j + 1]
    BY SMTT(30)
  <2>1. more[j] = at[j] /\ at[j] \in 1..Len(log)
    BY <1>1, <1>2
  <2>2. CASE j = m
    BY SMTT(30), <2>1, <2>2, <1>2
  <2>3. CASE j # m
    <3>1. j \in 1..(m - 1) /\ j + 1 \in 1..m
      BY SMTT(30), <2>3
    <3> QED BY <3>1, <2>1, <1>1, <1>2
  <2> QED BY <2>2, <2>3
<1>7. more \in Runs(rule, key, m + 1)'
  <2>1. Runs(rule, key, m + 1)' =
          {q \in [1..(m + 1) -> 1..Len(log')] :
             /\ \A j \in 1..(m + 1) : /\ Matches(rule.steps[j], log'[q[j]].ev)
                                     /\ ScopeKey(rule, log'[q[j]].ev) = key
             /\ \A j \in 1..(m + 1 - 1) : q[j] < q[j + 1]}
    BY SMTT(30) DEF Runs
  <2> QED
    BY <1>3, <1>5, <1>6, <2>1
<1>8. m > 0 => more[1] = at[1]
  BY SMTT(30), <1>2
<1> QED BY <1>2, <1>7, <1>8 DEF more, key

(* The event alone is a run of one step if it satisfies the first.         *)
LEMMA RunBegun ==
  ASSUME NEW ev, Grew(ev), NEW rule, Matches(rule.steps[1], ev)
  PROVE  [j \in 1..1 |-> Len(log) + 1] \in Runs(rule, ScopeKey(rule, ev), 1)'
<1> DEFINE at == [j \in 1..1 |-> Len(log) + 1]
<1>1. \A j \in 1..1 : j = 1 /\ at[j] = Len(log) + 1
  BY SMTT(30)
<1>2. at \in [1..1 -> 1..Len(log')]
  BY SMTT(30) DEF Grew
<1>3. 1..(1 - 1) = {}
  BY SMTT(30)
<1> HIDE DEF at
<1>4. \A j \in 1..1 : /\ Matches(rule.steps[j], log'[at[j]].ev)
                      /\ ScopeKey(rule, log'[at[j]].ev) = ScopeKey(rule, ev)
  BY <1>1 DEF Grew
<1>5. at \in Runs(rule, ScopeKey(rule, ev), 1)'
  BY <1>2, <1>3, <1>4 DEF Runs
<1> QED BY <1>5 DEF at

(* All of a run but its last event was there before the event.             *)
LEMMA RunCut ==
  ASSUME NEW ev, Grew(ev), NEW rule, NEW key, NEW m \in Nat, m > 1,
         NEW at \in Runs(rule, key, m)'
  PROVE  /\ [j \in 1..(m - 1) |-> at[j]] \in Runs(rule, key, m - 1)
         /\ [j \in 1..(m - 1) |-> at[j]][1] = at[1]
<1> DEFINE less == [j \in 1..(m - 1) |-> at[j]]
<1>1. /\ at \in [1..m -> 1..Len(log')]
      /\ \A j \in 1..m : /\ Matches(rule.steps[j], log'[at[j]].ev)
                         /\ ScopeKey(rule, log'[at[j]].ev) = key
      /\ \A j \in 1..(m - 1) : at[j] < at[j + 1]
  BY DEF Runs
<1>2. Len(log) \in Nat /\ Len(log') = Len(log) + 1
  BY DEF Grew
<1>3. \A j \in 1..(m - 1) : j \in 1..m /\ j + 1 \in 1..m
  BY SMTT(30)
<1>4. \A j \in 1..(m - 1) : at[j] \in 1..Len(log)
  <2> SUFFICES ASSUME NEW j \in 1..(m - 1) PROVE at[j] \in 1..Len(log)
    OBVIOUS
  <2>1. at[j] \in 1..Len(log') /\ at[j + 1] \in 1..Len(log') /\ at[j] < at[j + 1]
    BY <1>1, <1>3
  <2> QED BY SMTT(30), <1>2, <2>1
<1>5. \A j \in 1..(m - 1) : less[j] = at[j] /\ log'[at[j]] = log[at[j]]
  BY <1>4 DEF Grew
<1>6. less \in [1..(m - 1) -> 1..Len(log)]
  BY <1>4
<1>7. 1 \in 1..(m - 1)
  BY SMTT(30)
<1> HIDE DEF less
<1>8. \A j \in 1..(m - 1) : /\ Matches(rule.steps[j], log[less[j]].ev)
                            /\ ScopeKey(rule, log[less[j]].ev) = key
  BY <1>1, <1>3, <1>5
<1>9. \A j \in 1..(m - 1 - 1) : less[j] < less[j + 1]
  <2>1. \A j \in 1..(m - 1 - 1) : j \in 1..(m - 1) /\ j + 1 \in 1..(m - 1)
    BY SMTT(30)
  <2> QED BY <2>1, <1>1, <1>5
<1>10. less \in Runs(rule, key, m - 1)
  BY <1>6, <1>8, <1>9 DEF Runs
<1> QED BY <1>5, <1>7, <1>10 DEF less

(* A run that does not end with the event was there before it.             *)
LEMMA RunOld ==
  ASSUME NEW ev, Grew(ev), NEW rule, NEW key, NEW m \in Nat, m > 0,
         NEW at \in Runs(rule, key, m)', at[m] # Len(log')
  PROVE  at \in Runs(rule, key, m)
<1>1. /\ at \in [1..m -> 1..Len(log')]
      /\ \A j \in 1..m : /\ Matches(rule.steps[j], log'[at[j]].ev)
                         /\ ScopeKey(rule, log'[at[j]].ev) = key
      /\ \A j \in 1..(m - 1) : at[j] < at[j + 1]
  BY DEF Runs
<1>2. Len(log) \in Nat /\ Len(log') = Len(log) + 1
  BY DEF Grew
<1>3. \A j \in 1..m : at[j] \in 1..Len(log)
  <2> SUFFICES ASSUME NEW j \in 1..m PROVE at[j] \in 1..Len(log)
    OBVIOUS
  <2>1. at[j] \in 1..Len(log')
    BY <1>1
  <2>2. at[j] # Len(log')
    <3>1. CASE j = m
      BY <3>1
    <3>2. CASE j # m
      <4>1. j \in 1..(m - 1) /\ j + 1 \in 1..m
        BY SMTT(30), <3>2
      <4>2. at[j + 1] \in 1..Len(log') /\ at[j] < at[j + 1]
        BY <1>1, <4>1
      <4> QED BY SMTT(30), <1>2, <2>1, <4>2
    <3> QED BY <3>1, <3>2
  <2> QED BY SMTT(30), <1>2, <2>1, <2>2
<1>4. \A j \in 1..m : log'[at[j]] = log[at[j]]
  BY <1>3 DEF Grew
<1>5. at \in [1..m -> 1..Len(log)]
  BY <1>1, <1>3
<1>6. \A j \in 1..m : /\ Matches(rule.steps[j], log[at[j]].ev)
                      /\ ScopeKey(rule, log[at[j]].ev) = key
  BY <1>1, <1>4
<1> QED BY <1>1, <1>5, <1>6 DEF Runs

-----------------------------------------------------------------------------
(* Every event keeps the invariant. *)

(* After an event only sequence rules have a match in flight, each in a    *)
(* scope there is.                                                         *)
LEMMA FeedDomain ==
  ASSUME RTypes, NEW ev \in RuleEvent, OnRules(ev)
  PROVE  DOMAIN partials' \subseteq Sequences \X Keys
<1> DEFINE slot(j) == <<j, ScopeKey(RuleDefs[j], ev)>>
           kept == {k \in DOMAIN partials : \A j \in Sequences : k # slot(j)}
           set == {j \in Sequences : Outcome(j, ev).left # {}}
           dom == kept \cup {slot(j) : j \in set}
<1>1. DOMAIN partials' = dom
  BY DEF OnRules, Sequences
<1>2. kept \subseteq Sequences \X Keys
  BY DEF RTypes
<1>3. \A j \in set : slot(j) \in Sequences \X Keys
  BY Scoped
<1> HIDE DEF kept, set
<1> QED BY <1>1, <1>2, <1>3

(* The matches in flight after an event have their types.                  *)
LEMMA FeedTypes ==
  ASSUME RTypes, NEW ev \in RuleEvent, OnRules(ev)
  PROVE  RTypes'
<1>1. log' \in Seq(Entry)
  BY EventLogged
<1>2. DOMAIN partials' \subseteq Sequences \X Keys
  BY FeedDomain
<1>3. ASSUME NEW i \in Sequences, NEW key \in Keys, <<i, key>> \in DOMAIN partials'
      PROVE  /\ partials'[<<i, key>>] \in [step : Nat \ {0}, first : Nat]
             /\ partials'[<<i, key>>].step < Len(RuleDefs[i].steps)
  <2> DEFINE k == <<i, key>>
  <2>1. Len(RuleDefs[i].steps) \in Nat \ {0} /\ ev.ts \in Nat /\ k[1] = i
    BY Loaded, Scoped
  <2>2. k \in DOMAIN partials => /\ partials[k] \in [step : Nat \ {0}, first : Nat]
                                 /\ partials[k].step < Len(RuleDefs[i].steps)
    BY <2>1 DEF RTypes
  <2>3. CASE key # ScopeKey(RuleDefs[i], ev)
    <3>1. k \in DOMAIN partials /\ partials'[k] = partials[k]
      BY <1>3, <2>3, SlotsWritten
    <3> QED BY <2>2, <3>1
  <2>4. CASE key = ScopeKey(RuleDefs[i], ev)
    <3>1. \/ Begins(i, k, ev) \/ FiresAlone(i, k, ev) \/ MovesOn(i, k, ev)
          \/ Completes(i, k, ev) \/ Stays(i, k, ev) \/ Idles(i, k, ev)
      BY <2>4, SlotCases, Zenon
    <3> HIDE DEF k
    <3>2. \/ Begins(i, k, ev) \/ MovesOn(i, k, ev) \/ Stays(i, k, ev)
      BY <1>3, <3>1, Zenon DEF FiresAlone, Completes, Idles, k
    <3>3. CASE Begins(i, k, ev)
      <4> DEFINE n == Len(RuleDefs[i].steps)
      <4>1. partials'[k] = [step |-> 1, first |-> ev.ts] /\ n \in Nat /\ n # 0 /\ n # 1
        BY <2>1, <3>3 DEF Begins
      <4>2. partials'[k] \in [step : Nat \ {0}, first : Nat] /\ partials'[k].step = 1
        BY SMTT(30), <2>1, <4>1
      <4> HIDE DEF n
      <4>3. 1 < n
        BY SMTT(30), <4>1
      <4> QED BY <4>2, <4>3 DEF n, k
    <3>4. CASE MovesOn(i, k, ev)
      BY SMTT(30), <2>1, <2>2, <3>4 DEF MovesOn, Goes, k
    <3>5. CASE Stays(i, k, ev)
      BY <2>2, <3>5 DEF Stays, k
    <3> QED BY <3>2, <3>3, <3>4, <3>5
  <2> QED BY <2>3, <2>4
<1>4. ASSUME NEW k \in DOMAIN partials'
      PROVE  /\ partials'[k] \in [step : Nat \ {0}, first : Nat]
             /\ partials'[k].step < Len(RuleDefs[k[1]].steps)
  <2>1. PICK i \in Sequences, key \in Keys : k = <<i, key>>
    BY SMTT(30), <1>2
  <2> QED BY <1>3, <2>1
<1> QED BY <1>1, <1>2, <1>4 DEF RTypes

(* A match in flight after the event stands for events that were seen.     *)
LEMMA FeedGrounded ==
  ASSUME RTypes, Grounded, NEW ev \in RuleEvent, OnRules(ev)
  PROVE  Grounded'
<1>1. Grew(ev)
  BY EventLogged
<1>2. ASSUME NEW i \in Sequences, NEW key \in Keys, <<i, key>> \in DOMAIN partials'
      PROVE  \E at \in Runs(RuleDefs[i], key, partials[<<i, key>>].step)' :
               log'[at[1]].ev.ts = partials'[<<i, key>>].first
  <2> DEFINE k == <<i, key>>
             rule == RuleDefs[i]
  <2>1. k[1] = i /\ k[2] = key
    OBVIOUS
  <2>2. ASSUME k \in DOMAIN partials
        PROVE  \E m \in Nat \ {0} : \E at \in Runs(rule, key, m) :
                 /\ m = partials[k].step /\ log[at[1]].ev.ts = partials[k].first
                 /\ at[1] \in 1..Len(log) /\ log'[at[1]] = log[at[1]]
    <3>1. PICK m \in Nat \ {0} : m = partials[k].step
      BY <2>2 DEF RTypes
    <3>2. PICK at \in Runs(rule, key, m) : log[at[1]].ev.ts = partials[k].first
      BY <2>1, <2>2, <3>1 DEF Grounded
    <3>3. at[1] \in 1..Len(log)
      BY SMTT(30), <3>1 DEF Runs
    <3>4. log'[at[1]] = log[at[1]]
      BY <1>1, <3>3 DEF Grew
    <3> QED BY <3>1, <3>2, <3>3, <3>4
  <2>3. ASSUME k \in DOMAIN partials, partials'[k] = partials[k]
        PROVE  \E at \in Runs(rule, key, partials[k].step)' :
                 log'[at[1]].ev.ts = partials'[k].first
    <3>0. PICK m \in Nat \ {0} : \E at \in Runs(rule, key, m) :
            /\ m = partials[k].step /\ log[at[1]].ev.ts = partials[k].first
            /\ log'[at[1]] = log[at[1]]
      BY <2>2, <2>3
    <3>1. PICK at \in Runs(rule, key, m) :
            /\ m = partials[k].step /\ log[at[1]].ev.ts = partials[k].first
            /\ log'[at[1]] = log[at[1]]
      BY <3>0
    <3>2. at \in Runs(rule, key, m)'
      BY <1>1, RunKept
    <3>3. m = partials'[k].step
      BY <2>3, <3>1
    <3>4. log'[at[1]].ev.ts = partials'[k].first
      BY <2>3, <3>1
    <3> QED BY <3>2, <3>3, <3>4
  <2>4. CASE key # ScopeKey(rule, ev)
    <3>1. k \in DOMAIN partials /\ partials'[k] = partials[k]
      BY <1>2, <2>4, SlotsWritten
    <3> QED BY <2>3, <3>1
  <2>5. CASE key = ScopeKey(rule, ev)
    <3>1. \/ Begins(i, k, ev) \/ FiresAlone(i, k, ev) \/ MovesOn(i, k, ev)
          \/ Completes(i, k, ev) \/ Stays(i, k, ev) \/ Idles(i, k, ev)
      BY <2>5, SlotCases, Zenon
    <3>2. \/ Begins(i, k, ev) \/ MovesOn(i, k, ev) \/ Stays(i, k, ev)
      <4> HIDE DEF k
      <4> QED BY <1>2, <3>1, Zenon DEF FiresAlone, Completes, Idles, k
    <3>3. CASE Begins(i, k, ev)
      <4> DEFINE at == [j \in 1..1 |-> Len(log) + 1]
      <4>1. partials'[k].step = 1 /\ partials'[k].first = ev.ts
        BY SMTT(30), <3>3 DEF Begins
      <4>2. at \in Runs(rule, key, 1)'
        BY <1>1, <2>5, <3>3, RunBegun DEF Begins
      <4>3. log'[at[1]].ev.ts = ev.ts
        BY SMTT(30), <1>1 DEF Grew
      <4> HIDE DEF at
      <4> QED BY <4>1, <4>2, <4>3
    <3>4. CASE MovesOn(i, k, ev)
      <4>1. k \in DOMAIN partials /\ Matches(rule.steps[partials[k].step + 1], ev)
        BY <3>4 DEF MovesOn, Goes
      <4>0. PICK m \in Nat \ {0} : \E at \in Runs(rule, key, m) :
              /\ m = partials[k].step /\ log[at[1]].ev.ts = partials[k].first
              /\ log'[at[1]] = log[at[1]]
        BY <2>2, <4>1
      <4>2. PICK at \in Runs(rule, key, m) :
              /\ m = partials[k].step /\ log[at[1]].ev.ts = partials[k].first
              /\ log'[at[1]] = log[at[1]]
        BY <4>0
      <4> DEFINE more == [j \in 1..(m + 1) |-> IF j <= m THEN at[j] ELSE Len(log) + 1]
      <4>3. Matches(rule.steps[m + 1], ev) /\ m \in Nat /\ m > 0
        BY SMTT(30), <4>1, <4>2
      <4>4. more \in Runs(rule, key, m + 1)' /\ more[1] = at[1]
        BY SMTT(30), <1>1, <2>5, <4>3, RunExtended
      <4> HIDE DEF more
      <4>5. partials'[k].step = m + 1 /\ partials'[k].first = partials[k].first
        BY SMTT(30), <3>4, <4>2 DEF MovesOn
      <4>6. log'[more[1]].ev.ts = partials'[k].first
        BY <4>2, <4>4, <4>5
      <4> QED BY <4>4, <4>5, <4>6
    <3>5. CASE Stays(i, k, ev)
      BY <2>3, <3>5 DEF Stays
    <3> QED BY <3>2, <3>3, <3>4, <3>5
  <2> QED BY <2>4, <2>5
<1>3. ASSUME NEW k \in DOMAIN partials'
      PROVE  \E at \in Runs(RuleDefs[k[1]], k[2], partials[k].step)' :
               log'[at[1]].ev.ts = partials'[k].first
  <2>1. PICK i \in Sequences, key \in Keys : k = <<i, key>>
    BY SMTT(30), FeedDomain
  <2>2. k[1] = i /\ k[2] = key
    BY <2>1
  <2> QED BY <1>2, <2>1, <2>2
<1> QED BY <1>3 DEF Grounded

(* The signals the event makes have their witnesses.                       *)
LEMMA FeedSound ==
  ASSUME RTypes, Grounded, NEW ev \in RuleEvent, OnRules(ev)
  PROVE  SequenceSound'
<1>1. Grew(ev)
  BY EventLogged
<1> SUFFICES ASSUME NEW i \in Sequences, NEW key \in Keys,
                    FiredIn(Len(log), Len(log), i, key)'
             PROVE  \E at \in Positions(RuleDefs[i])' : Witness(RuleDefs[i], key, at)'
  BY DEF SequenceSound
<1> DEFINE k == <<i, key>>
           rule == RuleDefs[i]
           n == Len(rule.steps)
<1>2. Signalled(i, key)
  <2>1. Len(log) \in Nat /\ Len(log') = Len(log) + 1
    BY <1>1 DEF Grew
  <2>2. PICK j \in Len(log')..Len(log') : [rule |-> i, key |-> key] \in log'[j].fired
    BY DEF FiredIn
  <2>3. j = Len(log) + 1
    BY SMTT(30), <2>1
  <2> QED BY <2>2, <2>3 DEF Signalled
<1>3. key = ScopeKey(rule, ev)
  BY <1>2, EventLogged
<1>4. FiresAlone(i, k, ev) \/ Completes(i, k, ev)
  BY <1>2, <1>3, SlotCases, Zenon
<1>5. n \in Nat \ {0} /\ rule.within \in Nat /\ ev.ts \in Nat
  BY Loaded, Scoped
<1>6. \A at \in Runs(rule, key, n)' :
        /\ at[n] = Len(log')
        /\ log'[at[n]].ev.ts - log'[at[1]].ev.ts <= rule.within
        => at \in Positions(rule)' /\ Witness(rule, key, at)'
  <2> HIDE DEF rule, n
  <2> QED BY Zenon DEF Runs, Positions, Witness, n
<1>7. CASE FiresAlone(i, k, ev)
  <2> DEFINE at == [j \in 1..1 |-> Len(log) + 1]
  <2>1. n = 1
    BY <1>7 DEF FiresAlone
  <2>2. at \in Runs(rule, key, 1)'
    BY <1>1, <1>3, <1>7, RunBegun DEF FiresAlone
  <2>3. at[1] = Len(log') /\ log'[at[1]].ev.ts = ev.ts
    BY SMTT(30), <1>1 DEF Grew
  <2> HIDE DEF at, n
  <2>4. log'[at[n]].ev.ts - log'[at[1]].ev.ts <= rule.within
    BY SMTT(30), <1>5, <2>1, <2>3
  <2> QED BY <1>6, <2>1, <2>2, <2>3, <2>4
<1>8. CASE Completes(i, k, ev)
  <2>1. /\ k \in DOMAIN partials /\ Matches(rule.steps[partials[k].step + 1], ev)
        /\ ~Stale(partials[k], rule, ev.ts) /\ partials[k].step + 1 = n
    BY <1>8 DEF Completes, Goes
  <2>2. PICK m \in Nat \ {0} : m = partials[k].step
    BY <2>1 DEF RTypes
  <2>3. PICK at \in Runs(rule, key, m) : log[at[1]].ev.ts = partials[k].first
    <3>1. k[1] = i /\ k[2] = key
      OBVIOUS
    <3> QED BY <2>1, <2>2, <3>1 DEF Grounded
  <2>4. at[1] \in 1..Len(log)
    BY SMTT(30), <2>2 DEF Runs
  <2>5. log'[at[1]] = log[at[1]]
    BY <1>1, <2>4 DEF Grew
  <2> DEFINE more == [j \in 1..(m + 1) |-> IF j <= m THEN at[j] ELSE Len(log) + 1]
  <2>6. Matches(rule.steps[m + 1], ev) /\ m \in Nat /\ m > 0 /\ n = m + 1
    BY SMTT(30), <2>1, <2>2
  <2>7. more \in Runs(rule, key, m + 1)' /\ more[m + 1] = Len(log') /\ more[1] = at[1]
    BY SMTT(30), <1>1, <1>3, <2>6, RunExtended
  <2> HIDE DEF more, n
  <2>8. log'[more[n]].ev.ts = ev.ts /\ log'[more[1]].ev.ts = partials[k].first
    BY <1>1, <2>3, <2>5, <2>6, <2>7 DEF Grew
  <2>9. ev.ts - partials[k].first <= rule.within
    <3>1. partials[k].first \in Nat
      BY <2>1 DEF RTypes
    <3>2. ~(ev.ts - partials[k].first > rule.within)
      BY <2>1 DEF Stale
    <3> QED BY SMTT(30), <1>5, <3>1, <3>2
  <2> QED BY <1>6, <2>6, <2>7, <2>8, <2>9
<1> QED BY <1>4, <1>7, <1>8

(* A first step that is clean in the longer log was clean before it, and   *)
(* the event is no first step and not too late for it.                     *)
LEMMA CleanBefore ==
  ASSUME NEW ev, Grew(ev), NEW rule, NEW key, NEW f \in 1..Len(log),
         Clean(rule, key, f)'
  PROVE  /\ Clean(rule, key, f)
         /\ log'[f] = log[f]
         /\ ScopeKey(rule, ev) = key => /\ ~Matches(rule.steps[1], ev)
                                        /\ ev.ts - log[f].ev.ts <= rule.within
<1>1. /\ Len(log) \in Nat /\ Len(log') = Len(log) + 1
      /\ \A j \in 1..Len(log) : log'[j] = log[j]
      /\ log'[Len(log) + 1].ev = ev
  BY DEF Grew
<1>2. \A j \in (f + 1)..Len(log) : j \in 1..Len(log) /\ j \in (f + 1)..Len(log')
  BY SMTT(30), <1>1
<1>3. Len(log) + 1 \in (f + 1)..Len(log')
  BY SMTT(30), <1>1
<1>4. /\ \A s \in 2..Len(rule.steps) : rule.steps[s] \cap rule.steps[1] = {}
      /\ Matches(rule.steps[1], log'[f].ev) /\ ScopeKey(rule, log'[f].ev) = key
      /\ \A j \in (f + 1)..Len(log') :
           ScopeKey(rule, log'[j].ev) = key =>
             /\ ~Matches(rule.steps[1], log'[j].ev)
             /\ log'[j].ev.ts - log'[f].ev.ts <= rule.within
  BY DEF Clean
<1>5. log'[f] = log[f]
  BY <1>1
<1>6. ScopeKey(rule, ev) = key => /\ ~Matches(rule.steps[1], ev)
                                  /\ ev.ts - log[f].ev.ts <= rule.within
  BY <1>1, <1>3, <1>4, <1>5
<1>7. \A j \in (f + 1)..Len(log) :
        ScopeKey(rule, log[j].ev) = key =>
          /\ ~Matches(rule.steps[1], log[j].ev)
          /\ log[j].ev.ts - log[f].ev.ts <= rule.within
  BY <1>1, <1>2, <1>4, <1>5
<1>8. Clean(rule, key, f)
  BY <1>4, <1>5, <1>7 DEF Clean
<1> QED BY <1>5, <1>6, <1>8

(* The event itself is a clean first step: it begins a match, or is the    *)
(* whole sequence.                                                         *)
LEMMA AheadNew ==
  ASSUME RTypes, NEW ev \in RuleEvent, OnRules(ev), NEW i \in Sequences, NEW key \in Keys,
         Clean(RuleDefs[i], key, Len(log))'
  PROVE  FiredIn(Len(log), Len(log), i, key)' \/ Leads(i, key, Len(log))'
<1> DEFINE k == <<i, key>>
           rule == RuleDefs[i]
           n == Len(rule.steps)
<1>1. Grew(ev) /\ Len(log) \in Nat /\ Len(log') = Len(log) + 1 /\ log'[Len(log')].ev = ev
  BY EventLogged DEF Grew
<1>2. /\ \A s \in 2..n : rule.steps[s] \cap rule.steps[1] = {}
      /\ Matches(rule.steps[1], ev) /\ key = ScopeKey(rule, ev)
  BY <1>1 DEF Clean
<1>3. n \in Nat \ {0}
  BY Loaded
<1>4. ~Goes(i, k, ev)
  <2> SUFFICES ASSUME Goes(i, k, ev) PROVE FALSE
    OBVIOUS
  <2>1. k \in DOMAIN partials /\ Matches(rule.steps[partials[k].step + 1], ev)
    BY DEF Goes
  <2>2. PICK m \in Nat \ {0} : m = partials[k].step
    BY <2>1 DEF RTypes
  <2>3. m < n
    <3>1. k[1] = i
      OBVIOUS
    <3> QED BY <2>1, <2>2, <3>1 DEF RTypes
  <2>4. m + 1 \in 2..n
    <3> HIDE DEF n
    <3> QED BY SMTT(30), <1>3, <2>3
  <2>5. ev.kind \in rule.steps[m + 1] /\ ev.kind \in rule.steps[1]
    BY <1>2, <2>1, <2>2 DEF Matches
  <2>6. rule.steps[m + 1] \cap rule.steps[1] = {}
    BY <1>2, <2>4
  <2> HIDE DEF rule
  <2> QED BY <2>5, <2>6
<1>5. \/ ~Signalled(i, key) /\ Begins(i, k, ev)
      \/ Signalled(i, key) /\ FiresAlone(i, k, ev)
  <2>1. \/ ~Signalled(i, key) /\ Begins(i, k, ev)
        \/ Signalled(i, key) /\ FiresAlone(i, k, ev)
        \/ MovesOn(i, k, ev) \/ Completes(i, k, ev)
        \/ Stays(i, k, ev) \/ Idles(i, k, ev)
    BY <1>2, SlotCases, Zenon
  <2> HIDE DEF k
  <2> QED BY <1>2, <1>4, <2>1, Zenon DEF MovesOn, Completes, Stays, Idles
<1>6. CASE Signalled(i, key)
  <2>1. [rule |-> i, key |-> key] \in log'[Len(log')].fired
    BY <1>1, <1>6 DEF Signalled
  <2>2. Len(log') \in Len(log')..Len(log')
    BY SMTT(30), <1>1
  <2> QED BY <2>1, <2>2 DEF FiredIn
<1>7. CASE Begins(i, k, ev)
  <2>1. /\ k \in DOMAIN partials' /\ partials'[k].step = 1
        /\ partials'[k].first = ev.ts
    BY SMTT(30), <1>7 DEF Begins
  <2>2. ASSUME NEW m \in 1..n, NEW at \in Runs(rule, key, m)', at[1] = Len(log')
        PROVE  m <= 1
    <3> SUFFICES ASSUME m > 1 PROVE FALSE
      BY SMTT(30), <1>3
    <3>1. 1 \in 1..(m - 1) /\ 2 \in 1..m
      BY SMTT(30)
    <3>2. at[1] < at[1 + 1] /\ at[2] \in 1..Len(log')
      <4>1. /\ at \in [1..m -> 1..Len(log')]
            /\ \A j \in 1..(m - 1) : at[j] < at[j + 1]
        BY DEF Runs
      <4> QED BY <3>1, <4>1
    <3> QED BY SMTT(30), <1>1, <2>2, <3>2
  <2>3. \A m \in 1..n : \A at \in Runs(rule, key, m)' :
          at[1] = Len(log') => m <= partials'[k].step
    BY <2>1, <2>2
  <2>4. partials'[k].first = log'[Len(log')].ev.ts
    BY <1>1, <2>1
  <2> QED BY <2>1, <2>3, <2>4 DEF Leads
<1> QED BY <1>5, <1>6, <1>7

(* The match that was ahead of every run stays so: it moves on with the    *)
(* event whenever some run does.                                           *)
LEMMA AheadOld ==
  ASSUME RTypes, NEW ev \in RuleEvent, OnRules(ev), NEW i \in Sequences, NEW key \in Keys,
         NEW f \in 1..Len(log), Clean(RuleDefs[i], key, f)', Leads(i, key, f)
  PROVE  Signalled(i, key) \/ Leads(i, key, f)'
<1> DEFINE k == <<i, key>>
           rule == RuleDefs[i]
           n == Len(rule.steps)
<1>1. Grew(ev) /\ Len(log) \in Nat /\ Len(log') = Len(log) + 1 /\ log'[Len(log')].ev = ev
  BY EventLogged DEF Grew
<1>2. k \in DOMAIN partials /\ partials[k].first = log[f].ev.ts
  BY DEF Leads
<1>3. PICK m0 \in Nat \ {0} : m0 = partials[k].step
  BY <1>2 DEF RTypes
<1>4. \A m \in 1..n : \A at \in Runs(rule, key, m) : at[1] = f => m <= m0
  BY <1>3 DEF Leads
<1>5. /\ log'[f] = log[f]
      /\ ScopeKey(rule, ev) = key => /\ ~Matches(rule.steps[1], ev)
                                     /\ ev.ts - log[f].ev.ts <= rule.within
  BY <1>1, CleanBefore
<1>6. n \in Nat \ {0} /\ rule.within \in Nat
  BY Loaded
<1>7. ASSUME NEW m \in 1..n, NEW at \in Runs(rule, key, m)', at[1] = f, m > m0
      PROVE  /\ m = m0 + 1 /\ ScopeKey(rule, ev) = key
             /\ Matches(rule.steps[m0 + 1], ev)
  <2>1. m \in Nat /\ m > 1
    BY SMTT(30), <1>3, <1>6, <1>7
  <2>2. at[m] = Len(log')
    <3> SUFFICES ASSUME at[m] # Len(log') PROVE FALSE
      OBVIOUS
    <3>1. at \in Runs(rule, key, m)
      BY SMTT(30), <1>1, <2>1, RunOld
    <3>2. m <= m0
      BY <1>4, <1>7, <3>1
    <3> QED BY SMTT(30), <1>3, <1>7, <2>1, <3>2
  <2>3. m \in 1..m /\ m - 1 \in 1..n
    BY SMTT(30), <1>6, <2>1
  <2>4. Matches(rule.steps[m], log'[at[m]].ev) /\ ScopeKey(rule, log'[at[m]].ev) = key
    BY <2>3 DEF Runs
  <2>5. Matches(rule.steps[m], ev) /\ ScopeKey(rule, ev) = key
    BY <1>1, <2>2, <2>4
  <2>6. PICK less \in Runs(rule, key, m - 1) : less[1] = f
    <3>1. /\ [j \in 1..(m - 1) |-> at[j]] \in Runs(rule, key, m - 1)
          /\ [j \in 1..(m - 1) |-> at[j]][1] = at[1]
      BY SMTT(30), <1>1, <2>1, RunCut
    <3> QED BY <1>7, <3>1
  <2>7. m - 1 <= m0
    BY <1>4, <2>3, <2>6
  <2>8. m = m0 + 1
    BY SMTT(30), <1>3, <1>7, <2>1, <2>7
  <2> QED BY <2>5, <2>8
<1>8. ASSUME k \in DOMAIN partials', partials'[k].first = partials[k].first,
             NEW m1 \in Nat, partials'[k].step = m1, m1 >= m0,
             ScopeKey(rule, ev) = key /\ Matches(rule.steps[m0 + 1], ev) => m1 > m0
      PROVE  Leads(i, key, f)'
  <2>1. \A m \in 1..n : \A at \in Runs(rule, key, m)' : at[1] = f => m <= partials'[k].step
    <3> SUFFICES ASSUME NEW m \in 1..n, NEW at \in Runs(rule, key, m)', at[1] = f
                 PROVE  m <= m1
      BY <1>8
    <3>1. CASE m > m0
      <4>1. m = m0 + 1 /\ m1 > m0
        BY <1>7, <1>8, <3>1
      <4> QED BY SMTT(30), <1>3, <1>8, <4>1
    <3>2. CASE ~(m > m0)
      BY SMTT(30), <1>3, <1>6, <1>8, <3>2
    <3> QED BY <3>1, <3>2
  <2>2. partials'[k].first = log'[f].ev.ts
    BY <1>2, <1>5, <1>8
  <2> QED BY <1>8, <2>1, <2>2 DEF Leads
<1>9. CASE key # ScopeKey(rule, ev)
  <2>1. k \in DOMAIN partials' /\ partials'[k] = partials[k]
    BY <1>2, <1>9, SlotsWritten
  <2>2. partials'[k].step = m0 /\ partials'[k].first = partials[k].first /\ m0 >= m0
    BY SMTT(30), <1>3, <2>1
  <2> QED BY <1>8, <1>9, <2>1, <2>2
<1>10. CASE key = ScopeKey(rule, ev)
  <2>1. ~Stale(partials[k], rule, ev.ts)
    <3>1. ev.ts \in Nat /\ log[f].ev.ts \in Nat
      <4>1. log[f] \in Entry
        BY Elements DEF RTypes
      <4>2. log[f].ev \in RuleEvent
        BY <4>1 DEF Entry
      <4> QED BY <4>2, Scoped
    <3>2. ev.ts - partials[k].first <= rule.within /\ partials[k].first \in Nat
      BY <1>2, <1>5, <1>10, <3>1
    <3> HIDE DEF rule
    <3>3. ~(ev.ts - partials[k].first > rule.within)
      BY SMTT(30), <1>6, <3>1, <3>2
    <3> QED BY <3>3 DEF Stale
  <2>2. \/ Signalled(i, key) \/ MovesOn(i, k, ev) \/ Stays(i, k, ev)
    <3>1. \/ Begins(i, k, ev) \/ Signalled(i, key) \/ MovesOn(i, k, ev)
          \/ Stays(i, k, ev) \/ Idles(i, k, ev)
      BY <1>10, SlotCases, Zenon
    <3> HIDE DEF k
    <3> QED BY <1>2, <1>5, <1>10, <2>1, <3>1, Zenon DEF Begins, Idles, k
  <2>3. CASE MovesOn(i, k, ev)
    <3>1. /\ k \in DOMAIN partials' /\ partials'[k].step = m0 + 1
          /\ partials'[k].first = partials[k].first
      BY <1>3, <2>3, MovedOn
    <3>2. m0 + 1 \in Nat /\ m0 + 1 >= m0 /\ m0 + 1 > m0
      BY SMTT(30), <1>3
    <3> QED BY <1>8, <3>1, <3>2
  <2>4. CASE Stays(i, k, ev)
    <3>1. /\ k \in DOMAIN partials' /\ partials'[k].step = m0 /\ m0 >= m0
          /\ partials'[k].first = partials[k].first
      BY SMTT(30), <1>3, <2>4 DEF Stays
    <3>2. ~Matches(rule.steps[m0 + 1], ev)
      BY <1>2, <1>3, <2>1, <2>4 DEF Stays, Goes
    <3> QED BY <1>3, <1>8, <3>1, <3>2
  <2> QED BY <2>2, <2>3, <2>4
<1> QED BY <1>9, <1>10

(* No clean first step is behind after the event.                          *)
LEMMA FeedAhead ==
  ASSUME RTypes, Ahead, NEW ev \in RuleEvent, OnRules(ev), cut' = cut
  PROVE  Ahead'
<1>1. Grew(ev) /\ Len(log) \in Nat /\ Len(log') = Len(log) + 1
  BY EventLogged DEF Grew
<1> SUFFICES ASSUME NEW i \in Sequences, NEW key \in Keys, NEW f \in 1..Len(log'),
                    cut[key] < f, Clean(RuleDefs[i], key, f)'
             PROVE  FiredIn(f, Len(log), i, key)' \/ Leads(i, key, f)'
  BY DEF Ahead
<1>2. CASE f = Len(log')
  <2>1. Clean(RuleDefs[i], key, Len(log))'
    BY <1>2
  <2>2. FiredIn(Len(log), Len(log), i, key)' \/ Leads(i, key, Len(log))'
    BY <2>1, AheadNew
  <2> QED BY <1>2, <2>2
<1>3. CASE f # Len(log')
  <2>1. f \in 1..Len(log)
    BY SMTT(30), <1>1, <1>3
  <2>2. Clean(RuleDefs[i], key, f)
    BY <1>1, <2>1, CleanBefore
  <2>3. FiredIn(f, Len(log), i, key) \/ Leads(i, key, f)
    BY <2>1, <2>2 DEF Ahead
  <2>4. ASSUME NEW j \in f..Len(log'), [rule |-> i, key |-> key] \in log'[j].fired
        PROVE  FiredIn(f, Len(log), i, key)'
    BY <2>4 DEF FiredIn
  <2>5. CASE FiredIn(f, Len(log), i, key)
    <3>1. PICK j \in f..Len(log) : [rule |-> i, key |-> key] \in log[j].fired
      BY <2>5 DEF FiredIn
    <3>2. j \in 1..Len(log) /\ j \in f..Len(log')
      BY SMTT(30), <1>1, <2>1
    <3>3. log'[j] = log[j]
      BY <1>1, <3>2 DEF Grew
    <3> QED BY <2>4, <3>1, <3>2, <3>3
  <2>6. CASE Leads(i, key, f)
    <3>1. Signalled(i, key) \/ Leads(i, key, f)'
      BY <2>1, <2>6, AheadOld
    <3>2. CASE Signalled(i, key)
      <4>1. Len(log) + 1 \in f..Len(log')
        BY SMTT(30), <1>1, <2>1
      <4> QED BY <2>4, <3>2, <4>1 DEF Signalled
    <3> QED BY <3>1, <3>2
  <2> QED BY <2>3, <2>5, <2>6
<1> QED BY <1>2, <1>3

(* Before any event nothing is in flight and nothing was signalled.        *)
LEMMA InitRInv == RulesInit => RInv
<1> SUFFICES ASSUME RulesInit PROVE RInv
  OBVIOUS
<1>1. log = <<>> /\ DOMAIN partials = {} /\ Len(log) = 0
  BY DEF RulesInit
<1>2. 1..Len(log) = {}
  BY SMTT(30), <1>1
<1>3. RTypes
  BY SMTT(30), <1>1 DEF RTypes
<1>4. Grounded
  BY <1>1 DEF Grounded
<1>5. Ahead
  BY <1>2 DEF Ahead
<1>6. SequenceSound
  BY <1>1 DEF SequenceSound
<1> QED BY <1>3, <1>4, <1>5, <1>6 DEF RInv

(* Every event and every reaping keeps the invariant.                      *)
LEMMA NextRInv == RInv /\ [RulesNext]_rvars => RInv'
<1> SUFFICES ASSUME RInv, [RulesNext]_rvars PROVE RInv'
  OBVIOUS
<1>1. RTypes /\ Grounded /\ Ahead /\ SequenceSound
  BY DEF RInv
<1>2. ASSUME NEW ev \in RuleEvent, Feed(ev) PROVE RInv'
  <2>1. OnRules(ev) /\ cut' = cut
    BY <1>2 DEF Feed
  <2>2. RTypes' /\ Grounded' /\ SequenceSound' /\ Ahead'
    BY <1>1, <2>1, FeedTypes, FeedGrounded, FeedSound, FeedAhead
  <2> QED BY <2>2 DEF RInv
<1>3. ASSUME NEW lost, ReapRules(lost) PROVE RInv'
  <2>1. log' = log /\ cut' = [k \in Keys |-> IF k \in lost THEN Len(log) ELSE cut[k]]
    BY <1>3 DEF ReapRules
  <2>2. /\ DOMAIN partials' = {k \in DOMAIN partials : k[2] \notin lost}
        /\ \A k \in DOMAIN partials' : partials'[k] = partials[k]
    BY <1>3 DEF ReapRules
  <2>3. \A k \in DOMAIN partials' : k \in DOMAIN partials /\ partials'[k] = partials[k]
    BY <2>2
  <2>4. \A rule, key, m : Runs(rule, key, m)' = Runs(rule, key, m)
    BY SMTT(30), <2>1 DEF Runs
  <2>5. RTypes'
    BY <1>1, <2>1, <2>3 DEF RTypes
  <2>6. Grounded'
    <3> SUFFICES ASSUME NEW k \in DOMAIN partials'
                 PROVE  \E at \in Runs(RuleDefs[k[1]], k[2], partials[k].step)' :
                          log'[at[1]].ev.ts = partials'[k].first
      BY DEF Grounded
    <3>1. PICK m : m = partials[k].step
      OBVIOUS
    <3>2. k \in DOMAIN partials /\ partials'[k] = partials[k] /\ m = partials'[k].step
      BY <2>3, <3>1
    <3>3. PICK at \in Runs(RuleDefs[k[1]], k[2], m) : log[at[1]].ev.ts = partials[k].first
      BY <1>1, <3>1, <3>2 DEF Grounded
    <3>4. at \in Runs(RuleDefs[k[1]], k[2], m)'
      BY <2>4, <3>3
    <3> QED BY <2>1, <3>2, <3>3, <3>4
  <2>7. Ahead'
    <3> SUFFICES ASSUME NEW i \in Sequences, NEW key \in Keys, NEW f \in 1..Len(log),
                        cut'[key] < f, Clean(RuleDefs[i], key, f)'
                 PROVE  FiredIn(f, Len(log), i, key)' \/ Leads(i, key, f)'
      BY <2>1 DEF Ahead
    <3>0. key \notin lost /\ cut[key] < f
      <4>1. Len(log) \in Nat
        BY SMTT(30), <1>1 DEF RTypes
      <4>2. ~(Len(log) < f)
        BY SMTT(30), <4>1
      <4> QED BY <2>1, <4>2
    <3>1. Clean(RuleDefs[i], key, f)
      BY <2>1 DEF Clean
    <3>2. FiredIn(f, Len(log), i, key) \/ Leads(i, key, f)
      BY <1>1, <3>0, <3>1 DEF Ahead
    <3>3. CASE FiredIn(f, Len(log), i, key)
      BY <2>1, <3>3 DEF FiredIn
    <3>4. CASE Leads(i, key, f)
      <4> DEFINE k == <<i, key>>
      <4>1. /\ k \in DOMAIN partials /\ partials[k].first = log[f].ev.ts
            /\ \A m \in 1..Len(RuleDefs[i].steps) : \A at \in Runs(RuleDefs[i], key, m) :
                 at[1] = f => m <= partials[k].step
        BY <3>4 DEF Leads
      <4>2. k[2] \notin lost
        BY <3>0
      <4>3. k \in DOMAIN partials' /\ partials'[k] = partials[k]
        BY <2>2, <4>1, <4>2
      <4> HIDE DEF k
      <4>4. \A m \in 1..Len(RuleDefs[i].steps) : \A at \in Runs(RuleDefs[i], key, m)' :
              at[1] = f => m <= partials'[k].step
        BY <2>4, <4>1, <4>3
      <4>5. partials'[k].first = log'[f].ev.ts
        BY <2>1, <4>1, <4>3
      <4> QED BY <4>3, <4>4, <4>5 DEF Leads, k
    <3> QED BY <3>2, <3>3, <3>4
  <2>8. SequenceSound'
    BY <1>1, <2>1 DEF SequenceSound, FiredIn, Positions, Witness
  <2> QED BY <2>5, <2>6, <2>7, <2>8 DEF RInv
<1>4. CASE UNCHANGED rvars
  <2>1. partials' = partials /\ cut' = cut /\ log' = log
    BY <1>4 DEF rvars
  <2>2. RTypes' <=> RTypes
    BY <2>1 DEF RTypes
  <2>r. \A rule, key, m, at : at \in Runs(rule, key, m)' <=> at \in Runs(rule, key, m)
    BY SMTT(30), <2>1 DEF Runs
  <2>f. \A from, to, i, key : FiredIn(from, to, i, key)' <=> FiredIn(from, to, i, key)
    BY <2>1, Zenon DEF FiredIn
  <2>3. Grounded' <=> Grounded
    BY <2>1, <2>r, Zenon DEF Grounded
  <2>4. Ahead' <=> Ahead
    <3>1. \A rule, key, f : Clean(rule, key, f)' <=> Clean(rule, key, f)
      BY SMTT(30), <2>1 DEF Clean
    <3>2. \A i, key, f : Leads(i, key, f)' <=> Leads(i, key, f)
      BY SMTT(30), <2>1, <2>r DEF Leads
    <3> QED BY <2>1, <2>f, <3>1, <3>2, Zenon DEF Ahead
  <2>5. SequenceSound' <=> SequenceSound
    <3>1. \A rule, at : at \in Positions(rule)' <=> at \in Positions(rule)
      BY <2>1 DEF Positions
    <3>2. \A rule, key, at : Witness(rule, key, at)' <=> Witness(rule, key, at)
      BY SMTT(30), <2>1 DEF Witness
    <3> QED BY <2>1, <2>f, <3>1, <3>2, Zenon DEF SequenceSound
  <2> QED BY <1>1, <2>2, <2>3, <2>4, <2>5 DEF RInv
<1> QED BY <1>2, <1>3, <1>4 DEF RulesNext

(* For any rules: every match in flight is grounded in events, and none    *)
(* that began with a clean first step is behind the events since.          *)
THEOREM RulesInvariant == RulesSpec => []RInv
<1>1. RulesInit => RInv
  BY InitRInv
<1>2. RInv /\ [RulesNext]_rvars => RInv'
  BY NextRInv
<1> QED BY <1>1, <1>2, PTL DEF RulesSpec

(* A sequence rule signals only when its steps were seen in order, in one  *)
(* scope and within the window, the last of them just now: what            *)
(* advance_sequence reports is what the rule was written for.              *)
THEOREM SequencesSound == RulesSpec => []SequenceSound
<1>1. RInv => SequenceSound
  BY DEF RInv
<1> QED BY <1>1, RulesInvariant, PTL

(* The greedy matcher of advance_sequence misses no sequence whose first   *)
(* step looks like no other and is neither repeated nor outlived, while no *)
(* reap drops its scope.                                                   *)
THEOREM CleanSequencesFire == RulesSpec => []CleanSequenceFires
<1>1. RInv => CleanSequenceFires
  <2>n. \A m \in Nat \ {0} : m \in 1..m /\ 1 \in 1..m
    BY SMTT(30)
  <2> SUFFICES ASSUME RInv PROVE CleanSequenceFires
    OBVIOUS
  <2> SUFFICES ASSUME NEW i \in Sequences, NEW key \in Keys,
                      NEW at \in Positions(RuleDefs[i]),
                      \A s \in 2..Len(RuleDefs[i].steps) :
                        RuleDefs[i].steps[s] \cap RuleDefs[i].steps[1] = {},
                      Witness(RuleDefs[i], key, at), cut[key] < at[1],
                      \A j \in (at[1] + 1)..at[Len(RuleDefs[i].steps)] :
                        ScopeKey(RuleDefs[i], log[j].ev) = key =>
                          /\ ~Matches(RuleDefs[i].steps[1], log[j].ev)
                          /\ log[j].ev.ts - log[at[1]].ev.ts <= RuleDefs[i].within
               PROVE  FiredIn(at[1], at[Len(RuleDefs[i].steps)], i, key)
    BY DEF CleanSequenceFires
  <2> DEFINE rule == RuleDefs[i]
             n == Len(rule.steps)
             k == <<i, key>>
  <2>1. n \in Nat \ {0} /\ n \in 1..n /\ 1 \in 1..n
    <3>1. n \in Nat \ {0}
      BY Loaded
    <3> HIDE DEF n
    <3> QED BY <3>1, <2>n, Zenon
  <2>2. at \in [1..n -> 1..Len(log)] /\ at[n] = Len(log)
    BY DEF Positions
  <2>3. at \in Runs(rule, key, n)
    BY <2>2 DEF Runs, Witness
  <2>4. Clean(rule, key, at[1])
    BY <2>1, <2>2 DEF Clean, Witness
  <2>5. at[1] \in 1..Len(log)
    BY <2>1, <2>2
  <2>6. FiredIn(at[1], Len(log), i, key) \/ Leads(i, key, at[1])
    BY <2>4, <2>5 DEF RInv, Ahead
  <2>7. ~Leads(i, key, at[1])
    <3> SUFFICES ASSUME Leads(i, key, at[1]) PROVE FALSE
      OBVIOUS
    <3>1. k \in DOMAIN partials /\ n <= partials[k].step
      BY <2>1, <2>3 DEF Leads
    <3>2. partials[k].step \in Nat /\ partials[k].step < n
      <4>1. k[1] = i
        OBVIOUS
      <4> QED BY <3>1, <4>1 DEF RInv, RTypes
    <3> DEFINE s == partials[k].step
    <3> HIDE DEF s, n
    <3>3. s \in Nat /\ s < n /\ n <= s /\ n \in Nat
      BY <2>1, <3>1, <3>2 DEF s
    <3> QED BY SMTT(30), <3>3
  <2> QED BY <2>2, <2>6, <2>7
<1> QED BY <1>1, RulesInvariant, PTL

=============================================================================
