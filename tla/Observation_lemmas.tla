------------------------- MODULE Observation_lemmas -------------------------
(***************************************************************************)
(* What one event, taken from the ring, does to the relation between the   *)
(* host and the graph.                                                     *)
(*                                                                         *)
(* The relation is stated over a list of processes P, a ring r and a graph *)
(* g, and in three parts.  HostOK: of two processes with one pid the first *)
(* has ended, and the second begins too late for the tolerance of adopt()  *)
(* to confuse them, even after /proc has truncated a start time.  RingOK:  *)
(* every event in the ring was raised by a process there was, in the order *)
(* of the processes with its pid; a process's exit is its last event, and  *)
(* the fork its first.  GraphOK: what the nodes are nodes of (Covered,     *)
(* Single), whom the links lead to (Lineal) and whose end was noted (Gone).*)
(*                                                                         *)
(* GraphOK is preserved only together with what is still in the ring: a    *)
(* node the scan found under a truncated key is adopted by the first event *)
(* with an exact key near it, and that this is an event of the same process*)
(* needs that no event of an earlier one with the pid is outstanding       *)
(* (Scans), that the node is found by its pid as long as events of the     *)
(* process can come (Single), and that a fork still to be read is of a     *)
(* process that has no node yet (Fresh).                                   *)
(***************************************************************************)
EXTENDS Observation, ProcessGraph_proofs

(* Leaves go to Zenon, those with arithmetic or records to SMT, as cited; the
   time is for a slow machine.                                             *)
USE ZenonT(30)

(* What the host knows of a process.                                       *)
Process ==
  [pid : Pids, start : Times, parent : Nat, image : Images, alive : BOOLEAN,
   thread : Times \cup {NoThread}, threaded : BOOLEAN]

(* The keys of a process and of its second thread, the keys its tasks have,*)
(* and the events that are about it: its own, and the fork that began it.  *)
Lead(P, p) == [pid |-> P[p].pid, start |-> P[p].start]
Second(P, p) == [pid |-> P[p].pid, start |-> P[p].thread]
Threads(P, k, p) == P[p].thread # NoThread /\ k = Second(P, p)
Spoken(P, k, p) == k = Lead(P, p) \/ Threads(P, k, p)
Born(P, ev, c) == ev.type = "Fork" /\ ev.child = Lead(P, c)
About(P, ev, p) == Spoken(P, ev.key, p) \/ Born(P, ev, p)
Leaves(P, ev, p) == ev.type = "Exit" /\ ev.key = Lead(P, p)

(* Something about it is still in the ring.                                *)
Outstanding(P, r, p) == \E i \in 1..Len(r) : About(P, r[i], p)

(* The node k is one of p: under its exact key, or as the scan found it.   *)
Named(P, g, k, p) ==
  /\ k.pid = P[p].pid
  /\ \/ k.start = P[p].start
     \/ g.nodes[k].origin = "Scanned" /\ k.start = Trunc(P[p].start)

(* The processes so far at time t, in the order they began.                *)
HostOK(P, t) ==
  /\ t \in Times /\ P \in Seq(Process) /\ Len(P) > 0
  /\ P[1].pid = 1 /\ P[1].parent = 0 /\ P[1].alive
  /\ \A p \in 1..Len(P) :
       /\ P[p].start <= t /\ P[p].thread <= t
       /\ P[p].thread # NoThread => P[p].start < P[p].thread
       /\ P[p].threaded => P[p].thread # NoThread
       /\ p # 1 => P[p].parent \in 1..(p - 1)
  /\ \A p, q \in 1..Len(P) : p < q /\ P[p].pid = P[q].pid =>
       /\ ~P[p].alive /\ P[q].start - P[p].start > ReuseGap
       /\ P[p].thread < P[q].start

(* What raised an event.                                                   *)
Origin(P, ev) ==
  \E p \in 1..Len(P) :
    /\ Spoken(P, ev.key, p)
    /\ ev.type = "Exit" => ev.key = Lead(P, p) /\ ~P[p].alive
    /\ ev.type = "Fork" =>
         \E c \in 1..Len(P) : /\ ev.child = Lead(P, c)
                              /\ P[c].parent = p /\ P[c].pid # P[p].pid

(* The ring; U are the processes whose exit did not fit into it.           *)
RingOK(P, r, U) ==
  /\ \A i \in 1..Len(r) : r[i] \in Event /\ Origin(P, r[i])
  /\ \A i, j \in 1..Len(r), p, q \in 1..Len(P) :
       i < j /\ About(P, r[i], p) /\ About(P, r[j], q) /\ P[p].pid = P[q].pid => p <= q
  /\ \A i, j \in 1..Len(r), p \in 1..Len(P) :
       i < j => /\ Leaves(P, r[i], p) => ~About(P, r[j], p)
                /\ Born(P, r[j], p) => ~About(P, r[i], p)
  /\ \A i \in 1..Len(r), p \in 1..Len(P) \ U :
       About(P, r[i], p) /\ ~P[p].alive => \E j \in i..Len(r) : Leaves(P, r[j], p)

(* Every node is of a process or of a thread.                              *)
Covered(P, g) ==
  \A k \in DOMAIN g.nodes :
    \E p \in 1..Len(P) : Named(P, g, k, p) \/ Threads(P, k, p)

(* A scanned node's process; the events of earlier ones are all read.      *)
Scans(P, g, r) ==
  \A k \in DOMAIN g.nodes :
    g.nodes[k].origin = "Scanned" =>
      \E p \in 1..Len(P) :
        /\ k.pid = P[p].pid /\ k.start = Trunc(P[p].start)
        /\ \A q \in 1..(p - 1) : P[q].pid = P[p].pid => ~Outstanding(P, r, q)

(* A node under a truncated key is the only one, and can be adopted.       *)
Single(P, g, r) ==
  \A k \in DOMAIN g.nodes, p \in 1..Len(P) :
    Named(P, g, k, p) /\ k # Lead(P, p) /\ P[p].thread = NoThread =>
      /\ Lead(P, p) \notin DOMAIN g.nodes
      /\ P[p].alive \/ Outstanding(P, r, p) =>
           /\ k.pid \in DOMAIN g.byPid /\ g.byPid[k.pid] = k
           /\ g.nodes[k].exited = Alive

(* The node k is of q or of a thread of q that raised an event.            *)
Leads(P, g, k, q) ==
  \/ Named(P, g, k, q)
  \/ Threads(P, k, q) /\ g.nodes[k].origin = "Observed"

(* A link leads to the process that forked the child, or to init.          *)
Lineal(P, g) ==
  \A k \in DOMAIN g.nodes, p \in 1..Len(P) :
    Named(P, g, k, p) /\ g.nodes[k].parent # NoKey =>
      \E q \in {P[p].parent, 1} \ {0, p} : Leads(P, g, g.nodes[k].parent, q)

(* An end that was read is noted.                                          *)
Gone(P, g, r, U) ==
  \A k \in DOMAIN g.nodes, p \in 1..Len(P) \ U :
    Named(P, g, k, p) /\ P[p].thread = NoThread /\ ~P[p].alive /\ ~Outstanding(P, r, p) =>
      g.nodes[k].exited # Alive

(* What is still to be forked has no node.                                 *)
Fresh(P, g, r) ==
  \A k \in DOMAIN g.nodes, p \in 1..Len(P), i \in 1..Len(r) :
    Born(P, r[i], p) => ~Named(P, g, k, p)

(* The graph as it is while r is still to be read.                         *)
GraphOK(P, g, r, U) ==
  /\ Covered(P, g) /\ Scans(P, g, r) /\ Single(P, g, r)
  /\ Lineal(P, g) /\ Gone(P, g, r, U) /\ Fresh(P, g, r)

-----------------------------------------------------------------------------

(* Ticks. *)
LEMMA Constants ==
  /\ Tick \in Nat /\ Tick > 0 /\ Tolerance \in Nat /\ ReuseGap \in Nat /\ MaxTime \in Nat
  /\ Tick <= Tolerance + 1 /\ Tolerance <= ReuseGap
  /\ Times = 0..MaxTime /\ \A p \in Pids : p \in Nat /\ p > 0
  /\ 1 \in Pids /\ NoKey \notin Key /\ Comms # {}
  BY SMTT(30), ObservationConstants, ClocksFit, GraphConstants

(* What scan_one() makes of a start time: a multiple of the clock tick.    *)
LEMMA TruncIs ==
  ASSUME NEW t \in Times
  PROVE  Trunc(t) \in Times /\ Trunc(t) <= t /\ t - Trunc(t) < Tick
<1> DEFINE q == t \div Tick
           r == t % Tick
<1>1. t \in Nat /\ Tick \in Nat /\ Tick > 0
  BY SMTT(30), Constants
<1>2. q \in Nat /\ r \in 0..(Tick - 1) /\ t = Tick * q + r
  BY SMTT(30), <1>1
<1>3. q * Tick = Tick * q /\ Tick * q \in Nat
  BY SMTT(30), <1>1, <1>2
<1> HIDE DEF q, r
<1>4. t - q * Tick = r /\ q * Tick <= t /\ q * Tick \in Nat
  BY SMTT(30), <1>1, <1>2, <1>3
<1> QED
  BY SMTT(30), <1>1, <1>2, <1>4, Constants DEF Trunc, q

(* What a process of the host is known to be.                              *)
LEMMA ProcessIs ==
  ASSUME NEW P, NEW t, HostOK(P, t), NEW p \in 1..Len(P)
  PROVE  /\ P[p].pid \in Pids /\ P[p].pid \in Nat /\ P[p].pid > 0
         /\ P[p].start \in Times /\ P[p].start \in Nat
         /\ P[p].thread \in Int /\ (P[p].thread # NoThread => P[p].thread \in Times)
         /\ t \in Nat /\ P[p].start <= t /\ P[p].thread <= t
         /\ Trunc(P[p].start) \in Times /\ Trunc(P[p].start) \in Nat
         /\ Trunc(P[p].start) <= P[p].start /\ P[p].start - Trunc(P[p].start) < Tick
         /\ Lead(P, p) \in Key /\ (P[p].thread # NoThread => Second(P, p) \in Key)
         /\ Lead(P, p).pid = P[p].pid /\ Lead(P, p).start = P[p].start
<1>1. P[p] \in Process /\ P[p].start <= t /\ P[p].thread <= t /\ t \in Times
  BY SMTT(30) DEF HostOK
<1>2. /\ P[p].pid \in Pids /\ P[p].start \in Times
      /\ P[p].thread \in Times \cup {NoThread}
  BY <1>1 DEF Process
<1>3. \A x \in Times : x \in Nat
  BY SMTT(30), Constants
<1>4. /\ Trunc(P[p].start) \in Times
      /\ Trunc(P[p].start) <= P[p].start /\ P[p].start - Trunc(P[p].start) < Tick
  BY <1>2, TruncIs
<1>5. P[p].thread \in Int /\ (P[p].thread # NoThread => P[p].thread \in Times)
  BY SMTT(30), <1>2, <1>3 DEF NoThread
<1>6. P[p].pid \in Nat /\ P[p].pid > 0
  BY <1>2, Constants
<1> QED
  BY <1>1, <1>2, <1>3, <1>4, <1>5, <1>6 DEF Lead, Second, Key

(* The parents a process may have are processes.                           *)
LEMMA ParentIs ==
  ASSUME NEW P, NEW t, HostOK(P, t), NEW p \in 1..Len(P),
         NEW q \in {P[p].parent, 1} \ {0, p}
  PROVE  q \in 1..Len(P)
<1>1. Len(P) \in Nat /\ Len(P) > 0
  BY SMTT(30) DEF HostOK
<1>2. CASE p = 1
  BY <1>1, <1>2 DEF HostOK
<1>3. CASE p # 1
  <2>1. P[p].parent \in 1..(p - 1)
    BY <1>3 DEF HostOK
  <2> QED
    BY SMTT(30), <1>1, <2>1
<1> QED
  BY <1>2, <1>3

(* Two processes of one pid are further apart than the tolerance.          *)
LEMMA Apart ==
  ASSUME NEW P, NEW t, HostOK(P, t), NEW p \in 1..Len(P), NEW q \in 1..Len(P),
         p # q, P[p].pid = P[q].pid
  PROVE  \/ /\ p < q /\ ~P[p].alive /\ P[q].start - P[p].start > ReuseGap
            /\ P[p].thread < P[q].start
         \/ /\ q < p /\ ~P[q].alive /\ P[p].start - P[q].start > ReuseGap
            /\ P[q].thread < P[p].start
<1>1. p \in Int /\ q \in Int
  BY SMTT(30)
<1>2. p < q \/ q < p
  BY SMTT(30), <1>1
<1> QED
  BY <1>2 DEF HostOK

(* A task's key has its process's pid.                                     *)
LEMMA SpokenPid ==
  ASSUME NEW P, NEW k, NEW p, Spoken(P, k, p)
  PROVE  k.pid = P[p].pid
  BY SMTT(30) DEF Spoken, Threads, Lead, Second

(* A key of a task is a key of one process.                                *)
LEMMA OneSpeaker ==
  ASSUME NEW P, NEW t, HostOK(P, t), NEW p \in 1..Len(P), NEW q \in 1..Len(P), NEW k,
         Spoken(P, k, p), Spoken(P, k, q)
  PROVE  p = q
<1> SUFFICES ASSUME p # q PROVE FALSE
  OBVIOUS
<1> DEFINE a == P[p].start
           b == P[p].thread
           c == P[q].start
           d == P[q].thread
           s == k.start
<1>1. /\ k.pid = P[p].pid /\ (s = a \/ (s = b /\ b # NoThread))
      /\ k.pid = P[q].pid /\ (s = c \/ (s = d /\ d # NoThread))
  BY SMTT(30) DEF Spoken, Threads, Lead, Second
<1>2. (b # NoThread => a < b) /\ (d # NoThread => c < d)
  BY DEF HostOK
<1>3. a \in Int /\ b \in Int /\ c \in Int /\ d \in Int /\ ReuseGap \in Nat
  BY SMTT(30), ProcessIs, Constants
<1>4. (c - a > ReuseGap /\ b < c) \/ (a - c > ReuseGap /\ d < a)
  BY <1>1, Apart
<1> HIDE DEF a, b, c, d, s
<1> QED
  BY SMTT(30), <1>1, <1>2, <1>3, <1>4

(* A key a task of p has is a key of p or of its second thread.            *)
LEMMA SpokenNames ==
  ASSUME NEW P, NEW g, NEW k, NEW p, Spoken(P, k, p)
  PROVE  Named(P, g, k, p) \/ Threads(P, k, p)
  BY SMTT(30) DEF Spoken, Named, Lead

(* A thread's key is not a process's.                                      *)
LEMMA SecondIsNoLead ==
  ASSUME NEW P, NEW t, HostOK(P, t), NEW p \in 1..Len(P), NEW q \in 1..Len(P),
         P[p].thread # NoThread
  PROVE  Second(P, p) # Lead(P, q)
<1> SUFFICES ASSUME Second(P, p) = Lead(P, q) PROVE FALSE
  OBVIOUS
<1>1. p = q
  BY OneSpeaker DEF Spoken, Threads
<1>2. P[p].start < P[p].thread
  BY DEF HostOK
<1>3. P[p].start \in Int /\ P[p].thread = P[p].start
  BY <1>1, ProcessIs DEF Second, Lead
<1> QED
  BY SMTT(30), <1>2, <1>3

(* A node stands for one process.                                          *)
LEMMA OneName ==
  ASSUME NEW P, NEW t, HostOK(P, t), NEW p \in 1..Len(P), NEW q \in 1..Len(P), NEW k,
         k.pid = P[p].pid, k.pid = P[q].pid,
         k.start = P[p].start \/ k.start = Trunc(P[p].start),
         k.start = P[q].start \/ k.start = Trunc(P[q].start)
  PROVE  p = q
<1> SUFFICES ASSUME p # q PROVE FALSE
  OBVIOUS
<1>1. /\ P[p].start \in Nat /\ P[q].start \in Nat
      /\ Trunc(P[p].start) \in Nat /\ Trunc(P[q].start) \in Nat
      /\ Trunc(P[p].start) <= P[p].start /\ P[p].start - Trunc(P[p].start) < Tick
      /\ Trunc(P[q].start) <= P[q].start /\ P[q].start - Trunc(P[q].start) < Tick
  BY ProcessIs
<1>2. \/ P[q].start - P[p].start > ReuseGap
      \/ P[p].start - P[q].start > ReuseGap
  BY Apart
<1>3. Tick \in Nat /\ ReuseGap \in Nat /\ Tolerance \in Nat
      /\ Tick <= Tolerance + 1 /\ Tolerance <= ReuseGap
  BY Constants
<1> DEFINE a == P[p].start
           c == P[q].start
           s == k.start
<1>4. /\ s \in Nat /\ s <= a /\ a - s < Tick /\ s <= c /\ c - s < Tick
      /\ a \in Nat /\ c \in Nat /\ (c - a > ReuseGap \/ a - c > ReuseGap)
  BY SMTT(30), <1>1, <1>2, <1>3, Constants
<1> HIDE DEF a, c, s
<1> QED
  BY SMTT(30), <1>3, <1>4

(* So does a node that has the name of a process.                          *)
LEMMA NamedOnce ==
  ASSUME NEW P, NEW t, HostOK(P, t), NEW p \in 1..Len(P), NEW q \in 1..Len(P), NEW k,
         NEW g, NEW h, Named(P, g, k, p), Named(P, h, k, q)
  PROVE  p = q
  BY OneName DEF Named

-----------------------------------------------------------------------------
(* What the operations of the graph change. *)

(* Of a node the relation reads its origin, its end and its parent.        *)
Same(g, h, k) ==
  /\ h.nodes[k].origin = g.nodes[k].origin /\ h.nodes[k].exited = g.nodes[k].exited
  /\ h.nodes[k].parent = g.nodes[k].parent

(* The node `from` is now kept under the key `to`.                         *)
Moves(g, h, from, to) ==
  /\ from \in DOMAIN g.nodes /\ to \notin DOMAIN g.nodes /\ from.pid = to.pid
  /\ from.pid \in DOMAIN g.byPid /\ g.byPid[from.pid] = from
  /\ g.nodes[from].origin = "Scanned" /\ g.nodes[from].exited = Alive
  /\ AbsDiff(to.start, from.start) <= Tolerance
  /\ DOMAIN h.nodes = (DOMAIN g.nodes \ {from}) \cup {to}
  /\ h.nodes[to].origin = "Observed" /\ h.nodes[to].exited = Alive
  /\ h.nodes[to].parent = g.nodes[from].parent
  /\ g.nodes[from].parent # from
  /\ \A k \in DOMAIN g.nodes \ {from} :
       /\ h.nodes[k].origin = g.nodes[k].origin /\ h.nodes[k].exited = g.nodes[k].exited
       /\ h.nodes[k].parent = IF g.nodes[k].parent = from THEN to ELSE g.nodes[k].parent
  /\ DOMAIN h.byPid = DOMAIN g.byPid
  /\ \A x \in DOMAIN g.byPid : h.byPid[x] = IF x = to.pid THEN to ELSE g.byPid[x]

(* The key has a node, whatever was known, and its pid leads to it.        *)
Enters(g, h, key) ==
  /\ DOMAIN h.nodes = DOMAIN g.nodes \cup {key}
  /\ \A k \in DOMAIN g.nodes : Same(g, h, k)
  /\ key \notin DOMAIN g.nodes =>
       /\ h.nodes[key].origin = "Observed" /\ h.nodes[key].exited = Alive
       /\ h.nodes[key].parent = NoKey
  /\ DOMAIN h.byPid = DOMAIN g.byPid \cup {key.pid}
  /\ \A x \in DOMAIN h.byPid : h.byPid[x] = IF x = key.pid THEN key ELSE g.byPid[x]

(* rekey() moves a node and what its children name.                        *)
LEMMA RekeyIs ==
  ASSUME NEW g, Sound(g), NEW from \in DOMAIN g.nodes, NEW to \in Key,
         to \notin DOMAIN g.nodes, from.pid = to.pid, from.pid \in DOMAIN g.byPid,
         g.byPid[from.pid] = from, g.nodes[from].origin = "Scanned",
         g.nodes[from].exited = Alive, AbsDiff(to.start, from.start) <= Tolerance
  PROVE  Moves(g, Rekey(g, from, to), from, to)
<1> DEFINE h == Rekey(g, from, to)
           moved == g.nodes[from]
           nd(k) == g.nodes[k]
<1>1. h.nodes = [k \in (DOMAIN g.nodes \ {from}) \cup {to} |->
                   IF k = to THEN [moved EXCEPT !.origin = "Observed"]
                   ELSE [nd(k) EXCEPT
                           !.children = IF k = moved.parent THEN Swap(@, from, to) ELSE @,
                           !.parent = IF k \in moved.children THEN to ELSE @]]
  BY DEF Rekey
<1>2. h.byPid = Put(g.byPid, to.pid, to)
  BY DEF Rekey
<1>3. moved \in Node /\ moved.parent # from /\ \A k \in DOMAIN g.nodes : nd(k) \in Node
  BY DEF Sound, IsGraph, NoSelfLoop
<1>4. /\ h.nodes[to].origin = "Observed" /\ h.nodes[to].exited = Alive
      /\ h.nodes[to].parent = moved.parent
  <2>1. h.nodes[to] = [moved EXCEPT !.origin = "Observed"]
    BY <1>1
  <2>2. moved.exited = Alive
    OBVIOUS
  <2> HIDE DEF h, moved
  <2> QED
    BY <1>3, <2>1, <2>2 DEF Node
<1>5. ASSUME NEW k \in DOMAIN g.nodes \ {from}
      PROVE  /\ h.nodes[k].origin = g.nodes[k].origin
             /\ h.nodes[k].exited = g.nodes[k].exited
             /\ h.nodes[k].parent = IF g.nodes[k].parent = from THEN to ELSE g.nodes[k].parent
  <2>1. h.nodes[k] = [nd(k) EXCEPT
                        !.children = IF k = moved.parent THEN Swap(@, from, to) ELSE @,
                        !.parent = IF k \in moved.children THEN to ELSE @]
    BY <1>1
  <2>2. k \in moved.children <=> nd(k).parent = from
    BY SMTT(30), GraphConstants DEF Sound, Linked, IsGraph
  <2>3. nd(k) \in Node
    BY <1>3
  <2> HIDE DEF h, moved, nd
  <2>4. /\ h.nodes[k].origin = nd(k).origin /\ h.nodes[k].exited = nd(k).exited
        /\ h.nodes[k].parent = IF k \in moved.children THEN to ELSE nd(k).parent
    BY <2>1, <2>3 DEF Node
  <2> QED
    BY <2>2, <2>4 DEF nd
<1>6. DOMAIN h.nodes = (DOMAIN g.nodes \ {from}) \cup {to}
  BY <1>1
<1> HIDE DEF h, moved, nd
<1>7. /\ DOMAIN h.byPid = DOMAIN g.byPid
      /\ \A x \in DOMAIN g.byPid : h.byPid[x] = IF x = to.pid THEN to ELSE g.byPid[x]
  BY SMTT(30), <1>2 DEF Put
<1> QED
  BY <1>3, <1>4, <1>5, <1>6, <1>7 DEF Moves, moved, h

(* resolve() moves a scanned node or does nothing.                         *)
LEMMA ResolveIs ==
  ASSUME NEW g, Sound(g), NEW key \in Key
  PROVE  LET h == Resolve(g, key)
         IN  /\ Sound(h)
             /\ ~Adoptable(g, key) => h = g
             /\ Adoptable(g, key) => Moves(g, h, g.byPid[key.pid], key)
<1>1. Sound(Resolve(g, key))
  BY ResolveSound
<1>2. ~Adoptable(g, key) => Resolve(g, key) = g
  BY DEF Resolve
<1>3. ASSUME Adoptable(g, key) PROVE Moves(g, Resolve(g, key), g.byPid[key.pid], key)
  <2> DEFINE from == g.byPid[key.pid]
  <2>1. /\ from \in DOMAIN g.nodes /\ key \notin DOMAIN g.nodes
        /\ key.pid \in DOMAIN g.byPid /\ g.nodes[from].exited = Alive
        /\ g.nodes[from].origin = "Scanned" /\ AbsDiff(key.start, from.start) <= Tolerance
    BY <1>3 DEF Adoptable
  <2>2. from.pid = key.pid
    BY <2>1 DEF Sound, Indexed
  <2>3. Resolve(g, key) = Rekey(g, from, key)
    BY <1>3 DEF Resolve
  <2> HIDE DEF from
  <2>4. Moves(g, Rekey(g, from, key), from, key)
    BY <2>1, <2>2, RekeyIs DEF from
  <2> QED
    BY <2>3, <2>4 DEF from
<1> QED
  BY <1>1, <1>2, <1>3

(* resolve() and ensure(): the node is moved, found or made.               *)
LEMMA TouchIs ==
  ASSUME NEW g, Sound(g), NEW key \in Key
  PROVE  LET h == Touch(g, key)
         IN  /\ Sound(h) /\ key \in DOMAIN h.nodes
             /\ IF Adoptable(g, key) THEN Moves(g, h, g.byPid[key.pid], key)
                ELSE Enters(g, h, key)
<1> DEFINE m == Resolve(g, key)
           h == Touch(g, key)
<1>1. /\ Sound(m) /\ (~Adoptable(g, key) => m = g)
      /\ Adoptable(g, key) => Moves(g, m, g.byPid[key.pid], key)
  BY ResolveIs
<1>2. h = Ensure(m, key, "Observed")
  BY DEF Touch
<1> HIDE DEF m, h
<1>3. /\ Sound(h) /\ DOMAIN h.nodes = DOMAIN m.nodes \cup {key}
      /\ \A k \in DOMAIN m.nodes : h.nodes[k] = m.nodes[k]
      /\ key \notin DOMAIN m.nodes => h.nodes[key] = NewNode(key, "Observed")
  BY <1>1, <1>2, EnsureSound
<1>4. h.byPid = Put(m.byPid, key.pid, key)
  BY <1>2 DEF Ensure
<1>5. CASE Adoptable(g, key)
  <2> DEFINE from == g.byPid[key.pid]
  <2>1. Moves(g, m, from, key)
    BY <1>1, <1>5
  <2> HIDE DEF from
  <2>2. key \in DOMAIN m.nodes /\ key.pid \in DOMAIN m.byPid /\ m.byPid[key.pid] = key
    BY <2>1 DEF Moves
  <2>3. /\ DOMAIN h.byPid = DOMAIN m.byPid /\ \A x \in DOMAIN m.byPid : h.byPid[x] = m.byPid[x]
    BY <1>4, <2>2 DEF Put
  <2>4. DOMAIN h.nodes = DOMAIN m.nodes /\ \A k \in DOMAIN m.nodes : h.nodes[k] = m.nodes[k]
    BY <1>3, <2>2
  <2>5. Moves(g, h, from, key)
    BY SMTT(30), <2>1, <2>3, <2>4 DEF Moves
  <2> QED
    BY <1>3, <1>5, <2>5 DEF from, h
<1>6. CASE ~Adoptable(g, key)
  <2>1. m = g
    BY <1>1, <1>6
  <2>2. /\ DOMAIN h.byPid = DOMAIN g.byPid \cup {key.pid}
        /\ \A x \in DOMAIN h.byPid : h.byPid[x] = IF x = key.pid THEN key ELSE g.byPid[x]
    BY <1>4, <2>1 DEF Put
  <2>3. Enters(g, h, key)
    BY SMTT(30), <1>3, <2>1, <2>2 DEF Enters, Same, NewNode
  <2> QED
    BY <1>3, <1>6, <2>3 DEF h
<1> QED
  BY <1>5, <1>6

-----------------------------------------------------------------------------
(* The event at the head of the ring. *)

(* An event is about one process of a pid: a child never has its parent's. *)
LEMMA AboutOnce ==
  ASSUME NEW P, NEW t, HostOK(P, t), NEW ev, Origin(P, ev),
         NEW p \in 1..Len(P), NEW q \in 1..Len(P),
         About(P, ev, p), About(P, ev, q), P[p].pid = P[q].pid
  PROVE  p = q
<1>1. PICK f \in 1..Len(P) :
        /\ Spoken(P, ev.key, f)
        /\ ev.type = "Fork" =>
             \E c \in 1..Len(P) : /\ ev.child = Lead(P, c)
                                  /\ P[c].parent = f /\ P[c].pid # P[f].pid
  BY DEF Origin
<1>2. ASSUME NEW x \in 1..Len(P), Spoken(P, ev.key, x)
      PROVE  x = f
  BY <1>1, <1>2, OneSpeaker
<1>3. ASSUME NEW x \in 1..Len(P), Born(P, ev, x)
      PROVE  P[x].pid # P[f].pid
  <2>1. PICK c \in 1..Len(P) : ev.child = Lead(P, c) /\ P[c].pid # P[f].pid
    BY <1>1, <1>3 DEF Born
  <2>2. x = c
    BY <1>3, <2>1, OneSpeaker DEF Born, Spoken
  <2> QED
    BY <2>1, <2>2
<1>4. ASSUME Born(P, ev, p), Born(P, ev, q)
      PROVE  p = q
  BY <1>4, OneSpeaker DEF Born, Spoken
<1> QED
  BY <1>2, <1>3, <1>4 DEF About

(* No event of an older process of the pid is still to come.               *)
LEMMA HeadFirst ==
  ASSUME NEW P, NEW t, HostOK(P, t), NEW r, NEW U, RingOK(P, r, U), 1 \in 1..Len(r),
         NEW p \in 1..Len(P), NEW q \in 1..Len(P), About(P, r[1], p),
         P[q].alive \/ Outstanding(P, r, q), P[p].pid = P[q].pid
  PROVE  p <= q
<1>1. CASE P[q].alive
  BY SMTT(30), <1>1, Apart
<1>2. CASE Outstanding(P, r, q)
  <2>1. PICK i \in 1..Len(r) : About(P, r[i], q)
    BY <1>2 DEF Outstanding
  <2>2. CASE i = 1
    <3>1. p = q
      BY <2>1, <2>2, AboutOnce DEF RingOK
    <3> QED
      BY SMTT(30), <3>1
  <2>3. CASE i # 1
    <3>1. 1 < i
      BY SMTT(30), <2>3
    <3> QED
      BY <2>1, <3>1 DEF RingOK
  <2> QED
    BY <2>2, <2>3
<1> QED
  BY <1>1, <1>2

(* A scanned node that is close to a key of the head's process is that     *)
(* process's.                                                              *)
LEMMA Adopts ==
  ASSUME NEW P, NEW t, HostOK(P, t), NEW r, NEW U, RingOK(P, r, U), 1 \in 1..Len(r),
         NEW g, Scans(P, g, r), NEW p \in 1..Len(P), About(P, r[1], p),
         NEW key, Spoken(P, key, p), NEW from \in DOMAIN g.nodes,
         g.nodes[from].origin = "Scanned", from.pid = key.pid,
         AbsDiff(key.start, from.start) <= Tolerance
  PROVE  from.pid = P[p].pid /\ from.start = Trunc(P[p].start)
<1>1. PICK o \in 1..Len(P) :
        /\ from.pid = P[o].pid /\ from.start = Trunc(P[o].start)
        /\ \A q \in 1..(o - 1) : P[q].pid = P[o].pid => ~Outstanding(P, r, q)
  BY DEF Scans
<1>2. key.pid = P[p].pid /\ (key.start = P[p].start \/ (P[p].thread # NoThread /\ key.start = P[p].thread))
  BY SMTT(30) DEF Spoken, Lead, Threads, Second
<1>3. Outstanding(P, r, p)
  BY DEF Outstanding
<1>4. ~(p < o)
  <2> SUFFICES ASSUME p < o PROVE FALSE
    OBVIOUS
  <2>1. p \in 1..(o - 1)
    BY SMTT(30)
  <2> QED
    BY <1>1, <1>2, <1>3, <2>1
<1>5. ~(o < p)
  <2> SUFFICES ASSUME o < p PROVE FALSE
    OBVIOUS
  <2> DEFINE a == P[o].start
             b == P[p].start
             c == P[p].thread
             s == key.start
             f == from.start
  <2>1. b - a > ReuseGap
    <3>1. o # p /\ ~(p < o)
      BY SMTT(30)
    <3>2. P[o].pid = P[p].pid
      BY <1>1, <1>2
    <3> QED
      BY <3>1, <3>2, Apart
  <2>2. c # NoThread => b < c
    BY DEF HostOK
  <2>3. s = b \/ (c # NoThread /\ s = c)
    BY <1>2
  <2>4. f \in Nat /\ f <= a
    BY SMTT(30), <1>1, ProcessIs
  <2>5. a \in Nat /\ b \in Nat /\ c \in Int
    BY ProcessIs
  <2>6. AbsDiff(s, f) <= Tolerance /\ Tolerance \in Nat /\ ReuseGap \in Nat /\ Tolerance <= ReuseGap
    BY Constants
  <2> HIDE DEF a, b, c, s, f
  <2>7. s >= b /\ s \in Int
    BY SMTT(30), <2>2, <2>3, <2>5
  <2>8. s - f > Tolerance /\ s >= f
    BY SMTT(30), <2>1, <2>4, <2>5, <2>6, <2>7
  <2> QED
    BY SMTT(30), <2>4, <2>6, <2>7, <2>8 DEF AbsDiff
<1>6. o = p
  BY SMTT(30), <1>4, <1>5
<1> QED
  BY <1>1, <1>6

(* A node whose key is a thread's was not scanned.                         *)
LEMMA ThreadObserved ==
  ASSUME NEW P, NEW t, HostOK(P, t), NEW r, NEW U, RingOK(P, r, U), 1 \in 1..Len(r),
         NEW g, Sound(g), Scans(P, g, r), NEW p \in 1..Len(P), About(P, r[1], p),
         NEW key \in DOMAIN g.nodes, Threads(P, key, p)
  PROVE  g.nodes[key].origin = "Observed"
<1> SUFFICES ASSUME g.nodes[key].origin # "Observed" PROVE FALSE
  OBVIOUS
<1>1. g.nodes[key] \in Node /\ key \in Key
  BY DEF Sound, IsGraph
<1>2. g.nodes[key].origin = "Scanned"
  BY <1>1 DEF Node
<1>3. key.start = P[p].thread /\ P[p].start < P[p].thread
  BY DEF Threads, Second, HostOK
<1>4. P[p].start \in Nat /\ P[p].thread \in Int /\ Trunc(P[p].start) \in Nat
      /\ Trunc(P[p].start) <= P[p].start /\ Tolerance \in Nat
  BY ProcessIs, Constants
<1>5. AbsDiff(key.start, key.start) <= Tolerance
  BY SMTT(30), <1>3, <1>4 DEF AbsDiff
<1>6. key.start = Trunc(P[p].start)
  BY SMTT(30), <1>2, <1>5, Adopts DEF Spoken
<1> QED
  BY SMTT(30), <1>3, <1>4, <1>6

-----------------------------------------------------------------------------
(* What the graph knows, through the operations. *)

(* Keys are told apart by their fields.                                    *)
LEMMA SameKey ==
  ASSUME NEW j \in Key, NEW k \in Key, j.pid = k.pid, j.start = k.start
  PROVE  j = k
  BY SMTT(30) DEF Key

(* The key with the pid and the start time of a process is its own.        *)
LEMMA LeadIs ==
  ASSUME NEW P, NEW p, NEW k \in Key, k.pid = P[p].pid, k.start = P[p].start
  PROVE  k = Lead(P, p)
  BY DEF Key, Lead

(* A node of a process that is not kept under its exact key was scanned.   *)
LEMMA OffKey ==
  ASSUME NEW P, NEW t, HostOK(P, t), NEW p \in 1..Len(P), NEW g, NEW k \in Key,
         Named(P, g, k, p), k # Lead(P, p)
  PROVE  k.pid = P[p].pid /\ g.nodes[k].origin = "Scanned" /\ k.start = Trunc(P[p].start)
<1>1. k.start # P[p].start
  BY SMTT(30), SameKey, ProcessIs DEF Named
<1> QED
  BY <1>1 DEF Named

(* The node of a process with something outstanding that is not kept under *)
(* the exact key can be adopted.                                           *)
LEMMA OffKeyAdoptable ==
  ASSUME NEW P, NEW t, HostOK(P, t), NEW p \in 1..Len(P), NEW g, NEW r, Sound(g),
         Single(P, g, r), NEW k \in DOMAIN g.nodes, Named(P, g, k, p), k # Lead(P, p),
         P[p].thread = NoThread, P[p].alive \/ Outstanding(P, r, p)
  PROVE  Adoptable(g, Lead(P, p))
<1>1. k \in Key
  BY DEF Sound, IsGraph
<1>2. k.pid = P[p].pid /\ g.nodes[k].origin = "Scanned" /\ k.start = Trunc(P[p].start)
  BY <1>1, OffKey
<1>3. /\ Lead(P, p) \notin DOMAIN g.nodes /\ k.pid \in DOMAIN g.byPid /\ g.byPid[k.pid] = k
      /\ g.nodes[k].exited = Alive
  BY DEF Single
<1>4. AbsDiff(P[p].start, Trunc(P[p].start)) <= Tolerance
  <2> DEFINE a == P[p].start
             b == Trunc(P[p].start)
  <2>1. a \in Nat /\ b \in Nat /\ b <= a /\ a - b < Tick /\ Tick \in Nat /\ Tolerance \in Nat
        /\ Tick <= Tolerance + 1
    BY ProcessIs, Constants
  <2> HIDE DEF a, b
  <2>2. AbsDiff(a, b) <= Tolerance
    BY SMTT(30), <2>1 DEF AbsDiff
  <2> QED
    BY <2>2 DEF a, b
<1>5. Lead(P, p).pid = P[p].pid /\ Lead(P, p).start = P[p].start
  BY ProcessIs
<1> QED
  BY <1>2, <1>3, <1>4, <1>5 DEF Adoptable

(* A node off its exact key, of a process still running or outstanding, is *)
(* not of the head's pid unless it is the head's.                          *)
LEMMA OffKeyHead ==
  ASSUME NEW P, NEW t, HostOK(P, t), NEW r, NEW U, RingOK(P, r, U), 1 \in 1..Len(r),
         NEW g, Scans(P, g, r), NEW p \in 1..Len(P), About(P, r[1], p),
         NEW k \in DOMAIN g.nodes, k \in Key, NEW q \in 1..Len(P), Named(P, g, k, q),
         k # Lead(P, q), P[q].alive \/ Outstanding(P, r, q), P[p].pid = P[q].pid
  PROVE  p = q
<1>1. k.pid = P[q].pid /\ g.nodes[k].origin = "Scanned" /\ k.start = Trunc(P[q].start)
  BY OffKey
<1>2. PICK o \in 1..Len(P) :
        /\ k.pid = P[o].pid /\ k.start = Trunc(P[o].start)
        /\ \A x \in 1..(o - 1) : P[x].pid = P[o].pid => ~Outstanding(P, r, x)
  BY <1>1 DEF Scans
<1>3. o = q
  BY <1>1, <1>2, OneName
<1>4. Outstanding(P, r, p)
  BY DEF Outstanding
<1>5. p <= q
  BY HeadFirst
<1>6. ~(p \in 1..(q - 1))
  BY <1>2, <1>3, <1>4
<1> QED
  BY SMTT(30), <1>5, <1>6

(* A graph that differs in nothing the clauses speak of.                   *)
Alike(g, h) ==
  /\ DOMAIN h.nodes = DOMAIN g.nodes /\ h.byPid = g.byPid
  /\ \A k \in DOMAIN g.nodes : Same(g, h, k)

(* Then the clauses hold of both.                                          *)
LEMMA AlikeOK ==
  ASSUME NEW P, NEW r, NEW U, NEW g, Sound(g), NEW h, GraphOK(P, g, r, U), Alike(g, h)
  PROVE  GraphOK(P, h, r, U)
<1>1. \A k \in DOMAIN g.nodes : Same(g, h, k)
  BY DEF Alike
<1>2. \A k \in DOMAIN g.nodes : \A p : Named(P, h, k, p) <=> Named(P, g, k, p)
  BY <1>1 DEF Named, Same
<1>3. \A k \in DOMAIN g.nodes : \A p : Leads(P, g, k, p) => Leads(P, h, k, p)
  BY <1>1, <1>2 DEF Leads, Same
<1>4. \A k \in DOMAIN g.nodes : g.nodes[k].parent # NoKey => g.nodes[k].parent \in DOMAIN g.nodes
  BY DEF Sound, Linked
<1>5. Covered(P, h) /\ Fresh(P, h, r)
  BY <1>2 DEF GraphOK, Covered, Fresh, Alike
<1>6. Scans(P, h, r)
  BY <1>1 DEF GraphOK, Scans, Alike, Same
<1>7. Single(P, h, r)
  BY <1>1, <1>2 DEF GraphOK, Single, Alike, Same
<1>8. Gone(P, h, r, U)
  BY <1>1, <1>2 DEF GraphOK, Gone, Alike, Same
<1>9. Lineal(P, h)
  BY <1>1, <1>2, <1>3, <1>4 DEF GraphOK, Lineal, Alike, Same
<1> QED
  BY <1>5, <1>6, <1>7, <1>8, <1>9 DEF GraphOK

(* Adopting the scanned node of the head's process under its exact key, or *)
(* under a thread's.                                                       *)
LEMMA MovesOK ==
  ASSUME NEW P, NEW t, HostOK(P, t), NEW r, NEW U, RingOK(P, r, U), 1 \in 1..Len(r),
         NEW g, Sound(g), GraphOK(P, g, r, U), NEW p \in 1..Len(P), About(P, r[1], p),
         NEW key \in Key, Spoken(P, key, p), NEW h, NEW from, Moves(g, h, from, key)
  PROVE  GraphOK(P, h, r, U)
<1>1. /\ from \in DOMAIN g.nodes /\ key \notin DOMAIN g.nodes /\ from.pid = key.pid
      /\ from.pid \in DOMAIN g.byPid /\ g.byPid[from.pid] = from
      /\ g.nodes[from].origin = "Scanned" /\ AbsDiff(key.start, from.start) <= Tolerance
      /\ DOMAIN h.nodes = (DOMAIN g.nodes \ {from}) \cup {key}
      /\ h.nodes[key].origin = "Observed" /\ h.nodes[key].exited = Alive
      /\ h.nodes[key].parent = g.nodes[from].parent /\ g.nodes[from].parent # from
  BY DEF Moves
<1>2. \A k \in DOMAIN g.nodes \ {from} :
        /\ h.nodes[k].origin = g.nodes[k].origin /\ h.nodes[k].exited = g.nodes[k].exited
        /\ h.nodes[k].parent = IF g.nodes[k].parent = from THEN key ELSE g.nodes[k].parent
  BY DEF Moves
<1>3. DOMAIN g.nodes \subseteq Key
  BY DEF Sound, IsGraph
<1>4. /\ Covered(P, g) /\ Scans(P, g, r) /\ Single(P, g, r)
      /\ Lineal(P, g) /\ Gone(P, g, r, U) /\ Fresh(P, g, r)
  BY DEF GraphOK
<1>5. from.pid = P[p].pid /\ from.start = Trunc(P[p].start)
  <2>1. /\ Scans(P, g, r) /\ from \in DOMAIN g.nodes /\ g.nodes[from].origin = "Scanned"
        /\ from.pid = key.pid /\ AbsDiff(key.start, from.start) <= Tolerance
    BY <1>1, <1>4
  <2> QED
    BY SMTT(30), <2>1, Adopts
<1>6. Named(P, g, from, p)
  BY <1>1, <1>5 DEF Named
<1>7. \A k \in DOMAIN g.nodes \ {from} : \A q : Named(P, h, k, q) <=> Named(P, g, k, q)
  BY <1>2 DEF Named
<1>8. ASSUME NEW q \in 1..Len(P), Named(P, h, key, q)
      PROVE  q = p /\ key = Lead(P, p)
  <2>1. key.pid = P[q].pid /\ key.start = P[q].start
    BY <1>1, <1>8 DEF Named
  <2>2. key = Lead(P, q)
    BY SMTT(30), <2>1, LeadIs
  <2> QED
    BY <2>2, OneSpeaker DEF Spoken
<1>9. Named(P, h, key, p) \/ Threads(P, key, p)
  BY SpokenNames
<1>10. Covered(P, h)
  BY <1>1, <1>4, <1>7, <1>9 DEF Covered
<1>11. Scans(P, h, r)
  BY SMTT(30), <1>1, <1>2, <1>4 DEF Scans
<1>12. Outstanding(P, r, p)
  BY DEF Outstanding
<1>13. Single(P, h, r)
  <2> SUFFICES ASSUME NEW k \in DOMAIN h.nodes, NEW q \in 1..Len(P), Named(P, h, k, q),
                      k # Lead(P, q), P[q].thread = NoThread
               PROVE  /\ Lead(P, q) \notin DOMAIN h.nodes
                      /\ P[q].alive \/ Outstanding(P, r, q) =>
                           /\ k.pid \in DOMAIN h.byPid /\ h.byPid[k.pid] = k
                           /\ h.nodes[k].exited = Alive
    BY DEF Single
  <2>1. k # key
    BY <1>8
  <2>2. k \in DOMAIN g.nodes \ {from} /\ Named(P, g, k, q) /\ k \in Key
    BY <1>1, <1>3, <1>7, <2>1
  <2>3. /\ Lead(P, q) \notin DOMAIN g.nodes
        /\ P[q].alive \/ Outstanding(P, r, q) =>
             /\ k.pid \in DOMAIN g.byPid /\ g.byPid[k.pid] = k
             /\ g.nodes[k].exited = Alive
    BY <1>4, <2>2 DEF Single
  <2>4. Lead(P, q) # key
    <3> SUFFICES ASSUME Lead(P, q) = key PROVE FALSE
      OBVIOUS
    <3>1. q = p
      BY OneSpeaker DEF Spoken
    <3>2. k.pid = P[p].pid /\ k.start = Trunc(P[p].start)
      BY SMTT(30), <2>2, <3>1, OffKey
    <3>3. k = from
      BY <1>1, <1>3, <1>5, <2>2, <3>2, SameKey
    <3> QED
      BY <2>2, <3>3
  <2>5. k.pid \in DOMAIN g.byPid /\ g.byPid[k.pid] = k =>
          k.pid \in DOMAIN h.byPid /\ h.byPid[k.pid] = k
    BY SMTT(30), <1>1, <2>2 DEF Moves
  <2> QED
    BY <1>1, <1>2, <2>2, <2>3, <2>4, <2>5
<1>14. Lineal(P, h)
  <2>1. ASSUME NEW k \in DOMAIN g.nodes \ {from}, NEW q, Leads(P, g, k, q)
        PROVE  Leads(P, h, k, q)
    BY <1>2, <1>7, <2>1 DEF Leads
  <2>2. ASSUME NEW q \in 1..Len(P), Leads(P, g, from, q)
        PROVE  Leads(P, h, key, q)
    <3>1. Named(P, g, from, q)
      BY <1>1, <2>2 DEF Leads
    <3>2. q = p
      BY <1>6, <3>1, NamedOnce
    <3> QED
      BY <1>1, <1>9, <3>2 DEF Leads
  <2>3. \A k \in DOMAIN g.nodes :
          g.nodes[k].parent # NoKey => g.nodes[k].parent \in DOMAIN g.nodes
    BY DEF Sound, Linked
  <2>4. \A x \in 1..Len(P) : \A q \in {P[x].parent, 1} \ {0, x} : q \in 1..Len(P)
    BY ParentIs
  <2> SUFFICES ASSUME NEW k \in DOMAIN h.nodes, NEW q \in 1..Len(P), Named(P, h, k, q),
                      h.nodes[k].parent # NoKey
               PROVE  \E x \in {P[q].parent, 1} \ {0, q} : Leads(P, h, h.nodes[k].parent, x)
    BY DEF Lineal
  <2>5. CASE k = key
    <3>1. q = p
      BY <1>8, <2>5
    <3>2. PICK x \in {P[p].parent, 1} \ {0, p} : Leads(P, g, g.nodes[from].parent, x)
      BY <1>1, <1>4, <1>6, <2>5 DEF Lineal
    <3>3. g.nodes[from].parent \in DOMAIN g.nodes \ {from}
      BY <1>1, <2>3, <2>5
    <3> QED
      BY <1>1, <2>1, <2>5, <3>1, <3>2, <3>3
  <2>6. CASE k # key
    <3>1. k \in DOMAIN g.nodes \ {from} /\ Named(P, g, k, q)
      BY <1>1, <1>7, <2>6
    <3>2. g.nodes[k].parent # NoKey
      BY <1>1, <1>2, <1>3, <3>1, GraphConstants
    <3>3. PICK x \in {P[q].parent, 1} \ {0, q} : Leads(P, g, g.nodes[k].parent, x)
      BY <1>4, <3>1, <3>2 DEF Lineal
    <3>4. x \in 1..Len(P)
      BY <2>4
    <3>5. Leads(P, h, h.nodes[k].parent, x)
      BY <1>2, <2>1, <2>2, <2>3, <3>1, <3>2, <3>3, <3>4
    <3> QED
      BY <3>5
  <2> QED
    BY <2>5, <2>6
<1>15. Gone(P, h, r, U)
  BY <1>1, <1>2, <1>4, <1>7, <1>8, <1>12 DEF Gone
<1>16. Fresh(P, h, r)
  BY <1>1, <1>4, <1>6, <1>7, <1>8 DEF Fresh
<1> QED
  BY <1>10, <1>11, <1>13, <1>14, <1>15, <1>16 DEF GraphOK

(* The parent links of a graph that has a node more lead where they led.   *)
LEMMA LinksStay ==
  ASSUME NEW P, NEW g, Sound(g), NEW h, Lineal(P, g), NEW k \in DOMAIN g.nodes,
         NEW q \in 1..Len(P), Named(P, h, k, q), h.nodes[k].parent # NoKey,
         \A x \in DOMAIN g.nodes : Same(g, h, x)
  PROVE  \E x \in {P[q].parent, 1} \ {0, q} : Leads(P, h, h.nodes[k].parent, x)
<1>1. h.nodes[k].parent = g.nodes[k].parent /\ g.nodes[k].parent \in DOMAIN g.nodes
  BY DEF Same, Sound, Linked
<1>2. Named(P, g, k, q)
  BY DEF Named, Same
<1>3. PICK x \in {P[q].parent, 1} \ {0, q} : Leads(P, g, g.nodes[k].parent, x)
  BY <1>1, <1>2 DEF Lineal
<1>4. Leads(P, h, h.nodes[k].parent, x)
  BY <1>1, <1>3 DEF Leads, Named, Same
<1> QED
  BY <1>4

(* A node found or made for the key of the event at the head.              *)
LEMMA EntersOK ==
  ASSUME NEW P, NEW t, HostOK(P, t), NEW r, NEW U, RingOK(P, r, U), 1 \in 1..Len(r),
         NEW g, Sound(g), GraphOK(P, g, r, U), NEW p \in 1..Len(P),
         NEW key \in Key, r[1].key = key, Spoken(P, key, p),
         NEW h, Enters(g, h, key), ~Adoptable(g, key)
  PROVE  GraphOK(P, h, r, U)
<1>1. /\ DOMAIN h.nodes = DOMAIN g.nodes \cup {key} /\ \A k \in DOMAIN g.nodes : Same(g, h, k)
      /\ key \notin DOMAIN g.nodes =>
           /\ h.nodes[key].origin = "Observed" /\ h.nodes[key].exited = Alive
           /\ h.nodes[key].parent = NoKey
  BY DEF Enters
<1>2. DOMAIN g.nodes \subseteq Key
  BY DEF Sound, IsGraph
<1>3. /\ Covered(P, g) /\ Scans(P, g, r) /\ Single(P, g, r)
      /\ Lineal(P, g) /\ Gone(P, g, r, U) /\ Fresh(P, g, r)
  BY DEF GraphOK
<1>4. About(P, r[1], p) /\ Outstanding(P, r, p)
  BY DEF About, Outstanding
<1>5. \A k \in DOMAIN g.nodes : \A q : Named(P, h, k, q) <=> Named(P, g, k, q)
  BY <1>1 DEF Named, Same
<1>6. ASSUME key \notin DOMAIN g.nodes, NEW q \in 1..Len(P), Named(P, h, key, q)
      PROVE  q = p /\ key = Lead(P, p)
  <2>1. key.pid = P[q].pid /\ key.start = P[q].start
    BY <1>1, <1>6 DEF Named
  <2>2. key = Lead(P, q)
    BY <2>1, LeadIs
  <2> QED
    BY <2>2, OneSpeaker DEF Spoken
<1>7. Covered(P, h)
  <2>1. Named(P, h, key, p) \/ Threads(P, key, p)
    BY SpokenNames
  <2> QED
    BY <1>1, <1>3, <1>5, <2>1 DEF Covered
<1>8. Scans(P, h, r)
  BY SMTT(30), <1>1, <1>3 DEF Scans, Same
<1>9. Single(P, h, r)
  <2> SUFFICES ASSUME NEW k \in DOMAIN h.nodes, NEW q \in 1..Len(P), Named(P, h, k, q),
                      k # Lead(P, q), P[q].thread = NoThread
               PROVE  /\ Lead(P, q) \notin DOMAIN h.nodes
                      /\ P[q].alive \/ Outstanding(P, r, q) =>
                           /\ k.pid \in DOMAIN h.byPid /\ h.byPid[k.pid] = k
                           /\ h.nodes[k].exited = Alive
    BY DEF Single
  <2>1. k \in DOMAIN g.nodes /\ k \in Key
    BY <1>1, <1>2, <1>6
  <2>2. Named(P, g, k, q)
    BY <1>5, <2>1
  <2>3. /\ Lead(P, q) \notin DOMAIN g.nodes
        /\ P[q].alive \/ Outstanding(P, r, q) =>
             /\ k.pid \in DOMAIN g.byPid /\ g.byPid[k.pid] = k
             /\ g.nodes[k].exited = Alive
    BY <1>3, <2>1, <2>2 DEF Single
  <2>4. Lead(P, q) # key
    <3> SUFFICES ASSUME Lead(P, q) = key PROVE FALSE
      OBVIOUS
    <3>1. q = p
      BY OneSpeaker DEF Spoken
    <3>2. Adoptable(g, Lead(P, p))
      BY <1>3, <1>4, <2>1, <2>2, <3>1, OffKeyAdoptable
    <3> QED
      BY <3>1, <3>2
  <2>5. ASSUME P[q].alive \/ Outstanding(P, r, q)
        PROVE  k.pid # key.pid
    <3> SUFFICES ASSUME k.pid = key.pid PROVE FALSE
      OBVIOUS
    <3>1. k.pid = P[q].pid /\ key.pid = P[p].pid
      BY <2>2, SpokenPid DEF Named
    <3>2. p = q
      BY <1>3, <1>4, <2>1, <2>2, <2>5, <3>1, OffKeyHead
    <3> QED
      BY <2>4, <3>2 DEF Spoken, Threads
  <2>6. ASSUME P[q].alive \/ Outstanding(P, r, q)
        PROVE  /\ k.pid \in DOMAIN h.byPid /\ h.byPid[k.pid] = k /\ h.nodes[k].exited = Alive
    BY <1>1, <2>1, <2>3, <2>5, <2>6 DEF Enters, Same
  <2> QED
    BY <1>1, <2>3, <2>4, <2>6
<1>10. Lineal(P, h)
  <2> SUFFICES ASSUME NEW k \in DOMAIN h.nodes, NEW q \in 1..Len(P), Named(P, h, k, q),
                      h.nodes[k].parent # NoKey
               PROVE  \E x \in {P[q].parent, 1} \ {0, q} : Leads(P, h, h.nodes[k].parent, x)
    BY DEF Lineal
  <2>1. k \in DOMAIN g.nodes
    BY <1>1
  <2> QED
    BY <1>1, <1>3, <2>1, LinksStay
<1>11. Gone(P, h, r, U)
  BY SMTT(30), <1>1, <1>3, <1>4, <1>5, <1>6 DEF Gone, Same
<1>12. Fresh(P, h, r)
  <2> SUFFICES ASSUME NEW k \in DOMAIN h.nodes, NEW q \in 1..Len(P), NEW i \in 1..Len(r),
                      Born(P, r[i], q), Named(P, h, k, q)
               PROVE  FALSE
    BY DEF Fresh
  <2>1. key \notin DOMAIN g.nodes /\ k = key
    BY <1>1, <1>3, <1>5 DEF Fresh
  <2>2. q = p
    BY <1>6, <2>1
  <2>3. CASE i = 1
    <3> Origin(P, r[1]) /\ r[1].type = "Fork"
      BY <2>3 DEF RingOK, Born
    <3>1. PICK f \in 1..Len(P) :
            /\ Spoken(P, r[1].key, f)
            /\ \E c \in 1..Len(P) : r[1].child = Lead(P, c) /\ P[c].pid # P[f].pid
      BY DEF Origin
    <3>2. PICK c \in 1..Len(P) : r[1].child = Lead(P, c) /\ P[c].pid # P[f].pid
      BY <3>1
    <3>3. f = p
      BY <3>1, OneSpeaker
    <3>4. c = p
      BY <2>2, <2>3, <3>2, OneSpeaker DEF Born, Spoken
    <3> QED
      BY <3>2, <3>3, <3>4
  <2>4. CASE i # 1
    <3>1. 1 < i
      BY SMTT(30), <2>4
    <3> QED
      BY <1>4, <2>2, <3>1 DEF RingOK
  <2> QED
    BY <2>3, <2>4
<1> QED
  BY <1>7, <1>8, <1>9, <1>10, <1>11, <1>12 DEF GraphOK

-----------------------------------------------------------------------------
(* The event at the head is taken from the ring. *)

(* What is in the tail of the ring.                                        *)
LEMMA TailIs ==
  ASSUME NEW r, r \in Seq(Event), r # <<>>
  PROVE  /\ 1 \in 1..Len(r) /\ Len(Tail(r)) \in Nat /\ Len(r) = Len(Tail(r)) + 1
         /\ \A i \in 1..Len(Tail(r)) :
              i + 1 \in 1..Len(r) /\ 1 < i + 1 /\ Tail(r)[i] = r[i + 1]
         /\ \A i \in 1..Len(r) : i # 1 => i - 1 \in 1..Len(Tail(r)) /\ Tail(r)[i - 1] = r[i]
         /\ Tail(r) \in Seq(Event) /\ Head(r) = r[1] /\ r[1] \in Event
<1>1. Len(r) \in Nat /\ Len(r) > 0 /\ Len(Tail(r)) = Len(r) - 1 /\ Tail(r) \in Seq(Event)
  BY SMTT(30)
<1>2. \A i \in 1..Len(Tail(r)) : Tail(r)[i] = r[i + 1]
  BY SMTT(30), <1>1
<1>3. \A i \in 1..Len(Tail(r)) : i + 1 \in 1..Len(r) /\ 1 < i + 1
  BY SMTT(30), <1>1
<1>4. ASSUME NEW i \in 1..Len(r), i # 1
      PROVE  i - 1 \in 1..Len(Tail(r)) /\ Tail(r)[i - 1] = r[i]
  <2>1. i - 1 \in 1..Len(Tail(r)) /\ (i - 1) + 1 = i
    BY SMTT(30), <1>1, <1>4
  <2> QED
    BY <1>2, <2>1
<1> QED
  BY SMTT(30), <1>1, <1>2, <1>3, <1>4

(* What the tail of the ring still speaks of.                              *)
LEMMA TailOutstanding ==
  ASSUME NEW P, NEW r, r \in Seq(Event), r # <<>>, NEW p
  PROVE  /\ Outstanding(P, Tail(r), p) => Outstanding(P, r, p)
         /\ Outstanding(P, r, p) => About(P, r[1], p) \/ Outstanding(P, Tail(r), p)
<1>1. ASSUME Outstanding(P, Tail(r), p) PROVE Outstanding(P, r, p)
  BY <1>1, TailIs DEF Outstanding
<1>2. ASSUME Outstanding(P, r, p), ~About(P, r[1], p) PROVE Outstanding(P, Tail(r), p)
  <2>1. PICK i \in 1..Len(r) : About(P, r[i], p)
    BY <1>2 DEF Outstanding
  <2>2. i # 1
    BY <1>2, <2>1
  <2>3. i - 1 \in 1..Len(Tail(r)) /\ Tail(r)[i - 1] = r[i]
    BY <2>2, TailIs
  <2> QED
    BY <2>1, <2>3 DEF Outstanding
<1> QED
  BY <1>1, <1>2

(* The ring without its head.                                              *)
LEMMA RingTail ==
  ASSUME NEW P, NEW r, r \in Seq(Event), r # <<>>, NEW U, RingOK(P, r, U)
  PROVE  RingOK(P, Tail(r), U)
<1> DEFINE s == Tail(r)
<1>1. /\ Len(s) \in Nat /\ Len(r) = Len(s) + 1
      /\ \A i \in 1..Len(s) : i + 1 \in 1..Len(r) /\ s[i] = r[i + 1]
      /\ \A i \in 1..Len(r) : i # 1 => i - 1 \in 1..Len(s) /\ s[i - 1] = r[i]
  BY TailIs
<1> HIDE DEF s
<1>2. \A i \in 1..Len(s) : s[i] \in Event /\ Origin(P, s[i])
  BY <1>1 DEF RingOK
<1>3. \A i, j \in 1..Len(s), p, q \in 1..Len(P) :
        i < j /\ About(P, s[i], p) /\ About(P, s[j], q) /\ P[p].pid = P[q].pid => p <= q
  <2> SUFFICES ASSUME NEW i \in 1..Len(s), NEW j \in 1..Len(s), NEW p \in 1..Len(P),
                      NEW q \in 1..Len(P), i < j, About(P, s[i], p), About(P, s[j], q),
                      P[p].pid = P[q].pid
               PROVE  p <= q
    OBVIOUS
  <2>1. i + 1 < j + 1
    BY SMTT(30)
  <2> QED
    BY <1>1, <2>1 DEF RingOK
<1>4. \A i, j \in 1..Len(s), p \in 1..Len(P) :
        i < j => /\ Leaves(P, s[i], p) => ~About(P, s[j], p)
                 /\ Born(P, s[j], p) => ~About(P, s[i], p)
  <2> SUFFICES ASSUME NEW i \in 1..Len(s), NEW j \in 1..Len(s), NEW p \in 1..Len(P), i < j
               PROVE  /\ Leaves(P, s[i], p) => ~About(P, s[j], p)
                      /\ Born(P, s[j], p) => ~About(P, s[i], p)
    OBVIOUS
  <2>1. i + 1 < j + 1
    BY SMTT(30)
  <2> QED
    BY <1>1, <2>1 DEF RingOK
<1>5. ASSUME NEW i \in 1..Len(s), NEW p \in 1..Len(P) \ U, About(P, s[i], p), ~P[p].alive
      PROVE  \E j \in i..Len(s) : Leaves(P, s[j], p)
  <2>1. PICK j \in (i + 1)..Len(r) : Leaves(P, r[j], p)
    BY <1>1, <1>5 DEF RingOK
  <2>2. j \in 1..Len(r) /\ j # 1 /\ j - 1 \in i..Len(s)
    BY SMTT(30), <1>1
  <2> QED
    BY <1>1, <2>1, <2>2
<1> QED
  BY <1>2, <1>3, <1>4, <1>5 DEF RingOK, s

(* What the exit of a process that is gone still guarantees: it is not the *)
(* last heard of it unless it is the exit.                                 *)
LEMMA HeadNotLast ==
  ASSUME NEW P, NEW r, r \in Seq(Event), r # <<>>, NEW U, RingOK(P, r, U),
         NEW p \in 1..Len(P) \ U, About(P, r[1], p), ~P[p].alive, r[1].type # "Exit"
  PROVE  Outstanding(P, Tail(r), p)
<1>1. PICK j \in 1..Len(r) : Leaves(P, r[j], p)
  BY TailIs DEF RingOK
<1>2. j # 1
  BY <1>1 DEF Leaves
<1>3. About(P, r[j], p)
  BY <1>1 DEF Leaves, About, Spoken
<1> QED
  BY <1>2, <1>3, TailIs DEF Outstanding

(* An event other than an exit is taken from the ring and the graph knows  *)
(* what it did.                                                            *)
LEMMA TailOK ==
  ASSUME NEW P, NEW r, r \in Seq(Event), r # <<>>, NEW U, RingOK(P, r, U),
         NEW g, GraphOK(P, g, r, U), r[1].type # "Exit"
  PROVE  GraphOK(P, g, Tail(r), U)
<1>1. \A p : /\ Outstanding(P, Tail(r), p) => Outstanding(P, r, p)
             /\ Outstanding(P, r, p) => About(P, r[1], p) \/ Outstanding(P, Tail(r), p)
  BY TailOutstanding
<1>2. Scans(P, g, Tail(r)) /\ Single(P, g, Tail(r))
  BY <1>1 DEF GraphOK, Scans, Single
<1>3. Gone(P, g, Tail(r), U)
  BY <1>1, HeadNotLast DEF GraphOK, Gone
<1>4. Fresh(P, g, Tail(r))
  BY SMTT(30), TailIs DEF GraphOK, Fresh
<1> QED
  BY <1>2, <1>3, <1>4 DEF GraphOK

(* The child of a fork has a node, linked to its parent's.                 *)
Forks(g, h, key, child) ==
  /\ key \in DOMAIN g.nodes /\ child \notin DOMAIN g.nodes
  /\ DOMAIN h.nodes = DOMAIN g.nodes \cup {child}
  /\ \A k \in DOMAIN g.nodes : Same(g, h, k)
  /\ h.nodes[child].origin = "Observed" /\ h.nodes[child].exited = Alive
  /\ h.nodes[child].parent = key
  /\ DOMAIN h.byPid = DOMAIN g.byPid \cup {child.pid}
  /\ \A x \in DOMAIN h.byPid : h.byPid[x] = IF x = child.pid THEN child ELSE g.byPid[x]

(* A fork is the first the graph hears of the child.                       *)
LEMMA ForkIsNew ==
  ASSUME NEW P, NEW t, HostOK(P, t), NEW r, NEW U, RingOK(P, r, U), 1 \in 1..Len(r),
         NEW g, Fresh(P, g, r), NEW c \in 1..Len(P), Born(P, r[1], c)
  PROVE  Lead(P, c) \notin DOMAIN g.nodes
  BY ProcessIs DEF Fresh, Named

(* The fork at the head of the ring is applied.                            *)
LEMMA ForkOK ==
  ASSUME NEW P, NEW t, HostOK(P, t), NEW r, r \in Seq(Event), r # <<>>, NEW U,
         RingOK(P, r, U), NEW g, Sound(g), GraphOK(P, g, r, U), NEW p \in 1..Len(P),
         NEW c \in 1..Len(P), Spoken(P, r[1].key, p), Born(P, r[1], c),
         P[c].parent = p, P[c].pid # P[p].pid, NEW h, Forks(g, h, r[1].key, Lead(P, c))
  PROVE  GraphOK(P, h, Tail(r), U)
<1> DEFINE key == r[1].key
           child == Lead(P, c)
           s == Tail(r)
<1>1. /\ key \in DOMAIN g.nodes /\ child \notin DOMAIN g.nodes
      /\ DOMAIN h.nodes = DOMAIN g.nodes \cup {child}
      /\ \A k \in DOMAIN g.nodes : Same(g, h, k)
      /\ h.nodes[child].origin = "Observed" /\ h.nodes[child].exited = Alive
      /\ h.nodes[child].parent = key
  BY DEF Forks
<1>2. DOMAIN g.nodes \subseteq Key /\ child \in Key
  BY ProcessIs DEF Sound, IsGraph
<1>3. /\ Covered(P, g) /\ Scans(P, g, r) /\ Single(P, g, r)
      /\ Lineal(P, g) /\ Gone(P, g, r, U) /\ Fresh(P, g, r)
  BY DEF GraphOK
<1>4. Scans(P, g, s) /\ Single(P, g, s) /\ Gone(P, g, s, U) /\ Fresh(P, g, s)
  BY TailOK DEF GraphOK, Born
<1>5. /\ 1 \in 1..Len(r) /\ About(P, r[1], c) /\ About(P, r[1], p)
      /\ \A q : Outstanding(P, s, q) => Outstanding(P, r, q)
  BY TailIs, TailOutstanding DEF About
<1>6. \A k \in DOMAIN g.nodes : \A q : Named(P, h, k, q) <=> Named(P, g, k, q)
  BY <1>1 DEF Named, Same
<1> HIDE DEF s, child, key
<1>7. ASSUME NEW q \in 1..Len(P), Named(P, h, child, q)
      PROVE  q = c
  <2>1. child.pid = P[q].pid /\ child.start = P[q].start
    BY <1>1, <1>7 DEF Named
  <2>2. child = Lead(P, q)
    BY SMTT(30), <1>2, <2>1, LeadIs
  <2> QED
    BY <2>2, OneSpeaker DEF Spoken, child
<1>8. Named(P, h, child, c)
  BY ProcessIs DEF Named, child
<1>9. \A k \in DOMAIN g.nodes : ~Named(P, g, k, c)
  BY <1>3, <1>5 DEF Fresh
<1>10. Covered(P, h)
  BY <1>1, <1>3, <1>6, <1>8 DEF Covered
<1>11. Scans(P, h, s)
  BY <1>1, <1>4 DEF Scans, Same
<1>12. Single(P, h, s)
  <2> SUFFICES ASSUME NEW k \in DOMAIN h.nodes, NEW q \in 1..Len(P), Named(P, h, k, q),
                      k # Lead(P, q), P[q].thread = NoThread
               PROVE  /\ Lead(P, q) \notin DOMAIN h.nodes
                      /\ P[q].alive \/ Outstanding(P, s, q) =>
                           /\ k.pid \in DOMAIN h.byPid /\ h.byPid[k.pid] = k
                           /\ h.nodes[k].exited = Alive
    BY DEF Single
  <2>1. k \in DOMAIN g.nodes /\ k \in Key
    BY <1>1, <1>2, <1>7 DEF child
  <2>2. Named(P, g, k, q) /\ q # c
    BY <1>6, <1>9, <2>1
  <2>3. /\ Lead(P, q) \notin DOMAIN g.nodes
        /\ P[q].alive \/ Outstanding(P, s, q) =>
             /\ k.pid \in DOMAIN g.byPid /\ g.byPid[k.pid] = k
             /\ g.nodes[k].exited = Alive
    BY <1>4, <2>1, <2>2 DEF Single
  <2>4. Lead(P, q) # child
    BY <2>2, OneSpeaker DEF Spoken, child
  <2>5. ASSUME P[q].alive \/ Outstanding(P, s, q)
        PROVE  k.pid # child.pid
    <3> SUFFICES ASSUME k.pid = child.pid PROVE FALSE
      OBVIOUS
    <3>1. P[c].pid = P[q].pid
      BY <2>2, ProcessIs DEF Named, child
    <3>2. c = q
      BY <1>3, <1>5, <2>1, <2>2, <2>5, <3>1, OffKeyHead
    <3> QED
      BY <2>2, <3>2
  <2>6. ASSUME P[q].alive \/ Outstanding(P, s, q)
        PROVE  /\ k.pid \in DOMAIN h.byPid /\ h.byPid[k.pid] = k /\ h.nodes[k].exited = Alive
    BY <1>1, <2>1, <2>3, <2>5, <2>6 DEF Forks, Same, child
  <2> QED
    BY <1>1, <2>3, <2>4, <2>6
<1>13. Lineal(P, h)
  <2> SUFFICES ASSUME NEW k \in DOMAIN h.nodes, NEW q \in 1..Len(P), Named(P, h, k, q),
                      h.nodes[k].parent # NoKey
               PROVE  \E x \in {P[q].parent, 1} \ {0, q} : Leads(P, h, h.nodes[k].parent, x)
    BY DEF Lineal
  <2>1. CASE k \in DOMAIN g.nodes
    BY <1>1, <1>3, <2>1, LinksStay
  <2>2. CASE k = child
    <3>1. q = c /\ p # c /\ p # 0
      BY SMTT(30), <1>7, <2>2
    <3>2. Named(P, h, key, p) \/ Threads(P, key, p)
      BY SpokenNames DEF key
    <3>3. Threads(P, key, p) => h.nodes[key].origin = "Observed"
      <4>1. Scans(P, g, r) /\ 1 \in 1..Len(r) /\ About(P, r[1], p) /\ key \in DOMAIN g.nodes
        BY <1>1, <1>3, <1>5
      <4>2. Threads(P, key, p) => g.nodes[key].origin = "Observed"
        BY SMTT(30), <4>1, ThreadObserved
      <4> QED
        BY <1>1, <4>1, <4>2 DEF Same
    <3>4. Leads(P, h, h.nodes[k].parent, p)
      BY <1>1, <2>2, <3>2, <3>3 DEF Leads
    <3>5. p \in {P[q].parent, 1} \ {0, q}
      BY <3>1
    <3> QED
      BY <3>4, <3>5
  <2> QED
    BY <1>1, <2>1, <2>2
<1>14. Gone(P, h, s, U)
  <2>1. c \notin U /\ ~P[c].alive => Outstanding(P, s, c)
    BY <1>5, HeadNotLast DEF s, Born
  <2> QED
    BY SMTT(30), <1>1, <1>4, <1>6, <1>7, <2>1 DEF Gone, Same
<1>15. Fresh(P, h, s)
  <2>1. ASSUME NEW i \in 1..Len(s), Born(P, s[i], c)
        PROVE  FALSE
    <3>1. i + 1 \in 1..Len(r) /\ s[i] = r[i + 1] /\ 1 < i + 1
      BY TailIs DEF s
    <3> QED
      BY <1>5, <2>1, <3>1 DEF RingOK
  <2> QED
    BY <1>1, <1>4, <1>6, <1>7, <2>1 DEF Fresh
<1> QED
  BY <1>10, <1>11, <1>12, <1>13, <1>14, <1>15 DEF GraphOK, s

(* The node of the key, if there is one, is marked and the pid forgotten.  *)
Marks(g, h, key) ==
  /\ DOMAIN h.nodes = DOMAIN g.nodes
  /\ \A k \in DOMAIN g.nodes \ {key} : Same(g, h, k)
  /\ key \in DOMAIN g.nodes =>
       /\ h.nodes[key].origin = g.nodes[key].origin /\ h.nodes[key].exited # Alive
       /\ h.nodes[key].parent = g.nodes[key].parent
  /\ DOMAIN h.byPid = DOMAIN g.byPid \ {key.pid}
  /\ \A x \in DOMAIN h.byPid : h.byPid[x] = g.byPid[x]

(* The exit at the head of the ring is applied.                            *)
LEMMA ExitOK ==
  ASSUME NEW P, NEW t, HostOK(P, t), NEW r, r \in Seq(Event), r # <<>>, NEW U,
         RingOK(P, r, U), NEW g, Sound(g), GraphOK(P, g, r, U), NEW p \in 1..Len(P),
         r[1].type = "Exit", r[1].key = Lead(P, p), ~P[p].alive,
         ~Adoptable(g, Lead(P, p)), NEW h, Marks(g, h, Lead(P, p))
  PROVE  GraphOK(P, h, Tail(r), U)
<1> DEFINE key == Lead(P, p)
           s == Tail(r)
<1>1. /\ DOMAIN h.nodes = DOMAIN g.nodes
      /\ \A k \in DOMAIN g.nodes :
           /\ h.nodes[k].origin = g.nodes[k].origin /\ h.nodes[k].parent = g.nodes[k].parent
           /\ k # key => h.nodes[k].exited = g.nodes[k].exited
      /\ key \in DOMAIN g.nodes => h.nodes[key].exited # Alive
  BY DEF Marks, Same
<1>2. DOMAIN g.nodes \subseteq Key /\ key \in Key /\ key.pid = P[p].pid
  BY ProcessIs DEF Sound, IsGraph
<1>3. /\ Covered(P, g) /\ Scans(P, g, r) /\ Single(P, g, r)
      /\ Lineal(P, g) /\ Gone(P, g, r, U) /\ Fresh(P, g, r)
  BY DEF GraphOK
<1>4. /\ 1 \in 1..Len(r) /\ Leaves(P, r[1], p) /\ About(P, r[1], p) /\ Outstanding(P, r, p)
      /\ \A q : /\ Outstanding(P, s, q) => Outstanding(P, r, q)
                /\ Outstanding(P, r, q) => About(P, r[1], q) \/ Outstanding(P, s, q)
  BY TailIs, TailOutstanding DEF About, Spoken, Leaves, Outstanding
<1> HIDE DEF s, key
<1>5. ASSUME NEW q \in 1..Len(P), About(P, r[1], q)
      PROVE  q = p
  BY <1>5, OneSpeaker DEF About, Born, Spoken
<1>6. ~Outstanding(P, s, p)
  <2> SUFFICES ASSUME NEW i \in 1..Len(s), About(P, s[i], p) PROVE FALSE
    BY DEF Outstanding
  <2>1. i + 1 \in 1..Len(r) /\ s[i] = r[i + 1]
    BY TailIs DEF s
  <2>2. 1 < i + 1
    BY SMTT(30)
  <2> QED
    BY <1>4, <2>1, <2>2 DEF RingOK
<1>7. \A k \in DOMAIN g.nodes : \A q : Named(P, h, k, q) <=> Named(P, g, k, q)
  BY <1>1 DEF Named
<1>8. Covered(P, h)
  BY <1>1, <1>3, <1>7 DEF Covered
<1>9. Scans(P, h, s)
  BY SMTT(30), <1>1, <1>3, <1>4 DEF Scans
<1>10. Single(P, h, s)
  <2> SUFFICES ASSUME NEW k \in DOMAIN h.nodes, NEW q \in 1..Len(P), Named(P, h, k, q),
                      k # Lead(P, q), P[q].thread = NoThread
               PROVE  /\ Lead(P, q) \notin DOMAIN h.nodes
                      /\ P[q].alive \/ Outstanding(P, s, q) =>
                           /\ k.pid \in DOMAIN h.byPid /\ h.byPid[k.pid] = k
                           /\ h.nodes[k].exited = Alive
    BY DEF Single
  <2>1. k \in DOMAIN g.nodes /\ k \in Key /\ Named(P, g, k, q)
    BY <1>1, <1>2, <1>7
  <2>2. /\ Lead(P, q) \notin DOMAIN g.nodes
        /\ P[q].alive \/ Outstanding(P, s, q) =>
             /\ k.pid \in DOMAIN g.byPid /\ g.byPid[k.pid] = k
             /\ g.nodes[k].exited = Alive
    BY <1>3, <1>4, <2>1 DEF Single
  <2>3. ASSUME P[q].alive \/ Outstanding(P, s, q)
        PROVE  k.pid # key.pid
    <3> SUFFICES ASSUME k.pid = key.pid PROVE FALSE
      OBVIOUS
    <3>1. P[p].pid = P[q].pid
      BY <1>2, <2>1 DEF Named
    <3>2. p = q
      BY <1>3, <1>4, <2>1, <2>3, <3>1, OffKeyHead
    <3> QED
      BY <1>6, <2>3, <3>2
  <2>4. ASSUME P[q].alive \/ Outstanding(P, s, q)
        PROVE  /\ k.pid \in DOMAIN h.byPid /\ h.byPid[k.pid] = k /\ h.nodes[k].exited = Alive
    <3>1. k.pid \in DOMAIN g.byPid /\ k.pid # key.pid /\ k # key
      BY <2>2, <2>3, <2>4
    <3> QED
      BY <1>1, <2>1, <2>2, <2>4, <3>1 DEF Marks, key
  <2> QED
    BY <1>1, <2>2, <2>4
<1>11. Lineal(P, h)
  <2>1. \A k \in DOMAIN g.nodes : \A q : Leads(P, g, k, q) => Leads(P, h, k, q)
    BY <1>1, <1>7 DEF Leads
  <2>2. \A k \in DOMAIN g.nodes :
          g.nodes[k].parent # NoKey => g.nodes[k].parent \in DOMAIN g.nodes
    BY DEF Sound, Linked
  <2> QED
    BY <1>1, <1>3, <1>7, <2>1, <2>2 DEF Lineal
<1>12. Gone(P, h, s, U)
  <2> SUFFICES ASSUME NEW k \in DOMAIN h.nodes, NEW q \in 1..Len(P) \ U, Named(P, h, k, q),
                      P[q].thread = NoThread, ~P[q].alive, ~Outstanding(P, s, q)
               PROVE  h.nodes[k].exited # Alive
    BY DEF Gone
  <2>1. k \in DOMAIN g.nodes /\ Named(P, g, k, q)
    BY <1>1, <1>7
  <2>2. CASE Outstanding(P, r, q)
    <3>1. q = p
      BY <1>4, <1>5, <2>2
    <3>2. k = key
      BY <1>3, <1>4, <2>1, <3>1, OffKeyAdoptable DEF key
    <3> QED
      BY <1>1, <2>1, <3>2
  <2>3. CASE ~Outstanding(P, r, q)
    <3>1. g.nodes[k].exited # Alive
      BY <1>3, <2>1, <2>3 DEF Gone
    <3> QED
      BY <1>1, <2>1, <3>1
  <2> QED
    BY <2>2, <2>3
<1>13. Fresh(P, h, s)
  <2>1. \A i \in 1..Len(s) : i + 1 \in 1..Len(r) /\ s[i] = r[i + 1]
    BY TailIs DEF s
  <2> QED
    BY <1>1, <1>3, <1>7, <2>1 DEF Fresh
<1> QED
  BY <1>8, <1>9, <1>10, <1>11, <1>12, <1>13 DEF GraphOK, s

(* remove(): what is left is as it was, or has lost a parent.              *)
LEMMA RemoveOK ==
  ASSUME NEW P, NEW r, NEW U, NEW g, Sound(g), GraphOK(P, g, r, U), NEW S
  PROVE  GraphOK(P, Remove(g, S), r, U)
<1> DEFINE h == Remove(g, S)
           nd(k) == g.nodes[k]
           lost(k) == {c \in S \cap DOMAIN g.nodes : g.nodes[c].parent = k}
           orphan(k) == \E p \in S \cap DOMAIN g.nodes : k \in g.nodes[p].children
<1>1. /\ h.nodes = [k \in DOMAIN g.nodes \ S |->
                      [nd(k) EXCEPT !.children = @ \ lost(k),
                                    !.parent = IF orphan(k) THEN NoKey ELSE @]]
      /\ DOMAIN h.byPid = {p \in DOMAIN g.byPid : g.byPid[p] \notin S \cap DOMAIN g.nodes}
      /\ \A p \in DOMAIN h.byPid : h.byPid[p] = g.byPid[p]
  BY DEF Remove, Drop
<1>2. Sound(h)
  BY RemoveSound
<1> HIDE DEF h, nd, lost, orphan
<1>3. ASSUME NEW k \in DOMAIN g.nodes PROVE nd(k) \in Node
  BY <1>3 DEF Sound, IsGraph, nd
<1>4. DOMAIN h.nodes = DOMAIN g.nodes \ S
  BY <1>1
<1>5. ASSUME NEW k \in DOMAIN h.nodes
      PROVE  /\ h.nodes[k].origin = g.nodes[k].origin /\ h.nodes[k].exited = g.nodes[k].exited
             /\ h.nodes[k].parent \in {g.nodes[k].parent, NoKey}
  <2>1. /\ nd(k) \in Node
        /\ h.nodes[k] = [nd(k) EXCEPT !.children = @ \ lost(k),
                                      !.parent = IF orphan(k) THEN NoKey ELSE @]
    BY <1>1, <1>3, <1>4, <1>5
  <2>2. /\ h.nodes[k].origin = nd(k).origin /\ h.nodes[k].exited = nd(k).exited
        /\ h.nodes[k].parent \in {nd(k).parent, NoKey}
    BY <2>1 DEF Node
  <2> QED
    BY <2>2 DEF nd
<1>6. \A k \in DOMAIN h.nodes : \A q : Named(P, h, k, q) <=> Named(P, g, k, q)
  BY <1>5 DEF Named
<1>7. Covered(P, h) /\ Fresh(P, h, r)
  BY <1>4, <1>6 DEF GraphOK, Covered, Fresh
<1>8. Scans(P, h, r)
  BY <1>4, <1>5 DEF GraphOK, Scans
<1>9. Gone(P, h, r, U)
  BY <1>4, <1>5, <1>6 DEF GraphOK, Gone
<1>10. Single(P, h, r)
  BY <1>1, <1>4, <1>5, <1>6 DEF GraphOK, Single
<1>11. Lineal(P, h)
  <2>1. \A k \in DOMAIN h.nodes : \A q : Leads(P, g, k, q) => Leads(P, h, k, q)
    BY <1>5, <1>6 DEF Leads
  <2>2. \A k \in DOMAIN h.nodes :
          h.nodes[k].parent # NoKey => h.nodes[k].parent \in DOMAIN h.nodes
    BY <1>2 DEF Sound, Linked
  <2> QED
    BY <1>4, <1>5, <1>6, <2>1, <2>2 DEF GraphOK, Lineal
<1> QED
  BY <1>7, <1>8, <1>9, <1>10, <1>11 DEF GraphOK, h

(* The fields of an event of the ring.                                     *)
LEMMA EventIs ==
  ASSUME NEW ev \in Event
  PROVE  /\ ev.key \in Key /\ ev.ts \in Times /\ ev.ts # Alive
         /\ ev.type \in {"Fork", "Exec", "Exit", "CredChange", "FileOpen"}
         /\ ev.type = "Fork" => ev.child \in Key
<1>1. /\ ev.key \in Key /\ ev.ts \in Times
      /\ ev.type \in {"Fork", "Exec", "Exit", "CredChange", "FileOpen"}
      /\ ev.type = "Fork" => ev.child \in Key
  BY DEF Event, EventOf, StructuralTypes, BehaviourTypes
<1>2. ev.ts # Alive
  BY SMTT(30), <1>1, Constants DEF Alive
<1> QED
  BY <1>1, <1>2

(* The process that raised the event at the head.                          *)
LEMMA TouchOK ==
  ASSUME NEW P, NEW t, HostOK(P, t), NEW r, r \in Seq(Event), r # <<>>, NEW U,
         RingOK(P, r, U), NEW g, Sound(g), GraphOK(P, g, r, U)
  PROVE  LET h == Touch(g, r[1].key)
         IN  Sound(h) /\ r[1].key \in DOMAIN h.nodes /\ GraphOK(P, h, r, U)
<1> DEFINE h == Touch(g, r[1].key)
           key == r[1].key
<1>1. 1 \in 1..Len(r) /\ key \in Key
  BY TailIs, EventIs
<1>2. PICK p \in 1..Len(P) : Spoken(P, key, p)
  BY <1>1 DEF RingOK, Origin
<1>3. About(P, r[1], p)
  BY <1>2 DEF About
<1>4. /\ Sound(h) /\ key \in DOMAIN h.nodes
      /\ IF Adoptable(g, key) THEN Moves(g, h, g.byPid[key.pid], key) ELSE Enters(g, h, key)
  BY <1>1, TouchIs
<1> HIDE DEF h
<1>5. CASE Adoptable(g, key)
  BY <1>1, <1>2, <1>3, <1>4, <1>5, MovesOK DEF h
<1>6. CASE ~Adoptable(g, key)
  BY <1>1, <1>2, <1>4, <1>6, EntersOK DEF h
<1> QED
  BY <1>5, <1>6

(* Writing descriptive fields of a node.                                   *)
LEMMA LabelOK ==
  ASSUME NEW P, NEW r, NEW U, NEW g, Sound(g), GraphOK(P, g, r, U),
         NEW key \in DOMAIN g.nodes, NEW n, n.parent = g.nodes[key].parent,
         n.origin = g.nodes[key].origin, n.exited = g.nodes[key].exited
  PROVE  GraphOK(P, SetNode(g, key, n), r, U)
<1> DEFINE h == SetNode(g, key, n)
<1>1. h.nodes = [g.nodes EXCEPT ![key] = n] /\ h.byPid = g.byPid
  BY DEF Sound, IsGraph, SetNode
<1>2. g.nodes = [k \in DOMAIN g.nodes |-> g.nodes[k]]
  BY DEF Sound, IsGraph
<1> HIDE DEF h
<1>3. DOMAIN h.nodes = DOMAIN g.nodes /\ \A k \in DOMAIN g.nodes : Same(g, h, k)
  BY <1>1, <1>2 DEF Same
<1>4. Alike(g, h)
  BY <1>1, <1>3 DEF Alike
<1> QED
  BY <1>4, AlikeOK DEF h

(* on_fork() after the parent's node is there.                             *)
LEMMA ForksIs ==
  ASSUME NEW g, Sound(g), NEW key \in DOMAIN g.nodes, NEW child \in Key,
         child \notin DOMAIN g.nodes, NEW n,
         n.parent = key, n.origin = "Observed", n.exited = Alive
  PROVE  LET g3 == SetNode(Ensure(g, child, "Observed"), child, n)
         IN  Forks(g, SetNode(g3, key, [g3.nodes[key] EXCEPT !.children = @ \cup {child}]),
                   key, child)
<1> DEFINE g2 == Ensure(g, child, "Observed")
           g3 == SetNode(g2, child, n)
           m == [g3.nodes[key] EXCEPT !.children = @ \cup {child}]
           h == SetNode(g3, key, m)
<1>1. /\ Sound(g2) /\ DOMAIN g2.nodes = DOMAIN g.nodes \cup {child}
      /\ \A k \in DOMAIN g.nodes : g2.nodes[k] = g.nodes[k]
  BY EnsureSound
<1>2. g2.byPid = Put(g.byPid, child.pid, child)
  BY DEF Ensure
<1> HIDE DEF g2
<1>3. /\ g2 = [nodes |-> g2.nodes, byPid |-> g2.byPid]
      /\ g2.nodes = [k \in DOMAIN g2.nodes |-> g2.nodes[k]]
      /\ g2.nodes[key] \in Node
  BY <1>1 DEF Sound, IsGraph
<1>4. g3 = [nodes |-> [g2.nodes EXCEPT ![child] = n], byPid |-> g2.byPid]
  BY SMTT(30), <1>3, SetNodeIs
<1> HIDE DEF g3
<1>5. /\ g3 = [nodes |-> g3.nodes, byPid |-> g3.byPid] /\ g3.byPid = g2.byPid
      /\ g3.nodes = [g2.nodes EXCEPT ![child] = n]
  BY <1>4
<1>6. /\ DOMAIN g3.nodes = DOMAIN g2.nodes /\ g3.nodes[child] = n
      /\ \A k \in DOMAIN g.nodes : g3.nodes[k] = g.nodes[k]
      /\ g3.nodes = [k \in DOMAIN g3.nodes |-> g3.nodes[k]]
  BY SMTT(30), <1>1, <1>3, <1>5
<1>7. m.parent = g.nodes[key].parent /\ m.origin = g.nodes[key].origin
      /\ m.exited = g.nodes[key].exited
  <2>1. g3.nodes[key] \in Node /\ g3.nodes[key] = g.nodes[key]
    BY <1>1, <1>3, <1>6
  <2> QED
    BY <2>1 DEF Node
<1> HIDE DEF m
<1>8. h = [nodes |-> [g3.nodes EXCEPT ![key] = m], byPid |-> g3.byPid]
  BY SMTT(30), <1>5, SetNodeIs
<1> HIDE DEF h
<1>9. h.nodes = [g3.nodes EXCEPT ![key] = m] /\ h.byPid = Put(g.byPid, child.pid, child)
  BY <1>2, <1>5, <1>8
<1>10. /\ DOMAIN h.nodes = DOMAIN g.nodes \cup {child} /\ h.nodes[child] = n
       /\ \A k \in DOMAIN g.nodes : Same(g, h, k)
  BY SMTT(30), <1>1, <1>6, <1>7, <1>9 DEF Same
<1>11. /\ DOMAIN h.byPid = DOMAIN g.byPid \cup {child.pid}
       /\ \A x \in DOMAIN h.byPid : h.byPid[x] = IF x = child.pid THEN child ELSE g.byPid[x]
  BY <1>9 DEF Put
<1>12. Forks(g, h, key, child)
  BY <1>10, <1>11 DEF Forks
<1> QED
  BY <1>12 DEF h, m, g3, g2

(* The callback for the event at the head: the graph after it knows what   *)
(* is still in the ring.                                                   *)
LEMMA ApplyOK ==
  ASSUME NEW P, NEW t, HostOK(P, t), NEW r, r \in Seq(Event), r # <<>>, NEW U,
         RingOK(P, r, U), NEW g, Sound(g), GraphOK(P, g, r, U)
  PROVE  /\ Sound(ApplyEvent(g, r[1]))
         /\ GraphOK(P, ApplyEvent(g, r[1]), Tail(r), U)
<1> DEFINE ev == r[1]
           key == r[1].key
           e == Touch(g, r[1].key)
<1>1. /\ 1 \in 1..Len(r) /\ ev \in Event /\ key \in Key /\ ev.ts # Alive
      /\ ev.type \in {"Fork", "Exec", "Exit", "CredChange", "FileOpen"}
  BY TailIs, EventIs
<1>2. Sound(e) /\ key \in DOMAIN e.nodes /\ GraphOK(P, e, r, U)
  BY TouchOK
<1>3. e.nodes[key] \in Node
  BY <1>2 DEF Sound, IsGraph
<1>4. PICK p \in 1..Len(P) :
        /\ Spoken(P, key, p)
        /\ ev.type = "Exit" => key = Lead(P, p) /\ ~P[p].alive
        /\ ev.type = "Fork" =>
             \E c \in 1..Len(P) : /\ ev.child = Lead(P, c)
                                  /\ P[c].parent = p /\ P[c].pid # P[p].pid
  BY <1>1 DEF RingOK, Origin
<1>5. ASSUME NEW n, n.parent = e.nodes[key].parent, n.origin = e.nodes[key].origin,
             n.exited = e.nodes[key].exited, ev.type # "Exit"
      PROVE  GraphOK(P, SetNode(e, key, n), Tail(r), U)
  <2>1. GraphOK(P, SetNode(e, key, n), r, U)
    BY <1>2, <1>5, LabelOK
  <2> QED
    BY <1>5, <2>1, TailOK
<1>6. ASSUME ev.type = "Fork", NEW c \in 1..Len(P), ev.child = Lead(P, c)
      PROVE  ev.child \notin DOMAIN g.nodes
  BY <1>1, <1>6, ForkIsNew DEF GraphOK, Born
<1>7. Sound(ApplyEvent(g, ev))
  <2>1. ev.type = "Fork" => ev.child.pid # key.pid
    <3>1. \A c \in 1..Len(P) : Lead(P, c).pid = P[c].pid
      BY ProcessIs
    <3>2. key.pid = P[p].pid
      BY SMTT(30), <1>4, SpokenPid
    <3> QED
      BY <1>4, <3>1, <3>2
  <2>2. ev.type = "Fork" => ev.child \notin DOMAIN g.nodes
    BY <1>4, <1>6
  <2> QED
    BY <1>1, <2>1, <2>2, ApplySound
<1>8. CASE ev.type = "Fork"
  <2>1. PICK c \in 1..Len(P) : /\ ev.child = Lead(P, c)
                               /\ P[c].parent = p /\ P[c].pid # P[p].pid
    BY <1>4, <1>8
  <2> DEFINE n1 == [e.nodes[key] EXCEPT !.comm = OrElse(@, ev.comm)]
             g1 == SetNode(e, key, n1)
             g2 == Ensure(g1, ev.child, "Observed")
             n2 == [g2.nodes[ev.child] EXCEPT !.parent = ev.key,
                         !.started = ev.ts,
                         !.container = OrElse(ev.container, @),
                         !.comm = OrElse(@, ev.comm)]
             g3 == SetNode(g2, ev.child, n2)
             h == SetNode(g3, key, [g3.nodes[key] EXCEPT !.children = @ \cup {ev.child}])
  <2>2. ApplyEvent(g, ev) = h
    BY <1>8 DEF ApplyEvent, OnFork
  <2>3. /\ n1.parent = e.nodes[key].parent /\ n1.origin = e.nodes[key].origin
        /\ n1.exited = e.nodes[key].exited /\ n1.children = e.nodes[key].children
        /\ n1 \in Node
    <3>1. ev.comm \in Comms
      BY <1>1 DEF Event, EventOf
    <3> HIDE DEF e
    <3> QED
      BY <1>3, <3>1 DEF Node, OrElse
  <2> HIDE DEF n1, e
  <2>4. Sound(g1) /\ key \in DOMAIN g1.nodes /\ GraphOK(P, g1, r, U)
    BY <1>2, <2>3, LabelOK, RelabelSound
  <2>5. Lead(P, c) \in Key /\ Lead(P, c) \notin DOMAIN g1.nodes /\ Born(P, r[1], c)
    BY <1>1, <1>8, <2>1, <2>4, ForkIsNew, ProcessIs DEF GraphOK, Born
  <2> HIDE DEF g1
  <2>6. n2.parent = key /\ n2.origin = "Observed" /\ n2.exited = Alive
    <3>1. g2.nodes[ev.child] = NewNode(ev.child, "Observed")
      <4>1. Ensure(g1, Lead(P, c), "Observed").nodes[Lead(P, c)] = NewNode(Lead(P, c), "Observed")
        BY <2>4, <2>5, EnsureSound
      <4> QED
        BY <2>1, <4>1
    <3> HIDE DEF g2
    <3>2. n2 = [NewNode(ev.child, "Observed") EXCEPT !.parent = ev.key,
                         !.started = ev.ts,
                         !.container = OrElse(ev.container, @),
                         !.comm = OrElse(@, ev.comm)]
      BY <3>1
    <3> HIDE DEF n2
    <3> QED
      BY <3>2 DEF NewNode
  <2> HIDE DEF n2
  <2>7. Forks(g1, h, key, Lead(P, c))
    BY <2>1, <2>4, <2>5, <2>6, ForksIs
  <2> HIDE DEF h
  <2>8. GraphOK(P, h, Tail(r), U)
    BY <1>4, <2>1, <2>4, <2>5, <2>7, ForkOK
  <2> QED
    BY <1>7, <2>2, <2>8
<1>9. CASE ev.type = "Exec"
  <2> DEFINE n == [e.nodes[key] EXCEPT !.comm = ev.comm, !.trusted = ev.trusted,
                                       !.container = OrElse(ev.container, @)]
  <2>1. /\ n.parent = e.nodes[key].parent /\ n.origin = e.nodes[key].origin
        /\ n.exited = e.nodes[key].exited
    BY <1>3 DEF Node
  <2>2. ApplyEvent(g, ev) = SetNode(e, key, n)
    BY <1>9 DEF ApplyEvent, OnExec
  <2> HIDE DEF n, e
  <2> QED
    BY <1>5, <1>7, <1>9, <2>1, <2>2
<1>10. CASE ev.type = "CredChange"
  <2> DEFINE n == [e.nodes[key] EXCEPT !.comm = OrElse(@, ev.comm),
                                       !.container = OrElse(ev.container, @),
                                       !.creds = IF @ < CredCap THEN @ + 1 ELSE @]
  <2>1. /\ n.parent = e.nodes[key].parent /\ n.origin = e.nodes[key].origin
        /\ n.exited = e.nodes[key].exited
    BY <1>3 DEF Node
  <2>2. ApplyEvent(g, ev) = SetNode(e, key, n)
    BY <1>10 DEF ApplyEvent, OnCred
  <2> HIDE DEF n, e
  <2> QED
    BY <1>5, <1>7, <1>10, <2>1, <2>2
<1>11. CASE ev.type = "FileOpen"
  <2>1. ApplyEvent(g, ev) = g
    BY <1>11 DEF ApplyEvent
  <2> QED
    BY <1>7, <1>11, <2>1, TailOK
<1>12. CASE ev.type = "Exit"
  <2> DEFINE m == Resolve(g, key)
             h == ApplyEvent(g, ev)
  <2>1. /\ Sound(m) /\ (~Adoptable(g, key) => m = g)
        /\ Adoptable(g, key) => Moves(g, m, g.byPid[key.pid], key)
    BY <1>1, ResolveIs
  <2>2. key = Lead(P, p) /\ ~P[p].alive /\ About(P, ev, p)
    BY <1>4, <1>12 DEF About
  <2>3. /\ h.nodes = IF key \in DOMAIN m.nodes
                     THEN [m.nodes EXCEPT ![key].exited = ev.ts] ELSE m.nodes
        /\ h.byPid = Drop(m.byPid, {key.pid})
    BY <1>12 DEF ApplyEvent, OnExit
  <2> HIDE DEF m, h
  <2>4. GraphOK(P, m, r, U)
    <3>1. CASE Adoptable(g, key)
      BY <1>1, <1>4, <2>1, <2>2, <3>1, MovesOK
    <3> QED
      BY <2>1, <3>1
  <2>5. ~Adoptable(m, key)
    <3>1. Adoptable(g, key) => key \in DOMAIN m.nodes
      BY <2>1 DEF Moves
    <3> QED
      BY <2>1, <3>1 DEF Adoptable
  <2>6. Marks(m, h, key)
    <3>1. m.nodes = [k \in DOMAIN m.nodes |-> m.nodes[k]] /\ \A k \in DOMAIN m.nodes : m.nodes[k] \in Node
      BY <2>1 DEF Sound, IsGraph
    <3>2. DOMAIN h.nodes = DOMAIN m.nodes /\ \A k \in DOMAIN m.nodes \ {key} : h.nodes[k] = m.nodes[k]
      BY <2>3, <3>1
    <3>3. key \in DOMAIN m.nodes => h.nodes[key] = [m.nodes[key] EXCEPT !.exited = ev.ts]
      BY <2>3, <3>1
    <3>4. key \in DOMAIN m.nodes =>
            /\ h.nodes[key].origin = m.nodes[key].origin /\ h.nodes[key].exited # Alive
            /\ h.nodes[key].parent = m.nodes[key].parent
      BY <1>1, <3>1, <3>3 DEF Node
    <3>5. DOMAIN h.byPid = DOMAIN m.byPid \ {key.pid} /\ \A x \in DOMAIN h.byPid : h.byPid[x] = m.byPid[x]
      BY <2>3 DEF Drop
    <3> QED
      BY <3>2, <3>4, <3>5 DEF Marks, Same
  <2>7. GraphOK(P, h, Tail(r), U)
    BY <1>12, <2>1, <2>2, <2>4, <2>5, <2>6, ExitOK
  <2> QED
    BY <1>7, <2>7 DEF h
<1> QED
  BY <1>1, <1>8, <1>9, <1>10, <1>11, <1>12

(* A reap is a removal of the expired and then of the evicted.             *)
LEMMA ReapOK ==
  ASSUME NEW P, NEW r, NEW U, NEW g, Sound(g), GraphOK(P, g, r, U),
         NEW t, NEW h \in Reap(g, t)
  PROVE  GraphOK(P, h, r, U)
<1> DEFINE kept == Remove(g, Expired(g, t))
<1>1. PICK V \in Victims(kept) : h = Remove(kept, V)
  BY DEF Reap
<1>2. Sound(kept) /\ GraphOK(P, kept, r, U)
  BY RemoveSound, RemoveOK
<1> HIDE DEF kept
<1> QED
  BY <1>1, <1>2, RemoveOK

=============================================================================
