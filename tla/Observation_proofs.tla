------------------------- MODULE Observation_proofs -------------------------
(***************************************************************************)
(* The graph the agent builds agrees with the host: for any processes, any *)
(* clock tick that fits the tolerance and the reuse of pids (ClocksFit),   *)
(* any size of the ring, and any order of forks, threads, execs, calls,    *)
(* exits, entries of /proc and callbacks.                                  *)
(*                                                                         *)
(* The invariant ObsInv is the relation of Observation_lemmas between the  *)
(* host, the ring and the graph, with what the walk of /proc has collected *)
(* so far (Walk): every node it made is of the last process with its pid,  *)
(* because no pid it has passed is given out again while it lasts, and the *)
(* parent's pid it noted is still the parent's, or init's.                 *)
(*                                                                         *)
(* A step of the host changes the processes and may add to the ring; a step*)
(* of the agent takes from the ring and changes the graph.  The first half *)
(* shows that the relation survives the former, the second puts the steps  *)
(* together.                                                               *)
(***************************************************************************)
EXTENDS Observation_lemmas

(* Leaves go to Zenon, those with arithmetic or records to SMT, as cited; the
   time is for a slow machine.                                             *)
USE ZenonT(30)

(* No later process has the pid of p.                                      *)
Latest(P, p) == \A q \in 1..Len(P) : P[q].pid = P[p].pid => q <= p

(* The scan before the pid c: the nodes, and in e their parents' pids.     *)
Walk(P, g, e, c) ==
  \A k \in DOMAIN g.nodes :
    /\ k.pid < c /\ k \in DOMAIN e /\ g.nodes[k].origin = "Scanned"
    /\ \E p \in 1..Len(P) :
         /\ Named(P, g, k, p) /\ Latest(P, p)
         /\ e[k] # 0 =>
              \E q \in {P[p].parent, 1} \ {0, p} : e[k] = P[q].pid /\ Latest(P, q)

(* The inductive invariant.                                                *)
ObsInv ==
  /\ GInv
  /\ HostOK(procs, now)
  /\ RingOK(procs, ring, unheardExit)
  /\ GraphOK(procs, graph, ring, unheardExit)
  /\ ring \in Seq(Event)
  /\ ~attached => ring = <<>>
  /\ phase = "scan" => ~attached /\ Walk(procs, graph, edges, cursor)

-----------------------------------------------------------------------------
(* The host moves on. *)

(* Q is P after a step of the host: what a process is does not change, it  *)
(* does not come back to life and it starts its second thread once.        *)
Later(P, Q) ==
  /\ Len(P) <= Len(Q)
  /\ \A p \in 1..Len(P) :
       /\ Q[p].pid = P[p].pid /\ Q[p].start = P[p].start /\ Q[p].parent = P[p].parent
       /\ Q[p].alive => P[p].alive
       /\ P[p].thread \in {Q[p].thread, NoThread}

(* Processes of P have the names they had.                                 *)
LEMMA LaterNames ==
  ASSUME NEW P, NEW t, HostOK(P, t), NEW Q, NEW u, HostOK(Q, u), Later(P, Q)
  PROVE  /\ \A p \in 1..Len(P) :
              /\ p \in 1..Len(Q) /\ Lead(Q, p) = Lead(P, p)
              /\ \A k : Threads(P, k, p) => Threads(Q, k, p)
              /\ \A k : Spoken(P, k, p) => Spoken(Q, k, p)
              /\ \A k, g : Named(Q, g, k, p) <=> Named(P, g, k, p)
              /\ \A ev : About(P, ev, p) => About(Q, ev, p)
         /\ \A ev : \A q \in 1..Len(Q) : Origin(P, ev) /\ About(Q, ev, q) =>
              q \in 1..Len(P) /\ About(P, ev, q)
         /\ \A ev : Origin(P, ev) => Origin(Q, ev)
<1>1. Len(P) \in Nat /\ Len(Q) \in Nat /\ Len(P) <= Len(Q)
  BY SMTT(30) DEF HostOK, Later
<1>2. ASSUME NEW p \in 1..Len(P)
      PROVE  /\ p \in 1..Len(Q) /\ Lead(Q, p) = Lead(P, p)
             /\ \A k : Threads(P, k, p) => Threads(Q, k, p)
             /\ \A k, g : Named(Q, g, k, p) <=> Named(P, g, k, p)
  BY SMTT(30), <1>1 DEF Later, Lead, Threads, Second, Named
<1>3. ASSUME NEW p \in 1..Len(P)
      PROVE  /\ \A k : Spoken(P, k, p) => Spoken(Q, k, p)
             /\ \A ev : About(P, ev, p) => About(Q, ev, p)
  BY <1>2 DEF Spoken, About, Born
<1>4. ASSUME NEW ev, NEW q \in 1..Len(Q), Origin(P, ev), About(Q, ev, q)
      PROVE  q \in 1..Len(P) /\ About(P, ev, q)
  <2>1. PICK p \in 1..Len(P) :
          /\ Spoken(P, ev.key, p)
          /\ ev.type = "Fork" => \E c \in 1..Len(P) : ev.child = Lead(P, c)
    BY <1>4 DEF Origin
  <2>2. CASE Spoken(Q, ev.key, q)
    <3>1. p = q
      BY <1>2, <1>3, <2>1, <2>2, OneSpeaker
    <3> QED
      BY <2>1, <3>1 DEF About
  <2>3. CASE Born(Q, ev, q)
    <3>1. PICK c \in 1..Len(P) : ev.child = Lead(P, c)
      BY <2>1, <2>3 DEF Born
    <3>2. c = q
      BY <1>2, <2>3, <3>1, OneSpeaker DEF Born, Spoken
    <3> QED
      BY <2>3, <3>1, <3>2 DEF About, Born
  <2> QED
    BY <1>4, <2>2, <2>3 DEF About
<1>5. ASSUME NEW ev, Origin(P, ev) PROVE Origin(Q, ev)
  <2>1. PICK p \in 1..Len(P) :
          /\ Spoken(P, ev.key, p)
          /\ ev.type = "Exit" => ev.key = Lead(P, p) /\ ~P[p].alive
          /\ ev.type = "Fork" =>
               \E c \in 1..Len(P) : /\ ev.child = Lead(P, c)
                                    /\ P[c].parent = p /\ P[c].pid # P[p].pid
    BY <1>5 DEF Origin
  <2>2. p \in 1..Len(Q) /\ Spoken(Q, ev.key, p)
    BY <1>2, <1>3, <2>1
  <2>3. ev.type = "Exit" => ev.key = Lead(Q, p) /\ ~Q[p].alive
    BY <1>2, <2>1 DEF Later
  <2>4. ev.type = "Fork" =>
          \E c \in 1..Len(Q) : /\ ev.child = Lead(Q, c)
                               /\ Q[c].parent = p /\ Q[c].pid # Q[p].pid
    BY <1>2, <2>1 DEF Later
  <2> QED
    BY <2>2, <2>3, <2>4 DEF Origin
<1> QED
  BY <1>2, <1>3, <1>4, <1>5

(* What the ring holds stays in order; a process that ends now has to be   *)
(* accounted for.                                                          *)
LEMMA RingLater ==
  ASSUME NEW P, NEW t, HostOK(P, t), NEW Q, NEW u, HostOK(Q, u), Later(P, Q),
         NEW r, NEW U, NEW V, RingOK(P, r, U), U \subseteq V,
         \A p \in 1..Len(P) : P[p].alive /\ ~Q[p].alive => p \in V
  PROVE  RingOK(Q, r, V)
<1>1. /\ \A i \in 1..Len(r) : Origin(P, r[i]) /\ Origin(Q, r[i]) /\ r[i] \in Event
      /\ \A i \in 1..Len(r), q \in 1..Len(Q) : About(Q, r[i], q) =>
           q \in 1..Len(P) /\ About(P, r[i], q)
  BY LaterNames DEF RingOK
<1>2. \A q \in 1..Len(P) : Q[q].pid = P[q].pid /\ Lead(Q, q) = Lead(P, q)
  BY LaterNames DEF Later
<1>3. \A i, j \in 1..Len(r), p, q \in 1..Len(Q) :
        i < j /\ About(Q, r[i], p) /\ About(Q, r[j], q) /\ Q[p].pid = Q[q].pid => p <= q
  BY <1>1, <1>2 DEF RingOK
<1>4. ASSUME NEW i \in 1..Len(r), NEW j \in 1..Len(r), NEW p \in 1..Len(Q), i < j
      PROVE  /\ Leaves(Q, r[i], p) => ~About(Q, r[j], p)
             /\ Born(Q, r[j], p) => ~About(Q, r[i], p)
  <2>1. ASSUME Leaves(Q, r[i], p), About(Q, r[j], p) PROVE FALSE
    <3>1. p \in 1..Len(P) /\ About(P, r[j], p)
      BY <1>1, <2>1
    <3>2. Leaves(P, r[i], p)
      BY <1>2, <2>1, <3>1 DEF Leaves
    <3> QED
      BY <1>4, <3>1, <3>2 DEF RingOK
  <2>2. ASSUME Born(Q, r[j], p), About(Q, r[i], p) PROVE FALSE
    <3>1. p \in 1..Len(P) /\ About(P, r[i], p)
      BY <1>1, <2>2
    <3>2. Born(P, r[j], p)
      BY <1>2, <2>2, <3>1 DEF Born
    <3> QED
      BY <1>4, <3>1, <3>2 DEF RingOK
  <2> QED
    BY <2>1, <2>2
<1>5. ASSUME NEW i \in 1..Len(r), NEW p \in 1..Len(Q) \ V, About(Q, r[i], p), ~Q[p].alive
      PROVE  \E j \in i..Len(r) : Leaves(Q, r[j], p)
  <2>1. p \in 1..Len(P) \ U /\ About(P, r[i], p) /\ ~P[p].alive
    BY <1>1, <1>5
  <2>2. PICK j \in i..Len(r) : Leaves(P, r[j], p)
    BY <2>1 DEF RingOK
  <2>3. Leaves(Q, r[j], p)
    BY <1>2, <2>1, <2>2 DEF Leaves
  <2> QED
    BY <2>2, <2>3
<1> QED
  BY <1>1, <1>3, <1>4, <1>5 DEF RingOK

(* No node stands for a process that has just begun.                       *)
LEMMA NewcomerUnknown ==
  ASSUME NEW P, NEW t, HostOK(P, t), NEW Q, NEW u, HostOK(Q, u), Later(P, Q),
         NEW g, NEW r, Covered(P, g), Scans(P, g, r), NEW k \in DOMAIN g.nodes, k \in Key,
         NEW c \in 1..Len(Q), Named(Q, g, k, c)
  PROVE  c \in 1..Len(P)
<1>1. \A p \in 1..Len(P) :
        /\ p \in 1..Len(Q) /\ Q[p].pid = P[p].pid /\ Q[p].start = P[p].start
        /\ Lead(Q, p) = Lead(P, p)
        /\ Threads(P, k, p) => Threads(Q, k, p)
        /\ Named(Q, g, k, p) <=> Named(P, g, k, p)
  BY LaterNames DEF Later
<1>2. CASE k.start = Q[c].start
  <2>1. k = Lead(Q, c)
    BY SMTT(30), <1>2, SameKey, ProcessIs DEF Named
  <2>2. PICK p \in 1..Len(P) : Named(P, g, k, p) \/ Threads(P, k, p)
    BY DEF Covered
  <2>3. CASE Named(P, g, k, p)
    BY <1>1, <2>3, NamedOnce
  <2>4. CASE Threads(P, k, p)
    <3>1. p \in 1..Len(Q) /\ Spoken(Q, k, p) /\ Spoken(Q, k, c)
      BY <1>1, <2>1, <2>4 DEF Spoken
    <3>2. p = c
      BY <3>1, OneSpeaker
    <3> QED
      BY <3>2
  <2> QED
    BY <2>2, <2>3, <2>4
<1>3. CASE g.nodes[k].origin = "Scanned" /\ k.start = Trunc(Q[c].start)
  <2>1. PICK p \in 1..Len(P) : k.pid = P[p].pid /\ k.start = Trunc(P[p].start)
    BY <1>3 DEF Scans
  <2>2. p \in 1..Len(Q) /\ k.pid = Q[p].pid /\ k.start = Trunc(Q[p].start)
    BY <1>1, <2>1
  <2>3. k.pid = Q[c].pid
    BY DEF Named
  <2>4. p = c
    BY <1>3, <2>2, <2>3, OneName
  <2> QED
    BY <2>4
<1> QED
  BY <1>2, <1>3 DEF Named

(* The graph keeps what it knows while the host moves on; a process that   *)
(* ends now has an event outstanding or is known to have gone unheard.     *)
LEMMA GraphLater ==
  ASSUME NEW P, NEW t, HostOK(P, t), NEW Q, NEW u, HostOK(Q, u), Later(P, Q),
         NEW r, NEW U, NEW V, U \subseteq V, NEW g, Sound(g), GraphOK(P, g, r, U),
         \A i \in 1..Len(r), q \in 1..Len(Q) :
           About(Q, r[i], q) => q \in 1..Len(P) /\ About(P, r[i], q),
         \A p \in 1..Len(P) : P[p].alive /\ ~Q[p].alive => p \in V \/ Outstanding(P, r, p)
  PROVE  GraphOK(Q, g, r, V)
<1>1. DOMAIN g.nodes \subseteq Key
  BY DEF Sound, IsGraph
<1>2. /\ Covered(P, g) /\ Scans(P, g, r) /\ Single(P, g, r)
      /\ Lineal(P, g) /\ Gone(P, g, r, U) /\ Fresh(P, g, r)
  BY DEF GraphOK
<1>3. \A p \in 1..Len(P) :
        /\ p \in 1..Len(Q) /\ Lead(Q, p) = Lead(P, p)
        /\ Q[p].pid = P[p].pid /\ Q[p].start = P[p].start /\ Q[p].parent = P[p].parent
        /\ Q[p].alive => P[p].alive
        /\ Q[p].thread = NoThread => P[p].thread = NoThread
  BY LaterNames DEF Later
<1>4. \A p \in 1..Len(P) : \A k : /\ Named(Q, g, k, p) <=> Named(P, g, k, p)
                                  /\ Threads(P, k, p) => Threads(Q, k, p)
  BY LaterNames
<1>5. \A q \in 1..Len(Q) : \A k \in DOMAIN g.nodes :
        Named(Q, g, k, q) => q \in 1..Len(P) /\ Named(P, g, k, q)
  <2> SUFFICES ASSUME NEW q \in 1..Len(Q), NEW k \in DOMAIN g.nodes, Named(Q, g, k, q)
               PROVE  q \in 1..Len(P) /\ Named(P, g, k, q)
    OBVIOUS
  <2>1. q \in 1..Len(P)
    BY <1>1, <1>2, NewcomerUnknown
  <2> QED
    BY <1>4, <2>1
<1>7. \A q \in 1..Len(P) : Outstanding(Q, r, q) <=> Outstanding(P, r, q)
  BY <1>3, LaterNames DEF Outstanding
<1>8. Covered(Q, g)
  BY <1>2, <1>3, <1>4 DEF Covered
<1>9. Scans(Q, g, r)
  <2> SUFFICES ASSUME NEW k \in DOMAIN g.nodes, g.nodes[k].origin = "Scanned"
               PROVE  \E p \in 1..Len(Q) :
                        /\ k.pid = Q[p].pid /\ k.start = Trunc(Q[p].start)
                        /\ \A q \in 1..(p - 1) : Q[q].pid = Q[p].pid => ~Outstanding(Q, r, q)
    BY DEF Scans
  <2>1. PICK p \in 1..Len(P) :
          /\ k.pid = P[p].pid /\ k.start = Trunc(P[p].start)
          /\ \A q \in 1..(p - 1) : P[q].pid = P[p].pid => ~Outstanding(P, r, q)
    BY <1>2 DEF Scans
  <2>2. k.pid = Q[p].pid /\ k.start = Trunc(Q[p].start) /\ p \in 1..Len(Q)
    BY <1>3, <2>1
  <2>3. ASSUME NEW q \in 1..(p - 1), Q[q].pid = Q[p].pid
        PROVE  ~Outstanding(Q, r, q)
    <3>1. q \in 1..Len(P)
      BY SMTT(30) DEF HostOK
    <3> QED
      BY <1>3, <1>7, <2>1, <2>3, <3>1
  <2> QED
    BY <2>2, <2>3
<1>10. Single(Q, g, r)
  <2> SUFFICES ASSUME NEW k \in DOMAIN g.nodes, NEW p \in 1..Len(Q), Named(Q, g, k, p),
                      k # Lead(Q, p), Q[p].thread = NoThread
               PROVE  /\ Lead(Q, p) \notin DOMAIN g.nodes
                      /\ Q[p].alive \/ Outstanding(Q, r, p) =>
                           /\ k.pid \in DOMAIN g.byPid /\ g.byPid[k.pid] = k
                           /\ g.nodes[k].exited = Alive
    BY DEF Single
  <2>1. p \in 1..Len(P) /\ Named(P, g, k, p)
    BY <1>5
  <2>2. /\ Lead(Q, p) = Lead(P, p) /\ P[p].thread = NoThread
        /\ Q[p].alive \/ Outstanding(Q, r, p) => P[p].alive \/ Outstanding(P, r, p)
    BY <1>3, <1>7, <2>1
  <2> QED
    BY <1>2, <2>1, <2>2 DEF Single
<1>11. Lineal(Q, g)
  <2> SUFFICES ASSUME NEW k \in DOMAIN g.nodes, NEW p \in 1..Len(Q), Named(Q, g, k, p),
                      g.nodes[k].parent # NoKey
               PROVE  \E q \in {Q[p].parent, 1} \ {0, p} : Leads(Q, g, g.nodes[k].parent, q)
    BY DEF Lineal
  <2>1. p \in 1..Len(P) /\ Named(P, g, k, p)
    BY <1>5
  <2>2. PICK q \in {P[p].parent, 1} \ {0, p} : Leads(P, g, g.nodes[k].parent, q)
    BY <1>2, <2>1 DEF Lineal
  <2>3. q \in 1..Len(P)
    BY <2>1, ParentIs
  <2>4. Leads(Q, g, g.nodes[k].parent, q)
    BY <1>4, <2>2, <2>3 DEF Leads
  <2> QED
    BY <1>3, <2>1, <2>2, <2>4
<1>12. Gone(Q, g, r, V)
  <2> SUFFICES ASSUME NEW k \in DOMAIN g.nodes, NEW p \in 1..Len(Q) \ V, Named(Q, g, k, p),
                      Q[p].thread = NoThread, ~Q[p].alive, ~Outstanding(Q, r, p)
               PROVE  g.nodes[k].exited # Alive
    BY DEF Gone
  <2>1. p \in 1..Len(P) /\ Named(P, g, k, p) /\ p \notin U
    BY <1>5
  <2>2. P[p].thread = NoThread /\ ~Outstanding(P, r, p)
    BY <1>3, <1>7, <2>1
  <2>3. ~P[p].alive
    BY <2>1, <2>2
  <2> QED
    BY <1>2, <2>1, <2>2, <2>3 DEF Gone
<1>13. Fresh(Q, g, r)
  <2> SUFFICES ASSUME NEW k \in DOMAIN g.nodes, NEW p \in 1..Len(Q), NEW i \in 1..Len(r),
                      Born(Q, r[i], p), Named(Q, g, k, p)
               PROVE  FALSE
    BY DEF Fresh
  <2>1. p \in 1..Len(P) /\ Named(P, g, k, p)
    BY <1>5
  <2>2. Born(P, r[i], p)
    BY <1>3, <2>1 DEF Born
  <2> QED
    BY <1>2, <2>1, <2>2 DEF Fresh
<1> QED
  BY <1>8, <1>9, <1>10, <1>11, <1>12, <1>13 DEF GraphOK

(* A running process is the last of its pid.                               *)
LEMMA LivingLatest ==
  ASSUME NEW P, NEW t, HostOK(P, t), NEW p \in 1..Len(P), P[p].alive
  PROVE  Latest(P, p)
<1> SUFFICES ASSUME NEW q \in 1..Len(P), P[q].pid = P[p].pid, q # p PROVE q <= p
  BY SMTT(30) DEF Latest
<1>1. q < p
  BY Apart
<1> QED
  BY SMTT(30), <1>1

(* What the ring holds after a submit.                                     *)
LEMMA AppendIs ==
  ASSUME NEW r, r \in Seq(Event), NEW ev \in Event
  PROVE  /\ Append(r, ev) \in Seq(Event) /\ Len(r) \in Nat /\ Len(Append(r, ev)) = Len(r) + 1
         /\ \A i \in 1..Len(r) : Append(r, ev)[i] = r[i]
         /\ Append(r, ev)[Len(r) + 1] = ev
         /\ \A i \in 1..(Len(r) + 1) : i \in 1..Len(r) \/ i = Len(r) + 1
  BY SMTT(30)

(* A submitted event is the latest of the processes it is about.           *)
LEMMA AppendRing ==
  ASSUME NEW P, NEW r, r \in Seq(Event), NEW U, NEW V, RingOK(P, r, V), NEW ev \in Event,
         Origin(P, ev), \A x \in V : x \in U \/ Leaves(P, ev, x),
         \A x \in 1..Len(P) : About(P, ev, x) =>
           /\ Latest(P, x) /\ (P[x].alive \/ Leaves(P, ev, x))
           /\ \A i \in 1..Len(r) : ~Leaves(P, r[i], x),
         \A x \in 1..Len(P), i \in 1..Len(r) : Born(P, ev, x) => ~About(P, r[i], x)
  PROVE  RingOK(P, Append(r, ev), U)
<1> DEFINE s == Append(r, ev)
           n == Len(r) + 1
<1>1. /\ Len(r) \in Nat /\ Len(s) = n /\ \A i \in 1..Len(r) : s[i] = r[i]
      /\ s[n] = ev /\ n \in Nat /\ \A i \in 1..n : i \in 1..Len(r) \/ i = n
      /\ \A i, j \in 1..n : i < j => i \in 1..Len(r)
  BY SMTT(30), AppendIs
<1> HIDE DEF s
<1>2. \A i \in 1..Len(s) : s[i] \in Event /\ Origin(P, s[i])
  BY <1>1 DEF RingOK
<1>3. ASSUME NEW i \in 1..Len(s), NEW j \in 1..Len(s), NEW p \in 1..Len(P),
             NEW q \in 1..Len(P), i < j, About(P, s[i], p), About(P, s[j], q),
             P[p].pid = P[q].pid
      PROVE  p <= q
  <2>1. CASE j = n
    BY <1>1, <1>3, <2>1 DEF Latest
  <2>2. CASE j \in 1..Len(r)
    BY <1>1, <1>3, <2>2 DEF RingOK
  <2> QED
    BY <1>1, <2>1, <2>2
<1>4. ASSUME NEW i \in 1..Len(s), NEW j \in 1..Len(s), NEW p \in 1..Len(P), i < j
      PROVE  /\ Leaves(P, s[i], p) => ~About(P, s[j], p)
             /\ Born(P, s[j], p) => ~About(P, s[i], p)
  <2>1. CASE j = n
    BY <1>1, <1>4, <2>1
  <2>2. CASE j \in 1..Len(r)
    BY <1>1, <1>4, <2>2 DEF RingOK
  <2> QED
    BY <1>1, <2>1, <2>2
<1>5. ASSUME NEW i \in 1..Len(s), NEW p \in 1..Len(P) \ U, About(P, s[i], p), ~P[p].alive
      PROVE  \E j \in i..Len(s) : Leaves(P, s[j], p)
  <2>1. n \in i..Len(s)
    BY SMTT(30), <1>1
  <2>2. CASE Leaves(P, ev, p)
    BY <1>1, <2>1, <2>2
  <2>3. CASE ~Leaves(P, ev, p)
    <3>1. i \in 1..Len(r) /\ p \notin V /\ About(P, r[i], p)
      BY <1>1, <1>5, <2>3
    <3>2. PICK j \in i..Len(r) : Leaves(P, r[j], p)
      BY <1>5, <3>1 DEF RingOK
    <3>3. j \in i..Len(s) /\ j \in 1..Len(r)
      BY SMTT(30), <1>1, <3>1
    <3> QED
      BY <1>1, <3>2, <3>3
  <2> QED
    BY <2>2, <2>3
<1> QED
  BY <1>2, <1>3, <1>4, <1>5 DEF RingOK, s

(* The graph while an event is submitted.                                  *)
LEMMA AppendGraph ==
  ASSUME NEW P, NEW r, r \in Seq(Event), NEW U, NEW g, GraphOK(P, g, r, U), NEW ev \in Event,
         \A x \in 1..Len(P) : About(P, ev, x) => Latest(P, x) /\ P[x].alive,
         \A x \in 1..Len(P), k \in DOMAIN g.nodes : Born(P, ev, x) => ~Named(P, g, k, x),
         P \in Seq(Process)
  PROVE  GraphOK(P, g, Append(r, ev), U)
<1> DEFINE s == Append(r, ev)
<1>1. /\ Len(r) \in Nat /\ Len(s) = Len(r) + 1 /\ \A i \in 1..Len(r) : s[i] = r[i]
      /\ s[Len(s)] = ev /\ \A i \in 1..Len(s) : i \in 1..Len(r) \/ i = Len(s)
      /\ \A i \in 1..Len(r) : i \in 1..Len(s)
  BY SMTT(30), AppendIs
<1> HIDE DEF s
<1>2. \A p : /\ Outstanding(P, r, p) => Outstanding(P, s, p)
             /\ Outstanding(P, s, p) => Outstanding(P, r, p) \/ About(P, ev, p)
  BY <1>1 DEF Outstanding
<1>3. Scans(P, g, s)
  <2> SUFFICES ASSUME NEW k \in DOMAIN g.nodes, g.nodes[k].origin = "Scanned"
               PROVE  \E p \in 1..Len(P) :
                        /\ k.pid = P[p].pid /\ k.start = Trunc(P[p].start)
                        /\ \A q \in 1..(p - 1) : P[q].pid = P[p].pid => ~Outstanding(P, s, q)
    BY DEF Scans
  <2>1. PICK p \in 1..Len(P) :
          /\ k.pid = P[p].pid /\ k.start = Trunc(P[p].start)
          /\ \A q \in 1..(p - 1) : P[q].pid = P[p].pid => ~Outstanding(P, r, q)
    BY DEF GraphOK, Scans
  <2>2. ASSUME NEW q \in 1..(p - 1), P[q].pid = P[p].pid
        PROVE  ~Outstanding(P, s, q)
    <3>1. q \in 1..Len(P) /\ ~(p <= q)
      BY SMTT(30)
    <3>2. ~About(P, ev, q)
      BY <2>2, <3>1 DEF Latest
    <3> QED
      BY <1>2, <2>1, <2>2, <3>2
  <2> QED
    BY <2>1, <2>2
<1>4. Single(P, g, s)
  BY <1>2 DEF GraphOK, Single
<1>5. Gone(P, g, s, U)
  BY <1>2 DEF GraphOK, Gone
<1>6. Fresh(P, g, s)
  BY <1>1 DEF GraphOK, Fresh
<1> QED
  BY <1>3, <1>4, <1>5, <1>6 DEF GraphOK, s

(* A step of the host in which no process ends: with no event, and with    *)
(* one about running processes.                                            *)
LEMMA HostStep ==
  ASSUME NEW P, NEW t, HostOK(P, t), NEW r, r \in Seq(Event), NEW U, RingOK(P, r, U),
         NEW g, Sound(g), GraphOK(P, g, r, U), NEW Q, NEW u, HostOK(Q, u), Later(P, Q),
         \A p \in 1..Len(P) : P[p].alive => Q[p].alive
  PROVE  /\ RingOK(Q, r, U) /\ GraphOK(Q, g, r, U)
         /\ \A ev \in Event :
              /\ Origin(Q, ev) /\ \A x \in 1..Len(Q) : About(Q, ev, x) => Q[x].alive
              /\ \A x \in 1..Len(Q) : Born(Q, ev, x) => x \notin 1..Len(P)
              => RingOK(Q, Append(r, ev), U) /\ GraphOK(Q, g, Append(r, ev), U)
<1>1. RingOK(Q, r, U)
  BY RingLater
<1>2. \A i \in 1..Len(r), q \in 1..Len(Q) :
        About(Q, r[i], q) => q \in 1..Len(P) /\ About(P, r[i], q)
  BY LaterNames DEF RingOK
<1>3. GraphOK(Q, g, r, U)
  BY <1>2, GraphLater
<1>4. ASSUME NEW ev \in Event, Origin(Q, ev),
             \A x \in 1..Len(Q) : About(Q, ev, x) => Q[x].alive,
             \A x \in 1..Len(Q) : Born(Q, ev, x) => x \notin 1..Len(P)
      PROVE  RingOK(Q, Append(r, ev), U) /\ GraphOK(Q, g, Append(r, ev), U)
  <2>1. ASSUME NEW x \in 1..Len(Q), About(Q, ev, x)
        PROVE  /\ Latest(Q, x) /\ Q[x].alive
               /\ \A i \in 1..Len(r) : ~Leaves(Q, r[i], x)
    <3>1. Q[x].alive
      BY <1>4, <2>1
    <3>2. Latest(Q, x)
      BY <3>1, LivingLatest
    <3>3. ASSUME NEW i \in 1..Len(r), Leaves(Q, r[i], x) PROVE FALSE
      <4>1. PICK p \in 1..Len(Q) : r[i].key = Lead(Q, p) /\ ~Q[p].alive
        BY <1>1, <3>3 DEF RingOK, Origin, Leaves
      <4>2. p = x
        BY <3>3, <4>1, OneSpeaker DEF Leaves, Spoken
      <4> QED
        BY <3>1, <4>1, <4>2
    <3> QED
      BY <3>1, <3>2, <3>3
  <2>2. \A x \in 1..Len(Q), i \in 1..Len(r) : Born(Q, ev, x) => ~About(Q, r[i], x)
    BY <1>2, <1>4
  <2>3. RingOK(Q, Append(r, ev), U)
    BY <1>1, <1>4, <2>1, <2>2, AppendRing
  <2>4. ASSUME NEW x \in 1..Len(Q), NEW k \in DOMAIN g.nodes, Born(Q, ev, x), Named(Q, g, k, x)
        PROVE  FALSE
    <3>1. k \in Key
      BY DEF Sound, IsGraph
    <3>2. x \in 1..Len(P)
      BY <2>4, <3>1, NewcomerUnknown DEF GraphOK
    <3> QED
      BY <1>4, <2>4, <3>2
  <2>5. Q \in Seq(Process)
    BY DEF HostOK
  <2>6. GraphOK(Q, g, Append(r, ev), U)
    BY <1>3, <2>1, <2>4, <2>5, AppendGraph
  <2> QED
    BY <2>3, <2>6
<1> QED
  BY <1>1, <1>3, <1>4

(* A process ends: its exit is the last of its events, or is not heard.    *)
LEMMA ExitStep ==
  ASSUME NEW P, NEW t, HostOK(P, t), NEW r, r \in Seq(Event), NEW U, RingOK(P, r, U),
         NEW g, Sound(g), GraphOK(P, g, r, U), NEW Q, HostOK(Q, t), Later(P, Q),
         Len(Q) = Len(P), NEW p \in 1..Len(P), P[p].alive, ~Q[p].alive,
         \A q \in 1..Len(P) \ {p} : P[q].alive => Q[q].alive,
         \A q \in 1..Len(P) : Q[q].thread = P[q].thread,
         NEW ev \in Event, ev.type = "Exit", ev.key = Lead(P, p)
  PROVE  /\ RingOK(Q, r, U \cup {p}) /\ GraphOK(Q, g, r, U \cup {p})
         /\ RingOK(Q, Append(r, ev), U) /\ GraphOK(Q, g, Append(r, ev), U)
<1> DEFINE V == U \cup {p}
           s == Append(r, ev)
<1>1. \A q \in 1..Len(P) : P[q].alive /\ ~Q[q].alive => q \in V
  OBVIOUS
<1>2. RingOK(Q, r, V)
  BY <1>1, RingLater
<1>3. \A e : \A q \in 1..Len(Q) : About(Q, e, q) => q \in 1..Len(P) /\ About(P, e, q)
  <2>1. \A q \in 1..Len(P) : Lead(Q, q) = Lead(P, q) /\ Second(Q, q) = Second(P, q)
    BY DEF Later, Lead, Second
  <2> QED
    BY <2>1 DEF About, Spoken, Threads, Born
<1>4. GraphOK(Q, g, r, V)
  BY <1>1, <1>3, GraphLater
<1>5. ASSUME NEW x \in 1..Len(P), About(P, ev, x)
      PROVE  x = p
  BY <1>5, OneSpeaker DEF About, Spoken, Born
<1>6. Latest(P, p) /\ Latest(Q, p) /\ Lead(Q, p) = Lead(P, p)
  <2>1. Latest(P, p)
    BY LivingLatest
  <2> QED
    BY <2>1 DEF Latest, Later, Lead
<1>7. Leaves(Q, ev, p) /\ Origin(Q, ev)
  BY <1>6 DEF Leaves, Origin, Spoken
<1>8. ASSUME NEW i \in 1..Len(r), Leaves(Q, r[i], p) PROVE FALSE
  <2>1. PICK x \in 1..Len(P) : r[i].key = Lead(P, x) /\ ~P[x].alive
    BY <1>8 DEF RingOK, Origin, Leaves
  <2>2. x = p
    BY <1>6, <1>8, <2>1, OneSpeaker DEF Leaves, Spoken
  <2> QED
    BY <2>1, <2>2
<1>9. RingOK(Q, s, U)
  <2>1. \A x \in V : x \in U \/ Leaves(Q, ev, x)
    BY <1>7
  <2>2. ASSUME NEW x \in 1..Len(Q), About(Q, ev, x)
        PROVE  /\ Latest(Q, x) /\ (Q[x].alive \/ Leaves(Q, ev, x))
               /\ \A i \in 1..Len(r) : ~Leaves(Q, r[i], x)
    <3>1. x = p
      BY <1>3, <1>5, <2>2
    <3> QED
      BY <1>6, <1>7, <1>8, <3>1
  <2>3. \A x \in 1..Len(Q), i \in 1..Len(r) : Born(Q, ev, x) => ~About(Q, r[i], x)
    BY DEF Born
  <2> QED
    BY <1>2, <1>7, <2>1, <2>2, <2>3, AppendRing
<1>10. GraphOK(P, g, s, U)
  <2>1. \A x \in 1..Len(P) : About(P, ev, x) => Latest(P, x) /\ P[x].alive
    BY <1>5, <1>6
  <2>2. \A x \in 1..Len(P), k \in DOMAIN g.nodes : Born(P, ev, x) => ~Named(P, g, k, x)
    BY DEF Born
  <2>3. P \in Seq(Process)
    BY DEF HostOK
  <2> QED
    BY <2>1, <2>2, <2>3, AppendGraph
<1>11. Outstanding(P, s, p)
  <2>1. Len(s) \in Nat /\ Len(s) \in 1..Len(s) /\ s[Len(s)] = ev
    BY SMTT(30), AppendIs
  <2>2. About(P, ev, p)
    BY DEF About, Spoken
  <2> QED
    BY <2>1, <2>2 DEF Outstanding
<1>12. GraphOK(Q, g, s, U)
  <2>1. \A q \in 1..Len(P) : P[q].alive /\ ~Q[q].alive => q \in U \/ Outstanding(P, s, q)
    BY <1>11
  <2> HIDE DEF s
  <2> QED
    BY <1>3, <1>10, <2>1, GraphLater
<1> QED
  BY <1>2, <1>4, <1>9, <1>12

(* One process is changed: an exec, a second thread, an exit.              *)
Edits(P, t, p, n, Q) ==
  /\ p \in 1..Len(P) /\ n \in Process /\ Q = [P EXCEPT ![p] = n]
  /\ n.pid = P[p].pid /\ n.start = P[p].start /\ n.parent = P[p].parent
  /\ n.alive => P[p].alive
  /\ p = 1 => n.alive
  /\ n.threaded => n.thread # NoThread
  /\ \/ n.thread = P[p].thread
     \/ n.thread = t /\ P[p].thread = NoThread /\ P[p].start < t /\ P[p].alive

(* The other processes stay as they are.                                   *)
LEMMA HostEdit ==
  ASSUME NEW P, NEW t, HostOK(P, t), NEW p, NEW n, NEW Q, Edits(P, t, p, n, Q)
  PROVE  /\ HostOK(Q, t) /\ Later(P, Q) /\ Len(Q) = Len(P) /\ Q[p] = n
         /\ \A q \in 1..Len(P) \ {p} : Q[q] = P[q]
<1> USE DEF Edits
<1>1. /\ Q \in Seq(Process) /\ Len(Q) = Len(P) /\ Q[p] = n
      /\ \A q \in 1..Len(P) : q # p => Q[q] = P[q]
  BY SMTT(30) DEF HostOK
<1>2. /\ t \in Times /\ t \in Nat /\ Len(P) > 0 /\ Len(P) \in Nat
      /\ P[1].pid = 1 /\ P[1].parent = 0 /\ P[1].alive /\ 1 \in 1..Len(P)
  BY SMTT(30), Constants DEF HostOK
<1>3. \A q \in 1..Len(P) :
        /\ Q[q].pid = P[q].pid /\ Q[q].start = P[q].start /\ Q[q].parent = P[q].parent
        /\ Q[q].alive => P[q].alive
        /\ \/ Q[q].thread = P[q].thread
           \/ Q[q].thread = t /\ P[q].thread = NoThread /\ P[q].start < t /\ P[q].alive
  BY <1>1
<1>4. Later(P, Q)
  BY SMTT(30), <1>1, <1>2, <1>3 DEF Later
<1>5. Q[1].pid = 1 /\ Q[1].parent = 0 /\ Q[1].alive
  BY SMTT(30), <1>1, <1>2, <1>3
<1>6. ASSUME NEW q \in 1..Len(P)
      PROVE  /\ Q[q].start <= t /\ Q[q].thread <= t
             /\ Q[q].thread # NoThread => Q[q].start < Q[q].thread
             /\ Q[q].threaded => Q[q].thread # NoThread
             /\ q # 1 => Q[q].parent \in 1..(q - 1)
  <2>1. /\ P[q].start <= t /\ P[q].thread <= t
        /\ P[q].thread # NoThread => P[q].start < P[q].thread
        /\ P[q].threaded => P[q].thread # NoThread
        /\ q # 1 => P[q].parent \in 1..(q - 1)
    BY DEF HostOK
  <2>2. t <= t
    BY SMTT(30), <1>2
  <2>3. Q[q].start <= t /\ Q[q].thread <= t
    BY <1>3, <2>1, <2>2
  <2>4. Q[q].thread # NoThread => Q[q].start < Q[q].thread
    BY <1>3, <2>1
  <2>5. Q[q].threaded => Q[q].thread # NoThread
    BY <1>1, <2>1
  <2> QED
    BY <1>3, <2>1, <2>3, <2>4, <2>5
<1>7. ASSUME NEW x \in 1..Len(P), NEW q \in 1..Len(P), x < q, Q[x].pid = Q[q].pid
      PROVE  /\ ~Q[x].alive /\ Q[q].start - Q[x].start > ReuseGap
             /\ Q[x].thread < Q[q].start
  <2>1. /\ ~P[x].alive /\ P[q].start - P[x].start > ReuseGap
        /\ P[x].thread < P[q].start
    BY SMTT(30), <1>3, <1>7 DEF HostOK
  <2> QED
    BY <1>3, <2>1
<1>8. HostOK(Q, t)
  BY <1>1, <1>2, <1>5, <1>6, <1>7 DEF HostOK
<1> QED
  BY <1>1, <1>4, <1>8

(* A process is forked, with a pid not in use for a while.                 *)
LEMMA HostGrow ==
  ASSUME NEW P, NEW t, HostOK(P, t), NEW n \in Process, NEW p \in 1..Len(P),
         n.start = t, n.parent = p, n.thread = NoThread, ~n.threaded,
         \A q \in 1..Len(P) : P[q].pid = n.pid =>
           ~P[q].alive /\ t - P[q].start > ReuseGap /\ P[q].thread < t
  PROVE  LET Q == Append(P, n)
         IN  /\ HostOK(Q, t) /\ Later(P, Q) /\ Len(Q) = Len(P) + 1 /\ Q[Len(Q)] = n
             /\ \A q \in 1..Len(P) : Q[q] = P[q] /\ q \in 1..Len(Q)
             /\ \A q \in 1..Len(Q) : q \in 1..Len(P) \/ q = Len(Q)
<1> DEFINE Q == Append(P, n)
           m == Len(P) + 1
<1>1. /\ Q \in Seq(Process) /\ Len(Q) = m /\ Q[m] = n
      /\ \A q \in 1..Len(P) : Q[q] = P[q]
  BY SMTT(30) DEF HostOK
<1>2. /\ t \in Times /\ t \in Nat /\ Len(P) > 0 /\ Len(P) \in Nat
      /\ P[1].pid = 1 /\ P[1].parent = 0 /\ P[1].alive /\ 1 \in 1..Len(P)
  BY SMTT(30), Constants DEF HostOK
<1>3. /\ m \in Nat /\ \A q \in 1..m : q \in 1..Len(P) \/ q = m
      /\ \A q \in 1..Len(P) : q \in 1..m /\ q < m /\ ~(m < q)
      /\ p \in 1..(m - 1)
  BY SMTT(30), <1>2
<1> HIDE DEF Q, m
<1>4. Later(P, Q)
  <2>1. Len(P) <= Len(Q)
    BY SMTT(30), <1>1, <1>2 DEF m
  <2> QED
    BY <1>1, <2>1 DEF Later
<1>5. Q[1].pid = 1 /\ Q[1].parent = 0 /\ Q[1].alive
  BY <1>1, <1>2
<1>6. ASSUME NEW q \in 1..m
      PROVE  /\ Q[q].start <= t /\ Q[q].thread <= t
             /\ Q[q].thread # NoThread => Q[q].start < Q[q].thread
             /\ Q[q].threaded => Q[q].thread # NoThread
             /\ q # 1 => Q[q].parent \in 1..(q - 1)
  <2>1. CASE q \in 1..Len(P)
    BY SMTT(30), <1>1, <2>1 DEF HostOK
  <2>2. CASE q = m
    <3>1. t <= t /\ NoThread <= t
      BY SMTT(30), <1>2 DEF NoThread
    <3> QED
      BY <1>1, <1>3, <2>2, <3>1
  <2> QED
    BY <1>3, <2>1, <2>2
<1>7. ASSUME NEW x \in 1..m, NEW q \in 1..m, x < q, Q[x].pid = Q[q].pid
      PROVE  /\ ~Q[x].alive /\ Q[q].start - Q[x].start > ReuseGap
             /\ Q[x].thread < Q[q].start
  <2>1. x \in 1..Len(P)
    BY SMTT(30), <1>3, <1>7
  <2>2. CASE q \in 1..Len(P)
    BY <1>1, <1>7, <2>1, <2>2 DEF HostOK
  <2>3. CASE q = m
    BY <1>1, <1>7, <2>1, <2>3
  <2> QED
    BY <1>3, <2>2, <2>3
<1>8. HostOK(Q, t)
  <2>1. Len(Q) > 0
    BY SMTT(30), <1>1, <1>2 DEF m
  <2> QED
    BY <1>1, <1>2, <1>5, <1>6, <1>7, <2>1 DEF HostOK
<1> QED
  BY <1>1, <1>3, <1>4, <1>8 DEF Q, m

(* While /proc is walked no pid the walk may have seen is given out again. *)
LEMMA WalkLater ==
  ASSUME NEW P, NEW t, HostOK(P, t), NEW Q, NEW u, HostOK(Q, u), Later(P, Q),
         NEW g, NEW e, NEW c, Walk(P, g, e, c),
         \A p \in 1..Len(P), q \in 1..Len(Q) :
           q \notin 1..Len(P) => Q[q].pid # P[p].pid
  PROVE  Walk(Q, g, e, c)
<1>1. \A p \in 1..Len(P) :
        /\ p \in 1..Len(Q) /\ Q[p].pid = P[p].pid /\ Q[p].parent = P[p].parent
        /\ \A k : Named(Q, g, k, p) <=> Named(P, g, k, p)
  BY LaterNames DEF Later
<1>2. \A p \in 1..Len(P) : Latest(P, p) => Latest(Q, p)
  BY <1>1 DEF Latest
<1> SUFFICES ASSUME NEW k \in DOMAIN g.nodes
             PROVE  /\ k.pid < c /\ k \in DOMAIN e /\ g.nodes[k].origin = "Scanned"
                    /\ \E p \in 1..Len(Q) :
                         /\ Named(Q, g, k, p) /\ Latest(Q, p)
                         /\ e[k] # 0 =>
                              \E q \in {Q[p].parent, 1} \ {0, p} :
                                e[k] = Q[q].pid /\ Latest(Q, q)
  BY DEF Walk
<1>3. k.pid < c /\ k \in DOMAIN e /\ g.nodes[k].origin = "Scanned"
  BY DEF Walk
<1>4. PICK p \in 1..Len(P) :
        /\ Named(P, g, k, p) /\ Latest(P, p)
        /\ e[k] # 0 => \E q \in {P[p].parent, 1} \ {0, p} : e[k] = P[q].pid /\ Latest(P, q)
  BY DEF Walk
<1>5. \A q \in {P[p].parent, 1} \ {0, p} : q \in 1..Len(P)
  BY ParentIs
<1>6. e[k] # 0 => \E q \in {Q[p].parent, 1} \ {0, p} : e[k] = Q[q].pid /\ Latest(Q, q)
  BY <1>1, <1>2, <1>4, <1>5
<1> QED
  BY <1>1, <1>2, <1>3, <1>4, <1>6

(* Before the walk has looked at the first pid it knows nothing.           *)
LEMMA WalkEmpty ==
  ASSUME NEW P, NEW Q, NEW g, Sound(g), NEW e, Walk(P, g, e, 1)
  PROVE  Walk(Q, g, e, 1)
<1>1. \A k \in DOMAIN g.nodes : k.pid \in Nat /\ k.pid > 0
  BY Constants DEF Sound, IsGraph, Key
<1>2. \A k \in DOMAIN g.nodes : FALSE
  BY SMTT(30), <1>1 DEF Walk
<1> QED
  BY <1>2 DEF Walk

(* A step that leaves the agent alone keeps the invariant of the graph.    *)
LEMMA AgentIdle ==
  ASSUME ObsInv, UNCHANGED <<graph, edges, phase, cursor>>,
         HostOK(procs', now'), RingOK(procs', ring', unheardExit'),
         GraphOK(procs', graph, ring', unheardExit'), ring' \in Seq(Event),
         ~attached' => ring' = <<>>,
         phase = "scan" => ~attached' /\ Walk(procs', graph, edges, cursor)
  PROVE  ObsInv'
<1>1. GInv'
  BY DEF ObsInv, GInv, TypeOK, CapAfterReap, Nodes
<1> QED
  BY <1>1 DEF ObsInv

(* What a sensor submits.                                                  *)
LEMMA HdrIs ==
  ASSUME NEW key \in Key, NEW image \in Trusts \cup {Empty}, now \in Times,
         NEW type, NEW child,
         \/ type = "Fork" /\ child \in Key
         \/ type \in {"Exec", "Exit", "CredChange", "FileOpen"} /\ child = NoKey
  PROVE  /\ Hdr(type, key, child, image) \in Event
         /\ Hdr(type, key, child, image).type = type
         /\ Hdr(type, key, child, image).key = key
         /\ Hdr(type, key, child, image).child = child
<1>1. (CHOOSE c \in Comms : TRUE) \in Comms
  BY Constants
<1> DEFINE comm == CHOOSE c \in Comms : TRUE
<1> HIDE DEF comm
<1> QED
  BY <1>1 DEF Hdr, Event, EventOf, StructuralTypes, BehaviourTypes, Empty, comm

(* The ring after an event, submitted or lost.                             *)
LEMMA EmitIs ==
  ASSUME ring \in Seq(Event), ~attached => ring = <<>>, NEW ev \in Event, Emit(ev),
         attached' = attached
  PROVE  /\ ring' \in Seq(Event) /\ (~attached' => ring' = <<>>)
         /\ Heard => ring' = Append(ring, ev)
         /\ ~Heard => ring' = ring
<1>1. /\ Heard => ring' = Append(ring, ev)
      /\ ~Heard => ring' = ring
  BY DEF Emit
<1> QED
  BY SMTT(30), <1>1, AppendIs DEF Heard

(* Lead and Second are the keys of the model.                              *)
LEMMA KeysAre ==
  ASSUME HostOK(procs, now), NEW p \in Living, NEW caller \in Callers(p)
  PROVE  p \in 1..Len(procs) /\ procs[p].alive /\ Spoken(procs, caller, p) /\ caller \in Key
<1>1. p \in 1..Len(procs) /\ procs[p].alive
  BY DEF Living, Proc
<1>2. procs[p].threaded => procs[p].thread # NoThread
  BY <1>1 DEF HostOK
<1>3. Spoken(procs, caller, p)
  BY <1>2 DEF Callers, LeaderKey, ThreadKey, Spoken, Threads, Lead, Second
<1>4. Lead(procs, p) \in Key /\ (procs[p].thread # NoThread => Second(procs, p) \in Key)
  BY <1>1, ProcessIs
<1> QED
  BY <1>1, <1>3, <1>4 DEF Spoken, Threads

-----------------------------------------------------------------------------
(* The steps of the host. *)

(* Time passes.                                                            *)
LEMMA HostTickInv == ObsInv /\ HostTick => ObsInv'
<1> SUFFICES ASSUME ObsInv, HostTick PROVE ObsInv'
  OBVIOUS
<1>1. HostOK(procs, now) /\ now \in Nat /\ MaxTime \in Nat
  BY SMTT(30), Constants DEF ObsInv, HostOK
<1>2. now' = now + 1 /\ now < MaxTime /\ procs' = procs
  BY DEF HostTick, Advance
<1>3. now' \in Times /\ now <= now' /\ now' \in Nat
  BY SMTT(30), <1>1, <1>2, Constants
<1>4. ASSUME NEW p \in 1..Len(procs)
      PROVE  procs[p].start <= now' /\ procs[p].thread <= now'
  <2> DEFINE a == procs[p].start
             b == procs[p].thread
  <2>1. a \in Nat /\ b \in Int /\ a <= now /\ b <= now
    BY <1>1, ProcessIs
  <2> HIDE DEF a, b
  <2>2. a <= now' /\ b <= now'
    BY SMTT(30), <1>1, <1>3, <2>1
  <2> QED
    BY <2>2 DEF a, b
<1>5. HostOK(procs', now')
  BY SMTT(30), <1>1, <1>2, <1>3, <1>4 DEF HostOK
<1> QED
  BY <1>2, <1>5, AgentIdle DEF HostTick, ObsInv

(* A process is forked.                                                    *)
LEMMA HostForkInv ==
  ASSUME ObsInv, NEW p \in Living, NEW caller \in Callers(p), NEW pid \in Pids,
         HostFork(p, caller, pid)
  PROVE  ObsInv'
<1> DEFINE n == NewProc(pid, now, p, procs[p].image)
           Q == Append(procs, n)
           child == [pid |-> pid, start |-> now]
           ev == Hdr("Fork", caller, child, Empty)
           c == Len(Q)
<1>1. /\ HostOK(procs, now) /\ RingOK(procs, ring, unheardExit) /\ ring \in Seq(Event)
      /\ GraphOK(procs, graph, ring, unheardExit) /\ Sound(graph)
      /\ ~attached => ring = <<>>
      /\ phase = "scan" => ~attached /\ Walk(procs, graph, edges, cursor)
  BY DEF ObsInv, GInv
<1>2. /\ p \in 1..Len(procs) /\ procs[p].alive /\ Spoken(procs, caller, p) /\ caller \in Key
  BY <1>1, KeysAre
<1>3. /\ n \in Process /\ n.pid = pid /\ n.start = now /\ n.parent = p /\ n.thread = NoThread
      /\ ~n.threaded /\ n.alive
  <2>1. procs[p] \in Process /\ now \in Times /\ p \in Nat
    BY SMTT(30), <1>1, <1>2 DEF HostOK
  <2>2. procs[p].image \in Images
    BY <2>1 DEF Process
  <2> QED
    BY <2>1, <2>2 DEF NewProc, Process
<1>4. ASSUME NEW q \in 1..Len(procs), procs[q].pid = n.pid
      PROVE  /\ ~procs[q].alive /\ now - procs[q].start > ReuseGap /\ procs[q].thread < now
             /\ phase # "scan" \/ cursor = 1
  <2>1. /\ ~procs[q].alive /\ now - procs[q].start > ReuseGap
        /\ procs[q].thread # NoThread => now > procs[q].thread
        /\ phase # "scan" \/ cursor = 1
    BY <1>3, <1>4 DEF HostFork, FreePid, Proc
  <2>2. now \in Nat /\ procs[q].thread \in Int
    BY <1>1, ProcessIs
  <2>3. procs[q].thread < now
    BY SMTT(30), <2>1, <2>2 DEF NoThread
  <2> QED
    BY <2>1, <2>3
<1> HIDE DEF n
<1>5. /\ HostOK(Q, now) /\ Later(procs, Q) /\ Q[c] = n /\ c = Len(procs) + 1
      /\ \A q \in 1..Len(procs) : Q[q] = procs[q] /\ q \in 1..c
      /\ \A q \in 1..c : q \in 1..Len(procs) \/ q = c
  BY SMTT(30), <1>1, <1>2, <1>3, <1>4, HostGrow
<1>6. procs' = Q /\ Emit(ev) /\ UNCHANGED <<graph, edges, phase, now, attached, unheardExit, cursor>>
  BY DEF HostFork, n
<1>7. c \in 1..c /\ c \notin 1..Len(procs)
  <2>1. Len(procs) \in Nat
    BY SMTT(30), <1>1 DEF HostOK
  <2> HIDE DEF c
  <2> QED
    BY SMTT(30), <1>5, <2>1
<1> HIDE DEF Q, c
<1>8. c = Len(Q) /\ child = Lead(Q, c) /\ child \in Key /\ now \in Times
  <2>1. c = Len(Q) /\ now \in Times
    BY <1>1 DEF c, HostOK
  <2> QED
    BY <1>3, <1>5, <2>1 DEF Lead, Key
<1> HIDE DEF child
<1>9. ev \in Event /\ ev.type = "Fork" /\ ev.key = caller /\ ev.child = child
  BY SMTT(30), <1>2, <1>8, HdrIs
<1> HIDE DEF ev
<1>10. p \in 1..Len(Q) /\ Spoken(Q, caller, p) /\ Q[p].alive
  BY <1>2, <1>5, <1>8 DEF Spoken, Threads, Lead, Second
<1>11. Origin(Q, ev)
  <2>1. Q[c].parent = p /\ Q[c].pid # Q[p].pid
    BY <1>2, <1>3, <1>4, <1>5
  <2> QED
    BY SMTT(30), <1>7, <1>8, <1>9, <1>10, <2>1 DEF Origin
<1>12. ASSUME NEW x \in 1..Len(Q), Born(Q, ev, x) PROVE x = c
  BY <1>5, <1>7, <1>8, <1>9, <1>12, OneSpeaker DEF Born, Spoken
<1>13. ASSUME NEW x \in 1..Len(Q), About(Q, ev, x) PROVE Q[x].alive
  <2>1. CASE Spoken(Q, ev.key, x)
    <3>1. x = p
      BY <1>5, <1>9, <1>10, <2>1, OneSpeaker
    <3> QED
      BY <1>10, <3>1
  <2>2. CASE Born(Q, ev, x)
    BY <1>3, <1>5, <1>12, <2>2
  <2> QED
    BY <1>13, <2>1, <2>2 DEF About
<1>14. \A q \in 1..Len(procs) : procs[q].alive => Q[q].alive
  BY <1>5
<1>15. /\ RingOK(Q, ring, unheardExit) /\ GraphOK(Q, graph, ring, unheardExit)
       /\ RingOK(Q, Append(ring, ev), unheardExit)
       /\ GraphOK(Q, graph, Append(ring, ev), unheardExit)
  BY <1>1, <1>5, <1>7, <1>9, <1>11, <1>12, <1>13, <1>14, HostStep
<1>16. /\ ring' \in Seq(Event) /\ (~attached' => ring' = <<>>)
       /\ ring' = Append(ring, ev) \/ ring' = ring
  BY <1>1, <1>6, <1>9, EmitIs
<1>17. ASSUME phase = "scan" PROVE Walk(Q, graph, edges, cursor)
  <2>1. CASE cursor = 1
    BY <1>1, <1>17, <2>1, WalkEmpty
  <2>2. CASE cursor # 1
    <3>1. \A x \in 1..Len(procs), q \in 1..Len(Q) :
            q \notin 1..Len(procs) => Q[q].pid # procs[x].pid
      BY <1>4, <1>5, <1>8, <1>17, <2>2
    <3> QED
      BY <1>1, <1>5, <1>17, <3>1, WalkLater
  <2> QED
    BY <2>1, <2>2
<1> QED
  BY <1>1, <1>5, <1>6, <1>15, <1>16, <1>17, AgentIdle

(* What the sensors' steps share: the invariant as they find it.           *)
LEMMA ObsFacts ==
  ASSUME ObsInv
  PROVE  /\ HostOK(procs, now) /\ RingOK(procs, ring, unheardExit) /\ ring \in Seq(Event)
         /\ GraphOK(procs, graph, ring, unheardExit) /\ Sound(graph)
         /\ ~attached => ring = <<>>
         /\ phase = "scan" => ~attached /\ Walk(procs, graph, edges, cursor)
         /\ now \in Times /\ \A p \in 1..Len(procs) : procs[p] \in Process
  BY SMTT(30) DEF ObsInv, GInv, HostOK

(* A step that changes a process that goes on running, with or without an  *)
(* event of its own.                                                       *)
LEMMA EditInv ==
  ASSUME ObsInv, NEW p \in 1..Len(procs), procs[p].alive, NEW n \in Process,
         n.pid = procs[p].pid, n.start = procs[p].start, n.parent = procs[p].parent,
         n.alive, n.threaded => n.thread # NoThread,
         \/ n.thread = procs[p].thread
         \/ n.thread = now /\ procs[p].thread = NoThread /\ procs[p].start < now,
         procs' = [procs EXCEPT ![p] = n],
         UNCHANGED <<graph, edges, phase, now, attached, unheardExit, cursor>>,
         \/ ring' = ring
         \/ \E ev \in Event : Emit(ev) /\ ev.type \notin {"Fork", "Exit"} /\ Spoken(procs, ev.key, p)
  PROVE  ObsInv'
<1> DEFINE Q == [procs EXCEPT ![p] = n]
<1>1. /\ HostOK(Q, now) /\ Later(procs, Q) /\ Len(Q) = Len(procs) /\ Q[p] = n
      /\ \A q \in 1..Len(procs) \ {p} : Q[q] = procs[q]
  <2>1. /\ HostOK(procs, now) /\ Q = [procs EXCEPT ![p] = n]
    BY ObsFacts
  <2> HIDE DEF Q
  <2>2. Edits(procs, now, p, n, Q)
    BY <2>1 DEF Edits
  <2> QED
    BY SMTT(30), <2>1, <2>2, HostEdit
<1> HIDE DEF Q
<1>2. \A q \in 1..Len(procs) : procs[q].alive => Q[q].alive
  BY <1>1
<1>3. RingOK(Q, ring, unheardExit) /\ GraphOK(Q, graph, ring, unheardExit)
  BY <1>1, <1>2, ObsFacts, HostStep
<1>4. phase = "scan" => Walk(Q, graph, edges, cursor)
  BY <1>1, ObsFacts, WalkLater
<1>5. CASE ring' = ring
  BY <1>1, <1>3, <1>4, <1>5, ObsFacts, AgentIdle DEF Q
<1>6. ASSUME NEW ev \in Event, Emit(ev), ev.type \notin {"Fork", "Exit"}, Spoken(procs, ev.key, p)
      PROVE  ObsInv'
  <2>1. Spoken(Q, ev.key, p)
    BY <1>1, <1>6, ObsFacts, LaterNames
  <2>2. Origin(Q, ev)
    BY <1>1, <1>6, <2>1 DEF Origin
  <2>3. \A x \in 1..Len(Q) : ~Born(Q, ev, x)
    BY <1>6 DEF Born
  <2>4. ASSUME NEW x \in 1..Len(Q), About(Q, ev, x) PROVE Q[x].alive
    <3>1. x = p
      BY <1>1, <2>1, <2>3, <2>4, OneSpeaker DEF About
    <3> QED
      BY <1>1, <3>1
  <2>5. RingOK(Q, Append(ring, ev), unheardExit) /\ GraphOK(Q, graph, Append(ring, ev), unheardExit)
    BY <1>1, <1>2, <2>2, <2>3, <2>4, ObsFacts, HostStep
  <2>6. /\ ring' \in Seq(Event) /\ (~attached' => ring' = <<>>)
        /\ ring' = Append(ring, ev) \/ ring' = ring
    BY <1>6, ObsFacts, EmitIs
  <2> QED
    BY <1>1, <1>3, <1>4, <2>5, <2>6, ObsFacts, AgentIdle DEF Q
<1> QED
  BY <1>5, <1>6

(* A second thread starts.                                                 *)
LEMMA HostThreadInv ==
  ASSUME ObsInv, NEW p \in Living, HostThread(p)
  PROVE  ObsInv'
<1> DEFINE n == [procs[p] EXCEPT !.thread = now, !.threaded = TRUE]
<1>1. p \in 1..Len(procs) /\ procs[p].alive /\ procs[p] \in Process /\ now \in Times
  BY ObsFacts DEF Living, Proc
<1>2. now > procs[p].start /\ procs[p].thread = NoThread /\ now \in Nat /\ procs[p].start \in Nat
  BY SMTT(30), <1>1, Constants DEF HostThread, Process
<1>3. /\ n \in Process /\ n.pid = procs[p].pid /\ n.start = procs[p].start
      /\ n.parent = procs[p].parent /\ n.alive /\ n.thread = now
  BY <1>1 DEF Process
<1>4. now # NoThread /\ procs[p].start < now
  BY SMTT(30), <1>2 DEF NoThread
<1>5. procs' = [procs EXCEPT ![p] = n]
  BY <1>1 DEF HostThread
<1>6. UNCHANGED <<graph, edges, phase, now, attached, unheardExit, cursor, ring>>
  BY DEF HostThread
<1> HIDE DEF n
<1> QED
  BY <1>1, <1>2, <1>3, <1>4, <1>5, <1>6, EditInv

(* A process execs.                                                        *)
LEMMA HostExecInv ==
  ASSUME ObsInv, NEW p \in Living, NEW image \in Images, HostExec(p, image)
  PROVE  ObsInv'
<1> DEFINE n == [procs[p] EXCEPT !.image = image, !.threaded = FALSE]
           ev == Hdr("Exec", LeaderKey(p), NoKey, image)
<1>1. p \in 1..Len(procs) /\ procs[p].alive /\ procs[p] \in Process /\ now \in Times
  BY ObsFacts DEF Living, Proc
<1>2. /\ n \in Process /\ n.pid = procs[p].pid /\ n.start = procs[p].start
      /\ n.parent = procs[p].parent /\ n.alive /\ n.thread = procs[p].thread /\ ~n.threaded
  BY <1>1 DEF Process
<1>3. procs' = [procs EXCEPT ![p] = n]
  BY <1>1 DEF HostExec
<1>4. Emit(ev) /\ UNCHANGED <<graph, edges, phase, now, attached, unheardExit, cursor>>
  BY DEF HostExec
<1>5. LeaderKey(p) = Lead(procs, p) /\ LeaderKey(p) \in Key
  BY <1>1, ObsFacts, ProcessIs DEF LeaderKey, Lead
<1>6. ev \in Event /\ ev.type = "Exec" /\ ev.key = Lead(procs, p)
  BY SMTT(30), <1>1, <1>5, HdrIs DEF Images
<1> HIDE DEF n, ev
<1>7. Spoken(procs, ev.key, p) /\ ev.type \notin {"Fork", "Exit"}
  BY <1>6 DEF Spoken
<1> QED
  BY <1>1, <1>2, <1>3, <1>4, <1>6, <1>7, EditInv

(* A credential change or a watched file opened.                           *)
LEMMA HostCallInv ==
  ASSUME ObsInv, NEW p \in Living, NEW caller \in Callers(p), NEW type \in Calls,
         HostCall(p, caller, type)
  PROVE  ObsInv'
<1> DEFINE ev == Hdr(type, caller, NoKey, Empty)
<1>1. /\ p \in 1..Len(procs) /\ procs[p].alive /\ procs[p] \in Process /\ now \in Times
      /\ Spoken(procs, caller, p) /\ caller \in Key
  BY ObsFacts, KeysAre
<1>2. type \in {"CredChange", "FileOpen"}
  BY ObservationConstants
<1>3. ev \in Event /\ ev.type = type /\ ev.key = caller
  BY SMTT(30), <1>1, <1>2, HdrIs
<1>4. Emit(ev) /\ UNCHANGED <<graph, edges, phase, now, attached, unheardExit, cursor, procs>>
  BY DEF HostCall
<1>5. procs' = [procs EXCEPT ![p] = procs[p]]
  BY SMTT(30), <1>1, <1>4, ObsFacts DEF HostOK
<1>6. procs[p].threaded => procs[p].thread # NoThread
  BY <1>1, ObsFacts DEF HostOK
<1> HIDE DEF ev
<1>7. Spoken(procs, ev.key, p) /\ ev.type \notin {"Fork", "Exit"}
  BY <1>1, <1>2, <1>3
<1> QED
  BY <1>1, <1>3, <1>4, <1>5, <1>6, <1>7, EditInv

(* A process ends.                                                         *)
LEMMA HostExitInv ==
  ASSUME ObsInv, NEW p \in Living, HostExit(p)
  PROVE  ObsInv'
<1> DEFINE n == [procs[p] EXCEPT !.alive = FALSE, !.threaded = FALSE, !.image = Empty]
           Q == [procs EXCEPT ![p] = n]
           ev == Hdr("Exit", LeaderKey(p), NoKey, Empty)
<1>1. p \in 1..Len(procs) /\ procs[p].alive /\ procs[p] \in Process /\ now \in Times
  BY ObsFacts DEF Living, Proc
<1>2. /\ n \in Process /\ n.pid = procs[p].pid /\ n.start = procs[p].start
      /\ n.parent = procs[p].parent /\ ~n.alive /\ n.thread = procs[p].thread /\ ~n.threaded
  BY <1>1 DEF Process, Images
<1>3. procs' = Q /\ p # 1
  BY <1>1 DEF HostExit
<1>4. /\ Emit(ev) /\ UNCHANGED <<graph, edges, phase, now, attached, cursor>>
      /\ unheardExit' = IF Heard THEN unheardExit ELSE unheardExit \cup {p}
  BY DEF HostExit
<1>5. LeaderKey(p) = Lead(procs, p) /\ LeaderKey(p) \in Key
  BY <1>1, ObsFacts, ProcessIs DEF LeaderKey, Lead
<1>6. ev \in Event /\ ev.type = "Exit" /\ ev.key = Lead(procs, p)
  BY SMTT(30), <1>1, <1>5, HdrIs
<1> HIDE DEF n, ev
<1>7. /\ HostOK(Q, now) /\ Later(procs, Q) /\ Len(Q) = Len(procs) /\ Q[p] = n
      /\ \A q \in 1..Len(procs) \ {p} : Q[q] = procs[q]
  <2>1. HostOK(procs, now) /\ Q = [procs EXCEPT ![p] = n]
    BY ObsFacts
  <2> HIDE DEF Q
  <2>2. Edits(procs, now, p, n, Q)
    BY <1>1, <1>2, <1>3, <2>1 DEF Edits
  <2>3. HostOK(procs, now) /\ p \in 1..Len(procs)
    BY <1>1, <2>1
  <2> QED
    BY SMTT(30), <2>2, <2>3, HostEdit
<1> HIDE DEF Q
<1>8. /\ ~Q[p].alive /\ \A q \in 1..Len(procs) \ {p} : procs[q].alive => Q[q].alive
      /\ \A q \in 1..Len(procs) : Q[q].thread = procs[q].thread
  BY <1>2, <1>7
<1>9. /\ RingOK(Q, ring, unheardExit \cup {p}) /\ GraphOK(Q, graph, ring, unheardExit \cup {p})
      /\ RingOK(Q, Append(ring, ev), unheardExit) /\ GraphOK(Q, graph, Append(ring, ev), unheardExit)
  BY <1>1, <1>6, <1>7, <1>8, ObsFacts, ExitStep
<1>10. phase = "scan" => Walk(Q, graph, edges, cursor)
  BY <1>7, ObsFacts, WalkLater
<1>11. /\ ring' \in Seq(Event) /\ (~attached' => ring' = <<>>)
       /\ Heard => ring' = Append(ring, ev)
       /\ ~Heard => ring' = ring
  BY <1>4, <1>6, ObsFacts, EmitIs
<1>12. RingOK(Q, ring', unheardExit') /\ GraphOK(Q, graph, ring', unheardExit')
  BY <1>4, <1>9, <1>11
<1> QED
  BY <1>3, <1>4, <1>7, <1>10, <1>11, <1>12, ObsFacts, AgentIdle

-----------------------------------------------------------------------------
(* The steps of the agent. *)

(* The ring is empty while /proc is walked.                                *)
LEMMA Unheard ==
  ASSUME NEW P, NEW p
  PROVE  ~Outstanding(P, <<>>, p)
  BY SMTT(30) DEF Outstanding

(* One entry of /proc.                                                     *)
LEMMA ScanPidInv == ObsInv /\ ScanPid => ObsInv'
<1> SUFFICES ASSUME ObsInv, ScanPid PROVE ObsInv'
  OBVIOUS
<1>1. /\ phase = "scan" /\ ~attached /\ ring = <<>> /\ Walk(procs, graph, edges, cursor)
      /\ cursor \in Pids /\ cursor' = cursor + 1 /\ GInv /\ cursor \in Nat
      /\ UNCHANGED <<procs, now, attached, ring, unheardExit>>
  BY ObsFacts, Constants DEF ScanPid, hostVars, ObsInv
<1>2. /\ \A k \in DOMAIN graph.nodes : k.pid < cursor /\ k \in DOMAIN edges
      /\ DOMAIN graph.nodes \subseteq Key /\ \A k \in DOMAIN graph.nodes : k.pid \in Nat
      /\ DOMAIN edges \subseteq DOMAIN graph.nodes /\ Flat(graph)
  BY <1>1, Constants DEF Walk, GInv, Sound, IsGraph, TypeOK, Nodes, Key
<1>3. \A k \in DOMAIN graph.nodes : k.pid < cursor' /\ k.pid # cursor
  BY SMTT(30), <1>1, <1>2
<1>4. CASE UNCHANGED <<graph, edges, phase>>
  <2>1. GInv'
    BY <1>1, <1>4 DEF GInv, TypeOK, CapAfterReap, Nodes
  <2>2. Walk(procs, graph, edges, cursor')
    BY <1>1, <1>3 DEF Walk
  <2> QED
    BY <1>1, <1>4, <2>1, <2>2 DEF ObsInv
<1>5. ASSUME NEW p \in Living, procs[p].pid = cursor, NEW comm \in Comms,
             ScanOne([pid |-> cursor, start |-> Trunc(procs[p].start)],
                     PpidOf(p), comm, procs[p].image)
      PROVE  ObsInv'
  <2> DEFINE P == procs
             key == [pid |-> cursor, start |-> Trunc(procs[p].start)]
             n == [NewNode(key, "Scanned") EXCEPT !.comm = comm, !.trusted = procs[p].image]
             h == graph'
  <2>1. p \in 1..Len(P) /\ P[p].alive /\ P[p] \in Process /\ HostOK(P, now)
    BY ObsFacts DEF Living, Proc
  <2>2. Trunc(P[p].start) \in Times /\ P[p].image \in Trusts \cup {Empty}
    BY <2>1, ProcessIs DEF Process, Images
  <2>3. key \in Key /\ key.pid = P[p].pid /\ key.start = Trunc(P[p].start) /\ key.pid = cursor
    BY <1>1, <1>5, <2>2 DEF Key
  <2>4. Latest(P, p)
    BY <2>1, LivingLatest
  <2>5. /\ PpidOf(p) \in Pids \cup {0}
        /\ PpidOf(p) # 0 => \E q \in {P[p].parent, 1} \ {0, p} :
                              PpidOf(p) = P[q].pid /\ Latest(P, q)
    <3>1. CASE p = 1
      BY <3>1 DEF PpidOf
    <3>2. CASE p # 1
      <4>1. P[p].parent \in 1..Len(P) /\ P[p].parent # p /\ P[p].parent # 0
        <5>1. P[p].parent \in 1..(p - 1) /\ Len(P) \in Nat
          BY SMTT(30), <2>1, <3>2 DEF HostOK
        <5> QED
          BY SMTT(30), <2>1, <5>1
      <4>2. CASE P[P[p].parent].alive
        <5>1. PpidOf(p) = P[P[p].parent].pid /\ Latest(P, P[p].parent)
          BY <2>1, <3>2, <4>1, <4>2, LivingLatest DEF PpidOf
        <5>2. P[P[p].parent].pid \in Pids
          BY <2>1, <4>1, ProcessIs
        <5> QED
          BY <4>1, <5>1, <5>2
      <4>3. CASE ~P[P[p].parent].alive
        <5>1. 1 \in 1..Len(P) /\ P[1].alive /\ P[1].pid = 1
          BY SMTT(30), <2>1 DEF HostOK
        <5>2. PpidOf(p) = 1 /\ Latest(P, 1)
          BY <2>1, <3>2, <4>3, <5>1, LivingLatest DEF PpidOf
        <5> QED
          BY <3>2, <5>1, <5>2, Constants
      <4> QED
        BY <4>2, <4>3
    <3> QED
      BY <3>1, <3>2
  <2>6. GInv'
    BY <1>1, <1>5, <2>2, <2>3, <2>5, ScanOneInv
  <2>7. /\ h = InsertScanned(graph, key, n) /\ edges' = Put(edges, key, PpidOf(p))
        /\ phase' = "scan"
    BY <1>1, <1>5 DEF ScanOne
  <2>8. n.origin = "Scanned" /\ n.exited = Alive /\ n.parent = NoKey
    BY DEF NewNode
  <2>9. key \notin DOMAIN graph.nodes
    BY <1>3, <2>3
  <2> HIDE DEF h, n, key
  <2>10. h.nodes = Put(graph.nodes, key, n) /\ h.byPid = Put(graph.byPid, key.pid, key)
    BY <2>7 DEF InsertScanned
  <2>11. /\ DOMAIN h.nodes = DOMAIN graph.nodes \cup {key} /\ h.nodes[key] = n
         /\ \A k \in DOMAIN graph.nodes : h.nodes[k] = graph.nodes[k]
         /\ key.pid \in DOMAIN h.byPid /\ h.byPid[key.pid] = key
         /\ \A x \in DOMAIN graph.byPid : x # key.pid =>
              x \in DOMAIN h.byPid /\ h.byPid[x] = graph.byPid[x]
         /\ \A k \in DOMAIN graph.nodes : Same(graph, h, k)
    BY <2>9, <2>10 DEF Put, Same
  <2>12. /\ \A k \in DOMAIN graph.nodes, q \in 1..Len(P) :
              Named(P, h, k, q) <=> Named(P, graph, k, q)
         /\ Named(P, h, key, p)
         /\ \A q \in 1..Len(P) : Named(P, h, key, q) => q = p
    <3>1. Named(P, h, key, p)
      BY <2>3, <2>8, <2>11 DEF Named
    <3>2. \A q \in 1..Len(P) : Named(P, h, key, q) => q = p
      BY <2>1, <3>1, NamedOnce
    <3>3. \A k \in DOMAIN graph.nodes, q \in 1..Len(P) :
            Named(P, h, k, q) <=> Named(P, graph, k, q)
      BY <2>11 DEF Named
    <3> QED
      BY <3>1, <3>2, <3>3
  <2>13. GraphOK(P, graph, <<>>, unheardExit) /\ Sound(graph)
    BY <1>1, ObsFacts
  <2>14. Covered(P, h)
    BY SMTT(30), <2>1, <2>11, <2>12, <2>13 DEF GraphOK, Covered
  <2>15. Scans(P, h, <<>>)
    BY <2>1, <2>3, <2>11, <2>13, Unheard DEF GraphOK, Scans
  <2>16. Single(P, h, <<>>)
    <3> SUFFICES ASSUME NEW k \in DOMAIN h.nodes, NEW q \in 1..Len(P), Named(P, h, k, q),
                        k # Lead(P, q), P[q].thread = NoThread
                 PROVE  /\ Lead(P, q) \notin DOMAIN h.nodes
                        /\ P[q].alive =>
                             /\ k.pid \in DOMAIN h.byPid /\ h.byPid[k.pid] = k
                             /\ h.nodes[k].exited = Alive
      BY Unheard DEF Single
    <3>1. Lead(P, q).pid = P[q].pid /\ k.pid = P[q].pid
      BY <2>1, ProcessIs DEF Named
    <3>2. CASE k = key
      <4>1. Lead(P, q) \notin DOMAIN h.nodes
        BY <1>3, <2>3, <2>11, <3>1, <3>2
      <4> QED
        BY <2>8, <2>11, <3>2, <4>1
    <3>3. CASE k # key
      <4>1. k \in DOMAIN graph.nodes /\ Named(P, graph, k, q) /\ k.pid # key.pid
        BY <1>3, <2>3, <2>11, <2>12, <3>3
      <4>2. /\ Lead(P, q) \notin DOMAIN graph.nodes
            /\ P[q].alive =>
                 /\ k.pid \in DOMAIN graph.byPid /\ graph.byPid[k.pid] = k
                 /\ graph.nodes[k].exited = Alive
        BY <2>13, <4>1 DEF GraphOK, Single
      <4>3. Lead(P, q) # key
        BY <3>1, <4>1
      <4> QED
        BY <2>11, <4>1, <4>2, <4>3
    <3> QED
      BY <3>2, <3>3
  <2>17. Lineal(P, h)
    <3>1. \A k \in DOMAIN h.nodes : h.nodes[k].parent = NoKey
      BY <1>2, <2>8, <2>11 DEF Flat
    <3> QED
      BY <3>1 DEF Lineal
  <2>18. Gone(P, h, <<>>, unheardExit)
    BY <2>1, <2>11, <2>12, <2>13 DEF GraphOK, Gone
  <2>19. Fresh(P, h, <<>>)
    BY SMTT(30) DEF Fresh
  <2>20. Walk(P, h, edges', cursor')
    <3>1. /\ DOMAIN edges' = DOMAIN edges \cup {key} /\ edges'[key] = PpidOf(p)
          /\ \A k \in DOMAIN graph.nodes : edges'[k] = edges[k]
      BY <1>2, <2>7, <2>9 DEF Put
    <3>2. key.pid < cursor'
      BY SMTT(30), <1>1, <2>3
    <3> SUFFICES ASSUME NEW k \in DOMAIN h.nodes
                 PROVE  /\ k.pid < cursor' /\ k \in DOMAIN edges'
                        /\ h.nodes[k].origin = "Scanned"
                        /\ \E x \in 1..Len(P) :
                             /\ Named(P, h, k, x) /\ Latest(P, x)
                             /\ edges'[k] # 0 =>
                                  \E q \in {P[x].parent, 1} \ {0, x} :
                                    edges'[k] = P[q].pid /\ Latest(P, q)
      BY DEF Walk
    <3>3. CASE k = key
      BY <2>1, <2>4, <2>5, <2>8, <2>11, <2>12, <3>1, <3>2, <3>3
    <3>4. CASE k # key
      <4>1. k \in DOMAIN graph.nodes
        BY <2>11, <3>4
      <4>2. /\ k \in DOMAIN edges /\ graph.nodes[k].origin = "Scanned"
            /\ \E x \in 1..Len(P) :
                 /\ Named(P, graph, k, x) /\ Latest(P, x)
                 /\ edges[k] # 0 =>
                      \E q \in {P[x].parent, 1} \ {0, x} : edges[k] = P[q].pid /\ Latest(P, q)
        BY <1>1, <4>1 DEF Walk
      <4> QED
        BY <1>3, <2>11, <2>12, <3>1, <4>1, <4>2
    <3> QED
      BY <3>3, <3>4
  <2>21. GraphOK(P, h, <<>>, unheardExit)
    BY <2>14, <2>15, <2>16, <2>17, <2>18, <2>19 DEF GraphOK
  <2>22. RingOK(P, <<>>, unheardExit) /\ <<>> \in Seq(Event)
    BY <1>1, ObsFacts
  <2> QED
    BY <1>1, <2>1, <2>6, <2>20, <2>21, <2>22 DEF ObsInv, h
<1> QED
  BY <1>4, <1>5 DEF ScanPid

(* The links of the scan, made once every node is there.                   *)
LEMMA LinkScanInv == ObsInv /\ LinkScan => ObsInv'
<1> SUFFICES ASSUME ObsInv, LinkScan PROVE ObsInv'
  OBVIOUS
<1> DEFINE P == procs
           g == graph
           h == graph'
           par(c) == graph.byPid[edges[c]]
           linked == {c \in DOMAIN edges : edges[c] \in DOMAIN graph.byPid /\ par(c) # c}
           kids(k) == {c \in linked : par(c) = k}
           nd(k) == graph.nodes[k]
<1>1. /\ phase = "scan" /\ ~attached /\ ring = <<>> /\ Walk(P, g, edges, cursor)
      /\ h = LinkScanned(g, edges) /\ FinishScan /\ phase' = "run"
      /\ UNCHANGED <<procs, now, attached, ring, unheardExit>>
  BY ObsFacts DEF LinkScan, FinishScan, hostVars
<1>2. GInv'
  BY <1>1, NextInv DEF ObsInv, Next
<1>3. /\ HostOK(P, now) /\ GraphOK(P, g, <<>>, unheardExit) /\ Sound(g) /\ Flat(g)
      /\ RingOK(P, <<>>, unheardExit) /\ <<>> \in Seq(Event)
      /\ DOMAIN edges \subseteq DOMAIN g.nodes
  BY <1>1, ObsFacts DEF ObsInv, GInv, TypeOK, Nodes
<1>4. /\ h.byPid = g.byPid
      /\ h.nodes = [k \in DOMAIN g.nodes |->
                      [nd(k) EXCEPT !.parent = IF k \in linked THEN par(k) ELSE @,
                                    !.children = @ \cup kids(k)]]
  BY <1>1 DEF LinkScanned
<1> HIDE DEF h, nd, kids
<1>5. DOMAIN h.nodes = DOMAIN g.nodes
  BY <1>4
<1>6. ASSUME NEW k \in DOMAIN g.nodes
      PROVE  /\ h.nodes[k].origin = g.nodes[k].origin /\ h.nodes[k].exited = g.nodes[k].exited
             /\ h.nodes[k].parent = IF k \in linked THEN par(k) ELSE NoKey
  <2>1. nd(k) \in Node /\ nd(k).parent = NoKey
    BY <1>3 DEF Sound, IsGraph, Flat, nd
  <2>2. h.nodes[k] = [nd(k) EXCEPT !.parent = IF k \in linked THEN par(k) ELSE @,
                                   !.children = @ \cup kids(k)]
    BY <1>4
  <2> HIDE DEF linked, par
  <2>3. /\ h.nodes[k].origin = nd(k).origin /\ h.nodes[k].exited = nd(k).exited
        /\ h.nodes[k].parent = IF k \in linked THEN par(k) ELSE NoKey
    BY <2>1, <2>2 DEF Node
  <2> QED
    BY <2>3 DEF nd
<1>7. \A k \in DOMAIN g.nodes : \A q : Named(P, h, k, q) <=> Named(P, g, k, q)
  BY <1>6 DEF Named
<1>8. Covered(P, h) /\ Fresh(P, h, <<>>)
  BY <1>3, <1>5, <1>7 DEF GraphOK, Covered, Fresh
<1>9. Scans(P, h, <<>>)
  BY <1>3, <1>5, <1>6 DEF GraphOK, Scans
<1>10. Single(P, h, <<>>)
  BY <1>3, <1>4, <1>5, <1>6, <1>7 DEF GraphOK, Single
<1>11. Gone(P, h, <<>>, unheardExit)
  BY <1>3, <1>5, <1>6, <1>7 DEF GraphOK, Gone
<1>12. Lineal(P, h)
  <2> SUFFICES ASSUME NEW k \in DOMAIN g.nodes, NEW p \in 1..Len(P), Named(P, h, k, p),
                      h.nodes[k].parent # NoKey
               PROVE  \E q \in {P[p].parent, 1} \ {0, p} : Leads(P, h, h.nodes[k].parent, q)
    BY <1>5 DEF Lineal
  <2>1. k \in linked /\ h.nodes[k].parent = par(k)
    BY <1>6
  <2>2. edges[k] \in DOMAIN g.byPid /\ edges[k] \in Pids
    BY <1>3, <2>1 DEF Sound, IsGraph
  <2>3. par(k) \in DOMAIN g.nodes /\ par(k).pid = edges[k]
    BY <1>3, <2>2 DEF Sound, Indexed
  <2>4. edges[k] # 0
    BY SMTT(30), <2>2, Constants
  <2> HIDE DEF par, linked
  <2>5. PICK x \in 1..Len(P) :
          /\ Named(P, g, k, x)
          /\ \E q \in {P[x].parent, 1} \ {0, x} : edges[k] = P[q].pid /\ Latest(P, q)
    BY <1>1, <2>4 DEF Walk
  <2>6. x = p
    BY <1>3, <1>7, <2>5, NamedOnce
  <2>7. PICK q \in {P[p].parent, 1} \ {0, p} : edges[k] = P[q].pid /\ Latest(P, q)
    BY <2>5, <2>6
  <2>8. PICK y \in 1..Len(P) : Named(P, g, par(k), y) /\ Latest(P, y)
    BY <1>1, <2>3 DEF Walk
  <2>9. q \in 1..Len(P)
    BY <1>3, ParentIs
  <2>10. y = q
    <3>1. P[y].pid = P[q].pid
      BY <2>3, <2>7, <2>8 DEF Named
    <3>2. y <= q /\ q <= y
      BY <2>7, <2>8, <2>9, <3>1 DEF Latest
    <3>3. y \in Int /\ q \in Int
      BY SMTT(30), <2>9
    <3> QED
      BY SMTT(30), <3>2, <3>3
  <2>11. Leads(P, h, par(k), q)
    BY <1>7, <2>3, <2>8, <2>10 DEF Leads
  <2> QED
    BY <2>1, <2>11
<1>13. GraphOK(P, h, <<>>, unheardExit)
  BY <1>8, <1>9, <1>10, <1>11, <1>12 DEF GraphOK
<1> QED
  BY <1>1, <1>2, <1>3, <1>13 DEF ObsInv, h

(* The sensors are attached to an empty ring.                              *)
LEMMA AttachInv == ObsInv /\ Attach => ObsInv'
<1> SUFFICES ASSUME ObsInv, Attach PROVE ObsInv'
  OBVIOUS
<1>1. /\ phase # "scan" /\ attached'
      /\ UNCHANGED <<graph, edges, phase, procs, now, ring, unheardExit, cursor>>
  BY DEF Attach
<1> QED
  BY <1>1, ObsFacts, AgentIdle

(* The callback takes an event, applies it and may reap.                   *)
LEMMA ConsumeInv == ObsInv /\ Consume => ObsInv'
<1> SUFFICES ASSUME ObsInv, Consume PROVE ObsInv'
  OBVIOUS
<1> DEFINE ev == Head(ring)
           applied == ApplyEvent(graph, ev)
<1>1. /\ ring # <<>> /\ ring' = Tail(ring) /\ ring \in Seq(Event) /\ attached
      /\ phase # "scan" /\ UNCHANGED <<edges, procs, now, attached, unheardExit, cursor>>
      /\ phase' \in {"run", "reaped"}
  BY ObsFacts DEF Consume
<1>2. ev = ring[1] /\ Tail(ring) \in Seq(Event)
  BY <1>1, TailIs
<1>3. Sound(applied) /\ GraphOK(procs, applied, ring', unheardExit)
  BY <1>1, <1>2, ObsFacts, ApplyOK
<1>4. RingOK(procs, ring', unheardExit)
  BY <1>1, ObsFacts, RingTail
<1> HIDE DEF applied
<1>5. /\ Sound(graph') /\ GraphOK(procs, graph', ring', unheardExit)
      /\ phase' = "reaped" => Cardinality(DOMAIN graph'.nodes) <= MaxProcesses
  <2>1. \/ graph' \in Reap(applied, ev.ts)
        \/ graph' = applied /\ phase' = "run"
    BY DEF Consume, applied
  <2>2. CASE graph' \in Reap(applied, ev.ts)
    BY <1>3, <2>2, ReapSound, ReapOK
  <2>3. CASE graph' = applied /\ phase' = "run"
    BY <1>3, <2>3
  <2> QED
    BY <2>1, <2>2, <2>3
<1>6. edges = NoEdges /\ edges' = NoEdges
  BY <1>1 DEF ObsInv, GInv
<1>7. GInv'
  <2>1. IsGraph(graph')
    BY <1>5 DEF Sound
  <2>2. edges' \in [DOMAIN edges' -> Pids \cup {0}] /\ DOMAIN edges' \subseteq DOMAIN graph'.nodes
    BY <1>6 DEF NoEdges
  <2>3. TypeOK'
    BY <1>1, <2>1, <2>2 DEF TypeOK, Nodes
  <2> QED
    BY <1>1, <1>5, <1>6, <2>3 DEF GInv, CapAfterReap, Nodes
<1> QED
  BY <1>1, <1>2, <1>4, <1>5, <1>7, ObsFacts DEF ObsInv

-----------------------------------------------------------------------------
(* The invariant and what follows from it. *)

(* At the start the host has one process and the graph is empty.           *)
LEMMA ObsInitInv == ObsInit => ObsInv
<1> SUFFICES ASSUME ObsInit PROVE ObsInv
  OBVIOUS
<1>1. PICK image \in Images : procs = <<NewProc(1, 0, 0, image)>>
  BY DEF ObsInit, HostInit
<1>2. now = 0 /\ ~attached /\ ring = <<>> /\ graph = NewGraph /\ 0 \in Times
  BY SMTT(30), Constants DEF ObsInit, HostInit, Init
<1>3. GInv
  BY InitInv DEF ObsInit
<1> DEFINE n == NewProc(1, 0, 0, image)
<1>4. /\ n \in Process /\ n.pid = 1 /\ n.start = 0 /\ n.parent = 0 /\ n.alive
      /\ n.thread = NoThread /\ ~n.threaded
  BY <1>2, Constants DEF NewProc, Process
<1> HIDE DEF n
<1>5. Len(procs) = 1 /\ procs[1] = n /\ procs \in Seq(Process)
  BY SMTT(30), <1>1, <1>4 DEF n
<1>6. HostOK(procs, now)
  <2>1. \A p \in 1..Len(procs) : p = 1
    BY SMTT(30), <1>5
  <2>2. 0 <= now /\ NoThread <= now /\ Len(procs) > 0
    BY SMTT(30), <1>2, <1>5 DEF NoThread
  <2>3. ASSUME NEW p \in 1..Len(procs)
        PROVE  /\ procs[p].start <= now /\ procs[p].thread <= now
               /\ procs[p].thread # NoThread => procs[p].start < procs[p].thread
               /\ procs[p].threaded => procs[p].thread # NoThread
               /\ p # 1 => procs[p].parent \in 1..(p - 1)
    BY <1>4, <1>5, <2>1, <2>2
  <2>4. \A p, q \in 1..Len(procs) : ~(p < q)
    BY SMTT(30), <2>1
  <2> QED
    BY <1>2, <1>4, <1>5, <2>2, <2>3, <2>4 DEF HostOK
<1>7. ring \in Seq(Event) /\ RingOK(procs, ring, unheardExit)
  <2>1. Len(ring) = 0 /\ ring \in Seq(Event)
    BY SMTT(30), <1>2
  <2>2. \A i \in 1..Len(ring) : FALSE
    BY SMTT(30), <2>1
  <2> QED
    BY <2>1, <2>2 DEF RingOK
<1>8. DOMAIN graph.nodes = {}
  BY <1>2 DEF NewGraph
<1>9. GraphOK(procs, graph, ring, unheardExit)
  BY <1>8 DEF GraphOK, Covered, Scans, Single, Lineal, Gone, Fresh
<1>10. Walk(procs, graph, edges, cursor)
  BY <1>8 DEF Walk
<1> QED
  BY <1>2, <1>3, <1>6, <1>7, <1>9, <1>10 DEF ObsInv

(* Every step of the host and of the agent keeps the invariant.            *)
LEMMA ObsNextInv == ObsInv /\ [ObsNext]_vars => ObsInv'
<1> SUFFICES ASSUME ObsInv, [ObsNext]_vars PROVE ObsInv'
  OBVIOUS
<1>1. CASE Host
  BY <1>1, HostTickInv, HostForkInv, HostThreadInv, HostExecInv, HostCallInv, HostExitInv
  DEF Host
<1>2. CASE Agent
  BY <1>2, ScanPidInv, LinkScanInv, AttachInv, ConsumeInv DEF Agent
<1>3. CASE UNCHANGED vars
  <2>1. UNCHANGED <<graph, edges, phase, cursor, procs, now, attached, ring, unheardExit>>
    BY <1>3 DEF vars, hostVars
  <2> QED
    BY <2>1, ObsFacts, AgentIdle
<1> QED
  BY <1>1, <1>2, <1>3 DEF ObsNext

(* The host, what is in the ring and the graph agree in every behaviour.   *)
THEOREM ObservationInvariant == ObsSpec => []ObsInv
  BY ObsInitInv, ObsNextInv, PTL DEF ObsSpec

(* The agent running against the host keeps both directions of every edge: *)
(* what a fork is assumed to announce when the graph is considered alone   *)
(* holds of what the sensors submit.                                       *)
THEOREM ObservedLinksAgree == ObsSpec => []EdgesAgree
<1>1. ObsInv => EdgesAgree
  BY DEF ObsInv, GInv, Sound, EdgesAgree
<1> QED
  BY <1>1, ObservationInvariant, PTL

(* No process of one thread has two nodes, and every node stands for a     *)
(* process or for a thread that raised an event.                           *)
THEOREM NodesDenote == ObsSpec => []OneNodePerProcess
<1>1. ASSUME ObsInv PROVE OneNodePerProcess
  <2>1. /\ HostOK(procs, now) /\ Covered(procs, graph) /\ Single(procs, graph, ring)
        /\ DOMAIN graph.nodes \subseteq Key
    BY <1>1, ObsFacts DEF GraphOK, Sound, IsGraph
  <2>2. \A k, p : /\ Denotes(k, p) <=> Named(procs, graph, k, p)
                  /\ ThreadNode(k, p) <=> Threads(procs, k, p)
    BY DEF Denotes, Named, ThreadNode, Threads, ThreadKey, Second
  <2>3. \A k \in Nodes : \E p \in Proc : Denotes(k, p) \/ ThreadNode(k, p)
    BY <2>1, <2>2 DEF Covered, Nodes, Proc
  <2>4. ASSUME NEW k1 \in Nodes, NEW k2 \in Nodes, k1 # k2, NEW p \in Proc,
               procs[p].thread = NoThread, Denotes(k1, p), Denotes(k2, p)
        PROVE  FALSE
    <3>1. /\ k1 \in DOMAIN graph.nodes /\ k2 \in DOMAIN graph.nodes /\ k1 \in Key /\ k2 \in Key
          /\ p \in 1..Len(procs) /\ Named(procs, graph, k1, p) /\ Named(procs, graph, k2, p)
      BY <2>1, <2>2, <2>4 DEF Nodes, Proc
    <3>2. CASE k1 # Lead(procs, p) /\ k2 # Lead(procs, p)
      <4>1. /\ k1.pid = procs[p].pid /\ k1.start = Trunc(procs[p].start)
            /\ k2.pid = procs[p].pid /\ k2.start = Trunc(procs[p].start)
        BY <2>1, <3>1, <3>2, OffKey
      <4> QED
        BY <2>4, <3>1, <4>1, SameKey
    <3>3. CASE k1 = Lead(procs, p)
      BY <2>1, <2>4, <3>1, <3>3 DEF Single
    <3>4. CASE k2 = Lead(procs, p)
      BY <2>1, <2>4, <3>1, <3>4 DEF Single
    <3> QED
      BY <3>2, <3>3, <3>4
  <2> QED
    BY <2>3, <2>4 DEF OneNodePerProcess
<1> QED
  BY <1>1, ObservationInvariant, PTL

(* A parent link leads to the process that forked the child or to init.    *)
THEOREM LinksTrue == ObsSpec => []LineageTrue
<1>1. ASSUME ObsInv PROVE LineageTrue
  <2>1. \A k, p : /\ Denotes(k, p) <=> Named(procs, graph, k, p)
                  /\ ThreadNode(k, p) <=> Threads(procs, k, p)
    BY DEF Denotes, Named, ThreadNode, Threads, ThreadKey, Second
  <2>2. Lineal(procs, graph)
    BY <1>1, ObsFacts DEF GraphOK
  <2> QED
    BY <2>1, <2>2 DEF Lineal, LineageTrue, Leads, Nodes, Proc, Parents
<1> QED
  BY <1>1, ObservationInvariant, PTL

(* An exit that got into the ring marks the node when it is taken out.     *)
THEOREM ExitsMarked == ObsSpec => []ExitsNoticed
<1>1. ASSUME ObsInv PROVE ExitsNoticed
  <2> SUFFICES ASSUME NEW p \in Proc \ (Living \cup unheardExit), procs[p].thread = NoThread,
                      ~Pending("Exit", p), NEW k \in Nodes, Denotes(k, p)
               PROVE  graph.nodes[k].exited # Alive
    BY DEF ExitsNoticed
  <2>1. p \in 1..Len(procs) \ unheardExit /\ ~procs[p].alive /\ Named(procs, graph, k, p)
    BY DEF Proc, Living, Denotes, Named
  <2>2. ~Outstanding(procs, ring, p)
    <3> SUFFICES ASSUME NEW i \in 1..Len(ring), About(procs, ring[i], p) PROVE FALSE
      BY DEF Outstanding
    <3>1. PICK j \in i..Len(ring) : Leaves(procs, ring[j], p)
      BY <1>1, <2>1, ObsFacts DEF RingOK
    <3>2. j \in 1..Len(ring)
      BY SMTT(30)
    <3> QED
      BY <3>1, <3>2 DEF Leaves, Pending, LeaderKey, Lead
  <2> QED
    BY <1>1, <2>1, <2>2, ObsFacts DEF GraphOK, Gone, Nodes
<1> QED
  BY <1>1, ObservationInvariant, PTL

(* A reap gives up a running process only to get down to the cap and when  *)
(* no exited one is left.                                                  *)
THEOREM ReapSparesRunning == ObsSpec => RunningSpared
<1>1. ASSUME ObsInv, [ObsNext]_vars, ring # <<>>, ring' = Tail(ring), phase' = "reaped"
      PROVE  LET applied == ApplyEvent(graph, Head(ring)).nodes IN
             \A k \in DOMAIN applied \ DOMAIN graph'.nodes :
               applied[k].exited = Alive =>
                 /\ Cardinality(DOMAIN graph'.nodes) = MaxProcesses
                 /\ \A u \in DOMAIN graph'.nodes : graph'.nodes[u].exited = Alive
  <2>1. ring \in Seq(Event) /\ Len(ring) = Len(ring') + 1 /\ Len(ring') \in Nat
    BY <1>1, ObsFacts, TailIs
  <2>2. ring' # ring
    BY SMTT(30), <2>1
  <2>3. ASSUME NEW ev, Emit(ev) PROVE FALSE
    <3>1. ring' = Append(ring, ev)
      BY <2>2, <2>3 DEF Emit
    <3>2. Len(Append(ring, ev)) = Len(ring) + 1
      BY SMTT(30), <2>1
    <3> QED
      BY SMTT(30), <2>1, <3>1, <3>2
  <2>4. Consume
    BY <1>1, <2>2, <2>3 DEF ObsNext, Host, HostTick, HostFork, HostThread, HostExec,
      HostCall, HostExit, Agent, ScanPid, LinkScan, Attach, vars, hostVars
  <2>5. graph' \in Reap(ApplyEvent(graph, Head(ring)), Head(ring).ts)
    BY <1>1, <2>4 DEF Consume
  <2>6. Sound(ApplyEvent(graph, Head(ring)))
    BY SMTT(30), <1>1, ObsFacts, TailIs, ApplyOK
  <2> QED
    BY <2>5, <2>6, ReapSound
<1> QED
  BY <1>1, ObservationInvariant, PTL DEF ObsSpec, RunningSpared

=============================================================================
