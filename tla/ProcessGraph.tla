---------------------------- MODULE ProcessGraph ----------------------------
(***************************************************************************)
(* The process graph of the agent (src/src/graph/mod.rs): one node per     *)
(* process key (pid, start time), parent and child links kept in both      *)
(* directions, and an index from a pid to the key last seen for it.        *)
(*                                                                         *)
(* The operations are pure operators on a graph record so that the agent,  *)
(* which calls several of them for one event, can be built from them; the  *)
(* specification below drives them with every event the decoder can        *)
(* deliver.  Of a node's descriptive fields only those some decision reads *)
(* are kept: comm, trusted and container.                                  *)
(***************************************************************************)
EXTENDS Integers, FiniteSets

CONSTANTS
  Pids,          \* process ids
  Times,         \* boot-clock readings: start times and event timestamps
  Comms,         \* kernel command names an event may carry
  Trusts,        \* names of trusted system binaries
  Containers,    \* container ids
  NoKey,         \* None of an Option<ProcKey>
  Tolerance,     \* SCAN_START_TOLERANCE_NS
  MaxProcesses,  \* max_processes
  Retain,        \* retain_ns
  CredCap,       \* length at which a credential history stops growing
  AncestryCap    \* longest ancestry walk

Key == [pid : Pids, start : Times]

ASSUME GraphConstants ==
  /\ Times \subseteq Nat
  /\ NoKey \notin Key
  /\ {Tolerance, MaxProcesses, Retain, CredCap, AncestryCap} \subseteq Nat
  /\ AncestryCap > 0

Empty == ""      \* the empty string
Alive == -1      \* `exited` of a process that has not exited

VARIABLES
  graph,         \* [nodes |-> key -> node, byPid |-> pid -> key]
  edges,         \* scanned key -> the parent pid its stat line named
  phase          \* "scan" until the /proc walk is over, then "run" after an
                 \* event and "reaped" after a reap

gvars == <<graph, edges, phase>>

Node ==
  [parent : Key \cup {NoKey}, children : SUBSET Key,
   comm : Comms \cup {Empty}, trusted : Trusts \cup {Empty},
   container : Containers \cup {Empty}, creds : 0..CredCap,
   started : Times, exited : Times \cup {Alive},
   origin : {"Observed", "Scanned"}]

NewNode(key, origin) ==
  [parent |-> NoKey, children |-> {}, comm |-> Empty, trusted |-> Empty,
   container |-> Empty, creds |-> 0, started |-> key.start,
   exited |-> Alive, origin |-> origin]

NewGraph == [nodes |-> [k \in {} |-> NoKey], byPid |-> [p \in {} |-> NoKey]]

-----------------------------------------------------------------------------
(* Maps, as the HashMap operations use them. *)

Put(f, x, v) == [y \in DOMAIN f \cup {x} |-> IF y = x THEN v ELSE f[y]]
Drop(f, S) == [y \in DOMAIN f \ S |-> f[y]]
Swap(S, from, to) == IF from \in S THEN (S \ {from}) \cup {to} ELSE S
AbsDiff(a, b) == IF a >= b THEN a - b ELSE b - a
OrElse(s, t) == IF s = Empty THEN t ELSE s

-----------------------------------------------------------------------------
(* Walks. *)

(* The keys of ancestry(key), nearest first: the walk stops at the first   *)
(* key that has no node, and after AncestryCap nodes.                      *)
Ancestry(g, key) ==
  LET up[n \in 0..AncestryCap] ==
        IF n = 0 THEN key
        ELSE LET k == up[n - 1]
             IN  IF k \in DOMAIN g.nodes THEN g.nodes[k].parent ELSE NoKey
      last == CHOOSE n \in 0..AncestryCap :
                /\ \A m \in 0..(n - 1) : up[m] \in DOMAIN g.nodes
                /\ n = AncestryCap \/ up[n] \notin DOMAIN g.nodes
  IN  [n \in 1..last |-> up[n - 1]]

-----------------------------------------------------------------------------
(* Internal operations. *)

(* Mutant: the parent keeps listing the old key.                           *)
Rekey_OneWay(g, from, to) ==
  LET moved == g.nodes[from]
  IN  [nodes |->
         [k \in (DOMAIN g.nodes \ {from}) \cup {to} |->
            IF k = to THEN [moved EXCEPT !.origin = "Observed"]
            ELSE [g.nodes[k] EXCEPT !.parent = IF k \in moved.children THEN to ELSE @]],
       byPid |-> Put(g.byPid, to.pid, to)]

(* Move the node `from` to the key `to`, which has no node: its parent     *)
(* lists the new key, and its children name it as their parent.            *)
Rekey(g, from, to) ==
  LET moved == g.nodes[from]
  IN  [nodes |->
         [k \in (DOMAIN g.nodes \ {from}) \cup {to} |->
            IF k = to THEN [moved EXCEPT !.origin = "Observed"]
            ELSE [g.nodes[k] EXCEPT
                    !.children = IF k = moved.parent THEN Swap(@, from, to) ELSE @,
                    !.parent = IF k \in moved.children THEN to ELSE @]],
       byPid |-> Put(g.byPid, to.pid, to)]

(* Mutant: any scanned process of the pid will do.                         *)
Adoptable_AnyStart(g, key) ==
  /\ key \notin DOMAIN g.nodes
  /\ key.pid \in DOMAIN g.byPid
  /\ g.byPid[key.pid] \in DOMAIN g.nodes
  /\ g.nodes[g.byPid[key.pid]].exited = Alive
  /\ g.nodes[g.byPid[key.pid]].origin = "Scanned"

(* The last key of this pid is a live process known only from /proc whose  *)
(* start time, truncated to a clock tick there, is close enough to `key`'s.*)
Adoptable(g, key) ==
  /\ key \notin DOMAIN g.nodes
  /\ key.pid \in DOMAIN g.byPid
  /\ LET existing == g.byPid[key.pid]
     IN  /\ existing \in DOMAIN g.nodes
         /\ g.nodes[existing].exited = Alive
         /\ g.nodes[existing].origin = "Scanned"
         /\ AbsDiff(key.start, existing.start) <= Tolerance

(* Mutant: a scanned node is never adopted.                                *)
Resolve_Exact(g, key) == g

(* resolve() always answers with the exact key; what it may change is the  *)
(* key under which a scanned node is kept.                                 *)
Resolve(g, key) ==
  IF Adoptable(g, key) THEN Rekey(g, g.byPid[key.pid], key) ELSE g

Ensure(g, key, origin) ==
  [nodes |-> IF key \in DOMAIN g.nodes THEN g.nodes
             ELSE Put(g.nodes, key, NewNode(key, origin)),
   byPid |-> Put(g.byPid, key.pid, key)]

(* resolve() then ensure(): what an event that needs the node starts with. *)
Touch(g, key) == Ensure(Resolve(g, key), key, "Observed")

SetNode(g, key, node) == [g EXCEPT !.nodes[key] = node]

(* remove() for every key of S.  While parent and child links agree the    *)
(* order in which the keys are removed does not matter, and this is what   *)
(* any order gives.                                                        *)
Remove(g, S) ==
  [nodes |->
     [k \in DOMAIN g.nodes \ S |->
        [g.nodes[k] EXCEPT
           !.children = @ \ {c \in S \cap DOMAIN g.nodes : g.nodes[c].parent = k},
           !.parent = IF \E p \in S \cap DOMAIN g.nodes : k \in g.nodes[p].children
                      THEN NoKey ELSE @]],
   byPid |-> Drop(g.byPid, {p \in DOMAIN g.byPid :
                              g.byPid[p] \in S \cap DOMAIN g.nodes})]

-----------------------------------------------------------------------------
(* The /proc scan. *)

InsertScanned(g, key, node) ==
  [nodes |-> Put(g.nodes, key, node), byPid |-> Put(g.byPid, key.pid, key)]

(* `ppid` maps each scanned key to the parent pid its stat line named.  A  *)
(* pid is looked up in the index as it is once every node is in.           *)
LinkScanned(g, ppid) ==
  LET par(c) == g.byPid[ppid[c]]
      linked == {c \in DOMAIN ppid : ppid[c] \in DOMAIN g.byPid /\ par(c) # c}
  IN  [nodes |->
         [k \in DOMAIN g.nodes |->
            [g.nodes[k] EXCEPT
               !.parent = IF k \in linked THEN par(k) ELSE @,
               !.children = @ \cup {c \in linked : par(c) = k}]],
       byPid |-> g.byPid]

-----------------------------------------------------------------------------
(* Events.  Only four types touch the graph; every other type (file opens, *)
(* ptrace, sockets, modules...) leaves it as it is, adoption included.     *)

StructuralTypes == {"Fork", "Exec", "Exit", "CredChange"}
BehaviourTypes == {"FileOpen"}   \* stands for all of apply()'s empty arms

EventOf(types, children) ==
  [type : types, key : Key, child : children, ts : Times, comm : Comms,
   trusted : Trusts \cup {Empty}, container : Containers \cup {Empty}]

Event ==
  EventOf({"Fork"}, Key) \cup
  EventOf((StructuralTypes \ {"Fork"}) \cup BehaviourTypes, {NoKey})

OnFork(g, ev) ==
  LET g1 == Touch(g, ev.key)
      g2 == Ensure(SetNode(g1, ev.key, [g1.nodes[ev.key] EXCEPT
                                          !.comm = OrElse(@, ev.comm)]),
                   ev.child, "Observed")
      g3 == SetNode(g2, ev.child, [g2.nodes[ev.child] EXCEPT
                                     !.parent = ev.key,
                                     !.started = ev.ts,
                                     !.container = OrElse(ev.container, @),
                                     !.comm = OrElse(@, ev.comm)])
  IN  SetNode(g3, ev.key, [g3.nodes[ev.key] EXCEPT !.children = @ \cup {ev.child}])

OnExec(g, ev) ==
  LET g1 == Touch(g, ev.key)
  IN  SetNode(g1, ev.key, [g1.nodes[ev.key] EXCEPT
                             !.comm = ev.comm,
                             !.trusted = ev.trusted,
                             !.container = OrElse(ev.container, @)])

(* Mutant: the exit of a scanned process is not attributed to its node.    *)
OnExit_Exact(g, ev) ==
  [nodes |-> IF ev.key \in DOMAIN g.nodes
             THEN [g.nodes EXCEPT ![ev.key].exited = ev.ts] ELSE g.nodes,
   byPid |-> Drop(g.byPid, {ev.key.pid})]

(* An exit forgets the pid whether or not the process had a node.          *)
OnExit(g, ev) ==
  LET g1 == Resolve(g, ev.key)
  IN  [nodes |-> IF ev.key \in DOMAIN g1.nodes
                 THEN [g1.nodes EXCEPT ![ev.key].exited = ev.ts] ELSE g1.nodes,
       byPid |-> Drop(g1.byPid, {ev.key.pid})]

OnCred(g, ev) ==
  LET g1 == Touch(g, ev.key)
  IN  SetNode(g1, ev.key, [g1.nodes[ev.key] EXCEPT
                             !.comm = OrElse(@, ev.comm),
                             !.container = OrElse(ev.container, @),
                             !.creds = IF @ < CredCap THEN @ + 1 ELSE @])

ApplyEvent(g, ev) ==
  CASE ev.type = "Fork" -> OnFork(g, ev)
    [] ev.type = "Exec" -> OnExec(g, ev)
    [] ev.type = "Exit" -> OnExit(g, ev)
    [] ev.type = "CredChange" -> OnCred(g, ev)
    [] OTHER -> g

-----------------------------------------------------------------------------
(* Retention and the memory cap. *)

(* Nodes exited for more than the retention window.  The subtraction       *)
(* saturates: an exit later than `now` is not expired.                     *)
Expired(g, now) ==
  {k \in DOMAIN g.nodes : /\ g.nodes[k].exited # Alive
                          /\ now - g.nodes[k].exited > Retain}

(* Mutant: the oldest goes first, dead or alive.                           *)
EvictsBefore_Oldest(m, n) == m.started <= n.started

(* m goes before n: the longest dead first, then the oldest live.          *)
EvictsBefore(m, n) ==
  IF m.exited # Alive
  THEN n.exited = Alive \/ m.exited <= n.exited
  ELSE n.exited = Alive /\ m.started <= n.started

(* The sets the eviction loop may have removed when it stops.  Ties go to  *)
(* whichever node the hash map yields first.                               *)
Victims(g) ==
  LET size == Cardinality(DOMAIN g.nodes)
  IN  {V \in SUBSET DOMAIN g.nodes :
         /\ Cardinality(V) = IF size > MaxProcesses THEN size - MaxProcesses ELSE 0
         /\ \A v \in V, u \in DOMAIN g.nodes \ V :
              EvictsBefore(g.nodes[v], g.nodes[u])}

(* The graphs reap(now) may leave.                                         *)
Reap(g, now) ==
  LET kept == Remove(g, Expired(g, now))
  IN  {Remove(kept, V) : V \in Victims(kept)}

-----------------------------------------------------------------------------
(* The specification: one walk of /proc, then events and reaps in any      *)
(* order.                                                                  *)

NoEdges == [k \in {} |-> 0]

Init == graph = NewGraph /\ edges = NoEdges /\ phase = "scan"

(* One iteration of bootstrap()'s loop: a pid is listed once.              *)
ScanOne(key, ppid, comm, trusted) ==
  /\ phase = "scan"
  /\ \A k \in DOMAIN edges : k.pid # key.pid
  /\ graph' = InsertScanned(graph, key, [NewNode(key, "Scanned") EXCEPT
                                           !.comm = comm, !.trusted = trusted])
  /\ edges' = Put(edges, key, ppid)
  /\ UNCHANGED phase

FinishScan ==
  /\ phase = "scan"
  /\ graph' = LinkScanned(graph, edges)
  /\ edges' = NoEdges
  /\ phase' = "run"

(* What the kernel guarantees of an event: it is not older than its        *)
(* process, and a forked child is no older than its parent and has a pid   *)
(* of its own.                                                             *)
KernelEvent ==
  {ev \in Event :
     /\ ev.key.start <= ev.ts
     /\ ev.type = "Fork" =>
          /\ ev.child.pid # ev.key.pid
          /\ ev.key.start <= ev.child.start /\ ev.child.start <= ev.ts}

(* A fork is the first the agent hears of the child.                       *)
ForkIsFirst(ev) == ev.type = "Fork" => ev.child \notin DOMAIN graph.nodes

Apply(ev) ==
  /\ phase # "scan"
  /\ ForkIsFirst(ev)
  /\ graph' = ApplyEvent(graph, ev)
  /\ phase' = "run"
  /\ UNCHANGED edges

ReapNow(now) ==
  /\ phase # "scan"
  /\ graph' \in Reap(graph, now)
  /\ phase' = "reaped"
  /\ UNCHANGED edges

Next ==
  \/ \E key \in Key, ppid \in Pids \cup {0}, comm \in Comms, trusted \in Trusts \cup {Empty} :
       ScanOne(key, ppid, comm, trusted)
  \/ FinishScan
  \/ \E ev \in KernelEvent : Apply(ev)
  \/ \E now \in Times : ReapNow(now)

Spec == Init /\ [][Next]_gvars

-----------------------------------------------------------------------------
(* Properties. *)

Nodes == DOMAIN graph.nodes

IsGraph(g) ==
  /\ g = [nodes |-> g.nodes, byPid |-> g.byPid]
  /\ DOMAIN g.nodes \subseteq Key /\ g.nodes \in [DOMAIN g.nodes -> Node]
  /\ DOMAIN g.byPid \subseteq Pids /\ g.byPid \in [DOMAIN g.byPid -> Key]

Linked(g) ==
  \A k \in DOMAIN g.nodes :
    /\ g.nodes[k].parent # NoKey =>
         /\ g.nodes[k].parent \in DOMAIN g.nodes
         /\ k \in g.nodes[g.nodes[k].parent].children
    /\ \A c \in g.nodes[k].children :
         c \in DOMAIN g.nodes /\ g.nodes[c].parent = k

Indexed(g) ==
  \A p \in DOMAIN g.byPid : g.byPid[p] \in DOMAIN g.nodes /\ g.byPid[p].pid = p

(* Every part of the state has the shape the code's types give it.         *)
TypeOK ==
  /\ IsGraph(graph)
  /\ edges \in [DOMAIN edges -> Pids \cup {0}] /\ DOMAIN edges \subseteq Nodes
  /\ phase \in {"scan", "run", "reaped"}

(* A parent link always leads to a node that lists the child, and a listed *)
(* child is always a node that names this parent: adopting a scanned       *)
(* process under its exact key, reaping and evicting repair both directions*)
(* of every edge (rekey and remove), so no walk up or down meets a key     *)
(* whose node is gone.                                                     *)
EdgesAgree == Linked(graph)

(* The pid index never outlives the node it points to and never points to  *)
(* another pid's node, so resolve() can adopt nothing but a process of the *)
(* event's own pid.                                                        *)
ByPidSound == Indexed(graph)

(* After a reap the graph is within max_processes, however far the events  *)
(* since the last one took it.                                             *)
CapAfterReap == phase = "reaped" => Cardinality(Nodes) <= MaxProcesses

(* A reap takes the node of a running process only to get down to the cap, *)
(* and only when no exited process is left to give up instead.             *)
LiveEvictedLast ==
  [][phase' = "reaped" =>
       \A k \in Nodes \ DOMAIN graph'.nodes :
         graph.nodes[k].exited = Alive =>
           /\ Cardinality(DOMAIN graph'.nodes) = MaxProcesses
           /\ \A u \in DOMAIN graph'.nodes : graph'.nodes[u].exited = Alive]_gvars

=============================================================================
