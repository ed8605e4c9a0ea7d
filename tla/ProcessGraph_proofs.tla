----------------------- MODULE ProcessGraph_proofs -------------------------
(***************************************************************************)
(* The invariants of the process graph, for every set of pids, every clock *)
(* and every cap.                                                          *)
(*                                                                         *)
(* EdgesAgree is not inductive as it stands.  Re-keying a node that were   *)
(* its own parent would leave it naming a key that is gone, so the         *)
(* inductive invariant also says that no node is (NoSelfLoop); and the     *)
(* links made at the end of the scan overwrite whatever is there, so it    *)
(* says that until then there is none (Flat).  That the parents the scan   *)
(* named belong to nodes needs them to be forgotten when it is over, and   *)
(* the cap needs the set of nodes to be finite.                            *)
(***************************************************************************)
EXTENDS ProcessGraph, FiniteSetTheorems, TLAPS

(* Leaves go to Zenon, those with arithmetic or records to SMT, as cited; the
   time is for a slow machine.                                             *)
USE ZenonT(30)

NoSelfLoop(g) == \A k \in DOMAIN g.nodes : g.nodes[k].parent # k

Flat(g) ==
  \A k \in DOMAIN g.nodes : g.nodes[k].parent = NoKey /\ g.nodes[k].children = {}

(* What every operation preserves.                                         *)
Sound(g) ==
  /\ IsGraph(g) /\ IsFiniteSet(DOMAIN g.nodes)
  /\ Linked(g) /\ NoSelfLoop(g) /\ Indexed(g)

GInv ==
  /\ TypeOK
  /\ Sound(graph)
  /\ phase = "scan" => Flat(graph)
  /\ phase # "scan" => edges = NoEdges
  /\ CapAfterReap

-----------------------------------------------------------------------------
(* The operations. *)

(* A node made for a key the graph had not seen has a node's type and no   *)
(* links (ProcNode::new).                                                  *)
LEMMA NewNodeType ==
  ASSUME NEW key \in Key, NEW origin \in {"Observed", "Scanned"}
  PROVE  /\ NewNode(key, origin) \in Node
         /\ NewNode(key, origin).parent = NoKey
         /\ NewNode(key, origin).children = {}
  BY SMTT(30), GraphConstants DEF NewNode, Node, Key, Empty, Alive

(* ensure() gives the key a node and disturbs no other.                    *)
LEMMA EnsureSound ==
  ASSUME NEW g, Sound(g), NEW key \in Key, NEW origin \in {"Observed", "Scanned"}
  PROVE  LET h == Ensure(g, key, origin)
         IN  /\ Sound(h)
             /\ DOMAIN h.nodes = DOMAIN g.nodes \cup {key}
             /\ \A k \in DOMAIN g.nodes : h.nodes[k] = g.nodes[k]
             /\ key \notin DOMAIN g.nodes => h.nodes[key] = NewNode(key, origin)
<1> DEFINE h == Ensure(g, key, origin)
           n == NewNode(key, origin)
<1>1. n \in Node /\ n.parent = NoKey /\ n.children = {}
  BY NewNodeType
<1>2. /\ h = [nodes |-> h.nodes, byPid |-> h.byPid]
      /\ DOMAIN h.nodes = DOMAIN g.nodes \cup {key}
      /\ \A k \in DOMAIN g.nodes : h.nodes[k] = g.nodes[k]
      /\ key \notin DOMAIN g.nodes => h.nodes[key] = n
      /\ DOMAIN h.byPid = DOMAIN g.byPid \cup {key.pid}
      /\ \A p \in DOMAIN h.byPid : h.byPid[p] = IF p = key.pid THEN key ELSE g.byPid[p]
  BY DEF Ensure, Put, Sound, IsGraph
<1>3. h.nodes \in [DOMAIN h.nodes -> Node] /\ h.byPid \in [DOMAIN h.byPid -> Key]
  BY <1>1, <1>2 DEF Ensure, Put, Sound, IsGraph
<1>4. IsGraph(h)
  BY <1>2, <1>3 DEF Sound, IsGraph, Key
<1>5. IsFiniteSet(DOMAIN h.nodes)
  BY SMTT(30), <1>2, FS_AddElement DEF Sound
<1>6. Linked(h)
  BY SMTT(30), <1>1, <1>2 DEF Sound, Linked
<1>7. NoSelfLoop(h)
  BY SMTT(30), <1>1, <1>2, GraphConstants DEF Sound, NoSelfLoop
<1>8. Indexed(h)
  BY <1>2 DEF Sound, Indexed
<1> QED
  BY <1>2, <1>4, <1>5, <1>6, <1>7, <1>8 DEF Sound

(* rekey() moves a node to a key that has none; the links of its parent    *)
(* and of its children follow it.                                          *)
LEMMA RekeySound ==
  ASSUME NEW g, Sound(g), NEW from \in DOMAIN g.nodes, NEW to \in Key,
         to \notin DOMAIN g.nodes, from.pid = to.pid, g.byPid[to.pid] = from
  PROVE  LET h == Rekey(g, from, to)
         IN  Sound(h) /\ DOMAIN h.nodes = (DOMAIN g.nodes \ {from}) \cup {to}
<1> DEFINE h == Rekey(g, from, to)
           moved == g.nodes[from]
           nd(k) == g.nodes[k]
<1>0. /\ moved \in Node /\ from # to /\ from \in Key
      /\ \A k \in DOMAIN g.nodes : nd(k) \in Node
  BY DEF Sound, IsGraph
<1>1. /\ h = [nodes |-> h.nodes, byPid |-> h.byPid]
      /\ DOMAIN h.nodes = (DOMAIN g.nodes \ {from}) \cup {to}
      /\ h.nodes = [k \in DOMAIN h.nodes |-> h.nodes[k]]
      /\ DOMAIN h.byPid = DOMAIN g.byPid \cup {to.pid}
      /\ \A p \in DOMAIN h.byPid : h.byPid[p] = IF p = to.pid THEN to ELSE g.byPid[p]
  BY DEF Rekey, Put, Sound, IsGraph
<1>1a. h.nodes = [k \in (DOMAIN g.nodes \ {from}) \cup {to} |->
            IF k = to THEN [moved EXCEPT !.origin = "Observed"]
            ELSE [nd(k) EXCEPT
                    !.children = IF k = moved.parent THEN Swap(@, from, to) ELSE @,
                    !.parent = IF k \in moved.children THEN to ELSE @]]
  BY DEF Rekey
<1>2. /\ h.nodes[to] \in Node
      /\ h.nodes[to].parent = moved.parent /\ h.nodes[to].children = moved.children
  <2>1. h.nodes[to] = [moved EXCEPT !.origin = "Observed"]
    BY <1>1a
  <2> HIDE DEF h, moved
  <2> QED
    BY <1>0, <2>1 DEF Node
<1>3. ASSUME NEW k \in DOMAIN g.nodes \ {from}
      PROVE  /\ h.nodes[k] \in Node
             /\ h.nodes[k].parent = IF k \in moved.children THEN to ELSE nd(k).parent
             /\ h.nodes[k].children = IF k = moved.parent THEN Swap(nd(k).children, from, to)
                                      ELSE nd(k).children
  <2>1. h.nodes[k] = [nd(k) EXCEPT
                    !.children = IF k = moved.parent THEN Swap(@, from, to) ELSE @,
                    !.parent = IF k \in moved.children THEN to ELSE @]
    BY <1>0, <1>1a
  <2>2. nd(k) \in Node
    BY <1>0
  <2>3. Swap(nd(k).children, from, to) \in SUBSET Key
    BY <1>0, <2>2 DEF Swap, Node
  <2> HIDE DEF h, moved, nd
  <2> QED
    BY <2>1, <2>2, <2>3 DEF Node
<1>3a. ASSUME NEW k \in DOMAIN g.nodes \ {from}, NEW c
       PROVE  c \in h.nodes[k].children <=>
                IF k = moved.parent
                THEN \/ c \in nd(k).children /\ c # from
                     \/ c = to /\ from \in nd(k).children
                ELSE c \in nd(k).children
  <2>1. h.nodes[k].children = IF k = moved.parent THEN Swap(nd(k).children, from, to)
                              ELSE nd(k).children
    BY <1>3
  <2>2. CASE k = moved.parent
    <3>1. h.nodes[k].children = Swap(nd(k).children, from, to)
      BY <2>1, <2>2
    <3> HIDE DEF h, nd
    <3> QED
      BY <3>1, <2>2 DEF Swap
  <2>3. CASE k # moved.parent
    BY <2>1, <2>3
  <2> QED
    BY <2>2, <2>3
<1>3b. \A k \in DOMAIN g.nodes : \A c \in nd(k).children :
         c \in DOMAIN g.nodes /\ nd(c).parent = k
  BY DEF Sound, Linked
<1>4. IsGraph(h)
  <2>1. h.nodes \in [DOMAIN h.nodes -> Node]
    BY <1>1, <1>2, <1>3
  <2>2. h.byPid \in [DOMAIN h.byPid -> Key]
    BY <1>1 DEF Rekey, Put, Sound, IsGraph
  <2> QED
    BY <1>1, <2>1, <2>2 DEF Sound, IsGraph, Key
<1> HIDE DEF h
<1>5. IsFiniteSet(DOMAIN h.nodes)
  <2>1. IsFiniteSet(DOMAIN g.nodes \ {from})
    BY FS_RemoveElement DEF Sound
  <2> QED
    BY SMTT(30), <1>1, <2>1, FS_AddElement
<1>6. Linked(h)
  <2>1. ASSUME NEW k \in DOMAIN h.nodes, h.nodes[k].parent # NoKey
        PROVE  /\ h.nodes[k].parent \in DOMAIN h.nodes
               /\ k \in h.nodes[h.nodes[k].parent].children
    <3>1. CASE k = to
      <4>1. /\ moved.parent \in DOMAIN g.nodes \ {from}
            /\ from \in nd(moved.parent).children
        BY <1>2, <2>1, <3>1 DEF Sound, Linked, NoSelfLoop
      <4> QED
        BY <1>1, <1>2, <1>3, <3>1, <4>1 DEF Swap
    <3>2. CASE k # to /\ k \in moved.children
      BY <1>1, <1>2, <1>3, <3>2
    <3>3. CASE k # to /\ k \notin moved.children
      <4> DEFINE q == nd(k).parent
      <4>1. /\ h.nodes[k].parent = q /\ q \in DOMAIN g.nodes \ {from}
            /\ k \in nd(q).children /\ k # from
        BY SMTT(30), <1>1, <1>3, <2>1, <3>3 DEF Sound, Linked
      <4> HIDE DEF moved, nd
      <4> QED
        BY <1>1, <1>3a, <4>1
    <3> QED
      BY <3>1, <3>2, <3>3
  <2>2. ASSUME NEW k \in DOMAIN h.nodes, NEW c \in h.nodes[k].children
        PROVE  c \in DOMAIN h.nodes /\ h.nodes[c].parent = k
    <3>1. CASE k = to
      <4>1. c \in moved.children /\ c \in DOMAIN g.nodes \ {from}
        BY SMTT(30), <1>2, <3>1 DEF Sound, Linked, NoSelfLoop
      <4> QED
        BY <1>1, <1>3, <3>1, <4>1
    <3>2. CASE k # to /\ c = to
      <4>1. k \in DOMAIN g.nodes \ {from} /\ to \notin nd(k).children
        BY <1>1, <3>2 DEF Sound, Linked
      <4>2. k = moved.parent
        BY <1>3, <3>2, <4>1
      <4> QED
        BY <1>1, <1>2, <3>2, <4>2
    <3>3. CASE k # to /\ c # to
      <4>1. k \in DOMAIN g.nodes \ {from} /\ c \in nd(k).children
        <5>1. k \in DOMAIN g.nodes \ {from}
          BY <1>1, <3>3
        <5> QED
          BY <1>3a, <3>3, <5>1
      <4>2. c \in DOMAIN g.nodes /\ nd(c).parent = k
        BY <1>3b, <4>1
      <4>3. c # from
        BY <1>3a, <3>3, <4>1, <4>2
      <4>4. c \notin moved.children
        BY SMTT(30), <4>1, <4>2 DEF Sound, Linked
      <4> QED
        BY <1>1, <1>3, <4>2, <4>3, <4>4
    <3> QED
      BY <3>1, <3>2, <3>3
  <2> QED
    BY <2>1, <2>2 DEF Linked
<1>7. NoSelfLoop(h)
  <2>1. moved.parent # to
    BY SMTT(30), GraphConstants DEF Sound, Linked
  <2> QED
    BY SMTT(30), <1>0, <1>1, <1>2, <1>3, <2>1 DEF Sound, NoSelfLoop
<1>8. Indexed(h)
  BY SMTT(30), <1>0, <1>1 DEF Sound, Indexed
<1> QED
  BY <1>1, <1>4, <1>5, <1>6, <1>7, <1>8 DEF Sound, h

(* resolve(), whether or not it adopts a scanned node.                     *)
LEMMA ResolveSound ==
  ASSUME NEW g, Sound(g), NEW key \in Key
  PROVE  /\ Sound(Resolve(g, key))
         /\ DOMAIN Resolve(g, key).nodes \subseteq DOMAIN g.nodes \cup {key}
<1>1. CASE Adoptable(g, key)
  <2>1. /\ g.byPid[key.pid] \in DOMAIN g.nodes /\ key \notin DOMAIN g.nodes
        /\ g.byPid[key.pid].pid = key.pid
    BY <1>1 DEF Adoptable, Sound, Indexed
  <2> QED
    BY SMTT(30), <1>1, <2>1, RekeySound DEF Resolve
<1>2. CASE ~Adoptable(g, key)
  BY <1>2 DEF Resolve
<1> QED
  BY <1>1, <1>2

(* remove() of any set of keys: neither a parent nor a child is left       *)
(* naming one of them.                                                     *)
LEMMA RemoveSound ==
  ASSUME NEW g, Sound(g), NEW S
  PROVE  LET h == Remove(g, S)
         IN  /\ Sound(h) /\ DOMAIN h.nodes = DOMAIN g.nodes \ S
             /\ \A k \in DOMAIN h.nodes : /\ h.nodes[k].exited = g.nodes[k].exited
                                          /\ h.nodes[k].started = g.nodes[k].started
<1> DEFINE h == Remove(g, S)
           gone == S \cap DOMAIN g.nodes
<1>1. /\ h = [nodes |-> h.nodes, byPid |-> h.byPid]
      /\ DOMAIN h.nodes = DOMAIN g.nodes \ S
      /\ DOMAIN h.byPid = {p \in DOMAIN g.byPid : g.byPid[p] \notin gone}
      /\ \A p \in DOMAIN h.byPid : h.byPid[p] = g.byPid[p]
  BY DEF Remove, Drop
<1>2. ASSUME NEW k \in DOMAIN g.nodes \ S
      PROVE  /\ h.nodes[k] \in Node
             /\ h.nodes[k].children = g.nodes[k].children \ {c \in gone : g.nodes[c].parent = k}
             /\ h.nodes[k].parent = IF \E p \in gone : k \in g.nodes[p].children
                                    THEN NoKey ELSE g.nodes[k].parent
             /\ h.nodes[k].exited = g.nodes[k].exited
             /\ h.nodes[k].started = g.nodes[k].started
  <2>1. h.nodes[k] = [g.nodes[k] EXCEPT
           !.children = @ \ {c \in gone : g.nodes[c].parent = k},
           !.parent = IF \E p \in gone : k \in g.nodes[p].children THEN NoKey ELSE @]
    BY DEF Remove
  <2>2. g.nodes[k] \in Node
    BY DEF Sound, IsGraph
  <2> QED
    BY <2>1, <2>2 DEF Node
<1>3. IsGraph(h)
  <2>1. h.nodes \in [DOMAIN h.nodes -> Node]
    BY <1>1, <1>2 DEF Remove
  <2>2. h.byPid \in [DOMAIN h.byPid -> Key]
    BY <1>1 DEF Remove, Drop, Sound, IsGraph
  <2> QED
    BY <1>1, <2>1, <2>2 DEF Sound, IsGraph
<1>4. IsFiniteSet(DOMAIN h.nodes)
  BY <1>1, FS_Subset DEF Sound
<1>5. Linked(h)
  BY SMTT(30), <1>1, <1>2 DEF Sound, Linked
<1>6. NoSelfLoop(h)
  BY SMTT(30), <1>1, <1>2, GraphConstants DEF Sound, NoSelfLoop, IsGraph
<1>7. Indexed(h)
  BY <1>1 DEF Sound, Indexed
<1> QED
  BY <1>1, <1>2, <1>3, <1>4, <1>5, <1>6, <1>7 DEF Sound

(* Changing what a node says of its process, not its links.                *)
LEMMA RelabelSound ==
  ASSUME NEW g, Sound(g), NEW key \in DOMAIN g.nodes, NEW n \in Node,
         n.parent = g.nodes[key].parent, n.children = g.nodes[key].children
  PROVE  LET h == SetNode(g, key, n)
         IN  /\ Sound(h) /\ DOMAIN h.nodes = DOMAIN g.nodes
             /\ \A k \in DOMAIN g.nodes : /\ h.nodes[k].parent = g.nodes[k].parent
                                          /\ h.nodes[k].children = g.nodes[k].children
<1> DEFINE h == SetNode(g, key, n)
<1>1. /\ h = [nodes |-> h.nodes, byPid |-> h.byPid]
      /\ h.byPid = g.byPid /\ h.nodes = [g.nodes EXCEPT ![key] = n]
  BY SMTT(30) DEF Sound, IsGraph, SetNode
<1>2. /\ DOMAIN h.nodes = DOMAIN g.nodes /\ h.nodes \in [DOMAIN g.nodes -> Node]
      /\ \A k \in DOMAIN g.nodes : /\ h.nodes[k].parent = g.nodes[k].parent
                                   /\ h.nodes[k].children = g.nodes[k].children
  BY <1>1 DEF Sound, IsGraph
<1> HIDE DEF h
<1>3. IsGraph(h) /\ IsFiniteSet(DOMAIN h.nodes) /\ Indexed(h)
  BY <1>1, <1>2 DEF Sound, IsGraph, Indexed
<1>4. Linked(h) /\ NoSelfLoop(h)
  BY SMTT(30), <1>2 DEF Sound, Linked, NoSelfLoop
<1> QED
  BY <1>2, <1>3, <1>4 DEF Sound, h

(* Writing a node leaves the index alone.                                  *)
LEMMA SetNodeIs ==
  ASSUME NEW nodes, NEW byPid, NEW g, g = [nodes |-> nodes, byPid |-> byPid],
         NEW key, NEW node
  PROVE  SetNode(g, key, node) = [nodes |-> [g.nodes EXCEPT ![key] = node],
                                  byPid |-> g.byPid]
  BY SMTT(30) DEF SetNode

(* Making a node without a parent the child of another.                    *)
LEMMA LinkSound ==
  ASSUME NEW g, Sound(g), NEW par \in DOMAIN g.nodes, NEW child \in DOMAIN g.nodes,
         par # child, g.nodes[child].parent = NoKey,
         NEW n \in Node, n.parent = par, n.children = g.nodes[child].children
  PROVE  LET g1 == SetNode(g, child, n)
             h == SetNode(g1, par, [g1.nodes[par] EXCEPT !.children = @ \cup {child}])
         IN  Sound(h)
<1> DEFINE g1 == SetNode(g, child, n)
           h == SetNode(g1, par, [g1.nodes[par] EXCEPT !.children = @ \cup {child}])
           p2 == [g.nodes[par] EXCEPT !.children = @ \cup {child}]
<1>0. g = [nodes |-> g.nodes, byPid |-> g.byPid]
  BY DEF Sound, IsGraph
<1>0a. g1 = [nodes |-> [g.nodes EXCEPT ![child] = n], byPid |-> g.byPid]
  BY SMTT(30), <1>0 DEF SetNode
<1>0b. g1.nodes[par] = g.nodes[par]
  BY SMTT(30), <1>0a
<1>1. h = [nodes |-> [[g.nodes EXCEPT ![child] = n] EXCEPT ![par] = p2],
           byPid |-> g.byPid]
  <2>1. h = SetNode(g1, par, p2)
    BY <1>0b
  <2>2. SetNode(g1, par, p2) = [nodes |-> [g1.nodes EXCEPT ![par] = p2], byPid |-> g1.byPid]
    <3> HIDE DEF p2, g1
    <3> QED
      BY SMTT(30), <1>0a, SetNodeIs
  <2> QED
    BY SMTT(30), <1>0a, <2>1, <2>2
<1>2. /\ p2 \in Node /\ p2.parent = g.nodes[par].parent
      /\ p2.children = g.nodes[par].children \cup {child}
  BY SMTT(30) DEF Sound, IsGraph, Node
<1> HIDE DEF h, p2
<1>3. /\ DOMAIN h.nodes = DOMAIN g.nodes /\ h.nodes \in [DOMAIN g.nodes -> Node]
      /\ h.nodes[par] = p2 /\ h.nodes[child] = n
      /\ \A k \in DOMAIN g.nodes \ {par, child} : h.nodes[k] = g.nodes[k]
  BY <1>1, <1>2 DEF Sound, IsGraph
<1>4. IsGraph(h) /\ IsFiniteSet(DOMAIN h.nodes) /\ Indexed(h)
  BY <1>1, <1>3 DEF Sound, IsGraph, Indexed
<1>5. \A k \in DOMAIN g.nodes : child \notin g.nodes[k].children
  BY SMTT(30), GraphConstants DEF Sound, Linked, IsGraph
<1>6. Linked(h)
  BY SMTT(30), <1>2, <1>3, <1>5 DEF Sound, Linked
<1>7. NoSelfLoop(h)
  BY SMTT(30), <1>2, <1>3 DEF Sound, NoSelfLoop
<1> QED
  BY <1>4, <1>6, <1>7 DEF Sound, h

(* Every event leaves a sound graph sound, provided that a fork announces  *)
(* a child with a pid of its own that has no node yet.                     *)
LEMMA ApplySound ==
  ASSUME NEW g, Sound(g), NEW ev \in Event,
         ev.type = "Fork" => ev.child \notin DOMAIN g.nodes /\ ev.child.pid # ev.key.pid
  PROVE  Sound(ApplyEvent(g, ev))
<1> DEFINE r == Resolve(g, ev.key)
           e == Touch(g, ev.key)
<1>1. /\ ev.key \in Key /\ ev.ts \in Times /\ ev.comm \in Comms
      /\ ev.trusted \in Trusts \cup {Empty} /\ ev.container \in Containers \cup {Empty}
      /\ ev.type = "Fork" => ev.child \in Key
  BY DEF Event, EventOf, StructuralTypes, BehaviourTypes
<1>2. Sound(r) /\ DOMAIN r.nodes \subseteq DOMAIN g.nodes \cup {ev.key}
  BY <1>1, ResolveSound
<1>3. /\ Sound(e) /\ DOMAIN e.nodes \subseteq DOMAIN g.nodes \cup {ev.key}
      /\ ev.key \in DOMAIN e.nodes /\ e.nodes[ev.key] \in Node
  BY SMTT(30), <1>1, <1>2, EnsureSound DEF Sound, IsGraph, Touch
<1>4. ASSUME NEW n \in Node PROVE n.comm \in Comms \cup {Empty}
                               /\ n.container \in Containers \cup {Empty}
                               /\ n.creds \in 0..CredCap
  BY DEF Node
<1>5. CASE ev.type = "Fork"
  <2> DEFINE n1 == [e.nodes[ev.key] EXCEPT !.comm = OrElse(@, ev.comm)]
             g1 == SetNode(e, ev.key, n1)
             g2 == Ensure(g1, ev.child, "Observed")
             n2 == [g2.nodes[ev.child] EXCEPT !.parent = ev.key,
                         !.started = ev.ts,
                         !.container = OrElse(ev.container, @),
                         !.comm = OrElse(@, ev.comm)]
             g3 == SetNode(g2, ev.child, n2)
  <2>1. /\ n1 \in Node /\ n1.parent = e.nodes[ev.key].parent
        /\ n1.children = e.nodes[ev.key].children
    BY SMTT(30), <1>1, <1>3 DEF Node, OrElse
  <2>2. Sound(g1) /\ DOMAIN g1.nodes = DOMAIN e.nodes
    BY <1>3, <2>1, RelabelSound
  <2>3. ev.child \in Key /\ ev.child \notin DOMAIN g1.nodes
    BY <1>1, <1>3, <1>5, <2>2
  <2> HIDE DEF e, g1, n1
  <2>4. /\ Sound(g2) /\ ev.key \in DOMAIN g2.nodes /\ ev.child \in DOMAIN g2.nodes
        /\ g2.nodes[ev.child] \in Node /\ g2.nodes[ev.child].parent = NoKey
    <3>1. /\ Sound(g2) /\ DOMAIN g2.nodes = DOMAIN g1.nodes \cup {ev.child}
          /\ g2.nodes[ev.child] = NewNode(ev.child, "Observed")
      BY SMTT(30), <2>2, <2>3, EnsureSound
    <3>2. /\ NewNode(ev.child, "Observed") \in Node
          /\ NewNode(ev.child, "Observed").parent = NoKey
      BY <2>3, NewNodeType
    <3> HIDE DEF g2
    <3> QED
      BY <1>3, <2>2, <3>1, <3>2
  <2> HIDE DEF g2
  <2>5. n2 \in Node /\ n2.parent = ev.key /\ n2.children = g2.nodes[ev.child].children
    <3> DEFINE m == g2.nodes[ev.child]
    <3>1. /\ OrElse(ev.container, m.container) \in Containers \cup {Empty}
          /\ OrElse(m.comm, ev.comm) \in Comms \cup {Empty}
      BY <1>1, <1>4, <2>4 DEF OrElse
    <3> HIDE DEF m
    <3> QED
      BY <1>1, <2>4, <3>1 DEF Node, m
  <2>6. Sound(SetNode(g3, ev.key, [g3.nodes[ev.key] EXCEPT !.children = @ \cup {ev.child}]))
    BY <1>3, <2>2, <2>3, <2>4, <2>5, LinkSound
  <2>7. OnFork(g, ev) = SetNode(g3, ev.key, [g3.nodes[ev.key] EXCEPT !.children = @ \cup {ev.child}])
    BY DEF OnFork, e, g1, n1, g2
  <2>8. ApplyEvent(g, ev) = OnFork(g, ev)
    BY <1>5 DEF ApplyEvent
  <2> QED
    BY <2>6, <2>7, <2>8
<1>6. CASE ev.type = "Exec"
  <2> DEFINE n == [e.nodes[ev.key] EXCEPT !.comm = ev.comm,
                   !.trusted = ev.trusted,
                   !.container = OrElse(ev.container, @)]
  <2>1. /\ n \in Node /\ n.parent = e.nodes[ev.key].parent
        /\ n.children = e.nodes[ev.key].children
    BY <1>1, <1>3 DEF Node, OrElse
  <2>2. Sound(SetNode(e, ev.key, n))
    BY <1>3, <2>1, RelabelSound
  <2>3. OnExec(g, ev) = SetNode(e, ev.key, n)
    BY DEF OnExec
  <2>4. ApplyEvent(g, ev) = OnExec(g, ev)
    BY <1>6 DEF ApplyEvent
  <2> QED
    BY <2>2, <2>3, <2>4
<1>7. CASE ev.type = "CredChange"
  <2> DEFINE n == [e.nodes[ev.key] EXCEPT !.comm = OrElse(@, ev.comm),
                   !.container = OrElse(ev.container, @),
                   !.creds = IF @ < CredCap THEN @ + 1 ELSE @]
  <2>1. /\ n \in Node /\ n.parent = e.nodes[ev.key].parent
        /\ n.children = e.nodes[ev.key].children
    <3> DEFINE m == e.nodes[ev.key]
               comm == OrElse(m.comm, ev.comm)
               container == OrElse(ev.container, m.container)
               creds == IF m.creds < CredCap THEN m.creds + 1 ELSE m.creds
    <3>1. container \in Containers \cup {Empty} /\ comm \in Comms \cup {Empty}
      BY <1>1, <1>3, <1>4 DEF OrElse
    <3>2. creds \in 0..CredCap
      BY SMTT(30), <1>3, <1>4, GraphConstants
    <3>3. n = [m EXCEPT !.comm = comm, !.container = container, !.creds = creds]
      OBVIOUS
    <3>4. m \in Node
      BY <1>3
    <3> HIDE DEF e, m, n, comm, container, creds
    <3>5. n \in Node /\ n.parent = m.parent /\ n.children = m.children
      BY <3>1, <3>2, <3>3, <3>4 DEF Node
    <3> QED
      BY <3>5 DEF m
  <2>2. Sound(SetNode(e, ev.key, n))
    BY <1>3, <2>1, RelabelSound
  <2>3. OnCred(g, ev) = SetNode(e, ev.key, n)
    BY DEF OnCred
  <2>4. ApplyEvent(g, ev) = OnCred(g, ev)
    BY <1>7 DEF ApplyEvent
  <2> QED
    BY <2>2, <2>3, <2>4
<1>8. CASE ev.type = "Exit"
  <2> DEFINE n == [r.nodes[ev.key] EXCEPT !.exited = ev.ts]
             h == IF ev.key \in DOMAIN r.nodes THEN SetNode(r, ev.key, n) ELSE r
  <2>1. Sound(h)
    <3>1. CASE ev.key \in DOMAIN r.nodes
      <4>1. r.nodes[ev.key] \in Node
        BY <1>2, <3>1 DEF Sound, IsGraph
      <4>2. n \in Node /\ n.parent = r.nodes[ev.key].parent /\ n.children = r.nodes[ev.key].children
        BY <1>1, <4>1 DEF Node
      <4> QED
        BY <1>2, <3>1, <4>2, RelabelSound
    <3> QED
      BY <1>2, <3>1
  <2>2. ASSUME NEW f, Sound(f)
        PROVE  Sound([nodes |-> f.nodes, byPid |-> Drop(f.byPid, {ev.key.pid})])
    BY <2>2 DEF Sound, IsGraph, Linked, NoSelfLoop, Indexed, Drop
  <2>3. /\ h.byPid = r.byPid
        /\ h.nodes = IF ev.key \in DOMAIN r.nodes
                     THEN [r.nodes EXCEPT ![ev.key].exited = ev.ts] ELSE r.nodes
    BY <1>2 DEF Sound, IsGraph, SetNode
  <2> HIDE DEF h, r
  <2>4. Sound([nodes |-> h.nodes, byPid |-> Drop(h.byPid, {ev.key.pid})])
    BY <2>1, <2>2
  <2> QED
    BY <1>8, <2>3, <2>4 DEF ApplyEvent, OnExit, r
<1>9. CASE ev.type \notin {"Fork", "Exec", "Exit", "CredChange"}
  BY <1>9 DEF ApplyEvent
<1> QED
  BY <1>5, <1>6, <1>7, <1>8, <1>9

(* link_scanned() on the nodes of a scan, none of which has a link yet.    *)
LEMMA LinkScannedSound ==
  ASSUME NEW g, Sound(g), Flat(g), NEW ppid, DOMAIN ppid \subseteq DOMAIN g.nodes
  PROVE  Sound(LinkScanned(g, ppid)) /\ DOMAIN LinkScanned(g, ppid).nodes = DOMAIN g.nodes
<1> DEFINE h == LinkScanned(g, ppid)
           par(c) == g.byPid[ppid[c]]
           linked == {c \in DOMAIN ppid : ppid[c] \in DOMAIN g.byPid /\ par(c) # c}
           kids(k) == {c \in linked : par(c) = k}
           body(k) == [g.nodes[k] EXCEPT
                         !.parent = IF k \in linked THEN par(k) ELSE @,
                         !.children = @ \cup kids(k)]
<1>1. h = [nodes |-> [k \in DOMAIN g.nodes |-> body(k)], byPid |-> g.byPid]
  BY DEF LinkScanned
<1>2. /\ linked \subseteq DOMAIN g.nodes /\ DOMAIN g.nodes \subseteq Key
      /\ \A c \in linked : par(c) \in DOMAIN g.nodes /\ par(c) # c
  BY DEF Sound, Indexed, IsGraph
<1> HIDE DEF par, linked, body, h
<1>3. ASSUME NEW k \in DOMAIN g.nodes
      PROVE  /\ h.nodes[k] \in Node
             /\ h.nodes[k].parent = IF k \in linked THEN par(k) ELSE NoKey
             /\ h.nodes[k].children = kids(k)
  <2> DEFINE n == g.nodes[k]
  <2>1. n \in Node /\ n.parent = NoKey /\ n.children = {}
    BY DEF Sound, IsGraph, Flat
  <2>2. h.nodes[k] = body(k)
    BY <1>1
  <2>3. kids(k) \subseteq Key
    BY <1>2
  <2> DEFINE up == IF k \in linked THEN par(k) ELSE NoKey
  <2>4. up \in Key \cup {NoKey}
    BY <1>2
  <2>5. n.children \cup kids(k) = kids(k)
    BY <2>1
  <2> HIDE DEF kids
  <2>6. body(k) = [n EXCEPT !.parent = up, !.children = kids(k)]
    BY <2>1, <2>5 DEF body
  <2> HIDE DEF n, up
  <2>7. h.nodes[k] \in Node /\ h.nodes[k].parent = up /\ h.nodes[k].children = kids(k)
    <3> DEFINE m == [n EXCEPT !.parent = up, !.children = kids(k)]
    <3>1. m \in Node /\ m.parent = up /\ m.children = kids(k)
      BY <2>1, <2>3, <2>4 DEF Node
    <3>2. h.nodes[k] = m
      BY <2>2, <2>6
    <3> HIDE DEF m
    <3> QED
      BY <3>1, <3>2
  <2> QED
    BY <2>7 DEF up
<1>4. IsGraph(h) /\ DOMAIN h.nodes = DOMAIN g.nodes /\ h.byPid = g.byPid
  <2>1. /\ h = [nodes |-> h.nodes, byPid |-> h.byPid] /\ h.byPid = g.byPid
        /\ DOMAIN h.nodes = DOMAIN g.nodes
        /\ h.nodes = [k \in DOMAIN g.nodes |-> h.nodes[k]]
    BY <1>1
  <2> HIDE DEF h
  <2>2. h.nodes \in [DOMAIN g.nodes -> Node]
    BY <1>3, <2>1
  <2> QED
    BY <2>1, <2>2 DEF Sound, IsGraph
<1> HIDE DEF h
<1>5. Linked(h)
  BY SMTT(30), <1>2, <1>3, <1>4 DEF Linked
<1>6. NoSelfLoop(h)
  BY <1>2, <1>3, <1>4, GraphConstants DEF NoSelfLoop
<1>7. Indexed(h) /\ IsFiniteSet(DOMAIN h.nodes)
  BY <1>4 DEF Sound, Indexed
<1> QED
  BY <1>4, <1>5, <1>6, <1>7 DEF Sound, h

(* reap() brings the graph within the cap, whatever it finds; if it took   *)
(* the node of a running process it stopped at the cap, and every node     *)
(* left is of a running process.                                           *)
LEMMA ReapSound ==
  ASSUME NEW g, Sound(g), NEW now, NEW h \in Reap(g, now)
  PROVE  /\ Sound(h) /\ Cardinality(DOMAIN h.nodes) <= MaxProcesses
         /\ \A k \in DOMAIN g.nodes \ DOMAIN h.nodes :
              g.nodes[k].exited = Alive =>
                /\ Cardinality(DOMAIN h.nodes) = MaxProcesses
                /\ \A u \in DOMAIN h.nodes : h.nodes[u].exited = Alive
<1> DEFINE old == Expired(g, now)
           kept == Remove(g, old)
           size == Cardinality(DOMAIN kept.nodes)
<1>1. /\ Sound(kept) /\ IsFiniteSet(DOMAIN kept.nodes)
      /\ DOMAIN kept.nodes = DOMAIN g.nodes \ old
      /\ \A k \in DOMAIN kept.nodes : kept.nodes[k].exited = g.nodes[k].exited
  BY SMTT(30), RemoveSound DEF Sound
<1>2. PICK V \in Victims(kept) : h = Remove(kept, V)
  BY DEF Reap
<1>2a. \A k \in old : g.nodes[k].exited # Alive
  BY DEF Expired
<1> HIDE DEF kept, old
<1>3. /\ Sound(h) /\ DOMAIN h.nodes = DOMAIN kept.nodes \ V
      /\ \A k \in DOMAIN h.nodes : h.nodes[k].exited = kept.nodes[k].exited
  BY SMTT(30), <1>1, <1>2, RemoveSound
<1>4. /\ V \subseteq DOMAIN kept.nodes
      /\ Cardinality(V) = IF size > MaxProcesses THEN size - MaxProcesses ELSE 0
      /\ \A v \in V, u \in DOMAIN kept.nodes \ V :
           EvictsBefore(kept.nodes[v], kept.nodes[u])
  BY <1>2 DEF Victims
<1>5. Cardinality(DOMAIN kept.nodes \ V) = size - Cardinality(V)
  <2>1. DOMAIN kept.nodes \cap V = V
    BY <1>4
  <2> QED
    BY <1>1, <2>1, FS_Difference
<1>6. size \in Nat /\ MaxProcesses \in Nat
  BY <1>1, FS_CardinalityType, GraphConstants
<1>7. ASSUME NEW k \in DOMAIN g.nodes \ DOMAIN h.nodes, g.nodes[k].exited = Alive
      PROVE  /\ Cardinality(DOMAIN h.nodes) = MaxProcesses
             /\ \A u \in DOMAIN h.nodes : h.nodes[u].exited = Alive
  <2>1. k \in V /\ kept.nodes[k].exited = Alive
    BY <1>1, <1>2a, <1>3, <1>7
  <2>2. Cardinality(V) # 0
    BY <1>1, <1>4, <2>1, FS_Subset, FS_EmptySet
  <2>3. Cardinality(DOMAIN h.nodes) = MaxProcesses
    BY SMTT(30), <1>3, <1>4, <1>5, <1>6, <2>2
  <2>4. ASSUME NEW u \in DOMAIN h.nodes PROVE h.nodes[u].exited = Alive
    BY <1>3, <1>4, <2>1 DEF EvictsBefore
  <2> QED
    BY <2>3, <2>4
<1>8. Cardinality(DOMAIN h.nodes) <= MaxProcesses
  BY SMTT(30), <1>3, <1>4, <1>5, <1>6
<1> QED
  BY <1>3, <1>7, <1>8

-----------------------------------------------------------------------------
(* The invariant. *)

(* It holds of the empty graph.                                            *)
LEMMA InitInv == Init => GInv
<1> SUFFICES ASSUME Init PROVE GInv
  OBVIOUS
<1>1. /\ graph = NewGraph /\ edges = NoEdges /\ phase = "scan"
      /\ DOMAIN NewGraph.nodes = {} /\ DOMAIN NewGraph.byPid = {} /\ DOMAIN NoEdges = {}
  BY DEF Init, NewGraph, NoEdges
<1>2. IsGraph(graph) /\ TypeOK
  BY <1>1 DEF TypeOK, IsGraph, NewGraph, NoEdges, Nodes
<1>3. IsFiniteSet(DOMAIN graph.nodes)
  BY <1>1, FS_EmptySet
<1> QED
  BY <1>1, <1>2, <1>3
  DEF GInv, Sound, Linked, NoSelfLoop, Indexed, Flat, CapAfterReap

(* A process found in /proc.                                               *)
LEMMA ScanOneInv ==
  ASSUME GInv, NEW key \in Key, NEW ppid \in Pids \cup {0}, NEW comm \in Comms,
         NEW trusted \in Trusts \cup {Empty}, ScanOne(key, ppid, comm, trusted)
  PROVE  GInv'
<1> DEFINE n == [NewNode(key, "Scanned") EXCEPT !.comm = comm, !.trusted = trusted]
<1>1. /\ phase = "scan" /\ phase' = "scan" /\ Sound(graph) /\ Flat(graph)
      /\ graph' = InsertScanned(graph, key, n) /\ edges' = Put(edges, key, ppid)
  BY DEF ScanOne, GInv
<1>2. n \in Node /\ n.parent = NoKey /\ n.children = {}
  <2> DEFINE m == NewNode(key, "Scanned")
  <2>1. m \in Node /\ m.parent = NoKey /\ m.children = {}
    BY NewNodeType
  <2> HIDE DEF m
  <2> QED
    BY <2>1 DEF Node, m
<1> HIDE DEF n
<1>3. /\ graph' = [nodes |-> graph'.nodes, byPid |-> graph'.byPid]
      /\ DOMAIN graph'.nodes = Nodes \cup {key}
      /\ \A k \in DOMAIN graph'.nodes :
           graph'.nodes[k] = IF k = key THEN n ELSE graph.nodes[k]
      /\ DOMAIN graph'.byPid = DOMAIN graph.byPid \cup {key.pid}
      /\ \A p \in DOMAIN graph'.byPid :
           graph'.byPid[p] = IF p = key.pid THEN key ELSE graph.byPid[p]
      /\ graph'.nodes = [k \in DOMAIN graph'.nodes |-> graph'.nodes[k]]
      /\ graph'.byPid = [p \in DOMAIN graph'.byPid |-> graph'.byPid[p]]
  BY <1>1 DEF InsertScanned, Put, Nodes
<1>4. Flat(graph')
  BY SMTT(30), <1>1, <1>2, <1>3 DEF Flat, Nodes
<1>5. IsGraph(graph')
  BY SMTT(30), <1>1, <1>2, <1>3 DEF Sound, IsGraph, Key, Nodes
<1>6. IsFiniteSet(DOMAIN graph'.nodes)
  BY SMTT(30), <1>1, <1>3, FS_AddElement DEF Sound, Nodes
<1>7. Linked(graph') /\ NoSelfLoop(graph')
  BY SMTT(30), <1>3, <1>4, <1>5, GraphConstants DEF Flat, Linked, NoSelfLoop, IsGraph
<1>8. Indexed(graph')
  BY <1>1, <1>3 DEF Sound, Indexed, Nodes
<1>9. TypeOK'
  BY <1>1, <1>3, <1>5 DEF TypeOK, GInv, Put, Nodes
<1> QED
  BY <1>1, <1>4, <1>5, <1>6, <1>7, <1>8, <1>9 DEF GInv, Sound, CapAfterReap

(* Every step preserves the invariant.                                     *)
LEMMA NextInv == GInv /\ [Next]_gvars => GInv'
<1> SUFFICES ASSUME GInv, [Next]_gvars PROVE GInv'
  OBVIOUS
<1>1. CASE \E key \in Key, ppid \in Pids \cup {0}, comm \in Comms,
              trusted \in Trusts \cup {Empty} : ScanOne(key, ppid, comm, trusted)
  BY <1>1, ScanOneInv
<1>2. CASE FinishScan
  <2>1. /\ phase' = "run" /\ edges' = NoEdges /\ graph' = LinkScanned(graph, edges)
        /\ Sound(graph) /\ Flat(graph) /\ DOMAIN edges \subseteq DOMAIN graph.nodes
    BY <1>2 DEF FinishScan, GInv, TypeOK, Nodes
  <2>2. Sound(graph')
    BY <2>1, LinkScannedSound
  <2>3. TypeOK'
    BY <2>1, <2>2 DEF TypeOK, Sound, NoEdges, Nodes
  <2> QED
    BY <2>1, <2>2, <2>3 DEF GInv, CapAfterReap
<1>3. ASSUME NEW ev \in KernelEvent, Apply(ev)
      PROVE  GInv'
  <2>1. /\ phase' = "run" /\ edges' = edges /\ graph' = ApplyEvent(graph, ev)
        /\ phase # "scan" /\ ev \in Event
        /\ ev.type = "Fork" => ev.child \notin Nodes /\ ev.child.pid # ev.key.pid
    BY <1>3 DEF Apply, ForkIsFirst, KernelEvent, Nodes
  <2>2. Sound(graph')
    BY <2>1, ApplySound DEF GInv, Nodes
  <2> QED
    BY <2>1, <2>2 DEF GInv, CapAfterReap, TypeOK, Sound, NoEdges
<1>4. ASSUME NEW now \in Times, ReapNow(now)
      PROVE  GInv'
  <2>1. /\ phase # "scan" /\ phase' = "reaped" /\ edges' = edges
        /\ graph' \in Reap(graph, now)
    BY <1>4 DEF ReapNow
  <2>2. Sound(graph') /\ Cardinality(DOMAIN graph'.nodes) <= MaxProcesses
    BY <2>1, ReapSound DEF GInv
  <2> QED
    BY <2>1, <2>2 DEF GInv, CapAfterReap, TypeOK, Sound, Nodes, NoEdges
<1>5. CASE UNCHANGED gvars
  BY <1>5 DEF gvars, GInv, TypeOK, CapAfterReap, Nodes
<1> QED
  BY <1>1, <1>2, <1>3, <1>4, <1>5 DEF Next

(* The inductive invariant holds throughout.                               *)
THEOREM GraphInvariant == Spec => []GInv
  BY InitInv, NextInv, PTL DEF Spec

(* Type correctness of the graph under every sequence of scans, events and *)
(* reaps.                                                                  *)
THEOREM TypeCorrect == Spec => []TypeOK
  BY GraphInvariant, PTL DEF GInv

(* Parent and child links agree: rekey, remove, on_fork and link_scanned   *)
(* never leave one direction of an edge without the other.                 *)
THEOREM LinksAgree == Spec => []EdgesAgree
<1>1. GInv => EdgesAgree
  BY DEF GInv, Sound, EdgesAgree
<1> QED
  BY <1>1, GraphInvariant, PTL

(* The pid index points to nodes of the same pid only.                     *)
THEOREM IndexSound == Spec => []ByPidSound
<1>1. GInv => ByPidSound
  BY DEF GInv, Sound, ByPidSound
<1> QED
  BY <1>1, GraphInvariant, PTL

(* After every reap the graph is within max_processes.                     *)
THEOREM CapHolds == Spec => []CapAfterReap
  BY GraphInvariant, PTL DEF GInv

(* A reap takes the node of a running process only to get down to the cap, *)
(* and only when no exited process is left to give up instead.             *)
THEOREM LiveLast == Spec => LiveEvictedLast
<1> DEFINE Spares ==
      phase' = "reaped" =>
        \A k \in Nodes \ DOMAIN graph'.nodes :
          graph.nodes[k].exited = Alive =>
            /\ Cardinality(DOMAIN graph'.nodes) = MaxProcesses
            /\ \A u \in DOMAIN graph'.nodes : graph'.nodes[u].exited = Alive
<1>1. GInv /\ [Next]_gvars => [Spares]_gvars
  <2> SUFFICES ASSUME GInv, Next PROVE Spares
    OBVIOUS
  <2>1. ASSUME NEW now \in Times, ReapNow(now) PROVE Spares
    <3>1. graph' \in Reap(graph, now) /\ Sound(graph)
      BY <2>1 DEF ReapNow, GInv
    <3> QED
      BY <3>1, ReapSound DEF Nodes
  <2>2. ASSUME NEW ev, Apply(ev) PROVE Spares
    BY <2>2 DEF Apply
  <2>3. CASE FinishScan
    BY <2>3 DEF FinishScan
  <2>4. ASSUME NEW key, NEW ppid, NEW comm, NEW trusted, ScanOne(key, ppid, comm, trusted)
        PROVE  Spares
    BY <2>4 DEF ScanOne
  <2> QED
    BY <2>1, <2>2, <2>3, <2>4 DEF Next
<1> QED
  BY <1>1, GraphInvariant, PTL DEF Spec, LiveEvictedLast

=============================================================================
