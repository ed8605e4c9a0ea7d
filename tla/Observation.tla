---------------------------- MODULE Observation ----------------------------
(***************************************************************************)
(* The host and what the agent learns of it.  Processes fork, exec, change *)
(* credentials, open watched files and exit; the agent walks /proc, then   *)
(* attaches its sensors, and from then on receives the events the sensors  *)
(* put in a bounded ring buffer (src/bpf).  A sensor that finds the ring   *)
(* full drops its event.  The agent takes events from the ring one at a    *)
(* time, applies each to the process graph and, every ReapEvery of event   *)
(* time, reaps (the event callback of run() in src/src/main.rs).           *)
(*                                                                         *)
(* The kernel's part is external: it is modelled as the sensors use it.    *)
(***************************************************************************)
EXTENDS ProcessGraph, Sequences

CONSTANTS
  MaxProcs,      \* bound: processes over the whole run
  MaxTime,       \* bound: readings of the boot clock
  Calls,         \* which other calls are made: CredChange, FileOpen
  MaxOpens,      \* bound: events pending below which calls are made
  Tick,          \* clock readings per /proc tick
  RingCap,       \* events the ring buffer holds
  ReapEvery,     \* event time between two reaps
  ReuseGap,      \* age a pid must reach before it is given out again
  BusyProcs      \* bound: processes up to which some of them start a second thread
                 \* or make other calls

ASSUME ObservationConstants ==
  /\ {MaxProcs, MaxTime, Tick, RingCap, ReapEvery, ReuseGap, BusyProcs} \subseteq Nat
  /\ Tick > 0 /\ MaxProcs > 0
  /\ Times = 0..MaxTime
  /\ Pids \subseteq Nat \ {0} /\ 1 \in Pids
  /\ Calls \subseteq {"CredChange", "FileOpen"}
  /\ Comms # {}

(* A scanned start time is off by less than a tick, which is within the    *)
(* tolerance; and no pid comes back so soon that two of its processes are. *)
ASSUME ClocksFit == Tick <= Tolerance + 1 /\ Tolerance <= ReuseGap

VARIABLES
  procs,         \* the processes of the host, oldest first; the first is init
  now,           \* the boot clock
  cursor,        \* the next pid the walk of /proc looks at
  attached,      \* the sensors are attached
  ring,          \* events submitted and not yet consumed
  unheardExec,   \* processes whose last exec produced no event
  unheardExit,   \* exited processes whose exit produced no event
  lastReap       \* timestamp of the event that last reaped

hostVars == <<procs, now, attached, ring, unheardExec, unheardExit>>
vars == <<graph, edges, phase, hostVars, cursor, lastReap>>

NoThread == -1
Proc == 1..Len(procs)
OneThreaded == \A p \in Proc : procs[p].thread = NoThread
Living == {p \in Proc : procs[p].alive}
LeaderKey(p) == [pid |-> procs[p].pid, start |-> procs[p].start]
ThreadKey(p) == [pid |-> procs[p].pid, start |-> procs[p].thread]

NewProc(pid, start, parent, image) ==
  [pid |-> pid, start |-> start, parent |-> parent, image |-> image,
   alive |-> TRUE, thread |-> NoThread, threaded |-> FALSE]

Images == Trusts \cup {Empty}   \* what a process runs: a trusted binary or not

HostInit ==
  /\ \E image \in Images : procs = <<NewProc(1, 0, 0, image)>>
  /\ now = 0
  /\ attached = FALSE
  /\ ring = <<>>
  /\ unheardExec = {} /\ unheardExit = {}

ObsInit == Init /\ HostInit /\ cursor = 1 /\ lastReap = 0

-----------------------------------------------------------------------------
(* The sensors. *)

Heard == attached /\ Len(ring) < RingCap

(* fill_hdr: the pid is the process's, the start time is that of the task  *)
(* that made the call.                                                     *)
Hdr(type, key, child, image) ==
  [type |-> type, key |-> key, child |-> child, ts |-> now,
   comm |-> CHOOSE c \in Comms : TRUE, trusted |-> image, container |-> Empty]

(* bpf_ringbuf_reserve, then submit: with no room the event is lost.       *)
Emit(ev) == ring' = IF Heard THEN Append(ring, ev) ELSE ring

(* The tasks of p that can make a system call.                             *)
Callers(p) ==
  {LeaderKey(p)} \cup (IF procs[p].threaded THEN {ThreadKey(p)} ELSE {})

-----------------------------------------------------------------------------
(* The host. *)

Advance == now < MaxTime /\ now' = now + 1

(* Pids are given out in a cycle: one that was in use is not given out     *)
(* again within ReuseGap, nor while the scan walks /proc.                  *)
FreePid(pid) ==
  \A p \in Proc : procs[p].pid = pid =>
    /\ ~procs[p].alive
    /\ now - procs[p].start > ReuseGap
    /\ procs[p].thread # NoThread => now > procs[p].thread
    /\ phase # "scan" \/ cursor = 1

HostTick ==
  /\ Advance
  /\ UNCHANGED <<graph, edges, phase, procs, attached, ring, unheardExec,
                 unheardExit, cursor, lastReap>>

HostFork(p, caller, pid) ==
  /\ Len(procs) < IF OneThreaded THEN MaxProcs ELSE BusyProcs
  /\ FreePid(pid)
  /\ procs' = Append(procs, NewProc(pid, now, p, procs[p].image))
  /\ Emit(Hdr("Fork", caller, [pid |-> pid, start |-> now], Empty))
  /\ UNCHANGED <<graph, edges, phase, now, attached, unheardExec, unheardExit,
                 cursor, lastReap>>

(* A second thread, once in a process's life and later than the first.     *)
HostThread(p) ==
  /\ Len(procs) <= BusyProcs /\ procs[p].thread = NoThread /\ now > procs[p].start
  /\ procs' = [procs EXCEPT ![p].thread = now, ![p].threaded = TRUE]
  /\ UNCHANGED <<graph, edges, phase, now, attached, ring, unheardExec,
                 unheardExit, cursor, lastReap>>

(* The kernel ends the other threads and gives the one that execs the      *)
(* leader's start time.                                                    *)
HostExec(p, image) ==
  /\ procs' = [procs EXCEPT ![p].image = image, ![p].threaded = FALSE]
  /\ Emit(Hdr("Exec", LeaderKey(p), NoKey, image))
  /\ unheardExec' = IF Heard THEN unheardExec \ {p} ELSE unheardExec \cup {p}
  /\ UNCHANGED <<graph, edges, phase, now, attached, unheardExit, cursor, lastReap>>

(* A credential change, and a watched file opened: one that changes the    *)
(* graph and one that does not.                                            *)
HostCall(p, caller, type) ==
  /\ Len(procs) <= BusyProcs
  /\ Heard /\ Len(ring) < MaxOpens
  /\ Emit(Hdr(type, caller, NoKey, Empty))
  /\ UNCHANGED <<graph, edges, phase, procs, now, attached, unheardExec,
                 unheardExit, cursor, lastReap>>

(* init never exits.  What a process ran is forgotten with it.             *)
HostExit(p) ==
  /\ p # 1
  /\ procs' = [procs EXCEPT ![p].alive = FALSE, ![p].threaded = FALSE,
                            ![p].image = Empty]
  /\ Emit(Hdr("Exit", LeaderKey(p), NoKey, Empty))
  /\ unheardExec' = unheardExec \ {p}
  /\ unheardExit' = IF Heard THEN unheardExit ELSE unheardExit \cup {p}
  /\ UNCHANGED <<graph, edges, phase, now, attached, cursor, lastReap>>

Host ==
  \/ HostTick
  \/ \E p \in Living :
       \/ \E caller \in Callers(p), pid \in Pids : HostFork(p, caller, pid)
       \/ HostThread(p)
       \/ \E image \in Images : HostExec(p, image)
       \/ \E caller \in Callers(p), type \in Calls :
            HostCall(p, caller, type)
       \/ HostExit(p)

-----------------------------------------------------------------------------
(* The agent. *)

Trunc(t) == (t \div Tick) * Tick

(* A process whose parent has exited is init's child.                      *)
PpidOf(p) ==
  IF p = 1 THEN 0
  ELSE IF procs[procs[p].parent].alive THEN procs[procs[p].parent].pid ELSE 1

(* One entry of /proc, in pid order: the start time is read in ticks, the  *)
(* trusted name from the file the process maps.                            *)
ScanPid ==
  /\ phase = "scan" /\ cursor \in Pids
  /\ \/ \E p \in Living :
          /\ procs[p].pid = cursor
          /\ \E comm \in Comms :
               ScanOne([pid |-> cursor, start |-> Trunc(procs[p].start)],
                       PpidOf(p), comm, procs[p].image)
     \/ /\ \A p \in Living : procs[p].pid # cursor
        /\ UNCHANGED <<graph, edges, phase>>
  /\ cursor' = cursor + 1
  /\ UNCHANGED <<hostVars, lastReap>>

LinkScan ==
  /\ cursor \notin Pids
  /\ FinishScan
  /\ UNCHANGED <<hostVars, cursor, lastReap>>

(* sensors::run, called once the scan is over.                             *)
Attach ==
  /\ phase # "scan" /\ ~attached
  /\ attached' = TRUE
  /\ UNCHANGED <<graph, edges, phase, procs, now, ring, unheardExec, unheardExit,
                 cursor, lastReap>>

(* The event callback: apply, then reap when enough event time has passed. *)
(* The agent leaves out its own events; it is none of the processes here.  *)
Consume ==
  /\ ring # <<>>
  /\ ring' = Tail(ring)
  /\ LET ev == Head(ring)
         applied == ApplyEvent(graph, ev)
     IN  IF ev.ts - lastReap > ReapEvery
         THEN /\ graph' \in Reap(applied, ev.ts)
              /\ phase' = "reaped" /\ lastReap' = ev.ts
         ELSE /\ graph' = applied
              /\ phase' = "run" /\ UNCHANGED lastReap
  /\ UNCHANGED <<edges, procs, now, attached, unheardExec, unheardExit, cursor>>

Agent == ScanPid \/ LinkScan \/ Attach \/ Consume

ObsNext == Host \/ Agent

ObsSpec == ObsInit /\ [][ObsNext]_vars

-----------------------------------------------------------------------------
(* Properties. *)

(* The node k stands for the process p.                                    *)
Denotes(k, p) ==
  /\ k.pid = procs[p].pid
  /\ \/ k.start = procs[p].start
     \/ graph.nodes[k].origin = "Scanned" /\ k.start = Trunc(procs[p].start)

(* The node k was made by an event that a second thread of p raised.       *)
ThreadNode(k, p) == procs[p].thread # NoThread /\ k = ThreadKey(p)

(* Every node stands for a process of the host or for a thread that raised *)
(* an event, and a process of one thread never has two: a node built from  *)
(* /proc and the exact key an event carries are reconciled (resolve).      *)
OneNodePerProcess ==
  /\ \A k \in Nodes : \E p \in Proc : Denotes(k, p) \/ ThreadNode(k, p)
  /\ \A k1, k2 \in Nodes : k1 # k2 /\ k1.pid = k2.pid =>
       ~\E p \in Proc : /\ procs[p].thread = NoThread
                        /\ Denotes(k1, p) /\ Denotes(k2, p)

(* The processes p may be the child of: the one that forked it and init,   *)
(* which inherits it.                                                      *)
Parents(p) == {procs[p].parent, 1} \ {0, p}

(* A parent link never names a stranger: the process it leads to is the    *)
(* one that forked the child, or init if that has exited, however pids were*)
(* recycled in between (link_scanned, on_fork, rekey).                     *)
LineageTrue ==
  \A k \in Nodes, p \in Proc :
    Denotes(k, p) /\ graph.nodes[k].parent # NoKey =>
      \E q \in Parents(p) :
        Denotes(graph.nodes[k].parent, q) \/ ThreadNode(graph.nodes[k].parent, q)

Pending(type, p) ==
  \E i \in 1..Len(ring) : ring[i].type = type /\ ring[i].key = LeaderKey(p)

(* A process of one thread that the graph takes for running is running,    *)
(* unless its exit is still in the ring or never got into it (dropped, or  *)
(* before the sensors attached): on_exit finds the node even when it was   *)
(* scanned under another key.                                              *)
ExitsNoticed ==
  \A p \in Proc \ (Living \cup unheardExit) :
    procs[p].thread = NoThread /\ ~Pending("Exit", p) =>
      \A k \in Nodes : Denotes(k, p) => graph.nodes[k].exited # Alive

(* A reap takes the node of a running process only to get down to the cap, *)
(* and only when no exited process is left to give up instead, the event   *)
(* that called for the reap included (Consume's Reap).                     *)
RunningSpared ==
  [][ring # <<>> /\ ring' = Tail(ring) /\ phase' = "reaped" =>
       LET applied == ApplyEvent(graph, Head(ring)).nodes IN
       \A k \in DOMAIN applied \ DOMAIN graph'.nodes :
         applied[k].exited = Alive =>
           /\ Cardinality(DOMAIN graph'.nodes) = MaxProcesses
           /\ \A u \in DOMAIN graph'.nodes : graph'.nodes[u].exited = Alive]_vars

(* The credential-read suppression applies to the daemons that were running*)
(* before the agent started: when an open by such a process is handled,    *)
(* looking its key up in the graph finds the trusted name the scan gave it *)
(* (credential_read and bootstrap's comment).                              *)
ScannedTrustApplies ==
  ring # <<>> /\ Head(ring).type = "FileOpen" =>
    \A k \in Nodes, p \in Proc :
      /\ Denotes(k, p) /\ graph.nodes[k].exited = Alive
      /\ graph.nodes[k].trusted # Empty
      /\ Head(ring).key = LeaderKey(p)
      => /\ Head(ring).key \in Nodes
         /\ graph.nodes[Head(ring).key].trusted = graph.nodes[k].trusted

=============================================================================
