---------------------------- MODULE Attestation ----------------------------
(***************************************************************************)
(* Whether a host is watched, from the agent's canary to the panel: the    *)
(* self-attestation rounds (src/src/canary.rs) driven by the sensor loop's *)
(* tick, the heartbeat that carries their verdict, its way through `ship`, *)
(* and the status the server derives from it and restores after a restart  *)
(* (src/src/server/store.rs).                                              *)
(*                                                                         *)
(* One unit of time is heartbeat::INTERVAL_SECS.  The server compares      *)
(* receive times with now, so only the age of the last heartbeat is kept.  *)
(* Of a heartbeat's fields only the verdict is kept; the others are        *)
(* telemetry no decision reads.                                            *)
(***************************************************************************)
EXTENDS Integers, Sequences

CONSTANTS
  StaleAfter,    \* STALE_AFTER_SECS, in intervals
  SilentAfter,   \* SILENT_AFTER_SECS, in intervals
  WireCap,       \* bound: heartbeats under way
  DbFails        \* whether the write of a heartbeat to the database may fail

ASSUME AttestationConstants ==
  /\ {StaleAfter, SilentAfter} \subseteq Nat /\ StaleAfter < SilentAfter
  /\ WireCap \in Nat \ {0} /\ DbFails \in BOOLEAN

Sensors == {"exec", "exit"}
Pids == 0..1     \* pids the canaries take in turn
NoPid == -1
None == "none"
Verdict == {None, "seen", "unseen"}    \* None, Some(true), Some(false)
Old == SilentAfter + 1                 \* ages past the last threshold are one

NoHost == [beat |-> FALSE, age |-> Old, verified |-> None]

VARIABLES
  running,       \* the agent and the `ship` its output goes to
  attached,      \* sensors whose BPF link is in place
  ring,          \* the canary's events in the ring buffer: <<pid, sensor>>
  pending, seen, verified,           \* the canary
  exiting,       \* canaries that have not exited yet
  due, polled,   \* the tick interval is over; the ring was drained since
  wire,          \* verdicts of heartbeats emitted and not yet handled
  host, disk,    \* the server's state of this host, and its row
  evidence,      \* history: sensors whose event of the pending canary
                 \* reached the ring
  saved          \* history: the last write of the row succeeded

canary == <<pending, seen, verified, exiting, evidence>>
tvars == <<running, attached, ring, canary, due, polled, wire, host, disk, saved>>

AttestationInit ==
  /\ running = TRUE /\ attached = Sensors /\ ring = <<>>
  /\ pending = NoPid /\ seen = FALSE /\ verified = None
  /\ exiting = {} /\ due = FALSE /\ polled = FALSE
  /\ wire = <<>> /\ host = NoHost /\ disk = NoHost /\ evidence = {}
  /\ saved = TRUE

-----------------------------------------------------------------------------
(* The agent. *)

(* An event of the canary is submitted to the ring buffer, or dropped      *)
(* because the ring is full.  A detached sensor submits nothing.           *)
Submit(sensor, pid) ==
  \/ ring' = ring
  \/ sensor \in attached /\ ring' = Append(ring, <<pid, sensor>>)

Submitted(sensor) == IF ring' = ring THEN {} ELSE {sensor}

(* The poll drains the ring; the callback offers every event, of whatever  *)
(* type, to observe().                                                     *)
Poll ==
  /\ running /\ (ring # <<>> \/ ~polled)
  /\ seen' = (seen \/ \E i \in DOMAIN ring : ring[i][1] = pending)
  /\ ring' = <<>> /\ polled' = TRUE
  /\ UNCHANGED <<running, attached, pending, verified, exiting, evidence,
                 due, wire, host, disk, saved>>

(* Mutant: what was once seen stays seen.                                  *)
Closed_Sticky ==
  IF pending = NoPid THEN verified
  ELSE IF seen \/ verified = "seen" THEN "seen" ELSE "unseen"

(* What round() makes of the round that is over.                           *)
Closed == IF pending = NoPid THEN verified ELSE IF seen THEN "seen" ELSE "unseen"

(* The liveness tick: round(), and a heartbeat with its verdict.  Spawning *)
(* returns once the child has executed /bin/true; a pid comes round again  *)
(* only when nothing is left of its last owner.                            *)
Round(pid) ==
  /\ running /\ due /\ polled /\ Len(wire) < WireCap
  /\ verified' = Closed
  /\ wire' = Append(wire, Closed)
  /\ seen' = FALSE /\ due' = FALSE /\ polled' = FALSE
  /\ pending' = pid
  /\ IF pid = NoPid
     THEN evidence' = {} /\ UNCHANGED <<exiting, ring>>
     ELSE /\ pid \notin exiting \cup {pending} \cup {ring[i][1] : i \in DOMAIN ring}
          /\ exiting' = exiting \cup {pid}
          /\ Submit("exec", pid)
          /\ evidence' = Submitted("exec")
  /\ UNCHANGED <<running, attached, host, disk, saved>>

(* A child exits; a thread of its own waits for it.                        *)
CanaryExit(pid) ==
  /\ running /\ pid \in exiting
  /\ exiting' = exiting \ {pid}
  /\ Submit("exit", pid)
  /\ evidence' = IF pid = pending THEN evidence \cup Submitted("exit") ELSE evidence
  /\ UNCHANGED <<running, attached, pending, seen, verified, due, polled,
                 wire, host, disk, saved>>

Detach(sensor) ==
  /\ running /\ sensor \in attached
  /\ attached' = attached \ {sensor}
  /\ UNCHANGED <<running, ring, canary, due, polled, wire, host, disk, saved>>

(* The agent ends, or `ship` does (any failed post ends it) and the agent's*)
(* next write finds the pipe closed and stops it.                          *)
Stop ==
  /\ running
  /\ running' = FALSE /\ wire' = <<>>
  /\ UNCHANGED <<attached, ring, canary, due, polled, host, disk, saved>>

Start ==
  /\ ~running
  /\ running' = TRUE /\ attached' = Sensors /\ ring' = <<>>
  /\ pending' = NoPid /\ seen' = FALSE /\ verified' = None
  /\ exiting' = {} /\ due' = FALSE /\ polled' = FALSE /\ evidence' = {}
  /\ UNCHANGED <<wire, host, disk, saved>>

-----------------------------------------------------------------------------
(* The server. *)

(* Mutant: a failed attestation does not replace the last verdict.         *)
Beat_OnlyGood ==
  /\ wire # <<>>
  /\ wire' = Tail(wire)
  /\ host' = [beat |-> TRUE, age |-> 0,
              verified |-> IF Head(wire) = "unseen" THEN host.verified ELSE Head(wire)]
  /\ saved' \in (IF DbFails THEN BOOLEAN ELSE {TRUE})
  /\ disk' = IF saved' THEN host' ELSE disk
  /\ UNCHANGED <<running, attached, ring, canary, due, polled>>

(* heartbeat(): the state in memory, then its row.                         *)
Beat ==
  /\ wire # <<>>
  /\ wire' = Tail(wire)
  /\ host' = [beat |-> TRUE, age |-> 0, verified |-> Head(wire)]
  /\ saved' \in (IF DbFails THEN BOOLEAN ELSE {TRUE})
  /\ disk' = IF saved' THEN host' ELSE disk
  /\ UNCHANGED <<running, attached, ring, canary, due, polled>>

(* Mutant: the verdict is not restored.                                    *)
Restored_NoVerdict == [disk EXCEPT !.verified = None]

(* persistent() restores a host from its row.                              *)
Restored == disk

ServerRestart ==
  /\ host' = Restored /\ saved' = TRUE
  /\ UNCHANGED <<running, attached, ring, canary, due, polled, wire, disk>>

(* agent_status()                                                          *)
Status(h) ==
  CASE h.verified = "unseen" -> "blind"
    [] h.verified # "unseen" /\ ~h.beat -> "unknown"
    [] h.verified # "unseen" /\ h.beat ->
         IF h.age <= StaleAfter THEN "live"
         ELSE IF h.age <= SilentAfter THEN "stale" ELSE "silent"

Older(h) == [h EXCEPT !.age = IF @ < Old THEN @ + 1 ELSE @]

(* An interval passes.                                                     *)
Tick ==
  /\ due' = TRUE
  /\ host' = Older(host) /\ disk' = Older(disk)
  /\ UNCHANGED <<running, attached, ring, canary, polled, wire, saved>>

AttestationNext ==
  \/ Poll \/ Stop \/ Start
  \/ \E pid \in Pids : CanaryExit(pid) \/ Round(pid)
  \/ Round(NoPid)
  \/ \E sensor \in Sensors : Detach(sensor)
  \/ Beat \/ ServerRestart \/ Tick

(* The poll loop and the request loop run, time passes, a child that does  *)
(* nothing exits, and spawning it works again and again.                   *)
AttestationFair ==
  /\ WF_tvars(Poll) /\ WF_tvars(Beat) /\ WF_tvars(Tick)
  /\ \A pid \in Pids : WF_tvars(CanaryExit(pid))
  /\ SF_tvars(\E pid \in Pids : Round(pid))

AttestationSpec == AttestationInit /\ [][AttestationNext]_tvars /\ AttestationFair

-----------------------------------------------------------------------------
(* Properties. *)

(* A step of the agent that closes a round.                                *)
RoundEnds == running /\ due /\ ~due'

(* A round is judged on its own canary: it closes as seen exactly when an  *)
(* event of that child reached the ring before the ring was last drained,  *)
(* however late the events of earlier children arrive.                     *)
VerdictExact ==
  [][RoundEnds /\ pending # NoPid =>
       IF verified' = "seen" THEN evidence # {} ELSE "exec" \notin evidence]_tvars

(* The panel never takes a host for watched that is not: when every sensor *)
(* is detached, it shows the host as blind in the end, unless the agent    *)
(* stops.                                                                  *)
DetachmentShown ==
  (running /\ attached = {}) ~> (Status(host) = "blind" \/ ~running)

(* "Without these the blind state did not survive a restart": a restart of *)
(* the server changes no host's status, unless the write of its last       *)
(* heartbeat failed.                                                       *)
RestartKeepsStatus ==
  [][saved /\ host' = Restored => Status(host') = Status(host)]_tvars

=============================================================================
