------------------------------ MODULE Delivery ------------------------------
(***************************************************************************)
(* From the agent to the operator's alert: the shipper (Shipper), the      *)
(* ingest handler of the server's request loop (src/src/server/mod.rs) and *)
(* the alert dispatcher (Notifier), composed.  The request loop handles one*)
(* request at a time, so a handler is one step; the shipper and the        *)
(* dispatcher run concurrently with it.                                    *)
(***************************************************************************)
EXTENDS Shipper, Notifier

(* An alert is known by the record that raised it.                         *)
ASSUME AlertsOfRecords == 1..MaxRecords \subseteq Alerts

vars == <<svars, nvars>>

DeliveryInit == ShipperInit /\ NotifierInit

(* The severity rank alert_from() gives the alert of a record.             *)
RankOf(kind) == IF kind = "critical" THEN 4 ELSE 1

(* What goes back to the shipper, if it still waits for this request.      *)
Answer(r, status) == reply' = IF ship = "waiting" /\ r = inhand THEN status ELSE reply

(* /api/ingest with an unknown key or a body over the limit: nothing is    *)
(* read, stored or published.                                              *)
Turned(r) ==
  /\ r \in inbox /\ ServerUp
  /\ HostOf(Key, Host) = NoHost \/ r.kind = "oversize"
  /\ inbox' = inbox \ {r}
  /\ Answer(r, IF HostOf(Key, Host) = NoHost THEN "401" ELSE "413")
  /\ UNCHANGED <<file, agent, emitted, pipe, ship, inhand, stored, since, nvars>>

(* /api/ingest: the record is filed under the host of its key, and an      *)
(* incident then goes to the notifier.  (What publish() does to the pages  *)
(* is LivePoll's Publish.  The agent's lines are serde's, one record each; *)
(* of a body that holds a line which is no JSON the handler skips that line*)
(* and answers 200 all the same.)                                          *)
Ingest(r) ==
  /\ r \in inbox /\ ServerUp
  /\ HostOf(Key, Host) # NoHost /\ r.kind # "oversize"
  /\ inbox' = inbox \ {r}
  /\ stored' = Append(stored, [rec |-> r, host |-> HostOf(Key, Host)])
  /\ IF r.kind = "beat" THEN UNCHANGED nvars ELSE Notify(r.id, RankOf(r.kind))
  /\ Answer(r, "200")
  /\ UNCHANGED <<file, agent, emitted, pipe, ship, inhand, since>>

ShipperStep ==
  \/ \E kind \in Kinds : Emit(kind)
  \/ Quit \/ Restart \/ Post \/ PostFails \/ ReadReply \/ ReplyLost
  \/ \E r \in inbox : RequestLost(r)

DeliveryNext ==
  \/ ShipperStep /\ UNCHANGED nvars
  \/ \E r \in inbox : Turned(r) \/ Ingest(r)
  \/ (Dispatch \/ WindowTick) /\ UNCHANGED svars

(* The agent sends a heartbeat every interval, and the dispatcher, a thread*)
(* of its own, takes the next alert when it is idle.  That a delivery ends *)
(* is not assumed: nothing bounds the time a sink may take.                *)
DeliveryFair ==
  /\ WF_vars(Emit("beat") /\ UNCHANGED nvars)
  /\ WF_vars(Receive /\ UNCHANGED svars)

DeliverySpec == DeliveryInit /\ [][DeliveryNext]_vars /\ DeliveryFair

-----------------------------------------------------------------------------
(* Properties. *)

InPipe(n) == \E i \in DOMAIN pipe : pipe[i].id = n
IsStored(n) == \E i \in DOMAIN stored : stored[i].rec.id = n

(* Nothing is lost silently: while the shipper runs, every record the agent*)
(* has emitted since the service started is in the pipe, in the shipper's  *)
(* hands or filed at the server.  A refused or unanswered post therefore   *)
(* ends the shipper.                                                       *)
NoSilentLoss ==
  ship # "down" => \A n \in (since + 1)..emitted :
                     InPipe(n) \/ inhand.id = n \/ IsStored(n)

(* An answer that is lost after the server has filed the record does not   *)
(* make it file the record twice, and a record waits at the server only    *)
(* until it is filed.                                                      *)
StoredOnce ==
  /\ \A i, j \in DOMAIN stored : stored[i].rec = stored[j].rec => i = j
  /\ \A r \in inbox : ~IsStored(r.id)

(* "the key *determines* the host": with a keys file, what a key wrote is  *)
(* filed under the host of every line that has the key, whatever the       *)
(* request names; two hosts cannot share one.                              *)
FiledUnderOwner ==
  \A i \in DOMAIN stored :
    file # NoFile => \A l \in Lines(file) : l[2] = Key => stored[i].host = l[1]

(* A shipper that has ended does not leave an agent behind that watches and*)
(* tells nobody: the next heartbeat stops it.                              *)
AgentFollowsShip == ship = "down" ~> ~agent
=============================================================================
