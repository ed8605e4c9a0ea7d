------------------------------ MODULE Shipper ------------------------------
(***************************************************************************)
(* The way of a record out of a host: `kernelsentinel run --json` writes   *)
(* one line per incident or heartbeat into a pipe, `kernelsentinel ship`   *)
(* (src/src/server/ship.rs) posts every line on its own, and the request   *)
(* waits at the server until the request loop takes it.                    *)
(*                                                                         *)
(* The two processes are one service: it is restarted when both have       *)
(* ended.  A request whose sender has gone may still be handled or not.    *)
(***************************************************************************)
EXTENDS Integers, Sequences, FiniteSetsExt

CONSTANTS
  MaxRecords,    \* bound: records the agent emits
  PipeCap,       \* lines the pipe holds
  Host, Key,     \* the agent's host name and key
  KeyFiles,      \* keys files to consider: [world, lines]
  NoFile,        \* no keys file: one key, IngestKey, for the whole fleet
  IngestKey,
  NoHost         \* the answer of a lookup that finds no host

ASSUME ShipperConstants == {MaxRecords, PipeCap} \subseteq Nat \ {0}

Kinds == {"critical", "low", "beat", "oversize"}
Records == [id : 1..MaxRecords, kind : Kinds]
Nothing == [id |-> 0, kind |-> "beat"]

VARIABLES
  file,          \* the keys file: whether everybody may read it, and its lines,
                 \* each a sequence of words
  agent,         \* the agent runs
  emitted,       \* records written to the pipe so far
  pipe,          \* lines in the pipe
  ship,          \* "reading" the pipe, "waiting" for a reply, or "down"
  inhand,        \* the record posted and not yet acknowledged
  reply,         \* "none", or the status the server answered with
  inbox,         \* requests that have reached the server
  stored,        \* what the server filed: sequence of [rec, host]
  since          \* history: records emitted before the service last started

svars == <<file, agent, emitted, pipe, ship, inhand, reply, inbox, stored, since>>

ShipperInit ==
  /\ file \in KeyFiles \cup {NoFile}
  /\ agent = TRUE /\ emitted = 0 /\ pipe = <<>>
  /\ ship = "reading" /\ inhand = Nothing /\ reply = "none"
  /\ inbox = {} /\ stored = <<>> /\ since = 0

-----------------------------------------------------------------------------
(* The agent. *)

(* Mutant: a failed write is ignored.                                      *)
Emit_Ignores(kind) ==
  /\ agent
  /\ IF ship = "down" THEN UNCHANGED <<agent, emitted, pipe>>
     ELSE /\ emitted < MaxRecords /\ Len(pipe) < PipeCap
          /\ emitted' = emitted + 1
          /\ pipe' = Append(pipe, [id |-> emitted + 1, kind |-> kind])
          /\ agent' = agent
  /\ UNCHANGED <<file, ship, inhand, reply, inbox, stored, since>>

(* emit(): a full pipe blocks the writer; a pipe without a reader fails the*)
(* write, which loses the line and stops the agent.                        *)
Emit(kind) ==
  /\ agent
  /\ IF ship = "down" THEN agent' = FALSE /\ UNCHANGED <<emitted, pipe>>
     ELSE /\ emitted < MaxRecords /\ Len(pipe) < PipeCap
          /\ emitted' = emitted + 1
          /\ pipe' = Append(pipe, [id |-> emitted + 1, kind |-> kind])
          /\ agent' = agent
  /\ UNCHANGED <<file, ship, inhand, reply, inbox, stored, since>>

(* The agent is told to stop.                                              *)
Quit ==
  /\ agent /\ agent' = FALSE
  /\ UNCHANGED <<file, emitted, pipe, ship, inhand, reply, inbox, stored, since>>

(* Once the agent has stopped the shipper drains the pipe and ends too; the*)
(* service starts again when both have ended.                              *)
Restart ==
  /\ ~agent /\ (ship = "down" \/ (ship = "reading" /\ pipe = <<>>))
  /\ agent' = TRUE /\ ship' = "reading" /\ inhand' = Nothing /\ reply' = "none"
  /\ pipe' = <<>> /\ since' = emitted
  /\ UNCHANGED <<file, emitted, inbox, stored>>

-----------------------------------------------------------------------------
(* ship(). *)

(* One line is read and posted, at once and alone.                         *)
Post ==
  /\ ship = "reading" /\ pipe # <<>>
  /\ pipe' = Tail(pipe) /\ inhand' = Head(pipe)
  /\ ship' = "waiting" /\ inbox' = inbox \cup {Head(pipe)}
  /\ UNCHANGED <<file, agent, emitted, reply, stored, since>>

(* The line is read but the server cannot be reached, or presents another  *)
(* certificate than the pinned one: ship() returns the error.              *)
PostFails ==
  /\ ship = "reading" /\ pipe # <<>>
  /\ pipe' = Tail(pipe) /\ ship' = "down"
  /\ UNCHANGED <<file, agent, emitted, inhand, reply, inbox, stored, since>>

(* Mutant: any status will do.                                             *)
ReadReply_Any ==
  /\ ship = "waiting" /\ reply # "none"
  /\ ship' = "reading"
  /\ inhand' = Nothing /\ reply' = "none"
  /\ UNCHANGED <<file, agent, emitted, pipe, inbox, stored, since>>

(* The reply arrives: the batch is cleared on a 2xx, and everything else   *)
(* ends the shipper.                                                       *)
ReadReply ==
  /\ ship = "waiting" /\ reply # "none"
  /\ ship' = IF reply = "200" THEN "reading" ELSE "down"
  /\ inhand' = Nothing /\ reply' = "none"
  /\ UNCHANGED <<file, agent, emitted, pipe, inbox, stored, since>>

(* Mutant: without an answer the line is posted again.                     *)
ReplyLost_Retries ==
  /\ ship = "waiting"
  /\ reply' = "none" /\ inbox' = inbox \cup {inhand}
  /\ UNCHANGED <<file, agent, emitted, pipe, ship, inhand, stored, since>>

(* The read times out or the connection breaks, whether the server has     *)
(* handled the request by then or not: an empty status is not a 2xx.       *)
ReplyLost ==
  /\ ship = "waiting"
  /\ ship' = "down" /\ inhand' = Nothing /\ reply' = "none"
  /\ UNCHANGED <<file, agent, emitted, pipe, inbox, stored, since>>

(* A request whose connection is gone never reaches the request loop.      *)
RequestLost(r) ==
  /\ r \in inbox /\ r # inhand
  /\ inbox' = inbox \ {r}
  /\ UNCHANGED <<file, agent, emitted, pipe, ship, inhand, reply, stored, since>>

-----------------------------------------------------------------------------
(* AgentKeys. *)

Refused == [k \in {} |-> NoHost]

Lines(f) == {f.lines[i] : i \in DOMAIN f.lines}

(* Mutant: of two hosts with one key the last one counts.                  *)
Load_LastWins(f) ==
  IF f.world \/ Lines(f) = {} \/ \E l \in Lines(f) : Len(l) < 2 THEN Refused
  ELSE [k \in {l[2] : l \in Lines(f)} |->
          f.lines[Max({i \in DOMAIN f.lines : f.lines[i][2] = k})][1]]

(* load(): a file everybody may read, a line without a host and a key, a   *)
(* key on two lines and a file without an entry are each refused, and the  *)
(* server does not start.                                                  *)
Load(f) ==
  IF \/ f.world \/ Lines(f) = {} \/ \E l \in Lines(f) : Len(l) < 2
     \/ \E i, j \in DOMAIN f.lines : i # j /\ f.lines[i][2] = f.lines[j][2]
  THEN Refused
  ELSE [k \in {l[2] : l \in Lines(f)} |-> (CHOOSE l \in Lines(f) : l[2] = k)[1]]

ServerUp == file # NoFile => DOMAIN Load(file) # {}

(* The host a request is filed under: the one its key is bound to, or with *)
(* one key for all the one its header names.                               *)
HostOf(key, named) ==
  IF file = NoFile THEN IF key = IngestKey THEN named ELSE NoHost
  ELSE IF key \in DOMAIN Load(file) THEN Load(file)[key] ELSE NoHost
=============================================================================
