-------------------------- MODULE Delivery_proofs --------------------------
(***************************************************************************)
(* That nothing is lost silently, filed twice or filed under a foreign     *)
(* host, for every number of records, every capacity of the pipe and every *)
(* keys file.                                                              *)
(*                                                                         *)
(* The properties speak about ids, and are inductive only once it is known *)
(* how ids move: the pipe holds the latest ids in order (InOrder), so what *)
(* was ever taken from it has a smaller one (Taken), a request that is     *)
(* posted is new to the server; and a reply of 200 says that the record in *)
(* hand is filed (Acknowledged), which is why it may be let go.            *)
(*                                                                         *)
(* Behind the ingest, the dispatcher: the summary counts every alert that  *)
(* was suppressed, and bursts are bounded, for every limit and length of   *)
(* the rate window (Raised, Waiting, Rate, Told).                          *)
(*                                                                         *)
(* And the page, told of what was filed (LivePoll, a machine of its own):  *)
(* RefreshesInOrder needs to know of an answer under way to liveRefresh()  *)
(* that it is no older than what liveRefresh() showed last.  That is       *)
(* preserved only because no second refresh can end in between, which is   *)
(* what the flag `refreshing` is for: one caller of liveRefresh() at most  *)
(* has a request under way (OneFlight), whatever boot() and triage do.     *)
(***************************************************************************)
EXTENDS Delivery, LivePoll, FiniteSetTheorems, TLAPS

(* Leaves go to Zenon, those with arithmetic or records to SMT, as cited; the
   time is for a slow machine.                                             *)
USE ZenonT(30)

Line == [id : Nat, kind : Kinds]

(* Everything is filed under the host of the agent's key.                  *)
Filed == [rec : Line, host : {HostOf(Key, Host)}]

(* The id last taken from the pipe.                                        *)
LastTaken == emitted - Len(pipe)

Types ==
  /\ emitted \in Nat /\ since \in 0..emitted
  /\ pipe \in Seq(Line) /\ inhand \in Line
  /\ ship \in {"reading", "waiting", "down"}
  /\ inbox \subseteq Line /\ stored \in Seq(Filed)

InOrder == Len(pipe) <= emitted /\ \A i \in DOMAIN pipe : pipe[i].id = LastTaken + i

Taken ==
  /\ \A r \in inbox : r.id <= LastTaken
  /\ \A i \in DOMAIN stored : stored[i].rec.id <= LastTaken

Once ==
  /\ \A r, q \in inbox : r.id = q.id => r = q
  /\ \A r \in inbox : ~IsStored(r.id)
  /\ \A i, j \in DOMAIN stored : stored[i].rec.id = stored[j].rec.id => i = j

Acknowledged ==
  /\ ship = "reading" => inhand = Nothing
  /\ ship = "waiting" /\ reply = "200" => IsStored(inhand.id)
  /\ ship # "waiting" => reply = "none"

Known == stored # <<>> => HostOf(Key, Host) # NoHost

DInv == Types /\ InOrder /\ Taken /\ Once /\ Acknowledged /\ Known /\ NoSilentLoss

(* Nothing has happened at the start.                                      *)
LEMMA InitDInv == DeliveryInit => DInv
  BY SMTT(30) DEF DeliveryInit, ShipperInit, DInv, Types, InOrder, Taken, Once, Acknowledged, Known,
         NoSilentLoss, Line, Kinds, Nothing, LastTaken, IsStored, InPipe

(* The keys file is read once: no step changes what HostOf answers.        *)
LEMMA HostFixed ==
  ASSUME UNCHANGED file PROVE HostOf(Key, Host)' = HostOf(Key, Host)
  BY SMTT(30) DEF HostOf, Load, Lines, Refused

(* A sequence that has lost its first line.                                *)
LEMMA TailFacts ==
  ASSUME NEW S, NEW s \in Seq(S), s # <<>>
  PROVE  /\ Head(s) \in S /\ Tail(s) \in Seq(S) /\ Len(s) > 0
         /\ Len(Tail(s)) = Len(s) - 1
         /\ Head(s) = s[1] /\ 1 \in DOMAIN s
         /\ \A i \in DOMAIN Tail(s) : Tail(s)[i] = s[i + 1] /\ i + 1 \in DOMAIN s
         /\ \A i \in DOMAIN s : i = 1 \/ (i - 1 \in DOMAIN Tail(s) /\ Tail(s)[i - 1] = s[i])
  BY SMTT(30)

(* The ids on the server's side are numbers.                               *)
LEMMA Numbers ==
  ASSUME Types
  PROVE  /\ LastTaken \in Int
         /\ \A r \in inbox : r.id \in Nat
         /\ \A i \in DOMAIN stored : /\ stored[i].rec.id \in Nat
                                     /\ stored[i].host = HostOf(Key, Host)
<1>1. \A i \in DOMAIN stored : stored[i] \in Filed
  BY SMTT(30) DEF Types
<1>2. \A f \in Filed : f.rec.id \in Nat /\ f.host = HostOf(Key, Host)
  BY DEF Filed, Line
<1> QED
  BY SMTT(30), <1>1, <1>2 DEF Types, LastTaken, Line

(* What neither ships, handles nor answers changes nothing here.           *)
LEMMA IdleDInv ==
  ASSUME DInv, UNCHANGED <<file, emitted, pipe, ship, inhand, reply, inbox, stored, since>>
  PROVE  DInv'
<1>1. HostOf(Key, Host)' = HostOf(Key, Host)
  BY HostFixed
<1> QED
  BY <1>1 DEF DInv, Types, InOrder, Taken, Once, Acknowledged, Known, NoSilentLoss,
              Filed, LastTaken, IsStored, InPipe

(* A record that is written has the next id.                               *)
LEMMA EmitDInv ==
  ASSUME DInv, NEW kind \in Kinds, Emit(kind) PROVE DInv'
<1>1. CASE ship = "down"
  BY <1>1, IdleDInv DEF Emit
<1>2. CASE ship # "down"
  <2> DEFINE new == [id |-> emitted + 1, kind |-> kind]
  <2>1. /\ emitted' = emitted + 1 /\ pipe' = Append(pipe, new)
        /\ UNCHANGED <<file, ship, inhand, reply, inbox, stored, since>>
    BY <1>2 DEF Emit
  <2>2. HostOf(Key, Host)' = HostOf(Key, Host)
    BY <2>1, HostFixed
  <2>3. new \in Line /\ new.id = emitted + 1
    BY SMTT(30) DEF DInv, Types, Line
  <2> HIDE DEF new
  <2>4. /\ pipe' \in Seq(Line) /\ Len(pipe') = Len(pipe) + 1
        /\ \A i \in DOMAIN pipe : i \in DOMAIN pipe' /\ pipe'[i] = pipe[i]
        /\ Len(pipe') \in DOMAIN pipe' /\ pipe'[Len(pipe')] = new
        /\ \A i \in DOMAIN pipe' : i \in DOMAIN pipe \/ i = Len(pipe')
    BY SMTT(30), <2>1, <2>3 DEF DInv, Types
  <2>5. LastTaken' = LastTaken
    BY SMTT(30), <2>1, <2>4 DEF LastTaken, DInv, Types
  <2>6. Types'
    BY SMTT(30), <2>1, <2>2, <2>4 DEF DInv, Types, Filed
  <2>7. InOrder'
    BY SMTT(30), <2>1, <2>3, <2>4, <2>5 DEF DInv, Types, InOrder, LastTaken
  <2>8. Taken' /\ Once' /\ Acknowledged' /\ Known'
    BY <2>1, <2>2, <2>5 DEF DInv, Taken, Once, Acknowledged, Known, IsStored
  <2>9. NoSilentLoss'
    <3> SUFFICES ASSUME NEW n \in (since + 1)..(emitted + 1)
                 PROVE  InPipe(n)' \/ inhand.id = n \/ IsStored(n)
      BY <2>1 DEF NoSilentLoss, IsStored
    <3>1. CASE n = emitted + 1
      BY <2>3, <2>4, <3>1 DEF InPipe
    <3>2. CASE n # emitted + 1
      <4>1. n \in (since + 1)..emitted
        BY SMTT(30), <3>2 DEF DInv, Types
      <4>2. InPipe(n) \/ inhand.id = n \/ IsStored(n)
        BY <1>2, <4>1 DEF DInv, NoSilentLoss
      <4>3. InPipe(n) => InPipe(n)'
        BY <2>4 DEF InPipe
      <4> QED
        BY <4>2, <4>3
    <3> QED
      BY <3>1, <3>2
  <2> QED
    BY <2>6, <2>7, <2>8, <2>9 DEF DInv
<1> QED
  BY <1>1, <1>2

(* The service starts again with an empty pipe.                            *)
LEMMA RestartDInv == ASSUME DInv, Restart PROVE DInv'
<1>1. /\ ship' = "reading" /\ inhand' = Nothing /\ reply' = "none" /\ pipe' = <<>>
      /\ since' = emitted /\ UNCHANGED <<file, emitted, inbox, stored>>
  BY DEF Restart
<1>2. HostOf(Key, Host)' = HostOf(Key, Host)
  BY <1>1, HostFixed
<1>3. LastTaken \in Nat /\ LastTaken <= emitted /\ LastTaken' = emitted
  BY SMTT(30), <1>1 DEF LastTaken, DInv, Types, InOrder
<1>4. Types'
  BY SMTT(30), <1>1, <1>2 DEF DInv, Types, Filed, Nothing, Line, Kinds
<1>5. InOrder'
  BY SMTT(30), <1>1 DEF DInv, Types, InOrder
<1>6. Taken'
  BY SMTT(30), <1>1, <1>3, Numbers DEF Taken, DInv, Types
<1>7. Once' /\ Acknowledged' /\ Known'
  BY <1>1, <1>2 DEF DInv, Once, Acknowledged, Known, IsStored
<1>8. NoSilentLoss'
  BY SMTT(30), <1>1 DEF DInv, Types, NoSilentLoss
<1> QED
  BY <1>4, <1>5, <1>6, <1>7, <1>8 DEF DInv

(* A line that is read is the oldest in the pipe.                          *)
LEMMA ReadFacts ==
  ASSUME DInv, pipe # <<>>, pipe' = Tail(pipe), emitted' = emitted
  PROVE  /\ Head(pipe) \in Line /\ pipe' \in Seq(Line)
         /\ LastTaken' = LastTaken + 1 /\ Head(pipe).id = LastTaken'
         /\ InOrder'
         /\ \A n : InPipe(n) => n = LastTaken' \/ InPipe(n)'
<1> pipe \in Seq(Line)
  BY DEF DInv, Types
<1>1. /\ Head(pipe) \in Line /\ pipe' \in Seq(Line) /\ Len(pipe) > 0
      /\ Len(pipe') = Len(pipe) - 1
      /\ Head(pipe) = pipe[1] /\ 1 \in DOMAIN pipe
      /\ \A i \in DOMAIN pipe' : pipe'[i] = pipe[i + 1] /\ i + 1 \in DOMAIN pipe
      /\ \A i \in DOMAIN pipe :
           i = 1 \/ (i - 1 \in DOMAIN pipe' /\ pipe'[i - 1] = pipe[i])
  BY TailFacts
<1>2. LastTaken' = LastTaken + 1 /\ LastTaken \in Int
  BY SMTT(30), <1>1 DEF LastTaken, DInv, Types
<1>3. Head(pipe).id = LastTaken'
  BY <1>1, <1>2 DEF DInv, InOrder
<1>4. InOrder'
  <2>1. Len(pipe') <= emitted'
    BY SMTT(30), <1>1 DEF DInv, Types, InOrder
  <2>2. ASSUME NEW i \in DOMAIN pipe' PROVE pipe'[i].id = LastTaken' + i
    <3>1. pipe'[i].id = LastTaken + (i + 1)
      BY <1>1 DEF DInv, InOrder
    <3>2. i \in Int
      BY SMTT(30), <1>1
    <3> QED
      BY SMTT(30), <1>2, <3>1, <3>2
  <2> QED
    BY <2>1, <2>2 DEF InOrder
<1>5. \A n : InPipe(n) => n = LastTaken' \/ InPipe(n)'
  BY SMTT(30), <1>1, <1>3 DEF InPipe
<1> QED
  BY <1>1, <1>2, <1>3, <1>4, <1>5

(* The request that is posted is new to the server.                        *)
LEMMA PostDInv == ASSUME DInv, Post PROVE DInv'
<1> DEFINE r == Head(pipe)
<1>1. /\ ship = "reading" /\ pipe # <<>> /\ pipe' = Tail(pipe) /\ inhand' = r
      /\ ship' = "waiting" /\ inbox' = inbox \cup {r}
      /\ UNCHANGED <<file, emitted, reply, stored, since>>
  BY DEF Post
<1>2. HostOf(Key, Host)' = HostOf(Key, Host)
  BY <1>1, HostFixed
<1>3. /\ r \in Line /\ pipe' \in Seq(Line)
      /\ LastTaken' = LastTaken + 1 /\ r.id = LastTaken'
      /\ InOrder'
      /\ \A n : InPipe(n) => n = LastTaken' \/ InPipe(n)'
  BY <1>1, ReadFacts
<1> HIDE DEF r
<1>4. Types'
  BY <1>1, <1>2, <1>3 DEF DInv, Types, Filed
<1>5. /\ LastTaken \in Int
      /\ \A q \in inbox : q.id \in Nat /\ q.id <= LastTaken
      /\ \A i \in DOMAIN stored : stored[i].rec.id \in Nat /\ stored[i].rec.id <= LastTaken
  BY Numbers DEF DInv, Taken
<1>6. Taken'
  BY SMTT(30), <1>1, <1>3, <1>5 DEF Taken
<1>7. Once'
  <2>1. \A q \in inbox : q.id # r.id
    BY SMTT(30), <1>3, <1>5
  <2>2. ~IsStored(r.id)
    BY SMTT(30), <1>3, <1>5 DEF IsStored
  <2> QED
    BY <1>1, <2>1, <2>2 DEF DInv, Once, IsStored
<1>8. Acknowledged' /\ Known'
  BY <1>1, <1>2 DEF DInv, Acknowledged, Known
<1>9. NoSilentLoss'
  <2> SUFFICES ASSUME NEW n \in (since + 1)..emitted
               PROVE  InPipe(n)' \/ r.id = n \/ IsStored(n)
    BY <1>1 DEF NoSilentLoss, IsStored
  <2>1. InPipe(n) \/ inhand.id = n \/ IsStored(n)
    BY <1>1 DEF DInv, NoSilentLoss
  <2>2. inhand.id # n
    BY SMTT(30), <1>1 DEF DInv, Types, Acknowledged, Nothing
  <2> QED
    BY <1>3, <2>1, <2>2
<1> QED
  BY <1>3, <1>4, <1>6, <1>7, <1>8, <1>9 DEF DInv

(* A line that cannot be posted ends the shipper.                          *)
LEMMA PostFailsDInv == ASSUME DInv, PostFails PROVE DInv'
<1>1. /\ ship = "reading" /\ pipe # <<>> /\ pipe' = Tail(pipe) /\ ship' = "down"
      /\ UNCHANGED <<file, emitted, inhand, reply, inbox, stored, since>>
  BY DEF PostFails
<1>2. HostOf(Key, Host)' = HostOf(Key, Host)
  BY <1>1, HostFixed
<1>3. pipe' \in Seq(Line) /\ LastTaken' = LastTaken + 1 /\ InOrder'
  BY <1>1, ReadFacts
<1>4. Types'
  BY <1>1, <1>2, <1>3 DEF DInv, Types, Filed
<1>5. Taken'
  BY SMTT(30), <1>1, <1>3, Numbers DEF DInv, Taken
<1>6. Once' /\ Acknowledged' /\ Known' /\ NoSilentLoss'
  BY <1>1, <1>2 DEF DInv, Once, Acknowledged, Known, NoSilentLoss, IsStored
<1> QED
  BY <1>3, <1>4, <1>5, <1>6 DEF DInv

(* The record in hand is let go of only when it is filed, or with the      *)
(* shipper.                                                                *)
LEMMA AnsweredDInv == ASSUME DInv, ReadReply \/ ReplyLost PROVE DInv'
<1>1. /\ ship = "waiting" /\ inhand' = Nothing /\ reply' = "none"
      /\ (ship' = "reading" /\ reply = "200") \/ ship' = "down"
      /\ UNCHANGED <<file, emitted, pipe, inbox, stored, since>>
  BY DEF ReadReply, ReplyLost
<1>2. HostOf(Key, Host)' = HostOf(Key, Host)
  BY <1>1, HostFixed
<1>3. Types'
  BY <1>1, <1>2 DEF DInv, Types, Filed, Nothing, Line, Kinds
<1>4. InOrder' /\ Taken' /\ Once' /\ Acknowledged' /\ Known'
  BY <1>1, <1>2 DEF DInv, InOrder, Taken, Once, Acknowledged, Known, LastTaken, IsStored
<1>5. NoSilentLoss'
  <2> SUFFICES ASSUME ship' # "down", NEW n \in (since + 1)..emitted
               PROVE  InPipe(n) \/ IsStored(n)
    BY <1>1 DEF NoSilentLoss, IsStored, InPipe
  <2>1. IsStored(inhand.id)
    BY <1>1 DEF DInv, Acknowledged
  <2>2. InPipe(n) \/ inhand.id = n \/ IsStored(n)
    BY <1>1 DEF DInv, NoSilentLoss
  <2> QED
    BY <2>1, <2>2
<1> QED
  BY <1>3, <1>4, <1>5 DEF DInv

(* A request that is lost or turned away is not answered with 200.         *)
LEMMA DroppedDInv ==
  ASSUME DInv, NEW r \in inbox, RequestLost(r) \/ Turned(r) PROVE DInv'
<1>1. /\ inbox' = inbox \ {r}
      /\ reply' = reply \/ (ship = "waiting" /\ reply' \in {"401", "413"})
      /\ UNCHANGED <<file, emitted, pipe, ship, inhand, stored, since>>
  BY DEF RequestLost, Turned, Answer
<1>2. HostOf(Key, Host)' = HostOf(Key, Host)
  BY <1>1, HostFixed
<1>3. Types' /\ InOrder' /\ Taken' /\ Once' /\ Known' /\ NoSilentLoss'
  BY <1>1, <1>2 DEF DInv, Types, Filed, InOrder, Taken, Once, Known, LastTaken, IsStored,
                    InPipe, NoSilentLoss
<1>4. Acknowledged'
  BY <1>1 DEF DInv, Acknowledged, IsStored
<1> QED
  BY <1>3, <1>4 DEF DInv

(* A record that is filed leaves the inbox with the same step.             *)
LEMMA IngestDInv == ASSUME DInv, NEW r \in inbox, Ingest(r) PROVE DInv'
<1> DEFINE new == [rec |-> r, host |-> HostOf(Key, Host)]
<1>1. /\ HostOf(Key, Host) # NoHost /\ inbox' = inbox \ {r}
      /\ stored' = Append(stored, new)
      /\ reply' = reply \/ (ship = "waiting" /\ r = inhand)
      /\ UNCHANGED <<file, emitted, pipe, ship, inhand, since>>
  BY DEF Ingest, Answer
<1>2. HostOf(Key, Host)' = HostOf(Key, Host)
  BY <1>1, HostFixed
<1>3. new \in Filed /\ new.rec = r /\ Filed' = Filed
  BY <1>2 DEF DInv, Types, Filed
<1> HIDE DEF new
<1>4. /\ stored' \in Seq(Filed) /\ Len(stored') = Len(stored) + 1
      /\ \A i \in DOMAIN stored : i \in DOMAIN stored' /\ stored'[i] = stored[i]
      /\ Len(stored') \in DOMAIN stored' /\ stored'[Len(stored')] = new
      /\ \A i \in DOMAIN stored' : i \in DOMAIN stored \/ i = Len(stored')
  BY SMTT(30), <1>1, <1>3 DEF DInv, Types
<1>5. /\ \A n : IsStored(n) => IsStored(n)'
      /\ \A n : IsStored(n)' => IsStored(n) \/ n = r.id
      /\ IsStored(r.id)'
  BY <1>3, <1>4 DEF IsStored
<1>6. Types'
  BY <1>1, <1>3, <1>4 DEF DInv, Types
<1>7. InOrder'
  BY <1>1 DEF DInv, InOrder, LastTaken
<1>8. Taken'
  BY <1>1, <1>3, <1>4 DEF DInv, Taken, LastTaken
<1>9. Once'
  <2>1. \A p, q \in inbox' : p.id = q.id => p = q
    BY <1>1 DEF DInv, Once
  <2>2. \A q \in inbox' : ~IsStored(q.id)'
    BY <1>1, <1>5 DEF DInv, Once
  <2>3. \A i \in DOMAIN stored : stored[i].rec.id # r.id
    BY DEF DInv, Once, IsStored
  <2>4. \A i, j \in DOMAIN stored' : stored'[i].rec.id = stored'[j].rec.id => i = j
    BY SMTT(30), <1>3, <1>4, <2>3 DEF DInv, Once
  <2> QED
    BY <2>1, <2>2, <2>4 DEF Once
<1>10. Acknowledged'
  BY <1>1, <1>5 DEF DInv, Acknowledged
<1>11. Known'
  BY <1>1, <1>2 DEF Known
<1>12. NoSilentLoss'
  <2>1. \A n : InPipe(n)' <=> InPipe(n)
    BY <1>1 DEF InPipe
  <2> QED
    BY <1>1, <1>5, <2>1 DEF DInv, NoSilentLoss
<1> QED
  BY <1>6, <1>7, <1>8, <1>9, <1>10, <1>11, <1>12 DEF DInv

(* Every step of the shipper, the server or the dispatcher keeps it.      *)
LEMMA NextDInv == DInv /\ [DeliveryNext]_vars => DInv'
<1> SUFFICES ASSUME DInv, [DeliveryNext]_vars PROVE DInv'
  OBVIOUS
<1>1. ASSUME NEW kind \in Kinds, Emit(kind) PROVE DInv'
  BY <1>1, EmitDInv
<1>2. CASE Quit
  BY <1>2, IdleDInv DEF Quit
<1>3. CASE Restart
  BY <1>3, RestartDInv
<1>4. CASE Post
  BY <1>4, PostDInv
<1>5. CASE PostFails
  BY <1>5, PostFailsDInv
<1>6. CASE ReadReply \/ ReplyLost
  BY <1>6, AnsweredDInv
<1>7. ASSUME NEW r \in inbox, RequestLost(r) \/ Turned(r) PROVE DInv'
  BY <1>7, DroppedDInv
<1>8. ASSUME NEW r \in inbox, Ingest(r) PROVE DInv'
  BY <1>8, IngestDInv
<1>9. CASE UNCHANGED svars
  BY <1>9, IdleDInv DEF svars
<1> QED
  BY <1>1, <1>2, <1>3, <1>4, <1>5, <1>6, <1>7, <1>8, <1>9
     DEF DeliveryNext, ShipperStep, vars

-----------------------------------------------------------------------------

(* The invariant of the way from the pipe to the store.                    *)
THEOREM DeliveryInvariant == DeliverySpec => []DInv
  BY InitDInv, NextDInv, PTL DEF DeliverySpec

(* While the shipper runs, a record the agent has written is in the pipe,  *)
(* in the shipper's hands or filed (ship() and its handling of replies).   *)
THEOREM NothingLostSilently == DeliverySpec => []NoSilentLoss
<1>1. DInv => NoSilentLoss
  BY DEF DInv
<1> QED
  BY <1>1, DeliveryInvariant, PTL

(* No record is filed twice, whichever answers are lost (ship() ends, it   *)
(* does not post again).                                                   *)
THEOREM FiledOnce == DeliverySpec => []StoredOnce
<1>1. DInv => StoredOnce
  BY DEF DInv, Once, StoredOnce
<1> QED
  BY <1>1, DeliveryInvariant, PTL

(* What a key wrote is filed under the host of every line of the keys file *)
(* that has the key (AgentKeys::load and resolve), whatever the file says. *)
THEOREM KeysDecide == DeliverySpec => []FiledUnderOwner
<1>1. DInv => FiledUnderOwner
  <2> SUFFICES ASSUME DInv, NEW i \in DOMAIN stored, file # NoFile,
                      NEW l \in Lines(file), l[2] = Key
               PROVE  stored[i].host = l[1]
    BY DEF FiledUnderOwner
  <2>1. stored[i].host = HostOf(Key, Host) /\ HostOf(Key, Host) # NoHost
    BY SMTT(30), Numbers DEF DInv, Known, Types
  <2>2. Key \in DOMAIN Load(file) /\ HostOf(Key, Host) = Load(file)[Key]
    BY <2>1 DEF HostOf
  <2>3. /\ \A j, k \in DOMAIN file.lines : j # k => file.lines[j][2] # file.lines[k][2]
        /\ Load(file)[Key] = (CHOOSE q \in Lines(file) : q[2] = Key)[1]
    BY <2>2 DEF Load, Refused
  <2>4. \A q \in Lines(file) : q[2] = Key => q = l
    BY <2>3 DEF Lines
  <2>5. (CHOOSE q \in Lines(file) : q[2] = Key) = l
    BY <2>4
  <2> QED
    BY <2>1, <2>2, <2>3, <2>5
<1> QED
  BY <1>1, DeliveryInvariant, PTL

-----------------------------------------------------------------------------
(* The dispatcher.  An alert is counted once, and only once it is off the  *)
(* queue: every alert is raised by one request (Raised), and is then in one*)
(* place, the queue or the dispatcher's hands (Waiting).                   *)

Fates == {"new", "ignored", "full", "queued", "delivered", "suppressed", "summarised"}

Uncounted == {a \in Alerts : fate[a] = "suppressed"}

Raised ==
  /\ emitted <= MaxRecords /\ \A r \in inbox : r.id >= 1
  /\ \A a \in Alerts : fate[a] # "new" => IsStored(a)

Waiting ==
  /\ fate \in [Alerts -> Fates] /\ queue \in Seq(Alerts)
  /\ \A i \in DOMAIN queue : fate[queue[i]] = "queued"
  /\ \A i, j \in DOMAIN queue : queue[i] = queue[j] => i = j
  /\ job \in {"idle", "summary", "alert"}
  /\ job # "idle" => /\ held \in Alerts /\ fate[held] = "queued"
                     /\ \A i \in DOMAIN queue : queue[i] # held

Counted == suppressed \in Nat /\ IsFiniteSet(Uncounted) /\ SuppressedCounted

(* The deliveries before the current rate window began no later than it,   *)
(* and those before the last window, which are all but MaxPerMin of them,  *)
(* a whole window ago.                                                     *)
Rate ==
  LET before == Len(sent) - inWindow
  IN  /\ sent \in Seq(0..Window) /\ age \in 0..Window
      /\ inWindow \in 0..Len(sent)
      /\ job = "summary" => age = Window
      /\ \A i \in 1..before : sent[i] >= age
      /\ MaxPerMin > 0 => /\ inWindow <= MaxPerMin
                          /\ \A i \in 1..(before - MaxPerMin) : sent[i] >= Window

(* The summaries before the current window began no later than it, and all *)
(* but the last a whole window ago.                                        *)
Told ==
  /\ told \in Seq(0..Window) /\ age \in 0..Window
  /\ \A i \in DOMAIN told : i < Len(told) => told[i] >= Window
  /\ job # "summary" => \A i \in DOMAIN told : told[i] >= age

NInv == Raised /\ Waiting /\ Counted /\ Rate /\ Told

(* It holds at the start.                                                  *)
LEMMA InitNInv == DeliveryInit => NInv
<1> SUFFICES ASSUME DeliveryInit PROVE NInv
  OBVIOUS
<1>1. /\ queue = <<>> /\ job = "idle" /\ age = 0 /\ inWindow = 0 /\ suppressed = 0
      /\ fate = [a \in Alerts |-> "new"] /\ sent = <<>> /\ told = <<>>
      /\ emitted = 0 /\ inbox = {}
  BY DEF DeliveryInit, ShipperInit, NotifierInit
<1>2. Uncounted = {}
  BY <1>1 DEF Uncounted
<1>3. Counted
  BY <1>1, <1>2, FS_EmptySet DEF Counted, SuppressedCounted, Uncounted
<1>4. Raised /\ Waiting
  BY SMTT(30), <1>1, ShipperConstants DEF Raised, Waiting, Fates
<1>5. Rate
  BY SMTT(30), <1>1, NotifierConstants DEF Rate
<1>6. Told
  BY SMTT(30), <1>1, NotifierConstants DEF Told
<1> QED
  BY <1>3, <1>4, <1>5, <1>6 DEF NInv

(* What a sequence holds.                                                  *)
LEMMA SeqElements ==
  ASSUME NEW S, NEW s \in Seq(S)
  PROVE  DOMAIN s = 1..Len(s) /\ \A i \in DOMAIN s : s[i] \in S
  BY SMTT(30)

(* The rate limit on an alert in hand, in the current window or in one     *)
(* that has just begun.                                                    *)
LEMMA LimitRate ==
  ASSUME Rate, NEW a, NEW used, NEW missed, Limit(a, used, missed),
         \/ used = inWindow /\ age' = age
         \/ used = 0 /\ age' = 0 /\ age = Window
  PROVE  Rate'
<1> DEFINE n == Len(sent) - used
<1>1. MaxPerMin \in Nat /\ Window \in Nat
  BY NotifierConstants
<1>2. /\ sent \in Seq(0..Window) /\ Len(sent) \in Nat /\ inWindow \in 0..Len(sent)
      /\ age \in 0..Window /\ DOMAIN sent = 1..Len(sent)
  BY SMTT(30) DEF Rate
<1>3. \A i \in 1..Len(sent) : sent[i] \in 0..Window
  BY <1>2, SeqElements
<1>4. used \in 0..Len(sent) /\ age' \in 0..Window /\ \A i \in 1..n : sent[i] >= age'
  <2>1. \A i \in 1..(Len(sent) - inWindow) : sent[i] >= age
    BY DEF Rate
  <2> QED
    BY SMTT(30), <1>1, <1>2, <1>3, <2>1
<1>5. ASSUME MaxPerMin > 0
      PROVE  used <= MaxPerMin /\ \A i \in 1..(n - MaxPerMin) : sent[i] >= Window
  <2>1. /\ inWindow <= MaxPerMin /\ \A i \in 1..(Len(sent) - inWindow) : sent[i] >= age
        /\ \A i \in 1..(Len(sent) - inWindow - MaxPerMin) : sent[i] >= Window
    BY <1>5 DEF Rate
  <2> QED
    BY SMTT(30), <1>1, <1>2, <1>5, <2>1
<1>6. CASE MaxPerMin > 0 /\ used >= MaxPerMin
  <2>1. sent' = sent /\ inWindow' = used /\ job' = "idle"
    BY <1>6 DEF Limit
  <2> QED
    BY <2>1, <1>2, <1>4, <1>5 DEF Rate
<1>7. CASE ~(MaxPerMin > 0 /\ used >= MaxPerMin)
  <2>1. sent' = Append(sent, 0) /\ inWindow' = used + 1 /\ job' = "alert"
    BY <1>7 DEF Limit
  <2>2. /\ sent' \in Seq(0..Window) /\ Len(sent') = Len(sent) + 1
        /\ \A i \in 1..Len(sent) : sent'[i] = sent[i]
    BY SMTT(30), <2>1, <1>1, <1>2
  <2>3. Len(sent') - inWindow' = n /\ inWindow' \in 0..Len(sent') /\ n <= Len(sent)
    BY SMTT(30), <2>1, <2>2, <1>2, <1>4
  <2>4. \A i \in 1..n : sent'[i] = sent[i]
    <3>1. \A i \in 1..n : i \in 1..Len(sent)
      BY SMTT(30), <2>3, <1>2, <1>4
    <3> QED
      BY <2>2, <3>1
  <2>5. MaxPerMin > 0 => inWindow' <= MaxPerMin
    BY SMTT(30), <2>1, <1>1, <1>2, <1>4, <1>7
  <2>6. ASSUME MaxPerMin > 0, NEW i \in 1..(n - MaxPerMin) PROVE sent'[i] >= Window
    <3>1. i \in 1..n
      BY SMTT(30), <2>6, <1>1, <1>2, <1>4
    <3> QED
      BY <3>1, <2>4, <2>6, <1>5
  <2>7. \A i \in 1..n : sent'[i] >= age'
    BY <2>4, <1>4
  <2> HIDE DEF n
  <2> QED
    BY <2>1, <2>2, <2>3, <2>5, <2>6, <2>7, <1>4 DEF Rate
<1> QED
  BY <1>6, <1>7

(* Time passes for the window and for the deliveries alike.                *)
LEMMA TickRate == ASSUME Rate, WindowTick PROVE Rate'
<1>1. MaxPerMin \in Nat /\ Window \in Nat
  BY NotifierConstants
<1>2. /\ sent \in Seq(0..Window) /\ Len(sent) \in Nat /\ inWindow \in 0..Len(sent)
      /\ age \in 0..Window /\ DOMAIN sent = 1..Len(sent)
  BY SMTT(30) DEF Rate
<1>3. /\ age' = Older(age) /\ sent' = [i \in 1..Len(sent) |-> Older(sent[i])]
      /\ inWindow' = inWindow /\ job' = job
  BY <1>2 DEF WindowTick
<1>4. \A t \in 0..Window : /\ Older(t) \in 0..Window /\ Older(t) >= t
                           /\ \A u \in 0..Window : t <= u => Older(t) <= Older(u)
  BY SMTT(30), <1>1 DEF Older
<1>5. \A i \in 1..Len(sent) : sent[i] \in 0..Window
  BY <1>2, SeqElements
<1>6. /\ sent' \in Seq(0..Window) /\ Len(sent') = Len(sent)
      /\ \A i \in 1..Len(sent) : sent'[i] = Older(sent[i])
  BY SMTT(30), <1>2, <1>3, <1>4, <1>5
<1>7. age' \in 0..Window /\ (job' = "summary" => age' = Window)
  BY SMTT(30), <1>1, <1>2, <1>3, <1>4 DEF Rate, Older
<1>8. \A i \in 1..(Len(sent) - inWindow) : sent'[i] >= age'
  <2>1. \A i \in 1..(Len(sent) - inWindow) : i \in 1..Len(sent) /\ sent[i] >= age
    BY SMTT(30), <1>2 DEF Rate
  <2> QED
    BY <2>1, <1>1, <1>2, <1>3, <1>4, <1>5, <1>6
<1>9. ASSUME MaxPerMin > 0
      PROVE  \A i \in 1..(Len(sent) - inWindow - MaxPerMin) : sent'[i] >= Window
  <2>1. \A i \in 1..(Len(sent) - inWindow - MaxPerMin) :
          i \in 1..Len(sent) /\ sent[i] >= Window
    BY SMTT(30), <1>1, <1>2, <1>9 DEF Rate
  <2>2. ASSUME NEW i \in 1..Len(sent), sent[i] >= Window PROVE sent'[i] >= Window
    <3>1. sent[i] \in 0..Window /\ sent'[i] = Older(sent[i])
      BY <1>5, <1>6
    <3> QED
      BY SMTT(30), <1>1, <2>2, <3>1 DEF Older
  <2> QED
    BY <2>1, <2>2
<1>10. MaxPerMin > 0 => inWindow <= MaxPerMin
  BY DEF Rate
<1> QED
  BY <1>2, <1>3, <1>6, <1>7, <1>8, <1>9, <1>10 DEF Rate

(* A step of the dispatcher that begins no summary, in the current window  *)
(* or as a new one begins.                                                 *)
LEMMA SameTold ==
  ASSUME Told, told' = told, job' # "summary",
         (age' = age /\ job # "summary") \/ age' = 0
  PROVE  Told'
<1>1. Window \in Nat /\ told \in Seq(0..Window) /\ age \in 0..Window
  BY NotifierConstants DEF Told
<1>2. \A i \in DOMAIN told : told[i] \in 0..Window
  BY SMTT(30), <1>1
<1>3. age' \in 0..Window
  BY SMTT(30), <1>1
<1>4. \A i \in DOMAIN told : told[i] >= age'
  <2>1. CASE age' = age /\ job # "summary"
    BY <2>1 DEF Told
  <2>2. CASE age' = 0
    BY SMTT(30), <1>1, <1>2, <2>2
  <2> QED
    BY <2>1, <2>2
<1> QED
  BY <1>3, <1>4 DEF Told

(* A summary begins: the window is over, so the one before is as old.      *)
LEMMA SummaryTold ==
  ASSUME Told, job # "summary", age = Window, told' = Append(told, 0),
         age' = age, job' = "summary"
  PROVE  Told'
<1>1. Window \in Nat /\ told \in Seq(0..Window) /\ Len(told) \in Nat
  BY SMTT(30), NotifierConstants DEF Told
<1>2. /\ told' \in Seq(0..Window) /\ Len(told') = Len(told) + 1
      /\ DOMAIN told' = 1..(Len(told) + 1) /\ DOMAIN told = 1..Len(told)
      /\ \A i \in 1..Len(told) : told'[i] = told[i]
  BY SMTT(30), <1>1
<1>3. \A i \in 1..Len(told) : told[i] >= Window
  BY <1>2 DEF Told
<1>4. \A i \in DOMAIN told' : i < Len(told') => i \in 1..Len(told)
  BY SMTT(30), <1>1, <1>2
<1>5. \A i \in DOMAIN told' : i < Len(told') => told'[i] >= Window
  BY <1>2, <1>3, <1>4
<1> QED
  BY <1>2, <1>5 DEF Told

(* Time passes for the summaries too.                                      *)
LEMMA TickTold == ASSUME Told, WindowTick PROVE Told'
<1>1. /\ Window \in Nat /\ told \in Seq(0..Window) /\ Len(told) \in Nat
      /\ age \in 0..Window /\ DOMAIN told = 1..Len(told)
  BY SMTT(30), NotifierConstants DEF Told
<1>2. /\ age' = Older(age) /\ told' = [i \in 1..Len(told) |-> Older(told[i])] /\ job' = job
  BY <1>1 DEF WindowTick
<1>3. \A i \in 1..Len(told) : told[i] \in 0..Window
  BY <1>1, SeqElements
<1>4. \A t \in 0..Window :
        /\ Older(t) \in 0..Window /\ (t >= Window => Older(t) >= Window)
        /\ \A u \in 0..Window : u >= t => Older(u) >= Older(t)
  BY SMTT(30), <1>1 DEF Older
<1>5. /\ told' \in Seq(0..Window) /\ Len(told') = Len(told) /\ DOMAIN told' = 1..Len(told)
      /\ \A i \in 1..Len(told) : told'[i] = Older(told[i])
  BY SMTT(30), <1>1, <1>2, <1>3, <1>4
<1>6. age' \in 0..Window
  BY <1>1, <1>2, <1>4
<1>7. \A i \in DOMAIN told' : i < Len(told') => told'[i] >= Window
  BY <1>1, <1>3, <1>4, <1>5 DEF Told
<1>8. job' # "summary" => \A i \in DOMAIN told' : told'[i] >= age'
  BY <1>1, <1>2, <1>3, <1>4, <1>5 DEF Told
<1> QED
  BY <1>5, <1>6, <1>7, <1>8 DEF Told

(* An alert in hand is suppressed and counted, or its delivery begins.     *)
LEMMA LimitCounts ==
  ASSUME Waiting, Counted, NEW a \in Alerts, fate[a] = "queued", NEW used,
         NEW summarised \in BOOLEAN, NEW missed,
         missed = IF summarised THEN 0 ELSE suppressed,
         Limit(a, used, missed), fate' = FateAfter(a, summarised),
         queue' \in Seq(Alerts),
         \A i \in DOMAIN queue' : fate[queue'[i]] = "queued" /\ queue'[i] # a,
         \A i, j \in DOMAIN queue' : queue'[i] = queue'[j] => i = j
  PROVE  Waiting' /\ Counted' /\ \A b \in Alerts : fate'[b] # "new" => fate[b] # "new"
<1>1. \/ job' = "idle" /\ suppressed' = missed + 1
      \/ job' = "alert" /\ suppressed' = missed /\ held' = a
  BY DEF Limit
<1>2. /\ fate \in [Alerts -> Fates]
      /\ fate' = [b \in Alerts |->
                    IF b = a THEN IF job' = "idle" THEN "suppressed" ELSE "queued"
                    ELSE IF summarised /\ fate[b] = "suppressed" THEN "summarised"
                    ELSE fate[b]]
  BY DEF Waiting, FateAfter
<1>3. /\ fate' \in [Alerts -> Fates]
      /\ fate'[a] = IF job' = "idle" THEN "suppressed" ELSE "queued"
      /\ \A b \in Alerts \ {a} : fate[b] = "queued" => fate'[b] = "queued"
      /\ \A b \in Alerts : fate'[b] # "new" => fate[b] # "new"
  BY SMTT(30), <1>2 DEF Fates
<1>4. Waiting'
  <2>1. \A i \in DOMAIN queue' : queue'[i] \in Alerts
    BY SeqElements
  <2>2. \A i \in DOMAIN queue' : fate'[queue'[i]] = "queued"
    BY <1>3, <2>1
  <2> QED
    BY <1>1, <1>3, <2>2 DEF Waiting
<1>5. Counted'
  <2> DEFINE rest == IF summarised THEN {} ELSE Uncounted
  <2>1. IsFiniteSet(rest) /\ Cardinality(rest) = missed /\ missed \in Nat /\ a \notin rest
    BY FS_EmptySet DEF Counted, SuppressedCounted, Uncounted
  <2>2. Uncounted' = IF job' = "idle" THEN rest \cup {a} ELSE rest
    BY <1>2, <1>3 DEF Uncounted
  <2> HIDE DEF rest
  <2>3. IsFiniteSet(rest \cup {a}) /\ Cardinality(rest \cup {a}) = missed + 1
    BY <2>1, FS_AddElement
  <2>4. suppressed' \in Nat /\ IsFiniteSet(Uncounted') /\ suppressed' = Cardinality(Uncounted')
    BY SMTT(30), <1>1, <2>1, <2>2, <2>3
  <2> QED
    BY <2>4 DEF Counted, SuppressedCounted, Uncounted
<1> QED
  BY <1>3, <1>4, <1>5

(* A step that neither counts nor reports an alert.                        *)
LEMMA SameCount ==
  ASSUME Counted, suppressed' = suppressed,
         \A a \in Alerts : fate'[a] = "suppressed" <=> fate[a] = "suppressed"
  PROVE  Counted'
<1>1. Uncounted' = Uncounted
  BY DEF Uncounted
<1> QED
  BY <1>1 DEF Counted, SuppressedCounted, Uncounted

(* The dispatcher's steps.                                                 *)
LEMMA DispatchNInv == ASSUME NInv, Dispatch, UNCHANGED svars PROVE NInv'
<1>1. /\ Waiting /\ Counted /\ Rate /\ Told
      /\ fate \in [Alerts -> Fates] /\ queue \in Seq(Alerts)
      /\ \A i \in DOMAIN queue : fate[queue[i]] = "queued"
      /\ \A i, j \in DOMAIN queue : queue[i] = queue[j] => i = j
  BY DEF NInv, Waiting
<1>2. ASSUME \A b \in Alerts : fate'[b] # "new" => fate[b] # "new" PROVE Raised'
  BY <1>2 DEF NInv, Raised, svars, IsStored
<1>3. ASSUME queue # <<>>
      PROVE  /\ Head(queue) \in Alerts /\ fate[Head(queue)] = "queued"
             /\ Tail(queue) \in Seq(Alerts)
             /\ \A i \in DOMAIN Tail(queue) : /\ fate[Tail(queue)[i]] = "queued"
                                              /\ Tail(queue)[i] # Head(queue)
             /\ \A i, j \in DOMAIN Tail(queue) : Tail(queue)[i] = Tail(queue)[j] => i = j
  <2>1. /\ Head(queue) \in Alerts /\ Tail(queue) \in Seq(Alerts)
        /\ Head(queue) = queue[1] /\ 1 \in DOMAIN queue
        /\ \A i \in DOMAIN Tail(queue) :
             /\ Tail(queue)[i] = queue[i + 1] /\ i + 1 \in DOMAIN queue
    BY <1>1, <1>3, TailFacts
  <2>2. \A i \in DOMAIN Tail(queue) : i \in Nat \ {0}
    BY SMTT(30), <2>1
  <2> QED
    BY SMTT(30), <1>1, <2>1, <2>2
<1> WindowOver => age = Window
  <2>1. age \in 0..Window
    BY <1>1 DEF Rate
  <2>2. Window \in Nat
    BY NotifierConstants
  <2> QED
    BY SMTT(30), <2>1, <2>2 DEF WindowOver
<1>4. CASE Receive /\ WindowOver /\ suppressed > 0
  <2>1. /\ queue # <<>> /\ queue' = Tail(queue) /\ job' = "summary" /\ held' = Head(queue)
        /\ UNCHANGED <<age, inWindow, suppressed, fate, sent>>
        /\ job = "idle" /\ told' = Append(told, 0)
    BY <1>4 DEF Receive
  <2>2. Waiting'
    BY <1>1, <1>3, <2>1 DEF Waiting
  <2>3. Rate'
    <3>1. age = Window
      BY <1>4
    <3> QED
      BY <1>1, <2>1, <3>1 DEF Rate
  <2>4. Raised' /\ Counted'
    BY <1>1, <1>2, <2>1, SameCount
  <2>5. Told'
    BY <1>1, <1>4, <2>1, SummaryTold
  <2> QED
    BY <2>2, <2>3, <2>4, <2>5 DEF NInv
<1>5. CASE Receive /\ ~(WindowOver /\ suppressed > 0)
  <2> DEFINE used == IF WindowOver THEN 0 ELSE inWindow
  <2>1. /\ queue # <<>> /\ queue' = Tail(queue)
        /\ age' = IF WindowOver THEN 0 ELSE age
        /\ Limit(Head(queue), used, suppressed)
        /\ fate' = FateAfter(Head(queue), FALSE)
        /\ job = "idle" /\ told' = told
    BY <1>5 DEF Receive
  <2>2. \/ used = inWindow /\ age' = age
        \/ used = 0 /\ age' = 0 /\ age = Window
    BY <2>1
  <2> HIDE DEF used
  <2>3. Rate'
    BY <1>1, <2>1, <2>2, LimitRate
  <2>4. Waiting' /\ Counted' /\ \A b \in Alerts : fate'[b] # "new" => fate[b] # "new"
    BY <1>1, <1>3, <2>1, LimitCounts
  <2>5. job' # "summary"
    BY <2>1 DEF Limit
  <2>6. Told'
    BY <1>1, <2>1, <2>2, <2>5, SameTold
  <2> QED
    BY <1>2, <2>3, <2>4, <2>6 DEF NInv
<1>6. CASE Summarised
  <2>1. /\ job = "summary" /\ age' = 0 /\ Limit(held, 0, 0)
        /\ fate' = FateAfter(held, TRUE) /\ queue' = queue /\ told' = told
    BY <1>6 DEF Summarised
  <2>2. held \in Alerts /\ fate[held] = "queued" /\ \A i \in DOMAIN queue : queue[i] # held
    BY <1>1, <2>1 DEF Waiting
  <2>3. Rate'
    <3>1. age = Window
      BY <1>1, <2>1 DEF Rate
    <3> QED
      BY <1>1, <2>1, <3>1, LimitRate
  <2>4. Waiting' /\ Counted' /\ \A b \in Alerts : fate'[b] # "new" => fate[b] # "new"
    BY <1>1, <2>1, <2>2, LimitCounts
  <2>5. job' # "summary"
    BY <2>1 DEF Limit
  <2>6. Told'
    BY <1>1, <2>1, <2>5, SameTold
  <2> QED
    BY <1>2, <2>3, <2>4, <2>6 DEF NInv
<1>7. CASE Delivered
  <2>1. /\ job = "alert" /\ job' = "idle" /\ fate' = [fate EXCEPT ![held] = "delivered"]
        /\ UNCHANGED <<queue, age, inWindow, suppressed, sent, told>>
    BY <1>7 DEF Delivered
  <2>2. held \in Alerts /\ fate[held] = "queued" /\ \A i \in DOMAIN queue : queue[i] # held
    BY <1>1, <2>1 DEF Waiting
  <2>3. \A i \in DOMAIN queue : queue[i] \in Alerts
    BY SMTT(30), <1>1
  <2>4. Waiting'
    BY <1>1, <2>1, <2>2, <2>3 DEF Waiting, Fates
  <2>5. Counted' /\ Raised'
    BY <1>1, <1>2, <2>1, <2>2, SameCount
  <2>6. Rate'
    BY <1>1, <2>1 DEF Rate
  <2>7. Told'
    BY <1>1, <2>1, SameTold
  <2> QED
    BY <2>4, <2>5, <2>6, <2>7 DEF NInv
<1> QED
  BY <1>4, <1>5, <1>6, <1>7 DEF Dispatch

(* The ingest handler raises an alert that was not raised before.          *)
LEMMA IngestNInv == ASSUME DInv, NInv, NEW r \in inbox, Ingest(r) PROVE NInv'
<1> DEFINE a == r.id
<1>1. /\ inbox' = inbox \ {r} /\ emitted' = emitted
      /\ stored' = Append(stored, [rec |-> r, host |-> HostOf(Key, Host)])
  BY DEF Ingest
<1>2. a \in Alerts
  <2>1. r.id >= 1 /\ r.id <= LastTaken /\ emitted <= MaxRecords
    BY DEF NInv, Raised, DInv, Taken
  <2>2. /\ r.id \in Nat /\ emitted \in Nat /\ Len(pipe) \in Nat
        /\ LastTaken = emitted - Len(pipe)
    BY SMTT(30), Numbers DEF DInv, Types, LastTaken
  <2>3. MaxRecords \in Nat
    BY ShipperConstants
  <2>4. r.id \in 1..MaxRecords
    BY SMTT(30), <2>1, <2>2, <2>3
  <2> QED
    BY <2>4, AlertsOfRecords
<1>3. (\A n : IsStored(n) => IsStored(n)') /\ IsStored(a)'
  <2>1. stored \in Seq(Filed)
    BY DEF DInv, Types
  <2>2. /\ \A i \in DOMAIN stored : i \in DOMAIN stored' /\ stored'[i] = stored[i]
        /\ Len(stored') \in DOMAIN stored' /\ stored'[Len(stored')].rec = r
    BY SMTT(30), <1>1, <2>1
  <2> QED
    BY <2>2 DEF IsStored
<1>4. fate[a] = "new" /\ fate \in [Alerts -> Fates] /\ queue \in Seq(Alerts)
  BY <1>2 DEF DInv, Once, NInv, Raised, Waiting
<1> HIDE DEF a
<1>5. CASE UNCHANGED nvars
  <2>1. Raised'
    BY <1>1, <1>3, <1>5 DEF NInv, Raised, nvars
  <2> QED
    BY <1>5, <2>1, SameCount DEF nvars, NInv, Waiting, Rate, Told
<1>6. ASSUME NEW rank \in Nat, Notify(a, rank) PROVE NInv'
  <2> DEFINE f == fate'[a]
  <2>1. /\ fate' = [fate EXCEPT ![a] = f] /\ f \in {"ignored", "queued", "full"}
        /\ \/ queue' = queue
           \/ queue' = Append(queue, a) /\ f = "queued"
        /\ UNCHANGED <<job, held, age, inWindow, suppressed, sent, told>>
    <3>1. MinRank \in Nat
      BY NotifierConstants
    <3> QED
      BY SMTT(30), <1>2, <1>4, <1>6, <3>1 DEF Notify
  <2> HIDE DEF f
  <2>2. /\ fate' \in [Alerts -> Fates] /\ fate'[a] = f
        /\ \A b \in Alerts \ {a} : fate'[b] = fate[b]
    BY <1>2, <1>4, <2>1 DEF Fates
  <2>3. Raised'
    BY <1>1, <1>3, <2>2 DEF NInv, Raised
  <2>4. Counted'
    BY <1>4, <2>1, <2>2, SameCount DEF NInv
  <2>5. Rate' /\ Told'
    BY <2>1 DEF NInv, Rate, Told
  <2>6. /\ \A i \in DOMAIN queue : queue[i] \in Alerts /\ queue[i] # a
        /\ job # "idle" => held # a
    BY SMTT(30), <1>4 DEF NInv, Waiting
  <2>7. Waiting'
    <3>1. CASE queue' = queue
      BY <2>1, <2>2, <2>6, <3>1 DEF NInv, Waiting
    <3>2. CASE queue' = Append(queue, a) /\ f = "queued"
      <4>1. /\ queue' \in Seq(Alerts)
            /\ \A i \in DOMAIN queue' : \/ i \in DOMAIN queue /\ queue'[i] = queue[i]
                                        \/ i = Len(queue) + 1 /\ queue'[i] = a
        BY SMTT(30), <1>2, <1>4, <3>2
      <4>2. \A i, j \in DOMAIN queue' : queue'[i] = queue'[j] => i = j
        BY <2>6, <4>1 DEF NInv, Waiting
      <4>3. \A i \in DOMAIN queue' : fate'[queue'[i]] = "queued"
        BY SMTT(30), <2>2, <2>6, <3>2, <4>1 DEF NInv, Waiting
      <4>4. job # "idle" => /\ held \in Alerts /\ fate'[held] = "queued"
                            /\ \A i \in DOMAIN queue' : queue'[i] # held
        BY <2>2, <2>6, <4>1 DEF NInv, Waiting
      <4> QED
        BY <2>1, <2>2, <4>1, <4>2, <4>3, <4>4 DEF NInv, Waiting
    <3> QED
      BY <2>1, <3>1, <3>2
  <2> QED
    BY <2>3, <2>4, <2>5, <2>7 DEF NInv
<1> QED
  BY <1>5, <1>6 DEF Ingest, RankOf, a

(* Every step keeps it.                                                    *)
LEMMA NextNInv == DInv /\ NInv /\ [DeliveryNext]_vars => NInv'
<1> SUFFICES ASSUME DInv, NInv, [DeliveryNext]_vars PROVE NInv'
  OBVIOUS
<1>1. ASSUME NEW r \in inbox, Ingest(r) PROVE NInv'
  BY <1>1, IngestNInv
<1>2. CASE Dispatch /\ UNCHANGED svars
  BY <1>2, DispatchNInv
<1>3. CASE WindowTick /\ UNCHANGED svars
  <2>1. UNCHANGED <<queue, job, held, inWindow, suppressed, fate>>
    BY <1>3 DEF WindowTick
  <2>2. Raised' /\ Waiting' /\ Counted'
    BY <1>3, <2>1, SameCount DEF NInv, Raised, Waiting, svars, IsStored
  <2> QED
    BY <1>3, <2>2, TickRate, TickTold DEF NInv
<1>4. ASSUME UNCHANGED <<nvars, stored>>, emitted' <= MaxRecords, \A r \in inbox' : r.id >= 1
      PROVE  NInv'
  <2>1. Raised'
    BY <1>4 DEF NInv, Raised, nvars, IsStored
  <2> QED
    BY <1>4, <2>1, SameCount DEF nvars, NInv, Waiting, Rate, Told
<1>5. CASE ShipperStep /\ UNCHANGED nvars
  <2>1. stored' = stored
    BY <1>5 DEF ShipperStep, Emit, Quit, Restart, Post, PostFails, ReadReply, ReplyLost,
                RequestLost
  <2>2. emitted' <= MaxRecords
    <3>1. emitted <= MaxRecords /\ emitted \in Nat
      BY DEF NInv, Raised, DInv, Types
    <3>2. MaxRecords \in Nat
      BY ShipperConstants
    <3>3. emitted' = emitted \/ (emitted < MaxRecords /\ emitted' = emitted + 1)
      BY <1>5 DEF ShipperStep, Emit, Quit, Restart, Post, PostFails, ReadReply, ReplyLost,
                  RequestLost
    <3> QED
      BY SMTT(30), <3>1, <3>2, <3>3
  <2>3. \A r \in inbox' : r.id >= 1
    <3>1. CASE Post
      <4>1. pipe # <<>> /\ pipe' = Tail(pipe) /\ emitted' = emitted /\ inbox' = inbox \cup {Head(pipe)}
        BY <3>1 DEF Post
      <4>2. Head(pipe).id = LastTaken + 1
        BY <4>1, ReadFacts
      <4>3. LastTaken \in Nat
        BY SMTT(30) DEF DInv, Types, InOrder, LastTaken
      <4> QED
        BY SMTT(30), <4>1, <4>2, <4>3 DEF NInv, Raised
    <3>2. CASE inbox' \subseteq inbox
      BY <3>2 DEF NInv, Raised
    <3> QED
      BY <1>5, <3>1, <3>2 DEF ShipperStep, Emit, Quit, Restart, PostFails, ReadReply, ReplyLost,
                              RequestLost
  <2> QED
    BY <1>4, <1>5, <2>1, <2>2, <2>3
<1>6. ASSUME NEW r \in inbox, Turned(r) PROVE NInv'
  <2>1. UNCHANGED <<nvars, stored, emitted>> /\ inbox' \subseteq inbox
    BY <1>6 DEF Turned
  <2> QED
    BY <1>4, <2>1 DEF NInv, Raised
<1>7. CASE UNCHANGED vars
  BY <1>4, <1>7 DEF vars, svars, NInv, Raised
<1> QED
  BY <1>1, <1>2, <1>3, <1>5, <1>6, <1>7 DEF DeliveryNext

(* The invariant of the dispatcher.                                        *)
THEOREM DispatcherInvariant == DeliverySpec => []NInv
  BY InitNInv, NextNInv, DeliveryInvariant, PTL DEF DeliverySpec

(* The summary's number is right, whatever arrives while the sinks are slow*)
(* or the window rolls over (dispatch()).                                  *)
THEOREM SummaryCountsAll == DeliverySpec => []SuppressedCounted
<1>1. NInv => SuppressedCounted
  BY DEF NInv, Counted
<1> QED
  BY <1>1, DispatcherInvariant, PTL

(* No stretch of time as long as the rate window sees the deliveries of    *)
(* more alerts begin than two windows allow, or of more than one summary   *)
(* (dispatch()), for every limit and every length of the window.           *)
THEOREM BurstsBounded == DeliverySpec => []BurstBounded
<1>1. NInv => BurstBounded
  <2>0. NInv => \A i \in DOMAIN told : i < Len(told) => told[i] >= Window
    BY DEF NInv, Told
  <2> SUFFICES ASSUME Rate, MaxPerMin > 0,
                      NEW i \in DOMAIN sent, i <= Len(sent) - 2 * MaxPerMin
               PROVE  sent[i] >= Window
    BY <2>0 DEF NInv, BurstBounded
  <2>1. /\ Len(sent) \in Nat /\ inWindow \in 0..Len(sent) /\ DOMAIN sent = 1..Len(sent)
        /\ inWindow <= MaxPerMin
        /\ \A j \in 1..(Len(sent) - inWindow - MaxPerMin) : sent[j] >= Window
    BY SMTT(30) DEF Rate
  <2>2. MaxPerMin \in Nat
    BY NotifierConstants
  <2>3. i \in 1..(Len(sent) - inWindow - MaxPerMin)
    BY SMTT(30), <2>1, <2>2
  <2> QED
    BY <2>1, <2>3
<1> QED
  BY <1>1, DispatcherInvariant, PTL

-----------------------------------------------------------------------------
(* Live updates. *)

(* One refresh at a time.                                                  *)
OneFlight ==
  /\ ~refreshing => \A c \in Live : flight[c] = Idle
  /\ \A c, d \in Live : flight[c] # Idle /\ flight[d] # Idle => c = d

NotOlder ==
  /\ version \in Nat /\ live \in 0..version
  /\ flight \in [Callers -> Int]
  /\ \A c \in Live : flight[c] \in {Idle, Awaited} \/ flight[c] \in live..version

PInv == refreshing \in BOOLEAN /\ OneFlight /\ NotOlder /\ SubscribersLive

(* The marks of a request are no versions, and boot() and triageIncident() *)
(* are no callers of liveRefresh().                                        *)
LEMMA Marks == /\ Idle \in Int /\ Awaited \in Int /\ Idle # Awaited
               /\ ~(Idle >= 0) /\ ~(Awaited >= 0)
               /\ "boot" \in Callers \ Live /\ "triage" \in Callers \ Live
               /\ "poll" \in Live /\ "timer" \in Live /\ Live \in SUBSET Callers
  BY SMTT(30) DEF Idle, Awaited, Live, Callers

(* Nothing is asked, shown or subscribed to at first.                      *)
LEMMA InitPInv == PollInit => PInv
<1> SUFFICES ASSUME PollInit PROVE PInv
  OBVIOUS
<1>1. refreshing \in BOOLEAN
  BY Zenon DEF PollInit
<1>2. /\ flight = [c \in Callers |-> IF c = "boot" THEN Awaited ELSE Idle]
      /\ version = 0 /\ live = 0 /\ refreshing = FALSE
  BY DEF PollInit
<1>3. \A c \in Live : flight[c] = Idle
  BY <1>2, Marks
<1>4. SubscribersLive
  BY DEF PollInit, SubscribersLive
<1>5. OneFlight
  BY <1>3 DEF OneFlight
<1>6. NotOlder
  <2>1. flight \in [Callers -> Int]
    BY <1>2, Marks
  <2>2. version \in Nat /\ live \in 0..version
    BY SMTT(30), <1>2
  <2> QED
    BY <1>3, <2>1, <2>2 DEF NotOlder
<1> QED
  BY <1>1, <1>4, <1>5, <1>6 DEF PInv

(* Every step of the server's threads and of the page keeps it.            *)
LEMMA NextPInv == PInv /\ [PollNext]_pvars => PInv'
<1> SUFFICES ASSUME PInv, [PollNext]_pvars PROVE PInv'
  OBVIOUS
<1> USE DEF PInv
<1>1. CASE Publish
  BY SMTT(30), <1>1 DEF Publish, OneFlight, NotOlder, SubscribersLive
<1>2. CASE SessionOver \/ BackoffOver
  BY <1>2 DEF SessionOver, BackoffOver, bvars, OneFlight, NotOlder, SubscribersLive
<1>3. CASE Broken
  BY <1>3 DEF Broken, bvars, OneFlight, NotOlder, SubscribersLive
<1>4. ASSUME NEW s \in Subs, Received(s) \/ TimedOut(s) PROVE PInv'
  BY <1>4 DEF Received, TimedOut, OneFlight, NotOlder, SubscribersLive
<1>5. ASSUME NEW s \in Subs, Respond(s) PROVE PInv'
  <2>1. SubscribersLive'
    BY <1>5 DEF Respond, Without, SubscribersLive
  <2> QED
    BY <1>5, <2>1 DEF Respond, OneFlight, NotOlder
<1>6. ASSUME NEW s \in Subs, Subscribe(s) PROVE PInv'
  <2>1. SubscribersLive'
    BY <1>6 DEF Subscribe, With, SubscribersLive
  <2> QED
    BY <1>6, <2>1 DEF Subscribe, OneFlight, NotOlder
<1>7. ASSUME NEW c \in Callers, flight' = [flight EXCEPT ![c] = Awaited],
             refreshing' \in BOOLEAN,
             (c \notin Live /\ refreshing' = refreshing) \/ (~refreshing /\ refreshing'),
             UNCHANGED <<bvars, mine, live>>
      PROVE  PInv'
  <2>1. /\ flight' \in [Callers -> Int] /\ flight'[c] = Awaited
        /\ \A d \in Callers \ {c} : flight'[d] = flight[d]
    BY <1>7, Marks DEF NotOlder
  <2>2. OneFlight'
    <3>1. CASE c \notin Live /\ refreshing' = refreshing
      <4>1. \A d \in Live : flight'[d] = flight[d]
        BY <3>1, <2>1, Marks
      <4> QED
        BY <3>1, <4>1 DEF OneFlight
    <3>2. CASE ~refreshing /\ refreshing'
      <4>1. \A d \in Live : flight'[d] # Idle => d = c
        BY <3>2, <2>1, Marks DEF OneFlight
      <4> QED
        BY <3>2, <4>1 DEF OneFlight
    <3> QED
      BY <1>7, <3>1, <3>2
  <2>3. NotOlder'
    BY <1>7, <2>1, Marks DEF NotOlder, bvars
  <2> QED
    BY <1>7, <2>2, <2>3 DEF bvars, SubscribersLive
<1>8. CASE PollRefresh \/ TimerRefresh \/ Triage \/ SignIn
  <2>1. CASE UNCHANGED <<bvars, mine, refreshing, flight, live>>
    BY <2>1 DEF bvars, OneFlight, NotOlder, SubscribersLive
  <2>2. CASE PollRefresh
    BY <1>7, <2>1, <2>2, Marks DEF PollRefresh
  <2>3. CASE TimerRefresh
    BY <1>7, <2>3, Marks DEF TimerRefresh
  <2>4. CASE Triage
    BY <1>7, <2>4, Marks DEF Triage
  <2>5. CASE SignIn
    BY <1>7, <2>5, Marks DEF SignIn
  <2> QED
    BY <1>8, <2>2, <2>3, <2>4, <2>5
<1>9. ASSUME NEW c \in Callers, AnswerFleet(c) PROVE PInv'
  <2>1. /\ flight' = [flight EXCEPT ![c] = version] /\ flight[c] = Awaited
        /\ UNCHANGED <<bvars, mine, refreshing, live>>
    BY <1>9 DEF AnswerFleet
  <2>2. version \in Nat /\ version \in Int /\ live \in 0..version /\ version \in live..version
    BY SMTT(30) DEF NotOlder
  <2>3. /\ flight' \in [Callers -> Int] /\ flight'[c] = version
        /\ \A d \in Callers \ {c} : flight'[d] = flight[d]
    BY <2>1, <2>2 DEF NotOlder
  <2>4. OneFlight'
    BY <2>1, <2>3, Marks DEF OneFlight
  <2>5. NotOlder'
    BY <2>1, <2>2, <2>3, Marks DEF NotOlder, bvars
  <2> QED
    BY <2>1, <2>4, <2>5 DEF bvars, SubscribersLive
<1>10. ASSUME NEW c \in Callers, flight[c] # Idle, flight' = [flight EXCEPT ![c] = Idle],
              refreshing' = (refreshing /\ c \notin Live),
              live' = live \/ (c \in Live /\ live' \in live..version),
              UNCHANGED <<bvars, mine>>
       PROVE  PInv'
  <2>1. /\ flight' \in [Callers -> Int] /\ flight'[c] = Idle
        /\ \A d \in Callers \ {c} : flight'[d] = flight[d]
    BY <1>10, Marks DEF NotOlder
  <2>2. refreshing' \in BOOLEAN
    BY <1>10
  <2>3. c \in Live => \A d \in Live : flight'[d] = Idle
    BY <1>10, <2>1, Marks DEF OneFlight
  <2>4. OneFlight'
    <3>1. CASE c \in Live
      BY <3>1, <2>3 DEF OneFlight
    <3>2. CASE c \notin Live
      BY <3>2, <1>10, <2>1, Marks DEF OneFlight
    <3> QED
      BY <3>1, <3>2
  <2>5. live' \in 0..version
    BY SMTT(30), <1>10 DEF NotOlder
  <2>6. NotOlder'
    <3>1. CASE c \in Live
      BY <3>1, <1>10, <2>1, <2>3, <2>5 DEF NotOlder, bvars
    <3>2. CASE c \notin Live
      BY <3>2, <1>10, <2>1, <2>5, Marks DEF NotOlder, bvars
    <3> QED
      BY <3>1, <3>2
  <2> QED
    BY <1>10, <2>2, <2>4, <2>6 DEF bvars, SubscribersLive
<1>12. ASSUME NEW c \in Callers, Show(c) PROVE PInv'
  <2>1. /\ flight[c] >= 0 /\ flight' = [flight EXCEPT ![c] = Idle]
        /\ refreshing' = (refreshing /\ c \notin Live)
        /\ live' = IF c \in Live THEN flight[c] ELSE live
        /\ UNCHANGED <<bvars, mine>>
    BY <1>12 DEF Show, EndRefresh
  <2>2. flight[c] # Idle /\ (c \in Live => flight[c] \in live..version)
    BY <2>1, Marks DEF NotOlder
  <2> QED
    BY <1>10, <2>1, <2>2
<1>13. ASSUME NEW c \in Callers, RefreshFails(c) PROVE PInv'
  BY <1>10, <1>13 DEF RefreshFails, EndRefresh
<1>14. CASE SessionEnds
  BY <1>14 DEF SessionEnds, bvars, OneFlight, NotOlder, SubscribersLive
<1>15. CASE BootRefused
  <2>1. /\ flight["boot"] # Idle /\ flight' = [flight EXCEPT !["boot"] = Idle]
        /\ UNCHANGED <<bvars, mine, refreshing, live>> /\ refreshing \in BOOLEAN
    BY <1>15, Marks DEF BootRefused
  <2>2. refreshing' = (refreshing /\ "boot" \notin Live)
    BY <2>1, Marks
  <2> QED
    BY <1>10, <2>1, <2>2, Marks
<1>11. CASE UNCHANGED pvars
  BY <1>11 DEF pvars, bvars, OneFlight, NotOlder, SubscribersLive
<1> QED
  BY <1>1, <1>2, <1>3, <1>4, <1>5, <1>6, <1>8, <1>9, <1>11, <1>12, <1>13, <1>14, <1>15
     DEF PollNext

-----------------------------------------------------------------------------

(* The invariant of the broadcaster and the page.                          *)
THEOREM PollInvariant == PollSpec => []PInv
  BY InitPInv, NextPInv, PTL DEF PollSpec

(* Every entry of the Broadcaster's list belongs to a thread that removes  *)
(* it (Subscription::drop).                                                *)
THEOREM SubscribersAlwaysLive == PollSpec => []SubscribersLive
<1>1. PInv => SubscribersLive
  BY DEF PInv
<1> QED
  BY <1>1, PollInvariant, PTL

(* liveRefresh() never shows an older fleet than it did, though two loops  *)
(* call it (its flag); nothing is assumed of boot() and triageIncident().  *)
THEOREM LiveRefreshInOrder == PollSpec => RefreshesInOrder
<1>1. PInv /\ [PollNext]_pvars => [live' >= live]_pvars
  <2> SUFFICES ASSUME PInv, PollNext PROVE live' >= live
    BY DEF pvars
  <2>1. ASSUME NEW c \in Callers, Show(c) PROVE live' >= live
    <3>1. flight[c] >= 0 /\ live' = IF c \in Live THEN flight[c] ELSE live
      BY <2>1 DEF Show
    <3>2. c \in Live => flight[c] \in live..version
      BY <3>1, Marks DEF PInv, NotOlder
    <3> QED
      BY SMTT(30), <3>1, <3>2 DEF PInv, NotOlder
  <2>2. CASE live' = live
    BY SMTT(30), <2>2 DEF PInv, NotOlder
  <2> QED
    BY <2>1, <2>2, Zenon
       DEF PollNext, Publish, SessionOver, Broken, BackoffOver, Received, TimedOut, Respond,
           Subscribe, PollRefresh, TimerRefresh, Triage, SignIn, SessionEnds, AnswerFleet,
           RefreshFails, BootRefused
<1> QED
  BY <1>1, PollInvariant, PTL DEF PollSpec, RefreshesInOrder

=============================================================================
