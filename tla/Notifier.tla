------------------------------ MODULE Notifier ------------------------------
(***************************************************************************)
(* Alert delivery (src/src/notify.rs): the server's request loop queues    *)
(* alerts without ever waiting, and one dispatcher thread takes them off   *)
(* the queue, delivers at most MaxPerMin per rate window and counts the    *)
(* rest, which one summary alert reports.                                  *)
(*                                                                         *)
(* Time is the age of the current rate window, which stops mattering once  *)
(* it has reached the window's length.  A delivery may take any time, even *)
(* for ever (the syslog socket has no timeout, and an endpoint's is for    *)
(* each read), and may fail; the failure is logged and nothing else.       *)
(***************************************************************************)
EXTENDS Integers, Sequences, FiniteSets

CONSTANTS
  Alerts,        \* the alerts the request loop raises
  MinRank,       \* min_rank
  QueueCap,      \* capacity of the channel
  MaxPerMin,     \* max_per_min; 0 means no limit
  Window         \* length of the rate window

ASSUME NotifierConstants ==
  /\ Alerts \subseteq Nat
  /\ {MinRank, QueueCap, MaxPerMin, Window} \subseteq Nat /\ Window > 0

VARIABLES
  queue,         \* alerts in the channel
  job,           \* what the dispatcher is at: "idle", or the delivery of the
                 \* "summary" or of the "alert" it holds
  held,          \* the alert taken off the queue; 0 is none
  age,           \* time since window_start, up to Window
  inWindow,      \* in_window
  suppressed,    \* suppressed
  fate,          \* history: alert -> what has become of it
  sent,          \* history: how long ago the delivery of each alert began, and
  told           \* of each summary, up to Window

nvars == <<queue, job, held, age, inWindow, suppressed, fate, sent, told>>

NotifierInit ==
  /\ queue = <<>> /\ job = "idle" /\ held = 0
  /\ age = 0 /\ inWindow = 0 /\ suppressed = 0
  /\ fate = [a \in Alerts |-> "new"]
  /\ sent = <<>> /\ told = <<>>

-----------------------------------------------------------------------------
(* The request loop. *)

(* notify(): below the severity floor it is ignored; a full channel drops  *)
(* it, with a line in the log.                                             *)
Notify(a, rank) ==
  /\ LET taken == rank >= MinRank /\ Len(queue) < QueueCap
     IN  /\ queue' = IF taken THEN Append(queue, a) ELSE queue
         /\ fate' = [fate EXCEPT ![a] = IF rank < MinRank THEN "ignored"
                                        ELSE IF taken THEN "queued" ELSE "full"]
  /\ UNCHANGED <<job, held, age, inWindow, suppressed, sent, told>>

-----------------------------------------------------------------------------
(* dispatch(). *)

WindowOver == age >= Window

(* Mutant: the limit is one too high.                                      *)
Limit_OffByOne(a, used, missed) ==
  IF MaxPerMin > 0 /\ used > MaxPerMin
  THEN /\ suppressed' = missed + 1
       /\ inWindow' = used
       /\ job' = "idle" /\ held' = 0
       /\ sent' = sent
  ELSE /\ suppressed' = missed
       /\ inWindow' = used + 1
       /\ job' = "alert" /\ held' = a
       /\ sent' = Append(sent, 0)

(* The tail of the loop's body: the alert in hand is counted or its        *)
(* delivery begins.  `used` and `missed` are in_window and suppressed as   *)
(* the roll of the window, if there was one, left them.                    *)
Limit(a, used, missed) ==
  IF MaxPerMin > 0 /\ used >= MaxPerMin
  THEN /\ suppressed' = missed + 1
       /\ inWindow' = used
       /\ job' = "idle" /\ held' = 0
       /\ sent' = sent
  ELSE /\ suppressed' = missed
       /\ inWindow' = used + 1
       /\ job' = "alert" /\ held' = a
       /\ sent' = Append(sent, 0)

(* What becomes of the alerts: those the summary reported, then the one in *)
(* hand.                                                                   *)
FateAfter(a, summarised) ==
  [b \in Alerts |->
     IF b = a THEN IF job' = "idle" THEN "suppressed" ELSE "queued"
     ELSE IF summarised /\ fate[b] = "suppressed" THEN "summarised" ELSE fate[b]]

(* Mutant: a new window forgets what the last one suppressed.              *)
Receive_Forgets ==
  /\ job = "idle" /\ queue # <<>>
  /\ queue' = Tail(queue)
  /\ age' = IF WindowOver THEN 0 ELSE age
  /\ Limit(Head(queue), IF WindowOver THEN 0 ELSE inWindow,
           IF WindowOver THEN 0 ELSE suppressed)
  /\ fate' = FateAfter(Head(queue), FALSE)
  /\ UNCHANGED told

(* An alert arrives.  If the window is over and something was suppressed,  *)
(* the summary is delivered first, outside the limit; if nothing was, a new*)
(* window starts.                                                          *)
Receive ==
  /\ job = "idle" /\ queue # <<>>
  /\ queue' = Tail(queue)
  /\ IF WindowOver /\ suppressed > 0
     THEN /\ job' = "summary" /\ held' = Head(queue)
          /\ told' = Append(told, 0)
          /\ UNCHANGED <<age, inWindow, suppressed, fate, sent>>
     ELSE /\ age' = IF WindowOver THEN 0 ELSE age
          /\ Limit(Head(queue), IF WindowOver THEN 0 ELSE inWindow, suppressed)
          /\ fate' = FateAfter(Head(queue), FALSE)
          /\ UNCHANGED told

(* Mutant: the summary takes the place of the alert in hand.               *)
Summarised_Instead ==
  /\ job = "summary"
  /\ age' = 0 /\ inWindow' = 0 /\ suppressed' = 0
  /\ job' = "idle" /\ held' = 0
  /\ fate' = [b \in Alerts |-> IF fate[b] = "suppressed" THEN "summarised" ELSE fate[b]]
  /\ UNCHANGED <<queue, sent, told>>

(* The summary is out, successfully or not: a new window starts.           *)
Summarised ==
  /\ job = "summary"
  /\ age' = 0
  /\ Limit(held, 0, 0)
  /\ fate' = FateAfter(held, TRUE)
  /\ UNCHANGED <<queue, told>>

(* deliver_all() returns: every sink was tried.                            *)
Delivered ==
  /\ job = "alert"
  /\ job' = "idle" /\ held' = 0
  /\ fate' = [fate EXCEPT ![held] = "delivered"]
  /\ UNCHANGED <<queue, age, inWindow, suppressed, sent, told>>

Dispatch == Receive \/ Summarised \/ Delivered

-----------------------------------------------------------------------------

(* Time passes.  (Ages beyond Window are all alike.)                        *)
Older(t) == IF t < Window THEN t + 1 ELSE t

WindowTick ==
  /\ age' = Older(age)
  /\ sent' = [i \in DOMAIN sent |-> Older(sent[i])]
  /\ told' = [i \in DOMAIN told |-> Older(told[i])]
  /\ UNCHANGED <<queue, job, held, inWindow, suppressed, fate>>

-----------------------------------------------------------------------------
(* Properties. *)

(* "Suppressed alerts are counted": the number the next summary will give  *)
(* is the number of alerts that were taken off the queue, not delivered    *)
(* and not yet in any summary.                                             *)
SuppressedCounted ==
  suppressed = Cardinality({a \in Alerts : fate[a] = "suppressed"})

(* An incident storm cannot turn into an alert storm: whatever the arrival *)
(* times and however long deliveries take, no stretch of time as long as   *)
(* the window sees the deliveries of more alerts begin than two windows    *)
(* allow, nor of more than one summary, which is outside the limit: when   *)
(* as many have begun after a delivery, it is itself a window ago.         *)
BurstBounded ==
  /\ MaxPerMin > 0 =>
       \A i \in DOMAIN sent : i <= Len(sent) - 2 * MaxPerMin => sent[i] >= Window
  /\ \A i \in DOMAIN told : i < Len(told) => told[i] >= Window

(* Unless a delivery never returns, every alert that got into the queue is *)
(* delivered or counted: the dispatcher forgets none, however slow the     *)
(* sinks are and whichever way the windows fall.                           *)
QueueDrains ==
  []<>(job = "idle") =>
    \A a \in Alerts :
      fate[a] = "queued" ~> fate[a] \in {"delivered", "suppressed", "summarised"}

=============================================================================
