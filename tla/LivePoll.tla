------------------------------ MODULE LivePoll ------------------------------
(***************************************************************************)
(* Live updates of a dashboard: the server's Broadcaster and the /api/poll *)
(* handler (src/src/server/mod.rs), whose wait runs on a thread of its own,*)
(* and the page's script (src/src/server/dashboard.rs), from the load of   *)
(* the page on.  The long-poll loop and the once-a-minute safety net share *)
(* liveRefresh() and its flag; boot() and triageIncident() fetch the fleet *)
(* for the page as well, without the flag.                                 *)
(***************************************************************************)
EXTENDS Integers, FiniteSets

CONSTANTS
  MaxVersion,    \* bound: batches of records the agents ship
  MaxSubs        \* bound: subscriptions open at a time

ASSUME PollConstants == {MaxVersion, MaxSubs} \subseteq Nat \ {0}

Subs == 1..MaxSubs
NoSub == 0
Live == {"poll", "timer"}                   \* the callers of liveRefresh()
Callers == Live \cup {"boot", "triage"}     \* bound: one boot and one triage at a time
Idle == -2       \* no request under way
Awaited == -1    \* a request not answered yet

VARIABLES
  version,       \* state of the fleet: how many batches are in the store
  clients,       \* the Broadcaster's list: subscription -> message queued?
  threads,       \* subscription -> "waiting" | "answered" | "timed out"
  poll,          \* the poll loop: "off" | "fetch" | "open" | "refresh" | "wait" |
                 \* "backoff" | "over"
  mine,          \* the subscription the open request waits on
  refreshing,    \* the flag of liveRefresh()
  flight,        \* per caller, its /api/fleet request: Idle, Awaited, or the
                 \* fleet the server answered with
  shown,         \* HOSTS, the fleet the page shows; 0 is none
  live,          \* history: the fleet liveRefresh() showed last
  session,       \* whether the page's session is valid
  gate           \* whether the login form covers the page

bvars == <<version, clients, threads>>
gvars == <<session, gate>>
pvars == <<bvars, poll, mine, refreshing, flight, shown, live, gvars>>

(* The page is loaded, with a session or without, and boot() is called.    *)
PollInit ==
  /\ version = 0
  /\ clients = [s \in {} |-> FALSE] /\ threads = [s \in {} |-> ""]
  /\ poll = "off" /\ mine = NoSub
  /\ refreshing = FALSE
  /\ flight = [c \in Callers |-> IF c = "boot" THEN Awaited ELSE Idle]
  /\ shown = 0 /\ live = 0
  /\ session \in BOOLEAN /\ gate = TRUE

Without(f, s) == [x \in DOMAIN f \ {s} |-> f[x]]
With(f, s, v) == [x \in DOMAIN f \cup {s} |-> IF x = s THEN v ELSE f[x]]

-----------------------------------------------------------------------------
(* The server. *)

(* /api/ingest: the batch is stored, then publish() sends to every         *)
(* subscriber; all of them have their receiver still.                      *)
Publish ==
  /\ version < MaxVersion
  /\ version' = version + 1
  /\ clients' = [s \in DOMAIN clients |-> TRUE]
  /\ UNCHANGED <<threads, poll, mine, refreshing, flight, shown, live, gvars>>

(* recv_timeout() returns, with a message if there is one.                 *)
Received(s) ==
  /\ s \in DOMAIN threads /\ threads[s] = "waiting" /\ clients[s]
  /\ threads' = [threads EXCEPT ![s] = "answered"]
  /\ UNCHANGED <<version, clients, poll, mine, refreshing, flight, shown, live, gvars>>

TimedOut(s) ==
  /\ s \in DOMAIN threads /\ threads[s] = "waiting" /\ ~clients[s]
  /\ threads' = [threads EXCEPT ![s] = "timed out"]
  /\ UNCHANGED <<version, clients, poll, mine, refreshing, flight, shown, live, gvars>>

(* Mutant: a poll that times out stays on the list.                        *)
Respond_KeepsTimedOut(s) ==
  /\ s \in DOMAIN threads /\ threads[s] # "waiting"
  /\ threads' = Without(threads, s)
  /\ clients' = IF threads[s] = "answered" THEN Without(clients, s) ELSE clients
  /\ IF s = mine
     THEN /\ mine' = NoSub
          /\ poll' = IF threads[s] = "answered" THEN "refresh" ELSE "fetch"
     ELSE UNCHANGED <<mine, poll>>
  /\ UNCHANGED <<version, refreshing, flight, shown, live, gvars>>

(* The thread responds and ends; Subscription::drop unsubscribes.          *)
Respond(s) ==
  /\ s \in DOMAIN threads /\ threads[s] # "waiting"
  /\ threads' = Without(threads, s)
  /\ clients' = Without(clients, s)
  /\ IF s = mine
     THEN /\ mine' = NoSub
          /\ poll' = IF threads[s] = "answered" THEN "refresh" ELSE "fetch"
     ELSE UNCHANGED <<mine, poll>>
  /\ UNCHANGED <<version, refreshing, flight, shown, live, gvars>>

(* /api/poll: subscribe and hand the wait to a thread.                     *)
Subscribe(s) ==
  /\ poll = "fetch" /\ session /\ s \notin DOMAIN threads
  /\ threads' = With(threads, s, "waiting")
  /\ clients' = With(clients, s, FALSE)
  /\ poll' = "open" /\ mine' = s
  /\ UNCHANGED <<version, refreshing, flight, shown, live, gvars>>

(* /api/poll without a valid session: the loop ends.                       *)
SessionOver ==
  /\ poll = "fetch" /\ ~session
  /\ poll' = "over"
  /\ UNCHANGED <<bvars, mine, refreshing, flight, shown, live, gvars>>

-----------------------------------------------------------------------------
(* The page. *)

(* The connection breaks: the loop waits and polls again, the thread on the*)
(* server is not told.                                                     *)
Broken ==
  /\ poll \in {"fetch", "open"}
  /\ poll' = "backoff" /\ mine' = NoSub
  /\ UNCHANGED <<bvars, refreshing, flight, shown, live, gvars>>

BackoffOver ==
  /\ poll = "backoff"
  /\ poll' = "fetch"
  /\ UNCHANGED <<bvars, mine, refreshing, flight, shown, live, gvars>>

(* Mutant: the flag is set and not looked at.                              *)
PollRefresh_NoFlag ==
  /\ poll = "refresh"
  /\ poll' = "wait" /\ refreshing' = TRUE /\ flight' = [flight EXCEPT !["poll"] = Awaited]
  /\ UNCHANGED <<bvars, mine, shown, live, gvars>>

(* liveRefresh() is called: nothing happens while a refresh is under way.  *)
PollRefresh ==
  /\ poll = "refresh"
  /\ IF refreshing
     THEN poll' = "fetch" /\ UNCHANGED <<refreshing, flight>>
     ELSE poll' = "wait" /\ refreshing' = TRUE /\ flight' = [flight EXCEPT !["poll"] = Awaited]
  /\ UNCHANGED <<bvars, mine, shown, live, gvars>>

(* The safety net, while the login form is not shown.                      *)
TimerRefresh ==
  /\ ~refreshing /\ ~gate
  /\ refreshing' = TRUE /\ flight' = [flight EXCEPT !["timer"] = Awaited]
  /\ UNCHANGED <<bvars, poll, mine, shown, live, gvars>>

(* triageIncident(): once the resolution is posted the fleet is fetched,   *)
(* whatever else is under way.                                             *)
Triage ==
  /\ ~gate /\ flight["triage"] = Idle
  /\ flight' = [flight EXCEPT !["triage"] = Awaited]
  /\ UNCHANGED <<bvars, poll, mine, refreshing, shown, live, gvars>>

(* A login is accepted: the form goes away and the page boots again.       *)
SignIn ==
  /\ gate /\ flight["boot"] = Idle
  /\ session' = TRUE /\ gate' = FALSE
  /\ flight' = [flight EXCEPT !["boot"] = Awaited]
  /\ UNCHANGED <<bvars, poll, mine, refreshing, shown, live>>

(* The session expires, or is ended in another tab.                        *)
SessionEnds ==
  /\ session /\ session' = FALSE
  /\ UNCHANGED <<bvars, poll, mine, refreshing, flight, shown, live, gate>>

(* The server handles /api/fleet, while the session lasts.                 *)
AnswerFleet(c) ==
  /\ flight[c] = Awaited /\ session
  /\ flight' = [flight EXCEPT ![c] = version]
  /\ UNCHANGED <<bvars, poll, mine, refreshing, shown, live, gvars>>

(* Mutant: the safety net fetches and shows nothing.                       *)
EndRefresh_PollOnly(c, fleet) ==
  /\ shown' = IF c = "timer" THEN shown ELSE fleet
  /\ flight' = [flight EXCEPT ![c] = Idle]
  /\ refreshing' = (refreshing /\ c \notin Live)
  /\ poll' = CASE c = "poll" -> "fetch"
               [] c = "boot" /\ poll \in {"off", "over"} -> "fetch"
               [] OTHER -> poll
  /\ gate' = (gate /\ c # "boot")
  /\ UNCHANGED <<bvars, mine, session>>

(* The page has what it asked for, or not: liveRefresh() clears its flag,  *)
(* and the loop that called it goes on; boot() takes the login form away   *)
(* and starts the loop if it does not run.                                 *)
EndRefresh(c, fleet) ==
  /\ shown' = fleet
  /\ flight' = [flight EXCEPT ![c] = Idle]
  /\ refreshing' = (refreshing /\ c \notin Live)
  /\ poll' = CASE c = "poll" -> "fetch"
               [] c = "boot" /\ poll \in {"off", "over"} -> "fetch"
               [] OTHER -> poll
  /\ gate' = (gate /\ c # "boot")
  /\ UNCHANGED <<bvars, mine, session>>

Show(c) ==
  /\ flight[c] >= 0 /\ EndRefresh(c, flight[c])
  /\ live' = IF c \in Live THEN flight[c] ELSE live

(* The request fails: only boot() then shows an empty fleet.               *)
RefreshFails(c) ==
  /\ flight[c] # Idle /\ EndRefresh(c, IF c = "boot" THEN 0 ELSE shown)
  /\ UNCHANGED live

(* The server refuses the fleet to boot(), which asks for a login.         *)
BootRefused ==
  /\ flight["boot"] = Awaited /\ ~session
  /\ flight' = [flight EXCEPT !["boot"] = Idle] /\ gate' = TRUE
  /\ UNCHANGED <<bvars, poll, mine, refreshing, shown, live, session>>

PollNext ==
  \/ Publish \/ SessionOver \/ Broken \/ BackoffOver
  \/ \E s \in Subs : Received(s) \/ TimedOut(s) \/ Respond(s) \/ Subscribe(s)
  \/ PollRefresh \/ TimerRefresh \/ Triage \/ SignIn \/ SessionEnds \/ BootRefused
  \/ \E c \in Callers : AnswerFleet(c) \/ Show(c) \/ RefreshFails(c)

(* The timers fire, the server's threads and request loop run, and while   *)
(* the page keeps asking a fleet request succeeds again and again.         *)
PollFair ==
  /\ WF_pvars(TimerRefresh)
  /\ \A c \in Live \cup {"boot"} : SF_pvars(AnswerFleet(c)) /\ SF_pvars(Show(c))
  /\ \A s \in Subs : WF_pvars(Received(s) \/ TimedOut(s)) /\ WF_pvars(Respond(s))

PollSpec == PollInit /\ [][PollNext]_pvars /\ PollFair

-----------------------------------------------------------------------------
(* Properties. *)

(* "Unregistering when the poll finishes bounds the list by the number of  *)
(* live pollers instead of by uptime": every entry of the Broadcaster      *)
(* belongs to a thread that will still remove it, also when the page that  *)
(* asked has gone away.                                                    *)
SubscribersLive ==
  /\ DOMAIN clients = DOMAIN threads
  /\ mine # NoSub => mine \in DOMAIN clients

(* The page is never more than a safety net behind: whatever is ingested is*)
(* shown in the end, and again if the late answer to a triage, or a boot() *)
(* that failed, has put an older fleet back, notifications lost between two*)
(* polls and broken polls notwithstanding, unless the session ends.        *)
EventuallyShown ==
  \A v \in 1..MaxVersion : (version >= v) ~> (shown >= v \/ ~session)

(* The poll loop and the safety net never overtake each other: what        *)
(* liveRefresh() shows is never older than what it showed before.  (Of the *)
(* page as a whole this cannot be said: triageIncident() does not take the *)
(* flag.)                                                                  *)
RefreshesInOrder == [][live' >= live]_pvars

=============================================================================
