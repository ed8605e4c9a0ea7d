# KernelSentinel in TLA+

KernelSentinel watches a Linux host with eBPF sensors, keeps a graph of its
processes, raises and scores signals, and reports incidents to a central server
with a dashboard. This directory models the parts of it whose correctness
depends on order, time, failure or concurrency, checks them with TLC on small
instances, and proves the central invariants with TLAPS for every instance.

Paths are relative to the root of the repository, one level up from `src/src`:
`src/src/...` is the crate, `src/bpf/...` the kernel side.

    tlc -workers 2 -config MCStore.cfg MCStore        # one run
    tlapm ProcessGraph_proofs.tla                     # one proof module

`PROJECT.json` lists the runs, the source lines behind every definition, a
mutant of the code for every property, the hazards and the theorems.

## 1. The system

    processes ──syscalls──▶ BPF sensors ──ring buffer──▶ agent (one thread)
                             (process, creds,             │  graph → detectors/rules
                              file, net, ...)             │  → correlator/score
                                                          ▼
    browser ◀──long poll── server ◀──HTTP── ship ◀── NDJSON on stdout
                             │  request loop: one request at a time
                             │  a thread per long poll, one dispatcher thread
                             └─ SQLite: incidents, expected pairs, hosts, users

* **Sensors** run in kernel context on every CPU. Each reserves a record in one
  ring buffer and gives up when it is full. The file-open sensor can also deny.
* **The agent** walks `/proc`, attaches the sensors, and then handles one event
  after the other: update the graph, run detectors and rules, score the lineage,
  emit an incident on escalation, reap from time to time. Once per interval it
  closes a self-attestation round and emits a heartbeat.
* **The server** handles requests sequentially under one lock, so a request is a
  step. Long polls wait on threads of their own; alerts leave through a bounded
  channel and a dispatcher thread; everything else is in SQLite and in memory.

What is hard here is at the seams: a scan that reads truncated start times
against events with exact ones; sensors that serve calls while userspace is still
configuring; events dropped, late or out of order; pids that are recycled; tables
at their cap; a server that restarts from what is left on disk; a page whose two
refresh loops share a flag that its other requests do not take. These are the hazards in `PROJECT.json`.

## 2. Inventory and correspondence

| part | source | module | state and actions |
|---|---|---|---|
| process graph | `graph/mod.rs` | `ProcessGraph` | `graph` is the `ProcessGraph` struct: `nodes` and `byPid`. `Ensure`, `Resolve`, `Rekey`, `OnFork`, `OnExec`, `OnExit`, `OnCred`, `Remove`, `Reap`, `LinkScanned` are the methods, as operators on that record. |
| `/proc` bootstrap | `graph/scan.rs` | `ProcessGraph`, `Observation` | one step per directory entry, links at the end; start times are truncated to a tick |
| process sensors, ring | `bpf/sensors/process.bpf.h`, `creds.bpf.h`, `common.h` | `Observation` | `procs` is the host, `ring` the buffer; an event is dropped when it is full |
| event callback | `main.rs` | `Observation`, `Engine`, `Detection` | apply, detect and reap, as one step |
| detectors | `detect/detectors.rs`, `signal.rs` | `Detectors` | one operator per detector, over the event and what it reads of the graph; `Detect` is the dispatch |
| trusted binaries | `fileid.rs`, `decoded.rs` | `TrustedBinaries` | the table as a record of `byId` and `byPath`; `ResolveHost`, `Lookup`, `Bind`, `RebindFromKernel`, `ResolveTrust` |
| baseline | `detect/baseline.rs` | `Baseline` | `NoteEvent`, `Observe`, `Evidence`, `Freshness`, `Confidence`, `Factor`, `Load`, `AsV1` |
| expected pairs | `server/store.rs` | `Expected` | `MarkExpected` and its upsert, `BaselineFor` |
| lineage evaluation, score | `detect/mod.rs`, `detect/score.rs` | `Evaluation`, `Score` | merging a signal into its bucket, the lineage, the context, the score and when it alerts |
| correlator, noise budget | `detect/mod.rs`, `budget.rs` | `Engine` | `signals`, and `reported` for one engine per severity floor |
| from call to weight | `main.rs` | `Detection` | composes `Detectors`, `TrustedBinaries`, `Baseline`, `Expected` and `Evaluation`: `Install`, `Exec` and `Act` on the host, `Handle` in the agent |
| rules | `detect/rule.rs` | `Rules` | `partials`; `Advance` is `advance_sequence` |
| file-open sensor, loader | `bpf/sensors/file.bpf.h`, `sensors.rs` | `Enforcement` | `Configure`, `Attach` one program at a time, `Arm`, the poll loop and the calls it makes (`Consume`, `Heartbeat`, `Return`, `Refresh`); `FileOpen` at any time |
| self-attestation, heartbeat, status | `canary.rs`, `main.rs`, `server/store.rs` | `Attestation` | rounds, ring, wire, server, restart |
| ship, agent keys | `server/ship.rs`, `http.rs`, `server/keys.rs` | `Shipper` | `Emit` into the pipe, `Post`, `ReadReply` and the ways a post ends; `Load` and `HostOf` of the keys file |
| alert delivery | `notify.rs` | `Notifier` | the channel, the dispatcher, the rate window |
| ingest | `server/mod.rs` | `Delivery` | composes `Shipper` and `Notifier` through the ingest handler |
| incident store | `server/store.rs` | `Store`, `IncidentLog` | `mem`, `rows` and the expected pairs; one action per request, and `Restart` |
| accounts, sessions | `server/store.rs`, `session.rs`, `mod.rs` | `Accounts` | `users`, `tokens`; login, create, delete, restart and the seeding it may fail to do |
| login limiter | `server/ratelimit.rs` | `LoginLimiter` | `seen`; check, then success or failure in a second step |
| live updates | `server/mod.rs`, `dashboard.rs` | `LivePoll` | broadcaster, poll threads, and the page: `boot()`, the login form, `triageIncident()`, the long-poll loop and the safety net |

### How the modules are built

`ProcessGraph` is both a library of operators and a specification of its own, in
which any scan is followed by any sequence of events a decoder can deliver. That
specification is the most general one and is what the proofs are about. Three
modules drive the same operators: `Observation` by a host, so that the graph can
be compared with the truth; `Engine` by event streams, with several correlators
behind them; `Detection` by a host that installs and runs files, with the trust
table, the detectors and a baseline behind them. `Delivery` puts the shipper, the
ingest handler and the dispatcher behind one another. `Store` implements
`IncidentLog` under a refinement mapping. The other modules are closed components
with the environment they meet in the code.

`Score`, `Evaluation`, `Detectors`, `TrustedBinaries`, `Baseline` and `Expected`
have no state of their own. They are the pure functions of the agent and the
server, and the state machines above apply them.

Abstractions that matter:

* A key is a pid and a start time, both from small sets. `Tick` clock readings
  make one `/proc` tick, so a scanned start time is really off by up to one.
* Of a node, only fields a decision reads are kept (name, trusted binary,
  container, credential count, exit, origin and links).
* Which of its signals an event raises is left open in `Engine`, and decided by
  the detectors in `Detection`. Scores, families and the chain window are the
  code's in both.
* A detector's string tests (`/etc/shadow`, a shell, a volatile directory) are
  facts an event carries.
* A file identity is a device and an inode number. The kernel's device may differ
  from that of `stat`, as on btrfs or overlayfs. A file of another file system (a
  container's image) may have the inode number of a host file; within one file
  system no number is used again.
* Baseline fractions are in thousandths, rounded down; a day is the unit of age.
* A rule condition is the set of events that satisfy it.
* Ages replace times in `Attestation` and `Notifier` where only ages are compared;
  `sent` of `Notifier` is the history of deliveries, each with its age.
* Each home directory has its two prefixes in the watch trie; which of them are too
  long for a key is a constant.
* The page's `/api/me` is part of the step that precedes its fleet request.
* Hashing, signing, TLS, HTTP parsing and SQL are taken to work; statements of the
  store may fail where the code ignores the failure.
* The server's clock does not step back, and the database is written durably.

## 3. Runs

Twelve runs; times are with two workers. Every property of a passing run has a
mutant, a plausible slip in the mapped code, under which TLC finds it violated.

| run | what is checked | instance | states | time |
|---|---|---|---|---|
| `observed_lineage` | Links agree; a single-threaded process never has two nodes; every parent the graph names is a real forebear; an exit that was heard is noticed; a reap spares the running. Pids are recycled, threads and credential changes happen, the ring overflows. | 4 processes over 3 pids, 3 clock readings, ring of 1, cap 2 | 1.7 M | 2 min |
| `scanned_trust` | **violated**: trust given by the scan is found when the daemon opens a file (section 6) | 2 processes, 4 readings | – | 1 s |
| `engine` | Evidence is not weakened while its process is known; more evidence never lowers a score; a process alerts again only at a higher severity; what alerts at one floor alerts at every lower one | 2 processes, 3 readings, 3 signals in 2 families, 2 floors | 172 k | 2.5 min |
| `rules` | A sequence fires only for its steps in order, in scope, in the window; and fires when they arrive cleanly, out-of-order timestamps and reaps in between included | 4 rules, 2 event kinds, 2 keys, 4 events | 420 k | 1.7 min |
| `delivery` | While the shipper runs nothing is lost; nothing is filed twice or under a foreign host; the agent stops with its shipper; suppressed alerts are in the next count; alerts and summaries per window are bounded; the queue drains while deliveries return | 3 records, pipe and queue of 1, 4 keys files | 218 k | 1 min |
| `detection` | A signal is withheld only for a listed file, or one with a listed file's inode number; upgrades are recognised; names excuse nobody; a baseline takes off only what it has evidence for | 2 processes, 4 paths and a foreign file, 1 install, 3 calls, 10 histories | 501 k | 2 min |
| `login_limiter` | A lockout lasts and is always earned; guesses per window are bounded | 3 addresses, room for 1, 2 failures | 1.7 M | 0.7 min |
| `store` | An id names one incident whatever failed, was pruned or restarted; while statements succeed triage is durable, rows are bounded, and the store implements `IncidentLog` | 2 hosts, 4 ingests, 1 incident in memory per host, 2 rows, prune every 2, one failing statement | 450 k | 2.4 min |
| `attestation` | A verdict is that of its own canary; a restart keeps the status; a blinded agent is shown as blind | 2 sensors, 2 canary pids, a wire of 1 | 246 k | 0.7 min |
| `live_poll` | Subscribers do not leak; the two refresh loops never overtake each other; every change is shown while the session lasts | 2 versions, 2 subscriptions | 64 k | 1.2 min |
| `accounts` | An admin remains; powers end within one session lifetime | 2 names, lifetime 2, 4 readings | 631 k | 1 min |
| `enforcement` | Only justified denials, each recorded; what counts as watched is, and new homes get watched | 4 programs, ring of 2, 3 opens, 3 homes, trie of 3 | 110 k | 1.1 min |

`CHECK_DEADLOCK FALSE` is set where the bounds (processes, events, ingests, the
clock) or the end of the agent stop a model. `Delivery`, `LivePoll` and
`Attestation` go on for ever and deadlock is checked.

### Why the bounds are enough to be interesting

* Two clock readings per tick, with `Tolerance` 1, is the smallest setting in
  which a scanned key differs from the exact one; a third reading separates "off by
  a tick" from "another process". The ring of one event overflows at once. Four
  processes over three pids recycle a pid under another parent while the first
  owner still has a node; the cap of two is exceeded by every longer run.
  `BusyProcs` keeps threads and credential changes to runs with at most two
  processes; with more, they fork, exec and exit, which is what recycling needs.
* `engine` raises signals on two event types, so that a lineage can hold two
  signals of one family, of two, or all three, inside and outside the chain
  window of one reading. Actors start where `/proc` truncates their start time,
  so that events also meet nodes they do not match. Its constraint leaves out
  scans that saw a process under a start time no actor has. Two floors are enough
  for one to have reported what the other has not.
* In `rules` one rule has three steps and a lineage scope, one has overlapping
  steps on a process, one is a one-step sequence and one a single event; the two
  timestamps are further apart than every window, and arrive in both orders. A reap
  may drop the matches of any set of keys between two events.
* `delivery` emits more records than pipe and queue hold together, so that the
  emitter blocks and the queue overflows; the service restarts while a request of
  its predecessor is still at the server; the keys file is absent, binds the
  agent's key, binds it twice, or does not have it. Two summaries need more alerts
  than three records raise; `BurstsBounded` covers them.
* `detection` has a program with two installations, one reached through a merged
  `/usr`, and one on a file system where `stat` and the kernel disagree. An install
  replaces any of them between a process's exec and its acts. The histories cover
  a habit at three ages, a burst, a reader whose exec was not captured, a file of
  the first format, and incidents marked once, several of them, and one of them again.
  A process may exec a file of another file system, with the inode number of a host
  file or with one of its own.
* `login_limiter` has a lockout longer than its window, and more addresses than
  the table has room for, so that eviction meets entries in every state.
* `store` ingests two incidents more than it has rows for and two more than the
  working set of its hosts; retention expires within the clock; one statement of
  any kind may fail. Notes are left out of the instance: a note takes the same
  path as the resolved flag.
* `enforcement` has room for three prefixes and six that could appear, one of them
  too long: the trie is filled at the start, by one refresh, or by half a refresh.
* `live_poll` starts with a session or without; the session may end and a login
  begin again at any point. One boot and one triage are under way at a time.
* Symmetry is used over hosts, addresses, pids and keys, which no definition
  tells apart, and never in a run with a liveness property.

### Fairness

| module | assumed | because |
|---|---|---|
| `Delivery` | WF of a heartbeat and of the dispatcher's receive | the liveness tick of `run()` emits one every interval; `rx.recv()` returns when there is a job. A delivery may hang for ever: `QueueDrains` has its return as a premise |
| `LivePoll` | WF of the page's timer, of a poll thread's wait and of its answer; SF of the fleet requests of `boot()` and the two loops and of their display | `setInterval`, `recv_timeout` and the request loop run on; a request that is made again and again may fail any number of times but not for ever. A triage, which nobody repeats, may fail for good |
| `Attestation` | WF of poll, heartbeat handling, time and a canary's exit; SF of a round that can spawn | the poll loop wakes every 200 ms; the child does nothing; spawning may fail now and then but not always |
| `Enforcement` | WF of the start and of handing on a record; SF of the refresh | the start waits for nobody; the refresh is due at some return of `rb.poll()`. That `on_event()` and `on_tick()` return is not assumed (both write to the agent's output): `HomesWatched` has the return of `rb.poll()` as a premise |

Nothing is assumed of processes, browsers, operators or faults, nor that a post
succeeds.

## 4. Proofs

TLAPS checks every obligation with SMT, Zenon and LS4. Eight modules hold theorems.
For each component they give an inductive invariant, prove that the initial states
have it and that every action keeps it, and derive the properties the runs check.

**`ProcessGraph_proofs`**, for any pids, clock, tolerance, retention and cap.
`GraphInvariant` is `Spec => []GInv`; from it `LinksAgree` (`EdgesAgree`),
`IndexSound` (`ByPidSound`), `CapHolds` (`CapAfterReap`), `TypeCorrect`, and the
action property `LiveLast`. `Spec` is more general than what a kernel does: any
scan, any event for any key in any order, any reap. It assumes of an event only
that it is not older than its process, and that a fork announces a child that has
no node yet, has a pid other than its parent's and is not older than it.
`EdgesAgree` is not inductive: re-keying a node that is its own parent would leave a
link to a key that is gone (hence `NoSelfLoop`), linking after the scan overwrites
what is there (hence `Flat` until then), and the cap needs finiteness. The proof has
one lemma per method (`EnsureSound`, `RekeySound`, `ResolveSound`, `RemoveSound`,
`LinkSound`, `ApplySound`, `LinkScannedSound`, `ReapSound`) that it takes sound
graphs to sound graphs.

**`Observation_lemmas`, `Observation_proofs`**: the graph agrees with the host, for any
number of processes and pids, any ring, retention and cap, any order of forks, execs,
calls, exits, entries of `/proc` and callbacks, and any loss of events. As in the
model, a process starts at most one second thread, and no pid is given out again
while `/proc` is walked.
`ObservationInvariant` is `ObsSpec => []ObsInv`; from it `NodesDenote`
(`OneNodePerProcess`), `LinksTrue` (`LineageTrue`), `ExitsMarked` (`ExitsNoticed`) and
`ObservedLinksAgree` (`EdgesAgree`), and `ReapSparesRunning` (`RunningSpared`) for the
reap of the event loop. The assumption on the clocks is `ClocksFit`: a `/proc` tick is
at most one reading above the tolerance of `adopt`, and no pid comes back before the
tolerance has passed. None of the four invariants is inductive, because the graph
lags behind the host: what a node means depends on the events that are still in the
ring. `ObsInv` has four parts.

* The host (`HostOK`): of two processes with one pid the first has ended, and they
  begin so far apart that even truncated start times tell them apart.
* The ring (`RingOK`): every event was raised by a process there was; those about one
  pid come in the order of its processes; the fork is the first event of a process
  and the exit its last.
* The graph (`GraphOK`): every node is of a process or a thread (`Covered`), a
  process has one (`Single`), links lead to the forker or to init (`Lineal`), ends
  were noted (`Gone`). That `resolve` gives a scanned node to the right process needs
  that no event of an earlier process with its pid is outstanding (`Scans`); that
  `on_fork` makes no second node needs that the child of a fork still in the ring has
  none (`Fresh`).
* The walk of `/proc` (`Walk`): a node it made is of the last process with its pid,
  and the parent's pid it noted is still that of the forker, or init's.

`Observation_lemmas` shows what each operation on the graph does to the third part
while the event at the head of the ring is taken out (`EntersOK` for a new node,
`MovesOK` for one adopted under its exact key, `ForkOK`, `ExitOK`, `ApplyOK`,
`RemoveOK`, `ReapOK`), using `ProcessGraph_proofs` for what the methods
return; `Observation_proofs` adds the steps of the host and puts them together.

**`Engine_proofs`**, first `Rules`, for any rules, processes, timestamps and number of
events. `SequencesSound` (`SequenceSound`): a sequence rule signals only when its steps were
seen in order, in one scope, within the window. `CleanSequencesFire`
(`CleanSequenceFires`): a sequence whose first step looks like no other, is not
repeated and not outlived is never missed. Soundness needs every match in flight to
stand for events that were seen: as many as its step counter says, in order, the
first of them at its timestamp (`Grounded`). Completeness is about all the runs of
events a match could have taken, and the matcher keeps one: the invariant says that
the match begun by a clean first step is at least as far as every run of steps that
starts there (`Ahead`). An event extends each such run by at most one step, and
then extends the match too. `SlotCases` is the case analysis of
`advance_sequence` that both halves use.
Then `Engine`, for any detections, floors, graphs and event streams.
`FloorsAlwaysNest` (`FloorsNest`) compares engines with different memories, so the
invariant relates them (`Nested`): what the higher floor has reported of a process
the lower one has too, at the same severity, and what only the lower one has reported
lies below the higher floor. `IncidentsEscalate` (`EscalatesOnly`) needs that the
engine's memory of a process is its last incident unless a reap found it without a
node (`Remembered`), and that nothing is evaluated during the scan (`Quiet`).

**`Store_lemmas`, `Store_proofs`**, for any hosts, bounds on
memory and disk, retention, schedule of prunes, failing statements and restarts.
`IdsNameOneIncident` (`SameIncident`), `TriageAlwaysDurable` (`TriageDurable`),
`DiskAlwaysBounded` (`RowsBounded`), and `StoreImplementsLog` (`Implements`): every
step of the store is a step of `IncidentLog` or none, as long as no statement has
failed. Memory forgets by number per host, the disk by age and by number over all
hosts. That a restart shows nobody anything but a forgotten past needs both to keep
what is newest, which is the conjunct `Coupled`: a row whose incident has left memory
is older than all that memory holds of its host, which is then full; and an incident
whose row is gone is older than every row. The second half needs ids and receive
times to be in the same order (`RowsOK`), since retention deletes by time and the cap
by id. `Store_lemmas` says what the operators return: ranks behind `ORDER BY ...
LIMIT`, what a prune keeps (`PruneKeeps`), what a start reads back (`LoadedIs`), one
more incident in memory (`AppliedIs`) and on disk (`InsertedIs`). The refinement's
main lemma is `RestartTail`: what a restart reads of a host is the end of what it
showed.

**`Delivery_proofs`**, for any number of records, capacity of the pipe and of the
queue, keys files and rate limit. `NothingLostSilently` (`NoSilentLoss`), `FiledOnce`
(`StoredOnce`) and `KeysDecide` (`FiledUnderOwner`) speak about ids and become
inductive once it is said how ids move: the pipe holds the latest in order
(`InOrder`), all that was taken from it has smaller ones (`Taken`), a request is at
the server once (`Once`), and a 200 says that the record in hand is filed
(`Acknowledged`). `SummaryCountsAll` (`SuppressedCounted`) needs that an alert is
raised by one request (`Raised`) and is in one place until it is counted
(`Waiting`). `BurstsBounded` (`BurstBounded`): in any window at most twice the limit
of alerts and one summary are sent. It needs of the deliveries that all but those of
the last two windows began a whole window ago (`Rate`), and of the summaries
that all but the last are a window old (`Told`).
The page behind it all is `LivePoll`, for any number of versions and subscriptions:
`SubscribersAlwaysLive` (`SubscribersLive`) and `LiveRefreshInOrder`
(`RefreshesInOrder`). An answer under way to `liveRefresh()` is no older than what it
showed last (`NotOlder`), which lasts only because at most one of its two callers has
a request under way (`OneFlight`); that is what the flag `refreshing` is for, and the
requests of `boot()` and `triageIncident()`, which do not take it, are why the theorem
is about `liveRefresh()` alone.

**`Access_proofs`**, who is let in.

* `Enforcement`, for any namespaces, ring and number of opens.
  `DenialsAlwaysJustified` (`DenialsJustified`) rests on what the enforcement map can
  hold whenever the hook reads it (`MapSound`); `DenialsAlwaysRecorded`
  (`DenialsRecorded`) counts the marked records of the ring.
* `LoginLimiter`, for any addresses and any limits with more than one failure allowed
  and a lockout longer than the window, as the code's constants are.
  `TableStaysBounded`: the table never holds more than `MAX_TRACKED + 1` addresses;
  `LockoutLasts` (`LockoutHolds`): no password is verified during a lockout. An entry
  whose lockout is running is in the table with its end (`Kept`); entries ever locked
  number at most `MAX_TRACKED` (`Few`), because once the table is over its limit an
  unlocked count does not survive eviction; and the address being verified is not
  locked (`NotLocked`), as time moves forward. `GuessesAlwaysLimited`
  (`GuessesLimited`) and `LockoutsDeserved` (`LockoutDeserved`) need what an entry
  says of the history: it counts the last failures of its address from the one its
  window began with (`Counts`), and of what came before all but `MAX_FAILURES - 2`
  are more than a window older than that beginning (`Slow`).
* `Accounts`, for any names and lifetime. `AdminAlwaysRemains`: while there is
  an account or a session there is an admin; without one there are no accounts at
  all, and the next start can seed again. `PowersAlwaysExpire`. The strengthening is that the history of roles is current for
  existing accounts (`HeldNow`) and every token ends at most one lifetime after its
  account last had its role (`Bounded`).

Components that share no state share a proof module where each is small.

Assumptions are the named `ASSUME`s of the modules: constants are naturals, `NoKey`
is not a key, the seed account is one of the names, a rule has a step, the signals of
a record are finitely many, every record has an alert (`AlertsOfRecords`), the clocks
of the host and the agent fit (`ClocksFit`), and so on.
TLC evaluates them in every run.

Only model-checked, of the invariants: `NamesNeverExonerate` and `DampedAsEarned` of
`Detection`. The second is about sums and counts over a history that grows (learning,
support, the factor), which would take an induction over data; the first compares two
walks up the graph, one with every name removed. Of the action properties:
`EvidenceKept`, `EvidenceNeverLowers` (a sum again), and those of `Detection` and
`Attestation`. Out of the prover's reach are liveness under
fairness (`AgentFollowsShip`, `QueueDrains`, `EventuallyShown`, `DetachmentShown`,
`HomesWatched`), `ENABLED`, and what a recursive definition computes for every
input.

## 5. What the checks say beyond "holds"

Several properties hold only in the form they are stated in; the stronger form a
reader may expect is not what the code does.

* The cap on the graph holds right after a reap, not in between.
* A process with several threads may have two nodes: an event is keyed by the
  start time of the task that made the call. The pid index then follows the
  thread, and the scanned node of the process is no longer reconciled. Hence
  `OneNodePerProcess` and `ExitsNoticed` speak of single-threaded processes.
* What happens between the scan and the attach of the sensors is unseen. An exit
  in that gap, like a dropped one, leaves a node alive until the cap takes it.
* Trust outlives a dropped exec: until the next exec that is heard, a process keeps
  the trusted name of what it ran before (`SuppressionEarned` excludes that case).
* A kernel identity whose device the table does not know is matched by path and inode
  number. `SuppressionEarned` therefore speaks of a listed file or one with the inode
  number of a listed file.
* Learning the identity of one installation of a program drops those of its others
  until they are executed again; `Recognised` says that this suffices.
* `NamesNeverExonerate` leaves out module loads, whose score the name of a kernel
  worker in the lineage lowers.
* `DampedAsEarned` measures a baseline's age on the day it is loaded, not later; a
  file of the first format has no age and never becomes stale. Three
  incidents have to be marked before more than half is taken off, or two of them
  when one is marked again.
* A line of a batch that does not parse is skipped and acknowledged with the rest;
  the agent's own lines parse, and `NoSilentLoss` is about those.
* A record that is in the shipper's hands when a post fails is gone, and so is what
  is in the pipe: `NoSilentLoss` says that the shipper, and by `AgentFollowsShip`
  the agent, stop with it.
* `EscalatesOnly` excludes processes that a reap found without a node: the memory
  of what was reported is dropped with them.
* `EvidenceNeverLowers` needs all signals within the chain window: a newer signal
  moves the window and may leave older ones behind.
* A rate window is fixed, not sliding, so `BurstBounded` is twice the limit, and the
  summary comes on top.
* `QueueDrains` and `HomesWatched` hold as long as a delivery, or the agent's own
  output, does not block for ever.
* A prefix that `encode_key` refuses is remembered as watched and is not in the trie;
  `HomesWatched` is about the others.
* A match whose process was reaped is dropped, whatever steps it had:
  `CleanSequenceFires` asks for a first step after that.
* A server that could not seed starts without accounts (`AdminRemains`).
* `GuessesLimited` excludes addresses whose count was evicted to make room, and
  is 2 * MAX_FAILURES - 2 because two windows can meet.
* Rows exceed the ceiling by those stored since the last prune (`RowsBounded`).
* `SameIncident` holds although ids are given out again: a restart continues from
  the highest row that is left, and memory is rebuilt from the same rows.
* A deleted account's sessions stay good until they expire (`PowersExpire` bounds
  that by one lifetime).
* A change that is published between two polls waits for the next one or for the
  page's safety net; `EventuallyShown` rests on the latter. The answer to a triage may
  put an older fleet back on the page until then, and without a session nothing is
  shown.

## 6. Where comments and code disagree

One disagreement is a run of its own, `scanned_trust`: `graph/mod.rs:287` does not
resolve the key of an event that is not structural, so the file open of a scanned
daemon is looked up under its exact key, which has no node, and the trust the scan
recorded is not found. `graph/scan.rs:29` says that without that trust "the
credential-read suppression they exist for would not apply to the very daemons
that were running before the agent started".

The others were met while modelling. The models follow the code, and no run states
the comment's version. Paths are below `src/src` unless they start with `bpf/` or
`docs/`.

| code | what it does | what is said |
|---|---|---|
| `bpf/common.h:231` | a thread's event creates a node of its own | `bpf/sensors/process.bpf.h:57` "we only want process-level fork/exit in the graph" |
| `graph/mod.rs:270` | the scan's parents are looked up by bare pid when the walk is over | `graph/mod.rs:17` "A bare PID is not enough" |
| `detect/score.rs:153` | 45 + 40 + 22 is capped at 100 | `detect/score.rs:96` "memfd(45)+uid0(40) -> 94, not 85" |
| `detect/rule.rs:381` | a repeated first step restarts the match, and steps that did occur in order can go unreported | `detect/rule.rs:141` "ordered steps that must all occur in scope within `within`" |
| `detect/mod.rs:143` | the lineage is the subject and its ancestors | `detect/mod.rs:137` "itself + ancestors + descendants of the chain we can see" |
| `detect/mod.rs:128` | a repeated signal keeps its first timestamp, so signals of one event may not be combined | `docs/DETECTIONS.md:13` "combined only when they are within ten minutes of each other" |
| `detect/mod.rs:203` | what was reported of a process without a node is forgotten at the next reap | `detect/mod.rs:46` "does not re-alert until things actually escalate" |
| `detect/baseline.rs:248` | the age is measured against the day of the load, and does not grow while the agent runs | `detect/baseline.rs:31` "Confidence decays with age and reaches zero at [`STALE_DAYS`]" |
| `notify.rs:138` | the summary waits for the next alert | `notify.rs:107` "suppressed alerts are counted and reported rather than dropped silently" |
| `server/store.rs:497` | rows are pruned every so many ingests, before the insert | `server/store.rs:117` "Hard ceiling on rows kept on disk" |
| `server/store.rs:345` | ids of pruned incidents are given out again after a restart | `server/store.rs:21` "Server-assigned stable id" |
| `server/store.rs:719` | marking an incident twice counts twice | `server/store.rs:669` "Undercounts on purpose" |
| `server/store.rs:570` | the oldest incidents of a busy host leave memory, resolved or not | `server/store.rs:979` "A host's score is its worst live incident" |
| `canary.rs:63` | a round after a failed spawn returns an older verdict | `canary.rs:97` "we cannot attest. Report unknown" |
| `main.rs:943` | the canary's exit attests it too | `canary.rs:25` "Whether that child's exec was observed" |
| `canary.rs:64` | a full ring fails a round with every sensor in place | `canary.rs:60` "never mistaken for a detached sensor" |
| `server/store.rs:89` | an agent that stopped after a failed round stays "blind" | `server/store.rs:57` "it is alive and reporting but blind" |
| `server/mod.rs:651` | a publish between two polls reaches nobody | `server/dashboard.rs:356` "the server answers the moment an agent ships an incident" |
| `bpf/sensors/file.bpf.h:136` | the hook returns -EPERM on a denial | `bpf/sensors/file.bpf.h:17` "we always return 0" |
| `sensors.rs:237` | an LSM list that cannot be read counts as active | `sensors.rs:282` "the worst assurance this tool could give" |
| `sensors.rs:358` | records in the ring when the loop ends are not handed on | `bpf/sensors/file.bpf.h:111` "a denial is always recorded" |
| `sensors.rs:391` | a full trie is reported at every refresh | `sensors.rs:389` "worth saying out loud once rather than on every tick" |

## 7. Not modelled

Whole parts, because they keep no state between calls and have no steps to
interleave: the remaining sensors (ptrace, module load, anonymous exec, network),
which submit one record each and share their hazards with the modelled ones; event
decoding; record rendering and text redaction; the host sweep and YARA scanning,
which inspect files once; the doctor report; the command-line front end; the
dashboard's views.

Of the modelled parts:

* A thread-group leader that exits before its other threads.
* A pid that is recycled while `/proc` is being walked: the model gives no pid out
  again until the walk is over, and `LineageTrue` is stated under that condition.
* A lineage rule whose root changes under a match in flight: `Rules` takes the root
  of an event as an input and is not composed with the graph.
* An inode number that one file system uses again for another file.
* The agent's own events, which the callback leaves out before the graph sees them.
* A wall clock that steps back, and loss of power (WAL with `synchronous=NORMAL`).
* A failing query in account deletion, and a handler that panics with a lock held.
* An exception in the page's rendering code, which would leave the refresh flag
  set (`server/dashboard.rs:374`).
* The store without a database; graph statistics; descriptive fields of a node;
  the canary's count of misses and the other telemetry of a heartbeat; the rates
  and the attribution of the noise budget.

What is left to prove: that a detector raises no less for a process without a name
(`NamesNeverExonerate`), and `EvidenceKept`.
