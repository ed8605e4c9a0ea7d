----------------------------- MODULE Detection -----------------------------
(***************************************************************************)
(* From a system call to a signal and its weight.  Files are installed and *)
(* replaced on the host, processes run them and act, the kernel queues an  *)
(* event for each in a ring of bounded size and drops what does not fit,   *)
(* and the agent, some time later, resolves the trust of the event's       *)
(* executable, applies the event to the graph, runs the detectors, files   *)
(* the signals and scores the lineage against the baseline.                *)
(*                                                                         *)
(* The baseline is some days old when the agent starts.  It was learned    *)
(* from a capture (baseline_build in src/src/main.rs), a sequence of events*)
(* as `record` wrote them with the trust it resolved, or it was fetched    *)
(* from the panel, where operators had marked incidents as expected.       *)
(*                                                                         *)
(* There are no rules, forks, exits or reaps here: Rules, Observation and  *)
(* Engine are about those.  The scan finds a process and its child, which  *)
(* may be in a container, each under its exact key.                        *)
(***************************************************************************)
EXTENDS Evaluation, Detectors, Expected

CONSTANTS
  Parent,        \* the key of a process that runs one file all the time
  Child,         \* and of its child, which execs and acts
  Paths,         \* names a file may be run under
  Shells,        \* those of them that is_shell() knows
  ImageInodes,   \* inode numbers of the files in the container's image
  Installed,     \* canonical paths of the files that are there at first
  ParentRuns,    \* those of them that the parent may be running
  Acts,          \* what the child does beside exec: set of [type, d]
  Shapes,        \* the events NamesNeverExonerate looks at: set of [type, d]
  Histories,     \* what the baseline may come from: set of [from, seen, age]
  Floor,         \* min_severity
  RingCap,       \* events the ring buffer holds
  MaxInstalls,   \* bound: files installed later
  MaxCalls       \* bound: calls the processes make

ASSUME DetectionConstants ==
  /\ {Parent, Child} \subseteq Key /\ Parent # Child
  /\ Floor \in Severities /\ {RingCap, MaxInstalls, MaxCalls} \subseteq Nat

Keys == {Parent, Child}
Host(p, k) == [fs |-> "host", at |-> p, n |-> k]
Foreign == {[fs |-> "image", at |-> i[1], n |-> i[2]] : i \in ImageInodes}

VARIABLES
  disk,          \* canonical path -> file
  installs,      \* files installed so far
  image,         \* key -> the file the process really runs
  contained,     \* the processes in a container
  ring,          \* events the agent has not seen
  deaf,          \* history: the child's last exec was dropped
  table,         \* the trusted binaries
  exe,           \* key -> exe of its node
  signals,       \* key -> signal id -> [score, ts]
  reported,      \* key -> severity
  calls,         \* calls made so far
  baseline,      \* the baseline loaded
  history        \* where it is from: a "capture", a capture that was saved in
                 \* the first format ("v1") or the "panel"; what was seen there;
                 \* and how old it was when it was loaded

world == <<disk, installs, image, contained, deaf, calls>>
agent == <<table, graph, exe, signals, reported>>
fixed == <<baseline, history, edges, phase>>
dvars == <<world, agent, ring, fixed>>

-----------------------------------------------------------------------------
(* Learning. *)

(* The loop of baseline_build(): a line that is no event is skipped, every *)
(* event goes into a graph that starts empty and into the window, and its  *)
(* signals are observed under the executable its process has by then.      *)
BaselineBuild(events) ==
  LET step(st, e) ==
        LET g == ApplyEvent(st.graph, e.ev)
            exes == IF e.ev.type = "Exec" THEN Put(st.exe, e.ev.key, e.path) ELSE st.exe
            of(k) == IF k \in DOMAIN exes THEN exes[k] ELSE Empty
        IN  [graph |-> g, exe |-> exes,
             b |-> FoldSet(LAMBDA s, b : Observe(b, s.id, of(e.ev.key), e.ev.ts),
                           NoteEvent(st.b, e.ev.ts), Detect(g, e.ev, e.d))]
      st[n \in 0..Len(events)] ==
        IF n = 0 THEN [graph |-> NewGraph, exe |-> NoMap, b |-> NewBaseline(1)]
        ELSE step(st[n - 1], events[n])
  IN  st[Len(events)].b

(* The incidents an operator marked, one after the other.                  *)
Marked(incs) ==
  LET upto[n \in 0..Len(incs)] ==
        IF n = 0 THEN NoPairs ELSE MarkExpected(upto[n - 1], "host", incs[n], {})
  IN  upto[Len(incs)]

Learned(h) ==
  CASE h.from = "capture" -> BaselineBuild(h.seen)
    [] h.from = "v1" -> AsV1(BaselineBuild(h.seen))
    [] h.from = "panel" -> BaselineFor(Marked(h.seen), "host", 1)

-----------------------------------------------------------------------------
(* The agent starts. *)

(* scan_one(): the identity is a stat of the running file, the name is a   *)
(* link that may point to a file no longer there.                          *)
ScannedNode(k, f) ==
  [NewNode(k, "Scanned") EXCEPT !.comm = "sh", !.trusted = Lookup(table, StatId(f))]

DetectionInit ==
  /\ disk = [p \in {RealPath[q] : q \in DOMAIN RealPath} |->
               IF p \in Installed THEN Host(p, 0) ELSE NoFile]
  /\ installs = 0
  /\ contained \in SUBSET {Child}
  /\ image \in [Keys -> {disk[p] : p \in Installed} \cup Foreign]
  /\ image[Parent] \in {disk[p] : p \in ParentRuns}
  /\ image[Child] \in Foreign <=> Child \in contained
  /\ ring = <<>> /\ deaf = FALSE
  /\ table = ResolveHost(disk)
  /\ graph = LinkScanned(InsertScanned(InsertScanned(NewGraph, Parent,
                                                     ScannedNode(Parent, image[Parent])),
                                       Child, ScannedNode(Child, image[Child])),
                         [k \in {Child} |-> Parent.pid])
  /\ exe = [k \in Keys |-> IF image[k] \in Foreign THEN "image" ELSE image[k].at]
  /\ signals = NoMap /\ reported = NoMap
  /\ calls = 0 /\ history \in Histories
  /\ baseline = Load(Learned(history), 1 + history.age)
  /\ edges = NoEdges /\ phase = "run"

-----------------------------------------------------------------------------
(* The host. *)

(* A package manager puts a new file in place, or the first one.           *)
Install(p) ==
  /\ installs < MaxInstalls
  /\ installs' = installs + 1
  /\ disk' = [disk EXCEPT ![p] = Host(p, installs')]
  /\ UNCHANGED <<image, contained, deaf, calls, agent, ring, fixed>>

(* What the graph reads of an event of the child.                          *)
EventOfChild(type, comm) ==
  [type |-> type, key |-> Child, child |-> NoKey, ts |-> 1, comm |-> comm,
   trusted |-> Empty, container |-> IF Child \in contained THEN "box" ELSE Empty]

(* The event of a call of the child: what the graph and the detectors      *)
(* read, the name and identity of its executable, and, as history, what it *)
(* really runs and whether its exec was heard of.                          *)
Report(type, d, comm, path) ==
  [ev |-> EventOfChild(type, comm), d |-> d, path |-> path,
   id |-> KernelId(image'[Child]), file |-> image'[Child], heard |-> ~deaf']

Fits == Len(ring) < RingCap

Call(type, d, comm, path) ==
  /\ calls < MaxCalls /\ calls' = calls + 1
  /\ ring' = IF Fits THEN Append(ring, Report(type, d, comm, path)) ELSE ring
  /\ UNCHANGED <<disk, installs, contained, agent, fixed>>

ExecDetail(path) ==
  [ns |-> 2, volatile |-> FALSE, socket |-> FALSE,
   program |-> IF path \in Shells THEN "shell" ELSE "other"]

(* A process in a container runs files of its image, under any name; the   *)
(* others run what the host has at the path.  Its command name is its own  *)
(* choice.                                                                 *)
Exec(path, comm) ==
  /\ \E f \in (IF Child \in contained THEN Foreign ELSE {Resolved(disk, path)}) \ {NoFile} :
       image' = [image EXCEPT ![Child] = f]
  /\ deaf' = ~Fits
  /\ Call("Exec", ExecDetail(path), comm, path)

Act(a) == UNCHANGED <<image, deaf>> /\ Call(a.type, a.d, Empty, Empty)

-----------------------------------------------------------------------------
(* The agent's event callback. *)

(* adjust_for_baseline(): a signal weighs what the executable its process  *)
(* has at the moment was learned to do.                                    *)
Weighed(sigs, exes) ==
  {[s EXCEPT !.score = Adjusted(baseline, s.id, exes[s.on], @)] : s \in sigs}

Handle ==
  /\ ring # <<>>
  /\ LET e == Head(ring)
         trust == ResolveTrust(table, disk, e.ev.type, e.path, e.id)
         g == ApplyEvent(graph, [e.ev EXCEPT !.trusted = trust.name])
         exes == IF e.ev.type = "Exec" THEN Put(exe, e.ev.key, e.path) ELSE exe
         subject == e.ev.key
         found == Detect(g, e.ev, e.d)
         sigs == Put(signals, subject, Merge(BucketOf(signals, subject), found, e.ev.ts))
         walk == Lineage(g, subject)
         score == ScoreOf(Weighed(Gathered(sigs, Range(walk)), exes),
                          NetworkRooted(g, walk), InContainer(g, walk))
     IN  /\ table' = trust.table
         /\ graph' = g
         /\ exe' = exes
         /\ IF found = {} THEN UNCHANGED <<signals, reported>>
            ELSE /\ signals' = sigs
                 /\ reported' = IF Alerts(Floor, score, reported, subject)
                                THEN Put(reported, subject, SeverityOf(score)) ELSE reported
  /\ ring' = Tail(ring)
  /\ UNCHANGED <<world, fixed>>

DetectionNext ==
  \/ \E p \in DOMAIN disk : Install(p)
  \/ \E path \in Paths, comm \in Comms : Exec(path, comm)
  \/ \E a \in Acts : Act(a)
  \/ Handle

DetectionSpec == DetectionInit /\ [][DetectionNext]_dvars

-----------------------------------------------------------------------------
(* Properties. *)

Handled == Len(ring') < Len(ring)

(* The file was installed at a path the table lists for the role, or is one*)
(* of an image and has the inode number of such a file.                    *)
Listed(f, role) ==
  \E i \in DOMAIN Table : /\ Table[i].role = role
                          /\ f.at \in {RealPath[p] : p \in Table[i].paths}

(* The role that excuses an event.                                         *)
Excuses(e) ==
  CASE e.ev.type = "FileOpen" -> "CredentialReader"
    [] e.ev.type = "SockListen" -> "NetworkDaemon"
    [] OTHER -> "none"

(* Silence is earned: a credential read or a listening port that raises no *)
(* signal comes from a process that runs a file installed at a path of a   *)
(* program with that role, or one with the inode number of such a file,    *)
(* whatever was upgraded meanwhile, however the process is called and      *)
(* whatever path a container calls its file; only an exec that was dropped *)
(* from the ring leaves an earlier name in place.  That the number is      *)
(* enough for a file on another device is how rebind_from_kernel() bridges *)
(* the devices that stat and the kernel name for one file.                 *)
SuppressionEarned ==
  [][LET e == Head(ring)
     IN  Handled /\ e.heard /\ Excuses(e) # "none" /\ Detect(graph', e.ev, e.d) = {} =>
           Listed(e.file, Excuses(e))]_dvars

(* An upgrade does not turn a program into a source of alerts: an exec of  *)
(* the file that is at a path found at startup gives the process the       *)
(* program's name, also if the file is a later one, if stat and the kernel *)
(* disagree about its device, or if learning the identity of the program's *)
(* other installation has dropped this one's (rebind_from_kernel, bind).   *)
Recognised ==
  [][LET e == Head(ring)
     IN  Handled /\ e.ev.type = "Exec" /\ e.file = Resolved(disk, e.path)
         /\ e.path \in DOMAIN table.byPath =>
           graph'.nodes[e.ev.key].trusted = table.byPath[e.path]]_dvars

Nameless(g) == [g EXCEPT !.nodes = [k \in DOMAIN @ |-> [@[k] EXCEPT !.comm = Empty]]]

(* Names may accuse, never exonerate: whatever the processes of a lineage  *)
(* call themselves, an event raises at least the signals it would raise if *)
(* none of them had a name.  Module loads are not among the Shapes: there  *)
(* the name of a kernel worker in the lineage does lower the score.        *)
NamesNeverExonerate ==
  \A s \in Shapes :
    LET ev == EventOfChild(s.type, Empty)
    IN  Detect(Nameless(graph), ev, s.d) \subseteq Detect(graph, ev, s.d)

(* The sightings of a pair: in the capture, as far as its executable is in *)
(* there, or in the incidents that were marked, each of them once.         *)
Sightings(id, path) ==
  LET c == history.seen
  IN  IF history.from = "panel"
      THEN UNION {{[at |-> <<c[n].id, i>>, ts |-> c[n].signals[i].ts] :
                     i \in {j \in DOMAIN c[n].signals : c[n].signals[j].id = id}} :
                    n \in {m \in DOMAIN c : c[m].exe = path}}
      ELSE {[at |-> n, ts |-> c[n].ev.ts] :
              n \in {m \in DOMAIN c :
                       /\ id = "credential_store_read" /\ c[m].ev.type = "FileOpen"
                       /\ \E x \in 1..m : c[x].ev.type = "Exec" /\ c[x].path = path}}

MarkedTwice ==
  history.from = "panel" /\ ~IsInjective([n \in DOMAIN history.seen |-> history.seen[n].id])

(* What a baseline takes off a signal is earned: it takes nothing unless   *)
(* that signal was seen from, or marked for, the executable the process now*)
(* has and the baseline was not stale when it was loaded (a file of the    *)
(* first format does not tell its age); and it takes more than half only   *)
(* for a pair with sightings at two moments, and with three of them where  *)
(* no incident was marked twice.  Marking one again counts again in        *)
(* mark_expected(), so it stands in for the third sighting, but it does not*)
(* widen the window: never is it enough for a single one.                  *)
DampedAsEarned ==
  \A k \in DOMAIN signals : \A s \in Gathered(signals, {k}) :
    LET left == CHOOSE w \in {x.score : x \in Weighed({s}, exe)} : TRUE
        seen == Sightings(s.id, exe[k])
    IN  /\ left < s.score => seen # {} /\ (history.age < StaleDays \/ history.from = "v1")
        /\ 2 * left < s.score => /\ Cardinality(seen) >= 3 \/ MarkedTwice
                                 /\ \E a, b \in seen : a.ts # b.ts
                                 /\ history.from # "v1"

=============================================================================
