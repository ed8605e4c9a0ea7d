------------------------------- MODULE Store -------------------------------
(***************************************************************************)
(* The incident store of the central server (src/src/server/store.rs) when *)
(* it is opened on a database: a bounded working set per host in memory,   *)
(* the history on disk, pruning by age and by number, triage, and a restart*)
(* that rebuilds the memory from the disk.  The request loop handles one   *)
(* request at a time, so a request is one step.                            *)
(***************************************************************************)
EXTENDS Expected, FiniteSets

CONSTANTS
  Hosts,         \* reporting hosts
  Records,       \* the incidents agents report, as in Expected
  Users,         \* operators
  Notes,         \* triage notes; "" is none
  Keep,          \* None of an Option: leave the field as it is
  MaxPerHost,    \* MAX_PER_HOST
  MaxStored,     \* MAX_STORED_INCIDENTS
  PruneEvery,    \* PRUNE_EVERY
  Retain,        \* retain_days, 0 keeps forever
  MaxIngests,    \* bound: incidents ever received
  MaxTime,       \* bound: the clock's last reading
  MaxMarks,      \* bound: a count that ends the marking of pairs as expected
  MaxFaults      \* bound: statements on the database that fail

ASSUME StoreConstants ==
  /\ {MaxPerHost, MaxStored, PruneEvery} \subseteq Nat \ {0}
  /\ {Retain, MaxIngests, MaxTime, MaxMarks, MaxFaults} \subseteq Nat
  /\ \A record \in Records : IsFiniteSet(DOMAIN record.signals)

VARIABLES
  mem,           \* host -> the incidents in memory, in order of arrival
  rows,          \* id -> the incident's row on disk, with its host
  expected,      \* the expected table
  nextId, sincePrune, now,
  ingests,       \* how many incidents were received
  faults         \* how many statements on the database failed

svars == <<mem, rows, expected, nextId, sincePrune, now, ingests, faults>>

StoreInit ==
  /\ mem = [h \in Hosts |-> <<>>]
  /\ rows = [id \in {} |-> 0]
  /\ expected = NoPairs
  /\ nextId = 1 /\ sincePrune = 0 /\ now = 0
  /\ ingests = 0 /\ faults = 0

-----------------------------------------------------------------------------

Restricted(f, S) == [x \in DOMAIN f \cap S |-> f[x]]

(* apply(): the newest MAX_PER_HOST stay.                                  *)
Capped(s) ==
  IF Len(s) > MaxPerHost THEN SubSeq(s, Len(s) - MaxPerHost + 1, Len(s)) ELSE s

(* The retention half of prune().                                          *)
Recent(r) ==
  LET cutoff == IF now > Retain THEN now - Retain ELSE 0
  IN  IF Retain = 0 THEN r
      ELSE Restricted(r, {id \in DOMAIN r : r[id].inc.received >= cutoff})

(* The row cap: the oldest rows go, by receive time and then by id.        *)
Newest(r) ==
  LET before(i, j) == \/ r[i].inc.received < r[j].inc.received
                      \/ r[i].inc.received = r[j].inc.received /\ i < j
  IN  Restricted(r, {i \in DOMAIN r : Cardinality({j \in DOMAIN r : before(i, j)}) < MaxStored})

(* Mutant: pruning is by age alone.                                        *)
Prune_ByAge(r) == Recent(r)

Prune(r) == Newest(Recent(r))

(* What maybe_prune() may leave of the rows: either statement can fail, and*)
(* the failure is only logged.                                             *)
Pruned ==
  IF sincePrune + 1 < PruneEvery THEN {[rows |-> rows, lost |-> 0]}
  ELSE {[rows |-> Prune(rows), lost |-> 0],
        [rows |-> Recent(rows), lost |-> 1], [rows |-> rows, lost |-> 1]}

Higher(S, x) == {y \in S : y > x}

(* The n-th id of a set, from the lowest.                                  *)
Nth(S, n) == CHOOSE x \in S : Cardinality(Higher(S, x)) = Cardinality(S) - n

(* The ids of a host's rows.                                               *)
Ids(r, h) == {id \in DOMAIN r : r[id].host = h}

(* Mutant: the rows are read newest first.                                 *)
Loaded_NewestFirst(r) ==
  [h \in Hosts |->
     Capped([n \in 1..Cardinality(Ids(r, h)) |->
               r[Nth(Ids(r, h), Cardinality(Ids(r, h)) + 1 - n)].inc])]

(* The working set persistent() loads: every row in the order of the ids,  *)
(* through apply().                                                        *)
Loaded(r) ==
  [h \in Hosts |-> Capped([n \in 1..Cardinality(Ids(r, h)) |-> r[Nth(Ids(r, h), n)].inc])]

(* Mutant: the counter goes on from the number of rows.                    *)
MaxId_Count(r) == Cardinality(DOMAIN r)

(* The highest id the load came across.                                    *)
MaxId(r) == IF DOMAIN r = {} THEN 0 ELSE CHOOSE m \in DOMAIN r : \A id \in DOMAIN r : id <= m

Inserted(r, id, row) == [i \in DOMAIN r \cup {id} |-> IF i = id THEN row ELSE r[i]]

(* `lost` statements fail.                                                 *)
Lose(lost) == faults' = faults + lost /\ faults' <= MaxFaults

-----------------------------------------------------------------------------
(* Requests. *)

(* ingest(): the result of the insert is ignored.                          *)
Ingest(h, record) ==
  LET inc == [id |-> nextId, record |-> record, received |-> now, resolved |-> FALSE,
              by |-> "", note |-> ""]
  IN  /\ ingests < MaxIngests
      /\ nextId' = nextId + 1
      /\ sincePrune' = IF sincePrune + 1 < PruneEvery THEN sincePrune + 1 ELSE 0
      /\ \E p \in Pruned, stored \in BOOLEAN :
           /\ Lose(p.lost + IF stored THEN 0 ELSE 1)
           /\ rows' = IF stored THEN Inserted(p.rows, nextId, [host |-> h, inc |-> inc])
                      ELSE p.rows
      /\ mem' = [mem EXCEPT ![h] = Capped(Append(@, inc))]
      /\ ingests' = ingests + 1
      /\ UNCHANGED <<expected, now>>

(* The fields a request leaves out stay as they are; `by` is whoever       *)
(* touched the incident last.                                              *)
Touched(inc, by, note, resolved) ==
  [inc EXCEPT !.note = IF note = Keep THEN @ ELSE note,
              !.resolved = IF resolved = Keep THEN @ ELSE resolved,
              !.by = by]

(* The columns a triage with these arguments overwrites.                   *)
Fields(note, resolved) ==
  {"by"} \cup (IF note = Keep THEN {} ELSE {"note"})
         \cup (IF resolved = Keep THEN {} ELSE {"resolved"})

(* The columns of `fields` are overwritten, each by an UPDATE of its own.  *)
Written(old, new, fields) ==
  [old EXCEPT !.note = IF "note" \in fields THEN new.note ELSE @,
              !.resolved = IF "resolved" \in fields THEN new.resolved ELSE @,
              !.by = IF "by" \in fields THEN new.by ELSE @]

(* Bound: no more pairs are marked once one was marked MaxMarks times.     *)
MayMark == \A k \in DOMAIN expected : expected[k].count < MaxMarks

(* Mutant: who touched the incident is not written.                        *)
Resolve_NoAuthor(h, i, by, note, resolved, expect) ==
  LET old == mem[h][i]
      new == Touched(old, by, note, resolved)
  IN  /\ mem' = [mem EXCEPT ![h][i] = new]
      /\ rows' = [id \in DOMAIN rows |->
                    IF id # old.id THEN rows[id]
                    ELSE [rows[id] EXCEPT !.inc.note = new.note, !.inc.resolved = new.resolved]]
      /\ expect => MayMark
      /\ expected' = IF expect THEN MarkExpected(expected, h, old.record, {}) ELSE expected
      /\ UNCHANGED <<nextId, sincePrune, now, ingests, faults>>

(* The /api/resolve handler: triage() on an incident that is in memory,    *)
(* each field the request names and the author with an UPDATE of its own,  *)
(* and then mark_expected().                                               *)
Resolve(h, i, by, note, resolved, expect) ==
  LET old == mem[h][i]
      new == Touched(old, by, note, resolved)
  IN  /\ mem' = [mem EXCEPT ![h][i] = new]
      /\ \E failed \in SUBSET Fields(note, resolved),
            missed \in SUBSET DOMAIN old.record.signals :
           /\ IF expect THEN MayMark ELSE missed = {}
           /\ Lose(Cardinality(failed) + Cardinality(missed))
           /\ rows' = [id \in DOMAIN rows |->
                         IF id # old.id THEN rows[id]
                         ELSE [rows[id] EXCEPT
                                 !.inc = Written(@, new, Fields(note, resolved) \ failed)]]
           /\ expected' = IF expect THEN MarkExpected(expected, h, old.record, missed)
                          ELSE expected
      /\ UNCHANGED <<nextId, sincePrune, now, ingests>>

(* The process ends, however it ends, and persistent() opens the database  *)
(* again.  A prune that fails there fails the start.                       *)
Restart ==
  /\ rows' = Prune(rows)
  /\ mem' = Loaded(rows')
  /\ nextId' = MaxId(rows') + 1
  /\ sincePrune' = 0
  /\ UNCHANGED <<expected, now, ingests, faults>>

Tick ==
  /\ now < MaxTime
  /\ now' = now + 1
  /\ UNCHANGED <<mem, rows, expected, nextId, sincePrune, ingests, faults>>

StoreNext ==
  \/ \E h \in Hosts, record \in Records : Ingest(h, record)
  \/ \E h \in Hosts : \E i \in DOMAIN mem[h] :
       \E by \in Users, note \in Notes \cup {Keep}, resolved \in BOOLEAN \cup {Keep},
          expect \in BOOLEAN :
         Resolve(h, i, by, note, resolved, expect)
  \/ Restart
  \/ Tick

StoreSpec == StoreInit /\ [][StoreNext]_svars

-----------------------------------------------------------------------------
(* Properties. *)

(* An id names one incident: memory and disk never hold two different      *)
(* incidents under the same id, also after inserts failed, rows were pruned*)
(* and the counter was rebuilt from what was left, so the UPDATE of a      *)
(* triage ("WHERE id = ?") reaches the incident it was meant for.          *)
SameIncident ==
  \A h \in Hosts : \A i \in DOMAIN mem[h] :
    LET inc == mem[h][i]
    IN  /\ inc.id \in DOMAIN rows =>
             /\ rows[inc.id].host = h
             /\ rows[inc.id].inc.record = inc.record
        /\ \A g \in Hosts : \A j \in DOMAIN mem[g] :
             mem[g][j].id = inc.id => g = h /\ j = i

(* Triage is durable: while no statement fails, whatever is both in memory *)
(* and on disk has the same triage state in both.                          *)
TriageDurable ==
  faults = 0 =>
    \A h \in Hosts : \A i \in DOMAIN mem[h] :
      mem[h][i].id \in DOMAIN rows => rows[mem[h][i].id].inc = mem[h][i]

(* The disk is bounded while statements succeed, though not by             *)
(* MAX_STORED_INCIDENTS: the row of the ingest that pruned, and those of   *)
(* the up to PRUNE_EVERY - 1 ingests since, come on top.                   *)
RowsBounded ==
  faults = 0 => Cardinality(DOMAIN rows) <= MaxStored + 1 + sincePrune

(* The store as its users see it, while no statement fails: the memory is  *)
(* the log, a restart is invisible but for what pruning forgets.           *)
Shown == IF faults = 0 THEN mem ELSE [h \in Hosts |-> <<>>]
Log == INSTANCE IncidentLog WITH log <- Shown
Implements == Log!LogSpec

=============================================================================
