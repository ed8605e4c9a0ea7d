---------------------------- MODULE Store_proofs ----------------------------
(***************************************************************************)
(* Ids name one incident, triage is durable and the disk is bounded: for   *)
(* every fleet, every bound on memory and disk, every retention and every  *)
(* schedule of failures and restarts.                                      *)
(*                                                                         *)
(* The memory and the disk forget by different rules: the memory by number *)
(* per host, the disk by age and by number over all hosts.  That a restart *)
(* shows nobody anything but a forgotten past needs both to keep what is   *)
(* newest (Coupled): a row whose incident the memory has dropped is older  *)
(* than all the memory holds of the host, which is then full; and an       *)
(* incident whose row is gone is older than every row.  The latter needs   *)
(* that ids and receive times are in the same order (RowsOK).              *)
(*                                                                         *)
(* And the store implements IncidentLog: an ingest adds, a triage step     *)
(* decides, and a restart only forgets.  What it reads back of a host is   *)
(* the end of what was shown (RestartTail), by the same invariant.         *)
(***************************************************************************)
EXTENDS Store_lemmas

(* Leaves go to Zenon, those with arithmetic or records to SMT, as cited; the
   time is for a slow machine.                                             *)
USE ZenonT(30)

Shape ==
  /\ mem \in [Hosts -> Seq(Inc)]
  /\ \A h \in Hosts : LogOK(mem[h], nextId)
  /\ RowsOK(rows, nextId, now)
  /\ nextId \in Nat \ {0} /\ sincePrune \in 0..PruneEvery - 1
  /\ now \in Nat /\ faults \in Nat

Coupled ==
  faults = 0 =>
    \A h \in Hosts :
      /\ \A id \in Ids(rows, h) :
           \/ id \in IdsOf(mem[h])
           \/ Len(mem[h]) = MaxPerHost /\ id < mem[h][1].id
      /\ \A i \in DOMAIN mem[h] :
           mem[h][i].id \notin DOMAIN rows => \A id \in DOMAIN rows : mem[h][i].id < id

SInv == Shape /\ SameIncident /\ Coupled /\ TriageDurable /\ RowsBounded

-----------------------------------------------------------------------------
(* The invariant. *)

(* It holds of the empty store.                                            *)
LEMMA InitSInv == StoreInit => SInv
<1> SUFFICES ASSUME StoreInit PROVE SInv
  OBVIOUS
<1>1. DOMAIN rows = {} /\ \A h \in Hosts : mem[h] = <<>>
  BY DEF StoreInit
<1>2. IsFiniteSet({}) /\ Cardinality({}) = 0
  BY FS_EmptySet
<1>3. RowsOK(rows, nextId, now)
  BY <1>1, <1>2 DEF RowsOK, StoreInit
<1>4. \A h \in Hosts : LogOK(mem[h], nextId)
  <2>1. LogOK(<<>>, nextId)
    BY SMTT(30), StoreConstants DEF LogOK, Increasing
  <2> QED
    BY <1>1, <2>1
<1>5. Shape
  BY SMTT(30), <1>1, <1>3, <1>4, StoreConstants DEF Shape, StoreInit
<1>6. SameIncident /\ TriageDurable /\ Coupled
  BY SMTT(30), <1>1 DEF SameIncident, TriageDurable, Coupled, Ids
<1>7. RowsBounded
  BY SMTT(30), <1>1, <1>2, StoreConstants DEF RowsBounded, StoreInit
<1> QED
  BY <1>5, <1>6, <1>7 DEF SInv

(* The clock moves forward.                                                *)
LEMMA TickSInv == SInv /\ Tick => SInv'
<1> SUFFICES ASSUME SInv, Tick PROVE SInv'
  OBVIOUS
<1>1. /\ UNCHANGED <<mem, rows, nextId, sincePrune, faults>>
      /\ now \in Nat /\ now' \in Nat /\ now <= now'
  BY SMTT(30) DEF Tick, SInv, Shape
<1>2. RowsOK(rows, nextId, now')
  <2>1. \A id \in DOMAIN rows : rows[id] \in Row
    BY DEF SInv, Shape, RowsOK
  <2>2. \A id \in DOMAIN rows : rows[id].inc.received \in Nat
    BY <2>1, Zenon DEF Row, Inc
  <2> QED
    BY SMTT(30), <1>1, <2>2 DEF SInv, Shape, RowsOK
<1>3. Shape'
  BY <1>1, <1>2 DEF SInv, Shape
<1>4. SameIncident' /\ TriageDurable' /\ RowsBounded'
  BY SMTT(30), <1>1 DEF SInv, SameIncident, TriageDurable, RowsBounded
<1>5. Coupled'
  BY <1>1 DEF SInv, Coupled
<1> QED
  BY <1>3, <1>4, <1>5 DEF SInv

(* A restart: what is left on disk, and the working set read from it.      *)
LEMMA RestartSInv == SInv /\ Restart => SInv'
<1> SUFFICES ASSUME SInv, Restart PROVE SInv'
  OBVIOUS
<1>1. /\ RowsOK(rows, nextId, now) /\ now \in Nat /\ faults \in Nat
      /\ rows' = Prune(rows) /\ mem' = Loaded(rows') /\ nextId' = MaxId(rows') + 1
      /\ sincePrune' = 0 /\ now' = now /\ faults' = faults
  BY DEF SInv, Shape, Restart
<1>2. RowsOK(rows', nextId, now) /\ Cardinality(DOMAIN rows') <= MaxStored
  BY <1>1, PruneKeeps
<1>3. MaxId(rows') \in Nat /\ \A id \in DOMAIN rows' : id <= MaxId(rows')
  BY <1>2, MaxIdIs
<1>4. nextId' \in Nat \ {0} /\ RowsOK(rows', nextId', now')
  BY SMTT(30), <1>1, <1>2, <1>3 DEF RowsOK
<1>5. \A h \in Hosts : LogOK(mem'[h], nextId')
  BY <1>1, <1>4, LoadedIs
<1>6. mem' \in [Hosts -> Seq(Inc)]
  <2>1. mem' = [h \in Hosts |-> mem'[h]]
    BY <1>1 DEF Loaded
  <2> QED
    BY <2>1, <1>5 DEF LogOK
<1>7. Shape'
  BY SMTT(30), <1>1, <1>4, <1>5, <1>6, StoreConstants DEF Shape
<1>8. \A h \in Hosts : \A i \in DOMAIN mem'[h] :
        /\ mem'[h][i].id \in DOMAIN rows'
        /\ rows'[mem'[h][i].id].host = h /\ rows'[mem'[h][i].id].inc = mem'[h][i]
        /\ \A g \in Hosts : \A j \in DOMAIN mem'[g] :
             mem'[g][j].id = mem'[h][i].id => g = h /\ j = i
  BY SMTT(30), <1>1, <1>4, LoadedAgrees
<1>9. SameIncident' /\ TriageDurable'
  BY SMTT(30), <1>8 DEF SameIncident, TriageDurable
<1>10. RowsBounded'
  <2>1. Cardinality(DOMAIN rows') \in Nat
    BY <1>2, FS_CardinalityType DEF RowsOK
  <2> QED
    BY SMTT(30), <1>1, <1>2, <2>1, StoreConstants DEF RowsBounded
<1>11. Coupled'
  <2>1. ASSUME NEW h \in Hosts, NEW id \in Ids(rows', h), id \notin IdsOf(mem'[h])
        PROVE  Len(mem'[h]) = MaxPerHost /\ id < mem'[h][1].id
    <3> DEFINE D == Ids(rows', h)
               s == mem'[h]
    <3>1. (\A x \in D : x \in Nat) /\ IsFiniteSet(D)
      <4>1. D \in SUBSET DOMAIN rows'
        BY DEF Ids
      <4> QED
        BY <4>1, <1>4, FS_Subset DEF RowsOK
    <3>2. /\ \A i \in DOMAIN s : s[i].id \in D /\ Cardinality(Higher(D, s[i].id)) < MaxPerHost
          /\ \A x \in D : Cardinality(Higher(D, x)) < MaxPerHost => x \in IdsOf(s)
          /\ Cardinality(D) >= MaxPerHost => Len(s) = MaxPerHost
          /\ s \in Seq(Inc)
      BY <1>1, <1>4, LoadedIs DEF LogOK
    <3> HIDE DEF D, s
    <3>3. /\ Cardinality(D) \in Nat
          /\ \A x \in D : Cardinality(Higher(D, x)) \in 0..Cardinality(D) - 1
          /\ \A x, z \in D : x < z => Cardinality(Higher(D, z)) < Cardinality(Higher(D, x))
      BY <3>1, Ranks
    <3>4. MaxPerHost \in Nat \ {0} /\ id \in D
      BY StoreConstants DEF D
    <3>5. ~(Cardinality(Higher(D, id)) < MaxPerHost)
      BY <2>1, <3>2, <3>4 DEF s
    <3>6. Len(s) = MaxPerHost
      BY SMTT(30), <3>2, <3>3, <3>4, <3>5
    <3>7. 1 \in DOMAIN s
      BY SMTT(30), <3>2, <3>4, <3>6
    <3>8. s[1].id \in D /\ Cardinality(Higher(D, s[1].id)) < MaxPerHost
      BY <3>2, <3>7
    <3>9. id < s[1].id
      BY SMTT(30), <3>1, <3>3, <3>4, <3>5, <3>8
    <3> QED
      BY <3>6, <3>9 DEF s
  <2> QED
    BY <2>1, <1>8 DEF Coupled
<1> QED
  BY <1>7, <1>9, <1>10, <1>11 DEF SInv

(* What maybe_prune() leaves: the rows or the newest of them, and, when it *)
(* was due and nothing failed, no more than MAX_STORED_INCIDENTS.          *)
LEMMA PrunedIs ==
  ASSUME SInv, NEW p \in Pruned
  PROVE  /\ p.lost \in {0, 1}
         /\ RowsOK(p.rows, nextId, now)
         /\ DOMAIN p.rows \subseteq DOMAIN rows
         /\ \A id \in DOMAIN p.rows : p.rows[id] = rows[id]
         /\ \A a \in DOMAIN p.rows, b \in DOMAIN rows : a <= b => b \in DOMAIN p.rows
         /\ p.lost = 0 => \/ sincePrune + 1 < PruneEvery /\ p.rows = rows
                          \/ /\ ~(sincePrune + 1 < PruneEvery)
                             /\ Cardinality(DOMAIN p.rows) <= MaxStored
<1>1. RowsOK(rows, nextId, now) /\ now \in Nat
  BY DEF SInv, Shape
<1>2. CASE p.rows = rows /\ p.lost \in {0, 1} /\ (p.lost = 0 => sincePrune + 1 < PruneEvery)
  BY <1>1, <1>2
<1>3. CASE p.rows = Prune(rows) /\ p.lost = 0 /\ ~(sincePrune + 1 < PruneEvery)
  BY <1>1, <1>3, PruneKeeps
<1>4. CASE p.rows = Recent(rows) /\ p.lost = 1
  <2>1. p.lost \in {0, 1} /\ p.lost # 0
    BY SMTT(30), <1>4
  <2> QED
    BY <1>1, <1>4, <2>1, RecentKeeps
<1> QED
  BY SMTT(30), <1>2, <1>3, <1>4 DEF Pruned

(* An ingest: the memory and the disk both get the incident at their newest*)
(* end, and lose at most what is oldest.                                   *)
LEMMA IngestSInv ==
  ASSUME SInv, NEW h \in Hosts, NEW record \in Records, Ingest(h, record)
  PROVE  SInv'
<1> DEFINE inc == [id |-> nextId, record |-> record, received |-> now, resolved |-> FALSE,
                   by |-> "", note |-> ""]
           row == [host |-> h, inc |-> inc]
           t == Capped(Append(mem[h], inc))
<1>1. /\ nextId \in Nat \ {0} /\ now \in Nat /\ faults \in Nat
      /\ sincePrune \in 0..PruneEvery - 1 /\ mem \in [Hosts -> Seq(Inc)]
      /\ \A g \in Hosts : LogOK(mem[g], nextId)
  BY DEF SInv, Shape
<1>2. PICK p \in Pruned, stored \in BOOLEAN :
        /\ faults' = faults + (p.lost + IF stored THEN 0 ELSE 1)
        /\ rows' = IF stored THEN Inserted(p.rows, nextId, row) ELSE p.rows
  BY Zenon DEF Ingest, Lose
<1>3. /\ nextId' = nextId + 1 /\ now' = now
      /\ sincePrune' = IF sincePrune + 1 < PruneEvery THEN sincePrune + 1 ELSE 0
      /\ mem' = [mem EXCEPT ![h] = t]
  BY Zenon DEF Ingest
<1>4. /\ inc \in Inc /\ inc.id = nextId /\ inc.received = now /\ inc.record = record
      /\ row \in Row /\ row.inc = inc /\ row.host = h
  BY <1>1, Zenon DEF Inc, Row
<1> HIDE DEF inc, row
<1> DEFINE q == p.rows
<1>5. /\ p.lost \in {0, 1} /\ RowsOK(q, nextId, now)
      /\ DOMAIN q \subseteq DOMAIN rows /\ (\A id \in DOMAIN q : q[id] = rows[id])
      /\ \A a \in DOMAIN q, b \in DOMAIN rows : a <= b => b \in DOMAIN q
      /\ p.lost = 0 => \/ sincePrune + 1 < PruneEvery /\ q = rows
                       \/ ~(sincePrune + 1 < PruneEvery) /\ Cardinality(DOMAIN q) <= MaxStored
  BY PrunedIs
<1> HIDE DEF q
<1>6. /\ DOMAIN Inserted(q, nextId, row) = DOMAIN q \cup {nextId}
      /\ Inserted(q, nextId, row)[nextId] = row
      /\ \A id \in DOMAIN q : Inserted(q, nextId, row)[id] = q[id]
      /\ RowsOK(Inserted(q, nextId, row), nextId + 1, now)
      /\ Cardinality(DOMAIN q \cup {nextId}) = Cardinality(DOMAIN q) + 1
  <2>1. row \in Row /\ row.inc.id = nextId /\ row.inc.received = now
    BY <1>4
  <2>2. nextId \in Nat \ {0} /\ now \in Nat /\ RowsOK(q, nextId, now)
    BY <1>1, <1>5
  <2> QED
    BY SMTT(30), <2>1, <2>2, InsertedIs DEF Row
<1>7. /\ LogOK(t, nextId + 1)
      /\ \A i \in DOMAIN t : t[i] = inc \/ \E j \in DOMAIN mem[h] : t[i] = mem[h][j]
      /\ \E i \in DOMAIN t : t[i] = inc
      /\ \A j \in DOMAIN mem[h] :
           mem[h][j].id \in IdsOf(t) \/ (Len(t) = MaxPerHost /\ mem[h][j].id < t[1].id)
      /\ Len(mem[h]) = MaxPerHost => Len(t) = MaxPerHost /\ mem[h][1].id < t[1].id
  BY SMTT(30), <1>1, <1>4, AppliedIs
<1> HIDE DEF t
<1>8. /\ mem'[h] = t /\ (\A g \in Hosts \ {h} : mem'[g] = mem[g])
      /\ mem' \in [Hosts -> Seq(Inc)]
  <2>1. t \in Seq(Inc)
    BY <1>7 DEF LogOK
  <2> QED
    BY <2>1, <1>1, <1>3
<1>9. Shape'
  <2>1. \A id \in DOMAIN q : id \in Nat /\ id < nextId
    BY <1>5 DEF RowsOK
  <2>2. RowsOK(q, nextId + 1, now)
    BY SMTT(30), <1>1, <1>5, <2>1 DEF RowsOK
  <2>3. RowsOK(rows', nextId', now')
    BY <1>2, <1>3, <1>6, <2>2 DEF q
  <2>4. ASSUME NEW g \in Hosts PROVE LogOK(mem'[g], nextId')
    <3>1. CASE g = h
      BY <3>1, <1>3, <1>7, <1>8
    <3>2. CASE g # h
      <4>1. LogOK(mem[g], nextId)
        BY <1>1
      <4>2. \A i \in DOMAIN mem[g] : mem[g][i].id \in Nat /\ mem[g][i].id < nextId
        BY <4>1, OnePlace
      <4>3. LogOK(mem[g], nextId + 1)
        BY SMTT(30), <4>1, <4>2, <1>1 DEF LogOK
      <4> QED
        BY <3>2, <4>3, <1>3, <1>8
    <3> QED
      BY <3>1, <3>2
  <2>5. PruneEvery \in Nat \ {0} /\ p.lost \in {0, 1}
    BY <1>5, StoreConstants
  <2>6. sincePrune' \in 0..PruneEvery - 1
    BY SMTT(30), <2>5, <1>1, <1>3
  <2>7. faults' \in Nat
    BY SMTT(30), <2>5, <1>1, <1>2
  <2> QED
    BY SMTT(30), <2>3, <2>4, <2>6, <2>7, <1>1, <1>3, <1>8 DEF Shape
<1>10. ASSUME NEW g \in Hosts, NEW i \in DOMAIN mem'[g]
       PROVE  \/ g = h /\ mem'[g][i] = inc
              \/ \E j \in DOMAIN mem[g] : mem'[g][i] = mem[g][j]
  BY SMTT(30), <1>7, <1>8
<1>11. \A g \in Hosts : \A j \in DOMAIN mem[g] : mem[g][j].id \in Nat /\ mem[g][j].id < nextId
  BY <1>1, OnePlace
<1>12. ASSUME NEW g \in Hosts, NEW j \in DOMAIN mem[g], mem[g][j].id \in DOMAIN rows'
       PROVE  mem[g][j].id \in DOMAIN rows /\ rows'[mem[g][j].id] = rows[mem[g][j].id]
  <2>1. mem[g][j].id # nextId
    BY SMTT(30), <1>11, <1>1
  <2>2. mem[g][j].id \in DOMAIN q
    BY <2>1, <1>2, <1>6, <1>12 DEF q
  <2> QED
    BY <2>2, <1>2, <1>5, <1>6 DEF q
<1>13. nextId \in DOMAIN rows' => rows'[nextId] = row
  <2>1. nextId \notin DOMAIN q
    BY SMTT(30), <1>1, <1>5 DEF RowsOK
  <2> QED
    BY <2>1, <1>2, <1>6 DEF q
<1>14. SameIncident'
  <2>1. ASSUME NEW g \in Hosts, NEW i \in DOMAIN mem'[g], mem'[g][i].id \in DOMAIN rows'
        PROVE  /\ rows'[mem'[g][i].id].host = g
               /\ rows'[mem'[g][i].id].inc.record = mem'[g][i].record
    <3>1. CASE g = h /\ mem'[g][i] = inc
      BY <2>1, <3>1, <1>4, <1>13
    <3>2. CASE \E j \in DOMAIN mem[g] : mem'[g][i] = mem[g][j]
      BY SMTT(30), <2>1, <3>2, <1>12 DEF SInv, SameIncident
    <3> QED
      BY <3>1, <3>2, <1>10
  <2>2. ASSUME NEW g \in Hosts, NEW i \in DOMAIN mem'[g],
               NEW k \in Hosts, NEW j \in DOMAIN mem'[k], mem'[k][j].id = mem'[g][i].id
        PROVE  k = g /\ j = i
    <3>1. k = g
      <4>1. CASE /\ \E m \in DOMAIN mem[g] : mem'[g][i] = mem[g][m]
                 /\ \E m \in DOMAIN mem[k] : mem'[k][j] = mem[k][m]
        BY SMTT(30), <2>2, <4>1 DEF SInv, SameIncident
      <4>2. CASE g = h /\ k = h
        BY <4>2
      <4>3. CASE g = h /\ mem'[g][i] = inc /\ \E m \in DOMAIN mem[k] : mem'[k][j] = mem[k][m]
        BY SMTT(30), <2>2, <4>3, <1>1, <1>4, <1>11
      <4>4. CASE k = h /\ mem'[k][j] = inc /\ \E m \in DOMAIN mem[g] : mem'[g][i] = mem[g][m]
        BY SMTT(30), <2>2, <4>4, <1>1, <1>4, <1>11
      <4> QED
        BY <4>1, <4>2, <4>3, <4>4, <1>10
    <3>2. LogOK(mem'[g], nextId')
      BY <1>9 DEF Shape
    <3> QED
      BY <2>2, <3>1, <3>2, OnePlace
  <2> QED
    BY <2>1, <2>2 DEF SameIncident
<1>15. TriageDurable'
  <2>1. SUFFICES ASSUME faults' = 0, NEW g \in Hosts, NEW i \in DOMAIN mem'[g],
                        mem'[g][i].id \in DOMAIN rows'
                 PROVE  rows'[mem'[g][i].id].inc = mem'[g][i]
    BY DEF TriageDurable
  <2>2. faults = 0
    BY SMTT(30), <2>1, <1>1, <1>2, <1>5
  <2>3. CASE g = h /\ mem'[g][i] = inc
    BY <2>1, <2>3, <1>4, <1>13
  <2>4. CASE \E j \in DOMAIN mem[g] : mem'[g][i] = mem[g][j]
    BY SMTT(30), <2>1, <2>2, <2>4, <1>12 DEF SInv, TriageDurable
  <2> QED
    BY <2>3, <2>4, <1>10
<1>16. RowsBounded'
  <2>1. SUFFICES ASSUME faults' = 0
                 PROVE  Cardinality(DOMAIN rows') <= MaxStored + 1 + sincePrune'
    BY DEF RowsBounded
  <2>2. faults = 0 /\ p.lost = 0 /\ stored
    BY SMTT(30), <2>1, <1>1, <1>2, <1>5
  <2>3. Cardinality(DOMAIN rows') = Cardinality(DOMAIN q) + 1
    BY <2>2, <1>2, <1>6 DEF q
  <2>4. Cardinality(DOMAIN q) \in Nat /\ MaxStored \in Nat /\ PruneEvery \in Nat
    BY <1>5, FS_CardinalityType, StoreConstants DEF RowsOK
  <2>5. CASE sincePrune + 1 < PruneEvery /\ q = rows
    BY SMTT(30), <2>2, <2>3, <2>4, <2>5, <1>1, <1>3 DEF SInv, RowsBounded
  <2>6. CASE ~(sincePrune + 1 < PruneEvery) /\ Cardinality(DOMAIN q) <= MaxStored
    BY SMTT(30), <2>3, <2>4, <2>6, <1>3
  <2> QED
    BY <2>2, <2>5, <2>6, <1>5
<1>17. Coupled'
  <2>1. SUFFICES ASSUME faults' = 0, NEW g \in Hosts
                 PROVE  /\ \A id \in Ids(rows', g) :
                             \/ id \in IdsOf(mem'[g])
                             \/ Len(mem'[g]) = MaxPerHost /\ id < mem'[g][1].id
                        /\ \A i \in DOMAIN mem'[g] :
                             mem'[g][i].id \notin DOMAIN rows' =>
                               \A id \in DOMAIN rows' : mem'[g][i].id < id
    BY DEF Coupled
  <2>2. faults = 0 /\ p.lost = 0 /\ stored
    BY SMTT(30), <2>1, <1>1, <1>2, <1>5
  <2>3. DOMAIN rows' = DOMAIN q \cup {nextId} /\ \A id \in DOMAIN q : rows'[id] = rows[id]
    BY <2>2, <1>2, <1>5, <1>6 DEF q
  <2>4. ASSUME NEW id \in Ids(rows', g), id \notin IdsOf(mem'[g])
        PROVE  Len(mem'[g]) = MaxPerHost /\ id < mem'[g][1].id
    <3>1. id \in DOMAIN rows' /\ rows'[id].host = g
      BY DEF Ids
    <3>2. id # nextId
      <4>1. nextId \in IdsOf(mem'[h])
        BY <1>4, <1>7, <1>8 DEF IdsOf
      <4> QED
        BY <2>4, <3>1, <4>1, <1>4, <1>13
    <3>3. id \in Ids(rows, g) /\ id \in Nat
      BY <2>3, <3>1, <3>2, <1>5 DEF Ids, RowsOK
    <3>4. id \in IdsOf(mem[g]) \/ (Len(mem[g]) = MaxPerHost /\ id < mem[g][1].id)
      BY <2>2, <3>3 DEF SInv, Coupled
    <3>5. CASE g # h
      BY <2>4, <3>4, <3>5, <1>8
    <3>6. CASE g = h /\ id \in IdsOf(mem[h])
      <4>1. PICK j \in DOMAIN mem[h] : id = mem[h][j].id
        BY <3>6 DEF IdsOf
      <4> QED
        BY <2>4, <3>6, <4>1, <1>7, <1>8
    <3>7. CASE g = h /\ Len(mem[h]) = MaxPerHost /\ id < mem[h][1].id
      <4>1. Len(t) = MaxPerHost /\ mem[h][1].id < t[1].id
        BY <3>7, <1>7
      <4>2. 1 \in DOMAIN mem[h] /\ 1 \in DOMAIN t
        <5>1. mem[h] \in Seq(Inc) /\ t \in Seq(Inc) /\ MaxPerHost \in Nat \ {0}
          BY <1>1, <1>7, StoreConstants DEF LogOK
        <5> QED
          BY SMTT(30), <5>1, <4>1, <3>7
      <4>3. mem[h][1].id \in Nat /\ t[1].id \in Nat
        BY <4>2, <1>1, <1>7, OnePlace
      <4> QED
        BY SMTT(30), <3>3, <3>7, <4>1, <4>3, <1>8
    <3> QED
      BY <3>4, <3>5, <3>6, <3>7
  <2>5. ASSUME NEW i \in DOMAIN mem'[g], mem'[g][i].id \notin DOMAIN rows',
               NEW id \in DOMAIN rows'
        PROVE  mem'[g][i].id < id
    <3>1. PICK j \in DOMAIN mem[g] : mem'[g][i] = mem[g][j]
      BY <2>3, <2>5, <1>4, <1>10
    <3>2. mem[g][j].id \in Nat /\ mem[g][j].id < nextId
      BY <1>11
    <3>3. CASE id = nextId
      BY <3>1, <3>2, <3>3
    <3>4. CASE id \in DOMAIN q
      <4>1. id \in DOMAIN rows /\ id \in Nat /\ mem[g][j].id \notin DOMAIN q
        BY <2>3, <2>5, <3>1, <3>4, <1>5 DEF RowsOK
      <4>2. CASE mem[g][j].id \in DOMAIN rows
        BY SMTT(30), <3>1, <3>2, <3>4, <4>1, <4>2, <1>5
      <4>3. CASE mem[g][j].id \notin DOMAIN rows
        BY <2>2, <3>1, <4>1, <4>3 DEF SInv, Coupled
      <4> QED
        BY <4>2, <4>3
    <3> QED
      BY <2>3, <3>3, <3>4
  <2> QED
    BY <2>4, <2>5
<1> QED
  BY <1>9, <1>14, <1>15, <1>16, <1>17 DEF SInv

(* A triage step whose UPDATEs reach the columns in `fields`: nothing the  *)
(* agent reported of the incident changes, and when no statement failed the*)
(* row and the incident in memory are touched alike.                       *)
Triaged(h, i, by, note, resolved, fields) ==
  LET old == mem[h][i]
      new == Touched(old, by, note, resolved)
  IN  /\ new \in Inc /\ new.id = old.id /\ new.record = old.record
      /\ new.received = old.received
      /\ mem' = [mem EXCEPT ![h] = [mem[h] EXCEPT ![i] = new]]
      /\ rows' = [id \in DOMAIN rows |->
                    IF id # old.id THEN rows[id]
                    ELSE [rows[id] EXCEPT !.inc = Written(@, new, fields)]]
      /\ faults' \in Nat /\ (faults' = 0 => faults = 0 /\ fields = Fields(note, resolved))
      /\ UNCHANGED <<nextId, sincePrune, now>>

(* The /api/resolve handler takes such a step.                             *)
LEMMA ResolveIs ==
  ASSUME SInv, NEW h \in Hosts, NEW i \in DOMAIN mem[h], NEW by \in Users,
         NEW note \in Notes \cup {Keep}, NEW resolved \in BOOLEAN \cup {Keep},
         NEW expect \in BOOLEAN, Resolve(h, i, by, note, resolved, expect)
  PROVE  \E fields \in SUBSET Fields(note, resolved) :
           Triaged(h, i, by, note, resolved, fields)
<1> DEFINE old == mem[h][i]
           new == Touched(old, by, note, resolved)
           F == Fields(note, resolved)
<1>1. old \in Inc /\ faults \in Nat
  BY SMTT(30) DEF SInv, Shape
<1>2. /\ new \in Inc /\ new.id = old.id /\ new.record = old.record
      /\ new.received = old.received
  <2> HIDE DEF old
  <2>1. /\ (IF note = Keep THEN old.note ELSE note) \in Notes \cup {""}
        /\ (IF resolved = Keep THEN old.resolved ELSE resolved) \in BOOLEAN
    BY <1>1, Zenon DEF Inc
  <2> QED
    BY <1>1, <2>1, Zenon DEF Touched, Inc
<1>3. PICK failed \in SUBSET F, missed \in SUBSET DOMAIN old.record.signals :
        /\ faults' = faults + (Cardinality(failed) + Cardinality(missed))
        /\ rows' = [id \in DOMAIN rows |->
                      IF id # old.id THEN rows[id]
                      ELSE [rows[id] EXCEPT !.inc = Written(@, new, F \ failed)]]
  BY Zenon DEF Resolve, Lose
<1>4. Cardinality(missed) \in Nat
  <2>1. old.record \in Records
    BY <1>1, Zenon DEF Inc
  <2>2. IsFiniteSet(DOMAIN old.record.signals)
    BY <2>1, StoreConstants
  <2> QED
    BY <2>2, FS_Subset, FS_CardinalityType
<1>5. IsFiniteSet(failed) /\ Cardinality(failed) \in Nat
  <2>1. IsFiniteSet({}) /\ IsFiniteSet({"by"})
    BY FS_EmptySet, FS_Singleton, Zenon
  <2>2. IsFiniteSet({"by"} \cup {"note"})
    BY <2>1, FS_AddElement
  <2>3. IsFiniteSet({"by"} \cup {"note"} \cup {"resolved"})
    BY <2>2, FS_AddElement
  <2>4. failed \in SUBSET ({"by"} \cup {"note"} \cup {"resolved"})
    BY DEF Fields
  <2> QED
    BY <2>3, <2>4, FS_Subset, FS_CardinalityType, Zenon
<1>6. faults' \in Nat /\ (faults' = 0 => faults = 0 /\ Cardinality(failed) = 0)
  BY SMTT(30), <1>1, <1>3, <1>4, <1>5
<1>7. faults' = 0 => faults = 0 /\ F \ failed = F
  BY <1>5, <1>6, FS_EmptySet
<1>8. mem' = [mem EXCEPT ![h] = [mem[h] EXCEPT ![i] = new]] /\ UNCHANGED <<nextId, sincePrune, now>>
  BY DEF Resolve
<1> HIDE DEF old, new, F
<1>9. F \ failed \in SUBSET F
  OBVIOUS
<1>10. Triaged(h, i, by, note, resolved, F \ failed)
  BY <1>2, <1>3, <1>6, <1>7, <1>8 DEF old, new, F, Triaged
<1> QED
  BY <1>9, <1>10 DEF F

(* A triage keeps the order and the places of all there is.                *)
LEMMA ResolveSInv ==
  ASSUME SInv, NEW h \in Hosts, NEW i \in DOMAIN mem[h], NEW by, NEW note, NEW resolved,
         NEW fields, Triaged(h, i, by, note, resolved, fields)
  PROVE  SInv'
<1> DEFINE old == mem[h][i]
           new == Touched(old, by, note, resolved)
           F == Fields(note, resolved)
<1>1. /\ new \in Inc /\ new.id = old.id /\ new.record = old.record
      /\ new.received = old.received
      /\ mem' = [mem EXCEPT ![h] = [mem[h] EXCEPT ![i] = new]]
      /\ faults' \in Nat
      /\ UNCHANGED <<nextId, sincePrune, now>>
  BY DEF Triaged
<1>2. /\ rows' = [id \in DOMAIN rows |->
                    IF id # old.id THEN rows[id]
                    ELSE [rows[id] EXCEPT !.inc = Written(@, new, fields)]]
      /\ faults' = 0 => faults = 0 /\ fields = F
  BY DEF Triaged
<1>3. /\ mem \in [Hosts -> Seq(Inc)] /\ RowsOK(rows, nextId, now)
      /\ nextId \in Nat \ {0} /\ sincePrune \in 0..PruneEvery - 1 /\ now \in Nat
      /\ \A g \in Hosts : LogOK(mem[g], nextId)
  BY DEF SInv, Shape
<1>4. old \in Inc
  BY SMTT(30), <1>3
<1>5. /\ mem' \in [Hosts -> Seq(Inc)]
      /\ \A g \in Hosts : /\ DOMAIN mem'[g] = DOMAIN mem[g] /\ Len(mem'[g]) = Len(mem[g])
                           /\ \A j \in DOMAIN mem[g] :
                                mem'[g][j] = IF g = h /\ j = i THEN new ELSE mem[g][j]
  BY SMTT(30), <1>1, <1>3
<1>6. ASSUME NEW g \in Hosts, NEW j \in DOMAIN mem[g]
      PROVE  /\ mem'[g][j].id = mem[g][j].id /\ mem'[g][j].record = mem[g][j].record
             /\ mem'[g][j] = IF g = h /\ j = i THEN new ELSE mem[g][j]
  BY <1>1, <1>5
<1>7. ASSUME NEW id \in DOMAIN rows
      PROVE  /\ rows'[id] \in Row /\ rows'[id].host = rows[id].host
             /\ rows'[id].inc.id = rows[id].inc.id
             /\ rows'[id].inc.record = rows[id].inc.record
             /\ rows'[id].inc.received = rows[id].inc.received
             /\ id # old.id => rows'[id] = rows[id]
             /\ id = old.id => rows'[id].inc = Written(rows[id].inc, new, fields)
  <2> HIDE DEF old, new
  <2>1. rows[id] \in Row /\ rows[id].inc \in Inc
    BY <1>3 DEF RowsOK, Row
  <2>2. CASE id # old.id
    BY <2>1, <2>2, <1>2
  <2>3. CASE id = old.id
    <3> DEFINE w == Written(rows[id].inc, new, fields)
    <3>1. /\ w \in Inc /\ w.id = rows[id].inc.id /\ w.record = rows[id].inc.record
          /\ w.received = rows[id].inc.received
      BY <2>1, <1>1, Zenon DEF Written, Inc
    <3> HIDE DEF w
    <3>2. rows'[id] = [rows[id] EXCEPT !.inc = w]
      BY <2>3, <1>2 DEF w
    <3>3. rows'[id] \in Row /\ rows'[id].host = rows[id].host /\ rows'[id].inc = w
      BY <2>1, <3>1, <3>2 DEF Row
    <3> QED
      BY <2>3, <3>1, <3>3 DEF w
  <2> QED
    BY <2>2, <2>3
<1>8. DOMAIN rows' = DOMAIN rows /\ rows' = [id \in DOMAIN rows |-> rows'[id]]
  BY <1>2
<1> HIDE DEF old, new, F
<1>9. Shape'
  <2>1. RowsOK(rows', nextId, now)
    <3>1. rows' \in [DOMAIN rows' -> Row]
      BY <1>7, <1>8
    <3> QED
      BY SMTT(30), <3>1, <1>3, <1>7, <1>8 DEF RowsOK
  <2>2. ASSUME NEW g \in Hosts PROVE LogOK(mem'[g], nextId)
    <3>1. mem'[g] \in Seq(Inc)
      BY <1>5
    <3>2. \A j \in DOMAIN mem[g] : mem'[g][j].id = mem[g][j].id
      BY <1>6
    <3> QED
      BY <3>1, <3>2, <1>3, <1>5 DEF LogOK, Increasing
  <2> QED
    BY <2>1, <2>2, <1>1, <1>3, <1>5, Zenon DEF Shape
<1>u. ASSUME NEW g \in Hosts, NEW j \in DOMAIN mem[g], NEW k \in Hosts, NEW l \in DOMAIN mem[k],
             mem[k][l].id = mem[g][j].id
      PROVE  k = g /\ l = j
  BY SMTT(30), <1>u DEF SInv, SameIncident
<1>10. SameIncident'
  <2>1. ASSUME NEW g \in Hosts, NEW j \in DOMAIN mem[g], mem[g][j].id \in DOMAIN rows
        PROVE  rows[mem[g][j].id].host = g /\ rows[mem[g][j].id].inc.record = mem[g][j].record
    BY SMTT(30), <2>1 DEF SInv, SameIncident
  <2>3. ASSUME NEW g \in Hosts, NEW j \in DOMAIN mem'[g], mem'[g][j].id \in DOMAIN rows'
        PROVE  /\ rows'[mem'[g][j].id].host = g
               /\ rows'[mem'[g][j].id].inc.record = mem'[g][j].record
    <3>1. j \in DOMAIN mem[g] /\ mem'[g][j].id = mem[g][j].id /\ mem'[g][j].record = mem[g][j].record
      BY SMTT(30), <1>5, <1>6
    <3> QED
      BY SMTT(30), <2>1, <2>3, <3>1, <1>7, <1>8
  <2>4. ASSUME NEW g \in Hosts, NEW j \in DOMAIN mem'[g], NEW k \in Hosts,
               NEW l \in DOMAIN mem'[k], mem'[k][l].id = mem'[g][j].id
        PROVE  k = g /\ l = j
    <3>1. j \in DOMAIN mem[g] /\ l \in DOMAIN mem[k]
      BY <1>5
    <3>2. mem[k][l].id = mem[g][j].id
      BY <2>4, <3>1, <1>6
    <3> QED
      BY <1>u, <3>1, <3>2, Zenon
  <2> QED
    BY <2>3, <2>4 DEF SameIncident
<1>11. TriageDurable'
  <2>1. SUFFICES ASSUME faults' = 0, NEW g \in Hosts, NEW j \in DOMAIN mem[g],
                        mem[g][j].id \in DOMAIN rows
                 PROVE  rows'[mem[g][j].id].inc = mem'[g][j]
    BY SMTT(30), <1>5, <1>6, <1>8 DEF TriageDurable
  <2>2. faults = 0 /\ fields = F /\ rows[mem[g][j].id].inc = mem[g][j]
    BY <2>1, <1>2 DEF SInv, TriageDurable
  <2>3. CASE mem[g][j].id # old.id
    <3>1. ~(g = h /\ j = i)
      BY <2>3 DEF old
    <3> QED
      BY <2>1, <2>2, <2>3, <3>1, <1>6, <1>7
  <2>4. CASE mem[g][j].id = old.id
    <3>1. g = h /\ j = i
      BY <1>u, <2>4, Zenon DEF old
    <3>2. Written(old, new, F) = new
      BY <1>4, Zenon DEF Written, new, Touched, F, Fields, Inc
    <3>3. mem'[g][j] = new
      BY <3>1, <1>6
    <3>4. rows'[old.id].inc = Written(rows[old.id].inc, new, F)
      BY <2>1, <2>2, <2>4, <1>7
    <3>5. rows[old.id].inc = old
      BY <2>2, <2>4, <3>1 DEF old
    <3> QED
      BY <2>4, <3>2, <3>3, <3>4, <3>5, Zenon
  <2> QED
    BY <2>3, <2>4
<1>12. RowsBounded'
  BY <1>1, <1>2, <1>8 DEF SInv, RowsBounded
<1>13. Coupled'
  <2>1. ASSUME NEW g \in Hosts
        PROVE  /\ Ids(rows', g) = Ids(rows, g) /\ IdsOf(mem'[g]) = IdsOf(mem[g])
               /\ Len(mem'[g]) = Len(mem[g])
    <3>1. Ids(rows', g) = Ids(rows, g)
      BY <1>7, <1>8 DEF Ids
    <3>2. IdsOf(mem'[g]) = IdsOf(mem[g])
      <4>1. DOMAIN mem'[g] = DOMAIN mem[g] /\ \A j \in DOMAIN mem[g] : mem'[g][j].id = mem[g][j].id
        BY <1>5, <1>6
      <4> QED
        BY <4>1 DEF IdsOf
    <3> QED
      BY <3>1, <3>2, <1>5
  <2>2. SUFFICES ASSUME faults' = 0, NEW g \in Hosts
                 PROVE  /\ \A id \in Ids(rows', g) :
                             \/ id \in IdsOf(mem'[g])
                             \/ Len(mem'[g]) = MaxPerHost /\ id < mem'[g][1].id
                        /\ \A j \in DOMAIN mem'[g] :
                             mem'[g][j].id \notin DOMAIN rows' =>
                               \A id \in DOMAIN rows' : mem'[g][j].id < id
    BY DEF Coupled
  <2>3. /\ \A id \in Ids(rows, g) :
             \/ id \in IdsOf(mem[g])
             \/ Len(mem[g]) = MaxPerHost /\ id < mem[g][1].id
        /\ \A j \in DOMAIN mem[g] :
             mem[g][j].id \notin DOMAIN rows => \A id \in DOMAIN rows : mem[g][j].id < id
    BY <2>2, <1>2 DEF SInv, Coupled
  <2>4. Len(mem[g]) = MaxPerHost => mem'[g][1].id = mem[g][1].id
    <3>1. mem[g] \in Seq(Inc) /\ MaxPerHost \in Nat \ {0}
      BY <1>3, StoreConstants
    <3>2. Len(mem[g]) = MaxPerHost => 1 \in DOMAIN mem[g]
      BY SMTT(30), <3>1
    <3> QED
      BY <3>2, <1>6
  <2> QED
    BY SMTT(30), <2>1, <2>3, <2>4, <1>5, <1>6, <1>8
<1> QED
  BY <1>9, <1>10, <1>11, <1>12, <1>13 DEF SInv

(* Every step keeps the invariant.                                         *)
LEMMA NextSInv == SInv /\ [StoreNext]_svars => SInv'
<1> SUFFICES ASSUME SInv, [StoreNext]_svars PROVE SInv'
  OBVIOUS
<1>1. ASSUME NEW h \in Hosts, NEW record \in Records, Ingest(h, record) PROVE SInv'
  BY <1>1, IngestSInv
<1>2. ASSUME NEW h \in Hosts, NEW i \in DOMAIN mem[h], NEW by \in Users,
             NEW note \in Notes \cup {Keep}, NEW resolved \in BOOLEAN \cup {Keep},
             NEW expect \in BOOLEAN, Resolve(h, i, by, note, resolved, expect)
      PROVE  SInv'
  <2>1. PICK fields \in SUBSET Fields(note, resolved) :
          Triaged(h, i, by, note, resolved, fields)
    BY <1>2, ResolveIs, Zenon
  <2> QED
    BY <2>1, ResolveSInv, Zenon
<1>3. CASE Restart
  BY <1>3, RestartSInv
<1>4. CASE Tick
  BY <1>4, TickSInv
<1>5. CASE UNCHANGED svars
  <2>1. /\ mem' = mem /\ rows' = rows /\ nextId' = nextId
        /\ sincePrune' = sincePrune /\ now' = now /\ faults' = faults
    BY <1>5 DEF svars
  <2>2. Shape'
    BY <2>1 DEF SInv, Shape
  <2>3. SameIncident' /\ TriageDurable' /\ RowsBounded'
    <3>1. SameIncident'
      BY SMTT(30), <2>1 DEF SInv, SameIncident
    <3>2. TriageDurable'
      BY <2>1 DEF SInv, TriageDurable
    <3>3. RowsBounded'
      BY <2>1 DEF SInv, RowsBounded
    <3> QED BY <3>1, <3>2, <3>3
  <2>4. Coupled'
    BY <2>1 DEF SInv, Coupled
  <2> QED
    BY <2>2, <2>3, <2>4 DEF SInv
<1> QED
  BY <1>1, <1>2, <1>3, <1>4, <1>5, Zenon DEF StoreNext

(* The invariant: order, agreement and bounds of memory and disk.          *)
THEOREM StoreInvariant == StoreSpec => []SInv
<1>1. StoreInit => SInv
  BY InitSInv
<1>2. SInv /\ [StoreNext]_svars => SInv'
  BY NextSInv
<1> QED
  BY <1>1, <1>2, PTL DEF StoreSpec

(* An id names one incident, in memory and on disk, whatever inserts failed*)
(* and however often the counter was rebuilt: the UPDATE ... WHERE id = ?  *)
(* of triage() reaches the incident it was meant for.                      *)
THEOREM IdsNameOneIncident == StoreSpec => []SameIncident
<1>1. SInv => SameIncident
  BY DEF SInv
<1> QED
  BY <1>1, StoreInvariant, PTL

(* While no statement fails, triage() leaves memory and disk alike: a      *)
(* restart brings back no decision an operator had changed.                *)
THEOREM TriageAlwaysDurable == StoreSpec => []TriageDurable
<1>1. SInv => TriageDurable
  BY DEF SInv
<1> QED
  BY <1>1, StoreInvariant, PTL

(* While no statement fails, prune() and its cadence keep the incidents    *)
(* table within MAX_STORED_INCIDENTS and PRUNE_EVERY more.                 *)
THEOREM DiskAlwaysBounded == StoreSpec => []RowsBounded
<1>1. SInv => RowsBounded
  BY DEF SInv
<1> QED
  BY <1>1, StoreInvariant, PTL

-----------------------------------------------------------------------------
(* The refinement of IncidentLog. *)

(* After a restart a host's log is the end of what it was, and what it lost*)
(* is what lost its row.                                                   *)
LEMMA RestartTail ==
  ASSUME SInv, Restart, faults = 0, NEW h \in Hosts
  PROVE  \E d \in 0..Len(mem[h]) :
           /\ mem'[h] = SubSeq(mem[h], d + 1, Len(mem[h]))
           /\ \A i \in DOMAIN mem[h] : i <= d <=> mem[h][i].id \notin DOMAIN rows'
<1> DEFINE a == mem[h]
           b == mem'[h]
           D == Ids(rows', h)
<1>1. /\ RowsOK(rows, nextId, now) /\ now \in Nat /\ nextId \in Nat
      /\ rows' = Prune(rows) /\ mem' = Loaded(rows')
  BY DEF SInv, Shape, Restart
<1>2. /\ RowsOK(rows', nextId, now) /\ DOMAIN rows' \subseteq DOMAIN rows
      /\ \A id \in DOMAIN rows' : rows'[id] = rows[id]
      /\ \A x \in DOMAIN rows', y \in DOMAIN rows : x <= y => y \in DOMAIN rows'
  BY <1>1, PruneKeeps
<1>3. (\A x \in D : x \in Nat) /\ IsFiniteSet(D) /\ D \in SUBSET DOMAIN rows'
  <2>1. D \in SUBSET DOMAIN rows'
    BY DEF Ids
  <2> QED
    BY <2>1, <1>2, FS_Subset DEF RowsOK
<1>4. /\ LogOK(b, nextId)
      /\ \A j \in DOMAIN b : /\ b[j].id \in D /\ b[j] = rows'[b[j].id].inc
                             /\ Cardinality(Higher(D, b[j].id)) < MaxPerHost
      /\ \A x \in D : Cardinality(Higher(D, x)) < MaxPerHost => x \in IdsOf(b)
  BY SMTT(30), <1>1, <1>2, LoadedIs
<1>5. /\ LogOK(a, nextId) /\ a \in Seq(Inc) /\ DOMAIN a = 1..Len(a)
      /\ Len(a) \in Nat /\ Len(a) <= MaxPerHost /\ MaxPerHost \in Nat \ {0}
      /\ \A i \in 1..Len(a) : a[i].id \in Nat
      /\ \A i, j \in 1..Len(a) : a[i].id = a[j].id => i = j
      /\ \A i, j \in 1..Len(a) : i <= j => a[i].id <= a[j].id
  <2>1. LogOK(a, nextId)
    BY DEF SInv, Shape
  <2>2. /\ a \in Seq(Inc) /\ DOMAIN a = 1..Len(a) /\ Len(a) \in Nat /\ Len(a) <= MaxPerHost
        /\ \A i \in DOMAIN a : a[i].id \in Nat
        /\ \A i, j \in DOMAIN a : a[i].id = a[j].id => i = j
    BY <2>1, OnePlace
  <2>3. \A i, j \in DOMAIN a : i < j => a[i].id < a[j].id
    BY <2>1 DEF LogOK, Increasing
  <2> HIDE DEF a
  <2>4. \A i, j \in 1..Len(a) : i <= j => a[i].id <= a[j].id
    BY SMTT(30), <2>2, <2>3
  <2> QED
    BY <2>1, <2>2, <2>4, StoreConstants, Zenon
<1>6. \A i \in DOMAIN a : /\ a[i].id \in DOMAIN rows => a[i] = rows[a[i].id].inc /\ rows[a[i].id].host = h
                          /\ a[i].id \notin DOMAIN rows => \A id \in DOMAIN rows : a[i].id < id
  BY SMTT(30) DEF SInv, SameIncident, TriageDurable, Coupled
<1>7. \A id \in Ids(rows, h) : id \in IdsOf(a) \/ (Len(a) = MaxPerHost /\ id < a[1].id)
  BY DEF SInv, Coupled
<1>8. D \subseteq Ids(rows, h)
  BY <1>2 DEF Ids
<1> HIDE DEF a, b, D
<1>9. ASSUME NEW i \in 1..Len(a), NEW x \in DOMAIN rows', x <= a[i].id PROVE a[i].id \in D
  <2>1. a[i].id \in DOMAIN rows /\ rows[a[i].id].host = h
    <3>1. x \in Nat /\ x \in DOMAIN rows /\ a[i].id \in Nat
      BY <1>2, <1>5 DEF RowsOK
    <3> QED
      BY SMTT(30), <3>1, <1>5, <1>6, <1>9
  <2>2. a[i].id \in DOMAIN rows'
    BY <2>1, <1>2, <1>9
  <2> QED
    BY <2>1, <2>2, <1>2 DEF D, Ids
<1>10. ASSUME NEW j \in DOMAIN b PROVE \E i \in DOMAIN a : a[i] = b[j]
  <2> DEFINE x == b[j].id
  <2>1. x \in D /\ b[j] = rows'[x].inc /\ Cardinality(Higher(D, x)) < MaxPerHost
    BY <1>4
  <2> HIDE DEF x
  <2>2. x \in DOMAIN rows' /\ rows'[x] = rows[x] /\ x \in Nat /\ x \in Ids(rows, h)
    BY <2>1, <1>2, <1>3, <1>8
  <2>3. CASE x \in IdsOf(a)
    <3>1. PICK i \in DOMAIN a : a[i].id = x
      BY <2>3 DEF IdsOf
    <3>2. a[i] = rows[x].inc
      BY <2>2, <3>1, <1>2, <1>6
    <3> QED
      BY <2>1, <2>2, <3>2
  <2>4. CASE Len(a) = MaxPerHost /\ x < a[1].id
    <3> DEFINE H == Higher(D, x)
               f == [i \in 1..Len(a) |-> a[i].id]
    <3>1. ASSUME NEW i \in 1..Len(a) PROVE a[i].id \in H
      <4>1. 1 \in 1..Len(a) /\ 1 <= i
        BY SMTT(30)
      <4>2. a[1].id <= a[i].id /\ a[1].id \in Nat /\ a[i].id \in Nat
        BY <4>1, <1>5
      <4>3. x <= a[i].id /\ a[i].id > x
        BY SMTT(30), <2>2, <2>4, <4>2
      <4> QED
        BY <2>2, <4>3, <1>9 DEF Higher
    <3>2. f \in Injection(1..Len(a), H)
      BY <3>1, <1>5 DEF Injection, IsInjective
    <3>3. IsFiniteSet(H) /\ Cardinality(H) \in Nat
      BY SMTT(30), <2>1, <1>3, Ranks
    <3>4. Cardinality(1..Len(a)) = Len(a)
      <4>1. Len(a) \in Nat
        BY <1>5
      <4>2. \A n \in Nat : Cardinality(1..n) = n
        BY SMTT(30), FS_Interval
      <4> QED
        BY <4>1, <4>2
    <3> HIDE DEF H, f
    <3>5. Cardinality(1..Len(a)) <= Cardinality(H)
      BY <3>2, <3>3, FS_Injection
    <3> QED
      BY SMTT(30), <2>1, <2>4, <3>3, <3>4, <3>5, <1>5 DEF H
  <2> QED
    BY <2>2, <2>3, <2>4, <1>7
<1>11. ASSUME NEW i \in DOMAIN a, a[i].id \in DOMAIN rows' PROVE a[i].id \in IdsOf(b)
  <2> DEFINE x == a[i].id
  <2>1. x \in D /\ x \in Nat
    BY SMTT(30), <1>5, <1>9, <1>11
  <2>2. Higher(D, x) \subseteq Higher(IdsOf(a), x)
    <3>1. ASSUME NEW z \in D, z > x PROVE z \in IdsOf(a)
      <4>1. z \in Nat /\ (z \in IdsOf(a) \/ (Len(a) = MaxPerHost /\ z < a[1].id))
        BY <1>3, <1>7, <1>8
      <4>2. a[1].id <= x /\ a[1].id \in Nat
        BY SMTT(30), <1>5
      <4> QED
        BY SMTT(30), <2>1, <3>1, <4>1, <4>2
    <3> QED
      BY <3>1 DEF Higher
  <2>3. Cardinality(Higher(IdsOf(a), x)) = Len(a) - i
    BY <1>5, RankInLog DEF LogOK
  <2>4. IsFiniteSet(Higher(IdsOf(a), x))
    <3>1. IdsOf(a) \subseteq 0..nextId
      <4>1. \A k \in DOMAIN a : a[k].id \in Nat /\ a[k].id < nextId
        BY <1>5, OnePlace
      <4> QED
        BY SMTT(30), <4>1, <1>1 DEF IdsOf
    <3>2. IsFiniteSet(0..nextId) /\ Higher(IdsOf(a), x) \in SUBSET (0..nextId)
      BY SMTT(30), <3>1, <1>1, FS_Interval DEF Higher
    <3> QED
      BY <3>2, FS_Subset, Zenon
  <2>5. Cardinality(Higher(D, x)) <= Len(a) - i /\ Cardinality(Higher(D, x)) \in Nat
    BY <2>2, <2>3, <2>4, FS_Subset, FS_CardinalityType
  <2> QED
    BY SMTT(30), <2>1, <2>5, <1>4, <1>5
<1>12. ASSUME NEW x \in IdsOf(a), NEW y \in IdsOf(b), y <= x PROVE x \in IdsOf(b)
  <2>1. y \in DOMAIN rows'
    BY <1>3, <1>4 DEF IdsOf
  <2>2. PICK i \in DOMAIN a : a[i].id = x
    BY DEF IdsOf
  <2>3. x \in DOMAIN rows'
    BY <2>1, <2>2, <1>3, <1>5, <1>9, <1>12
  <2> QED
    BY <2>2, <2>3, <1>11
<1>13. a \in Seq(Inc) /\ Increasing(a) /\ b \in Seq(Inc) /\ Increasing(b)
  BY <1>4, <1>5 DEF LogOK
<1>14. PICK d \in 0..Len(a) : /\ b = SubSeq(a, d + 1, Len(a))
                              /\ \A i \in DOMAIN a : i <= d <=> a[i].id \notin IdsOf(b)
  BY <1>10, <1>12, <1>13, TailOf, Zenon
<1>15. \A i \in DOMAIN a : a[i].id \in IdsOf(b) <=> a[i].id \in DOMAIN rows'
  <2>1. IdsOf(b) \subseteq DOMAIN rows'
    BY <1>3, <1>4 DEF IdsOf
  <2> QED
    BY <2>1, <1>11
<1> QED
  BY <1>14, <1>15 DEF a, b

(* A restart, while no statement has failed, forgets what is oldest in the *)
(* fleet or changes nothing.                                               *)
LEMMA RestartForgets ==
  ASSUME SInv, Restart, faults = 0
  PROVE  Log!Forget \/ UNCHANGED Shown
<1>1. /\ RowsOK(rows, nextId, now) /\ now \in Nat /\ nextId \in Nat /\ faults' = 0
      /\ rows' = Prune(rows) /\ mem' = Loaded(rows') /\ mem \in [Hosts -> Seq(Inc)]
  BY DEF SInv, Shape, Restart
<1>2. /\ DOMAIN rows' \subseteq DOMAIN rows
      /\ \A x \in DOMAIN rows', y \in DOMAIN rows : x <= y => y \in DOMAIN rows'
  BY <1>1, PruneKeeps, Zenon
<1>3. Shown = mem /\ Shown' = mem'
  BY <1>1 DEF Shown
<1>4. mem' = [h \in Hosts |-> mem'[h]] /\ mem = [h \in Hosts |-> mem[h]]
  BY <1>1 DEF Loaded
<1>5. \A h \in Hosts : \A i \in DOMAIN mem[h] : mem[h][i].id \in Nat /\ mem[h][i].id < nextId
  BY OnePlace DEF SInv, Shape
<1> DEFINE Gone == {x \in 0..nextId : \E h \in Hosts : \E i \in DOMAIN mem[h] :
                                       mem[h][i].id = x /\ x \notin DOMAIN rows'}
<1>6. ASSUME NEW h \in Hosts, NEW i \in DOMAIN mem[h], mem[h][i].id \notin DOMAIN rows'
      PROVE  mem[h][i].id \in Gone
  BY SMTT(30), <1>1, <1>5, <1>6
<1>7. CASE Gone = {}
  <2>1. ASSUME NEW h \in Hosts PROVE mem'[h] = mem[h]
    <3>1. PICK d \in 0..Len(mem[h]) :
            /\ mem'[h] = SubSeq(mem[h], d + 1, Len(mem[h]))
            /\ \A i \in DOMAIN mem[h] : i <= d <=> mem[h][i].id \notin DOMAIN rows'
      BY RestartTail
    <3>2. mem[h] \in Seq(Inc) /\ DOMAIN mem[h] = 1..Len(mem[h]) /\ Len(mem[h]) \in Nat
      BY SMTT(30), <1>1
    <3>3. d = 0
      BY SMTT(30), <3>1, <3>2, <1>6, <1>7
    <3> QED
      BY SMTT(30), <3>1, <3>2, <3>3, CutWhole
  <2> QED
    BY <2>1, <1>3, <1>4
<1>8. CASE Gone # {}
  <2>1. (\A x \in Gone : x \in Nat) /\ IsFiniteSet(Gone)
    <3>1. IsFiniteSet(0..nextId) /\ Gone \in SUBSET (0..nextId)
      BY SMTT(30), <1>1, FS_Interval
    <3> QED
      BY SMTT(30), <3>1, <1>1, FS_Subset
  <2>2. PICK x \in Gone : \A y \in Gone : y <= x
    BY <1>8, <2>1, Greatest, Zenon
  <2>3. PICK g \in Hosts : \E k \in DOMAIN mem[g] : mem[g][k].id = x /\ x \notin DOMAIN rows'
    OBVIOUS
  <2>4. PICK k \in DOMAIN mem[g] : mem[g][k].id = x /\ x \notin DOMAIN rows'
    BY <2>3
  <2>5. \A id \in DOMAIN rows' : x < id
    <3>1. ASSUME NEW id \in DOMAIN rows' PROVE x < id
      <4>1. id \in DOMAIN rows /\ id \in Nat
        BY <1>1, <1>2 DEF RowsOK
      <4>2. CASE x \in DOMAIN rows
        BY SMTT(30), <2>1, <2>4, <4>1, <4>2, <1>2
      <4>3. CASE x \notin DOMAIN rows
        BY <2>4, <4>1, <4>3 DEF SInv, Coupled
      <4> QED
        BY <4>2, <4>3
    <3> QED
      BY <3>1
  <2>6. ASSUME NEW h \in Hosts PROVE mem'[h] = Log!After(mem[h], x)
    <3>1. PICK d \in 0..Len(mem[h]) :
            /\ mem'[h] = SubSeq(mem[h], d + 1, Len(mem[h]))
            /\ \A i \in DOMAIN mem[h] : i <= d <=> mem[h][i].id \notin DOMAIN rows'
      BY RestartTail, Zenon
    <3>2. ASSUME NEW i \in DOMAIN mem[h]
          PROVE  mem[h][i].id \notin DOMAIN rows' <=> mem[h][i].id <= x
      <4> HIDE DEF Gone
      <4> QED
        BY SMTT(30), <2>1, <2>2, <2>5, <1>5, <1>6
    <3>3. LogOK(mem[h], nextId)
      BY DEF SInv, Shape
    <3>4. \A i \in DOMAIN mem[h] : i <= d <=> mem[h][i].id <= x
      BY <3>1, <3>2
    <3> QED
      BY <3>1, <3>3, <3>4, AfterIs, Zenon
  <2>7. mem' = [h \in Hosts |-> Log!After(mem[h], mem[g][k].id)]
    BY <2>4, <2>6, <1>4
  <2> QED
    BY <2>7, <1>3 DEF Log!Forget
<1> QED
  BY <1>7, <1>8

(* An ingest that loses nothing adds to the log.                           *)
LEMMA IngestAdds ==
  ASSUME SInv, NEW h \in Hosts, NEW record \in Records, Ingest(h, record), faults = 0, faults' = 0
  PROVE  Log!Add(h)
<1> DEFINE inc == [id |-> nextId, record |-> record, received |-> now, resolved |-> FALSE,
                   by |-> "", note |-> ""]
           t == Capped(Append(mem[h], inc))
<1>1. /\ nextId \in Nat \ {0} /\ now \in Nat /\ mem \in [Hosts -> Seq(Inc)]
      /\ \A g \in Hosts : LogOK(mem[g], nextId)
  BY DEF SInv, Shape
<1>2. inc \in Inc /\ inc.id = nextId /\ inc.resolved = FALSE
  BY <1>1, Zenon DEF Inc
<1>3. mem' = [mem EXCEPT ![h] = t] /\ Shown = mem /\ Shown' = mem'
  BY Zenon DEF Ingest, Shown
<1> HIDE DEF inc
<1>4. \E i \in DOMAIN t : t[i] = inc
  BY SMTT(30), <1>1, <1>2, AppliedIs
<1>5. mem'[h] = t
  BY <1>1, <1>3
<1>6. inc \in {mem'[h][i] : i \in DOMAIN mem'[h]}
  BY <1>4, <1>5
<1>7. \A g \in Hosts : \A i \in DOMAIN mem[g] : mem[g][i].id < inc.id
  BY <1>1, <1>2, OnePlace
<1>8. t = Log!Latest(Append(mem[h], inc))
  BY DEF Capped, Log!Latest
<1> QED
  BY <1>2, <1>3, <1>6, <1>7, <1>8, Zenon DEF Log!Add

(* A triage that loses nothing decides one incident.                       *)
LEMMA ResolveDecides ==
  ASSUME SInv, NEW h \in Hosts, NEW i \in DOMAIN mem[h], NEW by, NEW note, NEW resolved,
         NEW fields, Triaged(h, i, by, note, resolved, fields), faults = 0, faults' = 0
  PROVE  Log!Decide(h)
<1> DEFINE new == Touched(mem[h][i], by, note, resolved)
<1>1. /\ new.id = mem[h][i].id /\ new.record = mem[h][i].record
      /\ new.received = mem[h][i].received
      /\ mem' = [mem EXCEPT ![h] = [mem[h] EXCEPT ![i] = new]]
  BY DEF Triaged
<1>2. Shown = mem /\ Shown' = mem'
  BY DEF Shown
<1> HIDE DEF new
<1>3. mem'[h][i] = new
  BY <1>1 DEF SInv, Shape
<1> QED
  BY <1>1, <1>2, <1>3, Zenon DEF Log!Decide

(* The statement that fails first gives up the whole log: the log forgets  *)
(* every incident, or it had none.                                         *)
LEMMA FaultForgets ==
  ASSUME SInv, faults = 0, faults' # 0
  PROVE  Log!Forget \/ UNCHANGED Shown
<1>1. /\ nextId \in Nat /\ mem \in [Hosts -> Seq(Inc)]
      /\ \A h \in Hosts : LogOK(mem[h], nextId)
  BY DEF SInv, Shape
<1>2. Shown = mem /\ Shown' = [h \in Hosts |-> <<>>]
  BY DEF Shown
<1>3. \A h \in Hosts : \A i \in DOMAIN mem[h] : mem[h][i].id \in Nat /\ mem[h][i].id < nextId
  BY <1>1, OnePlace
<1> DEFINE All == {x \in 0..nextId : \E h \in Hosts : \E i \in DOMAIN mem[h] : mem[h][i].id = x}
<1>4. ASSUME NEW h \in Hosts, NEW i \in DOMAIN mem[h]
      PROVE  mem[h][i].id \in All
  BY SMTT(30), <1>1, <1>3
<1>5. CASE All = {}
  <2>1. ASSUME NEW h \in Hosts PROVE mem[h] = <<>>
    BY SMTT(30), <1>1, <1>4, <1>5
  <2> QED
    BY <2>1, <1>1, <1>2
<1>6. CASE All # {}
  <2>1. (\A x \in All : x \in Nat) /\ IsFiniteSet(All)
    <3>1. IsFiniteSet(0..nextId) /\ All \in SUBSET (0..nextId)
      BY SMTT(30), <1>1, FS_Interval
    <3> QED
      BY SMTT(30), <3>1, <1>1, FS_Subset
  <2>2. PICK x \in All : \A y \in All : y <= x
    BY <1>6, <2>1, Greatest, Zenon
  <2>3. PICK g \in Hosts : \E k \in DOMAIN mem[g] : mem[g][k].id = x
    OBVIOUS
  <2>4. PICK k \in DOMAIN mem[g] : mem[g][k].id = x
    BY <2>3
  <2>5. ASSUME NEW h \in Hosts PROVE Log!After(mem[h], x) = <<>>
    <3> DEFINE d == Len(mem[h])
    <3>1. mem[h] \in Seq(Inc) /\ DOMAIN mem[h] = 1..d /\ d \in 0..d
      BY SMTT(30), <1>1
    <3>2. \A i \in DOMAIN mem[h] : i <= d <=> mem[h][i].id <= x
      BY SMTT(30), <1>4, <2>2, <3>1
    <3>3. Log!After(mem[h], x) = SubSeq(mem[h], d + 1, d)
      BY <1>1, <3>1, <3>2, AfterIs, Zenon
    <3> QED
      BY SMTT(30), <3>1, <3>3, CutNothing
  <2>6. Shown' = [h \in Hosts |-> Log!After(mem[h], mem[g][k].id)]
    BY <2>4, <2>5, <1>2
  <2> QED
    BY <2>6, <1>2 DEF Log!Forget
<1> QED
  BY <1>5, <1>6

(* Every step of the store is a step of the log, or leaves what it shows.  *)
LEMMA StepRefines ==
  ASSUME SInv, [StoreNext]_svars
  PROVE  [Log!LogNext]_Shown
<1>1. CASE UNCHANGED svars
  BY <1>1 DEF svars, Shown
<1>2. CASE StoreNext /\ faults # 0
  <2>1. faults' # 0
    <3>1. faults \in Nat
      BY DEF SInv, Shape
    <3>2. ASSUME NEW h \in Hosts, NEW record \in Records, Ingest(h, record) PROVE faults' # 0
      <4>1. PICK p \in Pruned, stored \in BOOLEAN :
              faults' = faults + (p.lost + IF stored THEN 0 ELSE 1)
        BY <3>2, Zenon DEF Ingest, Lose
      <4>2. p.lost \in {0, 1}
        BY PrunedIs
      <4> QED
        BY SMTT(30), <1>2, <3>1, <4>1, <4>2
    <3>3. ASSUME NEW h \in Hosts, NEW i \in DOMAIN mem[h], NEW by \in Users,
                 NEW note \in Notes \cup {Keep}, NEW resolved \in BOOLEAN \cup {Keep},
                 NEW expect \in BOOLEAN, Resolve(h, i, by, note, resolved, expect)
          PROVE  faults' # 0
      <4>1. PICK fields \in SUBSET Fields(note, resolved) :
              Triaged(h, i, by, note, resolved, fields)
        BY <3>3, ResolveIs, Zenon
      <4> QED
        BY <1>2, <4>1 DEF Triaged
    <3>4. CASE Restart \/ Tick
      BY <1>2, <3>4 DEF Restart, Tick
    <3> QED
      BY <1>2, <3>2, <3>3, <3>4, Zenon DEF StoreNext
  <2> QED
    BY <1>2, <2>1 DEF Shown
<1>3. CASE faults = 0 /\ faults' # 0
  BY <1>3, FaultForgets DEF Log!LogNext
<1>4. CASE StoreNext /\ faults = 0 /\ faults' = 0
  <2>1. CASE Tick
    BY <2>1, <1>4 DEF Tick, Shown
  <2>2. CASE Restart
    BY <2>2, <1>4, RestartForgets DEF Log!LogNext
  <2>3. ASSUME NEW h \in Hosts, NEW record \in Records, Ingest(h, record)
        PROVE  Log!LogNext
    BY <2>3, <1>4, IngestAdds DEF Log!LogNext
  <2>4. ASSUME NEW h \in Hosts, NEW i \in DOMAIN mem[h], NEW by \in Users,
               NEW note \in Notes \cup {Keep}, NEW resolved \in BOOLEAN \cup {Keep},
               NEW expect \in BOOLEAN, Resolve(h, i, by, note, resolved, expect)
        PROVE  Log!LogNext
    <3>1. PICK fields \in SUBSET Fields(note, resolved) :
            Triaged(h, i, by, note, resolved, fields)
      BY <2>4, ResolveIs, Zenon
    <3>2. Log!Decide(h)
      BY <3>1, <1>4, ResolveDecides
    <3> QED
      BY <3>2 DEF Log!LogNext
  <2> QED
    BY <1>4, <2>1, <2>2, <2>3, <2>4, Zenon DEF StoreNext
<1> QED
  BY <1>1, <1>2, <1>3, <1>4

(* store.rs implements the incident log: what the console shows, as long   *)
(* as no statement has failed, only ever gains a new incident with the     *)
(* highest id, has one incident decided, or loses what is oldest in the    *)
(* whole fleet; a restart never shows anything else.                       *)
THEOREM StoreImplementsLog == StoreSpec => Implements
<1>1. StoreInit => Log!LogInit
  BY DEF StoreInit, Log!LogInit, Shown
<1>2. SInv /\ [StoreNext]_svars => [Log!LogNext]_Shown
  BY StepRefines
<1> QED
  BY <1>1, <1>2, StoreInvariant, PTL DEF StoreSpec, Implements, Log!LogSpec

=============================================================================
