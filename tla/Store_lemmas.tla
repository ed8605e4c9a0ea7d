---------------------------- MODULE Store_lemmas ----------------------------
(***************************************************************************)
(* What the operators of Store return, preserve and bound: the ranks behind*)
(* SQLite's ORDER BY ... LIMIT, what pruning keeps of the rows, the working*)
(* sets that a start reads back, and one more incident in a log and on     *)
(* disk.                                                                   *)
(***************************************************************************)
EXTENDS Store, FiniteSetTheorems, TLAPS

(* Leaves go to Zenon, those with arithmetic or records to SMT, as cited; the
   time is for a slow machine.                                             *)
USE ZenonT(30)

Inc ==
  [id : Nat \ {0}, record : Records, received : Nat, resolved : BOOLEAN,
   by : Users \cup {""}, note : Notes \cup {""}]

Row == [host : Hosts, inc : Inc]

(* The ids of a log, in order.                                             *)
Increasing(s) == \A i, j \in DOMAIN s : i < j => s[i].id < s[j].id

IdsOf(s) == {s[i].id : i \in DOMAIN s}

(* A host's working set, before the id `next` is given.                    *)
LogOK(s, next) ==
  /\ s \in Seq(Inc)
  /\ Len(s) <= MaxPerHost
  /\ Increasing(s)
  /\ \A i \in DOMAIN s : s[i].id < next

(* The rows on disk, at `time`, before the id `next` is given.             *)
RowsOK(r, next, time) ==
  /\ IsFiniteSet(DOMAIN r)
  /\ r \in [DOMAIN r -> Row]
  /\ \A id \in DOMAIN r :
       id \in Nat \ {0} /\ id < next /\ r[id].inc.id = id /\ r[id].inc.received <= time
  /\ \A a, b \in DOMAIN r : a <= b => r[a].inc.received <= r[b].inc.received

-----------------------------------------------------------------------------
(* Facts about sequences, increasing logs and finite sets of ids. *)

(* What is in a sequence is of its type.                                   *)
LEMMA Elements ==
  ASSUME NEW T, NEW s \in Seq(T)
  PROVE  \A i \in 1..Len(s) : s[i] \in T
  BY SMTT(30)

(* Two sequences with the same elements in the same places are one.        *)
LEMMA SameElements ==
  ASSUME NEW T, NEW a \in Seq(T), NEW b \in Seq(T),
         Len(a) = Len(b), \A i \in 1..Len(a) : a[i] = b[i]
  PROVE  a = b
  BY SMTT(30)

(* What a cut of a sequence holds.                                         *)
LEMMA CutIs ==
  ASSUME NEW T, NEW s, NEW from \in Int, NEW to \in Int, \A i \in from..to : s[i] \in T
  PROVE  /\ SubSeq(s, from, to) \in Seq(T)
         /\ Len(SubSeq(s, from, to)) = IF from <= to THEN to - from + 1 ELSE 0
         /\ \A i \in 1..(to - from + 1) : SubSeq(s, from, to)[i] = s[from + i - 1]
  BY SMTT(30)

(* A cut that ends before it begins is empty.                              *)
LEMMA CutNothing ==
  ASSUME NEW s, NEW from \in Int, NEW to \in Int, to < from
  PROVE  SubSeq(s, from, to) = <<>>
  BY SMTT(30)

(* The cut from the first to the last element is the sequence.             *)
LEMMA CutWhole ==
  ASSUME NEW T, NEW s \in Seq(T)
  PROVE  SubSeq(s, 1, Len(s)) = s
  BY SMTT(30)

(* How many ids of a finite set are higher tells an id of the set apart,   *)
(* and every number below the set's size is the number of some id: rows can*)
(* be read in the order of their ids.                                      *)
LEMMA Ranks ==
  ASSUME NEW S, \A x \in S : x \in Nat, IsFiniteSet(S)
  PROVE  /\ Cardinality(S) \in Nat
         /\ \A x \in S : /\ IsFiniteSet(Higher(S, x))
                         /\ Cardinality(Higher(S, x)) \in 0..Cardinality(S) - 1
         /\ \A x, z \in S : x < z => Cardinality(Higher(S, z)) < Cardinality(Higher(S, x))
         /\ \A k \in 0..Cardinality(S) - 1 : \E x \in S : Cardinality(Higher(S, x)) = k
<1> DEFINE rank == [x \in S |-> Cardinality(Higher(S, x))]
<1>1. Cardinality(S) \in Nat
  BY FS_CardinalityType
<1>2. ASSUME NEW x \in S
      PROVE  /\ IsFiniteSet(Higher(S, x))
             /\ Cardinality(Higher(S, x)) \in 0..Cardinality(S) - 1
  <2>1. Higher(S, x) \in SUBSET S /\ x \notin Higher(S, x)
    BY SMTT(30) DEF Higher
  <2>2. Higher(S, x) # S
    BY <2>1
  <2>3. /\ IsFiniteSet(Higher(S, x)) /\ Cardinality(Higher(S, x)) \in Nat
        /\ Cardinality(Higher(S, x)) <= Cardinality(S)
        /\ Cardinality(Higher(S, x)) # Cardinality(S)
    BY <2>1, <2>2, <1>1, FS_Subset, FS_CardinalityType
  <2> QED
    BY SMTT(30), <2>3, <1>1
<1>3. ASSUME NEW x \in S, NEW z \in S, x < z
      PROVE  Cardinality(Higher(S, z)) < Cardinality(Higher(S, x))
  <2>1. /\ Higher(S, z) \in SUBSET Higher(S, x)
        /\ z \in Higher(S, x) /\ z \notin Higher(S, z)
    BY SMTT(30), <1>3 DEF Higher
  <2> QED
    BY SMTT(30), <2>1, <1>2, <1>1, FS_Subset
<1>4. rank \in Injection(S, 0..Cardinality(S) - 1)
  <2>1. rank \in [S -> 0..Cardinality(S) - 1]
    BY <1>2
  <2>2. ASSUME NEW x \in S, NEW z \in S, rank[x] = rank[z] PROVE x = z
    BY SMTT(30), <2>2, <1>1, <1>2, <1>3
  <2> QED
    BY <2>1, <2>2 DEF Injection, IsInjective
<1>5. IsFiniteSet(0..Cardinality(S) - 1) /\ Cardinality(0..Cardinality(S) - 1) = Cardinality(S)
  <2> DEFINE n == Cardinality(S)
  <2> HIDE DEF n
  <2>1. n - 1 \in Int /\ (0 > n - 1 <=> n = 0) /\ n - 1 - 0 + 1 = n
    BY SMTT(30), <1>1 DEF n
  <2>2. IsFiniteSet(0..n - 1) /\ Cardinality(0..n - 1) = n
    BY SMTT(30), <2>1, FS_Interval
  <2> QED
    BY <2>2 DEF n
<1>6. rank \in Surjection(S, 0..Cardinality(S) - 1)
  BY <1>4, <1>5, FS_Injection
<1>7. ASSUME NEW k \in 0..Cardinality(S) - 1
      PROVE  \E x \in S : Cardinality(Higher(S, x)) = k
  <2>1. PICK x \in S : rank[x] = k
    BY <1>6, Zenon DEF Surjection
  <2> QED
    BY <2>1
<1> QED
  BY <1>1, <1>2, <1>3, <1>7

(* A finite set of ids that is not empty has a greatest one.               *)
LEMMA Greatest ==
  ASSUME NEW S, \A x \in S : x \in Nat, IsFiniteSet(S), S # {}
  PROVE  \E m \in S : \A x \in S : x <= m
<1>1. Cardinality(S) \in Nat /\ Cardinality(S) # 0
  BY FS_CardinalityType, FS_EmptySet
<1>2. PICK m \in S : Cardinality(Higher(S, m)) = 0
  BY SMTT(30), <1>1, Ranks
<1>3. IsFiniteSet(Higher(S, m))
  BY Ranks
<1>4. Higher(S, m) = {}
  BY <1>2, <1>3, FS_EmptySet
<1> QED
  BY SMTT(30), <1>4 DEF Higher

(* How many incidents of a log apply() lets go.                            *)
Cut(s) == IF Len(s) > MaxPerHost THEN Len(s) - MaxPerHost ELSE 0

(* apply() keeps the end of a log.                                         *)
LEMMA CappedIs ==
  ASSUME NEW S, NEW s \in Seq(S)
  PROVE  /\ Cut(s) \in 0..Len(s)
         /\ Capped(s) \in Seq(S)
         /\ Len(Capped(s)) = Len(s) - Cut(s)
         /\ \A i \in 1..Len(s) - Cut(s) : Capped(s)[i] = s[i + Cut(s)]
<1>1. MaxPerHost \in Nat \ {0}
  BY StoreConstants
<1>2. CASE Len(s) > MaxPerHost
  <2> DEFINE d == Len(s) - MaxPerHost
  <2>1. d \in 0..Len(s) /\ Capped(s) = SubSeq(s, d + 1, Len(s)) /\ Cut(s) = d
    BY SMTT(30), <1>1, <1>2 DEF Capped, Cut
  <2>2. \A i \in d + 1..Len(s) : s[i] \in S
    BY SMTT(30), <2>1
  <2>3. /\ Capped(s) \in Seq(S) /\ Len(Capped(s)) = Len(s) - d
        /\ \A i \in 1..Len(s) - d : Capped(s)[i] = s[i + d]
    BY SMTT(30), <2>1, <2>2, CutIs
  <2> QED
    BY <2>1, <2>3
<1>3. CASE ~(Len(s) > MaxPerHost)
  <2>1. Capped(s) = s /\ Cut(s) = 0
    BY <1>3 DEF Capped, Cut
  <2> QED
    BY SMTT(30), <2>1
<1> QED
  BY <1>2, <1>3

(* In a log with increasing ids, the ones after a position are those with  *)
(* higher ids, so that the number of higher ids tells the position.        *)
LEMMA RankInLog ==
  ASSUME NEW s \in Seq(Inc), Increasing(s), NEW i \in 1..Len(s)
  PROVE  Cardinality(Higher(IdsOf(s), s[i].id)) = Len(s) - i
<1> DEFINE T == Higher(IdsOf(s), s[i].id)
           J == i + 1..Len(s)
           f == [j \in J |-> s[j].id]
<1>1. \A j \in 1..Len(s) : s[j].id \in Nat
  <2>1. \A j \in 1..Len(s) : s[j] \in Inc
    BY Elements
  <2> QED
    BY <2>1, Zenon DEF Inc
<1>2. \A j, k \in 1..Len(s) : j < k => s[j].id < s[k].id
  BY SMTT(30) DEF Increasing
<1>3. \A y : y \in T <=> \E j \in J : y = s[j].id
  <2>1. \A y : y \in T <=> (\E j \in 1..Len(s) : y = s[j].id) /\ y > s[i].id
    BY SMTT(30) DEF Higher, IdsOf
  <2>2. \A j \in 1..Len(s) : s[j].id > s[i].id <=> j \in J
    BY SMTT(30), <1>1, <1>2
  <2>3. J \subseteq 1..Len(s)
    BY SMTT(30)
  <2> QED
    BY <2>1, <2>2, <2>3
<1>4. \A j, k \in J : s[j].id = s[k].id => j = k
  BY SMTT(30), <1>1, <1>2
<1>5. IsFiniteSet(J) /\ Cardinality(J) = Len(s) - i
  BY SMTT(30), FS_Interval
<1> HIDE DEF T, J
<1>6. f \in [J -> T] /\ f \in Surjection(J, T)
  BY <1>3 DEF Surjection
<1>7. f \in Injection(J, T)
  BY <1>4, <1>6 DEF Injection, IsInjective
<1> QED
  BY SMTT(30), <1>5, <1>6, <1>7, FS_Surjection DEF T

(* In such a log an id has one place.                                      *)
LEMMA OnePlace ==
  ASSUME NEW s, NEW next, LogOK(s, next)
  PROVE  /\ s \in Seq(Inc) /\ DOMAIN s = 1..Len(s) /\ Len(s) \in Nat /\ Len(s) <= MaxPerHost
         /\ \A i \in DOMAIN s : s[i] \in Inc /\ s[i].id \in Nat /\ s[i].id < next
         /\ \A i, j \in DOMAIN s : s[i].id = s[j].id => i = j
<1>1. s \in Seq(Inc) /\ Len(s) \in Nat /\ DOMAIN s = 1..Len(s) /\ Len(s) <= MaxPerHost
  BY SMTT(30) DEF LogOK
<1>2. \A i \in DOMAIN s : s[i] \in Inc
  BY SMTT(30), <1>1
<1>3. \A i \in DOMAIN s : s[i].id \in Nat
  BY <1>2, Zenon DEF Inc
<1>4. \A i, j \in DOMAIN s : i < j => s[i].id < s[j].id
  BY DEF LogOK, Increasing
<1>5. ASSUME NEW i \in DOMAIN s, NEW j \in DOMAIN s, s[i].id = s[j].id PROVE i = j
  BY SMTT(30), <1>1, <1>3, <1>4, <1>5
<1> QED
  BY <1>1, <1>2, <1>3, <1>5 DEF LogOK

-----------------------------------------------------------------------------
(* Pruning and loading. *)

(* Taking rows away leaves rows.                                           *)
LEMMA RestrictedIs ==
  ASSUME NEW r, NEW next, NEW time, RowsOK(r, next, time), NEW S
  PROVE  /\ DOMAIN Restricted(r, S) = DOMAIN r \cap S
         /\ \A id \in DOMAIN r \cap S : Restricted(r, S)[id] = r[id]
         /\ RowsOK(Restricted(r, S), next, time)
<1>1. /\ DOMAIN Restricted(r, S) = DOMAIN r \cap S
      /\ \A id \in DOMAIN r \cap S : Restricted(r, S)[id] = r[id]
  BY DEF Restricted
<1>2. Restricted(r, S) \in [DOMAIN r \cap S -> Row]
  BY DEF Restricted, RowsOK
<1>3. IsFiniteSet(DOMAIN r \cap S)
  BY FS_Intersection, Zenon DEF RowsOK
<1> QED
  BY <1>1, <1>2, <1>3 DEF RowsOK

(* The retention half of prune() takes the oldest rows, by id.             *)
LEMMA RecentKeeps ==
  ASSUME NEW r, NEW next, RowsOK(r, next, now), now \in Nat
  PROVE  /\ DOMAIN Recent(r) \subseteq DOMAIN r
         /\ \A id \in DOMAIN Recent(r) : Recent(r)[id] = r[id]
         /\ RowsOK(Recent(r), next, now)
         /\ \A a \in DOMAIN Recent(r), b \in DOMAIN r : a <= b => b \in DOMAIN Recent(r)
<1>1. CASE Retain = 0
  <2>1. Recent(r) = r
    BY <1>1 DEF Recent
  <2> QED
    BY <2>1
<1>2. CASE Retain # 0
  <2> DEFINE cutoff == IF now > Retain THEN now - Retain ELSE 0
             S == {id \in DOMAIN r : r[id].inc.received >= cutoff}
  <2>1. Recent(r) = Restricted(r, S)
    BY <1>2 DEF Recent
  <2>2. cutoff \in Nat
    BY SMTT(30), StoreConstants
  <2>3. \A id \in DOMAIN r : r[id].inc.received \in Nat
    <3>1. \A id \in DOMAIN r : r[id] \in Row
      BY DEF RowsOK
    <3> QED
      BY <3>1, Zenon DEF Row, Inc
  <2>4. \A a, b \in DOMAIN r : a <= b /\ a \in S => b \in S
    <3> HIDE DEF cutoff
    <3> QED
      BY SMTT(30), <2>2, <2>3 DEF RowsOK
  <2>5. S \subseteq DOMAIN r
    OBVIOUS
  <2> HIDE DEF S
  <2>6. /\ DOMAIN Restricted(r, S) = DOMAIN r \cap S
        /\ \A id \in DOMAIN r \cap S : Restricted(r, S)[id] = r[id]
        /\ RowsOK(Restricted(r, S), next, now)
    BY RestrictedIs, Zenon
  <2> QED
    BY <2>1, <2>4, <2>5, <2>6
<1> QED
  BY <1>1, <1>2

(* The row cap keeps the highest ids, at most MAX_STORED_INCIDENTS of them.*)
LEMMA NewestKeeps ==
  ASSUME NEW r, NEW next, NEW time, RowsOK(r, next, time)
  PROVE  /\ DOMAIN Newest(r) \subseteq DOMAIN r
         /\ \A id \in DOMAIN Newest(r) : Newest(r)[id] = r[id]
         /\ RowsOK(Newest(r), next, time)
         /\ \A a \in DOMAIN Newest(r), b \in DOMAIN r : a <= b => b \in DOMAIN Newest(r)
         /\ Cardinality(DOMAIN Newest(r)) <= MaxStored
<1> DEFINE D == DOMAIN r
           K == {i \in D : Cardinality(Higher(D, i)) < MaxStored}
<1>1. \A i \in D : i \in Nat /\ r[i].inc.received \in Nat
  <2>1. \A i \in D : r[i] \in Row
    BY DEF RowsOK
  <2> QED
    BY <2>1, Zenon DEF RowsOK, Row, Inc
<1>2. \A i, j \in D :
        (\/ r[i].inc.received < r[j].inc.received
         \/ r[i].inc.received = r[j].inc.received /\ i < j) <=> j > i
  <2>1. \A i, j \in D : i <= j => r[i].inc.received <= r[j].inc.received
    BY DEF RowsOK
  <2> QED
    BY SMTT(30), <1>1, <2>1
<1>3. Newest(r) = Restricted(r, K)
  <2>1. ASSUME NEW i \in D
        PROVE  {j \in D : \/ r[i].inc.received < r[j].inc.received
                          \/ r[i].inc.received = r[j].inc.received /\ i < j}
                 = Higher(D, i)
    BY <1>2 DEF Higher
  <2> QED
    BY <2>1, Zenon DEF Newest
<1>4. MaxStored \in Nat \ {0}
  BY StoreConstants
<1>5. IsFiniteSet(D)
  BY DEF RowsOK
<1> HIDE DEF D
<1>6. \A i \in D : Cardinality(Higher(D, i)) \in Nat
  BY SMTT(30), <1>1, <1>5, Ranks
<1>7. \A i, j \in D : i < j => Cardinality(Higher(D, j)) < Cardinality(Higher(D, i))
  BY <1>1, <1>5, Ranks
<1>8. \A a \in K, b \in D : a <= b => b \in K
  BY SMTT(30), <1>1, <1>4, <1>6, <1>7
<1>9. Cardinality(K) <= MaxStored
  <2> DEFINE rank == [i \in K |-> Cardinality(Higher(D, i))]
             R == 0..MaxStored - 1
  <2>1. rank \in [K -> R]
    BY SMTT(30), <1>4, <1>6
  <2>2. ASSUME NEW i \in K, NEW j \in K, rank[i] = rank[j] PROVE i = j
    BY SMTT(30), <2>2, <1>1, <1>6, <1>7
  <2>3. rank \in Injection(K, R)
    BY <2>1, <2>2 DEF Injection, IsInjective
  <2>4. IsFiniteSet(R) /\ Cardinality(R) = MaxStored
    BY SMTT(30), <1>4, FS_Interval
  <2> HIDE DEF R, rank, K
  <2>5. Cardinality(K) <= Cardinality(R)
    BY <2>3, <2>4, FS_Injection
  <2> QED
    BY <2>4, <2>5
<1>10. K \subseteq D
  OBVIOUS
<1> HIDE DEF K
<1>11. /\ DOMAIN Restricted(r, K) = DOMAIN r \cap K
       /\ \A id \in DOMAIN r \cap K : Restricted(r, K)[id] = r[id]
       /\ RowsOK(Restricted(r, K), next, time)
  BY RestrictedIs, Zenon
<1>12. DOMAIN Newest(r) = K
  BY <1>3, <1>10, <1>11 DEF D
<1> QED
  BY <1>3, <1>8, <1>9, <1>10, <1>11, <1>12 DEF D

(* prune() keeps the highest ids, at most MAX_STORED_INCIDENTS of them.    *)
LEMMA PruneKeeps ==
  ASSUME NEW r, NEW next, RowsOK(r, next, now), now \in Nat
  PROVE  /\ DOMAIN Prune(r) \subseteq DOMAIN r
         /\ \A id \in DOMAIN Prune(r) : Prune(r)[id] = r[id]
         /\ RowsOK(Prune(r), next, now)
         /\ \A a \in DOMAIN Prune(r), b \in DOMAIN r : a <= b => b \in DOMAIN Prune(r)
         /\ Cardinality(DOMAIN Prune(r)) <= MaxStored
<1> DEFINE q == Recent(r)
<1>1. /\ DOMAIN q \subseteq DOMAIN r
      /\ \A id \in DOMAIN q : q[id] = r[id]
      /\ RowsOK(q, next, now)
      /\ \A a \in DOMAIN q, b \in DOMAIN r : a <= b => b \in DOMAIN q
  BY RecentKeeps, Zenon
<1> HIDE DEF q
<1>2. /\ DOMAIN Newest(q) \subseteq DOMAIN q
      /\ \A id \in DOMAIN Newest(q) : Newest(q)[id] = q[id]
      /\ RowsOK(Newest(q), next, now)
      /\ \A a \in DOMAIN Newest(q), b \in DOMAIN q : a <= b => b \in DOMAIN Newest(q)
      /\ Cardinality(DOMAIN Newest(q)) <= MaxStored
  BY <1>1, NewestKeeps, Zenon
<1>3. Prune(r) = Newest(q)
  BY DEF Prune, q
<1> QED
  BY <1>1, <1>2, <1>3, Zenon

(* The counter goes on after every id that is left.                        *)
LEMMA MaxIdIs ==
  ASSUME NEW r, NEW next, NEW time, RowsOK(r, next, time)
  PROVE  /\ MaxId(r) \in Nat
         /\ \A id \in DOMAIN r : id <= MaxId(r)
<1>1. CASE DOMAIN r = {}
  BY <1>1 DEF MaxId
<1>2. CASE DOMAIN r # {}
  <2> DEFINE D == DOMAIN r
  <2>1. (\A x \in D : x \in Nat) /\ IsFiniteSet(D)
    BY DEF RowsOK
  <2> HIDE DEF D
  <2>2. \E m \in D : \A id \in D : id <= m
    BY <1>2, <2>1, Greatest DEF D
  <2>3. MaxId(r) = CHOOSE m \in D : \A id \in D : id <= m
    BY <1>2 DEF MaxId, D
  <2>4. MaxId(r) \in D /\ \A id \in D : id <= MaxId(r)
    BY <2>2, <2>3
  <2> QED
    BY <2>1, <2>4 DEF D
<1> QED
  BY <1>1, <1>2, Zenon

(* Rows are read in the order of their ids, each of them once.             *)
LEMMA NthIs ==
  ASSUME NEW S, \A x \in S : x \in Nat, IsFiniteSet(S)
  PROVE  /\ \A n \in 1..Cardinality(S) :
              Nth(S, n) \in S /\ Cardinality(Higher(S, Nth(S, n))) = Cardinality(S) - n
         /\ \A m, n \in 1..Cardinality(S) : m < n => Nth(S, m) < Nth(S, n)
<1>1. Cardinality(S) \in Nat
  BY Ranks
<1>2. ASSUME NEW n \in 1..Cardinality(S)
      PROVE  Nth(S, n) \in S /\ Cardinality(Higher(S, Nth(S, n))) = Cardinality(S) - n
  <2>1. Cardinality(S) - n \in 0..Cardinality(S) - 1
    BY SMTT(30), <1>1
  <2>2. \E x \in S : Cardinality(Higher(S, x)) = Cardinality(S) - n
    BY <2>1, Ranks
  <2> QED
    BY <2>2 DEF Nth
<1>3. ASSUME NEW m \in 1..Cardinality(S), NEW n \in 1..Cardinality(S), m < n
      PROVE  Nth(S, m) < Nth(S, n)
  <2>1. /\ Nth(S, m) \in S /\ Cardinality(Higher(S, Nth(S, m))) = Cardinality(S) - m
        /\ Nth(S, n) \in S /\ Cardinality(Higher(S, Nth(S, n))) = Cardinality(S) - n
    BY <1>2
  <2>2. \A x, z \in S : x < z => Cardinality(Higher(S, z)) < Cardinality(Higher(S, x))
    BY Ranks
  <2>3. Nth(S, m) # Nth(S, n)
    BY SMTT(30), <2>1, <1>1, <1>3
  <2>4. ~(Nth(S, n) < Nth(S, m))
    BY SMTT(30), <2>1, <2>2, <1>1, <1>3
  <2> QED
    BY SMTT(30), <2>1, <2>3, <2>4
<1> QED
  BY <1>2, <1>3

(* The working set a restart loads for a host: those of its rows that have *)
(* fewer than MAX_PER_HOST newer ones, in the order of their ids.          *)
LEMMA LoadedIs ==
  ASSUME NEW r, NEW next \in Nat, NEW time, RowsOK(r, next, time), NEW h \in Hosts
  PROVE  /\ LogOK(Loaded(r)[h], next)
         /\ \A i \in DOMAIN Loaded(r)[h] :
              LET id == Loaded(r)[h][i].id
              IN  /\ id \in Ids(r, h) /\ Loaded(r)[h][i] = r[id].inc
                  /\ Cardinality(Higher(Ids(r, h), id)) < MaxPerHost
         /\ \A id \in Ids(r, h) :
              Cardinality(Higher(Ids(r, h), id)) < MaxPerHost => id \in IdsOf(Loaded(r)[h])
         /\ Cardinality(Ids(r, h)) >= MaxPerHost => Len(Loaded(r)[h]) = MaxPerHost
<1> DEFINE D == Ids(r, h)
           N == Cardinality(D)
           all == [n \in 1..N |-> r[Nth(D, n)].inc]
           s == Capped(all)
<1>1. Loaded(r)[h] = s
  BY DEF Loaded
<1>2. /\ IsFiniteSet(D) /\ D \subseteq DOMAIN r
      /\ \A id \in D : id \in Nat /\ id < next /\ r[id].inc \in Inc /\ r[id].inc.id = id
  <2>1. D \in SUBSET DOMAIN r
    BY DEF Ids
  <2>2. IsFiniteSet(D)
    BY <2>1, FS_Subset DEF RowsOK
  <2>3. \A id \in D : r[id] \in Row /\ id \in Nat /\ id < next /\ r[id].inc.id = id
    BY <2>1 DEF RowsOK
  <2> QED
    BY <2>1, <2>2, <2>3 DEF Row
<1> HIDE DEF D
<1>3. N \in Nat /\ MaxPerHost \in Nat \ {0}
  BY <1>2, Ranks, StoreConstants
<1>4. \A n \in 1..N : Nth(D, n) \in D /\ Cardinality(Higher(D, Nth(D, n))) = N - n
  BY <1>2, NthIs
<1>5. \A m, n \in 1..N : m < n => Nth(D, m) < Nth(D, n)
  BY <1>2, NthIs
<1> HIDE DEF N
<1>6. /\ all \in Seq(Inc) /\ Len(all) = N
      /\ \A n \in 1..N : all[n] = r[Nth(D, n)].inc /\ all[n].id = Nth(D, n)
  BY SMTT(30), <1>2, <1>3, <1>4
<1> HIDE DEF all
<1> DEFINE d == Cut(all)
<1>7. /\ d \in 0..N /\ d = IF N > MaxPerHost THEN N - MaxPerHost ELSE 0
      /\ s \in Seq(Inc) /\ Len(s) = N - d
      /\ \A i \in 1..N - d : s[i] = all[i + d]
  <2>1. /\ d \in 0..Len(all) /\ s \in Seq(Inc) /\ Len(s) = Len(all) - d
        /\ \A i \in 1..Len(all) - d : s[i] = all[i + d]
    BY <1>6, CappedIs
  <2> QED
    BY <2>1, <1>6 DEF Cut
<1> HIDE DEF s, d
<1>8. DOMAIN s = 1..N - d /\ N - d <= MaxPerHost
  BY SMTT(30), <1>3, <1>7
<1>9. \A i \in 1..N - d : i + d \in 1..N /\ s[i] = r[Nth(D, i + d)].inc /\ s[i].id = Nth(D, i + d)
  BY SMTT(30), <1>3, <1>6, <1>7
<1>10. ASSUME NEW i \in 1..N - d
       PROVE  /\ s[i].id \in D /\ s[i] = r[s[i].id].inc /\ s[i].id < next
              /\ Cardinality(Higher(D, s[i].id)) < MaxPerHost
  <2>1. i + d \in 1..N /\ s[i] = r[Nth(D, i + d)].inc /\ s[i].id = Nth(D, i + d)
    BY <1>9
  <2>2. Nth(D, i + d) \in D /\ Cardinality(Higher(D, Nth(D, i + d))) = N - (i + d)
    BY <2>1, <1>4
  <2>3. N - (i + d) < MaxPerHost
    BY SMTT(30), <1>3, <1>8, <1>7
  <2> QED
    BY <2>1, <2>2, <2>3, <1>2
<1>11. ASSUME NEW i \in 1..N - d, NEW j \in 1..N - d, i < j PROVE s[i].id < s[j].id
  <2>1. i + d \in 1..N /\ j + d \in 1..N /\ i + d < j + d
    BY SMTT(30), <1>3, <1>11, <1>7
  <2> QED
    BY <2>1, <1>5, <1>9
<1>12. LogOK(s, next)
  BY <1>7, <1>8, <1>10, <1>11 DEF LogOK, Increasing
<1>13. ASSUME NEW id \in D, Cardinality(Higher(D, id)) < MaxPerHost PROVE id \in IdsOf(s)
  <2> DEFINE k == Cardinality(Higher(D, id))
  <2>1. k \in 0..N - 1
    BY <1>2, Ranks DEF N
  <2>2. N - k \in 1..N /\ (N - k) - d \in 1..N - d
    <3> HIDE DEF k
    <3>1. k < MaxPerHost
      BY <1>13 DEF k
    <3>2. d = IF N > MaxPerHost THEN N - MaxPerHost ELSE 0
      BY <1>7
    <3> QED
      BY SMTT(30), <2>1, <3>1, <3>2, <1>3
  <2>3. Nth(D, N - k) \in D /\ Cardinality(Higher(D, Nth(D, N - k))) = k
    BY SMTT(30), <2>1, <2>2, <1>3, <1>4
  <2>4. \A x, z \in D : x < z => Cardinality(Higher(D, z)) < Cardinality(Higher(D, x))
    BY <1>2, Ranks
  <2>5. Nth(D, N - k) = id
    BY SMTT(30), <2>1, <2>3, <2>4, <1>2
  <2>6. s[(N - k) - d].id = Nth(D, ((N - k) - d) + d)
    BY <2>2, <1>9
  <2>7. ((N - k) - d) + d = N - k
    BY SMTT(30), <2>1, <1>3, <1>7
  <2>8. s[(N - k) - d].id = id /\ (N - k) - d \in DOMAIN s
    BY <2>2, <2>5, <2>6, <2>7, <1>8
  <2> QED
    BY <2>8 DEF IdsOf
<1>14. N >= MaxPerHost => Len(s) = MaxPerHost
  BY SMTT(30), <1>3, <1>7
<1> QED
  BY <1>1, <1>8, <1>10, <1>12, <1>13, <1>14 DEF D, N

(* A log that has the newest incidents of another, and they alone, is the  *)
(* end of it.                                                              *)
LEMMA TailOf ==
  ASSUME NEW a \in Seq(Inc), Increasing(a), NEW b \in Seq(Inc), Increasing(b),
         \A j \in DOMAIN b : \E i \in DOMAIN a : a[i] = b[j],
         \A x \in IdsOf(a), y \in IdsOf(b) : y <= x => x \in IdsOf(b)
  PROVE  \E d \in 0..Len(a) :
           /\ b = SubSeq(a, d + 1, Len(a))
           /\ \A i \in DOMAIN a : i <= d <=> a[i].id \notin IdsOf(b)
<1> DEFINE d == Len(a) - Len(b)
<1>1. /\ \A i \in 1..Len(a) : a[i] \in Inc /\ a[i].id \in Nat
      /\ \A j \in 1..Len(b) : b[j] \in Inc /\ b[j].id \in Nat
  <2>1. /\ \A i \in 1..Len(a) : a[i] \in Inc
        /\ \A j \in 1..Len(b) : b[j] \in Inc
    BY Elements
  <2> QED
    BY <2>1, Zenon DEF Inc
<1>d. DOMAIN a = 1..Len(a) /\ DOMAIN b = 1..Len(b) /\ Len(a) \in Nat /\ Len(b) \in Nat
  BY SMTT(30)
<1>2. ASSUME NEW j \in 1..Len(b)
      PROVE  j + d \in 1..Len(a) /\ b[j] = a[j + d]
  <2>1. PICK i \in 1..Len(a) : a[i] = b[j]
    BY <1>d
  <2>2. IdsOf(b) \subseteq IdsOf(a)
    BY DEF IdsOf
  <2>3. b[j].id \in IdsOf(b)
    BY SMTT(30) DEF IdsOf
  <2>4. \A x \in IdsOf(a) : x \in Nat
    BY SMTT(30), <1>1 DEF IdsOf
  <2>5. Higher(IdsOf(b), b[j].id) = Higher(IdsOf(a), a[i].id)
    <3>1. \A x \in IdsOf(a) : x > b[j].id => x \in IdsOf(b)
      BY SMTT(30), <2>3, <2>4, <1>1
    <3> QED
      BY <2>1, <2>2, <3>1 DEF Higher
  <2>6. Len(b) - j = Len(a) - i
    BY <2>5, RankInLog, Zenon
  <2> QED
    BY SMTT(30), <2>1, <2>6
<1>3. d \in 0..Len(a)
  <2>1. CASE Len(b) = 0
    BY SMTT(30), <2>1
  <2>2. CASE Len(b) # 0
    <3>1. 1 \in 1..Len(b)
      BY SMTT(30), <2>2
    <3> QED
      BY SMTT(30), <3>1, <1>2
  <2> QED
    BY <2>1, <2>2
<1>4. b = SubSeq(a, d + 1, Len(a))
  <2>1. /\ SubSeq(a, d + 1, Len(a)) \in Seq(Inc)
        /\ Len(SubSeq(a, d + 1, Len(a))) = Len(b)
        /\ \A j \in 1..Len(b) : SubSeq(a, d + 1, Len(a))[j] = a[j + d]
    <3>1. \A i \in d + 1..Len(a) : a[i] \in Inc
      BY SMTT(30), <1>1, <1>3
    <3> QED
      BY SMTT(30), <3>1, <1>3, CutIs
  <2> QED
    BY <2>1, <1>2, SameElements
<1>5. ASSUME NEW i \in DOMAIN a PROVE i <= d <=> a[i].id \notin IdsOf(b)
  <2>1. ASSUME i > d PROVE a[i].id \in IdsOf(b)
    <3>1. i - d \in 1..Len(b) /\ (i - d) + d = i
      BY SMTT(30), <2>1, <1>3
    <3>2. b[i - d] = a[i]
      BY <3>1, <1>2
    <3> QED
      BY SMTT(30), <3>1, <3>2 DEF IdsOf
  <2>2. ASSUME a[i].id \in IdsOf(b) PROVE i > d
    <3>1. PICK j \in 1..Len(b) : a[i].id = b[j].id
      BY SMTT(30), <2>2 DEF IdsOf
    <3>2. j + d \in 1..Len(a) /\ a[j + d].id = a[i].id
      BY <3>1, <1>2
    <3>3. j + d = i
      <4>1. \A k, l \in 1..Len(a) : k < l => a[k].id < a[l].id
        BY <1>d, Zenon DEF Increasing
      <4>2. \A k, l \in 1..Len(a) : a[k].id = a[l].id => k = l
        BY SMTT(30), <4>1, <1>1
      <4> HIDE DEF d
      <4> QED
        BY <3>2, <4>2, <1>d
    <3> QED
      BY SMTT(30), <3>3, <1>3
  <2> QED
    BY SMTT(30), <2>1, <2>2, <1>3
<1> QED
  BY <1>3, <1>4, <1>5, Zenon

(* What a working set read from rows owes them: each incident is its row's,*)
(* and no id is there twice.                                               *)
LEMMA LoadedAgrees ==
  ASSUME NEW r, NEW next \in Nat, NEW time, RowsOK(r, next, time)
  PROVE  \A h \in Hosts : \A i \in DOMAIN Loaded(r)[h] :
           LET inc == Loaded(r)[h][i]
           IN  /\ inc.id \in DOMAIN r /\ r[inc.id].host = h /\ r[inc.id].inc = inc
               /\ \A g \in Hosts : \A j \in DOMAIN Loaded(r)[g] :
                    Loaded(r)[g][j].id = inc.id => g = h /\ j = i
<1>1. ASSUME NEW h \in Hosts, NEW i \in DOMAIN Loaded(r)[h]
      PROVE  /\ Loaded(r)[h][i].id \in DOMAIN r
             /\ r[Loaded(r)[h][i].id].host = h
             /\ r[Loaded(r)[h][i].id].inc = Loaded(r)[h][i]
  <2> DEFINE id == Loaded(r)[h][i].id
  <2>1. id \in Ids(r, h) /\ Loaded(r)[h][i] = r[id].inc
    BY LoadedIs
  <2> QED
    BY <2>1 DEF Ids
<1>2. ASSUME NEW h \in Hosts, NEW i \in DOMAIN Loaded(r)[h],
             NEW j \in DOMAIN Loaded(r)[h], Loaded(r)[h][j].id = Loaded(r)[h][i].id
      PROVE  j = i
  <2>1. LogOK(Loaded(r)[h], next)
    BY LoadedIs
  <2> QED
    BY <2>1, <1>2, OnePlace
<1> QED
  BY SMTT(30), <1>1, <1>2

(* apply() with an incident that has the next id: the log grows at its end *)
(* and, when it was full, shrinks at its beginning.                        *)
LEMMA AppliedIs ==
  ASSUME NEW s, NEW next \in Nat, LogOK(s, next), NEW inc \in Inc, inc.id = next
  PROVE  LET t == Capped(Append(s, inc))
         IN  /\ LogOK(t, next + 1)
             /\ \A i \in DOMAIN t : t[i] = inc \/ \E j \in DOMAIN s : t[i] = s[j]
             /\ \E i \in DOMAIN t : t[i] = inc
             /\ \A j \in DOMAIN s :
                  s[j].id \in IdsOf(t) \/ (Len(t) = MaxPerHost /\ s[j].id < t[1].id)
             /\ Len(s) = MaxPerHost => Len(t) = MaxPerHost /\ s[1].id < t[1].id
<1> DEFINE a == Append(s, inc)
           c == Cut(a)
           t == Capped(a)
<1>1. /\ s \in Seq(Inc) /\ DOMAIN s = 1..Len(s) /\ Len(s) \in Nat /\ Len(s) <= MaxPerHost
      /\ \A i \in DOMAIN s : s[i] \in Inc /\ s[i].id \in Nat /\ s[i].id < next
  BY OnePlace
<1>2. /\ a \in Seq(Inc) /\ Len(a) = Len(s) + 1 /\ a[Len(s) + 1] = inc
      /\ \A i \in 1..Len(s) : a[i] = s[i]
  BY SMTT(30), <1>1
<1> HIDE DEF a
<1>3. /\ MaxPerHost \in Nat \ {0} /\ Len(s) \in Nat /\ Len(s) <= MaxPerHost
      /\ Len(a) = Len(s) + 1
  BY <1>1, <1>2, StoreConstants
<1>4. /\ c \in {0, 1} /\ (c = 1 <=> Len(s) = MaxPerHost)
      /\ t \in Seq(Inc) /\ Len(t) = Len(s) + 1 - c
      /\ \A i \in 1..Len(s) + 1 - c : t[i] = a[i + c]
  <2>1. /\ t \in Seq(Inc) /\ Len(t) = Len(a) - c
        /\ \A i \in 1..Len(a) - c : t[i] = a[i + c]
    BY <1>2, CappedIs
  <2>2. c \in {0, 1} /\ (c = 1 <=> Len(s) = MaxPerHost)
    BY SMTT(30), <1>3 DEF Cut
  <2> QED
    BY SMTT(30), <2>1, <2>2, <1>2
<1> HIDE DEF c, t
<1>5. DOMAIN t = 1..Len(s) + 1 - c /\ c \in {0, 1} /\ (c = 1 <=> Len(s) = MaxPerHost)
  BY SMTT(30), <1>1, <1>4
<1>e. \A i \in DOMAIN t : i \in Nat /\ i + c \in 1..Len(s) + 1 /\ t[i] = a[i + c]
  <2>1. \A i \in DOMAIN t : t[i] = a[i + c]
    BY <1>4, <1>5
  <2>2. \A i \in DOMAIN t : i \in Nat /\ i + c \in 1..Len(s) + 1
    BY SMTT(30), <1>3, <1>5
  <2> QED
    BY <2>1, <2>2
<1>6. \A i, j \in 1..Len(s) + 1 : i < j => a[i].id < a[j].id
  <2>1. \A i, j \in 1..Len(s) : i < j => a[i].id < a[j].id
    BY <1>1, <1>2 DEF LogOK, Increasing
  <2>2. \A i \in 1..Len(s) : a[i].id < a[Len(s) + 1].id
    BY <1>1, <1>2
  <2>3. \A i \in 1..Len(s) + 1 : i \in 1..Len(s) \/ i = Len(s) + 1
    BY SMTT(30), <1>3
  <2>4. ASSUME NEW i \in 1..Len(s) + 1, NEW j \in 1..Len(s) + 1, i < j
        PROVE  a[i].id < a[j].id
    <3>1. i \in 1..Len(s)
      BY SMTT(30), <2>4, <1>3
    <3> QED
      BY <2>1, <2>2, <2>3, <2>4, <3>1
  <2> QED
    BY <2>4
<1>7. \A i \in 1..Len(s) + 1 : a[i].id \in Nat /\ a[i].id < next + 1
  BY SMTT(30), <1>1, <1>2
<1>8. LogOK(t, next + 1)
  <2>1. ASSUME NEW i \in DOMAIN t, NEW j \in DOMAIN t, i < j PROVE t[i].id < t[j].id
    <3>1. i + c < j + c
      BY SMTT(30), <2>1, <1>e, <1>5
    <3> QED
      BY <3>1, <1>e, <1>6
  <2>2. Increasing(t)
    BY <2>1 DEF Increasing
  <2>3. Len(t) <= MaxPerHost
    <3>1. Len(t) = Len(s) + 1 - c
      BY <1>4
    <3> QED
      BY SMTT(30), <3>1, <1>3, <1>5
  <2>4. t \in Seq(Inc) /\ \A i \in DOMAIN t : t[i].id < next + 1
    BY <1>4, <1>e, <1>7
  <2> QED
    BY <2>2, <2>3, <2>4 DEF LogOK
<1>9. ASSUME NEW i \in DOMAIN t PROVE t[i] = inc \/ \E j \in DOMAIN s : t[i] = s[j]
  <2>1. i + c \in 1..Len(s) + 1 /\ t[i] = a[i + c]
    BY <1>e
  <2>2. i + c \in 1..Len(s) \/ i + c = Len(s) + 1
    BY SMTT(30), <2>1, <1>3
  <2> QED
    BY <2>1, <2>2, <1>1, <1>2
<1>10. \E i \in DOMAIN t : t[i] = inc
  <2> DEFINE k == Len(s) + 1 - c
  <2>1. k \in DOMAIN t /\ k + c = Len(s) + 1
    BY SMTT(30), <1>3, <1>5
  <2> HIDE DEF k
  <2>2. t[k] = inc
    BY <2>1, <1>e, <1>2
  <2> QED
    BY <2>1, <2>2
<1>11. ASSUME Len(s) = MaxPerHost
       PROVE  Len(t) = MaxPerHost /\ s[1].id < t[1].id /\ c = 1
  <2>1. c = 1 /\ Len(t) = MaxPerHost /\ 1 \in 1..Len(s) + 1 - c
    BY SMTT(30), <1>1, <1>3, <1>4, <1>11
  <2>2. t[1] = a[2] /\ s[1] = a[1] /\ 2 \in 1..Len(s) + 1
    BY SMTT(30), <2>1, <1>1, <1>2, <1>3, <1>4, <1>11
  <2> QED
    BY SMTT(30), <2>1, <2>2, <1>6
<1>12. ASSUME NEW j \in DOMAIN s
       PROVE  s[j].id \in IdsOf(t) \/ (Len(t) = MaxPerHost /\ s[j].id < t[1].id)
  <2>1. CASE c = 0
    <3>1. j \in DOMAIN t /\ t[j] = s[j]
      BY SMTT(30), <2>1, <1>1, <1>2, <1>4, <1>5
    <3> QED
      BY <3>1 DEF IdsOf
  <2>2. CASE c = 1 /\ j # 1
    <3>1. j - 1 \in DOMAIN t /\ t[j - 1] = a[j - 1 + 1] /\ j - 1 + 1 = j
      BY SMTT(30), <2>2, <1>1, <1>4, <1>5
    <3>2. t[j - 1].id = s[j].id
      BY <3>1, <1>1, <1>2
    <3> QED
      BY <3>1, <3>2 DEF IdsOf
  <2>3. CASE c = 1 /\ j = 1
    BY <2>3, <1>4, <1>11
  <2> QED
    BY <2>1, <2>2, <2>3, <1>4
<1> QED
  BY <1>8, <1>9, <1>10, <1>11, <1>12 DEF t, a

(* The insert of a row with the next id.                                   *)
LEMMA InsertedIs ==
  ASSUME NEW r, NEW next \in Nat \ {0}, NEW time \in Nat, RowsOK(r, next, time),
         NEW row \in Row, row.inc.id = next, row.inc.received = time
  PROVE  /\ DOMAIN Inserted(r, next, row) = DOMAIN r \cup {next}
         /\ Inserted(r, next, row)[next] = row
         /\ \A id \in DOMAIN r : Inserted(r, next, row)[id] = r[id]
         /\ RowsOK(Inserted(r, next, row), next + 1, time)
         /\ Cardinality(DOMAIN r \cup {next}) = Cardinality(DOMAIN r) + 1
<1> DEFINE q == Inserted(r, next, row)
<1>1. \A id \in DOMAIN r : /\ r[id] \in Row /\ id \in Nat \ {0} /\ id < next
                           /\ r[id].inc.id = id /\ r[id].inc.received <= time
  BY DEF RowsOK
<1>2. next \notin DOMAIN r
  BY SMTT(30), <1>1
<1>3. /\ DOMAIN q = DOMAIN r \cup {next} /\ q[next] = row
      /\ \A id \in DOMAIN r : q[id] = r[id]
      /\ q = [id \in DOMAIN r \cup {next} |-> q[id]]
  BY <1>2 DEF Inserted
<1>4. /\ IsFiniteSet(DOMAIN r \cup {next})
      /\ Cardinality(DOMAIN r \cup {next}) = Cardinality(DOMAIN r) + 1
  BY <1>2, FS_AddElement DEF RowsOK
<1> HIDE DEF q
<1>5. q \in [DOMAIN q -> Row]
  BY SMTT(30), <1>1, <1>3
<1>6. \A id \in DOMAIN q : /\ id \in Nat \ {0} /\ id < next + 1
                           /\ q[id].inc.id = id /\ q[id].inc.received <= time
  BY SMTT(30), <1>1, <1>3
<1>7. ASSUME NEW a \in DOMAIN q, NEW b \in DOMAIN q, a <= b
      PROVE  q[a].inc.received <= q[b].inc.received
  <2>1. CASE b = next
    BY <2>1, <1>3, <1>6
  <2>2. CASE b # next
    <3>1. a \in DOMAIN r /\ b \in DOMAIN r
      BY SMTT(30), <2>2, <1>1, <1>3, <1>6, <1>7
    <3> QED
      BY <3>1, <1>3, <1>7 DEF RowsOK
  <2> QED
    BY <2>1, <2>2
<1>8. RowsOK(q, next + 1, time)
  BY <1>3, <1>4, <1>5, <1>6, <1>7 DEF RowsOK
<1> QED
  BY <1>3, <1>4, <1>8 DEF q

(* Forgetting up to an id is letting a log's first incidents go.           *)
LEMMA AfterIs ==
  ASSUME NEW s, NEW next, LogOK(s, next), NEW x, NEW d \in 0..Len(s),
         \A i \in DOMAIN s : i <= d <=> s[i].id <= x
  PROVE  Log!After(s, x) = SubSeq(s, d + 1, Len(s))
<1>1. DOMAIN s = 1..Len(s) /\ Len(s) \in Nat
  BY OnePlace
<1> DEFINE First(n) == \A i \in DOMAIN s : i < n <=> s[i].id <= x
<1>2. d + 1 \in 1..Len(s) + 1 /\ First(d + 1)
  BY SMTT(30), <1>1
<1>3. ASSUME NEW n \in 1..Len(s) + 1, First(n) PROVE n = d + 1
  <2>1. \A i \in 1..Len(s) : i < n <=> i < d + 1
    BY <1>1, <1>2, <1>3
  <2> HIDE DEF First
  <2> QED
    BY SMTT(30), <2>1, <1>1
<1>4. d + 1 = CHOOSE n \in 1..Len(s) + 1 : First(n)
  <2> HIDE DEF First
  <2> QED
    BY <1>2, <1>3
<1> QED
  BY <1>4, Zenon DEF Log!After

=============================================================================
