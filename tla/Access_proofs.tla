---------------------------- MODULE Access_proofs ---------------------------
(***************************************************************************)
(* Who is let in.  On the host, the opens the agent's file_open program    *)
(* denies and records (Enforcement), for every set of mount namespaces,    *)
(* every size of the ring buffer and any number of opens.  At the panel,   *)
(* the login limiter (LoginLimiter), and accounts and sessions (Accounts), *)
(* for any addresses, limits, usernames and session lifetime.  The three   *)
(* machines share no state.                                                *)
(*                                                                         *)
(* Enforcement: a denial is justified because of what the enforce map can  *)
(* hold when the program reads it: nothing but the host's namespace, and   *)
(* the mode "on" only if it was asked for (MapSound), before the programs  *)
(* are attached, while they are, and after the mode was settled.           *)
(*                                                                         *)
(* LoginLimiter: that a lockout lasts and the table stays bounded rests on *)
(* what the table says of a lockout still running: the entry is there and  *)
(* carries its end (Kept).  The bound needs, besides, that the entries that*)
(* were ever locked are no more than MaxTracked (Few), and that the address*)
(* being verified is not locked (NotLocked): time passes between the check *)
(* and the verdict, but only forward.  How fast an address can guess, and  *)
(* that a lockout is deserved, need what an entry says of the failures it  *)
(* counts (Counts) and what came before them (Slow).                       *)
(*                                                                         *)
(* Accounts: where anybody has an account or a session an admin remains,   *)
(* and no session outlives the role it was issued for by more than its     *)
(* lifetime.                                                               *)
(***************************************************************************)
EXTENDS Enforcement, LoginLimiter, Accounts, FiniteSetTheorems, TLAPS

(* Leaves go to Zenon, those with arithmetic or records to SMT, as cited; the
   time is for a slow machine.                                             *)
USE ZenonT(30)

-----------------------------------------------------------------------------
(* Opens denied and recorded. *)

Denial == [ns : Namespaces \cup {0}, hatch : BOOLEAN, write : BOOLEAN]

MapSound ==
  /\ requested \in {"off", "audit", "on"} /\ hostNs \in {0, Host}
  /\ cfg \in [mode : {"off", "audit", "on"}, ns : {0, Host}]
  /\ cfg.mode = "on" => requested = "on"

(* The denials among the records of a ring buffer.                         *)
Marked(s) == {n \in DOMAIN s : s[n]}

Recorded ==
  /\ ring \in Seq(BOOLEAN) /\ denied \in Seq(Denial) /\ handed \in Nat
  /\ DenialsRecorded

EInv == MapSound /\ DenialsJustified /\ Recorded

-----------------------------------------------------------------------------

(* What the map holds when deny_decision() says to deny.                   *)
LEMMA DecisionOn ==
  ASSUME MapSound, NEW ns, NEW hatch \in BOOLEAN, Decision(ns, hatch) = "on"
  PROVE  hatch /\ requested = "on" /\ ns \notin {0, Host}
  BY DEF Decision, MapSound

(* The marked positions are finitely many.                                 *)
LEMMA MarkedFinite ==
  ASSUME NEW s \in Seq(BOOLEAN)
  PROVE  IsFiniteSet(Marked(s)) /\ Cardinality(Marked(s)) \in Nat
<1>1. IsFiniteSet(1..Len(s))
  BY SMTT(30), FS_Interval
<1>2. Marked(s) \in SUBSET (1..Len(s))
  BY SMTT(30) DEF Marked
<1>3. IsFiniteSet(Marked(s))
  BY <1>1, <1>2, FS_Subset
<1> QED
  BY <1>3, FS_CardinalityType

(* A record that is added counts if it is marked.                          *)
LEMMA MarkedAppend ==
  ASSUME NEW s \in Seq(BOOLEAN), NEW b \in BOOLEAN
  PROVE  Cardinality(Marked(Append(s, b))) = Cardinality(Marked(s)) + IF b THEN 1 ELSE 0
<1>1. CASE b
  <2>1. Marked(Append(s, b)) = Marked(s) \cup {Len(s) + 1}
    BY SMTT(30), <1>1 DEF Marked
  <2>2. Len(s) + 1 \notin Marked(s)
    BY SMTT(30) DEF Marked
  <2> QED
    BY <1>1, <2>1, <2>2, MarkedFinite, FS_AddElement
<1>2. CASE ~b
  <2>1. Marked(Append(s, b)) = Marked(s)
    BY SMTT(30), <1>2 DEF Marked
  <2> QED
    BY SMTT(30), <1>2, <2>1, MarkedFinite
<1> QED
  BY <1>1, <1>2

(* So does the one that is taken.                                          *)
LEMMA MarkedTail ==
  ASSUME NEW s \in Seq(BOOLEAN), s # <<>>
  PROVE  Cardinality(Marked(s)) = Cardinality(Marked(Tail(s))) + IF Head(s) THEN 1 ELSE 0
<1> DEFINE t == Tail(s)
           M == Marked(s) \ {1}
           f == [n \in Marked(t) |-> n + 1]
<1>1. /\ t \in Seq(BOOLEAN) /\ Len(t) = Len(s) - 1 /\ Len(s) \in Nat \ {0}
      /\ \A n \in 1..Len(t) : t[n] = s[n + 1]
  BY SMTT(30)
<1> HIDE DEF t
<1>2. \A n \in Marked(t) : n \in Nat /\ n + 1 \in M
  BY SMTT(30), <1>1 DEF Marked
<1>3. \A m \in M : m - 1 \in Marked(t) /\ (m - 1) + 1 = m
  BY SMTT(30), <1>1 DEF Marked
<1>4. f \in Bijection(Marked(t), M)
  <2>1. f \in [Marked(t) -> M]
    BY <1>2
  <2>2. \A a, b \in Marked(t) : f[a] = f[b] => a = b
    BY SMTT(30), <1>2
  <2>3. \A m \in M : \E a \in Marked(t) : f[a] = m
    BY <1>3
  <2> QED
    BY <2>1, <2>2, <2>3, Zenon DEF Bijection, Injection, Surjection, IsInjective
<1>5. Cardinality(M) = Cardinality(Marked(t))
  BY <1>1, <1>4, MarkedFinite, FS_Bijection DEF ExistsBijection
<1>6. 1 \in Marked(s) <=> Head(s)
  <2>1. Head(s) = s[1] /\ 1 \in DOMAIN s
    BY SMTT(30), <1>1
  <2> QED
    BY <2>1, Zenon DEF Marked
<1>7. Cardinality(M) = IF 1 \in Marked(s) THEN Cardinality(Marked(s)) - 1
                       ELSE Cardinality(Marked(s))
  BY MarkedFinite, FS_RemoveElement
<1>8. Cardinality(Marked(s)) = Cardinality(Marked(t)) + IF 1 \in Marked(s) THEN 1 ELSE 0
  BY SMTT(30), <1>1, <1>5, <1>7, MarkedFinite
<1> QED
  BY <1>6, <1>8, Zenon DEF t

-----------------------------------------------------------------------------

(* Nothing is denied or recorded at first, and the map is empty.           *)
LEMMA InitEInv == EnforcementInit => EInv
<1> SUFFICES ASSUME EnforcementInit PROVE EInv
  OBVIOUS
<1>1. MapSound
  BY DEF EnforcementInit, MapSound, Unset
<1>2. denied = <<>> /\ ring = <<>> /\ handed = 0
  BY DEF EnforcementInit
<1>3. DenialsJustified
  BY SMTT(30), <1>2 DEF DenialsJustified
<1>4. Recorded
  <2>1. {n \in DOMAIN ring : ring[n]} = {}
    BY SMTT(30), <1>2
  <2> QED
    BY SMTT(30), <1>2, <2>1, FS_EmptySet DEF Recorded, DenialsRecorded
<1> QED
  BY <1>1, <1>3, <1>4 DEF EInv

(* handle_file_open denies only where it has put the record into the ring. *)
LEMMA FileOpenEInv ==
  ASSUME EInv, NEW ns \in Namespaces \cup {0}, NEW o \in Opens, FileOpen(ns, o)
  PROVE  EInv'
<1> DEFINE deny == Decision(ns, IsHatch(o)) = "on"
           d == [ns |-> ns, hatch |-> o.hatch, write |-> o.write]
<1>1. /\ \/ UNCHANGED <<ring, denied>>
         \/ ring' = Append(ring, deny) /\ denied' = IF deny THEN Append(denied, d) ELSE denied
      /\ UNCHANGED <<stage, start, cfg, handed>>
  BY DEF FileOpen
<1>2. UNCHANGED <<requested, hostNs>>
  BY <1>1 DEF start
<1>3. MapSound'
  BY <1>1, <1>2 DEF EInv, MapSound
<1>4. d \in Denial /\ IsHatch(d) = IsHatch(o) /\ d.ns = ns /\ IsHatch(o) \in BOOLEAN
  BY DEF Opens, Denial, IsHatch
<1>5. deny => IsHatch(d) /\ d.ns \notin {0, Host} /\ requested = "on"
  BY <1>4, DecisionOn DEF EInv
<1>6. deny \in BOOLEAN
  OBVIOUS
<1> HIDE DEF deny, d
<1>7. CASE UNCHANGED <<ring, denied>>
  BY <1>1, <1>2, <1>3, <1>7 DEF EInv, DenialsJustified, Recorded, DenialsRecorded
<1>8. CASE ring' = Append(ring, deny) /\ denied' = IF deny THEN Append(denied, d) ELSE denied
  <2>1. ring' \in Seq(BOOLEAN)
    BY SMTT(30), <1>6, <1>8 DEF EInv, Recorded
  <2>2. Cardinality(Marked(ring')) = Cardinality(Marked(ring)) + IF deny THEN 1 ELSE 0
    BY <1>6, <1>8, MarkedAppend DEF EInv, Recorded
  <2>3. /\ denied' \in Seq(Denial)
        /\ Len(denied') = Len(denied) + IF deny THEN 1 ELSE 0
        /\ \A n \in DOMAIN denied' : \/ n \in DOMAIN denied /\ denied'[n] = denied[n]
                                     \/ deny /\ denied'[n] = d
    <3>1. CASE deny
      BY SMTT(30), <1>4, <1>8, <3>1 DEF EInv, Recorded
    <3>2. CASE ~deny
      BY SMTT(30), <1>8, <3>2 DEF EInv, Recorded
    <3> QED
      BY <3>1, <3>2
  <2>4. DenialsJustified'
    BY <1>2, <1>5, <2>3, Zenon DEF EInv, DenialsJustified
  <2>5. DenialsRecorded'
    <3>1. Marked(ring) = {n \in DOMAIN ring : ring[n]} /\ Cardinality(Marked(ring)) \in Nat
      BY MarkedFinite DEF Marked, EInv, Recorded
    <3>2. stage' # "ended" => Len(denied) = handed + Cardinality(Marked(ring))
      BY <1>1, <3>1 DEF EInv, Recorded, DenialsRecorded
    <3>3. stage' # "ended" => Len(denied') = handed' + Cardinality(Marked(ring'))
      BY SMTT(30), <1>1, <2>2, <2>3, <3>1, <3>2 DEF EInv, Recorded
    <3> QED
      BY <3>3 DEF DenialsRecorded, Marked
  <2> QED
    BY <1>1, <1>3, <2>1, <2>3, <2>4, <2>5 DEF EInv, Recorded
<1> QED
  BY <1>1, <1>7, <1>8

(* A record that is consumed moves from the ring to on_event().            *)
LEMMA ConsumeEInv == ASSUME EInv, Consume PROVE EInv'
<1>1. /\ ring # <<>> /\ ring' = Tail(ring)
      /\ handed' = handed + IF Head(ring) THEN 1 ELSE 0
      /\ UNCHANGED <<stage, requested, hostNs, cfg, denied>>
  BY DEF Consume, start
<1>2. MapSound' /\ DenialsJustified'
  BY <1>1 DEF EInv, MapSound, DenialsJustified
<1>3. ring' \in Seq(BOOLEAN)
  <2>1. ring \in Seq(BOOLEAN)
    BY DEF EInv, Recorded
  <2>2. \A s \in Seq(BOOLEAN) : s # <<>> => Tail(s) \in Seq(BOOLEAN)
    BY SMTT(30)
  <2> QED
    BY <1>1, <2>1, <2>2, Zenon
<1>4. Cardinality(Marked(ring)) = Cardinality(Marked(ring')) + IF Head(ring) THEN 1 ELSE 0
  BY <1>1, MarkedTail DEF EInv, Recorded
<1>5. Cardinality(Marked(ring)) \in Nat /\ Cardinality(Marked(ring')) \in Nat
  BY <1>3, MarkedFinite DEF EInv, Recorded
<1>6. stage # "ended" => Len(denied) = handed + Cardinality(Marked(ring))
  BY DEF EInv, Recorded, DenialsRecorded, Marked
<1> DEFINE b == IF Head(ring) THEN 1 ELSE 0
<1>7. b \in Nat
  OBVIOUS
<1>8. handed' = handed + b /\ Cardinality(Marked(ring)) = Cardinality(Marked(ring')) + b
  BY <1>1, <1>4
<1> HIDE DEF b
<1>9. /\ handed' \in Nat
      /\ stage' # "ended" => Len(denied') = handed' + Cardinality(Marked(ring'))
  <2>1. handed \in Nat /\ stage' = stage /\ Len(denied') = Len(denied)
    BY <1>1, Zenon DEF EInv, Recorded
  <2> QED
    BY SMTT(30), <1>5, <1>6, <1>7, <1>8, <2>1
<1> QED
  BY <1>1, <1>2, <1>3, <1>9 DEF EInv, Recorded, DenialsRecorded, Marked

(* A step of run() that ends it, or that writes nothing but the map.       *)
LEMMA OtherEInv ==
  ASSUME EInv, MapSound', UNCHANGED <<requested, denied, handed>>,
         (stage' = "ended" /\ ring' = <<>>)
           \/ (ring' = ring /\ (stage' = stage \/ stage # "ended"))
  PROVE  EInv'
<1>1. DenialsJustified'
  BY DEF EInv, DenialsJustified
<1>2. Recorded'
  <2>1. CASE stage' = "ended" /\ ring' = <<>>
    <3>1. ring' \in Seq(BOOLEAN)
      BY SMTT(30), <2>1
    <3> QED
      BY <2>1, <3>1, Zenon DEF EInv, Recorded, DenialsRecorded
  <2>2. CASE ring' = ring /\ (stage' = stage \/ stage # "ended")
    BY <2>2, Zenon DEF EInv, Recorded, DenialsRecorded
  <2> QED
    BY <2>1, <2>2
<1> QED
  BY <1>1, <1>2 DEF EInv

(* Every step of the start, the poll loop and the host keeps it.           *)
LEMMA NextEInv == EInv /\ [EnforcementNext]_kvars => EInv'
<1> SUFFICES ASSUME EInv, [EnforcementNext]_kvars PROVE EInv'
  OBVIOUS
<1>1. ASSUME NEW ns \in Namespaces \cup {0}, NEW o \in Opens, FileOpen(ns, o) PROVE EInv'
  BY <1>1, FileOpenEInv
<1>2. CASE Consume
  BY <1>2, ConsumeEInv
<1>3. CASE End
  <2>1. MapSound'
    BY <1>3 DEF End, start, EInv, MapSound
  <2> QED
    BY <1>3, <2>1, OtherEInv DEF End, start
<1>4. CASE Configure
  <2>1. CASE End
    BY <2>1, <1>3
  <2>2. CASE ~End
    <3>1. MapSound'
      BY SMTT(30), <1>4, <2>2 DEF Configure, start, EInv, MapSound
    <3> QED
      BY <1>4, <2>2, <3>1, OtherEInv DEF Configure, start, kernel
  <2> QED
    BY <2>1, <2>2
<1>5. CASE Attach
  <2>1. MapSound'
    BY <1>5 DEF Attach, start, EInv, MapSound
  <2> QED
    BY <1>5, <2>1, OtherEInv DEF Attach, start, kernel
<1>6. CASE Arm
  <2>1. CASE End
    BY <2>1, <1>3
  <2>2. CASE ~End
    <3>1. /\ stage = "attaching" /\ cfg' = [cfg EXCEPT !.mode = Armed]
          /\ UNCHANGED <<requested, hostNs, ring, denied, handed>>
      BY <1>6, <2>2 DEF Arm, start, kernel
    <3>2. Armed = requested \/ Armed = "off"
      BY DEF Armed
    <3>3. MapSound'
      BY <3>1, <3>2 DEF EInv, MapSound
    <3> QED
      BY <3>1, <3>3, OtherEInv
  <2> QED
    BY <2>1, <2>2
<1>7. CASE Stop
  BY <1>7, <1>3 DEF Stop
<1>8. CASE Heartbeat \/ Return
  <2>1. UNCHANGED <<stage, start, cfg, ring, denied, handed>>
    BY <1>8 DEF Heartbeat, Return, start
  <2>2. MapSound'
    BY <2>1 DEF start, EInv, MapSound
  <2> QED
    BY <2>1, <2>2, OtherEInv DEF start
<1>9. CASE Refresh \/ NewHome \/ UNCHANGED kvars
  <2>1. UNCHANGED <<stage, start, cfg, kernel>>
    BY <1>9 DEF Refresh, NewHome, kvars
  <2>2. MapSound'
    BY <2>1 DEF start, EInv, MapSound
  <2> QED
    BY <2>1, <2>2, OtherEInv DEF start, kernel
<1> QED
  BY <1>1, <1>2, <1>4, <1>5, <1>6, <1>7, <1>8, <1>9 DEF EnforcementNext

-----------------------------------------------------------------------------

(* The invariant of the enforce map, the ring buffer and the denials.      *)
THEOREM EnforcementInvariant == EnforcementSpec => []EInv
  BY InitEInv, NextEInv, PTL DEF EnforcementSpec

(* deny_decision() fails open, at every moment of the start and after it.  *)
THEOREM DenialsAlwaysJustified == EnforcementSpec => []DenialsJustified
<1>1. EInv => DenialsJustified
  BY DEF EInv
<1> QED
  BY <1>1, EnforcementInvariant, PTL

(* handle_file_open denies nothing without a record, and a record is       *)
(* consumed once.                                                          *)
THEOREM DenialsAlwaysRecorded == EnforcementSpec => []DenialsRecorded
<1>1. EInv => DenialsRecorded
  BY DEF EInv, Recorded
<1> QED
  BY <1>1, EnforcementInvariant, PTL

-----------------------------------------------------------------------------
(* The login limiter. *)

EverLocked == {a \in DOMAIN seen : seen[a].lockedUntil # Unlocked}

Shape ==
  /\ now \in Nat
  /\ DOMAIN seen \subseteq Addrs /\ IsFiniteSet(DOMAIN seen)
  /\ seen = [a \in DOMAIN seen |-> seen[a]]
  /\ \A a \in DOMAIN seen :
       seen[a] \in [failures : Nat, first : Nat, lockedUntil : Nat \cup {Unlocked}]
  /\ verifying \subseteq Addrs
  /\ lockedAt \in [Addrs -> Nat \cup {Unlocked}]

NotLocked == \A a \in verifying : ~Locked(a)

Kept ==
  \A a \in Addrs :
    lockedAt[a] # Unlocked /\ now < lockedAt[a] + Lockout =>
      a \in DOMAIN seen /\ seen[a].lockedUntil = lockedAt[a] + Lockout

Few == Cardinality(EverLocked) <= MaxTracked

LInv == Shape /\ NotLocked /\ Kept /\ Few /\ TableBounded

-----------------------------------------------------------------------------

(* It holds of the empty table.                                            *)
LEMMA InitLInv == LimiterInit => LInv
<1> SUFFICES ASSUME LimiterInit PROVE LInv
  OBVIOUS
<1>1. DOMAIN seen = {} /\ EverLocked = {} /\ verifying = {} /\ now = 0
  BY DEF LimiterInit, EverLocked
<1>2. IsFiniteSet({}) /\ Cardinality({}) = 0
  BY FS_EmptySet
<1>3. Few /\ TableBounded
  BY SMTT(30), <1>1, <1>2, LimiterConstants DEF Few, TableBounded
<1>4. Shape
  BY SMTT(30), <1>1, <1>2 DEF LimiterInit, Shape
<1>5. NotLocked /\ Kept
  BY <1>1 DEF LimiterInit, NotLocked, Kept
<1> QED
  BY <1>3, <1>4, <1>5 DEF LInv

(* What evict() keeps: every running lockout, and no more than MaxTracked  *)
(* entries in all.                                                         *)
LEMMA EvictedKeeps ==
  ASSUME LInv
  PROVE  /\ Evicted \subseteq DOMAIN seen /\ IsFiniteSet(Evicted)
         /\ \A a \in DOMAIN seen : Locked(a) => a \in Evicted
         /\ Cardinality(Evicted) <= MaxTracked
<1> DEFINE locked == {a \in DOMAIN seen : Locked(a)}
           kept == locked \cup {a \in DOMAIN seen : now - seen[a].first <= Window}
<1>1. Evicted = IF Cardinality(kept) > MaxTracked THEN locked ELSE kept
  BY DEF Evicted
<1>2. locked \subseteq DOMAIN seen /\ kept \subseteq DOMAIN seen /\ locked \subseteq kept
  OBVIOUS
<1>3. IsFiniteSet(locked) /\ IsFiniteSet(kept)
  BY <1>2, FS_Subset DEF LInv, Shape
<1>4. locked \subseteq EverLocked
  BY SMTT(30) DEF Locked, EverLocked, LInv, Shape, Unlocked
<1>5. IsFiniteSet(EverLocked)
  BY FS_Subset DEF LInv, Shape, EverLocked
<1>6. Cardinality(locked) <= Cardinality(EverLocked)
  BY <1>4, <1>5, FS_Subset
<1>7. /\ Cardinality(locked) \in Nat /\ Cardinality(kept) \in Nat
      /\ Cardinality(EverLocked) \in Nat
  BY <1>3, <1>5, FS_CardinalityType
<1>8. Cardinality(locked) <= MaxTracked
  BY SMTT(30), <1>6, <1>7, LimiterConstants DEF LInv, Few
<1>9. \A a \in DOMAIN seen : Locked(a) => a \in locked
  OBVIOUS
<1> HIDE DEF locked, kept
<1> QED
  BY SMTT(30), <1>1, <1>2, <1>3, <1>7, <1>8, <1>9, LimiterConstants

(* One more address makes the table at most one larger.                    *)
LEMMA AddOne ==
  ASSUME NEW S, IsFiniteSet(S), NEW x
  PROVE  Cardinality(S \cup {x}) <= Cardinality(S) + 1
<1>1. Cardinality(S) \in Nat
  BY FS_CardinalityType
<1>2. CASE x \in S
  <2>1. S \cup {x} = S
    BY <1>2
  <2>2. Cardinality(S \cup {x}) = Cardinality(S)
    BY <2>1, Zenon
  <2> QED
    BY SMTT(30), <1>1, <2>2
<1>3. CASE x \notin S
  <2>1. Cardinality(S \cup {x}) = Cardinality(S) + 1
    BY <1>3, FS_AddElement
  <2> QED
    BY SMTT(30), <1>1, <2>1
<1> QED
  BY <1>2, <1>3

(* Recording a failure.                                                    *)
LEMMA FailureKeeps ==
  ASSUME LInv, NEW a \in verifying, verifying' = {}, now' = now, RecordFailure(a)
  PROVE  LInv'
<1> DEFINE c == Counting(a)
           n == c.failures + 1
           attempt == [c EXCEPT !.failures = n,
                                !.lockedUntil = IF n >= MaxFailures THEN now + Lockout ELSE @]
           Attempt == [failures : Nat, first : Nat, lockedUntil : Nat \cup {Unlocked}]
<1>1. /\ seen' = [b \in Evicted \cup {a} |-> IF b = a THEN attempt ELSE seen[b]]
      /\ lockedAt' = IF n >= MaxFailures THEN [lockedAt EXCEPT ![a] = now] ELSE lockedAt
  BY DEF RecordFailure
<1>2. /\ Evicted \subseteq DOMAIN seen /\ IsFiniteSet(Evicted)
      /\ \A b \in DOMAIN seen : Locked(b) => b \in Evicted
      /\ Cardinality(Evicted) <= MaxTracked
  BY EvictedKeeps
<1>3. a \in Addrs /\ ~Locked(a) /\ now \in Nat
  BY DEF LInv, Shape, NotLocked
<1>4. c \in Attempt /\ (a \notin Evicted => c.failures = 0 /\ c.lockedUntil = Unlocked)
  BY <1>2 DEF Counting, Fresh, LInv, Shape, Unlocked
<1> HIDE DEF c
<1>5. /\ attempt \in Attempt
      /\ n >= MaxFailures => attempt.lockedUntil = now + Lockout
      /\ n < MaxFailures => attempt.lockedUntil = c.lockedUntil
  <2> DEFINE until == IF n >= MaxFailures THEN now + Lockout ELSE c.lockedUntil
  <2>1. n \in Nat /\ until \in Nat \cup {Unlocked}
    BY SMTT(30), <1>3, <1>4, LimiterConstants
  <2>2. attempt = [c EXCEPT !.failures = n, !.lockedUntil = until]
    OBVIOUS
  <2> HIDE DEF until, n, attempt
  <2>3. attempt \in Attempt /\ attempt.lockedUntil = until
    BY <1>4, <2>1, <2>2
  <2> QED
    BY SMTT(30), <2>1, <2>3, LimiterConstants DEF until
<1>6. n \in Nat /\ (a \notin Evicted => n < MaxFailures /\ attempt.lockedUntil = Unlocked)
  BY SMTT(30), <1>4, <1>5, LimiterConstants
<1> HIDE DEF attempt, n
<1>7. /\ DOMAIN seen' = Evicted \cup {a}
      /\ seen'[a] = attempt
      /\ \A b \in Evicted \ {a} : seen'[b] = seen[b]
      /\ seen' = [b \in DOMAIN seen' |-> seen'[b]]
  BY <1>1
<1>8. Shape'
  <2>1. IsFiniteSet(DOMAIN seen')
    BY SMTT(30), <1>2, <1>7, FS_AddElement
  <2>2. \A b \in DOMAIN seen' : seen'[b] \in Attempt
    BY <1>2, <1>5, <1>7 DEF LInv, Shape
  <2>3. lockedAt' \in [Addrs -> Nat \cup {Unlocked}]
    BY <1>1, <1>3 DEF LInv, Shape
  <2> QED
    BY <1>2, <1>3, <1>7, <2>1, <2>2, <2>3 DEF LInv, Shape
<1>9. NotLocked'
  BY DEF NotLocked
<1>10. Kept'
  <2> SUFFICES ASSUME NEW b \in Addrs, lockedAt'[b] # Unlocked, now < lockedAt'[b] + Lockout
               PROVE  b \in DOMAIN seen' /\ seen'[b].lockedUntil = lockedAt'[b] + Lockout
    BY DEF Kept
  <2>1. CASE b # a
    <3>1. lockedAt'[b] = lockedAt[b] /\ lockedAt[b] \in Nat
      BY <1>1, <2>1 DEF LInv, Shape
    <3>2. b \in DOMAIN seen /\ seen[b].lockedUntil = lockedAt[b] + Lockout
      BY <3>1 DEF LInv, Kept
    <3>3. b \in Evicted
      BY <1>2, <1>3, <3>1, <3>2, LimiterConstants DEF Locked
    <3> QED
      BY <1>7, <2>1, <3>1, <3>2, <3>3
  <2>2. CASE b = a /\ n >= MaxFailures
    BY <1>1, <1>5, <1>7, <2>2 DEF LInv, Shape
  <2>3. CASE b = a /\ ~(n >= MaxFailures)
    <3>1. lockedAt'[a] = lockedAt[a] /\ lockedAt[a] \in Nat
      BY <1>1, <2>3 DEF LInv, Shape
    <3>2. Locked(a)
      BY <1>3, <2>3, <3>1, LimiterConstants DEF LInv, Kept, Locked
    <3> QED
      BY <1>3, <3>2
  <2> QED
    BY <2>1, <2>2, <2>3
<1>11. Few' /\ TableBounded'
  <2>1. EverLocked' \subseteq Evicted
    BY <1>6, <1>7 DEF EverLocked
  <2>2. Cardinality(EverLocked') <= Cardinality(Evicted)
    BY <1>2, <2>1, FS_Subset
  <2>3. Cardinality(Evicted) \in Nat /\ Cardinality(EverLocked') \in Nat
    BY <1>2, <2>1, FS_Subset, FS_CardinalityType
  <2>4. Cardinality(Evicted \cup {a}) <= Cardinality(Evicted) + 1
    BY <1>2, AddOne
  <2>5. Cardinality(Evicted \cup {a}) \in Nat
    BY <1>2, FS_AddElement, FS_CardinalityType
  <2> QED
    BY SMTT(30), <1>2, <1>7, <2>2, <2>3, <2>4, <2>5, LimiterConstants DEF Few, TableBounded
<1> QED
  BY <1>8, <1>9, <1>10, <1>11 DEF LInv

(* Every step preserves the invariant.                                     *)
LEMMA NextLInv == LInv /\ [LimiterNext]_lvars => LInv'
<1> SUFFICES ASSUME LInv, [LimiterNext]_lvars PROVE LInv'
  OBVIOUS
<1>1. ASSUME NEW a \in Addrs, Check(a) PROVE LInv'
  <2>1. ~Locked(a) /\ verifying' = {a} /\ UNCHANGED <<seen, now, failed, lockedAt, swept>>
    BY <1>1 DEF Check
  <2>2. EverLocked' = EverLocked
    BY <2>1 DEF EverLocked
  <2> QED
    BY <2>1, <2>2 DEF LInv, Shape, NotLocked, Kept, Few, TableBounded, Locked
<1>2. ASSUME NEW a \in Addrs, Oversized(a) PROVE LInv'
  <2>1. verifying' = {} /\ UNCHANGED <<seen, now, failed, lockedAt, swept>>
    BY <1>2 DEF Oversized
  <2>2. EverLocked' = EverLocked
    BY <2>1 DEF EverLocked
  <2> QED
    BY <2>1, <2>2 DEF LInv, Shape, NotLocked, Kept, Few, TableBounded
<1>3. ASSUME NEW a \in Addrs, NEW right \in BOOLEAN, Verdict(a, right) PROVE LInv'
  <2>1. a \in verifying /\ verifying' = {} /\ now' = now
    BY <1>3 DEF Verdict
  <2>2. CASE RecordFailure(a)
    BY <2>1, <2>2, FailureKeeps
  <2>3. CASE RecordSuccess(a)
    <3>1. /\ seen' = [b \in DOMAIN seen \ {a} |-> seen[b]] /\ lockedAt' = lockedAt
          /\ DOMAIN seen' = DOMAIN seen \ {a} /\ ~Locked(a)
      BY <2>1, <2>3 DEF RecordSuccess, LInv, NotLocked
    <3>2. EverLocked' \subseteq EverLocked /\ DOMAIN seen' \subseteq DOMAIN seen
      BY <3>1 DEF EverLocked
    <3>3. IsFiniteSet(DOMAIN seen) /\ IsFiniteSet(EverLocked)
      BY FS_Subset DEF LInv, Shape, EverLocked
    <3>4. /\ IsFiniteSet(DOMAIN seen') /\ IsFiniteSet(EverLocked')
          /\ Cardinality(EverLocked') <= Cardinality(EverLocked)
          /\ Cardinality(DOMAIN seen') <= Cardinality(DOMAIN seen)
      BY <3>2, <3>3, FS_Subset
    <3>5. /\ Cardinality(EverLocked') \in Nat /\ Cardinality(EverLocked) \in Nat
          /\ Cardinality(DOMAIN seen') \in Nat /\ Cardinality(DOMAIN seen) \in Nat
      BY <3>3, <3>4, FS_CardinalityType
    <3>6. Few' /\ TableBounded'
      BY SMTT(30), <3>4, <3>5, LimiterConstants DEF LInv, Few, TableBounded
    <3>7. Shape'
      BY <2>1, <3>1, <3>4 DEF LInv, Shape
    <3>8. Kept'
      BY <2>1, <3>1, LimiterConstants DEF LInv, Shape, Kept, Locked
    <3> QED
      BY <2>1, <3>6, <3>7, <3>8 DEF LInv, NotLocked
  <2> QED
    BY <1>3, <2>2, <2>3 DEF Verdict
<1>4. CASE Tick
  <2>1. now' = now + 1 /\ now \in Nat /\ UNCHANGED <<seen, verifying, failed, lockedAt, swept>>
    BY <1>4 DEF Tick, LInv, Shape
  <2>2. EverLocked' = EverLocked
    BY <2>1 DEF EverLocked
  <2>3. Shape' /\ Few' /\ TableBounded'
    BY SMTT(30), <2>1, <2>2 DEF LInv, Shape, Few, TableBounded
  <2>4. NotLocked'
    BY SMTT(30), <2>1 DEF LInv, Shape, NotLocked, Locked, Unlocked
  <2>5. Kept'
    BY SMTT(30), <2>1, LimiterConstants DEF LInv, Shape, Kept
  <2> QED
    BY <2>3, <2>4, <2>5 DEF LInv
<1>5. CASE UNCHANGED lvars
  <2>1. UNCHANGED <<seen, now, verifying, lockedAt>> /\ EverLocked' = EverLocked
    BY <1>5 DEF lvars, EverLocked
  <2> QED
    BY <2>1 DEF LInv, Shape, NotLocked, Kept, Few, TableBounded, Locked
<1> QED
  BY <1>1, <1>2, <1>3, <1>4, <1>5 DEF LimiterNext

(* The inductive invariant holds throughout.                               *)
THEOREM LimiterInvariant == LimiterSpec => []LInv
  BY InitLInv, NextLInv, PTL DEF LimiterSpec

(* The table never grows beyond MAX_TRACKED addresses and the one just     *)
(* added.                                                                  *)
THEOREM TableStaysBounded == LimiterSpec => []TableBounded
  BY LimiterInvariant, PTL DEF LInv

(* No password of an address is verified while its lockout is running.     *)
THEOREM LockoutLasts == LimiterSpec => LockoutHolds
<1> DEFINE Holds == \A a \in verifying' \ verifying :
                      lockedAt[a] # Unlocked => now >= lockedAt[a] + Lockout
<1>1. LInv /\ [LimiterNext]_lvars => [Holds]_lvars
  <2> SUFFICES ASSUME LInv, LimiterNext PROVE Holds
    OBVIOUS
  <2>1. ASSUME NEW a \in Addrs, Check(a) PROVE Holds
    <3>1. verifying' = {a} /\ ~Locked(a)
      BY <2>1 DEF Check
    <3>2. lockedAt[a] # Unlocked => now >= lockedAt[a] + Lockout
      BY SMTT(30), <3>1, LimiterConstants DEF LInv, Shape, Kept, Locked
    <3> QED
      BY <3>1, <3>2
  <2>2. CASE verifying' = {}
    BY <2>2
  <2>3. CASE verifying' = verifying
    BY <2>3
  <2> QED
    BY <2>1, <2>2, <2>3 DEF LimiterNext, Oversized, Verdict, Tick
<1> QED
  BY <1>1, LimiterInvariant, PTL DEF LimiterSpec, LockoutHolds

-----------------------------------------------------------------------------
(* How fast an address can guess.  An entry counts the last failures of    *)
(* its address, from the one its window began with (Counts).  What came    *)
(* before that window is, all but MaxFailures - 2 failures of it, more than*)
(* a window older than its beginning: a window without lockout has at most *)
(* MaxFailures - 1, the first of which is too old, and after a lockout they*)
(* all are (Slow).                                                         *)

Times ==
  /\ failed \in [Addrs -> Seq(Nat)]
  /\ \A a \in Addrs : \A i \in 1..Len(failed[a]) :
       /\ failed[a][i] <= now
       /\ \A j \in 1..Len(failed[a]) : i <= j => failed[a][i] <= failed[a][j]

Counts ==
  \A a \in DOMAIN seen :
    LET n == Len(failed[a])
        k == seen[a].failures
    IN  /\ k \in 1..n /\ k <= MaxFailures
        /\ failed[a][n - k + 1] = seen[a].first
        /\ k = MaxFailures => seen[a].lockedUntil = failed[a][n] + Lockout

Slow ==
  \A a \in Addrs \ swept :
    LET n == Len(failed[a])
    IN  IF a \in DOMAIN seen
        THEN \A i \in 1..(n - seen[a].failures - MaxFailures + 2) :
               failed[a][i] + Window < seen[a].first
        ELSE \A i \in 1..(n - MaxFailures + 2) : failed[a][i] + Window < now

GInv == Times /\ Counts /\ Slow

(* The last m of n indices.                                                *)
LEMMA LastOnes ==
  ASSUME NEW n \in Nat, NEW m \in Nat
  PROVE  IsFiniteSet((n - m + 1)..n) /\ Cardinality((n - m + 1)..n) = m
<1>1. PICK x \in Int : x = n - m + 1
  BY SMTT(30)
<1>2. IsFiniteSet(x..n) /\ Cardinality(x..n) = IF x > n THEN 0 ELSE n - x + 1
  BY SMTT(30), FS_Interval
<1>3. Cardinality(x..n) = m
  BY SMTT(30), <1>1, <1>2
<1> QED
  BY <1>1, <1>2, <1>3

(* A sequence of times.                                                    *)
LEMMA Elements ==
  ASSUME NEW F \in Seq(Nat)
  PROVE  Len(F) \in Nat /\ \A i \in 1..Len(F) : F[i] \in Nat
  BY SMTT(30)

(* Counting the failures since t: they are the last ones.                  *)
LEMMA SinceAtMost ==
  ASSUME NEW F \in Seq(Nat), NEW m \in Nat, NEW t \in Int,
         \A i \in 1..(Len(F) - m) : F[i] < t
  PROVE  Since(F, t) <= m
<1> DEFINE S == {i \in 1..Len(F) : F[i] >= t}
           I == (Len(F) - m + 1)..Len(F)
<1>1. Len(F) \in Nat /\ \A i \in 1..Len(F) : F[i] \in Nat
  BY SMTT(30)
<1>2. S \subseteq I
  BY SMTT(30), <1>1
<1>3. IsFiniteSet(I) /\ Cardinality(I) = m
  BY <1>1, LastOnes
<1> HIDE DEF I, S
<1>4. Cardinality(S) <= Cardinality(I)
  BY <1>2, <1>3, FS_Subset
<1> QED
  BY <1>3, <1>4 DEF Since, S

(* And the other way round.                                                *)
LEMMA SinceAtLeast ==
  ASSUME NEW F \in Seq(Nat), NEW m \in Nat, NEW t \in Int, m <= Len(F),
         \A i \in (Len(F) - m + 1)..Len(F) : F[i] >= t
  PROVE  Since(F, t) >= m
<1> DEFINE S == {i \in 1..Len(F) : F[i] >= t}
           I == (Len(F) - m + 1)..Len(F)
<1>1. Len(F) \in Nat
  BY SMTT(30)
<1>2. I \subseteq S /\ S \subseteq 1..Len(F)
  BY SMTT(30), <1>1
<1>3. IsFiniteSet(1..Len(F)) /\ Cardinality(I) = m
  BY SMTT(30), <1>1, LastOnes, FS_Interval
<1> HIDE DEF I, S
<1>4. IsFiniteSet(S)
  BY <1>2, <1>3, FS_Subset
<1>5. Cardinality(I) <= Cardinality(S) /\ Cardinality(S) \in Nat
  BY <1>2, <1>4, FS_Subset, FS_CardinalityType
<1> QED
  BY <1>3, <1>5 DEF Since, S

(* It holds before the first login.                                        *)
LEMMA InitGInv == LimiterInit => GInv
<1> SUFFICES ASSUME LimiterInit PROVE GInv
  OBVIOUS
<1>1. /\ DOMAIN seen = {} /\ \A a \in Addrs : failed[a] = <<>> /\ Len(failed[a]) = 0
      /\ failed \in [Addrs -> Seq(Nat)]
  BY SMTT(30) DEF LimiterInit
<1>2. MaxFailures \in Nat /\ MaxFailures > 1
  BY LimiterConstants
<1>3. Slow
  BY SMTT(30), <1>1, <1>2 DEF Slow
<1> QED
  BY SMTT(30), <1>1, <1>3 DEF GInv, Times, Counts

(* The numbers of one address.                                             *)
LEMMA Numbers ==
  ASSUME LInv, GInv, NEW a \in Addrs
  PROVE  /\ failed[a] \in Seq(Nat) /\ Len(failed[a]) \in Nat
         /\ now \in Nat /\ MaxFailures \in Nat /\ MaxFailures > 1 /\ Window \in Nat
         /\ Lockout \in Nat /\ Window < Lockout
         /\ \A i \in 1..Len(failed[a]) : failed[a][i] \in Nat
         /\ a \in DOMAIN seen => seen[a].first \in Nat /\ seen[a].failures \in Nat
<1>1. MaxFailures \in Nat /\ MaxFailures > 1 /\ Window \in Nat /\ Lockout \in Nat /\ Window < Lockout
  BY LimiterConstants
<1>2. failed[a] \in Seq(Nat)
  BY DEF GInv, Times
<1>3. Len(failed[a]) \in Nat /\ \A i \in 1..Len(failed[a]) : failed[a][i] \in Nat
  BY <1>2, Elements
<1> QED
  BY <1>1, <1>2, <1>3 DEF LInv, Shape

(* A window that is over and not locked says nothing about failures less   *)
(* than a window ago but for MaxFailures - 2 of them.                      *)
LEMMA WindowPassed ==
  ASSUME LInv, GInv, NEW a \in DOMAIN seen, a \in Addrs, ~Locked(a), now - seen[a].first > Window
  PROVE  \A i \in 1..(Len(failed[a]) - MaxFailures + 2) : failed[a][i] + Window < now
<1> DEFINE F == failed[a]
           n == Len(F)
           k == seen[a].failures
<1>1. /\ n \in Nat /\ now \in Nat /\ MaxFailures \in Nat /\ MaxFailures > 1 /\ Window \in Nat
      /\ Lockout \in Nat /\ Window < Lockout
      /\ \A i \in 1..n : F[i] \in Nat
      /\ seen[a].first \in Nat /\ k \in Nat
  BY Numbers
<1>2. /\ k \in 1..n /\ k <= MaxFailures /\ F[n - k + 1] = seen[a].first
      /\ k = MaxFailures => seen[a].lockedUntil = F[n] + Lockout
  BY DEF GInv, Counts
<1>3. \A i, j \in 1..n : i <= j => F[i] <= F[j]
  BY DEF GInv, Times
<1>4. ~(seen[a].lockedUntil > now)
  BY DEF Locked
<1> HIDE DEF F, n, k
<1> SUFFICES ASSUME NEW i \in 1..(n - MaxFailures + 2) PROVE F[i] + Window < now
  BY DEF F, n
<1>5. CASE k = MaxFailures
  <2>1. i \in 1..n /\ n \in 1..n
    BY SMTT(30), <1>1, <1>2
  <2>2. F[i] <= F[n] /\ F[i] \in Nat /\ F[n] \in Nat
    BY SMTT(30), <1>1, <1>3, <2>1
  <2> QED
    BY SMTT(30), <1>1, <1>2, <1>4, <1>5, <2>2
<1>6. CASE k < MaxFailures
  <2>1. i \in 1..n /\ n - k + 1 \in 1..n /\ i <= n - k + 1
    BY SMTT(30), <1>1, <1>2, <1>6
  <2>2. F[i] <= seen[a].first /\ F[i] \in Nat
    BY <1>1, <1>2, <1>3, <2>1
  <2> QED
    BY SMTT(30), <1>1, <2>2
<1> QED
  BY SMTT(30), <1>1, <1>2, <1>5, <1>6

(* Recording a failure, and with it whatever evict() does.                 *)
LEMMA FailureGInv ==
  ASSUME LInv, GInv, NEW a \in verifying, now' = now, RecordFailure(a)
  PROVE  GInv'
<1> DEFINE c == Counting(a)
           F == failed[a]
           n == Len(F)
<1>1. a \in Addrs /\ ~Locked(a)
  BY DEF LInv, Shape, NotLocked
<1>2. /\ F \in Seq(Nat) /\ n \in Nat
      /\ now \in Nat /\ MaxFailures \in Nat /\ MaxFailures > 1 /\ Window \in Nat
      /\ Lockout \in Nat /\ Window < Lockout
      /\ \A i \in 1..n : F[i] \in Nat
  BY <1>1, Numbers
<1>3. /\ Evicted \subseteq DOMAIN seen /\ DOMAIN seen \subseteq Addrs
      /\ \A b \in DOMAIN seen : Locked(b) => b \in Evicted
  BY EvictedKeeps DEF LInv, Shape
<1>4. /\ failed' = [failed EXCEPT ![a] = Append(F, now)]
      /\ swept' = swept \cup Dropped
      /\ DOMAIN seen' = Evicted \cup {a}
      /\ \A b \in Evicted \ {a} : seen'[b] = seen[b]
  BY DEF RecordFailure
<1>5. /\ failed \in [Addrs -> Seq(Nat)]
      /\ \A b \in Addrs : b # a => failed'[b] = failed[b]
      /\ failed'[a] = Append(F, now)
  BY <1>1, <1>4 DEF GInv, Times
<1>6. /\ Append(F, now) \in Seq(Nat) /\ Len(Append(F, now)) = n + 1
      /\ Append(F, now)[n + 1] = now
      /\ \A i \in 1..n : Append(F, now)[i] = F[i]
  BY SMTT(30), <1>2
<1>7. c.failures \in Nat /\ c.first \in Nat
  BY <1>2, <1>3 DEF Counting, Fresh, LInv, Shape
<1>8. /\ seen'[a].failures = c.failures + 1 /\ seen'[a].first = c.first
      /\ c.failures + 1 >= MaxFailures => seen'[a].lockedUntil = now + Lockout
  <2>1. c \in [failures : Nat, first : Nat, lockedUntil : Nat \cup {Unlocked}]
    BY <1>2, <1>3 DEF Counting, Fresh, LInv, Shape, Unlocked
  <2>2. seen'[a] = [c EXCEPT !.failures = c.failures + 1,
                             !.lockedUntil = IF c.failures + 1 >= MaxFailures
                                             THEN now + Lockout ELSE @]
    BY <1>4 DEF RecordFailure
  <2> HIDE DEF c
  <2> QED
    BY <2>1, <2>2
<1>9. \/ c.failures = 0 /\ c.first = now /\ ~(a \in Evicted /\ now - seen[a].first <= Window)
      \/ c = seen[a] /\ a \in Evicted /\ now - seen[a].first <= Window
  BY DEF Counting, Fresh
<1>10. ASSUME a \in Evicted, now - seen[a].first <= Window
       PROVE  /\ seen[a].failures \in 1..n /\ seen[a].failures < MaxFailures
              /\ F[n - seen[a].failures + 1] = seen[a].first
  <2> DEFINE k == seen[a].failures
             first == seen[a].first
             until == seen[a].lockedUntil
  <2>1. /\ k \in 1..n /\ k <= MaxFailures /\ F[n - k + 1] = first
        /\ k = MaxFailures => until = F[n] + Lockout
    BY <1>3, <1>10 DEF GInv, Counts
  <2>2. ~(until > now) /\ now - first <= Window
    BY <1>1, <1>3, <1>10 DEF Locked
  <2>3. \A i, j \in 1..n : i <= j => F[i] <= F[j]
    BY <1>1 DEF GInv, Times
  <2> HIDE DEF F, n, k, first, until
  <2>4. n \in 1..n /\ n - k + 1 \in 1..n /\ n - k + 1 <= n
    BY SMTT(30), <1>2, <2>1
  <2>5. first <= F[n] /\ F[n] \in Nat /\ first \in Nat
    BY <1>2, <2>1, <2>3, <2>4
  <2>6. k # MaxFailures
    BY SMTT(30), <1>2, <2>1, <2>2, <2>5
  <2>7. k \in 1..n /\ k < MaxFailures /\ F[n - k + 1] = first
    BY SMTT(30), <1>2, <2>1, <2>6
  <2> QED
    BY <2>7 DEF k, first
<1> HIDE DEF c, F, n
<1>11. Times'
  <2>1. failed' \in [Addrs -> Seq(Nat)]
    BY <1>4, <1>5, <1>6
  <2>2. \A i \in 1..n : F[i] <= now /\ \A j \in 1..n : i <= j => F[i] <= F[j]
    BY <1>1 DEF GInv, Times, F, n
  <2>3. ASSUME NEW i \in 1..(n + 1), NEW j \in 1..(n + 1), i <= j
        PROVE  failed'[a][i] <= now /\ failed'[a][i] <= failed'[a][j]
    <3>1. CASE i = n + 1
      BY SMTT(30), <1>2, <1>5, <1>6, <2>3, <3>1
    <3>2. CASE i \in 1..n /\ j = n + 1
      BY <1>2, <1>5, <1>6, <2>2, <3>2
    <3>3. CASE i \in 1..n /\ j \in 1..n
      BY <1>5, <1>6, <2>2, <2>3, <3>3
    <3> QED
      BY SMTT(30), <1>2, <3>1, <3>2, <3>3
  <2>4. ASSUME NEW b \in Addrs, NEW i \in 1..Len(failed'[b])
        PROVE  /\ failed'[b][i] <= now
               /\ \A j \in 1..Len(failed'[b]) : i <= j => failed'[b][i] <= failed'[b][j]
    <3>1. CASE b = a
      <4>1. Len(failed'[b]) = n + 1 /\ i <= i
        BY SMTT(30), <1>2, <1>5, <1>6, <3>1
      <4> QED
        BY <2>3, <3>1, <4>1
    <3>2. CASE b # a
      BY <1>5, <3>2 DEF GInv, Times
    <3> QED
      BY <3>1, <3>2
  <2> QED
    BY <2>1, <2>4 DEF Times
<1>12. Counts'
  <2>1. ASSUME NEW b \in Evicted, b # a
        PROVE  LET m == Len(failed'[b])
                   k == seen'[b].failures
               IN  /\ k \in 1..m /\ k <= MaxFailures
                   /\ failed'[b][m - k + 1] = seen'[b].first
                   /\ k = MaxFailures => seen'[b].lockedUntil = failed'[b][m] + Lockout
    BY <1>3, <1>4, <1>5, <2>1 DEF GInv, Counts
  <2> DEFINE k == c.failures
             G == failed'[a]
  <2>2. k + 1 \in 1..(n + 1) /\ k + 1 <= MaxFailures /\ G[n - k + 1] = c.first
    <3>1. CASE c.failures = 0 /\ c.first = now
      BY SMTT(30), <1>2, <1>5, <1>6, <3>1
    <3>2. CASE c = seen[a] /\ a \in Evicted /\ now - seen[a].first <= Window
      <4>1. k \in 1..n /\ k < MaxFailures /\ F[n - k + 1] = c.first
        BY <1>10, <3>2
      <4>2. \A i \in 1..n : G[i] = F[i]
        BY <1>5, <1>6
      <4> HIDE DEF k, G
      <4>3. n - k + 1 \in 1..n
        BY SMTT(30), <1>2, <4>1
      <4> QED
        BY SMTT(30), <1>2, <4>1, <4>2, <4>3
    <3> QED
      BY <1>9, <3>1, <3>2
  <2>3. LET m == Len(failed'[a])
            j == seen'[a].failures
        IN  /\ j \in 1..m /\ j <= MaxFailures
            /\ failed'[a][m - j + 1] = seen'[a].first
            /\ j = MaxFailures => seen'[a].lockedUntil = failed'[a][m] + Lockout
    <3>1. Len(G) = n + 1 /\ G[n + 1] = now /\ seen'[a].failures = k + 1 /\ k \in Nat
      BY <1>5, <1>6, <1>7, <1>8
    <3>2. k + 1 = MaxFailures => seen'[a].lockedUntil = now + Lockout
      BY SMTT(30), <1>2, <1>7, <1>8
    <3>3. seen'[a].first = c.first
      BY <1>8
    <3> HIDE DEF k, G
    <3>4. Len(G) - (k + 1) + 1 = n - k + 1
      BY SMTT(30), <1>2, <3>1
    <3>5. /\ k + 1 \in 1..Len(G) /\ k + 1 <= MaxFailures
          /\ G[Len(G) - (k + 1) + 1] = seen'[a].first
          /\ k + 1 = MaxFailures => seen'[a].lockedUntil = G[Len(G)] + Lockout
      BY <2>2, <3>1, <3>2, <3>3, <3>4
    <3> QED
      BY <3>1, <3>5 DEF G
  <2> QED
    BY <1>4, <2>1, <2>3 DEF Counts
<1>13. Slow'
  <2> DEFINE Old(b) == IF b \in DOMAIN seen'
                       THEN \A i \in 1..(Len(failed'[b]) - seen'[b].failures - MaxFailures + 2) :
                              failed'[b][i] + Window < seen'[b].first
                       ELSE \A i \in 1..(Len(failed'[b]) - MaxFailures + 2) :
                              failed'[b][i] + Window < now
  <2>1. ASSUME NEW b \in Addrs, b \notin swept', b # a PROVE Old(b)
    <3>1. b \notin swept /\ b \notin Dropped
      BY <1>4, <2>1
    <3>2. CASE b \in Evicted
      BY <1>3, <1>4, <1>5, <2>1, <3>1, <3>2 DEF GInv, Slow
    <3>3. CASE b \notin DOMAIN seen
      BY <1>3, <1>4, <1>5, <2>1, <3>1, <3>3 DEF GInv, Slow
    <3>4. CASE b \in DOMAIN seen /\ b \notin Evicted
      <4>1. seen[b].first \in Nat
        BY <2>1, <3>4, Numbers
      <4>2. ~Locked(b) /\ now - seen[b].first > Window
        BY SMTT(30), <1>2, <1>3, <3>1, <3>4, <4>1 DEF Dropped
      <4>3. \A i \in 1..(Len(failed[b]) - MaxFailures + 2) : failed[b][i] + Window < now
        BY <2>1, <3>4, <4>2, WindowPassed
      <4> QED
        BY <1>4, <1>5, <2>1, <3>4, <4>3
    <3> QED
      BY <3>2, <3>3, <3>4
  <2>2. ASSUME a \notin swept' PROVE Old(a)
    <3>1. a \notin swept /\ a \notin Dropped
      BY <1>4, <2>2
    <3>2. CASE c = seen[a] /\ a \in Evicted /\ now - seen[a].first <= Window
      <4>1. \A i \in 1..(n - c.failures - MaxFailures + 2) : F[i] + Window < c.first
        BY <1>1, <1>3, <3>1, <3>2 DEF GInv, Slow, F, n
      <4>2. c.failures \in 1..n
        BY <1>10, <3>2
      <4>3. \A i \in 1..(n - c.failures - MaxFailures + 2) : i \in 1..n
        BY SMTT(30), <1>2, <4>2
      <4>4. Len(failed'[a]) - seen'[a].failures - MaxFailures + 2 = n - c.failures - MaxFailures + 2
        <5> DEFINE k == c.failures
                   l == seen'[a].failures
                   len == Len(failed'[a])
        <5>1. len = n + 1 /\ l = k + 1 /\ k \in Nat
          BY <1>5, <1>6, <1>7, <1>8
        <5> HIDE DEF k, l, len
        <5>2. len - l - MaxFailures + 2 = n - k - MaxFailures + 2
          BY SMTT(30), <1>2, <5>1
        <5> QED
          BY <5>2 DEF k, l, len
      <4>5. a \in DOMAIN seen'
        BY <1>4
      <4> QED
        BY <1>5, <1>6, <1>8, <4>1, <4>3, <4>4, <4>5
    <3>3. CASE /\ c.failures = 0 /\ c.first = now
               /\ ~(a \in Evicted /\ now - seen[a].first <= Window)
      <4>1. \A i \in 1..(n - MaxFailures + 2) : F[i] + Window < now
        <5>1. CASE a \notin DOMAIN seen
          BY <1>1, <3>1, <5>1 DEF GInv, Slow, F, n
        <5>2. CASE a \in DOMAIN seen
          <6>1. seen[a].first \in Nat
            BY <1>1, <5>2, Numbers
          <6>2. now - seen[a].first > Window
            BY SMTT(30), <1>2, <3>1, <3>3, <5>2, <6>1 DEF Dropped
          <6> QED
            BY <1>1, <5>2, <6>2, WindowPassed DEF F, n
        <5> QED
          BY <5>1, <5>2
      <4>2. \A i \in 1..(n - MaxFailures + 2) : i \in 1..n
        BY SMTT(30), <1>2
      <4>3. Len(failed'[a]) - seen'[a].failures - MaxFailures + 2 = n - MaxFailures + 2
        BY SMTT(30), <1>2, <1>5, <1>6, <1>8, <3>3
      <4>4. a \in DOMAIN seen' /\ seen'[a].first = now
        BY <1>4, <1>8, <3>3
      <4>5. \A i \in 1..(n - MaxFailures + 2) : failed'[a][i] = F[i]
        BY <1>5, <1>6, <4>2
      <4> QED
        BY <4>1, <4>3, <4>4, <4>5
    <3> QED
      BY <1>9, <3>2, <3>3
  <2> QED
    BY <2>1, <2>2 DEF Slow
<1> QED
  BY <1>11, <1>12, <1>13 DEF GInv

(* Every step preserves it.                                                *)
LEMMA NextGInv == LInv /\ GInv /\ [LimiterNext]_lvars => GInv'
<1> SUFFICES ASSUME LInv, GInv, [LimiterNext]_lvars PROVE GInv'
  OBVIOUS
<1>1. CASE UNCHANGED <<seen, now, failed, swept>>
  BY <1>1 DEF GInv, Times, Counts, Slow
<1>2. ASSUME NEW a \in Addrs, NEW right \in BOOLEAN, Verdict(a, right) PROVE GInv'
  <2>1. a \in verifying /\ now' = now
    BY <1>2 DEF Verdict
  <2>2. CASE RecordFailure(a)
    BY <2>1, <2>2, FailureGInv
  <2>3. CASE RecordSuccess(a)
    <3>1. /\ DOMAIN seen' = DOMAIN seen \ {a}
          /\ \A b \in DOMAIN seen' : seen'[b] = seen[b]
          /\ failed' = [failed EXCEPT ![a] = <<>>] /\ swept' = swept \ {a}
      BY <2>3 DEF RecordSuccess
    <3>2. /\ failed \in [Addrs -> Seq(Nat)] /\ DOMAIN seen \subseteq Addrs
          /\ MaxFailures \in Nat /\ MaxFailures > 1
      BY LimiterConstants DEF GInv, Times, LInv, Shape
    <3>3. /\ failed' \in [Addrs -> Seq(Nat)] /\ failed'[a] = <<>> /\ Len(failed'[a]) = 0
          /\ \A b \in Addrs \ {a} : failed'[b] = failed[b]
      <4>1. <<>> \in Seq(Nat) /\ Len(<<>>) = 0
        BY SMTT(30)
      <4> QED
        BY <3>1, <3>2, <4>1
    <3>4. Times'
      <4>1. ASSUME NEW b \in Addrs, b # a PROVE failed'[b] = failed[b]
        BY <3>3, <4>1
      <4>2. now' = now /\ 1..Len(failed'[a]) = {}
        BY SMTT(30), <2>1, <3>3
      <4> QED
        BY <3>3, <4>1, <4>2 DEF GInv, Times
    <3>5. Counts'
      BY <3>1, <3>2, <3>3 DEF GInv, Counts
    <3>6. Slow'
      <4>1. 1..(Len(failed'[a]) - MaxFailures + 2) = {}
        BY SMTT(30), <3>2, <3>3
      <4> QED
        BY <2>1, <3>1, <3>2, <3>3, <4>1 DEF GInv, Slow
    <3> QED
      BY <3>4, <3>5, <3>6 DEF GInv
  <2> QED
    BY <1>2, <2>2, <2>3 DEF Verdict
<1>3. CASE Tick
  <2>1. now' = now + 1 /\ now \in Nat /\ UNCHANGED <<seen, failed, swept>>
    BY <1>3 DEF Tick, LInv, Shape
  <2>2. \A a \in Addrs : \A i \in 1..Len(failed[a]) : failed[a][i] \in Nat
    BY Numbers
  <2>3. Times'
    BY SMTT(30), <2>1, <2>2 DEF GInv, Times
  <2>4. Counts'
    BY <2>1 DEF GInv, Counts
  <2>5. Slow'
    <3> SUFFICES ASSUME NEW a \in Addrs, a \notin swept, a \notin DOMAIN seen,
                        NEW i \in 1..(Len(failed[a]) - MaxFailures + 2)
                 PROVE  failed[a][i] + Window < now + 1
      BY <2>1 DEF GInv, Slow
    <3>1. failed[a][i] + Window < now
      BY DEF GInv, Slow
    <3>2. Len(failed[a]) \in Nat /\ MaxFailures \in Nat /\ MaxFailures > 1 /\ Window \in Nat
      BY Numbers
    <3>3. failed[a][i] \in Nat
      BY SMTT(30), <2>2, <3>2
    <3> QED
      BY SMTT(30), <2>1, <3>1, <3>2, <3>3
  <2> QED
    BY <2>3, <2>4, <2>5 DEF GInv
<1> QED
  BY <1>1, <1>2, <1>3 DEF LimiterNext, Check, Oversized, lvars

(* The windows of every address, throughout.                               *)
THEOREM WindowInvariant == LimiterSpec => []GInv
  BY InitGInv, NextGInv, LimiterInvariant, PTL DEF LimiterSpec

(* An address whose count was not dropped to make room fails at most       *)
(* 2 * MAX_FAILURES - 2 times within WINDOW, for every choice of the       *)
(* limits, however its failures straddle windows and lockouts.             *)
THEOREM GuessesAlwaysLimited == LimiterSpec => []GuessesLimited
<1>1. LInv /\ GInv => GuessesLimited
  <2> SUFFICES ASSUME LInv, GInv, NEW a \in Addrs, a \notin swept
               PROVE  Since(failed[a], now - Window) <= 2 * MaxFailures - 2
    BY DEF GuessesLimited
  <2> DEFINE F == failed[a]
             n == Len(F)
             k == seen[a].failures
             m == 2 * MaxFailures - 2
  <2>1. /\ F \in Seq(Nat) /\ n \in Nat /\ now \in Nat /\ Window \in Nat
        /\ MaxFailures \in Nat /\ MaxFailures > 1
        /\ \A i \in 1..n : F[i] \in Nat
        /\ a \in DOMAIN seen => seen[a].first \in Nat
    BY Numbers
  <2>2. ASSUME a \in DOMAIN seen
        PROVE  /\ k \in 1..n /\ k <= MaxFailures /\ seen[a].first <= now
               /\ \A i \in 1..(n - k - MaxFailures + 2) : F[i] + Window < seen[a].first
    <3>1. /\ k \in 1..n /\ k <= MaxFailures /\ F[n - k + 1] = seen[a].first
      BY <2>2 DEF GInv, Counts
    <3>2. \A i \in 1..n : F[i] <= now
      BY DEF GInv, Times
    <3>3. \A i \in 1..(n - k - MaxFailures + 2) : F[i] + Window < seen[a].first
      BY <2>2 DEF GInv, Slow
    <3> HIDE DEF F, n, k
    <3>4. n - k + 1 \in 1..n
      BY SMTT(30), <2>1, <3>1
    <3> QED
      BY <3>1, <3>2, <3>3, <3>4
  <2>3. a \notin DOMAIN seen => \A i \in 1..(n - MaxFailures + 2) : F[i] + Window < now
    BY DEF GInv, Slow
  <2> HIDE DEF F, n, k
  <2>4. m \in Nat
    BY SMTT(30), <2>1
  <2>5. ASSUME NEW i \in 1..(n - m) PROVE F[i] < now - Window
    <3>1. i \in 1..n
      BY SMTT(30), <2>1, <2>4
    <3>2. CASE a \in DOMAIN seen
      <4>1. i \in 1..(n - k - MaxFailures + 2)
        BY SMTT(30), <2>1, <2>2, <3>2
      <4>2. F[i] + Window < seen[a].first /\ seen[a].first <= now
        BY <2>2, <3>2, <4>1
      <4> DEFINE f == F[i]
                 first == seen[a].first
      <4>3. f \in Nat /\ first \in Nat /\ f + Window < first /\ first <= now
        BY <2>1, <3>1, <3>2, <4>2
      <4> HIDE DEF f, first
      <4>4. f < now - Window
        BY SMTT(30), <2>1, <4>3
      <4> QED
        BY <4>4 DEF f
    <3>3. CASE a \notin DOMAIN seen
      <4>1. i \in 1..(n - MaxFailures + 2)
        BY SMTT(30), <2>1
      <4>2. F[i] + Window < now /\ F[i] \in Nat
        BY <2>1, <2>3, <3>1, <3>3, <4>1
      <4> QED
        BY SMTT(30), <2>1, <4>2
    <3> QED
      BY <3>2, <3>3
  <2>6. now - Window \in Int
    BY SMTT(30), <2>1
  <2> HIDE DEF m
  <2>7. Since(F, now - Window) <= m
    BY <2>1, <2>4, <2>5, <2>6, SinceAtMost DEF n
  <2> QED
    BY <2>7 DEF F, m
<1> QED
  BY <1>1, LimiterInvariant, WindowInvariant, PTL

(* A lockout is always deserved: record_failure() locks an address out     *)
(* only when MAX_FAILURES of its failures lie within one WINDOW.           *)
THEOREM LockoutsDeserved == LimiterSpec => LockoutDeserved
<1> DEFINE Deserved == \A a \in Addrs :
                         lockedAt'[a] # lockedAt[a] =>
                           Since(failed'[a], now - Window) >= MaxFailures
<1>1. LInv /\ GInv /\ [LimiterNext]_lvars => [Deserved]_lvars
  <2> SUFFICES ASSUME LInv, GInv, LimiterNext, NEW a \in Addrs, lockedAt'[a] # lockedAt[a]
               PROVE  Since(failed'[a], now - Window) >= MaxFailures
    OBVIOUS
  <2>1. a \in verifying /\ RecordFailure(a) /\ now' = now
    <3>1. PICK b \in Addrs : b \in verifying /\ RecordFailure(b) /\ now' = now
      BY DEF LimiterNext, Check, Oversized, Verdict, RecordSuccess, Tick
    <3>2. b = a
      BY <3>1 DEF RecordFailure, LInv, Shape
    <3> QED
      BY <3>1, <3>2
  <2>2. GInv'
    BY <2>1, FailureGInv
  <2> DEFINE F == failed'[a]
             n == Len(F)
             k == seen'[a].failures
             first == seen'[a].first
  <2>3. /\ MaxFailures \in Nat /\ MaxFailures > 1 /\ now \in Nat /\ Window \in Nat
    BY Numbers
  <2>4. a \in DOMAIN seen' /\ k >= MaxFailures /\ now - first <= Window /\ first \in Nat
    <3> DEFINE c == Counting(a)
    <3>1. Evicted \subseteq DOMAIN seen
      BY EvictedKeeps
    <3>2. c \in [failures : Nat, first : Nat, lockedUntil : Nat \cup {Unlocked}]
      BY <2>3, <3>1 DEF Counting, Fresh, LInv, Shape, Unlocked
    <3>3. now - c.first <= Window
      BY SMTT(30), <2>3 DEF Counting, Fresh
    <3>4. c.failures + 1 >= MaxFailures
      BY <2>1 DEF RecordFailure
    <3>5. /\ a \in DOMAIN seen'
          /\ seen'[a] = [c EXCEPT !.failures = c.failures + 1,
                                  !.lockedUntil = IF c.failures + 1 >= MaxFailures
                                                  THEN now + Lockout ELSE @]
      BY <2>1 DEF RecordFailure
    <3> HIDE DEF c
    <3> QED
      BY <3>2, <3>3, <3>4, <3>5
  <2>5. /\ k \in 1..n /\ k <= MaxFailures /\ F[n - k + 1] = first
        /\ \A i, j \in 1..n : i <= j => F[i] <= F[j]
        /\ F \in Seq(Nat)
    BY <2>2, <2>4 DEF GInv, Counts, Times
  <2>6. n \in Nat /\ \A i \in 1..n : F[i] \in Nat
    BY <2>5, Elements
  <2> HIDE DEF F, k, first
  <2>7. MaxFailures <= n /\ k = MaxFailures
    BY SMTT(30), <2>3, <2>4, <2>5, <2>6
  <2>8. ASSUME NEW i \in (n - MaxFailures + 1)..n PROVE F[i] >= now - Window
    <3>1. i \in 1..n /\ n - k + 1 \in 1..n /\ n - k + 1 <= i
      BY SMTT(30), <2>3, <2>6, <2>7
    <3>2. first <= F[i] /\ F[i] \in Nat
      BY <2>5, <2>6, <3>1
    <3> QED
      BY SMTT(30), <2>3, <2>4, <3>2
  <2>9. now - Window \in Int
    BY SMTT(30), <2>3
  <2>10. Since(F, now - Window) >= MaxFailures
    BY <2>3, <2>5, <2>7, <2>8, <2>9, SinceAtLeast
  <2> QED
    BY <2>10 DEF F
<1> QED
  BY <1>1, LimiterInvariant, WindowInvariant, PTL DEF LimiterSpec, LockoutDeserved

-----------------------------------------------------------------------------
(* Accounts and sessions. *)

(* The history is up to date for the accounts there are.                   *)
HeldNow == \A n \in DOMAIN users : held[<<n, users[n]>>] = clock

(* A token expires at most Ttl after its account last had its role.        *)
Bounded ==
  \A t \in tokens :
    /\ held[<<t.user, t.role>>] # Never
    /\ t.exp <= held[<<t.user, t.role>>] + Ttl

AInv ==
  /\ AccountsTypeOK /\ IsFiniteSet(DOMAIN users)
  /\ AdminRemains /\ HeldNow /\ Bounded

(* What serve() leaves in the users table: what there was, or the one      *)
(* seeded admin.                                                           *)
LEMMA Seeding ==
  ASSUME NEW u, NEW v \in SeedOutcomes(u)
  PROVE  \/ v = u
         \/ /\ DOMAIN u = {} /\ DOMAIN v = {Seed} /\ v[Seed] = "admin"
            /\ v \in [{Seed} -> Roles] /\ {Seed} \in SUBSET Names
<1>1. v = u \/ (DOMAIN u = {} /\ v = [n \in {Seed} |-> "admin"])
  BY DEF SeedOutcomes
<1> QED BY <1>1, AccountConstants DEF Roles

(* The panel's first start, seeded or not, satisfies the invariant.        *)
LEMMA InitAInv == AccountsInit => AInv
<1> SUFFICES ASSUME AccountsInit PROVE AInv
  OBVIOUS
<1> DEFINE h == [ur \in Names \X Roles |-> Never]
           nobody == [n \in {} |-> "admin"]
<1>0. users \in SeedOutcomes(nobody) /\ DOMAIN nobody = {} /\ clock = 0 /\ tokens = {}
  BY DEF AccountsInit
<1>1. /\ DOMAIN users = {} \/ (DOMAIN users = {Seed} /\ users[Seed] = "admin")
      /\ DOMAIN users \in SUBSET Names /\ users \in [DOMAIN users -> Roles]
  <2>1. nobody \in [{} -> Roles]
    OBVIOUS
  <2> HIDE DEF nobody
  <2> QED BY <2>1, <1>0, Seeding
<1>2. DOMAIN users \in SUBSET Names /\ users \in [DOMAIN users -> Roles]
  BY <1>1
<1>3. h \in [Names \X Roles -> {Never} \cup 0..0]
  OBVIOUS
<1>4. held = Holding(users, 0, h)
  BY DEF AccountsInit
<1> HIDE DEF h
<1>5. /\ held \in [Names \X Roles -> {Never} \cup 0..0]
      /\ \A n \in DOMAIN users : held[<<n, users[n]>>] = 0
  <2>1. \A n \in DOMAIN users : <<n, users[n]>> \in Names \X Roles
    BY <1>2
  <2> QED BY SMTT(30), <2>1, <1>2, <1>3, <1>4 DEF Holding
<1>6. AccountsTypeOK
  BY SMTT(30), <1>0, <1>2, <1>5, AccountConstants DEF AccountsTypeOK
<1>7. IsFiniteSet(DOMAIN users)
  BY <1>1, FS_Singleton, FS_EmptySet
<1>8. AdminRemains
  BY <1>0, <1>1 DEF AdminRemains, Admins
<1> QED BY <1>0, <1>5, <1>6, <1>7, <1>8 DEF AInv, HeldNow, Bounded

(* Bringing the history up to date keeps every token within its bound.     *)
LEMMA BoundKept ==
  ASSUME Bounded, AccountsTypeOK, tokens' = tokens,
         \A ur \in Names \X Roles : held'[ur] \in {clock', held[ur]},
         clock' \in Nat, clock <= clock'
  PROVE  Bounded'
<1> SUFFICES ASSUME NEW t \in tokens
             PROVE  /\ held'[<<t.user, t.role>>] # Never
                    /\ t.exp <= held'[<<t.user, t.role>>] + Ttl
  BY DEF Bounded
<1> DEFINE ur == <<t.user, t.role>>
<1>1. t \in Token /\ ur \in Names \X Roles
  BY DEF AccountsTypeOK, Token
<1>2. t.exp \in Int /\ Ttl \in Nat /\ MaxClock \in Nat
  BY SMTT(30), <1>1, AccountConstants DEF Token
<1>3. held[ur] # Never /\ t.exp <= held[ur] + Ttl
  BY DEF Bounded
<1>4. held[ur] \in 0..clock /\ clock \in Nat
  BY SMTT(30), <1>1, <1>2, <1>3 DEF AccountsTypeOK
<1>5. held'[ur] \in {clock', held[ur]}
  BY <1>1
<1> HIDE DEF ur
<1>6. held'[ur] # Never /\ t.exp <= held'[ur] + Ttl
  BY SMTT(30), <1>2, <1>3, <1>4, <1>5 DEF Never
<1> QED BY <1>6 DEF ur

(* Every handler, the clock and a restart keep it.                         *)
LEMMA NextAInv == AInv /\ [AccountsNext]_avars => AInv'
<1> SUFFICES ASSUME AInv, [AccountsNext]_avars PROVE AInv'
  OBVIOUS
<1>t. AccountsTypeOK /\ IsFiniteSet(DOMAIN users) /\ AdminRemains /\ HeldNow /\ Bounded
  BY DEF AInv
<1>n. clock \in Nat /\ clock \in 0..MaxClock /\ MaxClock \in Nat /\ Ttl \in Nat
  BY SMTT(30), <1>t, AccountConstants DEF AccountsTypeOK
<1>1. ASSUME NEW n \in Names, Login(n) PROVE AInv'
  <2> DEFINE t == [user |-> n, role |-> users[n], exp |-> clock + Ttl]
  <2>1. n \in DOMAIN users /\ users[n] \in Roles /\ tokens' = tokens \cup {t}
    BY <1>1, <1>t DEF Login, AccountsTypeOK
  <2>2. t \in Token
    BY SMTT(30), <2>1, <1>n DEF Token
  <2>3. UNCHANGED <<users, clock, held>>
    BY <1>1 DEF Login
  <2>4. held[<<n, users[n]>>] = clock
    BY <2>1, <1>t DEF HeldNow
  <2>5. t.user = n /\ t.role = users[n] /\ t.exp = clock + Ttl
    OBVIOUS
  <2> HIDE DEF t
  <2>6. Bounded'
    <3> SUFFICES ASSUME NEW x \in tokens'
                 PROVE  /\ held[<<x.user, x.role>>] # Never
                        /\ x.exp <= held[<<x.user, x.role>>] + Ttl
      BY <2>3 DEF Bounded
    <3>1. CASE x \in tokens
      BY <3>1, <1>t DEF Bounded
    <3>2. CASE x = t
      <4>1. held[<<x.user, x.role>>] = clock /\ x.exp = clock + Ttl
        BY <3>2, <2>4, <2>5
      <4> QED BY SMTT(30), <4>1, <1>n DEF Never
    <3> QED BY <3>1, <3>2, <2>1
  <2>7. AccountsTypeOK'
    BY <2>1, <2>2, <2>3, <1>t DEF AccountsTypeOK
  <2> QED BY <2>1, <2>3, <2>6, <2>7, <1>t DEF AInv, AdminRemains, Admins, HeldNow
<1>2. ASSUME NEW t \in tokens, NEW n \in Names, NEW asked \in Asked,
             CreateUser(t, n, asked)
      PROVE  AInv'
  <2> DEFINE role == RoleOf(asked)
  <2>0. role \in Roles
    BY DEF RoleOf, Roles
  <2>1. /\ users' = [m \in DOMAIN users \cup {n} |-> IF m = n THEN role ELSE users[m]]
        /\ held' = Holding(users', clock, held) /\ tokens' = tokens /\ clock' = clock
        /\ n \notin DOMAIN users
    BY <1>2 DEF CreateUser
  <2> HIDE DEF role
  <2>2. DOMAIN users' \in SUBSET Names /\ users' \in [DOMAIN users' -> Roles]
    BY <2>0, <2>1, <1>t DEF AccountsTypeOK
  <2>3. held \in [Names \X Roles -> {Never} \cup 0..clock]
    BY <1>t DEF AccountsTypeOK
  <2>4. /\ held' \in [Names \X Roles -> {Never} \cup 0..clock]
        /\ \A m \in DOMAIN users' : held'[<<m, users'[m]>>] = clock
        /\ \A ur \in Names \X Roles : held'[ur] \in {clock, held[ur]}
    <3>1. \A m \in DOMAIN users' : <<m, users'[m]>> \in Names \X Roles
      BY <2>2
    <3>2. held' = Holding(users', clock, held)
      BY <2>1
    <3> QED BY SMTT(30), <3>1, <3>2, <2>2, <2>3, <1>n DEF Holding
  <2>5. AccountsTypeOK'
    BY <2>1, <2>2, <2>4, <1>t DEF AccountsTypeOK
  <2>6. IsFiniteSet(DOMAIN users')
    BY <2>1, <1>t, FS_AddElement
  <2>7. AdminRemains'
    BY <2>1, <1>t DEF AdminRemains, Admins
  <2>8. Bounded'
    <3>1. clock' \in Nat /\ clock <= clock' /\ tokens' = tokens
      BY SMTT(30), <2>1, <1>n
    <3>2. \A ur \in Names \X Roles : held'[ur] \in {clock', held[ur]}
      BY <2>1, <2>4
    <3> QED BY ONLY <3>1, <3>2, <1>t, BoundKept
  <2> QED BY <2>1, <2>4, <2>5, <2>6, <2>7, <2>8 DEF AInv, HeldNow
<1>3. ASSUME NEW t \in tokens, NEW n \in Names, DeleteUser(t, n) PROVE AInv'
  <2>1. /\ users' = [m \in DOMAIN users \ {n} |-> users[m]]
        /\ UNCHANGED <<tokens, clock, held>> /\ n \in DOMAIN users
        /\ ~(users[n] = "admin" /\ Cardinality(Admins(users)) <= 1)
    BY <1>3 DEF DeleteUser
  <2>2. AccountsTypeOK'
    BY <2>1, <1>t DEF AccountsTypeOK
  <2>3. IsFiniteSet(DOMAIN users')
    BY <2>1, <1>t, FS_RemoveElement
  <2>4. PICK a \in Admins(users) : a # n
    <3>1. CASE users[n] # "admin"
      BY <3>1, <1>t DEF AdminRemains, Admins
    <3>2. CASE Admins(users) = {n} /\ users[n] = "admin"
      <4>1. Cardinality({n}) = 1
        BY FS_Singleton
      <4> QED BY SMTT(30), <4>1, <3>2, <2>1
    <3> QED BY <3>1, <3>2, <1>t DEF AdminRemains
  <2>5. AdminRemains'
    <3>1. a \in DOMAIN users' /\ users'[a] = "admin"
      BY <2>1, <2>4 DEF Admins
    <3> QED BY <3>1 DEF AdminRemains, Admins
  <2>6. HeldNow' /\ Bounded'
    BY <2>1, <1>t DEF HeldNow, Bounded
  <2> QED BY <2>2, <2>3, <2>5, <2>6 DEF AInv
<1>4. CASE Restart
  <2>1. /\ users' \in SeedOutcomes(users) /\ held' = Holding(users', clock, held)
        /\ UNCHANGED <<tokens, clock>>
    BY <1>4 DEF Restart
  <2>2. \/ users' = users
        \/ /\ DOMAIN users = {} /\ DOMAIN users' = {Seed} /\ users'[Seed] = "admin"
           /\ users' \in [{Seed} -> Roles] /\ {Seed} \in SUBSET Names
    BY <2>1, Seeding
  <2>3. /\ DOMAIN users' \in SUBSET Names /\ users' \in [DOMAIN users' -> Roles]
        /\ held \in [Names \X Roles -> {Never} \cup 0..clock]
    BY <2>2, <1>t DEF AccountsTypeOK
  <2>4. /\ held' \in [Names \X Roles -> {Never} \cup 0..clock]
        /\ \A m \in DOMAIN users' : held'[<<m, users'[m]>>] = clock
        /\ \A ur \in Names \X Roles : held'[ur] \in {clock, held[ur]}
    <3>1. \A m \in DOMAIN users' : <<m, users'[m]>> \in Names \X Roles
      BY <2>3
    <3> QED BY SMTT(30), <3>1, <2>1, <2>3, <1>n DEF Holding
  <2>5. AccountsTypeOK'
    BY <2>1, <2>3, <2>4, <1>t DEF AccountsTypeOK
  <2>6. Bounded'
    BY SMTT(30), <2>1, <2>4, <1>t, <1>n, BoundKept
  <2>7. IsFiniteSet(DOMAIN users')
    <3>1. IsFiniteSet({Seed})
      BY FS_Singleton
    <3> QED BY <3>1, <2>2, <1>t
  <2>8. AdminRemains'
    BY <2>1, <2>2, <1>t DEF AdminRemains, Admins
  <2> QED BY <2>1, <2>4, <2>5, <2>6, <2>7, <2>8 DEF AInv, HeldNow
<1>5. CASE Elapse
  <2>1. /\ clock' = clock + 1 /\ clock' \in 0..MaxClock
        /\ held' = Holding(users, clock', held) /\ UNCHANGED <<users, tokens>>
    BY SMTT(30), <1>5, <1>n DEF Elapse
  <2>2. /\ DOMAIN users \in SUBSET Names /\ users \in [DOMAIN users -> Roles]
        /\ held \in [Names \X Roles -> {Never} \cup 0..clock']
    BY SMTT(30), <2>1, <1>t, <1>n DEF AccountsTypeOK
  <2>3. /\ held' \in [Names \X Roles -> {Never} \cup 0..clock']
        /\ \A m \in DOMAIN users : held'[<<m, users[m]>>] = clock'
        /\ \A ur \in Names \X Roles : held'[ur] \in {clock', held[ur]}
    <3>1. \A m \in DOMAIN users : <<m, users[m]>> \in Names \X Roles
      BY <2>2
    <3> QED BY SMTT(30), <3>1, <2>1, <2>2, <1>n DEF Holding
  <2>4. AccountsTypeOK'
    BY <2>1, <2>3, <1>t DEF AccountsTypeOK
  <2>5. Bounded'
    BY SMTT(30), <2>1, <2>3, <1>t, <1>n, BoundKept
  <2> QED BY <2>1, <2>3, <2>4, <2>5, <1>t DEF AInv, HeldNow, AdminRemains, Admins
<1>6. CASE UNCHANGED avars
  BY <1>6, <1>t DEF AInv, AccountsTypeOK, AdminRemains, Admins, HeldNow, Bounded, avars
<1> QED BY <1>1, <1>2, <1>3, <1>4, <1>5, <1>6 DEF AccountsNext

(* AInv is an invariant of the panel's accounts and sessions.              *)
THEOREM AccountsInvariant == AccountsSpec => []AInv
  BY InitAInv, NextAInv, PTL DEF AccountsSpec

(* Whatever delete_user(), create_user() and serve()'s seeding, which may  *)
(* fail, make of it, a panel with an account or a session has an admin.    *)
THEOREM AdminAlwaysRemains == AccountsSpec => []AdminRemains
<1>1. AInv => AdminRemains
  BY DEF AInv
<1> QED BY <1>1, AccountsInvariant, PTL

(* No session is good for longer than its lifetime after its account lost  *)
(* the role the session carries, by deletion or by being created anew.     *)
THEOREM PowersAlwaysExpire == AccountsSpec => []PowersExpire
<1>1. AInv => PowersExpire
  <2> SUFFICES ASSUME AInv, NEW t \in tokens, clock < t.exp
               PROVE  /\ held[<<t.user, t.role>>] # Never
                      /\ clock < held[<<t.user, t.role>>] + Ttl
    BY DEF PowersExpire
  <2>1. t.exp <= held[<<t.user, t.role>>] + Ttl /\ held[<<t.user, t.role>>] # Never
    BY DEF AInv, Bounded
  <2>2. t \in Token /\ clock \in Int /\ <<t.user, t.role>> \in Names \X Roles
    BY SMTT(30), AccountConstants DEF AInv, AccountsTypeOK, Token
  <2>3. held[<<t.user, t.role>>] \in 0..clock /\ t.exp \in Int /\ Ttl \in Nat
    BY SMTT(30), <2>1, <2>2, AccountConstants DEF AInv, AccountsTypeOK, Token
  <2> QED BY SMTT(30), <2>1, <2>2, <2>3
<1> QED BY <1>1, AccountsInvariant, PTL

=============================================================================
