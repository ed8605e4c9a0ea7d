---------------------------- MODULE LoginLimiter ----------------------------
(***************************************************************************)
(* Brute-force protection of the login (src/src/server/ratelimit.rs) and   *)
(* its caller, the /api/login handler of src/src/server/mod.rs.  Requests  *)
(* are handled one at a time, but time passes while a password is verified,*)
(* so a login is two steps: the lockout check, and the verdict on the      *)
(* password with what it records.                                          *)
(***************************************************************************)
EXTENDS Integers, Sequences, FiniteSets

CONSTANTS
  Addrs,         \* peer addresses
  MaxFailures,   \* MAX_FAILURES
  Window,        \* WINDOW
  Lockout,       \* LOCKOUT
  MaxTracked,    \* MAX_TRACKED
  MaxTime,       \* bound: the clock's last reading
  MaxLog         \* bound: failures per address

ASSUME LimiterConstants ==
  /\ {MaxFailures, Window, Lockout, MaxTracked, MaxTime, MaxLog} \subseteq Nat
  /\ MaxFailures > 1 /\ Window < Lockout

Unlocked == -1

VARIABLES
  seen,          \* address -> [failures, first, lockedUntil]
  now,
  verifying,     \* addresses whose password is being verified: at most one
  failed,        \* history: address -> times of its failed logins since it
                 \* last logged in
  lockedAt,      \* history: address -> when it was last locked out
  swept          \* history: addresses whose count was dropped to make room,
                 \* and which have not logged in since

lvars == <<seen, now, verifying, failed, lockedAt, swept>>

LimiterInit ==
  /\ seen = [a \in {} |-> 0]
  /\ now = 0 /\ verifying = {}
  /\ failed = [a \in Addrs |-> <<>>]
  /\ lockedAt = [a \in Addrs |-> Unlocked]
  /\ swept = {}

-----------------------------------------------------------------------------

(* locked_for() is Some.                                                   *)
Locked(a) == a \in DOMAIN seen /\ seen[a].lockedUntil > now

(* Mutant: an oversized table is cleared.                                  *)
Evicted_All ==
  LET kept == {a \in DOMAIN seen : Locked(a) \/ now - seen[a].first <= Window}
  IN  IF Cardinality(kept) > MaxTracked THEN {} ELSE kept

(* evict(): expired entries go; if too many are left, all but the locked.  *)
Evicted ==
  LET locked == {a \in DOMAIN seen : Locked(a)}
      kept == locked \cup {a \in DOMAIN seen : now - seen[a].first <= Window}
  IN  IF Cardinality(kept) > MaxTracked THEN locked ELSE kept

Fresh == [failures |-> 0, first |-> now, lockedUntil |-> Unlocked]

(* Mutant: a window is one reading too short.                              *)
Counting_OffByOne(a) ==
  IF a \in Evicted /\ now - seen[a].first < Window THEN seen[a] ELSE Fresh

(* The attempt record_failure() counts on: a window that has rolled over   *)
(* starts a fresh one.                                                     *)
Counting(a) ==
  IF a \in Evicted /\ now - seen[a].first <= Window THEN seen[a] ELSE Fresh

(* The addresses that evict() forgets although their window is still open. *)
Dropped == {b \in DOMAIN seen \ Evicted : now - seen[b].first <= Window}

(* Mutant: the lockout comes one failure early.                            *)
RecordFailure_Early(a) ==
  LET n == Counting(a).failures + 1
      attempt == [Counting(a) EXCEPT
                    !.failures = n,
                    !.lockedUntil = IF n >= MaxFailures - 1 THEN now + Lockout ELSE @]
  IN  /\ seen' = [b \in Evicted \cup {a} |-> IF b = a THEN attempt ELSE seen[b]]
      /\ lockedAt' = IF n >= MaxFailures - 1 THEN [lockedAt EXCEPT ![a] = now] ELSE lockedAt
      /\ failed' = [failed EXCEPT ![a] = Append(@, now)]
      /\ swept' = swept \cup Dropped

RecordFailure(a) ==
  LET n == Counting(a).failures + 1
      attempt == [Counting(a) EXCEPT
                    !.failures = n,
                    !.lockedUntil = IF n >= MaxFailures THEN now + Lockout ELSE @]
  IN  /\ seen' = [b \in Evicted \cup {a} |-> IF b = a THEN attempt ELSE seen[b]]
      /\ lockedAt' = IF n >= MaxFailures THEN [lockedAt EXCEPT ![a] = now] ELSE lockedAt
      /\ failed' = [failed EXCEPT ![a] = Append(@, now)]
      /\ swept' = swept \cup Dropped

RecordSuccess(a) ==
  /\ seen' = [b \in DOMAIN seen \ {a} |-> seen[b]]
  /\ failed' = [failed EXCEPT ![a] = <<>>]
  /\ swept' = swept \ {a}
  /\ UNCHANGED lockedAt

(* A locked address is answered 429 and nothing is recorded.               *)
Check(a) ==
  /\ verifying = {}
  /\ ~Locked(a)
  /\ verifying' = {a}
  /\ UNCHANGED <<seen, now, failed, lockedAt, swept>>

(* A request whose body is too large is answered before the password is    *)
(* looked at.                                                              *)
Oversized(a) ==
  /\ a \in verifying
  /\ verifying' = {}
  /\ UNCHANGED <<seen, now, failed, lockedAt, swept>>

Verdict(a, right) ==
  /\ a \in verifying
  /\ verifying' = {}
  /\ IF right THEN RecordSuccess(a)
     ELSE Len(failed[a]) < MaxLog /\ RecordFailure(a)
  /\ UNCHANGED now

Tick ==
  /\ now < MaxTime
  /\ now' = now + 1
  /\ UNCHANGED <<seen, verifying, failed, lockedAt, swept>>

LimiterNext ==
  \/ \E a \in Addrs : Check(a) \/ Oversized(a) \/ \E right \in BOOLEAN : Verdict(a, right)
  \/ Tick

LimiterSpec == LimiterInit /\ [][LimiterNext]_lvars

-----------------------------------------------------------------------------
(* Properties. *)

(* A lockout lasts: from the failure that tripped it until LOCKOUT has     *)
(* passed, no password of that address is verified, whatever other         *)
(* addresses do to the table in the meantime.                              *)
LockoutHolds ==
  [][\A a \in verifying' \ verifying :
       lockedAt[a] # Unlocked => now >= lockedAt[a] + Lockout]_lvars

Since(times, t) == Cardinality({i \in 1..Len(times) : times[i] >= t})

(* "Slow, spread out typos never add up to a lockout": an address is       *)
(* locked out only after MAX_FAILURES failures within one WINDOW.          *)
LockoutDeserved ==
  [][\A a \in Addrs :
       lockedAt'[a] # lockedAt[a] =>
         Since(failed'[a], now - Window) >= MaxFailures]_lvars

(* Guessing is slowed down: an address that does not log in, and whose     *)
(* count was not dropped to make room in the table, fails at most          *)
(* 2 * MAX_FAILURES - 2 times in any stretch of time as long as WINDOW (all*)
(* but the first failure of one window just before its end, and then those *)
(* of the next).                                                           *)
GuessesLimited ==
  \A a \in Addrs \ swept : Since(failed[a], now - Window) <= 2 * MaxFailures - 2

(* "Ceiling on tracked addresses, so a distributed attempt cannot grow     *)
(* this map without bound": the table never holds more than MAX_TRACKED    *)
(* addresses and the one just added.  Locked entries survive every         *)
(* eviction, but once the table is over its limit no further address       *)
(* reaches a lockout, because its count does not survive.                  *)
TableBounded == Cardinality(DOMAIN seen) <= MaxTracked + 1

=============================================================================
