------------------------------ MODULE Baseline ------------------------------
(***************************************************************************)
(* The baseline of a host (src/src/detect/baseline.rs): the (signal, exe)  *)
(* pairs seen while learning, each with the evidence for it, and how much  *)
(* of a signal's score that evidence takes away.  A baseline is a record   *)
(*   stats       pair -> [count, first, last]                              *)
(*   lo, hi      bounds of the learning window while it is being built     *)
(*   window      its length, which is what is saved                        *)
(*   learned     the day it was learned, 0 if that is not known            *)
(*   evaluated   the day its age is measured against                       *)
(* Fractions are in thousandths, rounded down.                             *)
(***************************************************************************)
EXTENDS Integers, FiniteSetsExt

FreshDays == 14
StaleDays == 90
KnownFactor == 100
BurstRecurrence == 500

NewBaseline(today) ==
  [stats |-> [p \in {} |-> 0], lo |-> 0, hi |-> 0, window |-> 0,
   learned |-> today, evaluated |-> today]

(* note_event(): the window spans every event, whether it signals or not.  *)
NoteEvent(b, ts) ==
  LET lo == IF b.lo = 0 THEN ts ELSE Min({b.lo, ts})
      hi == Max({b.hi, ts})
  IN  IF ts = 0 THEN b ELSE [b EXCEPT !.lo = lo, !.hi = hi, !.window = hi - lo]

(* observe(): an executable that is not known is no key.                   *)
Observe(b, id, exe, ts) ==
  LET p == <<id, exe>>
      new == IF p \notin DOMAIN b.stats THEN [count |-> 1, first |-> ts, last |-> ts]
             ELSE [count |-> b.stats[p].count + 1,
                   first |-> Min({b.stats[p].first, ts}),
                   last |-> Max({b.stats[p].last, ts})]
  IN  IF exe = "" THEN b
      ELSE [NoteEvent(b, ts) EXCEPT
              !.stats = [q \in DOMAIN @ \cup {p} |-> IF q = p THEN new ELSE @[q]]]

-----------------------------------------------------------------------------

(* ln(1 + count) / ln(1 + SUPPORT_FULL), at most 1.                        *)
Support(count) ==
  IF count >= 8 THEN 1000 ELSE <<315, 500, 630, 732, 815, 885, 946>>[count]

(* Mutant: a burst counts like a habit.                                    *)
Evidence_NoSpread(b, stat) == Support(stat.count)

(* evidence(): support, times how much of the window the sightings span.   *)
Evidence(b, stat) ==
  LET spread == IF b.window = 0 THEN 0
                ELSE Min({1000, ((stat.last - stat.first) * 1000) \div b.window})
      recurrence == BurstRecurrence + ((1000 - BurstRecurrence) * spread) \div 1000
  IN  (Support(stat.count) * recurrence) \div 1000

Freshness(b) ==
  LET days == Max({0, b.evaluated - b.learned})
  IN  IF b.learned = 0 \/ days <= FreshDays THEN 1000
      ELSE IF days >= StaleDays THEN 0
      ELSE 1000 - ((days - FreshDays) * 1000) \div (StaleDays - FreshDays)

Confidence(b, id, exe) ==
  IF <<id, exe>> \notin DOMAIN b.stats THEN 0
  ELSE (Evidence(b, b.stats[<<id, exe>>]) * Freshness(b)) \div 1000

Factor(b, id, exe) ==
  1000 - (Confidence(b, id, exe) * (1000 - KnownFactor)) \div 1000

(* What adjust_for_baseline() leaves of a score, rounded half up.          *)
Adjusted(b, id, exe, score) == (score * Factor(b, id, exe) + 500) \div 1000

-----------------------------------------------------------------------------

(* save() and load(): the bounds of the window are not written, its length *)
(* is; the age is measured once, against the day of the load.              *)
Load(b, today) == [b EXCEPT !.lo = 0, !.hi = 0, !.evaluated = today]

(* What a file of version 1 has of a baseline: counts and nothing else.    *)
AsV1(b) ==
  [b EXCEPT !.learned = 0, !.window = 0,
            !.stats = [p \in DOMAIN @ |-> [@[p] EXCEPT !.first = 0, !.last = 0]]]

=============================================================================
