------------------------------ MODULE Expected ------------------------------
(***************************************************************************)
(* What operators have marked as expected (mark_expected and baseline_for  *)
(* in src/src/server/store.rs): a table of (host, signal, exe) with the    *)
(* evidence for each, and the baseline a host's operator may fetch and     *)
(* install.  A reported incident is [id, exe, signals]: the executable of  *)
(* its subject and the [id, ts] of its signals, in order.                  *)
(***************************************************************************)
EXTENDS Baseline, Sequences

NoPairs == [k \in {} |-> 0]

(* The upsert of one pair.                                                 *)
Upsert(table, k, ts) ==
  LET old == table[k]
      new == IF k \notin DOMAIN table THEN [count |-> 1, first |-> ts, last |-> ts]
             ELSE [count |-> old.count + 1,
                   first |-> IF ts > 0 /\ (old.first = 0 \/ ts < old.first) THEN ts
                             ELSE old.first,
                   last |-> Max({old.last, ts})]
  IN  [q \in DOMAIN table \cup {k} |-> IF q = k THEN new ELSE table[q]]

(* mark_expected(): every signal is filed under the executable of the      *)
(* incident's subject, one statement each, of which those in `missed` fail.*)
MarkExpected(table, host, inc, missed) ==
  LET upto[n \in 0..Len(inc.signals)] ==
        IF n = 0 THEN table
        ELSE IF n \in missed THEN upto[n - 1]
        ELSE Upsert(upto[n - 1], <<host, inc.signals[n].id, inc.exe>>, inc.signals[n].ts)
  IN  IF inc.exe = "" THEN table ELSE upto[Len(inc.signals)]

(* baseline_for(): the window spans what was recorded for the host.  Where *)
(* nothing was, there is no file, and none takes away what an empty one    *)
(* does: nothing.                                                          *)
BaselineFor(table, host, today) ==
  LET own == {k \in DOMAIN table : k[1] = host}
      known == {table[k].first : k \in own} \ {0}
      lo == IF known = {} THEN 0 ELSE Min(known)
      hi == Max({0} \cup {table[k].last : k \in own})
  IN  [NewBaseline(today) EXCEPT
         !.window = Max({0, hi - lo}),
         !.stats = [p \in {<<k[2], k[3]>> : k \in own} |-> table[<<host, p[1], p[2]>>]]]

=============================================================================
