------------------------------- MODULE Score -------------------------------
(***************************************************************************)
(* Risk scoring of the signals of one lineage (src/src/detect/score.rs).   *)
(* A signal is a record with at least the fields id, score and ts.  The    *)
(* multipliers 1.3 and 1.1 are applied in integers, rounding half up, which*)
(* agrees with f64::round on every sum up to 200,000.                      *)
(***************************************************************************)
EXTENDS Integers, FiniteSets, FiniteSetsExt

CONSTANT ChainWindow     \* CHAIN_WINDOW_NS

ASSUME ScoreConstants == ChainWindow \in Nat

Severities == 0..4     \* rank(): Info, Low, Medium, High, Critical

(* Severity::from_score.                                                   *)
SeverityOf(score) ==
  CASE score <= 24 -> 0
    [] score \in 25..49 -> 1
    [] score \in 50..74 -> 2
    [] score \in 75..89 -> 3
    [] OTHER -> 4

MaxScore == 100

(* The behaviour a signal id belongs to; an id not grouped is its own.     *)
Family(id) ==
  CASE id \in {"ldso_preload_write", "authorized_keys_write", "persistence_write",
               "cred_config_write", "sensitive_write"} -> "watched_write"
    [] id \in {"credential_store_read", "ssh_private_key_read"} -> "credential_read"
    [] id \in {"ptrace_attach", "cross_uid_proc_read"} -> "process_access"
    [] OTHER -> id

(* Mutant: the window is one reading too short.                            *)
Recent_OffByOne(signals) ==
  LET newest == Max({s.ts : s \in signals})
  IN  {s \in signals : newest - s.ts < ChainWindow}

(* Only signals near the newest one are scored.                            *)
Recent(signals) ==
  LET newest == Max({s.ts : s \in signals})
  IN  {s \in signals : newest - s.ts <= ChainWindow}

Families(signals) == {Family(s.id) : s \in signals}

(* A behaviour counts once, with its highest score.                        *)
PerFamily(signals, f) == Max({s.score : s \in {x \in signals : Family(x.id) = f}})

Base(signals) ==
  MapThenSumSet(LAMBDA f : PerFamily(signals, f), Families(signals))

ChainBonus(signals) ==
  LET distinct == Cardinality(Families(signals))
  IN  IF distinct > 1
      THEN ((distinct - 1) * Max({s.score : s \in signals})) \div 2 ELSE 0

(* Context::multiplier, then round().                                      *)
Weighted(x, networkRooted, inContainer) ==
  CASE networkRooted /\ inContainer -> (x * 143 + 50) \div 100
    [] networkRooted /\ ~inContainer -> (x * 13 + 5) \div 10
    [] ~networkRooted /\ inContainer -> (x * 11 + 5) \div 10
    [] OTHER -> x

ScoreOf(signals, networkRooted, inContainer) ==
  IF signals = {} THEN 0
  ELSE LET recent == Recent(signals)
           total == Weighted(Base(recent) + ChainBonus(recent),
                             networkRooted, inContainer)
       IN  Min({total, MaxScore})

=============================================================================
