----------------------------- MODULE Enforcement -----------------------------
(***************************************************************************)
(* Loading the sensors and denying opens (src/src/sensors.rs run(), and the*)
(* file_open program of src/bpf).  Userspace fills the maps, attaches one  *)
(* program after the other, decides what is active, and then polls the ring*)
(* buffer; a program serves opens from the moment it is attached, whatever *)
(* userspace is doing.                                                     *)
(***************************************************************************)
EXTENDS Integers, Sequences, FiniteSets

CONSTANTS
  Namespaces,    \* mount namespaces tasks run in, positive numbers
  Host,          \* the one of pid 1
  Homes,         \* home directories that may appear, with names in UTF-8
  LongDir,       \* those too long for encode_key() to take their /.ssh/
  LongKey,       \* and those too long for it to take their /.ssh/id_
  TrieRoom,      \* entries of watched_paths left for home directories
  RingCap,       \* records the ring buffer holds
  MaxOpens       \* bound: opens that match something

(* What home_watches() lists for the home directories hs.                  *)
Prefixes(hs) == hs \X {"/.ssh/", "/.ssh/id_"}
OverLong == (LongDir \X {"/.ssh/"}) \cup (LongKey \X {"/.ssh/id_"})

ASSUME EnforcementConstants ==
  /\ Namespaces \subseteq Nat \ {0} /\ Host \in Namespaces
  /\ {TrieRoom, MaxOpens} \subseteq Nat /\ RingCap \in Nat \ {0}
  /\ LongDir \subseteq LongKey /\ LongKey \subseteq Homes

VARIABLES
  stage,         \* "loaded", "attaching", "running" or "ended"
  requested,     \* the Enforce argument
  hostNs,        \* host_mnt_ns as read, 0 when it could not be
  lsm,           \* whether the kernel invokes lsm/ programs
  readable,      \* whether /sys/kernel/security/lsm can be read
  cfg,           \* the entry of the enforce map
  tried,         \* how many programs were attached or failed to
  live,          \* programs whose link is held
  active,        \* what userspace counts as active sensors
  announced,     \* the mode printed at the end of the start
  ring,          \* records not yet consumed: TRUE is one flagged EV_F_DENIED
  opens,         \* matching opens so far
  denied,        \* the opens that were denied
  handed,        \* denials handed to on_event
  calling,       \* whether the loop is inside on_event() or on_tick()
  homes,         \* home directories on disk
  trie, watched  \* prefixes in watched_paths, and in watched_prefixes

start == <<requested, hostNs, lsm, readable>>
kernel == <<ring, opens, denied, handed, calling>>
watches == <<homes, trie, watched>>
kvars == <<stage, start, cfg, tried, live, active, announced, kernel, watches>>

Programs == <<"exec", "commit_creds", "file_open", "path_chmod">>
LsmSensors == {"file_open", "path_chmod"}
Unset == [mode |-> "off", ns |-> 0]

EnforcementInit ==
  /\ stage = "loaded" /\ requested \in {"off", "audit", "on"}
  /\ hostNs \in {0, Host} /\ lsm \in BOOLEAN /\ readable \in BOOLEAN
  /\ cfg = Unset /\ tried = 0 /\ live = {} /\ active = {} /\ announced = "off"
  /\ ring = <<>> /\ opens = 0 /\ denied = <<>> /\ handed = 0 /\ calling = FALSE
  /\ homes \in SUBSET Homes /\ trie = {} /\ watched = {}

-----------------------------------------------------------------------------
(* Userspace. *)

(* run() returns: the links are dropped and the ring buffer with them.     *)
End ==
  /\ stage' = "ended" /\ live' = {} /\ ring' = <<>>
  /\ UNCHANGED <<start, cfg, tried, active, announced, opens, denied, handed, calling, watches>>

(* The prefixes that populate_watches() puts in the map: one that is too   *)
(* long is skipped, and is no error.                                       *)
Encoded(prefixes) == prefixes \ OverLong

(* Everything written before the first attach.  A full map, or no host     *)
(* namespace to enforce against, ends the start.                           *)
Configure ==
  LET all  == Prefixes(homes)
      fits == Cardinality(Encoded(all)) <= TrieRoom
  IN  /\ stage = "loaded"
      /\ \/ (~fits \/ (requested # "off" /\ hostNs = 0)) /\ End
         \/ /\ fits
            /\ requested = "off" \/ hostNs # 0
            /\ stage' = "attaching"
            /\ trie' = Encoded(all) /\ watched' = all
            /\ cfg' = [mode |-> requested, ns |-> hostNs]
            /\ UNCHANGED <<start, tried, live, active, announced, kernel, homes>>

(* attach!: a program that cannot attach is only missing.                  *)
Attach ==
  /\ stage = "attaching" /\ tried < Len(Programs)
  /\ tried' = tried + 1
  /\ \E ok \in BOOLEAN :
       /\ live' = live \cup (IF ok THEN {Programs[tried + 1]} ELSE {})
       /\ active' = live'
  /\ UNCHANGED <<stage, start, cfg, announced, kernel, watches>>

(* What counts as active once bpf_lsm_active() has answered.               *)
Invoked == IF readable /\ ~lsm THEN active \ LsmSensors ELSE active

(* The mode left after the check that the denying sensor is active.        *)
Armed == IF "file_open" \in Invoked THEN requested ELSE "off"

Arm ==
  /\ stage = "attaching" /\ tried = Len(Programs)
  /\ IF "exec" \notin Invoked THEN End
     ELSE /\ stage' = "running"
          /\ active' = Invoked
          /\ cfg' = [cfg EXCEPT !.mode = Armed]
          /\ announced' = Armed
          /\ UNCHANGED <<start, tried, live, kernel, watches>>

(* One record of rb.poll: on_event() is called with it.                    *)
Consume ==
  /\ stage = "running" /\ ~calling /\ ring # <<>>
  /\ ring' = Tail(ring)
  /\ handed' = handed + IF Head(ring) THEN 1 ELSE 0
  /\ calling' = TRUE
  /\ UNCHANGED <<stage, start, cfg, tried, live, active, announced, opens, denied, watches>>

(* rb.poll() returns once it finds no record left.                         *)
Polled == stage = "running" /\ ~calling /\ ring = <<>>

(* The heartbeat calls on_tick().                                          *)
Heartbeat ==
  /\ Polled /\ calling' = TRUE
  /\ UNCHANGED <<stage, start, cfg, tried, live, active, announced, ring, opens, denied, handed, watches>>

(* The call returns, or panics and is caught.  Both write to the agent's   *)
(* output and wait while its reader does not read.                         *)
Return ==
  /\ stage = "running" /\ calling /\ calling' = FALSE
  /\ UNCHANGED <<stage, start, cfg, tried, live, active, announced, ring, opens, denied, handed, watches>>

(* ctrl-c, or a poll that fails: whatever is still in the ring is left.    *)
Stop == stage = "running" /\ ~calling /\ End

(* Mutant: what is new is remembered and never put in the map.             *)
Refresh_MarksOnly ==
  /\ Polled /\ Prefixes(homes) \ watched # {}
  /\ watched' = Prefixes(homes)
  /\ UNCHANGED <<stage, start, cfg, tried, live, active, announced, kernel, homes, trie>>

(* The refresh every WATCH_REFRESH; populate_watches() stops at the first  *)
(* entry the trie refuses, and then none is remembered.                    *)
Refresh ==
  LET fresh == Prefixes(homes) \ watched
      full  == trie \cup Encoded(fresh)
  IN  /\ Polled /\ fresh # {}
      /\ \/ Cardinality(full) <= TrieRoom /\ trie' = full /\ watched' = watched \cup fresh
         \/ /\ Cardinality(full) > TrieRoom
            /\ trie' \in {t \in SUBSET full : trie \subseteq t /\ Cardinality(t) = TrieRoom}
            /\ UNCHANGED watched
      /\ UNCHANGED <<stage, start, cfg, tried, live, active, announced, kernel, homes>>

-----------------------------------------------------------------------------
(* The rest of the host. *)

(* Mutant: the task's namespace is not looked at.                          *)
Decision_AnyNs(ns, hatch) == IF hatch /\ cfg.ns # 0 THEN cfg.mode ELSE "off"

(* deny_decision() for a task in namespace ns, 0 where it is unreadable.   *)
Decision(ns, hatch) ==
  IF ~hatch \/ cfg.mode = "off" \/ cfg.ns = 0 \/ ns \in {0, cfg.ns} THEN "off" ELSE cfg.mode

(* An open as the program meets it: the direction, whether bpf_d_path names*)
(* it, whether its identity is an escape hatch, and the flags its path and *)
(* its identity are watched with ({}: not watched).                        *)
Opens == [write : BOOLEAN, named : BOOLEAN, hatch : BOOLEAN,
          byPath : SUBSET {"read", "write"}, byId : SUBSET {"read", "write"}]

IsHatch(o) == o.write /\ o.hatch

Watched(o) ==
  LET flags == IF o.byPath # {} THEN o.byPath ELSE o.byId
  IN  o.named /\ (IsHatch(o) \/ (IF o.write THEN "write" ELSE "read") \in flags)

(* Mutant: an open is denied though its record found no room.              *)
FileOpen_Unrecorded(ns, o) ==
  LET deny == Decision(ns, IsHatch(o)) = "on"
  IN  /\ "file_open" \in live /\ lsm /\ opens < MaxOpens
      /\ Watched(o)
      /\ opens' = opens + 1
      /\ ring' = IF Len(ring) = RingCap THEN ring ELSE Append(ring, deny)
      /\ denied' = IF deny THEN Append(denied, [ns |-> ns, hatch |-> o.hatch, write |-> o.write])
                   ELSE denied
      /\ UNCHANGED <<stage, start, cfg, tried, live, active, announced, handed, calling, watches>>
(* handle_file_open.  A record that finds no room is only a drop, and the  *)
(* open goes through; an open that matches nothing leaves no trace.        *)
FileOpen(ns, o) ==
  LET deny == Decision(ns, IsHatch(o)) = "on"
  IN  /\ "file_open" \in live /\ lsm /\ opens < MaxOpens
      /\ Watched(o)
      /\ opens' = opens + 1
      /\ IF Len(ring) = RingCap THEN UNCHANGED <<ring, denied>>
         ELSE /\ ring' = Append(ring, deny)
              /\ denied' = IF deny THEN Append(denied, [ns |-> ns, hatch |-> o.hatch, write |-> o.write]) ELSE denied
      /\ UNCHANGED <<stage, start, cfg, tried, live, active, announced, handed, calling, watches>>

NewHome ==
  /\ \E h \in Homes \ homes : homes' = homes \cup {h}
  /\ UNCHANGED <<stage, start, cfg, tried, live, active, announced, kernel, trie, watched>>

EnforcementNext ==
  \/ Configure \/ Attach \/ Arm \/ Consume \/ Heartbeat \/ Return \/ Stop \/ Refresh
  \/ \E ns \in Namespaces \cup {0}, o \in Opens : FileOpen(ns, o)
  \/ NewHome

(* The start waits for nobody.  The loop calls on_event() for a record that*)
(* is there, and refreshes when it is due each time rb.poll() returns; that*)
(* the calls return is not assumed.                                        *)
EnforcementFair == WF_kvars(Configure) /\ WF_kvars(Attach) /\ WF_kvars(Arm)
                   /\ WF_kvars(Consume) /\ SF_kvars(Refresh)

EnforcementSpec == EnforcementInit /\ [][EnforcementNext]_kvars /\ EnforcementFair

-----------------------------------------------------------------------------
(* Properties. *)

(* deny_decision() fails open: an open is denied only to a task known to be*)
(* in another mount namespace than the host's, only for a write to a hatch,*)
(* and only where denial was asked for -- also for the opens that arrive   *)
(* while the programs are still being attached.                            *)
DenialsJustified ==
  \A n \in DOMAIN denied :
    IsHatch(denied[n]) /\ denied[n].ns \notin {0, Host} /\ requested = "on"

(* A denial is recorded, once: until run() returns, the denied opens are   *)
(* exactly the EV_F_DENIED records that are in the ring or were handed to  *)
(* on_event().                                                             *)
DenialsRecorded ==
  stage # "ended" =>
    Len(denied) = handed + Cardinality({n \in DOMAIN ring : ring[n]})

(* What is remembered in watched_prefixes, and so never tried again, is in *)
(* the trie, also when an earlier refresh found it full; and as long as    *)
(* rb.poll() returns again and again, the keys of a home directory that    *)
(* appears while the agent runs are watched sooner or later, unless the    *)
(* trie fills up.  Prefixes too long for a key are left out of both.       *)
HomesWatched ==
  /\ [](Encoded(watched) \subseteq trie)
  /\ []<>(Polled \/ stage = "ended") =>
       \A p \in Encoded(Prefixes(Homes)) :
         (stage = "running" /\ p[1] \in homes)
           ~> (p \in trie \/ Cardinality(trie) = TrieRoom \/ stage = "ended")

=============================================================================
