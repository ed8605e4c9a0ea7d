----------------------------- MODULE Detectors -----------------------------
(***************************************************************************)
(* The built-in detections (src/src/detect/detectors.rs): the signals one  *)
(* event raises, given the process graph with the event already applied.   *)
(*                                                                         *)
(* What the detectors read of an event beyond the fields the graph reads   *)
(* is a record d, whose fields depend on the event's type:                 *)
(*   FileOpen    write, target (escape_target), name                       *)
(*   CredChange  uid, from and to (old and new euid), caps (a dangerous    *)
(*               capability is gained)                                     *)
(*   Ptrace      attach, pid (target_pid)                                  *)
(*   Exec        ns (mnt_ns), volatile (in a world-writable directory),    *)
(*               program ("shell", "interpreter" or "other"), socket       *)
(* A file's name is the set of the marks the code looks for that it has.   *)
(* The other types have no more fields.                                    *)
(***************************************************************************)
EXTENDS ProcessGraph, Sequences, TrustedBinaries

CONSTANTS
  DaemonComms,   \* command names that begin like the name of a daemon
  KernelComms,   \* kthreadd and the names of kworkers
  HostNs         \* the host's mount namespace, 0 if it is not known

ASSUME DetectorConstants ==
  DaemonComms \cup KernelComms \subseteq Comms /\ HostNs \in Nat

Signal(id, score) == {[id |-> id, score |-> score]}

TrustedAs(g, key, role) == key \in DOMAIN g.nodes /\ HasRole(g.nodes[key].trusted, role)

(* The processes a walk of the lineage meets, the process itself included. *)
Walked(g, key) == LET walk == Ancestry(g, key) IN {walk[i] : i \in DOMAIN walk}

-----------------------------------------------------------------------------

SuidCreate == Signal("suid_create", 45)
FilelessExec == Signal("fileless_exec", 45)
Setcap == Signal("setcap", 40)

PrivilegeEscalation(d) ==
  IF d.uid # 0 /\ ((d.from # 0 /\ d.to = 0) \/ d.caps)
  THEN Signal("privilege_escalation", 40) ELSE {}

(* Reading a process of one's own lineage is no theft.                     *)
Ptrace(g, key, d) ==
  IF d.attach THEN Signal("ptrace_attach", 30)
  ELSE IF \E k \in Walked(g, key) : k.pid = d.pid THEN {}
  ELSE Signal("cross_uid_proc_read", 25)

(* Mutant: a name excuses.                                                 *)
CredentialRead_ByName(g, key, d) ==
  IF TrustedAs(g, key, "CredentialReader")
     \/ (key \in DOMAIN g.nodes /\ g.nodes[key].comm \in DaemonComms) THEN {}
  ELSE Signal("credential_store_read", 30)

CredentialRead(g, key, d) ==
  IF TrustedAs(g, key, "CredentialReader") THEN {}
  ELSE IF "private_key" \in d.name THEN Signal("ssh_private_key_read", 35)
  ELSE Signal("credential_store_read", 30)

(* The first that fits, in this order.                                     *)
WriteKinds ==
  <<[mark |-> "preload", id |-> "ldso_preload_write", score |-> 40],
    [mark |-> "authorized_keys", id |-> "authorized_keys_write", score |-> 35],
    [mark |-> "at_login", id |-> "persistence_write", score |-> 30],
    [mark |-> "cred_config", id |-> "cred_config_write", score |-> 35]>>

SensitiveWrite(ev, d) ==
  LET fits == {i \in DOMAIN WriteKinds : WriteKinds[i].mark \in d.name}
      kind == WriteKinds[Min(fits)]
  IN  IF d.target \/ "hatch" \in d.name
      THEN Signal("kernel_escape_hatch_write", IF ev.container = Empty THEN 45 ELSE 75)
      ELSE IF fits # {} THEN Signal(kind.id, kind.score)
      ELSE Signal("sensitive_write", 20)

ModuleLoad(g, key) ==
  IF \E k \in Walked(g, key) : g.nodes[k].comm \in KernelComms
  THEN Signal("module_autoload", 10) ELSE Signal("module_load", 50)

NamespaceEscape(ev, d) ==
  IF HostNs # 0 /\ ev.container # Empty /\ d.ns = HostNs
  THEN Signal("namespace_escape", 70) ELSE {}

ExecFromSuspiciousDir(d) == IF d.volatile THEN Signal("exec_from_tmp", 20) ELSE {}

(* A name is enough here: it can only raise the signal.                    *)
ShellFromNetworkDaemon(g, key, d) ==
  LET daemon(k) == HasRole(g.nodes[k].trusted, "NetworkDaemon")
                   \/ g.nodes[k].comm \in DaemonComms
  IN  IF d.program = "other" \/ ~\E k \in Walked(g, key) : daemon(k) THEN {}
      ELSE IF d.program = "shell" THEN Signal("shell_from_network_daemon", 50)
      ELSE Signal("interpreter_from_network_daemon", 25)

SocketBackedShell(d) ==
  IF d.socket /\ d.program = "shell" THEN Signal("socket_backed_shell", 70) ELSE {}

UnexpectedListener(g, key) ==
  IF TrustedAs(g, key, "NetworkDaemon") THEN {} ELSE Signal("unexpected_listener", 25)

PrivilegedSocket(ev) ==
  Signal("runtime_socket_access", IF ev.container = Empty THEN 25 ELSE 60)

Detect(g, ev, d) ==
  CASE ev.type = "FileMode" -> SuidCreate
    [] ev.type = "ExecAnon" -> FilelessExec
    [] ev.type = "Setcap" -> Setcap
    [] ev.type = "CredChange" -> PrivilegeEscalation(d)
    [] ev.type = "Ptrace" -> Ptrace(g, ev.key, d)
    [] ev.type = "FileOpen" ->
         IF d.write THEN SensitiveWrite(ev, d) ELSE CredentialRead(g, ev.key, d)
    [] ev.type = "Module" -> ModuleLoad(g, ev.key)
    [] ev.type = "SockConnect" -> PrivilegedSocket(ev)
    [] ev.type = "SockListen" -> UnexpectedListener(g, ev.key)
    [] ev.type = "Exec" ->
         UNION {NamespaceEscape(ev, d), ExecFromSuspiciousDir(d),
                ShellFromNetworkDaemon(g, ev.key, d), SocketBackedShell(d)}
    [] OTHER -> {}

=============================================================================
