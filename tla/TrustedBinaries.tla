-------------------------- MODULE TrustedBinaries --------------------------
(***************************************************************************)
(* The table of trusted system binaries (src/src/fileid.rs): programs are  *)
(* recognised by the identity of the file they run, device and inode, and  *)
(* the identity of a program is learned again when its file was replaced.  *)
(*                                                                         *)
(* A file of the host is [fs |-> "host", at, n]: the n-th file installed at*)
(* a canonical path.  <<at, n>> is its inode number, so no two files of the*)
(* host share one; a file of a container's image, with fs |-> "image", may *)
(* have the number of a host file.  `disk` maps a canonical path to the    *)
(* file that is there, or NoFile.  A table is a record of names by identity*)
(* and by path.                                                            *)
(***************************************************************************)
EXTENDS Integers, Sequences, FiniteSetsExt

CONSTANTS
  RealPath,      \* path -> the path it resolves to
  Subvolumes,    \* canonical paths at which stat and the kernel name different
                 \* devices (btrfs)
  NoFile

Unnamed == ""                            \* None of an Option<(name, role)>
Unknown == [dev |-> "none", ino |-> <<"", 0>>]

-----------------------------------------------------------------------------
(* The built-in entries, of which one credential reader and one daemon     *)
(* stand for all: one is listed at a path that usr-merged hosts resolve to *)
(* another, one may be installed twice.                                    *)

CredentialReaders ==
  <<[name |-> "unix_chkpwd", role |-> "CredentialReader",
     paths |-> {"/usr/sbin/unix_chkpwd"}]>>

NetworkDaemons ==
  <<[name |-> "nginx", role |-> "NetworkDaemon",
     paths |-> {"/usr/sbin/nginx", "/usr/local/nginx/sbin/nginx"}]>>

Table == CredentialReaders \o NetworkDaemons

HasRole(name, role) ==
  \E i \in DOMAIN Table : Table[i].name = name /\ Table[i].role = role

-----------------------------------------------------------------------------
(* Identities. *)

Resolved(disk, path) == IF path \in DOMAIN RealPath THEN disk[RealPath[path]] ELSE NoFile

Inode(f) == <<f.at, f.n>>

(* What the kernel reports for a file, and what FileId::of makes of its    *)
(* stat.                                                                   *)
KernelId(f) == [dev |-> IF f.fs = "host" THEN "superblock" ELSE "overlay", ino |-> Inode(f)]

StatId(f) ==
  IF f.fs = "host" /\ f.at \in Subvolumes THEN [dev |-> "subvolume", ino |-> Inode(f)]
  ELSE KernelId(f)

(* resolve_host(): of entries with one identity the first counts, of       *)
(* entries with one path the last.  Paths that do not exist are skipped.   *)
ResolveHost(disk) ==
  LET found(i) == {p \in Table[i].paths : Resolved(disk, p) # NoFile}
      ids(i) == {StatId(Resolved(disk, p)) : p \in found(i)}
      names(i) == found(i) \cup {RealPath[p] : p \in found(i)}
      where(keys(_), x) == {i \in DOMAIN Table : x \in keys(i)}
  IN  [byId |-> [id \in UNION {ids(i) : i \in DOMAIN Table} |->
                   Table[Min(where(ids, id))].name],
       byPath |-> [p \in UNION {names(i) : i \in DOMAIN Table} |->
                     Table[Max(where(names, p))].name]]

Lookup(table, id) ==
  IF id # Unknown /\ id \in DOMAIN table.byId THEN table.byId[id] ELSE Unnamed

(* bind(): the program of a tracked path has this identity and no other.   *)
Bind(table, path, id) ==
  LET name == table.byPath[path]
      kept == {i \in DOMAIN table.byId : table.byId[i] # name}
  IN  [table EXCEPT !.byId = [i \in kept \cup {id} |-> IF i = id THEN name ELSE @[i]]]

(* Mutant: whatever ran under a tracked path is what is at that path.      *)
RebindFromKernel_AnyInode(table, disk, path, seen) ==
  IF seen = Unknown \/ Resolved(disk, path) = NoFile THEN table
  ELSE Bind(table, path, seen)

(* rebind_from_kernel() for a tracked path: the identity an exec was seen  *)
(* with is learned if the file at the path has the same inode number; the  *)
(* devices are not compared.                                               *)
RebindFromKernel(table, disk, path, seen) ==
  LET onDisk == Resolved(disk, path)
  IN  IF seen = Unknown \/ onDisk = NoFile THEN table
      ELSE IF Inode(onDisk) # seen.ino THEN table
      ELSE Bind(table, path, seen)

(* Mutant: the table is read once, at startup.                             *)
ResolveTrust_Once(table, disk, type, path, id) ==
  [table |-> table, name |-> Lookup(table, id)]

(* Event::resolve_trust: the table it leaves and the name it finds.        *)
ResolveTrust(table, disk, type, path, id) ==
  LET known == Lookup(table, id)
      again == RebindFromKernel(table, disk, path, id)
  IN  IF known # Unnamed \/ type # "Exec" \/ path \notin DOMAIN table.byPath
      THEN [table |-> table, name |-> known]
      ELSE [table |-> again, name |-> Lookup(again, id)]

=============================================================================
