---------------------------- MODULE MCDetection ----------------------------
EXTENDS Detection, TLC

MCParent == [pid |-> 1, start |-> 0]
MCChild == [pid |-> 2, start |-> 0]

(* A usr-merged host.                                                      *)
MCRealPath ==
  [p \in {"/usr/sbin/unix_chkpwd", "/usr/bin/unix_chkpwd"} |-> "/usr/bin/unix_chkpwd"] @@
  [p \in {"/usr/sbin/nginx", "/usr/bin/nginx"} |-> "/usr/bin/nginx"] @@
  [p \in {"/usr/local/nginx/sbin/nginx", "/usr/bin/sh"} |-> p]

(* A number no file of the host has, and that of the credential reader.    *)
MCImageInodes == {<<"image", 0>>, <<"/usr/bin/unix_chkpwd", 0>>}

ReadOf(name) == [type |-> "FileOpen", d |-> [write |-> FALSE, target |-> FALSE, name |-> name]]
Listen == [type |-> "SockListen", d |-> [attach |-> FALSE]]

MCActs == {ReadOf({}), Listen}

(* The shapes whose detection reads the graph.                             *)
MCShapes ==
  {ReadOf({}), ReadOf({"private_key"}), Listen} \cup
  [type : {"Ptrace"}, d : [attach : {FALSE}, pid : {1, 3}]] \cup
  [type : {"Exec"}, d : [ns : {1}, volatile : {TRUE}, socket : {TRUE},
                         program : {"shell", "interpreter"}]]

Seen(type, d, ts, path) ==
  [ev |-> [type |-> type, key |-> MCChild, child |-> NoKey, ts |-> ts, comm |-> "sh",
           trusted |-> Empty, container |-> Empty], d |-> d, path |-> path]
Ran(ts) == Seen("Exec", ExecDetail("/usr/bin/sh"), ts, "/usr/bin/sh")
Read(ts) == Seen("FileOpen", ReadOf({}).d, ts, Empty)

(* An incident about a shell that read the credential store.               *)
Incident(ts) ==
  [id |-> ts, exe |-> "/usr/bin/sh", signals |-> <<[id |-> "credential_store_read", ts |-> ts]>>]

(* Nothing; a shell that reads the credential store all along, or in a     *)
(* burst; a reader whose exec is not in the capture; one incident marked   *)
(* three times, two of which one was marked twice, and three that were     *)
(* marked once.                                                            *)
Often == <<Ran(1), Read(1), Read(2), Read(3)>>
MCHistories ==
  [from : {"capture"}, seen : {Often}, age : {0, 30, 90}] \cup
  [from : {"v1"}, seen : {Often}, age : {120}] \cup
  [from : {"capture"}, age : {0},
   seen : {<<Ran(1), Read(2), Read(2), Read(2), Ran(3)>>, <<Read(1), Read(2), Read(3)>>}] \cup
  [from : {"panel"}, age : {0},
   seen : {<<>>, <<Incident(1), Incident(1), Incident(1)>>,
           <<Incident(1), Incident(2), Incident(1)>>,
           <<Incident(1), Incident(2), Incident(3)>>}]
=============================================================================
