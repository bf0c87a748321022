---------------------------- MODULE ScanAlgebra -----------------------------
(***************************************************************************)
(* What is computed from a scan, as operators: how the agent puts it       *)
(* together from its sub-collectors (internal/collector, internal/siem),   *)
(* and on the server the entries by which two scans differ                 *)
(* (db/postgres/diffs.go), the rules that compare a scan with the baseline *)
(* (anomaly/rules.go), and the picture of it in the graph database         *)
(* (db/graph/writer.go).                                                   *)
(*                                                                         *)
(* A machine, at one moment, is a record of                                *)
(*   units       systemd's services: a function from the name to the       *)
(*               states <<active, sub>>                                    *)
(*   sockets     its TCP sockets that listen and its UDP sockets: records  *)
(*               of file (1..4: tcp, tcp6, udp, udp6), port and inode      *)
(*   fds         a function from <<pid, fd>> to the inode of the socket    *)
(*               that the process has open there                           *)
(*   procs       a function from the pid to the process' name, exe, user   *)
(*               and status                                                *)
(*   interfaces  a function from the name to mac and isUp                  *)
(* The machine changes while it is scanned.  What is one moment is one     *)
(* call of the operating system: a list of services or interfaces, a file  *)
(* below /proc/net, a link in /proc/<pid>/fd, a single field of a process. *)
(* A reading r is what the calls of one Scan meet:                         *)
(*   moments     the machine at these, in some order                       *)
(*   services, interfaces   the moment each was listed at, Never if that   *)
(*               failed                                                    *)
(*   links       the entries of the fd directories, in the order they were *)
(*               followed: pid, fd, and at, the moment; Never if the link  *)
(*               or the directory could not be read                        *)
(*   files       for 1..4 the moment the file was read at, or Never        *)
(*   listed      whether the pids could be listed                          *)
(*   pids        those listed: pid, and at, for each field the moment it   *)
(*               was read, or Never                                        *)
(*   events      what the SIEM plugins returned                            *)
(* and a scan is a record of services, openPorts, processes and interfaces.*)
(* Lists whose keys are unique are functions from the key; processes are a *)
(* sequence, since several may run the same program.  Fields that neither  *)
(* a diff nor a rule nor the graph looks at are left out.                  *)
(***************************************************************************)
EXTENDS Integers, Sequences

Never == 0     \* no moment
NoInode == 0
Field == {"name", "exe", "user", "status"}
Empty == [x \in {} |-> x]

-----------------------------------------------------------------------------
(* The agent                                                               *)

MapSystemdState(active, sub) ==
  CASE active = "active" /\ sub = "running" -> "running"
    [] active = "failed"                    -> "failed"
    [] active = "inactive"                  -> "stopped"
    [] OTHER                                -> active

CollectServices(r) ==
  IF r.services = Never THEN Empty
  ELSE LET units == r.moments[r.services].units
       IN  [n \in DOMAIN units |-> MapSystemdState(units[n][1], units[n][2])]

CollectNetInterfaces(r) ==
  IF r.interfaces = Never THEN Empty ELSE r.moments[r.interfaces].interfaces

\* The socket a link leads to: none when it cannot be read, or is gone by then.
Target(r, link) ==
  IF link.at # Never /\ <<link.pid, link.fd>> \in DOMAIN r.moments[link.at].fds
  THEN r.moments[link.at].fds[<<link.pid, link.fd>>] ELSE NoInode

\* Of the processes that share a socket, the last one stays.
BuildInodeToPIDMap(r) ==
  LET to(i) == Target(r, r.links[i])
  IN  [n \in {to(i) : i \in DOMAIN r.links} \ {NoInode} |->
         r.links[CHOOSE i \in DOMAIN r.links :
                   to(i) = n /\ \A j \in DOMAIN r.links : to(j) = n => j <= i].pid]

\* What a file below /proc/net says; one that cannot be read is skipped.
ParseProcNetFile(r, file) ==
  IF r.files[file] = Never THEN {}
  ELSE {s \in r.moments[r.files[file]].sockets : s.file = file}

\* The map is keyed by the port's number alone, and the files are read in order.
BuildPortToPIDMap(r) ==
  LET inodeToPID == BuildInodeToPIDMap(r)
      owned == {s \in UNION {ParseProcNetFile(r, file) : file \in 1..4} : s.inode \in DOMAIN inodeToPID}
  IN  [p \in {s.port : s \in owned} |->
         inodeToPID[(CHOOSE s \in owned :
                       s.port = p /\ \A t \in owned : t.port = p => t.file <= s.file).inode]]

\* A field of a process, read on its own: what cannot be read is left blank.
Unread(r, e, field) ==
  e.at[field] = Never \/ e.pid \notin DOMAIN r.moments[e.at[field]].procs
Blank(field) == IF field = "status" THEN "unknown" ELSE ""
FieldOf(r, e, field) ==
  IF Unread(r, e, field) THEN Blank(field) ELSE r.moments[e.at[field]].procs[e.pid][field]

CollectProcess(r, e) ==
  [pid |-> e.pid, name |-> FieldOf(r, e, "name"), exe |-> FieldOf(r, e, "exe"),
   user |-> FieldOf(r, e, "user"), status |-> FieldOf(r, e, "status")]

CollectProcesses(r) ==
  IF r.listed THEN [i \in DOMAIN r.pids |-> CollectProcess(r, r.pids[i])] ELSE <<>>

NameOf(procs, pid) ==
  IF \E i \in DOMAIN procs : procs[i].pid = pid
  THEN procs[CHOOSE i \in DOMAIN procs : procs[i].pid = pid].name ELSE ""

\* One function for both: without a list of processes there are no ports either.  An
\* owner may be gone when the processes are listed; every port is called tcp, and none
\* has an address.
CollectPorts(r) ==
  LET portToPID == IF r.listed THEN BuildPortToPIDMap(r) ELSE Empty
  IN  [p \in DOMAIN portToPID |->
         [pid |-> portToPID[p], process |-> NameOf(CollectProcesses(r), portToPID[p]), bind |-> ""]]

\* What a SIEM reports of a process, by the fields kept.
AssetEvent == [pid : Int, name : STRING, user : STRING]

\* One event of a SIEM overlays the user of the first process with its pid; without
\* one, an event that has a pid adds a process.
MergeEvent(procs, ev) ==
  LET same == {i \in DOMAIN procs : procs[i].pid = ev.pid}
      i == CHOOSE i \in same : \A j \in same : i <= j
  IN  IF same # {} THEN [procs EXCEPT ![i].user = IF ev.user = "" THEN @ ELSE ev.user]
      ELSE IF ev.pid > 0
           THEN Append(procs, [pid |-> ev.pid, name |-> ev.name, exe |-> "",
                               user |-> ev.user, status |-> "siem_reported"])
           ELSE procs

\* The events of all plugins, one after the other: after[i] is what i of them leave.
MergeAssetEvents(procs, events) ==
  LET after[i \in 0..Len(events)] ==
        IF i = 0 THEN procs ELSE MergeEvent(after[i - 1], events[i])
  IN  after[Len(events)]

ScanOf(r) ==
  [services   |-> CollectServices(r),
   interfaces |-> CollectNetInterfaces(r),
   openPorts  |-> CollectPorts(r),
   processes  |-> MergeAssetEvents(CollectProcesses(r), r.events)]

-----------------------------------------------------------------------------
(* Differences between two scans                                           *)

ProcessKey(p) == <<p.name, p.exe>>

\* Of the processes with one key, the map keeps the last.
ByKey(procs) ==
  [k \in {ProcessKey(procs[i]) : i \in DOMAIN procs} |->
     procs[CHOOSE i \in DOMAIN procs :
             /\ ProcessKey(procs[i]) = k
             /\ \A j \in DOMAIN procs : ProcessKey(procs[j]) = k => j <= i]]

SameService(a, b) == a = b
SamePort(a, b) == a.bind = b.bind /\ a.process = b.process
SameProcess(a, b) == a.status = b.status /\ a.user = b.user
SameInterface(a, b) == a.mac = b.mac /\ a.isUp = b.isUp

Entry(type, k, op, new) == [type |-> type, key |-> k, op |-> op, new |-> new]

GenericDiff(type, old, nw, Same(_, _)) ==
  {Entry(type, k, "removed", <<>>) : k \in DOMAIN old \ DOMAIN nw}
  \cup {Entry(type, k, "modified", nw[k]) : k \in {k \in DOMAIN old \cap DOMAIN nw : ~Same(old[k], nw[k])}}
  \cup {Entry(type, k, "added", nw[k]) : k \in DOMAIN nw \ DOMAIN old}

ComputeDiffs(prev, next) ==
  GenericDiff("service", prev.services, next.services, SameService)
  \cup GenericDiff("port", prev.openPorts, next.openPorts, SamePort)
  \cup GenericDiff("process", ByKey(prev.processes), ByKey(next.processes), SameProcess)
  \cup GenericDiff("interface", prev.interfaces, next.interfaces, SameInterface)

-----------------------------------------------------------------------------
(* Rules: each yields the keys it finds in scan s against baseline b.      *)

PortBindChange(b, s) ==
  {p \in DOMAIN s.openPorts \cap DOMAIN b.openPorts : b.openPorts[p].bind # s.openPorts[p].bind}

UnknownPort(b, s) == DOMAIN s.openPorts \ DOMAIN b.openPorts

\* Mutant of ServiceCrashed: a service that is not listed counts as crashed.
ServiceMissing(b, s) ==
  {n \in DOMAIN b.services : b.services[n] = "running"
                             /\ (n \in DOMAIN s.services => s.services[n] = "failed")}

ServiceCrashed(b, s) ==
  {n \in DOMAIN b.services \cap DOMAIN s.services :
     b.services[n] = "running" /\ s.services[n] = "failed"}

NewService(b, s) == DOMAIN s.services \ DOMAIN b.services

\* Mutant of UnknownProcess: of the processes with one key the last one decides.
UnknownLastProcess(b, s) ==
  {k \in DOMAIN ByKey(s.processes) \ DOMAIN ByKey(b.processes) : ByKey(s.processes)[k].user = "root"}

\* Only processes of root.
UnknownProcess(b, s) ==
  {ProcessKey(s.processes[i]) : i \in {i \in DOMAIN s.processes : s.processes[i].user = "root"}}
  \ DOMAIN ByKey(b.processes)

Findings(b, s) ==
  ({"PORT_BIND_CHANGE"} \X PortBindChange(b, s)) \cup ({"UNKNOWN_PORT"} \X UnknownPort(b, s))
  \cup ({"SERVICE_CRASHED"} \X ServiceCrashed(b, s)) \cup ({"NEW_SERVICE"} \X NewService(b, s))
  \cup ({"UNKNOWN_PROCESS"} \X UnknownProcess(b, s))

-----------------------------------------------------------------------------
(* The host's subgraph that UpsertScan creates: a node for each service and *)
(* each process, and a port below the process that owns it; a port whose   *)
(* owner is not listed gets no node.                                       *)
NoGraph == [services |-> {}, processes |-> {}, listens |-> {}]
GraphOf(s) ==
  LET nodes == {[pid |-> s.processes[i].pid, key |-> ProcessKey(s.processes[i])] : i \in DOMAIN s.processes}
  IN  [services  |-> {<<n, s.services[n]>> : n \in DOMAIN s.services},
       processes |-> nodes,
       listens   |-> {pn \in nodes \X DOMAIN s.openPorts : s.openPorts[pn[2]].pid = pn[1].pid}]

=============================================================================
