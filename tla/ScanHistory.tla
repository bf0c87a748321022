---------------------------- MODULE ScanHistory -----------------------------
(***************************************************************************)
(* The contents of one host's scans on their way through the server: each  *)
(* scan becomes a snapshot and the entries by which it differs from the    *)
(* latest one (pg_writer.go), and the host's subgraph (graph_writer.go).   *)
(* Both workers handle scans one at a time, but any scan may come late     *)
(* (the agent had it in its cache), and any may come again                 *)
(* (ConsumerGroup).  HostRecords has the overlap of several writers, and   *)
(* baselines; here is what the records say.                                *)
(*                                                                         *)
(* A scan is its index: scans are numbered by captured_at, and its content *)
(* is ScanOf of what the agent's sub-collectors read.                      *)
(***************************************************************************)
EXTENDS ScanAlgebra

CONSTANTS
  Reading,   \* what one call of Scan may meet (see ScanOf)
  MaxScans   \* bound: scans captured

ASSUME HistoryAssumption == MaxScans \in Nat

\* Calls are made at moments of the scan, in no order that matters here.  A directory
\* lists what is in it all the while: a process, or a descriptor, that is there at all
\* moments of the scan has its entry.
IsReading(r) ==
  /\ LET M == DOMAIN r.moments IN
       /\ 1 \in M
       /\ \A m \in M : \A p \in DOMAIN r.moments[m].procs :
            p \in Int /\ r.moments[m].procs[p] \in [Field -> STRING]
       /\ r.services \in M \cup {Never} /\ r.interfaces \in M \cup {Never}
       /\ r.files \in [1..4 -> M \cup {Never}]
       /\ r.links \in Seq([pid : Int, fd : Nat, at : M \cup {Never}])
       /\ r.pids \in Seq([pid : Int, at : [Field -> M \cup {Never}]])
       /\ \A h \in DOMAIN r.moments[1].fds :
            (\A m \in M : h \in DOMAIN r.moments[m].fds) =>
              \E i \in DOMAIN r.links : <<r.links[i].pid, r.links[i].fd>> = h
       /\ \A p \in DOMAIN r.moments[1].procs :
            r.listed /\ (\A m \in M : p \in DOMAIN r.moments[m].procs) =>
              \E i \in DOMAIN r.pids : r.pids[i].pid = p
  /\ r.events \in Seq(AssetEvent)

ASSUME ReadingAssumption == \A r \in Reading : IsReading(r)

None == 0

VARIABLES
  readings,   \* the readings of the scans captured so far, in order
  snapshots,  \* the scans in host_snapshots
  writer,     \* pg-writer: the scan in hand and the latest snapshot it has read
  stored,     \* pg-writer: the snapshot of the scan in hand is inserted
  replayed,   \* what the entries in config_diffs make of the first snapshot
  complete,   \* pg-writer: no scan was late, and no handler broke off before its diffs
  graph,      \* the host's subgraph
  graphed     \* the scan it was last replaced from

pgVars == <<snapshots, writer, stored, replayed, complete>>
graphVars == <<graph, graphed>>
vars == <<readings, pgVars, graphVars>>

Idle == [scan |-> None, prev |-> None]
Captured == 1..Len(readings)
ContentOf == [r \in Reading |-> ScanOf(r)]
Scan(i) == ContentOf[readings[i]]

\* ORDER BY captured_at DESC LIMIT 1
Latest == IF snapshots = {} THEN None ELSE CHOOSE s \in snapshots : \A t \in snapshots : t <= s

\* What the diffs keep track of in a scan: of each service, port, process and
\* interface the part that is compared.
Tracked(type, v) ==
  CASE type = "service"   -> <<v>>
    [] type = "port"      -> <<v.bind, v.process>>
    [] type = "process"   -> <<v.status, v.user>>
    [] type = "interface" -> <<v.mac, v.isUp>>

Section(type, s) ==
  CASE type = "service"   -> s.services
    [] type = "port"      -> s.openPorts
    [] type = "process"   -> ByKey(s.processes)
    [] type = "interface" -> s.interfaces

Types == {"service", "port", "process", "interface"}

\* A view is a function from each type to a function from the keys to these parts.
ViewOf(s) == [ty \in Types |->
  [k \in DOMAIN Section(ty, s) |-> Tracked(ty, Section(ty, s)[k])]]

\* Entries of one type applied to what is tracked of it, and entries to a view.
ReplayType(ty, tracked, entries) ==
  LET put     == {e \in entries : e.op # "removed"}
      removed == {e.key : e \in entries \ put}
  IN  [k \in (DOMAIN tracked \ removed) \cup {e.key : e \in put} |->
         IF \E e \in put : e.key = k THEN Tracked(ty, (CHOOSE e \in put : e.key = k).new)
         ELSE tracked[k]]

Replay(view, entries) ==
  [ty \in Types |-> ReplayType(ty, view[ty], {e \in entries : e.type = ty})]

NoView == [ty \in Types |-> Empty]

-----------------------------------------------------------------------------
\* The agent scans its host.
Capture ==
  /\ Len(readings) < MaxScans
  /\ \E r \in Reading : readings' = Append(readings, r)
  /\ UNCHANGED <<pgVars, graphVars>>

\* handle: the latest snapshot is read for the comparison.
Take ==
  /\ writer = Idle
  /\ \E i \in Captured : writer' = [scan |-> i, prev |-> Latest]
  /\ UNCHANGED <<readings, snapshots, stored, replayed, complete, graphVars>>

InsertSnapshot ==
  /\ writer # Idle /\ ~stored
  /\ snapshots' = snapshots \cup {writer.scan} /\ stored' = TRUE
  /\ UNCHANGED <<readings, writer, replayed, complete, graphVars>>

\* Mutant of StoreDiffs: the previous scan is the one before it, not what was read.
StoreDiffsToPredecessor ==
  /\ stored
  /\ replayed' = IF writer.prev = None THEN ViewOf(Scan(writer.scan))
                 ELSE Replay(replayed, ComputeDiffs(Scan(IF writer.scan = 1 THEN 1 ELSE writer.scan - 1),
                                                    Scan(writer.scan)))
  /\ complete' = (complete /\ writer.prev <= writer.scan)
  /\ writer' = Idle /\ stored' = FALSE
  /\ UNCHANGED <<readings, snapshots, graphVars>>

\* One batch.  There is nothing to compare the first scan with.
StoreDiffs ==
  /\ stored
  /\ replayed' = IF writer.prev = None THEN ViewOf(Scan(writer.scan))
                 ELSE Replay(replayed, ComputeDiffs(Scan(writer.prev), Scan(writer.scan)))
  /\ complete' = (complete /\ writer.prev <= writer.scan)
  /\ writer' = Idle /\ stored' = FALSE
  /\ UNCHANGED <<readings, snapshots, graphVars>>

\* Mutant of Break: the next scan is taken for one whose snapshot exists.
BreakKeepsStored ==
  /\ writer # Idle
  /\ complete' = (complete /\ ~stored)
  /\ writer' = Idle
  /\ UNCHANGED <<readings, snapshots, stored, replayed, graphVars>>

\* A statement fails or the process dies: the scan will come again, or not.  Once
\* the snapshot is there, it is compared with itself when it does.
Break ==
  /\ writer # Idle
  /\ complete' = (complete /\ ~stored)
  /\ writer' = Idle /\ stored' = FALSE
  /\ UNCHANGED <<readings, snapshots, replayed, graphVars>>

\* Mutant of UpsertScan: what was there before is not deleted.
UpsertWithoutDelete(i) ==
  /\ graph' = LET g == GraphOf(Scan(i))
              IN  [services  |-> graph.services \cup g.services,
                   processes |-> graph.processes \cup g.processes,
                   listens   |-> graph.listens \cup g.listens]
  /\ graphed' = i
  /\ UNCHANGED <<readings, pgVars>>

\* One transaction: delete and create again.  When it fails the graph stays as it
\* was, and so does its scan.
UpsertScan(i) ==
  /\ graph' = GraphOf(Scan(i)) /\ graphed' = i
  /\ UNCHANGED <<readings, pgVars>>

-----------------------------------------------------------------------------
Init ==
  /\ readings = <<>>
  /\ snapshots = {} /\ writer = Idle /\ stored = FALSE
  /\ replayed = NoView /\ complete = TRUE
  /\ graph = NoGraph /\ graphed = None

Next ==
  \/ Capture \/ Take \/ InsertSnapshot \/ StoreDiffs \/ Break
  \/ \E i \in Captured : UpsertScan(i)

Spec == Init /\ [][Next]_vars

-----------------------------------------------------------------------------
\* Every variable has its type; the writer has a scan whose snapshot exists from
\* its insertion on.
TypeOK ==
  /\ readings \in Seq(Reading) /\ Len(readings) <= MaxScans
  /\ snapshots \subseteq Captured
  /\ writer \in [scan : Captured \cup {None}, prev : snapshots \cup {None}]
  /\ stored \in BOOLEAN /\ (stored => writer.scan \in snapshots)
  /\ complete \in BOOLEAN /\ graphed \in Captured \cup {None}
  /\ DOMAIN replayed = Types

\* While scans are handled in the order they were captured and none breaks off
\* between its snapshot and its diffs, whoever applies the stored entries to the
\* first snapshot sees what the latest one says, redelivered scans included.
HistoryReplays ==
  complete /\ snapshots # {} /\ ~stored => replayed = ViewOf(Scan(Latest))

\* What the two databases say of a host agrees when both have handled its latest
\* scan: the services in the graph are those of the replayed history, and so are
\* the programs that run; and a port is in the graph when its owner was listed.
GraphAgrees ==
  complete /\ ~stored /\ snapshots # {} /\ graphed = Latest =>
    /\ graph.services = {<<n, replayed["service"][n][1]>> : n \in DOMAIN replayed["service"]}
    /\ {p.key : p \in graph.processes} = DOMAIN replayed["process"]
    /\ \A p \in DOMAIN replayed["port"] :
         (\E l \in graph.listens : l[2] = p) <=>
         \E n \in graph.processes : n.pid = Scan(graphed).openPorts[p].pid

-----------------------------------------------------------------------------
(* Findings against the truth: the newest scan, and any scan as baseline.  *)

Newest == Len(readings)

\* What a finding reports, and what it takes not to have been so in the baseline.
Rules == {"UNKNOWN_PORT", "NEW_SERVICE", "SERVICE_CRASHED", "UNKNOWN_PROCESS"}
Reported(rule) ==
  CASE rule = "UNKNOWN_PORT"    -> "port"   [] rule = "NEW_SERVICE"     -> "service"
    [] rule = "SERVICE_CRASHED" -> "failed" [] rule = "UNKNOWN_PROCESS" -> "root"
Known(rule) == IF rule = "UNKNOWN_PROCESS" THEN "program" ELSE Reported(rule)

\* x was so at some moment of reading r.  Of a port, the socket and a process that had
\* it open, be it at different moments.  Of a program, each field of one pid by itself:
\* it was so at some moment, or could not be read and is blank.
SomeField(r, e, field, v) ==
  \/ Unread(r, e, field) /\ v = Blank(field)
  \/ \E m \in DOMAIN r.moments : e.pid \in DOMAIN r.moments[m].procs
                                 /\ r.moments[m].procs[e.pid][field] = v

Glimpsed(what, x, r) ==
  CASE what = "port"    -> \E m, n \in DOMAIN r.moments : \E s \in r.moments[m].sockets :
                             s.port = x /\ \E h \in DOMAIN r.moments[n].fds : r.moments[n].fds[h] = s.inode
    [] what = "service" -> \E m \in DOMAIN r.moments : x \in DOMAIN r.moments[m].units
    [] what = "failed"  -> \E m \in DOMAIN r.moments : x \in DOMAIN r.moments[m].units
                                                       /\ r.moments[m].units[x][1] = "failed"
    [] what \in {"program", "root"} ->
         \E i \in DOMAIN r.pids : /\ SomeField(r, r.pids[i], "name", x[1])
                                  /\ SomeField(r, r.pids[i], "exe", x[2])
                                  /\ what = "root" => SomeField(r, r.pids[i], "user", "root")

\* x was so at every moment of reading r, and no call that would have shown it failed:
\* the list, the file below /proc/net, the link of one descriptor that was open on the
\* socket all the while.  (A field that cannot be read at all counts as blank.)
EachField(r, p, field, v) ==
  \A i \in DOMAIN r.pids : r.pids[i].pid = p =>
    IF r.pids[i].at[field] = Never THEN v = Blank(field)
    ELSE \A m \in DOMAIN r.moments : r.moments[m].procs[p][field] = v

InSight(what, x, r) ==
  CASE what = "port" ->
         /\ r.listed
         /\ \E s \in r.moments[1].sockets :
              /\ s.port = x /\ s.inode # NoInode /\ s.file \in 1..4 /\ r.files[s.file] # Never
              /\ \A m \in DOMAIN r.moments : s \in r.moments[m].sockets
              /\ \E h \in DOMAIN r.moments[1].fds :
                   /\ \A m \in DOMAIN r.moments : /\ h \in DOMAIN r.moments[m].fds
                                                  /\ r.moments[m].fds[h] = s.inode
                   /\ \A i \in DOMAIN r.links : <<r.links[i].pid, r.links[i].fd>> = h => r.links[i].at # Never
    [] what = "service" -> /\ r.services # Never
                           /\ \A m \in DOMAIN r.moments : x \in DOMAIN r.moments[m].units
    [] what = "failed"  -> /\ r.services # Never
                           /\ \A m \in DOMAIN r.moments : x \in DOMAIN r.moments[m].units
                                                          /\ r.moments[m].units[x][1] = "failed"
    [] what \in {"program", "root"} ->
         /\ r.listed
         /\ \E p \in DOMAIN r.moments[1].procs :
              /\ \A m \in DOMAIN r.moments : p \in DOMAIN r.moments[m].procs
              /\ EachField(r, p, "name", x[1]) /\ EachField(r, p, "exe", x[2])
              /\ what = "root" => EachField(r, p, "user", "root")

\* What could be in sight.
Subjects(r) ==
  LET m == r.moments[1] IN
  ({"UNKNOWN_PORT"} \X {s.port : s \in m.sockets})
  \cup ({"NEW_SERVICE", "SERVICE_CRASHED"} \X DOMAIN m.units)
  \cup ({"UNKNOWN_PROCESS"} \X UNION {{m.procs[p]["name"], ""} \X {m.procs[p]["exe"], ""} : p \in DOMAIN m.procs})

\* An event of the SIEM made finding f of scan i, or may have hidden one.
FromEvent(f, i) == f[1] = "UNKNOWN_PROCESS" /\ readings[i].events # <<>>

\* No finding is a false alarm, however the host changes while its processes are read
\* field by field and its sockets in two passes, and whichever of these calls fail: what
\* is reported was so at some moment of the scan (see Glimpsed: the name, path and user
\* of a process may be of different moments, or missing), and not at all moments of the
\* baseline, unless a call failed that would have shown it; or an event of the SIEM
\* speaks of processes.
FindingsReal ==
  \A b \in Captured : \A f \in Findings(Scan(b), Scan(Newest)) :
    /\ f[1] \in Rules
    /\ FromEvent(f, Newest) \/ Glimpsed(Reported(f[1]), f[2], readings[Newest])
    /\ ~InSight(Known(f[1]), f[2], readings[b])

\* No deviation is missed: what is so at every moment of a scan, with no call failing
\* that would show it (see InSight), and was so at no moment of the baseline, is found,
\* ports by their number and processes when root runs them, though other processes
\* share their program; a crashed service must have been seen to run.
DeviationsFound ==
  \A b \in Captured : \A f \in Subjects(readings[Newest]) :
    /\ ~FromEvent(f, Newest) /\ ~FromEvent(f, b)
    /\ InSight(Reported(f[1]), f[2], readings[Newest])
    /\ IF f[1] = "SERVICE_CRASHED"
       THEN f[2] \in DOMAIN Scan(b).services /\ Scan(b).services[f[2]] = "running"
       ELSE ~Glimpsed(Known(f[1]), f[2], readings[b])
    => f \in Findings(Scan(b), Scan(Newest))

-----------------------------------------------------------------------------
(* What HistoryReplays and GraphAgrees rest on (ScanHistoryProofs).        *)

\* There is a latest snapshot, and pg-writer compares with the one that was latest
\* before it inserted its own.
Ordered ==
  /\ writer.scan = None => writer = Idle
  /\ snapshots # {} => \E m \in snapshots : \A t \in snapshots : t <= m
  /\ writer # Idle /\ ~stored => writer.prev = Latest
  /\ stored /\ writer.prev = None => snapshots = {writer.scan}
  /\ stored /\ writer.prev # None => \A t \in snapshots : t <= writer.prev \/ t = writer.scan

\* Between the snapshot and its diffs the history is one scan behind.
History ==
  /\ HistoryReplays
  /\ complete /\ stored /\ writer.prev # None => replayed = ViewOf(Scan(writer.prev))

\* The graph is what the scan it was made from says.
Pictured == graphed # None => graph = GraphOf(Scan(graphed))

IInv == TypeOK /\ Ordered /\ History /\ Pictured

=============================================================================
