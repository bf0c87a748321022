------------------------- MODULE ScanHistoryProofs --------------------------
(***************************************************************************)
(* What the records say of a host, for all readings and any number of      *)
(* scans.                                                                  *)
(*                                                                         *)
(* The algebra first: the entries ComputeDiffs makes of two scans, applied *)
(* to the view of the first, give the view of the second (DiffsReplay).    *)
(* Then the steps: IInv is inductive.                                      *)
(***************************************************************************)
EXTENDS ScanHistory, WellFoundedInduction, TLAPS

-----------------------------------------------------------------------------
(* The entries between two scans                                           *)

\* The entries of one type, in terms of what is tracked.
Changed(ty, old, nw) == {k \in DOMAIN old \cap DOMAIN nw : Tracked(ty, old[k]) # Tracked(ty, nw[k])}
Entries(ty, old, nw) ==
  {Entry(ty, k, "removed", <<>>) : k \in DOMAIN old \ DOMAIN nw}
  \cup {Entry(ty, k, "modified", nw[k]) : k \in Changed(ty, old, nw)}
  \cup {Entry(ty, k, "added", nw[k]) : k \in DOMAIN nw \ DOMAIN old}

\* Whatever is put is put as it is in the new scan; all that is only in the old one is
\* removed; and what is neither was equal in the tracked parts.
LEMMA OneTypeReplays ==
  ASSUME NEW ty, NEW old, NEW nw
  PROVE  ReplayType(ty, [k \in DOMAIN old |-> Tracked(ty, old[k])], Entries(ty, old, nw))
           = [k \in DOMAIN nw |-> Tracked(ty, nw[k])]
<1> DEFINE entries == Entries(ty, old, nw)
           M == Changed(ty, old, nw)
           before == [k \in DOMAIN old |-> Tracked(ty, old[k])]
           put == {e \in entries : e.op # "removed"}
           removed == {e.key : e \in entries \ put}
           changed == {e.key : e \in put}
<1> USE DEF Entries
<1>0. M \subseteq DOMAIN old \cap DOMAIN nw
  BY DEF Changed
<1> HIDE DEF M
<1>1. \A e \in put : e.key \in DOMAIN nw /\ e.new = nw[e.key]
  <2>1. \A k \in DOMAIN nw : /\ Entry(ty, k, "modified", nw[k]).key = k
                             /\ Entry(ty, k, "modified", nw[k]).new = nw[k]
                             /\ Entry(ty, k, "added", nw[k]).key = k
                             /\ Entry(ty, k, "added", nw[k]).new = nw[k]
    BY DEF Entry
  <2>2. \A k : Entry(ty, k, "removed", <<>>).op = "removed"
    BY DEF Entry
  <2> QED  BY <1>0, <2>1, <2>2 DEF M
<1>2. changed = M \cup (DOMAIN nw \ DOMAIN old)
  <2>1. \A k \in M : Entry(ty, k, "modified", nw[k]) \in put /\ Entry(ty, k, "modified", nw[k]).key = k
    BY DEF Entry, M
  <2>2. \A k \in DOMAIN nw \ DOMAIN old :
          Entry(ty, k, "added", nw[k]) \in put /\ Entry(ty, k, "added", nw[k]).key = k
    BY DEF Entry, M
  <2>3. \A e \in put : e.key \in M \cup (DOMAIN nw \ DOMAIN old)
    BY DEF Entry, M
  <2> HIDE DEF put
  <2> QED  BY <2>1, <2>2, <2>3
<1>3. removed = DOMAIN old \ DOMAIN nw
  <2>1. \A k \in DOMAIN old \ DOMAIN nw :
          Entry(ty, k, "removed", <<>>) \in entries \ put /\ Entry(ty, k, "removed", <<>>).key = k
    BY DEF Entry
  <2>2. \A e \in entries \ put : e.key \in DOMAIN old \ DOMAIN nw
    BY DEF Entry
  <2> HIDE DEF entries, put
  <2> QED  BY <2>1, <2>2
<1>4. (DOMAIN before \ removed) \cup changed = DOMAIN nw
  BY <1>0, <1>2, <1>3
<1>5. ASSUME NEW k \in DOMAIN nw
      PROVE  (IF \E e \in put : e.key = k THEN Tracked(ty, (CHOOSE e \in put : e.key = k).new)
              ELSE before[k]) = Tracked(ty, nw[k])
  <2>1. CASE \E e \in put : e.key = k
    <3> DEFINE c == CHOOSE e \in put : e.key = k
    <3>1. c \in put /\ c.key = k
      BY <2>1
    <3>2. c.new = nw[k]
      BY <1>1, <3>1
    <3> QED  BY <2>1, <3>2
  <2>2. CASE ~\E e \in put : e.key = k
    <3>1. k \notin changed
      BY <2>2
    <3>2. k \in (DOMAIN old \cap DOMAIN nw) \ M
      BY <1>2, <3>1
    <3>3. Tracked(ty, old[k]) = Tracked(ty, nw[k])
      BY <3>2 DEF M, Changed
    <3> QED  BY <2>2, <3>2, <3>3
  <2> QED  BY <2>1, <2>2
<1>6. ReplayType(ty, before, entries)
        = [k \in (DOMAIN before \ removed) \cup changed |->
             IF \E e \in put : e.key = k THEN Tracked(ty, (CHOOSE e \in put : e.key = k).new)
             ELSE before[k]]
  BY DEF ReplayType
<1> HIDE DEF put, removed, changed, before, entries
<1>7. ReplayType(ty, before, entries) = [k \in DOMAIN nw |-> Tracked(ty, nw[k])]
  BY <1>4, <1>5, <1>6
<1> QED  BY <1>7 DEF before, entries

\* Sections are functions, as ScanOf builds them.
LEMMA EntriesOfType ==
  ASSUME NEW p, NEW n, NEW ty \in Types
  PROVE  {e \in ComputeDiffs(p, n) : e.type = ty} = Entries(ty, Section(ty, p), Section(ty, n))
<1> DEFINE services == GenericDiff("service", p.services, n.services, SameService)
           ports == GenericDiff("port", p.openPorts, n.openPorts, SamePort)
           processes == GenericDiff("process", ByKey(p.processes), ByKey(n.processes), SameProcess)
           interfaces == GenericDiff("interface", p.interfaces, n.interfaces, SameInterface)
<1>1. services = Entries("service", Section("service", p), Section("service", n))
  BY DEF GenericDiff, Entries, Changed, SameService, Tracked, Section
<1>2. ports = Entries("port", Section("port", p), Section("port", n))
  BY DEF GenericDiff, Entries, Changed, SamePort, Tracked, Section
<1>3. processes = Entries("process", Section("process", p), Section("process", n))
  BY DEF GenericDiff, Entries, Changed, SameProcess, Tracked, Section
<1>4. interfaces = Entries("interface", Section("interface", p), Section("interface", n))
  BY DEF GenericDiff, Entries, Changed, SameInterface, Tracked, Section
<1>5. \A e \in services : e.type = "service"
  BY DEF GenericDiff, Entry
<1>6. \A e \in ports : e.type = "port"
  BY DEF GenericDiff, Entry
<1>7. \A e \in processes : e.type = "process"
  BY DEF GenericDiff, Entry
<1>8. \A e \in interfaces : e.type = "interface"
  BY DEF GenericDiff, Entry
<1>9. ComputeDiffs(p, n) = services \cup ports \cup processes \cup interfaces
  BY DEF ComputeDiffs
<1> HIDE DEF services, ports, processes, interfaces
<1> QED  BY <1>1, <1>2, <1>3, <1>4, <1>5, <1>6, <1>7, <1>8, <1>9 DEF Types

\* The entries by which two scans differ turn the view of one into that of the other.
THEOREM DiffsReplay ==
  ASSUME NEW p, NEW n
  PROVE  Replay(ViewOf(p), ComputeDiffs(p, n)) = ViewOf(n)
<1>1. ASSUME NEW ty \in Types
      PROVE  ReplayType(ty, ViewOf(p)[ty], {e \in ComputeDiffs(p, n) : e.type = ty}) = ViewOf(n)[ty]
  <2>1. ViewOf(p)[ty] = [k \in DOMAIN Section(ty, p) |-> Tracked(ty, Section(ty, p)[k])]
    BY DEF ViewOf
  <2>2. ViewOf(n)[ty] = [k \in DOMAIN Section(ty, n) |-> Tracked(ty, Section(ty, n)[k])]
    BY DEF ViewOf
  <2> DEFINE old == Section(ty, p)
             nw == Section(ty, n)
  <2>3. ReplayType(ty, [k \in DOMAIN old |-> Tracked(ty, old[k])], Entries(ty, old, nw))
          = [k \in DOMAIN nw |-> Tracked(ty, nw[k])]
    BY OneTypeReplays
  <2>4. {e \in ComputeDiffs(p, n) : e.type = ty} = Entries(ty, old, nw)
    BY EntriesOfType
  <2> QED  BY <2>1, <2>2, <2>3, <2>4
<1>2. Replay(ViewOf(p), ComputeDiffs(p, n)) = [ty \in Types |-> ViewOf(n)[ty]]
  BY <1>1 DEF Replay
<1>3. ViewOf(n) = [ty \in Types |-> ViewOf(n)[ty]]
  BY DEF ViewOf
<1> QED  BY <1>2, <1>3

\* Between two scans there is an entry exactly if something tracked differs: nothing is
\* recorded of a scan that is compared with itself, and no change goes unrecorded.
THEOREM DiffsExact ==
  ASSUME NEW p, NEW n
  PROVE  ComputeDiffs(p, n) = {} <=> ViewOf(p) = ViewOf(n)
<1>1. ASSUME ComputeDiffs(p, n) = {} PROVE ViewOf(p) = ViewOf(n)
  <2>1. ASSUME NEW ty \in Types PROVE ReplayType(ty, ViewOf(p)[ty], {}) = ViewOf(p)[ty]
    <3>1. ViewOf(p)[ty] = [k \in DOMAIN ViewOf(p)[ty] |-> ViewOf(p)[ty][k]]
      BY DEF ViewOf
    <3> HIDE DEF ViewOf
    <3> QED  BY <3>1 DEF ReplayType
  <2>2. \A ty \in Types : {e \in ComputeDiffs(p, n) : e.type = ty} = {}
    BY <1>1
  <2>3. Replay(ViewOf(p), ComputeDiffs(p, n)) = [ty \in Types |-> ViewOf(p)[ty]]
    BY <2>1, <2>2 DEF Replay
  <2>4. ViewOf(p) = [ty \in Types |-> ViewOf(p)[ty]]
    BY DEF ViewOf
  <2> QED  BY <2>3, <2>4, DiffsReplay
<1>2. ASSUME ViewOf(p) = ViewOf(n) PROVE ComputeDiffs(p, n) = {}
  <2>1. ASSUME NEW ty \in Types PROVE {e \in ComputeDiffs(p, n) : e.type = ty} = {}
    <3> DEFINE old == Section(ty, p)
               nw == Section(ty, n)
    <3>1. [k \in DOMAIN old |-> Tracked(ty, old[k])] = [k \in DOMAIN nw |-> Tracked(ty, nw[k])]
      <4>1. ViewOf(p)[ty] = [k \in DOMAIN old |-> Tracked(ty, old[k])]
        BY DEF ViewOf
      <4>2. ViewOf(n)[ty] = [k \in DOMAIN nw |-> Tracked(ty, nw[k])]
        BY DEF ViewOf
      <4> QED  BY <1>2, <4>1, <4>2
    <3> HIDE DEF old, nw
    <3> DEFINE f == [k \in DOMAIN old |-> Tracked(ty, old[k])]
               g == [k \in DOMAIN nw |-> Tracked(ty, nw[k])]
    <3>2. f = g
      BY <3>1
    <3>3. DOMAIN f = DOMAIN old /\ DOMAIN g = DOMAIN nw
      OBVIOUS
    <3>4. /\ \A k \in DOMAIN old : f[k] = Tracked(ty, old[k])
          /\ \A k \in DOMAIN nw : g[k] = Tracked(ty, nw[k])
      OBVIOUS
    <3> HIDE DEF f, g
    <3>5. Entries(ty, old, nw) = {}
      BY <3>2, <3>3, <3>4 DEF Entries, Changed
    <3> QED  BY <3>5, EntriesOfType DEF old, nw
  <2>2. \A e \in ComputeDiffs(p, n) : e.type \in Types
    BY DEF ComputeDiffs, GenericDiff, Entry, Types
  <2> QED  BY <2>1, <2>2
<1> QED  BY <1>1, <1>2

-----------------------------------------------------------------------------
(* The steps                                                               *)

LEMMA LatestIs ==
  ASSUME snapshots \subseteq Nat, NEW m \in snapshots, \A t \in snapshots : t <= m
  PROVE  Latest = m
<1>1. \A x \in snapshots : (\A t \in snapshots : t <= x) => x = m
  OBVIOUS
<1> QED  BY <1>1 DEF Latest

LEMMA LatestStored ==
  ASSUME TypeOK, Ordered, snapshots # {}
  PROVE  Latest \in snapshots /\ Latest # None /\ \A t \in snapshots : t <= Latest
<1>1. snapshots \subseteq Nat \ {0}
  BY DEF TypeOK, Captured
<1>2. PICK m \in snapshots : \A t \in snapshots : t <= m
  BY DEF Ordered
<1> QED  BY <1>1, <1>2, LatestIs DEF None

LEMMA InitIInv == ASSUME Init PROVE IInv
<1>1. TypeOK
  <2>1. readings \in Seq(Reading) /\ Len(readings) = 0
    BY DEF Init
  <2>2. writer \in [scan : Captured \cup {None}, prev : snapshots \cup {None}]
    BY DEF Init, Idle
  <2>3. stored \in BOOLEAN /\ complete \in BOOLEAN /\ ~stored
    BY DEF Init
  <2> QED  BY <2>1, <2>2, <2>3, HistoryAssumption DEF Init, TypeOK, NoView
<1>2. Ordered
  BY DEF Init, Ordered, Idle, None
<1>3. History /\ Pictured
  BY DEF Init, History, HistoryReplays, Pictured
<1> QED  BY <1>1, <1>2, <1>3 DEF IInv

LEMMA CaptureKeeps == ASSUME IInv, Capture PROVE IInv'
<1>1. PICK r \in Reading : readings' = Append(readings, r)
  BY DEF Capture
<1>2. UNCHANGED <<snapshots, writer, stored, replayed, complete, graph, graphed>>
  BY DEF Capture, pgVars, graphVars
<1>3. /\ readings \in Seq(Reading) /\ readings' \in Seq(Reading)
      /\ Len(readings') = Len(readings) + 1 /\ Len(readings') <= MaxScans
      /\ \A i \in Captured : readings'[i] = readings[i]
  BY <1>1, HistoryAssumption DEF IInv, TypeOK, Capture, Captured
<1>4. Captured \subseteq Captured'
  BY <1>3 DEF Captured
<1>5. TypeOK'
  BY <1>2, <1>3, <1>4 DEF IInv, TypeOK
<1>6. Latest' = Latest
  BY <1>2 DEF Latest
<1>7. Ordered'
  BY <1>2, <1>6 DEF IInv, Ordered, Idle
<1>8. \A i \in Captured : Scan(i)' = Scan(i)
  BY <1>3 DEF Scan
<1>9. History'
  <2>1. snapshots # {} => Latest \in Captured
    BY LatestStored DEF IInv, TypeOK
  <2>2. stored /\ writer.prev # None => writer.prev \in Captured
    BY DEF IInv, TypeOK
  <2> QED  BY <1>2, <1>6, <1>8, <2>1, <2>2 DEF IInv, History, HistoryReplays
<1>10. Pictured'
  BY <1>2, <1>8 DEF IInv, TypeOK, Pictured
<1> QED  BY <1>5, <1>7, <1>9, <1>10 DEF IInv

LEMMA TakeKeeps == ASSUME IInv, Take PROVE IInv'
<1>1. /\ writer = Idle
      /\ UNCHANGED <<readings, snapshots, stored, replayed, complete, graph, graphed>>
  BY DEF Take, graphVars
<1>2. PICK i \in Captured : writer' = [scan |-> i, prev |-> Latest]
  BY DEF Take
<1>3. ~stored
  BY <1>1 DEF IInv, TypeOK, Idle, Captured, None
<1>4. Latest \in snapshots \cup {None} /\ Latest' = Latest
  BY <1>1, LatestStored DEF IInv, Latest
<1>5. TypeOK'
  BY <1>1, <1>2, <1>3, <1>4 DEF IInv, TypeOK, Captured
<1>6. Ordered'
  BY <1>1, <1>2, <1>3, <1>4 DEF IInv, Ordered, Captured, None
<1>7. History' /\ Pictured'
  BY <1>1, <1>3, <1>4 DEF IInv, History, HistoryReplays, Pictured, Scan
<1> QED  BY <1>5, <1>6, <1>7 DEF IInv

LEMMA InsertSnapshotKeeps == ASSUME IInv, InsertSnapshot PROVE IInv'
<1>1. /\ writer # Idle /\ ~stored /\ stored' = TRUE /\ snapshots' = snapshots \cup {writer.scan}
      /\ UNCHANGED <<readings, writer, replayed, complete, graph, graphed>>
  BY DEF InsertSnapshot, graphVars
<1>2. writer.scan \in Captured /\ writer.prev = Latest
  BY <1>1 DEF IInv, TypeOK, Ordered
<1>3. snapshots \subseteq Nat \ {0} /\ writer.scan \in Nat \ {0}
  BY <1>2 DEF IInv, TypeOK, Captured
<1>4. TypeOK'
  BY <1>1, <1>2 DEF IInv, TypeOK, Captured
<1>5. CASE snapshots = {}
  <2>1. writer.prev = None
    BY <1>2, <1>5 DEF Latest
  <2>2. Ordered'
    BY <1>1, <1>3, <1>5, <2>1 DEF IInv, Ordered, Idle
  <2>3. History' /\ Pictured'
    BY <1>1, <2>1 DEF IInv, History, HistoryReplays, Pictured, Scan
  <2> QED  BY <1>4, <2>2, <2>3 DEF IInv
<1>6. CASE snapshots # {}
  <2>1. Latest \in snapshots /\ Latest # None /\ \A t \in snapshots : t <= Latest
    BY <1>6, LatestStored DEF IInv
  <2>2. \E m \in snapshots' : \A t \in snapshots' : t <= m
    <3>1. CASE writer.scan <= Latest
      BY <1>1, <1>3, <2>1, <3>1
    <3>2. CASE ~(writer.scan <= Latest)
      BY <1>1, <1>3, <2>1, <3>2
    <3> QED  BY <3>1, <3>2
  <2>3. Ordered'
    BY <1>1, <1>2, <2>1, <2>2 DEF IInv, Ordered, Idle
  <2>4. History' /\ Pictured'
    BY <1>1, <1>2, <1>6 DEF IInv, History, HistoryReplays, Pictured, Scan
  <2> QED  BY <1>4, <2>3, <2>4 DEF IInv
<1> QED  BY <1>5, <1>6

\* The diffs bring the history to the scan in hand, unless it was late.
LEMMA StoreDiffsKeeps == ASSUME IInv, StoreDiffs PROVE IInv'
<1> DEFINE p == writer.prev
           n == writer.scan
<1>1. /\ stored /\ stored' = FALSE /\ writer' = Idle /\ complete' = (complete /\ p <= n)
      /\ UNCHANGED <<readings, snapshots, graph, graphed>>
  BY DEF StoreDiffs, graphVars
<1>2. replayed' = IF p = None THEN ViewOf(Scan(n)) ELSE Replay(replayed, ComputeDiffs(Scan(p), Scan(n)))
  BY DEF StoreDiffs
<1>3. n \in snapshots /\ p \in snapshots \cup {None} /\ snapshots \subseteq Nat \ {0}
  BY <1>1 DEF IInv, TypeOK, Captured
<1>4. DOMAIN replayed' = Types
  BY <1>2 DEF ViewOf, Replay
<1>5. TypeOK'
  <2>1. Idle \in [scan : Captured' \cup {None}, prev : snapshots' \cup {None}]
    BY DEF Idle
  <2>2. complete' \in BOOLEAN /\ stored' \in BOOLEAN
    BY <1>1, Zenon
  <2> HIDE DEF p, n
  <2> QED  BY <1>1, <1>4, <2>1, <2>2 DEF IInv, TypeOK, Captured
<1>6. Ordered'
  BY <1>1 DEF IInv, Ordered, Idle, None
<1>7. ASSUME complete' PROVE replayed' = ViewOf(Scan(n)) /\ Latest = n
  <2>1. CASE p = None
    <3>1. snapshots = {n}
      BY <1>1, <2>1 DEF IInv, Ordered
    <3>2. \A t \in snapshots : t <= n
      BY <1>3, <3>1
    <3> QED  BY <1>2, <1>3, <2>1, <3>2, LatestIs
  <2>2. CASE p # None
    <3>1. complete /\ p <= n
      BY <1>1, <1>7
    <3>2. replayed = ViewOf(Scan(p))
      BY <1>1, <2>2, <3>1 DEF IInv, History
    <3>3. replayed' = ViewOf(Scan(n))
      BY <1>2, <2>2, <3>2, DiffsReplay
    <3>4. \A t \in snapshots : t <= p \/ t = n
      BY <1>1, <2>2 DEF IInv, Ordered
    <3>5. \A t \in snapshots : t <= n
      <4>1. p \in Nat /\ n \in Nat
        BY <1>3, <2>2
      <4> QED  BY <1>3, <3>1, <3>4, <4>1
    <3> QED  BY <1>3, <3>3, <3>5, LatestIs
  <2> QED  BY <2>1, <2>2
<1>8. History'
  BY <1>1, <1>7 DEF History, HistoryReplays, Latest, Scan
<1>9. Pictured'
  BY <1>1 DEF IInv, Pictured, Scan
<1> QED  BY <1>5, <1>6, <1>8, <1>9 DEF IInv

LEMMA BreakKeeps == ASSUME IInv, Break PROVE IInv'
<1>1. /\ complete' = (complete /\ ~stored) /\ writer' = Idle /\ stored' = FALSE
      /\ UNCHANGED <<readings, snapshots, replayed, graph, graphed>>
  BY DEF Break, graphVars
<1>2. TypeOK'
  <2>1. Idle \in [scan : Captured' \cup {None}, prev : snapshots' \cup {None}]
    BY DEF Idle
  <2>2. complete' \in BOOLEAN /\ stored' \in BOOLEAN
    BY <1>1, Zenon
  <2> QED  BY <1>1, <2>1, <2>2 DEF IInv, TypeOK, Captured
<1>3. Ordered'
  BY <1>1 DEF IInv, Ordered, Idle, None
<1>4. History' /\ Pictured'
  BY <1>1 DEF IInv, History, HistoryReplays, Pictured, Latest, Scan
<1> QED  BY <1>2, <1>3, <1>4 DEF IInv

LEMMA UpsertScanKeeps == ASSUME IInv, NEW i \in Captured, UpsertScan(i) PROVE IInv'
<1>1. /\ graph' = GraphOf(Scan(i)) /\ graphed' = i
      /\ UNCHANGED <<readings, snapshots, writer, stored, replayed, complete>>
  BY DEF UpsertScan, pgVars
<1>2. TypeOK'
  BY <1>1 DEF IInv, TypeOK, Captured
<1>3. Ordered' /\ History'
  BY <1>1 DEF IInv, Ordered, History, HistoryReplays, Latest, Scan, Idle
<1>4. Pictured'
  BY <1>1 DEF Pictured, Scan
<1> QED  BY <1>2, <1>3, <1>4 DEF IInv

LEMMA NextKeeps == IInv /\ [Next]_vars => IInv'
<1> SUFFICES ASSUME IInv, [Next]_vars PROVE IInv'
  OBVIOUS
<1>1. CASE UNCHANGED vars
  BY <1>1 DEF vars, pgVars, graphVars, IInv, TypeOK, Captured, Ordered, History, HistoryReplays,
              Pictured, Latest, Scan
<1> QED  BY <1>1, CaptureKeeps, TakeKeeps, InsertSnapshotKeeps, StoreDiffsKeeps, BreakKeeps,
            UpsertScanKeeps DEF Next

LEMMA Inductive == Spec => []IInv
  BY InitIInv, NextKeeps, PTL DEF Spec

\* Every variable keeps its type, and the scan in hand has its snapshot.
THEOREM TypeCorrect == Spec => []TypeOK
<1>1. IInv => TypeOK
  BY DEF IInv
<1> QED  BY <1>1, Inductive, PTL

\* The stored entries replay to the latest snapshot, for every content of the scans.
THEOREM HistoryCorrect == Spec => []HistoryReplays
<1>1. IInv => HistoryReplays
  BY DEF IInv, History
<1> QED  BY <1>1, Inductive, PTL

\* The graph and the replayed history agree on the services, the programs and the
\* ports, for every content of the scans.
THEOREM DatabasesAgree == Spec => []GraphAgrees
<1>1. IInv => GraphAgrees
  <2> SUFFICES ASSUME IInv, complete, ~stored, snapshots # {}, graphed = Latest
               PROVE  GraphAgrees
    BY DEF GraphAgrees
  <2> DEFINE s == Scan(graphed)
  <2>1. replayed = ViewOf(s) /\ graph = GraphOf(s)
    BY LatestStored DEF IInv, History, HistoryReplays, Pictured
  <2> HIDE DEF s
  <2>2. graph.services = {<<n, replayed["service"][n][1]>> : n \in DOMAIN replayed["service"]}
    BY <2>1 DEF GraphOf, ViewOf, Types, Section, Tracked
  <2> DEFINE node(i) == [pid |-> s.processes[i].pid, key |-> ProcessKey(s.processes[i])]
             nodes == {node(i) : i \in DOMAIN s.processes}
  <2>3. /\ graph.processes = nodes
        /\ graph.listens = {pn \in nodes \X DOMAIN s.openPorts : s.openPorts[pn[2]].pid = pn[1].pid}
    BY <2>1 DEF GraphOf
  <2>4. {x.key : x \in nodes} = DOMAIN replayed["process"]
    <3>1. \A x \in nodes : \E i \in DOMAIN s.processes : x.key = ProcessKey(s.processes[i])
      OBVIOUS
    <3>2. \A i \in DOMAIN s.processes : node(i) \in nodes /\ node(i).key = ProcessKey(s.processes[i])
      OBVIOUS
    <3> HIDE DEF node, nodes
    <3>3. {x.key : x \in nodes} = {ProcessKey(s.processes[i]) : i \in DOMAIN s.processes}
      BY <3>1, <3>2
    <3>4. DOMAIN replayed["process"] = {ProcessKey(s.processes[i]) : i \in DOMAIN s.processes}
      BY <2>1 DEF ViewOf, Types, Section, ByKey
    <3> QED  BY <3>3, <3>4
  <2> HIDE DEF nodes
  <2>5. DOMAIN replayed["port"] = DOMAIN s.openPorts
    BY <2>1 DEF ViewOf, Types, Section
  <2>6. ASSUME NEW p \in DOMAIN s.openPorts
        PROVE  (\E l \in graph.listens : l[2] = p) <=> \E n \in nodes : n.pid = s.openPorts[p].pid
    <3>1. ASSUME NEW n \in nodes, n.pid = s.openPorts[p].pid
          PROVE  \E l \in graph.listens : l[2] = p
      <4>1. <<n, p>> \in graph.listens
        BY <2>3, <3>1
      <4> QED  BY <4>1
    <3>2. ASSUME NEW l \in graph.listens, l[2] = p
          PROVE  \E n \in nodes : n.pid = s.openPorts[p].pid
      BY <2>3, <3>2
    <3> QED  BY <3>1, <3>2
  <2> QED  BY <2>2, <2>3, <2>4, <2>5, <2>6 DEF GraphAgrees, s
<1> QED  BY <1>1, Inductive, PTL

-----------------------------------------------------------------------------
(* Induction, over a set of numbers                                        *)

LEMMA LeastOf ==
  ASSUME NEW T \in SUBSET Nat, T # {}
  PROVE  \E n \in T : \A m \in T : n <= m
<1> DEFINE R == OpToRel(<, Nat)
<1>1. IsWellFoundedOn(R, Nat)
  BY NatLessThanWellFounded
<1>2. \A m, n \in Nat : m < n => <<m, n>> \in R
  BY DEF OpToRel
<1> HIDE DEF R
<1>3. PICK n \in T : \A m \in T : ~(<<m, n>> \in R)
  BY <1>1, WFMin
<1>4. \A m \in T : ~(m < n)
  BY <1>2, <1>3, Zenon
<1> QED  BY <1>4

LEMMA InductionSet ==
  ASSUME NEW S, 0 \in S, \A n \in Nat : n \in S => n + 1 \in S
  PROVE  Nat \subseteq S
<1> SUFFICES ASSUME Nat \ S # {} PROVE FALSE
  OBVIOUS
<1>1. PICK n \in Nat \ S : \A m \in Nat \ S : n <= m
  BY LeastOf
<1>2. n # 0 /\ n - 1 \in Nat
  BY <1>1
<1>3. n - 1 \in S
  BY <1>1, <1>2
<1> QED  BY <1>1, <1>2, <1>3

-----------------------------------------------------------------------------
(* Merging the events of a SIEM                                            *)

\* Processes with what CollectProcess and MergeEvent write into one (the provers know no
\* literal to be in STRING).
Text == STRING \cup {"", "unknown", "siem_reported"}
Merged == [pid : Int, name : Text, exe : Text, user : Text, status : Text]

Keys(procs) == {ProcessKey(procs[i]) : i \in DOMAIN procs}

\* One event leaves a list of processes, and no program is lost from it.
LEMMA MergeEventKeeps ==
  ASSUME NEW procs \in Seq(Merged), NEW ev \in AssetEvent
  PROVE  MergeEvent(procs, ev) \in Seq(Merged) /\ Keys(procs) \subseteq Keys(MergeEvent(procs, ev))
<1> DEFINE same == {i \in DOMAIN procs : procs[i].pid = ev.pid}
           f == CHOOSE i \in same : \A j \in same : i <= j
           new == [pid |-> ev.pid, name |-> ev.name, exe |-> "", user |-> ev.user,
                   status |-> "siem_reported"]
<1>1. CASE same # {}
  <2>1. same \in SUBSET Nat
    OBVIOUS
  <2>2. \E i \in same : \A j \in same : i <= j
    BY <1>1, <2>1, LeastOf
  <2>3. f \in same
    BY <2>2
  <2> HIDE DEF f
  <2> DEFINE u == IF ev.user = "" THEN procs[f].user ELSE ev.user
             after == [procs EXCEPT ![f].user = u]
  <2>4. MergeEvent(procs, ev) = after
    BY <1>1, <2>3 DEF MergeEvent, f
  <2>5. procs[f] \in Merged /\ u \in Text
    <3>1. procs[f] \in Merged
      BY <2>3
    <3>2. procs[f].user \in Text
      BY <3>1 DEF Merged
    <3>3. ev.user \in Text
      BY DEF AssetEvent, Text
    <3> QED  BY <3>1, <3>2, <3>3
  <2> HIDE DEF u
  <2>6. [procs[f] EXCEPT !.user = u] \in Merged
    BY <2>5 DEF Merged
  <2>7. after \in Seq(Merged) /\ DOMAIN after = DOMAIN procs
    BY <2>3, <2>6
  <2>8. \A i \in DOMAIN procs : ProcessKey(after[i]) = ProcessKey(procs[i])
    BY <2>3, <2>5 DEF ProcessKey, Merged
  <2> HIDE DEF after
  <2> QED  BY <2>4, <2>7, <2>8 DEF Keys
<1>2. CASE same = {} /\ ev.pid > 0
  <2>1. MergeEvent(procs, ev) = Append(procs, new)
    BY <1>2 DEF MergeEvent
  <2>2. new \in Merged
    <3>1. ev.pid \in Int /\ ev.name \in Text /\ ev.user \in Text
      BY DEF AssetEvent, Text
    <3>2. "" \in Text /\ "siem_reported" \in Text
      BY DEF Text
    <3> QED  BY <3>1, <3>2 DEF Merged
  <2> HIDE DEF new
  <2>3. Append(procs, new) \in Seq(Merged)
    BY <2>2
  <2>4. \A i \in DOMAIN procs : i \in DOMAIN Append(procs, new) /\ Append(procs, new)[i] = procs[i]
    BY <2>2
  <2> QED  BY <2>1, <2>3, <2>4 DEF Keys
<1>3. CASE same = {} /\ ~(ev.pid > 0)
  BY <1>3 DEF MergeEvent
<1> QED  BY <1>1, <1>2, <1>3

\* The list after each event, as MergeAssetEvents makes it.
Step(f, i, procs, events) == IF i = 0 THEN procs ELSE MergeEvent(f[i - 1], events[i])
IsAfter(f, n, procs, events) == f = [i \in 0..n |-> Step(f, i, procs, events)]

LEMMA AfterExists ==
  ASSUME NEW procs, NEW events, NEW N \in Nat
  PROVE  \E f : IsAfter(f, N, procs, events)
<1> DEFINE is(f, n) == IsAfter(f, n, procs, events)
           S == {n \in Nat : \E f : is(f, n)}
<1>1. 0 \in S
  <2>1. is([i \in 0..0 |-> procs], 0)
    BY DEF IsAfter, Step
  <2> HIDE DEF is
  <2> QED  BY <2>1
<1>2. ASSUME NEW n \in Nat, n \in S PROVE n + 1 \in S
  <2>1. PICK f : is(f, n)
    BY <1>2
  <2> DEFINE g == [i \in 0..(n + 1) |-> IF i <= n THEN f[i] ELSE MergeEvent(f[n], events[n + 1])]
  <2>2. ASSUME NEW i \in 0..(n + 1) PROVE g[i] = Step(g, i, procs, events)
    <3>1. CASE i <= n
      <4>1. f[i] = Step(f, i, procs, events)
        BY <2>1, <3>1 DEF IsAfter
      <4>2. i # 0 => i - 1 \in 0..n /\ i - 1 <= n /\ i - 1 \in 0..(n + 1)
        BY <3>1
      <4> QED  BY <3>1, <4>1, <4>2 DEF Step
    <3>2. CASE ~(i <= n)
      <4>1. i = n + 1 /\ i - 1 = n /\ i # 0
        BY <3>2
      <4> QED  BY <4>1 DEF Step
    <3> QED  BY <3>1, <3>2
  <2>3. g = [i \in 0..(n + 1) |-> g[i]]
    OBVIOUS
  <2> HIDE DEF g
  <2>4. is(g, n + 1)
    BY <2>2, <2>3 DEF IsAfter
  <2> HIDE DEF is
  <2> QED  BY <2>4
<1> HIDE DEF is
<1>3. N \in S
  <2> HIDE DEF S
  <2>1. Nat \subseteq S
    BY <1>1, <1>2, InductionSet
  <2> QED  BY <2>1
<1> QED  BY <1>3 DEF is

LEMMA NothingToMerge == ASSUME NEW procs PROVE MergeAssetEvents(procs, <<>>) = procs
<1> DEFINE after == CHOOSE f : IsAfter(f, 0, procs, <<>>)
<1>1. IsAfter(after, 0, procs, <<>>)
  BY AfterExists
<1>2. MergeAssetEvents(procs, <<>>) = after[0]
  BY DEF MergeAssetEvents, IsAfter, Step
<1> HIDE DEF after
<1> QED  BY <1>1, <1>2 DEF IsAfter, Step

\* No program is lost, by induction on the number of events.
LEMMA MergeKeeps ==
  ASSUME NEW procs \in Seq(Merged), NEW events \in Seq(AssetEvent)
  PROVE  Keys(procs) \subseteq Keys(MergeAssetEvents(procs, events))
<1> DEFINE N == Len(events)
           after == CHOOSE f : IsAfter(f, N, procs, events)
           S == {n \in Nat : n <= N => /\ after[n] \in Seq(Merged)
                                       /\ Keys(procs) \subseteq Keys(after[n])}
<1>1. N \in Nat
  OBVIOUS
<1>2. IsAfter(after, N, procs, events)
  BY <1>1, AfterExists
<1>3. MergeAssetEvents(procs, events) = after[N]
  BY DEF MergeAssetEvents, IsAfter, Step
<1> HIDE DEF after
<1>4. \A i \in 0..N : after[i] = Step(after, i, procs, events)
  BY <1>2 DEF IsAfter
<1>5. 0 \in S
  BY <1>1, <1>4 DEF Step
<1>6. ASSUME NEW n \in Nat, n \in S PROVE n + 1 \in S
  <2> SUFFICES ASSUME n + 1 <= N
               PROVE  after[n + 1] \in Seq(Merged) /\ Keys(procs) \subseteq Keys(after[n + 1])
    OBVIOUS
  <2>1. after[n] \in Seq(Merged) /\ Keys(procs) \subseteq Keys(after[n])
    BY <1>1, <1>6
  <2>2. n + 1 \in 0..N /\ n + 1 # 0 /\ (n + 1) - 1 = n
    BY <1>1
  <2>3. after[n + 1] = MergeEvent(after[n], events[n + 1])
    BY <1>4, <2>2 DEF Step
  <2>4. events[n + 1] \in AssetEvent
    BY <1>1
  <2> QED  BY <2>1, <2>3, <2>4, MergeEventKeeps
<1>7. N \in S
  <2> HIDE DEF S
  <2>1. Nat \subseteq S
    BY <1>5, <1>6, InductionSet
  <2> QED  BY <1>1, <2>1
<1> QED  BY <1>1, <1>3, <1>7

-----------------------------------------------------------------------------
(* What a scan says of the machine it was made on                          *)

\* "failed" is what systemd calls failed, and "running" never is.
LEMMA StatesMapped ==
  ASSUME NEW active, NEW sub
  PROVE  /\ MapSystemdState(active, sub) = "failed" <=> active = "failed"
         /\ MapSystemdState(active, sub) = "running" => active # "failed"
<1>1. CASE active = "failed"
  BY <1>1 DEF MapSystemdState
<1>2. CASE active = "active" /\ sub = "running"
  BY <1>2 DEF MapSystemdState
<1>3. CASE active = "inactive"
  BY <1>3 DEF MapSystemdState
<1>4. CASE active # "failed" /\ active # "inactive" /\ ~(active = "active" /\ sub = "running")
  BY <1>4 DEF MapSystemdState
<1> QED  BY <1>1, <1>2, <1>3, <1>4

LEMMA ServicesOf ==
  ASSUME NEW r
  PROVE  /\ r.services = Never => DOMAIN ScanOf(r).services = {}
         /\ r.services # Never =>
              /\ DOMAIN ScanOf(r).services = DOMAIN r.moments[r.services].units
              /\ \A n \in DOMAIN r.moments[r.services].units :
                   ScanOf(r).services[n] = MapSystemdState(r.moments[r.services].units[n][1],
                                                           r.moments[r.services].units[n][2])
<1>1. ScanOf(r).services = CollectServices(r)
  BY DEF ScanOf
<1> QED  BY <1>1 DEF CollectServices, Empty

\* A file that was read has a socket with the number of the port, and a link that was
\* followed led there.
Owned(r, p) ==
  \E file \in 1..4 : \E s \in ParseProcNetFile(r, file) :
    /\ s.port = p /\ s.inode # NoInode
    /\ \E i \in DOMAIN r.links : Target(r, r.links[i]) = s.inode

LEMMA PortsOf ==
  ASSUME NEW r
  PROVE  /\ \A p : p \in DOMAIN ScanOf(r).openPorts <=> r.listed /\ Owned(r, p)
         /\ \A p \in DOMAIN ScanOf(r).openPorts : ScanOf(r).openPorts[p].bind = ""
<1> DEFINE map == IF r.listed THEN BuildPortToPIDMap(r) ELSE Empty
           owned == {s \in UNION {ParseProcNetFile(r, file) : file \in 1..4} :
                       s.inode \in DOMAIN BuildInodeToPIDMap(r)}
<1>1. ScanOf(r).openPorts = [p \in DOMAIN map |->
        [pid |-> map[p], process |-> NameOf(CollectProcesses(r), map[p]), bind |-> ""]]
  BY DEF ScanOf, CollectPorts
<1>2. DOMAIN map = IF r.listed THEN {s.port : s \in owned} ELSE {}
  BY DEF BuildPortToPIDMap, Empty
<1>3. \A n : n \in DOMAIN BuildInodeToPIDMap(r) <=>
               n # NoInode /\ \E i \in DOMAIN r.links : Target(r, r.links[i]) = n
  BY DEF BuildInodeToPIDMap
<1>4. \A s : s \in owned <=> /\ \E file \in 1..4 : s \in ParseProcNetFile(r, file)
                             /\ s.inode # NoInode
                             /\ \E i \in DOMAIN r.links : Target(r, r.links[i]) = s.inode
  BY <1>3
<1> HIDE DEF map, owned
<1>5. DOMAIN ScanOf(r).openPorts = DOMAIN map
  BY <1>1
<1>6. ASSUME NEW p \in DOMAIN map PROVE ScanOf(r).openPorts[p].bind = ""
  <2> DEFINE entry(n, name) == [pid |-> n, process |-> name, bind |-> ""]
  <2>1. ScanOf(r).openPorts[p] = entry(map[p], NameOf(CollectProcesses(r), map[p]))
    BY <1>1
  <2>2. \A n, name : entry(n, name).bind = ""
    OBVIOUS
  <2> HIDE DEF entry
  <2> QED  BY <2>1, <2>2
<1>7. \A p : p \in {s.port : s \in owned} <=> Owned(r, p)
  <2>1. \A p : p \in {s.port : s \in owned} <=> \E s : s \in owned /\ s.port = p
    OBVIOUS
  <2> QED  BY <1>4, <2>1 DEF Owned
<1> QED  BY <1>2, <1>5, <1>6, <1>7

LEMMA ElementOf == ASSUME NEW S, NEW q \in Seq(S), NEW i \in DOMAIN q PROVE q[i] \in S
  OBVIOUS

\* A link is read, and each field of a process, at a moment of the scan or never.
LEMMA LinkIs ==
  ASSUME NEW r \in Reading, NEW i \in DOMAIN r.links
  PROVE  r.links[i].at \in DOMAIN r.moments \cup {Never}
<1> DEFINE N == DOMAIN r.moments \cup {Never}
<1>1. r.links \in Seq([pid : Int, fd : Nat, at : N])
  BY ReadingAssumption DEF IsReading
<1> HIDE DEF N
<1>2. r.links[i] \in [pid : Int, fd : Nat, at : N]
  BY <1>1, ElementOf
<1>3. r.links[i].at \in N
  BY <1>2
<1> QED  BY <1>3 DEF N

LEMMA ListedIs ==
  ASSUME NEW r \in Reading, NEW i \in DOMAIN r.pids
  PROVE  r.pids[i].pid \in Int /\ r.pids[i].at \in [Field -> DOMAIN r.moments \cup {Never}]
<1> DEFINE F == [Field -> DOMAIN r.moments \cup {Never}]
<1>1. r.pids \in Seq([pid : Int, at : F])
  BY ReadingAssumption DEF IsReading
<1> HIDE DEF F
<1>2. r.pids[i] \in [pid : Int, at : F]
  BY <1>1, ElementOf
<1>3. r.pids[i].pid \in Int /\ r.pids[i].at \in F
  BY <1>2
<1> QED  BY <1>3 DEF F

\* The processes as collected: of the listed ones, each field on its own.
LEMMA CollectedIs ==
  ASSUME NEW r \in Reading, r.listed
  PROVE  /\ CollectProcesses(r) \in Seq(Merged) /\ DOMAIN CollectProcesses(r) = DOMAIN r.pids
         /\ \A i \in DOMAIN r.pids :
              /\ ProcessKey(CollectProcesses(r)[i])
                   = <<FieldOf(r, r.pids[i], "name"), FieldOf(r, r.pids[i], "exe")>>
              /\ CollectProcesses(r)[i].user = FieldOf(r, r.pids[i], "user")
<1> DEFINE M == DOMAIN r.moments
<1>1. IsReading(r)
  BY ReadingAssumption
<1>2. /\ \A m \in M : \A p \in DOMAIN r.moments[m].procs : r.moments[m].procs[p] \in [Field -> STRING]
      /\ r.pids \in Seq([pid : Int, at : [Field -> M \cup {Never}]])
  BY <1>1 DEF IsReading
<1>3. ASSUME NEW i \in DOMAIN r.pids, NEW field \in Field
      PROVE  FieldOf(r, r.pids[i], field) \in Text
  <2>1. r.pids[i].at \in [Field -> M \cup {Never}]
    BY ListedIs
  <2>2. CASE Unread(r, r.pids[i], field)
    BY <2>2 DEF FieldOf, Blank, Text
  <2>3. CASE ~Unread(r, r.pids[i], field)
    <3>1. r.pids[i].at[field] \in M
      BY <2>1, <2>3 DEF Unread
    <3>2. r.moments[r.pids[i].at[field]].procs[r.pids[i].pid] \in [Field -> STRING]
      BY <1>2, <2>3, <3>1 DEF Unread
    <3> QED  BY <2>3, <3>2 DEF FieldOf, Text
  <2> QED  BY <2>2, <2>3
<1>4. \A i \in DOMAIN r.pids : CollectProcess(r, r.pids[i]) \in Merged
  <2> SUFFICES ASSUME NEW i \in DOMAIN r.pids PROVE CollectProcess(r, r.pids[i]) \in Merged
    OBVIOUS
  <2>1. r.pids[i].pid \in Int
    BY ListedIs
  <2>2. \A field \in Field : FieldOf(r, r.pids[i], field) \in Text
    BY <1>3
  <2> QED  BY <2>1, <2>2 DEF CollectProcess, Merged, Field
<1>5. CollectProcesses(r) = [i \in DOMAIN r.pids |-> CollectProcess(r, r.pids[i])]
  BY DEF CollectProcesses
<1>6. DOMAIN r.pids = 1..Len(r.pids) /\ Len(r.pids) \in Nat
  BY <1>2
<1>7. CollectProcesses(r) \in Seq(Merged)
  BY <1>4, <1>5, <1>6
<1> QED  BY <1>5, <1>7 DEF CollectProcess, ProcessKey

\* Every program collected is in the scan, whatever the SIEM reported; without events the
\* scan has the processes collected and no others.
LEMMA ProcessesOf ==
  ASSUME NEW r \in Reading
  PROVE  /\ r.listed => Keys(CollectProcesses(r)) \subseteq Keys(ScanOf(r).processes)
         /\ r.events = <<>> => ScanOf(r).processes = CollectProcesses(r)
<1>1. ScanOf(r).processes = MergeAssetEvents(CollectProcesses(r), r.events)
  BY DEF ScanOf
<1>2. r.events \in Seq(AssetEvent)
  BY ReadingAssumption DEF IsReading
<1>3. ASSUME r.listed PROVE Keys(CollectProcesses(r)) \subseteq Keys(MergeAssetEvents(CollectProcesses(r), r.events))
  BY <1>2, <1>3, CollectedIs, MergeKeeps
<1>4. r.events = <<>> => MergeAssetEvents(CollectProcesses(r), r.events) = CollectProcesses(r)
  BY NothingToMerge
<1> QED  BY <1>1, <1>3, <1>4

-----------------------------------------------------------------------------
(* What a scan shows was so, and what was in sight it shows                *)

\* Scan s has x in one of the ways a rule looks at.
Has(what, x, s) ==
  CASE what = "port"    -> x \in DOMAIN s.openPorts
    [] what = "service" -> x \in DOMAIN s.services
    [] what = "failed"  -> x \in DOMAIN s.services /\ s.services[x] = "failed"
    [] what = "program" -> x \in Keys(s.processes)
    [] what = "root"    -> \E i \in DOMAIN s.processes :
                             ProcessKey(s.processes[i]) = x /\ s.processes[i].user = "root"

Looked == {"port", "service", "failed", "program", "root"}

LEMMA FieldSeen ==
  ASSUME NEW r \in Reading, NEW i \in DOMAIN r.pids, NEW field \in Field
  PROVE  SomeField(r, r.pids[i], field, FieldOf(r, r.pids[i], field))
<1>1. CASE Unread(r, r.pids[i], field)
  BY <1>1 DEF SomeField, FieldOf
<1>2. CASE ~Unread(r, r.pids[i], field)
  <2>1. r.pids[i].at \in [Field -> DOMAIN r.moments \cup {Never}]
    BY ListedIs
  <2>2. r.pids[i].at[field] \in DOMAIN r.moments
    BY <1>2, <2>1 DEF Unread
  <2> QED  BY <1>2, <2>2 DEF SomeField, FieldOf, Unread
<1> QED  BY <1>1, <1>2

LEMMA ShownWasSo ==
  ASSUME NEW r \in Reading, NEW what \in Looked, NEW x, Has(what, x, ScanOf(r)),
         what \in {"program", "root"} => r.events = <<>>
  PROVE  Glimpsed(what, x, r)
<1> DEFINE M == DOMAIN r.moments
<1>0. IsReading(r)
  BY ReadingAssumption
<1>1. CASE what = "port"
  <2>0. x \in DOMAIN ScanOf(r).openPorts
    BY <1>1 DEF Has
  <2>1. Owned(r, x)
    BY <2>0, PortsOf
  <2>2. PICK file \in 1..4 : \E s \in ParseProcNetFile(r, file) :
          /\ s.port = x /\ s.inode # NoInode
          /\ \E i \in DOMAIN r.links : Target(r, r.links[i]) = s.inode
    BY <2>1 DEF Owned
  <2>3. PICK s \in ParseProcNetFile(r, file), i \in DOMAIN r.links :
          s.port = x /\ s.inode # NoInode /\ Target(r, r.links[i]) = s.inode
    BY <2>2
  <2>4. r.files[file] \in M /\ s \in r.moments[r.files[file]].sockets
    BY <1>0, <2>3 DEF IsReading, ParseProcNetFile
  <2>5. /\ r.links[i].at # Never /\ <<r.links[i].pid, r.links[i].fd>> \in DOMAIN r.moments[r.links[i].at].fds
        /\ r.moments[r.links[i].at].fds[<<r.links[i].pid, r.links[i].fd>>] = s.inode
    BY <2>3 DEF Target
  <2>6. r.links[i].at \in M
    BY <2>5, LinkIs
  <2> QED  BY <1>1, <2>3, <2>4, <2>5, <2>6 DEF Glimpsed
<1>2. CASE what \in {"service", "failed"}
  <2>1. x \in DOMAIN ScanOf(r).services /\ (what = "failed" => ScanOf(r).services[x] = "failed")
    BY <1>2 DEF Has
  <2>2. r.services # Never /\ r.services \in M
    BY <1>0, <2>1, ServicesOf DEF IsReading
  <2>3. x \in DOMAIN r.moments[r.services].units
        /\ (what = "failed" => r.moments[r.services].units[x][1] = "failed")
    BY <2>1, <2>2, ServicesOf, StatesMapped
  <2> QED  BY <1>2, <2>2, <2>3 DEF Glimpsed
<1>3. CASE what \in {"program", "root"}
  <2>1. ScanOf(r).processes = CollectProcesses(r)
    BY <1>3, ProcessesOf
  <2>2. PICK i \in DOMAIN CollectProcesses(r) :
          /\ ProcessKey(CollectProcesses(r)[i]) = x
          /\ what = "root" => CollectProcesses(r)[i].user = "root"
    BY <1>3, <2>1 DEF Has, Keys
  <2>3. r.listed
    BY <2>2 DEF CollectProcesses
  <2>4. /\ i \in DOMAIN r.pids /\ x = <<FieldOf(r, r.pids[i], "name"), FieldOf(r, r.pids[i], "exe")>>
        /\ what = "root" => FieldOf(r, r.pids[i], "user") = "root"
    BY <2>2, <2>3, CollectedIs
  <2>5. \A field \in Field : SomeField(r, r.pids[i], field, FieldOf(r, r.pids[i], field))
    BY <2>4, FieldSeen
  <2>6. /\ SomeField(r, r.pids[i], "name", x[1]) /\ SomeField(r, r.pids[i], "exe", x[2])
        /\ what = "root" => SomeField(r, r.pids[i], "user", "root")
    BY <2>4, <2>5 DEF Field
  <2> QED  BY <1>3, <2>4, <2>6 DEF Glimpsed
<1> QED  BY <1>1, <1>2, <1>3 DEF Looked

LEMMA FieldHeld ==
  ASSUME NEW r \in Reading, NEW i \in DOMAIN r.pids, NEW field \in Field, NEW v,
         \A m \in DOMAIN r.moments : r.pids[i].pid \in DOMAIN r.moments[m].procs,
         EachField(r, r.pids[i].pid, field, v)
  PROVE  FieldOf(r, r.pids[i], field) = v
<1>1. r.pids[i].at \in [Field -> DOMAIN r.moments \cup {Never}]
  BY ListedIs
<1>2. r.pids[i].at[field] \in DOMAIN r.moments \cup {Never}
  BY <1>1
<1>3. IF r.pids[i].at[field] = Never THEN v = Blank(field)
      ELSE \A m \in DOMAIN r.moments : r.moments[m].procs[r.pids[i].pid][field] = v
  BY DEF EachField
<1> QED  BY <1>2, <1>3 DEF FieldOf, Unread

LEMMA InSightIsShown ==
  ASSUME NEW r \in Reading, NEW what \in Looked, NEW x, InSight(what, x, r),
         what \in {"program", "root"} => x = <<x[1], x[2]>>,
         what = "root" => r.events = <<>>
  PROVE  Has(what, x, ScanOf(r))
<1> DEFINE M == DOMAIN r.moments
<1>0. IsReading(r) /\ 1 \in M
  BY ReadingAssumption DEF IsReading
<1>1. CASE what = "port"
  <2>1. r.listed
    BY <1>1 DEF InSight
  <2>2. PICK s \in r.moments[1].sockets, h \in DOMAIN r.moments[1].fds :
          /\ s.port = x /\ s.inode # NoInode /\ s.file \in 1..4 /\ r.files[s.file] # Never
          /\ \A m \in M : s \in r.moments[m].sockets
          /\ \A m \in M : h \in DOMAIN r.moments[m].fds /\ r.moments[m].fds[h] = s.inode
          /\ \A i \in DOMAIN r.links : <<r.links[i].pid, r.links[i].fd>> = h => r.links[i].at # Never
    BY <1>1 DEF InSight
  <2>3. s \in ParseProcNetFile(r, s.file)
    <3>1. r.files[s.file] \in M
      BY <1>0, <2>2 DEF IsReading
    <3> QED  BY <2>2, <3>1 DEF ParseProcNetFile
  <2>4. PICK i \in DOMAIN r.links : <<r.links[i].pid, r.links[i].fd>> = h
    BY <1>0, <2>2 DEF IsReading
  <2>5. Target(r, r.links[i]) = s.inode
    <3>1. r.links[i].at \in M
      BY <2>2, <2>4, LinkIs
    <3> QED  BY <2>2, <2>4, <3>1 DEF Target
  <2>6. x \in DOMAIN ScanOf(r).openPorts
    BY <2>1, <2>2, <2>3, <2>5, PortsOf DEF Owned
  <2> QED  BY <1>1, <2>6 DEF Has
<1>2. CASE what \in {"service", "failed"}
  <2>1. r.services \in M /\ r.services # Never
    BY <1>0, <1>2 DEF InSight, IsReading
  <2>2. x \in DOMAIN r.moments[r.services].units
        /\ (what = "failed" => r.moments[r.services].units[x][1] = "failed")
    BY <1>2, <2>1 DEF InSight
  <2>3. x \in DOMAIN ScanOf(r).services /\ (what = "failed" => ScanOf(r).services[x] = "failed")
    BY <2>1, <2>2, ServicesOf, StatesMapped
  <2> QED  BY <1>2, <2>3 DEF Has
<1>3. CASE what \in {"program", "root"}
  <2>1. r.listed
    BY <1>3 DEF InSight
  <2>2. PICK p \in DOMAIN r.moments[1].procs :
          /\ \A m \in M : p \in DOMAIN r.moments[m].procs
          /\ EachField(r, p, "name", x[1]) /\ EachField(r, p, "exe", x[2])
          /\ what = "root" => EachField(r, p, "user", "root")
    BY <1>3 DEF InSight
  <2>3. PICK i \in DOMAIN r.pids : r.pids[i].pid = p
    BY <1>0, <2>1, <2>2 DEF IsReading
  <2>4. "name" \in Field /\ "exe" \in Field /\ "user" \in Field
    BY DEF Field
  <2>5. FieldOf(r, r.pids[i], "name") = x[1] /\ FieldOf(r, r.pids[i], "exe") = x[2]
    BY <2>2, <2>3, <2>4, FieldHeld
  <2>6. what = "root" => FieldOf(r, r.pids[i], "user") = "root"
    BY <2>2, <2>3, <2>4, FieldHeld
  <2>7. /\ ProcessKey(CollectProcesses(r)[i]) = <<x[1], x[2]>> /\ i \in DOMAIN CollectProcesses(r)
        /\ what = "root" => CollectProcesses(r)[i].user = "root"
    BY <2>1, <2>5, <2>6, CollectedIs
  <2> QED  BY <1>3, <2>1, <2>7, ProcessesOf DEF Has, Keys
<1> QED  BY <1>1, <1>2, <1>3 DEF Looked

-----------------------------------------------------------------------------
(* Findings against the truth, of two readings                             *)

\* A finding is of one kind, and of a key which the rule of its kind yields.
LEMMA FindingIs ==
  ASSUME NEW b, NEW s, NEW f
  PROVE  f \in Findings(b, s) <=>
           \/ f = <<"PORT_BIND_CHANGE", f[2]>> /\ f[2] \in PortBindChange(b, s)
           \/ f = <<"UNKNOWN_PORT", f[2]>> /\ f[2] \in UnknownPort(b, s)
           \/ f = <<"SERVICE_CRASHED", f[2]>> /\ f[2] \in ServiceCrashed(b, s)
           \/ f = <<"NEW_SERVICE", f[2]>> /\ f[2] \in NewService(b, s)
           \/ f = <<"UNKNOWN_PROCESS", f[2]>> /\ f[2] \in UnknownProcess(b, s)
<1>1. \A k, S : f \in {k} \X S <=> f = <<k, f[2]>> /\ f[2] \in S
  OBVIOUS
<1> QED  BY <1>1 DEF Findings

LEMMA KeysOf ==
  ASSUME NEW procs
  PROVE  DOMAIN ByKey(procs) = Keys(procs)
BY DEF ByKey, Keys

\* The rule of severity CRITICAL never fires: the collector knows no addresses.
THEOREM BindChangeNeverFires ==
  ASSUME NEW q, NEW r
  PROVE  PortBindChange(ScanOf(q), ScanOf(r)) = {}
<1>1. \A p \in DOMAIN ScanOf(r).openPorts : ScanOf(r).openPorts[p].bind = ""
  BY PortsOf
<1>2. \A p \in DOMAIN ScanOf(q).openPorts : ScanOf(q).openPorts[p].bind = ""
  BY PortsOf
<1> QED  BY <1>1, <1>2 DEF PortBindChange

\* What is found of two scans the later one has, and the earlier one has not.
LEMMA FindingHas ==
  ASSUME NEW q, NEW r, NEW f \in Findings(ScanOf(q), ScanOf(r))
  PROVE  /\ f[1] \in Rules
         /\ Has(Reported(f[1]), f[2], ScanOf(r)) /\ ~Has(Known(f[1]), f[2], ScanOf(q))
         /\ f[1] = "UNKNOWN_PROCESS" => f[2] = <<f[2][1], f[2][2]>>
<1> DEFINE k == f[2]
           b == ScanOf(q)
           s == ScanOf(r)
<1>1. CASE f = <<"PORT_BIND_CHANGE", k>> /\ k \in PortBindChange(b, s)
  BY <1>1, BindChangeNeverFires
<1>2. CASE f = <<"UNKNOWN_PORT", k>> /\ k \in UnknownPort(b, s)
  <2>1. f[1] = "UNKNOWN_PORT"
    BY <1>2
  <2> HIDE DEF k, b, s
  <2> QED  BY <1>2, <2>1 DEF UnknownPort, Rules, Reported, Known, Has, k, b, s
<1>3. CASE f = <<"SERVICE_CRASHED", k>> /\ k \in ServiceCrashed(b, s)
  <2>1. f[1] = "SERVICE_CRASHED"
    BY <1>3
  <2> QED  BY <1>3, <2>1 DEF ServiceCrashed, Rules, Reported, Known, Has
<1>4. CASE f = <<"NEW_SERVICE", k>> /\ k \in NewService(b, s)
  <2>1. f[1] = "NEW_SERVICE"
    BY <1>4
  <2> QED  BY <1>4, <2>1 DEF NewService, Rules, Reported, Known, Has
<1>5. CASE f = <<"UNKNOWN_PROCESS", k>> /\ k \in UnknownProcess(b, s)
  <2>1. f[1] = "UNKNOWN_PROCESS"
    BY <1>5
  <2>2. PICK i \in DOMAIN s.processes : s.processes[i].user = "root" /\ ProcessKey(s.processes[i]) = k
    BY <1>5 DEF UnknownProcess
  <2>3. k \notin Keys(b.processes)
    BY <1>5, KeysOf DEF UnknownProcess
  <2>4. k = <<k[1], k[2]>>
    BY <2>2 DEF ProcessKey
  <2> HIDE DEF k, b, s
  <2> QED  BY <2>1, <2>2, <2>3, <2>4 DEF Rules, Reported, Known, Has, k, b, s
<1> QED  BY <1>1, <1>2, <1>3, <1>4, <1>5, FindingIs

\* And what one scan has and the other has not is found.
LEMMA HasIsFound ==
  ASSUME NEW q, NEW r, NEW rule \in Rules, NEW x, Has(Reported(rule), x, ScanOf(r)),
         IF rule = "SERVICE_CRASHED"
         THEN x \in DOMAIN ScanOf(q).services /\ ScanOf(q).services[x] = "running"
         ELSE ~Has(Known(rule), x, ScanOf(q))
  PROVE  <<rule, x>> \in Findings(ScanOf(q), ScanOf(r))
<1> DEFINE f == <<rule, x>>
           b == ScanOf(q)
           s == ScanOf(r)
<1>0. f[1] = rule /\ f[2] = x
  OBVIOUS
<1> HIDE DEF b, s
<1>1. CASE rule = "UNKNOWN_PORT"
  <2>1. x \in UnknownPort(b, s)
    BY <1>1 DEF UnknownPort, Reported, Known, Has, b, s
  <2> QED  BY <1>1, <2>1, FindingIs DEF b, s
<1>2. CASE rule = "NEW_SERVICE"
  <2>1. x \in NewService(b, s)
    BY <1>2 DEF NewService, Reported, Known, Has, b, s
  <2> QED  BY <1>2, <2>1, FindingIs DEF b, s
<1>3. CASE rule = "SERVICE_CRASHED"
  <2>1. x \in ServiceCrashed(b, s)
    BY <1>3 DEF ServiceCrashed, Reported, Has, b, s
  <2> QED  BY <1>3, <2>1, FindingIs DEF b, s
<1>4. CASE rule = "UNKNOWN_PROCESS"
  <2>1. x \notin DOMAIN ByKey(b.processes)
    BY <1>4, KeysOf DEF Known, Has, b
  <2>2. PICK i \in DOMAIN s.processes : ProcessKey(s.processes[i]) = x /\ s.processes[i].user = "root"
    BY <1>4 DEF Reported, Has, s
  <2>3. x \in UnknownProcess(b, s)
    BY <2>1, <2>2 DEF UnknownProcess
  <2> QED  BY <1>4, <2>3, FindingIs DEF b, s
<1> QED  BY <1>1, <1>2, <1>3, <1>4 DEF Rules

LEMMA KindsAre ==
  ASSUME NEW rule \in Rules
  PROVE  /\ Reported(rule) \in Looked /\ Known(rule) \in Looked
         /\ Reported(rule) \in {"program", "root"} <=> rule = "UNKNOWN_PROCESS"
         /\ Known(rule) \in {"program", "root"} <=> rule = "UNKNOWN_PROCESS"
         /\ Known(rule) # "root"
<1>1. CASE rule = "UNKNOWN_PORT"
  BY <1>1 DEF Reported, Known, Looked
<1>2. CASE rule = "NEW_SERVICE"
  BY <1>2 DEF Reported, Known, Looked
<1>3. CASE rule = "SERVICE_CRASHED"
  BY <1>3 DEF Reported, Known, Looked
<1>4. CASE rule = "UNKNOWN_PROCESS"
  BY <1>4 DEF Reported, Known, Looked
<1> QED  BY <1>1, <1>2, <1>3, <1>4 DEF Rules

LEMMA FindingReal ==
  ASSUME NEW q \in Reading, NEW r \in Reading, NEW f \in Findings(ScanOf(q), ScanOf(r))
  PROVE  /\ f[1] \in Rules
         /\ (f[1] = "UNKNOWN_PROCESS" /\ r.events # <<>>) \/ Glimpsed(Reported(f[1]), f[2], r)
         /\ ~InSight(Known(f[1]), f[2], q)
<1> DEFINE rule == f[1]
           x == f[2]
<1>1. /\ rule \in Rules /\ Has(Reported(rule), x, ScanOf(r)) /\ ~Has(Known(rule), x, ScanOf(q))
      /\ rule = "UNKNOWN_PROCESS" => x = <<x[1], x[2]>>
  BY FindingHas
<1> HIDE DEF rule, x
<1>2. (rule = "UNKNOWN_PROCESS" /\ r.events # <<>>) \/ Glimpsed(Reported(rule), x, r)
  BY <1>1, KindsAre, ShownWasSo
<1>3. ~InSight(Known(rule), x, q)
  BY <1>1, KindsAre, InSightIsShown
<1> QED  BY <1>1, <1>2, <1>3 DEF rule, x

\* What could be in sight, taken apart.
LEMMA SubjectIs ==
  ASSUME NEW r, NEW f \in Subjects(r)
  PROVE  f[1] \in Rules /\ f = <<f[1], f[2]>> /\ (f[1] = "UNKNOWN_PROCESS" => f[2] = <<f[2][1], f[2][2]>>)
<1> DEFINE ports == {s.port : s \in r.moments[1].sockets}
           units == DOMAIN r.moments[1].units
           keys == UNION {{r.moments[1].procs[p]["name"], ""} \X {r.moments[1].procs[p]["exe"], ""} :
                            p \in DOMAIN r.moments[1].procs}
<1>1. \A k \in keys : k = <<k[1], k[2]>>
  <2> SUFFICES ASSUME NEW A, NEW B, NEW k \in A \X B PROVE k = <<k[1], k[2]>>
    BY DEF keys
  <2> QED  OBVIOUS
<1>2. f \in ({"UNKNOWN_PORT"} \X ports) \cup ({"NEW_SERVICE", "SERVICE_CRASHED"} \X units)
             \cup ({"UNKNOWN_PROCESS"} \X keys)
  BY DEF Subjects
<1> HIDE DEF ports, units, keys
<1> QED  BY <1>1, <1>2 DEF Rules

LEMMA DeviationFound ==
  ASSUME NEW q \in Reading, NEW r \in Reading, NEW f \in Subjects(r),
         ~(f[1] = "UNKNOWN_PROCESS" /\ r.events # <<>>), ~(f[1] = "UNKNOWN_PROCESS" /\ q.events # <<>>),
         InSight(Reported(f[1]), f[2], r),
         IF f[1] = "SERVICE_CRASHED"
         THEN f[2] \in DOMAIN ScanOf(q).services /\ ScanOf(q).services[f[2]] = "running"
         ELSE ~Glimpsed(Known(f[1]), f[2], q)
  PROVE  f \in Findings(ScanOf(q), ScanOf(r))
<1> DEFINE rule == f[1]
           x == f[2]
<1>1. rule \in Rules /\ f = <<rule, x>> /\ (rule = "UNKNOWN_PROCESS" => x = <<x[1], x[2]>>)
  BY SubjectIs
<1> HIDE DEF rule, x
<1>2. Has(Reported(rule), x, ScanOf(r))
  <2>1. InSight(Reported(rule), x, r) /\ (rule = "UNKNOWN_PROCESS" => r.events = <<>>)
    BY DEF rule, x
  <2> QED  BY <1>1, <2>1, KindsAre, InSightIsShown
<1>3. rule # "SERVICE_CRASHED" => ~Has(Known(rule), x, ScanOf(q))
  <2>1. /\ rule # "SERVICE_CRASHED" => ~Glimpsed(Known(rule), x, q)
        /\ rule = "UNKNOWN_PROCESS" => q.events = <<>>
    BY DEF rule, x
  <2> QED  BY <1>1, <2>1, KindsAre, ShownWasSo
<1>4. rule = "SERVICE_CRASHED" => x \in DOMAIN ScanOf(q).services /\ ScanOf(q).services[x] = "running"
  BY DEF rule, x
<1> QED  BY <1>1, <1>2, <1>3, <1>4, HasIsFound

LEMMA ScanIs ==
  ASSUME TypeOK, NEW i \in Captured
  PROVE  readings[i] \in Reading /\ Scan(i) = ScanOf(readings[i])
<1>1. readings[i] \in Reading
  BY DEF TypeOK, Captured
<1> QED  BY <1>1 DEF Scan, ContentOf

\* No finding is a false alarm, for all readings and any number of scans.
THEOREM NoFalseAlarm == Spec => []FindingsReal
<1>1. TypeOK => FindingsReal
  <2> SUFFICES ASSUME TypeOK, NEW b \in Captured, NEW f \in Findings(Scan(b), Scan(Newest))
               PROVE  /\ f[1] \in Rules
                      /\ FromEvent(f, Newest) \/ Glimpsed(Reported(f[1]), f[2], readings[Newest])
                      /\ ~InSight(Known(f[1]), f[2], readings[b])
    BY DEF FindingsReal
  <2>1. Newest \in Captured
    BY DEF Newest, Captured, TypeOK
  <2> QED  BY <2>1, ScanIs, FindingReal DEF FromEvent
<1> QED  BY <1>1, TypeCorrect, PTL

\* No deviation is missed, for all readings and any number of scans.
THEOREM NoDeviationMissed == Spec => []DeviationsFound
<1>1. TypeOK => DeviationsFound
  <2> SUFFICES ASSUME TypeOK, NEW b \in Captured, NEW f \in Subjects(readings[Newest]),
                      ~FromEvent(f, Newest), ~FromEvent(f, b),
                      InSight(Reported(f[1]), f[2], readings[Newest]),
                      IF f[1] = "SERVICE_CRASHED"
                      THEN f[2] \in DOMAIN Scan(b).services /\ Scan(b).services[f[2]] = "running"
                      ELSE ~Glimpsed(Known(f[1]), f[2], readings[b])
               PROVE  f \in Findings(Scan(b), Scan(Newest))
    BY DEF DeviationsFound
  <2>1. Newest \in Captured
    BY DEF Newest, Captured, TypeOK
  <2> QED  BY <2>1, ScanIs, DeviationFound DEF FromEvent
<1> QED  BY <1>1, TypeCorrect, PTL

=============================================================================
