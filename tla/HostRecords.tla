---------------------------- MODULE HostRecords -----------------------------
(***************************************************************************)
(* What the server keeps about one host, and who changes it: the pg-writer *)
(* (workers/pg_writer.go) stores each scan as a snapshot, the difference   *)
(* to the snapshot before it, and the first baseline; administrators       *)
(* approve baselines (api/admin.go); and operators clear them by hand (the *)
(* "manually cleared" of baselines.go: section 10.3 of the manual has an   *)
(* UPDATE that makes all of the host's baselines inactive).                *)
(*                                                                         *)
(* Scans reach the workers through a consumer group (ConsumerGroup): a     *)
(* scan may come late, because an agent had it in its cache, may come      *)
(* again, and two writers may have it at once.  So a worker here may take  *)
(* any scan at any time.  Every database statement is a step, but those of *)
(* a transaction show when it commits.  The database is PostgreSQL at its  *)
(* default isolation, READ COMMITTED: an UPDATE changes the rows that were *)
(* committed when the statement began, waits for rows another transaction  *)
(* has locked, and leaves out those that no longer match when it gets them.*)
(*                                                                         *)
(* A scan is its captured_at.  Rows with equal content are one row:        *)
(* duplicate snapshots and diffs of a redelivered scan.  The id of an old  *)
(* baseline is used again when no transaction knows it any more.           *)
(***************************************************************************)
EXTENDS Naturals, FiniteSets

CONSTANTS
  Scan,      \* the host's scans, numbered by captured_at
  Writer,    \* goroutines in PGWriter.handle for this host
  Admin,     \* requests in handleApproveBaseline for this host
  Operator   \* operators at a psql prompt

ASSUME HostAssumption ==
  /\ Scan \subseteq Nat \ {0}
  /\ Writer \cap Admin = {} /\ Operator \cap (Writer \cup Admin) = {}

None == 0    \* no scan
Approver == Writer \cup Admin            \* whoever calls SetBaseline
Session == Approver \cup Operator

VARIABLES
  snapshots,  \* the scans in host_snapshots
  diffs,      \* config_diffs: <<prev, next>> when the rows between them are stored
  active,     \* the rows of baselines with is_active: id, scan, and whether
              \* approved_by is "system:auto"
  pc,         \* where each writer, each request and each operator is
  scan,       \* the scan it works on: a request's is the one it approves
  prev,       \* the snapshot it compares that scan with
  seen,       \* the UPDATE of baselines: active rows committed when it began
  locked,     \* and those it changed, locked until its transaction ends
  stands      \* history: an approval took the place of all there was, when no
              \* automatic one was under way, and no reset has taken any since

recordVars == <<snapshots, diffs, active>>
txVars == <<seen, locked>>
vars == <<recordVars, pc, scan, prev, txVars, stands>>

Pc == {"idle", "read", "insert", "diff", "check", "begin", "update", "commit"}
Transaction == {"begin", "update", "commit"}

\* ORDER BY captured_at DESC LIMIT 1
LatestSnapshot ==
  IF snapshots = {} THEN None ELSE CHOOSE s \in snapshots : \A t \in snapshots : t <= s

Goto(t, l) == pc' = [pc EXCEPT ![t] = l]

\* The handler or request of t is over, and with it a transaction it had open.
Return(t) ==
  /\ Goto(t, "idle")
  /\ scan' = [scan EXCEPT ![t] = None] /\ prev' = [prev EXCEPT ![t] = None]
  /\ seen' = [seen EXCEPT ![t] = {}] /\ locked' = [locked EXCEPT ![t] = {}]

-----------------------------------------------------------------------------
(* PGWriter.handle                                                         *)

Take(w) ==
  /\ pc[w] = "idle"
  /\ \E s \in Scan : scan' = [scan EXCEPT ![w] = s]
  /\ Goto(w, "read")
  /\ UNCHANGED <<recordVars, prev, txVars, stands>>

ReadLatest(w) ==
  /\ pc[w] = "read" /\ w \in Writer
  /\ prev' = [prev EXCEPT ![w] = LatestSnapshot]
  /\ Goto(w, "insert")
  /\ UNCHANGED <<recordVars, scan, txVars, stands>>

\* Mutant of InsertSnapshot: its error is logged and not returned.
InsertSnapshotOrLog(w) ==
  /\ pc[w] = "insert"
  /\ snapshots' \in {snapshots, snapshots \cup {scan[w]}}
  /\ Goto(w, IF prev[w] = None THEN "check" ELSE "diff")
  /\ UNCHANGED <<diffs, active, scan, prev, txVars, stands>>

InsertSnapshot(w) ==
  /\ pc[w] = "insert"
  /\ snapshots' = snapshots \cup {scan[w]}
  /\ Goto(w, IF prev[w] = None THEN "check" ELSE "diff")
  /\ UNCHANGED <<diffs, active, scan, prev, txVars, stands>>

\* ComputeAndStoreDiffs: one batch, stored as a whole; between equal scans there
\* is nothing to store, and an error is only logged.
StoreDiffs(w) ==
  /\ pc[w] = "diff"
  /\ diffs' \in {diffs, IF prev[w] = scan[w] THEN diffs ELSE diffs \cup {<<prev[w], scan[w]>>}}
  /\ Goto(w, "check") /\ prev' = [prev EXCEPT ![w] = None]
  /\ UNCHANGED <<snapshots, active, scan, txVars, stands>>

\* Mutant of CheckBaseline: only while the host has no other snapshot.
CheckOnFirst(w) ==
  /\ pc[w] = "check"
  /\ IF active = {} /\ snapshots = {scan[w]}
     THEN Goto(w, "begin") /\ UNCHANGED <<scan, prev, txVars>> ELSE Return(w)
  /\ UNCHANGED <<recordVars, stands>>

\* AutoApproveFirstScan: nothing to do when some baseline is active.
CheckBaseline(w) ==
  /\ pc[w] = "check"
  /\ IF active = {} THEN Goto(w, "begin") /\ UNCHANGED <<scan, prev, txVars>> ELSE Return(w)
  /\ UNCHANGED <<recordVars, stands>>

-----------------------------------------------------------------------------
(* handleApproveBaseline                                                   *)

\* The latest snapshot is what gets approved; 404 when there is none.
Approve(a) ==
  /\ pc[a] = "idle" /\ a \in Admin
  /\ snapshots # {}
  /\ scan' = [scan EXCEPT ![a] = LatestSnapshot]
  /\ Goto(a, "begin")
  /\ UNCHANGED <<recordVars, prev, txVars, stands>>

-----------------------------------------------------------------------------
(* SetBaseline, one transaction.                                           *)

\* BEGIN; the UPDATE finds the active rows that are committed.
FindActive(t) ==
  /\ pc[t] = "begin"
  /\ seen' = [seen EXCEPT ![t] = active]
  /\ Goto(t, "update")
  /\ UNCHANGED <<recordVars, scan, prev, locked, stands>>

\* Mutant of Deactivate: only one of the active rows is changed.
DeactivateOne(t) ==
  /\ pc[t] = "update"
  /\ \A u \in Session \ {t} : locked[u] \cap seen[t] = {}
  /\ locked' = [locked EXCEPT ![t] = {b \in seen[t] \cap active : \A c \in active : b.id <= c.id}]
  /\ Goto(t, "commit")
  /\ UNCHANGED <<recordVars, scan, prev, seen, stands>>

\* Mutant of Deactivate: the UPDATE runs in a transaction of its own.
DeactivateAtOnce(t) ==
  /\ pc[t] = "update"
  /\ \A u \in Session \ {t} : locked[u] \cap seen[t] = {}
  /\ active' = active \ seen[t]
  /\ Goto(t, "commit")
  /\ UNCHANGED <<snapshots, diffs, scan, prev, txVars, stands>>

\* The UPDATE has every row it found to itself, and changes those still active.
Deactivate(t) ==
  /\ pc[t] = "update"
  /\ \A u \in Session \ {t} : locked[u] \cap seen[t] = {}
  /\ locked' = [locked EXCEPT ![t] = seen[t] \cap active]
  /\ Goto(t, "commit")
  /\ UNCHANGED <<recordVars, scan, prev, seen, stands>>

UsedIds == {b.id : b \in active \cup UNION {seen[u] : u \in Session}}
NewId == CHOOSE i \in 1..(Cardinality(UsedIds) + 1) : i \notin UsedIds

\* The INSERT of the new active row, and COMMIT.
CommitBaseline(t) ==
  /\ pc[t] = "commit" /\ t \in Approver
  /\ active' = (active \ locked[t]) \cup {[id |-> NewId, of |-> scan[t], auto |-> t \in Writer]}
  /\ stands' = IF t \in Writer THEN stands
                ELSE /\ stands \/ seen[t] = active
                     /\ \A w \in Writer : pc[w] \notin Transaction
  /\ Return(t)
  /\ UNCHANGED <<snapshots, diffs>>

-----------------------------------------------------------------------------
(* The manual's UPDATE, a transaction of one statement.  (It has no        *)
(* is_active = true: the rows that are inactive already stay as they are.) *)

Reset(o) ==
  /\ pc[o] = "idle"
  /\ Goto(o, "begin")
  /\ UNCHANGED <<recordVars, scan, prev, txVars, stands>>

CommitReset(o) ==
  /\ pc[o] = "commit"
  /\ active' = active \ locked[o]
  /\ stands' = (stands /\ locked[o] = {})
  /\ Return(o)
  /\ UNCHANGED <<snapshots, diffs>>

-----------------------------------------------------------------------------
\* A statement fails or its process dies: an open transaction is rolled back, and
\* the handler goes no further.
Break(t) ==
  /\ pc[t] # "idle"
  /\ Return(t)
  /\ UNCHANGED <<recordVars, stands>>

-----------------------------------------------------------------------------
Init ==
  /\ snapshots = {} /\ diffs = {} /\ active = {} /\ stands = FALSE
  /\ pc = [t \in Session |-> "idle"] /\ scan = [t \in Session |-> None]
  /\ prev = [t \in Session |-> None]
  /\ seen = [t \in Session |-> {}] /\ locked = [t \in Session |-> {}]

Next ==
  \/ \E w \in Writer : \/ Take(w) \/ ReadLatest(w) \/ InsertSnapshot(w)
                       \/ StoreDiffs(w) \/ CheckBaseline(w)
  \/ \E a \in Admin : Approve(a)
  \/ \E o \in Operator : Reset(o) \/ CommitReset(o)
  \/ \E t \in Approver : CommitBaseline(t)
  \/ \E t \in Session : FindActive(t) \/ Deactivate(t) \/ Break(t)

Spec == Init /\ [][Next]_vars

\* Scans keep coming (cron), and a handler that has begun goes on.  No request for
\* an approval need ever come, nor a reset end, and no statement is assumed to succeed.
Fairness ==
  /\ \A w \in Writer : /\ WF_vars(Take(w)) /\ WF_vars(ReadLatest(w)) /\ WF_vars(InsertSnapshot(w))
                       /\ WF_vars(StoreDiffs(w)) /\ WF_vars(CheckBaseline(w))
  /\ \A t \in Approver : WF_vars(CommitBaseline(t))
  /\ \A o \in Operator : WF_vars(CommitReset(o))
  /\ \A t \in Session : WF_vars(FindActive(t)) /\ WF_vars(Deactivate(t))

FairSpec == Spec /\ Fairness

-----------------------------------------------------------------------------
\* Every variable has its type; a transaction locks rows it has found, that are
\* still active, and only before it ends.  Whatever overlaps or breaks off, no diff
\* and no active baseline exists whose scans are not stored as snapshots (handle
\* inserts the snapshot first, and goes no further when that fails).
Baseline == [id : Nat, of : Scan, auto : BOOLEAN]
TypeOK ==
  /\ snapshots \subseteq Scan /\ diffs \subseteq snapshots \X snapshots
  /\ active \subseteq {b \in Baseline : b.of \in snapshots} /\ stands \in BOOLEAN
  /\ pc \in [Session -> Pc] /\ scan \in [Session -> Scan \cup {None}]
  /\ prev \in [Session -> Scan \cup {None}]
  /\ seen \in [Session -> SUBSET Baseline] /\ locked \in [Session -> SUBSET Baseline]
  /\ \A t \in Session : /\ locked[t] \subseteq seen[t] \cap active
                        /\ seen[t] # {} => pc[t] \in {"update", "commit"}

\* What an administrator has approved stands until a reset takes it: there is a
\* baseline, and none that the pg-writer chose itself.  A crash, a rollback or an
\* overlap between the UPDATE and the INSERT of a later approval does not leave the
\* host without one, and no scan that comes, however late, puts an automatic one in
\* its place: AutoApproveFirstScan looks for an active one each time.  (Only a
\* transaction of its own that was open when the approval committed does: `stands`
\* leaves that out, and AutoOnlyFirst shows it.)
ApprovalStands == stands => active # {} /\ \A b \in active : ~b.auto

\* An approval during which no other one commits leaves exactly its own baseline,
\* also when several were active before ("deactivates all previous baselines").
AloneLeavesOne ==
  [][\A t \in Approver : CommitBaseline(t) /\ seen[t] = active =>
       Cardinality(active') = 1 /\ \A b \in active' : b.of = scan[t]]_vars

\* When statements stop failing and processes stop crashing, the host gets a
\* baseline, even if the handler of its first scan broke off after the snapshot, and
\* gets one again after each reset.  (A CheckBaseline that finds one looks like a
\* Break.)
Settling == <>[][\A t \in Session : Break(t) => t \in Writer /\ CheckBaseline(t)]_vars
Approved == Settling => []<>(active # {})

-----------------------------------------------------------------------------
(* A claim that is not kept.                                               *)

\* baselines.go:72: AutoApproveFirstScan "sets the baseline automatically when a host
\* has no existing baseline".
AutoOnlyFirst == [][\A w \in Writer : CommitBaseline(w) => active = {}]_vars

-----------------------------------------------------------------------------
(* What the properties rest on (HostRecordsProofs).                        *)

\* There is a latest snapshot, and an id that no transaction knows.
LatestExists == snapshots # {} => \E m \in snapshots : \A s \in snapshots : s <= m
IdsFinite == IsFiniteSet(UsedIds)

\* Whoever has come past the INSERT of a snapshot has its scan stored, and the one it
\* is compared with.
Working ==
  /\ \A t \in Approver : /\ pc[t] # "idle" => scan[t] \in Scan
                         /\ pc[t] \notin {"idle", "read", "insert"} => scan[t] \in snapshots
                         /\ pc[t] = "diff" => prev[t] \in snapshots
                         /\ prev[t] \in snapshots \cup {None}
  /\ \A o \in Operator : pc[o] \in {"idle"} \cup Transaction /\ prev[o] = None

\* A transaction that has updated has locked all rows it found and that are still
\* active, and no row is locked twice.
Locks ==
  /\ \A t \in Session : locked[t] = IF pc[t] = "commit" THEN seen[t] \cap active ELSE {}
  /\ \A t, u \in Session : t # u => locked[t] \cap locked[u] = {}

\* While an approval stands no writer has got as far as SetBaseline.
NoneAutomatic == stands => \A w \in Writer : pc[w] \notin Transaction

IInv == TypeOK /\ LatestExists /\ IdsFinite /\ Working /\ Locks /\ NoneAutomatic /\ ApprovalStands

=============================================================================
