------------------------- MODULE HostRecordsProofs --------------------------
(***************************************************************************)
(* What holds of a host's records for any scans, any number of writers and *)
(* requests at work at once, and whatever breaks off.                      *)
(*                                                                         *)
(* That an approval leaves one baseline rests on PostgreSQL's row locks as *)
(* the UPDATE of SetBaseline takes them: until its transaction ends it has *)
(* every row it found that is still active (Locks).  New rows are none of  *)
(* those, for their ids are new to every transaction (NewIdIs).  That an   *)
(* approval stands rests on the look of AutoApproveFirstScan at what is    *)
(* active (NoneAutomatic).                                                 *)
(***************************************************************************)
EXTENDS HostRecords, FiniteSetTheorems, TLAPS

-----------------------------------------------------------------------------
(* Operators                                                               *)

LEMMA LatestSnapshotIs ==
  ASSUME LatestExists, snapshots \subseteq Scan
  PROVE  LatestSnapshot \in snapshots \cup {None} /\ (snapshots # {} => LatestSnapshot \in snapshots)
  BY DEF LatestSnapshot, LatestExists

\* Of one more numbers than there are ids in use, one is not in use.
LEMMA NewIdIs == ASSUME IdsFinite PROVE NewId \in Nat /\ NewId \notin UsedIds
<1> DEFINE n == Cardinality(UsedIds)
<1>1. n \in Nat
  BY FS_CardinalityType DEF IdsFinite
<1>2. IsFiniteSet(1..(n + 1)) /\ Cardinality(1..(n + 1)) = n + 1
  BY <1>1, FS_Interval
<1>3. \E i \in 1..(n + 1) : i \notin UsedIds
  <2> SUFFICES ASSUME 1..(n + 1) \subseteq UsedIds PROVE FALSE
    OBVIOUS
  <2>1. Cardinality(1..(n + 1)) <= n
    BY FS_Subset DEF IdsFinite
  <2> QED  BY <1>1, <1>2, <2>1
<1>4. NewId \in 1..(n + 1) /\ NewId \notin UsedIds
  BY <1>3 DEF NewId
<1> QED  BY <1>1, <1>4

\* A step after which transactions know no row but what they knew, and rows that
\* are or were active.
LEMMA FewerIds ==
  ASSUME IdsFinite, active' \subseteq active,
         \A t \in Session : seen'[t] \subseteq active \cup seen[t]
  PROVE  IdsFinite'
<1>1. UsedIds' \subseteq UsedIds
  BY DEF UsedIds
<1> QED  BY <1>1, FS_Subset DEF IdsFinite

\* The end of a handler or a request.
LEMMA ReturnIs ==
  ASSUME IInv, NEW t \in Session, Return(t)
  PROVE  /\ pc' \in [Session -> Pc] /\ scan' \in [Session -> Scan \cup {None}]
         /\ prev' \in [Session -> Scan \cup {None}]
         /\ seen' \in [Session -> SUBSET Baseline] /\ locked' \in [Session -> SUBSET Baseline]
         /\ pc'[t] = "idle" /\ prev'[t] = None /\ seen'[t] = {} /\ locked'[t] = {}
         /\ \A u \in Session \ {t} : /\ pc'[u] = pc[u] /\ scan'[u] = scan[u] /\ prev'[u] = prev[u]
                                      /\ seen'[u] = seen[u] /\ locked'[u] = locked[u]
  BY DEF Return, Goto, Pc, IInv, TypeOK

\* A step of t that is no transaction's, and moves t on within its handler.
LEMMA OutsideTransaction ==
  ASSUME IInv, NEW t \in Session, UNCHANGED <<active, seen, locked>>,
         pc' = [pc EXCEPT ![t] = pc'[t]], pc[t] # "commit", pc'[t] # "commit"
  PROVE  IdsFinite' /\ Locks'
<1>1. IdsFinite'
  BY DEF IInv, IdsFinite, UsedIds
<1>2. \A u \in Session : pc'[u] = "commit" <=> pc[u] = "commit"
  BY DEF IInv, TypeOK
<1>3. Locks'
  BY <1>2 DEF IInv, Locks
<1> QED  BY <1>1, <1>3

\* A step that changes no baseline, and takes no writer into SetBaseline that has seen one.
LEMMA StandsOn ==
  ASSUME IInv, UNCHANGED <<active, stands>>,
         \A w \in Writer : pc'[w] \in Transaction => pc[w] \in Transaction \/ active = {}
  PROVE  NoneAutomatic' /\ ApprovalStands'
  BY DEF IInv, NoneAutomatic, ApprovalStands

-----------------------------------------------------------------------------
(* The steps                                                               *)

LEMMA InitIInv == ASSUME Init PROVE IInv
<1>1. TypeOK /\ LatestExists /\ Working /\ Locks /\ NoneAutomatic /\ ApprovalStands
  BY DEF Init, TypeOK, LatestExists, Working, Locks, Pc, None, NoneAutomatic, ApprovalStands, Session, Approver
<1>2. UsedIds = {}
  BY DEF Init, UsedIds
<1>3. IdsFinite
  BY <1>2, FS_EmptySet DEF IdsFinite
<1> QED  BY <1>1, <1>3 DEF IInv

LEMMA TakeKeeps == ASSUME IInv, NEW w \in Writer, Take(w) PROVE IInv'
<1>1. w \in Session /\ w \in Approver \ Operator /\ pc[w] = "idle" /\ pc' = [pc EXCEPT ![w] = "read"]
      /\ UNCHANGED <<snapshots, diffs, active, prev, seen, locked, stands>>
  BY HostAssumption DEF Take, Goto, Session, Approver, recordVars, txVars
<1>2. PICK s \in Scan : scan' = [scan EXCEPT ![w] = s]
  BY DEF Take
<1>3. pc'[w] = "read"
  BY <1>1 DEF IInv, TypeOK
<1>4. TypeOK'
  BY <1>1, <1>2 DEF IInv, TypeOK, Pc
<1>5. LatestExists' /\ Working'
  BY <1>1, <1>2, <1>3 DEF IInv, TypeOK, LatestExists, Working, Session, Transaction
<1>6. IdsFinite' /\ Locks'
  BY <1>1, <1>3, OutsideTransaction
<1>7. NoneAutomatic' /\ ApprovalStands'
  BY <1>1, <1>3, StandsOn DEF IInv, TypeOK, Transaction
<1> QED  BY <1>4, <1>5, <1>6, <1>7 DEF IInv

LEMMA ReadLatestKeeps == ASSUME IInv, NEW w \in Writer, ReadLatest(w) PROVE IInv'
<1>1. w \in Session /\ w \in Approver \ Operator /\ pc[w] = "read" /\ pc' = [pc EXCEPT ![w] = "insert"]
      /\ prev' = [prev EXCEPT ![w] = LatestSnapshot]
      /\ UNCHANGED <<snapshots, diffs, active, scan, seen, locked, stands>>
  BY HostAssumption DEF ReadLatest, Goto, Session, Approver, recordVars, txVars
<1>2. LatestSnapshot \in snapshots \cup {None} /\ snapshots \subseteq Scan
  BY LatestSnapshotIs DEF IInv, TypeOK
<1>3. pc'[w] = "insert"
  BY <1>1 DEF IInv, TypeOK
<1>4. TypeOK'
  BY <1>1, <1>2 DEF IInv, TypeOK, Pc
<1>5. LatestExists' /\ Working'
  BY <1>1, <1>2, <1>3 DEF IInv, TypeOK, LatestExists, Working, Session, Transaction
<1>6. IdsFinite' /\ Locks'
  BY <1>1, <1>3, OutsideTransaction
<1>7. NoneAutomatic' /\ ApprovalStands'
  BY <1>1, <1>3, StandsOn DEF IInv, TypeOK, Transaction
<1> QED  BY <1>4, <1>5, <1>6, <1>7 DEF IInv

LEMMA InsertSnapshotKeeps == ASSUME IInv, NEW w \in Writer, InsertSnapshot(w) PROVE IInv'
<1>1. w \in Session /\ w \in Approver \ Operator /\ pc[w] = "insert" /\ snapshots' = snapshots \cup {scan[w]}
      /\ pc' = [pc EXCEPT ![w] = IF prev[w] = None THEN "check" ELSE "diff"]
      /\ UNCHANGED <<diffs, active, scan, prev, seen, locked, stands>>
  BY HostAssumption DEF InsertSnapshot, Goto, Session, Approver, txVars
<1>2. scan[w] \in Scan /\ snapshots' \subseteq Scan /\ snapshots \subseteq snapshots'
  BY <1>1 DEF IInv, TypeOK, Working, Session, Transaction
<1>3. pc'[w] \in {"check", "diff"} /\ (pc'[w] = "diff" => prev[w] # None)
  BY <1>1 DEF IInv, TypeOK
<1>4. TypeOK'
  <2>1. pc' \in [Session -> Pc]
    BY <1>1 DEF IInv, TypeOK, Pc
  <2>2. \A t \in Session : seen[t] # {} => pc'[t] \in {"update", "commit"}
    BY <1>1 DEF IInv, TypeOK
  <2> QED  BY <1>1, <1>2, <2>1, <2>2 DEF IInv, TypeOK
<1>5. LatestExists'
  <2>1. snapshots' \subseteq Nat
    BY <1>2, HostAssumption
  <2>2. CASE snapshots = {}
    BY <1>1, <2>1, <2>2 DEF LatestExists
  <2>3. CASE snapshots # {}
    <3>1. PICK m \in snapshots : \A s \in snapshots : s <= m
      BY <2>3 DEF IInv, LatestExists
    <3>2. CASE scan[w] <= m
      BY <1>1, <3>1, <3>2 DEF LatestExists
    <3>3. CASE ~(scan[w] <= m)
      <4>1. \A s \in snapshots' : s <= scan[w]
        BY <1>1, <2>1, <3>1, <3>3
      <4> QED  BY <1>1, <4>1 DEF LatestExists
    <3> QED  BY <3>2, <3>3
  <2> QED  BY <2>2, <2>3
<1>6. Working'
  BY <1>1, <1>2, <1>3 DEF IInv, TypeOK, Working, Session, Transaction
<1>7. IdsFinite' /\ Locks'
  BY <1>1, <1>3, OutsideTransaction
<1>8. NoneAutomatic' /\ ApprovalStands'
  BY <1>1, <1>3, StandsOn DEF IInv, TypeOK, Transaction
<1> QED  BY <1>4, <1>5, <1>6, <1>7, <1>8 DEF IInv

LEMMA StoreDiffsKeeps == ASSUME IInv, NEW w \in Writer, StoreDiffs(w) PROVE IInv'
<1>1. w \in Session /\ w \in Approver \ Operator /\ pc[w] = "diff" /\ pc' = [pc EXCEPT ![w] = "check"]
      /\ prev' = [prev EXCEPT ![w] = None]
      /\ UNCHANGED <<snapshots, active, scan, seen, locked, stands>>
  BY HostAssumption DEF StoreDiffs, Goto, Session, Approver, txVars
<1>2. diffs' \subseteq diffs \cup {<<prev[w], scan[w]>>}
  BY DEF StoreDiffs
<1>3. prev[w] \in snapshots /\ scan[w] \in snapshots
  BY <1>1 DEF IInv, Working
<1>4. pc'[w] = "check"
  BY <1>1 DEF IInv, TypeOK
<1>5. TypeOK'
  <2>1. diffs' \subseteq snapshots \X snapshots
    BY <1>2, <1>3 DEF IInv, TypeOK
  <2> QED  BY <1>1, <2>1 DEF IInv, TypeOK, Pc
<1>6. LatestExists' /\ Working'
  BY <1>1, <1>3, <1>4 DEF IInv, TypeOK, LatestExists, Working, Session, Transaction
<1>7. IdsFinite' /\ Locks'
  BY <1>1, <1>4, OutsideTransaction
<1>8. NoneAutomatic' /\ ApprovalStands'
  BY <1>1, <1>4, StandsOn DEF IInv, TypeOK, Transaction
<1> QED  BY <1>5, <1>6, <1>7, <1>8 DEF IInv

LEMMA ApproveKeeps == ASSUME IInv, NEW a \in Admin, Approve(a) PROVE IInv'
<1>1. a \in Session /\ a \in Approver \ Operator /\ pc[a] = "idle" /\ pc' = [pc EXCEPT ![a] = "begin"]
      /\ snapshots # {} /\ scan' = [scan EXCEPT ![a] = LatestSnapshot]
      /\ UNCHANGED <<snapshots, diffs, active, prev, seen, locked, stands>>
  BY HostAssumption DEF Approve, Goto, Session, Approver, recordVars, txVars
<1>2. LatestSnapshot \in snapshots /\ snapshots \subseteq Scan
  BY <1>1, LatestSnapshotIs DEF IInv, TypeOK
<1>3. pc'[a] = "begin"
  BY <1>1 DEF IInv, TypeOK
<1>4. TypeOK'
  BY <1>1, <1>2 DEF IInv, TypeOK, Pc
<1>5. LatestExists' /\ Working'
  BY <1>1, <1>2, <1>3 DEF IInv, TypeOK, LatestExists, Working, Session, Transaction
<1>6. IdsFinite' /\ Locks'
  BY <1>1, <1>3, OutsideTransaction
<1>7. NoneAutomatic' /\ ApprovalStands'
  BY <1>1, HostAssumption, StandsOn DEF IInv, TypeOK
<1> QED  BY <1>4, <1>5, <1>6, <1>7 DEF IInv

\* A rollback, or the end of a handler that has changed what it wanted to change.
LEMMA ReturnKeeps ==
  ASSUME IInv, NEW t \in Session, Return(t), UNCHANGED <<recordVars, stands>> PROVE IInv'
<1>1. UNCHANGED <<snapshots, diffs, active>>
  BY DEF recordVars
<1>2. /\ pc' \in [Session -> Pc] /\ scan' \in [Session -> Scan \cup {None}]
      /\ prev' \in [Session -> Scan \cup {None}]
      /\ seen' \in [Session -> SUBSET Baseline] /\ locked' \in [Session -> SUBSET Baseline]
      /\ pc'[t] = "idle" /\ prev'[t] = None /\ seen'[t] = {} /\ locked'[t] = {}
      /\ \A u \in Session \ {t} : /\ pc'[u] = pc[u] /\ scan'[u] = scan[u] /\ prev'[u] = prev[u]
                                   /\ seen'[u] = seen[u] /\ locked'[u] = locked[u]
  BY ReturnIs
<1>3. TypeOK'
  BY <1>1, <1>2 DEF IInv, TypeOK
<1>4. LatestExists' /\ Working' /\ Locks'
  BY <1>1, <1>2 DEF IInv, LatestExists, Working, Locks, Session
<1>5. IdsFinite'
  BY <1>1, <1>2, FewerIds DEF IInv
<1>6. NoneAutomatic' /\ ApprovalStands'
  BY <1>1, <1>2, StandsOn DEF Transaction, Approver, Session
<1> QED  BY <1>3, <1>4, <1>5, <1>6 DEF IInv

LEMMA CheckBaselineKeeps == ASSUME IInv, NEW w \in Writer, CheckBaseline(w) PROVE IInv'
<1>1. w \in Session /\ w \in Approver \ Operator /\ pc[w] = "check" /\ UNCHANGED <<recordVars, stands>>
  BY HostAssumption DEF CheckBaseline, Session, Approver
<1>2. CASE Return(w)
  BY <1>1, <1>2, ReturnKeeps
<1>3. CASE Goto(w, "begin") /\ UNCHANGED <<scan, prev, txVars>>
  <2>1. pc' = [pc EXCEPT ![w] = "begin"]
        /\ UNCHANGED <<snapshots, diffs, active, scan, prev, seen, locked>>
    BY <1>1, <1>3 DEF Goto, recordVars, txVars
  <2>2. pc'[w] = "begin"
    BY <2>1, <1>1 DEF IInv, TypeOK
  <2>3. TypeOK'
    BY <1>1, <2>1 DEF IInv, TypeOK, Pc
  <2>4. LatestExists' /\ Working'
    BY <1>1, <2>1, <2>2 DEF IInv, TypeOK, LatestExists, Working, Session, Transaction
  <2>5. IdsFinite' /\ Locks'
    BY <1>1, <2>1, <2>2, OutsideTransaction
  <2>6. active = {}
    BY <1>1, <2>2 DEF CheckBaseline, Return, Goto, IInv, TypeOK
  <2>7. NoneAutomatic' /\ ApprovalStands'
    BY <1>1, <2>1, <2>6, StandsOn DEF IInv, TypeOK
  <2> QED  BY <2>3, <2>4, <2>5, <2>7 DEF IInv
<1> QED  BY <1>2, <1>3 DEF CheckBaseline

LEMMA BreakKeeps == ASSUME IInv, NEW t \in Session, Break(t) PROVE IInv'
  BY ReturnKeeps DEF Break

LEMMA FindActiveKeeps == ASSUME IInv, NEW t \in Session, FindActive(t) PROVE IInv'
<1>1. pc[t] = "begin" /\ pc' = [pc EXCEPT ![t] = "update"] /\ seen' = [seen EXCEPT ![t] = active]
      /\ UNCHANGED <<snapshots, diffs, active, scan, prev, locked, stands>>
  BY DEF FindActive, Goto, recordVars
<1>2. active \in SUBSET Baseline
  BY DEF IInv, TypeOK
<1>3. pc'[t] = "update" /\ seen'[t] = active /\ locked[t] = {}
      /\ \A u \in Session \ {t} : pc'[u] = pc[u] /\ seen'[u] = seen[u]
  BY <1>1 DEF IInv, TypeOK, Locks
<1>4. TypeOK'
  <2>1. pc' \in [Session -> Pc] /\ seen' \in [Session -> SUBSET Baseline]
    BY <1>1, <1>2 DEF IInv, TypeOK, Pc
  <2> QED  BY <1>1, <1>3, <2>1 DEF IInv, TypeOK
<1>5. LatestExists' /\ Working' /\ Locks'
  BY <1>1, <1>3 DEF IInv, LatestExists, Working, Locks, Session, Transaction
<1>6. IdsFinite'
  BY <1>1, <1>3, FewerIds DEF IInv
<1>7. NoneAutomatic' /\ ApprovalStands'
  BY <1>1, <1>3, StandsOn DEF Transaction, Session, Approver
<1> QED  BY <1>4, <1>5, <1>6, <1>7 DEF IInv

\* The rows t finds and locks are in no other transaction's hands.
LEMMA DeactivateKeeps == ASSUME IInv, NEW t \in Session, Deactivate(t) PROVE IInv'
<1>1. /\ pc[t] = "update" /\ pc' = [pc EXCEPT ![t] = "commit"]
      /\ \A u \in Session \ {t} : locked[u] \cap seen[t] = {}
      /\ locked' = [locked EXCEPT ![t] = seen[t] \cap active]
      /\ UNCHANGED <<snapshots, diffs, active, scan, prev, seen, stands>>
  BY DEF Deactivate, Goto, recordVars
<1>2. /\ pc'[t] = "commit" /\ locked'[t] = seen[t] \cap active
      /\ \A u \in Session \ {t} : pc'[u] = pc[u] /\ locked'[u] = locked[u]
  BY <1>1 DEF IInv, TypeOK
<1>3. TypeOK'
  <2>1. pc' \in [Session -> Pc] /\ locked' \in [Session -> SUBSET Baseline]
    BY <1>1 DEF IInv, TypeOK, Pc
  <2> QED  BY <1>1, <1>2, <2>1 DEF IInv, TypeOK
<1>4. LatestExists' /\ Working'
  BY <1>1, <1>2 DEF IInv, LatestExists, Working, Session, Transaction
<1>5. Locks'
  <2>1. \A u \in Session : locked'[u] = IF pc'[u] = "commit" THEN seen[u] \cap active ELSE {}
    BY <1>2 DEF IInv, Locks
  <2>2. \A u \in Session \ {t} : locked'[t] \cap locked'[u] = {}
    BY <1>1, <1>2
  <2>3. \A u, v \in Session \ {t} : u # v => locked'[u] \cap locked'[v] = {}
    BY <1>2 DEF IInv, Locks
  <2>4. \A u, v \in Session : u # v => locked'[u] \cap locked'[v] = {}
    BY <2>2, <2>3
  <2> QED  BY <1>1, <2>1, <2>4 DEF Locks
<1>6. IdsFinite'
  BY <1>1, FewerIds DEF IInv
<1>7. NoneAutomatic' /\ ApprovalStands'
  BY <1>1, <1>2, StandsOn DEF Transaction, Session, Approver
<1> QED  BY <1>3, <1>4, <1>5, <1>6, <1>7 DEF IInv

\* COMMIT of a transaction that has taken the rows it locked, and added at most one:
\* one that no transaction has seen.
LEMMA CommitKeepsRows ==
  ASSUME IInv, NEW t \in Session, pc[t] = "commit", Return(t), UNCHANGED <<snapshots, diffs>>,
         stands' \in BOOLEAN,
         NEW new, new \subseteq {b \in Baseline : b.of \in snapshots},
         \A b \in new : b.id = NewId,
         active' = (active \ locked[t]) \cup new
  PROVE  TypeOK' /\ LatestExists' /\ IdsFinite' /\ Working' /\ Locks'
<1>1. NewId \in Nat /\ NewId \notin UsedIds
  BY NewIdIs DEF IInv
<1>2. \A u \in Session : new \cap seen[u] = {}
  BY <1>1 DEF UsedIds
<1>3. /\ pc' \in [Session -> Pc] /\ scan' \in [Session -> Scan \cup {None}]
      /\ prev' \in [Session -> Scan \cup {None}]
      /\ seen' \in [Session -> SUBSET Baseline] /\ locked' \in [Session -> SUBSET Baseline]
      /\ pc'[t] = "idle" /\ prev'[t] = None /\ seen'[t] = {} /\ locked'[t] = {}
      /\ \A u \in Session \ {t} : /\ pc'[u] = pc[u] /\ scan'[u] = scan[u] /\ prev'[u] = prev[u]
                                  /\ seen'[u] = seen[u] /\ locked'[u] = locked[u]
  BY ReturnIs
<1>4. ASSUME NEW u \in Session, u # t
      PROVE  locked[u] = IF pc[u] = "commit" THEN seen[u] \cap active' ELSE {}
  BY <1>2, <1>4 DEF IInv, Locks
<1>5. Locks'
  <2>1. \A u \in Session : locked'[u] = IF pc'[u] = "commit" THEN seen'[u] \cap active' ELSE {}
    BY <1>3, <1>4
  <2>2. \A u, v \in Session : u # v => locked'[u] \cap locked'[v] = {}
    BY <1>3 DEF IInv, Locks
  <2> QED  BY <2>1, <2>2 DEF Locks
<1>6. TypeOK'
  <2>1. active' \subseteq {b \in Baseline : b.of \in snapshots}
    BY DEF IInv, TypeOK
  <2>2. \A u \in Session : /\ locked'[u] \subseteq seen'[u] \cap active'
                           /\ seen'[u] # {} => pc'[u] \in {"update", "commit"}
    BY <1>3, <1>5 DEF IInv, TypeOK, Locks
  <2> QED  BY <1>3, <2>1, <2>2 DEF IInv, TypeOK
<1>7. LatestExists' /\ Working'
  BY <1>3 DEF IInv, LatestExists, Working, Session
<1>8. IdsFinite'
  <2>1. UsedIds' \subseteq UsedIds \cup {NewId}
    BY <1>3 DEF UsedIds
  <2>2. IsFiniteSet(UsedIds \cup {NewId})
    BY FS_AddElement DEF IInv, IdsFinite
  <2> QED  BY <2>1, <2>2, FS_Subset DEF IdsFinite
<1> QED  BY <1>5, <1>6, <1>7, <1>8

\* No writer commits while an approval stands; what an approval leaves beside its own
\* row, when it leaves any, no writer chose.
LEMMA CommitBaselineKeeps == ASSUME IInv, NEW t \in Approver, CommitBaseline(t) PROVE IInv'
<1> DEFINE new == [id |-> NewId, of |-> scan[t], auto |-> t \in Writer]
<1>1. /\ t \in Session /\ pc[t] = "commit" /\ Return(t) /\ active' = (active \ locked[t]) \cup {new}
      /\ UNCHANGED <<snapshots, diffs>>
  BY DEF CommitBaseline, Session
<1>2. new \in Baseline /\ new.id = NewId /\ new.of \in snapshots /\ (t \notin Writer => ~new.auto)
  <2>1. scan[t] \in snapshots /\ scan[t] \in Scan
    BY <1>1 DEF IInv, Working
  <2>2. NewId \in Nat
    BY NewIdIs DEF IInv
  <2>3. (t \in Writer) \in BOOLEAN
    OBVIOUS
  <2> QED  BY <2>1, <2>2, <2>3, Zenon DEF Baseline
<1> HIDE DEF new
<1>3. stands' \in BOOLEAN
  BY DEF CommitBaseline, IInv, TypeOK
<1>4. TypeOK' /\ LatestExists' /\ IdsFinite' /\ Working' /\ Locks'
  <2>1. {new} \subseteq {b \in Baseline : b.of \in snapshots} /\ \A b \in {new} : b.id = NewId
    BY <1>2
  <2> QED  BY <1>1, <1>3, <2>1, CommitKeepsRows
<1>5. NoneAutomatic' /\ ApprovalStands'
  <2>1. CASE t \in Writer
    <3>1. ~stands'
      BY <1>1, <2>1 DEF CommitBaseline, IInv, NoneAutomatic, Transaction
    <3> QED  BY <3>1 DEF NoneAutomatic, ApprovalStands
  <2>2. CASE t \notin Writer
    <3> SUFFICES ASSUME stands' PROVE (\A w \in Writer : pc'[w] \notin Transaction)
                                      /\ active' # {} /\ \A b \in active' : ~b.auto
      BY DEF NoneAutomatic, ApprovalStands
    <3>1. (stands \/ seen[t] = active) /\ \A w \in Writer : pc[w] \notin Transaction
      BY <2>2 DEF CommitBaseline
    <3>2. \A w \in Writer : pc'[w] = pc[w]
      BY <1>1, <2>2 DEF Return, Goto, IInv, TypeOK, Session, Approver
    <3>3. \A b \in active \ locked[t] : ~b.auto
      BY <1>1, <3>1 DEF IInv, Locks, ApprovalStands
    <3> QED  BY <1>1, <1>2, <2>2, <3>1, <3>2, <3>3
  <2> QED  BY <2>1, <2>2
<1> QED  BY <1>4, <1>5 DEF IInv

LEMMA ResetKeeps == ASSUME IInv, NEW o \in Operator, Reset(o) PROVE IInv'
<1>1. o \in Session /\ pc[o] = "idle" /\ pc' = [pc EXCEPT ![o] = "begin"]
      /\ UNCHANGED <<snapshots, diffs, active, scan, prev, seen, locked, stands>>
  BY DEF Reset, Goto, Session, recordVars, txVars
<1>2. pc'[o] = "begin" /\ \A w \in Approver : pc'[w] = pc[w]
  BY <1>1, HostAssumption DEF IInv, TypeOK, Session, Approver
<1>3. TypeOK'
  BY <1>1 DEF IInv, TypeOK, Pc
<1>4. LatestExists' /\ Working'
  BY <1>1, <1>2 DEF IInv, TypeOK, LatestExists, Working, Session, Transaction
<1>5. IdsFinite' /\ Locks'
  BY <1>1, <1>2, OutsideTransaction
<1>6. NoneAutomatic' /\ ApprovalStands'
  BY <1>1, <1>2, StandsOn DEF Approver
<1> QED  BY <1>3, <1>4, <1>5, <1>6 DEF IInv

\* A reset after which an approval still stands has taken nothing.
LEMMA CommitResetKeeps == ASSUME IInv, NEW o \in Operator, CommitReset(o) PROVE IInv'
<1> DEFINE none == {}
<1>1. /\ o \in Session /\ pc[o] = "commit" /\ Return(o) /\ active' = (active \ locked[o]) \cup none
      /\ UNCHANGED <<snapshots, diffs>> /\ stands' \in BOOLEAN
  BY DEF CommitReset, Session, IInv, TypeOK
<1>2. TypeOK' /\ LatestExists' /\ IdsFinite' /\ Working' /\ Locks'
  <2>1. none \subseteq {b \in Baseline : b.of \in snapshots} /\ \A b \in none : b.id = NewId
    OBVIOUS
  <2> HIDE DEF none
  <2> QED  BY <1>1, <2>1, CommitKeepsRows
<1>3. NoneAutomatic' /\ ApprovalStands'
  <2>1. stands' => stands /\ active' = active
    BY DEF CommitReset
  <2>2. \A w \in Writer : pc'[w] = pc[w]
    BY <1>1, HostAssumption DEF Return, Goto, IInv, TypeOK, Session, Approver
  <2> QED  BY <2>1, <2>2 DEF IInv, NoneAutomatic, ApprovalStands
<1> QED  BY <1>2, <1>3 DEF IInv

LEMMA NextKeeps == IInv /\ [Next]_vars => IInv'
<1> SUFFICES ASSUME IInv, [Next]_vars PROVE IInv'
  OBVIOUS
<1>1. CASE UNCHANGED vars
  BY <1>1 DEF vars, recordVars, txVars, IInv, TypeOK, LatestExists, IdsFinite, UsedIds, Working, Locks,
              NoneAutomatic, ApprovalStands
<1> QED  BY <1>1, TakeKeeps, ReadLatestKeeps, InsertSnapshotKeeps, StoreDiffsKeeps, CheckBaselineKeeps,
            ApproveKeeps, FindActiveKeeps, DeactivateKeeps, CommitBaselineKeeps,
            ResetKeeps, CommitResetKeeps, BreakKeeps DEF Next

LEMMA Inductive == Spec => []IInv
  BY InitIInv, NextKeeps, PTL DEF Spec

-----------------------------------------------------------------------------

\* No diff and no baseline speaks of a scan that is not stored, and a transaction has
\* locked only rows that it found and that are active.
THEOREM TypeCorrect == Spec => []TypeOK
<1>1. IInv => TypeOK
  BY DEF IInv
<1> QED  BY <1>1, Inductive, PTL

\* What an administrator has approved stands until a reset takes it: whatever overlaps,
\* breaks off or comes late, the host has a baseline, and none the pg-writer chose.
THEOREM ApprovalNotLost == Spec => []ApprovalStands
<1>1. IInv => ApprovalStands
  BY DEF IInv
<1> QED  BY <1>1, Inductive, PTL

\* An approval that no other one overlaps leaves its own baseline and no other, however
\* many were active.
THEOREM ApprovalLeavesOne == Spec => AloneLeavesOne
<1> DEFINE One == \A t \in Approver : CommitBaseline(t) /\ seen[t] = active =>
                    Cardinality(active') = 1 /\ \A b \in active' : b.of = scan[t]
<1>1. IInv => One
  <2> SUFFICES ASSUME IInv, NEW t \in Approver, CommitBaseline(t), seen[t] = active
               PROVE  Cardinality(active') = 1 /\ \A b \in active' : b.of = scan[t]
    OBVIOUS
  <2>1. locked[t] = active
    BY DEF IInv, Locks, CommitBaseline, Session
  <2>2. active' = {[id |-> NewId, of |-> scan[t], auto |-> t \in Writer]}
    BY <2>1 DEF CommitBaseline
  <2>3. Cardinality(active') = 1
    BY <2>2, FS_Singleton, Zenon
  <2>4. \A b \in active' : b.of = scan[t]
    BY <2>2
  <2> QED  BY <2>3, <2>4
<1> HIDE DEF One
<1>2. IInv /\ [Next]_vars => [One]_vars
  BY <1>1
<1>3. Spec => [][One]_vars
  BY <1>2, Inductive, PTL DEF Spec
<1> QED  BY <1>3 DEF One, AloneLeavesOne
=============================================================================
