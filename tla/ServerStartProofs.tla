------------------------- MODULE ServerStartProofs --------------------------
(***************************************************************************)
(* The servers' starts for any number of servers, of any versions, and any *)
(* number of deaths.                                                       *)
(*                                                                         *)
(* Migrated says what the server at the migrations has behind it: it holds *)
(* the advisory lock (TypeOK), so schema_migrations does not change but by *)
(* itself.  Files says what is in ca.crt and ca.key while no two servers   *)
(* were generating a CA at once.                                           *)
(***************************************************************************)
EXTENDS ServerStart, TLAPS

LEMMA InitIInv == ASSUME Init PROVE IInv
<1>1. TypeOK
  <2>1. NoCA \in [cert : 0..newest, key : 0..newest] /\ 0 \in 0..newest /\ 0 \in 0..MaxFailures
    BY ServerAssumption DEF Init, NoCA, Absent, Blank
  <2>2. ca \in [Server -> [cert : 0..newest, key : 0..newest]]
    BY <2>1 DEF Init
  <2>3. \A s \in Server : lock = s <=> pc[s] \in Migrating
    BY ServerAssumption DEF Init, Migrating
  <2>4. workers \in [Server -> 0..Workers]
    BY DEF Init, Workers
  <2>5. pc \in [Server -> {"down"}] /\ at \in [Server -> Nat \ {0}]
    BY DEF Init
  <2>6. certFile \in 0..newest /\ keyFile \in 0..newest /\ newest \in Nat \ {0}
    BY <2>1 DEF Init, Absent, Blank
  <2>7. issued \subseteq Nat /\ raced \in BOOLEAN /\ failures \in 0..MaxFailures
    BY <2>1 DEF Init
  <2>8. lock \in Server \cup {NoServer} /\ applied \subseteq Nat /\ recorded \subseteq applied
    BY DEF Init
  <2> QED  BY <2>2, <2>3, <2>4, <2>5, <2>6, <2>7, <2>8 DEF TypeOK
<1>2. Migrated
  BY DEF Init, Migrated, Migrating, Past, Working
<1>3. Files
  BY DEF Init, Files, Generating, Working, CA, Absent, Blank
<1> QED  BY <1>1, <1>2, <1>3 DEF IInv

LEMMA StartKeeps == ASSUME IInv, NEW s \in Server, Start(s) PROVE IInv'
<1> USE DEF Start, Goto, schemaVars, caVars, runVars
<1>1. TypeOK'
  BY ServerAssumption DEF IInv, TypeOK, Migrating, Migrated, CA, NoCA, Absent, Blank, Workers, Generating
<1>2. Migrated'
  BY ServerAssumption DEF IInv, TypeOK, Migrated, Migrating, Past, Working, Workers, Generating
<1>3. ASSUME ~raced' PROVE Files'
  BY <1>3 DEF IInv, TypeOK, Files, Generating, Working, CA, NoCA, Absent, Blank
<1> QED  BY <1>1, <1>2, <1>3 DEF IInv

LEMMA LockKeeps == ASSUME IInv, NEW s \in Server, Lock(s) PROVE IInv'
<1> USE DEF Lock, Goto, schemaVars, caVars, runVars
<1>1. TypeOK'
  BY ServerAssumption DEF IInv, TypeOK, Migrating, Migrated, CA, NoCA, Absent, Blank, Workers, Generating
<1>2. Migrated'
  BY ServerAssumption DEF IInv, TypeOK, Migrated, Migrating, Past, Working, Workers, Generating
<1>3. ASSUME ~raced' PROVE Files'
  BY <1>3 DEF IInv, TypeOK, Files, Generating, Working, CA, NoCA, Absent, Blank
<1> QED  BY <1>1, <1>2, <1>3 DEF IInv

LEMMA CheckKeeps == ASSUME IInv, NEW s \in Server, Check(s) PROVE IInv'
<1> USE DEF Check, Goto, schemaVars, caVars, runVars
<1>1. TypeOK'
  BY ServerAssumption DEF IInv, TypeOK, Migrating, Migrated, CA, NoCA, Absent, Blank, Workers, Generating
<1>2. Migrated'
  BY ServerAssumption DEF IInv, TypeOK, Migrated, Migrating, Past, Working, Workers, Generating
<1>3. ASSUME ~raced' PROVE Files'
  BY <1>3 DEF IInv, TypeOK, Files, Generating, Working, CA, NoCA, Absent, Blank
<1> QED  BY <1>1, <1>2, <1>3 DEF IInv

LEMMA ApplyKeeps == ASSUME IInv, NEW s \in Server, Apply(s) PROVE IInv'
<1> USE DEF Apply, Goto, schemaVars, caVars, runVars
<1>1. TypeOK'
  <2>1. recorded' \subseteq applied' /\ applied' \subseteq Nat
    BY DEF IInv, TypeOK
  <2> QED  BY <2>1 DEF IInv, TypeOK, Migrating
<1>2. Migrated'
  BY ServerAssumption DEF IInv, TypeOK, Migrated, Migrating, Past, Working, Workers, Generating
<1>3. ASSUME ~raced' PROVE Files'
  BY <1>3 DEF IInv, TypeOK, Files, Generating, Working, CA, NoCA, Absent, Blank
<1> QED  BY <1>1, <1>2, <1>3 DEF IInv

LEMMA RecordKeeps == ASSUME IInv, NEW s \in Server, Record(s) PROVE IInv'
<1> USE DEF Record, Goto, schemaVars, caVars, runVars
<1>1. TypeOK'
  <2>1. recorded' \subseteq applied' /\ applied' \subseteq Nat
    BY DEF IInv, TypeOK, Migrated
  <2>2. at' \in [Server -> Nat \ {0}]
    BY DEF IInv, TypeOK
  <2> QED  BY <2>1, <2>2 DEF IInv, TypeOK, Migrating
<1>2. Migrated'
  BY ServerAssumption DEF IInv, TypeOK, Migrated, Migrating, Past, Working, Workers, Generating
<1>3. ASSUME ~raced' PROVE Files'
  BY <1>3 DEF IInv, TypeOK, Files, Generating, Working, CA, NoCA, Absent, Blank
<1> QED  BY <1>1, <1>2, <1>3 DEF IInv

LEMMA UnlockKeeps == ASSUME IInv, NEW s \in Server, Unlock(s) PROVE IInv'
<1> USE DEF Unlock, Goto, schemaVars, caVars, runVars
<1>1. TypeOK'
  BY ServerAssumption DEF IInv, TypeOK, Migrating, Migrated, CA, NoCA, Absent, Blank, Workers, Generating
<1>2. Migrated'
  <2>1. at[s] \in Nat /\ FilesOf[s] \in Nat /\ at[s] > FilesOf[s]
    BY ServerAssumption DEF IInv, TypeOK
  <2>2. 1..FilesOf[s] \subseteq 1..(at[s] - 1)
    BY <2>1
  <2>3. 1..FilesOf[s] \subseteq recorded
    BY <2>2 DEF IInv, Migrated, Migrating
  <2> QED  BY <2>3 DEF IInv, TypeOK, Migrated, Migrating, Past
<1>3. ASSUME ~raced' PROVE Files'
  BY <1>3 DEF IInv, TypeOK, Files, Generating, Working, CA, NoCA, Absent, Blank
<1> QED  BY <1>1, <1>2, <1>3 DEF IInv

LEMMA ConnectKeeps == ASSUME IInv, NEW s \in Server, Connect(s) PROVE IInv'
<1> USE DEF Connect, Goto, schemaVars, caVars, runVars
<1>1. TypeOK'
  BY ServerAssumption DEF IInv, TypeOK, Migrating, Migrated, CA, NoCA, Absent, Blank, Workers, Generating
<1>2. Migrated'
  BY ServerAssumption DEF IInv, TypeOK, Migrated, Migrating, Past, Working, Workers, Generating
<1>3. ASSUME ~raced' PROVE Files'
  BY <1>3 DEF IInv, TypeOK, Files, Generating, Working, CA, NoCA, Absent, Blank
<1> QED  BY <1>1, <1>2, <1>3 DEF IInv

LEMMA StatKeeps == ASSUME IInv, NEW s \in Server, Stat(s) PROVE IInv'
<1> USE DEF Stat, Goto, schemaVars, caVars, runVars
<1>1. TypeOK'
  <2>1. newest' \in Nat \ {0} /\ newest <= newest' /\ certFile' \in 0..newest' /\ keyFile' \in 0..newest'
    BY DEF IInv, TypeOK
  <2>2. \A t \in Server : ca[t] \in [cert : 0..newest', key : 0..newest']
    BY <2>1 DEF IInv, TypeOK
  <2>3. ca' \in [Server -> [cert : 0..newest', key : 0..newest']]
    BY <2>1, <2>2 DEF IInv, TypeOK
  <2>4. raced' \in BOOLEAN
    BY DEF IInv, TypeOK
  <2> QED  BY <2>1, <2>3, <2>4 DEF IInv, TypeOK, Migrating
<1>2. Migrated'
  BY ServerAssumption DEF IInv, TypeOK, Migrated, Migrating, Past, Working, Workers, Generating
<1>3. ASSUME ~raced' PROVE Files'
  <2>1. Files /\ UNCHANGED <<certFile, keyFile, issued>>
    BY <1>3 DEF IInv
  <2>2. CASE certFile = Absent
    <3>1. /\ newest' = newest + 1 /\ ca' = [ca EXCEPT ![s] = [cert |-> newest', key |-> newest']]
          /\ \A t \in Server : ~Generating(t)
          /\ pc' = [pc EXCEPT ![s] = "cert"]
      BY <1>3, <2>2
    <3>2. newest' \in CA /\ keyFile = Absent /\ keyFile \notin CA
      BY <2>1, <2>2, <3>1 DEF IInv, TypeOK, Files, CA, Absent, Blank
    <3>3. /\ ca'[s] = [cert |-> newest', key |-> newest'] /\ pc'[s] = "cert"
          /\ \A t \in Server \ {s} : pc'[t] = pc[t] /\ ca'[t] = ca[t]
      BY <3>1 DEF IInv, TypeOK
    <3> QED  BY <2>1, <2>2, <3>1, <3>2, <3>3 DEF Files, Generating, Working
  <2>3. CASE certFile # Absent
    BY <2>1, <2>3 DEF IInv, TypeOK, Files, Generating, Working
  <2> QED  BY <2>2, <2>3
<1> QED  BY <1>1, <1>2, <1>3 DEF IInv

LEMMA WriteCertKeeps == ASSUME IInv, NEW s \in Server, WriteCert(s) PROVE IInv'
<1> USE DEF WriteCert, Goto, schemaVars, caVars, runVars
<1>1. TypeOK'
  BY ServerAssumption DEF IInv, TypeOK, Migrating, Migrated, CA, NoCA, Absent, Blank, Workers, Generating
<1>2. Migrated'
  BY ServerAssumption DEF IInv, TypeOK, Migrated, Migrating, Past, Working, Workers, Generating
<1>3. ASSUME ~raced' PROVE Files'
  BY <1>3 DEF IInv, TypeOK, Files, Generating, Working, CA, NoCA, Absent, Blank
<1> QED  BY <1>1, <1>2, <1>3 DEF IInv

LEMMA WriteKeyKeeps == ASSUME IInv, NEW s \in Server, WriteKey(s) PROVE IInv'
<1> USE DEF WriteKey, Goto, schemaVars, caVars, runVars
<1>1. TypeOK'
  BY ServerAssumption DEF IInv, TypeOK, Migrating, Migrated, CA, NoCA, Absent, Blank, Workers, Generating
<1>2. Migrated'
  BY ServerAssumption DEF IInv, TypeOK, Migrated, Migrating, Past, Working, Workers, Generating
<1>3. ASSUME ~raced' PROVE Files'
  BY <1>3 DEF IInv, TypeOK, Files, Generating, Working, CA, NoCA, Absent, Blank
<1> QED  BY <1>1, <1>2, <1>3 DEF IInv

LEMMA LoadCertKeeps == ASSUME IInv, NEW s \in Server, LoadCert(s) PROVE IInv'
<1> USE DEF LoadCert, Goto, schemaVars, caVars, runVars
<1>1. TypeOK'
  BY ServerAssumption DEF IInv, TypeOK, Migrating, Migrated, CA, NoCA, Absent, Blank, Workers, Generating
<1>2. Migrated'
  BY ServerAssumption DEF IInv, TypeOK, Migrated, Migrating, Past, Working, Workers, Generating
<1>3. ASSUME ~raced' PROVE Files'
  BY <1>3 DEF IInv, TypeOK, Files, Generating, Working, CA, NoCA, Absent, Blank
<1> QED  BY <1>1, <1>2, <1>3 DEF IInv

LEMMA LoadKeyKeeps == ASSUME IInv, NEW s \in Server, LoadKey(s) PROVE IInv'
<1> USE DEF LoadKey, Goto, schemaVars, caVars, runVars
<1>1. TypeOK'
  BY ServerAssumption DEF IInv, TypeOK, Migrating, Migrated, CA, NoCA, Absent, Blank, Workers, Generating
<1>2. Migrated'
  BY ServerAssumption DEF IInv, TypeOK, Migrated, Migrating, Past, Working, Workers, Generating
<1>3. ASSUME ~raced' PROVE Files'
  BY <1>3 DEF IInv, TypeOK, Files, Generating, Working, CA, NoCA, Absent, Blank
<1> QED  BY <1>1, <1>2, <1>3 DEF IInv

LEMMA RejectKeeps == ASSUME IInv, NEW s \in Server, Reject(s) PROVE IInv'
<1> USE DEF Reject, Goto, schemaVars, caVars, runVars
<1>1. TypeOK'
  BY ServerAssumption DEF IInv, TypeOK, Migrating, Migrated, CA, NoCA, Absent, Blank, Workers, Generating
<1>2. Migrated'
  BY ServerAssumption DEF IInv, TypeOK, Migrated, Migrating, Past, Working, Workers, Generating
<1>3. ASSUME ~raced' PROVE Files'
  BY <1>3 DEF IInv, TypeOK, Files, Generating, Working, CA, NoCA, Absent, Blank
<1> QED  BY <1>1, <1>2, <1>3 DEF IInv

LEMMA StartWorkerKeeps == ASSUME IInv, NEW s \in Server, StartWorker(s) PROVE IInv'
<1> USE DEF StartWorker, Goto, schemaVars, caVars, runVars
<1>1. TypeOK'
  BY ServerAssumption DEF IInv, TypeOK, Migrating, Migrated, CA, NoCA, Absent, Blank, Workers, Generating
<1>2. Migrated'
  BY ServerAssumption DEF IInv, TypeOK, Migrated, Migrating, Past, Working, Workers, Generating
<1>3. ASSUME ~raced' PROVE Files'
  BY <1>3 DEF IInv, TypeOK, Files, Generating, Working, CA, NoCA, Absent, Blank
<1> QED  BY <1>1, <1>2, <1>3 DEF IInv

LEMMA ListenKeeps == ASSUME IInv, NEW s \in Server, Listen(s) PROVE IInv'
<1> USE DEF Listen, Goto, schemaVars, caVars, runVars
<1>1. TypeOK'
  BY ServerAssumption DEF IInv, TypeOK, Migrating, Migrated, CA, NoCA, Absent, Blank, Workers, Generating
<1>2. Migrated'
  BY ServerAssumption DEF IInv, TypeOK, Migrated, Migrating, Past, Working, Workers, Generating
<1>3. ASSUME ~raced' PROVE Files'
  BY <1>3 DEF IInv, TypeOK, Files, Generating, Working, CA, NoCA, Absent, Blank
<1> QED  BY <1>1, <1>2, <1>3 DEF IInv

LEMMA SignKeeps == ASSUME IInv, NEW s \in Server, Sign(s) PROVE IInv'
<1> USE DEF Sign, Goto, schemaVars, caVars, runVars
<1>1. TypeOK'
  <2>1. ca[s].cert \in Nat
    BY DEF IInv, TypeOK
  <2> QED  BY <2>1 DEF IInv, TypeOK
<1>2. Migrated'
  BY ServerAssumption DEF IInv, TypeOK, Migrated, Migrating, Past, Working, Workers, Generating
<1>3. ASSUME ~raced' PROVE Files'
  <2>1. Files /\ ca[s].cert = certFile /\ keyFile \in CA
    BY <1>3 DEF IInv, Files, Working
  <2> QED  BY <2>1 DEF Files, Generating
<1> QED  BY <1>1, <1>2, <1>3 DEF IInv

LEMMA StopKeeps == ASSUME IInv, NEW s \in Server, Stop(s) PROVE IInv'
<1> USE DEF Stop, Goto, schemaVars, caVars, runVars
<1>1. TypeOK'
  BY ServerAssumption DEF IInv, TypeOK, Migrating, Migrated, CA, NoCA, Absent, Blank, Workers, Generating
<1>2. Migrated'
  BY ServerAssumption DEF IInv, TypeOK, Migrated, Migrating, Past, Working, Workers, Generating
<1>3. ASSUME ~raced' PROVE Files'
  BY <1>3 DEF IInv, TypeOK, Files, Generating, Working, CA, NoCA, Absent, Blank
<1> QED  BY <1>1, <1>2, <1>3 DEF IInv

LEMMA ShutdownKeeps == ASSUME IInv, NEW s \in Server, Shutdown(s) PROVE IInv'
<1> USE DEF Shutdown, Goto, schemaVars, caVars, runVars
<1>1. TypeOK'
  BY ServerAssumption DEF IInv, TypeOK, Migrating, Migrated, CA, NoCA, Absent, Blank, Workers, Generating
<1>2. Migrated'
  BY ServerAssumption DEF IInv, TypeOK, Migrated, Migrating, Past, Working, Workers, Generating
<1>3. ASSUME ~raced' PROVE Files'
  BY <1>3 DEF IInv, TypeOK, Files, Generating, Working, CA, NoCA, Absent, Blank
<1> QED  BY <1>1, <1>2, <1>3 DEF IInv

LEMMA DieKeeps == ASSUME IInv, NEW s \in Server, Die(s) PROVE IInv'
<1> USE DEF Die, Goto, schemaVars, caVars, runVars
<1>1. TypeOK'
  BY ServerAssumption DEF IInv, TypeOK, Migrating, Migrated, CA, NoCA, Absent, Blank, Workers, Generating
<1>2. Migrated'
  BY ServerAssumption DEF IInv, TypeOK, Migrated, Migrating, Past, Working, Workers, Generating
<1>3. ASSUME ~raced' PROVE Files'
  BY <1>3 DEF IInv, TypeOK, Files, Generating, Working, CA, NoCA, Absent, Blank
<1> QED  BY <1>1, <1>2, <1>3 DEF IInv

LEMMA NextKeeps == IInv /\ [Next]_vars => IInv'
<1> SUFFICES ASSUME IInv, [Next]_vars PROVE IInv'
  OBVIOUS
<1>1. ASSUME NEW s \in Server, Step(s) PROVE IInv'
  BY <1>1, StartKeeps, LockKeeps, CheckKeeps, ApplyKeeps, RecordKeeps, UnlockKeeps, ConnectKeeps,
     StatKeeps, WriteCertKeeps, WriteKeyKeeps, LoadCertKeeps, LoadKeyKeeps, RejectKeeps,
     StartWorkerKeeps, ListenKeeps, ShutdownKeeps DEF Step
<1>2. ASSUME NEW s \in Server, Sign(s) \/ Stop(s) \/ Die(s) PROVE IInv'
  BY <1>2, SignKeeps, StopKeeps, DieKeeps
<1>3. CASE UNCHANGED vars
  <2> USE <1>3 DEF vars, schemaVars, caVars, runVars
  <2>1. TypeOK' /\ Migrated'
    BY DEF IInv, TypeOK, Migrated
  <2>2. ASSUME ~raced' PROVE Files'
    BY <2>2 DEF IInv, Files, Generating
  <2> QED  BY <2>1, <2>2 DEF IInv
<1> QED  BY <1>1, <1>2, <1>3 DEF Next

LEMMA Inductive == Spec => []IInv
  BY InitIInv, NextKeeps, PTL DEF Spec

\* Every variable keeps its type, and the advisory lock belongs to the one server that
\* is at the migrations.
THEOREM TypeCorrect == Spec => []TypeOK
<1>1. IInv => TypeOK
  BY DEF IInv
<1> QED  BY <1>1, Inductive, PTL

\* Any number of servers, wherever they die, execute the migrations in order and none
\* that is recorded already.
THEOREM MigrationsInOrder == Spec => []MigratesInOrder
<1>1. IInv => MigratesInOrder
  BY DEF IInv, Migrated, MigratesInOrder
<1> QED  BY <1>1, Inductive, PTL

\* What works has the schema of its own version.
THEOREM NobodyWorksWithoutSchema == Spec => []WorksOnSchema
<1>1. IInv => WorksOnSchema
  BY DEF IInv, TypeOK, Migrated, Past, WorksOnSchema
<1> QED  BY <1>1, Inductive, PTL

\* Without two servers generating at once there is one CA, for good.
THEOREM OneCAForAll == Spec => []OneCA
<1>1. IInv => OneCA
  BY DEF IInv, Files, Working, OneCA
<1> QED  BY <1>1, Inductive, PTL

=============================================================================
