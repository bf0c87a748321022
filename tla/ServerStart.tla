---------------------------- MODULE ServerStart ----------------------------
(***************************************************************************)
(* The servers' starts, cmd/server/main.go: migrations                     *)
(* (internal/db/postgres/db.go), the certificate authority                 *)
(* (internal/enrollment/ca.go), workers, HTTP, and the way down.           *)
(*                                                                         *)
(* Several servers, of several versions, share a database and the data     *)
(* directory (docker-compose.yml, and the manual's "replicas: 3").  Any of *)
(* them may die at any step, and docker restarts it.                       *)
(*                                                                         *)
(* Migration files are numbered in the order of their names; each is one   *)
(* implicit transaction and may be applied again (IF NOT EXISTS).  A CA is *)
(* a number; a file of the data directory is missing, empty or one CA's    *)
(* part.  os.WriteFile empties a file and writes it with one call.         *)
(***************************************************************************)
EXTENDS Naturals

CONSTANTS
  Server,       \* server processes
  FilesOf,      \* the number of migration files in each one's version
  NoServer,
  MaxFailures   \* bound: deaths and shutdowns

ASSUME ServerAssumption ==
  /\ NoServer \notin Server /\ MaxFailures \in Nat
  /\ FilesOf \in [Server -> Nat]

Absent == 0    \* no file
Blank == 1     \* an empty file
CA == Nat \ {Absent, Blank}
NoCA == [cert |-> Absent, key |-> Absent]
Workers == 4   \* pg-writer, graph-writer, anomaly engine, alerter

VARIABLES
  pc,        \* where each server is
  at,        \* the migration file it is at
  lock,      \* the session that has the advisory lock
  applied,   \* the files whose statements have been executed
  recorded,  \* the rows of schema_migrations
  ca,        \* the CA each server has in memory
  certFile, keyFile,  \* ca.crt and ca.key
  newest,    \* the last CA that was generated
  raced,     \* two servers were generating a CA at the same time
  issued,    \* the CAs that signed certificates of agents
  workers,   \* each server's running workers
  failures   \* deaths and shutdowns so far

schemaVars == <<at, lock, applied, recorded>>
caVars == <<ca, certFile, keyFile, newest, raced, issued>>
runVars == <<workers, failures>>
vars == <<pc, schemaVars, caVars, runVars>>

Goto(s, l) == pc' = [pc EXCEPT ![s] = l]

-----------------------------------------------------------------------------
(* postgres.Connect and migrate                                            *)

\* The config is read, the database answers, schema_migrations exists.
Start(s) ==
  /\ pc[s] = "down" /\ Goto(s, "lock")
  /\ at' = [at EXCEPT ![s] = 1]
  /\ UNCHANGED <<lock, applied, recorded, caVars, runVars>>

\* Mutant of Lock: pg_try_advisory_lock, whatever it returns.
TryLock(s) ==
  /\ pc[s] = "lock" /\ lock' = s /\ Goto(s, "check")
  /\ UNCHANGED <<at, applied, recorded, caVars, runVars>>

\* pg_advisory_lock waits until no other session has the lock.
Lock(s) ==
  /\ pc[s] = "lock" /\ lock = NoServer
  /\ lock' = s /\ Goto(s, "check")
  /\ UNCHANGED <<at, applied, recorded, caVars, runVars>>

\* SELECT EXISTS: a file that is recorded is skipped.
Check(s) ==
  /\ pc[s] = "check" /\ at[s] <= FilesOf[s]
  /\ IF at[s] \in recorded
     THEN at' = [at EXCEPT ![s] = @ + 1] /\ UNCHANGED pc
     ELSE Goto(s, "apply") /\ UNCHANGED at
  /\ UNCHANGED <<lock, applied, recorded, caVars, runVars>>

\* Mutant of Apply: an error is logged and the file recorded all the same.
ApplyOrLog(s) ==
  /\ pc[s] = "apply" /\ Goto(s, "record")
  /\ applied' \in {applied, applied \cup {at[s]}}
  /\ UNCHANGED <<at, lock, recorded, caVars, runVars>>

Apply(s) ==
  /\ pc[s] = "apply" /\ Goto(s, "record")
  /\ applied' = applied \cup {at[s]}
  /\ UNCHANGED <<at, lock, recorded, caVars, runVars>>

\* INSERT INTO schema_migrations; a second row of this name would be an error.
Record(s) ==
  /\ pc[s] = "record" /\ at[s] \notin recorded
  /\ recorded' = recorded \cup {at[s]}
  /\ at' = [at EXCEPT ![s] = @ + 1] /\ Goto(s, "check")
  /\ UNCHANGED <<lock, applied, caVars, runVars>>

Unlock(s) ==
  /\ pc[s] = "check" /\ at[s] > FilesOf[s]
  /\ lock' = NoServer /\ Goto(s, "connect")
  /\ UNCHANGED <<at, applied, recorded, caVars, runVars>>

\* Graph, Redis and Kafka answer, the data directory exists.
Connect(s) ==
  /\ pc[s] = "connect" /\ Goto(s, "stat")
  /\ UNCHANGED <<schemaVars, caVars, runVars>>

-----------------------------------------------------------------------------
(* LoadOrCreateCA                                                          *)

Generating(s) == pc[s] \in {"cert", "key"}

\* Mutant of Stat: every start makes a CA.
StatAlways(s) ==
  /\ pc[s] = "stat" /\ newest' = newest + 1
  /\ ca' = [ca EXCEPT ![s] = [cert |-> newest', key |-> newest']]
  /\ raced' = (raced \/ \E t \in Server : Generating(t))
  /\ Goto(s, "cert")
  /\ UNCHANGED <<certFile, keyFile, issued, schemaVars, runVars>>

\* os.Stat(certPath): only the certificate is looked for.
Stat(s) ==
  /\ pc[s] = "stat"
  /\ \/ /\ certFile = Absent
        /\ newest' = newest + 1
        /\ ca' = [ca EXCEPT ![s] = [cert |-> newest', key |-> newest']]
        /\ raced' = (raced \/ \E t \in Server : Generating(t))
        /\ Goto(s, "cert")
     \/ certFile # Absent /\ Goto(s, "load") /\ UNCHANGED <<ca, newest, raced>>
  /\ UNCHANGED <<certFile, keyFile, issued, schemaVars, runVars>>

WriteCert(s) ==
  /\ pc[s] = "cert" /\ certFile' = ca[s].cert /\ Goto(s, "key")
  /\ UNCHANGED <<ca, keyFile, newest, raced, issued, schemaVars, runVars>>

WriteKey(s) ==
  /\ pc[s] = "key" /\ keyFile' = ca[s].key /\ Goto(s, "start")
  /\ UNCHANGED <<ca, certFile, newest, raced, issued, schemaVars, runVars>>

LoadCert(s) ==
  /\ pc[s] = "load" /\ certFile \in CA
  /\ ca' = [ca EXCEPT ![s].cert = certFile] /\ Goto(s, "loadKey")
  /\ UNCHANGED <<certFile, keyFile, newest, raced, issued, schemaVars, runVars>>

\* That the key is the certificate's is not checked.
LoadKey(s) ==
  /\ pc[s] = "loadKey" /\ keyFile \in CA
  /\ ca' = [ca EXCEPT ![s].key = keyFile] /\ Goto(s, "start")
  /\ UNCHANGED <<certFile, keyFile, newest, raced, issued, schemaVars, runVars>>

\* No PEM block in the file, or no file: log.Fatalf, like Die, at every start.
Reject(s) ==
  /\ \/ pc[s] = "load" /\ certFile \notin CA
     \/ pc[s] = "loadKey" /\ keyFile \notin CA
  /\ Goto(s, "down") /\ ca' = [ca EXCEPT ![s] = NoCA]
  /\ UNCHANGED <<certFile, keyFile, newest, raced, issued, schemaVars, runVars>>

-----------------------------------------------------------------------------
(* Workers, HTTP, the end                                                  *)

StartWorker(s) ==
  /\ pc[s] = "start" /\ workers[s] < Workers
  /\ workers' = [workers EXCEPT ![s] = @ + 1]
  /\ UNCHANGED <<pc, failures, schemaVars, caVars>>

Listen(s) ==
  /\ pc[s] = "start" /\ workers[s] = Workers /\ Goto(s, "up")
  /\ UNCHANGED <<schemaVars, caVars, runVars>>

\* SignPublicKey for an agent that enrolls; x509 refuses a key that is not the
\* certificate's, and the request fails after its token was used up.
Sign(s) ==
  /\ pc[s] = "up"
  /\ issued' = issued \cup (IF ca[s].key = ca[s].cert THEN {ca[s].cert} ELSE {})
  /\ UNCHANGED <<pc, ca, certFile, keyFile, newest, raced, schemaVars, runVars>>

\* A signal, or an error of a worker or of the listener: the workers are cancelled.
Stop(s) ==
  /\ pc[s] = "up" /\ failures < MaxFailures /\ failures' = failures + 1
  /\ workers' = [workers EXCEPT ![s] = 0] /\ Goto(s, "stopping")
  /\ UNCHANGED <<schemaVars, caVars>>

\* Mutant of Shutdown: no limit, and a request that does not end.
ShutdownWaits(s) == pc[s] = "stopping" /\ UNCHANGED vars

\* Requests end, or 15 seconds pass; the deferred Close calls.
Shutdown(s) ==
  /\ pc[s] = "stopping" /\ Goto(s, "down")
  /\ ca' = [ca EXCEPT ![s] = NoCA]
  /\ UNCHANGED <<certFile, keyFile, newest, raced, issued, schemaVars, runVars>>

\* Anything fails (log.Fatalf), or the process is killed.  The session's lock is
\* released; the file it was writing may be left empty.
Die(s) ==
  /\ pc[s] # "down" /\ Goto(s, "down")
  /\ failures < MaxFailures /\ failures' = failures + 1
  /\ lock' = IF lock = s THEN NoServer ELSE lock
  /\ certFile' \in {certFile, IF pc[s] = "cert" THEN Blank ELSE certFile}
  /\ keyFile' \in {keyFile, IF pc[s] = "key" THEN Blank ELSE keyFile}
  /\ ca' = [ca EXCEPT ![s] = NoCA] /\ workers' = [workers EXCEPT ![s] = 0]
  /\ UNCHANGED <<at, applied, recorded, newest, raced, issued>>

-----------------------------------------------------------------------------
Init ==
  /\ pc = [s \in Server |-> "down"] /\ at = [s \in Server |-> 1]
  /\ lock = NoServer /\ applied = {} /\ recorded = {}
  /\ ca = [s \in Server |-> NoCA] /\ certFile = Absent /\ keyFile = Absent
  /\ newest = Blank /\ raced = FALSE /\ issued = {}
  /\ workers = [s \in Server |-> 0] /\ failures = 0

Step(s) ==
  \/ Start(s) \/ Lock(s) \/ Check(s) \/ Apply(s) \/ Record(s) \/ Unlock(s) \/ Connect(s)
  \/ Stat(s) \/ WriteCert(s) \/ WriteKey(s) \/ LoadCert(s) \/ LoadKey(s) \/ Reject(s)
  \/ StartWorker(s) \/ Listen(s) \/ Shutdown(s)

Next == \E s \in Server : Step(s) \/ Sign(s) \/ Stop(s) \/ Die(s)

Spec == Init /\ [][Next]_vars

\* A process runs on, and docker starts a server that has ended ("restart:
\* unless-stopped").
Fairness == \A s \in Server : WF_vars(Step(s))
FairSpec == Spec /\ Fairness

-----------------------------------------------------------------------------
Migrating == {"check", "apply", "record"}

\* Every variable has its type; the advisory lock belongs to the one server that is
\* at the migrations.
TypeOK ==
  /\ pc \in [Server -> Migrating \cup {"down", "lock", "connect", "stat", "cert", "key", "load",
                                       "loadKey", "start", "up", "stopping"}]
  /\ at \in [Server -> Nat \ {0}]
  /\ lock \in Server \cup {NoServer} /\ \A s \in Server : lock = s <=> pc[s] \in Migrating
  /\ applied \subseteq Nat /\ recorded \subseteq applied
  /\ ca \in [Server -> [cert : 0..newest, key : 0..newest]]
  /\ certFile \in 0..newest /\ keyFile \in 0..newest /\ newest \in Nat \ {0}
  /\ issued \subseteq Nat /\ raced \in BOOLEAN /\ failures \in 0..MaxFailures
  /\ workers \in [Server -> 0..Workers]

\* Migrations are executed in order, each after its predecessors are recorded, and
\* never once one is recorded itself ("concurrent servers don't race during
\* startup"): what a server has read of schema_migrations is true when it acts.
MigratesInOrder ==
  /\ \A f \in applied : 1..(f - 1) \subseteq recorded
  /\ \A s \in Server : pc[s] \in {"apply", "record"} => at[s] \notin recorded

\* No worker and no handler runs on a schema that lacks a migration of its version,
\* whichever servers died over the migrations.
WorksOnSchema ==
  \A s \in Server : workers[s] > 0 \/ pc[s] = "stopping" => 1..FilesOf[s] \subseteq applied

\* Unless two servers were generating a CA at the same time, every server that works
\* can sign, and every certificate an agent has ever got is of the one CA that all of
\* them hand out: no start that broke off leaves a second one.
OneCA ==
  ~raced =>
    /\ \A s \in Server : pc[s] \in {"start", "up", "stopping"} =>
         ca[s] = [cert |-> certFile, key |-> certFile]
    /\ issued \subseteq {certFile}

\* The files of a start that broke off: no server starts with them, and none makes
\* new ones.
BrokenCA ==
  /\ certFile # Absent /\ (certFile \notin CA \/ keyFile \notin CA)
  /\ \A s \in Server : ~Generating(s)

\* When nothing fails any more every server gets up, unless the files of the CA are
\* broken: no death leaves the migrations locked, half done or refused.
Starts == <>[](BrokenCA \/ \A s \in Server : pc[s] = "up")

-----------------------------------------------------------------------------
(* What these invariants rest on (ServerStartProofs).                      *)

Past == {"connect", "stat", "cert", "key", "load", "loadKey", "start", "up", "stopping"}
Working == {"start", "up", "stopping"}

\* How far the server at the migrations is, and that they are behind the others.
Migrated ==
  /\ \A f \in applied : f # 0 /\ 1..(f - 1) \subseteq recorded
  /\ \A s \in Server :
       /\ pc[s] = "lock" => at[s] = 1
       /\ pc[s] \in Migrating => 1..(at[s] - 1) \subseteq recorded
       /\ pc[s] \in {"apply", "record"} => at[s] \notin recorded
       /\ pc[s] = "record" => at[s] \in applied
       /\ pc[s] \in Past => 1..FilesOf[s] \subseteq recorded
       /\ workers[s] > 0 => pc[s] \in {"start", "up"}

\* The files, and what the servers have of them, as long as nobody raced: a server
\* that generates a CA is the first and the only one.
Files ==
  /\ \A s \in Server, t \in Server : Generating(s) /\ Generating(t) => s = t
  /\ keyFile \in CA => keyFile = certFile
  /\ certFile = Absent => keyFile = Absent
  /\ \A s \in Server :
       /\ Generating(s) => keyFile = Absent /\ ca[s].cert \in CA /\ ca[s].key = ca[s].cert
       /\ pc[s] = "cert" => certFile = Absent
       /\ pc[s] = "key" => certFile = ca[s].cert
       /\ pc[s] = "loadKey" => certFile \in CA /\ ca[s].cert = certFile
       /\ pc[s] \in Working => keyFile \in CA /\ ca[s] = [cert |-> certFile, key |-> certFile]
  /\ issued \subseteq {certFile} /\ (issued # {} => keyFile \in CA)

IInv == TypeOK /\ Migrated /\ (~raced => Files)

=============================================================================
